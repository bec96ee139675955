------------------------------ MODULE JSONSchemas ------------------------------
(***************************************************************************)
(* The schemas of the JSON editor (src/nodepkg/jsonschema and              *)
(* src/nodepkg/codemirror/src/json): what a document fails by, which of it *)
(* the editor reports, and what it offers to complete.                     *)
(***************************************************************************)
EXTENDS JSONValues

CONSTANT Definitions   \* [name -> the schema a $ref to it stands for]

Schema(is, props, required, rest, enum) ==
  [is |-> is, props |-> props, required |-> required, rest |-> rest, enum |-> enum]
NoSchema == [is |-> "none"]
StringType == Schema("string", <<>>, {}, NoSchema, {})
EnumType(values) == Schema("string", <<>>, {}, NoSchema, values)
ArrayType(items) == Schema("array", <<>>, {}, items, {})
RefType(name) == Schema("ref", <<>>, {}, NoSchema, {name})
ObjectType(props, required) == Schema("object", props, required, NoSchema, {})
RecordType(values) == Schema("object", <<>>, {}, values, {})

(* A union by what `on` says: each object has that as a property.          *)
UnionType(on, objects) ==
  Schema("union",
         [v \in DOMAIN objects |->
            [objects[v] EXCEPT !.props = (on :> EnumType({v})) @@ @,
                               !.required = @ \union {on}]],
         {on}, NoSchema, DOMAIN objects)

(* SchemaType.indirect, and the key a union is told apart by.              *)
Underlying(s) ==
  IF s.is = "ref" THEN Definitions[CHOOSE name \in s.enum : TRUE] ELSE s
Discriminator(s) == CHOOSE k \in s.required : TRUE

(* mapping: the object of a union that the value at a path is of.          *)
Falsy == {Null, Text(""), Number("0")}
Mapping(s, v, path) ==
  LET kind == Append(path, Discriminator(s))
  IN IF kind \in DOMAIN v /\ v[kind] \notin Falsy /\ v[kind].is = "text" /\ v[kind].leaf \in s.enum
       THEN s.props[v[kind].leaf] ELSE NoSchema

(* prop: declared, or of a record.                                         *)
Prop(s, key) == Underlying(IF key \in DOMAIN s.props THEN s.props[key] ELSE s.rest)

(* The schema at a path, when Of says which one a key of a value has.      *)
Along(Of(_, _, _, _), schema, v, path) ==
  LET at[n \in 0..Len(path)] ==
        IF n = 0 THEN Underlying(schema) ELSE Of(at[n - 1], v, SubSeq(path, 1, n - 1), path[n])
  IN at[Len(path)]

-----------------------------------------------------------------------------
(* An array has no schema for its first item, whose index is no index.     *)
Index(i) == <<"0", "1", "2", "3">>[i]
ItemAt(s, key) == IF key = Index(1) THEN NoSchema ELSE Underlying(s.rest)

(* A union asks the object the value is of, and then knows its own key,    *)
(* whatever is looked for below it.                                        *)
KindsType(s) == Schema("kinds", <<>>, {}, NoSchema, s.enum)
KindAt(s, v, path, key) ==
  LET matched == Mapping(s, v, path)
      found == IF matched = NoSchema THEN NoSchema ELSE Prop(matched, key)
  IN IF found # NoSchema THEN found
     ELSE IF key = Discriminator(s) THEN KindsType(s) ELSE NoSchema

PropAt(s, v, path, key) ==
  CASE s.is = "array" -> ItemAt(s, key)
    [] s.is = "object" -> Prop(s, key)
    [] s.is = "union" -> KindAt(s, v, path, key)
    [] s.is = "kinds" -> s
    [] OTHER -> NoSchema

(* resolve: the schema of what is at a position, NoSchema if there is none.*)
SchemaAt(schema, v, path) == Along(PropAt, schema, v, path)

\* Mutant: the keys of every object of a union are offered.
Completions_AnyKind(schema, doc, path) ==
  LET s == SchemaAt(schema, doc, path)
      Lacking(keys) == {k \in keys : Append(path, k) \notin DOMAIN doc}
      kind == Append(path, Discriminator(s))
  IN IF s = NoSchema THEN {}
     ELSE IF ~IsObject(doc, path) THEN IF s.is \in {"string", "kinds"} THEN s.enum ELSE {}
     ELSE IF path # <<>> /\ IsArray(doc, Front(path)) THEN {}
     ELSE IF s.is # "union" THEN Lacking(DOMAIN s.props)
     ELSE IF kind \notin DOMAIN doc \/ doc[kind] \in Falsy THEN {Discriminator(s)}
     ELSE Lacking(UNION {DOMAIN s.props[k].props : k \in s.enum})

(* What is offered for a position: keys in an object, values in a text.    *)
(* The last of the path tells which keys are there.  In an item of an array*)
(* the look at it fails; for the root there is none: no key of it is seen, *)
(* and a union's kind is looked for in vain.                               *)
Completions(schema, doc, path) ==
  LET s == SchemaAt(schema, doc, path)
      Lacking(keys) == {k \in keys : path = <<>> \/ Append(path, k) \notin DOMAIN doc}
      kind == Append(path, Discriminator(s))
  IN IF s = NoSchema THEN {}
     ELSE IF ~IsObject(doc, path) THEN IF s.is \in {"string", "kinds"} THEN s.enum ELSE {}
     ELSE IF path # <<>> /\ IsArray(doc, Front(path)) THEN {}
     ELSE IF s.is # "union" THEN Lacking(DOMAIN s.props)
     ELSE IF path = <<>> THEN {}
     ELSE IF kind \notin DOMAIN doc \/ doc[kind] \in Falsy THEN {Discriminator(s)}
     ELSE IF Mapping(s, doc, path) = NoSchema THEN {}
     ELSE Lacking(DOMAIN Mapping(s, doc, path).props)

(* What is offered on the name of a property of the object at a path: of   *)
(* the path to it only the items of arrays are kept, so that in the objects*)
(* of any depth it is what is offered in the root, and in arrays nothing.  *)
NameCompletions(schema, doc, path) ==
  IF \E p \in Above(path) : IsArray(doc, p) THEN {} ELSE Completions(schema, doc, <<>>)

-----------------------------------------------------------------------------
(* What a document fails by (external): where, and whether something       *)
(* declared is not there, or something there is not declared.              *)
Failure(path, kind) == [path |-> path, kind |-> kind]

(* The object the value at a path is validated by, if any.                 *)
ObjectOf(s, v, path) ==
  CASE s.is = "object" /\ IsObject(v, path) -> s
    [] s.is = "union" /\ IsObject(v, path) -> Mapping(s, v, path)
    [] OTHER -> NoSchema
ValidatedBy(s, v, path, key) ==
  IF s.is = "array" /\ IsArray(v, path) THEN Underlying(s.rest)
  ELSE IF ObjectOf(s, v, path) = NoSchema THEN NoSchema
  ELSE Prop(ObjectOf(s, v, path), key)

Fits(s, v, path) ==
  \/ s = NoSchema
  \/ s.is = "string" /\ v[path].is = "text" /\ (s.enum = {} \/ v[path].leaf \in s.enum)
  \/ s.is = "array" /\ IsArray(v, path)
  \/ s.is \in {"object", "union"} /\ IsObject(v, path)

(* What an object has to have, and whether the key at the end of a path is *)
(* declared by the object it is in.                                        *)
Required(o) == {k \in o.required \intersect DOMAIN o.props : Prop(o, k) # NoSchema}
Declared(schema, v, path) ==
  LET o == ObjectOf(Along(ValidatedBy, schema, v, Front(path)), v, Front(path))
  IN o = NoSchema \/ Last(path) \in DOMAIN o.props \/ o.rest # NoSchema

Failures(schema, v) ==
  LET S == [p \in DOMAIN v |-> Along(ValidatedBy, schema, v, p)]
      O == [p \in DOMAIN v |-> ObjectOf(S[p], v, p)]
      objects == {p \in DOMAIN v : O[p] # NoSchema}
      unions == {p \in DOMAIN v \ objects : S[p].is = "union" /\ IsObject(v, p)}
      Kind(p) == Append(p, Discriminator(S[p]))
  IN {Failure(p, "type") : p \in {q \in DOMAIN v : ~Fits(S[q], v, q)}}
     \union {Failure(Kind(p), IF Kind(p) \in DOMAIN v THEN "type" ELSE "missing") : p \in unions}
     \union (UNION {{Failure(Append(p, k), "missing") :
                       k \in {r \in Required(O[p]) : Append(p, r) \notin DOMAIN v}} : p \in objects})
     \union {Failure(p, "never") : p \in {q \in DOMAIN v \ {<<>>} : ~Declared(schema, v, q)}}

\* Mutant: what is missing is reported where it should be.
Reported_Missing(failures) ==
  {IF f.path = <<>> THEN <<"">> ELSE Joined(f.path) : f \in {g \in failures : g.kind # "never"}}
(* validate: what is reported, at a path joined without escapes; what is   *)
(* missing at what it misses from, what is undeclared not at all.          *)
Reported(failures) ==
  LET Loc(f) == IF f.kind = "missing" THEN Front(f.path) ELSE f.path
  IN {IF Loc(f) = <<>> THEN <<"">> ELSE Joined(Loc(f)) :
        f \in {g \in failures : g.kind # "never"}}

(* The diagnostics of a document: what is reported and visited.            *)
Diagnostics(schema, doc) == Reported(Failures(schema, doc)) \intersect WalkNode(doc)
=============================================================================
