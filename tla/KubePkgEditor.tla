----------------------------- MODULE KubePkgEditor -----------------------------
(***************************************************************************)
(* The editor of a deployment (src/webapp/dashboard/mod/kubepkg) from the  *)
(* row it is opened for to the row it leaves.  The row is read against its *)
(* revision, the template, for the settings it has; these are put over the *)
(* template of the revision that is chosen; the document is edited and,    *)
(* when the linter finds nothing, submitted.  The server reads it into its *)
(* structs, keeps what they say otherwise than the template, and a row     *)
(* shows that put over the template: merged here after a put, and by the   *)
(* server in the list.                                                     *)
(***************************************************************************)
EXTENDS KubePkgSchema

CONSTANTS
  Templates,   \* the revisions, each a document with a spec
  EditedPaths, \* where a user edits a document
  Written(_),  \* what is written at a path
  MaxEdits,    \* bound on the edits of a document, one less after each put
  MaxPuts      \* bound on the documents submitted

Config == <<"spec", "config">>
Version == <<"spec", "version">>

ASSUME KeysAssumption ==
  {"spec", "config", "version"} \union {Escapes[n] : n \in 1..3} \subseteq Keys
ASSUME BoundsAssumption == MaxEdits \in Nat /\ MaxPuts \in Nat

(* A revision, as the server encodes it.  What Go encodes as null is taken *)
(* for what is not there: the rules of a service account that has none, and*)
(* what a workload's spec always has.                                      *)
ASSUME TemplatesAssumption ==
  \A t \in Templates :
    /\ IsTree(t) /\ IsObject(t, <<>>) /\ IsObject(t, <<"spec">>)
    /\ Config \in DOMAIN t => IsObject(t, Config)
    /\ CloneWithoutNull(t) = t

(* What is written at a path is a document as seen from there.  A key with *)
(* a slash is one of a text: no container and no volume has it for a name. *)
ASSUME EditsAssumption ==
  \A path \in EditedPaths : path \in Paths \ {<<>>} /\
    \A v \in Written(path) :
      /\ path \in DOMAIN v
      /\ \A p \in DOMAIN v : Slashed(p) => v[p] \notin Containers
      /\ \A p \in DOMAIN v : p \in Paths /\ Within(p, path) /\
           \A q \in Above(p) : Within(q, path) => q \in DOMAIN v /\ v[q] \in Containers

ASSUME DefinitionsAssumption == Definitions["Spec"].is = "object"

VARIABLES
  deployed,    \* the template deployed, its overwrites, and what was meant
  row,         \* the spec the row shows
  editor,      \* the editor, None when it is closed
  puts         \* how many documents were submitted

vars == <<deployed, row, editor, puts>>

None == [template |-> Undefined]

-----------------------------------------------------------------------------
(* diffAsOverwrites: the settings of a row, its config always.  Pointers   *)
(* are taken for paths again without unescaping their keys.                *)
\* Mutant: what a row adds to its template is no setting.
Settings_Modified(template, shown) ==
  LET changed == {d.path : d \in {c \in Diff(shown, template) : c.type = "m"}}
      pointers == {Compile(t) : t \in changed}
      said == [to \in {p \in pointers : Above(p) \intersect pointers = {}} |->
                 CHOOSE t \in changed : Compile(t) = to]
      config == Over([p \in {<<>>, <<"spec">>, Config} |-> ObjectNode], At(template, Config))
  IN CloneWithoutNull(SetAll(config, said, shown))
Settings(template, shown) ==
  LET changed == {d.path : d \in {c \in Diff(shown, template) : c.type \in {"m", "a"}}}
      pointers == {Compile(t) : t \in changed}
      said == [to \in {p \in pointers : Above(p) \intersect pointers = {}} |->
                 CHOOSE t \in changed : Compile(t) = to]
      config == Over([p \in {<<>>, <<"spec">>, Config} |-> ObjectNode], At(template, Config))
  IN CloneWithoutNull(SetAll(config, said, shown))

(* A template in the editor, with the settings it was opened with put over *)
(* it, except the version.                                                 *)
Edited(template, settings) ==
  [template |-> template, settings |-> settings, broken |-> FALSE, edits |-> 0, marks |-> {},
   doc |-> CloneWithoutNull(Merge(template, Without(settings, Version)))]

Open ==
  /\ editor = None /\ puts < MaxPuts
  /\ editor' = Edited(deployed.template, Settings(deployed.template, row))
  /\ UNCHANGED <<deployed, row, puts>>

Choose(template) ==
  /\ editor # None /\ template # editor.template
  /\ editor' = Edited(template, editor.settings)
  /\ UNCHANGED <<deployed, row, puts>>

Close ==
  /\ editor # None
  /\ editor' = None
  /\ UNCHANGED <<deployed, row, puts>>

-----------------------------------------------------------------------------
(* The lines marked: what is visited of what differs from the template.    *)
(* They stay when nothing differs any more, and when nothing parses.       *)
Changed(doc, template) == {Compile(d.path) : d \in Diff(doc, CloneWithoutNull(template))}
\* Mutant: marks are added and never removed.
Remarked_Adding(doc, broken) ==
  IF broken THEN editor.marks
  ELSE editor.marks \union (Changed(doc, editor.template) \intersect WalkNode(doc))
Remarked(doc, broken) ==
  LET changed == Changed(doc, editor.template)
  IN IF broken \/ changed = {} THEN editor.marks ELSE changed \intersect WalkNode(doc)

(* The view is scrolled, or the document becomes another.                  *)
Scroll ==
  /\ editor # None
  /\ editor' = [editor EXCEPT !.marks = Remarked(editor.doc, editor.broken)]
  /\ UNCHANGED <<deployed, row, puts>>

Becomes(doc, broken) ==
  /\ editor # None /\ editor.edits + puts < MaxEdits
  /\ editor' = [editor EXCEPT !.doc = doc, !.broken = broken, !.edits = @ + 1,
                  !.marks = Remarked(doc, broken)]
  /\ UNCHANGED <<deployed, row, puts>>

Write(path) ==
  /\ editor # None /\ IsObject(editor.doc, Front(path))
  /\ \E v \in Written(path) :
       At(editor.doc, path) # v /\ Becomes(SetAll(editor.doc, Single(path, path), v), FALSE)

Erase(path) ==
  /\ editor # None /\ path \in DOMAIN editor.doc /\ IsObject(editor.doc, Front(path))
  /\ Becomes(Without(editor.doc, path), FALSE)

(* Half of an edit: the text does not parse.                               *)
Break ==
  /\ editor # None /\ ~editor.broken
  /\ Becomes(editor.doc, TRUE)

-----------------------------------------------------------------------------
(* What the server takes of a document.  It is decoded into structs: what  *)
(* they have no field for is ignored, and an optional field that is empty -*)
(* a text, a list or a map - is left out when they are encoded again.      *)
SpecOf(doc) == Restrict(doc, {p \in DOMAIN doc : Within(p, <<"spec">>) \/ p = <<>>})

Forgotten(spec) ==
  LET Of(p) == ObjectOf(Along(ValidatedBy, EditorSchema, spec, Front(p)), spec, Front(p))
      IsMap(s) == s.is = "object" /\ s.props = <<>>
      Empty(p) ==
        /\ spec[p] = Text("") \/ (spec[p] \in Containers /\ Children(spec, p) = {})
        /\ spec[p] = ObjectNode => IsMap(Prop(Of(p), Last(p)))
  IN {p \in DOMAIN spec \ {<<>>} :
        \/ ~Declared(EditorSchema, spec, p)
        \/ Of(p) # NoSchema /\ Last(p) \in DOMAIN Of(p).props \ Of(p).required /\ Empty(p)}
Decoded(spec) ==
  LET forgotten == Forgotten(spec)
  IN Restrict(spec, {p \in DOMAIN spec : \A q \in forgotten : ~Within(p, q)})

(* What is of another type is refused.                                     *)
Decodes(spec) == \A f \in Failures(EditorSchema, spec) : f.kind = "never"

\* Mutant: the nulls of the document are submitted, which Go decodes.
Submit_Nulls ==
  /\ editor # None /\ ~editor.broken
  /\ Diagnostics(EditorSchema, editor.doc) = {}
  /\ LET spec == SpecOf(editor.doc)
         overwrites == DiffObj(editor.template, Decoded(spec))
     IN /\ deployed' = [template |-> editor.template, overwrites |-> overwrites, meant |-> spec]
        /\ row' = Merge(editor.template, overwrites)
  /\ editor' = None
  /\ puts' = puts + 1

\* Mutant: what the server kept is merged into the row there was.
Submit_OntoRow ==
  /\ editor # None /\ ~editor.broken
  /\ Diagnostics(EditorSchema, editor.doc) = {}
  /\ LET spec == SpecOf(CloneWithoutNull(editor.doc))
         overwrites == DiffObj(editor.template, Decoded(spec))
     IN /\ Decodes(spec)
        /\ deployed' = [template |-> editor.template, overwrites |-> overwrites, meant |-> spec]
        /\ row' = Merge(row, overwrites)
  /\ editor' = None
  /\ puts' = puts + 1

(* execute, and the put of it: linted, without nulls, decoded and diffed by*)
(* the server with the template, merged into the row.  A document that is  *)
(* refused changes nothing, and the editor stays.  Lint and submit are one *)
(* step: the timer between them is of no time, and an edit in between,     *)
(* which would not be linted, is left out, and so is a lint that throws.   *)
Submit ==
  /\ editor # None /\ ~editor.broken
  /\ Diagnostics(EditorSchema, editor.doc) = {}
  /\ LET spec == SpecOf(CloneWithoutNull(editor.doc))
         overwrites == DiffObj(editor.template, Decoded(spec))
     IN /\ Decodes(spec)
        /\ deployed' = [template |-> editor.template, overwrites |-> overwrites, meant |-> spec]
        /\ row' = Merge(editor.template, overwrites)
  /\ editor' = None
  /\ puts' = puts + 1

(* The list is answered: merged by the server.                             *)
Listed ==
  /\ editor = None
  /\ row' = MergeObj(deployed.template, deployed.overwrites)
  /\ UNCHANGED <<deployed, editor, puts>>

-----------------------------------------------------------------------------
Init ==
  /\ \E t \in Templates :
       deployed = [template |-> t, overwrites |-> Undefined, meant |-> t] /\ row = t
  /\ editor = None /\ puts = 0

Next ==
  \/ Open \/ Close \/ Submit \/ Listed \/ Break \/ Scroll
  \/ \E t \in Templates : Choose(t)
  \/ \E path \in EditedPaths : Write(path) \/ Erase(path)

Spec == Init /\ [][Next]_vars

-----------------------------------------------------------------------------
(* Documents are trees, and what is submitted has no null in it.           *)
TypeOK ==
  /\ deployed.template \in Templates /\ IsTree(deployed.overwrites) /\ IsTree(deployed.meant)
  /\ IsObject(deployed.meant, <<"spec">>)
  /\ CloneWithoutNull(deployed.meant) = deployed.meant
  /\ IsTree(row) /\ puts \in 0..MaxPuts
  /\ editor # None =>
       /\ editor.template \in Templates /\ IsTree(editor.settings) /\ IsTree(editor.doc)
       /\ IsObject(editor.doc, <<>>)
       /\ editor.broken \in BOOLEAN /\ editor.edits \in 0..MaxEdits

-----------------------------------------------------------------------------
(* What a row shows when the server merges it.                             *)
AsListed == MergeObj(deployed.template, deployed.overwrites)

(* What is deployed is what was submitted: all that is lost between the    *)
(* document and the row is what was taken out of the template, what its    *)
(* schema does not declare, what is optional and empty, the objects in a   *)
(* list of the same length, and an object in place of what is none.        *)
SubmittedIsDeployed ==
  LET old == deployed.template
      meant == deployed.meant
      listed == AsListed
      forgotten == Forgotten(meant)
  IN \A p \in Leaves(meant) :
       \/ At(listed, p) = At(meant, p)
       \/ /\ IsArray(meant, p) /\ IsArray(old, p) /\ Children(meant, p) = Children(old, p)
          /\ \E q \in DOMAIN meant : Within(q, p) /\ meant[q] = ObjectNode
       \/ \E q \in forgotten : Within(p, q) \/ Within(q, p)
       \/ \E q \in Above(p) \intersect DOMAIN old : ~IsObject(old, q)

(* The two merges agree: the row a put leaves is that of the next list,    *)
(* but for lists that became shorter or have objects or lists in them.     *)
RowAsListed ==
  LET listed == AsListed
      Replaces(p) ==
        /\ Children(deployed.template, p) \subseteq Children(listed, p)
        /\ \A q \in Children(listed, p) : listed[q] \notin {ObjectNode, ArrayNode}
  IN /\ Leaves(row) = Leaves(listed)
     /\ \A p \in Leaves(row) :
          At(row, p) = At(listed, p) \/ (IsArray(row, p) /\ ~Replaces(p))

(* Through the diff and the merge of the editor another revision keeps     *)
(* what the row says otherwise than its own, and for the rest is as its    *)
(* template says: except the version, a config key of the old template,    *)
(* which stays as it was, the end of a longer list, keys with a slash, and *)
(* what is an object for one of them and none for another.                 *)
SettingsCarriedOver ==
  LET docs == {row, deployed.template, editor.template}
      InPlace(p) == \A v \in docs :
        ~IsObject(v, p) /\ \A q \in Above(p) \intersect DOMAIN v : IsObject(v, q)
      Keeps(p, v) ==
        IF IsArray(v, p) THEN \A q \in DOMAIN At(v, p) : q \in DOMAIN editor.doc /\ editor.doc[q] = v[q]
        ELSE At(editor.doc, p) = At(v, p)
  IN editor # None /\ editor.edits = 0 =>
       \A p \in Leaves(row) \union Leaves(editor.template) :
         \/ Slashed(p) \/ ~InPlace(p)
         \/ IF Within(p, Version) THEN At(editor.doc, p) = At(editor.template, p)
            ELSE IF At(row, p) \notin {Undefined, At(deployed.template, p)} THEN Keeps(p, row)
            ELSE IF Within(p, Config) /\ p \in DOMAIN deployed.template
              THEN Keeps(p, deployed.template)
            ELSE At(editor.doc, p) = At(editor.template, p)

(* As long as the document differs from the template, what is marked is    *)
(* what differs: but below a key with a slash, where it is looked for in   *)
(* vain.                                                                   *)
MarkedIsChanged ==
  LET changes == Diff(editor.doc, CloneWithoutNull(editor.template))
  IN editor # None /\ editor.edits > 0 /\ ~editor.broken /\ changes # {} =>
       /\ editor.marks \subseteq {Compile(d.path) : d \in changes}
       /\ \A d \in changes :
            d.type = "d" \/ Slashed(Front(d.path)) \/ Compile(d.path) \in editor.marks

(* Of a document the linter lets through, which still has its nulls,       *)
(* nothing is sent that its schema refuses: but for properties it does not *)
(* declare, which are not reported, and for keys with a slash, where the   *)
(* report is looked for in vain.                                           *)
SubmittedIsValid ==
  editor # None /\ ~editor.broken /\ Diagnostics(EditorSchema, editor.doc) = {} =>
    \A f \in Failures(EditorSchema, SpecOf(CloneWithoutNull(editor.doc))) :
      f.kind = "never" \/ Slashed(f.path)

(* In an object a key is only offered if it is declared there and not there*)
(* yet, but in the root, where it may be; and so is it on a name in the    *)
(* root, but not below it, where it is one of the root's.  A key that is   *)
(* missing is offered where it misses, but not in the items of a list.     *)
CompletionsFit ==
  LET doc == editor.doc
      Offered(pos) == Completions(EditorSchema, doc, pos)
      Renamed(pos) == NameCompletions(EditorSchema, doc, pos)
      InList(pos) == \E p \in Above(pos) : IsArray(doc, p)
  IN editor # None =>
       /\ \A pos \in DOMAIN doc : IsObject(doc, pos) =>
            \A key \in Offered(pos) \union (IF pos = <<>> THEN Renamed(pos) ELSE {}) :
              LET at == Append(pos, key)
              IN /\ pos = <<>> \/ at \notin DOMAIN doc \/ doc[at] \in Falsy
                 /\ Declared(EditorSchema, SetAll(doc, Single(at, at), Single(at, ObjectNode)), at)
       /\ \A f \in Failures(EditorSchema, doc) :
            f.kind = "missing" /\ ~InList(f.path) => Last(f.path) \in Offered(Front(f.path))
=============================================================================
