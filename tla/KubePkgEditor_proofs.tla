------------------------- MODULE KubePkgEditor_proofs --------------------------
(***************************************************************************)
(* Proofs about the editor of a deployment, for all revisions, edits and    *)
(* schemas: its inductive invariant, and what follows from it.              *)
(***************************************************************************)
EXTENDS KubePkgEditor_documents_proofs

-----------------------------------------------------------------------------
(* The inductive invariant.                                                  *)

(* What was submitted has a spec, and what is kept of it is what its structs *)
(* say otherwise than its template.                                          *)
DeployedOK ==
  /\ deployed.template \in Templates
  /\ IsTree(deployed.meant) /\ NullFree(deployed.meant)
  /\ IsObject(deployed.meant, <<>>) /\ IsObject(deployed.meant, <<"spec">>)
  /\ \/ deployed.overwrites = DiffObj(deployed.template, Decoded(deployed.meant))
     \/ deployed.overwrites = Undefined /\ deployed.meant = deployed.template

(* The row shows that put over the template, by the one merge or the other.  *)
RowOK ==
  \/ row = Merge(deployed.template, deployed.overwrites)
  \/ row = MergeObj(deployed.template, deployed.overwrites)

Shaped(e) ==
  e = [template |-> e.template, settings |-> e.settings, broken |-> e.broken,
       edits |-> e.edits, marks |-> e.marks, doc |-> e.doc]

(* The settings are those of the row, and nothing but edits changes what     *)
(* they were put over.                                                       *)
OpenedOK(e) ==
  /\ e.settings = Settings(deployed.template, row)
  /\ e.edits = 0 => e.doc = CloneWithoutNull(Merge(e.template, Without(e.settings, Version)))

(* What is marked once the document was edited.                              *)
MarkedOK(e) ==
  LET changed == Changed(e.doc, e.template)
  IN e.edits > 0 /\ ~e.broken /\ changed # {} => e.marks = changed \intersect WalkNode(e.doc)

EditorOK(e) ==
  /\ Shaped(e) /\ e.template \in Templates /\ IsTree(e.settings) /\ IsTree(e.doc)
  /\ IsObject(e.settings, <<>>) /\ IsObject(e.doc, <<>>)
  /\ e.broken \in BOOLEAN /\ e.edits \in 0..MaxEdits /\ puts < MaxPuts
  /\ OpenedOK(e) /\ MarkedOK(e)

IInv ==
  /\ DeployedOK /\ RowOK /\ puts \in 0..MaxPuts
  /\ editor # None => EditorOK(editor)

LEMMA TemplateIs ==
  ASSUME NEW t \in Templates
  PROVE  /\ IsTree(t) /\ IsObject(t, <<>>) /\ IsObject(t, <<"spec">>) /\ NullFree(t)
         /\ Config \in DOMAIN t => IsObject(t, Config)
BY TemplatesAssumption DEF NullFree

LEMMA OverwritesAre ==
  ASSUME DeployedOK
  PROVE  /\ IsTree(deployed.overwrites) /\ NullFree(deployed.overwrites)
         /\ \A p \in DOMAIN deployed.overwrites :
              p \in DOMAIN deployed.meant /\ deployed.overwrites[p] = deployed.meant[p]
<1>1. CASE deployed.overwrites = DiffObj(deployed.template, Decoded(deployed.meant))
  <2> DEFINE m == deployed.meant
             c == Decoded(m)
  <2>1. IsTree(m) /\ NullFree(m)
    BY DEF DeployedOK
  <2>2. /\ IsTree(c) /\ NullFree(c)
        /\ \A p \in DOMAIN c : p \in DOMAIN m /\ c[p] = m[p]
    <3> HIDE DEF m
    <3> QED BY <2>1, DecodedIs
  <2> HIDE DEF c, m
  <2>3. deployed.overwrites = DiffObj(deployed.template, c)
    BY <1>1 DEF c, m
  <2>4. /\ IsTree(deployed.overwrites) /\ NullFree(deployed.overwrites)
        /\ \A p \in DOMAIN deployed.overwrites :
             p \in DOMAIN c /\ deployed.overwrites[p] = c[p]
    BY <2>2, <2>3, DiffObjTree, DiffObjNullFree, DiffObjIs
  <2> QED BY <2>2, <2>4 DEF m
<1>2. CASE deployed.overwrites = Undefined
  <2>1. DOMAIN Undefined = {}
    BY DEF Undefined
  <2>2. NullFree(deployed.template)
    BY TemplateIs DEF DeployedOK
  <2> QED BY <1>2, <2>1, <2>2, MergeUndefined
<1> QED BY <1>1, <1>2 DEF DeployedOK

LEMMA RowIs ==
  ASSUME DeployedOK, RowOK
  PROVE  IsTree(row) /\ NullFree(row) /\ IsObject(row, <<>>) /\ IsObject(row, <<"spec">>)
<1> DEFINE t == deployed.template
           o == deployed.overwrites
<1>1. /\ IsTree(t) /\ IsObject(t, <<>>) /\ IsObject(t, <<"spec">>) /\ NullFree(t)
  BY TemplateIs DEF DeployedOK
<1>2. IsTree(o) /\ NullFree(o)
  BY OverwritesAre
<1>3. \A p \in {<<>>, <<"spec">>} : p \in DOMAIN o => o[p] = ObjectNode
  BY OverwritesAre DEF DeployedOK, IsObject
<1>4. row = Merge(t, o) \/ row = MergeObj(t, o)
  BY DEF RowOK
<1> HIDE DEF t, o
<1> QED BY <1>1, <1>2, <1>3, <1>4, RowDocument

EditedWith(e, t, s) ==
  /\ Shaped(e) /\ e.template = t /\ e.settings = s /\ e.broken = FALSE /\ e.edits = 0
  /\ e.doc = CloneWithoutNull(Merge(t, Without(s, Version)))
  /\ IsTree(e.doc) /\ IsObject(e.doc, <<>>)

LEMMA EditedIs ==
  ASSUME NEW t \in Templates, NEW s, IsTree(s), IsObject(s, <<>>)
  PROVE  EditedWith(Edited(t, s), t, s)
<1> DEFINE e == Edited(t, s)
           d == CloneWithoutNull(Merge(t, Without(s, Version)))
<1>1. e = [template |-> t, settings |-> s, broken |-> FALSE, edits |-> 0, marks |-> {}, doc |-> d]
  BY DEF Edited
<1>2. IsTree(Without(s, Version)) /\ IsTree(t)
  BY WithoutTree, TemplateIs
<1>3. IsTree(Merge(t, Without(s, Version))) /\ IsTree(d)
  BY <1>2, MergeTree, CloneTree
<1>4. IsObject(d, <<>>)
  <2>1. ~Within(<<>>, Version)
    <3>1. Version # <<>> /\ Version \notin Above(<<>>)
      BY SpecPath, EmptyPath
    <3> QED BY <3>1 DEF Within
  <2>2. <<>> \in DOMAIN Without(s, Version) /\ Without(s, Version)[<<>>] = ObjectNode
    BY <2>1, WithoutIs DEF IsObject
  <2>3. <<>> \in DOMAIN Merge(t, Without(s, Version)) /\ Merge(t, Without(s, Version))[<<>>] = ObjectNode
    BY <2>2, MergeIs
  <2>4. <<>> \in DOMAIN d /\ d[<<>>] = ObjectNode
    BY <2>3, CloneIs DEF Omitted
  <2> QED BY <2>4 DEF IsObject
<1> HIDE DEF d
<1>5. /\ e.template = t /\ e.settings = s /\ e.broken = FALSE /\ e.edits = 0
      /\ e.marks = {} /\ e.doc = d
  BY <1>1
<1>6. Shaped(e)
  BY <1>1, <1>5 DEF Shaped
<1>7. EditedWith(e, t, s)
  <2> HIDE DEF e
  <2> QED BY <1>3, <1>4, <1>5, <1>6 DEF EditedWith, d
<1> QED BY <1>7

LEMMA EditedOK ==
  ASSUME DeployedOK, RowOK, NEW t \in Templates, puts < MaxPuts,
         NEW e, e = Edited(t, Settings(deployed.template, row))
  PROVE  EditorOK(e)
<1> DEFINE s == Settings(deployed.template, row)
<1>1. deployed.template \in Templates
  BY DEF DeployedOK
<1>2. IsTree(s) /\ IsObject(s, <<>>)
  <2>1. /\ IsTree(deployed.template) /\ IsObject(deployed.template, <<>>)
        /\ Config \in DOMAIN deployed.template => IsObject(deployed.template, Config)
    BY <1>1, TemplateIs
  <2>2. IsTree(row) /\ IsObject(row, <<>>)
    BY RowIs
  <2> QED BY <2>1, <2>2, SettingsTree
<1>3. s = Settings(deployed.template, row)
  OBVIOUS
<1> HIDE DEF s
<1>4. e = Edited(t, s)
  BY <1>3
<1>5. /\ Shaped(e) /\ e.template = t /\ e.settings = s /\ e.broken = FALSE /\ e.edits = 0
      /\ e.doc = CloneWithoutNull(Merge(t, Without(s, Version)))
      /\ IsTree(e.doc) /\ IsObject(e.doc, <<>>)
  <2>1. EditedWith(Edited(t, s), t, s)
    BY <1>2, EditedIs
  <2> QED BY <1>4, <2>1 DEF EditedWith
<1>6. OpenedOK(e)
  BY <1>3, <1>5 DEF OpenedOK
<1>7. MarkedOK(e)
  <2>1. ~(e.edits > 0)
    BY <1>5
  <2> DEFINE changed == Changed(e.doc, e.template)
  <2>2. e.edits > 0 /\ ~e.broken /\ changed # {} => e.marks = changed \intersect WalkNode(e.doc)
    BY ONLY <2>1
  <2> QED BY <2>2 DEF MarkedOK
<1>8. e.broken \in BOOLEAN /\ e.edits \in 0..MaxEdits
  <2>1. 0 \in 0..MaxEdits
    BY BoundsAssumption
  <2>2. e.edits = 0
    BY <1>5
  <2>3. e.broken = FALSE
    BY <1>5
  <2> QED BY <2>1, <2>2, <2>3
<1> QED BY <1>2, <1>5, <1>6, <1>7, <1>8 DEF EditorOK

(* Whatever the document becomes, what is marked is looked for anew.         *)
LEMMA RemarkedOK ==
  ASSUME editor # None, EditorOK(editor), NEW d, IsTree(d), IsObject(d, <<>>), NEW b \in BOOLEAN,
         NEW n \in 0..MaxEdits, NEW e,
         e = [editor EXCEPT !.doc = d, !.broken = b, !.edits = n, !.marks = Remarked(d, b)],
         n > 0 \/ (d = editor.doc /\ n = editor.edits)
  PROVE  EditorOK(e)
<1>1. e = [template |-> editor.template, settings |-> editor.settings, broken |-> b,
           edits |-> n, marks |-> Remarked(d, b), doc |-> d]
  BY DEF EditorOK, Shaped
<1>2. /\ e.template = editor.template /\ e.settings = editor.settings /\ e.broken = b
      /\ e.edits = n /\ e.marks = Remarked(d, b) /\ e.doc = d
  BY <1>1
<1>3. Shaped(e)
  BY <1>1, <1>2 DEF Shaped
<1>4. MarkedOK(e)
  <2> DEFINE c == Changed(d, editor.template)
  <2>1. SUFFICES ASSUME ~b, c # {} PROVE e.marks = c \intersect WalkNode(d)
    BY <1>2 DEF MarkedOK
  <2>2. Remarked(d, b) = c \intersect WalkNode(d)
    <3>1. Remarked(d, b) = IF b \/ c = {} THEN editor.marks ELSE c \intersect WalkNode(d)
      BY DEF Remarked
    <3> HIDE DEF c
    <3> QED BY <2>1, <3>1
  <2> QED BY <1>2, <2>2
<1>5. OpenedOK(e)
  <2>1. n = 0 => d = editor.doc /\ editor.edits = 0
    BY BoundsAssumption
  <2>2. OpenedOK(editor)
    BY DEF EditorOK
  <2> QED BY <1>2, <2>1, <2>2 DEF OpenedOK
<1> QED BY <1>2, <1>3, <1>4, <1>5 DEF EditorOK

LEMMA SingleTargets ==
  ASSUME NEW path \in Paths
  PROVE  /\ Targets(Single(path, path)) /\ DOMAIN Single(path, path) = {path}
         /\ Single(path, path)[path] = path
<1>1. DOMAIN Single(path, path) = {path} /\ Single(path, path)[path] = path
  BY DEF Single
<1>2. path \notin Above(path)
  BY AbovePath
<1> QED BY <1>1, <1>2 DEF Targets

LEMMA WrittenDocument ==
  ASSUME NEW d, IsTree(d), IsObject(d, <<>>), NEW path \in EditedPaths, NEW v \in Written(path)
  PROVE  IsTree(SetAll(d, Single(path, path), v)) /\ IsObject(SetAll(d, Single(path, path), v), <<>>)
<1> DEFINE s == Single(path, path)
           a == SetAll(d, s, v)
<1>1. path \in Paths /\ path # <<>> /\ path \in DOMAIN v /\ DOMAIN v \subseteq Paths
      /\ \A p \in DOMAIN v : \A q \in Above(p) : Within(q, path) => q \in DOMAIN v /\ v[q] \in Containers
  BY EditsAssumption
<1>2. Targets(s) /\ DOMAIN s = {path} /\ s[path] = path
  BY <1>1, SingleTargets
<1> HIDE DEF s
<1>3. IsTree(a)
  BY <1>1, <1>2, SetAllTree
<1>4. IsObject(a, <<>>)
  <2>1. \A t \in DOMAIN s : ~Within(<<>>, t)
    BY <1>1, <1>2, EmptyPath DEF Within
  <2>2. <<>> \in Paths /\ <<>> \in Above(path)
    BY <1>1, EmptyPath
  <2>3. \A p \in Paths : (\A t \in DOMAIN s : ~Within(p, t)) =>
          ((\E t \in DOMAIN s : p \in Above(t)) =>
             p \in DOMAIN a /\ a[p] = (IF p \in DOMAIN d /\ d[p] \in Containers THEN d[p] ELSE ObjectNode))
    BY <1>1, <1>2, SetAllIs DEF IsTree
  <2> HIDE DEF a
  <2> QED BY <1>2, <2>1, <2>2, <2>3 DEF IsObject
<1> QED BY <1>3, <1>4 DEF s, a

LEMMA ErasedDocument ==
  ASSUME NEW d, IsTree(d), IsObject(d, <<>>), NEW path \in EditedPaths
  PROVE  IsTree(Without(d, path)) /\ IsObject(Without(d, path), <<>>)
<1>1. path # <<>>
  BY EditsAssumption
<1>2. ~Within(<<>>, path)
  BY <1>1, EmptyPath DEF Within
<1>3. <<>> \in DOMAIN Without(d, path) /\ Without(d, path)[<<>>] = d[<<>>]
  BY <1>2, WithoutIs DEF IsObject
<1> QED BY <1>3, WithoutTree DEF IsObject

LEMMA InitIInv == Init => IInv
<1> SUFFICES ASSUME Init PROVE IInv
  OBVIOUS
<1>1. PICK t \in Templates :
        deployed = [template |-> t, overwrites |-> Undefined, meant |-> t] /\ row = t
  BY DEF Init
<1>2. deployed.template = t /\ deployed.overwrites = Undefined /\ deployed.meant = t
  BY <1>1
<1>3. DeployedOK
  BY <1>2, TemplateIs DEF DeployedOK
<1>4. RowOK
  BY <1>1, <1>2, TemplateIs, MergeUndefined DEF RowOK
<1>5. puts \in 0..MaxPuts /\ editor = None
  BY BoundsAssumption DEF Init
<1> QED BY <1>3, <1>4, <1>5 DEF IInv

LEMMA SubmitIInv ==
  ASSUME IInv, Submit
  PROVE  IInv'
<1> DEFINE d == editor.doc
           t == editor.template
           m == Meant(d)
           o == DiffObj(t, Decoded(m))
<1>1. editor # None /\ EditorOK(editor) /\ Diagnostics(EditorSchema, d) = {}
  BY DEF IInv, Submit
<1>2. IsTree(d) /\ IsObject(d, <<>>) /\ t \in Templates /\ puts < MaxPuts /\ puts \in 0..MaxPuts
  BY <1>1 DEF EditorOK, IInv
<1>3. /\ deployed' = [template |-> t, overwrites |-> o, meant |-> m]
      /\ row' = Merge(t, o) /\ editor' = None /\ puts' = puts + 1
  BY DEF Submit, Meant
<1>4. IsTree(m) /\ NullFree(m) /\ IsObject(m, <<>>) /\ IsObject(m, <<"spec">>)
  BY <1>1, <1>2, MeantIs, SubmittedSpec
<1> HIDE DEF d, t, m, o
<1>5. deployed'.template = t /\ deployed'.overwrites = o /\ deployed'.meant = m
  BY <1>3
<1>6. DeployedOK'
  BY <1>2, <1>4, <1>5 DEF DeployedOK, o
<1>7. RowOK'
  BY <1>3, <1>5 DEF RowOK
<1>8. puts' \in 0..MaxPuts
  BY <1>2, <1>3, BoundsAssumption
<1> QED BY <1>3, <1>6, <1>7, <1>8 DEF IInv

LEMMA BecomesIInv ==
  ASSUME IInv, NEW d, IsTree(d), IsObject(d, <<>>), NEW b \in BOOLEAN, Becomes(d, b)
  PROVE  IInv'
<1>1. /\ editor # None /\ UNCHANGED <<deployed, row, puts>> /\ editor.edits + puts < MaxEdits
      /\ editor' = [editor EXCEPT !.doc = d, !.broken = b, !.edits = @ + 1, !.marks = Remarked(d, b)]
  BY DEF Becomes
<1>2. EditorOK(editor)
  BY <1>1 DEF IInv
<1> DEFINE n == editor.edits + 1
<1>3. n \in 0..MaxEdits /\ n > 0
  <2>1. editor.edits \in Nat /\ puts \in Nat
    BY <1>2, BoundsAssumption DEF EditorOK, IInv
  <2> QED BY <1>1, <2>1, BoundsAssumption
<1>4. editor' = [editor EXCEPT !.doc = d, !.broken = b, !.edits = n, !.marks = Remarked(d, b)]
  BY <1>1, <1>2 DEF EditorOK, Shaped
<1> HIDE DEF n
<1>5. EditorOK(editor')
  BY <1>1, <1>2, <1>3, <1>4, RemarkedOK
<1>6. EditorOK(editor)'
  BY <1>1, <1>5 DEF EditorOK, OpenedOK
<1>7. (DeployedOK /\ RowOK /\ puts \in 0..MaxPuts)'
  BY <1>1 DEF IInv, DeployedOK, RowOK
<1> QED BY <1>6, <1>7 DEF IInv

LEMMA NextIInv ==
  ASSUME IInv, [Next]_vars
  PROVE  IInv'
<1>1. CASE UNCHANGED vars
  BY <1>1 DEF IInv, DeployedOK, RowOK, EditorOK, OpenedOK, vars
<1>2. CASE Open
  <2>1. puts < MaxPuts /\ UNCHANGED <<deployed, row, puts>>
        /\ editor' = Edited(deployed.template, Settings(deployed.template, row))
    BY <1>2 DEF Open
  <2>2. EditorOK(editor')
    BY <2>1, EditedOK DEF IInv, DeployedOK
  <2>3. EditorOK(editor)'
    BY <2>1, <2>2 DEF EditorOK, OpenedOK
  <2>4. (DeployedOK /\ RowOK /\ puts \in 0..MaxPuts)'
    BY <2>1 DEF IInv, DeployedOK, RowOK
  <2> QED BY <2>3, <2>4 DEF IInv
<1>3. CASE Close
  BY <1>3 DEF Close, IInv, DeployedOK, RowOK
<1>4. CASE Submit
  BY <1>4, SubmitIInv
<1>5. CASE Listed
  BY <1>5 DEF Listed, IInv, DeployedOK, RowOK
<1>6. CASE Break
  <2>1. editor # None /\ Becomes(editor.doc, TRUE)
    BY <1>6 DEF Break
  <2> QED BY <2>1, BecomesIInv DEF IInv, EditorOK
<1>7. CASE Scroll
  <2>1. /\ editor # None /\ UNCHANGED <<deployed, row, puts>>
        /\ editor' = [editor EXCEPT !.marks = Remarked(editor.doc, editor.broken)]
    BY <1>7 DEF Scroll
  <2>2. EditorOK(editor)
    BY <2>1 DEF IInv
  <2>3. editor' = [editor EXCEPT !.doc = editor.doc, !.broken = editor.broken, !.edits = editor.edits,
                     !.marks = Remarked(editor.doc, editor.broken)]
    BY <2>1, <2>2 DEF EditorOK, Shaped
  <2>4. EditorOK(editor')
    BY <2>1, <2>2, <2>3, RemarkedOK DEF EditorOK
  <2>5. EditorOK(editor)'
    BY <2>1, <2>4 DEF EditorOK, OpenedOK
  <2>6. (DeployedOK /\ RowOK /\ puts \in 0..MaxPuts)'
    BY <2>1 DEF IInv, DeployedOK, RowOK
  <2> QED BY <2>5, <2>6 DEF IInv
<1>8. ASSUME NEW t \in Templates, Choose(t) PROVE IInv'
  <2>1. editor # None /\ UNCHANGED <<deployed, row, puts>> /\ editor' = Edited(t, editor.settings)
    BY <1>8 DEF Choose
  <2>2. puts < MaxPuts /\ editor.settings = Settings(deployed.template, row)
    BY <2>1 DEF IInv, EditorOK, OpenedOK
  <2>3. EditorOK(editor')
    BY <2>1, <2>2, EditedOK DEF IInv
  <2>4. EditorOK(editor)'
    BY <2>1, <2>3 DEF EditorOK, OpenedOK
  <2>5. (DeployedOK /\ RowOK /\ puts \in 0..MaxPuts)'
    BY <2>1 DEF IInv, DeployedOK, RowOK
  <2> QED BY <2>4, <2>5 DEF IInv
<1>9. ASSUME NEW path \in EditedPaths, Write(path) PROVE IInv'
  <2>1. PICK v \in Written(path) :
          editor # None /\ Becomes(SetAll(editor.doc, Single(path, path), v), FALSE)
    BY <1>9 DEF Write
  <2>2. IsTree(editor.doc) /\ IsObject(editor.doc, <<>>)
    BY <2>1 DEF IInv, EditorOK
  <2> QED BY <2>1, <2>2, WrittenDocument, BecomesIInv
<1>10. ASSUME NEW path \in EditedPaths, Erase(path) PROVE IInv'
  <2>1. editor # None /\ Becomes(Without(editor.doc, path), FALSE)
    BY <1>10 DEF Erase
  <2>2. IsTree(editor.doc) /\ IsObject(editor.doc, <<>>)
    BY <2>1 DEF IInv, EditorOK
  <2> QED BY <2>1, <2>2, ErasedDocument, BecomesIInv
<1> QED BY <1>1, <1>2, <1>3, <1>4, <1>5, <1>6, <1>7, <1>8, <1>9, <1>10 DEF Next

(* The invariant holds whatever is opened, chosen, edited, submitted and   *)
(* listed, in any order: a row and its diff say what was submitted         *)
(* (DeployedOK, RowOK), the settings of an editor are those                *)
(* diffAsOverwrites reads from its row (OpenedOK), its marks those JSONDiff*)
(* sets (MarkedOK).                                                        *)
THEOREM EditorInductive == Spec => []IInv
<1>1. IInv /\ [Next]_vars => IInv'
  BY NextIInv
<1> QED BY <1>1, InitIInv, PTL DEF Spec

-----------------------------------------------------------------------------
(* What is marked.                                                           *)

LEMMA LastEscaped ==
  ASSUME NEW p \in Paths, p # <<>>, ~Slashed(Front(p))
  PROVE  Compile(p) = Append(Front(p), Escape(Last(p)))
<1> DEFINE f == Front(p)
           c == Compile(p)
           a == Append(f, Escape(Last(p)))
<1>1. /\ f \in Paths /\ Last(p) \in Keys /\ p = Append(f, Last(p))
      /\ Len(p) \in Nat /\ Len(f) = Len(p) - 1 /\ Len(p) > 0
  BY FrontPath
<1>2. c \in Paths /\ Len(c) = Len(p) /\ \A i \in 1..Len(p) : c[i] = Escape(p[i])
  BY CompileIs
<1>3. Compile(f) = f /\ \A i \in 1..Len(f) : Compile(f)[i] = Escape(f[i])
  BY <1>1, Unslashed, CompileIs
<1>4. \A i \in 1..Len(f) : p[i] = f[i]
  BY <1>1, AppendFront
<1>5. Escape(Last(p)) \in Keys
  BY <1>1, EscapeKey
<1> HIDE DEF f, c
<1>6. a \in Paths /\ Front(a) = f /\ Last(a) = Escape(Last(p)) /\ a # <<>>
      /\ Len(a) = Len(f) + 1 /\ \A i \in 1..Len(f) : a[i] = f[i]
  BY <1>1, <1>5, AppendPath, AppendFront
<1>7. a[Len(a)] = Escape(Last(p)) /\ Last(p) = p[Len(p)]
  BY <1>6 DEF Last
<1> HIDE DEF a
<1>8. ASSUME NEW i \in 1..Len(c) PROVE c[i] = a[i]
  <2>1. CASE i = Len(p)
    BY <2>1, <1>1, <1>2, <1>6, <1>7
  <2>2. CASE i \in 1..Len(f)
    BY <2>2, <1>1, <1>2, <1>3, <1>4, <1>6
  <2> QED BY <2>1, <2>2, <1>1, <1>2
<1>9. Len(c) = Len(a)
  BY <1>1, <1>2, <1>6
<1>10. c = a
  BY <1>2, <1>6, <1>8, <1>9, PathEqual
<1> QED BY <1>10 DEF c, a, f

(* What a document has and its template has not, or otherwise, is visited.   *)
LEMMA ChangeVisited ==
  ASSUME NEW d, IsTree(d), IsObject(d, <<>>), NEW t, IsObject(t, <<>>),
         NEW c \in Diff(d, CloneWithoutNull(t)), c.type # "d", ~Slashed(Front(c.path))
  PROVE  Compile(c.path) \in WalkNode(d)
<1> DEFINE k == CloneWithoutNull(t)
           p == c.path
<1>1. IsObject(k, <<>>)
  BY CloneIs DEF IsObject, Omitted
<1> HIDE DEF k
<1>2. Added(d, k, p) \/ Modified(d, k, p)
  BY DiffPath DEF k
<1>3. p \in DOMAIN d /\ p # <<>>
  BY <1>1, <1>2 DEF Added, Modified, Unequal, IsObject
<1>4. p \in Paths /\ Front(p) \in Paths
  BY <1>3, FrontPath DEF IsTree
<1>5. Joined(Front(p)) = Front(p)
  BY <1>4, Unslashed
<1>6. Append(Joined(Front(p)), Escape(Last(p))) \in WalkNode(d)
  BY <1>3 DEF WalkNode
<1> QED BY <1>3, <1>4, <1>5, <1>6, LastEscaped

LEMMA MarkedChanged ==
  ASSUME IInv
  PROVE  MarkedIsChanged
<1> DEFINE d == editor.doc
           changes == Diff(d, CloneWithoutNull(editor.template))
<1> SUFFICES ASSUME editor # None, editor.edits > 0, ~editor.broken, changes # {}
             PROVE  /\ editor.marks \subseteq {Compile(c.path) : c \in changes}
                    /\ \A c \in changes :
                         c.type = "d" \/ Slashed(Front(c.path)) \/ Compile(c.path) \in editor.marks
  BY DEF MarkedIsChanged
<1>1. /\ IsTree(d) /\ IsObject(d, <<>>) /\ IsObject(editor.template, <<>>) /\ MarkedOK(editor)
  BY TemplateIs DEF IInv, EditorOK
<1>2. Changed(d, editor.template) = {Compile(c.path) : c \in changes}
  BY DEF Changed
<1>3. editor.marks = {Compile(c.path) : c \in changes} \intersect WalkNode(d)
  <2>1. {Compile(c.path) : c \in changes} # {}
    <3>1. PICK c \in changes : TRUE
      OBVIOUS
    <3>2. Compile(c.path) \in {Compile(x.path) : x \in changes}
      OBVIOUS
    <3> QED BY <3>2
  <2>2. Changed(d, editor.template) # {}
    BY <1>2, <2>1
  <2>3. editor.marks = Changed(d, editor.template) \intersect WalkNode(d)
    BY <1>1, <2>2 DEF MarkedOK
  <2> QED BY <1>2, <2>3
<1>4. ASSUME NEW c \in changes, c.type # "d", ~Slashed(Front(c.path))
      PROVE  Compile(c.path) \in editor.marks
  <2>1. Compile(c.path) \in WalkNode(d)
    BY <1>1, <1>4, ChangeVisited
  <2> QED BY <1>3, <2>1
<1> QED BY <1>3, <1>4

-----------------------------------------------------------------------------
(* The theorems of the invariant.                                            *)

(* Documents stay trees under lodash's merge and set and under the server's*)
(* DiffObj and MergeObj, what is edited stays an object, and what execute  *)
(* submits has a spec and no null in it, as the server could not tell one  *)
(* from a removal.                                                         *)
THEOREM EditorTypes == Spec => []TypeOK
<1>1. IInv => TypeOK
  <2> SUFFICES ASSUME IInv PROVE TypeOK
    OBVIOUS
  <2>1. IsTree(deployed.overwrites) /\ IsTree(row)
    BY OverwritesAre, RowIs DEF IInv
  <2>2. /\ deployed.template \in Templates /\ IsTree(deployed.meant)
        /\ IsObject(deployed.meant, <<"spec">>) /\ CloneWithoutNull(deployed.meant) = deployed.meant
    BY DEF IInv, DeployedOK, NullFree
  <2>3. puts \in 0..MaxPuts
    BY DEF IInv
  <2>4. ASSUME editor # None
        PROVE  /\ editor.template \in Templates /\ IsTree(editor.settings) /\ IsTree(editor.doc)
               /\ IsObject(editor.doc, <<>>)
               /\ editor.broken \in BOOLEAN /\ editor.edits \in 0..MaxEdits
    BY <2>4 DEF IInv, EditorOK
  <2> QED BY <2>1, <2>2, <2>3, <2>4 DEF TypeOK
<1> QED BY <1>1, EditorInductive, PTL

(* execute submits nothing the schema refuses, but for what LSP.validate   *)
(* leaves out and walkNode finds no place for: what fails is at, or misses *)
(* from, a value the document has, and the walk visits that under the      *)
(* pointer the linter joins, unless a key of it has a slash.               *)
THEOREM OnlyValidSubmitted == Spec => []SubmittedIsValid
<1>1. IInv => SubmittedIsValid
  <2> DEFINE d == editor.doc
  <2> SUFFICES ASSUME IInv, editor # None, Diagnostics(EditorSchema, d) = {},
                      NEW f \in Failures(EditorSchema, Meant(d))
               PROVE  f.kind = "never" \/ Slashed(f.path)
    BY DEF SubmittedIsValid, Meant
  <2>1. IsTree(d) /\ IsObject(d, <<>>)
    BY DEF IInv, EditorOK
  <2> HIDE DEF d
  <2> QED BY <2>1, SubmittedValid
<1> QED BY <1>1, EditorInductive, PTL

(* After an edit that parses and leaves a difference, the lines jsonDiff   *)
(* marks are all of differences of the document at hand from its template, *)
(* and those of every difference that is not a removal: none is left over  *)
(* from an earlier document, whatever was edited before.                   *)
THEOREM MarksAreChanges == Spec => []MarkedIsChanged
<1>1. IInv => MarkedIsChanged
  BY MarkedChanged
<1> QED BY <1>1, EditorInductive, PTL

-----------------------------------------------------------------------------
(* What the server loses of a document.                                      *)

LEMMA Comparable ==
  ASSUME NEW r \in Paths, NEW p, Within(r, p), NEW t, Within(r, t)
  PROVE  Within(p, t) \/ Within(t, p)
<1>1. CASE r = p \/ r = t
  BY <1>1 DEF Within
<1>2. CASE p \in Above(r) /\ t \in Above(r)
  BY <1>2, AboveLine DEF Within
<1> QED BY <1>1, <1>2 DEF Within

(* A patch without nulls is merged as it is.                                 *)
LEMMA NotIgnored ==
  ASSUME NEW a, NEW b, IsTree(b), NullFree(b), <<>> \in DOMAIN b => b[<<>>] # Null, NEW p \in DOMAIN b
  PROVE  ~Ignored(a, b, p)
<1> SUFFICES ASSUME b[p] = Null, InObjects(b, p) PROVE FALSE
  BY DEF Ignored
<1>1. p \in Paths /\ p # <<>>
  BY DEF IsTree
<1>2. Front(p) \in Above(p)
  BY <1>1, FrontPath
<1>3. b[Front(p)] = ObjectNode
  BY <1>2 DEF InObjects, IsObject
<1>4. Omitted(b, p)
  BY <1>1, <1>3 DEF Omitted
<1> QED BY <1>4, NullFreeIs

(* A value diffed is one the merge has as it was meant.                      *)
LEMMA DiffedIsListed ==
  ASSUME NEW t, NEW m, IsTree(t), IsTree(m), NullFree(m), <<>> \in DOMAIN m => m[<<>>] # Null,
         NEW p \in Leaves(m), NEW u, Differs(t, m, u), Within(p, u)
  PROVE  At(MergeObj(t, DiffObj(t, m)), p) = At(m, p)
<1> DEFINE o == DiffObj(t, m)
           a == MergeObj(t, o)
<1>1. IsTree(o) /\ NullFree(o) /\ \A q \in DOMAIN o : q \in DOMAIN m /\ o[q] = m[q]
  BY DiffObjTree, DiffObjNullFree, DiffObjIs
<1>2. p \in DOMAIN m /\ p \in Paths /\ m[p] # ObjectNode
  BY DEF Leaves, IsTree
<1>3. \A q : Within(q, p) /\ q \in DOMAIN m => q \in DOMAIN o
  <2> SUFFICES ASSUME NEW q, Within(q, p), q \in DOMAIN m PROVE q \in DOMAIN o
    OBVIOUS
  <2>1. q \in Paths
    BY DEF IsTree
  <2>2. Within(q, u)
    BY <2>1, WithinPath
  <2> QED BY <2>2, DiffObjIs
<1> HIDE DEF o
<1>4. \A q \in DOMAIN o : ~Ignored(t, o, q)
  BY <1>1, NotIgnored
<1>5. \A q : Within(q, p) /\ q \in DOMAIN m => q \in DOMAIN a /\ a[q] = m[q]
  BY <1>1, <1>3, <1>4, MergeObjIs
<1>6. \A q : Within(q, p) /\ q \in DOMAIN a => q \in DOMAIN m
  <2> SUFFICES ASSUME NEW q, Within(q, p), q \in DOMAIN a, q \notin DOMAIN m PROVE FALSE
    OBVIOUS
  <2>1. q \notin DOMAIN o /\ Kept(t, o, q)
    BY <1>1, MergeObjIs
  <2>2. p \in Above(q)
    BY <1>2 DEF Within
  <2>3. p \in DOMAIN o /\ o[p] = m[p]
    BY <1>1, <1>2, <1>3 DEF Within
  <2> QED BY <1>2, <1>4, <2>1, <2>2, <2>3 DEF Kept
<1> HIDE DEF a
<1>7. At(a, p) = At(m, p)
  BY <1>5, <1>6, AtEqual
<1> QED BY <1>7 DEF a, o

(* Where nothing is diffed the merge has what the template has.              *)
LEMMA UndiffedIsTemplate ==
  ASSUME NEW t, NEW m, IsTree(t), IsTree(m), NullFree(m), <<>> \in DOMAIN m => m[<<>>] # Null,
         NEW p \in Leaves(m), InObjects(t, p), \A u : Within(p, u) => ~Differs(t, m, u)
  PROVE  At(MergeObj(t, DiffObj(t, m)), p) = At(t, p)
<1> DEFINE o == DiffObj(t, m)
           a == MergeObj(t, o)
<1>1. \A q \in DOMAIN o : q \in DOMAIN m /\ o[q] = m[q]
  BY DiffObjIs
<1>2. p \in DOMAIN m /\ p \in Paths /\ m[p] # ObjectNode /\ InObjects(m, p)
  BY DEF Leaves, IsTree
<1>3. \A q : Within(q, p) => q \notin DOMAIN o
  <2> SUFFICES ASSUME NEW q, Within(q, p), q \in DOMAIN o PROVE FALSE
    OBVIOUS
  <2>1. PICK u : Differs(t, m, u) /\ (Within(q, u) \/ Within(u, q))
    BY DiffObjIs
  <2>2. q \in Paths /\ u \in Paths
    BY <1>1, <2>1 DEF IsTree, Differs
  <2>3. Within(p, u) \/ Within(u, p)
    <3>1. CASE Within(q, u)
      BY <2>2, <3>1, Comparable
    <3>2. CASE Within(u, q)
      BY <2>2, <3>2, WithinPath
    <3> QED BY <2>1, <3>1, <3>2
  <2>4. p \in Above(u)
    BY <2>1, <2>3 DEF Within
  <2>5. IsObject(m, p)
    BY <2>1, <2>4 DEF Differs, InObjects
  <2> QED BY <1>2, <2>5 DEF IsObject
<1>4. \A q \in Above(p) : q \in DOMAIN o => o[q] = ObjectNode /\ IsObject(t, q)
  BY <1>1, <1>2 DEF InObjects, IsObject
<1> HIDE DEF o
<1>5. \A q : Within(q, p) /\ q \in DOMAIN t => q \in DOMAIN a
  <2> SUFFICES ASSUME NEW q, Within(q, p), q \in DOMAIN t PROVE q \in DOMAIN a
    OBVIOUS
  <2>1. \A r \in Above(q) : r \in Above(p) \/ Within(r, p)
    BY WithinPath DEF IsTree
  <2>2. Kept(t, o, q)
    BY <2>1, <1>3, <1>4 DEF Kept
  <2> QED BY <2>2, MergeObjIs
<1>6. \A q : Within(q, p) /\ q \in DOMAIN a => q \in DOMAIN t /\ a[q] = t[q]
  BY <1>3, MergeObjIs
<1> HIDE DEF a
<1>7. At(a, p) = At(t, p)
  BY <1>5, <1>6, AtEqual
<1> QED BY <1>7 DEF a, o

(* Without an object in it, what equals a value is as the value.             *)
LEMMA EqualIsSame ==
  ASSUME NEW t, NEW m, IsTree(t), IsTree(m), NEW p \in DOMAIN m, p \in DOMAIN t, Equal(m, t, p),
         \A q \in DOMAIN m : Within(q, p) => m[q] # ObjectNode
  PROVE  At(t, p) = At(m, p)
<1>0. p \in Paths
  BY DEF IsTree
<1>1. ASSUME NEW q \in DOMAIN m, Within(q, p)
      PROVE  q \in DOMAIN t /\ t[q] = m[q] /\ (m[q] = ArrayNode => Children(m, q) = Children(t, q))
  <2>1. \A r \in Above(q) : Within(r, p) => m[r] = ArrayNode
    BY <1>1, TreeAbove DEF Containers
  <2> QED BY <1>1, <2>1 DEF Equal
<1>2. ASSUME NEW q \in DOMAIN t, Within(q, p), q \notin DOMAIN m PROVE FALSE
  <2> DEFINE S == {s \in Paths : Within(q, s) /\ s \notin DOMAIN m}
  <2>1. q \in S /\ S \subseteq Paths
    BY <1>2 DEF IsTree, Within
  <2>2. PICK s \in S : Within(q, s) /\ \A r \in Above(s) : r \notin S
    BY <2>1, Shallowest
  <2>3. s \in Paths /\ Within(q, s) /\ s \notin DOMAIN m /\ s \in DOMAIN t
    BY <1>2, <2>2, TreeAbove DEF Within
  <2>4. Within(s, p)
    <3>1. Within(p, s) \/ Within(s, p)
      BY <1>2, <2>1, <2>3, Comparable
    <3>2. Within(p, s) => s \in DOMAIN m
      BY TreeAbove DEF Within
    <3> QED BY <2>3, <3>1, <3>2
  <2>5. p \in Above(s) /\ s # <<>>
    BY <2>3, <2>4, EmptyPath DEF Within
  <2>6. Front(s) \in Above(s) /\ Front(s) \in Paths /\ Within(Front(s), p)
    BY <2>3, <2>5, FrontPath DEF Within
  <2>7. Front(s) \in DOMAIN m
    <3>1. Within(q, Front(s))
      BY <2>1, <2>3, <2>6, WithinPath, AbovePath DEF Within
    <3> QED BY <2>2, <2>6, <3>1
  <2>8. t[Front(s)] \in Containers
    BY <2>3, <2>6, TreeAbove
  <2>9. m[Front(s)] = ArrayNode
    BY <1>1, <2>6, <2>7, <2>8 DEF Containers
  <2>10. s \in Children(t, Front(s))
    BY <2>3, <2>5 DEF Children
  <2>11. s \in Children(m, Front(s))
    BY <1>1, <2>6, <2>7, <2>9, <2>10
  <2> QED BY <2>3, <2>11 DEF Children
<1>3. \A q : Within(q, p) => (q \in DOMAIN t <=> q \in DOMAIN m)
  BY <1>1, <1>2
<1>4. \A q : Within(q, p) /\ q \in DOMAIN t => t[q] = m[q]
  BY <1>1, <1>3
<1> QED BY <1>3, <1>4, AtEqual

LEMMA MergeObjUndefined ==
  ASSUME NEW t, NullFree(t)
  PROVE  MergeObj(t, Undefined) = t
<1> DEFINE m == MergeObj(t, Undefined)
<1>1. DOMAIN Undefined = {}
  BY DEF Undefined
<1>2. t = [p \in DOMAIN t |-> t[p]]
  <2>1. CloneWithoutNull(t) = [p \in DOMAIN CloneWithoutNull(t) |-> CloneWithoutNull(t)[p]]
    BY DEF CloneWithoutNull, Restrict
  <2> QED BY <2>1 DEF NullFree
<1>3. m = [p \in DOMAIN m |-> m[p]]
  BY DEF MergeObj, Over
<1>4. DOMAIN m = DOMAIN t /\ \A p \in DOMAIN t : m[p] = t[p]
  <2>1. \A p : p \in DOMAIN m <=> p \in DOMAIN t
    BY <1>1, MergeObjIs DEF Kept
  <2>2. \A p \in DOMAIN t : m[p] = t[p]
    BY <2>1, <1>1, MergeObjIs
  <2>3. DOMAIN m = DOMAIN t
    BY <2>1
  <2> QED BY <2>2, <2>3
<1> HIDE DEF m
<1>5. m = [p \in DOMAIN t |-> t[p]]
  <2>1. [p \in DOMAIN m |-> m[p]] = [p \in DOMAIN t |-> t[p]]
    BY <1>4
  <2> QED BY <1>3, <2>1
<1> QED BY <1>2, <1>5 DEF m

LEMMA SubmittedDeployed ==
  ASSUME NEW t, NEW m, IsTree(t), IsTree(m), NullFree(m), <<>> \in DOMAIN m => m[<<>>] # Null,
         NEW p \in Leaves(m), NEW a, a = MergeObj(t, DiffObj(t, m))
  PROVE  \/ At(a, p) = At(m, p)
         \/ /\ IsArray(m, p) /\ IsArray(t, p) /\ Children(m, p) = Children(t, p)
            /\ \E q \in DOMAIN m : Within(q, p) /\ m[q] = ObjectNode
         \/ \E q \in Above(p) \intersect DOMAIN t : ~IsObject(t, q)
<1>1. p \in DOMAIN m /\ p \in Paths /\ m[p] # ObjectNode /\ InObjects(m, p)
  BY DEF Leaves, IsTree
<1>2. CASE \E u : Differs(t, m, u) /\ Within(p, u)
  BY <1>2, DiffedIsListed
<1>3. CASE (\A u : Within(p, u) => ~Differs(t, m, u)) /\ InObjects(t, p)
  <2>1. At(a, p) = At(t, p)
    BY <1>3, UndiffedIsTemplate
  <2>2. p \in DOMAIN t /\ Equal(m, t, p)
    <3>1. ~Differs(t, m, p)
      BY <1>3 DEF Within
    <3> QED BY <1>1, <1>3, <3>1 DEF Differs, IsObject
  <2>3. CASE \A q \in DOMAIN m : Within(q, p) => m[q] # ObjectNode
    BY <1>1, <2>1, <2>2, <2>3, EqualIsSame
  <2>4. CASE \E q \in DOMAIN m : Within(q, p) /\ m[q] = ObjectNode
    <3>1. PICK q \in DOMAIN m : Within(q, p) /\ m[q] = ObjectNode
      BY <2>4
    <3>2. p \in Above(q)
      BY <1>1, <3>1 DEF Within
    <3>3. m[p] = ArrayNode
      BY <1>1, <3>2, TreeAbove DEF Containers
    <3>4. t[p] = m[p] /\ Children(m, p) = Children(t, p)
      <4>1. Within(p, p) /\ \A r \in Above(p) : ~Within(r, p)
        BY <1>1, WithinPath DEF Within
      <4> QED BY <1>1, <2>2, <3>3, <4>1 DEF Equal
    <3> QED BY <1>1, <2>2, <3>1, <3>3, <3>4 DEF IsArray
  <2> QED BY <2>3, <2>4
<1>4. CASE ~InObjects(t, p) /\ \A q \in Above(p) \intersect DOMAIN t : IsObject(t, q)
  <2> DEFINE S == {q \in Above(p) : q \notin DOMAIN t}
  <2>1. PICK q \in Above(p) : q \notin DOMAIN t
    BY <1>4 DEF InObjects
  <2>2. S \subseteq Paths /\ q \in S
    BY <1>1, <2>1, AbovePath
  <2>3. PICK u \in S : \A r \in Above(u) : r \notin S
    <3> HIDE DEF S
    <3> QED BY <2>2, Shallowest
  <2>4. u \in Above(p) /\ u \notin DOMAIN t /\ \A r \in Above(u) : r \in Above(p)
    BY <1>1, <2>3, AbovePath
  <2>5. \A r \in Above(u) : IsObject(t, r) /\ IsObject(m, r)
    BY <1>1, <1>4, <2>3, <2>4 DEF InObjects
  <2>6. u \in DOMAIN m
    BY <1>1, <2>4, TreeAbove
  <2>7. Differs(t, m, u)
    BY <2>4, <2>5, <2>6 DEF Differs, InObjects, IsObject
  <2> QED BY <1>2, <2>4, <2>7 DEF Within
<1> QED BY <1>2, <1>3, <1>4

(* What its structs keep of a document, and neither of what they forget nor*)
(* below it, is as it was.                                                   *)
LEMMA DecodedSame ==
  ASSUME NEW m, IsTree(m), NEW p \in Leaves(m),
         \A q \in Forgotten(m) : ~Within(p, q) /\ ~Within(q, p)
  PROVE  LET c == Decoded(m) IN
         /\ p \in Leaves(c) /\ At(c, p) = At(m, p)
         /\ IsArray(c, p) => IsArray(m, p) /\ Children(c, p) = Children(m, p)
         /\ \A q \in DOMAIN c : q \in DOMAIN m /\ c[q] = m[q]
<1> DEFINE c == Decoded(m)
<1>1. /\ \A q : q \in DOMAIN c <=> q \in DOMAIN m /\ \A r \in Forgotten(m) : ~Within(q, r)
      /\ \A q \in DOMAIN c : c[q] = m[q]
      /\ IsTree(c)
  BY DecodedIs
<1>2. p \in DOMAIN m /\ p \in Paths /\ m[p] # ObjectNode /\ InObjects(m, p)
  BY DEF Leaves, IsTree
<1> HIDE DEF c
<1>3. p \in DOMAIN c
  BY <1>1, <1>2
<1>4. InObjects(c, p)
  <2> SUFFICES ASSUME NEW q \in Above(p) PROVE IsObject(c, q)
    BY DEF InObjects
  <2>1. q \in DOMAIN c
    BY <1>1, <1>3, TreeAbove
  <2>2. IsObject(m, q)
    BY <1>2 DEF InObjects
  <2> QED BY <1>1, <2>1, <2>2 DEF IsObject
<1>5. ASSUME NEW q, Within(q, p) PROVE q \in DOMAIN m <=> q \in DOMAIN c
  <2>1. ASSUME q \in DOMAIN m, NEW r \in Forgotten(m), Within(q, r) PROVE FALSE
    <3>1. q \in Paths
      BY <2>1 DEF IsTree
    <3>2. Within(p, r) \/ Within(r, p)
      BY <1>5, <2>1, <3>1, Comparable
    <3> QED BY <3>2
  <2> QED BY <1>1, <2>1
<1>6. At(c, p) = At(m, p)
  BY <1>1, <1>5, AtEqual
<1>7. p \in Leaves(c)
  BY <1>1, <1>2, <1>3, <1>4 DEF Leaves
<1>8. IsArray(c, p) => IsArray(m, p)
  BY <1>1 DEF IsArray
<1>9. Children(c, p) = Children(m, p)
  <2>1. ASSUME NEW q, q \in Paths, q # <<>>, Front(q) = p PROVE Within(q, p)
    BY <2>1, FrontPath DEF Within
  <2>2. DOMAIN m \subseteq Paths /\ DOMAIN c \subseteq Paths
    BY <1>1 DEF IsTree
  <2>3. \A q : q \in Children(c, p) <=> q \in Children(m, p)
    BY <1>5, <2>1, <2>2 DEF Children
  <2> QED BY <2>3
<1> QED BY <1>1, <1>6, <1>7, <1>8, <1>9 DEF c

(* What a document submitted becomes in Go's structs, diffed with the      *)
(* template by DiffObj and put over it again by MergeObj, is that document *)
(* at each of its values, but for what the structs have no field for or    *)
(* leave out, what equal takes for the same, and an object in place of what*)
(* is none.  What was taken out of the template comes back.                *)
THEOREM WhatIsSubmittedIsDeployed == Spec => []SubmittedIsDeployed
<1>1. IInv => SubmittedIsDeployed
  <2> SUFFICES ASSUME IInv PROVE SubmittedIsDeployed
    OBVIOUS
  <2> DEFINE t == deployed.template
             m == deployed.meant
             c == Decoded(m)
  <2>1. /\ IsTree(t) /\ IsTree(m) /\ NullFree(m) /\ NullFree(t) /\ IsObject(m, <<>>)
        /\ (deployed.overwrites = DiffObj(t, c) \/ (deployed.overwrites = Undefined /\ m = t))
    BY TemplateIs DEF IInv, DeployedOK
  <2> HIDE DEF t, m
  <2>2. IsTree(c) /\ NullFree(c) /\ \A p \in DOMAIN c : p \in DOMAIN m /\ c[p] = m[p]
    BY <2>1, DecodedIs
  <2>3. CASE deployed.overwrites = DiffObj(t, c)
    <3>1. AsListed = MergeObj(t, DiffObj(t, c))
      BY <2>3 DEF AsListed, t
    <3>2. <<>> \in DOMAIN c => c[<<>>] # Null
      BY <2>1, <2>2, NodesDiffer DEF IsObject
    <3>3. ASSUME NEW p \in Leaves(m), \A q \in Forgotten(m) : ~Within(p, q) /\ ~Within(q, p)
          PROVE  \/ At(AsListed, p) = At(m, p)
                 \/ /\ IsArray(m, p) /\ IsArray(t, p) /\ Children(m, p) = Children(t, p)
                    /\ \E q \in DOMAIN m : Within(q, p) /\ m[q] = ObjectNode
                 \/ \E q \in Above(p) \intersect DOMAIN t : ~IsObject(t, q)
      <4>1. /\ p \in Leaves(c) /\ At(c, p) = At(m, p)
            /\ IsArray(c, p) => IsArray(m, p) /\ Children(c, p) = Children(m, p)
        BY <2>1, <3>3, DecodedSame
      <4> HIDE DEF c
      <4>2. \/ At(AsListed, p) = At(c, p)
            \/ /\ IsArray(c, p) /\ IsArray(t, p) /\ Children(c, p) = Children(t, p)
               /\ \E q \in DOMAIN c : Within(q, p) /\ c[q] = ObjectNode
            \/ \E q \in Above(p) \intersect DOMAIN t : ~IsObject(t, q)
        BY <2>1, <2>2, <3>1, <3>2, <4>1, SubmittedDeployed
      <4> QED BY <2>2, <4>1, <4>2
    <3> QED BY <3>3 DEF SubmittedIsDeployed, t, m
  <2>4. CASE deployed.overwrites = Undefined /\ m = t
    <3>1. AsListed = t
      BY <2>1, <2>4, MergeObjUndefined DEF AsListed, t
    <3> QED BY <2>4, <3>1 DEF SubmittedIsDeployed, t, m
  <2> QED BY <2>1, <2>3, <2>4
<1> QED BY <1>1, EditorInductive, PTL

-----------------------------------------------------------------------------
(* The two merges.                                                           *)

(* A template, and a patch for it with no null in its objects.               *)
Patch(t, o) ==
  /\ IsTree(t) /\ IsTree(o) /\ \A p \in DOMAIN o : ~Ignored(t, o, p)

(* What is above it is an object in the patch, if it is there.               *)
Patched(o, p) == \A q \in Above(p) : q \in DOMAIN o => o[q] = ObjectNode

LEMMA BothMerge ==
  ASSUME NEW t, NEW o, Patch(t, o)
  PROVE  /\ \A p : p \in DOMAIN Merge(t, o) <=>
                     p \in DOMAIN o \/ (p \in DOMAIN t /\ Agreeing(t, o, p))
         /\ \A p : p \in DOMAIN MergeObj(t, o) <=>
                     p \in DOMAIN o \/ (p \in DOMAIN t /\ Kept(t, o, p))
         /\ \A p \in DOMAIN o : Merge(t, o)[p] = o[p] /\ MergeObj(t, o)[p] = o[p]
         /\ \A p \in DOMAIN Merge(t, o) : p \notin DOMAIN o => Merge(t, o)[p] = t[p]
         /\ \A p \in DOMAIN MergeObj(t, o) : p \notin DOMAIN o => MergeObj(t, o)[p] = t[p]
         /\ IsTree(Merge(t, o)) /\ IsTree(MergeObj(t, o))
<1>1. IsTree(Merge(t, o)) /\ IsTree(MergeObj(t, o)) /\ \A p \in DOMAIN o : ~Ignored(t, o, p)
  BY MergeTree, MergeObjTree DEF Patch
<1> QED BY <1>1, MergeIs, MergeObjIs

LEMMA PatchedSame ==
  ASSUME NEW t, NEW o, Patch(t, o), NEW p, Patched(o, p)
  PROVE  /\ p \in DOMAIN Merge(t, o) <=> p \in DOMAIN MergeObj(t, o)
         /\ p \in DOMAIN Merge(t, o) => Merge(t, o)[p] = MergeObj(t, o)[p]
<1>1. p \in DOMAIN t => (Agreeing(t, o, p) <=> Kept(t, o, p))
  <2> SUFFICES ASSUME p \in DOMAIN t PROVE Agreeing(t, o, p) <=> Kept(t, o, p)
    OBVIOUS
  <2>1. \A q \in Above(p) : q \in DOMAIN t
    BY TreeAbove DEF Patch
  <2>2. \A q \in DOMAIN o : ~Ignored(t, o, q)
    BY DEF Patch
  <2> QED BY <2>1, <2>2 DEF Agreeing, Kept, Patched, IsObject
<1> QED BY <1>1, BothMerge

LEMMA InObjectsPatched ==
  ASSUME NEW t, NEW o, Patch(t, o), NEW p,
         InObjects(Merge(t, o), p) \/ InObjects(MergeObj(t, o), p)
  PROVE  Patched(o, p)
BY BothMerge DEF Patched, InObjects, IsObject

LEMMA InObjectsSame ==
  ASSUME NEW t, NEW o, Patch(t, o), NEW p \in Paths
  PROVE  InObjects(Merge(t, o), p) <=> InObjects(MergeObj(t, o), p)
<1>1. ASSUME Patched(o, p), NEW q \in Above(p)
      PROVE  IsObject(Merge(t, o), q) <=> IsObject(MergeObj(t, o), q)
  <2>1. Patched(o, q)
    BY <1>1, AbovePath DEF Patched
  <2> QED BY <2>1, PatchedSame DEF IsObject
<1> QED BY <1>1, InObjectsPatched DEF InObjects

LEMMA SameLeaves ==
  ASSUME NEW t, NEW o, Patch(t, o)
  PROVE  Leaves(Merge(t, o)) = Leaves(MergeObj(t, o))
<1> DEFINE r == Merge(t, o)
           a == MergeObj(t, o)
<1>0. DOMAIN r \subseteq Paths /\ DOMAIN a \subseteq Paths
  BY BothMerge DEF IsTree
<1>1. ASSUME NEW p \in Paths PROVE p \in Leaves(r) <=> p \in Leaves(a)
  <2>1. InObjects(r, p) <=> InObjects(a, p)
    BY InObjectsSame
  <2>2. InObjects(r, p) => /\ p \in DOMAIN r <=> p \in DOMAIN a
                           /\ p \in DOMAIN r => r[p] = a[p]
    BY InObjectsPatched, PatchedSame
  <2> HIDE DEF r, a
  <2> QED BY <2>1, <2>2 DEF Leaves
<1> HIDE DEF r, a
<1>2. Leaves(r) \subseteq Paths /\ Leaves(a) \subseteq Paths
  BY <1>0 DEF Leaves
<1>3. Leaves(r) = Leaves(a)
  BY <1>1, <1>2
<1> QED BY <1>3 DEF r, a

(* A list the patch replaces as a whole, whatever merges it.                 *)
Replacing(t, a, p) ==
  /\ Children(t, p) \subseteq Children(a, p)
  /\ \A q \in Children(a, p) : a[q] \notin {ObjectNode, ArrayNode}

LEMMA SameUnpatched ==
  ASSUME NEW t, NEW o, Patch(t, o), NEW p \in Leaves(Merge(t, o)), p \notin DOMAIN o
  PROVE  At(Merge(t, o), p) = At(MergeObj(t, o), p)
<1>1. Patched(o, p) /\ p \in Paths
  BY InObjectsPatched, BothMerge DEF Leaves, IsTree
<1>2. \A q \in Paths : Within(q, p) => Patched(o, q)
  <2> SUFFICES ASSUME NEW q \in Paths, Within(q, p), NEW u \in Above(q), u \in DOMAIN o
               PROVE  o[u] = ObjectNode
    BY DEF Patched
  <2>1. u \in Above(p) \/ Within(u, p)
    BY WithinPath
  <2>2. ~Within(u, p)
    BY TreeAbove DEF Patch, Within
  <2> QED BY <1>1, <2>1, <2>2 DEF Patched
<1>3. \A q : Within(q, p) /\ (q \in DOMAIN Merge(t, o) \/ q \in DOMAIN MergeObj(t, o)) => Patched(o, q)
  BY <1>2, BothMerge DEF IsTree
<1>4. \A q : Within(q, p) => (q \in DOMAIN Merge(t, o) <=> q \in DOMAIN MergeObj(t, o))
  BY <1>3, PatchedSame
<1>5. \A q : Within(q, p) /\ q \in DOMAIN Merge(t, o) => Merge(t, o)[q] = MergeObj(t, o)[q]
  BY <1>3, PatchedSame
<1> QED BY <1>4, <1>5, AtEqual

LEMMA SameReplaced ==
  ASSUME NEW t, NEW o, Patch(t, o), NEW p \in Leaves(Merge(t, o)), p \in DOMAIN o,
         o[p] = ArrayNode => Replacing(t, MergeObj(t, o), p)
  PROVE  At(Merge(t, o), p) = At(MergeObj(t, o), p)
<1> DEFINE r == Merge(t, o)
           a == MergeObj(t, o)
<1>1. /\ \A q : q \in DOMAIN r <=> q \in DOMAIN o \/ (q \in DOMAIN t /\ Agreeing(t, o, q))
      /\ \A q : q \in DOMAIN a <=> q \in DOMAIN o \/ (q \in DOMAIN t /\ Kept(t, o, q))
      /\ \A q \in DOMAIN o : r[q] = o[q] /\ a[q] = o[q]
      /\ IsTree(r) /\ IsTree(a) /\ IsTree(t) /\ IsTree(o)
  BY BothMerge DEF Patch
<1>2. p \in Paths /\ o[p] # ObjectNode
  BY <1>1 DEF Leaves, IsTree
<1>3. \A q \in DOMAIN o : ~Ignored(t, o, q)
  BY DEF Patch
<1>4. o[p] = ArrayNode => Replacing(t, a, p)
  OBVIOUS
<1> HIDE DEF r, a
<1>5. ASSUME NEW q, Within(q, p), q \in DOMAIN a PROVE q \in DOMAIN o
  BY <1>1, <1>2, <1>3, <1>5 DEF Kept, Within
<1>6. ASSUME NEW q, Within(q, p), q \in DOMAIN r PROVE q \in DOMAIN o
  <2> SUFFICES ASSUME q \notin DOMAIN o PROVE FALSE
    OBVIOUS
  <2>1. p \in Above(q) /\ q \in DOMAIN t /\ Agreeing(t, o, q) /\ q \in Paths
    BY <1>1, <1>6 DEF Within, IsTree
  <2>2. o[p] = ArrayNode
    BY <1>1, <1>2, <1>6, <2>1, TreeAbove DEF Containers
  <2>3. PICK c \in Paths : c # <<>> /\ Front(c) = p /\ Within(q, c)
    BY <2>1, StepBelow
  <2>4. c \in DOMAIN t
    BY <1>1, <2>1, <2>3, TreeAbove DEF Within
  <2>5. c \in Children(t, p)
    BY <2>3, <2>4 DEF Children
  <2>6. c \in DOMAIN a /\ a[c] \notin Containers
    BY <1>4, <2>2, <2>5 DEF Replacing, Children, Containers
  <2>7. Within(c, p)
    BY <2>3, FrontPath DEF Within
  <2>8. c \in DOMAIN o /\ o[c] \notin Containers
    BY <1>1, <1>5, <2>6, <2>7
  <2>9. c \in Above(q)
    BY <2>3, <2>8 DEF Within
  <2>10. o[c] = t[c] /\ t[c] \in Containers
    BY <1>1, <2>1, <2>8, <2>9, TreeAbove DEF Agreeing
  <2> QED BY <2>8, <2>10
<1>7. \A q : Within(q, p) => (q \in DOMAIN r <=> q \in DOMAIN a)
  BY <1>1, <1>5, <1>6
<1>8. \A q : Within(q, p) /\ q \in DOMAIN r => r[q] = a[q]
  BY <1>1, <1>6
<1>9. At(r, p) = At(a, p)
  BY <1>7, <1>8, AtEqual
<1> QED BY <1>9 DEF r, a

LEMMA RowListed ==
  ASSUME NEW t, NEW o, Patch(t, o), NEW r, NEW a, a = MergeObj(t, o), r = Merge(t, o) \/ r = a
  PROVE  /\ Leaves(r) = Leaves(a)
         /\ \A p \in Leaves(r) : At(r, p) = At(a, p) \/ (IsArray(r, p) /\ ~Replacing(t, a, p))
<1>1. CASE r = a
  BY <1>1
<1>2. CASE r = Merge(t, o)
  <2>1. Leaves(r) = Leaves(a)
    BY <1>2, SameLeaves
  <2>2. ASSUME NEW p \in Leaves(r), ~(IsArray(r, p) /\ ~Replacing(t, a, p))
        PROVE  At(r, p) = At(a, p)
    <3>1. CASE p \notin DOMAIN o
      BY <1>2, <2>2, <3>1, SameUnpatched
    <3>2. CASE p \in DOMAIN o
      <4>1. p \in DOMAIN r /\ r[p] = o[p]
        BY <1>2, <2>2, <3>2, BothMerge DEF Leaves
      <4> QED BY <1>2, <2>2, <3>2, <4>1, SameReplaced DEF IsArray
    <3> QED BY <3>1, <3>2
  <2> QED BY <2>1, <2>2
<1> QED BY <1>1, <1>2

(* The merge of the editor (lodash) and that of the server (MergeObj) agree*)
(* on every diff a put leaves: a row does not change when the list is      *)
(* answered, but for lists that became shorter or have objects or lists in *)
(* them.                                                                   *)
THEOREM RowIsAsListed == Spec => []RowAsListed
<1>1. IInv => RowAsListed
  <2> SUFFICES ASSUME IInv PROVE RowAsListed
    OBVIOUS
  <2> DEFINE t == deployed.template
             o == deployed.overwrites
  <2>1. IsTree(t) /\ IsTree(o) /\ NullFree(o) /\ (<<>> \in DOMAIN o => o[<<>>] # Null)
    BY TemplateIs, OverwritesAre, NodesDiffer DEF IInv, DeployedOK, IsObject
  <2>2. AsListed = MergeObj(t, o) /\ (row = Merge(t, o) \/ row = AsListed)
    BY DEF AsListed, IInv, RowOK
  <2> HIDE DEF t, o
  <2>3. Patch(t, o)
    BY <2>1, NotIgnored DEF Patch
  <2>4. /\ Leaves(row) = Leaves(AsListed)
        /\ \A p \in Leaves(row) :
             At(row, p) = At(AsListed, p) \/ (IsArray(row, p) /\ ~Replacing(t, AsListed, p))
    BY <2>2, <2>3, RowListed
  <2> QED BY <2>4 DEF RowAsListed, Replacing, t
<1> QED BY <1>1, EditorInductive, PTL

-----------------------------------------------------------------------------
(* The settings of a row.                                                    *)

LEMMA UnslashedAbove ==
  ASSUME NEW p \in Paths, ~Slashed(p), NEW q, Within(p, q)
  PROVE  q \in Paths /\ ~Slashed(q)
<1>1. q \in Paths
  BY AbovePath DEF Within
<1>2. /\ Len(p) \in Nat /\ DOMAIN p = 1..Len(p) /\ Len(q) \in Nat /\ DOMAIN q = 1..Len(q)
      /\ Len(q) <= Len(p) /\ \A i \in 1..Len(q) : q[i] = p[i]
  BY <1>1, PathIs, WithinIs
<1>3. \A i \in DOMAIN p : p[i] # Escapes[1] /\ p[i] # Escapes[2] /\ p[i] # Escapes[3]
  BY SlashedIs
<1>4. \A i \in DOMAIN q : i \in DOMAIN p /\ q[i] = p[i]
  BY <1>2
<1> QED BY <1>1, <1>3, <1>4, SlashedIs

LEMMA EscapeBack ==
  \A k : Escape(k) # Escapes[1] /\ Escape(k) # Escapes[2] /\ Escape(k) # Escapes[3] => Escape(k) = k
BY DEF Escape, SlashKey

(* A pointer near a path without escapes is a path near it.                  *)
LEMMA PointerNear ==
  ASSUME NEW p \in Paths, ~Slashed(p), NEW c \in Paths
  PROVE  /\ Within(Compile(c), p) => Within(c, p)
         /\ Within(p, Compile(c)) => Compile(c) = c
<1>1. /\ Compile(c) \in Paths /\ Len(Compile(c)) = Len(c) /\ Len(c) \in Nat /\ Len(p) \in Nat
      /\ \A i \in 1..Len(c) : Compile(c)[i] = Escape(c[i])
  BY CompileIs, PathIs
<1>2. \A i \in 1..Len(p) : p[i] # Escapes[1] /\ p[i] # Escapes[2] /\ p[i] # Escapes[3]
  BY SlashedIs, PathIs
<1>3. ASSUME NEW i \in 1..Len(p), i \in 1..Len(c), Compile(c)[i] = p[i] PROVE c[i] = p[i]
  BY <1>1, <1>2, <1>3, EscapeBack
<1>4. ASSUME Within(Compile(c), p) PROVE Within(c, p)
  <2>1. Len(p) <= Len(c) /\ \A i \in 1..Len(p) : p[i] = Compile(c)[i]
    BY <1>1, <1>4, WithinIs
  <2>2. \A i \in 1..Len(p) : i \in 1..Len(c)
    BY <1>1, <2>1
  <2>3. \A i \in 1..Len(p) : p[i] = c[i]
    BY <1>3, <2>1, <2>2
  <2> QED BY <2>1, <2>3, WithinIs
<1>5. ASSUME Within(p, Compile(c)) PROVE Compile(c) = c
  <2>1. Len(c) <= Len(p) /\ \A i \in 1..Len(c) : Compile(c)[i] = p[i]
    BY <1>1, <1>5, WithinIs
  <2>2. \A i \in 1..Len(c) : i \in 1..Len(p)
    BY <1>1, <2>1
  <2>3. \A i \in 1..Len(c) : Compile(c)[i] = c[i]
    BY <1>3, <2>1, <2>2
  <2> QED BY <1>1, <2>3, PathEqual
<1> QED BY <1>4, <1>5

(* A row and its template.                                                   *)
Shown(t, r) ==
  /\ IsTree(t) /\ NullFree(t) /\ IsObject(t, <<>>) /\ IsObject(t, <<"spec">>)
  /\ IsTree(r) /\ NullFree(r) /\ IsObject(r, <<>>) /\ IsObject(r, <<"spec">>)
  /\ Config \in DOMAIN t => IsObject(t, Config)

(* What the settings are before what is null is left out.                    *)
Stated(t, r) == SetAll(ConfigOf(t), Said(Settled(t, r)), r)

LEMMA StatedIs ==
  ASSUME NEW t, NEW r, Shown(t, r), NEW s, s = Said(Settled(t, r)), NEW a, a = Stated(t, r)
  PROVE  /\ IsTree(a) /\ Targets(s)
         /\ \A to \in DOMAIN s : s[to] \in Settled(t, r) /\ Compile(s[to]) = to
         /\ \A p \in Paths : \A to \in DOMAIN s : Within(p, to) =>
              /\ p \in DOMAIN a <=> Moved(p, to, s[to]) \in DOMAIN r
              /\ p \in DOMAIN a => a[p] = r[Moved(p, to, s[to])]
         /\ \A p \in Paths : (\A to \in DOMAIN s : ~Within(p, to)) =>
              /\ (\A to \in DOMAIN s : p \notin Above(to)) =>
                   /\ p \in DOMAIN a <=> p \in DOMAIN ConfigOf(t)
                   /\ p \in DOMAIN a => a[p] = ConfigOf(t)[p]
              /\ (\E to \in DOMAIN s : p \in Above(to)) =>
                   /\ p \in DOMAIN a
                   /\ a[p] = IF p \in DOMAIN ConfigOf(t) /\ ConfigOf(t)[p] \in Containers
                               THEN ConfigOf(t)[p] ELSE ObjectNode
<1>1. Settled(t, r) \subseteq Paths /\ Targets(s) /\ IsTree(a)
  BY SettingsTree DEF Shown, Stated
<1>2. \A to \in DOMAIN s : s[to] \in Settled(t, r) /\ Compile(s[to]) = to
  BY <1>1, SaidIs
<1>3. DOMAIN ConfigOf(t) \subseteq Paths /\ DOMAIN r \subseteq Paths
  BY ConfigOfIs DEF Shown, IsTree
<1>4. a = SetAll(ConfigOf(t), s, r)
  BY DEF Stated
<1> QED BY <1>1, <1>2, <1>3, <1>4, SetAllIs

(* What is said above a path, or below it.                                   *)
LEMMA SaidNear ==
  ASSUME NEW t, NEW r, Shown(t, r), NEW p \in Paths, ~Slashed(p), NEW s, s = Said(Settled(t, r)),
         NEW to \in DOMAIN s
  PROVE  /\ Within(p, to) => s[to] = to /\ to \in Settled(t, r)
         /\ p \in Above(to) => IsObject(r, p) /\ IsObject(t, p)
<1>1. /\ s[to] \in Settled(t, r) /\ Compile(s[to]) = to /\ to \in Paths /\ s[to] \in Paths
      /\ Len(s[to]) = Len(to)
  BY StatedIs DEF Targets
<1>2. Within(p, to) => s[to] = to
  BY <1>1, PointerNear
<1>3. ASSUME p \in Above(to) PROVE IsObject(r, p) /\ IsObject(t, p)
  <2>1. Within(s[to], p)
    BY <1>1, <1>3, PointerNear DEF Within
  <2>2. s[to] # p
    BY <1>1, <1>3, AbovePath
  <2>3. p \in Above(s[to])
    BY <2>1, <2>2 DEF Within
  <2>4. Both(r, t, s[to])
    BY <1>1, SettledIs DEF Added, Modified
  <2> QED BY <2>3, <2>4 DEF Both, InObjects
<1> QED BY <1>1, <1>2, <1>3

(* Where something is said, the settings have what the row has.              *)
LEMMA StatedRow ==
  ASSUME NEW t, NEW r, Shown(t, r), NEW p \in Paths, ~Slashed(p),
         NEW to \in DOMAIN Said(Settled(t, r)), Within(p, to),
         NEW q \in Paths, Within(q, p)
  PROVE  /\ q \in DOMAIN Stated(t, r) <=> q \in DOMAIN r
         /\ q \in DOMAIN r => Stated(t, r)[q] = r[q]
<1> DEFINE s == Said(Settled(t, r))
           a == Stated(t, r)
<1>1. s[to] = to /\ to \in Paths
  <2>1. s[to] = to
    BY SaidNear
  <2>2. Targets(s)
    BY StatedIs
  <2> QED BY <2>1, <2>2 DEF Targets
<1>2. Within(q, to)
  BY WithinPath
<1>3. Moved(q, to, s[to]) = q
  BY <1>1, <1>2, MovedSame
<1>4. /\ q \in DOMAIN a <=> Moved(q, to, s[to]) \in DOMAIN r
      /\ q \in DOMAIN a => a[q] = r[Moved(q, to, s[to])]
  BY <1>2, StatedIs
<1> HIDE DEF s, a
<1>5. (q \in DOMAIN a <=> q \in DOMAIN r) /\ (q \in DOMAIN r => a[q] = r[q])
  BY <1>3, <1>4
<1> QED BY <1>5 DEF a

(* Where nothing is said, they have the config there was.                    *)
LEMMA StatedConfig ==
  ASSUME NEW t, NEW r, Shown(t, r), NEW p \in Paths, ~Slashed(p), ~IsObject(r, p),
         \A to \in DOMAIN Said(Settled(t, r)) : ~Within(p, to),
         NEW q \in Paths, Within(q, p)
  PROVE  /\ q \in DOMAIN Stated(t, r) <=> q \in DOMAIN ConfigOf(t)
         /\ q \in DOMAIN Stated(t, r) => Stated(t, r)[q] = ConfigOf(t)[q]
<1> DEFINE s == Said(Settled(t, r))
<1>1. ASSUME NEW to \in DOMAIN s PROVE ~Within(q, to) /\ q \notin Above(to)
  <2>1. p \notin Above(to) /\ to \in Paths
    <3>1. Targets(s)
      BY StatedIs
    <3> QED BY <3>1, SaidNear DEF Targets
  <2>2. ~Within(to, p)
    BY <2>1 DEF Within
  <2>3. ~Within(q, to)
    BY <2>2, Comparable
  <2>4. q \in Above(to) => Within(to, p)
    BY <2>1, WithinPath DEF Within
  <2> QED BY <2>2, <2>3, <2>4
<1> QED BY <1>1, StatedIs

(* Above a path where all there is is objects, they have objects.            *)
LEMMA StatedAbove ==
  ASSUME NEW t, NEW r, Shown(t, r), NEW u \in DOMAIN Stated(t, r), ~Slashed(u),
         u \in DOMAIN r => r[u] = ObjectNode, u \in DOMAIN t => t[u] = ObjectNode
  PROVE  Stated(t, r)[u] = ObjectNode
<1> DEFINE s == Said(Settled(t, r))
           a == Stated(t, r)
           c == ConfigOf(t)
<1>1. u \in Paths /\ Within(u, u)
  BY StatedIs DEF IsTree, Within
<1>2. CASE \E to \in DOMAIN s : Within(u, to)
  BY <1>1, <1>2, StatedRow
<1>3. CASE \A to \in DOMAIN s : ~Within(u, to)
  <2>1. u \in DOMAIN c => c[u] = ObjectNode
    BY ConfigOfIs DEF Shown
  <2>2. \/ u \in DOMAIN c /\ a[u] = c[u]
        \/ a[u] = IF u \in DOMAIN c /\ c[u] \in Containers THEN c[u] ELSE ObjectNode
    <3>1. /\ (\A to \in DOMAIN s : u \notin Above(to)) => u \in DOMAIN c /\ a[u] = c[u]
          /\ (\E to \in DOMAIN s : u \in Above(to)) =>
                a[u] = IF u \in DOMAIN c /\ c[u] \in Containers THEN c[u] ELSE ObjectNode
      BY <1>1, <1>3, StatedIs
    <3> QED BY <3>1
  <2> HIDE DEF a, c
  <2>3. a[u] = ObjectNode
    BY <2>1, <2>2
  <2> QED BY <2>3 DEF a
<1> QED BY <1>2, <1>3

-----------------------------------------------------------------------------
(* What becomes of them over another revision.                               *)

(* Nothing but objects above, and no object there.                           *)
PlainAt(v, p) == ~IsObject(v, p) /\ \A q \in Above(p) \intersect DOMAIN v : IsObject(v, q)

(* The same at a path.                                                       *)
SameWithin(v, w, p) ==
  \A q \in Paths : Within(q, p) => (q \in DOMAIN v <=> q \in DOMAIN w) /\ (q \in DOMAIN w => v[q] = w[q])

LEMMA SettingsSame ==
  ASSUME NEW t, NEW r, Shown(t, r), NEW v, IsTree(v), NullFree(v), NEW p \in Paths, PlainAt(v, p),
         SameWithin(Stated(t, r), v, p)
  PROVE  SameWithin(Settings(t, r), v, p)
<1> DEFINE a == Stated(t, r)
           s == Settings(t, r)
<1>1. IsTree(a) /\ s = CloneWithoutNull(a)
  BY StatedIs, SettingsAre DEF Stated
<1>2. \A q \in Paths : Within(q, p) => (q \in DOMAIN a <=> q \in DOMAIN v) /\ (q \in DOMAIN v => a[q] = v[q])
  BY DEF SameWithin
<1> HIDE DEF a, s
<1>3. ASSUME NEW q \in Paths, Within(q, p), q \in DOMAIN a PROVE ~Omitted(a, q)
  <2> SUFFICES ASSUME q # <<>>, a[q] = Null, a[Front(q)] = ObjectNode PROVE FALSE
    BY DEF Omitted
  <2>1. Front(q) \in Above(q) /\ Front(q) \in Paths /\ q \in DOMAIN v /\ v[q] = Null
    BY <1>2, <1>3, FrontPath
  <2>2. Front(q) \in DOMAIN a /\ Front(q) \in DOMAIN v
    BY <1>1, <1>3, <2>1, TreeAbove
  <2>3. v[Front(q)] = ObjectNode
    <3>1. CASE Within(Front(q), p)
      BY <1>2, <2>1, <2>2, <3>1
    <3>2. CASE Front(q) \in Above(p)
      BY <2>2, <3>2 DEF PlainAt, IsObject
    <3> QED BY <1>3, <2>1, <3>1, <3>2, WithinPath
  <2> QED BY <2>1, <2>3, NullFreeIs DEF Omitted
<1>4. \A q \in Paths : Within(q, p) => (q \in DOMAIN s <=> q \in DOMAIN v) /\ (q \in DOMAIN v => s[q] = v[q])
  BY <1>1, <1>2, <1>3, CloneIs
<1> QED BY <1>4 DEF SameWithin, s

LEMMA NotVersion ==
  ASSUME NEW p \in Paths, ~Within(p, Version), p # <<>>, p # <<"spec">>,
         NEW q \in Paths, Within(q, p)
  PROVE  ~Within(q, Version)
BY Comparable, SpecPath DEF Within

LEMMA WithoutSame ==
  ASSUME NEW s, NEW v, NEW p \in Paths, SameWithin(s, v, p), ~Within(p, Version), p # <<>>, p # <<"spec">>
  PROVE  SameWithin(Without(s, Version), v, p)
<1>1. ASSUME NEW q \in Paths, Within(q, p)
      PROVE  /\ q \in DOMAIN Without(s, Version) <=> q \in DOMAIN s
             /\ q \in DOMAIN s => Without(s, Version)[q] = s[q]
  BY <1>1, NotVersion, WithoutIs
<1> QED BY <1>1 DEF SameWithin

LEMMA WithoutNullFree ==
  ASSUME NEW s, IsTree(s), NullFree(s)
  PROVE  NullFree(Without(s, Version))
<1> DEFINE w == Without(s, Version)
           S == {q \in DOMAIN s : ~Within(q, Version)}
<1>1. w = Restrict(s, S) /\ DOMAIN w = S /\ \A q \in S : w[q] = s[q]
  BY RestrictIs DEF Without
<1> HIDE DEF w
<1>2. w = Restrict(w, S)
  <2>1. Restrict(s, S) = [q \in S |-> s[q]] /\ Restrict(w, S) = [q \in S |-> w[q]]
    BY DEF Restrict
  <2>2. [q \in S |-> w[q]] = [q \in S |-> s[q]]
    BY <1>1
  <2> QED BY <1>1, <2>1, <2>2
<1>3. ASSUME NEW q \in DOMAIN w, Omitted(w, q) PROVE FALSE
  <2>1. q \in DOMAIN s /\ ~Within(q, Version) /\ q \in Paths /\ q # <<>>
    BY <1>1, <1>3 DEF IsTree, Omitted
  <2>2. Front(q) \in Above(q) /\ Front(q) \in Paths
    BY <2>1, FrontPath
  <2>3. Front(q) \in DOMAIN s
    BY <2>1, <2>2, TreeAbove
  <2>4. ~Within(Front(q), Version)
    BY <2>1, <2>2, WithinPath, AbovePath DEF Within
  <2>5. Front(q) \in S /\ q \in S
    BY <2>1, <2>3, <2>4
  <2>6. Omitted(s, q)
    BY <1>1, <1>3, <2>5 DEF Omitted
  <2> QED BY <2>1, <2>6, NullFreeIs
<1>4. NullFree(w)
  BY <1>2, <1>3, NullFreeIf
<1> QED BY <1>4 DEF w

(* What is put over a template is there, but for the end of a longer list.   *)
KeptFrom(d, v, p) ==
  IF IsArray(v, p) THEN \A q \in DOMAIN At(v, p) : q \in DOMAIN d /\ d[q] = v[q]
  ELSE At(d, p) = At(v, p)

LEMMA MergeKeeps ==
  ASSUME NEW n, NEW w, IsTree(n), IsTree(w), NEW v, IsTree(v), NEW p \in DOMAIN v, ~IsObject(v, p),
         SameWithin(w, v, p)
  PROVE  KeptFrom(Merge(n, w), v, p)
<1> DEFINE d == Merge(n, w)
<1>1. p \in Paths /\ v[p] # ObjectNode
  BY DEF IsTree, IsObject
<1>2. \A q \in Paths : Within(q, p) => (q \in DOMAIN w <=> q \in DOMAIN v) /\ (q \in DOMAIN v => w[q] = v[q])
  BY DEF SameWithin
<1>3. ASSUME NEW q \in DOMAIN v, Within(q, p) PROVE q \in DOMAIN d /\ d[q] = v[q]
  <2>1. q \in DOMAIN w /\ w[q] = v[q]
    BY <1>2, <1>3 DEF IsTree
  <2> QED BY <2>1, MergeIs
<1>4. CASE IsArray(v, p)
  <2>1. \A q \in DOMAIN At(v, p) : q \in DOMAIN v /\ Within(q, p)
    BY AtIs
  <2> QED BY <1>3, <1>4, <2>1 DEF KeptFrom
<1>5. CASE ~IsArray(v, p)
  <2>1. v[p] \notin Containers
    BY <1>1, <1>5 DEF IsArray, Containers
  <2>2. p \in DOMAIN w /\ w[p] = v[p]
    BY <1>1, <1>2 DEF Within
  <2>3. ASSUME NEW q, Within(q, p), q \in DOMAIN d PROVE q \in DOMAIN v
    <3>1. CASE q \in DOMAIN w
      BY <1>2, <2>3, <3>1 DEF IsTree
    <3>2. CASE q \notin DOMAIN w
      <4>1. q \in DOMAIN n /\ Agreeing(n, w, q) /\ p \in Above(q)
        BY <2>2, <2>3, <3>2, MergeIs DEF Within
      <4>2. n[p] \in Containers /\ w[p] = n[p]
        BY <2>2, <4>1, TreeAbove DEF Agreeing
      <4> QED BY <2>1, <2>2, <4>2
    <3> QED BY <3>1, <3>2
  <2> HIDE DEF d
  <2>4. At(d, p) = At(v, p)
    BY <1>3, <2>3, AtEqual
  <2> QED BY <1>5, <2>4 DEF KeptFrom, d
<1> QED BY <1>4, <1>5

(* Where nothing is put over a template, it is as it says.                   *)
LEMMA MergeLeaves ==
  ASSUME NEW n, NEW w, IsTree(n), IsTree(w), NEW p \in Paths, PlainAt(n, p),
         \A q \in Paths : Within(q, p) => q \notin DOMAIN w,
         \A u \in Above(p) : u \in DOMAIN w => w[u] = ObjectNode
  PROVE  At(Merge(n, w), p) = At(n, p)
<1> DEFINE d == Merge(n, w)
<1>1. ASSUME NEW q, Within(q, p), q \in DOMAIN n PROVE q \in DOMAIN d /\ d[q] = n[q]
  <2>1. q \in Paths
    BY <1>1 DEF IsTree
  <2>2. \A u \in Above(q) : u \in DOMAIN w => w[u] = n[u]
    <3> SUFFICES ASSUME NEW u \in Above(q), u \in DOMAIN w PROVE w[u] = n[u]
      OBVIOUS
    <3>1. u \in DOMAIN n /\ u \in Paths
      BY <1>1, TreeAbove
    <3>2. u \in Above(p)
      BY <1>1, <2>1, <3>1, WithinPath
    <3> QED BY <3>1, <3>2 DEF PlainAt, IsObject
  <2> QED BY <1>1, <2>1, <2>2, MergeIs DEF Agreeing
<1>2. ASSUME NEW q, Within(q, p), q \in DOMAIN d PROVE q \in DOMAIN n
  <2>1. q \in DOMAIN n \/ q \in DOMAIN w
    BY <1>2, MergeIs
  <2>2. q \in Paths
    BY <2>1 DEF IsTree
  <2> QED BY <1>2, <2>1, <2>2
<1> HIDE DEF d
<1>3. At(d, p) = At(n, p)
  BY <1>1, <1>2, AtEqual
<1> QED BY <1>3 DEF d

-----------------------------------------------------------------------------
(* A row, the settings it gives, and a document they are put over a revision *)
(* for.                                                                      *)

(* Something is said at a path or above it, if it is settled there.          *)
LEMMA SettledSaid ==
  ASSUME NEW t, NEW r, Shown(t, r), NEW p \in Paths, ~Slashed(p), NEW c \in Settled(t, r), Within(p, c)
  PROVE  \E to \in DOMAIN Said(Settled(t, r)) : Within(p, to)
<1> DEFINE C == Settled(t, r)
           S == {x \in Paths : Within(c, x) /\ \E y \in C : x = Compile(y)}
<1>1. C \subseteq Paths
  BY SettingsTree DEF Shown
<1>2. c \in Paths /\ Compile(c) = c
  BY UnslashedAbove, Unslashed
<1> HIDE DEF C
<1>3. c \in C
  BY DEF C
<1>4. c \in S /\ S \subseteq Paths
  BY <1>2, <1>3 DEF Within
<1>5. PICK to \in S : \A q \in Above(to) : q \notin S
  <2> HIDE DEF S
  <2> QED BY <1>4, Shallowest
<1>6. to \in Paths /\ Within(c, to) /\ \E y \in C : to = Compile(y)
  BY <1>5
<1>7. ASSUME NEW y \in C, Compile(y) \in Above(to) PROVE FALSE
  <2>1. Compile(y) \in Paths /\ Within(to, Compile(y))
    BY <1>6, <1>7, AbovePath DEF Within
  <2>2. Within(c, Compile(y))
    BY <1>2, <1>6, <2>1, WithinPath
  <2> QED BY <1>5, <1>7, <2>1, <2>2
<1>8. to \in DOMAIN Said(C)
  BY <1>1, <1>6, <1>7, SaidIs
<1>9. Within(p, to)
  BY <1>6, WithinPath
<1> QED BY <1>8, <1>9 DEF C

(* What a row says otherwise than its template is settled, or what is above. *)
LEMMA OtherwiseSettled ==
  ASSUME NEW t, NEW r, Shown(t, r), NEW p \in Paths, PlainAt(t, p), PlainAt(r, p),
         p \in DOMAIN r, At(r, p) # At(t, p)
  PROVE  \E c \in Settled(t, r) : Within(p, c)
<1>1. \A q \in Above(p) : IsObject(r, q) /\ (q \in DOMAIN t => IsObject(t, q))
  BY TreeAbove DEF PlainAt, Shown
<1>2. CASE InObjects(t, p)
  <2>1. Both(r, t, p) /\ ~IsObject(r, p)
    BY <1>1, <1>2 DEF Both, InObjects, PlainAt
  <2>2. Added(r, t, p) \/ Modified(r, t, p)
    BY <2>1 DEF Added, Modified, Unequal
  <2> QED BY <2>2, SettledIs DEF Within
<1>3. CASE ~InObjects(t, p)
  <2> DEFINE S == {q \in Above(p) : q \notin DOMAIN t}
  <2>1. PICK q \in Above(p) : q \notin DOMAIN t
    BY <1>1, <1>3 DEF InObjects
  <2>2. S \subseteq Paths /\ q \in S
    BY <2>1, AbovePath
  <2>3. PICK u \in S : \A x \in Above(u) : x \notin S
    <3> HIDE DEF S
    <3> QED BY <2>2, Shallowest
  <2>4. u \in Above(p) /\ u \notin DOMAIN t /\ \A x \in Above(u) : x \in Above(p)
    BY <2>3, AbovePath
  <2>5. \A x \in Above(u) : IsObject(t, x) /\ IsObject(r, x)
    BY <1>1, <2>3, <2>4
  <2>6. Added(r, t, u)
    BY <1>1, <2>4, <2>5 DEF Added, Both, InObjects, IsObject
  <2> QED BY <2>4, <2>6, SettledIs DEF Within
<1> QED BY <1>2, <1>3

(* And the settings have it as the row.                                      *)
LEMMA OtherwiseSame ==
  ASSUME NEW t, NEW r, Shown(t, r), NEW p \in Paths, ~Slashed(p), PlainAt(t, p), PlainAt(r, p),
         p \in DOMAIN r, At(r, p) # At(t, p)
  PROVE  SameWithin(Settings(t, r), r, p)
<1>1. PICK c \in Settled(t, r) : Within(p, c)
  BY OtherwiseSettled
<1>2. PICK to \in DOMAIN Said(Settled(t, r)) : Within(p, to)
  BY <1>1, SettledSaid
<1>3. SameWithin(Stated(t, r), r, p)
  BY <1>2, StatedRow DEF SameWithin
<1> QED BY <1>3, SettingsSame DEF Shown

(* Of what the template has too, nothing else is said.                       *)
LEMMA NothingSaid ==
  ASSUME NEW t, NEW r, Shown(t, r), NEW p \in DOMAIN t, ~Slashed(p), PlainAt(t, p), PlainAt(r, p),
         p \in DOMAIN r => At(r, p) = At(t, p),
         NEW to \in DOMAIN Said(Settled(t, r)), Within(p, to)
  PROVE  FALSE
<1>1. p \in Paths
  BY DEF Shown, IsTree
<1>2. to \in Settled(t, r)
  BY <1>1, SaidNear
<1>3. to \in DOMAIN r
  BY <1>2, SettledIs DEF Added, Modified
<1>4. to \in DOMAIN t
  BY TreeAbove DEF Shown, Within
<1>5. Unequal(r, t, to)
  BY <1>2, <1>4, SettledIs DEF Added, Modified
<1>6. CASE to = p
  BY <1>3, <1>5, <1>6 DEF Unequal
<1>7. CASE to \in Above(p)
  BY <1>3, <1>4, <1>5, <1>7 DEF Unequal, PlainAt
<1> QED BY <1>6, <1>7 DEF Within

(* A key of the config of the template stays as it was.                      *)
LEMMA ConfigSame ==
  ASSUME NEW t, NEW r, Shown(t, r), NEW p \in DOMAIN t, ~Slashed(p), PlainAt(t, p), PlainAt(r, p),
         p \in DOMAIN r => At(r, p) = At(t, p), Within(p, Config)
  PROVE  SameWithin(Settings(t, r), t, p)
<1>1. p \in Paths
  BY DEF Shown, IsTree
<1>2. \A to \in DOMAIN Said(Settled(t, r)) : ~Within(p, to)
  BY NothingSaid
<1>3. p # Config
  BY DEF PlainAt, Shown
<1>4. ASSUME NEW q \in Paths, Within(q, p)
      PROVE  /\ q \in DOMAIN ConfigOf(t) <=> q \in DOMAIN t
             /\ q \in DOMAIN t => ConfigOf(t)[q] = t[q]
  <2>1. Within(q, Config)
    BY <1>4, WithinPath
  <2>2. q \notin {<<>>, <<"spec">>, Config}
    <3>1. Config \in Above(p)
      BY <1>3 DEF Within
    <3>2. Config \in Above(q)
      BY <1>1, <1>4, <3>1, WithinPath, AbovePath DEF Within
    <3>3. q # Config /\ <<>> \notin Above(<<>>) /\ Config \notin Above(<<"spec">>) /\ Config # <<>>
      BY <1>4, <3>2, AbovePath, SpecPath, EmptyPath
    <3> QED BY <3>2, <3>3, EmptyPath
  <2> QED BY <2>1, <2>2, ConfigOfIs DEF Shown
<1>5. SameWithin(Stated(t, r), t, p)
  <2> SUFFICES ASSUME NEW q \in Paths, Within(q, p)
               PROVE  /\ q \in DOMAIN Stated(t, r) <=> q \in DOMAIN t
                      /\ q \in DOMAIN t => Stated(t, r)[q] = t[q]
    BY DEF SameWithin
  <2>1. /\ q \in DOMAIN Stated(t, r) <=> q \in DOMAIN ConfigOf(t)
        /\ q \in DOMAIN Stated(t, r) => Stated(t, r)[q] = ConfigOf(t)[q]
    BY <1>1, <1>2, StatedConfig DEF PlainAt
  <2> QED BY <1>4, <2>1
<1> QED BY <1>1, <1>5, SettingsSame DEF Shown

(* Of the rest nothing is said.                                              *)
LEMMA NothingSettled ==
  ASSUME NEW t, NEW r, Shown(t, r), NEW p \in Paths, ~Slashed(p), PlainAt(t, p), PlainAt(r, p),
         p \in DOMAIN r => p \in DOMAIN t /\ At(r, p) = At(t, p),
         ~(Within(p, Config) /\ p \in DOMAIN t), p # Config,
         NEW q \in Paths, Within(q, p)
  PROVE  q \notin DOMAIN Settings(t, r)
<1>1. p # <<>> /\ p # <<"spec">>
  BY DEF PlainAt, Shown
<1>2. q \notin DOMAIN Stated(t, r)
  <2>1. CASE \E to \in DOMAIN Said(Settled(t, r)) : Within(p, to)
    <3>1. PICK to \in DOMAIN Said(Settled(t, r)) : Within(p, to)
      BY <2>1
    <3>2. p \notin DOMAIN r
      BY <3>1, NothingSaid
    <3>3. q \notin DOMAIN r
      BY <3>2, TreeAbove DEF Shown, Within
    <3> QED BY <3>1, <3>3, StatedRow
  <2>2. CASE \A to \in DOMAIN Said(Settled(t, r)) : ~Within(p, to)
    <3>1. q \in DOMAIN Stated(t, r) <=> q \in DOMAIN ConfigOf(t)
      BY <2>2, StatedConfig DEF PlainAt
    <3>2. q \notin {<<>>, <<"spec">>, Config}
      <4>1. Above(<<>>) = {} /\ Above(<<"spec">>) = {<<>>} /\ Above(Config) = {<<>>, <<"spec">>}
        BY EmptyPath, SpecPath
      <4> QED BY <1>1, <4>1 DEF Within
    <3>3. ~(q \in DOMAIN t /\ Within(q, Config))
      <4> SUFFICES ASSUME q \in DOMAIN t, Within(q, Config) PROVE FALSE
        OBVIOUS
      <4>1. p \in DOMAIN t
        BY TreeAbove DEF Shown, Within
      <4>2. Within(p, Config) \/ Within(Config, p)
        BY Comparable
      <4>3. Within(Config, p) => p \in {<<>>, <<"spec">>, Config}
        BY SpecPath DEF Within
      <4> QED BY <1>1, <4>1, <4>2, <4>3
    <3> QED BY <3>1, <3>2, <3>3, ConfigOfIs DEF Shown
  <2> QED BY <2>1, <2>2
<1>3. Settings(t, r) = CloneWithoutNull(Stated(t, r))
  BY SettingsAre DEF Stated
<1> QED BY <1>2, <1>3, CloneIs

(* Above it there is nothing but objects in the settings.                    *)
LEMMA SettingsAbove ==
  ASSUME NEW t, NEW r, Shown(t, r), NEW p \in Paths, ~Slashed(p), PlainAt(t, p), PlainAt(r, p),
         NEW u \in Above(p), u \in DOMAIN Settings(t, r)
  PROVE  Settings(t, r)[u] = ObjectNode
<1>1. Settings(t, r) = CloneWithoutNull(Stated(t, r))
  BY SettingsAre DEF Stated
<1>2. u \in DOMAIN Stated(t, r) /\ Settings(t, r)[u] = Stated(t, r)[u]
  BY <1>1, CloneIs
<1>3. ~Slashed(u)
  BY UnslashedAbove DEF Within
<1>4. (u \in DOMAIN r => r[u] = ObjectNode) /\ (u \in DOMAIN t => t[u] = ObjectNode)
  BY DEF PlainAt, IsObject
<1> QED BY <1>2, <1>3, <1>4, StatedAbove

LEMMA NothingAt ==
  ASSUME NEW v, IsTree(v), NEW p
  PROVE  At(v, p) = Undefined <=> p \notin DOMAIN v
<1>1. ASSUME p \in DOMAIN v PROVE At(v, p) # Undefined
  <2>1. p \in DOMAIN At(v, p)
    BY <1>1, AtIs DEF Within
  <2>2. DOMAIN Undefined = {}
    BY DEF Undefined
  <2> QED BY <2>1, <2>2
<1>2. ASSUME p \notin DOMAIN v PROVE At(v, p) = Undefined
  <2>1. {q \in DOMAIN v : Within(q, p)} = {}
    BY <1>2, TreeAbove DEF Within
  <2> QED BY <2>1 DEF At, Restrict, Undefined
<1> QED BY <1>1, <1>2

(* What is meant by a document opened over a revision.                       *)
LEMMA CarriedOver ==
  ASSUME NEW t, NEW r, Shown(t, r), NEW n, IsTree(n), NullFree(n), Config \in DOMAIN n => IsObject(n, Config),
         NEW d, d = CloneWithoutNull(Merge(n, Without(Settings(t, r), Version))),
         NEW p \in Leaves(r) \union Leaves(n), ~Slashed(p), PlainAt(r, p), PlainAt(t, p), PlainAt(n, p)
  PROVE  IF Within(p, Version) THEN At(d, p) = At(n, p)
         ELSE IF At(r, p) \notin {Undefined, At(t, p)} THEN KeptFrom(d, r, p)
         ELSE IF Within(p, Config) /\ p \in DOMAIN t THEN KeptFrom(d, t, p)
         ELSE At(d, p) = At(n, p)
<1> DEFINE s == Settings(t, r)
           w == Without(s, Version)
<1>1. IsTree(s) /\ NullFree(s) /\ IsTree(t) /\ IsTree(r) /\ IsTree(Stated(t, r))
  <2>1. IsTree(s) /\ IsTree(Stated(t, r))
    BY SettingsTree, StatedIs DEF Shown
  <2>2. s = CloneWithoutNull(Stated(t, r))
    BY SettingsAre DEF Stated
  <2> HIDE DEF s
  <2> QED BY <2>1, <2>2, CloneNullFree DEF Shown
<1>2. \A u \in Above(p) : u \in DOMAIN s => s[u] = ObjectNode
  <2>1. p \in Paths
    BY <1>1 DEF Leaves, IsTree
  <2> QED BY <2>1, SettingsAbove
<1>3. p \in Paths /\ p # <<>> /\ p # <<"spec">>
  BY <1>1 DEF Leaves, IsTree, PlainAt, Shown
<1>4. s = Settings(t, r) /\ d = CloneWithoutNull(Merge(n, w))
  OBVIOUS
<1> HIDE DEF s
<1>5. IsTree(w) /\ NullFree(w)
  BY <1>1, WithoutTree, WithoutNullFree
<1>6. \A u \in Above(p) : u \in DOMAIN w => w[u] = ObjectNode
  BY <1>2, WithoutIs
<1>7. \A q \in DOMAIN w : q \in DOMAIN s /\ ~Within(q, Version)
  BY WithoutIs
<1>8. ASSUME NEW v, ~Within(p, Version), SameWithin(s, v, p) PROVE SameWithin(w, v, p)
  BY <1>3, <1>8, WithoutSame
<1> HIDE DEF w
<1>9. d = Merge(n, w)
  <2>1. NullFree(Merge(n, w))
    BY <1>5, MergeNullFree
  <2> QED BY <1>4, <2>1 DEF NullFree
<1>10. ASSUME \A q \in Paths : Within(q, p) => q \notin DOMAIN w PROVE At(d, p) = At(n, p)
  BY <1>3, <1>5, <1>6, <1>9, <1>10, MergeLeaves
<1>11. ASSUME NEW v, IsTree(v), p \in DOMAIN v, PlainAt(v, p), SameWithin(w, v, p)
       PROVE  KeptFrom(d, v, p)
  BY <1>5, <1>9, <1>11, MergeKeeps DEF PlainAt
<1>12. (At(r, p) = Undefined <=> p \notin DOMAIN r) /\ (At(t, p) = Undefined <=> p \notin DOMAIN t)
  BY <1>1, NothingAt
<1>13. CASE Within(p, Version)
  <2>1. \A q \in Paths : Within(q, p) => Within(q, Version)
    BY <1>13, WithinPath
  <2>2. At(d, p) = At(n, p)
    BY <1>7, <1>10, <2>1
  <2> QED BY <1>13, <2>2
<1>14. CASE ~Within(p, Version) /\ At(r, p) \notin {Undefined, At(t, p)}
  <2>1. p \in DOMAIN r /\ At(r, p) # At(t, p)
    BY <1>12, <1>14
  <2>2. SameWithin(s, r, p)
    BY <1>3, <1>4, <2>1, OtherwiseSame
  <2>3. KeptFrom(d, r, p)
    BY <1>1, <1>8, <1>11, <1>14, <2>1, <2>2
  <2> QED BY <1>14, <2>3
<1>15. CASE /\ ~Within(p, Version) /\ At(r, p) \in {Undefined, At(t, p)}
            /\ Within(p, Config) /\ p \in DOMAIN t
  <2>1. p \in DOMAIN r => At(r, p) = At(t, p)
    BY <1>12, <1>15
  <2>2. SameWithin(s, t, p)
    BY <1>4, <1>15, <2>1, ConfigSame
  <2>3. KeptFrom(d, t, p)
    BY <1>1, <1>8, <1>11, <1>15, <2>2
  <2> QED BY <1>15, <2>3
<1>16. CASE /\ ~Within(p, Version) /\ At(r, p) \in {Undefined, At(t, p)}
            /\ ~(Within(p, Config) /\ p \in DOMAIN t)
  <2>1. p \in DOMAIN r => p \in DOMAIN t /\ At(r, p) = At(t, p)
    BY <1>12, <1>16
  <2>2. p # Config
    BY <2>1 DEF Leaves, PlainAt, Shown
  <2>3. \A q \in Paths : Within(q, p) => q \notin DOMAIN s
    BY <1>3, <1>4, <1>16, <2>1, <2>2, NothingSettled
  <2>4. At(d, p) = At(n, p)
    BY <1>7, <1>10, <2>3
  <2> QED BY <1>16, <2>4
<1> QED BY <1>13, <1>14, <1>15, <1>16

(* Another revision keeps what the row says otherwise than its own, and is *)
(* as its template says for the rest: diffAsOverwrites, set and merge lose *)
(* or invent no setting, for any two revisions and any row, but for the    *)
(* version, old config keys, ends of longer lists, and keys with a slash.  *)
THEOREM SettingsAreCarriedOver == Spec => []SettingsCarriedOver
<1>1. IInv => SettingsCarriedOver
  <2> SUFFICES ASSUME IInv, editor # None, editor.edits = 0 PROVE SettingsCarriedOver
    BY DEF SettingsCarriedOver
  <2> DEFINE t == deployed.template
             n == editor.template
             d == editor.doc
  <2>1. EditorOK(editor) /\ DeployedOK /\ RowOK
    BY DEF IInv
  <2>2. Shown(t, row)
    BY <2>1, TemplateIs, RowIs DEF Shown, DeployedOK
  <2>3. IsTree(n) /\ NullFree(n) /\ (Config \in DOMAIN n => IsObject(n, Config))
    BY <2>1, TemplateIs DEF EditorOK
  <2>4. d = CloneWithoutNull(Merge(n, Without(Settings(t, row), Version)))
    BY <2>1 DEF EditorOK, OpenedOK
  <2> HIDE DEF t, n, d
  <2>5. ASSUME NEW p \in Leaves(row) \union Leaves(n), ~Slashed(p),
               PlainAt(row, p), PlainAt(t, p), PlainAt(n, p)
        PROVE  IF Within(p, Version) THEN At(d, p) = At(n, p)
               ELSE IF At(row, p) \notin {Undefined, At(t, p)} THEN KeptFrom(d, row, p)
               ELSE IF Within(p, Config) /\ p \in DOMAIN t THEN KeptFrom(d, t, p)
               ELSE At(d, p) = At(n, p)
    BY <2>2, <2>3, <2>4, <2>5, CarriedOver
  <2>6. \A p : (\A v \in {row, t, n} : ~IsObject(v, p) /\ \A q \in Above(p) \intersect DOMAIN v : IsObject(v, q))
               <=> PlainAt(row, p) /\ PlainAt(t, p) /\ PlainAt(n, p)
    BY DEF PlainAt
  <2> QED BY <2>5, <2>6 DEF SettingsCarriedOver, KeptFrom, t, n, d
<1> QED BY <1>1, EditorInductive, PTL

-----------------------------------------------------------------------------
(* What is offered.                                                          *)

(* A key after a path, whatever key it is.                                   *)
LEMMA AboveAppended ==
  ASSUME NEW p \in Paths, NEW k
  PROVE  Above(Append(p, k)) = Above(p) \union {p}
<1> DEFINE T == Keys \union {k}
           a == Append(p, k)
<1>1. p \in Seq(T) /\ k \in T
  BY SeqMonotonic DEF Paths
<1>2. Len(p) \in Nat /\ Len(a) = Len(p) + 1 /\ \A i \in 1..Len(p) : a[i] = p[i]
  BY PathIs, AppendFront
<1> HIDE DEF T
<1>3. a \in Seq(T)
  BY <1>1, AppendProperties
<1> HIDE DEF a
<1>4. ASSUME NEW n \in 0..Len(p) PROVE SubSeq(a, 1, n) = SubSeq(p, 1, n)
  <2>1. n \in 0..Len(a) /\ \A i \in 1..n : i \in 1..Len(p) /\ i \in 1..Len(a)
    BY <1>2
  <2>2. \A i \in 1..n : a[i] \in T /\ p[i] \in T
    BY <1>1, <1>3, <2>1, ElementOfSeq
  <2>3. /\ SubSeq(a, 1, n) \in Seq(T) /\ Len(SubSeq(a, 1, n)) = n
        /\ \A i \in 1..n : SubSeq(a, 1, n)[i] = a[i]
    BY <2>2, SubSeqProperties
  <2>4. /\ SubSeq(p, 1, n) \in Seq(T) /\ Len(SubSeq(p, 1, n)) = n
        /\ \A i \in 1..n : SubSeq(p, 1, n)[i] = p[i]
    BY <2>2, SubSeqProperties
  <2>5. \A i \in 1..n : SubSeq(a, 1, n)[i] = SubSeq(p, 1, n)[i]
    BY <1>2, <2>1, <2>3, <2>4
  <2> QED BY <2>3, <2>4, <2>5, SeqEqual
<1>5. 0..(Len(a) - 1) = 0..Len(p)
  BY <1>2
<1>6. Above(a) = {SubSeq(p, 1, n) : n \in 0..Len(p)}
  BY <1>4, <1>5 DEF Above
<1>7. SubSeq(p, 1, Len(p)) = p
  BY SubSeqFull2
<1>8. Above(p) = {SubSeq(p, 1, n) : n \in 0..(Len(p) - 1)}
  BY DEF Above
<1>9. 0..Len(p) = (0..(Len(p) - 1)) \union {Len(p)}
  BY <1>2
<1>10. Above(a) = Above(p) \union {p}
  BY <1>6, <1>7, <1>8, <1>9
<1> QED BY <1>10 DEF a

(* What is put at a new key changes nothing of what is above and beside it.  *)
LEMMA BesideKey ==
  ASSUME NEW pos \in Paths, NEW key, NEW path \in Paths, Within(pos, path), NEW k,
         path = pos => k # key
  PROVE  /\ ~Within(path, Append(pos, key)) /\ ~Within(Append(path, k), Append(pos, key))
<1> DEFINE at == Append(pos, key)
           q == Append(path, k)
<1>1. /\ Len(at) = Len(pos) + 1 /\ Front(at) = pos /\ Last(at) = key /\ Len(pos) \in Nat
      /\ Front(q) = path /\ Last(q) = k
  BY AppendFront, PathIs
<1>2. Len(path) \in Nat /\ Len(path) <= Len(pos)
  BY PathIs, WithinIs
<1> HIDE DEF at
<1>3. at # path
  BY <1>1, <1>2
<1>4. at \notin Above(path)
  BY <1>1, <1>2, AbovePath
<1>5. at # q
  BY <1>1
<1>6. at \notin Above(q)
  BY <1>3, <1>4, AboveAppended
<1> QED BY <1>3, <1>4, <1>5, <1>6 DEF Within, at

(* A document with a key it is offered.                                      *)
Placed(d, pos, key, at, e) ==
  at = Append(pos, key) /\ e = SetAll(d, Single(at, at), Single(at, ObjectNode))

LEMMA PutIs ==
  ASSUME NEW d, IsTree(d), NEW pos, IsObject(d, pos), NEW key, NEW at, NEW e, Placed(d, pos, key, at, e)
  PROVE  /\ \A q : ~Within(q, at) => (q \in DOMAIN e <=> q \in DOMAIN d) /\ (q \in DOMAIN d => e[q] = d[q])
         /\ at \in DOMAIN e /\ e[at] = ObjectNode
<1> DEFINE w == Single(at, ObjectNode)
           said == Single(at, at)
           set(t) == {Moved(p, said[t], t) : p \in DOMAIN At(w, said[t])}
           On(p) == CHOOSE t \in DOMAIN said : Within(p, t)
           W == UNION {set(t) : t \in DOMAIN said}
           written == [p \in W |-> w[Moved(p, On(p), said[On(p)])]]
           L == {p \in DOMAIN d : \A t \in DOMAIN said :
                    ~Within(p, t) /\ (p \in Above(t) => d[p] \in Containers)}
           left == Restrict(d, L)
           A == UNION {Above(t) : t \in DOMAIN said}
           way == [p \in A |-> ObjectNode]
<1>0. at = Append(pos, key)
  BY DEF Placed
<1>1. e = Over(written, Over(left, way))
  BY DEF SetAll, Placed
<1>2. DOMAIN said = {at} /\ said[at] = at /\ DOMAIN w = {at}
  BY DEF Single
<1>3. pos \in Paths /\ pos \in DOMAIN d /\ d[pos] \in Containers
  BY NodesDiffer DEF IsTree, IsObject
<1>4. Above(at) = Above(pos) \union {pos}
  BY <1>0, <1>3, AboveAppended
<1>5. \A p \in Above(at) : p \in DOMAIN d /\ d[p] \in Containers
  BY <1>3, <1>4, TreeAbove
<1>6. Moved(at, at, at) = at
  <2>1. at = [i \in DOMAIN at |-> at[i]]
    <3>1. pos \in Seq(Keys \union {key}) /\ key \in Keys \union {key}
      BY <1>3, SeqMonotonic DEF Paths
    <3>2. at \in Seq(Keys \union {key})
      BY <1>0, <3>1, AppendProperties
    <3>3. at \in [1..Len(at) -> Keys \union {key}]
      BY <3>2, LenProperties
    <3> QED BY <3>3
  <2>2. Moved(at, at, at) = [i \in DOMAIN at |-> at[i]]
    BY DEF Moved
  <2> QED BY <2>1, <2>2
<1>7. DOMAIN At(w, at) = {at}
  <2>1. Within(at, at)
    BY DEF Within
  <2> HIDE DEF w
  <2>2. \A x : x \in DOMAIN At(w, at) <=> x \in DOMAIN w /\ Within(x, at)
    BY AtIs
  <2> QED BY <1>2, <2>1, <2>2
<1>8. W = {at}
  <2>1. set(at) = {at}
    BY <1>2, <1>6, <1>7
  <2> HIDE DEF set
  <2> QED BY <1>2, <2>1
<1>9. DOMAIN written = {at}
  BY <1>8
<1>11. A = Above(at) /\ DOMAIN way = Above(at)
  BY <1>2
<1>12. L = {p \in DOMAIN d : ~Within(p, at)}
  <2> HIDE DEF said
  <2> QED BY <1>2, <1>5
<1>13. DOMAIN left = L /\ \A p \in L : left[p] = d[p]
  BY RestrictIs
<1>10. written[at] = ObjectNode
  <2>1. On(at) = at
    BY <1>2 DEF Within
  <2>2. w[at] = ObjectNode
    BY DEF Single
  <2>3. written[at] = w[Moved(at, On(at), said[On(at)])]
    BY <1>8
  <2> HIDE DEF On, written, w, said
  <2> QED BY <1>2, <1>6, <2>1, <2>2, <2>3
<1> HIDE DEF written, left, way, L, A, W, said, w
<1>14. at \in DOMAIN e /\ e[at] = ObjectNode
  BY <1>1, <1>9, <1>10 DEF Over
<1>15. ASSUME NEW q, ~Within(q, at)
       PROVE  (q \in DOMAIN e <=> q \in DOMAIN d) /\ (q \in DOMAIN d => e[q] = d[q])
  <2>0. q # at /\ (q \in L <=> q \in DOMAIN d)
    BY <1>12, <1>15 DEF Within
  <2>1. q \in DOMAIN e <=> q \in DOMAIN d
    BY <1>1, <1>5, <1>9, <1>11, <1>13, <2>0 DEF Over
  <2>2. ASSUME q \in DOMAIN d PROVE e[q] = d[q]
    <3>1. q \in DOMAIN left /\ q \notin DOMAIN written
      BY <1>9, <1>13, <2>0, <2>2
    <3>2. Over(left, way)[q] = left[q] /\ q \in DOMAIN Over(left, way)
      BY <3>1 DEF Over
    <3> QED BY <1>1, <1>13, <2>0, <2>2, <3>1, <3>2 DEF Over
  <2> QED BY <2>1, <2>2
<1> QED BY <1>14, <1>15

(* So a value is validated there by what it was.                             *)
LEMMA PutValidated ==
  ASSUME NEW schema, NEW d, IsTree(d), NEW pos, IsObject(d, pos), NEW key, NEW at, NEW e, Placed(d, pos, key, at, e)
  PROVE  ValidatedAs(schema, e, pos) = ValidatedAs(schema, d, pos)
<1>14. ASSUME NEW x, ~Within(x, at)
       PROVE  (x \in DOMAIN e <=> x \in DOMAIN d) /\ (x \in DOMAIN d => e[x] = d[x])
  BY <1>14, PutIs
<1> DEFINE B == {q \in Paths : Within(pos, q) /\ ValidatedAs(schema, e, q) # ValidatedAs(schema, d, q)}
<1>0. pos \in Paths
  BY DEF IsTree, IsObject
<1>1. SUFFICES ASSUME pos \in B PROVE FALSE
  BY <1>0 DEF Within
<1>2. PICK q \in B : Within(pos, q) /\ \A r \in Above(q) : r \notin B
  <2>1. B \subseteq Paths
    OBVIOUS
  <2> HIDE DEF B
  <2> QED BY <1>1, <2>1, Shallowest
<1>3. q # <<>> /\ q \in Paths
  BY <1>2, ValidatedRoot
<1> DEFINE f == Front(q)
           s == ValidatedAs(schema, d, f)
<1>4. f \in Above(q) /\ f \in Paths
  BY <1>3, FrontPath
<1>5. Within(pos, f) /\ f # pos
  <2>1. f \in Above(pos)
    BY <1>0, <1>2, <1>4, AbovePath DEF Within
  <2> QED BY <1>0, <2>1, AbovePath DEF Within
<1>6. ValidatedAs(schema, e, f) = s
  BY <1>2, <1>4, <1>5
<1>7. /\ ValidatedAs(schema, e, q) = ValidatedBy(s, e, f, Last(q))
      /\ ValidatedAs(schema, d, q) = ValidatedBy(s, d, f, Last(q))
  BY <1>3, <1>6, ValidatedRoot
<1> HIDE DEF s, f
<1>8. \A k : ~Within(f, at) /\ ~Within(Append(f, k), at)
  BY <1>0, <1>4, <1>5, BesideKey DEF Placed
<1>9. /\ \A k : (Append(f, k) \in DOMAIN e <=> Append(f, k) \in DOMAIN d)
      /\ \A k : Append(f, k) \in DOMAIN d => e[Append(f, k)] = d[Append(f, k)]
      /\ (f \in DOMAIN e <=> f \in DOMAIN d) /\ (f \in DOMAIN d => e[f] = d[f])
  BY <1>8, <1>14
<1>10. (IsObject(e, f) <=> IsObject(d, f)) /\ (IsArray(e, f) <=> IsArray(d, f))
  BY <1>9 DEF IsObject, IsArray
<1>11. Mapping(s, e, f) = Mapping(s, d, f)
  BY <1>9 DEF Mapping
<1>12. ObjectOf(s, e, f) = ObjectOf(s, d, f)
  BY <1>10, <1>11 DEF ObjectOf
<1>13. ValidatedBy(s, e, f, Last(q)) = ValidatedBy(s, d, f, Last(q))
  BY <1>10, <1>12 DEF ValidatedBy
<1> QED BY <1>2, <1>7, <1>13

(* A step of the one look, and of the other.                                 *)
LEMMA NoSchemaIs == NoSchema.is = "none"
BY DEF NoSchema

LEMMA StepAlike ==
  ASSUME NEW s, NEW v, NEW p, NEW k
  PROVE  /\ \/ ValidatedBy(s, v, p, k) = NoSchema \/ PropAt(s, v, p, k) = NoSchema
            \/ ValidatedBy(s, v, p, k) = PropAt(s, v, p, k)
         /\ ~IsArray(v, p) /\ ValidatedBy(s, v, p, k) # NoSchema => ValidatedBy(s, v, p, k) = PropAt(s, v, p, k)
<1>1. CASE s.is = "array"
  <2>1. ObjectOf(s, v, p) = NoSchema
    BY <1>1 DEF ObjectOf
  <2>2. ValidatedBy(s, v, p, k) = IF IsArray(v, p) THEN Underlying(s.rest) ELSE NoSchema
    BY <1>1, <2>1 DEF ValidatedBy
  <2>3. PropAt(s, v, p, k) = IF k = Index(1) THEN NoSchema ELSE Underlying(s.rest)
    BY <1>1 DEF PropAt, ItemAt
  <2> QED BY <2>2, <2>3
<1>2. CASE s.is = "object"
  <2>1. PropAt(s, v, p, k) = Prop(s, k)
    BY <1>2 DEF PropAt
  <2>2. ObjectOf(s, v, p) = IF IsObject(v, p) THEN s ELSE NoSchema
    BY <1>2 DEF ObjectOf
  <2>3. ValidatedBy(s, v, p, k) = IF ObjectOf(s, v, p) = NoSchema THEN NoSchema ELSE Prop(ObjectOf(s, v, p), k)
    BY <1>2 DEF ValidatedBy
  <2> QED BY <2>1, <2>2, <2>3
<1>3. CASE s.is = "union"
  <2> DEFINE m == Mapping(s, v, p)
  <2>1. PropAt(s, v, p, k) = KindAt(s, v, p, k)
    BY <1>3 DEF PropAt
  <2>2. ObjectOf(s, v, p) = IF IsObject(v, p) THEN m ELSE NoSchema
    BY <1>3 DEF ObjectOf
  <2>3. ValidatedBy(s, v, p, k) = IF ObjectOf(s, v, p) = NoSchema THEN NoSchema ELSE Prop(ObjectOf(s, v, p), k)
    BY <1>3 DEF ValidatedBy
  <2>4. m # NoSchema /\ Prop(m, k) # NoSchema => KindAt(s, v, p, k) = Prop(m, k)
    BY DEF KindAt
  <2> HIDE DEF m
  <2> QED BY <2>1, <2>2, <2>3, <2>4
<1>4. CASE s.is \notin {"array", "object", "union"}
  <2>1. ObjectOf(s, v, p) = NoSchema
    BY <1>4 DEF ObjectOf
  <2>2. ValidatedBy(s, v, p, k) = NoSchema
    BY <1>4, <2>1 DEF ValidatedBy
  <2> QED BY <2>2
<1> QED BY <1>1, <1>2, <1>3, <1>4

LEMMA NoSchemaStep ==
  ASSUME NEW v, NEW p, NEW k
  PROVE  ValidatedBy(NoSchema, v, p, k) = NoSchema /\ PropAt(NoSchema, v, p, k) = NoSchema
<1>1. NoSchema.is = "none"
  BY NoSchemaIs
<1>2. ObjectOf(NoSchema, v, p) = NoSchema
  BY <1>1 DEF ObjectOf
<1> QED BY <1>1, <1>2 DEF ValidatedBy, PropAt

(* What is looked up for a value, if anything, is what it is validated by;   *)
(* and where there is no list above it, whatever that is.                    *)
SchemasAlike(schema, v, p) ==
  LET looked == SchemaAt(schema, v, p)
      used == ValidatedAs(schema, v, p)
  IN /\ looked = used \/ looked = NoSchema \/ used = NoSchema
     /\ (\A q \in Above(p) : ~IsArray(v, q)) /\ used # NoSchema => looked = used

LEMMA LookedUp ==
  ASSUME NEW schema, NEW v, NEW p \in Paths
  PROVE  SchemasAlike(schema, v, p)
<1> DEFINE B == {q \in Paths : ~SchemasAlike(schema, v, q)}
<1>1. SUFFICES ASSUME p \in B PROVE FALSE
  OBVIOUS
<1>2. PICK q \in B : \A r \in Above(q) : r \notin B
  <2>1. B \subseteq Paths
    OBVIOUS
  <2> HIDE DEF B
  <2> QED BY <1>1, <2>1, Shallowest
<1>3. q \in Paths /\ ~SchemasAlike(schema, v, q)
  BY <1>2
<1>4. CASE q = <<>>
  <2>1. SchemaAt(schema, v, q) = ValidatedAs(schema, v, q)
    BY <1>4, ValidatedStep, ResolvedStep DEF SchemaAt, ValidatedAs
  <2> QED BY <1>3, <2>1 DEF SchemasAlike
<1>5. CASE q # <<>>
  <2> DEFINE f == Front(q)
             k == Last(q)
             s == SchemaAt(schema, v, f)
             u == ValidatedAs(schema, v, f)
  <2>1. f \in Above(q) /\ f \in Paths /\ Above(q) = Above(f) \union {f}
    BY <1>3, <1>5, FrontPath
  <2>2. SchemasAlike(schema, v, f)
    BY <1>2, <2>1
  <2>3. SchemaAt(schema, v, q) = PropAt(s, v, f, k)
    BY <1>3, <1>5, ResolvedStep DEF SchemaAt
  <2>4. ValidatedAs(schema, v, q) = ValidatedBy(u, v, f, k)
    BY <1>3, <1>5, ValidatedRoot
  <2>5. s = u \/ s = NoSchema \/ u = NoSchema
    BY <2>2 DEF SchemasAlike
  <2>6. (\A x \in Above(q) : ~IsArray(v, x)) => ~IsArray(v, f) /\ (u # NoSchema => s = u)
    BY <2>1, <2>2 DEF SchemasAlike
  <2> HIDE DEF f, k, s, u
  <2>7. CASE u = NoSchema
    BY <1>3, <2>4, <2>7, NoSchemaStep DEF SchemasAlike
  <2>8. CASE u # NoSchema /\ s = NoSchema
    BY <1>3, <2>3, <2>6, <2>8, NoSchemaStep DEF SchemasAlike
  <2>9. CASE u # NoSchema /\ s = u
    <3>1. \/ ValidatedBy(u, v, f, k) = NoSchema \/ PropAt(u, v, f, k) = NoSchema
          \/ ValidatedBy(u, v, f, k) = PropAt(u, v, f, k)
      BY StepAlike
    <3>2. ~IsArray(v, f) /\ ValidatedBy(u, v, f, k) # NoSchema => ValidatedBy(u, v, f, k) = PropAt(u, v, f, k)
      BY StepAlike
    <3> QED BY <1>3, <2>3, <2>4, <2>6, <2>9, <3>1, <3>2 DEF SchemasAlike
  <2> QED BY <2>5, <2>7, <2>8, <2>9
<1> QED BY <1>4, <1>5

(* What is offered in an object, by its schema.                              *)
Lacks(d, p, keys) == {k \in keys : p = <<>> \/ Append(p, k) \notin DOMAIN d}

LEMMA OfferedInObject ==
  ASSUME NEW schema, NEW d, NEW p, IsObject(d, p), NEW s, s = SchemaAt(schema, d, p), s # NoSchema,
         NEW kind, kind = Append(p, Discriminator(s))
  PROVE  LET offered == Completions(schema, d, p) IN
         /\ p # <<>> /\ IsArray(d, Front(p)) => offered = {}
         /\ ~(p # <<>> /\ IsArray(d, Front(p))) =>
              /\ s.is # "union" => offered = Lacks(d, p, DOMAIN s.props)
              /\ s.is = "union" /\ p = <<>> => offered = {}
              /\ s.is = "union" /\ p # <<>> /\ (kind \notin DOMAIN d \/ d[kind] \in Falsy) =>
                   offered = {Discriminator(s)}
              /\ s.is = "union" /\ p # <<>> /\ kind \in DOMAIN d /\ d[kind] \notin Falsy =>
                   /\ Mapping(s, d, p) = NoSchema => offered = {}
                   /\ Mapping(s, d, p) # NoSchema => offered = Lacks(d, p, DOMAIN Mapping(s, d, p).props)
BY DEF Completions, Lacks

LEMMA MappedKind ==
  ASSUME NEW s, NEW d, NEW p, NEW kind, kind = Append(p, Discriminator(s))
  PROVE  /\ Mapping(s, d, p) # NoSchema => kind \in DOMAIN d /\ d[kind] \notin Falsy
         /\ kind \in DOMAIN d /\ d[kind].is # "text" => Mapping(s, d, p) = NoSchema
BY DEF Mapping

(* What it offers of what it may not have yet.                               *)
LEMMA OfferedHere ==
  ASSUME NEW schema, NEW d, NEW p, IsObject(d, p), NEW s, s = SchemaAt(schema, d, p), s # NoSchema,
         ~(p # <<>> /\ IsArray(d, Front(p))), p = <<>> => s.is # "union"
  PROVE  LET offered == Completions(schema, d, p) IN
         /\ s.is # "union" => offered = Lacks(d, p, DOMAIN s.props)
         /\ s.is = "union" /\ Append(p, Discriminator(s)) \notin DOMAIN d => offered = {Discriminator(s)}
         /\ s.is = "union" /\ Mapping(s, d, p) # NoSchema =>
              offered = Lacks(d, p, DOMAIN Mapping(s, d, p).props)
<1> DEFINE kind == Append(p, Discriminator(s))
           offered == Completions(schema, d, p)
           m == Mapping(s, d, p)
<1>1. /\ s.is # "union" => offered = Lacks(d, p, DOMAIN s.props)
      /\ s.is = "union" /\ (kind \notin DOMAIN d \/ d[kind] \in Falsy) => offered = {Discriminator(s)}
      /\ s.is = "union" /\ kind \in DOMAIN d /\ d[kind] \notin Falsy =>
           (m # NoSchema => offered = Lacks(d, p, DOMAIN m.props))
  BY DEF Completions, Lacks
<1>2. m # NoSchema => kind \in DOMAIN d /\ d[kind] \notin Falsy
  BY MappedKind
<1> HIDE DEF kind, offered, m
<1>3. s.is = "union" /\ m # NoSchema => offered = Lacks(d, p, DOMAIN m.props)
  BY <1>1, <1>2
<1>4. s.is = "union" /\ kind \notin DOMAIN d => offered = {Discriminator(s)}
  BY <1>1
<1> QED BY <1>1, <1>3, <1>4 DEF kind, offered, m

LEMMA OfferedFits ==
  ASSUME NEW schema, NEW d, IsTree(d), NEW pos, IsObject(d, pos), NEW key \in Completions(schema, d, pos),
         NEW at, NEW e, Placed(d, pos, key, at, e)
  PROVE  (pos = <<>> \/ at \notin DOMAIN d \/ d[at] \in Falsy) /\ Declared(schema, e, at)
<1> DEFINE s == SchemaAt(schema, d, pos)
           u == ValidatedAs(schema, d, pos)
           kind == Append(pos, Discriminator(s))
           o == ObjectOf(u, e, pos)
<1>0. pos \in Paths /\ at = Append(pos, key)
  BY DEF IsTree, IsObject, Placed
<1>1. s # NoSchema
  BY DEF Completions
<1>2. Front(at) = pos /\ Last(at) = key
  BY <1>0, AppendFront
<1>3. s = u \/ u = NoSchema
  BY <1>0, <1>1, LookedUp DEF SchemasAlike
<1>4. Declared(schema, e, at) <=> o = NoSchema \/ key \in DOMAIN o.props \/ o.rest # NoSchema
  <2>1. Along(ValidatedBy, schema, e, pos) = u
    BY PutValidated DEF ValidatedAs
  <2> QED BY <1>2, <2>1 DEF Declared
<1>5. \/ s.is # "union" /\ key \in DOMAIN s.props /\ (pos = <<>> \/ at \notin DOMAIN d)
      \/ s.is = "union" /\ key = Discriminator(s) /\ (kind \notin DOMAIN d \/ d[kind] \in Falsy)
      \/ s.is = "union" /\ key \in DOMAIN Mapping(s, d, pos).props /\ at \notin DOMAIN d
  <2> DEFINE offered == Completions(schema, d, pos)
             there == pos # <<>> /\ IsArray(d, Front(pos))
  <2>1. /\ there => offered = {}
        /\ ~there =>
             /\ s.is # "union" => offered = Lacks(d, pos, DOMAIN s.props)
             /\ s.is = "union" /\ pos = <<>> => offered = {}
             /\ s.is = "union" /\ pos # <<>> /\ (kind \notin DOMAIN d \/ d[kind] \in Falsy) =>
                  offered = {Discriminator(s)}
             /\ s.is = "union" /\ pos # <<>> /\ kind \in DOMAIN d /\ d[kind] \notin Falsy =>
                  /\ Mapping(s, d, pos) = NoSchema => offered = {}
                  /\ Mapping(s, d, pos) # NoSchema => offered = Lacks(d, pos, DOMAIN Mapping(s, d, pos).props)
    BY <1>1, OfferedInObject
  <2>2. \A keys : key \in Lacks(d, pos, keys) => key \in keys /\ (pos = <<>> \/ at \notin DOMAIN d)
    BY <1>0 DEF Lacks
  <2>3. key \in offered
    OBVIOUS
  <2> HIDE DEF offered, s, kind, there
  <2> QED BY <2>1, <2>2, <2>3
<1>6. pos = <<>> \/ at \notin DOMAIN d \/ d[at] \in Falsy
  BY <1>0, <1>5
<1>7. ASSUME NEW q, ~Within(q, at)
      PROVE  (q \in DOMAIN e <=> q \in DOMAIN d) /\ (q \in DOMAIN d => e[q] = d[q])
  BY <1>7, PutIs
<1>8. ~Within(pos, at) /\ \A k : k # key => ~Within(Append(pos, k), at)
  BY <1>0, BesideKey DEF Within
<1>9. IsObject(e, pos)
  BY <1>7, <1>8 DEF IsObject
<1>10. at \in DOMAIN e /\ e[at] = ObjectNode
  BY PutIs
<1>11. ASSUME s = u, s.is = "union", Discriminator(s) = key PROVE o = NoSchema
  <2>1. kind = at
    BY <1>0, <1>11
  <2>2. ObjectNode.is # "text"
    BY DEF ObjectNode, Node
  <2>3. Mapping(u, e, pos) = NoSchema
    BY <1>10, <1>11, <2>1, <2>2, MappedKind
  <2> QED BY <1>9, <1>11, <2>3 DEF ObjectOf
<1>12. ASSUME s = u, s.is = "union", Discriminator(s) # key PROVE o = Mapping(s, d, pos)
  <2>1. /\ kind \in DOMAIN e <=> kind \in DOMAIN d
        /\ kind \in DOMAIN d => e[kind] = d[kind]
    BY <1>7, <1>8, <1>12
  <2>2. Mapping(u, e, pos) = Mapping(s, d, pos)
    BY <1>12, <2>1 DEF Mapping
  <2> QED BY <1>9, <1>12, <2>2 DEF ObjectOf
<1>13. ASSUME s = u, s.is # "union" PROVE o = NoSchema \/ o = s
  BY <1>9, <1>13 DEF ObjectOf
<1>14. u = NoSchema => o = NoSchema
  <2>1. NoSchema.is = "none"
    BY NoSchemaIs
  <2> QED BY <2>1 DEF ObjectOf
<1> HIDE DEF s, u, o, kind
<1>15. o = NoSchema \/ key \in DOMAIN o.props
  BY <1>3, <1>5, <1>11, <1>12, <1>13, <1>14
<1> QED BY <1>4, <1>6, <1>15

LEMMA MissingOffered ==
  ASSUME NEW schema, NEW d, IsTree(d), NEW f \in Failures(schema, d), f.kind = "missing",
         \A q \in Above(f.path) : ~IsArray(d, q), Underlying(schema).is # "union"
  PROVE  Last(f.path) \in Completions(schema, d, Front(f.path))
<1>1. KindFailure(schema, d, f) \/ MissingFailure(schema, d, f)
  <2>1. ~TypeFailure(schema, d, f) /\ ~NeverFailure(schema, d, f)
    BY FailureFields DEF TypeFailure, NeverFailure
  <2> QED BY <2>1, FailuresAre
<1>2. ASSUME NEW p \in DOMAIN d, NEW k, f.path = Append(p, k)
      PROVE  /\ p \in Paths /\ Front(f.path) = p /\ Last(f.path) = k
             /\ \A q \in Above(p) : ~IsArray(d, q)
             /\ ~(p # <<>> /\ IsArray(d, Front(p)))
  <2>1. p \in Paths
    BY DEF IsTree
  <2>2. \A q \in Above(p) : ~IsArray(d, q)
    BY <1>2, <2>1, AboveAppended
  <2>3. p # <<>> => Front(p) \in Above(p)
    BY <2>1, FrontPath
  <2> QED BY <1>2, <2>1, <2>2, <2>3, AppendFront
<1>3. ASSUME NEW p \in Paths, \A q \in Above(p) : ~IsArray(d, q), ValidatedAs(schema, d, p) # NoSchema
      PROVE  SchemaAt(schema, d, p) = ValidatedAs(schema, d, p)
  BY <1>3, LookedUp DEF SchemasAlike
<1>3a. ValidatedAs(schema, d, <<>>).is # "union"
  BY ValidatedRoot
<1>4. ASSUME NEW p \in DOMAIN d, ObjectAt(schema, d, p) # NoSchema,
             NEW k \in Required(ObjectAt(schema, d, p)), Append(p, k) \notin DOMAIN d,
             f = Failure(Append(p, k), "missing")
      PROVE  Last(f.path) \in Completions(schema, d, Front(f.path))
  <2> DEFINE u == ValidatedAs(schema, d, p)
             o == ObjectAt(schema, d, p)
  <2>1. f.path = Append(p, k)
    BY <1>4, FailureFields
  <2>2. /\ p \in Paths /\ Front(f.path) = p /\ Last(f.path) = k
        /\ \A q \in Above(p) : ~IsArray(d, q)
        /\ ~(p # <<>> /\ IsArray(d, Front(p)))
    BY <1>2, <2>1
  <2>3. IsObject(d, p) /\ ((u.is = "object" /\ o = u) \/ (u.is = "union" /\ o = Mapping(u, d, p)))
    BY <1>4 DEF ObjectAt, ObjectOf
  <2>4. u # NoSchema
    BY <2>3, NoSchemaIs
  <2>5. SchemaAt(schema, d, p) = u
    BY <1>3, <2>2, <2>4
  <2>6. k \in DOMAIN o.props /\ o # NoSchema
    BY <1>4 DEF Required
  <2>7. k \in Lacks(d, p, DOMAIN o.props)
    BY <1>4, <2>6 DEF Lacks
  <2>10. p = <<>> => u.is # "union"
    BY <1>3a
  <2> HIDE DEF u, o
  <2>9. /\ u.is # "union" => Completions(schema, d, p) = Lacks(d, p, DOMAIN u.props)
        /\ u.is = "union" /\ Mapping(u, d, p) # NoSchema =>
             Completions(schema, d, p) = Lacks(d, p, DOMAIN Mapping(u, d, p).props)
    BY <2>2, <2>3, <2>4, <2>5, <2>10, OfferedHere
  <2>8. k \in Completions(schema, d, p)
    <3>1. CASE u.is = "object" /\ o = u
      <4>1. u.is # "union"
        BY <3>1
      <4> QED BY <2>7, <2>9, <3>1, <4>1
    <3>2. CASE u.is = "union" /\ o = Mapping(u, d, p)
      BY <2>6, <2>7, <2>9, <3>2
    <3> QED BY <2>3, <3>1, <3>2
  <2> QED BY <2>2, <2>8
<1>5. ASSUME NEW p \in DOMAIN d, ValidatedAs(schema, d, p).is = "union", IsObject(d, p),
             f = Failure(KindOf(schema, d, p),
                         IF KindOf(schema, d, p) \in DOMAIN d THEN "type" ELSE "missing")
      PROVE  Last(f.path) \in Completions(schema, d, Front(f.path))
  <2> DEFINE u == ValidatedAs(schema, d, p)
             k == Discriminator(u)
  <2>1. f.path = Append(p, k) /\ Append(p, k) \notin DOMAIN d
    <3>1. /\ f.path = KindOf(schema, d, p)
          /\ f.kind = IF KindOf(schema, d, p) \in DOMAIN d THEN "type" ELSE "missing"
      BY <1>5, FailureFields
    <3>2. KindOf(schema, d, p) = Append(p, k)
      BY DEF KindOf
    <3> QED BY <3>1, <3>2
  <2>2. /\ p \in Paths /\ Front(f.path) = p /\ Last(f.path) = k
        /\ \A q \in Above(p) : ~IsArray(d, q)
        /\ ~(p # <<>> /\ IsArray(d, Front(p)))
    BY <1>2, <2>1
  <2>3. u.is = "union" /\ u # NoSchema
    BY <1>5, NoSchemaIs
  <2>4. SchemaAt(schema, d, p) = u
    BY <1>3, <2>2, <2>3
  <2>6. p # <<>>
    BY <1>3a, <1>5
  <2> HIDE DEF u
  <2>5. Completions(schema, d, p) = {k}
    BY <1>5, <2>1, <2>2, <2>3, <2>4, <2>6, OfferedHere
  <2> QED BY <2>2, <2>5
<1> QED BY <1>1, <1>4, <1>5 DEF KindFailure, MissingFailure

(* JSONCompletion offers keys only where the schema declares them and the  *)
(* document has none, but in the root and on names below it, and every     *)
(* required key that misses, except within lists.  The lookup it goes by   *)
(* (resolve) and the validation of the linter find the schema of a value in*)
(* different ways; that they agree in objects (LookedUp) is what this rests*)
(* on.                                                                     *)
THEOREM OffersFit == Spec => []CompletionsFit
<1>1. IInv => CompletionsFit
  <2> SUFFICES ASSUME IInv, editor # None PROVE CompletionsFit
    BY DEF CompletionsFit
  <2> DEFINE d == editor.doc
  <2>1. IsTree(d)
    BY DEF IInv, EditorOK
  <2> HIDE DEF d
  <2>2. ASSUME NEW pos \in DOMAIN d, IsObject(d, pos), NEW key \in Completions(EditorSchema, d, pos)
        PROVE  LET at == Append(pos, key)
               IN /\ pos = <<>> \/ at \notin DOMAIN d \/ d[at] \in Falsy
                  /\ Declared(EditorSchema, SetAll(d, Single(at, at), Single(at, ObjectNode)), at)
    <3> DEFINE at == Append(pos, key)
               e == SetAll(d, Single(at, at), Single(at, ObjectNode))
    <3>1. Placed(d, pos, key, at, e)
      BY DEF Placed
    <3> HIDE DEF at, e
    <3>2. (pos = <<>> \/ at \notin DOMAIN d \/ d[at] \in Falsy) /\ Declared(EditorSchema, e, at)
      BY <2>1, <2>2, <3>1, OfferedFits
    <3> QED BY <3>2 DEF at, e
  <2>3. ASSUME NEW f \in Failures(EditorSchema, d), f.kind = "missing",
               ~(\E p \in Above(f.path) : IsArray(d, p))
        PROVE  Last(f.path) \in Completions(EditorSchema, d, Front(f.path))
    BY <2>1, <2>3, EditorSchemaIs, MissingOffered
  <2>4. \A key \in NameCompletions(EditorSchema, d, <<>>) : key \in Completions(EditorSchema, d, <<>>)
    BY DEF NameCompletions
  <2> QED BY <2>2, <2>3, <2>4 DEF CompletionsFit, d
<1> QED BY <1>1, EditorInductive, PTL
================================================================================
