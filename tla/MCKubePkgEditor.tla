---------------------------- MODULE MCKubePkgEditor ----------------------------
(* Two revisions that differ in what each kind of value can differ in.     *)
EXTENDS KubePkgEditor

AnyText == STRING

(* What is said at some path, in an array with its index for a key.        *)
Below(path, v) == [p \in {path \o q : q \in DOMAIN v} |-> v[SubSeq(p, Len(path) + 1, Len(p))]]
Leaf(node) == <<>> :> node
Objects(keys, Of(_)) ==
  FoldSet(LAMBDA k, v : v @@ Below(<<k>>, Of(k)), Leaf(ObjectNode), keys)
Items(nodes) ==
  Leaf(ArrayNode) @@ [p \in {<<Index(i)>> : i \in DOMAIN nodes} |->
                        nodes[CHOOSE i \in DOMAIN nodes : Index(i) = p[1]]]

Rules(verbs) ==
  Leaf(ArrayNode) @@ Below(<<"0">>, Leaf(ObjectNode)) @@ Below(<<"0", "verbs">>, verbs)

Revision(version, config, annotation, args, name) ==
  Below(<<"spec">>,
    Objects({"version", "config", "deploy", "containers", "serviceAccount"}, LAMBDA k :
      CASE k = "version" -> Leaf(Text(version))
        [] k = "config" -> Objects(DOMAIN config, LAMBDA c : Leaf(Text(config[c])))
        [] k = "deploy" ->
             Objects({"kind", "annotations"}, LAMBDA d :
               IF d = "kind" THEN Leaf(Text("Deployment"))
               ELSE Objects({SlashKey}, LAMBDA a : Leaf(Text(annotation))))
        [] k = "containers" ->
             Objects({"web"}, LAMBDA c : Objects({"args", "image"}, LAMBDA d :
               IF d = "args" THEN Items(args) ELSE Objects({"name"}, LAMBDA n : Leaf(Text(name)))))
        [] OTHER -> Objects({"rules"}, LAMBDA r : Rules(Items(<<Text("x")>>)))))
  @@ Leaf(ObjectNode)

First == Revision("1", [A |-> "x"], "x", <<Text("x"), Text("y")>>, "x")
Second == Revision("2", [A |-> "y", B |-> "y"], "y", <<Text("x")>>, "y")
TwoTemplates == {First, Second}

(* Replicas is no property of a spec.                                      *)
WrittenPaths == {
  <<"spec", "version">>, <<"spec", "replicas">>,
  <<"spec", "config", "A">>, <<"spec", "config", "B">>,
  <<"spec", "deploy", "kind">>, <<"spec", "deploy", "annotations", SlashKey>>,
  <<"spec", "containers", "web", "args">>, <<"spec", "containers", "web", "image", "name">>,
  <<"spec", "serviceAccount", "rules">>}

WrittenAt(path) ==
  {Below(path, v) : v \in
    CASE path[Len(path)] = "args" -> {Items(<<>>), Items(<<Text("y")>>)}
      [] path[Len(path)] = "rules" ->
           {Rules(Items(<<Text("y")>>)), Rules(Leaf(Text("y"))), Items(<<ObjectNode>>)}
      [] path[Len(path)] = "kind" -> {Leaf(Text("ConfigMap")), Leaf(Text("y"))}
      [] path[Len(path)] = "A" -> {Leaf(Text("z")), Leaf(Null)}
      [] path[Len(path)] = "version" -> {Leaf(Text("z")), Leaf(Number("1"))}
      [] path[Len(path)] = SlashKey -> {Leaf(Text("z")), Leaf(Number("1")), Leaf(Null)}
      [] OTHER -> {Leaf(Text("z"))}}
=============================================================================
