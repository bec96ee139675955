----------------------------- MODULE KubePkgSchema -----------------------------
(***************************************************************************)
(* The schema of a KubePkg as the dashboard's client declares it           *)
(* (src/webapp/dashboard/client/dashboard.ts): of each kind of schema in   *)
(* it - records, references, unions, arrays of texts and of objects, what  *)
(* is required and what is not - the properties a document here has.       *)
(***************************************************************************)
EXTENDS JSONSchemas

EnvType == RecordType(StringType)

ImageType == ObjectType([name |-> StringType, tag |-> StringType], {"name"})

ContainerType ==
  ObjectType([args |-> ArrayType(StringType), env |-> EnvType, image |-> RefType("Image")],
             {"image"})

DeployType ==
  UnionType("kind", [ConfigMap |-> ObjectType([annotations |-> EnvType], {}),
                     Deployment |-> ObjectType([annotations |-> EnvType,
                                                spec |-> RefType("DeploymentSpec")], {})])

DeploymentSpecType == ObjectType([serviceName |-> StringType], {})

PolicyRuleType == ObjectType([verbs |-> ArrayType(StringType)], {"verbs"})

ServiceAccountType ==
  ObjectType([rules |-> ArrayType(RefType("PolicyRule")),
              scope |-> EnumType({"Cluster", "Namespace"})], {"rules"})

VolumeType ==
  UnionType("type", [EmptyDir |-> ObjectType([mountPath |-> StringType], {"mountPath"}),
                     Secret |-> ObjectType([mountPath |-> StringType,
                                            spec |-> ObjectType([data |-> EnvType], {"data"})],
                                           {"mountPath"})])

SpecType ==
  ObjectType([version |-> StringType, config |-> EnvType, deploy |-> RefType("Deploy"),
              containers |-> RecordType(RefType("Container")),
              serviceAccount |-> RefType("ServiceAccount"),
              volumes |-> RecordType(RefType("Volume"))],
             {"version"})

KubePkgDefinitions ==
  [Spec |-> SpecType, Container |-> ContainerType, Image |-> ImageType,
   Deploy |-> DeployType, ServiceAccount |-> ServiceAccountType,
   PolicyRule |-> PolicyRuleType, Volume |-> VolumeType,
   DeploymentSpec |-> DeploymentSpecType]

(* The schema of the editor; the rest of a KubePkg is left out.            *)
EditorSchema == ObjectType([spec |-> RefType("Spec")], {"spec"})
=============================================================================
