---------------------------- MODULE DashboardEnvs ----------------------------
(***************************************************************************)
(* The environments of a group (src/webapp/dashboard/mod/groupenv): the    *)
(* list that adds, edits and deletes them, and the page of one of them,    *)
(* which binds it to a cluster.  Both are pages below GroupEnvContext,     *)
(* which asks for the environments whenever the group of the route         *)
(* changes, and makes its pages again then.  The data is kept meanwhile.   *)
(***************************************************************************)
EXTENDS DashboardRequests

CONSTANTS GroupNames, EnvNames, Infos, ClusterIDs

VARIABLES
  route,      \* the group and the page of the route
  view,       \* GroupEnvData: the group, and what is shown of each environment
  addsTo,     \* the group the form of the list page adds to
  stored,     \* [GroupNames -> [EnvNames -> the environment, or None]]
  deleted     \* [GroupNames -> [EnvNames -> what is left of a deleted one]]

envVars == <<route, view, addsTo, stored, deleted>>

(* What is shown is of the group `of`; the buttons of its row were made    *)
(* with the group `as`.                                                    *)
Env == [info: Infos, cluster: ClusterIDs \union {None}]
Item == [info: Infos, cluster: ClusterIDs \union {None}, of: GroupNames, as: GroupNames]
(* A deletion is soft: the row keeps the name, and its cluster if it was   *)
(* bound.                                                                  *)
Left == {"never", "unbound", "bound"}
ItemOf(env, of, as) == [info |-> env.info, cluster |-> env.cluster, of |-> of, as |-> as]
ASSUME EnvsAssumption ==
  /\ None \notin Env \union Item \union [EnvNames -> Env \union {None}]
  /\ EnvNames \intersect {"stray", "unlisted"} = {}
EnvWrites == {"put", "delete", "bind", "unbind"}
EnvArg(group, env, value) == [group |-> group, env |-> env, value |-> value]

(* noted: the environments of which two requests were in flight together,  *)
(* or one failed or lost its component, or that were put after they were   *)
(* deleted; "stray" once something was written while the route, the data   *)
(* and the form were not of one group; "unlisted", that a list failed,     *)
(* until another arrives.                                                  *)
Overlapping(arg) ==
  (IF Requests({"list"}) = {} /\ {c \in Requests(EnvWrites) : c.arg.env = arg.env} = {}
     THEN {} ELSE {arg.env})
  \union
  (IF /\ arg.group = route.group /\ arg.group = view.group
      /\ \A c \in Requests({"list"}) : c.arg.group = arg.group
     THEN {} ELSE {"stray"})

-----------------------------------------------------------------------------
(* Which components of the page exist: the buttons of a row, which is one  *)
(* of a group, and one of the buttons that bind and unbind.                *)
Mounted(c, v) ==
  \/ c.op = "list" \/ c.from = None
  \/ /\ v.envs[c.arg.env] # None
     /\ CASE c.op = "bind" -> v.envs[c.arg.env].cluster = None
          [] c.op = "unbind" -> v.envs[c.arg.env].cluster # None
          [] OTHER -> v.envs[c.arg.env].of = c.from

(* The data changes, and the calls of components that go are not heard.    *)
Becomes(v, kept) ==
  /\ view' = v
  /\ calls' = Unheard(kept, LAMBDA c : ~Mounted(c, v))

(* GroupEnvSubject: what put, del, bindCluster and unbindCluster change.   *)
PutItem(env, item) == [view EXCEPT !.envs[env] = item]
\* Mutant: a cluster is shown for what is not there to bind.
BindItem_Blind(env, c) ==
  [view EXCEPT !.envs[env] = [info |-> CHOOSE i \in Infos : TRUE, cluster |-> c,
                              of |-> view.group, as |-> view.group]]
BindItem(env, c) ==
  IF view.envs[env] = None THEN view ELSE [view EXCEPT !.envs[env].cluster = c]

-----------------------------------------------------------------------------
(* The pages.  Leaving one ends its subscriptions, and the form of the     *)
(* list keeps the group that was shown when it was made.                   *)

Leave(kept) == Unheard(kept, LAMBDA c : c.op # "list")

Visit(at) ==
  /\ route.at # at
  /\ route' = [route EXCEPT !.at = at]
  /\ addsTo' = view.group
  /\ calls' = Leave(calls)
  /\ noted' = noted \union {c.arg.env : c \in Requests(EnvWrites)}
  /\ UNCHANGED <<view, stored, deleted, asked, faults>>

(* Another group: asked for, and the page is made again before its answer, *)
(* with the data of the old one.                                           *)
SwitchGroup(group) ==
  /\ group # route.group /\ asked < MaxSent
  /\ asked' = asked + 1
  /\ route' = [route EXCEPT !.group = group]
  /\ addsTo' = view.group
  /\ SendAfter(Leave(calls), "list", None, EnvArg(group, None, None))
  /\ noted' = noted \union {c.arg.env : c \in Requests(EnvWrites)}
  /\ UNCHANGED <<view, stored, deleted, faults>>

AskEnv(op, from, arg) ==
  /\ Ask(op, from, arg)
  /\ noted' = noted \union Overlapping(arg)
  /\ UNCHANGED <<envVars, faults>>

(* GroupEnvPut of the page, and that of a row, whose group was captured.   *)
AddEnv(env, info) == route.at = "list" /\ AskEnv("put", None, EnvArg(addsTo, env, info))
EditEnv(env, info) ==
  /\ route.at = "list" /\ view.envs[env] # None
  /\ AskEnv("put", view.envs[env].of, EnvArg(view.envs[env].as, env, info))

(* GroupEnvDelete and GroupEnvCluster read the group when they are used.   *)
DeleteEnv(env) ==
  /\ route.at = "list" /\ view.envs[env] # None
  /\ AskEnv("delete", view.envs[env].of, EnvArg(view.group, env, None))
Bind(env, cluster) ==
  /\ route.at = "env" /\ view.envs[env] # None /\ view.envs[env].cluster = None
  /\ AskEnv("bind", view.envs[env].of, EnvArg(view.group, env, cluster))
Unbind(env) ==
  /\ route.at = "env" /\ view.envs[env] # None /\ view.envs[env].cluster # None
  /\ AskEnv("unbind", view.envs[env].of, EnvArg(view.group, env, None))

-----------------------------------------------------------------------------
(* The server.                                                             *)

At(c) == stored[c.arg.group][c.arg.env]
Store(c, env) == stored' = [stored EXCEPT ![c.arg.group][c.arg.env] = env]
LeftOf(c) == deleted[c.arg.group][c.arg.env]

(* An upsert by name: of a deleted row too, which stays deleted.  A put of *)
(* a bound environment saves it, and then fails to fill in the cluster of  *)
(* its answer.                                                             *)
ServePutEnv(c) ==
  IF At(c) = None
    THEN IF LeftOf(c) = "never"
           THEN Store(c, [info |-> c.arg.value, cluster |-> None]) /\ Answer(c, TRUE)
           ELSE UNCHANGED stored /\ Answer(c, IF LeftOf(c) = "unbound" THEN TRUE ELSE None)
    ELSE /\ Store(c, [At(c) EXCEPT !.info = c.arg.value])
         /\ Answer(c, IF At(c).cluster = None THEN TRUE ELSE None)

(* Binding what is not there is an error; unbinding is binding to none.    *)
ServeBind(c) ==
  IF At(c) = None
    THEN UNCHANGED stored /\ Answer(c, None)
    ELSE Store(c, [At(c) EXCEPT !.cluster = c.arg.value]) /\ Answer(c, TRUE)

ServeEnv(c) ==
  /\ ~c.served
  /\ \/ c.op = "list" /\ UNCHANGED stored /\ Answer(c, stored[c.arg.group])
     \/ c.op = "put" /\ ServePutEnv(c)
     \/ c.op = "delete" /\ Store(c, None) /\ Answer(c, TRUE)
     \/ c.op \in {"bind", "unbind"} /\ ServeBind(c)
  /\ deleted' = IF c.op = "delete" /\ At(c) # None
                  THEN [deleted EXCEPT ![c.arg.group][c.arg.env] =
                          IF At(c).cluster = None THEN "unbound" ELSE "bound"]
                  ELSE deleted
  /\ noted' = IF \/ c.op # "list" /\ [c EXCEPT !.served = TRUE] \in calls'
                 \/ c.op = "put" /\ At(c) = None /\ LeftOf(c) # "never"
                THEN noted \union {c.arg.env} ELSE noted
  /\ UNCHANGED <<route, view, addsTo, asked, faults>>

LoseEnv(c) ==
  /\ \/ c.op \in EnvWrites /\ Fail(c) /\ noted' = noted \union {c.arg.env}
     \/ c.op = "list" /\ FailUnseen(c) /\ noted' = noted \union {"unlisted"}
  /\ UNCHANGED <<envVars, asked>>

-----------------------------------------------------------------------------
(* The answers.                                                            *)

\* Mutant: the answer is shown as that of the group of the route.
EnvsListed_OfRoute(c) ==
  /\ Heard(c, "list")
  /\ Becomes([group |-> route.group,
              envs |-> [e \in EnvNames |-> IF c.answer[e] = None THEN None
                          ELSE ItemOf(c.answer[e], c.arg.group, route.group)]], calls \ {c})
  /\ noted' = noted \ {"unlisted"}
  /\ UNCHANGED <<route, addsTo, stored, deleted, asked, faults>>

(* GroupEnvContext: the group and its environments of one answer, whatever *)
(* the route is by now; a row that stays keeps its buttons.                *)
EnvsListed(c) ==
  /\ Heard(c, "list")
  /\ Becomes([group |-> c.arg.group,
              envs |-> [e \in EnvNames |->
                IF c.answer[e] = None THEN None
                ELSE ItemOf(c.answer[e], c.arg.group,
                       IF view.envs[e] # None /\ view.envs[e].of = c.arg.group
                         THEN view.envs[e].as ELSE c.arg.group)]], calls \ {c})
  /\ noted' = noted \ {"unlisted"}
  /\ UNCHANGED <<route, addsTo, stored, deleted, asked, faults>>

(* What was put has no cluster, or there is no answer: it becomes a row of *)
(* the group that is shown.                                                *)
EnvPut(c) ==
  /\ Heard(c, "put")
  /\ Becomes(PutItem(c.arg.env,
       ItemOf([info |-> c.arg.value, cluster |-> None], c.arg.group,
              IF view.envs[c.arg.env] # None THEN view.envs[c.arg.env].as ELSE view.group)),
       calls \ {c})
  /\ UNCHANGED <<route, addsTo, stored, deleted, asked, faults, noted>>

EnvDeleted(c) ==
  /\ Heard(c, "delete")
  /\ Becomes(PutItem(c.arg.env, None), calls \ {c})
  /\ UNCHANGED <<route, addsTo, stored, deleted, asked, faults, noted>>

EnvBound(c) ==
  /\ Heard(c, "bind") \/ Heard(c, "unbind")
  /\ Becomes(BindItem(c.arg.env, c.arg.value), calls \ {c})
  /\ UNCHANGED <<route, addsTo, stored, deleted, asked, faults, noted>>

-----------------------------------------------------------------------------
EnvsInit ==
  \E group \in GroupNames :
    /\ route \in [group: {group}, at: {"list", "env"}]
    /\ view = [group |-> group, envs |-> [e \in EnvNames |-> None]]
    /\ addsTo = group
    /\ stored \in [GroupNames -> [EnvNames -> Env \union {None}]]
    /\ deleted \in [GroupNames -> [EnvNames -> Left]]
    /\ \A g \in GroupNames, e \in EnvNames : stored[g][e] # None => deleted[g][e] = "never"
    /\ RequestsInit(EnvArg(group, None, None))

EnvsNext ==
  \/ \E at \in {"list", "env"} : Visit(at)
  \/ \E group \in GroupNames : SwitchGroup(group)
  \/ \E e \in EnvNames :
       \/ DeleteEnv(e) \/ Unbind(e)
       \/ \E i \in Infos : AddEnv(e, i) \/ EditEnv(e, i)
       \/ \E c \in ClusterIDs : Bind(e, c)
  \/ \E c \in calls :
       \/ ServeEnv(c) \/ LoseEnv(c)
       \/ EnvsListed(c) \/ EnvPut(c) \/ EnvDeleted(c) \/ EnvBound(c)
       \/ Ignored(c) /\ UNCHANGED envVars

-----------------------------------------------------------------------------
EnvsTyped ==
  /\ route \in [group: GroupNames, at: {"list", "env"}] /\ addsTo \in GroupNames
  /\ view.group \in GroupNames /\ view.envs \in [EnvNames -> Item \union {None}]
  /\ stored \in [GroupNames -> [EnvNames -> Env \union {None}]]
  /\ deleted \in [GroupNames -> [EnvNames -> Left]]
  /\ RequestsTyped({"list"} \union EnvWrites)

(* Environments are shown, and their buttons address them, as those of the *)
(* group they are of, however often the group is switched and in whatever  *)
(* order the lists arrive: unless one was added by a form that kept the    *)
(* group from before.                                                      *)
EnvsOfOneGroup ==
  "stray" \notin noted =>
    \A e \in EnvNames : view.envs[e] # None =>
      view.envs[e].of = view.group /\ view.envs[e].as = view.group

(* When everything is answered, the environments shown are those of the    *)
(* server, their clusters included.  But for what is put under the name of *)
(* a deleted one, which is shown and not there, and for a list that        *)
(* failed: then, until another arrives, there are those from before.       *)
EnvsAgree ==
  calls = {} /\ noted \intersect {"stray", "unlisted"} = {} =>
    \A e \in EnvNames \ noted :
      LET item == view.envs[e] env == stored[view.group][e]
      IN IF item = None THEN env = None
         ELSE env = [info |-> item.info, cluster |-> item.cluster]
=============================================================================
