--------------------------- MODULE DashboardPages_proofs ---------------------------
(***************************************************************************)
(* Proofs about the other pages of the web dashboard: the environments of a *)
(* group, the versions of a kubepkg, and the lists whose rows are edited,   *)
(* for any values of the constants and any number of requests; and, with    *)
(* the session's, that the page shown keeps to its types.                   *)
(***************************************************************************)
EXTENDS DashboardSession_proofs, FiniteSetTheorems

-----------------------------------------------------------------------------
(* Requests nobody waits for any more.                                      *)

Stays(u, c) ==
  /\ u.op = c.op /\ u.from = c.from /\ u.arg = c.arg /\ u.answer = c.answer
  /\ (u.served <=> c.served) /\ (u.heard => c.heard) /\ Shape(u)

LEMMA UnheardFields ==
  ASSUME NEW c, Shape(c), NEW u, u = [c EXCEPT !.heard = FALSE]
  PROVE  Stays(u, c) /\ ~ u.heard
<1>1. u = [op |-> c.op, from |-> c.from, arg |-> c.arg, n |-> c.n,
           served |-> c.served, answer |-> c.answer, heard |-> FALSE]
  BY DEF Shape
<1>2. /\ u.op = c.op /\ u.from = c.from /\ u.arg = c.arg /\ u.n = c.n /\ u.served = c.served
      /\ u.answer = c.answer /\ u.heard = FALSE
  BY <1>1
<1>3. u = [op |-> u.op, from |-> u.from, arg |-> u.arg, n |-> u.n,
           served |-> u.served, answer |-> u.answer, heard |-> u.heard]
  BY <1>1
<1>4. c.served \in BOOLEAN
  BY DEF Shape
<1> QED BY <1>2, <1>3, <1>4 DEF Shape, Stays

(* A request once the server has answered it.                               *)
Answered(c, a) == [c EXCEPT !.served = TRUE, !.answer = a]

LEMMA AnsweredForm ==
  ASSUME NEW c, Shape(c), NEW a, NEW u, u = Answered(c, a)
  PROVE  u = [op |-> c.op, from |-> c.from, arg |-> c.arg, n |-> c.n,
              served |-> TRUE, answer |-> a, heard |-> c.heard]
BY DEF Shape, Answered

LEMMA ServedForm ==
  ASSUME NEW c, Shape(c), NEW u, u = [c EXCEPT !.served = TRUE]
  PROVE  u = [op |-> c.op, from |-> c.from, arg |-> c.arg, n |-> c.n,
              served |-> TRUE, answer |-> c.answer, heard |-> c.heard]
BY DEF Shape

LEMMA AnsweredIs ==
  ASSUME NEW c, Shape(c), NEW a, NEW u, u = Answered(c, a)
  PROVE  /\ u.op = c.op /\ u.from = c.from /\ u.arg = c.arg /\ u.served
         /\ u.answer = a /\ (u.heard <=> c.heard) /\ Shape(u)
<1>1. u = [op |-> c.op, from |-> c.from, arg |-> c.arg, n |-> c.n,
           served |-> TRUE, answer |-> a, heard |-> c.heard]
  BY AnsweredForm
<1>2. /\ u.op = c.op /\ u.from = c.from /\ u.arg = c.arg /\ u.n = c.n /\ u.served = TRUE
      /\ u.answer = a /\ u.heard = c.heard
  BY <1>1
<1>3. u = [op |-> u.op, from |-> u.from, arg |-> u.arg, n |-> u.n,
           served |-> u.served, answer |-> u.answer, heard |-> u.heard]
  BY <1>1
<1>4. c.heard \in BOOLEAN
  BY DEF Shape
<1> QED BY <1>2, <1>3, <1>4 DEF Shape

LEMMA AnsweredCalls ==
  ASSUME NEW c \in calls, Shape(c), NEW a, Answer(c, a)
  PROVE  \E u :
           /\ calls' = (calls \ {c}) \union {u} /\ u = Answered(c, a)
           /\ u.op = c.op /\ u.from = c.from /\ u.arg = c.arg /\ u.served
           /\ u.answer = a /\ (u.heard <=> c.heard) /\ Shape(u)
<1>1. PICK u : u = Answered(c, a)
  OBVIOUS
<1>2. calls' = (calls \ {c}) \union {u}
  BY <1>1 DEF Answer, Answered
<1>3. /\ u.op = c.op /\ u.from = c.from /\ u.arg = c.arg /\ u.served
      /\ u.answer = a /\ (u.heard <=> c.heard) /\ Shape(u)
  BY <1>1, AnsweredIs
<1> QED BY <1>1, <1>2, <1>3

(* To answer with nothing is only to serve.                                 *)
LEMMA NothingAnswered ==
  ASSUME NEW c, Shape(c), c.answer = None
  PROVE  Answered(c, None) = [c EXCEPT !.served = TRUE]
<1>1. PICK u : u = Answered(c, None)
  OBVIOUS
<1>2. PICK v : v = [c EXCEPT !.served = TRUE]
  OBVIOUS
<1>3. u = v
  BY <1>1, <1>2, AnsweredForm, ServedForm
<1> QED BY <1>1, <1>2, <1>3

-----------------------------------------------------------------------------
(* The environments: the inductive invariant.                               *)

(* A list failed, and none arrived since.                                   *)
Unlisted == "unlisted" \in noted

EnvRest ==
  /\ route \in [group: GroupNames, at: {"list", "env"}] /\ addsTo \in GroupNames
  /\ view \in [group: GroupNames, envs: [EnvNames -> Item \union {None}]]
  /\ stored \in [GroupNames -> [EnvNames -> Env \union {None}]]
  /\ deleted \in [GroupNames -> [EnvNames -> Left]]
  /\ asked \in 0..MaxSent /\ faults \in 0..MaxFaults

EnvCall(c) ==
  /\ Shape(c) /\ c.op \in {"list"} \union EnvWrites /\ c.arg.group \in GroupNames
  /\ ~ c.served => c.answer = None
  /\ c.op = "list" =>
       c.heard /\ (c.served => c.answer \in [EnvNames -> Env \union {None}])
  /\ c.op \in EnvWrites => c.arg.env \in EnvNames
  /\ c.op = "put" => c.arg.value \in Infos
  /\ c.op \in {"bind", "unbind"} => c.arg.value \in ClusterIDs \union {None}
AllEnvCalls == \A c \in calls : EnvCall(c)

(* As long as nothing was written askew, what is shown is of the group      *)
(* shown, and so are the writes a row waits for and the lists beside them.  *)
OfTheGroup(v, e) == v.envs[e] # None => v.envs[e].of = v.group /\ v.envs[e].as = v.group
Straight ==
  "stray" \notin noted =>
    /\ \A e \in EnvNames : OfTheGroup(view, e)
    /\ \A c \in calls : c.op \in EnvWrites /\ c.heard =>
         /\ c.arg.group = view.group /\ route.group = view.group
         /\ \A d \in calls : d.op = "list" => d.arg.group = view.group

WriteOf(c, e) == c.op \in EnvWrites /\ c.arg.env = e

(* What the server has once it did what c asks for.                         *)
Stored(c, e) ==
  LET env == stored[view.group][e]
  IN /\ c.op = "put" => env = [info |-> c.arg.value, cluster |-> None]
     /\ c.op = "delete" => env = None
     /\ c.op \in {"bind", "unbind"} =>
          Unlisted \/ env = [info |-> view.envs[e].info, cluster |-> c.arg.value]
Same(v, e) ==
  /\ v.envs[e] = None => stored[v.group][e] = None
  /\ v.envs[e] # None =>
       stored[v.group][e] = [info |-> v.envs[e].info, cluster |-> v.envs[e].cluster]

(* A write of an environment nothing is noted of is the only request about  *)
(* it, the row that asked is there, and the server did what it answers;     *)
(* lists say what the server has; what is shown is what the server has      *)
(* unless a list is asked for, or failed, or a write is about to be answered.*)
OnlyWrite(e) ==
  \A c \in calls : WriteOf(c, e) =>
    /\ c.heard /\ Mounted(c, view)
    /\ c.op \in {"bind", "unbind"} => view.envs[e] # None
    /\ c.served => c.answer # None /\ Stored(c, e)
    /\ \A d \in calls : d.op # "list" /\ (WriteOf(d, e) => d = c)
ListsKnow(e) ==
  \A c \in calls : c.op = "list" /\ c.served => c.answer[e] = stored[c.arg.group][e]
ShownOrAsked(e) ==
  \/ Unlisted \/ Same(view, e)
  \/ \E c \in calls : c.op = "list" \/ (WriteOf(c, e) /\ c.served)
Known(e) == OnlyWrite(e) /\ ListsKnow(e) /\ ShownOrAsked(e)
AllKnown == "stray" \notin noted => \A e \in EnvNames \ noted : Known(e)

EInv == EnvRest /\ AllEnvCalls /\ Straight /\ AllKnown

-----------------------------------------------------------------------------
(* The environments: what is typed.                                         *)

LEMMA EnvThere ==
  ASSUME NEW x, x \in Env \/ x \in Item \/ x \in [EnvNames -> Env \union {None}]
  PROVE  x # None
BY EnvsAssumption

LEMMA EnvFields ==
  ASSUME NEW env \in Env
  PROVE  /\ env = [info |-> env.info, cluster |-> env.cluster]
         /\ env.info \in Infos /\ env.cluster \in ClusterIDs \union {None}
BY DEF Env

LEMMA ItemFields ==
  ASSUME NEW env \in Env, NEW of \in GroupNames, NEW made \in GroupNames,
         NEW i, i = ItemOf(env, of, made)
  PROVE  /\ i \in Item /\ i # None /\ i.of = of /\ i.as = made
         /\ i.info = env.info /\ i.cluster = env.cluster
<1>1. /\ i.of = of /\ i.as = made /\ i.info = env.info /\ i.cluster = env.cluster /\ i \in Item
  BY EnvFields DEF ItemOf, Item
<1> QED BY <1>1, EnvThere

LEMMA ViewFields ==
  ASSUME NEW g \in GroupNames, NEW s \in [EnvNames -> Item \union {None}],
         NEW v, v = [group |-> g, envs |-> s]
  PROVE  /\ v \in [group: GroupNames, envs: [EnvNames -> Item \union {None}]]
         /\ v.group = g /\ v.envs = s
OBVIOUS

LEMMA EnvArgFields ==
  ASSUME NEW g, NEW e, NEW x, NEW a, a = EnvArg(g, e, x)
  PROVE  a.group = g /\ a.env = e /\ a.value = x
BY DEF EnvArg

(* PutItem changes one environment.                                         *)
LEMMA PutItemFields ==
  ASSUME EnvRest, NEW e \in EnvNames, NEW i \in Item \union {None}, NEW v, v = PutItem(e, i)
  PROVE  /\ v \in [group: GroupNames, envs: [EnvNames -> Item \union {None}]]
         /\ v.group = view.group /\ v.envs[e] = i
         /\ \A d \in EnvNames : d # e => v.envs[d] = view.envs[d]
<1>1. /\ view = [group |-> view.group, envs |-> view.envs] /\ view.group \in GroupNames
      /\ view.envs \in [EnvNames -> Item \union {None}]
  BY DEF EnvRest
<1>2. v = [group |-> view.group, envs |-> [view.envs EXCEPT ![e] = i]]
  BY <1>1 DEF PutItem
<1> QED BY <1>1, <1>2, ViewFields

(* The requests left by Becomes: those of components that are still there.  *)
LEMMA BecomesCalls ==
  ASSUME AllEnvCalls, NEW v, NEW kept \in SUBSET calls, Becomes(v, kept)
  PROVE  /\ view' = v
         /\ \A u \in calls' : \E c \in kept : Stays(u, c) /\ (Mounted(c, v) => u = c)
         /\ \A c \in kept : Mounted(c, v) => c \in calls'
<1>1. view' = v
  BY DEF Becomes
<1>2. calls' = {IF ~ Mounted(c, v) THEN [c EXCEPT !.heard = FALSE] ELSE c : c \in kept}
  BY DEF Becomes, Unheard
<1>3. ASSUME NEW u \in calls'
      PROVE  \E c \in kept : Stays(u, c) /\ (Mounted(c, v) => u = c)
  <2>1. PICK c \in kept : u = IF ~ Mounted(c, v) THEN [c EXCEPT !.heard = FALSE] ELSE c
    BY <1>2, <1>3
  <2>2. Shape(c)
    BY DEF AllEnvCalls, EnvCall
  <2>3. CASE Mounted(c, v)
    BY <2>1, <2>2, <2>3 DEF Stays
  <2>4. CASE ~ Mounted(c, v)
    BY <2>1, <2>2, <2>4, UnheardFields
  <2> QED BY <2>3, <2>4
<1>4. ASSUME NEW c \in kept, Mounted(c, v) PROVE c \in calls'
  BY <1>2, <1>4
<1> QED BY <1>1, <1>3, <1>4

(* A request stays one of the page when it is not waited for any more.      *)
LEMMA EnvCallStays ==
  ASSUME NEW c, EnvCall(c), NEW u, Stays(u, c), c.op = "list" => u = c
  PROVE  EnvCall(u)
BY DEF EnvCall, Stays

-----------------------------------------------------------------------------
(* The environments: answers of writes.                                     *)

LEMMA MountedSame ==
  ASSUME NEW c, NEW v, NEW w, v.envs[c.arg.env] = w.envs[c.arg.env]
  PROVE  Mounted(c, v) <=> Mounted(c, w)
BY DEF Mounted

LEMMA ListMounted ==
  ASSUME NEW c, c.op = "list", NEW v
  PROVE  Mounted(c, v)
BY DEF Mounted

LEMMA EnvWritten ==
  ASSUME EInv, NEW c \in calls, c.op \in EnvWrites, c.heard,
         NEW i \in Item \union {None}, NEW v, v = PutItem(c.arg.env, i), Becomes(v, calls \ {c}),
         "stray" \notin noted /\ i # None => i.of = view.group /\ i.as = view.group,
         "stray" \notin noted /\ c.arg.env \notin noted => Unlisted \/ Same(v, c.arg.env),
         UNCHANGED <<route, addsTo, stored, deleted, asked, faults, noted>>
  PROVE  EInv'
<1>1. /\ EnvRest /\ AllEnvCalls /\ c.arg.env \in EnvNames /\ c.op # "list"
  BY DEF EInv, AllEnvCalls, EnvCall, EnvWrites
<1>2. /\ v \in [group: GroupNames, envs: [EnvNames -> Item \union {None}]]
      /\ v.group = view.group /\ v.envs[c.arg.env] = i
      /\ \A d \in EnvNames : d # c.arg.env => v.envs[d] = view.envs[d]
  BY <1>1, PutItemFields
<1>3. /\ view' = v
      /\ \A u \in calls' : \E d \in calls \ {c} : Stays(u, d) /\ (Mounted(d, v) => u = d)
      /\ \A d \in calls \ {c} : Mounted(d, v) => d \in calls'
  BY <1>1, BecomesCalls
<1>4. EnvRest'
  BY <1>1, <1>2, <1>3 DEF EnvRest
<1>5. AllEnvCalls'
  <2> SUFFICES ASSUME NEW u \in calls' PROVE EnvCall(u)
    BY DEF AllEnvCalls, EnvCall
  <2>1. PICK d \in calls : Stays(u, d) /\ (Mounted(d, v) => u = d)
    BY <1>3
  <2>2. EnvCall(d)
    BY <1>1 DEF AllEnvCalls
  <2> QED BY <2>1, <2>2, EnvCallStays, ListMounted
<1>6. Straight'
  <2> SUFFICES ASSUME "stray" \notin noted
               PROVE  /\ \A e \in EnvNames : OfTheGroup(v, e)
                      /\ \A u \in calls' : u.op \in EnvWrites /\ u.heard =>
                           /\ u.arg.group = v.group /\ route.group = v.group
                           /\ \A w \in calls' : w.op = "list" => w.arg.group = v.group
    BY <1>3 DEF Straight, OfTheGroup
  <2>1. /\ \A e \in EnvNames : OfTheGroup(view, e)
        /\ \A d \in calls : d.op \in EnvWrites /\ d.heard =>
             /\ d.arg.group = view.group /\ route.group = view.group
             /\ \A w \in calls : w.op = "list" => w.arg.group = view.group
    BY DEF EInv, Straight
  <2>2. \A e \in EnvNames : OfTheGroup(v, e)
    BY <1>1, <1>2, <2>1 DEF OfTheGroup
  <2>3. ASSUME NEW u \in calls', u.op \in EnvWrites, u.heard
        PROVE  /\ u.arg.group = v.group /\ route.group = v.group
               /\ \A w \in calls' : w.op = "list" => w.arg.group = v.group
    <3>1. PICK d \in calls : Stays(u, d)
      BY <1>3
    <3>2. d.op \in EnvWrites /\ d.heard /\ u.arg = d.arg
      BY <2>3, <3>1 DEF Stays
    <3>3. ASSUME NEW w \in calls', w.op = "list" PROVE w.arg.group = v.group
      <4>1. PICK x \in calls : Stays(w, x)
        BY <1>3
      <4> QED BY <1>2, <2>1, <3>2, <3>3, <4>1 DEF Stays
    <3> QED BY <1>2, <2>1, <3>2, <3>3
  <2> QED BY <2>2, <2>3
<1>7. AllKnown'
  <2> SUFFICES ASSUME "stray" \notin noted, NEW e \in EnvNames, e \notin noted
               PROVE  Known(e)'
    BY DEF AllKnown
  <2>1. OnlyWrite(e) /\ ListsKnow(e) /\ ShownOrAsked(e)
    BY DEF EInv, AllKnown, Known
  <2>2. CASE e = c.arg.env
    <3>1. \A d \in calls \ {c} : d.op # "list" /\ ~ WriteOf(d, e)
      BY <2>1, <2>2 DEF OnlyWrite, WriteOf
    <3>2. \A u \in calls' : u.op # "list" /\ ~ WriteOf(u, e)
      BY <1>3, <3>1 DEF Stays, WriteOf
    <3>3. OnlyWrite(e)' /\ ListsKnow(e)'
      BY <3>2 DEF OnlyWrite, ListsKnow, WriteOf
    <3>4. Unlisted' \/ Same(view, e)'
      BY <1>3, <2>2 DEF Same, Unlisted
    <3> QED BY <3>3, <3>4 DEF Known, ShownOrAsked
  <2>3. CASE e # c.arg.env
    <3>1. v.envs[e] = view.envs[e]
      BY <1>2, <2>3
    <3>2. ASSUME NEW d \in calls, WriteOf(d, e) PROVE Mounted(d, v)
      BY <2>1, <3>1, <3>2, MountedSame DEF OnlyWrite, WriteOf
    <3>3. OnlyWrite(e)'
      <4> SUFFICES ASSUME NEW u \in calls', WriteOf(u, e)
                   PROVE  /\ u.heard /\ Mounted(u, v)
                          /\ u.op \in {"bind", "unbind"} => v.envs[e] # None
                          /\ u.served => u.answer # None /\ Stored(u, e)'
                          /\ \A w \in calls' : w.op # "list" /\ (WriteOf(w, e) => w = u)
        BY <1>3 DEF OnlyWrite, WriteOf
      <4>1. PICK d \in calls : Stays(u, d) /\ (Mounted(d, v) => u = d)
        BY <1>3
      <4>2. u = d /\ u \in calls
        BY <3>2, <4>1 DEF WriteOf, Stays
      <4>3. /\ u.heard /\ u.op \in {"bind", "unbind"} => view.envs[e] # None
            /\ u.served => u.answer # None /\ Stored(u, e)
            /\ \A w \in calls : w.op # "list" /\ (WriteOf(w, e) => w = u)
        BY <2>1, <4>2 DEF OnlyWrite
      <4>4. Stored(u, e) => Stored(u, e)'
        BY <1>2, <1>3, <3>1 DEF Stored, Unlisted
      <4>5. ASSUME NEW w \in calls' PROVE w.op # "list" /\ (WriteOf(w, e) => w = u)
        <5>1. PICK x \in calls : Stays(w, x) /\ (Mounted(x, v) => w = x)
          BY <1>3
        <5> QED BY <3>2, <4>3, <5>1 DEF Stays, WriteOf
      <4>6. u.heard
        BY <4>2, <2>1 DEF OnlyWrite
      <4> QED BY <3>1, <3>2, <4>2, <4>3, <4>4, <4>5, <4>6
    <3>4. ListsKnow(e)'
      <4> SUFFICES ASSUME NEW u \in calls', u.op = "list", u.served
                   PROVE  u.answer[e] = stored[u.arg.group][e]
        BY DEF ListsKnow
      <4>1. PICK d \in calls : Stays(u, d)
        BY <1>3
      <4> QED BY <2>1, <4>1 DEF ListsKnow, Stays
    <3>5. ShownOrAsked(e)'
      <4>1. CASE Same(view, e)
        <5>1. Same(view, e)'
          BY <1>2, <1>3, <3>1, <4>1 DEF Same
        <5> QED BY <5>1 DEF ShownOrAsked
      <4>2. CASE \E d \in calls : d.op = "list" \/ (WriteOf(d, e) /\ d.served)
        <5>1. PICK d \in calls : d.op = "list" \/ (WriteOf(d, e) /\ d.served)
          BY <4>2
        <5>2. d \in calls'
          BY <1>1, <1>3, <2>3, <3>2, <5>1, ListMounted DEF WriteOf
        <5> QED BY <5>1, <5>2 DEF ShownOrAsked, WriteOf
      <4>3. Unlisted => Unlisted'
        BY DEF Unlisted
      <4> QED BY <2>1, <4>1, <4>2, <4>3 DEF ShownOrAsked
    <3> QED BY <3>3, <3>4, <3>5 DEF Known
  <2> QED BY <2>2, <2>3
<1> QED BY <1>4, <1>5, <1>6, <1>7 DEF EInv

(* EnvPut, EnvDeleted and EnvBound.                                         *)
LEMMA EnvWriteAnswered ==
  ASSUME EInv, NEW c \in calls, EnvPut(c) \/ EnvDeleted(c) \/ EnvBound(c)
  PROVE  EInv'
<1>1. /\ EnvRest /\ EnvCall(c)
      /\ c.op \in EnvWrites => c.arg.env \in EnvNames
      /\ c.op \in EnvWrites /\ "stray" \notin noted /\ c.heard => c.arg.group = view.group
      /\ "stray" \notin noted => \A e \in EnvNames : OfTheGroup(view, e)
  BY DEF EInv, AllEnvCalls, EnvCall, Straight
<1>2. /\ view.group \in GroupNames /\ c.arg.group \in GroupNames
      /\ \A e \in EnvNames : view.envs[e] \in Item \union {None}
  BY <1>1 DEF EnvRest, EnvCall
<1>3. ASSUME "stray" \notin noted, c.op \in EnvWrites, c.arg.env \notin noted, c.served
      PROVE  Stored(c, c.arg.env) /\ (c.op \in {"bind", "unbind"} => view.envs[c.arg.env] # None)
  BY <1>1, <1>3 DEF EInv, AllKnown, Known, OnlyWrite, WriteOf
<1>4. CASE EnvPut(c)
  <2>1. /\ c.op = "put" /\ c.op \in EnvWrites /\ c.served /\ c.heard
        /\ UNCHANGED <<route, addsTo, stored, deleted, asked, faults, noted>>
    BY <1>4 DEF EnvPut, Heard, EnvWrites
  <2>2. PICK env : env = [info |-> c.arg.value, cluster |-> None]
    OBVIOUS
  <2>3. env \in Env /\ env.info = c.arg.value /\ env.cluster = None
    BY <1>1, <2>1, <2>2 DEF EnvCall, Env
  <2>4. PICK made : made = IF view.envs[c.arg.env] # None THEN view.envs[c.arg.env].as ELSE view.group
    OBVIOUS
  <2>5. made \in GroupNames /\ ("stray" \notin noted => made = view.group)
    <3>1. CASE view.envs[c.arg.env] # None
      <4>1. view.envs[c.arg.env] \in Item
        BY <1>1, <1>2, <2>1, <3>1
      <4>2. view.envs[c.arg.env].as \in GroupNames
        BY <4>1 DEF Item
      <4> QED BY <1>1, <2>1, <2>4, <3>1, <4>2 DEF OfTheGroup
    <3>2. CASE view.envs[c.arg.env] = None
      BY <1>2, <2>4, <3>2
    <3> QED BY <3>1, <3>2
  <2>6. PICK i : i = ItemOf(env, c.arg.group, made)
    OBVIOUS
  <2>7. i \in Item /\ i # None /\ i.of = c.arg.group /\ i.as = made /\ i.info = c.arg.value
        /\ i.cluster = None
    <3>1. PICK g \in GroupNames : g = c.arg.group
      BY <1>2
    <3>2. i = ItemOf(env, g, made) /\ env \in Env /\ made \in GroupNames
      BY <2>3, <2>5, <2>6, <3>1
    <3>3. /\ i \in Item /\ i # None /\ i.of = g /\ i.as = made
          /\ i.info = env.info /\ i.cluster = env.cluster
      BY <3>2, ItemFields
    <3> QED BY <2>3, <3>1, <3>3
  <2>8. PICK v : v = PutItem(c.arg.env, i)
    OBVIOUS
  <2>9. Becomes(v, calls \ {c})
    BY <1>4, <2>2, <2>4, <2>6, <2>8 DEF EnvPut
  <2>10. "stray" \notin noted /\ c.arg.env \notin noted => Unlisted \/ Same(v, c.arg.env)
    <3>1. v.group = view.group /\ v.envs[c.arg.env] = i
      BY <1>1, <2>1, <2>7, <2>8, PutItemFields
    <3> QED BY <1>3, <2>1, <2>7, <3>1 DEF Same, Stored
  <2>11. "stray" \notin noted => i.of = view.group /\ i.as = view.group
    BY <1>1, <2>1, <2>5, <2>7
  <2> QED BY <2>1, <2>7, <2>8, <2>9, <2>10, <2>11, EnvWritten
<1>5. CASE EnvDeleted(c)
  <2>1. /\ c.op = "delete" /\ c.op \in EnvWrites /\ c.served /\ c.heard
        /\ UNCHANGED <<route, addsTo, stored, deleted, asked, faults, noted>>
    BY <1>5 DEF EnvDeleted, Heard, EnvWrites
  <2>2. PICK v : v = PutItem(c.arg.env, None)
    OBVIOUS
  <2>3. Becomes(v, calls \ {c})
    BY <1>5, <2>2 DEF EnvDeleted
  <2>4. "stray" \notin noted /\ c.arg.env \notin noted => Unlisted \/ Same(v, c.arg.env)
    <3>1. v.group = view.group /\ v.envs[c.arg.env] = None
      BY <1>1, <2>1, <2>2, PutItemFields
    <3> QED BY <1>3, <2>1, <3>1 DEF Same, Stored
  <2> QED BY <2>1, <2>2, <2>3, <2>4, EnvWritten
<1>6. CASE EnvBound(c)
  <2>1. /\ c.op \in {"bind", "unbind"} /\ c.op \in EnvWrites /\ c.served /\ c.heard
        /\ UNCHANGED <<route, addsTo, stored, deleted, asked, faults, noted>>
    BY <1>6 DEF EnvBound, Heard, EnvWrites
  <2>2. PICK v : v = BindItem(c.arg.env, c.arg.value)
    OBVIOUS
  <2>3. Becomes(v, calls \ {c})
    BY <1>6, <2>2 DEF EnvBound
  <2>4. \E i \in Item \union {None} :
          /\ v = PutItem(c.arg.env, i)
          /\ "stray" \notin noted /\ i # None => i.of = view.group /\ i.as = view.group
          /\ "stray" \notin noted /\ c.arg.env \notin noted => Unlisted \/ Same(v, c.arg.env)
    <3>1. /\ view = [group |-> view.group, envs |-> view.envs]
          /\ view.envs \in [EnvNames -> Item \union {None}] /\ c.arg.env \in EnvNames
      BY <1>1, <2>1 DEF EnvRest
    <3>2. CASE view.envs[c.arg.env] = None
      <4>1. v = view
        BY <2>2, <3>2 DEF BindItem
      <4>2. view = PutItem(c.arg.env, None)
        <5>1. [view.envs EXCEPT ![c.arg.env] = None] = view.envs
          BY <3>1, <3>2
        <5>2. PutItem(c.arg.env, None)
                = [group |-> view.group, envs |-> [view.envs EXCEPT ![c.arg.env] = None]]
          BY <3>1 DEF PutItem
        <5> QED BY <3>1, <5>1, <5>2
      <4>3. ~ ("stray" \notin noted /\ c.arg.env \notin noted)
        BY <1>3, <2>1, <3>2
      <4> QED BY <4>1, <4>2, <4>3
    <3>3. CASE view.envs[c.arg.env] # None
      <4>1. PICK o : o = view.envs[c.arg.env]
        OBVIOUS
      <4>2. /\ o \in Item /\ o # None
            /\ "stray" \notin noted => o.of = view.group /\ o.as = view.group
        BY <1>1, <2>1, <3>1, <3>3, <4>1 DEF OfTheGroup
      <4>3. PICK i : i = [o EXCEPT !.cluster = c.arg.value]
        OBVIOUS
      <4>4. /\ i \in Item /\ i.of = o.of /\ i.as = o.as /\ i.info = o.info
            /\ i.cluster = c.arg.value
        BY <1>1, <2>1, <4>2, <4>3 DEF Item, EnvCall
      <4>5. v = PutItem(c.arg.env, i)
        <5>1. v = [view EXCEPT !.envs[c.arg.env].cluster = c.arg.value]
          BY <2>2, <3>3 DEF BindItem
        <5>2. v = [group |-> view.group, envs |-> [view.envs EXCEPT ![c.arg.env].cluster = c.arg.value]]
          BY <3>1, <5>1
        <5>3. [view.envs EXCEPT ![c.arg.env].cluster = c.arg.value]
                = [view.envs EXCEPT ![c.arg.env] = i]
          BY <3>1, <4>1, <4>3
        <5>4. PutItem(c.arg.env, i)
                = [group |-> view.group, envs |-> [view.envs EXCEPT ![c.arg.env] = i]]
          BY <3>1 DEF PutItem
        <5> QED BY <5>2, <5>3, <5>4
      <4>6. ASSUME "stray" \notin noted, c.arg.env \notin noted, ~ Unlisted PROVE Same(v, c.arg.env)
        <5>1. v.group = view.group /\ v.envs[c.arg.env] = i
          BY <1>1, <2>1, <4>4, <4>5, PutItemFields
        <5>2. i # None
          BY <4>4, EnvThere
        <5>3. stored[view.group][c.arg.env] = [info |-> o.info, cluster |-> c.arg.value]
          BY <1>3, <2>1, <4>1, <4>6 DEF Stored
        <5> QED BY <4>4, <5>1, <5>2, <5>3 DEF Same
      <4> QED BY <4>2, <4>4, <4>5, <4>6
    <3> QED BY <3>2, <3>3
  <2>5. PICK i \in Item \union {None} :
          /\ v = PutItem(c.arg.env, i)
          /\ "stray" \notin noted /\ i # None => i.of = view.group /\ i.as = view.group
          /\ "stray" \notin noted /\ c.arg.env \notin noted => Unlisted \/ Same(v, c.arg.env)
    BY <2>4
  <2> QED BY <2>1, <2>3, <2>5, EnvWritten
<1> QED BY <1>4, <1>5, <1>6

-----------------------------------------------------------------------------
(* The environments: the server, and requests that fail.                    *)

LEMMA EnvServed ==
  ASSUME EInv, NEW c \in calls, NEW a, Answer(c, a),
         UNCHANGED <<route, view, addsTo, asked>>, faults' \in 0..MaxFaults, noted \subseteq noted',
         stored' \in [GroupNames -> [EnvNames -> Env \union {None}]],
         deleted' \in [GroupNames -> [EnvNames -> Left]],
         c.op = "list" => UNCHANGED stored /\ a = stored[c.arg.group],
         c.op \in EnvWrites => \A g \in GroupNames, e \in EnvNames \ {c.arg.env} :
                                 stored'[g][e] = stored[g][e],
         c.op \in EnvWrites /\ "stray" \notin noted /\ c.arg.env \notin noted' =>
           a # None /\ Stored(c, c.arg.env)'
  PROVE  EInv'
<1>1. EnvRest /\ AllEnvCalls /\ EnvCall(c) /\ Shape(c)
  BY DEF EInv, AllEnvCalls, EnvCall
<1>2. PICK u : /\ calls' = (calls \ {c}) \union {u}
               /\ u.op = c.op /\ u.from = c.from /\ u.arg = c.arg /\ u.served
               /\ u.answer = a /\ (u.heard <=> c.heard) /\ Shape(u)
  BY <1>1, AnsweredCalls
<1>3. \A g \in GroupNames : stored[g] \in [EnvNames -> Env \union {None}]
  BY <1>1 DEF EnvRest
<1>4. EnvCall(u)
  <2>1. c.op = "list" => a \in [EnvNames -> Env \union {None}]
    BY <1>1, <1>3 DEF EnvCall
  <2> QED BY <1>1, <1>2, <2>1 DEF EnvCall
<1>5. EnvRest' /\ AllEnvCalls'
  <2>1. \A d \in calls' : EnvCall(d)
    BY <1>1, <1>2, <1>4 DEF AllEnvCalls
  <2> QED BY <1>1, <2>1 DEF EnvRest, AllEnvCalls, EnvCall
<1>6. Straight'
  <2>1. \A d \in calls' : \E x \in calls : d.op = x.op /\ d.arg = x.arg /\ (d.heard => x.heard)
    BY <1>2
  <2>2. SUFFICES ASSUME "stray" \notin noted
                 PROVE  /\ \A e \in EnvNames : OfTheGroup(view, e)
                        /\ \A d \in calls' : d.op \in EnvWrites /\ d.heard =>
                             /\ d.arg.group = view.group /\ route.group = view.group
                             /\ \A w \in calls' : w.op = "list" => w.arg.group = view.group
    BY DEF Straight, OfTheGroup
  <2>3. /\ \A e \in EnvNames : OfTheGroup(view, e)
        /\ \A d \in calls : d.op \in EnvWrites /\ d.heard =>
             /\ d.arg.group = view.group /\ route.group = view.group
             /\ \A w \in calls : w.op = "list" => w.arg.group = view.group
    BY <2>2 DEF EInv, Straight
  <2>4. ASSUME NEW d \in calls', d.op \in EnvWrites, d.heard
        PROVE  /\ d.arg.group = view.group /\ route.group = view.group
               /\ \A w \in calls' : w.op = "list" => w.arg.group = view.group
    <3>1. PICK x \in calls : d.op = x.op /\ d.arg = x.arg /\ (d.heard => x.heard)
      BY <2>1
    <3>2. ASSUME NEW w \in calls', w.op = "list" PROVE w.arg.group = view.group
      <4>1. PICK y \in calls : w.op = y.op /\ w.arg = y.arg
        BY <2>1
      <4> QED BY <2>3, <2>4, <3>1, <3>2, <4>1
    <3> QED BY <2>3, <2>4, <3>1, <3>2
  <2> QED BY <2>3, <2>4
<1>7. AllKnown'
  <2> SUFFICES ASSUME "stray" \notin noted, NEW e \in EnvNames, e \notin noted'
               PROVE  Known(e)'
    BY DEF AllKnown
  <2>1. OnlyWrite(e) /\ ListsKnow(e) /\ ShownOrAsked(e) /\ view.group \in GroupNames
    BY <1>1 DEF EInv, AllKnown, Known, EnvRest
  <2>2. ~ WriteOf(c, e) => \A g \in GroupNames : stored'[g][e] = stored[g][e]
    BY <1>1 DEF WriteOf, EnvCall
  <2>6. Unlisted => Unlisted'
    BY DEF Unlisted
  <2>3. OnlyWrite(e)'
    <3> SUFFICES ASSUME NEW w \in calls', WriteOf(w, e)
                 PROVE  /\ w.heard /\ Mounted(w, view)
                        /\ w.op \in {"bind", "unbind"} => view.envs[e] # None
                        /\ w.served => w.answer # None /\ Stored(w, e)'
                        /\ \A d \in calls' : d.op # "list" /\ (WriteOf(d, e) => d = w)
      BY DEF OnlyWrite, WriteOf
    <3>1. CASE w = u
      <4>1. WriteOf(c, e) /\ c.arg.env = e /\ c.op \in EnvWrites
        BY <1>2, <3>1 DEF WriteOf
      <4>2. /\ c.heard /\ Mounted(c, view) /\ (c.op \in {"bind", "unbind"} => view.envs[e] # None)
            /\ \A d \in calls : d.op # "list" /\ (WriteOf(d, e) => d = c)
        BY <2>1, <4>1 DEF OnlyWrite
      <4>3. Mounted(u, view)
        BY <1>2, <4>2 DEF Mounted
      <4>4. a # None /\ Stored(u, e)'
        <5>1. a # None /\ Stored(c, e)'
          BY <4>1
        <5> QED BY <1>2, <5>1 DEF Stored
      <4>5. \A d \in calls' : d.op # "list" /\ (WriteOf(d, e) => d = u)
        BY <1>2, <4>2
      <4> QED BY <1>2, <3>1, <4>2, <4>3, <4>4, <4>5
    <3>2. CASE w # u
      <4>1. w \in calls /\ w # c
        BY <1>2, <3>2
      <4>2. /\ w.heard /\ Mounted(w, view) /\ (w.op \in {"bind", "unbind"} => view.envs[e] # None)
            /\ w.served => w.answer # None /\ Stored(w, e)
            /\ \A d \in calls : d.op # "list" /\ (WriteOf(d, e) => d = w)
        BY <2>1, <4>1 DEF OnlyWrite
      <4>3. ~ WriteOf(c, e) /\ ~ WriteOf(u, e) /\ u.op # "list"
        BY <1>2, <4>1, <4>2 DEF WriteOf
      <4>4. Stored(w, e) => Stored(w, e)'
        BY <2>1, <2>2, <2>6, <4>3 DEF Stored
      <4>5. \A d \in calls' : d.op # "list" /\ (WriteOf(d, e) => d = w)
        BY <1>2, <4>2, <4>3
      <4>6. w.heard /\ Mounted(w, view)
        BY <4>2
      <4> QED BY <4>2, <4>4, <4>5, <4>6
    <3> QED BY <3>1, <3>2
  <2>4. ListsKnow(e)'
    <3> SUFFICES ASSUME NEW w \in calls', w.op = "list", w.served
                 PROVE  w.answer[e] = stored'[w.arg.group][e]
      BY DEF ListsKnow
    <3>1. CASE w = u
      BY <1>2, <3>1
    <3>2. CASE w # u
      <4>1. w \in calls
        BY <1>2, <3>2
      <4>2. w.answer[e] = stored[w.arg.group][e] /\ w.arg.group \in GroupNames
        BY <1>1, <2>1, <4>1 DEF ListsKnow, AllEnvCalls, EnvCall
      <4>3. ~ WriteOf(c, e)
        BY <2>1, <4>1 DEF OnlyWrite
      <4>4. PICK g \in GroupNames : g = w.arg.group
        BY <4>2
      <4> QED BY <2>2, <4>2, <4>3, <4>4
    <3> QED BY <3>1, <3>2
  <2>5. ShownOrAsked(e)'
    <3>1. CASE WriteOf(c, e)
      <4>1. u \in calls' /\ WriteOf(u, e) /\ u.served
        BY <1>2, <3>1 DEF WriteOf
      <4> QED BY <4>1 DEF ShownOrAsked, WriteOf
    <3>2. CASE ~ WriteOf(c, e) /\ Same(view, e)
      <4>1. Same(view, e)'
        BY <2>1, <2>2, <3>2 DEF Same
      <4> QED BY <4>1 DEF ShownOrAsked
    <3>3. CASE ~ WriteOf(c, e) /\ \E d \in calls : d.op = "list" \/ (WriteOf(d, e) /\ d.served)
      <4>1. PICK d \in calls : d.op = "list" \/ (WriteOf(d, e) /\ d.served)
        BY <3>3
      <4>2. CASE d = c
        BY <1>2, <3>3, <4>1, <4>2 DEF ShownOrAsked
      <4>3. CASE d # c
        <5>1. d \in calls'
          BY <1>2, <4>3
        <5> QED BY <4>1, <5>1 DEF ShownOrAsked, WriteOf
      <4> QED BY <4>2, <4>3
    <3> QED BY <2>1, <2>6, <3>1, <3>2, <3>3 DEF ShownOrAsked
  <2> QED BY <2>3, <2>4, <2>5 DEF Known
<1> QED BY <1>5, <1>6, <1>7 DEF EInv

LEMMA LoseEnvStep ==
  ASSUME EInv, NEW c \in calls, c.op \in EnvWrites, Fail(c),
         noted' = noted \union {c.arg.env}, UNCHANGED <<envVars, asked>>
  PROVE  EInv'
<1>1. /\ c.op \in EnvWrites /\ c.op # "list" /\ Answer(c, None) /\ faults' = faults + 1
      /\ faults < MaxFaults
      /\ UNCHANGED <<route, view, addsTo, stored, deleted, asked>>
  BY DEF Fail, EnvWrites, envVars
<1>2. EnvRest
  BY DEF EInv
<1>3. faults' \in 0..MaxFaults
  BY <1>1, <1>2, RequestsAssumption DEF EnvRest
<1>4. /\ stored' \in [GroupNames -> [EnvNames -> Env \union {None}]]
      /\ deleted' \in [GroupNames -> [EnvNames -> Left]]
  BY <1>1, <1>2 DEF EnvRest
<1>5. noted \subseteq noted' /\ c.arg.env \in noted'
  OBVIOUS
<1> QED BY <1>1, <1>3, <1>4, <1>5, EnvServed

LEMMA EnvsUnlistedStep ==
  ASSUME EInv, NEW c \in calls, c.op = "list", FailUnseen(c),
         noted' = noted \union {"unlisted"}, UNCHANGED <<envVars, asked>>
  PROVE  EInv'
<1>1. /\ faults < MaxFaults /\ faults' = faults + 1 /\ calls' = calls \ {c} /\ Unlisted'
      /\ UNCHANGED <<route, view, addsTo, stored, deleted, asked>>
  BY DEF FailUnseen, envVars, Unlisted
<1>2. EnvRest /\ AllEnvCalls
  BY DEF EInv
<1>3. EnvRest'
  <2>1. faults' \in 0..MaxFaults
    BY <1>1, <1>2, RequestsAssumption DEF EnvRest
  <2> QED BY <1>1, <1>2, <2>1 DEF EnvRest
<1>4. AllEnvCalls'
  BY <1>1, <1>2 DEF AllEnvCalls, EnvCall
<1>5. Straight'
  BY <1>1 DEF EInv, Straight, OfTheGroup
<1>6. AllKnown'
  <2> SUFFICES ASSUME "stray" \notin noted', NEW e \in EnvNames, e \notin noted'
               PROVE  Known(e)'
    BY DEF AllKnown
  <2>1. OnlyWrite(e) /\ ListsKnow(e)
    BY DEF EInv, AllKnown, Known
  <2>2. \A d \in calls : ~ WriteOf(d, e)
    BY <2>1 DEF OnlyWrite
  <2>3. OnlyWrite(e)'
    BY <1>1, <2>2 DEF OnlyWrite, WriteOf
  <2>4. ListsKnow(e)'
    BY <1>1, <2>1 DEF ListsKnow
  <2> QED BY <1>1, <2>3, <2>4 DEF Known, ShownOrAsked
<1> QED BY <1>3, <1>4, <1>5, <1>6 DEF EInv

LEMMA StoreFields ==
  ASSUME EnvRest, NEW c, NEW g \in GroupNames, g = c.arg.group, NEW e \in EnvNames, e = c.arg.env,
         NEW env \in Env \union {None}, Store(c, env)
  PROVE  /\ stored' \in [GroupNames -> [EnvNames -> Env \union {None}]]
         /\ stored'[g][e] = env
         /\ \A h \in GroupNames, d \in EnvNames \ {e} : stored'[h][d] = stored[h][d]
<1>1. stored' = [stored EXCEPT ![g][e] = env]
  BY DEF Store
<1> QED BY <1>1 DEF EnvRest

LEMMA ServeEnvStep ==
  ASSUME EInv, NEW c \in calls, ServeEnv(c)
  PROVE  EInv'
<1>1. /\ EnvRest /\ EnvCall(c) /\ Shape(c) /\ ~ c.served /\ c.answer = None
      /\ UNCHANGED <<route, view, addsTo, asked, faults>>
  BY DEF EInv, AllEnvCalls, EnvCall, ServeEnv
<1>2. /\ c.op # "list" /\ [c EXCEPT !.served = TRUE] \in calls' => c.arg.env \in noted'
      /\ c.op = "put" /\ At(c) = None /\ LeftOf(c) # "never" => c.arg.env \in noted'
      /\ noted \subseteq noted' /\ faults' \in 0..MaxFaults
  <2>1. \/ noted' = noted \union {c.arg.env}
        \/ /\ noted' = noted /\ ~ (c.op = "put" /\ At(c) = None /\ LeftOf(c) # "never")
           /\ ~ (c.op # "list" /\ [c EXCEPT !.served = TRUE] \in calls')
    BY ZenonT(30) DEF ServeEnv
  <2>2. faults' \in 0..MaxFaults
    BY <1>1 DEF EnvRest
  <2> QED BY <2>1, <2>2
<1>3. PICK g \in GroupNames : g = c.arg.group
  BY <1>1 DEF EnvCall
<1>4. PICK s : s = stored[g]
  OBVIOUS
<1>5. s \in [EnvNames -> Env \union {None}]
  BY <1>1, <1>3, <1>4 DEF EnvRest
<1>6. ASSUME c.op # "list", Answer(c, None) PROVE c.arg.env \in noted'
  <2>1. PICK u : calls' = (calls \ {c}) \union {u} /\ u = Answered(c, None)
    BY <1>1, <1>6, AnsweredCalls
  <2>2. u = [c EXCEPT !.served = TRUE]
    BY <1>1, <2>1, NothingAnswered
  <2>3. [c EXCEPT !.served = TRUE] \in calls'
    BY <2>1, <2>2
  <2> QED BY <1>2, <1>6, <2>3
<1>9. deleted' \in [GroupNames -> [EnvNames -> Left]]
  <2>1. deleted \in [GroupNames -> [EnvNames -> Left]]
    BY <1>1 DEF EnvRest
  <2>2. CASE c.op = "delete" /\ At(c) # None
    <3>1. PICK l : l = IF At(c).cluster = None THEN "unbound" ELSE "bound"
      OBVIOUS
    <3>2. l \in Left
      BY <3>1 DEF Left
    <3>3. deleted' = [deleted EXCEPT ![g][c.arg.env] = l]
      BY <1>3, <2>2, <3>1 DEF ServeEnv
    <3> QED BY <2>1, <3>2, <3>3
  <2>3. CASE ~ (c.op = "delete" /\ At(c) # None)
    BY <2>1, <2>3 DEF ServeEnv
  <2> QED BY <2>2, <2>3
<1>7. CASE c.op = "list"
  <2>1. Answer(c, s) /\ UNCHANGED stored
    BY <1>3, <1>4, <1>7 DEF ServeEnv
  <2>2. /\ stored' \in [GroupNames -> [EnvNames -> Env \union {None}]]
        /\ s = stored[c.arg.group] /\ c.op \notin EnvWrites
    BY <1>1, <1>3, <1>4, <1>7, <2>1 DEF EnvRest, EnvWrites
  <2> QED BY <1>1, <1>2, <1>9, <2>1, <2>2, EnvServed
<1>8. CASE c.op # "list"
  <2>1. PICK e \in EnvNames : e = c.arg.env
    BY <1>1, <1>8 DEF EnvCall
  <2>2. s[e] \in Env \union {None} /\ s[e] = At(c)
    BY <1>3, <1>4, <1>5, <2>1 DEF At
  <2>3. ASSUME "stray" \notin noted, e \notin noted
        PROVE  /\ g = view.group
               /\ c.op \in {"bind", "unbind"} => view.envs[e] # None /\ (Unlisted \/ Same(view, e))
    <3>1. c.op \in EnvWrites /\ WriteOf(c, e)
      BY <1>1, <1>8, <2>1 DEF EnvCall, WriteOf
    <3>2. OnlyWrite(e) /\ ShownOrAsked(e)
      BY <2>3 DEF EInv, AllKnown, Known
    <3>3. /\ c.heard /\ (c.op \in {"bind", "unbind"} => view.envs[e] # None)
          /\ \A d \in calls : d.op # "list" /\ (WriteOf(d, e) => d = c)
      BY <3>1, <3>2 DEF OnlyWrite
    <3>4. Unlisted \/ Same(view, e)
      BY <1>1, <3>2, <3>3 DEF ShownOrAsked
    <3>5. c.arg.group = view.group
      BY <2>3, <3>1, <3>3 DEF EInv, Straight
    <3> QED BY <1>3, <3>3, <3>4, <3>5
  <2>4. ASSUME NEW a, Answer(c, a), NEW new \in Env \union {None},
               Store(c, new) \/ (UNCHANGED stored /\ new = s[e]),
               "stray" \notin noted /\ e \notin noted' /\ a # None =>
                 /\ c.op = "put" => new = [info |-> c.arg.value, cluster |-> None]
                 /\ c.op = "delete" => new = None
                 /\ c.op \in {"bind", "unbind"} =>
                      Unlisted \/ new = [info |-> view.envs[e].info, cluster |-> c.arg.value]
        PROVE  EInv'
    <3>1. /\ stored' \in [GroupNames -> [EnvNames -> Env \union {None}]]
          /\ stored'[g][e] = new
          /\ \A h \in GroupNames, d \in EnvNames \ {e} : stored'[h][d] = stored[h][d]
      <4>1. CASE Store(c, new)
        BY <1>1, <1>3, <2>1, <2>4, <4>1, StoreFields
      <4>2. CASE UNCHANGED stored /\ new = s[e]
        BY <1>1, <1>4, <4>2 DEF EnvRest
      <4> QED BY <2>4, <4>1, <4>2
    <3>2. a = None => e \in noted'
      BY <1>6, <1>8, <2>1, <2>4
    <3>3. ASSUME "stray" \notin noted, e \notin noted'
          PROVE  a # None /\ Stored(c, e)'
      <4>1. a # None /\ e \notin noted
        BY <1>2, <3>2, <3>3
      <4>2. g = view.group
        BY <2>3, <3>3, <4>1
      <4>3. Stored(c, e)'
        <5>1. Unlisted => Unlisted'
          BY <1>2 DEF Unlisted
        <5> QED BY <1>1, <2>4, <3>1, <3>3, <4>1, <4>2, <5>1 DEF Stored
      <4> QED BY <4>1, <4>3
    <3>4. /\ c.op \in EnvWrites => \A h \in GroupNames, d \in EnvNames \ {c.arg.env} :
                                     stored'[h][d] = stored[h][d]
          /\ c.op \in EnvWrites /\ "stray" \notin noted /\ c.arg.env \notin noted' =>
               a # None /\ Stored(c, c.arg.env)'
      BY <2>1, <3>1, <3>3
    <3> QED BY <1>1, <1>2, <1>8, <1>9, <2>4, <3>1, <3>4, EnvServed
  <2>5. CASE c.op = "put"
    <3>1. ServePutEnv(c) /\ c.arg.value \in Infos
      BY <1>1, <1>8, <2>5 DEF ServeEnv, EnvCall
    <3>2. CASE s[e] = None /\ LeftOf(c) = "never"
      <4>1. PICK new : new = [info |-> c.arg.value, cluster |-> None]
        OBVIOUS
      <4>2. Store(c, new) /\ Answer(c, TRUE) /\ new \in Env
        BY <2>2, <3>1, <3>2, <4>1 DEF ServePutEnv, Env
      <4> QED BY <2>4, <2>5, <4>1, <4>2
    <3>4. CASE s[e] = None /\ LeftOf(c) # "never"
      <4>1. PICK a : a = IF LeftOf(c) = "unbound" THEN TRUE ELSE None
        OBVIOUS
      <4>2. UNCHANGED stored /\ Answer(c, a)
        BY <2>2, <3>1, <3>4, <4>1 DEF ServePutEnv
      <4>3. e \in noted'
        BY <1>2, <2>1, <2>2, <2>5, <3>4
      <4>4. PICK new \in Env \union {None} : new = s[e]
        BY <2>2
      <4> QED BY <2>4, <4>2, <4>3, <4>4
    <3>3. CASE s[e] # None
      <4>1. PICK new : new = [s[e] EXCEPT !.info = c.arg.value]
        OBVIOUS
      <4>2. PICK a : a = IF At(c).cluster = None THEN TRUE ELSE None
        OBVIOUS
      <4>3. Store(c, new) /\ Answer(c, a)
        BY <2>2, <3>1, <3>3, <4>1, <4>2 DEF ServePutEnv
      <4>4. s[e] \in Env
        BY <2>2, <3>3
      <4>5. new = [info |-> c.arg.value, cluster |-> s[e].cluster] /\ new \in Env
        BY <3>1, <4>1, <4>4 DEF Env
      <4>6. a # None => s[e].cluster = None
        BY <2>2, <4>2
      <4> QED BY <2>4, <2>5, <4>3, <4>5, <4>6
    <3> QED BY <3>2, <3>3, <3>4
  <2>6. CASE c.op = "delete"
    <3>1. Store(c, None) /\ Answer(c, TRUE)
      BY <1>8, <2>6 DEF ServeEnv
    <3> QED BY <2>4, <2>6, <3>1
  <2>7. CASE c.op \in {"bind", "unbind"}
    <3>1. ServeBind(c) /\ c.arg.value \in ClusterIDs \union {None}
      BY <1>1, <1>8, <2>7 DEF ServeEnv, EnvCall
    <3>2. CASE s[e] = None
      <4>1. UNCHANGED stored /\ Answer(c, None)
        BY <2>2, <3>1, <3>2 DEF ServeBind
      <4>2. PICK new \in Env \union {None} : new = s[e]
        BY <2>2
      <4> QED BY <2>4, <4>1, <4>2
    <3>3. CASE s[e] # None
      <4>1. PICK new : new = [s[e] EXCEPT !.cluster = c.arg.value]
        OBVIOUS
      <4>2. Store(c, new) /\ Answer(c, TRUE)
        BY <2>2, <3>1, <3>3, <4>1 DEF ServeBind
      <4>3. s[e] \in Env
        BY <2>2, <3>3
      <4>4. new = [info |-> s[e].info, cluster |-> c.arg.value] /\ new \in Env
        BY <3>1, <4>1, <4>3 DEF Env
      <4>5. "stray" \notin noted /\ e \notin noted' => Unlisted \/ s[e].info = view.envs[e].info
        BY <1>2, <1>4, <2>3, <2>7 DEF Same
      <4> QED BY <2>4, <2>7, <4>2, <4>4, <4>5
    <3> QED BY <3>2, <3>3
  <2> QED BY <1>1, <1>8, <2>5, <2>6, <2>7 DEF EnvCall, EnvWrites
<1> QED BY <1>7, <1>8

-----------------------------------------------------------------------------
(* The environments: what the user asks for.                                *)

LEMMA EnvAsked ==
  ASSUME EInv, NEW op \in EnvWrites, NEW from, NEW arg, AskEnv(op, from, arg),
         NEW g \in GroupNames, g = arg.group, NEW e \in EnvNames, e = arg.env,
         op = "put" => arg.value \in Infos,
         op \in {"bind", "unbind"} => arg.value \in ClusterIDs \union {None},
         op \in {"bind", "unbind"} => view.envs[e] # None,
         NEW u, u = Request(op, from, arg), Mounted(u, view)
  PROVE  EInv'
<1>1. /\ calls' = calls \union {u} /\ asked < MaxSent /\ asked' = asked + 1
      /\ noted' = noted \union Overlapping(arg)
      /\ UNCHANGED <<route, view, addsTo, stored, deleted, faults>>
  BY DEF AskEnv, Ask, SendAfter, envVars
<1>2. /\ u.op = op /\ u.from = from /\ u.arg = arg /\ ~ u.served /\ u.answer = None
      /\ u.heard /\ Shape(u)
  BY RequestFields
<1>3. EnvRest /\ AllEnvCalls /\ op # "list"
  BY DEF EInv, EnvWrites
<1>4. EnvCall(u)
  BY <1>2, <1>3 DEF EnvCall
<1>5. EnvRest' /\ AllEnvCalls'
  <2>1. asked' \in 0..MaxSent
    BY <1>1, <1>3, RequestsAssumption DEF EnvRest
  <2>2. \A d \in calls' : EnvCall(d)
    BY <1>1, <1>3, <1>4 DEF AllEnvCalls
  <2> QED BY <1>1, <1>3, <2>1, <2>2 DEF EnvRest, AllEnvCalls, EnvCall
<1>6. ASSUME "stray" \notin noted'
      PROVE  /\ "stray" \notin noted /\ g = route.group /\ g = view.group
             /\ \A d \in calls : d.op = "list" => d.arg.group = g
  <2>1. /\ arg.group = route.group /\ arg.group = view.group
        /\ \A d \in Requests({"list"}) : d.arg.group = arg.group
    BY <1>1, <1>6 DEF Overlapping
  <2> QED BY <1>1, <1>6, <2>1 DEF Requests
<1>7. ASSUME e \notin noted'
      PROVE  e \notin noted /\ \A d \in calls : d.op # "list" /\ ~ WriteOf(d, e)
  <2>1. Requests({"list"}) = {} /\ {d \in Requests(EnvWrites) : d.arg.env = arg.env} = {}
    BY <1>1, <1>7 DEF Overlapping
  <2> QED BY <1>1, <1>7, <2>1 DEF Requests, WriteOf
<1>8. Straight'
  <2> SUFFICES ASSUME "stray" \notin noted'
               PROVE  /\ \A d \in EnvNames : OfTheGroup(view, d)
                      /\ \A d \in calls' : d.op \in EnvWrites /\ d.heard =>
                           /\ d.arg.group = view.group /\ route.group = view.group
                           /\ \A w \in calls' : w.op = "list" => w.arg.group = view.group
    BY <1>1 DEF Straight, OfTheGroup
  <2>1. /\ \A d \in EnvNames : OfTheGroup(view, d)
        /\ \A d \in calls : d.op \in EnvWrites /\ d.heard => d.arg.group = view.group
    BY <1>6 DEF EInv, Straight
  <2> QED BY <1>1, <1>2, <1>3, <1>6, <2>1
<1>9. AllKnown'
  <2> SUFFICES ASSUME "stray" \notin noted', NEW f \in EnvNames, f \notin noted'
               PROVE  Known(f)'
    BY DEF AllKnown
  <2>1. /\ OnlyWrite(f) /\ ListsKnow(f) /\ ShownOrAsked(f)
    BY <1>1, <1>6 DEF EInv, AllKnown, Known
  <2>2. WriteOf(u, f) => f = e
    BY <1>2 DEF WriteOf
  <2>3. OnlyWrite(f)'
    <3> SUFFICES ASSUME NEW w \in calls', WriteOf(w, f)
                 PROVE  /\ w.heard /\ Mounted(w, view)
                        /\ w.op \in {"bind", "unbind"} => view.envs[f] # None
                        /\ w.served => w.answer # None /\ Stored(w, f)
                        /\ \A d \in calls' : d.op # "list" /\ (WriteOf(d, f) => d = w)
      BY <1>1 DEF OnlyWrite, WriteOf, Mounted, Stored, Unlisted
    <3>1. CASE w = u
      <4>1. \A d \in calls : d.op # "list" /\ ~ WriteOf(d, f)
        BY <1>7, <2>2, <3>1
      <4> QED BY <1>1, <1>2, <1>3, <2>2, <3>1, <4>1
    <3>2. CASE w # u
      <4>1. w \in calls
        BY <1>1, <3>2
      <4>2. /\ w.heard /\ Mounted(w, view) /\ (w.op \in {"bind", "unbind"} => view.envs[f] # None)
            /\ w.served => w.answer # None /\ Stored(w, f)
            /\ \A d \in calls : d.op # "list" /\ (WriteOf(d, f) => d = w)
        BY <2>1, <4>1 DEF OnlyWrite
      <4>3. ~ WriteOf(u, f)
        BY <1>7, <2>2, <4>1
      <4>4. \A d \in calls' : d.op # "list" /\ (WriteOf(d, f) => d = w)
        BY <1>1, <1>2, <1>3, <4>2, <4>3
      <4> QED BY <4>2, <4>4
    <3> QED BY <3>1, <3>2
  <2>4. ListsKnow(f)'
    BY <1>1, <1>2, <2>1 DEF ListsKnow
  <2>5. ShownOrAsked(f)'
    BY <1>1, <2>1 DEF ShownOrAsked, Same, WriteOf, Unlisted
  <2> QED BY <2>3, <2>4, <2>5 DEF Known
<1> QED BY <1>5, <1>8, <1>9 DEF EInv

(* The five buttons.                                                        *)
LEMMA EnvButton ==
  ASSUME EInv, NEW e \in EnvNames,
         \/ DeleteEnv(e) \/ Unbind(e)
         \/ \E i \in Infos : AddEnv(e, i) \/ EditEnv(e, i)
         \/ \E k \in ClusterIDs : Bind(e, k)
  PROVE  EInv'
<1>1. /\ addsTo \in GroupNames /\ view.group \in GroupNames
      /\ view.envs[e] # None => view.envs[e].as \in GroupNames
  <2>1. addsTo \in GroupNames /\ view.group \in GroupNames
        /\ view.envs[e] \in Item \union {None}
    BY DEF EInv, EnvRest
  <2>2. view.envs[e] \in Item => view.envs[e].as \in GroupNames
    BY DEF Item
  <2> QED BY <2>1, <2>2
<1>2. ASSUME NEW op \in EnvWrites, NEW from, NEW g \in GroupNames, NEW x,
             AskEnv(op, from, EnvArg(g, e, x)),
             op = "put" => x \in Infos,
             op \in {"bind", "unbind"} => x \in ClusterIDs \union {None},
             op \in {"bind", "unbind"} => view.envs[e] # None,
             \/ from = None
             \/ /\ view.envs[e] # None
                /\ op = "bind" => view.envs[e].cluster = None
                /\ op = "unbind" => view.envs[e].cluster # None
                /\ op \notin {"bind", "unbind"} => view.envs[e].of = from
      PROVE  EInv'
  <2>1. PICK arg : arg = EnvArg(g, e, x)
    OBVIOUS
  <2>2. arg.group = g /\ arg.env = e /\ arg.value = x
    BY <2>1, EnvArgFields
  <2>3. PICK u : u = Request(op, from, arg)
    OBVIOUS
  <2>4. u.op = op /\ u.from = from /\ u.arg = arg
    BY <2>3, RequestFields
  <2>5. u.arg.env = e
    BY <2>2, <2>4
  <2>6. Mounted(u, view)
    <3>1. CASE op = "bind"
      BY <1>2, <2>4, <2>5, <3>1 DEF Mounted
    <3>2. CASE op = "unbind"
      BY <1>2, <2>4, <2>5, <3>2 DEF Mounted
    <3>3. CASE op \notin {"bind", "unbind"}
      BY <1>2, <2>4, <2>5, <3>3 DEF Mounted
    <3> QED BY <3>1, <3>2, <3>3
  <2>7. AskEnv(op, from, arg)
    BY <1>2, <2>1
  <2> QED BY <1>2, <2>2, <2>3, <2>6, <2>7, EnvAsked
<1>3. CASE DeleteEnv(e)
  BY <1>1, <1>2, <1>3 DEF DeleteEnv, EnvWrites
<1>4. CASE Unbind(e)
  BY <1>1, <1>2, <1>4 DEF Unbind, EnvWrites
<1>5. ASSUME NEW i \in Infos, AddEnv(e, i) PROVE EInv'
  BY <1>1, <1>2, <1>5 DEF AddEnv, EnvWrites
<1>6. ASSUME NEW i \in Infos, EditEnv(e, i) PROVE EInv'
  <2>1. PICK g \in GroupNames : g = view.envs[e].as
    BY <1>1, <1>6 DEF EditEnv
  <2>2. view.envs[e] # None /\ AskEnv("put", view.envs[e].of, EnvArg(g, e, i))
    BY <1>6, <2>1 DEF EditEnv
  <2> QED BY <1>2, <2>2 DEF EnvWrites
<1>7. ASSUME NEW k \in ClusterIDs, Bind(e, k) PROVE EInv'
  BY <1>1, <1>2, <1>7 DEF Bind, EnvWrites
<1> QED BY <1>3, <1>4, <1>5, <1>6, <1>7

-----------------------------------------------------------------------------
(* The environments: a list is answered.                                    *)

LEMMA EnvsListedStep ==
  ASSUME EInv, NEW c \in calls, EnvsListed(c)
  PROVE  EInv'
<1>1. /\ c.op = "list" /\ c.served /\ EnvRest /\ AllEnvCalls /\ EnvCall(c)
      /\ UNCHANGED <<route, addsTo, stored, deleted, asked, faults>>
      /\ noted' = noted \ {"unlisted"} /\ ("stray" \in noted' <=> "stray" \in noted)
  BY DEF EInv, AllEnvCalls, EnvsListed, Heard
<1>2. PICK g \in GroupNames : g = c.arg.group
  BY <1>1 DEF EnvCall
<1>3. PICK s \in [EnvNames -> Env \union {None}] : s = c.answer
  BY <1>1 DEF EnvCall
<1>4. PICK by : by = [e \in EnvNames |-> IF view.envs[e] # None /\ view.envs[e].of = g
                                           THEN view.envs[e].as ELSE g]
  OBVIOUS
<1>5. \A e \in EnvNames : by[e] \in GroupNames /\ ("stray" \notin noted => by[e] = g)
  <2> SUFFICES ASSUME NEW e \in EnvNames
               PROVE  by[e] \in GroupNames /\ ("stray" \notin noted => by[e] = g)
    OBVIOUS
  <2>1. view.envs[e] \in Item \union {None}
    BY <1>1 DEF EnvRest
  <2>2. view.envs[e] \in Item => view.envs[e].as \in GroupNames
    BY DEF Item
  <2>3. "stray" \notin noted => OfTheGroup(view, e)
    BY DEF EInv, Straight
  <2>4. by[e] = IF view.envs[e] # None /\ view.envs[e].of = g THEN view.envs[e].as ELSE g
    BY <1>4
  <2> QED BY <2>1, <2>2, <2>3, <2>4 DEF OfTheGroup
<1>6. PICK i : i = [e \in EnvNames |-> IF s[e] = None THEN None ELSE ItemOf(s[e], g, by[e])]
  OBVIOUS
<1>7. /\ i \in [EnvNames -> Item \union {None}]
      /\ \A e \in EnvNames : i[e] = None <=> s[e] = None
      /\ \A e \in EnvNames : s[e] # None =>
           /\ i[e].of = g /\ i[e].as = by[e]
           /\ i[e].info = s[e].info /\ i[e].cluster = s[e].cluster
  <2>1. ASSUME NEW e \in EnvNames, s[e] # None
        PROVE  /\ i[e] \in Item /\ i[e] # None /\ i[e].of = g /\ i[e].as = by[e]
               /\ i[e].info = s[e].info /\ i[e].cluster = s[e].cluster
    <3>1. PICK env \in Env : env = s[e]
      BY <2>1
    <3>2. PICK b \in GroupNames : b = by[e]
      BY <1>5
    <3>3. PICK x : x = ItemOf(env, g, b)
      OBVIOUS
    <3>4. /\ x \in Item /\ x # None /\ x.of = g /\ x.as = b
          /\ x.info = env.info /\ x.cluster = env.cluster
      BY <3>3, ItemFields
    <3>5. i[e] = x
      BY <1>6, <2>1, <3>1, <3>2, <3>3
    <3> QED BY <3>1, <3>2, <3>4, <3>5
  <2>2. ASSUME NEW e \in EnvNames, s[e] = None PROVE i[e] = None
    BY <1>6, <2>2
  <2>3. \A e \in EnvNames : i[e] \in Item \union {None}
    BY <2>1, <2>2
  <2>4. i \in [EnvNames -> Item \union {None}]
    BY <1>6, <2>3
  <2> QED BY <2>1, <2>2, <2>4
<1>8. PICK v : v = [group |-> g, envs |-> i]
  OBVIOUS
<1>9. /\ v \in [group: GroupNames, envs: [EnvNames -> Item \union {None}]]
      /\ v.group = g /\ v.envs = i
  BY <1>7, <1>8, ViewFields
<1>10. Becomes(v, calls \ {c})
  <2>1. i = [e \in EnvNames |->
              IF c.answer[e] = None THEN None
              ELSE ItemOf(c.answer[e], c.arg.group,
                     IF view.envs[e] # None /\ view.envs[e].of = c.arg.group
                       THEN view.envs[e].as ELSE c.arg.group)]
    BY <1>2, <1>3, <1>4, <1>6
  <2>2. v = [group |-> c.arg.group, envs |-> i]
    BY <1>2, <1>8
  <2> QED BY <2>1, <2>2 DEF EnvsListed
<1>11. /\ view' = v
       /\ \A u \in calls' : \E d \in calls \ {c} : Stays(u, d) /\ (Mounted(d, v) => u = d)
       /\ \A d \in calls \ {c} : Mounted(d, v) => d \in calls'
  BY <1>1, <1>10, BecomesCalls
<1>12. EnvRest' /\ AllEnvCalls'
  <2>1. ASSUME NEW u \in calls' PROVE EnvCall(u)
    <3>1. PICK d \in calls : Stays(u, d) /\ (Mounted(d, v) => u = d)
      BY <1>11
    <3>2. EnvCall(d)
      BY <1>1 DEF AllEnvCalls
    <3> QED BY <3>1, <3>2, EnvCallStays, ListMounted
  <2> QED BY <1>1, <1>9, <1>11, <2>1 DEF EnvRest, AllEnvCalls, EnvCall
<1>13. Straight'
  <2> SUFFICES ASSUME "stray" \notin noted
               PROVE  /\ \A e \in EnvNames : OfTheGroup(v, e)
                      /\ \A u \in calls' : u.op \in EnvWrites /\ u.heard =>
                           /\ u.arg.group = v.group /\ route.group = v.group
                           /\ \A w \in calls' : w.op = "list" => w.arg.group = v.group
    BY <1>1, <1>11 DEF Straight, OfTheGroup
  <2>1. \A e \in EnvNames : OfTheGroup(v, e)
    BY <1>5, <1>7, <1>9 DEF OfTheGroup
  <2>2. ASSUME NEW u \in calls', u.op \in EnvWrites, u.heard
        PROVE  /\ u.arg.group = v.group /\ route.group = v.group
               /\ \A w \in calls' : w.op = "list" => w.arg.group = v.group
    <3>1. PICK d \in calls : Stays(u, d)
      BY <1>11
    <3>2. d.op \in EnvWrites /\ d.heard /\ u.arg = d.arg
      BY <2>2, <3>1 DEF Stays
    <3>3. /\ d.arg.group = view.group /\ route.group = view.group
          /\ \A w \in calls : w.op = "list" => w.arg.group = view.group
      BY <3>2 DEF EInv, Straight
    <3>4. view.group = g
      BY <1>1, <1>2, <3>3
    <3>5. ASSUME NEW w \in calls', w.op = "list" PROVE w.arg.group = g
      <4>1. PICK x \in calls : Stays(w, x)
        BY <1>11
      <4> QED BY <3>3, <3>4, <3>5, <4>1 DEF Stays
    <3> QED BY <1>9, <3>2, <3>3, <3>4, <3>5
  <2> QED BY <2>1, <2>2
<1>14. AllKnown'
  <2> SUFFICES ASSUME "stray" \notin noted, NEW e \in EnvNames, e \notin noted'
               PROVE  Known(e)'
    BY <1>1 DEF AllKnown
  <2>1. OnlyWrite(e) /\ ListsKnow(e)
    BY <1>1, EnvsAssumption DEF EInv, AllKnown, Known
  <2>2. \A d \in calls : ~ WriteOf(d, e)
    BY <1>1, <2>1 DEF OnlyWrite
  <2>3. OnlyWrite(e)'
    <3>1. \A u \in calls' : ~ WriteOf(u, e)
      BY <1>11, <2>2 DEF Stays, WriteOf
    <3> QED BY <3>1 DEF OnlyWrite, WriteOf
  <2>4. ListsKnow(e)'
    <3> SUFFICES ASSUME NEW u \in calls', u.op = "list", u.served
                 PROVE  u.answer[e] = stored[u.arg.group][e]
      BY <1>1 DEF ListsKnow
    <3>1. PICK d \in calls : Stays(u, d)
      BY <1>11
    <3> QED BY <2>1, <3>1 DEF ListsKnow, Stays
  <2>5. Same(view, e)'
    <3>1. s[e] = stored[g][e]
      BY <1>1, <1>2, <1>3, <2>1 DEF ListsKnow
    <3>2. s[e] # None => s[e] = [info |-> s[e].info, cluster |-> s[e].cluster]
      BY EnvFields
    <3> QED BY <1>1, <1>7, <1>9, <1>11, <3>1, <3>2 DEF Same
  <2> QED BY <2>3, <2>4, <2>5 DEF Known, ShownOrAsked
<1> QED BY <1>12, <1>13, <1>14 DEF EInv

-----------------------------------------------------------------------------
(* The environments: a page is left, and its writes are not waited for.     *)

LEMMA EnvsLeft ==
  ASSUME EInv, NEW more, calls' = Leave(calls) \union more,
         \A u \in more : u.op = "list" /\ ~ u.served /\ EnvCall(u),
         route' \in [group: GroupNames, at: {"list", "env"}], addsTo' = view.group,
         asked' \in 0..MaxSent,
         noted \subseteq noted', \A c \in Requests(EnvWrites) : c.arg.env \in noted',
         UNCHANGED <<view, stored, deleted, faults>>
  PROVE  EInv'
<1>1. EnvRest /\ AllEnvCalls
  BY DEF EInv
<1>2. Leave(calls) = {IF c.op # "list" THEN [c EXCEPT !.heard = FALSE] ELSE c : c \in calls}
  BY DEF Leave, Unheard
<1>3. ASSUME NEW u \in Leave(calls)
      PROVE  \E c \in calls : /\ Stays(u, c) /\ (c.op # "list" => ~ u.heard)
                              /\ (c.op = "list" => u = c)
  <2>1. PICK c \in calls : u = IF c.op # "list" THEN [c EXCEPT !.heard = FALSE] ELSE c
    BY <1>2, <1>3
  <2>2. Shape(c)
    BY <1>1 DEF AllEnvCalls, EnvCall
  <2>3. CASE c.op = "list"
    BY <2>1, <2>2, <2>3 DEF Stays
  <2>4. CASE c.op # "list"
    BY <2>1, <2>2, <2>4, UnheardFields
  <2> QED BY <2>3, <2>4
<1>4. \A c \in calls : c.op = "list" => c \in calls'
  BY <1>2
<1>5. EnvRest' /\ AllEnvCalls'
  <2>1. \A u \in Leave(calls) : EnvCall(u)
    BY <1>1, <1>3, EnvCallStays DEF AllEnvCalls
  <2>2. view.group \in GroupNames
    BY <1>1 DEF EnvRest
  <2> QED BY <1>1, <2>1, <2>2 DEF EnvRest, AllEnvCalls, EnvCall
<1>6. \A u \in calls' : u.op \in EnvWrites => ~ u.heard
  BY <1>3 DEF EnvWrites, Stays
<1>7. Straight'
  BY <1>6 DEF EInv, Straight, OfTheGroup
<1>8. AllKnown'
  <2> SUFFICES ASSUME "stray" \notin noted', NEW e \in EnvNames, e \notin noted'
               PROVE  Known(e)'
    BY DEF AllKnown
  <2>1. OnlyWrite(e) /\ ListsKnow(e) /\ ShownOrAsked(e)
    BY DEF EInv, AllKnown, Known
  <2>2. \A c \in calls : ~ WriteOf(c, e)
    BY DEF WriteOf, Requests
  <2>3. \A u \in calls' : ~ WriteOf(u, e)
    BY <1>3, <2>2 DEF WriteOf, EnvWrites, Stays
  <2>4. OnlyWrite(e)'
    BY <2>3 DEF OnlyWrite, WriteOf
  <2>5. ListsKnow(e)'
    <3> SUFFICES ASSUME NEW u \in calls', u.op = "list", u.served
                 PROVE  u.answer[e] = stored[u.arg.group][e]
      BY DEF ListsKnow
    <3>1. PICK c \in calls : Stays(u, c)
      BY <1>3
    <3> QED BY <2>1, <3>1 DEF ListsKnow, Stays
  <2>6. ShownOrAsked(e)'
    <3>1. CASE Same(view, e)
      BY <3>1 DEF ShownOrAsked, Same
    <3>2. CASE \E c \in calls : c.op = "list"
      BY <1>4, <3>2 DEF ShownOrAsked
    <3>3. Unlisted => Unlisted'
      BY DEF Unlisted
    <3> QED BY <2>1, <2>2, <3>1, <3>2, <3>3 DEF ShownOrAsked
  <2> QED BY <2>4, <2>5, <2>6 DEF Known
<1> QED BY <1>5, <1>7, <1>8 DEF EInv

LEMMA VisitStep ==
  ASSUME EInv, NEW at \in {"list", "env"}, Visit(at)
  PROVE  EInv'
<1>1. EnvRest
  BY DEF EInv
<1>2. /\ route' = [route EXCEPT !.at = at] /\ addsTo' = view.group
      /\ calls' = Leave(calls) \union {}
      /\ noted \subseteq noted' /\ \A c \in Requests(EnvWrites) : c.arg.env \in noted'
      /\ UNCHANGED <<view, stored, deleted, asked, faults>>
  BY DEF Visit
<1>3. route' \in [group: GroupNames, at: {"list", "env"}] /\ asked' \in 0..MaxSent
  BY <1>1, <1>2 DEF EnvRest
<1>4. PICK more : more = {}
  OBVIOUS
<1>5. calls' = Leave(calls) \union more /\ \A u \in more : u.op = "list" /\ ~ u.served /\ EnvCall(u)
  BY <1>2, <1>4
<1> QED BY <1>2, <1>3, <1>5, EnvsLeft

LEMMA SwitchGroupStep ==
  ASSUME EInv, NEW g \in GroupNames, SwitchGroup(g)
  PROVE  EInv'
<1>1. EnvRest
  BY DEF EInv
<1>2. PICK arg : arg = EnvArg(g, None, None)
  OBVIOUS
<1>3. PICK u : u = Request("list", None, arg)
  OBVIOUS
<1>4. /\ route' = [route EXCEPT !.group = g] /\ addsTo' = view.group
      /\ calls' = Leave(calls) \union {u}
      /\ noted \subseteq noted' /\ \A c \in Requests(EnvWrites) : c.arg.env \in noted'
      /\ asked < MaxSent /\ asked' = asked + 1
      /\ UNCHANGED <<view, stored, deleted, faults>>
  BY <1>2, <1>3 DEF SwitchGroup, SendAfter
<1>5. /\ u.op = "list" /\ u.from = None /\ u.arg = arg /\ ~ u.served /\ u.answer = None
      /\ u.heard /\ Shape(u)
  BY <1>3, RequestFields
<1>6. EnvCall(u)
  BY <1>2, <1>5, EnvArgFields DEF EnvCall, EnvWrites
<1>7. route' \in [group: GroupNames, at: {"list", "env"}] /\ asked' \in 0..MaxSent
  BY <1>1, <1>4, RequestsAssumption DEF EnvRest
<1>8. PICK more : more = {u}
  OBVIOUS
<1>9. calls' = Leave(calls) \union more /\ \A w \in more : w.op = "list" /\ ~ w.served /\ EnvCall(w)
  BY <1>4, <1>5, <1>6, <1>8
<1> QED BY <1>4, <1>7, <1>9, EnvsLeft

-----------------------------------------------------------------------------
(* The environments: the theorems.                                          *)

LEMMA EnvIgnoredStep ==
  ASSUME EInv, NEW c \in calls, Ignored(c), UNCHANGED envVars
  PROVE  EInv'
<1>1. /\ c.served /\ (c.answer = None \/ ~ c.heard) /\ calls' = calls \ {c}
      /\ UNCHANGED <<route, view, addsTo, stored, deleted, asked, faults, noted>>
  BY DEF Ignored, envVars
<1>2. EnvRest /\ AllEnvCalls /\ EnvCall(c)
  BY DEF EInv, AllEnvCalls
<1>3. c.op # "list"
  BY <1>1, <1>2, EnvThere DEF EnvCall
<1>4. EnvRest' /\ AllEnvCalls'
  BY <1>1, <1>2 DEF EnvRest, AllEnvCalls, EnvCall
<1>5. Straight'
  BY <1>1 DEF EInv, Straight, OfTheGroup
<1>6. AllKnown'
  <2> SUFFICES ASSUME "stray" \notin noted, NEW e \in EnvNames, e \notin noted
               PROVE  Known(e)'
    BY <1>1 DEF AllKnown
  <2>1. OnlyWrite(e) /\ ListsKnow(e) /\ ShownOrAsked(e)
    BY DEF EInv, AllKnown, Known
  <2>2. ~ WriteOf(c, e)
    BY <1>1, <2>1 DEF OnlyWrite
  <2>3. OnlyWrite(e)'
    BY <1>1, <2>1 DEF OnlyWrite, WriteOf, Mounted, Stored, Unlisted
  <2>4. ListsKnow(e)'
    BY <1>1, <2>1 DEF ListsKnow
  <2>5. ShownOrAsked(e)'
    <3>1. CASE Same(view, e)
      BY <1>1, <3>1 DEF ShownOrAsked, Same
    <3>2. CASE \E d \in calls : d.op = "list" \/ (WriteOf(d, e) /\ d.served)
      <4>1. PICK d \in calls : d.op = "list" \/ (WriteOf(d, e) /\ d.served)
        BY <3>2
      <4>2. d \in calls'
        BY <1>1, <1>3, <2>2, <4>1
      <4> QED BY <4>1, <4>2 DEF ShownOrAsked, WriteOf
    <3>3. Unlisted => Unlisted'
      BY <1>1 DEF Unlisted
    <3> QED BY <2>1, <3>1, <3>2, <3>3 DEF ShownOrAsked
  <2> QED BY <2>3, <2>4, <2>5 DEF Known
<1> QED BY <1>4, <1>5, <1>6 DEF EInv

LEMMA EnvsStart ==
  ASSUME EnvsInit
  PROVE  EInv
<1>1. PICK g \in GroupNames :
        /\ route \in [group: {g}, at: {"list", "env"}]
        /\ view = [group |-> g, envs |-> [e \in EnvNames |-> None]]
        /\ addsTo = g
        /\ stored \in [GroupNames -> [EnvNames -> Env \union {None}]]
        /\ deleted \in [GroupNames -> [EnvNames -> Left]]
        /\ RequestsInit(EnvArg(g, None, None))
  BY DEF EnvsInit
<1>2. PICK c : c = [op |-> "list", from |-> None, arg |-> EnvArg(g, None, None), n |-> 1,
                    served |-> FALSE, answer |-> None, heard |-> TRUE]
  OBVIOUS
<1>3. calls = {c} /\ asked = 0 /\ faults = 0 /\ noted = {}
  BY <1>1, <1>2 DEF RequestsInit
<1>4. /\ c.op = "list" /\ ~ c.served /\ c.answer = None /\ c.heard
      /\ c.arg.group = g /\ Shape(c)
  BY <1>2 DEF EnvArg, Shape
<1>5. PICK s : s = [e \in EnvNames |-> None]
  OBVIOUS
<1>6. /\ view \in [group: GroupNames, envs: [EnvNames -> Item \union {None}]]
      /\ view.group = g /\ view.envs = s
  BY <1>1, <1>5, ViewFields
<1>7. EnvRest
  <2>1. 0 \in 0..MaxSent /\ 0 \in 0..MaxFaults
    BY RequestsAssumption
  <2> QED BY <1>1, <1>3, <1>6, <2>1 DEF EnvRest
<1>8. AllEnvCalls
  BY <1>3, <1>4 DEF AllEnvCalls, EnvCall, EnvWrites
<1>9. \A d \in calls : d.op \notin EnvWrites
  BY <1>3, <1>4 DEF EnvWrites
<1>10. Straight
  BY <1>5, <1>6, <1>9 DEF Straight, OfTheGroup
<1>11. \A e \in EnvNames : OnlyWrite(e) /\ ListsKnow(e) /\ ShownOrAsked(e)
  BY <1>3, <1>4, <1>9 DEF OnlyWrite, ListsKnow, ShownOrAsked, WriteOf
<1> QED BY <1>7, <1>8, <1>10, <1>11 DEF EInv, AllKnown, Known

LEMMA AlwaysEInv == Spec => [](screen = "envs" => EInv)
<1>1. Init => (screen = "envs" => EInv)
  BY EnvsStart DEF Init
<1>2. (screen = "envs" => EInv) /\ [Next]_vars => (screen = "envs" => EInv)'
  <2>1. CASE UNCHANGED vars
    BY <2>1 DEF vars, envVars, requestVars, EInv, EnvRest, AllEnvCalls, EnvCall, Shape, Straight,
                OfTheGroup, AllKnown, Known, OnlyWrite, ListsKnow, ShownOrAsked, WriteOf, Mounted,
                Stored, Same, Unlisted
  <2>2. ASSUME EInv, EnvsNext PROVE EInv'
    BY <2>2, VisitStep, SwitchGroupStep, EnvButton, ServeEnvStep, LoseEnvStep, EnvsUnlistedStep,
       EnvsListedStep, EnvWriteAnswered, EnvIgnoredStep DEF EnvsNext, LoseEnv
  <2>3. CASE Next
    BY <2>2, <2>3 DEF Next
  <2> QED BY <2>1, <2>3
<1> QED BY <1>1, <1>2, PTL DEF Spec

(* Environments are shown, and their buttons address them, as those of the  *)
(* group they are of, however often the group is switched and in whatever   *)
(* order the lists arrive (GroupEnvContext, GroupEnvListItem).              *)
THEOREM EnvsStayApart == Spec => []EnvsOfTheirGroup
<1>1. (screen = "envs" => EInv) => EnvsOfTheirGroup
  BY DEF EInv, Straight, OfTheGroup, EnvsOfTheirGroup, EnvsOfOneGroup
<1> QED BY <1>1, AlwaysEInv, PTL

(* When everything is answered, the environments shown are those of the     *)
(* server, their clusters included, although a put, a deletion, a binding   *)
(* and a list each change what is shown in their own way (GroupEnvList,     *)
(* GroupEnvSubject): but for those of which two requests crossed, those     *)
(* put under the name of a deleted one, which the server keeps deleted, and *)
(* for a page whose list failed, until another arrives.                     *)
THEOREM EnvsAreTheServers == Spec => []EnvsShowTheServers
<1>1. ASSUME EInv PROVE EnvsAgree
  <2> SUFFICES ASSUME calls = {}, "stray" \notin noted, ~ Unlisted, NEW e \in EnvNames \ noted
               PROVE  IF view.envs[e] = None THEN stored[view.group][e] = None
                      ELSE stored[view.group][e]
                             = [info |-> view.envs[e].info, cluster |-> view.envs[e].cluster]
    BY DEF EnvsAgree, Unlisted
  <2>1. Same(view, e)
    BY <1>1 DEF EInv, AllKnown, Known, ShownOrAsked
  <2> QED BY <2>1 DEF Same
<1>2. (screen = "envs" => EInv) => EnvsShowTheServers
  BY <1>1 DEF EnvsShowTheServers
<1> QED BY <1>2, AlwaysEInv, PTL

-----------------------------------------------------------------------------
(* The versions: their rows.                                                *)

(* Among numbers, each place is that of one of them.                        *)
LEMMA Ranked ==
  ASSUME NEW S, IsFiniteSet(S), S \subseteq Nat, NEW k \in 1..Cardinality(S)
  PROVE  \E v \in S : Cardinality({w \in S : w > v}) = k - 1
<1>1. PICK n \in Nat : n = Cardinality(S)
  BY FS_CardinalityType
<1>2. PICK above : above = [v \in S |-> {w \in S : w > v}]
  OBVIOUS
<1>3. \A v \in S : /\ above[v] = {w \in S : w > v} /\ above[v] \in SUBSET (S \ {v})
                   /\ IsFiniteSet(above[v]) /\ Cardinality(above[v]) \in 0..(n - 1)
  <2> SUFFICES ASSUME NEW v \in S
               PROVE  /\ above[v] = {w \in S : w > v} /\ above[v] \in SUBSET (S \ {v})
                      /\ IsFiniteSet(above[v]) /\ Cardinality(above[v]) \in 0..(n - 1)
    OBVIOUS
  <2>1. above[v] = {w \in S : w > v} /\ above[v] \in SUBSET (S \ {v})
    BY <1>2
  <2>2. IsFiniteSet(S \ {v}) /\ Cardinality(S \ {v}) = n - 1
    BY <1>1, FS_RemoveElement
  <2>3. IsFiniteSet(above[v]) /\ Cardinality(above[v]) <= n - 1
    BY <2>1, <2>2, FS_Subset
  <2>4. Cardinality(above[v]) \in Nat
    BY <2>3, FS_CardinalityType
  <2> QED BY <2>1, <2>3, <2>4
<1>4. PICK rank : rank = [v \in S |-> Cardinality(above[v])]
  OBVIOUS
<1>5. ASSUME NEW v \in S, NEW w \in S, v < w
      PROVE  rank[v] # rank[w]
  <2>1. above[w] \in SUBSET above[v] /\ w \in above[v] /\ w \notin above[w]
    <3>1. v \in Nat /\ w \in Nat /\ \A x \in S : x \in Nat
      OBVIOUS
    <3>2. \A x \in S : x > w => x > v
      BY <1>5, <3>1
    <3>3. above[v] = {x \in S : x > v} /\ above[w] = {x \in S : x > w}
      BY <1>3
    <3>4. w > v /\ ~ (w > w)
      BY <1>5, <3>1
    <3>5. w \in above[v] /\ w \notin above[w]
      BY <3>3, <3>4
    <3>6. \A x \in above[w] : x \in above[v]
      BY <3>2, <3>3
    <3> QED BY <3>5, <3>6
  <2>2. Cardinality(above[w]) # Cardinality(above[v])
    BY <1>3, <2>1, FS_Subset
  <2> QED BY <1>4, <2>2
<1>6. \A v, w \in S : rank[v] = rank[w] => v = w
  <2> SUFFICES ASSUME NEW v \in S, NEW w \in S, v # w PROVE rank[v] # rank[w]
    OBVIOUS
  <2>1. v < w \/ w < v
    OBVIOUS
  <2> QED BY <1>5, <2>1
<1>7. SUFFICES ASSUME \A v \in S : rank[v] # k - 1 PROVE FALSE
  BY <1>3, <1>4
<1>8. PICK T : T = (0..(n - 1)) \ {k - 1}
  OBVIOUS
<1>9. rank \in [S -> T]
  BY <1>3, <1>4, <1>7, <1>8
<1>10. IsFiniteSet(T) /\ Cardinality(T) < Cardinality(S)
  <2>1. k \in 1..n
    BY <1>1
  <2>2. IsFiniteSet(0..(n - 1)) /\ Cardinality(0..(n - 1)) = n
    <3>1. PICK m : m = n - 1
      OBVIOUS
    <3>2. m \in Int /\ ~ (0 > m) /\ m - 0 + 1 = n
      BY <2>1, <3>1
    <3>3. IsFiniteSet(0..m) /\ Cardinality(0..m) = IF 0 > m THEN 0 ELSE m - 0 + 1
      <4>1. \A a, b \in Int : IsFiniteSet(a..b) /\ Cardinality(a..b) = IF a > b THEN 0 ELSE b - a + 1
        BY FS_Interval
      <4> QED BY <3>2, <4>1
    <3> QED BY <3>1, <3>2, <3>3
  <2>3. IsFiniteSet(T) /\ Cardinality(T) = n - 1
    <3>1. PICK D : D = 0..(n - 1)
      OBVIOUS
    <3>2. PICK x : x = k - 1
      OBVIOUS
    <3>3. T = D \ {x} /\ x \in D /\ IsFiniteSet(D) /\ Cardinality(D) = n
      BY <1>8, <2>1, <2>2, <3>1, <3>2
    <3>4. IsFiniteSet(D \ {x}) /\ Cardinality(D \ {x}) = Cardinality(D) - 1
      BY <3>3, FS_RemoveElement
    <3> QED BY <3>3, <3>4
  <2> QED BY <1>1, <2>3
<1>11. \E x, y \in S : x # y /\ rank[x] = rank[y]
  BY <1>9, <1>10, FS_PigeonHole, Zenon
<1> QED BY <1>6, <1>11

(* The rows are versions of the table.                                      *)
LEMMA RowsThere ==
  ASSUME NEW table, NEW input
  PROVE  /\ RowsOf(table, input) \in Seq(Versions)
         /\ Len(RowsOf(table, input)) \in 0..Cardinality(Versions)
         /\ Cardinality(Versions) \in Nat
         /\ DOMAIN RowsOf(table, input) = 1..Len(RowsOf(table, input))
<1>1. PICK left : left = {v \in Versions : table[v] # None /\ input \in {None, v}}
  OBVIOUS
<1>2. left \in SUBSET Versions /\ left \subseteq Nat
  BY <1>1, VersionsAssumption
<1>3. IsFiniteSet(left) /\ Cardinality(left) <= Cardinality(Versions)
  BY <1>2, FS_Subset, VersionsAssumption
<1>4. PICK n \in Nat : n = Cardinality(left)
  BY <1>3, FS_CardinalityType
<1>5. Cardinality(Versions) \in Nat
  BY FS_CardinalityType, VersionsAssumption
<1>6. PICK r : r = [row \in 1..n |->
                      CHOOSE v \in left : Cardinality({w \in left : w > v}) = row - 1]
  OBVIOUS
<1>7. RowsOf(table, input) = r
  BY <1>1, <1>4, <1>6 DEF RowsOf
<1>8. ASSUME NEW row \in 1..n PROVE r[row] \in Versions
  <2>1. \E v \in left : Cardinality({w \in left : w > v}) = row - 1
    BY <1>2, <1>3, <1>4, Ranked
  <2>2. r[row] = CHOOSE v \in left : Cardinality({w \in left : w > v}) = row - 1
    BY <1>6
  <2>3. r[row] \in left
    BY <2>1, <2>2
  <2> QED BY <1>2, <2>3
<1>9. r \in [1..n -> Versions]
  BY <1>6, <1>8
<1>10. r \in Seq(Versions) /\ Len(r) = n /\ DOMAIN r = 1..n
  BY <1>9
<1> QED BY <1>3, <1>4, <1>5, <1>7, <1>10

-----------------------------------------------------------------------------
(* The versions: the inductive invariant.                                   *)

VersionRest ==
  /\ published \in [Stages -> Table] /\ versions \in Table
  /\ filter \in [channel: Stages, input: Versions \union {None}]
  /\ dialog \in Dialogs \union {None}
  /\ dialog # None /\ dialog.op = "publish" => dialog.to \in Stages
  /\ asked \in 0..MaxSent /\ faults \in 0..MaxFaults

VersionCall(c) ==
  /\ Shape(c) /\ c.op \in {"list"} \union VersionWrites /\ c.arg.channel \in Stages
  /\ ~ c.served => c.answer = None
  /\ c.op = "list" => c.heard /\ (c.served => c.answer \in Table)
  /\ c.op \in VersionWrites =>
       c.arg.version \in Versions /\ c.arg.revision \in Revisions \union {None}
AllVersionCalls == \A c \in calls : VersionCall(c)

(* The prompt, and the writes that are waited for, are of rows there are.   *)
OfRows ==
  /\ dialog # None => dialog.row \in DOMAIN Rows
  /\ \A c \in calls : c.op \in VersionWrites /\ c.heard => c.from \in DOMAIN Rows

(* As long as there is one request at a time, a list is of the channel and  *)
(* says what the server has, a row that is deleted is that of the version,  *)
(* and what is published is of another channel; what is shown is what the   *)
(* server has unless a list is asked for, or failed, or a deletion is to be *)
(* answered.                                                                *)
Calm == noted \intersect {"crossed", "overtaken", "between"} = {}
InTurn(c) ==
  /\ c.heard /\ (c.served => c.answer # None)
  /\ c.op = "list" =>
       c.arg.channel = filter.channel /\ (c.served => c.answer = published[filter.channel])
  /\ c.op = "delete" =>
       /\ c.arg.channel = filter.channel /\ c.arg.version = Rows[c.from]
       /\ c.served => \/ Unlisted
                      \/ published[filter.channel] = [versions EXCEPT ![c.arg.version] = None]
  /\ c.op = "publish" => c.arg.channel # filter.channel
OneByOne ==
  Calm =>
    /\ \A c, d \in calls : c = d
    /\ \A c \in calls : InTurn(c)
    /\ \/ Unlisted \/ versions = published[filter.channel]
       \/ \E c \in calls : c.op = "list" \/ (c.op = "delete" /\ c.served)
    /\ dialog # None /\ dialog.op = "publish" => dialog.to # filter.channel

VInv == VersionRest /\ AllVersionCalls /\ OfRows /\ OneByOne

LEMMA NoTable ==
  /\ None \notin Table /\ TRUE # None /\ \A t \in Table : t # None
BY VersionsAssumption

LEMMA StagesAre ==
  /\ Stages \subseteq Nat /\ 1 \in Stages
<1>1. PICK n \in Nat : DOMAIN Channels = 1..n /\ n = Len(Channels)
  BY VersionsAssumption
<1>2. n # 0
  <2>1. Channels # <<>> /\ Channels \in Seq(Range(Channels))
    BY VersionsAssumption
  <2> QED BY <1>1, <2>1
<1> QED BY <1>1, <1>2 DEF Stages

LEMMA OfFields ==
  ASSUME NEW ch, NEW a, a = Of(ch)
  PROVE  a.channel = ch
BY DEF Of

LEMMA DialogFields ==
  ASSUME NEW op \in VersionWrites, NEW row \in 1..Cardinality(Versions),
         NEW to \in Stages \union {None},
         NEW d, d = [op |-> op, row |-> row, to |-> to]
  PROVE  d \in Dialogs /\ d.op = op /\ d.row = row /\ d.to = to
BY DEF Dialogs, VersionWrites

(* A request left by Keep, Filter and Fold.                                 *)
KeptFrom(u, c) == Stays(u, c) /\ (c.op = "list" => u = c)

LEMMA KeptOne ==
  ASSUME NEW c, VersionCall(c), NEW n, NEW u,
         u = IF c.op # "list" /\ c.from > n THEN [c EXCEPT !.heard = FALSE] ELSE c
  PROVE  KeptFrom(u, c) /\ VersionCall(u) /\ (c.op # "list" /\ c.from > n => ~ u.heard)
<1>1. Shape(c)
  BY DEF VersionCall
<1>2. CASE c.op # "list" /\ c.from > n
  <2>1. u = [c EXCEPT !.heard = FALSE]
    BY <1>2
  <2>2. Stays(u, c) /\ ~ u.heard
    BY <1>1, <2>1, UnheardFields
  <2> QED BY <1>2, <2>2 DEF KeptFrom, VersionCall, Stays
<1>3. CASE ~ (c.op # "list" /\ c.from > n)
  <2>1. u = c
    BY <1>3
  <2> QED BY <1>1, <1>3, <2>1 DEF KeptFrom, Stays
<1> QED BY <1>2, <1>3

LEMMA FoldedOne ==
  ASSUME NEW c, VersionCall(c), NEW u,
         u = IF c.op # "list" THEN [c EXCEPT !.heard = FALSE] ELSE c
  PROVE  KeptFrom(u, c) /\ VersionCall(u)
<1>1. Shape(c)
  BY DEF VersionCall
<1>2. CASE c.op # "list"
  <2>1. u = [c EXCEPT !.heard = FALSE]
    BY <1>2
  <2>2. Stays(u, c)
    BY <1>1, <2>1, UnheardFields
  <2> QED BY <1>2, <2>2 DEF KeptFrom, VersionCall, Stays
<1>3. CASE c.op = "list"
  BY <1>1, <1>3 DEF KeptFrom, Stays
<1> QED BY <1>2, <1>3

-----------------------------------------------------------------------------
(* The versions: the filter and the prompts.                                *)

LEMMA FilterStep ==
  ASSUME VInv, NEW f \in [channel: Stages, input: Versions \union {None}], Filter(f)
  PROVE  VInv'
<1>1. PICK n : n = Len(RowsOf(versions, f.input))
  OBVIOUS
<1>2. PICK left : left = Unheard(calls, LAMBDA c : c.op # "list" /\ c.from > n)
  OBVIOUS
<1>3. PICK arg : arg = Of(f.channel)
  OBVIOUS
<1>4. PICK u : u = Request("list", None, arg)
  OBVIOUS
<1>5. /\ dialog = None /\ asked < MaxSent /\ asked' = asked + 1 /\ filter' = f
      /\ calls' = left \union {u}
      /\ noted' = noted \union ((IF Requests({"list"}) # {} THEN {"overtaken"} ELSE {})
                                \union (IF Requests(VersionWrites) # {} THEN {"crossed"} ELSE {}))
      /\ UNCHANGED <<published, versions, dialog, faults>>
  BY <1>1, <1>2, <1>3, <1>4 DEF Filter, SendAfter, Note
<1>6. /\ u.op = "list" /\ u.arg = arg /\ ~ u.served /\ u.answer = None /\ u.heard /\ Shape(u)
  BY <1>4, RequestFields
<1>7. f.channel \in Stages /\ arg.channel = f.channel
  BY <1>3, OfFields
<1>8. VersionCall(u)
  BY <1>6, <1>7 DEF VersionCall, VersionWrites
<1>9. VersionRest /\ AllVersionCalls /\ OfRows /\ OneByOne
  BY DEF VInv
<1>10. ASSUME NEW w \in left
       PROVE  /\ \E c \in calls : KeptFrom(w, c) /\ (c.op # "list" /\ c.from > n => ~ w.heard)
              /\ VersionCall(w)
  <2>1. PICK c \in calls :
          w = IF c.op # "list" /\ c.from > n THEN [c EXCEPT !.heard = FALSE] ELSE c
    BY <1>2, <1>10 DEF Unheard
  <2>2. VersionCall(c)
    BY <1>9 DEF AllVersionCalls
  <2> QED BY <2>1, <2>2, KeptOne
<1>11. VersionRest' /\ AllVersionCalls'
  <2>1. asked' \in 0..MaxSent
    BY <1>5, <1>9, RequestsAssumption DEF VersionRest
  <2>2. \A w \in calls' : VersionCall(w)
    BY <1>5, <1>8, <1>10
  <2> QED BY <1>5, <1>9, <2>1, <2>2 DEF VersionRest, AllVersionCalls, VersionCall
<1>12. OfRows'
  <2>1. Rows' = RowsOf(versions, f.input)
    BY <1>5 DEF Rows
  <2>2. DOMAIN RowsOf(versions, f.input) = 1..n /\ n \in Nat
    BY <1>1, RowsThere
  <2>3. ASSUME NEW w \in calls', w.op \in VersionWrites, w.heard PROVE w.from \in 1..n
    <3>1. w \in left
      BY <1>5, <1>6, <2>3 DEF VersionWrites
    <3>2. PICK c \in calls : Stays(w, c) /\ (c.op # "list" /\ c.from > n => ~ w.heard)
      BY <1>10, <3>1 DEF KeptFrom
    <3>3. c.from \in DOMAIN Rows /\ c.op # "list"
      BY <1>9, <2>3, <3>2 DEF OfRows, Stays, VersionWrites
    <3>4. c.from \in Nat /\ c.from >= 1
      BY <3>3, RowsThere DEF Rows
    <3> QED BY <2>2, <2>3, <3>2, <3>3, <3>4 DEF Stays
  <2> QED BY <1>5, <2>1, <2>2, <2>3 DEF OfRows
<1>14. OneByOne'
  <2> SUFFICES ASSUME Calm' PROVE OneByOne'
    BY DEF OneByOne
  <2>1. Requests({"list"}) = {} /\ Requests(VersionWrites) = {}
    BY <1>5 DEF Calm
  <2>2. calls = {}
    BY <1>9, <2>1 DEF AllVersionCalls, VersionCall, Requests
  <2>3. calls' = {u}
    BY <1>5, <1>10, <2>2
  <2>4. InTurn(u)'
    BY <1>5, <1>6, <1>7 DEF InTurn
  <2> QED BY <1>5, <1>6, <2>3, <2>4 DEF OneByOne
<1> QED BY <1>11, <1>12, <1>14 DEF VInv

(* The channels and what is typed.                                          *)
LEMMA FilteredStep ==
  ASSUME VInv, \/ \E ch \in Stages : SwitchChannel(ch)
               \/ \E v \in Versions \union {None} : Type(v)
  PROVE  VInv'
<1>1. filter \in [channel: Stages, input: Versions \union {None}]
  BY DEF VInv, VersionRest
<1>2. ASSUME NEW ch \in Stages, SwitchChannel(ch) PROVE VInv'
  BY <1>2, FilterStep DEF SwitchChannel
<1>3. ASSUME NEW v \in Versions \union {None}, Type(v) PROVE VInv'
  <2>1. PICK f : f = [filter EXCEPT !.input = v]
    OBVIOUS
  <2>2. f \in [channel: Stages, input: Versions \union {None}] /\ Filter(f)
    BY <1>1, <1>3, <2>1 DEF Type
  <2> QED BY <2>2, FilterStep
<1> QED BY <1>2, <1>3

LEMMA FoldStep ==
  ASSUME VInv, Fold
  PROVE  VInv'
<1>1. PICK left : left = Unheard(calls, LAMBDA c : c.op # "list")
  OBVIOUS
<1>2. /\ dialog = None /\ calls' = left /\ noted' = noted \union {"crossed"}
      /\ UNCHANGED <<published, filter, versions, dialog, asked, faults>>
  BY <1>1 DEF Fold, Note, versionVars
<1>3. VersionRest /\ AllVersionCalls /\ OfRows
  BY DEF VInv
<1>4. ASSUME NEW w \in left PROVE (\E c \in calls : KeptFrom(w, c)) /\ VersionCall(w)
  <2>1. PICK c \in calls : w = IF c.op # "list" THEN [c EXCEPT !.heard = FALSE] ELSE c
    BY <1>1, <1>4 DEF Unheard
  <2>2. VersionCall(c)
    BY <1>3 DEF AllVersionCalls
  <2> QED BY <2>1, <2>2, FoldedOne
<1>5. VersionRest' /\ AllVersionCalls'
  BY <1>2, <1>3, <1>4 DEF VersionRest, AllVersionCalls, VersionCall
<1>6. OfRows'
  <2>1. Rows' = Rows
    BY <1>2 DEF Rows
  <2>2. ASSUME NEW w \in calls', w.op \in VersionWrites, w.heard PROVE w.from \in DOMAIN Rows
    <3>1. PICK c \in calls : Stays(w, c)
      BY <1>2, <1>4 DEF KeptFrom
    <3> QED BY <1>3, <2>2, <3>1 DEF OfRows, Stays
  <2> QED BY <1>2, <2>1, <2>2 DEF OfRows
<1>8. OneByOne'
  BY <1>2 DEF OneByOne, Calm
<1> QED BY <1>5, <1>6, <1>8 DEF VInv

LEMMA OpenStep ==
  ASSUME VInv, NEW row \in 1..Cardinality(Versions),
         OpenDelete(row) \/ \E to \in Stages : OpenPublish(row, to)
  PROVE  VInv'
<1>1. PICK op \in VersionWrites, to \in Stages \union {None} :
        /\ Open(op, row, to)
        /\ op = "publish" => to \in Stages /\ to > filter.channel
  BY DEF OpenDelete, OpenPublish, VersionWrites
<1>2. /\ VersionRest /\ AllVersionCalls /\ OfRows /\ OneByOne
  BY DEF VInv
<1>3. PICK d : d = [op |-> op, row |-> row, to |-> to]
  OBVIOUS
<1>4. /\ row \in DOMAIN Rows /\ dialog' = d
      /\ UNCHANGED <<published, filter, versions, calls, asked, faults, noted>>
  BY <1>1, <1>3 DEF Open
<1>5. Rows' = Rows
  BY <1>4 DEF Rows
<1>8. d \in Dialogs /\ d.op = op /\ d.row = row /\ d.to = to
  BY <1>3, DialogFields
<1>9. VersionRest' /\ AllVersionCalls'
  BY <1>1, <1>2, <1>4, <1>8 DEF VersionRest, AllVersionCalls, VersionCall
<1>10. OfRows'
  BY <1>2, <1>4, <1>5, <1>8 DEF OfRows
<1>12. OneByOne'
  <2> SUFFICES ASSUME Calm' PROVE OneByOne'
    BY DEF OneByOne
  <2>1. Calm
    BY <1>4 DEF Calm
  <2>2. filter.channel \in Nat
    BY <1>2, StagesAre DEF VersionRest
  <2>3. d.op = "publish" => d.to # filter.channel
    BY <1>1, <1>8, <2>2, StagesAre
  <2>4. \A c \in calls : InTurn(c)'
    BY <1>2, <1>4, <1>5, <2>1 DEF OneByOne, InTurn, Unlisted
  <2> QED BY <1>2, <1>4, <2>1, <2>3, <2>4 DEF OneByOne, Unlisted
<1> QED BY <1>9, <1>10, <1>12 DEF VInv

LEMMA CancelVersion ==
  ASSUME VInv, Cancel
  PROVE  VInv'
<1>1. /\ dialog' = None
      /\ UNCHANGED <<published, filter, versions, calls, asked, faults, noted>>
  BY DEF Cancel, requestVars
<1>2. /\ VersionRest /\ AllVersionCalls /\ OfRows /\ OneByOne
  BY DEF VInv
<1>3. Rows' = Rows
  BY <1>1 DEF Rows
<1>4. VersionRest' /\ AllVersionCalls'
  BY <1>1, <1>2 DEF VersionRest, AllVersionCalls, VersionCall
<1>5. OfRows'
  BY <1>1, <1>2, <1>3 DEF OfRows
<1>6. OneByOne'
  BY <1>1, <1>2, <1>3 DEF OneByOne, Calm, InTurn, Unlisted
<1> QED BY <1>4, <1>5, <1>6 DEF VInv

(* What is asked for when a prompt is confirmed.                            *)
LEMMA VersionArgFields ==
  ASSUME NEW ch, NEW v, NEW r, NEW a,
         a = [channel |-> ch, version |-> v, revision |-> r]
  PROVE  a.channel = ch /\ a.version = v /\ a.revision = r
OBVIOUS

LEMMA ConfirmStep ==
  ASSUME VInv, Confirm
  PROVE  VInv'
<1>1. /\ VersionRest /\ AllVersionCalls /\ OfRows /\ OneByOne
  BY DEF VInv
<1>2. PICK op, from, to : op = dialog.op /\ from = dialog.row /\ to = dialog.to
  OBVIOUS
<1>3. PICK v : v = Rows[from]
  OBVIOUS
<1>4. PICK ch : ch = IF op = "delete" THEN filter.channel ELSE to
  OBVIOUS
<1>5. PICK r : r = versions[v]
  OBVIOUS
<1>6. PICK a : a = [channel |-> ch, version |-> v, revision |-> r]
  OBVIOUS
<1>7. PICK u : u = Request(op, from, a)
  OBVIOUS
<1>8. /\ dialog # None /\ dialog' = None /\ asked < MaxSent /\ asked' = asked + 1
      /\ calls' = calls \union {u}
      /\ noted' = noted \union ((IF Requests(VersionWrites) = {} THEN {} ELSE {"crossed"})
                                \union (IF Requests({"list"}) = {} THEN {} ELSE {"between"}))
      /\ UNCHANGED <<published, filter, versions, faults>>
  BY <1>2, <1>3, <1>4, <1>5, <1>6, <1>7 DEF Confirm, Ask, SendAfter, Note
<1>9. /\ u.op = op /\ u.from = from /\ u.arg = a /\ ~ u.served /\ u.answer = None /\ u.heard
      /\ Shape(u)
  BY <1>7, RequestFields
<1>10. a.channel = ch /\ a.version = v /\ a.revision = r
  BY <1>6, VersionArgFields
<1>11. /\ op \in VersionWrites /\ (op = "publish" => to \in Stages) /\ filter.channel \in Stages
       /\ versions \in Table
  BY <1>1, <1>2, <1>8 DEF VersionRest, Dialogs, VersionWrites
<1>12. from \in DOMAIN Rows /\ v \in Versions
  <2>1. from \in DOMAIN Rows
    BY <1>1, <1>2, <1>8 DEF OfRows
  <2> QED BY <1>3, <2>1, RowsThere DEF Rows
<1>13. Rows' = Rows
  BY <1>8 DEF Rows
<1>14. VersionCall(u)
  <2>1. ch \in Stages
    BY <1>4, <1>11 DEF VersionWrites
  <2>2. r \in Revisions \union {None}
    BY <1>5, <1>11, <1>12 DEF Table
  <2>3. u.op # "list"
    BY <1>9, <1>11 DEF VersionWrites
  <2> QED BY <1>9, <1>10, <1>11, <1>12, <2>1, <2>2, <2>3 DEF VersionCall
<1>15. VersionRest' /\ AllVersionCalls'
  <2>1. asked' \in 0..MaxSent
    BY <1>1, <1>8, RequestsAssumption DEF VersionRest
  <2> QED BY <1>1, <1>8, <1>14, <2>1 DEF VersionRest, AllVersionCalls, VersionCall
<1>16. OfRows'
  BY <1>1, <1>8, <1>9, <1>12, <1>13 DEF OfRows
<1>18. OneByOne'
  <2> SUFFICES ASSUME Calm' PROVE OneByOne'
    BY DEF OneByOne
  <2>1. Requests({"list"}) = {} /\ Requests(VersionWrites) = {} /\ Calm
    BY <1>8 DEF Calm
  <2>2. calls = {}
    BY <1>1, <2>1 DEF AllVersionCalls, VersionCall, Requests
  <2>3. calls' = {u}
    BY <1>8, <2>2
  <2>4. /\ Unlisted \/ versions = published[filter.channel]
        /\ op = "publish" => to # filter.channel
    BY <1>1, <1>2, <1>8, <2>1, <2>2 DEF OneByOne
  <2>5. InTurn(u)'
    <3>1. u.op # "list"
      BY <1>9, <1>11 DEF VersionWrites
    <3> QED BY <1>3, <1>4, <1>8, <1>9, <1>10, <1>13, <2>4, <3>1 DEF InTurn
  <2>6. Unlisted => Unlisted'
    BY <1>8 DEF Unlisted
  <2> QED BY <1>8, <2>3, <2>4, <2>5, <2>6 DEF OneByOne
<1> QED BY <1>15, <1>16, <1>18 DEF VInv

-----------------------------------------------------------------------------
(* The versions: the server.                                                *)

LEMMA TablePut ==
  ASSUME NEW t \in Table, NEW v \in Versions, NEW x \in Revisions \union {None}
  PROVE  [t EXCEPT ![v] = x] \in Table
BY DEF Table

(* An answer leaves the rows, and what waits for them, as they are.         *)
LEMMA AnsweredVersion ==
  ASSUME VInv, NEW c \in calls, NEW u, VersionCall(u),
         calls' = (calls \ {c}) \union {u}, UNCHANGED <<filter, versions, dialog, asked>>,
         u.op = c.op, u.from = c.from, u.arg = c.arg, u.heard => c.heard,
         noted \subseteq noted'
  PROVE  AllVersionCalls' /\ OfRows'
<1>1. /\ AllVersionCalls /\ OfRows
  BY DEF VInv
<1>2. Rows' = Rows
  BY DEF Rows
<1>3. AllVersionCalls'
  BY <1>1 DEF AllVersionCalls, VersionCall
<1>4. OfRows'
  BY <1>1, <1>2 DEF OfRows
<1> QED BY <1>3, <1>4

LEMMA ServeVersionsStep ==
  ASSUME VInv, NEW c \in calls, ServeVersions(c)
  PROVE  VInv'
<1>1. /\ VersionRest /\ AllVersionCalls /\ OfRows /\ OneByOne
  BY DEF VInv
<1>2. /\ ~ c.served /\ UNCHANGED <<filter, versions, dialog, asked, faults, noted>>
  BY DEF ServeVersions
<1>3. VersionCall(c) /\ Shape(c)
  BY <1>1 DEF AllVersionCalls, VersionCall
<1>4. PICK arg : arg = c.arg
  OBVIOUS
<1>5. PICK ch, v, x : ch = arg.channel /\ v = arg.version /\ x = arg.revision
  OBVIOUS
<1>6. /\ ch \in Stages
      /\ c.op \in VersionWrites => v \in Versions /\ x \in Revisions \union {None}
  BY <1>3, <1>4, <1>5 DEF VersionCall
<1>7. filter.channel \in Stages /\ versions \in Table
  BY <1>1 DEF VersionRest
<1>8. Rows' = Rows
  BY <1>2 DEF Rows
<1>9. ASSUME NEW a, a # None, Answer(c, a), c.op = "list" => a \in Table
      PROVE  \E u :
               /\ calls' = (calls \ {c}) \union {u} /\ VersionCall(u)
               /\ u.op = c.op /\ u.from = c.from /\ u.arg = arg /\ u.served
               /\ u.answer = a /\ (u.heard <=> c.heard)
               /\ AllVersionCalls' /\ OfRows'
  <2>1. PICK u :
          /\ calls' = (calls \ {c}) \union {u}
          /\ u.op = c.op /\ u.from = c.from /\ u.arg = c.arg /\ u.served
          /\ u.answer = a /\ (u.heard <=> c.heard) /\ Shape(u)
    BY <1>3, <1>9, AnsweredCalls
  <2>2. VersionCall(u)
    BY <1>3, <1>9, <2>1 DEF VersionCall
  <2>3. AllVersionCalls' /\ OfRows'
    BY <1>2, <2>1, <2>2, AnsweredVersion
  <2> QED BY <1>4, <2>1, <2>2, <2>3
<1>14. Unlisted => Unlisted'
  BY <1>2 DEF Unlisted
<1>10. ASSUME Calm
       PROVE  /\ calls = {c} /\ InTurn(c)
              /\ c.op # "list" => Unlisted \/ versions = published[filter.channel]
              /\ dialog # None /\ dialog.op = "publish" => dialog.to # filter.channel
  <2>1. \A d \in calls : d = c
    BY <1>1, <1>10 DEF OneByOne
  <2>2. calls = {c}
    BY <2>1
  <2>3. c.op # "list" => Unlisted \/ versions = published[filter.channel]
    BY <1>1, <1>2, <1>10, <2>2 DEF OneByOne
  <2> QED BY <1>1, <1>10, <2>2, <2>3 DEF OneByOne
<1>11. CASE c.op = "list"
  <2>1. PICK a : a = published[ch]
    OBVIOUS
  <2>2. UNCHANGED published /\ Answer(c, a) /\ a \in Table /\ a # None
    BY <1>1, <1>4, <1>5, <1>6, <1>11, <2>1, NoTable DEF ServeVersions, VersionRest
  <2>3. PICK u :
               /\ calls' = (calls \ {c}) \union {u} /\ VersionCall(u)
               /\ u.op = c.op /\ u.from = c.from /\ u.arg = arg /\ u.served
               /\ u.answer = a /\ (u.heard <=> c.heard)
               /\ AllVersionCalls' /\ OfRows'
    BY <1>9, <2>2
  <2>4. VersionRest'
    BY <1>1, <1>2, <2>2 DEF VersionRest
  <2>5. OneByOne'
    <3> SUFFICES ASSUME Calm' PROVE OneByOne'
      BY DEF OneByOne
    <3>1. Calm
      BY <1>2 DEF Calm
    <3>2. calls' = {u}
      BY <1>10, <2>3, <3>1
    <3>3. InTurn(u)'
      BY <1>2, <1>4, <1>5, <1>10, <1>11, <2>1, <2>2, <2>3, <3>1 DEF InTurn
    <3> QED BY <1>2, <1>10, <1>11, <2>3, <3>1, <3>2, <3>3 DEF OneByOne
  <2> QED BY <2>3, <2>4, <2>5 DEF VInv
<1>12. CASE c.op = "delete"
  <2>1. /\ published' = [published EXCEPT ![ch][v] = None] /\ Answer(c, TRUE)
    BY <1>4, <1>5, <1>12 DEF ServeVersions
  <2>2. PICK u :
               /\ calls' = (calls \ {c}) \union {u} /\ VersionCall(u)
               /\ u.op = c.op /\ u.from = c.from /\ u.arg = arg /\ u.served
               /\ u.answer = TRUE /\ (u.heard <=> c.heard)
               /\ AllVersionCalls' /\ OfRows'
    BY <1>9, <1>12, <2>1, NoTable
  <2>3. v \in Versions
    BY <1>6, <1>12 DEF VersionWrites
  <2>4. published' \in [Stages -> Table] /\ published'[ch] = [published[ch] EXCEPT ![v] = None]
    <3>1. published \in [Stages -> Table] /\ published[ch] \in Table
      BY <1>1, <1>6 DEF VersionRest
    <3>2. PICK t : t = [published[ch] EXCEPT ![v] = None]
      OBVIOUS
    <3>3. t \in Table
      BY <2>3, <3>1, <3>2, TablePut
    <3>4. published' = [published EXCEPT ![ch] = t]
      BY <2>1, <3>2
    <3> QED BY <1>6, <3>1, <3>2, <3>3, <3>4
  <2>5. VersionRest'
    BY <1>1, <1>2, <2>4 DEF VersionRest
  <2>6. OneByOne'
    <3> SUFFICES ASSUME Calm' PROVE OneByOne'
      BY DEF OneByOne
    <3>1. Calm
      BY <1>2 DEF Calm
    <3>2. calls' = {u}
      BY <1>10, <2>2, <3>1
    <3>3. ch = filter.channel /\ v = Rows[c.from]
      BY <1>4, <1>5, <1>10, <1>12, <3>1 DEF InTurn
    <3>4. Unlisted \/ published'[filter.channel] = [versions EXCEPT ![v] = None]
      BY <1>10, <1>12, <2>4, <3>1, <3>3
    <3>5. InTurn(u)'
      <4>1. u.heard /\ u.answer # None
        BY <1>10, <2>2, <3>1, NoTable DEF InTurn
      <4> QED BY <1>2, <1>4, <1>5, <1>8, <1>12, <1>14, <2>2, <3>3, <3>4, <4>1 DEF InTurn
    <3> QED BY <1>2, <1>10, <1>12, <2>2, <3>1, <3>2, <3>5 DEF OneByOne
  <2> QED BY <2>2, <2>5, <2>6 DEF VInv
<1>13. CASE c.op = "publish"
  <2>1. PICK y : y = IF published[ch][v] = None THEN x ELSE published[ch][v]
    OBVIOUS
  <2>2. v \in Versions /\ x \in Revisions \union {None}
    BY <1>6, <1>13 DEF VersionWrites
  <2>3. y \in Revisions \union {None}
    BY <1>1, <1>6, <2>1, <2>2 DEF VersionRest, Table
  <2>4. published' = [published EXCEPT ![ch][v] = y] /\ Answer(c, TRUE)
    <3>1. published' = [published EXCEPT ![ch][v] = IF @ = None THEN x ELSE @]
      BY <1>4, <1>5, <1>13 DEF ServeVersions
    <3> QED BY <1>4, <1>5, <1>13, <2>1, <3>1 DEF ServeVersions
  <2>5. PICK u :
               /\ calls' = (calls \ {c}) \union {u} /\ VersionCall(u)
               /\ u.op = c.op /\ u.from = c.from /\ u.arg = arg /\ u.served
               /\ u.answer = TRUE /\ (u.heard <=> c.heard)
               /\ AllVersionCalls' /\ OfRows'
    BY <1>9, <1>13, <2>4, NoTable
  <2>6. /\ published' \in [Stages -> Table]
        /\ \A d \in Stages : d # ch => published'[d] = published[d]
    <3>1. published \in [Stages -> Table] /\ published[ch] \in Table
      BY <1>1, <1>6 DEF VersionRest
    <3>2. PICK t : t = [published[ch] EXCEPT ![v] = y]
      OBVIOUS
    <3>3. t \in Table
      BY <2>2, <2>3, <3>1, <3>2, TablePut
    <3>4. published' = [published EXCEPT ![ch] = t]
      BY <2>4, <3>2
    <3> QED BY <1>6, <3>1, <3>2, <3>3, <3>4
  <2>7. VersionRest'
    BY <1>1, <1>2, <2>6 DEF VersionRest
  <2>8. OneByOne'
    <3> SUFFICES ASSUME Calm' PROVE OneByOne'
      BY DEF OneByOne
    <3>1. Calm
      BY <1>2 DEF Calm
    <3>2. calls' = {u}
      BY <1>10, <2>5, <3>1
    <3>3. ch # filter.channel
      BY <1>4, <1>5, <1>10, <1>13, <3>1 DEF InTurn
    <3>4. Unlisted \/ published'[filter.channel] = versions
      BY <1>7, <1>10, <1>13, <2>6, <3>1, <3>3
    <3>5. InTurn(u)'
      <4>1. u.heard /\ u.answer # None
        BY <1>10, <2>5, <3>1, NoTable DEF InTurn
      <4> QED BY <1>2, <1>4, <1>5, <1>13, <2>5, <3>3, <4>1 DEF InTurn
    <3> QED BY <1>2, <1>10, <1>14, <3>1, <3>2, <3>4, <3>5 DEF OneByOne
  <2> QED BY <2>5, <2>7, <2>8 DEF VInv
<1> QED BY <1>11, <1>12, <1>13 DEF ServeVersions

LEMMA LoseVersionsStep ==
  ASSUME VInv, NEW c \in calls, c.op \in VersionWrites, Fail(c), Note({"crossed"}),
         UNCHANGED <<versionVars, asked>>
  PROVE  VInv'
<1>1. /\ VersionRest /\ AllVersionCalls
  BY DEF VInv
<1>2. /\ c.op \in VersionWrites /\ faults < MaxFaults /\ faults' = faults + 1 /\ Answer(c, None)
      /\ noted' = noted \union {"crossed"}
      /\ UNCHANGED <<published, filter, versions, dialog, asked>>
  BY DEF Fail, Note, versionVars
<1>3. VersionCall(c) /\ Shape(c)
  BY <1>1 DEF AllVersionCalls, VersionCall
<1>4. PICK u :
        /\ calls' = (calls \ {c}) \union {u}
        /\ u.op = c.op /\ u.from = c.from /\ u.arg = c.arg /\ u.served
        /\ u.answer = None /\ (u.heard <=> c.heard) /\ Shape(u)
  BY <1>2, <1>3, AnsweredCalls
<1>5. VersionCall(u)
  BY <1>2, <1>3, <1>4 DEF VersionCall, VersionWrites
<1>6. AllVersionCalls' /\ OfRows'
  BY <1>2, <1>4, <1>5, AnsweredVersion
<1>7. VersionRest'
  <2>1. faults' \in 0..MaxFaults
    BY <1>1, <1>2, RequestsAssumption DEF VersionRest
  <2> QED BY <1>1, <1>2, <2>1 DEF VersionRest
<1>8. OneByOne'
  BY <1>2 DEF OneByOne, Calm
<1> QED BY <1>6, <1>7, <1>8 DEF VInv

LEMMA VersionsUnlistedStep ==
  ASSUME VInv, NEW c \in calls, c.op = "list", FailUnseen(c), Note({"unlisted"}),
         UNCHANGED <<versionVars, asked>>
  PROVE  VInv'
<1>1. /\ VersionRest /\ AllVersionCalls /\ OfRows /\ OneByOne
  BY DEF VInv
<1>2. /\ faults < MaxFaults /\ faults' = faults + 1 /\ calls' = calls \ {c}
      /\ noted' = noted \union {"unlisted"} /\ Unlisted'
      /\ UNCHANGED <<published, filter, versions, dialog, asked>>
  BY DEF FailUnseen, Note, versionVars, Unlisted
<1>3. Rows' = Rows
  BY <1>2 DEF Rows
<1>4. VersionRest'
  <2>1. faults' \in 0..MaxFaults
    BY <1>1, <1>2, RequestsAssumption DEF VersionRest
  <2> QED BY <1>1, <1>2, <2>1 DEF VersionRest
<1>5. AllVersionCalls' /\ OfRows'
  BY <1>1, <1>2, <1>3 DEF AllVersionCalls, VersionCall, OfRows
<1>6. OneByOne'
  <2> SUFFICES ASSUME Calm' PROVE OneByOne'
    BY DEF OneByOne
  <2>1. Calm
    BY <1>2 DEF Calm
  <2>2. calls = {c}
    BY <1>1, <2>1 DEF OneByOne
  <2>3. calls' = {}
    BY <1>2, <2>2
  <2> QED BY <1>1, <1>2, <2>1, <2>3 DEF OneByOne
<1> QED BY <1>4, <1>5, <1>6 DEF VInv

-----------------------------------------------------------------------------
(* The versions: the answers.                                               *)

LEMMA BecomeStep ==
  ASSUME VInv, NEW c \in calls, NEW new \in Table, VersionsBecome(new, calls \ {c}),
         UNCHANGED <<published, filter, asked, faults>>, noted' \in {noted, noted \ {"unlisted"}},
         Calm => Unlisted' \/ new = published[filter.channel]
  PROVE  VInv'
<1>1. /\ VersionRest /\ AllVersionCalls /\ OfRows /\ OneByOne
  BY DEF VInv
<1>2. PICK r : r = RowsOf(new, filter.input)
  OBVIOUS
<1>3. PICK n : n = Len(r)
  OBVIOUS
<1>4. DOMAIN r = 1..n /\ n \in Nat
  BY <1>2, <1>3, RowsThere
<1>5. PICK kept : kept = calls \ {c}
  OBVIOUS
<1>6. PICK left : left = Unheard(kept, LAMBDA d : d.op # "list" /\ d.from > n)
  OBVIOUS
<1>7. /\ versions' = new /\ calls' = left
      /\ dialog' = IF dialog = None \/ dialog.row > n THEN None ELSE dialog
  BY <1>2, <1>3, <1>5, <1>6 DEF VersionsBecome, Keep
<1>8. Rows' = r
  BY <1>2, <1>7 DEF Rows
<1>9. ASSUME NEW w \in left
      PROVE  /\ \E d \in calls : KeptFrom(w, d) /\ (d.op # "list" /\ d.from > n => ~ w.heard)
             /\ VersionCall(w) /\ calls # {c}
  <2>1. PICK d \in kept :
          w = IF d.op # "list" /\ d.from > n THEN [d EXCEPT !.heard = FALSE] ELSE d
    BY <1>6, <1>9 DEF Unheard
  <2>2. VersionCall(d) /\ d \in calls /\ d # c
    BY <1>1, <1>5 DEF AllVersionCalls
  <2> QED BY <2>1, <2>2, KeptOne
<1>10. VersionRest' /\ AllVersionCalls'
  BY <1>1, <1>7, <1>9 DEF VersionRest, AllVersionCalls, VersionCall
<1>11. OfRows'
  <2>1. dialog' # None => dialog'.row \in 1..n
    <3> SUFFICES ASSUME dialog' # None PROVE dialog'.row \in 1..n
      OBVIOUS
    <3>1. dialog' = dialog /\ dialog # None /\ ~ (dialog.row > n)
      BY <1>7
    <3>2. dialog.row \in DOMAIN Rows
      BY <1>1, <3>1 DEF OfRows
    <3>3. dialog.row \in Nat /\ dialog.row >= 1
      BY <3>2, RowsThere DEF Rows
    <3> QED BY <1>4, <3>1, <3>3
  <2>2. ASSUME NEW w \in calls', w.op \in VersionWrites, w.heard PROVE w.from \in 1..n
    <3>1. PICK d \in calls : Stays(w, d) /\ (d.op # "list" /\ d.from > n => ~ w.heard)
      BY <1>7, <1>9 DEF KeptFrom
    <3>2. d.from \in DOMAIN Rows /\ d.op # "list"
      BY <1>1, <2>2, <3>1 DEF OfRows, Stays, VersionWrites
    <3>3. d.from \in Nat /\ d.from >= 1
      BY <3>2, RowsThere DEF Rows
    <3> QED BY <1>4, <2>2, <3>1, <3>2, <3>3 DEF Stays
  <2> QED BY <1>4, <1>8, <2>1, <2>2 DEF OfRows
<1>13. OneByOne'
  <2> SUFFICES ASSUME Calm' PROVE OneByOne'
    BY DEF OneByOne
  <2>1. Calm
    BY DEF Calm
  <2>2. calls = {c}
    BY <1>1, <2>1 DEF OneByOne
  <2>3. calls' = {}
    BY <1>7, <1>9, <2>2
  <2>4. Unlisted' \/ versions' = published'[filter'.channel]
    BY <1>7, <2>1
  <2>5. dialog' # None => dialog' = dialog /\ dialog # None
    BY <1>7
  <2>6. dialog' # None /\ dialog'.op = "publish" => dialog'.to # filter'.channel
    BY <1>1, <2>1, <2>5 DEF OneByOne
  <2> QED BY <2>3, <2>4, <2>6 DEF OneByOne
<1> QED BY <1>10, <1>11, <1>13 DEF VInv

LEMMA VersionsHeardStep ==
  ASSUME VInv, NEW c \in calls, VersionsListed(c) \/ VersionDeleted(c)
  PROVE  VInv'
<1>1. /\ VersionRest /\ AllVersionCalls /\ OfRows /\ OneByOne
  BY DEF VInv
<1>2. versions \in Table /\ VersionCall(c)
  BY <1>1 DEF VersionRest, AllVersionCalls
<1>3. Calm => InTurn(c)
  BY <1>1 DEF OneByOne
<1>4. CASE VersionsListed(c)
  <2>1. PICK new : new = c.answer
    OBVIOUS
  <2>2. /\ c.op = "list" /\ c.served /\ VersionsBecome(new, calls \ {c})
        /\ UNCHANGED <<published, filter, asked, faults>> /\ noted' = noted \ {"unlisted"}
    BY <1>4, <2>1 DEF VersionsListed, Heard
  <2>3. new \in Table
    BY <1>2, <2>1, <2>2 DEF VersionCall
  <2>4. Calm => new = published[filter.channel]
    BY <1>3, <2>1, <2>2 DEF InTurn
  <2> QED BY <2>2, <2>3, <2>4, BecomeStep
<1>5. CASE VersionDeleted(c)
  <2>1. PICK v : v = Rows[c.from]
    OBVIOUS
  <2>2. PICK new : new = [versions EXCEPT ![v] = None]
    OBVIOUS
  <2>3. /\ c.op = "delete" /\ c.served /\ c.heard /\ VersionsBecome(new, calls \ {c})
        /\ UNCHANGED <<published, filter, asked, faults, noted>>
    BY <1>5, <2>1, <2>2 DEF VersionDeleted, Heard
  <2>4. c.from \in DOMAIN Rows
    BY <1>1, <2>3 DEF OfRows, VersionWrites
  <2>5. v \in Versions
    BY <2>1, <2>4, RowsThere DEF Rows
  <2>6. new \in Table
    BY <1>2, <2>2, <2>5, TablePut
  <2>7. Calm => Unlisted' \/ new = published[filter.channel]
    BY <1>3, <2>1, <2>2, <2>3 DEF InTurn, Unlisted
  <2> QED BY <2>3, <2>6, <2>7, BecomeStep
<1> QED BY <1>4, <1>5

(* Of an answer nobody listens for only the request goes.                   *)
LEMMA VersionsUnheardStep ==
  ASSUME VInv, NEW c \in calls, VersionPublished(c) \/ (Ignored(c) /\ UNCHANGED versionVars)
  PROVE  VInv'
<1>1. /\ VersionRest /\ AllVersionCalls /\ OfRows /\ OneByOne
  BY DEF VInv
<1>2. /\ calls' = calls \ {c}
      /\ UNCHANGED <<published, filter, versions, dialog, asked, faults, noted>>
  BY DEF VersionPublished, Ignored, versionVars
<1>3. Rows' = Rows
  BY <1>2 DEF Rows
<1>4. VersionRest' /\ AllVersionCalls'
  BY <1>1, <1>2 DEF VersionRest, AllVersionCalls, VersionCall
<1>5. OfRows'
  BY <1>1, <1>2, <1>3 DEF OfRows
<1>6. OneByOne'
  <2> SUFFICES ASSUME Calm' PROVE OneByOne'
    BY DEF OneByOne
  <2>1. Calm
    BY <1>2 DEF Calm
  <2>2. calls = {c} /\ InTurn(c)
    BY <1>1, <2>1 DEF OneByOne
  <2>3. calls' = {}
    BY <1>2, <2>2
  <2>4. c.op = "publish"
    BY <2>2 DEF VersionPublished, Heard, Ignored, InTurn
  <2>5. Unlisted \/ versions = published[filter.channel]
    BY <1>1, <2>1, <2>2, <2>4 DEF OneByOne
  <2> QED BY <1>1, <1>2, <2>1, <2>3, <2>5 DEF OneByOne, Unlisted
<1> QED BY <1>4, <1>5, <1>6 DEF VInv

-----------------------------------------------------------------------------
(* The versions: every step.                                                *)

LEMMA VersionsStart ==
  ASSUME VersionsInit
  PROVE  VInv
<1>1. PICK arg : arg = Of(1)
  OBVIOUS
<1>2. PICK u : u = [op |-> "list", from |-> None, arg |-> arg, n |-> 1,
                    served |-> FALSE, answer |-> None, heard |-> TRUE]
  OBVIOUS
<1>3. /\ published \in [Stages -> Table] /\ filter = [channel |-> 1, input |-> None]
      /\ versions = NoVersions /\ dialog = None
      /\ calls = {u} /\ asked = 0 /\ faults = 0 /\ noted = {}
  BY <1>1, <1>2 DEF VersionsInit, RequestsInit
<1>4. /\ u.op = "list" /\ u.arg = arg /\ ~ u.served /\ u.answer = None /\ u.heard /\ Shape(u)
  BY <1>2 DEF Shape
<1>5. arg.channel = 1
  BY <1>1, OfFields
<1>6. filter.channel = 1 /\ filter.input = None /\ 1 \in Stages
  BY <1>3, StagesAre
<1>7. VersionCall(u)
  BY <1>4, <1>5, <1>6 DEF VersionCall, VersionWrites
<1>8. VersionRest
  BY <1>3, <1>6, RequestsAssumption DEF VersionRest, NoVersions, Table
<1>9. InTurn(u)
  BY <1>4, <1>5, <1>6 DEF InTurn
<1>10. OfRows
  BY <1>3, <1>4 DEF OfRows, VersionWrites
<1>11. OneByOne
  BY <1>3, <1>4, <1>9 DEF OneByOne
<1> QED BY <1>3, <1>7, <1>8, <1>10, <1>11 DEF VInv, AllVersionCalls

LEMMA VersionsStep ==
  ASSUME VInv, VersionsNext
  PROVE  VInv'
BY FilteredStep, FoldStep, ConfirmStep, CancelVersion, OpenStep, ServeVersionsStep,
   LoseVersionsStep, VersionsUnlistedStep, VersionsHeardStep, VersionsUnheardStep
   DEF VersionsNext, LoseVersions

LEMMA AlwaysVInv == Spec => [](screen = "versions" => VInv)
<1>1. Init => (screen = "versions" => VInv)
  BY VersionsStart DEF Init
<1>2. (screen = "versions" => VInv) /\ [Next]_vars => (screen = "versions" => VInv)'
  <2> SUFFICES ASSUME screen = "versions" => VInv, [Next]_vars, screen' = "versions"
               PROVE  VInv'
    OBVIOUS
  <2>1. CASE UNCHANGED vars
    <3>1. VInv
      BY <2>1 DEF vars
    <3>2. UNCHANGED <<published, filter, versions, dialog, calls, asked, faults, noted>>
      BY <2>1 DEF vars, versionVars, requestVars
    <3>3. Rows' = Rows
      BY <3>2 DEF Rows
    <3> QED BY <3>1, <3>2, <3>3 DEF VInv, VersionRest, AllVersionCalls, VersionCall, OfRows,
                               OneByOne, InTurn, Calm, Unlisted
  <2>2. CASE Next
    <3>1. screen = "versions" /\ VersionsNext
      BY <2>2 DEF Next
    <3> QED BY <3>1, VersionsStep
  <2> QED BY <2>1, <2>2
<1> QED BY <1>1, <1>2, PTL DEF Spec

(* When the requests of the versions page were made one at a time and all    *)
(* are answered, it shows the versions its channel has on the server,        *)
(* although it asks for them again neither after a deletion nor after a      *)
(* publication (GroupKubepkgVersionList): unless a list failed and none      *)
(* arrived since, which leaves those of the channel before on the page.      *)
THEOREM VersionsAreTheChannels == Spec => []VersionsOfTheChannel
<1>1. ASSUME VInv PROVE VersionsAgree
  BY <1>1 DEF VInv, OneByOne, Calm, Unlisted, VersionsAgree
<1>2. (screen = "versions" => VInv) => VersionsOfTheChannel
  BY <1>1 DEF VersionsOfTheChannel
<1> QED BY <1>2, AlwaysVInv, PTL

-----------------------------------------------------------------------------
(* The lists: the inductive invariant.                                      *)

ListRest ==
  /\ page \in Pages
  /\ entities \in [IDs -> Record \union {None}] /\ rows \in [IDs -> Row \union {None}]
  /\ removed \subseteq Names \union IDs
  /\ asked \in 0..MaxSent /\ faults \in 0..MaxFaults

Has(r, a) == r # None /\ r.addr = a
Unique == \A i, j \in IDs : \A a : Has(entities[i], a) /\ Has(entities[j], a) => i = j

(* No record has a name that is marked as deleted.                          *)
RemovedAreGone == \A i \in IDs : \A a \in removed : ~ Has(entities[i], a)

(* Accounts are addressed by their ids, and so are their rows.              *)
ByID ==
  ~ page.byName =>
    /\ \A i \in IDs : /\ entities[i] # None => entities[i].addr = i
                      /\ rows[i] # None => rows[i].addr = i
                      /\ Shown(i) # None => Shown(i).addr = i
    /\ \A c \in calls : c.op = "list" /\ c.served =>
         \A i \in IDs : c.answer[i] # None => c.answer[i].addr = i

(* A row that waits for an answer is there, with the button that asked.     *)
Put(c) == [addr |-> c.arg.addr, val |-> c.arg.val]
ListCall(c) ==
  /\ Shape(c) /\ c.op \in {"list"} \union Writes
  /\ ~ c.served => c.answer = None
  /\ c.op = "list" =>
       c.heard /\ c.from = None /\ (c.served => c.answer \in [IDs -> Record \union {None}])
  /\ c.op \in Writes =>
       /\ c.arg.addr \in Names \union IDs /\ (~ page.byName => c.arg.addr \in IDs)
       /\ c.from \in IDs \union {None}
       /\ c.op # "put" => c.from \in IDs
       /\ c.heard /\ c.from \in IDs =>
            Shown(c.from) # None /\ rows[c.from].addr = c.arg.addr
  /\ c.op = "put" =>
       c.arg.val \in Vals /\ c.arg.to = None /\ (c.answer # None => c.answer = Put(c))
  /\ c.op = "delete" => c.arg.to = None
  /\ c.op = "rename" =>
       c.arg.to \in Names /\ page.byName /\ (c.answer # None => c.answer = c.arg.to)
AllListCalls == \A c \in calls : ListCall(c)

(* What is noted of a write is noted of the row that waits for it; a write  *)
(* nothing is noted of is waited for by a row that shows its address.       *)
Noticed(c) ==
  c.op \in Writes =>
    /\ c.op = "rename" /\ c.arg.addr \in noted => c.arg.to \in noted
    /\ c.heard /\ c.from \in IDs /\ c.arg.addr \in noted => Shown(c.from).addr \in noted
    /\ c.arg.addr \notin noted =>
         c.heard /\ (c.from \in IDs => Shown(c.from).addr = c.arg.addr)
AllNoticed == \A c \in calls : Noticed(c)

(* Of an address nothing is noted of there is one write at most, and no     *)
(* list beside it; a list says of it what the server does; and the rows do, *)
(* but for the first list, that which is asked for after its addition, or a *)
(* write that is answered with what the row is about to show.               *)
Clean(a) == a \in (Names \union IDs) \ noted
About(c, a) == c.op \in Writes /\ a \in Concerned(c)
Sole(a) ==
  \A c \in calls : About(c, a) =>
    \A d \in calls : d.op # "list" /\ (About(d, a) => d = c)
Says(f, a) == \A i \in IDs : Has(entities[i], a) \/ Has(f[i], a) => entities[i] = f[i]
ListsSay(a) == \A c \in calls : c.op = "list" /\ c.served => Says(c.answer, a)
RowsSay(a) == \A i \in IDs : Has(entities[i], a) \/ Has(Shown(i), a) => entities[i] = Shown(i)

Due(a) ==
  \A i \in IDs : /\ Has(entities[i], a) => Shown(i) = None \/ Has(Shown(i), a)
                 /\ Has(Shown(i), a) => Has(entities[i], a)
Carried(c) == c.served /\ c.answer # None
Brings(c, a) ==
  \/ c.op = "list" /\ (c.arg = None \/ c.arg = a)
  \/ About(c, a) /\ Carried(c) /\ c.from = None
Awaited(a) == \E c \in calls : Brings(c, a)

After(c, a) ==
  /\ \A i \in IDs : i # c.from => ~ Has(entities[i], a) /\ ~ Has(Shown(i), a)
  /\ c.op = "put" => entities[c.from] = Put(c)
  /\ c.op = "delete" => ~ Has(entities[c.from], a)
  /\ c.op = "rename" /\ a # c.arg.to => ~ Has(entities[c.from], a)
  /\ c.op = "rename" /\ a = c.arg.to =>
       entities[c.from] = [addr |-> a, val |-> Shown(c.from).val]
OfARow(c, a) == About(c, a) /\ Carried(c) /\ c.from \in IDs
Answers(a) == \A c \in calls : OfARow(c, a) => After(c, a)
Agreed(a) == RowsSay(a) \/ (Due(a) /\ Awaited(a)) \/ (\E c \in calls : OfARow(c, a))

InOrder(a) == Sole(a) /\ ListsSay(a) /\ Answers(a) /\ Agreed(a)
AllInOrder == \A a : Clean(a) => InOrder(a)

LInv == ListRest /\ Unique /\ RemovedAreGone /\ ByID /\ AllListCalls /\ AllNoticed /\ AllInOrder

-----------------------------------------------------------------------------
(* The lists: what is typed.                                                *)

LEMMA NoneIsNothing ==
  /\ None \notin IDs /\ None \notin Names /\ TRUE # None
  /\ \A r \in Record : r # None
  /\ \A r \in Row : r # None
  /\ \A f \in [IDs -> Record \union {None}] : f # None
BY ListsAssumption

LEMMA PageFields ==
  ASSUME page \in Pages
  PROVE  /\ page.adds \subseteq Vals
         /\ page.renames => page.byName
         /\ Addresses \subseteq Names \union IDs
         /\ page.byName => Addresses = Names
         /\ ~ page.byName => Addresses = IDs
<1>1. (CHOOSE v \in Vals : TRUE) \in Vals
  BY ListsAssumption
<1>2. /\ page.adds \subseteq Vals
      /\ page.renames => page.byName
  BY <1>1 DEF Pages, Members, Admins, Groups, Robots, Clusters
<1> QED BY <1>2 DEF Addresses

LEMMA RecordFields ==
  ASSUME NEW r \in Record
  PROVE  /\ r = [addr |-> r.addr, val |-> r.val]
         /\ r.addr \in Names \union IDs /\ r.val \in Vals
BY DEF Record

LEMMA RecordIs ==
  ASSUME NEW a \in Names \union IDs, NEW v \in Vals, NEW r, r = [addr |-> a, val |-> v]
  PROVE  r \in Record /\ r.addr = a /\ r.val = v /\ r # None
<1>1. r \in Record /\ r.addr = a /\ r.val = v
  BY DEF Record
<1> QED BY <1>1, NoneIsNothing

LEMMA ArgFields ==
  ASSUME NEW a, NEW v, NEW t, NEW arg, arg = Arg(a, v, t)
  PROVE  arg.addr = a /\ arg.val = v /\ arg.to = t
BY DEF Arg

LEMMA ShownType ==
  ASSUME ListRest, NEW i \in IDs
  PROVE  /\ Shown(i) \in Record \union {None}
         /\ Shown(i) # None => rows[i] # None /\ rows[i] \in Row /\ Shown(i) = rows[i].shown
         /\ rows[i] # None => rows[i].addr \in Names \union IDs
<1>1. rows[i] \in Row \union {None}
  BY DEF ListRest
<1> QED BY <1>1 DEF Shown, Row

(* A row shows another record, or none.                                     *)
LEMMA RowPut ==
  ASSUME ListRest, NEW k \in IDs, rows[k] # None, NEW x \in Record \union {None}, NEW r,
         r = [rows[k] EXCEPT !.shown = x], rows' = [rows EXCEPT ![k] = r]
  PROVE  /\ rows' \in [IDs -> Row \union {None}]
         /\ rows'[k] # None /\ rows'[k].addr = rows[k].addr /\ Shown(k)' = x
         /\ \A j \in IDs : j # k => rows'[j] = rows[j] /\ Shown(j)' = Shown(j)
<1>1. rows \in [IDs -> Row \union {None}] /\ rows[k] \in Row
  BY DEF ListRest
<1>2. r \in Row /\ r.addr = rows[k].addr /\ r.shown = x
  BY <1>1 DEF Row
<1>3. r # None
  BY <1>2, NoneIsNothing
<1>4. rows'[k] = r /\ \A j \in IDs : j # k => rows'[j] = rows[j]
  BY <1>1
<1>5. rows' \in [IDs -> Row \union {None}]
  BY <1>1, <1>2
<1> QED BY <1>2, <1>3, <1>4, <1>5 DEF Shown

-----------------------------------------------------------------------------
(* The lists: what follows of a write nothing is noted of.                  *)

LEMMA Concerns ==
  ASSUME page \in Pages, NEW c, ListCall(c), c.op \in Writes, NEW a, NEW b, b = c.arg.addr,
         NEW t, t = c.arg.to
  PROVE  /\ About(c, b) /\ b \in Names \union IDs /\ b # None
         /\ c.op # "rename" => (About(c, a) <=> a = b)
         /\ c.op = "rename" => (About(c, a) <=> a = b \/ a = t) /\ t \in Names /\ t # None
<1>1. b \in Names \union IDs /\ b # None
  BY PageFields, NoneIsNothing DEF ListCall
<1>2. c.op # "rename" => t = None
  BY DEF ListCall, Writes
<1>3. c.op = "rename" => t \in Names /\ t # None
  BY NoneIsNothing DEF ListCall
<1> QED BY <1>1, <1>2, <1>3 DEF About, Concerned

LEMMA SoleCall ==
  ASSUME LInv, NEW a, Clean(a), NEW c \in calls, About(c, a)
  PROVE  /\ \A d \in calls : d.op # "list" /\ (About(d, a) => d = c)
         /\ ~ Carried(c) => RowsSay(a)
         /\ c.from \in IDs /\ Carried(c) => After(c, a)
<1>1. InOrder(a)
  BY DEF LInv, AllInOrder
<1>2. \A d \in calls : d.op # "list" /\ (About(d, a) => d = c)
  BY <1>1 DEF InOrder, Sole
<1>3. ASSUME ~ Carried(c) PROVE RowsSay(a)
  <2>1. ~ Awaited(a)
    BY <1>2, <1>3 DEF Awaited, Brings
  <2>2. ~ \E d \in calls : OfARow(d, a)
    BY <1>2, <1>3 DEF OfARow
  <2> QED BY <1>1, <2>1, <2>2 DEF InOrder, Agreed
<1>4. c.from \in IDs /\ Carried(c) => After(c, a)
  BY <1>1 DEF InOrder, Answers, OfARow
<1> QED BY <1>2, <1>3, <1>4

LEMMA CleanCall ==
  ASSUME LInv, NEW a, Clean(a), NEW c \in calls, About(c, a), NEW b, b = c.arg.addr
  PROVE  /\ Clean(b) /\ About(c, b) /\ c.heard /\ c.op \in Writes
         /\ \A k \in IDs : k = c.from => Has(Shown(k), b) /\ rows[k].addr = b /\ Shown(k) # None
<1>1. /\ page \in Pages /\ ListCall(c) /\ Noticed(c) /\ c.op \in Writes
  BY DEF LInv, ListRest, AllListCalls, AllNoticed, About
<1>2. /\ About(c, b) /\ b \in Names \union IDs
      /\ a # b => c.op = "rename" /\ a = c.arg.to
  BY <1>1, Concerns
<1>3. b \notin noted
  BY <1>1, <1>2 DEF Noticed, Clean
<1>4. c.heard /\ \A k \in IDs : k = c.from => Shown(k).addr = b /\ Shown(k) # None /\ rows[k].addr = b
  BY <1>1, <1>3 DEF Noticed, ListCall
<1> QED BY <1>1, <1>2, <1>3, <1>4 DEF Clean, Has

(* The record of the row that asks is the one with its address.             *)
LEMMA OwnRow ==
  ASSUME LInv, NEW b, Clean(b), NEW c \in calls, b = c.arg.addr, c.op \in Writes, ~ Carried(c),
         NEW k \in IDs, k = c.from
  PROVE  /\ Has(Shown(k), b) /\ entities[k] = Shown(k)
         /\ \A j \in IDs : Has(entities[j], b) \/ Has(Shown(j), b) => j = k
<1>1. /\ page \in Pages /\ ListCall(c) /\ Unique
  BY DEF LInv, ListRest, AllListCalls
<1>2. About(c, b)
  BY <1>1, Concerns
<1>3. Has(Shown(k), b)
  BY <1>2, CleanCall
<1>4. RowsSay(b)
  BY <1>2, SoleCall
<1>5. entities[k] = Shown(k) /\ Has(entities[k], b)
  BY <1>3, <1>4 DEF RowsSay, Has
<1>6. \A j \in IDs : Has(entities[j], b) \/ Has(Shown(j), b) => Has(entities[j], b)
  BY <1>4 DEF RowsSay, Has
<1>7. \A j \in IDs : Has(entities[j], b) => j = k
  BY <1>1, <1>5 DEF Unique
<1> QED BY <1>3, <1>5, <1>6, <1>7

-----------------------------------------------------------------------------
(* The lists: what does not concern an address.                             *)

(* Records that change, none of which has the address before or after.      *)
LEMMA FarRecords ==
  ASSUME NEW a, UNCHANGED rows,
         \A j \in IDs : entities'[j] = entities[j]
                        \/ (~ Has(entities[j], a) /\ ~ Has(entities'[j], a))
  PROVE  /\ RowsSay(a) => RowsSay(a)'
         /\ Due(a) => Due(a)'
         /\ \A f : Says(f, a) => Says(f, a)'
<1>1. \A j \in IDs : Shown(j)' = Shown(j)
  BY DEF Shown
<1>2. RowsSay(a) => RowsSay(a)'
  BY <1>1 DEF RowsSay, Has
<1>3. Due(a) => Due(a)'
  BY <1>1 DEF Due, Has
<1>4. \A f : Says(f, a) => Says(f, a)'
  BY DEF Says, Has
<1> QED BY <1>2, <1>3, <1>4

(* The answer of a write stays due when records without its address change. *)
LEMMA FarAfter ==
  ASSUME LInv, NEW a, Clean(a), UNCHANGED rows,
         \A j \in IDs : entities'[j] = entities[j]
                        \/ (~ Has(entities[j], a) /\ ~ Has(entities'[j], a)),
         NEW d \in calls, OfARow(d, a), After(d, a)
  PROVE  After(d, a)'
<1>1. \A j \in IDs : Shown(j)' = Shown(j)
  BY DEF Shown
<1>2. PICK k : k = d.from
  OBVIOUS
<1>3. k \in IDs /\ d.op \in Writes /\ ListCall(d) /\ ListRest /\ page \in Pages
  BY <1>2 DEF OfARow, About, LInv, AllListCalls, ListRest
<1>4. \A i \in IDs : i # k => ~ Has(entities'[i], a) /\ ~ Has(Shown(i)', a)
  BY <1>1, <1>2 DEF After
<1>5. ~ Has(entities[k], a) => ~ Has(entities'[k], a)
  BY <1>3
<1>6. Has(entities[k], a) => entities'[k] = entities[k]
  BY <1>3
<1>7. PICK p : p = Put(d)
  OBVIOUS
<1>8. PICK b, v : b = d.arg.addr /\ v = d.arg.val
  OBVIOUS
<1>9. d.op = "put" => b = a /\ v \in Vals /\ b \in Names \union IDs
  <2>1. d.op = "put" => (About(d, a) <=> a = b) /\ b \in Names \union IDs
    BY <1>3, <1>8, Concerns
  <2> QED BY <1>3, <1>8, <2>1 DEF OfARow, ListCall
<1>10. d.op = "put" => Has(p, a)
  <2>1. p = [addr |-> b, val |-> v]
    BY <1>7, <1>8 DEF Put
  <2> QED BY <1>9, <2>1, RecordIs DEF Has
<1>11. d.op = "put" => entities'[k] = p
  BY <1>2, <1>6, <1>7, <1>10 DEF After
<1>12. PICK s : s = Shown(k).val
  OBVIOUS
<1>13. PICK q : q = [addr |-> a, val |-> s]
  OBVIOUS
<1>14. Has(q, a)
  <2>1. PICK x : x = Shown(k)
    OBVIOUS
  <2>2. x # None
    BY <1>2, <1>3, <1>8, <2>1, CleanCall DEF OfARow
  <2>3. x \in Record
    BY <1>3, <2>1, <2>2, ShownType
  <2>4. s \in Vals
    BY <1>12, <2>1, <2>3, RecordFields
  <2> QED BY <1>13, <2>4, RecordIs DEF Clean, Has
<1>15. d.op = "rename" /\ a = d.arg.to => entities'[k] = q
  BY <1>2, <1>6, <1>12, <1>13, <1>14 DEF After
<1>16. d.op = "delete" => ~ Has(entities'[k], a)
  BY <1>2, <1>5 DEF After
<1>17. d.op = "rename" /\ a # d.arg.to => ~ Has(entities'[k], a)
  BY <1>2, <1>5 DEF After
<1>18. Shown(k)' = Shown(k)
  BY <1>1, <1>3
<1> QED BY <1>2, <1>4, <1>7, <1>11, <1>12, <1>13, <1>15, <1>16, <1>17, <1>18 DEF After, Put

(* A row that shows another record, and has the address neither before nor  *)
(* after.                                                                   *)
LEMMA FarRow ==
  ASSUME NEW a, UNCHANGED entities, NEW k \in IDs,
         \A j \in IDs : j # k => Shown(j)' = Shown(j),
         Shown(k) # None, ~ Has(Shown(k), a), ~ Has(Shown(k)', a)
  PROVE  /\ RowsSay(a) => RowsSay(a)'
         /\ Due(a) => Due(a)'
<1>1. RowsSay(a) => RowsSay(a)'
  <2> SUFFICES ASSUME RowsSay(a), NEW j \in IDs, Has(entities[j], a) \/ Has(Shown(j)', a)
               PROVE  entities[j] = Shown(j)'
    BY DEF RowsSay, Has
  <2>1. CASE j = k
    <3>1. Has(entities[k], a)
      BY <2>1
    <3>2. entities[k] = Shown(k)
      BY <3>1 DEF RowsSay
    <3> QED BY <3>1, <3>2
  <2>2. CASE j # k
    BY <2>2 DEF RowsSay, Has
  <2> QED BY <2>1, <2>2
<1>2. Due(a) => Due(a)'
  <2> SUFFICES ASSUME Due(a), NEW j \in IDs
               PROVE  /\ Has(entities[j], a) => Shown(j)' = None \/ Has(Shown(j)', a)
                      /\ Has(Shown(j)', a) => Has(entities[j], a)
    BY DEF Due, Has
  <2>1. CASE j = k
    BY <2>1 DEF Due
  <2>2. CASE j # k
    BY <2>2 DEF Due, Has
  <2> QED BY <2>1, <2>2
<1> QED BY <1>1, <1>2

(* A row that waits for an answer shows no address nothing is noted of but  *)
(* the one it asked with.                                                   *)
LEMMA NotShown ==
  ASSUME LInv, NEW a, Clean(a), NEW c \in calls, c.op \in Writes, c.heard,
         NEW k \in IDs, k = c.from, ~ About(c, a)
  PROVE  Shown(k) # None /\ ~ Has(Shown(k), a)
<1>1. /\ page \in Pages /\ ListCall(c) /\ Noticed(c)
  BY DEF LInv, ListRest, AllListCalls, AllNoticed
<1>2. PICK b : b = c.arg.addr
  OBVIOUS
<1>3. a # b
  BY <1>1, <1>2, Concerns
<1>4. Shown(k) # None
  BY <1>1 DEF ListCall
<1>5. Shown(k).addr # a
  BY <1>1, <1>2, <1>3 DEF Noticed, Clean
<1> QED BY <1>4, <1>5 DEF Has

LEMMA FarRowAfter ==
  ASSUME LInv, NEW a, Clean(a), UNCHANGED entities,
         NEW c \in calls, c.op \in Writes, c.heard, ~ About(c, a), NEW k \in IDs, k = c.from,
         \A j \in IDs : j # k => Shown(j)' = Shown(j),
         ~ Has(Shown(k)', a),
         NEW d \in calls, OfARow(d, a), After(d, a)
  PROVE  After(d, a)'
<1>1. /\ page \in Pages /\ ListCall(c)
  BY DEF LInv, ListRest, AllListCalls
<1>2. PICK m : m = d.from
  OBVIOUS
<1>3. m \in IDs /\ d.op \in Writes
  BY <1>2 DEF OfARow, About
<1>4. \A i \in IDs : i # m => ~ Has(entities[i], a) /\ ~ Has(Shown(i)', a)
  BY <1>2 DEF After
<1>5. ASSUME d.op = "rename", a = d.arg.to PROVE m # k
  <2> SUFFICES ASSUME m = k PROVE FALSE
    OBVIOUS
  <2>1. PICK b : b = d.arg.addr
    OBVIOUS
  <2>2. About(d, a) /\ Clean(b) /\ About(d, b) /\ rows[k].addr = b
    BY <1>2, <2>1, CleanCall DEF OfARow
  <2>3. PICK e : e = c.arg.addr
    OBVIOUS
  <2>4. rows[k].addr = e
    BY <1>1, <2>3 DEF ListCall
  <2>5. About(c, e)
    BY <1>1, <2>3, Concerns
  <2>6. d = c
    BY <2>2, <2>4, <2>5, SoleCall
  <2> QED BY <2>2, <2>6
<1>6. d.op = "rename" /\ a = d.arg.to =>
        entities[m] = [addr |-> a, val |-> Shown(m)'.val]
  BY <1>2, <1>3, <1>5 DEF After
<1> QED BY <1>2, <1>4, <1>6 DEF After, Has, Put

(* What is noted of one address of a write is noted of all.                 *)
LEMMA NoticedMore ==
  ASSUME LInv, UNCHANGED <<page, rows>>, noted \subseteq noted',
         \A c \in calls : \A x \in Concerned(c) :
           c.op \in Writes /\ x \in noted' /\ x \notin noted => Concerned(c) \subseteq noted'
  PROVE  \A c \in calls : Noticed(c)'
<1> SUFFICES ASSUME NEW c \in calls, c.op \in Writes PROVE Noticed(c)'
  BY DEF Noticed
<1>1. /\ page \in Pages /\ ListCall(c) /\ Noticed(c)
  BY DEF LInv, ListRest, AllListCalls, AllNoticed
<1>2. PICK b, t : b = c.arg.addr /\ t = c.arg.to
  OBVIOUS
<1>3. b \in Concerned(c) /\ (c.op = "rename" => t \in Concerned(c))
  BY <1>1, <1>2, Concerns DEF About
<1>4. \A i \in IDs : Shown(i)' = Shown(i)
  BY DEF Shown
<1>5. c.op = "rename" /\ b \in noted' => t \in noted'
  BY <1>1, <1>2, <1>3 DEF Noticed
<1>6. c.heard /\ c.from \in IDs /\ b \in noted' => Shown(c.from).addr \in noted'
  BY <1>1, <1>2 DEF Noticed
<1>7. b \notin noted' => c.heard /\ (c.from \in IDs => Shown(c.from).addr = b)
  BY <1>1, <1>2 DEF Noticed
<1> QED BY <1>2, <1>4, <1>5, <1>6, <1>7 DEF Noticed

-----------------------------------------------------------------------------
(* The lists: the buttons.                                                  *)

(* What is agreed about an address stays when nothing but requests change.  *)
LEMMA SameAfter ==
  ASSUME UNCHANGED <<page, entities, rows>>, NEW a
  PROVE  /\ RowsSay(a)' <=> RowsSay(a)
         /\ Due(a)' <=> Due(a)
         /\ \A c : After(c, a)' <=> After(c, a)
         /\ \A f : Says(f, a)' <=> Says(f, a)
<1>1. \A i \in IDs : Shown(i)' = Shown(i)
  BY DEF Shown
<1>2. \A c : Shown(c.from)' = Shown(c.from)
  BY DEF Shown
<1> QED BY <1>1, <1>2 DEF RowsSay, Due, After, Says, Has, Put

LEMMA AskStep ==
  ASSUME LInv, NEW op \in Writes, NEW from \in IDs \union {None},
         NEW b \in Names \union IDs, ~ page.byName => b \in IDs, NEW v, NEW t, NEW arg, arg = Arg(b, v, t), NEW address,
         Write(op, from, arg, address),
         op = "put" => v \in Vals /\ t = None,
         op = "delete" => t = None,
         op = "rename" => t \in Names /\ page.byName,
         op # "put" => from \in IDs,
         from = None => address = None,
         from \in IDs => /\ Shown(from) # None /\ rows[from].addr = b
                         /\ address = Shown(from).addr
  PROVE  LInv'
<1>1. /\ ListRest /\ page \in Pages /\ Unique /\ RemovedAreGone /\ ByID /\ AllListCalls /\ AllNoticed /\ AllInOrder
  BY DEF LInv, ListRest
<1>2. arg.addr = b /\ arg.val = v /\ arg.to = t
  BY ArgFields
<1>3. PICK mine : mine = {b, t, address} \ {None}
  OBVIOUS
<1>4. PICK u : u = Request(op, from, arg)
  OBVIOUS
<1>5. /\ asked < MaxSent /\ asked' = asked + 1 /\ calls' = calls \union {u}
      /\ noted' = noted \union (IF Alone(mine) /\ address \in {None, b} THEN {} ELSE Crossing(mine))
      /\ UNCHANGED <<page, entities, removed, rows, faults>>
  BY <1>2, <1>3, <1>4 DEF Write, Ask, SendAfter, listVars
<1>6. /\ u.op = op /\ u.from = from /\ u.arg = arg /\ ~ u.served /\ u.answer = None /\ u.heard
      /\ Shape(u)
  BY <1>4, RequestFields
<1>7. b # None /\ b \in Names \union IDs /\ b \in mine
  BY <1>1, <1>3, PageFields, NoneIsNothing
<1>8. op # "list" /\ u.op # "list"
  BY <1>6 DEF Writes
<1>9. \A i \in IDs : Shown(i)' = Shown(i)
  BY <1>5 DEF Shown
<1>10. ListCall(u)
  BY <1>2, <1>6, <1>8, NoneIsNothing DEF ListCall, Writes
<1>11. \A a : About(u, a) => a \in mine
  BY <1>2, <1>3, <1>6 DEF About, Concerned
<1>12. \/ mine \subseteq noted'
       \/ Alone(mine) /\ noted' = noted /\ address \in {None, b}
  BY <1>5 DEF Crossing
<1>13. \A c \in calls : c.op \in Writes /\ Concerned(c) \intersect mine # {} =>
         Concerned(c) \subseteq noted'
  BY <1>5 DEF Crossing, Alone, Requests
<1>14. \A x \in noted' : \/ x \in noted \/ x \in mine
                         \/ \E c \in calls : /\ c.op \in Writes /\ x \in Concerned(c)
                                             /\ Concerned(c) \subseteq noted'
  <2> SUFFICES ASSUME NEW x \in noted', x \notin noted, x \notin mine
               PROVE  \E c \in calls : /\ c.op \in Writes /\ x \in Concerned(c)
                                       /\ Concerned(c) \subseteq noted'
    OBVIOUS
  <2>1. x \in Crossing(mine)
    BY <1>5
  <2>2. PICK c \in Requests(Writes) : Concerned(c) \intersect mine # {} /\ x \in Concerned(c)
    BY <2>1 DEF Crossing
  <2> QED BY <1>13, <2>2 DEF Requests
<1>15. ListRest' /\ Unique' /\ RemovedAreGone'
  <2>1. asked' \in 0..MaxSent
    BY <1>1, <1>5, RequestsAssumption DEF ListRest
  <2> QED BY <1>1, <1>5, <2>1 DEF ListRest, Unique, RemovedAreGone
<1>16. ByID'
  BY <1>1, <1>5, <1>8, <1>9 DEF ByID
<1>17. AllListCalls'
  <2>1. \A c \in calls : ListCall(c)'
    BY <1>1, <1>5, <1>9 DEF AllListCalls, ListCall
  <2>2. ListCall(u)'
    BY <1>5, <1>9, <1>10 DEF ListCall
  <2> QED BY <1>5, <2>1, <2>2 DEF AllListCalls
<1>18. noted \subseteq noted'
  BY <1>5
<1>19. AllNoticed'
  <2>1. \A c \in calls : \A x \in Concerned(c) :
          c.op \in Writes /\ x \in noted' /\ x \notin noted => Concerned(c) \subseteq noted'
    <3> SUFFICES ASSUME NEW c \in calls, NEW x \in Concerned(c), c.op \in Writes,
                        x \in noted', x \notin noted
                 PROVE  Concerned(c) \subseteq noted'
      OBVIOUS
    <3>1. CASE x \in mine
      BY <1>13, <3>1
    <3>2. CASE \E d \in calls : d.op \in Writes /\ x \in Concerned(d) /\ Concerned(d) \subseteq noted'
      <4>1. PICK d \in calls : d.op \in Writes /\ x \in Concerned(d) /\ Concerned(d) \subseteq noted'
        BY <3>2
      <4>2. About(c, x) /\ About(d, x)
        BY <4>1 DEF About
      <4>3. x \in Names \union IDs
        <5>1. PICK e, y : e = c.arg.addr /\ y = c.arg.to
          OBVIOUS
        <5>2. ListCall(c)
          BY <1>1 DEF AllListCalls
        <5> QED BY <1>1, <4>2, <5>1, <5>2, Concerns
      <4>4. c = d
        BY <4>2, <4>3, SoleCall DEF Clean
      <4> QED BY <4>1, <4>4
    <3> QED BY <1>14, <3>1, <3>2
  <2>2. \A c \in calls : Noticed(c)'
    BY <1>5, <1>18, <2>1, NoticedMore
  <2>3. Noticed(u)'
    <3>1. op = "rename" /\ b \in noted' => t \in noted'
      <4>1. op = "rename" => t \in mine
        BY <1>3, NoneIsNothing
      <4> QED BY <1>7, <1>12, <4>1 DEF Alone
    <3>2. from \in IDs => address # None
      <4>1. ASSUME from \in IDs PROVE address # None
        <5>1. PICK x : x = Shown(from)
          OBVIOUS
        <5>2. x \in Record
          BY <1>1, <4>1, <5>1, ShownType
        <5>3. x.addr \in Names \union IDs
          BY <5>2, RecordFields
        <5> QED BY <4>1, <5>1, <5>3, NoneIsNothing
      <4> QED BY <4>1
    <3>3. from \in IDs /\ b \in noted' => address \in noted'
      <4>1. from \in IDs => address \in mine
        BY <1>3, <3>2
      <4> QED BY <1>7, <1>12, <4>1 DEF Alone
    <3>4. from \in IDs /\ b \notin noted' => address = b
      BY <1>7, <1>12, <3>2
    <3> QED BY <1>2, <1>6, <1>9, <3>1, <3>3, <3>4 DEF Noticed
  <2> QED BY <1>5, <2>2, <2>3 DEF AllNoticed
<1>20. ASSUME NEW a, a \in Names \union IDs, a \notin noted' PROVE InOrder(a)'
  <2>1. Clean(a) /\ InOrder(a)
    BY <1>1, <1>18, <1>20 DEF AllInOrder, Clean
  <2>2. /\ RowsSay(a)' <=> RowsSay(a)
        /\ Due(a)' <=> Due(a)
        /\ \A c : After(c, a)' <=> After(c, a)
        /\ \A f : Says(f, a)' <=> Says(f, a)
    BY <1>5, SameAfter
  <2>3. ListsSay(a)'
    BY <1>5, <1>8, <2>1, <2>2 DEF InOrder, ListsSay
  <2>4. Answers(a)'
    BY <1>5, <1>6, <2>1, <2>2 DEF InOrder, Answers, OfARow, Carried
  <2>5. CASE About(u, a)
    <3>1. a \in mine /\ Alone(mine)
      BY <1>11, <1>12, <1>20, <2>5
    <3>2. \A c \in calls : c.op # "list" /\ ~ About(c, a)
      BY <3>1 DEF Alone, Requests, About
    <3>3. RowsSay(a)
      BY <2>1, <3>2 DEF InOrder, Agreed, Awaited, Brings, OfARow
    <3>4. Sole(a)'
      BY <1>5, <1>8, <3>2 DEF Sole
    <3> QED BY <2>2, <2>3, <2>4, <3>3, <3>4 DEF InOrder, Agreed
  <2>6. CASE ~ About(u, a)
    <3>1. Sole(a)'
      BY <1>5, <1>8, <2>1, <2>6 DEF InOrder, Sole
    <3>2. Agreed(a)'
      BY <1>5, <2>1, <2>2 DEF InOrder, Agreed, Awaited
    <3> QED BY <2>3, <2>4, <3>1, <3>2 DEF InOrder
  <2> QED BY <2>5, <2>6
<1>21. AllInOrder'
  BY <1>20 DEF AllInOrder, Clean
<1> QED BY <1>15, <1>16, <1>17, <1>19, <1>21 DEF LInv

LEMMA ButtonStep ==
  ASSUME LInv, Add \/ \E i \in IDs : Edit(i) \/ RemoveRow(i) \/ Rename(i)
  PROVE  LInv'
<1>1. /\ ListRest /\ page \in Pages /\ ByID
  BY DEF LInv, ListRest
<1>2. None \notin IDs
  BY NoneIsNothing
<1>3. CASE Add
  <2>1. PICK b \in Addresses, v \in page.adds : Write("put", None, Arg(b, v, None), None)
    BY <1>3 DEF Add
  <2>2. v \in Vals /\ b \in Names \union IDs /\ (~ page.byName => b \in IDs)
    BY <1>1, PageFields
  <2>3. PICK arg : arg = Arg(b, v, None)
    OBVIOUS
  <2> QED BY <1>2, <2>1, <2>2, <2>3, AskStep DEF Writes
<1>4. ASSUME NEW i \in IDs, Edit(i) \/ RemoveRow(i) \/ Rename(i) PROVE LInv'
  <2>1. Shown(i) # None
    BY <1>4 DEF Edit, RemoveRow, Rename
  <2>2. PICK b, address : b = rows[i].addr /\ address = Shown(i).addr
    OBVIOUS
  <2>3. b \in Names \union IDs /\ (~ page.byName => b \in IDs)
    <3>1. rows[i] # None /\ b \in Names \union IDs
      BY <1>1, <2>1, <2>2, ShownType
    <3> QED BY <1>1, <2>2, <3>1 DEF ByID
  <2>4. CASE Edit(i)
    <3>1. PICK v \in Vals : Write("put", i, Arg(b, v, None), address)
      BY <2>2, <2>4 DEF Edit
    <3>2. PICK arg : arg = Arg(b, v, None)
      OBVIOUS
    <3> QED BY <1>2, <2>1, <2>2, <2>3, <3>1, <3>2, AskStep DEF Writes
  <2>5. CASE RemoveRow(i)
    <3>1. Write("delete", i, Arg(b, None, None), address)
      BY <2>2, <2>5 DEF RemoveRow
    <3>2. PICK arg : arg = Arg(b, None, None)
      OBVIOUS
    <3> QED BY <1>2, <2>1, <2>2, <2>3, <3>1, <3>2, AskStep DEF Writes
  <2>6. CASE Rename(i)
    <3>1. PICK t \in Names : Write("rename", i, Arg(b, None, t), address)
      BY <2>2, <2>6 DEF Rename
    <3>2. PICK arg : arg = Arg(b, None, t)
      OBVIOUS
    <3>3. page.byName
      BY <1>1, <2>6, PageFields DEF Rename
    <3> QED BY <1>2, <2>1, <2>2, <2>3, <3>1, <3>2, <3>3, AskStep DEF Writes
  <2> QED BY <1>4, <2>4, <2>5, <2>6
<1> QED BY <1>3, <1>4

-----------------------------------------------------------------------------
(* The lists: the server.                                                   *)

(* A request the server carries out: it leaves what does not concern it,    *)
(* and for an address nothing is noted of it does what the row that asked   *)
(* is about to show, or what the list that follows will, or nothing.        *)
LEMMA AnsweredList ==
  ASSUME LInv, NEW c \in calls, ~ c.served, NEW x, Answer(c, x),
         UNCHANGED <<page, rows, asked, faults, noted>>,
         entities' \in [IDs -> Record \union {None}],
         Unique', removed' \subseteq Names \union IDs, RemovedAreGone',
         ~ page.byName => \A i \in IDs : entities'[i] # None => entities'[i].addr = i,
         c.op = "list" => x = entities /\ entities' = entities,
         c.op = "put" /\ x # None => x = Put(c),
         c.op = "rename" /\ x # None => x = c.arg.to,
         \A a : Clean(a) /\ ~ About(c, a) =>
           \A j \in IDs : entities'[j] = entities[j]
                          \/ (~ Has(entities[j], a) /\ ~ Has(entities'[j], a)),
         \A a : Clean(a) /\ About(c, a) =>
           \/ x = None /\ entities' = entities
           \/ x # None /\ c.from = None /\ Due(a)'
           \/ x # None /\ c.from \in IDs /\ After(c, a)'
  PROVE  LInv'
<1>1. /\ ListRest /\ page \in Pages /\ Unique /\ RemovedAreGone /\ ByID /\ AllListCalls /\ AllNoticed /\ AllInOrder
  BY DEF LInv, ListRest
<1>2. ListCall(c) /\ Shape(c) /\ Noticed(c)
  BY <1>1 DEF AllListCalls, ListCall, AllNoticed
<1>3. PICK u :
        /\ calls' = (calls \ {c}) \union {u}
        /\ u.op = c.op /\ u.from = c.from /\ u.arg = c.arg /\ u.served
        /\ u.answer = x /\ (u.heard <=> c.heard) /\ Shape(u)
  BY <1>2, AnsweredCalls
<1>4. \A i \in IDs : Shown(i)' = Shown(i)
  BY DEF Shown
<1>5. ListRest'
  BY <1>1 DEF ListRest
<1>6. \A f \in [IDs -> Record \union {None}] : f # None
  BY NoneIsNothing
<1>7. ByID'
  <2>1. c.op = "list" /\ ~ page.byName => \A i \in IDs : x[i] # None => x[i].addr = i
    BY <1>1 DEF ByID
  <2> QED BY <1>1, <1>3, <1>4, <2>1 DEF ByID
<1>8. AllListCalls'
  <2>1. \A d \in calls : ListCall(d)'
    BY <1>1, <1>4 DEF AllListCalls, ListCall
  <2>2. ListCall(u)'
    <3>1. c.op = "list" => x \in [IDs -> Record \union {None}]
      BY <1>1 DEF ListRest
    <3> QED BY <1>2, <1>3, <1>4, <3>1 DEF ListCall, Put
  <2> QED BY <1>3, <2>1, <2>2 DEF AllListCalls
<1>9. AllNoticed'
  BY <1>1, <1>2, <1>3, <1>4 DEF AllNoticed, Noticed
<1>10. \A a : About(u, a) <=> About(c, a)
  BY <1>3 DEF About, Concerned
<1>11. ASSUME NEW a, Clean(a) PROVE InOrder(a)'
  <2>1. InOrder(a)
    BY <1>1, <1>11 DEF AllInOrder
  <2>2. Sole(a)'
    BY <1>3, <1>10, <2>1 DEF InOrder, Sole
  <2>3. CASE ~ About(c, a)
    <3>1. \A j \in IDs : entities'[j] = entities[j]
                         \/ (~ Has(entities[j], a) /\ ~ Has(entities'[j], a))
      BY <1>11, <2>3
    <3>2. /\ RowsSay(a) => RowsSay(a)'
          /\ Due(a) => Due(a)'
          /\ \A f : Says(f, a) => Says(f, a)'
      BY <3>1, FarRecords
    <3>3. ListsSay(a)'
      <4>1. c.op = "list" => Says(x, a)'
        BY DEF Says
      <4> QED BY <1>3, <2>1, <3>2, <4>1 DEF InOrder, ListsSay
    <3>4. \A d \in calls : OfARow(d, a) => After(d, a)'
      BY <1>11, <2>1, <3>1, FarAfter DEF InOrder, Answers
    <3>5. ~ OfARow(u, a)
      BY <1>10, <2>3 DEF OfARow
    <3>6. Answers(a)'
      BY <1>3, <3>4, <3>5 DEF Answers
    <3>7. \A d \in calls : OfARow(d, a) => d \in calls'
      BY <1>3, <2>3 DEF OfARow
    <3>8. Awaited(a) => Awaited(a)'
      <4>1. Brings(c, a) => Brings(u, a)
        BY <1>3, <2>3 DEF Brings
      <4>2. u \in calls' /\ \A d \in calls : d # c => d \in calls'
        BY <1>3
      <4> QED BY <4>1, <4>2 DEF Awaited
    <3> QED BY <2>1, <2>2, <3>2, <3>3, <3>6, <3>7, <3>8 DEF InOrder, Agreed
  <2>4. CASE About(c, a)
    <3>1. \A d \in calls : d.op # "list" /\ (About(d, a) => d = c)
      BY <1>11, <2>4, SoleCall
    <3>2. RowsSay(a)
      BY <1>11, <2>4, SoleCall DEF Carried
    <3>3. ListsSay(a)'
      BY <1>3, <3>1 DEF ListsSay
    <3>4. \A d \in calls : d # c => ~ OfARow(d, a)
      BY <3>1 DEF OfARow
    <3>5. \A y : After(u, y)' <=> After(c, y)'
      BY <1>3 DEF After, Put
    <3>6. CASE x = None /\ entities' = entities
      <4>1. ~ OfARow(u, a)
        BY <1>3, <3>6 DEF OfARow, Carried
      <4>2. Answers(a)'
        BY <1>3, <3>4, <4>1 DEF Answers
      <4>3. RowsSay(a)'
        BY <1>4, <3>2, <3>6 DEF RowsSay, Has
      <4> QED BY <2>2, <3>3, <4>2, <4>3 DEF InOrder, Agreed
    <3>7. CASE x # None /\ c.from = None /\ Due(a)'
      <4>1. ~ OfARow(u, a)
        BY <1>3, <3>7, NoneIsNothing DEF OfARow
      <4>2. Answers(a)'
        BY <1>3, <3>4, <4>1 DEF Answers
      <4>3. Awaited(a)'
        BY <1>3, <1>10, <2>4, <3>7 DEF Awaited, Brings, Carried
      <4> QED BY <2>2, <3>3, <3>7, <4>2, <4>3 DEF InOrder, Agreed
    <3>8. CASE x # None /\ c.from \in IDs /\ After(c, a)'
      <4>1. After(u, a)'
        BY <3>5, <3>8
      <4>2. Answers(a)'
        BY <1>3, <3>4, <4>1 DEF Answers
      <4>3. OfARow(u, a)
        BY <1>3, <1>10, <2>4, <3>8 DEF OfARow, Carried
      <4> QED BY <1>3, <2>2, <3>3, <4>2, <4>3 DEF InOrder, Agreed
    <3> QED BY <1>11, <2>4, <3>6, <3>7, <3>8
  <2> QED BY <2>3, <2>4
<1>12. AllInOrder'
  BY <1>11 DEF AllInOrder, Clean
<1> QED BY <1>5, <1>7, <1>8, <1>9, <1>12 DEF LInv

LEMMA ServeListStep ==
  ASSUME LInv, NEW c \in calls, Serve(c), c.op = "list"
  PROVE  LInv'
<1>1. PICK x : x = entities
  OBVIOUS
<1>2. /\ ~ c.served /\ Answer(c, x) /\ entities' = entities /\ removed' = removed
      /\ UNCHANGED <<page, rows, asked, faults, noted>>
  BY <1>1 DEF Serve
<1>3. ListRest /\ Unique /\ RemovedAreGone /\ ByID
  BY DEF LInv
<1>4. entities' \in [IDs -> Record \union {None}] /\ Unique' /\ removed' \subseteq Names \union IDs /\ RemovedAreGone'
  BY <1>2, <1>3 DEF ListRest, Unique, RemovedAreGone
<1>5. ~ page.byName => \A i \in IDs : entities'[i] # None => entities'[i].addr = i
  BY <1>2, <1>3 DEF ByID
<1>6. \A a : ~ About(c, a)
  BY DEF About, Writes
<1> QED BY <1>1, <1>2, <1>4, <1>5, <1>6, AnsweredList

(* A put over a name that is marked as deleted changes no record.           *)
LEMMA ServePutGone ==
  ASSUME LInv, NEW c \in calls, Serve(c), c.op = "put", NEW b, b = c.arg.addr, b \in removed
  PROVE  LInv'
<1>1. /\ ListRest /\ page \in Pages /\ Unique /\ RemovedAreGone /\ ByID /\ ListCall(c)
  BY DEF LInv, ListRest, AllListCalls
<1>2. PICK v : v = c.arg.val
  OBVIOUS
<1>3. PICK p : p = Put(c)
  OBVIOUS
<1>4. /\ Answer(c, p) /\ entities' = entities /\ removed' = removed
      /\ ~ c.served /\ UNCHANGED <<page, rows, asked, faults, noted>>
  BY <1>3 DEF Serve, ServePut, Put
<1>5. /\ b \in Names \union IDs /\ v \in Vals
      /\ c.op \in Writes /\ c.op # "rename" /\ c.op # "list" /\ c.op # "delete"
  BY <1>1, <1>2 DEF ListCall, Writes
<1>6. p # None
  <2>1. p = [addr |-> b, val |-> v]
    BY <1>2, <1>3 DEF Put
  <2> QED BY <1>5, <2>1, RecordIs
<1>7. /\ entities' \in [IDs -> Record \union {None}] /\ Unique' /\ removed' \subseteq Names \union IDs /\ RemovedAreGone'
      /\ ~ page.byName => \A i \in IDs : entities'[i] # None => entities'[i].addr = i
  BY <1>1, <1>4 DEF ListRest, Unique, RemovedAreGone, ByID
<1>8. \A a : About(c, a) <=> a = b
  BY <1>1, <1>5, Concerns
<1>9. \A j \in IDs : Shown(j)' = Shown(j)
  BY <1>4 DEF Shown
<1>10. ASSUME Clean(b) PROVE Due(b)'
  <2>1. RowsSay(b)
    BY <1>4, <1>8, <1>10, SoleCall DEF Carried
  <2> QED BY <1>4, <1>9, <2>1 DEF RowsSay, Due, Has
<1>11. ASSUME Clean(b), NEW k \in IDs, k = c.from PROVE FALSE
  <2>1. ~ Carried(c)
    BY <1>4 DEF Carried
  <2>2. Has(Shown(k), b) /\ entities[k] = Shown(k)
    BY <1>5, <1>11, <2>1, OwnRow
  <2> QED BY <1>1, <2>2 DEF RemovedAreGone
<1>12. c.from \in IDs \union {None}
  BY <1>1, <1>5 DEF ListCall
<1>13. \A a : Clean(a) /\ About(c, a) =>
           \/ p = None /\ entities' = entities
           \/ p # None /\ c.from = None /\ Due(a)'
           \/ p # None /\ c.from \in IDs /\ After(c, a)'
  BY <1>6, <1>8, <1>10, <1>11, <1>12
<1>14. \A a : Clean(a) /\ ~ About(c, a) =>
         \A j \in IDs : entities'[j] = entities[j]
                        \/ (~ Has(entities[j], a) /\ ~ Has(entities'[j], a))
  BY <1>4
<1> QED BY <1>3, <1>4, <1>5, <1>7, <1>13, <1>14, AnsweredList

LEMMA ServePutStep ==
  ASSUME LInv, NEW c \in calls, Serve(c), c.op = "put"
  PROVE  LInv'
<1> SUFFICES ASSUME c.arg.addr \notin removed PROVE LInv'
  BY ServePutGone
<1>1. /\ ListRest /\ page \in Pages /\ Unique /\ RemovedAreGone /\ ByID /\ ListCall(c)
  BY DEF LInv, ListRest, AllListCalls
<1>2. PICK b, v : b = c.arg.addr /\ v = c.arg.val
  OBVIOUS
<1>3. PICK p : p = Put(c)
  OBVIOUS
<1>4. PICK i \in Target(b) : entities' = [entities EXCEPT ![i] = p]
  BY <1>2, <1>3 DEF Serve, ServePut, Put
<1>5. ~ c.served /\ UNCHANGED <<page, rows, asked, faults, noted>> /\ removed' = removed
  BY DEF Serve, ServePut
<1>6. /\ b \in Names \union IDs /\ v \in Vals /\ (~ page.byName => b \in IDs)
      /\ c.op \in Writes /\ c.op # "rename" /\ c.op # "list" /\ c.op # "delete"
  BY <1>1, <1>2 DEF ListCall, Writes
<1>7. p \in Record /\ p.addr = b /\ p # None
  <2>1. p = [addr |-> b, val |-> v]
    BY <1>2, <1>3 DEF Put
  <2> QED BY <1>6, <2>1, RecordIs
<1>8. \A j : j \in Hit(b) <=> j \in IDs /\ Has(entities[j], b)
  BY DEF Hit, Has
<1>9. /\ i \in IDs /\ (Has(entities[i], b) \/ entities[i] = None)
      /\ \A j \in IDs : Has(entities[j], b) => j = i
      /\ entities[i] = None => \/ page.byName /\ rows[i] = None
                               \/ ~ page.byName /\ i = b
  <2>1. CASE Hit(b) # {}
    <3>1. i \in Hit(b)
      BY <1>4, <2>1 DEF Target
    <3>2. i \in IDs /\ Has(entities[i], b) /\ entities[i] # None
      BY <1>8, <3>1 DEF Has
    <3> QED BY <1>1, <3>2 DEF Unique
  <2>2. CASE Hit(b) = {} /\ page.byName
    <3>1. i \in IDs /\ entities[i] = None /\ rows[i] = None
      BY <1>4, <2>2 DEF Target, Unused
    <3> QED BY <1>8, <2>2, <3>1
  <2>3. CASE Hit(b) = {} /\ ~ page.byName
    <3>1. i = b /\ i \in IDs
      BY <1>4, <1>6, <2>3 DEF Target
    <3>2. entities[i] # None => Has(entities[i], b)
      BY <1>1, <2>3, <3>1 DEF ByID, Has
    <3> QED BY <1>8, <2>3, <3>1, <3>2
  <2> QED BY <2>1, <2>2, <2>3
<1>10. entities'[i] = p /\ \A j \in IDs : j # i => entities'[j] = entities[j]
  BY <1>1, <1>4, <1>9 DEF ListRest
<1>11. Answer(c, p)
  BY <1>3 DEF Serve, ServePut, Put
<1>12. entities' \in [IDs -> Record \union {None}]
  BY <1>1, <1>4, <1>7 DEF ListRest
<1>13. Has(p, b) /\ \A a : Has(p, a) => a = b
  BY <1>7 DEF Has
<1>14. Unique'
  <2> SUFFICES ASSUME NEW j \in IDs, NEW m \in IDs, NEW a, Has(entities'[j], a), Has(entities'[m], a)
               PROVE  j = m
    BY DEF Unique, Has
  <2> QED BY <1>1, <1>9, <1>10, <1>13 DEF Unique
<1>23. removed' \subseteq Names \union IDs /\ RemovedAreGone'
  <2>1. b \notin removed
    BY <1>2
  <2>2. \A j \in IDs : \A a : Has(entities'[j], a) => a = b \/ Has(entities[j], a)
    BY <1>10, <1>13
  <2> QED BY <1>1, <1>5, <2>1, <2>2 DEF ListRest, RemovedAreGone, Has
<1>15. ~ page.byName => \A j \in IDs : entities'[j] # None => entities'[j].addr = j
  <2>1. ~ page.byName => b = i
    BY <1>1, <1>9 DEF ByID, Has
  <2> QED BY <1>1, <1>7, <1>10, <2>1 DEF ByID
<1>16. \A a : About(c, a) <=> a = b
  BY <1>1, <1>2, <1>6, Concerns
<1>17. \A a : ~ About(c, a) =>
         \A j \in IDs : entities'[j] = entities[j]
                        \/ (~ Has(entities[j], a) /\ ~ Has(entities'[j], a))
  BY <1>9, <1>10, <1>13, <1>16 DEF Has
<1>18. \A j \in IDs : Shown(j)' = Shown(j)
  BY <1>5 DEF Shown
<1>19. ASSUME Clean(b), c.from = None PROVE Due(b)'
  <2>1. RowsSay(b)
    BY <1>5, <1>16, <1>19, SoleCall, <1>1 DEF ListCall, Carried
  <2>2. Has(entities[i], b) => Has(Shown(i), b)
    BY <1>9, <2>1 DEF RowsSay
  <2>3. entities[i] = None => Shown(i) = None \/ Has(Shown(i), b)
    BY <1>1, <1>9 DEF Shown, ByID, Has
  <2>4. \A j \in IDs : Has(Shown(j), b) => j = i
    BY <1>9, <2>1 DEF RowsSay
  <2>5. ASSUME NEW j \in IDs
        PROVE  /\ Has(entities'[j], b) => Shown(j) = None \/ Has(Shown(j), b)
               /\ Has(Shown(j), b) => Has(entities'[j], b)
    BY <1>9, <1>10, <1>13, <2>2, <2>3, <2>4
  <2> QED BY <1>18, <2>5 DEF Due, Has
<1>20. ASSUME Clean(b), NEW k \in IDs, k = c.from PROVE After(c, b)'
  <2>1. ~ Carried(c)
    BY <1>5 DEF Carried
  <2>2. /\ Has(Shown(k), b) /\ entities[k] = Shown(k)
        /\ \A j \in IDs : Has(entities[j], b) \/ Has(Shown(j), b) => j = k
    BY <1>2, <1>6, <1>20, <2>1, OwnRow
  <2>3. i = k
    BY <1>9, <2>2
  <2>4. \A j \in IDs : j # k => ~ Has(entities'[j], b) /\ ~ Has(Shown(j)', b)
    BY <1>10, <1>18, <2>2, <2>3
  <2>5. entities'[k] = p
    BY <1>10, <2>3
  <2> QED BY <1>3, <1>6, <1>20, <2>4, <2>5 DEF After, Has, Put
<1>21. c.from \in IDs \union {None}
  BY <1>1, <1>6 DEF ListCall
<1>22. \A a : Clean(a) /\ About(c, a) =>
           \/ p = None /\ entities' = entities
           \/ p # None /\ c.from = None /\ Due(a)'
           \/ p # None /\ c.from \in IDs /\ After(c, a)'
  BY <1>7, <1>16, <1>19, <1>20, <1>21
<1> QED BY <1>3, <1>5, <1>6, <1>11, <1>12, <1>14, <1>15, <1>17, <1>22, <1>23, AnsweredList

LEMMA ServeDeleteStep ==
  ASSUME LInv, NEW c \in calls, Serve(c), c.op = "delete"
  PROVE  LInv'
<1>1. /\ ListRest /\ page \in Pages /\ Unique /\ RemovedAreGone /\ ByID /\ ListCall(c)
  BY DEF LInv, ListRest, AllListCalls
<1>2. PICK b : b = c.arg.addr
  OBVIOUS
<1>3. /\ entities' = [i \in IDs |-> IF i \in Hit(b) THEN None ELSE entities[i]]
      /\ removed' = removed \union {a \in {b} : page.byName /\ Hit(a) # {}}
      /\ Answer(c, TRUE) /\ ~ c.served /\ UNCHANGED <<page, rows, asked, faults, noted>>
  BY <1>2 DEF Serve, ServeDelete
<1>4. /\ c.op \in Writes /\ c.op # "rename" /\ c.op # "list" /\ c.op # "put" /\ c.from \in IDs
  BY <1>1 DEF ListCall, Writes
<1>5. \A j : j \in Hit(b) <=> j \in IDs /\ Has(entities[j], b)
  BY DEF Hit, Has
<1>6. \A j \in IDs : \/ entities'[j] = entities[j] /\ ~ Has(entities[j], b)
                     \/ entities'[j] = None /\ Has(entities[j], b)
  BY <1>3, <1>5
<1>7. entities' \in [IDs -> Record \union {None}]
  BY <1>1, <1>3 DEF ListRest
<1>8. Unique'
  BY <1>1, <1>6 DEF Unique, Has
<1>16. removed' \subseteq Names \union IDs
  <2>1. b \in Names \union IDs
    BY <1>1, <1>2, <1>4 DEF ListCall
  <2> QED BY <1>1, <1>3, <2>1 DEF ListRest
<1>17. RemovedAreGone'
  <2>1. \A j \in IDs : \A a : Has(entities'[j], a) => a # b /\ Has(entities[j], a)
    BY <1>6 DEF Has
  <2>2. \A a \in removed' : a \in removed \/ a = b
    BY <1>3
  <2> QED BY <1>1, <2>1, <2>2 DEF RemovedAreGone, Has
<1>9. ~ page.byName => \A j \in IDs : entities'[j] # None => entities'[j].addr = j
  BY <1>1, <1>6 DEF ByID
<1>10. \A a : About(c, a) <=> a = b
  BY <1>1, <1>2, <1>4, Concerns
<1>11. \A a : ~ About(c, a) =>
         \A j \in IDs : entities'[j] = entities[j]
                        \/ (~ Has(entities[j], a) /\ ~ Has(entities'[j], a))
  BY <1>6, <1>10 DEF Has
<1>12. ASSUME Clean(b) PROVE After(c, b)'
  <2>1. PICK k \in IDs : k = c.from
    BY <1>4
  <2>2. ~ Carried(c)
    BY <1>3 DEF Carried
  <2>3. \A j \in IDs : Has(entities[j], b) \/ Has(Shown(j), b) => j = k
    BY <1>2, <1>4, <1>12, <2>1, <2>2, OwnRow
  <2>4. \A j \in IDs : Shown(j)' = Shown(j)
    BY <1>3 DEF Shown
  <2>5. \A j \in IDs : ~ Has(entities'[j], b)
    BY <1>6 DEF Has
  <2> QED BY <1>4, <2>1, <2>3, <2>4, <2>5 DEF After, Has
<1>13. PICK x : x = TRUE
  OBVIOUS
<1>14. x # None /\ Answer(c, x)
  BY <1>3, <1>13, NoneIsNothing
<1>15. \A a : Clean(a) /\ About(c, a) =>
           \/ x = None /\ entities' = entities
           \/ x # None /\ c.from = None /\ Due(a)'
           \/ x # None /\ c.from \in IDs /\ After(c, a)'
  BY <1>4, <1>10, <1>12, <1>14
<1> QED BY <1>3, <1>4, <1>7, <1>8, <1>9, <1>11, <1>14, <1>15, <1>16, <1>17, AnsweredList

LEMMA ServeRenameStep ==
  ASSUME LInv, NEW c \in calls, Serve(c), c.op = "rename"
  PROVE  LInv'
<1>1. /\ ListRest /\ page \in Pages /\ Unique /\ RemovedAreGone /\ ByID /\ ListCall(c)
  BY DEF LInv, ListRest, AllListCalls
<1>2. PICK b, t : b = c.arg.addr /\ t = c.arg.to
  OBVIOUS
<1>3. /\ ServeRename(c) /\ ~ c.served /\ UNCHANGED <<page, rows, asked, faults, noted>>
      /\ removed' = removed /\ removed' \subseteq Names \union IDs
  BY <1>1 DEF Serve, ServeRename, ListRest
<1>4. /\ c.op \in Writes /\ c.op # "list" /\ c.op # "put" /\ c.op # "delete" /\ c.from \in IDs
      /\ page.byName /\ t \in Names /\ t # None
  BY <1>1, <1>2, NoneIsNothing DEF ListCall, Writes
<1>5. \A a : About(c, a) <=> a = b \/ a = t
  BY <1>1, <1>2, <1>4, Concerns
<1>6. \A y, j : j \in Hit(y) <=> j \in IDs /\ Has(entities[j], y)
  BY DEF Hit, Has
<1>7. CASE /\ Hit(b) # {} /\ Hit(t) \subseteq Hit(b) /\ t \notin removed
           /\ entities' = [i \in IDs |-> IF i \in Hit(b)
                             THEN [entities[i] EXCEPT !.addr = t] ELSE entities[i]]
           /\ Answer(c, t)
  <2>1. PICK m : m \in Hit(b)
    BY <1>7
  <2>2. /\ m \in IDs /\ Has(entities[m], b)
        /\ \A j \in IDs : Has(entities[j], b) \/ Has(entities[j], t) => j = m
    BY <1>1, <1>6, <1>7, <2>1 DEF Unique
  <2>3. PICK e, s : e = entities[m] /\ s = e.val
    OBVIOUS
  <2>4. e \in Record /\ e = [addr |-> e.addr, val |-> s] /\ s \in Vals
    <3>1. e \in Record
      BY <1>1, <2>2, <2>3 DEF ListRest, Has
    <3> QED BY <2>3, <3>1, RecordFields
  <2>5. PICK q : q = [addr |-> t, val |-> s]
    OBVIOUS
  <2>6. q \in Record /\ q.addr = t /\ q # None
    BY <1>4, <2>4, <2>5, RecordIs
  <2>7. [e EXCEPT !.addr = t] = q
    BY <2>4, <2>5
  <2>8. entities'[m] = q
    BY <1>7, <2>1, <2>2, <2>3, <2>7
  <2>9. \A j \in IDs : j # m => entities'[j] = entities[j]
    BY <1>6, <1>7, <2>2
  <2>10. entities' \in [IDs -> Record \union {None}]
    <3>1. \A j \in IDs : entities'[j] \in Record \union {None}
      BY <1>1, <2>6, <2>8, <2>9 DEF ListRest
    <3>2. PICK w : w = entities'
      OBVIOUS
    <3>3. w = [i \in IDs |-> w[i]]
      BY <1>7, <3>2
    <3> QED BY <3>1, <3>2, <3>3
  <2>11. Has(q, t) /\ \A a : Has(q, a) => a = t
    BY <2>6 DEF Has
  <2>12. Unique'
    <3> SUFFICES ASSUME NEW j \in IDs, NEW l \in IDs, NEW a, Has(entities'[j], a), Has(entities'[l], a)
                 PROVE  j = l
      BY DEF Unique, Has
    <3> QED BY <1>1, <2>2, <2>8, <2>9, <2>11 DEF Unique
  <2>18. RemovedAreGone'
    <3>1. \A j \in IDs : \A a : Has(entities'[j], a) => a = t \/ Has(entities[j], a)
      BY <2>8, <2>9, <2>11
    <3> QED BY <1>1, <1>3, <1>7, <3>1 DEF RemovedAreGone, Has
  <2>13. \A a : Has(entities[m], a) => a = b
    BY <2>2 DEF Has
  <2>14. \A a : ~ About(c, a) =>
           \A j \in IDs : entities'[j] = entities[j]
                          \/ (~ Has(entities[j], a) /\ ~ Has(entities'[j], a))
    BY <1>5, <2>8, <2>9, <2>11, <2>13
  <2>15. ASSUME NEW a, Clean(a), About(c, a) PROVE After(c, a)'
    <3>1. Clean(b)
      BY <1>2, <2>15, CleanCall
    <3>2. PICK k \in IDs : k = c.from
      BY <1>4
    <3>3. ~ Carried(c)
      BY <1>3 DEF Carried
    <3>4. /\ Has(Shown(k), b) /\ entities[k] = Shown(k)
          /\ \A j \in IDs : Has(entities[j], b) \/ Has(Shown(j), b) => j = k
      BY <1>2, <1>4, <3>1, <3>2, <3>3, OwnRow
    <3>5. k = m
      BY <2>2, <3>4
    <3>6. RowsSay(a)
      BY <2>15, <3>3, SoleCall
    <3>7. \A j \in IDs : Shown(j)' = Shown(j)
      BY <1>3 DEF Shown
    <3>8. \A j \in IDs : j # k => ~ Has(Shown(j), a) /\ ~ Has(entities[j], a)
      BY <1>5, <2>2, <2>15, <3>4, <3>5, <3>6 DEF RowsSay
    <3>9. \A j \in IDs : j # k => ~ Has(entities'[j], a) /\ ~ Has(Shown(j)', a)
      BY <2>9, <3>5, <3>7, <3>8
    <3>10. a # t => ~ Has(entities'[k], a)
      BY <2>8, <2>11, <3>5
    <3>11. PICK z : z = Shown(k)'.val
      OBVIOUS
    <3>12. z = s
      BY <2>3, <3>4, <3>5, <3>7, <3>11
    <3>13. a = t => entities'[k] = [addr |-> a, val |-> z]
      BY <2>5, <2>8, <3>5, <3>12
    <3> QED BY <1>2, <1>4, <3>2, <3>9, <3>10, <3>11, <3>13 DEF After, Has
  <2>16. \A a : Clean(a) /\ About(c, a) =>
           \/ t = None /\ entities' = entities
           \/ t # None /\ c.from = None /\ Due(a)'
           \/ t # None /\ c.from \in IDs /\ After(c, a)'
    BY <1>4, <2>15
  <2>17. Answer(c, t)
    BY <1>7
  <2> QED BY <1>2, <1>3, <1>4, <2>10, <2>12, <2>14, <2>16, <2>17, <2>18, AnsweredList
<1>8. CASE UNCHANGED entities /\ Answer(c, None)
  <2>1. PICK x : x = None
    OBVIOUS
  <2>2. Answer(c, x)
    BY <1>8, <2>1
  <2>3. /\ entities' \in [IDs -> Record \union {None}] /\ Unique' /\ RemovedAreGone'
        /\ \A a : ~ About(c, a) =>
             \A j \in IDs : entities'[j] = entities[j]
                            \/ (~ Has(entities[j], a) /\ ~ Has(entities'[j], a))
    BY <1>1, <1>3, <1>8 DEF ListRest, Unique, RemovedAreGone
  <2>4. \A a : Clean(a) /\ About(c, a) =>
           \/ x = None /\ entities' = entities
           \/ x # None /\ c.from = None /\ Due(a)'
           \/ x # None /\ c.from \in IDs /\ After(c, a)'
    BY <1>8, <2>1
  <2> QED BY <1>3, <1>4, <2>1, <2>2, <2>3, <2>4, AnsweredList
<1> QED BY <1>2, <1>3, <1>7, <1>8 DEF ServeRename

LEMMA ServeStep ==
  ASSUME LInv, NEW c \in calls, Serve(c)
  PROVE  LInv'
BY ServeListStep, ServePutStep, ServeDeleteStep, ServeRenameStep DEF Serve

(* A write that fails is noted, with all it concerns.                       *)
LEMMA WriteFails ==
  ASSUME LInv, NEW c \in calls, Lose(c), c.op \in Writes
  PROVE  LInv'
<1>1. /\ ListRest /\ page \in Pages /\ Unique /\ RemovedAreGone /\ ByID /\ AllListCalls /\ AllNoticed /\ AllInOrder
  BY DEF LInv, ListRest
<1>2. /\ c.op \in Writes /\ faults < MaxFaults /\ faults' = faults + 1 /\ Answer(c, None)
      /\ noted' = noted \union Concerned(c)
      /\ UNCHANGED <<page, entities, removed, rows, asked>>
  BY DEF Lose, Fail, listVars, Writes
<1>3. ListCall(c) /\ Shape(c)
  BY <1>1 DEF AllListCalls, ListCall
<1>4. PICK u :
        /\ calls' = (calls \ {c}) \union {u}
        /\ u.op = c.op /\ u.from = c.from /\ u.arg = c.arg /\ u.served
        /\ u.answer = None /\ (u.heard <=> c.heard) /\ Shape(u)
  BY <1>2, <1>3, AnsweredCalls
<1>5. \A i \in IDs : Shown(i)' = Shown(i)
  BY <1>2 DEF Shown
<1>6. c.op # "list"
  BY <1>2 DEF Writes
<1>7. ListRest' /\ Unique' /\ RemovedAreGone'
  <2>1. faults' \in 0..MaxFaults
    BY <1>1, <1>2, RequestsAssumption DEF ListRest
  <2> QED BY <1>1, <1>2, <2>1 DEF ListRest, Unique, RemovedAreGone
<1>8. ByID'
  BY <1>1, <1>2, <1>4, <1>5, <1>6 DEF ByID
<1>9. AllListCalls'
  <2>1. \A d \in calls : ListCall(d)'
    BY <1>1, <1>2, <1>5 DEF AllListCalls, ListCall
  <2>2. ListCall(u)'
    BY <1>2, <1>3, <1>4, <1>5, <1>6 DEF ListCall
  <2> QED BY <1>4, <2>1, <2>2 DEF AllListCalls
<1>10. AllNoticed'
  <2>1. \A d \in calls : \A x \in Concerned(d) :
          d.op \in Writes /\ x \in noted' /\ x \notin noted => Concerned(d) \subseteq noted'
    <3> SUFFICES ASSUME NEW d \in calls, NEW x \in Concerned(d), d.op \in Writes,
                        x \in noted', x \notin noted
                 PROVE  Concerned(d) \subseteq noted'
      OBVIOUS
    <3>1. About(c, x) /\ About(d, x)
      BY <1>2 DEF About
    <3>2. PICK e, y : e = c.arg.addr /\ y = c.arg.to
      OBVIOUS
    <3>3. x \in Names \union IDs
      BY <1>1, <1>2, <1>3, <3>1, <3>2, Concerns
    <3>4. d = c
      BY <3>1, <3>3, SoleCall DEF Clean
    <3> QED BY <1>2, <3>4
  <2>2. noted \subseteq noted'
    BY <1>2
  <2>3. \A d \in calls : Noticed(d)'
    BY <1>2, <2>1, <2>2, NoticedMore
  <2>4. Noticed(u)'
    BY <1>4, <2>3 DEF Noticed
  <2> QED BY <1>4, <2>3, <2>4 DEF AllNoticed
<1>11. ASSUME NEW a, a \in Names \union IDs, a \notin noted' PROVE InOrder(a)'
  <2>1. Clean(a) /\ InOrder(a) /\ ~ About(c, a)
    BY <1>1, <1>2, <1>11 DEF AllInOrder, Clean, About
  <2>2. ~ About(u, a)
    BY <1>4, <2>1 DEF About, Concerned
  <2>3. /\ RowsSay(a)' <=> RowsSay(a)
        /\ Due(a)' <=> Due(a)
        /\ \A d : After(d, a)' <=> After(d, a)
        /\ \A f : Says(f, a)' <=> Says(f, a)
    BY <1>2, SameAfter
  <2>4. Sole(a)' /\ ListsSay(a)'
    BY <1>4, <1>6, <2>1, <2>2, <2>3 DEF InOrder, Sole, ListsSay
  <2>5. Answers(a)'
    BY <1>4, <2>1, <2>2, <2>3 DEF InOrder, Answers, OfARow
  <2>6. Awaited(a) => Awaited(a)'
    BY <1>4, <1>6, <2>1 DEF Awaited, Brings
  <2>7. \A d \in calls : OfARow(d, a) => d \in calls'
    BY <1>4, <2>1 DEF OfARow
  <2> QED BY <2>1, <2>3, <2>4, <2>5, <2>6, <2>7 DEF InOrder, Agreed
<1>12. AllInOrder'
  BY <1>11 DEF AllInOrder, Clean
<1> QED BY <1>7, <1>8, <1>9, <1>10, <1>12 DEF LInv

(* A list that fails is awaited no more by what it was to show, which is    *)
(* noted: of that no write is in flight.                                    *)
LEMMA ListFails ==
  ASSUME LInv, NEW c \in calls, Lose(c), c.op = "list"
  PROVE  LInv'
<1>1. /\ ListRest /\ page \in Pages /\ Unique /\ RemovedAreGone /\ ByID /\ AllListCalls /\ AllNoticed /\ AllInOrder
  BY DEF LInv, ListRest
<1>2. /\ faults < MaxFaults /\ faults' = faults + 1 /\ calls' = calls \ {c}
      /\ noted' = noted \union (IF c.arg = None THEN Names \union IDs ELSE {c.arg})
      /\ UNCHANGED <<page, entities, removed, rows, asked>>
  BY DEF Lose, FailUnseen, listVars, Writes
<1>3. \A i \in IDs : Shown(i)' = Shown(i)
  BY <1>2 DEF Shown
<1>4. noted \subseteq noted'
  BY <1>2
<1>5. ListRest' /\ Unique' /\ RemovedAreGone' /\ ByID'
  <2>1. faults' \in 0..MaxFaults
    BY <1>1, <1>2, RequestsAssumption DEF ListRest
  <2> QED BY <1>1, <1>2, <1>3, <2>1 DEF ListRest, Unique, RemovedAreGone, ByID
<1>6. AllListCalls'
  BY <1>1, <1>2, <1>3 DEF AllListCalls, ListCall
<1>7. AllNoticed'
  <2>1. \A d \in calls : \A x \in Concerned(d) :
          d.op \in Writes /\ x \in noted' /\ x \notin noted => Concerned(d) \subseteq noted'
    <3> SUFFICES ASSUME NEW d \in calls, NEW x \in Concerned(d), d.op \in Writes, x \notin noted
                 PROVE  FALSE
      OBVIOUS
    <3>1. About(d, x)
      BY DEF About
    <3>2. x \in Names \union IDs
      <4>1. PICK b, t : b = d.arg.addr /\ t = d.arg.to
        OBVIOUS
      <4>2. ListCall(d)
        BY <1>1 DEF AllListCalls
      <4> QED BY <1>1, <3>1, <4>1, <4>2, Concerns
    <3> QED BY <3>1, <3>2, SoleCall DEF Clean
  <2>2. \A d \in calls : Noticed(d)'
    BY <1>2, <1>4, <2>1, NoticedMore
  <2> QED BY <1>2, <2>2 DEF AllNoticed
<1>8. ASSUME NEW a, a \in Names \union IDs, a \notin noted' PROVE InOrder(a)'
  <2>1. Clean(a) /\ InOrder(a) /\ c.arg \notin {None, a}
    BY <1>1, <1>2, <1>8 DEF AllInOrder, Clean
  <2>2. ~ About(c, a)
    BY DEF About, Writes
  <2>3. /\ RowsSay(a)' <=> RowsSay(a)
        /\ Due(a)' <=> Due(a)
        /\ \A d : After(d, a)' <=> After(d, a)
        /\ \A f : Says(f, a)' <=> Says(f, a)
    BY <1>2, SameAfter
  <2>4. Sole(a)' /\ ListsSay(a)' /\ Answers(a)'
    BY <1>2, <2>1, <2>3 DEF InOrder, Sole, ListsSay, Answers, OfARow
  <2>5. Awaited(a) => Awaited(a)'
    BY <1>2, <2>1, <2>2 DEF Awaited, Brings
  <2>6. \A d \in calls : OfARow(d, a) => d \in calls'
    BY <1>2, <2>2 DEF OfARow
  <2> QED BY <2>1, <2>3, <2>4, <2>5, <2>6 DEF InOrder, Agreed
<1>9. AllInOrder'
  BY <1>8 DEF AllInOrder, Clean
<1> QED BY <1>5, <1>6, <1>7, <1>9 DEF LInv

LEMMA LoseStep ==
  ASSUME LInv, NEW c \in calls, Lose(c)
  PROVE  LInv'
BY WriteFails, ListFails DEF Lose

-----------------------------------------------------------------------------
(* The lists: the answers.                                                  *)

(* The requests that stay when that of a row is answered, which nobody waits *)
(* for if the row has nothing to show any more.                             *)
Leaves(c, k, x) ==
  /\ \A u \in calls' : \E d \in calls \ {c} :
       Stays(u, d) /\ (d.from # k => u = d) /\ (x = None /\ d.from = k => ~ u.heard)
  /\ \A d \in calls \ {c} : d.from # k => d \in calls'

(* The row that asked shows another record, or none.                        *)
LEMMA ShowStep ==
  ASSUME LInv, NEW c \in calls, c.op \in Writes, c.heard, NEW k \in IDs, k = c.from,
         NEW b, b = c.arg.addr,
         NEW x \in Record \union {None}, NEW r, r = [rows[k] EXCEPT !.shown = x],
         rows' = [rows EXCEPT ![k] = r],
         UNCHANGED <<page, entities, removed, asked, faults, noted>>, Leaves(c, k, x),
         ~ page.byName /\ x # None => x.addr = k,
         b \in noted /\ x # None => x.addr \in noted,
         \A a : Clean(a) /\ About(c, a) => RowsSay(a)',
         \A a : Clean(a) /\ ~ About(c, a) => ~ Has(x, a)
  PROVE  LInv'
<1>1. /\ ListRest /\ page \in Pages /\ Unique /\ RemovedAreGone /\ ByID /\ AllListCalls /\ AllNoticed /\ AllInOrder
  BY DEF LInv, ListRest
<1>0. /\ \A u \in calls' : \E d \in calls \ {c} :
           Stays(u, d) /\ (d.from # k => u = d) /\ (x = None /\ d.from = k => ~ u.heard)
      /\ \A d \in calls \ {c} : d.from # k => d \in calls'
  BY DEF Leaves
<1>2. ListCall(c) /\ Shown(k) # None /\ rows[k].addr = b /\ c.op # "list"
  BY <1>1 DEF AllListCalls, ListCall, Writes
<1>3. rows[k] # None
  BY <1>1, <1>2, ShownType
<1>4. /\ rows' \in [IDs -> Row \union {None}]
      /\ rows'[k] # None /\ rows'[k].addr = rows[k].addr /\ Shown(k)' = x
      /\ \A j \in IDs : j # k => rows'[j] = rows[j] /\ Shown(j)' = Shown(j)
  BY <1>1, <1>3, RowPut
<1>5. ListRest' /\ Unique' /\ RemovedAreGone'
  BY <1>1, <1>4 DEF ListRest, Unique, RemovedAreGone
<1>6. None \notin IDs /\ k # None
  BY NoneIsNothing
<1>7. \A d \in calls : ListCall(d) /\ Noticed(d) /\ (d.op = "list" => d.from # k)
  BY <1>1, <1>6 DEF AllListCalls, AllNoticed, ListCall
<1>8. \A j \in IDs : rows'[j] # None <=> rows[j] # None
  BY <1>3, <1>4
<1>9. \A j \in IDs : rows'[j].addr = rows[j].addr
  BY <1>4
<1>10. ByID'
  <2> SUFFICES ASSUME ~ page.byName PROVE ByID'
    BY DEF ByID
  <2>1. \A i \in IDs : /\ entities[i] # None => entities[i].addr = i
                       /\ rows'[i] # None => rows'[i].addr = i
                       /\ Shown(i)' # None => Shown(i)'.addr = i
    BY <1>1, <1>4, <1>8, <1>9 DEF ByID
  <2>2. \A u \in calls' : u.op = "list" => u \in calls
    BY <1>0, <1>7 DEF Stays
  <2> QED BY <1>1, <2>1, <2>2 DEF ByID
<1>11. AllListCalls'
  <2> SUFFICES ASSUME NEW u \in calls' PROVE ListCall(u)'
    BY DEF AllListCalls
  <2>1. PICK d \in calls \ {c} :
          Stays(u, d) /\ (d.from # k => u = d) /\ (x = None /\ d.from = k => ~ u.heard)
    BY <1>0
  <2>2. ListCall(d) /\ (d.op = "list" => u = d)
    BY <1>7, <2>1
  <2>3. ASSUME u.op \in Writes, u.heard, u.from \in IDs
        PROVE  Shown(u.from)' # None /\ rows'[u.from].addr = u.arg.addr
    <3>1. PICK m : m = d.from
      OBVIOUS
    <3>2. Shown(m) # None /\ rows[m].addr = d.arg.addr /\ m \in IDs
      BY <2>1, <2>2, <2>3, <3>1 DEF ListCall, Stays
    <3>3. m = k => x # None
      BY <2>1, <2>3, <3>1
    <3>4. Shown(m)' # None /\ rows'[m].addr = rows[m].addr
      BY <1>4, <3>2, <3>3
    <3> QED BY <2>1, <3>1, <3>2, <3>4 DEF Stays
  <2> QED BY <2>1, <2>2, <2>3 DEF ListCall, Stays, Put
<1>12. ASSUME NEW a, Clean(a), NEW d \in calls, d # c, About(d, a) PROVE d.from # k
  <2> SUFFICES ASSUME d.from = k PROVE FALSE
    OBVIOUS
  <2>1. PICK e : e = d.arg.addr
    OBVIOUS
  <2>2. Clean(e) /\ About(d, e) /\ rows[k].addr = e
    BY <1>12, <2>1, CleanCall
  <2>3. About(c, b)
    BY <1>1, <1>2, Concerns
  <2> QED BY <1>2, <1>12, <2>2, <2>3, SoleCall
<1>13. AllNoticed'
  <2> SUFFICES ASSUME NEW u \in calls', u.op \in Writes PROVE Noticed(u)'
    BY DEF AllNoticed, Noticed
  <2>1. PICK d \in calls \ {c} :
          Stays(u, d) /\ (d.from # k => u = d) /\ (x = None /\ d.from = k => ~ u.heard)
    BY <1>0
  <2>2. PICK e, m : e = d.arg.addr /\ m = d.from
    OBVIOUS
  <2>3. /\ ListCall(d) /\ Noticed(d) /\ d.op \in Writes
        /\ u.arg = d.arg /\ u.from = m /\ u.op = d.op /\ (u.heard => d.heard)
    BY <1>7, <2>1, <2>2 DEF Stays
  <2>4. d.op = "rename" /\ e \in noted => d.arg.to \in noted
    BY <2>2, <2>3 DEF Noticed
  <2>5. ASSUME u.heard, m \in IDs, e \in noted PROVE Shown(m)'.addr \in noted
    <3>1. Shown(m).addr \in noted /\ rows[m].addr = e
      BY <2>2, <2>3, <2>5 DEF Noticed, ListCall
    <3>2. m = k => x # None /\ b \in noted
      BY <1>2, <2>1, <2>2, <2>5, <3>1
    <3> QED BY <1>4, <2>5, <3>1, <3>2
  <2>6. ASSUME e \notin noted PROVE u.heard /\ (m \in IDs => Shown(m)'.addr = e)
    <3>1. d.heard /\ (m \in IDs => Shown(m).addr = e)
      BY <2>2, <2>3, <2>6 DEF Noticed
    <3>2. Clean(e) /\ About(d, e)
      BY <1>1, <2>2, <2>3, <2>6, Concerns DEF Clean
    <3>3. m # k
      BY <1>12, <2>2, <3>2
    <3> QED BY <1>4, <2>1, <2>2, <3>1, <3>3
  <2> QED BY <2>2, <2>3, <2>4, <2>5, <2>6 DEF Noticed
<1>14. ASSUME NEW a, Clean(a) PROVE InOrder(a)'
  <2>1. InOrder(a)
    BY <1>1, <1>14 DEF AllInOrder
  <2>2. \A u \in calls' : u.op = "list" \/ About(u, a) => u \in calls \ {c}
    <3> SUFFICES ASSUME NEW u \in calls', u.op = "list" \/ About(u, a)
                 PROVE  u \in calls \ {c}
      OBVIOUS
    <3>1. PICK d \in calls \ {c} : Stays(u, d) /\ (d.from # k => u = d)
      BY <1>0
    <3>2. d.op = "list" \/ About(d, a)
      BY <3>1 DEF Stays, About, Concerned
    <3>3. d.from # k
      BY <1>7, <1>12, <1>14, <3>1, <3>2
    <3> QED BY <3>1, <3>3
  <2>3. \A d \in calls \ {c} : d.op = "list" \/ About(d, a) => d \in calls'
    BY <1>0, <1>7, <1>12, <1>14
  <2>4. \A f : Says(f, a)' <=> Says(f, a)
    BY DEF Says
  <2>5. Sole(a)'
    BY <2>1, <2>2 DEF InOrder, Sole
  <2>6. ListsSay(a)'
    BY <2>1, <2>2, <2>4 DEF InOrder, ListsSay
  <2>7. CASE About(c, a)
    <3>1. \A d \in calls : About(d, a) => d = c
      BY <1>14, <2>7, SoleCall
    <3>2. \A u \in calls' : ~ OfARow(u, a)
      BY <2>2, <3>1 DEF OfARow
    <3> QED BY <1>14, <2>5, <2>6, <2>7, <3>2 DEF InOrder, Answers, Agreed
  <2>8. CASE ~ About(c, a)
    <3>1. Shown(k) # None /\ ~ Has(Shown(k), a) /\ ~ Has(Shown(k)', a)
      BY <1>4, <1>14, <2>8, NotShown
    <3>2. (RowsSay(a) => RowsSay(a)') /\ (Due(a) => Due(a)')
      BY <1>4, <3>1, FarRow
    <3>3. \A d \in calls : OfARow(d, a) /\ After(d, a) => After(d, a)'
      BY <1>4, <1>14, <2>8, <3>1, FarRowAfter
    <3>4. Answers(a)'
      BY <2>1, <2>2, <3>3 DEF InOrder, Answers, OfARow
    <3>5. Awaited(a) => Awaited(a)'
      BY <1>2, <2>3, <2>8 DEF Awaited, Brings
    <3>6. \A d \in calls : OfARow(d, a) => d \in calls'
      BY <2>3, <2>8 DEF OfARow
    <3> QED BY <2>1, <2>5, <2>6, <3>2, <3>4, <3>5, <3>6 DEF InOrder, Agreed
  <2> QED BY <2>7, <2>8
<1>15. AllInOrder'
  BY <1>14 DEF AllInOrder, Clean
<1> QED BY <1>5, <1>10, <1>11, <1>13, <1>15 DEF LInv

LEMMA RowsAfter ==
  ASSUME ListRest, NEW k \in IDs, rows[k] # None, NEW x \in Record \union {None}, NEW r,
         r = [rows[k] EXCEPT !.shown = x], rows' = [rows EXCEPT ![k] = r], UNCHANGED entities,
         NEW c, k = c.from, NEW a, After(c, a),
         Has(entities[k], a) \/ Has(x, a) => entities[k] = x
  PROVE  RowsSay(a)'
<1>1. Shown(k)' = x /\ \A j \in IDs : j # k => Shown(j)' = Shown(j)
  BY RowPut
<1>2. \A j \in IDs : j # k => ~ Has(entities[j], a) /\ ~ Has(Shown(j), a)
  BY DEF After
<1>3. \A j \in IDs : Has(entities[j], a) \/ Has(Shown(j)', a) => entities[j] = Shown(j)'
  BY <1>1, <1>2
<1> QED BY <1>3 DEF RowsSay, Has

(* The requests that stay when one is answered.                             *)
LEMMA OthersStay ==
  ASSUME AllListCalls, NEW c \in calls, calls' = calls \ {c}
  PROVE  \A u \in calls' : u \in calls \ {c} /\ Stays(u, u)
BY DEF AllListCalls, ListCall, Stays

LEMMA EditedStep ==
  ASSUME LInv, NEW c \in calls, Edited(c)
  PROVE  LInv'
<1>1. /\ ListRest /\ page \in Pages /\ ByID /\ AllListCalls /\ ListCall(c) /\ c.op = "put"
      /\ c.op \in Writes /\ Carried(c) /\ c.heard /\ c.from \in IDs /\ c.op # "rename"
  BY DEF LInv, ListRest, AllListCalls, Edited, Heard, Writes, Carried
<1>2. PICK k \in IDs : k = c.from
  BY <1>1
<1>3. PICK b, v, p : b = c.arg.addr /\ v = c.arg.val /\ p = Put(c)
  OBVIOUS
<1>4. p = [addr |-> b, val |-> v] /\ b \in Names \union IDs /\ v \in Vals /\ c.answer = p
  BY <1>1, <1>3 DEF Put, ListCall, Carried
<1>5. p \in Record /\ p.addr = b /\ p.val = v /\ p # None /\ p \in Record \union {None}
  BY <1>4, RecordIs
<1>6. PICK s : s = rows[k].shown
  OBVIOUS
<1>7. Shown(k) # None /\ rows[k] # None /\ s \in Record /\ Shown(k) = s /\ rows[k].addr = b
  <2>1. Shown(k) # None /\ rows[k].addr = b
    BY <1>1, <1>2, <1>3 DEF ListCall
  <2> QED BY <1>1, <1>6, <2>1, ShownType
<1>8. ~ page.byName => s.addr = b /\ b = k
  BY <1>1, <1>7 DEF ByID
<1>9. (IF page.byName THEN c.answer ELSE [s EXCEPT !.val = c.answer.val]) = p
  <2>1. s = [addr |-> s.addr, val |-> s.val]
    BY <1>7, RecordFields
  <2>2. ~ page.byName => [s EXCEPT !.val = v] = p
    BY <1>4, <1>8, <2>1
  <2>3. c.answer.val = v
    BY <1>4, <1>5
  <2> QED BY <1>4, <2>2, <2>3
<1>10. PICK r : r = [rows[k] EXCEPT !.shown = p]
  OBVIOUS
<1>11. /\ rows' = [rows EXCEPT ![k] = r] /\ calls' = calls \ {c}
       /\ UNCHANGED <<page, entities, removed, asked, faults, noted>>
  <2>1. rows' = [rows EXCEPT ![k].shown =
                   IF page.byName THEN c.answer ELSE [@ EXCEPT !.val = c.answer.val]]
    BY <1>2 DEF Edited
  <2>2. rows' = [rows EXCEPT ![k] = [rows[k] EXCEPT !.shown =
                   IF page.byName THEN c.answer ELSE [s EXCEPT !.val = c.answer.val]]]
    BY <1>6, <2>1
  <2> QED BY <1>9, <1>10, <2>2 DEF Edited
<1>12. \A a : About(c, a) <=> a = b
  BY <1>1, <1>3, Concerns
<1>13. ASSUME NEW a, Clean(a), About(c, a) PROVE RowsSay(a)'
  <2>1. After(c, a)
    BY <1>1, <1>13, SoleCall
  <2>2. entities[k] = p
    BY <1>1, <1>2, <1>3, <2>1 DEF After
  <2> QED BY <1>1, <1>2, <1>5, <1>7, <1>10, <1>11, <2>1, <2>2, RowsAfter
<1>14. \A a : Clean(a) /\ ~ About(c, a) => ~ Has(p, a)
  BY <1>5, <1>12 DEF Has
<1>15. Leaves(c, k, p)
  <2>1. \A u \in calls' : u \in calls \ {c} /\ Stays(u, u)
    BY <1>1, <1>11, OthersStay
  <2> QED BY <1>5, <1>11, <2>1 DEF Leaves
<1>16. /\ ~ page.byName /\ p # None => p.addr = k
       /\ b \in noted /\ p # None => p.addr \in noted
  BY <1>5, <1>8
<1>17. /\ c.op \in Writes /\ c.heard /\ p \in Record \union {None}
  BY <1>1, <1>5
<1> QED BY <1>2, <1>3, <1>10, <1>11, <1>13, <1>14, <1>15, <1>16, <1>17, ShowStep

LEMMA RenamedStep ==
  ASSUME LInv, NEW c \in calls, Renamed(c)
  PROVE  LInv'
<1>1. /\ ListRest /\ page \in Pages /\ AllListCalls /\ ListCall(c) /\ Noticed(c)
      /\ c.op = "rename" /\ c.op \in Writes /\ Carried(c) /\ c.heard
  BY DEF LInv, ListRest, AllListCalls, AllNoticed, Renamed, Heard, Writes, Carried
<1>2. c.from \in IDs
  BY <1>1 DEF ListCall
<1>3. PICK k \in IDs : k = c.from
  BY <1>2
<1>4. PICK b, t : b = c.arg.addr /\ t = c.arg.to
  OBVIOUS
<1>5. c.answer = t /\ t \in Names /\ page.byName
  BY <1>1, <1>4 DEF ListCall, Carried
<1>6. PICK s : s = rows[k].shown
  OBVIOUS
<1>7. Shown(k) # None /\ rows[k] # None /\ s \in Record /\ Shown(k) = s
  <2>1. Shown(k) # None
    BY <1>1, <1>3 DEF ListCall
  <2> QED BY <1>1, <1>6, <2>1, ShownType
<1>8. PICK w : w = s.val
  OBVIOUS
<1>9. PICK x : x = [addr |-> t, val |-> w]
  OBVIOUS
<1>10. /\ x \in Record /\ x.addr = t /\ x # None /\ [s EXCEPT !.addr = t] = x
       /\ x \in Record \union {None}
  <2>1. s = [addr |-> s.addr, val |-> w] /\ w \in Vals
    BY <1>7, <1>8, RecordFields
  <2>2. [s EXCEPT !.addr = t] = x
    BY <1>9, <2>1
  <2> QED BY <1>5, <1>9, <2>1, <2>2, RecordIs
<1>11. PICK r : r = [rows[k] EXCEPT !.shown = x]
  OBVIOUS
<1>12. /\ rows' = [rows EXCEPT ![k] = r] /\ calls' = calls \ {c}
       /\ UNCHANGED <<page, entities, removed, asked, faults, noted>>
  <2>1. rows' = [rows EXCEPT ![k].shown.addr = t]
    BY <1>3, <1>5 DEF Renamed
  <2>2. rows' = [rows EXCEPT ![k] = [rows[k] EXCEPT !.shown = [s EXCEPT !.addr = t]]]
    BY <1>6, <2>1
  <2> QED BY <1>10, <1>11, <2>2 DEF Renamed
<1>13. \A a : About(c, a) <=> a = b \/ a = t
  BY <1>1, <1>4, Concerns
<1>14. \A a : Has(x, a) <=> a = t
  BY <1>10 DEF Has
<1>15. ASSUME NEW a, Clean(a), About(c, a) PROVE RowsSay(a)'
  <2>1. After(c, a)
    BY <1>1, <1>2, <1>15, SoleCall
  <2>2. ASSUME a = t PROVE entities[k] = x
    <3>1. Shown(k).val = w
      BY <1>7, <1>8
    <3>2. entities[k] = [addr |-> t, val |-> w]
      BY <1>1, <1>3, <1>4, <2>1, <2>2, <3>1 DEF After
    <3> QED BY <1>9, <3>2
  <2>3. a # t => ~ Has(entities[k], a) /\ ~ Has(x, a)
    BY <1>1, <1>3, <1>4, <1>14, <2>1 DEF After
  <2>4. Has(entities[k], a) \/ Has(x, a) => entities[k] = x
    BY <2>2, <2>3
  <2>5. x \in Record \union {None} /\ rows[k] # None
    BY <1>7, <1>10
  <2> QED BY <1>1, <1>3, <1>11, <1>12, <2>1, <2>4, <2>5, RowsAfter
<1>16. \A a : Clean(a) /\ ~ About(c, a) => ~ Has(x, a)
  BY <1>13, <1>14
<1>17. Leaves(c, k, x)
  <2>1. \A u \in calls' : u \in calls \ {c} /\ Stays(u, u)
    BY <1>1, <1>12, OthersStay
  <2> QED BY <1>10, <1>12, <2>1 DEF Leaves
<1>18. /\ ~ page.byName /\ x # None => x.addr = k
       /\ b \in noted /\ x # None => x.addr \in noted
  BY <1>1, <1>4, <1>5, <1>10 DEF Noticed
<1>19. x \in Record \union {None}
  BY <1>10
<1> QED BY <1>1, <1>3, <1>4, <1>11, <1>12, <1>15, <1>16, <1>17, <1>18, <1>19, ShowStep

LEMMA RemovedStep ==
  ASSUME LInv, NEW c \in calls, Removed(c)
  PROVE  LInv'
<1>1. /\ ListRest /\ page \in Pages /\ AllListCalls /\ ListCall(c)
      /\ c.op = "delete" /\ c.op \in Writes /\ Carried(c) /\ c.heard
  BY DEF LInv, ListRest, AllListCalls, AllNoticed, Removed, Heard, Writes, Carried
<1>2. c.from \in IDs
  BY <1>1 DEF ListCall, Writes
<1>3. PICK k \in IDs : k = c.from
  BY <1>2
<1>4. PICK b : b = c.arg.addr
  OBVIOUS
<1>5. rows[k] # None
  <2>1. Shown(k) # None
    BY <1>1, <1>3 DEF ListCall
  <2> QED BY <1>1, <2>1, ShownType
<1>6. PICK x : x = None
  OBVIOUS
<1>7. PICK r : r = [rows[k] EXCEPT !.shown = x]
  OBVIOUS
<1>8. PICK kept : kept = calls \ {c}
  OBVIOUS
<1>9. /\ rows' = [rows EXCEPT ![k] = r] /\ calls' = Unheard(kept, LAMBDA d : d.from = k)
      /\ UNCHANGED <<page, entities, removed, asked, faults, noted>>
  <2>1. rows' = [rows EXCEPT ![k].shown = None]
    BY <1>3 DEF Removed
  <2>2. calls' = Unheard(calls \ {c}, LAMBDA d : d.from = c.from)
    BY DEF Removed
  <2>3. calls' = Unheard(kept, LAMBDA d : d.from = k)
    BY <1>3, <1>8, <2>2 DEF Unheard
  <2> QED BY <1>6, <1>7, <2>1, <2>3 DEF Removed
<1>10. \A a : About(c, a) <=> a = b
  BY <1>1, <1>4, Concerns
<1>11. \A a : ~ Has(x, a)
  BY <1>6 DEF Has
<1>12. ASSUME NEW a, Clean(a), About(c, a) PROVE RowsSay(a)'
  <2>1. After(c, a)
    BY <1>1, <1>2, <1>12, SoleCall
  <2>2. ~ Has(entities[k], a)
    BY <1>1, <1>3, <2>1 DEF After
  <2>3. x \in Record \union {None}
    BY <1>6
  <2> QED BY <1>1, <1>3, <1>5, <1>7, <1>9, <1>11, <2>1, <2>2, <2>3, RowsAfter
<1>13. ASSUME NEW u \in calls'
       PROVE  \E d \in calls \ {c} :
                Stays(u, d) /\ (d.from # k => u = d) /\ (x = None /\ d.from = k => ~ u.heard)
  <2>1. PICK d \in kept : u = IF d.from = k THEN [d EXCEPT !.heard = FALSE] ELSE d
    BY <1>9, <1>13 DEF Unheard
  <2>2. Shape(d) /\ d \in calls \ {c}
    BY <1>1, <1>8 DEF AllListCalls, ListCall
  <2>3. CASE d.from = k
    <3>1. u = [d EXCEPT !.heard = FALSE]
      BY <2>1, <2>3
    <3>2. Stays(u, d) /\ ~ u.heard
      BY <2>2, <3>1, UnheardFields
    <3> QED BY <2>2, <2>3, <3>2
  <2>4. CASE d.from # k
    <3>1. u = d /\ Stays(u, d)
      BY <2>1, <2>2, <2>4 DEF Stays
    <3> QED BY <2>2, <2>4, <3>1
  <2> QED BY <2>3, <2>4
<1>14. ASSUME NEW d \in calls \ {c}, d.from # k PROVE d \in calls'
  <2>1. d = IF d.from = k THEN [d EXCEPT !.heard = FALSE] ELSE d
    BY <1>14
  <2> QED BY <1>8, <1>9, <1>14, <2>1 DEF Unheard
<1>15. Leaves(c, k, x)
  BY <1>13, <1>14 DEF Leaves
<1>16. x \in Record \union {None}
  BY <1>6
<1> QED BY <1>1, <1>3, <1>4, <1>6, <1>7, <1>9, <1>11, <1>12, <1>15, <1>16, ShowStep

LEMMA RowFields ==
  ASSUME NEW a \in Names \union IDs, NEW s \in Record, NEW r, r = [addr |-> a, shown |-> s]
  PROVE  r \in Row /\ r.addr = a /\ r.shown = s /\ r # None
<1>1. r \in Row /\ r.addr = a /\ r.shown = s
  BY DEF Row
<1> QED BY <1>1, NoneIsNothing

(* The rows of a list: each shows its record, with the button it had.       *)
LEMMA ListedRows ==
  ASSUME ListRest, NEW f \in [IDs -> Record \union {None}],
         rows' = [i \in IDs |-> RowOf(i, f[i])]
  PROVE  /\ rows' \in [IDs -> Row \union {None}]
         /\ \A i \in IDs : /\ Shown(i)' = f[i]
                           /\ rows'[i] = None <=> f[i] = None
                           /\ f[i] # None => rows'[i].addr = IF Shown(i) = None THEN f[i].addr
                                                            ELSE rows[i].addr
<1>1. ASSUME NEW i \in IDs
      PROVE  /\ rows'[i] \in Row \union {None}
             /\ Shown(i)' = f[i]
             /\ rows'[i] = None <=> f[i] = None
             /\ f[i] # None => rows'[i].addr = IF Shown(i) = None THEN f[i].addr ELSE rows[i].addr
  <2>1. PICK s : s = f[i]
    OBVIOUS
  <2>2. rows'[i] = RowOf(i, s)
    BY <2>1
  <2>3. CASE s = None
    <3>1. rows'[i] = None
      BY <2>2, <2>3 DEF RowOf
    <3> QED BY <2>1, <2>3, <3>1 DEF Shown
  <2>4. CASE s # None
    <3>1. s \in Record
      BY <2>1, <2>4
    <3>2. PICK a : a = IF Shown(i) = None THEN s.addr ELSE rows[i].addr
      OBVIOUS
    <3>3. a \in Names \union IDs
      <4>1. s.addr \in Names \union IDs
        BY <3>1, RecordFields
      <4>2. Shown(i) # None => rows[i].addr \in Names \union IDs
        BY ShownType
      <4> QED BY <3>2, <4>1, <4>2
    <3>4. PICK r : r = [addr |-> a, shown |-> s]
      OBVIOUS
    <3>5. r \in Row /\ r.addr = a /\ r.shown = s /\ r # None
      BY <3>1, <3>3, <3>4, RowFields
    <3>6. rows'[i] = r
      BY <2>2, <2>4, <3>2, <3>4 DEF RowOf
    <3> QED BY <2>1, <2>4, <3>2, <3>5, <3>6 DEF Shown
  <2> QED BY <2>3, <2>4
<1>2. rows' \in [IDs -> Row \union {None}]
  <2>1. PICK w : w = rows'
    OBVIOUS
  <2>2. w = [i \in IDs |-> w[i]]
    BY <2>1
  <2> QED BY <1>1, <2>1, <2>2
<1> QED BY <1>1, <1>2

LEMMA ListedStep ==
  ASSUME LInv, NEW c \in calls, Listed(c)
  PROVE  LInv'
<1>1. /\ ListRest /\ page \in Pages /\ Unique /\ RemovedAreGone /\ ByID /\ AllListCalls /\ AllNoticed /\ AllInOrder
  BY DEF LInv, ListRest
<1>2. c.op = "list" /\ c.served /\ ListCall(c)
  BY <1>1 DEF Listed, Heard, AllListCalls
<1>3. PICK f : f = c.answer
  OBVIOUS
<1>4. f \in [IDs -> Record \union {None}]
  BY <1>2, <1>3 DEF ListCall
<1>5. PICK kept : kept = calls \ {c}
  OBVIOUS
<1>6. /\ rows' = [i \in IDs |-> RowOf(i, f[i])]
      /\ calls' = Unheard(kept, LAMBDA d : d.from \in IDs /\ rows'[d.from] = None)
      /\ UNCHANGED <<page, entities, removed, asked, faults, noted>>
  BY <1>3, <1>5 DEF Listed
<1>7. /\ rows' \in [IDs -> Row \union {None}]
      /\ \A i \in IDs : /\ Shown(i)' = f[i]
                        /\ rows'[i] = None <=> f[i] = None
                        /\ f[i] # None => rows'[i].addr = IF Shown(i) = None THEN f[i].addr
                                                         ELSE rows[i].addr
  BY <1>1, <1>4, <1>6, ListedRows
<1>8. ASSUME NEW u \in calls'
      PROVE  \E d \in calls \ {c} :
               /\ Stays(u, d) /\ (d.from \in IDs /\ f[d.from] = None => ~ u.heard)
               /\ (d.op = "list" => u = d)
  <2>1. PICK d \in kept :
          u = IF d.from \in IDs /\ rows'[d.from] = None THEN [d EXCEPT !.heard = FALSE] ELSE d
    BY <1>6, <1>8 DEF Unheard
  <2>2. Shape(d) /\ d \in calls \ {c} /\ (d.op = "list" => d.from \notin IDs)
    BY <1>1, <1>5, NoneIsNothing DEF AllListCalls, ListCall
  <2>3. CASE d.from \in IDs /\ rows'[d.from] = None
    <3>1. u = [d EXCEPT !.heard = FALSE]
      BY <2>1, <2>3
    <3>2. Stays(u, d) /\ ~ u.heard
      BY <2>2, <3>1, UnheardFields
    <3> QED BY <2>2, <2>3, <3>2
  <2>4. CASE ~ (d.from \in IDs /\ rows'[d.from] = None)
    <3>1. u = d /\ Stays(u, d)
      BY <2>1, <2>2, <2>4 DEF Stays
    <3>2. ~ (d.from \in IDs /\ f[d.from] = None)
      BY <1>7, <2>4
    <3> QED BY <2>2, <3>1, <3>2
  <2> QED BY <2>3, <2>4
<1>9. ListRest' /\ Unique' /\ RemovedAreGone'
  BY <1>1, <1>6, <1>7 DEF ListRest, Unique, RemovedAreGone
<1>10. ByID'
  <2> SUFFICES ASSUME ~ page.byName PROVE ByID'
    BY <1>6 DEF ByID
  <2>1. \A i \in IDs : /\ entities[i] # None => entities[i].addr = i
                       /\ f[i] # None => f[i].addr = i
                       /\ Shown(i) # None => rows[i] # None
                       /\ rows[i] # None => rows[i].addr = i
    BY <1>1, <1>2, <1>3 DEF ByID, Shown
  <2>2. \A i \in IDs : rows'[i] # None => rows'[i].addr = i
    BY <1>7, <2>1
  <2>3. \A u \in calls' : u.op = "list" => u \in calls
    BY <1>8 DEF Stays
  <2> QED BY <1>1, <1>6, <1>7, <2>1, <2>2, <2>3 DEF ByID
<1>11. AllListCalls'
  <2> SUFFICES ASSUME NEW u \in calls' PROVE ListCall(u)'
    BY DEF AllListCalls
  <2>1. PICK d \in calls \ {c} :
          /\ Stays(u, d) /\ (d.from \in IDs /\ f[d.from] = None => ~ u.heard)
          /\ (d.op = "list" => u = d)
    BY <1>8
  <2>2. ListCall(d)
    BY <1>1 DEF AllListCalls
  <2>3. ASSUME u.op \in Writes, u.heard, u.from \in IDs
        PROVE  Shown(u.from)' # None /\ rows'[u.from].addr = u.arg.addr
    <3>1. PICK m : m = d.from
      OBVIOUS
    <3>2. m \in IDs /\ Shown(m) # None /\ rows[m].addr = d.arg.addr /\ f[m] # None
      BY <2>1, <2>2, <2>3, <3>1 DEF ListCall, Stays
    <3>3. Shown(m)' # None /\ rows'[m].addr = rows[m].addr
      BY <1>7, <3>2
    <3> QED BY <2>1, <3>1, <3>2, <3>3 DEF Stays
  <2> QED BY <1>6, <2>1, <2>2, <2>3 DEF ListCall, Stays, Put
<1>12. ASSUME NEW a, Clean(a) PROVE \A d \in calls : ~ About(d, a)
  BY <1>2, <1>12, SoleCall
<1>13. ASSUME NEW a, Clean(a)
       PROVE  Says(f, a) /\ (RowsSay(a) \/ Due(a))
  <2>1. InOrder(a)
    BY <1>1, <1>13 DEF AllInOrder
  <2>2. Says(f, a)
    BY <1>2, <1>3, <2>1 DEF InOrder, ListsSay
  <2>3. RowsSay(a) \/ Due(a)
    BY <1>12, <1>13, <2>1 DEF InOrder, Agreed, OfARow
  <2> QED BY <2>2, <2>3
<1>14. ASSUME NEW m \in IDs, Shown(m) # None, f[m] # None, NEW a, Clean(a), f[m].addr = a
       PROVE  Shown(m).addr = a
  <2>1. Has(f[m], a)
    BY <1>14 DEF Has
  <2>2. Has(entities[m], a)
    BY <1>13, <1>14, <2>1 DEF Says, Has
  <2> QED BY <1>13, <1>14, <2>2 DEF RowsSay, Due, Has
<1>15. AllNoticed'
  <2> SUFFICES ASSUME NEW u \in calls', u.op \in Writes PROVE Noticed(u)'
    BY DEF AllNoticed, Noticed
  <2>1. PICK d \in calls \ {c} :
          /\ Stays(u, d) /\ (d.from \in IDs /\ f[d.from] = None => ~ u.heard)
    BY <1>8
  <2>2. PICK e, m : e = d.arg.addr /\ m = d.from
    OBVIOUS
  <2>3. /\ ListCall(d) /\ Noticed(d) /\ d.op \in Writes
        /\ u.arg = d.arg /\ u.from = m /\ u.op = d.op /\ (u.heard => d.heard)
    BY <1>1, <2>1, <2>2 DEF AllListCalls, AllNoticed, Stays
  <2>4. d.op = "rename" /\ e \in noted => d.arg.to \in noted
    BY <2>2, <2>3 DEF Noticed
  <2>5. ASSUME u.heard, m \in IDs, e \in noted PROVE Shown(m)'.addr \in noted
    <3>1. Shown(m).addr \in noted /\ Shown(m) # None /\ f[m] # None
      BY <2>1, <2>2, <2>3, <2>5 DEF Noticed, ListCall
    <3>2. PICK s : s = f[m]
      OBVIOUS
    <3>3. PICK a : a = s.addr
      OBVIOUS
    <3>4. s \in Record
      BY <1>4, <2>5, <3>1, <3>2
    <3>5. a \in Names \union IDs
      BY <3>3, <3>4, RecordFields
    <3>6. a \in noted
      BY <1>14, <2>5, <3>1, <3>2, <3>3, <3>5 DEF Clean
    <3> QED BY <1>7, <2>5, <3>2, <3>3, <3>6
  <2>6. e \in noted
    <3>1. About(d, e) /\ e \in Names \union IDs
      BY <1>1, <2>2, <2>3, Concerns
    <3> QED BY <1>12, <3>1 DEF Clean
  <2> QED BY <1>6, <2>2, <2>3, <2>4, <2>5, <2>6 DEF Noticed
<1>16. ASSUME NEW a, Clean(a) PROVE InOrder(a)'
  <2>1. \A u \in calls' : ~ About(u, a) /\ (u.op = "list" => u \in calls)
    <3> SUFFICES ASSUME NEW u \in calls' PROVE ~ About(u, a) /\ (u.op = "list" => u \in calls)
      OBVIOUS
    <3>1. PICK d \in calls \ {c} : Stays(u, d) /\ (d.op = "list" => u = d)
      BY <1>8
    <3>2. ~ About(d, a)
      BY <1>12, <1>16
    <3> QED BY <3>1, <3>2 DEF Stays, About, Concerned
  <2>2. InOrder(a)
    BY <1>1, <1>16 DEF AllInOrder
  <2>3. Sole(a)' /\ Answers(a)'
    BY <2>1 DEF Sole, Answers, OfARow
  <2>4. ListsSay(a)'
    BY <1>6, <2>1, <2>2 DEF InOrder, ListsSay, Says
  <2>5. RowsSay(a)'
    BY <1>6, <1>7, <1>13, <1>16 DEF Says, RowsSay, Has
  <2> QED BY <2>3, <2>4, <2>5 DEF InOrder, Agreed
<1>17. AllInOrder'
  BY <1>6, <1>16 DEF AllInOrder, Clean
<1> QED BY <1>9, <1>10, <1>11, <1>15, <1>17 DEF LInv

(* After an addition the list is asked for; the writes it may cross are     *)
(* noted.                                                                   *)
LEMMA AddedStep ==
  ASSUME LInv, NEW c \in calls, Added(c)
  PROVE  LInv'
<1>1. /\ ListRest /\ page \in Pages /\ Unique /\ RemovedAreGone /\ ByID /\ AllListCalls /\ AllNoticed /\ AllInOrder
  BY DEF LInv, ListRest
<1>2. PICK g, u : g = c.arg.addr /\ u = Request("list", None, g)
  OBVIOUS
<1>3. /\ calls' = (calls \ {c}) \union {u}
      /\ noted' = noted \union UNION {Concerned(d) : d \in {e \in calls \ {c} : e.op \in Writes}}
      /\ UNCHANGED <<page, entities, removed, rows, asked, faults>>
      /\ c.from = None
  BY <1>2 DEF Added, Reload, SendAfter, listVars
<1>4. /\ u.op = "list" /\ u.from = None /\ u.arg = g /\ ~ u.served /\ u.answer = None /\ u.heard /\ Shape(u)
  BY <1>2, RequestFields
<1>5. u.op \notin Writes /\ u.op # "put" /\ u.op # "delete" /\ u.op # "rename"
  BY <1>4 DEF Writes
<1>6. noted \subseteq noted'
  BY <1>3
<1>7. \A i \in IDs : Shown(i)' = Shown(i)
  BY <1>3 DEF Shown
<1>8. ListRest' /\ Unique' /\ RemovedAreGone' /\ ByID'
  <2>1. ListRest' /\ Unique' /\ RemovedAreGone'
    BY <1>1, <1>3 DEF ListRest, Unique, RemovedAreGone
  <2>2. ByID'
    BY <1>1, <1>3, <1>4, <1>7 DEF ByID
  <2> QED BY <2>1, <2>2
<1>9. AllListCalls'
  <2>1. \A d \in calls : ListCall(d)'
    BY <1>1, <1>3, <1>7 DEF AllListCalls, ListCall
  <2>2. ListCall(u)'
    BY <1>4, <1>5 DEF ListCall
  <2> QED BY <1>3, <2>1, <2>2 DEF AllListCalls
<1>10. AllNoticed'
  <2>1. \A d \in calls : \A x \in Concerned(d) :
          d.op \in Writes /\ x \in noted' /\ x \notin noted => Concerned(d) \subseteq noted'
    <3> SUFFICES ASSUME NEW d \in calls, NEW x \in Concerned(d), d.op \in Writes,
                        x \in noted', x \notin noted
                 PROVE  Concerned(d) \subseteq noted'
      OBVIOUS
    <3>1. PICK e \in calls \ {c} : e.op \in Writes /\ x \in Concerned(e)
      BY <1>3
    <3>2. About(d, x) /\ About(e, x)
      BY <3>1 DEF About
    <3>3. x \in Names \union IDs
      <4>1. PICK b, t : b = d.arg.addr /\ t = d.arg.to
        OBVIOUS
      <4>2. ListCall(d)
        BY <1>1 DEF AllListCalls
      <4> QED BY <1>1, <3>2, <4>1, <4>2, Concerns
    <3>4. d = e
      BY <3>1, <3>2, <3>3, SoleCall DEF Clean
    <3> QED BY <1>3, <3>1, <3>4
  <2>2. \A d \in calls : Noticed(d)'
    BY <1>3, <1>6, <2>1, NoticedMore
  <2>3. Noticed(u)'
    BY <1>5 DEF Noticed
  <2> QED BY <1>3, <2>2, <2>3 DEF AllNoticed
<1>11. ASSUME NEW a, a \in Names \union IDs, a \notin noted' PROVE InOrder(a)'
  <2>1. Clean(a) /\ InOrder(a)
    BY <1>1, <1>6, <1>11 DEF AllInOrder, Clean
  <2>2. \A d \in calls : About(d, a) => d = c
    BY <1>3, <1>11 DEF About
  <2>3. \A d \in calls' : ~ About(d, a)
    BY <1>3, <1>5, <2>2 DEF About
  <2>4. /\ RowsSay(a)' <=> RowsSay(a)
        /\ Due(a)' <=> Due(a)
        /\ \A f : Says(f, a)' <=> Says(f, a)
    BY <1>3, SameAfter
  <2>5. Sole(a)' /\ Answers(a)'
    BY <2>3 DEF Sole, Answers, OfARow
  <2>6. ListsSay(a)'
    BY <1>3, <1>4, <2>1, <2>4 DEF InOrder, ListsSay
  <2>7. \A d \in calls : ~ OfARow(d, a)
    BY <1>3, <2>2, NoneIsNothing DEF OfARow
  <2>8. Awaited(a) => Awaited(a)'
    <3>1. About(c, a) => a = g
      <4>1. c.op = "put" /\ c.op # "rename" /\ c.op \in Writes /\ ListCall(c)
        BY <1>1 DEF Added, Heard, Writes, AllListCalls
      <4> QED BY <1>1, <1>2, <4>1, Concerns
    <3>2. c.op # "list"
      BY DEF Added, Heard
    <3>3. About(c, a) => Awaited(a)'
      <4>1. a = g => Brings(u, a)
        BY <1>4 DEF Brings
      <4> QED BY <1>3, <3>1, <4>1 DEF Awaited
    <3> SUFFICES ASSUME Awaited(a), ~ About(c, a) PROVE Awaited(a)'
      BY <3>3
    <3>4. PICK d \in calls : Brings(d, a)
      BY DEF Awaited
    <3>5. d \in calls'
      BY <1>3, <3>2, <3>4 DEF Brings
    <3> QED BY <3>4, <3>5 DEF Awaited
  <2>9. Agreed(a)'
    BY <2>1, <2>4, <2>7, <2>8 DEF InOrder, Agreed
  <2> QED BY <2>5, <2>6, <2>9 DEF InOrder
<1>12. AllInOrder'
  BY <1>11 DEF AllInOrder, Clean
<1> QED BY <1>8, <1>9, <1>10, <1>12 DEF LInv

(* Of an answer nobody reads only the request goes.                         *)
LEMMA ListIgnored ==
  ASSUME LInv, NEW c \in calls, Ignored(c), UNCHANGED listVars
  PROVE  LInv'
<1>1. /\ ListRest /\ page \in Pages /\ Unique /\ RemovedAreGone /\ ByID /\ AllListCalls /\ AllNoticed /\ AllInOrder
  BY DEF LInv, ListRest
<1>2. /\ c.served /\ (c.answer = None \/ ~ c.heard) /\ calls' = calls \ {c}
      /\ UNCHANGED <<page, entities, removed, rows, asked, faults, noted>>
  BY DEF Ignored, listVars
<1>3. c.op # "list"
  <2>1. ListCall(c)
    BY <1>1 DEF AllListCalls
  <2> QED BY <1>2, <2>1, NoneIsNothing DEF ListCall
<1>4. \A i \in IDs : Shown(i)' = Shown(i)
  BY <1>2 DEF Shown
<1>5. ListRest' /\ Unique' /\ RemovedAreGone' /\ ByID'
  BY <1>1, <1>2, <1>4 DEF ListRest, Unique, RemovedAreGone, ByID
<1>6. AllListCalls' /\ AllNoticed'
  BY <1>1, <1>2, <1>4 DEF AllListCalls, ListCall, AllNoticed, Noticed
<1>7. ASSUME NEW a, Clean(a) PROVE InOrder(a)'
  <2>1. InOrder(a)
    BY <1>1, <1>7 DEF AllInOrder
  <2>2. /\ RowsSay(a)' <=> RowsSay(a)
        /\ Due(a)' <=> Due(a)
        /\ \A d : After(d, a)' <=> After(d, a)
        /\ \A f : Says(f, a)' <=> Says(f, a)
    BY <1>2, SameAfter
  <2>3. ~ (About(c, a) /\ Carried(c))
    <3>1. About(c, a) => c.heard
      <4>1. PICK b : b = c.arg.addr
        OBVIOUS
      <4> QED BY <1>7, <4>1, CleanCall
    <3> QED BY <1>2, <3>1 DEF Carried
  <2>4. Sole(a)' /\ ListsSay(a)'
    BY <1>2, <2>1, <2>2 DEF InOrder, Sole, ListsSay
  <2>5. Answers(a)'
    BY <1>2, <2>1, <2>2 DEF InOrder, Answers, OfARow
  <2>6. Awaited(a) => Awaited(a)'
    BY <1>2, <1>3, <2>3 DEF Awaited, Brings
  <2>7. \A d \in calls : OfARow(d, a) => d \in calls'
    BY <1>2, <2>3 DEF OfARow
  <2> QED BY <2>1, <2>2, <2>4, <2>5, <2>6, <2>7 DEF InOrder, Agreed
<1>8. AllInOrder'
  BY <1>2, <1>7 DEF AllInOrder, Clean
<1> QED BY <1>5, <1>6, <1>8 DEF LInv

-----------------------------------------------------------------------------
(* The lists: every step.                                                   *)

LEMMA ListsStart ==
  ASSUME ListsInit
  PROVE  LInv
<1>1. PICK u : u = [op |-> "list", from |-> None, arg |-> None, n |-> 1,
                    served |-> FALSE, answer |-> None, heard |-> TRUE]
  OBVIOUS
<1>2. /\ page \in Pages /\ calls = {u} /\ asked = 0 /\ faults = 0 /\ noted = {}
      /\ entities \in [IDs -> Record \union {None}] /\ rows = [i \in IDs |-> None]
  BY <1>1 DEF ListsInit, RequestsInit
<1>3. \A i, j \in IDs : entities[i] # None =>
        /\ ~ page.byName => entities[i].addr = i
        /\ i # j /\ entities[j] # None => entities[i].addr # entities[j].addr
  BY DEF ListsInit
<1>4. /\ u.op = "list" /\ u.from = None /\ u.arg = None /\ ~ u.served /\ u.answer = None
      /\ u.heard /\ Shape(u)
  BY <1>1 DEF Shape
<1>5. u.op \notin Writes /\ u.op # "put" /\ u.op # "delete" /\ u.op # "rename"
  BY <1>4 DEF Writes
<1>6. \A i \in IDs : rows[i] = None /\ Shown(i) = None
  BY <1>2 DEF Shown
<1>12. removed \subseteq Names /\ \A a \in removed : Hit(a) = {}
  BY DEF ListsInit
<1>7. ListRest
  BY <1>2, <1>12, RequestsAssumption DEF ListRest
<1>8. Unique /\ RemovedAreGone
  BY <1>3, <1>12 DEF Unique, RemovedAreGone, Has, Hit
<1>9. ByID
  BY <1>2, <1>3, <1>4, <1>6 DEF ByID
<1>10. AllListCalls /\ AllNoticed
  BY <1>2, <1>4, <1>5 DEF AllListCalls, ListCall, AllNoticed, Noticed
<1>11. ASSUME NEW a PROVE InOrder(a)
  <2>1. Sole(a) /\ ListsSay(a) /\ Answers(a)
    BY <1>2, <1>4, <1>5 DEF Sole, ListsSay, Answers, OfARow, About
  <2>2. Due(a) /\ Awaited(a)
    BY <1>2, <1>4, <1>6 DEF Due, Awaited, Brings, Has
  <2> QED BY <2>1, <2>2 DEF InOrder, Agreed
<1> QED BY <1>7, <1>8, <1>9, <1>10, <1>11 DEF LInv, AllInOrder

LEMMA ListsStep ==
  ASSUME LInv, ListsNext
  PROVE  LInv'
BY ButtonStep, ServeStep, LoseStep, ListedStep, AddedStep, EditedStep, RemovedStep, RenamedStep,
   ListIgnored DEF ListsNext

LEMMA AlwaysLInv == Spec => [](screen = "lists" => LInv)
<1>1. Init => (screen = "lists" => LInv)
  BY ListsStart DEF Init
<1>2. (screen = "lists" => LInv) /\ [Next]_vars => (screen = "lists" => LInv)'
  <2> SUFFICES ASSUME screen = "lists" => LInv, [Next]_vars, screen' = "lists"
               PROVE  LInv'
    OBVIOUS
  <2>1. CASE UNCHANGED vars
    <3>1. LInv
      BY <2>1 DEF vars
    <3>2. UNCHANGED <<page, entities, removed, rows, calls, asked, faults, noted>>
      BY <2>1 DEF vars, listVars, requestVars
    <3>3. ListRest' /\ Unique' /\ RemovedAreGone' /\ ByID' /\ AllListCalls' /\ AllNoticed'
      BY <3>1, <3>2 DEF LInv, ListRest, Unique, RemovedAreGone, ByID, Shown, AllListCalls, ListCall, AllNoticed,
                        Noticed
    <3>4. AllInOrder'
      <4> SUFFICES ASSUME NEW a, Clean(a) PROVE InOrder(a)'
        BY <3>2 DEF AllInOrder, Clean
      <4>1. InOrder(a)
        BY <3>1 DEF LInv, AllInOrder
      <4>2. /\ RowsSay(a)' <=> RowsSay(a)
            /\ Due(a)' <=> Due(a)
            /\ \A d : After(d, a)' <=> After(d, a)
            /\ \A f : Says(f, a)' <=> Says(f, a)
        BY <3>2, SameAfter
      <4> QED BY <3>2, <4>1, <4>2 DEF InOrder, Sole, ListsSay, Answers, Agreed, Awaited, OfARow
    <3> QED BY <3>3, <3>4 DEF LInv
  <2>2. CASE Next
    <3>1. screen = "lists" /\ ListsNext
      BY <2>2 DEF Next
    <3>2. LInv
      BY <3>1
    <3> QED BY <3>1, <3>2, ListsStep
  <2> QED BY <2>1, <2>2
<1> QED BY <1>1, <1>2, PTL DEF Spec

(* A write that a row asked for is carried out on the record of that row,   *)
(* or on none, although it addresses it by a name others may take, and is   *)
(* answered whenever: as long as nothing that may reassign its name was in  *)
(* flight beside it, and it came from a button that had the name the row    *)
(* shows (ClusterRenameBtn, ClusterEditBtn, GroupDeleteBtn).                *)
THEOREM WritesReachTheirRows == Spec => []RowsReachTheirRecords
<1>1. ASSUME LInv PROVE WriteReachesItsRow
  <2> SUFFICES ASSUME NEW c \in calls, c.op \in Writes, c.from \in IDs, ~ c.served,
                      Concerned(c) \intersect noted = {}, NEW i \in Hit(c.arg.addr)
               PROVE  i = c.from
    BY DEF WriteReachesItsRow, Requests
  <2>1. PICK b, t : b = c.arg.addr /\ t = c.arg.to
    OBVIOUS
  <2>2. page \in Pages /\ ListCall(c)
    BY <1>1 DEF LInv, ListRest, AllListCalls
  <2>3. About(c, b) /\ b \in Names \union IDs
    BY <2>1, <2>2, Concerns
  <2>4. Clean(b)
    BY <2>3 DEF Clean, About
  <2>5. PICK k \in IDs : k = c.from
    OBVIOUS
  <2>6. ~ Carried(c)
    BY DEF Carried
  <2>7. i \in IDs /\ Has(entities[i], b)
    BY <2>1 DEF Hit, Has
  <2> QED BY <1>1, <2>1, <2>4, <2>5, <2>6, <2>7, OwnRow
<1>2. (screen = "lists" => LInv) => RowsReachTheirRecords
  BY <1>1 DEF RowsReachTheirRecords
<1> QED BY <1>2, AlwaysLInv, PTL

(* When everything is answered, a list shows the records of the server:     *)
(* none that is gone, none but those, and each as it is, although only an   *)
(* addition makes the page ask for it again and every other answer changes  *)
(* one row; but for the records of which two writes, or a write and a list, *)
(* crossed, a write failed, a list failed that was to show them, or a       *)
(* button had an old name (AdminAccountList, GroupAccountList,              *)
(* GroupCardListForAdmin, GroupRobotList, ClusterList).                     *)
THEOREM RowsAreTheRecords == Spec => []RowsShowTheirRecords
<1>1. ASSUME LInv PROVE RowsAgree
  <2> SUFFICES ASSUME calls = {}, NEW i \in IDs, entities[i] # Shown(i)
               PROVE  \E r \in {entities[i], Shown(i)} \ {None} : r.addr \in noted
    BY DEF RowsAgree
  <2>1. PICK r \in {entities[i], Shown(i)} : r # None
    OBVIOUS
  <2>2. PICK a : a = r.addr
    OBVIOUS
  <2>3. r \in Record
    <3>1. entities[i] \in Record \union {None} /\ Shown(i) \in Record \union {None}
      BY <1>1, ShownType DEF LInv, ListRest
    <3> QED BY <2>1, <3>1
  <2>4. a \in Names \union IDs
    BY <2>2, <2>3, RecordFields
  <2>5. ~ RowsSay(a)
    BY <2>1, <2>2 DEF RowsSay, Has
  <2>6. ~ Agreed(a)
    BY <2>5 DEF Agreed, Awaited
  <2>7. a \in noted
    BY <1>1, <2>4, <2>6 DEF LInv, AllInOrder, InOrder, Clean
  <2> QED BY <2>1, <2>2, <2>7
<1>2. (screen = "lists" => LInv) => RowsShowTheirRecords
  BY <1>1 DEF RowsShowTheirRecords
<1> QED BY <1>2, AlwaysLInv, PTL

-----------------------------------------------------------------------------
(* The pages: what is typed.                                                *)

LEMMA OnePage == Spec => [](screen \in {"lists", "envs", "versions", "session"})
<1>1. Init => screen \in {"lists", "envs", "versions", "session"}
  BY DEF Init
<1>2. screen \in {"lists", "envs", "versions", "session"} /\ [Next]_vars
        => (screen \in {"lists", "envs", "versions", "session"})'
  BY DEF Next, vars
<1> QED BY <1>1, <1>2, PTL DEF Spec

(* The page that is shown keeps to its types: its requests are those it     *)
(* makes, and a prompt, like a request that is waited for, is of a row      *)
(* there is (useRequest, GroupKubepkgVersionListGroup).                     *)
THEOREM PagesTypeCorrect == Spec => []TypeOK
<1>1. LInv => ListsTyped
  BY DEF LInv, ListRest, AllListCalls, ListCall, ListsTyped, RequestsTyped
<1>2. EInv => EnvsTyped
  <2> SUFFICES ASSUME EInv PROVE EnvsTyped
    OBVIOUS
  <2>1. view.group \in GroupNames /\ view.envs \in [EnvNames -> Item \union {None}]
    BY DEF EInv, EnvRest
  <2> QED BY <2>1 DEF EInv, EnvRest, AllEnvCalls, EnvCall, EnvsTyped, RequestsTyped
<1>3. VInv => VersionsTyped
  BY DEF VInv, VersionRest, AllVersionCalls, VersionCall, OfRows, VersionsTyped, RequestsTyped,
         Requests
<1>4. SInv => SessionTyped
  BY DEF SInv, RestTyped, PageTyped, AllPending, Pending, SessionTyped, RequestsTyped
<1>5. /\ screen \in {"lists", "envs", "versions", "session"}
      /\ screen = "lists" => LInv
      /\ screen = "envs" => EInv
      /\ screen = "versions" => VInv
      /\ screen = "session" => SInv
      => TypeOK
  BY <1>1, <1>2, <1>3, <1>4 DEF TypeOK
<1> QED BY <1>5, OnePage, AlwaysLInv, AlwaysEInv, AlwaysVInv, AlwaysSInv, PTL
=============================================================================
