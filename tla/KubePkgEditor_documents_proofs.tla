-------------------- MODULE KubePkgEditor_documents_proofs ---------------------
(***************************************************************************)
(* What the proofs about the editor need of documents: of paths, of what is *)
(* at a path, of each operator that makes a document of another (merges,    *)
(* diffs, what is set, what is left out), of the schema a value is looked   *)
(* up by and validated by, and of what the linter reports.  A document is a *)
(* function on paths, so an induction over a value is a choice of the       *)
(* shallowest path at which something fails (Shallowest).                   *)
(***************************************************************************)
EXTENDS KubePkgEditor, SequenceTheorems, WellFoundedInduction, TLAPS

-----------------------------------------------------------------------------
(* Paths.                                                                    *)

Below == {pair \in Nat \X Nat : pair[1] < pair[2]}

LEMMA BelowWellFounded == IsWellFoundedOn(Below, Nat)
  BY NatLessThanWellFounded DEF OpToRel, Below

LEMMA Least ==
  ASSUME NEW T \in SUBSET Nat, T # {}
  PROVE  \E x \in T : \A y \in T : x <= y
<1>1. PICK x \in T : \A y \in T : ~ (<<y, x>> \in Below)
  BY BelowWellFounded, WFMin
<1>2. \A y \in T : ~ (y < x)
  BY <1>1 DEF Below
<1> QED BY <1>2

LEMMA SubSeqPath ==
  ASSUME NEW p \in Paths, NEW n \in 0..Len(p)
  PROVE  /\ SubSeq(p, 1, n) \in Paths /\ Len(SubSeq(p, 1, n)) = n
         /\ \A i \in 1..n : SubSeq(p, 1, n)[i] = p[i]
<1>1. Len(p) \in Nat /\ n \in Nat
  BY LenProperties DEF Paths
<1>2. \A i \in 1..n : p[i] \in Keys
  BY <1>1, LenProperties, ElementOfSeq DEF Paths
<1> QED BY <1>1, <1>2, SubSeqProperties DEF Paths

LEMMA PathEqual ==
  ASSUME NEW p \in Paths, NEW q \in Paths, Len(p) = Len(q), \A i \in 1..Len(p) : p[i] = q[i]
  PROVE  p = q
BY SeqEqual DEF Paths

LEMMA SubSub ==
  ASSUME NEW p \in Paths, NEW n \in 0..Len(p), NEW m \in 0..n
  PROVE  SubSeq(SubSeq(p, 1, n), 1, m) = SubSeq(p, 1, m)
<1>0. Len(p) \in Nat /\ n \in Nat /\ m \in Nat
  BY LenProperties DEF Paths
<1> DEFINE q == SubSeq(p, 1, n)
<1>1. q \in Paths /\ Len(q) = n /\ \A i \in 1..n : q[i] = p[i]
  BY SubSeqPath
<1> HIDE DEF q
<1>2. m \in 0..Len(q) /\ m \in 0..Len(p)
  BY <1>0, <1>1
<1>3. SubSeq(q, 1, m) \in Paths /\ Len(SubSeq(q, 1, m)) = m
      /\ \A i \in 1..m : SubSeq(q, 1, m)[i] = q[i]
  BY <1>1, <1>2, SubSeqPath
<1>4. SubSeq(p, 1, m) \in Paths /\ Len(SubSeq(p, 1, m)) = m
      /\ \A i \in 1..m : SubSeq(p, 1, m)[i] = p[i]
  BY <1>2, SubSeqPath
<1>5. \A i \in 1..m : q[i] = p[i]
  BY <1>0, <1>1
<1>6. SubSeq(q, 1, m) = SubSeq(p, 1, m)
  BY <1>3, <1>4, <1>5, PathEqual
<1> QED BY <1>6 DEF q

(* What is above a path: shorter paths, in a line.                           *)
LEMMA AbovePath ==
  ASSUME NEW p \in Paths, NEW q \in Above(p)
  PROVE  /\ q \in Paths /\ Len(q) \in Nat /\ Len(p) \in Nat /\ Len(q) < Len(p)
         /\ q = SubSeq(p, 1, Len(q)) /\ q # p
         /\ \A r \in Above(q) : r \in Above(p)
<1>0. Len(p) \in Nat
  BY LenProperties DEF Paths
<1>1. PICK n \in 0..(Len(p) - 1) : q = SubSeq(p, 1, n)
  BY DEF Above
<1>2. n \in 0..Len(p) /\ n \in Nat /\ n < Len(p)
  BY <1>0
<1>3. q \in Paths /\ Len(q) = n
  BY <1>1, <1>2, SubSeqPath
<1>4. ASSUME NEW r \in Above(q) PROVE r \in Above(p)
  <2>1. PICK m \in 0..(n - 1) : r = SubSeq(q, 1, m)
    BY <1>3 DEF Above
  <2>2. r = SubSeq(p, 1, m)
    BY <2>1, <1>1, <1>2, SubSub
  <2>3. m \in 0..(Len(p) - 1)
    BY <1>0, <1>2
  <2> QED BY <2>2, <2>3 DEF Above
<1> QED BY <1>0, <1>1, <1>2, <1>3, <1>4

LEMMA SubSeqAbove ==
  ASSUME NEW p \in Paths, NEW n \in Nat, n < Len(p)
  PROVE  SubSeq(p, 1, n) \in Above(p)
<1>1. n \in 0..(Len(p) - 1)
  BY LenProperties DEF Paths
<1> QED BY <1>1 DEF Above

LEMMA SubSeqFull2 ==
  ASSUME NEW p \in Paths
  PROVE  SubSeq(p, 1, Len(p)) = p
<1>1. Len(p) \in 0..Len(p) /\ Len(p) \in Nat
  BY LenProperties DEF Paths
<1> QED BY <1>1, SubSeqPath, PathEqual

LEMMA AboveLine ==
  ASSUME NEW p \in Paths, NEW q \in Above(p), NEW r \in Above(p)
  PROVE  q = r \/ q \in Above(r) \/ r \in Above(q)
<1>1. q \in Paths /\ Len(q) \in Nat /\ Len(q) < Len(p) /\ q = SubSeq(p, 1, Len(q))
  BY AbovePath
<1>2. r \in Paths /\ Len(r) \in Nat /\ Len(r) < Len(p) /\ r = SubSeq(p, 1, Len(r))
  BY AbovePath
<1>3. Len(p) \in Nat
  BY AbovePath
<1>4. CASE Len(q) < Len(r)
  <2>1. SubSeq(SubSeq(p, 1, Len(r)), 1, Len(q)) = SubSeq(p, 1, Len(q))
    <3>1. Len(r) \in 0..Len(p) /\ Len(q) \in 0..Len(r)
      BY <1>1, <1>2, <1>3, <1>4
    <3> QED BY <3>1, SubSub
  <2>2. SubSeq(r, 1, Len(q)) = q
    BY <2>1, <1>1, <1>2
  <2> QED BY <2>2, <1>1, <1>2, <1>4, SubSeqAbove
<1>5. CASE Len(r) < Len(q)
  <2>1. SubSeq(SubSeq(p, 1, Len(q)), 1, Len(r)) = SubSeq(p, 1, Len(r))
    <3>1. Len(q) \in 0..Len(p) /\ Len(r) \in 0..Len(q)
      BY <1>1, <1>2, <1>3, <1>5
    <3> QED BY <3>1, SubSub
  <2>2. SubSeq(q, 1, Len(r)) = r
    BY <2>1, <1>1, <1>2
  <2> QED BY <2>2, <1>1, <1>2, <1>5, SubSeqAbove
<1>6. CASE Len(q) = Len(r)
  BY <1>1, <1>2, <1>6
<1>7. Len(q) < Len(r) \/ Len(r) < Len(q) \/ Len(q) = Len(r)
  <2>1. \A m, n \in Nat : m < n \/ n < m \/ m = n
    OBVIOUS
  <2> QED BY <2>1, <1>1, <1>2
<1> QED BY <1>4, <1>5, <1>6, <1>7

(* The end of a path, and what it is the end of.                             *)
LEMMA FrontPath ==
  ASSUME NEW p \in Paths, p # <<>>
  PROVE  /\ Front(p) \in Above(p) /\ Front(p) \in Paths
         /\ Above(p) = Above(Front(p)) \union {Front(p)}
         /\ Last(p) \in Keys /\ p = Append(Front(p), Last(p))
         /\ Len(p) \in Nat /\ Len(Front(p)) = Len(p) - 1 /\ Len(p) > 0
<1>1. Len(p) \in Nat /\ Len(p) > 0
  BY LenProperties, EmptySeq DEF Paths
<1>2. Len(p) - 1 \in Nat /\ Len(p) - 1 < Len(p) /\ Len(p) - 1 \in 0..Len(p)
  BY <1>1
<1>3. Front(p) = SubSeq(p, 1, Len(p) - 1)
  BY DEF Front
<1>4. Front(p) \in Above(p)
  BY <1>2, <1>3, SubSeqAbove
<1>5. Front(p) \in Paths /\ Len(Front(p)) = Len(p) - 1
      /\ \A i \in 1..(Len(p) - 1) : Front(p)[i] = p[i]
  BY <1>2, <1>3, SubSeqPath
<1>6. Last(p) \in Keys
  BY <1>1, ElementOfSeq DEF Last, Paths
<1>7. p = Append(Front(p), Last(p))
  <2>1. Append(Front(p), Last(p)) \in Paths /\ Len(Append(Front(p), Last(p))) = Len(p)
        /\ \A i \in 1..(Len(p) - 1) : Append(Front(p), Last(p))[i] = Front(p)[i]
        /\ Append(Front(p), Last(p))[Len(p)] = Last(p)
    BY <1>1, <1>5, <1>6, AppendProperties DEF Paths
  <2>2. \A i \in 1..Len(p) : p[i] = Append(Front(p), Last(p))[i]
    <3> TAKE i \in 1..Len(p)
    <3>1. i = Len(p) \/ i \in 1..(Len(p) - 1)
      BY <1>1
    <3> QED BY <3>1, <2>1, <1>5 DEF Last
  <2> HIDE DEF Front, Last
  <2> QED BY <2>1, <2>2, PathEqual
<1>8. ASSUME NEW q \in Above(p) PROVE q \in Above(Front(p)) \union {Front(p)}
  <2>1. q = Front(p) \/ q \in Above(Front(p)) \/ Front(p) \in Above(q)
    BY <1>4, AboveLine
  <2>2. ~ Front(p) \in Above(q)
    <3> SUFFICES ASSUME Front(p) \in Above(q) PROVE FALSE
      OBVIOUS
    <3>1. q \in Paths /\ Len(q) \in Nat /\ Len(q) < Len(p)
      BY AbovePath
    <3>2. Len(Front(p)) < Len(q)
      BY <3>1, AbovePath
    <3> QED BY <1>1, <1>5, <3>1, <3>2
  <2> QED BY <2>1, <2>2
<1>9. \A q \in Above(Front(p)) : q \in Above(p)
  BY <1>4, AbovePath
<1> QED BY <1>1, <1>4, <1>5, <1>6, <1>7, <1>8, <1>9

LEMMA AppendPath ==
  ASSUME NEW p \in Paths, NEW key \in Keys
  PROVE  /\ Append(p, key) \in Paths /\ Append(p, key) # <<>>
         /\ Front(Append(p, key)) = p /\ Last(Append(p, key)) = key
         /\ Above(Append(p, key)) = Above(p) \union {p}
<1>0. p \in Seq(Keys) /\ Len(p) \in Nat
  BY LenProperties DEF Paths
<1>1. /\ Append(p, key) \in Seq(Keys) /\ Len(Append(p, key)) = Len(p) + 1
      /\ \A i \in 1..Len(p) : Append(p, key)[i] = p[i]
      /\ Append(p, key)[Len(p) + 1] = key
  BY <1>0, AppendProperties
<1> DEFINE a == Append(p, key)
<1>2. a \in Paths /\ Len(a) = Len(p) + 1 /\ (\A i \in 1..Len(p) : a[i] = p[i]) /\ Len(p) \in Nat
  BY <1>0, <1>1 DEF Paths
<1>3. a # <<>>
  <2>1. Len(a) # 0
    BY <1>0, <1>1
  <2> QED BY <2>1, EmptySeq
<1>4. Last(a) = key
  BY <1>1 DEF Last
<1> HIDE DEF a
<1>5. Front(a) \in Paths /\ Len(Front(a)) = Len(p)
  BY <1>1, <1>2, <1>3, FrontPath
<1>6. \A i \in 1..Len(p) : Front(a)[i] = p[i]
  <2>1. Front(a) = SubSeq(a, 1, Len(p))
    BY <1>1, <1>2 DEF Front
  <2>2. Len(p) \in 0..Len(a)
    BY <1>1, <1>2
  <2> QED BY <2>1, <2>2, <1>2, SubSeqPath
<1>7. Front(a) = p
  BY <1>5, <1>6, PathEqual
<1>8. Above(a) = Above(p) \union {p}
  BY <1>2, <1>3, <1>7, FrontPath
<1> QED BY <1>2, <1>3, <1>4, <1>7, <1>8 DEF a

LEMMA EmptyPath ==
  /\ <<>> \in Paths /\ Above(<<>>) = {}
  /\ \A p \in Paths : p # <<>> => <<>> \in Above(p)
<1>1. <<>> \in Paths /\ Len(<<>>) = 0
  BY EmptySeq DEF Paths
<1>2. Above(<<>>) = {}
  BY <1>1 DEF Above
<1>3. ASSUME NEW p \in Paths, p # <<>> PROVE <<>> \in Above(p)
  <2>1. Len(p) \in Nat /\ Len(p) > 0
    BY <1>3, LenProperties, EmptySeq DEF Paths
  <2>2. SubSeq(p, 1, 0) \in Above(p)
    BY <2>1, SubSeqAbove
  <2>3. 0 \in 0..Len(p)
    BY <2>1
  <2>4. SubSeq(p, 1, 0) \in Paths /\ Len(SubSeq(p, 1, 0)) = 0
    BY <2>3, SubSeqPath
  <2> QED BY <2>2, <2>4, EmptySeq DEF Paths
<1> QED BY <1>1, <1>2, <1>3

(* Of some paths, there is one that none of the others is above.             *)
LEMMA Shallowest ==
  ASSUME NEW S, S \subseteq Paths, NEW p \in S
  PROVE  \E s \in S : Within(p, s) /\ \A q \in Above(s) : q \notin S
<1> DEFINE T == {Len(s) : s \in {t \in S : Within(p, t)}}
<1>1. T \in SUBSET Nat /\ T # {}
  <2>1. \A t \in S : Len(t) \in Nat
    BY LenProperties DEF Paths
  <2>2. Within(p, p)
    BY DEF Within
  <2> QED BY <2>1, <2>2
<1>2. PICK n \in T : \A m \in T : n <= m
  BY <1>1, Least
<1>3. PICK s \in S : Within(p, s) /\ Len(s) = n
  OBVIOUS
<1>4. ASSUME NEW q \in Above(s) PROVE q \notin S
  <2>1. Len(q) < Len(s) /\ Len(q) \in Nat /\ Len(s) \in Nat
    BY AbovePath
  <2>2. Within(p, q)
    BY <1>3, AbovePath DEF Within
  <2>3. q \in S => Len(q) \in T
    BY <2>2
  <2> QED BY <2>1, <2>3, <1>2, <1>3
<1> QED BY <1>3, <1>4

LEMMA WithinPath ==
  ASSUME NEW p \in Paths, NEW q, Within(p, q)
  PROVE  /\ q \in Paths
         /\ \A r : Within(q, r) => Within(p, r)
         /\ \A r : q \in Above(r) /\ r \in Paths => ~Within(q, r)
         /\ \A r \in Above(p) : r \in Above(q) \/ Within(r, q)
<1>1. q \in Paths /\ \A r \in Above(q) : r \in Above(p)
  BY AbovePath DEF Within
<1>2. \A r : Within(q, r) => Within(p, r)
  BY <1>1 DEF Within
<1>3. ASSUME NEW r \in Paths, q \in Above(r) PROVE ~Within(q, r)
  <2>1. Len(q) < Len(r) /\ q # r /\ Len(q) \in Nat /\ Len(r) \in Nat
    BY <1>3, AbovePath
  <2>2. r \notin Above(q)
    BY <2>1, <1>1, AbovePath
  <2> QED BY <2>1, <2>2 DEF Within
<1>4. ASSUME NEW r \in Above(p) PROVE r \in Above(q) \/ Within(r, q)
  BY AboveLine DEF Within
<1> QED BY <1>1, <1>2, <1>3, <1>4

(* The step on the way from a path to one within it.                         *)
LEMMA StepBelow ==
  ASSUME NEW p \in Paths, NEW q \in Above(p)
  PROVE  \E c \in Paths : c # <<>> /\ Front(c) = q /\ Within(p, c)
<1>1. q \in Paths /\ Len(q) \in Nat /\ Len(p) \in Nat /\ Len(q) < Len(p) /\ q = SubSeq(p, 1, Len(q))
  BY AbovePath
<1> DEFINE n == Len(q) + 1
<1>2. n \in 0..Len(p) /\ n \in Nat /\ Len(q) \in 0..n /\ n - 1 = Len(q)
  BY <1>1
<1> DEFINE c == SubSeq(p, 1, n)
<1>3. c \in Paths /\ Len(c) = n
  BY <1>2, SubSeqPath
<1>4. c # <<>>
  BY <1>1, <1>3, EmptySeq
<1>5. Front(c) = q
  <2>1. SubSeq(c, 1, Len(q)) = SubSeq(p, 1, Len(q))
    BY <1>2, SubSub
  <2>2. Front(c) = SubSeq(c, 1, Len(q))
    BY <1>2, <1>3 DEF Front
  <2> QED BY <2>1, <2>2, <1>1
<1>6. Within(p, c)
  <2>1. CASE n = Len(p)
    BY <2>1, SubSeqFull2 DEF Within
  <2>2. CASE n < Len(p)
    BY <2>2, <1>2, SubSeqAbove DEF Within
  <2> QED BY <1>1, <1>2, <2>1, <2>2
<1> QED BY <1>3, <1>4, <1>5, <1>6

LEMMA AppendOne ==
  ASSUME NEW x
  PROVE  Append(<<>>, x) = <<x>>
<1>1. Len(<<>>) = 0
  BY EmptySeq
<1> QED BY <1>1

LEMMA AppendTwo ==
  ASSUME NEW x, NEW y
  PROVE  Append(<<x>>, y) = <<x, y>>
<1> DEFINE S == {x, y}
<1>1. <<x>> \in Seq(S) /\ y \in S /\ Len(<<x>>) = 1 /\ <<x>>[1] = x
  OBVIOUS
<1>2. <<x, y>> \in Seq(S) /\ Len(<<x, y>>) = 2 /\ <<x, y>>[1] = x /\ <<x, y>>[2] = y
  OBVIOUS
<1> HIDE DEF S
<1> DEFINE a == Append(<<x>>, y)
<1>3. a \in Seq(S) /\ Len(a) = 2 /\ a[1] = x /\ a[2] = y
  <2>1. a \in Seq(S) /\ Len(a) = Len(<<x>>) + 1
        /\ (\A i \in 1..Len(<<x>>) : a[i] = <<x>>[i])
        /\ a[Len(<<x>>) + 1] = y
    BY <1>1, AppendProperties
  <2> HIDE DEF a
  <2> QED BY <1>1, <2>1
<1> HIDE DEF a
<1>4. \A i \in 1..Len(a) : a[i] = <<x, y>>[i]
  <2> TAKE i \in 1..Len(a)
  <2>1. i = 1 \/ i = 2
    BY <1>3
  <2> QED BY <1>2, <1>3, <2>1
<1>5. Len(a) = Len(<<x, y>>)
  BY <1>2, <1>3
<1>6. a = <<x, y>>
  BY <1>2, <1>3, <1>4, <1>5, SeqEqual
<1> QED BY <1>6 DEF a

-----------------------------------------------------------------------------
(* Documents.                                                                *)

LEMMA NodesDiffer ==
  /\ ObjectNode # ArrayNode /\ ObjectNode # Null /\ ArrayNode # Null
  /\ ObjectNode \in Containers /\ ArrayNode \in Containers /\ Null \notin Containers
BY DEF ObjectNode, ArrayNode, Null, Node, Containers

LEMMA RestrictIs ==
  ASSUME NEW v, NEW S
  PROVE  DOMAIN Restrict(v, S) = S /\ \A p \in S : Restrict(v, S)[p] = v[p]
BY DEF Restrict

LEMMA TreeAbove ==
  ASSUME NEW v, IsTree(v), NEW p \in DOMAIN v, NEW q \in Above(p)
  PROVE  q \in DOMAIN v /\ v[q] \in Containers /\ p \in Paths /\ q \in Paths
BY AbovePath DEF IsTree

(* What is above each of its values is in it too.                            *)
UpClosed(S) == \A p \in S : \A q \in Above(p) : q \in S

LEMMA RestrictTree ==
  ASSUME NEW v, IsTree(v), NEW S, S \subseteq DOMAIN v, UpClosed(S)
  PROVE  IsTree(Restrict(v, S))
BY RestrictIs DEF IsTree, UpClosed

LEMMA AtIs ==
  ASSUME NEW v, NEW p
  PROVE  /\ DOMAIN At(v, p) = {q \in DOMAIN v : Within(q, p)}
         /\ \A q \in DOMAIN At(v, p) : At(v, p)[q] = v[q]
BY RestrictIs DEF At

LEMMA AtEqual ==
  ASSUME NEW v, NEW w, NEW p,
         \A q : Within(q, p) => (q \in DOMAIN v <=> q \in DOMAIN w),
         \A q : Within(q, p) /\ q \in DOMAIN v => v[q] = w[q]
  PROVE  At(v, p) = At(w, p)
<1>1. {q \in DOMAIN v : Within(q, p)} = {q \in DOMAIN w : Within(q, p)}
  OBVIOUS
<1>2. [q \in {q \in DOMAIN v : Within(q, p)} |-> v[q]] = [q \in {q \in DOMAIN w : Within(q, p)} |-> w[q]]
  BY <1>1
<1> QED BY <1>2 DEF At, Restrict

LEMMA AtSame ==
  ASSUME NEW v, NEW w, NEW p, At(v, p) = At(w, p), NEW q, Within(q, p)
  PROVE  (q \in DOMAIN v <=> q \in DOMAIN w) /\ (q \in DOMAIN v => v[q] = w[q])
<1>1. q \in DOMAIN v <=> q \in DOMAIN At(v, p)
  BY AtIs
<1>2. q \in DOMAIN w <=> q \in DOMAIN At(w, p)
  BY AtIs
<1>3. q \in DOMAIN v => At(v, p)[q] = v[q]
  BY AtIs
<1>4. q \in DOMAIN w => At(w, p)[q] = w[q]
  BY AtIs
<1> QED BY <1>1, <1>2, <1>3, <1>4

-----------------------------------------------------------------------------
(* CloneWithoutNull: what is null in an object is left out.                  *)

Omitted(v, p) == p # <<>> /\ v[p] = Null /\ v[Front(p)] = ObjectNode

LEMMA CloneIs ==
  ASSUME NEW v
  PROVE  /\ \A p : p \in DOMAIN CloneWithoutNull(v) <=> p \in DOMAIN v /\ ~Omitted(v, p)
         /\ \A p \in DOMAIN CloneWithoutNull(v) : CloneWithoutNull(v)[p] = v[p]
<1> DEFINE S == {p \in DOMAIN v : p = <<>> \/ v[p] # Null \/ v[Front(p)] # ObjectNode}
<1>1. CloneWithoutNull(v) = Restrict(v, S)
  BY DEF CloneWithoutNull
<1>2. \A p : p \in S <=> p \in DOMAIN v /\ ~Omitted(v, p)
  BY DEF Omitted
<1> HIDE DEF S
<1> QED BY <1>1, <1>2, RestrictIs

LEMMA CloneTree ==
  ASSUME NEW v, IsTree(v)
  PROVE  IsTree(CloneWithoutNull(v))
<1> DEFINE c == CloneWithoutNull(v)
<1>1. ASSUME NEW p \in DOMAIN c, NEW q \in Above(p) PROVE q \in DOMAIN c /\ c[q] \in Containers
  <2>1. p \in DOMAIN v /\ q \in DOMAIN v /\ v[q] \in Containers
    BY CloneIs, TreeAbove
  <2>2. ~Omitted(v, q)
    BY <2>1, NodesDiffer DEF Omitted
  <2> QED BY <2>1, <2>2, CloneIs
<1>2. DOMAIN c \subseteq Paths
  BY CloneIs DEF IsTree
<1> HIDE DEF c
<1>3. IsTree(c)
  BY <1>1, <1>2 DEF IsTree
<1> QED BY <1>3 DEF c

(* A document without nulls.                                                 *)
NullFree(v) == CloneWithoutNull(v) = v

LEMMA NullFreeIs ==
  ASSUME NEW v, NullFree(v)
  PROVE  \A p \in DOMAIN v : ~Omitted(v, p)
BY CloneIs DEF NullFree

LEMMA NullFreeIf ==
  ASSUME NEW v, NEW S, v = Restrict(v, S), \A p \in DOMAIN v : ~Omitted(v, p)
  PROVE  NullFree(v)
<1>1. DOMAIN v = S
  BY RestrictIs
<1>2. {p \in DOMAIN v : p = <<>> \/ v[p] # Null \/ v[Front(p)] # ObjectNode} = S
  BY <1>1 DEF Omitted
<1> QED BY <1>2 DEF NullFree, CloneWithoutNull

LEMMA CloneNullFree ==
  ASSUME NEW v, IsTree(v)
  PROVE  NullFree(CloneWithoutNull(v))
<1> DEFINE c == CloneWithoutNull(v)
<1>1. \A p \in DOMAIN c : ~Omitted(c, p)
  <2> TAKE p \in DOMAIN c
  <2>1. p \in DOMAIN v /\ ~Omitted(v, p) /\ c[p] = v[p]
    BY CloneIs
  <2>2. CASE p = <<>>
    BY <2>2 DEF Omitted
  <2>3. CASE p # <<>>
    <3>1. Front(p) \in Above(p)
      BY <2>1, <2>3, FrontPath DEF IsTree
    <3>2. Front(p) \in DOMAIN c
      BY <3>1, CloneTree, TreeAbove
    <3>3. c[Front(p)] = v[Front(p)]
      BY <3>2, CloneIs
    <3> QED BY <2>1, <3>3 DEF Omitted
  <2> QED BY <2>2, <2>3
<1>2. c = Restrict(c, DOMAIN c)
  <2>1. c = [p \in DOMAIN c |-> c[p]]
    BY DEF CloneWithoutNull, Restrict
  <2> HIDE DEF c
  <2> QED BY <2>1 DEF Restrict
<1> HIDE DEF c
<1>3. NullFree(c)
  BY <1>1, <1>2, NullFreeIf
<1> QED BY <1>3 DEF c

-----------------------------------------------------------------------------
(* Merge.                                                                    *)

(* What is above a path in the second document is the same in the first.     *)
Agreeing(a, b, p) == \A q \in Above(p) : q \in DOMAIN b => b[q] = a[q]

LEMMA MergeIs ==
  ASSUME NEW a, NEW b
  PROVE  /\ \A p : p \in DOMAIN Merge(a, b) <=>
                     p \in DOMAIN b \/ (p \in DOMAIN a /\ Agreeing(a, b, p))
         /\ \A p \in DOMAIN b : Merge(a, b)[p] = b[p]
         /\ \A p \in DOMAIN Merge(a, b) : p \notin DOMAIN b => Merge(a, b)[p] = a[p]
<1> DEFINE S == {p \in DOMAIN a : \A q \in Above(p) \intersect DOMAIN b : b[q] = a[q]}
<1>1. Merge(a, b) = Over(b, Restrict(a, S))
  BY DEF Merge
<1>2. \A p : p \in S <=> p \in DOMAIN a /\ Agreeing(a, b, p)
  BY DEF Agreeing
<1> HIDE DEF S
<1>3. DOMAIN Restrict(a, S) = S /\ \A p \in S : Restrict(a, S)[p] = a[p]
  BY RestrictIs
<1>4. Merge(a, b) = [p \in DOMAIN b \union S |-> IF p \in DOMAIN b THEN b[p] ELSE Restrict(a, S)[p]]
  BY <1>1, <1>3 DEF Over
<1> QED BY <1>2, <1>3, <1>4

LEMMA MergeTree ==
  ASSUME NEW a, NEW b, IsTree(a), IsTree(b)
  PROVE  IsTree(Merge(a, b))
<1> DEFINE m == Merge(a, b)
<1>1. ASSUME NEW p \in DOMAIN m, NEW q \in Above(p) PROVE q \in DOMAIN m /\ m[q] \in Containers
  <2>1. CASE p \in DOMAIN b
    <3>1. q \in DOMAIN b /\ b[q] \in Containers
      BY <2>1, TreeAbove
    <3> QED BY <3>1, MergeIs
  <2>2. CASE p \notin DOMAIN b
    <3>1. p \in DOMAIN a /\ Agreeing(a, b, p)
      BY <2>2, MergeIs
    <3>2. q \in DOMAIN a /\ a[q] \in Containers /\ p \in Paths
      BY <3>1, TreeAbove
    <3>3. CASE q \in DOMAIN b
      BY <3>1, <3>2, <3>3, MergeIs DEF Agreeing
    <3>4. CASE q \notin DOMAIN b
      <4>1. Agreeing(a, b, q)
        BY <3>1, <3>2, AbovePath DEF Agreeing
      <4> QED BY <3>2, <3>4, <4>1, MergeIs
    <3> QED BY <3>3, <3>4
  <2> QED BY <2>1, <2>2
<1>2. DOMAIN m \subseteq Paths
  BY MergeIs DEF IsTree
<1> HIDE DEF m
<1>3. IsTree(m)
  BY <1>1, <1>2 DEF IsTree
<1> QED BY <1>3 DEF m

-----------------------------------------------------------------------------
(* MergeObj.                                                                 *)

Ignored(from, patch, p) ==
  patch[p] = Null /\ p \in DOMAIN from /\ InObjects(from, p) /\ InObjects(patch, p)

(* What of the first document is kept: only objects of both are above it.    *)
Kept(from, patch, p) ==
  \A q \in Above(p) : q \in DOMAIN patch /\ ~Ignored(from, patch, q) =>
                        patch[q] = ObjectNode /\ IsObject(from, q)

LEMMA MergeObjIs ==
  ASSUME NEW a, NEW b
  PROVE  /\ \A p : p \in DOMAIN MergeObj(a, b) <=>
                     (p \in DOMAIN b /\ ~Ignored(a, b, p)) \/ (p \in DOMAIN a /\ Kept(a, b, p))
         /\ \A p \in DOMAIN b : ~Ignored(a, b, p) => MergeObj(a, b)[p] = b[p]
         /\ \A p \in DOMAIN MergeObj(a, b) :
              p \notin DOMAIN b \/ Ignored(a, b, p) => MergeObj(a, b)[p] = a[p]
<1> DEFINE M == {p \in DOMAIN b : ~Ignored(a, b, p)}
           m == Restrict(b, M)
           S == {p \in DOMAIN a : \A q \in Above(p) \intersect DOMAIN m : IsObject(m, q) /\ IsObject(a, q)}
<1>1. MergeObj(a, b) = Over(m, Restrict(a, S))
  BY DEF MergeObj, Ignored
<1>2. DOMAIN m = M /\ \A p \in M : m[p] = b[p]
  BY RestrictIs
<1>3. \A p : p \in M <=> p \in DOMAIN b /\ ~Ignored(a, b, p)
  OBVIOUS
<1> HIDE DEF m, M
<1>4. \A p : p \in S <=> p \in DOMAIN a /\ Kept(a, b, p)
  BY <1>2, <1>3 DEF Kept, IsObject
<1> HIDE DEF S
<1>5. DOMAIN Restrict(a, S) = S /\ \A p \in S : Restrict(a, S)[p] = a[p]
  BY RestrictIs
<1>6. MergeObj(a, b) = [p \in DOMAIN m \union S |-> IF p \in DOMAIN m THEN m[p] ELSE Restrict(a, S)[p]]
  BY <1>1, <1>5 DEF Over
<1> QED BY <1>2, <1>3, <1>4, <1>5, <1>6

LEMMA MergeObjTree ==
  ASSUME NEW a, NEW b, IsTree(a), IsTree(b)
  PROVE  IsTree(MergeObj(a, b))
<1> DEFINE m == MergeObj(a, b)
<1>1. ASSUME NEW p \in DOMAIN m, NEW q \in Above(p) PROVE q \in DOMAIN m /\ m[q] \in Containers
  <2>1. CASE p \in DOMAIN b
    <3>1. q \in DOMAIN b /\ b[q] \in Containers
      BY <2>1, TreeAbove
    <3>2. ~Ignored(a, b, q)
      BY <3>1, NodesDiffer DEF Ignored
    <3> QED BY <3>1, <3>2, MergeObjIs
  <2>2. CASE p \notin DOMAIN b
    <3>1. p \in DOMAIN a /\ Kept(a, b, p)
      BY <2>2, MergeObjIs
    <3>2. q \in DOMAIN a /\ a[q] \in Containers /\ p \in Paths
      BY <3>1, TreeAbove
    <3>3. CASE q \in DOMAIN b /\ ~Ignored(a, b, q)
      BY <3>1, <3>2, <3>3, MergeObjIs, NodesDiffer DEF Kept
    <3>4. CASE q \notin DOMAIN b \/ Ignored(a, b, q)
      <4>1. Kept(a, b, q)
        BY <3>1, <3>2, AbovePath DEF Kept
      <4> QED BY <3>2, <3>4, <4>1, MergeObjIs
    <3> QED BY <3>3, <3>4
  <2> QED BY <2>1, <2>2
<1>2. DOMAIN m \subseteq Paths
  BY MergeObjIs DEF IsTree
<1> HIDE DEF m
<1>3. IsTree(m)
  BY <1>1, <1>2 DEF IsTree
<1> QED BY <1>3 DEF m

-----------------------------------------------------------------------------
(* DiffObj.                                                                  *)

(* Where DiffObj finds the right object to say otherwise than the left.      *)
Differs(left, right, p) ==
  /\ p \in DOMAIN right
  /\ InObjects(left, p) /\ InObjects(right, p)
  /\ ~(IsObject(left, p) /\ IsObject(right, p))
  /\ ~(p \in DOMAIN left /\ Equal(right, left, p))

LEMMA DiffObjIs ==
  ASSUME NEW a, NEW b
  PROVE  /\ \A p : p \in DOMAIN DiffObj(a, b) <=>
                     p \in DOMAIN b /\ \E t : Differs(a, b, t) /\ (Within(p, t) \/ Within(t, p))
         /\ \A p \in DOMAIN DiffObj(a, b) : DiffObj(a, b)[p] = b[p]
<1> DEFINE D == {p \in DOMAIN b : /\ InObjects(a, p) /\ InObjects(b, p)
                                  /\ ~(IsObject(a, p) /\ IsObject(b, p))
                                  /\ ~(p \in DOMAIN a /\ Equal(b, a, p))}
           S == {p \in DOMAIN b : \E t \in D : Within(p, t) \/ Within(t, p)}
<1>1. DiffObj(a, b) = Restrict(b, S)
  BY DEF DiffObj
<1>2. \A t : t \in D <=> Differs(a, b, t)
  BY DEF Differs
<1> HIDE DEF D
<1>3. \A p : p \in S <=> p \in DOMAIN b /\ \E t : Differs(a, b, t) /\ (Within(p, t) \/ Within(t, p))
  BY <1>2
<1> HIDE DEF S
<1> QED BY <1>1, <1>3, RestrictIs

LEMMA DiffObjTree ==
  ASSUME NEW a, NEW b, IsTree(b)
  PROVE  IsTree(DiffObj(a, b))
<1> DEFINE d == DiffObj(a, b)
<1>1. ASSUME NEW p \in DOMAIN d, NEW q \in Above(p) PROVE q \in DOMAIN d /\ d[q] \in Containers
  <2>1. p \in DOMAIN b
    BY DiffObjIs
  <2>2. PICK t : Differs(a, b, t) /\ (Within(p, t) \/ Within(t, p))
    BY DiffObjIs
  <2>3. q \in DOMAIN b /\ b[q] \in Containers /\ p \in Paths
    BY <2>1, TreeAbove
  <2>4. t \in DOMAIN b /\ t \in Paths
    BY <2>2 DEF Differs, IsTree
  <2>5. Within(q, t) \/ Within(t, q)
    <3>1. CASE Within(p, t)
      BY <2>3, <3>1, WithinPath DEF Within
    <3>2. CASE Within(t, p)
      BY <2>3, <2>4, <3>2, AbovePath DEF Within
    <3> QED BY <2>2, <3>1, <3>2
  <2>6. q \in DOMAIN d
    BY <2>2, <2>3, <2>5, DiffObjIs
  <2> QED BY <2>3, <2>6, DiffObjIs
<1>2. DOMAIN d \subseteq Paths
  BY DiffObjIs DEF IsTree
<1> HIDE DEF d
<1>3. IsTree(d)
  BY <1>1, <1>2 DEF IsTree
<1> QED BY <1>3 DEF d

-----------------------------------------------------------------------------
(* What the server takes of a document.                                      *)

LEMMA SpecPath ==
  /\ <<"spec">> \in Paths /\ Above(<<"spec">>) = {<<>>}
  /\ Config \in Paths /\ Above(Config) = {<<>>, <<"spec">>}
  /\ Version \in Paths /\ Above(Version) = {<<>>, <<"spec">>}
  /\ \A p \in Paths : Within(p, Config) \/ Within(p, Version) => Within(p, <<"spec">>)
<1>0. "spec" \in Keys /\ "config" \in Keys /\ "version" \in Keys
  BY KeysAssumption
<1>1. Append(<<>>, "spec") = <<"spec">> /\ Append(<<"spec">>, "config") = Config
      /\ Append(<<"spec">>, "version") = Version
  BY AppendOne, AppendTwo DEF Config, Version
<1>2. <<"spec">> \in Paths /\ Above(<<"spec">>) = {<<>>}
  BY <1>0, <1>1, EmptyPath, AppendPath
<1>3. Config \in Paths /\ Above(Config) = {<<>>, <<"spec">>}
  BY <1>0, <1>1, <1>2, AppendPath
<1>4. Version \in Paths /\ Above(Version) = {<<>>, <<"spec">>}
  BY <1>0, <1>1, <1>2, AppendPath
<1>5. Within(Config, <<"spec">>) /\ Within(Version, <<"spec">>)
  BY <1>3, <1>4 DEF Within
<1>6. \A p \in Paths : Within(p, Config) \/ Within(p, Version) => Within(p, <<"spec">>)
  BY <1>5, WithinPath
<1> QED BY <1>2, <1>3, <1>4, <1>6

LEMMA SpecOfIs ==
  ASSUME NEW v
  PROVE  /\ \A p : p \in DOMAIN SpecOf(v) <=> p \in DOMAIN v /\ (Within(p, <<"spec">>) \/ p = <<>>)
         /\ \A p \in DOMAIN SpecOf(v) : SpecOf(v)[p] = v[p]
BY RestrictIs DEF SpecOf

LEMMA SpecOfTree ==
  ASSUME NEW v, IsTree(v)
  PROVE  IsTree(SpecOf(v))
<1> DEFINE S == {p \in DOMAIN v : Within(p, <<"spec">>) \/ p = <<>>}
<1>1. ASSUME NEW p \in S, NEW q \in Above(p) PROVE q \in S
  <2>1. p \in DOMAIN v /\ q \in DOMAIN v /\ p \in Paths
    BY TreeAbove
  <2>2. p # <<>>
    BY EmptyPath
  <2>3. q \in Above(<<"spec">>) \/ Within(q, <<"spec">>)
    BY <2>1, <2>2, WithinPath
  <2> QED BY <2>1, <2>3, SpecPath
<1>2. S \subseteq DOMAIN v /\ UpClosed(S)
  BY <1>1 DEF UpClosed
<1> HIDE DEF S
<1>3. IsTree(Restrict(v, S))
  BY <1>2, RestrictTree
<1> QED BY <1>3 DEF S, SpecOf

(* What is not within a path.                                                *)
LEMMA WithoutIs ==
  ASSUME NEW v, NEW path
  PROVE  /\ \A p : p \in DOMAIN Without(v, path) <=> p \in DOMAIN v /\ ~Within(p, path)
         /\ \A p \in DOMAIN Without(v, path) : Without(v, path)[p] = v[p]
BY RestrictIs DEF Without

LEMMA WithoutTree ==
  ASSUME NEW v, IsTree(v), NEW path
  PROVE  IsTree(Without(v, path))
<1> DEFINE S == {p \in DOMAIN v : ~Within(p, path)}
<1>1. ASSUME NEW p \in S, NEW q \in Above(p) PROVE q \in S
  <2>1. p \in DOMAIN v /\ q \in DOMAIN v /\ p \in Paths
    BY TreeAbove
  <2>2. ~Within(q, path)
    BY <2>1, AbovePath DEF Within
  <2> QED BY <2>1, <2>2
<1>2. S \subseteq DOMAIN v /\ UpClosed(S)
  BY <1>1 DEF UpClosed
<1> HIDE DEF S
<1>3. IsTree(Restrict(v, S))
  BY <1>2, RestrictTree
<1> QED BY <1>3 DEF S, Without

-----------------------------------------------------------------------------
(* lodash's set.                                                             *)

LEMMA PathIs ==
  ASSUME NEW p \in Paths
  PROVE  Len(p) \in Nat /\ DOMAIN p = 1..Len(p) /\ \A i \in 1..Len(p) : p[i] \in Keys
BY LenProperties, ElementOfSeq DEF Paths

LEMMA WithinIs ==
  ASSUME NEW p \in Paths, NEW q \in Paths
  PROVE  Within(p, q) <=> Len(q) <= Len(p) /\ \A i \in 1..Len(q) : q[i] = p[i]
<1>0. Len(p) \in Nat /\ Len(q) \in Nat
  BY PathIs
<1>1. ASSUME q \in Above(p) PROVE Len(q) <= Len(p) /\ \A i \in 1..Len(q) : q[i] = p[i]
  <2>1. q = SubSeq(p, 1, Len(q)) /\ Len(q) < Len(p)
    BY <1>1, AbovePath
  <2>2. Len(q) \in 0..Len(p)
    BY <1>0, <2>1
  <2>3. \A i \in 1..Len(q) : SubSeq(p, 1, Len(q))[i] = p[i]
    BY <2>2, SubSeqPath
  <2> QED BY <1>0, <2>1, <2>3
<1>2. ASSUME Len(q) <= Len(p), \A i \in 1..Len(q) : q[i] = p[i] PROVE Within(p, q)
  <2>1. Len(q) \in 0..Len(p)
    BY <1>0, <1>2
  <2> DEFINE s == SubSeq(p, 1, Len(q))
  <2>2. s \in Paths /\ Len(s) = Len(q) /\ \A i \in 1..Len(q) : s[i] = p[i]
    BY <2>1, SubSeqPath
  <2> HIDE DEF s
  <2>3. s = q
    BY <2>2, <1>2, PathEqual
  <2>4. CASE Len(q) < Len(p)
    BY <1>0, <2>3, <2>4, SubSeqAbove DEF s, Within
  <2>5. CASE Len(q) = Len(p)
    BY <2>3, <2>5, SubSeqFull2 DEF s, Within
  <2>6. \A m, n \in Nat : m <= n => m < n \/ m = n
    OBVIOUS
  <2> QED BY <1>0, <1>2, <2>4, <2>5, <2>6
<1>3. ASSUME p = q PROVE Len(q) <= Len(p) /\ \A i \in 1..Len(q) : q[i] = p[i]
  BY <1>0, <1>3
<1> QED BY <1>1, <1>2, <1>3 DEF Within

LEMMA AboveIs ==
  ASSUME NEW p \in Paths, NEW q \in Paths
  PROVE  q \in Above(p) <=> Within(p, q) /\ Len(q) < Len(p)
<1>0. Len(p) \in Nat /\ Len(q) \in Nat
  BY PathIs
<1>1. q \in Above(p) => Len(q) < Len(p)
  BY AbovePath
<1> QED BY <1>0, <1>1 DEF Within

LEMMA MovedIs ==
  ASSUME NEW p \in Paths, NEW f \in Paths, NEW t \in Paths, Len(f) = Len(t), Within(p, f)
  PROVE  /\ Moved(p, f, t) \in Paths /\ Len(Moved(p, f, t)) = Len(p)
         /\ \A i \in 1..Len(p) : Moved(p, f, t)[i] = IF i <= Len(t) THEN t[i] ELSE p[i]
<1>0. Len(p) \in Nat /\ Len(f) \in Nat /\ Len(t) \in Nat /\ Len(t) <= Len(p)
  BY PathIs, WithinIs
<1>1. Moved(p, f, t) = [i \in 1..Len(p) |-> IF i <= Len(t) THEN t[i] ELSE p[i]]
  BY PathIs DEF Moved
<1>2. \A i \in 1..Len(p) : (IF i <= Len(t) THEN t[i] ELSE p[i]) \in Keys
  <2> TAKE i \in 1..Len(p)
  <2>1. i <= Len(t) => i \in 1..Len(t)
    BY <1>0
  <2> QED BY <2>1, PathIs
<1>3. Moved(p, f, t) \in [1..Len(p) -> Keys]
  BY <1>1, <1>2
<1>4. Moved(p, f, t) \in Paths
  BY <1>0, <1>3, IsASeq DEF Paths
<1>5. DOMAIN Moved(p, f, t) = 1..Len(p)
  BY <1>1
<1>6. Len(Moved(p, f, t)) = Len(p)
  <2> DEFINE m == Moved(p, f, t)
  <2>1. DOMAIN m = 1..Len(m) /\ Len(m) \in Nat
    BY <1>4, PathIs
  <2>2. 1..Len(m) = 1..Len(p)
    BY <2>1, <1>5
  <2> HIDE DEF m
  <2>3. Len(m) = Len(p)
    <3>1. \A j, k \in Nat : 1..j = 1..k => j = k
      <4> SUFFICES ASSUME NEW j \in Nat, NEW k \in Nat, 1..j = 1..k PROVE j = k
        OBVIOUS
      <4>1. j \in 1..j => j \in 1..k
        OBVIOUS
      <4>2. k \in 1..k => k \in 1..j
        OBVIOUS
      <4> QED BY <4>1, <4>2
    <3> QED BY <3>1, <2>1, <2>2, <1>0
  <2> QED BY <2>3 DEF m
<1> QED BY <1>1, <1>4, <1>6

(* What was moved is within the path it was moved to, and can be moved back. *)
LEMMA MovedBack ==
  ASSUME NEW p \in Paths, NEW f \in Paths, NEW t \in Paths, Len(f) = Len(t), Within(p, f)
  PROVE  Within(Moved(p, f, t), t) /\ Moved(Moved(p, f, t), t, f) = p
<1> DEFINE m == Moved(p, f, t)
<1>0. Len(p) \in Nat /\ Len(t) \in Nat /\ Len(t) <= Len(p) /\ \A i \in 1..Len(f) : f[i] = p[i]
  BY PathIs, WithinIs
<1>1. m \in Paths /\ Len(m) = Len(p)
      /\ \A i \in 1..Len(p) : m[i] = IF i <= Len(t) THEN t[i] ELSE p[i]
  BY MovedIs
<1> HIDE DEF m
<1>2. Within(m, t)
  <2>1. \A i \in 1..Len(t) : t[i] = m[i]
    BY <1>0, <1>1
  <2> QED BY <1>0, <1>1, <2>1, WithinIs
<1>3. Moved(m, t, f) \in Paths /\ Len(Moved(m, t, f)) = Len(m)
      /\ \A i \in 1..Len(m) : Moved(m, t, f)[i] = IF i <= Len(f) THEN f[i] ELSE m[i]
  BY <1>1, <1>2, MovedIs
<1>4. \A i \in 1..Len(p) : Moved(m, t, f)[i] = p[i]
  <2> TAKE i \in 1..Len(p)
  <2>1. i <= Len(f) => i \in 1..Len(f)
    BY <1>0
  <2> QED BY <2>1, <1>0, <1>1, <1>3
<1>5. Moved(m, t, f) = p
  BY <1>1, <1>3, <1>4, PathEqual
<1> QED BY <1>2, <1>5 DEF m

LEMMA MovedAbove ==
  ASSUME NEW p \in Paths, NEW f \in Paths, NEW t \in Paths, Len(f) = Len(t), Within(p, f),
         NEW q \in Above(p), Within(q, f)
  PROVE  Moved(q, f, t) \in Above(Moved(p, f, t))
<1>0. q \in Paths /\ Len(q) \in Nat /\ Len(p) \in Nat /\ Len(t) \in Nat /\ Len(q) < Len(p)
      /\ Within(p, q)
  BY AbovePath, PathIs DEF Within
<1>1. Len(q) <= Len(p) /\ \A i \in 1..Len(q) : q[i] = p[i]
  BY <1>0, WithinIs
<1> DEFINE m == Moved(p, f, t)
           n == Moved(q, f, t)
<1>2. m \in Paths /\ Len(m) = Len(p)
      /\ \A i \in 1..Len(p) : m[i] = IF i <= Len(t) THEN t[i] ELSE p[i]
  BY MovedIs
<1>3. n \in Paths /\ Len(n) = Len(q)
      /\ \A i \in 1..Len(q) : n[i] = IF i <= Len(t) THEN t[i] ELSE q[i]
  BY <1>0, MovedIs
<1> HIDE DEF m, n
<1>4. \A i \in 1..Len(n) : n[i] = m[i]
  <2> TAKE i \in 1..Len(n)
  <2>1. i \in 1..Len(p) /\ i \in 1..Len(q)
    BY <1>0, <1>3
  <2> QED BY <2>1, <1>1, <1>2, <1>3
<1>5. Within(m, n)
  BY <1>1, <1>2, <1>3, <1>4, WithinIs
<1>6. n \in Above(m)
  BY <1>0, <1>2, <1>3, <1>5, AboveIs
<1> QED BY <1>6 DEF m, n

LEMMA MovedSame ==
  ASSUME NEW p \in Paths, NEW f \in Paths, Within(p, f)
  PROVE  Moved(p, f, f) = p
<1>0. Len(p) \in Nat /\ Len(f) \in Nat /\ Len(f) <= Len(p) /\ \A i \in 1..Len(f) : f[i] = p[i]
  BY PathIs, WithinIs
<1>1. Moved(p, f, f) \in Paths /\ Len(Moved(p, f, f)) = Len(p)
      /\ \A i \in 1..Len(p) : Moved(p, f, f)[i] = IF i <= Len(f) THEN f[i] ELSE p[i]
  BY MovedIs
<1>2. \A i \in 1..Len(p) : Moved(p, f, f)[i] = p[i]
  <2> TAKE i \in 1..Len(p)
  <2>1. i <= Len(f) => i \in 1..Len(f)
    BY <1>0
  <2> QED BY <2>1, <1>0, <1>1
<1> QED BY <1>1, <1>2, PathEqual

(* A path and one more key, whatever that is.                                *)
LEMMA AppendFront ==
  ASSUME NEW p \in Paths, NEW k
  PROVE  /\ Front(Append(p, k)) = p /\ Last(Append(p, k)) = k /\ Append(p, k) # <<>>
         /\ Len(Append(p, k)) = Len(p) + 1 /\ \A i \in 1..Len(p) : Append(p, k)[i] = p[i]
<1> DEFINE T == Keys \union {k}
           a == Append(p, k)
<1>1. p \in Seq(T) /\ k \in T
  BY SeqMonotonic DEF Paths
<1> HIDE DEF T
<1>2. a \in Seq(T) /\ a # <<>> /\ Len(a) = Len(p) + 1 /\ (\A i \in 1..Len(p) : a[i] = p[i]) /\ a[Len(p) + 1] = k
  BY <1>1, AppendProperties
<1>3. Len(p) \in Nat
  BY PathIs
<1>4. Last(a) = k
  BY <1>2 DEF Last
<1> HIDE DEF a
<1>5. Front(a) = SubSeq(a, 1, Len(p))
  BY <1>2, <1>3 DEF Front
<1>6. SubSeq(a, 1, Len(p)) \in Seq(T) /\ Len(SubSeq(a, 1, Len(p))) = Len(p)
      /\ \A i \in 1..Len(p) : SubSeq(a, 1, Len(p))[i] = a[i]
  <2>1. Len(p) \in 0..Len(a) /\ Len(a) \in Nat
    BY <1>2, <1>3
  <2>2. \A i \in 1..Len(p) : a[i] \in T
    BY <1>1, <1>2, <1>3, ElementOfSeq
  <2> QED BY <1>2, <1>3, <2>1, <2>2, SubSeqProperties
<1>7. SubSeq(a, 1, Len(p)) = p
  <2> DEFINE s == SubSeq(a, 1, Len(p))
  <2>1. s \in Seq(T) /\ Len(s) = Len(p) /\ \A i \in 1..Len(s) : s[i] = p[i]
    BY <1>2, <1>6
  <2> HIDE DEF s
  <2>2. s = p
    BY <1>1, <2>1, SeqEqual
  <2> QED BY <2>2 DEF s
<1> QED BY <1>2, <1>4, <1>5, <1>7 DEF a

LEMMA AppendAbove ==
  ASSUME NEW p \in Paths, NEW k, Append(p, k) \in Paths
  PROVE  /\ p \in Above(Append(p, k)) /\ k \in Keys
         /\ Above(Append(p, k)) = Above(p) \union {p}
<1>1. Front(Append(p, k)) = p /\ Last(Append(p, k)) = k /\ Append(p, k) # <<>>
  BY AppendFront
<1> QED BY <1>1, FrontPath

(* Some paths none above another, each for one as long.                      *)
Targets(said) ==
  /\ \A t \in DOMAIN said : t \in Paths /\ said[t] \in Paths /\ Len(said[t]) = Len(t)
  /\ \A t, u \in DOMAIN said : u \notin Above(t)

LEMMA TargetsApart ==
  ASSUME NEW said, Targets(said), NEW t \in DOMAIN said, NEW u \in DOMAIN said, NEW p \in Paths,
         Within(p, t), Within(p, u)
  PROVE  t = u
BY AboveLine DEF Within, Targets

LEMMA SetAllIs ==
  ASSUME NEW v, NEW said, NEW w, Targets(said), DOMAIN w \subseteq Paths, DOMAIN v \subseteq Paths
  PROVE  LET s == SetAll(v, said, w) IN
         /\ DOMAIN s \subseteq Paths
         /\ \A p \in Paths : \A t \in DOMAIN said : Within(p, t) =>
              /\ p \in DOMAIN s <=> Moved(p, t, said[t]) \in DOMAIN w
              /\ p \in DOMAIN s => s[p] = w[Moved(p, t, said[t])]
         /\ \A p \in Paths : (\A t \in DOMAIN said : ~Within(p, t)) =>
              /\ (\A t \in DOMAIN said : p \notin Above(t)) =>
                   /\ p \in DOMAIN s <=> p \in DOMAIN v
                   /\ p \in DOMAIN s => s[p] = v[p]
              /\ (\E t \in DOMAIN said : p \in Above(t)) =>
                   /\ p \in DOMAIN s
                   /\ s[p] = IF p \in DOMAIN v /\ v[p] \in Containers THEN v[p] ELSE ObjectNode
<1> DEFINE set(t) == {Moved(p, said[t], t) : p \in DOMAIN At(w, said[t])}
           On(p) == CHOOSE t \in DOMAIN said : Within(p, t)
           W == UNION {set(t) : t \in DOMAIN said}
           written == [p \in W |-> w[Moved(p, On(p), said[On(p)])]]
           L == {p \in DOMAIN v : \A t \in DOMAIN said :
                    ~Within(p, t) /\ (p \in Above(t) => v[p] \in Containers)}
           left == Restrict(v, L)
           A == UNION {Above(t) : t \in DOMAIN said}
           way == [p \in A |-> ObjectNode]
           s == SetAll(v, said, w)
<1>1. s = Over(written, Over(left, way))
  BY DEF SetAll
<1>2. \A p : p \in W <=> p \in Paths /\ \E t \in DOMAIN said :
                           Within(p, t) /\ Moved(p, t, said[t]) \in DOMAIN w
  <2>1. ASSUME NEW p \in W
        PROVE  p \in Paths /\ \E t \in DOMAIN said : Within(p, t) /\ Moved(p, t, said[t]) \in DOMAIN w
    <3>1. PICK t \in DOMAIN said : p \in set(t)
      OBVIOUS
    <3>2. PICK q \in DOMAIN At(w, said[t]) : p = Moved(q, said[t], t)
      BY <3>1
    <3>3. q \in DOMAIN w /\ Within(q, said[t]) /\ q \in Paths
      <4>1. q \in {r \in DOMAIN w : Within(r, said[t])}
        BY <3>2, AtIs
      <4> QED BY <4>1
    <3>4. t \in Paths /\ said[t] \in Paths /\ Len(said[t]) = Len(t)
      BY DEF Targets
    <3>5. p \in Paths /\ Within(p, t) /\ Moved(p, t, said[t]) = q
      BY <3>2, <3>3, <3>4, MovedIs, MovedBack
    <3> QED BY <3>3, <3>5
  <2>2. ASSUME NEW p \in Paths, NEW t \in DOMAIN said, Within(p, t), Moved(p, t, said[t]) \in DOMAIN w
        PROVE  p \in W
    <3>1. t \in Paths /\ said[t] \in Paths /\ Len(said[t]) = Len(t)
      BY DEF Targets
    <3> DEFINE q == Moved(p, t, said[t])
    <3>2. q \in Paths /\ Within(q, said[t]) /\ Moved(q, said[t], t) = p
      BY <2>2, <3>1, MovedIs, MovedBack
    <3>3. q \in DOMAIN At(w, said[t])
      <4>1. q \in {r \in DOMAIN w : Within(r, said[t])}
        BY <2>2, <3>2
      <4> QED BY <4>1, AtIs
    <3>4. p \in set(t)
      BY <3>2, <3>3
    <3> QED BY <3>4
  <2> QED BY <2>1, <2>2
<1>3. \A p : p \in L <=> p \in DOMAIN v /\ \A t \in DOMAIN said :
                    ~Within(p, t) /\ (p \in Above(t) => v[p] \in Containers)
  OBVIOUS
<1>4. \A p : p \in A <=> \E t \in DOMAIN said : p \in Above(t)
  OBVIOUS
<1>5. \A p \in Paths, t \in DOMAIN said : Within(p, t) => On(p) = t
  <2> SUFFICES ASSUME NEW p \in Paths, NEW t \in DOMAIN said, Within(p, t) PROVE On(p) = t
    OBVIOUS
  <2>1. On(p) \in DOMAIN said /\ Within(p, On(p))
    OBVIOUS
  <2> HIDE DEF On
  <2> QED BY <2>1, TargetsApart
<1>6. DOMAIN left = L /\ \A p \in L : left[p] = v[p]
  BY RestrictIs
<1>7. /\ DOMAIN written = W /\ \A p \in W : written[p] = w[Moved(p, On(p), said[On(p)])]
      /\ DOMAIN way = A /\ \A p \in A : way[p] = ObjectNode
  OBVIOUS
<1>8. \A p : p \in DOMAIN s <=> p \in W \/ p \in L \/ p \in A
  BY <1>1, <1>6, <1>7 DEF Over
<1>9. \A p \in DOMAIN s : s[p] = IF p \in W THEN written[p] ELSE IF p \in L THEN v[p] ELSE ObjectNode
  <2> HIDE DEF written, left, way, s
  <2>1. \A p \in L \union A : Over(left, way)[p] = IF p \in L THEN v[p] ELSE ObjectNode
    BY <1>6, <1>7 DEF Over
  <2>2. DOMAIN Over(left, way) = L \union A
    BY <1>6, <1>7 DEF Over
  <2> QED BY <1>1, <1>7, <2>1, <2>2, <1>8 DEF Over
<1> HIDE DEF W, L, A, s, written, left, way, On
<1>10. DOMAIN s \subseteq Paths
  <2>1. \A p \in A : p \in Paths
    BY <1>4, AbovePath DEF Targets
  <2> QED BY <1>2, <1>3, <1>8, <2>1
<1>11. ASSUME NEW p \in Paths, NEW t \in DOMAIN said, Within(p, t)
       PROVE  /\ p \in DOMAIN s <=> Moved(p, t, said[t]) \in DOMAIN w
              /\ p \in DOMAIN s => s[p] = w[Moved(p, t, said[t])]
  <2>1. p \notin L
    BY <1>3, <1>11
  <2>2. p \notin A
    <3> SUFFICES ASSUME NEW u \in DOMAIN said, p \in Above(u) PROVE FALSE
      BY <1>4
    <3>1. t \in Above(u)
      BY <1>11, AbovePath DEF Within, Targets
    <3> QED BY <3>1 DEF Targets
  <2>3. p \in W <=> Moved(p, t, said[t]) \in DOMAIN w
    <3>1. \A u \in DOMAIN said : Within(p, u) => u = t
      BY <1>11, TargetsApart
    <3> QED BY <3>1, <1>2, <1>11
  <2>4. On(p) = t
    BY <1>5, <1>11
  <2> QED BY <2>1, <2>2, <2>3, <2>4, <1>7, <1>8, <1>9
<1>12. ASSUME NEW p \in Paths, \A t \in DOMAIN said : ~Within(p, t)
       PROVE  /\ (\A t \in DOMAIN said : p \notin Above(t)) =>
                   /\ p \in DOMAIN s <=> p \in DOMAIN v
                   /\ p \in DOMAIN s => s[p] = v[p]
              /\ (\E t \in DOMAIN said : p \in Above(t)) =>
                   /\ p \in DOMAIN s
                   /\ s[p] = IF p \in DOMAIN v /\ v[p] \in Containers THEN v[p] ELSE ObjectNode
  <2>1. p \notin W
    BY <1>2, <1>12
  <2> QED BY <2>1, <1>3, <1>4, <1>8, <1>9, <1>12
<1>13. /\ DOMAIN s \subseteq Paths
       /\ \A p \in Paths : \A t \in DOMAIN said : Within(p, t) =>
              /\ p \in DOMAIN s <=> Moved(p, t, said[t]) \in DOMAIN w
              /\ p \in DOMAIN s => s[p] = w[Moved(p, t, said[t])]
       /\ \A p \in Paths : (\A t \in DOMAIN said : ~Within(p, t)) =>
              /\ (\A t \in DOMAIN said : p \notin Above(t)) =>
                   /\ p \in DOMAIN s <=> p \in DOMAIN v
                   /\ p \in DOMAIN s => s[p] = v[p]
              /\ (\E t \in DOMAIN said : p \in Above(t)) =>
                   /\ p \in DOMAIN s
                   /\ s[p] = IF p \in DOMAIN v /\ v[p] \in Containers THEN v[p] ELSE ObjectNode
  BY <1>10, <1>11, <1>12
<1> QED BY <1>13 DEF s

(* What is set is a document when what is said is one as seen from there.    *)
LEMMA SetAllTree ==
  ASSUME NEW v, NEW said, NEW w, Targets(said), DOMAIN w \subseteq Paths, IsTree(v),
         \A t \in DOMAIN said : \A p \in DOMAIN w : \A q \in Above(p) :
            Within(q, said[t]) => q \in DOMAIN w /\ w[q] \in Containers
  PROVE  IsTree(SetAll(v, said, w))
<1> DEFINE s == SetAll(v, said, w)
<1>0. DOMAIN v \subseteq Paths
  BY DEF IsTree
<1>1. DOMAIN s \subseteq Paths
  BY <1>0, SetAllIs
<1>2. \A p \in Paths : \A t \in DOMAIN said : Within(p, t) =>
              /\ p \in DOMAIN s <=> Moved(p, t, said[t]) \in DOMAIN w
              /\ p \in DOMAIN s => s[p] = w[Moved(p, t, said[t])]
  BY <1>0, SetAllIs
<1>3. \A p \in Paths : (\A t \in DOMAIN said : ~Within(p, t)) =>
              /\ (\A t \in DOMAIN said : p \notin Above(t)) =>
                   /\ p \in DOMAIN s <=> p \in DOMAIN v
                   /\ p \in DOMAIN s => s[p] = v[p]
              /\ (\E t \in DOMAIN said : p \in Above(t)) =>
                   /\ p \in DOMAIN s
                   /\ s[p] = IF p \in DOMAIN v /\ v[p] \in Containers THEN v[p] ELSE ObjectNode
  BY <1>0, SetAllIs
<1> HIDE DEF s
<1>4. ASSUME NEW q \in Paths, NEW t \in DOMAIN said, q \in Above(t)
      PROVE  q \in DOMAIN s /\ s[q] \in Containers
  <2>1. \A u \in DOMAIN said : ~Within(q, u)
    <3> SUFFICES ASSUME NEW u \in DOMAIN said, Within(q, u) PROVE FALSE
      OBVIOUS
    <3>1. u \in Above(t)
      BY <1>4, AbovePath DEF Within, Targets
    <3> QED BY <3>1 DEF Targets
  <2> QED BY <2>1, <1>3, <1>4, NodesDiffer
<1>5. ASSUME NEW p \in DOMAIN s, NEW q \in Above(p) PROVE q \in DOMAIN s /\ s[q] \in Containers
  <2>0. p \in Paths /\ q \in Paths
    BY <1>1, AbovePath
  <2>1. ASSUME NEW t \in DOMAIN said, Within(p, t) PROVE q \in DOMAIN s /\ s[q] \in Containers
    <3>0. t \in Paths /\ said[t] \in Paths /\ Len(said[t]) = Len(t)
      BY DEF Targets
    <3>1. CASE q \in Above(t)
      BY <2>0, <3>1, <1>4
    <3>2. CASE Within(q, t)
      <4>1. Moved(p, t, said[t]) \in DOMAIN w
        BY <1>2, <2>0, <2>1
      <4>2. Moved(q, t, said[t]) \in Above(Moved(p, t, said[t]))
        BY <2>0, <2>1, <3>0, <3>2, MovedAbove
      <4>3. Within(Moved(q, t, said[t]), said[t])
        BY <2>0, <3>0, <3>2, MovedBack
      <4>4. Moved(q, t, said[t]) \in DOMAIN w /\ w[Moved(q, t, said[t])] \in Containers
        BY <4>1, <4>2, <4>3
      <4> QED BY <4>4, <1>2, <2>0, <3>2
    <3> QED BY <2>0, <2>1, <3>1, <3>2, WithinPath
  <2>2. CASE \A t \in DOMAIN said : ~Within(p, t)
    <3>1. ASSUME NEW t \in DOMAIN said, p \in Above(t) PROVE q \in DOMAIN s /\ s[q] \in Containers
      <4>1. q \in Above(t)
        BY <3>1, AbovePath DEF Targets
      <4> QED BY <4>1, <2>0, <1>4
    <3>2. CASE \A t \in DOMAIN said : p \notin Above(t)
      <4>1. p \in DOMAIN v
        BY <2>0, <2>2, <3>2, <1>3
      <4>2. q \in DOMAIN v /\ v[q] \in Containers
        BY <4>1, TreeAbove
      <4>3. \A t \in DOMAIN said : ~Within(q, t)
        BY <2>0, <2>2, AbovePath DEF Within
      <4>4. CASE \E t \in DOMAIN said : q \in Above(t)
        BY <2>0, <4>4, <1>4
      <4>5. CASE \A t \in DOMAIN said : q \notin Above(t)
        BY <2>0, <4>2, <4>3, <4>5, <1>3
      <4> QED BY <4>4, <4>5
    <3> QED BY <3>1, <3>2
  <2> QED BY <2>1, <2>2
<1>6. IsTree(s)
  BY <1>1, <1>5 DEF IsTree
<1> QED BY <1>6 DEF s

-----------------------------------------------------------------------------
(* The schemas along a path: each is what its step takes of the one above.   *)
SameTo(p, q, k) ==
  \A n \in 1..k : p[n] = q[n] /\ SubSeq(p, 1, n - 1) = SubSeq(q, 1, n - 1)

(* What of a path a document is validated by.                                 *)
Validated(g, schema, v, p, m) ==
  g = [n \in 0..m |-> IF n = 0 THEN Underlying(schema)
                      ELSE ValidatedBy(g[n - 1], v, SubSeq(p, 1, n - 1), p[n])]

LEMMA ValidatedAt ==
  ASSUME NEW schema, NEW v, NEW p, NEW m \in Nat, NEW g, Validated(g, schema, v, p, m)
  PROVE  /\ g[0] = Underlying(schema)
         /\ \A n \in 1..m : g[n] = ValidatedBy(g[n - 1], v, SubSeq(p, 1, n - 1), p[n])
<1> DEFINE G(n) == IF n = 0 THEN Underlying(schema)
                   ELSE ValidatedBy(g[n - 1], v, SubSeq(p, 1, n - 1), p[n])
<1>1. g = [n \in 0..m |-> G(n)]
  BY DEF Validated
<1>2. \A n \in 0..m : g[n] = G(n)
  <2> HIDE DEF G
  <2> QED BY <1>1
<1>3. 0 \in 0..m /\ \A n \in 1..m : n \in 0..m /\ n # 0
  OBVIOUS
<1> QED BY <1>2, <1>3

LEMMA ValidatedExists ==
  ASSUME NEW schema, NEW v, NEW p, NEW N \in Nat
  PROVE  \E g : Validated(g, schema, v, p, N)
<1> DEFINE T == {m \in Nat : ~ \E g : Validated(g, schema, v, p, m)}
<1>1. SUFFICES T = {}
  OBVIOUS
<1>2. SUFFICES ASSUME T # {} PROVE FALSE
  OBVIOUS
<1>3. PICK m \in T : \A k \in T : m <= k
  <2>1. T \in SUBSET Nat
    OBVIOUS
  <2> HIDE DEF T
  <2> QED BY <1>2, <2>1, Least
<1>4. m # 0
  <2> DEFINE g == [n \in 0..0 |-> Underlying(schema)]
             h == [n \in 0..0 |-> IF n = 0 THEN Underlying(schema)
                      ELSE ValidatedBy(g[n - 1], v, SubSeq(p, 1, n - 1), p[n])]
  <2>1. \A n \in 0..0 : n = 0
    OBVIOUS
  <2>2. g = h
    BY <2>1
  <2>3. Validated(g, schema, v, p, 0)
    BY <2>2 DEF Validated
  <2> HIDE DEF g
  <2> QED BY <2>3
<1>5. m - 1 \in Nat /\ ~ m <= m - 1
  BY <1>4
<1>6. PICK g : Validated(g, schema, v, p, m - 1)
  BY <1>3, <1>5
<1> DEFINE e == [n \in 0..m |-> IF n = 0 THEN Underlying(schema)
                      ELSE ValidatedBy(g[n - 1], v, SubSeq(p, 1, n - 1), p[n])]
           h == [n \in 0..m |-> IF n = 0 THEN Underlying(schema)
                      ELSE ValidatedBy(e[n - 1], v, SubSeq(p, 1, n - 1), p[n])]
<1>7. \A n \in 1..m : e[n - 1] = g[n - 1]
  <2> TAKE n \in 1..m
  <2>1. n - 1 \in 0..(m - 1) /\ n - 1 \in 0..m
    BY <1>5
  <2>2. g[0] = Underlying(schema)
        /\ \A k \in 1..(m - 1) : g[k] = ValidatedBy(g[k - 1], v, SubSeq(p, 1, k - 1), p[k])
    BY <1>5, <1>6, ValidatedAt
  <2>3. CASE n - 1 = 0
    BY <2>1, <2>2, <2>3
  <2>4. CASE n - 1 # 0
    <3> DEFINE k == n - 1
    <3>1. k \in 1..(m - 1) /\ k \in 0..m /\ k # 0
      BY <2>1, <2>4
    <3>2. e[k] = ValidatedBy(g[k - 1], v, SubSeq(p, 1, k - 1), p[k])
      <4> HIDE DEF k
      <4> QED BY <3>1
    <3> HIDE DEF e
    <3>3. e[k] = g[k]
      BY <2>2, <3>1, <3>2
    <3> QED BY <3>3
  <2> QED BY <2>3, <2>4
<1>8. e = h
  <2> DEFINE E(n) == IF n = 0 THEN Underlying(schema)
                      ELSE ValidatedBy(g[n - 1], v, SubSeq(p, 1, n - 1), p[n])
             H(n) == IF n = 0 THEN Underlying(schema)
                      ELSE ValidatedBy(e[n - 1], v, SubSeq(p, 1, n - 1), p[n])
  <2>1. \A n \in 0..m : E(n) = H(n)
    <3> TAKE n \in 0..m
    <3>1. n = 0 \/ n \in 1..m
      BY <1>3
    <3>2. n \in 1..m => e[n - 1] = g[n - 1]
      BY <1>7
    <3> HIDE DEF e
    <3> QED BY <3>1, <3>2
  <2>2. [n \in 0..m |-> E(n)] = [n \in 0..m |-> H(n)]
    <3> HIDE DEF E, H
    <3> QED BY <2>1
  <2> QED BY <2>2
<1>9. Validated(e, schema, v, p, m)
  <2>1. e = h
    BY <1>8
  <2> HIDE DEF e
  <2> QED BY <2>1 DEF Validated
<1> HIDE DEF e, h
<1> QED BY <1>3, <1>9

LEMMA ValidatedAgree ==
  ASSUME NEW schema, NEW v, NEW p, NEW q, NEW k \in Nat, NEW m \in Nat, k <= m,
         SameTo(p, q, k), NEW g, Validated(g, schema, v, p, m), NEW h, Validated(h, schema, v, q, k)
  PROVE  g[k] = h[k]
<1>1. g[0] = Underlying(schema)
      /\ \A n \in 1..m : g[n] = ValidatedBy(g[n - 1], v, SubSeq(p, 1, n - 1), p[n])
  BY ValidatedAt
<1>2. h[0] = Underlying(schema)
      /\ \A n \in 1..k : h[n] = ValidatedBy(h[n - 1], v, SubSeq(q, 1, n - 1), q[n])
  BY ValidatedAt
<1> DEFINE T == {n \in 0..k : g[n] # h[n]}
<1>3. SUFFICES ASSUME T # {} PROVE FALSE
  <2>1. k \in 0..k
    OBVIOUS
  <2> QED BY <2>1
<1>4. PICK n \in T : \A l \in T : n <= l
  <2>1. T \in SUBSET Nat
    OBVIOUS
  <2> HIDE DEF T
  <2> QED BY <1>3, <2>1, Least
<1>5. n # 0
  BY <1>1, <1>2, <1>4
<1>6. n \in 1..k /\ n \in 1..m /\ n - 1 \in 0..k /\ ~ n <= n - 1
  BY <1>4, <1>5
<1>7. g[n - 1] = h[n - 1]
  BY <1>4, <1>6
<1>8. p[n] = q[n] /\ SubSeq(p, 1, n - 1) = SubSeq(q, 1, n - 1)
  BY <1>6 DEF SameTo
<1>9. g[n] = h[n]
  BY <1>1, <1>2, <1>6, <1>7, <1>8
<1> QED BY <1>4, <1>9

LEMMA ValidatedIs ==
  ASSUME NEW schema, NEW v, NEW p \in Paths
  PROVE  \E g : /\ Validated(g, schema, v, p, Len(p)) /\ Along(ValidatedBy, schema, v, p) = g[Len(p)]
                /\ g[0] = Underlying(schema)
<1>1. Len(p) \in Nat
  BY PathIs
<1> DEFINE A == CHOOSE g : g = [n \in 0..Len(p) |-> IF n = 0 THEN Underlying(schema)
                      ELSE ValidatedBy(g[n - 1], v, SubSeq(p, 1, n - 1), p[n])]
<1>2. Along(ValidatedBy, schema, v, p) = A[Len(p)]
  BY DEF Along
<1>3. A = CHOOSE g : Validated(g, schema, v, p, Len(p))
  BY DEF Validated
<1> HIDE DEF A
<1>4. Validated(A, schema, v, p, Len(p))
  BY <1>1, <1>3, ValidatedExists
<1>5. A[0] = Underlying(schema)
  BY <1>1, <1>4, ValidatedAt
<1> QED BY <1>2, <1>4, <1>5

LEMMA ValidatedStep ==
  ASSUME NEW schema, NEW v
  PROVE  /\ Along(ValidatedBy, schema, v, <<>>) = Underlying(schema)
         /\ \A p \in Paths : p # <<>> =>
              Along(ValidatedBy, schema, v, p)
                = ValidatedBy(Along(ValidatedBy, schema, v, Front(p)), v, Front(p), Last(p))
<1>1. Along(ValidatedBy, schema, v, <<>>) = Underlying(schema)
  <2>1. \A e \in Paths : Len(e) = 0 => Along(ValidatedBy, schema, v, e) = Underlying(schema)
    <3> SUFFICES ASSUME NEW e \in Paths, Len(e) = 0
                 PROVE  Along(ValidatedBy, schema, v, e) = Underlying(schema)
      OBVIOUS
    <3>1. PICK g : Along(ValidatedBy, schema, v, e) = g[Len(e)] /\ g[0] = Underlying(schema)
      BY ValidatedIs
    <3> QED BY <3>1
  <2> QED BY <2>1, EmptyPath, EmptySeq
<1>2. ASSUME NEW p \in Paths, p # <<>>
      PROVE  Along(ValidatedBy, schema, v, p)
                = ValidatedBy(Along(ValidatedBy, schema, v, Front(p)), v, Front(p), Last(p))
  <2>1. Front(p) \in Paths /\ Len(p) \in Nat /\ Len(Front(p)) = Len(p) - 1 /\ Len(p) > 0
        /\ Front(p) \in Above(p)
    BY <1>2, FrontPath
  <2> DEFINE k == Len(p) - 1
  <2>2. k \in Nat /\ k <= Len(p) /\ k + 1 = Len(p) /\ Len(p) \in 1..Len(p) /\ Len(Front(p)) = k
    BY <2>1
  <2>3. PICK g : Validated(g, schema, v, p, Len(p)) /\ Along(ValidatedBy, schema, v, p) = g[Len(p)]
    BY <1>2, ValidatedIs
  <2>4. PICK h : Validated(h, schema, v, Front(p), Len(Front(p)))
                 /\ Along(ValidatedBy, schema, v, Front(p)) = h[Len(Front(p))]
    BY <2>1, ValidatedIs
  <2>5. SubSeq(p, 1, k) = Front(p)
    BY DEF Front
  <2>6. SameTo(p, Front(p), k)
    <3> SUFFICES ASSUME NEW n \in 1..k
                 PROVE  p[n] = Front(p)[n] /\ SubSeq(p, 1, n - 1) = SubSeq(Front(p), 1, n - 1)
      BY DEF SameTo
    <3>1. k \in 0..Len(p) /\ n - 1 \in 0..k
      BY <2>2
    <3> HIDE DEF k
    <3>2. SubSeq(SubSeq(p, 1, k), 1, n - 1) = SubSeq(p, 1, n - 1)
      BY <3>1, <1>2, SubSub
    <3>3. SubSeq(p, 1, k)[n] = p[n]
      BY <3>1, <1>2, SubSeqPath
    <3> QED BY <2>5, <3>2, <3>3
  <2> HIDE DEF k
  <2>7. Validated(h, schema, v, Front(p), k)
    BY <2>2, <2>4
  <2>8. g[k] = h[k]
    BY <2>1, <2>2, <2>3, <2>6, <2>7, ValidatedAgree
  <2>9. g[Len(p)] = ValidatedBy(g[Len(p) - 1], v, SubSeq(p, 1, Len(p) - 1), p[Len(p)])
    BY <2>1, <2>2, <2>3, ValidatedAt
  <2>10. g[Len(p)] = ValidatedBy(h[k], v, Front(p), Last(p))
    BY <2>5, <2>8, <2>9 DEF k, Last
  <2> QED BY <2>2, <2>3, <2>4, <2>10
<1> QED BY <1>1, <1>2

(* What the editor finds at a path.                                           *)
Resolved(g, schema, v, p, m) ==
  g = [n \in 0..m |-> IF n = 0 THEN Underlying(schema)
                      ELSE PropAt(g[n - 1], v, SubSeq(p, 1, n - 1), p[n])]

LEMMA ResolvedAt ==
  ASSUME NEW schema, NEW v, NEW p, NEW m \in Nat, NEW g, Resolved(g, schema, v, p, m)
  PROVE  /\ g[0] = Underlying(schema)
         /\ \A n \in 1..m : g[n] = PropAt(g[n - 1], v, SubSeq(p, 1, n - 1), p[n])
<1> DEFINE G(n) == IF n = 0 THEN Underlying(schema)
                   ELSE PropAt(g[n - 1], v, SubSeq(p, 1, n - 1), p[n])
<1>1. g = [n \in 0..m |-> G(n)]
  BY DEF Resolved
<1>2. \A n \in 0..m : g[n] = G(n)
  <2> HIDE DEF G
  <2> QED BY <1>1
<1>3. 0 \in 0..m /\ \A n \in 1..m : n \in 0..m /\ n # 0
  OBVIOUS
<1> QED BY <1>2, <1>3

LEMMA ResolvedExists ==
  ASSUME NEW schema, NEW v, NEW p, NEW N \in Nat
  PROVE  \E g : Resolved(g, schema, v, p, N)
<1> DEFINE T == {m \in Nat : ~ \E g : Resolved(g, schema, v, p, m)}
<1>1. SUFFICES T = {}
  OBVIOUS
<1>2. SUFFICES ASSUME T # {} PROVE FALSE
  OBVIOUS
<1>3. PICK m \in T : \A k \in T : m <= k
  <2>1. T \in SUBSET Nat
    OBVIOUS
  <2> HIDE DEF T
  <2> QED BY <1>2, <2>1, Least
<1>4. m # 0
  <2> DEFINE g == [n \in 0..0 |-> Underlying(schema)]
             h == [n \in 0..0 |-> IF n = 0 THEN Underlying(schema)
                      ELSE PropAt(g[n - 1], v, SubSeq(p, 1, n - 1), p[n])]
  <2>1. \A n \in 0..0 : n = 0
    OBVIOUS
  <2>2. g = h
    BY <2>1
  <2>3. Resolved(g, schema, v, p, 0)
    BY <2>2 DEF Resolved
  <2> HIDE DEF g
  <2> QED BY <2>3
<1>5. m - 1 \in Nat /\ ~ m <= m - 1
  BY <1>4
<1>6. PICK g : Resolved(g, schema, v, p, m - 1)
  BY <1>3, <1>5
<1> DEFINE e == [n \in 0..m |-> IF n = 0 THEN Underlying(schema)
                      ELSE PropAt(g[n - 1], v, SubSeq(p, 1, n - 1), p[n])]
           h == [n \in 0..m |-> IF n = 0 THEN Underlying(schema)
                      ELSE PropAt(e[n - 1], v, SubSeq(p, 1, n - 1), p[n])]
<1>7. \A n \in 1..m : e[n - 1] = g[n - 1]
  <2> TAKE n \in 1..m
  <2>1. n - 1 \in 0..(m - 1) /\ n - 1 \in 0..m
    BY <1>5
  <2>2. g[0] = Underlying(schema)
        /\ \A k \in 1..(m - 1) : g[k] = PropAt(g[k - 1], v, SubSeq(p, 1, k - 1), p[k])
    BY <1>5, <1>6, ResolvedAt
  <2>3. CASE n - 1 = 0
    BY <2>1, <2>2, <2>3
  <2>4. CASE n - 1 # 0
    <3> DEFINE k == n - 1
    <3>1. k \in 1..(m - 1) /\ k \in 0..m /\ k # 0
      BY <2>1, <2>4
    <3>2. e[k] = PropAt(g[k - 1], v, SubSeq(p, 1, k - 1), p[k])
      <4> HIDE DEF k
      <4> QED BY <3>1
    <3> HIDE DEF e
    <3>3. e[k] = g[k]
      BY <2>2, <3>1, <3>2
    <3> QED BY <3>3
  <2> QED BY <2>3, <2>4
<1>8. e = h
  <2> DEFINE E(n) == IF n = 0 THEN Underlying(schema)
                      ELSE PropAt(g[n - 1], v, SubSeq(p, 1, n - 1), p[n])
             H(n) == IF n = 0 THEN Underlying(schema)
                      ELSE PropAt(e[n - 1], v, SubSeq(p, 1, n - 1), p[n])
  <2>1. \A n \in 0..m : E(n) = H(n)
    <3> TAKE n \in 0..m
    <3>1. n = 0 \/ n \in 1..m
      BY <1>3
    <3>2. n \in 1..m => e[n - 1] = g[n - 1]
      BY <1>7
    <3> HIDE DEF e
    <3> QED BY <3>1, <3>2
  <2>2. [n \in 0..m |-> E(n)] = [n \in 0..m |-> H(n)]
    <3> HIDE DEF E, H
    <3> QED BY <2>1
  <2> QED BY <2>2
<1>9. Resolved(e, schema, v, p, m)
  <2>1. e = h
    BY <1>8
  <2> HIDE DEF e
  <2> QED BY <2>1 DEF Resolved
<1> HIDE DEF e, h
<1> QED BY <1>3, <1>9

LEMMA ResolvedAgree ==
  ASSUME NEW schema, NEW v, NEW p, NEW q, NEW k \in Nat, NEW m \in Nat, k <= m,
         SameTo(p, q, k), NEW g, Resolved(g, schema, v, p, m), NEW h, Resolved(h, schema, v, q, k)
  PROVE  g[k] = h[k]
<1>1. g[0] = Underlying(schema)
      /\ \A n \in 1..m : g[n] = PropAt(g[n - 1], v, SubSeq(p, 1, n - 1), p[n])
  BY ResolvedAt
<1>2. h[0] = Underlying(schema)
      /\ \A n \in 1..k : h[n] = PropAt(h[n - 1], v, SubSeq(q, 1, n - 1), q[n])
  BY ResolvedAt
<1> DEFINE T == {n \in 0..k : g[n] # h[n]}
<1>3. SUFFICES ASSUME T # {} PROVE FALSE
  <2>1. k \in 0..k
    OBVIOUS
  <2> QED BY <2>1
<1>4. PICK n \in T : \A l \in T : n <= l
  <2>1. T \in SUBSET Nat
    OBVIOUS
  <2> HIDE DEF T
  <2> QED BY <1>3, <2>1, Least
<1>5. n # 0
  BY <1>1, <1>2, <1>4
<1>6. n \in 1..k /\ n \in 1..m /\ n - 1 \in 0..k /\ ~ n <= n - 1
  BY <1>4, <1>5
<1>7. g[n - 1] = h[n - 1]
  BY <1>4, <1>6
<1>8. p[n] = q[n] /\ SubSeq(p, 1, n - 1) = SubSeq(q, 1, n - 1)
  BY <1>6 DEF SameTo
<1>9. g[n] = h[n]
  BY <1>1, <1>2, <1>6, <1>7, <1>8
<1> QED BY <1>4, <1>9

LEMMA ResolvedIs ==
  ASSUME NEW schema, NEW v, NEW p \in Paths
  PROVE  \E g : /\ Resolved(g, schema, v, p, Len(p)) /\ Along(PropAt, schema, v, p) = g[Len(p)]
                /\ g[0] = Underlying(schema)
<1>1. Len(p) \in Nat
  BY PathIs
<1> DEFINE A == CHOOSE g : g = [n \in 0..Len(p) |-> IF n = 0 THEN Underlying(schema)
                      ELSE PropAt(g[n - 1], v, SubSeq(p, 1, n - 1), p[n])]
<1>2. Along(PropAt, schema, v, p) = A[Len(p)]
  BY DEF Along
<1>3. A = CHOOSE g : Resolved(g, schema, v, p, Len(p))
  BY DEF Resolved
<1> HIDE DEF A
<1>4. Resolved(A, schema, v, p, Len(p))
  BY <1>1, <1>3, ResolvedExists
<1>5. A[0] = Underlying(schema)
  BY <1>1, <1>4, ResolvedAt
<1> QED BY <1>2, <1>4, <1>5

LEMMA ResolvedStep ==
  ASSUME NEW schema, NEW v
  PROVE  /\ Along(PropAt, schema, v, <<>>) = Underlying(schema)
         /\ \A p \in Paths : p # <<>> =>
              Along(PropAt, schema, v, p)
                = PropAt(Along(PropAt, schema, v, Front(p)), v, Front(p), Last(p))
<1>1. Along(PropAt, schema, v, <<>>) = Underlying(schema)
  <2>1. \A e \in Paths : Len(e) = 0 => Along(PropAt, schema, v, e) = Underlying(schema)
    <3> SUFFICES ASSUME NEW e \in Paths, Len(e) = 0
                 PROVE  Along(PropAt, schema, v, e) = Underlying(schema)
      OBVIOUS
    <3>1. PICK g : Along(PropAt, schema, v, e) = g[Len(e)] /\ g[0] = Underlying(schema)
      BY ResolvedIs
    <3> QED BY <3>1
  <2> QED BY <2>1, EmptyPath, EmptySeq
<1>2. ASSUME NEW p \in Paths, p # <<>>
      PROVE  Along(PropAt, schema, v, p)
                = PropAt(Along(PropAt, schema, v, Front(p)), v, Front(p), Last(p))
  <2>1. Front(p) \in Paths /\ Len(p) \in Nat /\ Len(Front(p)) = Len(p) - 1 /\ Len(p) > 0
        /\ Front(p) \in Above(p)
    BY <1>2, FrontPath
  <2> DEFINE k == Len(p) - 1
  <2>2. k \in Nat /\ k <= Len(p) /\ k + 1 = Len(p) /\ Len(p) \in 1..Len(p) /\ Len(Front(p)) = k
    BY <2>1
  <2>3. PICK g : Resolved(g, schema, v, p, Len(p)) /\ Along(PropAt, schema, v, p) = g[Len(p)]
    BY <1>2, ResolvedIs
  <2>4. PICK h : Resolved(h, schema, v, Front(p), Len(Front(p)))
                 /\ Along(PropAt, schema, v, Front(p)) = h[Len(Front(p))]
    BY <2>1, ResolvedIs
  <2>5. SubSeq(p, 1, k) = Front(p)
    BY DEF Front
  <2>6. SameTo(p, Front(p), k)
    <3> SUFFICES ASSUME NEW n \in 1..k
                 PROVE  p[n] = Front(p)[n] /\ SubSeq(p, 1, n - 1) = SubSeq(Front(p), 1, n - 1)
      BY DEF SameTo
    <3>1. k \in 0..Len(p) /\ n - 1 \in 0..k
      BY <2>2
    <3> HIDE DEF k
    <3>2. SubSeq(SubSeq(p, 1, k), 1, n - 1) = SubSeq(p, 1, n - 1)
      BY <3>1, <1>2, SubSub
    <3>3. SubSeq(p, 1, k)[n] = p[n]
      BY <3>1, <1>2, SubSeqPath
    <3> QED BY <2>5, <3>2, <3>3
  <2> HIDE DEF k
  <2>7. Resolved(h, schema, v, Front(p), k)
    BY <2>2, <2>4
  <2>8. g[k] = h[k]
    BY <2>1, <2>2, <2>3, <2>6, <2>7, ResolvedAgree
  <2>9. g[Len(p)] = PropAt(g[Len(p) - 1], v, SubSeq(p, 1, Len(p) - 1), p[Len(p)])
    BY <2>1, <2>2, <2>3, ResolvedAt
  <2>10. g[Len(p)] = PropAt(h[k], v, Front(p), Last(p))
    BY <2>5, <2>8, <2>9 DEF k, Last
  <2> QED BY <2>2, <2>3, <2>4, <2>10
<1> QED BY <1>1, <1>2

-----------------------------------------------------------------------------
(* Keys with a slash.                                                        *)

LEMMA EscapesAre ==
  /\ Escapes[1] = "aliyun.com/gpu-mem" /\ Escapes[2] = "aliyun.com~1gpu-mem"
  /\ Escapes[3] = "aliyun.com~01gpu-mem"
BY DEF Escapes

LEMMA SlashedIs ==
  ASSUME NEW p
  PROVE  Slashed(p) <=> \E i \in DOMAIN p : p[i] = Escapes[1] \/ p[i] = Escapes[2] \/ p[i] = Escapes[3]
<1>1. \A x : (\E n \in 1..3 : x = Escapes[n]) <=> x = Escapes[1] \/ x = Escapes[2] \/ x = Escapes[3]
  <2>1. \A n \in 1..3 : n = 1 \/ n = 2 \/ n = 3
    OBVIOUS
  <2>2. 1 \in 1..3 /\ 2 \in 1..3 /\ 3 \in 1..3
    OBVIOUS
  <2> QED BY <2>1, <2>2
<1> QED BY <1>1 DEF Slashed

LEMMA EscapeKey ==
  \A key \in Keys : Escape(key) \in Keys
<1>1. Escapes[2] \in Keys /\ Escapes[3] \in Keys
  BY KeysAssumption
<1> QED BY <1>1 DEF Escape

LEMMA CompileIs ==
  ASSUME NEW p \in Paths
  PROVE  /\ Compile(p) \in Paths /\ Len(Compile(p)) = Len(p)
         /\ \A i \in 1..Len(p) : Compile(p)[i] = Escape(p[i])
<1>0. Len(p) \in Nat /\ DOMAIN p = 1..Len(p) /\ \A i \in 1..Len(p) : p[i] \in Keys
  BY PathIs
<1>1. Compile(p) = [i \in 1..Len(p) |-> Escape(p[i])]
  BY <1>0 DEF Compile
<1>2. Compile(p) \in [1..Len(p) -> Keys]
  BY <1>0, <1>1, EscapeKey
<1>3. Compile(p) \in Paths
  BY <1>0, <1>2, IsASeq DEF Paths
<1>4. Len(Compile(p)) = Len(p)
  <2> DEFINE m == Compile(p)
  <2>1. DOMAIN m = 1..Len(m) /\ Len(m) \in Nat
    BY <1>3, PathIs
  <2>2. 1..Len(m) = 1..Len(p)
    BY <2>1, <1>1
  <2> HIDE DEF m
  <2>3. \A j, k \in Nat : 1..j = 1..k => j = k
    <3> SUFFICES ASSUME NEW j \in Nat, NEW k \in Nat, 1..j = 1..k PROVE j = k
      OBVIOUS
    <3>1. j \in 1..j => j \in 1..k
      OBVIOUS
    <3>2. k \in 1..k => k \in 1..j
      OBVIOUS
    <3> QED BY <3>1, <3>2
  <2>4. Len(m) = Len(p)
    BY <2>1, <2>2, <2>3, <1>0
  <2> QED BY <2>4 DEF m
<1> QED BY <1>1, <1>3, <1>4

LEMMA Unslashed ==
  ASSUME NEW p \in Paths, ~Slashed(p)
  PROVE  /\ Joined(p) = p /\ Compile(p) = p
         /\ p # <<>> => Escape(Last(p)) = Last(p) /\ ~Slashed(Front(p))
<1>0. Len(p) \in Nat /\ DOMAIN p = 1..Len(p)
  BY PathIs
<1>1. \A i \in 1..Len(p) : p[i] # Escapes[1] /\ p[i] # Escapes[2] /\ p[i] # Escapes[3]
  BY <1>0, SlashedIs
<1>2. \A i \in 1..Len(p) : Escape(p[i]) = p[i]
  BY <1>1 DEF Escape, SlashKey
<1>3. Compile(p) = p
  <2>1. \A i \in 1..Len(p) : Compile(p)[i] = p[i]
    BY <1>2, CompileIs
  <2>2. Compile(p) \in Paths /\ Len(Compile(p)) = Len(p)
    BY CompileIs
  <2>3. \A i \in 1..Len(Compile(p)) : Compile(p)[i] = p[i]
    BY <2>1, <2>2
  <2> DEFINE c == Compile(p)
  <2> HIDE DEF c
  <2>4. c = p
    BY <2>2, <2>3, PathEqual DEF c
  <2> QED BY <2>4 DEF c
<1>4. ASSUME p # <<>> PROVE Escape(Last(p)) = Last(p) /\ ~Slashed(Front(p))
  <2>0. Len(p) > 0 /\ Front(p) \in Paths /\ Len(Front(p)) = Len(p) - 1
    BY <1>4, FrontPath
  <2>1. Len(p) \in 1..Len(p) /\ Front(p) \in Paths /\ Len(Front(p)) = Len(p) - 1
    <3>1. \A n \in Nat : n > 0 => n \in 1..n
      OBVIOUS
    <3> QED BY <2>0, <3>1, <1>0
  <2>2. Escape(Last(p)) = Last(p)
    BY <2>1, <1>2 DEF Last
  <2>3. \A i \in 1..Len(Front(p)) : Front(p)[i] = p[i] /\ i \in 1..Len(p)
    <3>1. Front(p) = SubSeq(p, 1, Len(p) - 1) /\ Len(p) - 1 \in 0..Len(p)
      BY <1>0, <2>1 DEF Front
    <3>2. \A i \in 1..(Len(p) - 1) : SubSeq(p, 1, Len(p) - 1)[i] = p[i]
      BY <3>1, SubSeqPath
    <3>3. \A i \in 1..(Len(p) - 1) : i \in 1..Len(p)
      BY <1>0
    <3> QED BY <2>1, <3>1, <3>2, <3>3
  <2>4. ~Slashed(Front(p))
    <3>1. DOMAIN Front(p) = 1..Len(Front(p))
      BY <2>1, PathIs
    <3>2. \A i \in DOMAIN Front(p) : Front(p)[i] # Escapes[1] /\ Front(p)[i] # Escapes[2] /\ Front(p)[i] # Escapes[3]
      BY <3>1, <2>3, <1>1
    <3> QED BY <3>2, SlashedIs
  <2> QED BY <2>2, <2>4
<1> QED BY <1>3, <1>4 DEF Joined

LEMMA AppendSlashed ==
  ASSUME NEW p \in Paths, NEW k, Slashed(p)
  PROVE  Slashed(Append(p, k))
<1> DEFINE a == Append(p, k)
<1>1. PICK i \in DOMAIN p : \E n \in 1..3 : p[i] = Escapes[n]
  BY DEF Slashed
<1>2. DOMAIN p = 1..Len(p) /\ Len(p) \in Nat
  BY PathIs
<1>3. Len(a) = Len(p) + 1 /\ a[i] = p[i]
  BY <1>1, <1>2, AppendFront
<1>4. DOMAIN a = 1..Len(a)
  <2> DEFINE T == Keys \union {k}
  <2>1. p \in Seq(T) /\ k \in T
    BY SeqMonotonic DEF Paths
  <2> HIDE DEF T
  <2>2. a \in Seq(T)
    BY <2>1, AppendProperties
  <2> QED BY <2>2, LenProperties
<1>5. i \in DOMAIN a
  BY <1>1, <1>2, <1>3, <1>4
<1> HIDE DEF a
<1>6. Slashed(a)
  BY <1>1, <1>3, <1>5 DEF Slashed
<1> QED BY <1>6 DEF a

-----------------------------------------------------------------------------
(* What is visited and reported.                                             *)

LEMMA EmptyJoined == Joined(<<>>) = <<>> /\ ~Slashed(<<>>)
<1>1. Len(<<>>) = 0 /\ <<>> \in Paths
  BY EmptyPath, EmptySeq
<1>2. DOMAIN <<>> = {}
  BY <1>1, PathIs
<1>3. ~Slashed(<<>>)
  BY <1>2 DEF Slashed
<1> QED BY <1>1, <1>3, Unslashed

LEMMA Visited ==
  ASSUME NEW v, DOMAIN v \subseteq Paths, NEW p \in DOMAIN v, ~Slashed(p)
  PROVE  /\ p # <<>> => p \in WalkNode(v)
         /\ v[p] \in Containers => Append(p, "") \in WalkNode(v)
<1>0. p \in Paths /\ Joined(p) = p
  BY Unslashed
<1>1. ASSUME p # <<>> PROVE p \in WalkNode(v)
  <2>1. p = Append(Front(p), Last(p)) /\ Front(p) \in Paths
    BY <1>0, <1>1, FrontPath
  <2>2. Escape(Last(p)) = Last(p) /\ ~Slashed(Front(p))
    BY <1>0, <1>1, Unslashed
  <2>3. Joined(Front(p)) = Front(p)
    BY <2>1, <2>2, Unslashed
  <2>4. Append(Joined(Front(p)), Escape(Last(p))) \in WalkNode(v)
    BY <1>1 DEF WalkNode
  <2> QED BY <2>1, <2>2, <2>3, <2>4
<1>2. ASSUME v[p] \in Containers PROVE Append(p, "") \in WalkNode(v)
  <2>1. Append(Joined(p), "") \in WalkNode(v)
    BY <1>2 DEF WalkNode
  <2> QED BY <1>0, <2>1
<1> QED BY <1>1, <1>2

(* Where a failure is reported.                                              *)
Loc(f) == IF f.kind = "missing" THEN Front(f.path) ELSE f.path

LEMMA FailureVisited ==
  ASSUME NEW schema, NEW v, DOMAIN v \subseteq Paths, IsObject(v, <<>>),
         Diagnostics(schema, v) = {},
         NEW f \in Failures(schema, v), f.kind # "never", Loc(f) \in DOMAIN v
  PROVE  Slashed(Loc(f))
<1> SUFFICES ASSUME ~Slashed(Loc(f)) PROVE FALSE
  OBVIOUS
<1> DEFINE at == IF Loc(f) = <<>> THEN <<"">> ELSE Joined(Loc(f))
<1>1. at \in Reported(Failures(schema, v))
  BY DEF Reported, Loc
<1>2. at \in WalkNode(v)
  <2>1. CASE Loc(f) = <<>>
    <3>1. v[<<>>] \in Containers /\ <<>> \in DOMAIN v
      BY NodesDiffer DEF IsObject
    <3>2. Append(<<>>, "") \in WalkNode(v)
      BY <3>1, EmptyJoined, Visited
    <3>3. Append(<<>>, "") = <<"">>
      BY AppendOne
    <3> QED BY <2>1, <3>2, <3>3
  <2>2. CASE Loc(f) # <<>>
    <3>1. Loc(f) \in WalkNode(v)
      BY <2>2, Visited
    <3>2. Joined(Loc(f)) = Loc(f)
      BY Unslashed
    <3> QED BY <2>2, <3>1, <3>2
  <2> QED BY <2>1, <2>2
<1> QED BY <1>1, <1>2 DEF Diagnostics

-----------------------------------------------------------------------------
(* What a document fails by.                                                 *)

ValidatedAs(schema, v, p) == Along(ValidatedBy, schema, v, p)
ObjectAt(schema, v, p) == ObjectOf(ValidatedAs(schema, v, p), v, p)
KindOf(schema, v, p) == Append(p, Discriminator(ValidatedAs(schema, v, p)))

TypeFailure(schema, v, f) ==
  \E p \in DOMAIN v : ~Fits(ValidatedAs(schema, v, p), v, p) /\ f = Failure(p, "type")
KindFailure(schema, v, f) ==
  \E p \in DOMAIN v :
    /\ ObjectAt(schema, v, p) = NoSchema
    /\ ValidatedAs(schema, v, p).is = "union" /\ IsObject(v, p)
    /\ f = Failure(KindOf(schema, v, p),
                   IF KindOf(schema, v, p) \in DOMAIN v THEN "type" ELSE "missing")
MissingFailure(schema, v, f) ==
  \E p \in DOMAIN v : ObjectAt(schema, v, p) # NoSchema /\
    \E k \in Required(ObjectAt(schema, v, p)) :
      Append(p, k) \notin DOMAIN v /\ f = Failure(Append(p, k), "missing")
NeverFailure(schema, v, f) ==
  \E p \in DOMAIN v \ {<<>>} : ~Declared(schema, v, p) /\ f = Failure(p, "never")

LEMMA FailureFields ==
  \A p, k : Failure(p, k).path = p /\ Failure(p, k).kind = k
BY DEF Failure

LEMMA FailuresAre ==
  ASSUME NEW schema, NEW v
  PROVE  \A f : f \in Failures(schema, v) <=>
           \/ TypeFailure(schema, v, f) \/ KindFailure(schema, v, f)
           \/ MissingFailure(schema, v, f) \/ NeverFailure(schema, v, f)
<1> DEFINE S == [p \in DOMAIN v |-> Along(ValidatedBy, schema, v, p)]
           O == [p \in DOMAIN v |-> ObjectOf(S[p], v, p)]
           objects == {p \in DOMAIN v : O[p] # NoSchema}
           unions == {p \in DOMAIN v \ objects : S[p].is = "union" /\ IsObject(v, p)}
           K(p) == Append(p, Discriminator(S[p]))
           F1 == {Failure(p, "type") : p \in {q \in DOMAIN v : ~Fits(S[q], v, q)}}
           F2 == {Failure(K(p), IF K(p) \in DOMAIN v THEN "type" ELSE "missing") : p \in unions}
           M(p) == {Failure(Append(p, k), "missing") :
                      k \in {r \in Required(O[p]) : Append(p, r) \notin DOMAIN v}}
           F3 == UNION {M(p) : p \in objects}
           F4 == {Failure(p, "never") : p \in {q \in DOMAIN v \ {<<>>} : ~Declared(schema, v, q)}}
<1>1. Failures(schema, v) = F1 \union F2 \union F3 \union F4
  BY DEF Failures
<1>2. \A p \in DOMAIN v : S[p] = ValidatedAs(schema, v, p)
  BY DEF ValidatedAs
<1> HIDE DEF S
<1>3. \A p \in DOMAIN v : O[p] = ObjectAt(schema, v, p)
  BY <1>2 DEF ObjectAt
<1> HIDE DEF O
<1>4. \A p : p \in objects <=> p \in DOMAIN v /\ ObjectAt(schema, v, p) # NoSchema
  BY <1>3
<1> HIDE DEF objects
<1>5. \A p : p \in unions <=> p \in DOMAIN v /\ ObjectAt(schema, v, p) = NoSchema
                              /\ ValidatedAs(schema, v, p).is = "union" /\ IsObject(v, p)
  BY <1>2, <1>4
<1>6. \A p \in DOMAIN v : K(p) = KindOf(schema, v, p)
  BY <1>2 DEF KindOf
<1> HIDE DEF unions, K
<1>7. \A f : f \in F1 <=> TypeFailure(schema, v, f)
  <2> TAKE f
  <2>1. f \in F1 <=> \E p \in {q \in DOMAIN v : ~Fits(S[q], v, q)} : f = Failure(p, "type")
    BY Zenon
  <2> HIDE DEF F1
  <2> QED BY <2>1, <1>2 DEF TypeFailure
<1>8. \A f : f \in F2 <=> KindFailure(schema, v, f)
  <2> TAKE f
  <2>1. f \in F2 <=> \E p \in unions : f = Failure(K(p), IF K(p) \in DOMAIN v THEN "type" ELSE "missing")
    BY Zenon
  <2> HIDE DEF F2
  <2> QED BY <2>1, <1>5, <1>6 DEF KindFailure
<1>9. \A f : f \in F3 <=> MissingFailure(schema, v, f)
  <2> TAKE f
  <2>1. f \in F3 <=> \E p \in objects : f \in M(p)
    BY Zenon
  <2>2. \A p : f \in M(p) <=> \E k \in Required(O[p]) :
                               Append(p, k) \notin DOMAIN v /\ f = Failure(Append(p, k), "missing")
    BY Zenon
  <2> HIDE DEF F3, M
  <2> QED BY <2>1, <2>2, <1>3, <1>4 DEF MissingFailure
<1>10. \A f : f \in F4 <=> NeverFailure(schema, v, f)
  <2> TAKE f
  <2>1. f \in F4 <=> \E p \in {q \in DOMAIN v \ {<<>>} : ~Declared(schema, v, q)} : f = Failure(p, "never")
    BY Zenon
  <2> HIDE DEF F4
  <2> QED BY <2>1 DEF NeverFailure
<1> HIDE DEF F1, F2, F3, F4
<1> QED BY <1>1, <1>7, <1>8, <1>9, <1>10

LEMMA ValidatedRoot ==
  ASSUME NEW schema, NEW v
  PROVE  /\ ValidatedAs(schema, v, <<>>) = Underlying(schema)
         /\ \A p \in Paths : p # <<>> =>
              ValidatedAs(schema, v, p)
                = ValidatedBy(ValidatedAs(schema, v, Front(p)), v, Front(p), Last(p))
BY ValidatedStep DEF ValidatedAs

(* The schema of the editor.                                                 *)
LEMMA EditorSchemaIs ==
  /\ EditorSchema.is = "object" /\ Underlying(EditorSchema) = EditorSchema
  /\ EditorSchema # NoSchema /\ EditorSchema.required = {"spec"}
  /\ DOMAIN EditorSchema.props = {"spec"} /\ Prop(EditorSchema, "spec") = Definitions["Spec"]
  /\ Definitions["Spec"] # NoSchema /\ Required(EditorSchema) = {"spec"}
<1>1. /\ EditorSchema.is = "object" /\ EditorSchema.required = {"spec"}
      /\ EditorSchema.props = [spec |-> RefType("Spec")]
  BY DEF EditorSchema, ObjectType, Schema
<1>2. DOMAIN EditorSchema.props = {"spec"} /\ EditorSchema.props["spec"] = RefType("Spec")
  BY <1>1
<1>3. RefType("Spec").is = "ref" /\ RefType("Spec").enum = {"Spec"}
  BY DEF RefType, Schema
<1>4. Underlying(RefType("Spec")) = Definitions["Spec"]
  <2>1. Underlying(RefType("Spec")) = Definitions[CHOOSE name \in {"Spec"} : TRUE]
    BY <1>3 DEF Underlying
  <2>2. (CHOOSE name \in {"Spec"} : TRUE) = "Spec"
    OBVIOUS
  <2> QED BY <2>1, <2>2
<1>5. Prop(EditorSchema, "spec") = Definitions["Spec"]
  BY <1>2, <1>4 DEF Prop
<1>6. NoSchema.is = "none"
  BY DEF NoSchema
<1>7. Definitions["Spec"] # NoSchema /\ EditorSchema # NoSchema
  BY <1>1, <1>6, DefinitionsAssumption
<1>8. Underlying(EditorSchema) = EditorSchema
  BY <1>1 DEF Underlying
<1>9. Required(EditorSchema) = {"spec"}
  BY <1>1, <1>2, <1>5, <1>7 DEF Required
<1> QED BY <1>1, <1>2, <1>5, <1>7, <1>8, <1>9

-----------------------------------------------------------------------------
(* What is submitted of a document.                                          *)

Meant(doc) == SpecOf(CloneWithoutNull(doc))

LEMMA MeantIs ==
  ASSUME NEW d, IsTree(d)
  PROVE  /\ \A p : p \in DOMAIN Meant(d) <=>
                     p \in DOMAIN d /\ ~Omitted(d, p) /\ (Within(p, <<"spec">>) \/ p = <<>>)
         /\ \A p \in DOMAIN Meant(d) : Meant(d)[p] = d[p]
         /\ IsTree(Meant(d)) /\ NullFree(Meant(d))
<1> DEFINE c == CloneWithoutNull(d)
<1>1. IsTree(c)
  BY CloneTree
<1>2. /\ \A p : p \in DOMAIN c <=> p \in DOMAIN d /\ ~Omitted(d, p)
      /\ \A p \in DOMAIN c : c[p] = d[p]
  BY CloneIs
<1>3. /\ \A p : p \in DOMAIN SpecOf(c) <=> p \in DOMAIN c /\ (Within(p, <<"spec">>) \/ p = <<>>)
      /\ \A p \in DOMAIN SpecOf(c) : SpecOf(c)[p] = c[p]
  BY SpecOfIs
<1>4. IsTree(SpecOf(c))
  BY <1>1, SpecOfTree
<1>5. \A p \in DOMAIN SpecOf(c) : ~Omitted(SpecOf(c), p)
  <2> TAKE p \in DOMAIN SpecOf(c)
  <2>1. SpecOf(c)[p] = d[p] /\ ~Omitted(d, p)
    BY <1>2, <1>3
  <2>2. p # <<>> => SpecOf(c)[Front(p)] = d[Front(p)]
    <3> SUFFICES ASSUME p # <<>> PROVE SpecOf(c)[Front(p)] = d[Front(p)]
      OBVIOUS
    <3>1. p \in Paths
      BY <1>4 DEF IsTree
    <3>2. Front(p) \in Above(p)
      BY <3>1, FrontPath
    <3>3. Front(p) \in DOMAIN SpecOf(c)
      BY <3>2, <1>4, TreeAbove
    <3> QED BY <3>3, <1>2, <1>3
  <2> QED BY <2>1, <2>2 DEF Omitted
<1>6. NullFree(SpecOf(c))
  <2>1. SpecOf(c) = [p \in DOMAIN SpecOf(c) |-> SpecOf(c)[p]]
    BY DEF SpecOf, Restrict
  <2>2. SpecOf(c) = Restrict(SpecOf(c), DOMAIN SpecOf(c))
    BY <2>1 DEF Restrict
  <2> QED BY <2>2, <1>5, NullFreeIf
<1> HIDE DEF c
<1> QED BY <1>2, <1>3, <1>4, <1>6 DEF c, Meant

(* What its structs keep of a document.                                      *)
LEMMA DecodedIs ==
  ASSUME NEW v, IsTree(v)
  PROVE  /\ \A p : p \in DOMAIN Decoded(v) <=>
                     p \in DOMAIN v /\ \A q \in Forgotten(v) : ~Within(p, q)
         /\ \A p \in DOMAIN Decoded(v) : Decoded(v)[p] = v[p]
         /\ IsTree(Decoded(v)) /\ (NullFree(v) => NullFree(Decoded(v)))
<1> DEFINE S == {p \in DOMAIN v : \A q \in Forgotten(v) : ~Within(p, q)}
           m == Decoded(v)
<1>1. m = Restrict(v, S)
  BY DEF Decoded
<1>2. \A p : p \in S <=> p \in DOMAIN v /\ \A q \in Forgotten(v) : ~Within(p, q)
  OBVIOUS
<1>3. ASSUME NEW p \in S, NEW q \in Above(p) PROVE q \in S
  <2>1. q \in DOMAIN v /\ p \in Paths
    BY <1>2, <1>3, TreeAbove
  <2>2. \A r : Within(q, r) => Within(p, r)
    BY <1>3, <2>1, WithinPath DEF Within
  <2> QED BY <1>2, <2>1, <2>2
<1> HIDE DEF S
<1>4. S \subseteq DOMAIN v /\ UpClosed(S)
  BY <1>2, <1>3 DEF UpClosed
<1>5. IsTree(m) /\ DOMAIN m = S /\ \A p \in S : m[p] = v[p]
  BY <1>1, <1>4, RestrictTree, RestrictIs
<1>6. ASSUME NullFree(v) PROVE NullFree(m)
  <2>1. ASSUME NEW p \in DOMAIN m, Omitted(m, p) PROVE FALSE
    <3>1. p \in DOMAIN v /\ m[p] = v[p] /\ p \in Paths /\ p # <<>>
      BY <1>2, <1>5, <2>1 DEF IsTree, Omitted
    <3>2. Front(p) \in DOMAIN m
      BY <3>1, <1>5, <2>1, FrontPath, TreeAbove
    <3>3. m[Front(p)] = v[Front(p)]
      BY <1>5, <3>2
    <3>4. Omitted(v, p)
      BY <2>1, <3>1, <3>3 DEF Omitted
    <3> QED BY <1>6, <3>1, <3>4, NullFreeIs
  <2>2. m = Restrict(m, S)
    <3>1. m = [p \in S |-> m[p]]
      BY <1>1 DEF Restrict
    <3> QED BY <3>1 DEF Restrict
  <2> HIDE DEF m
  <2> QED BY <2>1, <2>2, NullFreeIf
<1> HIDE DEF m
<1> QED BY <1>2, <1>5, <1>6 DEF m

(* A mapping sees no difference between what is null and what is not there.  *)
LEMMA MappingSame ==
  ASSUME NEW v, NEW w, NEW s, NEW p,
         LET k == Append(p, Discriminator(s)) IN
         \/ k \in DOMAIN v /\ k \in DOMAIN w /\ v[k] = w[k]
         \/ k \notin DOMAIN v /\ (k \in DOMAIN w => w[k] = Null)
  PROVE  Mapping(s, v, p) = Mapping(s, w, p)
<1> DEFINE k == Append(p, Discriminator(s))
<1>1. Null \in Falsy
  BY DEF Falsy
<1>2. \/ k \in DOMAIN v /\ k \in DOMAIN w /\ v[k] = w[k]
      \/ k \notin DOMAIN v /\ (k \in DOMAIN w => w[k] = Null)
  OBVIOUS
<1>3. /\ Mapping(s, v, p) = IF k \in DOMAIN v /\ v[k] \notin Falsy /\ v[k].is = "text" /\ v[k].leaf \in s.enum
                              THEN s.props[v[k].leaf] ELSE NoSchema
      /\ Mapping(s, w, p) = IF k \in DOMAIN w /\ w[k] \notin Falsy /\ w[k].is = "text" /\ w[k].leaf \in s.enum
                              THEN s.props[w[k].leaf] ELSE NoSchema
  BY DEF Mapping
<1> HIDE DEF k
<1> QED BY <1>1, <1>2, <1>3

LEMMA MeantSpec ==
  ASSUME NEW d, IsTree(d), NEW p \in DOMAIN Meant(d), p # <<>>, NEW k
  PROVE  LET q == Append(p, k) IN
         \/ q \in DOMAIN Meant(d) /\ q \in DOMAIN d /\ Meant(d)[q] = d[q]
         \/ q \notin DOMAIN Meant(d) /\ (q \in DOMAIN d => d[q] = Null)
<1> DEFINE q == Append(p, k)
<1>1. p \in Paths /\ Within(p, <<"spec">>)
  BY MeantIs DEF IsTree
<1>2. ASSUME q \in DOMAIN d, q \notin DOMAIN Meant(d) PROVE d[q] = Null
  <2>1. q \in Paths
    BY <1>2 DEF IsTree
  <2>2. p \in Above(q)
    BY <1>1, <2>1, AppendAbove
  <2>3. Within(q, <<"spec">>)
    BY <1>1, <2>1, <2>2, AbovePath DEF Within
  <2>4. Omitted(d, q)
    BY <1>2, <2>3, MeantIs
  <2> QED BY <2>4 DEF Omitted
<1>3. q \in DOMAIN Meant(d) => q \in DOMAIN d /\ Meant(d)[q] = d[q]
  BY MeantIs
<1> QED BY <1>2, <1>3

(* What it is validated by does not change when it is submitted.             *)
LEMMA MeantObject ==
  ASSUME NEW d, IsTree(d), IsObject(d, <<>>), NEW p \in DOMAIN Meant(d), NEW s,
         p = <<>> => s = EditorSchema
  PROVE  /\ ObjectOf(s, Meant(d), p) = ObjectOf(s, d, p)
         /\ IsObject(Meant(d), p) <=> IsObject(d, p)
         /\ IsArray(Meant(d), p) <=> IsArray(d, p)
<1>1. (IsObject(Meant(d), p) <=> IsObject(d, p)) /\ (IsArray(Meant(d), p) <=> IsArray(d, p))
  BY MeantIs DEF IsObject, IsArray
<1>2. CASE p = <<>>
  <2>1. s.is = "object"
    BY <1>2, EditorSchemaIs
  <2> QED BY <1>1, <2>1 DEF ObjectOf
<1>3. CASE p # <<>>
  <2>1. Mapping(s, Meant(d), p) = Mapping(s, d, p)
    BY <1>3, MeantSpec, MappingSame
  <2> QED BY <1>1, <2>1 DEF ObjectOf
<1> QED BY <1>1, <1>2, <1>3

LEMMA MeantValidated ==
  ASSUME NEW d, IsTree(d), IsObject(d, <<>>), NEW p \in DOMAIN Meant(d)
  PROVE  ValidatedAs(EditorSchema, Meant(d), p) = ValidatedAs(EditorSchema, d, p)
<1> DEFINE m == Meant(d)
           B == {q \in DOMAIN m : ValidatedAs(EditorSchema, m, q) # ValidatedAs(EditorSchema, d, q)}
<1>0. IsTree(m) /\ DOMAIN m \subseteq Paths
  BY MeantIs DEF IsTree
<1>1. SUFFICES ASSUME p \in B PROVE FALSE
  OBVIOUS
<1>2. B \subseteq Paths
  BY <1>0
<1>3. PICK q \in B : Within(p, q) /\ \A r \in Above(q) : r \notin B
  <2> HIDE DEF B
  <2> QED BY <1>1, <1>2, Shallowest
<1>4. q # <<>>
  BY <1>3, ValidatedRoot
<1>5. q \in Paths /\ q \in DOMAIN m /\ Front(q) \in Above(q)
  BY <1>0, <1>3, <1>4, FrontPath
<1>6. Front(q) \in DOMAIN m
  BY <1>0, <1>5, TreeAbove
<1> DEFINE s == ValidatedAs(EditorSchema, d, Front(q))
<1>7. ValidatedAs(EditorSchema, m, Front(q)) = s
  BY <1>3, <1>5, <1>6
<1>8. /\ ValidatedAs(EditorSchema, m, q) = ValidatedBy(s, m, Front(q), Last(q))
      /\ ValidatedAs(EditorSchema, d, q) = ValidatedBy(s, d, Front(q), Last(q))
  BY <1>4, <1>5, <1>7, ValidatedRoot
<1>9. Front(q) = <<>> => s = EditorSchema
  BY ValidatedRoot, EditorSchemaIs
<1> HIDE DEF s
<1>10. /\ ObjectOf(s, m, Front(q)) = ObjectOf(s, d, Front(q))
       /\ IsArray(m, Front(q)) <=> IsArray(d, Front(q))
  BY <1>6, <1>9, MeantObject
<1> HIDE DEF m
<1>11. ValidatedBy(s, m, Front(q), Last(q)) = ValidatedBy(s, d, Front(q), Last(q))
  BY <1>10 DEF ValidatedBy
<1> QED BY <1>3, <1>8, <1>11

LEMMA FitsSame ==
  ASSUME NEW v, NEW w, NEW p, p \in DOMAIN v, p \in DOMAIN w, v[p] = w[p], NEW s
  PROVE  Fits(s, v, p) <=> Fits(s, w, p)
BY DEF Fits, IsArray, IsObject

LEMMA NullFitsNot ==
  ASSUME NEW v, NEW p, v[p] = Null, NEW s, s # NoSchema
  PROVE  ~Fits(s, v, p)
<1>1. Null.is = "null"
  BY DEF Null, Node
<1>2. ~IsArray(v, p) /\ ~IsObject(v, p)
  BY NodesDiffer DEF IsArray, IsObject
<1> QED BY <1>1, <1>2 DEF Fits

(* The diagnostics of a document find what is wrong with what is submitted.  *)
LEMMA SubmittedValid ==
  ASSUME NEW d, IsTree(d), IsObject(d, <<>>), Diagnostics(EditorSchema, d) = {},
         NEW f \in Failures(EditorSchema, Meant(d))
  PROVE  f.kind = "never" \/ Slashed(f.path)
<1> DEFINE m == Meant(d)
           sch == EditorSchema
<1>0. DOMAIN d \subseteq Paths
  BY DEF IsTree
<1>0a. /\ \A p \in DOMAIN m : p \in DOMAIN d /\ p \in Paths /\ m[p] = d[p]
       /\ \A p \in DOMAIN m : ValidatedAs(sch, m, p) = ValidatedAs(sch, d, p)
       /\ \A p \in DOMAIN m : IsObject(m, p) <=> IsObject(d, p)
  BY <1>0, MeantIs, MeantValidated, MeantObject, ValidatedRoot, EditorSchemaIs DEF IsObject
<1>0b. \A p \in DOMAIN m : ObjectAt(sch, m, p) = ObjectAt(sch, d, p)
  <2> TAKE p \in DOMAIN m
  <2>1. p = <<>> => ValidatedAs(sch, d, p) = EditorSchema
    BY ValidatedRoot, EditorSchemaIs
  <2>2. ObjectOf(ValidatedAs(sch, d, p), m, p) = ObjectOf(ValidatedAs(sch, d, p), d, p)
    BY <2>1, MeantObject
  <2> QED BY <2>2, <1>0a DEF ObjectAt
<1>1. ASSUME NEW g \in Failures(sch, d), g.kind # "never", Loc(g) \in DOMAIN d
      PROVE  Slashed(Loc(g))
  BY <1>0, <1>1, FailureVisited
<1>2. CASE TypeFailure(sch, m, f)
  <2>1. PICK p \in DOMAIN m : ~Fits(ValidatedAs(sch, m, p), m, p) /\ f = Failure(p, "type")
    BY <1>2 DEF TypeFailure
  <2>2. ~Fits(ValidatedAs(sch, d, p), d, p)
    BY <2>1, <1>0a, FitsSame
  <2>3. f \in Failures(sch, d)
    BY <2>1, <2>2, <1>0a, FailuresAre DEF TypeFailure
  <2>4. f.path = p /\ f.kind = "type"
    BY <2>1, FailureFields
  <2> QED BY <2>3, <2>4, <1>0a, <1>1 DEF Loc
<1>3. CASE KindFailure(sch, m, f)
  <2>1. PICK p \in DOMAIN m :
          /\ ObjectAt(sch, m, p) = NoSchema
          /\ ValidatedAs(sch, m, p).is = "union" /\ IsObject(m, p)
          /\ f = Failure(KindOf(sch, m, p), IF KindOf(sch, m, p) \in DOMAIN m THEN "type" ELSE "missing")
    BY <1>3 DEF KindFailure
  <2> DEFINE q == KindOf(sch, m, p)
             g == Failure(q, IF q \in DOMAIN d THEN "type" ELSE "missing")
  <2>2. KindOf(sch, d, p) = q
    BY <1>0a DEF KindOf
  <2>3. g \in Failures(sch, d)
    <3>1. KindFailure(sch, d, g)
      BY <2>1, <2>2, <1>0a, <1>0b DEF KindFailure
    <3> QED BY <3>1, FailuresAre
  <2>4. f.path = q /\ g.path = q /\ g.kind = IF q \in DOMAIN d THEN "type" ELSE "missing"
    BY <2>1, FailureFields
  <2>5. CASE q \in DOMAIN d
    BY <2>3, <2>4, <2>5, <1>1 DEF Loc
  <2>6. CASE q \notin DOMAIN d
    <3>1. q = Append(p, Discriminator(ValidatedAs(sch, m, p))) /\ p \in Paths
      BY <1>0a DEF KindOf
    <3>2. Front(q) = p
      BY <3>1, AppendFront
    <3>3. Slashed(p)
      BY <2>3, <2>4, <2>6, <3>2, <1>0a, <1>1 DEF Loc
    <3>4. Slashed(q)
      BY <3>1, <3>3, AppendSlashed
    <3> QED BY <2>4, <3>4
  <2> QED BY <2>5, <2>6
<1>4. CASE MissingFailure(sch, m, f)
  <2>1. PICK p \in DOMAIN m : ObjectAt(sch, m, p) # NoSchema /\
          \E k \in Required(ObjectAt(sch, m, p)) :
             Append(p, k) \notin DOMAIN m /\ f = Failure(Append(p, k), "missing")
    BY <1>4 DEF MissingFailure
  <2>2. PICK k \in Required(ObjectAt(sch, m, p)) :
             Append(p, k) \notin DOMAIN m /\ f = Failure(Append(p, k), "missing")
    BY <2>1
  <2> DEFINE q == Append(p, k)
             o == ObjectAt(sch, d, p)
  <2>3. o = ObjectAt(sch, m, p) /\ p \in DOMAIN d /\ p \in Paths
    BY <1>0a, <1>0b
  <2>4. f.path = q /\ f.kind = "missing" /\ Front(q) = p
    BY <2>2, <2>3, FailureFields, AppendFront
  <2>5. CASE q \notin DOMAIN d
    <3>1. MissingFailure(sch, d, f)
      BY <2>1, <2>2, <2>3, <2>5 DEF MissingFailure
    <3>2. f \in Failures(sch, d)
      BY <3>1, FailuresAre
    <3>3. Slashed(p)
      BY <2>3, <2>4, <3>2, <1>1 DEF Loc
    <3>4. Slashed(q)
      BY <2>3, <3>3, AppendSlashed
    <3> QED BY <2>4, <3>4
  <2>6. CASE q \in DOMAIN d
    <3>1. d[q] = Null
      <4>1. CASE p # <<>>
        BY <2>2, <2>6, <4>1, MeantSpec
      <4>2. CASE p = <<>>
        <5>1. o = EditorSchema
          <6>1. ValidatedAs(sch, d, p) = EditorSchema
            BY <4>2, ValidatedRoot, EditorSchemaIs
          <6> QED BY <4>2, <6>1, EditorSchemaIs DEF ObjectAt, ObjectOf
        <5>2. k = "spec"
          BY <2>2, <2>3, <5>1, EditorSchemaIs
        <5>3. q = <<"spec">>
          BY <4>2, <5>2, AppendOne
        <5>4. Within(q, <<"spec">>)
          BY <5>3 DEF Within
        <5>5. Omitted(d, q)
          BY <2>2, <2>6, <5>4, MeantIs
        <5> QED BY <5>5 DEF Omitted
      <4> QED BY <4>1, <4>2
    <3>2. q \in Paths /\ q # <<>> /\ Last(q) = k
      BY <1>0, <2>3, <2>6, AppendFront
    <3> DEFINE s == ValidatedAs(sch, d, p)
    <3>3. ValidatedAs(sch, d, q) = ValidatedBy(s, d, p, k)
      BY <2>4, <3>2, ValidatedRoot
    <3>4. o = ObjectOf(s, d, p) /\ o # NoSchema
      BY <2>1, <2>3 DEF ObjectAt
    <3>5. Prop(o, k) # NoSchema
      BY <2>2, <2>3 DEF Required
    <3>6. ~IsArray(d, p)
      <4>1. IsObject(d, p)
        BY <3>4 DEF ObjectOf
      <4> QED BY <4>1, NodesDiffer DEF IsArray, IsObject
    <3> HIDE DEF q, o, s
    <3>7. ValidatedAs(sch, d, q) # NoSchema
      BY <3>3, <3>4, <3>5, <3>6 DEF ValidatedBy
    <3>8. ~Fits(ValidatedAs(sch, d, q), d, q)
      BY <3>1, <3>7, NullFitsNot
    <3> DEFINE g == Failure(q, "type")
    <3>9. TypeFailure(sch, d, g)
      BY <2>6, <3>8 DEF TypeFailure
    <3>10. g \in Failures(sch, d)
      BY <3>9, FailuresAre
    <3>11. g.path = q /\ g.kind = "type"
      BY FailureFields
    <3> HIDE DEF g
    <3>12. Loc(g) = q
      BY <3>11 DEF Loc
    <3> QED BY <2>4, <2>6, <3>10, <3>11, <3>12, <1>1
  <2> QED BY <2>5, <2>6
<1>5. CASE NeverFailure(sch, m, f)
  BY <1>5, FailureFields DEF NeverFailure
<1>6. TypeFailure(sch, m, f) \/ KindFailure(sch, m, f) \/ MissingFailure(sch, m, f) \/ NeverFailure(sch, m, f)
  BY FailuresAre
<1> QED BY <1>2, <1>3, <1>4, <1>5, <1>6

LEMMA SubmittedSpec ==
  ASSUME NEW d, IsTree(d), IsObject(d, <<>>), Diagnostics(EditorSchema, d) = {}
  PROVE  IsObject(Meant(d), <<"spec">>) /\ IsObject(Meant(d), <<>>)
<1> DEFINE m == Meant(d)
           q == <<"spec">>
<1>0. q \in Paths /\ q # <<>> /\ ~Slashed(q) /\ q = Append(<<>>, "spec")
  <2>1. q = Append(<<>>, "spec")
    BY AppendOne
  <2>2. Len(q) = 1 /\ q[1] = "spec" /\ q \in Paths
    BY SpecPath
  <2>3. \A i \in DOMAIN q : q[i] = "spec"
    <3>1. DOMAIN q = 1..1
      BY <2>2, PathIs
    <3>2. \A i \in 1..1 : i = 1
      OBVIOUS
    <3> HIDE DEF q
    <3> QED BY <2>2, <3>1, <3>2
  <2> HIDE DEF q
  <2>4. ~Slashed(q)
    BY <2>3, EscapesAre, SlashedIs
  <2>5. q # <<>>
    BY <2>2, EmptySeq
  <2> QED BY <2>1, <2>2, <2>4, <2>5
<1>1. IsObject(m, <<>>) /\ <<>> \in DOMAIN m
  <2>1. ~Omitted(d, <<>>) /\ <<>> \in DOMAIN d /\ d[<<>>] = ObjectNode
    BY DEF Omitted, IsObject
  <2>2. <<>> \in DOMAIN m /\ m[<<>>] = d[<<>>]
    BY <2>1, MeantIs
  <2> QED BY <2>1, <2>2 DEF IsObject
<1>2. ValidatedAs(EditorSchema, m, <<>>) = EditorSchema
  BY ValidatedRoot, EditorSchemaIs
<1>3. ObjectAt(EditorSchema, m, <<>>) = EditorSchema
  BY <1>1, <1>2, EditorSchemaIs DEF ObjectAt, ObjectOf
<1>4. q \in DOMAIN m
  <2> SUFFICES ASSUME q \notin DOMAIN m PROVE FALSE
    OBVIOUS
  <2> DEFINE f == Failure(q, "missing")
  <2>1. "spec" \in Required(EditorSchema)
    BY EditorSchemaIs
  <2>2. MissingFailure(EditorSchema, m, f)
    <3>1. Append(<<>>, "spec") \notin DOMAIN m /\ f = Failure(Append(<<>>, "spec"), "missing")
      BY <1>0
    <3> HIDE DEF f, q, m
    <3> QED BY <1>1, <1>3, <2>1, <3>1, EditorSchemaIs DEF MissingFailure
  <2>3. f.path = q /\ f.kind = "missing"
    BY FailureFields
  <2>4. f \in Failures(EditorSchema, m)
    BY <2>2, FailuresAre
  <2> HIDE DEF f
  <2> QED BY <1>0, <2>3, <2>4, SubmittedValid
<1>5. ValidatedAs(EditorSchema, m, q) = Definitions["Spec"]
  <2>1. Front(q) = <<>> /\ Last(q) = "spec"
    BY <1>0, EmptyPath, AppendFront
  <2>2. ValidatedAs(EditorSchema, m, q) = ValidatedBy(EditorSchema, m, <<>>, "spec")
    BY <1>0, <1>2, <2>1, ValidatedRoot
  <2>3. ObjectOf(EditorSchema, m, <<>>) = EditorSchema
    BY <1>2, <1>3 DEF ObjectAt
  <2>4. EditorSchema.is # "array"
    BY EditorSchemaIs
  <2> HIDE DEF m
  <2> QED BY <2>2, <2>3, <2>4, EditorSchemaIs DEF ValidatedBy
<1>6. IsObject(m, q)
  <2> SUFFICES ASSUME ~IsObject(m, q) PROVE FALSE
    OBVIOUS
  <2> DEFINE f == Failure(q, "type")
  <2>1. ~Fits(Definitions["Spec"], m, q)
    <3>1. Definitions["Spec"].is = "object" /\ Definitions["Spec"] # NoSchema
      BY DefinitionsAssumption, EditorSchemaIs
    <3> QED BY <3>1 DEF Fits
  <2>2. TypeFailure(EditorSchema, m, f)
    BY <1>4, <1>5, <2>1 DEF TypeFailure
  <2>3. f.path = q /\ f.kind = "type"
    BY FailureFields
  <2>4. f \in Failures(EditorSchema, m)
    BY <2>2, FailuresAre
  <2> HIDE DEF f
  <2> QED BY <1>0, <2>3, <2>4, SubmittedValid
<1> QED BY <1>1, <1>6

-----------------------------------------------------------------------------
(* The differences the editor sees.                                          *)

Both(r, l, p) == InObjects(r, p) /\ InObjects(l, p)
Unequal(r, l, p) == ~(IsObject(r, p) /\ IsObject(l, p)) /\ At(r, p) # At(l, p)
Deleted(r, l, p) == p \in DOMAIN l /\ p \notin DOMAIN r /\ Both(r, l, p)
Added(r, l, p) == p \in DOMAIN r /\ p \notin DOMAIN l /\ Both(r, l, p)
Modified(r, l, p) == p \in DOMAIN r /\ p \in DOMAIN l /\ Both(r, l, p) /\ Unequal(r, l, p)

LEMMA DiffIs ==
  ASSUME NEW r, NEW l
  PROVE  \A d : d \in Diff(r, l) <=> \E p :
           \/ Deleted(r, l, p) /\ d = [path |-> p, type |-> "d"]
           \/ Added(r, l, p) /\ d = [path |-> p, type |-> "a"]
           \/ Modified(r, l, p) /\ d = [path |-> p, type |-> "m"]
<1> DEFINE V == {p \in DOMAIN r \union DOMAIN l : InObjects(r, p) /\ InObjects(l, p)}
           D(p) == ~(IsObject(r, p) /\ IsObject(l, p)) /\ At(r, p) # At(l, p)
           A1 == V \ DOMAIN r
           A2 == V \ DOMAIN l
           A3 == {q \in V \intersect DOMAIN r \intersect DOMAIN l : D(q)}
<1>1. Diff(r, l) = {[path |-> p, type |-> "d"] : p \in A1}
                   \union {[path |-> p, type |-> "a"] : p \in A2}
                   \union {[path |-> p, type |-> "m"] : p \in A3}
  BY DEF Diff
<1>2. \A p : p \in A1 <=> Deleted(r, l, p)
  BY DEF Deleted, Both
<1>3. \A p : p \in A2 <=> Added(r, l, p)
  BY DEF Added, Both
<1>4. \A p : p \in A3 <=> Modified(r, l, p)
  BY DEF Modified, Both, Unequal
<1> HIDE DEF A1, A2, A3
<1>5. TAKE d
<1>6. d \in Diff(r, l) <=> (\E p \in A1 : d = [path |-> p, type |-> "d"])
                          \/ (\E p \in A2 : d = [path |-> p, type |-> "a"])
                          \/ (\E p \in A3 : d = [path |-> p, type |-> "m"])
  BY <1>1, Zenon
<1> QED BY <1>2, <1>3, <1>4, <1>6

LEMMA DiffPath ==
  ASSUME NEW r, NEW l, NEW d \in Diff(r, l)
  PROVE  /\ d.type = "d" => Deleted(r, l, d.path)
         /\ d.type = "a" => Added(r, l, d.path)
         /\ d.type = "m" => Modified(r, l, d.path)
         /\ d.type \in {"d", "a", "m"}
<1>1. PICK p :
           \/ Deleted(r, l, p) /\ d = [path |-> p, type |-> "d"]
           \/ Added(r, l, p) /\ d = [path |-> p, type |-> "a"]
           \/ Modified(r, l, p) /\ d = [path |-> p, type |-> "m"]
  BY DiffIs
<1>2. CASE Deleted(r, l, p) /\ d = [path |-> p, type |-> "d"]
  BY <1>2
<1>3. CASE Added(r, l, p) /\ d = [path |-> p, type |-> "a"]
  BY <1>3
<1>4. CASE Modified(r, l, p) /\ d = [path |-> p, type |-> "m"]
  BY <1>4
<1> QED BY <1>1, <1>2, <1>3, <1>4

(* The settings a row has: what it adds to its template or says otherwise.   *)
Settled(template, shown) == {d.path : d \in {c \in Diff(shown, template) : c.type \in {"m", "a"}}}

LEMMA SettledIs ==
  ASSUME NEW t, NEW r
  PROVE  \A p : p \in Settled(t, r) <=> Added(r, t, p) \/ Modified(r, t, p)
<1> TAKE p
<1>1. ASSUME p \in Settled(t, r) PROVE Added(r, t, p) \/ Modified(r, t, p)
  <2>1. PICK d \in Diff(r, t) : d.type \in {"m", "a"} /\ p = d.path
    BY <1>1 DEF Settled
  <2> QED BY <2>1, DiffPath
<1>2. ASSUME Added(r, t, p) PROVE p \in Settled(t, r)
  <2> DEFINE d == [path |-> p, type |-> "a"]
  <2>1. d \in Diff(r, t)
    BY <1>2, DiffIs
  <2>2. d.type = "a" /\ d.path = p
    OBVIOUS
  <2> HIDE DEF d
  <2> QED BY <2>1, <2>2 DEF Settled
<1>3. ASSUME Modified(r, t, p) PROVE p \in Settled(t, r)
  <2> DEFINE d == [path |-> p, type |-> "m"]
  <2>1. d \in Diff(r, t)
    BY <1>3, DiffIs
  <2>2. d.type = "m" /\ d.path = p
    OBVIOUS
  <2> HIDE DEF d
  <2> QED BY <2>1, <2>2 DEF Settled
<1> QED BY <1>1, <1>2, <1>3

(* Where they are said again: at their pointers, but below another of them.  *)
Said(changed) ==
  LET pointers == {Compile(t) : t \in changed}
  IN [to \in {p \in pointers : Above(p) \intersect pointers = {}} |->
        CHOOSE t \in changed : Compile(t) = to]

LEMMA SaidIs ==
  ASSUME NEW changed, changed \subseteq Paths
  PROVE  /\ Targets(Said(changed))
         /\ \A to \in DOMAIN Said(changed) : Said(changed)[to] \in changed /\ Compile(Said(changed)[to]) = to
         /\ \A p : p \in DOMAIN Said(changed) <=>
              /\ \E t \in changed : p = Compile(t)
              /\ \A t \in changed : Compile(t) \notin Above(p)
<1> DEFINE P == {Compile(t) : t \in changed}
           D == {p \in P : Above(p) \intersect P = {}}
           s == Said(changed)
<1>1. s = [to \in D |-> CHOOSE t \in changed : Compile(t) = to]
  BY DEF Said
<1>2. \A p : p \in P <=> \E t \in changed : p = Compile(t)
  OBVIOUS
<1>3. DOMAIN s = D
  BY <1>1
<1>4. \A to \in D : s[to] \in changed /\ Compile(s[to]) = to
  <2> TAKE to \in D
  <2>1. \E t \in changed : Compile(t) = to
    BY <1>2
  <2>2. s[to] = CHOOSE t \in changed : Compile(t) = to
    BY <1>1
  <2> HIDE DEF s
  <2> QED BY <2>1, <2>2
<1>5. \A p : p \in D <=> (\E t \in changed : p = Compile(t)) /\ \A t \in changed : Compile(t) \notin Above(p)
  BY <1>2
<1> HIDE DEF s, D, P
<1>6. \A t \in D : t \in Paths /\ s[t] \in Paths /\ Len(s[t]) = Len(t)
  BY <1>4, CompileIs
<1>7. \A t, u \in D : u \notin Above(t)
  BY <1>5
<1>8. Targets(s)
  BY <1>3, <1>6, <1>7 DEF Targets
<1> QED BY <1>3, <1>4, <1>5, <1>8 DEF s

ConfigOf(template) == Over([p \in {<<>>, <<"spec">>, Config} |-> ObjectNode], At(template, Config))

LEMMA ConfigOfIs ==
  ASSUME NEW t, IsTree(t), Config \in DOMAIN t => IsObject(t, Config)
  PROVE  /\ \A p : p \in DOMAIN ConfigOf(t) <=>
                     p \in {<<>>, <<"spec">>, Config} \/ (p \in DOMAIN t /\ Within(p, Config))
         /\ \A p \in {<<>>, <<"spec">>, Config} : ConfigOf(t)[p] = ObjectNode
         /\ \A p \in DOMAIN t : Within(p, Config) => ConfigOf(t)[p] = t[p]
         /\ IsTree(ConfigOf(t))
<1> DEFINE R == {<<>>, <<"spec">>, Config}
           f == [p \in R |-> ObjectNode]
           g == At(t, Config)
           c == ConfigOf(t)
<1>1. c = Over(f, g)
  BY DEF ConfigOf
<1>2. DOMAIN g = {p \in DOMAIN t : Within(p, Config)} /\ \A p \in DOMAIN g : g[p] = t[p]
  BY AtIs
<1>3. DOMAIN f = R /\ \A p \in R : f[p] = ObjectNode
  OBVIOUS
<1> HIDE DEF c, f, g
<1>4. DOMAIN c = R \union DOMAIN g /\ \A p \in DOMAIN c : c[p] = IF p \in R THEN ObjectNode ELSE g[p]
  BY <1>1, <1>3 DEF Over
<1>5. \A p : p \in DOMAIN c <=> p \in R \/ (p \in DOMAIN t /\ Within(p, Config))
  BY <1>2, <1>4
<1>6. ASSUME NEW p \in DOMAIN t, Within(p, Config) PROVE c[p] = t[p]
  <2>1. CASE p = Config
    BY <2>1, <1>4 DEF IsObject
  <2>2. CASE p # Config
    <3>1. p \in Paths
      BY DEF IsTree
    <3>2. Config \in Above(p)
      BY <1>6, <2>2 DEF Within
    <3>3. p \notin R
      <4>1. Config \notin Above(<<>>) /\ Config \notin Above(<<"spec">>)
        <5>1. Len(Config) = 2 /\ Len(<<"spec">>) = 1 /\ Len(<<>>) = 0
          BY DEF Config
        <5>2. <<"spec">> \in Paths /\ <<>> \in Paths
          BY SpecPath, EmptyPath
        <5> HIDE DEF Config
        <5> QED BY <5>1, <5>2, AbovePath
      <4> QED BY <3>2, <4>1, <2>2
    <3> QED BY <3>3, <1>2, <1>4, <1>6
  <2> QED BY <2>1, <2>2
<1>7. IsTree(c)
  <2>1. DOMAIN c \subseteq Paths
    BY <1>5, EmptyPath, SpecPath DEF IsTree
  <2>2. ASSUME NEW p \in DOMAIN c, NEW q \in Above(p) PROVE q \in DOMAIN c /\ c[q] \in Containers
    <3>1. CASE p \in R
      <4>1. q \in R
        BY <3>1, EmptyPath, SpecPath
      <4> QED BY <4>1, <1>4, NodesDiffer
    <3>2. CASE p \in DOMAIN t /\ Within(p, Config)
      <4>1. q \in DOMAIN t /\ t[q] \in Containers /\ p \in Paths
        BY <3>2, TreeAbove
      <4>2. q \in Above(Config) \/ Within(q, Config)
        BY <3>2, <4>1, WithinPath
      <4>3. CASE q \in Above(Config)
        BY <4>3, SpecPath, <1>4, NodesDiffer
      <4>4. CASE Within(q, Config)
        BY <4>1, <4>4, <1>5, <1>6
      <4> QED BY <4>2, <4>3, <4>4
    <3> QED BY <3>1, <3>2, <1>5
  <2> QED BY <2>1, <2>2 DEF IsTree
<1> QED BY <1>4, <1>5, <1>6, <1>7 DEF c

LEMMA SettingsAre ==
  \A t, r : Settings(t, r) = CloneWithoutNull(SetAll(ConfigOf(t), Said(Settled(t, r)), r))
BY DEF Settings, ConfigOf, Said, Settled

LEMMA SettingsTree ==
  ASSUME NEW t, NEW r, IsTree(t), Config \in DOMAIN t => IsObject(t, Config), IsTree(r),
         IsObject(t, <<>>), IsObject(r, <<>>)
  PROVE  /\ Settled(t, r) \subseteq Paths /\ Targets(Said(Settled(t, r)))
         /\ \A to \in DOMAIN Said(Settled(t, r)) : to # <<>>
         /\ IsTree(SetAll(ConfigOf(t), Said(Settled(t, r)), r))
         /\ IsTree(Settings(t, r)) /\ IsObject(Settings(t, r), <<>>)
<1> DEFINE C == Settled(t, r)
           s == Said(C)
           a == SetAll(ConfigOf(t), s, r)
<1>1. C \subseteq Paths
  BY SettledIs DEF Added, Modified, IsTree
<1>2. <<>> \notin C
  <2>1. ~Added(r, t, <<>>)
    BY DEF Added, IsObject
  <2>2. ~Modified(r, t, <<>>)
    BY DEF Modified, Unequal
  <2> QED BY <2>1, <2>2, SettledIs
<1> HIDE DEF C
<1>3. Targets(s) /\ \A to \in DOMAIN s : s[to] \in C /\ Compile(s[to]) = to
  BY <1>1, SaidIs
<1> HIDE DEF s
<1>4. ASSUME NEW to \in DOMAIN s PROVE to # <<>>
  <2>1. s[to] \in Paths /\ s[to] # <<>> /\ Len(s[to]) = Len(to) /\ to \in Paths
    BY <1>1, <1>2, <1>3 DEF Targets
  <2>2. Len(s[to]) # 0
    BY <2>1, EmptySeq DEF Paths
  <2> QED BY <2>1, <2>2, EmptySeq
<1>5. IsTree(ConfigOf(t)) /\ <<>> \in DOMAIN ConfigOf(t) /\ ConfigOf(t)[<<>>] = ObjectNode
  BY ConfigOfIs
<1>6. DOMAIN r \subseteq Paths
  BY DEF IsTree
<1>7. \A to \in DOMAIN s : \A p \in DOMAIN r : \A q \in Above(p) :
        Within(q, s[to]) => q \in DOMAIN r /\ r[q] \in Containers
  BY TreeAbove
<1>8. IsTree(a)
  BY <1>3, <1>5, <1>6, <1>7, SetAllTree
<1>9. IsObject(a, <<>>)
  <2>1. \A to \in DOMAIN s : ~Within(<<>>, to)
    BY <1>4, EmptyPath DEF Within
  <2>2. DOMAIN ConfigOf(t) \subseteq Paths
    BY <1>5 DEF IsTree
  <2>3. <<>> \in Paths
    BY EmptyPath
  <2>4. <<>> \in DOMAIN a /\ (\/ a[<<>>] = ConfigOf(t)[<<>>]
                             \/ a[<<>>] = IF <<>> \in DOMAIN ConfigOf(t) /\ ConfigOf(t)[<<>>] \in Containers
                                            THEN ConfigOf(t)[<<>>] ELSE ObjectNode)
    <3>1. \A p \in Paths : (\A to \in DOMAIN s : ~Within(p, to)) =>
              /\ (\A to \in DOMAIN s : p \notin Above(to)) =>
                   /\ p \in DOMAIN a <=> p \in DOMAIN ConfigOf(t)
                   /\ p \in DOMAIN a => a[p] = ConfigOf(t)[p]
              /\ (\E to \in DOMAIN s : p \in Above(to)) =>
                   /\ p \in DOMAIN a
                   /\ a[p] = IF p \in DOMAIN ConfigOf(t) /\ ConfigOf(t)[p] \in Containers
                               THEN ConfigOf(t)[p] ELSE ObjectNode
      BY <1>3, <1>6, <2>2, SetAllIs
    <3> HIDE DEF a
    <3> QED BY <3>1, <2>1, <2>3, <1>5
  <2> QED BY <2>4, <1>5 DEF IsObject
<1> HIDE DEF a
<1>10. IsTree(CloneWithoutNull(a)) /\ IsObject(CloneWithoutNull(a), <<>>)
  <2>1. <<>> \in DOMAIN CloneWithoutNull(a)
    BY <1>9, CloneIs DEF IsObject, Omitted
  <2> QED BY <1>8, <1>9, <2>1, CloneTree, CloneIs DEF IsObject
<1> QED BY <1>1, <1>3, <1>4, <1>8, <1>10, SettingsAre DEF C, s, a

-----------------------------------------------------------------------------
(* Merges of documents without nulls.                                        *)

LEMMA MergeNullFree ==
  ASSUME NEW a, NEW b, IsTree(a), IsTree(b), NullFree(a), NullFree(b)
  PROVE  NullFree(Merge(a, b))
<1> DEFINE m == Merge(a, b)
<1>0. \A p : (p \in DOMAIN a \/ p \in DOMAIN b) /\ p # <<>> => Front(p) \in Above(p)
  BY FrontPath DEF IsTree
<1>1. ASSUME NEW p \in DOMAIN m, Omitted(m, p) PROVE FALSE
  <2>1. CASE p \in DOMAIN b
    <3>1. m[p] = b[p] /\ p # <<>>
      BY <1>1, <2>1, MergeIs DEF Omitted
    <3>2. Front(p) \in DOMAIN b
      BY <1>0, <2>1, <3>1, TreeAbove
    <3>3. m[Front(p)] = b[Front(p)]
      BY <3>2, MergeIs
    <3>4. Omitted(b, p)
      BY <1>1, <3>1, <3>3 DEF Omitted
    <3> QED BY <2>1, <3>4, NullFreeIs
  <2>2. CASE p \notin DOMAIN b
    <3>1. m[p] = a[p] /\ p # <<>> /\ p \in DOMAIN a /\ Agreeing(a, b, p)
      BY <1>1, <2>2, MergeIs DEF Omitted
    <3>2. Front(p) \in Above(p)
      BY <1>0, <3>1
    <3>3. m[Front(p)] = a[Front(p)]
      <4>1. CASE Front(p) \in DOMAIN b
        BY <3>1, <3>2, <4>1, MergeIs DEF Agreeing
      <4>2. CASE Front(p) \notin DOMAIN b
        <5>1. Front(p) \in DOMAIN m
          BY <3>2, MergeTree, TreeAbove
        <5> QED BY <4>2, <5>1, MergeIs
      <4> QED BY <4>1, <4>2
    <3>4. Omitted(a, p)
      BY <1>1, <3>1, <3>3 DEF Omitted
    <3> QED BY <3>1, <3>4, NullFreeIs
  <2> QED BY <2>1, <2>2
<1>2. m = Restrict(m, DOMAIN m)
  <2>1. m = [p \in DOMAIN m |-> m[p]]
    BY DEF Merge, Over
  <2> HIDE DEF m
  <2> QED BY <2>1 DEF Restrict
<1> HIDE DEF m
<1>3. NullFree(m)
  BY <1>1, <1>2, NullFreeIf
<1> QED BY <1>3 DEF m

LEMMA MergeObjNullFree ==
  ASSUME NEW a, NEW b, IsTree(a), IsTree(b), NullFree(a), NullFree(b)
  PROVE  NullFree(MergeObj(a, b))
<1> DEFINE m == MergeObj(a, b)
<1>0. \A p : (p \in DOMAIN a \/ p \in DOMAIN b) /\ p # <<>> => Front(p) \in Above(p)
  BY FrontPath DEF IsTree
<1>1. ASSUME NEW p \in DOMAIN m, Omitted(m, p) PROVE FALSE
  <2>1. CASE p \in DOMAIN b /\ ~Ignored(a, b, p)
    <3>1. m[p] = b[p] /\ p # <<>>
      BY <1>1, <2>1, MergeObjIs DEF Omitted
    <3>2. Front(p) \in DOMAIN b /\ b[Front(p)] \in Containers
      BY <1>0, <2>1, <3>1, TreeAbove
    <3>3. m[Front(p)] = b[Front(p)]
      BY <3>2, MergeObjIs, NodesDiffer DEF Ignored
    <3>4. Omitted(b, p)
      BY <1>1, <3>1, <3>3 DEF Omitted
    <3> QED BY <2>1, <3>4, NullFreeIs
  <2>2. CASE p \notin DOMAIN b \/ Ignored(a, b, p)
    <3>1. m[p] = a[p] /\ p # <<>> /\ p \in DOMAIN a /\ Kept(a, b, p)
      BY <1>1, <2>2, MergeObjIs DEF Omitted
    <3>2. Front(p) \in Above(p) /\ Front(p) \in DOMAIN a
      BY <1>0, <3>1, TreeAbove
    <3>3. m[Front(p)] = a[Front(p)]
      <4>1. CASE Front(p) \in DOMAIN b /\ ~Ignored(a, b, Front(p))
        BY <3>1, <3>2, <4>1, MergeObjIs DEF Kept, IsObject
      <4>2. CASE Front(p) \notin DOMAIN b \/ Ignored(a, b, Front(p))
        <5>1. Front(p) \in DOMAIN m
          BY <3>2, MergeObjTree, TreeAbove
        <5> QED BY <4>2, <5>1, MergeObjIs
      <4> QED BY <4>1, <4>2
    <3>4. Omitted(a, p)
      BY <1>1, <3>1, <3>3 DEF Omitted
    <3> QED BY <3>1, <3>4, NullFreeIs
  <2> QED BY <2>1, <2>2
<1>2. m = Restrict(m, DOMAIN m)
  <2>1. m = [p \in DOMAIN m |-> m[p]]
    BY DEF MergeObj, Over
  <2> HIDE DEF m
  <2> QED BY <2>1 DEF Restrict
<1> HIDE DEF m
<1>3. NullFree(m)
  BY <1>1, <1>2, NullFreeIf
<1> QED BY <1>3 DEF m

LEMMA DiffObjNullFree ==
  ASSUME NEW a, NEW b, IsTree(b), NullFree(b)
  PROVE  NullFree(DiffObj(a, b))
<1> DEFINE m == DiffObj(a, b)
<1>1. ASSUME NEW p \in DOMAIN m, Omitted(m, p) PROVE FALSE
  <2>1. p \in DOMAIN b /\ m[p] = b[p] /\ p \in Paths /\ p # <<>>
    BY <1>1, DiffObjIs DEF IsTree, Omitted
  <2>2. Front(p) \in DOMAIN m
    BY <2>1, FrontPath, DiffObjTree, TreeAbove
  <2>3. m[Front(p)] = b[Front(p)]
    BY <2>2, DiffObjIs
  <2>4. Omitted(b, p)
    BY <1>1, <2>1, <2>3 DEF Omitted
  <2> QED BY <2>1, <2>4, NullFreeIs
<1>2. m = Restrict(m, DOMAIN m)
  <2>1. m = [p \in DOMAIN m |-> m[p]]
    BY DEF DiffObj, Restrict
  <2> HIDE DEF m
  <2> QED BY <2>1 DEF Restrict
<1> HIDE DEF m
<1>3. NullFree(m)
  BY <1>1, <1>2, NullFreeIf
<1> QED BY <1>3 DEF m

LEMMA MergeUndefined ==
  ASSUME NEW t, NullFree(t)
  PROVE  /\ Merge(t, Undefined) = t /\ IsTree(Undefined) /\ NullFree(Undefined)
<1>1. DOMAIN Undefined = {} /\ Undefined = [p \in {} |-> Undefined[p]]
  BY DEF Undefined
<1>2. IsTree(Undefined)
  BY <1>1 DEF IsTree
<1>3. NullFree(Undefined)
  <2>1. Undefined = Restrict(Undefined, {})
    BY <1>1 DEF Restrict
  <2> QED BY <2>1, <1>1, NullFreeIf
<1>4. t = [p \in DOMAIN t |-> t[p]]
  <2>1. CloneWithoutNull(t) = [p \in DOMAIN CloneWithoutNull(t) |-> CloneWithoutNull(t)[p]]
    BY DEF CloneWithoutNull, Restrict
  <2> QED BY <2>1 DEF NullFree
<1>5. DOMAIN Merge(t, Undefined) = DOMAIN t /\ \A p \in DOMAIN t : Merge(t, Undefined)[p] = t[p]
  <2>1. \A p : p \in DOMAIN Merge(t, Undefined) <=> p \in DOMAIN t
    BY <1>1, MergeIs DEF Agreeing
  <2>2. \A p \in DOMAIN t : Merge(t, Undefined)[p] = t[p]
    BY <2>1, <1>1, MergeIs
  <2>3. DOMAIN Merge(t, Undefined) = DOMAIN t
    BY <2>1
  <2> QED BY <2>2, <2>3
<1>6. Merge(t, Undefined) = [p \in DOMAIN Merge(t, Undefined) |-> Merge(t, Undefined)[p]]
  BY DEF Merge, Over
<1>7. Merge(t, Undefined) = [p \in DOMAIN t |-> t[p]]
  <2>1. [p \in DOMAIN Merge(t, Undefined) |-> Merge(t, Undefined)[p]] = [p \in DOMAIN t |-> t[p]]
    BY <1>5
  <2> QED BY <1>6, <2>1
<1> QED BY <1>2, <1>3, <1>4, <1>7

(* What a row shows of a template is a document again.                       *)
LEMMA RowDocument ==
  ASSUME NEW t, NEW o, IsTree(t), IsTree(o), NullFree(t), NullFree(o),
         IsObject(t, <<>>), IsObject(t, <<"spec">>),
         \A p \in {<<>>, <<"spec">>} : p \in DOMAIN o => o[p] = ObjectNode,
         NEW r, r = Merge(t, o) \/ r = MergeObj(t, o)
  PROVE  IsTree(r) /\ NullFree(r) /\ IsObject(r, <<>>) /\ IsObject(r, <<"spec">>)
<1>1. IsTree(r) /\ NullFree(r)
  BY MergeTree, MergeObjTree, MergeNullFree, MergeObjNullFree
<1>2. \A p \in {<<>>, <<"spec">>} : \A q \in Above(p) : q = <<>>
  BY EmptyPath, SpecPath
<1>3. ASSUME NEW p \in {<<>>, <<"spec">>} PROVE IsObject(r, p)
  <2>1. p \in DOMAIN t /\ t[p] = ObjectNode
    BY <1>3 DEF IsObject
  <2>2. Agreeing(t, o, p) /\ Kept(t, o, p)
    BY <1>2 DEF Agreeing, Kept, IsObject
  <2>3. p \in DOMAIN o => ~Ignored(t, o, p)
    BY NodesDiffer DEF Ignored
  <2> QED BY <2>1, <2>2, <2>3, MergeIs, MergeObjIs DEF IsObject
<1> QED BY <1>1, <1>3
================================================================================
