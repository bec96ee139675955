---------------------- MODULE DashboardDeployments_proofs ----------------------
(***************************************************************************)
(* Proofs about the page of the deployments of an environment: its types,   *)
(* and that its dialogs, its editors and its rows show what they are to     *)
(* show, for any number of kubepkgs, revisions, overwrites and requests.    *)
(***************************************************************************)
EXTENDS DashboardDeployments, WellFoundedInduction, TLAPS

-----------------------------------------------------------------------------
(* The inductive invariant.                                                *)

Ops == PageReads \union DialogReads \union Writes
Kinds == {"closed", "edit", "create", "history"}

CallType(c) ==
  /\ c = [op |-> c.op, arg |-> c.arg, to |-> c.to, n |-> c.n, served |-> c.served,
          answer |-> c.answer, live |-> c.live]
  /\ c.op \in Ops /\ c.n \in Nat \ {0} /\ c.served \in BOOLEAN /\ c.live \in BOOLEAN
  /\ IF c.op \in PageReads THEN c.n = 1 ELSE c.n <= sent

(* What a request may carry, and in which dialog it may be pending.         *)
CallArgs(c) ==
  /\ c.op = "list" => c.answer \in Docs \union {None}
  /\ c.op = "put" => /\ c.arg \in Docs /\ c.to \in Kinds \ {"closed"}
                     /\ c.answer \in {None, c.arg}
  /\ c.op = "delete" => c.answer \in {None, TRUE}
  /\ c.op = "revision" =>
       dialog \in {"edit", "create"} /\ c.arg \in [pkg: Pkgs, rev: Revs]
  /\ c.op = "history" => dialog = "history"
  /\ c.op \notin Writes \union {"list"} => ~ c.served

CallsOK == \A c \in calls : CallType(c) /\ CallArgs(c)

(* Until the list has arrived there is no row, and nothing that needs one.  *)
ListOK ==
  \A c \in calls : c.op = "list" =>
    /\ row = None /\ listed = None
    /\ \A d \in calls : /\ d.op \notin {"latest", "deployed", "delete"}
                        /\ d.op = "put" => d.to = "create"
                        /\ d.op = "list" => d = c

PageType ==
  /\ server \in Docs \union {None}
  /\ listed \in Docs \union {None} /\ row \in Docs \union {None}
  /\ sent \in 0..MaxSent /\ noted \subseteq Notes

DialogType ==
  /\ dialog \in Kinds /\ filters \in Filters
  /\ template \in Revs \union {None} /\ overwrites \in Overs \union {None}
  /\ failed \in BOOLEAN /\ editor \in Editors \union {None}
  /\ offered \in BOOLEAN /\ chosen \in Docs \union {None}

DialogOK ==
  /\ dialog \in {"edit", "history"} => row # None
  /\ dialog \in {"create", "history"} => editor # None
  /\ dialog \in {"closed", "history"} => template = None
  /\ dialog = "closed" => editor = None
  /\ dialog = "history" => editor.doc # None /\ chosen # None
  /\ template # None => editor # None /\ editor.doc # None /\ editor.doc.rev = template

IInv == PageType /\ DialogType /\ CallsOK /\ ListOK /\ DialogOK

-----------------------------------------------------------------------------
(* Requests.                                                               *)

LEMMA MaxOfNaturals ==
  ASSUME NEW S, S \subseteq Nat, S # {}, NEW b \in Nat, \A x \in S : x <= b
  PROVE  Max(S) \in S /\ \A x \in S : x <= Max(S)
<1> DEFINE T == {b - x : x \in S}
<1>1. T \subseteq Nat /\ T # {}
  <2>1. \A x \in S : b - x \in Nat
    OBVIOUS
  <2> QED BY <2>1
<1> HIDE DEF T
<1>2. PICK t \in T : \A u \in T : t <= u
  <2> DEFINE R == {ss \in Nat \X Nat : ss[1] < ss[2]}
  <2>1. IsWellFoundedOn(R, Nat)
    BY NatLessThanWellFounded, Zenon DEF OpToRel
  <2> HIDE DEF R
  <2>2. PICK t \in T : \A u \in T : <<u, t>> \notin R
    BY <1>1, <2>1, WFMin
  <2>3. \A u \in T : ~ (u < t)
    BY <1>1, <2>2 DEF R
  <2> QED BY <1>1, <2>3
<1> USE DEF T
<1>3. PICK m \in S : t = b - m
  OBVIOUS
<1>4. \A x \in S : m >= x
  BY <1>2, <1>3
<1> QED BY <1>4 DEF Max

(* A new request comes after those of its kind.                             *)
LEMMA NewCallType ==
  ASSUME CallsOK, sent \in Nat, NEW op \in Ops, NEW arg
  PROVE  LET c == NewCall(op, arg) IN
         /\ c = [op |-> op, arg |-> arg, to |-> IF op = "put" THEN dialog ELSE "closed",
                 n |-> c.n, served |-> FALSE, answer |-> None, live |-> TRUE]
         /\ c.n \in Nat \ {0}
         /\ \A d \in calls : d.op = op => d.n < c.n
         /\ (\A d \in calls : d.op # op) => c.n = 1
         /\ op \notin PageReads => c.n <= sent + 1
<1> DEFINE S == {0} \union {c.n : c \in {d \in calls : d.op = op}}
           c == NewCall(op, arg)
<1>1. \A d \in calls : d.n \in Nat /\ d.n <= sent + 1 /\ (op \notin PageReads /\ d.op = op => d.n <= sent)
  BY DEF CallsOK, CallType
<1>2. S \subseteq Nat /\ S # {} /\ \A x \in S : x <= sent + 1
  <2>1. 0 <= sent + 1 /\ 0 \in S
    OBVIOUS
  <2>2. ASSUME NEW x \in S
        PROVE  x = 0 \/ \E d \in calls : x = d.n
    OBVIOUS
  <2> HIDE DEF S
  <2>3. \A x \in S : x \in Nat /\ x <= sent + 1
    BY <1>1, <2>1, <2>2
  <2> QED BY <2>1, <2>3
<1>3. Max(S) \in S /\ \A x \in S : x <= Max(S)
  <2> HIDE DEF S
  <2>1. sent + 1 \in Nat
    OBVIOUS
  <2> QED BY <1>2, <2>1, MaxOfNaturals
<1>4. c = [op |-> op, arg |-> arg, to |-> IF op = "put" THEN dialog ELSE "closed",
           n |-> 1 + Max(S), served |-> FALSE, answer |-> None, live |-> TRUE]
  BY DEF NewCall
<1> HIDE DEF S, c
<1>5. c.n = 1 + Max(S)
  BY <1>4
<1>6. \A d \in calls : d.op = op => d.n \in S
  BY DEF S
<1>7. (\A d \in calls : d.op # op) => S = {0}
  BY DEF S
<1>8. op \notin PageReads => \A x \in S : x <= sent
  BY <1>1 DEF S
<1> QED BY <1>1, <1>2, <1>3, <1>4, <1>5, <1>6, <1>7, <1>8 DEF c

(* The requests that go with a component.                                   *)
LEMMA UnheardDialog ==
  ASSUME NEW kept, \A c \in kept : c.op \in Ops
  PROVE  Unheard(kept, OfDialog) = {c \in kept : c.op \notin DialogReads}
BY DEF Unheard, OfDialog, DialogReads, Writes

LEMMA UnheardRow ==
  ASSUME NEW kept, \A c \in kept : CallType(c), NEW c \in Unheard(kept, OfRow)
  PROVE  /\ c.op \notin DialogReads
         /\ c \in kept \/ \E d \in kept : c = [d EXCEPT !.live = FALSE] /\ d.op \in Writes
<1>1. CASE c \in kept /\ ~ OfRow(c)
  BY <1>1 DEF OfRow, OfDialog
<1>2. ASSUME NEW d \in kept, d.op \in Writes, c = [d EXCEPT !.live = FALSE]
      PROVE  c.op \notin DialogReads
  <2>1. c.op = d.op
    BY <1>2 DEF CallType
  <2> QED BY <1>2, <2>1 DEF Writes, DialogReads
<1> QED BY <1>1, <1>2 DEF Unheard

LEMMA UnheardWrites ==
  ASSUME NEW kept
  PROVE  \A c \in Unheard(kept, LAMBDA c : OfRow(c) /\ ~OfDialog(c)) :
           c \in kept \/ \E d \in kept : c = [d EXCEPT !.live = FALSE] /\ d.op \in Writes
BY DEF Unheard

(* A request sent by a dialog, and none.                                    *)
LEMMA SendOne ==
  ASSUME CallsOK, sent \in Nat, NEW kept, NEW op \in Ops, NEW arg,
         SendAfter(kept, <<<<op, arg>>>>)
  PROVE  /\ sent' = sent + 1 /\ sent' <= MaxSent
         /\ calls' = kept \union {NewCall(op, arg)}
<1> DEFINE ops == <<<<op, arg>>>>
<1>1. Len(ops) = 1 /\ DOMAIN ops = {1} /\ ops[1][1] = op /\ ops[1][2] = arg
  OBVIOUS
<1> HIDE DEF ops
<1>2. SendAfter(kept, ops)
  BY DEF ops
<1> QED BY <1>1, <1>2 DEF SendAfter

LEMMA SendNone ==
  ASSUME sent \in Nat, NEW kept, SendAfter(kept, <<>>)
  PROVE  sent' = sent /\ calls' = kept
<1>1. Len(<<>>) = 0 /\ DOMAIN <<>> = {}
  OBVIOUS
<1> QED BY <1>1 DEF SendAfter

(* What a selection sends.                                                  *)
LEMMA SelectSends ==
  ASSUME CallsOK, sent \in Nat, NEW kept, NEW f \in Filters, SendAfter(kept, CallsOf(f))
  PROVE  \/ /\ f.pkg \in Pkgs /\ f.rev \in Revs
            /\ sent' = sent + 1 /\ sent' <= MaxSent
            /\ calls' = kept \union {NewCall("revision", f)}
         \/ (f.pkg = None \/ f.rev = None) /\ sent' = sent /\ calls' = kept
<1>1. CASE f.pkg # None /\ f.rev # None
  <2>1. SendAfter(kept, <<<<"revision", f>>>>) /\ "revision" \in Ops
    BY <1>1 DEF CallsOf, Ops, DialogReads
  <2> QED BY <1>1, <2>1, SendOne DEF Filters
<1>2. CASE f.pkg = None \/ f.rev = None
  BY <1>2, SendNone DEF CallsOf
<1> QED BY <1>1, <1>2

-----------------------------------------------------------------------------
(* What stays true of a request.                                            *)

LEMMA CallStays ==
  ASSUME CallsOK, sent \in Nat, sent' \in Nat, sent <= sent', NEW c \in calls,
         c.op \in DialogReads => dialog' = dialog
  PROVE  CallType(c)' /\ CallArgs(c)'
<1>1. CallType(c) /\ CallArgs(c)
  BY DEF CallsOK
<1>2. CallType(c)'
  BY <1>1 DEF CallType
<1>3. CallArgs(c)'
  BY <1>1 DEF CallArgs, DialogReads
<1> QED BY <1>2, <1>3

LEMMA CallUnheard ==
  ASSUME CallsOK, sent \in Nat, sent' \in Nat, sent <= sent', NEW c \in calls, c.op \in Writes
  PROVE  CallType([c EXCEPT !.live = FALSE])' /\ CallArgs([c EXCEPT !.live = FALSE])'
<1>1. CallType(c) /\ CallArgs(c)
  BY DEF CallsOK
<1>2. ASSUME NEW u, u = [c EXCEPT !.live = FALSE]
      PROVE  CallType(u)' /\ CallArgs(u)'
  <2>1. u = [op |-> c.op, arg |-> c.arg, to |-> c.to, n |-> c.n, served |-> c.served,
             answer |-> c.answer, live |-> FALSE]
    BY <1>1, <1>2 DEF CallType
  <2>2. /\ u.op = c.op /\ u.arg = c.arg /\ u.to = c.to /\ u.n = c.n /\ u.served = c.served
        /\ u.answer = c.answer /\ u.live = FALSE
    BY <2>1
  <2>3. CallType(u)'
    BY <1>1, <2>1, <2>2 DEF CallType
  <2>4. CallArgs(u)'
    BY <1>1, <2>2 DEF CallArgs, Writes
  <2> QED BY <2>3, <2>4
<1> QED BY <1>2

LEMMA CallNew ==
  ASSUME CallsOK, sent \in Nat, sent' = sent + 1, NEW op \in Ops \ PageReads, NEW arg,
         NEW c, c = NewCall(op, arg),
         op = "put" => arg \in Docs /\ dialog \in Kinds \ {"closed"},
         op = "revision" => dialog' \in {"edit", "create"} /\ arg \in [pkg: Pkgs, rev: Revs],
         op = "history" => dialog' = "history"
  PROVE  CallType(c)' /\ CallArgs(c)'
<1>1. /\ c = [op |-> op, arg |-> arg, to |-> IF op = "put" THEN dialog ELSE "closed",
                 n |-> c.n, served |-> FALSE, answer |-> None, live |-> TRUE]
      /\ c.n \in Nat \ {0} /\ c.n <= sent + 1
  BY NewCallType
<1>2. /\ c.op = op /\ c.arg = arg /\ c.served = FALSE /\ c.answer = None /\ c.live = TRUE
      /\ op = "put" => c.to = dialog
  BY <1>1
<1>3. c = [op |-> c.op, arg |-> c.arg, to |-> c.to, n |-> c.n, served |-> c.served,
          answer |-> c.answer, live |-> c.live]
  BY <1>1
<1>4. CallType(c)'
  BY <1>1, <1>2, <1>3 DEF CallType
<1>5. CallArgs(c)'
  BY <1>2 DEF CallArgs, Writes, PageReads
<1> QED BY <1>4, <1>5

LEMMA CallsStep ==
  ASSUME CallsOK, sent \in Nat, sent' \in Nat, sent <= sent',
         \A c \in calls' :
           \/ c \in calls /\ (c.op \in DialogReads => dialog' = dialog)
           \/ \E d \in calls : c = [d EXCEPT !.live = FALSE] /\ d.op \in Writes
           \/ CallType(c)' /\ CallArgs(c)'
  PROVE  CallsOK'
BY CallStays, CallUnheard DEF CallsOK

(* While the list is pending, what else a step sends needs no row.          *)
LEMMA ListStep ==
  ASSUME CallsOK, ListOK, row' = row, listed' = listed,
         \A c \in calls' :
           \/ c \in calls
           \/ \E d \in calls : c = [d EXCEPT !.live = FALSE] /\ d.op \in Writes
           \/ /\ c.op \in DialogReads \union Writes
              /\ c.op = "put" => c.to = "create" \/ row # None
              /\ c.op = "delete" => row # None
  PROVE  ListOK'
<1>1. ASSUME NEW d \in calls, NEW c, c = [d EXCEPT !.live = FALSE]
      PROVE  c.op = d.op /\ c.to = d.to
  BY <1>1 DEF CallsOK, CallType
<1> SUFFICES ASSUME NEW c \in calls', c.op = "list"
             PROVE  /\ row = None /\ listed = None
                    /\ \A d \in calls' : /\ d.op \notin {"latest", "deployed", "delete"}
                                         /\ d.op = "put" => d.to = "create"
                                         /\ d.op = "list" => d = c
  BY DEF ListOK
<1>2. c \in calls
  BY <1>1 DEF DialogReads, Writes
<1>3. row = None /\ listed = None
  BY <1>2 DEF ListOK
<1>4. \A d \in calls : /\ d.op \notin {"latest", "deployed", "delete"}
                       /\ d.op = "put" => d.to = "create"
                       /\ d.op = "list" => d = c
  BY <1>2 DEF ListOK
<1>5. ASSUME NEW d \in calls'
      PROVE  /\ d.op \notin {"latest", "deployed", "delete"}
             /\ d.op = "put" => d.to = "create"
             /\ d.op = "list" => d = c
  <2>1. CASE d \in calls
    BY <1>4, <2>1
  <2>2. ASSUME NEW e \in calls, d = [e EXCEPT !.live = FALSE], e.op \in Writes
        PROVE  /\ d.op \notin {"latest", "deployed", "delete"}
               /\ d.op = "put" => d.to = "create"
               /\ d.op # "list"
    <3>1. d.op = e.op /\ d.to = e.to
      BY <1>1, <2>2
    <3> QED BY <1>4, <2>2, <3>1 DEF Writes
  <2>3. CASE /\ d.op \in DialogReads \union Writes
             /\ d.op = "put" => d.to = "create" \/ row # None
             /\ d.op = "delete" => row # None
    BY <1>3, <2>3 DEF DialogReads, Writes
  <2> QED BY <2>1, <2>2, <2>3
<1> QED BY <1>3, <1>5

LEMMA NoListNeeded ==
  ASSUME \A c \in calls' : c.op # "list"
  PROVE  ListOK'
BY DEF ListOK

(* Where there is a row, or its record, the list has arrived.               *)
LEMMA ListArrived ==
  ASSUME ListOK, row # None \/ listed # None
           \/ \E c \in calls : c.op \in {"latest", "deployed", "delete"} \/ (c.op = "put" /\ c.to # "create")
  PROVE  \A c \in calls : c.op # "list"
BY DEF ListOK

-----------------------------------------------------------------------------
(* The editor.                                                              *)

LEMMA MergedType ==
  ASSUME NEW doc \in Docs, NEW over \in Overs
  PROVE  /\ Merged(doc, over) \in Docs /\ Merged(doc, over).rev = doc.rev
         /\ Merged(doc, over).over = IF over = NoOver THEN doc.over ELSE over
BY DEF Merged, Docs

LEMMA ShownType ==
  ASSUME editor \in Editors \union {None},
         NEW key \in Keys, NEW doc \in Docs, NEW over \in Overs,
         NEW e, e = Shown(key, doc, over)
  PROVE  /\ e \in Editors /\ e # None /\ e.key = key /\ ~ e.edited
         /\ e.over = (IF editor # None /\ editor.key = key THEN editor.over ELSE over)
         /\ e.doc = Merged(doc, e.over) /\ e.doc \in Docs
<1>1. CASE editor # None /\ editor.key = key
  <2>1. editor \in Editors /\ editor.over \in Overs
    BY <1>1 DEF Editors
  <2>2. Merged(doc, editor.over) \in Docs
    BY <2>1, MergedType
  <2>3. e = [editor EXCEPT !.doc = Merged(doc, editor.over), !.edited = FALSE]
    BY <1>1 DEF Shown
  <2>4. /\ e.key = key /\ ~ e.edited /\ e.over = editor.over
        /\ e.doc = Merged(doc, editor.over) /\ e \in Editors
    BY <1>1, <2>1, <2>2, <2>3 DEF Editors
  <2> QED BY <1>1, <2>2, <2>4, NoneAssumption
<1>2. CASE ~ (editor # None /\ editor.key = key)
  <2>1. Merged(doc, over) \in Docs
    BY MergedType
  <2>2. e = [key |-> key, over |-> over, doc |-> Merged(doc, over), edited |-> FALSE]
    BY <1>2 DEF Shown
  <2>3. /\ e.key = key /\ ~ e.edited /\ e.over = over
        /\ e.doc = Merged(doc, over) /\ e \in Editors
    BY <2>1, <2>2 DEF Editors
  <2> QED BY <1>2, <2>1, <2>3, NoneAssumption
<1> QED BY <1>1, <1>2

LEMMA FoundedType ==
  ASSUME NEW doc \in Docs
  PROVE  Founded(doc) \in Filters /\ Founded(doc) \in [pkg: Pkgs, rev: Revs]
BY DashboardAssumption DEF Founded, Docs, Filters

-----------------------------------------------------------------------------
(* What steps share.                                                        *)

LEMMA ClosedOK ==
  ASSUME IInv, NEW kept, Closed(kept),
         \A c \in kept : \/ c \in calls
                         \/ \E d \in calls : c = [d EXCEPT !.live = FALSE] /\ d.op \in Writes,
         \A c \in kept : c.op \notin DialogReads
  PROVE  DialogType' /\ DialogOK' /\ CallsOK' /\ sent' = sent /\ noted' \subseteq noted
<1>1. /\ calls' = kept /\ sent' = sent /\ dialog' = "closed" /\ filters' = NoFilters
      /\ template' = None /\ overwrites' = None /\ failed' = FALSE /\ editor' = None
      /\ offered' = FALSE /\ chosen' = None /\ noted' \subseteq noted
  BY DEF Closed
<1>2. DialogType' /\ DialogOK'
  BY <1>1 DEF DialogType, DialogOK, Kinds, Filters, NoFilters
<1>3. sent \in Nat /\ CallsOK
  BY DashboardAssumption DEF IInv, PageType
<1>4. CallsOK'
  <2>1. sent' \in Nat /\ sent <= sent'
    BY <1>1, <1>3
  <2> QED BY <1>1, <1>3, <2>1, CallsStep
<1> QED BY <1>1, <1>2, <1>4

LEMMA SentBounds ==
  ASSUME IInv
  PROVE  sent \in Nat /\ MaxSent \in Nat /\ sent <= MaxSent /\ CallsOK
BY DashboardAssumption DEF IInv, PageType

LEMMA RowBecomesOK ==
  ASSUME IInv, NEW new \in Docs \union {None}, NEW kept, kept \subseteq calls,
         \A c \in kept : c.op # "list", RowBecomes(new, kept)
  PROVE  /\ row' = new /\ sent' \in 0..MaxSent /\ noted' \subseteq Notes
         /\ DialogType' /\ DialogOK' /\ CallsOK' /\ ListOK'
<1>1. sent \in Nat /\ MaxSent \in Nat /\ sent <= MaxSent /\ CallsOK
  BY SentBounds
<1>2. row' = new
  BY DEF RowBecomes
<1>3. DialogType /\ DialogOK /\ noted \subseteq Notes /\ "moved" \in Notes
  BY DEF IInv, PageType, Notes
<1>4. \A c \in kept : c \in calls /\ CallType(c)
  BY <1>1 DEF CallsOK
<1>5. ASSUME NEW d \in calls, NEW c, c = [d EXCEPT !.live = FALSE]
      PROVE  c.op = d.op
  BY <1>1, <1>5 DEF CallsOK, CallType
<1>a. CASE /\ new # None /\ dialog = "edit"
           /\ filters' = Founded(new)
           /\ SendAfter(kept, CallsOf(Founded(new)))
           /\ Note({"moved"})
           /\ UNCHANGED <<dialog, template, overwrites, failed, editor, offered, chosen>>
  <2>1. Founded(new) \in Filters /\ Founded(new) \in [pkg: Pkgs, rev: Revs]
    BY <1>a, FoundedType
  <2>2. DialogType' /\ DialogOK'
    BY <1>2, <1>3, <1>a, <2>1 DEF DialogType, DialogOK
  <2>3. noted' \subseteq Notes
    BY <1>3, <1>a DEF Note
  <2>4. \/ sent' = sent + 1 /\ sent' <= MaxSent
           /\ calls' = kept \union {NewCall("revision", Founded(new))}
        \/ sent' = sent /\ calls' = kept
    BY <1>1, <1>a, <2>1, SelectSends
  <2>5. sent' \in Nat /\ sent <= sent' /\ sent' \in 0..MaxSent
    BY <1>1, <2>4
  <2>6. ASSUME NEW c \in calls', c \notin kept
        PROVE  CallType(c)' /\ CallArgs(c)' /\ c.op = "revision"
    <3>1. c = NewCall("revision", Founded(new)) /\ sent' = sent + 1 /\ "revision" \in Ops \ PageReads
      BY <2>4, <2>6 DEF Ops, DialogReads, PageReads
    <3>2. CallType(c)' /\ CallArgs(c)'
      BY <1>1, <1>a, <2>1, <3>1, CallNew
    <3> QED BY <3>1, <3>2 DEF NewCall
  <2>7. CallsOK'
    BY <1>1, <1>4, <1>a, <2>5, <2>6, CallsStep
  <2>8. \A c \in calls' : c.op # "list"
    BY <2>6
  <2> QED BY <1>2, <2>2, <2>3, <2>5, <2>7, <2>8, NoListNeeded
<1>b. CASE /\ new # None /\ dialog # "edit"
           /\ calls' = kept
           /\ UNCHANGED <<dialogVars, sent, noted>>
  <2>1. DialogType' /\ DialogOK'
    BY <1>2, <1>3, <1>b DEF DialogType, DialogOK, dialogVars
  <2>2. CallsOK'
    BY <1>1, <1>4, <1>b, CallsStep DEF dialogVars
  <2> QED BY <1>1, <1>2, <1>3, <1>b, <2>1, <2>2, NoListNeeded
<1>c. CASE /\ new = None /\ dialog \in {"edit", "history"}
           /\ Closed(Unheard(kept, OfRow))
  <2>1. /\ \A c \in Unheard(kept, OfRow) :
              c \in calls \/ \E d \in calls : c = [d EXCEPT !.live = FALSE] /\ d.op \in Writes
        /\ \A c \in Unheard(kept, OfRow) : c.op \notin DialogReads
    BY <1>4, UnheardRow
  <2>2. \A c \in Unheard(kept, OfRow) : c.op # "list"
    BY <1>4, <1>5, UnheardRow DEF Writes
  <2>3. calls' = Unheard(kept, OfRow)
    BY <1>c DEF Closed
  <2> HIDE DEF Unheard
  <2>4. DialogType' /\ DialogOK' /\ CallsOK' /\ sent' = sent /\ noted' \subseteq noted
    BY <1>c, <2>1, ClosedOK
  <2> QED BY <1>1, <1>2, <1>3, <2>2, <2>3, <2>4, NoListNeeded
<1>d. CASE /\ new = None /\ dialog \notin {"edit", "history"}
           /\ calls' = Unheard(kept, LAMBDA c : OfRow(c) /\ ~OfDialog(c))
           /\ UNCHANGED <<dialogVars, sent, noted>>
  <2>1. \A c \in calls' :
           c \in kept \/ \E d \in kept : c = [d EXCEPT !.live = FALSE] /\ d.op \in Writes
    BY <1>d, UnheardWrites
  <2>2. \A c \in calls' : c.op # "list"
    BY <1>4, <1>5, <2>1 DEF Writes
  <2>3. dialog' = dialog /\ sent' = sent /\ noted' = noted
    BY <1>d DEF dialogVars
  <2>4. CallsOK'
    BY <1>1, <1>4, <2>1, <2>3, CallsStep
  <2>5. DialogType' /\ DialogOK'
    BY <1>2, <1>3, <1>d DEF DialogType, DialogOK, dialogVars
  <2> QED BY <1>1, <1>2, <1>3, <2>2, <2>3, <2>4, <2>5, NoListNeeded
<1> QED BY <1>a, <1>b, <1>c, <1>d DEF RowBecomes

-----------------------------------------------------------------------------
(* Each action preserves the invariant.                                     *)

LEMMA InitIInv == Init => IInv
<1> SUFFICES ASSUME Init PROVE IInv
  OBVIOUS
<1>1. PageType /\ DialogType /\ DialogOK
  <2>1. server \in Docs \union {None} /\ 0 \in 0..MaxSent /\ NoFilters \in Filters
    BY DashboardAssumption DEF Init, Filters, NoFilters
  <2> QED BY <2>1 DEF Init, PageType, DialogType, DialogOK, Kinds
<1> DEFINE l == [op |-> "list", arg |-> None, to |-> "closed", n |-> 1,
                 served |-> FALSE, answer |-> None, live |-> TRUE]
<1>2. calls = {l} /\ sent = 0 /\ row = None /\ listed = None
  BY DEF Init
<1>3. CallType(l) /\ CallArgs(l) /\ l.op = "list"
  BY DEF CallType, CallArgs, Ops, PageReads, Writes
<1> HIDE DEF l
<1>4. CallsOK
  BY <1>2, <1>3 DEF CallsOK
<1>5. ListOK
  BY <1>2, <1>3 DEF ListOK
<1> QED BY <1>1, <1>4, <1>5 DEF IInv

(* What a dialog sends: the requests and the bound on them.                 *)
LEMMA SentOK ==
  ASSUME IInv, NEW op \in Ops \ PageReads, NEW arg, SendAfter(calls, <<<<op, arg>>>>),
         dialog' = dialog \/ dialog = "closed",
         op = "put" => arg \in Docs /\ dialog \in Kinds \ {"closed"},
         op = "delete" \/ (op = "put" /\ dialog # "create") => row # None,
         op = "revision" => dialog' \in {"edit", "create"} /\ arg \in [pkg: Pkgs, rev: Revs],
         op = "history" => dialog' = "history",
         row' = row, listed' = listed
  PROVE  CallsOK' /\ ListOK' /\ sent' \in 0..MaxSent
<1>1. sent \in Nat /\ MaxSent \in Nat /\ sent <= MaxSent /\ CallsOK
  BY SentBounds
<1>2. sent' = sent + 1 /\ sent' <= MaxSent /\ calls' = calls \union {NewCall(op, arg)}
  BY <1>1, SendOne
<1>3. sent' \in Nat /\ sent <= sent' /\ sent' \in 0..MaxSent
  BY <1>1, <1>2
<1>4. \A c \in calls : c.op \in DialogReads => dialog # "closed"
  BY <1>1 DEF CallsOK, CallArgs, DialogReads
<1>5. ASSUME NEW c, c = NewCall(op, arg)
      PROVE  CallType(c)' /\ CallArgs(c)'
  BY <1>1, <1>2, <1>5, CallNew
<1>6. CallsOK'
  BY <1>1, <1>2, <1>3, <1>4, <1>5, CallsStep
<1>7. ASSUME NEW c, c = NewCall(op, arg)
      PROVE  /\ c.op \in DialogReads \union Writes
             /\ c.op = "put" => c.to = "create" \/ row # None
             /\ c.op = "delete" => row # None
  BY <1>7 DEF NewCall, Ops
<1>8. ListOK /\ \A c \in calls' : c \in calls \/ c = NewCall(op, arg)
  BY <1>2 DEF IInv
<1>9. ListOK'
  BY <1>1, <1>7, <1>8, ListStep
<1> QED BY <1>3, <1>6, <1>9

LEMMA CallsKept ==
  ASSUME IInv, calls' \subseteq calls, sent' = sent, row' = row, listed' = listed,
         dialog' = dialog \/ dialog = "closed"
  PROVE  CallsOK' /\ ListOK'
<1>1. sent \in Nat /\ CallsOK /\ ListOK
  BY SentBounds DEF IInv
<1>2. \A c \in calls : c.op \in DialogReads => dialog # "closed"
  BY <1>1 DEF CallsOK, CallArgs, DialogReads
<1>3. CallsOK'
  BY <1>1, <1>2, CallsStep
<1>4. ListOK'
  BY <1>1, ListStep
<1> QED BY <1>3, <1>4

LEMMA EditDocStep == IInv /\ EditDoc => IInv'
<1> SUFFICES ASSUME IInv, EditDoc PROVE IInv'
  OBVIOUS
<1>1. editor # None /\ editor \in Editors
  BY DEF EditDoc, IInv, DialogType
<1>2. PICK doc \in Docs : /\ editor.doc # None => doc.rev = editor.doc.rev
                          /\ editor' = [editor EXCEPT !.doc = doc, !.edited = TRUE]
  BY DEF EditDoc
<1>3. editor' \in Editors /\ editor'.doc = doc
  BY <1>1, <1>2 DEF Editors
<1>4. /\ UNCHANGED <<server, listed, row, dialog, filters, template, overwrites,
                     failed, offered, chosen, calls, sent, faults, noted>>
  BY DEF EditDoc
<1>5. editor' # None /\ doc # None
  BY <1>3, NoneAssumption
<1>6. PageType' /\ DialogType'
  BY <1>3, <1>4 DEF IInv, PageType, DialogType
<1>7. DialogOK'
  <2>1. dialog # "closed"
    BY <1>1 DEF IInv, DialogOK
  <2>2. template # None => doc.rev = template
    BY <1>2 DEF IInv, DialogOK
  <2> QED BY <1>3, <1>4, <1>5, <2>1, <2>2 DEF IInv, DialogOK
<1>8. CallsOK' /\ ListOK'
  BY <1>4, CallsKept
<1> QED BY <1>6, <1>7, <1>8 DEF IInv

LEMMA SubmitStep == IInv /\ Submit => IInv'
<1> SUFFICES ASSUME IInv, Submit PROVE IInv'
  OBVIOUS
<1>1. editor # None /\ editor.doc # None /\ SendAfter(calls, <<<<"put", editor.doc>>>>)
      /\ UNCHANGED <<server, listed, row, dialogVars, faults>>
  BY DEF Submit, Send
<1>2. editor.doc \in Docs /\ dialog \in Kinds \ {"closed"} /\ (dialog # "create" => row # None)
  BY <1>1 DEF IInv, DialogType, DialogOK, Editors, Kinds
<1>3. noted' \subseteq Notes
  BY DEF IInv, PageType, Submit, Note, Early, Notes
<1>4. "put" \in Ops \ PageReads
  BY DEF Ops, Writes, PageReads
<1>5. dialog' = dialog /\ row' = row /\ listed' = listed
  BY <1>1 DEF dialogVars
<1>6. CallsOK' /\ ListOK' /\ sent' \in 0..MaxSent
  BY <1>1, <1>2, <1>4, <1>5, SentOK
<1>7. PageType' /\ DialogType' /\ DialogOK'
  BY <1>1, <1>3, <1>6 DEF IInv, PageType, DialogType, DialogOK, dialogVars
<1> QED BY <1>6, <1>7 DEF IInv

LEMMA OpenEditStep == IInv /\ OpenEdit => IInv'
<1> SUFFICES ASSUME IInv, OpenEdit PROVE IInv'
  OBVIOUS
<1>1. /\ row # None /\ SendAfter(calls, CallsOf(Founded(row))) /\ chosen' = None
      /\ dialog = "closed" /\ dialog' = "edit" /\ filters' = Founded(row)
      /\ template' = None /\ overwrites' = None /\ failed' = FALSE /\ editor' = None
      /\ offered' = FALSE /\ UNCHANGED <<server, listed, row, faults, noted>>
  BY DEF OpenEdit, OpenDialog
<1>2. row \in Docs
  BY <1>1 DEF IInv, PageType
<1>3. Founded(row) \in Filters /\ Founded(row) \in [pkg: Pkgs, rev: Revs]
  BY <1>2, FoundedType
<1>4. CallsOf(Founded(row)) = <<<<"revision", Founded(row)>>>>
  BY <1>3, DashboardAssumption DEF CallsOf
<1>5. "revision" \in Ops \ PageReads
  BY DEF Ops, DialogReads, PageReads
<1>6. CallsOK' /\ ListOK' /\ sent' \in 0..MaxSent
  BY <1>1, <1>3, <1>4, <1>5, SentOK
<1>7. PageType' /\ DialogType' /\ DialogOK'
  BY <1>1, <1>3, <1>6 DEF IInv, PageType, DialogType, DialogOK, Kinds
<1> QED BY <1>6, <1>7 DEF IInv

LEMMA OpenCreateStep == IInv /\ OpenCreate => IInv'
<1> SUFFICES ASSUME IInv, OpenCreate PROVE IInv'
  OBVIOUS
<1> DEFINE blank == [key |-> <<>>, over |-> NoOver, doc |-> None, edited |-> FALSE]
<1>1. /\ UNCHANGED <<calls, sent>> /\ chosen' = None
      /\ dialog = "closed" /\ dialog' = "create" /\ filters' = NoFilters
      /\ template' = None /\ overwrites' = None /\ failed' = FALSE /\ editor' = blank
      /\ offered' = FALSE /\ UNCHANGED <<server, listed, row, faults, noted>>
  BY DEF OpenCreate, OpenDialog
<1>2. blank \in Editors
  BY DashboardAssumption DEF Editors, Keys
<1> HIDE DEF blank
<1>3. NoFilters \in Filters /\ blank # None
  BY <1>2, NoneAssumption DEF Filters, NoFilters
<1>4. CallsOK' /\ ListOK'
  BY <1>1, CallsKept
<1>5. PageType' /\ DialogType' /\ DialogOK'
  BY <1>1, <1>2, <1>3 DEF IInv, PageType, DialogType, DialogOK, Kinds
<1> QED BY <1>4, <1>5 DEF IInv

LEMMA OpenHistoryStep == IInv /\ OpenHistory => IInv'
<1> SUFFICES ASSUME IInv, OpenHistory PROVE IInv'
  OBVIOUS
<1> DEFINE shown == [key |-> <<row.rev, row.over>>, over |-> NoOver, doc |-> row,
                     edited |-> FALSE]
<1>1. /\ row # None /\ SendAfter(calls, <<<<"history", None>>>>) /\ chosen' = row
      /\ dialog = "closed" /\ dialog' = "history" /\ filters' = NoFilters
      /\ template' = None /\ overwrites' = None /\ failed' = FALSE /\ editor' = shown
      /\ offered' = FALSE /\ UNCHANGED <<server, listed, row, faults, noted>>
  BY DEF OpenHistory, OpenDialog, Send
<1>2. row \in Docs
  BY <1>1 DEF IInv, PageType
<1>3. shown \in Editors /\ shown.doc = row
  BY <1>2, DashboardAssumption DEF Editors, Keys, Docs
<1>4. NoFilters \in Filters /\ shown # None
  BY <1>3, NoneAssumption DEF Filters, NoFilters
<1>5. "history" \in Ops \ PageReads
  BY DEF Ops, DialogReads, PageReads
<1>6. CallsOK' /\ ListOK' /\ sent' \in 0..MaxSent
  BY <1>1, <1>5, SentOK
<1>7. editor' \in Editors /\ editor'.doc = row /\ editor' # None
  BY <1>1, <1>3, <1>4
<1> HIDE DEF shown
<1>8. PageType' /\ DialogType' /\ DialogOK'
  BY <1>1, <1>2, <1>4, <1>6, <1>7 DEF IInv, PageType, DialogType, DialogOK, Kinds
<1> QED BY <1>6, <1>8 DEF IInv

LEMMA ChooseEntryStep == ASSUME NEW e \in Docs PROVE IInv /\ ChooseEntry(e) => IInv'
<1> SUFFICES ASSUME IInv, ChooseEntry(e) PROVE IInv'
  OBVIOUS
<1> DEFINE k == <<e.rev, e.over>>
           d == [rev |-> e.rev, over |-> NoOver]
<1>1. /\ dialog = "history" /\ chosen' = e /\ editor' = Shown(k, d, e.over)
      /\ noted' \subseteq noted \union {"reselected"}
      /\ UNCHANGED <<server, listed, row, dialog, filters, template, overwrites,
                 failed, offered, calls, sent, faults>>
  BY DEF ChooseEntry
<1>2. k \in Keys /\ d \in Docs /\ e.over \in Overs /\ e # None
  <2>1. e.rev \in Revs /\ e.over \in Overs /\ NoOver \in Overs
    BY DashboardAssumption DEF Docs
  <2>2. d \in Docs
    BY <2>1 DEF Docs
  <2> QED BY <2>1, <2>2, NoneAssumption DEF Keys
<1> HIDE DEF k, d
<1>3. PICK s : s = Shown(k, d, e.over)
  OBVIOUS
<1>4. s \in Editors /\ s # None /\ s.doc \in Docs
  BY <1>2, <1>3, ShownType DEF IInv, DialogType
<1>5. editor' = s /\ s.doc # None
  BY <1>1, <1>3, <1>4, NoneAssumption
<1>6. CallsOK' /\ ListOK'
  BY <1>1, CallsKept
<1>7. PageType' /\ DialogType' /\ DialogOK'
  BY <1>1, <1>2, <1>4, <1>5 DEF IInv, PageType, DialogType, DialogOK, Notes
<1> QED BY <1>6, <1>7 DEF IInv

LEMMA CloseDialogStep == IInv /\ CloseDialog => IInv'
<1> SUFFICES ASSUME IInv, CloseDialog PROVE IInv'
  OBVIOUS
<1>1. Closed(Unheard(calls, OfDialog)) /\ UNCHANGED <<server, listed, row, faults>>
  BY DEF CloseDialog
<1>2. CallsOK /\ ListOK
  BY DEF IInv
<1>3. Unheard(calls, OfDialog) = {c \in calls : c.op \notin DialogReads}
  BY <1>2, UnheardDialog DEF CallsOK, CallType
<1>4. DialogType' /\ DialogOK' /\ CallsOK' /\ sent' = sent /\ noted' \subseteq noted
  BY <1>1, <1>3, ClosedOK
<1>5. calls' \subseteq calls
  BY <1>1, <1>3 DEF Closed
<1>6. ListOK'
  BY <1>1, <1>2, <1>5, ListStep
<1>7. PageType'
  BY <1>1, <1>4 DEF IInv, PageType
<1> QED BY <1>4, <1>6, <1>7 DEF IInv

LEMMA SelectStep ==
  ASSUME IInv, NEW f \in Filters, Select(f)
  PROVE  IInv'
<1>1. /\ dialog \in {"edit", "create"} /\ filters' = f /\ SendAfter(calls, CallsOf(f))
      /\ UNCHANGED <<server, listed, row, dialog, template, overwrites, failed,
                 editor, offered, chosen, faults, noted>>
  BY DEF Select, Send
<1>2. sent \in Nat /\ MaxSent \in Nat /\ sent <= MaxSent /\ CallsOK
  BY SentBounds
<1>3. CallsOK' /\ ListOK' /\ sent' \in 0..MaxSent
  <2>1. CASE f.pkg # None /\ f.rev # None
    <3>1. f \in [pkg: Pkgs, rev: Revs] /\ "revision" \in Ops \ PageReads
      BY <2>1 DEF Filters, Ops, DialogReads, PageReads
    <3>2. SendAfter(calls, <<<<"revision", f>>>>)
      BY <1>1, <2>1 DEF CallsOf
    <3> QED BY <1>1, <3>1, <3>2, SentOK
  <2>2. CASE f.pkg = None \/ f.rev = None
    <3>1. sent' = sent /\ calls' = calls
      BY <1>1, <1>2, <2>2, SendNone DEF CallsOf
    <3>2. CallsOK' /\ ListOK'
      BY <1>1, <3>1, CallsKept
    <3> QED BY <1>2, <3>1, <3>2
  <2> QED BY <2>1, <2>2
<1>4. PageType' /\ DialogType' /\ DialogOK'
  BY <1>1, <1>3 DEF IInv, PageType, DialogType, DialogOK
<1> QED BY <1>3, <1>4 DEF IInv

LEMMA SelectsStep == IInv /\ (SelectPkg \/ SelectChannel \/ SelectRev) => IInv'
<1> SUFFICES ASSUME IInv, SelectPkg \/ SelectChannel \/ SelectRev PROVE IInv'
  OBVIOUS
<1>1. filters \in Filters
  BY DEF IInv, DialogType
<1>2. CASE SelectPkg
  <2>1. PICK p \in Pkgs : Select([filters EXCEPT !.pkg = p])
    BY <1>2 DEF SelectPkg
  <2>2. [filters EXCEPT !.pkg = p] \in Filters
    BY <1>1 DEF Filters
  <2> QED BY <2>1, <2>2, SelectStep
<1>3. CASE SelectChannel
  BY <1>1, <1>3, SelectStep DEF SelectChannel
<1>4. CASE SelectRev
  <2>1. PICK r \in Revs : Select([filters EXCEPT !.rev = r])
    BY <1>4 DEF SelectRev
  <2>2. [filters EXCEPT !.rev = r] \in Filters
    BY <1>1 DEF Filters
  <2> QED BY <2>1, <2>2, SelectStep
<1> QED BY <1>2, <1>3, <1>4

LEMMA DeleteStep == IInv /\ Delete => IInv'
<1> SUFFICES ASSUME IInv, Delete PROVE IInv'
  OBVIOUS
<1>1. /\ SendAfter(calls, <<<<"delete", None>>>>) /\ row # None
      /\ UNCHANGED <<server, listed, row, dialogVars, faults>>
  BY DEF Delete, Send
<1>2. "delete" \in Ops \ PageReads
  BY DEF Ops, Writes, PageReads
<1>3. dialog' = dialog /\ row' = row /\ listed' = listed
  BY <1>1 DEF dialogVars
<1>4. CallsOK' /\ ListOK' /\ sent' \in 0..MaxSent
  BY <1>1, <1>2, <1>3, SentOK
<1>5. noted' \subseteq Notes
  BY DEF IInv, PageType, Delete, Note, Early, Notes
<1>6. PageType' /\ DialogType' /\ DialogOK'
  BY <1>1, <1>4, <1>5 DEF IInv, PageType, DialogType, DialogOK, dialogVars
<1> QED BY <1>4, <1>6 DEF IInv

(* The editor of a dialog that puts, once a template is there.              *)
LEMMA PutEditorType ==
  ASSUME IInv, NEW r \in Revs, NEW o \in Overs \union {None}, NEW e, e = PutEditor(r, o)
  PROVE  /\ e \in Editors /\ e # None /\ e.key = <<r>> /\ ~ e.edited
         /\ e.over = (IF editor # None /\ editor.key = <<r>> THEN editor.over
                      ELSE IF dialog = "edit" /\ o # None THEN o ELSE NoOver)
         /\ e.doc \in Docs /\ e.doc # None /\ e.doc.rev = r /\ e.doc.over = e.over
<1> DEFINE d == [rev |-> r, over |-> NoOver]
           k == <<r>>
           y == IF dialog = "edit" /\ o # None THEN o ELSE NoOver
<1>1. d \in Docs /\ d.rev = r /\ d.over = NoOver /\ NoOver \in Overs
  BY DashboardAssumption DEF Docs
<1>2. y \in Overs /\ k \in Keys
  BY <1>1 DEF Keys
<1>3. e = Shown(k, d, y) /\ editor \in Editors \union {None}
  BY DEF PutEditor, IInv, DialogType
<1> HIDE DEF d, k, y
<1>4. PICK x : x = IF editor # None /\ editor.key = k THEN editor.over ELSE y
  OBVIOUS
<1>5. /\ e \in Editors /\ e # None /\ e.key = k /\ ~ e.edited
      /\ e.over = x /\ e.doc = Merged(d, x) /\ e.doc \in Docs
  BY <1>1, <1>2, <1>3, <1>4, ShownType
<1>6. x \in Overs
  BY <1>2, <1>3, <1>4 DEF Editors
<1>7. Merged(d, x).rev = r /\ Merged(d, x).over = x
  BY <1>1, <1>6, MergedType
<1>8. e.doc # None
  BY <1>5, NoneAssumption
<1> QED BY <1>4, <1>5, <1>7, <1>8 DEF k, y

LEMMA RevisionAnsweredStep ==
  ASSUME IInv, NEW c \in calls, RevisionAnswered(c)
  PROVE  IInv'
<1>1. /\ c.op = "revision" /\ template' = c.arg.rev /\ failed' = FALSE
      /\ overwrites' = IF dialog = "edit" /\ row.rev = c.arg.rev THEN row.over ELSE overwrites
      /\ editor' = PutEditor(c.arg.rev, overwrites')
      /\ calls' = calls \ {c}
      /\ noted' = noted \union Overtakes(c)
      /\ UNCHANGED <<server, listed, row, dialog, filters, offered, chosen, sent, faults>>
  BY DEF RevisionAnswered, Note
<1>2. dialog \in {"edit", "create"} /\ c.arg \in [pkg: Pkgs, rev: Revs]
  BY <1>1 DEF IInv, CallsOK, CallArgs
<1>3. c.arg.rev \in Revs /\ c.arg.rev # None
  BY <1>2, DashboardAssumption
<1>4. dialog = "edit" => row \in Docs /\ row.over \in Overs
  BY DEF IInv, DialogOK, PageType, Docs
<1>5. overwrites' \in Overs \union {None}
  BY <1>1, <1>4 DEF IInv, DialogType
<1>6. PICK o \in Overs \union {None} : o = overwrites'
  BY <1>5
<1>7. PICK r \in Revs : r = c.arg.rev
  BY <1>3
<1>8. /\ PutEditor(r, o) \in Editors /\ PutEditor(r, o) # None
      /\ PutEditor(r, o).doc # None /\ PutEditor(r, o).doc.rev = r
  BY PutEditorType
<1>9. editor' = PutEditor(r, o)
  BY <1>1, <1>6, <1>7
<1>10. noted' \subseteq Notes
  BY <1>1 DEF IInv, PageType, Overtakes, Notes
<1>11. CallsOK' /\ ListOK'
  BY <1>1, CallsKept
<1>12. PageType' /\ DialogType'
  BY <1>1, <1>3, <1>5, <1>7, <1>8, <1>9, <1>10 DEF IInv, PageType, DialogType
<1>13. DialogOK'
  BY <1>1, <1>2, <1>3, <1>7, <1>8, <1>9 DEF IInv, DialogOK
<1> QED BY <1>11, <1>12, <1>13 DEF IInv

LEMMA RevisionFailedStep ==
  ASSUME IInv, NEW c \in calls, RevisionFailed(c)
  PROVE  IInv'
<1>1. /\ failed' = TRUE /\ calls' = calls \ {c}
      /\ noted' = noted \union (Overtakes(c) \union Unfounds(c))
      /\ UNCHANGED <<server, listed, row, dialog, filters, template, overwrites,
                 editor, offered, chosen, sent>>
  BY DEF RevisionFailed, Note
<1>2. noted' \subseteq Notes
  BY <1>1 DEF IInv, PageType, Overtakes, Unfounds, Notes
<1>3. CallsOK' /\ ListOK'
  BY <1>1, CallsKept
<1>4. PageType' /\ DialogType' /\ DialogOK'
  BY <1>1, <1>2 DEF IInv, PageType, DialogType, DialogOK
<1> QED BY <1>3, <1>4 DEF IInv

LEMMA HistoryAnsweredStep ==
  ASSUME IInv, NEW c \in calls, HistoryAnswered(c)
  PROVE  IInv'
<1>1. /\ offered' = TRUE /\ calls' = calls \ {c}
      /\ UNCHANGED <<server, listed, row, dialog, filters, template, overwrites,
                 failed, editor, chosen, sent, faults, noted>>
  BY DEF HistoryAnswered
<1>2. CallsOK' /\ ListOK'
  BY <1>1, CallsKept
<1>3. PageType' /\ DialogType' /\ DialogOK'
  BY <1>1 DEF IInv, PageType, DialogType, DialogOK
<1> QED BY <1>2, <1>3 DEF IInv

(* An answer that changes nothing of the page.                              *)
LEMMA DroppedStep ==
  ASSUME IInv, NEW c \in calls, calls' = calls \ {c},
         UNCHANGED <<server, listed, row, dialogVars, sent, noted>>
  PROVE  IInv'
<1>1. CallsOK' /\ ListOK'
  BY CallsKept DEF dialogVars
<1>2. PageType' /\ DialogType' /\ DialogOK'
  BY DEF IInv, PageType, DialogType, DialogOK, dialogVars
<1> QED BY <1>1, <1>2 DEF IInv

LEMMA ListAnsweredStep ==
  ASSUME IInv, NEW c \in calls, ListAnswered(c)
  PROVE  IInv'
<1>1. /\ c.op = "list" /\ listed' = c.answer /\ row' = c.answer
      /\ UNCHANGED <<server, dialogVars, sent, faults, noted>>
      /\ \A d \in calls' : \/ d \in calls /\ d # c
                           \/ d = NewCall("latest", None)
                           \/ d = NewCall("deployed", None)
  BY DEF ListAnswered
<1>2. sent \in Nat /\ CallsOK /\ ListOK
  BY SentBounds DEF IInv
<1>3. c.answer \in Docs \union {None}
  BY <1>1, <1>2 DEF CallsOK, CallArgs
<1>4. row = None /\ \A d \in calls : d.op \notin {"latest", "deployed", "delete"} /\ (d.op = "list" => d = c)
  BY <1>1, <1>2 DEF ListOK
<1>5. dialog' = dialog /\ sent' = sent
  BY <1>1 DEF dialogVars
<1>6. ASSUME NEW op \in {"latest", "deployed"}, NEW d, d = NewCall(op, None)
      PROVE  CallType(d)' /\ CallArgs(d)' /\ d.op = op
  <2>1. op \in Ops /\ op \in PageReads
    BY DEF Ops, PageReads
  <2>2. \A e \in calls : e.op # op
    BY <1>4
  <2>3. /\ d = [op |-> op, arg |-> None, to |-> IF op = "put" THEN dialog ELSE "closed",
                n |-> d.n, served |-> FALSE, answer |-> None, live |-> TRUE]
        /\ d.n = 1
    BY <1>2, <1>6, <2>1, <2>2, NewCallType
  <2>4. d.op = op /\ d.served = FALSE /\ d.live = TRUE
    BY <2>3
  <2>5. d = [op |-> d.op, arg |-> d.arg, to |-> d.to, n |-> d.n, served |-> d.served,
             answer |-> d.answer, live |-> d.live]
    BY <2>3
  <2>6. CallType(d)'
    <3>1. d.op \in Ops /\ d.op \in PageReads /\ d.n = 1 /\ 1 \in Nat \ {0}
      BY <2>1, <2>3, <2>4
    <3>2. d.served \in BOOLEAN /\ d.live \in BOOLEAN
      BY <2>4
    <3> QED BY <2>5, <3>1, <3>2 DEF CallType
  <2>7. CallArgs(d)'
    BY <2>1, <2>4 DEF CallArgs, Writes
  <2> QED BY <2>4, <2>6, <2>7
<1>7. CallsOK'
  BY <1>1, <1>2, <1>5, <1>6, CallsStep
<1>8. ListOK'
  <2>1. \A d \in calls' : d.op # "list"
    BY <1>1, <1>4, <1>6
  <2> QED BY <2>1, NoListNeeded
<1>9. dialog \notin {"edit", "history"}
  BY <1>4 DEF IInv, DialogOK
<1>10. PageType' /\ DialogType' /\ DialogOK'
  BY <1>1, <1>3, <1>9 DEF IInv, PageType, DialogType, DialogOK, dialogVars
<1> QED BY <1>7, <1>8, <1>10 DEF IInv

(* An answer that may change the record of the row.                         *)
LEMMA AnswerStep ==
  ASSUME IInv, NEW c \in calls, \A d \in calls : d.op # "list",
         NEW new \in Docs \union {None}, RowBecomes(new, calls \ {c}),
         UNCHANGED <<server, listed>>
  PROVE  IInv'
<1>1. /\ row' = new /\ sent' \in 0..MaxSent /\ noted' \subseteq Notes
      /\ DialogType' /\ DialogOK' /\ CallsOK' /\ ListOK'
  BY RowBecomesOK
<1> QED BY <1>1 DEF IInv, PageType

LEMMA RefreshedStep ==
  ASSUME IInv, NEW c \in calls, LatestAnswered(c) \/ DeployedAnswered(c)
  PROVE  IInv'
<1>1. /\ c.op \in {"latest", "deployed"} /\ UNCHANGED <<server, listed, faults>>
      /\ \/ RowBecomes(listed, calls \ {c})
         \/ calls' = calls \ {c} /\ UNCHANGED <<row, dialogVars, sent, noted>>
  BY DEF LatestAnswered, DeployedAnswered
<1>2. \A d \in calls : d.op # "list"
  BY <1>1, ListArrived DEF IInv
<1>3. PICK new \in Docs \union {None} : new = listed
  BY DEF IInv, PageType
<1>4. CASE RowBecomes(listed, calls \ {c})
  BY <1>1, <1>2, <1>3, <1>4, AnswerStep
<1>5. CASE calls' = calls \ {c} /\ UNCHANGED <<row, dialogVars, sent, noted>>
  BY <1>1, <1>5, DroppedStep
<1> QED BY <1>1, <1>4, <1>5

LEMMA PutAnsweredStep ==
  ASSUME IInv, NEW c \in calls, PutAnswered(c)
  PROVE  IInv'
<1>1. c.op = "put" /\ c.answer # None /\ UNCHANGED <<server, listed, faults>>
  BY DEF PutAnswered
<1>2. CallsOK /\ ListOK /\ c.answer \in Docs
  BY <1>1 DEF IInv, CallsOK, CallArgs
<1>3. c.to # "create" => \A d \in calls : d.op # "list"
  BY <1>1, <1>2, ListArrived
<1>4. Unheard(calls \ {c}, OfDialog) = {d \in calls \ {c} : d.op \notin DialogReads}
  BY <1>2, UnheardDialog DEF CallsOK, CallType
<1>5. CASE c.live /\ dialog = c.to
  <2>1. /\ Closed(Unheard(calls \ {c}, OfDialog))
        /\ row' = IF c.to # "create" THEN c.answer ELSE row
    BY <1>5 DEF PutAnswered
  <2>2. DialogType' /\ DialogOK' /\ CallsOK' /\ sent' = sent /\ noted' \subseteq noted
    BY <1>4, <2>1, ClosedOK
  <2>3. calls' \subseteq calls
    BY <1>4, <2>1 DEF Closed
  <2>4. ListOK'
    <3>1. CASE c.to = "create"
      BY <1>1, <1>2, <2>1, <2>3, <3>1, ListStep
    <3>2. CASE c.to # "create"
      BY <1>3, <2>3, <3>2, NoListNeeded
    <3> QED BY <3>1, <3>2
  <2>5. PageType'
    BY <1>1, <1>2, <2>1, <2>2 DEF IInv, PageType
  <2> QED BY <2>2, <2>4, <2>5 DEF IInv
<1>6. CASE c.live /\ dialog # c.to /\ c.to # "create"
  <2>1. row' = c.answer /\ RowBecomes(row', calls \ {c})
    BY <1>6 DEF PutAnswered
  <2>2. PICK new \in Docs \union {None} : new = c.answer
    BY <1>2
  <2>3. RowBecomes(new, calls \ {c})
    BY <2>1, <2>2
  <2> QED BY <1>1, <1>3, <1>6, <2>3, AnswerStep
<1>7. CASE ~ c.live \/ (c.to = "create" /\ dialog # c.to)
  BY <1>1, <1>7, DroppedStep DEF PutAnswered
<1> QED BY <1>5, <1>6, <1>7

LEMMA DeleteAnsweredStep ==
  ASSUME IInv, NEW c \in calls, DeleteAnswered(c)
  PROVE  IInv'
<1>1. CASE ~ c.live
  BY <1>1, DroppedStep DEF DeleteAnswered
<1>2. CASE c.live
  <2>1. RowBecomes(None, calls \ {c}) /\ UNCHANGED <<server, listed>>
    BY <1>2 DEF DeleteAnswered
  <2>2. \A d \in calls : d.op # "list"
    BY ListArrived DEF DeleteAnswered, IInv
  <2>3. PICK new \in Docs \union {None} : new = None
    OBVIOUS
  <2> QED BY <2>1, <2>2, <2>3, AnswerStep
<1> QED BY <1>1, <1>2

LEMMA IgnoredStep ==
  ASSUME IInv, NEW c \in calls, Ignored(c)
  PROVE  IInv'
BY DroppedStep DEF Ignored

(* What the server does with a write.                                       *)
LEMMA EffectType ==
  ASSUME IInv, NEW c \in calls, Effect(c) \/ UNCHANGED server
  PROVE  server' \in Docs \union {None}
<1>1. c.op = "put" => c.arg \in Docs
  BY DEF IInv, CallsOK, CallArgs
<1> QED BY <1>1 DEF Effect, IInv, PageType

LEMMA ServedOK ==
  ASSUME IInv, NEW c \in calls, c.op \in Writes \union {"list"},
         NEW a, c.op = "put" => a \in {None, c.arg}, c.op = "delete" => a \in {None, TRUE},
         c.op = "list" => a \in Docs \union {None},
         NEW u, u = [c EXCEPT !.served = TRUE, !.answer = a],
         calls' = (calls \ {c}) \union {u},
         UNCHANGED <<listed, row, dialogVars, sent>>
  PROVE  CallsOK' /\ ListOK'
<1>1. sent \in Nat /\ CallsOK /\ ListOK /\ CallType(c) /\ CallArgs(c)
  BY SentBounds DEF IInv, CallsOK
<1>2. u = [op |-> c.op, arg |-> c.arg, to |-> c.to, n |-> c.n, served |-> TRUE,
           answer |-> a, live |-> c.live]
  BY <1>1 DEF CallType
<1>3. /\ u.op = c.op /\ u.arg = c.arg /\ u.to = c.to /\ u.n = c.n /\ u.served
      /\ u.answer = a /\ u.live = c.live
  BY <1>2
<1>4. u.served = TRUE
  BY <1>2
<1>5. CallType(u)'
  <2>1. u = [op |-> u.op, arg |-> u.arg, to |-> u.to, n |-> u.n, served |-> u.served,
             answer |-> u.answer, live |-> u.live]
    BY <1>2
  <2>2. c.op \in Ops /\ c.n \in Nat \ {0} /\ c.live \in BOOLEAN
        /\ IF c.op \in PageReads THEN c.n = 1 ELSE c.n <= sent
    BY <1>1 DEF CallType
  <2> QED BY <1>3, <1>4, <2>1, <2>2 DEF CallType
<1>6. CallArgs(u)'
  BY <1>1, <1>3 DEF CallArgs, Writes
<1>7. dialog' = dialog /\ row' = row /\ listed' = listed /\ sent' = sent
  BY DEF dialogVars
<1>8. CallsOK'
  BY <1>1, <1>5, <1>6, <1>7, CallsStep
<1>9. CASE c.op = "list"
  <2>1. /\ row = None /\ listed = None
        /\ \A d \in calls : /\ d.op \notin {"latest", "deployed", "delete"}
                            /\ d.op = "put" => d.to = "create"
                            /\ d.op = "list" => d = c
    BY <1>1, <1>9 DEF ListOK
  <2>2. \A d \in calls' : (d \in calls /\ d # c) \/ d = u
    OBVIOUS
  <2> QED BY <1>3, <1>7, <1>8, <1>9, <2>1, <2>2 DEF ListOK
<1>10. CASE c.op \in Writes
  <2>1. c.op = "put" /\ c.to # "create" => \A d \in calls : d.op # "list"
    BY <1>1, ListArrived
  <2>2. c.op = "delete" => \A d \in calls : d.op # "list"
    BY <1>1, ListArrived
  <2>3. u.op # "list"
    BY <1>3, <1>10 DEF Writes
  <2>4. CASE \A d \in calls : d.op # "list"
    <3>1. \A d \in calls' : d.op # "list"
      BY <2>3, <2>4
    <3> QED BY <1>8, <3>1, NoListNeeded
  <2>5. CASE c.op = "put" /\ c.to = "create"
    <3>1. u.op = "put" /\ u.to = "create"
      BY <1>3, <2>5
    <3>2. \A d \in calls' : d \in calls \/ (d.op \in DialogReads \union Writes /\ d.op = "put" /\ d.to = "create")
      BY <3>1 DEF Writes
    <3>3. ListOK'
      BY <1>1, <1>7, <3>2, ListStep
    <3> QED BY <1>8, <3>3
  <2> QED BY <1>8, <1>10, <2>1, <2>2, <2>4, <2>5 DEF Writes
<1> QED BY <1>8, <1>9, <1>10

LEMMA ServeStep ==
  ASSUME IInv, NEW c \in calls, Serve(c)
  PROVE  IInv'
<1>1. /\ c.op \in Writes \union {"list"} /\ Effect(c)
      /\ calls' = (calls \ {c}) \union {[c EXCEPT !.served = TRUE, !.answer = Read(c)]}
      /\ UNCHANGED <<listed, row, dialogVars, sent, faults, noted>>
  BY DEF Serve
<1>2. PICK a : a = Read(c)
  OBVIOUS
<1>3. /\ c.op = "put" => a \in {None, c.arg}
      /\ c.op = "delete" => a \in {None, TRUE}
      /\ c.op = "list" => a \in Docs \union {None}
  BY <1>2 DEF Read, IInv, PageType
<1>4. CallsOK' /\ ListOK'
  BY <1>1, <1>2, <1>3, ServedOK
<1>5. server' \in Docs \union {None}
  BY <1>1, EffectType
<1>6. PageType' /\ DialogType' /\ DialogOK'
  BY <1>1, <1>5 DEF IInv, PageType, DialogType, DialogOK, dialogVars
<1> QED BY <1>4, <1>6 DEF IInv

LEMMA FailStep ==
  ASSUME IInv, NEW c \in calls, Fail(c)
  PROVE  IInv'
<1>1. /\ c.op \in Writes /\ (Effect(c) \/ UNCHANGED server)
      /\ calls' = (calls \ {c}) \union {[c EXCEPT !.served = TRUE]}
      /\ UNCHANGED <<listed, row, dialogVars, sent, noted>>
  BY DEF Fail
<1>2. CallType(c) /\ CallArgs(c)
  BY DEF IInv, CallsOK
<1>3. PICK a : a = c.answer
  OBVIOUS
<1>4. [c EXCEPT !.served = TRUE] = [c EXCEPT !.served = TRUE, !.answer = a]
  BY <1>2, <1>3 DEF CallType
<1>5. /\ c.op = "put" => a \in {None, c.arg}
      /\ c.op = "delete" => a \in {None, TRUE}
      /\ c.op = "list" => a \in Docs \union {None}
  BY <1>2, <1>3 DEF CallArgs
<1>6. CallsOK' /\ ListOK'
  BY <1>1, <1>4, <1>5, ServedOK
<1>7. server' \in Docs \union {None}
  BY <1>1, EffectType
<1>8. PageType' /\ DialogType' /\ DialogOK'
  BY <1>1, <1>7 DEF IInv, PageType, DialogType, DialogOK, dialogVars
<1> QED BY <1>6, <1>8 DEF IInv

LEMMA IInvStep == IInv /\ [Next]_vars => IInv'
<1> SUFFICES ASSUME IInv, [Next]_vars PROVE IInv'
  OBVIOUS
<1>1. CASE User
  BY <1>1, OpenEditStep, OpenCreateStep, OpenHistoryStep, CloseDialogStep, DeleteStep,
     SelectsStep, EditDocStep, SubmitStep, ChooseEntryStep DEF User
<1>2. ASSUME NEW c \in calls, Serve(c) \/ Fail(c) \/ Answered(c)
      PROVE  IInv'
  BY <1>2, ServeStep, FailStep, ListAnsweredStep, RefreshedStep, RevisionAnsweredStep,
     RevisionFailedStep, HistoryAnsweredStep, PutAnsweredStep, DeleteAnsweredStep,
     IgnoredStep DEF Answered
<1>3. CASE UNCHANGED vars
  BY <1>3 DEF vars, dialogVars, IInv, PageType, DialogType, DialogOK, CallsOK, CallType,
              CallArgs, ListOK
<1> QED BY <1>1, <1>2, <1>3 DEF Next

LEMMA AlwaysIInv == Spec => []IInv
BY InitIInv, IInvStep, PTL DEF Spec

(* Types, and: the requests of a dialog end with it; what is edited has a   *)
(* row; every request in flight was sent (useRequest, useDialog).           *)
THEOREM TypeCorrect == Spec => []TypeOK
<1>1. ASSUME IInv PROVE TypeOK
  <2>1. sent \in Nat /\ MaxSent \in Nat /\ sent <= MaxSent /\ CallsOK
    BY <1>1, SentBounds
  <2>2. ASSUME NEW c \in calls
        PROVE  /\ c.op \in PageReads \union DialogReads \union Writes
               /\ c.n \in 1..(MaxSent + 1)
               /\ c.op \in DialogReads => dialog # "closed"
    <3>1. CallType(c) /\ CallArgs(c)
      BY <2>1 DEF CallsOK
    <3> QED BY <2>1, <3>1 DEF CallType, CallArgs, Ops, DialogReads
  <2> QED BY <1>1, <2>2 DEF IInv, PageType, DialogType, DialogOK, Kinds, TypeOK
<1> QED BY <1>1, AlwaysIInv, PTL

-----------------------------------------------------------------------------
(* What the editor shows.                                                   *)

(* A step closes the dialog, leaves what it shows alone, or is of one of    *)
(* the actions that open it or change the editor.                           *)
Quiet ==
  /\ UNCHANGED <<dialog, overwrites, editor, chosen>> /\ noted \subseteq noted'
  /\ dialog = "edit" => row' = row \/ "moved" \in noted'

LEMMA RowBecomesQuiet ==
  ASSUME NEW new, NEW kept, RowBecomes(new, kept)
  PROVE  dialog' = "closed" \/ Quiet
<1>a. CASE /\ new # None /\ dialog = "edit"
           /\ Note({"moved"})
           /\ UNCHANGED <<dialog, template, overwrites, failed, editor, offered, chosen>>
  BY <1>a DEF Quiet, Note
<1>b. CASE /\ new # None /\ dialog # "edit"
           /\ UNCHANGED <<dialogVars, sent, noted>>
  BY <1>b DEF Quiet, dialogVars
<1>c. CASE new = None /\ dialog \in {"edit", "history"} /\ Closed(Unheard(kept, OfRow))
  BY <1>c DEF Closed
<1>d. CASE new = None /\ dialog \notin {"edit", "history"} /\ UNCHANGED <<dialogVars, sent, noted>>
  BY <1>d DEF Quiet, dialogVars
<1> QED BY <1>a, <1>b, <1>c, <1>d DEF RowBecomes

LEMMA DialogStep ==
  ASSUME IInv, [Next]_vars
  PROVE  \/ dialog' = "closed" \/ Quiet
         \/ OpenEdit \/ OpenCreate \/ OpenHistory \/ EditDoc \/ \E e \in Docs : ChooseEntry(e)
         \/ \E c \in calls : RevisionAnswered(c)
<1>1. CASE CloseDialog
  BY <1>1 DEF CloseDialog, Closed
<1>2. CASE Delete \/ Submit
  BY <1>2 DEF Delete, Submit, Quiet, Note, dialogVars
<1>3. CASE SelectPkg \/ SelectChannel \/ SelectRev
  BY <1>3 DEF SelectPkg, SelectChannel, SelectRev, Select, Quiet
<1>4. ASSUME NEW c \in calls, Serve(c) \/ Fail(c) \/ Ignored(c) \/ HistoryAnswered(c)
      PROVE  Quiet
  BY <1>4 DEF Serve, Fail, Ignored, HistoryAnswered, Quiet, dialogVars
<1>5. ASSUME NEW c \in calls, RevisionFailed(c)
      PROVE  Quiet
  BY <1>5 DEF RevisionFailed, Quiet, Note
<1>6. ASSUME NEW c \in calls, ListAnswered(c)
      PROVE  Quiet
  <2>1. dialog # "edit"
    BY <1>6 DEF ListAnswered, IInv, ListOK, DialogOK
  <2> QED BY <1>6, <2>1 DEF ListAnswered, Quiet, dialogVars
<1>7. ASSUME NEW c \in calls, LatestAnswered(c) \/ DeployedAnswered(c) \/ DeleteAnswered(c)
      PROVE  dialog' = "closed" \/ Quiet
  <2>1. \/ RowBecomes(listed, calls \ {c}) \/ RowBecomes(None, calls \ {c})
        \/ UNCHANGED <<row, dialogVars, sent, noted>>
    BY <1>7 DEF LatestAnswered, DeployedAnswered, DeleteAnswered
  <2> QED BY <2>1, RowBecomesQuiet DEF Quiet, dialogVars
<1>8. ASSUME NEW c \in calls, PutAnswered(c)
      PROVE  dialog' = "closed" \/ Quiet
  <2>1. CASE c.live /\ dialog = c.to
    BY <1>8, <2>1 DEF PutAnswered, Closed
  <2>2. CASE c.live /\ dialog # c.to /\ c.to # "create"
    <3>1. row' = c.answer /\ RowBecomes(row', calls \ {c})
      BY <1>8, <2>2 DEF PutAnswered
    <3>2. PICK new : new = c.answer
      OBVIOUS
    <3>3. RowBecomes(new, calls \ {c})
      BY <3>1, <3>2
    <3> QED BY <3>3, RowBecomesQuiet
  <2>3. CASE ~ c.live \/ (c.to = "create" /\ dialog # c.to)
    BY <1>8, <2>3 DEF PutAnswered, Quiet, dialogVars
  <2> QED BY <2>1, <2>2, <2>3
<1>9. CASE UNCHANGED vars
  BY <1>9 DEF vars, dialogVars, Quiet
<1> QED BY <1>1, <1>2, <1>3, <1>4, <1>5, <1>6, <1>7, <1>8, <1>9 DEF Next, User, Answered

(* The editor of the history shows the entry that is marked as chosen, its  *)
(* overwrites included, until something is typed                            *)
(* (GroupEnvDeploymentHistoryPut).                                          *)
THEOREM ChosenEntryIsShown == Spec => []HistoryShownIsChosen
<1>1. Init => HistoryShownIsChosen
  BY DEF Init, HistoryShownIsChosen
<1>2. IInv /\ HistoryShownIsChosen /\ [Next]_vars => HistoryShownIsChosen'
  <2> SUFFICES ASSUME IInv, HistoryShownIsChosen, [Next]_vars,
                      dialog' = "history", ~ editor'.edited, "reselected" \notin noted'
               PROVE  editor'.doc = chosen'
    BY DEF HistoryShownIsChosen
  <2>1. CASE Quiet
    BY <2>1 DEF Quiet, HistoryShownIsChosen
  <2>2. CASE OpenEdit \/ OpenCreate
    BY <2>2 DEF OpenEdit, OpenCreate, OpenDialog
  <2>3. CASE OpenHistory
    BY <2>3 DEF OpenHistory, OpenDialog
  <2>4. CASE EditDoc
    <3>1. PICK doc : editor' = [editor EXCEPT !.doc = doc, !.edited = TRUE]
      BY <2>4 DEF EditDoc
    <3>2. editor \in Editors
      BY <2>4 DEF EditDoc, IInv, DialogType
    <3> QED BY <3>1, <3>2 DEF Editors
  <2>5. ASSUME NEW e \in Docs, ChooseEntry(e)
        PROVE  editor'.doc = chosen'
    <3> DEFINE k == <<e.rev, e.over>>
               d == [rev |-> e.rev, over |-> NoOver]
    <3>1. /\ chosen' = e /\ editor' = Shown(k, d, e.over)
          /\ noted' = IF editor.key = k /\ editor.over # e.over
                        THEN noted \union {"reselected"} ELSE noted \ {"reselected"}
          /\ dialog = "history"
      BY <2>5 DEF ChooseEntry
    <3>2. e.rev \in Revs /\ e.over \in Overs /\ NoOver \in Overs
      BY DashboardAssumption DEF Docs
    <3>3. d \in Docs /\ k \in Keys
      BY <3>2 DEF Docs, Keys
    <3>4. Merged(d, e.over) = e
      <4>1. e = [rev |-> e.rev, over |-> e.over]
        BY DEF Docs
      <4>2. CASE e.over = NoOver
        BY <4>1, <4>2 DEF Merged
      <4>3. CASE e.over # NoOver
        BY <4>1, <4>3 DEF Merged
      <4> QED BY <4>2, <4>3
    <3> HIDE DEF k, d
    <3>5. PICK s : s = Shown(k, d, e.over)
      OBVIOUS
    <3>6. /\ s.over = (IF editor # None /\ editor.key = k THEN editor.over ELSE e.over)
          /\ s.doc = Merged(d, s.over)
      BY <3>2, <3>3, <3>5, ShownType DEF IInv, DialogType
    <3>7. editor.key = k => editor.over = e.over
      BY <3>1
    <3> QED BY <3>1, <3>4, <3>5, <3>6, <3>7
  <2>6. ASSUME NEW c \in calls, RevisionAnswered(c)
        PROVE  dialog' # "history"
    BY <2>6 DEF RevisionAnswered, IInv, CallsOK, CallArgs
  <2> QED BY <2>1, <2>2, <2>3, <2>4, <2>5, <2>6, DialogStep
<1> QED BY <1>1, <1>2, AlwaysIInv, PTL DEF Spec

-----------------------------------------------------------------------------
(* The template of what is selected.                                        *)

Selected == dialog \in {"edit", "create"} /\ filters.pkg # None /\ filters.rev # None

(* Unless an answer was overtaken, the newest request for a template is for *)
(* what is selected, and once none is pending its outcome is shown.         *)
NewestInv ==
  Selected /\ "overtaken" \notin noted =>
    \/ \E c \in calls : /\ c.op = "revision" /\ c.arg = filters
                        /\ \A d \in calls : d.op = "revision" /\ d # c => d.n < c.n
    \/ (failed \/ template = filters.rev) /\ \A d \in calls : d.op # "revision"

(* A step that leaves the selection, its template and their requests alone. *)
Unasked ==
  /\ UNCHANGED <<dialog, filters, template, failed>> /\ noted \subseteq noted'
  /\ \A c \in calls : c.op = "revision" => c \in calls'
  /\ \A c \in calls' : c.op = "revision" => c \in calls

(* A step that selects something, and asks for its template.                *)
Asked ==
  \E f \in Filters :
    /\ filters' = f
    /\ f.pkg # None /\ f.rev # None =>
         /\ NewCall("revision", f) \in calls'
         /\ \A c \in calls' : c.op = "revision" => c \in calls \/ c = NewCall("revision", f)
    /\ f.pkg = None \/ f.rev = None => \A c \in calls' : c.op = "revision" => c \in calls
    /\ \A c \in calls : c.op = "revision" => c \in calls'

LEMMA SelectAsks ==
  ASSUME CallsOK, sent \in Nat, NEW kept, kept \subseteq calls, NEW f \in Filters,
         \A c \in calls : c.op = "revision" => c \in kept,
         filters' = f, SendAfter(kept, CallsOf(f))
  PROVE  Asked
<1>1. \/ f.pkg # None /\ f.rev # None /\ calls' = kept \union {NewCall("revision", f)}
      \/ (f.pkg = None \/ f.rev = None) /\ calls' = kept
  BY SelectSends, DashboardAssumption
<1> QED BY <1>1 DEF Asked

LEMMA RowBecomesAsks ==
  ASSUME IInv, NEW new \in Docs \union {None}, NEW c \in calls, c.op # "revision",
         RowBecomes(new, calls \ {c})
  PROVE  dialog' = "closed" \/ Unasked \/ Asked
<1> DEFINE kept == calls \ {c}
<1>1. CallsOK /\ sent \in Nat
  BY SentBounds
<1>a. CASE /\ new # None /\ dialog = "edit"
           /\ filters' = Founded(new)
           /\ SendAfter(kept, CallsOf(Founded(new)))
           /\ Note({"moved"})
           /\ UNCHANGED <<dialog, template, overwrites, failed, editor, offered, chosen>>
  <2>1. Founded(new) \in Filters
    BY <1>a, FoundedType
  <2> QED BY <1>1, <1>a, <2>1, SelectAsks
<1>b. CASE /\ new # None /\ dialog # "edit"
           /\ calls' = kept
           /\ UNCHANGED <<dialogVars, sent, noted>>
  BY <1>b DEF Unasked, dialogVars
<1>c. CASE new = None /\ dialog \in {"edit", "history"} /\ Closed(Unheard(kept, OfRow))
  BY <1>c DEF Closed
<1>d. CASE /\ new = None /\ dialog \notin {"edit", "history"}
           /\ calls' = Unheard(kept, LAMBDA d : OfRow(d) /\ ~OfDialog(d))
           /\ UNCHANGED <<dialogVars, sent, noted>>
  <2>1. \A d \in calls : d.op = "revision" => d \in calls'
    BY <1>d DEF Unheard, OfDialog, DialogReads
  <2>2. \A d \in kept : d.op \in Writes => [d EXCEPT !.live = FALSE].op \in Writes
    BY <1>1 DEF CallsOK, CallType
  <2>3. ASSUME NEW d \in calls', d.op = "revision"
        PROVE  d \in calls
    <3>1. d \in kept \/ \E e \in kept : d = [e EXCEPT !.live = FALSE] /\ e.op \in Writes
      BY <1>d, UnheardWrites
    <3> QED BY <2>2, <2>3, <3>1 DEF Writes
  <2> QED BY <1>d, <2>1, <2>3 DEF Unasked, dialogVars
<1> QED BY <1>a, <1>b, <1>c, <1>d DEF RowBecomes

LEMMA AskStep ==
  ASSUME IInv, [Next]_vars
  PROVE  \/ dialog' \notin {"edit", "create"} \/ Unasked \/ Asked
         \/ \E c \in calls : RevisionAnswered(c) \/ RevisionFailed(c)
<1>0. CallsOK /\ sent \in Nat /\ filters \in Filters /\ listed \in Docs \union {None}
  BY SentBounds DEF IInv, DialogType, PageType
<1>1. CASE CloseDialog \/ OpenHistory
  BY <1>1 DEF CloseDialog, Closed, OpenHistory, OpenDialog
<1>2. CASE Delete
  <2>1. calls' = calls \union {NewCall("delete", None)} /\ "delete" \in Ops
    BY <1>0, <1>2, SendOne DEF Delete, Send, Ops, Writes
  <2>2. NewCall("delete", None).op = "delete"
    BY DEF NewCall
  <2> QED BY <1>2, <2>1, <2>2 DEF Delete, Unasked, Note, dialogVars
<1>3. CASE Submit
  <2>1. calls' = calls \union {NewCall("put", editor.doc)} /\ "put" \in Ops
    BY <1>0, <1>3, SendOne DEF Submit, Send, Ops, Writes
  <2>2. NewCall("put", editor.doc).op = "put"
    BY DEF NewCall
  <2> QED BY <1>3, <2>1, <2>2 DEF Submit, Unasked, Note, dialogVars
<1>4. CASE OpenEdit
  <2>1. Founded(row) \in Filters
    BY <1>4, FoundedType DEF OpenEdit, IInv, PageType
  <2> QED BY <1>0, <1>4, <2>1, SelectAsks DEF OpenEdit, OpenDialog
<1>5. CASE OpenCreate
  <2>1. NoFilters \in Filters /\ NoFilters.pkg = None
    BY DEF Filters, NoFilters
  <2> QED BY <1>5, <2>1 DEF OpenCreate, OpenDialog, Asked
<1>6. CASE SelectPkg \/ SelectChannel \/ SelectRev
  <2>1. PICK f \in Filters : Select(f)
    BY <1>0, <1>6 DEF SelectPkg, SelectChannel, SelectRev, Filters
  <2> QED BY <1>0, <2>1, SelectAsks DEF Select, Send
<1>7. CASE EditDoc \/ \E e \in Docs : ChooseEntry(e)
  BY <1>7 DEF EditDoc, ChooseEntry, Unasked
<1>8. ASSUME NEW c \in calls, Serve(c) \/ Fail(c)
      PROVE  Unasked
  <2>1. /\ c.op # "revision" /\ UNCHANGED <<dialogVars, noted>>
        /\ \E a : calls' = (calls \ {c}) \union {[c EXCEPT !.served = TRUE, !.answer = a]}
                  \/ calls' = (calls \ {c}) \union {[c EXCEPT !.served = TRUE]}
    BY <1>8 DEF Serve, Fail, Writes
  <2>2. CallType(c)
    BY <1>0 DEF CallsOK
  <2>3. [c EXCEPT !.served = TRUE].op = c.op
    BY <2>2 DEF CallType
  <2>4. \A a : [c EXCEPT !.served = TRUE, !.answer = a].op = c.op
    BY <2>2 DEF CallType
  <2> QED BY <2>1, <2>3, <2>4 DEF Unasked, dialogVars
<1>9. ASSUME NEW c \in calls, Ignored(c) \/ HistoryAnswered(c)
      PROVE  Unasked
  <2>1. c.op # "revision"
    BY <1>0, <1>9 DEF Ignored, HistoryAnswered, CallsOK, CallArgs, Writes
  <2> QED BY <1>9, <2>1 DEF Ignored, HistoryAnswered, Unasked, dialogVars
<1>10. ASSUME NEW c \in calls, ListAnswered(c)
       PROVE  Unasked
  <2>1. NewCall("latest", None).op = "latest" /\ NewCall("deployed", None).op = "deployed"
    BY DEF NewCall
  <2>2. /\ c.op = "list" /\ UNCHANGED <<dialogVars, noted>>
        /\ \A d \in calls : d # c => d \in calls'
        /\ \A d \in calls' : d \in calls \/ d = NewCall("latest", None) \/ d = NewCall("deployed", None)
    BY <1>10 DEF ListAnswered
  <2> QED BY <2>1, <2>2 DEF Unasked, dialogVars
<1>11. ASSUME NEW c \in calls, LatestAnswered(c) \/ DeployedAnswered(c) \/ DeleteAnswered(c)
       PROVE  dialog' = "closed" \/ Unasked \/ Asked
  <2>1. /\ c.op # "revision"
        /\ \/ RowBecomes(listed, calls \ {c}) \/ RowBecomes(None, calls \ {c})
           \/ calls' = calls \ {c} /\ UNCHANGED <<row, dialogVars, sent, noted>>
    BY <1>11 DEF LatestAnswered, DeployedAnswered, DeleteAnswered
  <2>2. PICK l \in Docs \union {None} : l = listed
    BY <1>0
  <2>3. CASE RowBecomes(l, calls \ {c})
    BY <2>1, <2>3, RowBecomesAsks
  <2>4. CASE RowBecomes(None, calls \ {c})
    BY <2>1, <2>4, RowBecomesAsks
  <2>5. CASE calls' = calls \ {c} /\ UNCHANGED <<row, dialogVars, sent, noted>>
    BY <2>1, <2>5 DEF Unasked, dialogVars
  <2> QED BY <2>1, <2>2, <2>3, <2>4, <2>5
<1>12. ASSUME NEW c \in calls, PutAnswered(c)
       PROVE  dialog' = "closed" \/ Unasked \/ Asked
  <2>0. c.op = "put" /\ c.answer \in Docs
    BY <1>0, <1>12 DEF PutAnswered, CallsOK, CallArgs
  <2>1. CASE c.live /\ dialog = c.to
    BY <1>12, <2>1 DEF PutAnswered, Closed
  <2>2. CASE c.live /\ dialog # c.to /\ c.to # "create"
    <3>1. row' = c.answer /\ RowBecomes(row', calls \ {c})
      BY <1>12, <2>2 DEF PutAnswered
    <3>2. PICK new \in Docs \union {None} : new = c.answer
      BY <2>0
    <3>3. RowBecomes(new, calls \ {c})
      BY <3>1, <3>2
    <3> QED BY <2>0, <3>3, RowBecomesAsks
  <2>3. CASE ~ c.live \/ (c.to = "create" /\ dialog # c.to)
    BY <1>12, <2>0, <2>3 DEF PutAnswered, Unasked, dialogVars
  <2> QED BY <2>1, <2>2, <2>3
<1>13. CASE UNCHANGED vars
  BY <1>13 DEF vars, dialogVars, Unasked
<1> QED BY <1>1, <1>2, <1>3, <1>4, <1>5, <1>6, <1>7, <1>8, <1>9, <1>10, <1>11, <1>12, <1>13
        DEF Next, User, Answered

(* The dialogs that put show the template of the selected revision, or that *)
(* it could not be had, once its request is answered: whatever was selected *)
(* in between, unless an answer overtook an earlier one                     *)
(* (GroupEnvDeploymentPut, TemplateEditor).                                 *)
THEOREM SelectionIsShown == Spec => []EditorShowsSelection
<1>1. Init => NewestInv
  BY DEF Init, NewestInv, Selected
<1>2. IInv /\ NewestInv /\ [Next]_vars => NewestInv'
  <2> SUFFICES ASSUME IInv, NewestInv, [Next]_vars, Selected', "overtaken" \notin noted'
               PROVE  \/ \E c \in calls' : /\ c.op = "revision" /\ c.arg = filters'
                                           /\ \A d \in calls' : d.op = "revision" /\ d # c => d.n < c.n
                      \/ (failed' \/ template' = filters'.rev) /\ \A d \in calls' : d.op # "revision"
    BY DEF NewestInv
  <2>1. CASE Unasked
    <3>1. Selected /\ "overtaken" \notin noted
      BY <2>1 DEF Unasked, Selected
    <3> QED BY <2>1, <3>1 DEF Unasked, NewestInv
  <2>2. CASE Asked
    <3>1. PICK f \in Filters :
            /\ filters' = f
            /\ f.pkg # None /\ f.rev # None =>
                 /\ NewCall("revision", f) \in calls'
                 /\ \A c \in calls' : c.op = "revision" => c \in calls \/ c = NewCall("revision", f)
      BY <2>2 DEF Asked
    <3>2. f.pkg # None /\ f.rev # None
      BY <3>1 DEF Selected
    <3>3. "revision" \in Ops /\ CallsOK /\ sent \in Nat
      BY SentBounds DEF Ops, DialogReads
    <3>4. PICK c : c = NewCall("revision", f)
      OBVIOUS
    <3>5. c.op = "revision" /\ c.arg = f
      BY <3>4 DEF NewCall
    <3>6. \A d \in calls : d.op = "revision" => d.n < c.n
      BY <3>3, <3>4, NewCallType
    <3> QED BY <3>1, <3>2, <3>4, <3>5, <3>6
  <2>3. ASSUME NEW c \in calls, RevisionAnswered(c) \/ RevisionFailed(c)
        PROVE  \/ \E e \in calls' : /\ e.op = "revision" /\ e.arg = filters'
                                    /\ \A d \in calls' : d.op = "revision" /\ d # e => d.n < e.n
               \/ (failed' \/ template' = filters'.rev) /\ \A d \in calls' : d.op # "revision"
    <3>1. /\ c.op = "revision" /\ calls' = calls \ {c} /\ UNCHANGED <<dialog, filters>>
          /\ noted \union Overtakes(c) \subseteq noted'
          /\ failed' = TRUE \/ template' = c.arg.rev
      BY <2>3 DEF RevisionAnswered, RevisionFailed, Note
    <3>2. Selected /\ "overtaken" \notin noted
      BY <3>1 DEF Selected
    <3>3. \A d \in calls : d.op = "revision" => ~ (d.n < c.n)
      BY <3>1 DEF Overtakes
    <3>4. PICK e \in calls : /\ e.op = "revision" /\ e.arg = filters
                             /\ \A d \in calls : d.op = "revision" /\ d # e => d.n < e.n
      BY <3>1, <3>2 DEF NewestInv
    <3>5. CASE e = c
      <4>1. \A d \in calls' : d.op # "revision"
        BY <3>1, <3>3, <3>4, <3>5
      <4> QED BY <3>1, <3>4, <3>5, <4>1
    <3>6. CASE e # c
      BY <3>1, <3>4, <3>6
    <3> QED BY <3>5, <3>6
  <2> QED BY <2>1, <2>2, <2>3, AskStep DEF Selected
<1>3. ASSUME IInv, NewestInv PROVE EditorShowsSelection
  BY <1>3, DashboardAssumption DEF IInv, DialogOK, DialogType, Filters, NewestInv, Selected, EditorShowsSelection
<1> QED BY <1>1, <1>2, <1>3, AlwaysIInv, PTL DEF Spec

(* The overwrites of an edited row: none before the template of its         *)
(* revision is there, those of the row from then on, and an editor made     *)
(* before that is not the one of the row's revision.                        *)
SettingsInv ==
  dialog = "edit" /\ "moved" \notin noted =>
    /\ overwrites \in {None, row.over}
    /\ editor # None =>
         /\ overwrites # None => editor.over = row.over
         /\ overwrites = None => editor.key # <<row.rev>>
         /\ ~ editor.edited => editor.doc # None /\ editor.doc.over = editor.over

(* Before the template of the row's revision is there, its request is the   *)
(* oldest of those pending, unless it failed; nothing is shown yet.         *)
FoundedInv ==
  /\ dialog = "edit" /\ overwrites = None
  /\ "overtaken" \notin noted /\ "moved" \notin noted /\ "unfounded" \notin noted
  => /\ editor = None
     /\ \E c \in calls : /\ c.op = "revision" /\ c.arg = Founded(row)
                         /\ \A d \in calls : d.op = "revision" /\ d # c => c.n < d.n

LEMMA FoundedOpened ==
  ASSUME IInv, OpenEdit
  PROVE  /\ editor' = None
         /\ \E c \in calls' : /\ c.op = "revision" /\ c.arg = Founded(row')
                              /\ \A d \in calls' : d.op = "revision" /\ d # c => c.n < d.n
<1>1. /\ dialog = "closed" /\ row' = row /\ editor' = None /\ row # None
      /\ SendAfter(calls, CallsOf(Founded(row)))
  BY DEF OpenEdit, OpenDialog
<1>2. CallsOK /\ sent \in Nat
  BY SentBounds
<1>3. \A d \in calls : d.op # "revision"
  BY <1>1, <1>2 DEF CallsOK, CallArgs
<1>4. row \in Docs
  BY <1>1 DEF IInv, PageType
<1>5. Founded(row) \in Filters /\ Founded(row) \in [pkg: Pkgs, rev: Revs]
  BY <1>4, FoundedType
<1>6. PICK f \in Filters : f = Founded(row)
  BY <1>5
<1>7. calls' = calls \union {NewCall("revision", f)}
  BY <1>1, <1>2, <1>5, <1>6, SelectSends, DashboardAssumption
<1>8. NewCall("revision", f).op = "revision" /\ NewCall("revision", f).arg = f
  BY DEF NewCall
<1> QED BY <1>1, <1>3, <1>6, <1>7, <1>8

LEMMA FoundedStep == IInv /\ FoundedInv /\ [Next]_vars => FoundedInv'
<1> SUFFICES ASSUME IInv, FoundedInv, [Next]_vars, dialog' = "edit", overwrites' = None,
                    "overtaken" \notin noted', "moved" \notin noted', "unfounded" \notin noted'
             PROVE  /\ editor' = None
                    /\ \E c \in calls' : /\ c.op = "revision" /\ c.arg = Founded(row')
                         /\ \A d \in calls' : d.op = "revision" /\ d # c => c.n < d.n
  BY DEF FoundedInv
<1>1. CASE OpenEdit
  BY <1>1, FoundedOpened
<1>2. CASE OpenCreate \/ OpenHistory \/ \E e \in Docs : ChooseEntry(e)
  BY <1>2 DEF OpenCreate, OpenHistory, OpenDialog, ChooseEntry
<1>3. CASE EditDoc
  <2>1. UNCHANGED <<dialog, overwrites, noted>> /\ editor # None
    BY <1>3 DEF EditDoc
  <2> QED BY <2>1 DEF FoundedInv
<1>4. ASSUME NEW c \in calls, RevisionAnswered(c) \/ RevisionFailed(c)
      PROVE  FALSE
  <2>1. /\ dialog = "edit" /\ c.op = "revision" /\ noted \union Overtakes(c) \subseteq noted'
        /\ \/ overwrites' = IF row.rev = c.arg.rev THEN row.over ELSE overwrites
           \/ overwrites' = overwrites /\ Unfounds(c) \subseteq noted'
    BY <1>4 DEF RevisionAnswered, RevisionFailed, Note
  <2>2. row.over # None
    BY <2>1, DashboardAssumption DEF IInv, DialogOK, PageType, Docs
  <2>3. overwrites = None
    BY <2>1, <2>2
  <2>4. PICK e \in calls : /\ e.op = "revision" /\ e.arg = Founded(row)
                           /\ \A d \in calls : d.op = "revision" /\ d # e => e.n < d.n
    BY <2>1, <2>3 DEF FoundedInv
  <2>5. e = c
    BY <2>1, <2>4 DEF Overtakes
  <2>6. c.arg.rev = row.rev
    BY <2>4, <2>5 DEF Founded
  <2> QED BY <2>1, <2>2, <2>3, <2>4, <2>5, <2>6 DEF Unfounds
<1>5. CASE Quiet
  <2>1. /\ dialog = "edit" /\ overwrites = None /\ row' = row /\ editor' = editor
        /\ "overtaken" \notin noted /\ "moved" \notin noted /\ "unfounded" \notin noted
    BY <1>5 DEF Quiet
  <2>2. editor' = None
    BY <2>1 DEF FoundedInv
  <2>3. PICK e \in calls : /\ e.op = "revision" /\ e.arg = Founded(row)
                           /\ \A d \in calls : d.op = "revision" /\ d # e => e.n < d.n
    BY <2>1 DEF FoundedInv
  <2>4. CASE Unasked
    BY <2>1, <2>2, <2>3, <2>4 DEF Unasked
  <2>5. CASE Asked
    <3>1. PICK f \in Filters :
            /\ \A c \in calls' : c.op = "revision" => c \in calls \/ c = NewCall("revision", f)
            /\ \A c \in calls : c.op = "revision" => c \in calls'
      BY <2>5 DEF Asked
    <3>2. "revision" \in Ops /\ CallsOK /\ sent \in Nat
      BY SentBounds DEF Ops, DialogReads
    <3>3. PICK new : new = NewCall("revision", f)
      OBVIOUS
    <3>4. \A d \in calls : d.op = "revision" => d.n < new.n
      BY <3>2, <3>3, NewCallType
    <3> QED BY <2>1, <2>2, <2>3, <3>1, <3>3, <3>4
  <2> QED BY <2>4, <2>5, <1>4, AskStep
<1> QED BY <1>1, <1>2, <1>3, <1>4, <1>5, DialogStep

(* An edited deployment keeps its settings when another revision is         *)
(* selected for it: what the editor shows before anything is typed has the  *)
(* overwrites of the row (GroupEnvDeploymentPut), unless an answer overtook  *)
(* an earlier one, the row changed under the dialog, or the template of its  *)
(* own revision could not be had.                                            *)
THEOREM EditedKeepsSettings == Spec => []SettingsKept
<1>1. Init => SettingsInv
  BY DEF Init, SettingsInv
<1>2. IInv /\ SettingsInv /\ [Next]_vars => SettingsInv'
  <2> SUFFICES ASSUME IInv, SettingsInv, [Next]_vars, dialog' = "edit", "moved" \notin noted'
               PROVE  /\ overwrites' \in {None, row'.over}
                      /\ editor' # None =>
                           /\ overwrites' # None => editor'.over = row'.over
                           /\ overwrites' = None => editor'.key # <<row'.rev>>
                           /\ ~ editor'.edited =>
                                editor'.doc # None /\ editor'.doc.over = editor'.over
    BY DEF SettingsInv
  <2>1. CASE Quiet
    BY <2>1 DEF Quiet, SettingsInv
  <2>2. CASE OpenEdit \/ OpenCreate \/ OpenHistory
    BY <2>2 DEF OpenEdit, OpenCreate, OpenHistory, OpenDialog
  <2>3. CASE EditDoc
    <3>1. /\ UNCHANGED <<row, dialog, overwrites, noted>> /\ editor # None
          /\ \E doc : editor' = [editor EXCEPT !.doc = doc, !.edited = TRUE]
      BY <2>3 DEF EditDoc
    <3>2. editor \in Editors
      BY <3>1 DEF IInv, DialogType
    <3>3. editor'.edited /\ editor'.over = editor.over /\ editor'.key = editor.key
      BY <3>1, <3>2 DEF Editors
    <3> QED BY <3>1, <3>3 DEF SettingsInv
  <2>4. ASSUME NEW e \in Docs, ChooseEntry(e)
        PROVE  dialog' # "edit"
    BY <2>4 DEF ChooseEntry
  <2>5. ASSUME NEW c \in calls, RevisionAnswered(c)
        PROVE  /\ overwrites' \in {None, row'.over}
               /\ overwrites' # None => editor'.over = row'.over
               /\ overwrites' = None => editor'.key # <<row'.rev>>
               /\ editor'.doc # None /\ editor'.doc.over = editor'.over
    <3>1. /\ c.op = "revision" /\ row' = row /\ dialog = "edit" /\ noted \subseteq noted'
          /\ overwrites' = IF row.rev = c.arg.rev THEN row.over ELSE overwrites
          /\ editor' = PutEditor(c.arg.rev, overwrites')
      BY <2>5 DEF RevisionAnswered, Note
    <3>2. c.arg \in [pkg: Pkgs, rev: Revs]
      BY <3>1 DEF IInv, CallsOK, CallArgs
    <3>3. PICK r \in Revs : r = c.arg.rev
      BY <3>2
    <3>4. row.over \in Overs /\ row.over # None
      BY <3>1, DashboardAssumption DEF IInv, DialogOK, PageType, Docs
    <3>5. overwrites \in {None, row.over}
      BY <3>1 DEF SettingsInv
    <3>6. PICK o \in Overs \union {None} : o = overwrites'
      BY <3>1, <3>4, <3>5
    <3>7. PICK e : e = PutEditor(r, o)
      OBVIOUS
    <3>8. /\ e.key = <<r>> /\ e.doc # None /\ e.doc.over = e.over
          /\ e.over = (IF editor # None /\ editor.key = <<r>> THEN editor.over
                       ELSE IF dialog = "edit" /\ o # None THEN o ELSE NoOver)
      BY <3>7, PutEditorType
    <3>9. editor' = e /\ o \in {None, row.over}
      BY <3>1, <3>3, <3>5, <3>6, <3>7
    <3>10. o # None => e.over = row.over
      <4>1. CASE editor # None /\ editor.key = <<r>>
        <5>1. CASE r = row.rev
          BY <3>1, <3>8, <4>1, <5>1 DEF SettingsInv
        <5>2. CASE r # row.rev
          BY <3>1, <3>3, <3>6, <3>8, <4>1, <5>2 DEF SettingsInv
        <5> QED BY <5>1, <5>2
      <4>2. CASE ~ (editor # None /\ editor.key = <<r>>)
        BY <3>1, <3>8, <3>9, <4>2
      <4> QED BY <4>1, <4>2
    <3>11. o = None => r # row.rev
      BY <3>1, <3>3, <3>4, <3>6
    <3>12. o = None => <<r>> # <<row.rev>>
      BY <3>11
    <3> QED BY <3>1, <3>6, <3>8, <3>9, <3>10, <3>12
  <2> QED BY <2>1, <2>2, <2>3, <2>4, <2>5, DialogStep
<1>3. Init => FoundedInv
  BY DEF Init, FoundedInv
<1>4. SettingsInv /\ FoundedInv => SettingsKept
  BY DEF SettingsInv, FoundedInv, SettingsKept
<1> QED BY <1>1, <1>2, <1>3, <1>4, FoundedStep, AlwaysIInv, PTL DEF Spec

-----------------------------------------------------------------------------
(* The row and the server.                                                  *)

(* No request failed, every write waited for the answers before it, and the *)
(* page's own dialog put nothing.                                           *)
Sound == faults = 0 /\ "early" \notin noted /\ "created" \notin noted

Outer(c) == c.op \in PageReads \union Writes

Alone ==
  \A c, d \in calls : c.op \in Writes =>
    /\ d.op \notin PageReads
    /\ d.op \in Writes => d = c
ReadsAgree ==
  \A c \in calls :
    /\ c.op = "list" /\ c.served => c.answer = server
    /\ c.op \in {"latest", "deployed"} => listed = server
WritesAgree ==
  \A c \in calls :
    /\ c.op \in Writes => c.live
    /\ c.op = "put" => c.to # "create"
    /\ c.op \in Writes /\ c.served => c.answer # None
    /\ c.op = "put" /\ c.served => server = c.answer
    /\ c.op = "delete" /\ c.served => server = None
RowFollows ==
  \/ \E c \in calls : c.op = "list" \/ (c.op \in Writes /\ c.served)
  \/ row = server

AgreeInv ==
  /\ faults \in Nat
  /\ Sound => Alone /\ ReadsAgree /\ WritesAgree /\ RowFollows

(* A step of the dialogs, which leaves the page and its requests alone.     *)
PageQuiet ==
  /\ UNCHANGED <<server, listed, row>>
  /\ \A c \in calls : Outer(c) => c \in calls'
  /\ \A c \in calls' : Outer(c) => c \in calls

LEMMA RowBecomesNotes ==
  ASSUME NEW new, NEW kept, RowBecomes(new, kept)
  PROVE  noted \ {"overtaken", "moved", "reselected", "unfounded"} \subseteq noted'
<1>a. CASE Note({"moved"})
  BY <1>a DEF Note
<1>b. CASE UNCHANGED <<dialogVars, sent, noted>>
  BY <1>b
<1>c. CASE Closed(Unheard(kept, OfRow))
  BY <1>c DEF Closed
<1> QED BY <1>a, <1>b, <1>c DEF RowBecomes

LEMMA NotesStay ==
  ASSUME [Next]_vars
  PROVE  /\ noted \ {"overtaken", "moved", "reselected", "unfounded"} \subseteq noted'
         /\ faults' = faults \/ faults' = faults + 1
<1>1. CASE OpenEdit \/ OpenCreate \/ OpenHistory \/ EditDoc \/ Delete \/ Submit
  BY <1>1 DEF OpenEdit, OpenCreate, OpenHistory, OpenDialog, EditDoc, Delete, Submit, Note
<1>2. CASE CloseDialog
  BY <1>2 DEF CloseDialog, Closed
<1>3. CASE SelectPkg \/ SelectChannel \/ SelectRev
  BY <1>3 DEF SelectPkg, SelectChannel, SelectRev, Select
<1>4. CASE \E e \in Docs : ChooseEntry(e)
  BY <1>4 DEF ChooseEntry
<1>5. ASSUME NEW c \in calls, Serve(c) \/ Fail(c) \/ Ignored(c) \/ HistoryAnswered(c) \/ ListAnswered(c)
      PROVE  noted' = noted /\ (faults' = faults \/ faults' = faults + 1)
  BY <1>5 DEF Serve, Fail, Ignored, HistoryAnswered, ListAnswered
<1>6. ASSUME NEW c \in calls, RevisionAnswered(c) \/ RevisionFailed(c)
      PROVE  noted \subseteq noted' /\ (faults' = faults \/ faults' = faults + 1)
  BY <1>6 DEF RevisionAnswered, RevisionFailed, Note
<1>7. ASSUME NEW c \in calls, LatestAnswered(c) \/ DeployedAnswered(c) \/ DeleteAnswered(c)
      PROVE  noted \ {"overtaken", "moved", "reselected", "unfounded"} \subseteq noted' /\ faults' = faults
  <2>1. /\ faults' = faults
        /\ \/ RowBecomes(listed, calls \ {c}) \/ RowBecomes(None, calls \ {c})
           \/ UNCHANGED <<row, dialogVars, sent, noted>>
    BY <1>7 DEF LatestAnswered, DeployedAnswered, DeleteAnswered
  <2> QED BY <2>1, RowBecomesNotes
<1>8. ASSUME NEW c \in calls, PutAnswered(c)
      PROVE  noted \ {"overtaken", "moved", "reselected", "unfounded"} \subseteq noted' /\ faults' = faults
  <2>1. faults' = faults
    BY <1>8 DEF PutAnswered
  <2>2. CASE c.live /\ dialog = c.to
    BY <1>8, <2>1, <2>2 DEF PutAnswered, Closed
  <2>3. CASE c.live /\ dialog # c.to /\ c.to # "create"
    <3>1. row' = c.answer /\ RowBecomes(row', calls \ {c})
      BY <1>8, <2>3 DEF PutAnswered
    <3>2. PICK new : new = c.answer
      OBVIOUS
    <3>3. RowBecomes(new, calls \ {c})
      BY <3>1, <3>2
    <3> QED BY <2>1, <3>3, RowBecomesNotes
  <2>4. CASE ~ c.live \/ (c.to = "create" /\ dialog # c.to)
    BY <1>8, <2>1, <2>4 DEF PutAnswered
  <2> QED BY <2>2, <2>3, <2>4
<1>9. CASE UNCHANGED vars
  BY <1>9 DEF vars
<1> QED BY <1>1, <1>2, <1>3, <1>4, <1>5, <1>6, <1>7, <1>8, <1>9 DEF Next, User, Answered

(* What a dialog asks for is not a request of the page.                     *)
LEMMA AskedQuiet ==
  ASSUME CallsOK, sent \in Nat, NEW kept, NEW f \in Filters, SendAfter(kept, CallsOf(f))
  PROVE  kept \subseteq calls' /\ \A d \in calls' : Outer(d) => d \in kept
<1>1. NewCall("revision", f).op = "revision"
  BY DEF NewCall
<1> QED BY <1>1, SelectSends DEF Outer, PageReads, Writes

LEMMA RowBecomesAlone ==
  ASSUME IInv, NEW new \in Docs \union {None}, NEW c \in calls,
         \A d \in calls \ {c} : d.op \notin Writes,
         RowBecomes(new, calls \ {c})
  PROVE  row' = new /\ \A d \in calls' : Outer(d) => d \in calls \ {c}
<1> DEFINE kept == calls \ {c}
<1>1. CallsOK /\ sent \in Nat /\ row' = new
  BY SentBounds DEF RowBecomes
<1>2. \A d \in kept : CallType(d)
  BY <1>1 DEF CallsOK
<1>a. CASE /\ new # None
           /\ SendAfter(kept, CallsOf(Founded(new)))
  <2>1. Founded(new) \in Filters
    BY <1>a, FoundedType
  <2> QED BY <1>1, <1>a, <2>1, AskedQuiet
<1>b. CASE calls' = kept
  BY <1>1, <1>b
<1>c. CASE Closed(Unheard(kept, OfRow))
  BY <1>1, <1>2, <1>c, UnheardRow DEF Closed
<1>d. CASE calls' = Unheard(kept, LAMBDA d : OfRow(d) /\ ~OfDialog(d))
  BY <1>1, <1>d, UnheardWrites
<1> QED BY <1>a, <1>b, <1>c, <1>d DEF RowBecomes

LEMMA PageStep ==
  ASSUME IInv, [Next]_vars
  PROVE  \/ PageQuiet \/ Submit \/ Delete
         \/ \E c \in calls : \/ Serve(c) \/ Fail(c) \/ ListAnswered(c) \/ LatestAnswered(c)
                             \/ DeployedAnswered(c) \/ PutAnswered(c) \/ DeleteAnswered(c)
                             \/ Ignored(c)
<1>0. CallsOK /\ sent \in Nat /\ filters \in Filters
  BY SentBounds DEF IInv, DialogType
<1>1. CASE OpenEdit
  <2>1. Founded(row) \in Filters
    BY <1>1, FoundedType DEF OpenEdit, IInv, PageType
  <2> QED BY <1>0, <1>1, <2>1, AskedQuiet DEF OpenEdit, OpenDialog, PageQuiet
<1>2. CASE OpenCreate \/ EditDoc \/ \E e \in Docs : ChooseEntry(e)
  BY <1>2 DEF OpenCreate, OpenDialog, EditDoc, ChooseEntry, PageQuiet
<1>3. CASE OpenHistory
  <2>1. calls' = calls \union {NewCall("history", None)} /\ "history" \in Ops
    BY <1>0, <1>3, SendOne DEF OpenHistory, Send, Ops, DialogReads
  <2>2. NewCall("history", None).op = "history"
    BY DEF NewCall
  <2> QED BY <1>3, <2>1, <2>2 DEF OpenHistory, OpenDialog, PageQuiet, Outer, PageReads, Writes
<1>4. CASE CloseDialog
  <2>1. calls' = Unheard(calls, OfDialog) /\ UNCHANGED <<server, listed, row>>
    BY <1>4 DEF CloseDialog, Closed
  <2>2. calls' = {c \in calls : c.op \notin DialogReads}
    BY <1>0, <2>1, UnheardDialog DEF CallsOK, CallType
  <2> QED BY <2>1, <2>2 DEF PageQuiet, Outer, PageReads, Writes, DialogReads
<1>5. CASE SelectPkg \/ SelectChannel \/ SelectRev
  <2>1. PICK f \in Filters : Select(f)
    BY <1>0, <1>5 DEF SelectPkg, SelectChannel, SelectRev, Filters
  <2> QED BY <1>0, <2>1, AskedQuiet DEF Select, Send, PageQuiet
<1>6. ASSUME NEW c \in calls, RevisionAnswered(c) \/ RevisionFailed(c) \/ HistoryAnswered(c)
      PROVE  PageQuiet
  BY <1>6 DEF RevisionAnswered, RevisionFailed, HistoryAnswered, PageQuiet, Outer, PageReads, Writes
<1>7. CASE UNCHANGED vars
  BY <1>7 DEF vars, PageQuiet
<1> QED BY <1>1, <1>2, <1>3, <1>4, <1>5, <1>6, <1>7 DEF Next, User, Answered

(* A write that the browser sends once the page has its answers.            *)
LEMMA WriteAgrees ==
  ASSUME IInv, Alone, ReadsAgree, WritesAgree, RowFollows, Early = {},
         NEW op \in Writes, NEW arg, op = "put" => dialog # "create",
         SendAfter(calls, <<<<op, arg>>>>), UNCHANGED <<server, listed, row>>
  PROVE  Alone' /\ ReadsAgree' /\ WritesAgree' /\ RowFollows'
<1>1. \A c \in calls : c.op \notin PageReads \union Writes
  BY DEF Early
<1>2. PICK w : w = NewCall(op, arg)
  OBVIOUS
<1>3. calls' = calls \union {w}
  BY <1>2, SentBounds, SendOne DEF Ops
<1>4. w.op = op /\ ~ w.served /\ w.live /\ (op = "put" => w.to = dialog)
  BY <1>2 DEF NewCall
<1>5. \A c \in calls' : Outer(c) => c = w
  BY <1>1, <1>3 DEF Outer
<1>6. Alone'
  BY <1>4, <1>5 DEF Alone, Outer, Writes, PageReads
<1>7. ReadsAgree'
  BY <1>4, <1>5 DEF ReadsAgree, Outer, Writes, PageReads
<1>8. WritesAgree'
  BY <1>4, <1>5 DEF WritesAgree, Outer, Writes
<1>9. RowFollows'
  BY <1>1 DEF RowFollows, PageReads
<1> QED BY <1>6, <1>7, <1>8, <1>9

LEMMA AgreeStep == IInv /\ AgreeInv /\ [Next]_vars => AgreeInv'
<1> SUFFICES ASSUME IInv, AgreeInv, [Next]_vars PROVE AgreeInv'
  OBVIOUS
<1>1. faults' \in Nat
  BY NotesStay DEF AgreeInv
<1> SUFFICES ASSUME Sound' PROVE Alone' /\ ReadsAgree' /\ WritesAgree' /\ RowFollows'
  BY <1>1 DEF AgreeInv
<1>2. Sound /\ faults' = faults /\ faults \in Nat
  <2>1. faults \in Nat /\ (faults' = faults \/ faults' = faults + 1) /\ faults' = 0
    BY NotesStay DEF AgreeInv, Sound
  <2>2. "early" \notin noted /\ "created" \notin noted
    BY NotesStay DEF Sound
  <2> QED BY <2>1, <2>2 DEF Sound
<1>3. Alone /\ ReadsAgree /\ WritesAgree /\ RowFollows
  BY <1>2 DEF AgreeInv
<1>4. CASE PageQuiet
  <2>1. Alone'
    BY <1>3, <1>4 DEF PageQuiet, Alone, Outer
  <2>2. ReadsAgree'
    BY <1>3, <1>4 DEF PageQuiet, ReadsAgree, Outer, PageReads
  <2>3. WritesAgree'
    BY <1>3, <1>4 DEF PageQuiet, WritesAgree, Outer, Writes
  <2>4. RowFollows'
    BY <1>3, <1>4 DEF PageQuiet, RowFollows, Outer, PageReads
  <2> QED BY <2>1, <2>2, <2>3, <2>4
<1>5. CASE Submit
  <2>1. /\ SendAfter(calls, <<<<"put", editor.doc>>>>) /\ UNCHANGED <<server, listed, row>>
        /\ noted' = noted \union (Early \union (IF dialog = "create" THEN {"created"} ELSE {}))
    BY <1>5 DEF Submit, Send, Note
  <2>2. Early = {} /\ dialog # "create"
    BY <2>1 DEF Sound, Early
  <2>3. "put" \in Writes
    BY DEF Writes
  <2> QED BY <1>3, <2>1, <2>2, <2>3, WriteAgrees
<1>6. CASE Delete
  <2>1. /\ SendAfter(calls, <<<<"delete", None>>>>) /\ UNCHANGED <<server, listed, row>>
        /\ noted' = noted \union Early
    BY <1>6 DEF Delete, Send, Note
  <2>2. Early = {}
    BY <2>1 DEF Sound, Early
  <2>3. "delete" \in Writes
    BY DEF Writes
  <2> QED BY <1>3, <2>1, <2>2, <2>3, WriteAgrees
<1>7. ASSUME NEW c \in calls, Serve(c)
      PROVE  Alone' /\ ReadsAgree' /\ WritesAgree' /\ RowFollows'
  <2>1. /\ c.op \in Writes \union {"list"} /\ Effect(c)
        /\ calls' = (calls \ {c}) \union {[c EXCEPT !.served = TRUE, !.answer = Read(c)]}
        /\ UNCHANGED <<listed, row>>
    BY <1>7 DEF Serve
  <2>2. CallType(c) /\ CallArgs(c)
    BY DEF IInv, CallsOK
  <2>3. PICK u : u = [c EXCEPT !.served = TRUE, !.answer = Read(c)]
    OBVIOUS
  <2>4. /\ u.op = c.op /\ u.to = c.to /\ u.served
        /\ u.answer = Read(c) /\ u.live = c.live
    <3>1. u = [op |-> c.op, arg |-> c.arg, to |-> c.to, n |-> c.n, served |-> TRUE,
               answer |-> Read(c), live |-> c.live]
      BY <2>2, <2>3 DEF CallType
    <3> QED BY <3>1
  <2>5. \A d \in calls' : (d \in calls /\ d # c) \/ d = u
    BY <2>1, <2>3
  <2>6. u \in calls'
    BY <2>1, <2>3
  <2>7. Alone'
    BY <1>3, <2>4, <2>5 DEF Alone
  <2>8. RowFollows'
    BY <2>1, <2>4, <2>6 DEF RowFollows
  <2>9. CASE c.op = "list"
    <3>1. server' = server /\ u.answer = server
      BY <1>7, <2>4, <2>9 DEF Serve, Effect, Read, Writes
    <3>2. ReadsAgree'
      BY <1>3, <2>1, <2>4, <2>5, <2>9, <3>1 DEF ReadsAgree
    <3>3. WritesAgree'
      BY <1>3, <2>4, <2>5, <2>9, <3>1 DEF WritesAgree, Writes
    <3> QED BY <2>7, <2>8, <3>2, <3>3
  <2>10. CASE c.op \in Writes
    <3>1. \A d \in calls : d.op \notin PageReads /\ (d.op \in Writes => d = c)
      BY <1>3, <2>10 DEF Alone
    <3>2. \A d \in calls' : d.op \notin PageReads /\ (d.op \in Writes => d = u)
      BY <2>4, <2>5, <3>1
    <3>3. ReadsAgree'
      BY <3>2 DEF ReadsAgree, PageReads
    <3>4. u.live /\ (u.op = "put" => u.to # "create")
      BY <1>3, <2>4, <2>10 DEF WritesAgree
    <3>5. u.op = "put" => u.answer # None /\ server' = u.answer
      BY <2>1, <2>2, <2>4, NoneAssumption DEF Effect, Read, CallArgs
    <3>6. u.op = "delete" => u.answer # None /\ server' = None
      BY <2>1, <2>4, NoneAssumption DEF Effect, Read
    <3>7. WritesAgree'
      BY <3>2, <3>4, <3>5, <3>6 DEF WritesAgree, Writes
    <3> QED BY <2>7, <2>8, <3>3, <3>7
  <2> QED BY <2>1, <2>9, <2>10
<1>8. ASSUME NEW c \in calls, Fail(c)
      PROVE  FALSE
  BY <1>2, <1>8 DEF Fail
<1>9. ASSUME NEW c \in calls, ListAnswered(c)
      PROVE  Alone' /\ ReadsAgree' /\ WritesAgree' /\ RowFollows'
  <2>1. NewCall("latest", None).op = "latest" /\ NewCall("deployed", None).op = "deployed"
    BY DEF NewCall
  <2>2. /\ c.op = "list" /\ c.served /\ server' = server
        /\ listed' = c.answer /\ row' = c.answer
        /\ \A d \in calls' : d \in calls \/ d = NewCall("latest", None) \/ d = NewCall("deployed", None)
    BY <1>9 DEF ListAnswered
  <2>3. c.answer = server
    BY <1>3, <2>2 DEF ReadsAgree
  <2>4. \A d \in calls' : d.op \notin Writes
    BY <1>3, <2>1, <2>2 DEF Alone, PageReads, Writes
  <2>5. \A d \in calls' : d.op = "list" => d \in calls
    BY <2>1, <2>2
  <2>6. Alone' /\ WritesAgree'
    BY <2>4 DEF Alone, WritesAgree, Writes
  <2>7. ReadsAgree'
    BY <1>3, <2>2, <2>3, <2>5 DEF ReadsAgree
  <2> QED BY <2>2, <2>3, <2>6, <2>7 DEF RowFollows
<1>10. ASSUME NEW c \in calls, LatestAnswered(c) \/ DeployedAnswered(c)
       PROVE  Alone' /\ ReadsAgree' /\ WritesAgree' /\ RowFollows'
  <2>1. /\ c.op \in {"latest", "deployed"} /\ UNCHANGED <<server, listed>>
        /\ \/ RowBecomes(listed, calls \ {c})
           \/ calls' = calls \ {c} /\ row' = row
    BY <1>10 DEF LatestAnswered, DeployedAnswered
  <2>2. listed = server /\ \A d \in calls : d.op \notin Writes
    BY <1>3, <2>1 DEF ReadsAgree, Alone, PageReads
  <2>3. \A d \in calls : d.op # "list"
    BY <2>1, ListArrived DEF IInv
  <2>4. row = server
    BY <1>3, <2>2, <2>3 DEF RowFollows
  <2>5. PICK l \in Docs \union {None} : l = listed
    BY DEF IInv, PageType
  <2>6. row' = server /\ \A d \in calls' : Outer(d) => d \in calls
    <3>1. CASE RowBecomes(listed, calls \ {c})
      <4>1. row' = l /\ \A d \in calls' : Outer(d) => d \in calls \ {c}
        BY <2>2, <2>5, <3>1, RowBecomesAlone
      <4> QED BY <2>2, <2>5, <4>1
    <3>2. CASE calls' = calls \ {c} /\ row' = row
      BY <2>4, <3>2
    <3> QED BY <2>1, <3>1, <3>2
  <2>7. \A d \in calls' : d.op \notin Writes /\ d.op # "list"
    BY <2>2, <2>3, <2>6 DEF Outer, PageReads
  <2>8. Alone' /\ WritesAgree'
    BY <2>7 DEF Alone, WritesAgree, Writes
  <2>9. ReadsAgree'
    BY <2>1, <2>2, <2>7 DEF ReadsAgree
  <2> QED BY <2>1, <2>6, <2>8, <2>9 DEF RowFollows
<1>11. ASSUME NEW c \in calls, c.op \in Writes, row' = server, UNCHANGED server,
              \A d \in calls' : Outer(d) => d \in calls \ {c}
       PROVE  Alone' /\ ReadsAgree' /\ WritesAgree' /\ RowFollows'
  <2>1. \A d \in calls : d.op \notin PageReads /\ (d.op \in Writes => d = c)
    BY <1>3, <1>11 DEF Alone
  <2>2. \A d \in calls' : d.op \notin PageReads \union Writes
    BY <1>11, <2>1 DEF Outer
  <2>3. Alone' /\ ReadsAgree' /\ WritesAgree'
    BY <2>2 DEF Alone, ReadsAgree, WritesAgree, PageReads, Writes
  <2> QED BY <1>11, <2>3 DEF RowFollows
<1>12. ASSUME NEW c \in calls, PutAnswered(c)
       PROVE  Alone' /\ ReadsAgree' /\ WritesAgree' /\ RowFollows'
  <2>1. c.op = "put" /\ c.op \in Writes /\ c.served /\ UNCHANGED server
    BY <1>12 DEF PutAnswered, Writes
  <2>2. c.live /\ c.to # "create" /\ server = c.answer
    BY <1>3, <2>1 DEF WritesAgree
  <2>3. \A d \in calls \ {c} : d.op \notin Writes
    BY <1>3, <2>1 DEF Alone
  <2>4. row' = c.answer /\ \A d \in calls' : Outer(d) => d \in calls \ {c}
    <3>1. CASE dialog = c.to
      <4>1. row' = c.answer /\ calls' = Unheard(calls \ {c}, OfDialog)
        BY <1>12, <2>2, <3>1 DEF PutAnswered, Closed
      <4>2. Unheard(calls \ {c}, OfDialog) = {d \in calls \ {c} : d.op \notin DialogReads}
        BY UnheardDialog DEF IInv, CallsOK, CallType
      <4> QED BY <4>1, <4>2
    <3>2. CASE dialog # c.to
      <4>1. row' = c.answer /\ RowBecomes(row', calls \ {c})
        BY <1>12, <2>2, <3>2 DEF PutAnswered
      <4>2. PICK new \in Docs \union {None} : new = c.answer
        BY <2>1 DEF IInv, CallsOK, CallArgs
      <4>3. RowBecomes(new, calls \ {c})
        BY <4>1, <4>2
      <4> QED BY <2>3, <4>2, <4>3, RowBecomesAlone
    <3> QED BY <3>1, <3>2
  <2> QED BY <1>11, <2>1, <2>2, <2>4
<1>13. ASSUME NEW c \in calls, DeleteAnswered(c)
       PROVE  Alone' /\ ReadsAgree' /\ WritesAgree' /\ RowFollows'
  <2>1. c.op = "delete" /\ c.op \in Writes /\ c.served /\ UNCHANGED server
    BY <1>13 DEF DeleteAnswered, Writes
  <2>2. c.live /\ server = None
    BY <1>3, <2>1 DEF WritesAgree
  <2>3. \A d \in calls \ {c} : d.op \notin Writes
    BY <1>3, <2>1 DEF Alone
  <2>4. RowBecomes(None, calls \ {c})
    BY <1>13, <2>2 DEF DeleteAnswered
  <2>5. row' = None /\ \A d \in calls' : Outer(d) => d \in calls \ {c}
    BY <2>3, <2>4, RowBecomesAlone
  <2> QED BY <1>11, <2>1, <2>2, <2>5
<1>14. ASSUME NEW c \in calls, Ignored(c)
       PROVE  FALSE
  <2>1. c.served /\ c.answer = None /\ c.op # "list"
    BY <1>14 DEF Ignored
  <2>2. c.op \in Writes
    BY <2>1 DEF IInv, CallsOK, CallArgs
  <2> QED BY <1>3, <2>1, <2>2 DEF WritesAgree
<1> QED BY <1>4, <1>5, <1>6, <1>7, <1>8, <1>9, <1>10, <1>12, <1>13, <1>14, PageStep

(* When nothing is in flight and only this page wrote, one write at a time  *)
(* and with its answers in, the row is what the server has                  *)
(* (GroupEnvDeploymentList, GroupEnvDeploymentListItem).                    *)
THEOREM RowFollowsServer == Spec => []RowAgrees
<1>1. Init => AgreeInv
  BY DEF Init, AgreeInv, Alone, ReadsAgree, WritesAgree, RowFollows, Writes
<1>2. AgreeInv => RowAgrees
  BY DEF AgreeInv, Sound, RowFollows, RowAgrees
<1> QED BY <1>1, <1>2, AgreeStep, AlwaysIInv, PTL DEF Spec
=============================================================================
