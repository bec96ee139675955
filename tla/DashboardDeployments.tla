-------------------------- MODULE DashboardDeployments --------------------------
(***************************************************************************)
(* The page of the deployments of an environment                           *)
(* (src/webapp/dashboard/mod/groupenv, mod/groupkubepkg, mod/kubepkg), as  *)
(* one browser runs it, followed at one deployment.  The page lists the    *)
(* deployments once, then asks for the latest versions and for what the    *)
(* cluster runs; every row keeps a copy of its own, which the dialogs of   *)
(* the row edit.  Requests are answered in any order, and the browser      *)
(* listens only while the component that asked is mounted.                 *)
(*                                                                         *)
(* A document is a revision of a kubepkg and the overwrites of its spec:   *)
(* what the server stores for a deployment, and what the editor shows.     *)
(***************************************************************************)
EXTENDS Naturals, FiniteSets, Sequences, FiniteSetsExt

CONSTANTS
  Pkgs,       \* group/name of kubepkgs
  Revs,       \* revisions
  PkgOf,      \* [Revs -> the kubepkg of the revision]
  Overs,      \* overwrites, NoOver among them
  NoOver,     \* the empty overwrites
  Linked,     \* has the environment a cluster with an endpoint
  None,       \* no value
  MaxSent,    \* bound on the requests of the dialogs
  MaxFaults   \* bound on the requests that fail

ASSUME DashboardAssumption ==
  /\ NoOver \in Overs
  /\ PkgOf \in [Revs -> Pkgs]
  /\ Linked \in BOOLEAN
  /\ None \notin Pkgs \union Revs \union Overs
  /\ MaxSent \in Nat /\ MaxFaults \in Nat

VARIABLES
  server,     \* the deployment on the server, None when there is none
  listed,     \* the record of the page's list
  row,        \* the record of the row, None when the row is gone
  dialog,     \* which dialog is open
  filters,    \* what is selected in the dialog
  template,   \* revision of the template the dialog holds
  overwrites, \* overwrites computed for the row, None before that
  failed,     \* is the message of a failed template shown
  editor,     \* the editor, None when there is none
  offered,    \* are the entries of the history there to choose from
  chosen,     \* the entry of the history that is shown
  calls,      \* requests of the browser that are not answered yet
  sent,       \* how many requests the dialogs sent
  faults,     \* how many requests failed
  noted       \* what happened so far that a property excepts

dialogVars == <<dialog, filters, template, overwrites, failed, editor, offered, chosen>>
vars == <<server, listed, row, dialogVars, calls, sent, faults, noted>>

Docs == [rev: Revs, over: Overs]
Filters == [pkg: Pkgs \union {None}, rev: Revs \union {None}]
Keys == {<<>>} \union {<<r>> : r \in Revs} \union (Revs \X Overs)
Editors == [key: Keys, over: Overs, doc: Docs \union {None}, edited: BOOLEAN]

ASSUME NoneAssumption == None \notin Docs /\ None \notin Editors /\ None \notin BOOLEAN

PageReads == {"list", "latest", "deployed"}
DialogReads == {"revision", "history"}
Writes == {"put", "delete"}

(* noted: a late answer was overtaken by that of a later request; the row  *)
(* changed under an open dialog; a write was sent before the page had its  *)
(* answers or before another was answered; the deployment was created by   *)
(* the dialog of the page, which has no row; the entry of the history      *)
(* shown is the one the dialog opened with; the template of the revision   *)
(* the row has could not be had, so that its overwrites are not known.     *)
Notes == {"overtaken", "moved", "early", "created", "reselected", "unfounded"}

NoFilters == [pkg |-> None, rev |-> None]
Note(kinds) == noted' = noted \union kinds

-----------------------------------------------------------------------------
(* Requests.  n orders those of one kind, to is the dialog that sent a     *)
(* put; answer is what the server said, once it did; live is false when    *)
(* nobody waits any more.                                                  *)

NewCall(op, arg) ==
  [op |-> op, arg |-> arg, to |-> IF op = "put" THEN dialog ELSE "closed",
   n |-> 1 + Max({0} \union {c.n : c \in {d \in calls : d.op = op}}),
   served |-> FALSE, answer |-> None, live |-> TRUE]

(* Keeps the calls kept, and sends <<op, arg>> of the sequence ops.        *)
SendAfter(kept, ops) ==
  /\ sent + Len(ops) <= MaxSent
  /\ calls' = kept \union {NewCall(ops[i][1], ops[i][2]) : i \in DOMAIN ops}
  /\ sent' = sent + Len(ops)
Send(ops) == SendAfter(calls, ops)

(* subscribeUntilUnmount: what a component that goes has read is dropped;  *)
(* a write still reaches the server.                                       *)
Unheard(kept, gone(_)) ==
  {c \in kept : ~gone(c)} \union
  {[c EXCEPT !.live = FALSE] : c \in {d \in kept : gone(d) /\ d.op \in Writes}}
\* Mutant: an answer outlives the dialog that asked.
OfDialog_Never(c) == FALSE
\* Mutant: the puts of a dialog are heard only while it is open.
OfDialog_Puts(c) == c.op \in DialogReads \union {"put"}
OfDialog(c) == c.op \in DialogReads
OfRow(c) == OfDialog(c) \/ c.op = "delete" \/ (c.op = "put" /\ c.to # "create")

(* The request a selection causes: the template once a revision is         *)
(* selected.  That of the versions to offer is left out: see SelectRev.    *)
CallsOf(f) ==
  IF f.pkg # None /\ f.rev # None THEN <<<<"revision", f>>>> ELSE <<>>

(* resolveKubePkgVersionAndSetting: what a row selects when it is edited.  *)
Founded(doc) == [pkg |-> PkgOf[doc.rev], rev |-> doc.rev]

-----------------------------------------------------------------------------
(* The editor.                                                             *)

(* The document shown: the overwrites win over those of the kubepkg.       *)
Merged(doc, over) == IF over = NoOver THEN doc ELSE [doc EXCEPT !.over = over]

\* Mutant: the editor is keyed by the revision alone.
Shown_ByRevision(key, doc, over) ==
  IF editor # None /\ editor.key # <<>> /\ editor.key[1] = key[1]
    THEN [editor EXCEPT !.doc = Merged(doc, editor.over), !.edited = FALSE]
    ELSE [key |-> key, over |-> over, doc |-> Merged(doc, over), edited |-> FALSE]

(* KubePkgEditor and TemplateEditor: an editor is made again when its key  *)
(* changes, and only then reads the overwrites; a new kubepkg resets the   *)
(* document, whatever was typed.                                           *)
Shown(key, doc, over) ==
  IF editor # None /\ editor.key = key
    THEN [editor EXCEPT !.doc = Merged(doc, editor.over), !.edited = FALSE]
    ELSE [key |-> key, over |-> over, doc |-> Merged(doc, over), edited |-> FALSE]

\* Mutant: the overwrites are shown with the revision of the row only.
PutEditor_OfRow(rev, over) ==
  Shown(<<rev>>, [rev |-> rev, over |-> NoOver],
        IF dialog = "edit" /\ row.rev = rev THEN over ELSE NoOver)

(* The editor of GroupEnvDeploymentPut, keyed by the revision.             *)
PutEditor(rev, over) ==
  Shown(<<rev>>, [rev |-> rev, over |-> NoOver],
        IF dialog = "edit" /\ over # None THEN over ELSE NoOver)

(* Typing: the overwrites of the document change, or a first document is   *)
(* written where there is no template.                                     *)
EditDoc ==
  /\ editor # None
  /\ \E doc \in Docs :
       /\ editor.doc # None => doc.rev = editor.doc.rev
       /\ doc # editor.doc
       /\ editor' = [editor EXCEPT !.doc = doc, !.edited = TRUE]
  /\ UNCHANGED <<server, listed, row, dialog, filters, template, overwrites,
                 failed, offered, chosen, calls, sent, faults, noted>>

(* A write that is sent before the page has its answers, or before another *)
(* write is answered.                                                      *)
Early == IF \E c \in calls : c.op \in PageReads \union Writes THEN {"early"} ELSE {}

(* The linter lets a document through that the schema accepts; the dialog  *)
(* puts it, and stays open.                                                *)
Submit ==
  /\ editor # None /\ editor.doc # None
  /\ Send(<<<<"put", editor.doc>>>>)
  /\ Note(Early \union (IF dialog = "create" THEN {"created"} ELSE {}))
  /\ UNCHANGED <<server, listed, row, dialogVars, faults>>

-----------------------------------------------------------------------------
(* Dialogs of the page and of the row.                                     *)

OpenDialog(kind, f, over, e) ==
  /\ dialog = "closed"
  /\ dialog' = kind /\ filters' = f /\ template' = None /\ overwrites' = over
  /\ failed' = FALSE /\ editor' = e /\ offered' = FALSE
  /\ UNCHANGED <<server, listed, row, faults, noted>>

(* GroupEnvDeploymentPut of a row: asks for its template and versions.     *)
OpenEdit ==
  /\ row # None
  /\ OpenDialog("edit", Founded(row), None, None)
  /\ SendAfter(calls, CallsOf(Founded(row)))
  /\ chosen' = None

(* The dialog of the page, with nothing selected and a blank editor.       *)
OpenCreate ==
  /\ OpenDialog("create", NoFilters, None,
       [key |-> <<>>, over |-> NoOver, doc |-> None, edited |-> FALSE])
  /\ chosen' = None
  /\ UNCHANGED <<calls, sent>>

(* GroupEnvDeploymentHistoryPut: shows the document of the row, with its   *)
(* overwrites merged, and asks for the history.                            *)
OpenHistory ==
  /\ row # None
  /\ OpenDialog("history", NoFilters, None,
       [key |-> <<row.rev, row.over>>, over |-> NoOver, doc |-> row,
        edited |-> FALSE])
  /\ chosen' = row
  /\ Send(<<<<"history", None>>>>)

(* Choosing an entry shows it: its kubepkg and its overwrites apart.  The  *)
(* entries are what was ever deployed, before this page too.               *)
ChooseEntry(e) ==
  /\ dialog = "history" /\ offered
  /\ chosen' = e
  /\ editor' = Shown(<<e.rev, e.over>>, [rev |-> e.rev, over |-> NoOver], e.over)
  /\ noted' = IF editor.key = <<e.rev, e.over>> /\ editor.over # e.over
                THEN noted \union {"reselected"} ELSE noted \ {"reselected"}
  /\ UNCHANGED <<server, listed, row, dialog, filters, template, overwrites,
                 failed, offered, calls, sent, faults>>

(* The dialog is closed, by its button or by the answer of its write.      *)
Closed(kept) ==
  /\ calls' = kept /\ sent' = sent
  /\ dialog' = "closed" /\ filters' = NoFilters /\ template' = None
  /\ overwrites' = None /\ failed' = FALSE /\ editor' = None /\ offered' = FALSE
  /\ chosen' = None
  /\ noted' = noted \ {"overtaken", "moved", "reselected", "unfounded"}

CloseDialog ==
  /\ dialog # "closed"
  /\ Closed(Unheard(calls, OfDialog))
  /\ UNCHANGED <<server, listed, row, faults>>

-----------------------------------------------------------------------------
(* What is selected in the dialogs that put.                               *)

(* The filters emit, whether their values changed or not.                  *)
Select(f) ==
  /\ dialog \in {"edit", "create"}
  /\ filters' = f
  /\ Send(CallsOf(f))
  /\ UNCHANGED <<server, listed, row, dialog, template, overwrites, failed,
                 editor, offered, chosen, faults, noted>>

(* GroupKubepkgAutocomplete: the revision selected before stays.           *)
SelectPkg == \E p \in Pkgs : p # filters.pkg /\ Select([filters EXCEPT !.pkg = p])

(* GroupKubepkgChannelSwitch: other versions are offered, and the template *)
(* is asked for again.                                                     *)
SelectChannel == filters.pkg # None /\ Select(filters)

(* GroupKubepkgVersionSelect: the versions of its last answer are offered, *)
(* also while those of another kubepkg or channel are asked for, so the    *)
(* revision may be of any that was selected.                               *)
SelectRev ==
  /\ filters.pkg # None
  /\ \E r \in Revs : r # filters.rev /\ Select([filters EXCEPT !.rev = r])

Overtakes(c) ==
  IF \E d \in calls : d.op = c.op /\ d.n < c.n THEN {"overtaken"} ELSE {}

(* The template arrives.  The overwrites are those of the row when it is   *)
(* the template of the row's revision, and are kept for the templates      *)
(* selected afterwards.                                                    *)
RevisionAnswered(c) ==
  /\ c.op = "revision" /\ PkgOf[c.arg.rev] = c.arg.pkg
  /\ template' = c.arg.rev /\ failed' = FALSE
  /\ overwrites' = IF dialog = "edit" /\ row.rev = c.arg.rev
                     THEN row.over ELSE overwrites
  /\ editor' = PutEditor(c.arg.rev, overwrites')
  /\ calls' = calls \ {c}
  /\ Note(Overtakes(c))
  /\ UNCHANGED <<server, listed, row, dialog, filters, offered, chosen, sent, faults>>

\* Mutant: the template that cannot be had leaves no message.
RevisionFailed_Silent(c) ==
  /\ c.op = "revision" /\ PkgOf[c.arg.rev] # c.arg.pkg
  /\ calls' = calls \ {c}
  /\ UNCHANGED <<server, listed, row, dialogVars, sent, faults, noted>>

(* Nothing else computes the overwrites of the row.                        *)
Unfounds(c) ==
  IF dialog = "edit" /\ overwrites = None /\ c.arg = Founded(row)
  THEN {"unfounded"} ELSE {}

(* The template cannot be had: a message is shown under the old editor.    *)
RevisionFailed(c) ==
  /\ c.op = "revision"
  /\ \/ PkgOf[c.arg.rev] # c.arg.pkg /\ UNCHANGED faults
     \/ /\ faults < MaxFaults
        /\ faults' = faults + 1
  /\ failed' = TRUE
  /\ calls' = calls \ {c}
  /\ Note(Overtakes(c) \union Unfounds(c))
  /\ UNCHANGED <<server, listed, row, dialog, filters, template, overwrites,
                 editor, offered, chosen, sent>>

HistoryAnswered(c) ==
  /\ c.op = "history"
  /\ offered' = TRUE
  /\ calls' = calls \ {c}
  /\ UNCHANGED <<server, listed, row, dialog, filters, template, overwrites,
                 failed, editor, chosen, sent, faults, noted>>

-----------------------------------------------------------------------------
(* The row, and the list it comes from.                                    *)

(* The record of the row changes: an open dialog that edits it selects its *)
(* revision again, and the dialogs of a row that is gone go with it.       *)
RowBecomes(new, kept) ==
  /\ row' = new
  /\ \/ /\ new # None /\ dialog = "edit"
        /\ filters' = Founded(new)
        /\ SendAfter(kept, CallsOf(Founded(new)))
        /\ Note({"moved"})
        /\ UNCHANGED <<dialog, template, overwrites, failed, editor, offered, chosen>>
     \/ /\ new # None /\ dialog # "edit"
        /\ calls' = kept
        /\ UNCHANGED <<dialogVars, sent, noted>>
     \/ /\ new = None /\ dialog \in {"edit", "history"}
        /\ Closed(Unheard(kept, OfRow))
     \/ /\ new = None /\ dialog \notin {"edit", "history"}
        /\ calls' = Unheard(kept, LAMBDA c : OfRow(c) /\ ~OfDialog(c))
        /\ UNCHANGED <<dialogVars, sent, noted>>

(* The list arrives: a row for the deployment, if there is one, then the   *)
(* request for the latest versions and, of a linked environment, for what  *)
(* the cluster runs.                                                       *)
ListAnswered(c) ==
  /\ c.op = "list" /\ c.served
  /\ listed' = c.answer /\ row' = c.answer
  /\ calls' = (calls \ {c}) \union {NewCall("latest", None)}
              \union (IF Linked THEN {NewCall("deployed", None)} ELSE {})
  /\ UNCHANGED <<server, dialogVars, sent, faults, noted>>

(* A record that is not of the latest revision, which may be any, is       *)
(* marked as upgradable, and the row gets this record of the list,         *)
(* whatever the row has become since.                                      *)
LatestAnswered(c) ==
  /\ c.op = "latest"
  /\ \/ listed # None /\ RowBecomes(listed, calls \ {c})
     \/ calls' = calls \ {c} /\ UNCHANGED <<row, dialogVars, sent, noted>>
  /\ UNCHANGED <<server, listed, faults>>

(* The status of what the cluster runs, if it runs the deployment, is set  *)
(* in the record of the list, which the row gets again.                    *)
DeployedAnswered(c) ==
  /\ c.op = "deployed"
  /\ \/ listed # None /\ RowBecomes(listed, calls \ {c})
     \/ calls' = calls \ {c} /\ UNCHANGED <<row, dialogVars, sent, noted>>
  /\ UNCHANGED <<server, listed, faults>>

(* The answer of a put closes the dialog it came from, opened again or     *)
(* not, and becomes the record of the row; that of the page's own dialog   *)
(* has no row.                                                             *)
PutAnswered(c) ==
  /\ c.op = "put" /\ c.served /\ c.answer # None
  /\ IF c.live /\ c.to # "create"
       THEN row' = c.answer
       ELSE UNCHANGED row
  /\ IF c.live /\ dialog = c.to
       THEN Closed(Unheard(calls \ {c}, OfDialog))
       ELSE IF c.live /\ c.to # "create"
              THEN RowBecomes(row', calls \ {c})
              ELSE calls' = calls \ {c} /\ UNCHANGED <<dialogVars, sent, noted>>
  /\ UNCHANGED <<server, listed, faults>>

(* The prompt of the row confirms a deletion; its answer removes the row.  *)
Delete ==
  /\ row # None /\ dialog = "closed"
  /\ Send(<<<<"delete", None>>>>)
  /\ Note(Early)
  /\ UNCHANGED <<server, listed, row, dialogVars, faults>>

DeleteAnswered(c) ==
  /\ c.op = "delete" /\ c.served /\ c.answer # None
  /\ IF c.live THEN RowBecomes(None, calls \ {c})
     ELSE calls' = calls \ {c} /\ UNCHANGED <<row, dialogVars, sent, noted>>
  /\ UNCHANGED <<server, listed, faults>>

(* A failed request, of the kinds nobody listens for errors of.            *)
Ignored(c) ==
  /\ c.served /\ c.answer = None /\ c.op # "list"
  /\ calls' = calls \ {c}
  /\ UNCHANGED <<server, listed, row, dialogVars, sent, faults, noted>>

-----------------------------------------------------------------------------
(* The server.                                                             *)

(* A put records the revision and the overwrites of its document, which    *)
(* the server computes from the revision, and answers with them.  Other    *)
(* requests read nothing that changes.                                     *)
Effect(c) ==
  CASE c.op = "put" -> server' = c.arg
    [] c.op = "delete" -> server' = None
    [] OTHER -> UNCHANGED server
Read(c) ==
  CASE c.op = "put" -> c.arg
    [] c.op = "delete" -> TRUE
    [] c.op = "list" -> server

Serve(c) ==
  /\ ~c.served /\ c.op \in Writes \union {"list"}
  /\ Effect(c)
  /\ calls' = (calls \ {c}) \union {[c EXCEPT !.served = TRUE, !.answer = Read(c)]}
  /\ UNCHANGED <<listed, row, dialogVars, sent, faults, noted>>

(* A request fails before its effect, or its answer is lost after it.      *)
Fail(c) ==
  /\ ~c.served /\ c.op \in Writes /\ faults < MaxFaults
  /\ faults' = faults + 1
  /\ Effect(c) \/ UNCHANGED server
  /\ calls' = (calls \ {c}) \union {[c EXCEPT !.served = TRUE]}
  /\ UNCHANGED <<listed, row, dialogVars, sent, noted>>

-----------------------------------------------------------------------------
Init ==
  /\ server \in Docs \union {None}
  /\ listed = None /\ row = None
  /\ dialog = "closed" /\ filters = NoFilters /\ template = None /\ overwrites = None
  /\ failed = FALSE /\ editor = None /\ offered = FALSE /\ chosen = None
  /\ calls = {[op |-> "list", arg |-> None, to |-> "closed", n |-> 1,
               served |-> FALSE, answer |-> None, live |-> TRUE]}
  /\ sent = 0
  /\ faults = 0
  /\ noted = {}

Answered(c) ==
  \/ ListAnswered(c) \/ LatestAnswered(c) \/ DeployedAnswered(c)
  \/ RevisionAnswered(c) \/ RevisionFailed(c)
  \/ HistoryAnswered(c) \/ PutAnswered(c) \/ DeleteAnswered(c) \/ Ignored(c)

User ==
  \/ OpenEdit \/ OpenCreate \/ OpenHistory \/ CloseDialog \/ Delete
  \/ SelectPkg \/ SelectChannel \/ SelectRev \/ EditDoc \/ Submit
  \/ \E e \in Docs : ChooseEntry(e)

Next ==
  \/ User
  \/ \E c \in calls : Serve(c) \/ Fail(c) \/ Answered(c)

Spec == Init /\ [][Next]_vars

-----------------------------------------------------------------------------
(* What the page promises.                                                 *)

(* Types, and: the requests of a dialog end with it; what is edited has a  *)
(* row; every request in flight was sent.                                  *)
TypeOK ==
  /\ server \in Docs \union {None}
  /\ listed \in Docs \union {None} /\ row \in Docs \union {None}
  /\ dialog \in {"closed", "edit", "create", "history"} /\ filters \in Filters
  /\ template \in Revs \union {None} /\ overwrites \in Overs \union {None}
  /\ failed \in BOOLEAN /\ editor \in Editors \union {None}
  /\ offered \in BOOLEAN /\ chosen \in Docs \union {None}
  /\ \A c \in calls :
       /\ c.op \in PageReads \union DialogReads \union Writes /\ c.n \in 1..(MaxSent + 1)
       /\ c.op \in DialogReads => dialog # "closed"
  /\ dialog \in {"edit", "history"} => row # None
  /\ sent \in 0..MaxSent /\ noted \subseteq Notes

(* The dialogs that put show the template of the selected revision, or     *)
(* that it could not be had, once its request is answered: whatever was    *)
(* selected in between, unless an answer overtook an earlier one.          *)
EditorShowsSelection ==
  \/ dialog \notin {"edit", "create"} \/ filters.pkg = None \/ filters.rev = None
  \/ \E c \in calls : c.op = "revision"
  \/ failed \/ "overtaken" \in noted
  \/ template = filters.rev /\ editor.doc.rev = filters.rev

(* An edited deployment keeps its settings when another revision is        *)
(* selected for it: what the editor shows before anything is typed has the *)
(* overwrites of the row.  Three cases are outside, in which the code      *)
(* loses them: an answer overtook an earlier one, the row changed under    *)
(* the dialog, or the template of the row's own revision could not be had  *)
(* (yet): the next revision is then shown as if the row had no settings.   *)
SettingsKept ==
  dialog = "edit" /\ editor # None /\ ~editor.edited
    => \/ editor.doc.over = row.over
       \/ noted \intersect {"overtaken", "moved"} # {}
       \/ overwrites = None /\ "unfounded" \in noted

(* The editor of the history shows the entry that is marked as chosen, its *)
(* overwrites included, until something is typed.  The entry the dialog    *)
(* opened with is shown bare when it is chosen at once: its key is that of *)
(* the editor, which has read no overwrites.                               *)
HistoryShownIsChosen ==
  dialog = "history" /\ ~editor.edited /\ "reselected" \notin noted
    => editor.doc = chosen

(* When nothing is in flight and only this page wrote, one write at a time *)
(* and with its answers in, the row is what the server has.                *)
RowAgrees ==
  \/ calls # {} \/ faults > 0
  \/ noted \intersect {"early", "created"} # {}
  \/ server = row
=============================================================================
