---------------------------- MODULE DashboardVersions ----------------------------
(***************************************************************************)
(* The versions of a kubepkg (src/webapp/dashboard/mod/groupkubepkg): the  *)
(* page shows those of a channel, from which they are deleted or published *)
(* to a later channel.  The rows have no keys: when the list changes, the  *)
(* first rows are used again for what is first now, with their dialogs and *)
(* the requests they wait for.                                             *)
(***************************************************************************)
EXTENDS DashboardRequests, Sequences, Functions

CONSTANTS
  Versions,   \* numbers, which order the versions
  Revisions,
  Channels    \* the sequence dev, beta, rc, stable, or a part of it

VARIABLES
  published,  \* [channel -> [Versions -> its revision, or None]]
  filter,     \* the channel, and the version typed, None when it is empty
  versions,   \* [Versions -> revision, or None] of the last answer
  dialog      \* the prompt that is open, None when there is none

versionVars == <<published, filter, versions, dialog>>

Stages == DOMAIN Channels
Table == [Versions -> Revisions \union {None}]
ASSUME VersionsAssumption ==
  /\ Versions \subseteq Nat /\ IsFiniteSet(Versions)
  /\ Channels \in Seq(Range(Channels)) /\ Channels # <<>>
  /\ None \notin Table \union BOOLEAN
NoVersions == [v \in Versions |-> None]
Dialogs == [op: {"delete", "publish"}, row: 1..Cardinality(Versions),
            to: Stages \union {None}]
VersionWrites == {"delete", "publish"}
Of(channel) == [channel |-> channel, version |-> None, revision |-> None]

(* The rows, newest first: of what the filter leaves, a version comes after *)
(* those that are newer.                                                    *)
RowsOf(table, input) ==
  LET left == {v \in Versions : table[v] # None /\ input \in {None, v}}
  IN [row \in 1..Cardinality(left) |->
        CHOOSE v \in left : Cardinality({w \in left : w > v}) = row - 1]
Rows == RowsOf(versions, filter.input)

(* noted: "crossed", that a version was written while another request was  *)
(* in flight, or its answer was lost; "overtaken", that two lists were     *)
(* asked for at once; "between", that a version was written before the     *)
(* list of its channel arrived; "unlisted", that a list failed, until      *)
(* another arrives.                                                        *)
Note(kinds) == noted' = noted \union kinds

-----------------------------------------------------------------------------
\* Mutant: the dialog of a row that is gone stays open.
Keep_Dialog(n, kept) ==
  /\ calls' = Unheard(kept, LAMBDA c : c.op # "list" /\ c.from > n)
  /\ dialog' = dialog

(* Rows that are gone take their dialog and their requests with them.      *)
Keep(n, kept) ==
  /\ calls' = Unheard(kept, LAMBDA c : c.op # "list" /\ c.from > n)
  /\ dialog' = IF dialog = None \/ dialog.row > n THEN None ELSE dialog

(* The filter emits: the versions of its channel are asked for again, also *)
(* after every character that is typed.                                    *)
Filter(f) ==
  /\ dialog = None /\ asked < MaxSent
  /\ asked' = asked + 1
  /\ filter' = f
  /\ LET left == Len(RowsOf(versions, f.input))
         kept == Unheard(calls, LAMBDA c : c.op # "list" /\ c.from > left)
     IN SendAfter(kept, "list", None, Of(f.channel))
  /\ Note((IF Requests({"list"}) # {} THEN {"overtaken"} ELSE {})
          \union (IF Requests(VersionWrites) # {} THEN {"crossed"} ELSE {}))
  /\ UNCHANGED <<published, versions, dialog, faults>>

SwitchChannel(channel) == Filter([channel |-> channel, input |-> None])
Type(input) == input # filter.input /\ Filter([filter EXCEPT !.input = input])

(* Folding the versions of a base away unmounts their rows.                *)
Fold ==
  /\ dialog = None
  /\ Requests(VersionWrites) # {}
  /\ calls' = Unheard(calls, LAMBDA c : c.op # "list")
  /\ Note({"crossed"})
  /\ UNCHANGED <<versionVars, asked, faults>>

-----------------------------------------------------------------------------
(* The prompts.                                                            *)

Open(op, row, to) ==
  /\ dialog = None /\ row \in DOMAIN Rows
  /\ dialog' = [op |-> op, row |-> row, to |-> to]
  /\ UNCHANGED <<published, filter, versions, calls, asked, faults, noted>>

OpenDelete(row) == Open("delete", row, None)
(* allowChannels: those after the channel of the page.                     *)
OpenPublish(row, to) == to > filter.channel /\ Open("publish", row, to)

(* The prompt and its request read the row as it is by then, which a list  *)
(* or a deletion may have given to another version, and the channel the    *)
(* page is switched to.                                                    *)
Confirm ==
  /\ dialog # None
  /\ LET v == Rows[dialog.row]
     IN Ask(dialog.op, dialog.row,
            [channel |-> IF dialog.op = "delete" THEN filter.channel ELSE dialog.to,
             version |-> v, revision |-> versions[v]])
  /\ dialog' = None
  /\ Note((IF Requests(VersionWrites) = {} THEN {} ELSE {"crossed"})
          \union (IF Requests({"list"}) = {} THEN {} ELSE {"between"}))
  /\ UNCHANGED <<published, filter, versions, faults>>

Cancel ==
  /\ dialog # None /\ dialog' = None
  /\ UNCHANGED <<published, filter, versions, requestVars>>

-----------------------------------------------------------------------------
(* The server.                                                             *)

(* Publishing leaves a version that is there as it is.                     *)
ServeVersions(c) ==
  /\ ~c.served
  /\ \/ /\ c.op = "list"
        /\ UNCHANGED published
        /\ Answer(c, published[c.arg.channel])
     \/ /\ c.op = "delete"
        /\ published' = [published EXCEPT ![c.arg.channel][c.arg.version] = None]
        /\ Answer(c, TRUE)
     \/ /\ c.op = "publish"
        /\ published' = [published EXCEPT ![c.arg.channel][c.arg.version] =
                           IF @ = None THEN c.arg.revision ELSE @]
        /\ Answer(c, TRUE)
  /\ UNCHANGED <<filter, versions, dialog, asked, faults, noted>>

LoseVersions(c) ==
  /\ \/ c.op \in VersionWrites /\ Fail(c) /\ Note({"crossed"})
     \/ c.op = "list" /\ FailUnseen(c) /\ Note({"unlisted"})
  /\ UNCHANGED <<versionVars, asked>>

-----------------------------------------------------------------------------
(* The answers.                                                            *)

VersionsBecome(new, kept) ==
  /\ versions' = new
  /\ Keep(Len(RowsOf(new, filter.input)), kept)

(* The versions of the answer are shown, of whatever channel they are.     *)
VersionsListed(c) ==
  /\ Heard(c, "list")
  /\ VersionsBecome(c.answer, calls \ {c})
  /\ noted' = noted \ {"unlisted"}
  /\ UNCHANGED <<published, filter, asked, faults>>

\* Mutant: the first row is taken away.
VersionDeleted_First(c) ==
  /\ Heard(c, "delete")
  /\ VersionsBecome(IF Rows = <<>> THEN versions ELSE [versions EXCEPT ![Rows[1]] = None],
                    calls \ {c})
  /\ UNCHANGED <<published, filter, asked, faults, noted>>

(* What the row that asked shows by now is taken away.                     *)
VersionDeleted(c) ==
  /\ Heard(c, "delete")
  /\ VersionsBecome([versions EXCEPT ![Rows[c.from]] = None], calls \ {c})
  /\ UNCHANGED <<published, filter, asked, faults, noted>>

(* Nobody listens for what was published.                                  *)
VersionPublished(c) ==
  /\ Heard(c, "publish")
  /\ calls' = calls \ {c}
  /\ UNCHANGED <<versionVars, asked, faults, noted>>

-----------------------------------------------------------------------------
VersionsInit ==
  /\ published \in [Stages -> Table]
  /\ filter = [channel |-> 1, input |-> None]
  /\ versions = NoVersions /\ dialog = None
  /\ RequestsInit(Of(1))

VersionsNext ==
  \/ \E ch \in Stages : SwitchChannel(ch)
  \/ \E v \in Versions \union {None} : Type(v)
  \/ Fold \/ Confirm \/ Cancel
  \/ \E row \in 1..Cardinality(Versions) :
       OpenDelete(row) \/ \E to \in Stages : OpenPublish(row, to)
  \/ \E c \in calls :
       \/ ServeVersions(c) \/ LoseVersions(c)
       \/ VersionsListed(c) \/ VersionDeleted(c) \/ VersionPublished(c)
       \/ Ignored(c) /\ UNCHANGED versionVars

-----------------------------------------------------------------------------
VersionsTyped ==
  /\ published \in [Stages -> Table] /\ versions \in Table
  /\ filter \in [channel: Stages, input: Versions \union {None}]
  /\ dialog \in Dialogs \union {None}
  /\ RequestsTyped({"list"} \union VersionWrites)
  /\ dialog # None => dialog.row \in DOMAIN Rows
  /\ \A c \in Requests(VersionWrites) : c.heard => c.from \in DOMAIN Rows

(* When everything is answered, the page shows the versions of its         *)
(* channel, through deletions and publications one at a time.  But for a   *)
(* list that failed: then it shows, until another list arrives, what it    *)
(* showed before, which after a switch are the versions of the channel     *)
(* before, to be deleted from and published out of the new one             *)
(* (GroupKubepkgVersionList.tsx:189-210).                                  *)
VersionsAgree ==
  calls = {} /\ noted \intersect {"crossed", "overtaken", "between", "unlisted"} = {} =>
    versions = published[filter.channel]
=============================================================================
