---------------------------- MODULE DashboardLists ----------------------------
(***************************************************************************)
(* The pages that list what they edit: the members and robots of a group   *)
(* (mod/group), the administrators (mod/account), the groups and the       *)
(* clusters (mod/group, mod/cluster).  A page asks for its list when it is *)
(* mounted and after an addition; every row keeps a copy of its own, which *)
(* the answers of its actions change, and its buttons keep the name the    *)
(* row had when they were made.                                            *)
(***************************************************************************)
EXTENDS DashboardRequests

CONSTANTS
  IDs,        \* accountID, groupID or clusterID
  Names,      \* names of groups, robots and clusters
  Vals        \* what else a record says

VARIABLES
  page,       \* which of the pages is open
  entities,   \* [IDs -> the record on the server, or None]
  removed,    \* the names of records that are marked as deleted
  rows        \* [IDs -> the row of the record, or None]

listVars == <<page, entities, removed, rows>>

(* What the pages differ in: is a record addressed by its name or its id;  *)
(* what the buttons of a row do; what an addition writes.                  *)
Members == [byName |-> FALSE, edits |-> TRUE, removes |-> TRUE, renames |-> FALSE,
            adds |-> {CHOOSE v \in Vals : TRUE}]
Admins == Members
Groups == [byName |-> TRUE, edits |-> TRUE, removes |-> TRUE, renames |-> FALSE,
           adds |-> Vals]
Robots == [byName |-> TRUE, edits |-> FALSE, removes |-> FALSE, renames |-> FALSE,
           adds |-> {CHOOSE v \in Vals : TRUE}]
Clusters == [byName |-> TRUE, edits |-> TRUE, removes |-> FALSE, renames |-> TRUE,
             adds |-> Vals]
Pages == {Members, Admins, Groups, Robots, Clusters}

(* addr, the address of a record, is its id for accounts; to is the name a *)
(* rename gives.                                                           *)
Addresses == IF page.byName THEN Names ELSE IDs
Record == [addr: Names \union IDs, val: Vals]
Row == [addr: Names \union IDs, shown: Record \union {None}]
ASSUME ListsAssumption ==
  /\ Vals # {}
  /\ None \notin IDs \union Names \union Record \union Row \union BOOLEAN
  /\ None \notin [IDs -> Record \union {None}]
Arg(addr, val, to) == [addr |-> addr, val |-> val, to |-> to]
Writes == {"put", "delete", "rename"}

Shown(i) == IF rows[i] = None THEN None ELSE rows[i].shown
Hit(addr) == {i \in IDs : entities[i] # None /\ entities[i].addr = addr}
Concerned(c) == {c.arg.addr, c.arg.to} \ {None}

-----------------------------------------------------------------------------
(* noted: the addresses a property excepts, those of writes that were in   *)
(* flight together, or together with a list, that failed, or that a button *)
(* sent with the name its row had before a rename, which may be that of    *)
(* another record by then; and what a list that failed was to show: all,   *)
(* or the addition after which it was asked for, whose address is its arg. *)

Crossing(mine) ==
  LET others == {c \in Requests(Writes) : Concerned(c) \intersect mine # {}}
  IN mine \union UNION {Concerned(c) : c \in others}
Alone(mine) ==
  /\ Requests({"list"}) = {} /\ mine \intersect noted = {}
  /\ \A c \in Requests(Writes) : Concerned(c) \intersect mine = {}

(* The list is asked for after an addition, while kept is in flight.       *)
Reload(kept, addition) ==
  /\ SendAfter(kept, "list", None, addition)
  /\ noted' = noted \union UNION {Concerned(c) : c \in {d \in kept : d.op \in Writes}}

(* A write of the user, by a component of the page, which shows the record *)
(* with the address given, None when it shows none.                        *)
Write(op, from, arg, address) ==
  /\ Ask(op, from, arg)
  /\ LET mine == {arg.addr, arg.to, address} \ {None}
     IN noted' = noted \union (IF Alone(mine) /\ address \in {None, arg.addr} THEN {}
                               ELSE Crossing(mine))
  /\ UNCHANGED <<listVars, faults>>

-----------------------------------------------------------------------------
(* The buttons.                                                            *)

(* The form of the page, or the account chosen in AccountAutocomplete,     *)
(* which offers the accounts of some input: what is there already is put   *)
(* over.                                                                   *)
Add == \E a \in Addresses, v \in page.adds : Write("put", None, Arg(a, v, None), None)

(* A role is only put when it is another one; a form puts what is typed.   *)
Edit(i) ==
  /\ page.edits /\ Shown(i) # None
  /\ \E v \in Vals :
       /\ page.byName \/ v # Shown(i).val
       /\ Write("put", i, Arg(rows[i].addr, v, None), Shown(i).addr)

RemoveRow(i) ==
  /\ page.removes /\ Shown(i) # None
  /\ Write("delete", i, Arg(rows[i].addr, None, None), Shown(i).addr)

Rename(i) ==
  /\ page.renames /\ Shown(i) # None
  /\ \E to \in Names : Write("rename", i, Arg(rows[i].addr, None, to), Shown(i).addr)

-----------------------------------------------------------------------------
(* The server.                                                             *)

(* An id that is of no record, and of none a page may know.                *)
Unused(i) ==
  /\ entities[i] = None /\ rows[i] = None
  /\ \A c \in Requests({"list"}) : c.answer # None => c.answer[i] = None

(* Upserts by address; a new record gets an id of its own, which is its    *)
(* address for accounts.  A put over a name that is marked as deleted      *)
(* updates the deleted row, which stays deleted, and is answered as if it  *)
(* had made one.                                                           *)
Target(addr) ==
  IF Hit(addr) # {} THEN Hit(addr)
  ELSE IF page.byName THEN {i \in IDs : Unused(i)} ELSE {addr}

ServePut(c) ==
  /\ Answer(c, [addr |-> c.arg.addr, val |-> c.arg.val])
  /\ UNCHANGED removed
  /\ \/ c.arg.addr \in removed /\ UNCHANGED entities
     \/ /\ c.arg.addr \notin removed
        /\ \E i \in Target(c.arg.addr) :
             entities' = [entities EXCEPT ![i] = [addr |-> c.arg.addr, val |-> c.arg.val]]

(* Groups are marked as deleted, members and administrators are gone.      *)
ServeDelete(c) ==
  /\ entities' = [i \in IDs |-> IF i \in Hit(c.arg.addr) THEN None ELSE entities[i]]
  /\ removed' = removed \union {a \in {c.arg.addr} : page.byName /\ Hit(a) # {}}
  /\ Answer(c, TRUE)

\* Mutant: a record takes the name of another.
ServeRename_Taken(c) ==
  /\ Hit(c.arg.addr) # {}
  /\ entities' = [i \in IDs |-> IF i \in Hit(c.arg.addr)
                    THEN [entities[i] EXCEPT !.addr = c.arg.to] ELSE entities[i]]
  /\ UNCHANGED removed
  /\ Answer(c, c.arg.to)

(* A name is unique, also among those marked as deleted: renaming to that  *)
(* of another is an error, as is renaming what is not there.               *)
ServeRename(c) ==
  /\ UNCHANGED removed
  /\ \/ /\ Hit(c.arg.addr) # {} /\ Hit(c.arg.to) \subseteq Hit(c.arg.addr)
        /\ c.arg.to \notin removed
        /\ entities' = [i \in IDs |-> IF i \in Hit(c.arg.addr)
                          THEN [entities[i] EXCEPT !.addr = c.arg.to] ELSE entities[i]]
        /\ Answer(c, c.arg.to)
     \/ /\ \/ Hit(c.arg.addr) = {} \/ ~(Hit(c.arg.to) \subseteq Hit(c.arg.addr))
           \/ c.arg.to \in removed
        /\ UNCHANGED entities
        /\ Answer(c, None)

Serve(c) ==
  /\ ~c.served
  /\ \/ c.op = "list" /\ UNCHANGED <<entities, removed>> /\ Answer(c, entities)
     \/ c.op = "put" /\ ServePut(c)
     \/ c.op = "delete" /\ ServeDelete(c)
     \/ c.op = "rename" /\ ServeRename(c)
  /\ UNCHANGED <<page, rows, asked, faults, noted>>

Lose(c) ==
  /\ \/ c.op \in Writes /\ Fail(c) /\ noted' = noted \union Concerned(c)
     \/ /\ c.op = "list" /\ FailUnseen(c)
        /\ noted' = noted \union (IF c.arg = None THEN Names \union IDs ELSE {c.arg})
  /\ UNCHANGED <<listVars, asked>>

-----------------------------------------------------------------------------
(* The answers.                                                            *)

(* The row of a record of the list: kept by its key, the id, it gets the   *)
(* record and keeps the buttons it has.                                    *)
RowOf(i, record) ==
  IF record = None THEN None
  ELSE [addr |-> IF Shown(i) = None THEN record.addr ELSE rows[i].addr,
        shown |-> record]

Listed(c) ==
  /\ Heard(c, "list")
  /\ rows' = [i \in IDs |-> RowOf(i, c.answer[i])]
  /\ calls' = Unheard(calls \ {c}, LAMBDA d : d.from \in IDs /\ rows'[d.from] = None)
  /\ UNCHANGED <<page, entities, removed, asked, faults, noted>>

Added(c) ==
  /\ Heard(c, "put") /\ c.from = None
  /\ Reload(calls \ {c}, c.arg.addr)
  /\ UNCHANGED <<listVars, asked, faults>>

\* Mutant: the answer of a form only sets what the row shows of the value.
Edited_KeepsNothing(c) ==
  /\ Heard(c, "put") /\ c.from \in IDs
  /\ calls' = calls \ {c}
  /\ UNCHANGED <<listVars, asked, faults, noted>>

(* A form's row shows the answer, an account's its role.                   *)
Edited(c) ==
  /\ Heard(c, "put") /\ c.from \in IDs
  /\ rows' = [rows EXCEPT ![c.from].shown =
                IF page.byName THEN c.answer ELSE [@ EXCEPT !.val = c.answer.val]]
  /\ calls' = calls \ {c}
  /\ UNCHANGED <<page, entities, removed, asked, faults, noted>>

(* The buttons go with what was removed.                                   *)
Removed(c) ==
  /\ Heard(c, "delete")
  /\ rows' = [rows EXCEPT ![c.from].shown = None]
  /\ calls' = Unheard(calls \ {c}, LAMBDA d : d.from = c.from)
  /\ UNCHANGED <<page, entities, removed, asked, faults, noted>>

Renamed(c) ==
  /\ Heard(c, "rename")
  /\ rows' = [rows EXCEPT ![c.from].shown.addr = c.answer]
  /\ calls' = calls \ {c}
  /\ UNCHANGED <<page, entities, removed, asked, faults, noted>>

-----------------------------------------------------------------------------
ListsInit ==
  /\ page \in Pages /\ RequestsInit(None)
  /\ entities \in [IDs -> Record \union {None}]
  /\ \A i, j \in IDs : entities[i] # None =>
       /\ entities[i].addr \in Addresses
       /\ ~page.byName => entities[i].addr = i
       /\ i # j /\ entities[j] # None => entities[i].addr # entities[j].addr
  /\ removed \in SUBSET {a \in Names : page = Groups /\ Hit(a) = {}}
  /\ rows = [i \in IDs |-> None]

ListsNext ==
  \/ Add \/ \E i \in IDs : Edit(i) \/ RemoveRow(i) \/ Rename(i)
  \/ \E c \in calls :
       \/ Serve(c) \/ Lose(c)
       \/ Listed(c) \/ Added(c) \/ Edited(c) \/ Removed(c) \/ Renamed(c)
       \/ Ignored(c) /\ UNCHANGED listVars

-----------------------------------------------------------------------------
ListsTyped ==
  /\ entities \in [IDs -> Record \union {None}] /\ rows \in [IDs -> Row \union {None}]
  /\ removed \subseteq Names \union IDs
  /\ RequestsTyped({"list"} \union Writes)

(* A write of a row is for the record of that row, not for one that has    *)
(* its name by now: as long as none is renamed or removed in between.      *)
WriteReachesItsRow ==
  \A c \in Requests(Writes) :
    c.from \in IDs /\ ~c.served /\ Concerned(c) \intersect noted = {}
      => Hit(c.arg.addr) \subseteq {c.from}

(* When everything is answered, a row shows its record, and there are rows *)
(* for no others: for the records no two requests were in flight for, and  *)
(* that no list that failed was to show.                                   *)
RowsAgree ==
  calls = {} =>
    \A i \in IDs :
      \/ entities[i] = Shown(i)
      \/ \E r \in {entities[i], Shown(i)} \ {None} : r.addr \in noted
=============================================================================
