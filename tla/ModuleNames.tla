---------------------------- MODULE ModuleNames ----------------------------
(***************************************************************************)
(* The names of system modules: backend/src/modules/system-modules.service *)
(* and its unique index on lower(name).  Tickets.tla has the rules between *)
(* a module and its tickets; here only whether the count found any.        *)
(*                                                                         *)
(* A name is a word and a way to write it, as in "ERP" and "erp".          *)
(***************************************************************************)
EXTENDS Naturals

CONSTANTS
  Modules,    \* ids
  Names,      \* pairs of a word and a spelling
  Requests    \* requests, each of one operation

NamesAssumption == \A n \in Names : n = <<n[1], n[2]>>

VARIABLES
  mods,   \* id -> [name, active], or Gone
  req,    \* what each request is doing
  trail   \* audit entries

vars == <<mods, req, trail>>

Gone == [name |-> <<>>, active |-> FALSE]
Rows == [name : Names, active : BOOLEAN]
Alive == {m \in Modules : mods[m] # Gone}

Operations == {"create", "rename", "setActive", "toggle", "remove"}

(* found: the row an operation read; name: what it will write; wrote: the  *)
(* row as its write left it.                                               *)
Idle == [op |-> "none", pc |-> "idle", module |-> 0, name |-> <<>>, found |-> Gone,
         wrote |-> Gone]

TypeOK ==
  /\ mods \in [Modules -> Rows \cup {Gone}]
  /\ \A r \in Requests :
       /\ req[r].op \in Operations \cup {"none"}
       /\ req[r].pc \in {"idle", "check", "count", "write", "record", "done", "409", "404", "500"}
       /\ req[r].found \in Rows \cup {Gone}
  /\ \A e \in trail : e.to \in Rows \cup {Gone}

Init ==
  /\ mods = [m \in Modules |-> Gone]
  /\ req = [r \in Requests |-> Idle]
  /\ trail = {}

(* equalsIgnoreCase, and the index.                                        *)
Same(n, m) == n[1] = m[1]

(* assertNameAvailable: any module, the one being renamed included.        *)
Taken(name) == \E m \in Alive : Same(mods[m].name, name)

Goto(r, pc) == req' = [req EXCEPT ![r].pc = pc]
At(r, pc) == req[r].pc = pc

-----------------------------------------------------------------------------
CreateStart(r, name) ==
  /\ At(r, "idle")
  /\ req' = [req EXCEPT ![r] = [Idle EXCEPT !.op = "create", !.pc = "check", !.name = name]]
  /\ UNCHANGED <<mods, trail>>

(* update, toggle and remove read the row first.  A name that differs only *)
(* in case from the row's own is not checked.                              *)
Find(r, op, m, name) ==
  /\ At(r, "idle")
  /\ req' = [req EXCEPT ![r] =
       [Idle EXCEPT !.op = op, !.module = m, !.name = name, !.found = mods[m],
        !.pc = IF m \notin Alive THEN "404"
               ELSE IF op = "remove" THEN "count"
               ELSE IF op = "rename" /\ ~Same(name, mods[m].name) THEN "check"
               ELSE "write"]]
  /\ UNCHANGED <<mods, trail>>

Check(r) ==
  /\ At(r, "check")
  /\ Goto(r, IF Taken(req[r].name) THEN "409" ELSE "write")
  /\ UNCHANGED <<mods, trail>>

(* remove: a module with tickets is refused.                               *)
CountTickets(r) ==
  /\ At(r, "count")
  /\ \E linked \in BOOLEAN : Goto(r, IF linked THEN "409" ELSE "write")
  /\ UNCHANGED <<mods, trail>>

(* What a request writes into its row; toggle inverts what it read.        *)
Written(r) ==
  LET q == req[r] IN
  CASE q.op = "create" -> [name |-> q.name, active |-> TRUE]
    [] q.op = "rename" -> [mods[q.module] EXCEPT !.name = q.name]
    [] q.op = "setActive" -> [mods[q.module] EXCEPT !.active = TRUE]
    [] q.op = "toggle" -> [mods[q.module] EXCEPT !.active = ~q.found.active]
    [] q.op = "remove" -> Gone

(* Bug for checking: an index on name, which tells "ERP" from "erp".       *)
ClashesBug(row, m) == \E o \in Alive \ {m} : mods[o].name = row.name

(* The unique index on lower(name).                                        *)
Clashes(row, m) == \E o \in Alive \ {m} : Same(mods[o].name, row.name)

(* The write, refused by the index with 409; a row deleted meanwhile is an *)
(* error nobody translates.                                                *)
Write(r, m) ==
  /\ At(r, "write")
  /\ IF req[r].op = "create" THEN m \notin Alive ELSE m = req[r].module
  /\ LET row == Written(r) IN
     IF req[r].op # "create" /\ m \notin Alive
     THEN Goto(r, "500") /\ UNCHANGED <<mods, trail>>
     ELSE IF row # Gone /\ Clashes(row, m)
     THEN Goto(r, "409") /\ UNCHANGED <<mods, trail>>
     ELSE /\ mods' = [mods EXCEPT ![m] = row]
          /\ req' = [req EXCEPT ![r].pc = "record", ![r].module = m, ![r].wrote = row]
          /\ UNCHANGED trail

(* The audit entry: the row read before and what was written; an entry of  *)
(* toggle has the name it read.                                            *)
Record(r) ==
  /\ At(r, "record")
  /\ trail' = trail \cup
       {[op |-> req[r].op, module |-> req[r].module, from |-> req[r].found,
         to |-> req[r].wrote]}
  /\ Goto(r, "done")
  /\ UNCHANGED mods

Next ==
  \E r \in Requests :
    \/ \E n \in Names : CreateStart(r, n)
    \/ \E m \in Modules :
         \/ \E n \in Names : Find(r, "rename", m, n)
         \/ \E op \in {"setActive", "toggle", "remove"} : Find(r, op, m, <<>>)
         \/ Write(r, m)
    \/ Check(r) \/ CountTickets(r) \/ Record(r)

Spec == Init /\ [][Next]_vars

(* listActive: what a new ticket may choose.                               *)
Options == {m \in Alive : mods[m].active}

-----------------------------------------------------------------------------
(* No two modules have names that differ only in case, although the search *)
(* and the write are two statements: system-modules.service.ts, 205-228.   *)
NamesStayDistinct ==
  \A m, o \in Alive : m # o => ~Same(mods[m].name, mods[o].name)

-----------------------------------------------------------------------------
(* What every step keeps, from which the properties above follow:          *)
(* DeskProofs.tla.                                                         *)

(* A row for every id, and names apart.  Nothing is said of what the       *)
(* requests have read: it may be out of date, and does not matter.         *)
IInv ==
  /\ mods = [m \in Modules |-> mods[m]]
  /\ NamesStayDistinct
=============================================================================
