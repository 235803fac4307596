------------------------------ MODULE Tickets ------------------------------
(***************************************************************************)
(* Tickets and system modules: backend/src/tickets/tickets.service.ts with *)
(* its policy, backend/src/modules/system-modules.service.ts, and the      *)
(* notices of a status change that reach the client through the event bus. *)
(*                                                                         *)
(* A request is a process, a step is one SQL statement and the code after  *)
(* it, as in module Sessions.  Users change as module Accounts says; texts *)
(* and the audit trail are left out.                                       *)
(***************************************************************************)
EXTENDS FiniteSets

CONSTANTS
  Users, Tickets, Modules,  \* identifiers of the three tables
  Statuses,                 \* what a ticket's status may be
  Requests,                 \* requests, each served once
  None                      \* no row, no request, no technician

Rows == [client : Users, tech : Users \cup {None}, module : Modules,
         status : Statuses, month : {"ahead", "current", "past"}]

Args == [op : {"create", "update", "status", "remove", "toggle", "set", "drop"},
         ticket : Tickets \cup {None}, client : Users \cup {None},
         tech : Users \cup {None}, module : Modules \cup {None},
         to : Statuses \cup {"on", "off", None}, was : Statuses \cup {None}]

ASSUME TicketsAssumption ==
  /\ "aberto" \in Statuses
  /\ None \notin Users \cup Tickets \cup Modules \cup Rows \cup Args
             \cup Statuses \cup {"on", "off"}

VARIABLES
  role,     \* role of a user, "gone" when there is no row
  active,   \* "on" or "off" for a system module, "gone" when there is no row
  rows,     \* the ticket table; month: the UTC month of created_at, against
            \* the current month on the wall clock, which is three hours late
  born,     \* ticket identifiers given out
  told,     \* status in the last notice about a ticket to its client; until
            \* there is one, the status it was created with; None when the
            \* notice of the last change was lost with the process
  pc,       \* next statement of a request, or how it ended
  arg,      \* what a request carries
  late      \* history: requests that started while another one about the
            \* same ticket or module was under way

vars == <<role, active, rows, born, told, pc, arg, late>>

Steps == {"client", "module", "tech", "insert", "save", "publish", "delete",
          "switch", "count", "drop"}
Ended == {"ok", "denied", "error", "lost"}

Stored == {t \in Tickets : rows[t] # None}

(* What a request carries at each statement.                               *)
RequestOK(r) ==
  LET a == arg[r]
  IN /\ pc[r] \in Steps => a \in Args
     /\ pc[r] \in {"client", "module", "tech", "insert"} => a.op \in {"create", "update"}
     /\ pc[r] = "insert" => a.op = "create"
     /\ pc[r] = "save" => a.op \in {"update", "status"}
     /\ pc[r] \in {"client", "module", "tech", "insert", "save"} /\ a.op # "status"
          => a.client \in Users /\ a.module \in Modules
     /\ pc[r] \in {"client", "module", "tech", "save"} /\ a.op # "create"
          => a.ticket \in born /\ a.to \in Statuses
     /\ pc[r] = "tech" => a.tech \in Users
     /\ pc[r] \in {"publish", "delete"} => a.ticket \in born
     /\ pc[r] = "publish" => a.to \in Statuses
     /\ pc[r] \in {"switch", "count", "drop"} => a.module \in Modules
     /\ pc[r] = "switch" => a.to \in {"on", "off"}

TypeOK ==
  /\ role \in [Users -> {"client", "technician", "gone"}]
  /\ active \in [Modules -> {"on", "off", "gone"}]
  /\ rows \in [Tickets -> Rows \cup {None}]
  /\ Stored \subseteq born /\ born \subseteq Tickets
  /\ told \in [Tickets -> Statuses \cup {None}]
  /\ pc \in [Requests -> {"idle"} \cup Steps \cup Ended]
  /\ arg \in [Requests -> Args \cup {None}]
  /\ late \subseteq Requests
  /\ \A r \in Requests : RequestOK(r)

Init ==
  /\ role \in [Users -> {"client", "technician"}]
  /\ active \in [Modules -> {"on", "off"}]
  /\ rows = [t \in Tickets |-> None]
  /\ born = {}
  /\ told = [t \in Tickets |-> "aberto"]
  /\ pc = [r \in Requests |-> "idle"]
  /\ arg = [r \in Requests |-> None]
  /\ late = {}

-----------------------------------------------------------------------------
(* Requests *)

Names(a) == {a.ticket, a.module} \ {None}

(* Another request about the same ticket or module is under way.           *)
Shared(a) ==
  \E q \in Requests : pc[q] \in Steps /\ Names(arg[q]) \cap Names(a) # {}

Start(r, a, next) ==
  /\ pc[r] = "idle"
  /\ late' = IF Shared(a) THEN late \cup {r} ELSE late
  /\ arg' = [arg EXCEPT ![r] = IF next \in Steps THEN a ELSE None]
  /\ pc' = [pc EXCEPT ![r] = next]

Goto(r, from, next) ==
  /\ pc[r] = from
  /\ arg' = [arg EXCEPT ![r] = IF next \in Steps THEN @ ELSE None]
  /\ pc' = [pc EXCEPT ![r] = next]
  /\ UNCHANGED late

Request(o, t, c, k, m, to, was) ==
  [op |-> o, ticket |-> t, client |-> c, tech |-> k, module |-> m, to |-> to, was |-> was]

(* canDeleteTicket: the current month, or a superuser.                     *)
MayDelete(super, t) == super \/ rows[t].month = "current"

-----------------------------------------------------------------------------
(* Tickets *)

(* create, whose client is the actor or, for the staff, the one chosen     *)
(* (resolveTicketClientId): the client is looked up first.                 *)
CreateStart(r, c, k, m) ==
  /\ Start(r, Request("create", None, c, k, m, None, None),
           IF role[c] = "client" THEN "module" ELSE "denied")
  /\ UNCHANGED <<role, active, rows, born, told>>

UpdateStart(r, t, c, k, m, s) ==
  /\ \/ /\ t \in Stored
        /\ Start(r, Request("update", t, c, k, m, s, rows[t].status), "client")
     \/ /\ t \notin Stored
        /\ Start(r, Request("update", t, c, k, m, s, None), "denied")
  /\ UNCHANGED <<role, active, rows, born, told>>

FindClient(r) ==
  /\ Goto(r, "client", IF role[arg[r].client] = "client" THEN "module" ELSE "denied")
  /\ UNCHANGED <<role, active, rows, born, told>>

(* A new ticket needs an active module; a ticket that is edited, any.      *)
AnyStored(o) == {"on", "off"} \* mutant: creation does not ask for an active one
Accepted(o) == IF o = "create" THEN {"on"} ELSE {"on", "off"}

Anyone(k) == TRUE \* mutant: looked up even when none was chosen
Chosen(k) == k # None

FindModule(r) ==
  LET a == arg[r]
  IN /\ Goto(r, "module",
             IF active[a.module] \notin Accepted(a.op) THEN "denied"
             ELSE IF Chosen(a.tech) THEN "tech"
             ELSE IF a.op = "create" THEN "insert" ELSE "save")
     /\ UNCHANGED <<role, active, rows, born, told>>

(* resolveTechnicianId, when one is given.                                 *)
FindTechnician(r) ==
  LET a == arg[r]
  IN /\ Goto(r, "tech", IF role[a.tech] # "technician" THEN "denied"
                        ELSE IF a.op = "create" THEN "insert" ELSE "save")
     /\ UNCHANGED <<role, active, rows, born, told>>

(* The foreign keys of a ticket, which INSERT and UPDATE need.             *)
KeysHold(a) ==
  /\ role[a.client] # "gone"
  /\ a.tech # None => role[a.tech] # "gone"
  /\ active[a.module] # "gone"

(* INSERT.  The notice that follows goes to technicians.                   *)
Insert(r) ==
  LET a == arg[r]
  IN /\ pc[r] = "insert"
     /\ UNCHANGED <<role, active>>
     /\ \/ \E t \in Tickets \ born, m \in {"ahead", "current"} :
             /\ KeysHold(a)
             /\ Goto(r, "insert", "ok")
             /\ rows' = [rows EXCEPT ![t] =
                  [client |-> a.client, tech |-> a.tech, module |-> a.module,
                   status |-> "aberto", month |-> m]]
             /\ born' = born \cup {t}
             /\ told' = [told EXCEPT ![t] = "aberto"]
        \/ /\ ~KeysHold(a)
           /\ Goto(r, "insert", "error")
           /\ UNCHANGED <<rows, born, told>>

(* changeStatus: the previous status is read, then written over.           *)
StatusStart(r, t, s) ==
  /\ \/ /\ t \in Stored
        /\ Start(r, Request("status", t, None, None, None, s, rows[t].status), "save")
     \/ /\ t \notin Stored
        /\ Start(r, Request("status", t, None, None, None, s, None), "denied")
  /\ UNCHANGED <<role, active, rows, born, told>>

(* A notice is due when the status written is not the one that was read.   *)
Always(a) == TRUE \* mutant: every update notifies
Never(a) == FALSE \* mutant: no update notifies
Due(a) == a.was # a.to

(* UPDATE by id; it throws when the row is gone.                           *)
Edited(a) ==
  IF a.op = "status" THEN [rows[a.ticket] EXCEPT !.status = a.to]
  ELSE [client |-> a.client, tech |-> a.tech, module |-> a.module,
        status |-> a.to, month |-> rows[a.ticket].month]

Writable(a) == a.ticket \in Stored /\ (a.op = "update" => KeysHold(a))

Save(r) ==
  LET a == arg[r]
  IN /\ pc[r] = "save"
     /\ UNCHANGED <<role, active, born, told>>
     /\ \/ /\ Writable(a)
           /\ Goto(r, "save", IF Due(a) THEN "publish" ELSE "ok")
           /\ rows' = [rows EXCEPT ![a.ticket] = Edited(a)]
        \/ /\ ~Writable(a)
           /\ Goto(r, "save", "error")
           /\ UNCHANGED rows

(* publishStatusChanged: the notice tells the status that was written.     *)
Publish(r) ==
  /\ Goto(r, "publish", "ok")
  /\ told' = [told EXCEPT ![arg[r].ticket] = arg[r].to]
  /\ UNCHANGED <<role, active, rows, born>>

RemoveStart(r, t, super) ==
  LET may == t \in Stored /\ MayDelete(super, t)
  IN /\ Start(r, Request("remove", t, None, None, None, None, None),
              IF may THEN "delete" ELSE "denied")
     /\ UNCHANGED <<role, active, rows, born, told>>

Delete(r) ==
  LET t == arg[r].ticket
  IN /\ pc[r] = "delete"
     /\ UNCHANGED <<role, active, born, told>>
     /\ \/ /\ t \in Stored
           /\ Goto(r, "delete", "ok")
           /\ rows' = [rows EXCEPT ![t] = None]
        \/ /\ t \notin Stored
           /\ Goto(r, "delete", "error")
           /\ UNCHANGED rows

-----------------------------------------------------------------------------
(* System modules *)

Opposite(v) == IF v = "on" THEN "off" ELSE "on"

(* toggle: what will be written is the opposite of what is read.           *)
ToggleStart(r, m) ==
  /\ Start(r, Request("toggle", None, None, None, m, Opposite(active[m]), None),
           IF active[m] # "gone" THEN "switch" ELSE "denied")
  /\ UNCHANGED <<role, active, rows, born, told>>

(* update, of the situation; the name is not modelled.                     *)
SetStart(r, m, v) ==
  /\ Start(r, Request("set", None, None, None, m, v, None),
           IF active[m] # "gone" THEN "switch" ELSE "denied")
  /\ UNCHANGED <<role, active, rows, born, told>>

Switch(r) ==
  LET m == arg[r].module
  IN /\ pc[r] = "switch"
     /\ UNCHANGED <<role, rows, born, told>>
     /\ \/ /\ active[m] # "gone"
           /\ Goto(r, "switch", "ok")
           /\ active' = [active EXCEPT ![m] = arg[r].to]
        \/ /\ active[m] = "gone"
           /\ Goto(r, "switch", "error")
           /\ UNCHANGED active

Uses(m) == {t \in Stored : rows[t].module = m}

(* remove: the tickets are counted, and the foreign key restricts.         *)
DropStart(r, m) ==
  /\ Start(r, Request("drop", None, None, None, m, None, None),
           IF active[m] # "gone" THEN "count" ELSE "denied")
  /\ UNCHANGED <<role, active, rows, born, told>>

CountTickets(r) ==
  /\ Goto(r, "count", IF Uses(arg[r].module) = {} THEN "drop" ELSE "denied")
  /\ UNCHANGED <<role, active, rows, born, told>>

AnyModule(m) == active[m] # "gone" \* mutant: the keys do not restrict
Droppable(m) == active[m] # "gone" /\ Uses(m) = {}

Drop(r) ==
  LET m == arg[r].module
  IN /\ pc[r] = "drop"
     /\ UNCHANGED <<role, rows, born, told>>
     /\ \/ /\ Droppable(m)
           /\ Goto(r, "drop", "ok")
           /\ active' = [active EXCEPT ![m] = "gone"]
        \/ /\ ~Droppable(m)
           /\ Goto(r, "drop", "error")
           /\ UNCHANGED active

-----------------------------------------------------------------------------
(* The rest of the system *)

Serves(u) == {t \in Stored : u \in {rows[t].client, rows[t].tech}}

(* An administrator changes a role, or removes a user no ticket refers to. *)
ChangeRole(u) ==
  /\ role[u] # "gone"
  /\ role' = [role EXCEPT ![u] = IF @ = "client" THEN "technician" ELSE "client"]
  /\ UNCHANGED <<active, rows, born, told, pc, arg, late>>

RemoveUser(u) ==
  /\ role[u] # "gone" /\ Serves(u) = {}
  /\ role' = [role EXCEPT ![u] = "gone"]
  /\ UNCHANGED <<active, rows, born, told, pc, arg, late>>

(* The month ends on the wall clock.                                       *)
Older == [ahead |-> "current", current |-> "past", past |-> "past"]

PassMonth ==
  /\ \E t \in Stored : rows[t].month # "past"
  /\ rows' = [t \in Tickets |->
       IF t \in Stored THEN [rows[t] EXCEPT !.month = Older[@]] ELSE None]
  /\ UNCHANGED <<role, active, born, told, pc, arg, late>>

(* The process stops, and every request with it: what a statement wrote    *)
(* stays, and a notice that was due after it is never published.           *)
Unpublished == {t \in Tickets : \E r \in Requests : pc[r] = "publish" /\ arg[r].ticket = t}

Crash ==
  /\ \E r \in Requests : pc[r] \in Steps
  /\ pc' = [r \in Requests |-> IF pc[r] \in Steps THEN "lost" ELSE pc[r]]
  /\ arg' = [r \in Requests |-> None]
  /\ told' = [t \in Tickets |-> IF t \in Unpublished THEN None ELSE told[t]]
  /\ UNCHANGED <<role, active, rows, born, late>>

-----------------------------------------------------------------------------

Arrive(r) ==
  /\ pc[r] = "idle"
  /\ \/ \E c \in Users, k \in Users \cup {None}, m \in Modules :
          \/ CreateStart(r, c, k, m)
          \/ \E t \in born, s \in Statuses : UpdateStart(r, t, c, k, m, s)
     \/ \E t \in born :
          \/ \E s \in Statuses : StatusStart(r, t, s)
          \/ \E super \in BOOLEAN : RemoveStart(r, t, super)
     \/ \E m \in Modules :
          \/ ToggleStart(r, m) \/ DropStart(r, m)
          \/ \E v \in {"on", "off"} : SetStart(r, m, v)

Continue(r) ==
  \/ FindClient(r) \/ FindModule(r) \/ FindTechnician(r)
  \/ Insert(r) \/ Save(r) \/ Publish(r) \/ Delete(r)
  \/ Switch(r) \/ CountTickets(r) \/ Drop(r)

Next ==
  \/ \E r \in Requests : Arrive(r) \/ Continue(r)
  \/ \E u \in Users : ChangeRole(u) \/ RemoveUser(u)
  \/ PassMonth \/ Crash

Spec == Init /\ [][Next]_vars

-----------------------------------------------------------------------------
(* Properties *)

(* However creations, edits and deletions race, no ticket is left without  *)
(* its client, its technician or its module: what the counts before a      *)
(* deletion (system-modules.service.ts:185, users.service.ts:272) miss is  *)
(* left to the keys.                                                       *)
ReferencesExist ==
  \A t \in Stored : KeysHold(rows[t])

(* The other properties are of systems where no two requests about one     *)
(* ticket or module have been under way together, for the code reads and   *)
(* writes in separate statements.                                          *)
Unshared == late = {}

(* A ticket at rest has the status of the last notice about it             *)
(* (tickets.service.ts:369 and 403), unless the process stopped between    *)
(* the last change of that status and its notice: nothing tells it later.  *)
NoticesCurrent ==
  \A t \in Stored :
    (\A r \in Requests : pc[r] \in Steps => arg[r].ticket # t)
      => told[t] \in {rows[t].status, None}

(* The client of a ticket at rest knows its status, or a crash kept it     *)
(* from the client: later notices still tell the status of the ticket.     *)
ClientKnowsStatus == Unshared => NoticesCurrent

(* tickets.service.ts:402: a notice is sent only when the status changed,  *)
(* so no two in a row tell the same, however many crashes come between.    *)
NoticeTellsChange ==
  [][Unshared => \A r \in Requests :
       (pc[r] = "publish" /\ pc'[r] = "ok") => told[arg[r].ticket] # arg[r].to]_vars

(* tickets.service.ts:278: a ticket is only ever created in a module that  *)
(* is active then.                                                         *)
ActiveAtCreation ==
  [][Unshared => \A t \in Tickets :
       t \in born' \ born => active[rows'[t].module] = "on"]_vars
=============================================================================
