------------------------------- MODULE Agenda -------------------------------
(***************************************************************************)
(* Activities: backend/src/activities/activities.service.ts with its       *)
(* policy and period rules, and the deletion of a ticket as far as it      *)
(* takes activities with it.                                               *)
(*                                                                         *)
(* A request is a process, a step is one SQL statement and the code after  *)
(* it, as in module Sessions.  Nothing in the database rejects two         *)
(* overlapping rows, so the rule rests on a read that precedes the write.  *)
(***************************************************************************)
EXTENDS Integers, FiniteSets

CONSTANTS
  Technicians,   \* users that pass canCreateActivity
  Supers,        \* those among them that are superusers
  Tickets,       \* tickets the table may hold
  Requests,      \* requests, each served once
  MaxActivities, \* bound: activities ever created
  Times,         \* points of the wall clock
  MaxLength,     \* MAX_ACTIVITY_HOURS
  MonthLength,   \* points of the clock in a month
  NoRow, NoRequest

Ids == 1 .. MaxActivities

(* startedAt and endedAt as the body gives them, in any order; and those   *)
(* validateActivityPeriod accepts: in order, at most twelve hours.         *)
Inputs  == [from : Times, to : Times]
Periods == {p \in Inputs : p.to > p.from /\ p.to - p.from <= MaxLength}

Month(t) == t \div MonthLength
Months   == {Month(t) : t \in Times}

Rows == [ticket : Tickets, by : Technicians, period : Periods]

(* The acting technician, the ticket, the activity (0 for a new one) and   *)
(* the period typed (for a deletion, the stored one).                       *)
Args == [op : {"create", "edit", "erase"}, who : Technicians, ticket : Tickets,
         id : 0 .. MaxActivities, period : Inputs]

ASSUME AgendaAssumption ==
  /\ Supers \subseteq Technicians
  /\ MaxActivities \in Nat
  /\ Times \subseteq Nat
  /\ MaxLength \in Nat /\ MonthLength \in Nat \ {0}
  /\ NoRow \notin Rows /\ NoRequest \notin Args

VARIABLES
  tickets,  \* ticket rows present
  rows,     \* the activity table
  created,  \* activities created so far
  month,    \* the current month on the wall clock
  trail,    \* entries of the audit log for the deletion of an activity
  pc,       \* next statement of a request, or how it ended
  arg,      \* what a request carries
  doubled   \* history: technicians that had two saves under way at once

vars == <<tickets, rows, created, month, trail, pc, arg, doubled>>

Steps == {"check", "insert", "save", "delete", "audit"}
Ended == {"ok", "denied", "error"}

Stored == {a \in Ids : rows[a] # NoRow}

TypeOK ==
  /\ tickets \subseteq Tickets
  /\ rows \in [Ids -> Rows \cup {NoRow}]
  /\ created \in 0 .. MaxActivities
  /\ month \in Months
  /\ trail \in [Ids -> Nat]
  /\ pc \in [Requests -> {"idle"} \cup Steps \cup Ended]
  /\ arg \in [Requests -> Args \cup {NoRequest}]
  /\ doubled \subseteq Technicians
  /\ \A a \in Stored : a <= created /\ rows[a].ticket \in tickets
  /\ \A r \in Requests :
       /\ pc[r] \in Steps => arg[r] \in Args
       /\ pc[r] \in {"check", "insert", "save"} => arg[r].period \in Periods
       /\ pc[r] \in {"save", "delete", "audit"} => arg[r].id \in 1 .. created

Init ==
  /\ tickets = Tickets
  /\ rows = [a \in Ids |-> NoRow]
  /\ created = 0
  /\ month \in Months
  /\ trail = [a \in Ids |-> 0]
  /\ pc = [r \in Requests |-> "idle"]
  /\ arg = [r \in Requests |-> NoRequest]
  /\ doubled = {}

-----------------------------------------------------------------------------
(* Rules *)

AnyOrder(p) == p.to - p.from <= MaxLength \* mutant: the order is not checked
Accepts(p) == p.to > p.from /\ p.to - p.from <= MaxLength

(* intervalsOverlap: adjacent periods do not overlap.                      *)
Overlap(p, q) == p.from < q.to /\ p.to > q.from

(* assertNoConflict: the technician's rows, in whatever ticket, month or   *)
(* day, but for the one being edited.                                      *)
SameTicketOnly(a) == \* mutant: the other tickets are not looked at
  \E b \in Stored \ {a.id} :
    /\ rows[b].by = a.who /\ rows[b].ticket = a.ticket
    /\ Overlap(rows[b].period, a.period)
Conflict(a) ==
  \E b \in Stored \ {a.id} :
    rows[b].by = a.who /\ Overlap(rows[b].period, a.period)

(* canDeleteByMonth on the wall clock.                                     *)
MayErase(k, a) == k \in Supers \/ Month(rows[a].period.from) = month

Saving(r) == pc[r] \in {"check", "insert", "save"}

(* Another save of the technician is under way.                            *)
Busy(k) == \E q \in Requests : Saving(q) /\ arg[q].who = k

NoteSave(k) == doubled' = IF Busy(k) THEN doubled \cup {k} ELSE doubled

Start(r, a, next) ==
  /\ pc[r] = "idle"
  /\ arg' = [arg EXCEPT ![r] = IF next \in Steps THEN a ELSE NoRequest]
  /\ pc' = [pc EXCEPT ![r] = next]

Goto(r, from, next) ==
  /\ pc[r] = from
  /\ arg' = [arg EXCEPT ![r] = IF next \in Steps THEN @ ELSE NoRequest]
  /\ pc' = [pc EXCEPT ![r] = next]
  /\ UNCHANGED doubled

Request(o, k, t, a, p) == [op |-> o, who |-> k, ticket |-> t, id |-> a, period |-> p]

-----------------------------------------------------------------------------
(* Handlers *)

(* create: the ticket is read, then the period is validated.               *)
CreateStart(r, k, t, p) ==
  /\ NoteSave(k)
  /\ Start(r, Request("create", k, t, 0, p),
           IF t \in tickets /\ Accepts(p) THEN "check" ELSE "denied")
  /\ UNCHANGED <<tickets, rows, created, month, trail>>

(* update: the activity is looked for in the ticket of the path; only its  *)
(* author edits it.  The read of the ticket adds nothing: activities do    *)
(* not outlive their ticket.                                               *)
EditStart(r, k, t, a, p) ==
  LET found == a \in Stored /\ rows[a].ticket = t /\ rows[a].by = k
  IN /\ NoteSave(k)
     /\ a <= created
     /\ Start(r, Request("edit", k, t, a, p),
              IF found /\ Accepts(p) THEN "check" ELSE "denied")
     /\ UNCHANGED <<tickets, rows, created, month, trail>>

(* The query of assertNoConflict.                                          *)
Check(r) ==
  /\ Goto(r, "check", IF Conflict(arg[r]) THEN "denied"
                      ELSE IF arg[r].id = 0 THEN "insert" ELSE "save")
  /\ UNCHANGED <<tickets, rows, created, month, trail>>

(* INSERT; the foreign key needs the ticket.  The notification that        *)
(* follows changes no state of this module.                                *)
Insert(r) ==
  /\ pc[r] = "insert"
  /\ UNCHANGED <<tickets, month, trail>>
  /\ \/ /\ arg[r].ticket \in tickets
        /\ created < MaxActivities
        /\ Goto(r, "insert", "ok")
        /\ created' = created + 1
        /\ rows' = [rows EXCEPT ![created + 1] =
             [ticket |-> arg[r].ticket, by |-> arg[r].who, period |-> arg[r].period]]
     \/ /\ arg[r].ticket \notin tickets
        /\ Goto(r, "insert", "error")
        /\ UNCHANGED <<created, rows>>

(* UPDATE by id alone; it throws when the row is gone.                     *)
Save(r) ==
  LET a == arg[r].id
  IN /\ pc[r] = "save"
     /\ UNCHANGED <<tickets, created, month, trail>>
     /\ \/ /\ a \in Stored
           /\ Goto(r, "save", "ok")
           /\ rows' = [rows EXCEPT ![a] =
                [ticket |-> rows[a].ticket, by |-> rows[a].by, period |-> arg[r].period]]
        \/ /\ a \notin Stored
           /\ Goto(r, "save", "error")
           /\ UNCHANGED rows

(* remove: any technician erases an activity of the current month, a       *)
(* superuser any activity.                                                 *)
EraseStart(r, k, t, a) ==
  LET found == a \in Stored /\ rows[a].ticket = t
  IN /\ a <= created
     /\ \/ /\ found /\ MayErase(k, a)
           /\ Start(r, Request("erase", k, t, a, rows[a].period), "delete")
        \/ /\ ~(found /\ MayErase(k, a))
           /\ Start(r, NoRequest, "denied")
     /\ UNCHANGED <<tickets, rows, created, month, trail, doubled>>

(* DELETE by id throws when the row is gone.                               *)
Tolerates(a) == FALSE \* mutant: deleteMany in place of delete
Throws(a) == a \notin Stored

Erase(r) ==
  LET a == arg[r].id
  IN /\ pc[r] = "delete"
     /\ UNCHANGED <<tickets, created, month, trail>>
     /\ \/ /\ ~Throws(a)
           /\ Goto(r, "delete", "audit")
           /\ rows' = [rows EXCEPT ![a] = NoRow]
        \/ /\ Throws(a)
           /\ Goto(r, "delete", "error")
           /\ UNCHANGED rows

(* The audit entry; recording never fails the request.                     *)
RecordErasure(r) ==
  /\ Goto(r, "audit", "ok")
  /\ trail' \in {trail, [trail EXCEPT ![arg[r].id] = @ + 1]}
  /\ UNCHANGED <<tickets, rows, created, month>>

(* DELETE of a ticket row takes its activities with it (ON DELETE CASCADE). *)
DropTicket(t) ==
  /\ t \in tickets
  /\ tickets' = tickets \ {t}
  /\ rows' = [a \in Ids |-> IF a \in Stored /\ rows[a].ticket = t THEN NoRow ELSE rows[a]]
  /\ UNCHANGED <<created, month, trail, pc, arg, doubled>>

PassTime ==
  /\ \E m \in Months : m > month /\ month' = m
  /\ UNCHANGED <<tickets, rows, created, trail, pc, arg, doubled>>

-----------------------------------------------------------------------------

Arrive(r) ==
  /\ pc[r] = "idle"
  /\ \E k \in Technicians, t \in Tickets :
       \/ \E p \in Inputs : CreateStart(r, k, t, p)
       \/ \E p \in Inputs, a \in Ids : EditStart(r, k, t, a, p)
       \/ \E a \in Ids : EraseStart(r, k, t, a)

Continue(r) ==
  \/ Check(r)
  \/ Insert(r)
  \/ Save(r)
  \/ Erase(r)
  \/ RecordErasure(r)

Next ==
  \/ \E r \in Requests : Arrive(r) \/ Continue(r)
  \/ \E t \in Tickets : DropTicket(t)
  \/ PassTime

Spec == Init /\ [][Next]_vars

-----------------------------------------------------------------------------
(* Properties *)

(* LEGACY_CONTRACTS.md:524: no two activities of one technician overlap,   *)
(* in whatever tickets they are.                                           *)
NoOverlapAmong(them) ==
  \A a, b \in Stored :
    (a # b /\ rows[a].by = rows[b].by /\ rows[a].by \in them)
      => ~Overlap(rows[a].period, rows[b].period)

(* As the document has it, for everybody.                                  *)
NoOverlap == NoOverlapAmong(Technicians)

(* The check of a save protects the technicians that never had two saves   *)
(* under way at once, whatever the others do: it outlives the edits,       *)
(* deletions and cascades that fall between the check and the write.       *)
NoOverlapAlone == NoOverlapAmong(Technicians \ doubled)

(* activities.service.ts:188: however many requests erase an activity at   *)
(* once, or drop its ticket, the trail records the deletion at most once,  *)
(* and never one that did not happen.                                      *)
ErasureRecordedOnce ==
  \A a \in Ids : trail[a] <= IF a \in Stored THEN 0 ELSE 1

(* The calendars of module Calendar, as the activity table shows them: a   *)
(* technician with two saves under way at once leaves the promise.         *)
Kept == {a \in Stored : rows[a].by \notin doubled}

Promised == INSTANCE Calendar WITH
  booked <- Kept,
  whose  <- [a \in Stored |-> rows[a].by],
  when   <- [a \in Stored |-> rows[a].period]

(* For the other technicians the two statements of a save, whatever comes  *)
(* between them, amount to one atomic booking.                             *)
KeepsCalendar == Promised!Spec
=============================================================================
