------------------------------ MODULE Accounts ------------------------------
(***************************************************************************)
(* Accounts and their privileges: create, update and remove of             *)
(* backend/src/users/users.service.ts, behind the role guard, and the      *)
(* entries they leave in the audit trail.                                  *)
(*                                                                         *)
(* A request is a process, a step is one SQL statement and the code after  *)
(* it, as in module Sessions.  Names, e-mails (unique by an index) and     *)
(* passwords (module Sessions) are left out.                               *)
(***************************************************************************)
EXTENDS FiniteSets

CONSTANTS
  Users,     \* identifiers the user table may give out
  Founders,  \* the rows at the start, NoRow for an identifier not given out
  Requests,  \* administrative requests, each served once
  NoRow, NoRequest, Deleted

Roles == {"client", "technician"}
Rows  == [role : Roles, super : {"yes", "no"}]

(* The fields of UpdateUserDto: a new value, or none.                      *)
Wishes == [role : Roles \cup {"same"}, super : {"yes", "no", "same"}]

(* Who asks, on whom, for what, and the row that was read at the start.    *)
Args == [op : {"create", "update", "remove"}, by : Users, target : Users,
         wish : Wishes, seen : Rows]

ASSUME AccountsAssumption ==
  /\ Founders \in [Users -> Rows \cup {NoRow}]
  /\ \E u \in Users : Founders[u] # NoRow /\ Founders[u].super = "yes"
  /\ NoRow \notin Rows /\ Deleted \notin Rows /\ NoRow # Deleted
  /\ NoRequest \notin Args

VARIABLES
  rows,    \* the user table
  born,    \* identifiers given out
  linked,  \* users that a ticket or an activity refers to
  stale,   \* privileges a user once had: an access token may still carry them
  trail,   \* what a reader of the audit trail believes of a user
  missed,  \* users some entry about whom was not recorded
  pc,      \* next statement of a request, or how it ended
  arg,     \* what a request carries
  late     \* history: requests that started while another was under way

vars == <<rows, born, linked, stale, trail, missed, pc, arg, late>>

Telling == {"tellBorn", "tellRole", "tellSuper", "tellGone"}
Steps   == {"others", "write", "counts", "delete"} \cup Telling
Ended   == {"ok", "denied", "error", "gone"}

Present == {u \in Users : rows[u] # NoRow}
Supers  == {u \in Present : rows[u].super = "yes"}

TypeOK ==
  /\ rows \in [Users -> Rows \cup {NoRow}]
  /\ born \subseteq Users
  /\ linked \subseteq Present
  /\ Present \subseteq born
  /\ stale \in [Users -> SUBSET Rows]
  /\ trail \in [Users -> Rows \cup {NoRow, Deleted}]
  /\ missed \subseteq Users
  /\ pc \in [Requests -> {"idle"} \cup Steps \cup Ended]
  /\ arg \in [Requests -> Args \cup {NoRequest}]
  /\ \A r \in Requests : pc[r] \in Steps => arg[r] \in Args
  /\ late \subseteq Requests

(* Accounts exist, one of them a superuser, and the trail agrees.          *)
Init ==
  /\ rows = Founders
  /\ born = Present
  /\ linked = {}
  /\ stale = [u \in Users |-> {}]
  /\ trail = rows
  /\ missed = {}
  /\ pc = [r \in Requests |-> "idle"]
  /\ arg = [r \in Requests |-> NoRequest]
  /\ late = {}

-----------------------------------------------------------------------------
(* Rules *)

(* What a request may be made as: the claims of an access token, which are *)
(* those of the row when the token was issued.  Its expiry only takes away *)
(* requests, so nothing is lost by letting it live.                        *)
Claims(u) == stale[u] \cup (IF u \in Present THEN {rows[u]} ELSE {})

(* @Roles('technician'); superusers pass every guard.                      *)
Admin(p) == p.role = "technician" \/ p.super = "yes"

Chosen(wish, old) == IF wish = "same" THEN old ELSE wish

(* assertNotLastSuperuser *)
AnyOtherUser(u) == Present \ {u} # {} \* mutant: counts users, not superusers
OtherSuperuser(u) == Supers \ {u} # {}

AnyRole(u, t, w) == FALSE \* mutant: the own role may be changed
OwnRole(u, t, w) == u = t /\ w.role \notin {"same", rows[t].role}

Editable(u, p, t, w) ==
  /\ t \in Present
  /\ w.super # "same" => p.super = "yes"
  /\ ~OwnRole(u, t, w)

Start(r, a, next) ==
  /\ pc[r] = "idle"
  /\ late' = IF \E q \in Requests : pc[q] \in Steps THEN late \cup {r} ELSE late
  /\ arg' = [arg EXCEPT ![r] = IF next \in Steps THEN a ELSE NoRequest]
  /\ pc' = [pc EXCEPT ![r] = next]

Goto(r, from, next) ==
  /\ pc[r] = from
  /\ arg' = [arg EXCEPT ![r] = IF next \in Steps THEN @ ELSE NoRequest]
  /\ pc' = [pc EXCEPT ![r] = next]
  /\ UNCHANGED late

Request(o, u, t, w, s) == [op |-> o, by |-> u, target |-> t, wish |-> w, seen |-> s]

-----------------------------------------------------------------------------
(* Handlers, up to the statement that changes the account *)

(* create: only a superuser grants superuser; nothing else is read before  *)
(* the INSERT that matters to it.                                           *)
Create(r, u, p, t, w) ==
  /\ Admin(p) /\ t \notin born
  /\ UNCHANGED <<linked, stale, trail, missed>>
  /\ \/ /\ p.super = "no" /\ w.super = "yes"
        /\ Start(r, NoRequest, "denied")
        /\ UNCHANGED <<rows, born>>
     \/ /\ ~(p.super = "no" /\ w.super = "yes")
        /\ Start(r, Request("create", u, t, w, w), "tellBorn")
        /\ rows' = [rows EXCEPT ![t] = w]
        /\ born' = born \cup {t}

(* update, up to its first query that depends on the row it read.          *)
UpdateStart(r, u, p, t, w) ==
  /\ Admin(p)
  /\ UNCHANGED <<rows, born, linked, stale, trail, missed>>
  /\ \/ /\ Editable(u, p, t, w)
        /\ Start(r, Request("update", u, t, w, rows[t]),
                 IF w.super = "no" /\ rows[t].super = "yes" THEN "others" ELSE "write")
     \/ /\ ~Editable(u, p, t, w)
        /\ Start(r, NoRequest, "denied")

(* remove, likewise; nobody removes themselves.                            *)
RemoveStart(r, u, p, t) ==
  /\ Admin(p)
  /\ UNCHANGED <<rows, born, linked, stale, trail, missed>>
  /\ \/ /\ t \in Present \ {u}
        /\ Start(r, Request("remove", u, t, [role |-> "same", super |-> "same"], rows[t]),
                 IF rows[t].super = "yes" THEN "others" ELSE "counts")
     \/ /\ t \notin Present \ {u}
        /\ Start(r, NoRequest, "denied")

CountOthers(r) ==
  /\ Goto(r, "others", IF ~OtherSuperuser(arg[r].target) THEN "denied"
                       ELSE IF arg[r].op = "update" THEN "write" ELSE "counts")
  /\ UNCHANGED <<rows, born, linked, stale, trail, missed>>

CountLinks(r) ==
  /\ Goto(r, "counts", IF arg[r].target \in linked THEN "denied" ELSE "delete")
  /\ UNCHANGED <<rows, born, linked, stale, trail, missed>>

-----------------------------------------------------------------------------
(* The statements that change the account *)

(* UPDATE with the fields given; it throws when the row is gone.  The      *)
(* sessions of the user, revoked next, are those of module Sessions.       *)
Write(r) ==
  LET t == arg[r].target
      w == arg[r].wish
  IN /\ pc[r] = "write"
     /\ UNCHANGED <<born, linked, trail, missed>>
     /\ \/ /\ t \in Present
           /\ Goto(r, "write", "tellRole")
           /\ rows' = [rows EXCEPT ![t] =
                [role |-> Chosen(w.role, rows[t].role), super |-> Chosen(w.super, rows[t].super)]]
           /\ stale' = [stale EXCEPT ![t] = @ \cup {rows[t]}]
        \/ /\ t \notin Present
           /\ Goto(r, "write", "error")
           /\ UNCHANGED <<rows, stale>>

(* DELETE; it throws when the row is gone or a foreign key refers to it,   *)
(* and then nothing is told.                                               *)
AnyPresent(t) == t \in Present \* mutant: the keys do not restrict
Deletable(t) == t \in Present \ linked

Swallowed == "tellGone" \* mutant: the error is caught
Thrown == "error"

Delete(r) ==
  LET t == arg[r].target
  IN /\ pc[r] = "delete"
     /\ UNCHANGED <<born, linked, trail, missed>>
     /\ \/ /\ Deletable(t)
           /\ Goto(r, "delete", "tellGone")
           /\ rows' = [rows EXCEPT ![t] = NoRow]
           /\ stale' = [stale EXCEPT ![t] = @ \cup {rows[t]}]
        \/ /\ ~Deletable(t)
           /\ Goto(r, "delete", Thrown)
           /\ UNCHANGED <<rows, stale>>

-----------------------------------------------------------------------------
(* The audit trail *)

(* AuditService.record never fails a request: when the INSERT fails, the   *)
(* entry is missing; it does fail when its actor is no longer a user.      *)
Record(r, said) ==
  LET t == arg[r].target
  IN \/ /\ arg[r].by \in Present
        /\ trail' = [trail EXCEPT ![t] = said]
        /\ UNCHANGED missed
     \/ /\ missed' = missed \cup {t}
        /\ UNCHANGED trail

(* What a reader believes after an entry that tells one of the privileges. *)
WithRole(b, v)  == IF b \in Rows THEN [role |-> v, super |-> b.super] ELSE b
WithSuper(b, v) == IF b \in Rows THEN [role |-> b.role, super |-> v] ELSE b

TellBorn(r) ==
  /\ Goto(r, "tellBorn", "ok")
  /\ Record(r, arg[r].wish)
  /\ UNCHANGED <<rows, born, linked, stale>>

(* An entry is due when the value asked for is not the one that was read.  *)
NeverDue(wish, old) == FALSE \* mutant: privileges are edited like the rest
Due(wish, old) == wish \notin {"same", old}

TellRole(r) ==
  LET a == arg[r]
  IN /\ Goto(r, "tellRole", "tellSuper")
     /\ IF Due(a.wish.role, a.seen.role)
        THEN Record(r, WithRole(trail[a.target], a.wish.role))
        ELSE UNCHANGED <<trail, missed>>
     /\ UNCHANGED <<rows, born, linked, stale>>

TellSuper(r) ==
  LET a == arg[r]
  IN /\ Goto(r, "tellSuper", "ok")
     /\ IF Due(a.wish.super, a.seen.super)
        THEN Record(r, WithSuper(trail[a.target], a.wish.super))
        ELSE UNCHANGED <<trail, missed>>
     /\ UNCHANGED <<rows, born, linked, stale>>

TellGone(r) ==
  /\ Goto(r, "tellGone", "ok")
  /\ Record(r, Deleted)
  /\ UNCHANGED <<rows, born, linked, stale>>

(* A statement fails or the process dies: the request ends where it is,    *)
(* and the entries it owed are never written.                              *)
Crash(r) ==
  /\ pc[r] \in Steps
  /\ Goto(r, pc[r], "gone")
  /\ missed' = IF pc[r] \in Telling THEN missed \cup {arg[r].target} ELSE missed
  /\ UNCHANGED <<rows, born, linked, stale, trail>>

-----------------------------------------------------------------------------
(* The rest of the system *)

(* A ticket or an activity of the user is stored; its foreign key needs    *)
(* the user.                                                                *)
Link(u) ==
  /\ u \in Present \ linked
  /\ linked' = linked \cup {u}
  /\ UNCHANGED <<rows, born, stale, trail, missed, pc, arg, late>>

-----------------------------------------------------------------------------

Arrive(r) ==
  /\ pc[r] = "idle"
  /\ \E u, t \in Users : \E p \in Claims(u) :
       \/ \E w \in Rows : Create(r, u, p, t, w)
       \/ \E w \in Wishes : UpdateStart(r, u, p, t, w)
       \/ RemoveStart(r, u, p, t)

Continue(r) ==
  \/ CountOthers(r) \/ CountLinks(r)
  \/ Write(r) \/ Delete(r)
  \/ TellBorn(r) \/ TellRole(r) \/ TellSuper(r) \/ TellGone(r)
  \/ Crash(r)

Next ==
  \/ \E r \in Requests : Arrive(r) \/ Continue(r)
  \/ \E u \in Users : Link(u)

Spec == Init /\ [][Next]_vars

-----------------------------------------------------------------------------
(* Properties *)

(* MIGRATION_STATUS.md:288, users.service.ts:153: whatever is demoted or   *)
(* removed, by whomever, some superuser is left.                           *)
SuperuserRemains == Supers # {}

(* It is what the count of the other superusers gives as long as the       *)
(* administrators' requests have not been under way together.              *)
SuperuserRemainsAlone == late = {} => SuperuserRemains

(* users.service.ts:205: when nothing about a user is under way, no entry  *)
(* was lost and requests came one at a time, whoever reads the trail knows *)
(* the user's privileges.                                                   *)
TrailTellsPrivileges ==
  late = {} => \A u \in Users \ missed :
    (\A r \in Requests : pc[r] \in Steps => arg[r].target # u) => trail[u] \in
      IF u \in Present THEN {rows[u]} ELSE {NoRow, Deleted}

(* users.service.ts:158, MIGRATION_STATUS.md:287: nobody changes their own *)
(* role: with no other request under way since, the role asked for is the  *)
(* role they had when the request was checked.                             *)
OwnRoleUntouched ==
  [][\A r \in Requests, u \in Users :
       (late = {} /\ pc[r] = "write" /\ pc'[r] = "tellRole" /\ arg[r].by = u /\ arg[r].target = u)
         => rows'[u].role = rows[u].role]_vars

(* users.service.ts:287: however requests race, no deletion is told that   *)
(* did not happen, and no ticket or activity is left without its user.     *)
DeletionsToldAreTrue ==
  \A u \in Users : trail[u] = Deleted => u \notin Present \cup linked
=============================================================================
