----------------------------- MODULE AdminList -----------------------------
(***************************************************************************)
(* The three lists a superuser manages: frontend/app/admin/users.tsx,      *)
(* payments.tsx and modules.tsx, with their hooks of useAdmin.ts.          *)
(*                                                                         *)
(* A screen has a form that creates a row, a list read page by page, and a *)
(* dialog that asks before a row is deleted.  A mutation outlives the      *)
(* screen that started it; a page stays on the screen until the next one   *)
(* has come; every success makes what was read stale.                      *)
(***************************************************************************)
EXTENDS QueryCache, Integers, FiniteSets

CONSTANTS
  Ids,       \* bound: rows there may ever be; the next free one is created
  First,     \* rows there are at first
  Matching,  \* those of First that the filter lets through
  PageSize,  \* pageSize: 25
  Self,      \* the user signed in, one of First
  MaxCalls   \* bound: mutations in a behaviour

AdminListAssumption ==
  /\ Ids \subseteq Nat /\ First \subseteq Ids /\ Matching \subseteq First
  /\ PageSize \in Nat \ {0} /\ Self \in First
  /\ MaxCalls \in Nat

VARIABLES
  screen,    \* "users", "payments" or "modules"
  superuser, \* whether the viewer is one
  rows,      \* at the server: row -> whether it matches the filter (is active)
  mounted,   \* the screen is on
  filter,    \* only the rows that match
  page,      \* the page asked for
  list,      \* the query of that page; its data may still be another page's
  stray,     \* a page no longer shown is still being fetched
  form,      \* the form: open, text
  toDelete,  \* the row the dialog asks about, or NoRow
  create, erase, toggle,   \* the three mutations
  missed     \* history: the server left the list behind without a word

vars == <<screen, superuser, rows, mounted, filter, page, list, stray, form, toDelete,
          create, erase, toggle, missed>>

NoRow == 0
Blank == "blank"
Texts == {Blank, "bad", "good"}   \* "bad": a payment in thousands, a name that is taken
NewCall == [pc |-> "idle", arg |-> NoRow, ok |-> FALSE, mine |-> FALSE]
Call(arg) == [pc |-> "sent", arg |-> arg, ok |-> FALSE, mine |-> TRUE]

(* isPending of a hook of the screen that is mounted.                      *)
Pending(call) == call.mine /\ call.pc \in {"sent", "answered"}
AtServer == {"sent", "answered"}
Fresh(call) ==
  /\ call.pc = "idle"
  /\ (IF create.pc = "idle" THEN 0 ELSE 1) + (IF erase.pc = "idle" THEN 0 ELSE 1)
     + (IF toggle.pc = "idle" THEN 0 ELSE 1) < MaxCalls
Settled == [NewCall EXCEPT !.pc = "settled"]
Resting == {create.pc, erase.pc, toggle.pc} \cap AtServer = {}

-----------------------------------------------------------------------------
(* What the server lists: users by role, payments by date; all the modules *)
(* come in one page.                                                       *)

Listed(only) == {i \in DOMAIN rows : only => rows[i]}
PageLength == IF screen = "modules" THEN Cardinality(Ids) ELSE PageSize

UsersPage(only, n) ==
  {i \in Listed(only) :
     Cardinality({j \in Listed(only) : j < i}) \div PageLength = n - 1}
UsersPages(only) ==
  LET full == (Cardinality(Listed(only)) + PageLength - 1) \div PageLength
  IN IF full > 1 THEN full ELSE 1
ModulesPage == UsersPage(FALSE, 1)

Page(only, n) ==
  LET items == IF screen = "modules" THEN ModulesPage ELSE UsersPage(only, n)
  IN [items |-> [i \in items |-> rows[i]], pages |-> UsersPages(only)]

-----------------------------------------------------------------------------
(* What the screen shows.                                                  *)

UsersBlank == [open |-> FALSE, text |-> Blank]
PaymentsBlank == [open |-> TRUE, text |-> Blank]
ModulesBlank == [open |-> TRUE, text |-> Blank]
BlankForm ==
  [users |-> UsersBlank, payments |-> PaymentsBlank, modules |-> ModulesBlank][screen]

(* An error is shown when there are no rows to show; a list without rows   *)
(* has no page buttons.                                                    *)
UsersShown == IF list.data = Nothing THEN {} ELSE DOMAIN list.data.items
PaymentsShown == IF list.data = Nothing THEN {} ELSE DOMAIN list.data.items
ModulesShown == IF list.data = Nothing THEN {} ELSE DOMAIN list.data.items
Shown ==
  CASE screen = "users" -> UsersShown
    [] screen = "payments" -> PaymentsShown
    [] screen = "modules" -> ModulesShown
Failed == list.error /\ list.data = Nothing

MayDelete(i) == i \in Shown /\ (screen = "users" => i # Self)

UsersTurn(n) ==
  /\ UsersShown # {} /\ list.data.pages > 1
  /\ \/ page > 1 /\ n = page - 1
     \/ page < list.data.pages /\ n = page + 1
PaymentsTurn(n) ==
  /\ PaymentsShown # {} /\ list.data.pages > 1
  /\ \/ page > 1 /\ n = page - 1
     \/ page < list.data.pages /\ n = page + 1
MayTurn(n) ==
  \/ screen = "users" /\ UsersTurn(n)
  \/ screen = "payments" /\ PaymentsTurn(n)

(* payments.tsx and modules.tsx show nothing to others; users.tsx does.    *)
PaymentsGate == screen = "payments" => superuser
ModulesGate == screen = "modules" => superuser
On == mounted /\ PaymentsGate /\ ModulesGate

-----------------------------------------------------------------------------
TypeOK ==
  /\ screen \in {"users", "payments", "modules"} /\ superuser \in BOOLEAN
  /\ DOMAIN rows \subseteq Ids /\ \A i \in DOMAIN rows : rows[i] \in BOOLEAN
  /\ mounted \in BOOLEAN /\ filter \in BOOLEAN /\ page \in Nat \ {0}
  /\ UsersShown \subseteq Ids /\ stray \in BOOLEAN
  /\ form \in [open : BOOLEAN, text : Texts]
  /\ toDelete \in Ids \cup {NoRow} /\ missed \in BOOLEAN
  /\ {create.pc, erase.pc, toggle.pc} \subseteq {"idle", "sent", "answered", "settled"}

Init ==
  /\ screen \in {"users", "payments", "modules"}
  /\ superuser \in (IF screen = "users" THEN {FALSE} ELSE BOOLEAN)   \* users.tsx does not ask
  /\ rows = [i \in First |-> i \in Matching]
  /\ mounted = FALSE /\ filter = FALSE /\ page = 1
  /\ list = NewQuery /\ stray = FALSE
  /\ form = BlankForm /\ toDelete = NoRow
  /\ create = NewCall /\ erase = NewCall /\ toggle = NewCall
  /\ missed = FALSE

still == <<screen, superuser>>
calls == <<create, erase, toggle>>

-----------------------------------------------------------------------------
(* The list.                                                               *)

(* The page is fresh in the cache, or asked for; the page left may still   *)
(* be on its way.                                                          *)
Turned(only, n, kept) ==
  /\ \/ list' = [NewQuery EXCEPT !.data = Page(only, n), !.stale = FALSE]
     \/ list' = Asked([NewQuery EXCEPT !.data = kept])
  /\ stray' = (stray \/ ~AtRest(list))

Enter ==
  /\ ~mounted /\ mounted' = TRUE
  /\ filter' = FALSE /\ page' = 1
  /\ Turned(FALSE, 1, Nothing)
  /\ UNCHANGED <<still, rows, form, toDelete, calls, missed>>

Leave ==
  /\ mounted /\ mounted' = FALSE
  /\ create' = [create EXCEPT !.mine = FALSE]
  /\ erase' = [erase EXCEPT !.mine = FALSE]
  /\ toggle' = [toggle EXCEPT !.mine = FALSE]
  /\ form' = BlankForm /\ toDelete' = NoRow
  /\ UNCHANGED <<still, rows, filter, page, list, stray, missed>>

PageNumbers == 1..Cardinality(Ids)

(* The page keeps what is shown until the next has come: keepPreviousData. *)
TurnPage(n) ==
  /\ On /\ MayTurn(n) /\ page' = n
  /\ Turned(filter, n, list.data)
  /\ UNCHANGED <<still, rows, mounted, filter, form, toDelete, calls, missed>>

(* Another filter starts at its first page.                                *)
UsersFilter ==
  /\ screen = "users" /\ On /\ filter' = ~filter /\ page' = 1
  /\ Turned(~filter, 1, list.data)
  /\ UNCHANGED <<still, rows, mounted, form, toDelete, calls, missed>>
PaymentsFilter ==
  /\ screen = "payments" /\ On /\ filter' = ~filter /\ page' = 1
  /\ Turned(~filter, 1, list.data)
  /\ UNCHANGED <<still, rows, mounted, form, toDelete, calls, missed>>

Serve ==
  /\ list.fetch = "asked"
  /\ \E value \in {Page(filter, page), Failure} : list' = AnsweredWith(list, value)
  /\ UNCHANGED <<still, rows, mounted, filter, page, stray, form, toDelete, calls, missed>>

Take ==
  /\ list.fetch = "answered" /\ list' = Taken(list)
  /\ UNCHANGED <<still, rows, mounted, filter, page, stray, form, toDelete, calls, missed>>

StrayLands ==
  /\ stray /\ stray' = FALSE
  /\ UNCHANGED <<still, rows, mounted, filter, page, list, form, toDelete, calls, missed>>

Retry ==
  /\ On /\ Failed /\ AtRest(list) /\ list' = Asked(list)
  /\ UNCHANGED <<still, rows, mounted, filter, page, stray, form, toDelete, calls, missed>>

(* What a success does to every page read: a page that is being fetched    *)
(* for a screen already left will pass for fresh.                          *)
UsersInvalidation == list' = Invalidated(list, mounted)
ModulesInvalidation == list' = Invalidated(list, mounted)
PaymentsInvalidation == list' = Invalidated(list, mounted)
Invalidate ==
  /\ \/ screen = "users" /\ UsersInvalidation
     \/ screen = "modules" /\ ModulesInvalidation
     \/ screen = "payments" /\ PaymentsInvalidation
  /\ missed' = (missed \/ stray \/ (~mounted /\ ~AtRest(list)))

-----------------------------------------------------------------------------
(* The form.                                                               *)

Typing == On /\ form.open /\ ~Pending(create)

UsersType(text) ==
  /\ screen = "users" /\ Typing /\ form' = [form EXCEPT !.text = text]
  /\ UNCHANGED <<still, rows, mounted, filter, page, list, stray, toDelete, calls, missed>>
PaymentsType(text) ==
  /\ screen = "payments" /\ Typing /\ form' = [form EXCEPT !.text = text]
  /\ UNCHANGED <<still, rows, mounted, filter, page, list, stray, toDelete, calls, missed>>
ModulesType(text) ==
  /\ screen = "modules" /\ Typing /\ form' = [form EXCEPT !.text = text]
  /\ UNCHANGED <<still, rows, mounted, filter, page, list, stray, toDelete, calls, missed>>

(* "Fechar" hides the form as it is, even while it is being sent.          *)
UsersOpen ==
  /\ screen = "users" /\ On /\ form' = [form EXCEPT !.open = ~@]
  /\ UNCHANGED <<still, rows, mounted, filter, page, list, stray, toDelete, calls, missed>>

(* "Cancelar" forgets it.                                                  *)
UsersCancel ==
  /\ screen = "users" /\ Typing /\ form' = UsersBlank
  /\ UNCHANGED <<still, rows, mounted, filter, page, list, stray, toDelete, calls, missed>>

UsersErrors(text) == text # "good"
PaymentsErrors(text) == text # "good"
ModulesErrors(text) == text = Blank
Errors(text) ==
  CASE screen = "users" -> UsersErrors(text)
    [] screen = "payments" -> PaymentsErrors(text)
    [] screen = "modules" -> ModulesErrors(text)

HandleCreate ==
  /\ Typing /\ Fresh(create) /\ ~Errors(form.text) /\ create' = Call(form.text)
  /\ UNCHANGED <<still, rows, mounted, filter, page, list, stray, form, toDelete, erase, toggle, missed>>

UsersCreated(ok) ==
  IF ok THEN UsersBlank ELSE form
PaymentsCreated(ok) ==
  IF ok THEN [form EXCEPT !.text = Blank] ELSE form
ModulesCreated(ok) ==
  IF ok THEN [form EXCEPT !.text = Blank] ELSE form
Created(ok) ==
  [users |-> UsersCreated(ok), payments |-> PaymentsCreated(ok), modules |-> ModulesCreated(ok)][screen]

CreateLands ==
  /\ create.pc = "answered" /\ create' = Settled
  /\ form' = IF create.mine THEN Created(create.ok) ELSE form
  /\ IF create.ok THEN Invalidate ELSE UNCHANGED <<list, missed>>
  /\ UNCHANGED <<still, rows, mounted, filter, page, stray, toDelete, erase, toggle>>

-----------------------------------------------------------------------------
(* The dialog: it locks itself while the deletion is under way.            *)

Ask(i) ==
  /\ On /\ toDelete = NoRow /\ MayDelete(i) /\ toDelete' = i
  /\ UNCHANGED <<still, rows, mounted, filter, page, list, stray, form, calls, missed>>

Dismiss ==
  /\ On /\ toDelete # NoRow /\ ~Pending(erase) /\ toDelete' = NoRow
  /\ UNCHANGED <<still, rows, mounted, filter, page, list, stray, form, calls, missed>>

HandleDelete ==
  /\ On /\ toDelete # NoRow /\ Fresh(erase) /\ erase' = Call(toDelete)
  /\ UNCHANGED <<still, rows, mounted, filter, page, list, stray, form, toDelete, create, toggle, missed>>

UsersDeleted == NoRow
PaymentsDeleted == NoRow
ModulesDeleted == NoRow
Deleted ==
  [users |-> UsersDeleted, payments |-> PaymentsDeleted, modules |-> ModulesDeleted][screen]

EraseLands ==
  /\ erase.pc = "answered" /\ erase' = Settled
  /\ toDelete' = IF erase.mine THEN Deleted ELSE toDelete
  /\ IF erase.ok THEN Invalidate ELSE UNCHANGED <<list, missed>>
  /\ UNCHANGED <<still, rows, mounted, filter, page, stray, form, create, toggle>>

HandleToggle(i) ==
  /\ screen = "modules" /\ On /\ i \in ModulesShown
  /\ Fresh(toggle) /\ toggle' = Call(i)
  /\ UNCHANGED <<still, rows, mounted, filter, page, list, stray, form, toDelete, create, erase, missed>>

ToggleLands ==
  /\ toggle.pc = "answered" /\ toggle' = Settled
  /\ IF toggle.ok THEN Invalidate ELSE UNCHANGED <<list, missed>>
  /\ UNCHANGED <<still, rows, mounted, filter, page, stray, form, toDelete, create, erase>>

-----------------------------------------------------------------------------
(* The server takes a call or refuses it; a lost answer is a failure here. *)

screens == <<still, mounted, filter, page, list, stray, form, toDelete>>
Done(call, ok) == [call EXCEPT !.pc = "answered", !.ok = ok]

AcceptCreate(flag) ==
  /\ create.pc = "sent" /\ create.arg = "good"
  /\ \E i \in Ids : /\ \A j \in Ids : j < i => j \in First
                    /\ i \notin First
                    /\ rows' = [j \in DOMAIN rows \cup {i} |-> IF j = i THEN flag ELSE rows[j]]
  /\ \E heard \in BOOLEAN : create' = Done(create, heard) /\ missed' = (missed \/ ~heard)
  /\ UNCHANGED <<screens, erase, toggle>>

AcceptErase ==
  /\ erase.pc = "sent" /\ erase.arg \in DOMAIN rows
  /\ rows' = [j \in DOMAIN rows \ {erase.arg} |-> rows[j]]
  /\ \E heard \in BOOLEAN : erase' = Done(erase, heard) /\ missed' = (missed \/ ~heard)
  /\ UNCHANGED <<screens, create, toggle>>

AcceptToggle ==
  /\ toggle.pc = "sent" /\ toggle.arg \in DOMAIN rows
  /\ rows' = [rows EXCEPT ![toggle.arg] = ~@]
  /\ \E heard \in BOOLEAN : toggle' = Done(toggle, heard) /\ missed' = (missed \/ ~heard)
  /\ UNCHANGED <<screens, create, erase>>

Refuse ==
  /\ \/ create.pc = "sent" /\ create' = Done(create, FALSE) /\ UNCHANGED <<erase, toggle>>
     \/ erase.pc = "sent" /\ erase' = Done(erase, FALSE) /\ UNCHANGED <<create, toggle>>
     \/ toggle.pc = "sent" /\ toggle' = Done(toggle, FALSE) /\ UNCHANGED <<create, erase>>
  /\ UNCHANGED <<screens, rows, missed>>

Next ==
  \/ Enter \/ Leave \/ Serve \/ Take \/ StrayLands \/ Retry
  \/ UsersFilter \/ PaymentsFilter \/ UsersOpen \/ UsersCancel \/ HandleCreate
  \/ CreateLands \/ Dismiss \/ HandleDelete \/ EraseLands \/ ToggleLands
  \/ \E n \in PageNumbers : TurnPage(n)
  \/ \E text \in Texts : UsersType(text) \/ PaymentsType(text) \/ ModulesType(text)
  \/ \E i \in Ids : Ask(i) \/ HandleToggle(i)
  \/ \E flag \in BOOLEAN : AcceptCreate(flag)
  \/ AcceptErase \/ AcceptToggle \/ Refuse

Spec == Init /\ [][Next]_vars

-----------------------------------------------------------------------------
(* Once every answer has come, the rows shown are those of the page asked  *)
(* for, whatever the order in which answers, filters and pages came:       *)
(* useAdmin.ts.  Excused are a read that failed, a lost answer, and a page *)
(* that was being fetched for a screen already left.                       *)
ListSettles ==
  On /\ Resting /\ AtRest(list) /\ ~list.error /\ ~missed => list.data = Page(filter, page)

(* A form that is being sent says what was sent: an answer that empties it *)
(* throws away nothing that was typed since, and a refusal leaves it to be *)
(* corrected: users.tsx, 71-84.                                            *)
SentAsTyped == mounted /\ Pending(create) => form.text = create.arg

(* A deletion is asked for at most one row, the one it was sent for, until *)
(* its answer closes the dialog: users.tsx, 87-99.                         *)
DialogHolds == mounted /\ Pending(erase) => toDelete = erase.arg

-----------------------------------------------------------------------------
(* What every step keeps, from which the properties above follow:          *)
(* DeskProofs.tla.                                                         *)

(* The shape of a query, of a mutation and of the state.                   *)
QueryShape(q) ==
  /\ q = [data |-> q.data, error |-> q.error, stale |-> q.stale, fetch |-> q.fetch, got |-> q.got]
  /\ q.fetch \in {"none", "asked", "answered"} /\ q.error \in BOOLEAN
CallShape(call) ==
  /\ call = [pc |-> call.pc, arg |-> call.arg, ok |-> call.ok, mine |-> call.mine]
  /\ call.pc \in {"idle", "sent", "answered", "settled"} /\ call.ok \in BOOLEAN /\ call.mine \in BOOLEAN

Shaped ==
  /\ screen \in {"users", "payments", "modules"}
  /\ mounted \in BOOLEAN /\ stray \in BOOLEAN /\ missed \in BOOLEAN
  /\ QueryShape(list)
  /\ form = [open |-> form.open, text |-> form.text]
  /\ CallShape(create) /\ CallShape(erase) /\ CallShape(toggle)

(* A success that the list is still to hear of.                            *)
News(call) == call.pc = "answered" /\ call.ok

(* What is shown or awaited is the page asked for.                         *)
Current(q, p) ==
  /\ q.fetch = "answered" => q.got \in {p, Failure}
  /\ q.fetch = "none" /\ mounted => q.error \/ q.data = p

Synced ==
  ~missed => News(create) \/ News(erase) \/ News(toggle) \/ Current(list, Page(filter, page))

(* What was sent stays in the form and in the dialog.                      *)
FormsHeld ==
  /\ Pending(create) => mounted /\ form.text = create.arg
  /\ Pending(erase) => mounted /\ toDelete = erase.arg /\ toDelete # NoRow

IInv == Shaped /\ Synced /\ FormsHeld
=============================================================================
