---------------------------- MODULE TicketScreen ----------------------------
(***************************************************************************)
(* One ticket on the screens of one tab: frontend/app/tickets/[id], with   *)
(* the hooks of useTickets.ts.  Its activities are in ActivityPanel.       *)
(*                                                                         *)
(* A change of status is shown before the server agrees and taken back     *)
(* when it refuses; every other mutation refreshes the ticket when it      *)
(* succeeds.  A mutation outlives the screen that started it, and answers  *)
(* come in any order.  Other people write meanwhile.                       *)
(***************************************************************************)
EXTENDS QueryCache, Naturals

CONSTANTS
  Statuses, Texts,  \* what a ticket says
  Viewers,          \* who looks: of "client", "technician" and "superuser"
  MaxCalls,         \* bound: mutations, numbered as they start
  MaxOthers         \* bound: writes of other people

TicketScreenAssumption ==
  /\ Statuses # {} /\ Texts # {} /\ Viewers \subseteq {"client", "technician", "superuser"}
  /\ MaxCalls \in Nat /\ MaxOthers \in Nat
  /\ Failure \notin [status : Statuses, text : Texts] \cup {Nothing}
  /\ Nothing \notin [status : Statuses, text : Texts]

Calls == 1..MaxCalls

VARIABLES
  ticket,   \* at the server: status and text, or Gone
  viewer,   \* one of Viewers
  screen,   \* the route shown: "detail", "edit" or "away"
  detail,   \* the query of the ticket
  call,     \* mutations
  confirm,  \* the dialog that asks whether to delete is open
  form,     \* the edit form: Blank, or what it holds
  others,   \* writes of other people so far
  missed    \* history: the server left the query behind without a word

vars == <<ticket, viewer, screen, detail, call, confirm, form, others, missed>>

Gone == Nothing
Blank == Nothing
Tickets == [status : Statuses, text : Texts]

Kinds == {"status", "edit", "remove", "activity"}
NoCall == [kind |-> "none", pc |-> "idle", arg |-> Blank, previous |-> Nothing,
           answer |-> Nothing, mine |-> FALSE]

(* One that was settled.                                                   *)
Settled == [NoCall EXCEPT !.pc = "settled"]
UnderWay == {c \in Calls : call[c].kind # "none"}

TypeOK ==
  /\ ticket \in Tickets \cup {Gone}
  /\ viewer \in Viewers
  /\ screen \in {"detail", "edit", "away"}
  /\ detail.data \in Tickets \cup {Nothing}
  /\ \A c \in Calls : call[c].kind \in Kinds \cup {"none"}
  /\ form \in Tickets \cup {Blank} /\ confirm \in BOOLEAN
  /\ others \in 0..MaxOthers /\ missed \in BOOLEAN

-----------------------------------------------------------------------------
(* What the screen shows and lets one press.                               *)

IsTechnicianOrSuperuser == viewer # "client"
CanDeleteTicket(currentMonth) ==
  IsTechnicianOrSuperuser /\ (viewer = "superuser" \/ currentMonth)

(* After the early returns for a ticket that loads, failed or is missing.  *)
Showing == screen = "detail" /\ detail.data # Nothing /\ ~detail.error
Editing == screen = "edit" /\ form # Blank /\ detail.data # Nothing /\ ~detail.error

(* isPending of a hook of the screen that is mounted.                      *)
Pending(kind) == \E c \in Calls : call[c].kind = kind /\ call[c].mine

-----------------------------------------------------------------------------
Init ==
  /\ ticket \in Tickets
  /\ viewer \in Viewers
  /\ screen = "away" /\ detail = NewQuery
  /\ call = [c \in Calls |-> NoCall]
  /\ confirm = FALSE /\ form = Blank
  /\ others = 0 /\ missed = FALSE

server == <<ticket, viewer, others>>

-----------------------------------------------------------------------------
(* Routes.  Only the route shown is mounted: leaving forgets its state and *)
(* the isPending of its hooks.                                             *)

Disowned == [c \in Calls |-> [call[c] EXCEPT !.mine = FALSE]]

(* The edit form takes the ticket once, when there is one to take.         *)
FilledBy(q, f) == IF f = Blank THEN q.data ELSE f

Open(route) ==
  /\ screen # route /\ screen' = route
  /\ route = "edit" => IsTechnicianOrSuperuser
  /\ \E fresh \in BOOLEAN :
       detail' = IF route = "away" THEN detail
                 ELSE Opened([detail EXCEPT !.stale = @ \/ ~fresh])
  /\ form' = IF route = "edit" THEN FilledBy(detail, Blank) ELSE Blank
  /\ confirm' = FALSE /\ call' = Disowned
  /\ UNCHANGED <<server, missed>>

-----------------------------------------------------------------------------
(* Fetches.                                                                *)

Serve ==
  /\ detail.fetch = "asked"
  /\ detail' = AnsweredWith(detail, IF ticket = Gone THEN Failure ELSE ticket)
  /\ missed' = FALSE
  /\ UNCHANGED <<server, screen, call, confirm, form>>

FailFetch ==
  /\ detail.fetch = "asked"
  /\ detail' = AnsweredWith(detail, Failure)
  /\ UNCHANGED <<server, screen, call, confirm, form, missed>>

Take ==
  /\ detail.fetch = "answered"
  /\ detail' = Taken(detail)
  /\ form' = IF screen = "edit" THEN FilledBy(Taken(detail), form) ELSE form
  /\ UNCHANGED <<server, screen, call, confirm, missed>>

(* "Tentar novamente" on the error the screen shows instead of the ticket. *)
Retry ==
  /\ screen # "away" /\ detail.error /\ AtRest(detail)
  /\ detail' = Asked(detail)
  /\ UNCHANGED <<server, screen, call, confirm, form, missed>>

-----------------------------------------------------------------------------
(* Starting a mutation.                                                    *)

Start(c, kind, arg, previous) ==
  /\ call[c] = NoCall /\ (\A earlier \in 1..(c - 1) : call[earlier] # NoCall)
  /\ ~Pending(kind)
  /\ call' = [call EXCEPT ![c] = [kind |-> kind, pc |-> "sent", arg |-> arg,
                previous |-> previous, answer |-> Nothing, mine |-> TRUE]]

(* handleChangeStatus and onMutate: the fetch under way is given up, what  *)
(* the cache holds is kept, and the new status is shown.                   *)
ChangeStatus(c, s) ==
  /\ Showing /\ IsTechnicianOrSuperuser /\ s # detail.data.status
  /\ Start(c, "status", s, detail.data)
  /\ detail' = Written(Cancelled(detail), [detail.data EXCEPT !.status = s])
  /\ UNCHANGED <<server, screen, confirm, form, missed>>

(* handleSubmit of the edit form sends every field of it.                  *)
Type(f) ==
  /\ Editing /\ ~Pending("edit")
  /\ form' = f
  /\ UNCHANGED <<server, screen, detail, call, confirm, missed>>

SubmitEdit(c) ==
  /\ Editing
  /\ Start(c, "edit", form, Nothing)
  /\ UNCHANGED <<server, screen, detail, confirm, form, missed>>

(* The dialog opens, for a ticket of the current month or of another, and  *)
(* closes, but not while the deletion is under way.                        *)
Ask ==
  /\ Showing /\ (\E currentMonth \in BOOLEAN : CanDeleteTicket(currentMonth))
  /\ confirm' = TRUE
  /\ UNCHANGED <<server, screen, detail, call, form, missed>>

Dismiss ==
  /\ confirm /\ ~Pending("remove") /\ confirm' = FALSE
  /\ UNCHANGED <<server, screen, detail, call, form, missed>>

Remove(c) ==
  /\ Showing /\ confirm
  /\ Start(c, "remove", Blank, Nothing)
  /\ UNCHANGED <<server, screen, detail, confirm, form, missed>>

(* A mutation of an activity of the ticket.                                *)
TouchActivity(c) ==
  /\ Showing /\ IsTechnicianOrSuperuser
  /\ Start(c, "activity", Blank, Nothing)
  /\ UNCHANGED <<server, screen, detail, confirm, form, missed>>

-----------------------------------------------------------------------------
(* The server, and the answer.                                             *)

Sent(c, kind) == call[c].pc = "sent" /\ call[c].kind = kind
Answered(c, answer) == [call EXCEPT ![c].pc = "answered", ![c].answer = answer]

(* changeStatus and update answer the ticket as it is now.                 *)
Accept(c) ==
  /\ ticket # Gone
  /\ \/ Sent(c, "status") /\ ticket' = [ticket EXCEPT !.status = call[c].arg]
     \/ Sent(c, "edit") /\ ticket' = call[c].arg
     \/ Sent(c, "remove") /\ ticket' = Gone
     \/ Sent(c, "activity") /\ ticket' = ticket
  /\ call' = Answered(c, ticket')
  /\ UNCHANGED <<viewer, screen, detail, confirm, form, others, missed>>

Refuse(c) ==
  /\ call[c].pc = "sent"
  /\ call' = Answered(c, Failure)
  /\ UNCHANGED <<server, screen, detail, confirm, form, missed>>

(* A lost answer counts as a failure.  It leaves the query behind, except  *)
(* after a change of status: onSettled.                                    *)
Lose(c) ==
  /\ call[c].pc = "answered" /\ call[c].answer # Failure
  /\ call' = Answered(c, Failure)
  /\ missed' = (missed \/ call[c].kind # "status")
  /\ UNCHANGED <<server, screen, detail, confirm, form>>

(* Bug for checking: a fetch under way is trusted to bring the news.       *)
RefreshedBug(q, shown) == IF q.fetch # "none" THEN q ELSE Invalidated(q, shown)

(* invalidate.                                                             *)
Refreshed(q, shown) == Invalidated(q, shown)

Landing(c, kind) == call[c].pc = "answered" /\ call[c].kind = kind
Land(c, kind) == Landing(c, kind) /\ call' = [call EXCEPT ![c] = Settled]
Shown == screen # "away"

(* A query no screen shows is only marked: a fetch still under way lands   *)
(* after that and passes for fresh.                                        *)
Overtaken == ~Shown /\ ~AtRest(detail)

(* onSuccess or onError, then onSettled, of a change of status.            *)
StatusSettled(c) ==
  /\ Land(c, "status")
  /\ detail' = Refreshed(Written(detail, IF call[c].answer = Failure
                                         THEN call[c].previous ELSE call[c].answer),
                         Shown)
  /\ missed' = (missed \/ Overtaken)
  /\ UNCHANGED <<server, screen, confirm, form>>

(* A success puts the ticket's screen back, wherever the user went.        *)
EditSettled(c) ==
  /\ Land(c, "edit")
  /\ IF call[c].answer = Failure
     THEN UNCHANGED <<screen, detail, form, missed>>
     ELSE /\ screen' = "detail" /\ form' = Blank
          /\ detail' = Refreshed(Written(detail, call[c].answer), TRUE)
          /\ missed' = (missed \/ Overtaken)
  /\ UNCHANGED <<server, confirm>>

(* removeQueries, and home; or the dialog closes and the ticket stays.     *)
RemoveSettled(c) ==
  /\ Landing(c, "remove")
  /\ confirm' = FALSE
  /\ IF call[c].answer = Failure
     THEN call' = [call EXCEPT ![c] = Settled] /\ UNCHANGED <<screen, detail, form>>
     ELSE /\ screen' = "away" /\ detail' = NewQuery /\ form' = Blank
          /\ call' = [Disowned EXCEPT ![c] = Settled]
  /\ UNCHANGED <<server, missed>>

ActivitySettled(c) ==
  /\ Land(c, "activity")
  /\ IF call[c].answer = Failure
     THEN UNCHANGED <<detail, missed>>
     ELSE detail' = Refreshed(detail, Shown) /\ missed' = (missed \/ Overtaken)
  /\ UNCHANGED <<server, screen, confirm, form>>

-----------------------------------------------------------------------------
(* Other people write.                                                     *)
Another ==
  /\ others < MaxOthers /\ others' = others + 1
  /\ ticket # Gone /\ ticket' \in (Tickets \cup {Gone}) \ {ticket}
  /\ missed' = TRUE
  /\ UNCHANGED <<viewer, screen, detail, call, confirm, form>>

Next ==
  \/ \E route \in {"detail", "edit", "away"} : Open(route)
  \/ Serve \/ FailFetch \/ Take \/ Retry
  \/ \E c \in Calls :
       \/ \E s \in Statuses : ChangeStatus(c, s)
       \/ SubmitEdit(c) \/ Remove(c) \/ TouchActivity(c)
       \/ Accept(c) \/ Lose(c) \/ Refuse(c)
       \/ StatusSettled(c) \/ EditSettled(c) \/ RemoveSettled(c) \/ ActivitySettled(c)
  \/ \E f \in Tickets : Type(f)
  \/ Ask \/ Dismiss \/ Another

Spec == Init /\ [][Next]_vars

-----------------------------------------------------------------------------
(* Once every answer has come, the ticket on the screen is the server's,   *)
(* whatever was shown meanwhile and in whichever order the answers came:   *)
(* useTickets.ts, 80-135.  Three things are excused until the next read:   *)
(* what others wrote, a lost answer of a mutation that refreshes only when *)
(* it succeeds, and a fetch that was under way for a screen already left.  *)
ScreenSettles ==
  UnderWay = {} /\ Showing /\ AtRest(detail) /\ ~missed => detail.data = ticket

-----------------------------------------------------------------------------
(* What every step keeps, from which the properties above follow:          *)
(* DeskProofs.tla.                                                         *)

(* The shape of the query, of a mutation and of the state.                 *)
QueryShape(q) ==
  /\ q = [data |-> q.data, error |-> q.error, stale |-> q.stale, fetch |-> q.fetch, got |-> q.got]
  /\ q.fetch \in {"none", "asked", "answered"} /\ q.error \in BOOLEAN /\ q.stale \in BOOLEAN
  /\ q.data \in Tickets \cup {Nothing}
  /\ q.fetch = "answered" => q.got \in Tickets \cup {Failure}
CallShape(one) ==
  /\ one = [kind |-> one.kind, pc |-> one.pc, arg |-> one.arg, previous |-> one.previous,
            answer |-> one.answer, mine |-> one.mine]
  /\ one.kind = "status" => one.arg \in Statuses /\ one.previous \in Tickets
  /\ one.kind = "edit" => one.arg \in Tickets
  /\ one.pc = "answered" => one.answer \in Tickets \cup {Gone, Failure}
  /\ one.pc = "answered" /\ one.kind \in {"status", "edit"} => one.answer # Gone

Shaped ==
  /\ screen \in {"detail", "edit", "away"} /\ missed \in BOOLEAN
  /\ ticket \in Tickets \cup {Gone} /\ form \in Tickets \cup {Blank}
  /\ QueryShape(detail)
  /\ call = [c \in Calls |-> call[c]] /\ \A c \in Calls : CallShape(call[c])

(* A change the screen is still to hear of; one of the status asks for the *)
(* ticket again whatever the answer.                                       *)
News(one) ==
  \/ one.kind = "status"
  \/ one.kind # "none" /\ one.pc = "answered" /\ one.answer # Failure

(* The ticket shown or awaited is the server's, or is to be asked for when *)
(* a screen of it opens.                                                   *)
Current ==
  /\ detail.fetch = "answered" => detail.got \in {ticket, Failure}
  /\ detail.fetch = "none" =>
       detail.error \/ detail.data \in {ticket, Nothing} \/ (screen = "away" /\ detail.stale)

Synced == ~missed => Current \/ \E c \in Calls : News(call[c])

IInv == Shaped /\ Synced
=============================================================================
