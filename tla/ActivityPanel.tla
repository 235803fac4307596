---------------------------- MODULE ActivityPanel ----------------------------
(***************************************************************************)
(* The activities of a ticket on its detail screen: the second card of     *)
(* frontend/app/tickets/[id]/index.tsx, components/ActivityForm and        *)
(* hooks/useActivities.ts.  The screen may be left while a mutation is     *)
(* under way; other people register and erase activities meanwhile.        *)
(***************************************************************************)
EXTENDS QueryCache, Naturals, FiniteSets

CONSTANTS
  Acts,       \* activities the ticket may have
  Own,        \* those the viewer is the author of
  PanelCalls, \* bound: mutations, each called once
  MaxStrangers \* bound: writes of other people

PanelAssumption == Own \subseteq Acts /\ MaxStrangers \in Nat

VARIABLES
  acts,       \* at the server
  superuser,  \* the viewer is one; else a technician
  open,       \* the screen is mounted
  listing,    \* the query of the activities
  erasing,    \* the activity the dialog asks about, or NoAct
  editing,    \* the activity under edition, or NoAct
  adding,     \* the form that registers one is open
  typed,      \* what that form holds is what was typed
  job,        \* mutations
  strangers,  \* writes of other people so far
  behind      \* history: the server left the query behind without a word

vars == <<acts, superuser, open, listing, erasing, editing, adding, typed, job,
          strangers, behind>>
server == <<acts, superuser, strangers>>
ui == <<erasing, editing, adding, typed>>

NoAct == Nothing
NoJob == [kind |-> "none", pc |-> "idle", act |-> NoAct, ok |-> FALSE, mine |-> FALSE]
Done == [NoJob EXCEPT !.pc = "settled"]

TypeOK ==
  /\ acts \subseteq Acts /\ superuser \in BOOLEAN /\ open \in BOOLEAN
  /\ listing.data \in SUBSET Acts \cup {Nothing}
  /\ {erasing, editing} \subseteq Acts \cup {NoAct}
  /\ adding \in BOOLEAN /\ typed \in BOOLEAN
  /\ \A j \in PanelCalls :
       /\ job[j].kind \in {"none", "create", "update", "erase"}
       /\ job[j].pc \in {"idle", "sent", "answered", "settled"}
  /\ strangers \in 0..MaxStrangers /\ behind \in BOOLEAN

-----------------------------------------------------------------------------
(* What is shown.                                                          *)

Rows == IF listing.data = Nothing THEN {} ELSE listing.data
Pending(kind) == \E j \in PanelCalls : job[j].kind = kind /\ job[j].mine

(* A row is the form that edits it, or offers what the server's hints for  *)
(* it allow.                                                               *)
MayEdit(a) == open /\ a \in Rows \cap Own /\ editing # a
MayErase(a) == open /\ a \in Rows /\ editing # a /\ (a \in Own \/ superuser)
EditForm == open /\ editing \in Rows

(* The empty state, or the foot of the list, offers to register one.       *)
AddForm == open /\ adding /\ editing = NoAct
MayAdd ==
  /\ open /\ ~adding
  /\ \/ listing.data # Nothing /\ Rows = {}
     \/ Rows # {} /\ editing = NoAct

-----------------------------------------------------------------------------
Init ==
  /\ acts \in SUBSET Acts /\ superuser \in BOOLEAN
  /\ open = FALSE /\ listing = NewQuery
  /\ erasing = NoAct /\ editing = NoAct /\ adding = FALSE /\ typed = FALSE
  /\ job = [j \in PanelCalls |-> NoJob]
  /\ strangers = 0 /\ behind = FALSE

CloseAll == erasing' = NoAct /\ editing' = NoAct /\ adding' = FALSE /\ typed' = FALSE

Mount ==
  /\ ~open /\ open' = TRUE
  /\ \E fresh \in BOOLEAN : listing' = Opened([listing EXCEPT !.stale = @ \/ ~fresh])
  /\ UNCHANGED <<server, ui, job, behind>>

Unmount ==
  /\ open /\ open' = FALSE
  /\ CloseAll
  /\ job' = [j \in PanelCalls |-> [job[j] EXCEPT !.mine = FALSE]]
  /\ UNCHANGED <<server, listing, behind>>

ServeList ==
  /\ listing.fetch = "asked"
  /\ \/ listing' = AnsweredWith(listing, acts) /\ behind' = FALSE
     \/ listing' = AnsweredWith(listing, Failure) /\ UNCHANGED behind
  /\ UNCHANGED <<server, open, ui, job>>

TakeList ==
  /\ listing.fetch = "answered"
  /\ listing' = Taken(listing)
  /\ UNCHANGED <<server, open, ui, job, behind>>

RetryList ==
  /\ open /\ listing.error /\ AtRest(listing)
  /\ listing' = Asked(listing)
  /\ UNCHANGED <<server, open, ui, job, behind>>

-----------------------------------------------------------------------------
(* Buttons.  To edit a row takes the form that registers one off the       *)
(* screen, and with it what was typed.                                     *)

AskErase(a) == MayErase(a) /\ erasing' = a /\ UNCHANGED <<editing, adding, typed>>
DismissErase == ~Pending("erase") /\ erasing' = NoAct /\ UNCHANGED <<editing, adding, typed>>
BeginEdit(a) == MayEdit(a) /\ editing' = a /\ typed' = FALSE /\ UNCHANGED <<erasing, adding>>
CancelEdit ==
  EditForm /\ ~Pending("update") /\ editing' = NoAct /\ UNCHANGED <<erasing, adding, typed>>
BeginAdd == MayAdd /\ adding' = TRUE /\ typed' = FALSE /\ UNCHANGED <<erasing, editing>>
TypeNew == AddForm /\ ~Pending("create") /\ typed' = TRUE /\ UNCHANGED <<erasing, editing, adding>>
CancelAdd ==
  /\ AddForm /\ ~Pending("create") /\ adding' = FALSE /\ typed' = FALSE
  /\ UNCHANGED <<erasing, editing>>

Press ==
  /\ DismissErase \/ CancelEdit \/ BeginAdd \/ TypeNew \/ CancelAdd
       \/ \E a \in Acts : AskErase(a) \/ BeginEdit(a)
  /\ UNCHANGED <<server, open, listing, job, behind>>

Begin(j, kind, a) ==
  /\ job[j] = NoJob /\ ~Pending(kind)
  /\ job' = [job EXCEPT ![j] = [kind |-> kind, pc |-> "sent", act |-> a,
                                ok |-> FALSE, mine |-> TRUE]]
  /\ UNCHANGED <<server, open, listing, ui, behind>>

Confirm(j) == open /\ erasing # NoAct /\ Begin(j, "erase", erasing)
SubmitEdit(j) == EditForm /\ Begin(j, "update", editing)
SubmitNew(j) == AddForm /\ typed /\ \E a \in Own : Begin(j, "create", a)

-----------------------------------------------------------------------------
(* The server: an activity that is gone, or hours already taken, are       *)
(* refused, and so may anything else be.                                   *)
Serve(j) ==
  /\ job[j].pc = "sent"
  /\ \/ job[j].kind = "create" /\ job[j].act \notin acts /\ acts' = acts \cup {job[j].act}
     \/ job[j].kind = "update" /\ job[j].act \in acts /\ acts' = acts
     \/ job[j].kind = "erase" /\ job[j].act \in acts /\ acts' = acts \ {job[j].act}
  /\ job' = [job EXCEPT ![j].pc = "answered", ![j].ok = TRUE]
  /\ UNCHANGED <<superuser, strangers, open, listing, ui, behind>>

Refuse(j) ==
  /\ job[j].pc = "sent"
  /\ job' = [job EXCEPT ![j].pc = "answered"]
  /\ UNCHANGED <<server, open, listing, ui, behind>>

(* A lost answer is a failure, and nothing is fetched again.               *)
Lose(j) ==
  /\ job[j].pc = "answered" /\ job[j].ok
  /\ job' = [job EXCEPT ![j].ok = FALSE]
  /\ behind' = TRUE
  /\ UNCHANGED <<server, open, listing, ui>>

(* Bug for checking: only a mutation of the mounted screen refreshes.      *)
RefreshedBug(j) == IF job[j].mine THEN Invalidated(listing, open) ELSE listing

(* The hook's onSuccess runs whether or not its screen is still there.     *)
Refreshed(j) == Invalidated(listing, open)

(* Then the dialog closes whatever happened, the edit form on success; the *)
(* form that registers is blank again, or keeps what was typed.            *)
Settle(j) ==
  LET mine(kind) == job[j].kind = kind /\ job[j].mine
  IN /\ job[j].pc = "answered"
     /\ IF job[j].ok
        THEN listing' = Refreshed(j) /\ behind' = (behind \/ (~open /\ ~AtRest(listing)))
        ELSE UNCHANGED <<listing, behind>>
     /\ erasing' = IF mine("erase") THEN NoAct ELSE erasing
     /\ editing' = IF mine("update") /\ job[j].ok THEN NoAct ELSE editing
     /\ typed' = (typed /\ ~(mine("create") /\ job[j].ok))
     /\ job' = [job EXCEPT ![j] = Done]
     /\ UNCHANGED <<server, open, adding>>

Stranger ==
  /\ strangers < MaxStrangers /\ strangers' = strangers + 1
  /\ acts' \in SUBSET Acts \ {acts}
  /\ behind' = TRUE
  /\ UNCHANGED <<superuser, open, listing, ui, job>>

Next ==
  \/ Mount \/ Unmount \/ ServeList \/ TakeList \/ RetryList \/ Press \/ Stranger
  \/ \E j \in PanelCalls :
       \/ Confirm(j) \/ SubmitEdit(j) \/ SubmitNew(j)
       \/ Serve(j) \/ Refuse(j) \/ Lose(j) \/ Settle(j)

Spec == Init /\ [][Next]_vars

-----------------------------------------------------------------------------
(* Once every answer has come the list is the server's: useActivities.ts,  *)
(* 19-29, also for a mutation whose screen was left and opened again.      *)
(* Excused until the next read: what others wrote, lost answers, and a     *)
(* fetch that was under way while no screen showed the list.               *)
PanelSettles ==
  (/\ open /\ AtRest(listing) /\ listing.data # Nothing /\ ~listing.error /\ ~behind
   /\ \A j \in PanelCalls : job[j].kind = "none") => listing.data = acts

-----------------------------------------------------------------------------
(* What every step keeps, from which the properties above follow:          *)
(* DeskProofs.tla.                                                         *)

(* The shape of the query, of a mutation and of the state.                 *)
QueryShape(q) ==
  /\ q = [data |-> q.data, error |-> q.error, stale |-> q.stale, fetch |-> q.fetch, got |-> q.got]
  /\ q.fetch \in {"none", "asked", "answered"} /\ q.error \in BOOLEAN /\ q.stale \in BOOLEAN
JobShape(one) ==
  /\ one = [kind |-> one.kind, pc |-> one.pc, act |-> one.act, ok |-> one.ok, mine |-> one.mine]
  /\ one.ok \in BOOLEAN /\ one.mine \in BOOLEAN

Shaped ==
  /\ open \in BOOLEAN /\ behind \in BOOLEAN /\ QueryShape(listing)
  /\ job = [j \in PanelCalls |-> job[j]] /\ \A j \in PanelCalls : JobShape(job[j])

(* A change of the activities that the list is still to hear of.           *)
News(j) == job[j].kind # "none" /\ job[j].pc = "answered" /\ job[j].ok

(* The list shown or awaited is the server's, or is to be asked for when   *)
(* the screen opens.                                                       *)
Current ==
  /\ listing.fetch = "answered" => listing.got \in {acts, Failure}
  /\ listing.fetch = "none" =>
       listing.error \/ listing.data \in {acts, Nothing} \/ (~open /\ listing.stale)

Synced == ~behind => Current \/ \E j \in PanelCalls : News(j)

IInv == Shaped /\ Synced
=============================================================================
