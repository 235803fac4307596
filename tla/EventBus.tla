------------------------------ MODULE EventBus ------------------------------
(***************************************************************************)
(* The domain event bus and the mail it carries:                           *)
(* backend/src/common/events/domain-events.service.ts, and the handler of  *)
(* ticket.created in backend/src/notifications/notifications.service.ts    *)
(* with the mailer.  One event name is modelled: each has an array of      *)
(* handlers of its own and the arrays share nothing.                       *)
(*                                                                         *)
(* publish walks the live array, awaiting each handler: between two of its *)
(* steps anybody may subscribe (push), cancel (splice) or drop the array.  *)
(***************************************************************************)
EXTENDS Naturals, Sequences, SequencesExt, FiniteSets

CONSTANTS
  Handlers,      \* functions that may be subscribed
  Mailer,        \* the one NotificationsService subscribes at boot
  Arrays,        \* arrays of handlers the bus may create
  MaxHandlers,   \* bound: subscriptions an array receives
  Publications,  \* calls of publish
  Staff,         \* users who may be told of a new ticket
  Roles,         \* theirs: of "technician", "superuser" and "client"
  Nobody         \* no technician, no array

BusAssumption ==
  /\ Mailer \in Handlers
  /\ MaxHandlers \in Nat \ {0} /\ Roles \subseteq {"technician", "superuser", "client"}
  /\ Arrays # {} /\ Nobody \notin Staff \cup Arrays

VARIABLES
  content,     \* array -> its handlers, in order
  registered,  \* the array the map holds for the event, or Nobody
  smtp,        \* "ready", or "unusable": mail off, or SMTP incomplete
  role,        \* of each member of the staff
  pub,         \* publications: where they are and what they have done
  shifted      \* history: publications whose array lost a handler meanwhile

vars == <<content, registered, smtp, role, pub, shifted>>

(* at: the position of the loop; owed: the handlers registered when it     *)
(* started; served: the ones called; technician: the ticket's, if any.     *)
Idle(t) == [pc |-> "idle", array |-> Nobody, at |-> 1, owed |-> <<>>,
            served |-> <<>>, technician |-> t]

TypeOK ==
  /\ content \in [Arrays -> UNION {[1..n -> Handlers] : n \in 0..MaxHandlers}]
  /\ registered \in Arrays \cup {Nobody}
  /\ smtp \in {"ready", "unusable"}
  /\ role \in [Staff -> Roles]
  /\ pub \in [Publications ->
       [pc : {"idle", "loop", "handler", "sending", "returned"},
        array : Arrays \cup {Nobody}, at : Nat, owed : Seq(Handlers),
        served : Seq(Handlers), technician : Staff \cup {Nobody}]]
  /\ shifted \subseteq Publications

(* onModuleInit subscribes the mailer before the first request; which      *)
(* array it is in does not matter.                                         *)
Init ==
  /\ registered = (CHOOSE a \in Arrays : TRUE)
  /\ content = [a \in Arrays |-> IF a = registered THEN <<Mailer>> ELSE <<>>]
  /\ smtp \in {"ready", "unusable"}
  /\ role \in [Staff -> Roles]
  /\ pub \in [Publications -> {Idle(t) : t \in Staff \cup {Nobody}}]
  /\ shifted = {}

Walkers(a) == {p \in Publications : pub[p].array = a /\ pub[p].pc # "returned"}

-----------------------------------------------------------------------------
(* Subscriptions.                                                          *)

(* on(event, handler): pushes, creating the array when the map has none.   *)
On(h) ==
  \E a \in Arrays :
    /\ IF registered = Nobody
       THEN content[a] = <<>> /\ Walkers(a) = {}
       ELSE a = registered
    /\ Len(content[a]) < MaxHandlers
    /\ content' = [content EXCEPT ![a] = Append(@, h)]
    /\ registered' = a
    /\ UNCHANGED <<smtp, role, pub, shifted>>

(* indexOf: the place of the first occurrence.                             *)
IndexOf(s, h) ==
  {i \in DOMAIN s : s[i] = h /\ \A j \in DOMAIN s : j < i => s[j] # h}

(* The function on() returns: the first occurrence of the handler leaves   *)
(* the array the map holds now, and an empty array leaves the map.         *)
Cancel(h) ==
  /\ registered # Nobody
  /\ \E i \in IndexOf(content[registered], h) :
       content' = [content EXCEPT ![registered] = RemoveAt(@, i)]
  /\ registered' = IF Len(content[registered]) = 1 THEN Nobody ELSE registered
  /\ shifted' = shifted \cup Walkers(registered)
  /\ UNCHANGED <<smtp, role, pub>>

(* removeAllHandlers: the map forgets the array; a walk of it goes on.     *)
RemoveAll ==
  /\ registered # Nobody
  /\ registered' = Nobody
  /\ UNCHANGED <<content, smtp, role, pub, shifted>>

-----------------------------------------------------------------------------
(* publish.                                                                *)

Goto(p, pc) == pub' = [pub EXCEPT ![p].pc = pc]

(* The end of one turn of the loop.                                        *)
NextTurn(p) == pub' = [pub EXCEPT ![p].pc = "loop", ![p].at = @ + 1]

Publish(p) ==
  /\ pub[p].pc = "idle"
  /\ IF registered = Nobody
     THEN Goto(p, "returned")
     ELSE pub' = [pub EXCEPT ![p].pc = "loop", ![p].array = registered,
                             ![p].owed = content[registered]]
  /\ UNCHANGED <<content, registered, smtp, role, shifted>>

(* for (const handler of handlers): the position is compared with the      *)
(* length the array has now.                                               *)
CallNext(p) ==
  /\ pub[p].pc = "loop"
  /\ IF pub[p].at <= Len(content[pub[p].array])
     THEN LET h == content[pub[p].array][pub[p].at]
          IN pub' = [pub EXCEPT ![p].pc = "handler", ![p].served = Append(@, h)]
     ELSE Goto(p, "returned")
  /\ UNCHANGED <<content, registered, smtp, role, shifted>>

(* Bug for checking: a handler that throws ends the publication.           *)
AfterFailureBug(p) == Goto(p, "returned")

(* catch: what a handler throws is logged and the loop goes on.            *)
AfterFailure(p) == NextTurn(p)

Calling(p) == Last(pub[p].served)

HandlerReturns(p) ==
  /\ pub[p].pc = "handler"
  /\ Calling(p) # Mailer
  /\ NextTurn(p)
  /\ UNCHANGED <<content, registered, smtp, role, shifted>>

HandlerThrows(p) ==
  /\ pub[p].pc = "handler"
  /\ AfterFailure(p)
  /\ UNCHANGED <<content, registered, smtp, role, shifted>>

(* resolveNewTicketRecipients: the designated technician if still one,     *)
(* else every technician who is no superuser.                              *)
Recipients(t) ==
  IF t # Nobody THEN {u \in {t} : role[u] # "client"}
                ELSE {u \in Staff : role[u] = "technician"}

(* onTicketCreated: reads the recipients and, with somebody to tell, hands *)
(* the message to the transport; the mailer gives up quietly when mail is  *)
(* off or SMTP incomplete.                                                 *)
ResolveRecipients(p) ==
  /\ pub[p].pc = "handler"
  /\ Calling(p) = Mailer
  /\ LET to == Recipients(pub[p].technician)
     IN IF to = {} \/ smtp # "ready"
        THEN NextTurn(p)
        ELSE Goto(p, "sending")
  /\ UNCHANGED <<content, registered, smtp, role, shifted>>

(* sendMail: accepted, or failed and swallowed by the mailer's catch.      *)
Transport(p) ==
  /\ pub[p].pc = "sending"
  /\ NextTurn(p)
  /\ UNCHANGED <<content, registered, smtp, role, shifted>>

Advance(p) ==
  \/ CallNext(p) \/ HandlerReturns(p) \/ HandlerThrows(p)
  \/ ResolveRecipients(p) \/ Transport(p)

Next ==
  \/ \E h \in Handlers : On(h) \/ Cancel(h)
  \/ RemoveAll
  \/ \E p \in Publications : Publish(p) \/ Advance(p)

Spec == Init /\ [][Next]_vars

-----------------------------------------------------------------------------
(* A publication that returns has called every handler that was registered *)
(* when it started, in order and whatever the others threw, unless one was *)
(* cancelled while it walked: domain-events.service.ts, 76-79.             *)
EveryHandlerServed ==
  \A p \in Publications :
    pub[p].pc = "returned" /\ p \notin shifted => IsPrefix(pub[p].owed, pub[p].served)

Walking == {"loop", "handler", "sending"}

(* What t begins with.                                                     *)
Begins(s, t) == Len(s) <= Len(t) /\ \A i \in 1..Len(s) : s[i] = t[i]

Queues == {s \in Seq(Handlers) : Len(s) <= MaxHandlers}

Calls ==
  [pc : {"idle", "loop", "handler", "sending", "returned"},
   array : Arrays \cup {Nobody}, at : Nat \ {0}, owed : Seq(Handlers),
   served : Seq(Handlers), technician : Staff \cup {Nobody}]

Shaped ==
  /\ content \in [Arrays -> Queues]
  /\ registered \in Arrays \cup {Nobody}
  /\ smtp \in {"ready", "unusable"}
  /\ role \in [Staff -> Roles]
  /\ pub \in [Publications -> Calls]
  /\ shifted \subseteq Publications

(* A publication c whose handlers are the sequence s: before it starts it  *)
(* has called nobody; while it walks an array that lost no handler, both   *)
(* what it owes and what it has called is what the array begins with, and  *)
(* its position says how many it has called.                               *)
InOrder(c, s) ==
  /\ c.pc \in Walking => Begins(c.owed, s) /\ Begins(c.served, s)
  /\ c.pc = "loop" => c.at = Len(c.served) + 1
  /\ c.pc \in {"handler", "sending"} => c.at = Len(c.served)
  /\ c.pc = "returned" => Begins(c.owed, c.served)

Walks ==
  \A p \in Publications :
    /\ pub[p].pc \in Walking => pub[p].array \in Arrays
    /\ pub[p].pc = "idle" =>
         /\ pub[p].array = Nobody /\ pub[p].at = 1
         /\ pub[p].owed = <<>> /\ pub[p].served = <<>>
    /\ p \notin shifted => InOrder(pub[p], content[pub[p].array])

IInv == Shaped /\ Walks
=============================================================================
