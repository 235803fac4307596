------------------------------ MODULE Calendar ------------------------------
(***************************************************************************)
(* What the registration of activities promises (LEGACY_CONTRACTS.md, 9):  *)
(* a technician's calendar is a set of bookings no two of which overlap,   *)
(* and booking, moving and cancelling are each one atomic operation.       *)
(***************************************************************************)
EXTENDS Integers

CONSTANTS
  Ids,          \* identifiers of bookings
  Technicians,  \* whose calendars these are
  Periods       \* what may be booked: records with from < to

VARIABLES
  booked,  \* identifiers in use
  whose,   \* technician of a booking
  when     \* its period

vars == <<booked, whose, when>>

(* Adjacent periods do not collide.                                        *)
Collide(p, q) == p.from < q.to /\ q.from < p.to

Free(k, p, except) ==
  \A b \in booked \ except : whose[b] = k => ~Collide(when[b], p)

Init == booked = {}

Book ==
  \E b \in Ids \ booked, k \in Technicians, p \in Periods :
    /\ Free(k, p, {})
    /\ booked' = booked \cup {b}
    /\ whose'[b] = k /\ when'[b] = p
    /\ \A c \in booked : whose'[c] = whose[c] /\ when'[c] = when[c]

Move ==
  \E b \in booked, p \in Periods :
    /\ Free(whose[b], p, {b})
    /\ booked' = booked
    /\ when'[b] = p
    /\ \A c \in booked : whose'[c] = whose[c] /\ (c # b => when'[c] = when[c])

(* One booking, or all those of a ticket that is deleted.                  *)
Cancel ==
  /\ booked' \subseteq booked
  /\ \A c \in booked' : whose'[c] = whose[c] /\ when'[c] = when[c]

Next == Book \/ Move \/ Cancel

Spec == Init /\ [][Next]_vars
=============================================================================
