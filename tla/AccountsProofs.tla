--------------------------- MODULE AccountsProofs ---------------------------
(***************************************************************************)
(* What the handlers of the accounts guarantee for any number of users and *)
(* requests.  However requests race, the trail tells no deletion that did  *)
(* not happen; until two administrative requests are under way together,   *)
(* the count of the other superusers protects the last one, nobody changes *)
(* their own role, and the trail tells the privileges.  The run            *)
(* accounts_doc_last shows that the condition cannot be dropped.           *)
(***************************************************************************)
EXTENDS Accounts, TLAPS

(* Identifiers are given out once: what was told deleted stays deleted, a  *)
(* deletion about to be told has happened, and a creation tells a row.     *)
DeletionsAreFinal ==
  /\ \A u \in Users : trail[u] = Deleted => u \in born /\ u \notin Present
  /\ \A r \in Requests : pc[r] = "tellGone" =>
       arg[r].target \in born /\ arg[r].target \notin Present
  /\ \A r \in Requests : pc[r] = "tellBorn" => arg[r].wish \in Rows

(* Once another superuser has been seen, it is still there when the last   *)
(* statement of a demotion or of a removal is reached.                     *)
SeenSuperuserStays ==
  \A r \in Requests :
    /\ (pc[r] = "write" /\ arg[r].wish.super = "no" /\ arg[r].target \in Supers)
         => OtherSuperuser(arg[r].target)
    /\ (pc[r] \in {"counts", "delete"} /\ arg[r].target \in Supers)
         => OtherSuperuser(arg[r].target)

(* One request under way.                                                  *)
OneRequest ==
  \A r, q \in Requests : (r # q /\ pc[r] \in Steps) => pc[q] \notin Steps

IInv == TypeOK /\ DeletionsAreFinal
SInv == IInv /\ OneRequest /\ SeenSuperuserStays /\ SuperuserRemains
HInv == IInv /\ (late = {} => SInv)

-----------------------------------------------------------------------------
(* Types *)

LEMMA StartFacts ==
  ASSUME TypeOK, NEW r \in Requests, NEW a \in Args \cup {NoRequest},
         NEW next \in Steps \cup Ended, Start(r, a, next),
         next \in Steps => a \in Args
  PROVE  /\ pc' \in [Requests -> {"idle"} \cup Steps \cup Ended]
         /\ arg' \in [Requests -> Args \cup {NoRequest}]
         /\ pc[r] = "idle" /\ pc'[r] = next
         /\ next \in Steps => arg'[r] = a
         /\ \A q \in Requests \ {r} : pc'[q] = pc[q] /\ arg'[q] = arg[q]
         /\ \A q \in Requests : pc'[q] \in Steps => arg'[q] \in Args
         /\ late' \subseteq Requests
         /\ late' = {} => \A q \in Requests : pc[q] \notin Steps
<1>1. /\ pc \in [Requests -> {"idle"} \cup Steps \cup Ended]
      /\ arg \in [Requests -> Args \cup {NoRequest}]
      /\ \A q \in Requests : pc[q] \in Steps => arg[q] \in Args
  BY DEF TypeOK
<1>2. /\ pc[r] = "idle" /\ pc' = [pc EXCEPT ![r] = next]
      /\ arg' = [arg EXCEPT ![r] = IF next \in Steps THEN a ELSE NoRequest]
      /\ late' = IF \E q \in Requests : pc[q] \in Steps THEN late \cup {r} ELSE late
  BY DEF Start
<1>3. late' \subseteq Requests /\ (late' = {} => \A q \in Requests : pc[q] \notin Steps)
  BY <1>2 DEF TypeOK
<1> QED
  BY <1>1, <1>2, <1>3

LEMMA GotoFacts ==
  ASSUME TypeOK, NEW r \in Requests, NEW from \in Steps,
         NEW next \in Steps \cup Ended, Goto(r, from, next)
  PROVE  /\ pc' \in [Requests -> {"idle"} \cup Steps \cup Ended]
         /\ arg' \in [Requests -> Args \cup {NoRequest}]
         /\ pc[r] = from /\ pc'[r] = next /\ arg[r] \in Args
         /\ next \in Steps => arg'[r] = arg[r]
         /\ \A q \in Requests \ {r} : pc'[q] = pc[q] /\ arg'[q] = arg[q]
         /\ \A q \in Requests : pc'[q] \in Steps => arg'[q] \in Args
         /\ late' = late /\ late' \subseteq Requests
<1>1. /\ pc \in [Requests -> {"idle"} \cup Steps \cup Ended]
      /\ arg \in [Requests -> Args \cup {NoRequest}]
      /\ \A q \in Requests : pc[q] \in Steps => arg[q] \in Args
      /\ late \subseteq Requests
  BY DEF TypeOK
<1>2. /\ late' = late /\ pc[r] = from /\ pc' = [pc EXCEPT ![r] = next]
      /\ arg' = [arg EXCEPT ![r] = IF next \in Steps THEN @ ELSE NoRequest]
  BY DEF Goto
<1> QED
  BY <1>1, <1>2

(* A step that leaves the tables as they are keeps what types say of them. *)
LEMMA TablesKept ==
  ASSUME TypeOK, UNCHANGED <<rows, born, linked, stale>>
  PROVE  /\ rows' \in [Users -> Rows \cup {NoRow}]
         /\ born' \subseteq Users /\ linked' \subseteq Present'
         /\ Present' \subseteq born' /\ stale' \in [Users -> SUBSET Rows]
         /\ Present' = Present /\ Supers' = Supers
BY DEF TypeOK, Present, Supers

(* Every entry leaves the trail well typed.                                *)
LEMMA RecordFacts ==
  ASSUME TypeOK, NEW r \in Requests, arg[r] \in Args,
         NEW said \in Rows \cup {NoRow, Deleted}, Record(r, said)
  PROVE  /\ trail' \in [Users -> Rows \cup {NoRow, Deleted}]
         /\ missed' \subseteq Users
         /\ \A u \in Users : trail'[u] # trail[u] => u = arg[r].target /\ trail'[u] = said
<1>1. /\ trail \in [Users -> Rows \cup {NoRow, Deleted}]
      /\ missed \subseteq Users /\ arg[r].target \in Users
  BY DEF TypeOK, Args
<1>2. \/ trail' = [trail EXCEPT ![arg[r].target] = said] /\ missed' = missed
      \/ trail' = trail /\ missed' = missed \cup {arg[r].target}
  BY DEF Record
<1> QED
  BY <1>1, <1>2

LEMMA Replays ==
  ASSUME NEW b \in Rows \cup {NoRow, Deleted}, NEW a \in Args
  PROVE  /\ a.wish.role # "same" => WithRole(b, a.wish.role) \in Rows \cup {NoRow, Deleted}
         /\ a.wish.super # "same" => WithSuper(b, a.wish.super) \in Rows \cup {NoRow, Deleted}
         /\ (WithRole(b, a.wish.role) = Deleted /\ a.wish.role # "same") => b = Deleted
         /\ (WithSuper(b, a.wish.super) = Deleted /\ a.wish.super # "same") => b = Deleted
<1>1. a.wish \in Wishes
  BY DEF Args
<1>2. /\ a.wish.role # "same" => a.wish.role \in Roles
      /\ a.wish.super # "same" => a.wish.super \in {"yes", "no"}
  BY <1>1 DEF Wishes
<1>3. b \in Rows => b.role \in Roles /\ b.super \in {"yes", "no"}
  BY DEF Rows
<1>4. a.wish.role # "same" /\ b \in Rows => WithRole(b, a.wish.role) \in Rows
  BY <1>2, <1>3 DEF WithRole, Rows
<1>5. a.wish.super # "same" /\ b \in Rows => WithSuper(b, a.wish.super) \in Rows
  BY <1>2, <1>3 DEF WithSuper, Rows
<1>6. b \notin Rows => WithRole(b, a.wish.role) = b /\ WithSuper(b, a.wish.super) = b
  BY DEF WithRole, WithSuper
<1> QED
  BY <1>4, <1>5, <1>6, AccountsAssumption

-----------------------------------------------------------------------------
(* The trail and the table, whatever races *)

LEMMA InitEstablishes == Init => IInv /\ SInv
<1> SUFFICES ASSUME Init PROVE IInv /\ SInv
  OBVIOUS
<1> USE AccountsAssumption DEF Init
<1>1. \A r \in Requests : pc[r] = "idle"
  OBVIOUS
<1>2. TypeOK
  BY <1>1 DEF TypeOK, Present, Steps, Telling, Ended
<1>3. DeletionsAreFinal
  BY <1>1 DEF DeletionsAreFinal, Present
<1>4. OneRequest /\ SeenSuperuserStays
  BY <1>1 DEF OneRequest, SeenSuperuserStays, Steps, Telling
<1>5. SuperuserRemains
  BY DEF SuperuserRemains, Supers, Present
<1> QED
  BY <1>2, <1>3, <1>4, <1>5 DEF IInv, SInv

(* A request that is refused, or that goes on to a statement other than    *)
(* one that tells a creation or a deletion.                                *)
LEMMA QuietStep ==
  ASSUME IInv, NEW r \in Requests,
         UNCHANGED <<rows, born, linked, stale, trail, missed>>,
         pc' \in [Requests -> {"idle"} \cup Steps \cup Ended],
         arg' \in [Requests -> Args \cup {NoRequest}] /\ late' \subseteq Requests,
         \A q \in Requests \ {r} : pc'[q] = pc[q] /\ arg'[q] = arg[q],
         \A q \in Requests : pc'[q] \in Steps => arg'[q] \in Args,
         pc'[r] \notin {"tellGone", "tellBorn"}
  PROVE  IInv'
<1>1. TypeOK'
  BY TablesKept DEF IInv, TypeOK
<1>2. DeletionsAreFinal'
  BY DEF IInv, DeletionsAreFinal, Present
<1> QED
  BY <1>1, <1>2 DEF IInv

LEMMA ArrivalKeepsTables ==
  ASSUME IInv, NEW r \in Requests, NEW u \in Users, NEW p \in Claims(u), NEW t \in Users,
         \/ \E w \in Wishes : UpdateStart(r, u, p, t, w)
         \/ RemoveStart(r, u, p, t)
  PROVE  IInv'
<1>0. t \in Present => rows[t] \in Rows
  BY DEF IInv, TypeOK, Present
<1>1. PICK a \in Args \cup {NoRequest}, next \in {"others", "write", "counts", "denied"} :
        /\ Start(r, a, next)
        /\ next # "denied" => a \in Args
        /\ UNCHANGED <<rows, born, linked, stale, trail, missed>>
  <2>1. ASSUME NEW w \in Wishes, UpdateStart(r, u, p, t, w)
        PROVE  \E a \in Args \cup {NoRequest}, next \in {"others", "write", "counts", "denied"} :
                 /\ Start(r, a, next)
                 /\ next # "denied" => a \in Args
                 /\ UNCHANGED <<rows, born, linked, stale, trail, missed>>
    <3>1. t \in Present => Request("update", u, t, w, rows[t]) \in Args
      BY <1>0 DEF Request, Args
    <3>2. CASE Editable(u, p, t, w)
      BY <2>1, <3>1, <3>2 DEF UpdateStart, Editable
    <3>3. CASE ~Editable(u, p, t, w)
      BY <2>1, <3>3 DEF UpdateStart
    <3> QED
      BY <3>2, <3>3
  <2>2. CASE RemoveStart(r, u, p, t)
    <3>1. t \in Present =>
            Request("remove", u, t, [role |-> "same", super |-> "same"], rows[t]) \in Args
      BY <1>0 DEF Request, Args, Wishes
    <3>2. CASE t \in Present \ {u}
      BY <2>2, <3>1, <3>2 DEF RemoveStart
    <3>3. CASE t \notin Present \ {u}
      BY <2>2, <3>3 DEF RemoveStart
    <3> QED
      BY <3>2, <3>3
  <2> QED
    BY <2>1, <2>2
<1>2. next \in Steps \cup Ended /\ (next \in Steps => a \in Args)
  BY <1>1 DEF Steps, Ended, Telling
<1>3. /\ pc' \in [Requests -> {"idle"} \cup Steps \cup Ended]
      /\ arg' \in [Requests -> Args \cup {NoRequest}] /\ late' \subseteq Requests
      /\ pc'[r] = next
      /\ \A q \in Requests \ {r} : pc'[q] = pc[q] /\ arg'[q] = arg[q]
      /\ \A q \in Requests : pc'[q] \in Steps => arg'[q] \in Args
  BY <1>1, <1>2, StartFacts DEF IInv
<1> QED
  BY <1>1, <1>3, QuietStep

LEMMA CreatePreserves ==
  ASSUME IInv, NEW r \in Requests, NEW u \in Users, NEW p \in Claims(u), NEW t \in Users,
         NEW w \in Rows, Create(r, u, p, t, w)
  PROVE  IInv'
<1>1. CASE p.super = "no" /\ w.super = "yes"
  <2>1. /\ Start(r, NoRequest, "denied")
        /\ UNCHANGED <<rows, born, linked, stale, trail, missed>>
    BY <1>1 DEF Create
  <2>2. /\ pc' \in [Requests -> {"idle"} \cup Steps \cup Ended]
        /\ arg' \in [Requests -> Args \cup {NoRequest}] /\ late' \subseteq Requests
        /\ pc'[r] = "denied"
        /\ \A q \in Requests \ {r} : pc'[q] = pc[q] /\ arg'[q] = arg[q]
        /\ \A q \in Requests : pc'[q] \in Steps => arg'[q] \in Args
    BY <2>1, StartFacts DEF IInv, Steps, Ended, Telling
  <2> QED
    BY <2>1, <2>2, QuietStep
<1>2. CASE ~(p.super = "no" /\ w.super = "yes")
  <2> DEFINE a == Request("create", u, t, w, w)
  <2>1. /\ Start(r, a, "tellBorn") /\ t \notin born
        /\ rows' = [rows EXCEPT ![t] = w] /\ born' = born \cup {t}
        /\ UNCHANGED <<linked, stale, trail, missed>>
    BY <1>2 DEF Create
  <2>2. a \in Args /\ a.wish = w /\ a.target = t
    <3>1. w \in Wishes
      BY DEF Rows, Wishes
    <3> QED
      BY <3>1 DEF Request, Args
  <2> HIDE DEF a
  <2>3. /\ pc' \in [Requests -> {"idle"} \cup Steps \cup Ended]
        /\ arg' \in [Requests -> Args \cup {NoRequest}] /\ late' \subseteq Requests
        /\ pc'[r] = "tellBorn" /\ arg'[r] = a
        /\ \A q \in Requests \ {r} : pc'[q] = pc[q] /\ arg'[q] = arg[q]
        /\ \A q \in Requests : pc'[q] \in Steps => arg'[q] \in Args
    BY <2>1, <2>2, StartFacts DEF IInv, Steps, Ended, Telling
  <2>4. /\ rows \in [Users -> Rows \cup {NoRow}] /\ w # NoRow
        /\ Present \subseteq born /\ born \subseteq Users /\ linked \subseteq Present
    BY AccountsAssumption DEF IInv, TypeOK
  <2>5. Present' = Present \cup {t} /\ rows' \in [Users -> Rows \cup {NoRow}]
    BY <2>1, <2>4 DEF Present
  <2>6. TypeOK'
    BY <2>1, <2>3, <2>4, <2>5 DEF IInv, TypeOK
  <2>7. DeletionsAreFinal'
    <3>1. \A v \in Users : trail'[v] = Deleted => v \in born' /\ v \notin Present'
      BY <2>1, <2>5 DEF IInv, DeletionsAreFinal
    <3>2. \A q \in Requests : pc'[q] = "tellGone" =>
            arg'[q].target \in born' /\ arg'[q].target \notin Present'
      BY <2>1, <2>3, <2>5 DEF IInv, DeletionsAreFinal
    <3>3. \A q \in Requests : pc'[q] = "tellBorn" => arg'[q].wish \in Rows
      BY <2>2, <2>3 DEF IInv, DeletionsAreFinal
    <3> QED
      BY <3>1, <3>2, <3>3 DEF DeletionsAreFinal
  <2> QED
    BY <2>6, <2>7 DEF IInv
<1> QED
  BY <1>1, <1>2

LEMMA CountPreserves ==
  ASSUME IInv, NEW r \in Requests, CountOthers(r) \/ CountLinks(r)
  PROVE  IInv'
<1>1. PICK from \in {"others", "counts"}, next \in {"denied", "write", "counts", "delete"} :
        /\ Goto(r, from, next)
        /\ UNCHANGED <<rows, born, linked, stale, trail, missed>>
  BY DEF CountOthers, CountLinks
<1>2. from \in Steps /\ next \in Steps \cup Ended
  BY <1>1 DEF Steps, Ended, Telling
<1>3. /\ pc' \in [Requests -> {"idle"} \cup Steps \cup Ended]
      /\ arg' \in [Requests -> Args \cup {NoRequest}] /\ late' \subseteq Requests
      /\ pc'[r] = next
      /\ \A q \in Requests \ {r} : pc'[q] = pc[q] /\ arg'[q] = arg[q]
      /\ \A q \in Requests : pc'[q] \in Steps => arg'[q] \in Args
  BY <1>1, <1>2, GotoFacts DEF IInv
<1> QED
  BY <1>1, <1>3, QuietStep

LEMMA WriteFacts ==
  ASSUME TypeOK, NEW r \in Requests, Write(r)
  PROVE  /\ pc[r] = "write" /\ pc'[r] \in {"tellRole", "error"}
         /\ pc' \in [Requests -> {"idle"} \cup Steps \cup Ended]
         /\ arg' \in [Requests -> Args \cup {NoRequest}] /\ late' \subseteq Requests
         /\ \A q \in Requests \ {r} : pc'[q] = pc[q] /\ arg'[q] = arg[q]
         /\ \A q \in Requests : pc'[q] \in Steps => arg'[q] \in Args
         /\ UNCHANGED <<born, linked, trail, missed>>
         /\ rows' \in [Users -> Rows \cup {NoRow}] /\ stale' \in [Users -> SUBSET Rows]
         /\ Present' = Present
         /\ \A u \in Present : u # arg[r].target => rows'[u] = rows[u]
         /\ arg[r].target \in Present =>
              rows'[arg[r].target].super = Chosen(arg[r].wish.super, rows[arg[r].target].super)
<1> DEFINE t == arg[r].target
           w == arg[r].wish
           new == [role |-> Chosen(w.role, rows[t].role), super |-> Chosen(w.super, rows[t].super)]
<1>1. PICK next \in {"tellRole", "error"} :
        /\ Goto(r, "write", next)
        /\ UNCHANGED <<born, linked, trail, missed>>
        /\ \/ /\ t \in Present /\ rows' = [rows EXCEPT ![t] = new]
              /\ stale' = [stale EXCEPT ![t] = @ \cup {rows[t]}]
           \/ t \notin Present /\ UNCHANGED <<rows, stale>>
  BY DEF Write
<1>2. "write" \in Steps /\ next \in Steps \cup Ended
  BY DEF Steps, Ended, Telling
<1>3. /\ pc[r] = "write" /\ pc'[r] = next /\ arg[r] \in Args
      /\ pc' \in [Requests -> {"idle"} \cup Steps \cup Ended]
      /\ arg' \in [Requests -> Args \cup {NoRequest}] /\ late' \subseteq Requests
      /\ \A q \in Requests \ {r} : pc'[q] = pc[q] /\ arg'[q] = arg[q]
      /\ \A q \in Requests : pc'[q] \in Steps => arg'[q] \in Args
  BY <1>1, <1>2, GotoFacts
<1>4. /\ rows \in [Users -> Rows \cup {NoRow}] /\ stale \in [Users -> SUBSET Rows]
      /\ t \in Users /\ w \in Wishes
  BY <1>3 DEF TypeOK, Args
<1>5. CASE t \in Present
  <2>1. rows[t] \in Rows
    BY <1>4, <1>5 DEF Present
  <2>2. new \in Rows
    <3>1. rows[t].role \in Roles /\ rows[t].super \in {"yes", "no"}
      BY <2>1 DEF Rows
    <3>2. w.role \in Roles \cup {"same"} /\ w.super \in {"yes", "no", "same"}
      BY <1>4 DEF Wishes
    <3>3. Chosen(w.role, rows[t].role) \in Roles /\ Chosen(w.super, rows[t].super) \in {"yes", "no"}
      BY <3>1, <3>2 DEF Chosen
    <3> HIDE DEF t, w
    <3> QED
      BY <3>3 DEF Rows
  <2>3. rows' = [rows EXCEPT ![t] = new] /\ stale' = [stale EXCEPT ![t] = @ \cup {rows[t]}]
    BY <1>1, <1>5
  <2>4. new # NoRow /\ new.super = Chosen(w.super, rows[t].super)
    BY <2>2, AccountsAssumption
  <2> HIDE DEF new, t
  <2>5. /\ rows' \in [Users -> Rows \cup {NoRow}] /\ stale' \in [Users -> SUBSET Rows]
        /\ rows'[t] = new /\ \A u \in Users \ {t} : rows'[u] = rows[u]
    BY <1>4, <2>1, <2>2, <2>3
  <2>6. Present' = Present
    BY <1>4, <1>5, <2>4, <2>5 DEF Present
  <2>7. \A u \in Present : u # t => rows'[u] = rows[u]
    BY <2>5 DEF Present
  <2> QED
    BY <1>1, <1>3, <2>4, <2>5, <2>6, <2>7 DEF t
<1>6. CASE t \notin Present
  <2>1. rows' = rows /\ stale' = stale
    BY <1>1, <1>6
  <2>2. Present' = Present
    BY <2>1 DEF Present
  <2> QED
    BY <1>1, <1>3, <1>4, <1>6, <2>1, <2>2
<1> QED
  BY <1>5, <1>6

LEMMA DeleteFacts ==
  ASSUME TypeOK, NEW r \in Requests, Delete(r)
  PROVE  /\ pc[r] = "delete" /\ pc'[r] \in {"tellGone", "error"} /\ arg[r] \in Args
         /\ pc' \in [Requests -> {"idle"} \cup Steps \cup Ended]
         /\ arg' \in [Requests -> Args \cup {NoRequest}] /\ late' \subseteq Requests
         /\ pc'[r] = "tellGone" => arg'[r] = arg[r]
         /\ \A q \in Requests \ {r} : pc'[q] = pc[q] /\ arg'[q] = arg[q]
         /\ \A q \in Requests : pc'[q] \in Steps => arg'[q] \in Args
         /\ UNCHANGED <<born, linked, trail, missed>>
         /\ rows' \in [Users -> Rows \cup {NoRow}] /\ stale' \in [Users -> SUBSET Rows]
         /\ \/ /\ pc'[r] = "tellGone"
               /\ arg[r].target \in Present \ linked
               /\ Present' = Present \ {arg[r].target}
            \/ pc'[r] = "error" /\ Present' = Present
         /\ \A u \in Present' : rows'[u] = rows[u]
<1> DEFINE t == arg[r].target
<1>1. PICK next \in {"tellGone", "error"} :
        /\ Goto(r, "delete", next)
        /\ UNCHANGED <<born, linked, trail, missed>>
        /\ \/ /\ t \in Present \ linked /\ rows' = [rows EXCEPT ![t] = NoRow]
              /\ stale' = [stale EXCEPT ![t] = @ \cup {rows[t]}]
              /\ next = "tellGone"
           \/ next = "error" /\ UNCHANGED <<rows, stale>>
  BY DEF Delete, Deletable, Thrown
<1>2. "delete" \in Steps /\ next \in Steps \cup Ended
  BY DEF Steps, Ended, Telling
<1>3. /\ pc[r] = "delete" /\ pc'[r] = next /\ arg[r] \in Args
      /\ next \in Steps => arg'[r] = arg[r]
      /\ pc' \in [Requests -> {"idle"} \cup Steps \cup Ended]
      /\ arg' \in [Requests -> Args \cup {NoRequest}] /\ late' \subseteq Requests
      /\ \A q \in Requests \ {r} : pc'[q] = pc[q] /\ arg'[q] = arg[q]
      /\ \A q \in Requests : pc'[q] \in Steps => arg'[q] \in Args
  BY <1>1, <1>2, GotoFacts
<1>4. /\ rows \in [Users -> Rows \cup {NoRow}] /\ stale \in [Users -> SUBSET Rows]
      /\ t \in Users
  BY <1>3 DEF TypeOK, Args
<1>5. CASE next = "tellGone"
  <2>1. /\ t \in Present \ linked /\ rows' = [rows EXCEPT ![t] = NoRow]
        /\ stale' = [stale EXCEPT ![t] = @ \cup {rows[t]}]
    BY <1>1, <1>5
  <2>2. rows[t] \in Rows
    BY <1>4, <2>1 DEF Present
  <2> HIDE DEF t
  <2>3. /\ rows' \in [Users -> Rows \cup {NoRow}] /\ stale' \in [Users -> SUBSET Rows]
        /\ rows'[t] = NoRow /\ \A u \in Users \ {t} : rows'[u] = rows[u]
    BY <1>4, <2>1, <2>2
  <2>4. Present' = Present \ {t} /\ \A u \in Present' : rows'[u] = rows[u]
    BY <2>3 DEF Present
  <2>5. arg'[r] = arg[r]
    BY <1>3, <1>5 DEF Steps, Telling
  <2> QED
    BY <1>1, <1>3, <1>5, <2>1, <2>3, <2>4, <2>5 DEF t
<1>6. CASE next = "error"
  <2>1. rows' = rows /\ stale' = stale
    BY <1>1, <1>6
  <2>2. Present' = Present /\ \A u \in Present' : rows'[u] = rows[u]
    BY <2>1 DEF Present
  <2> QED
    BY <1>1, <1>3, <1>4, <1>6, <2>1, <2>2
<1> QED
  BY <1>5, <1>6

LEMMA ChangePreserves ==
  ASSUME IInv, NEW r \in Requests, Write(r) \/ Delete(r)
  PROVE  IInv'
<1>1. CASE Write(r)
  <2>1. TypeOK'
    BY <1>1, WriteFacts DEF IInv, TypeOK
  <2>2. DeletionsAreFinal'
    BY <1>1, WriteFacts DEF IInv, DeletionsAreFinal
  <2> QED
    BY <2>1, <2>2 DEF IInv
<1>2. CASE Delete(r)
  <2>1. TypeOK'
    BY <1>2, DeleteFacts DEF IInv, TypeOK
  <2>2. \A u \in Users : trail'[u] = Deleted => u \in born' /\ u \notin Present'
    BY <1>2, DeleteFacts DEF IInv, DeletionsAreFinal
  <2>3. \A q \in Requests : pc'[q] = "tellGone" =>
          arg'[q].target \in born' /\ arg'[q].target \notin Present'
    BY <1>2, DeleteFacts DEF IInv, TypeOK, DeletionsAreFinal
  <2>4. \A q \in Requests : pc'[q] = "tellBorn" => arg'[q].wish \in Rows
    BY <1>2, DeleteFacts DEF IInv, DeletionsAreFinal
  <2> QED
    BY <2>1, <2>2, <2>3, <2>4 DEF IInv, DeletionsAreFinal
<1> QED
  BY <1>1, <1>2

(* An entry changes the table of no one; it tells a deletion only of a     *)
(* user that is gone.                                                       *)
LEMMA TellPreserves ==
  ASSUME IInv, NEW r \in Requests,
         TellBorn(r) \/ TellRole(r) \/ TellSuper(r) \/ TellGone(r) \/ Crash(r)
  PROVE  IInv'
<1>0. UNCHANGED <<rows, born, linked, stale>>
  BY DEF TellBorn, TellRole, TellSuper, TellGone, Crash
<1>1. PICK from \in Steps, next \in {"ok", "tellSuper", "gone"} : Goto(r, from, next)
  BY DEF TellBorn, TellRole, TellSuper, TellGone, Crash, Steps, Telling
<1>2. next \in Steps \cup Ended
  BY DEF Steps, Ended, Telling
<1>3. /\ pc' \in [Requests -> {"idle"} \cup Steps \cup Ended]
      /\ arg' \in [Requests -> Args \cup {NoRequest}] /\ late' \subseteq Requests
      /\ pc[r] = from /\ pc'[r] = next /\ arg[r] \in Args
      /\ \A q \in Requests \ {r} : pc'[q] = pc[q] /\ arg'[q] = arg[q]
      /\ \A q \in Requests : pc'[q] \in Steps => arg'[q] \in Args
  BY <1>1, <1>2, GotoFacts DEF IInv
<1>4. /\ trail \in [Users -> Rows \cup {NoRow, Deleted}] /\ missed \subseteq Users
      /\ arg[r].target \in Users
  BY <1>3 DEF IInv, TypeOK, Args
<1>5. /\ trail' \in [Users -> Rows \cup {NoRow, Deleted}] /\ missed' \subseteq Users
      /\ \A u \in Users : trail'[u] = Deleted =>
           trail[u] = Deleted \/ (pc[r] = "tellGone" /\ u = arg[r].target)
  <2>1. ASSUME NEW said \in Rows \cup {NoRow, Deleted}, Record(r, said),
               said = Deleted => \/ trail[arg[r].target] = Deleted
                                 \/ pc[r] = "tellGone"
        PROVE  /\ trail' \in [Users -> Rows \cup {NoRow, Deleted}] /\ missed' \subseteq Users
               /\ \A u \in Users : trail'[u] = Deleted =>
                    trail[u] = Deleted \/ (pc[r] = "tellGone" /\ u = arg[r].target)
    BY <1>3, <2>1, RecordFacts DEF IInv
  <2>2. CASE TellBorn(r)
    <3>1. arg[r].wish \in Rows /\ Record(r, arg[r].wish)
      BY <2>2 DEF TellBorn, Goto, IInv, DeletionsAreFinal
    <3> QED
      BY <2>1, <3>1, AccountsAssumption
  <2>3. CASE TellRole(r)
    <3>1. \/ UNCHANGED <<trail, missed>>
          \/ /\ arg[r].wish.role # "same"
             /\ Record(r, WithRole(trail[arg[r].target], arg[r].wish.role))
      BY <2>3 DEF TellRole, Due
    <3>2. trail[arg[r].target] \in Rows \cup {NoRow, Deleted}
      BY <1>4
    <3> QED
      BY <1>3, <1>4, <2>1, <3>1, <3>2, Replays
  <2>4. CASE TellSuper(r)
    <3>1. \/ UNCHANGED <<trail, missed>>
          \/ /\ arg[r].wish.super # "same"
             /\ Record(r, WithSuper(trail[arg[r].target], arg[r].wish.super))
      BY <2>4 DEF TellSuper, Due
    <3>2. trail[arg[r].target] \in Rows \cup {NoRow, Deleted}
      BY <1>4
    <3> QED
      BY <1>3, <1>4, <2>1, <3>1, <3>2, Replays
  <2>5. CASE TellGone(r)
    <3>1. pc[r] = "tellGone" /\ Record(r, Deleted)
      BY <2>5 DEF TellGone, Goto
    <3> QED
      BY <2>1, <3>1
  <2>6. CASE Crash(r)
    <3>1. trail' = trail /\ missed' \subseteq missed \cup {arg[r].target}
      BY <2>6 DEF Crash
    <3> QED
      BY <1>4, <3>1
  <2> QED
    BY <2>2, <2>3, <2>4, <2>5, <2>6
<1>6. TypeOK'
  BY <1>0, <1>3, <1>5, TablesKept DEF IInv, TypeOK
<1>7. DeletionsAreFinal'
  <2>1. Present' = Present /\ born' = born
    BY <1>0, TablesKept DEF IInv
  <2>2. \A u \in Users : trail'[u] = Deleted => u \in born' /\ u \notin Present'
    BY <1>5, <2>1 DEF IInv, DeletionsAreFinal
  <2>3. \A q \in Requests : pc'[q] \in {"tellGone", "tellBorn"} =>
          pc'[q] = pc[q] /\ arg'[q] = arg[q]
    BY <1>1, <1>3
  <2> QED
    BY <2>1, <2>2, <2>3 DEF IInv, DeletionsAreFinal
<1> QED
  BY <1>6, <1>7 DEF IInv

LEMMA LinkPreserves ==
  ASSUME IInv, NEW u \in Users, Link(u)
  PROVE  IInv'
<1>1. /\ u \in Present /\ linked' = linked \cup {u}
      /\ UNCHANGED <<rows, born, stale, trail, missed, pc, arg, late>>
  BY DEF Link
<1>2. Present' = Present
  BY <1>1 DEF Present
<1>3. TypeOK'
  BY <1>1, <1>2 DEF IInv, TypeOK
<1>4. DeletionsAreFinal'
  BY <1>1, <1>2 DEF IInv, DeletionsAreFinal
<1> QED
  BY <1>3, <1>4 DEF IInv

LEMMA Inductive ==
  ASSUME IInv, [Next]_vars
  PROVE  IInv'
<1>1. CASE UNCHANGED vars
  BY <1>1 DEF vars, IInv, TypeOK, DeletionsAreFinal, Present
<1>2. ASSUME NEW r \in Requests, Arrive(r)
      PROVE  IInv'
  BY <1>2, CreatePreserves, ArrivalKeepsTables DEF Arrive
<1>3. ASSUME NEW r \in Requests, Continue(r)
      PROVE  IInv'
  BY <1>3, CountPreserves, ChangePreserves, TellPreserves DEF Continue
<1>4. ASSUME NEW u \in Users, Link(u)
      PROVE  IInv'
  BY <1>4, LinkPreserves
<1> QED
  BY <1>1, <1>2, <1>3, <1>4 DEF Next

(* Every variable stays in its domain, and the keys of tickets and         *)
(* activities refer to users that exist, however requests race.            *)
THEOREM TypeCorrect == Spec => []TypeOK
<1>1. Init => IInv
  BY InitEstablishes
<1>2. IInv /\ [Next]_vars => IInv'
  BY Inductive
<1>3. IInv => TypeOK
  BY DEF IInv
<1> QED
  BY <1>1, <1>2, <1>3, PTL DEF Spec

(* However requests race, a deletion the trail tells of has happened, and  *)
(* left no ticket or activity behind (remove records after the DELETE,     *)
(* which throws when it removes nothing).                                  *)
THEOREM DeletionsTold == Spec => []DeletionsToldAreTrue
<1>1. Init => IInv
  BY InitEstablishes
<1>2. IInv /\ [Next]_vars => IInv'
  BY Inductive
<1>3. IInv => DeletionsToldAreTrue
  BY DEF IInv, TypeOK, DeletionsAreFinal, DeletionsToldAreTrue
<1> QED
  BY <1>1, <1>2, <1>3, PTL DEF Spec

-----------------------------------------------------------------------------
(* The last superuser, one request at a time *)

(* A step that leaves the privileges alone keeps what was seen of them.    *)
LEMMA PrivilegesKept ==
  ASSUME SInv, UNCHANGED rows,
         \A r \in Requests : pc'[r] \in {"write", "counts", "delete"} =>
           /\ arg'[r] = arg[r]
           /\ \/ pc'[r] = pc[r]
              \/ pc'[r] = "delete" /\ pc[r] = "counts"
  PROVE  SeenSuperuserStays' /\ SuperuserRemains'
<1>1. Supers' = Supers
  BY DEF Supers, Present
<1>2. SuperuserRemains'
  BY <1>1 DEF SInv, SuperuserRemains
<1>3. SeenSuperuserStays'
  BY <1>1 DEF SInv, SeenSuperuserStays, OtherSuperuser
<1> QED
  BY <1>2, <1>3

(* A request starts only when no other is under way.                       *)
LEMMA ArrivalSerial ==
  ASSUME late' = {}, SInv, NEW r \in Requests, Arrive(r)
  PROVE  OneRequest' /\ SeenSuperuserStays' /\ SuperuserRemains'
<1>0. /\ TypeOK
      /\ \A t \in Present : rows[t] \in Rows
  BY DEF SInv, IInv, TypeOK, Present
<1>1. ASSUME NEW a \in Args \cup {NoRequest}, NEW next \in Steps \cup Ended,
             Start(r, a, next), next \in Steps => a \in Args
      PROVE  /\ OneRequest'
             /\ \A q \in Requests : pc'[q] \in Steps => q = r /\ pc'[q] = next /\ arg'[q] = a
  <2>1. /\ pc'[r] = next
        /\ next \in Steps => arg'[r] = a
        /\ \A q \in Requests \ {r} : pc'[q] = pc[q] /\ pc[q] \notin Steps
    BY <1>0, <1>1, StartFacts
  <2>2. \A q \in Requests : pc'[q] \in Steps => q = r
    BY <2>1
  <2> QED
    BY <1>0, <1>1, <2>1, <2>2, StartFacts DEF OneRequest
<1>2. PICK u \in Users : \E p \in Claims(u), t \in Users :
        \/ \E w \in Rows : Create(r, u, p, t, w)
        \/ \E w \in Wishes : UpdateStart(r, u, p, t, w)
        \/ RemoveStart(r, u, p, t)
  BY DEF Arrive
<1>2a. PICK p \in Claims(u), t \in Users :
        \/ \E w \in Rows : Create(r, u, p, t, w)
        \/ \E w \in Wishes : UpdateStart(r, u, p, t, w)
        \/ RemoveStart(r, u, p, t)
  BY <1>2
<1>3. ASSUME NEW a \in Args \cup {NoRequest}, NEW next \in {"denied", "others"},
             Start(r, a, next), next = "others" => a \in Args, UNCHANGED rows
      PROVE  OneRequest' /\ SeenSuperuserStays' /\ SuperuserRemains'
  <2>1. /\ OneRequest'
        /\ \A q \in Requests : pc'[q] \in Steps => pc'[q] = next
    BY <1>1, <1>3 DEF Steps, Ended, Telling
  <2>2. \A q \in Requests : pc'[q] \notin {"write", "counts", "delete"}
    BY <2>1 DEF Steps
  <2> QED
    BY <1>3, <2>1, <2>2, PrivilegesKept
<1>4. ASSUME NEW w \in Rows, Create(r, u, p, t, w)
      PROVE  OneRequest' /\ SeenSuperuserStays' /\ SuperuserRemains'
  <2>1. CASE p.super = "no" /\ w.super = "yes"
    BY <1>3, <1>4, <2>1 DEF Create
  <2>2. CASE ~(p.super = "no" /\ w.super = "yes")
    <3> DEFINE a == Request("create", u, t, w, w)
    <3>1. /\ Start(r, a, "tellBorn") /\ t \notin born
          /\ rows' = [rows EXCEPT ![t] = w]
      BY <1>4, <2>2 DEF Create
    <3>2. a \in Args
      BY DEF Request, Args, Rows, Wishes
    <3>3. /\ OneRequest'
          /\ \A q \in Requests : pc'[q] \in Steps => pc'[q] = "tellBorn"
      BY <1>1, <3>1, <3>2 DEF Steps, Ended, Telling
    <3>4. SeenSuperuserStays'
      BY <3>3 DEF SeenSuperuserStays, Steps
    <3>5. \A v \in Present : v # t /\ rows'[v] = rows[v]
      BY <3>1 DEF SInv, IInv, TypeOK, Present
    <3>6. SuperuserRemains'
      BY <3>5 DEF SInv, SuperuserRemains, Supers, Present
    <3> QED
      BY <3>3, <3>4, <3>6
  <2> QED
    BY <2>1, <2>2
<1>5. ASSUME NEW w \in Wishes, UpdateStart(r, u, p, t, w)
      PROVE  OneRequest' /\ SeenSuperuserStays' /\ SuperuserRemains'
  <2> DEFINE a == Request("update", u, t, w, rows[t])
             demotion == w.super = "no" /\ rows[t].super = "yes"
  <2>1. CASE ~Editable(u, p, t, w)
    BY <1>3, <1>5, <2>1 DEF UpdateStart
  <2>2. CASE Editable(u, p, t, w)
    <3>1. /\ Start(r, a, IF demotion THEN "others" ELSE "write") /\ UNCHANGED rows
          /\ t \in Present
      BY <1>5, <2>2 DEF UpdateStart, Editable
    <3>2. a \in Args /\ a.target = t /\ a.wish = w
      BY <1>0, <3>1 DEF Request, Args
    <3> HIDE DEF a
    <3>3. CASE demotion
      BY <1>3, <3>1, <3>2, <3>3
    <3>4. CASE ~demotion
      <4>1. /\ OneRequest'
            /\ \A q \in Requests : pc'[q] \in Steps => pc'[q] = "write" /\ arg'[q] = a
        BY <1>1, <3>1, <3>2, <3>4 DEF Steps, Ended, Telling
      <4>2. Supers' = Supers
        BY <3>1 DEF Supers, Present
      <4>3. SeenSuperuserStays'
        BY <3>2, <3>4, <4>1, <4>2 DEF SeenSuperuserStays, Steps, Supers
      <4> QED
        BY <4>1, <4>2, <4>3 DEF SInv, SuperuserRemains
    <3> QED
      BY <3>3, <3>4
  <2> QED
    BY <2>1, <2>2
<1>6. CASE RemoveStart(r, u, p, t)
  <2> DEFINE a == Request("remove", u, t, [role |-> "same", super |-> "same"], rows[t])
  <2>1. CASE t \notin Present \ {u}
    BY <1>3, <1>6, <2>1 DEF RemoveStart
  <2>2. CASE t \in Present \ {u}
    <3>1. /\ Start(r, a, IF rows[t].super = "yes" THEN "others" ELSE "counts")
          /\ UNCHANGED rows
      BY <1>6, <2>2 DEF RemoveStart
    <3>2. a \in Args /\ a.target = t
      BY <1>0, <2>2 DEF Request, Args, Wishes
    <3> HIDE DEF a
    <3>3. CASE rows[t].super = "yes"
      BY <1>3, <3>1, <3>2, <3>3
    <3>4. CASE rows[t].super # "yes"
      <4>1. /\ OneRequest'
            /\ \A q \in Requests : pc'[q] \in Steps => pc'[q] = "counts" /\ arg'[q] = a
        BY <1>1, <3>1, <3>2, <3>4 DEF Steps, Ended, Telling
      <4>2. Supers' = Supers
        BY <3>1 DEF Supers, Present
      <4>3. SeenSuperuserStays'
        BY <3>2, <3>4, <4>1, <4>2 DEF SeenSuperuserStays, Steps, Supers
      <4> QED
        BY <4>1, <4>2, <4>3 DEF SInv, SuperuserRemains
    <3> QED
      BY <3>3, <3>4
  <2> QED
    BY <2>1, <2>2
<1> QED
  BY <1>2a, <1>4, <1>5, <1>6

(* Going on, a request stays the only one.                                 *)
LEMMA ProgressSerial ==
  ASSUME SInv, NEW r \in Requests, NEW from \in Steps,
         NEW next \in Steps \cup Ended, Goto(r, from, next)
  PROVE  /\ OneRequest'
         /\ pc[r] = from /\ \A q \in Requests : pc'[q] \in Steps =>
              q = r /\ pc'[q] = next /\ arg'[q] = arg[r]
<1>1. /\ pc[r] = from /\ pc'[r] = next
      /\ next \in Steps => arg'[r] = arg[r]
      /\ \A q \in Requests \ {r} : pc'[q] = pc[q]
  BY GotoFacts DEF SInv, IInv
<1>2. \A q \in Requests \ {r} : pc'[q] \notin Steps
  BY <1>1 DEF SInv, OneRequest
<1> QED
  BY <1>1, <1>2 DEF OneRequest

LEMMA ContinueSerial ==
  ASSUME SInv, NEW r \in Requests, Continue(r)
  PROVE  OneRequest' /\ SeenSuperuserStays' /\ SuperuserRemains'
<1> DEFINE t == arg[r].target
<1>1. CASE CountOthers(r)
  <2>1. PICK next \in {"denied", "write", "counts"} :
          /\ Goto(r, "others", next) /\ UNCHANGED rows
          /\ next # "denied" => OtherSuperuser(t)
    BY <1>1 DEF CountOthers
  <2>2. "others" \in Steps /\ next \in Steps \cup Ended
    BY DEF Steps, Ended, Telling
  <2>3. /\ OneRequest'
        /\ \A q \in Requests : pc'[q] \in Steps => pc'[q] = next /\ arg'[q] = arg[r]
    BY <2>1, <2>2, ProgressSerial
  <2>4. Supers' = Supers
    BY <2>1 DEF Supers, Present
  <2>5. SeenSuperuserStays'
    BY <2>1, <2>3, <2>4 DEF SeenSuperuserStays, OtherSuperuser, Steps
  <2> QED
    BY <2>3, <2>4, <2>5 DEF SInv, SuperuserRemains
<1>2. CASE CountLinks(r)
  <2>1. PICK next \in {"denied", "delete"} : Goto(r, "counts", next) /\ UNCHANGED rows
    BY <1>2 DEF CountLinks
  <2>2. "counts" \in Steps /\ next \in Steps \cup Ended
    BY DEF Steps, Ended, Telling
  <2>3. /\ OneRequest' /\ pc[r] = "counts"
        /\ \A q \in Requests : pc'[q] \in Steps => q = r /\ pc'[q] = next /\ arg'[q] = arg[r]
    BY <2>1, <2>2, ProgressSerial
  <2>4. \A q \in Requests : pc'[q] \in {"write", "counts", "delete"} =>
          /\ arg'[q] = arg[q]
          /\ pc'[q] = "delete" /\ pc[q] = "counts"
    BY <2>1, <2>3 DEF Steps
  <2> QED
    BY <2>1, <2>3, <2>4, PrivilegesKept
<1>3. CASE Write(r)
  <2>1. PICK next \in {"tellRole", "error"} : Goto(r, "write", next)
    BY <1>3 DEF Write
  <2>2. "write" \in Steps /\ next \in Steps \cup Ended
    BY DEF Steps, Ended, Telling
  <2>3. /\ OneRequest' /\ pc[r] = "write"
        /\ \A q \in Requests : pc'[q] \in Steps => pc'[q] = next
    BY <2>1, <2>2, ProgressSerial
  <2>4. SeenSuperuserStays'
    BY <2>3 DEF SeenSuperuserStays, Steps
  <2>5. /\ Present' = Present
        /\ \A u \in Present : u # t => rows'[u] = rows[u]
        /\ t \in Present => rows'[t].super = Chosen(arg[r].wish.super, rows[t].super)
        /\ arg[r].wish.super \in {"yes", "no", "same"}
    <3>1. arg[r].wish.super \in {"yes", "no", "same"}
      BY <2>2, <2>3 DEF SInv, IInv, TypeOK, Args, Wishes
    <3> QED
      BY <1>3, <3>1, WriteFacts DEF SInv, IInv
  <2>6. SuperuserRemains'
    <3>1. CASE t \in Supers /\ arg[r].wish.super = "no"
      <4>1. PICK v \in Supers : v # t
        BY <2>3, <3>1 DEF SInv, SeenSuperuserStays, OtherSuperuser
      <4> QED
        BY <2>5, <4>1 DEF SuperuserRemains, Supers
    <3>2. CASE ~(t \in Supers /\ arg[r].wish.super = "no")
      <4>1. PICK v \in Supers : TRUE
        BY DEF SInv, SuperuserRemains
      <4>2. v \in Present /\ rows[v].super = "yes"
        BY <4>1 DEF Supers
      <4>3. rows'[v].super = "yes"
        BY <2>5, <3>2, <4>2 DEF Supers, Chosen
      <4> QED
        BY <2>5, <4>2, <4>3 DEF SuperuserRemains, Supers
    <3> QED
      BY <3>1, <3>2
  <2> QED
    BY <2>3, <2>4, <2>6
<1>4. CASE Delete(r)
  <2>1. PICK next \in {"tellGone", "error"} : Goto(r, "delete", next)
    BY <1>4 DEF Delete, Thrown
  <2>2. "delete" \in Steps /\ next \in Steps \cup Ended
    BY DEF Steps, Ended, Telling
  <2>3. /\ OneRequest' /\ pc[r] = "delete"
        /\ \A q \in Requests : pc'[q] \in Steps => pc'[q] = next
    BY <2>1, <2>2, ProgressSerial
  <2>4. SeenSuperuserStays'
    BY <2>3 DEF SeenSuperuserStays, Steps
  <2>5. /\ Present' = Present \/ Present' = Present \ {t}
        /\ \A u \in Present' : rows'[u] = rows[u]
    BY <1>4, DeleteFacts DEF SInv, IInv
  <2>6. \E v \in Supers : v \in Present'
    <3>1. CASE t \in Supers
      <4>1. PICK v \in Supers : v # t
        BY <2>3, <3>1 DEF SInv, SeenSuperuserStays, OtherSuperuser
      <4> QED
        BY <2>5, <4>1 DEF Supers
    <3>2. CASE t \notin Supers
      BY <2>5, <3>2 DEF SInv, SuperuserRemains, Supers
    <3> QED
      BY <3>1, <3>2
  <2>7. SuperuserRemains'
    BY <2>5, <2>6 DEF SuperuserRemains, Supers
  <2> QED
    BY <2>3, <2>4, <2>7
<1>5. CASE TellBorn(r) \/ TellRole(r) \/ TellSuper(r) \/ TellGone(r) \/ Crash(r)
  <2>1. PICK from \in Steps, next \in {"ok", "tellSuper", "gone"} : Goto(r, from, next)
    BY <1>5 DEF TellBorn, TellRole, TellSuper, TellGone, Crash, Steps, Telling
  <2>2. next \in Steps \cup Ended
    BY DEF Steps, Ended, Telling
  <2>3. /\ OneRequest'
        /\ \A q \in Requests : pc'[q] \in Steps => pc'[q] = next
    BY <2>1, <2>2, ProgressSerial
  <2>4. \A q \in Requests : pc'[q] \notin {"write", "counts", "delete"}
    BY <2>1, <2>3 DEF Steps
  <2>5. UNCHANGED rows
    BY <1>5 DEF TellBorn, TellRole, TellSuper, TellGone, Crash
  <2> QED
    BY <2>3, <2>4, <2>5, PrivilegesKept
<1> QED
  BY <1>1, <1>2, <1>3, <1>4, <1>5 DEF Continue

LEMMA InductiveSerial ==
  ASSUME late' = {}, SInv, [Next]_vars
  PROVE  SInv'
<1>1. IInv'
  BY Inductive DEF SInv
<1>2. CASE UNCHANGED vars
  BY <1>1, <1>2 DEF vars, SInv, OneRequest, SeenSuperuserStays, SuperuserRemains, Supers, Present,
                    OtherSuperuser
<1>3. ASSUME NEW r \in Requests, Arrive(r)
      PROVE  SInv'
  BY <1>1, <1>3, ArrivalSerial DEF SInv
<1>4. ASSUME NEW r \in Requests, Continue(r)
      PROVE  SInv'
  BY <1>1, <1>4, ContinueSerial DEF SInv
<1>5. ASSUME NEW u \in Users, Link(u)
      PROVE  SInv'
  BY <1>1, <1>5 DEF Link, SInv, OneRequest, SeenSuperuserStays, SuperuserRemains, Supers, Present,
                    OtherSuperuser
<1> QED
  BY <1>2, <1>3, <1>4, <1>5 DEF Next

(* The history of overlaps only grows.                                     *)
LEMMA LateGrows ==
  ASSUME [Next]_vars
  PROVE  late \subseteq late'
<1>1. ASSUME NEW r \in Requests, NEW u \in Users, NEW p \in Claims(u), NEW t \in Users,
             \/ \E w \in Rows : Create(r, u, p, t, w)
             \/ \E w \in Wishes : UpdateStart(r, u, p, t, w)
             \/ RemoveStart(r, u, p, t)
      PROVE  late \subseteq late'
  BY <1>1 DEF Create, UpdateStart, RemoveStart, Start
<1>2. ASSUME NEW r \in Requests, Continue(r)
      PROVE  late' = late
  BY <1>2 DEF Continue, CountOthers, CountLinks, Write, Delete, TellBorn, TellRole, TellSuper,
              TellGone, Crash, Goto
<1> QED
  BY <1>1, <1>2 DEF Next, Arrive, Link, vars

(* Until administrative requests are under way together, neither a         *)
(* demotion nor a removal takes the last superuser: what                   *)
(* assertNotLastSuperuser counted is still there when the row is written.  *)
THEOREM LastSuperuser == Spec => []SuperuserRemainsAlone
<1>1. Init => HInv
  BY InitEstablishes DEF HInv
<1>2. HInv /\ [Next]_vars => HInv'
  <2> SUFFICES ASSUME HInv, [Next]_vars PROVE IInv' /\ (late' = {} => SInv')
    BY DEF HInv
  <2>1. IInv'
    BY Inductive DEF HInv
  <2>2. late' = {} => SInv
    BY LateGrows DEF HInv
  <2> QED
    BY <2>1, <2>2, InductiveSerial
<1>3. HInv => SuperuserRemainsAlone
  BY DEF HInv, SInv, SuperuserRemainsAlone
<1> QED
  BY <1>1, <1>2, <1>3, PTL DEF Spec

-----------------------------------------------------------------------------
(* The trail, one request at a time *)

(* What a request has read of its target is what it changes, and what it   *)
(* has written is what the table holds while it tells the trail.           *)
ReadIsCurrent ==
  \A r \in Requests : LET a == arg[r] IN
    /\ pc[r] \in {"others", "write", "counts", "delete"} =>
         a.target \in Present /\ a.seen = rows[a.target]
    /\ (pc[r] \in {"others", "write"} /\ a.by = a.target) =>
         a.wish.role \in {"same", a.seen.role}
    /\ pc[r] = "tellBorn" => a.target \in Present /\ rows[a.target] = a.wish
    /\ pc[r] \in {"tellRole", "tellSuper"} =>
         /\ a.target \in Present
         /\ rows[a.target].role = Chosen(a.wish.role, a.seen.role)
         /\ rows[a.target].super = Chosen(a.wish.super, a.seen.super)

(* The trail agrees with the table about everybody no entry is owed about; *)
(* of a user being updated it tells what was true before, then the role.   *)
Agrees(u) == trail[u] \in IF u \in Present THEN {rows[u]} ELSE {NoRow, Deleted}

TrailFollows ==
  \A u \in Users \ missed :
    /\ (\A r \in Requests : pc[r] \in Telling => arg[r].target # u) => Agrees(u)
    /\ \A r \in Requests :
         /\ (pc[r] = "tellRole" /\ arg[r].target = u) => trail[u] = arg[r].seen
         /\ (pc[r] = "tellSuper" /\ arg[r].target = u) =>
              trail[u] = [role |-> rows[u].role, super |-> arg[r].seen.super]

TInv == ReadIsCurrent /\ TrailFollows

(* A step at which nothing is being told, and nothing changes that is.     *)
LEMMA QuietTrail ==
  ASSUME TInv, UNCHANGED <<rows, trail>>, missed \subseteq missed',
         \A q \in Requests : pc[q] \notin Telling,
         \A q \in Requests : pc'[q] \notin Telling
  PROVE  TrailFollows'
<1>1. \A u \in Users \ missed : Agrees(u)
  BY DEF TInv, TrailFollows
<1>2. \A u \in Users \ missed' : Agrees(u)'
  BY <1>1 DEF Agrees, Present
<1> QED
  BY <1>2 DEF TrailFollows, Telling

(* A request arrives: it reads, or is refused, or stores a new user.       *)
LEMMA ArrivalFollows ==
  ASSUME late' = {}, SInv, TInv, NEW r \in Requests, Arrive(r)
  PROVE  TInv'
<1>0. /\ TypeOK
      /\ \A t \in Present : rows[t] \in Rows
  BY DEF SInv, IInv, TypeOK, Present
<1>1. ASSUME NEW a \in Args \cup {NoRequest}, NEW next \in Steps \cup Ended,
             Start(r, a, next), next \in Steps => a \in Args
      PROVE  /\ \A q \in Requests : pc[q] \notin Steps
             /\ \A q \in Requests : pc'[q] \in Steps => q = r /\ pc'[q] = next /\ arg'[q] = a
  BY <1>0, <1>1, StartFacts
<1>2. PICK u \in Users : \E p \in Claims(u), t \in Users :
        \/ \E w \in Rows : Create(r, u, p, t, w)
        \/ \E w \in Wishes : UpdateStart(r, u, p, t, w)
        \/ RemoveStart(r, u, p, t)
  BY DEF Arrive
<1>2a. PICK p \in Claims(u), t \in Users :
        \/ \E w \in Rows : Create(r, u, p, t, w)
        \/ \E w \in Wishes : UpdateStart(r, u, p, t, w)
        \/ RemoveStart(r, u, p, t)
  BY <1>2
<1>3. ASSUME NEW a \in Args \cup {NoRequest}, NEW next \in {"denied", "others", "write", "counts"},
             Start(r, a, next), UNCHANGED <<rows, trail, missed>>,
             next # "denied" =>
               /\ a \in Args /\ a.target \in Present /\ a.seen = rows[a.target]
               /\ a.by = a.target => a.wish.role \in {"same", a.seen.role}
      PROVE  TInv'
  <2>0. next \in Steps \cup Ended /\ (next \in Steps => a \in Args)
    BY <1>3 DEF Steps, Ended, Telling
  <2>1. /\ \A q \in Requests : pc[q] \notin Steps
        /\ \A q \in Requests : pc'[q] \in Steps => q = r /\ pc'[q] = next /\ arg'[q] = a
    BY <1>1, <1>3, <2>0
  <2>2. TrailFollows'
    BY <1>3, <2>1, QuietTrail DEF Steps, Telling
  <2>3. ReadIsCurrent'
    BY <1>3, <2>1 DEF ReadIsCurrent, Present, Steps, Telling
  <2> QED
    BY <2>2, <2>3 DEF TInv
<1>4. ASSUME NEW w \in Rows, Create(r, u, p, t, w)
      PROVE  TInv'
  <2>1. CASE p.super = "no" /\ w.super = "yes"
    BY <1>3, <1>4, <2>1 DEF Create
  <2>2. CASE ~(p.super = "no" /\ w.super = "yes")
    <3> DEFINE a == Request("create", u, t, w, w)
    <3>1. /\ Start(r, a, "tellBorn") /\ t \notin born
          /\ rows' = [rows EXCEPT ![t] = w] /\ UNCHANGED <<trail, missed>>
      BY <1>4, <2>2 DEF Create
    <3>2. a \in Args /\ a.target = t /\ a.wish = w
      BY DEF Request, Args, Rows, Wishes
    <3> HIDE DEF a
    <3>3. /\ \A q \in Requests : pc[q] \notin Steps
          /\ \A q \in Requests : pc'[q] \in Steps => q = r /\ pc'[q] = "tellBorn" /\ arg'[q] = a
      BY <1>1, <3>1, <3>2 DEF Steps, Telling
    <3>4. /\ rows'[t] = w /\ t \in Present'
          /\ \A v \in Users \ {t} : rows'[v] = rows[v] /\ (v \in Present' <=> v \in Present)
      BY <1>0, <3>1, AccountsAssumption DEF TypeOK, Present
    <3>5. ReadIsCurrent'
      BY <3>2, <3>3, <3>4 DEF ReadIsCurrent, Steps, Telling
    <3>6. \A v \in Users \ missed : Agrees(v)
      BY <3>3 DEF TInv, TrailFollows, Steps
    <3>7. \A v \in (Users \ missed') \ {t} : Agrees(v)'
      BY <3>1, <3>4, <3>6 DEF Agrees
    <3>8. pc'[r] = "tellBorn" /\ arg'[r] = a
      BY <1>0, <3>1, <3>2, StartFacts DEF Steps, Telling
    <3>9. TrailFollows'
      BY <3>2, <3>3, <3>7, <3>8 DEF TrailFollows, Steps, Telling
    <3> QED
      BY <3>5, <3>9 DEF TInv
  <2> QED
    BY <2>1, <2>2
<1>5. ASSUME NEW w \in Wishes, UpdateStart(r, u, p, t, w)
      PROVE  TInv'
  <2> DEFINE a == Request("update", u, t, w, rows[t])
             next == IF w.super = "no" /\ rows[t].super = "yes" THEN "others" ELSE "write"
  <2>1. CASE ~Editable(u, p, t, w)
    BY <1>3, <1>5, <2>1 DEF UpdateStart
  <2>2. CASE Editable(u, p, t, w)
    <3>1. /\ Start(r, a, next) /\ UNCHANGED <<rows, trail, missed>> /\ t \in Present
          /\ ~OwnRole(u, t, w)
      BY <1>5, <2>2 DEF UpdateStart, Editable
    <3>2. a \in Args /\ a.target = t /\ a.wish = w /\ a.by = u /\ a.seen = rows[t]
      BY <1>0, <3>1 DEF Request, Args
    <3>3. next \in {"others", "write"}
      OBVIOUS
    <3> HIDE DEF a, next
    <3> QED
      BY <1>3, <3>1, <3>2, <3>3 DEF OwnRole
  <2> QED
    BY <2>1, <2>2
<1>6. CASE RemoveStart(r, u, p, t)
  <2> DEFINE a == Request("remove", u, t, [role |-> "same", super |-> "same"], rows[t])
             next == IF rows[t].super = "yes" THEN "others" ELSE "counts"
  <2>1. CASE t \notin Present \ {u}
    BY <1>3, <1>6, <2>1 DEF RemoveStart
  <2>2. CASE t \in Present \ {u}
    <3>1. Start(r, a, next) /\ UNCHANGED <<rows, trail, missed>>
      BY <1>6, <2>2 DEF RemoveStart
    <3>2. /\ a \in Args /\ a.target = t /\ a.by = u /\ a.seen = rows[t]
      BY <1>0, <2>2 DEF Request, Args, Wishes
    <3>3. next \in {"others", "counts"}
      OBVIOUS
    <3> HIDE DEF a, next
    <3> QED
      BY <1>3, <2>2, <3>1, <3>2, <3>3
  <2> QED
    BY <2>1, <2>2
<1> QED
  BY <1>2a, <1>4, <1>5, <1>6

(* A statement between the read and the write.                             *)
LEMMA CountFollows ==
  ASSUME SInv, TInv, NEW r \in Requests, CountOthers(r) \/ CountLinks(r)
  PROVE  TInv'
<1>1. PICK from \in {"others", "counts"}, next \in {"denied", "write", "counts", "delete"} :
        /\ Goto(r, from, next) /\ UNCHANGED <<rows, trail, missed>>
        /\ next = "write" => from = "others"
  BY DEF CountOthers, CountLinks
<1>2. from \in Steps /\ next \in Steps \cup Ended
  BY DEF Steps, Ended, Telling
<1>3. /\ pc[r] = from /\ \A q \in Requests : pc'[q] \in Steps =>
           q = r /\ pc'[q] = next /\ arg'[q] = arg[r]
  BY <1>1, <1>2, ProgressSerial
<1>4. TrailFollows'
  <2>1. \A q \in Requests : pc[q] \notin Telling
    BY <1>2, <1>3 DEF SInv, OneRequest, Steps, Telling
  <2>2. \A q \in Requests : pc'[q] \notin Telling
    BY <1>3 DEF Steps, Telling
  <2> QED
    BY <1>1, <2>1, <2>2, QuietTrail
<1>5. ReadIsCurrent'
  BY <1>1, <1>3 DEF TInv, ReadIsCurrent, Present, Steps, Telling
<1> QED
  BY <1>4, <1>5 DEF TInv

LEMMA WriteFollows ==
  ASSUME SInv, TInv, NEW r \in Requests, Write(r)
  PROVE  TInv'
<1> DEFINE t == arg[r].target
<1>0. pc[r] = "write" /\ "write" \in Steps
  BY DEF Write, Steps
<1>1. /\ t \in Present /\ arg[r].seen = rows[t] /\ t \in Users
      /\ \A v \in Users \ missed : Agrees(v)
  BY <1>0 DEF TInv, ReadIsCurrent, TrailFollows, SInv, OneRequest, Steps, Telling, Present
<1>2. /\ Goto(r, "write", "tellRole")
      /\ rows' = [rows EXCEPT ![t] = [role |-> Chosen(arg[r].wish.role, rows[t].role),
                                      super |-> Chosen(arg[r].wish.super, rows[t].super)]]
      /\ UNCHANGED <<trail, missed>>
  BY <1>1 DEF Write
<1>3. \A q \in Requests : pc'[q] \in Steps =>
        q = r /\ pc'[q] = "tellRole" /\ arg'[q] = arg[r]
  BY <1>0, <1>2, ProgressSerial DEF Steps, Telling
<1>4. pc'[r] = "tellRole" /\ arg'[r] = arg[r]
  BY <1>0, <1>2, GotoFacts DEF SInv, IInv, Steps, Telling
<1>5. Present' = Present
  BY WriteFacts DEF SInv, IInv
<1>6. /\ rows'[t] = [role |-> Chosen(arg[r].wish.role, rows[t].role),
                     super |-> Chosen(arg[r].wish.super, rows[t].super)]
      /\ \A v \in Users \ {t} : rows'[v] = rows[v]
  <2> HIDE DEF t
  <2> QED
    BY <1>1, <1>2 DEF SInv, IInv, TypeOK
<1>7. ReadIsCurrent'
  BY <1>1, <1>3, <1>5, <1>6 DEF ReadIsCurrent, Steps, Telling
<1>8. trail[t] = arg[r].seen \/ t \in missed
  BY <1>1 DEF Agrees
<1>9. TrailFollows'
  <2> HIDE DEF t
  <2>1. \A v \in (Users \ missed') \ {t} : Agrees(v)'
    BY <1>1, <1>2, <1>5, <1>6 DEF Agrees
  <2> QED
    BY <1>2, <1>3, <1>4, <1>8, <2>1 DEF TrailFollows, Steps, Telling, t
<1> QED
  BY <1>7, <1>9 DEF TInv

LEMMA DeleteFollows ==
  ASSUME SInv, TInv, NEW r \in Requests, Delete(r)
  PROVE  TInv'
<1> DEFINE t == arg[r].target
<1>0. pc[r] = "delete" /\ "delete" \in Steps
  BY DEF Delete, Steps
<1>1. /\ t \in Users
      /\ \A v \in Users \ missed : Agrees(v)
      /\ \A q \in Requests : pc[q] \notin Telling
  BY <1>0 DEF TInv, ReadIsCurrent, TrailFollows, SInv, OneRequest, Steps, Telling, Present
<1>2. CASE Goto(r, "delete", "tellGone") /\ rows' = [rows EXCEPT ![t] = NoRow]
  <2>1. \A q \in Requests : pc'[q] \in Steps =>
          q = r /\ pc'[q] = "tellGone" /\ arg'[q] = arg[r]
    BY <1>0, <1>2, ProgressSerial DEF Steps, Telling
  <2>2. pc'[r] = "tellGone" /\ arg'[r] = arg[r]
    BY <1>0, <1>2, GotoFacts DEF SInv, IInv, Steps, Telling
  <2>3. ReadIsCurrent'
    BY <2>1 DEF ReadIsCurrent, Steps, Telling
  <2>4. UNCHANGED <<trail, missed>>
    BY DEF Delete
  <2>5. \A v \in (Users \ missed') \ {t} : Agrees(v)'
    BY <1>1, <1>2, <2>4 DEF SInv, IInv, TypeOK, Agrees, Present
  <2>6. TrailFollows'
    BY <2>1, <2>2, <2>5 DEF TrailFollows, Steps, Telling
  <2> QED
    BY <2>3, <2>6 DEF TInv
<1>3. CASE Goto(r, "delete", "error") /\ rows' = rows
  <2>1. \A q \in Requests : pc'[q] \in Steps => pc'[q] = "error"
    BY <1>0, <1>3, ProgressSerial DEF Steps, Ended
  <2>2. \A q \in Requests : pc'[q] \notin Steps
    BY <2>1 DEF Steps, Telling
  <2>3. ReadIsCurrent'
    BY <2>2 DEF ReadIsCurrent, Steps, Telling
  <2>4. TrailFollows'
    BY <1>1, <1>3, <2>2, QuietTrail DEF Delete, Steps
  <2> QED
    BY <2>3, <2>4 DEF TInv
<1> QED
  BY <1>2, <1>3 DEF Delete, Thrown

(* What Record leaves: the trail of the target says what was told, unless  *)
(* the entry is missed; the others' is as it was.                          *)
LEMMA Recorded ==
  ASSUME SInv, NEW r \in Requests, arg[r] \in Args, NEW said, Record(r, said)
  PROVE  /\ arg[r].target \notin missed' => trail'[arg[r].target] = said
         /\ \A v \in Users \ {arg[r].target} : trail'[v] = trail[v]
         /\ missed \subseteq missed'
<1>1. trail \in [Users -> Rows \cup {NoRow, Deleted}] /\ arg[r].target \in Users
  BY DEF SInv, IInv, TypeOK, Args
<1> QED
  BY <1>1 DEF Record

LEMMA TellFollows ==
  ASSUME SInv, TInv, NEW r \in Requests,
         TellBorn(r) \/ TellRole(r) \/ TellSuper(r) \/ TellGone(r)
  PROVE  TInv'
<1> DEFINE a == arg[r]
           t == arg[r].target
<1>1. PICK from \in Telling, next \in {"ok", "tellSuper"} :
        /\ Goto(r, from, next) /\ (next = "tellSuper" <=> from = "tellRole")
        /\ UNCHANGED rows
        /\ from = "tellRole" => TellRole(r)
        /\ from = "tellSuper" => TellSuper(r)
        /\ from = "tellBorn" => TellBorn(r)
        /\ from = "tellGone" => TellGone(r)
  BY DEF TellBorn, TellRole, TellSuper, TellGone, Telling
<1>2. from \in Steps /\ next \in Steps \cup Ended
  BY DEF Steps, Ended, Telling
<1>3. /\ pc[r] = from /\ \A q \in Requests : pc'[q] \in Steps =>
           q = r /\ pc'[q] = next /\ arg'[q] = arg[r]
      /\ a \in Args /\ pc'[r] = next /\ (next \in Steps => arg'[r] = arg[r])
  BY <1>1, <1>2, ProgressSerial, GotoFacts DEF SInv, IInv
<1>4. /\ \A v \in (Users \ missed) \ {t} : Agrees(v)
      /\ t \in Users /\ a.seen \in Rows /\ a.wish \in Wishes
  <2>1. \A q \in Requests : pc[q] \in Telling => q = r
    BY <1>2, <1>3 DEF SInv, OneRequest, Steps
  <2> QED
    BY <1>3, <2>1 DEF TInv, TrailFollows, Args
<1>5. /\ \A v \in Users \ {t} : trail'[v] = trail[v]
      /\ missed \subseteq missed'
  BY <1>1, <1>3, Recorded DEF TellBorn, TellRole, TellSuper, TellGone, Telling
<1>6. Present' = Present
  BY <1>1 DEF Present
<1>7. \A v \in (Users \ missed') \ {t} : Agrees(v)'
  BY <1>1, <1>4, <1>5, <1>6 DEF Agrees
<1>8. ReadIsCurrent'
  BY <1>1, <1>3, <1>6 DEF TInv, ReadIsCurrent, Steps, Telling
<1>9. CASE from = "tellRole"
  <2>1. /\ t \in Present /\ rows[t] \in Rows
        /\ rows[t].role = Chosen(a.wish.role, a.seen.role)
        /\ t \notin missed => trail[t] = a.seen
    BY <1>3, <1>4, <1>9 DEF TInv, ReadIsCurrent, TrailFollows, SInv, IInv, TypeOK, Present
  <2>2. t \notin missed' => trail'[t] = [role |-> rows[t].role, super |-> a.seen.super]
    <3> SUFFICES ASSUME t \notin missed'
                 PROVE  trail'[t] = [role |-> rows[t].role, super |-> a.seen.super]
      OBVIOUS
    <3>1. CASE Due(a.wish.role, a.seen.role)
      <4>1. rows[t].role = a.wish.role
        BY <2>1, <3>1 DEF Due, Chosen
      <4>2. Record(r, WithRole(trail[t], a.wish.role))
        BY <1>1, <1>9, <3>1 DEF TellRole
      <4>3. trail'[t] = WithRole(trail[t], a.wish.role)
        BY <1>3, <4>2, Recorded
      <4>4. trail[t] = a.seen
        BY <1>5, <2>1
      <4> QED
        BY <1>4, <4>1, <4>3, <4>4 DEF WithRole
    <3>2. CASE ~Due(a.wish.role, a.seen.role)
      <4>1. rows[t].role = a.seen.role
        BY <2>1, <3>2 DEF Due, Chosen
      <4>2. trail' = trail /\ missed' = missed
        BY <1>1, <1>9, <3>2 DEF TellRole
      <4>3. a.seen = [role |-> a.seen.role, super |-> a.seen.super]
        BY <1>4 DEF Rows
      <4> QED
        BY <2>1, <4>1, <4>2, <4>3
    <3> QED
      BY <3>1, <3>2
  <2>3. next = "tellSuper"
    BY <1>1, <1>9
  <2>4. pc'[r] = "tellSuper" /\ arg'[r] = arg[r]
    BY <1>3, <2>3 DEF Steps, Telling
  <2>5. TrailFollows'
    BY <1>1, <1>3, <1>7, <2>2, <2>3, <2>4 DEF TrailFollows, Steps, Telling
  <2> QED
    BY <1>8, <2>5 DEF TInv
<1>10. CASE from # "tellRole"
  <2>1. \A q \in Requests : pc'[q] \notin Steps
    BY <1>1, <1>3, <1>10 DEF Steps, Telling
  <2>2. ASSUME NEW v \in Users \ missed', v = t
        PROVE  Agrees(v)'
    <3> SUFFICES trail'[t] \in IF t \in Present THEN {rows[t]} ELSE {NoRow, Deleted}
      BY <1>1, <1>6, <2>2 DEF Agrees
    <3>0. t \notin missed'
      BY <2>2
    <3>1. CASE from = "tellBorn"
      BY <1>1, <1>3, <3>0, <3>1, Recorded DEF TellBorn, TInv, ReadIsCurrent
    <3>2. CASE from = "tellGone"
      BY <1>1, <1>3, <3>0, <3>2, Recorded DEF TellGone, SInv, IInv, DeletionsAreFinal
    <3>3. CASE from = "tellSuper"
      <4>1. /\ t \in Present /\ rows[t] \in Rows
            /\ rows[t].super = Chosen(a.wish.super, a.seen.super)
            /\ trail[t] = [role |-> rows[t].role, super |-> a.seen.super]
        BY <1>3, <1>4, <1>5, <3>0, <3>3
        DEF TInv, ReadIsCurrent, TrailFollows, SInv, IInv, TypeOK, Present
      <4>2. rows[t] = [role |-> rows[t].role, super |-> rows[t].super]
        BY <4>1 DEF Rows
      <4>3. CASE Due(a.wish.super, a.seen.super)
        <5>1. rows[t].super = a.wish.super
          BY <4>1, <4>3 DEF Due, Chosen
        <5>2. trail'[t] = WithSuper(trail[t], a.wish.super)
          BY <1>1, <1>3, <3>0, <3>3, <4>3, Recorded DEF TellSuper
        <5>3. trail[t] \in Rows
          BY <1>4, <4>1 DEF Rows
        <5> QED
          BY <4>1, <4>2, <5>1, <5>2, <5>3 DEF WithSuper
      <4>4. CASE ~Due(a.wish.super, a.seen.super)
        <5>1. rows[t].super = a.seen.super
          BY <4>1, <4>4 DEF Due, Chosen
        <5>2. trail' = trail
          BY <1>1, <3>3, <4>4 DEF TellSuper
        <5> QED
          BY <4>1, <4>2, <5>1, <5>2
      <4> QED
        BY <4>3, <4>4
    <3> QED
      BY <1>10, <3>1, <3>2, <3>3 DEF Telling
  <2>3. TrailFollows'
    BY <1>7, <2>1, <2>2 DEF TrailFollows, Steps, Telling
  <2> QED
    BY <1>8, <2>3 DEF TInv
<1> QED
  BY <1>9, <1>10

LEMMA CrashFollows ==
  ASSUME SInv, TInv, NEW r \in Requests, Crash(r)
  PROVE  TInv'
<1>1. /\ pc[r] \in Steps /\ Goto(r, pc[r], "gone") /\ "gone" \in Ended
      /\ UNCHANGED <<rows, trail>> /\ missed \subseteq missed'
      /\ pc[r] \in Telling => arg[r].target \in missed'
  BY DEF Crash, Ended
<1>2. \A q \in Requests : pc'[q] \notin Steps
  BY <1>1, ProgressSerial DEF Steps, Telling
<1>3. ReadIsCurrent'
  BY <1>2 DEF ReadIsCurrent, Steps, Telling
<1>4. \A q \in Requests : pc[q] \in Telling => q = r
  BY <1>1 DEF SInv, OneRequest, Steps
<1>5. \A v \in Users \ missed' : Agrees(v)
  BY <1>1, <1>4 DEF TInv, TrailFollows
<1>6. \A v \in Users \ missed' : Agrees(v)'
  BY <1>1, <1>5 DEF Agrees, Present
<1>7. TrailFollows'
  BY <1>2, <1>6 DEF TrailFollows, Steps, Telling
<1> QED
  BY <1>3, <1>7 DEF TInv

LEMMA InductiveTrail ==
  ASSUME late' = {}, SInv, TInv, [Next]_vars
  PROVE  TInv'
<1>1. CASE UNCHANGED <<rows, trail, missed, pc, arg>>
  BY <1>1 DEF TInv, ReadIsCurrent, TrailFollows, Agrees, Present
<1>2. ASSUME NEW r \in Requests, Arrive(r)
      PROVE  TInv'
  BY <1>2, ArrivalFollows
<1>3. ASSUME NEW r \in Requests, Continue(r)
      PROVE  TInv'
  BY <1>3, CountFollows, WriteFollows, DeleteFollows, TellFollows, CrashFollows DEF Continue
<1> QED
  BY <1>1, <1>2, <1>3 DEF Next, Link, vars

TrailInv == HInv /\ (late = {} => TInv)

LEMMA TrailInductive == Spec => []TrailInv
<1>1. Init => TrailInv
  <2> SUFFICES ASSUME Init PROVE TInv
    BY InitEstablishes DEF TrailInv, HInv
  <2>1. \A r \in Requests : pc[r] = "idle"
    BY DEF Init
  <2>2. \A u \in Users : Agrees(u)
    BY DEF Init, Agrees, Present
  <2> QED
    BY <2>1, <2>2 DEF TInv, ReadIsCurrent, TrailFollows, Telling
<1>2. TrailInv /\ [Next]_vars => TrailInv'
  <2> SUFFICES ASSUME TrailInv, [Next]_vars PROVE TrailInv'
    OBVIOUS
  <2>1. IInv'
    BY Inductive DEF TrailInv, HInv
  <2>2. late' = {} => SInv /\ TInv
    BY LateGrows DEF TrailInv, HInv
  <2> QED
    BY <2>1, <2>2, InductiveSerial, InductiveTrail DEF TrailInv, HInv
<1> QED
  BY <1>1, <1>2, PTL DEF Spec

(* Until two administrative requests are under way together, the trail     *)
(* tells the privileges of every user about whom no entry was lost: the    *)
(* row that was read before the UPDATE is the one the entries compare to.  *)
THEOREM TrailTells == Spec => []TrailTellsPrivileges
<1>1. TrailInv => TrailTellsPrivileges
  <2> SUFFICES ASSUME TrailInv, late = {}, NEW u \in Users \ missed,
                      \A r \in Requests : pc[r] \in Steps => arg[r].target # u
               PROVE  Agrees(u)
    BY DEF TrailTellsPrivileges, Agrees
  <2> QED
    BY DEF TrailInv, TInv, TrailFollows, Steps
<1> QED
  BY <1>1, TrailInductive, PTL

(* Until then nobody's own request changes their role: the role that       *)
(* OwnRole compared to is the one the UPDATE replaces.                     *)
THEOREM OwnRoleKept == Spec => OwnRoleUntouched
<1> DEFINE Kept == \A r \in Requests, u \in Users :
     (late = {} /\ pc[r] = "write" /\ pc'[r] = "tellRole" /\ arg[r].by = u /\ arg[r].target = u)
       => rows'[u].role = rows[u].role
<1>1. TrailInv /\ [Next]_vars => [Kept]_vars
  <2> SUFFICES ASSUME TrailInv, [Next]_vars, late = {}, NEW r \in Requests, NEW u \in Users,
                      pc[r] = "write", pc'[r] = "tellRole",
                      arg[r].by = u, arg[r].target = u
               PROVE  rows'[u].role = rows[u].role
    OBVIOUS
  <2>1. /\ u \in Present /\ rows[u] = arg[r].seen
        /\ arg[r].wish.role \in {"same", rows[u].role}
    BY DEF TrailInv, TInv, ReadIsCurrent
  <2>2. Write(r)
    <3>1. pc' # pc /\ TypeOK
      BY DEF TrailInv, HInv, IInv
    <3>2. PICK q \in Requests : Arrive(q) \/ Continue(q)
      BY <3>1 DEF Next, Link, vars
    <3>3. CASE q = r
      <4>1. ~Arrive(r) /\ ~Crash(r)
        BY <3>1 DEF Arrive, Crash, Goto, TypeOK
      <4> QED
        BY <3>2, <3>3, <4>1 DEF Continue, CountOthers, CountLinks, Delete, TellBorn, TellRole,
                                TellSuper, TellGone, Goto
    <3>4. CASE q # r
      <4>1. pc'[r] = pc[r]
        BY <3>1, <3>2, <3>4 DEF Arrive, Create, UpdateStart, RemoveStart, Start, Continue,
             CountOthers, CountLinks, Write, Delete, TellBorn, TellRole, TellSuper, TellGone,
             Crash, Goto, TypeOK
      <4> QED
        BY <4>1
    <3> QED
      BY <3>3, <3>4
  <2>3. rows'[u].role = Chosen(arg[r].wish.role, rows[u].role)
    <3>1. rows' = [rows EXCEPT ![u] = [role |-> Chosen(arg[r].wish.role, rows[u].role),
                                       super |-> Chosen(arg[r].wish.super, rows[u].super)]]
      BY <2>1, <2>2 DEF Write
    <3> QED
      BY <3>1 DEF TrailInv, HInv, IInv, TypeOK
  <2> QED
    BY <2>1, <2>3 DEF Chosen
<1> HIDE DEF Kept
<1>2. Spec => [][Kept]_vars
  BY <1>1, TrailInductive, PTL DEF Spec
<1> QED
  BY <1>2 DEF OwnRoleUntouched, Kept
=============================================================================
