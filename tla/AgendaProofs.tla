---------------------------- MODULE AgendaProofs ----------------------------
(***************************************************************************)
(* What the read-then-write check of the activities guarantees to a        *)
(* technician that never had two saves under way at once: for any number   *)
(* of requests, tickets, technicians and points of the clock, no two of    *)
(* their activities overlap, and the handlers implement the atomic         *)
(* calendar.  The run agenda_doc_overlap shows that the condition cannot   *)
(* be dropped.                                                              *)
(***************************************************************************)
EXTENDS Agenda, TLAPS

(* Such a technician has at most one save under way.                       *)
OneSavePerTechnician ==
  \A r, q \in Requests :
    (r # q /\ Saving(r) /\ Saving(q) /\ arg[r].who \notin doubled)
      => arg[r].who # arg[q].who

(* What its check found still holds when the write is reached.             *)
CheckStillHolds ==
  \A r \in Requests :
    (pc[r] \in {"insert", "save"} /\ arg[r].who \notin doubled) => ~Conflict(arg[r])

(* An edit is of a row created before, and while the row is there it is    *)
(* the editor's own.                                                       *)
EditorOwnsRow ==
  \A r \in Requests : Saving(r) =>
    /\ arg[r].id <= created
    /\ pc[r] = "insert" => arg[r].id = 0
    /\ arg[r].id \in Stored => rows[arg[r].id].by = arg[r].who

IInv ==
  TypeOK /\ OneSavePerTechnician /\ CheckStillHolds /\ EditorOwnsRow /\ NoOverlapAlone

-----------------------------------------------------------------------------

LEMMA InitEstablishes == Init => IInv
<1> SUFFICES ASSUME Init PROVE IInv
  OBVIOUS
<1> USE AgendaAssumption DEF Init
<1>1. Stored = {}
  BY DEF Stored, Ids
<1>2. \A r \in Requests : pc[r] = "idle"
  OBVIOUS
<1>3. TypeOK
  BY <1>1, <1>2 DEF TypeOK, Steps, Ended, Ids, Months
<1>4. OneSavePerTechnician /\ CheckStillHolds /\ EditorOwnsRow
  BY <1>2 DEF OneSavePerTechnician, CheckStillHolds, EditorOwnsRow, Saving
<1>5. NoOverlapAlone
  BY <1>1 DEF NoOverlapAlone, NoOverlapAmong
<1> QED
  BY <1>3, <1>4, <1>5 DEF IInv

(* A period that is accepted is one of Periods, and a stored row is what   *)
(* the type says.                                                           *)
LEMMA AcceptedPeriods == \A p \in Inputs : Accepts(p) => p \in Periods
BY DEF Accepts, Periods

(* Fewer rows, or the same, disturb nothing that the invariant says.       *)
LEMMA RowsOnlyGo ==
  ASSUME TypeOK, CheckStillHolds, NoOverlapAlone, doubled \subseteq doubled', doubled' \subseteq Technicians,
         rows' \in [Ids -> Rows \cup {NoRow}],
         \A a \in Ids : rows'[a] \in {rows[a], NoRow},
         \A r \in Requests : pc'[r] \in {"insert", "save"} =>
           pc[r] = pc'[r] /\ arg'[r] = arg[r]
  PROVE  /\ Stored' \subseteq Stored
         /\ \A a \in Stored' : rows'[a] = rows[a]
         /\ CheckStillHolds' /\ NoOverlapAlone'
<1>1. Stored' \subseteq Stored /\ \A a \in Stored' : rows'[a] = rows[a]
  BY DEF Stored
<1>2. CheckStillHolds'
  BY <1>1 DEF CheckStillHolds, Conflict
<1>3. NoOverlapAlone'
  BY <1>1 DEF NoOverlapAlone, NoOverlapAmong
<1> QED
  BY <1>1, <1>2, <1>3

(* A request is started: the table is as it was.                           *)
LEMMA StartPreserves ==
  ASSUME IInv, NEW r \in Requests, NEW a \in Args \cup {NoRequest},
         NEW next \in Steps \cup Ended, Start(r, a, next),
         UNCHANGED <<tickets, rows, created, month, trail>>,
         next \in Steps => /\ a \in Args
                           /\ next \in {"check", "delete"}
                           /\ a.id <= created,
         next = "delete" => a.id \in 1 .. created,
         doubled \subseteq doubled', doubled' \subseteq Technicians,
         next = "check" => /\ a.who \notin doubled' => ~Busy(a.who)
                           /\ a.period \in Periods
                           /\ a.id \in Stored => rows[a.id].by = a.who
  PROVE  IInv'
<1> USE DEF IInv
<1>1. /\ pc \in [Requests -> {"idle"} \cup Steps \cup Ended]
      /\ arg \in [Requests -> Args \cup {NoRequest}]
  BY DEF TypeOK
<1>2. /\ pc' = [pc EXCEPT ![r] = next]
      /\ arg' = [arg EXCEPT ![r] = IF next \in Steps THEN a ELSE NoRequest]
  BY DEF Start
<1>3. /\ pc' \in [Requests -> {"idle"} \cup Steps \cup Ended]
      /\ arg' \in [Requests -> Args \cup {NoRequest}]
      /\ pc'[r] = next
      /\ next \in Steps => arg'[r] = a
      /\ \A q \in Requests \ {r} : pc'[q] = pc[q] /\ arg'[q] = arg[q]
  BY <1>1, <1>2
<1>4. Stored' = Stored
  BY DEF Stored
<1>5. TypeOK'
  <2>1. /\ tickets' \subseteq Tickets /\ rows' \in [Ids -> Rows \cup {NoRow}]
        /\ created' \in 0 .. MaxActivities /\ month' \in Months
        /\ trail' \in [Ids -> Nat]
        /\ \A b \in Stored' : b <= created' /\ rows'[b].ticket \in tickets'
        /\ doubled' \subseteq Technicians
    BY <1>4 DEF TypeOK
  <2>2. ASSUME NEW q \in Requests
        PROVE  /\ pc'[q] \in Steps => arg'[q] \in Args
               /\ pc'[q] \in {"check", "insert", "save"} => arg'[q].period \in Periods
               /\ pc'[q] \in {"save", "delete", "audit"} => arg'[q].id \in 1 .. created'
    <3>1. CASE q = r
      BY <1>3, <3>1 DEF Steps, Ended
    <3>2. CASE q # r
      BY <1>3, <3>2 DEF TypeOK
    <3> QED
      BY <3>1, <3>2
  <2> QED
    BY <1>3, <2>1, <2>2 DEF TypeOK
<1>6. OneSavePerTechnician'
  <2> SUFFICES ASSUME NEW p \in Requests, NEW q \in Requests, p # q,
                      Saving(p)', Saving(q)', arg'[p].who \notin doubled'
               PROVE  arg'[p].who # arg'[q].who
    BY DEF OneSavePerTechnician
  <2>1. CASE p # r /\ q # r
    BY <1>3, <2>1 DEF OneSavePerTechnician, Saving
  <2>2. CASE p = r
    BY <1>3, <2>2 DEF Saving, Busy, Steps, Ended
  <2>3. CASE q = r
    BY <1>3, <2>3 DEF Saving, Busy, Steps, Ended
  <2> QED
    BY <2>1, <2>2, <2>3
<1>7. CheckStillHolds' /\ NoOverlapAlone'
  <2>1. \A q \in Requests : pc'[q] \in {"insert", "save"} => q # r
    BY <1>3 DEF Steps, Ended
  <2> QED
    BY <1>3, <1>4, <2>1 DEF CheckStillHolds, Conflict, NoOverlapAlone, NoOverlapAmong
<1>8. EditorOwnsRow'
  <2> SUFFICES ASSUME NEW q \in Requests, Saving(q)'
               PROVE  /\ arg'[q].id <= created'
                      /\ pc'[q] = "insert" => arg'[q].id = 0
                      /\ arg'[q].id \in Stored' => rows'[arg'[q].id].by = arg'[q].who
    BY DEF EditorOwnsRow
  <2>1. CASE q = r
    BY <1>3, <1>4, <2>1 DEF Saving, Steps, Ended
  <2>2. CASE q # r
    BY <1>3, <1>4, <2>2 DEF Saving, EditorOwnsRow
  <2> QED
    BY <2>1, <2>2
<1> QED
  BY <1>5, <1>6, <1>7, <1>8

(* A request goes on: the others are as they were, and its argument stays  *)
(* for as long as it has steps to take.                                     *)
LEMMA GotoFacts ==
  ASSUME TypeOK, NEW r \in Requests, NEW from \in Steps,
         NEW next \in Steps \cup Ended, Goto(r, from, next)
  PROVE  /\ pc' \in [Requests -> {"idle"} \cup Steps \cup Ended]
         /\ arg' \in [Requests -> Args \cup {NoRequest}]
         /\ pc[r] = from /\ pc'[r] = next /\ arg[r] \in Args
         /\ next \in Steps => arg'[r] = arg[r]
         /\ \A q \in Requests \ {r} : pc'[q] = pc[q] /\ arg'[q] = arg[q]
         /\ doubled' = doubled /\ doubled \subseteq Technicians
<1>1. /\ pc \in [Requests -> {"idle"} \cup Steps \cup Ended]
      /\ arg \in [Requests -> Args \cup {NoRequest}]
      /\ doubled \subseteq Technicians
  BY DEF TypeOK
<1>2. /\ doubled' = doubled /\ pc[r] = from /\ pc' = [pc EXCEPT ![r] = next]
      /\ arg' = [arg EXCEPT ![r] = IF next \in Steps THEN @ ELSE NoRequest]
  BY DEF Goto
<1>3. arg[r] \in Args
  BY <1>2 DEF TypeOK
<1> QED
  BY <1>1, <1>2, <1>3

(* The parts of the invariant that speak of requests alone.                *)
LEMMA GotoKeepsSaves ==
  ASSUME IInv, NEW r \in Requests, NEW from \in Steps,
         NEW next \in Steps \cup Ended, Goto(r, from, next),
         next \in {"check", "insert", "save"} => Saving(r)
  PROVE  OneSavePerTechnician'
<1> SUFFICES ASSUME NEW p \in Requests, NEW q \in Requests, p # q,
                    Saving(p)', Saving(q)', arg'[p].who \notin doubled'
             PROVE  arg'[p].who # arg'[q].who
  BY DEF OneSavePerTechnician
<1>1. \A k \in Requests : pc'[k] \in {"check", "insert", "save"} =>
        pc[k] \in {"check", "insert", "save"} /\ arg'[k] = arg[k] /\ doubled' = doubled
  BY GotoFacts DEF IInv, Saving, Steps
<1> QED
  BY <1>1 DEF IInv, OneSavePerTechnician, Saving

LEMMA CheckPreserves ==
  ASSUME IInv, NEW r \in Requests, Check(r)
  PROVE  IInv'
<1> DEFINE next == IF Conflict(arg[r]) THEN "denied"
                   ELSE IF arg[r].id = 0 THEN "insert" ELSE "save"
<1>1. /\ Goto(r, "check", next)
      /\ UNCHANGED <<tickets, rows, created, month, trail>>
  BY DEF Check
<1>2. next \in {"denied", "insert", "save"}
  OBVIOUS
<1>3. /\ pc' \in [Requests -> {"idle"} \cup Steps \cup Ended]
      /\ arg' \in [Requests -> Args \cup {NoRequest}]
      /\ doubled' = doubled /\ doubled \subseteq Technicians
      /\ pc[r] = "check" /\ pc'[r] = next /\ arg[r] \in Args
      /\ next # "denied" => arg'[r] = arg[r]
      /\ \A q \in Requests \ {r} : pc'[q] = pc[q] /\ arg'[q] = arg[q]
  BY <1>1, <1>2, GotoFacts DEF IInv, Steps, Ended
<1>4. Stored' = Stored
  BY <1>1 DEF Stored
<1>5. /\ arg[r].id \in 0 .. created
      /\ arg[r].period \in Periods
      /\ arg[r].id \in Stored => rows[arg[r].id].by = arg[r].who
  <2>1. arg[r].id \in 0 .. MaxActivities
    BY <1>3 DEF Args
  <2>2. created \in Nat
    BY AgendaAssumption DEF IInv, TypeOK
  <2> QED
    BY <1>3, <2>1, <2>2, AgendaAssumption DEF IInv, TypeOK, EditorOwnsRow, Saving
<1>6. /\ next = "insert" => arg[r].id = 0
      /\ next = "save" => arg[r].id \in 1 .. created
      /\ next # "denied" => ~Conflict(arg[r])
  BY <1>5 DEF IInv, TypeOK
<1> HIDE DEF next
<1>7. TypeOK'
  <2>1. /\ tickets' \subseteq Tickets /\ rows' \in [Ids -> Rows \cup {NoRow}]
        /\ created' \in 0 .. MaxActivities /\ month' \in Months
        /\ trail' \in [Ids -> Nat]
        /\ \A b \in Stored' : b <= created' /\ rows'[b].ticket \in tickets'
    BY <1>1, <1>4 DEF IInv, TypeOK
  <2>2. ASSUME NEW q \in Requests
        PROVE  /\ pc'[q] \in Steps => arg'[q] \in Args
               /\ pc'[q] \in {"check", "insert", "save"} => arg'[q].period \in Periods
               /\ pc'[q] \in {"save", "delete", "audit"} => arg'[q].id \in 1 .. created'
    <3>1. CASE q = r
      BY <1>1, <1>2, <1>3, <1>5, <1>6, <3>1 DEF Steps
    <3>2. CASE q # r
      BY <1>1, <1>3, <3>2 DEF IInv, TypeOK
    <3> QED
      BY <3>1, <3>2
  <2> QED
    BY <1>3, <2>1, <2>2 DEF TypeOK
<1>8. OneSavePerTechnician'
  BY <1>1, <1>2, <1>3, GotoKeepsSaves DEF Saving, Steps, Ended
<1>9. CheckStillHolds'
  <2> SUFFICES ASSUME NEW q \in Requests, pc'[q] \in {"insert", "save"},
                      arg'[q].who \notin doubled'
               PROVE  ~Conflict(arg[q])'
    BY DEF CheckStillHolds
  <2>1. arg'[q] = arg[q] /\ ~Conflict(arg[q])
    BY <1>2, <1>3, <1>6 DEF IInv, CheckStillHolds
  <2> QED
    BY <1>1, <1>4, <2>1 DEF Conflict
<1>10. EditorOwnsRow'
  <2> SUFFICES ASSUME NEW q \in Requests, Saving(q)'
               PROVE  /\ arg'[q].id <= created'
                      /\ pc'[q] = "insert" => arg'[q].id = 0
                      /\ arg'[q].id \in Stored' => rows'[arg'[q].id].by = arg'[q].who
    BY DEF EditorOwnsRow
  <2>1. CASE q = r
    BY <1>1, <1>2, <1>3, <1>4, <1>5, <1>6, <2>1 DEF Saving, IInv, TypeOK
  <2>2. CASE q # r
    BY <1>1, <1>3, <1>4, <2>2 DEF Saving, IInv, EditorOwnsRow
  <2> QED
    BY <2>1, <2>2
<1>11. NoOverlapAlone'
  BY <1>1, <1>3, <1>4 DEF IInv, NoOverlapAlone, NoOverlapAmong
<1> QED
  BY <1>7, <1>8, <1>9, <1>10, <1>11 DEF IInv

(* INSERT: the check of the same request, which nothing has undone, makes  *)
(* the new row safe, and the other technicians' checks do not see it.      *)
LEMMA InsertPreserves ==
  ASSUME IInv, NEW r \in Requests, Insert(r)
  PROVE  IInv'
<1> DEFINE n == created + 1
           next == IF arg[r].ticket \in tickets THEN "ok" ELSE "error"
           new == [ticket |-> arg[r].ticket, by |-> arg[r].who, period |-> arg[r].period]
<1>1. /\ Goto(r, "insert", next)
      /\ UNCHANGED <<tickets, month, trail>>
      /\ \/ /\ next = "ok" /\ created < MaxActivities /\ created' = n
            /\ rows' = [rows EXCEPT ![n] = new]
         \/ next = "error" /\ UNCHANGED <<created, rows>>
  BY DEF Insert
<1>2. next \in {"ok", "error"}
  OBVIOUS
<1>3. /\ pc' \in [Requests -> {"idle"} \cup Steps \cup Ended]
      /\ arg' \in [Requests -> Args \cup {NoRequest}]
      /\ doubled' = doubled /\ doubled \subseteq Technicians
      /\ pc[r] = "insert" /\ pc'[r] = next /\ arg[r] \in Args
      /\ \A q \in Requests \ {r} : pc'[q] = pc[q] /\ arg'[q] = arg[q]
  BY <1>1, <1>2, GotoFacts DEF IInv, Steps, Ended
<1>4. OneSavePerTechnician'
  BY <1>1, <1>2, GotoKeepsSaves DEF Steps, Ended
<1>5. /\ created \in 0 .. MaxActivities /\ MaxActivities \in Nat
      /\ rows \in [Ids -> Rows \cup {NoRow}]
      /\ \A b \in Stored : b \in Ids /\ b <= created /\ rows[b].ticket \in tickets
  BY AgendaAssumption DEF IInv, TypeOK, Stored
<1>6. \A q \in Requests \ {r} : pc'[q] \in {"check", "insert", "save"} =>
        /\ arg[q].who \notin doubled => arg[q].who # arg[r].who
        /\ arg[q].id <= created
  BY <1>3 DEF IInv, OneSavePerTechnician, EditorOwnsRow, Saving
<1>7. arg[r].id = 0 /\ arg[r].period \in Periods /\ (arg[r].who \notin doubled => ~Conflict(arg[r]))
  BY <1>3 DEF IInv, TypeOK, EditorOwnsRow, CheckStillHolds, Saving
<1>8. CASE next = "error"
  <2>1. rows' = rows /\ created' = created
    BY <1>1, <1>8
  <2>2. TypeOK'
    <3>1. Stored' = Stored
      BY <2>1 DEF Stored
    <3>2. ASSUME NEW q \in Requests
          PROVE  /\ pc'[q] \in Steps => arg'[q] \in Args
                 /\ pc'[q] \in {"check", "insert", "save"} => arg'[q].period \in Periods
                 /\ pc'[q] \in {"save", "delete", "audit"} => arg'[q].id \in 1 .. created'
      BY <1>3, <1>8, <2>1 DEF IInv, TypeOK, Steps
    <3> QED
      BY <1>1, <1>3, <2>1, <3>1, <3>2 DEF IInv, TypeOK
  <2>3. CheckStillHolds' /\ NoOverlapAlone' /\ Stored' = Stored
    BY <1>3, <1>8, <2>1, RowsOnlyGo DEF IInv, TypeOK, Stored
  <2>4. EditorOwnsRow'
    BY <1>3, <1>8, <2>1, <2>3 DEF IInv, EditorOwnsRow, Saving
  <2> QED
    BY <1>4, <2>2, <2>3, <2>4 DEF IInv
<1>9. CASE next = "ok"
  <2>1. /\ created < MaxActivities /\ created' = n
        /\ rows' = [rows EXCEPT ![n] = new]
        /\ arg[r].ticket \in tickets
    BY <1>1, <1>9
  <2>2. n \in Ids /\ n \notin Stored /\ new \in Rows /\ new # NoRow
    <3>1. n \in Ids /\ n \notin Stored
      BY <1>5, <2>1 DEF Ids
    <3>2. new \in Rows
      <4>1. arg[r].ticket \in Tickets /\ arg[r].who \in Technicians
        BY <1>3 DEF Args
      <4> QED
        BY <1>7, <4>1 DEF Rows
    <3> QED
      BY <3>1, <3>2, AgendaAssumption
  <2>3. /\ rows' \in [Ids -> Rows \cup {NoRow}]
        /\ rows'[n] = new /\ \A b \in Ids \ {n} : rows'[b] = rows[b]
    BY <1>5, <2>1, <2>2
  <2>4. Stored' = Stored \cup {n}
    BY <2>2, <2>3 DEF Stored
  <2> HIDE DEF n, next
  <2>5. TypeOK'
    <3>1. /\ n \in 1 .. MaxActivities /\ n > created
      BY <1>5, <2>1 DEF n
    <3>2. \A b \in Stored' : b <= created' /\ rows'[b].ticket \in tickets'
      <4>1. \A b \in Stored : b \in Nat /\ b # n
        BY <1>5, <2>2 DEF Ids
      <4>2. n <= created' /\ rows'[n].ticket \in tickets'
        BY <1>1, <1>5, <2>1, <2>3 DEF n
      <4>3. \A b \in Stored : b <= created' /\ rows'[b].ticket \in tickets'
        BY <1>1, <1>5, <2>1, <2>3, <4>1 DEF n
      <4> QED
        BY <2>4, <4>2, <4>3
    <3>3. ASSUME NEW q \in Requests
          PROVE  /\ pc'[q] \in Steps => arg'[q] \in Args
                 /\ pc'[q] \in {"check", "insert", "save"} => arg'[q].period \in Periods
                 /\ pc'[q] \in {"save", "delete", "audit"} => arg'[q].id \in 1 .. created'
      <4>1. CASE q = r
        BY <1>3, <1>9, <4>1 DEF Steps
      <4>2. CASE q # r
        BY <1>3, <1>5, <2>1, <3>1, <4>2 DEF IInv, TypeOK
      <4> QED
        BY <4>1, <4>2
    <3> QED
      BY <1>1, <1>3, <2>1, <2>3, <3>1, <3>2, <3>3 DEF IInv, TypeOK
  <2>6. CheckStillHolds'
    <3> SUFFICES ASSUME NEW q \in Requests, pc'[q] \in {"insert", "save"},
                      arg'[q].who \notin doubled'
                 PROVE  ~Conflict(arg[q])'
      BY DEF CheckStillHolds
    <3>1. q # r /\ arg'[q] = arg[q] /\ ~Conflict(arg[q]) /\ arg[q].who # arg[r].who
      BY <1>3, <1>6, <1>9 DEF IInv, CheckStillHolds
    <3> QED
      BY <1>5, <2>3, <2>4, <3>1 DEF Conflict
  <2>7. EditorOwnsRow'
    <3> SUFFICES ASSUME NEW q \in Requests, Saving(q)'
                 PROVE  /\ arg'[q].id <= created'
                        /\ pc'[q] = "insert" => arg'[q].id = 0
                        /\ arg'[q].id \in Stored' => rows'[arg'[q].id].by = arg'[q].who
      BY DEF EditorOwnsRow
    <3>1. q # r /\ arg'[q] = arg[q] /\ pc'[q] = pc[q] /\ Saving(q) /\ arg[q] \in Args
      BY <1>3, <1>9 DEF Saving, IInv, TypeOK, Steps
    <3>2. arg[q].id \in Nat /\ arg[q].id <= created /\ created \in Nat
      BY <1>5, <3>1, AgendaAssumption DEF IInv, EditorOwnsRow, Args
    <3>3. arg[q].id # n /\ arg[q].id <= n
      BY <3>2 DEF n
    <3> QED
      BY <1>5, <2>1, <2>3, <2>4, <3>1, <3>3 DEF IInv, EditorOwnsRow
  <2>8. NoOverlapAlone'
    <3> SUFFICES ASSUME NEW a \in Stored', NEW b \in Stored', a # b, rows'[a].by = rows'[b].by,
                      rows'[a].by \in Technicians \ doubled'
                 PROVE  ~Overlap(rows'[a].period, rows'[b].period)
      BY DEF NoOverlapAlone, NoOverlapAmong
    <3>1. \A c \in Stored : (rows[c].by = arg[r].who /\ arg[r].who \notin doubled) =>
            ~Overlap(rows[c].period, arg[r].period) /\ ~Overlap(arg[r].period, rows[c].period)
      <4>1. 0 \notin Stored
        BY DEF Stored, Ids
      <4>2. \A c \in Stored : (rows[c].by = arg[r].who /\ arg[r].who \notin doubled) => ~Overlap(rows[c].period, arg[r].period)
        BY <1>7, <4>1 DEF Conflict
      <4>3. \A c \in Stored : rows[c].period \in Periods
        BY <1>5 DEF Stored, Rows
      <4>4. \A p, q \in Periods : Overlap(p, q) => Overlap(q, p)
        BY AgendaAssumption DEF Overlap, Periods, Inputs
      <4> QED
        BY <1>7, <4>2, <4>3, <4>4
    <3>2. CASE a = n
      BY <1>3, <1>5, <2>2, <2>3, <2>4, <3>1, <3>2 DEF IInv
    <3>3. CASE b = n
      BY <1>3, <1>5, <2>2, <2>3, <2>4, <3>1, <3>3 DEF IInv
    <3>4. CASE a # n /\ b # n
      BY <1>3, <1>5, <2>3, <2>4, <3>4 DEF IInv, NoOverlapAlone, NoOverlapAmong
    <3> QED
      BY <3>2, <3>3, <3>4
  <2> QED
    BY <1>4, <2>5, <2>6, <2>7, <2>8 DEF IInv
<1> QED
  BY <1>2, <1>8, <1>9

(* UPDATE by id: the row moves to the period that was checked.             *)
LEMMA SavePreserves ==
  ASSUME IInv, NEW r \in Requests, Save(r)
  PROVE  IInv'
<1> DEFINE a == arg[r].id
           next == IF a \in Stored THEN "ok" ELSE "error"
           new == [ticket |-> rows[a].ticket, by |-> rows[a].by, period |-> arg[r].period]
<1>1. /\ Goto(r, "save", next)
      /\ UNCHANGED <<tickets, created, month, trail>>
      /\ \/ a \in Stored /\ rows' = [rows EXCEPT ![a] = new]
         \/ a \notin Stored /\ UNCHANGED rows
  BY DEF Save
<1>2. next \in {"ok", "error"}
  OBVIOUS
<1>3. /\ pc' \in [Requests -> {"idle"} \cup Steps \cup Ended]
      /\ arg' \in [Requests -> Args \cup {NoRequest}]
      /\ doubled' = doubled /\ doubled \subseteq Technicians
      /\ pc[r] = "save" /\ pc'[r] = next /\ arg[r] \in Args
      /\ \A q \in Requests \ {r} : pc'[q] = pc[q] /\ arg'[q] = arg[q]
  BY <1>1, <1>2, GotoFacts DEF IInv, Steps, Ended
<1>4. OneSavePerTechnician'
  BY <1>1, <1>2, GotoKeepsSaves DEF Steps, Ended
<1>5. /\ rows \in [Ids -> Rows \cup {NoRow}]
      /\ \A b \in Stored : b \in Ids /\ rows[b] \in Rows
  BY DEF IInv, TypeOK, Stored
<1>6. \A q \in Requests \ {r} :
        (pc'[q] \in {"check", "insert", "save"} /\ arg[q].who \notin doubled)
          => arg[q].who # arg[r].who
  BY <1>3 DEF IInv, OneSavePerTechnician, Saving
<1>7. /\ arg[r].period \in Periods /\ (arg[r].who \notin doubled => ~Conflict(arg[r]))
      /\ a \in Stored => rows[a].by = arg[r].who
  BY <1>3 DEF IInv, TypeOK, CheckStillHolds, EditorOwnsRow, Saving
<1>8. /\ Stored' = Stored
      /\ \A b \in Stored : /\ rows'[b].by = rows[b].by /\ rows'[b].ticket = rows[b].ticket
                           /\ b # a => rows'[b] = rows[b]
      /\ a \in Stored => rows'[a].period = arg[r].period
      /\ rows' \in [Ids -> Rows \cup {NoRow}]
  <2>1. CASE a \in Stored
    <3>1. rows' = [rows EXCEPT ![a] = new] /\ a \in Ids /\ rows[a] \in Rows
      BY <1>1, <1>5, <2>1
    <3>2. new \in Rows
      BY <1>7, <3>1 DEF Rows
    <3>3. new # NoRow
      BY <3>2, AgendaAssumption
    <3>4. rows'[a] = new /\ \A b \in Ids \ {a} : rows'[b] = rows[b]
      BY <1>5, <3>1
    <3>5. rows' \in [Ids -> Rows \cup {NoRow}]
      BY <1>5, <3>1, <3>2
    <3>6. Stored' = Stored
      BY <2>1, <3>3, <3>4 DEF Stored
    <3> QED
      BY <1>5, <3>4, <3>5, <3>6
  <2>2. CASE a \notin Stored
    BY <1>1, <1>5, <2>2 DEF Stored
  <2> QED
    BY <2>1, <2>2
<1> HIDE DEF next, a
<1>9. TypeOK'
  <2>1. ASSUME NEW q \in Requests
        PROVE  /\ pc'[q] \in Steps => arg'[q] \in Args
               /\ pc'[q] \in {"check", "insert", "save"} => arg'[q].period \in Periods
               /\ pc'[q] \in {"save", "delete", "audit"} => arg'[q].id \in 1 .. created'
    <3>1. CASE q = r
      BY <1>2, <1>3, <3>1 DEF Steps
    <3>2. CASE q # r
      BY <1>1, <1>3, <3>2 DEF IInv, TypeOK
    <3> QED
      BY <3>1, <3>2
  <2>2. \A b \in Stored' : b <= created' /\ rows'[b].ticket \in tickets'
    BY <1>1, <1>8 DEF IInv, TypeOK
  <2> QED
    BY <1>1, <1>3, <1>8, <2>1, <2>2 DEF IInv, TypeOK
<1>10. CheckStillHolds'
  <2> SUFFICES ASSUME NEW q \in Requests, pc'[q] \in {"insert", "save"},
                      arg'[q].who \notin doubled'
               PROVE  ~Conflict(arg[q])'
    BY DEF CheckStillHolds
  <2>1. q # r /\ arg'[q] = arg[q] /\ ~Conflict(arg[q]) /\ arg[q].who # arg[r].who
    BY <1>2, <1>3, <1>6 DEF IInv, CheckStillHolds
  <2> QED
    BY <1>7, <1>8, <2>1 DEF Conflict
<1>11. EditorOwnsRow'
  <2> SUFFICES ASSUME NEW q \in Requests, Saving(q)'
               PROVE  /\ arg'[q].id <= created'
                      /\ pc'[q] = "insert" => arg'[q].id = 0
                      /\ arg'[q].id \in Stored' => rows'[arg'[q].id].by = arg'[q].who
    BY DEF EditorOwnsRow
  <2>1. arg'[q] = arg[q] /\ pc'[q] = pc[q] /\ Saving(q)
    BY <1>2, <1>3 DEF Saving
  <2> QED
    BY <1>1, <1>8, <2>1 DEF IInv, EditorOwnsRow
<1>12. NoOverlapAlone'
  <2> SUFFICES ASSUME NEW b \in Stored', NEW c \in Stored', b # c, rows'[b].by = rows'[c].by,
                      rows'[b].by \in Technicians \ doubled'
               PROVE  ~Overlap(rows'[b].period, rows'[c].period)
    BY DEF NoOverlapAlone, NoOverlapAmong
  <2>1. \A d \in Stored \ {a} : (rows[d].by = arg[r].who /\ arg[r].who \notin doubled) =>
          ~Overlap(rows[d].period, arg[r].period) /\ ~Overlap(arg[r].period, rows[d].period)
    <3>1. \A d \in Stored \ {a} : (rows[d].by = arg[r].who /\ arg[r].who \notin doubled) => ~Overlap(rows[d].period, arg[r].period)
      BY <1>7 DEF Conflict, a
    <3>2. \A d \in Stored : rows[d].period \in Periods
      BY <1>5 DEF Rows
    <3>3. \A p, q \in Periods : Overlap(p, q) => Overlap(q, p)
      BY AgendaAssumption DEF Overlap, Periods, Inputs
    <3> QED
      BY <1>7, <3>1, <3>2, <3>3
  <2>2. CASE b = a
    BY <1>3, <1>7, <1>8, <2>1, <2>2
  <2>3. CASE c = a
    BY <1>3, <1>7, <1>8, <2>1, <2>3
  <2>4. CASE b # a /\ c # a
    BY <1>3, <1>8, <2>4 DEF IInv, NoOverlapAlone, NoOverlapAmong
  <2> QED
    BY <2>2, <2>3, <2>4
<1> QED
  BY <1>4, <1>9, <1>10, <1>11, <1>12 DEF IInv

(* DELETE, its audit entry and the cascade of a ticket: rows only go.      *)
LEMMA RemovalPreserves ==
  ASSUME IInv, NEW r \in Requests, Erase(r) \/ RecordErasure(r)
  PROVE  IInv'
<1>1. PICK from \in {"delete", "audit"}, next \in {"ok", "error", "audit"} :
        /\ Goto(r, from, next) /\ (next = "audit" => from = "delete")
        /\ UNCHANGED <<tickets, created, month>>
        /\ rows' = rows \/ rows' = [rows EXCEPT ![arg[r].id] = NoRow]
        /\ trail' = trail \/ trail' = [trail EXCEPT ![arg[r].id] = @ + 1]
  <2>1. CASE Erase(r)
    <3>1. /\ UNCHANGED <<tickets, created, trail, month>>
          /\ \/ Goto(r, "delete", "audit") /\ rows' = [rows EXCEPT ![arg[r].id] = NoRow]
             \/ Goto(r, "delete", "error") /\ rows' = rows
      BY <2>1 DEF Erase
    <3> QED
      BY <3>1
  <2>2. CASE RecordErasure(r)
    <3>1. /\ Goto(r, "audit", "ok")
          /\ UNCHANGED <<tickets, rows, created, month>>
          /\ trail' = trail \/ trail' = [trail EXCEPT ![arg[r].id] = @ + 1]
      BY <2>2 DEF RecordErasure
    <3> QED
      BY <3>1
  <2> QED
    BY <2>1, <2>2
<1>2. next \in {"ok", "error", "audit"} /\ (next = "audit" => from = "delete")
  BY <1>1
<1>3. /\ pc' \in [Requests -> {"idle"} \cup Steps \cup Ended]
      /\ arg' \in [Requests -> Args \cup {NoRequest}]
      /\ doubled' = doubled /\ doubled \subseteq Technicians
      /\ pc[r] = from /\ pc'[r] = next /\ arg[r] \in Args
      /\ next = "audit" => arg'[r] = arg[r]
      /\ \A q \in Requests \ {r} : pc'[q] = pc[q] /\ arg'[q] = arg[q]
  BY <1>1, <1>2, GotoFacts DEF IInv, Steps, Ended
<1>4. OneSavePerTechnician'
  BY <1>1, <1>2, GotoKeepsSaves DEF Steps, Ended
<1>5. /\ created \in 0 .. MaxActivities /\ MaxActivities \in Nat
      /\ rows \in [Ids -> Rows \cup {NoRow}] /\ trail \in [Ids -> Nat]
      /\ arg[r].id \in 1 .. created
  BY <1>1, <1>3, AgendaAssumption DEF IInv, TypeOK
<1>6. arg[r].id \in Ids
  BY <1>5 DEF Ids
<1>7. /\ rows' \in [Ids -> Rows \cup {NoRow}] /\ trail' \in [Ids -> Nat]
      /\ \A b \in Ids : rows'[b] \in {rows[b], NoRow}
  BY <1>1, <1>5, <1>6
<1>8. /\ Stored' \subseteq Stored
      /\ \A b \in Stored' : rows'[b] = rows[b]
      /\ CheckStillHolds' /\ NoOverlapAlone'
  <2>1. \A q \in Requests : pc'[q] \in {"insert", "save"} => pc[q] = pc'[q] /\ arg'[q] = arg[q]
    BY <1>2, <1>3
  <2> QED
    BY <1>3, <1>7, <2>1, RowsOnlyGo DEF IInv
<1>9. TypeOK'
  <2>1. ASSUME NEW q \in Requests
        PROVE  /\ pc'[q] \in Steps => arg'[q] \in Args
               /\ pc'[q] \in {"check", "insert", "save"} => arg'[q].period \in Periods
               /\ pc'[q] \in {"save", "delete", "audit"} => arg'[q].id \in 1 .. created'
    <3>1. CASE q = r
      BY <1>1, <1>2, <1>3, <1>5, <3>1 DEF Steps
    <3>2. CASE q # r
      BY <1>1, <1>3, <3>2 DEF IInv, TypeOK
    <3> QED
      BY <3>1, <3>2
  <2>2. \A b \in Stored' : b <= created' /\ rows'[b].ticket \in tickets'
    BY <1>1, <1>8 DEF IInv, TypeOK
  <2> QED
    BY <1>1, <1>3, <1>7, <2>1, <2>2 DEF IInv, TypeOK
<1>10. EditorOwnsRow'
  BY <1>1, <1>2, <1>3, <1>8 DEF IInv, EditorOwnsRow, Saving
<1> QED
  BY <1>4, <1>8, <1>9, <1>10 DEF IInv

LEMMA CascadePreserves ==
  ASSUME IInv, NEW t \in Tickets, DropTicket(t)
  PROVE  IInv'
<1>1. /\ tickets' = tickets \ {t}
      /\ rows' = [a \in Ids |-> IF a \in Stored /\ rows[a].ticket = t THEN NoRow ELSE rows[a]]
      /\ UNCHANGED <<created, month, trail, pc, arg, doubled>>
  BY DEF DropTicket
<1>2. /\ rows \in [Ids -> Rows \cup {NoRow}]
      /\ rows' \in [Ids -> Rows \cup {NoRow}]
      /\ \A a \in Ids : rows'[a] \in {rows[a], NoRow}
      /\ \A a \in Stored : rows[a].ticket = t => rows'[a] = NoRow
      /\ doubled' = doubled /\ doubled \subseteq Technicians
  BY <1>1 DEF IInv, TypeOK, Stored
<1>3. /\ Stored' \subseteq Stored
      /\ \A a \in Stored' : rows'[a] = rows[a]
      /\ CheckStillHolds' /\ NoOverlapAlone'
  BY <1>1, <1>2, RowsOnlyGo DEF IInv
<1>4. \A a \in Stored' : a <= created' /\ rows'[a].ticket \in tickets'
  BY <1>1, <1>2, <1>3 DEF IInv, TypeOK, Stored
<1>5. TypeOK'
  BY <1>1, <1>2, <1>4 DEF IInv, TypeOK
<1>6. OneSavePerTechnician' /\ EditorOwnsRow'
  BY <1>1, <1>3 DEF IInv, OneSavePerTechnician, EditorOwnsRow, Saving
<1> QED
  BY <1>3, <1>5, <1>6 DEF IInv

LEMMA Inductive ==
  ASSUME IInv, [Next]_vars
  PROVE  IInv'
<1>1. CASE UNCHANGED vars
  BY <1>1 DEF vars, IInv, TypeOK, OneSavePerTechnician, CheckStillHolds, EditorOwnsRow,
              NoOverlapAlone, NoOverlapAmong, Saving, Conflict, Stored
<1>2. ASSUME NEW r \in Requests, Arrive(r)
      PROVE  IInv'
  <2>1. PICK k \in Technicians, t \in Tickets :
          \/ \E p \in Inputs : CreateStart(r, k, t, p)
          \/ \E p \in Inputs, a \in Ids : EditStart(r, k, t, a, p)
          \/ \E a \in Ids : EraseStart(r, k, t, a)
    BY <1>2 DEF Arrive
  <2>2. created \in Nat /\ MaxActivities \in Nat
    BY AgendaAssumption DEF IInv, TypeOK
  <2>3. ASSUME NEW p \in Inputs, CreateStart(r, k, t, p)
        PROVE  IInv'
    <3> DEFINE a == Request("create", k, t, 0, p)
               next == IF t \in tickets /\ Accepts(p) THEN "check" ELSE "denied"
    <3>1. /\ NoteSave(k) /\ Start(r, a, next)
          /\ UNCHANGED <<tickets, rows, created, month, trail>>
      BY <2>3 DEF CreateStart
    <3>2. a \in Args /\ a.id = 0 /\ a.who = k /\ a.period = p
      BY <2>2 DEF Args, Request
    <3>3. next = "check" => a.period \in Periods
      BY <3>2, AcceptedPeriods
    <3>4. next \in {"check", "denied"} /\ a.id \notin Stored
      BY <3>2 DEF Stored, Ids
    <3>5. /\ doubled \subseteq doubled' /\ doubled' \subseteq Technicians
          /\ a.who \notin doubled' => ~Busy(a.who)
      BY <3>1, <3>2 DEF NoteSave, IInv, TypeOK
    <3> HIDE DEF a, next
    <3> QED
      BY <2>2, <3>1, <3>2, <3>3, <3>4, <3>5, StartPreserves DEF Steps, Ended
  <2>4. ASSUME NEW p \in Inputs, NEW b \in Ids, EditStart(r, k, t, b, p)
        PROVE  IInv'
    <3> DEFINE a == Request("edit", k, t, b, p)
               found == b \in Stored /\ rows[b].ticket = t /\ rows[b].by = k
               next == IF found /\ Accepts(p) THEN "check" ELSE "denied"
    <3>1. /\ NoteSave(k) /\ Start(r, a, next) /\ b <= created
          /\ UNCHANGED <<tickets, rows, created, month, trail>>
      BY <2>4 DEF EditStart
    <3>2. a \in Args /\ a.id = b /\ a.who = k /\ a.period = p
      BY <2>2 DEF Args, Request, Ids
    <3>3. next = "check" => a.period \in Periods /\ rows[a.id].by = a.who
      BY <3>2, AcceptedPeriods
    <3>4. next \in {"check", "denied"}
      OBVIOUS
    <3>5. /\ doubled \subseteq doubled' /\ doubled' \subseteq Technicians
          /\ a.who \notin doubled' => ~Busy(a.who)
      BY <3>1, <3>2 DEF NoteSave, IInv, TypeOK
    <3> HIDE DEF a, next
    <3> QED
      BY <3>1, <3>2, <3>3, <3>4, <3>5, StartPreserves DEF Steps, Ended
  <2>5. ASSUME NEW b \in Ids, EraseStart(r, k, t, b)
        PROVE  IInv'
    <3> DEFINE a == Request("erase", k, t, b, rows[b].period)
               found == b \in Stored /\ rows[b].ticket = t
    <3>0. doubled \subseteq Technicians
      BY DEF IInv, TypeOK
    <3>1. /\ b <= created
          /\ UNCHANGED <<tickets, rows, created, month, trail, doubled>>
          /\ \/ found /\ Start(r, a, "delete")
             \/ Start(r, NoRequest, "denied")
      BY <2>5 DEF EraseStart
    <3>2. CASE Start(r, NoRequest, "denied")
      BY <3>0, <3>1, <3>2, StartPreserves DEF Steps, Ended
    <3>3. CASE found /\ Start(r, a, "delete")
      <4>1. rows[b].period \in Inputs
        BY <3>3 DEF IInv, TypeOK, Stored, Rows, Periods
      <4>2. a \in Args /\ a.id = b /\ b \in 1 .. created
        BY <2>2, <3>1, <4>1 DEF Args, Request, Ids
      <4> HIDE DEF a
      <4> QED
        BY <3>0, <3>1, <3>3, <4>2, StartPreserves DEF Steps, Ended
    <3> QED
      BY <3>1, <3>2, <3>3
  <2> QED
    BY <2>1, <2>3, <2>4, <2>5
<1>3. ASSUME NEW r \in Requests, Continue(r)
      PROVE  IInv'
  BY <1>3, CheckPreserves, InsertPreserves, SavePreserves, RemovalPreserves DEF Continue
<1>4. ASSUME NEW t \in Tickets, DropTicket(t)
      PROVE  IInv'
  BY <1>4, CascadePreserves
<1>5. CASE PassTime
  <2>1. month' \in Months /\ UNCHANGED <<tickets, rows, created, trail, pc, arg, doubled>>
    BY <1>5 DEF PassTime
  <2> QED
    BY <2>1 DEF IInv, TypeOK, OneSavePerTechnician, CheckStillHolds, EditorOwnsRow,
                NoOverlapAlone, NoOverlapAmong, Saving, Conflict, Stored
<1> QED
  BY <1>1, <1>2, <1>3, <1>4, <1>5 DEF Next

-----------------------------------------------------------------------------

(* Two activities of a technician never overlap, in whatever tickets they  *)
(* are, unless the technician once had two saves under way: the check that *)
(* precedes a write (assertNoConflict) still holds when the write is made. *)
THEOREM NeverOverlaps == Spec => []NoOverlapAlone
<1>1. Init => IInv
  BY InitEstablishes
<1>2. IInv /\ [Next]_vars => IInv'
  BY Inductive
<1>3. IInv => NoOverlapAlone
  BY DEF IInv
<1> QED
  BY <1>1, <1>2, <1>3, PTL DEF Spec

-----------------------------------------------------------------------------

(* Steps that keep what is stored, or lose some of it, are cancellations.  *)
LEMMA LossIsCancel ==
  ASSUME Stored' \subseteq Stored, \A a \in Stored' : rows'[a] = rows[a],
         doubled \subseteq doubled'
  PROVE  Promised!Cancel
<1>0. Kept' \subseteq Kept /\ Kept' \subseteq Stored'
  BY DEF Kept
<1>1. \A a \in Stored' :
        /\ [b \in Stored |-> rows[b].by]'[a] = [b \in Stored |-> rows[b].by][a]
        /\ [b \in Stored |-> rows[b].period]'[a] = [b \in Stored |-> rows[b].period][a]
  OBVIOUS
<1> QED
  BY <1>0, <1>1 DEF Promised!Cancel

LEMMA InsertIsBook ==
  ASSUME IInv, NEW r \in Requests, Insert(r)
  PROVE  Promised!Book \/ Promised!Cancel
<1> DEFINE n == created + 1
           p == arg[r].period
           k == arg[r].who
<1>0. doubled' = doubled
  BY DEF Insert, Goto
<1>1. CASE arg[r].ticket \notin tickets
  <2>1. rows' = rows
    BY <1>1 DEF Insert
  <2> QED
    BY <1>0, <2>1, LossIsCancel DEF Stored
<1>2. CASE arg[r].ticket \in tickets
  <2>1. /\ pc[r] = "insert" /\ created < MaxActivities
        /\ rows' = [rows EXCEPT ![n] =
             [ticket |-> arg[r].ticket, by |-> k, period |-> p]]
    BY <1>2 DEF Insert
  <2>2. /\ arg[r] \in Args /\ arg[r].id = 0 /\ p \in Periods
        /\ k \notin doubled => ~Conflict(arg[r])
        /\ created \in 0 .. MaxActivities /\ MaxActivities \in Nat
        /\ rows \in [Ids -> Rows \cup {NoRow}]
        /\ \A b \in Stored : b <= created
    BY <2>1, AgendaAssumption DEF IInv, TypeOK, CheckStillHolds, EditorOwnsRow, Saving, Steps
  <2>3. /\ n \in Ids \ Stored /\ k \in Technicians
        /\ [ticket |-> arg[r].ticket, by |-> k, period |-> p] \in Rows
    <3>1. n \in Ids \ Stored
      BY <2>1, <2>2 DEF Ids
    <3>2. k \in Technicians /\ arg[r].ticket \in Tickets
      BY <2>2 DEF Args
    <3> QED
      BY <2>2, <3>1, <3>2 DEF Rows
  <2>4. /\ rows'[n] = [ticket |-> arg[r].ticket, by |-> k, period |-> p]
        /\ \A b \in Ids \ {n} : rows'[b] = rows[b]
    BY <2>1, <2>2, <2>3
  <2>5. Stored' = Stored \cup {n}
    BY <2>3, <2>4, AgendaAssumption DEF Stored
  <2>6. \A b \in Kept : rows[b].by = k => ~Overlap(rows[b].period, p)
    BY <2>2 DEF Conflict, Kept, Stored, Ids
  <2>7. Promised!Free(k, p, {})
    BY <2>6 DEF Promised!Free, Promised!Collide, Overlap, Kept
  <2>8. /\ [b \in Stored |-> rows[b].by]'[n] = k
        /\ [b \in Stored |-> rows[b].period]'[n] = p
        /\ \A c \in Stored :
             /\ [b \in Stored |-> rows[b].by]'[c] = [b \in Stored |-> rows[b].by][c]
             /\ [b \in Stored |-> rows[b].period]'[c] = [b \in Stored |-> rows[b].period][c]
    <3>1. \A c \in Stored : c \in Stored' /\ rows'[c] = rows[c]
      BY <2>3, <2>4, <2>5 DEF Stored
    <3> QED
      BY <2>4, <2>5, <3>1
  <2>9. /\ k \notin doubled => Kept' = Kept \cup {n}
        /\ k \in doubled => Kept' = Kept
        /\ n \in Ids \ Kept /\ Kept \subseteq Stored
    <3>1. \A b \in Stored : rows'[b] = rows[b] /\ b # n
      BY <2>3, <2>4 DEF Stored
    <3>2. rows'[n].by = k
      BY <2>4
    <3> HIDE DEF n, p, k
    <3> QED
      BY <1>0, <2>3, <2>5, <3>1, <3>2 DEF Kept
  <2> HIDE DEF n, p, k
  <2>10. CASE k \notin doubled
    BY <2>2, <2>3, <2>7, <2>8, <2>9, <2>10 DEF Promised!Book
  <2>11. CASE k \in doubled
    BY <2>8, <2>9, <2>11 DEF Promised!Cancel
  <2> QED
    BY <2>10, <2>11
<1> QED
  BY <1>1, <1>2

LEMMA SaveIsMove ==
  ASSUME IInv, NEW r \in Requests, Save(r)
  PROVE  Promised!Move \/ Promised!Cancel
<1> DEFINE a == arg[r].id
           p == arg[r].period
<1>0. doubled' = doubled
  BY DEF Save, Goto
<1>1. CASE a \notin Stored
  <2>1. rows' = rows
    BY <1>1 DEF Save
  <2> QED
    BY <1>0, <2>1, LossIsCancel DEF Stored
<1>2. CASE a \in Stored
  <2>1. /\ pc[r] = "save"
        /\ rows' = [rows EXCEPT ![a] =
             [ticket |-> rows[a].ticket, by |-> rows[a].by, period |-> p]]
    BY <1>2 DEF Save
  <2>2. /\ p \in Periods /\ rows[a].by = arg[r].who
        /\ arg[r].who \notin doubled => ~Conflict(arg[r])
        /\ rows \in [Ids -> Rows \cup {NoRow}]
    BY <1>2, <2>1 DEF IInv, TypeOK, CheckStillHolds, EditorOwnsRow, Saving
  <2>3. /\ a \in Ids /\ rows[a] \in Rows
        /\ [ticket |-> rows[a].ticket, by |-> rows[a].by, period |-> p] \in Rows
    BY <1>2, <2>2 DEF Stored, Rows
  <2>4. /\ rows'[a] = [ticket |-> rows[a].ticket, by |-> rows[a].by, period |-> p]
        /\ \A b \in Ids \ {a} : rows'[b] = rows[b]
    BY <2>1, <2>2, <2>3
  <2>5. Stored' = Stored
    BY <1>2, <2>3, <2>4, AgendaAssumption DEF Stored
  <2>6. \A b \in Kept \ {a} : rows[b].by = rows[a].by => ~Overlap(rows[b].period, p)
    BY <2>2 DEF Conflict, Kept
  <2>7. Promised!Free([b \in Stored |-> rows[b].by][a], p, {a})
    BY <1>2, <2>6 DEF Promised!Free, Promised!Collide, Overlap, Kept
  <2>8. /\ [b \in Stored |-> rows[b].period]'[a] = p
        /\ \A c \in Stored :
             /\ [b \in Stored |-> rows[b].by]'[c] = [b \in Stored |-> rows[b].by][c]
             /\ c # a =>
                  [b \in Stored |-> rows[b].period]'[c] = [b \in Stored |-> rows[b].period][c]
    <3>1. \A c \in Stored : c # a => rows'[c] = rows[c]
      BY <2>4 DEF Stored
    <3>2. \A c \in Stored : c \in Stored' /\ rows'[c].by = rows[c].by
      BY <2>4, <2>5, <3>1
    <3> QED
      BY <1>2, <2>4, <2>5, <3>1, <3>2
  <2>9. Kept' = Kept /\ Kept \subseteq Stored
    <3>1. \A b \in Stored : rows'[b].by = rows[b].by
      BY <2>4 DEF Stored
    <3> QED
      BY <1>0, <2>5, <3>1 DEF Kept
  <2> HIDE DEF a, p
  <2>10. CASE a \in Kept
    BY <2>2, <2>7, <2>8, <2>9, <2>10 DEF Promised!Move
  <2>11. CASE a \notin Kept
    <3>1. \A c \in Kept : c # a
      BY <2>11
    <3> QED
      BY <2>8, <2>9, <3>1 DEF Promised!Cancel
  <2> QED
    BY <2>10, <2>11
<1> QED
  BY <1>1, <1>2

LEMMA StepImplements ==
  ASSUME IInv, [Next]_vars
  PROVE  Promised!Next
<1>1. ASSUME UNCHANGED rows, doubled \subseteq doubled'
      PROVE  Promised!Cancel
  BY <1>1, LossIsCancel DEF Stored
<1>2. CASE UNCHANGED vars
  BY <1>1, <1>2 DEF vars, Promised!Next
<1>3. ASSUME NEW r \in Requests, Arrive(r)
      PROVE  Promised!Next
  BY <1>1, <1>3 DEF Arrive, CreateStart, EditStart, EraseStart, NoteSave, Promised!Next
<1>4. ASSUME NEW r \in Requests, Continue(r)
      PROVE  Promised!Next
  <2>1. CASE Check(r) \/ RecordErasure(r)
    BY <1>1, <2>1 DEF Check, RecordErasure, Goto, Promised!Next
  <2>2. CASE Insert(r) \/ Save(r)
    BY <2>2, InsertIsBook, SaveIsMove DEF Promised!Next
  <2>3. CASE Erase(r)
    <3>1. /\ rows' = rows \/ rows' = [rows EXCEPT ![arg[r].id] = NoRow]
          /\ doubled' = doubled
      BY <2>3 DEF Erase, Goto
    <3>2. rows \in [Ids -> Rows \cup {NoRow}]
      BY DEF IInv, TypeOK
    <3>3. Stored' \subseteq Stored /\ \A a \in Stored' : rows'[a] = rows[a]
      BY <3>1, <3>2 DEF Stored
    <3> QED
      BY <3>1, <3>3, LossIsCancel DEF Promised!Next
  <2> QED
    BY <1>4, <2>1, <2>2, <2>3 DEF Continue
<1>5. ASSUME NEW t \in Tickets, DropTicket(t)
      PROVE  Promised!Next
  <2>1. /\ rows' = [a \in Ids |-> IF a \in Stored /\ rows[a].ticket = t THEN NoRow ELSE rows[a]]
        /\ doubled' = doubled
    BY <1>5 DEF DropTicket
  <2>2. Stored' \subseteq Stored /\ \A a \in Stored' : rows'[a] = rows[a]
    BY <2>1 DEF Stored
  <2> QED
    BY <2>1, <2>2, LossIsCancel DEF Promised!Next
<1>6. CASE PassTime
  BY <1>1, <1>6 DEF PassTime, Promised!Next
<1> QED
  BY <1>2, <1>3, <1>4, <1>5, <1>6 DEF Next

(* The handlers of the activities implement the atomic calendar of the     *)
(* technicians that never had two saves under way at once: inserts are     *)
(* bookings, updates are moves, deletions and cascades are cancellations,  *)
(* and all the other steps change nothing.                                 *)
THEOREM ImplementsCalendar == Spec => KeepsCalendar
<1>1. Init => IInv
  BY InitEstablishes
<1>2. IInv /\ [Next]_vars => IInv'
  BY Inductive
<1>3. Init => Promised!Init
  BY DEF Init, Promised!Init, Kept, Stored
<1>4. IInv /\ [Next]_vars => [Promised!Next]_(Promised!vars)
  BY StepImplements
<1> QED
  BY <1>1, <1>2, <1>3, <1>4, PTL DEF Spec, KeepsCalendar, Promised!Spec

-----------------------------------------------------------------------------

(* The tables and the requests keep their types: what a request is about   *)
(* to write was accepted, and an activity never outlives its ticket.       *)
THEOREM TypeCorrect == Spec => []TypeOK
<1>1. Init => IInv
  BY InitEstablishes
<1>2. IInv /\ [Next]_vars => IInv'
  BY Inductive
<1>3. IInv => TypeOK
  BY DEF IInv
<1> QED
  BY <1>1, <1>2, <1>3, PTL DEF Spec

-----------------------------------------------------------------------------
(* The trail *)

(* A request that has deleted an activity and is about to record it is the *)
(* only one, the activity is gone and nothing was recorded of it yet; of   *)
(* an activity that is still to be created nothing is recorded.            *)
RecordDue ==
  \A r \in Requests : pc[r] = "audit" =>
    /\ arg[r].id \notin Stored
    /\ trail[arg[r].id] = 0
    /\ \A q \in Requests \ {r} : pc[q] = "audit" => arg[q].id # arg[r].id

TrailInv ==
  /\ ErasureRecordedOnce
  /\ \A a \in Ids : a > created => trail[a] = 0
  /\ RecordDue

(* Requests that are not about to record, rows that only go: the trail is  *)
(* as true as before.                                                      *)
LEMMA TrailUndisturbed ==
  ASSUME TypeOK, TrailInv, trail' = trail, Stored' \subseteq Stored, created' = created,
         \A r \in Requests : pc'[r] = "audit" => pc[r] = "audit" /\ arg'[r] = arg[r]
  PROVE  TrailInv'
<1>1. \A a \in Ids : trail[a] \in Nat
  BY DEF TypeOK
<1>2. ErasureRecordedOnce'
  BY <1>1 DEF TrailInv, ErasureRecordedOnce
<1>3. RecordDue'
  BY DEF TrailInv, RecordDue
<1> QED
  BY <1>2, <1>3 DEF TrailInv

LEMMA InsertKeepsTrail ==
  ASSUME IInv, TrailInv, NEW r \in Requests, Insert(r)
  PROVE  TrailInv'
<1>1. PICK next \in {"ok", "error"} :
        /\ Goto(r, "insert", next) /\ trail' = trail
        /\ \/ /\ created < MaxActivities /\ created' = created + 1
              /\ rows' = [rows EXCEPT ![created + 1] =
                   [ticket |-> arg[r].ticket, by |-> arg[r].who, period |-> arg[r].period]]
           \/ UNCHANGED <<created, rows>>
  BY DEF Insert
<1>2. /\ pc \in [Requests -> {"idle"} \cup Steps \cup Ended]
      /\ arg \in [Requests -> Args \cup {NoRequest}]
      /\ rows \in [Ids -> Rows \cup {NoRow}] /\ trail \in [Ids -> Nat]
      /\ created \in Nat /\ MaxActivities \in Nat
      /\ \A q \in Requests : pc[q] = "audit" => arg[q].id \in 1 .. created
  BY AgendaAssumption DEF IInv, TypeOK
<1>3. \A q \in Requests : pc'[q] = "audit" => pc[q] = "audit" /\ arg'[q] = arg[q]
  BY <1>1, <1>2 DEF Goto
<1>4. CASE UNCHANGED <<created, rows>>
  BY <1>1, <1>3, <1>4, TrailUndisturbed DEF IInv, Stored
<1>5. CASE /\ created < MaxActivities /\ created' = created + 1
           /\ rows' = [rows EXCEPT ![created + 1] =
                [ticket |-> arg[r].ticket, by |-> arg[r].who, period |-> arg[r].period]]
  <2>1. Stored' \subseteq Stored \cup {created + 1}
    BY <1>2, <1>5 DEF Stored
  <2>2. ASSUME NEW a \in Ids
        PROVE  trail'[a] <= IF a \in Stored' THEN 0 ELSE 1
    <3>1. CASE a = created + 1
      BY <1>1, <1>2, <3>1 DEF TrailInv, Ids
    <3>2. CASE a # created + 1
      BY <1>1, <1>2, <2>1, <3>2 DEF TrailInv, ErasureRecordedOnce
    <3> QED
      BY <3>1, <3>2
  <2>3. \A a \in Ids : a > created' => trail'[a] = 0
    BY <1>1, <1>2, <1>5 DEF TrailInv, Ids
  <2>4. RecordDue'
    <3>1. \A q \in Requests : pc[q] = "audit" => arg[q].id # created + 1
      BY <1>2
    <3> QED
      BY <1>1, <1>3, <2>1, <3>1 DEF TrailInv, RecordDue
  <2> QED
    BY <2>2, <2>3, <2>4 DEF TrailInv, ErasureRecordedOnce
<1> QED
  BY <1>1, <1>4, <1>5

(* The DELETE answers for the row it found: nobody else can be about to    *)
(* record it, for then it would be gone.                                   *)
LEMMA EraseKeepsTrail ==
  ASSUME IInv, TrailInv, NEW r \in Requests, Erase(r)
  PROVE  TrailInv'
<1> DEFINE a == arg[r].id
<1>1. /\ pc \in [Requests -> {"idle"} \cup Steps \cup Ended]
      /\ arg \in [Requests -> Args \cup {NoRequest}]
      /\ rows \in [Ids -> Rows \cup {NoRow}] /\ trail \in [Ids -> Nat]
  BY DEF IInv, TypeOK
<1>2. CASE a \in Stored /\ Goto(r, "delete", "audit") /\ rows' = [rows EXCEPT ![a] = NoRow]
           /\ UNCHANGED <<created, trail>>
  <2>1. Stored' = Stored \ {a}
    BY <1>1, <1>2 DEF Stored
  <2>2. a \in Ids /\ trail[a] = 0
    BY <1>1, <1>2 DEF TrailInv, ErasureRecordedOnce, Stored
  <2>3. /\ pc'[r] = "audit" /\ arg'[r] = arg[r]
        /\ \A q \in Requests \ {r} : pc'[q] = pc[q] /\ arg'[q] = arg[q]
    BY <1>1, <1>2 DEF Goto, Steps
  <2>4. \A q \in Requests : pc[q] = "audit" => arg[q].id # a
    BY <1>2 DEF TrailInv, RecordDue
  <2>5. RecordDue'
    BY <1>2, <2>1, <2>2, <2>3, <2>4 DEF TrailInv, RecordDue
  <2>6. ErasureRecordedOnce'
    BY <1>1, <1>2, <2>1, <2>2 DEF TrailInv, ErasureRecordedOnce
  <2> QED
    BY <1>2, <2>5, <2>6 DEF TrailInv
<1>3. CASE Goto(r, "delete", "error") /\ UNCHANGED <<rows, created, trail>>
  <2>1. \A q \in Requests : pc'[q] = "audit" => pc[q] = "audit" /\ arg'[q] = arg[q]
    BY <1>1, <1>3 DEF Goto
  <2> QED
    BY <1>3, <2>1, TrailUndisturbed DEF IInv, Stored
<1> QED
  BY <1>2, <1>3 DEF Erase, Throws

LEMMA RecordKeepsTrail ==
  ASSUME IInv, TrailInv, NEW r \in Requests, RecordErasure(r)
  PROVE  TrailInv'
<1> DEFINE a == arg[r].id
<1>1. /\ pc \in [Requests -> {"idle"} \cup Steps \cup Ended]
      /\ arg \in [Requests -> Args \cup {NoRequest}]
      /\ trail \in [Ids -> Nat] /\ created \in 0 .. MaxActivities /\ MaxActivities \in Nat
      /\ pc[r] = "audit" => a \in 1 .. created
  BY AgendaAssumption DEF IInv, TypeOK
<1>2. /\ Goto(r, "audit", "ok") /\ UNCHANGED <<rows, created>>
      /\ trail' = trail \/ trail' = [trail EXCEPT ![a] = @ + 1]
  BY DEF RecordErasure
<1>3. /\ pc[r] = "audit" /\ pc'[r] = "ok"
      /\ \A q \in Requests \ {r} : pc'[q] = pc[q] /\ arg'[q] = arg[q]
  BY <1>1, <1>2 DEF Goto
<1>4. Stored' = Stored /\ a \in Ids
  BY <1>1, <1>2, <1>3 DEF Stored, Ids
<1>5. CASE trail' = trail
  BY <1>2, <1>3, <1>4, <1>5, TrailUndisturbed DEF IInv
<1>6. CASE trail' = [trail EXCEPT ![a] = @ + 1]
  <2>1. a \notin Stored /\ trail[a] = 0
    BY <1>3 DEF TrailInv, RecordDue
  <2>2. ErasureRecordedOnce'
    BY <1>1, <1>4, <1>6, <2>1 DEF TrailInv, ErasureRecordedOnce
  <2>3. \A b \in Ids : b > created' => trail'[b] = 0
    BY <1>1, <1>2, <1>3, <1>4, <1>6 DEF TrailInv
  <2>4. ASSUME NEW q \in Requests, pc'[q] = "audit"
        PROVE  /\ q # r /\ pc[q] = "audit" /\ arg'[q] = arg[q]
               /\ arg[q].id # a /\ arg[q].id \in Ids
    BY <1>1, <1>3, <2>4 DEF TrailInv, RecordDue, IInv, TypeOK, Ids
  <2>5. RecordDue'
    BY <1>1, <1>4, <1>6, <2>4 DEF TrailInv, RecordDue
  <2> QED
    BY <2>2, <2>3, <2>5 DEF TrailInv
<1> QED
  BY <1>2, <1>5, <1>6

LEMMA TrailInductive ==
  ASSUME IInv, TrailInv, [Next]_vars
  PROVE  TrailInv'
<1>0. /\ pc \in [Requests -> {"idle"} \cup Steps \cup Ended]
      /\ arg \in [Requests -> Args \cup {NoRequest}]
      /\ rows \in [Ids -> Rows \cup {NoRow}]
  BY DEF IInv, TypeOK
<1>1. CASE UNCHANGED vars
  BY <1>1, TrailUndisturbed DEF vars, IInv, Stored
<1>2. ASSUME NEW r \in Requests, Arrive(r)
      PROVE  TrailInv'
  <2>1. PICK next \in {"check", "delete", "denied"} :
          (\E a : Start(r, a, next)) /\ UNCHANGED <<rows, created, trail>>
    <3>1. PICK k \in Technicians, t \in Tickets :
            \/ \E p \in Inputs : CreateStart(r, k, t, p)
            \/ \E p \in Inputs, a \in Ids : EditStart(r, k, t, a, p)
            \/ \E a \in Ids : EraseStart(r, k, t, a)
      BY <1>2 DEF Arrive
    <3>2. CASE \E p \in Inputs : CreateStart(r, k, t, p)
      BY <3>2 DEF CreateStart
    <3>3. CASE \E p \in Inputs, a \in Ids : EditStart(r, k, t, a, p)
      BY <3>3 DEF EditStart
    <3>4. CASE \E a \in Ids : EraseStart(r, k, t, a)
      BY <3>4 DEF EraseStart
    <3> QED
      BY <3>1, <3>2, <3>3, <3>4
  <2>2. \A q \in Requests : pc'[q] = "audit" => pc[q] = "audit" /\ arg'[q] = arg[q]
    BY <1>0, <2>1 DEF Start
  <2> QED
    BY <2>1, <2>2, TrailUndisturbed DEF IInv, Stored
<1>3. ASSUME NEW r \in Requests, Check(r)
      PROVE  TrailInv'
  <2>1. PICK next \in {"denied", "insert", "save"} :
          Goto(r, "check", next) /\ UNCHANGED <<rows, created, trail>>
    BY <1>3 DEF Check
  <2>2. \A q \in Requests : pc'[q] = "audit" => pc[q] = "audit" /\ arg'[q] = arg[q]
    BY <1>0, <2>1 DEF Goto
  <2> QED
    BY <2>1, <2>2, TrailUndisturbed DEF IInv, Stored
<1>4. ASSUME NEW r \in Requests, Save(r)
      PROVE  TrailInv'
  <2>1. PICK next \in {"ok", "error"} : Goto(r, "save", next) /\ UNCHANGED <<created, trail>>
    BY <1>4 DEF Save
  <2>2. \A q \in Requests : pc'[q] = "audit" => pc[q] = "audit" /\ arg'[q] = arg[q]
    BY <1>0, <2>1 DEF Goto
  <2>3. Stored' \subseteq Stored
    BY <1>0, <1>4 DEF Save, Stored
  <2> QED
    BY <2>1, <2>2, <2>3, TrailUndisturbed DEF IInv
<1>5. ASSUME NEW t \in Tickets, DropTicket(t)
      PROVE  TrailInv'
  <2>1. Stored' \subseteq Stored
    BY <1>0, <1>5 DEF DropTicket, Stored
  <2> QED
    BY <1>5, <2>1, TrailUndisturbed DEF IInv, DropTicket
<1>6. CASE PassTime
  BY <1>6, TrailUndisturbed DEF IInv, PassTime, Stored
<1> QED
  BY <1>1, <1>2, <1>3, <1>4, <1>5, <1>6, InsertKeepsTrail, EraseKeepsTrail, RecordKeepsTrail
     DEF Next, Continue

(* However many requests erase an activity at once, or drop its ticket,    *)
(* the trail records the deletion at most once, and none that did not      *)
(* happen: activities.service.ts, 177-191.                                 *)
THEOREM ErasureOnce == Spec => []ErasureRecordedOnce
<1>1. Init => IInv /\ TrailInv
  BY InitEstablishes
     DEF Init, TrailInv, ErasureRecordedOnce, RecordDue, Stored
<1>2. IInv /\ TrailInv /\ [Next]_vars => (IInv /\ TrailInv)'
  BY Inductive, TrailInductive
<1>3. IInv /\ TrailInv => ErasureRecordedOnce
  BY DEF TrailInv
<1> QED
  BY <1>1, <1>2, <1>3, PTL DEF Spec
=============================================================================
