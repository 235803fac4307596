---------------------------- MODULE TicketsProofs ----------------------------
(***************************************************************************)
(* For any number of tickets, modules, users and requests: the tables of   *)
(* module Tickets keep their types and no ticket is left without the rows  *)
(* it refers to; and until two requests about one ticket or one module     *)
(* overlap, what a request reads still holds when it writes, so tickets    *)
(* are created in active modules, a notice tells a change, and a change    *)
(* is told unless the process stops in between.                            *)
(***************************************************************************)
EXTENDS Tickets, TLAPS

IInv == TypeOK /\ ReferencesExist

-----------------------------------------------------------------------------
(* Requests *)

LEMMA StartFacts ==
  ASSUME TypeOK, NEW r \in Requests, NEW a \in Args, NEW next \in Steps \cup Ended,
         Start(r, a, next)
  PROVE  /\ pc' \in [Requests -> {"idle"} \cup Steps \cup Ended]
         /\ arg' \in [Requests -> Args \cup {None}] /\ late' \subseteq Requests
         /\ pc[r] = "idle" /\ pc'[r] = next
         /\ next \in Steps => arg'[r] = a
         /\ \A q \in Requests \ {r} : pc'[q] = pc[q] /\ arg'[q] = arg[q]
         /\ late' = {} => ~Shared(a)
<1>1. /\ pc \in [Requests -> {"idle"} \cup Steps \cup Ended]
      /\ arg \in [Requests -> Args \cup {None}] /\ late \subseteq Requests
  BY DEF TypeOK
<1>2. /\ late' = (IF Shared(a) THEN late \cup {r} ELSE late) /\ pc[r] = "idle" /\ pc' = [pc EXCEPT ![r] = next]
      /\ arg' = [arg EXCEPT ![r] = IF next \in Steps THEN a ELSE None]
  BY DEF Start
<1> QED
  BY <1>1, <1>2

LEMMA GotoFacts ==
  ASSUME TypeOK, NEW r \in Requests, NEW from \in Steps, NEW next \in Steps \cup Ended,
         Goto(r, from, next)
  PROVE  /\ pc' \in [Requests -> {"idle"} \cup Steps \cup Ended]
         /\ arg' \in [Requests -> Args \cup {None}] /\ late' \subseteq Requests
         /\ pc[r] = from /\ pc'[r] = next /\ arg[r] \in Args
         /\ next \in Steps => arg'[r] = arg[r]
         /\ \A q \in Requests \ {r} : pc'[q] = pc[q] /\ arg'[q] = arg[q]
<1>1. /\ pc \in [Requests -> {"idle"} \cup Steps \cup Ended]
      /\ arg \in [Requests -> Args \cup {None}] /\ late \subseteq Requests
  BY DEF TypeOK
<1>2. /\ late' = late /\ pc[r] = from /\ pc' = [pc EXCEPT ![r] = next]
      /\ arg' = [arg EXCEPT ![r] = IF next \in Steps THEN @ ELSE None]
  BY DEF Goto
<1>3. arg[r] \in Args
  BY <1>2 DEF TypeOK, RequestOK
<1> QED
  BY <1>1, <1>2, <1>3

(* The type of the requests follows from that of the one that moved.       *)
LEMMA OthersStay ==
  ASSUME TypeOK, NEW r \in Requests, born \subseteq born',
         \A q \in Requests \ {r} : pc'[q] = pc[q] /\ arg'[q] = arg[q],
         RequestOK(r)'
  PROVE  \A q \in Requests : RequestOK(q)'
<1> SUFFICES ASSUME NEW q \in Requests \ {r} PROVE RequestOK(q)'
  OBVIOUS
<1>1. RequestOK(q) /\ pc'[q] = pc[q] /\ arg'[q] = arg[q]
  BY DEF TypeOK
<1> QED
  BY <1>1 DEF RequestOK

(* A request that has ended carries nothing.                               *)
LEMMA EndedOK ==
  ASSUME NEW r \in Requests, pc'[r] \in Ended
  PROVE  RequestOK(r)'
BY DEF RequestOK, Steps, Ended

(* The tables are as they were.                                            *)
LEMMA TablesStay ==
  ASSUME IInv, NEW r \in Requests,
         UNCHANGED <<role, active, rows, born, told>>,
         pc' \in [Requests -> {"idle"} \cup Steps \cup Ended],
         arg' \in [Requests -> Args \cup {None}], late' \subseteq Requests,
         \A q \in Requests \ {r} : pc'[q] = pc[q] /\ arg'[q] = arg[q],
         RequestOK(r)'
  PROVE  IInv'
<1>1. \A q \in Requests : RequestOK(q)'
  BY OthersStay DEF IInv
<1>2. Stored' = Stored
  BY DEF Stored
<1>3. TypeOK'
  BY <1>1, <1>2 DEF IInv, TypeOK
<1>4. ReferencesExist'
  BY <1>2 DEF IInv, ReferencesExist, KeysHold
<1> QED
  BY <1>3, <1>4 DEF IInv

-----------------------------------------------------------------------------

LEMMA InitEstablishes == Init => IInv
<1> SUFFICES ASSUME Init PROVE IInv
  OBVIOUS
<1>1. Stored = {}
  BY DEF Init, Stored
<1>2. \A r \in Requests : RequestOK(r)
  BY DEF Init, RequestOK, Steps
<1>3. TypeOK
  BY <1>1, <1>2, TicketsAssumption DEF Init, TypeOK
<1>4. ReferencesExist
  BY <1>1 DEF ReferencesExist
<1> QED
  BY <1>3, <1>4 DEF IInv

(* A request that starts, with what it needs for the step it starts with.  *)
LEMMA StartPreserves ==
  ASSUME IInv, NEW r \in Requests, NEW a \in Args, NEW next \in Steps \cup Ended,
         Start(r, a, next),
         UNCHANGED <<role, active, rows, born, told>>,
         next \in {"client", "module"} =>
           /\ a.op \in {"create", "update"}
           /\ a.client \in Users /\ a.module \in Modules
           /\ a.op # "create" => a.ticket \in born /\ a.to \in Statuses,
         next = "save" => a.op = "status" /\ a.ticket \in born /\ a.to \in Statuses,
         next = "delete" => a.ticket \in born,
         next \in {"switch", "count"} => a.module \in Modules,
         next = "switch" => a.to \in {"on", "off"},
         next \notin {"tech", "insert", "publish", "drop"}
  PROVE  IInv'
<1>1. TypeOK
  BY DEF IInv
<1>2. /\ pc' \in [Requests -> {"idle"} \cup Steps \cup Ended]
      /\ arg' \in [Requests -> Args \cup {None}] /\ late' \subseteq Requests
      /\ pc'[r] = next
      /\ next \in Steps => arg'[r] = a
      /\ \A q \in Requests \ {r} : pc'[q] = pc[q] /\ arg'[q] = arg[q]
  BY <1>1, StartFacts
<1>3. RequestOK(r)'
  <2>1. CASE next \in Ended
    BY <1>2, <2>1, EndedOK
  <2>2. CASE next \in Steps
    BY <1>2, <2>2 DEF RequestOK, Steps
  <2> QED
    BY <2>1, <2>2
<1> QED
  BY <1>2, <1>3, TablesStay

LEMMA ArrivalsPreserve ==
  ASSUME IInv, NEW r \in Requests, Arrive(r)
  PROVE  IInv'
<1> USE TicketsAssumption DEF Request, Args
<1>0. /\ born \subseteq Tickets /\ Stored \subseteq born
      /\ \A t \in Stored : rows[t].status \in Statuses
  BY DEF IInv, TypeOK, Stored, Rows
<1>1. ASSUME NEW c \in Users, NEW k \in Users \cup {None}, NEW m \in Modules,
             CreateStart(r, c, k, m)
      PROVE  IInv'
  <2> DEFINE a == Request("create", None, c, k, m, None, None)
             next == IF role[c] = "client" THEN "module" ELSE "denied"
  <2>1. /\ Start(r, a, next)
        /\ UNCHANGED <<role, active, rows, born, told>>
    BY <1>1 DEF CreateStart
  <2>2. /\ a \in Args /\ a.op = "create" /\ a.client \in Users /\ a.module \in Modules
        /\ next \in {"module", "denied"}
    OBVIOUS
  <2> QED
    BY <2>1, <2>2, StartPreserves DEF Steps, Ended
<1>2. ASSUME NEW c \in Users, NEW k \in Users \cup {None}, NEW m \in Modules,
             NEW t \in born, NEW s \in Statuses, UpdateStart(r, t, c, k, m, s)
      PROVE  IInv'
  <2>1. PICK w \in Statuses \cup {None}, next \in {"client", "denied"} :
          Start(r, Request("update", t, c, k, m, s, w), next)
    BY <1>0, <1>2 DEF UpdateStart
  <2>2. UNCHANGED <<role, active, rows, born, told>>
    BY <1>2 DEF UpdateStart
  <2> DEFINE a == Request("update", t, c, k, m, s, w)
  <2>3. /\ a \in Args /\ a.op = "update" /\ a.client \in Users /\ a.module \in Modules
        /\ a.ticket \in born /\ a.to \in Statuses
    BY <1>0
  <2> QED
    BY <2>1, <2>2, <2>3, StartPreserves DEF Steps, Ended
<1>3. ASSUME NEW t \in born, NEW s \in Statuses, StatusStart(r, t, s)
      PROVE  IInv'
  <2>1. PICK w \in Statuses \cup {None}, next \in {"save", "denied"} :
          Start(r, Request("status", t, None, None, None, s, w), next)
    BY <1>0, <1>3 DEF StatusStart
  <2>2. UNCHANGED <<role, active, rows, born, told>>
    BY <1>3 DEF StatusStart
  <2> DEFINE a == Request("status", t, None, None, None, s, w)
  <2>3. a \in Args /\ a.op = "status" /\ a.ticket \in born /\ a.to \in Statuses
    BY <1>0
  <2> QED
    BY <2>1, <2>2, <2>3, StartPreserves DEF Steps, Ended
<1>4. ASSUME NEW t \in born, NEW super \in BOOLEAN, RemoveStart(r, t, super)
      PROVE  IInv'
  <2> DEFINE a == Request("remove", t, None, None, None, None, None)
  <2>1. PICK next \in {"delete", "denied"} : Start(r, a, next)
    BY <1>4 DEF RemoveStart
  <2>2. UNCHANGED <<role, active, rows, born, told>>
    BY <1>4 DEF RemoveStart
  <2>3. a \in Args /\ a.ticket \in born
    BY <1>0
  <2> QED
    BY <2>1, <2>2, <2>3, StartPreserves DEF Steps, Ended
<1>5. ASSUME NEW m \in Modules, NEW v \in {"on", "off"}, NEW o \in {"toggle", "set"},
             NEW next \in {"switch", "denied"},
             Start(r, Request(o, None, None, None, m, v, None), next),
             UNCHANGED <<role, active, rows, born, told>>
      PROVE  IInv'
  <2> DEFINE a == Request(o, None, None, None, m, v, None)
  <2>1. a \in Args /\ a.module \in Modules /\ a.to \in {"on", "off"}
    OBVIOUS
  <2> QED
    BY <1>5, <2>1, StartPreserves DEF Steps, Ended
<1>6. ASSUME NEW m \in Modules, ToggleStart(r, m)
      PROVE  IInv'
  <2>1. Opposite(active[m]) \in {"on", "off"}
    BY DEF Opposite
  <2> QED
    BY <1>5, <1>6, <2>1 DEF ToggleStart
<1>7. ASSUME NEW m \in Modules, NEW v \in {"on", "off"}, SetStart(r, m, v)
      PROVE  IInv'
  BY <1>5, <1>7 DEF SetStart
<1>8. ASSUME NEW m \in Modules, DropStart(r, m)
      PROVE  IInv'
  <2> DEFINE a == Request("drop", None, None, None, m, None, None)
             next == IF active[m] # "gone" THEN "count" ELSE "denied"
  <2>1. Start(r, a, next) /\ UNCHANGED <<role, active, rows, born, told>>
    BY <1>8 DEF DropStart
  <2>2. a \in Args /\ a.module \in Modules /\ next \in {"count", "denied"}
    OBVIOUS
  <2> QED
    BY <2>1, <2>2, StartPreserves DEF Steps, Ended
<1> QED
  BY <1>1, <1>2, <1>3, <1>4, <1>6, <1>7, <1>8 DEF Arrive

(* The steps that only read.                                               *)
LEMMA ReadsPreserve ==
  ASSUME IInv, NEW r \in Requests,
         FindClient(r) \/ FindModule(r) \/ FindTechnician(r) \/ CountTickets(r)
  PROVE  IInv'
<1>1. TypeOK
  BY DEF IInv
<1>2. RequestOK(r)
  BY <1>1 DEF TypeOK
<1>3. ASSUME NEW from \in {"client", "module", "tech", "count"},
             NEW next \in {"module", "tech", "insert", "save", "drop", "denied"},
             Goto(r, from, next),
             UNCHANGED <<role, active, rows, born, told>>,
             next \in {"module", "tech", "insert", "save"} =>
               from \in {"client", "module", "tech"},
             next = "drop" => from = "count",
             next = "tech" => arg[r].tech # None,
             next = "insert" => arg[r].op = "create",
             next = "save" => arg[r].op # "create"
      PROVE  IInv'
  <2>1. /\ pc' \in [Requests -> {"idle"} \cup Steps \cup Ended]
        /\ arg' \in [Requests -> Args \cup {None}] /\ late' \subseteq Requests
        /\ pc[r] = from /\ pc'[r] = next /\ arg[r] \in Args
        /\ next \in Steps => arg'[r] = arg[r]
        /\ \A q \in Requests \ {r} : pc'[q] = pc[q] /\ arg'[q] = arg[q]
    <3>1. from \in Steps /\ next \in Steps \cup Ended
      BY DEF Steps, Ended
    <3> QED
      BY <1>1, <1>3, <3>1, GotoFacts
  <2>2. RequestOK(r)'
    <3>1. CASE next = "denied"
      BY <2>1, <3>1, EndedOK DEF Ended
    <3>2. CASE next # "denied"
      <4>1. arg'[r] = arg[r] /\ born' = born
        BY <1>3, <2>1, <3>2 DEF Steps
      <4>2. arg[r].tech \in Users \cup {None}
        BY <2>1 DEF Args
      <4> QED
        BY <1>2, <1>3, <2>1, <3>2, <4>1, <4>2 DEF RequestOK
    <3> QED
      BY <3>1, <3>2
  <2> QED
    BY <1>3, <2>1, <2>2, TablesStay
<1>4. CASE FindClient(r)
  BY <1>3, <1>4 DEF FindClient
<1>5. CASE FindModule(r)
  BY <1>3, <1>5 DEF FindModule, Chosen
<1>6. CASE FindTechnician(r)
  BY <1>3, <1>6 DEF FindTechnician
<1>7. CASE CountTickets(r)
  BY <1>3, <1>7 DEF CountTickets
<1> QED
  BY <1>4, <1>5, <1>6, <1>7

-----------------------------------------------------------------------------
(* The statements that write *)

(* A request that ends with its statement, and what that statement leaves. *)
LEMMA EndFacts ==
  ASSUME IInv, NEW r \in Requests, NEW from \in Steps, NEW next \in Ended,
         Goto(r, from, next), born \subseteq born'
  PROVE  /\ pc' \in [Requests -> {"idle"} \cup Steps \cup Ended]
         /\ arg' \in [Requests -> Args \cup {None}] /\ late' \subseteq Requests
         /\ \A q \in Requests : RequestOK(q)'
<1>1. TypeOK
  BY DEF IInv
<1>2. /\ pc' \in [Requests -> {"idle"} \cup Steps \cup Ended]
      /\ arg' \in [Requests -> Args \cup {None}] /\ late' \subseteq Requests
      /\ pc'[r] = next
      /\ \A q \in Requests \ {r} : pc'[q] = pc[q] /\ arg'[q] = arg[q]
  BY <1>1, GotoFacts
<1>3. RequestOK(r)'
  BY <1>2, EndedOK
<1> QED
  BY <1>1, <1>2, <1>3, OthersStay

(* A statement that throws.                                                *)
LEMMA ErrorPreserves ==
  ASSUME IInv, NEW r \in Requests, NEW from \in Steps, Goto(r, from, "error"),
         UNCHANGED <<role, active, rows, born, told>>
  PROVE  IInv'
<1>1. "error" \in Ended
  BY DEF Ended
<1>2. /\ pc' \in [Requests -> {"idle"} \cup Steps \cup Ended]
      /\ arg' \in [Requests -> Args \cup {None}] /\ late' \subseteq Requests
      /\ \A q \in Requests : RequestOK(q)'
  BY <1>1, EndFacts
<1>3. Stored' = Stored
  BY DEF Stored
<1>4. TypeOK'
  BY <1>2, <1>3 DEF IInv, TypeOK
<1>5. ReferencesExist'
  BY <1>3 DEF IInv, ReferencesExist, KeysHold
<1> QED
  BY <1>4, <1>5 DEF IInv

(* Rows whose references all exist may be stored or changed.               *)
LEMMA RowWritten ==
  ASSUME IInv, NEW t \in Tickets, NEW row \in Rows, KeysHold(row),
         rows' = [rows EXCEPT ![t] = row], UNCHANGED <<role, active>>
  PROVE  /\ rows' \in [Tickets -> Rows \cup {None}]
         /\ Stored' = Stored \cup {t}
         /\ ReferencesExist'
<1>1. rows \in [Tickets -> Rows \cup {None}]
  BY DEF IInv, TypeOK
<1>2. /\ rows' \in [Tickets -> Rows \cup {None}]
      /\ rows'[t] = row
      /\ \A x \in Tickets \ {t} : rows'[x] = rows[x]
  BY <1>1
<1>3. row # None
  BY TicketsAssumption
<1>4. Stored' = Stored \cup {t}
  BY <1>2, <1>3 DEF Stored
<1>5. ReferencesExist'
  BY <1>2, <1>4 DEF IInv, ReferencesExist, KeysHold, Stored
<1> QED
  BY <1>2, <1>4, <1>5

LEMMA InsertPreserves ==
  ASSUME IInv, NEW r \in Requests, Insert(r)
  PROVE  IInv'
<1>1. pc[r] = "insert" /\ "insert" \in Steps /\ UNCHANGED <<role, active>>
  BY DEF Insert, Steps
<1>2. /\ arg[r] \in Args /\ arg[r].client \in Users /\ arg[r].module \in Modules
      /\ arg[r].tech \in Users \cup {None}
  BY <1>1 DEF IInv, TypeOK, RequestOK, Args
<1>3. ASSUME NEW t \in Tickets \ born, NEW m \in {"ahead", "current"},
             KeysHold(arg[r]), Goto(r, "insert", "ok"),
             rows' = [rows EXCEPT ![t] =
               [client |-> arg[r].client, tech |-> arg[r].tech, module |-> arg[r].module,
                status |-> "aberto", month |-> m]],
             born' = born \cup {t}, told' = [told EXCEPT ![t] = "aberto"]
      PROVE  IInv'
  <2> DEFINE row == [client |-> arg[r].client, tech |-> arg[r].tech,
                     module |-> arg[r].module, status |-> "aberto", month |-> m]
  <2>1. row \in Rows /\ KeysHold(row)
    BY <1>2, <1>3, TicketsAssumption DEF Rows, KeysHold
  <2>2. /\ rows' \in [Tickets -> Rows \cup {None}]
        /\ Stored' = Stored \cup {t}
        /\ ReferencesExist'
    BY <1>1, <1>3, <2>1, RowWritten
  <2>3. /\ pc' \in [Requests -> {"idle"} \cup Steps \cup Ended]
        /\ arg' \in [Requests -> Args \cup {None}] /\ late' \subseteq Requests
        /\ \A q \in Requests : RequestOK(q)'
    BY <1>1, <1>3, EndFacts DEF Ended
  <2>4. told' \in [Tickets -> Statuses \cup {None}]
    BY <1>3, TicketsAssumption DEF IInv, TypeOK
  <2> QED
    BY <1>1, <1>3, <2>2, <2>3, <2>4 DEF IInv, TypeOK
<1>4. CASE ~KeysHold(arg[r])
  BY <1>1, <1>4, ErrorPreserves DEF Insert
<1> QED
  BY <1>3, <1>4 DEF Insert

LEMMA SavePreserves ==
  ASSUME IInv, NEW r \in Requests, Save(r)
  PROVE  IInv'
<1> DEFINE a == arg[r]
<1>1. /\ pc[r] = "save" /\ "save" \in Steps
      /\ UNCHANGED <<role, active, born, told>>
  BY DEF Save, Steps
<1>2. RequestOK(r) /\ TypeOK
  BY DEF IInv, TypeOK
<1>3. /\ a \in Args /\ a.op \in {"update", "status"} /\ a.ticket \in born
      /\ a.to \in Statuses /\ a.tech \in Users \cup {None}
      /\ a.op = "update" => a.client \in Users /\ a.module \in Modules
  BY <1>1, <1>2 DEF RequestOK, Args
<1>4. CASE /\ Writable(a) /\ rows' = [rows EXCEPT ![a.ticket] = Edited(a)]
           /\ Goto(r, "save", IF Due(a) THEN "publish" ELSE "ok")
  <2>1. a.ticket \in Stored /\ a.ticket \in Tickets /\ rows[a.ticket] \in Rows
    BY <1>4 DEF Writable, Stored, IInv, TypeOK
  <2>2. Edited(a) \in Rows /\ KeysHold(Edited(a))
    <3>1. CASE a.op = "status"
      <4>1. Edited(a) = [client |-> rows[a.ticket].client, tech |-> rows[a.ticket].tech,
                         module |-> rows[a.ticket].module, status |-> a.to,
                         month |-> rows[a.ticket].month]
        BY <2>1, <3>1 DEF Edited, Rows
      <4>2. KeysHold(rows[a.ticket])
        BY <2>1 DEF IInv, ReferencesExist
      <4> QED
        BY <1>3, <2>1, <4>1, <4>2 DEF Rows, KeysHold
    <3>2. CASE a.op = "update"
      BY <1>3, <1>4, <2>1, <3>2 DEF Edited, Rows, Writable, KeysHold
    <3> QED
      BY <1>3, <3>1, <3>2
  <2>3. /\ rows' \in [Tickets -> Rows \cup {None}]
        /\ Stored' = Stored
        /\ ReferencesExist'
    <3> DEFINE row == Edited(a)
    <3>1. row \in Rows /\ KeysHold(row) /\ rows' = [rows EXCEPT ![a.ticket] = row]
      BY <1>4, <2>2
    <3> HIDE DEF row
    <3>2. /\ rows' \in [Tickets -> Rows \cup {None}]
          /\ Stored' = Stored \cup {a.ticket}
          /\ ReferencesExist'
      BY <1>1, <2>1, <3>1, RowWritten
    <3> QED
      BY <2>1, <3>2
  <2>4. /\ pc' \in [Requests -> {"idle"} \cup Steps \cup Ended]
        /\ arg' \in [Requests -> Args \cup {None}] /\ late' \subseteq Requests
        /\ \A q \in Requests : RequestOK(q)'
    <3>1. CASE Due(a)
      <4>1. Goto(r, "save", "publish") /\ "publish" \in Steps
        BY <1>4, <3>1 DEF Steps
      <4>2. /\ pc' \in [Requests -> {"idle"} \cup Steps \cup Ended]
            /\ arg' \in [Requests -> Args \cup {None}] /\ late' \subseteq Requests
            /\ pc'[r] = "publish" /\ arg'[r] = a
            /\ \A q \in Requests \ {r} : pc'[q] = pc[q] /\ arg'[q] = arg[q]
        BY <1>1, <1>2, <4>1, GotoFacts
      <4>3. RequestOK(r)'
        BY <1>1, <1>3, <4>2 DEF RequestOK
      <4> QED
        BY <1>1, <1>2, <4>2, <4>3, OthersStay
    <3>2. CASE ~Due(a)
      BY <1>1, <1>4, <3>2, EndFacts DEF Ended
    <3> QED
      BY <3>1, <3>2
  <2> QED
    BY <1>1, <2>3, <2>4 DEF IInv, TypeOK
<1>5. CASE Goto(r, "save", "error") /\ UNCHANGED rows
  BY <1>1, <1>5, ErrorPreserves
<1> QED
  BY <1>4, <1>5 DEF Save

LEMMA PublishPreserves ==
  ASSUME IInv, NEW r \in Requests, Publish(r)
  PROVE  IInv'
<1>1. /\ Goto(r, "publish", "ok") /\ "publish" \in Steps /\ "ok" \in Ended
      /\ told' = [told EXCEPT ![arg[r].ticket] = arg[r].to]
      /\ UNCHANGED <<role, active, rows, born>>
  BY DEF Publish, Steps, Ended
<1>2. /\ pc' \in [Requests -> {"idle"} \cup Steps \cup Ended]
      /\ arg' \in [Requests -> Args \cup {None}] /\ late' \subseteq Requests
      /\ \A q \in Requests : RequestOK(q)'
  BY <1>1, EndFacts
<1>3. arg[r].to \in Statuses
  BY <1>1 DEF IInv, TypeOK, RequestOK, Goto
<1>4. told' \in [Tickets -> Statuses \cup {None}]
  BY <1>1, <1>3 DEF IInv, TypeOK
<1>5. Stored' = Stored
  BY <1>1 DEF Stored
<1>6. TypeOK'
  BY <1>1, <1>2, <1>4, <1>5 DEF IInv, TypeOK
<1>7. ReferencesExist'
  BY <1>1, <1>5 DEF IInv, ReferencesExist, KeysHold
<1> QED
  BY <1>6, <1>7 DEF IInv

LEMMA DeletePreserves ==
  ASSUME IInv, NEW r \in Requests, Delete(r)
  PROVE  IInv'
<1>1. "delete" \in Steps /\ "ok" \in Ended /\ UNCHANGED <<role, active, born, told>>
  BY DEF Delete, Steps, Ended
<1>2. CASE /\ Goto(r, "delete", "ok")
           /\ rows' = [rows EXCEPT ![arg[r].ticket] = None]
  <2>1. /\ pc' \in [Requests -> {"idle"} \cup Steps \cup Ended]
        /\ arg' \in [Requests -> Args \cup {None}] /\ late' \subseteq Requests
        /\ \A q \in Requests : RequestOK(q)'
    BY <1>1, <1>2, EndFacts
  <2>2. rows' \in [Tickets -> Rows \cup {None}]
    BY <1>2 DEF IInv, TypeOK
  <2>3. Stored' \subseteq Stored /\ \A t \in Stored' : rows'[t] = rows[t]
    BY <1>2, <2>2 DEF IInv, TypeOK, Stored
  <2>4. TypeOK'
    BY <1>1, <2>1, <2>2, <2>3 DEF IInv, TypeOK
  <2>5. ReferencesExist'
    BY <1>1, <2>3 DEF IInv, ReferencesExist, KeysHold
  <2> QED
    BY <2>4, <2>5 DEF IInv
<1>3. CASE Goto(r, "delete", "error") /\ UNCHANGED rows
  BY <1>1, <1>3, ErrorPreserves
<1> QED
  BY <1>2, <1>3 DEF Delete

(* A module that no ticket uses may go, and one that is there may switch.  *)
LEMMA ModuleWritten ==
  ASSUME IInv, NEW r \in Requests, NEW from \in Steps, Goto(r, from, "ok"),
         NEW m \in Modules, active[m] # "gone", NEW v \in {"on", "off", "gone"},
         v = "gone" => Uses(m) = {},
         active' = [active EXCEPT ![m] = v], UNCHANGED <<role, rows, born, told>>
  PROVE  IInv'
<1>1. /\ pc' \in [Requests -> {"idle"} \cup Steps \cup Ended]
      /\ arg' \in [Requests -> Args \cup {None}] /\ late' \subseteq Requests
      /\ \A q \in Requests : RequestOK(q)'
  BY EndFacts DEF Ended
<1>2. /\ active' \in [Modules -> {"on", "off", "gone"}]
      /\ active'[m] = v /\ \A n \in Modules \ {m} : active'[n] = active[n]
  BY DEF IInv, TypeOK
<1>3. Stored' = Stored
  BY DEF Stored
<1>4. TypeOK'
  BY <1>1, <1>2, <1>3 DEF IInv, TypeOK
<1>5. ReferencesExist'
  <2> SUFFICES ASSUME NEW t \in Stored PROVE KeysHold(rows[t])'
    BY <1>3 DEF ReferencesExist
  <2>1. KeysHold(rows[t]) /\ rows[t].module \in Modules
    BY DEF IInv, ReferencesExist, TypeOK, Stored, Rows
  <2>2. rows[t].module = m => v # "gone"
    BY DEF Uses
  <2> QED
    BY <1>2, <2>1, <2>2 DEF KeysHold
<1> QED
  BY <1>4, <1>5 DEF IInv

LEMMA SwitchPreserves ==
  ASSUME IInv, NEW r \in Requests, Switch(r) \/ Drop(r)
  PROVE  IInv'
<1>1. RequestOK(r)
  BY DEF IInv, TypeOK
<1>2. "switch" \in Steps /\ "drop" \in Steps
  BY DEF Steps
<1>3. CASE Switch(r)
  <2>1. arg[r].module \in Modules /\ arg[r].to \in {"on", "off"}
    BY <1>1, <1>3 DEF Switch, RequestOK
  <2>2. arg[r].to # "gone"
    BY <2>1
  <2> QED
    BY <1>2, <1>3, <2>1, <2>2, ModuleWritten, ErrorPreserves DEF Switch
<1>4. CASE Drop(r)
  <2>1. arg[r].module \in Modules
    BY <1>1, <1>4 DEF Drop, RequestOK
  <2> QED
    BY <1>2, <1>4, <2>1, ModuleWritten, ErrorPreserves DEF Drop, Droppable
<1> QED
  BY <1>3, <1>4

-----------------------------------------------------------------------------
(* The rest of the system *)

LEMMA RequestsStay ==
  ASSUME TypeOK, UNCHANGED <<born, pc, arg, late>>
  PROVE  /\ pc' \in [Requests -> {"idle"} \cup Steps \cup Ended]
         /\ arg' \in [Requests -> Args \cup {None}] /\ late' \subseteq Requests
         /\ \A q \in Requests : RequestOK(q)'
BY DEF TypeOK, RequestOK

LEMMA UsersPreserve ==
  ASSUME IInv, NEW u \in Users, ChangeRole(u) \/ RemoveUser(u)
  PROVE  IInv'
<1>1. /\ TypeOK /\ UNCHANGED <<active, rows, born, told, pc, arg, late>>
      /\ role \in [Users -> {"client", "technician", "gone"}]
  BY DEF IInv, TypeOK, ChangeRole, RemoveUser
<1>2. /\ role' \in [Users -> {"client", "technician", "gone"}]
      /\ \A x \in Users \ {u} : role'[x] = role[x]
      /\ role'[u] = "gone" => Serves(u) = {}
  BY <1>1 DEF ChangeRole, RemoveUser
<1>3. Stored' = Stored
  BY <1>1 DEF Stored
<1>4. TypeOK'
  BY <1>1, <1>2, <1>3, RequestsStay DEF TypeOK
<1>5. ReferencesExist'
  <2> SUFFICES ASSUME NEW t \in Stored PROVE KeysHold(rows[t])'
    BY <1>1, <1>3 DEF ReferencesExist
  <2>1. /\ KeysHold(rows[t]) /\ rows[t].client \in Users
        /\ rows[t].tech \in Users \cup {None}
    BY <1>1 DEF IInv, ReferencesExist, TypeOK, Stored, Rows
  <2>2. u \in {rows[t].client, rows[t].tech} => role'[u] # "gone"
    BY <1>2 DEF Serves
  <2> QED
    BY <1>1, <1>2, <2>1, <2>2 DEF KeysHold
<1> QED
  BY <1>4, <1>5 DEF IInv

LEMMA PassMonthPreserves ==
  ASSUME IInv, PassMonth
  PROVE  IInv'
<1>1. TypeOK /\ UNCHANGED <<role, active, born, told, pc, arg, late>>
  BY DEF IInv, PassMonth
<1>2. ASSUME NEW t \in Stored
      PROVE  /\ rows'[t] \in Rows /\ rows'[t] # None
             /\ rows'[t].client = rows[t].client /\ rows'[t].tech = rows[t].tech
             /\ rows'[t].module = rows[t].module
  <2>1. t \in Tickets /\ rows[t] \in Rows
    BY <1>1 DEF TypeOK, Stored
  <2>2. rows'[t] = [rows[t] EXCEPT !.month = Older[@]]
    BY <2>1 DEF PassMonth
  <2>3. Older[rows[t].month] \in {"current", "past"}
    BY <2>1 DEF Rows, Older
  <2>4. rows'[t] = [client |-> rows[t].client, tech |-> rows[t].tech,
                    module |-> rows[t].module, status |-> rows[t].status,
                    month |-> Older[rows[t].month]]
    BY <2>1, <2>2 DEF Rows
  <2>5. rows'[t] \in Rows
    BY <2>1, <2>3, <2>4 DEF Rows
  <2> QED
    BY <2>4, <2>5, TicketsAssumption
<1>3. /\ rows' \in [Tickets -> Rows \cup {None}]
      /\ Stored' = Stored
  BY <1>2 DEF PassMonth, Stored
<1>4. TypeOK'
  BY <1>1, <1>3, RequestsStay DEF TypeOK
<1>5. ReferencesExist'
  BY <1>1, <1>2, <1>3 DEF IInv, ReferencesExist, KeysHold
<1> QED
  BY <1>4, <1>5 DEF IInv

(* A process that stops writes nothing.                                    *)
LEMMA CrashPreserves ==
  ASSUME IInv, Crash
  PROVE  IInv'
<1>1. TypeOK /\ UNCHANGED <<role, active, rows, born, late>>
  BY DEF IInv, Crash
<1>2. /\ pc' \in [Requests -> {"idle"} \cup Steps \cup Ended]
      /\ \A r \in Requests : pc'[r] \notin Steps
  BY <1>1 DEF TypeOK, Crash, Steps, Ended
<1>3. /\ arg' \in [Requests -> Args \cup {None}]
      /\ told' \in [Tickets -> Statuses \cup {None}]
  BY <1>1 DEF TypeOK, Crash
<1>4. \A r \in Requests : RequestOK(r)'
  BY <1>2 DEF RequestOK, Steps
<1>5. Stored' = Stored
  BY <1>1 DEF Stored
<1>6. TypeOK'
  BY <1>1, <1>2, <1>3, <1>4, <1>5 DEF TypeOK
<1>7. ReferencesExist'
  BY <1>1, <1>5 DEF IInv, ReferencesExist, KeysHold
<1> QED
  BY <1>6, <1>7 DEF IInv

LEMMA NextPreserves == IInv /\ [Next]_vars => IInv'
<1> SUFFICES ASSUME IInv, [Next]_vars PROVE IInv'
  OBVIOUS
<1>1. CASE UNCHANGED vars
  <2>1. Stored' = Stored
    BY <1>1 DEF vars, Stored
  <2>2. TypeOK'
    BY <1>1, <2>1, RequestsStay DEF vars, IInv, TypeOK
  <2>3. ReferencesExist'
    BY <1>1, <2>1 DEF vars, IInv, ReferencesExist, KeysHold
  <2> QED
    BY <2>2, <2>3 DEF IInv
<1>2. ASSUME NEW r \in Requests, Arrive(r) PROVE IInv'
  BY <1>2, ArrivalsPreserve
<1>3. ASSUME NEW r \in Requests, Continue(r) PROVE IInv'
  BY <1>3, ReadsPreserve, InsertPreserves, SavePreserves, PublishPreserves,
     DeletePreserves, SwitchPreserves DEF Continue
<1>4. ASSUME NEW u \in Users, ChangeRole(u) \/ RemoveUser(u) PROVE IInv'
  BY <1>4, UsersPreserve
<1>5. CASE PassMonth
  BY <1>5, PassMonthPreserves
<1>6. CASE Crash
  BY <1>6, CrashPreserves
<1> QED
  BY <1>1, <1>2, <1>3, <1>4, <1>5, <1>6 DEF Next

(* TypeOK and ReferencesExist together are inductive.                      *)
THEOREM Inductive == Spec => []IInv
<1>1. IInv /\ [Next]_vars => IInv'
  BY NextPreserves
<1> QED
  BY InitEstablishes, <1>1, PTL DEF Spec

(* Whatever races with what, the tables and the requests keep their types. *)
THEOREM TypeCorrect == Spec => []TypeOK
<1>1. IInv => TypeOK
  BY DEF IInv
<1> QED
  BY <1>1, Inductive, PTL

(* Whatever the counts before a deletion miss, no ticket is ever without   *)
(* its client, its technician or its module.                               *)
THEOREM ReferencesKept == Spec => []ReferencesExist
<1>1. IInv => ReferencesExist
  BY DEF IInv
<1> QED
  BY <1>1, Inductive, PTL

-----------------------------------------------------------------------------
(* Requests about one ticket or one module that do not overlap.  What is   *)
(* said of such requests is proved up to the first overlap.                *)

Apart ==
  \A r, q \in Requests :
    (r # q /\ pc[r] \in Steps /\ pc[q] \in Steps) => Names(arg[r]) \cap Names(arg[q]) = {}

(* What a request read about its module or its ticket still holds; a       *)
(* request about a module alone, or a new ticket, names no ticket.         *)
StillTrue(r) ==
  LET a == arg[r]
      t == arg[r].ticket
  IN /\ (pc[r] \in {"tech", "insert"} /\ a.op = "create") => active[a.module] = "on"
     /\ (pc[r] \in {"client", "module", "tech", "save"} /\ a.op # "create") =>
          t \in Stored /\ rows[t].status = a.was /\ told[t] \in {a.was, None}
     /\ pc[r] = "delete" => t \in Stored /\ told[t] \in {rows[t].status, None}
     /\ pc[r] = "publish" =>
          /\ t \in Stored /\ rows[t].status = a.to
          /\ told[t] \in {a.was, None} /\ a.was # a.to
     /\ (pc[r] \in {"client", "module", "tech", "insert"} /\ a.op = "create") => t = None
     /\ pc[r] \in {"switch", "count", "drop"} => t = None

SInv ==
  IInv /\ Apart /\ (\A r \in Requests : StillTrue(r)) /\ NoticesCurrent

LEMMA InitSerial == Init => SInv
<1> SUFFICES ASSUME Init PROVE SInv
  OBVIOUS
<1>1. IInv
  BY InitEstablishes
<1>2. Stored = {}
  BY DEF Init, Stored
<1> QED
  BY <1>1, <1>2 DEF SInv, Init, Apart, StillTrue, NoticesCurrent, Steps

(* A request that starts overlaps with none about its ticket or module.    *)
LEMMA ApartAtStart ==
  ASSUME SInv, late' = {}, NEW r \in Requests, NEW a \in Args, NEW next \in Steps \cup Ended,
         Start(r, a, next)
  PROVE  Apart'
<1>1. /\ pc'[r] = next
      /\ next \in Steps => arg'[r] = a
      /\ \A q \in Requests \ {r} : pc'[q] = pc[q] /\ arg'[q] = arg[q]
  BY StartFacts DEF SInv, IInv
<1>2. \A q \in Requests : pc[q] \in Steps => Names(arg[q]) \cap Names(a) = {}
  BY StartFacts DEF SInv, IInv, Shared
<1> SUFFICES ASSUME NEW p \in Requests, NEW q \in Requests, p # q,
                    pc'[p] \in Steps, pc'[q] \in Steps
             PROVE  Names(arg'[p]) \cap Names(arg'[q]) = {}
  BY DEF Apart, Names
<1>3. CASE p # r /\ q # r
  BY <1>1, <1>3 DEF SInv, Apart
<1>4. CASE p = r
  BY <1>1, <1>2, <1>4
<1>5. CASE q = r
  BY <1>1, <1>2, <1>5
<1> QED
  BY <1>3, <1>4, <1>5

LEMMA ApartInBetween ==
  ASSUME SInv, NEW r \in Requests, NEW from \in Steps, NEW next \in Steps \cup Ended,
         Goto(r, from, next)
  PROVE  Apart'
<1>1. \A q \in Requests : pc'[q] \in Steps => pc[q] \in Steps /\ arg'[q] = arg[q]
  BY GotoFacts DEF SInv, IInv
<1> QED
  BY <1>1 DEF SInv, Apart, Names

(* What a request read is disturbed by no other request: it writes its own *)
(* module, its own ticket, or a ticket nobody has heard of.                *)
LEMMA OthersStillTrue ==
  ASSUME SInv, NEW r \in Requests, pc[r] \in Steps,
         \A q \in Requests \ {r} : pc'[q] = pc[q] /\ arg'[q] = arg[q],
         \A m \in Modules \ {arg[r].module} : active'[m] = active[m],
         \A t \in born \ {arg[r].ticket} :
           /\ told'[t] = told[t]
           /\ t \in Stored => t \in Stored' /\ rows'[t].status = rows[t].status
  PROVE  \A q \in Requests \ {r} : StillTrue(q)'
<1> SUFFICES ASSUME NEW q \in Requests \ {r} PROVE StillTrue(q)'
  OBVIOUS
<1>1. StillTrue(q) /\ RequestOK(q) /\ pc'[q] = pc[q] /\ arg'[q] = arg[q]
  BY DEF SInv, IInv, TypeOK
<1>2. ASSUME pc[q] \in Steps, arg[q].module \in Modules
      PROVE  active'[arg[q].module] = active[arg[q].module]
  <2>1. arg[q].module # None
    BY <1>2, TicketsAssumption
  <2>2. arg[q].module # arg[r].module
    BY <1>2, <2>1 DEF SInv, Apart, Names
  <2> QED
    BY <1>2, <2>2
<1>3. ASSUME pc[q] \in Steps, arg[q].ticket \in born
      PROVE  /\ told'[arg[q].ticket] = told[arg[q].ticket]
             /\ arg[q].ticket \in Stored =>
                  /\ arg[q].ticket \in Stored'
                  /\ rows'[arg[q].ticket].status = rows[arg[q].ticket].status
  <2>1. arg[q].ticket # None
    BY <1>3, TicketsAssumption DEF SInv, IInv, TypeOK
  <2>2. arg[q].ticket # arg[r].ticket
    BY <1>3, <2>1 DEF SInv, Apart, Names
  <2> QED
    BY <1>3, <2>2
<1> QED
  BY <1>1, <1>2, <1>3 DEF StillTrue, RequestOK, Steps

(* A request whose reading or whose refusal leaves the tables as they are. *)
LEMMA KnownInBetween ==
  ASSUME SInv, NEW r \in Requests, NEW from \in Steps, NEW next \in Steps \cup Ended,
         Goto(r, from, next), UNCHANGED <<role, active, rows, born, told>>,
         from \notin {"publish", "delete"} \/ arg[r].ticket \notin Stored
  PROVE  NoticesCurrent'
<1>1. /\ pc[r] = from
      /\ \A q \in Requests \ {r} : pc'[q] = pc[q] /\ arg'[q] = arg[q]
      /\ next \in Steps => pc'[r] \in Steps /\ arg'[r] = arg[r]
  BY GotoFacts DEF SInv, IInv
<1>2. Stored' = Stored
  BY DEF Stored
<1> SUFFICES ASSUME NEW t \in Stored,
                    \A q \in Requests : pc'[q] \in Steps => arg'[q].ticket # t
             PROVE  told[t] \in {rows[t].status, None}
  BY <1>2 DEF NoticesCurrent
<1>3. CASE arg[r].ticket # t
  BY <1>1, <1>3 DEF SInv, NoticesCurrent
<1>4. CASE arg[r].ticket = t
  <2>1. t # None
    BY TicketsAssumption DEF Stored
  <2>2. StillTrue(r) /\ RequestOK(r)
    BY DEF SInv, IInv, TypeOK
  <2>3. from \in {"client", "module", "tech", "save"} /\ arg[r].op # "create"
    BY <1>1, <1>4, <2>1, <2>2 DEF StillTrue, RequestOK, Steps
  <2> QED
    BY <1>1, <1>4, <2>2, <2>3 DEF StillTrue
<1> QED
  BY <1>3, <1>4

LEMMA QuietStillTrue ==
  ASSUME SInv, NEW q \in Requests, pc'[q] = pc[q], arg'[q] = arg[q],
         UNCHANGED <<active, rows, told>>
  PROVE  StillTrue(q)'
<1>1. StillTrue(q) /\ Stored' = Stored
  BY DEF SInv, Stored
<1> QED
  BY <1>1 DEF StillTrue

LEMMA StartStillTrue ==
  ASSUME SInv, late' = {}, NEW r \in Requests, NEW a \in Args, NEW next \in Steps \cup Ended,
         Start(r, a, next),
         UNCHANGED <<role, active, rows, born, told>>,
         IInv',
         next \in {"client", "module", "save"} =>
           \/ a.op = "create" /\ a.ticket = None
           \/ /\ a.op # "create" /\ a.ticket \in Stored /\ rows[a.ticket].status = a.was
              /\ \A q \in Requests : pc[q] \in Steps => arg[q].ticket # a.ticket,
         next = "delete" =>
           /\ a.op # "create" /\ a.ticket \in Stored
           /\ \A q \in Requests : pc[q] \in Steps => arg[q].ticket # a.ticket,
         next \in {"switch", "count"} => a.ticket = None,
         next \notin {"tech", "insert", "publish", "drop"}
  PROVE  SInv'
<1>1. /\ pc[r] = "idle" /\ pc'[r] = next
      /\ next \in Steps => arg'[r] = a
      /\ \A q \in Requests \ {r} : pc'[q] = pc[q] /\ arg'[q] = arg[q]
  BY StartFacts DEF SInv, IInv
<1>2. Stored' = Stored
  BY DEF Stored
<1>3. StillTrue(r)'
  <2>1. CASE next \in Ended
    BY <1>1, <2>1 DEF StillTrue, Ended
  <2>2. CASE next \in Steps
    <3>1. next \in {"client", "module", "save", "delete"} /\ a.op # "create" =>
            told[a.ticket] \in {rows[a.ticket].status, None}
      BY DEF SInv, NoticesCurrent
    <3> QED
      BY <1>1, <1>2, <2>2, <3>1 DEF StillTrue, Steps
  <2> QED
    BY <2>1, <2>2
<1>4. \A q \in Requests : StillTrue(q)'
  BY <1>1, <1>3, QuietStillTrue
<1>5. NoticesCurrent'
  <2> SUFFICES ASSUME NEW t \in Stored,
                      \A q \in Requests : pc'[q] \in Steps => arg'[q].ticket # t
               PROVE  told[t] \in {rows[t].status, None}
    BY <1>2 DEF NoticesCurrent
  <2>1. \A q \in Requests : pc[q] \in Steps => arg[q].ticket # t
    BY <1>1 DEF Steps
  <2> QED
    BY <2>1 DEF SInv, NoticesCurrent
<1>6. Apart'
  BY ApartAtStart
<1> QED
  BY <1>4, <1>5, <1>6 DEF SInv

LEMMA ArrivalsStillTrue ==
  ASSUME SInv, late' = {}, NEW r \in Requests, Arrive(r)
  PROVE  SInv'
<1> USE TicketsAssumption DEF Request, Args
<1>0. /\ IInv' /\ born \subseteq Tickets /\ Stored \subseteq born
      /\ \A t \in Stored : rows[t].status \in Statuses /\ t \in Tickets
  BY ArrivalsPreserve DEF SInv, IInv, TypeOK, Stored, Rows
<1>a. ASSUME NEW a, NEW next, Start(r, a, next), a.ticket \in Tickets
      PROVE  \A q \in Requests : pc[q] \in Steps => arg[q].ticket # a.ticket
  <2>1. a.ticket # None
    BY <1>a
  <2> QED
    BY <1>a, <2>1 DEF Start, Shared, Names
<1>1. ASSUME NEW c \in Users, NEW k \in Users \cup {None}, NEW m \in Modules,
             CreateStart(r, c, k, m)
      PROVE  SInv'
  <2> DEFINE a == Request("create", None, c, k, m, None, None)
             next == IF role[c] = "client" THEN "module" ELSE "denied"
  <2>1. /\ Start(r, a, next)
        /\ UNCHANGED <<role, active, rows, born, told>>
    BY <1>1 DEF CreateStart
  <2>2. /\ a \in Args /\ a.op = "create" /\ a.ticket = None
        /\ next \in {"module", "denied"}
    OBVIOUS
  <2> QED
    BY <1>0, <2>1, <2>2, StartStillTrue DEF Steps, Ended
<1>2. ASSUME NEW t \in born, NEW a \in Args, NEW next \in {"client", "save", "denied"},
             a.op # "create", a.ticket = t, Start(r, a, next),
             next # "denied" => t \in Stored /\ a.was = rows[t].status,
             UNCHANGED <<role, active, rows, born, told>>
      PROVE  SInv'
  <2>1. \A q \in Requests : pc[q] \in Steps => arg[q].ticket # a.ticket
    BY <1>0, <1>2, <1>a
  <2> QED
    BY <1>0, <1>2, <2>1, StartStillTrue DEF Steps, Ended
<1>3. ASSUME NEW c \in Users, NEW k \in Users \cup {None}, NEW m \in Modules,
             NEW t \in born, NEW s \in Statuses, UpdateStart(r, t, c, k, m, s)
      PROVE  SInv'
  <2>1. CASE t \in Stored /\ Start(r, Request("update", t, c, k, m, s, rows[t].status), "client")
    <3> DEFINE a == Request("update", t, c, k, m, s, rows[t].status)
    <3>1. a \in Args /\ a.op = "update" /\ a.ticket = t /\ a.was = rows[t].status
      BY <1>0, <2>1
    <3> QED
      BY <1>2, <1>3, <2>1, <3>1 DEF UpdateStart
  <2>2. CASE Start(r, Request("update", t, c, k, m, s, None), "denied")
    <3> DEFINE a == Request("update", t, c, k, m, s, None)
    <3>1. a \in Args /\ a.op = "update" /\ a.ticket = t
      BY <1>0
    <3> QED
      BY <1>2, <1>3, <2>2, <3>1 DEF UpdateStart
  <2> QED
    BY <1>3, <2>1, <2>2 DEF UpdateStart
<1>4. ASSUME NEW t \in born, NEW s \in Statuses, StatusStart(r, t, s)
      PROVE  SInv'
  <2>1. CASE t \in Stored /\ Start(r, Request("status", t, None, None, None, s, rows[t].status), "save")
    <3> DEFINE a == Request("status", t, None, None, None, s, rows[t].status)
    <3>1. a \in Args /\ a.op = "status" /\ a.ticket = t /\ a.was = rows[t].status
      BY <1>0, <2>1
    <3> QED
      BY <1>2, <1>4, <2>1, <3>1 DEF StatusStart
  <2>2. CASE Start(r, Request("status", t, None, None, None, s, None), "denied")
    <3> DEFINE a == Request("status", t, None, None, None, s, None)
    <3>1. a \in Args /\ a.op = "status" /\ a.ticket = t
      BY <1>0
    <3> QED
      BY <1>2, <1>4, <2>2, <3>1 DEF StatusStart
  <2> QED
    BY <1>4, <2>1, <2>2 DEF StatusStart
<1>5. ASSUME NEW t \in born, NEW super \in BOOLEAN, RemoveStart(r, t, super)
      PROVE  SInv'
  <2> DEFINE a == Request("remove", t, None, None, None, None, None)
  <2>1. PICK next \in {"delete", "denied"} :
          Start(r, a, next) /\ (next = "delete" => t \in Stored)
    BY <1>5 DEF RemoveStart
  <2>2. UNCHANGED <<role, active, rows, born, told>>
    BY <1>5 DEF RemoveStart
  <2>3. a \in Args /\ a.op = "remove" /\ a.ticket = t
    BY <1>0
  <2>4. \A q \in Requests : pc[q] \in Steps => arg[q].ticket # a.ticket
    BY <1>0, <2>1, <2>3, <1>a
  <2> QED
    BY <1>0, <2>1, <2>2, <2>3, <2>4, StartStillTrue DEF Steps, Ended
<1>6. ASSUME NEW m \in Modules, ToggleStart(r, m)
      PROVE  SInv'
  <2> DEFINE a == Request("toggle", None, None, None, m, Opposite(active[m]), None)
             next == IF active[m] # "gone" THEN "switch" ELSE "denied"
  <2>1. Start(r, a, next) /\ UNCHANGED <<role, active, rows, born, told>>
    BY <1>6 DEF ToggleStart
  <2>2. Opposite(active[m]) \in {"on", "off"}
    BY DEF Opposite
  <2>3. a \in Args /\ a.ticket = None /\ a.op = "toggle" /\ next \in {"switch", "denied"}
    BY <2>2
  <2> QED
    BY <1>0, <2>1, <2>3, StartStillTrue DEF Steps, Ended
<1>7. ASSUME NEW m \in Modules, NEW v \in {"on", "off"}, SetStart(r, m, v)
      PROVE  SInv'
  <2> DEFINE a == Request("set", None, None, None, m, v, None)
             next == IF active[m] # "gone" THEN "switch" ELSE "denied"
  <2>1. Start(r, a, next) /\ UNCHANGED <<role, active, rows, born, told>>
    BY <1>7 DEF SetStart
  <2>2. a \in Args /\ a.ticket = None /\ a.op = "set" /\ next \in {"switch", "denied"}
    OBVIOUS
  <2> QED
    BY <1>0, <2>1, <2>2, StartStillTrue DEF Steps, Ended
<1>8. ASSUME NEW m \in Modules, DropStart(r, m)
      PROVE  SInv'
  <2> DEFINE a == Request("drop", None, None, None, m, None, None)
             next == IF active[m] # "gone" THEN "count" ELSE "denied"
  <2>1. Start(r, a, next) /\ UNCHANGED <<role, active, rows, born, told>>
    BY <1>8 DEF DropStart
  <2>2. a \in Args /\ a.ticket = None /\ next \in {"count", "denied"}
    OBVIOUS
  <2> QED
    BY <1>0, <2>1, <2>2, StartStillTrue DEF Steps, Ended
<1> QED
  BY <1>1, <1>3, <1>4, <1>5, <1>6, <1>7, <1>8 DEF Arrive

(* A statement that only reads: the module it found active is named.       *)
LEMMA ReadsStillTrue ==
  ASSUME SInv, NEW r \in Requests,
         FindClient(r) \/ FindModule(r) \/ FindTechnician(r) \/ CountTickets(r)
  PROVE  SInv'
<1> DEFINE a == arg[r]
<1>0. /\ IInv' /\ StillTrue(r) /\ RequestOK(r)
      /\ UNCHANGED <<role, active, rows, born, told>>
  BY ReadsPreserve DEF SInv, IInv, TypeOK, FindClient, FindModule, FindTechnician, CountTickets
<1>1. ASSUME NEW from \in {"client", "module", "tech", "count"},
             NEW next \in Steps \cup Ended, Goto(r, from, next),
             next \in {"client", "module", "tech", "save"} => from # "count",
             next \in {"tech", "insert"} /\ a.op = "create" => active[a.module] = "on",
             next = "insert" => a.op = "create",
             next = "save" => a.op # "create",
             next \in {"module", "tech", "insert", "save", "drop"} \cup Ended,
             next = "drop" <=> from = "count" /\ next \notin Ended
      PROVE  SInv'
  <2>1. /\ pc[r] = from /\ pc'[r] = next
        /\ next \in Steps => arg'[r] = a
        /\ \A q \in Requests \ {r} : pc'[q] = pc[q] /\ arg'[q] = arg[q]
    <3>1. TypeOK
      BY DEF SInv, IInv
    <3>2. from \in Steps
      BY DEF Steps
    <3> HIDE DEF a
    <3>3. /\ pc[r] = from /\ pc'[r] = next
          /\ next \in Steps => arg'[r] = arg[r]
          /\ \A q \in Requests \ {r} : pc'[q] = pc[q] /\ arg'[q] = arg[q]
      BY <1>1, <3>1, <3>2, GotoFacts
    <3> QED
      BY <3>3 DEF a
  <2>2. Stored' = Stored
    BY <1>0 DEF Stored
  <2>3. StillTrue(r)'
    BY <1>0, <1>1, <2>1, <2>2 DEF StillTrue, Steps, Ended
  <2>4. \A q \in Requests : StillTrue(q)'
    BY <1>0, <2>1, <2>3, QuietStillTrue
  <2>5. Apart'
    BY <1>1, ApartInBetween DEF Steps
  <2>6. NoticesCurrent'
    BY <1>0, <1>1, KnownInBetween DEF Steps
  <2> QED
    BY <1>0, <2>4, <2>5, <2>6 DEF SInv
<1>2. CASE FindClient(r)
  BY <1>1, <1>2 DEF FindClient, Steps, Ended
<1>3. CASE FindModule(r)
  <2>1. PICK next \in {"denied", "tech", "insert", "save"} :
          /\ Goto(r, "module", next)
          /\ next # "denied" => active[a.module] \in Accepted(a.op)
          /\ next = "insert" => a.op = "create"
          /\ next = "save" => a.op # "create"
    BY <1>3 DEF FindModule
  <2>2. next # "denied" /\ a.op = "create" => active[a.module] = "on"
    BY <2>1 DEF Accepted
  <2> QED
    BY <1>1, <2>1, <2>2 DEF Steps, Ended
<1>4. CASE FindTechnician(r)
  <2>1. PICK next \in {"denied", "insert", "save"} :
          /\ Goto(r, "tech", next)
          /\ next = "insert" => a.op = "create"
          /\ next = "save" => a.op # "create"
    BY <1>4 DEF FindTechnician
  <2>2. pc[r] = "tech" /\ (a.op = "create" => active[a.module] = "on")
    BY <1>0, <2>1 DEF Goto, StillTrue
  <2> QED
    BY <1>1, <2>1, <2>2 DEF Steps, Ended
<1>5. CASE CountTickets(r)
  BY <1>1, <1>5 DEF CountTickets, Steps, Ended
<1> QED
  BY <1>2, <1>3, <1>4, <1>5

(* A request that ends leaves its own ticket told and the others alone.    *)
LEMMA EndStillTrue ==
  ASSUME SInv, NEW r \in Requests, NEW from \in Steps, NEW next \in Ended,
         Goto(r, from, next), IInv',
         \A m \in Modules \ {arg[r].module} : active'[m] = active[m],
         \A t \in born \ {arg[r].ticket} :
           /\ told'[t] = told[t]
           /\ t \in Stored => t \in Stored' /\ rows'[t].status = rows[t].status,
         \A t \in Stored' :
           (t \notin born \/ t = arg[r].ticket \/ t \notin Stored) =>
             told'[t] \in {rows'[t].status, None}
  PROVE  SInv'
<1>1. /\ pc[r] = from /\ pc'[r] = next
      /\ \A q \in Requests \ {r} : pc'[q] = pc[q] /\ arg'[q] = arg[q]
  BY GotoFacts DEF SInv, IInv
<1>2. StillTrue(r)'
  BY <1>1 DEF StillTrue, Ended
<1>3. \A q \in Requests : StillTrue(q)'
  BY <1>1, <1>2, OthersStillTrue
<1>4. NoticesCurrent'
  <2> SUFFICES ASSUME NEW t \in Stored',
                      \A q \in Requests : pc'[q] \in Steps => arg'[q].ticket # t
               PROVE  told'[t] \in {rows'[t].status, None}
    BY DEF NoticesCurrent
  <2>1. CASE t \notin born \/ t = arg[r].ticket \/ t \notin Stored
    BY <2>1
  <2>2. CASE t \in born /\ t # arg[r].ticket /\ t \in Stored
    <3>1. \A q \in Requests : pc[q] \in Steps => arg[q].ticket # t
      BY <1>1, <2>2
    <3>2. told[t] \in {rows[t].status, None}
      BY <2>2, <3>1 DEF SInv, NoticesCurrent
    <3> QED
      BY <2>2, <3>2
  <2> QED
    BY <2>1, <2>2
<1>5. Apart'
  BY ApartInBetween DEF Steps
<1> QED
  BY <1>3, <1>4, <1>5 DEF SInv

(* A statement that throws writes nothing.                                 *)
LEMMA ErrorStillTrue ==
  ASSUME SInv, NEW r \in Requests, NEW from \in Steps, Goto(r, from, "error"),
         UNCHANGED <<role, active, rows, born, told>>,
         from \notin {"publish", "delete"} \/ arg[r].ticket \notin Stored
  PROVE  SInv'
<1>1. "error" \in Ended /\ IInv'
  BY ErrorPreserves DEF Ended, SInv
<1>2. /\ pc'[r] = "error"
      /\ \A q \in Requests \ {r} : pc'[q] = pc[q] /\ arg'[q] = arg[q]
  BY <1>1, GotoFacts DEF SInv, IInv
<1>3. \A q \in Requests : StillTrue(q)'
  <2>1. StillTrue(r)'
    BY <1>2 DEF StillTrue
  <2> QED
    BY <1>2, <2>1, QuietStillTrue
<1>4. Apart'
  BY <1>1, ApartInBetween
<1>5. NoticesCurrent'
  BY <1>1, KnownInBetween
<1> QED
  BY <1>1, <1>3, <1>4, <1>5 DEF SInv

LEMMA InsertStillTrue ==
  ASSUME SInv, NEW r \in Requests, Insert(r)
  PROVE  SInv'
<1>1. /\ pc[r] = "insert" /\ "insert" \in Steps /\ "ok" \in Ended
      /\ UNCHANGED <<role, active>>
      /\ IInv' /\ StillTrue(r) /\ RequestOK(r)
  BY InsertPreserves DEF Insert, Steps, Ended, SInv, IInv, TypeOK
<1>2. arg[r].ticket = None
  BY <1>1 DEF StillTrue, RequestOK
<1>3. ASSUME NEW t \in Tickets \ born, NEW m \in {"ahead", "current"},
             Goto(r, "insert", "ok"),
             rows' = [rows EXCEPT ![t] =
               [client |-> arg[r].client, tech |-> arg[r].tech, module |-> arg[r].module,
                status |-> "aberto", month |-> m]],
             told' = [told EXCEPT ![t] = "aberto"]
      PROVE  SInv'
  <2>1. /\ rows \in [Tickets -> Rows \cup {None}] /\ told \in [Tickets -> Statuses \cup {None}]
        /\ Stored \subseteq born /\ born \subseteq Tickets
    BY DEF SInv, IInv, TypeOK
  <2>2. /\ rows'[t].status = "aberto" /\ told'[t] = "aberto"
        /\ \A x \in Tickets \ {t} : rows'[x] = rows[x] /\ told'[x] = told[x]
    BY <1>3, <2>1
  <2>3. \A x \in Stored' : x = t \/ x \in Stored
    BY <2>2 DEF Stored
  <2>4. \A x \in Stored : x \in Stored'
    BY <1>3, <2>1, <2>2 DEF Stored
  <2>5. None \notin Stored'
    BY TicketsAssumption DEF Stored
  <2> QED
    BY <1>1, <1>2, <1>3, <2>1, <2>2, <2>3, <2>4, <2>5, EndStillTrue
<1>4. CASE Goto(r, "insert", "error") /\ UNCHANGED <<rows, born, told>>
  BY <1>1, <1>4, ErrorStillTrue
<1> QED
  BY <1>1, <1>3, <1>4 DEF Insert

(* A status that is written over is the one that was read and last told.   *)
LEMMA SaveStillTrue ==
  ASSUME SInv, NEW r \in Requests, Save(r)
  PROVE  SInv'
<1> DEFINE a == arg[r]
<1>1. /\ pc[r] = "save" /\ "save" \in Steps
      /\ UNCHANGED <<role, active, born, told>>
      /\ IInv' /\ StillTrue(r) /\ RequestOK(r)
  BY SavePreserves DEF Save, Steps, SInv, IInv, TypeOK
<1>2. /\ a.op # "create" /\ a.ticket \in Stored
      /\ rows[a.ticket].status = a.was /\ told[a.ticket] \in {a.was, None}
  BY <1>1 DEF StillTrue, RequestOK
<1>3. CASE /\ rows' = [rows EXCEPT ![a.ticket] = Edited(a)]
           /\ Goto(r, "save", IF Due(a) THEN "publish" ELSE "ok")
  <2>1. rows \in [Tickets -> Rows \cup {None}] /\ rows[a.ticket] \in Rows /\ a.ticket \in Tickets
    BY <1>2 DEF SInv, IInv, TypeOK, Stored
  <2>2. Edited(a).status = a.to
    <3>1. CASE a.op = "status"
      <4>1. [rows[a.ticket] EXCEPT !.status = a.to].status = a.to
        BY <2>1 DEF Rows
      <4> QED
        BY <3>1, <4>1 DEF Edited
    <3>2. CASE a.op # "status"
      BY <3>2 DEF Edited
    <3> QED
      BY <3>1, <3>2
  <2>3. /\ rows'[a.ticket] = Edited(a)
        /\ \A x \in Tickets \ {a.ticket} : rows'[x] = rows[x]
    BY <1>3, <2>1
  <2>4. rows'[a.ticket].status = a.to /\ a.ticket \in Tickets
    BY <2>1, <2>2, <2>3
  <2>5. a.ticket \in Stored'
    <3>1. Edited(a) # None
      <4>1. CASE a.op = "status"
        <5>1. [rows[a.ticket] EXCEPT !.status = a.to] \in Rows
          BY <1>1, <1>2, <2>1 DEF RequestOK, Rows
        <5> QED
          BY <4>1, <5>1, TicketsAssumption DEF Edited
      <4>2. CASE a.op # "status"
        <5>1. Edited(a) = [client |-> a.client, tech |-> a.tech, module |-> a.module,
                           status |-> a.to, month |-> rows[a.ticket].month]
          BY <4>2 DEF Edited
        <5>2. Edited(a) \in Rows
          BY <1>1, <1>2, <2>1, <4>2, <5>1 DEF RequestOK, Rows, Args, Steps
        <5> QED
          BY <5>2, TicketsAssumption
      <4> QED
        BY <4>1, <4>2
    <3> QED
      BY <2>1, <2>3, <3>1 DEF Stored
  <2>6. Stored' = Stored
    BY <1>2, <2>3, <2>5 DEF Stored
  <2>7. CASE Due(a)
    <3>1. Goto(r, "save", "publish") /\ "publish" \in Steps
      BY <1>3, <2>7 DEF Steps
    <3>2. /\ pc'[r] = "publish" /\ arg'[r] = a
          /\ \A q \in Requests \ {r} : pc'[q] = pc[q] /\ arg'[q] = arg[q]
      BY <1>1, <3>1, GotoFacts DEF SInv, IInv
    <3>3. StillTrue(r)'
      BY <1>1, <1>2, <2>4, <2>5, <2>7, <3>2 DEF StillTrue, Due
    <3>4. \A q \in Requests : StillTrue(q)'
      BY <1>1, <2>3, <2>6, <3>2, <3>3, OthersStillTrue DEF Stored
    <3>5. NoticesCurrent'
      <4> SUFFICES ASSUME NEW t \in Stored,
                          \A q \in Requests : pc'[q] \in Steps => arg'[q].ticket # t
                   PROVE  told[t] \in {rows'[t].status, None}
        BY <1>1, <2>6 DEF NoticesCurrent
      <4>1. t # a.ticket
        BY <3>1, <3>2
      <4>2. \A q \in Requests : pc[q] \in Steps => arg[q].ticket # t
        BY <3>2, <4>1
      <4> QED
        BY <2>3, <4>1, <4>2 DEF SInv, NoticesCurrent, Stored
    <3>6. Apart'
      BY <1>1, <3>1, ApartInBetween
    <3> QED
      BY <1>1, <3>4, <3>5, <3>6 DEF SInv
  <2>8. CASE ~Due(a)
    <3>1. Goto(r, "save", "ok") /\ "ok" \in Ended
      BY <1>3, <2>8 DEF Ended
    <3>2. a.was = a.to
      BY <2>8 DEF Due
    <3>3. Stored \subseteq born /\ born \subseteq Tickets
      BY DEF SInv, IInv, TypeOK
    <3> QED
      BY <1>1, <1>2, <2>3, <2>4, <2>6, <3>1, <3>2, <3>3, EndStillTrue
  <2> QED
    BY <2>7, <2>8
<1>4. CASE Goto(r, "save", "error") /\ UNCHANGED rows
  BY <1>1, <1>4, ErrorStillTrue
<1> QED
  BY <1>3, <1>4 DEF Save

LEMMA PublishStillTrue ==
  ASSUME SInv, NEW r \in Requests, Publish(r)
  PROVE  SInv'
<1>1. /\ Goto(r, "publish", "ok") /\ "publish" \in Steps /\ "ok" \in Ended
      /\ told' = [told EXCEPT ![arg[r].ticket] = arg[r].to]
      /\ UNCHANGED <<role, active, rows, born>>
      /\ IInv' /\ StillTrue(r) /\ TypeOK
  BY PublishPreserves DEF Publish, Steps, Ended, SInv, IInv
<1>2. arg[r].ticket \in Stored /\ rows[arg[r].ticket].status = arg[r].to
  BY <1>1 DEF StillTrue, Goto
<1>3. /\ told'[arg[r].ticket] = arg[r].to
      /\ \A t \in Tickets \ {arg[r].ticket} : told'[t] = told[t]
      /\ Stored' = Stored /\ Stored \subseteq born /\ born \subseteq Tickets
  BY <1>1, <1>2 DEF TypeOK, Stored
<1> QED
  BY <1>1, <1>2, <1>3, EndStillTrue

LEMMA DeleteStillTrue ==
  ASSUME SInv, NEW r \in Requests, Delete(r)
  PROVE  SInv'
<1>1. /\ "delete" \in Steps /\ "ok" \in Ended /\ UNCHANGED <<role, active, born, told>>
      /\ IInv' /\ TypeOK
  BY DeletePreserves DEF Delete, Steps, Ended, SInv, IInv
<1>2. CASE /\ Goto(r, "delete", "ok")
           /\ rows' = [rows EXCEPT ![arg[r].ticket] = None]
  <2>1. /\ Stored \subseteq born /\ born \subseteq Tickets
        /\ \A t \in Tickets : rows'[t] = IF t = arg[r].ticket THEN None ELSE rows[t]
    BY <1>1, <1>2 DEF TypeOK
  <2>2. Stored' = Stored \ {arg[r].ticket}
    BY <2>1 DEF Stored
  <2>3. \A t \in Stored : t \in born /\ t \in Tickets
    BY <2>1
  <2> QED
    BY <1>1, <1>2, <2>1, <2>2, <2>3, EndStillTrue
<1>3. CASE arg[r].ticket \notin Stored /\ Goto(r, "delete", "error") /\ UNCHANGED rows
  BY <1>1, <1>3, ErrorStillTrue
<1> QED
  BY <1>2, <1>3 DEF Delete

LEMMA SwitchStillTrue ==
  ASSUME SInv, NEW r \in Requests, Switch(r) \/ Drop(r)
  PROVE  SInv'
<1>1. /\ "switch" \in Steps /\ "drop" \in Steps /\ "ok" \in Ended
      /\ UNCHANGED <<role, rows, born, told>> /\ Stored' = Stored
      /\ IInv' /\ StillTrue(r) /\ TypeOK
  BY SwitchPreserves DEF Switch, Drop, Steps, Ended, SInv, IInv, Stored
<1>2. pc[r] \in {"switch", "drop"} /\ arg[r].ticket = None /\ None \notin Stored
  BY <1>1, TicketsAssumption DEF Switch, Drop, StillTrue, Stored
<1>3. ASSUME NEW from \in {"switch", "drop"}, NEW v, Goto(r, from, "ok"),
             active' = [active EXCEPT ![arg[r].module] = v]
      PROVE  SInv'
  <2>1. \A m \in Modules \ {arg[r].module} : active'[m] = active[m]
    BY <1>1, <1>3 DEF TypeOK
  <2>2. Stored \subseteq born
    BY <1>1 DEF TypeOK
  <2> QED
    BY <1>1, <1>2, <1>3, <2>1, <2>2, EndStillTrue
<1>4. ASSUME NEW from \in {"switch", "drop"}, Goto(r, from, "error"), UNCHANGED active
      PROVE  SInv'
  BY <1>1, <1>4, ErrorStillTrue
<1> QED
  BY <1>3, <1>4 DEF Switch, Drop

(* Users who change and months that pass leave modules and statuses alone. *)
LEMMA RestStillTrue ==
  ASSUME SInv, (\E u \in Users : ChangeRole(u) \/ RemoveUser(u)) \/ PassMonth \/ UNCHANGED vars
  PROVE  SInv'
<1>1. /\ IInv' /\ rows \in [Tickets -> Rows \cup {None}]
      /\ UNCHANGED <<active, told, pc, arg>>
  BY UsersPreserve, PassMonthPreserves, NextPreserves
     DEF SInv, IInv, TypeOK, Next, ChangeRole, RemoveUser, PassMonth, vars
<1>2. Stored' = Stored /\ \A t \in Stored : rows'[t].status = rows[t].status
  <2>1. CASE UNCHANGED rows
    BY <2>1 DEF Stored
  <2>2. CASE PassMonth
    <3>1. rows' = [t \in Tickets |->
            IF t \in Stored THEN [rows[t] EXCEPT !.month = Older[@]] ELSE None]
      BY <2>2 DEF PassMonth
    <3>2. ASSUME NEW t \in Stored
          PROVE  rows'[t].status = rows[t].status /\ rows'[t] # None
      <4>1. t \in Tickets /\ rows[t] \in Rows
        BY <1>1 DEF Stored
      <4>2. [rows[t] EXCEPT !.month = Older[@]] \in Rows
        BY <4>1 DEF Rows, Older
      <4>3. [rows[t] EXCEPT !.month = Older[@]].status = rows[t].status
        BY <4>1 DEF Rows
      <4>4. rows'[t] = [rows[t] EXCEPT !.month = Older[@]]
        BY <3>1, <4>1
      <4> QED
        BY <4>2, <4>3, <4>4, TicketsAssumption
    <3>3. \A t \in Tickets \ Stored : rows'[t] = None
      BY <3>1
    <3> QED
      BY <3>2, <3>3 DEF Stored
  <2> QED
    BY <2>1, <2>2 DEF ChangeRole, RemoveUser, vars
<1>3. \A r \in Requests : StillTrue(r)'
  <2> SUFFICES ASSUME NEW r \in Requests PROVE StillTrue(r)'
    OBVIOUS
  <2>1. StillTrue(r)
    BY DEF SInv
  <2> QED
    BY <1>1, <1>2, <2>1 DEF StillTrue
<1>4. Apart'
  BY <1>1 DEF SInv, Apart, Names
<1>5. NoticesCurrent'
  BY <1>1, <1>2 DEF SInv, NoticesCurrent
<1> QED
  BY <1>1, <1>3, <1>4, <1>5 DEF SInv

(* A ticket whose notice is lost with the process is one of which the      *)
(* client has been told nothing since; the others were at rest, or no      *)
(* status of theirs had been written.                                      *)
LEMMA CrashStillTrue ==
  ASSUME SInv, Crash
  PROVE  SInv'
<1>1. /\ IInv' /\ TypeOK /\ UNCHANGED rows
      /\ told' = [t \in Tickets |-> IF t \in Unpublished THEN None ELSE told[t]]
      /\ \A r \in Requests : pc'[r] \notin Steps
  BY CrashPreserves DEF SInv, IInv, Crash, Steps
<1>2. Stored' = Stored
  BY <1>1 DEF Stored
<1>3. \A r \in Requests : StillTrue(r)'
  BY <1>1 DEF StillTrue, Steps
<1>4. Apart'
  BY <1>1 DEF Apart
<1>5. NoticesCurrent'
  <2> SUFFICES ASSUME NEW t \in Stored PROVE told'[t] \in {rows[t].status, None}
    BY <1>1, <1>2 DEF NoticesCurrent
  <2>1. t \in Tickets /\ t # None
    BY TicketsAssumption DEF Stored
  <2>2. CASE t \in Unpublished
    BY <1>1, <2>1, <2>2
  <2>3. CASE t \notin Unpublished /\ \A r \in Requests : pc[r] \in Steps => arg[r].ticket # t
    BY <1>1, <2>1, <2>3 DEF SInv, NoticesCurrent
  <2>4. CASE t \notin Unpublished /\ \E r \in Requests : pc[r] \in Steps /\ arg[r].ticket = t
    <3> PICK r \in Requests : pc[r] \in Steps /\ arg[r].ticket = t
      BY <2>4
    <3>1. StillTrue(r) /\ RequestOK(r) /\ pc[r] # "publish"
      BY <1>1, <2>1, <2>4 DEF SInv, TypeOK, Unpublished
    <3>2. CASE pc[r] = "delete"
      BY <1>1, <2>1, <2>4, <3>1, <3>2 DEF StillTrue
    <3>3. CASE pc[r] # "delete"
      BY <1>1, <2>1, <2>4, <3>1, <3>3 DEF StillTrue, RequestOK, Steps
    <3> QED
      BY <3>2, <3>3
  <2> QED
    BY <2>2, <2>3, <2>4
<1> QED
  BY <1>1, <1>3, <1>4, <1>5 DEF SInv

LEMMA SerialNext == SInv /\ [Next]_vars /\ late' = {} => SInv'
<1> SUFFICES ASSUME SInv, [Next]_vars, late' = {} PROVE SInv'
  OBVIOUS
<1>1. ASSUME NEW r \in Requests, Arrive(r) PROVE SInv'
  BY <1>1, ArrivalsStillTrue
<1>2. ASSUME NEW r \in Requests, Continue(r) PROVE SInv'
  BY <1>2, ReadsStillTrue, InsertStillTrue, SaveStillTrue, PublishStillTrue,
     DeleteStillTrue, SwitchStillTrue DEF Continue
<1>3. CASE (\E u \in Users : ChangeRole(u) \/ RemoveUser(u)) \/ PassMonth \/ UNCHANGED vars
  BY <1>3, RestStillTrue
<1>4. CASE Crash
  BY <1>4, CrashStillTrue
<1> QED
  BY <1>1, <1>2, <1>3, <1>4 DEF Next

(* The history of overlaps only grows.                                     *)
LEMMA LateGrows ==
  ASSUME [Next]_vars
  PROVE  late \subseteq late'
<1>1. ASSUME NEW r \in Requests, Arrive(r)
      PROVE  late \subseteq late'
  BY <1>1 DEF Arrive, CreateStart, UpdateStart, StatusStart, RemoveStart, ToggleStart,
              SetStart, DropStart, Start
<1>2. ASSUME NEW r \in Requests, Continue(r)
      PROVE  late' = late
  BY <1>2 DEF Continue, FindClient, FindModule, FindTechnician, Insert, Save, Publish,
              Delete, Switch, CountTickets, Drop, Goto
<1> QED
  BY <1>1, <1>2 DEF Next, ChangeRole, RemoveUser, PassMonth, Crash, vars

LEMMA SerialInvariant == Spec => [](Unshared => SInv)
<1> DEFINE HInv == Unshared => SInv
<1>1. Init => HInv
  BY InitSerial
<1>2. HInv /\ [Next]_vars => HInv'
  BY SerialNext, LateGrows DEF Unshared
<1> QED
  BY <1>1, <1>2, PTL DEF Spec

(* tickets.service.ts:369 and 403: at rest, the client has been told the   *)
(* status every ticket has, or the process stopped before it could be.     *)
THEOREM StatusKnown == Spec => []ClientKnowsStatus
<1>1. (Unshared => SInv) => ClientKnowsStatus
  BY DEF SInv, ClientKnowsStatus
<1> QED
  BY <1>1, SerialInvariant, PTL

(* tickets.service.ts:402: no notice repeats the one before.               *)
THEOREM NoticesTellChanges == Spec => NoticeTellsChange
<1>1. ASSUME SInv, [Next]_vars, NEW r \in Requests, pc[r] = "publish", pc'[r] = "ok"
      PROVE  told[arg[r].ticket] # arg[r].to
  <2>1. StillTrue(r) /\ RequestOK(r)
    BY <1>1 DEF SInv, IInv, TypeOK
  <2> QED
    BY <1>1, <2>1, TicketsAssumption DEF StillTrue, RequestOK
<1>2. (Unshared => SInv) /\ [Next]_vars =>
        [Unshared => \A r \in Requests :
           (pc[r] = "publish" /\ pc'[r] = "ok") => told[arg[r].ticket] # arg[r].to]_vars
  BY <1>1
<1> QED
  BY <1>2, SerialInvariant, PTL DEF Spec, NoticeTellsChange

(* The table of new tickets grows by Insert alone.                         *)
LEMMA OwnSteps ==
  ASSUME [Next]_vars, born' # born
  PROVE  \E r \in Requests : Insert(r)
<1>1. ASSUME NEW r \in Requests, Arrive(r)
      PROVE  born' = born
  BY <1>1 DEF Arrive, CreateStart, UpdateStart, StatusStart, RemoveStart, ToggleStart,
              SetStart, DropStart
<1>2. ASSUME NEW r \in Requests, Continue(r)
      PROVE  Insert(r)
  BY <1>2 DEF Continue, FindClient, FindModule, FindTechnician, Save, Publish, Delete,
              Switch, CountTickets, Drop
<1> QED
  BY <1>1, <1>2 DEF Next, ChangeRole, RemoveUser, PassMonth, Crash, vars

(* tickets.service.ts:278: tickets are created in active modules.          *)
THEOREM CreatedInActive == Spec => ActiveAtCreation
<1>1. ASSUME SInv, [Next]_vars, NEW t \in Tickets, t \in born' \ born
      PROVE  active[rows'[t].module] = "on"
  <2>1. PICK r \in Requests : Insert(r)
    BY <1>1, OwnSteps
  <2>2. pc[r] = "insert" /\ StillTrue(r) /\ RequestOK(r) /\ TypeOK
    BY <1>1, <2>1 DEF Insert, SInv, IInv, TypeOK
  <2>3. active[arg[r].module] = "on"
    BY <2>2 DEF StillTrue, RequestOK
  <2>4. rows'[t].module = arg[r].module
    <3>1. PICK x \in Tickets \ born, m \in {"ahead", "current"} :
            /\ rows' = [rows EXCEPT ![x] =
                 [client |-> arg[r].client, tech |-> arg[r].tech, module |-> arg[r].module,
                  status |-> "aberto", month |-> m]]
            /\ born' = born \cup {x}
      BY <1>1, <2>1 DEF Insert
    <3>2. x = t
      BY <1>1, <3>1
    <3> QED
      BY <2>2, <3>1, <3>2 DEF TypeOK
  <2> QED
    BY <2>3, <2>4
<1>2. (Unshared => SInv) /\ [Next]_vars =>
        [Unshared => \A t \in Tickets : t \in born' \ born => active[rows'[t].module] = "on"]_vars
  BY <1>1
<1> QED
  BY <1>2, SerialInvariant, PTL DEF Spec, ActiveAtCreation
=============================================================================
