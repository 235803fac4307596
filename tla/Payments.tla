------------------------------ MODULE Payments ------------------------------
(***************************************************************************)
(* The register of payments: backend/src/payments/payments.service.ts and  *)
(* a reader of the screen who turns its pages one by one.                  *)
(*                                                                         *)
(* A listing is three statements of a READ COMMITTED transaction: each     *)
(* sees the rows of its own moment.                                        *)
(***************************************************************************)
EXTENDS Decimals, Functions

CONSTANTS
  MaxId,      \* bound: payments ever created
  Days,       \* dates of payment, a set of naturals; 0 is no date
  Texts,      \* amounts that may be typed
  PageSize,
  Requests    \* requests that create or remove

PaymentsAssumption ==
  /\ MaxId \in Nat /\ Days \subseteq Nat \ {0} /\ PageSize \in Nat \ {0}

VARIABLES
  rows,     \* id -> [paid, born, amount], or NoRow
  lastId,   \* of the sequence of ids
  req,      \* what each request is doing
  trail,    \* audit entries
  reader    \* the one who turns the pages

vars == <<rows, lastId, req, trail, reader>>

Ids == 1..MaxId
NoRow == [paid |-> 0, born |-> 0, amount |-> Nothing]
Stored == {i \in Ids : rows[i] # NoRow}

Idle == [pc |-> "idle", id |-> 0, found |-> NoRow]
(* seen: what the pages so far have shown; twice: something on two of      *)
(* them; calm: nobody wrote since the first was asked for.                 *)
Fresh == [pc |-> "closed", from |-> 0, to |-> 0, page |-> 1, items |-> {},
          total |-> 0, hours |-> 0, seen |-> {}, twice |-> FALSE, calm |-> TRUE]

Births == 1..2    \* bound: instants of creation told apart; several may share one

TypeOK ==
  /\ \A i \in Ids : rows[i].paid \in Days \cup {0} /\ rows[i].born \in Births \cup {0}
  /\ lastId \in 0..MaxId
  /\ \A r \in Requests :
       /\ req[r].pc \in {"idle", "delete", "record", "done", "400", "404", "500"}
       /\ req[r].id \in 0..MaxId
  /\ trail \subseteq {"created", "deleted"} \X Ids
  /\ reader.pc \in {"closed", "items", "count", "sum", "shown"}
  /\ reader.page \in Nat \ {0} /\ reader.calm \in BOOLEAN

Init ==
  /\ rows = [i \in Ids |-> NoRow]
  /\ lastId = 0
  /\ req = [r \in Requests |-> Idle]
  /\ trail = {}
  /\ reader = Fresh

-----------------------------------------------------------------------------
At(r, pc) == req[r].pc = pc
Goto(r, pc) == req' = [req EXCEPT ![r].pc = pc]

(* The column is numeric(12, 2): the part is cut to two places.            *)
Amount(value) == Value(value.whole, 2)

(* create: the date, then the number, refused with 400; the row takes the  *)
(* next id and the instant of its insertion.                               *)
Create(r, day, text) ==
  /\ At(r, "idle")
  /\ IF day = 0 \/ ServerReads(text) = Nothing
     THEN Goto(r, "400") /\ UNCHANGED <<rows, lastId, reader>>
     ELSE /\ lastId < MaxId
          /\ lastId' = lastId + 1
          /\ \E born \in Births :
               /\ \A i \in Stored : rows[i].born <= born
               /\ rows' = [rows EXCEPT ![lastId + 1] =
                    [paid |-> day, born |-> born, amount |-> Amount(ServerReads(text))]]
          /\ req' = [req EXCEPT ![r] = [pc |-> "record", id |-> lastId + 1, found |-> NoRow]]
          /\ reader' = [reader EXCEPT !.calm = FALSE]
  /\ UNCHANGED trail

(* remove: finds, deletes, records.                                        *)
Find(r, i) ==
  /\ At(r, "idle")
  /\ req' = [req EXCEPT ![r] =
       [pc |-> IF i \in Stored THEN "delete" ELSE "404", id |-> i, found |-> rows[i]]]
  /\ UNCHANGED <<rows, lastId, trail, reader>>

Delete(r) ==
  /\ At(r, "delete")
  /\ IF req[r].id \in Stored
     THEN /\ rows' = [rows EXCEPT ![req[r].id] = NoRow]
          /\ reader' = [reader EXCEPT !.calm = FALSE]
          /\ Goto(r, "record")
     ELSE Goto(r, "500") /\ UNCHANGED <<rows, reader>>
  /\ UNCHANGED <<lastId, trail>>

Record(r) ==
  /\ At(r, "record")
  /\ trail' = trail \cup {<<IF req[r].found = NoRow THEN "created" ELSE "deleted", req[r].id>>}
  /\ Goto(r, "done")
  /\ UNCHANGED <<rows, lastId, reader>>

-----------------------------------------------------------------------------
(* list: both ends of the period are in; 0 leaves an end open.             *)
InPeriod(from, to) ==
  {i \in Stored : (from = 0 \/ rows[i].paid >= from) /\ (to = 0 \/ rows[i].paid <= to)}

(* paid_at DESC, created_at DESC, id DESC.                                 *)
Above(i, j) ==
  \/ rows[i].paid > rows[j].paid
  \/ rows[i].paid = rows[j].paid /\ rows[i].born > rows[j].born
  \/ rows[i].paid = rows[j].paid /\ rows[i].born = rows[j].born /\ i > j

Rank(i, ids) == Cardinality({j \in ids : Above(j, i)})

(* Bug for checking: the page counted from zero in the skip.               *)
PageOfBug(ids, page) ==
  {i \in ids : page * PageSize <= Rank(i, ids) /\ Rank(i, ids) < (page + 1) * PageSize}

(* skip and take.                                                          *)
PageOf(ids, page) ==
  {i \in ids : (page - 1) * PageSize <= Rank(i, ids) /\ Rank(i, ids) < page * PageSize}

(* At least one page, the empty one.                                       *)
TotalPages(total) ==
  IF total = 0 THEN 1 ELSE (total + PageSize - 1) \div PageSize

(* list refuses a period that ends before it starts.                       *)
Open(from, to) ==
  /\ reader.pc = "closed"
  /\ from = 0 \/ to = 0 \/ from <= to
  /\ reader' = [Fresh EXCEPT !.pc = "items", !.from = from, !.to = to]
  /\ UNCHANGED <<rows, lastId, req, trail>>

ReadItems ==
  /\ reader.pc = "items"
  /\ reader' = [reader EXCEPT !.pc = "count",
       !.items = PageOf(InPeriod(reader.from, reader.to), reader.page)]
  /\ UNCHANGED <<rows, lastId, req, trail>>

ReadCount ==
  /\ reader.pc = "count"
  /\ reader' = [reader EXCEPT !.pc = "sum",
       !.total = Cardinality(InPeriod(reader.from, reader.to))]
  /\ UNCHANGED <<rows, lastId, req, trail>>

(* The sums are over the period, never over the page.                      *)
Wholes == [i \in Ids |-> rows[i].amount.whole]

ReadSum ==
  /\ reader.pc = "sum"
  /\ reader' = [reader EXCEPT !.pc = "shown",
       !.seen = @ \cup reader.items, !.twice = @ \/ reader.seen \cap reader.items # {},
       !.hours = SumFunctionOnSet(Wholes, InPeriod(reader.from, reader.to))]
  /\ UNCHANGED <<rows, lastId, req, trail>>

TurnPage ==
  /\ reader.pc = "shown"
  /\ reader.page < TotalPages(reader.total)
  /\ reader' = [reader EXCEPT !.pc = "items", !.page = @ + 1]
  /\ UNCHANGED <<rows, lastId, req, trail>>

Close ==
  /\ reader.pc = "shown"
  /\ reader' = Fresh
  /\ UNCHANGED <<rows, lastId, req, trail>>

Next ==
  \/ \E r \in Requests :
       \/ \E day \in Days \cup {0}, text \in Texts : Create(r, day, text)
       \/ \E i \in Ids : Find(r, i)
       \/ Delete(r) \/ Record(r)
  \/ \E from, to \in Days \cup {0} : Open(from, to)
  \/ ReadItems \/ ReadCount \/ ReadSum \/ TurnPage \/ Close

Spec == Init /\ [][Next]_vars

-----------------------------------------------------------------------------
(* Somebody who turns the pages while nobody writes sees no payment twice  *)
(* and none out of turn, payments of one day and instant included; every   *)
(* page but the last is full, and with the last one the whole period was   *)
(* seen and the totals are its own: payments.service.ts, 62-88.            *)
PagesAddUp ==
  reader.pc = "shown" /\ reader.calm =>
    LET ids == InPeriod(reader.from, reader.to) IN
    /\ ~reader.twice
    /\ \A i \in reader.seen, j \in ids \ reader.seen : Above(i, j)
    /\ IF reader.page < TotalPages(reader.total)
       THEN Cardinality(reader.seen) = reader.page * PageSize
       ELSE reader.seen = ids /\ reader.hours = SumFunctionOnSet(Wholes, reader.seen)

(* A request that deletes or records has its id, and what a calm reader    *)
(* has seen is the head of the period, as many pages long as were shown.   *)
IInv ==
  /\ TypeOK
  /\ DOMAIN rows = Ids /\ DOMAIN req = Requests
  /\ \A r \in Requests : req[r].pc \in {"delete", "record"} => req[r].id \in Ids
  /\ reader = [pc |-> reader.pc, from |-> reader.from, to |-> reader.to,
               page |-> reader.page, items |-> reader.items, total |-> reader.total,
               hours |-> reader.hours, seen |-> reader.seen, twice |-> reader.twice,
               calm |-> reader.calm]
  /\ reader.pc # "closed" /\ reader.calm =>
       LET ids == InPeriod(reader.from, reader.to)
           shown == IF reader.pc = "shown" THEN reader.page ELSE reader.page - 1
       IN /\ ~reader.twice
          /\ reader.seen = {i \in ids : Rank(i, ids) < shown * PageSize}
          /\ reader.pc \in {"count", "sum"} => reader.items = PageOf(ids, reader.page)
          /\ reader.pc \in {"sum", "shown"} => reader.total = Cardinality(ids)
          /\ reader.pc = "shown" => reader.hours = SumFunctionOnSet(Wholes, ids)
=============================================================================
