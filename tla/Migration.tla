----------------------------- MODULE Migration -----------------------------
(***************************************************************************)
(* Moving the legacy data: backend/scripts/migration/migrate.ts and        *)
(* validate.ts, behind the guard of common/safety/disposable-database.ts,  *)
(* and scripts/create-superuser.ts on the base they leave.                 *)
(*                                                                         *)
(* The migration is one transaction: its work is on a copy (work) that     *)
(* becomes the base at the commit.  A setval is the exception: PostgreSQL  *)
(* never rolls it back, unless the TRUNCATE of the same transaction had    *)
(* given the sequence a new file.                                          *)
(***************************************************************************)
EXTENDS Naturals, Sequences, FiniteSets, FiniteSetsExt

CONSTANTS
  MaxId,     \* bound: ids
  Sources,   \* contents of the legacy copy: a table is a function, id -> row
  Bases,     \* contents the target may have before
  Emails,    \* e-mails create-superuser may be given
  Hosts      \* pairs of hosts (legacy, target) to try

VARIABLES
  source,   \* the legacy copy, only read
  base,     \* the target: [rows, seq], tables and last value of each sequence
  work,     \* the same inside the transaction
  flags,    \* --apply, --truncate-target, ALLOW_NON_LOCAL_DATABASE and the hosts
  pc,
  skipped,  \* the report: rows left out, <<table, id>>
  before,   \* history: the rows of the target when the migration began
  collided  \* history: an INSERT with a new id met a row

vars == <<source, base, work, flags, pc, skipped, before, collided>>

TABLES == <<"user", "system_module", "system_parameter", "payment_record", "ticket", "activity">>
Tables == {TABLES[i] : i \in DOMAIN TABLES}
Ids == 1..MaxId
Null == 0              \* no id; an id of 1 or more refers to a row
Unknown == "null"      \* NULL of another column

IdsIn(rows, table) == DOMAIN rows[table]
MaxIdIn(rows, table) == IF IdsIn(rows, table) = {} THEN 0 ELSE Max(IdsIn(rows, table))

(* What a target is.                                                       *)
IsTarget(target) ==
  /\ target = [rows |-> [t \in Tables |-> target.rows[t]], seq |-> [t \in Tables |-> target.seq[t]]]
  /\ \A t \in Tables : IdsIn(target.rows, t) \subseteq Ids /\ target.seq[t] \in 0..MaxId

(* The ids of the target came from its sequences.                          *)
MigrationAssumption ==
  /\ MaxId \in Nat \ {0}
  /\ \A s \in Sources : \A t \in Tables : IdsIn(s, t) \subseteq Ids
  /\ \A b \in Bases :
       /\ IsTarget(b)
       /\ \A t \in Tables : \A i \in IdsIn(b.rows, t) : i <= b.seq[t]

TypeOK ==
  /\ DOMAIN base.rows = Tables /\ DOMAIN work.rows = Tables
  /\ \A t \in Tables :
       /\ IdsIn(base.rows, t) \subseteq Ids /\ base.seq[t] \in 0..MaxId
       /\ IdsIn(work.rows, t) \subseteq Ids /\ work.seq[t] \in 0..MaxId
  /\ pc \in {"start", "read", "reset", "end", "refused", "failed", "simulated", "committed"}
            \cup Tables
  /\ skipped \subseteq Tables \X Ids
  /\ collided \in BOOLEAN

Init ==
  /\ source \in Sources
  /\ base \in Bases
  /\ work = base
  /\ flags \in [apply : BOOLEAN, truncate : BOOLEAN, escape : BOOLEAN, hosts : Hosts]
  /\ pc = "start"
  /\ skipped = {}
  /\ before = base.rows
  /\ collided = FALSE

-----------------------------------------------------------------------------
(* assertDisposableDatabase: a production host is refused whatever the     *)
(* escape says; a host unknown or unreadable needs the escape.             *)
MayTouch(host, escape) == host = "disposable" \/ (host \in {"elsewhere", ""} /\ escape)

Main ==
  /\ pc = "start"
  /\ pc' = IF \A i \in 1..2 : MayTouch(flags.hosts[i], flags.escape) THEN "read" ELSE "refused"
  /\ UNCHANGED <<source, base, work, flags, skipped, before, collided>>

(* readLegacy, then the transaction of writeTarget, which begins with the  *)
(* TRUNCATE when it was asked for.                                         *)
Begin ==
  /\ pc = "read"
  /\ before' = base.rows
  /\ work' = IF flags.truncate
             THEN [rows |-> [t \in Tables |-> <<>>], seq |-> [t \in Tables |-> 0]]
             ELSE base
  /\ pc' = TABLES[1]
  /\ UNCHANGED <<source, base, flags, skipped, collided>>

(* Where a table's function leaves the script.                             *)
After(table) ==
  LET i == CHOOSE n \in DOMAIN TABLES : TABLES[n] = table
  IN IF i = Len(TABLES) THEN "reset" ELSE TABLES[i + 1]

(* bool: NULL is the fallback.                                             *)
Bool(value, fallback) == IF value = Unknown THEN fallback ELSE value = "true"

(* decimal2: thousandths to hundredths.                                    *)
Hundredths(thousandths) == (thousandths + 5) \div 10

(* A reference to a row the source does not have becomes null.             *)
OrNull(id, table) == IF id \in IdsIn(source, table) THEN id ELSE Null

(* What each table's function makes of a row.                              *)
Converted(table, row) ==
  CASE table = "user" ->
         [email |-> row.email, super |-> Bool(row.super, FALSE), must |-> Bool(row.must, FALSE)]
    [] table = "system_module" -> [name |-> row.name, active |-> Bool(row.active, TRUE)]
    [] table = "system_parameter" ->
         [key |-> row.key, value |-> IF row.value = Unknown THEN "" ELSE row.value]
    [] table = "payment_record" -> [hundredths |-> Hundredths(row.thousandths)]
    [] table = "ticket" -> [client |-> row.client, technician |-> OrNull(row.technician, "user"),
                            module |-> OrNull(row.module, "system_module")]
    [] table = "activity" -> row

(* Bug for checking: a technician who is gone makes the ticket an orphan.  *)
OrphanBug(table, row) ==
  \/ table = "ticket" /\ ~({row.client, row.technician} \ {Null} \subseteq IdsIn(source, "user"))
  \/ table = "activity" /\ (row.ticket \notin IdsIn(source, "ticket")
                            \/ row.author \notin IdsIn(source, "user"))

(* A row left out and counted: a ticket of no client; an activity of no    *)
(* author, or of no ticket of the source.                                  *)
Orphan(table, row) ==
  \/ table = "ticket" /\ row.client \notin IdsIn(source, "user")
  \/ table = "activity" /\ (row.ticket \notin IdsIn(source, "ticket")
                            \/ row.author \notin IdsIn(source, "user"))

(* The constraints of the target: primary and foreign keys, the e-mail,    *)
(* the key of a parameter and the name of a module, whatever its case.     *)
Sound(rows) ==
  /\ \A i \in IdsIn(rows, "ticket") :
       LET row == rows["ticket"][i] IN
       /\ row.client \in IdsIn(rows, "user")
       /\ row.technician \in IdsIn(rows, "user") \cup {Null}
       /\ row.module \in IdsIn(rows, "system_module") \cup {Null}
  /\ \A i \in IdsIn(rows, "activity") :
       /\ rows["activity"][i].ticket \in IdsIn(rows, "ticket")
       /\ rows["activity"][i].author \in IdsIn(rows, "user")
  /\ \A i, j \in IdsIn(rows, "user") : i # j => rows["user"][i].email # rows["user"][j].email
  /\ \A i, j \in IdsIn(rows, "system_module") :
       i # j => rows["system_module"][i].name[1] # rows["system_module"][j].name[1]
  /\ \A i, j \in IdsIn(rows, "system_parameter") :
       i # j => rows["system_parameter"][i].key # rows["system_parameter"][j].key

(* The insertions of one table: any violation throws, and the transaction  *)
(* with everything in it is gone.  migrateModules throws by itself for two *)
(* names that differ in case only; what is refused is the same.            *)
MigrateTable(table) ==
  /\ pc = table
  /\ LET taken == {i \in IdsIn(source, table) : ~Orphan(table, source[table][i])}
         grown == [work.rows EXCEPT ![table] =
                     [i \in taken \cup IdsIn(work.rows, table) |->
                        IF i \in taken THEN Converted(table, source[table][i])
                        ELSE work.rows[table][i]]]
     IN IF taken \cap IdsIn(work.rows, table) = {} /\ Sound(grown)
        THEN /\ work' = [work EXCEPT !.rows = grown]
             /\ skipped' = skipped \cup ({table} \X (IdsIn(source, table) \ taken))
             /\ pc' = After(table)
        ELSE work' = base /\ pc' = "failed" /\ UNCHANGED skipped
  /\ UNCHANGED <<source, base, flags, before, collided>>

(* Bug for checking: sequences are left where they were.                   *)
ResetValueBug(table) == work.seq[table]

(* setval(GREATEST(COALESCE(MAX(id), 1), 1)).                              *)
ResetValue(table) == Max({1, MaxIdIn(work.rows, table)})

(* resetSequences; seen at once by everybody, unless truncated.            *)
ResetSequences ==
  /\ pc = "reset"
  /\ LET seq == [t \in Tables |-> ResetValue(t)]
     IN /\ work' = [work EXCEPT !.seq = seq]
        /\ base' = IF flags.truncate THEN base ELSE [base EXCEPT !.seq = seq]
  /\ pc' = "end"
  /\ UNCHANGED <<source, flags, skipped, before, collided>>

(* Commit, or the DryRunRollback of a simulation.                          *)
Finish ==
  /\ pc = "end"
  /\ base' = IF flags.apply THEN work ELSE base
  /\ pc' = IF flags.apply THEN "committed" ELSE "simulated"
  /\ UNCHANGED <<source, work, flags, skipped, before, collided>>

(* The script dies, or the connection does, or ten minutes pass.           *)
Die ==
  /\ pc \in Tables \cup {"reset", "end"}
  /\ pc' = "failed"
  /\ UNCHANGED <<source, base, work, flags, skipped, before, collided>>

-----------------------------------------------------------------------------
(* Afterwards, the application.                                            *)

Ended == {"refused", "failed", "simulated", "committed"}

(* An INSERT takes the next value of the sequence, and fails if a row has  *)
(* that id.                                                                *)
InsertUser(row) ==
  LET id == base.seq["user"] + 1
  IN /\ id \in Ids
     /\ IF id \in IdsIn(base.rows, "user")
        THEN base' = [base EXCEPT !.seq["user"] = id] /\ collided' = TRUE
        ELSE /\ base' = [base EXCEPT !.seq["user"] = id,
                  !.rows["user"] = [i \in DOMAIN @ \cup {id} |-> IF i = id THEN row ELSE @[i]]]
             /\ UNCHANGED collided

Owner(email) == {i \in IdsIn(base.rows, "user") : base.rows["user"][i].email = email}

(* create-superuser: creates, or promotes whoever has the e-mail, leaving  *)
(* the password alone unless --reset-password.                             *)
CreateSuperuser(email, reset) ==
  /\ pc \in Ended
  /\ MayTouch(flags.hosts[2], flags.escape)
  /\ IF Owner(email) = {}
     THEN InsertUser([email |-> email, super |-> TRUE, must |-> TRUE])
     ELSE /\ base' = [base EXCEPT !.rows["user"] =
               [i \in DOMAIN @ |->
                  IF i \notin Owner(email) THEN @[i]
                  ELSE [email |-> email, super |-> TRUE, must |-> @[i].must \/ reset]]]
          /\ UNCHANGED collided
  /\ UNCHANGED <<source, work, flags, pc, skipped, before>>

Next ==
  \/ Main \/ Begin \/ (\E t \in Tables : MigrateTable(t)) \/ ResetSequences \/ Finish \/ Die
  \/ \E e \in Emails, reset \in BOOLEAN : CreateSuperuser(e, reset)

Spec == Init /\ [][Next]_vars

-----------------------------------------------------------------------------
(* validate.ts compares the columns both sides have, except is_superuser   *)
(* and the money; a NULL of the source never equals the value it became.   *)
SameContent(table) ==
  /\ IdsIn(base.rows, table) = IdsIn(source, table)
  /\ \A i \in IdsIn(source, table) :
       LET legacy == source[table][i]
           row == base.rows[table][i]
       IN /\ table = "user" => legacy.email = row.email /\ legacy.must # Unknown
          /\ table = "system_module" => legacy.name = row.name /\ legacy.active # Unknown
          /\ table \in {"system_parameter", "ticket", "activity"} => legacy = row

(* compareMoney: the sum is rounded on one side, each value on the other.  *)
SameMoney ==
  Hundredths(MapThenSumSet(LAMBDA i : source["payment_record"][i].thousandths,
                           IdsIn(source, "payment_record")))
    = MapThenSumSet(LAMBDA i : base.rows["payment_record"][i].hundredths,
                    IdsIn(base.rows, "payment_record"))

SequencesAhead == \A t \in Tables : base.seq[t] >= MaxIdIn(base.rows, t)

Validates == (\A t \in Tables : SameContent(t)) /\ SameMoney /\ Sound(base.rows) /\ SequencesAhead

-----------------------------------------------------------------------------
(* A row of the source is in the target under its own id, or in the report *)
(* because what it belongs to is missing; nothing dangles, and nothing     *)
(* that was there before is lost but by a truncation that was asked for.   *)
Migrated ==
  /\ Sound(base.rows)
  /\ \A t \in Tables : \A i \in IdsIn(source, t) :
       i \in IdsIn(base.rows, t) \/ <<t, i>> \in skipped
  /\ \A s \in skipped :
       \/ s[1] = "ticket" /\ source["ticket"][s[2]].client \notin IdsIn(source, "user")
       \/ s[1] = "activity"
          /\ LET row == source["activity"][s[2]]
             IN row.ticket \notin IdsIn(source, "ticket") \/ row.author \notin IdsIn(source, "user")
  /\ flags.truncate \/ \A t \in Tables : IdsIn(before, t) \subseteq IdsIn(base.rows, t)

(* All of it or none of it, and either way the next INSERT finds a free    *)
(* id, although a simulation moves the sequences for good; what validate   *)
(* passes left nothing out: migrate.ts, 118-155 and 371-388.               *)
AllOrNothing ==
  /\ pc = "committed" => Migrated /\ (Validates => skipped = {})
  /\ pc \in Ended \ {"committed"} =>
       /\ \A t \in Tables \ {"user"} : base.rows[t] = before[t]
       /\ IdsIn(before, "user") \subseteq IdsIn(base.rows, "user")
  /\ ~collided

-----------------------------------------------------------------------------
(* Why it is so, whatever is in the copy: the inductive invariant.         *)

(* The script is inside its transaction.                                   *)
Writing == Tables \cup {"reset", "end"}

(* The tables the transaction has been through.                            *)
Written ==
  {TABLES[i] : i \in {n \in DOMAIN TABLES :
     pc \in Tables => \E m \in DOMAIN TABLES : n < m /\ TABLES[m] = pc}}

UsersNumbered(target) == \A i \in IdsIn(target.rows, "user") : i <= target.seq["user"]

Covered(rows) ==
  \A t \in Written : \A i \in IdsIn(source, t) : i \in IdsIn(rows, t) \/ <<t, i>> \in skipped

Keeps(rows) == flags.truncate \/ \A t \in Tables : IdsIn(before, t) \subseteq IdsIn(rows, t)

SkippedAreOrphans ==
  \A s \in skipped :
    s[1] \in Tables /\ s[2] \in IdsIn(source, s[1]) /\ Orphan(s[1], source[s[1]][s[2]])

(* A simulation moves the sequences of a target it did not truncate, never *)
(* below what is in it: the copy has all that is there.                    *)
IInv ==
  /\ TypeOK /\ IsTarget(base) /\ IsTarget(work) /\ source \in Sources
  /\ UsersNumbered(base) /\ SkippedAreOrphans /\ ~collided
  /\ pc \notin Ended => base.rows = before
  /\ pc \in Writing => Covered(work.rows) /\ Keeps(work.rows)
  /\ pc \in {"reset", "end"} => Sound(work.rows)
  /\ pc = "end" => UsersNumbered(work)
  /\ pc = "committed" => Sound(base.rows) /\ Covered(base.rows) /\ Keeps(base.rows)
  /\ pc \in Ended \ {"committed"} =>
       /\ \A t \in Tables \ {"user"} : base.rows[t] = before[t]
       /\ IdsIn(before, "user") \subseteq IdsIn(base.rows, "user")
=============================================================================
