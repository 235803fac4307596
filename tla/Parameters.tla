----------------------------- MODULE Parameters -----------------------------
(***************************************************************************)
(* The company's parameters and logos:                                     *)
(* backend/src/parameters/parameters.service.ts, its controller and dto.   *)
(*                                                                         *)
(* Requests interleave at every await, and the process may die between two *)
(* of them.  A logo is a file of the logo folder and a row that names it;  *)
(* nothing makes the two change together.                                  *)
(***************************************************************************)
EXTENDS Naturals

CONSTANTS
  Requests,    \* requests, each of one operation
  TextKeys,    \* keys that hold text: a subset of Texts
  Variants,    \* "light", "dark", "report", or some of them
  Extensions,  \* types of image
  Bodies       \* what a PATCH may carry: some keys and a raw value for each

Texts == {"title", "name", "allowance", "closing", "colour"}

ParametersAssumption ==
  /\ TextKeys \subseteq Texts
  /\ Variants \subseteq {"light", "dark", "report"}
  /\ \A b \in Bodies : DOMAIN b \subseteq TextKeys \cup (Variants \ {"report"})

VARIABLES
  rows,     \* system_parameter: key -> value, Absent without a row
  folder,   \* file name -> the upload it holds, Torn while it is written,
            \* NoFile when there is none
  req,      \* what each request is doing
  chosen,   \* history: text key -> the value its last update wrote
  settled   \* history: variant -> the image an undisturbed request left, or Unsettled

vars == <<rows, folder, req, chosen, settled>>

(* Values of rows; a file is named by its stem and its extension.          *)
Absent == <<>>
Blank == <<"blank">>
Default == <<"default">>
Elsewhere == <<"a URL, or a path out of the folder">>
FileName(v, e) == <<v, e>>
FileNames == Variants \X Extensions

Keys == TextKeys \cup Variants

NoFile == <<>>
Torn == <<"torn">>
Holding(r) == <<"upload", r>>
Contents == {NoFile, Torn} \cup {Holding(r) : r \in Requests}
Unsettled == <<"unsettled">>

Idle == [pc |-> "idle", variant |-> "none", name |-> Blank, left |-> {},
         missing |-> {}, alone |-> TRUE]

TypeOK ==
  /\ rows \in [Keys -> {Absent, Blank, Default, Elsewhere, <<"plain">>} \cup FileNames]
  /\ folder \in [FileNames -> Contents]
  /\ \A r \in Requests :
       /\ req[r].pc \in {"idle", "missing", "create", "read", "list", "clear",
                         "open", "fill", "row", "serve", "done"}
       /\ req[r].left \subseteq FileNames /\ req[r].missing \subseteq Keys
       /\ req[r].alone \in BOOLEAN
  /\ settled \in [Variants -> Contents \cup {Unsettled}]

-----------------------------------------------------------------------------
(* Values.                                                                 *)

(* What may be typed is blank, plain, a number with a comma, or junk.  The *)
(* dto and the normalizers: the title may be blank; a name is any text; a  *)
(* number takes a point or a comma; a closing date must exist; a colour is *)
(* #RRGGBB.                                                                *)
Accepts(key, raw) ==
  CASE key = "title" -> TRUE
    [] key = "name" -> raw # Blank
    [] key = "allowance" -> raw \in {<<"plain">>, <<"comma">>}
    [] key \in {"closing", "colour"} -> raw = <<"plain">>
    [] OTHER -> raw \in {Blank, Elsewhere} \cup FileNames

(* What is stored: a number always with a point and two places.            *)
Normalized(key, raw) ==
  IF key \in Texts /\ raw # Blank THEN <<"plain">> ELSE raw

(* resolveParameterValue: a blank title is a choice; any other blank, and  *)
(* a missing row, is the default (blank, for a logo).                      *)
Effective(key, stored) ==
  IF stored = Absent \/ (stored = Blank /\ key # "title")
  THEN IF key \in Variants THEN Blank ELSE Default
  ELSE stored

(* getMany; findAll, findPublic, branding and the colours are choices of   *)
(* keys.                                                                   *)
GetMany == [k \in Keys |-> Effective(k, rows[k])]

(* resolveLogoPath: a file of the folder that exists, or none.             *)
Resolved(v) ==
  IF rows[v] \in FileNames /\ folder[rows[v]] # NoFile THEN rows[v] ELSE Blank

(* What GET /parameters/logo would send.                                   *)
Served(v) == IF Resolved(v) = Blank THEN NoFile ELSE folder[rows[v]]

-----------------------------------------------------------------------------
Init ==
  /\ rows \in [Keys -> {Absent, Default, Blank}]
  /\ \A v \in Variants : rows[v] # Default
  /\ folder = [f \in FileNames |-> NoFile]
  /\ req = [r \in Requests |-> Idle]
  /\ chosen = [k \in TextKeys |-> Absent]
  /\ settled = [v \in Variants |-> NoFile]

At(r, pc) == req[r].pc = pc
Goto(r, pc) == req' = [req EXCEPT ![r].pc = pc]

ChangingLogo(v) ==
  {r \in Requests : req[r].variant = v
                    /\ req[r].pc \in {"list", "clear", "open", "fill", "row"}}

-----------------------------------------------------------------------------
(* PATCH and GET /parameters.                                              *)

(* update: everything is validated before one transaction writes it.  A    *)
(* logo row written here disturbs the uploads under way.                   *)
Save(r, body) ==
  /\ At(r, "idle")
  /\ \A k \in DOMAIN body : Accepts(k, body[k])
  /\ LET written == [k \in DOMAIN body |-> Normalized(k, body[k])]
     IN /\ rows' = [k \in Keys |-> IF k \in DOMAIN body THEN written[k] ELSE rows[k]]
        /\ chosen' = [k \in TextKeys |-> IF k \in DOMAIN body THEN written[k] ELSE chosen[k]]
  /\ settled' = [v \in Variants |-> IF v \in DOMAIN body THEN Unsettled ELSE settled[v]]
  /\ req' = [q \in Requests |->
               IF q = r THEN [req[q] EXCEPT !.pc = "missing"]
               ELSE IF \E v \in DOMAIN body : q \in ChangingLogo(v)
                    THEN [req[q] EXCEPT !.alone = FALSE]
                    ELSE req[q]]
  /\ UNCHANGED folder

(* 400: nothing is written.                                                *)
Refuse(r, body) ==
  /\ At(r, "idle")
  /\ \E k \in DOMAIN body : ~Accepts(k, body[k])
  /\ Goto(r, "done")
  /\ UNCHANGED <<rows, folder, chosen, settled>>

FindAll(r) ==
  /\ At(r, "idle")
  /\ Goto(r, "missing")
  /\ UNCHANGED <<rows, folder, chosen, settled>>

(* ensureDefaults, first statement: the keys without a row.                *)
FindMissing(r) ==
  /\ At(r, "missing")
  /\ LET missing == {k \in Keys : rows[k] = Absent}
     IN req' = [req EXCEPT ![r].missing = missing,
                           ![r].pc = IF missing = {} THEN "read" ELSE "create"]
  /\ UNCHANGED <<rows, folder, chosen, settled>>

DefaultOf(k) == IF k \in Variants THEN Blank ELSE Default

(* Bug for checking: the rows are written even where one appeared.         *)
WithDefaultsBug(missing) == [k \in Keys |-> IF k \in missing THEN DefaultOf(k) ELSE rows[k]]

(* createMany with skipDuplicates: a row that appeared meanwhile stays.    *)
WithDefaults(missing) ==
  [k \in Keys |-> IF k \in missing /\ rows[k] = Absent THEN DefaultOf(k) ELSE rows[k]]

CreateMissing(r) ==
  /\ At(r, "create")
  /\ rows' = WithDefaults(req[r].missing)
  /\ Goto(r, "read")
  /\ UNCHANGED <<folder, chosen, settled>>

Answer(r) ==
  /\ At(r, "read")
  /\ Goto(r, "done")
  /\ UNCHANGED <<rows, folder, chosen, settled>>

-----------------------------------------------------------------------------
(* POST and DELETE /parameters/logo.                                       *)

(* A request that changes a variant; name is what its row will hold.       *)
Begin(r, v, name) ==
  /\ At(r, "idle")
  /\ req' = [q \in Requests |->
               IF q = r
               THEN [req[q] EXCEPT !.pc = "list", !.variant = v, !.name = name,
                                   !.alone = (ChangingLogo(v) = {})]
               ELSE IF q \in ChangingLogo(v) THEN [req[q] EXCEPT !.alone = FALSE]
               ELSE req[q]]
  /\ settled' = [settled EXCEPT ![v] = Unsettled]
  /\ UNCHANGED <<rows, folder, chosen>>

(* uploadLogo once the image is accepted; deleteLogo.                      *)
Upload(r, v, e) == Begin(r, v, FileName(v, e))
Delete(r, v) == Begin(r, v, Blank)

(* uploadLogo refuses another type, an empty image or one too large.       *)
RefuseImage(r) ==
  /\ At(r, "idle")
  /\ Goto(r, "done")
  /\ UNCHANGED <<rows, folder, chosen, settled>>

(* Bug for checking: any file whose name starts with the stem.             *)
FilesOfBug(v) ==
  {f \in FileNames : folder[f] # NoFile /\ (f[1] = v \/ v = "light")}

(* clearLogoFiles: the entries that match ^stem\. when it lists the folder *)
FilesOf(v) == {f \in FileNames : folder[f] # NoFile /\ f[1] = v}

ListFolder(r) ==
  /\ At(r, "list")
  /\ req' = [req EXCEPT ![r].left = FilesOf(req[r].variant), ![r].pc = "clear"]
  /\ UNCHANGED <<rows, folder, chosen, settled>>

(* and unlinks them one by one; a file already gone is no error.           *)
Unlink(r) ==
  /\ At(r, "clear")
  /\ \E f \in req[r].left :
       /\ folder' = [folder EXCEPT ![f] = NoFile]
       /\ req' = [req EXCEPT ![r].left = @ \ {f}]
  /\ UNCHANGED <<rows, chosen, settled>>

Cleared(r) ==
  /\ At(r, "clear")
  /\ req[r].left = {}
  /\ Goto(r, IF req[r].name = Blank THEN "row" ELSE "open")
  /\ UNCHANGED <<rows, folder, chosen, settled>>

(* writeFile opens and truncates, then writes.                             *)
OpenFile(r) ==
  /\ At(r, "open")
  /\ folder' = [folder EXCEPT ![req[r].name] = Torn]
  /\ Goto(r, "fill")
  /\ UNCHANGED <<rows, chosen, settled>>

(* A file unlinked while it is open takes the bytes to nobody.             *)
FillFile(r) ==
  /\ At(r, "fill")
  /\ folder' = [folder EXCEPT ![req[r].name] = IF @ = NoFile THEN @ ELSE Holding(r)]
  /\ Goto(r, "row")
  /\ UNCHANGED <<rows, chosen, settled>>

(* upsertLogo, and the answer.                                             *)
WriteRow(r) ==
  LET v == req[r].variant
  IN /\ At(r, "row")
     /\ rows' = [rows EXCEPT ![v] = req[r].name]
     /\ settled' = [settled EXCEPT ![v] =
                      IF ~req[r].alone THEN Unsettled
                      ELSE IF req[r].name = Blank THEN NoFile ELSE Holding(r)]
     /\ Goto(r, "done")
     /\ UNCHANGED <<folder, chosen>>

(* GET /parameters/logo: the row and existsSync, then, after an await, the *)
(* file: gone meanwhile, the request fails.                                *)
AskLogo(r, v) ==
  /\ At(r, "idle")
  /\ req' = [req EXCEPT ![r].pc = IF Resolved(v) = Blank THEN "done" ELSE "serve",
                        ![r].variant = v, ![r].name = Resolved(v)]
  /\ UNCHANGED <<rows, folder, chosen, settled>>

SendLogo(r) ==
  /\ At(r, "serve")
  /\ Goto(r, "done")
  /\ UNCHANGED <<rows, folder, chosen, settled>>

(* The process dies and starts again; what is on disk stays.               *)
Crash ==
  /\ \E r \in Requests : req[r].pc \notin {"idle", "done"}
  /\ req' = [r \in Requests |-> IF At(r, "idle") THEN req[r] ELSE [Idle EXCEPT !.pc = "done"]]
  /\ UNCHANGED <<rows, folder, chosen, settled>>

Next ==
  \/ \E r \in Requests :
       \/ \E b \in Bodies : Save(r, b) \/ Refuse(r, b)
       \/ \E v \in Variants :
            \/ \E e \in Extensions : Upload(r, v, e)
            \/ Delete(r, v) \/ AskLogo(r, v)
       \/ RefuseImage(r) \/ FindAll(r) \/ FindMissing(r) \/ CreateMissing(r) \/ Answer(r)
       \/ ListFolder(r) \/ Unlink(r) \/ Cleared(r) \/ OpenFile(r) \/ FillFile(r)
       \/ WriteRow(r) \/ SendLogo(r)
  \/ Crash

Spec == Init /\ [][Next]_vars

-----------------------------------------------------------------------------
(* A parameter holds what its last update wrote, whatever reads created    *)
(* missing rows meanwhile, and a title left blank stays blank on every     *)
(* screen: parameters.service.ts, 104-113 and 185-203.                     *)
ChoicesStand ==
  \A k \in TextKeys : chosen[k] # Absent =>
    /\ rows[k] = chosen[k]
    /\ k = "title" => GetMany[k] = chosen[k]

(* A change of a logo nobody disturbed leaves exactly that image to be     *)
(* served, whatever half-done changes it follows and whatever happens to   *)
(* the other variants: parameters.service.ts, 352-406 and 441-457.         *)
LogoAsUploaded ==
  \A v \in Variants : settled[v] # Unsettled => Served(v) = settled[v]

-----------------------------------------------------------------------------
(* What every step keeps, from which the properties above follow:          *)
(* DeskProofs.tla.                                                         *)

Changing == {"list", "clear", "open", "fill", "row"}

Jobs ==
  [pc : {"idle", "missing", "create", "read", "serve", "done"} \cup Changing,
   variant : Variants \cup {"none"}, name : FileNames \cup {Blank},
   left : SUBSET FileNames, missing : SUBSET Keys, alone : BOOLEAN]

Shaped ==
  /\ rows = [k \in Keys |-> rows[k]]
  /\ folder = [f \in FileNames |-> folder[f]]
  /\ req \in [Requests -> Jobs]
  /\ chosen = [k \in TextKeys |-> chosen[k]]
  /\ settled = [v \in Variants |-> settled[v]]

(* The files of a variant.                                                 *)
OwnFiles(v) == {f \in FileNames : f[1] = v}

(* A request that changes a logo touches the files of its variant only.    *)
Minds(r) ==
  req[r].pc \in Changing =>
    /\ req[r].variant \in Variants
    /\ req[r].pc = "clear" => req[r].left \subseteq OwnFiles(req[r].variant)
    /\ req[r].name = Blank \/ req[r].name \in OwnFiles(req[r].variant)
    /\ req[r].pc \in {"open", "fill"} => req[r].name # Blank

(* Left alone, it is the only one at its variant, and the file it wrote is *)
(* as it left it.                                                          *)
Alone(r) ==
  req[r].pc \in Changing /\ req[r].alone =>
    /\ ChangingLogo(req[r].variant) = {r}
    /\ req[r].pc = "fill" => folder[req[r].name] = Torn
    /\ req[r].pc = "row" /\ req[r].name # Blank => folder[req[r].name] = Holding(r)

(* A variant is settled while nobody changes it, and then its row names    *)
(* a file of its own, or none.                                             *)
Quiet(v) ==
  settled[v] # Unsettled =>
    /\ ChangingLogo(v) = {}
    /\ rows[v] \in FileNames => rows[v] \in OwnFiles(v)
    /\ Served(v) = settled[v]

IInv ==
  /\ Shaped
  /\ \A r \in Requests : Minds(r) /\ Alone(r)
  /\ \A v \in Variants : Quiet(v)
  /\ ChoicesStand
=============================================================================
