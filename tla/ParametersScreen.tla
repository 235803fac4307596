-------------------------- MODULE ParametersScreen --------------------------
(***************************************************************************)
(* The company's parameters on a superuser's screen:                       *)
(* frontend/app/admin/parameters.tsx, LogoField.tsx, the hooks of          *)
(* useAdmin.ts and the title beside the logo, useHeaderTitle.ts.           *)
(*                                                                         *)
(* The form and the preview of a logo are filled once, from what the cache *)
(* holds; a save writes the cache and refreshes the title; a change of     *)
(* logo touches neither.  One of the three logos is followed.              *)
(***************************************************************************)
EXTENDS QueryCache, Naturals

CONSTANTS
  Fields,    \* what the fields may say
  Bad,       \* those of them the screen refuses: an amount in thousands, half a color
  MaxWrites  \* bound: mutations and writes of others in a behaviour

ParametersScreenAssumption ==
  /\ Fields # {} /\ Bad \subseteq Fields /\ MaxWrites \in Nat
  /\ Nothing \notin Fields

VARIABLES
  server,     \* the fields and whether there is a logo
  cache,      \* the query of the parameters
  header,     \* the query of the title, on every screen
  mounted,    \* the screen is on
  form,       \* the fields typed, or Nothing before there are any to show
  preview,    \* the preview shows a logo
  confirm,    \* the dialog asks whether to remove the logo
  save, upload, removal,   \* the three mutations
  others,     \* somebody else wrote
  behind,     \* history: the preview was filled from an old copy, or not told
  crossed,    \* history: an upload and a removal were under way together
  outdated    \* history: nobody told the title of a change

vars == <<server, cache, header, mounted, form, preview, confirm, save, upload, removal,
          others, behind, crossed, outdated>>

NewCall == [pc |-> "idle", arg |-> Nothing, ok |-> FALSE, got |-> Nothing, mine |-> FALSE]
Settled == [NewCall EXCEPT !.pc = "settled"]
Call(arg) == [NewCall EXCEPT !.pc = "sent", !.arg = arg, !.mine = TRUE]
One(call) == IF call.pc = "idle" THEN 0 ELSE 1
Writes == One(save) + One(upload) + One(removal) + (IF others THEN 1 ELSE 0)
Fresh(call) == call.pc = "idle" /\ Writes < MaxWrites
UnderWay(call) == call.pc \in {"sent", "answered"}
Pending(call) == UnderWay(call) /\ call.mine
Resting == ~UnderWay(save) /\ ~UnderWay(upload) /\ ~UnderWay(removal)

TypeOK ==
  /\ server \in [fields : Fields \ Bad, logo : BOOLEAN]
  /\ cache.data = Nothing \/ cache.data.fields \in Fields \ Bad
  /\ header.data = Nothing \/ header.data \in Fields \ Bad
  /\ form = Nothing \/ form \in Fields
  /\ {mounted, preview, confirm, others, behind, crossed, outdated} \subseteq BOOLEAN

(* What is shown instead of the form, and the form.                        *)
Failed == mounted /\ cache.error /\ cache.data = Nothing
Showing == mounted /\ cache.data # Nothing

Init ==
  /\ server \in [fields : Fields \ Bad, logo : BOOLEAN]
  /\ cache = NewQuery /\ header = Asked(NewQuery)
  /\ mounted = FALSE /\ form = Nothing /\ preview = FALSE /\ confirm = FALSE
  /\ save = NewCall /\ upload = NewCall /\ removal = NewCall
  /\ others = FALSE /\ behind = FALSE /\ crossed = FALSE /\ outdated = FALSE

calls == <<save, upload, removal>>
screen == <<mounted, form, preview, confirm>>
history == <<others, behind, crossed, outdated>>

-----------------------------------------------------------------------------
(* Reading.                                                                *)

(* The form and the preview take the parameters once, when there are some. *)
Filled(q) ==
  IF form = Nothing /\ q.data # Nothing
  THEN /\ form' = q.data.fields /\ preview' = q.data.logo
       /\ behind' = (behind \/ q.data.logo # server.logo)
  ELSE UNCHANGED <<form, preview, behind>>

Enter ==
  /\ ~mounted /\ mounted' = TRUE
  /\ \E fresh \in BOOLEAN : cache' = Opened([cache EXCEPT !.stale = @ \/ ~fresh])
  /\ Filled(cache)
  /\ UNCHANGED <<server, header, confirm, calls, others, crossed, outdated>>

Leave ==
  /\ mounted /\ mounted' = FALSE
  /\ form' = Nothing /\ preview' = FALSE /\ confirm' = FALSE
  /\ save' = [save EXCEPT !.mine = FALSE] /\ upload' = [upload EXCEPT !.mine = FALSE]
  /\ removal' = [removal EXCEPT !.mine = FALSE]
  /\ behind' = FALSE /\ crossed' = FALSE
  /\ UNCHANGED <<server, cache, header, others, outdated>>

Serve ==
  /\ cache.fetch = "asked"
  /\ \E value \in {server, Failure} : cache' = AnsweredWith(cache, value)
  /\ UNCHANGED <<server, header, screen, calls, history>>

Take ==
  /\ cache.fetch = "answered" /\ cache' = Taken(cache)
  /\ IF mounted THEN Filled(Taken(cache)) ELSE UNCHANGED <<form, preview, behind>>
  /\ UNCHANGED <<server, header, mounted, confirm, calls, others, crossed, outdated>>

Retry ==
  /\ Failed /\ AtRest(cache) /\ cache' = Asked(cache)
  /\ UNCHANGED <<server, header, screen, calls, history>>

(* The title is on the screen all the time.                                *)
ServeTitle ==
  /\ header.fetch = "asked"
  /\ \E value \in {server.fields, Failure} : header' = AnsweredWith(header, value)
  /\ UNCHANGED <<server, cache, screen, calls, history>>

TakeTitle ==
  /\ header.fetch = "answered" /\ header' = Taken(header)
  /\ UNCHANGED <<server, cache, screen, calls, history>>

RefreshHeaderTitle == Invalidated(header, TRUE)

-----------------------------------------------------------------------------
(* The fields.  A save sends every one of them, as typed.                  *)

Type(f) ==
  /\ Showing /\ ~Pending(save) /\ form' = f
  /\ UNCHANGED <<server, cache, header, mounted, preview, confirm, calls, history>>

HandleSave ==
  /\ Showing /\ form \in Fields \ Bad /\ Fresh(save) /\ save' = Call(form)
  /\ UNCHANGED <<server, cache, header, screen, upload, removal, history>>

AcceptSave ==
  /\ save.pc = "sent" /\ server' = [server EXCEPT !.fields = save.arg]
  /\ \E heard \in BOOLEAN :
       /\ save' = [save EXCEPT !.pc = "answered", !.ok = heard, !.got = server']
       /\ outdated' = (outdated \/ ~heard)
  /\ UNCHANGED <<cache, header, screen, upload, removal, others, behind, crossed>>

RefuseSave ==
  /\ save.pc = "sent" /\ save' = [save EXCEPT !.pc = "answered"]
  /\ UNCHANGED <<server, cache, header, screen, upload, removal, history>>

(* The answer, what the server had when it saved, is written over the      *)
(* copy; a read under way is left alone and may put an older one back.     *)
Updated == Written(cache, save.got)
SaveLands ==
  /\ save.pc = "answered" /\ save' = Settled
  /\ IF save.ok THEN cache' = Updated /\ header' = RefreshHeaderTitle
                ELSE UNCHANGED <<cache, header>>
  /\ IF mounted /\ save.ok THEN Filled(Updated) ELSE UNCHANGED <<form, preview, behind>>
  /\ UNCHANGED <<server, mounted, confirm, upload, removal, others, crossed, outdated>>

-----------------------------------------------------------------------------
(* The logo.  An upload does not wait for a removal, nor the other way     *)
(* round.                                                                  *)

HandleUpload ==
  /\ Showing /\ Fresh(upload) /\ upload' = Call(TRUE)
  /\ crossed' = (crossed \/ UnderWay(removal))
  /\ UNCHANGED <<server, cache, header, screen, save, removal, others, behind, outdated>>

AskRemove ==
  /\ Showing /\ preview /\ ~Pending(removal) /\ confirm' = TRUE
  /\ UNCHANGED <<server, cache, header, mounted, form, preview, calls, history>>

Dismiss ==
  /\ confirm /\ ~Pending(removal) /\ confirm' = FALSE
  /\ UNCHANGED <<server, cache, header, mounted, form, preview, calls, history>>

(* The dialog closes at once.                                              *)
ConfirmRemove ==
  /\ confirm /\ confirm' = FALSE
  /\ Fresh(removal) /\ removal' = Call(FALSE)
  /\ crossed' = (crossed \/ UnderWay(upload))
  /\ UNCHANGED <<server, cache, header, mounted, form, preview, save, upload, others, behind, outdated>>

AcceptLogo ==
  /\ \E heard \in BOOLEAN :
       \/ /\ upload.pc = "sent" /\ server' = [server EXCEPT !.logo = TRUE]
          /\ upload' = [upload EXCEPT !.pc = "answered", !.ok = heard]
          /\ behind' = (behind \/ ~heard \/ ~upload.mine) /\ UNCHANGED removal
       \/ /\ removal.pc = "sent" /\ server' = [server EXCEPT !.logo = FALSE]
          /\ removal' = [removal EXCEPT !.pc = "answered", !.ok = heard]
          /\ behind' = (behind \/ ~heard \/ ~removal.mine) /\ UNCHANGED upload
  /\ UNCHANGED <<cache, header, screen, save, others, crossed, outdated>>

RefuseLogo ==
  /\ \/ upload.pc = "sent" /\ upload' = [upload EXCEPT !.pc = "answered"] /\ UNCHANGED removal
     \/ removal.pc = "sent" /\ removal' = [removal EXCEPT !.pc = "answered"] /\ UNCHANGED upload
  /\ UNCHANGED <<server, cache, header, screen, save, history>>

(* The screen that started it is told, if it is still there.               *)
UploadLands ==
  /\ upload.pc = "answered" /\ upload' = Settled
  /\ preview' = (preview \/ (upload.mine /\ upload.ok))
  /\ UNCHANGED <<server, cache, header, mounted, form, confirm, save, removal, history>>

RemovalLands ==
  /\ removal.pc = "answered" /\ removal' = Settled
  /\ preview' = (preview /\ ~(removal.mine /\ removal.ok))
  /\ UNCHANGED <<server, cache, header, mounted, form, confirm, save, upload, history>>

-----------------------------------------------------------------------------
(* Another superuser writes.                                               *)
Another ==
  /\ ~others /\ Writes < MaxWrites /\ others' = TRUE /\ server' \in [fields : Fields \ Bad, logo : BOOLEAN]
  /\ behind' = TRUE /\ outdated' = TRUE
  /\ UNCHANGED <<cache, header, screen, calls, crossed>>

Next ==
  \/ Enter \/ Leave \/ Serve \/ Take \/ Retry \/ ServeTitle \/ TakeTitle
  \/ \E f \in Fields : Type(f)
  \/ HandleSave \/ AcceptSave \/ RefuseSave \/ SaveLands
  \/ HandleUpload \/ AskRemove \/ Dismiss \/ ConfirmRemove
  \/ AcceptLogo \/ RefuseLogo \/ UploadLands \/ RemovalLands \/ Another

Spec == Init /\ [][Next]_vars

-----------------------------------------------------------------------------
(* With every answer in, the preview shows a logo exactly when there is    *)
(* one: parameters.tsx, 198-252.  Excused are a preview filled from a copy *)
(* that was already old (a change of logo does not refresh the copy), a    *)
(* change nobody told the screen of, and an upload and a removal that      *)
(* crossed.                                                                *)
PreviewSettles ==
  Showing /\ form # Nothing /\ Resting /\ ~behind /\ ~crossed => preview = server.logo

(* With every answer in, the title beside the logo is the one saved last,  *)
(* whichever screen the superuser went to: parameters.tsx, 189-191.        *)
TitleSettles ==
  Resting /\ AtRest(header) /\ ~header.error /\ ~outdated => header.data = server.fields

(* The form holds what is being saved until the answer comes.              *)
SentAsShown == Showing /\ Pending(save) => form = save.arg

-----------------------------------------------------------------------------
(* What every step keeps, from which the properties above follow:          *)
(* DeskProofs.tla.                                                         *)

(* The shape of a query, of a mutation and of the state.                   *)
QueryShape(q) ==
  /\ q = [data |-> q.data, error |-> q.error, stale |-> q.stale, fetch |-> q.fetch, got |-> q.got]
  /\ q.fetch \in {"none", "asked", "answered"} /\ q.error \in BOOLEAN

CallShape(call) ==
  /\ call = [pc |-> call.pc, arg |-> call.arg, ok |-> call.ok, got |-> call.got, mine |-> call.mine]
  /\ call.pc \in {"idle", "sent", "answered", "settled"} /\ call.ok \in BOOLEAN /\ call.mine \in BOOLEAN
  /\ call.pc = "sent" => ~call.ok

Copies == [fields : Fields \ Bad, logo : BOOLEAN]

Shaped ==
  /\ server \in Copies /\ form \in Fields \cup {Nothing}
  /\ QueryShape(cache) /\ cache.data \in Copies \cup {Nothing}
  /\ cache.fetch = "answered" => cache.got \in Copies \cup {Failure}
  /\ QueryShape(header) /\ header.data \in (Fields \ Bad) \cup {Nothing}
  /\ header.fetch = "answered" => header.got \in (Fields \ Bad) \cup {Failure}
  /\ CallShape(save) /\ CallShape(upload) /\ CallShape(removal)
  /\ UnderWay(save) => save.arg \in Fields \ Bad
  /\ save.pc = "answered" /\ save.ok => save.got \in Copies
  /\ mounted \in BOOLEAN /\ preview \in BOOLEAN /\ confirm \in BOOLEAN /\ others \in BOOLEAN
  /\ behind \in BOOLEAN /\ crossed \in BOOLEAN /\ outdated \in BOOLEAN

(* What is being saved stays in the form, which is filled as soon as there *)
(* is something to fill it with.                                           *)
Typing ==
  /\ Pending(save) => mounted /\ form = save.arg
  /\ mounted /\ cache.data # Nothing => form # Nothing

(* Until a save is heard of, the title shows or awaits what is saved.      *)
Titled ==
  ~outdated =>
    \/ save.pc = "answered" /\ save.ok
    \/ /\ header.fetch = "answered" => header.got \in {server.fields, Failure}
       /\ header.fetch = "none" => header.error \/ header.data = server.fields

(* A change of logo whose screen is still there to be told.                *)
Heard(call) == call.pc = "answered" /\ call.ok /\ call.mine

(* A change of logo that was heard of is the last one.                     *)
Told ==
  ~crossed =>
    /\ UnderWay(upload) /\ UnderWay(removal) => ~upload.mine /\ ~removal.mine
    /\ ~behind /\ Heard(upload) => server.logo
    /\ ~behind /\ Heard(removal) => ~server.logo

(* The preview is right, or about to be put right.                         *)
Previewed ==
  form # Nothing /\ ~behind /\ ~crossed =>
    (preview <=> server.logo) \/ Heard(upload) \/ Heard(removal)

IInv == Shaped /\ Typing /\ Titled /\ Told /\ Previewed
=============================================================================
