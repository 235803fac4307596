----------------------------- MODULE TicketList -----------------------------
(***************************************************************************)
(* The list of tickets, the application's first screen:                    *)
(* frontend/app/index.tsx with storage/preferences.ts, domain/periods.ts   *)
(* and hooks/useDebouncedValue.ts.                                         *)
(*                                                                         *)
(* Filters are remembered on the device and read back after an await; the  *)
(* search follows the keyboard late; while an answer is awaited the rows   *)
(* of the previous filters stay.  The year and the month are one number:   *)
(* positive for a month, 0 for all periods, negative for the last days.    *)
(***************************************************************************)
EXTENDS Integers

CONSTANTS
  Periods,    \* values of the selector
  Statuses,   \* values of the filter of status
  Searches,   \* texts one may type, "" among them
  Long,       \* filters whose list takes two pages: period, status, search
  Stored,     \* what the device may hold: a period, perhaps of another
              \* version, and a status, perhaps unknown; or NoFilters
  CurrentMonth, Pending, NoFilters

(* isPeriodValue: a window no version offers is refused.                   *)
IsPeriodValue(value) ==
  value = 0 \/ value >= 1970 \/ 0 - value \in {30, 60, 90, 120}

TicketListAssumption ==
  /\ CurrentMonth \in Periods /\ Pending \in Statuses /\ "" \in Searches
  /\ Periods \subseteq Int /\ \A p \in Periods : IsPeriodValue(p)

VARIABLES
  disk,      \* what the device holds
  mounted,   \* the screen is open
  loaded,    \* filtersLoaded
  period, status, search, page,
  debounced, \* the search as of 350 ms without typing
  answer,    \* to the request of these filters: "here", "awaited", "failed"
  kept,      \* the request of the last rows shown, or NoFilters
  pdf,       \* the report of the month is being downloaded
  chosen,    \* history: the filters shown when the screen was left
  touched,   \* history: chosen by hand since the screen opened
  hurried    \* history: paged between a keystroke and its search

vars == <<disk, mounted, loaded, period, status, search, page, debounced, answer,
          kept, pdf, chosen, touched, hurried>>

-----------------------------------------------------------------------------
(* The filters, and what is asked with them.                               *)

Choice == [year |-> period, status |-> status]
Key == <<period, status, debounced, page>>
Keys == Periods \X Statuses \X Searches \X {1, 2}

TotalPages(key) == IF <<key[1], key[2], key[3]>> \in Long THEN 2 ELSE 1

(* Only a month has hours of its own, and a report to export.              *)
ConcreteMonth == period > 0

(* Bug for checking: what another version wrote is believed.               *)
ParsedBug(stored) == stored

(* parseTicketFilters.                                                     *)
Parsed(stored) ==
  IF stored = NoFilters THEN NoFilters
  ELSE IF IsPeriodValue(stored.year) THEN stored ELSE NoFilters

-----------------------------------------------------------------------------
(* What is shown.                                                          *)

(* The rows: of the request, or of the previous one while it is awaited.   *)
Shown == IF answer = "here" THEN Key ELSE IF answer = "awaited" THEN kept ELSE NoFilters

(* Anterior and Próxima.                                                   *)
Pagination == Shown # NoFilters /\ TotalPages(Shown) > 1
MayPrevious == Pagination /\ page > 1 /\ answer # "awaited"
MayNext == Pagination /\ page < TotalPages(Shown) /\ answer # "awaited"

-----------------------------------------------------------------------------
TypeOK ==
  /\ mounted \in BOOLEAN /\ loaded \in BOOLEAN
  /\ period \in Periods /\ status \in Statuses
  /\ {search, debounced} \subseteq Searches /\ page \in {1, 2}
  /\ answer \in {"here", "awaited", "failed"}
  /\ kept \in Keys \cup {NoFilters}
  /\ pdf \in BOOLEAN /\ touched \in BOOLEAN /\ hurried \in BOOLEAN

Default ==
  /\ period = CurrentMonth /\ status = Pending /\ search = "" /\ page = 1
  /\ debounced = ""

Init ==
  /\ disk \in Stored
  /\ mounted = FALSE /\ loaded = FALSE /\ Default
  /\ answer = "awaited" /\ kept = NoFilters
  /\ pdf = FALSE /\ chosen = NoFilters /\ touched = FALSE /\ hurried = FALSE

(* A render: an answer of these filters in the cache is shown at once, and *)
(* what comes for other filters changes nothing on the screen.             *)
Render ==
  /\ kept' = IF Shown = NoFilters THEN kept ELSE Shown
  /\ IF Key' = Key THEN UNCHANGED answer ELSE answer' \in {"here", "awaited"}

(* Bug for checking: the effect writes the defaults before the device has  *)
(* answered.                                                               *)
SavedBug(choice, ready) == choice

(* The effect that saves: only once the device has answered.               *)
Saved(choice, ready) == IF ready THEN choice ELSE disk

Mount ==
  /\ ~mounted /\ mounted' = TRUE
  /\ loaded' = FALSE /\ touched' = FALSE /\ hurried' = FALSE
  /\ period' = CurrentMonth /\ status' = Pending /\ search' = "" /\ page' = 1
  /\ debounced' = "" /\ kept' = NoFilters
  /\ answer' \in {"here", "awaited"}
  /\ disk' = Saved([year |-> period', status |-> status'], loaded')
  /\ pdf' = FALSE /\ UNCHANGED chosen

Leave ==
  /\ mounted /\ mounted' = FALSE
  /\ chosen' = IF loaded THEN Choice ELSE chosen
  /\ UNCHANGED <<disk, loaded, period, status, search, page, debounced, answer,
                 kept, pdf, touched, hurried>>

(* The device answers: a status no longer offered leaves the default.      *)
FiltersRead ==
  /\ mounted /\ ~loaded /\ loaded' = TRUE
  /\ LET stored == Parsed(disk)
     IN /\ period' = IF stored = NoFilters THEN period ELSE stored.year
        /\ status' = IF stored = NoFilters \/ stored.status \notin Statuses
                     THEN status ELSE stored.status
  /\ disk' = Saved([year |-> period', status |-> status'], loaded')
  /\ UNCHANGED <<mounted, search, page, debounced, pdf, chosen, touched, hurried>>
  /\ Render

(* updateFilter: every choice goes back to the first page.                 *)
Choose(p, s) ==
  /\ mounted /\ (p = period \/ s = status)
  /\ period' = p /\ status' = s /\ page' = 1
  /\ touched' = TRUE
  /\ disk' = Saved([year |-> p, status |-> s], loaded)
  /\ UNCHANGED <<mounted, loaded, search, debounced, pdf, chosen, hurried>>
  /\ Render

Type(text) ==
  /\ mounted /\ text # search /\ search' = text /\ page' = 1
  /\ UNCHANGED <<disk, mounted, loaded, period, status, debounced, pdf,
                 chosen, touched, hurried>>
  /\ Render

(* 350 ms without typing.  The page stays what it is.                      *)
Debounce ==
  /\ mounted /\ debounced # search /\ debounced' = search
  /\ UNCHANGED <<disk, mounted, loaded, period, status, search, page, pdf,
                 chosen, touched, hurried>>
  /\ Render

TurnPage ==
  /\ mounted
  /\ \/ MayPrevious /\ page' = page - 1
     \/ MayNext /\ page' = page + 1
  /\ hurried' = (hurried \/ debounced # search \/ ~loaded)
  /\ UNCHANGED <<disk, mounted, loaded, period, status, search, debounced,
                 pdf, chosen, touched>>
  /\ Render

filters == <<period, status, search, page, debounced>>

Arrive ==
  /\ mounted /\ answer = "awaited" /\ answer' \in {"here", "failed"}
  /\ UNCHANGED <<disk, mounted, loaded, filters, kept, pdf, chosen, touched, hurried>>

(* "Tentar novamente".                                                     *)
Retry ==
  /\ mounted /\ answer = "failed" /\ answer' = "awaited"
  /\ UNCHANGED <<disk, mounted, loaded, filters, kept, pdf, chosen, touched, hurried>>

(* "Exportar PDF": the report of a month, one at a time.                   *)
Export ==
  /\ mounted /\ ConcreteMonth /\ pdf' = ~pdf
  /\ UNCHANGED <<disk, mounted, loaded, filters, answer, kept, chosen, touched, hurried>>

Next ==
  \/ Mount \/ Leave \/ FiltersRead \/ Debounce \/ TurnPage
  \/ Arrive \/ Retry \/ Export
  \/ \E p \in Periods, s \in Statuses : Choose(p, s)
  \/ \E text \in Searches : Type(text)

Spec == Init /\ [][Next]_vars

-----------------------------------------------------------------------------
(* An answer that is here is of a page that exists: an empty list means    *)
(* that nothing was found, app/index.tsx, 133-138.  Excused: a page turned *)
(* while the search, or the remembered filters, were still to come.        *)
PageExists == mounted /\ answer = "here" => page <= TotalPages(Key) \/ hurried

(* Opening the screen again brings the filters it was left with, until one *)
(* is changed: app/index.tsx, 61-90.                                       *)
FiltersRemembered ==
  mounted /\ loaded /\ ~touched /\ chosen # NoFilters => Choice = chosen

-----------------------------------------------------------------------------
(* What every step keeps, from which the properties above follow:          *)
(* DeskProofs.tla.                                                         *)

(* The device holds what the screen shows, or what it showed when it was   *)
(* left; the second page is of a list that has two, and nothing of its     *)
(* filters is still to come.                                               *)
IInv ==
  /\ page \in {1, 2} /\ loaded \in BOOLEAN /\ hurried \in BOOLEAN
  /\ IsPeriodValue(period) /\ status \in Statuses
  /\ chosen # NoFilters =>
       /\ chosen = [year |-> chosen.year, status |-> chosen.status]
       /\ IsPeriodValue(chosen.year) /\ chosen.status \in Statuses
  /\ mounted /\ loaded => disk = Choice
  /\ chosen # NoFilters => (mounted /\ loaded) \/ disk = chosen
  /\ mounted /\ page = 2 /\ ~hurried =>
       loaded /\ debounced = search /\ <<period, status, debounced>> \in Long
  /\ FiltersRemembered
=============================================================================
