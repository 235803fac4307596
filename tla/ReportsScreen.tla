---------------------------- MODULE ReportsScreen ----------------------------
(***************************************************************************)
(* The screen of the two reports: frontend/app/reports.tsx with            *)
(* hooks/useReports.ts, components/DateField and domain/format.ts.         *)
(*                                                                         *)
(* A date field keeps the text being typed beside the value its screen     *)
(* keeps, and two effects run between them.  The report follows the        *)
(* fields; the file is asked for with the fields of the click and saved    *)
(* when it comes.  A day is a number, 0 for none; Unfinished is a text     *)
(* that is no date, cut short or of a day that does not exist.             *)
(***************************************************************************)
EXTENDS Integers, FiniteSets

CONSTANTS
  Typed,        \* texts one may type: days, 0 or Unfinished
  FirstOfMonth, Today,
  LastDays,     \* LAST_DAYS_CHOICES
  Months,       \* year and month, selectable
  ThisMonth,
  WorkedDays, WorkedMonths, \* those with activities of the viewer
  Nothing

Tabs == {"activities", "services"}
Fields == {"start", "end"}
Unfinished == -1

ReportsScreenAssumption ==
  /\ Typed \subseteq Nat \cup {Unfinished} /\ {FirstOfMonth, Today} \subseteq Nat \ {0}
  /\ LastDays \subseteq 1..Today /\ ThisMonth \in Months
  /\ Nothing \notin Nat

VARIABLES
  tab,
  date,     \* start and end, as the screen keeps them
  text,     \* of the two fields, while they are on the screen
  month,
  today,
  drawn,    \* the day of the last render
  answer,   \* to the query of the tab that is open
  kept,     \* the query of the last report shown on it
  pdf,      \* the download under way; said is history, the days the fields
            \* said at the press
  file,     \* the file just saved
  pressed   \* history: the shortcut the dates are of, 0 when typed or when the
            \* chip was drawn the day before

vars == <<tab, date, text, month, today, drawn, answer, kept, pdf, file, pressed>>

-----------------------------------------------------------------------------
(* formatIsoDate and parseBrDateToIso.                                     *)
Formatted(value) == value
Parsed(typed) == IF typed > 0 THEN typed ELSE Nothing
ValueOf(typed) == IF Parsed(typed) = Nothing THEN 0 ELSE typed

(* isoDaysAgo: today is one of the days.                                   *)
IsoDaysAgo(days, now) == now - (days - 1)

(* What each tab asks for.                                                 *)
KeyOf(t) == IF t = "activities" THEN <<date["start"], date["end"]>> ELSE <<month>>

(* toQueryString leaves out what is blank, and the server fills it in:     *)
(* FirstDay and LastDay of Reports.tla.                                    *)
Served(t, key) ==
  IF t = "activities"
  THEN <<IF key[1] = 0 THEN FirstOfMonth ELSE key[1], IF key[2] = 0 THEN today ELSE key[2]>>
  ELSE key
Refused(t, key) == t = "activities" /\ Served(t, key)[1] > Served(t, key)[2]

-----------------------------------------------------------------------------
TypeOK ==
  /\ tab \in Tabs /\ month \in Months
  /\ DOMAIN date = Fields /\ DOMAIN text = Fields
  /\ \A f \in Fields : date[f] >= 0 /\ text[f] >= Unfinished
  /\ today \in {Today, Today + 1} /\ drawn \in {Today, today}
  /\ answer \in {"awaited", "here", "failed"}
  /\ kept = Nothing \/ kept \in (IF tab = "activities" THEN Int \X Int ELSE {<<m>> : m \in Months})
  /\ pdf = Nothing \/ pdf.source \in Tabs
  /\ file = Nothing \/ file.source \in Tabs
  /\ pressed \in LastDays \cup {0}

Init ==
  /\ tab = "activities"
  /\ date = [f \in Fields |-> IF f = "start" THEN FirstOfMonth ELSE Today]
  /\ text = [f \in Fields |-> Formatted(date[f])]
  /\ month = ThisMonth
  /\ today = Today /\ drawn = Today
  /\ answer = "awaited" /\ kept = Nothing
  /\ pdf = Nothing /\ file = Nothing /\ pressed = 0

(* The report on the screen: of its key, or of the key before while the    *)
(* answer is awaited (keepPreviousData).                                   *)
Shown == IF answer = "failed" THEN Nothing ELSE kept

(* A render draws the report of a tab: what is here, or awaited.           *)
Drawn(t, key, a, before) ==
  /\ a = "here" => ~Refused(t, key)
  /\ answer' = a /\ kept' = IF a = "here" THEN key ELSE before
  /\ drawn' = today

(* Other dates, or another month: the cache may have their report.         *)
Rendered ==
  IF KeyOf(tab)' # KeyOf(tab) THEN \E a \in {"awaited", "here"} : Drawn(tab, KeyOf(tab)', a, kept)
  ELSE Drawn(tab, KeyOf(tab), answer, kept)

-----------------------------------------------------------------------------
(* Bug for checking: the field follows only what is typed in it.           *)
FollowedBug(typed, old, value) == typed

(* The effect of DateField, when its value changed: a text that does not   *)
(* say the value gives way.  A date that loses a digit is emptied: its     *)
(* value became blank and no text parses to that.                          *)
Followed(typed, old, value) ==
  IF value = old \/ Parsed(typed) = value THEN typed ELSE Formatted(value)

(* handleChange.  maskBrDate and maskOnAppend only place the slashes.      *)
Type(f, typed) ==
  /\ tab = "activities" /\ typed # text[f]
  /\ date' = [date EXCEPT ![f] = ValueOf(typed)]
  /\ text' = [text EXCEPT ![f] = Followed(typed, date[f], ValueOf(typed))]
  /\ pressed' = 0
  /\ UNCHANGED <<tab, month, today, pdf>>
  /\ file' = Nothing
  /\ Rendered

(* "30 dias": the first day was counted at the render, the last is read at *)
(* the press.                                                              *)
Shortcut(days) ==
  /\ tab = "activities"
  /\ date' = [f \in Fields |-> IF f = "start" THEN IsoDaysAgo(days, drawn) ELSE today]
  /\ text' = [f \in Fields |-> Followed(text[f], date[f], date'[f])]
  /\ pressed' = IF drawn = today THEN days ELSE 0
  /\ UNCHANGED <<tab, month, today, pdf>>
  /\ file' = Nothing
  /\ Rendered

(* The chip drawn as chosen.                                               *)
Selected(days) == date = [f \in Fields |-> IF f = "start" THEN IsoDaysAgo(days, drawn) ELSE drawn]

ChooseMonth(m) ==
  /\ tab = "services" /\ m # month /\ month' = m
  /\ UNCHANGED <<tab, date, text, today, pdf, pressed>>
  /\ file' = Nothing
  /\ Rendered

(* TabButton.  The fields of a tab are mounted anew, from their values; a  *)
(* report is asked for on the tab that is open only (enabled), and may     *)
(* have come, or been cached, when the tab is opened again.                *)
SetTab(t) ==
  /\ t # tab /\ tab' = t
  /\ text' = [f \in Fields |-> IF t = "activities" THEN Formatted(date[f]) ELSE text[f]]
  /\ UNCHANGED <<date, month, today, pdf, pressed>>
  /\ file' = Nothing
  /\ \E a \in {"awaited", "here"} : Drawn(t, KeyOf(t), a, Nothing)

Arrive ==
  /\ answer = "awaited"
  /\ \E a \in {"here", "failed"} : Drawn(tab, KeyOf(tab), a, kept)
  /\ file' = Nothing
  /\ UNCHANGED <<tab, date, text, month, today, pdf, pressed>>

(* "Tentar novamente": report.refetch().                                   *)
Retry ==
  /\ answer = "failed" /\ Drawn(tab, KeyOf(tab), "awaited", kept)
  /\ file' = Nothing
  /\ UNCHANGED <<tab, date, text, month, today, pdf, pressed>>

(* downloadPdf, one at a time: what is asked for is read at the press.     *)
DownloadPdf ==
  /\ pdf = Nothing
  /\ pdf' = [source |-> tab, params |-> KeyOf(tab), fallbackName |-> KeyOf(tab),
              said |-> Served(tab, KeyOf(tab))]
  /\ file' = Nothing /\ drawn' = today
  /\ UNCHANGED <<tab, date, text, month, today, answer, kept, pressed>>

(* Bug for checking: the file is asked for with the fields of its arrival. *)
AskedBug(download) == [download EXCEPT !.params = KeyOf(download.source)]

Asked(download) == download

(* useReportPdf: the file comes under the name its header gives, or, when  *)
(* a proxy removed the header, under the one made at the press; or it      *)
(* fails, on the server or where it is saved.                              *)
PdfSaved ==
  /\ pdf # Nothing
  /\ LET days == Served(pdf.source, Asked(pdf).params)
     IN /\ ~Refused(pdf.source, Asked(pdf).params)
        /\ \E name \in {days, pdf.fallbackName} :
             file' = [source |-> pdf.source, days |-> days, name |-> name, said |-> pdf.said]
  /\ pdf' = Nothing /\ drawn' = today
  /\ UNCHANGED <<tab, date, text, month, today, answer, kept, pressed>>

PdfFailed ==
  /\ pdf # Nothing /\ pdf' = Nothing /\ file' = Nothing /\ drawn' = today
  /\ UNCHANGED <<tab, date, text, month, today, answer, kept, pressed>>

(* Midnight passes and nothing is drawn again.  Bound: once.               *)
NextDay ==
  /\ today = Today /\ today' = today + 1
  /\ file' = Nothing
  /\ UNCHANGED <<tab, date, text, month, drawn, answer, kept, pdf, pressed>>

Next ==
  \/ \E f \in Fields, typed \in Typed : Type(f, typed)
  \/ \E days \in LastDays : Shortcut(days)
  \/ \E m \in Months : ChooseMonth(m)
  \/ \E t \in Tabs : SetTab(t)
  \/ Arrive \/ Retry \/ DownloadPdf \/ PdfSaved \/ PdfFailed \/ NextDay

Spec == Init /\ [][Next]_vars

-----------------------------------------------------------------------------
(* What is drawn below the fields: the cards, and the days they are of.    *)

ActivityReportView ==
  IF answer = "failed" THEN [parts |-> {"error"}, days |-> Nothing]
  ELSE IF Shown = Nothing THEN [parts |-> {"skeleton"}, days |-> Nothing]
  ELSE LET days == Served("activities", Shown)
           worked == WorkedDays \cap (days[1] .. days[2])
       IN [parts |-> {"tiles"} \cup (IF worked = {} THEN {"empty"} ELSE {"technicians", "tickets"}),
           days |-> days]

ServicesReportView ==
  IF answer = "failed" THEN [parts |-> {"error"}, days |-> Nothing]
  ELSE IF Shown = Nothing THEN [parts |-> {"skeleton"}, days |-> Nothing]
  ELSE LET days == Served("services", Shown)
       IN [parts |-> {"tiles", IF days[1] \in WorkedMonths THEN "rows" ELSE "empty"},
           days |-> days]

View == IF tab = "activities" THEN ActivityReportView ELSE ServicesReportView

-----------------------------------------------------------------------------
(* A date field says the date its screen asks with, blank when it asks     *)
(* with none, whoever changed it last: DateField, 34-43.                   *)
FieldsSayDates == tab = "activities" => \A f \in Fields : ValueOf(text[f]) = date[f]

(* Nothing is said to have happened in days nobody asked for: at rest the  *)
(* report is of the days in the fields, and a tab left and opened again    *)
(* has its own: reports.tsx, 50-51, 187-191.                               *)
ReportOfFields ==
  answer # "awaited" =>
    /\ View.days \in {Nothing, Served(tab, KeyOf(tab))}
    /\ "error" \in View.parts \/ ~Refused(tab, KeyOf(tab))

(* The dates of a shortcut of n days are n days that end today, unless     *)
(* midnight passed between the render and the press; its chip, and no      *)
(* other, is drawn as chosen: reports.tsx, 105-117.                        *)
ShortcutsSpan ==
  pressed # 0 =>
    /\ date["end"] - date["start"] = pressed - 1
    /\ drawn = date["end"] => {days \in LastDays : Selected(days)} = {pressed}

(* The file is of the days the fields said at the press, however they      *)
(* changed since, and a name gives no other day: reports.tsx, 54-69.       *)
FileAsAsked ==
  file # Nothing =>
    /\ file.days = file.said \/ today # Today
    /\ \A i \in DOMAIN file.name : file.name[i] \in {0, file.days[i]}

-----------------------------------------------------------------------------
(* What every step keeps, from which the properties above follow:          *)
(* DeskProofs.tla.                                                         *)

(* What a download asks for, and what the fields said when it began.       *)
AsSaid(download) ==
  /\ download.params = download.fallbackName
  /\ download.source \in Tabs
  /\ \/ download.source = "activities" /\ download.params = <<download.params[1], download.params[2]>>
     \/ download.source = "services" /\ download.params = <<download.params[1]>>
  /\ download.said = Served(download.source, download.params) \/ today # Today

Dated ==
  /\ tab \in Tabs /\ date \in [Fields -> Nat] /\ text \in [Fields -> Int]
  /\ today \in {Today, Today + 1} /\ drawn \in {Today, today}

(* The report that is here is of the fields, and no server refuses it; the *)
(* days of a shortcut are as many as it says.                              *)
IInv ==
  /\ Dated
  /\ FieldsSayDates
  /\ answer \in {"awaited", "here", "failed"}
  /\ answer = "here" => kept = KeyOf(tab) /\ ~Refused(tab, KeyOf(tab))
  /\ pressed # 0 => pressed \in LastDays /\ date["end"] - date["start"] = pressed - 1
  /\ pdf # Nothing => AsSaid(pdf)
  /\ FileAsAsked
=============================================================================
