----------------------------- MODULE DeskProofs -----------------------------
(***************************************************************************)
(* What holds of the services and of every screen holds of the desk that   *)
(* MCDesk.tla puts together, for any values of its constants:              *)
(* ServicesProofs.tla and ScreensProofs.tla.                               *)
(***************************************************************************)
EXTENDS MCDesk, ScreensProofs, ServicesProofs

-----------------------------------------------------------------------------
(* The dashboard keeps its shape.                                          *)

LEMMA BoardInit ==
  ASSUME Board!DashboardAssumption, Board!Init
  PROVE  Board!TypeOK
BY DEF Board!DashboardAssumption, Board!Init, Board!Blank, Board!TypeOK, Board!NoFilters

LEMMA BoardInductive ==
  ASSUME Board!DashboardAssumption, Board!TypeOK, [Board!Next]_Board!vars
  PROVE  Board!TypeOK'
<1>1. CASE UNCHANGED Board!vars
  BY <1>1 DEF Board!vars, Board!TypeOK, Board!Params
<1>2. ASSUME NEW y \in BoardYears, NEW m \in BoardMonths
      PROVE  Board!PeriodParams(y, m) \in Board!ParamsAll
  BY DEF Board!ParamsAll
<1>3. ASSUME NEW p \in Board!ParamsAll, NEW before,
             before = Unset \/ before \in Board!ParamsAll \X BoardVersions,
             Board!Use(p, before), Board!Params' = p
      PROVE  /\ v5' \in {"here", "awaited", "failed"}
             /\ IF v6' = Unset THEN v5' # "here" ELSE v6' \in Board!ParamsAll \X BoardVersions
             /\ v5' = "here" => v6'[1] = Board!Params'
  BY <1>3 DEF Board!Use, Board!DashboardAssumption
<1>4. ASSUME NEW y \in BoardYears, NEW m \in BoardMonths, Board!SelectPeriod(y, m)
      PROVE  Board!TypeOK'
  <2>1. /\ v2' = y /\ v3' = m /\ v4' = Board!NoFilters /\ v7' = FALSE /\ v1' = v1
        /\ Board!Params' = Board!PeriodParams(y, m)
    BY <1>4 DEF Board!SelectPeriod, Board!Selected, Board!Params
  <2>2. CASE Board!PeriodParams(y, m) = Board!Params
    BY <1>4, <2>1, <2>2 DEF Board!SelectPeriod, Board!TypeOK, Board!NoFilters
  <2>3. CASE Board!PeriodParams(y, m) # Board!Params
    <3>1. Board!Use(Board!PeriodParams(y, m), v6)
          /\ (v6 = Unset \/ v6 \in Board!ParamsAll \X BoardVersions)
      BY <1>4, <2>3 DEF Board!SelectPeriod, Board!TypeOK
    <3> QED
      BY <1>2, <1>3, <2>1, <3>1 DEF Board!TypeOK, Board!NoFilters
  <2> QED
    BY <2>2, <2>3
<1>5. ASSUME NEW y \in BoardYears, Board!SelectYear(y)
      PROVE  Board!TypeOK'
  BY <1>4, <1>5 DEF Board!SelectYear, Board!TypeOK
<1>6. ASSUME NEW m \in BoardMonths, Board!SelectMonth(m)
      PROVE  Board!TypeOK'
  BY <1>4, <1>6 DEF Board!SelectMonth, Board!TypeOK
<1>7. ASSUME NEW p \in BoardYears \X BoardMonths, Board!PickMonth(p)
      PROVE  Board!TypeOK'
  BY <1>4, <1>7 DEF Board!PickMonth
<1>8. ASSUME NEW d \in Board!Dimensions, Board!Toggle(d)
      PROVE  Board!TypeOK'
  <2>1. UNCHANGED <<v1, v2, v3, v5, v6>> /\ v7' \in BOOLEAN /\ Board!Params' = Board!Params
    BY <1>8 DEF Board!Toggle, Board!TypeOK, Board!Params
  <2>2. DOMAIN v4' = Board!Dimensions
    BY <1>8 DEF Board!Toggle, Board!ToggleFilter, Board!TypeOK
  <2> QED
    BY <2>1, <2>2 DEF Board!TypeOK
<1>9. CASE Board!ClearFilters
  BY <1>9 DEF Board!ClearFilters, Board!TypeOK, Board!NoFilters, Board!Params
<1>10. CASE Board!Arrive
  <2>1. UNCHANGED <<v1, v2, v3, v4>> /\ Board!Params' = Board!Params
        /\ Board!Params \in Board!ParamsAll
    BY <1>2, <1>10 DEF Board!Arrive, Board!TypeOK, Board!Params
  <2>2. v7' \in BOOLEAN
    BY <1>10 DEF Board!Arrive, Board!TypeOK
  <2>3. CASE v5' = "here" /\ \E v \in BoardVersions : v6' = <<Board!Params, v>>
    BY <2>1, <2>2, <2>3 DEF Board!TypeOK, Board!DashboardAssumption
  <2>4. CASE v5 = "awaited" /\ v5' = "failed" /\ UNCHANGED v6
    BY <2>1, <2>2, <2>4 DEF Board!TypeOK
  <2> QED
    BY <1>10, <2>3, <2>4 DEF Board!Arrive
<1>11. CASE Board!Retry
  BY <1>11 DEF Board!Retry, Board!TypeOK, Board!Params
<1>12. CASE Board!Return
  <2>1. /\ v2' = BoardYear /\ v3' = BoardMonth /\ v4' = Board!NoFilters
        /\ v7' = FALSE /\ v1' = v1 /\ BoardYear \in BoardYears /\ BoardMonth \in BoardMonths
        /\ Board!Use(Board!PeriodParams(BoardYear, BoardMonth), Unset)
        /\ Board!Params' = Board!PeriodParams(BoardYear, BoardMonth)
    BY <1>12 DEF Board!Return, Board!DashboardAssumption, Board!Params
  <2> QED
    BY <1>2, <1>3, <2>1 DEF Board!TypeOK, Board!NoFilters
<1> QED
  BY <1>1, <1>5, <1>6, <1>7, <1>8, <1>9, <1>10, <1>11, <1>12 DEF Board!Next

-----------------------------------------------------------------------------
(* The desk: a behaviour is of one part, which keeps its own invariant.    *)

DeskInv ==
  /\ part = "text" => v1 \in Seq(Text!Tokens)
  /\ part = "bus" => Bus!IInv
  /\ part = "bank" => Bank!IInv
  /\ part = "payments" => Paid!IInv
  /\ part = "reports" => Reporting!IInv
  /\ part = "paper" => Paper!IInv
  /\ part = "settings" => Params!IInv
  /\ part = "names" => Names!IInv
  /\ part = "migration" => Legacy!IInv
  /\ part = "home" => Home!IInv
  /\ part = "door" => Door!IInv
  /\ part = "asking" => Asking!IInv
  /\ part = "company" => Company!IInv
  /\ part = "admin" => Manage!IInv
  /\ part = "panel" => Panel!IInv
  /\ part = "detail" => Detail!IInv
  /\ part = "charts" => v1 \in Seq(0..4)
  /\ part = "board" => Board!TypeOK

LEMMA DeskInit == Init => DeskInv
<1> SUFFICES ASSUME Init
             PROVE  DeskInv
  OBVIOUS
<1>1. ASSUME part = "bus"
      PROVE  Bus!IInv
  BY <1>1, DeskAssumption, BusInit DEF Init, DeskAssumption, ServicesAssumption
<1>2. ASSUME part = "settings"
      PROVE  Params!IInv
  BY <1>2, DeskAssumption, ParamsInit DEF Init, DeskAssumption, ScreensAssumption
<1>3. ASSUME part = "names"
      PROVE  Names!IInv
  BY <1>3, NamesInit DEF Init
<1>4. ASSUME part = "migration"
      PROVE  Legacy!IInv
  BY <1>4, DeskAssumption, LegacyInit DEF Init, DeskAssumption, ScreensAssumption
<1>5. ASSUME part = "home"
      PROVE  Home!IInv
  BY <1>5, DeskAssumption, HomeInit DEF Init, DeskAssumption, ScreensAssumption
<1>6. ASSUME part = "door"
      PROVE  Door!IInv
  BY <1>6, DoorInit DEF Init
<1>7. ASSUME part = "asking"
      PROVE  Asking!IInv
  BY <1>7, DeskAssumption, AskingInit DEF Init, DeskAssumption, ScreensAssumption
<1>8. ASSUME part = "company"
      PROVE  Company!IInv
  BY <1>8, DeskAssumption, CompanyInit DEF Init, DeskAssumption, ScreensAssumption
<1>9. ASSUME part = "admin"
      PROVE  Manage!IInv
  BY <1>9, ManageInit DEF Init
<1>10. ASSUME part = "panel"
      PROVE  Panel!IInv
  BY <1>10, PanelInit DEF Init
<1>11. ASSUME part = "detail"
      PROVE  Detail!IInv
  BY <1>11, DetailInit DEF Init
<1>12. ASSUME part = "text"
      PROVE  v1 \in Seq(Text!Tokens)
  <2>1. v1 = <<>>
    BY <1>12 DEF Init
  <2> QED
    BY <2>1, EmptySeq
<1>13. ASSUME part = "payments"
      PROVE  Paid!IInv
  BY <1>13, DeskAssumption, PaidInit DEF Init, DeskAssumption, ServicesAssumption
<1>14. ASSUME part = "paper"
      PROVE  Paper!IInv
  BY <1>14, DeskAssumption, PaperInit DEF Init, DeskAssumption, ServicesAssumption
<1>15. ASSUME part = "bank"
       PROVE  Bank!IInv
  BY <1>15, DeskAssumption, BankInit DEF Init, DeskAssumption, ServicesAssumption
<1>16. ASSUME part = "reports"
       PROVE  Reporting!IInv
  BY <1>16, DeskAssumption, ReportingInit
     DEF Init, DeskAssumption, ServicesAssumption, Reporting!ReportsAssumption
<1>17. ASSUME part = "charts"
       PROVE  v1 \in Seq(0..4)
  <2>1. v1 = <<>>
    BY <1>17 DEF Init
  <2> QED
    BY <2>1, EmptySeq
<1>18. ASSUME part = "board"
       PROVE  Board!TypeOK
  BY <1>18, DeskAssumption, BoardInit DEF Init, DeskAssumption
<1> QED
  BY <1>1, <1>2, <1>3, <1>4, <1>5, <1>6, <1>7, <1>8, <1>9, <1>10, <1>11, <1>12, <1>13, <1>14,
     <1>15, <1>16, <1>17, <1>18 DEF DeskInv

LEMMA DeskInductive ==
  ASSUME DeskInv, [Next]_vars
  PROVE  DeskInv'
<1>1. part' = part
  BY DEF Next, vars
<1>2. ASSUME part = "bus"
      PROVE  Bus!IInv'
  <2>1. [Bus!Next]_Bus!vars
    BY <1>2 DEF Next, vars, Bus!vars
  <2> QED
    BY <1>2, <2>1, DeskAssumption, BusInductive DEF DeskInv, DeskAssumption, ServicesAssumption
<1>3. ASSUME part = "settings"
      PROVE  Params!IInv'
  <2>1. [Params!Next]_Params!vars
    BY <1>3 DEF Next, vars, Params!vars
  <2> QED
    BY <1>3, <2>1, DeskAssumption, ParamsInductive DEF DeskInv, DeskAssumption, ScreensAssumption
<1>4. ASSUME part = "names"
      PROVE  Names!IInv'
  <2>1. [Names!Next]_Names!vars
    BY <1>4 DEF Next, vars, Names!vars
  <2> QED
    BY <1>4, <2>1, NamesInductive DEF DeskInv
<1>5. ASSUME part = "migration"
      PROVE  Legacy!IInv'
  <2>1. [Legacy!Next]_Legacy!vars
    BY <1>5 DEF Next, vars, Legacy!vars
  <2> QED
    BY <1>5, <2>1, DeskAssumption, LegacyInductive DEF DeskInv, DeskAssumption, ScreensAssumption
<1>6. ASSUME part = "home"
      PROVE  Home!IInv'
  <2>1. [Home!Next]_Home!vars
    BY <1>6 DEF Next, vars, Home!vars
  <2> QED
    BY <1>6, <2>1, DeskAssumption, HomeInductive DEF DeskInv, DeskAssumption, ScreensAssumption
<1>7. ASSUME part = "door"
      PROVE  Door!IInv'
  <2>1. [Door!Next]_Door!vars
    BY <1>7 DEF Next, vars, Door!vars
  <2> QED
    BY <1>7, <2>1, DoorInductive DEF DeskInv
<1>8. ASSUME part = "asking"
      PROVE  Asking!IInv'
  <2>1. [Asking!Next]_Asking!vars
    BY <1>8 DEF Next, vars, Asking!vars
  <2> QED
    BY <1>8, <2>1, DeskAssumption, AskingInductive DEF DeskInv, DeskAssumption, ScreensAssumption
<1>9. ASSUME part = "company"
      PROVE  Company!IInv'
  <2>1. [Company!Next]_Company!vars
    BY <1>9 DEF Next, vars, Company!vars
  <2> QED
    BY <1>9, <2>1, DeskAssumption, CompanyInductive DEF DeskInv, DeskAssumption, ScreensAssumption
<1>10. ASSUME part = "admin"
      PROVE  Manage!IInv'
  <2>1. [Manage!Next]_Manage!vars
    BY <1>10 DEF Next, vars, Manage!vars
  <2> QED
    BY <1>10, <2>1, DeskAssumption, ManageInductive DEF DeskInv, DeskAssumption, ScreensAssumption
<1>11. ASSUME part = "panel"
      PROVE  Panel!IInv'
  <2>1. [Panel!Next]_Panel!vars
    BY <1>11 DEF Next, vars, Panel!vars
  <2> QED
    BY <1>11, <2>1, PanelInductive DEF DeskInv
<1>12. ASSUME part = "detail"
      PROVE  Detail!IInv'
  <2>1. [Detail!Next]_Detail!vars
    BY <1>12 DEF Next, vars, Detail!vars
  <2> QED
    BY <1>12, <2>1, DeskAssumption, DetailInductive DEF DeskInv, DeskAssumption, ScreensAssumption
<1>13. ASSUME part = "text"
      PROVE  v1' \in Seq(Text!Tokens)
  <2>1. v1 \in Seq(Text!Tokens)
    BY <1>13 DEF DeskInv
  <2>2. CASE UNCHANGED vars
    BY <2>1, <2>2 DEF vars
  <2>3. CASE Keyed
    <3>1. PICK token \in Text!Tokens : v1' = Append(v1, token)
      BY <2>3, TextTokensApart DEF Keyed
    <3> QED
      BY <2>1, <3>1, AppendProperties
  <2> QED
    BY <1>13, <2>2, <2>3 DEF Next
<1>14. ASSUME part = "payments"
      PROVE  Paid!IInv'
  <2>1. [Paid!Next]_Paid!vars
    BY <1>14 DEF Next, vars, Paid!vars
  <2> QED
    BY <1>14, <2>1, DeskAssumption, PaidInductive DEF DeskInv, DeskAssumption, ServicesAssumption
<1>15. ASSUME part = "paper"
      PROVE  Paper!IInv'
  <2>1. [Paper!Next]_Paper!vars
    BY <1>15 DEF Next, vars, Paper!vars
  <2> QED
    BY <1>15, <2>1, DeskAssumption, PaperInductive DEF DeskInv, DeskAssumption, ServicesAssumption
<1>16. ASSUME part = "bank"
       PROVE  Bank!IInv'
  <2>1. [Bank!Next]_Bank!vars
    BY <1>16 DEF Next, vars, Bank!vars
  <2> QED
    BY <1>16, <2>1, DeskAssumption, BankInductive DEF DeskInv, DeskAssumption, ServicesAssumption
<1>17. ASSUME part = "reports"
       PROVE  Reporting!IInv'
  <2>1. [Reporting!Next]_Reporting!vars
    BY <1>17 DEF Next, vars, Reporting!vars
  <2> QED
    BY <1>17, <2>1, DeskAssumption, ReportingInductive
       DEF DeskInv, DeskAssumption, ServicesAssumption
<1>18. ASSUME part = "charts"
       PROVE  v1' \in Seq(0..4)
  <2>1. v1 \in Seq(0..4)
    BY <1>18 DEF DeskInv
  <2>2. CASE UNCHANGED vars
    BY <2>1, <2>2 DEF vars
  <2>3. CASE Plotted
    <3>1. PICK value \in 0..4 : v1' = Append(v1, value)
      BY <2>3 DEF Plotted
    <3> QED
      BY <2>1, <3>1, AppendProperties
  <2> QED
    BY <1>18, <2>2, <2>3 DEF Next
<1>19. ASSUME part = "board"
       PROVE  Board!TypeOK'
  <2>1. [Board!Next]_Board!vars
    BY <1>19 DEF Next, vars, Board!vars
  <2> QED
    BY <1>19, <2>1, DeskAssumption, BoardInductive DEF DeskInv, DeskAssumption
<1> QED
  BY <1>1, <1>2, <1>3, <1>4, <1>5, <1>6, <1>7, <1>8, <1>9, <1>10, <1>11, <1>12, <1>13, <1>14,
     <1>15, <1>16, <1>17, <1>18, <1>19 DEF DeskInv

LEMMA DeskAlways == Spec => []DeskInv
<1>1. Init => DeskInv
  BY DeskInit
<1>2. DeskInv /\ [Next]_vars => DeskInv'
  BY DeskInductive
<1> QED
  BY <1>1, <1>2, PTL DEF Spec

(* A publication that returns has called every handler that was registered *)
(* when it started: domain-events.service.ts, 80-101.                      *)
THEOREM HandlersServed == Spec => []EveryHandlerServed
<1>1. DeskInv => EveryHandlerServed
  BY DeskAssumption, BusMeans
     DEF DeskInv, EveryHandlerServed, DeskAssumption, ServicesAssumption
<1> QED
  BY <1>1, DeskAlways, PTL

(* A change of a logo nobody disturbed leaves exactly that image to be     *)
(* served: parameters.service.ts, 352-457.                                 *)
THEOREM LogosServed == Spec => []LogoAsUploaded
<1>1. DeskInv => LogoAsUploaded
  BY ParamsMean DEF DeskInv, LogoAsUploaded
<1> QED
  BY <1>1, DeskAlways, PTL

(* A parameter holds what its last update wrote, and no two modules have   *)
(* names that differ only in case: parameters.service.ts, 104-203, and     *)
(* system-modules.service.ts, 205-228.                                     *)
THEOREM SettingsHold == Spec => []SettingsStand
<1>1. DeskInv => SettingsStand
  BY ParamsMean DEF DeskInv, SettingsStand, Names!IInv
<1> QED
  BY <1>1, DeskAlways, PTL

(* The page of tickets on the screen exists, unless it was turned while a  *)
(* search or the remembered filters were to come, and the list opens again *)
(* under the filters it was left with: app/index.tsx, 61-90 and 133-138.   *)
THEOREM ListHolds == Spec => []ListKeepsPlace
<1>1. DeskInv => ListKeepsPlace
  BY HomeMeans DEF DeskInv, ListKeepsPlace
<1> QED
  BY <1>1, DeskAlways, PTL

(* The migration leaves all of it or none of it, and either way the next   *)
(* user finds a free id; what validate.ts passes has left nothing out:     *)
(* migrate.ts, 118-155 and 371-388.                                        *)
THEOREM MigrationWhole == Spec => []AllOrNothing
<1>1. DeskInv => AllOrNothing
  BY LegacyMeans DEF DeskInv, AllOrNothing
<1> QED
  BY <1>1, DeskAlways, PTL

(* What a screen of the desk shows and sends is what is so.  One ticket,   *)
(* its activities and the lists of the superuser show what the server has, *)
(* once nothing is under way and nobody else wrote                         *)
(* (ticket-detail.tsx, ActivityPanel.tsx and the three screens of          *)
(* AdminList.tla); so do the parameters and the title above every screen   *)
(* (parameters.tsx, useParameters.ts).  The fields of a report say the     *)
(* dates that are asked for, and its file holds those days (reports.tsx).  *)
(* Whoever has signed out is let into no screen, and whoever is signed in  *)
(* is not sent away (session.tsx, _layout.tsx).                            *)
THEOREM ScreensHold == Spec => []ScreensSettle
<1>1. DeskInv => ScreensSettle
  BY DeskAssumption, DetailMeans, PanelMeans, ManageMeans, CompanyMeans, AskingMeans, DoorMeans
     DEF DeskInv, ScreensSettle, DeskAssumption, ScreensAssumption
<1> QED
  BY <1>1, DeskAlways, PTL

(* Whatever text is typed into a field for an amount, of any length, it is *)
(* refused or read as it was meant, and what the server formats comes back *)
(* as it was; somebody who turns the pages of the payments while nobody    *)
(* writes sees each of the period once, in order, and at the end its       *)
(* totals: decimal-input.ts, 1-20, and payments.service.ts, 62-88.         *)
THEOREM PaymentsHold == Spec => []PaymentsRight
<1>1. DeskInv => PaymentsRight
  BY DeskAssumption, TextReadsAsMeant, PaidMeans
     DEF DeskInv, PaymentsRight, DeskAssumption, ServicesAssumption
<1> QED
  BY <1>1, DeskAlways, PTL

(* Every slot worked in a cycle of the hours bank is counted once, in its  *)
(* month, and only what exceeds a month's allowance is due; the cycles of  *)
(* a closing day up to 28 leave no gap and do not overlap; a summary that  *)
(* nobody disturbed adds up: hours-bank.calculator.ts, 99-276, and         *)
(* hours-bank.service.ts, 77-114.                                          *)
THEOREM BankHolds == Spec => []BankCountsEachSlot
<1>1. DeskInv => BankCountsEachSlot
  BY DeskAssumption, BankMeans
     DEF DeskInv, BankCountsEachSlot, DeskAssumption, ServicesAssumption
<1> QED
  BY <1>1, DeskAlways, PTL

(* The figures of the dashboard, which statements of different snapshots   *)
(* fill while the rows change, add up when nothing disturbed them, the     *)
(* trend has every month it stands for, and a report holds the tickets of  *)
(* its days and the time the dashboard charges: analytics.service.ts,      *)
(* 197-650, and reports.service.ts, 96-330.  However high the texts of its *)
(* pages are, no box is drawn over another or over the margin, but a row   *)
(* that no page could hold: report-pdf.service.ts, 102-460.                *)
THEOREM FiguresHold == Spec => []FiguresAddUp
<1>1. DeskInv => FiguresAddUp
  BY DeskAssumption, PaperMeans, ReportingFiguresMean, ReportingTotalsMean
     DEF DeskInv, FiguresAddUp, DeskAssumption, ServicesAssumption, Reporting!ReportsAssumption
<1> QED
  BY <1>1, DeskAlways, PTL
=============================================================================
