------------------------------ MODULE ReportPdf ------------------------------
(***************************************************************************)
(* The reports on paper: backend/src/reports/report-pdf.service.ts.        *)
(*                                                                         *)
(* A document is drawn from top to bottom in points.  Boxes (headings and  *)
(* rows of tables) are drawn where y stands, and somebody must have asked  *)
(* for a new page before; running text asks for its pages by itself, line  *)
(* by line.  Heights of texts are data: every row picks its own.           *)
(***************************************************************************)
EXTENDS Naturals

CONSTANTS
  Details,     \* heights of the first band of a row
  Notes,       \* heights of the second band
  Titles,      \* lines of the text above the table of a ticket: eight at most,
               \* as a title has 200 characters
  Names,       \* lines of its name, with "(continuação)", above a table that goes on
  Logos,       \* images: width and height; NoLogo, also for a URL or a bad file
  NoLogo,
  MaxTickets, MaxRows  \* bounds: tickets of a report, rows of a table

ReportPdfAssumption ==
  /\ Details \cup Notes \subseteq Nat \ {0} /\ Titles \cup Names \subseteq 1..8
  /\ \A logo \in Logos : logo.width \in Nat \ {0} /\ logo.height \in Nat
  /\ MaxTickets \in Nat \ {0} /\ MaxRows \in Nat \ {0}

VARIABLES
  kind,     \* "activities", on paper upright, or "services", sideways
  stage,    \* what is drawn next
  page, y,
  tickets,  \* left to draw
  rows,     \* left to draw in the table
  name,     \* lines of the ticket's name, should its table go on; 0 before any
  heading,  \* page of the heading of the table
  free,     \* history: the first free point of the page, below every box
  last      \* history: the last box drawn

vars == <<kind, stage, page, y, tickets, rows, name, heading, free, last>>

Margin == 36
PageHeight == IF kind = "activities" THEN 842 ELSE 595
Bottom == PageHeight - Margin
Capacity == Bottom - Margin

Stages == {"header", "ticket", "rows", "total", "people", "person", "summary", "end"}
NoBox == [of |-> "nothing", page |-> 1, top |-> Margin, height |-> 0, below |-> Margin]

TypeOK ==
  /\ kind \in {"activities", "services"} /\ stage \in Stages
  /\ page \in Nat /\ y \in Nat /\ heading \in Nat /\ free \in Nat
  /\ tickets \in 0..MaxTickets /\ rows \in 0..MaxRows /\ name \in 0..8
  /\ last.of \in {"nothing", "heading", "row", "person", "summary"}

-----------------------------------------------------------------------------
(* Drawing.  A pen is a page, a y and the first free point.                *)

Pen == [page |-> page, y |-> y, free |-> free]
NewPage(pen) == [page |-> pen.page + 1, y |-> Margin, free |-> Margin]
LargerOf(a, b) == IF a > b THEN a ELSE b
Down(pen, points) == [pen EXCEPT !.y = @ + points]

(* ensureSpace.                                                            *)
EnsureSpace(pen, needed) == IF pen.y + needed > Bottom THEN NewPage(pen) ELSE pen

(* Running text of some lines: a line that does not fit takes a new page.  *)
Line(pen, height) ==
  LET p == EnsureSpace(pen, height)
  IN [p EXCEPT !.y = @ + height, !.free = p.y + height]
Text(pen, lines, height) ==
  LET after[n \in 0..lines] == IF n = 0 THEN pen ELSE Line(after[n - 1], height)
  IN after[lines]

(* A box is drawn at y whatever is there.                                  *)
Boxed(pen, height) == [pen EXCEPT !.y = @ + height, !.free = LargerOf(@, pen.y + height)]
BoxOf(what, pen, height) ==
  [of |-> what, page |-> pen.page, top |-> pen.y, height |-> height, below |-> pen.free]

Put(pen) == page' = pen.page /\ y' = pen.y /\ free' = pen.free

(* drawTableHeader.                                                        *)
HeadingHeight == 18
Headed(pen) == Boxed(pen, HeadingHeight)

(* Bug for checking: the second band is forgotten.                         *)
BlockBug(details, notes) == details

(* What a row needs on its page: both bands.                               *)
Block(details, notes) == details + notes

(* The ticket's name above a table that goes on, with the gap below it.    *)
NameHeight == IF kind = "activities" THEN 12 * name + 4 ELSE 0

(* drawActivityRow and drawServiceRow: a row that does not fit goes below  *)
(* a heading of its own on a new page; over a ticket, below its name too,  *)
(* over as many lines as it takes.                                         *)
BeforeRow(details, notes) ==
  IF y + Block(details, notes) <= Bottom THEN Pen
  ELSE Headed(IF kind = "activities" THEN Down(Text(NewPage(Pen), name, 12), 4)
                                     ELSE NewPage(Pen))

(* Text of a row higher than a page runs into the next ones; y does not.   *)
AfterRow(pen, height) ==
  LET over == IF pen.y + height > Bottom THEN (pen.y + height - Bottom - 1) \div Capacity + 1
              ELSE 0
  IN [page |-> pen.page + over, y |-> pen.y + height, free |-> pen.y + height]

-----------------------------------------------------------------------------
Init ==
  /\ kind \in {"activities", "services"} /\ stage = "header"
  /\ page = 1 /\ y = Margin /\ free = Margin
  /\ tickets \in 0..MaxTickets /\ rows = 0 /\ name = 0
  /\ heading = 1 /\ last = NoBox

(* logoDrawnHeight: the image fits in 180 by 90 and keeps its shape.       *)
LogoHeight(logo) ==
  IF logo.width * 90 >= logo.height * 180 THEN (logo.height * 180) \div logo.width ELSE 90

(* drawHeader: the logo, or the company's name and address.                *)
Header ==
  /\ stage = "header"
  /\ \E logo \in Logos \cup {NoLogo} :
       LET top == IF logo = NoLogo THEN Down(Text(Text(Pen, 1, 18), 1, 11), 7)
                  ELSE Down([Pen EXCEPT !.y = Margin + LogoHeight(logo) + 12], 7)
           below == Down(Text(Text(top, 1, 16), 1, 11), 15)
       IN IF kind = "activities"
          THEN /\ Put(IF tickets = 0 THEN Text(below, 1, 13) ELSE below)
               /\ stage' = IF tickets = 0 THEN "people" ELSE "ticket"
               /\ UNCHANGED <<rows, heading, last>>
          ELSE /\ Put(Headed(below))
               /\ stage' = "rows" /\ rows' \in 0..MaxRows
               /\ heading' = below.page /\ last' = BoxOf("heading", below, HeadingHeight)
  /\ UNCHANGED <<kind, tickets, name>>

(* The name of the ticket, its facts, and the heading of its table.        *)
Ticket ==
  /\ stage = "ticket" /\ tickets > 0
  /\ \E lines \in Titles :
       LET pen == Down(Text(EnsureSpace(Pen, 120), lines, 12), 4)
       IN /\ Put(Headed(pen))
          /\ heading' = pen.page /\ last' = BoxOf("heading", pen, HeadingHeight)
  /\ rows' \in 1..MaxRows /\ name' \in Names
  /\ stage' = "rows" /\ tickets' = tickets - 1
  /\ UNCHANGED kind

Row ==
  /\ stage = "rows" /\ rows > 0
  /\ \E details \in Details, notes \in Notes :
       LET pen == BeforeRow(details, notes)
       IN /\ Put(AfterRow(pen, details + notes))
          /\ heading' = (IF pen.page # page THEN pen.page ELSE heading)
          /\ last' = BoxOf("row", pen, details + notes)
  /\ rows' = rows - 1
  /\ UNCHANGED <<kind, stage, tickets, name>>

(* The total of the ticket; of the month for services, and the end.        *)
Total ==
  /\ stage = "rows" /\ rows = 0
  /\ Put(IF kind = "activities" THEN Down(Text(Down(Pen, 2), 1, 11), 7)
                                ELSE Text(Down(Pen, 9), 1, 14))
  /\ stage' = IF kind = "services" THEN "end" ELSE IF tickets > 0 THEN "ticket" ELSE "people"
  /\ UNCHANGED <<kind, tickets, rows, name, heading, last>>

(* "Totais por técnico": there is one whenever there is a ticket.          *)
People ==
  /\ stage = "people"
  /\ IF heading = 1 /\ last = NoBox
     THEN stage' = "summary" /\ UNCHANGED <<page, y, free, rows, heading, last>>
     ELSE LET pen == Down(Text(Down(EnsureSpace(Pen, 120), 6), 1, 13), 4)
          IN /\ Put(Headed(pen))
             /\ heading' = pen.page /\ last' = BoxOf("heading", pen, HeadingHeight)
             /\ stage' = "person" /\ rows' \in 1..MaxRows
  /\ UNCHANGED <<kind, tickets, name>>

(* drawTableRow: a name takes one line or two.                             *)
Person ==
  /\ stage = "person"
  /\ IF rows = 0
     THEN stage' = "summary" /\ UNCHANGED <<page, y, free, rows, last>>
     ELSE /\ \E height \in {18, 27} :
               LET pen == EnsureSpace(Pen, 30)
               IN Put(Boxed(pen, height)) /\ last' = BoxOf("person", pen, height)
          /\ rows' = rows - 1 /\ UNCHANGED stage
  /\ UNCHANGED <<kind, tickets, name, heading>>

(* drawActivityReportSummary.                                              *)
Summary ==
  /\ stage = "summary"
  /\ LET pen == Headed(Down(Text(Down(EnsureSpace(Pen, 80), 9), 1, 13), 4))
     IN Put(Boxed(pen, 18)) /\ last' = BoxOf("summary", pen, 18)
  /\ stage' = "end"
  /\ UNCHANGED <<kind, tickets, rows, name, heading>>

Next == Header \/ Ticket \/ Row \/ Total \/ People \/ Person \/ Summary

Spec == Init /\ [][Next]_vars

-----------------------------------------------------------------------------
(* Every box stays inside its page and covers nothing drawn before, and a  *)
(* row of activities or services has the heading of its table above it on  *)
(* the same page, whatever the heights, unless with that heading and the   *)
(* ticket's name, one line or several, it is higher than a page:           *)
(* report-pdf.service.ts, 496-508, 598-604 and 714-719.                    *)
BoxesWhole ==
  /\ last.top >= last.below
  /\ \/ last.top + last.height <= Bottom
     \/ last.of = "row" /\ last.height + HeadingHeight + NameHeight > Capacity
  /\ last.of = "row" => last.page = heading

(* Nothing drawn lies below the pen, and between two rows the pen is under *)
(* the heading of the table or past the end of the page.                   *)
IInv ==
  /\ TypeOK
  /\ last \in [of : {"nothing", "heading", "row", "person", "summary"},
              page : Nat, top : Nat, height : Nat, below : Nat]
  /\ free <= y
  /\ stage = "header" => y = Margin
  /\ stage = "rows" => page = heading \/ y > Bottom
  /\ BoxesWhole
=============================================================================
