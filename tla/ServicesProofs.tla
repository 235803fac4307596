--------------------------- MODULE ServicesProofs ---------------------------
(***************************************************************************)
(* What holds of the services behind the screens, for any values of their  *)
(* constants.  The invariant of each, IInv, stands at the end of its       *)
(* module; three lemmas say that it holds at first, that every step keeps  *)
(* it, and what it means.                                                  *)
(***************************************************************************)
EXTENDS Services, FiniteSetTheorems, FunctionTheorems, SequenceTheorems, TLAPS, WellFoundedInduction

(* Induction over the naturals, for one set at a time.                     *)
LEMMA NaturalsByStep ==
  ASSUME NEW S, 0 \in S, \A n \in Nat : n \in S => n + 1 \in S
  PROVE  Nat \subseteq S
<1> SUFFICES ASSUME Nat \ S # {}
             PROVE  FALSE
  OBVIOUS
<1>1. PICK m \in Nat \ S : \A k \in Nat \ S : ~(<<k, m>> \in OpToRel(<, Nat))
  BY WFMin, NatLessThanWellFounded
<1>2. m # 0 /\ m - 1 \in Nat
  OBVIOUS
<1>3. <<m - 1, m>> \in OpToRel(<, Nat)
  BY <1>2 DEF OpToRel
<1>4. m - 1 \in S
  BY <1>1, <1>2, <1>3
<1> QED
  BY <1>2, <1>4

-----------------------------------------------------------------------------
(* The paper: ReportPdf.tla, whose kind, stage, page, y, tickets, rows,    *)
(* heading, free, last and name are v1 to v10 here.  A pen that has        *)
(* nothing drawn below it stays so through every line and every box; what  *)
(* a row needs below it was asked for before.                              *)

PaperPens == [page : Nat, y : Nat, free : Nat]

(* A pen with nothing drawn below it.                                      *)
PaperClear(pen) == pen \in PaperPens /\ pen.free <= pen.y

LEMMA PaperIs ==
  ASSUME Paper!TypeOK
  PROVE  /\ Paper!Bottom \in {806, 559} /\ Paper!Capacity = Paper!Bottom - 36
         /\ v1' = v1 => Paper!Bottom' = Paper!Bottom /\ Paper!Capacity' = Paper!Capacity
BY DEF Paper!TypeOK, Paper!Bottom, Paper!Capacity, Paper!PageHeight, Paper!Margin

(* One line.                                                               *)
LEMMA PaperLineIs ==
  ASSUME Paper!TypeOK, NEW pen \in PaperPens, NEW h \in Nat, h <= 400, pen.free <= pen.y
  PROVE  /\ Paper!Line(pen, h) \in PaperPens /\ Paper!Line(pen, h).free = Paper!Line(pen, h).y
         /\ pen.y + h <= Paper!Bottom =>
              Paper!Line(pen, h).page = pen.page /\ Paper!Line(pen, h).y = pen.y + h
         /\ Paper!Line(pen, h).y <= Paper!Bottom
<1> DEFINE p == Paper!EnsureSpace(pen, h)
<1>1. /\ p \in PaperPens /\ p.free <= p.y /\ p.y + h <= Paper!Bottom
      /\ pen.y + h <= Paper!Bottom => p = pen
  BY PaperIs DEF Paper!EnsureSpace, Paper!NewPage, PaperPens, Paper!Margin
<1>2. Paper!Line(pen, h) = [p EXCEPT !.y = @ + h, !.free = p.y + h]
  BY DEF Paper!Line
<1> HIDE DEF p
<1>3. Paper!Line(pen, h) = [page |-> p.page, y |-> p.y + h, free |-> p.y + h]
  BY <1>1, <1>2 DEF PaperPens
<1> QED
  BY <1>1, <1>3 DEF PaperPens

(* f gives the pen after every line of a text.                             *)
PaperWritten(f, pen, lines, h) ==
  f = [n \in 0..lines |-> IF n = 0 THEN pen ELSE Paper!Line(f[n - 1], h)]

LEMMA PaperTextExists ==
  ASSUME NEW pen, NEW h, NEW lines \in Nat
  PROVE  \E f : PaperWritten(f, pen, lines, h)
<1> DEFINE Some == {m \in Nat : \E f : PaperWritten(f, pen, m, h)}
<1>1. 0 \in Some
  <2> DEFINE f == [n \in 0..0 |-> pen]
  <2>1. PaperWritten(f, pen, 0, h)
    BY DEF PaperWritten
  <2> QED
    BY <2>1
<1>2. ASSUME NEW m \in Nat, m \in Some
      PROVE  m + 1 \in Some
  <2>1. PICK f : PaperWritten(f, pen, m, h)
    BY <1>2
  <2> DEFINE g == [n \in 0..(m + 1) |-> IF n = m + 1 THEN Paper!Line(f[m], h) ELSE f[n]]
  <2> USE DEF PaperWritten
  <2>2. \A n \in 0..m : g[n] = f[n]
    OBVIOUS
  <2>3. ASSUME NEW n \in 0..(m + 1)
        PROVE  g[n] = IF n = 0 THEN pen ELSE Paper!Line(g[n - 1], h)
    <3>1. CASE n = m + 1
      <4>1. g[n] = Paper!Line(f[m], h) /\ n - 1 = m /\ n # 0
        BY <3>1
      <4> QED
        BY <4>1, <2>2
    <3>2. CASE n = 0
      BY <3>2, <2>1, <2>2
    <3>3. CASE n # 0 /\ n # m + 1
      <4>1. n \in 0..m /\ n - 1 \in 0..m /\ n # 0
        BY <3>3
      <4>2. f[n] = Paper!Line(f[n - 1], h)
        BY <4>1, <2>1
      <4> QED
        BY <4>1, <4>2, <2>2
    <3> QED
      BY <3>1, <3>2, <3>3
  <2>4. PaperWritten(g, pen, m + 1, h)
    <3> DEFINE k == [n \in 0..(m + 1) |-> IF n = 0 THEN pen ELSE Paper!Line(g[n - 1], h)]
    <3>1. DOMAIN g = 0..(m + 1) /\ g = [n \in DOMAIN g |-> g[n]]
      OBVIOUS
    <3>2. \A n \in 0..(m + 1) : k[n] = g[n]
      BY <2>3
    <3> QED
      BY <3>1, <3>2
  <2> HIDE DEF g
  <2> QED
    BY <2>4
<1> HIDE DEF Some
<1>3. lines \in Some
  BY <1>1, <1>2, NaturalsByStep
<1> QED
  BY <1>3 DEF Some

(* The lines of a text one after the other.                                *)
LEMMA PaperTextIs ==
  ASSUME NEW pen, NEW h, NEW lines \in Nat
  PROVE  \E f : PaperWritten(f, pen, lines, h) /\ Paper!Text(pen, lines, h) = f[lines]
<1>1. \E f : PaperWritten(f, pen, lines, h)
  BY PaperTextExists
<1>2. PaperWritten(CHOOSE f : PaperWritten(f, pen, lines, h), pen, lines, h)
  BY <1>1
<1>3. Paper!Text(pen, lines, h) = (CHOOSE f : PaperWritten(f, pen, lines, h))[lines]
  BY DEF Paper!Text, PaperWritten
<1> QED
  BY <1>2, <1>3

LEMMA PaperTextOne ==
  ASSUME NEW pen, NEW h
  PROVE  Paper!Text(pen, 1, h) = Paper!Line(pen, h)
<1>1. PICK f : PaperWritten(f, pen, 1, h) /\ Paper!Text(pen, 1, h) = f[1]
  BY PaperTextIs
<1>2. f[0] = pen /\ f[1] = Paper!Line(f[0], h)
  <2>1. 0 \in 0..1 /\ 1 \in 0..1 /\ 1 - 1 = 0
    OBVIOUS
  <2> QED
    BY <1>1, <2>1 DEF PaperWritten
<1> QED
  BY <1>1, <1>2

(* A text that fits stays on its page.                                     *)
LEMMA PaperTextFits ==
  ASSUME Paper!TypeOK, NEW pen \in PaperPens, pen.free <= pen.y, NEW lines \in Nat,
         pen.y + 12 * lines <= Paper!Bottom
  PROVE  /\ Paper!Text(pen, lines, 12) \in PaperPens
         /\ Paper!Text(pen, lines, 12).page = pen.page
            /\ Paper!Text(pen, lines, 12).y = pen.y + 12 * lines
         /\ Paper!Text(pen, lines, 12).free <= Paper!Text(pen, lines, 12).y
<1>1. PICK f : PaperWritten(f, pen, lines, 12) /\ Paper!Text(pen, lines, 12) = f[lines]
  BY PaperTextIs
<1> DEFINE Fits == {n \in Nat : n <= lines =>
             /\ f[n] \in PaperPens /\ f[n].page = pen.page /\ f[n].y = pen.y + 12 * n
             /\ f[n].free <= f[n].y}
<1>2. 0 \in Fits
  <2>1. f[0] = pen
    BY <1>1 DEF PaperWritten
  <2> QED
    BY <2>1 DEF PaperPens
<1>3. ASSUME NEW n \in Nat, n \in Fits
      PROVE  n + 1 \in Fits
  <2> SUFFICES ASSUME n + 1 <= lines
               PROVE  /\ f[n + 1] \in PaperPens /\ f[n + 1].page = pen.page
                      /\ f[n + 1].y = pen.y + 12 * (n + 1) /\ f[n + 1].free <= f[n + 1].y
    OBVIOUS
  <2>1. f[n + 1] = Paper!Line(f[n], 12)
    <3>1. n + 1 \in 0..lines /\ n + 1 # 0 /\ (n + 1) - 1 = n
      OBVIOUS
    <3> QED
      BY <1>1, <3>1 DEF PaperWritten
  <2>2. f[n] \in PaperPens /\ f[n].page = pen.page /\ f[n].y = pen.y + 12 * n /\ f[n].free <= f[n].y
    BY <1>3
  <2>3. 12 * (n + 1) <= 12 * lines /\ 12 * (n + 1) = 12 * n + 12 /\ pen.y \in Nat
    BY DEF PaperPens
  <2>4. f[n].y + 12 <= Paper!Bottom
    BY <2>2, <2>3, PaperIs
  <2>5. f[n + 1] \in PaperPens /\ f[n + 1].page = f[n].page /\ f[n + 1].y = f[n].y + 12
        /\ f[n + 1].free = f[n + 1].y
    <3> DEFINE pn == f[n]
    <3>1. pn \in PaperPens /\ pn.free <= pn.y /\ pn.y + 12 <= Paper!Bottom
      BY <2>2, <2>4
    <3> HIDE DEF pn
    <3>2. /\ Paper!Line(pn, 12) \in PaperPens /\ Paper!Line(pn, 12).free = Paper!Line(pn, 12).y
          /\ Paper!Line(pn, 12).page = pn.page /\ Paper!Line(pn, 12).y = pn.y + 12
      BY <3>1, PaperLineIs
    <3> QED
      BY <2>1, <3>2 DEF pn
  <2>6. f[n + 1].y \in Nat
    BY <2>5 DEF PaperPens
  <2> QED
    BY <2>2, <2>3, <2>5, <2>6
<1> HIDE DEF Fits
<1>4. lines \in Fits
  BY <1>2, <1>3, NaturalsByStep
<1> QED
  BY <1>1, <1>4 DEF Fits

(* What moves a pen down.                                                  *)
LEMMA PaperPenIs ==
  ASSUME Paper!TypeOK
  PROVE  /\ Paper!Pen \in PaperPens /\ Paper!Pen.page = v3 /\ Paper!Pen.y = v4
           /\ Paper!Pen.free = v8
         /\ v8 <= v4 => PaperClear(Paper!Pen)
BY DEF Paper!TypeOK, Paper!Pen, PaperPens, PaperClear

LEMMA PaperDownIs ==
  ASSUME NEW pen, PaperClear(pen), NEW k \in Nat
  PROVE  /\ PaperClear(Paper!Down(pen, k)) /\ Paper!Down(pen, k).page = pen.page
         /\ Paper!Down(pen, k).y = pen.y + k
<1>1. Paper!Down(pen, k) = [page |-> pen.page, y |-> pen.y + k, free |-> pen.free]
  BY DEF Paper!Down, PaperClear, PaperPens
<1> QED
  BY <1>1 DEF PaperClear, PaperPens

LEMMA PaperBoxedIs ==
  ASSUME NEW pen, PaperClear(pen), NEW h \in Nat
  PROVE  /\ PaperClear(Paper!Boxed(pen, h)) /\ Paper!Boxed(pen, h).page = pen.page
         /\ Paper!Boxed(pen, h).y = pen.y + h
<1>1. Paper!LargerOf(pen.free, pen.y + h) = pen.y + h
  BY DEF Paper!LargerOf, PaperClear, PaperPens
<1>2. Paper!Boxed(pen, h) = [pen EXCEPT !.y = @ + h, !.free = pen.y + h]
  BY <1>1 DEF Paper!Boxed
<1>3. pen \in PaperPens /\ pen.free <= pen.y
  BY DEF PaperClear
<1>4. Paper!Boxed(pen, h) = [page |-> pen.page, y |-> pen.y + h, free |-> pen.y + h]
  BY <1>2, <1>3 DEF PaperPens
<1> QED
  BY <1>3, <1>4 DEF PaperClear, PaperPens

LEMMA PaperHeadedIs ==
  ASSUME NEW pen, PaperClear(pen)
  PROVE  /\ PaperClear(Paper!Headed(pen)) /\ Paper!Headed(pen).page = pen.page
         /\ Paper!Headed(pen).y = pen.y + 18
BY PaperBoxedIs DEF Paper!Headed, Paper!HeadingHeight

LEMMA PaperTextOneIs ==
  ASSUME Paper!TypeOK, NEW pen, PaperClear(pen), NEW h \in Nat, h <= 400
  PROVE  /\ PaperClear(Paper!Text(pen, 1, h)) /\ Paper!Text(pen, 1, h).y <= Paper!Bottom
         /\ pen.y + h <= Paper!Bottom => /\ Paper!Text(pen, 1, h).page = pen.page
                                  /\ Paper!Text(pen, 1, h).y = pen.y + h
<1>1. pen \in PaperPens /\ pen.free <= pen.y
  BY DEF PaperClear
<1>2. /\ Paper!Line(pen, h) \in PaperPens /\ Paper!Line(pen, h).free = Paper!Line(pen, h).y
      /\ pen.y + h <= Paper!Bottom => Paper!Line(pen, h).page = pen.page
         /\ Paper!Line(pen, h).y = pen.y + h
      /\ Paper!Line(pen, h).y <= Paper!Bottom
  BY <1>1, PaperLineIs
<1>3. Paper!Line(pen, h).y \in Nat
  BY <1>2 DEF PaperPens
<1>4. Paper!Text(pen, 1, h) = Paper!Line(pen, h)
  BY PaperTextOne
<1> QED
  BY <1>2, <1>3, <1>4 DEF PaperClear

LEMMA PaperEnsureSpaceIs ==
  ASSUME Paper!TypeOK, NEW pen, PaperClear(pen), NEW k \in Nat, k <= 400
  PROVE  /\ PaperClear(Paper!EnsureSpace(pen, k)) /\ Paper!EnsureSpace(pen, k).y + k <= Paper!Bottom
BY PaperIs DEF Paper!EnsureSpace, Paper!NewPage, PaperClear, PaperPens, Paper!Margin

LEMMA PaperNewPageIs ==
  ASSUME NEW pen, PaperClear(pen)
  PROVE  /\ PaperClear(Paper!NewPage(pen)) /\ Paper!NewPage(pen).page = pen.page + 1
           /\ Paper!NewPage(pen).y = 36
BY DEF Paper!NewPage, PaperClear, PaperPens, Paper!Margin

(* A box drawn by a clear pen that fits.                                   *)
LEMMA PaperBoxIs ==
  ASSUME NEW pen, PaperClear(pen), NEW h \in Nat,
         NEW what, what \in {"heading", "row", "person", "summary"}
  PROVE  /\ Paper!BoxOf(what, pen, h) \in [of : {"nothing", "heading", "row", "person", "summary"},
                                     page : Nat, top : Nat, height : Nat, below : Nat]
         /\ Paper!BoxOf(what, pen, h).of = what /\ Paper!BoxOf(what, pen, h).page = pen.page
         /\ Paper!BoxOf(what, pen, h).top = pen.y /\ Paper!BoxOf(what, pen, h).height = h
         /\ Paper!BoxOf(what, pen, h).below <= Paper!BoxOf(what, pen, h).top
BY DEF Paper!BoxOf, PaperClear, PaperPens

(* Where the pen is put.                                                   *)
LEMMA PaperPutIs ==
  ASSUME NEW pen, PaperClear(pen), Paper!Put(pen)
  PROVE  v3' = pen.page /\ v3' \in Nat /\ v4' = pen.y /\ v4' \in Nat /\ v8' \in Nat /\ v8' <= v4'
BY DEF Paper!Put, PaperClear, PaperPens

LEMMA PaperInit ==
  ASSUME Paper!ReportPdfAssumption, Paper!Init
  PROVE  Paper!IInv
<1>1. Paper!TypeOK
  BY DEF Paper!ReportPdfAssumption, Paper!Init, Paper!TypeOK, Paper!Stages, Paper!NoBox,
     Paper!Margin
<1> QED
  BY <1>1, PaperIs DEF Paper!Init, Paper!IInv, Paper!BoxesWhole, Paper!NoBox, Paper!Margin

LEMMA PaperLogoFits ==
  ASSUME Paper!ReportPdfAssumption, NEW logo \in PaperLogos
  PROVE  Paper!LogoHeight(logo) \in 0..90
<1> DEFINE w == logo.width
           h == logo.height
<1>1. w \in Nat \ {0} /\ h \in Nat
  BY DEF Paper!ReportPdfAssumption
<1>2. Paper!LogoHeight(logo) = IF w * 90 >= h * 180 THEN (h * 180) \div w ELSE 90
  BY DEF Paper!LogoHeight
<1> HIDE DEF w, h
<1>3. CASE w * 90 >= h * 180
  <2> DEFINE q == (h * 180) \div w
  <2>1. h * 180 \in Nat
    BY <1>1
  <2>2. q \in Nat /\ q * w <= h * 180
    BY <1>1, <2>1
  <2> HIDE DEF q
  <2>3. q * w <= 90 * w
    BY <1>1, <1>3, <2>1, <2>2
  <2>4. q <= 90
    BY <1>1, <2>2, <2>3
  <2> QED
    BY <1>2, <1>3, <2>2, <2>4 DEF q
<1>4. CASE ~(w * 90 >= h * 180)
  BY <1>2, <1>4
<1> QED
  BY <1>3, <1>4

(* The state after a step that draws a box.                                *)
LEMMA PaperDrawnHolds ==
  ASSUME Paper!IInv, NEW pen, PaperClear(pen), Paper!Put(pen), v1' = v1,
         NEW box, PaperClear(box), NEW h \in Nat,
         NEW what \in {"heading", "row", "person", "summary"},
         v9' = Paper!BoxOf(what, box, h),
         v10' \in 0..8,
         box.y + h <= Paper!Bottom \/ (what = "row" /\ h + 18 + Paper!NameHeight' > Paper!Capacity),
         v2' \in Paper!Stages \ {"header"}, v5' \in 0..PaperTickets, v6' \in 0..PaperRows,
         v7' \in Nat, what = "row" => box.page = v7',
         v2' = "rows" => pen.page = v7' \/ pen.y > Paper!Bottom
  PROVE  Paper!IInv'
<1>1. Paper!Bottom' = Paper!Bottom /\ Paper!Capacity' = Paper!Capacity
  BY PaperIs DEF Paper!IInv
<1>2. v3' = pen.page /\ v3' \in Nat /\ v4' = pen.y /\ v4' \in Nat /\ v8' \in Nat /\ v8' <= v4'
  BY PaperPutIs
<1>3. /\ v9' \in [of : {"nothing", "heading", "row", "person", "summary"},
                    page : Nat, top : Nat, height : Nat, below : Nat]
      /\ v9'.of = what /\ v9'.page = box.page /\ v9'.top = box.y /\ v9'.height = h
      /\ v9'.below <= v9'.top
  BY PaperBoxIs
<1>4. Paper!TypeOK'
  BY <1>2, <1>3 DEF Paper!IInv, Paper!TypeOK
<1>5. Paper!BoxesWhole'
  BY <1>1, <1>3 DEF Paper!BoxesWhole, Paper!HeadingHeight
<1> QED
  BY <1>1, <1>2, <1>3, <1>4, <1>5 DEF Paper!IInv

(* The state after a step that draws none.                                 *)
LEMMA PaperPlainHolds ==
  ASSUME Paper!IInv, NEW pen, PaperClear(pen), Paper!Put(pen), v1' = v1, UNCHANGED <<v9, v7, v10>>,
         v2' \in Paper!Stages \ {"header", "rows"},
         v5' \in 0..PaperTickets, v6' \in 0..PaperRows
  PROVE  Paper!IInv'
<1>1. Paper!Bottom' = Paper!Bottom /\ Paper!Capacity' = Paper!Capacity
  BY PaperIs DEF Paper!IInv
<1>2. v3' = pen.page /\ v3' \in Nat /\ v4' = pen.y /\ v4' \in Nat /\ v8' \in Nat /\ v8' <= v4'
  BY PaperPutIs
<1>3. Paper!TypeOK'
  BY <1>2 DEF Paper!IInv, Paper!TypeOK
<1>4. Paper!BoxesWhole'
  BY <1>1 DEF Paper!IInv, Paper!BoxesWhole, Paper!NameHeight
<1> QED
  BY <1>2, <1>3, <1>4 DEF Paper!IInv

(* The heading of a table.                                                 *)
LEMMA PaperHeadingHolds ==
  ASSUME Paper!IInv, NEW box, PaperClear(box), Paper!Put(Paper!Headed(box)), v1' = v1,
         v9' = Paper!BoxOf("heading", box, Paper!HeadingHeight), v7' = box.page,
         box.y + 18 <= Paper!Bottom, v10' \in 0..8,
         v2' \in Paper!Stages \ {"header"}, v5' \in 0..PaperTickets, v6' \in 0..PaperRows
  PROVE  Paper!IInv'
<1> DEFINE pen == Paper!Headed(box)
           h == Paper!HeadingHeight
           what == "heading"
<1>1. PaperClear(pen) /\ pen.page = v7'
  BY PaperHeadedIs
<1>2. v7' \in Nat
  BY DEF PaperClear, PaperPens
<1>3. /\ h \in Nat /\ box.y + h <= Paper!Bottom /\ what # "row"
      /\ what \in {"heading", "row", "person", "summary"}
  BY DEF Paper!HeadingHeight
<1>4. v9' = Paper!BoxOf(what, box, h) /\ Paper!Put(pen)
  OBVIOUS
<1> HIDE DEF pen, h, what
<1>5. /\ box.y + h <= Paper!Bottom \/ (what = "row" /\ h + 18 + Paper!NameHeight' > Paper!Capacity)
      /\ what = "row" => box.page = v7'
      /\ v2' = "rows" => pen.page = v7' \/ pen.y > Paper!Bottom
  BY <1>1, <1>3
<1> QED
  BY <1>1, <1>2, <1>3, <1>4, <1>5, PaperDrawnHolds

LEMMA PaperHeaderPreserves ==
  ASSUME Paper!ReportPdfAssumption, Paper!IInv, Paper!Header
  PROVE  Paper!IInv'
<1>1. PICK logo \in PaperLogos \cup {NoLogo} :
        LET top == IF logo = NoLogo THEN Paper!Down(Paper!Text(Paper!Text(Paper!Pen, 1, 18), 1, 11),
                                                    7)
                   ELSE Paper!Down(
                     [Paper!Pen EXCEPT !.y = Paper!Margin + Paper!LogoHeight(logo) + 12], 7)
            below == Paper!Down(Paper!Text(Paper!Text(top, 1, 16), 1, 11), 15)
        IN IF v1 = "activities"
           THEN /\ Paper!Put(IF v5 = 0 THEN Paper!Text(below, 1, 13) ELSE below)
                /\ v2' = IF v5 = 0 THEN "people" ELSE "ticket"
                /\ UNCHANGED <<v6, v7, v9>>
           ELSE /\ Paper!Put(Paper!Headed(below))
                /\ v2' = "rows" /\ v6' \in 0..PaperRows
                /\ v7' = below.page /\ v9' = Paper!BoxOf("heading", below, Paper!HeadingHeight)
  BY DEF Paper!Header
<1> DEFINE top == IF logo = NoLogo THEN Paper!Down(Paper!Text(Paper!Text(Paper!Pen, 1, 18), 1, 11),
                                                   7)
                  ELSE Paper!Down(
                    [Paper!Pen EXCEPT !.y = Paper!Margin + Paper!LogoHeight(logo) + 12], 7)
           below == Paper!Down(Paper!Text(Paper!Text(top, 1, 16), 1, 11), 15)
<1>2. /\ Paper!TypeOK /\ Paper!Pen \in PaperPens /\ PaperClear(Paper!Pen) /\ Paper!Pen.y = 36
         /\ Paper!Bottom \in {806, 559}
  BY PaperPenIs, PaperIs DEF Paper!IInv, Paper!Header, Paper!Margin
<1> HIDE DEF top, below
<1>3. PaperClear(top) /\ top.y \in 0..145
  <2>1. CASE logo = NoLogo
    <3> DEFINE start == Paper!Pen
               name == Paper!Text(start, 1, 18)
               address == Paper!Text(name, 1, 11)
    <3>1. top = Paper!Down(address, 7)
      BY <2>1 DEF top
    <3>2. Paper!TypeOK /\ PaperClear(start)
      BY <1>2
    <3>7. start.y = 36
      BY <1>2
    <3> HIDE DEF start
    <3>6. PaperClear(name) /\ (start.y + 18 <= Paper!Bottom => name.y = start.y + 18)
      BY <3>2, PaperTextOneIs
    <3> HIDE DEF name
    <3>3. PaperClear(address) /\ (name.y + 11 <= Paper!Bottom => address.y = name.y + 11)
      BY <1>2, <3>6, PaperTextOneIs
    <3> HIDE DEF address
    <3>4. PaperClear(top) /\ top.y = address.y + 7
      BY <3>1, <3>3, PaperDownIs
    <3> QED
      BY <1>2, <3>7, <3>6, <3>3, <3>4
  <2>2. CASE logo # NoLogo
    <3> DEFINE k == Paper!Margin + Paper!LogoHeight(logo) + 12
               drawn == [Paper!Pen EXCEPT !.y = k]
    <3>1. k \in 48..138
      BY <2>2, PaperLogoFits DEF Paper!Margin
    <3>2. top = Paper!Down(drawn, 7)
      BY <2>2 DEF top
    <3> HIDE DEF k
    <3>3. drawn = [page |-> Paper!Pen.page, y |-> k, free |-> Paper!Pen.free]
      BY <1>2 DEF PaperPens
    <3>4. PaperClear(drawn) /\ drawn.y = k
      BY <1>2, <3>1, <3>3 DEF PaperClear, PaperPens
    <3> HIDE DEF drawn
    <3>5. PaperClear(top) /\ top.y = drawn.y + 7
      BY <3>2, <3>4, PaperDownIs
    <3> QED
      BY <3>1, <3>4, <3>5
  <2> QED
    BY <2>1, <2>2
<1>4. PaperClear(below) /\ below.y \in 0..187
  <2> DEFINE title == Paper!Text(top, 1, 16)
             subtitle == Paper!Text(title, 1, 11)
  <2>1. below = Paper!Down(subtitle, 15)
    BY DEF below
  <2>2. PaperClear(title) /\ (top.y + 16 <= Paper!Bottom => title.y = top.y + 16)
    BY <1>2, <1>3, PaperTextOneIs
  <2> HIDE DEF title
  <2>3. PaperClear(subtitle) /\ (title.y + 11 <= Paper!Bottom => subtitle.y = title.y + 11)
    BY <1>2, <2>2, PaperTextOneIs
  <2> HIDE DEF subtitle
  <2>4. PaperClear(below) /\ below.y = subtitle.y + 15
    BY <2>1, <2>3, PaperDownIs
  <2> QED
    BY <1>2, <1>3, <2>2, <2>3, <2>4
<1>5. IF v1 = "activities"
      THEN /\ Paper!Put(IF v5 = 0 THEN Paper!Text(below, 1, 13) ELSE below)
           /\ v2' = IF v5 = 0 THEN "people" ELSE "ticket"
           /\ UNCHANGED <<v6, v7, v9>>
      ELSE /\ Paper!Put(Paper!Headed(below))
           /\ v2' = "rows" /\ v6' \in 0..PaperRows
           /\ v7' = below.page /\ v9' = Paper!BoxOf("heading", below, Paper!HeadingHeight)
  BY <1>1 DEF top, below
<1>6. v1' = v1 /\ v5' \in 0..PaperTickets /\ v6 \in 0..PaperRows /\ v10' = v10 /\ v10' \in 0..8
  BY DEF Paper!Header, Paper!IInv, Paper!TypeOK
<1>7. CASE v1 = "activities"
  <2> DEFINE pen == IF v5 = 0 THEN Paper!Text(below, 1, 13) ELSE below
  <2>1. PaperClear(pen)
    <3>1. PaperClear(Paper!Text(below, 1, 13))
      BY <1>2, <1>4, PaperTextOneIs
    <3> QED
      BY <1>4, <3>1
  <2>2. /\ Paper!Put(pen) /\ v2' \in Paper!Stages \ {"header", "rows"} /\ v6' \in 0..PaperRows
        /\ UNCHANGED <<v9, v7, v10>>
    BY <1>5, <1>6, <1>7 DEF Paper!Stages
  <2> HIDE DEF pen
  <2> QED
    BY <1>6, <2>1, <2>2, PaperPlainHolds
<1>8. CASE v1 # "activities"
  <2>1. /\ Paper!Put(Paper!Headed(below)) /\ v2' \in Paper!Stages \ {"header"}
           /\ v6' \in 0..PaperRows
        /\ v7' = below.page /\ v9' = Paper!BoxOf("heading", below, Paper!HeadingHeight)
    BY <1>5, <1>8 DEF Paper!Stages
  <2>2. below.y + 18 <= Paper!Bottom
    BY <1>2, <1>4
  <2> QED
    BY <1>4, <1>6, <2>1, <2>2, PaperHeadingHolds
<1> QED
  BY <1>7, <1>8

LEMMA PaperTicketPreserves ==
  ASSUME Paper!ReportPdfAssumption, Paper!IInv, Paper!Ticket
  PROVE  Paper!IInv'
<1>1. PICK lines \in PaperTitles :
        LET pen == Paper!Down(Paper!Text(Paper!EnsureSpace(Paper!Pen, 120), lines, 12), 4)
        IN /\ Paper!Put(Paper!Headed(pen))
           /\ v7' = pen.page /\ v9' = Paper!BoxOf("heading", pen, Paper!HeadingHeight)
  BY DEF Paper!Ticket
<1> DEFINE start == Paper!EnsureSpace(Paper!Pen, 120)
           facts == Paper!Text(start, lines, 12)
           pen == Paper!Down(facts, 4)
<1>2. /\ Paper!Put(Paper!Headed(pen)) /\ v7' = pen.page
      /\ v9' = Paper!BoxOf("heading", pen, Paper!HeadingHeight)
  BY <1>1
<1>3. Paper!TypeOK /\ PaperClear(Paper!Pen) /\ lines \in 1..8 /\ lines \in Nat /\ 12 * lines <= 96
      /\ Paper!Bottom \in Nat
  BY PaperPenIs, PaperIs DEF Paper!IInv, Paper!ReportPdfAssumption
<1>4. PaperClear(start) /\ start.y + 120 <= Paper!Bottom
  BY <1>3, PaperEnsureSpaceIs
<1> HIDE DEF start
<1>5. start \in PaperPens /\ start.free <= start.y /\ start.y + 12 * lines <= Paper!Bottom
  BY <1>3, <1>4 DEF PaperClear, PaperPens
<1>6. PaperClear(facts) /\ facts.y = start.y + 12 * lines
  BY <1>3, <1>5, PaperTextFits DEF PaperClear
<1> HIDE DEF facts
<1>7. PaperClear(pen) /\ pen.y = facts.y + 4
  BY <1>6, PaperDownIs
<1> HIDE DEF pen
<1>8. pen.y + 18 <= Paper!Bottom
  <2>1. start.y \in Nat
    BY <1>5 DEF PaperPens
  <2> QED
    BY <1>3, <1>4, <1>6, <1>7, <2>1
<1>9. /\ v1' = v1 /\ v2' \in Paper!Stages \ {"header"} /\ v5' \in 0..PaperTickets
      /\ v6' \in 0..PaperRows /\ v10' \in 0..8
  BY DEF Paper!Ticket, Paper!IInv, Paper!TypeOK, Paper!Stages, Paper!ReportPdfAssumption
<1> QED
  BY <1>2, <1>7, <1>8, <1>9, PaperHeadingHolds

(* A row that does not fit goes to a new page, under a heading.            *)
LEMMA PaperBeforeRowIs ==
  ASSUME Paper!TypeOK, v8 <= v4, NEW d \in Nat, NEW n \in Nat
  PROVE  /\ PaperClear(Paper!BeforeRow(d, n))
         /\ IF v4 + (d + n) <= Paper!Bottom THEN Paper!BeforeRow(d, n) = Paper!Pen
            ELSE /\ Paper!BeforeRow(d, n).page = v3 + 1
                 /\ Paper!BeforeRow(d, n).y = 54 + Paper!NameHeight /\ Paper!NameHeight \in Nat
<1>1. Paper!TypeOK /\ PaperClear(Paper!Pen) /\ Paper!Pen.page = v3 /\ Paper!Bottom \in {806, 559}
  BY PaperPenIs, PaperIs
<1>2. CASE v4 + (d + n) <= Paper!Bottom
  BY <1>1, <1>2 DEF Paper!BeforeRow, Paper!Block
<1>3. CASE ~(v4 + (d + n) <= Paper!Bottom)
  <2> DEFINE start == Paper!NewPage(Paper!Pen)
             name == Paper!Text(start, v10, 12)
             pen == Paper!Down(name, 4)
             under == IF v1 = "activities" THEN pen ELSE start
  <2>1. Paper!BeforeRow(d, n) = Paper!Headed(under)
    BY <1>3 DEF Paper!BeforeRow, Paper!Block
  <2>2. PaperClear(start) /\ start.page = v3 + 1 /\ start.y = 36
    BY <1>1, PaperNewPageIs
  <2>3. v10 \in 0..8 /\ v10 \in Nat /\ start.y + 12 * v10 <= Paper!Bottom
    BY <1>1, <2>2 DEF Paper!TypeOK
  <2>4. start \in PaperPens /\ start.free <= start.y /\ start.y \in Nat
    BY <2>2 DEF PaperClear, PaperPens
  <2> HIDE DEF start
  <2>5. PaperClear(name) /\ name.page = start.page /\ name.y = start.y + 12 * v10
    BY <1>1, <2>3, <2>4, PaperTextFits DEF PaperClear
  <2> HIDE DEF name
  <2>6. PaperClear(pen) /\ pen.page = name.page /\ pen.y = name.y + 4
    BY <2>5, PaperDownIs
  <2>7. /\ PaperClear(under) /\ under.page = v3 + 1
        /\ under.y = 36 + Paper!NameHeight /\ Paper!NameHeight \in Nat
    BY <2>2, <2>3, <2>5, <2>6 DEF Paper!NameHeight
  <2> HIDE DEF under
  <2>8. PaperClear(Paper!Headed(under)) /\ Paper!Headed(under).page = under.page
        /\ Paper!Headed(under).y = under.y + 18
    BY <2>7, PaperHeadedIs
  <2> QED
    BY <1>3, <2>1, <2>7, <2>8
<1> QED
  BY <1>2, <1>3

LEMMA PaperAfterRowIs ==
  ASSUME Paper!TypeOK, NEW pen, PaperClear(pen), NEW h \in Nat
  PROVE  /\ PaperClear(Paper!AfterRow(pen, h)) /\ Paper!AfterRow(pen, h).y = pen.y + h
         /\ Paper!AfterRow(pen, h).page = pen.page \/ Paper!AfterRow(pen, h).y > Paper!Bottom
<1>1. pen.page \in Nat /\ pen.y \in Nat
  BY DEF PaperClear, PaperPens
<1>2. Paper!Bottom \in {806, 559} /\ Paper!Capacity \in {770, 523}
  BY PaperIs
<1> DEFINE over == IF pen.y + h > Paper!Bottom
                   THEN (pen.y + h - Paper!Bottom - 1) \div Paper!Capacity + 1 ELSE 0
<1>3. over \in Nat /\ (pen.y + h <= Paper!Bottom => over = 0)
  <2>1. CASE pen.y + h <= Paper!Bottom
    BY <1>1, <1>2, <2>1
  <2>2. CASE ~(pen.y + h <= Paper!Bottom)
    <3>1. pen.y + h - Paper!Bottom - 1 \in Nat
      BY <1>1, <1>2, <2>2
    <3>2. (pen.y + h - Paper!Bottom - 1) \div Paper!Capacity \in Nat
      BY <1>2, <3>1
    <3> QED
      BY <1>1, <1>2, <2>2, <3>2
  <2> QED
    BY <2>1, <2>2
<1>4. Paper!AfterRow(pen, h) = [page |-> pen.page + over, y |-> pen.y + h, free |-> pen.y + h]
  BY DEF Paper!AfterRow
<1> HIDE DEF over
<1> QED
  BY <1>1, <1>2, <1>3, <1>4 DEF PaperClear, PaperPens

LEMMA PaperRowPreserves ==
  ASSUME Paper!ReportPdfAssumption, Paper!IInv, Paper!Row
  PROVE  Paper!IInv'
<1>1. PICK d \in PaperDetails, n \in PaperNotes :
        LET pen == Paper!BeforeRow(d, n)
        IN /\ Paper!Put(Paper!AfterRow(pen, d + n))
           /\ v7' = (IF pen.page # v3 THEN pen.page ELSE v7)
           /\ v9' = Paper!BoxOf("row", pen, d + n)
  BY DEF Paper!Row
<1> DEFINE box == Paper!BeforeRow(d, n)
           h == d + n
           pen == Paper!AfterRow(box, h)
           what == "row"
<1>2. /\ Paper!Put(pen) /\ v7' = (IF box.page # v3 THEN box.page ELSE v7)
      /\ v9' = Paper!BoxOf(what, box, h)
  BY <1>1
<1>3. /\ Paper!TypeOK /\ v8 <= v4 /\ Paper!Bottom \in {806, 559}
         /\ Paper!Capacity = Paper!Bottom - 36
      /\ v3 \in Nat /\ v4 \in Nat /\ v7 \in Nat
      /\ v3 = v7 \/ v4 > Paper!Bottom
  BY PaperIs DEF Paper!IInv, Paper!TypeOK, Paper!Row
<1>4. d \in Nat \ {0} /\ n \in Nat \ {0} /\ h \in Nat \ {0}
  BY DEF Paper!ReportPdfAssumption
<1>5. /\ PaperClear(box)
      /\ IF v4 + h <= Paper!Bottom THEN box = Paper!Pen
         ELSE box.page = v3 + 1 /\ box.y = 54 + Paper!NameHeight /\ Paper!NameHeight \in Nat
  BY <1>3, <1>4, PaperBeforeRowIs
<1> HIDE DEF box
<1>6. box.page \in Nat /\ box.y \in Nat
  BY <1>5 DEF PaperClear, PaperPens
<1>a. Paper!NameHeight' = Paper!NameHeight /\ v10' = v10 /\ v10' \in 0..8
  BY <1>3 DEF Paper!Row, Paper!NameHeight, Paper!TypeOK
<1>7. /\ box.y + h <= Paper!Bottom \/ (what = "row" /\ h + 18 + Paper!NameHeight' > Paper!Capacity)
      /\ box.page = v7'
  <2>1. CASE v4 + h <= Paper!Bottom
    <3>1. box.page = v3 /\ box.y = v4
      BY <1>5, <2>1 DEF Paper!Pen
    <3> QED
      BY <1>2, <1>3, <1>4, <2>1, <3>1
  <2>2. CASE ~(v4 + h <= Paper!Bottom)
    BY <1>2, <1>3, <1>4, <1>5, <1>a, <2>2
  <2> QED
    BY <2>1, <2>2
<1>8. /\ PaperClear(pen) /\ (pen.page = box.page \/ pen.y > Paper!Bottom)
  BY <1>3, <1>4, <1>5, PaperAfterRowIs
<1>9. /\ v1' = v1 /\ v2' \in Paper!Stages \ {"header"} /\ v5' \in 0..PaperTickets
      /\ v6' \in 0..PaperRows
  <2>1. /\ PaperRows \in Nat /\ v6 \in 0..PaperRows /\ v5 \in 0..PaperTickets
    BY DEF Paper!ReportPdfAssumption, Paper!IInv, Paper!TypeOK
  <2>2. /\ v6' = v6 - 1 /\ v6 > 0 /\ UNCHANGED <<v1, v5>>
        /\ v2 = "rows" /\ v2' = v2
    BY DEF Paper!Row
  <2>3. v2' \in Paper!Stages \ {"header"}
    BY <2>2 DEF Paper!Stages
  <2> QED
    BY <2>1, <2>2, <2>3
<1>10. v7' \in Nat /\ h \in Nat
  BY <1>4, <1>6, <1>7
<1>11. what \in {"heading", "row", "person", "summary"}
  OBVIOUS
<1>12. /\ what = "row" => box.page = v7'
       /\ v2' = "rows" => pen.page = v7' \/ pen.y > Paper!Bottom
  BY <1>7, <1>8
<1> HIDE DEF pen, h, what
<1> QED
  BY <1>2, <1>5, <1>7, <1>8, <1>9, <1>a, <1>10, <1>11, <1>12, PaperDrawnHolds

LEMMA PaperTotalPreserves ==
  ASSUME Paper!ReportPdfAssumption, Paper!IInv, Paper!Total
  PROVE  Paper!IInv'
<1> DEFINE two == Paper!Down(Paper!Pen, 2)
           nine == Paper!Down(Paper!Pen, 9)
           pen == IF v1 = "activities" THEN Paper!Down(Paper!Text(two, 1, 11),
                                                       7) ELSE Paper!Text(nine, 1, 14)
<1>1. Paper!TypeOK /\ PaperClear(Paper!Pen)
  BY PaperPenIs DEF Paper!IInv
<1>2. PaperClear(two) /\ PaperClear(nine)
  BY <1>1, PaperDownIs
<1>3. Paper!Put(pen)
  BY DEF Paper!Total
<1> HIDE DEF two, nine
<1>4. PaperClear(Paper!Text(two, 1, 11)) /\ PaperClear(Paper!Text(nine, 1, 14))
  BY <1>1, <1>2, PaperTextOneIs
<1>5. PaperClear(Paper!Down(Paper!Text(two, 1, 11), 7))
  BY <1>4, PaperDownIs
<1>6. PaperClear(pen)
  BY <1>4, <1>5
<1> HIDE DEF pen
<1>7. /\ v1' = v1 /\ UNCHANGED <<v9, v7, v10>> /\ v2' \in Paper!Stages \ {"header", "rows"}
      /\ v5' \in 0..PaperTickets /\ v6' \in 0..PaperRows
  BY DEF Paper!Total, Paper!IInv, Paper!TypeOK, Paper!Stages
<1> QED
  BY <1>3, <1>6, <1>7, PaperPlainHolds

(* A step that draws nothing and leaves the pen.                           *)
LEMMA PaperLeftHolds ==
  ASSUME Paper!IInv, UNCHANGED <<v3, v4, v8, v7, v9, v1, v5, v6, v10>>,
         v2' \in Paper!Stages \ {"header", "rows"}
  PROVE  Paper!IInv'
<1>1. PaperClear(Paper!Pen) /\ Paper!Put(Paper!Pen)
  BY PaperPenIs DEF Paper!IInv, Paper!Put, Paper!Pen
<1>2. v5' \in 0..PaperTickets /\ v6' \in 0..PaperRows
  BY DEF Paper!IInv, Paper!TypeOK
<1> DEFINE pen == Paper!Pen
<1>3. PaperClear(pen) /\ Paper!Put(pen)
  BY <1>1
<1> HIDE DEF pen
<1> QED
  BY <1>2, <1>3, PaperPlainHolds

LEMMA PaperPeoplePreserves ==
  ASSUME Paper!ReportPdfAssumption, Paper!IInv, Paper!People
  PROVE  Paper!IInv'
<1>1. CASE v7 = 1 /\ v9 = Paper!NoBox
  <2>1. /\ UNCHANGED <<v3, v4, v8, v7, v9, v1, v5, v6, v10>>
        /\ v2' \in Paper!Stages \ {"header", "rows"}
    BY <1>1 DEF Paper!People, Paper!Stages
  <2> QED
    BY <2>1, PaperLeftHolds
<1>2. CASE ~(v7 = 1 /\ v9 = Paper!NoBox)
  <2> DEFINE start == Paper!EnsureSpace(Paper!Pen, 120)
             six == Paper!Down(start, 6)
             name == Paper!Text(six, 1, 13)
             pen == Paper!Down(name, 4)
  <2>1. /\ Paper!Put(Paper!Headed(pen)) /\ v7' = pen.page
        /\ v9' = Paper!BoxOf("heading", pen, Paper!HeadingHeight)
    BY <1>2 DEF Paper!People
  <2>2. Paper!TypeOK /\ PaperClear(Paper!Pen) /\ Paper!Bottom \in Nat
    BY PaperPenIs, PaperIs DEF Paper!IInv
  <2>3. PaperClear(start) /\ start.y + 120 <= Paper!Bottom
    BY <2>2, PaperEnsureSpaceIs
  <2>4. start.y \in Nat
    BY <2>3 DEF PaperClear, PaperPens
  <2> HIDE DEF start
  <2>5. PaperClear(six) /\ six.y = start.y + 6
    BY <2>3, PaperDownIs
  <2> HIDE DEF six
  <2>6. six.y + 13 <= Paper!Bottom
    BY <2>2, <2>3, <2>4, <2>5
  <2>7. PaperClear(name) /\ name.y = six.y + 13
    <3>1. Paper!TypeOK /\ PaperClear(six) /\ 13 \in Nat /\ 13 <= 400
      BY <2>2, <2>5
    <3> QED
      BY <2>6, <3>1, PaperTextOneIs
  <2> HIDE DEF name
  <2>8. PaperClear(pen) /\ pen.y = name.y + 4
    BY <2>7, PaperDownIs
  <2> HIDE DEF pen
  <2>9. pen.y + 18 <= Paper!Bottom
    BY <2>2, <2>3, <2>4, <2>5, <2>7, <2>8
  <2>10. /\ v1' = v1 /\ v2' \in Paper!Stages \ {"header"} /\ v5' \in 0..PaperTickets
         /\ v6' \in 0..PaperRows /\ v10' \in 0..8
    BY <1>2 DEF Paper!People, Paper!IInv, Paper!TypeOK, Paper!Stages, Paper!ReportPdfAssumption
  <2> QED
    BY <2>1, <2>8, <2>9, <2>10, PaperHeadingHolds
<1> QED
  BY <1>1, <1>2

LEMMA PaperPersonPreserves ==
  ASSUME Paper!ReportPdfAssumption, Paper!IInv, Paper!Person
  PROVE  Paper!IInv'
<1>1. CASE v6 = 0
  <2>1. /\ UNCHANGED <<v3, v4, v8, v7, v9, v1, v5, v6, v10>>
        /\ v2' \in Paper!Stages \ {"header", "rows"}
    BY <1>1 DEF Paper!Person, Paper!Stages
  <2> QED
    BY <2>1, PaperLeftHolds
<1>2. CASE v6 # 0
  <2>1. PICK h \in {18, 27} : LET pen == Paper!EnsureSpace(Paper!Pen, 30)
                             IN Paper!Put(Paper!Boxed(pen, h))
                                   /\ v9' = Paper!BoxOf("person", pen, h)
    BY <1>2 DEF Paper!Person
  <2> DEFINE box == Paper!EnsureSpace(Paper!Pen, 30)
             pen == Paper!Boxed(box, h)
             what == "person"
  <2>2. Paper!Put(pen) /\ v9' = Paper!BoxOf(what, box, h)
    BY <2>1
  <2>3. Paper!TypeOK /\ PaperClear(Paper!Pen) /\ Paper!Bottom \in Nat /\ h \in Nat /\ h <= 30
    BY PaperPenIs, PaperIs DEF Paper!IInv
  <2>4. PaperClear(box) /\ box.y + 30 <= Paper!Bottom
    BY <2>3, PaperEnsureSpaceIs
  <2> HIDE DEF box
  <2>5. PaperClear(pen)
    BY <2>3, <2>4, PaperBoxedIs
  <2>6. box.y + h <= Paper!Bottom \/ (what = "row" /\ h + 18 + Paper!NameHeight' > Paper!Capacity)
    <3>1. box.y \in Nat
      BY <2>4 DEF PaperClear, PaperPens
    <3> QED
      BY <2>3, <2>4, <3>1
  <2>7. /\ v1' = v1 /\ v2' \in Paper!Stages \ {"header"} /\ v5' \in 0..PaperTickets
        /\ v6' \in 0..PaperRows /\ v7' \in Nat /\ v10' \in 0..8
    <3>1. /\ PaperRows \in Nat /\ v6 \in 0..PaperRows /\ v5 \in 0..PaperTickets
          /\ v7 \in Nat /\ v10 \in 0..8
      BY DEF Paper!ReportPdfAssumption, Paper!IInv, Paper!TypeOK
    <3>2. /\ v6' = v6 - 1 /\ UNCHANGED <<v1, v5, v7, v10>>
          /\ v2 = "person" /\ v2' = v2
      BY <1>2 DEF Paper!Person
    <3>3. v2' \in Paper!Stages \ {"header"}
      BY <3>2 DEF Paper!Stages
    <3> QED
      BY <1>2, <3>1, <3>2, <3>3
  <2>8. /\ what \in {"heading", "row", "person", "summary"}
        /\ what = "row" => box.page = v7'
    OBVIOUS
  <2>9. v2' = "rows" => pen.page = v7' \/ pen.y > Paper!Bottom
    BY <1>2 DEF Paper!Person
  <2> HIDE DEF pen, what
  <2> QED
    BY <2>2, <2>3, <2>4, <2>5, <2>6, <2>7, <2>8, <2>9, PaperDrawnHolds
<1> QED
  BY <1>1, <1>2

LEMMA PaperSummaryPreserves ==
  ASSUME Paper!ReportPdfAssumption, Paper!IInv, Paper!Summary
  PROVE  Paper!IInv'
<1> DEFINE start == Paper!EnsureSpace(Paper!Pen, 80)
           nine == Paper!Down(start, 9)
           name == Paper!Text(nine, 1, 13)
           four == Paper!Down(name, 4)
           box == Paper!Headed(four)
           h == 18
           pen == Paper!Boxed(box, h)
           what == "summary"
<1>1. Paper!Put(pen) /\ v9' = Paper!BoxOf(what, box, h)
  BY DEF Paper!Summary
<1>2. Paper!TypeOK /\ PaperClear(Paper!Pen) /\ Paper!Bottom \in Nat
  BY PaperPenIs, PaperIs DEF Paper!IInv
<1>3. PaperClear(start) /\ start.y + 80 <= Paper!Bottom
  BY <1>2, PaperEnsureSpaceIs
<1>4. start.y \in Nat
  BY <1>3 DEF PaperClear, PaperPens
<1> HIDE DEF start
<1>5. PaperClear(nine) /\ nine.y = start.y + 9
  BY <1>3, PaperDownIs
<1> HIDE DEF nine
<1>6. nine.y + 13 <= Paper!Bottom
  BY <1>2, <1>3, <1>4, <1>5
<1>7. PaperClear(name) /\ name.y = nine.y + 13
  <2>1. Paper!TypeOK /\ PaperClear(nine) /\ 13 \in Nat /\ 13 <= 400
    BY <1>2, <1>5
  <2> QED
    BY <1>6, <2>1, PaperTextOneIs
<1> HIDE DEF name
<1>8. PaperClear(four) /\ four.y = name.y + 4
  BY <1>7, PaperDownIs
<1> HIDE DEF four
<1>9. PaperClear(box) /\ box.y = four.y + 18
  BY <1>8, PaperHeadedIs
<1> HIDE DEF box
<1>10. PaperClear(pen) /\ h \in Nat
  BY <1>9, PaperBoxedIs
<1>11. box.y + h <= Paper!Bottom \/ (what = "row" /\ h + 18 + Paper!NameHeight' > Paper!Capacity)
  BY <1>2, <1>3, <1>4, <1>5, <1>7, <1>8, <1>9
<1>12. /\ v1' = v1 /\ v2' \in Paper!Stages \ {"header"} /\ v5' \in 0..PaperTickets
       /\ v6' \in 0..PaperRows /\ v7' \in Nat /\ v10' \in 0..8
  BY DEF Paper!Summary, Paper!IInv, Paper!TypeOK, Paper!Stages
<1>13. /\ what \in {"heading", "row", "person", "summary"}
       /\ what = "row" => box.page = v7'
  OBVIOUS
<1>14. v2' = "rows" => pen.page = v7' \/ pen.y > Paper!Bottom
  BY DEF Paper!Summary
<1> HIDE DEF pen, what, h
<1> QED
  BY <1>1, <1>9, <1>10, <1>11, <1>12, <1>13, <1>14, PaperDrawnHolds

LEMMA PaperInductive ==
  ASSUME Paper!ReportPdfAssumption, Paper!IInv, [Paper!Next]_Paper!vars
  PROVE  Paper!IInv'
<1>1. CASE UNCHANGED Paper!vars
  <2>1. UNCHANGED <<v1, v2, v3, v4, v5, v6, v7, v8, v9, v10>>
    BY <1>1 DEF Paper!vars
  <2>2. /\ Paper!Bottom' = Paper!Bottom /\ Paper!Capacity' = Paper!Capacity
        /\ Paper!NameHeight' = Paper!NameHeight
    BY <2>1, PaperIs DEF Paper!IInv, Paper!NameHeight
  <2>3. Paper!TypeOK'
    BY <2>1 DEF Paper!IInv, Paper!TypeOK
  <2>4. Paper!BoxesWhole'
    BY <2>1, <2>2 DEF Paper!IInv, Paper!BoxesWhole
  <2> QED
    BY <2>1, <2>2, <2>3, <2>4 DEF Paper!IInv
<1> QED
  BY <1>1, PaperHeaderPreserves, PaperTicketPreserves, PaperRowPreserves, PaperTotalPreserves,
     PaperPeoplePreserves,
     PaperPersonPreserves, PaperSummaryPreserves DEF Paper!Next

LEMMA PaperMeans == Paper!IInv => Paper!TypeOK /\ Paper!BoxesWhole
BY DEF Paper!IInv

-----------------------------------------------------------------------------
(* The event bus: EventBus.tla, whose content, registered, smtp, role, pub *)
(* and shifted are v1 to v6 here.                                          *)

(* Sequences.                                                              *)

LEMMA BusPrefixIsBegin ==
  ASSUME NEW H, NEW s \in Seq(H), NEW t \in Seq(H)
  PROVE  Bus!Begins(s, t) => Bus!IsPrefix(s, t)
<1> SUFFICES ASSUME Bus!Begins(s, t)
             PROVE  Bus!IsPrefix(s, t)
  OBVIOUS
<1> DEFINE n == Len(s)
           u == SubSeq(s, 1, n)
           v == SubSeq(t, 1, n)
<1>1. n \in Nat /\ n <= Len(t) /\ Len(t) \in Nat /\ \A i \in 1..n : s[i] = t[i]
  BY LenProperties DEF Bus!Begins
<1>2. (\A i \in 1..n : s[i] \in H) /\ (\A i \in 1..n : t[i] \in H)
  BY <1>1, ElementOfSeq
<1> HIDE DEF n
<1>3. u \in Seq(H) /\ Len(u) = n /\ \A i \in 1..n : u[i] = s[i]
  BY <1>1, <1>2, SubSeqProperties
<1>4. v \in Seq(H) /\ Len(v) = n /\ \A i \in 1..n : v[i] = t[i]
  BY <1>1, <1>2, SubSeqProperties
<1>5. u = v
  <2> HIDE DEF u, v
  <2> QED
    BY <1>1, <1>3, <1>4, SeqEqual
<1> QED
  BY <1>1, <1>5 DEF Bus!IsPrefix, n

LEMMA BusAppendKeepsBegin ==
  ASSUME NEW H, NEW s \in Seq(H), NEW t \in Seq(H), NEW h \in H, Bus!Begins(s, t)
  PROVE  Bus!Begins(s, Append(t, h))
BY LenProperties DEF Bus!Begins

(* The element after what t begins with.                                   *)
LEMMA BusBeginGrows ==
  ASSUME NEW H, NEW s \in Seq(H), NEW t \in Seq(H), Bus!Begins(s, t), Len(s) + 1 <= Len(t)
  PROVE  /\ t[Len(s) + 1] \in H
         /\ Append(s, t[Len(s) + 1]) \in Seq(H)
         /\ Bus!Begins(Append(s, t[Len(s) + 1]), t)
         /\ Len(Append(s, t[Len(s) + 1])) = Len(s) + 1
BY LenProperties, ElementOfSeq DEF Bus!Begins

(* What t begins with, all of it, when t ends before the next position.    *)
LEMMA BusBeginsWhole ==
  ASSUME NEW H, NEW o \in Seq(H), NEW s \in Seq(H), NEW t \in Seq(H),
         Bus!Begins(o, t), Bus!Begins(s, t), ~(Len(s) + 1 <= Len(t))
  PROVE  Bus!Begins(o, s)
BY LenProperties DEF Bus!Begins

LEMMA BusRemovedOne ==
  ASSUME NEW H, NEW s \in Seq(H), NEW i \in 1..Len(s)
  PROVE  Bus!RemoveAt(s, i) \in Seq(H) /\ Len(Bus!RemoveAt(s, i)) = Len(s) - 1
<1> DEFINE u == SubSeq(s, 1, i - 1)
           v == SubSeq(s, i + 1, Len(s))
<1>1. Len(s) \in Nat /\ i \in Nat /\ \A j \in 1..Len(s) : s[j] \in H
  BY LenProperties, ElementOfSeq
<1>2. u \in Seq(H) /\ Len(u) = i - 1
  <2>1. \A j \in 1..(i - 1) : s[j] \in H
    BY <1>1
  <2> QED
    BY <1>1, <2>1, SubSeqProperties
<1>3. v \in Seq(H) /\ Len(v) = Len(s) - i
  <2>1. \A j \in (i + 1)..Len(s) : s[j] \in H
    BY <1>1
  <2>2. i + 1 \in Int /\ Len(s) \in Int
    BY <1>1
  <2>3. v \in Seq(H) /\ Len(v) = IF i + 1 <= Len(s) THEN Len(s) - (i + 1) + 1 ELSE 0
    BY <2>1, <2>2, SubSeqProperties
  <2> QED
    BY <1>1, <2>3
<1> HIDE DEF u, v
<1>4. u \o v \in Seq(H) /\ Len(u \o v) = Len(u) + Len(v)
  BY <1>2, <1>3, ConcatProperties
<1>5. Bus!RemoveAt(s, i) = u \o v
  BY Zenon DEF Bus!RemoveAt, u, v
<1>6. Len(u) + Len(v) = Len(s) - 1
  BY <1>1, <1>2, <1>3
<1> QED
  BY <1>4, <1>5, <1>6, Zenon

(* Every step keeps the invariant.                                         *)

LEMMA BusInit ==
  ASSUME Bus!BusAssumption, Bus!Init
  PROVE  Bus!IInv
<1>1. v2 \in Arrays
  <2>1. \E a \in Arrays : TRUE
    BY DEF Bus!BusAssumption
  <2> QED
    BY <2>1, Zenon DEF Bus!Init
<1>2. /\ <<>> \in Bus!Queues /\ <<Mailer>> \in Bus!Queues
  BY DEF Bus!BusAssumption, Bus!Queues
<1>3. v1 \in [Arrays -> Bus!Queues]
  BY <1>1, <1>2 DEF Bus!Init
<1>4. v5 \in [Publications -> {Bus!Idle(t) : t \in Staff \cup {Nobody}}]
  BY DEF Bus!Init
<1>5. ASSUME NEW t \in Staff \cup {Nobody}
      PROVE  Bus!Idle(t) \in Bus!Calls
  <2>1. <<>> \in Seq(Handlers)
    OBVIOUS
  <2> QED
    BY <2>1 DEF Bus!Idle, Bus!Calls
<1>6. Bus!Shaped
  BY <1>1, <1>3, <1>4, <1>5 DEF Bus!Init, Bus!Shaped
<1>7. ASSUME NEW p \in Publications
      PROVE  /\ v5[p].pc = "idle" /\ v5[p].array = Nobody /\ v5[p].at = 1
             /\ v5[p].owed = <<>> /\ v5[p].served = <<>>
  <2>1. PICK t \in Staff \cup {Nobody} : v5[p] = Bus!Idle(t)
    BY <1>4
  <2> QED
    BY <2>1 DEF Bus!Idle
<1>8. Bus!Walks
  BY <1>7 DEF Bus!Walks, Bus!Walking, Bus!InOrder
<1> QED
  BY <1>6, <1>8 DEF Bus!IInv

(* A step of the publication p that turns its record into c.               *)
LEMMA BusOnePublication ==
  ASSUME Bus!IInv, NEW p \in Publications, NEW c \in Bus!Calls,
         v5' = [v5 EXCEPT ![p] = c],
         UNCHANGED <<v1, v2, v3, v4, v6>>,
         c.pc # "idle",
         c.pc \in Bus!Walking => c.array \in Arrays,
         p \notin v6 => Bus!InOrder(c, v1[c.array])
  PROVE  Bus!IInv'
<1>1. /\ v5' \in [Publications -> Bus!Calls] /\ v5'[p] = c
      /\ \A q \in Publications \ {p} : v5'[q] = v5[q]
  BY DEF Bus!IInv, Bus!Shaped
<1>2. Bus!Shaped'
  BY <1>1 DEF Bus!IInv, Bus!Shaped
<1>3. ASSUME NEW q \in Publications
      PROVE  /\ v5'[q].pc \in Bus!Walking => v5'[q].array \in Arrays
             /\ v5'[q].pc = "idle" =>
                  /\ v5'[q].array = Nobody /\ v5'[q].at = 1
                  /\ v5'[q].owed = <<>> /\ v5'[q].served = <<>>
             /\ q \notin v6' => Bus!InOrder(v5'[q], v1'[v5'[q].array])
  <2>1. CASE q = p
    BY <1>1, <2>1
  <2>2. CASE q # p
    BY <1>1, <2>2 DEF Bus!IInv, Bus!Walks
  <2> QED
    BY <2>1, <2>2
<1> QED
  BY <1>2, <1>3 DEF Bus!IInv, Bus!Walks

(* A publication that starts.                                              *)
LEMMA BusPublishPreserves ==
  ASSUME Bus!IInv, NEW p \in Publications, Bus!Publish(p)
  PROVE  Bus!IInv'
<1> DEFINE a == v5[p].array
           s == v1[v2]
<1>1. /\ v5[p] \in Bus!Calls /\ v5[p].pc = "idle"
      /\ v5[p].owed = <<>> /\ v5[p].served = <<>> /\ v5[p].at = 1
  BY DEF Bus!IInv, Bus!Shaped, Bus!Walks, Bus!Publish
<1>2. UNCHANGED <<v1, v2, v3, v4, v6>>
  BY DEF Bus!Publish
<1>3. CASE v2 = Nobody
  <2> DEFINE c == [v5[p] EXCEPT !.pc = "returned"]
  <2>1. v5' = [v5 EXCEPT ![p] = c]
    BY <1>3 DEF Bus!Publish, Bus!Goto
  <2>2. c \in Bus!Calls /\ c.pc = "returned" /\ c.owed = <<>> /\ c.served = <<>>
    BY <1>1 DEF Bus!Calls
  <2>3. Bus!InOrder(c, v1[c.array])
    BY <2>2 DEF Bus!InOrder, Bus!Walking, Bus!Begins
  <2> HIDE DEF c
  <2> QED
    BY <1>2, <2>1, <2>2, <2>3, BusOnePublication DEF Bus!Walking
<1>4. CASE v2 # Nobody
  <2> DEFINE c == [v5[p] EXCEPT !.pc = "loop", !.array = v2, !.owed = s]
  <2>1. v5' = [v5 EXCEPT ![p] = c]
    BY <1>4 DEF Bus!Publish
  <2>2. v2 \in Arrays /\ s \in Seq(Handlers)
    BY <1>4 DEF Bus!IInv, Bus!Shaped, Bus!Queues
  <2>3. /\ c \in Bus!Calls /\ c.pc = "loop" /\ c.array = v2 /\ c.owed = s
        /\ c.served = <<>> /\ c.at = 1
    BY <1>1, <2>2 DEF Bus!Calls
  <2>4. Bus!Begins(s, s) /\ Bus!Begins(<<>>, s) /\ Len(<<>>) = 0
    BY <2>2, LenProperties DEF Bus!Begins
  <2>5. Bus!InOrder(c, v1[c.array])
    BY <2>3, <2>4 DEF Bus!InOrder, Bus!Walking
  <2> HIDE DEF c
  <2> QED
    BY <1>2, <2>1, <2>2, <2>3, <2>5, BusOnePublication
<1> QED
  BY <1>3, <1>4

(* A turn of the loop: the handler at the position, or the end.            *)
LEMMA BusCallNextPreserves ==
  ASSUME Bus!IInv, NEW p \in Publications, Bus!CallNext(p)
  PROVE  Bus!IInv'
<1> DEFINE s == v1[v5[p].array]
           h == s[v5[p].at]
<1>1. /\ v5[p] \in Bus!Calls /\ v5[p].pc = "loop" /\ v5[p].array \in Arrays
      /\ v5[p].at \in Nat \ {0} /\ v5[p].owed \in Seq(Handlers) /\ v5[p].served \in Seq(Handlers)
  BY DEF Bus!IInv, Bus!Shaped, Bus!Walks, Bus!CallNext, Bus!Calls, Bus!Walking
<1>2. UNCHANGED <<v1, v2, v3, v4, v6>>
  BY DEF Bus!CallNext
<1>3. s \in Seq(Handlers)
  BY <1>1 DEF Bus!IInv, Bus!Shaped, Bus!Queues
<1>4. ASSUME p \notin v6
      PROVE  /\ Bus!Begins(v5[p].owed, s) /\ Bus!Begins(v5[p].served, s)
             /\ v5[p].at = Len(v5[p].served) + 1
  BY <1>1, <1>4 DEF Bus!IInv, Bus!Walks, Bus!InOrder, Bus!Walking
<1>5. CASE v5[p].at <= Len(s)
  <2> DEFINE c == [v5[p] EXCEPT !.pc = "handler", !.served = Append(@, h)]
  <2>1. v5' = [v5 EXCEPT ![p] = c]
    BY <1>5 DEF Bus!CallNext
  <2>2. c.pc = "handler" /\ c.array = v5[p].array /\ c.owed = v5[p].owed
        /\ c.served = Append(v5[p].served, h) /\ c.at = v5[p].at
    BY <1>1 DEF Bus!Calls
  <2>3. h \in Handlers /\ Len(s) \in Nat
    BY <1>1, <1>3, <1>5, LenProperties, ElementOfSeq
  <2>4. c \in Bus!Calls
    <3> HIDE DEF h
    <3>1. Append(v5[p].served, h) \in Seq(Handlers)
      BY <1>1, <2>3
    <3> QED
      BY <1>1, <3>1 DEF Bus!Calls
  <2>5. ASSUME p \notin v6
        PROVE  Bus!InOrder(c, v1[c.array])
    <3>1. h = s[Len(v5[p].served) + 1] /\ Len(v5[p].served) + 1 <= Len(s)
      BY <1>4, <1>5, <2>5
    <3> HIDE DEF h, c, s
    <3>2. Bus!Begins(Append(v5[p].served, h), s) /\ Len(Append(v5[p].served, h)) = v5[p].at
      BY <1>1, <1>3, <1>4, <2>5, <3>1, BusBeginGrows
    <3>3. v1[c.array] = s
      BY <2>2 DEF s
    <3> QED
      BY <1>4, <2>2, <2>5, <3>2, <3>3 DEF Bus!InOrder
  <2> HIDE DEF c
  <2> QED
    BY <1>1, <1>2, <2>1, <2>2, <2>4, <2>5, BusOnePublication
<1>6. CASE ~(v5[p].at <= Len(s))
  <2> DEFINE c == [v5[p] EXCEPT !.pc = "returned"]
  <2>1. v5' = [v5 EXCEPT ![p] = c]
    BY <1>6 DEF Bus!CallNext, Bus!Goto
  <2>2. /\ c \in Bus!Calls /\ c.pc = "returned" /\ c.owed = v5[p].owed
        /\ c.served = v5[p].served
    BY <1>1 DEF Bus!Calls
  <2>3. ASSUME p \notin v6
        PROVE  Bus!InOrder(c, v1[c.array])
    <3>1. Bus!Begins(v5[p].owed, v5[p].served)
      <4> HIDE DEF s
      <4> QED
        BY <1>1, <1>3, <1>4, <1>6, <2>3, BusBeginsWhole
    <3> HIDE DEF c
    <3> QED
      BY <2>2, <3>1 DEF Bus!InOrder, Bus!Walking
  <2> HIDE DEF c
  <2> QED
    BY <1>2, <2>1, <2>2, <2>3, BusOnePublication DEF Bus!Walking
<1> QED
  BY <1>5, <1>6

(* The steps that end a handler, and the one that waits for the transport. *)
LEMMA BusHandlerPreserves ==
  ASSUME Bus!IInv, NEW p \in Publications, v5[p].pc \in {"handler", "sending"},
         Bus!NextTurn(p) \/ Bus!Goto(p, "sending"),
         UNCHANGED <<v1, v2, v3, v4, v6>>
  PROVE  Bus!IInv'
<1>1. /\ v5[p] \in Bus!Calls /\ v5[p].array \in Arrays /\ v5[p].at \in Nat \ {0}
      /\ p \notin v6 => Bus!InOrder(v5[p], v1[v5[p].array])
  BY DEF Bus!IInv, Bus!Shaped, Bus!Walks, Bus!Walking, Bus!Calls
<1>2. CASE Bus!NextTurn(p)
  <2> DEFINE c == [v5[p] EXCEPT !.pc = "loop", !.at = @ + 1]
  <2>1. v5' = [v5 EXCEPT ![p] = c]
    BY <1>2 DEF Bus!NextTurn
  <2>2. /\ c \in Bus!Calls /\ c.pc = "loop" /\ c.array = v5[p].array /\ c.owed = v5[p].owed
        /\ c.served = v5[p].served /\ c.at = v5[p].at + 1
    <3>1. v5[p].at + 1 \in Nat \ {0}
      BY <1>1
    <3> QED
      BY <1>1, <3>1 DEF Bus!Calls
  <2> HIDE DEF c
  <2>3. p \notin v6 => Bus!InOrder(c, v1[c.array])
    BY <1>1, <2>2 DEF Bus!InOrder, Bus!Walking
  <2> QED
    BY <1>1, <2>1, <2>2, <2>3, BusOnePublication
<1>3. CASE Bus!Goto(p, "sending")
  <2> DEFINE c == [v5[p] EXCEPT !.pc = "sending"]
  <2>1. v5' = [v5 EXCEPT ![p] = c]
    BY <1>3 DEF Bus!Goto
  <2>2. /\ c \in Bus!Calls /\ c.pc = "sending" /\ c.array = v5[p].array /\ c.owed = v5[p].owed
        /\ c.served = v5[p].served /\ c.at = v5[p].at
    BY <1>1 DEF Bus!Calls
  <2> HIDE DEF c
  <2>3. p \notin v6 => Bus!InOrder(c, v1[c.array])
    BY <1>1, <2>2 DEF Bus!InOrder, Bus!Walking
  <2> QED
    BY <1>1, <2>1, <2>2, <2>3, BusOnePublication
<1> QED
  BY <1>2, <1>3

(* A subscription: the array grows at its end, which every walk of it      *)
(* still begins.                                                           *)
LEMMA BusOnPreserves ==
  ASSUME Bus!BusAssumption, Bus!IInv, NEW h \in Handlers, Bus!On(h)
  PROVE  Bus!IInv'
<1>1. PICK a \in Arrays :
        /\ Len(v1[a]) < MaxHandlers
        /\ v1' = [v1 EXCEPT ![a] = Append(@, h)]
        /\ v2' = a
        /\ UNCHANGED <<v3, v4, v5, v6>>
  BY DEF Bus!On
<1>2. v1[a] \in Seq(Handlers) /\ Len(v1[a]) \in Nat
  BY LenProperties DEF Bus!IInv, Bus!Shaped, Bus!Queues
<1>3. Append(v1[a], h) \in Bus!Queues
  BY <1>1, <1>2 DEF Bus!BusAssumption, Bus!Queues
<1>4. Bus!Shaped'
  BY <1>1, <1>3 DEF Bus!IInv, Bus!Shaped
<1>5. ASSUME NEW p \in Publications, v5[p].pc \in Bus!Walking, NEW s \in Seq(Handlers),
             Bus!Begins(s, v1[v5[p].array])
      PROVE  Bus!Begins(s, v1'[v5[p].array])
  <2>1. v5[p].array \in Arrays
    BY <1>5 DEF Bus!IInv, Bus!Walks
  <2>2. CASE v5[p].array = a
    BY <1>1, <1>2, <1>5, <2>1, <2>2, BusAppendKeepsBegin DEF Bus!IInv, Bus!Shaped
  <2>3. CASE v5[p].array # a
    BY <1>1, <1>5, <2>1, <2>3 DEF Bus!IInv, Bus!Shaped
  <2> QED
    BY <2>2, <2>3
<1>6. ASSUME NEW p \in Publications, Bus!InOrder(v5[p], v1[v5[p].array])
      PROVE  Bus!InOrder(v5[p], v1'[v5[p].array])
  <2>1. v5[p].owed \in Seq(Handlers) /\ v5[p].served \in Seq(Handlers)
    BY DEF Bus!IInv, Bus!Shaped, Bus!Calls
  <2> QED
    BY <1>5, <1>6, <2>1 DEF Bus!InOrder
<1>7. Bus!Walks'
  BY <1>1, <1>6 DEF Bus!IInv, Bus!Walks
<1> QED
  BY <1>4, <1>7 DEF Bus!IInv

(* A cancellation: whoever walks the array is set aside.                   *)
LEMMA BusCancelPreserves ==
  ASSUME Bus!BusAssumption, Bus!IInv, NEW h \in Handlers, Bus!Cancel(h)
  PROVE  Bus!IInv'
<1> DEFINE a == v2
<1>1. PICK i \in Bus!IndexOf(v1[a], h) :
        v1' = [v1 EXCEPT ![a] = Bus!RemoveAt(@, i)]
  BY DEF Bus!Cancel
<1>2. a \in Arrays /\ v1[a] \in Seq(Handlers) /\ Len(v1[a]) <= MaxHandlers
  BY DEF Bus!IInv, Bus!Shaped, Bus!Queues, Bus!Cancel
<1>3. Len(v1[a]) \in Nat /\ i \in 1..Len(v1[a])
  BY <1>1, <1>2, LenProperties DEF Bus!IndexOf
<1>4. Bus!RemoveAt(v1[a], i) \in Bus!Queues
  <2>1. /\ Bus!RemoveAt(v1[a], i) \in Seq(Handlers)
        /\ Len(Bus!RemoveAt(v1[a], i)) = Len(v1[a]) - 1
    BY <1>2, <1>3, BusRemovedOne
  <2> QED
    BY <1>2, <1>3, <2>1 DEF Bus!BusAssumption, Bus!Queues
<1>5. UNCHANGED <<v3, v4, v5>> /\ v6' = v6 \cup Bus!Walkers(a)
  BY DEF Bus!Cancel
<1>6. v1' \in [Arrays -> Bus!Queues]
  BY <1>1, <1>2, <1>4 DEF Bus!IInv, Bus!Shaped
<1>7. v2' \in Arrays \cup {Nobody} /\ Bus!Walkers(a) \subseteq Publications
  BY <1>2 DEF Bus!Cancel, Bus!Walkers
<1>8. Bus!Shaped'
  BY <1>5, <1>6, <1>7 DEF Bus!IInv, Bus!Shaped
<1>9. ASSUME NEW p \in Publications, p \notin v6'
      PROVE  Bus!InOrder(v5[p], v1'[v5[p].array])
  <2>1. Bus!InOrder(v5[p], v1[v5[p].array]) /\ p \notin Bus!Walkers(a)
    BY <1>5, <1>9 DEF Bus!IInv, Bus!Walks
  <2>2. CASE v5[p].pc \in Bus!Walking
    <3>1. v5[p].array \in Arrays /\ v5[p].array # a
      BY <2>1, <2>2 DEF Bus!IInv, Bus!Walks, Bus!Walkers, Bus!Walking
    <3>2. v1'[v5[p].array] = v1[v5[p].array]
      BY <1>1, <3>1 DEF Bus!IInv, Bus!Shaped
    <3> QED
      BY <2>1, <3>2
  <2>3. CASE v5[p].pc \notin Bus!Walking
    BY <2>1, <2>3 DEF Bus!InOrder, Bus!Walking
  <2> QED
    BY <2>2, <2>3
<1>10. Bus!Walks'
  BY <1>5, <1>9 DEF Bus!IInv, Bus!Walks
<1> QED
  BY <1>8, <1>10 DEF Bus!IInv

LEMMA BusInductive ==
  ASSUME Bus!BusAssumption, Bus!IInv, [Bus!Next]_Bus!vars
  PROVE  Bus!IInv'
<1>1. CASE UNCHANGED Bus!vars
  BY <1>1 DEF Bus!vars, Bus!IInv, Bus!Shaped, Bus!Walks
<1>2. CASE Bus!RemoveAll
  <2>1. v2' = Nobody /\ UNCHANGED <<v1, v3, v4, v5, v6>>
    BY <1>2 DEF Bus!RemoveAll
  <2>2. Bus!Shaped'
    BY <2>1 DEF Bus!IInv, Bus!Shaped
  <2>3. Bus!Walks'
    BY <2>1 DEF Bus!IInv, Bus!Walks
  <2> QED
    BY <2>2, <2>3 DEF Bus!IInv
<1>3. ASSUME NEW p \in Publications, Bus!Advance(p)
      PROVE  Bus!IInv'
  <2>1. CASE Bus!CallNext(p)
    BY <2>1, BusCallNextPreserves
  <2>2. CASE Bus!HandlerReturns(p)
    BY <2>2, BusHandlerPreserves DEF Bus!HandlerReturns
  <2>3. CASE Bus!HandlerThrows(p)
    BY <2>3, BusHandlerPreserves DEF Bus!HandlerThrows, Bus!AfterFailure
  <2>4. CASE Bus!ResolveRecipients(p)
    BY <2>4, BusHandlerPreserves DEF Bus!ResolveRecipients
  <2>5. CASE Bus!Transport(p)
    BY <2>5, BusHandlerPreserves DEF Bus!Transport
  <2> QED
    BY <1>3, <2>1, <2>2, <2>3, <2>4, <2>5 DEF Bus!Advance
<1> QED
  BY <1>1, <1>2, <1>3, BusOnPreserves, BusCancelPreserves, BusPublishPreserves DEF Bus!Next

LEMMA BusMeans ==
  ASSUME Bus!BusAssumption, Bus!IInv
  PROVE  Bus!TypeOK /\ Bus!EveryHandlerServed
<1>1. Bus!TypeOK
  <2>1. Bus!Queues \subseteq UNION {[1..n -> Handlers] : n \in 0..MaxHandlers}
    BY LenProperties DEF Bus!BusAssumption, Bus!Queues
  <2>2. Bus!Calls \subseteq
          [pc : {"idle", "loop", "handler", "sending", "returned"},
           array : Arrays \cup {Nobody}, at : Nat, owed : Seq(Handlers),
           served : Seq(Handlers), technician : Staff \cup {Nobody}]
    BY DEF Bus!Calls
  <2> QED
    BY <2>1, <2>2 DEF Bus!IInv, Bus!Shaped, Bus!TypeOK
<1>2. ASSUME NEW p \in Publications, v5[p].pc = "returned", p \notin v6
      PROVE  Bus!IsPrefix(v5[p].owed, v5[p].served)
  <2>1. v5[p].owed \in Seq(Handlers) /\ v5[p].served \in Seq(Handlers)
    BY DEF Bus!IInv, Bus!Shaped, Bus!Calls
  <2>2. Bus!Begins(v5[p].owed, v5[p].served)
    BY <1>2 DEF Bus!IInv, Bus!Walks, Bus!InOrder
  <2> QED
    BY <2>1, <2>2, BusPrefixIsBegin
<1> QED
  BY <1>1, <1>2 DEF Bus!EveryHandlerServed

-----------------------------------------------------------------------------
(* The payments: Payments.tla, whose rows, lastId, req, trail and reader   *)
(* are v1 to v5 here. A reader nobody disturbed has seen the head of the   *)
(* period, cut where the pages end.                                        *)

(* Cardinality as Payments.tla takes it.                                   *)
LEMMA PaidCardinality == \A S : Paid!Cardinality(S) = Cardinality(S)
BY DEF Cardinality, Paid!Cardinality

(* The order of the listing.                                               *)
LEMMA PaidAboveIs ==
  ASSUME Paid!PaymentsAssumption, Paid!TypeOK, NEW i \in Paid!Ids, NEW j \in Paid!Ids,
         NEW k \in Paid!Ids
  PROVE  /\ ~Paid!Above(i, i)
         /\ Paid!Above(i, j) /\ Paid!Above(j, k) => Paid!Above(i, k)
         /\ i # j => Paid!Above(i, j) \/ Paid!Above(j, i)
<1>1. \A m \in Paid!Ids : v1[m].paid \in Nat /\ v1[m].born \in Nat /\ m \in Nat
  <2> TAKE m \in Paid!Ids
  <2>1. v1[m].paid \in PaymentDays \cup {0} /\ PaymentDays \subseteq Nat
    BY DEF Paid!TypeOK, Paid!PaymentsAssumption
  <2>2. v1[m].born \in (1..2) \cup {0} /\ m \in 1..PaymentIds
    BY DEF Paid!TypeOK, Paid!Births, Paid!Ids
  <2> DEFINE paid == v1[m].paid
  <2>3. paid \in Nat
    <3>1. paid \in PaymentDays \/ paid = 0
      BY <2>1
    <3>2. PaymentDays \subseteq Nat
      BY DEF Paid!PaymentsAssumption
    <3> HIDE DEF paid
    <3>3. CASE paid \in PaymentDays
      BY <3>2, <3>3
    <3>4. CASE paid = 0
      BY <3>4
    <3> QED
      BY <3>1, <3>3, <3>4
  <2>4. v1[m].born \in Nat /\ m \in Nat
    BY <2>2
  <2> QED
    BY <2>3, <2>4
<1> QED
  BY <1>1 DEF Paid!Above

LEMMA PaidIdsFinite ==
  ASSUME Paid!PaymentsAssumption
  PROVE  IsFiniteSet(Paid!Ids) /\ \A ids \in SUBSET Paid!Ids : IsFiniteSet(ids)
<1>1. PaymentIds \in Int /\ 1 \in Int
  BY DEF Paid!PaymentsAssumption
<1>2. IsFiniteSet(Paid!Ids)
  BY <1>1, FS_Interval DEF Paid!Ids
<1> QED
  BY <1>2, FS_Subset

LEMMA PaidInPeriodIs ==
  ASSUME NEW from, NEW to
  PROVE  Paid!InPeriod(from, to) \subseteq Paid!Ids
BY DEF Paid!InPeriod, Paid!Stored

(* How many come first.                                                    *)
LEMMA PaidRankIs ==
  ASSUME Paid!PaymentsAssumption, Paid!TypeOK, NEW ids \in SUBSET Paid!Ids, NEW i \in ids
  PROVE  Paid!Rank(i, ids) \in 0..(Cardinality(ids) - 1)
<1> DEFINE before == {j \in ids : Paid!Above(j, i)}
<1>1. IsFiniteSet(ids)
  BY PaidIdsFinite
<1>2. IsFiniteSet(before) /\ Cardinality(before) <= Cardinality(ids)
      /\ Cardinality(before) # Cardinality(ids)
  <2>1. i \notin before
    BY PaidAboveIs
  <2>2. before \subseteq ids /\ before # ids
    BY <2>1
  <2> QED
    BY <1>1, <2>2, FS_Subset
<1>3. Cardinality(before) \in Nat /\ Cardinality(ids) \in Nat
  BY <1>1, <1>2, FS_CardinalityType
<1>4. Paid!Rank(i, ids) = Cardinality(before)
  BY PaidCardinality DEF Paid!Rank
<1> QED
  BY <1>2, <1>3, <1>4

LEMMA PaidRankOrders ==
  ASSUME Paid!PaymentsAssumption, Paid!TypeOK, NEW ids \in SUBSET Paid!Ids, NEW i \in ids,
         NEW j \in ids, Paid!Above(i, j)
  PROVE  Paid!Rank(i, ids) < Paid!Rank(j, ids)
<1> DEFINE one == {k \in ids : Paid!Above(k, i)}
           two == {k \in ids : Paid!Above(k, j)}
<1>1. IsFiniteSet(two)
  BY PaidIdsFinite
<1>2. one \subseteq two
  BY PaidAboveIs
<1>3. i \in two /\ i \notin one
  BY PaidAboveIs
<1>4. Cardinality(one) <= Cardinality(two) /\ Cardinality(one) # Cardinality(two)
  BY <1>1, <1>2, <1>3, FS_Subset
<1>5. Cardinality(one) \in Nat /\ Cardinality(two) \in Nat
  BY <1>1, <1>2, FS_Subset, FS_CardinalityType
<1> QED
  BY <1>4, <1>5, PaidCardinality DEF Paid!Rank

(* The ranks of n payments are 0 to n - 1: a head of the listing has as    *)
(* many payments as were asked for, if there are as many.                  *)
LEMMA PaidHeadIs ==
  ASSUME Paid!PaymentsAssumption, Paid!TypeOK, NEW ids \in SUBSET Paid!Ids, NEW n \in Nat,
         n <= Cardinality(ids)
  PROVE  Cardinality({i \in ids : Paid!Rank(i, ids) < n}) = n
<1> DEFINE c == Cardinality(ids)
           f == [i \in ids |-> Paid!Rank(i, ids)]
           head == {i \in ids : Paid!Rank(i, ids) < n}
           g == [i \in head |-> f[i]]
<1>1. IsFiniteSet(ids) /\ c \in Nat
  BY PaidIdsFinite, FS_CardinalityType
<1>2. f \in Injection(ids, 0..(c - 1))
  <2>1. f \in [ids -> 0..(c - 1)]
    BY PaidRankIs
  <2>2. ASSUME NEW i \in ids, NEW j \in ids, f[i] = f[j], i # j
        PROVE  FALSE
    <3>1. Paid!Rank(i, ids) = Paid!Rank(j, ids) /\ Paid!Rank(i, ids) \in Int
      BY <2>2, PaidRankIs
    <3>2. Paid!Above(i, j) \/ Paid!Above(j, i)
      BY <2>2, PaidAboveIs
    <3>3. Paid!Rank(i, ids) < Paid!Rank(j, ids) \/ Paid!Rank(j, ids) < Paid!Rank(i, ids)
      BY <3>2, PaidRankOrders
    <3> QED
      BY <3>1, <3>3
  <2> QED
    BY <2>1, <2>2, Fun_IsInj
<1>3. IsFiniteSet(0..(c - 1)) /\ Cardinality(0..(c - 1)) = c
  <2>1. c - 1 \in Int /\ 0 \in Int
    BY <1>1
  <2>2. /\ IsFiniteSet(0..(c - 1))
        /\ Cardinality(0..(c - 1)) = IF 0 > c - 1 THEN 0 ELSE (c - 1) - 0 + 1
    BY <2>1, FS_Interval
  <2> QED
    BY <1>1, <2>2
<1>4. f \in Surjection(ids, 0..(c - 1))
  <2> HIDE DEF f
  <2> QED
    BY <1>2, <1>3, FS_Injection
<1>5. /\ f \in [ids -> 0..(c - 1)]
      /\ \A i, j \in ids : f[i] = f[j] => i = j
      /\ \A k \in 0..(c - 1) : \E i \in ids : f[i] = k
  <2> HIDE DEF f
  <2> QED
    BY <1>2, <1>4 DEF Injection, Surjection, IsInjective
<1>6. \A i \in ids : i \in head <=> f[i] < n
  OBVIOUS
<1>7. head \subseteq ids
  OBVIOUS
<1> HIDE DEF f, head
<1>8. g \in [head -> 0..(n - 1)]
  BY <1>1, <1>5, <1>6, <1>7
<1>9. \A i, j \in head : g[i] = g[j] => i = j
  BY <1>5, <1>7
<1>10. \A k \in 0..(n - 1) : \E i \in head : g[i] = k
  <2> TAKE k \in 0..(n - 1)
  <2>1. PICK i \in ids : f[i] = k
    BY <1>1, <1>5
  <2>2. i \in head
    BY <1>6, <2>1
  <2> QED
    BY <2>1, <2>2
<1> HIDE DEF g
<1>11. g \in Bijection(head, 0..(n - 1))
  BY <1>8, <1>9, <1>10, Fun_IsBij
<1>12. IsFiniteSet(head)
  BY <1>1, <1>7, FS_Subset
<1>13. Cardinality(0..(n - 1)) = Cardinality(head)
  BY <1>11, <1>12, FS_Bijection, Fun_ExistsBij
<1>14. Cardinality(0..(n - 1)) = n
  BY FS_Interval
<1> QED
  BY <1>13, <1>14 DEF head

-----------------------------------------------------------------------------
LEMMA PaidInit == Paid!PaymentsAssumption /\ Paid!Init => Paid!IInv
BY DEF Paid!PaymentsAssumption, Paid!Init, Paid!IInv, Paid!TypeOK, Paid!NoRow, Paid!Idle,
   Paid!Fresh, Paid!Ids, Paid!Births

(* The types, one group of variables at a time.                            *)
PaidRowsOK ==
  /\ DOMAIN v1 = Paid!Ids
  /\ \A i \in Paid!Ids : v1[i].paid \in PaymentDays \cup {0} /\ v1[i].born \in Paid!Births \cup {0}
PaidRequestsOK ==
  /\ DOMAIN v3 = PaymentRequests
  /\ \A r \in PaymentRequests :
       /\ v3[r].pc \in {"idle", "delete", "record", "done", "400", "404", "500"}
       /\ v3[r].id \in 0..PaymentIds
       /\ v3[r].pc \in {"delete", "record"} => v3[r].id \in Paid!Ids
PaidReaderOK ==
  /\ v5.pc \in {"closed", "items", "count", "sum", "shown"}
  /\ v5.page \in Nat \ {0} /\ v5.calm \in BOOLEAN
  /\ v5 = [pc |-> v5.pc, from |-> v5.from, to |-> v5.to,
               page |-> v5.page, items |-> v5.items, total |-> v5.total,
               hours |-> v5.hours, seen |-> v5.seen, twice |-> v5.twice,
               calm |-> v5.calm]

(* What a calm reader has seen.                                            *)
PaidSeenOK ==
  v5.pc # "closed" /\ v5.calm =>
    LET ids == Paid!InPeriod(v5.from, v5.to)
        shown == IF v5.pc = "shown" THEN v5.page ELSE v5.page - 1
    IN /\ ~v5.twice
       /\ v5.seen = {i \in ids : Paid!Rank(i, ids) < shown * PaymentPage}
       /\ v5.pc \in {"count", "sum"} => v5.items = Paid!PageOf(ids, v5.page)
       /\ v5.pc \in {"sum", "shown"} => v5.total = Cardinality(ids)
       /\ v5.pc = "shown" => v5.hours = Paid!SumFunctionOnSet(Paid!Wholes, ids)

PaidRecordsOK == v2 \in 0..PaymentIds /\ v4 \subseteq {"created", "deleted"} \X Paid!Ids

LEMMA PaidIInvIs ==
  /\ Paid!IInv => PaidRowsOK /\ PaidRequestsOK /\ PaidReaderOK /\ PaidSeenOK /\ PaidRecordsOK
  /\ PaidRowsOK' /\ PaidRequestsOK' /\ PaidReaderOK' /\ PaidSeenOK' /\ PaidRecordsOK' => Paid!IInv'
BY PaidCardinality DEF PaidRecordsOK, Paid!IInv, Paid!TypeOK, PaidRowsOK, PaidRequestsOK,
   PaidReaderOK, PaidSeenOK

(* While nobody writes a page is the same whenever it is read.             *)
LEMMA PaidSeenStays ==
  ASSUME PaidSeenOK, UNCHANGED <<v1, v5>>
  PROVE  PaidSeenOK'
BY DEF PaidSeenOK, Paid!InPeriod, Paid!Stored, Paid!PageOf, Paid!Rank, Paid!Above, Paid!Wholes

(* A writer leaves the reader where he is, but no longer calm.             *)
LEMMA PaidNotCalm ==
  ASSUME PaidReaderOK, v5' = [v5 EXCEPT !.calm = FALSE]
  PROVE  PaidReaderOK' /\ PaidSeenOK'
<1>1. v5' = [pc |-> v5.pc, from |-> v5.from, to |-> v5.to,
                 page |-> v5.page, items |-> v5.items, total |-> v5.total,
                 hours |-> v5.hours, seen |-> v5.seen, twice |-> v5.twice,
                 calm |-> FALSE]
  BY DEF PaidReaderOK
<1> QED
  BY <1>1 DEF PaidReaderOK, PaidSeenOK

(* A page goes on where those before it end.                               *)
LEMMA PaidPageFollows ==
  ASSUME Paid!PaymentsAssumption, Paid!TypeOK, NEW ids \in SUBSET Paid!Ids, NEW p \in Nat \ {0}
  PROVE  /\ {i \in ids : Paid!Rank(i, ids) < (p - 1) * PaymentPage} \cap Paid!PageOf(ids, p) = {}
         /\ {i \in ids : Paid!Rank(i, ids) < (p - 1) * PaymentPage} \cup Paid!PageOf(ids, p)
              = {i \in ids : Paid!Rank(i, ids) < p * PaymentPage}
<1>1. (p - 1) * PaymentPage \in Nat /\ p * PaymentPage \in Nat
      /\ (p - 1) * PaymentPage <= p * PaymentPage
  BY DEF Paid!PaymentsAssumption
<1>2. \A i \in ids : Paid!Rank(i, ids) \in Int
  BY PaidRankIs
<1> DEFINE low == (p - 1) * PaymentPage
           high == p * PaymentPage
<1>3. Paid!PageOf(ids, p) = {i \in ids : low <= Paid!Rank(i, ids) /\ Paid!Rank(i, ids) < high}
  BY DEF Paid!PageOf
<1>4. low \in Nat /\ high \in Nat /\ low <= high
  BY <1>1
<1> HIDE DEF low, high
<1>5. /\ {i \in ids : Paid!Rank(i, ids) < low} \cap Paid!PageOf(ids, p) = {}
      /\ {i \in ids : Paid!Rank(i, ids) < low} \cup Paid!PageOf(ids, p)
           = {i \in ids : Paid!Rank(i, ids) < high}
  BY <1>2, <1>3, <1>4
<1> QED
  BY <1>5 DEF low, high

(* Nothing is seen before the first page.                                  *)
LEMMA PaidNothingBefore ==
  ASSUME Paid!PaymentsAssumption, Paid!TypeOK, NEW ids \in SUBSET Paid!Ids
  PROVE  {i \in ids : Paid!Rank(i, ids) < (1 - 1) * PaymentPage} = {}
<1>1. (1 - 1) * PaymentPage = 0
  BY DEF Paid!PaymentsAssumption
<1>2. \A i \in ids : Paid!Rank(i, ids) \in Nat
  BY PaidRankIs
<1> QED
  BY <1>1, <1>2

(* The reader's own steps leave the rows alone.                            *)
LEMMA PaidReaderSteps ==
  ASSUME Paid!PaymentsAssumption, Paid!IInv,
         \/ \E from, to \in PaymentDays \cup {0} : Paid!Open(from, to)
         \/ Paid!ReadItems \/ Paid!ReadCount \/ Paid!ReadSum \/ Paid!TurnPage \/ Paid!Close
  PROVE  PaidReaderOK' /\ PaidSeenOK'
<1>1. /\ PaidRowsOK /\ PaidRequestsOK /\ PaidReaderOK /\ PaidSeenOK /\ Paid!TypeOK
      /\ UNCHANGED <<v1, v2, v3, v4>>
  BY PaidIInvIs DEF Paid!IInv, Paid!Open, Paid!ReadItems, Paid!ReadCount, Paid!ReadSum,
     Paid!TurnPage, Paid!Close
<1>2. \A from, to : /\ Paid!InPeriod(from, to) \subseteq Paid!Ids
                    /\ Paid!InPeriod(from, to)' = Paid!InPeriod(from, to)
  BY <1>1 DEF Paid!InPeriod, Paid!Stored, Paid!Ids
<1>3. \A i, ids : Paid!Rank(i, ids)' = Paid!Rank(i, ids)
  BY <1>1 DEF Paid!Rank, Paid!Above
<1>4. \A ids, p : Paid!PageOf(ids, p)' = Paid!PageOf(ids, p)
  BY <1>3 DEF Paid!PageOf
<1>5. Paid!Wholes' = Paid!Wholes
  BY <1>1 DEF Paid!Wholes
<1>6. v5 = [pc |-> v5.pc, from |-> v5.from, to |-> v5.to,
                page |-> v5.page, items |-> v5.items, total |-> v5.total,
                hours |-> v5.hours, seen |-> v5.seen, twice |-> v5.twice,
                calm |-> v5.calm]
  BY <1>1 DEF PaidReaderOK
<1> DEFINE ids == Paid!InPeriod(v5.from, v5.to)
<1>7. ids \subseteq Paid!Ids /\ ids' = Paid!InPeriod(v5'.from, v5'.to)
  BY <1>2
<1>8. CASE \E from, to \in PaymentDays \cup {0} : Paid!Open(from, to)
  <2>1. PICK from \in PaymentDays \cup {0}, to \in PaymentDays \cup {0} : Paid!Open(from, to)
    BY <1>8
  <2>2. v5' = [pc |-> "items", from |-> from, to |-> to, page |-> 1, items |-> {},
                   total |-> 0, hours |-> 0, seen |-> {}, twice |-> FALSE, calm |-> TRUE]
    BY <2>1 DEF Paid!Open, Paid!Fresh
  <2>3. {i \in Paid!InPeriod(from,
                             to) : Paid!Rank(i,
                                             Paid!InPeriod(from, to)) < (1 - 1) * PaymentPage} = {}
    BY <1>1, <1>2, PaidNothingBefore
  <2> QED
    BY <1>2, <1>3, <2>2, <2>3 DEF PaidReaderOK, PaidSeenOK
<1>9. CASE Paid!ReadItems
  <2>1. v5' = [pc |-> "count", from |-> v5.from, to |-> v5.to,
                   page |-> v5.page, items |-> Paid!PageOf(ids, v5.page), total |-> v5.total,
                   hours |-> v5.hours, seen |-> v5.seen, twice |-> v5.twice,
                   calm |-> v5.calm]
    BY <1>6, <1>9 DEF Paid!ReadItems
  <2> QED
    BY <1>1, <1>2, <1>3, <1>4, <1>9, <2>1 DEF PaidReaderOK, PaidSeenOK, Paid!ReadItems
<1>10. CASE Paid!ReadCount
  <2>1. v5' = [pc |-> "sum", from |-> v5.from, to |-> v5.to,
                   page |-> v5.page, items |-> v5.items, total |-> Cardinality(ids),
                   hours |-> v5.hours, seen |-> v5.seen, twice |-> v5.twice,
                   calm |-> v5.calm]
    BY <1>6, <1>10, PaidCardinality DEF Paid!ReadCount
  <2> QED
    BY <1>1, <1>2, <1>3, <1>4, <1>10, <2>1, PaidCardinality DEF PaidReaderOK, PaidSeenOK,
       Paid!ReadCount
<1>11. CASE Paid!ReadSum
  <2>1. v5' = [pc |-> "shown", from |-> v5.from, to |-> v5.to,
                   page |-> v5.page, items |-> v5.items, total |-> v5.total,
                   hours |-> Paid!SumFunctionOnSet(Paid!Wholes,
                                                   ids), seen |-> v5.seen \cup v5.items,
                   twice |-> (v5.twice \/ v5.seen \cap v5.items # {}),
                   calm |-> v5.calm]
    BY <1>6, <1>11 DEF Paid!ReadSum
  <2>2. PaidReaderOK'
    BY <1>1, <2>1 DEF PaidReaderOK
  <2>3. ASSUME v5.calm
        PROVE  /\ ~(v5.twice \/ v5.seen \cap v5.items # {})
               /\ v5.seen \cup v5.items
                    = {i \in ids : Paid!Rank(i, ids) < v5.page * PaymentPage}
               /\ v5.total = Cardinality(ids)
    <3>1. /\ ~v5.twice
          /\ v5.seen = {i \in ids : Paid!Rank(i, ids) < (v5.page - 1) * PaymentPage}
          /\ v5.items = Paid!PageOf(ids, v5.page)
          /\ v5.total = Cardinality(ids)
      BY <1>1, <1>11, <2>3 DEF PaidSeenOK, Paid!ReadSum
    <3>2. v5.page \in Nat \ {0}
      BY <1>1 DEF PaidReaderOK
    <3> QED
      BY <1>1, <1>7, <3>1, <3>2, PaidPageFollows
  <2> QED
    BY <1>2, <1>3, <1>5, <2>1, <2>2, <2>3 DEF PaidSeenOK
<1>12. CASE Paid!TurnPage
  <2>1. v5' = [pc |-> "items", from |-> v5.from, to |-> v5.to,
                   page |-> v5.page + 1, items |-> v5.items, total |-> v5.total,
                   hours |-> v5.hours, seen |-> v5.seen, twice |-> v5.twice,
                   calm |-> v5.calm]
    BY <1>6, <1>12 DEF Paid!TurnPage
  <2>2. v5.page \in Nat /\ (v5.page + 1) - 1 = v5.page
    BY <1>1 DEF PaidReaderOK
  <2>3. PaidReaderOK'
    BY <1>1, <2>1, <2>2 DEF PaidReaderOK
  <2>4. ASSUME v5.calm
        PROVE  /\ ~v5.twice
               /\ v5.seen
                    = {i \in ids : Paid!Rank(i, ids) < ((v5.page + 1) - 1) * PaymentPage}
    BY <1>1, <1>12, <2>2, <2>4 DEF PaidSeenOK, Paid!TurnPage
  <2> QED
    BY <1>2, <1>3, <2>1, <2>3, <2>4 DEF PaidSeenOK
<1>13. CASE Paid!Close
  BY <1>13 DEF Paid!Close, Paid!Fresh, PaidReaderOK, PaidSeenOK
<1> QED
  BY <1>8, <1>9, <1>10, <1>11, <1>12, <1>13

(* Requests.                                                               *)
LEMMA PaidWriterSteps ==
  ASSUME Paid!PaymentsAssumption, Paid!IInv, NEW r \in PaymentRequests,
         \/ \E day \in PaymentDays \cup {0}, text \in PaymentTexts : Paid!Create(r, day, text)
         \/ \E i \in Paid!Ids : Paid!Find(r, i)
         \/ Paid!Delete(r) \/ Paid!Record(r)
  PROVE  Paid!IInv'
<1>1. /\ PaidRowsOK /\ PaidRequestsOK /\ PaidReaderOK /\ PaidSeenOK
      /\ PaidRecordsOK
  BY PaidIInvIs
<1> USE DEF PaidRecordsOK
<1>2. CASE \E day \in PaymentDays \cup {0}, text \in PaymentTexts : Paid!Create(r, day, text)
  <2>1. PICK day \in PaymentDays \cup {0}, text \in PaymentTexts : Paid!Create(r, day, text)
    BY <1>2
  <2>2. CASE day = 0 \/ Paid!ServerReads(text) = Paid!Nothing
    <3>1. /\ UNCHANGED <<v1, v2, v5, v4>> /\ Paid!Goto(r, "400")
      BY <2>1, <2>2 DEF Paid!Create
    <3>2. PaidRowsOK' /\ PaidReaderOK' /\ PaidSeenOK'
      BY <1>1, <3>1, PaidSeenStays DEF PaidRowsOK, PaidReaderOK
    <3>3. PaidRequestsOK'
      BY <1>1, <3>1 DEF PaidRequestsOK, Paid!Goto
    <3> QED
      BY <1>1, <3>1, <3>2, <3>3, PaidIInvIs
  <2>3. CASE ~(day = 0 \/ Paid!ServerReads(text) = Paid!Nothing)
    <3>1. PICK born \in Paid!Births :
            v1' = [v1 EXCEPT ![v2 + 1] =
                       [paid |-> day, born |-> born,
                        amount |-> Paid!Amount(Paid!ServerReads(text))]]
      BY <2>1, <2>3 DEF Paid!Create
    <3>2. /\ v2 < PaymentIds /\ v2' = v2 + 1 /\ UNCHANGED v4
          /\ v3' = [v3 EXCEPT ![r] = [pc |-> "record", id |-> v2 + 1, found |-> Paid!NoRow]]
          /\ v5' = [v5 EXCEPT !.calm = FALSE]
      BY <2>1, <2>3 DEF Paid!Create
    <3>3. v2 + 1 \in Paid!Ids /\ v2 + 1 \in 0..PaymentIds
      BY <1>1, <3>2 DEF Paid!Ids, Paid!PaymentsAssumption
    <3>4. PaidRowsOK'
      BY <1>1, <3>1, <3>3 DEF PaidRowsOK
    <3>5. PaidRequestsOK'
      BY <1>1, <3>2, <3>3 DEF PaidRequestsOK
    <3>6. PaidReaderOK' /\ PaidSeenOK'
      BY <1>1, <3>2, PaidNotCalm
    <3> QED
      BY <1>1, <3>2, <3>3, <3>4, <3>5, <3>6, PaidIInvIs
  <2> QED
    BY <2>2, <2>3
<1>3. CASE \E i \in Paid!Ids : Paid!Find(r, i)
  <2>1. PICK i \in Paid!Ids : Paid!Find(r, i)
    BY <1>3
  <2>2. /\ UNCHANGED <<v1, v2, v4, v5>>
        /\ v3' = [v3 EXCEPT ![r] =
             [pc |-> IF i \in Paid!Stored THEN "delete" ELSE "404", id |-> i, found |-> v1[i]]]
    BY <2>1 DEF Paid!Find
  <2>3. PaidRowsOK' /\ PaidReaderOK' /\ PaidSeenOK'
    BY <1>1, <2>2, PaidSeenStays DEF PaidRowsOK, PaidReaderOK
  <2>4. i \in 0..PaymentIds
    BY DEF Paid!Ids, Paid!PaymentsAssumption
  <2>5. PaidRequestsOK'
    BY <1>1, <2>2, <2>4 DEF PaidRequestsOK
  <2> QED
    BY <1>1, <2>2, <2>3, <2>5, PaidIInvIs
<1>4. CASE Paid!Delete(r)
  <2>1. PaidRequestsOK'
    <3>1. /\ Paid!Goto(r, "record") \/ Paid!Goto(r, "500")
          /\ v3[r].id \in Paid!Ids
      BY <1>1, <1>4 DEF PaidRequestsOK, Paid!Delete, Paid!At
    <3>2. CASE Paid!Goto(r, "record")
      BY <1>1, <3>1, <3>2 DEF PaidRequestsOK, Paid!Goto
    <3>3. CASE Paid!Goto(r, "500")
      BY <1>1, <3>1, <3>3 DEF PaidRequestsOK, Paid!Goto
    <3> QED
      BY <3>1, <3>2, <3>3
  <2>2. CASE v3[r].id \in Paid!Stored
    <3>1. /\ v1' = [v1 EXCEPT ![v3[r].id] = Paid!NoRow]
          /\ v5' = [v5 EXCEPT !.calm = FALSE] /\ UNCHANGED <<v2, v4>>
      BY <1>4, <2>2 DEF Paid!Delete
    <3>2. PaidRowsOK'
      BY <1>1, <2>2, <3>1 DEF PaidRowsOK, Paid!NoRow, Paid!Stored
    <3>3. PaidReaderOK' /\ PaidSeenOK'
      BY <1>1, <3>1, PaidNotCalm
    <3> QED
      BY <1>1, <2>1, <3>1, <3>2, <3>3, PaidIInvIs
  <2>3. CASE v3[r].id \notin Paid!Stored
    <3>1. UNCHANGED <<v1, v2, v4, v5>>
      BY <1>4, <2>3 DEF Paid!Delete
    <3>2. PaidRowsOK' /\ PaidReaderOK' /\ PaidSeenOK'
      BY <1>1, <3>1, PaidSeenStays DEF PaidRowsOK, PaidReaderOK
    <3> QED
      BY <1>1, <2>1, <3>1, <3>2, PaidIInvIs
  <2> QED
    BY <2>2, <2>3
<1>5. CASE Paid!Record(r)
  <2>1. UNCHANGED <<v1, v2, v5>>
    BY <1>5 DEF Paid!Record
  <2>2. PaidRowsOK' /\ PaidReaderOK' /\ PaidSeenOK'
    BY <1>1, <2>1, PaidSeenStays DEF PaidRowsOK, PaidReaderOK
  <2>3. PaidRequestsOK'
    BY <1>1, <1>5 DEF PaidRequestsOK, Paid!Record, Paid!Goto
  <2>4. v4' \subseteq {"created", "deleted"} \X Paid!Ids
    <3>1. v3[r].id \in Paid!Ids
      BY <1>1, <1>5 DEF PaidRequestsOK, Paid!Record, Paid!At
    <3> QED
      BY <1>1, <1>5, <3>1 DEF Paid!Record
  <2> QED
    BY <1>1, <2>1, <2>2, <2>3, <2>4, PaidIInvIs
<1> QED
  BY <1>2, <1>3, <1>4, <1>5

LEMMA PaidInductive ==
  ASSUME Paid!PaymentsAssumption, Paid!IInv, [Paid!Next]_Paid!vars
  PROVE  Paid!IInv'
<1>1. CASE UNCHANGED Paid!vars
  <2>1. UNCHANGED <<v1, v2, v3, v4, v5>>
    BY <1>1 DEF Paid!vars
  <2>2. /\ PaidRowsOK /\ PaidRequestsOK /\ PaidReaderOK /\ PaidSeenOK
        /\ PaidRecordsOK
    BY PaidIInvIs
  <2>3. PaidRowsOK' /\ PaidRequestsOK' /\ PaidReaderOK'
    BY <2>1, <2>2 DEF PaidRowsOK, PaidRequestsOK, PaidReaderOK
  <2>4. PaidSeenOK'
    BY <2>1, <2>2, PaidSeenStays
  <2> QED
    BY <2>1, <2>2, <2>3, <2>4, PaidIInvIs DEF PaidRecordsOK
<1>2. CASE \/ \E from, to \in PaymentDays \cup {0} : Paid!Open(from, to)
           \/ Paid!ReadItems \/ Paid!ReadCount \/ Paid!ReadSum \/ Paid!TurnPage \/ Paid!Close
  <2>1. UNCHANGED <<v1, v2, v3, v4>>
    BY <1>2 DEF Paid!Open, Paid!ReadItems, Paid!ReadCount, Paid!ReadSum, Paid!TurnPage, Paid!Close
  <2>2. PaidReaderOK' /\ PaidSeenOK'
    BY <1>2, PaidReaderSteps
  <2>3. /\ PaidRowsOK /\ PaidRequestsOK
        /\ PaidRecordsOK
    BY PaidIInvIs
  <2>4. PaidRowsOK' /\ PaidRequestsOK'
    BY <2>1, <2>3 DEF PaidRowsOK, PaidRequestsOK
  <2> QED
    BY <2>1, <2>2, <2>3, <2>4, PaidIInvIs DEF PaidRecordsOK
<1> QED
  BY <1>1, <1>2, PaidWriterSteps DEF Paid!Next

LEMMA PaidTotalPagesIs ==
  ASSUME Paid!PaymentsAssumption, NEW total \in Nat, NEW p \in Nat \ {0}
  PROVE  /\ p < Paid!TotalPages(total) => p * PaymentPage <= total
         /\ ~(p < Paid!TotalPages(total)) => total <= p * PaymentPage
<1> DEFINE up == (total + PaymentPage - 1) \div PaymentPage
<1>1. PaymentPage \in Nat \ {0}
  BY DEF Paid!PaymentsAssumption
<1>2. /\ up \in Nat /\ up * PaymentPage <= total + PaymentPage - 1
      /\ total + PaymentPage - 1 < up * PaymentPage + PaymentPage
  BY <1>1
<1>3. Paid!TotalPages(total) = IF total = 0 THEN 1 ELSE up
  BY DEF Paid!TotalPages
<1> HIDE DEF up
<1>4. ASSUME p < up
      PROVE  p * PaymentPage + PaymentPage <= up * PaymentPage
  BY <1>1, <1>2, <1>4
<1>5. ASSUME up <= p
      PROVE  up * PaymentPage <= p * PaymentPage
  BY <1>1, <1>2, <1>5
<1>6. p * PaymentPage \in Nat /\ up * PaymentPage \in Nat
  BY <1>1, <1>2
<1> QED
  BY <1>1, <1>2, <1>3, <1>4, <1>5, <1>6

LEMMA PaidMeans == Paid!PaymentsAssumption /\ Paid!IInv => Paid!TypeOK /\ Paid!PagesAddUp
<1> SUFFICES ASSUME Paid!PaymentsAssumption, Paid!IInv, v5.pc = "shown", v5.calm
             PROVE  Paid!PagesAddUp
  BY DEF Paid!IInv, Paid!PagesAddUp
<1> DEFINE ids == Paid!InPeriod(v5.from, v5.to)
           c == Cardinality(ids)
           many == v5.page * PaymentPage
<1>1. /\ Paid!TypeOK /\ ids \in SUBSET Paid!Ids /\ v5.page \in Nat \ {0}
      /\ ~v5.twice /\ v5.seen = {i \in ids : Paid!Rank(i, ids) < many}
      /\ v5.total = c /\ v5.hours = Paid!SumFunctionOnSet(Paid!Wholes, ids)
  BY PaidInPeriodIs, PaidCardinality DEF Paid!IInv, Paid!TypeOK
<1>2. IsFiniteSet(ids) /\ c \in Nat
  BY <1>1, PaidIdsFinite, FS_CardinalityType
<1>3. many \in Nat
  BY <1>1 DEF Paid!PaymentsAssumption
<1>4. \A i \in ids : Paid!Rank(i, ids) \in 0..(c - 1)
  BY <1>1, PaidRankIs
<1>5. ASSUME NEW i \in v5.seen, NEW j \in ids \ v5.seen
      PROVE  Paid!Above(i, j)
  <2>1. i \in ids /\ i \in Paid!Ids /\ j \in Paid!Ids /\ i # j
    BY <1>1, <1>5
  <2>2. Paid!Rank(i, ids) < many /\ ~(Paid!Rank(j, ids) < many)
    BY <1>1, <1>5
  <2>3. ~Paid!Above(j, i)
    <3>1. Paid!Above(j, i) => Paid!Rank(j, ids) < Paid!Rank(i, ids)
      BY <1>1, <1>5, <2>1, PaidRankOrders
    <3>2. Paid!Rank(i, ids) \in Int /\ Paid!Rank(j, ids) \in Int
      BY <1>4, <1>5, <2>1
    <3> HIDE DEF ids, many
    <3> QED
      BY <1>3, <2>2, <3>1, <3>2
  <2> QED
    BY <1>1, <2>1, <2>3, PaidAboveIs
<1>6. CASE v5.page < Paid!TotalPages(v5.total)
  <2>1. many <= c
    BY <1>1, <1>2, <1>6, PaidTotalPagesIs
  <2>2. Cardinality(v5.seen) = many
    BY <1>1, <1>3, <2>1, PaidHeadIs
  <2> QED
    BY <1>1, <1>5, <1>6, <2>2, PaidCardinality DEF Paid!PagesAddUp
<1>7. CASE ~(v5.page < Paid!TotalPages(v5.total))
  <2>1. c <= many
    BY <1>1, <1>2, <1>7, PaidTotalPagesIs
  <2>2. v5.seen = ids
    <3> HIDE DEF ids, many, c
    <3>1. \A i \in ids : Paid!Rank(i, ids) < many
      BY <1>2, <1>3, <1>4, <2>1
    <3> QED
      BY <1>1, <3>1
  <2> QED
    BY <1>1, <1>5, <1>7, <2>2 DEF Paid!PagesAddUp
<1> QED
  BY <1>6, <1>7

-----------------------------------------------------------------------------
(* The hours bank: HoursBank.tla, whose worked, paid, closing, allowance,  *)
(* now and summary are v1 to v6 here. First the sums, the clock and the    *)
(* loops that it is made of; then every slot worked is in one month and    *)
(* counted once, and every reference in one cycle.                         *)

(* Cardinality as HoursBank.tla takes it.                                  *)
LEMMA BankCardinality == \A S : Bank!Cardinality(S) = Cardinality(S)
BY DEF Cardinality, Bank!Cardinality

LEMMA BankFinite == \A S : Bank!IsFiniteSet(S) <=> IsFiniteSet(S)
BY DEF IsFiniteSet, Bank!IsFiniteSet

(* Induction over the elements of a finite set.                            *)
LEMMA BankFiniteByStep ==
  ASSUME NEW D, IsFiniteSet(D), NEW Q, {} \in Q,
         \A T \in SUBSET D : \A x \in D \ T : T \in Q => T \cup {x} \in Q
  PROVE  D \in Q
<1> DEFINE N == {n \in Nat : \A T \in SUBSET D : Cardinality(T) = n => T \in Q}
<1>1. 0 \in N
  BY FS_EmptySet, FS_Subset
<1>2. ASSUME NEW n \in Nat, n \in N
      PROVE  n + 1 \in N
  <2> SUFFICES ASSUME NEW T \in SUBSET D, Cardinality(T) = n + 1
               PROVE  T \in Q
    OBVIOUS
  <2>1. IsFiniteSet(T) /\ T # {}
    BY FS_EmptySet, FS_Subset
  <2>2. PICK x \in T : TRUE
    BY <2>1
  <2>3. Cardinality(T \ {x}) = n
    <3>1. Cardinality(T \ {x}) = Cardinality(T) - 1
      BY <2>1, <2>2, FS_RemoveElement
    <3> QED
      BY <3>1
  <2>4. T \ {x} \in Q /\ x \in D \ (T \ {x}) /\ (T \ {x}) \cup {x} = T
    BY <1>2, <2>2, <2>3
  <2> QED
    BY <2>4
<1>3. Nat \subseteq N
  <2> HIDE DEF N
  <2> QED
    BY <1>1, <1>2, NaturalsByStep
<1>4. Cardinality(D) \in Nat
  BY FS_CardinalityType
<1> QED
  BY <1>3, <1>4

(* g holds the sum of f over each subset of S.                             *)
BankSummed(g, f, S) ==
  g = [s \in SUBSET S |->
        IF s = {} THEN 0 ELSE f[CHOOSE x \in s : TRUE] + g[s \ {CHOOSE x \in s : TRUE}]]

(* g holds it over the subsets of at most n elements.                      *)
BankSummedUpTo(g, f, S, n) ==
  /\ g = [s \in SUBSET S |-> g[s]]
  /\ \A s \in SUBSET S : Cardinality(s) <= n =>
       g[s] = IF s = {} THEN 0
              ELSE f[CHOOSE x \in s : TRUE] + g[s \ {CHOOSE x \in s : TRUE}]

LEMMA BankSummedExists ==
  ASSUME NEW f, NEW S, IsFiniteSet(S)
  PROVE  \E g : BankSummed(g, f, S)
<1> DEFINE C(s) == CHOOSE x \in s : TRUE
           R(g, s) == IF s = {} THEN 0 ELSE f[C(s)] + g[s \ {C(s)}]
           G == {n \in Nat : \E g : BankSummedUpTo(g, f, S, n)}
<1>0. \A g, n : BankSummedUpTo(g, f, S, n) <=>
        /\ g = [s \in SUBSET S |-> g[s]]
        /\ \A s \in SUBSET S : Cardinality(s) <= n => g[s] = R(g, s)
  BY DEF BankSummedUpTo
<1>1. \A s \in SUBSET S : /\ IsFiniteSet(s) /\ Cardinality(s) \in Nat
                          /\ Cardinality(s) <= Cardinality(S)
  BY FS_Subset, FS_CardinalityType
<1>2. \A s \in SUBSET S : s # {} => C(s) \in s
  OBVIOUS
<1>3. \A s \in SUBSET S : s # {} =>
        s \ {C(s)} \in SUBSET S /\ Cardinality(s \ {C(s)}) = Cardinality(s) - 1
  BY <1>1, <1>2, FS_RemoveElement
<1> HIDE DEF C
<1>4. 0 \in G
  <2> DEFINE g == [s \in SUBSET S |-> 0]
  <2>1. \A s \in SUBSET S : Cardinality(s) <= 0 => g[s] = R(g, s)
    BY <1>1, FS_EmptySet
  <2>2. g = [s \in SUBSET S |-> g[s]]
    OBVIOUS
  <2>3. BankSummedUpTo(g, f, S, 0)
    BY <1>0, <2>1, <2>2
  <2> QED
    BY <2>3
<1>5. ASSUME NEW n \in Nat, n \in G
      PROVE  n + 1 \in G
  <2>1. PICK g : \A s \in SUBSET S : Cardinality(s) <= n => g[s] = R(g, s)
    BY <1>0, <1>5
  <2> DEFINE h == [s \in SUBSET S |-> R(g, s)]
  <2>2. \A s \in SUBSET S : Cardinality(s) <= n => h[s] = g[s]
    BY <2>1
  <2>3. ASSUME NEW s \in SUBSET S, Cardinality(s) <= n + 1
        PROVE  h[s] = R(h, s)
    <3>1. CASE s = {}
      BY <3>1
    <3>2. CASE s # {}
      <4>1. h[s] = f[C(s)] + g[s \ {C(s)}]
        BY <3>2
      <4>2. h[s \ {C(s)}] = g[s \ {C(s)}]
        <5>1. Cardinality(s \ {C(s)}) <= n
          BY <1>1, <1>3, <2>3, <3>2
        <5> HIDE DEF h
        <5> QED
          BY <1>3, <2>2, <3>2, <5>1
      <4> HIDE DEF h
      <4> QED
        BY <3>2, <4>1, <4>2
    <3> QED
      BY <3>1, <3>2
  <2>4. h = [s \in SUBSET S |-> h[s]]
    OBVIOUS
  <2>5. BankSummedUpTo(h, f, S, n + 1)
    BY <1>0, <2>3, <2>4
  <2> QED
    BY <2>5
<1>6. Nat \subseteq G
  <2> HIDE DEF G
  <2> QED
    BY <1>4, <1>5, NaturalsByStep
<1>7. PICK g : /\ g = [s \in SUBSET S |-> g[s]]
               /\ \A s \in SUBSET S : Cardinality(s) <= Cardinality(S) => g[s] = R(g, s)
  <2>1. Cardinality(S) \in G
    BY <1>6, FS_CardinalityType
  <2> QED
    BY <1>0, <2>1
<1>8. \A s \in SUBSET S : g[s] = R(g, s)
  BY <1>1, <1>7
<1>9. g = [s \in SUBSET S |-> R(g, s)]
  BY <1>7, <1>8
<1> QED
  BY <1>9 DEF BankSummed, C

LEMMA BankSummedAgree ==
  ASSUME NEW f, NEW S, IsFiniteSet(S), NEW T \in SUBSET S,
         NEW g, BankSummed(g, f, S), NEW h, BankSummed(h, f, T)
  PROVE  h[T] = g[T]
<1> DEFINE N == {n \in Nat : \A s \in SUBSET T : Cardinality(s) <= n => h[s] = g[s]}
<1>1. \A s \in SUBSET T : IsFiniteSet(s) /\ Cardinality(s) \in Nat
  BY FS_Subset, FS_CardinalityType
<1>2. 0 \in N
  BY <1>1, FS_EmptySet DEF BankSummed
<1>3. ASSUME NEW n \in Nat, n \in N, NEW s \in SUBSET T, Cardinality(s) <= n + 1
      PROVE  h[s] = g[s]
  <2> DEFINE c == CHOOSE x \in s : TRUE
  <2>1. CASE s = {}
    BY <2>1 DEF BankSummed
  <2>2. CASE s # {}
    <3>1. c \in s /\ s \ {c} \in SUBSET T
      BY <2>2
    <3>2. Cardinality(s \ {c}) = Cardinality(s) - 1
      BY <1>1, <3>1, FS_RemoveElement
    <3>3. h[s \ {c}] = g[s \ {c}]
      BY <1>1, <1>3, <3>1, <3>2
    <3>4. h[s] = f[c] + h[s \ {c}]
      BY <2>2 DEF BankSummed
    <3>5. s \in SUBSET S
      OBVIOUS
    <3>6. g[s] = f[c] + g[s \ {c}]
      BY <2>2, <3>5 DEF BankSummed
    <3> QED
      BY <3>3, <3>4, <3>6
  <2> QED
    BY <2>1, <2>2
<1>4. Nat \subseteq N
  <2>1. ASSUME NEW n \in Nat, n \in N
        PROVE  n + 1 \in N
    <3>1. \A s \in SUBSET T : Cardinality(s) <= n + 1 => h[s] = g[s]
      BY <1>3, <2>1
    <3> QED
      BY <3>1
  <2> HIDE DEF N
  <2> QED
    BY <1>2, <2>1, NaturalsByStep
<1> QED
  <2>1. IsFiniteSet(T) /\ Cardinality(T) \in Nat
    BY <1>1
  <2>2. Cardinality(T) \in N
    BY <1>4, <2>1
  <2> QED
    BY <2>1, <2>2

(* The sum of the community modules is that of any such g.                 *)
LEMMA BankSumIs ==
  ASSUME NEW f, NEW S, IsFiniteSet(S), NEW g, BankSummed(g, f, S), NEW T \in SUBSET S
  PROVE  Bank!SumFunctionOnSet(f, T) = g[T]
<1>1. IsFiniteSet(T)
  BY FS_Subset
<1>2. \E h : BankSummed(h, f, T)
  BY <1>1, BankSummedExists
<1> DEFINE h == CHOOSE h : BankSummed(h, f, T)
<1>3. BankSummed(h, f, T)
  BY <1>2
<1>4. Bank!SumFunctionOnSet(f, T) = h[T]
  BY DEF Bank!SumFunctionOnSet, Bank!FoldFunctionOnSet, Bank!MapThenFoldSet, BankSummed
<1> HIDE DEF h
<1> QED
  BY <1>3, <1>4, BankSummedAgree

LEMMA BankSumChoose ==
  ASSUME NEW f, NEW S, IsFiniteSet(S)
  PROVE  Bank!SumFunctionOnSet(f, S) =
           IF S = {} THEN 0
           ELSE f[CHOOSE x \in S : TRUE] + Bank!SumFunctionOnSet(f, S \ {CHOOSE x \in S : TRUE})
<1>1. PICK g : BankSummed(g, f, S)
  BY BankSummedExists
<1>2. \A T \in SUBSET S : Bank!SumFunctionOnSet(f, T) = g[T]
  BY <1>1, BankSumIs
<1>3. S \in SUBSET S /\ S \ {CHOOSE x \in S : TRUE} \in SUBSET S
  OBVIOUS
<1>4. g[S] = IF S = {} THEN 0
             ELSE f[CHOOSE x \in S : TRUE] + g[S \ {CHOOSE x \in S : TRUE}]
  BY <1>1, <1>3 DEF BankSummed
<1> QED
  BY <1>2, <1>3, <1>4

LEMMA BankSumEmpty ==
  ASSUME NEW f
  PROVE  Bank!SumFunctionOnSet(f, {}) = 0
BY BankSumChoose, FS_EmptySet

LEMMA BankSumWhole ==
  ASSUME NEW S, IsFiniteSet(S), NEW f, \A x \in S : f[x] \in Int
  PROVE  Bank!SumFunctionOnSet(f, S) \in Int
<1> DEFINE N == {n \in Nat : \A T \in SUBSET S : Cardinality(T) = n
             => Bank!SumFunctionOnSet(f, T) \in Int}
<1>1. 0 \in N
  BY FS_EmptySet, FS_Subset, BankSumEmpty
<1>2. ASSUME NEW n \in Nat, n \in N
      PROVE  n + 1 \in N
  <2> SUFFICES ASSUME NEW T \in SUBSET S, Cardinality(T) = n + 1
               PROVE  Bank!SumFunctionOnSet(f, T) \in Int
    OBVIOUS
  <2> DEFINE c == CHOOSE x \in T : TRUE
  <2>1. IsFiniteSet(T) /\ T # {}
    BY FS_EmptySet, FS_Subset
  <2>2. c \in T
    BY <2>1
  <2>3. Cardinality(T \ {c}) = Cardinality(T) - 1
    BY <2>1, <2>2, FS_RemoveElement
  <2>4. Bank!SumFunctionOnSet(f, T \ {c}) \in Int
    BY <1>2, <2>3
  <2>5. Bank!SumFunctionOnSet(f, T) = f[c] + Bank!SumFunctionOnSet(f, T \ {c})
    BY <2>1, BankSumChoose
  <2> QED
    BY <2>2, <2>4, <2>5
<1>3. Nat \subseteq N
  <2> HIDE DEF N
  <2> QED
    BY <1>1, <1>2, NaturalsByStep
<1> QED
  BY <1>3, FS_CardinalityType

(* The order of the summands does not matter.                              *)
LEMMA BankSumRemove ==
  ASSUME NEW S, IsFiniteSet(S), NEW f, \A x \in S : f[x] \in Int, NEW x \in S
  PROVE  Bank!SumFunctionOnSet(f, S) = f[x] + Bank!SumFunctionOnSet(f, S \ {x})
<1> DEFINE N == {n \in Nat : \A T \in SUBSET S : Cardinality(T) = n =>
                   \A y \in T :
                     Bank!SumFunctionOnSet(f, T) = f[y] + Bank!SumFunctionOnSet(f, T \ {y})}
<1>1. 0 \in N
  BY FS_EmptySet, FS_Subset
<1>2. ASSUME NEW n \in Nat, n \in N
      PROVE  n + 1 \in N
  <2> SUFFICES ASSUME NEW T \in SUBSET S, Cardinality(T) = n + 1, NEW y \in T
               PROVE  Bank!SumFunctionOnSet(f, T) = f[y] + Bank!SumFunctionOnSet(f, T \ {y})
    OBVIOUS
  <2> DEFINE c == CHOOSE z \in T : TRUE
  <2>1. IsFiniteSet(T) /\ T # {}
    BY FS_EmptySet, FS_Subset
  <2>2. c \in T
    BY <2>1
  <2>3. Bank!SumFunctionOnSet(f, T) = f[c] + Bank!SumFunctionOnSet(f, T \ {c})
    BY <2>1, BankSumChoose
  <2>4. CASE c = y
    BY <2>3, <2>4
  <2>5. CASE c # y
    <3> HIDE DEF c
    <3>1. /\ T \ {c} \in SUBSET S /\ T \ {y} \in SUBSET S
          /\ Cardinality(T \ {c}) = Cardinality(T) - 1
          /\ Cardinality(T \ {y}) = Cardinality(T) - 1
          /\ y \in T \ {c} /\ c \in T \ {y}
      BY <2>1, <2>2, <2>5, FS_RemoveElement
    <3>2. Cardinality(T) - 1 = n
      OBVIOUS
    <3>3. Bank!SumFunctionOnSet(f, T \ {c}) = f[y] + Bank!SumFunctionOnSet(f, (T \ {c}) \ {y})
      BY <1>2, <3>1, <3>2
    <3>4. Bank!SumFunctionOnSet(f, T \ {y}) = f[c] + Bank!SumFunctionOnSet(f, (T \ {y}) \ {c})
      BY <1>2, <3>1, <3>2
    <3>5. (T \ {y}) \ {c} = (T \ {c}) \ {y}
      OBVIOUS
    <3>6. Bank!SumFunctionOnSet(f, (T \ {c}) \ {y}) \in Int
      <4>1. IsFiniteSet((T \ {c}) \ {y})
        BY <2>1, FS_Subset
      <4> QED
        BY <4>1, BankSumWhole
    <3>7. f[y] \in Int /\ f[c] \in Int
      BY <2>2
    <3>8. Bank!SumFunctionOnSet(f, T \ {y}) = f[c] + Bank!SumFunctionOnSet(f, (T \ {c}) \ {y})
      BY <3>4, <3>5
    <3> HIDE DEF N
    <3> QED
      BY <2>3, <3>3, <3>6, <3>7, <3>8
  <2> QED
    BY <2>4, <2>5
<1>3. Nat \subseteq N
  <2> HIDE DEF N
  <2> QED
    BY <1>1, <1>2, NaturalsByStep
<1> QED
  BY <1>3, FS_CardinalityType

LEMMA BankSumAdd ==
  ASSUME NEW S, IsFiniteSet(S), NEW x, x \notin S, NEW f, \A y \in S \cup {x} : f[y] \in Int
  PROVE  Bank!SumFunctionOnSet(f, S \cup {x}) = f[x] + Bank!SumFunctionOnSet(f, S)
<1>1. IsFiniteSet(S \cup {x}) /\ (S \cup {x}) \ {x} = S /\ x \in S \cup {x}
  BY FS_AddElement
<1> HIDE DEF Bank!SumFunctionOnSet
<1> QED
  BY <1>1, BankSumRemove

(* Equal summands, equal sums.                                             *)
LEMMA BankSumSame ==
  ASSUME NEW S, IsFiniteSet(S), NEW f, NEW g, \A x \in S : f[x] \in Int /\ g[x] = f[x]
  PROVE  Bank!SumFunctionOnSet(g, S) = Bank!SumFunctionOnSet(f, S)
<1> DEFINE Q == {T \in SUBSET S : Bank!SumFunctionOnSet(g, T) = Bank!SumFunctionOnSet(f, T)}
<1>1. {} \in Q
  BY BankSumEmpty
<1>2. ASSUME NEW T \in SUBSET S, NEW x \in S \ T, T \in Q
      PROVE  T \cup {x} \in Q
  <2>1. IsFiniteSet(T) /\ x \notin T /\ \A y \in T \cup {x} : f[y] \in Int /\ g[y] = f[y]
    BY FS_Subset
  <2>2. Bank!SumFunctionOnSet(f, T \cup {x}) = f[x] + Bank!SumFunctionOnSet(f, T)
    BY <2>1, BankSumAdd
  <2>3. Bank!SumFunctionOnSet(g, T \cup {x}) = g[x] + Bank!SumFunctionOnSet(g, T)
    BY <2>1, BankSumAdd
  <2> QED
    BY <1>2, <2>2, <2>3
<1>3. S \in Q
  <2>1. \A T \in SUBSET S : \A x \in S \ T : T \in Q => T \cup {x} \in Q
    BY <1>2
  <2> HIDE DEF Q
  <2> QED
    BY <1>1, <2>1, BankFiniteByStep
<1> QED
  BY <1>3

(* A sum over fewer non-negative summands is not greater, and not less     *)
(* when those left out are nothing.                                        *)
LEMMA BankSumOfPart ==
  ASSUME NEW S, IsFiniteSet(S), NEW f, \A x \in S : f[x] \in Nat, NEW P \in SUBSET S
  PROVE  /\ Bank!SumFunctionOnSet(f, S) \in Nat /\ Bank!SumFunctionOnSet(f, P) \in Nat
         /\ Bank!SumFunctionOnSet(f, P) <= Bank!SumFunctionOnSet(f, S)
         /\ (\A x \in S \ P : f[x] = 0) => Bank!SumFunctionOnSet(f, P) = Bank!SumFunctionOnSet(f, S)
<1> DEFINE s(T) == Bank!SumFunctionOnSet(f, T)
           Q == {T \in SUBSET S : /\ s(T) \in Nat /\ s(T \cap P) \in Nat /\ s(T \cap P) <= s(T)
                                  /\ (\A x \in T \ P : f[x] = 0) => s(T \cap P) = s(T)}
<1>1. {} \in Q
  <2>1. {} \cap P = {} /\ s({}) = 0
    BY BankSumEmpty
  <2> QED
    BY <2>1
<1>2. ASSUME NEW T \in SUBSET S, NEW x \in S \ T, T \in Q
      PROVE  T \cup {x} \in Q
  <2>1. /\ IsFiniteSet(T) /\ IsFiniteSet(T \cap P) /\ x \notin T /\ f[x] \in Nat
        /\ (\A y \in T \cup {x} : f[y] \in Int) /\ (\A y \in (T \cap P) \cup {x} : f[y] \in Int)
    BY FS_Subset
  <2>2. s(T \cup {x}) = f[x] + s(T)
    BY <2>1, BankSumAdd
  <2>3. CASE x \in P
    <3>1. (T \cup {x}) \cap P = (T \cap P) \cup {x} /\ (T \cup {x}) \ P = T \ P
      BY <2>3
    <3>2. s((T \cap P) \cup {x}) = f[x] + s(T \cap P)
      BY <2>1, BankSumAdd
    <3>3. /\ s((T \cup {x}) \cap P) = f[x] + s(T \cap P) /\ T \cup {x} \in SUBSET S
          /\ s(T) \in Nat /\ s(T \cap P) \in Nat /\ s(T \cap P) <= s(T)
          /\ (\A z \in T \ P : f[z] = 0) => s(T \cap P) = s(T)
      BY <1>2, <3>1, <3>2
    <3>4. s(T \cup {x}) \in Nat /\ s((T \cup {x}) \cap P) \in Nat
          /\ s((T \cup {x}) \cap P) <= s(T \cup {x})
      <4> HIDE DEF s, Q
      <4> QED
        BY <2>1, <2>2, <3>3
    <3>5. (\A z \in (T \cup {x}) \ P : f[z] = 0) => s((T \cup {x}) \cap P) = s(T \cup {x})
      <4> HIDE DEF s, Q
      <4> QED
        BY <2>1, <2>2, <3>1, <3>3
    <3> QED
      BY <3>3, <3>4, <3>5
  <2>4. CASE x \notin P
    <3>1. (T \cup {x}) \cap P = T \cap P /\ (T \cup {x}) \ P = (T \ P) \cup {x}
      BY <2>4
    <3> HIDE DEF s
    <3> QED
      BY <1>2, <2>1, <2>2, <3>1
  <2> QED
    BY <2>3, <2>4
<1>3. S \in Q
  <2>1. \A T \in SUBSET S : \A x \in S \ T : T \in Q => T \cup {x} \in Q
    BY <1>2
  <2> HIDE DEF Q
  <2> QED
    BY <1>1, <2>1, BankFiniteByStep
<1>4. S \cap P = P
  OBVIOUS
<1> QED
  BY <1>3, <1>4

(* Summed key by key, by the value k gives to each element.                *)
LEMMA BankSumByKey ==
  ASSUME NEW W, IsFiniteSet(W), NEW f, \A x \in W : f[x] \in Int,
         NEW k, NEW M, IsFiniteSet(M), \A x \in W : k[x] \in M,
         NEW at, \A m \in M : at[m] = {x \in W : k[x] = m},
         NEW g, \A m \in M : g[m] = Bank!SumFunctionOnSet(f, at[m])
  PROVE  Bank!SumFunctionOnSet(g, M) = Bank!SumFunctionOnSet(f, W)
<1> DEFINE In(T) == {x \in W : k[x] \in T}
           s(T) == Bank!SumFunctionOnSet(f, T)
           t(T) == Bank!SumFunctionOnSet(g, T)
           At(m) == {x \in W : k[x] = m}
<1>1. \A T : T \subseteq W => IsFiniteSet(T) /\ s(T) \in Int
  <2> SUFFICES ASSUME NEW T, T \subseteq W
               PROVE  IsFiniteSet(T) /\ s(T) \in Int
    OBVIOUS
  <2>1. IsFiniteSet(T)
    BY FS_Subset
  <2> QED
    BY <2>1, BankSumWhole
<1>2. \A A, B : A \subseteq W /\ B \subseteq W /\ A \cap B = {} => s(A \cup B) = s(A) + s(B)
  <2> SUFFICES ASSUME NEW A, NEW B, A \subseteq W, B \subseteq W, A \cap B = {}
               PROVE  s(A \cup B) = s(A) + s(B)
    OBVIOUS
  <2> DEFINE U == {V \in SUBSET A : s(V \cup B) = s(V) + s(B)}
  <2>1. {} \in U
    <3>1. {} \cup B = B /\ s({}) = 0 /\ s(B) \in Int
      BY <1>1, BankSumEmpty
    <3> QED
      BY <3>1
  <2>2. ASSUME NEW V \in SUBSET A, NEW x \in A \ V, V \in U
        PROVE  V \cup {x} \in U
    <3>1. IsFiniteSet(V) /\ IsFiniteSet(V \cup B) /\ x \notin V /\ x \notin V \cup B
      BY <1>1
    <3>2. s(V \cup {x}) = f[x] + s(V)
      BY <3>1, BankSumAdd
    <3>3. s((V \cup B) \cup {x}) = f[x] + s(V \cup B)
      BY <3>1, BankSumAdd
    <3>4. (V \cup {x}) \cup B = (V \cup B) \cup {x}
      OBVIOUS
    <3>5. s(V) \in Int /\ s(B) \in Int /\ f[x] \in Int
      BY <1>1
    <3>6. s((V \cup {x}) \cup B) = s(V \cup {x}) + s(B)
      <4>1. s(V \cup B) = s(V) + s(B) /\ s((V \cup {x}) \cup B) = f[x] + s(V \cup B)
        BY <2>2, <3>3, <3>4
      <4> HIDE DEF s, U
      <4> QED
        BY <3>2, <3>5, <4>1
    <3> QED
      BY <3>6
  <2>3. A \in U
    <3>1. IsFiniteSet(A) /\ \A V \in SUBSET A : \A x \in A \ V : V \in U => V \cup {x} \in U
      BY <1>1, <2>2
    <3> HIDE DEF U
    <3> QED
      BY <2>1, <3>1, BankFiniteByStep
  <2> QED
    BY <2>3
<1>3. \A m \in M : g[m] = s(At(m)) /\ g[m] \in Int
  <2> SUFFICES ASSUME NEW m \in M
               PROVE  g[m] = s(At(m)) /\ g[m] \in Int
    OBVIOUS
  <2>1. at[m] = At(m) /\ At(m) \subseteq W
    OBVIOUS
  <2>2. g[m] = s(At(m))
    BY <2>1
  <2> HIDE DEF At
  <2> QED
    BY <1>1, <2>1, <2>2
<1> DEFINE R == {T \in SUBSET M : t(T) = s(In(T))}
<1>4. {} \in R
  <2>1. In({}) = {}
    OBVIOUS
  <2> QED
    BY <2>1, BankSumEmpty
<1>5. ASSUME NEW T \in SUBSET M, NEW m \in M \ T, T \in R
      PROVE  T \cup {m} \in R
  <2>1. IsFiniteSet(T) /\ m \notin T /\ \A n \in T \cup {m} : g[n] \in Int
    BY <1>3, FS_Subset
  <2>2. t(T \cup {m}) = g[m] + t(T)
    BY <2>1, BankSumAdd
  <2>3. In(T \cup {m}) = At(m) \cup In(T) /\ At(m) \cap In(T) = {}
        /\ At(m) \subseteq W /\ In(T) \subseteq W
    OBVIOUS
  <2> HIDE DEF s, t, In, At
  <2>4. s(In(T \cup {m})) = s(At(m)) + s(In(T))
    BY <1>2, <2>3
  <2> QED
    BY <1>3, <1>5, <2>2, <2>4
<1>6. M \in R
  <2>1. \A T \in SUBSET M : \A m \in M \ T : T \in R => T \cup {m} \in R
    BY <1>5
  <2> HIDE DEF R
  <2> QED
    BY <1>4, <2>1, BankFiniteByStep
<1>7. In(M) = W
  OBVIOUS
<1> QED
  BY <1>6, <1>7

(* To count is to sum ones.                                                *)
LEMMA BankSumOfOnes ==
  ASSUME NEW S, IsFiniteSet(S), NEW f, \A x \in S : f[x] = 1
  PROVE  Bank!SumFunctionOnSet(f, S) = Cardinality(S)
<1> DEFINE Q == {T \in SUBSET S : Bank!SumFunctionOnSet(f, T) = Cardinality(T)}
<1>1. {} \in Q
  BY BankSumEmpty, FS_EmptySet
<1>2. ASSUME NEW T \in SUBSET S, NEW x \in S \ T, T \in Q
      PROVE  T \cup {x} \in Q
  <2>1. IsFiniteSet(T) /\ x \notin T /\ (\A y \in T \cup {x} : f[y] \in Int) /\ f[x] = 1
    BY FS_Subset
  <2>2. Bank!SumFunctionOnSet(f, T \cup {x}) = f[x] + Bank!SumFunctionOnSet(f, T)
    BY <2>1, BankSumAdd
  <2>3. Cardinality(T \cup {x}) = Cardinality(T) + 1
    BY <2>1, FS_AddElement
  <2>4. Cardinality(T) \in Nat
    BY <2>1, FS_CardinalityType
  <2> QED
    BY <1>2, <2>1, <2>2, <2>3, <2>4
<1>3. S \in Q
  <2>1. \A T \in SUBSET S : \A x \in S \ T : T \in Q => T \cup {x} \in Q
    BY <1>2
  <2> HIDE DEF Q
  <2> QED
    BY <1>1, <2>1, BankFiniteByStep
<1> QED
  BY <1>3

LEMMA BankLeapDays ==
  ASSUME NEW y \in Int
  PROVE  Bank!LeapDaysBefore(y + 1) = Bank!LeapDaysBefore(y) + (IF Bank!IsLeap(y) THEN 1 ELSE 0)
<1>1. (y + 1) - 1 = y
  OBVIOUS
<1>2. y \div 4 = ((y - 1) \div 4) + (IF (y % 4) = 0 THEN 1 ELSE 0)
  OBVIOUS
<1>3. y \div 100 = ((y - 1) \div 100) + (IF (y % 100) = 0 THEN 1 ELSE 0)
  OBVIOUS
<1>4. y \div 400 = ((y - 1) \div 400) + (IF (y % 400) = 0 THEN 1 ELSE 0)
  OBVIOUS
<1>5. ((y % 400) = 0 => (y % 100) = 0) /\ ((y % 100) = 0 => (y % 4) = 0)
  OBVIOUS
<1>6. /\ y \div 4 \in Int /\ y \div 100 \in Int /\ y \div 400 \in Int
      /\ (y - 1) \div 4 \in Int /\ (y - 1) \div 100 \in Int /\ (y - 1) \div 400 \in Int
  OBVIOUS
<1>7. Bank!LeapDaysBefore(y + 1) = ((y \div 4) - (y \div 100)) + (y \div 400)
  BY <1>1 DEF Bank!LeapDaysBefore
<1>8. Bank!LeapDaysBefore(y) = (((y - 1) \div 4) - ((y - 1) \div 100)) + ((y - 1) \div 400)
  BY DEF Bank!LeapDaysBefore
<1> QED
  BY <1>2, <1>3, <1>4, <1>5, <1>6, <1>7, <1>8 DEF Bank!IsLeap

LEMMA BankLengthBounds ==
  ASSUME NEW index \in Int
  PROVE  Bank!LengthOf(index) \in 28..31
BY DEF Bank!LengthOf, Bank!DaysInMonth

LEMMA BankMonthParts ==
  ASSUME NEW index \in Int
  PROVE  /\ index \div 12 \in Int /\ index % 12 \in 0..11
         /\ index = 12 * (index \div 12) + (index % 12)
         /\ (index % 12) # 11 =>
              (index + 1) \div 12 = index \div 12 /\ (index + 1) % 12 = (index % 12) + 1
         /\ (index % 12) = 11 =>
              (index + 1) \div 12 = (index \div 12) + 1 /\ (index + 1) % 12 = 0
OBVIOUS

LEMMA BankDaysType ==
  ASSUME FirstYear \in Nat, NEW index \in Int
  PROVE  Bank!DaysBefore(index) \in Int
<1>1. Bank!MonthOf(index) \in 1..12
  BY BankMonthParts DEF Bank!MonthOf
<1>2. Bank!BeforeMonth[Bank!MonthOf(index)] \in Int
  BY <1>1 DEF Bank!BeforeMonth
<1>3. Bank!YearOf(index) \in Int /\ index \div 12 \in Int
  BY BankMonthParts DEF Bank!YearOf
<1>4. Bank!LeapDaysBefore(Bank!YearOf(index)) \in Int /\ Bank!LeapDaysBefore(FirstYear) \in Int
  BY <1>3 DEF Bank!LeapDaysBefore
<1> QED
  BY <1>2, <1>3, <1>4 DEF Bank!DaysBefore

(* A month begins where the one before ends.                               *)
LEMMA BankNextMonth ==
  ASSUME FirstYear \in Nat, NEW index \in Int
  PROVE  Bank!DaysBefore(index + 1) = Bank!DaysBefore(index) + Bank!LengthOf(index)
<1> DEFINE q == index \div 12
           r == index % 12
           y == FirstYear + q
           L == Bank!LeapDaysBefore(y)
           F == Bank!LeapDaysBefore(FirstYear)
<1>1. q \in Int /\ r \in 0..11 /\ y \in Int
  BY BankMonthParts
<1>2. L \in Int /\ F \in Int
  BY <1>1 DEF Bank!LeapDaysBefore
<1>3. Bank!DaysBefore(index) = 365 * q + L - F + Bank!BeforeMonth[r + 1]
                            + (IF Bank!IsLeap(y) /\ r + 1 > 2 THEN 1 ELSE 0)
  BY DEF Bank!DaysBefore, Bank!YearOf, Bank!MonthOf
<1>4. Bank!LengthOf(index) = Bank!DaysInMonth(y, r + 1)
  BY DEF Bank!LengthOf, Bank!YearOf, Bank!MonthOf
<1>5. CASE r = 11
  <2>1. Bank!YearOf(index + 1) = y + 1 /\ Bank!MonthOf(index + 1) = 1 /\ (index + 1) \div 12 = q + 1
    BY <1>1, <1>5, BankMonthParts DEF Bank!YearOf, Bank!MonthOf
  <2>2. Bank!DaysBefore(index + 1) = 365 * (q + 1) + Bank!LeapDaysBefore(y + 1) - F + 0 + 0
    BY <2>1 DEF Bank!DaysBefore, Bank!BeforeMonth
  <2>3. Bank!LeapDaysBefore(y + 1) = L + (IF Bank!IsLeap(y) THEN 1 ELSE 0)
    BY <1>1, BankLeapDays
  <2>4. Bank!BeforeMonth[12] = 334 /\ Bank!DaysInMonth(y, 12) = 31
    BY DEF Bank!BeforeMonth, Bank!DaysInMonth
  <2> HIDE DEF q, r, y, L, F
  <2> QED
    BY <1>1, <1>2, <1>3, <1>4, <1>5, <2>2, <2>3, <2>4
<1>6. CASE r # 11
  <2>1. Bank!YearOf(index + 1) = y /\ Bank!MonthOf(index + 1) = r + 2 /\ (index + 1) \div 12 = q
    BY <1>1, <1>6, BankMonthParts DEF Bank!YearOf, Bank!MonthOf
  <2>2. Bank!DaysBefore(index + 1) = 365 * q + L - F + Bank!BeforeMonth[r + 2]
                                  + (IF Bank!IsLeap(y) /\ r + 2 > 2 THEN 1 ELSE 0)
    BY <2>1 DEF Bank!DaysBefore
  <2> HIDE DEF q, y, L, F
  <2>3. Bank!BeforeMonth[r + 2] + (IF Bank!IsLeap(y) /\ r + 2 > 2 THEN 1 ELSE 0)
          = Bank!BeforeMonth[r + 1] + (IF Bank!IsLeap(y) /\ r + 1 > 2 THEN 1 ELSE 0)
            + Bank!DaysInMonth(y, r + 1)
    <3> HIDE DEF r
    <3>1. r \in {0, 1, 2, 3, 4, 5, 6, 7, 8, 9, 10}
      BY <1>1, <1>6
    <3>2. CASE r = 0
      BY <3>2 DEF Bank!BeforeMonth, Bank!DaysInMonth
    <3>3. CASE r = 1
      BY <3>3 DEF Bank!BeforeMonth, Bank!DaysInMonth
    <3>4. CASE r = 2
      BY <3>4 DEF Bank!BeforeMonth, Bank!DaysInMonth
    <3>5. CASE r \in {3, 5, 8, 10}
      BY <3>5 DEF Bank!BeforeMonth, Bank!DaysInMonth
    <3>6. CASE r \in {4, 6, 7, 9}
      BY <3>6 DEF Bank!BeforeMonth, Bank!DaysInMonth
    <3> QED
      BY <3>1, <3>2, <3>3, <3>4, <3>5, <3>6
  <2>4. Bank!BeforeMonth[r + 2] \in Int /\ Bank!BeforeMonth[r + 1] \in Int
    BY <1>1, <1>6 DEF Bank!BeforeMonth
  <2>5. Bank!DaysInMonth(y, r + 1) \in Int
    BY DEF Bank!DaysInMonth
  <2> HIDE DEF r
  <2> QED
    BY <1>2, <1>1, <1>3, <1>4, <2>2, <2>3, <2>4, <2>5
<1> QED
  BY <1>5, <1>6

LEMMA BankDaysFromStart ==
  ASSUME FirstYear \in Nat
  PROVE  Bank!DaysBefore(0) = 0
<1>1. Bank!MonthOf(0) = 1 /\ Bank!YearOf(0) = FirstYear /\ 0 \div 12 = 0
  BY DEF Bank!MonthOf, Bank!YearOf
<1>2. Bank!LeapDaysBefore(FirstYear) \in Int
  BY DEF Bank!LeapDaysBefore
<1> QED
  BY <1>1, <1>2 DEF Bank!DaysBefore, Bank!BeforeMonth

(* Months have 28 to 31 days, so many of them have that many times as many.*)
LEMMA BankDaysOfMonths ==
  ASSUME FirstYear \in Nat, NEW i \in Int, NEW n \in Nat
  PROVE  /\ Bank!DaysBefore(i) + 28 * n <= Bank!DaysBefore(i + n)
         /\ Bank!DaysBefore(i + n) <= Bank!DaysBefore(i) + 31 * n
<1> DEFINE N == {k \in Nat : /\ Bank!DaysBefore(i) + 28 * k <= Bank!DaysBefore(i + k)
                             /\ Bank!DaysBefore(i + k) <= Bank!DaysBefore(i) + 31 * k}
<1>1. 0 \in N
  BY BankDaysType
<1>2. ASSUME NEW k \in Nat, k \in N
      PROVE  k + 1 \in N
  <2>1. Bank!DaysBefore((i + k) + 1) = Bank!DaysBefore(i + k) + Bank!LengthOf(i + k)
    BY BankNextMonth
  <2>2. Bank!LengthOf(i + k) \in 28..31 /\ Bank!DaysBefore(i + k) \in Int
          /\ Bank!DaysBefore(i) \in Int
    BY BankLengthBounds, BankDaysType
  <2>3. (i + k) + 1 = i + (k + 1)
    OBVIOUS
  <2> QED
    BY <1>2, <2>1, <2>2, <2>3
<1>3. Nat \subseteq N
  <2> HIDE DEF N
  <2> QED
    BY <1>1, <1>2, NaturalsByStep
<1> QED
  BY <1>3

LEMMA BankMonthOfDay ==
  ASSUME FirstYear \in Nat, NEW day \in Nat
  PROVE  \E index \in (day \div 31) .. (day \div 28) :
           index \in Nat /\ Bank!DaysBefore(index) <= day /\ day < Bank!DaysBefore(index + 1)
<1> DEFINE N == {d \in Nat : \E i \in Nat : Bank!DaysBefore(i) <= d /\ d < Bank!DaysBefore(i + 1)}
<1>1. 0 \in N
  <2>1. Bank!DaysBefore(0) = 0 /\ Bank!DaysBefore(0 + 1) = Bank!DaysBefore(0) + Bank!LengthOf(0)
          /\ Bank!LengthOf(0) \in 28..31
    BY BankDaysFromStart, BankNextMonth, BankLengthBounds
  <2>2. Bank!DaysBefore(0) <= 0 /\ 0 < Bank!DaysBefore(0 + 1)
    BY <2>1
  <2> QED
    BY <2>2
<1>2. ASSUME NEW d \in Nat, d \in N
      PROVE  d + 1 \in N
  <2>1. PICK i \in Nat : Bank!DaysBefore(i) <= d /\ d < Bank!DaysBefore(i + 1)
    BY <1>2
  <2>2. Bank!DaysBefore(i) \in Int /\ Bank!DaysBefore(i + 1) \in Int
    BY BankDaysType
  <2>3. CASE d + 1 < Bank!DaysBefore(i + 1)
    <3>1. Bank!DaysBefore(i) <= d + 1
      BY <2>1, <2>2
    <3> QED
      BY <2>3, <3>1
  <2>4. CASE ~(d + 1 < Bank!DaysBefore(i + 1))
    <3>1. Bank!DaysBefore((i + 1) + 1) = Bank!DaysBefore(i + 1) + Bank!LengthOf(i + 1)
            /\ Bank!LengthOf(i + 1) \in 28..31
      BY BankNextMonth, BankLengthBounds
    <3>2. Bank!DaysBefore(i + 1) <= d + 1 /\ d + 1 < Bank!DaysBefore((i + 1) + 1)
      BY <2>1, <2>2, <2>4, <3>1
    <3>3. i + 1 \in Nat
      OBVIOUS
    <3> QED
      BY <3>2, <3>3
  <2> QED
    BY <2>3, <2>4
<1>3. Nat \subseteq N
  <2> HIDE DEF N
  <2> QED
    BY <1>1, <1>2, NaturalsByStep
<1>4. PICK i \in Nat : Bank!DaysBefore(i) <= day /\ day < Bank!DaysBefore(i + 1)
  BY <1>3
<1>5. 28 * i <= Bank!DaysBefore(i) /\ Bank!DaysBefore(i + 1) <= 31 * (i + 1)
  <2>1. Bank!DaysBefore(0) + 28 * i <= Bank!DaysBefore(0 + i)
    BY BankDaysOfMonths
  <2>2. Bank!DaysBefore(0 + (i + 1)) <= Bank!DaysBefore(0) + 31 * (i + 1)
    <3>1. i + 1 \in Nat /\ 0 \in Int
      OBVIOUS
    <3> HIDE DEF N
    <3> QED
      BY <3>1, BankDaysOfMonths
  <2>3. 0 + i = i /\ 0 + (i + 1) = i + 1 /\ Bank!DaysBefore(0) = 0
    BY BankDaysFromStart
  <2> QED
    BY <2>1, <2>2, <2>3
<1>6. Bank!DaysBefore(i) \in Int /\ Bank!DaysBefore(i + 1) \in Int
  BY BankDaysType
<1>7. 28 * i <= day /\ day < 31 * (i + 1)
  BY <1>4, <1>5, <1>6
<1>8. day \div 31 <= i /\ i <= day \div 28 /\ day \div 31 \in Int /\ day \div 28 \in Int
  BY <1>7
<1>9. i \in (day \div 31) .. (day \div 28)
  BY <1>8
<1> QED
  BY <1>4, <1>9

LEMMA BankDayOf ==
  ASSUME Bank!WallClockAssumption, NEW s \in Nat
  PROVE  /\ Bank!DayNumber(s) \in Nat /\ Bank!SlotOf(s) \in 0..(PerDay - 1)
         /\ s = PerDay * Bank!DayNumber(s) + Bank!SlotOf(s)
BY DEF Bank!DayNumber, Bank!SlotOf, Bank!WallClockAssumption

LEMMA BankDaysInOrder ==
  ASSUME Bank!WallClockAssumption, NEW d \in Int, NEW e \in Int
  PROVE  /\ PerDay * d \in Int
         /\ d <= e => PerDay * d <= PerDay * e
         /\ d < e => PerDay * d + PerDay <= PerDay * e
<1>1. PerDay \in Nat /\ PerDay > 0
  BY DEF Bank!WallClockAssumption
<1>2. \A a, b \in Int : a <= b => PerDay * a <= PerDay * b
  BY <1>1
<1>3. \A a \in Int : PerDay * a \in Int /\ PerDay * (a + 1) = PerDay * a + PerDay
  BY <1>1
<1>4. d < e => PerDay * (d + 1) <= PerDay * e
  <2>1. d < e => d + 1 \in Int /\ d + 1 <= e
    OBVIOUS
  <2> QED
    BY <1>2, <2>1
<1> QED
  BY <1>2, <1>3, <1>4

(* Slots of a day are those of no other.                                   *)
LEMMA BankDayIs ==
  ASSUME Bank!WallClockAssumption, NEW d \in Int, NEW s \in Nat
  PROVE  /\ d <= Bank!DayNumber(s) <=> PerDay * d <= s
         /\ Bank!DayNumber(s) < d <=> s < PerDay * d
<1> DEFINE n == Bank!DayNumber(s)
           p == PerDay * d
<1>1. PerDay \in Nat /\ PerDay > 0
  BY DEF Bank!WallClockAssumption
<1>2. n \in Nat /\ PerDay * n <= s /\ s < PerDay * n + PerDay
  <2>1. n \in Nat /\ Bank!SlotOf(s) \in 0..(PerDay - 1) /\ s = PerDay * n + Bank!SlotOf(s)
    BY BankDayOf
  <2>2. PerDay * n \in Int
    BY <2>1, BankDaysInOrder
  <2> HIDE DEF n
  <2> QED
    BY <1>1, <2>1, <2>2
<1> HIDE DEF n
<1>3. p \in Int /\ PerDay * n \in Int
  BY <1>2, BankDaysInOrder
<1>4. (d <= n => p <= PerDay * n) /\ (n < d => PerDay * n + PerDay <= p)
  BY <1>2, BankDaysInOrder
<1> HIDE DEF p
<1>5. (d <= n => p <= s) /\ (n < d => s < p)
  BY <1>1, <1>2, <1>3, <1>4
<1>6. d <= n \/ n < d
  BY <1>2
<1>7. (d <= n <=> p <= s) /\ (n < d <=> s < p)
  BY <1>2, <1>3, <1>5, <1>6
<1> QED
  BY <1>7 DEF n, p

LEMMA BankStartIs ==
  ASSUME Bank!WallClockAssumption, NEW i \in Int
  PROVE  Bank!StartOfMonth(i) = PerDay * Bank!DaysBefore(i) /\ Bank!StartOfMonth(i) \in Int
         /\ Bank!StartOfMonth(i + 1) >= Bank!StartOfMonth(i) + 28
<1>1. Bank!DaysBefore(i) \in Int /\ Bank!DaysBefore(i + 1) \in Int
        /\ Bank!DaysBefore(i) + 28 <= Bank!DaysBefore(i + 1)
  BY BankDaysType, BankNextMonth, BankLengthBounds DEF Bank!WallClockAssumption
<1>2. PerDay \in Nat /\ PerDay >= 1
  BY DEF Bank!WallClockAssumption
<1>3. Bank!StartOfMonth(i) = PerDay * Bank!DaysBefore(i)
        /\ Bank!StartOfMonth(i + 1) = PerDay * Bank!DaysBefore(i + 1)
  BY <1>1, <1>2 DEF Bank!StartOfMonth, Bank!Storage
<1>4. \A a, b \in Int : a + 28 <= b => PerDay * a + 28 <= PerDay * b
  <2> SUFFICES ASSUME NEW a \in Int, NEW b \in Int, a + 28 <= b
               PROVE  PerDay * a + 28 <= PerDay * b
    OBVIOUS
  <2>1. PerDay * (b - a) >= 28 /\ PerDay * (b - a) = PerDay * b - PerDay * a
    BY <1>2
  <2> QED
    BY <1>2, <2>1
<1> QED
  BY <1>1, <1>2, <1>3, <1>4

LEMMA BankStartsGrow ==
  ASSUME Bank!WallClockAssumption, NEW i \in Int, NEW j \in Int
  PROVE  /\ i < j => Bank!StartOfMonth(i + 1) <= Bank!StartOfMonth(j)
              /\ Bank!StartOfMonth(i) < Bank!StartOfMonth(j)
         /\ i <= j => Bank!StartOfMonth(i) <= Bank!StartOfMonth(j)
         /\ i \in Nat => Bank!StartOfMonth(i) \in Nat
<1>1. \A a \in Int : Bank!DaysBefore(a) \in Int
  BY BankDaysType DEF Bank!WallClockAssumption
<1>2. \A a, b \in Int : a <= b => Bank!DaysBefore(a) <= Bank!DaysBefore(b)
  <2> SUFFICES ASSUME NEW a \in Int, NEW b \in Int, a <= b
               PROVE  Bank!DaysBefore(a) <= Bank!DaysBefore(b)
    OBVIOUS
  <2>1. b - a \in Nat /\ a + (b - a) = b
    OBVIOUS
  <2>2. Bank!DaysBefore(a) + 28 * (b - a) <= Bank!DaysBefore(a + (b - a))
    BY <2>1, BankDaysOfMonths DEF Bank!WallClockAssumption
  <2> QED
    BY <1>1, <2>1, <2>2
<1>3. \A a, b \in Int : a <= b => Bank!StartOfMonth(a) <= Bank!StartOfMonth(b)
  BY <1>1, <1>2, BankStartIs, BankDaysInOrder
<1>4. Bank!StartOfMonth(i + 1) >= Bank!StartOfMonth(i) + 28 /\ Bank!StartOfMonth(i) \in Int
  BY BankStartIs
<1>5. i < j => Bank!StartOfMonth(i + 1) <= Bank!StartOfMonth(j)
  BY <1>3
<1>6. Bank!StartOfMonth(i + 1) \in Int /\ Bank!StartOfMonth(j) \in Int
  BY BankStartIs
<1>7. Bank!StartOfMonth(0) = 0
  <2>1. Bank!DaysBefore(0) = 0 /\ Bank!StartOfMonth(0) = PerDay * Bank!DaysBefore(0)
    BY BankDaysFromStart, BankStartIs DEF Bank!WallClockAssumption
  <2> QED
    BY <2>1 DEF Bank!WallClockAssumption
<1>8. i \in Nat => Bank!StartOfMonth(i) \in Nat
  BY <1>3, <1>4, <1>7
<1> QED
  BY <1>3, <1>4, <1>5, <1>6, <1>8

(* Every slot falls in one month.                                          *)
LEMMA BankMonthIndexIs ==
  ASSUME Bank!WallClockAssumption, NEW s \in Nat
  PROVE  /\ Bank!MonthIndexOf(s) \in Nat
         /\ Bank!StartOfMonth(Bank!MonthIndexOf(s)) <= s
              /\ s < Bank!StartOfMonth(Bank!MonthIndexOf(s) + 1)
<1>1. Bank!DayNumber(s) \in Nat
  BY BankDayOf
<1>2. \E index \in (Bank!DayNumber(s) \div 31) .. (Bank!DayNumber(s) \div 28) :
        index \in Nat /\ Bank!DaysBefore(index) <= Bank!DayNumber(s)
          /\ Bank!DayNumber(s) < Bank!DaysBefore(index + 1)
  BY <1>1, BankMonthOfDay DEF Bank!WallClockAssumption
<1>3. Bank!DayNumber(s) \div 31 \in Nat
  BY <1>1
<1> DEFINE i == Bank!MonthIndexOf(s)
<1>4. /\ i \in (Bank!DayNumber(s) \div 31) .. (Bank!DayNumber(s) \div 28)
      /\ Bank!DaysBefore(i) <= Bank!DayNumber(s) /\ Bank!DayNumber(s) < Bank!DaysBefore(i + 1)
  BY <1>2 DEF Bank!MonthIndexOf
<1> HIDE DEF i
<1>5. i \in Nat
  BY <1>3, <1>4
<1>6. Bank!DaysBefore(i) \in Int /\ Bank!DaysBefore(i + 1) \in Int
  BY <1>5, BankDaysType DEF Bank!WallClockAssumption
<1>7. Bank!StartOfMonth(i) = PerDay * Bank!DaysBefore(i)
        /\ Bank!StartOfMonth(i + 1) = PerDay * Bank!DaysBefore(i + 1)
  BY <1>5, BankStartIs
<1>8. PerDay * Bank!DaysBefore(i) <= s /\ s < PerDay * Bank!DaysBefore(i + 1)
  BY <1>4, <1>6, BankDayIs
<1>9. i \in Nat /\ Bank!StartOfMonth(i) <= s /\ s < Bank!StartOfMonth(i + 1)
  BY <1>5, <1>7, <1>8
<1> QED
  BY <1>9 DEF i

LEMMA BankMonthUnique ==
  ASSUME Bank!WallClockAssumption, NEW s \in Nat, NEW j \in Int,
         Bank!StartOfMonth(j) <= s, s < Bank!StartOfMonth(j + 1)
  PROVE  Bank!MonthIndexOf(s) = j
<1> DEFINE i == Bank!MonthIndexOf(s)
<1>1. i \in Nat /\ Bank!StartOfMonth(i) <= s /\ s < Bank!StartOfMonth(i + 1)
  BY BankMonthIndexIs
<1> HIDE DEF i
<1>2. /\ Bank!StartOfMonth(i) \in Int /\ Bank!StartOfMonth(i + 1) \in Int
      /\ Bank!StartOfMonth(j) \in Int /\ Bank!StartOfMonth(j + 1) \in Int
  BY <1>1, BankStartIs
<1>3. ~(i < j) /\ ~(j < i)
  BY <1>1, <1>2, BankStartsGrow
<1>4. i = j
  BY <1>1, <1>3
<1> QED
  BY <1>4 DEF i

(* Later slots are in no earlier month.                                    *)
LEMMA BankMonthsInOrder ==
  ASSUME Bank!WallClockAssumption, NEW s \in Nat, NEW t \in Nat
  PROVE  /\ s <= t => Bank!MonthIndexOf(s) <= Bank!MonthIndexOf(t)
         /\ Bank!MonthIndexOf(s) < Bank!MonthIndexOf(t) => s < t
<1> DEFINE i == Bank!MonthIndexOf(s)
           j == Bank!MonthIndexOf(t)
<1>1. /\ i \in Nat /\ Bank!StartOfMonth(i) <= s /\ s < Bank!StartOfMonth(i + 1)
      /\ j \in Nat /\ Bank!StartOfMonth(j) <= t /\ t < Bank!StartOfMonth(j + 1)
  BY BankMonthIndexIs
<1> HIDE DEF i, j
<1>2. /\ Bank!StartOfMonth(i) \in Int /\ Bank!StartOfMonth(i + 1) \in Int
      /\ Bank!StartOfMonth(j) \in Int /\ Bank!StartOfMonth(j + 1) \in Int
  BY <1>1, BankStartIs
<1>3. (j < i => t < s) /\ (i < j => s < t)
  <2>1. j < i => Bank!StartOfMonth(j + 1) <= Bank!StartOfMonth(i)
    BY <1>1, BankStartsGrow
  <2>2. i < j => Bank!StartOfMonth(i + 1) <= Bank!StartOfMonth(j)
    BY <1>1, BankStartsGrow
  <2> QED
    BY <1>1, <1>2, <2>1, <2>2
<1>4. (s <= t => i <= j) /\ (i < j => s < t)
  BY <1>1, <1>3
<1> QED
  BY <1>4 DEF i, j

(* The day and the slot a timestamp is stored with are those it has.       *)
LEMMA BankStoredIs ==
  ASSUME Bank!WallClockAssumption, NEW i \in Nat, NEW day \in 1..Bank!LengthOf(i),
         NEW slot \in 0..(PerDay - 1)
  PROVE  /\ Bank!Storage(i, day, slot) \in Nat
         /\ Bank!StartOfMonth(i) <= Bank!Storage(i, day, slot)
         /\ Bank!Storage(i, day, slot) < Bank!StartOfMonth(i + 1)
         /\ Bank!MonthIndexOf(Bank!Storage(i, day, slot)) = i
         /\ Bank!DayOfMonth(Bank!Storage(i, day, slot)) = day
         /\ Bank!SlotOf(Bank!Storage(i, day, slot)) = slot
<1> DEFINE s == Bank!Storage(i, day, slot)
           d == Bank!DaysBefore(i) + day - 1
<1>1. PerDay \in Nat /\ PerDay > 0 /\ FirstYear \in Nat
  BY DEF Bank!WallClockAssumption
<1>2. Bank!DaysBefore(i) \in Int /\ Bank!LengthOf(i) \in 28..31
        /\ Bank!DaysBefore(i + 1) = Bank!DaysBefore(i) + Bank!LengthOf(i)
  BY <1>1, BankDaysType, BankLengthBounds, BankNextMonth
<1>3. d \in Int /\ Bank!DaysBefore(i) <= d /\ d < Bank!DaysBefore(i + 1) /\ day \in Int
  BY <1>2
<1>4. s = PerDay * d + slot
  BY DEF Bank!Storage
<1>5. Bank!StartOfMonth(i) = PerDay * Bank!DaysBefore(i)
        /\ Bank!StartOfMonth(i + 1) = PerDay * Bank!DaysBefore(i + 1)
      /\ Bank!StartOfMonth(i) \in Nat /\ Bank!StartOfMonth(i + 1) \in Int
  <2>1. i + 1 \in Int
    OBVIOUS
  <2> QED
    BY <2>1, BankStartIs, BankStartsGrow
<1> HIDE DEF d
<1>6. /\ PerDay * d \in Int /\ PerDay * Bank!DaysBefore(i) <= PerDay * d
      /\ PerDay * d + PerDay <= PerDay * Bank!DaysBefore(i + 1)
  <2>1. Bank!DaysBefore(i + 1) \in Int
    BY <1>2
  <2> QED
    BY <1>2, <1>3, <2>1, BankDaysInOrder
<1> HIDE DEF s
<1>7. s \in Nat /\ Bank!StartOfMonth(i) <= s /\ s < Bank!StartOfMonth(i + 1)
  BY <1>1, <1>4, <1>5, <1>6
<1>8. Bank!MonthIndexOf(s) = i
  BY <1>7, BankMonthUnique
<1>9. Bank!DayNumber(s) = d
  <2>1. d <= Bank!DayNumber(s)
    <3>1. PerDay * d <= s
      BY <1>1, <1>4, <1>6
    <3> QED
      BY <1>3, <1>7, <3>1, BankDayIs
  <2>2. Bank!DayNumber(s) < d + 1
    <3>1. PerDay * (d + 1) = PerDay * d + PerDay
      BY <1>1, <1>3
    <3>2. s < PerDay * (d + 1) /\ d + 1 \in Int
      BY <1>1, <1>3, <1>4, <1>6, <3>1
    <3> QED
      BY <1>7, <3>2, BankDayIs
  <2>3. Bank!DayNumber(s) \in Nat
    BY <1>7, BankDayOf
  <2> QED
    BY <1>3, <2>1, <2>2, <2>3
<1>10. Bank!DayOfMonth(s) = day
  <2>1. d - Bank!DaysBefore(i) + 1 = day
    BY <1>2, <1>3 DEF d
  <2> QED
    BY <1>8, <1>9, <2>1 DEF Bank!DayOfMonth
<1>11. Bank!SlotOf(s) = slot
  <2>1. s = PerDay * Bank!DayNumber(s) + Bank!SlotOf(s) /\ Bank!SlotOf(s) \in Int
    BY <1>7, BankDayOf
  <2> QED
    BY <1>4, <1>6, <1>9, <2>1
<1> QED
  BY <1>7, <1>8, <1>10, <1>11 DEF s

LEMMA BankPartsIn ==
  ASSUME Bank!WallClockAssumption, NEW s \in Nat
  PROVE  Bank!DayOfMonth(s) \in 1..Bank!LengthOf(Bank!MonthIndexOf(s))
           /\ Bank!SlotOf(s) \in 0..(PerDay - 1)
<1> DEFINE i == Bank!MonthIndexOf(s)
<1>1. i \in Nat /\ Bank!StartOfMonth(i) <= s /\ s < Bank!StartOfMonth(i + 1)
  BY BankMonthIndexIs
<1>2. Bank!DayOfMonth(s) = Bank!DayNumber(s) - Bank!DaysBefore(i) + 1
  BY DEF Bank!DayOfMonth
<1> HIDE DEF i
<1>3. /\ Bank!DaysBefore(i) \in Int /\ Bank!LengthOf(i) \in 28..31
           /\ Bank!DaysBefore(i + 1) = Bank!DaysBefore(i) + Bank!LengthOf(i)
      /\ Bank!StartOfMonth(i) = PerDay * Bank!DaysBefore(i)
  BY <1>1, BankDaysType, BankLengthBounds, BankNextMonth, BankStartIs DEF Bank!WallClockAssumption
<1>4. Bank!StartOfMonth(i + 1) = PerDay * Bank!DaysBefore(i + 1) /\ Bank!DaysBefore(i + 1) \in Int
  <2>1. i + 1 \in Int
    BY <1>1
  <2> QED
    BY <1>3, <2>1, BankStartIs
<1>5. Bank!DaysBefore(i) <= Bank!DayNumber(s) /\ Bank!DayNumber(s) < Bank!DaysBefore(i + 1)
  BY <1>1, <1>3, <1>4, BankDayIs
<1>6. Bank!DayNumber(s) \in Nat /\ Bank!SlotOf(s) \in 0..(PerDay - 1)
  BY BankDayOf
<1>7. Bank!DayOfMonth(s) \in 1..Bank!LengthOf(i)
  BY <1>2, <1>3, <1>5, <1>6
<1> QED
  BY <1>6, <1>7 DEF i

(* Months are added to the month; the day is kept where it exists.         *)
LEMMA BankAddMonthsIs ==
  ASSUME Bank!WallClockAssumption, NEW s \in Nat, NEW k \in Int, Bank!MonthIndexOf(s) + k >= 0
  PROVE  /\ Bank!AddMonths(s, k) \in Nat
              /\ Bank!MonthIndexOf(Bank!AddMonths(s, k)) = Bank!MonthIndexOf(s) + k
         /\ k > 0 => s < Bank!AddMonths(s, k)
         /\ k < 0 => Bank!AddMonths(s, k) < s
<1> DEFINE i == Bank!MonthIndexOf(s)
           day == Bank!LesserOf(Bank!DayOfMonth(s), Bank!LengthOf(i + k))
           a == Bank!Storage(i + k, day, Bank!SlotOf(s))
<1>1. i \in Nat /\ i + k \in Nat
  BY BankMonthIndexIs
<1>2. Bank!AddMonths(s, k) = a
  BY DEF Bank!AddMonths
<1>3. day \in 1..Bank!LengthOf(i + k) /\ Bank!SlotOf(s) \in 0..(PerDay - 1)
  <2>1. Bank!DayOfMonth(s) \in 1..Bank!LengthOf(i) /\ Bank!SlotOf(s) \in 0..(PerDay - 1)
    BY BankPartsIn
  <2>2. Bank!LengthOf(i) \in 28..31 /\ Bank!LengthOf(i + k) \in 28..31
    BY <1>1, BankLengthBounds
  <2> HIDE DEF i
  <2> QED
    BY <2>1, <2>2 DEF Bank!LesserOf
<1> HIDE DEF day
<1>4. a \in Nat /\ Bank!MonthIndexOf(a) = i + k
  <2> HIDE DEF i
  <2> QED
    BY <1>1, <1>3, BankStoredIs
<1> HIDE DEF a
<1>5. (i < i + k => s < a) /\ (i + k < i => a < s)
  BY <1>4, BankMonthsInOrder
<1> QED
  BY <1>1, <1>2, <1>4, <1>5

LEMMA BankAddMonthsExact ==
  ASSUME Bank!WallClockAssumption, NEW i \in Nat, NEW day \in 1..28, NEW k \in Int, i + k >= 0
  PROVE  Bank!AddMonths(Bank!Storage(i, day, 0), k) = Bank!Storage(i + k, day, 0)
<1>1. Bank!LengthOf(i) \in 28..31 /\ Bank!LengthOf(i + k) \in 28..31
  BY BankLengthBounds
<1>2. day \in 1..Bank!LengthOf(i) /\ 0 \in 0..(PerDay - 1)
  BY <1>1 DEF Bank!WallClockAssumption
<1> DEFINE s == Bank!Storage(i, day, 0)
<1>3. Bank!MonthIndexOf(s) = i /\ Bank!DayOfMonth(s) = day /\ Bank!SlotOf(s) = 0
  BY <1>2, BankStoredIs
<1> HIDE DEF s
<1>4. Bank!LesserOf(day, Bank!LengthOf(i + k)) = day
  BY <1>1 DEF Bank!LesserOf
<1>5. Bank!AddMonths(s, k) = Bank!Storage(i + k, day, 0)
  BY <1>3, <1>4 DEF Bank!AddMonths
<1> QED
  BY <1>5 DEF s

LEMMA BankHorizonIs ==
  ASSUME Bank!WallClockAssumption
  PROVE  Bank!Horizon \in Nat /\ Bank!Horizon = Bank!StartOfMonth(12 * (LastYear - FirstYear + 1))
         /\ 12 * (LastYear - FirstYear + 1) \in Nat
<1> DEFINE n == 12 * (LastYear - FirstYear + 1)
<1>1. n \in Nat
  BY DEF Bank!WallClockAssumption
<1>2. Bank!Horizon = PerDay * Bank!DaysBefore(n)
  BY DEF Bank!Horizon
<1> HIDE DEF n
<1>3. Bank!StartOfMonth(n) = PerDay * Bank!DaysBefore(n) /\ Bank!StartOfMonth(n) \in Nat
  BY <1>1, BankStartIs, BankStartsGrow
<1> QED
  BY <1>1, <1>2, <1>3 DEF n

(* The loop that cuts a period.                                            *)
BankEndOfCut(cursor, to) == Bank!LesserOf(to, Bank!StartOfNextMonth(cursor))
BankCuts(f, to) ==
  f = [cursor \in 0..Bank!Horizon |->
        IF cursor >= to THEN {}
        ELSE {[month |-> Bank!MonthIndexOf(cursor), slots |-> BankEndOfCut(cursor, to) - cursor]}
               \cup f[BankEndOfCut(cursor, to)]]
BankCutsFrom(f, to, first) ==
  /\ f = [cursor \in 0..Bank!Horizon |-> f[cursor]]
  /\ \A cursor \in 0..Bank!Horizon : cursor >= first =>
       f[cursor] = IF cursor >= to THEN {}
                   ELSE {[month |-> Bank!MonthIndexOf(cursor), slots |->
                     BankEndOfCut(cursor, to) - cursor]}
                          \cup f[BankEndOfCut(cursor, to)]

LEMMA BankCutAdvances ==
  ASSUME Bank!WallClockAssumption, NEW to \in 0..Bank!Horizon, NEW cursor \in 0..Bank!Horizon,
         cursor < to
  PROVE  /\ BankEndOfCut(cursor, to) \in 0..Bank!Horizon
         /\ cursor < BankEndOfCut(cursor, to) /\ BankEndOfCut(cursor, to) <= to
         /\ BankEndOfCut(cursor, to) <= Bank!StartOfMonth(Bank!MonthIndexOf(cursor) + 1)
         /\ BankEndOfCut(cursor, to) \in {to, Bank!StartOfMonth(Bank!MonthIndexOf(cursor) + 1)}
<1>1. Bank!Horizon \in Nat
  BY BankHorizonIs
<1>2. cursor \in Nat /\ to \in Nat
  BY <1>1
<1>3. cursor < Bank!StartOfMonth(Bank!MonthIndexOf(cursor) + 1)
        /\ Bank!MonthIndexOf(cursor) + 1 \in Int
  BY <1>2, BankMonthIndexIs
<1>4. Bank!StartOfMonth(Bank!MonthIndexOf(cursor) + 1) \in Int
  BY <1>3, BankStartIs
<1> QED
  BY <1>1, <1>2, <1>3, <1>4 DEF BankEndOfCut, Bank!LesserOf, Bank!StartOfNextMonth

LEMMA BankCutsExist ==
  ASSUME Bank!WallClockAssumption, NEW to \in 0..Bank!Horizon
  PROVE  \E f : BankCuts(f, to)
<1> DEFINE R(f, c) == IF c >= to THEN {}
                      ELSE {[month |-> Bank!MonthIndexOf(c), slots |-> BankEndOfCut(c, to) - c]}
                             \cup f[BankEndOfCut(c, to)]
           N == {n \in Nat : \E f : BankCutsFrom(f, to, Bank!Horizon - n)}
<1>1. Bank!Horizon \in Nat
  BY BankHorizonIs
<1>2. \A c \in 0..Bank!Horizon : c < to
        => BankEndOfCut(c, to) \in 0..Bank!Horizon /\ c < BankEndOfCut(c, to)
  BY BankCutAdvances
<1>3. \A f, n : BankCutsFrom(f, to, n) <=>
        /\ f = [c \in 0..Bank!Horizon |-> f[c]]
        /\ \A c \in 0..Bank!Horizon : c >= n => f[c] = R(f, c)
  BY DEF BankCutsFrom
<1>4. 0 \in N
  <2> DEFINE f == [c \in 0..Bank!Horizon |-> {}]
  <2>1. \A c \in 0..Bank!Horizon : c >= Bank!Horizon - 0 => f[c] = R(f, c)
    BY <1>1
  <2>2. f = [c \in 0..Bank!Horizon |-> f[c]]
    OBVIOUS
  <2>3. BankCutsFrom(f, to, Bank!Horizon - 0)
    BY <1>3, <2>1, <2>2
  <2> QED
    BY <2>3
<1>5. ASSUME NEW n \in Nat, n \in N
      PROVE  n + 1 \in N
  <2>1. PICK f : \A c \in 0..Bank!Horizon : c >= Bank!Horizon - n => f[c] = R(f, c)
    BY <1>3, <1>5
  <2> DEFINE h == [c \in 0..Bank!Horizon |-> R(f, c)]
  <2>2. \A c \in 0..Bank!Horizon : c >= Bank!Horizon - n => h[c] = f[c]
    BY <2>1
  <2>3. ASSUME NEW c \in 0..Bank!Horizon, c >= Bank!Horizon - (n + 1)
        PROVE  h[c] = R(h, c)
    <3>1. CASE c >= to
      BY <3>1
    <3>2. CASE ~(c >= to)
      <4>1. h[c] = {[month |-> Bank!MonthIndexOf(c), slots |-> BankEndOfCut(c, to) - c]}
              \cup f[BankEndOfCut(c, to)]
        BY <3>2
      <4>2. BankEndOfCut(c, to) \in 0..Bank!Horizon /\ BankEndOfCut(c, to) >= Bank!Horizon - n
        BY <1>1, <1>2, <2>3, <3>2
      <4>3. h[BankEndOfCut(c, to)] = f[BankEndOfCut(c, to)]
        BY <2>2, <4>2
      <4> HIDE DEF h
      <4> QED
        BY <3>2, <4>1, <4>3
    <3> QED
      BY <3>1, <3>2
  <2>4. h = [c \in 0..Bank!Horizon |-> h[c]]
    OBVIOUS
  <2>5. BankCutsFrom(h, to, Bank!Horizon - (n + 1))
    BY <1>3, <2>3, <2>4
  <2> QED
    BY <2>5
<1>6. Bank!Horizon \in N
  <2>1. Nat \subseteq N
    <3> HIDE DEF N
    <3> QED
      BY <1>4, <1>5, NaturalsByStep
  <2> QED
    BY <1>1, <2>1
<1>7. PICK f : /\ f = [c \in 0..Bank!Horizon |-> f[c]]
               /\ \A c \in 0..Bank!Horizon : c >= Bank!Horizon - Bank!Horizon => f[c] = R(f, c)
  BY <1>3, <1>6
<1>8. \A c \in 0..Bank!Horizon : f[c] = R(f, c)
  BY <1>1, <1>7
<1>9. f = [c \in 0..Bank!Horizon |-> R(f, c)]
  BY <1>7, <1>8
<1> QED
  BY <1>9 DEF BankCuts

(* What a cut takes of each month is what the period has of it there.      *)
LEMMA BankClippedByCut ==
  ASSUME Bank!WallClockAssumption, NEW to \in 0..Bank!Horizon, NEW cursor \in 0..Bank!Horizon,
         cursor < to,
         NEW m \in Int
  PROVE  /\ m = Bank!MonthIndexOf(cursor) =>
              /\ Bank!Clipped(cursor, to, Bank!MonthBounds(m)) = BankEndOfCut(cursor, to) - cursor
              /\ Bank!Clipped(BankEndOfCut(cursor, to), to, Bank!MonthBounds(m)) = 0
         /\ m # Bank!MonthIndexOf(cursor) =>
              Bank!Clipped(cursor, to, Bank!MonthBounds(m))
                = Bank!Clipped(BankEndOfCut(cursor, to), to, Bank!MonthBounds(m))
<1> DEFINE i == Bank!MonthIndexOf(cursor)
           end == BankEndOfCut(cursor, to)
<1>1. Bank!Horizon \in Nat /\ cursor \in Nat /\ to \in Nat
  BY BankHorizonIs
<1>2. i \in Nat /\ Bank!StartOfMonth(i) <= cursor /\ cursor < Bank!StartOfMonth(i + 1)
  BY <1>1, BankMonthIndexIs
<1>3. end \in Nat /\ cursor < end /\ end <= to /\ end <= Bank!StartOfMonth(i + 1)
      /\ (end = to \/ end = Bank!StartOfMonth(i + 1))
  BY <1>1, BankCutAdvances
<1> HIDE DEF i, end
<1>4. /\ Bank!StartOfMonth(i) \in Int /\ Bank!StartOfMonth(i + 1) \in Int
      /\ Bank!StartOfMonth(m) \in Int /\ Bank!StartOfMonth(m + 1) \in Int
      /\ Bank!StartOfMonth(m) < Bank!StartOfMonth(m + 1)
      /\ (m < i => Bank!StartOfMonth(m + 1) <= Bank!StartOfMonth(i))
      /\ (i < m => Bank!StartOfMonth(i + 1) <= Bank!StartOfMonth(m))
  <2>1. i \in Int /\ i + 1 \in Int /\ m + 1 \in Int /\ m < m + 1
    BY <1>2
  <2>2. \A j \in Int : Bank!StartOfMonth(j) \in Int
    BY BankStartIs
  <2>3. \A j, k \in Int : j < k =>
          Bank!StartOfMonth(j + 1) <= Bank!StartOfMonth(k)
            /\ Bank!StartOfMonth(j) < Bank!StartOfMonth(k)
    BY BankStartsGrow
  <2> QED
    BY <2>1, <2>2, <2>3
<1>5. Bank!MonthBounds(m).from = Bank!StartOfMonth(m)
        /\ Bank!MonthBounds(m).to = Bank!StartOfMonth(m + 1)
  BY DEF Bank!MonthBounds
<1>6. m = i => /\ Bank!Clipped(cursor, to, Bank!MonthBounds(m)) = end - cursor
               /\ Bank!Clipped(end, to, Bank!MonthBounds(m)) = 0
  BY <1>1, <1>2, <1>3, <1>4, <1>5 DEF Bank!Clipped, Bank!GreaterOf, Bank!LesserOf
<1>7. m < i => Bank!Clipped(cursor, to, Bank!MonthBounds(m))
        = Bank!Clipped(end, to, Bank!MonthBounds(m))
  BY <1>1, <1>2, <1>3, <1>4, <1>5 DEF Bank!Clipped, Bank!GreaterOf, Bank!LesserOf
<1>8. i < m => Bank!Clipped(cursor, to, Bank!MonthBounds(m))
        = Bank!Clipped(end, to, Bank!MonthBounds(m))
  BY <1>1, <1>2, <1>3, <1>4, <1>5 DEF Bank!Clipped, Bank!GreaterOf, Bank!LesserOf
<1>9. m = i \/ m < i \/ i < m
  BY <1>2
<1>10. /\ m = i => /\ Bank!Clipped(cursor, to, Bank!MonthBounds(m)) = end - cursor
                   /\ Bank!Clipped(end, to, Bank!MonthBounds(m)) = 0
       /\ m # i => Bank!Clipped(cursor, to, Bank!MonthBounds(m))
            = Bank!Clipped(end, to, Bank!MonthBounds(m))
  BY <1>6, <1>7, <1>8, <1>9
<1> QED
  BY <1>10 DEF i, end

(* A period cut at the starts of months has one segment of each month it   *)
(* meets, as long as what it has of it.                                    *)
BankPartOf(from, to, m) ==
  IF Bank!Clipped(from, to, Bank!MonthBounds(m)) = 0 THEN {}
  ELSE {[month |-> m, slots |-> Bank!Clipped(from, to, Bank!MonthBounds(m))]}

LEMMA BankSegmentsOfMonth ==
  ASSUME Bank!WallClockAssumption, NEW from \in 0..Bank!Horizon, NEW to \in 0..Bank!Horizon,
         NEW m \in Int
  PROVE  {s \in Bank!Segments(from, to) : s.month = m} = BankPartOf(from, to, m)
<1>1. \E f : BankCuts(f, to)
  BY BankCutsExist
<1> DEFINE cut == CHOOSE f : BankCuts(f, to)
<1>2. BankCuts(cut, to)
  BY <1>1
<1>3. Bank!Segments(from, to) = cut[from]
  BY DEF Bank!Segments, BankCuts, BankEndOfCut
<1> HIDE DEF cut
<1>4. Bank!Horizon \in Nat
  BY BankHorizonIs
<1> DEFINE Of(c) == {s \in cut[c] : s.month = m}
           N == {n \in Nat : \A c \in 0..Bank!Horizon : c >= to - n => Of(c) = BankPartOf(c, to, m)}
<1>5. \A c \in 0..Bank!Horizon : c >= to => Of(c) = BankPartOf(c, to, m)
  <2> SUFFICES ASSUME NEW c \in 0..Bank!Horizon, c >= to
               PROVE  Of(c) = BankPartOf(c, to, m)
    OBVIOUS
  <2>1. cut[c] = {}
    BY <1>2 DEF BankCuts
  <2>2. Bank!StartOfMonth(m) \in Int /\ Bank!StartOfMonth(m + 1) \in Int
    BY BankStartIs
  <2>3. Bank!MonthBounds(m).from = Bank!StartOfMonth(m)
          /\ Bank!MonthBounds(m).to = Bank!StartOfMonth(m + 1)
    BY DEF Bank!MonthBounds
  <2>4. Bank!Clipped(c, to, Bank!MonthBounds(m)) = 0
    BY <1>4, <2>2, <2>3 DEF Bank!Clipped, Bank!GreaterOf, Bank!LesserOf
  <2> QED
    BY <2>1, <2>4 DEF BankPartOf
<1>6. 0 \in N
  BY <1>4, <1>5
<1>7. ASSUME NEW n \in Nat, n \in N
      PROVE  n + 1 \in N
  <2> SUFFICES ASSUME NEW c \in 0..Bank!Horizon, c >= to - (n + 1), c < to
               PROVE  Of(c) = BankPartOf(c, to, m)
    BY <1>4, <1>5
  <2> DEFINE end == BankEndOfCut(c, to)
             seg == [month |-> Bank!MonthIndexOf(c), slots |-> end - c]
  <2>1. end \in 0..Bank!Horizon /\ c < end
    BY BankCutAdvances
  <2>2. cut[c] = {seg} \cup cut[end]
    <3>1. ~(c >= to)
      BY <1>4
    <3>2. cut[c] = IF c >= to THEN {}
                   ELSE {[month |-> Bank!MonthIndexOf(c), slots |-> BankEndOfCut(c, to) - c]}
                          \cup cut[BankEndOfCut(c, to)]
      BY <1>2 DEF BankCuts
    <3> QED
      BY <3>1, <3>2
  <2>3. /\ m = Bank!MonthIndexOf(c) => /\ Bank!Clipped(c, to, Bank!MonthBounds(m)) = end - c
                                  /\ Bank!Clipped(end, to, Bank!MonthBounds(m)) = 0
        /\ m # Bank!MonthIndexOf(c)
             => Bank!Clipped(c, to, Bank!MonthBounds(m))
             = Bank!Clipped(end, to, Bank!MonthBounds(m))
    BY BankClippedByCut
  <2> HIDE DEF end
  <2>4. Of(end) = BankPartOf(end, to, m)
    <3>1. end >= to - n
      BY <1>4, <2>1
    <3> QED
      BY <1>7, <2>1, <3>1
  <2>5. CASE m = Bank!MonthIndexOf(c)
    <3>1. Of(end) = {} /\ BankPartOf(c, to, m) = {seg}
      BY <1>4, <2>1, <2>3, <2>4, <2>5 DEF BankPartOf
    <3> QED
      BY <2>2, <2>5, <3>1
  <2>6. CASE m # Bank!MonthIndexOf(c)
    <3>1. Of(end) = BankPartOf(c, to, m)
      BY <2>3, <2>4, <2>6 DEF BankPartOf
    <3> QED
      BY <2>2, <2>6, <3>1
  <2> QED
    BY <2>5, <2>6
<1>8. Nat \subseteq N
  <2> HIDE DEF N
  <2> QED
    BY <1>6, <1>7, NaturalsByStep
<1>9. Of(from) = BankPartOf(from, to, m)
  <2>1. to \in N /\ from >= to - to
    BY <1>4, <1>8
  <2> QED
    BY <2>1
<1> QED
  BY <1>3, <1>9

(* A loop that goes on from a to nxt[a] while a is in More, and gets       *)
(* nearer to its end, has a result; what each step keeps, the result has.  *)
BankLooping(f, D, More, nxt) == f = [a \in D |-> IF a \in More THEN f[nxt[a]] ELSE a]
BankLoopingUpTo(f, D, More, nxt, rank, n) ==
  /\ f = [a \in D |-> f[a]]
  /\ \A a \in D : rank[a] <= n => f[a] = IF a \in More THEN f[nxt[a]] ELSE a

LEMMA BankLoopEnds ==
  ASSUME NEW D, NEW More \in SUBSET D, NEW nxt, NEW rank, \A a \in D : rank[a] \in Nat,
         \A a \in More : nxt[a] \in D /\ rank[nxt[a]] < rank[a]
  PROVE  \E f : BankLooping(f, D, More, nxt)
<1> DEFINE N == {n \in Nat : \E f : BankLoopingUpTo(f, D, More, nxt, rank, n)}
<1>1. 0 \in N
  <2> DEFINE f == [a \in D |-> a]
  <2>1. BankLoopingUpTo(f, D, More, nxt, rank, 0)
    BY DEF BankLoopingUpTo
  <2> QED
    BY <2>1
<1>2. ASSUME NEW n \in Nat, n \in N
      PROVE  n + 1 \in N
  <2>1. PICK f : BankLoopingUpTo(f, D, More, nxt, rank, n)
    BY <1>2
  <2> DEFINE h == [a \in D |-> IF a \in More THEN f[nxt[a]] ELSE a]
  <2>2. \A a \in D : rank[a] <= n => h[a] = f[a]
    BY <2>1 DEF BankLoopingUpTo
  <2>3. ASSUME NEW a \in D, rank[a] <= n + 1
        PROVE  h[a] = IF a \in More THEN h[nxt[a]] ELSE a
    <3>1. CASE a \in More
      <4>1. nxt[a] \in D /\ rank[nxt[a]] <= n
        BY <2>3, <3>1
      <4>2. h[nxt[a]] = f[nxt[a]]
        BY <2>2, <4>1
      <4> QED
        BY <3>1, <4>2
    <3>2. CASE a \notin More
      BY <3>2
    <3> QED
      BY <3>1, <3>2
  <2>4. h = [a \in D |-> h[a]]
    OBVIOUS
  <2> HIDE DEF h
  <2>5. BankLoopingUpTo(h, D, More, nxt, rank, n + 1)
    BY <2>3, <2>4 DEF BankLoopingUpTo
  <2> QED
    BY <2>5
<1>3. Nat \subseteq N
  <2> HIDE DEF N
  <2> QED
    BY <1>1, <1>2, NaturalsByStep
<1> DEFINE G(n) == CHOOSE f : BankLoopingUpTo(f, D, More, nxt, rank, n)
<1>4. \A n \in Nat : BankLoopingUpTo(G(n), D, More, nxt, rank, n)
  BY <1>3
<1> HIDE DEF G
(* The functions agree where both are right.                               *)
<1>5. \A m \in Nat : \A n \in Nat : \A a \in D : rank[a] <= m /\ m <= n => G(n)[a] = G(m)[a]
  <2> DEFINE A == {m \in Nat : \A p, n \in Nat : \A a \in D :
                     rank[a] <= m /\ m <= p /\ m <= n => G(n)[a] = G(p)[a]}
  <2>1. \A m, n \in Nat : \A a \in D : rank[a] <= m /\ m <= n =>
          G(n)[a] = IF a \in More THEN G(n)[nxt[a]] ELSE a
    BY <1>4 DEF BankLoopingUpTo
  <2>2. 0 \in A
    BY <2>1
  <2>3. ASSUME NEW m \in Nat, m \in A, NEW p \in Nat, NEW n \in Nat, NEW a \in D,
               rank[a] <= m + 1, m + 1 <= p, m + 1 <= n
        PROVE  G(n)[a] = G(p)[a]
    <3>1. /\ G(n)[a] = IF a \in More THEN G(n)[nxt[a]] ELSE a
          /\ G(p)[a] = IF a \in More THEN G(p)[nxt[a]] ELSE a
      <4>1. m + 1 \in Nat
        OBVIOUS
      <4> QED
        BY <2>1, <2>3, <4>1
    <3>2. a \in More => G(n)[nxt[a]] = G(p)[nxt[a]]
      <4>1. a \in More => nxt[a] \in D /\ rank[nxt[a]] <= m /\ m <= p /\ m <= n
        BY <2>3
      <4> QED
        BY <2>3, <4>1
    <3> QED
      BY <3>1, <3>2
  <2>4. Nat \subseteq A
    <3>1. ASSUME NEW m \in Nat, m \in A
          PROVE  m + 1 \in A
      <4>1. m + 1 \in Nat
        OBVIOUS
      <4>2. \A p, n \in Nat : \A a \in D :
              rank[a] <= m + 1 /\ m + 1 <= p /\ m + 1 <= n => G(n)[a] = G(p)[a]
        <5> HIDE DEF A
        <5> TAKE p, n \in Nat
        <5> TAKE a \in D
        <5> HAVE rank[a] <= m + 1 /\ m + 1 <= p /\ m + 1 <= n
        <5> QED
          BY <2>3, <3>1
      <4> QED
        BY ONLY <4>1, <4>2
    <3> HIDE DEF A
    <3> QED
      BY <2>2, <3>1, NaturalsByStep
  <2> QED
    BY <2>4
<1> DEFINE f == [a \in D |-> G(rank[a])[a]]
<1>6. ASSUME NEW a \in D
      PROVE  f[a] = IF a \in More THEN f[nxt[a]] ELSE a
  <2>1. G(rank[a])[a] = IF a \in More THEN G(rank[a])[nxt[a]] ELSE a
    BY <1>4 DEF BankLoopingUpTo
  <2>2. a \in More => /\ nxt[a] \in D /\ rank[nxt[a]] \in Nat /\ rank[nxt[a]] <= rank[a]
                      /\ rank[a] \in Nat
    OBVIOUS
  <2>3. a \in More => G(rank[a])[nxt[a]] = G(rank[nxt[a]])[nxt[a]]
    BY <1>5, <2>2
  <2> QED
    BY <2>1, <2>2, <2>3
<1>7. f = [a \in D |-> IF a \in More THEN f[nxt[a]] ELSE a]
  <2>1. f = [a \in D |-> f[a]]
    OBVIOUS
  <2> HIDE DEF f
  <2> QED
    BY <1>6, <2>1
<1> QED
  BY <1>7 DEF BankLooping

LEMMA BankLoopKeeps ==
  ASSUME NEW D, NEW More \in SUBSET D, NEW nxt, NEW rank, \A a \in D : rank[a] \in Nat,
         \A a \in More : nxt[a] \in D /\ rank[nxt[a]] < rank[a],
         NEW f, BankLooping(f, D, More, nxt),
         NEW G \in SUBSET D, \A a \in G \cap More : nxt[a] \in G
  PROVE  \A a \in G : f[a] \in G \ More
<1> DEFINE N == {n \in Nat : \A a \in G : rank[a] <= n => f[a] \in G \ More}
<1>1. \A a \in D : f[a] = IF a \in More THEN f[nxt[a]] ELSE a
  BY DEF BankLooping
<1>2. 0 \in N
  BY <1>1
<1>3. ASSUME NEW n \in Nat, n \in N, NEW a \in G, rank[a] <= n + 1
      PROVE  f[a] \in G \ More
  <2>1. CASE a \in More
    <3>1. nxt[a] \in G /\ rank[nxt[a]] <= n
      BY <1>3, <2>1
    <3>2. f[nxt[a]] \in G \ More
      BY <1>3, <3>1
    <3> QED
      BY <1>1, <2>1, <3>2
  <2>2. CASE a \notin More
    BY <1>1, <2>2
  <2> QED
    BY <2>1, <2>2
<1>4. Nat \subseteq N
  <2>1. \A n \in Nat : n \in N => n + 1 \in N
    BY <1>3
  <2> HIDE DEF N
  <2> QED
    BY <1>2, <2>1, NaturalsByStep
<1> QED
  BY <1>4

(* The cycle of a reference: a step back of the anchor and a step forward  *)
(* keep whatever set they are steps of.                                    *)
LEMMA BankCycleIs ==
  ASSUME Bank!WallClockAssumption, NEW reference \in 0..Bank!Horizon,
         Bank!MonthIndexOf(reference) >= Bank!Half,
         NEW G \in SUBSET (0..Bank!Horizon), NEW anchor \in G,
         \A a \in G : a > reference => Bank!AddMonths(a, 0 - Bank!Half) \in G,
         \A a \in G : Bank!AddMonths(a, Bank!Half) <= reference
           => Bank!AddMonths(a, Bank!Half) \in G
  PROVE  LET start == Bank!SteppedForward(Bank!SteppedBack(anchor, reference), reference)
         IN start \in G /\ start <= reference /\ reference < Bank!AddMonths(start, Bank!Half)
<1> DEFINE D == 0..Bank!Horizon
           Later == {a \in D : a > reference}
           back == [a \in D |-> Bank!AddMonths(a, 0 - Bank!Half)]
           Early == {a \in D : Bank!AddMonths(a, Bank!Half) <= reference}
           forth == [a \in D |-> Bank!AddMonths(a, Bank!Half)]
           near == [a \in D |-> a]
           far == [a \in D |-> Bank!Horizon - a]
<1>1. Bank!Horizon \in Nat /\ reference \in Nat /\ 0 - Bank!Half \in Int /\ Bank!Half \in Nat
        /\ Bank!Half > 0 /\ 0 - Bank!Half < 0
  BY BankHorizonIs DEF Bank!Half
<1>2. ASSUME NEW a \in D, a > reference
      PROVE  Bank!AddMonths(a, 0 - Bank!Half) \in D /\ Bank!AddMonths(a, 0 - Bank!Half) < a
  <2>1. a \in Nat /\ Bank!MonthIndexOf(reference) <= Bank!MonthIndexOf(a)
    BY <1>1, <1>2, BankMonthsInOrder
  <2>2. Bank!MonthIndexOf(a) \in Nat /\ Bank!MonthIndexOf(reference) \in Nat
    BY <1>1, <2>1, BankMonthIndexIs
  <2>3. Bank!MonthIndexOf(a) + (0 - Bank!Half) >= 0
    BY <1>1, <2>1, <2>2 DEF Bank!Half
  <2>4. Bank!AddMonths(a, 0 - Bank!Half) \in Nat /\ Bank!AddMonths(a, 0 - Bank!Half) < a
    BY <1>1, <2>1, <2>3, BankAddMonthsIs
  <2> QED
    BY <1>1, <2>4
<1>3. ASSUME NEW a \in D
      PROVE  Bank!AddMonths(a, Bank!Half) \in Nat /\ a < Bank!AddMonths(a, Bank!Half)
  <2>1. a \in Nat
    BY <1>1
  <2>2. Bank!MonthIndexOf(a) + Bank!Half >= 0
    BY <1>1, <2>1, BankMonthIndexIs
  <2> QED
    BY <1>1, <2>1, <2>2, BankAddMonthsIs
<1>4. /\ Later \in SUBSET D /\ (\A a \in D : near[a] \in Nat)
      /\ \A a \in Later : back[a] \in D /\ near[back[a]] < near[a]
  BY <1>1, <1>2
<1>5. /\ Early \in SUBSET D /\ (\A a \in D : far[a] \in Nat)
      /\ \A a \in Early : forth[a] \in D /\ far[forth[a]] < far[a]
  <2>1. \A a \in Early : forth[a] \in D /\ a < forth[a]
    BY <1>1, <1>3
  <2> QED
    BY <1>1, <2>1
<1>6. \E f : BankLooping(f, D, Later, back)
  <2> HIDE DEF D, Later, back, near
  <2> QED
    BY <1>4, BankLoopEnds
<1>7. \E f : BankLooping(f, D, Early, forth)
  <2> HIDE DEF D, Early, forth, far
  <2> QED
    BY <1>5, BankLoopEnds
<1> DEFINE B == CHOOSE f : f = [a \in 0..Bank!Horizon |->
                  IF a > reference THEN f[Bank!AddMonths(a, 0 - Bank!Half)] ELSE a]
           F == CHOOSE f : f = [a \in 0..Bank!Horizon |->
                  IF Bank!AddMonths(a, Bank!Half) <= reference THEN f[Bank!AddMonths(a, Bank!Half)]
                    ELSE a]
<1>8. BankLooping(B, D, Later, back)
  <2>1. \A f : BankLooping(f, D, Later, back) <=>
          f = [a \in 0..Bank!Horizon |-> IF a > reference THEN f[Bank!AddMonths(a, 0 - Bank!Half)]
            ELSE a]
    <3> SUFFICES ASSUME NEW f
                 PROVE  [a \in D |-> IF a \in Later THEN f[back[a]] ELSE a]
                          = [a \in 0..Bank!Horizon |->
                               IF a > reference THEN f[Bank!AddMonths(a, 0 - Bank!Half)] ELSE a]
      BY DEF BankLooping
    <3> QED
      OBVIOUS
  <2> HIDE DEF D, Later, back
  <2> QED
    BY <1>6, <2>1
<1>9. BankLooping(F, D, Early, forth)
  <2>1. \A f : BankLooping(f, D, Early, forth) <=>
          f = [a \in 0..Bank!Horizon |->
                 IF Bank!AddMonths(a, Bank!Half) <= reference THEN f[Bank!AddMonths(a, Bank!Half)]
                   ELSE a]
    <3> SUFFICES ASSUME NEW f
                 PROVE  [a \in D |-> IF a \in Early THEN f[forth[a]] ELSE a]
                          = [a \in 0..Bank!Horizon |->
                               IF Bank!AddMonths(a, Bank!Half) <= reference
                                 THEN f[Bank!AddMonths(a, Bank!Half)] ELSE a]
      BY DEF BankLooping
    <3> QED
      OBVIOUS
  <2> HIDE DEF D, Early, forth
  <2> QED
    BY <1>7, <2>1
<1>10. Bank!SteppedBack(anchor, reference) = B[anchor]
  BY DEF Bank!SteppedBack
<1>11. Bank!SteppedForward(B[anchor], reference) = F[B[anchor]]
  BY DEF Bank!SteppedForward
<1> HIDE DEF B, F
<1> DEFINE K == {a \in D : a \in G}
<1>12. B[anchor] \in G \ Later
  <2>1. K \in SUBSET D /\ \A a \in K \cap Later : back[a] \in K
    <3>1. \A a \in G \cap Later : back[a] \in G /\ back[a] \in D
      BY <1>2
    <3> QED
      BY <3>1
  <2>2. anchor \in K /\ K \subseteq G
    OBVIOUS
  <2> HIDE DEF D, Later, back, near, K
  <2>3. \A a \in K : B[a] \in K \ Later
    BY ONLY <1>4, <1>8, <2>1, BankLoopKeeps
  <2> QED
    BY <2>2, <2>3
<1> DEFINE H == {a \in G : a <= reference}
<1>13. B[anchor] \in H
  <2>1. B[anchor] \in D /\ B[anchor] \in G /\ ~(B[anchor] > reference)
    BY <1>12
  <2> QED
    BY <1>1, <2>1
<1>14. F[B[anchor]] \in H \ Early
  <2>1. H \in SUBSET D /\ \A a \in H \cap Early : forth[a] \in H
    OBVIOUS
  <2> HIDE DEF D, Early, forth, far, H
  <2>2. \A a \in H : F[a] \in H \ Early
    BY ONLY <1>5, <1>9, <2>1, BankLoopKeeps
  <2> QED
    BY <1>13, <2>2
<1>15. F[B[anchor]] \in G /\ F[B[anchor]] <= reference
         /\ reference < Bank!AddMonths(F[B[anchor]], Bank!Half)
  <2>1. F[B[anchor]] \in D /\ ~(Bank!AddMonths(F[B[anchor]], Bank!Half) <= reference)
    BY <1>14
  <2>2. Bank!AddMonths(F[B[anchor]], Bank!Half) \in Nat
    BY <1>3, <2>1
  <2> QED
    BY <1>1, <1>14, <2>1, <2>2
<1> QED
  BY <1>10, <1>11, <1>15

LEMMA BankAnchorIs ==
  ASSUME Bank!WallClockAssumption, NEW date \in {Junk} \cup Bank!Dates,
         NEW reference \in 0..Bank!Horizon
  PROVE  Bank!Anchor(date, reference) \in 0..Bank!Horizon
<1> DEFINE n == 12 * (LastYear - FirstYear + 1)
<1>1. Bank!Horizon \in Nat /\ Bank!Horizon = Bank!StartOfMonth(n) /\ n \in Nat /\ reference \in Nat
  BY BankHorizonIs
<1>2. CASE date # Junk /\ Bank!Exists(date)
  <2> DEFINE i == Bank!MonthIndex(date.year, date.month)
  <2>1. date.year \in FirstYear..LastYear /\ date.day \in Int /\ date.month \in 1..12
    BY <1>2 DEF Bank!Dates, Bank!Exists
  <2>2. FirstYear \in Nat /\ LastYear \in Nat
    BY DEF Bank!WallClockAssumption
  <2>3. i \in Nat /\ i < n
    BY <2>1, <2>2 DEF Bank!MonthIndex
  <2>4. Bank!LengthOf(i) = Bank!DaysInMonth(date.year, date.month)
    <3>1. Bank!YearOf(i) = date.year /\ Bank!MonthOf(i) = date.month
      <4> DEFINE y == date.year - FirstYear
                 m == date.month - 1
      <4>1. y \in Nat /\ m \in 0..11 /\ i = 12 * y + m
        BY <2>1, <2>2 DEF Bank!MonthIndex
      <4>2. i \div 12 = y /\ i % 12 = m
        <5> HIDE DEF y, m, i
        <5> QED
          BY <4>1
      <4> QED
        BY <2>1, <2>2, <4>2 DEF Bank!YearOf, Bank!MonthOf
    <3> QED
      BY <3>1 DEF Bank!LengthOf
  <2>5. date.day \in 1..Bank!LengthOf(i) /\ 0 \in 0..(PerDay - 1)
    <3>1. Bank!LengthOf(i) \in 28..31
      BY <2>3, BankLengthBounds
    <3>2. 1 <= date.day /\ date.day <= Bank!LengthOf(i)
      BY <1>2, <2>4 DEF Bank!Exists
    <3> QED
      BY <2>1, <3>1, <3>2 DEF Bank!WallClockAssumption
  <2>6. Bank!Anchor(date, reference) = Bank!Storage(i, date.day, 0)
    BY <1>2 DEF Bank!Anchor
  <2> HIDE DEF i, n
  <2>7. Bank!Storage(i, date.day, 0) \in Nat
          /\ Bank!Storage(i, date.day, 0) < Bank!StartOfMonth(i + 1)
    BY <2>3, <2>5, BankStoredIs
  <2>8. Bank!StartOfMonth(i + 1) <= Bank!Horizon /\ Bank!StartOfMonth(i + 1) \in Int
    <3>1. i + 1 \in Int /\ i + 1 <= n
      BY <1>1, <2>3
    <3> QED
      BY <1>1, <3>1, BankStartsGrow, BankStartIs
  <2> QED
    BY <1>1, <2>6, <2>7, <2>8
<1>3. CASE ~(date # Junk /\ Bank!Exists(date))
  <2> DEFINE j == Bank!MonthIndexOf(reference)
             k == 12 * (j \div 12)
  <2>1. j \in Nat /\ Bank!StartOfMonth(j) <= reference /\ Bank!StartOfMonth(j) \in Int
    BY <1>1, BankMonthIndexIs, BankStartIs
  <2>2. k \in Nat /\ k <= j
    BY <2>1
  <2>3. Bank!Anchor(date, reference) = Bank!StartOfMonth(k)
    BY <1>3 DEF Bank!Anchor
  <2> HIDE DEF j, k
  <2>4. Bank!StartOfMonth(k) \in Nat /\ Bank!StartOfMonth(k) <= Bank!StartOfMonth(j)
    BY <2>1, <2>2, BankStartsGrow
  <2> QED
    BY <1>1, <2>1, <2>3, <2>4
<1> QED
  BY <1>2, <1>3

(* Steps of six months from one date, on a day every month has, keep to a  *)
(* grid.                                                                   *)
BankGrid(d, r) ==
  {a \in 0..Bank!Horizon : \E i \in Nat : i % Bank!Half = r /\ a = Bank!Storage(i, d, 0)}

LEMMA BankEarlyDay ==
  ASSUME Bank!WallClockAssumption, NEW d \in 1..28, NEW i \in Nat
  PROVE  /\ Bank!Storage(i, d, 0) \in Nat /\ Bank!StartOfMonth(i) <= Bank!Storage(i, d, 0)
         /\ Bank!Storage(i, d, 0) < Bank!StartOfMonth(i + 1)
              /\ Bank!MonthIndexOf(Bank!Storage(i, d, 0)) = i
<1>1. d \in 1..Bank!LengthOf(i) /\ 0 \in 0..(PerDay - 1)
  <2>1. Bank!LengthOf(i) \in 28..31
    BY BankLengthBounds
  <2> QED
    BY <2>1 DEF Bank!WallClockAssumption
<1> QED
  BY <1>1, BankStoredIs

LEMMA BankGridKept ==
  ASSUME Bank!WallClockAssumption, NEW d \in 1..28, NEW r \in 0..5, NEW a \in BankGrid(d, r)
  PROVE  /\ Bank!AddMonths(a, Bank!Half) \in 0..Bank!Horizon
              => Bank!AddMonths(a, Bank!Half) \in BankGrid(d, r)
         /\ Bank!AddMonths(a, 0 - Bank!Half) \in 0..Bank!Horizon
              /\ Bank!MonthIndexOf(a) >= Bank!Half
              => Bank!AddMonths(a, 0 - Bank!Half) \in BankGrid(d, r)
<1>1. PICK i \in Nat : i % Bank!Half = r /\ a = Bank!Storage(i, d, 0)
  BY DEF BankGrid
<1>2. Bank!MonthIndexOf(a) = i
  BY <1>1, BankEarlyDay
<1>3. i + Bank!Half \in Nat /\ i + Bank!Half >= 0 /\ (i + Bank!Half) % Bank!Half = r
        /\ Bank!Half \in Int
  BY <1>1 DEF Bank!Half
<1>4. Bank!AddMonths(a, Bank!Half) = Bank!Storage(i + Bank!Half, d, 0)
  BY <1>1, <1>3, BankAddMonthsExact
<1>5. ASSUME i >= Bank!Half
      PROVE  Bank!AddMonths(a, 0 - Bank!Half) = Bank!Storage(i + (0 - Bank!Half), d, 0)
  <2>1. 0 - Bank!Half \in Int /\ i + (0 - Bank!Half) >= 0
    BY <1>5 DEF Bank!Half
  <2> QED
    BY <1>1, <2>1, BankAddMonthsExact
<1>6. i >= Bank!Half => i + (0 - Bank!Half) \in Nat /\ (i + (0 - Bank!Half)) % Bank!Half = r
  BY <1>1 DEF Bank!Half
<1> QED
  BY <1>2, <1>3, <1>4, <1>5, <1>6 DEF BankGrid

(* Between two dates of a grid there are six months.                       *)
LEMMA BankGridApart ==
  ASSUME Bank!WallClockAssumption, NEW d \in 1..28, NEW r \in 0..5,
         NEW a \in BankGrid(d, r), NEW b \in BankGrid(d, r), a < b
  PROVE  Bank!AddMonths(a, Bank!Half) <= b
<1>1. PICK i \in Nat : i % Bank!Half = r /\ a = Bank!Storage(i, d, 0)
  BY DEF BankGrid
<1>2. PICK j \in Nat : j % Bank!Half = r /\ b = Bank!Storage(j, d, 0)
  BY DEF BankGrid
<1>3. Bank!MonthIndexOf(a) = i /\ Bank!MonthIndexOf(b) = j /\ a \in Nat /\ b \in Nat
  BY <1>1, <1>2, BankEarlyDay
<1>4. i <= j
  BY <1>3, BankMonthsInOrder
<1>5. i # j
  <2>1. a # b
    BY <1>3
  <2> QED
    BY <1>1, <1>2, <2>1
<1>6. i + Bank!Half <= j
  BY <1>1, <1>2, <1>4, <1>5 DEF Bank!Half
<1>7. Bank!AddMonths(a, Bank!Half) = Bank!Storage(i + Bank!Half, d, 0) /\ i + Bank!Half \in Nat
  <2>1. Bank!Half \in Int /\ i + Bank!Half >= 0 /\ i + Bank!Half \in Nat
    BY DEF Bank!Half
  <2> QED
    BY <1>1, <2>1, BankAddMonthsExact
<1>8. CASE i + Bank!Half = j
  <2>1. Bank!AddMonths(a, Bank!Half) = b
    BY <1>2, <1>7, <1>8
  <2> QED
    BY <1>3, <2>1
<1>9. CASE i + Bank!Half < j
  <2> DEFINE k == i + Bank!Half
  <2>1. k \in Nat /\ k \in Int /\ j \in Int /\ k < j
    BY <1>7, <1>9
  <2>2. Bank!AddMonths(a, Bank!Half) = Bank!Storage(k, d, 0)
    BY <1>7
  <2> HIDE DEF k
  <2>3. /\ Bank!Storage(k, d, 0) \in Nat /\ Bank!Storage(k, d, 0) < Bank!StartOfMonth(k + 1)
        /\ Bank!StartOfMonth(j) <= b
    BY <1>2, <2>1, BankEarlyDay
  <2>4. Bank!StartOfMonth(k + 1) <= Bank!StartOfMonth(j)
    BY <2>1, BankStartsGrow
  <2>5. Bank!StartOfMonth(k + 1) \in Int /\ Bank!StartOfMonth(j) \in Int
    <3>1. k + 1 \in Int
      BY <2>1
    <3> QED
      BY <2>1, <3>1, BankStartIs
  <2> QED
    BY <1>3, <2>2, <2>3, <2>4, <2>5
<1> QED
  <2>1. i + Bank!Half \in Nat
    BY <1>7
  <2> QED
    BY <1>6, <1>8, <1>9, <2>1

(* The anchors of a date are on one grid, whatever the reference.          *)
LEMMA BankAnchorsOnGrid ==
  ASSUME Bank!WallClockAssumption, NEW date \in {Junk} \cup Bank!Dates,
         date = Junk \/ ~Bank!Exists(date) \/ date.day <= 28
  PROVE  \E d \in 1..28, r \in 0..5 :
           \A reference \in 0..Bank!Horizon : Bank!Anchor(date, reference) \in BankGrid(d, r)
<1>1. CASE date # Junk /\ Bank!Exists(date)
  <2> DEFINE i == Bank!MonthIndex(date.year, date.month)
  <2>1. date.year \in FirstYear..LastYear /\ date.day \in 1..28 /\ date.month \in 1..12
    BY <1>1 DEF Bank!Dates, Bank!Exists
  <2>2. FirstYear \in Nat /\ LastYear \in Nat
    BY DEF Bank!WallClockAssumption
  <2>3. i \in Nat
    BY <2>1, <2>2 DEF Bank!MonthIndex
  <2>4. \A reference \in 0..Bank!Horizon :
          Bank!Anchor(date, reference) = Bank!Storage(i, date.day, 0)
    BY <1>1 DEF Bank!Anchor
  <2> HIDE DEF i
  <2>5. i % Bank!Half \in 0..5
    BY <2>3 DEF Bank!Half
  <2>6. \A reference \in 0..Bank!Horizon :
          Bank!Anchor(date, reference) \in BankGrid(date.day, i % Bank!Half)
    BY <2>3, <2>4, BankAnchorIs DEF BankGrid
  <2> QED
    BY <2>1, <2>5, <2>6
<1>2. CASE ~(date # Junk /\ Bank!Exists(date))
  <2>1. ASSUME NEW reference \in 0..Bank!Horizon
        PROVE  Bank!Anchor(date, reference) \in BankGrid(1, 0)
    <3> DEFINE j == Bank!MonthIndexOf(reference)
               k == 12 * (j \div 12)
    <3>1. Bank!Anchor(date, reference) = Bank!Storage(k, 1, 0)
      BY <1>2 DEF Bank!Anchor, Bank!StartOfMonth
    <3>2. reference \in Nat
      BY BankHorizonIs
    <3>3. j \in Nat
      BY <3>2, BankMonthIndexIs
    <3> HIDE DEF j
    <3>4. k \in Nat /\ k % Bank!Half = 0
      BY <3>3 DEF Bank!Half
    <3> HIDE DEF k
    <3> QED
      BY <3>1, <3>4, BankAnchorIs DEF BankGrid
  <2> QED
    BY <2>1
<1> QED
  BY <1>1, <1>2

(* The cycle of a reference holds it.                                      *)
LEMMA BankCycleHolds ==
  ASSUME Bank!WallClockAssumption, NEW date \in {Junk} \cup Bank!Dates,
         NEW reference \in 0..Bank!Horizon, Bank!MonthIndexOf(reference) >= Bank!Half
  PROVE  /\ Bank!CycleStart(date, reference) \in 0..Bank!Horizon
         /\ Bank!CycleStart(date, reference) <= reference
         /\ reference < Bank!CycleEnd(date, reference)
<1> DEFINE G == 0..Bank!Horizon
           anchor == Bank!Anchor(date, reference)
<1>1. Bank!Horizon \in Nat /\ reference \in Nat /\ 0 - Bank!Half \in Int /\ Bank!Half \in Int
        /\ Bank!Half > 0 /\ 0 - Bank!Half < 0
  BY BankHorizonIs DEF Bank!Half
<1>2. anchor \in G
  BY BankAnchorIs
<1>3. \A a \in G : a > reference => Bank!AddMonths(a, 0 - Bank!Half) \in G
  <2> SUFFICES ASSUME NEW a \in G, a > reference
               PROVE  Bank!AddMonths(a, 0 - Bank!Half) \in G
    OBVIOUS
  <2>1. a \in Nat /\ Bank!MonthIndexOf(reference) <= Bank!MonthIndexOf(a)
    BY <1>1, BankMonthsInOrder
  <2>2. Bank!MonthIndexOf(a) \in Nat /\ Bank!MonthIndexOf(reference) \in Nat
    BY <1>1, <2>1, BankMonthIndexIs
  <2>3. Bank!MonthIndexOf(a) + (0 - Bank!Half) >= 0
    BY <1>1, <2>1, <2>2 DEF Bank!Half
  <2>4. Bank!AddMonths(a, 0 - Bank!Half) \in Nat /\ Bank!AddMonths(a, 0 - Bank!Half) < a
    BY <1>1, <2>1, <2>3, BankAddMonthsIs
  <2> QED
    BY <1>1, <2>4
<1>4. \A a \in G : Bank!AddMonths(a, Bank!Half) <= reference => Bank!AddMonths(a, Bank!Half) \in G
  <2> SUFFICES ASSUME NEW a \in G, Bank!AddMonths(a, Bank!Half) <= reference
               PROVE  Bank!AddMonths(a, Bank!Half) \in G
    OBVIOUS
  <2>1. a \in Nat
    BY <1>1
  <2>2. Bank!MonthIndexOf(a) + Bank!Half >= 0
    BY <1>1, <2>1, BankMonthIndexIs
  <2>3. Bank!AddMonths(a, Bank!Half) \in Nat
    BY <1>1, <2>1, <2>2, BankAddMonthsIs
  <2> QED
    BY <1>1, <2>3
<1>5. G \in SUBSET (0..Bank!Horizon)
  OBVIOUS
<1>6. Bank!CycleStart(date, reference)
        = Bank!SteppedForward(Bank!SteppedBack(anchor, reference), reference)
  BY DEF Bank!CycleStart
<1> HIDE DEF G, anchor
<1>7. LET start == Bank!SteppedForward(Bank!SteppedBack(anchor, reference), reference)
      IN start \in G /\ start <= reference /\ reference < Bank!AddMonths(start, Bank!Half)
  BY <1>2, <1>3, <1>4, <1>5, BankCycleIs
<1> QED
  BY <1>6, <1>7 DEF Bank!CycleEnd, G

LEMMA BankCycleOnGrid ==
  ASSUME Bank!WallClockAssumption, NEW date \in {Junk} \cup Bank!Dates, NEW d \in 1..28,
         NEW r \in 0..5,
         NEW reference \in 0..Bank!Horizon, Bank!MonthIndexOf(reference) >= Bank!Half,
         Bank!Anchor(date, reference) \in BankGrid(d, r)
  PROVE  Bank!CycleStart(date, reference) \in BankGrid(d, r)
<1> DEFINE G == BankGrid(d, r)
           anchor == Bank!Anchor(date, reference)
<1>1. Bank!Horizon \in Nat /\ reference \in Nat /\ 0 - Bank!Half \in Int /\ Bank!Half \in Int
        /\ Bank!Half > 0 /\ 0 - Bank!Half < 0
  BY BankHorizonIs DEF Bank!Half
<1>2. anchor \in G /\ G \in SUBSET (0..Bank!Horizon)
  BY DEF BankGrid
<1>3. \A a \in G : a > reference => Bank!AddMonths(a, 0 - Bank!Half) \in G
  <2> SUFFICES ASSUME NEW a \in G, a > reference
               PROVE  Bank!AddMonths(a, 0 - Bank!Half) \in G
    OBVIOUS
  <2>1. a \in 0..Bank!Horizon /\ a \in Nat
    BY <1>1, <1>2
  <2>2. Bank!MonthIndexOf(reference) <= Bank!MonthIndexOf(a)
    BY <1>1, <2>1, BankMonthsInOrder
  <2>3. Bank!MonthIndexOf(a) \in Nat /\ Bank!MonthIndexOf(reference) \in Nat
    BY <1>1, <2>1, BankMonthIndexIs
  <2>4. Bank!MonthIndexOf(a) >= Bank!Half /\ Bank!MonthIndexOf(a) + (0 - Bank!Half) >= 0
    BY <1>1, <2>2, <2>3 DEF Bank!Half
  <2>5. Bank!AddMonths(a, 0 - Bank!Half) \in Nat /\ Bank!AddMonths(a, 0 - Bank!Half) < a
    BY <1>1, <2>1, <2>4, BankAddMonthsIs
  <2>6. Bank!AddMonths(a, 0 - Bank!Half) \in 0..Bank!Horizon
    BY <1>1, <2>1, <2>5
  <2> QED
    BY <2>4, <2>6, BankGridKept
<1>4. \A a \in G : Bank!AddMonths(a, Bank!Half) <= reference => Bank!AddMonths(a, Bank!Half) \in G
  <2> SUFFICES ASSUME NEW a \in G, Bank!AddMonths(a, Bank!Half) <= reference
               PROVE  Bank!AddMonths(a, Bank!Half) \in G
    OBVIOUS
  <2>1. a \in Nat
    BY <1>1, <1>2
  <2>2. Bank!MonthIndexOf(a) + Bank!Half >= 0
    BY <1>1, <2>1, BankMonthIndexIs
  <2>3. Bank!AddMonths(a, Bank!Half) \in Nat
    BY <1>1, <2>1, <2>2, BankAddMonthsIs
  <2>4. Bank!AddMonths(a, Bank!Half) \in 0..Bank!Horizon
    BY <1>1, <2>3
  <2> QED
    BY <2>4, BankGridKept
<1>5. Bank!CycleStart(date, reference)
        = Bank!SteppedForward(Bank!SteppedBack(anchor, reference), reference)
  BY DEF Bank!CycleStart
<1> HIDE DEF G, anchor
<1>6. LET start == Bank!SteppedForward(Bank!SteppedBack(anchor, reference), reference)
      IN start \in G /\ start <= reference /\ reference < Bank!AddMonths(start, Bank!Half)
  BY <1>2, <1>3, <1>4, BankCycleIs
<1> QED
  BY <1>5, <1>6 DEF G

(* The cycles of a closing day up to 28 tile the calendar.                 *)
LEMMA BankCyclesOfDate ==
  ASSUME Bank!WallClockAssumption, NEW date \in {Junk} \cup Bank!Dates,
         date = Junk \/ ~Bank!Exists(date) \/ date.day <= 28,
         NEW s \in 0..Bank!Horizon, Bank!MonthIndexOf(s) >= Bank!Half,
         NEW t \in 0..Bank!Horizon, Bank!MonthIndexOf(t) >= Bank!Half
  PROVE  /\ Bank!CycleStart(date, s) <= t /\ t < Bank!CycleEnd(date, s)
              => Bank!CycleStart(date, t) = Bank!CycleStart(date, s)
         /\ t >= Bank!CycleEnd(date, s) => Bank!CycleStart(date, t) >= Bank!CycleEnd(date, s)
<1>1. PICK d \in 1..28, r \in 0..5 : \A reference \in 0..Bank!Horizon :
        Bank!Anchor(date, reference) \in BankGrid(d, r)
  BY BankAnchorsOnGrid
<1> DEFINE a == Bank!CycleStart(date, s)
           b == Bank!CycleStart(date, t)
<1>2. a \in BankGrid(d, r) /\ b \in BankGrid(d, r)
  BY <1>1, BankCycleOnGrid
<1>3. /\ a \in 0..Bank!Horizon /\ a <= s /\ s < Bank!AddMonths(a, Bank!Half)
      /\ b \in 0..Bank!Horizon /\ b <= t /\ t < Bank!AddMonths(b, Bank!Half)
  BY BankCycleHolds DEF Bank!CycleEnd
<1>4. Bank!CycleEnd(date, s) = Bank!AddMonths(a, Bank!Half)
  BY DEF Bank!CycleEnd
<1> HIDE DEF a, b
<1>5. /\ a < b => Bank!AddMonths(a, Bank!Half) <= b
      /\ b < a => Bank!AddMonths(b, Bank!Half) <= a
  BY <1>2, BankGridApart
<1>6. Bank!AddMonths(a, Bank!Half) \in Nat /\ Bank!AddMonths(b, Bank!Half) \in Nat /\ a \in Nat
        /\ b \in Nat
      /\ s \in Nat /\ t \in Nat
  <2>1. a \in Nat /\ b \in Nat /\ s \in Nat /\ t \in Nat /\ Bank!Half \in Int
    BY <1>3, BankHorizonIs DEF Bank!Half
  <2>2. Bank!MonthIndexOf(a) + Bank!Half >= 0 /\ Bank!MonthIndexOf(b) + Bank!Half >= 0
    BY <2>1, BankMonthIndexIs DEF Bank!Half
  <2> QED
    BY <2>1, <2>2, BankAddMonthsIs
<1>7. a <= t /\ t < Bank!AddMonths(a, Bank!Half) => b = a
  BY <1>3, <1>5, <1>6
<1>8. t >= Bank!AddMonths(a, Bank!Half) => b >= Bank!AddMonths(a, Bank!Half)
  BY <1>3, <1>5, <1>6
<1> QED
  BY <1>4, <1>7, <1>8 DEF a, b

LEMMA BankTilesHold ==
  ASSUME Bank!HoursBankAssumption, Bank!IInv
  PROVE  Bank!CyclesTile
<1>1. [closing |-> v3, allowance |-> v4, now |-> v5] \in BankSettings
  BY DEF Bank!IInv, Bank!TypeOK
<1>2. /\ v3 \in {Junk} \cup Bank!Dates /\ v5 \in 0..Bank!Horizon
           /\ Bank!MonthIndexOf(v5) >= Bank!Half
      /\ Bank!WallClockAssumption
      /\ \A r \in {s.now : s \in BankSettings} :
           r \in 0..Bank!Horizon /\ Bank!MonthIndexOf(r) >= Bank!Half
  <2>1. \A s \in BankSettings : /\ s.closing \in {Junk} \cup Bank!Dates /\ s.now \in 0..Bank!Horizon
                            /\ Bank!MonthIndexOf(s.now) >= Bank!Half
    BY DEF Bank!HoursBankAssumption
  <2> QED
    BY <1>1, <2>1 DEF Bank!HoursBankAssumption
<1>3. Bank!CycleStart(v3, v5) <= v5 /\ v5 < Bank!CycleEnd(v3, v5)
  BY <1>2, BankCycleHolds
<1>4. v3 = Junk \/ ~Bank!Exists(v3) \/ v3.day <= 28 =>
        \A r \in {s.now : s \in BankSettings} :
          /\ Bank!CycleStart(v3, v5) <= r /\ r < Bank!CycleEnd(v3, v5)
               => Bank!CycleStart(v3, r) = Bank!CycleStart(v3, v5)
          /\ r >= Bank!CycleEnd(v3, v5) => Bank!CycleStart(v3, r) >= Bank!CycleEnd(v3, v5)
  BY <1>2, BankCyclesOfDate
<1> QED
  BY <1>3, <1>4 DEF Bank!CyclesTile

(* Counting by a key is summing the counts.                                *)
LEMMA BankCountByKey ==
  ASSUME NEW W, IsFiniteSet(W), NEW k, NEW M, IsFiniteSet(M), \A x \in W : k[x] \in M,
         NEW at, \A m \in M : at[m] = {x \in W : k[x] = m},
         NEW g, \A m \in M : g[m] = Cardinality(at[m])
  PROVE  Bank!SumFunctionOnSet(g, M) = Cardinality(W)
<1> DEFINE f == [x \in W |-> 1]
<1>1. \A x \in W : f[x] = 1
  OBVIOUS
<1> HIDE DEF f
<1>2. \A x \in W : f[x] \in Int
  BY <1>1
<1>3. \A m \in M : g[m] = Bank!SumFunctionOnSet(f, at[m])
  <2> SUFFICES ASSUME NEW m \in M
               PROVE  g[m] = Bank!SumFunctionOnSet(f, at[m])
    OBVIOUS
  <2>1. at[m] \in SUBSET W
    OBVIOUS
  <2>2. IsFiniteSet(at[m]) /\ \A x \in at[m] : f[x] = 1
    BY <1>1, <2>1, FS_Subset
  <2> QED
    BY <2>2, BankSumOfOnes
<1>4. Bank!SumFunctionOnSet(g, M) = Bank!SumFunctionOnSet(f, W)
  BY <1>2, <1>3, BankSumByKey
<1> QED
  BY <1>1, <1>4, BankSumOfOnes

LEMMA BankPairsCount ==
  ASSUME NEW S, IsFiniteSet(S), NEW a
  PROVE  IsFiniteSet({a} \X S) /\ Cardinality({a} \X S) = Cardinality(S)
<1>1. IsFiniteSet({a}) /\ Cardinality({a}) = 1
  BY FS_Singleton
<1>2. Cardinality(S) \in Nat
  BY FS_CardinalityType
<1>3. Cardinality({a} \X S) = 1 * Cardinality(S) /\ IsFiniteSet({a} \X S)
  BY <1>1, FS_Product
<1> QED
  BY <1>2, <1>3

LEMMA BankSumOfOne ==
  ASSUME NEW x, NEW f, f[x] \in Int
  PROVE  Bank!SumFunctionOnSet(f, {x}) = f[x]
<1>1. IsFiniteSet({x}) /\ \A y \in {x} : f[y] \in Int
  BY FS_Singleton
<1>2. Bank!SumFunctionOnSet(f, {x}) = f[x] + Bank!SumFunctionOnSet(f, {x} \ {x})
  BY <1>1, BankSumRemove
<1>3. {x} \ {x} = {}
  OBVIOUS
<1> QED
  BY <1>2, <1>3, BankSumEmpty

(* The slots of an activity that a calculation counts, and those of them   *)
(* in a month.                                                             *)
BankSlotsOf(a, start, reference) ==
  Bank!GreaterOf(a.from, start) .. Bank!LesserOf(a.to, reference) - 1
BankSlotsIn(a, start, reference, m) ==
  {s \in BankSlotsOf(a, start, reference) : Bank!MonthIndexOf(s) = m}

LEMMA BankSlotsAre ==
  ASSUME Bank!WallClockAssumption, NEW from \in 0..Bank!Horizon, NEW to \in 0..Bank!Horizon,
         NEW m \in Int
  PROVE  LET S == {s \in from..(to - 1) : Bank!MonthIndexOf(s) = m}
         IN IsFiniteSet(S) /\ Cardinality(S) = Bank!Clipped(from, to, Bank!MonthBounds(m))
<1> DEFINE S == {s \in from..(to - 1) : Bank!MonthIndexOf(s) = m}
           p == Bank!GreaterOf(from, Bank!StartOfMonth(m))
           q == Bank!LesserOf(to, Bank!StartOfMonth(m + 1)) - 1
<1>1. Bank!Horizon \in Nat /\ from \in Nat /\ to \in Nat
  BY BankHorizonIs
<1>2. Bank!StartOfMonth(m) \in Int /\ Bank!StartOfMonth(m + 1) \in Int
        /\ Bank!StartOfMonth(m) < Bank!StartOfMonth(m + 1)
  <2>1. m + 1 \in Int
    OBVIOUS
  <2>2. Bank!StartOfMonth(m) \in Int /\ Bank!StartOfMonth(m + 1) >= Bank!StartOfMonth(m) + 28
    BY BankStartIs
  <2>3. Bank!StartOfMonth(m + 1) \in Int
    BY <2>1, BankStartIs
  <2> QED
    BY <2>2, <2>3
<1>3. \A s \in from..(to - 1) :
        Bank!MonthIndexOf(s) = m <=> Bank!StartOfMonth(m) <= s /\ s < Bank!StartOfMonth(m + 1)
  <2> SUFFICES ASSUME NEW s \in from..(to - 1)
               PROVE  Bank!MonthIndexOf(s) = m
                        <=> Bank!StartOfMonth(m) <= s /\ s < Bank!StartOfMonth(m + 1)
    OBVIOUS
  <2>1. s \in Nat
    BY <1>1
  <2> QED
    BY <2>1, BankMonthIndexIs, BankMonthUnique
<1>4. S = p..q /\ p \in Int /\ q \in Int
  <2>1. p \in Int /\ q \in Int
    BY <1>1, <1>2 DEF Bank!GreaterOf, Bank!LesserOf
  <2>2. \A s \in Int :
          s \in from..(to - 1) /\ Bank!StartOfMonth(m) <= s /\ s < Bank!StartOfMonth(m + 1)
                         <=> p <= s /\ s <= q
    BY <1>1, <1>2 DEF Bank!GreaterOf, Bank!LesserOf
  <2>3. \A s : s \in S
          <=> s \in from..(to - 1) /\ Bank!StartOfMonth(m) <= s /\ s < Bank!StartOfMonth(m + 1)
    BY <1>3
  <2>4. \A s : s \in from..(to - 1) => s \in Int
    BY <1>1
  <2> HIDE DEF S, p, q
  <2>5. S \subseteq p..q
    BY <2>1, <2>2, <2>3, <2>4
  <2>6. p..q \subseteq S
    BY <2>1, <2>2, <2>3
  <2> QED
    BY <2>1, <2>5, <2>6
<1>5. Bank!Clipped(from, to, Bank!MonthBounds(m)) = IF p > q THEN 0 ELSE q - p + 1
  BY <1>1, <1>2 DEF Bank!Clipped, Bank!MonthBounds, Bank!GreaterOf, Bank!LesserOf
<1> HIDE DEF p, q, S
<1>6. IsFiniteSet(p..q) /\ Cardinality(p..q) = IF p > q THEN 0 ELSE q - p + 1
  BY <1>4, FS_Interval
<1>7. IsFiniteSet(S) /\ Cardinality(S) = Bank!Clipped(from, to, Bank!MonthBounds(m))
  BY <1>4, <1>5, <1>6
<1> QED
  BY <1>7 DEF S

(* What an activity adds to a month is the number of its slots there.      *)
LEMMA BankShareCounts ==
  ASSUME Bank!WallClockAssumption, NEW start \in 0..Bank!Horizon, NEW reference \in 0..Bank!Horizon,
         NEW m \in Int,
         NEW a, a.from \in 0..Bank!Horizon, a.to \in 0..Bank!Horizon
  PROVE  /\ IsFiniteSet(BankSlotsIn(a, start, reference, m))
         /\ Bank!Share(a, m, start, reference) = Cardinality(BankSlotsIn(a, start, reference, m))
<1> DEFINE from == Bank!GreaterOf(a.from, start)
           to == Bank!LesserOf(a.to, reference)
<1>1. from \in 0..Bank!Horizon /\ to \in 0..Bank!Horizon
  BY BankHorizonIs DEF Bank!GreaterOf, Bank!LesserOf
<1>2. BankSlotsIn(a, start, reference, m) = {s \in from..(to - 1) : Bank!MonthIndexOf(s) = m}
  BY DEF BankSlotsIn, BankSlotsOf
<1>3. a.to <= start \/ a.from >= reference => BankSlotsIn(a, start, reference, m) = {}
  <2>1. a.to <= start \/ a.from >= reference => ~(from <= to - 1)
    BY BankHorizonIs DEF Bank!GreaterOf, Bank!LesserOf
  <2>2. ~(from <= to - 1) => from..(to - 1) = {}
    BY <1>1, BankHorizonIs
  <2> QED
    BY <1>2, <2>1, <2>2
<1>4. Bank!Share(a, m, start, reference) =
        IF a.to <= start \/ a.from >= reference THEN 0
        ELSE Bank!SumFunction([s \in {t \in Bank!Segments(from, to) : t.month = m} |-> s.slots])
  BY DEF Bank!Share
<1> HIDE DEF from, to
<1>5. /\ IsFiniteSet(BankSlotsIn(a, start, reference, m))
      /\ Cardinality(BankSlotsIn(a, start, reference, m))
           = Bank!Clipped(from, to, Bank!MonthBounds(m))
  BY <1>1, <1>2, BankSlotsAre
<1>6. Bank!SumFunction([s \in {t \in Bank!Segments(from, to) : t.month = m} |-> s.slots])
        = Bank!Clipped(from, to, Bank!MonthBounds(m))
  <2> DEFINE P == BankPartOf(from, to, m)
             f == [s \in P |-> s.slots]
  <2>1. {t \in Bank!Segments(from, to) : t.month = m} = P
    BY <1>1, BankSegmentsOfMonth
  <2>2. Bank!SumFunction([s \in {t \in Bank!Segments(from, to) : t.month = m} |-> s.slots])
          = Bank!SumFunctionOnSet(f, P)
    <3>1. DOMAIN f = P /\ [s \in {t \in Bank!Segments(from, to) : t.month = m} |-> s.slots] = f
      BY <2>1
    <3> QED
      BY <3>1 DEF Bank!SumFunction
  <2>3. Bank!Clipped(from, to, Bank!MonthBounds(m)) \in Int
    <3>1. Cardinality(BankSlotsIn(a, start, reference, m)) \in Nat
      BY <1>5, FS_CardinalityType
    <3> QED
      BY <1>5, <3>1
  <2>4. CASE Bank!Clipped(from, to, Bank!MonthBounds(m)) = 0
    <3>1. P = {}
      BY <2>4 DEF BankPartOf
    <3> HIDE DEF P, f
    <3> QED
      BY <2>2, <2>4, <3>1, BankSumEmpty
  <2>5. CASE Bank!Clipped(from, to, Bank!MonthBounds(m)) # 0
    <3> DEFINE c == Bank!Clipped(from, to, Bank!MonthBounds(m))
               x == [month |-> m, slots |-> c]
    <3>1. P = {x} /\ x.slots = c
      BY <2>5 DEF BankPartOf
    <3>2. f[x] = c
      BY <3>1
    <3> HIDE DEF P, f, x
    <3>3. f[x] \in Int
      BY <2>3, <3>2
    <3>4. Bank!SumFunctionOnSet(f, {x}) = f[x]
      BY <3>3, BankSumOfOne
    <3> QED
      BY <2>2, <3>1, <3>2, <3>4
  <2> QED
    BY <2>4, <2>5
<1> QED
  <2>1. a.to <= start \/ a.from >= reference => Cardinality(BankSlotsIn(a, start, reference, m)) = 0
    BY <1>3, FS_EmptySet
  <2> QED
    BY <1>4, <1>5, <1>6, <2>1

(* What the calculation adds up for a month is the number of slots worked  *)
(* in it.                                                                  *)
BankInMonth(acts, start, reference, m) ==
  {x \in Bank!WorkedSlots(acts, [from |-> start, to |-> reference]) : Bank!MonthIndexOf(x[2]) = m}

LEMMA BankWorkedAre ==
  ASSUME Bank!WallClockAssumption, NEW start \in 0..Bank!Horizon, NEW reference \in 0..Bank!Horizon,
         NEW acts, IsFiniteSet(acts), \A a \in acts :
           a.from \in 0..Bank!Horizon /\ a.to \in 0..Bank!Horizon
  PROVE  LET W == Bank!WorkedSlots(acts, [from |-> start, to |-> reference])
         IN /\ IsFiniteSet(W)
            /\ \A x : x \in W
                 <=> \E a \in acts : \E s \in BankSlotsOf(a, start, reference) : x = <<a, s>>
            /\ \A x \in W : /\ x[1] \in acts /\ x[2] \in BankSlotsOf(x[1], start, reference)
                            /\ x = <<x[1], x[2]>>
                            /\ x[2] \in Nat /\ start <= x[2] /\ x[2] < reference
<1> DEFINE W == Bank!WorkedSlots(acts, [from |-> start, to |-> reference])
<1>1. \A x : x \in W <=> \E a \in acts : \E s \in BankSlotsOf(a, start, reference) : x = <<a, s>>
  BY DEF Bank!WorkedSlots, BankSlotsOf
<1>2. \A a \in acts : \A s \in BankSlotsOf(a, start, reference) :
        s \in 0..Bank!Horizon /\ s \in Nat /\ start <= s /\ s < reference
  BY BankHorizonIs DEF BankSlotsOf, Bank!GreaterOf, Bank!LesserOf
<1> HIDE DEF W
<1>3. W \subseteq acts \X (0..Bank!Horizon)
  BY <1>1, <1>2
<1>4. IsFiniteSet(W)
  <2>1. 0 \in Int /\ Bank!Horizon \in Int
    BY BankHorizonIs
  <2>2. IsFiniteSet(0..Bank!Horizon)
    BY <2>1, FS_Interval
  <2>3. IsFiniteSet(acts \X (0..Bank!Horizon))
    BY <2>2, FS_Product
  <2> QED
    BY <1>3, <2>3, FS_Subset
<1>5. \A x \in W : /\ x[1] \in acts /\ x[2] \in BankSlotsOf(x[1], start, reference)
                   /\ x = <<x[1], x[2]>>
                   /\ x[2] \in Nat /\ start <= x[2] /\ x[2] < reference
  <2> SUFFICES ASSUME NEW x \in W
               PROVE  /\ x[1] \in acts /\ x[2] \in BankSlotsOf(x[1], start, reference)
                      /\ x = <<x[1], x[2]>>
                      /\ x[2] \in Nat /\ start <= x[2] /\ x[2] < reference
    OBVIOUS
  <2>1. PICK a \in acts : \E s \in BankSlotsOf(a, start, reference) : x = <<a, s>>
    BY <1>1
  <2>2. PICK s \in BankSlotsOf(a, start, reference) : x = <<a, s>>
    BY <2>1
  <2>3. x[1] = a /\ x[2] = s
    BY <2>2
  <2> QED
    BY <1>2, <2>2, <2>3
<1> QED
  BY <1>1, <1>4, <1>5 DEF W

LEMMA BankConsumedCounts ==
  ASSUME Bank!WallClockAssumption, NEW start \in 0..Bank!Horizon, NEW reference \in 0..Bank!Horizon,
         NEW m \in Int,
         NEW acts, IsFiniteSet(acts), \A a \in acts :
           a.from \in 0..Bank!Horizon /\ a.to \in 0..Bank!Horizon
  PROVE  /\ IsFiniteSet(BankInMonth(acts, start, reference, m))
         /\ Bank!Consumed(acts, m, start, reference)
              = Cardinality(BankInMonth(acts, start, reference, m))
<1> DEFINE W == BankInMonth(acts, start, reference, m)
           V == Bank!WorkedSlots(acts, [from |-> start, to |-> reference])
           k == [x \in W |-> x[1]]
           at == [a \in acts |-> {x \in W : k[x] = a}]
           g == [a \in acts |-> Bank!Share(a, m, start, reference)]
<1>1. /\ IsFiniteSet(V)
      /\ \A x : x \in V <=> \E a \in acts : \E s \in BankSlotsOf(a, start, reference) : x = <<a, s>>
      /\ \A x \in V : /\ x[1] \in acts /\ x[2] \in BankSlotsOf(x[1], start, reference)
                      /\ x = <<x[1], x[2]>>
  BY BankWorkedAre
<1>2. W = {x \in V : Bank!MonthIndexOf(x[2]) = m}
  BY DEF BankInMonth
<1> HIDE DEF V, W
<1>3. IsFiniteSet(W) /\ W \in SUBSET V
  <2>1. W \in SUBSET V
    BY <1>2
  <2> QED
    BY <1>1, <2>1, FS_Subset
<1>4. \A x \in W : k[x] \in acts
  BY <1>1, <1>3
<1>5. ASSUME NEW a \in acts
      PROVE  g[a] = Cardinality(at[a])
  <2> DEFINE S == BankSlotsIn(a, start, reference, m)
  <2>1. S = {s \in BankSlotsOf(a, start, reference) : Bank!MonthIndexOf(s) = m}
    BY DEF BankSlotsIn
  <2>2. g[a] = Bank!Share(a, m, start, reference)
    OBVIOUS
  <2>3. at[a] = {x \in W : x[1] = a}
    OBVIOUS
  <2> HIDE DEF S, g, at
  <2>4. at[a] \subseteq {a} \X S
    <3> SUFFICES ASSUME NEW x \in W, x[1] = a
                 PROVE  x \in {a} \X S
      BY <2>3
    <3>1. x \in V /\ Bank!MonthIndexOf(x[2]) = m
      BY <1>2
    <3>2. x = <<a, x[2]>> /\ x[2] \in BankSlotsOf(a, start, reference)
      BY <1>1, <3>1
    <3>3. x[2] \in S
      BY <2>1, <3>1, <3>2
    <3> QED
      BY <3>2, <3>3
  <2>5. {a} \X S \subseteq at[a]
    <3> SUFFICES ASSUME NEW s \in S
                 PROVE  <<a, s>> \in at[a]
      OBVIOUS
    <3> DEFINE x == <<a, s>>
    <3>1. s \in BankSlotsOf(a, start, reference) /\ Bank!MonthIndexOf(s) = m /\ x[1] = a /\ x[2] = s
      BY <2>1
    <3> HIDE DEF x
    <3>2. x = <<a, s>>
      BY DEF x
    <3>3. x \in V
      BY <1>1, <3>1, <3>2
    <3>4. x \in W
      BY <1>2, <3>1, <3>3
    <3> QED
      BY <2>3, <3>1, <3>2, <3>4
  <2>6. at[a] = {a} \X S
    BY <2>4, <2>5
  <2>7. a.from \in 0..Bank!Horizon /\ a.to \in 0..Bank!Horizon
    OBVIOUS
  <2>8. IsFiniteSet(S) /\ Bank!Share(a, m, start, reference) = Cardinality(S)
    BY <2>7, BankShareCounts DEF S
  <2>9. Cardinality({a} \X S) = Cardinality(S)
    BY <2>8, BankPairsCount
  <2> QED
    BY <2>2, <2>6, <2>8, <2>9
<1>6. Bank!Consumed(acts, m, start, reference) = Bank!SumFunctionOnSet(g, acts)
  <2>1. DOMAIN g = acts
    OBVIOUS
  <2> QED
    BY <2>1 DEF Bank!Consumed, Bank!SumFunction
<1>7. \A a \in acts : at[a] = {x \in W : k[x] = a}
  OBVIOUS
<1> HIDE DEF g, k, at
<1>8. \A a \in acts : g[a] = Cardinality(at[a])
  BY <1>5
<1>9. Bank!SumFunctionOnSet(g, acts) = Cardinality(W)
  BY <1>3, <1>4, <1>7, <1>8, BankCountByKey
<1> QED
  BY <1>3, <1>6, <1>9 DEF W

LEMMA BankFranchiseIs ==
  ASSUME DefaultAllowance \in Nat, NEW raw \in {Junk} \cup Int
  PROVE  Bank!Franchise(raw) \in Nat
BY DEF Bank!Franchise, Bank!GreaterOf

(* The balance of a calculation, counted slot by slot.                     *)
LEMMA BankCounts ==
  ASSUME Bank!WallClockAssumption, NEW reference \in 0..Bank!Horizon, NEW date,
         Bank!CycleStart(date, reference) \in 0..Bank!Horizon, Bank!CycleStart(date, reference)
           <= reference,
         DefaultAllowance \in Nat, NEW raw \in {Junk} \cup Int,
         NEW acts, IsFiniteSet(acts), \A a \in acts :
           a.from \in 0..Bank!Horizon /\ a.to \in 0..Bank!Horizon,
         NEW pays, IsFiniteSet(pays), \A p \in pays : p.slots \in Nat
  PROVE  LET b == Bank!Bank(acts, pays, date, raw, reference)
             slots == Bank!WorkedSlots(acts,
               [from |-> Bank!CycleStart(date, reference), to |-> reference])
             months == {Bank!MonthIndexOf(x[2]) : x \in slots}
             in(m) == Bank!Cardinality({x \in slots : Bank!MonthIndexOf(x[2]) = m})
         IN /\ b.total = Bank!Cardinality(slots)
            /\ b.gross = Bank!SumFunction([m \in months |->
                 Bank!GreaterOf(in(m) - Bank!Franchise(raw), 0)])
            /\ b.net + b.paid = Bank!GreaterOf(b.gross, b.paid)
<1> DEFINE start == Bank!CycleStart(date, reference)
           W == Bank!WorkedSlots(acts, [from |-> start, to |-> reference])
           ms == Bank!CycleMonths(start, reference)
           F == Bank!Franchise(raw)
           used == [m \in ms |-> Bank!Consumed(acts, m, start, reference)]
           due == [m \in ms |-> Bank!GreaterOf(used[m] - F, 0)]
           gross == Bank!SumFunction(due)
           settled == Bank!PaidInCycle(pays, start, reference)
           months == {Bank!MonthIndexOf(x[2]) : x \in W}
           counted == [m \in months |->
                         Bank!GreaterOf(Cardinality({x \in W : Bank!MonthIndexOf(x[2]) = m})
                           - F, 0)]
           k == [x \in W |-> Bank!MonthIndexOf(x[2])]
           at == [m \in ms |-> BankInMonth(acts, start, reference, m)]
<1>1. /\ Bank!Bank(acts, pays, date, raw, reference).total = Bank!SumFunction(used)
      /\ Bank!Bank(acts, pays, date, raw, reference).gross = gross
      /\ Bank!Bank(acts, pays, date, raw, reference).paid = settled
      /\ Bank!Bank(acts, pays, date, raw, reference).net = Bank!GreaterOf(gross - settled, 0)
  BY DEF Bank!Bank
<1>2. start \in 0..Bank!Horizon /\ start <= reference /\ start \in Nat /\ reference \in Nat
        /\ F \in Nat
  BY BankHorizonIs, BankFranchiseIs
<1> HIDE DEF start, F
<1>3. /\ IsFiniteSet(W)
      /\ \A x \in W : x[2] \in Nat /\ start <= x[2] /\ x[2] < reference
  BY <1>2, BankWorkedAre
<1>4. ms \subseteq Int /\ IsFiniteSet(ms)
  <2>1. Bank!MonthIndexOf(start) \in Int /\ Bank!MonthIndexOf(reference) \in Int
    BY <1>2, BankMonthIndexIs
  <2>2. IsFiniteSet(Bank!MonthIndexOf(start) .. Bank!MonthIndexOf(reference))
    BY <2>1, FS_Interval
  <2> QED
    BY <2>1, <2>2 DEF Bank!CycleMonths
<1>5. \A x \in W : k[x] \in ms
  <2> SUFFICES ASSUME NEW x \in W
               PROVE  Bank!MonthIndexOf(x[2]) \in ms
    OBVIOUS
  <2>1. x[2] \in Nat /\ start <= x[2] /\ x[2] <= reference
    BY <1>2, <1>3
  <2>2. Bank!MonthIndexOf(start) <= Bank!MonthIndexOf(x[2])
          /\ Bank!MonthIndexOf(x[2]) <= Bank!MonthIndexOf(reference)
    BY <1>2, <2>1, BankMonthsInOrder
  <2>3. Bank!MonthIndexOf(start) \in Int /\ Bank!MonthIndexOf(reference) \in Int
          /\ Bank!MonthIndexOf(x[2]) \in Int
    BY <1>2, <2>1, BankMonthIndexIs
  <2> QED
    BY <2>2, <2>3 DEF Bank!CycleMonths
<1>6. \A m \in ms : at[m] = {x \in W : k[x] = m}
  BY DEF BankInMonth
<1>7. \A m \in ms : used[m] = Cardinality(at[m]) /\ IsFiniteSet(at[m])
  <2> SUFFICES ASSUME NEW m \in ms
               PROVE  used[m] = Cardinality(at[m]) /\ IsFiniteSet(at[m])
    OBVIOUS
  <2>1. m \in Int
    BY <1>4
  <2>2. used[m] = Bank!Consumed(acts, m, start, reference)
          /\ at[m] = BankInMonth(acts, start, reference, m)
    OBVIOUS
  <2> HIDE DEF used, at, ms
  <2>3. /\ IsFiniteSet(BankInMonth(acts, start, reference, m))
        /\ Bank!Consumed(acts, m, start, reference)
             = Cardinality(BankInMonth(acts, start, reference, m))
    BY <1>2, <2>1, BankConsumedCounts
  <2> QED
    BY <2>2, <2>3
<1>8. Bank!SumFunction(used) = Cardinality(W)
  <2>1. Bank!SumFunction(used) = Bank!SumFunctionOnSet(used, ms)
    <3>1. DOMAIN used = ms
      OBVIOUS
    <3> QED
      BY <3>1 DEF Bank!SumFunction
  <2> HIDE DEF W, k, ms, at, used, due, gross, settled, months, counted
  <2>2. \A m \in ms : used[m] = Cardinality(at[m])
    BY <1>7
  <2>3. IsFiniteSet(W) /\ IsFiniteSet(ms)
    BY <1>3, <1>4
  <2>4. Bank!SumFunctionOnSet(used, ms) = Cardinality(W)
    BY ONLY <1>5, <1>6, <2>2, <2>3, BankCountByKey
  <2> QED
    BY <2>1, <2>4
(* A month with no slot owes nothing.                                      *)
<1>9. gross = Bank!SumFunction(counted)
  <2>1. gross = Bank!SumFunctionOnSet(due, ms)
          /\ Bank!SumFunction(counted) = Bank!SumFunctionOnSet(counted, months)
    <3>1. DOMAIN due = ms /\ DOMAIN counted = months
      OBVIOUS
    <3> QED
      BY <3>1 DEF Bank!SumFunction
  <2>2. \A m \in ms : due[m] = Bank!GreaterOf(used[m] - F, 0)
    OBVIOUS
  <2>3. months \in SUBSET ms
    BY <1>5
  <2>4. \A m \in months :
          counted[m] = Bank!GreaterOf(Cardinality({x \in W : Bank!MonthIndexOf(x[2]) = m}) - F, 0)
    OBVIOUS
  <2>5. \A m \in ms : at[m] = {x \in W : Bank!MonthIndexOf(x[2]) = m}
    BY DEF BankInMonth
  <2>6. \A m \in ms : m \notin months => at[m] = {}
    BY <2>5
  <2> HIDE DEF W, k, ms, at, used, due, counted, months, gross
  <2>7. \A m \in ms : used[m] \in Nat /\ due[m] \in Nat
    <3>1. \A m \in ms : used[m] \in Nat
      BY <1>7, FS_CardinalityType
    <3> QED
      BY <1>2, <2>2, <3>1 DEF Bank!GreaterOf
  <2>8. \A m \in ms \ months : due[m] = 0
    <3> SUFFICES ASSUME NEW m \in ms \ months
                 PROVE  due[m] = 0
      OBVIOUS
    <3>1. used[m] = 0
      <4>1. Cardinality(at[m]) = 0
        BY <2>6, FS_EmptySet
      <4> QED
        BY <1>7, <4>1
    <3> QED
      BY <1>2, <2>2, <3>1 DEF Bank!GreaterOf
  <2>9. Bank!SumFunctionOnSet(due, months) = Bank!SumFunctionOnSet(due, ms)
    BY <1>4, <2>3, <2>7, <2>8, BankSumOfPart
  <2>10. IsFiniteSet(months)
    BY <1>4, <2>3, FS_Subset
  <2>11. \A m \in months : due[m] \in Int /\ counted[m] = due[m]
    <3> SUFFICES ASSUME NEW m \in months
                 PROVE  due[m] \in Int /\ counted[m] = due[m]
      OBVIOUS
    <3>1. m \in ms
      BY <2>3
    <3>2. at[m] = {x \in W : Bank!MonthIndexOf(x[2]) = m} /\ used[m] = Cardinality(at[m])
      BY <1>7, <2>5, <3>1
    <3>3. counted[m] = Bank!GreaterOf(Cardinality(at[m]) - F, 0)
      BY <2>4, <3>2
    <3> QED
      BY <2>2, <2>7, <3>1, <3>2, <3>3
  <2>12. Bank!SumFunctionOnSet(counted, months) = Bank!SumFunctionOnSet(due, months)
    BY <2>10, <2>11, BankSumSame
  <2> QED
    BY <2>1, <2>9, <2>12
<1>10. gross \in Int
  <2>1. \A m \in ms : due[m] \in Int
    <3> SUFFICES ASSUME NEW m \in ms
                 PROVE  Bank!GreaterOf(used[m] - F, 0) \in Int
      OBVIOUS
    <3>1. used[m] \in Nat
      <4> HIDE DEF used, at
      <4> QED
        BY <1>7, FS_CardinalityType
    <3> HIDE DEF used
    <3> QED
      BY <1>2, <3>1 DEF Bank!GreaterOf
  <2>2. gross = Bank!SumFunctionOnSet(due, ms)
    <3>1. DOMAIN due = ms
      OBVIOUS
    <3> QED
      BY <3>1 DEF Bank!SumFunction
  <2> HIDE DEF ms, due, gross
  <2>3. Bank!SumFunctionOnSet(due, ms) \in Int
    BY <1>4, <2>1, BankSumWhole
  <2> QED
    BY <2>2, <2>3
<1>11. settled \in Int
  <2> DEFINE P == {p \in pays :
               Bank!DayNumber(start) <= p.day /\ p.day <= Bank!DayNumber(reference)}
             g == [p \in P |-> p.slots]
  <2>1. settled = Bank!SumFunctionOnSet(g, P)
    <3>1. DOMAIN g = P
      OBVIOUS
    <3> QED
      BY <3>1 DEF Bank!PaidInCycle, Bank!SumFunction
  <2>2. P \in SUBSET pays /\ \A p \in P : g[p] \in Int
    OBVIOUS
  <2> HIDE DEF P, g
  <2>3. IsFiniteSet(P)
    BY <2>2, FS_Subset
  <2> QED
    BY <2>1, <2>2, <2>3, BankSumWhole
<1>12. Bank!GreaterOf(gross - settled, 0) + settled = Bank!GreaterOf(gross, settled)
  <2> HIDE DEF gross, settled
  <2> QED
    BY <1>10, <1>11 DEF Bank!GreaterOf
<1>13. counted =
          [m \in months |->
             Bank!GreaterOf(Bank!Cardinality({x \in W : Bank!MonthIndexOf(x[2]) = m})
               - Bank!Franchise(raw), 0)]
  <2>1. \A m \in months :
          Bank!GreaterOf(Cardinality({x \in W : Bank!MonthIndexOf(x[2]) = m}) - F, 0)
            = Bank!GreaterOf(Bank!Cardinality({x \in W : Bank!MonthIndexOf(x[2]) = m})
              - Bank!Franchise(raw), 0)
    BY BankCardinality DEF F
  <2> HIDE DEF months, W, F
  <2> QED
    BY <2>1
<1>14. W = Bank!WorkedSlots(acts, [from |-> Bank!CycleStart(date, reference), to |-> reference])
  BY DEF start
<1> HIDE DEF gross, settled, used, counted, W, months
<1>15. Bank!SumFunction(used) = Bank!Cardinality(W)
  BY <1>8, BankCardinality
<1> QED
  BY <1>1, <1>9, <1>12, <1>13, <1>14, <1>15 DEF months

(* The queries.                                                            *)

LEMMA BankScopeIs ==
  ASSUME Bank!HoursBankAssumption, v1 \subseteq BankActivities, NEW viewer
  PROVE  /\ IsFiniteSet(v1) /\ IsFiniteSet(Bank!InScope(viewer))
         /\ Bank!InScope(viewer) \subseteq v1
         /\ \A a \in v1 : /\ a.from \in 0..Bank!Horizon /\ a.to \in 0..Bank!Horizon
                              /\ a.client \in BankViewers \ {everyone}
         /\ Bank!WallClockAssumption /\ IsFiniteSet(BankViewers) /\ DefaultAllowance \in Nat
<1>1. /\ IsFiniteSet(BankActivities) /\ Bank!WallClockAssumption /\ IsFiniteSet(BankViewers)
      /\ DefaultAllowance \in Nat
      /\ \A a \in BankActivities : /\ a.from \in 0..Bank!Horizon /\ a.to \in 0..Bank!Horizon
                               /\ a.client \in BankViewers \ {everyone}
  BY BankFinite DEF Bank!HoursBankAssumption
<1>2. IsFiniteSet(v1)
  BY <1>1, FS_Subset
<1>3. Bank!InScope(viewer) \in SUBSET v1
  BY DEF Bank!InScope
<1>4. IsFiniteSet(Bank!InScope(viewer))
  BY <1>2, <1>3, FS_Subset
<1> QED
  BY <1>1, <1>2, <1>3, <1>4

LEMMA BankClippedIs ==
  ASSUME Bank!WallClockAssumption, NEW m \in Int, NEW from \in 0..Bank!Horizon,
         NEW to \in 0..Bank!Horizon
  PROVE  Bank!Clipped(from, to, Bank!MonthBounds(m)) \in Nat
<1>1. m + 1 \in Int
  OBVIOUS
<1>2. Bank!StartOfMonth(m) \in Int /\ Bank!StartOfMonth(m + 1) \in Int
  BY <1>1, BankStartIs
<1> QED
  BY <1>2, BankHorizonIs DEF Bank!Clipped, Bank!MonthBounds, Bank!GreaterOf, Bank!LesserOf

(* The hours of a part of some activities are no more than theirs, and     *)
(* those of all are the sum over the clients.                              *)
LEMMA BankHoursOfPart ==
  ASSUME Bank!HoursBankAssumption, v1 \subseteq BankActivities, NEW m \in Int,
         NEW S \in SUBSET v1, NEW P \in SUBSET S
  PROVE  /\ Bank!Hours(S, Bank!MonthBounds(m)) \in Nat /\ Bank!Hours(P, Bank!MonthBounds(m)) \in Nat
         /\ Bank!Hours(P, Bank!MonthBounds(m)) <= Bank!Hours(S, Bank!MonthBounds(m))
         /\ Bank!Hours(P, Bank!MonthBounds(m)) =
              Bank!SumFunctionOnSet([a \in S |-> Bank!Clipped(a.from, a.to, Bank!MonthBounds(m))],
                P)
<1> DEFINE f == [a \in S |-> Bank!Clipped(a.from, a.to, Bank!MonthBounds(m))]
           g == [a \in P |-> Bank!Clipped(a.from, a.to, Bank!MonthBounds(m))]
<1>1. /\ IsFiniteSet(v1) /\ Bank!WallClockAssumption
      /\ \A a \in v1 : a.from \in 0..Bank!Horizon /\ a.to \in 0..Bank!Horizon
  BY BankScopeIs
<1>2. IsFiniteSet(S) /\ IsFiniteSet(P)
  <2>1. IsFiniteSet(S)
    BY <1>1, FS_Subset
  <2> QED
    BY <2>1, FS_Subset
<1>3. \A a \in S : f[a] \in Nat
  <2> SUFFICES ASSUME NEW a \in S
               PROVE  Bank!Clipped(a.from, a.to, Bank!MonthBounds(m)) \in Nat
    OBVIOUS
  <2>1. a.from \in 0..Bank!Horizon /\ a.to \in 0..Bank!Horizon
    BY <1>1
  <2> QED
    BY <1>1, <2>1, BankClippedIs
<1>4. \A a \in P : g[a] = f[a]
  OBVIOUS
<1>5. Bank!Hours(S, Bank!MonthBounds(m)) = Bank!SumFunctionOnSet(f, S)
        /\ Bank!Hours(P, Bank!MonthBounds(m)) = Bank!SumFunctionOnSet(g, P)
  <2>1. DOMAIN f = S /\ DOMAIN g = P
    OBVIOUS
  <2> QED
    BY <2>1 DEF Bank!Hours, Bank!SumFunction
<1> HIDE DEF f, g
<1>6. Bank!SumFunctionOnSet(g, P) = Bank!SumFunctionOnSet(f, P)
  <2>1. \A a \in P : f[a] \in Int /\ g[a] = f[a]
    BY <1>3, <1>4
  <2> QED
    BY <1>2, <2>1, BankSumSame
<1>7. /\ Bank!SumFunctionOnSet(f, S) \in Nat /\ Bank!SumFunctionOnSet(f, P) \in Nat
      /\ Bank!SumFunctionOnSet(f, P) <= Bank!SumFunctionOnSet(f, S)
  BY <1>2, <1>3, BankSumOfPart
<1> QED
  BY <1>5, <1>6, <1>7 DEF f

LEMMA BankTouchingIs ==
  ASSUME NEW viewer, NEW window
  PROVE  /\ Bank!Touching(Bank!InScope(viewer), window) \in SUBSET v1
         /\ Bank!Touching(v1, window) \in SUBSET v1
BY DEF Bank!Touching, Bank!InScope

LEMMA BankPeriodIs ==
  ASSUME Bank!HoursBankAssumption, v1 \subseteq BankActivities, NEW viewer, NEW m \in Int
  PROVE  /\ Bank!PeriodHours(viewer, m) \in Nat /\ Bank!ExternalHours(viewer, m) \in Nat
         /\ Bank!ExternalHours(viewer, m) <= Bank!PeriodHours(viewer, m)
<1> DEFINE S == Bank!Touching(Bank!InScope(viewer), Bank!MonthBounds(m))
           P == {a \in S : a.born < Bank!StartOfMonth(m) \/ a.born >= Bank!StartOfMonth(m + 1)}
<1>1. S \in SUBSET v1 /\ P \in SUBSET S
  BY BankTouchingIs
<1>2. Bank!PeriodHours(viewer, m) = Bank!Hours(S, Bank!MonthBounds(m))
        /\ Bank!ExternalHours(viewer, m) = Bank!Hours(P, Bank!MonthBounds(m))
  BY DEF Bank!PeriodHours, Bank!ExternalHours
<1> HIDE DEF S, P
<1> QED
  BY <1>1, <1>2, BankHoursOfPart

LEMMA BankClientsAddUp ==
  ASSUME Bank!HoursBankAssumption, v1 \subseteq BankActivities, NEW m \in Int
  PROVE  Bank!SumFunction([v \in BankViewers \ {everyone} |-> Bank!PeriodHours(v, m)])
           = Bank!PeriodHours(everyone, m)
<1> DEFINE W == Bank!Touching(v1, Bank!MonthBounds(m))
           f == [a \in W |-> Bank!Clipped(a.from, a.to, Bank!MonthBounds(m))]
           k == [a \in W |-> a.client]
           M == BankViewers \ {everyone}
           at == [v \in M |-> {a \in W : k[a] = v}]
           g == [v \in M |-> Bank!PeriodHours(v, m)]
<1>1. /\ IsFiniteSet(v1) /\ Bank!WallClockAssumption /\ IsFiniteSet(BankViewers)
      /\ \A a \in v1 : /\ a.from \in 0..Bank!Horizon /\ a.to \in 0..Bank!Horizon
                           /\ a.client \in BankViewers \ {everyone}
  BY BankScopeIs
<1>2. W \in SUBSET v1
  BY BankTouchingIs
<1>3. IsFiniteSet(W) /\ IsFiniteSet(M)
  <2>1. M \in SUBSET BankViewers
    OBVIOUS
  <2> HIDE DEF W, M
  <2> QED
    BY <1>1, <1>2, <2>1, FS_Subset
<1>4. \A a \in W : k[a] \in M
  BY <1>1, <1>2
<1>5. \A v \in M : at[v] = {a \in W : k[a] = v}
  OBVIOUS
<1>6. \A a \in W : f[a] \in Int
  <2> SUFFICES ASSUME NEW a \in W
               PROVE  Bank!Clipped(a.from, a.to, Bank!MonthBounds(m)) \in Int
    OBVIOUS
  <2>1. a.from \in 0..Bank!Horizon /\ a.to \in 0..Bank!Horizon
    BY <1>1, <1>2
  <2> HIDE DEF W
  <2>2. Bank!Clipped(a.from, a.to, Bank!MonthBounds(m)) \in Nat
    BY <1>1, <2>1, BankClippedIs
  <2> QED
    BY <2>2
<1>7. ASSUME NEW v \in M
      PROVE  g[v] = Bank!SumFunctionOnSet(f, at[v])
  <2>1. at[v] = Bank!Touching(Bank!InScope(v), Bank!MonthBounds(m))
    <3>1. v # everyone
      OBVIOUS
    <3> QED
      BY <3>1 DEF Bank!Touching, Bank!InScope
  <2>2. g[v] = Bank!Hours(at[v], Bank!MonthBounds(m))
    BY <2>1 DEF Bank!PeriodHours
  <2>3. at[v] \in SUBSET W
    OBVIOUS
  <2> HIDE DEF W, at, g, k, M
  <2>4. Bank!Hours(at[v], Bank!MonthBounds(m)) =
          Bank!SumFunctionOnSet([a \in W |-> Bank!Clipped(a.from, a.to, Bank!MonthBounds(m))],
            at[v])
    BY <1>2, <2>3, BankHoursOfPart
  <2> QED
    BY <2>2, <2>4
<1>8. Bank!SumFunction([v \in BankViewers \ {everyone} |-> Bank!PeriodHours(v, m)])
        = Bank!SumFunctionOnSet(g, M)
  <2>1. DOMAIN g = M
    OBVIOUS
  <2> QED
    BY <2>1 DEF Bank!SumFunction
<1>9. Bank!PeriodHours(everyone, m) = Bank!SumFunctionOnSet(f, W)
  <2>1. Bank!InScope(everyone) = v1
    BY DEF Bank!InScope
  <2>2. Bank!PeriodHours(everyone, m) = Bank!Hours(W, Bank!MonthBounds(m))
    BY <2>1 DEF Bank!PeriodHours
  <2>3. DOMAIN f = W
    OBVIOUS
  <2> QED
    BY <2>2, <2>3 DEF Bank!Hours, Bank!SumFunction
<1> HIDE DEF W, f, k, M, at, g
<1>10. \A v \in M : g[v] = Bank!SumFunctionOnSet(f, at[v])
  BY <1>7
<1>11. Bank!SumFunctionOnSet(g, M) = Bank!SumFunctionOnSet(f, W)
  BY ONLY <1>3, <1>4, <1>5, <1>6, <1>10, BankSumByKey
<1> QED
  BY <1>8, <1>9, <1>11

LEMMA BankStateIs ==
  ASSUME Bank!HoursBankAssumption, Bank!IInv
  PROVE  /\ v1 \subseteq BankActivities /\ v2 \subseteq BankPayments
         /\ v3 \in {Junk} \cup Bank!Dates /\ v4 \in {Junk} \cup Int
         /\ v5 \in 0..Bank!Horizon /\ Bank!MonthIndexOf(v5) >= Bank!Half
         /\ Bank!MonthIndexOf(v5) \in Nat /\ Bank!WallClockAssumption
<1>1. [closing |-> v3, allowance |-> v4, now |-> v5] \in BankSettings
  BY DEF Bank!IInv, Bank!TypeOK
<1>2. \A s \in BankSettings :
        /\ s.closing \in {Junk} \cup Bank!Dates /\ s.allowance \in {Junk} \cup Int
                          /\ s.now \in 0..Bank!Horizon /\ Bank!MonthIndexOf(s.now) >= Bank!Half
  BY DEF Bank!HoursBankAssumption
<1>3. /\ v3 \in {Junk} \cup Bank!Dates /\ v4 \in {Junk} \cup Int
      /\ v5 \in 0..Bank!Horizon /\ Bank!MonthIndexOf(v5) >= Bank!Half
  BY <1>1, <1>2
<1>4. Bank!WallClockAssumption
  BY DEF Bank!HoursBankAssumption
<1>5. v5 \in Nat
  BY <1>3, <1>4, BankHorizonIs
<1>6. Bank!MonthIndexOf(v5) \in Nat
  BY <1>4, <1>5, BankMonthIndexIs
<1> QED
  BY <1>3, <1>4, <1>6 DEF Bank!IInv, Bank!TypeOK

LEMMA BankBalanceHolds ==
  ASSUME Bank!HoursBankAssumption, Bank!IInv
  PROVE  Bank!BalanceCountsEachSlot
<1>1. /\ v1 \subseteq BankActivities /\ v2 \subseteq BankPayments
      /\ v3 \in {Junk} \cup Bank!Dates /\ v4 \in {Junk} \cup Int
      /\ v5 \in 0..Bank!Horizon /\ Bank!MonthIndexOf(v5) >= Bank!Half /\ Bank!WallClockAssumption
  BY BankStateIs
<1>2. Bank!CycleStart(v3, v5) \in 0..Bank!Horizon /\ Bank!CycleStart(v3, v5) <= v5
  BY <1>1, BankCycleHolds
<1>3. IsFiniteSet(v2) /\ \A p \in v2 : p.slots \in Nat
  <2>1. IsFiniteSet(BankPayments) /\ \A p \in BankPayments : p.slots \in Nat
    BY BankFinite DEF Bank!HoursBankAssumption
  <2> QED
    BY <1>1, <2>1, FS_Subset
<1> SUFFICES ASSUME NEW v \in BankViewers
             PROVE  LET b == Bank!GetHoursBank(v)
                        slots == Bank!WorkedSlots(Bank!InScope(v),
                          [from |-> Bank!CycleStart(v3, v5), to |-> v5])
                        months == {Bank!MonthIndexOf(x[2]) : x \in slots}
                        in(m) == Bank!Cardinality({x \in slots : Bank!MonthIndexOf(x[2]) = m})
                    IN /\ b.total = Bank!Cardinality(slots)
                       /\ b.gross = Bank!SumFunction([m \in months |->
                            Bank!GreaterOf(in(m) - Bank!Franchise(v4), 0)])
                       /\ b.net + b.paid = Bank!GreaterOf(b.gross, b.paid)
  BY DEF Bank!BalanceCountsEachSlot
<1> DEFINE acts == Bank!InScope(v)
<1>4. /\ IsFiniteSet(acts) /\ DefaultAllowance \in Nat
      /\ \A a \in acts : a.from \in 0..Bank!Horizon /\ a.to \in 0..Bank!Horizon
  BY <1>1, BankScopeIs
<1>5. Bank!GetHoursBank(v) = Bank!Bank(acts, v2, v3, v4, v5)
  BY DEF Bank!GetHoursBank
<1> HIDE DEF acts
<1>6. LET b == Bank!Bank(acts, v2, v3, v4, v5)
          slots == Bank!WorkedSlots(acts, [from |-> Bank!CycleStart(v3, v5), to |-> v5])
          months == {Bank!MonthIndexOf(x[2]) : x \in slots}
          in(m) == Bank!Cardinality({x \in slots : Bank!MonthIndexOf(x[2]) = m})
      IN /\ b.total = Bank!Cardinality(slots)
         /\ b.gross = Bank!SumFunction([m \in months |->
              Bank!GreaterOf(in(m) - Bank!Franchise(v4), 0)])
         /\ b.net + b.paid = Bank!GreaterOf(b.gross, b.paid)
  BY <1>1, <1>2, <1>3, <1>4, BankCounts
<1> QED
  BY <1>5, <1>6 DEF acts

LEMMA BankSummaryHolds ==
  ASSUME Bank!HoursBankAssumption, Bank!IInv
  PROVE  Bank!SummaryAddsUp
<1>1. v1 \subseteq BankActivities /\ v6.month \in Int
  BY DEF Bank!IInv, Bank!TypeOK
<1>2. Bank!SumFunction([v \in BankViewers \ {everyone} |-> Bank!PeriodHours(v, v6.month)])
        = Bank!PeriodHours(everyone, v6.month)
  BY <1>1, BankClientsAddUp
<1>3. v6.pc = "given" /\ ~v6.disturbed => v6.external <= v6.period
  BY DEF Bank!IInv
<1> QED
  BY <1>2, <1>3 DEF Bank!SummaryAddsUp

LEMMA BankInit == Bank!HoursBankAssumption /\ Bank!Init => Bank!IInv
<1> SUFFICES ASSUME Bank!HoursBankAssumption, Bank!Init
             PROVE  Bank!IInv
  OBVIOUS
<1>1. Bank!TypeOK
  <2>1. [closing |-> v3, allowance |-> v4, now |-> v5] \in BankSettings
    <3>1. PICK s \in BankSettings : v3 = s.closing /\ v4 = s.allowance /\ v5 = s.now
      BY DEF Bank!Init
    <3>2. s = [closing |-> s.closing, allowance |-> s.allowance, now |-> s.now]
      BY DEF Bank!HoursBankAssumption
    <3> QED
      BY <3>1, <3>2
  <2> QED
    BY <2>1 DEF Bank!Init, Bank!TypeOK, Bank!NoSummary
<1>2. everyone \in BankViewers
  BY DEF Bank!HoursBankAssumption
<1> QED
  BY <1>1, <1>2 DEF Bank!Init, Bank!IInv, Bank!NoSummary

(* A write between the two queries disturbs the summary; one after them    *)
(* changes nothing of what was given.                                      *)
LEMMA BankDisturbKeeps ==
  ASSUME Bank!IInv, Bank!Disturb, v1' \subseteq BankActivities, v2' \subseteq BankPayments,
         UNCHANGED <<v3, v4, v5>>
  PROVE  Bank!IInv'
<1>1. v6' = [pc |-> v6.pc, viewer |-> v6.viewer, month |-> v6.month,
                  period |-> v6.period, external |-> v6.external,
                  disturbed |-> v6.disturbed \/ v6.pc = "external"]
  BY DEF Bank!Disturb, Bank!IInv
<1>2. (v6.disturbed \/ v6.pc = "external") \in BOOLEAN
  OBVIOUS
<1>3. Bank!TypeOK'
  BY <1>1, <1>2 DEF Bank!IInv, Bank!TypeOK
<1>4. v6' \in [pc : {"none", "external", "given"}, viewer : BankViewers, month : Nat,
                    period : Nat, external : Nat, disturbed : BOOLEAN]
  BY <1>1, <1>2 DEF Bank!IInv
<1>5. ~v6'.disturbed =>
         /\ v6'.pc # "external"
         /\ v6'.pc = "given" => v6'.external <= v6'.period
  BY <1>1 DEF Bank!IInv
<1> QED
  BY <1>3, <1>4, <1>5 DEF Bank!IInv

LEMMA BankAskKeeps ==
  ASSUME Bank!HoursBankAssumption, Bank!IInv, NEW viewer \in BankViewers,
         Bank!AskSummary(viewer, Bank!MonthIndexOf(v5))
  PROVE  Bank!IInv'
<1> DEFINE m == Bank!MonthIndexOf(v5)
<1>1. v1 \subseteq BankActivities /\ m \in Nat
  BY BankStateIs
<1>2. UNCHANGED <<v1, v2, v3, v4, v5>>
  BY DEF Bank!AskSummary
<1>3. v6' = [pc |-> "external", viewer |-> viewer, month |-> m,
                  period |-> Bank!PeriodHours(viewer, m), external |-> 0, disturbed |-> FALSE]
  BY DEF Bank!AskSummary
<1> HIDE DEF m
<1>4. Bank!PeriodHours(viewer, m) \in Nat
  BY <1>1, BankPeriodIs
<1>5. v6'.period = Bank!PeriodHours(viewer, m) /\ v6'.pc = "external" /\ ~v6'.disturbed
      /\ v6'.viewer = viewer /\ v6'.month = m
  BY <1>3
<1>6. Bank!TypeOK'
  BY <1>2, <1>3, <1>4 DEF Bank!IInv, Bank!TypeOK
<1>7. v6' \in [pc : {"none", "external", "given"}, viewer : BankViewers, month : Nat,
                    period : Nat, external : Nat, disturbed : BOOLEAN]
  BY <1>1, <1>3, <1>4
<1>8. Bank!PeriodHours(v6.viewer, v6.month)' = Bank!PeriodHours(viewer, m)
  BY <1>2, <1>5 DEF Bank!PeriodHours, Bank!InScope
<1> QED
  BY <1>5, <1>6, <1>7, <1>8 DEF Bank!IInv

LEMMA BankGiveKeeps ==
  ASSUME Bank!HoursBankAssumption, Bank!IInv, Bank!GiveSummary
  PROVE  Bank!IInv'
<1> DEFINE e == Bank!ExternalHours(v6.viewer, v6.month)
           p == Bank!PeriodHours(v6.viewer, v6.month)
<1>1. v1 \subseteq BankActivities /\ v6.month \in Int
  BY DEF Bank!IInv, Bank!TypeOK
<1>2. UNCHANGED <<v1, v2, v3, v4, v5>>
  BY DEF Bank!GiveSummary
<1>3. v6' = [pc |-> "given", viewer |-> v6.viewer, month |-> v6.month,
                  period |-> v6.period, external |-> e, disturbed |-> v6.disturbed]
  BY DEF Bank!GiveSummary, Bank!IInv
<1>4. ~v6.disturbed => v6.period = p
  BY DEF Bank!GiveSummary, Bank!IInv
<1> HIDE DEF e, p
<1>5. e \in Nat /\ e <= p
  BY <1>1, BankPeriodIs DEF e, p
<1>6. Bank!TypeOK'
  BY <1>2, <1>3, <1>5 DEF Bank!IInv, Bank!TypeOK
<1>7. v6' \in [pc : {"none", "external", "given"}, viewer : BankViewers, month : Nat,
                    period : Nat, external : Nat, disturbed : BOOLEAN]
  BY <1>3, <1>5 DEF Bank!IInv
<1>8. ~v6'.disturbed => v6'.external <= v6'.period /\ v6'.pc = "given"
  BY <1>3, <1>4, <1>5
<1> QED
  BY <1>3, <1>6, <1>7, <1>8 DEF Bank!IInv

LEMMA BankInductive == Bank!HoursBankAssumption /\ Bank!IInv /\ [Bank!Next]_Bank!vars => Bank!IInv'
<1> SUFFICES ASSUME Bank!HoursBankAssumption, Bank!IInv, [Bank!Next]_Bank!vars
             PROVE  Bank!IInv'
  OBVIOUS
<1>1. v1 \subseteq BankActivities /\ v2 \subseteq BankPayments
  BY DEF Bank!IInv, Bank!TypeOK
<1>2. ASSUME NEW a \in BankActivities, Bank!Register(a) \/ Bank!Erase(a)
      PROVE  Bank!IInv'
  <2>1. v1' \subseteq BankActivities /\ v2' \subseteq BankPayments
    BY <1>1, <1>2 DEF Bank!Register, Bank!Erase
  <2> QED
    BY <1>2, <2>1, BankDisturbKeeps DEF Bank!Register, Bank!Erase
<1>3. ASSUME NEW p \in BankPayments, Bank!Pay(p)
      PROVE  Bank!IInv'
  <2>1. v2' \subseteq BankPayments /\ UNCHANGED <<v1, v3, v4, v5, v6>>
    BY <1>1, <1>3 DEF Bank!Pay
  <2>2. Bank!PeriodHours(v6.viewer, v6.month)' = Bank!PeriodHours(v6.viewer, v6.month)
    BY <2>1 DEF Bank!PeriodHours, Bank!InScope
  <2> QED
    BY <1>1, <2>1, <2>2 DEF Bank!IInv, Bank!TypeOK
<1>4. ASSUME NEW v \in BankViewers, Bank!AskSummary(v, Bank!MonthIndexOf(v5))
      PROVE  Bank!IInv'
  BY <1>4, BankAskKeeps
<1>5. CASE Bank!GiveSummary
  BY <1>5, BankGiveKeeps
<1>6. CASE UNCHANGED Bank!vars
  <2>1. UNCHANGED <<v1, v2, v3, v4, v5, v6>>
    BY <1>6 DEF Bank!vars
  <2>2. Bank!PeriodHours(v6.viewer, v6.month)' = Bank!PeriodHours(v6.viewer, v6.month)
    BY <2>1 DEF Bank!PeriodHours, Bank!InScope
  <2> QED
    BY <2>1, <2>2 DEF Bank!IInv, Bank!TypeOK
<1> QED
  BY <1>2, <1>3, <1>4, <1>5, <1>6 DEF Bank!Next

LEMMA BankMeans ==
  ASSUME Bank!HoursBankAssumption, Bank!IInv
  PROVE  Bank!BalanceCountsEachSlot /\ Bank!CyclesTile /\ Bank!SummaryAddsUp
BY BankBalanceHolds, BankTilesHold, BankSummaryHolds

-----------------------------------------------------------------------------
(* The figures and the reports: Reports.tla, whose status, acts, answer    *)
(* and report are v1 to v4 here.  They have the clock and the sums of the  *)
(* hours bank.  Every chart of an answer, its trend and the parts of a     *)
(* report hold the same activities as the whole, each rounded at its own   *)
(* place.                                                                  *)

(* Cardinality and finiteness as Reports.tla takes them.                   *)
LEMMA ReportingCardinality == \A S : Reporting!Cardinality(S) = Cardinality(S)
BY DEF Cardinality, Reporting!Cardinality

LEMMA ReportingFinite == \A S : Reporting!IsFiniteSet(S) <=> IsFiniteSet(S)
BY DEF IsFiniteSet, Reporting!IsFiniteSet

(* One clock for both.                                                     *)
LEMMA ReportingSum == \A f, S : Reporting!SumFunctionOnSet(f, S) = Bank!SumFunctionOnSet(f, S)
BY DEF Reporting!SumFunctionOnSet, Bank!SumFunctionOnSet, Reporting!FoldFunctionOnSet,
       Bank!FoldFunctionOnSet, Reporting!MapThenFoldSet, Bank!MapThenFoldSet

LEMMA ReportingDays ==
  /\ Reporting!WallClockAssumption <=> Bank!WallClockAssumption
  /\ \A i : Reporting!LengthOf(i) = Bank!LengthOf(i)
  /\ \A i : Reporting!DaysBefore(i) = Bank!DaysBefore(i)
  /\ \A s : Reporting!DayNumber(s) = Bank!DayNumber(s) /\ Reporting!SlotOf(s) = Bank!SlotOf(s)
<1>1. /\ \A y : Reporting!IsLeap(y) <=> Bank!IsLeap(y)
      /\ \A i : Reporting!YearOf(i) = Bank!YearOf(i)
      /\ \A i : Reporting!MonthOf(i) = Bank!MonthOf(i)
      /\ \A y : Reporting!LeapDaysBefore(y) = Bank!LeapDaysBefore(y)
      /\ Reporting!BeforeMonth = Bank!BeforeMonth
  BY DEF Reporting!IsLeap, Bank!IsLeap, Reporting!YearOf, Bank!YearOf, Reporting!MonthOf,
         Bank!MonthOf, Reporting!LeapDaysBefore, Bank!LeapDaysBefore, Reporting!BeforeMonth,
         Bank!BeforeMonth
<1>2. \A y, m : Reporting!DaysInMonth(y, m) = Bank!DaysInMonth(y, m)
  BY <1>1 DEF Reporting!DaysInMonth, Bank!DaysInMonth
<1> QED
  BY <1>1, <1>2
     DEF Reporting!WallClockAssumption, Bank!WallClockAssumption, Reporting!LengthOf,
         Bank!LengthOf, Reporting!DaysBefore, Bank!DaysBefore, Reporting!DayNumber,
         Bank!DayNumber, Reporting!SlotOf, Bank!SlotOf

LEMMA ReportingMonths ==
  /\ \A i : Reporting!StartOfMonth(i) = Bank!StartOfMonth(i)
  /\ \A i : Reporting!MonthBounds(i) = Bank!MonthBounds(i)
  /\ \A s : Reporting!MonthIndexOf(s) = Bank!MonthIndexOf(s)
  /\ \A s : Reporting!DayOfMonth(s) = Bank!DayOfMonth(s)
  /\ Reporting!Horizon = Bank!Horizon
  /\ \A from, to, w : Reporting!Clipped(from, to, w) = Bank!Clipped(from, to, w)
<1>1. \A i : Reporting!StartOfMonth(i) = Bank!StartOfMonth(i)
  BY ReportingDays DEF Reporting!StartOfMonth, Bank!StartOfMonth, Reporting!Storage, Bank!Storage
<1>2. \A s : Reporting!MonthIndexOf(s) = Bank!MonthIndexOf(s)
  BY ReportingDays DEF Reporting!MonthIndexOf, Bank!MonthIndexOf
<1>3. \A m, n : /\ Reporting!GreaterOf(m, n) = Bank!GreaterOf(m, n)
                /\ Reporting!LesserOf(m, n) = Bank!LesserOf(m, n)
  BY DEF Reporting!GreaterOf, Bank!GreaterOf, Reporting!LesserOf, Bank!LesserOf
<1> QED
  BY <1>1, <1>2, <1>3, ReportingDays
     DEF Reporting!MonthBounds, Bank!MonthBounds, Reporting!DayOfMonth, Bank!DayOfMonth,
         Reporting!Horizon, Bank!Horizon, Reporting!Clipped, Bank!Clipped

LEMMA ReportingSegments ==
  \A from, to : Reporting!Segments(from, to) = Bank!Segments(from, to)
<1>1. /\ \A s : Reporting!StartOfNextMonth(s) = Bank!StartOfNextMonth(s)
  BY ReportingMonths DEF Reporting!StartOfNextMonth, Bank!StartOfNextMonth
<1>3. \A m, n : Reporting!LesserOf(m, n) = Bank!LesserOf(m, n)
  BY DEF Reporting!LesserOf, Bank!LesserOf
<1> QED
  BY <1>1, <1>3, ReportingMonths DEF Reporting!Segments, Bank!Segments

LEMMA ReportingSumEmpty ==
  ASSUME NEW f
  PROVE  Reporting!SumFunctionOnSet(f, {}) = 0
BY BankSumEmpty, ReportingSum

LEMMA ReportingSumAdd ==
  ASSUME NEW S, IsFiniteSet(S), NEW x, x \notin S, NEW f, \A y \in S \cup {x} : f[y] \in Int
  PROVE  Reporting!SumFunctionOnSet(f, S \cup {x}) = f[x] + Reporting!SumFunctionOnSet(f, S)
BY BankSumAdd, ReportingSum

LEMMA ReportingSumSame ==
  ASSUME NEW S, IsFiniteSet(S), NEW f, NEW g, \A x \in S : f[x] \in Int /\ g[x] = f[x]
  PROVE  Reporting!SumFunctionOnSet(g, S) = Reporting!SumFunctionOnSet(f, S)
BY BankSumSame, ReportingSum

LEMMA ReportingSumOfPart ==
  ASSUME NEW S, IsFiniteSet(S), NEW f, \A x \in S : f[x] \in Nat, NEW P \in SUBSET S
  PROVE  /\ Reporting!SumFunctionOnSet(f, S) \in Nat /\ Reporting!SumFunctionOnSet(f, P) \in Nat
         /\ Reporting!SumFunctionOnSet(f, P) <= Reporting!SumFunctionOnSet(f, S)
         /\ (\A x \in S \ P : f[x] = 0)
              => Reporting!SumFunctionOnSet(f, P) = Reporting!SumFunctionOnSet(f, S)
BY BankSumOfPart, ReportingSum

LEMMA ReportingSumByKey ==
  ASSUME NEW W, IsFiniteSet(W), NEW f, \A x \in W : f[x] \in Int,
         NEW k, NEW M, IsFiniteSet(M), \A x \in W : k[x] \in M,
         NEW at, \A m \in M : at[m] = {x \in W : k[x] = m},
         NEW g, \A m \in M : g[m] = Reporting!SumFunctionOnSet(f, at[m])
  PROVE  Reporting!SumFunctionOnSet(g, M) = Reporting!SumFunctionOnSet(f, W)
BY BankSumByKey, ReportingSum

LEMMA ReportingDaysType ==
  ASSUME FirstYear \in Nat, NEW index \in Int
  PROVE  Reporting!DaysBefore(index) \in Int
BY BankDaysType, ReportingDays

LEMMA ReportingDayOf ==
  ASSUME Reporting!WallClockAssumption, NEW s \in Nat
  PROVE  /\ Reporting!DayNumber(s) \in Nat /\ Reporting!SlotOf(s) \in 0..(PerDay - 1)
         /\ s = PerDay * Reporting!DayNumber(s) + Reporting!SlotOf(s)
BY BankDayOf, ReportingDays

LEMMA ReportingDayIs ==
  ASSUME Reporting!WallClockAssumption, NEW d \in Int, NEW s \in Nat
  PROVE  /\ d <= Reporting!DayNumber(s) <=> PerDay * d <= s
         /\ Reporting!DayNumber(s) < d <=> s < PerDay * d
BY BankDayIs, ReportingDays

LEMMA ReportingStartIs ==
  ASSUME Reporting!WallClockAssumption, NEW i \in Int
  PROVE  Reporting!StartOfMonth(i) = PerDay * Reporting!DaysBefore(i)
           /\ Reporting!StartOfMonth(i) \in Int
         /\ Reporting!StartOfMonth(i + 1) >= Reporting!StartOfMonth(i) + 28
BY BankStartIs, ReportingDays, ReportingMonths

LEMMA ReportingStartsGrow ==
  ASSUME Reporting!WallClockAssumption, NEW i \in Int, NEW j \in Int
  PROVE  /\ i < j => Reporting!StartOfMonth(i + 1) <= Reporting!StartOfMonth(j)
              /\ Reporting!StartOfMonth(i) < Reporting!StartOfMonth(j)
         /\ i <= j => Reporting!StartOfMonth(i) <= Reporting!StartOfMonth(j)
         /\ i \in Nat => Reporting!StartOfMonth(i) \in Nat
BY BankStartsGrow, ReportingDays, ReportingMonths

LEMMA ReportingMonthIndexIs ==
  ASSUME Reporting!WallClockAssumption, NEW s \in Nat
  PROVE  /\ Reporting!MonthIndexOf(s) \in Nat
         /\ Reporting!StartOfMonth(Reporting!MonthIndexOf(s)) <= s
              /\ s < Reporting!StartOfMonth(Reporting!MonthIndexOf(s) + 1)
BY BankMonthIndexIs, ReportingDays, ReportingMonths

LEMMA ReportingMonthUnique ==
  ASSUME Reporting!WallClockAssumption, NEW s \in Nat, NEW j \in Int,
         Reporting!StartOfMonth(j) <= s, s < Reporting!StartOfMonth(j + 1)
  PROVE  Reporting!MonthIndexOf(s) = j
BY BankMonthUnique, ReportingDays, ReportingMonths

LEMMA ReportingPartsIn ==
  ASSUME Reporting!WallClockAssumption, NEW s \in Nat
  PROVE  Reporting!DayOfMonth(s) \in 1..Reporting!LengthOf(Reporting!MonthIndexOf(s))
           /\ Reporting!SlotOf(s) \in 0..(PerDay - 1)
BY BankPartsIn, ReportingDays, ReportingMonths

LEMMA ReportingHorizonIs ==
  ASSUME Reporting!WallClockAssumption
  PROVE  Reporting!Horizon \in Nat
           /\ Reporting!Horizon = Reporting!StartOfMonth(12 * (LastYear - FirstYear + 1))
         /\ 12 * (LastYear - FirstYear + 1) \in Nat
BY BankHorizonIs, ReportingDays, ReportingMonths

ReportingPartOf(from, to, m) ==
  IF Reporting!Clipped(from, to, Reporting!MonthBounds(m)) = 0 THEN {}
  ELSE {[month |-> m, slots |-> Reporting!Clipped(from, to, Reporting!MonthBounds(m))]}

LEMMA ReportingSegmentsOfMonth ==
  ASSUME Reporting!WallClockAssumption, NEW from \in 0..Reporting!Horizon,
         NEW to \in 0..Reporting!Horizon, NEW m \in Int
  PROVE  {s \in Reporting!Segments(from, to) : s.month = m} = ReportingPartOf(from, to, m)
BY BankSegmentsOfMonth, ReportingDays, ReportingMonths, ReportingSegments
   DEF ReportingPartOf, BankPartOf

LEMMA ReportingCountByKey ==
  ASSUME NEW W, IsFiniteSet(W), NEW k, NEW M, IsFiniteSet(M), \A x \in W : k[x] \in M,
         NEW at, \A m \in M : at[m] = {x \in W : k[x] = m},
         NEW g, \A m \in M : g[m] = Cardinality(at[m])
  PROVE  Reporting!SumFunctionOnSet(g, M) = Cardinality(W)
BY BankCountByKey, ReportingSum

LEMMA ReportingSumOfOne ==
  ASSUME NEW x, NEW f, f[x] \in Int
  PROVE  Reporting!SumFunctionOnSet(f, {x}) = f[x]
BY BankSumOfOne, ReportingSum

LEMMA ReportingSlotsAre ==
  ASSUME Reporting!WallClockAssumption, NEW from \in 0..Reporting!Horizon,
         NEW to \in 0..Reporting!Horizon, NEW m \in Int
  PROVE  LET S == {s \in from..(to - 1) : Reporting!MonthIndexOf(s) = m}
         IN IsFiniteSet(S) /\ Cardinality(S) = Reporting!Clipped(from, to, Reporting!MonthBounds(m))
BY BankSlotsAre, ReportingDays, ReportingMonths

LEMMA ReportingClippedIs ==
  ASSUME Reporting!WallClockAssumption, NEW m \in Int, NEW from \in 0..Reporting!Horizon,
         NEW to \in 0..Reporting!Horizon
  PROVE  Reporting!Clipped(from, to, Reporting!MonthBounds(m)) \in Nat
BY BankClippedIs, ReportingDays, ReportingMonths

LEMMA ReportingSumIsOnSet ==
  ASSUME NEW f
  PROVE  Reporting!SumFunction(f) = Reporting!SumFunctionOnSet(f, DOMAIN f)
BY DEF Reporting!SumFunction

(* The premises of counting and summing by a label, by name.               *)
ReportingLabelled(k, at, W, M) ==
  /\ IsFiniteSet(W) /\ IsFiniteSet(M) /\ \A x \in W : k[x] \in M
  /\ \A m \in M : at[m] = {x \in W : k[x] = m}
ReportingSumsOf(g, f, at, M) == \A m \in M : g[m] = Reporting!SumFunctionOnSet(f, at[m])
ReportingCountsOf(g, at, M) == \A m \in M : g[m] = Cardinality(at[m])
ReportingAllInt(f, W) == \A x \in W : f[x] \in Int

LEMMA ReportingSumByLabel ==
  ASSUME NEW W, NEW M, NEW k, NEW at, NEW f, NEW g,
         ReportingLabelled(k, at, W, M), ReportingAllInt(f, W), ReportingSumsOf(g, f, at, M)
  PROVE  Reporting!SumFunctionOnSet(g, M) = Reporting!SumFunctionOnSet(f, W)
BY ReportingSumByKey DEF ReportingLabelled, ReportingSumsOf, ReportingAllInt

LEMMA ReportingCountByLabel ==
  ASSUME NEW W, NEW M, NEW k, NEW at, NEW g, ReportingLabelled(k, at, W, M),
         ReportingCountsOf(g, at, M)
  PROVE  Reporting!SumFunctionOnSet(g, M) = Cardinality(W)
BY ReportingCountByKey DEF ReportingLabelled, ReportingCountsOf

(* What a finite set is mapped onto is finite.                             *)
LEMMA ReportingImageIsFinite ==
  ASSUME NEW S, IsFiniteSet(S), NEW T, NEW f, \A x \in S : f[x] \in T,
         \A y \in T : \E x \in S : f[x] = y
  PROVE  IsFiniteSet(T)
<1> DEFINE g == [x \in S |-> f[x]]
<1>1. g \in Surjection(S, T)
  BY DEF Surjection
<1> HIDE DEF g
<1> QED
  BY <1>1, FS_Surjection

(* To sum by a label that tells the elements apart is to sum.              *)
LEMMA ReportingSumRelabelled ==
  ASSUME NEW W, IsFiniteSet(W), NEW f, \A x \in W : f[x] \in Int,
         NEW k, NEW M, IsFiniteSet(M), \A x \in W : k[x] \in M,
         \A m \in M : \E x \in W : k[x] = m,
         \A x, y \in W : k[x] = k[y] => x = y,
         NEW g, \A x \in W : g[k[x]] = f[x]
  PROVE  Reporting!SumFunctionOnSet(g, M) = Reporting!SumFunctionOnSet(f, W)
<1> DEFINE at == [m \in M |-> {x \in W : k[x] = m}]
<1>1. \A m \in M : at[m] = {x \in W : k[x] = m}
  OBVIOUS
<1>2. ASSUME NEW m \in M
      PROVE  g[m] = Reporting!SumFunctionOnSet(f, at[m])
  <2>1. PICK x \in W : k[x] = m
    OBVIOUS
  <2>2. at[m] = {x}
    BY <2>1, <1>1
  <2>3. f[x] \in Int
    BY <2>1
  <2>4. Reporting!SumFunctionOnSet(f, {x}) = f[x]
    BY <2>3, ReportingSumOfOne
  <2> QED
    BY <2>1, <2>2, <2>4
<1> HIDE DEF at
<1> QED
  BY <1>1, <1>2, ReportingSumByKey

(* Row by row, or all the pairs.                                           *)
ReportingSumsOfRows(g, h, f, A, M) ==
  /\ IsFiniteSet(A) /\ IsFiniteSet(M)
  /\ \A x \in A \X M : f[x] \in Int /\ h[x[1]][x[2]] = f[x]
  /\ \A a \in A : g[a] = Reporting!SumFunctionOnSet(h[a], M)

LEMMA ReportingSumOfPairs ==
  ASSUME NEW A, NEW M, NEW f, NEW h, NEW g, ReportingSumsOfRows(g, h, f, A, M)
  PROVE  Reporting!SumFunctionOnSet(g, A) = Reporting!SumFunctionOnSet(f, A \X M)
<1> DEFINE W == A \X M
           k == [x \in W |-> x[1]]
           at == [a \in A |-> {x \in W : k[x] = a}]
<1> USE DEF ReportingSumsOfRows
<1>1. IsFiniteSet(W) /\ \A x \in W : k[x] \in A
  BY FS_Product
<1>2. \A a \in A : at[a] = {x \in W : k[x] = a}
  OBVIOUS
<1>6. IsFiniteSet(M)
  OBVIOUS
<1>3. ASSUME NEW a \in A
      PROVE  g[a] = Reporting!SumFunctionOnSet(f, at[a])
  <2> DEFINE R == at[a]
             second == [x \in R |-> x[2]]
  <2>1. \A x \in R : x \in W /\ x[1] = a /\ x[2] \in M /\ x = <<a, x[2]>> /\ second[x] = x[2]
    OBVIOUS
  <2>2. \A m \in M : <<a, m>> \in R /\ second[<<a, m>>] = m
    OBVIOUS
  <2>3. IsFiniteSet(R)
    <3>1. R \subseteq W
      BY <2>1
    <3> QED
      BY <3>1, <1>1, FS_Subset
  <2> HIDE DEF second, at, R
  <2>4. \A x \in R : h[a][second[x]] = f[x] /\ f[x] \in Int /\ second[x] \in M
    BY <2>1
  <2>5. \A x, y \in R : second[x] = second[y] => x = y
    BY <2>1
  <2>6. \A m \in M : \E x \in R : second[x] = m
    BY <2>2
  <2>7. Reporting!SumFunctionOnSet(h[a], M) = Reporting!SumFunctionOnSet(f, R)
    BY ONLY <1>6, <2>3, <2>4, <2>5, <2>6, ReportingSumRelabelled
  <2> QED
    BY <2>7 DEF R
<1> HIDE DEF at, k, W
<1>4. \A x \in W : f[x] \in Int
  BY DEF W
<1>5. Reporting!SumFunctionOnSet(g, A) = Reporting!SumFunctionOnSet(f, W)
  <2>1. IsFiniteSet(A)
    OBVIOUS
  <2> QED
    BY ONLY <2>1, <1>1, <1>2, <1>3, <1>4, ReportingSumByKey
<1> QED
  BY <1>5 DEF W

(* Rows or columns first: the sum of a table is the same.                  *)
ReportingIsTable(row, column, left, right, B, N) ==
  /\ IsFiniteSet(B) /\ IsFiniteSet(N)
  /\ \A a \in B : \A m \in N : row[a][m] \in Int /\ column[m][a] = row[a][m]
  /\ \A a \in B : left[a] = Reporting!SumFunctionOnSet(row[a], N)
  /\ \A m \in N : right[m] = Reporting!SumFunctionOnSet(column[m], B)

LEMMA ReportingSumOfTable ==
  ASSUME NEW row, NEW column, NEW left, NEW right, NEW B, NEW N,
         ReportingIsTable(row, column, left, right, B, N)
  PROVE  Reporting!SumFunctionOnSet(left, B) = Reporting!SumFunctionOnSet(right, N)
<1> USE DEF ReportingIsTable
<1> DEFINE W == B \X N
           V == N \X B
           d == [x \in W |-> row[x[1]][x[2]]]
           e == [x \in V |-> column[x[1]][x[2]]]
           turned == [x \in V |-> <<x[2], x[1]>>]
<1>1. IsFiniteSet(W) /\ IsFiniteSet(V)
  BY FS_Product
<1>2. /\ \A x \in W : d[x] \in Int /\ row[x[1]][x[2]] = d[x]
      /\ \A x \in V : e[x] \in Int /\ column[x[1]][x[2]] = e[x]
  OBVIOUS
<1>3. /\ \A x \in V : turned[x] \in W /\ d[turned[x]] = e[x]
      /\ \A x, y \in V : turned[x] = turned[y] => x = y
  OBVIOUS
<1>4. \A w \in W : \E x \in V : turned[x] = w
  <2>1. ASSUME NEW w \in W
        PROVE  \E x \in V : turned[x] = w
    <3>1. <<w[2], w[1]>> \in V /\ w = <<w[1], w[2]>>
      OBVIOUS
    <3>2. turned[<<w[2], w[1]>>] = w
      BY <3>1
    <3> QED
      BY <3>1, <3>2
  <2> QED
    BY <2>1
<1> HIDE DEF turned, d, e
<1>5. Reporting!SumFunctionOnSet(left, B) = Reporting!SumFunctionOnSet(d, B \X N)
  <2>1. \A x \in B \X N : d[x] \in Int
    BY <1>2
  <2>2. \A x \in B \X N : row[x[1]][x[2]] = d[x]
    BY <1>2
  <2>3. ReportingSumsOfRows(left, row, d, B, N)
    BY <2>1, <2>2 DEF ReportingSumsOfRows
  <2> QED
    BY <2>3, ReportingSumOfPairs
<1>6. Reporting!SumFunctionOnSet(right, N) = Reporting!SumFunctionOnSet(e, N \X B)
  <2>1. \A x \in N \X B : e[x] \in Int
    BY <1>2
  <2>2. \A x \in N \X B : column[x[1]][x[2]] = e[x]
    BY <1>2
  <2>3. ReportingSumsOfRows(right, column, e, N, B)
    BY <2>1, <2>2 DEF ReportingSumsOfRows
  <2> QED
    BY <2>3, ReportingSumOfPairs
<1>7. Reporting!SumFunctionOnSet(d, W) = Reporting!SumFunctionOnSet(e, V)
  <2> HIDE DEF W, V
  <2>1. \A x \in W : d[x] \in Int
    BY <1>2
  <2>2. \A x \in V : e[x] \in Int
    BY <1>2
  <2> QED
    BY ONLY <1>1, <1>3, <1>4, <2>1, <2>2, ReportingSumRelabelled
<1> QED
  BY <1>5, <1>6, <1>7

(* Hours are rounded to the nearest hundredth.                             *)
LEMMA ReportingHourIs ==
  ASSUME Reporting!AnalyticsAssumption
  PROVE  Reporting!PerHour \in Nat /\ Reporting!PerHour > 0 /\ Reporting!WallClockAssumption
BY DEF Reporting!AnalyticsAssumption, Reporting!WallClockAssumption, Reporting!PerHour

LEMMA ReportingDivIs ==
  ASSUME NEW m \in Nat, NEW d \in Nat, d > 0
  PROVE  m \div d \in Nat /\ d * (m \div d) <= m /\ m < d * (m \div d) + d
<1>1. m \div d \in Int /\ m % d \in 0..(d - 1) /\ m = d * (m \div d) + (m % d)
  OBVIOUS
<1> DEFINE q == m \div d
           t == d * q
<1>2. q \in Int /\ t \in Int /\ t <= m /\ m < t + d
  BY <1>1
<1>3. q >= 0
  <2>1. q < 0 => t <= 0 - d
    <3>1. \A x \in Int : x < 0 => d * x <= 0 - d
      OBVIOUS
    <3> QED
      BY <1>2, <3>1
  <2> HIDE DEF t, q
  <2> QED
    BY <1>2, <2>1
<1> QED
  BY <1>2, <1>3

LEMMA ReportingHundredthsIs ==
  ASSUME Reporting!AnalyticsAssumption, NEW s \in Nat
  PROVE  /\ Reporting!Hundredths(s) \in Nat
         /\ 2 * Reporting!PerHour * Reporting!Hundredths(s) <= 200 * s + Reporting!PerHour
         /\ 200 * s <= 2 * Reporting!PerHour * Reporting!Hundredths(s) + Reporting!PerHour
<1> DEFINE d == 2 * Reporting!PerHour
           m == 200 * s + Reporting!PerHour
           q == m \div d
<1>1. Reporting!PerHour \in Nat /\ Reporting!PerHour > 0
  BY ReportingHourIs
<1>2. d \in Nat /\ d > 0 /\ m \in Nat
  BY <1>1
<1> HIDE DEF d, m
<1>3. q \in Nat /\ d * q <= m /\ m < d * q + d
  BY <1>2, ReportingDivIs
<1>4. Reporting!Hundredths(s) = q
  BY DEF Reporting!Hundredths, d, m
<1> HIDE DEF q
<1> DEFINE t == d * q
<1>5. t \in Int
  BY <1>2, <1>3
<1>6. t <= m /\ m < t + d
  BY <1>3
<1> HIDE DEF t
<1>7. t <= 200 * s + Reporting!PerHour /\ 200 * s <= t + Reporting!PerHour
  BY <1>1, <1>5, <1>6 DEF d, m
<1> QED
  BY <1>3, <1>4, <1>7 DEF t, d

(* One half of a hundredth for each of them: a sum of rounded hours is     *)
(* that close to the hours.                                                *)
ReportingOff(total, slots, n) ==
  /\ 2 * Reporting!PerHour * total <= 200 * slots + Reporting!PerHour * n
  /\ 200 * slots <= 2 * Reporting!PerHour * total + Reporting!PerHour * n

LEMMA ReportingOffOneMore ==
  ASSUME Reporting!AnalyticsAssumption, NEW x \in Int, NEW s \in Int, NEW n \in Int,
         ReportingOff(x, s, n),
         NEW t \in Nat
  PROVE  ReportingOff(Reporting!Hundredths(t) + x, t + s, n + 1)
<1>1. Reporting!PerHour \in Nat /\ Reporting!PerHour > 0
  BY ReportingHourIs
<1>2. /\ Reporting!Hundredths(t) \in Nat
      /\ 2 * Reporting!PerHour * Reporting!Hundredths(t) <= 200 * t + Reporting!PerHour
      /\ 200 * t <= 2 * Reporting!PerHour * Reporting!Hundredths(t) + Reporting!PerHour
  BY ReportingHundredthsIs
<1> DEFINE h == Reporting!Hundredths(t)
           a == 2 * Reporting!PerHour * x
           b == 2 * Reporting!PerHour * h
           c == Reporting!PerHour * n
<1>3. a \in Int /\ b \in Int /\ c \in Int
  BY <1>1, <1>2
<1>4. 2 * Reporting!PerHour * (h + x) = b + a /\ Reporting!PerHour * (n + 1) = c + Reporting!PerHour
  <2>1. h \in Int
    BY <1>2
  <2> HIDE DEF h
  <2> QED
    BY <1>1, <2>1
<1>5. b <= 200 * t + Reporting!PerHour /\ 200 * t <= b + Reporting!PerHour
  BY <1>2
<1>6. a <= 200 * s + c /\ 200 * s <= a + c
  BY DEF ReportingOff
<1> HIDE DEF a, b, c
<1>7. b + a <= 200 * (t + s) + (c + Reporting!PerHour)
        /\ 200 * (t + s) <= b + a + (c + Reporting!PerHour)
  BY <1>1, <1>3, <1>5, <1>6
<1> QED
  BY <1>4, <1>7 DEF ReportingOff, h

LEMMA ReportingRoundedSum ==
  ASSUME Reporting!AnalyticsAssumption, NEW S, IsFiniteSet(S), NEW f, \A x \in S : f[x] \in Nat,
         NEW g, \A x \in S : g[x] = Reporting!Hundredths(f[x])
  PROVE  /\ Reporting!SumFunctionOnSet(g, S) \in Int /\ Reporting!SumFunctionOnSet(f, S) \in Int
         /\ \A x \in S : g[x] \in Int
         /\ ReportingOff(Reporting!SumFunctionOnSet(g, S), Reporting!SumFunctionOnSet(f, S),
              Cardinality(S))
<1> DEFINE Q == {T \in SUBSET S :
                   /\ Reporting!SumFunctionOnSet(g, T) \in Int
                        /\ Reporting!SumFunctionOnSet(f, T) \in Int
                   /\ ReportingOff(Reporting!SumFunctionOnSet(g, T),
                        Reporting!SumFunctionOnSet(f, T), Cardinality(T))}
<1>1. Reporting!PerHour \in Nat /\ Reporting!PerHour > 0
  BY ReportingHourIs
<1>2. \A x \in S : g[x] \in Int
  BY ReportingHundredthsIs
<1>3. {} \in Q
  <2>1. Reporting!SumFunctionOnSet(g, {}) = 0 /\ Reporting!SumFunctionOnSet(f, {}) = 0
          /\ Cardinality({}) = 0
    BY ReportingSumEmpty, FS_EmptySet
  <2>2. ReportingOff(0, 0, 0)
    BY <1>1 DEF ReportingOff
  <2> QED
    BY <2>1, <2>2
<1>4. ASSUME NEW T \in SUBSET S, NEW x \in S \ T, T \in Q
      PROVE  T \cup {x} \in Q
  <2>1. IsFiniteSet(T) /\ Cardinality(T) \in Nat
    BY FS_Subset, FS_CardinalityType
  <2>2. /\ Cardinality(T \cup {x}) = Cardinality(T) + 1
    BY <2>1, FS_AddElement
  <2>3. /\ Reporting!SumFunctionOnSet(g, T \cup {x}) = g[x] + Reporting!SumFunctionOnSet(g, T)
        /\ Reporting!SumFunctionOnSet(f, T \cup {x}) = f[x] + Reporting!SumFunctionOnSet(f, T)
    <3>1. \A y \in T \cup {x} : g[y] \in Int
      BY <1>2
    <3>2. \A y \in T \cup {x} : f[y] \in Int
      OBVIOUS
    <3>3. x \notin T
      OBVIOUS
    <3>4. Reporting!SumFunctionOnSet(g, T \cup {x}) = g[x] + Reporting!SumFunctionOnSet(g, T)
      BY ONLY <2>1, <3>1, <3>3, ReportingSumAdd
    <3>5. Reporting!SumFunctionOnSet(f, T \cup {x}) = f[x] + Reporting!SumFunctionOnSet(f, T)
      BY ONLY <2>1, <3>2, <3>3, ReportingSumAdd
    <3> QED
      BY <3>4, <3>5
  <2>4. /\ Reporting!SumFunctionOnSet(g, T) \in Int /\ Reporting!SumFunctionOnSet(f, T) \in Int
        /\ ReportingOff(Reporting!SumFunctionOnSet(g, T), Reporting!SumFunctionOnSet(f, T),
             Cardinality(T))
    BY <1>4
  <2>5. f[x] \in Nat /\ g[x] = Reporting!Hundredths(f[x]) /\ g[x] \in Int
    BY <1>2
  <2>6. ReportingOff(g[x] + Reporting!SumFunctionOnSet(g, T), f[x]
          + Reporting!SumFunctionOnSet(f, T), Cardinality(T) + 1)
    BY <2>1, <2>4, <2>5, ReportingOffOneMore
  <2>7. g[x] + Reporting!SumFunctionOnSet(g, T) \in Int
          /\ f[x] + Reporting!SumFunctionOnSet(f, T) \in Int
    BY <2>4, <2>5
  <2> QED
    BY <2>2, <2>3, <2>6, <2>7
<1>5. S \in Q
  <2> HIDE DEF Q
  <2> QED
    BY <1>3, <1>4, BankFiniteByStep
<1> QED
  BY <1>2, <1>5

(* Two ways to round the same hours.                                       *)
LEMMA ReportingNearBy ==
  ASSUME Reporting!AnalyticsAssumption, NEW x \in Int, NEW y \in Int, NEW s \in Int,
         NEW m \in Int, NEW n \in Int, ReportingOff(x, s, m), ReportingOff(y, s, n)
  PROVE  Reporting!Near(x, y, m + n) /\ Reporting!Near(x, y, n + m)
<1>1. Reporting!PerHour \in Nat /\ Reporting!PerHour > 0
  BY ReportingHourIs
<1> DEFINE a == 2 * Reporting!PerHour * x
           b == 2 * Reporting!PerHour * y
           c == Reporting!PerHour * m
           d == Reporting!PerHour * n
<1>2. a \in Int /\ b \in Int /\ c \in Int /\ d \in Int
  BY <1>1
<1>3. /\ a <= 200 * s + c /\ 200 * s <= a + c
      /\ b <= 200 * s + d /\ 200 * s <= b + d
  BY DEF ReportingOff
<1>4. /\ Reporting!PerHour * (2 * (x - y)) = a - b /\ Reporting!PerHour * (2 * (y - x)) = b - a
      /\ Reporting!PerHour * (m + n) = c + d
  BY <1>1
<1> HIDE DEF a, b, c, d
<1>5. a - b <= c + d /\ b - a <= c + d
  BY <1>2, <1>3
<1>6. \A i, j \in Int : Reporting!PerHour * i <= Reporting!PerHour * j => i <= j
  BY <1>1
<1>7. 2 * (x - y) <= m + n /\ 2 * (y - x) <= m + n
  <2>1. 2 * (x - y) \in Int /\ 2 * (y - x) \in Int /\ m + n \in Int
    OBVIOUS
  <2>2. Reporting!PerHour * (2 * (x - y)) <= Reporting!PerHour * (m + n)
          /\ Reporting!PerHour * (2 * (y - x)) <= Reporting!PerHour * (m + n)
    BY <1>4, <1>5
  <2> QED
    BY <1>6, <2>1, <2>2
<1>8. n + m = m + n
  OBVIOUS
<1> QED
  BY <1>7, <1>8 DEF Reporting!Near

(* Rows of a chart.                                                        *)
LEMMA ReportingTotalIs ==
  ASSUME NEW R, IsFiniteSet(R), NEW w, \A r \in R : Reporting!HoursOf(r.act, w) \in Int,
         NEW P \in SUBSET R
  PROVE  Reporting!Total(P, w)
           = Reporting!SumFunctionOnSet([r \in R |-> Reporting!HoursOf(r.act, w)], P)
<1> DEFINE f == [r \in R |-> Reporting!HoursOf(r.act, w)]
           g == [r \in P |-> Reporting!HoursOf(r.act, w)]
<1>1. IsFiniteSet(P)
  BY FS_Subset
<1>2. \A r \in P : f[r] \in Int /\ g[r] = f[r]
  OBVIOUS
<1>3. Reporting!Total(P, w) = Reporting!SumFunctionOnSet(g, P)
  <2>1. DOMAIN g = P
    OBVIOUS
  <2>2. Reporting!Total(P, w) = Reporting!SumFunction(g)
    BY DEF Reporting!Total
  <2> HIDE DEF g
  <2> QED
    BY <2>1, <2>2, ReportingSumIsOnSet
<1> HIDE DEF f, g
<1>4. Reporting!SumFunctionOnSet(g, P) = Reporting!SumFunctionOnSet(f, P)
  BY <1>1, <1>2, ReportingSumSame
<1> QED
  BY <1>3, <1>4 DEF f

(* Whatever the label, the rows of a chart hold every ticket and every     *)
(* activity once.                                                          *)
ReportingGroupedAs(f, T, R, w, kt, kr) ==
  /\ IsFiniteSet(T) /\ IsFiniteSet(R) /\ \A r \in R : Reporting!HoursOf(r.act, w) \in Int
  /\ DOMAIN f = {kt[t] : t \in T} \cup {kr[r] : r \in R}
  /\ \A k \in DOMAIN f : /\ f[k].count = Reporting!Cardinality({t \in T : kt[t] = k})
                         /\ f[k].hours = Reporting!Total({r \in R : kr[r] = k}, w)

LEMMA ReportingGroupedSums ==
  ASSUME NEW f, NEW T, NEW R, NEW w, NEW kt, NEW kr, ReportingGroupedAs(f, T, R, w, kt, kr)
  PROVE  Reporting!Sums(f, Reporting!Cardinality(T), Reporting!Total(R, w))
<1> DEFINE K == DOMAIN f
           counts == [k \in K |-> f[k].count]
           hours == [k \in K |-> f[k].hours]
           tickets == [k \in K |-> {t \in T : kt[t] = k}]
           rows == [k \in K |-> {r \in R : kr[r] = k}]
           h == [r \in R |-> Reporting!HoursOf(r.act, w)]
<1>1. /\ IsFiniteSet(T) /\ IsFiniteSet(R) /\ \A r \in R : Reporting!HoursOf(r.act, w) \in Int
      /\ K = {kt[t] : t \in T} \cup {kr[r] : r \in R}
      /\ \A k \in K : /\ f[k].count = Reporting!Cardinality({t \in T : kt[t] = k})
                      /\ f[k].hours = Reporting!Total({r \in R : kr[r] = k}, w)
  BY DEF ReportingGroupedAs
<1>2. IsFiniteSet(K)
  <2> DEFINE ofTickets == {kt[t] : t \in T}
             ofRows == {kr[r] : r \in R}
  <2>1. IsFiniteSet(T) /\ \A t \in T : kt[t] \in ofTickets
    BY <1>1
  <2>2. \A y \in ofTickets : \E t \in T : kt[t] = y
    OBVIOUS
  <2>3. IsFiniteSet(R) /\ \A r \in R : kr[r] \in ofRows
    BY <1>1
  <2>4. \A y \in ofRows : \E r \in R : kr[r] = y
    OBVIOUS
  <2>5. K = ofTickets \cup ofRows
    BY <1>1
  <2> HIDE DEF ofTickets, ofRows, K
  <2>6. IsFiniteSet(ofTickets)
    BY ONLY <2>1, <2>2, ReportingImageIsFinite
  <2>7. IsFiniteSet(ofRows)
    BY ONLY <2>3, <2>4, ReportingImageIsFinite
  <2> QED
    BY <2>5, <2>6, <2>7, FS_Union
<1>3. (\A t \in T : kt[t] \in K) /\ (\A r \in R : kr[r] \in K)
  BY <1>1
<1>4. \A k \in K : tickets[k] = {t \in T : kt[t] = k}
  OBVIOUS
<1>5. \A k \in K : rows[k] = {r \in R : kr[r] = k}
  OBVIOUS
<1>6. \A k \in K : counts[k] = Cardinality(tickets[k])
  BY <1>1, <1>4, ReportingCardinality
<1>7. \A k \in K : hours[k] = Reporting!SumFunctionOnSet(h, rows[k])
  <2>1. ASSUME NEW k \in K
        PROVE  hours[k] = Reporting!SumFunctionOnSet(h, rows[k])
    <3>1. rows[k] \in SUBSET R
      OBVIOUS
    <3>2. hours[k] = Reporting!Total(rows[k], w)
      BY <1>1
    <3> HIDE DEF rows, hours, K
    <3> QED
      BY <1>1, <3>1, <3>2, ReportingTotalIs
  <2> QED
    BY <2>1
<1>8. \A r \in R : h[r] \in Int
  BY <1>1
<1>9. Reporting!Total(R, w) = Reporting!SumFunctionOnSet(h, R)
  BY <1>1, ReportingTotalIs
<1>10. Reporting!SumFunction(counts) = Reporting!SumFunctionOnSet(counts, K)
         /\ Reporting!SumFunction(hours) = Reporting!SumFunctionOnSet(hours, K)
  BY ReportingSumIsOnSet
<1>11. Reporting!Sums(f, Reporting!Cardinality(T), Reporting!Total(R, w))
         <=> Reporting!SumFunction(counts) = Reporting!Cardinality(T)
           /\ Reporting!SumFunction(hours) = Reporting!Total(R, w)
  BY DEF Reporting!Sums
<1> HIDE DEF K, counts, hours, tickets, rows, h
<1>12. Reporting!SumFunctionOnSet(counts, K) = Cardinality(T)
  <2>1. ReportingLabelled(kt, tickets, T, K)
    BY <1>1, <1>2, <1>3, <1>4 DEF ReportingLabelled
  <2>2. ReportingCountsOf(counts, tickets, K)
    BY <1>6 DEF ReportingCountsOf
  <2> QED
    BY <2>1, <2>2, ReportingCountByLabel
<1>13. Reporting!SumFunctionOnSet(hours, K) = Reporting!SumFunctionOnSet(h, R)
  <2>1. ReportingLabelled(kr, rows, R, K)
    BY <1>1, <1>2, <1>3, <1>5 DEF ReportingLabelled
  <2>2. ReportingSumsOf(hours, h, rows, K) /\ ReportingAllInt(h, R)
    BY <1>7, <1>8 DEF ReportingSumsOf, ReportingAllInt
  <2> QED
    BY <2>1, <2>2, ReportingSumByLabel
<1> QED
  BY <1>9, <1>10, <1>11, <1>12, <1>13, ReportingCardinality

LEMMA ReportingCountSplits ==
  ASSUME NEW T, IsFiniteSet(T), NEW A, NEW B, A \cup B = T, A \cap B = {}
  PROVE  Reporting!Cardinality(T) = Reporting!Cardinality(A) + Reporting!Cardinality(B)
<1>1. IsFiniteSet(A) /\ IsFiniteSet(B)
  BY FS_Subset
<1>2. Cardinality(A \cup B) = Cardinality(A) + Cardinality(B) - Cardinality(A \cap B)
  BY <1>1, FS_Union
<1>3. Cardinality(A \cap B) = 0
  BY FS_EmptySet
<1>4. Cardinality(A) \in Nat /\ Cardinality(B) \in Nat
  BY <1>1, FS_CardinalityType
<1>5. /\ Reporting!Cardinality(T) = Cardinality(A \cup B)
      /\ Reporting!Cardinality(A) = Cardinality(A) /\ Reporting!Cardinality(B) = Cardinality(B)
  BY ReportingCardinality
<1> QED
  BY <1>2, <1>3, <1>4, <1>5

(* The periods of the dashboard.                                           *)
LEMMA ReportingFirstBorn ==
  ASSUME Reporting!AnalyticsAssumption, NEW S \in SUBSET FigureTickets, S # {}
  PROVE  Reporting!Min({t.born : t \in S}) \in 0..Reporting!Horizon
<1> DEFINE B == {t.born : t \in S}
<1>1. \A b \in B : b \in Nat /\ b <= Reporting!Horizon
  BY ReportingHorizonIs DEF Reporting!AnalyticsAssumption
<1>2. B # {} /\ B \in SUBSET Nat
  BY <1>1
<1> HIDE DEF B
<1>3. PICK x \in B : \A y \in B : ~ (<<y, x>> \in OpToRel(<, Nat))
  BY <1>2, WFMin, NatLessThanWellFounded
<1>7. x \in B /\ \A y \in B : ~ (y < x)
  BY <1>2, <1>3 DEF OpToRel
<1>4. \E z \in B : \A y \in B : z <= y
  BY <1>2, <1>7
<1>5. Reporting!Min(B) \in B
  BY <1>4 DEF Reporting!Min
<1>6. Reporting!Min(B) \in Nat /\ Reporting!Min(B) <= Reporting!Horizon
  BY <1>1, <1>5
<1>8. Reporting!Horizon \in Nat
  BY ReportingHourIs, ReportingHorizonIs
<1> QED
  BY <1>6, <1>8 DEF B

LEMMA ReportingMonthsUpTo ==
  ASSUME Reporting!AnalyticsAssumption, NEW s \in 0..Reporting!Horizon
  PROVE  /\ s \in Nat /\ Reporting!MonthIndexOf(s) \in Nat
         /\ Reporting!MonthIndexOf(s) <= 12 * (LastYear - FirstYear + 1)
         /\ s < Reporting!Horizon => Reporting!MonthIndexOf(s) < 12 * (LastYear - FirstYear + 1)
<1> DEFINE n == 12 * (LastYear - FirstYear + 1)
           i == Reporting!MonthIndexOf(s)
<1>1. Reporting!WallClockAssumption /\ n \in Nat /\ Reporting!Horizon = Reporting!StartOfMonth(n)
        /\ Reporting!Horizon \in Nat
  BY ReportingHourIs, ReportingHorizonIs
<1>2. s \in Nat /\ s <= Reporting!Horizon
  BY <1>1
<1>3. i \in Nat /\ Reporting!StartOfMonth(i) <= s
  BY <1>1, <1>2, ReportingMonthIndexIs
<1> HIDE DEF i, n
<1>4. Reporting!StartOfMonth(i) \in Int
        /\ (n < i => Reporting!StartOfMonth(n) < Reporting!StartOfMonth(i))
      /\ (n <= i => Reporting!StartOfMonth(n) <= Reporting!StartOfMonth(i))
  <2>1. i \in Int /\ n \in Int
    BY <1>1, <1>3
  <2> QED
    BY <1>1, <2>1, ReportingStartsGrow, ReportingStartIs
<1> QED
  BY <1>1, <1>2, <1>3, <1>4 DEF i, n

(* From the start of one month to the start of another.                    *)
ReportingOfMonths(p, i, j) ==
  /\ i \in Nat /\ j \in Nat /\ j > 0 /\ i <= 12 * (LastYear - FirstYear + 1)
  /\ j <= 12 * (LastYear - FirstYear + 1)
  /\ p.from = Reporting!StartOfMonth(i) /\ p.to = Reporting!StartOfMonth(j)
  /\ p.mode \in {"day", "month", "all"} /\ (p.mode = "day" => j = i + 1)

LEMMA ReportingResolveIs ==
  ASSUME Reporting!AnalyticsAssumption, NEW q \in FigureQueries, NEW scope \in SUBSET FigureTickets
  PROVE  LET p == Reporting!Resolve(q, scope)
         IN \/ /\ p.mode = "date" /\ p.to = FigureNow
               /\ \E d \in Int : p.from = d * PerDay
            \/ \E i, j \in Nat : ReportingOfMonths(p, i, j)
<1> DEFINE n == 12 * (LastYear - FirstYear + 1)
           year == IF q.year = 0 THEN Reporting!ThisYear ELSE q.year
<1>1. /\ q.days \in Nat /\ q.all \in BOOLEAN /\ q.year \in {0} \cup FirstYear..LastYear
      /\ q.month \in 0..12
  BY DEF Reporting!AnalyticsAssumption
<1>2. /\ Reporting!WallClockAssumption /\ FirstYear \in Nat /\ LastYear \in Nat
           /\ FirstYear <= LastYear
      /\ PerDay \in Nat /\ PerDay > 0
  BY DEF Reporting!AnalyticsAssumption, Reporting!WallClockAssumption
<1>3. FigureNow \in Nat /\ FigureNow < Reporting!Horizon /\ FigureNow \in 0..Reporting!Horizon
        /\ Reporting!Horizon \in Nat
  BY <1>2, ReportingHorizonIs DEF Reporting!AnalyticsAssumption
<1>4. Reporting!MonthIndexOf(FigureNow) \in Nat /\ Reporting!MonthIndexOf(FigureNow) < n
  BY <1>3, ReportingMonthsUpTo
<1>5. Reporting!ThisYear \in FirstYear..LastYear
  BY <1>2, <1>4 DEF Reporting!ThisYear, Reporting!YearOf
<1>6. year \in FirstYear..LastYear
  BY <1>1, <1>5
<1>7. ASSUME NEW y \in FirstYear..LastYear, NEW m \in 1..12
      PROVE  Reporting!MonthIndex(y, m) \in Nat /\ Reporting!MonthIndex(y, m) + 1 <= n
             /\ Reporting!MonthIndex(y + 1, 1) \in Nat /\ Reporting!MonthIndex(y + 1, 1) > 0
                  /\ Reporting!MonthIndex(y + 1, 1) <= n
  BY <1>2, <1>7 DEF Reporting!MonthIndex
<1>8. ASSUME NEW i \in Nat, i + 1 <= n
      PROVE  ReportingOfMonths(Reporting!MonthOfPeriod(i), i, i + 1)
  BY <1>2, <1>8 DEF ReportingOfMonths, Reporting!MonthOfPeriod, Reporting!Period
<1> HIDE DEF n
<1>9. CASE q.days # 0
  <2>1. Reporting!DayNumber(FigureNow) - (q.days - 1) \in Int
    BY <1>1, <1>2, <1>3, ReportingDayOf
  <2>2. Reporting!Resolve(q, scope)
          = Reporting!Period((Reporting!DayNumber(FigureNow) - (q.days - 1)) * PerDay, FigureNow,
          "date")
    BY <1>9 DEF Reporting!Resolve, Reporting!LastDaysBounds
  <2> QED
    BY <2>1, <2>2 DEF Reporting!Period
<1>10. CASE q.days = 0 /\ q.all
  <2> DEFINE i == IF scope = {} THEN Reporting!MonthIndex(Reporting!ThisYear, 1)
               ELSE Reporting!MonthIndexOf(Reporting!Min({t.born : t \in scope}))
             j == Reporting!MonthIndexOf(FigureNow) + 1
  <2>1. i \in Nat /\ i <= n
    <3>1. CASE scope = {}
      <4>1. Reporting!MonthIndex(Reporting!ThisYear, 1) \in Nat
              /\ Reporting!MonthIndex(Reporting!ThisYear, 1) + 1 <= n
        BY <1>5, <1>7
      <4>2. n \in Int
        BY <1>2 DEF n
      <4>3. Reporting!MonthIndex(Reporting!ThisYear, 1) <= n
        BY <4>1, <4>2
      <4> QED
        BY <3>1, <4>1, <4>3
    <3>2. CASE scope # {}
      <4>1. Reporting!Min({t.born : t \in scope}) \in 0..Reporting!Horizon
        BY <3>2, ReportingFirstBorn
      <4>2. /\ Reporting!MonthIndexOf(Reporting!Min({t.born : t \in scope})) \in Nat
            /\ Reporting!MonthIndexOf(Reporting!Min({t.born : t \in scope})) <= n
        BY <4>1, ReportingMonthsUpTo DEF n
      <4> QED
        BY <3>2, <4>2
    <3> QED
      BY <3>1, <3>2
  <2>2. j \in Nat /\ j > 0 /\ j <= n
    BY <1>2, <1>4 DEF n
  <2>3. Reporting!Resolve(q, scope)
          = Reporting!Period(Reporting!StartOfMonth(i), Reporting!StartOfMonth(j), "all")
    BY <1>10 DEF Reporting!Resolve
  <2> HIDE DEF i, j
  <2>4. ReportingOfMonths(Reporting!Resolve(q, scope), i, j)
    BY <2>1, <2>2, <2>3 DEF ReportingOfMonths, Reporting!Period, n
  <2> QED
    BY <2>1, <2>2, <2>4
<1>11. CASE q.days = 0 /\ ~ q.all /\ q.month # 0
  <2> DEFINE i == Reporting!MonthIndex(year, q.month)
  <2>1. i \in Nat /\ i + 1 <= n /\ i + 1 \in Nat
    BY <1>1, <1>6, <1>7, <1>11
  <2>2. Reporting!Resolve(q, scope) = Reporting!MonthOfPeriod(i)
    BY <1>11 DEF Reporting!Resolve
  <2> HIDE DEF i
  <2> QED
    BY <1>8, <2>1, <2>2
<1>12. CASE q.days = 0 /\ ~ q.all /\ q.month = 0 /\ q.year = 0
  <2> DEFINE i == Reporting!MonthIndexOf(FigureNow)
  <2>1. i \in Nat /\ i + 1 <= n /\ i + 1 \in Nat
    BY <1>2, <1>4 DEF n
  <2>2. Reporting!Resolve(q, scope) = Reporting!MonthOfPeriod(i)
    BY <1>12 DEF Reporting!Resolve
  <2> HIDE DEF i
  <2> QED
    BY <1>8, <2>1, <2>2
<1>13. CASE q.days = 0 /\ ~ q.all /\ q.month = 0 /\ q.year # 0
  <2> DEFINE i == Reporting!MonthIndex(year, 1)
             j == Reporting!MonthIndex(year + 1, 1)
  <2>1. i \in Nat /\ i + 1 <= n /\ j \in Nat /\ j > 0 /\ j <= n
    BY <1>6, <1>7
  <2>2. Reporting!Resolve(q, scope)
          = Reporting!Period(Reporting!StartOfMonth(i), Reporting!StartOfMonth(j), "month")
    BY <1>13 DEF Reporting!Resolve
  <2>3. i <= n
    BY <1>2, <2>1 DEF n
  <2> HIDE DEF i, j
  <2>4. ReportingOfMonths(Reporting!Resolve(q, scope), i, j)
    BY <2>1, <2>2, <2>3 DEF ReportingOfMonths, Reporting!Period, n
  <2> QED
    BY <2>1, <2>4
<1> QED
  BY <1>1, <1>9, <1>10, <1>11, <1>12, <1>13

(* A slot is in the months between two starts.                             *)
LEMMA ReportingMonthsBetween ==
  ASSUME Reporting!WallClockAssumption, NEW i \in Int, NEW s \in Nat
  PROVE  /\ Reporting!StartOfMonth(i) \in Int
         /\ Reporting!StartOfMonth(i) <= s <=> i <= Reporting!MonthIndexOf(s)
         /\ s < Reporting!StartOfMonth(i) <=> Reporting!MonthIndexOf(s) < i
<1> DEFINE m == Reporting!MonthIndexOf(s)
           at == Reporting!StartOfMonth(i)
<1>1. m \in Nat /\ Reporting!StartOfMonth(m) <= s /\ s < Reporting!StartOfMonth(m + 1)
  BY ReportingMonthIndexIs
<1>2. at \in Int
  BY ReportingStartIs
<1> HIDE DEF m
<1>3. m \in Int /\ m + 1 \in Int
  BY <1>1
<1>4. /\ i <= m => at <= Reporting!StartOfMonth(m)
      /\ m + 1 <= i => Reporting!StartOfMonth(m + 1) <= at
  BY <1>3, ReportingStartsGrow
<1>5. Reporting!StartOfMonth(m) \in Int /\ Reporting!StartOfMonth(m + 1) \in Int
  BY <1>3, ReportingStartIs
<1> HIDE DEF at
<1>6. i <= m \/ m + 1 <= i
  BY <1>3
<1> QED
  BY <1>1, <1>2, <1>3, <1>4, <1>5, <1>6 DEF at, m

LEMMA ReportingPeriodOfMonths ==
  ASSUME Reporting!AnalyticsAssumption, NEW i, NEW j, NEW p, ReportingOfMonths(p, i, j)
  PROVE  /\ p.from \in 0..Reporting!Horizon /\ p.to \in 0..Reporting!Horizon
         /\ Reporting!MonthIndexOf(p.from) = i /\ Reporting!MonthIndexOf(p.to) = j
              /\ Reporting!MonthIndexOf(p.to - 1) = j - 1
<1> DEFINE n == 12 * (LastYear - FirstYear + 1)
<1>1. Reporting!WallClockAssumption /\ n \in Nat /\ Reporting!Horizon = Reporting!StartOfMonth(n)
        /\ Reporting!Horizon \in Nat
  BY ReportingHourIs, ReportingHorizonIs
<1>2. /\ i \in Nat /\ j \in Nat /\ j > 0 /\ i <= n /\ j <= n
      /\ p.from = Reporting!StartOfMonth(i) /\ p.to = Reporting!StartOfMonth(j)
  BY DEF ReportingOfMonths
<1> HIDE DEF n
<1>3. /\ i \in Int /\ j \in Int /\ j - 1 \in Int /\ n \in Int /\ (j - 1) + 1 = j
      /\ i + 1 \in Int /\ j + 1 \in Int /\ i < i + 1 /\ j < j + 1 /\ j - 1 < j /\ j - 1 \in Nat
  BY <1>1, <1>2
<1>4. /\ Reporting!StartOfMonth(i) \in Nat /\ Reporting!StartOfMonth(i) <= Reporting!StartOfMonth(n)
      /\ Reporting!StartOfMonth(j) \in Nat /\ Reporting!StartOfMonth(j) <= Reporting!StartOfMonth(n)
      /\ Reporting!StartOfMonth(j - 1) \in Nat
           /\ Reporting!StartOfMonth(j - 1) < Reporting!StartOfMonth(j)
      /\ Reporting!StartOfMonth(i) < Reporting!StartOfMonth(i + 1)
           /\ Reporting!StartOfMonth(j) < Reporting!StartOfMonth(j + 1)
  BY <1>1, <1>2, <1>3, ReportingStartsGrow
<1>5. /\ p.from \in Nat /\ p.to \in Nat /\ p.to - 1 \in Nat
      /\ p.from <= Reporting!Horizon /\ p.to <= Reporting!Horizon
      /\ Reporting!StartOfMonth(j - 1) <= p.to - 1 /\ p.to - 1 < Reporting!StartOfMonth((j - 1) + 1)
  BY <1>1, <1>2, <1>3, <1>4
<1>6. Reporting!MonthIndexOf(p.from) = i
  BY <1>1, <1>2, <1>3, <1>4, <1>5, ReportingMonthUnique
<1>7. Reporting!MonthIndexOf(p.to) = j
  BY <1>1, <1>2, <1>3, <1>4, <1>5, ReportingMonthUnique
<1>8. Reporting!MonthIndexOf(p.to - 1) = j - 1
  BY <1>1, <1>3, <1>5, ReportingMonthUnique
<1> QED
  BY <1>1, <1>5, <1>6, <1>7, <1>8

(* Nothing of a period falls off its axis.                                 *)
LEMMA ReportingBucketOnAxis ==
  ASSUME Reporting!AnalyticsAssumption, NEW q \in FigureQueries, NEW scope \in SUBSET FigureTickets,
         NEW s \in Nat,
         Reporting!Resolve(q, scope).from <= s, s < Reporting!Resolve(q, scope).to
  PROVE  Reporting!BucketOf(s, Reporting!Resolve(q, scope).mode)
           \in Reporting!Axis(Reporting!Resolve(q, scope))
<1> DEFINE p == Reporting!Resolve(q, scope)
<1>1. Reporting!WallClockAssumption /\ PerDay \in Nat /\ PerDay > 0
  BY ReportingHourIs DEF Reporting!WallClockAssumption
<1>2. p.from <= s /\ s < p.to
  OBVIOUS
<1>3. \/ p.mode = "date" /\ p.to = FigureNow /\ \E d \in Int : p.from = d * PerDay
      \/ \E i, j \in Nat : ReportingOfMonths(p, i, j)
  BY ReportingResolveIs
<1> HIDE DEF p
<1>4. CASE p.mode = "date" /\ p.to = FigureNow /\ \E d \in Int : p.from = d * PerDay
  <2>1. PICK d \in Int : p.from = d * PerDay
    BY <1>4
  <2>2. PerDay * d <= s
    BY <1>1, <1>2, <2>1
  <2>3. d <= Reporting!DayNumber(s) /\ Reporting!DayNumber(s) \in Nat
    BY <1>1, <2>2, ReportingDayIs, ReportingDayOf
  <2>4. Reporting!DayNumber(p.from) = d
    <3>1. \A x \in Int : (x * PerDay) \div PerDay = x
      BY <1>1
    <3> QED
      BY <2>1, <3>1 DEF Reporting!DayNumber
  <2>5. FigureNow \in Nat /\ s <= FigureNow
    BY <1>1, <1>2, <1>4, ReportingHorizonIs DEF Reporting!AnalyticsAssumption
  <2>6. Reporting!DayNumber(FigureNow) \in Nat
          /\ ~ (Reporting!DayNumber(FigureNow) < Reporting!DayNumber(s))
    <3>1. Reporting!DayNumber(FigureNow) \in Nat
      BY <1>1, <2>5, ReportingDayOf
    <3>2. Reporting!DayNumber(s) <= Reporting!DayNumber(s)
      BY <2>3
    <3>3. PerDay * Reporting!DayNumber(s) <= s /\ PerDay * Reporting!DayNumber(s) \in Int
      BY <1>1, <2>3, <3>2, ReportingDayIs
    <3>4. PerDay * Reporting!DayNumber(s) <= FigureNow
      BY <2>5, <3>3
    <3>5. Reporting!DayNumber(s) <= Reporting!DayNumber(FigureNow)
      BY <1>1, <2>3, <2>5, <3>4, ReportingDayIs
    <3> QED
      BY <2>3, <3>1, <3>5
  <2>7. Reporting!DayNumber(s) \in d .. Reporting!DayNumber(FigureNow)
    BY <2>3, <2>6
  <2>8. p.mode = "date" /\ Reporting!BucketOf(s, p.mode) = Reporting!DayNumber(s)
    BY <1>4 DEF Reporting!BucketOf
  <2>9. Reporting!Axis(p) = d .. Reporting!DayNumber(FigureNow)
    BY <1>4, <2>4 DEF Reporting!Axis
  <2> QED
    BY <2>7, <2>8, <2>9 DEF p
<1>5. ASSUME NEW i \in Nat, NEW j \in Nat, ReportingOfMonths(p, i, j)
      PROVE  Reporting!BucketOf(s, p.mode) \in Reporting!Axis(p)
  <2>1. Reporting!MonthIndexOf(p.from) = i /\ Reporting!MonthIndexOf(p.to) = j
    BY <1>5, ReportingPeriodOfMonths
  <2>2. /\ p.from = Reporting!StartOfMonth(i) /\ p.to = Reporting!StartOfMonth(j)
        /\ p.mode \in {"day", "month", "all"} /\ (p.mode = "day" => j = i + 1)
    BY <1>5 DEF ReportingOfMonths
  <2>3. i <= Reporting!MonthIndexOf(s) /\ Reporting!MonthIndexOf(s) < j
          /\ Reporting!MonthIndexOf(s) \in Nat
    BY <1>1, <1>2, <2>2, ReportingMonthsBetween, ReportingMonthIndexIs
  <2>4. CASE p.mode = "day"
    <3>1. Reporting!MonthIndexOf(s) = i
      BY <2>2, <2>3, <2>4
    <3>2. Reporting!DayOfMonth(s) \in 1..Reporting!LengthOf(i)
      BY <1>1, <3>1, ReportingPartsIn
    <3> QED
      BY <2>1, <2>4, <3>2 DEF Reporting!BucketOf, Reporting!Axis
  <2>5. CASE p.mode \in {"month", "all"}
    <3>1. Reporting!MonthIndexOf(s) \in i .. (j - 1)
      BY <2>3
    <3>2. Reporting!BucketOf(s, p.mode) = Reporting!MonthIndexOf(s)
      BY <2>5 DEF Reporting!BucketOf
    <3>3. Reporting!Axis(p) = i .. (j - 1)
      BY <2>1, <2>5 DEF Reporting!Axis
    <3> QED
      BY <3>1, <3>2, <3>3
  <2> QED
    BY <2>2, <2>4, <2>5
<1> QED
  BY <1>3, <1>4, <1>5 DEF p

(* The trend: the months of a period that are all on it.                   *)
ReportingCovered(p) ==
  Reporting!TrendMonths(p) \cap (Reporting!MonthIndexOf(p.from) .. Reporting!MonthIndexOf(p.to - 1))

LEMMA ReportingCoveredIs ==
  ASSUME Reporting!AnalyticsAssumption, NEW i, NEW j, NEW p, ReportingOfMonths(p, i, j),
         Reporting!Cardinality(ReportingCovered(p))
           = Reporting!MonthIndexOf(p.to - 1) - Reporting!MonthIndexOf(p.from) + 1
  PROVE  /\ i \in Nat /\ j \in Nat /\ i <= j /\ ReportingCovered(p) = i .. (j - 1)
         /\ i < j => j - 12 <= i
<1> DEFINE S == i .. (j - 1)
           C == ReportingCovered(p)
<1>1. Reporting!MonthIndexOf(p.from) = i /\ Reporting!MonthIndexOf(p.to - 1) = j - 1
  BY ReportingPeriodOfMonths
<1>2. i \in Nat /\ j \in Nat
  BY DEF ReportingOfMonths
<1>3. C = ((j - 12) .. (j - 1)) \cap S /\ Cardinality(C) = j - i
  <2>1. (j - 1) - i + 1 = j - i /\ (j - 1) - 11 = j - 12
    BY <1>2
  <2>2. C = (((j - 1) - 11) .. (j - 1)) \cap S
    BY <1>1 DEF ReportingCovered, Reporting!TrendMonths
  <2>3. Cardinality(C) = Reporting!Cardinality(C)
    BY ReportingCardinality
  <2> QED
    BY <1>1, <2>1, <2>2, <2>3
<1>4. IsFiniteSet(S) /\ Cardinality(S) = (IF i > j - 1 THEN 0 ELSE (j - 1) - i + 1)
  BY <1>2, FS_Interval
<1> HIDE DEF C
<1>5. CASE i > j - 1
  <2>1. S = {} /\ C = {}
    BY <1>2, <1>3, <1>5
  <2>2. j - i = 0
    BY <1>3, <2>1, FS_EmptySet
  <2> QED
    BY <1>2, <2>1, <2>2 DEF C
<1>6. CASE i <= j - 1
  <2>1. Cardinality(C) = Cardinality(S) /\ C \in SUBSET S
    BY <1>2, <1>3, <1>4, <1>6
  <2> HIDE DEF S
  <2>2. C = S
    BY <1>4, <2>1, FS_Subset
  <2>3. i \in S
    BY <1>2, <1>6 DEF S
  <2>4. i \in (j - 12) .. (j - 1)
    BY <1>3, <2>2, <2>3
  <2> QED
    BY <1>2, <1>6, <2>2, <2>4 DEF C, S
<1> QED
  BY <1>2, <1>5, <1>6

LEMMA ReportingWindowIs ==
  ASSUME Reporting!AnalyticsAssumption, NEW i, NEW j, NEW p, ReportingOfMonths(p, i, j)
  PROVE  /\ Reporting!TrendWindow(p).from = Reporting!StartOfMonth(j - 12)
              /\ Reporting!TrendWindow(p).to = p.to
         /\ Reporting!StartOfMonth(j - 12) \in Int /\ Reporting!StartOfMonth(j - 12) <= p.to
         /\ \A k \in Int : j - 12 <= k
              => Reporting!StartOfMonth(j - 12) <= Reporting!StartOfMonth(k)
<1>1. i \in Nat /\ j \in Nat /\ p.to = Reporting!StartOfMonth(j)
  BY DEF ReportingOfMonths
<1>2. j \in Int /\ j - 12 \in Int /\ (j - 1) - 11 = j - 12 /\ j - 12 <= j
  BY <1>1
<1>3. Reporting!MonthIndexOf(p.to - 1) = j - 1
  BY ReportingPeriodOfMonths
<1>4. Reporting!WallClockAssumption
  BY ReportingHourIs
<1>5. /\ Reporting!StartOfMonth(j - 12) \in Int
           /\ Reporting!StartOfMonth(j - 12) <= Reporting!StartOfMonth(j)
      /\ \A k \in Int : j - 12 <= k => Reporting!StartOfMonth(j - 12) <= Reporting!StartOfMonth(k)
  BY <1>2, <1>4, ReportingStartIs, ReportingStartsGrow
<1>6. Reporting!TrendWindow(p) = [from |-> Reporting!StartOfMonth(j - 12), to |-> p.to]
  BY <1>2, <1>3 DEF Reporting!TrendWindow
<1> QED
  BY <1>1, <1>5, <1>6

ReportingFromIn(a, w) == Reporting!GreaterOf(a.from, w.from)
ReportingToIn(a, w) == Reporting!LesserOf(a.to, w.to)

LEMMA ReportingEndsAre ==
  ASSUME Reporting!AnalyticsAssumption, NEW a \in FigureWorks, NEW i, NEW j, NEW p,
         ReportingOfMonths(p, i, j)
  PROVE  /\ a.from \in 0..Reporting!Horizon /\ a.to \in 0..Reporting!Horizon
         /\ ReportingFromIn(a, Reporting!TrendWindow(p)) \in 0..Reporting!Horizon
              /\ ReportingToIn(a, Reporting!TrendWindow(p)) \in 0..Reporting!Horizon
         /\ ReportingToIn(a, p) = ReportingToIn(a, Reporting!TrendWindow(p))
              /\ ReportingFromIn(a, p) \in 0..Reporting!Horizon
         /\ Reporting!Slots(a, p)
              = Reporting!GreaterOf(ReportingToIn(a, p) - ReportingFromIn(a, p), 0)
              /\ Reporting!Slots(a, p) \in Nat
<1> DEFINE w == Reporting!TrendWindow(p)
<1>1. a.from \in 0..Reporting!Horizon /\ a.to \in 0..Reporting!Horizon
  BY DEF Reporting!AnalyticsAssumption
<1>2. w.from \in Int /\ w.from <= p.to /\ w.to = p.to
  BY ReportingWindowIs
<1>3. Reporting!Horizon \in Nat /\ p.from \in 0..Reporting!Horizon /\ p.to \in 0..Reporting!Horizon
  BY ReportingHourIs, ReportingHorizonIs, ReportingPeriodOfMonths
<1> HIDE DEF w
<1>4. ReportingFromIn(a, w) \in 0..Reporting!Horizon /\ ReportingToIn(a, w) \in 0..Reporting!Horizon
  BY <1>1, <1>2, <1>3 DEF ReportingFromIn, ReportingToIn, Reporting!GreaterOf, Reporting!LesserOf
<1>5. ReportingToIn(a, p) = ReportingToIn(a, w) /\ ReportingFromIn(a, p) \in 0..Reporting!Horizon
  BY <1>1, <1>2, <1>3 DEF ReportingFromIn, ReportingToIn, Reporting!GreaterOf, Reporting!LesserOf
<1>6. Reporting!Slots(a, p) = Reporting!GreaterOf(ReportingToIn(a, p) - ReportingFromIn(a, p), 0)
  BY DEF Reporting!Slots, Reporting!Clipped, ReportingFromIn, ReportingToIn
<1>7. Reporting!GreaterOf(ReportingToIn(a, p) - ReportingFromIn(a, p), 0) \in Nat
  BY <1>3, <1>4, <1>5 DEF Reporting!GreaterOf
<1> QED
  BY <1>1, <1>4, <1>5, <1>6, <1>7 DEF w

LEMMA ReportingSlotsInIs ==
  ASSUME Reporting!AnalyticsAssumption, NEW a \in FigureWorks, NEW i, NEW j, NEW p,
         ReportingOfMonths(p, i, j), NEW m \in Int
  PROVE  /\ Reporting!SlotsIn(a, Reporting!TrendWindow(p), m)
              = Reporting!Clipped(ReportingFromIn(a, Reporting!TrendWindow(p)),
                ReportingToIn(a, Reporting!TrendWindow(p)), Reporting!MonthBounds(m))
         /\ Reporting!SlotsIn(a, Reporting!TrendWindow(p), m) \in Nat
<1> DEFINE w == Reporting!TrendWindow(p)
           from == ReportingFromIn(a, w)
           to == ReportingToIn(a, w)
           c == Reporting!Clipped(from, to, Reporting!MonthBounds(m))
           part == {s \in Reporting!Segments(from, to) : s.month = m}
           f == [s \in part |-> s.slots]
<1>1. Reporting!WallClockAssumption /\ from \in 0..Reporting!Horizon /\ to \in 0..Reporting!Horizon
  BY ReportingHourIs, ReportingEndsAre
<1>2. Reporting!SlotsIn(a, w, m) = Reporting!SumFunction(f)
  BY DEF Reporting!SlotsIn, ReportingFromIn, ReportingToIn
<1>3. Reporting!SumFunction(f) = Reporting!SumFunctionOnSet(f, part)
  BY ReportingSumIsOnSet
<1> HIDE DEF w, from, to
<1>4. c \in Nat
  BY <1>1, ReportingClippedIs
<1>5. part = ReportingPartOf(from, to, m)
  BY <1>1, ReportingSegmentsOfMonth
<1> HIDE DEF part
<1>6. CASE c = 0
  <2>1. part = {}
    BY <1>5, <1>6 DEF ReportingPartOf
  <2> HIDE DEF f
  <2>2. Reporting!SumFunctionOnSet(f, {}) = 0
    BY ReportingSumEmpty
  <2> QED
    BY <1>2, <1>3, <1>4, <1>6, <2>1, <2>2 DEF w, from, to
<1>7. CASE c # 0
  <2> DEFINE e == [month |-> m, slots |-> c]
  <2>1. part = {e}
    BY <1>5, <1>7 DEF ReportingPartOf
  <2>2. f[e] = c
    BY <2>1
  <2> HIDE DEF e, f, c
  <2>3. Reporting!SumFunctionOnSet(f, {e}) = f[e]
    BY <1>4, <2>2, ReportingSumOfOne
  <2> QED
    BY <1>2, <1>3, <1>4, <2>1, <2>2, <2>3 DEF c, w, from, to
<1> QED
  BY <1>6, <1>7

(* What an activity has in each month of a period is what it has in it.    *)
LEMMA ReportingPartsOfPeriod ==
  ASSUME Reporting!AnalyticsAssumption, NEW a \in FigureWorks, NEW i, NEW j, NEW p,
         ReportingOfMonths(p, i, j),
         NEW g, \A m \in i .. (j - 1) : g[m] = Reporting!SlotsIn(a, Reporting!TrendWindow(p), m),
         i < j => j - 12 <= i
  PROVE  Reporting!SumFunctionOnSet(g, i .. (j - 1)) = Reporting!Slots(a, p)
<1> DEFINE w == Reporting!TrendWindow(p)
           from == ReportingFromIn(a, w)
           to == ReportingToIn(a, w)
           first == ReportingFromIn(a, p)
           W == first .. (to - 1)
           M == i .. (j - 1)
           k == [s \in W |-> Reporting!MonthIndexOf(s)]
           at == [m \in M |-> {s \in W : k[s] = m}]
<1>1. i \in Nat /\ j \in Nat /\ p.from = Reporting!StartOfMonth(i)
        /\ p.to = Reporting!StartOfMonth(j)
  BY DEF ReportingOfMonths
<1>2. Reporting!WallClockAssumption /\ Reporting!Horizon \in Nat
  BY ReportingHourIs, ReportingHorizonIs
<1>3. /\ from \in 0..Reporting!Horizon /\ to \in 0..Reporting!Horizon
           /\ first \in 0..Reporting!Horizon
      /\ ReportingToIn(a, p) = to /\ Reporting!Slots(a, p) = Reporting!GreaterOf(to - first, 0)
           /\ Reporting!Slots(a, p) \in Nat
      /\ a.from \in 0..Reporting!Horizon /\ a.to \in 0..Reporting!Horizon
  BY ReportingEndsAre
<1>4. IsFiniteSet(W) /\ Cardinality(W) = Reporting!Slots(a, p)
  <2>2. first \in Int /\ to \in Int /\ to - 1 \in Int
    BY <1>2, <1>3
  <2>1. /\ IsFiniteSet(W)
        /\ Cardinality(W) = IF first > to - 1 THEN 0 ELSE (to - 1) - first + 1
    <3> HIDE DEF first, to
    <3> QED
      BY <2>2, FS_Interval
  <2> HIDE DEF W, first, to
  <2> QED
    BY <1>2, <1>3, <2>1, <2>2 DEF Reporting!GreaterOf
<1>5. IsFiniteSet(M)
  BY <1>1, FS_Interval
<1>6. ASSUME NEW s \in W
      PROVE  s \in Nat /\ k[s] = Reporting!MonthIndexOf(s) /\ k[s] \in M /\ s >= from /\ s <= to - 1
  <2>1. s \in Nat /\ first <= s /\ s <= to - 1
    BY <1>2, <1>3
  <2>2. p.from <= s /\ s < p.to /\ a.from <= s
    <3>1. p.from \in 0..Reporting!Horizon /\ p.to \in 0..Reporting!Horizon
      BY ReportingPeriodOfMonths
    <3>2. first = Reporting!GreaterOf(a.from, p.from) /\ to = Reporting!LesserOf(a.to, p.to)
      BY <1>3 DEF ReportingFromIn, ReportingToIn
    <3> HIDE DEF first, to
    <3> QED
      BY <1>2, <1>3, <2>1, <3>1, <3>2 DEF Reporting!GreaterOf, Reporting!LesserOf
  <2>3. i <= Reporting!MonthIndexOf(s) /\ Reporting!MonthIndexOf(s) < j
          /\ Reporting!MonthIndexOf(s) \in Nat
    BY <1>1, <1>2, <2>1, <2>2, ReportingMonthsBetween, ReportingMonthIndexIs
  <2>4. Reporting!MonthIndexOf(s) \in M /\ i < j
    BY <1>1, <2>3
  <2>5. w.from <= p.from /\ w.from \in Int /\ p.from \in Int
    <3>1. i \in Int /\ j - 12 <= i
      BY <1>1, <2>4
    <3> QED
      BY <1>1, <3>1, ReportingWindowIs, ReportingPeriodOfMonths
  <2>6. from <= s
    BY <1>2, <1>3, <2>1, <2>2, <2>5 DEF ReportingFromIn, Reporting!GreaterOf
  <2> QED
    BY <2>1, <2>4, <2>6
<1>7. ASSUME NEW m \in M
      PROVE  g[m] = Cardinality(at[m])
  <2> DEFINE S == {s \in from .. (to - 1) : Reporting!MonthIndexOf(s) = m}
  <2>1. m \in Int /\ i <= m /\ m < j
    BY <1>1
  <2>2. g[m] = Reporting!Clipped(from, to, Reporting!MonthBounds(m))
    BY <2>1, ReportingSlotsInIs
  <2>3. Cardinality(S) = Reporting!Clipped(from, to, Reporting!MonthBounds(m))
    <3> HIDE DEF from, to
    <3> QED
      BY <1>2, <1>3, <2>1, ReportingSlotsAre
  <2>4. \A s \in at[m] : s \in S
    <3>1. ASSUME NEW s \in at[m]
          PROVE  s \in S
      <4>1. s \in W /\ k[s] = m
        OBVIOUS
      <4>2. s \in Nat /\ s >= from /\ s <= to - 1 /\ Reporting!MonthIndexOf(s) = m
        BY <1>6, <4>1
      <4>3. s \in from .. (to - 1)
        BY <1>2, <1>3, <4>2
      <4> QED
        BY <4>2, <4>3
    <3> QED
      BY <3>1
  <2>5. \A s \in S : s \in at[m]
    <3>1. ASSUME NEW s \in S
          PROVE  s \in at[m]
      <4>1. s \in Nat /\ s >= from /\ s <= to - 1 /\ Reporting!MonthIndexOf(s) = m
        BY <1>2, <1>3
      <4>2. p.from <= s
        BY <1>1, <1>2, <2>1, <4>1, ReportingMonthsBetween
      <4>3. a.from <= s
        <5>1. w.from \in Int
          BY ReportingWindowIs
        <5> QED
          BY <1>2, <1>3, <4>1, <5>1 DEF ReportingFromIn, Reporting!GreaterOf
      <4>4. first <= s
        <5>1. p.from \in 0..Reporting!Horizon
          BY ReportingPeriodOfMonths
        <5> QED
          BY <1>2, <1>3, <4>1, <4>2, <4>3, <5>1 DEF ReportingFromIn, Reporting!GreaterOf
      <4>5. s \in W
        BY <1>2, <1>3, <4>1, <4>4
      <4> QED
        BY <4>1, <4>5
    <3> QED
      BY <3>1
  <2> HIDE DEF S, at
  <2>6. S = at[m]
    BY <2>4, <2>5
  <2> QED
    BY <2>2, <2>3, <2>6
<1>8. \A m \in M : at[m] = {s \in W : k[s] = m}
  OBVIOUS
<1> HIDE DEF W, k, at, M
<1>9. ReportingLabelled(k, at, W, M)
  BY <1>4, <1>5, <1>6, <1>8 DEF ReportingLabelled
<1>10. ReportingCountsOf(g, at, M)
  BY <1>7 DEF ReportingCountsOf
<1>11. Reporting!SumFunctionOnSet(g, M) = Cardinality(W)
  BY <1>9, <1>10, ReportingCountByLabel
<1> QED
  BY <1>4, <1>11 DEF M

(* The hours of the months a trend shows of a period are those of its rows.*)
ReportingSlotsByMonth(h, touched, w, M) ==
  \A m \in M :
    h[m] = Reporting!SumFunctionOnSet([a \in touched |-> Reporting!SlotsIn(a, w, m)], touched)
ReportingSlotsByRow(s, some, w) == \A a \in some : s[a] = Reporting!Slots(a, w)
ReportingTouchedAndWorked(touched, rows, A, p) ==
  /\ touched = {a \in A : Reporting!Touches(a, Reporting!TrendWindow(p))}
  /\ rows = {a \in A : Reporting!Worked(a, p)}

LEMMA ReportingTrendOfRows ==
  ASSUME Reporting!AnalyticsAssumption, NEW A \in SUBSET FigureWorks, NEW i, NEW j, NEW p,
         ReportingOfMonths(p, i, j),
         i < j => j - 12 <= i,
         NEW touched, NEW rows, ReportingTouchedAndWorked(touched, rows, A, p),
         NEW h, ReportingSlotsByMonth(h, touched, Reporting!TrendWindow(p), i .. (j - 1)),
         NEW s, ReportingSlotsByRow(s, touched \cup rows, p)
  PROVE  Reporting!SumFunctionOnSet(h, i .. (j - 1)) = Reporting!SumFunctionOnSet(s, rows)
<1> DEFINE w == Reporting!TrendWindow(p)
           M == i .. (j - 1)
           row == [a \in touched |-> [m \in M |-> Reporting!SlotsIn(a, w, m)]]
           column == [m \in M |-> [a \in touched |-> Reporting!SlotsIn(a, w, m)]]
<1>0. /\ touched = {a \in A : Reporting!Touches(a, Reporting!TrendWindow(p))}
      /\ rows = {a \in A : Reporting!Worked(a, p)}
      /\ \A m \in M :
           h[m] = Reporting!SumFunctionOnSet([a \in touched |->
             Reporting!SlotsIn(a, Reporting!TrendWindow(p), m)], touched)
      /\ \A a \in touched \cup rows : s[a] = Reporting!Slots(a, p)
  BY DEF ReportingTouchedAndWorked, ReportingSlotsByMonth, ReportingSlotsByRow
<1>1. i \in Nat /\ j \in Nat /\ p.from = Reporting!StartOfMonth(i)
        /\ p.to = Reporting!StartOfMonth(j)
  BY DEF ReportingOfMonths
<1>2. IsFiniteSet(touched) /\ IsFiniteSet(rows) /\ touched \in SUBSET FigureWorks
        /\ rows \in SUBSET FigureWorks
  <2>1. IsFiniteSet(FigureWorks)
    BY ReportingFinite DEF Reporting!AnalyticsAssumption
  <2> QED
    BY <1>0, <2>1, FS_Subset
<1>3. IsFiniteSet(M) /\ M \subseteq Int
  BY <1>1, FS_Interval
<1>4. \A a \in touched : \A m \in M : row[a][m] = Reporting!SlotsIn(a, w, m) /\ row[a][m] \in Int
                                      /\ column[m][a] = row[a][m]
  BY <1>2, <1>3, ReportingSlotsInIs
<1>5. \A m \in M : h[m] = Reporting!SumFunctionOnSet(column[m], touched)
  BY <1>0
<1>6. \A a \in touched : s[a] = Reporting!SumFunctionOnSet(row[a], M)
  <2>1. ASSUME NEW a \in touched
        PROVE  s[a] = Reporting!SumFunctionOnSet(row[a], M)
    <3>1. \A m \in M : row[a][m] = Reporting!SlotsIn(a, Reporting!TrendWindow(p), m)
      BY <1>4
    <3>2. a \in FigureWorks
      BY <1>2
    <3> HIDE DEF row
    <3>3. Reporting!SumFunctionOnSet(row[a], i .. (j - 1)) = Reporting!Slots(a, p)
      BY <3>1, <3>2, ReportingPartsOfPeriod
    <3> QED
      BY <1>0, <3>3
  <2> QED
    BY <2>1
<1>7. Reporting!SumFunctionOnSet(s, touched) = Reporting!SumFunctionOnSet(h, M)
  <2> HIDE DEF M, row, column, w
  <2>1. \A a \in touched : \A m \in M : row[a][m] \in Int
    BY <1>4
  <2>2. \A a \in touched : \A m \in M : column[m][a] = row[a][m]
    BY <1>4
  <2>3. IsFiniteSet(touched) /\ IsFiniteSet(M)
    BY <1>2, <1>3
  <2>4. ReportingIsTable(row, column, s, h, touched, M)
    BY <2>1, <2>2, <2>3, <1>5, <1>6 DEF ReportingIsTable
  <2> QED
    BY <2>4, ReportingSumOfTable
<1>8. \A a \in touched \cup rows : s[a] \in Nat
  BY <1>0, <1>2, ReportingEndsAre
<1>9. rows \in SUBSET touched
  <2>1. ASSUME NEW a \in rows
        PROVE  a \in touched
    <3>1. a \in FigureWorks /\ a \in A /\ Reporting!Touches(a, p) /\ Reporting!Slots(a, p) > 0
      BY <1>0, <1>2 DEF Reporting!Worked
    <3>2. /\ Reporting!Slots(a, p)
               = Reporting!GreaterOf(ReportingToIn(a, p) - ReportingFromIn(a, p), 0)
          /\ a.from \in 0..Reporting!Horizon /\ a.to \in 0..Reporting!Horizon
      BY <3>1, ReportingEndsAre
    <3>3. Reporting!Horizon \in Nat /\ p.from \in 0..Reporting!Horizon
            /\ p.to \in 0..Reporting!Horizon /\ Reporting!WallClockAssumption
      BY ReportingHourIs, ReportingHorizonIs, ReportingPeriodOfMonths
    <3>4. p.from < p.to
      BY <3>1, <3>2, <3>3
         DEF ReportingFromIn, ReportingToIn, Reporting!GreaterOf, Reporting!LesserOf
    <3>5. i < j
      <4>1. j <= i => Reporting!StartOfMonth(j) <= Reporting!StartOfMonth(i)
        BY <1>1, <3>3, ReportingStartsGrow
      <4> QED
        BY <1>1, <3>3, <3>4, <4>1
    <3>6. i \in Int /\ j - 12 <= i
      BY <1>1, <3>5
    <3>7. w.from <= p.from /\ w.from \in Int /\ w.to = p.to
      BY <1>1, <3>6, ReportingWindowIs
    <3>8. Reporting!Touches(a, w)
      BY <3>1, <3>2, <3>3, <3>7 DEF Reporting!Touches
    <3> QED
      BY <1>0, <3>1, <3>8
  <2> QED
    BY <2>1
<1>10. \A a \in touched \ rows : s[a] = 0
  <2>1. ASSUME NEW a \in touched \ rows
        PROVE  s[a] = 0
    <3>1. a \in FigureWorks /\ a \in A /\ ~ Reporting!Worked(a, p) /\ s[a] = Reporting!Slots(a, p)
      BY <1>0, <1>2
    <3>2. /\ Reporting!Slots(a, p)
               = Reporting!GreaterOf(ReportingToIn(a, p) - ReportingFromIn(a, p), 0)
               /\ Reporting!Slots(a, p) \in Nat
          /\ a.from \in 0..Reporting!Horizon /\ a.to \in 0..Reporting!Horizon
      BY <3>1, ReportingEndsAre
    <3>3. Reporting!Horizon \in Nat /\ p.from \in 0..Reporting!Horizon
            /\ p.to \in 0..Reporting!Horizon
      BY ReportingHourIs, ReportingHorizonIs, ReportingPeriodOfMonths
    <3>4. Reporting!Slots(a, p) > 0 => Reporting!Touches(a, p)
      BY <3>2, <3>3
         DEF ReportingFromIn, ReportingToIn, Reporting!GreaterOf, Reporting!LesserOf,
         Reporting!Touches
    <3>5. ~ (Reporting!Slots(a, p) > 0)
      BY <3>1, <3>4 DEF Reporting!Worked
    <3> QED
      BY <3>1, <3>2, <3>5
  <2> QED
    BY <2>1
<1>11. Reporting!SumFunctionOnSet(s, rows) = Reporting!SumFunctionOnSet(s, touched)
  BY <1>2, <1>8, <1>9, <1>10, ReportingSumOfPart
<1> QED
  BY <1>7, <1>11

(* A finite set can be put in order.                                       *)
ReportingSorted(s, T, key) ==
  /\ s \in [1..Cardinality(T) -> T]
  /\ \A i, j \in DOMAIN s : i < j => s[i] # s[j] /\ key[s[i]] <= key[s[j]]

LEMMA ReportingGreatestExists ==
  ASSUME NEW S, IsFiniteSet(S), S # {}, NEW key, \A x \in S : key[x] \in Int
  PROVE  \E x \in S : \A y \in S : key[y] <= key[x]
<1> DEFINE Q == {T \in SUBSET S : T # {} => \E x \in T : \A y \in T : key[y] <= key[x]}
<1>1. {} \in Q
  OBVIOUS
<1>2. ASSUME NEW T \in SUBSET S, NEW z \in S \ T, T \in Q
      PROVE  T \cup {z} \in Q
  <2>1. CASE T = {}
    <3>1. T \cup {z} = {z} /\ key[z] <= key[z]
      BY <2>1
    <3> QED
      BY <3>1
  <2>2. CASE T # {}
    <3>1. PICK x \in T : \A y \in T : key[y] <= key[x]
      BY <1>2, <2>2
    <3>2. CASE key[z] <= key[x]
      <4>1. \A y \in T \cup {z} : key[y] <= key[x]
        BY <3>1, <3>2
      <4> QED
        BY <4>1
    <3>3. CASE ~ (key[z] <= key[x])
      <4>1. \A y \in T \cup {z} : key[y] <= key[z]
        <5>1. key[x] \in Int /\ key[z] \in Int /\ \A y \in T : key[y] \in Int
          OBVIOUS
        <5> QED
          BY <3>1, <3>3, <5>1
      <4> QED
        BY <4>1
    <3> QED
      BY <3>2, <3>3
  <2> QED
    BY <2>1, <2>2
<1>3. S \in Q
  <2> HIDE DEF Q
  <2> QED
    BY <1>1, <1>2, BankFiniteByStep
<1> QED
  BY <1>3

LEMMA ReportingSortedExists ==
  ASSUME NEW S, IsFiniteSet(S), NEW key, \A x \in S : key[x] \in Int
  PROVE  \E s : ReportingSorted(s, S, key)
<1> DEFINE N == {n \in Nat : \A T \in SUBSET S : Cardinality(T) = n
             => \E s : ReportingSorted(s, T, key)}
<1>1. 0 \in N
  <2>1. ASSUME NEW T \in SUBSET S, Cardinality(T) = 0
        PROVE  \E s : ReportingSorted(s, T, key)
    <3>1. T = {}
      BY <2>1, FS_Subset, FS_EmptySet
    <3> DEFINE s == [i \in 1..0 |-> i]
    <3>2. s \in [1..0 -> T] /\ DOMAIN s = {}
      BY <3>1
    <3>3. ReportingSorted(s, T, key)
      BY <2>1, <3>2 DEF ReportingSorted
    <3> QED
      BY <3>3
  <2> QED
    BY <2>1
<1>2. ASSUME NEW n \in Nat, n \in N
      PROVE  n + 1 \in N
  <2>1. ASSUME NEW T \in SUBSET S, Cardinality(T) = n + 1
        PROVE  \E s : ReportingSorted(s, T, key)
    <3>1. IsFiniteSet(T) /\ T # {}
      BY <2>1, FS_Subset, FS_EmptySet
    <3>2. PICK x \in T : \A y \in T : key[y] <= key[x]
      BY <3>1, ReportingGreatestExists
    <3> DEFINE R == T \ {x}
    <3>3. Cardinality(R) = n /\ R \in SUBSET S
      <4>1. Cardinality(R) = Cardinality(T) - 1
        BY <3>1, FS_RemoveElement
      <4> QED
        BY <2>1, <4>1
    <3>4. PICK r : ReportingSorted(r, R, key)
      BY <1>2, <3>3
    <3> DEFINE s == [i \in 1..(n + 1) |-> IF i = n + 1 THEN x ELSE r[i]]
    <3>5. /\ DOMAIN r = 1..n /\ \A i \in 1..n : r[i] \in T /\ r[i] # x
          /\ \A i, j \in 1..n : i < j => r[i] # r[j] /\ key[r[i]] <= key[r[j]]
      <4>1. r \in [1..n -> R]
        BY <3>3, <3>4 DEF ReportingSorted
      <4>2. \A i, j \in DOMAIN r : i < j => r[i] # r[j] /\ key[r[i]] <= key[r[j]]
        BY <3>4 DEF ReportingSorted
      <4> QED
        BY <4>1, <4>2
    <3>6. s \in [1..(n + 1) -> T]
      <4>1. \A i \in 1..(n + 1) : i # n + 1 => i \in 1..n
        OBVIOUS
      <4> QED
        BY <3>5, <4>1
    <3>7. ASSUME NEW i \in 1..(n + 1), NEW j \in 1..(n + 1), i < j
          PROVE  s[i] # s[j] /\ key[s[i]] <= key[s[j]]
      <4>1. i \in 1..n /\ s[i] = r[i]
        BY <3>7
      <4>2. CASE j = n + 1
        <5>1. s[j] = x
          BY <4>2
        <5> QED
          BY <3>2, <3>5, <4>1, <5>1
      <4>3. CASE j # n + 1
        <5>1. j \in 1..n /\ s[j] = r[j]
          BY <4>3
        <5> QED
          BY <3>5, <3>7, <4>1, <5>1
      <4> QED
        BY <4>2, <4>3
    <3>8. ReportingSorted(s, T, key)
      <4>1. DOMAIN s = 1..(n + 1)
        OBVIOUS
      <4> HIDE DEF s
      <4> QED
        BY <2>1, <3>6, <3>7, <4>1 DEF ReportingSorted
    <3> QED
      BY <3>8
  <2> QED
    BY <2>1
<1>3. Nat \subseteq N
  <2> HIDE DEF N
  <2> QED
    BY <1>1, <1>2, NaturalsByStep
<1>4. Cardinality(S) \in Nat
  BY FS_CardinalityType
<1> QED
  BY <1>3, <1>4

(* In order, every element is there.                                       *)
LEMMA ReportingInOrderIs ==
  ASSUME NEW S, IsFiniteSet(S), NEW key, \A x \in S : key[x] \in Int
  PROVE  /\ Len(Reporting!InOrder(S, key)) = Cardinality(S)
         /\ \A x \in S : \E i \in DOMAIN Reporting!InOrder(S, key) :
              Reporting!InOrder(S, key)[i] = x
<1> DEFINE s == Reporting!InOrder(S, key)
           n == Cardinality(S)
<1>1. n \in Nat
  BY FS_CardinalityType
<1>2. ReportingSorted(s, S, key)
  <2> DEFINE Ok(r) == \A i, j \in DOMAIN r : i < j => r[i] # r[j] /\ key[r[i]] <= key[r[j]]
  <2>1. \E r \in [1..n -> S] : Ok(r)
    BY ReportingSortedExists DEF ReportingSorted
  <2>2. Reporting!Cardinality(S) = n
    BY ReportingCardinality
  <2>3. s = CHOOSE r \in [1..n -> S] : Ok(r)
    BY <2>2 DEF Reporting!InOrder
  <2> HIDE DEF s, n, Ok
  <2>4. s \in [1..n -> S] /\ Ok(s)
    BY <2>1, <2>3
  <2> QED
    BY <2>4 DEF ReportingSorted, n, Ok
<1> HIDE DEF s
<1>3. s \in [1..n -> S] /\ DOMAIN s = 1..n /\ \A i, j \in 1..n : i < j => s[i] # s[j]
  BY <1>2 DEF ReportingSorted
<1>4. \A i, j \in 1..n : s[i] = s[j] => i = j
  <2>1. \A i, j \in 1..n : i < j \/ j < i \/ i = j
    BY <1>1
  <2> QED
    BY <1>3, <2>1
<1>5. s \in Injection(1..n, S)
  BY <1>3, <1>4 DEF Injection, IsInjective
<1>6. Cardinality(1..n) = n
  <2>1. Cardinality(1..n) = IF 1 > n THEN 0 ELSE n - 1 + 1
    BY <1>1, FS_Interval
  <2> QED
    BY <1>1, <2>1
<1>7. s \in Surjection(1..n, S)
  BY <1>5, <1>6, FS_Injection
<1>8. \A x \in S : \E i \in 1..n : s[i] = x
  BY <1>7 DEF Surjection
<1>9. Len(s) = n
  BY <1>1, <1>3
<1> QED
  BY <1>3, <1>8, <1>9 DEF s

(* The figures of an answer.                                               *)
LEMMA ReportingSameCount ==
  ASSUME NEW S, IsFiniteSet(S), NEW T, NEW f, \A x \in S : f[x] \in T,
         \A y \in T : \E x \in S : f[x] = y, \A x, y \in S : f[x] = f[y] => x = y
  PROVE  IsFiniteSet(T) /\ Cardinality(T) = Cardinality(S)
<1> DEFINE g == [x \in S |-> f[x]]
<1>1. g \in Bijection(S, T)
  BY DEF Bijection, Surjection, Injection, IsInjective
<1>2. ExistsBijection(S, T)
  BY <1>1 DEF ExistsBijection
<1> QED
  BY <1>2, FS_Bijection

LEMMA ReportingScopesAre ==
  ASSUME Reporting!AnalyticsAssumption, v2 \subseteq FigureWorks, NEW viewer
  PROVE  /\ Reporting!Scope(viewer) \in SUBSET FigureTickets
              /\ Reporting!ScopeActs(viewer) \in SUBSET FigureWorks
         /\ Reporting!ScopeActs(viewer) \in SUBSET v2
         /\ IsFiniteSet(Reporting!Scope(viewer)) /\ IsFiniteSet(Reporting!ScopeActs(viewer))
<1>1. IsFiniteSet(FigureTickets) /\ IsFiniteSet(FigureWorks)
  BY ReportingFinite DEF Reporting!AnalyticsAssumption
<1>2. /\ Reporting!Scope(viewer) \in SUBSET FigureTickets
           /\ Reporting!ScopeActs(viewer) \in SUBSET FigureWorks
      /\ Reporting!ScopeActs(viewer) \in SUBSET v2
  BY DEF Reporting!Scope, Reporting!ScopeActs, Reporting!Opened
<1> QED
  BY <1>1, <1>2, FS_Subset

LEMMA ReportingSlotsType ==
  ASSUME Reporting!AnalyticsAssumption, NEW a \in FigureWorks, NEW w, w.from \in Int, w.to \in Int
  PROVE  /\ Reporting!Slots(a, w) \in Nat /\ Reporting!HoursOf(a, w) \in Nat
         /\ Reporting!HoursOf(a, w) = Reporting!Hundredths(Reporting!Slots(a, w))
         /\ Reporting!Slots(a, w) > 0 =>
              /\ Reporting!GreaterOf(a.from, w.from) \in Nat
              /\ w.from <= Reporting!GreaterOf(a.from, w.from)
                   /\ Reporting!GreaterOf(a.from, w.from) < w.to
<1>1. a.from \in Nat /\ a.to \in Nat
  BY ReportingHourIs, ReportingHorizonIs DEF Reporting!AnalyticsAssumption
<1>2. Reporting!Slots(a, w) \in Nat
  BY <1>1 DEF Reporting!Slots, Reporting!Clipped, Reporting!GreaterOf, Reporting!LesserOf
<1>3. Reporting!Slots(a, w) > 0 => /\ Reporting!GreaterOf(a.from, w.from) \in Nat
                         /\ w.from <= Reporting!GreaterOf(a.from, w.from)
                              /\ Reporting!GreaterOf(a.from, w.from) < w.to
  BY <1>1 DEF Reporting!Slots, Reporting!Clipped, Reporting!GreaterOf, Reporting!LesserOf
<1>4. Reporting!HoursOf(a, w) = Reporting!Hundredths(Reporting!Slots(a, w))
  BY DEF Reporting!HoursOf
<1>5. Reporting!Hundredths(Reporting!Slots(a, w)) \in Nat
  BY <1>2, ReportingHundredthsIs
<1> QED
  BY <1>2, <1>3, <1>4, <1>5

LEMMA ReportingPeriodType ==
  ASSUME Reporting!AnalyticsAssumption, NEW q \in FigureQueries, NEW scope \in SUBSET FigureTickets
  PROVE  Reporting!Resolve(q, scope).from \in Int /\ Reporting!Resolve(q, scope).to \in Int
<1> DEFINE p == Reporting!Resolve(q, scope)
<1>1. Reporting!WallClockAssumption /\ PerDay \in Int /\ Reporting!Horizon \in Nat
  BY ReportingHourIs, ReportingHorizonIs DEF Reporting!WallClockAssumption
<1>2. \/ p.mode = "date" /\ p.to = FigureNow /\ \E d \in Int : p.from = d * PerDay
      \/ \E i, j \in Nat : ReportingOfMonths(p, i, j)
  BY ReportingResolveIs
<1> HIDE DEF p
<1>3. CASE p.mode = "date" /\ p.to = FigureNow /\ \E d \in Int : p.from = d * PerDay
  <2>1. FigureNow \in Int
    BY <1>1 DEF Reporting!AnalyticsAssumption
  <2> QED
    BY <1>1, <1>3, <2>1 DEF p
<1>4. ASSUME NEW i \in Nat, NEW j \in Nat, ReportingOfMonths(p, i, j)
      PROVE  p.from \in Int /\ p.to \in Int
  BY <1>1, <1>4, ReportingPeriodOfMonths
<1> QED
  BY <1>2, <1>3, <1>4 DEF p

LEMMA ReportingRowsAre ==
  ASSUME Reporting!AnalyticsAssumption, v2 \subseteq FigureWorks, NEW viewer, NEW p, p.from \in Int,
         p.to \in Int
  PROVE  LET X == {t \in Reporting!Scope(viewer) : Reporting!Born(t, p)}
             A == {a \in Reporting!ScopeActs(viewer) : Reporting!Worked(a, p)}
             T == Reporting!TicketRows(viewer, p)
             R == Reporting!ActRows(viewer, p)
         IN /\ IsFiniteSet(X) /\ IsFiniteSet(T) /\ Cardinality(T) = Cardinality(X)
            /\ IsFiniteSet(A) /\ IsFiniteSet(R) /\ Cardinality(R) = Cardinality(A)
            /\ \A t \in T : t.ticket \in X
            /\ \A r \in R : r.act \in A /\ Reporting!HoursOf(r.act, p) \in Int
            /\ A \in SUBSET FigureWorks /\ X \in SUBSET FigureTickets
            /\ Reporting!Total(R, p)
                 = Reporting!SumFunctionOnSet([a \in A |-> Reporting!HoursOf(a, p)], A)
<1> DEFINE X == {t \in Reporting!Scope(viewer) : Reporting!Born(t, p)}
           A == {a \in Reporting!ScopeActs(viewer) : Reporting!Worked(a, p)}
           T == Reporting!TicketRows(viewer, p)
           R == Reporting!ActRows(viewer, p)
           ticketRow == [t \in X |-> [ticket |-> t, status |-> v1[t],
                                      acts |-> {a \in v2 : Reporting!TicketOf(a) = t}]]
           actRow == [a \in A |-> [act |-> a, status |-> v1[Reporting!TicketOf(a)]]]
<1>1. IsFiniteSet(X) /\ IsFiniteSet(A) /\ A \in SUBSET FigureWorks /\ X \in SUBSET FigureTickets
  BY ReportingScopesAre, FS_Subset
<1>2. T = {ticketRow[t] : t \in X} /\ R = {actRow[a] : a \in A}
  BY DEF Reporting!TicketRows, Reporting!ActRows
<1>3. /\ \A t \in X : ticketRow[t].ticket = t
      /\ \A a \in A : actRow[a].act = a
  OBVIOUS
<1> HIDE DEF X, A, T, R, ticketRow, actRow
<1>4. IsFiniteSet(T) /\ Cardinality(T) = Cardinality(X)
  <2>1. \A t \in X : ticketRow[t] \in T
    BY <1>2
  <2>2. \A r \in T : \E t \in X : ticketRow[t] = r
    BY <1>2
  <2>3. \A x, y \in X : ticketRow[x] = ticketRow[y] => x = y
    BY <1>3
  <2> QED
    BY <1>1, <2>1, <2>2, <2>3, ReportingSameCount
<1>5. /\ \A a \in A : actRow[a] \in R
      /\ \A r \in R : \E a \in A : actRow[a] = r
      /\ \A x, y \in A : actRow[x] = actRow[y] => x = y
  BY <1>2, <1>3
<1>6. IsFiniteSet(R) /\ Cardinality(R) = Cardinality(A)
  BY <1>1, <1>5, ReportingSameCount
<1>7. \A t \in T : t.ticket \in X
  BY <1>2, <1>3
<1>8. \A a \in A : Reporting!HoursOf(a, p) \in Int
  BY <1>1, ReportingSlotsType
<1>9. \A r \in R : r.act \in A /\ Reporting!HoursOf(r.act, p) \in Int
  BY <1>2, <1>3, <1>8
<1>10. Reporting!Total(R, p) = Reporting!SumFunctionOnSet([a \in A |-> Reporting!HoursOf(a, p)], A)
  <2> DEFINE f == [r \in R |-> Reporting!HoursOf(r.act, p)]
             g == [a \in A |-> Reporting!HoursOf(a, p)]
  <2>1. Reporting!Total(R, p) = Reporting!SumFunctionOnSet(f, R)
    BY <1>6, <1>9, ReportingTotalIs
  <2>2. \A a \in A : g[a] \in Int /\ actRow[a] \in R /\ f[actRow[a]] = g[a]
    BY <1>3, <1>5, <1>8
  <2>3. \A r \in R : f[r] \in Int
    BY <1>9
  <2> HIDE DEF f, g
  <2>4. Reporting!SumFunctionOnSet(f, R) = Reporting!SumFunctionOnSet(g, A)
    BY <1>1, <1>5, <1>6, <2>2, ReportingSumRelabelled
  <2> QED
    BY <2>1, <2>4 DEF g
<1> QED
  BY <1>1, <1>4, <1>6, <1>7, <1>9, <1>10 DEF X, A, T, R

(* Every chart holds the tickets and the hours of the figures at the top.  *)
LEMMA ReportingChartsHold ==
  ASSUME Reporting!AnalyticsAssumption, v2 \subseteq FigureWorks, NEW viewer,
         NEW q \in FigureQueries
  PROVE  LET p == Reporting!Resolve(q, Reporting!Scope(viewer))
             T == Reporting!TicketRows(viewer, p)
             R == Reporting!ActRows(viewer, p)
             all == Reporting!Kpis(T, R, p)
         IN /\ all.tickets = all.concluded + all.open
            /\ Reporting!Sums(Reporting!ByStatus(T, R, p), all.tickets, all.hours)
            /\ Reporting!Sums(Reporting!ByModule(T, R, p), all.tickets, all.hours)
            /\ Reporting!Sums(Reporting!ByClient(T, R, p), all.tickets, all.hours)
            /\ Reporting!Sums(Reporting!ByTechnician(T, R, p),
                 Reporting!Cardinality({t \in T : t.ticket.technician # NoName}), all.hours)
            /\ Reporting!Sums(Reporting!ByBucket(T, R, p), all.tickets, all.hours)
            /\ DOMAIN Reporting!ByBucket(T, R, p) \subseteq Reporting!Axis(p)
<1> DEFINE p == Reporting!Resolve(q, Reporting!Scope(viewer))
           T == Reporting!TicketRows(viewer, p)
           R == Reporting!ActRows(viewer, p)
           all == Reporting!Kpis(T, R, p)
           X == {t \in Reporting!Scope(viewer) : Reporting!Born(t, p)}
           A == {a \in Reporting!ScopeActs(viewer) : Reporting!Worked(a, p)}
<1>1. Reporting!Scope(viewer) \in SUBSET FigureTickets
  BY ReportingScopesAre
<1>2. p.from \in Int /\ p.to \in Int
  BY <1>1, ReportingPeriodType
<1>12. \A s \in Nat : p.from <= s /\ s < p.to => Reporting!BucketOf(s, p.mode) \in Reporting!Axis(p)
  BY <1>1, ReportingBucketOnAxis
<1> HIDE DEF p
<1>3. /\ IsFiniteSet(T) /\ IsFiniteSet(R)
      /\ \A t \in T : t.ticket \in X
      /\ \A r \in R : r.act \in A /\ Reporting!HoursOf(r.act, p) \in Int
      /\ A \in SUBSET FigureWorks /\ X \in SUBSET FigureTickets
  BY <1>2, ReportingRowsAre
<1> HIDE DEF T, R
<1>4. /\ all.tickets = Reporting!Cardinality(T) /\ all.hours = Reporting!Total(R, p)
      /\ all.concluded = Reporting!Cardinality({t \in T : t.status \in Reporting!Concluded})
      /\ all.open = Reporting!Cardinality({t \in T : t.status \notin Reporting!Concluded})
  BY ReportingCardinality DEF Reporting!Kpis
<1>5. all.tickets = all.concluded + all.open
  <2> DEFINE C == {t \in T : t.status \in Reporting!Concluded}
             O == {t \in T : t.status \notin Reporting!Concluded}
  <2>1. C \cup O = T /\ C \cap O = {}
    OBVIOUS
  <2> HIDE DEF C, O, all
  <2>2. Reporting!Cardinality(T) = Reporting!Cardinality(C) + Reporting!Cardinality(O)
    BY <1>3, <2>1, ReportingCountSplits
  <2> QED
    BY <1>4, <2>2 DEF C, O
<1> HIDE DEF all
<1>6. Reporting!Sums(Reporting!ByStatus(T, R, p), all.tickets, all.hours)
  <2> DEFINE f == Reporting!ByStatus(T, R, p)
             kt == [t \in T |-> t.status]
             kr == [r \in R |-> r.status]
  <2>1. DOMAIN f = {t.status : t \in T} \cup {r.status : r \in R}
    BY DEF Reporting!ByStatus, Reporting!Grouped
  <2>2. \A k \in DOMAIN f : /\ f[k].count = Reporting!Cardinality({t \in T : t.status = k})
                            /\ f[k].hours = Reporting!Total({r \in R : r.status = k}, p)
    BY ReportingCardinality DEF Reporting!ByStatus, Reporting!Grouped
  <2> HIDE DEF f
  <2>3. /\ {kt[t] : t \in T} = {t.status : t \in T}
        /\ {kr[r] : r \in R} = {r.status : r \in R}
    OBVIOUS
  <2>4. \A k : /\ {t \in T : kt[t] = k} = {t \in T : t.status = k}
               /\ {r \in R : kr[r] = k} = {r \in R : r.status = k}
    OBVIOUS
  <2> HIDE DEF kt, kr
  <2>5. ReportingGroupedAs(f, T, R, p, kt, kr)
    BY <1>3, <2>1, <2>2, <2>3, <2>4 DEF ReportingGroupedAs
  <2> QED
    BY <1>4, <2>5, ReportingGroupedSums DEF f
<1>7. Reporting!Sums(Reporting!ByModule(T, R, p), all.tickets, all.hours)
  <2> DEFINE f == Reporting!ByModule(T, R, p)
             kt == [t \in T |-> t.ticket.module]
             kr == [r \in R |-> Reporting!TicketOf(r.act).module]
  <2>1. DOMAIN f = {t.ticket.module : t \in T} \cup {Reporting!TicketOf(r.act).module : r \in R}
    BY DEF Reporting!ByModule, Reporting!Grouped
  <2>2. \A k \in DOMAIN f : /\ f[k].count = Reporting!Cardinality({t \in T : t.ticket.module = k})
                            /\ f[k].hours
                                 = Reporting!Total({r \in R :
                                 Reporting!TicketOf(r.act).module = k}, p)
    BY ReportingCardinality DEF Reporting!ByModule, Reporting!Grouped
  <2> HIDE DEF f
  <2>3. /\ {kt[t] : t \in T} = {t.ticket.module : t \in T}
        /\ {kr[r] : r \in R} = {Reporting!TicketOf(r.act).module : r \in R}
    OBVIOUS
  <2>4. \A k : /\ {t \in T : kt[t] = k} = {t \in T : t.ticket.module = k}
               /\ {r \in R : kr[r] = k} = {r \in R : Reporting!TicketOf(r.act).module = k}
    OBVIOUS
  <2> HIDE DEF kt, kr
  <2>5. ReportingGroupedAs(f, T, R, p, kt, kr)
    BY <1>3, <2>1, <2>2, <2>3, <2>4 DEF ReportingGroupedAs
  <2> QED
    BY <1>4, <2>5, ReportingGroupedSums DEF f
<1>8. Reporting!Sums(Reporting!ByClient(T, R, p), all.tickets, all.hours)
  <2> DEFINE f == Reporting!ByClient(T, R, p)
             kt == [t \in T |-> t.ticket.client]
             kr == [r \in R |-> Reporting!TicketOf(r.act).client]
  <2>1. DOMAIN f = {t.ticket.client : t \in T} \cup {Reporting!TicketOf(r.act).client : r \in R}
    BY DEF Reporting!ByClient, Reporting!Grouped
  <2>2. \A k \in DOMAIN f : /\ f[k].count = Reporting!Cardinality({t \in T : t.ticket.client = k})
                            /\ f[k].hours
                                 = Reporting!Total({r \in R :
                                 Reporting!TicketOf(r.act).client = k}, p)
    BY ReportingCardinality DEF Reporting!ByClient, Reporting!Grouped
  <2> HIDE DEF f
  <2>3. /\ {kt[t] : t \in T} = {t.ticket.client : t \in T}
        /\ {kr[r] : r \in R} = {Reporting!TicketOf(r.act).client : r \in R}
    OBVIOUS
  <2>4. \A k : /\ {t \in T : kt[t] = k} = {t \in T : t.ticket.client = k}
               /\ {r \in R : kr[r] = k} = {r \in R : Reporting!TicketOf(r.act).client = k}
    OBVIOUS
  <2> HIDE DEF kt, kr
  <2>5. ReportingGroupedAs(f, T, R, p, kt, kr)
    BY <1>3, <2>1, <2>2, <2>3, <2>4 DEF ReportingGroupedAs
  <2> QED
    BY <1>4, <2>5, ReportingGroupedSums DEF f
<1>9. Reporting!Sums(Reporting!ByTechnician(T, R, p),
        Reporting!Cardinality({t \in T : t.ticket.technician # NoName}), all.hours)
  <2> DEFINE N == {t \in T : t.ticket.technician # NoName}
             f == Reporting!ByTechnician(T, R, p)
             kt == [t \in N |-> t.ticket.technician]
             kr == [r \in R |-> r.act.author]
  <2>1. IsFiniteSet(N)
    BY <1>3, FS_Subset
  <2>2. f = Reporting!Grouped(N, R, p, LAMBDA t : t.ticket.technician, LAMBDA r : r.act.author)
    BY DEF Reporting!ByTechnician
  <2> HIDE DEF N, f
  <2>3. DOMAIN f = {t.ticket.technician : t \in N} \cup {r.act.author : r \in R}
    BY <2>2 DEF Reporting!Grouped
  <2>4. \A k \in DOMAIN f :
          /\ f[k].count = Reporting!Cardinality({t \in N : t.ticket.technician = k})
                            /\ f[k].hours = Reporting!Total({r \in R : r.act.author = k}, p)
    BY <2>2, ReportingCardinality DEF Reporting!Grouped
  <2>5. /\ {kt[t] : t \in N} = {t.ticket.technician : t \in N}
        /\ {kr[r] : r \in R} = {r.act.author : r \in R}
    OBVIOUS
  <2>6. \A k : /\ {t \in N : kt[t] = k} = {t \in N : t.ticket.technician = k}
               /\ {r \in R : kr[r] = k} = {r \in R : r.act.author = k}
    OBVIOUS
  <2> HIDE DEF kt, kr
  <2>7. ReportingGroupedAs(f, N, R, p, kt, kr)
    BY <1>3, <2>1, <2>3, <2>4, <2>5, <2>6 DEF ReportingGroupedAs
  <2>8. Reporting!Sums(f, Reporting!Cardinality(N), Reporting!Total(R, p))
    BY <2>7, ReportingGroupedSums
  <2> QED
    BY <1>4, <2>8 DEF N, f
<1>10. Reporting!Sums(Reporting!ByBucket(T, R, p), all.tickets, all.hours)
  <2> DEFINE f == Reporting!ByBucket(T, R, p)
             kt == [t \in T |-> Reporting!BucketOf(t.ticket.born, p.mode)]
             kr == [r \in R |-> Reporting!BucketOfAct(r.act, p)]
  <2>1. DOMAIN f
          = {Reporting!BucketOf(t.ticket.born, p.mode) : t \in T}
          \cup {Reporting!BucketOfAct(r.act, p) : r \in R}
    BY DEF Reporting!ByBucket, Reporting!Grouped
  <2>2. \A k \in DOMAIN f :
          /\ f[k].count
             = Reporting!Cardinality({t \in T : Reporting!BucketOf(t.ticket.born, p.mode) = k})
                            /\ f[k].hours
                                 = Reporting!Total({r \in R : Reporting!BucketOfAct(r.act, p) = k},
                                 p)
    BY ReportingCardinality DEF Reporting!ByBucket, Reporting!Grouped
  <2> HIDE DEF f
  <2>3. /\ {kt[t] : t \in T} = {Reporting!BucketOf(t.ticket.born, p.mode) : t \in T}
        /\ {kr[r] : r \in R} = {Reporting!BucketOfAct(r.act, p) : r \in R}
    OBVIOUS
  <2>4. \A k : /\ {t \in T : kt[t] = k} = {t \in T : Reporting!BucketOf(t.ticket.born, p.mode) = k}
               /\ {r \in R : kr[r] = k} = {r \in R : Reporting!BucketOfAct(r.act, p) = k}
    OBVIOUS
  <2> HIDE DEF kt, kr
  <2>5. ReportingGroupedAs(f, T, R, p, kt, kr)
    BY <1>3, <2>1, <2>2, <2>3, <2>4 DEF ReportingGroupedAs
  <2> QED
    BY <1>4, <2>5, ReportingGroupedSums DEF f
<1>11. DOMAIN Reporting!ByBucket(T, R, p) \subseteq Reporting!Axis(p)
  <2>1. ASSUME NEW t \in T
        PROVE  Reporting!BucketOf(t.ticket.born, p.mode) \in Reporting!Axis(p)
    <3>1. t.ticket \in X /\ t.ticket \in FigureTickets
      BY <1>3
    <3>2. p.from <= t.ticket.born /\ t.ticket.born < p.to
      BY <3>1 DEF Reporting!Born
    <3>3. t.ticket.born \in Nat
      BY <3>1, ReportingHourIs, ReportingHorizonIs DEF Reporting!AnalyticsAssumption
    <3> QED
      BY <1>12, <3>2, <3>3
  <2>2. ASSUME NEW r \in R
        PROVE  Reporting!BucketOfAct(r.act, p) \in Reporting!Axis(p)
    <3>1. r.act \in A /\ r.act \in FigureWorks
      BY <1>3
    <3>2. Reporting!Slots(r.act, p) > 0
      BY <3>1 DEF Reporting!Worked
    <3>3. /\ Reporting!GreaterOf(r.act.from, p.from) \in Nat
          /\ p.from <= Reporting!GreaterOf(r.act.from, p.from)
               /\ Reporting!GreaterOf(r.act.from, p.from) < p.to
      BY <1>2, <3>1, <3>2, ReportingSlotsType
    <3> QED
      BY <1>12, <3>3 DEF Reporting!BucketOfAct
  <2>3. DOMAIN Reporting!ByBucket(T, R, p)
          = {Reporting!BucketOf(t.ticket.born, p.mode) : t \in T}
            \cup {Reporting!BucketOfAct(r.act, p) : r \in R}
    BY DEF Reporting!ByBucket, Reporting!Grouped
  <2> QED
    BY <2>1, <2>2, <2>3
<1> QED
  BY <1>5, <1>6, <1>7, <1>8, <1>9, <1>10, <1>11 DEF p, T, R, all

(* The premises of rounding one by one, by name.                           *)
ReportingRounded(g, f, S) ==
  IsFiniteSet(S) /\ \A x \in S : f[x] \in Nat /\ g[x] = Reporting!Hundredths(f[x])

LEMMA ReportingRoundedIsOff ==
  ASSUME Reporting!AnalyticsAssumption, NEW g, NEW f, NEW S, ReportingRounded(g, f, S)
  PROVE  /\ Reporting!SumFunctionOnSet(g, S) \in Int /\ Reporting!SumFunctionOnSet(f, S) \in Int
         /\ \A x \in S : g[x] \in Int
         /\ ReportingOff(Reporting!SumFunctionOnSet(g, S), Reporting!SumFunctionOnSet(f, S),
              Cardinality(S))
<1>1. IsFiniteSet(S) /\ (\A x \in S : f[x] \in Nat)
        /\ (\A x \in S : g[x] = Reporting!Hundredths(f[x]))
  BY DEF ReportingRounded
<1> QED
  BY <1>1, ReportingRoundedSum

(* The months a trend shows of a period hold its tickets.                  *)
ReportingAllCovered(p, i, j) == ReportingOfMonths(p, i, j) /\ (i < j => j - 12 <= i)
ReportingTicketsByMonth(g, tickets, M) ==
  \A m \in M : g[m] = Cardinality({t \in tickets : Reporting!MonthIndexOf(t.born) = m})

LEMMA ReportingTrendTicketsHold ==
  ASSUME Reporting!AnalyticsAssumption, v2 \subseteq FigureWorks, NEW viewer, NEW i, NEW j, NEW p,
         ReportingAllCovered(p, i, j),
         NEW g, ReportingTicketsByMonth(g, Reporting!TrendTicketsOf(viewer, p), i .. (j - 1))
  PROVE  Reporting!SumFunctionOnSet(g, i .. (j - 1)) = Cardinality(Reporting!TicketRows(viewer, p))
<1> DEFINE M == i .. (j - 1)
           X == {t \in Reporting!Scope(viewer) : Reporting!Born(t, p)}
           k == [t \in X |-> Reporting!MonthIndexOf(t.born)]
           at == [m \in M |-> {t \in X : k[t] = m}]
<1>0. ReportingOfMonths(p, i, j) /\ (i < j => j - 12 <= i)
  BY DEF ReportingAllCovered
<1>1. i \in Nat /\ j \in Nat /\ p.from = Reporting!StartOfMonth(i)
        /\ p.to = Reporting!StartOfMonth(j)
  BY <1>0 DEF ReportingOfMonths
<1>2. Reporting!WallClockAssumption
  BY ReportingHourIs
<1>3. Reporting!Scope(viewer) \in SUBSET FigureTickets /\ IsFiniteSet(Reporting!Scope(viewer))
  BY ReportingScopesAre
<1>4. IsFiniteSet(X)
  BY <1>3, FS_Subset
<1>5. IsFiniteSet(M)
  BY <1>1, FS_Interval
<1>6. ASSUME NEW t \in Reporting!Scope(viewer)
      PROVE  /\ t.born \in Nat /\ Reporting!MonthIndexOf(t.born) \in Nat
             /\ Reporting!Born(t, p) <=> Reporting!MonthIndexOf(t.born) \in M
  <2>1. t.born \in Nat
    BY <1>2, <1>3, ReportingHorizonIs DEF Reporting!AnalyticsAssumption
  <2>2. Reporting!MonthIndexOf(t.born) \in Nat
    BY <1>2, <2>1, ReportingMonthIndexIs
  <2>3. /\ Reporting!StartOfMonth(i) <= t.born <=> i <= Reporting!MonthIndexOf(t.born)
        /\ t.born < Reporting!StartOfMonth(j) <=> Reporting!MonthIndexOf(t.born) < j
    <3>1. i \in Int /\ j \in Int
      BY <1>1
    <3>2. Reporting!StartOfMonth(i) <= t.born <=> i <= Reporting!MonthIndexOf(t.born)
      BY ONLY <1>2, <2>1, <3>1, ReportingMonthsBetween
    <3>3. t.born < Reporting!StartOfMonth(j) <=> Reporting!MonthIndexOf(t.born) < j
      BY ONLY <1>2, <2>1, <3>1, ReportingMonthsBetween
    <3> QED
      BY <3>2, <3>3
  <2>4. Reporting!MonthIndexOf(t.born) \in M
          <=> i <= Reporting!MonthIndexOf(t.born) /\ Reporting!MonthIndexOf(t.born) < j
    BY <1>1, <2>2
  <2>5. Reporting!Born(t, p)
          <=> Reporting!StartOfMonth(i) <= t.born /\ t.born < Reporting!StartOfMonth(j)
    BY <1>1 DEF Reporting!Born
  <2> QED
    BY <2>1, <2>2, <2>3, <2>4, <2>5
<1>7. \A m \in M :
        at[m] = {t \in Reporting!TrendTicketsOf(viewer, p) : Reporting!MonthIndexOf(t.born) = m}
  <2>1. ASSUME NEW m \in M
        PROVE  at[m] = {t \in Reporting!TrendTicketsOf(viewer, p) :
                 Reporting!MonthIndexOf(t.born) = m}
    <3>1. i \in Int /\ j - 12 <= i
      BY <1>0, <1>1
    <3>2. /\ Reporting!TrendWindow(p).from = Reporting!StartOfMonth(j - 12)
               /\ Reporting!TrendWindow(p).to = p.to
          /\ Reporting!StartOfMonth(j - 12) \in Int
               /\ Reporting!StartOfMonth(j - 12) <= Reporting!StartOfMonth(i)
      BY <1>0, <3>1, ReportingWindowIs
    <3>3. Reporting!StartOfMonth(i) \in Int
      BY <1>2, <3>1, ReportingStartIs
    <3>4. ASSUME NEW t \in Reporting!Scope(viewer), Reporting!Born(t, p)
          PROVE  Reporting!Born(t, Reporting!TrendWindow(p))
      BY <1>1, <1>6, <3>2, <3>3, <3>4 DEF Reporting!Born
    <3>5. at[m] = {t \in Reporting!Scope(viewer) :
            Reporting!Born(t, p) /\ Reporting!MonthIndexOf(t.born) = m}
      OBVIOUS
    <3>6. Reporting!TrendTicketsOf(viewer, p)
            = {t \in Reporting!Scope(viewer) : Reporting!Born(t, Reporting!TrendWindow(p))}
      BY DEF Reporting!TrendTicketsOf
    <3> HIDE DEF at, M
    <3> QED
      BY <1>6, <2>1, <3>4, <3>5, <3>6
  <2> QED
    BY <2>1
<1>8. \A t \in X : k[t] \in M
  BY <1>6
<1>9. ReportingLabelled(k, at, X, M)
  BY <1>4, <1>5, <1>8 DEF ReportingLabelled
<1>10. ReportingCountsOf(g, at, M)
  BY <1>7 DEF ReportingCountsOf, ReportingTicketsByMonth
<1>11. Cardinality(Reporting!TicketRows(viewer, p)) = Cardinality(X)
  <2>1. p.from \in Int /\ p.to \in Int
    BY <1>1, <1>2, ReportingStartIs
  <2> QED
    BY <2>1, ReportingRowsAre
<1> HIDE DEF X, M, k, at
<1>12. Reporting!SumFunctionOnSet(g, M) = Cardinality(X)
  BY <1>9, <1>10, ReportingCountByLabel
<1> QED
  BY <1>11, <1>12 DEF M

(* ... and, up to rounding, its hours.                                     *)
LEMMA ReportingTrendHoursHold ==
  ASSUME Reporting!AnalyticsAssumption, v2 \subseteq FigureWorks, NEW viewer, NEW i, NEW j, NEW p,
         ReportingAllCovered(p, i, j),
         NEW g, \A m \in i .. (j - 1) :
           g[m] = Reporting!Hundredths(Reporting!SumFunction(
                    [a \in Reporting!TrendActsOf(viewer, p) |->
                      Reporting!SlotsIn(a, Reporting!TrendWindow(p), m)]))
  PROVE  Reporting!Near(Reporting!SumFunctionOnSet(g, i .. (j - 1)),
           Reporting!Total(Reporting!ActRows(viewer, p), p),
              Cardinality(Reporting!ActRows(viewer, p)) + Cardinality(i .. (j - 1)))
<1> DEFINE M == i .. (j - 1)
           A == Reporting!ScopeActs(viewer)
           touched == Reporting!TrendActsOf(viewer, p)
           rows == {a \in A : Reporting!Worked(a, p)}
           h == [m \in M |->
             Reporting!SumFunctionOnSet([a \in touched |->
             Reporting!SlotsIn(a, Reporting!TrendWindow(p), m)],
                                              touched)]
           s == [a \in A |-> Reporting!Slots(a, p)]
           e == [a \in rows |-> Reporting!HoursOf(a, p)]
           R == Reporting!ActRows(viewer, p)
<1>0. ReportingOfMonths(p, i, j) /\ (i < j => j - 12 <= i)
  BY DEF ReportingAllCovered
<1>1. i \in Nat /\ j \in Nat /\ p.from = Reporting!StartOfMonth(i)
        /\ p.to = Reporting!StartOfMonth(j)
  BY <1>0 DEF ReportingOfMonths
<1>2. Reporting!WallClockAssumption
  BY ReportingHourIs
<1>3. p.from \in Int /\ p.to \in Int
  BY <1>1, <1>2, ReportingStartIs
<1>4. A \in SUBSET FigureWorks /\ IsFiniteSet(A)
  BY ReportingScopesAre
<1>5. touched = {a \in A : Reporting!Touches(a, Reporting!TrendWindow(p))}
  BY DEF Reporting!TrendActsOf
<1>6. IsFiniteSet(rows) /\ IsFiniteSet(touched) /\ touched \in SUBSET FigureWorks
  BY <1>4, <1>5, FS_Subset
<1>7. IsFiniteSet(M) /\ Cardinality(M) \in Nat /\ M \subseteq Int
  <2>1. IsFiniteSet(M)
    BY <1>1, FS_Interval
  <2>2. Cardinality(M) \in Nat
    BY <2>1, FS_CardinalityType
  <2> QED
    BY <1>1, <2>1, <2>2
<1>8. ReportingRounded(g, h, M)
  <2>1. ASSUME NEW m \in M
        PROVE  h[m] \in Nat /\ g[m] = Reporting!Hundredths(h[m])
    <3> DEFINE f == [a \in touched |-> Reporting!SlotsIn(a, Reporting!TrendWindow(p), m)]
    <3>1. \A a \in touched : f[a] \in Nat
      BY <1>0, <1>6, <1>7, ReportingSlotsInIs
    <3>2. Reporting!SumFunction(f) = Reporting!SumFunctionOnSet(f, touched)
      BY ReportingSumIsOnSet
    <3>3. h[m] = Reporting!SumFunctionOnSet(f, touched)
      OBVIOUS
    <3>4. g[m] = Reporting!Hundredths(Reporting!SumFunction(f))
      OBVIOUS
    <3> HIDE DEF f, h, touched
    <3>5. Reporting!SumFunctionOnSet(f, touched) \in Nat
      BY <1>6, <3>1, ReportingSumOfPart
    <3> QED
      BY <3>2, <3>3, <3>4, <3>5
  <2> QED
    BY <1>7, <2>1 DEF ReportingRounded
<1>9. ReportingRounded(e, s, rows)
  <2>1. ASSUME NEW a \in rows
        PROVE  s[a] \in Nat /\ e[a] = Reporting!Hundredths(s[a])
    <3>1. a \in FigureWorks /\ a \in A
      BY <1>4
    <3>2. Reporting!Slots(a, p) \in Nat
            /\ Reporting!HoursOf(a, p) = Reporting!Hundredths(Reporting!Slots(a, p))
      BY <1>3, <3>1, ReportingSlotsType
    <3> QED
      BY <3>1, <3>2
  <2> QED
    BY <1>6, <2>1 DEF ReportingRounded
<1>10. Reporting!SumFunctionOnSet(h, i .. (j - 1)) = Reporting!SumFunctionOnSet(s, rows)
  <2>1. ReportingSlotsByMonth(h, touched, Reporting!TrendWindow(p), M)
    BY DEF ReportingSlotsByMonth
  <2>2. ReportingSlotsByRow(s, touched \cup rows, p)
    BY <1>5 DEF ReportingSlotsByRow
  <2>3. ReportingTouchedAndWorked(touched, rows, A, p)
    BY <1>5 DEF ReportingTouchedAndWorked
  <2> HIDE DEF h, s, rows, touched, A
  <2> QED
    BY <1>0, <1>4, <2>1, <2>2, <2>3, ReportingTrendOfRows
<1>11. /\ Cardinality(R) = Cardinality(rows)
       /\ Reporting!Total(R, p) = Reporting!SumFunctionOnSet(e, rows)
  BY <1>3, ReportingRowsAre
<1>12. Cardinality(rows) \in Nat
  BY <1>6, FS_CardinalityType
<1> HIDE DEF M, A, rows, h, s, e, R
<1>13. /\ Reporting!SumFunctionOnSet(g, M) \in Int /\ Reporting!SumFunctionOnSet(h, M) \in Int
       /\ ReportingOff(Reporting!SumFunctionOnSet(g, M), Reporting!SumFunctionOnSet(h, M),
            Cardinality(M))
  BY <1>8, ReportingRoundedIsOff
<1>14. /\ Reporting!SumFunctionOnSet(e, rows) \in Int /\ Reporting!SumFunctionOnSet(s, rows) \in Int
       /\ ReportingOff(Reporting!SumFunctionOnSet(e, rows), Reporting!SumFunctionOnSet(s, rows),
            Cardinality(rows))
  BY <1>9, ReportingRoundedIsOff
<1>15. Reporting!SumFunctionOnSet(h, M) = Reporting!SumFunctionOnSet(s, rows)
  BY <1>10 DEF M
<1>16. ReportingOff(Reporting!SumFunctionOnSet(g, M), Reporting!SumFunctionOnSet(s, rows),
         Cardinality(M))
  BY <1>13, <1>15
<1>17. Reporting!Near(Reporting!SumFunctionOnSet(g, M), Reporting!SumFunctionOnSet(e, rows),
         Cardinality(rows) + Cardinality(M))
  BY <1>7, <1>12, <1>13, <1>14, <1>16, ReportingNearBy
<1> QED
  BY <1>11, <1>17 DEF M, R

(* The figures of what there is add up.                                    *)
ReportingTrendAgrees(p, T, R, tickets, trendActs) ==
  LET trend == Reporting!Trend(p, tickets, trendActs)
  IN /\ Reporting!SumFunction([m \in ReportingCovered(p) |-> trend[m].tickets])
          = Reporting!Cardinality(T)
     /\ Reporting!Near(Reporting!SumFunction([m \in ReportingCovered(p) |-> trend[m].hours]),
          Reporting!Total(R, p),
             Reporting!Cardinality(R) + Reporting!Cardinality(ReportingCovered(p)))

LEMMA ReportingTrendHolds ==
  ASSUME Reporting!AnalyticsAssumption, v2 \subseteq FigureWorks, NEW viewer,
         NEW q \in FigureQueries, NEW p,
         p = Reporting!Resolve(q, Reporting!Scope(viewer)), p.mode # "date",
         Reporting!Cardinality(ReportingCovered(p))
           = Reporting!MonthIndexOf(p.to - 1) - Reporting!MonthIndexOf(p.from) + 1
  PROVE  ReportingTrendAgrees(p, Reporting!TicketRows(viewer, p), Reporting!ActRows(viewer, p),
                     Reporting!TrendTicketsOf(viewer, p), Reporting!TrendActsOf(viewer, p))
<1> DEFINE T == Reporting!TicketRows(viewer, p)
           R == Reporting!ActRows(viewer, p)
           tickets == Reporting!TrendTicketsOf(viewer, p)
           touched == Reporting!TrendActsOf(viewer, p)
           trend == Reporting!Trend(p, tickets, touched)
           C == ReportingCovered(p)
           counts == [m \in C |-> trend[m].tickets]
           hours == [m \in C |-> trend[m].hours]
<1>1. Reporting!Scope(viewer) \in SUBSET FigureTickets
  BY ReportingScopesAre
<1>2. PICK i \in Nat, j \in Nat : ReportingOfMonths(p, i, j)
  BY <1>1, ReportingResolveIs
<1>3. C = i .. (j - 1) /\ ReportingAllCovered(p, i, j)
  BY <1>2, ReportingCoveredIs DEF ReportingAllCovered
<1>4. DOMAIN trend = Reporting!TrendMonths(p) /\ C \subseteq Reporting!TrendMonths(p)
  BY DEF Reporting!Trend, ReportingCovered
<1>5. \A m \in C : /\ counts[m] = Cardinality({t \in tickets : Reporting!MonthIndexOf(t.born) = m})
                   /\ hours[m] = Reporting!Hundredths(Reporting!SumFunction(
                                   [a \in touched |->
                                     Reporting!SlotsIn(a, Reporting!TrendWindow(p), m)]))
  BY <1>4, ReportingCardinality DEF Reporting!Trend
<1>6. /\ Reporting!SumFunction(counts) = Reporting!SumFunctionOnSet(counts, C)
      /\ Reporting!SumFunction(hours) = Reporting!SumFunctionOnSet(hours, C)
  BY ReportingSumIsOnSet
<1> HIDE DEF counts, hours, C, trend
<1>7. Reporting!SumFunctionOnSet(counts, i .. (j - 1)) = Cardinality(T)
  <2>1. ReportingTicketsByMonth(counts, Reporting!TrendTicketsOf(viewer, p), i .. (j - 1))
    BY <1>3, <1>5 DEF ReportingTicketsByMonth
  <2> QED
    BY <1>3, <2>1, ReportingTrendTicketsHold
<1>8. Reporting!Near(Reporting!SumFunctionOnSet(hours, i .. (j - 1)), Reporting!Total(R, p),
            Cardinality(R) + Cardinality(i .. (j - 1)))
  <2>1. \A m \in i .. (j - 1) :
          hours[m] = Reporting!Hundredths(Reporting!SumFunction(
                       [a \in Reporting!TrendActsOf(viewer, p) |->
                         Reporting!SlotsIn(a, Reporting!TrendWindow(p), m)]))
    BY <1>3, <1>5
  <2> QED
    BY <1>3, <2>1, ReportingTrendHoursHold
<1>9. /\ Reporting!SumFunction([m \in ReportingCovered(p) |-> trend[m].tickets])
           = Reporting!SumFunction(counts)
       /\ Reporting!SumFunction([m \in ReportingCovered(p) |-> trend[m].hours])
            = Reporting!SumFunction(hours)
  BY DEF counts, hours, C
<1>10. Reporting!SumFunction(counts) = Reporting!Cardinality(T)
  BY <1>3, <1>6, <1>7, ReportingCardinality
<1>11. Reporting!Cardinality(R) = Cardinality(R)
         /\ Reporting!Cardinality(ReportingCovered(p)) = Cardinality(i .. (j - 1))
  BY <1>3, ReportingCardinality DEF C
<1>12. Reporting!Near(Reporting!SumFunction(hours), Reporting!Total(R, p), Reporting!Cardinality(R)
         + Reporting!Cardinality(ReportingCovered(p)))
  BY <1>3, <1>6, <1>8, <1>11
<1> HIDE DEF T, R, tickets, touched
<1>13. ReportingTrendAgrees(p, T, R, tickets, touched)
  BY <1>9, <1>10, <1>12 DEF ReportingTrendAgrees, trend
<1> QED
  BY <1>13 DEF T, R, tickets, touched

LEMMA ReportingFiguresMean ==
  ASSUME Reporting!AnalyticsAssumption, Reporting!IInv
  PROVE  Reporting!FiguresAddUp
<1> DEFINE p == v3.period
           viewer == v3.viewer
           T == v3.tickets
           R == v3.rows
           tickets == v3.trendTickets
           touched == v3.trendActs
           all == Reporting!Kpis(T, R, p)
<1>1. SUFFICES ASSUME v3.pc = "given", v3.calm
               PROVE  Reporting!FiguresAddUp
  BY DEF Reporting!FiguresAddUp
<1>2. v2 \subseteq FigureWorks
  BY DEF Reporting!IInv, Reporting!TypeOK, Reporting!FiguresTypeOK
<1>3. v3.left = {} /\ Reporting!AnswerCurrent
  BY <1>1 DEF Reporting!IInv
<1>4. PICK q \in FigureQueries : p = Reporting!Resolve(q, Reporting!Scope(viewer))
  BY <1>3 DEF Reporting!AnswerCurrent
<1>5. /\ T = Reporting!TicketRows(viewer, p) /\ R = Reporting!ActRows(viewer, p)
      /\ tickets = Reporting!TrendTicketsOf(viewer, p) /\ touched = Reporting!TrendActsOf(viewer, p)
  BY <1>1, <1>3 DEF Reporting!AnswerCurrent
<1> HIDE DEF p, viewer, T, R, tickets, touched
<1>6. /\ all.tickets = all.concluded + all.open
      /\ Reporting!Sums(Reporting!ByStatus(T, R, p), all.tickets, all.hours)
      /\ Reporting!Sums(Reporting!ByModule(T, R, p), all.tickets, all.hours)
      /\ Reporting!Sums(Reporting!ByClient(T, R, p), all.tickets, all.hours)
      /\ Reporting!Sums(Reporting!ByTechnician(T, R, p),
           Reporting!Cardinality({t \in T : t.ticket.technician # NoName}), all.hours)
      /\ Reporting!Sums(Reporting!ByBucket(T, R, p), all.tickets, all.hours)
      /\ DOMAIN Reporting!ByBucket(T, R, p) \subseteq Reporting!Axis(p)
  BY <1>2, <1>4, <1>5, ReportingChartsHold
<1>7. p.mode # "date"
        /\ Reporting!Cardinality(ReportingCovered(p))
           = Reporting!MonthIndexOf(p.to - 1) - Reporting!MonthIndexOf(p.from) + 1
        => ReportingTrendAgrees(p, T, R, tickets, touched)
  BY <1>2, <1>4, <1>5, ReportingTrendHolds
<1>8. DOMAIN Reporting!Trend(p, tickets,
        touched) \cap (Reporting!MonthIndexOf(p.from) .. Reporting!MonthIndexOf(p.to - 1))
        = ReportingCovered(p)
  BY DEF Reporting!Trend, ReportingCovered
<1>9. all.tickets = Reporting!Cardinality(T) /\ all.hours = Reporting!Total(R, p)
  BY ReportingCardinality DEF Reporting!Kpis
<1> HIDE DEF all
<1>10. p.mode # "date"
         /\ Reporting!Cardinality(ReportingCovered(p))
            = Reporting!MonthIndexOf(p.to - 1) - Reporting!MonthIndexOf(p.from) + 1
         => LET trend == Reporting!Trend(p, tickets, touched)
            IN /\ Reporting!SumFunction([m \in ReportingCovered(p) |-> trend[m].tickets])
                    = all.tickets
               /\ Reporting!Near(Reporting!SumFunction([m \in ReportingCovered(p) |->
                    trend[m].hours]), all.hours,
                       Reporting!Cardinality(R) + Reporting!Cardinality(ReportingCovered(p)))
  BY <1>7, <1>9 DEF ReportingTrendAgrees
<1> QED
  BY <1>6, <1>8, <1>10, ReportingCardinality
     DEF Reporting!FiguresAddUp, p, T, R, tickets, touched, all

(* The totals of a report.                                                 *)
ReportingReportOf(r) ==
  r.acts \in SUBSET FigureWorks /\ r.window.from \in Int /\ r.window.to \in Int
ReportingSlotsEach(r) == [a \in r.acts |-> Reporting!Slots(a, r.window)]
ReportingAllSlots(r) == Reporting!SumFunctionOnSet(ReportingSlotsEach(r), r.acts)
ReportingPartsOf(r, k, M, t) ==
  /\ IsFiniteSet(M) /\ \A a \in r.acts : k[a] \in M
  /\ \A m \in M : t[m] = Reporting!Hundredths(Reporting!SlotsOf(r, {a \in r.acts : k[a] = m}))

LEMMA ReportingReportSlots ==
  ASSUME Reporting!AnalyticsAssumption, NEW r, ReportingReportOf(r)
  PROVE  /\ IsFiniteSet(r.acts) /\ \A a \in r.acts : ReportingSlotsEach(r)[a] \in Nat
         /\ \A S \in SUBSET r.acts :
              /\ Reporting!SlotsOf(r, S) = Reporting!SumFunctionOnSet(ReportingSlotsEach(r), S)
                                     /\ Reporting!SlotsOf(r, S) \in Nat
<1> DEFINE f == ReportingSlotsEach(r)
<1>1. r.acts \in SUBSET FigureWorks /\ r.window.from \in Int /\ r.window.to \in Int
  BY DEF ReportingReportOf
<1>2. IsFiniteSet(r.acts)
  <2>1. IsFiniteSet(FigureWorks)
    BY ReportingFinite DEF Reporting!AnalyticsAssumption
  <2> QED
    BY <1>1, <2>1, FS_Subset
<1>3. \A a \in r.acts : f[a] = Reporting!Slots(a, r.window) /\ f[a] \in Nat
  BY <1>1, ReportingSlotsType DEF ReportingSlotsEach
<1>4. ASSUME NEW S \in SUBSET r.acts
      PROVE  Reporting!SlotsOf(r, S) = Reporting!SumFunctionOnSet(f, S)
               /\ Reporting!SlotsOf(r, S) \in Nat
  <2> DEFINE g == [a \in S |-> Reporting!Slots(a, r.window)]
  <2>1. Reporting!SlotsOf(r, S) = Reporting!SumFunctionOnSet(g, S)
    <3>1. Reporting!SlotsOf(r, S) = Reporting!SumFunction(g) /\ DOMAIN g = S
      BY DEF Reporting!SlotsOf
    <3> HIDE DEF g
    <3> QED
      BY <3>1, ReportingSumIsOnSet
  <2>2. IsFiniteSet(S) /\ \A a \in S : f[a] \in Int /\ g[a] = f[a]
    BY <1>2, <1>3, FS_Subset
  <2> HIDE DEF f, g
  <2>3. Reporting!SumFunctionOnSet(g, S) = Reporting!SumFunctionOnSet(f, S)
    BY <2>2, ReportingSumSame
  <2>4. Reporting!SumFunctionOnSet(f, S) \in Nat
    BY <1>2, <1>3, ReportingSumOfPart
  <2> QED
    BY <2>1, <2>3, <2>4
<1> QED
  BY <1>2, <1>3, <1>4

LEMMA ReportingPartsRounded ==
  ASSUME Reporting!AnalyticsAssumption, NEW r, ReportingReportOf(r), NEW k, NEW M, NEW t,
         ReportingPartsOf(r, k, M, t)
  PROVE  /\ Reporting!SumFunctionOnSet(t, M) \in Int /\ ReportingAllSlots(r) \in Int
              /\ Cardinality(M) \in Int
         /\ ReportingOff(Reporting!SumFunctionOnSet(t, M), ReportingAllSlots(r), Cardinality(M))
<1> DEFINE f == ReportingSlotsEach(r)
           at == [m \in M |-> {a \in r.acts : k[a] = m}]
           g == [m \in M |-> Reporting!SlotsOf(r, at[m])]
<1>1. /\ IsFiniteSet(M) /\ \A a \in r.acts : k[a] \in M
      /\ \A m \in M : t[m] = Reporting!Hundredths(Reporting!SlotsOf(r, {a \in r.acts : k[a] = m}))
  BY DEF ReportingPartsOf
<1>2. /\ IsFiniteSet(r.acts) /\ \A a \in r.acts : f[a] \in Nat
      /\ \A S \in SUBSET r.acts :
           Reporting!SlotsOf(r, S) = Reporting!SumFunctionOnSet(f, S)
           /\ Reporting!SlotsOf(r, S) \in Nat
  BY ReportingReportSlots
<1>3. \A m \in M : at[m] = {a \in r.acts : k[a] = m} /\ at[m] \in SUBSET r.acts
  OBVIOUS
<1> HIDE DEF f, at
<1>4. ReportingLabelled(k, at, r.acts, M)
  BY <1>1, <1>2, <1>3 DEF ReportingLabelled
<1>5. ReportingSumsOf(g, f, at, M)
  BY <1>2, <1>3 DEF ReportingSumsOf
<1>6. ReportingAllInt(f, r.acts)
  BY <1>2 DEF ReportingAllInt
<1>7. ReportingRounded(t, g, M)
  BY <1>1, <1>2, <1>3 DEF ReportingRounded
<1> HIDE DEF g
<1>8. Reporting!SumFunctionOnSet(g, M) = Reporting!SumFunctionOnSet(f, r.acts)
  BY <1>4, <1>5, <1>6, ReportingSumByLabel
<1>9. /\ Reporting!SumFunctionOnSet(t, M) \in Int /\ Reporting!SumFunctionOnSet(g, M) \in Int
      /\ ReportingOff(Reporting!SumFunctionOnSet(t, M), Reporting!SumFunctionOnSet(g, M),
           Cardinality(M))
  BY <1>7, ReportingRoundedIsOff
<1>10. Cardinality(M) \in Int
  BY <1>1, FS_CardinalityType
<1> QED
  BY <1>8, <1>9, <1>10 DEF ReportingAllSlots, f

LEMMA ReportingReportTotals ==
  ASSUME Reporting!AnalyticsAssumption, NEW r, ReportingReportOf(r)
  PROVE  /\ IsFiniteSet(Reporting!TicketsIn(r)) /\ Reporting!TicketsIn(r) \subseteq Int
              /\ IsFiniteSet(Reporting!Authors(r))
         /\ Cardinality(Reporting!TicketsIn(r)) \in Int /\ Cardinality(Reporting!Authors(r)) \in Int
         /\ Reporting!ActivityReportTotal(r) \in Int /\ ReportingAllSlots(r) \in Int
         /\ ReportingOff(Reporting!ActivityReportTotal(r), ReportingAllSlots(r),
              Cardinality(Reporting!TicketsIn(r)))
         /\ Reporting!SumFunction([u \in Reporting!Authors(r) |-> Reporting!TechnicianTotal(r, u)])
              \in Int
         /\ ReportingOff(Reporting!SumFunction([u \in Reporting!Authors(r) |->
              Reporting!TechnicianTotal(r, u)]), ReportingAllSlots(r),
                Cardinality(Reporting!Authors(r)))
<1> DEFINE byTicket == [a \in r.acts |-> a.ticket]
           byAuthor == [a \in r.acts |-> a.author]
           M == Reporting!TicketsIn(r)
           U == Reporting!Authors(r)
           t == [ticket \in M |-> Reporting!TicketTotal(r, ticket)]
           u == [author \in U |-> Reporting!TechnicianTotal(r, author)]
<1>1. IsFiniteSet(r.acts) /\ r.acts \in SUBSET FigureWorks
  BY ReportingReportSlots DEF ReportingReportOf
<1>2. /\ \A a \in r.acts : byTicket[a] \in M /\ byAuthor[a] \in U
      /\ \A m \in M : \E a \in r.acts : byTicket[a] = m
      /\ \A m \in U : \E a \in r.acts : byAuthor[a] = m
  BY DEF Reporting!TicketsIn, Reporting!Authors
<1>3. M \subseteq Int
  BY <1>1 DEF Reporting!TicketsIn, Reporting!AnalyticsAssumption
<1>4. \A m \in M :
        t[m] = Reporting!Hundredths(Reporting!SlotsOf(r, {a \in r.acts : byTicket[a] = m}))
  <2>1. \A m : {a \in r.acts : byTicket[a] = m} = Reporting!WorkOn(r, m)
    BY DEF Reporting!WorkOn
  <2> HIDE DEF byTicket
  <2> QED
    BY <2>1 DEF Reporting!TicketTotal
<1>5. \A m \in U :
        u[m] = Reporting!Hundredths(Reporting!SlotsOf(r, {a \in r.acts : byAuthor[a] = m}))
  <2>1. \A m : {a \in r.acts : byAuthor[a] = m} = {a \in r.acts : a.author = m}
    OBVIOUS
  <2> HIDE DEF byAuthor
  <2> QED
    BY <2>1 DEF Reporting!TechnicianTotal
<1>6. Reporting!ActivityReportTotal(r) = Reporting!SumFunctionOnSet(t, M)
  <2>1. Reporting!ActivityReportTotal(r) = Reporting!SumFunction(t) /\ DOMAIN t = M
    BY DEF Reporting!ActivityReportTotal
  <2> HIDE DEF t
  <2> QED
    BY <2>1, ReportingSumIsOnSet
<1>7. Reporting!SumFunction([author \in U |-> Reporting!TechnicianTotal(r, author)])
        = Reporting!SumFunctionOnSet(u, U)
  BY ReportingSumIsOnSet
<1> HIDE DEF byTicket, byAuthor, M, U, t, u
<1>8. IsFiniteSet(M)
  BY <1>1, <1>2, ReportingImageIsFinite
<1>9. IsFiniteSet(U)
  BY <1>1, <1>2, ReportingImageIsFinite
<1>10. ReportingPartsOf(r, byTicket, M, t)
  BY <1>2, <1>4, <1>8 DEF ReportingPartsOf
<1>11. ReportingPartsOf(r, byAuthor, U, u)
  BY <1>2, <1>5, <1>9 DEF ReportingPartsOf
<1>12. /\ Reporting!SumFunctionOnSet(t, M) \in Int /\ ReportingAllSlots(r) \in Int
            /\ Cardinality(M) \in Int
       /\ ReportingOff(Reporting!SumFunctionOnSet(t, M), ReportingAllSlots(r), Cardinality(M))
  BY <1>10, ReportingPartsRounded
<1>13. /\ Reporting!SumFunctionOnSet(u, U) \in Int /\ Cardinality(U) \in Int
       /\ ReportingOff(Reporting!SumFunctionOnSet(u, U), ReportingAllSlots(r), Cardinality(U))
  BY <1>11, ReportingPartsRounded
<1> QED
  BY <1>3, <1>6, <1>7, <1>8, <1>9, <1>12, <1>13 DEF M, U

(* Row by row, as the services report and the dashboard have it.           *)
LEMMA ReportingRowTotals ==
  ASSUME Reporting!AnalyticsAssumption, NEW r, ReportingReportOf(r), NEW w, w.from = r.window.from,
         w.to = r.window.to,
         NEW e, \A a \in r.acts : e[a] = Reporting!HoursOf(a, w)
  PROVE  /\ Reporting!SumFunctionOnSet(e, r.acts) \in Int /\ Cardinality(r.acts) \in Int
         /\ ReportingOff(Reporting!SumFunctionOnSet(e, r.acts), ReportingAllSlots(r),
              Cardinality(r.acts))
<1> DEFINE f == ReportingSlotsEach(r)
<1>1. IsFiniteSet(r.acts) /\ \A a \in r.acts : f[a] \in Nat
  BY ReportingReportSlots
<1>2. \A a \in r.acts : e[a] = Reporting!Hundredths(f[a])
  BY DEF ReportingSlotsEach, Reporting!HoursOf, Reporting!Slots, Reporting!Clipped
<1>3. ReportingRounded(e, f, r.acts)
  <2> HIDE DEF f
  <2> QED
    BY <1>1, <1>2 DEF ReportingRounded
<1>4. Cardinality(r.acts) \in Int
  BY <1>1, FS_CardinalityType
<1>5. /\ Reporting!SumFunctionOnSet(e, r.acts) \in Int
      /\ ReportingOff(Reporting!SumFunctionOnSet(e, r.acts), Reporting!SumFunctionOnSet(f, r.acts),
           Cardinality(r.acts))
  <2> HIDE DEF f
  <2> QED
    BY <1>3, ReportingRoundedIsOff
<1> QED
  BY <1>4, <1>5 DEF ReportingAllSlots

(* Every activity of a report is listed, under its ticket.                 *)
LEMMA ReportingReportListed ==
  ASSUME Reporting!AnalyticsAssumption, NEW r, ReportingReportOf(r)
  PROVE  /\ Len(Reporting!ReportTickets(r)) = Cardinality(Reporting!TicketsIn(r))
         /\ Len(Reporting!ServiceRows(r)) = Cardinality(r.acts)
         /\ \A a \in r.acts :
              \E i \in DOMAIN Reporting!ReportTickets(r) :
                LET listed == Reporting!ActivitiesOf(r, Reporting!ReportTickets(r)[i])
                IN \E j \in DOMAIN listed : listed[j] = a
<1>1. IsFiniteSet(r.acts) /\ r.acts \in SUBSET FigureWorks /\ r.window.to \in Int
  BY ReportingReportSlots DEF ReportingReportOf
<1>2. IsFiniteSet(Reporting!TicketsIn(r)) /\ Reporting!TicketsIn(r) \subseteq Int
  BY ReportingReportTotals
<1>3. /\ Len(Reporting!ReportTickets(r)) = Cardinality(Reporting!TicketsIn(r))
      /\ \A x \in Reporting!TicketsIn(r) : \E i \in DOMAIN Reporting!ReportTickets(r) :
           Reporting!ReportTickets(r)[i] = x
  <2> DEFINE key == [id \in Reporting!TicketsIn(r) |-> id]
  <2>1. \A x \in Reporting!TicketsIn(r) : key[x] \in Int
    BY <1>2
  <2>2. Reporting!ReportTickets(r) = Reporting!InOrder(Reporting!TicketsIn(r), key)
    BY DEF Reporting!ReportTickets
  <2> HIDE DEF key
  <2> QED
    BY <1>2, <2>1, <2>2, ReportingInOrderIs
<1>4. \A a \in r.acts : a.from \in Int /\ a.to \in Int
  <2>1. Reporting!Horizon \in Nat
    BY ReportingHourIs, ReportingHorizonIs
  <2> QED
    BY <1>1, <2>1 DEF Reporting!AnalyticsAssumption
<1>5. ASSUME NEW x
      PROVE  \A a \in Reporting!WorkOn(r, x) : \E j \in DOMAIN Reporting!ActivitiesOf(r, x) :
               Reporting!ActivitiesOf(r, x)[j] = a
  <2> DEFINE S == Reporting!WorkOn(r, x)
             key == [a \in S |-> a.from]
  <2>1. S \in SUBSET r.acts
    BY DEF Reporting!WorkOn
  <2>2. IsFiniteSet(S)
    BY <1>1, <2>1, FS_Subset
  <2>3. \A a \in S : key[a] \in Int
    BY <1>4, <2>1
  <2>4. Reporting!ActivitiesOf(r, x) = Reporting!InOrder(S, key)
    BY DEF Reporting!ActivitiesOf
  <2> HIDE DEF key, S
  <2>5. \A a \in S : \E j \in DOMAIN Reporting!InOrder(S, key) : Reporting!InOrder(S, key)[j] = a
    BY <2>2, <2>3, ReportingInOrderIs
  <2> QED
    BY <2>4, <2>5 DEF S
<1>6. Len(Reporting!ServiceRows(r)) = Cardinality(r.acts)
  <2> DEFINE key == [a \in r.acts |-> 0 - Reporting!EndShown(r, a)]
  <2>1. \A a \in r.acts : key[a] \in Int
    BY <1>1, <1>4 DEF Reporting!EndShown, Reporting!LesserOf
  <2>2. Reporting!ServiceRows(r) = Reporting!InOrder(r.acts, key)
    BY DEF Reporting!ServiceRows
  <2> HIDE DEF key
  <2> QED
    BY <1>1, <2>1, <2>2, ReportingInOrderIs
<1>7. ASSUME NEW a \in r.acts
      PROVE  \E i \in DOMAIN Reporting!ReportTickets(r) :
               \E j \in DOMAIN Reporting!ActivitiesOf(r, Reporting!ReportTickets(r)[i]) :
                 Reporting!ActivitiesOf(r, Reporting!ReportTickets(r)[i])[j] = a
  <2>1. a.ticket \in Reporting!TicketsIn(r) /\ a \in Reporting!WorkOn(r, a.ticket)
    BY DEF Reporting!TicketsIn, Reporting!WorkOn
  <2>2. PICK i \in DOMAIN Reporting!ReportTickets(r) : Reporting!ReportTickets(r)[i] = a.ticket
    BY <1>3, <2>1
  <2>3. \E j \in DOMAIN Reporting!ActivitiesOf(r, a.ticket) :
          Reporting!ActivitiesOf(r, a.ticket)[j] = a
    BY <1>5, <2>1
  <2> QED
    BY <2>2, <2>3
<1> QED
  BY <1>3, <1>6, <1>7

LEMMA ReportingTotalsMean ==
  ASSUME Reporting!AnalyticsAssumption, Reporting!IInv
  PROVE  Reporting!ReportsAgree
<1> DEFINE r == v4
           A == r.acts
           w == r.window
           n == Cardinality(Reporting!TicketsIn(r))
           shown == Reporting!ActivityReportTotal(r)
           e == [a \in A |-> Reporting!HoursOf(a, w)]
<1>1. SUFFICES ASSUME v4.kind \in {"activities", "services"}
               PROVE  Reporting!ReportsAgree
  BY DEF Reporting!ReportsAgree
<1>2. v2 \subseteq FigureWorks
  BY DEF Reporting!IInv, Reporting!TypeOK, Reporting!FiguresTypeOK
<1>3. Reporting!ReportCurrent
  BY <1>1 DEF Reporting!IInv
<1>4. /\ r.first \in Int /\ r.last \in Int /\ PerDay \in Int
      /\ w.from = PerDay * r.first /\ w.to = PerDay * (r.last + 1)
      /\ w.from \in Int /\ w.to \in Int
  <2>1. r.first \in Int /\ r.last \in Int /\ PerDay \in Int
    BY <1>3, ReportingHourIs DEF Reporting!ReportCurrent, Reporting!WallClockAssumption
  <2>2. w.from = PerDay * r.first /\ w.to = PerDay * (r.last + 1)
    BY <1>3 DEF Reporting!ReportCurrent
  <2> QED
    BY <2>1, <2>2
<1>5. A = Reporting!Found(r.viewer, w)
  BY <1>3 DEF Reporting!ReportCurrent
<1>6. A = {a \in Reporting!ScopeActs(r.viewer) : Reporting!Worked(a, w)} /\ A \in SUBSET FigureWorks
  BY <1>2, <1>5, ReportingScopesAre DEF Reporting!Found
<1>7. ReportingReportOf(r)
  BY <1>4, <1>6 DEF ReportingReportOf
<1> HIDE DEF A, w, r
<1>8. /\ Len(Reporting!ReportTickets(r)) = n /\ Len(Reporting!ServiceRows(r)) = Cardinality(r.acts)
      /\ \A a \in r.acts :
           \E i \in DOMAIN Reporting!ReportTickets(r) :
             LET listed == Reporting!ActivitiesOf(r, Reporting!ReportTickets(r)[i])
             IN \E j \in DOMAIN listed : listed[j] = a
  BY <1>7, ReportingReportListed
<1>9. /\ n \in Int /\ Cardinality(Reporting!Authors(r)) \in Int /\ shown \in Int
           /\ ReportingAllSlots(r) \in Int
      /\ ReportingOff(shown, ReportingAllSlots(r), n)
      /\ Reporting!SumFunction([u \in Reporting!Authors(r) |-> Reporting!TechnicianTotal(r, u)])
           \in Int
      /\ ReportingOff(Reporting!SumFunction([u \in Reporting!Authors(r) |->
           Reporting!TechnicianTotal(r, u)]), ReportingAllSlots(r),
             Cardinality(Reporting!Authors(r)))
  BY <1>7, ReportingReportTotals
<1> HIDE DEF n, shown
<1>10. Reporting!Near(shown,
         Reporting!SumFunction([u \in Reporting!Authors(r) |-> Reporting!TechnicianTotal(r, u)]),
            Cardinality(Reporting!Authors(r)) + n)
  BY <1>9, ReportingNearBy
<1>11. Reporting!Near(shown, Reporting!ServicesTotal(r), Cardinality(r.acts) + n)
  <2> DEFINE f == [a \in r.acts |-> Reporting!HoursOf(a, r.window)]
  <2>1. Reporting!ServicesTotal(r) = Reporting!SumFunctionOnSet(f, r.acts)
    <3>1. Reporting!ServicesTotal(r) = Reporting!SumFunction(f) /\ DOMAIN f = r.acts
      BY DEF Reporting!ServicesTotal
    <3> HIDE DEF f
    <3> QED
      BY <3>1, ReportingSumIsOnSet
  <2>2. \A a \in r.acts : f[a] = Reporting!HoursOf(a, r.window)
    OBVIOUS
  <2> HIDE DEF f
  <2>3. /\ Reporting!SumFunctionOnSet(f, r.acts) \in Int /\ Cardinality(r.acts) \in Int
        /\ ReportingOff(Reporting!SumFunctionOnSet(f, r.acts), ReportingAllSlots(r),
             Cardinality(r.acts))
    BY <1>7, <2>2, ReportingRowTotals
  <2> QED
    BY <1>9, <2>1, <2>3, ReportingNearBy
<1>12. ASSUME v3.pc = "given", v3.calm, v3.viewer = r.viewer,
              v3.period.from = PerDay * r.first, v3.period.to = PerDay * (r.last + 1)
       PROVE  Reporting!Near(shown, Reporting!Kpis(v3.tickets, v3.rows, v3.period).hours,
                   Cardinality(v3.rows) + n)
  <2> DEFINE p == v3.period
             R == v3.rows
             f == [a \in r.acts |-> Reporting!HoursOf(a, p)]
  <2>1. v3.left = {} /\ Reporting!AnswerCurrent
    BY <1>12 DEF Reporting!IInv
  <2>2. R = Reporting!ActRows(r.viewer, p)
    BY <1>12, <2>1 DEF Reporting!AnswerCurrent
  <2>3. p.from = w.from /\ p.to = w.to /\ p.from \in Int /\ p.to \in Int
    BY <1>4, <1>12
  <2>4. Reporting!Kpis(v3.tickets, R, p).hours = Reporting!Total(R, p)
    BY DEF Reporting!Kpis
  <2>5. \A a : Reporting!Worked(a, p) <=> Reporting!Worked(a, w)
    BY <2>3 DEF Reporting!Worked, Reporting!Touches, Reporting!Slots, Reporting!Clipped
  <2>6. r.acts = {a \in Reporting!ScopeActs(r.viewer) : Reporting!Worked(a, p)}
    BY <1>6, <2>5 DEF A
  <2> HIDE DEF p, R
  <2>7. /\ Cardinality(R) = Cardinality(r.acts)
        /\ Reporting!Total(R, p) = Reporting!SumFunctionOnSet(f, r.acts)
    BY <1>2, <2>2, <2>3, <2>6, ReportingRowsAre
  <2>8. \A a \in r.acts : f[a] = Reporting!HoursOf(a, p)
    OBVIOUS
  <2> HIDE DEF f
  <2>9. /\ Reporting!SumFunctionOnSet(f, r.acts) \in Int /\ Cardinality(r.acts) \in Int
        /\ ReportingOff(Reporting!SumFunctionOnSet(f, r.acts), ReportingAllSlots(r),
             Cardinality(r.acts))
    BY <1>7, <2>3, <2>8, ReportingRowTotals DEF w
  <2>10. Reporting!Near(shown, Reporting!SumFunctionOnSet(f, r.acts), Cardinality(r.acts) + n)
    BY <1>9, <2>9, ReportingNearBy
  <2> QED
    BY <2>4, <2>7, <2>10 DEF p, R
<1> QED
  BY <1>8, <1>10, <1>11, <1>12, ReportingCardinality DEF Reporting!ReportsAgree, r, n, shown

(* The parts of the invariant, of an answer and of a report.               *)
ReportingRowsGood ==
  /\ v1 \in [FigureTickets -> FigureStatuses \cup {Reporting!None}]
  /\ v2 \subseteq FigureWorks /\ \A a \in v2 : Reporting!TicketOf(a) \in Reporting!Opened
ReportingWholeAs(a) ==
  a = [pc |-> a.pc, viewer |-> a.viewer, period |-> a.period, left |-> a.left,
       tickets |-> a.tickets, rows |-> a.rows, backlog |-> a.backlog,
       trendTickets |-> a.trendTickets, trendActs |-> a.trendActs, calm |-> a.calm]
ReportingShapeAs(a) ==
  /\ ReportingWholeAs(a) /\ a.pc \in {"none", "period", "trend", "given"}
  /\ a.left \subseteq Reporting!Statements \cup Reporting!TrendStatements
  /\ a.trendActs \subseteq FigureWorks /\ a.calm \in BOOLEAN
  /\ a.pc = "period" => a.left \subseteq Reporting!Statements
  /\ a.pc = "trend" => a.left \subseteq Reporting!TrendStatements
  /\ a.pc = "given" => a.left = {}
ReportingCurrentAs(a) ==
  /\ \E q \in FigureQueries : a.period = Reporting!Resolve(q, Reporting!Scope(a.viewer))
  /\ "tickets" \notin a.left => a.tickets = Reporting!TicketRows(a.viewer, a.period)
  /\ "activities" \notin a.left => a.rows = Reporting!ActRows(a.viewer, a.period)
  /\ a.pc # "period" /\ "trendTickets" \notin a.left =>
       a.trendTickets = Reporting!TrendTicketsOf(a.viewer, a.period)
  /\ a.pc # "period" /\ "trendActivities" \notin a.left =>
       a.trendActs = Reporting!TrendActsOf(a.viewer, a.period)
ReportingAnswerGood(a) == ReportingShapeAs(a) /\ (a.pc # "none" /\ a.calm => ReportingCurrentAs(a))
ReportingBuiltAs(r) ==
  /\ r.first \in Int /\ r.last \in Int
  /\ r.window = [from |-> PerDay * r.first, to |-> PerDay * (r.last + 1)]
  /\ r.acts = Reporting!Found(r.viewer, r.window)
ReportingPaperGood(r) ==
  /\ r.kind \in {"none", "400", "activities", "services"} /\ r.acts \subseteq FigureWorks
  /\ r.kind \in {"activities", "services"} => ReportingBuiltAs(r)

LEMMA ReportingParts ==
  Reporting!IInv <=> ReportingRowsGood /\ ReportingAnswerGood(v3) /\ ReportingPaperGood(v4)
<1>1. Reporting!AnswerWhole <=> ReportingWholeAs(v3)
  BY DEF Reporting!AnswerWhole, ReportingWholeAs
<1>2. Reporting!AnswerCurrent <=> ReportingCurrentAs(v3)
  BY DEF Reporting!AnswerCurrent, ReportingCurrentAs
<1>3. Reporting!ReportCurrent <=> ReportingBuiltAs(v4)
  BY DEF Reporting!ReportCurrent, ReportingBuiltAs
<1> QED
  BY <1>1, <1>2, <1>3
     DEF Reporting!IInv, Reporting!TypeOK, Reporting!FiguresTypeOK, ReportingRowsGood,
     ReportingAnswerGood, ReportingShapeAs, ReportingPaperGood

LEMMA ReportingPartsNext ==
  ASSUME ReportingRowsGood', ReportingShapeAs(v3'), v3'.pc = "none" \/ v3'.calm = FALSE,
         v4' = Reporting!NoReport
  PROVE  Reporting!IInv'
<1>1. Reporting!AnswerWhole'
  BY DEF Reporting!AnswerWhole, ReportingShapeAs, ReportingWholeAs
<1>2. v4'.kind = "none" /\ v4'.acts = {}
  BY DEF Reporting!NoReport
<1> QED
  BY <1>1, <1>2
     DEF Reporting!IInv, Reporting!TypeOK, Reporting!FiguresTypeOK, ReportingRowsGood,
     ReportingShapeAs

LEMMA ReportingSameRows ==
  ASSUME UNCHANGED <<v1, v2>>, ReportingRowsGood, ReportingAnswerGood(v3'), ReportingPaperGood(v4')
  PROVE  Reporting!IInv'
<1>1. Reporting!AnswerWhole'
  BY DEF Reporting!AnswerWhole, ReportingAnswerGood, ReportingShapeAs, ReportingWholeAs
<1>2. ReportingRowsGood'
  BY DEF ReportingRowsGood, Reporting!Opened
<1>3. \A v : Reporting!Scope(v)' = Reporting!Scope(v)
  BY DEF Reporting!Scope, Reporting!Opened
<1>4. /\ Reporting!Scope(v3.viewer)' = Reporting!Scope(v3'.viewer)
      /\ Reporting!ScopeActs(v3.viewer)' = Reporting!ScopeActs(v3'.viewer)
      /\ Reporting!ScopeActs(v4.viewer)' = Reporting!ScopeActs(v4'.viewer)
  BY DEF Reporting!Scope, Reporting!ScopeActs, Reporting!Opened
<1>5. /\ Reporting!TicketRows(v3.viewer, v3.period)' = Reporting!TicketRows(v3'.viewer, v3'.period)
      /\ Reporting!TrendTicketsOf(v3.viewer, v3.period)'
           = Reporting!TrendTicketsOf(v3'.viewer, v3'.period)
  BY <1>4 DEF Reporting!TicketRows, Reporting!TrendTicketsOf
<1>6. /\ Reporting!ActRows(v3.viewer, v3.period)' = Reporting!ActRows(v3'.viewer, v3'.period)
      /\ Reporting!TrendActsOf(v3.viewer, v3.period)'
           = Reporting!TrendActsOf(v3'.viewer, v3'.period)
      /\ Reporting!Found(v4.viewer, v4.window)' = Reporting!Found(v4'.viewer, v4'.window)
  BY <1>4 DEF Reporting!ActRows, Reporting!TrendActsOf, Reporting!Found
<1>7. Reporting!AnswerCurrent' <=> ReportingCurrentAs(v3')
  BY <1>4, <1>5, <1>6 DEF Reporting!AnswerCurrent, ReportingCurrentAs
<1>8. Reporting!ReportCurrent' <=> ReportingBuiltAs(v4')
  BY <1>6 DEF Reporting!ReportCurrent, ReportingBuiltAs
<1> QED
  BY <1>1, <1>2, <1>7, <1>8
     DEF Reporting!IInv, Reporting!TypeOK, Reporting!FiguresTypeOK, ReportingRowsGood,
     ReportingAnswerGood, ReportingShapeAs, ReportingPaperGood

LEMMA ReportingTicketsKnown ==
  ASSUME Reporting!AnalyticsAssumption, NEW a \in FigureWorks
  PROVE  Reporting!TicketOf(a) \in FigureTickets
BY DEF Reporting!AnalyticsAssumption, Reporting!TicketOf

LEMMA ReportingInit ==
  ASSUME Reporting!AnalyticsAssumption, Reporting!Init
  PROVE  Reporting!IInv
<1>1. \A a \in v2 : a \in FigureWorks /\ v1[Reporting!TicketOf(a)] # Reporting!None
  BY DEF Reporting!Init, Reporting!FiguresInit
<1>2. \A a \in v2 : Reporting!TicketOf(a) \in Reporting!Opened
  BY <1>1, ReportingTicketsKnown DEF Reporting!Opened
<1>3. v3 = Reporting!NoAnswer /\ v4 = Reporting!NoReport
        /\ v1 \in [FigureTickets -> FigureStatuses \cup {Reporting!None}]
  BY DEF Reporting!Init, Reporting!FiguresInit
<1>4. ReportingPaperGood(v4)
  BY <1>3 DEF Reporting!NoReport, ReportingPaperGood
<1>5. ReportingAnswerGood(v3)
  BY <1>3 DEF Reporting!NoAnswer, ReportingAnswerGood, ReportingShapeAs, ReportingWholeAs
<1> QED
  BY <1>1, <1>2, <1>3, <1>4, <1>5, ReportingParts DEF ReportingRowsGood

(* What others write: an answer under way is no longer calm.               *)
LEMMA ReportingStirKeeps ==
  ASSUME ReportingAnswerGood(v3), Reporting!Stir
  PROVE  ReportingShapeAs(v3') /\ (v3'.pc = "none" \/ v3'.calm = FALSE)
<1>1. ReportingWholeAs(v3)
  BY DEF ReportingAnswerGood, ReportingShapeAs
<1>2. v3' = [v3 EXCEPT !.calm = (v3.pc = "none")]
  BY DEF Reporting!Stir
<1>3. v3' = [pc |-> v3.pc, viewer |-> v3.viewer, period |-> v3.period,
                 left |-> v3.left, tickets |-> v3.tickets, rows |-> v3.rows,
                 backlog |-> v3.backlog, trendTickets |-> v3.trendTickets,
                 trendActs |-> v3.trendActs, calm |-> (v3.pc = "none")]
  BY <1>1, <1>2 DEF ReportingWholeAs
<1> QED
  BY <1>3 DEF ReportingAnswerGood, ReportingShapeAs, ReportingWholeAs

LEMMA ReportingWritesKeep ==
  ASSUME Reporting!AnalyticsAssumption, Reporting!IInv, v4' = Reporting!NoReport,
         \/ \E t \in FigureTickets : Reporting!OpenTicket(t) \/ \E s \in FigureStatuses :
              Reporting!ChangeStatus(t, s)
         \/ \E a \in FigureWorks : Reporting!Register(a)
  PROVE  Reporting!IInv'
<1>1. ReportingRowsGood /\ ReportingAnswerGood(v3)
  BY ReportingParts
<1>2. ASSUME NEW t \in FigureTickets, NEW s \in FigureStatuses, v1' = [v1 EXCEPT ![t] = s],
             UNCHANGED v2
      PROVE  ReportingRowsGood'
  <2>1. s # Reporting!None
    BY DEF Reporting!AnalyticsAssumption, Reporting!None
  <2> QED
    BY <1>1, <1>2, <2>1 DEF Reporting!Opened, ReportingRowsGood
<1>3. CASE \E t \in FigureTickets : Reporting!OpenTicket(t) \/ \E s \in FigureStatuses :
             Reporting!ChangeStatus(t, s)
  <2>1. "aberto" \in FigureStatuses
    BY DEF Reporting!AnalyticsAssumption
  <2>2. ReportingRowsGood' /\ Reporting!Stir
    BY <1>2, <1>3, <2>1 DEF Reporting!OpenTicket, Reporting!ChangeStatus
  <2>3. ReportingShapeAs(v3') /\ (v3'.pc = "none" \/ v3'.calm = FALSE)
    BY <1>1, <2>2, ReportingStirKeeps
  <2> QED
    BY <2>2, <2>3, ReportingPartsNext
<1>4. CASE \E a \in FigureWorks : Reporting!Register(a)
  <2>1. ReportingRowsGood' /\ Reporting!Stir
    BY <1>1, <1>4 DEF Reporting!Register, Reporting!Opened, ReportingRowsGood
  <2>2. ReportingShapeAs(v3') /\ (v3'.pc = "none" \/ v3'.calm = FALSE)
    BY <1>1, <2>1, ReportingStirKeeps
  <2> QED
    BY <2>1, <2>2, ReportingPartsNext
<1> QED
  BY <1>3, <1>4

(* What a statement reads is what there is.                                *)
LEMMA ReportingReadsKeep ==
  ASSUME Reporting!AnalyticsAssumption, ReportingRowsGood, ReportingAnswerGood(v3),
         \/ \E viewer \in FigureViewers, q \in FigureQueries : Reporting!Ask(viewer, q)
         \/ Reporting!ReadTickets \/ Reporting!ReadActivities \/ Reporting!ReadBacklog
              \/ Reporting!StartTrend
         \/ Reporting!ReadTrendTickets \/ Reporting!ReadTrendActivities \/ Reporting!Give
  PROVE  ReportingAnswerGood(v3') /\ UNCHANGED <<v1, v2>>
<1>1. /\ ReportingWholeAs(v3)
           /\ v3.left \subseteq Reporting!Statements \cup Reporting!TrendStatements
      /\ v3.trendActs \subseteq FigureWorks /\ v3.calm \in BOOLEAN
      /\ v3.pc = "period" => v3.left \subseteq Reporting!Statements
      /\ v3.pc = "trend" => v3.left \subseteq Reporting!TrendStatements
  BY DEF ReportingAnswerGood, ReportingShapeAs
<1>2. v3.calm /\ v3.pc # "none" => ReportingCurrentAs(v3)
  BY DEF ReportingAnswerGood
<1>3. CASE \E viewer \in FigureViewers, q \in FigureQueries : Reporting!Ask(viewer, q)
  <2>1. PICK viewer \in FigureViewers, q \in FigureQueries : Reporting!Ask(viewer, q)
    BY <1>3
  <2> DEFINE p == Reporting!Resolve(q, Reporting!Scope(viewer))
  <2>2. v3' = [pc |-> "period", viewer |-> viewer, period |-> p, left |-> Reporting!Statements,
                   tickets |-> {}, rows |-> {}, backlog |-> {}, trendTickets |-> {},
                   trendActs |-> {}, calm |-> TRUE]
    BY <2>1 DEF Reporting!Ask, Reporting!NoAnswer
  <2>3. \E x \in FigureQueries : p = Reporting!Resolve(x, Reporting!Scope(viewer))
    OBVIOUS
  <2> HIDE DEF p
  <2>4. ReportingShapeAs(v3')
    <3>1. ReportingWholeAs(v3')
      BY <2>2 DEF ReportingWholeAs
    <3>2. /\ v3'.pc = "period" /\ v3'.left = Reporting!Statements /\ v3'.trendActs = {}
          /\ v3'.calm = TRUE
      BY <2>2
    <3> QED
      BY <3>1, <3>2 DEF ReportingShapeAs
  <2>5. ReportingCurrentAs(v3')
    BY <2>2, <2>3 DEF ReportingCurrentAs, Reporting!Statements
  <2> QED
    BY <2>1, <2>4, <2>5 DEF Reporting!Ask, ReportingAnswerGood
<1>4. CASE Reporting!ReadTickets
  <2> DEFINE read == Reporting!TicketRows(v3.viewer, v3.period)
  <2>1. /\ v3.pc = "period" /\ UNCHANGED <<v1, v2>>
        /\ v3' = [v3 EXCEPT !.left = Reporting!Got("tickets"), !.tickets = read]
    BY <1>4 DEF Reporting!ReadTickets
  <2>2. v3' = [pc |-> "period", viewer |-> v3.viewer, period |-> v3.period,
                   left |-> v3.left \ {"tickets"}, tickets |-> read, rows |-> v3.rows,
                   backlog |-> v3.backlog, trendTickets |-> v3.trendTickets,
                   trendActs |-> v3.trendActs, calm |-> v3.calm]
    <3> HIDE DEF read
    <3> QED
      BY <1>1, <2>1 DEF ReportingWholeAs, Reporting!Got
  <2>3. /\ ReportingWholeAs(v3')
        /\ v3'.pc = "period"
        /\ v3'.viewer = v3.viewer
        /\ v3'.period = v3.period
        /\ v3'.left = v3.left \ {"tickets"}
        /\ v3'.tickets = read
        /\ v3'.rows = v3.rows
        /\ v3'.backlog = v3.backlog
        /\ v3'.trendTickets = v3.trendTickets
        /\ v3'.trendActs = v3.trendActs
        /\ v3'.calm = v3.calm
    <3> HIDE DEF read
    <3> QED
      BY <2>2 DEF ReportingWholeAs
  <2>4. ReportingShapeAs(v3')
    <3> HIDE DEF read
    <3> QED
      BY <1>1, <2>1, <2>3 DEF ReportingShapeAs
  <2>5. ReportingCurrentAs(v3) => ReportingCurrentAs(v3')
    BY <2>1, <2>3 DEF ReportingCurrentAs, Reporting!Statements, Reporting!TrendStatements
  <2> QED
    BY <1>2, <2>1, <2>3, <2>4, <2>5 DEF ReportingAnswerGood
<1>5. CASE Reporting!ReadActivities
  <2> DEFINE read == Reporting!ActRows(v3.viewer, v3.period)
  <2>1. /\ v3.pc = "period" /\ UNCHANGED <<v1, v2>>
        /\ v3' = [v3 EXCEPT !.left = Reporting!Got("activities"), !.rows = read]
    BY <1>5 DEF Reporting!ReadActivities
  <2>2. v3' = [pc |-> "period", viewer |-> v3.viewer, period |-> v3.period,
                   left |-> v3.left \ {"activities"}, tickets |-> v3.tickets,
                   rows |-> read, backlog |-> v3.backlog,
                   trendTickets |-> v3.trendTickets,
                   trendActs |-> v3.trendActs, calm |-> v3.calm]
    <3> HIDE DEF read
    <3> QED
      BY <1>1, <2>1 DEF ReportingWholeAs, Reporting!Got
  <2>3. /\ ReportingWholeAs(v3')
        /\ v3'.pc = "period"
        /\ v3'.viewer = v3.viewer
        /\ v3'.period = v3.period
        /\ v3'.left = v3.left \ {"activities"}
        /\ v3'.tickets = v3.tickets
        /\ v3'.rows = read
        /\ v3'.backlog = v3.backlog
        /\ v3'.trendTickets = v3.trendTickets
        /\ v3'.trendActs = v3.trendActs
        /\ v3'.calm = v3.calm
    <3> HIDE DEF read
    <3> QED
      BY <2>2 DEF ReportingWholeAs
  <2>4. ReportingShapeAs(v3')
    <3> HIDE DEF read
    <3> QED
      BY <1>1, <2>1, <2>3 DEF ReportingShapeAs
  <2>5. ReportingCurrentAs(v3) => ReportingCurrentAs(v3')
    BY <2>1, <2>3 DEF ReportingCurrentAs, Reporting!Statements, Reporting!TrendStatements
  <2> QED
    BY <1>2, <2>1, <2>3, <2>4, <2>5 DEF ReportingAnswerGood
<1>6. CASE Reporting!ReadBacklog
  <2> DEFINE read == {t \in Reporting!Scope(v3.viewer) : v1[t] \in Reporting!Backlog}
  <2>1. /\ v3.pc = "period" /\ UNCHANGED <<v1, v2>>
        /\ v3' = [v3 EXCEPT !.left = Reporting!Got("backlog"), !.backlog = read]
    BY <1>6 DEF Reporting!ReadBacklog
  <2> HIDE DEF read
  <2>2. v3' = [pc |-> "period", viewer |-> v3.viewer, period |-> v3.period,
                   left |-> v3.left \ {"backlog"}, tickets |-> v3.tickets,
                   rows |-> v3.rows, backlog |-> read,
                   trendTickets |-> v3.trendTickets,
                   trendActs |-> v3.trendActs, calm |-> v3.calm]
    BY <1>1, <2>1 DEF ReportingWholeAs, Reporting!Got
  <2>3. /\ ReportingWholeAs(v3')
        /\ v3'.pc = "period"
        /\ v3'.viewer = v3.viewer
        /\ v3'.period = v3.period
        /\ v3'.left = v3.left \ {"backlog"}
        /\ v3'.tickets = v3.tickets
        /\ v3'.rows = v3.rows
        /\ v3'.backlog = read
        /\ v3'.trendTickets = v3.trendTickets
        /\ v3'.trendActs = v3.trendActs
        /\ v3'.calm = v3.calm
    BY <2>2 DEF ReportingWholeAs
  <2>4. ReportingShapeAs(v3')
    BY <1>1, <2>1, <2>3 DEF ReportingShapeAs
  <2>5. ReportingCurrentAs(v3) => ReportingCurrentAs(v3')
    BY <2>1, <2>3 DEF ReportingCurrentAs, Reporting!Statements, Reporting!TrendStatements
  <2> QED
    BY <1>2, <2>1, <2>3, <2>4, <2>5 DEF ReportingAnswerGood
<1>7. CASE Reporting!StartTrend
  <2>1. /\ v3.pc = "period" /\ v3.left = {} /\ UNCHANGED <<v1, v2>>
        /\ v3' = [v3 EXCEPT !.pc = "trend", !.left = Reporting!TrendStatements]
    BY <1>7 DEF Reporting!StartTrend
  <2>2. v3' = [pc |-> "trend", viewer |-> v3.viewer, period |-> v3.period,
                   left |-> Reporting!TrendStatements, tickets |-> v3.tickets,
                   rows |-> v3.rows, backlog |-> v3.backlog,
                   trendTickets |-> v3.trendTickets,
                   trendActs |-> v3.trendActs, calm |-> v3.calm]
    BY <1>1, <2>1 DEF ReportingWholeAs
  <2>3. /\ ReportingWholeAs(v3')
        /\ v3'.pc = "trend"
        /\ v3'.viewer = v3.viewer
        /\ v3'.period = v3.period
        /\ v3'.left = Reporting!TrendStatements
        /\ v3'.tickets = v3.tickets
        /\ v3'.rows = v3.rows
        /\ v3'.backlog = v3.backlog
        /\ v3'.trendTickets = v3.trendTickets
        /\ v3'.trendActs = v3.trendActs
        /\ v3'.calm = v3.calm
    BY <2>2 DEF ReportingWholeAs
  <2>4. ReportingShapeAs(v3')
    BY <1>1, <2>1, <2>3 DEF ReportingShapeAs
  <2>5. ReportingCurrentAs(v3) => ReportingCurrentAs(v3')
    BY <2>1, <2>3 DEF ReportingCurrentAs, Reporting!Statements, Reporting!TrendStatements
  <2> QED
    BY <1>2, <2>1, <2>3, <2>4, <2>5 DEF ReportingAnswerGood
<1>8. CASE Reporting!ReadTrendTickets
  <2> DEFINE read == Reporting!TrendTicketsOf(v3.viewer, v3.period)
  <2>1. /\ v3.pc = "trend" /\ UNCHANGED <<v1, v2>>
        /\ v3' = [v3 EXCEPT !.left = Reporting!Got("trendTickets"), !.trendTickets = read]
    BY <1>8 DEF Reporting!ReadTrendTickets
  <2>2. v3' = [pc |-> "trend", viewer |-> v3.viewer, period |-> v3.period,
                   left |-> v3.left \ {"trendTickets"}, tickets |-> v3.tickets,
                   rows |-> v3.rows, backlog |-> v3.backlog,
                   trendTickets |-> read,
                   trendActs |-> v3.trendActs, calm |-> v3.calm]
    <3> HIDE DEF read
    <3> QED
      BY <1>1, <2>1 DEF ReportingWholeAs, Reporting!Got
  <2>3. /\ ReportingWholeAs(v3')
        /\ v3'.pc = "trend"
        /\ v3'.viewer = v3.viewer
        /\ v3'.period = v3.period
        /\ v3'.left = v3.left \ {"trendTickets"}
        /\ v3'.tickets = v3.tickets
        /\ v3'.rows = v3.rows
        /\ v3'.backlog = v3.backlog
        /\ v3'.trendTickets = read
        /\ v3'.trendActs = v3.trendActs
        /\ v3'.calm = v3.calm
    <3> HIDE DEF read
    <3> QED
      BY <2>2 DEF ReportingWholeAs
  <2>4. ReportingShapeAs(v3')
    <3> HIDE DEF read
    <3> QED
      BY <1>1, <2>1, <2>3 DEF ReportingShapeAs
  <2>5. ReportingCurrentAs(v3) => ReportingCurrentAs(v3')
    BY <2>1, <2>3 DEF ReportingCurrentAs, Reporting!Statements, Reporting!TrendStatements
  <2> QED
    BY <1>2, <2>1, <2>3, <2>4, <2>5 DEF ReportingAnswerGood
<1>9. CASE Reporting!ReadTrendActivities
  <2> DEFINE read == Reporting!TrendActsOf(v3.viewer, v3.period)
  <2>1. /\ v3.pc = "trend" /\ UNCHANGED <<v1, v2>>
        /\ v3' = [v3 EXCEPT !.left = Reporting!Got("trendActivities"), !.trendActs = read]
    BY <1>9 DEF Reporting!ReadTrendActivities
  <2>2. read \subseteq FigureWorks
    BY DEF Reporting!TrendActsOf, Reporting!ScopeActs, ReportingRowsGood
  <2>3. v3' = [pc |-> "trend", viewer |-> v3.viewer, period |-> v3.period,
                   left |-> v3.left \ {"trendActivities"}, tickets |-> v3.tickets,
                   rows |-> v3.rows, backlog |-> v3.backlog,
                   trendTickets |-> v3.trendTickets,
                   trendActs |-> read, calm |-> v3.calm]
    <3> HIDE DEF read
    <3> QED
      BY <1>1, <2>1 DEF ReportingWholeAs, Reporting!Got
  <2>4. /\ ReportingWholeAs(v3')
        /\ v3'.pc = "trend"
        /\ v3'.viewer = v3.viewer
        /\ v3'.period = v3.period
        /\ v3'.left = v3.left \ {"trendActivities"}
        /\ v3'.tickets = v3.tickets
        /\ v3'.rows = v3.rows
        /\ v3'.backlog = v3.backlog
        /\ v3'.trendTickets = v3.trendTickets
        /\ v3'.trendActs = read
        /\ v3'.calm = v3.calm
    <3> HIDE DEF read
    <3> QED
      BY <2>3 DEF ReportingWholeAs
  <2>5. ReportingShapeAs(v3')
    <3> HIDE DEF read
    <3> QED
      BY <1>1, <2>1, <2>4, <2>2 DEF ReportingShapeAs
  <2>6. ReportingCurrentAs(v3) => ReportingCurrentAs(v3')
    BY <2>1, <2>4 DEF ReportingCurrentAs, Reporting!Statements, Reporting!TrendStatements
  <2> QED
    BY <1>2, <2>1, <2>4, <2>5, <2>6 DEF ReportingAnswerGood
<1>10. CASE Reporting!Give
  <2>1. /\ v3.pc = "trend" /\ v3.left = {} /\ UNCHANGED <<v1, v2>>
        /\ v3' = [v3 EXCEPT !.pc = "given"]
    BY <1>10 DEF Reporting!Give
  <2>2. v3' = [pc |-> "given", viewer |-> v3.viewer, period |-> v3.period,
                   left |-> {}, tickets |-> v3.tickets,
                   rows |-> v3.rows, backlog |-> v3.backlog,
                   trendTickets |-> v3.trendTickets,
                   trendActs |-> v3.trendActs, calm |-> v3.calm]
    BY <1>1, <2>1 DEF ReportingWholeAs
  <2>3. /\ ReportingWholeAs(v3')
        /\ v3'.pc = "given"
        /\ v3'.viewer = v3.viewer
        /\ v3'.period = v3.period
        /\ v3'.left = {}
        /\ v3'.tickets = v3.tickets
        /\ v3'.rows = v3.rows
        /\ v3'.backlog = v3.backlog
        /\ v3'.trendTickets = v3.trendTickets
        /\ v3'.trendActs = v3.trendActs
        /\ v3'.calm = v3.calm
    BY <2>2 DEF ReportingWholeAs
  <2>4. ReportingShapeAs(v3')
    BY <1>1, <2>1, <2>3 DEF ReportingShapeAs
  <2>5. ReportingCurrentAs(v3) => ReportingCurrentAs(v3')
    BY <2>1, <2>3 DEF ReportingCurrentAs, Reporting!Statements, Reporting!TrendStatements
  <2> QED
    BY <1>2, <2>1, <2>3, <2>4, <2>5 DEF ReportingAnswerGood
<1> QED
  BY <1>3, <1>4, <1>5, <1>6, <1>7, <1>8, <1>9, <1>10

(* A report is built from what there is.                                   *)
LEMMA ReportingBuildsKeep ==
  ASSUME Reporting!ReportsAssumption, ReportingRowsGood, NEW viewer,
         \/ \E interval \in FigureIntervals : Reporting!BuildActivityReport(viewer, interval)
         \/ Reporting!BuildServicesReport(viewer, Reporting!MonthIndexOf(FigureNow))
  PROVE  ReportingPaperGood(v4') /\ UNCHANGED <<v1, v2, v3>>
<1>1. Reporting!AnalyticsAssumption /\ Reporting!WallClockAssumption /\ PerDay \in Int
  BY ReportingHourIs DEF Reporting!ReportsAssumption, Reporting!WallClockAssumption
<1>2. \A w : Reporting!Found(viewer, w) \subseteq FigureWorks
  BY DEF Reporting!Found, Reporting!ScopeActs, ReportingRowsGood
<1>3. FigureNow \in Nat /\ Reporting!MonthIndexOf(FigureNow) \in Nat
  BY <1>1, ReportingHorizonIs, ReportingMonthIndexIs DEF Reporting!AnalyticsAssumption
<1>4. CASE \E interval \in FigureIntervals : Reporting!BuildActivityReport(viewer, interval)
  <2>1. PICK interval \in FigureIntervals : Reporting!BuildActivityReport(viewer, interval)
    BY <1>4
  <2> DEFINE first == Reporting!FirstDay(interval)
             last == Reporting!LastDay(interval)
             found == Reporting!Found(viewer, Reporting!Window(interval))
  <2>2. UNCHANGED <<v1, v2, v3>>
    BY <2>1 DEF Reporting!BuildActivityReport, Reporting!figures
  <2>3. CASE last < first
    BY <2>1, <2>2, <2>3 DEF Reporting!BuildActivityReport, Reporting!NoReport, ReportingPaperGood
  <2>4. CASE ~ (last < first)
    <3>1. v4' = [kind |-> "activities", viewer |-> viewer, first |-> first, last |-> last,
                     window |-> Reporting!Window(interval), acts |-> found]
      BY <2>1, <2>4 DEF Reporting!BuildActivityReport
    <3>2. first \in Int /\ last \in Int
      <4>1. interval.start \in Int /\ interval.end \in Int
        BY DEF Reporting!ReportsAssumption
      <4>2. Reporting!StartOfMonth(Reporting!MonthIndexOf(FigureNow)) \in Nat
        BY <1>1, <1>3, ReportingStartsGrow
      <4>3. Reporting!DayNumber(Reporting!StartOfMonth(Reporting!MonthIndexOf(FigureNow))) \in Nat
              /\ Reporting!DayNumber(FigureNow) \in Nat
        BY <1>1, <1>3, <4>2, ReportingDayOf
      <4> QED
        BY <4>1, <4>3 DEF Reporting!FirstDay, Reporting!LastDay
    <3>3. Reporting!Window(interval) = [from |-> PerDay * first, to |-> PerDay * (last + 1)]
      BY DEF Reporting!Window
    <3>4. found \subseteq FigureWorks
      BY <1>2
    <3> HIDE DEF first, last
    <3>5. ReportingBuiltAs(v4')
      BY <3>1, <3>2, <3>3 DEF ReportingBuiltAs
    <3> QED
      BY <2>2, <3>1, <3>4, <3>5 DEF ReportingPaperGood
  <2> QED
    BY <2>3, <2>4
<1>5. CASE Reporting!BuildServicesReport(viewer, Reporting!MonthIndexOf(FigureNow))
  <2> DEFINE month == Reporting!MonthIndexOf(FigureNow)
             first == Reporting!DaysBefore(month)
             last == Reporting!DaysBefore(month + 1) - 1
             found == Reporting!Found(viewer, Reporting!MonthBounds(month))
  <2>1. /\ v4' = [kind |-> "services", viewer |-> viewer, first |-> first, last |-> last,
                      window |-> Reporting!MonthBounds(month), acts |-> found]
        /\ UNCHANGED <<v1, v2, v3>>
    BY <1>5 DEF Reporting!BuildServicesReport, Reporting!figures
  <2>2. month \in Int /\ month + 1 \in Int
    BY <1>3
  <2>3. Reporting!MonthBounds(month)
          = [from |-> Reporting!StartOfMonth(month), to |-> Reporting!StartOfMonth(month + 1)]
    BY DEF Reporting!MonthBounds
  <2> HIDE DEF month
  <2>4. /\ Reporting!StartOfMonth(month) = PerDay * Reporting!DaysBefore(month)
        /\ Reporting!StartOfMonth(month + 1) = PerDay * Reporting!DaysBefore(month + 1)
    BY <1>1, <2>2, ReportingStartIs
  <2>5. Reporting!DaysBefore(month) \in Int /\ Reporting!DaysBefore(month + 1) \in Int
    BY <1>1, <2>2, ReportingDaysType DEF Reporting!WallClockAssumption
  <2>6. first \in Int /\ last \in Int /\ last + 1 = Reporting!DaysBefore(month + 1)
    BY <2>5
  <2>7. Reporting!MonthBounds(month) = [from |-> PerDay * first, to |-> PerDay * (last + 1)]
    BY <2>3, <2>4, <2>6
  <2>8. found \subseteq FigureWorks
    BY <1>2
  <2> HIDE DEF first, last
  <2>9. ReportingBuiltAs(v4')
    BY <2>1, <2>6, <2>7 DEF ReportingBuiltAs
  <2> QED
    BY <2>1, <2>8, <2>9 DEF ReportingPaperGood
<1> QED
  BY <1>4, <1>5

LEMMA ReportingInductive ==
  ASSUME Reporting!ReportsAssumption, Reporting!IInv, [Reporting!Next]_Reporting!vars
  PROVE  Reporting!IInv'
<1>1. ReportingRowsGood /\ ReportingAnswerGood(v3) /\ ReportingPaperGood(v4)
        /\ Reporting!AnalyticsAssumption
  BY ReportingParts DEF Reporting!ReportsAssumption
<1>2. CASE UNCHANGED Reporting!vars
  <2>1. /\ UNCHANGED <<v1, v2>> /\ v3' = v3 /\ v4' = v4
    BY <1>2 DEF Reporting!vars
  <2>2. ReportingAnswerGood(v3') /\ ReportingPaperGood(v4')
    BY <1>1, <2>1
  <2> QED
    BY <1>1, <2>1, <2>2, ReportingSameRows
<1>3. ASSUME Reporting!FiguresNext, v4' = IF UNCHANGED <<v1, v2>> THEN v4 ELSE Reporting!NoReport
      PROVE  Reporting!IInv'
  <2>1. CASE \/ \E t \in FigureTickets : Reporting!OpenTicket(t) \/ \E s \in FigureStatuses :
                  Reporting!ChangeStatus(t, s)
             \/ \E a \in FigureWorks : Reporting!Register(a)
    <3>1. ~ UNCHANGED <<v1, v2>>
      <4>1. ASSUME NEW t \in FigureTickets, Reporting!OpenTicket(t)
            PROVE  ~ UNCHANGED <<v1, v2>>
        BY <1>1, <4>1 DEF Reporting!OpenTicket, ReportingRowsGood, Reporting!None
      <4>2. ASSUME NEW t \in FigureTickets, NEW s \in FigureStatuses, Reporting!ChangeStatus(t, s)
            PROVE  ~ UNCHANGED <<v1, v2>>
        BY <1>1, <4>2 DEF Reporting!ChangeStatus, ReportingRowsGood
      <4>3. ASSUME NEW a \in FigureWorks, Reporting!Register(a)
            PROVE  ~ UNCHANGED <<v1, v2>>
        BY <4>3 DEF Reporting!Register
      <4> QED
        BY <2>1, <4>1, <4>2, <4>3
    <3>2. v4' = Reporting!NoReport
      BY <1>3, <3>1
    <3> QED
      BY <1>1, <2>1, <3>2, ReportingWritesKeep
  <2>2. CASE \/ \E viewer \in FigureViewers, q \in FigureQueries : Reporting!Ask(viewer, q)
             \/ Reporting!ReadTickets \/ Reporting!ReadActivities \/ Reporting!ReadBacklog
                  \/ Reporting!StartTrend
             \/ Reporting!ReadTrendTickets \/ Reporting!ReadTrendActivities \/ Reporting!Give
    <3>1. ReportingAnswerGood(v3') /\ UNCHANGED <<v1, v2>>
      BY <1>1, <2>2, ReportingReadsKeep
    <3>2. v4' = v4
      BY <1>3, <3>1
    <3>3. ReportingPaperGood(v4')
      BY <1>1, <3>2
    <3> QED
      BY <1>1, <3>1, <3>3, ReportingSameRows
  <2> QED
    BY <1>3, <2>1, <2>2 DEF Reporting!FiguresNext
<1>4. ASSUME NEW viewer \in FigureViewers,
             \/ \E interval \in FigureIntervals : Reporting!BuildActivityReport(viewer, interval)
             \/ Reporting!BuildServicesReport(viewer, Reporting!MonthIndexOf(FigureNow))
      PROVE  Reporting!IInv'
  <2>1. ReportingPaperGood(v4') /\ UNCHANGED <<v1, v2, v3>>
    BY <1>1, <1>4, ReportingBuildsKeep
  <2>2. ReportingAnswerGood(v3')
    BY <1>1, <2>1
  <2> QED
    BY <1>1, <2>1, <2>2, ReportingSameRows
<1> QED
  BY <1>2, <1>3, <1>4 DEF Reporting!Next

-----------------------------------------------------------------------------
(* Amounts as text: Decimals.tla. Any text, of any length, is read as it   *)
(* was meant.                                                              *)

(* Cardinality as Decimals.tla takes it.                                   *)
LEMMA TextCardinality == \A S : Text!Cardinality(S) = Cardinality(S)
BY DEF Cardinality, Text!Cardinality

(* A text is a function on its places.                                     *)
LEMMA TextIs ==
  ASSUME NEW t \in Seq(Text!Tokens)
  PROVE  Len(t) \in Nat /\ DOMAIN t = 1..Len(t) /\ \A i \in 1..Len(t) : t[i] \in Text!Tokens
BY LenProperties

LEMMA TextTokensApart ==
  /\ Text!Digit # Text!Point /\ Text!Digit # Text!Comma /\ Text!Point # Text!Comma
  /\ {Text!Digit, Text!Point, Text!Comma} \subseteq Text!Tokens
BY DEF Text!Digit, Text!Point, Text!Comma, Text!Tokens

(* Where the one mark of a text is.                                        *)
LEMMA TextMarkIs ==
  ASSUME NEW t, NEW m, Text!Places(t, Text!Point) = {m}
  PROVE  Text!NumberOf(t) = Text!Value(m - 1, Len(t) - m)
BY DEF Text!NumberOf

(* Digits in threes with a point among them look like thousands.           *)
LEMMA TextThreesLookLikeThousands ==
  ASSUME NEW t \in Seq(Text!Tokens), Text!InThrees(t), t[1] = Text!Digit,
         Text!Places(t, Text!Point) # {}
  PROVE  Text!LooksLikeThousands(t)
<1> DEFINE l == Len(t)
           first == l % 4
           n == l \div 4
<1>1. l \in Nat /\ DOMAIN t = 1..l
  BY TextIs
<1>2. PICK i \in 1..l : t[i] = Text!Point
  BY <1>1 DEF Text!Places
<1>3. \A k \in 1..l : t[k] = (IF (l - k) % 4 = 3 THEN Text!Point ELSE Text!Digit)
  BY <1>1 DEF Text!InThrees
<1>4. (l - i) % 4 = 3 /\ (l - 1) % 4 # 3
  <2>1. 1 \in 1..l
    BY <1>1, <1>2
  <2> HIDE DEF l
  <2> QED
    BY <1>2, <1>3, <2>1, TextTokensApart
<1>5. first \in 1..3 /\ n \in 1..l /\ l = first + 4 * n
  <2> HIDE DEF l
  <2>1. l \in Nat /\ i \in 1..l /\ (l - i) % 4 = 3 /\ (l - 1) % 4 # 3
    BY <1>1, <1>2, <1>4
  <2>2. l = 4 * (l \div 4) + (l % 4) /\ l % 4 \in 0..3 /\ l \div 4 \in Nat
    BY <2>1
  <2>3. l - i >= 3
    BY <2>1
  <2>4. l % 4 # 0
    BY <2>1, <2>2
  <2> QED
    BY <2>1, <2>2, <2>3, <2>4
<1>6. ASSUME NEW k \in 1..l
      PROVE  (l - k) % 4 = 3 <=> k > first /\ (k - first) % 4 = 1
  <2> HIDE DEF l, first, n
  <2>1. CASE k <= first
    BY <1>1, <1>5, <2>1
  <2>2. CASE k > first
    BY <1>1, <1>5, <2>2
  <2> QED
    BY <1>1, <1>5, <2>1, <2>2
<1>7. Text!Groups(t, first, n)
  <2>1. ASSUME NEW k \in DOMAIN t
        PROVE  t[k] = (IF k > first /\ (k - first) % 4 = 1 THEN Text!Point ELSE Text!Digit)
    <3>1. k \in 1..l
      BY <1>1
    <3> HIDE DEF l, first, n
    <3> QED
      BY <1>3, <1>6, <3>1
  <2> QED
    BY <1>5, <2>1 DEF Text!Groups
<1> HIDE DEF first, n
<1> QED
  BY <1>5, <1>7 DEF Text!LooksLikeThousands

(* What a form lets through is no nothing, and means what it says.         *)
LEMMA TextAcceptedIsMeant ==
  ASSUME NEW t \in Seq(Text!Tokens), Text!FormAccepts(t)
  PROVE  Text!ServerReads(t) # Text!Nothing /\ Text!ServerReads(t) = Text!Meant(t)
<1> DEFINE n == Text!Normalized(t)
           marks == Text!Places(t, Text!Comma)
           cut == IF marks = {} THEN Len(t) + 1 ELSE CHOOSE i \in marks : TRUE
           whole == SubSeq(t, 1, cut - 1)
<1>1. /\ Len(t) \in Nat \ {0} /\ DOMAIN t = 1..Len(t) /\ Text!IsNumber(n)
      /\ Text!Places(t, Text!Point) = {} \/ (marks = {} /\ ~Text!LooksLikeThousands(t))
  BY TextIs, EmptySeq DEF Text!FormAccepts
<1>2. Text!ServerReads(t) = Text!NumberOf(n)
  BY <1>1 DEF Text!ServerReads
<1>3. Text!NumberOf(n) # Text!Nothing
  <2>1. n \in [1..Len(t) -> Text!Tokens] /\ n \in Seq(Text!Tokens) /\ Len(n) = Len(t)
    <3>1. n \in [1..Len(t) -> Text!Tokens]
      BY <1>1, TextIs, TextTokensApart DEF Text!Normalized
    <3>2. n \in Seq(Text!Tokens)
      BY <1>1, <3>1, SeqDef
    <3> HIDE DEF n
    <3>3. 1..Len(n) = 1..Len(t) /\ Len(n) \in Nat
      BY <3>1, <3>2, LenProperties
    <3> QED
      BY <1>1, <3>1, <3>2, <3>3
  <2> HIDE DEF n
  <2>2. CASE Text!Places(n, Text!Point) = {}
    BY <1>1, <2>1, <2>2 DEF Text!NumberOf, Text!Value, Text!Nothing
  <2>3. CASE Text!Places(n, Text!Point) # {}
    <3>1. PICK m : m \in Text!Places(n, Text!Point)
          /\ Text!NumberOf(n) = Text!Value(m - 1, Len(n) - m)
      BY <2>3 DEF Text!NumberOf
    <3>2. m \in 1..Len(n) /\ n[m] = Text!Point /\ n[1] = Text!Digit
      BY <1>1, <2>1, <3>1 DEF Text!Places, Text!IsNumber
    <3>3. m - 1 # 0
      BY <2>1, <3>2, TextTokensApart
    <3>4. Text!NumberOf(n).whole = m - 1 /\ Text!Nothing.whole = 0
      BY <3>1 DEF Text!Value, Text!Nothing
    <3> QED
      BY <3>3, <3>4
  <2> QED
    BY <2>2, <2>3
<1>4. ~(Text!Places(whole, Text!Point) # {} /\ whole[1] = Text!Digit /\ Text!InThrees(whole))
  <2> SUFFICES ASSUME Text!Places(whole,
                                  Text!Point) # {}, whole[1] = Text!Digit, Text!InThrees(whole)
               PROVE  FALSE
    OBVIOUS
  <2>1. cut - 1 \in 0..Len(t)
    BY <1>1 DEF Text!Places
  <2>2. \A i \in 1..(cut - 1) : t[i] \in Text!Tokens
    BY <1>1, <2>1, TextIs
  <2>3. /\ whole \in Seq(Text!Tokens) /\ Len(whole) = cut - 1
        /\ \A i \in 1..(cut - 1) : whole[i] = t[i]
    <3>1. 1 \in Int /\ cut - 1 \in Int
      BY <2>1
    <3> HIDE DEF cut
    <3>2. /\ SubSeq(t, 1, cut - 1) \in Seq(Text!Tokens)
          /\ Len(SubSeq(t, 1, cut - 1)) = IF 1 <= cut - 1 THEN (cut - 1) - 1 + 1 ELSE 0
          /\ \A i \in 1..((cut - 1) - 1 + 1) : SubSeq(t, 1, cut - 1)[i] = t[1 + i - 1]
      BY <2>2, <3>1, SubSeqProperties
    <3> QED
      BY <2>1, <3>2
  <2> HIDE DEF whole
  <2>4. PICK i \in 1..(cut - 1) : t[i] = Text!Point
    BY <2>3, TextIs DEF Text!Places
  <2>5. Text!Places(t, Text!Point) # {}
    BY <1>1, <2>1, <2>4 DEF Text!Places
  <2>6. marks = {} /\ ~Text!LooksLikeThousands(t) /\ cut = Len(t) + 1
    BY <1>1, <2>5
  <2> HIDE DEF cut
  <2>7. whole = t
    BY <1>1, <2>3, <2>6, SeqEqual
  <2> QED
    BY <2>6, <2>7, TextThreesLookLikeThousands
<1>5. Text!Meant(t) = Text!NumberOf(n)
  BY <1>4 DEF Text!Meant
<1> QED
  BY <1>2, <1>3, <1>5

(* A text of n tokens followed by three.                                   *)
LEMMA TextEndedIs ==
  ASSUME NEW n \in Nat, NEW s \in [1..n -> Text!Tokens],
         NEW a \in Text!Tokens, NEW b \in Text!Tokens, NEW c \in Text!Tokens
  PROVE  /\ s \in Seq(Text!Tokens) /\ Len(s) = n
         /\ s \o <<a, b, c>> \in Seq(Text!Tokens) /\ Len(s \o <<a, b, c>>) = n + 3
         /\ \A i \in 1..(n + 3) :
              (s \o <<a, b, c>>)[i] = IF i <= n THEN s[i] ELSE IF i = n + 1 THEN a
                                     ELSE IF i = n + 2 THEN b ELSE c
<1>1. s \in Seq(Text!Tokens)
  BY SeqDef
<1>2. Len(s) = n
  BY <1>1, LenProperties
<1> DEFINE e == <<a, b, c>>
<1>3. e \in Seq(Text!Tokens) /\ Len(e) = 3 /\ e[1] = a /\ e[2] = b /\ e[3] = c
  OBVIOUS
<1> HIDE DEF e
<1>4. /\ s \o e \in Seq(Text!Tokens) /\ Len(s \o e) = n + 3
      /\ \A i \in 1..(n + 3) : (s \o e)[i] = IF i <= n THEN s[i] ELSE e[i - n]
  <2>1. s \o e \in Seq(Text!Tokens)
    BY <1>1, <1>3, ConcatProperties
  <2>2. Len(s \o e) = Len(s) + Len(e)
    BY <1>1, <1>3, ConcatProperties
  <2>3. \A i \in 1..(Len(s) + Len(e)) : (s \o e)[i] =
          IF i <= Len(s) THEN s[i] ELSE e[i - Len(s)]
    BY <1>1, <1>3, ConcatProperties
  <2>4. Len(s) + Len(e) = n + 3
    BY <1>2, <1>3
  <2> QED
    BY <1>2, <2>1, <2>2, <2>3, <2>4
<1>5. ASSUME NEW i \in 1..(n + 3)
      PROVE  (s \o e)[i] = IF i <= n THEN s[i] ELSE IF i = n + 1 THEN a
                            ELSE IF i = n + 2 THEN b ELSE c
  <2>0. (s \o e)[i] = IF i <= n THEN s[i] ELSE e[i - n]
    BY <1>4
  <2>1. CASE i <= n
    BY <2>0, <2>1
  <2>2. CASE i = n + 1
    <3>1. i - n = 1 /\ ~(i <= n)
      BY <2>2
    <3> QED
      BY <1>3, <2>0, <2>2, <3>1
  <2>3. CASE i = n + 2
    <3>1. i - n = 2 /\ ~(i <= n) /\ i # n + 1
      BY <2>3
    <3> QED
      BY <1>3, <2>0, <2>3, <3>1
  <2>4. CASE i = n + 3
    <3>1. i - n = 3 /\ ~(i <= n) /\ i # n + 1 /\ i # n + 2
      BY <2>4
    <3> QED
      BY <1>3, <2>0, <2>4, <3>1
  <2>5. i <= n \/ i = n + 1 \/ i = n + 2 \/ i = n + 3
    OBVIOUS
  <2> QED
    BY <2>1, <2>2, <2>3, <2>4, <2>5
<1> QED
  BY <1>1, <1>2, <1>4, <1>5 DEF e

(* What a parameter stores passes its form and is read as it is.           *)
LEMMA TextFixedIsRead ==
  ASSUME NEW w \in Nat \ {0}
  PROVE  Text!FormAccepts(Text!Fixed(w)) /\ Text!ServerReads(Text!Fixed(w)) = Text!Value(w, 2)
<1> DEFINE s == [i \in 1..w |-> Text!Digit]
           x == Text!Fixed(w)
<1>1. s \in [1..w -> Text!Tokens] /\ x = s \o <<Text!Point, Text!Digit, Text!Digit>>
  BY TextTokensApart DEF Text!Fixed
<1>2. /\ x \in Seq(Text!Tokens) /\ Len(x) = w + 3
      /\ \A i \in 1..(w + 3) : x[i] = IF i <= w THEN s[i] ELSE IF i = w + 1 THEN Text!Point
                                     ELSE IF i = w + 2 THEN Text!Digit ELSE Text!Digit
  <2>1. w \in Nat /\ Text!Point \in Text!Tokens /\ Text!Digit \in Text!Tokens
    BY TextTokensApart
  <2> HIDE DEF s, x
  <2> QED
    BY SMTT(30), <1>1, <2>1, TextEndedIs
<1> HIDE DEF x
<1>3. /\ DOMAIN x = 1..(w + 3)
      /\ \A i \in 1..(w + 3) : x[i] = IF i = w + 1 THEN Text!Point ELSE Text!Digit
  BY <1>2, TextIs
<1>4. Text!Places(x, Text!Comma) = {} /\ Text!Places(x, Text!Point) = {w + 1}
  BY <1>3, TextTokensApart DEF Text!Places
<1>5. Text!Normalized(x) = x
  <2>1. Text!Normalized(x) = [i \in 1..(w + 3) |-> x[i]]
    BY <1>3, TextTokensApart DEF Text!Normalized
  <2>2. x \in [1..(w + 3) -> Text!Tokens]
    BY <1>2, LenProperties
  <2> QED
    BY <2>1, <2>2
<1>6. x # <<>> /\ x[1] = Text!Digit /\ x[Len(x)] = Text!Digit
  BY <1>2, <1>3
<1>7. Text!IsNumber(x)
  <2>1. Cardinality(Text!Places(x, Text!Point)) <= 1
    BY <1>4, FS_Singleton
  <2>2. \A i \in DOMAIN x : x[i] \in {Text!Digit, Text!Point}
    BY <1>3
  <2> QED
    BY <1>6, <2>1, <2>2, TextCardinality DEF Text!IsNumber
<1>8. ~Text!LooksLikeThousands(x)
  <2> SUFFICES ASSUME NEW first \in 1..3, NEW n \in 1..Len(x), Text!Groups(x, first, n)
               PROVE  FALSE
    BY DEF Text!LooksLikeThousands
  <2>1. /\ w + 3 = first + 4 * n /\ n \in Nat \ {0}
        /\ \A i \in 1..(w + 3) :
             x[i] = (IF i > first /\ (i - first) % 4 = 1 THEN Text!Point ELSE Text!Digit)
    <3>1. Len(x) = w + 3 /\ n \in 1..(w + 3) /\ DOMAIN x = 1..(w + 3)
      BY <1>2, <1>3
    <3> QED
      BY <3>1 DEF Text!Groups
  <2>2. w > first /\ (w - first) % 4 = 1 /\ w \in 1..(w + 3) /\ w # w + 1
    BY <2>1
  <2>3. x[w] = Text!Point /\ x[w] = Text!Digit
    BY <1>3, <2>1, <2>2
  <2> QED
    BY <2>3, TextTokensApart
<1>9. Text!NumberOf(x) = Text!Value(w, 2)
  <2>1. Text!NumberOf(x) = Text!Value((w + 1) - 1, Len(x) - (w + 1))
    BY <1>4, TextMarkIs
  <2> QED
    BY <1>2, <2>1
<1> QED
  BY <1>4, <1>5, <1>6, <1>7, <1>8, <1>9, FS_EmptySet, TextCardinality DEF Text!FormAccepts,
     Text!ServerReads, x

(* The points of digits in threes: as many as whole groups before the last.*)
LEMMA TextPointsOfThrees ==
  ASSUME NEW k \in Nat, NEW r \in 1..3
  PROVE  LET g == 4 * k + r
             points == {i \in 1..g : (g - i) % 4 = 3}
         IN IsFiniteSet(points) /\ Cardinality(points) = k
<1> DEFINE g == 4 * k + r
           points == {i \in 1..g : (g - i) % 4 = 3}
           f == [j \in 1..k |-> (g + 1) - 4 * j]
<1>1. g \in Nat /\ g = 4 * k + r
  OBVIOUS
<1> HIDE DEF g
<1>2. ASSUME NEW j \in 1..k
      PROVE  f[j] \in points
  <2>1. (g + 1) - 4 * j \in 1..g
    BY <1>1
  <2>2. (g - ((g + 1) - 4 * j)) = 4 * (j - 1) + 3 /\ j - 1 \in Nat
    BY <1>1
  <2>3. (4 * (j - 1) + 3) % 4 = 3
    BY <2>2
  <2> QED
    BY <2>1, <2>2, <2>3
<1>3. \A i \in points : \E j \in 1..k : f[j] = i
  <2> SUFFICES ASSUME NEW i \in 1..g, (g - i) % 4 = 3
               PROVE  \E j \in 1..k : f[j] = i
    OBVIOUS
  <2> DEFINE q == (g - i) \div 4
  <2>1. g - i = 4 * q + 3 /\ q \in Nat
    BY <1>1
  <2> HIDE DEF q
  <2>2. q + 1 \in 1..k /\ (g + 1) - 4 * (q + 1) = i
    BY <1>1, <2>1
  <2> QED
    BY <2>2
<1>4. f \in Bijection(1..k, points)
  <2>1. f \in [1..k -> points]
    BY <1>2
  <2>2. \A a, b \in 1..k : f[a] = f[b] => a = b
    BY <1>1
  <2> QED
    BY <1>3, <2>1, <2>2 DEF Bijection, Injection, Surjection, IsInjective
<1> HIDE DEF f, points
<1>5. IsFiniteSet(1..k) /\ Cardinality(1..k) = k
  <2>1. 1 \in Int /\ k \in Int
    OBVIOUS
  <2>2. IsFiniteSet(1..k) /\ Cardinality(1..k) = IF 1 > k THEN 0 ELSE k - 1 + 1
    BY <2>1, FS_Interval
  <2> QED
    BY <2>2
<1>6. IsFiniteSet(points) /\ Cardinality(points) = k
  BY <1>4, <1>5, FS_Bijection DEF ExistsBijection
<1> QED
  BY <1>6 DEF points, g

(* What the server formats is read back as it was.                         *)
LEMMA TextFormattedIsMeant ==
  ASSUME NEW w \in Nat \ {0}
  PROVE  Text!Meant(Text!Formatted(w)) = Text!Value(w, 2)
<1> DEFINE k == (w - 1) \div 3
           r == ((w - 1) % 3) + 1
           g == w + (w - 1) \div 3
           s == [i \in 1..g |-> IF (g - i) % 4 = 3 THEN Text!Point ELSE Text!Digit]
           x == Text!Formatted(w)
           whole == SubSeq(x, 1, g)
<1>1. k \in Nat /\ r \in 1..3 /\ g = 4 * k + r /\ w = 3 * k + r /\ g \in Nat \ {0}
  OBVIOUS
<1> HIDE DEF k, r
<1>2. s \in [1..g -> Text!Tokens] /\ x = s \o <<Text!Comma, Text!Digit, Text!Digit>>
  BY TextTokensApart DEF Text!Formatted
<1> HIDE DEF x, g
<1>3. /\ x \in Seq(Text!Tokens) /\ Len(x) = g + 3
      /\ \A i \in 1..(g + 3) : x[i] = IF i <= g THEN s[i] ELSE IF i = g + 1 THEN Text!Comma
                                     ELSE IF i = g + 2 THEN Text!Digit ELSE Text!Digit
  <2> HIDE DEF s
  <2> QED
    BY <1>1, <1>2, TextEndedIs, TextTokensApart
<1>4. /\ DOMAIN x = 1..(g + 3)
      /\ \A i \in 1..g : x[i] = (IF (g - i) % 4 = 3 THEN Text!Point ELSE Text!Digit)
      /\ x[g + 1] = Text!Comma /\ x[g + 2] = Text!Digit /\ x[g + 3] = Text!Digit
  <2>1. \A i \in 1..g : i \in 1..(g + 3) /\ i <= g
    BY <1>1
  <2>2. g + 1 \in 1..(g + 3) /\ g + 2 \in 1..(g + 3) /\ g + 3 \in 1..(g + 3)
    BY <1>1
  <2>3. ~(g + 1 <= g) /\ ~(g + 2 <= g) /\ ~(g + 3 <= g) /\ g + 2 # g + 1 /\ g + 3 # g + 1
    BY <1>1
  <2>4. DOMAIN x = 1..(g + 3)
    BY <1>3, TextIs
  <2> QED
    BY <1>3, <2>1, <2>2, <2>3, <2>4
<1>5. Text!Places(x, Text!Comma) = {g + 1}
  <2>1. \A i \in 1..(g + 3) : i \in 1..g \/ i = g + 1 \/ i = g + 2 \/ i = g + 3
    BY <1>1
  <2>2. \A i \in 1..g : x[i] # Text!Comma /\ i # g + 1
    BY <1>1, <1>4, TextTokensApart
  <2> QED
    BY <1>1, <1>4, <2>1, <2>2, TextTokensApart DEF Text!Places
<1>6. /\ whole \in Seq(Text!Tokens) /\ Len(whole) = g /\ DOMAIN whole = 1..g
      /\ \A i \in 1..g : whole[i] = (IF (g - i) % 4 = 3 THEN Text!Point ELSE Text!Digit)
  <2>1. \A i \in 1..g : x[i] \in Text!Tokens
    BY <1>4, TextTokensApart
  <2>2. 1 \in Int /\ g \in Int /\ 1 <= g /\ (g - 1) + 1 = g
    BY <1>1
  <2>3. /\ SubSeq(x, 1, g) \in Seq(Text!Tokens)
        /\ Len(SubSeq(x, 1, g)) = IF 1 <= g THEN g - 1 + 1 ELSE 0
        /\ \A i \in 1..(g - 1 + 1) : SubSeq(x, 1, g)[i] = x[1 + i - 1]
    BY <2>1, <2>2, SubSeqProperties
  <2>4. \A i \in 1..g : 1 + i - 1 = i
    BY <1>1
  <2>5. Len(whole) = g /\ \A i \in 1..g : whole[i] = x[i]
    BY <2>2, <2>3, <2>4
  <2>6. DOMAIN whole = 1..g
    BY <2>3, <2>5, TextIs
  <2> QED
    BY <1>4, <2>3, <2>5, <2>6
<1>7. Text!Meant(x) = IF Text!Places(whole, Text!Point) # {} /\ whole[1] = Text!Digit
      /\ Text!InThrees(whole)
                 THEN Text!Value(g - Cardinality(Text!Places(whole, Text!Point)), 2)
                 ELSE Text!NumberOf(Text!Normalized(x))
  <2>1. (CHOOSE i \in Text!Places(x, Text!Comma) : TRUE) = g + 1
    BY <1>5
  <2>2. (g + 1) - 1 = g /\ (g + 3) - (g + 1) = 2
    BY <1>1
  <2>3. Text!Places(x, Text!Comma) # {}
    BY <1>5
  <2> QED
    BY <1>3, <1>6, <2>1, <2>2, <2>3, TextCardinality DEF Text!Meant
<1>8. Text!InThrees(whole)
  <2> HIDE DEF whole
  <2> QED
    BY <1>6 DEF Text!InThrees
<1>9. Text!Places(whole, Text!Point) = {i \in 1..g : (g - i) % 4 = 3}
  <2> HIDE DEF whole
  <2> QED
    BY <1>6, TextTokensApart DEF Text!Places
<1> HIDE DEF whole, s
<1>10. CASE k = 0
  <2>1. \A i \in 1..g : (g - i) % 4 # 3
    BY <1>1, <1>10
  <2>2. Text!Meant(x) = Text!NumberOf(Text!Normalized(x))
    BY <1>7, <1>9, <2>1
  <2>3. Text!Places(Text!Normalized(x), Text!Point) = {g + 1} /\ Len(Text!Normalized(x)) = g + 3
    <3>1. Text!Normalized(x) = [i \in 1..(g + 3) |-> IF i = g + 1 THEN Text!Point ELSE x[i]]
      <4>1. \A i \in DOMAIN x : x[i] = Text!Comma <=> i = g + 1
        BY <1>5 DEF Text!Places
      <4>2. g + 1 <= g + 1
        BY <1>1
      <4> QED
        BY <1>4, <1>5, <4>1, <4>2 DEF Text!Normalized
    <3>2. \A i \in 1..(g + 3) : i \in 1..g \/ i = g + 1 \/ i = g + 2 \/ i = g + 3
      BY <1>1
    <3>3. \A i \in 1..(g + 3) : i # g + 1 => x[i] = Text!Digit
      BY <1>4, <2>1, <3>2
    <3>4. g + 1 \in 1..(g + 3)
      BY <1>1
    <3>5. Text!Normalized(x) \in [1..(g + 3) -> Text!Tokens]
      BY <3>1, <3>3, TextTokensApart
    <3>6. Len(Text!Normalized(x)) = g + 3
      <4>1. Text!Normalized(x) \in Seq(Text!Tokens) /\ g + 3 \in Nat
        BY <1>1, <3>5, SeqDef
      <4> QED
        BY <3>5, <4>1, LenProperties
    <3>7. DOMAIN Text!Normalized(x) = 1..(g + 3)
      BY <3>1
    <3>8. \A i \in 1..(g + 3) : Text!Normalized(x)[i] = Text!Point <=> i = g + 1
      BY <3>1, <3>3, TextTokensApart
    <3>9. Text!Places(Text!Normalized(x), Text!Point) = {g + 1}
      BY <3>4, <3>7, <3>8 DEF Text!Places
    <3> QED
      BY <3>6, <3>9
  <2>4. Text!NumberOf(Text!Normalized(x)) = Text!Value((g + 1) - 1, (g + 3) - (g + 1))
    BY <2>3, TextMarkIs
  <2> QED
    BY <1>1, <1>10, <2>2, <2>4 DEF x
<1>11. CASE k # 0
  <2>1. g - 3 \in 1..g /\ (g - (g - 3)) % 4 = 3
    BY <1>1, <1>11
  <2>2. whole[1] = Text!Digit
    <3>1. 1 \in 1..g /\ (g - 1) % 4 # 3
      BY <1>1
    <3> QED
      BY <1>6, <3>1
  <2>3. Cardinality(Text!Places(whole, Text!Point)) = k
    <3>1. Cardinality({i \in 1..(4 * k + r) : ((4 * k + r) - i) % 4 = 3}) = k
      BY <1>1, TextPointsOfThrees
    <3>2. 4 * k + r = g
      BY <1>1
    <3> QED
      BY <1>9, <3>1, <3>2
  <2>4. Text!Meant(x) = Text!Value(g - k, 2)
    BY <1>7, <1>8, <1>9, <2>1, <2>2, <2>3
  <2> QED
    BY <1>1, <2>4 DEF x
<1> QED
  BY <1>10, <1>11

(* Every text is read as it was meant.                                     *)
LEMMA TextReadsAsMeant ==
  ASSUME NEW t \in Seq(Text!Tokens)
  PROVE  Text!ReadAsMeant(t)
<1>1. ASSUME Text!IsNumber(t), Text!NumberOf(t).part = 2
      PROVE  Text!NumberOf(t).whole \in Nat \ {0}
            /\ Text!NumberOf(t) = Text!Value(Text!NumberOf(t).whole, 2)
  <2>1. CASE Text!Places(t, Text!Point) = {}
    BY <1>1, <2>1 DEF Text!NumberOf, Text!Value
  <2>2. CASE Text!Places(t, Text!Point) # {}
    <3>1. PICK m : m \in Text!Places(t, Text!Point)
          /\ Text!NumberOf(t) = Text!Value(m - 1, Len(t) - m)
      BY <2>2 DEF Text!NumberOf
    <3>2. m \in 1..Len(t) /\ t[m] = Text!Point /\ t[1] = Text!Digit /\ Len(t) \in Nat
      BY <1>1, <3>1, TextIs DEF Text!Places, Text!IsNumber
    <3>3. m # 1
      BY <3>2, TextTokensApart
    <3>4. Text!NumberOf(t).whole = m - 1 /\ Text!NumberOf(t).part = Len(t) - m
      BY <3>1 DEF Text!Value
    <3> QED
      BY <1>1, <3>1, <3>2, <3>3, <3>4
  <2> QED
    BY <2>1, <2>2
<1>2. Text!FormAccepts(t) => Text!ServerReads(t) # Text!Nothing
      /\ Text!ServerReads(t) = Text!Meant(t)
  BY TextAcceptedIsMeant
<1>3. ASSUME Text!IsNumber(t), Text!NumberOf(t).part = 2
      PROVE  /\ Text!Meant(Text!Formatted(Text!NumberOf(t).whole)) = Text!NumberOf(t)
             /\ Text!FormAccepts(Text!Fixed(Text!NumberOf(t).whole))
             /\ Text!ServerReads(Text!Fixed(Text!NumberOf(t).whole)) = Text!NumberOf(t)
  <2> DEFINE w == Text!NumberOf(t).whole
  <2>1. w \in Nat \ {0} /\ Text!NumberOf(t) = Text!Value(w, 2)
    BY <1>1, <1>3
  <2> HIDE DEF w
  <2>2. Text!Meant(Text!Formatted(w)) = Text!Value(w, 2)
    BY <2>1, TextFormattedIsMeant
  <2>3. Text!FormAccepts(Text!Fixed(w)) /\ Text!ServerReads(Text!Fixed(w)) = Text!Value(w, 2)
    BY <2>1, TextFixedIsRead
  <2> QED
    BY <2>1, <2>2, <2>3 DEF w
<1> QED
  BY <1>2, <1>3 DEF Text!ReadAsMeant
=============================================================================
