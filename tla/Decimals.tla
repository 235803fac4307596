------------------------------ MODULE Decimals ------------------------------
(***************************************************************************)
(* Numbers as text: backend/src/common/money/decimal.util.ts, the number   *)
(* normalizers of parameters.service.ts, and the guard the forms put in    *)
(* front of them, frontend/src/domain/decimal-input.ts.                    *)
(*                                                                         *)
(* A text is a sequence of tokens.  Its digits are told apart by their     *)
(* places only, so a value is how many digits come before the decimal mark *)
(* and how many after.                                                     *)
(***************************************************************************)
EXTENDS Naturals, Sequences, FiniteSets

Digit == "digit"
Point == "."
Comma == ","
Other == "other"     \* a letter, a sign, a blank inside
Tokens == {Digit, Point, Comma, Other}

Places(t, token) == {i \in DOMAIN t : t[i] = token}
Nothing == [whole |-> 0, part |-> 0]    \* no number
Value(w, p) == [whole |-> w, part |-> p]

(* replace(',', '.'): the first comma only.                                *)
Normalized(t) ==
  [i \in DOMAIN t |->
     IF t[i] = Comma /\ \A j \in Places(t, Comma) : i <= j THEN Point ELSE t[i]]

(* ^\d+(\.\d+)?$                                                           *)
IsNumber(t) ==
  /\ t # <<>>
  /\ \A i \in DOMAIN t : t[i] \in {Digit, Point}
  /\ Cardinality(Places(t, Point)) <= 1
  /\ t[1] = Digit /\ t[Len(t)] = Digit

NumberOf(t) ==
  IF Places(t, Point) = {} THEN Value(Len(t), 0)
  ELSE LET mark == CHOOSE i \in Places(t, Point) : TRUE
       IN Value(mark - 1, Len(t) - mark)

(* parseDecimalInput, normalizeNonNegativeDecimal; a minus is refused by   *)
(* both, by the pattern or by isNegative.                                  *)
ServerReads(t) ==
  IF IsNumber(Normalized(t)) THEN NumberOf(Normalized(t)) ELSE Nothing

(* Some digits, then groups of a point and three digits.                   *)
Groups(t, first, n) ==
  /\ Len(t) = first + 4 * n
  /\ \A i \in DOMAIN t :
       t[i] = (IF i > first /\ (i - first) % 4 = 1 THEN Point ELSE Digit)

(* Bug for checking: ^\d{1,2}(\.\d{3})+$                                   *)
LooksLikeThousandsBug(t) == \E first \in 1..2, n \in 1..Len(t) : Groups(t, first, n)

(* ^\d{1,3}(\.\d{3})+$                                                     *)
LooksLikeThousands(t) == \E first \in 1..3, n \in 1..Len(t) : Groups(t, first, n)

(* validateDecimalInput.                                                   *)
FormAccepts(t) ==
  /\ t # <<>>
  /\ ~LooksLikeThousands(t)
  /\ Cardinality(Places(t, Comma)) <= 1
  /\ ~(Places(t, Point) # {} /\ Places(t, Comma) # {})
  /\ IsNumber(Normalized(t))

(* formatPtBr of a value with two places.                                  *)
Formatted(w) ==
  LET grouped == w + (w - 1) \div 3
  IN [i \in 1..grouped |-> IF (grouped - i) % 4 = 3 THEN Point ELSE Digit]
       \o <<Comma, Digit, Digit>>

(* toFixed(2), as parameters are stored and fill their form again.         *)
Fixed(w) == [i \in 1..w |-> Digit] \o <<Point, Digit, Digit>>

(* Digits in threes from the right, as people write them.                  *)
InThrees(t) ==
  \A i \in DOMAIN t : t[i] = (IF (Len(t) - i) % 4 = 3 THEN Point ELSE Digit)

(* What a Brazilian means by a text: points in threes only group, and one  *)
(* mark, a comma or a point that groups nothing, comes before the part.    *)
Meant(t) ==
  LET marks == Places(t, Comma)
      cut == IF marks = {} THEN Len(t) + 1 ELSE CHOOSE i \in marks : TRUE
      whole == SubSeq(t, 1, cut - 1)
      part == Len(t) - cut
  IN IF Places(whole, Point) # {} /\ whole[1] = Digit /\ InThrees(whole)
     THEN Value(Len(whole) - Cardinality(Places(whole, Point)),
                IF marks = {} THEN 0 ELSE part)
     ELSE NumberOf(Normalized(t))

-----------------------------------------------------------------------------
(* What a form lets through the server accepts, with the value it was      *)
(* typed for; what the server formats is read back as it was, and what a   *)
(* parameter stores passes its form again: decimal-input.ts, 1-20.         *)
ReadAsMeant(t) ==
  /\ FormAccepts(t) => ServerReads(t) # Nothing /\ ServerReads(t) = Meant(t)
  /\ IsNumber(t) /\ NumberOf(t).part = 2 =>
       /\ Meant(Formatted(NumberOf(t).whole)) = NumberOf(t)
       /\ FormAccepts(Fixed(NumberOf(t).whole))
       /\ ServerReads(Fixed(NumberOf(t).whole)) = NumberOf(t)
=============================================================================
