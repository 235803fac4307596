---------------------------- MODULE ScreensProofs ----------------------------
(***************************************************************************)
(* What holds of the parameters and of the modules at the server, of the   *)
(* migration and of every screen, for any values of their constants.  The  *)
(* invariant of each, IInv, stands at the end of its module; three lemmas  *)
(* say that it holds at first, that every step keeps it, what it means.    *)
(***************************************************************************)
EXTENDS Screens, Sequences, TLAPS, WellFoundedInduction

-----------------------------------------------------------------------------
(* The parameters at the server: Parameters.tla, whose rows, folder, req,  *)
(* chosen and settled are v1 to v5 here, with crashes between any two      *)
(* steps. A request that was left alone at its variant is the only one     *)
(* there, and a variant is settled while nobody changes it.                *)

LEMMA ParamsKeysApart ==
  ASSUME Params!ParametersAssumption
  PROVE  /\ Variants \cap TextKeys = {} /\ "title" \notin Variants
         /\ \A b \in Bodies : DOMAIN b \subseteq Params!Keys
BY DEF Params!ParametersAssumption, Params!Texts, Params!Keys

LEMMA ParamsNoFileIsNamed == Params!Absent \notin Params!FileNames
      /\ Params!Blank \notin Params!FileNames /\ Params!Default \notin Params!FileNames
BY DEF Params!Absent, Params!Blank, Params!Default, Params!FileNames

LEMMA ParamsUploads ==
  \A r : /\ Params!Holding(r) # Params!NoFile
         /\ Params!Holding(r) # Params!Torn /\ Params!Torn # Params!NoFile
BY DEF Params!Holding, Params!NoFile, Params!Torn

(* What is served comes from the row and the folder only.                  *)
LEMMA ParamsServedIs ==
  ASSUME NEW v \in Variants
  PROVE  Params!Served(v) = IF v1[v] \in Params!FileNames THEN v2[v1[v]] ELSE Params!NoFile
BY ParamsNoFileIsNamed DEF Params!Served, Params!Resolved

LEMMA ParamsInit ==
  ASSUME Params!ParametersAssumption, Params!Init
  PROVE  Params!IInv
<1>1. Params!Shaped
  BY DEF Params!Init, Params!Shaped, Params!Idle, Params!Jobs
<1>2. ASSUME NEW r \in Requests
      PROVE  v3[r].pc \notin Params!Changing
  BY DEF Params!Init, Params!Idle, Params!Changing
<1>3. ASSUME NEW v \in Variants
      PROVE  Params!Quiet(v)
  <2>1. Params!ChangingLogo(v) = {}
    BY <1>2 DEF Params!ChangingLogo, Params!Changing
  <2>2. v1[v] \notin Params!FileNames /\ v5[v] = Params!NoFile
    BY ParamsNoFileIsNamed DEF Params!Init, Params!Keys
  <2> QED
    BY <2>1, <2>2, ParamsServedIs DEF Params!Quiet
<1>4. Params!ChoicesStand
  BY DEF Params!Init, Params!ChoicesStand
<1> QED
  BY <1>1, <1>2, <1>3, <1>4 DEF Params!IInv, Params!Minds, Params!Alone

(* A step of a request that changes no logo, before and after.             *)
LEMMA ParamsRead ==
  ASSUME Params!IInv, NEW r \in Requests, NEW j \in Params!Jobs,
         v3' = [v3 EXCEPT ![r] = j], v3[r].pc \notin Params!Changing, j.pc \notin Params!Changing,
         UNCHANGED <<v1, v2, v4, v5>>
  PROVE  Params!IInv'
<1>1. Params!Shaped'
  BY DEF Params!IInv, Params!Shaped
<1>2. v3'[r] = j /\ \A q \in Requests \ {r} : v3'[q] = v3[q]
  BY DEF Params!IInv, Params!Shaped
<1>3. ASSUME NEW v
      PROVE  Params!ChangingLogo(v)' = Params!ChangingLogo(v)
  BY <1>2 DEF Params!ChangingLogo, Params!Changing
<1>4. ASSUME NEW q \in Requests
      PROVE  Params!Minds(q)' /\ Params!Alone(q)'
  <2>1. CASE q = r
    BY <1>2, <2>1 DEF Params!Minds, Params!Alone
  <2>2. CASE q # r
    BY <1>2, <1>3, <2>2 DEF Params!IInv, Params!Minds, Params!Alone
  <2> QED
    BY <2>1, <2>2
<1>5. ASSUME NEW v \in Variants
      PROVE  Params!Quiet(v)'
  BY <1>3 DEF Params!IInv, Params!Quiet, Params!Served, Params!Resolved
<1>6. Params!ChoicesStand'
  BY DEF Params!IInv, Params!ChoicesStand, Params!GetMany
<1> QED
  BY <1>1, <1>4, <1>5, <1>6 DEF Params!IInv

(* A step of the request r that is changing a logo and goes on to.  It may *)
(* touch the files of its own variant.                                     *)
LEMMA ParamsLogoStep ==
  ASSUME Params!IInv, NEW r \in Requests, NEW j \in Params!Jobs,
         v3' = [v3 EXCEPT ![r] = j], v3[r].pc \in Params!Changing, j.pc \in Params!Changing,
         j.variant = v3[r].variant, j.alone = v3[r].alone,
         j.pc = "clear" => j.left \subseteq Params!OwnFiles(j.variant),
         j.name = Params!Blank \/ j.name \in Params!OwnFiles(j.variant),
         j.pc \in {"open", "fill"} => j.name # Params!Blank,
         v2' = [f \in Params!FileNames |-> v2'[f]],
         \A f \in Params!FileNames : f[1] # j.variant => v2'[f] = v2[f],
         j.alone /\ j.pc = "fill" => v2'[j.name] = Params!Torn,
         j.alone /\ j.pc = "row" /\ j.name # Params!Blank => v2'[j.name] = Params!Holding(r),
         UNCHANGED <<v1, v4, v5>>
  PROVE  Params!IInv'
<1>1. Params!Shaped'
  BY DEF Params!IInv, Params!Shaped
<1>2. v3'[r] = j /\ \A q \in Requests \ {r} : v3'[q] = v3[q]
  BY DEF Params!IInv, Params!Shaped
<1>3. j.variant \in Variants /\ Params!Minds(r) /\ Params!Alone(r)
  BY DEF Params!IInv, Params!Minds
<1>4. ASSUME NEW v
      PROVE  Params!ChangingLogo(v)' = Params!ChangingLogo(v)
  BY <1>2 DEF Params!ChangingLogo, Params!Changing
<1>5. r \in Params!ChangingLogo(j.variant)
  BY DEF Params!ChangingLogo, Params!Changing
<1>6. ASSUME NEW q \in Requests
      PROVE  Params!Minds(q)' /\ Params!Alone(q)'
  <2>1. CASE q = r
    BY <1>2, <1>3, <1>4, <2>1 DEF Params!Minds, Params!Alone
  <2>2. CASE q # r
    <3>1. Params!Minds(q) /\ Params!Alone(q) /\ v3'[q] = v3[q]
      BY <1>2, <2>2 DEF Params!IInv
    <3>2. Params!Minds(q)'
      BY <3>1 DEF Params!Minds
    <3>3. ASSUME v3[q].pc \in Params!Changing, v3[q].alone
          PROVE  v3[q].variant # j.variant
      BY <1>5, <2>2, <3>1, <3>3 DEF Params!Alone
    <3>4. ASSUME v3[q].pc \in Params!Changing, v3[q].alone, v3[q].name # Params!Blank
          PROVE  v2'[v3[q].name] = v2[v3[q].name]
      BY <3>1, <3>3, <3>4 DEF Params!Minds, Params!OwnFiles
    <3>5. ASSUME v3[q].pc = "fill"
          PROVE  v3[q].name # Params!Blank /\ v3[q].pc \in Params!Changing
      BY <3>1, <3>5 DEF Params!Minds, Params!Changing
    <3>6. Params!Alone(q)'
      BY <1>4, <3>1, <3>4, <3>5 DEF Params!Alone
    <3> QED
      BY <3>2, <3>6
  <2> QED
    BY <2>1, <2>2
<1>7. ASSUME NEW v \in Variants
      PROVE  Params!Quiet(v)'
  <2>1. Params!Quiet(v)
    BY DEF Params!IInv
  <2>2. CASE v5[v] = Params!Unsettled
    BY <2>2 DEF Params!Quiet
  <2>3. CASE v5[v] # Params!Unsettled
    <3>1. v # j.variant /\ Params!ChangingLogo(v)' = {}
          /\ (v1[v] \in Params!FileNames => v1[v] \in Params!OwnFiles(v))
      BY <1>4, <1>5, <2>1, <2>3 DEF Params!Quiet
    <3>2. v1[v] \in Params!FileNames => v2'[v1[v]] = v2[v1[v]]
      BY <3>1 DEF Params!OwnFiles
    <3>3. Params!Served(v)' = Params!Served(v)
      BY <3>2 DEF Params!Served, Params!Resolved
    <3> QED
      BY <2>1, <2>3, <3>1, <3>3 DEF Params!Quiet
  <2> QED
    BY <2>2, <2>3
<1>8. Params!ChoicesStand'
  BY DEF Params!IInv, Params!ChoicesStand, Params!GetMany
<1> QED
  BY <1>1, <1>6, <1>7, <1>8 DEF Params!IInv

(* A change of a logo begins: it is alone if nobody changes that variant,  *)
(* and whoever does is alone no more.                                      *)
LEMMA ParamsBegin ==
  ASSUME Params!IInv, NEW r \in Requests, NEW v \in Variants,
         NEW name \in Params!OwnFiles(v) \cup {Params!Blank}, Params!Begin(r, v, name)
  PROVE  Params!IInv'
<1>1. /\ v3[r].pc = "idle" /\ UNCHANGED <<v1, v2, v4>>
      /\ v5' = [v5 EXCEPT ![v] = Params!Unsettled]
  BY DEF Params!Begin, Params!At
<1>2. \A q \in Requests : v3[q] \in Params!Jobs
  BY DEF Params!IInv, Params!Shaped
<1>3. PICK b \in BOOLEAN :
        /\ v3'[r] = [v3[r] EXCEPT !.pc = "list", !.variant = v, !.name = name, !.alone = b]
        /\ b => Params!ChangingLogo(v) = {}
  <2>1. (Params!ChangingLogo(v) = {}) \in BOOLEAN
    BY Zenon
  <2> QED
    BY <2>1, Zenon DEF Params!Begin
<1>4. /\ v3'[r] \in Params!Jobs /\ v3'[r].pc = "list" /\ v3'[r].variant = v
      /\ v3'[r].name = name /\ v3'[r].alone = b
  <2>1. name \in Params!FileNames \cup {Params!Blank}
    BY DEF Params!OwnFiles
  <2> QED
    BY <1>2, <1>3, <2>1 DEF Params!Jobs, Params!Changing
<1>5. ASSUME NEW q \in Requests \ {r}
      PROVE  /\ v3'[q] \in Params!Jobs /\ v3'[q].pc = v3[q].pc /\ v3'[q].variant = v3[q].variant
             /\ v3'[q].name = v3[q].name /\ v3'[q].left = v3[q].left
             /\ v3'[q].alone => v3[q].alone /\ q \notin Params!ChangingLogo(v)
  <2>1. v3'[q] = IF q \in Params!ChangingLogo(v) THEN [v3[q] EXCEPT !.alone = FALSE] ELSE v3[q]
    BY DEF Params!Begin
  <2> QED
    BY <1>2, <2>1 DEF Params!Jobs
<1>6. ASSUME NEW u
      PROVE  Params!ChangingLogo(u)' = IF u = v THEN Params!ChangingLogo(u) \cup {r} ELSE Params!ChangingLogo(u)
  BY <1>1, <1>4, <1>5 DEF Params!ChangingLogo
<1>7. Params!Shaped'
  <2>1. v3' \in [Requests -> Params!Jobs]
    <3>1. v3' = [q \in Requests |-> v3'[q]]
      BY DEF Params!Begin
    <3> QED
      BY <1>4, <1>5, <3>1
  <2> QED
    BY <1>1, <2>1 DEF Params!IInv, Params!Shaped
<1>8. ASSUME NEW q \in Requests
      PROVE  Params!Minds(q)' /\ Params!Alone(q)'
  <2>1. CASE q = r
    <3>1. Params!Minds(q)'
      BY <1>4, <2>1 DEF Params!Minds
    <3>2. b => Params!ChangingLogo(v)' = {r}
      BY <1>3, <1>6
    <3> QED
      BY <1>4, <2>1, <3>1, <3>2 DEF Params!Alone
  <2>2. CASE q # r
    <3>1. Params!Minds(q) /\ Params!Alone(q)
      BY DEF Params!IInv
    <3>2. Params!Minds(q)'
      BY <1>5, <2>2, <3>1 DEF Params!Minds
    <3>3. ASSUME v3'[q].pc \in Params!Changing, v3'[q].alone
          PROVE  v3[q].variant # v
      BY <1>5, <2>2, <3>3 DEF Params!ChangingLogo, Params!Changing
    <3>4. Params!Alone(q)'
      BY <1>1, <1>5, <1>6, <2>2, <3>1, <3>3 DEF Params!Alone
    <3> QED
      BY <3>2, <3>4
  <2> QED
    BY <2>1, <2>2
<1>9. ASSUME NEW u \in Variants
      PROVE  Params!Quiet(u)'
  <2>1. v5'[u] = IF u = v THEN Params!Unsettled ELSE v5[u]
    BY <1>1 DEF Params!IInv, Params!Shaped
  <2>2. Params!Quiet(u) /\ Params!Served(u)' = Params!Served(u)
    BY <1>1 DEF Params!IInv, Params!Served, Params!Resolved
  <2> QED
    BY <1>1, <1>6, <2>1, <2>2 DEF Params!Quiet
<1>10. Params!ChoicesStand'
  BY <1>1 DEF Params!IInv, Params!ChoicesStand, Params!GetMany
<1> QED
  BY <1>7, <1>8, <1>9, <1>10 DEF Params!IInv

LEMMA ParamsClearing ==
  ASSUME Params!IInv, NEW r \in Requests,
         Params!ListFolder(r) \/ Params!Unlink(r) \/ Params!Cleared(r)
  PROVE  Params!IInv'
<1>1. v3[r] \in Params!Jobs /\ Params!Minds(r) /\ v2 = [f \in Params!FileNames |-> v2[f]]
  BY DEF Params!IInv, Params!Shaped
<1>2. CASE Params!ListFolder(r)
  <2> DEFINE j == [v3[r] EXCEPT !.left = Params!FilesOf(v3[r].variant), !.pc = "clear"]
  <2>1. /\ v3[r].pc = "list" /\ v3' = [v3 EXCEPT ![r] = j]
        /\ UNCHANGED <<v1, v2, v4, v5>>
    BY <1>2 DEF Params!ListFolder, Params!At
  <2>2. /\ Params!FilesOf(v3[r].variant) \subseteq Params!OwnFiles(v3[r].variant)
        /\ Params!OwnFiles(v3[r].variant) \subseteq Params!FileNames
    BY DEF Params!FilesOf, Params!OwnFiles
  <2>3. /\ j \in Params!Jobs /\ j.pc = "clear" /\ j.variant = v3[r].variant
        /\ j.alone = v3[r].alone /\ j.name = v3[r].name /\ j.left = Params!FilesOf(v3[r].variant)
    BY <1>1, <2>2 DEF Params!Jobs, Params!Changing
  <2> HIDE DEF j
  <2> QED
    BY <1>1, <2>1, <2>2, <2>3, ParamsLogoStep DEF Params!Minds, Params!Changing
<1>3. CASE Params!Unlink(r)
  <2>1. PICK f \in v3[r].left :
          /\ v2' = [v2 EXCEPT ![f] = Params!NoFile]
          /\ v3' = [v3 EXCEPT ![r].left = @ \ {f}]
    BY <1>3 DEF Params!Unlink
  <2> DEFINE j == [v3[r] EXCEPT !.left = @ \ {f}]
  <2>2. /\ v3[r].pc = "clear" /\ v3' = [v3 EXCEPT ![r] = j]
        /\ UNCHANGED <<v1, v4, v5>>
    BY <1>3, <2>1 DEF Params!Unlink, Params!At
  <2>3. /\ j \in Params!Jobs /\ j.pc = "clear" /\ j.variant = v3[r].variant
        /\ j.alone = v3[r].alone /\ j.name = v3[r].name /\ j.left = v3[r].left \ {f}
    BY <1>1, <2>2 DEF Params!Jobs, Params!Changing
  <2>4. f \in Params!OwnFiles(j.variant) /\ j.left \subseteq Params!OwnFiles(j.variant)
    BY <1>1, <2>2, <2>3 DEF Params!Minds, Params!Changing
  <2>5. /\ v2' = [g \in Params!FileNames |-> v2'[g]]
        /\ \A g \in Params!FileNames : g[1] # j.variant => v2'[g] = v2[g]
    BY <1>1, <2>1, <2>4 DEF Params!OwnFiles
  <2> HIDE DEF j
  <2> QED
    BY <1>1, <2>2, <2>3, <2>4, <2>5, ParamsLogoStep DEF Params!Minds, Params!Changing
<1>4. CASE Params!Cleared(r)
  <2> DEFINE to == IF v3[r].name = Params!Blank THEN "row" ELSE "open"
             j == [v3[r] EXCEPT !.pc = to]
  <2>1. /\ v3[r].pc = "clear" /\ v3' = [v3 EXCEPT ![r] = j]
        /\ UNCHANGED <<v1, v2, v4, v5>>
    BY <1>4 DEF Params!Cleared, Params!At, Params!Goto
  <2>2. /\ j \in Params!Jobs /\ j.pc = to /\ j.variant = v3[r].variant
        /\ j.alone = v3[r].alone /\ j.name = v3[r].name /\ j.left = v3[r].left
    BY <1>1 DEF Params!Jobs, Params!Changing
  <2> HIDE DEF j
  <2> QED
    BY <1>1, <2>1, <2>2, ParamsLogoStep DEF Params!Minds, Params!Changing
<1> QED
  BY <1>2, <1>3, <1>4

LEMMA ParamsWriting ==
  ASSUME Params!IInv, NEW r \in Requests, Params!OpenFile(r) \/ Params!FillFile(r)
  PROVE  Params!IInv'
<1>1. v3[r] \in Params!Jobs /\ Params!Minds(r) /\ Params!Alone(r)
      /\ v2 = [f \in Params!FileNames |-> v2[f]]
  BY DEF Params!IInv, Params!Shaped
<1> DEFINE name == v3[r].name
<1>2. CASE Params!OpenFile(r)
  <2> DEFINE j == [v3[r] EXCEPT !.pc = "fill"]
  <2>1. /\ v3[r].pc = "open" /\ v3' = [v3 EXCEPT ![r] = j]
        /\ v2' = [v2 EXCEPT ![name] = Params!Torn]
        /\ UNCHANGED <<v1, v4, v5>>
    BY <1>2 DEF Params!OpenFile, Params!At, Params!Goto
  <2>2. /\ j \in Params!Jobs /\ j.pc = "fill" /\ j.variant = v3[r].variant
        /\ j.alone = v3[r].alone /\ j.name = v3[r].name /\ j.left = v3[r].left
    BY <1>1 DEF Params!Jobs, Params!Changing
  <2>3. name # Params!Blank /\ name \in Params!OwnFiles(v3[r].variant) /\ name \in Params!FileNames
    BY <1>1, <2>1 DEF Params!Minds, Params!Changing, Params!OwnFiles
  <2>4. /\ v2' = [g \in Params!FileNames |-> v2'[g]] /\ v2'[name] = Params!Torn
        /\ \A g \in Params!FileNames : g[1] # j.variant => v2'[g] = v2[g]
    BY <1>1, <2>1, <2>2, <2>3 DEF Params!OwnFiles
  <2> HIDE DEF j
  <2> QED
    BY <1>1, <2>1, <2>2, <2>3, <2>4, ParamsLogoStep DEF Params!Minds, Params!Changing
<1>3. CASE Params!FillFile(r)
  <2> DEFINE j == [v3[r] EXCEPT !.pc = "row"]
  <2>1. /\ v3[r].pc = "fill" /\ v3' = [v3 EXCEPT ![r] = j]
        /\ v2' = [v2 EXCEPT ![name] = IF @ = Params!NoFile THEN @ ELSE Params!Holding(r)]
        /\ UNCHANGED <<v1, v4, v5>>
    BY <1>3 DEF Params!FillFile, Params!At, Params!Goto
  <2>2. /\ j \in Params!Jobs /\ j.pc = "row" /\ j.variant = v3[r].variant
        /\ j.alone = v3[r].alone /\ j.name = v3[r].name /\ j.left = v3[r].left
    BY <1>1 DEF Params!Jobs, Params!Changing
  <2>3. name # Params!Blank /\ name \in Params!OwnFiles(v3[r].variant) /\ name \in Params!FileNames
    BY <1>1, <2>1 DEF Params!Minds, Params!Changing, Params!OwnFiles
  <2>4. /\ v2' = [g \in Params!FileNames |-> v2'[g]]
        /\ \A g \in Params!FileNames : g[1] # j.variant => v2'[g] = v2[g]
    BY <1>1, <2>1, <2>2, <2>3 DEF Params!OwnFiles
  <2>5. v3[r].alone => v2'[name] = Params!Holding(r)
    BY <1>1, <2>1, <2>3, ParamsUploads DEF Params!Alone, Params!Changing
  <2> HIDE DEF j
  <2> QED
    BY <1>1, <2>1, <2>2, <2>3, <2>4, <2>5, ParamsLogoStep DEF Params!Minds, Params!Changing
<1> QED
  BY <1>2, <1>3

(* The row of a variant is written: of a request left alone, the file is   *)
(* there.                                                                  *)
LEMMA ParamsWriteRow ==
  ASSUME Params!ParametersAssumption, Params!IInv, NEW r \in Requests, Params!WriteRow(r)
  PROVE  Params!IInv'
<1> DEFINE v == v3[r].variant
           name == v3[r].name
           left == IF ~v3[r].alone THEN Params!Unsettled
                   ELSE IF name = Params!Blank THEN Params!NoFile ELSE Params!Holding(r)
<1>1. /\ v3[r].pc = "row" /\ v1' = [v1 EXCEPT ![v] = name]
      /\ v5' = [v5 EXCEPT ![v] = left]
      /\ v3' = [v3 EXCEPT ![r].pc = "done"] /\ UNCHANGED <<v2, v4>>
  BY DEF Params!WriteRow, Params!At, Params!Goto
<1>2. /\ v \in Variants /\ v \in Params!Keys /\ v \notin TextKeys
      /\ name = Params!Blank \/ name \in Params!OwnFiles(v)
  BY <1>1, ParamsKeysApart DEF Params!IInv, Params!Minds, Params!Changing, Params!Keys
<1>3. /\ Params!Shaped' /\ v1'[v] = name /\ v5'[v] = left
      /\ \A k \in Params!Keys \ {v} : v1'[k] = v1[k]
      /\ \A u \in Variants \ {v} : v5'[u] = v5[u]
      /\ v3'[r].pc = "done" /\ \A q \in Requests \ {r} : v3'[q] = v3[q]
  <2>1. /\ v3' \in [Requests -> Params!Jobs] /\ v3'[r].pc = "done"
        /\ \A q \in Requests \ {r} : v3'[q] = v3[q]
    BY <1>1 DEF Params!IInv, Params!Shaped, Params!Jobs
  <2> HIDE DEF left
  <2> QED
    BY <1>1, <1>2, <2>1 DEF Params!IInv, Params!Shaped
<1>4. ASSUME NEW u
      PROVE  Params!ChangingLogo(u)' = Params!ChangingLogo(u) \ {r}
  BY <1>3 DEF Params!ChangingLogo
<1>5. r \in Params!ChangingLogo(v)
  BY <1>1 DEF Params!ChangingLogo
<1>6. ASSUME NEW q \in Requests
      PROVE  Params!Minds(q)' /\ Params!Alone(q)'
  <2>1. CASE q = r
    BY <1>3, <2>1 DEF Params!Minds, Params!Alone, Params!Changing
  <2>2. CASE q # r
    <3>1. Params!Minds(q) /\ Params!Alone(q) /\ v3'[q] = v3[q]
      BY <1>3, <2>2 DEF Params!IInv
    <3>2. ASSUME v3[q].pc \in Params!Changing, v3[q].alone
          PROVE  Params!ChangingLogo(v3[q].variant)' = {q}
      BY <1>4, <2>2, <3>1, <3>2 DEF Params!Alone
    <3> QED
      BY <1>1, <3>1, <3>2 DEF Params!Minds, Params!Alone
  <2> QED
    BY <2>1, <2>2
<1>7. ASSUME NEW u \in Variants
      PROVE  Params!Quiet(u)'
  <2>1. Params!Quiet(u)
    BY DEF Params!IInv
  <2>2. CASE u # v
    <3>1. v1'[u] = v1[u] /\ v5'[u] = v5[u]
      BY <1>3, <2>2 DEF Params!Keys
    <3>2. Params!Served(u)' = Params!Served(u)
      BY <1>1, <3>1 DEF Params!Served, Params!Resolved
    <3> QED
      BY <1>4, <2>1, <3>1, <3>2 DEF Params!Quiet
  <2>3. CASE u = v /\ ~v3[r].alone
    BY <1>3, <2>3 DEF Params!Quiet
  <2>4. CASE u = v /\ v3[r].alone
    <3>1. Params!ChangingLogo(u)' = {}
      BY <1>1, <1>4, <2>4 DEF Params!IInv, Params!Alone, Params!Changing
    <3>2. name # Params!Blank => v2[name] = Params!Holding(r)
      BY <1>1, <2>4 DEF Params!IInv, Params!Alone, Params!Changing
    <3>3. Params!Served(u)' = IF v1'[u] \in Params!FileNames THEN v2'[v1'[u]] ELSE Params!NoFile
      BY <1>2, ParamsNoFileIsNamed DEF Params!Served, Params!Resolved
    <3>4. Params!Served(u)' = v5'[u]
      BY <1>1, <1>2, <1>3, <2>4, <3>2, <3>3, ParamsNoFileIsNamed DEF Params!OwnFiles
    <3> QED
      BY <1>2, <1>3, <2>4, <3>1, <3>4, ParamsNoFileIsNamed DEF Params!Quiet
  <2> QED
    BY <2>2, <2>3, <2>4
<1>8. Params!ChoicesStand'
  BY <1>1, <1>2, <1>3 DEF Params!IInv, Params!ChoicesStand, Params!GetMany, Params!Keys
<1> QED
  BY <1>3, <1>6, <1>7, <1>8 DEF Params!IInv

(* Default rows appear where there was none: what a logo serves and what   *)
(* was chosen for a parameter stay.                                        *)
LEMMA ParamsCreateMissing ==
  ASSUME Params!ParametersAssumption, Params!IInv, NEW r \in Requests, Params!CreateMissing(r)
  PROVE  Params!IInv'
<1>1. /\ v3[r].pc = "create" /\ v1' = Params!WithDefaults(v3[r].missing)
      /\ v3' = [v3 EXCEPT ![r].pc = "read"] /\ UNCHANGED <<v2, v4, v5>>
  BY DEF Params!CreateMissing, Params!At, Params!Goto
<1>2. /\ v3' \in [Requests -> Params!Jobs] /\ v3'[r].pc = "read"
      /\ \A q \in Requests \ {r} : v3'[q] = v3[q]
  BY <1>1 DEF Params!IInv, Params!Shaped, Params!Jobs
<1>3. /\ v1' = [k \in Params!Keys |-> v1'[k]]
      /\ \A k \in Params!Keys : v1[k] # Params!Absent => v1'[k] = v1[k]
      /\ \A v \in Variants : v1'[v] = v1[v] \/ (v1[v] = Params!Absent /\ v1'[v] = Params!Blank)
  BY <1>1 DEF Params!WithDefaults, Params!DefaultOf, Params!Keys
<1>4. Params!Shaped'
  BY <1>1, <1>2, <1>3 DEF Params!IInv, Params!Shaped
<1>5. ASSUME NEW v
      PROVE  Params!ChangingLogo(v)' = Params!ChangingLogo(v)
  BY <1>1, <1>2 DEF Params!ChangingLogo
<1>6. ASSUME NEW q \in Requests
      PROVE  Params!Minds(q)' /\ Params!Alone(q)'
  <2>1. CASE q = r
    BY <1>2, <2>1 DEF Params!Minds, Params!Alone, Params!Changing
  <2>2. CASE q # r
    BY <1>1, <1>2, <1>5, <2>2 DEF Params!IInv, Params!Minds, Params!Alone
  <2> QED
    BY <2>1, <2>2
<1>7. ASSUME NEW v \in Variants
      PROVE  Params!Quiet(v)'
  <2>1. Params!Served(v) = IF v1[v] \in Params!FileNames THEN v2[v1[v]] ELSE Params!NoFile
    BY ParamsServedIs
  <2>2. Params!Served(v)' = IF v1'[v] \in Params!FileNames THEN v2'[v1'[v]] ELSE Params!NoFile
    BY ParamsNoFileIsNamed DEF Params!Served, Params!Resolved
  <2>3. Params!Quiet(v)
    BY DEF Params!IInv
  <2> QED
    BY <1>1, <1>3, <1>5, <2>1, <2>2, <2>3, ParamsNoFileIsNamed DEF Params!Quiet
<1>8. Params!ChoicesStand'
  <2> SUFFICES ASSUME NEW k \in TextKeys, v4[k] # Params!Absent
               PROVE  v1'[k] = v4[k] /\ (k = "title" => Params!GetMany[k]' = v4[k])
    BY <1>1 DEF Params!ChoicesStand
  <2>1. k \in Params!Keys /\ v1[k] = v4[k] /\ (k = "title" => Params!GetMany[k] = v4[k])
    BY DEF Params!IInv, Params!ChoicesStand, Params!Keys
  <2>2. v1'[k] = v1[k]
    BY <1>3, <2>1
  <2> QED
    BY <2>1, <2>2 DEF Params!GetMany
<1> QED
  BY <1>4, <1>6, <1>7, <1>8 DEF Params!IInv

(* An update: the keys of the body hold what it wrote, the logos among     *)
(* them are unsettled, and whoever was changing one is alone no more.      *)
LEMMA ParamsSave ==
  ASSUME Params!ParametersAssumption, Params!IInv, NEW r \in Requests, NEW body \in Bodies,
         Params!Save(r, body)
  PROVE  Params!IInv'
<1> DEFINE written(k) == Params!Normalized(k, body[k])
<1>1. /\ v3[r].pc = "idle" /\ UNCHANGED v2
      /\ v1' = [k \in Params!Keys |-> IF k \in DOMAIN body THEN written(k) ELSE v1[k]]
      /\ v4' = [k \in TextKeys |-> IF k \in DOMAIN body THEN written(k) ELSE v4[k]]
      /\ v5' = [v \in Variants |-> IF v \in DOMAIN body THEN Params!Unsettled ELSE v5[v]]
      /\ v3' = [q \in Requests |->
               IF q = r THEN [v3[q] EXCEPT !.pc = "missing"]
               ELSE IF \E v \in DOMAIN body : q \in Params!ChangingLogo(v)
                    THEN [v3[q] EXCEPT !.alone = FALSE]
                    ELSE v3[q]]
  BY DEF Params!Save, Params!At
<1>2. \A q \in Requests : v3[q] \in Params!Jobs
  BY DEF Params!IInv, Params!Shaped
<1>3. v3'[r] \in Params!Jobs /\ v3'[r].pc = "missing"
  BY <1>1, <1>2 DEF Params!Jobs
<1>4. ASSUME NEW q \in Requests \ {r}
      PROVE  /\ v3'[q] \in Params!Jobs /\ v3'[q].pc = v3[q].pc /\ v3'[q].variant = v3[q].variant
             /\ v3'[q].name = v3[q].name /\ v3'[q].left = v3[q].left
             /\ v3'[q].alone => v3[q].alone
  BY <1>1, <1>2 DEF Params!Jobs
<1>5. Params!Shaped'
  BY <1>1, <1>3, <1>4 DEF Params!IInv, Params!Shaped
<1>6. ASSUME NEW v
      PROVE  Params!ChangingLogo(v)' = Params!ChangingLogo(v)
  BY <1>1, <1>3, <1>4 DEF Params!ChangingLogo
<1>7. ASSUME NEW q \in Requests
      PROVE  Params!Minds(q)' /\ Params!Alone(q)'
  <2>1. CASE q = r
    BY <1>3, <2>1 DEF Params!Minds, Params!Alone, Params!Changing
  <2>2. CASE q # r
    <3>1. Params!Minds(q) /\ Params!Alone(q) /\ UNCHANGED v2
      BY <1>1 DEF Params!IInv
    <3>2. Params!Minds(q)'
      BY <1>4, <2>2, <3>1 DEF Params!Minds
    <3>3. Params!Alone(q)'
      BY <1>4, <1>6, <2>2, <3>1 DEF Params!Alone
    <3> QED
      BY <3>2, <3>3
  <2> QED
    BY <2>1, <2>2
<1>8. ASSUME NEW v \in Variants
      PROVE  Params!Quiet(v)'
  <2>1. CASE v \in DOMAIN body
    BY <1>1, <2>1 DEF Params!Quiet
  <2>2. CASE v \notin DOMAIN body
    <3>1. v1'[v] = v1[v] /\ v5'[v] = v5[v] /\ Params!Quiet(v)
      BY <1>1, <2>2 DEF Params!IInv, Params!Keys
    <3>2. Params!Served(v)' = Params!Served(v)
      BY <1>1, <3>1 DEF Params!Served, Params!Resolved
    <3> QED
      BY <1>6, <3>1, <3>2 DEF Params!Quiet
  <2> QED
    BY <2>1, <2>2
<1>9. Params!ChoicesStand'
  <2> SUFFICES ASSUME NEW k \in TextKeys, v4'[k] # Params!Absent
               PROVE  v1'[k] = v4'[k] /\ (k = "title" => Params!GetMany[k]' = v4'[k])
    BY DEF Params!ChoicesStand
  <2>1. k \in Params!Keys
    BY DEF Params!Keys
  <2>2. v1'[k] = v4'[k]
    <3> HIDE DEF written
    <3>1. CASE k \in DOMAIN body
      BY <1>1, <2>1, <3>1
    <3>2. CASE k \notin DOMAIN body
      BY <1>1, <2>1, <3>2 DEF Params!IInv, Params!ChoicesStand
    <3> QED
      BY <3>1, <3>2
  <2>3. Params!GetMany[k]' = Params!Effective(k, v1'[k])
    BY <2>1 DEF Params!GetMany
  <2> QED
    BY <2>2, <2>3 DEF Params!Effective
<1> QED
  BY <1>5, <1>7, <1>8, <1>9 DEF Params!IInv

(* A crash: nobody is changing anything, and the disk is as it was.        *)
LEMMA ParamsCrash ==
  ASSUME Params!IInv, Params!Crash
  PROVE  Params!IInv'
<1>1. /\ UNCHANGED <<v1, v2, v4, v5>>
      /\ v3' = [r \in Requests |->
                  IF v3[r].pc = "idle" THEN v3[r] ELSE [Params!Idle EXCEPT !.pc = "done"]]
  BY DEF Params!Crash, Params!At
<1>2. [Params!Idle EXCEPT !.pc = "done"] \in Params!Jobs
  BY DEF Params!Idle, Params!Jobs
<1>3. ASSUME NEW q \in Requests
      PROVE  v3'[q] \in Params!Jobs /\ v3'[q].pc \notin Params!Changing
  <2>1. [Params!Idle EXCEPT !.pc = "done"].pc = "done"
    BY DEF Params!Idle
  <2> QED
    BY <1>1, <1>2, <2>1 DEF Params!IInv, Params!Shaped, Params!Changing
<1>4. ASSUME NEW v
      PROVE  Params!ChangingLogo(v)' = {}
  BY <1>3 DEF Params!ChangingLogo, Params!Changing
<1>5. Params!Shaped'
  BY <1>1, <1>3 DEF Params!IInv, Params!Shaped
<1>6. ASSUME NEW v \in Variants
      PROVE  Params!Quiet(v)'
  BY <1>1, <1>4 DEF Params!IInv, Params!Quiet, Params!Served, Params!Resolved
<1>7. Params!ChoicesStand'
  BY <1>1 DEF Params!IInv, Params!ChoicesStand, Params!GetMany
<1> QED
  BY <1>3, <1>5, <1>6, <1>7 DEF Params!IInv, Params!Minds, Params!Alone

(* The steps that only move the request on.                                *)
LEMMA ParamsGoto ==
  ASSUME Params!IInv, NEW r \in Requests, NEW to \in {"missing", "done"}, Params!Goto(r, to),
         v3[r].pc \notin Params!Changing, UNCHANGED <<v1, v2, v4, v5>>
  PROVE  Params!IInv'
<1> DEFINE j == [v3[r] EXCEPT !.pc = to]
<1>1. v3' = [v3 EXCEPT ![r] = j] /\ v3[r] \in Params!Jobs
  BY DEF Params!Goto, Params!IInv, Params!Shaped
<1>2. j \in Params!Jobs /\ j.pc \notin Params!Changing
  BY <1>1 DEF Params!Jobs, Params!Changing
<1> HIDE DEF j
<1> QED
  BY <1>1, <1>2, ParamsRead

LEMMA ParamsFindMissing ==
  ASSUME Params!IInv, NEW r \in Requests, Params!FindMissing(r)
  PROVE  Params!IInv'
<1> DEFINE missing == {k \in Params!Keys : v1[k] = Params!Absent}
           to == IF missing = {} THEN "read" ELSE "create"
           j == [v3[r] EXCEPT !.missing = missing, !.pc = to]
<1>1. /\ v3' = [v3 EXCEPT ![r] = j] /\ v3[r] \in Params!Jobs /\ v3[r].pc \notin Params!Changing
      /\ UNCHANGED <<v1, v2, v4, v5>>
  BY DEF Params!FindMissing, Params!At, Params!IInv, Params!Shaped, Params!Changing
<1>2. j \in Params!Jobs /\ j.pc \notin Params!Changing
  <2>1. missing \in SUBSET Params!Keys /\ to \in {"read", "create"}
    OBVIOUS
  <2> HIDE DEF missing, to
  <2> QED
    BY <1>1, <2>1 DEF Params!Jobs, Params!Changing
<1> HIDE DEF j
<1> QED
  BY <1>1, <1>2, ParamsRead

LEMMA ParamsAskLogo ==
  ASSUME Params!IInv, NEW r \in Requests, NEW v \in Variants, Params!AskLogo(r, v)
  PROVE  Params!IInv'
<1> DEFINE to == IF Params!Resolved(v) = Params!Blank THEN "done" ELSE "serve"
           j == [v3[r] EXCEPT !.pc = to, !.variant = v, !.name = Params!Resolved(v)]
<1>1. /\ v3' = [v3 EXCEPT ![r] = j] /\ v3[r] \in Params!Jobs /\ v3[r].pc \notin Params!Changing
      /\ UNCHANGED <<v1, v2, v4, v5>>
  BY DEF Params!AskLogo, Params!At, Params!IInv, Params!Shaped, Params!Changing
<1>2. j \in Params!Jobs /\ j.pc \notin Params!Changing
  <2>1. Params!Resolved(v) \in Params!FileNames \cup {Params!Blank} /\ to \in {"done", "serve"}
    BY DEF Params!Resolved
  <2> HIDE DEF to
  <2> QED
    BY <1>1, <2>1 DEF Params!Jobs, Params!Changing
<1> HIDE DEF j
<1> QED
  BY <1>1, <1>2, ParamsRead

LEMMA ParamsInductive ==
  ASSUME Params!ParametersAssumption, Params!IInv, [Params!Next]_Params!vars
  PROVE  Params!IInv'
<1>1. CASE UNCHANGED Params!vars
  <2>1. UNCHANGED <<v1, v2, v3, v4, v5>>
    BY <1>1 DEF Params!vars
  <2>2. Params!Shaped' /\ Params!ChoicesStand'
    BY <2>1 DEF Params!IInv, Params!Shaped, Params!ChoicesStand, Params!GetMany
  <2>3. \A r \in Requests : (Params!Minds(r) /\ Params!Alone(r))'
    BY <2>1 DEF Params!IInv, Params!Minds, Params!Alone, Params!ChangingLogo
  <2>4. \A v \in Variants : Params!Quiet(v)'
    BY <2>1 DEF Params!IInv, Params!Quiet, Params!ChangingLogo, Params!Served, Params!Resolved
  <2> QED
    BY <2>2, <2>3, <2>4 DEF Params!IInv
<1>2. CASE Params!Crash
  BY <1>2, ParamsCrash
<1>3. ASSUME NEW r \in Requests, NEW body \in Bodies, Params!Save(r, body) \/ Params!Refuse(r, body)
      PROVE  Params!IInv'
  BY <1>3, ParamsSave, ParamsGoto DEF Params!Refuse, Params!At, Params!Changing
<1>4. ASSUME NEW r \in Requests, NEW v \in Variants,
             (\E e \in Extensions : Params!Upload(r, v, e)) \/ Params!Delete(r, v)
      PROVE  Params!IInv'
  <2>1. \A e \in Extensions : Params!FileName(v, e) \in Params!OwnFiles(v)
    BY DEF Params!FileName, Params!FileNames, Params!OwnFiles
  <2> QED
    BY <1>4, <2>1, ParamsBegin DEF Params!Upload, Params!Delete
<1>5. ASSUME NEW r \in Requests, NEW v \in Variants, Params!AskLogo(r, v)
      PROVE  Params!IInv'
  BY <1>5, ParamsAskLogo
<1>6. ASSUME NEW r \in Requests,
             Params!RefuseImage(r) \/ Params!FindAll(r) \/ Params!Answer(r) \/ Params!SendLogo(r)
      PROVE  Params!IInv'
  BY <1>6, ParamsGoto DEF Params!RefuseImage, Params!FindAll, Params!Answer, Params!SendLogo,
     Params!At, Params!Changing
<1>7. ASSUME NEW r \in Requests, Params!FindMissing(r) \/ Params!CreateMissing(r)
      PROVE  Params!IInv'
  BY <1>7, ParamsFindMissing, ParamsCreateMissing
<1>8. ASSUME NEW r \in Requests,
             \/ Params!ListFolder(r) \/ Params!Unlink(r) \/ Params!Cleared(r)
             \/ Params!OpenFile(r) \/ Params!FillFile(r) \/ Params!WriteRow(r)
      PROVE  Params!IInv'
  BY <1>8, ParamsClearing, ParamsWriting, ParamsWriteRow
<1> QED
  BY <1>1, <1>2, <1>3, <1>4, <1>5, <1>6, <1>7, <1>8 DEF Params!Next

LEMMA ParamsMean == Params!IInv => Params!ChoicesStand /\ Params!LogoAsUploaded
BY DEF Params!IInv, Params!Quiet, Params!LogoAsUploaded

-----------------------------------------------------------------------------
(* The index on lower(name) keeps the names of modules apart, whatever the *)
(* searches before the writes saw: ModuleNames.tla, whose mods, req and    *)
(* trail are v1, v2 and v3 here. Nothing is said of what the requests have *)
(* read: it may be out of date, and does not matter.                       *)

LEMMA NamesInit == Names!Init => Names!IInv
BY DEF Names!Init, Names!IInv, Names!NamesStayDistinct, Names!Alive

(* The write of a row that clashes with no other one, or of none.          *)
LEMMA NamesWrite ==
  ASSUME Names!IInv, NEW r \in ModuleRequests, NEW m \in Modules, Names!Write(r, m)
  PROVE  Names!IInv'
<1> DEFINE row == Names!Written(r)
<1>1. CASE v1' = v1
  BY <1>1 DEF Names!IInv, Names!NamesStayDistinct, Names!Alive
<1>2. CASE v1' = [v1 EXCEPT ![m] = row] /\ (row = Names!Gone \/ ~Names!Clashes(row, m))
  <2> HIDE DEF row
  <2>1. /\ v1' = [n \in Modules |-> v1'[n]]
        /\ v1'[m] = row /\ \A n \in Modules \ {m} : v1'[n] = v1[n]
    BY <1>2 DEF Names!IInv
  <2>2. Names!Alive' \ {m} = Names!Alive \ {m} /\ (m \in Names!Alive' => ~Names!Clashes(row, m))
    BY <1>2, <2>1 DEF Names!Alive
  <2>3. ASSUME NEW o \in Names!Alive \ {m}, m \in Names!Alive'
        PROVE  ~Names!Same(v1[o].name, row.name) /\ ~Names!Same(row.name, v1[o].name)
    BY <2>2, <2>3 DEF Names!Clashes, Names!Same
  <2>4. Names!NamesStayDistinct'
    <3> SUFFICES ASSUME NEW n \in Names!Alive', NEW o \in Names!Alive', n # o
                 PROVE  ~Names!Same(v1'[n].name, v1'[o].name)
      BY DEF Names!NamesStayDistinct
    <3>1. CASE n = m
      BY <2>1, <2>2, <2>3, <3>1 DEF Names!Alive
    <3>2. CASE o = m
      BY <2>1, <2>2, <2>3, <3>2 DEF Names!Alive
    <3>3. CASE n # m /\ o # m
      BY <2>1, <2>2, <3>3 DEF Names!IInv, Names!NamesStayDistinct, Names!Alive
    <3> QED
      BY <3>1, <3>2, <3>3
  <2> QED
    BY <2>1, <2>4 DEF Names!IInv
<1> QED
  BY <1>1, <1>2 DEF Names!Write

LEMMA NamesInductive ==
  ASSUME Names!IInv, [Names!Next]_Names!vars
  PROVE  Names!IInv'
<1>1. CASE v1' = v1
  BY <1>1 DEF Names!IInv, Names!NamesStayDistinct, Names!Alive
<1>2. ASSUME NEW r \in ModuleRequests, NEW m \in Modules, Names!Write(r, m)
      PROVE  Names!IInv'
  BY <1>2, NamesWrite
<1> QED
  BY <1>1, <1>2 DEF Names!Next, Names!vars, Names!CreateStart, Names!Find, Names!Check,
     Names!CountTickets, Names!Record

-----------------------------------------------------------------------------
(* The legacy data: Migration.tla, whose source, base, work, flags, pc,    *)
(* skipped, before and collided are v1 to v8 here. The copy the            *)
(* transaction works on has all that is in a target it did not truncate,   *)
(* so that sequences set from the copy, at once and for good, are not      *)
(* below it.                                                               *)

(* A bounded set of naturals has a greatest element.                       *)
LEMMA LegacyGreatest ==
  ASSUME NEW n \in Nat, NEW S, S \subseteq 0..n, S # {}
  PROVE  Legacy!Max(S) \in S /\ \A y \in S : y <= Legacy!Max(S)
<1> DEFINE Above == {m \in Nat : \A y \in S : y <= m}
<1>1. n \in Above /\ Above \subseteq Nat
  OBVIOUS
<1>2. PICK m \in Above : \A k \in Above : ~(<<k, m>> \in OpToRel(<, Nat))
  BY <1>1, WFMin, NatLessThanWellFounded
<1>3. \A k \in Above : ~(k < m)
  BY <1>1, <1>2 DEF OpToRel
<1>4. m \in S
  <2> SUFFICES ASSUME m \notin S
               PROVE  FALSE
    OBVIOUS
  <2> PICK x \in S : TRUE
    OBVIOUS
  <2>1. m \in Nat /\ m # 0 /\ \A y \in S : y <= m /\ y \in Nat
    <3>1. m \in Nat /\ \A y \in S : y <= m /\ y \in Nat /\ y # m
      OBVIOUS
    <3>2. x \in Nat /\ x <= m /\ x # m
      BY <3>1
    <3> QED
      BY <3>1, <3>2
  <2>2. \A y \in S : y <= m - 1
    BY <2>1
  <2>3. m - 1 \in Nat
    BY <2>1
  <2>4. m - 1 \in Above
    BY <2>2, <2>3
  <2> QED
    BY <2>1, <1>3, <2>4
<1>5. \E x \in S : \A y \in S : x >= y
  BY <1>1, <1>4
<1>6. Legacy!Max(S) \in S /\ \A y \in S : Legacy!Max(S) >= y
  BY <1>5 DEF Legacy!Max
<1> QED
  BY <1>6

(* A sequence is set to the greatest id of its table, or to 1.             *)
LEMMA LegacyResetAbove ==
  ASSUME LegacyIds \in Nat \ {0}, Legacy!IsTarget(v3), NEW t \in Legacy!Tables
  PROVE  Legacy!ResetValue(t) \in 0..LegacyIds
        /\ \A i \in Legacy!IdsIn(v3.rows, t) : i <= Legacy!ResetValue(t)
<1> DEFINE S == Legacy!IdsIn(v3.rows, t)
           m == Legacy!MaxIdIn(v3.rows, t)
<1>1. S \subseteq 0..LegacyIds
  BY DEF Legacy!IsTarget, Legacy!Ids
<1>2. m \in 0..LegacyIds /\ \A i \in S : i <= m
  <2>1. CASE S = {}
    BY <2>1 DEF Legacy!MaxIdIn
  <2>2. CASE S # {}
    BY <1>1, <2>2, LegacyGreatest DEF Legacy!MaxIdIn
  <2> QED
    BY <2>1, <2>2
<1> HIDE DEF S, m
<1>3. {1, m} \subseteq 0..LegacyIds /\ {1, m} # {}
  BY <1>2
<1>4. Legacy!Max({1, m}) \in {1, m} /\ \A y \in {1, m} : y <= Legacy!Max({1, m})
  BY <1>3, LegacyGreatest
<1>5. Legacy!ResetValue(t) = Legacy!Max({1, m})
  BY DEF Legacy!ResetValue, m
<1>6. Legacy!ResetValue(t) \in 0..LegacyIds /\ m <= Legacy!ResetValue(t)
  BY <1>3, <1>4, <1>5
<1> QED
  BY <1>1, <1>2, <1>6 DEF S

(* The tables in their order.                                              *)
LEMMA LegacyOrder ==
  /\ Legacy!Tables = {"user", "system_module", "system_parameter", "payment_record",
                        "ticket", "activity"}
  /\ Legacy!After("user") = "system_module" /\ Legacy!After("system_module") = "system_parameter"
  /\ Legacy!After("system_parameter") = "payment_record"
  /\ Legacy!After("payment_record") = "ticket" /\ Legacy!After("ticket") = "activity"
  /\ Legacy!After("activity") = "reset"
<1>1. DOMAIN Legacy!TABLES = 1..6 /\ Len(Legacy!TABLES) = 6
  BY DEF Legacy!TABLES
<1>2. /\ Legacy!TABLES[1] = "user" /\ Legacy!TABLES[2] = "system_module"
      /\ Legacy!TABLES[3] = "system_parameter" /\ Legacy!TABLES[4] = "payment_record"
      /\ Legacy!TABLES[5] = "ticket" /\ Legacy!TABLES[6] = "activity"
  BY DEF Legacy!TABLES
<1>3. Legacy!Tables = {"user", "system_module", "system_parameter", "payment_record",
                        "ticket", "activity"}
  BY <1>1, <1>2 DEF Legacy!Tables
<1>4. ASSUME NEW n \in 1..6
      PROVE  (CHOOSE k \in DOMAIN Legacy!TABLES : Legacy!TABLES[k] = Legacy!TABLES[n]) = n
  BY <1>1, <1>2, <1>4
<1> QED
  BY <1>1, <1>2, <1>3, <1>4 DEF Legacy!After

LEMMA LegacyWritten ==
  /\ v5 \notin Legacy!Tables => Legacy!Written = Legacy!Tables
  /\ v5' \notin Legacy!Tables => Legacy!Written' = Legacy!Tables
  /\ v5' = "user" => Legacy!Written' = {}
  /\ v5 \in Legacy!Tables /\ v5' = Legacy!After(v5) => Legacy!Written' = Legacy!Written \cup {v5}
<1>1. DOMAIN Legacy!TABLES = 1..6
  BY DEF Legacy!TABLES
<1>2. /\ Legacy!TABLES[1] = "user" /\ Legacy!TABLES[2] = "system_module"
      /\ Legacy!TABLES[3] = "system_parameter" /\ Legacy!TABLES[4] = "payment_record"
      /\ Legacy!TABLES[5] = "ticket" /\ Legacy!TABLES[6] = "activity"
  BY DEF Legacy!TABLES
<1>3. /\ "user" \in Legacy!Written <=> v5 # "user"
      /\ "system_module" \in Legacy!Written <=> v5 \notin {"user", "system_module"}
      /\ "system_parameter" \in Legacy!Written
           <=> v5 \notin {"user", "system_module", "system_parameter"}
      /\ "payment_record" \in Legacy!Written <=> v5 \notin Legacy!Tables \ {"ticket", "activity"}
      /\ "ticket" \in Legacy!Written <=> v5 \notin Legacy!Tables \ {"activity"}
      /\ "activity" \in Legacy!Written <=> v5 \notin Legacy!Tables
  BY <1>1, <1>2, LegacyOrder DEF Legacy!Written
<1>4. Legacy!Written \subseteq Legacy!Tables
  BY DEF Legacy!Written, Legacy!Tables
<1>5. (Legacy!Written \subseteq Legacy!Tables)'
  BY DEF Legacy!Written, Legacy!Tables
<1>6. /\ "user" \in Legacy!Written' <=> v5' # "user"
      /\ "system_module" \in Legacy!Written' <=> v5' \notin {"user", "system_module"}
      /\ "system_parameter" \in Legacy!Written'
           <=> v5' \notin {"user", "system_module", "system_parameter"}
      /\ "payment_record" \in Legacy!Written' <=> v5' \notin Legacy!Tables \ {"ticket", "activity"}
      /\ "ticket" \in Legacy!Written' <=> v5' \notin Legacy!Tables \ {"activity"}
      /\ "activity" \in Legacy!Written' <=> v5' \notin Legacy!Tables
  BY <1>1, <1>2, LegacyOrder DEF Legacy!Written
<1>7. ASSUME v5 \in Legacy!Tables, v5' = Legacy!After(v5)
      PROVE  Legacy!Written' = Legacy!Written \cup {v5}
  <2>1. ASSUME NEW t \in Legacy!Tables
        PROVE  t \in Legacy!Written' <=> t \in Legacy!Written \/ t = v5
    <3> DEFINE here == v5
               there == v5'
    <3>1. /\ here = "user" => there = "system_module"
          /\ here = "system_module" => there = "system_parameter"
          /\ here = "system_parameter" => there = "payment_record"
          /\ here = "payment_record" => there = "ticket"
          /\ here = "ticket" => there = "activity"
          /\ here = "activity" => there = "reset"
      BY <1>7, LegacyOrder
    <3> QED
      BY <1>3, <1>6, <1>7, <2>1, <3>1, LegacyOrder
  <2> QED
    BY <1>4, <1>5, <1>7, <2>1
<1> QED
  BY <1>3, <1>4, <1>5, <1>6, <1>7, LegacyOrder

LEMMA LegacyTyped ==
  ASSUME Legacy!IsTarget(v2), Legacy!IsTarget(v3), v8 \in BOOLEAN,
         v6 \subseteq Legacy!Tables \X Legacy!Ids,
         v5 \in {"start", "read", "reset", "end", "refused", "failed", "simulated", "committed"}
               \cup Legacy!Tables
  PROVE  Legacy!TypeOK
<1>1. ASSUME NEW target, Legacy!IsTarget(target)
      PROVE  DOMAIN target.rows = Legacy!Tables
  <2>1. target.rows = [t \in Legacy!Tables |-> target.rows[t]]
    BY <1>1 DEF Legacy!IsTarget
  <2> QED
    BY <2>1
<1> QED
  BY <1>1 DEF Legacy!TypeOK, Legacy!IsTarget

LEMMA LegacyInit ==
  ASSUME Legacy!MigrationAssumption, Legacy!Init
  PROVE  Legacy!IInv
<1>1. v2 \in LegacyTargets /\ v3 = v2 /\ Legacy!IsTarget(v2) /\ Legacy!UsersNumbered(v2)
  BY LegacyOrder DEF Legacy!Init, Legacy!MigrationAssumption, Legacy!UsersNumbered
<1>2. Legacy!TypeOK
  BY <1>1, LegacyTyped DEF Legacy!Init
<1>3. v5 \notin Legacy!Writing /\ v5 \notin Legacy!Ended
  BY LegacyOrder DEF Legacy!Init, Legacy!Writing, Legacy!Ended
<1> QED
  BY <1>1, <1>2, <1>3 DEF Legacy!Init, Legacy!IInv, Legacy!SkippedAreOrphans, Legacy!Writing,
     Legacy!Ended

(* A step that changes the place in the script only, or begins it.         *)
LEMMA LegacyMain ==
  ASSUME Legacy!IInv, Legacy!Main
  PROVE  Legacy!IInv'
<1>1. v5 = "start" /\ v5' \in {"read", "refused"} /\ v2.rows = v7
  BY DEF Legacy!Main, Legacy!IInv, Legacy!Ended
<1>2. Legacy!TypeOK'
  BY <1>1 DEF Legacy!Main, Legacy!IInv, Legacy!TypeOK
<1>3. v5' \notin Legacy!Writing
  BY <1>1, LegacyOrder DEF Legacy!Writing
<1> QED
  BY <1>1, <1>2, <1>3
     DEF Legacy!Main, Legacy!IInv, Legacy!IsTarget, Legacy!UsersNumbered, Legacy!SkippedAreOrphans,
        Legacy!Ended, Legacy!Writing, Legacy!Orphan, Legacy!IdsIn

LEMMA LegacyDie ==
  ASSUME Legacy!IInv, Legacy!Die
  PROVE  Legacy!IInv'
<1>1. v5' = "failed" /\ v2.rows = v7
  BY LegacyOrder DEF Legacy!Die, Legacy!IInv, Legacy!Ended
<1>2. Legacy!TypeOK'
  BY <1>1 DEF Legacy!Die, Legacy!IInv, Legacy!TypeOK
<1>3. v5' \notin Legacy!Writing
  BY <1>1, LegacyOrder DEF Legacy!Writing
<1> QED
  BY <1>1, <1>2, <1>3
     DEF Legacy!Die, Legacy!IInv, Legacy!IsTarget, Legacy!UsersNumbered, Legacy!SkippedAreOrphans,
        Legacy!Ended, Legacy!Writing, Legacy!Orphan, Legacy!IdsIn

LEMMA LegacyBegin ==
  ASSUME Legacy!MigrationAssumption, Legacy!IInv, Legacy!Begin
  PROVE  Legacy!IInv'
<1>1. v5 = "read" /\ v5' = "user" /\ v2.rows = v7
  BY DEF Legacy!Begin, Legacy!IInv, Legacy!Ended, Legacy!TABLES
<1>2. Legacy!IsTarget(v3)'
  <2>1. CASE v4.truncate
    <3>1. v3' = [rows |-> [t \in Legacy!Tables |-> <<>>], seq |-> [t \in Legacy!Tables |-> 0]]
      BY <2>1 DEF Legacy!Begin
    <3>2. DOMAIN <<>> = {} /\ 0 \in 0..LegacyIds
      BY DEF Legacy!MigrationAssumption
    <3> QED
      BY <3>1, <3>2 DEF Legacy!IsTarget, Legacy!IdsIn
  <2>2. CASE ~v4.truncate
    BY <2>2 DEF Legacy!Begin, Legacy!IInv, Legacy!IsTarget, Legacy!IdsIn
  <2> QED
    BY <2>1, <2>2
<1>3. Legacy!TypeOK'
  <2>1. Legacy!IsTarget(v2)' /\ v8' \in BOOLEAN /\ v6' \subseteq Legacy!Tables \X Legacy!Ids
    BY DEF Legacy!Begin, Legacy!IInv, Legacy!TypeOK, Legacy!IsTarget, Legacy!IdsIn
  <2> QED
    BY <1>1, <1>2, <2>1, LegacyOrder DEF Legacy!TypeOK, Legacy!IsTarget
<1>4. Legacy!Written' = {}
  BY <1>1, LegacyWritten
<1>5. Legacy!Covered(v3.rows)' /\ Legacy!Keeps(v3.rows)'
  BY <1>1, <1>4 DEF Legacy!Begin, Legacy!Covered, Legacy!Keeps, Legacy!IdsIn
<1> QED
  BY <1>1, <1>2, <1>3, <1>5
     DEF Legacy!Begin, Legacy!IInv, Legacy!IsTarget, Legacy!UsersNumbered, Legacy!SkippedAreOrphans,
        Legacy!Ended, Legacy!Orphan, Legacy!IdsIn

(* A table is written, or everything is given up.                          *)
LEMMA LegacyTable ==
  ASSUME Legacy!MigrationAssumption, Legacy!IInv, NEW t \in Legacy!Tables, Legacy!MigrateTable(t)
  PROVE  Legacy!IInv'
<1> DEFINE taken == {i \in Legacy!IdsIn(v1, t) : ~Legacy!Orphan(t, v1[t][i])}
           table == [i \in taken \cup Legacy!IdsIn(v3.rows, t) |->
                       IF i \in taken THEN Legacy!Converted(t, v1[t][i]) ELSE v3.rows[t][i]]
           grown == [v3.rows EXCEPT ![t] = table]
<1>1. /\ v5 = t /\ v2.rows = v7 /\ Legacy!Covered(v3.rows) /\ Legacy!Keeps(v3.rows)
      /\ UNCHANGED <<v1, v2, v4, v7, v8>>
  BY LegacyOrder DEF Legacy!MigrateTable, Legacy!IInv, Legacy!Ended, Legacy!Writing
<1>2. Legacy!IsTarget(v2)' /\ Legacy!UsersNumbered(v2)' /\ (v1 \in LegacyCopies)' /\ ~v8'
  BY <1>1 DEF Legacy!IInv, Legacy!IsTarget, Legacy!UsersNumbered, Legacy!IdsIn
<1>3. CASE v5' = "failed" /\ v3' = v2 /\ v6' = v6
  <2>1. Legacy!IsTarget(v3)' /\ Legacy!SkippedAreOrphans'
    BY <1>1, <1>3 DEF Legacy!IInv, Legacy!IsTarget, Legacy!IdsIn, Legacy!SkippedAreOrphans,
       Legacy!Orphan
  <2>2. Legacy!TypeOK'
    BY <1>1, <1>2, <1>3, <2>1 DEF Legacy!IInv, Legacy!TypeOK, Legacy!IsTarget, Legacy!IdsIn
  <2>3. v5' \notin Legacy!Writing
    BY <1>3, LegacyOrder DEF Legacy!Writing
  <2> QED
    BY <1>1, <1>2, <1>3, <2>1, <2>2, <2>3 DEF Legacy!IInv, Legacy!Ended
<1>4. CASE /\ v3' = [v3 EXCEPT !.rows = grown] /\ Legacy!Sound(grown)
           /\ v6' = v6 \cup ({t} \X (Legacy!IdsIn(v1, t) \ taken))
           /\ v5' = Legacy!After(t)
  <2>1. Legacy!IdsIn(v1, t) \subseteq Legacy!Ids /\ Legacy!IdsIn(v3.rows, t) \subseteq Legacy!Ids
    BY DEF Legacy!IInv, Legacy!MigrationAssumption, Legacy!IsTarget
  <2>2. /\ v3' = [rows |-> grown, seq |-> v3.seq]
        /\ grown = [u \in Legacy!Tables |-> grown[u]]
        /\ grown[t] = table /\ DOMAIN grown[t] = taken \cup Legacy!IdsIn(v3.rows, t)
        /\ \A u \in Legacy!Tables \ {t} : grown[u] = v3.rows[u]
    <3> HIDE DEF table
    <3>1. v3 = [rows |-> v3.rows, seq |-> v3.seq] /\ v3.rows = [u \in Legacy!Tables |-> v3.rows[u]]
      BY DEF Legacy!IInv, Legacy!IsTarget
    <3>2. DOMAIN table = taken \cup Legacy!IdsIn(v3.rows, t)
      BY DEF table
    <3>3. v3' = [rows |-> grown, seq |-> v3.seq]
      <4> HIDE DEF grown
      <4> QED
        BY <1>4, <3>1
    <3>4. DOMAIN v3.rows = Legacy!Tables
      BY <3>1
    <3> HIDE DEF taken
    <3>5. /\ grown = [u \in Legacy!Tables |-> grown[u]] /\ grown[t] = table
          /\ \A u \in Legacy!Tables \ {t} : grown[u] = v3.rows[u]
      BY <3>4
    <3> QED
      BY <3>2, <3>3, <3>5
  <2> HIDE DEF table, grown
  <2>3. \A u \in Legacy!Tables :
          Legacy!IdsIn(v3.rows', u) = (IF u = t THEN taken ELSE {}) \cup Legacy!IdsIn(v3.rows, u)
    BY <2>2 DEF Legacy!IdsIn
  <2>4. Legacy!IsTarget(v3)'
    <3>1. v3' = [rows |-> [u \in Legacy!Tables |-> v3.rows'[u]],
                 seq |-> [u \in Legacy!Tables |-> v3.seq'[u]]]
      BY <2>2 DEF Legacy!IInv, Legacy!IsTarget
    <3>2. \A u \in Legacy!Tables :
            Legacy!IdsIn(v3.rows', u) \subseteq Legacy!Ids /\ v3.seq'[u] \in 0..LegacyIds
      BY <2>1, <2>2, <2>3 DEF Legacy!IInv, Legacy!IsTarget
    <3> QED
      BY <3>1, <3>2 DEF Legacy!IsTarget
  <2>5. Legacy!SkippedAreOrphans'
    BY <1>1, <1>4 DEF Legacy!IInv, Legacy!SkippedAreOrphans, Legacy!IdsIn, Legacy!Orphan
  <2>6. v6' \subseteq Legacy!Tables \X Legacy!Ids
    BY <1>4, <2>1 DEF Legacy!IInv, Legacy!TypeOK
  <2>7. v5' \in Legacy!Tables \cup {"reset"}
    BY <1>4, LegacyOrder
  <2>8. Legacy!TypeOK'
    <3>1. v2'.rows = [u \in Legacy!Tables |-> v2'.rows[u]]
          /\ v3'.rows = [u \in Legacy!Tables |-> v3'.rows[u]]
      BY <1>2, <2>4 DEF Legacy!IsTarget
    <3>2. DOMAIN v2'.rows = Legacy!Tables /\ DOMAIN v3'.rows = Legacy!Tables
      BY <3>1
    <3>3. v8' \in BOOLEAN
      BY <1>1 DEF Legacy!IInv, Legacy!TypeOK
    <3> QED
      BY <1>2, <2>4, <2>6, <2>7, <3>2, <3>3 DEF Legacy!TypeOK, Legacy!IsTarget
  <2>9. Legacy!Covered(v3.rows)'
    <3>1. Legacy!Written' = Legacy!Written \cup {t} /\ Legacy!Written \subseteq Legacy!Tables
      BY <1>1, <1>4, LegacyWritten DEF Legacy!Written, Legacy!Tables
    <3>2. ASSUME NEW u \in Legacy!Written, NEW i \in Legacy!IdsIn(v1, u)
          PROVE  i \in Legacy!IdsIn(v3.rows', u) \/ <<u, i>> \in v6'
      BY <1>1, <1>4, <2>3, <3>1, <3>2 DEF Legacy!Covered
    <3>3. ASSUME NEW i \in Legacy!IdsIn(v1, t)
          PROVE  i \in Legacy!IdsIn(v3.rows', t) \/ <<t, i>> \in v6'
      BY <1>4, <2>3, <3>3
    <3> QED
      BY <1>1, <3>1, <3>2, <3>3 DEF Legacy!Covered, Legacy!IdsIn
  <2>10. Legacy!Keeps(v3.rows)'
    BY <1>1, <2>3 DEF Legacy!Keeps, Legacy!IdsIn
  <2>11. Legacy!Sound(v3.rows)'
    BY ZenonT(60), <1>4, <2>2 DEF Legacy!Sound, Legacy!IdsIn
  <2>12. v5' \notin Legacy!Ended /\ v5' # "end" /\ v5' # "committed"
    BY <2>7, LegacyOrder DEF Legacy!Ended
  <2> QED
    BY <1>1, <1>2, <2>4, <2>5, <2>8, <2>9, <2>10, <2>11, <2>12 DEF Legacy!IInv, Legacy!Ended
<1> QED
  BY <1>3, <1>4 DEF Legacy!MigrateTable

LEMMA LegacyReset ==
  ASSUME Legacy!MigrationAssumption, Legacy!IInv, Legacy!ResetSequences
  PROVE  Legacy!IInv'
<1> DEFINE seq == [t \in Legacy!Tables |-> Legacy!ResetValue(t)]
<1>1. /\ v5 = "reset" /\ v5' = "end" /\ v2.rows = v7
      /\ Legacy!Covered(v3.rows) /\ Legacy!Keeps(v3.rows) /\ Legacy!Sound(v3.rows)
      /\ UNCHANGED <<v1, v4, v6, v7, v8>>
  BY LegacyOrder DEF Legacy!ResetSequences, Legacy!IInv, Legacy!Ended, Legacy!Writing
<1>2. \A t \in Legacy!Tables :
        seq[t] \in 0..LegacyIds /\ \A i \in Legacy!IdsIn(v3.rows, t) : i <= seq[t]
  BY LegacyResetAbove DEF Legacy!IInv, Legacy!MigrationAssumption
<1>3. seq = [t \in Legacy!Tables |-> seq[t]] /\ v3' = [rows |-> v3.rows, seq |-> seq]
  BY DEF Legacy!ResetSequences, Legacy!IInv, Legacy!IsTarget
<1>4. v2' = v2 \/ (~v4.truncate /\ v2' = [rows |-> v2.rows, seq |-> seq])
  BY DEF Legacy!ResetSequences, Legacy!IInv, Legacy!IsTarget
<1> HIDE DEF seq
<1>5. Legacy!IsTarget(v3)' /\ Legacy!UsersNumbered(v3)'
  <2>1. v3.rows = [t \in Legacy!Tables |-> v3.rows[t]]
    BY DEF Legacy!IInv, Legacy!IsTarget
  <2> QED
    BY <1>2, <1>3, <2>1, LegacyOrder DEF Legacy!IInv, Legacy!IsTarget, Legacy!UsersNumbered,
       Legacy!IdsIn
<1>6. v2'.rows = v2.rows /\ Legacy!IsTarget(v2)'
  <2>1. v2.rows = [t \in Legacy!Tables |-> v2.rows[t]]
    BY DEF Legacy!IInv, Legacy!IsTarget
  <2> QED
    BY <1>2, <1>3, <1>4, <2>1 DEF Legacy!IInv, Legacy!IsTarget, Legacy!IdsIn
<1>7. Legacy!UsersNumbered(v2)'
  <2>1. CASE v2' = v2
    BY <2>1 DEF Legacy!IInv, Legacy!UsersNumbered, Legacy!IdsIn
  <2>2. CASE ~v4.truncate /\ v2' = [rows |-> v2.rows, seq |-> seq]
    <3>1. Legacy!IdsIn(v2.rows, "user") \subseteq Legacy!IdsIn(v3.rows, "user")
      BY <1>1, <2>2, LegacyOrder DEF Legacy!Keeps
    <3> QED
      BY <1>2, <2>2, <3>1, LegacyOrder DEF Legacy!UsersNumbered, Legacy!IdsIn
  <2> QED
    BY <1>4, <2>1, <2>2
<1>8. Legacy!TypeOK'
  BY <1>1, <1>5, <1>6 DEF Legacy!IInv, Legacy!TypeOK, Legacy!IsTarget
<1>9. Legacy!Covered(v3.rows)' /\ Legacy!Keeps(v3.rows)' /\ Legacy!Sound(v3.rows)'
  <2>1. Legacy!Written = Legacy!Tables /\ Legacy!Written' = Legacy!Tables /\ v3'.rows = v3.rows
    BY <1>1, <1>3, LegacyWritten, LegacyOrder
  <2> QED
    BY <1>1, <2>1 DEF Legacy!Covered, Legacy!Keeps, Legacy!Sound, Legacy!IdsIn
<1> QED
  BY <1>1, <1>5, <1>6, <1>7, <1>8, <1>9 DEF Legacy!IInv, Legacy!Ended, Legacy!SkippedAreOrphans,
     Legacy!IdsIn, Legacy!Orphan

LEMMA LegacyFinish ==
  ASSUME Legacy!IInv, Legacy!Finish
  PROVE  Legacy!IInv'
<1>1. /\ v5 = "end" /\ v2.rows = v7
      /\ Legacy!Covered(v3.rows) /\ Legacy!Keeps(v3.rows) /\ Legacy!Sound(v3.rows)
         /\ Legacy!UsersNumbered(v3)
      /\ UNCHANGED <<v1, v3, v4, v6, v7, v8>>
      /\ v5' \in {"committed", "simulated"}
      /\ IF v5' = "committed" THEN v2' = v3 ELSE v2' = v2
  BY LegacyOrder DEF Legacy!Finish, Legacy!IInv, Legacy!Ended, Legacy!Writing
<1>2. Legacy!IsTarget(v2)' /\ Legacy!IsTarget(v3)' /\ Legacy!UsersNumbered(v2)'
  BY <1>1 DEF Legacy!IInv, Legacy!IsTarget, Legacy!UsersNumbered, Legacy!IdsIn
<1>3. Legacy!TypeOK'
  BY <1>1, <1>2 DEF Legacy!IInv, Legacy!TypeOK, Legacy!IsTarget
<1>4. ASSUME v5' = "committed"
      PROVE  Legacy!Covered(v2.rows)' /\ Legacy!Keeps(v2.rows)' /\ Legacy!Sound(v2.rows)'
  <2>1. Legacy!Written = Legacy!Tables /\ Legacy!Written' = Legacy!Tables /\ v2'.rows = v3.rows
    BY <1>1, <1>4, LegacyWritten, LegacyOrder
  <2> QED
    BY <1>1, <2>1 DEF Legacy!Covered, Legacy!Keeps, Legacy!Sound, Legacy!IdsIn
<1>5. v5' \notin Legacy!Writing /\ v5' \in Legacy!Ended
  BY <1>1, LegacyOrder DEF Legacy!Writing, Legacy!Ended
<1> QED
  BY <1>1, <1>2, <1>3, <1>4, <1>5, LegacyOrder DEF Legacy!IInv, Legacy!SkippedAreOrphans,
     Legacy!IdsIn, Legacy!Orphan

(* create-superuser: a new user takes an id that no row has, an old one    *)
(* keeps its own, and no two have one e-mail.                              *)
LEMMA LegacySuperuser ==
  ASSUME Legacy!MigrationAssumption, Legacy!IInv, NEW email, NEW reset \in BOOLEAN,
         Legacy!CreateSuperuser(email, reset)
  PROVE  Legacy!IInv'
<1> DEFINE users == v2.rows["user"]
           id == v2.seq["user"] + 1
           new == [email |-> email, super |-> TRUE, must |-> TRUE]
           added == [i \in DOMAIN users \cup {id} |-> IF i = id THEN new ELSE users[i]]
           promoted == [i \in DOMAIN users |->
                          IF i \notin Legacy!Owner(email) THEN users[i]
                          ELSE [email |-> email, super |-> TRUE, must |-> users[i].must \/ reset]]
<1>1. /\ v5 \in Legacy!Ended /\ v5 \notin Legacy!Writing /\ v5 \notin Legacy!Tables /\ v5 # "end"
      /\ UNCHANGED <<v1, v3, v4, v5, v6, v7>>
  BY LegacyOrder DEF Legacy!CreateSuperuser, Legacy!Ended, Legacy!Writing
<1>2. /\ v2 = [rows |-> v2.rows, seq |-> v2.seq] /\ DOMAIN v2.rows = Legacy!Tables
      /\ DOMAIN v2.seq = Legacy!Tables /\ "user" \in Legacy!Tables
      /\ v2.seq["user"] \in Nat /\ DOMAIN users \subseteq Legacy!Ids
  <2>1. v2.rows = [t \in Legacy!Tables |-> v2.rows[t]]
        /\ v2.seq = [t \in Legacy!Tables |-> v2.seq[t]]
    BY DEF Legacy!IInv, Legacy!IsTarget
  <2> QED
    BY <2>1, LegacyOrder DEF Legacy!IInv, Legacy!IsTarget, Legacy!IdsIn, Legacy!MigrationAssumption
<1>3. \A i \in DOMAIN users : i <= v2.seq["user"]
  BY DEF Legacy!IInv, Legacy!UsersNumbered, Legacy!IdsIn
<1>4. id \notin DOMAIN users /\ (id \in Legacy!Ids => id \in 0..LegacyIds)
  BY <1>2, <1>3 DEF Legacy!Ids
(* What becomes of the users, and of nothing else.                         *)
<1>5. \E table, n :
        /\ v2'.rows = [v2.rows EXCEPT !["user"] = table]
        /\ v2' = [rows |-> v2'.rows, seq |-> v2'.seq]
        /\ v2'.seq = [v2.seq EXCEPT !["user"] = n]
        /\ DOMAIN users \subseteq DOMAIN table /\ DOMAIN table \subseteq Legacy!Ids
        /\ n \in 0..LegacyIds /\ \A i \in DOMAIN table : i <= n
        /\ \A i, j \in DOMAIN table :
             i # j => \/ table[i].email # table[j].email
                      \/ i \in DOMAIN users /\ j \in DOMAIN users /\ users[i].email = users[j].email
        /\ v8' = v8
  <2>1. CASE Legacy!Owner(email) = {}
    <3>1. /\ id \in Legacy!Ids /\ UNCHANGED v8
          /\ v2' = [v2 EXCEPT !.seq["user"] = id, !.rows["user"] = added]
      BY <1>4, <2>1 DEF Legacy!CreateSuperuser, Legacy!InsertUser, Legacy!IdsIn
    <3> HIDE DEF added
    <3>2. /\ v2'.rows = [v2.rows EXCEPT !["user"] = added]
          /\ v2'.seq = [v2.seq EXCEPT !["user"] = id]
          /\ v2' = [rows |-> v2'.rows, seq |-> v2'.seq]
      BY <1>2, <3>1
    <3>3. \A i \in DOMAIN users : users[i].email # email
      BY <2>1 DEF Legacy!Owner, Legacy!IdsIn
    <3> USE DEF added
    <3>4. \A i \in DOMAIN added : i <= id
      BY <1>2, <1>3 DEF Legacy!Ids
    <3>5. \A i, j \in DOMAIN added :
             i # j => \/ added[i].email # added[j].email
                      \/ i \in DOMAIN users /\ j \in DOMAIN users /\ users[i].email = users[j].email
      BY <1>4, <3>3
    <3>6. DOMAIN users \subseteq DOMAIN added /\ DOMAIN added \subseteq Legacy!Ids
      BY <1>2, <3>1
    <3> HIDE DEF added
    <3> QED
      BY <1>4, <3>1, <3>2, <3>4, <3>5, <3>6
  <2>2. CASE Legacy!Owner(email) # {}
    <3>1. UNCHANGED v8 /\ v2' = [v2 EXCEPT !.rows["user"] = promoted]
      BY <2>2 DEF Legacy!CreateSuperuser
    <3>2. /\ \A i \in DOMAIN users : promoted[i].email = users[i].email
          /\ DOMAIN promoted = DOMAIN users
      BY DEF Legacy!Owner, Legacy!IdsIn
    <3> HIDE DEF promoted
    <3>3. /\ v2'.rows = [v2.rows EXCEPT !["user"] = promoted]
          /\ v2'.seq = [v2.seq EXCEPT !["user"] = v2.seq["user"]]
          /\ v2' = [rows |-> v2'.rows, seq |-> v2'.seq]
      <4>1. v2.seq = [t \in Legacy!Tables |-> v2.seq[t]]
        BY DEF Legacy!IInv, Legacy!IsTarget
      <4>2. /\ v2'.rows = [v2.rows EXCEPT !["user"] = promoted] /\ v2'.seq = v2.seq
            /\ v2' = [rows |-> v2'.rows, seq |-> v2'.seq]
        BY <1>2, <3>1
      <4>3. v2.seq = [v2.seq EXCEPT !["user"] = v2.seq["user"]]
        BY <4>1
      <4> QED
        BY <4>2, <4>3
    <3>4. v2.seq["user"] \in 0..LegacyIds
      BY <1>2 DEF Legacy!IInv, Legacy!IsTarget
    <3>5. \A i, j \in DOMAIN promoted :
             i # j => \/ promoted[i].email # promoted[j].email
                      \/ i \in DOMAIN users /\ j \in DOMAIN users /\ users[i].email = users[j].email
      BY <3>2
    <3>6. DOMAIN promoted \subseteq Legacy!Ids /\ \A i \in DOMAIN promoted : i <= v2.seq["user"]
      BY <1>2, <1>3, <3>2
    <3> HIDE DEF users
    <3> QED
      BY <3>1, <3>2, <3>3, <3>4, <3>5, <3>6
  <2> QED
    BY <2>1, <2>2
<1>6. /\ \A t \in Legacy!Tables \ {"user"} : v2'.rows[t] = v2.rows[t] /\ v2'.seq[t] = v2.seq[t]
      /\ \A t \in Legacy!Tables : Legacy!IdsIn(v2.rows, t) \subseteq Legacy!IdsIn(v2'.rows, t)
  BY <1>2, <1>5 DEF Legacy!IdsIn
<1>7. Legacy!IsTarget(v2)' /\ Legacy!UsersNumbered(v2)' /\ ~v8'
  <2>1. /\ v2'.rows = [t \in Legacy!Tables |-> v2'.rows[t]]
           /\ v2'.seq = [t \in Legacy!Tables |-> v2'.seq[t]]
        /\ v2' = [rows |-> v2'.rows, seq |-> v2'.seq]
    BY <1>2, <1>5
  <2>2. \A t \in Legacy!Tables :
          Legacy!IdsIn(v2'.rows, t) \subseteq Legacy!Ids /\ v2'.seq[t] \in 0..LegacyIds
    BY <1>2, <1>5 DEF Legacy!IInv, Legacy!IsTarget, Legacy!IdsIn
  <2>3. Legacy!UsersNumbered(v2)' /\ ~v8'
    BY <1>2, <1>5 DEF Legacy!IInv, Legacy!UsersNumbered, Legacy!IdsIn
  <2> QED
    BY <2>1, <2>2, <2>3 DEF Legacy!IsTarget
<1>8. Legacy!TypeOK'
  <2>1. v8' \in BOOLEAN
    BY <1>5 DEF Legacy!IInv, Legacy!TypeOK
  <2>2. v2'.rows = [t \in Legacy!Tables |-> v2'.rows[t]]
    BY <1>7 DEF Legacy!IsTarget
  <2>3. DOMAIN v2'.rows = Legacy!Tables
    BY <2>2
  <2> QED
    BY <1>1, <1>7, <2>1, <2>3 DEF Legacy!IInv, Legacy!TypeOK, Legacy!IsTarget, Legacy!IdsIn
<1>9. ASSUME v5 = "committed"
      PROVE  Legacy!Sound(v2.rows)' /\ Legacy!Covered(v2.rows)' /\ Legacy!Keeps(v2.rows)'
  <2>1. Legacy!Sound(v2.rows) /\ Legacy!Covered(v2.rows) /\ Legacy!Keeps(v2.rows)
    BY <1>9 DEF Legacy!IInv
  <2>2. Legacy!Sound(v2.rows)'
    <3>1. \A i, j \in Legacy!IdsIn(v2'.rows, "user") :
             i # j => v2'.rows["user"][i].email # v2'.rows["user"][j].email
      BY <1>2, <1>5, <2>1 DEF Legacy!Sound, Legacy!IdsIn
    <3>2. Legacy!IdsIn(v2.rows, "user") \subseteq Legacy!IdsIn(v2'.rows, "user")
      BY <1>2, <1>6
    <3>3. \A t \in {"ticket", "activity", "system_module", "system_parameter"} :
             v2'.rows[t] = v2.rows[t] /\ Legacy!IdsIn(v2'.rows, t) = Legacy!IdsIn(v2.rows, t)
      BY <1>6, LegacyOrder DEF Legacy!IdsIn
    <3> QED
      BY <2>1, <3>1, <3>2, <3>3 DEF Legacy!Sound
  <2>3. Legacy!Written = Legacy!Tables /\ Legacy!Written' = Legacy!Tables
    BY <1>1, LegacyWritten
  <2> QED
    BY <1>1, <1>6, <2>1, <2>2, <2>3 DEF Legacy!Covered, Legacy!Keeps, Legacy!IdsIn
<1>10. ASSUME v5 # "committed"
       PROVE  /\ \A t \in Legacy!Tables \ {"user"} : v2'.rows[t] = v7'[t]
              /\ Legacy!IdsIn(v7', "user") \subseteq Legacy!IdsIn(v2'.rows, "user")
  BY <1>1, <1>2, <1>6, <1>10 DEF Legacy!IInv, Legacy!IdsIn
<1>11. Legacy!IsTarget(v3)' /\ Legacy!SkippedAreOrphans' /\ (v1 \in LegacyCopies)'
  BY <1>1 DEF Legacy!IInv, Legacy!IsTarget, Legacy!SkippedAreOrphans, Legacy!IdsIn, Legacy!Orphan
<1>12. v5' \in Legacy!Ended /\ v5' \notin Legacy!Writing /\ v5' # "end"
      /\ v5' \notin {"reset", "end"} /\ v5' = v5
  BY <1>1 DEF Legacy!Ended
<1> QED
  BY <1>7, <1>8, <1>9, <1>10, <1>11, <1>12 DEF Legacy!IInv, Legacy!IdsIn

LEMMA LegacyInductive ==
  ASSUME Legacy!MigrationAssumption, Legacy!IInv, [Legacy!Next]_Legacy!vars
  PROVE  Legacy!IInv'
<1>1. CASE Legacy!Main
  BY <1>1, LegacyMain
<1>2. CASE Legacy!Begin
  BY <1>2, LegacyBegin
<1>3. CASE \E t \in Legacy!Tables : Legacy!MigrateTable(t)
  BY <1>3, LegacyTable
<1>4. CASE Legacy!ResetSequences
  BY <1>4, LegacyReset
<1>5. CASE Legacy!Finish
  BY <1>5, LegacyFinish
<1>6. CASE Legacy!Die
  BY <1>6, LegacyDie
<1>7. CASE \E e \in LegacyEmails, reset \in BOOLEAN : Legacy!CreateSuperuser(e, reset)
  BY <1>7, LegacySuperuser
<1>8. CASE UNCHANGED Legacy!vars
  <2>1. Legacy!Written' = Legacy!Written
    BY <1>8 DEF Legacy!vars, Legacy!Written
  <2>2. UNCHANGED <<v1, v2, v3, v4, v5, v6, v7, v8>>
    BY <1>8 DEF Legacy!vars
  <2>3. Legacy!TypeOK' /\ Legacy!IsTarget(v2)' /\ Legacy!IsTarget(v3)' /\ (v1 \in LegacyCopies)'
    BY <2>2 DEF Legacy!IInv, Legacy!TypeOK, Legacy!IsTarget, Legacy!IdsIn
  <2>4. Legacy!UsersNumbered(v2)' /\ Legacy!SkippedAreOrphans' /\ ~v8'
    BY <2>2 DEF Legacy!IInv, Legacy!UsersNumbered, Legacy!SkippedAreOrphans, Legacy!IdsIn,
       Legacy!Orphan
  <2>5. ASSUME NEW rows
        PROVE  (Legacy!Covered(rows) => Legacy!Covered(rows)')
              /\ (Legacy!Keeps(rows) => Legacy!Keeps(rows)')
    BY <2>1, <2>2 DEF Legacy!Covered, Legacy!Keeps, Legacy!IdsIn
  <2>6. Legacy!UsersNumbered(v3)' = Legacy!UsersNumbered(v3)
    BY <2>2 DEF Legacy!UsersNumbered, Legacy!IdsIn
  <2> QED
    BY <2>2, <2>3, <2>4, <2>5, <2>6 DEF Legacy!IInv, Legacy!IdsIn
<1> QED
  BY <1>1, <1>2, <1>3, <1>4, <1>5, <1>6, <1>7, <1>8 DEF Legacy!Next

(* A row left out is an orphan, and an orphan is in no sound target that   *)
(* has what the copy has.                                                  *)
LEMMA LegacyMeans ==
  ASSUME Legacy!IInv
  PROVE  Legacy!AllOrNothing /\ Legacy!TypeOK
<1>1. ASSUME v5 = "committed"
      PROVE  Legacy!Migrated
  <2>1. Legacy!Written = Legacy!Tables
    BY <1>1, LegacyOrder, LegacyWritten
  <2> QED
    BY <1>1, <2>1 DEF Legacy!IInv, Legacy!Migrated, Legacy!Covered, Legacy!Keeps,
       Legacy!SkippedAreOrphans, Legacy!Orphan
<1>2. ASSUME Legacy!Validates, NEW s \in v6
      PROVE  FALSE
  <2>1. \A t \in Legacy!Tables : Legacy!SameContent(t)
    BY <1>2 DEF Legacy!Validates
  <2>2. Legacy!Sound(v2.rows)
    BY <1>2 DEF Legacy!Validates
  <2>3. \A t \in Legacy!Tables : Legacy!IdsIn(v2.rows, t) = Legacy!IdsIn(v1, t)
    BY <2>1 DEF Legacy!SameContent
  <2>4. s[1] \in Legacy!Tables /\ s[2] \in Legacy!IdsIn(v1, s[1])
        /\ Legacy!Orphan(s[1], v1[s[1]][s[2]])
    BY DEF Legacy!IInv, Legacy!SkippedAreOrphans
  <2>5. s[1] \in {"ticket", "activity"}
    BY <2>4 DEF Legacy!Orphan
  <2>6. v1[s[1]][s[2]] = v2.rows[s[1]][s[2]]
    BY <2>1, <2>4, <2>5 DEF Legacy!SameContent
  <2> QED
    BY <2>2, <2>3, <2>4, <2>5, <2>6, LegacyOrder DEF Legacy!Orphan, Legacy!Sound
<1> QED
  BY <1>1, <1>2 DEF Legacy!IInv, Legacy!AllOrNothing

-----------------------------------------------------------------------------
(* The list of tickets: TicketList.tla, whose disk, mounted, loaded,       *)
(* period, status, search, page and debounced are v1 to v8 here, and       *)
(* chosen, touched and hurried v12 to v14. The device holds what the       *)
(* screen shows, or what it showed when it was left; a second page is of a *)
(* list that has two.                                                      *)

LEMMA HomeInit ==
  ASSUME Home!TicketListAssumption, Home!Init
  PROVE  Home!IInv
BY DEF Home!TicketListAssumption, Home!Init, Home!Default, Home!IInv, Home!FiltersRemembered

LEMMA HomeStill ==
  ASSUME Home!IInv, UNCHANGED <<v1, v2, v3, v4, v5, v6, v7, v8,
                              v12, v13, v14>>
  PROVE  Home!IInv'
BY DEF Home!IInv, Home!FiltersRemembered, Home!Choice

LEMMA HomeOpens ==
  ASSUME Home!TicketListAssumption, Home!IInv, Home!Mount \/ Home!Leave
  PROVE  Home!IInv'
<1>1. CASE Home!Mount
  <2>1. /\ ~v2 /\ ~v3' /\ v7' = 1 /\ v14' = FALSE /\ v3' = FALSE
        /\ v4' = ThisMonth /\ v5' = PendingStatus /\ UNCHANGED v12
    BY <1>1 DEF Home!Mount
  <2>2. v1' = v1
    BY <1>1, <2>1 DEF Home!Mount, Home!Saved
  <2>3. Home!IsPeriodValue(v4') /\ v5' \in ListStatuses
    BY <2>1 DEF Home!TicketListAssumption
  <2>4. v7' \in {1, 2} /\ v3' \in BOOLEAN /\ v14' \in BOOLEAN
    BY <2>1
  <2>5. v12 # Unfiltered => v1 = v12
    BY <2>1 DEF Home!IInv
  <2>6. v7' # 2
    BY <2>1
  <2>7. v12 # Unfiltered =>
       /\ v12 = [year |-> v12.year, status |-> v12.status]
       /\ Home!IsPeriodValue(v12.year) /\ v12.status \in ListStatuses
    BY DEF Home!IInv
  <2> QED
    BY <2>1, <2>2, <2>3, <2>4, <2>5, <2>6, <2>7 DEF Home!IInv, Home!FiltersRemembered
<1>2. CASE Home!Leave
  BY <1>2 DEF Home!Leave, Home!IInv, Home!FiltersRemembered, Home!Choice
<1> QED
  BY <1>1, <1>2

LEMMA HomeReads ==
  ASSUME Home!IInv, Home!FiltersRead
  PROVE  Home!IInv'
<1> DEFINE stored == Home!Parsed(v1)
<1>1. /\ v2 /\ ~v3 /\ v3' = TRUE
      /\ v4' = IF stored = Unfiltered THEN v4 ELSE stored.year
      /\ v5' = IF stored = Unfiltered \/ stored.status \notin ListStatuses
                   THEN v5 ELSE stored.status
      /\ v1' = [year |-> v4', status |-> v5']
      /\ UNCHANGED <<v2, v6, v7, v8, v12, v13, v14>>
  BY DEF Home!FiltersRead, Home!Saved
<1>2. stored = Unfiltered \/ (stored = v1 /\ Home!IsPeriodValue(v1.year))
  BY DEF Home!Parsed
<1>3. v12 # Unfiltered => stored = v12
  BY <1>1 DEF Home!IInv, Home!Parsed
<1>4. Home!IsPeriodValue(v4')  /\ v5' \in ListStatuses
  BY <1>1, <1>2 DEF Home!IInv
<1>5. v12 # Unfiltered => v4' = v12.year /\ v5' = v12.status
  BY <1>1, <1>3 DEF Home!IInv
<1> QED
  <2>1. Home!Choice' = [year |-> v4', status |-> v5']
    BY DEF Home!Choice
  <2> QED
    BY <1>1, <1>4, <1>5, <2>1 DEF Home!IInv, Home!FiltersRemembered

LEMMA HomeChooses ==
  ASSUME Home!TicketListAssumption, Home!IInv, NEW p \in Periods, NEW s \in ListStatuses,
         Home!Choose(p, s)
  PROVE  Home!IInv'
<1>1. /\ v2 /\ v4' = p /\ v5' = s /\ v7' = 1 /\ v13'
      /\ UNCHANGED <<v2, v3, v6, v8, v12, v14>>
      /\ v1' = IF v3 THEN [year |-> p, status |-> s] ELSE v1
  BY DEF Home!Choose, Home!Saved
<1>2. Home!Choice' = [year |-> p, status |-> s]
  BY <1>1 DEF Home!Choice
<1>3. Home!IsPeriodValue(v4') /\ v5' \in ListStatuses
  BY <1>1 DEF Home!TicketListAssumption
<1> QED
  BY <1>1, <1>2, <1>3 DEF Home!IInv, Home!FiltersRemembered

LEMMA HomeSearches ==
  ASSUME Home!IInv, Home!Debounce \/ \E text \in Searches : Home!Type(text)
  PROVE  Home!IInv'
BY DEF Home!Debounce, Home!Type, Home!IInv, Home!FiltersRemembered, Home!Choice

LEMMA HomeTurns ==
  ASSUME Home!IInv, Home!TurnPage
  PROVE  Home!IInv'
<1>1. /\ v2
      /\ (Home!MayPrevious /\ v7' = v7 - 1) \/ (Home!MayNext /\ v7' = v7 + 1)
      /\ UNCHANGED <<v1, v2, v3, v4, v5, v6, v8, v11, v12, v13>>
  BY Zenon DEF Home!TurnPage
<1>2. /\ v14' \in BOOLEAN
      /\ ~v14' => v3 /\ v8 = v6
  BY Zenon DEF Home!TurnPage
<1>3. CASE Home!MayPrevious /\ v7' = v7 - 1
  <2>1. v7' = 1
    BY <1>3 DEF Home!IInv, Home!MayPrevious
  <2> QED
    BY <1>1, <1>2, <2>1 DEF Home!IInv, Home!FiltersRemembered, Home!Choice
<1>4. CASE Home!MayNext /\ v7' = v7 + 1
  <2>1. v7 < Home!TotalPages(Home!Key)
    BY <1>4 DEF Home!MayNext, Home!Pagination, Home!Shown
  <2>2. v7 = 1 /\ v7' = 2 /\ <<v4, v5, v8>> \in Long
    BY <1>4, <2>1 DEF Home!IInv, Home!TotalPages, Home!Key
  <2> QED
    BY <1>1, <1>2, <2>2 DEF Home!IInv, Home!FiltersRemembered, Home!Choice
<1> QED
  BY <1>1, <1>3, <1>4

LEMMA HomeInductive ==
  ASSUME Home!TicketListAssumption, Home!IInv, [Home!Next]_Home!vars
  PROVE  Home!IInv'
<1>1. CASE UNCHANGED Home!vars
  BY <1>1, HomeStill DEF Home!vars
<1>2. CASE Home!Arrive \/ Home!Retry \/ Home!Export
  BY <1>2, HomeStill DEF Home!Arrive, Home!Retry, Home!Export, Home!filters
<1> QED
  BY <1>1, <1>2, HomeOpens, HomeReads, HomeChooses, HomeSearches, HomeTurns DEF Home!Next

LEMMA HomeMeans == Home!IInv => Home!PageExists /\ Home!FiltersRemembered
BY DEF Home!IInv, Home!PageExists, Home!TotalPages, Home!Key

-----------------------------------------------------------------------------
(* Signing in and out: Entrance.tla, whose must, disk, bootstrapped,       *)
(* hasSession, profile, route, form, calls, refresh and crossed are v1 to  *)
(* v10 here. Every step between the device and the screens is accounted    *)
(* for: a login that still saves its session, a refresh that still writes  *)
(* or has just removed it.                                                 *)

LEMMA DoorInit == Door!Init => Door!IInv
<1> SUFFICES ASSUME Door!Init
             PROVE  Door!IInv
  OBVIOUS
<1>1. /\ v4 = FALSE /\ v3 = FALSE /\ v10 = FALSE /\ v5 = Door!NewQuery
      /\ v9 = "none" /\ v7 = Door!NewForm /\ \A k \in Door!Kinds : v8[k] = Door!NoCall
  BY DEF Door!Init
<1>2. v8 \in [Door!Kinds -> [step : Door!Steps, mine : BOOLEAN]]
  BY DEF Door!Init, Door!NoCall, Door!Steps
<1>3. /\ v1 \in BOOLEAN /\ v2 \in BOOLEAN /\ v6 \in Door!Segments
      /\ v3 \in BOOLEAN /\ v4 \in BOOLEAN /\ v10 \in BOOLEAN
  BY DEF Door!Init
<1>4. Door!QueryShape(v5) /\ v5.data = Unset /\ v5.fetch = "none"
  BY <1>1 DEF Door!QueryShape, Door!NewQuery
<1>5. Door!Shaped
  BY <1>1, <1>2, <1>3, <1>4 DEF Door!Shaped, Door!TypeOK, Door!NewForm
<1> QED
  BY <1>1, <1>4, <1>5 DEF Door!IInv, Door!Handled, Door!Forgot, Door!Knows, Door!FormsComeBack,
     Door!NoCall, Door!NewForm,
       Door!SavingLogin, Door!Kinds

LEMMA DoorStill == ASSUME Door!IInv, UNCHANGED Door!vars PROVE Door!IInv'
BY DEF Door!vars, Door!IInv, Door!Shaped, Door!TypeOK, Door!QueryShape, Door!Handled, Door!Forgot,
   Door!Knows, Door!FormsComeBack, Door!SavingLogin

(* The provider and the client's refreshes: no screen, no handler.         *)
LEMMA DoorProvider ==
  ASSUME Door!IInv,
         Door!Bootstrap \/ Door!ProfileServed \/ Door!ProfileArrives \/ Door!ProfileRefetched
               \/ Door!RefreshSent
           \/ Door!RefreshSaved \/ Door!RefreshRefused \/ Door!SessionExpired \/ Door!Demanded
  PROVE  Door!IInv'
<1>1. UNCHANGED <<v6, v7, v8>>
  BY DEF Door!Bootstrap, Door!ProfileServed, Door!ProfileArrives, Door!ProfileRefetched,
     Door!RefreshSent,
         Door!RefreshSaved, Door!RefreshRefused, Door!SessionExpired, Door!Demanded, Door!session
<1>2. Door!FormsComeBack' /\ (Door!SavingLogin' <=> Door!SavingLogin)
  BY <1>1 DEF Door!IInv, Door!FormsComeBack, Door!SavingLogin
<1>3. CASE Door!Bootstrap
  <2>1. /\ ~v3 /\ ~v4 /\ ~Door!SavingLogin
        /\ v5.data = Unset /\ v5.fetch = "none"
    BY <1>3 DEF Door!Bootstrap, Door!IInv, Door!Handled, Door!Forgot, Door!SavingLogin, Door!Kinds
  <2>2. Door!QueryShape(v5') /\ v5'.data = Unset /\ (~v2 => v5' = v5)
        /\ v5'.fetch \in {"none", "asked"}
    BY <1>3, <2>1 DEF Door!Bootstrap, Door!Opened, Door!Asked, Door!IInv, Door!Shaped,
       Door!QueryShape
  <2>3. v3' /\ (v4' <=> v2) /\ v4' \in BOOLEAN
        /\ UNCHANGED <<v1, v2, v9, v10>>
    BY <1>3 DEF Door!Bootstrap, Door!IInv, Door!Shaped, Door!TypeOK
  <2>4. Door!Shaped'
    BY <1>1, <1>3, <2>2, <2>3 DEF Door!Bootstrap, Door!IInv, Door!Shaped, Door!TypeOK,
       Door!QueryShape
  <2> QED
    BY <1>1, <1>2, <2>1, <2>2, <2>3, <2>4 DEF Door!IInv, Door!Handled, Door!Forgot, Door!Knows
<1>4. CASE Door!ProfileServed \/ Door!ProfileArrives \/ Door!ProfileRefetched
  <2>1. UNCHANGED <<v1, v2, v3, v4, v9, v10>>
    BY <1>4 DEF Door!ProfileServed, Door!ProfileArrives, Door!ProfileRefetched
  <2>2. v4
    BY <1>4 DEF Door!ProfileServed, Door!ProfileArrives, Door!ProfileRefetched, Door!IInv,
       Door!Forgot
  <2>3. Door!QueryShape(v5') /\ (v5'.data = Unset \/ v5'.data.must \in BOOLEAN)
        /\ v5'.fetch \in {"none", "asked", "answered"}
        /\ (v5'.fetch = "answered" => v5'.got = Failure \/ v5'.got.must \in BOOLEAN)
    <3>1. CASE Door!ProfileServed
      <4>1. v5' = [v5 EXCEPT !.fetch = "answered", !.got = Door!User]
            \/ v5' = [v5 EXCEPT !.fetch = "answered", !.got = Failure]
        BY <3>1 DEF Door!ProfileServed, Door!AnsweredWith
      <4>2. Door!User.must \in BOOLEAN
        BY DEF Door!User, Door!IInv, Door!Shaped, Door!TypeOK
      <4> QED
        BY <4>1, <4>2 DEF Door!IInv, Door!Shaped, Door!TypeOK, Door!QueryShape
    <3>2. CASE Door!ProfileArrives
      BY <3>2 DEF Door!ProfileArrives, Door!IInv, Door!Shaped, Door!TypeOK, Door!QueryShape,
         Door!Taken
    <3>3. CASE Door!ProfileRefetched
      BY <3>3 DEF Door!ProfileRefetched, Door!IInv, Door!Shaped, Door!TypeOK, Door!QueryShape,
         Door!Asked
    <3> QED
      BY <1>4, <3>1, <3>2, <3>3
  <2>4. Door!Shaped'
    BY <1>1, <2>1, <2>3 DEF Door!IInv, Door!Shaped, Door!TypeOK
  <2> QED
    BY <1>1, <1>2, <2>1, <2>2, <2>4 DEF Door!IInv, Door!Handled, Door!Forgot, Door!Knows
<1>5. CASE Door!RefreshSent \/ Door!RefreshSaved \/ Door!RefreshRefused
  <2>1. UNCHANGED <<v1, v3, v4, v5>>
    BY <1>5 DEF Door!RefreshSent, Door!RefreshSaved, Door!RefreshRefused
  <2>2. v2' \in BOOLEAN /\ v10' \in BOOLEAN /\ v9' \in {"none", "sent", "cleared"}
    <3>1. v2 \in BOOLEAN /\ v10 \in BOOLEAN
      BY DEF Door!IInv, Door!Shaped, Door!TypeOK
    <3> QED
      BY <1>5, <3>1 DEF Door!RefreshSent, Door!RefreshSaved, Door!RefreshRefused
  <2>3. Door!Shaped'
    <3>1. /\ v1' \in BOOLEAN /\ v3' \in BOOLEAN /\ v4' \in BOOLEAN
          /\ Door!QueryShape(v5)' /\ (v5.data = Unset \/ v5.data.must \in BOOLEAN)'
          /\ (v5.fetch \in {"none", "asked", "answered"})'
          /\ (v5.fetch = "answered" => v5.got = Failure \/ v5.got.must \in BOOLEAN)'
      BY <2>1 DEF Door!IInv, Door!Shaped, Door!TypeOK, Door!QueryShape
    <3>2. /\ v6' \in Door!Segments
             /\ v7' \in [error : BOOLEAN, submitting : BOOLEAN, sent : BOOLEAN]
          /\ v8' \in [Door!Kinds -> [step : Door!Steps, mine : BOOLEAN]]
      BY <1>1 DEF Door!IInv, Door!Shaped, Door!TypeOK
    <3> QED
      BY <2>2, <3>1, <3>2 DEF Door!Shaped, Door!TypeOK, Door!QueryShape
  <2>4. CASE Door!RefreshSent
    <3>1. v9' = "sent" /\ v2 /\ UNCHANGED v2 /\ v9 = "none"
          /\ (~v10' => ~v10 /\ ~Door!SavingLogin)
      BY <2>4 DEF Door!RefreshSent
    <3>2. (v4' <=> v4) /\ (v2' <=> v2) /\ (v3' <=> v3)
      BY <2>1, <3>1
    <3>3. Door!Knows'
      BY <1>2, <3>1, <3>2 DEF Door!IInv, Door!Knows
    <3> QED
      BY <1>1, <1>2, <2>1, <2>3, <3>3 DEF Door!IInv, Door!Handled, Door!Forgot
  <2>5. CASE Door!RefreshSaved
    BY <1>1, <1>2, <2>1, <2>3, <2>5 DEF Door!RefreshSaved, Door!IInv, Door!Handled, Door!Forgot,
       Door!Knows
  <2>6. CASE Door!RefreshRefused
    BY <1>1, <1>2, <2>1, <2>3, <2>6 DEF Door!RefreshRefused, Door!IInv, Door!Handled, Door!Forgot,
       Door!Knows
  <2> QED
    BY <1>5, <2>4, <2>5, <2>6
<1>6. CASE Door!SessionExpired
  BY <1>1, <1>2, <1>6 DEF Door!SessionExpired, Door!Forgotten, Door!NewQuery, Door!IInv,
     Door!Shaped, Door!TypeOK, Door!QueryShape,
                          Door!Handled, Door!Forgot, Door!Knows
<1>7. CASE Door!Demanded
  BY <1>1, <1>2, <1>7 DEF Door!Demanded, Door!session, Door!IInv, Door!Shaped, Door!TypeOK,
     Door!QueryShape, Door!Handled, Door!Forgot, Door!Knows
<1> QED
  BY <1>3, <1>4, <1>5, <1>6, <1>7

(* A step that leaves the session alone keeps what is known of it.         *)
LEMMA DoorScreens ==
  ASSUME Door!IInv, UNCHANGED Door!session, v1' \in BOOLEAN, v6' \in Door!Segments,
         v7' \in [error : BOOLEAN, submitting : BOOLEAN, sent : BOOLEAN],
         v8' \in [Door!Kinds -> [step : Door!Steps, mine : BOOLEAN]],
         Door!SavingLogin' <=> Door!SavingLogin, Door!Handled', Door!FormsComeBack'
  PROVE  Door!IInv'
<1>1. Door!Shaped'
  BY DEF Door!IInv, Door!Shaped, Door!TypeOK, Door!session, Door!QueryShape
<1>2. Door!Forgot' /\ Door!Knows'
  BY DEF Door!IInv, Door!Forgot, Door!Knows, Door!session
<1> QED
  BY <1>1, <1>2 DEF Door!IInv

(* Another screen opens: its form is new, and no handler reaches it.       *)
LEMMA DoorOpens ==
  ASSUME Door!IInv, NEW segment \in Door!Segments, segment # v6, Door!Opens(segment),
         UNCHANGED <<v1, Door!session>>
  PROVE  Door!IInv'
<1>1. /\ v6' = segment /\ v7' = Door!NewForm
      /\ v8' = [k \in Door!Kinds |-> [v8[k] EXCEPT !.mine = FALSE]]
  BY DEF Door!Opens
<1>2. v8' \in [Door!Kinds -> [step : Door!Steps, mine : BOOLEAN]]
  BY <1>1 DEF Door!IInv, Door!Shaped, Door!TypeOK
<1>3. \A k \in Door!Kinds : v8'[k].step = v8[k].step /\ ~v8'[k].mine
  BY <1>1 DEF Door!IInv, Door!Shaped, Door!TypeOK
<1>4. Door!Handled' /\ Door!FormsComeBack' /\ (Door!SavingLogin' <=> Door!SavingLogin)
  BY <1>1, <1>3 DEF Door!IInv, Door!Handled, Door!FormsComeBack, Door!SavingLogin, Door!NewForm,
     Door!session, Door!Kinds
<1> QED
  BY <1>1, <1>2, <1>4, DoorScreens DEF Door!IInv, Door!Shaped, Door!TypeOK, Door!NewForm

LEMMA DoorMoves ==
  ASSUME Door!IInv, Door!Redirect \/ (\E segment \in Door!Segments : Door!Navigate(segment))
  PROVE  Door!IInv'
<1>1. CASE Door!Redirect
  <2>1. Door!ResolveRedirect(v5.data, v6) \in Door!Segments
    BY DEF Door!ResolveRedirect, Door!Segments, Door!PublicSegments, Door!IInv, Door!Shaped,
       Door!TypeOK
  <2> QED
    BY <1>1, <2>1, DoorOpens DEF Door!Redirect
<1>2. CASE \E segment \in Door!Segments : Door!Navigate(segment)
  BY <1>2, DoorOpens DEF Door!Navigate
<1> QED
  BY <1>1, <1>2

(* A handler takes a step: only its own entry of calls changes, and, when  *)
(* it still has its screen, the form there.                                *)
LEMMA DoorStep ==
  ASSUME Door!IInv, NEW k \in Door!Kinds, v3, UNCHANGED <<Door!session, v6>>, v1' \in BOOLEAN,
         v8' \in [Door!Kinds -> [step : Door!Steps, mine : BOOLEAN]],
         \A j \in Door!Kinds \ {k} : v8'[j] = v8[j],
         k = "login" => v8[k].step # "saved" /\ v8'[k].step # "saved",
         v8'[k].mine => k # "signout" /\ v6 = Door!ScreenOf(k) /\ v8'[k].step # "none",
         v8'[k].step \in {"leaving", "revoked"} => k \in {"change", "signout"},
         v7' \in [error : BOOLEAN, submitting : BOOLEAN, sent : BOOLEAN],
         v7'.submitting => v8'[k].mine \/ (v7.submitting /\ ~v8[k].mine)
  PROVE  Door!IInv'
<1>1. Door!SavingLogin' <=> Door!SavingLogin
  BY DEF Door!SavingLogin, Door!Kinds
<1>2. Door!Handled'
  BY DEF Door!IInv, Door!Handled, Door!session
<1>3. Door!FormsComeBack'
  BY DEF Door!IInv, Door!FormsComeBack
<1> QED
  BY <1>1, <1>2, <1>3, DoorScreens DEF Door!IInv, Door!Shaped, Door!TypeOK

(* The same, said of a change of its step alone.                           *)
LEMMA DoorAdvance ==
  ASSUME Door!IInv, NEW k \in Door!Kinds, NEW step \in Door!Steps, step # "none", step # "saved",
         v8' = [v8 EXCEPT ![k].step = step], k = "login" => v8[k].step # "saved",
         step \in {"leaving", "revoked"} => k \in {"change", "signout"},
         UNCHANGED <<Door!session, v6, v7>>, v1' \in BOOLEAN, v3
  PROVE  Door!IInv'
<1>1. v8 \in [Door!Kinds -> [step : Door!Steps, mine : BOOLEAN]]
  BY DEF Door!IInv, Door!Shaped, Door!TypeOK
<1>2. v8' \in [Door!Kinds -> [step : Door!Steps, mine : BOOLEAN]]
  BY <1>1
<1>3. /\ \A j \in Door!Kinds \ {k} : v8'[j] = v8[j]
      /\ v8'[k].step = step /\ v8'[k].mine = v8[k].mine
  BY <1>1
<1>4. v8'[k].mine => k # "signout" /\ v6 = Door!ScreenOf(k) /\ v8'[k].step # "none"
  BY <1>3 DEF Door!IInv, Door!Handled
<1>5. v7' \in [error : BOOLEAN, submitting : BOOLEAN, sent : BOOLEAN]
      /\ (v7'.submitting => v8'[k].mine \/ (v7.submitting /\ ~v8[k].mine))
  BY <1>3 DEF Door!IInv, Door!Shaped, Door!TypeOK
<1> QED
  BY <1>2, <1>3, <1>4, <1>5, DoorStep

LEMMA DoorSubmits ==
  ASSUME Door!IInv, NEW k \in Door!Kinds \ {"signout"}, NEW valid \in BOOLEAN,
         Door!Submit(k, Door!ScreenOf(k), valid)
  PROVE  Door!IInv'
<1>1. v3 /\ v6 = Door!ScreenOf(k) /\ UNCHANGED <<v1, Door!session, v6>>
  BY DEF Door!Submit, Door!IsLoading
<1>2. v1' \in BOOLEAN /\ v7 \in [error : BOOLEAN, submitting : BOOLEAN, sent : BOOLEAN]
  BY <1>1 DEF Door!IInv, Door!Shaped, Door!TypeOK
<1>3. CASE valid
  <2>1. /\ v8' = [v8 EXCEPT ![k] = [step |-> "sent", mine |-> TRUE]]
        /\ v7' = [v7 EXCEPT !.submitting = TRUE, !.error = FALSE] /\ v8[k].step = "none"
    BY <1>3 DEF Door!Submit, Door!MayStart
  <2>2. v8' \in [Door!Kinds -> [step : Door!Steps, mine : BOOLEAN]]
        /\ v8'[k] = [step |-> "sent", mine |-> TRUE]
        /\ \A j \in Door!Kinds \ {k} : v8'[j] = v8[j]
    BY <2>1 DEF Door!IInv, Door!Shaped, Door!TypeOK, Door!Steps
  <2> QED
    BY <1>1, <1>2, <2>1, <2>2, DoorStep
<1>4. CASE ~valid
  <2>1. v7' = [v7 EXCEPT !.error = TRUE] /\ UNCHANGED v8
    BY <1>4 DEF Door!Submit
  <2>2. Door!Handled' /\ Door!FormsComeBack' /\ (Door!SavingLogin' <=> Door!SavingLogin)
    BY <1>1, <1>2, <2>1 DEF Door!IInv, Door!Handled, Door!FormsComeBack, Door!SavingLogin,
       Door!session
  <2>3. v8' \in [Door!Kinds -> [step : Door!Steps, mine : BOOLEAN]] /\ v6' \in Door!Segments
        /\ v7' \in [error : BOOLEAN, submitting : BOOLEAN, sent : BOOLEAN]
    BY <1>1, <1>2, <2>1 DEF Door!IInv, Door!Shaped, Door!TypeOK
  <2> QED
    BY <1>1, <1>2, <2>2, <2>3, DoorScreens
<1> QED
  BY <1>3, <1>4

LEMMA DoorPresses ==
  ASSUME Door!IInv,
         Door!SubmitLogin \/ Door!SubmitForgot \/ Door!SubmitReset \/ Door!SubmitChange
               \/ Door!SignOut
  PROVE  Door!IInv'
<1>1. CASE Door!SubmitLogin
  BY <1>1, DoorSubmits DEF Door!SubmitLogin, Door!ScreenOf, Door!Kinds
<1>2. CASE Door!SubmitForgot
  <2>1. PICK valid \in BOOLEAN : Door!Submit("forgot", "forgot-password", valid)
    <3>1. PICK valid \in {w # BlankWord : w \in Words} : Door!Submit("forgot", "forgot-password", valid)
      BY <1>2 DEF Door!SubmitForgot
    <3> QED
      BY <3>1
  <2>2. "forgot" \in Door!Kinds \ {"signout"} /\ Door!ScreenOf("forgot") = "forgot-password"
    BY DEF Door!Kinds, Door!ScreenOf
  <2> QED
    BY <2>1, <2>2, DoorSubmits
<1>3. CASE Door!SubmitReset
  <2>1. PICK valid \in BOOLEAN : Door!Submit("reset", "reset-password", valid)
    <3>1. PICK w \in Words, again \in Words :
                 Door!Submit("reset", "reset-password", Door!MayReset(w, again))
      BY <1>3 DEF Door!SubmitReset
    <3>2. Door!MayReset(w, again) \in BOOLEAN
      BY DEF Door!MayReset
    <3> QED
      BY <3>1, <3>2
  <2>2. "reset" \in Door!Kinds \ {"signout"} /\ Door!ScreenOf("reset") = "reset-password"
    BY DEF Door!Kinds, Door!ScreenOf
  <2> QED
    BY <2>1, <2>2, DoorSubmits
<1>4. CASE Door!SubmitChange
  <2>1. PICK current \in Words, w \in Words, again \in Words :
               Door!Submit("change", "change-password", Door!MayChange(current, w, again))
    BY <1>4 DEF Door!SubmitChange
  <2>2. Door!MayChange(current, w, again) \in BOOLEAN
    BY DEF Door!MayChange
  <2>3. "change" \in Door!Kinds \ {"signout"} /\ Door!ScreenOf("change") = "change-password"
    BY DEF Door!Kinds, Door!ScreenOf
  <2> QED
    BY <2>1, <2>2, <2>3, DoorSubmits
<1>5. CASE Door!SignOut
  <2>1. v1' \in BOOLEAN /\ v3
    BY <1>5 DEF Door!SignOut, Door!IsLoading, Door!IInv, Door!Shaped, Door!TypeOK
  <2> QED
    BY <1>5, <2>1, DoorAdvance DEF Door!SignOut, Door!Kinds, Door!Steps
<1> QED
  BY <1>1, <1>2, <1>3, <1>4, <1>5

(* A handler that is under way was started after the session was read.     *)
LEMMA DoorBegun ==
  ASSUME Door!IInv, NEW k \in Door!Kinds, v8[k].step # "none"
  PROVE  v3
BY DEF Door!IInv, Door!Handled

LEMMA DoorHandles ==
  ASSUME Door!IInv, NEW k \in Door!Kinds, Door!Serve(k) \/ Door!Refused(k) \/ Door!LoggedOut(k)
  PROVE  Door!IInv'
<1>1. v3
  BY DoorBegun DEF Door!Serve, Door!Refused, Door!LoggedOut
<1>2. v1 \in BOOLEAN /\ v7 \in [error : BOOLEAN, submitting : BOOLEAN, sent : BOOLEAN]
      /\ (v8[k].step \in {"leaving", "revoked"} => k \in {"change", "signout"})
  BY DEF Door!IInv, Door!Shaped, Door!TypeOK, Door!Handled
<1>3. CASE Door!Serve(k)
  <2>1. v1' \in BOOLEAN
    BY <1>2, <1>3 DEF Door!Serve, Door!Accepts
  <2> QED
    BY <1>1, <1>3, <2>1, DoorAdvance DEF Door!Serve, Door!Steps
<1>4. CASE Door!LoggedOut(k)
  BY <1>1, <1>2, <1>4, DoorAdvance DEF Door!LoggedOut, Door!Steps
<1>5. CASE Door!Refused(k)
  <2>1. v7' \in [error : BOOLEAN, submitting : BOOLEAN, sent : BOOLEAN]
        /\ (v7'.submitting => v7.submitting /\ ~v8[k].mine)
    BY <1>2, <1>5 DEF Door!Refused
  <2>2. v8' \in [Door!Kinds -> [step : Door!Steps, mine : BOOLEAN]]
        /\ v8'[k] = Door!NoCall /\ \A j \in Door!Kinds \ {k} : v8'[j] = v8[j]
    BY <1>5 DEF Door!Refused, Door!NoCall, Door!IInv, Door!Shaped, Door!TypeOK, Door!Steps
  <2> QED
    BY <1>1, <1>2, <1>5, <2>1, <2>2, DoorStep DEF Door!Refused, Door!NoCall
<1> QED
  BY <1>3, <1>4, <1>5

LEMMA DoorAnswers ==
  ASSUME Door!IInv, Door!LinkSent \/ Door!PasswordChanged \/ Door!PasswordReset
  PROVE  Door!IInv'
<1>1. v3
  BY DoorBegun DEF Door!LinkSent, Door!PasswordChanged, Door!PasswordReset, Door!Kinds
<1>2. v1 \in BOOLEAN /\ v7 \in [error : BOOLEAN, submitting : BOOLEAN, sent : BOOLEAN]
  BY DEF Door!IInv, Door!Shaped, Door!TypeOK
<1>3. CASE Door!LinkSent
  <2>1. v7' \in [error : BOOLEAN, submitting : BOOLEAN, sent : BOOLEAN]
        /\ (v7'.submitting => v7.submitting /\ ~v8["forgot"].mine)
    BY <1>2, <1>3 DEF Door!LinkSent
  <2>2. v8' \in [Door!Kinds -> [step : Door!Steps, mine : BOOLEAN]]
        /\ v8'["forgot"] = Door!NoCall /\ \A j \in Door!Kinds \ {"forgot"} : v8'[j] = v8[j]
    BY <1>3 DEF Door!LinkSent, Door!NoCall, Door!IInv, Door!Shaped, Door!TypeOK, Door!Steps,
       Door!Kinds
  <2> QED
    BY <1>1, <1>2, <1>3, <2>1, <2>2, DoorStep DEF Door!LinkSent, Door!NoCall, Door!Kinds
<1>4. CASE Door!PasswordChanged
  BY <1>1, <1>2, <1>4, DoorAdvance DEF Door!PasswordChanged, Door!Steps, Door!Kinds
<1>5. CASE Door!PasswordReset
  <2>1. /\ v6' = "login" /\ UNCHANGED <<v1, Door!session>>
        /\ v7' = IF v6 = "login" THEN v7 ELSE Door!NewForm
        /\ v8' = [k \in Door!Kinds |-> IF k = "reset" THEN Door!NoCall
                                     ELSE [v8[k] EXCEPT !.mine = @ /\ v6 = "login"]]
    BY <1>5 DEF Door!PasswordReset
  <2>2. v8 \in [Door!Kinds -> [step : Door!Steps, mine : BOOLEAN]]
    BY DEF Door!IInv, Door!Shaped, Door!TypeOK
  <2>3. \A k \in Door!Kinds \ {"reset"} :
          /\ v8'[k] = [step |-> v8[k].step, mine |-> v8'[k].mine]
          /\ v8'[k].step = v8[k].step /\ v8'[k].mine \in BOOLEAN
          /\ v8'[k].mine <=> v8[k].mine /\ v6 = "login"
    BY <2>1, <2>2
  <2>4. v8' \in [Door!Kinds -> [step : Door!Steps, mine : BOOLEAN]]
    <3>1. v8' = [k \in Door!Kinds |-> v8'[k]] /\ v8'["reset"] = Door!NoCall
      BY <2>1 DEF Door!Kinds
    <3>2. Door!NoCall \in [step : Door!Steps, mine : BOOLEAN]
      BY DEF Door!NoCall, Door!Steps
    <3>3. \A k \in Door!Kinds : v8'[k] \in [step : Door!Steps, mine : BOOLEAN]
      BY <2>2, <2>3, <3>1, <3>2
    <3> QED
      BY <3>1, <3>3
  <2>5. \A k \in Door!Kinds : v8'[k].mine => k # "reset" /\ v8[k].mine /\ v6 = "login"
    BY <2>1, <2>3 DEF Door!NoCall, Door!Kinds
  <2>6. Door!Handled'
    <3>1. v3'
      BY <1>1, <2>1 DEF Door!session
    <3>2. \A k \in Door!Kinds : v8'[k].step \in {v8[k].step, "none"}
      BY <2>1, <2>3 DEF Door!NoCall, Door!Kinds
    <3> QED
      BY <2>1, <2>5, <3>1, <3>2 DEF Door!IInv, Door!Handled, Door!ScreenOf
  <2>7. Door!SavingLogin' <=> Door!SavingLogin
    BY <2>3 DEF Door!SavingLogin, Door!Kinds
  <2>8. Door!FormsComeBack'
    <3>1. CASE v7'.submitting
      <4>1. v6 = "login" /\ v7.submitting
        BY <2>1, <3>1 DEF Door!NewForm
      <4>2. PICK k \in Door!Kinds : v8[k].step # "none" /\ v8[k].mine
        BY <4>1 DEF Door!IInv, Door!FormsComeBack
      <4>3. k # "reset"
        BY <4>1, <4>2 DEF Door!IInv, Door!Handled, Door!ScreenOf
      <4> QED
        BY <2>3, <4>1, <4>2, <4>3 DEF Door!FormsComeBack
    <3> QED
      BY <3>1 DEF Door!FormsComeBack
  <2>9. v6' \in Door!Segments /\ v7' \in [error : BOOLEAN, submitting : BOOLEAN, sent : BOOLEAN]
    BY <1>2, <2>1 DEF Door!Segments, Door!PublicSegments, Door!NewForm
  <2> QED
    BY <1>2, <2>1, <2>4, <2>6, <2>7, <2>8, <2>9, DoorScreens
<1> QED
  BY <1>3, <1>4, <1>5

(* The page is loaded again.                                               *)
LEMMA DoorReloads == ASSUME Door!IInv, Door!Reload PROVE Door!IInv'
<1>1. /\ v3' = FALSE /\ v4' = FALSE /\ v5' = Door!NewQuery /\ v7' = Door!NewForm
      /\ v9' = "none" /\ v10' = FALSE /\ UNCHANGED <<v1, v2, v6>>
      /\ \A k \in Door!Kinds : v8'[k] = Door!NoCall
  BY DEF Door!Reload
<1>2. v8' \in [Door!Kinds -> [step : Door!Steps, mine : BOOLEAN]]
  BY DEF Door!Reload, Door!NoCall, Door!Steps
<1>3. Door!Shaped'
  BY <1>1, <1>2 DEF Door!IInv, Door!Shaped, Door!TypeOK, Door!QueryShape, Door!NewQuery,
     Door!NewForm
<1> QED
  BY <1>1, <1>3 DEF Door!IInv, Door!Handled, Door!Forgot, Door!Knows, Door!FormsComeBack,
     Door!NoCall, Door!NewForm, Door!NewQuery,
                    Door!SavingLogin, Door!Kinds

LEMMA DoorSignsIn ==
  ASSUME Door!IInv, Door!SignInSaved \/ Door!SignedIn
  PROVE  Door!IInv'
<1>1. v8 \in [Door!Kinds -> [step : Door!Steps, mine : BOOLEAN]] /\ "login" \in Door!Kinds
  BY DEF Door!IInv, Door!Shaped, Door!TypeOK, Door!Kinds
<1>2. v3
  BY <1>1, DoorBegun DEF Door!SignInSaved, Door!SignedIn
<1>3. /\ v1 \in BOOLEAN /\ v2 \in BOOLEAN /\ v10 \in BOOLEAN /\ v4 \in BOOLEAN
      /\ v3 \in BOOLEAN /\ v7 \in [error : BOOLEAN, submitting : BOOLEAN, sent : BOOLEAN]
  BY DEF Door!IInv, Door!Shaped, Door!TypeOK
<1>4. CASE Door!SignInSaved
  <2>1. /\ v8' = [v8 EXCEPT !["login"].step = "saved"]
        /\ v8' \in [Door!Kinds -> [step : Door!Steps, mine : BOOLEAN]]
        /\ v8'["login"].step = "saved" /\ v8'["login"].mine = v8["login"].mine
        /\ \A k \in Door!Kinds \ {"login"} : v8'[k] = v8[k]
    BY <1>1, <1>4 DEF Door!SignInSaved, Door!Steps
  <2>2. UNCHANGED <<v1, v3, v4, v5, v6, v7, v9>>
        /\ v2' = TRUE /\ v10' \in BOOLEAN /\ (~v10' => v9 = "none")
    BY <1>3, <1>4 DEF Door!SignInSaved
  <2>3. Door!Shaped'
    BY <1>3, <2>1, <2>2 DEF Door!IInv, Door!Shaped, Door!TypeOK, Door!QueryShape
  <2>4. Door!Handled' /\ Door!FormsComeBack'
    BY <1>1, <1>2, <2>1, <2>2 DEF Door!IInv, Door!Handled, Door!FormsComeBack
  <2>5. Door!SavingLogin'
    BY <2>1 DEF Door!SavingLogin
  <2> QED
    BY <2>2, <2>3, <2>4, <2>5 DEF Door!IInv, Door!Forgot, Door!Knows
<1>5. CASE Door!SignedIn
  <2>1. /\ v8' \in [Door!Kinds -> [step : Door!Steps, mine : BOOLEAN]]
        /\ v8'["login"] = Door!NoCall /\ \A k \in Door!Kinds \ {"login"} : v8'[k] = v8[k]
    BY <1>1, <1>5 DEF Door!SignedIn, Door!NoCall, Door!Steps
  <2>2. UNCHANGED <<v1, v2, v3, v6, v9, v10>> /\ v4' = TRUE
        /\ v5' = [v5 EXCEPT !.data = Door!User, !.error = FALSE, !.stale = FALSE]
    BY <1>5 DEF Door!SignedIn, Door!Written
  <2>3. v7' \in [error : BOOLEAN, submitting : BOOLEAN, sent : BOOLEAN]
        /\ (v7'.submitting => v7.submitting /\ ~v8["login"].mine)
    BY <1>3, <1>5 DEF Door!SignedIn
  <2>4. Door!User.must \in BOOLEAN
    BY <1>3 DEF Door!User
  <2>5. Door!Shaped'
    BY <1>3, <2>1, <2>2, <2>3, <2>4 DEF Door!IInv, Door!Shaped, Door!TypeOK, Door!QueryShape
  <2>6. Door!Handled' /\ Door!FormsComeBack'
    BY <1>1, <1>2, <2>1, <2>2, <2>3 DEF Door!IInv, Door!Handled, Door!FormsComeBack, Door!NoCall
  <2>7. Door!SavingLogin /\ ~Door!SavingLogin'
    BY <1>5, <2>1 DEF Door!SignedIn, Door!SavingLogin, Door!NoCall
  <2> QED
    BY <2>2, <2>5, <2>6, <2>7 DEF Door!IInv, Door!Forgot, Door!Knows
<1> QED
  BY <1>4, <1>5

LEMMA DoorSignsOut ==
  ASSUME Door!IInv, NEW k \in Door!Kinds, Door!SignedOut(k)
  PROVE  Door!IInv'
<1> DEFINE leaves == k = "change" /\ v6 # "login"
<1>1. /\ v8[k].step = "revoked" /\ v2' = FALSE /\ v4' = FALSE /\ v5' = Door!NewQuery
      /\ v10' = (v10 \/ v9 # "none" \/ Door!SavingLogin)
      /\ v6' = IF leaves THEN "login" ELSE v6
      /\ v7' = IF leaves THEN Door!NewForm ELSE v7
      /\ v8' = [j \in Door!Kinds |-> IF j = k THEN Door!NoCall
                                    ELSE [v8[j] EXCEPT !.mine = @ /\ ~leaves]]
      /\ UNCHANGED <<v1, v3, v9>>
  BY DEF Door!SignedOut, Door!Forgotten
<1>2. v8 \in [Door!Kinds -> [step : Door!Steps, mine : BOOLEAN]] /\ v3
  BY <1>1, DoorBegun DEF Door!IInv, Door!Shaped, Door!TypeOK
<1>3. \A j \in Door!Kinds \ {k} :
        /\ v8'[j] = [step |-> v8[j].step, mine |-> v8'[j].mine]
        /\ v8'[j].step = v8[j].step /\ v8'[j].mine \in BOOLEAN
        /\ v8'[j].mine <=> v8[j].mine /\ ~leaves
  BY <1>1, <1>2
<1>4. v8' = [j \in Door!Kinds |-> v8'[j]] /\ v8'[k] = Door!NoCall
  BY <1>1
<1>5. v8' \in [Door!Kinds -> [step : Door!Steps, mine : BOOLEAN]]
  <2>1. Door!NoCall \in [step : Door!Steps, mine : BOOLEAN]
    BY DEF Door!NoCall, Door!Steps
  <2>2. \A j \in Door!Kinds : v8'[j] \in [step : Door!Steps, mine : BOOLEAN]
    BY <1>2, <1>3, <1>4, <2>1
  <2> QED
    BY <1>4, <2>2
<1>6. Door!Shaped'
  <2>1. /\ v1' \in BOOLEAN /\ v3' \in BOOLEAN /\ v9' \in {"none", "sent", "cleared"}
        /\ v6' \in Door!Segments /\ v7' \in [error : BOOLEAN, submitting : BOOLEAN, sent : BOOLEAN]
    BY <1>1 DEF Door!IInv, Door!Shaped, Door!TypeOK, Door!NewForm, Door!Segments,
       Door!PublicSegments
  <2>2. v10' \in BOOLEAN
    BY <1>1 DEF Door!IInv, Door!Shaped, Door!TypeOK
  <2> QED
    BY <1>1, <1>5, <2>1, <2>2 DEF Door!Shaped, Door!TypeOK, Door!QueryShape, Door!NewQuery
<1>7. Door!Handled'
  <2>1. \A j \in Door!Kinds : v8'[j].mine => j # k /\ v8[j].mine /\ ~leaves
    BY <1>3, <1>4 DEF Door!NoCall
  <2>2. \A j \in Door!Kinds : v8'[j].step \in {v8[j].step, "none"}
    BY <1>3, <1>4 DEF Door!NoCall
  <2> QED
    BY <1>1, <1>2, <2>1, <2>2 DEF Door!IInv, Door!Handled
<1>8. Door!FormsComeBack'
  <2>1. CASE v7'.submitting
    <3>1. ~leaves /\ v7.submitting
      BY <1>1, <2>1 DEF Door!NewForm
    <3>2. PICK j \in Door!Kinds : v8[j].step # "none" /\ v8[j].mine
      BY <3>1 DEF Door!IInv, Door!FormsComeBack
    <3>3. j # k
      <4>1. CASE k \in {"change", "signout"}
        BY <3>1, <3>2, <4>1 DEF Door!IInv, Door!Handled, Door!ScreenOf
      <4>2. k \in {"change", "signout"}
        BY <1>1 DEF Door!IInv, Door!Handled
      <4> QED
        BY <4>1, <4>2
    <3> QED
      BY <1>3, <3>1, <3>2, <3>3 DEF Door!FormsComeBack
  <2> QED
    BY <2>1 DEF Door!FormsComeBack
<1>9. Door!Forgot'
  BY <1>1 DEF Door!Forgot, Door!NewQuery
<1>10. Door!Knows'
  <2>1. ~v10' => v9 = "none" /\ ~Door!SavingLogin
    BY <1>1
  <2>2. Door!SavingLogin' => Door!SavingLogin
    <3>1. CASE k = "login"
      BY <1>4, <3>1 DEF Door!SavingLogin, Door!NoCall
    <3>2. CASE k # "login"
      BY <1>3, <3>2 DEF Door!SavingLogin, Door!Kinds
    <3> QED
      BY <3>1, <3>2
  <2> QED
    BY <1>1, <2>1, <2>2 DEF Door!Knows
<1> QED
  BY <1>6, <1>7, <1>8, <1>9, <1>10 DEF Door!IInv

LEMMA DoorInductive ==
  ASSUME Door!IInv, [Door!Next]_Door!vars
  PROVE  Door!IInv'
BY DoorStill, DoorProvider, DoorMoves, DoorPresses, DoorHandles, DoorAnswers, DoorReloads,
   DoorSignsIn, DoorSignsOut DEF Door!Next

LEMMA DoorMeans ==
  Door!IInv => Door!GateSettles /\ Door!SignedOutStaysOut /\ Door!ScreensKnowSession
        /\ Door!FormsComeBack
<1>1. Door!GateSettles
  BY DEF Door!GateSettles, Door!ResolveRedirect, Door!PublicSegments
<1>2. Door!IInv => Door!ScreensKnowSession
  BY DEF Door!IInv, Door!Knows, Door!ScreensKnowSession, Door!Shaped, Door!TypeOK
<1> QED
  BY <1>1, <1>2 DEF Door!IInv, Door!Forgot, Door!SignedOutStaysOut

-----------------------------------------------------------------------------
(* The reports: ReportsScreen.tla, whose tab, date, text, month, today,    *)
(* drawn, answer, kept, pdf, file and pressed are v1 to v11 here. The      *)
(* fields say the dates that are asked for, and the answer kept is the one *)
(* to them.                                                                *)

LEMMA AskingFields ==
  ASSUME Asking!ReportsScreenAssumption, NEW d \in Nat
  PROVE  Asking!ValueOf(d) = d
BY DEF Asking!ReportsScreenAssumption, Asking!ValueOf, Asking!Parsed

LEMMA AskingFollows ==
  ASSUME Asking!ReportsScreenAssumption, NEW typed \in Int, NEW old, NEW d \in Nat,
         d = Asking!ValueOf(typed) \/ (d = old => Asking!ValueOf(typed) = d)
  PROVE  Asking!ValueOf(Asking!Followed(typed, old, d)) = d
        /\ Asking!Followed(typed, old, d) \in Int
<1>1. Asking!Followed(typed, old, d) \in {typed, d}
  BY DEF Asking!Followed, Asking!Formatted
<1>2. CASE Asking!Followed(typed, old, d) = d
  BY <1>2, AskingFields
<1>3. CASE Asking!Followed(typed, old, d) # d
  <2>1. Asking!Followed(typed, old, d) = typed /\ (d = old \/ Asking!Parsed(typed) = d)
    BY <1>3 DEF Asking!Followed, Asking!Formatted
  <2>2. Asking!ValueOf(typed) = d
    BY <2>1 DEF Asking!ValueOf, Asking!Parsed, Asking!ReportsScreenAssumption
  <2> QED
    BY <2>1, <2>2
<1> QED
  BY <1>2, <1>3

LEMMA AskingInit ==
  ASSUME Asking!ReportsScreenAssumption, Asking!Init
  PROVE  Asking!IInv
<1>1. v2 \in [Asking!Fields -> Nat] /\ MonthStart \in Nat /\ Today \in Nat
  BY DEF Asking!ReportsScreenAssumption, Asking!Init
<1>2. \A f \in Asking!Fields : v3[f] = v2[f]
  BY DEF Asking!Init, Asking!Formatted
<1>3. Asking!FieldsSayDates
  BY <1>1, <1>2, AskingFields DEF Asking!FieldsSayDates
<1>4. v3 \in [Asking!Fields -> Int]
  BY <1>1 DEF Asking!Init, Asking!Formatted
<1> QED
  BY <1>1, <1>3, <1>4 DEF Asking!Init, Asking!IInv, Asking!Dated, Asking!Tabs, Asking!FileAsAsked

(* A render keeps the report what it says.                                 *)
LEMMA AskingRenders ==
  ASSUME Asking!IInv, Asking!Rendered, UNCHANGED <<v1, v5>>
  PROVE  /\ v7' \in {"awaited", "here", "failed"} /\ v6' = v5'
         /\ v7' = "here" => v8' = Asking!KeyOf(v1)' /\ ~Asking!Refused(v1, Asking!KeyOf(v1))'
<1>1. CASE Asking!KeyOf(v1)' # Asking!KeyOf(v1)
  <2>1. PICK a \in {"awaited", "here"} : Asking!Drawn(v1, Asking!KeyOf(v1)', a, v8)
    BY <1>1 DEF Asking!Rendered
  <2> QED
    BY <2>1 DEF Asking!Drawn, Asking!Refused, Asking!Served
<1>2. CASE Asking!KeyOf(v1)' = Asking!KeyOf(v1)
  <2>1. Asking!Drawn(v1, Asking!KeyOf(v1), v7, v8)
    BY <1>2 DEF Asking!Rendered
  <2> QED
    BY <1>2, <2>1 DEF Asking!Drawn, Asking!Refused, Asking!Served, Asking!IInv
<1> QED
  BY <1>1, <1>2

LEMMA AskingTypes ==
  ASSUME Asking!ReportsScreenAssumption, Asking!IInv, NEW f \in Asking!Fields,
         NEW typed \in TypedDays, Asking!Type(f, typed)
  PROVE  Asking!IInv'
<1>1. /\ v2' = [v2 EXCEPT ![f] = Asking!ValueOf(typed)] /\ v1 = "activities"
      /\ v3' = [v3 EXCEPT ![f] = Asking!Followed(typed, v2[f], Asking!ValueOf(typed))]
      /\ v11' = 0 /\ UNCHANGED <<v1, v4, v5, v9>> /\ v10' = Unset /\ Asking!Rendered
  BY DEF Asking!Type
<1>2. typed \in Int /\ Asking!ValueOf(typed) \in Nat
  BY DEF Asking!ReportsScreenAssumption, Asking!Unfinished, Asking!ValueOf, Asking!Parsed
<1>3. /\ Asking!ValueOf(Asking!Followed(typed, v2[f],
                                        Asking!ValueOf(typed))) = Asking!ValueOf(typed)
      /\ Asking!Followed(typed, v2[f], Asking!ValueOf(typed)) \in Int
  BY <1>2, AskingFollows
<1>4. v2' \in [Asking!Fields -> Nat] /\ v3' \in [Asking!Fields -> Int]
  BY <1>1, <1>2, <1>3 DEF Asking!IInv, Asking!Dated
<1>5. Asking!FieldsSayDates'
  BY <1>1, <1>3 DEF Asking!IInv, Asking!Dated, Asking!FieldsSayDates
<1>6. Asking!Dated'
  BY <1>1, <1>4, AskingRenders DEF Asking!IInv, Asking!Dated
<1> QED
  BY <1>1, <1>5, <1>6, AskingRenders DEF Asking!IInv, Asking!AsSaid, Asking!Served,
     Asking!FileAsAsked

LEMMA AskingShortens ==
  ASSUME Asking!ReportsScreenAssumption, Asking!IInv, NEW days \in LastDays, Asking!Shortcut(days)
  PROVE  Asking!IInv'
<1>1. /\ v2' = [f \in Asking!Fields |-> IF f = "start" THEN Asking!IsoDaysAgo(days, v6) ELSE v5]
      /\ v3' = [f \in Asking!Fields |-> Asking!Followed(v3[f], v2[f], v2'[f])]
      /\ v11' = IF v6 = v5 THEN days ELSE 0
      /\ v1 = "activities" /\ UNCHANGED <<v1, v4, v5, v9>> /\ v10' = Unset /\ Asking!Rendered
  BY DEF Asking!Shortcut
<1>2. days \in Nat \ {0} /\ days <= Today /\ Today \in Nat
  BY DEF Asking!ReportsScreenAssumption
<1>3. v5 \in Nat /\ v6 \in Nat /\ v6 >= days
  BY <1>2 DEF Asking!IInv, Asking!Dated
<1>4. Asking!IsoDaysAgo(days, v6) \in Nat
  BY <1>2, <1>3 DEF Asking!IsoDaysAgo
<1>5. v2' \in [Asking!Fields -> Nat]
  BY <1>1, <1>3, <1>4
<1>6. \A f \in Asking!Fields : Asking!ValueOf(v3'[f]) = v2'[f] /\ v3'[f] \in Int
  <2>1. ASSUME NEW f \in Asking!Fields
        PROVE  Asking!ValueOf(v3'[f]) = v2'[f] /\ v3'[f] \in Int
    <3>1. v3'[f] = Asking!Followed(v3[f], v2[f], v2'[f]) /\ v3[f] \in Int
          /\ v2'[f] \in Nat /\ Asking!ValueOf(v3[f]) = v2[f]
      BY <1>1, <1>5 DEF Asking!IInv, Asking!Dated, Asking!FieldsSayDates
    <3> QED
      BY <3>1, AskingFollows
  <2> QED
    BY <2>1
<1>7. Asking!FieldsSayDates' /\ v3' \in [Asking!Fields -> Int]
  BY <1>1, <1>6 DEF Asking!FieldsSayDates
<1>8. Asking!Dated'
  BY <1>1, <1>5, <1>7, AskingRenders DEF Asking!IInv, Asking!Dated
<1>9. v11' # 0 => v11' \in LastDays /\ v2'["end"] - v2'["start"] = v11' - 1
  <2>1. CASE v6 = v5
    BY <1>1, <1>2, <1>3, <2>1 DEF Asking!IsoDaysAgo, Asking!Fields
  <2> QED
    BY <1>1, <2>1
<1> QED
  BY <1>1, <1>7, <1>8, <1>9, AskingRenders DEF Asking!IInv, Asking!AsSaid, Asking!Served,
     Asking!FileAsAsked

LEMMA AskingChooses ==
  ASSUME Asking!ReportsScreenAssumption, Asking!IInv, NEW m \in ReportMonths, Asking!ChooseMonth(m)
  PROVE  Asking!IInv'
<1>1. UNCHANGED <<v1, v2, v3, v5, v9, v11>> /\ v10' = Unset /\ Asking!Rendered
  BY DEF Asking!ChooseMonth
<1>2. Asking!Dated' /\ Asking!FieldsSayDates'
  BY <1>1, AskingRenders DEF Asking!IInv, Asking!Dated, Asking!FieldsSayDates
<1> QED
  BY <1>1, <1>2, AskingRenders DEF Asking!IInv, Asking!AsSaid, Asking!Served, Asking!FileAsAsked

LEMMA AskingTurns ==
  ASSUME Asking!ReportsScreenAssumption, Asking!IInv, NEW t \in Asking!Tabs, Asking!SetTab(t)
  PROVE  Asking!IInv'
<1>1. /\ v1' = t /\ v10' = Unset /\ UNCHANGED <<v2, v4, v5, v9, v11>>
      /\ v3' = [f \in Asking!Fields |-> IF t = "activities" THEN Asking!Formatted(v2[f]) ELSE v3[f]]
  BY DEF Asking!SetTab
<1>2. PICK a \in {"awaited", "here"} : Asking!Drawn(t, Asking!KeyOf(t), a, Unset)
  BY DEF Asking!SetTab
<1>3. v3' \in [Asking!Fields -> Int] /\ Asking!FieldsSayDates'
  BY <1>1, AskingFields DEF Asking!IInv, Asking!Dated, Asking!FieldsSayDates, Asking!Formatted
<1>4. Asking!Dated' /\ v7' = a
  BY <1>1, <1>2, <1>3 DEF Asking!IInv, Asking!Dated, Asking!Drawn
<1>5. v7' = "here" => v8' = Asking!KeyOf(v1)' /\ ~Asking!Refused(v1, Asking!KeyOf(v1))'
  BY <1>1, <1>2 DEF Asking!Drawn, Asking!KeyOf, Asking!Refused, Asking!Served
<1> QED
  BY <1>1, <1>3, <1>4, <1>5 DEF Asking!IInv, Asking!AsSaid, Asking!Served, Asking!FileAsAsked

LEMMA AskingReads ==
  ASSUME Asking!ReportsScreenAssumption, Asking!IInv, Asking!Arrive \/ Asking!Retry
  PROVE  Asking!IInv'
<1>1. v10' = Unset /\ UNCHANGED <<v1, v2, v3, v4, v5, v9, v11>>
  BY DEF Asking!Arrive, Asking!Retry
<1>2. PICK a \in {"awaited", "here", "failed"} : Asking!Drawn(v1, Asking!KeyOf(v1), a, v8)
  BY DEF Asking!Arrive, Asking!Retry
<1>3. v7' = a /\ Asking!Dated' /\ Asking!FieldsSayDates'
  BY <1>1, <1>2 DEF Asking!IInv, Asking!Dated, Asking!FieldsSayDates, Asking!Drawn
<1>4. v7' = "here" => v8' = Asking!KeyOf(v1)' /\ ~Asking!Refused(v1, Asking!KeyOf(v1))'
  BY <1>1, <1>2 DEF Asking!Drawn, Asking!KeyOf, Asking!Refused, Asking!Served
<1> QED
  BY <1>1, <1>3, <1>4 DEF Asking!IInv, Asking!AsSaid, Asking!Served, Asking!FileAsAsked

(* The file that is saved is of the days asked for at the press.           *)
LEMMA AskingSaves ==
  ASSUME Asking!ReportsScreenAssumption, Asking!IInv,
         Asking!DownloadPdf \/ Asking!PdfSaved \/ Asking!PdfFailed
  PROVE  Asking!IInv'
<1>1. UNCHANGED <<v1, v2, v3, v4, v5, v7, v8, v11>> /\ v6' = v5
  BY DEF Asking!DownloadPdf, Asking!PdfSaved, Asking!PdfFailed
<1>2. Asking!Dated' /\ Asking!FieldsSayDates'
  BY <1>1 DEF Asking!IInv, Asking!Dated, Asking!FieldsSayDates
<1>3. v7' = "here" => v8' = Asking!KeyOf(v1)' /\ ~Asking!Refused(v1, Asking!KeyOf(v1))'
  BY <1>1 DEF Asking!IInv, Asking!KeyOf, Asking!Refused, Asking!Served
<1>4. CASE Asking!DownloadPdf
  <2> DEFINE key == Asking!KeyOf(v1)
  <2>1. v9' = [source |-> v1, params |-> key, fallbackName |-> key, said |-> Asking!Served(v1, key)]
        /\ v10' = Unset
    BY <1>4 DEF Asking!DownloadPdf
  <2>2. \/ v1 = "activities" /\ key = <<key[1], key[2]>>
        \/ v1 = "services" /\ key = <<key[1]>>
    BY DEF Asking!KeyOf, Asking!IInv, Asking!Dated, Asking!Tabs
  <2>3. Asking!Served(v1, key)' = Asking!Served(v1, key)
    BY <1>1 DEF Asking!Served, Asking!KeyOf
  <2> HIDE DEF key
  <2>4. Asking!AsSaid(v9')
    BY <2>1, <2>2 DEF Asking!AsSaid, Asking!IInv, Asking!Dated
  <2>5. Asking!AsSaid(v9)'
    BY <1>1, <2>4 DEF Asking!AsSaid, Asking!Served
  <2> QED
    BY <1>1, <1>2, <1>3, <2>1, <2>5 DEF Asking!IInv, Asking!FileAsAsked
<1>5. CASE Asking!PdfFailed
  BY <1>1, <1>2, <1>3, <1>5 DEF Asking!PdfFailed, Asking!IInv, Asking!FileAsAsked
<1>6. CASE Asking!PdfSaved
  <2> DEFINE days == Asking!Served(v9.source, v9.params)
  <2>1. PICK name \in {days, v9.fallbackName} :
               v10' = [source |-> v9.source, days |-> days, name |-> name, said |-> v9.said]
    BY <1>6 DEF Asking!PdfSaved, Asking!Asked
  <2>2. Asking!AsSaid(v9) /\ v9' = Unset
    BY <1>6 DEF Asking!PdfSaved, Asking!IInv
  <2>3. days = v9.said \/ v5' # Today
    BY <1>1, <2>2 DEF Asking!AsSaid
  <2>4. \A i \in DOMAIN name : name[i] \in {0, days[i]}
    <3>1. CASE v9.source = "activities"
      BY <2>1, <2>2, <3>1 DEF Asking!AsSaid, Asking!Served
    <3>2. CASE v9.source = "services"
      BY <2>1, <2>2, <3>2 DEF Asking!AsSaid, Asking!Served
    <3> QED
      BY <2>2, <3>1, <3>2 DEF Asking!AsSaid
  <2> HIDE DEF days
  <2>5. Asking!FileAsAsked'
    BY <2>1, <2>3, <2>4 DEF Asking!FileAsAsked
  <2> QED
    BY <1>1, <1>2, <1>3, <2>2, <2>5 DEF Asking!IInv
<1> QED
  BY <1>4, <1>5, <1>6

LEMMA AskingMidnight ==
  ASSUME Asking!ReportsScreenAssumption, Asking!IInv, Asking!NextDay
  PROVE  Asking!IInv'
<1>1. /\ v5 = Today /\ v5' = Today + 1 /\ v10' = Unset
      /\ UNCHANGED <<v1, v2, v3, v4, v6, v7, v8, v9, v11>>
  BY DEF Asking!NextDay
<1>2. Asking!Dated' /\ Asking!FieldsSayDates' /\ Today \in Nat
  BY <1>1 DEF Asking!IInv, Asking!Dated, Asking!FieldsSayDates, Asking!ReportsScreenAssumption
<1>3. v7' = "here" => v8' = Asking!KeyOf(v1)' /\ ~Asking!Refused(v1, Asking!KeyOf(v1))'
  BY <1>1, <1>2 DEF Asking!IInv, Asking!Dated, Asking!KeyOf, Asking!Refused, Asking!Served,
     Asking!ReportsScreenAssumption, Asking!Fields
<1>4. v5' # Today
  BY <1>1, <1>2
<1> QED
  BY <1>1, <1>2, <1>3, <1>4 DEF Asking!IInv, Asking!AsSaid, Asking!FileAsAsked

LEMMA AskingInductive ==
  ASSUME Asking!ReportsScreenAssumption, Asking!IInv, [Asking!Next]_Asking!vars
  PROVE  Asking!IInv'
<1>1. CASE UNCHANGED Asking!vars
  BY <1>1 DEF Asking!vars, Asking!IInv, Asking!Dated, Asking!FieldsSayDates, Asking!KeyOf,
     Asking!Refused, Asking!Served, Asking!AsSaid, Asking!FileAsAsked
<1> QED
  BY <1>1, AskingTypes, AskingShortens, AskingChooses, AskingTurns, AskingReads, AskingSaves,
     AskingMidnight DEF Asking!Next

LEMMA AskingMeans ==
  ASSUME Asking!ReportsScreenAssumption, Asking!IInv
  PROVE  Asking!FieldsSayDates /\ Asking!ReportOfFields /\ Asking!ShortcutsSpan
        /\ Asking!FileAsAsked
<1>1. Asking!ReportOfFields
  <2>1. CASE v7 = "failed"
    BY <2>1 DEF Asking!ReportOfFields, Asking!View, Asking!ActivityReportView,
       Asking!ServicesReportView
  <2>2. CASE v7 = "here"
    <3>1. v8 = Asking!KeyOf(v1) /\ ~Asking!Refused(v1, Asking!KeyOf(v1)) /\ v1 \in Asking!Tabs
      BY <2>2 DEF Asking!IInv, Asking!Dated
    <3>2. Asking!View.days \in {Unset, Asking!Served(v1, Asking!KeyOf(v1))}
      BY <2>2, <3>1 DEF Asking!View, Asking!ActivityReportView, Asking!ServicesReportView,
         Asking!Shown, Asking!Tabs
    <3> QED
      BY <3>1, <3>2 DEF Asking!ReportOfFields
  <2> QED
    BY <2>1, <2>2 DEF Asking!IInv, Asking!ReportOfFields
<1>2. Asking!ShortcutsSpan
  <2> SUFFICES ASSUME v11 # 0
               PROVE  /\ v2["end"] - v2["start"] = v11 - 1
                      /\ v6 = v2["end"] => {days \in LastDays : Asking!Selected(days)} = {v11}
    BY DEF Asking!ShortcutsSpan
  <2>1. /\ v2["end"] - v2["start"] = v11 - 1 /\ v11 \in LastDays
        /\ v2 \in [Asking!Fields -> Nat]
    BY DEF Asking!IInv, Asking!Dated
  <2>2. ASSUME v6 = v2["end"], NEW days \in LastDays
        PROVE  Asking!Selected(days) <=> days = v11
    BY <2>1, <2>2 DEF Asking!Selected, Asking!IsoDaysAgo, Asking!Fields,
       Asking!ReportsScreenAssumption
  <2> QED
    BY <2>1, <2>2
<1> QED
  BY <1>1, <1>2 DEF Asking!IInv

-----------------------------------------------------------------------------
(* The parameters of the company: ParametersScreen.tla, whose server,      *)
(* cache, header, mounted, form, preview, confirm, save, upload, removal,  *)
(* others, behind, crossed and outdated are v1 to v14 here. Whatever the   *)
(* screen does not show yet is stale, being fetched, or in an answer still *)
(* to be heard.                                                            *)

LEMMA CompanyInit ==
  ASSUME Company!ParametersScreenAssumption, Company!Init
  PROVE  Company!IInv
BY DEF Company!ParametersScreenAssumption, Company!Init, Company!IInv, Company!Shaped,
   Company!Typing, Company!Titled, Company!Told, Company!Previewed, Company!Heard,
       Company!NewQuery, Company!Asked, Company!NewCall, Company!QueryShape, Company!CallShape,
          Company!Pending, Company!UnderWay, Company!Copies

(* The form and the preview are filled once, or left as they are.          *)
LEMMA CompanyFills ==
  ASSUME Company!ParametersScreenAssumption, Company!IInv, NEW q,
         q.data \in Company!Copies \cup {Unset},
         Company!Filled(q) \/ UNCHANGED <<v5, v6, v12>>,
         UNCHANGED <<v1, v9, v10, v13>>
  PROVE  /\ v5' \in FieldTexts \cup {Unset} /\ v6' \in BOOLEAN /\ v12' \in BOOLEAN
         /\ v5 # Unset => v5' = v5
         /\ Company!Filled(q) /\ q.data # Unset => v5' # Unset
         /\ Company!Told' /\ Company!Previewed'
<1>1. CASE UNCHANGED <<v5, v6, v12>>
  <2>1. v5' \in FieldTexts \cup {Unset} /\ v6' \in BOOLEAN /\ v12' \in BOOLEAN
    BY <1>1 DEF Company!IInv, Company!Shaped
  <2>2. Company!Filled(q) /\ q.data # Unset => v5' # Unset
    <3>1. CASE v5 = Unset /\ q.data # Unset
      <4>1. Company!Filled(q) => v5' = q.data.fields
        BY <3>1 DEF Company!Filled
      <4>2. q.data.fields \in FieldTexts
        BY <3>1 DEF Company!Copies
      <4> QED
        BY <4>1, <4>2 DEF Company!ParametersScreenAssumption
    <3> QED
      BY <1>1, <3>1
  <2> QED
    BY <1>1, <2>1, <2>2 DEF Company!IInv, Company!Told, Company!Previewed, Company!Heard,
       Company!UnderWay
<1>2. CASE v5 = Unset /\ q.data # Unset /\ Company!Filled(q)
  <2>1. /\ v5' = q.data.fields /\ v6' = q.data.logo
        /\ v12' = (v12 \/ q.data.logo # v1.logo)
    BY <1>2 DEF Company!Filled
  <2>2. q.data \in Company!Copies /\ v1 \in Company!Copies
    BY <1>2 DEF Company!IInv, Company!Shaped
  <2>3. v12' \in BOOLEAN /\ (~v12' => ~v12 /\ q.data.logo = v1.logo)
    BY <2>1, <2>2 DEF Company!IInv, Company!Shaped
  <2>4. v6' \in BOOLEAN /\ v5' \in FieldTexts /\ (~v12' => v6' = v1.logo)
    BY <2>1, <2>2, <2>3 DEF Company!Copies, Company!ParametersScreenAssumption
  <2>5. Company!Told'
    BY <2>3 DEF Company!IInv, Company!Told, Company!Heard, Company!UnderWay
  <2>6. Company!Previewed'
    BY <2>2, <2>4 DEF Company!Previewed, Company!Copies
  <2> QED
    BY <1>2, <2>3, <2>4, <2>5, <2>6 DEF Company!ParametersScreenAssumption
<1> QED
  BY <1>1, <1>2 DEF Company!Filled

(* Reads change neither the server nor a call.                             *)
LEMMA CompanyShows ==
  ASSUME Company!ParametersScreenAssumption, Company!IInv, Company!Enter \/ Company!Take
  PROVE  Company!IInv'
<1>1. /\ UNCHANGED <<v1, v3, v7, v8, v9, v10, v11, v13, v14>>
      /\ (v4 => v4') /\ v4' \in BOOLEAN
  BY DEF Company!Enter, Company!Take, Company!calls, Company!IInv, Company!Shaped
<1>2. Company!QueryShape(v2)' /\ (v2.data \in Company!Copies \cup {Unset})'
      /\ (v2.fetch = "answered" => v2.got \in Company!Copies \cup {Failure})'
  <2>1. CASE Company!Take
    BY <2>1 DEF Company!Take, Company!Taken, Company!IInv, Company!Shaped, Company!QueryShape
  <2>2. CASE Company!Enter
    BY ZenonT(60), <2>2 DEF Company!Enter, Company!Opened, Company!Asked, Company!IInv, Company!Shaped,
       Company!QueryShape
  <2> QED
    BY <2>1, <2>2
<1>3. PICK q \in {v2, Company!Taken(v2)} :
        /\ q.data \in Company!Copies \cup {Unset}
        /\ Company!Filled(q) \/ UNCHANGED <<v5, v6, v12>>
        /\ v4' => Company!Filled(q) /\ v2'.data = q.data
  <2>1. CASE Company!Take
    <3>1. Company!Taken(v2).data \in Company!Copies \cup {Unset}
      BY <2>1 DEF Company!Take, Company!Taken, Company!IInv, Company!Shaped, Company!QueryShape
    <3> QED
      BY <2>1, <3>1 DEF Company!Take
  <2>2. CASE Company!Enter
    <3>1. v2'.data = v2.data
      BY <2>2 DEF Company!Enter, Company!Opened, Company!Asked, Company!IInv, Company!Shaped,
         Company!QueryShape
    <3> QED
      BY <2>2, <3>1 DEF Company!Enter, Company!IInv, Company!Shaped
  <2> QED
    BY <2>1, <2>2
<1>4. /\ v5' \in FieldTexts \cup {Unset} /\ v6' \in BOOLEAN /\ v12' \in BOOLEAN
      /\ v5 # Unset => v5' = v5
      /\ v4' /\ v2'.data # Unset => v5' # Unset
      /\ Company!Told' /\ Company!Previewed'
  BY <1>1, <1>3, CompanyFills
<1>5. Company!Shaped'
  BY <1>1, <1>2, <1>4 DEF Company!IInv, Company!Shaped, Company!QueryShape, Company!CallShape,
     Company!UnderWay
<1>6. Company!Typing'
  BY <1>1, <1>4 DEF Company!IInv, Company!Shaped, Company!Typing, Company!Pending, Company!UnderWay,
     Company!ParametersScreenAssumption
<1>7. Company!Titled'
  BY <1>1 DEF Company!IInv, Company!Titled
<1> QED
  BY <1>4, <1>5, <1>6, <1>7 DEF Company!IInv

LEMMA CompanyLeaves ==
  ASSUME Company!IInv, Company!Leave
  PROVE  Company!IInv'
<1>1. /\ UNCHANGED <<v1, v2, v3, v11, v14>> /\ v4' = FALSE
      /\ v5' = Unset /\ v6' = FALSE /\ v7' = FALSE /\ v12' = FALSE /\ v13' = FALSE
      /\ v8' = [v8 EXCEPT !.mine = FALSE] /\ v9' = [v9 EXCEPT !.mine = FALSE]
      /\ v10' = [v10 EXCEPT !.mine = FALSE]
  BY DEF Company!Leave
<1>2. Company!CallShape(v8)' /\ Company!CallShape(v9)' /\ Company!CallShape(v10)'
      /\ v8'.pc = v8.pc /\ v8'.arg = v8.arg /\ v8'.ok = v8.ok /\ v8'.got = v8.got
      /\ ~v8'.mine /\ ~v9'.mine /\ ~v10'.mine
  BY <1>1 DEF Company!IInv, Company!Shaped, Company!CallShape
<1>3. Company!Shaped'
  BY ZenonT(60), <1>1, <1>2 DEF Company!IInv, Company!Shaped, Company!QueryShape, Company!UnderWay
<1>4. Company!Titled'
  BY <1>1, <1>2 DEF Company!IInv, Company!Titled
<1>5. Company!Typing' /\ Company!Told' /\ Company!Previewed'
  BY <1>1, <1>2 DEF Company!Typing, Company!Told, Company!Previewed, Company!Heard, Company!Pending,
     Company!UnderWay
<1> QED
  BY <1>3, <1>4, <1>5 DEF Company!IInv

(* Fetches, but for what the screen takes of them.                         *)
LEMMA CompanyFetches ==
  ASSUME Company!IInv, Company!Serve \/ Company!Retry \/ Company!ServeTitle \/ Company!TakeTitle
  PROVE  Company!IInv'
<1>1. UNCHANGED <<v1, v4, v5, v6, v7, v8, v9, v10,
                  v11, v12, v13, v14>>
  BY DEF Company!Serve, Company!Retry, Company!ServeTitle, Company!TakeTitle, Company!screen,
     Company!calls, Company!history
<1>2. Company!Typing' /\ Company!Told' /\ Company!Previewed'
  <2>1. v2'.data = v2.data
    BY DEF Company!Serve, Company!Retry, Company!ServeTitle, Company!TakeTitle,
       Company!AnsweredWith, Company!Asked, Company!IInv, Company!Shaped, Company!QueryShape
  <2> QED
    BY <1>1, <2>1 DEF Company!IInv, Company!Typing, Company!Told, Company!Previewed, Company!Heard,
       Company!Pending, Company!UnderWay
<1>3. CASE Company!Serve \/ Company!Retry
  <2>1. UNCHANGED v3 /\ Company!QueryShape(v2)' /\ (v2.data \in Company!Copies \cup {Unset})'
        /\ (v2.fetch = "answered" => v2.got \in Company!Copies \cup {Failure})'
    BY <1>3 DEF Company!Serve, Company!Retry, Company!AnsweredWith, Company!Asked, Company!IInv,
       Company!Shaped, Company!QueryShape
  <2>2. Company!Shaped'
    BY <1>1, <2>1 DEF Company!IInv, Company!Shaped, Company!QueryShape, Company!CallShape,
       Company!UnderWay
  <2>3. Company!Titled'
    BY <1>1, <2>1 DEF Company!IInv, Company!Titled
  <2> QED
    BY <1>2, <2>2, <2>3 DEF Company!IInv
<1>4. CASE Company!ServeTitle \/ Company!TakeTitle
  <2>1. UNCHANGED v2 /\ Company!QueryShape(v3)'
        /\ (v3.data \in (FieldTexts \ BadTexts) \cup {Unset})'
        /\ (v3.fetch = "answered" => v3.got \in (FieldTexts \ BadTexts) \cup {Failure})'
    BY ZenonT(60), <1>4 DEF Company!ServeTitle, Company!TakeTitle, Company!AnsweredWith, Company!Taken,
       Company!IInv, Company!Shaped, Company!QueryShape, Company!Copies
  <2>2. Company!Shaped'
    BY <1>1, <2>1 DEF Company!IInv, Company!Shaped, Company!QueryShape, Company!CallShape,
       Company!UnderWay
  <2>3. Company!Titled'
    BY <1>1, <1>4 DEF Company!ServeTitle, Company!TakeTitle, Company!AnsweredWith, Company!Taken,
       Company!IInv, Company!Shaped, Company!QueryShape, Company!Titled
  <2> QED
    BY <1>2, <2>2, <2>3 DEF Company!IInv
<1> QED
  BY <1>3, <1>4

(* The fields: what is typed, and what is sent.                            *)
LEMMA CompanyTypes ==
  ASSUME Company!ParametersScreenAssumption, Company!IInv,
         Company!HandleSave \/ \E f \in FieldTexts : Company!Type(f)
  PROVE  Company!IInv'
<1>1. UNCHANGED <<v1, v2, v3, v4, v6, v7, v9, v10,
                  v11, v12, v13, v14>>
  BY DEF Company!Type, Company!HandleSave, Company!screen, Company!calls, Company!history
<1>2. Company!Told'
  BY <1>1 DEF Company!IInv, Company!Told, Company!Heard, Company!UnderWay
<1>3. ASSUME NEW f \in FieldTexts, Company!Type(f)
      PROVE  Company!IInv'
  <2>1. UNCHANGED v8
    BY <1>3 DEF Company!Type, Company!calls
  <2>2. Company!Shaped' /\ Company!Titled'
    BY <1>1, <2>1, <1>3 DEF Company!Type, Company!calls, Company!IInv, Company!Shaped,
       Company!QueryShape, Company!CallShape, Company!UnderWay, Company!Titled
  <2>3. Company!Typing'
    BY <1>1, <1>3 DEF Company!Type, Company!calls, Company!Typing, Company!Pending,
       Company!UnderWay, Company!ParametersScreenAssumption
  <2>4. Company!Previewed'
    BY <1>1, <1>3 DEF Company!Type, Company!calls, Company!Showing, Company!IInv, Company!Typing,
       Company!Previewed, Company!Heard
  <2> QED
    BY <1>2, <2>2, <2>3, <2>4 DEF Company!IInv
<1>4. CASE Company!HandleSave
  <2>1. /\ v8' = [pc |-> "sent", arg |-> v5, ok |-> FALSE, got |-> Unset, mine |-> TRUE]
        /\ v4 /\ v5 \in FieldTexts \ BadTexts /\ UNCHANGED v5 /\ v8.pc = "idle"
    BY <1>4 DEF Company!HandleSave, Company!Showing, Company!Fresh, Company!NewCall, Company!Call, Company!screen
  <2>2. Company!Shaped'
    BY <1>1, <2>1 DEF Company!IInv, Company!Shaped, Company!QueryShape, Company!CallShape,
       Company!UnderWay
  <2>3. Company!Typing' /\ Company!Titled' /\ Company!Previewed'
    BY <1>1, <2>1 DEF Company!IInv, Company!Typing, Company!Titled, Company!Previewed,
       Company!Heard, Company!Pending
  <2> QED
    BY <1>2, <2>2, <2>3 DEF Company!IInv
<1> QED
  BY <1>3, <1>4

LEMMA CompanyAnswers ==
  ASSUME Company!IInv, Company!AcceptSave \/ Company!RefuseSave
  PROVE  Company!IInv'
<1> DEFINE Answered(heard, got) ==
        /\ v8.pc = "sent" /\ v8' = [v8 EXCEPT !.pc = "answered", !.ok = heard, !.got = got]
        /\ \/ /\ v1' = [v1 EXCEPT !.fields = v8.arg] /\ got = v1'
              /\ v14' = (v14 \/ ~heard)
           \/ UNCHANGED <<v1, v14>> /\ ~heard
        /\ UNCHANGED <<v2, v3, v4, v5, v6, v7, v9, v10,
                       v11, v12, v13>>
<1>0. \E heard \in BOOLEAN : \E got : Answered(heard, got)
  <2>1. CASE Company!AcceptSave
    BY <2>1 DEF Company!AcceptSave, Company!screen
  <2>2. CASE Company!RefuseSave
    <3>1. v8' = [v8 EXCEPT !.pc = "answered", !.ok = FALSE, !.got = v8.got]
      BY <2>2 DEF Company!RefuseSave, Company!IInv, Company!Shaped, Company!CallShape
    <3> QED
      BY <2>2, <3>1 DEF Company!RefuseSave, Company!screen, Company!history
  <2> QED
    BY <2>1, <2>2
<1>h. PICK heard \in BOOLEAN : \E got : Answered(heard, got)
  BY <1>0
<1>1. PICK got : Answered(heard, got)
  BY <1>h
<1>2. /\ v8' = [pc |-> "answered", arg |-> v8.arg, ok |-> heard, got |-> got, mine |-> v8.mine]
      /\ Company!CallShape(v8)' /\ v8.arg \in FieldTexts \ BadTexts
  BY <1>1 DEF Company!IInv, Company!Shaped, Company!CallShape, Company!UnderWay
<1>3. /\ v1' \in Company!Copies /\ v1'.logo = v1.logo
      /\ v14' \in BOOLEAN
      /\ ~v14' => ~v14 /\ (heard \/ v1' = v1)
  <2>1. v14 \in BOOLEAN /\ v1 \in Company!Copies
    BY DEF Company!IInv, Company!Shaped
  <2>2. CASE UNCHANGED <<v1, v14>>
    BY <2>1, <2>2
  <2>3. CASE v1' = [v1 EXCEPT !.fields = v8.arg] /\ v14' = (v14 \/ ~heard)
    <3>1. v1' \in Company!Copies /\ v1'.logo = v1.logo
      BY <1>2, <2>1, <2>3 DEF Company!Copies
    <3> QED
      BY <2>1, <2>3, <3>1
  <2> QED
    BY <1>1, <2>2, <2>3
<1>a. v8'.ok => v8'.got \in Company!Copies
  BY <1>1, <1>2, <1>3
<1>4. Company!Shaped'
  BY <1>1, <1>2, <1>3, <1>a DEF Company!IInv, Company!Shaped, Company!QueryShape, Company!UnderWay,
     Company!CallShape
<1>5. Company!Titled'
  BY <1>1, <1>2, <1>3 DEF Company!IInv, Company!Titled
<1>6. Company!Typing' /\ Company!Told' /\ Company!Previewed'
  BY <1>1, <1>2, <1>3 DEF Company!IInv, Company!Typing, Company!Told, Company!Previewed,
     Company!Heard, Company!Pending, Company!UnderWay
<1> QED
  BY <1>4, <1>5, <1>6 DEF Company!IInv

LEMMA CompanySaves ==
  ASSUME Company!ParametersScreenAssumption, Company!IInv, Company!SaveLands
  PROVE  Company!IInv'
<1>1. /\ v8.pc = "answered" /\ v8' = Company!Settled
      /\ UNCHANGED <<v1, v4, v7, v9, v10, v11, v13, v14>>
  BY DEF Company!SaveLands
<1>2. Company!CallShape(v8)' /\ ~Company!UnderWay(v8)'
  BY <1>1 DEF Company!Settled, Company!NewCall, Company!CallShape, Company!UnderWay
<1>3. Company!QueryShape(v2)' /\ (v2.data \in Company!Copies \cup {Unset})'
      /\ (v2.fetch = "answered" => v2.got \in Company!Copies \cup {Failure})'
  BY <1>1 DEF Company!SaveLands, Company!Updated, Company!Written, Company!IInv, Company!Shaped,
     Company!QueryShape
<1>4. Company!QueryShape(v3)' /\ (v3.data \in (FieldTexts \ BadTexts) \cup {Unset})'
      /\ (v3.fetch = "answered" => v3.got \in (FieldTexts \ BadTexts) \cup {Failure})'
  BY ZenonT(60) DEF Company!SaveLands, Company!RefreshHeaderTitle, Company!Invalidated, Company!Asked,
     Company!IInv, Company!Shaped, Company!QueryShape
<1>5. Company!Titled'
  <2>1. CASE v8.ok
    <3>1. v3'.fetch = "asked"
      BY <2>1 DEF Company!SaveLands, Company!RefreshHeaderTitle, Company!Invalidated, Company!Asked,
         Company!IInv, Company!Shaped, Company!QueryShape
    <3> QED
      BY <3>1 DEF Company!Titled
  <2>2. CASE ~v8.ok
    BY <1>1, <2>2 DEF Company!SaveLands, Company!IInv, Company!Titled
  <2> QED
    BY <2>1, <2>2
<1>6. v8.ok => Company!Updated.data \in Company!Copies \cup {Unset}
  BY <1>1 DEF Company!Updated, Company!Written, Company!IInv, Company!Shaped, Company!QueryShape
<1>7. /\ v5' \in FieldTexts \cup {Unset} /\ v6' \in BOOLEAN /\ v12' \in BOOLEAN
      /\ v5 # Unset => v5' = v5
      /\ v4' /\ v2'.data # Unset => v5' # Unset
      /\ Company!Told' /\ Company!Previewed'
  <2>1. /\ Company!Filled(Company!Updated) \/ UNCHANGED <<v5, v6, v12>>
        /\ v4 /\ v8.ok => Company!Filled(Company!Updated) /\ v2' = Company!Updated
        /\ ~v8.ok => v2' = v2
    BY DEF Company!SaveLands
  <2>2. v8.ok \in BOOLEAN
    BY DEF Company!IInv, Company!Shaped, Company!CallShape
  <2>3. CASE v8.ok
    <3> HIDE DEF Company!Updated
    <3>1. /\ v5' \in FieldTexts \cup {Unset} /\ v6' \in BOOLEAN /\ v12' \in BOOLEAN
          /\ v5 # Unset => v5' = v5
          /\ Company!Filled(Company!Updated) /\ Company!Updated.data # Unset => v5' # Unset
          /\ Company!Told' /\ Company!Previewed'
      BY <1>1, <1>6, <2>1, <2>3, CompanyFills
    <3> QED
      BY <1>1, <2>1, <2>3, <3>1 DEF Company!IInv, Company!Typing
  <2>4. CASE ~v8.ok
    <3>1. UNCHANGED <<v5, v6, v12>> /\ v2.data \in Company!Copies \cup {Unset}
      BY <2>4 DEF Company!SaveLands, Company!IInv, Company!Shaped
    <3>2. /\ v5' \in FieldTexts \cup {Unset} /\ v6' \in BOOLEAN /\ v12' \in BOOLEAN
          /\ v5 # Unset => v5' = v5
          /\ Company!Told' /\ Company!Previewed'
      BY <1>1, <3>1, CompanyFills
    <3> QED
      BY <1>1, <2>1, <2>4, <3>1, <3>2 DEF Company!IInv, Company!Typing
  <2> QED
    BY <2>2, <2>3, <2>4
<1>8. Company!Shaped'
  BY <1>1, <1>2, <1>3, <1>4, <1>7 DEF Company!IInv, Company!Shaped, Company!QueryShape,
     Company!CallShape, Company!UnderWay
<1>9. Company!Typing'
  BY <1>2, <1>7 DEF Company!Typing, Company!Pending
<1> QED
  BY <1>5, <1>7, <1>8, <1>9 DEF Company!IInv

(* The logo.                                                               *)
LEMMA CompanyLogo ==
  ASSUME Company!ParametersScreenAssumption, Company!IInv,
         Company!HandleUpload \/ Company!AskRemove \/ Company!Dismiss \/ Company!ConfirmRemove
  PROVE  Company!IInv'
<1>1. UNCHANGED <<v1, v2, v3, v4, v5, v6, v8, v11, v12, v14>>
  BY DEF Company!HandleUpload, Company!AskRemove, Company!Dismiss, Company!ConfirmRemove,
     Company!screen, Company!calls, Company!history
<1>2. Company!Typing' /\ Company!Titled'
  BY <1>1 DEF Company!IInv, Company!Typing, Company!Titled, Company!Pending, Company!UnderWay
<1>3. CASE Company!AskRemove \/ Company!Dismiss
  <2>1. UNCHANGED <<v9, v10, v13>> /\ v7' \in BOOLEAN
    BY <1>3 DEF Company!AskRemove, Company!Dismiss, Company!calls, Company!history
  <2>2. Company!Shaped'
    BY <1>1, <2>1 DEF Company!IInv, Company!Shaped, Company!QueryShape, Company!CallShape,
       Company!UnderWay
  <2> QED
    BY <1>1, <1>2, <2>1, <2>2 DEF Company!IInv, Company!Told, Company!Previewed, Company!Heard,
       Company!UnderWay
<1>4. CASE Company!HandleUpload
  <2>1. /\ v9' = [pc |-> "sent", arg |-> TRUE, ok |-> FALSE, got |-> Unset, mine |-> TRUE]
        /\ v9.pc = "idle" /\ UNCHANGED <<v10, v7>>
        /\ v13' = (v13 \/ Company!UnderWay(v10))
    BY <1>4 DEF Company!HandleUpload, Company!Fresh, Company!NewCall, Company!Call, Company!screen
  <2>2. v13' \in BOOLEAN /\ (~v13' => ~v13 /\ ~Company!UnderWay(v10))
    BY <2>1 DEF Company!IInv, Company!Shaped, Company!UnderWay
  <2>3. Company!Shaped'
    BY <1>1, <2>1, <2>2 DEF Company!IInv, Company!Shaped, Company!QueryShape, Company!CallShape,
       Company!UnderWay
  <2>4. Company!Told' /\ Company!Previewed'
    BY <1>1, <2>1, <2>2 DEF Company!IInv, Company!Told, Company!Previewed, Company!Heard,
       Company!UnderWay
  <2> QED
    BY <1>2, <2>3, <2>4 DEF Company!IInv
<1>5. CASE Company!ConfirmRemove
  <2>1. /\ v10' = [pc |-> "sent", arg |-> FALSE, ok |-> FALSE, got |-> Unset, mine |-> TRUE]
        /\ v10.pc = "idle" /\ UNCHANGED v9 /\ v7' \in BOOLEAN
        /\ v13' = (v13 \/ Company!UnderWay(v9))
    BY <1>5 DEF Company!ConfirmRemove, Company!Fresh, Company!NewCall, Company!Call
  <2>2. v13' \in BOOLEAN /\ (~v13' => ~v13 /\ ~Company!UnderWay(v9))
    BY <2>1 DEF Company!IInv, Company!Shaped, Company!UnderWay
  <2>3. Company!Shaped'
    BY <1>1, <2>1, <2>2 DEF Company!IInv, Company!Shaped, Company!QueryShape, Company!CallShape,
       Company!UnderWay
  <2>4. Company!Told' /\ Company!Previewed'
    BY <1>1, <2>1, <2>2 DEF Company!IInv, Company!Told, Company!Previewed, Company!Heard,
       Company!UnderWay
  <2> QED
    BY <1>2, <2>3, <2>4 DEF Company!IInv
<1> QED
  BY <1>3, <1>4, <1>5

(* The server's answer to a change of logo.                                *)
LEMMA CompanyLogoAnswers ==
  ASSUME Company!IInv, Company!AcceptLogo \/ Company!RefuseLogo
  PROVE  Company!IInv'
<1>1. UNCHANGED <<v2, v3, v4, v5, v6, v7, v8, v11, v13, v14>>
  BY DEF Company!AcceptLogo, Company!RefuseLogo, Company!screen, Company!history
<1>2. CASE Company!RefuseLogo
  <2>1. /\ UNCHANGED <<v1, v12>>
        /\ \/ v9.pc = "sent" /\ v9' = [v9 EXCEPT !.pc = "answered"] /\ UNCHANGED v10
           \/ v10.pc = "sent" /\ v10' = [v10 EXCEPT !.pc = "answered"] /\ UNCHANGED v9
    BY <1>2 DEF Company!RefuseLogo, Company!history
  <2>2. /\ Company!CallShape(v9)' /\ Company!CallShape(v10)'
        /\ Company!UnderWay(v9)' <=> Company!UnderWay(v9)
        /\ Company!UnderWay(v10)' <=> Company!UnderWay(v10)
        /\ v9'.mine = v9.mine /\ v10'.mine = v10.mine
        /\ Company!Heard(v9)' <=> Company!Heard(v9)
        /\ Company!Heard(v10)' <=> Company!Heard(v10)
    BY <2>1 DEF Company!IInv, Company!Shaped, Company!CallShape, Company!UnderWay, Company!Heard
  <2>3. Company!Shaped' /\ Company!Typing' /\ Company!Titled'
    BY <1>1, <2>1, <2>2 DEF Company!IInv, Company!Shaped, Company!QueryShape, Company!CallShape,
       Company!UnderWay, Company!Typing, Company!Titled, Company!Pending
  <2>4. Company!Told' /\ Company!Previewed'
    BY <1>1, <2>1, <2>2 DEF Company!IInv, Company!Told, Company!Previewed
  <2> QED
    BY <2>3, <2>4 DEF Company!IInv
<1>3. ASSUME NEW heard \in BOOLEAN, v9.pc = "sent", v1' = [v1 EXCEPT !.logo = TRUE],
             v9' = [v9 EXCEPT !.pc = "answered", !.ok = heard],
             v12' = (v12 \/ ~heard \/ ~v9.mine), UNCHANGED v10
      PROVE  Company!IInv'
  <2>1. /\ v9' = [pc |-> "answered", arg |-> v9.arg, ok |-> heard, got |-> v9.got, mine |-> v9.mine]
        /\ Company!CallShape(v9)' /\ Company!CallShape(v10)'
    BY <1>3 DEF Company!IInv, Company!Shaped, Company!CallShape
  <2>2. v12' \in BOOLEAN /\ (~v12' => ~v12 /\ heard /\ v9.mine)
    BY <1>3 DEF Company!IInv, Company!Shaped, Company!CallShape
  <2>3. v1' \in Company!Copies /\ v1'.fields = v1.fields /\ v1'.logo = TRUE
    BY <1>3 DEF Company!IInv, Company!Shaped, Company!Copies
  <2>4. Company!Shaped' /\ Company!Typing' /\ Company!Titled'
    BY <1>1, <1>3, <2>1, <2>2, <2>3 DEF Company!IInv, Company!Shaped, Company!QueryShape,
       Company!CallShape, Company!UnderWay, Company!Typing, Company!Titled, Company!Pending
  <2>5. Company!Told' /\ Company!Previewed'
    BY <1>1, <1>3, <2>1, <2>2, <2>3 DEF Company!IInv, Company!Told, Company!Previewed,
       Company!Heard, Company!UnderWay
  <2> QED
    BY <2>4, <2>5 DEF Company!IInv
<1>4. ASSUME NEW heard \in BOOLEAN, v10.pc = "sent", v1' = [v1 EXCEPT !.logo = FALSE],
             v10' = [v10 EXCEPT !.pc = "answered", !.ok = heard],
             v12' = (v12 \/ ~heard \/ ~v10.mine), UNCHANGED v9
      PROVE  Company!IInv'
  <2>1. /\ v10' = [pc |-> "answered", arg |-> v10.arg, ok |-> heard, got |-> v10.got, mine |-> v10.mine]
        /\ Company!CallShape(v9)' /\ Company!CallShape(v10)'
    BY <1>4 DEF Company!IInv, Company!Shaped, Company!CallShape
  <2>2. v12' \in BOOLEAN /\ (~v12' => ~v12 /\ heard /\ v10.mine)
    BY <1>4 DEF Company!IInv, Company!Shaped, Company!CallShape
  <2>3. v1' \in Company!Copies /\ v1'.fields = v1.fields /\ v1'.logo = FALSE
    BY <1>4 DEF Company!IInv, Company!Shaped, Company!Copies
  <2>4. Company!Shaped' /\ Company!Typing' /\ Company!Titled'
    BY <1>1, <1>4, <2>1, <2>2, <2>3 DEF Company!IInv, Company!Shaped, Company!QueryShape,
       Company!CallShape, Company!UnderWay, Company!Typing, Company!Titled, Company!Pending
  <2>5. Company!Told' /\ Company!Previewed'
    BY <1>1, <1>4, <2>1, <2>2, <2>3 DEF Company!IInv, Company!Told, Company!Previewed,
       Company!Heard, Company!UnderWay
  <2> QED
    BY <2>4, <2>5 DEF Company!IInv
<1> QED
  BY <1>2, <1>3, <1>4 DEF Company!AcceptLogo

(* The screen hears of it.                                                 *)
LEMMA CompanyLogoLands ==
  ASSUME Company!IInv, Company!UploadLands \/ Company!RemovalLands
  PROVE  Company!IInv'
<1>1. UNCHANGED <<v1, v2, v3, v4, v5, v7, v8, v11, v12, v13, v14>>
  BY DEF Company!UploadLands, Company!RemovalLands, Company!history
<1>2. CASE Company!UploadLands
  <2>1. /\ v9.pc = "answered" /\ v9' = Company!Settled /\ UNCHANGED v10
        /\ v6' = (v6 \/ (v9.mine /\ v9.ok))
    BY <1>2 DEF Company!UploadLands
  <2>2. v6' \in BOOLEAN /\ (Company!Heard(v9) => v6') /\ (~Company!Heard(v9) => (v6' <=> v6))
    BY <2>1 DEF Company!IInv, Company!Shaped, Company!CallShape, Company!Heard
  <2>3. Company!CallShape(v9)' /\ ~Company!UnderWay(v9)' /\ ~Company!Heard(v9)'
    BY <2>1 DEF Company!Settled, Company!NewCall, Company!CallShape, Company!UnderWay, Company!Heard
  <2>4. Company!Shaped' /\ Company!Typing' /\ Company!Titled'
    BY <1>1, <2>1, <2>2, <2>3 DEF Company!IInv, Company!Shaped, Company!QueryShape,
       Company!CallShape, Company!UnderWay, Company!Typing, Company!Titled, Company!Pending
  <2>5. Company!Told' /\ Company!Previewed'
    BY <1>1, <2>1, <2>2, <2>3 DEF Company!IInv, Company!Told, Company!Previewed, Company!Heard,
       Company!UnderWay
  <2> QED
    BY <2>4, <2>5 DEF Company!IInv
<1>3. CASE Company!RemovalLands
  <2>1. /\ v10.pc = "answered" /\ v10' = Company!Settled /\ UNCHANGED v9
        /\ v6' = (v6 /\ ~(v10.mine /\ v10.ok))
    BY <1>3 DEF Company!RemovalLands
  <2>2. v6' \in BOOLEAN /\ (Company!Heard(v10) => ~v6') /\ (~Company!Heard(v10) => (v6' <=> v6))
    BY <2>1 DEF Company!IInv, Company!Shaped, Company!CallShape, Company!Heard
  <2>3. Company!CallShape(v10)' /\ ~Company!UnderWay(v10)' /\ ~Company!Heard(v10)'
    BY <2>1 DEF Company!Settled, Company!NewCall, Company!CallShape, Company!UnderWay, Company!Heard
  <2>4. Company!Shaped' /\ Company!Typing' /\ Company!Titled'
    BY <1>1, <2>1, <2>2, <2>3 DEF Company!IInv, Company!Shaped, Company!QueryShape,
       Company!CallShape, Company!UnderWay, Company!Typing, Company!Titled, Company!Pending
  <2>5. Company!Told' /\ Company!Previewed'
    BY <1>1, <2>1, <2>2, <2>3 DEF Company!IInv, Company!Told, Company!Previewed, Company!Heard,
       Company!UnderWay
  <2> QED
    BY <2>4, <2>5 DEF Company!IInv
<1> QED
  BY <1>2, <1>3

LEMMA CompanyMeets ==
  ASSUME Company!IInv, Company!Another
  PROVE  Company!IInv'
<1>1. /\ UNCHANGED <<v2, v3, v4, v5, v6, v7, v8, v9, v10, v13>>
      /\ v1' \in Company!Copies /\ v11' = TRUE /\ v12' = TRUE /\ v14' = TRUE
  BY DEF Company!Another, Company!screen, Company!calls, Company!Copies
<1>2. Company!Shaped'
  BY <1>1 DEF Company!IInv, Company!Shaped, Company!QueryShape, Company!CallShape, Company!UnderWay
<1>3. Company!Typing' /\ Company!Titled' /\ Company!Told' /\ Company!Previewed'
  BY <1>1 DEF Company!IInv, Company!Typing, Company!Titled, Company!Told, Company!Previewed,
     Company!Heard, Company!Pending, Company!UnderWay
<1> QED
  BY <1>2, <1>3 DEF Company!IInv

LEMMA CompanyInductive ==
  ASSUME Company!ParametersScreenAssumption, Company!IInv, [Company!Next]_Company!vars
  PROVE  Company!IInv'
<1>1. CASE UNCHANGED Company!vars
  <2>1. Company!Shaped'
    BY <1>1 DEF Company!vars, Company!IInv, Company!Shaped, Company!QueryShape, Company!CallShape,
       Company!UnderWay
  <2> QED
    BY <1>1, <2>1 DEF Company!vars, Company!IInv, Company!Typing, Company!Titled, Company!Told,
       Company!Previewed, Company!Heard, Company!Pending, Company!UnderWay
<1> QED
  BY <1>1, CompanyShows, CompanyLeaves, CompanyFetches, CompanyTypes, CompanyAnswers,
     CompanySaves, CompanyLogo, CompanyLogoAnswers, CompanyLogoLands, CompanyMeets DEF Company!Next

LEMMA CompanyMeans ==
  Company!IInv => Company!PreviewSettles /\ Company!TitleSettles /\ Company!SentAsShown
BY DEF Company!IInv, Company!Shaped, Company!Copies, Company!Typing, Company!Titled,
   Company!Previewed, Company!Heard, Company!PreviewSettles, Company!TitleSettles,
       Company!SentAsShown, Company!Resting, Company!UnderWay, Company!Pending, Company!Showing,
          Company!AtRest

-----------------------------------------------------------------------------
(* The lists of the superuser: AdminList.tla, whose screen, superuser,     *)
(* rows, mounted, filter, page, list, stray, form, toDelete, create,       *)
(* erase, toggle and missed are v1 to v14 here.                            *)

LEMMA ManageInit ==
  ASSUME Manage!Init
  PROVE  Manage!IInv
<1>1. v9 = [open |-> v9.open, text |-> v9.text]
  BY DEF Manage!Init, Manage!BlankForm, Manage!UsersBlank, Manage!PaymentsBlank, Manage!ModulesBlank
<1> QED
  BY <1>1 DEF Manage!Init, Manage!IInv, Manage!Shaped, Manage!Synced, Manage!FormsHeld,
     Manage!NewQuery, Manage!NewCall, Manage!QueryShape,
       Manage!CallShape, Manage!News, Manage!Current, Manage!Pending

(* A page is what the server's rows make of it.                            *)
LEMMA ManagePage ==
  ASSUME UNCHANGED <<v1, v3>>, NEW only, NEW n, v5' = only, v6' = n
  PROVE  Manage!Page(v5, v6)' = Manage!Page(only, n)
BY DEF Manage!Page, Manage!UsersPage, Manage!ModulesPage, Manage!UsersPages, Manage!PageLength,
   Manage!Listed

LEMMA ManageSamePage ==
  ASSUME UNCHANGED <<v1, v3, v5, v6>>
  PROVE  Manage!Page(v5, v6)' = Manage!Page(v5, v6)
BY DEF Manage!Page, Manage!UsersPage, Manage!ModulesPage, Manage!UsersPages, Manage!PageLength,
   Manage!Listed

(* What neither the mutations nor the form nor the dialog notice.          *)
LEMMA ManageFormsStay ==
  ASSUME Manage!IInv, UNCHANGED <<v9, v10, v11, v12>>, v4 => v4'
  PROVE  Manage!FormsHeld'
BY DEF Manage!IInv, Manage!FormsHeld, Manage!Pending

LEMMA ManageTurns ==
  ASSUME Manage!IInv, NEW only, NEW n, NEW kept, Manage!Turned(only, n, kept),
         v5' = only, v6' = n, v4' = TRUE,
         UNCHANGED <<v1, v3, v9, v10, v11, v12, v13, v14>>
  PROVE  Manage!IInv'
<1>1. Manage!Page(v5, v6)' = Manage!Page(only, n)
  BY ManagePage
<1>2. Manage!QueryShape(v7)'
      /\ (v7'.fetch = "asked" \/ (v7'.fetch = "none" /\ v7'.data = Manage!Page(only, n)))
  BY DEF Manage!Turned, Manage!Asked, Manage!NewQuery, Manage!QueryShape, Manage!Current
<1>3. v8' \in BOOLEAN
  BY DEF Manage!Turned, Manage!IInv, Manage!Shaped
<1>4. Manage!Shaped'
  BY <1>2, <1>3 DEF Manage!IInv, Manage!Shaped, Manage!QueryShape, Manage!CallShape
<1>5. Manage!Synced'
  BY <1>1, <1>2 DEF Manage!Synced, Manage!Current
<1> QED
  BY <1>4, <1>5, ManageFormsStay DEF Manage!IInv

LEMMA ManageOpens ==
  ASSUME Manage!IInv,
         Manage!Enter \/ Manage!UsersFilter \/ Manage!PaymentsFilter
               \/ \E n \in Manage!PageNumbers : Manage!TurnPage(n)
  PROVE  Manage!IInv'
<1>1. CASE Manage!Enter
  <2>1. Manage!Turned(FALSE, 1, Unset) /\ v5' = FALSE /\ v6' = 1 /\ v4' = TRUE
        /\ UNCHANGED <<v1, v3, v9, v10, v11, v12, v13, v14>>
    BY <1>1 DEF Manage!Enter, Manage!still, Manage!calls
  <2> QED
    BY <2>1, ManageTurns
<1>2. CASE Manage!UsersFilter \/ Manage!PaymentsFilter
  <2>1. Manage!Turned(~v5, 1, v7.data) /\ v5' = ~v5 /\ v6' = 1 /\ v4' = TRUE
        /\ UNCHANGED <<v1, v3, v9, v10, v11, v12, v13, v14>>
    BY <1>2 DEF Manage!UsersFilter, Manage!PaymentsFilter, Manage!On, Manage!still, Manage!calls,
       Manage!IInv, Manage!Shaped
  <2> QED
    BY <2>1, ManageTurns
<1>3. ASSUME NEW n \in Manage!PageNumbers, Manage!TurnPage(n)
      PROVE  Manage!IInv'
  <2>1. Manage!Turned(v5, n, v7.data) /\ v5' = v5 /\ v6' = n /\ v4' = TRUE
        /\ UNCHANGED <<v1, v3, v9, v10, v11, v12, v13, v14>>
    BY <1>3 DEF Manage!TurnPage, Manage!On, Manage!still, Manage!calls, Manage!IInv, Manage!Shaped
  <2> QED
    BY <2>1, ManageTurns
<1> QED
  BY <1>1, <1>2, <1>3

LEMMA ManageLeaves ==
  ASSUME Manage!IInv, Manage!Leave
  PROVE  Manage!IInv'
<1>1. /\ v4' = FALSE /\ v9' = Manage!BlankForm
      /\ v11' = [v11 EXCEPT !.mine = FALSE] /\ v12' = [v12 EXCEPT !.mine = FALSE]
      /\ v13' = [v13 EXCEPT !.mine = FALSE]
      /\ UNCHANGED <<v1, v3, v5, v6, v7, v8, v14>>
  BY DEF Manage!Leave, Manage!still
<1>2. /\ Manage!CallShape(v11)' /\ Manage!CallShape(v12)' /\ Manage!CallShape(v13)'
      /\ ~v11'.mine /\ ~v12'.mine
      /\ Manage!News(v11)' <=> Manage!News(v11)
      /\ Manage!News(v12)' <=> Manage!News(v12)
      /\ Manage!News(v13)' <=> Manage!News(v13)
  BY <1>1 DEF Manage!IInv, Manage!Shaped, Manage!CallShape, Manage!News
<1>3. v9' = [open |-> v9'.open, text |-> v9'.text]
  BY <1>1 DEF Manage!BlankForm, Manage!UsersBlank, Manage!PaymentsBlank, Manage!ModulesBlank,
     Manage!IInv, Manage!Shaped
<1>4. Manage!Page(v5, v6)' = Manage!Page(v5, v6)
  BY <1>1, ManageSamePage
<1>5. Manage!Shaped'
  BY <1>1, <1>2, <1>3 DEF Manage!IInv, Manage!Shaped, Manage!QueryShape
<1>6. Manage!Synced'
  BY <1>1, <1>2, <1>4 DEF Manage!IInv, Manage!Synced, Manage!Current
<1>7. Manage!FormsHeld'
  BY <1>2 DEF Manage!FormsHeld, Manage!Pending
<1> QED
  BY <1>5, <1>6, <1>7 DEF Manage!IInv

LEMMA ManageReads ==
  ASSUME Manage!IInv, Manage!Serve \/ Manage!Take \/ Manage!StrayLands \/ Manage!Retry
  PROVE  Manage!IInv'
<1>1. UNCHANGED <<v1, v3, v4, v5, v6, v9, v10, v11, v12, v13, v14>>
  BY DEF Manage!Serve, Manage!Take, Manage!StrayLands, Manage!Retry, Manage!still, Manage!calls
<1>2. Manage!Page(v5, v6)' = Manage!Page(v5, v6)
  BY <1>1, ManageSamePage
<1>3. v8' \in BOOLEAN
  BY DEF Manage!Serve, Manage!Take, Manage!StrayLands, Manage!Retry, Manage!IInv, Manage!Shaped
<1>4. Manage!QueryShape(v7)'
  BY DEF Manage!Serve, Manage!Take, Manage!StrayLands, Manage!Retry, Manage!AnsweredWith,
     Manage!Taken, Manage!Asked, Manage!IInv, Manage!Shaped, Manage!QueryShape
<1>5. Manage!Current(v7, Manage!Page(v5, v6)) => Manage!Current(v7, Manage!Page(v5, v6))'
  <2>1. CASE Manage!StrayLands
    BY <1>1, <1>2, <2>1 DEF Manage!StrayLands, Manage!Current
  <2>2. CASE Manage!Retry
    BY <1>1, <1>2, <2>2 DEF Manage!Retry, Manage!Asked, Manage!Current, Manage!IInv, Manage!Shaped,
       Manage!QueryShape
  <2>3. CASE Manage!Serve
    <3>1. PICK value \in {Manage!Page(v5, v6), Failure} : v7' = Manage!AnsweredWith(v7, value)
      BY <2>3 DEF Manage!Serve
    <3>2. v7'.fetch = "answered" /\ v7'.got \in {Manage!Page(v5, v6), Failure}
      BY <3>1 DEF Manage!AnsweredWith, Manage!IInv, Manage!Shaped, Manage!QueryShape
    <3> QED
      BY <1>2, <3>2 DEF Manage!Current
  <2>4. CASE Manage!Take
    <3>1. v7.fetch = "answered" /\ v7' = Manage!Taken(v7)
      BY <2>4 DEF Manage!Take
    <3>2. v7'.fetch = "none" /\ (v7.got = Failure => v7'.error)
          /\ (v7.got # Failure => v7'.data = v7.got)
      BY <3>1 DEF Manage!Taken, Manage!IInv, Manage!Shaped, Manage!QueryShape
    <3> QED
      BY <1>1, <1>2, <3>1, <3>2 DEF Manage!Current
  <2> QED
    BY <2>1, <2>2, <2>3, <2>4
<1>6. Manage!Shaped'
  BY <1>1, <1>3, <1>4 DEF Manage!IInv, Manage!Shaped, Manage!CallShape
<1>7. Manage!Synced'
  BY <1>1, <1>5 DEF Manage!IInv, Manage!Synced, Manage!News
<1> QED
  BY <1>1, <1>6, <1>7, ManageFormsStay DEF Manage!IInv

(* The form, but for what an answer makes of it.                           *)
LEMMA ManageTypes ==
  ASSUME Manage!IInv,
         \/ Manage!UsersOpen \/ Manage!UsersCancel \/ Manage!HandleCreate
         \/ \E text \in Manage!Texts : Manage!UsersType(text) \/ Manage!PaymentsType(text) \/ Manage!ModulesType(text)
  PROVE  Manage!IInv'
<1>1. UNCHANGED <<v1, v3, v4, v5, v6, v7, v8, v10, v12, v13, v14>>
  BY DEF Manage!UsersOpen, Manage!UsersCancel, Manage!HandleCreate, Manage!UsersType,
     Manage!PaymentsType, Manage!ModulesType, Manage!still, Manage!calls
<1>2. Manage!Page(v5, v6)' = Manage!Page(v5, v6)
  BY <1>1, ManageSamePage
<1>3. CASE Manage!HandleCreate
  <2>1. /\ v11' = [pc |-> "sent", arg |-> v9.text, ok |-> FALSE, mine |-> TRUE]
        /\ v4 /\ v11.pc = "idle" /\ v9' = v9
    BY <1>3 DEF Manage!HandleCreate, Manage!Typing, Manage!On, Manage!Fresh, Manage!Call
  <2>2. Manage!Shaped' /\ Manage!FormsHeld'
    BY <1>1, <2>1 DEF Manage!IInv, Manage!Shaped, Manage!QueryShape, Manage!CallShape,
       Manage!FormsHeld, Manage!Pending
  <2>3. Manage!Synced'
    BY <1>1, <1>2, <2>1 DEF Manage!IInv, Manage!Synced, Manage!News, Manage!Current
  <2> QED
    BY <2>2, <2>3 DEF Manage!IInv
<1>4. CASE ~Manage!HandleCreate
  <2>1. /\ UNCHANGED v11
        /\ v9' = [open |-> v9'.open, text |-> v9'.text]
        /\ Manage!Pending(v11) => v9'.text = v9.text
    BY <1>4 DEF Manage!UsersOpen, Manage!UsersCancel, Manage!UsersType, Manage!PaymentsType,
       Manage!ModulesType, Manage!Typing, Manage!UsersBlank,
                Manage!calls, Manage!IInv, Manage!Shaped
  <2>2. Manage!Shaped'
    BY <1>1, <2>1 DEF Manage!IInv, Manage!Shaped, Manage!QueryShape, Manage!CallShape
  <2>3. Manage!FormsHeld'
    BY <1>1, <2>1 DEF Manage!IInv, Manage!FormsHeld, Manage!Pending
  <2>4. Manage!Synced'
    BY <1>1, <1>2, <2>1 DEF Manage!IInv, Manage!Synced, Manage!News, Manage!Current
  <2> QED
    BY <2>2, <2>3, <2>4 DEF Manage!IInv
<1> QED
  BY <1>3, <1>4

(* The dialog, and the switch of a module.                                 *)
LEMMA ManageAsks ==
  ASSUME Manage!AdminListAssumption, Manage!IInv,
         Manage!Dismiss \/ Manage!HandleDelete
               \/ \E i \in ListIds : Manage!Ask(i) \/ Manage!HandleToggle(i)
  PROVE  Manage!IInv'
<1>1. UNCHANGED <<v1, v3, v4, v5, v6, v7, v8, v9, v11, v14>>
  BY DEF Manage!Dismiss, Manage!HandleDelete, Manage!Ask, Manage!HandleToggle, Manage!still,
     Manage!calls
<1>2. Manage!Page(v5, v6)' = Manage!Page(v5, v6)
  BY <1>1, ManageSamePage
<1>3. /\ Manage!CallShape(v12)' /\ Manage!CallShape(v13)'
      /\ Manage!News(v12) => Manage!News(v12)'
      /\ Manage!News(v13) => Manage!News(v13)'
  <2>1. CASE Manage!Dismiss \/ \E i \in ListIds : Manage!Ask(i)
    BY <2>1 DEF Manage!Dismiss, Manage!Ask, Manage!calls, Manage!IInv, Manage!Shaped,
       Manage!CallShape, Manage!News
  <2>2. CASE Manage!HandleDelete
    BY <2>2 DEF Manage!HandleDelete, Manage!Fresh, Manage!Call, Manage!IInv, Manage!Shaped,
       Manage!CallShape, Manage!News
  <2>3. ASSUME NEW i \in ListIds, Manage!HandleToggle(i)
        PROVE  /\ Manage!CallShape(v12)' /\ Manage!CallShape(v13)'
               /\ Manage!News(v12) => Manage!News(v12)'
               /\ Manage!News(v13) => Manage!News(v13)'
    BY <2>3 DEF Manage!HandleToggle, Manage!Fresh, Manage!Call, Manage!IInv, Manage!Shaped,
       Manage!CallShape, Manage!News
  <2> QED
    BY <2>1, <2>2, <2>3
<1>4. Manage!Shaped'
  BY <1>1, <1>3 DEF Manage!IInv, Manage!Shaped, Manage!QueryShape, Manage!CallShape
<1>5. Manage!FormsHeld'
  BY <1>1 DEF Manage!Dismiss, Manage!HandleDelete, Manage!Ask, Manage!HandleToggle, Manage!calls,
     Manage!On, Manage!Call, Manage!IInv, Manage!Shaped, Manage!FormsHeld, Manage!Pending
<1>6. Manage!Synced'
  BY <1>1, <1>2, <1>3 DEF Manage!IInv, Manage!Synced, Manage!News, Manage!Current
<1> QED
  BY <1>4, <1>5, <1>6 DEF Manage!IInv

(* An answer is heard: a success asks for the list again.                  *)
LEMMA ManageHears ==
  ASSUME Manage!IInv, NEW ok \in BOOLEAN, IF ok THEN Manage!Invalidate ELSE UNCHANGED <<v7, v14>>,
         UNCHANGED <<v1, v3, v4, v5, v6>>,
         ~ok /\ ~v14 => \/ Manage!News(v11)' \/ Manage!News(v12)' \/ Manage!News(v13)'
                           \/ Manage!Current(v7, Manage!Page(v5, v6))
  PROVE  Manage!QueryShape(v7)' /\ v14' \in BOOLEAN /\ Manage!Synced'
<1>1. Manage!Page(v5, v6)' = Manage!Page(v5, v6)
  BY ManageSamePage
<1>2. CASE ~ok
  BY <1>1, <1>2 DEF Manage!IInv, Manage!Shaped, Manage!QueryShape, Manage!Synced, Manage!Current,
     Manage!News
<1>3. CASE ok
  <2>1. v7' = Manage!Invalidated(v7, v4) /\ v14' = (v14 \/ v8 \/ (~v4 /\ ~Manage!AtRest(v7)))
    BY <1>3 DEF Manage!Invalidate, Manage!UsersInvalidation, Manage!ModulesInvalidation,
       Manage!PaymentsInvalidation
  <2>2. v14' \in BOOLEAN /\ (~v14' => v4 \/ v7.fetch = "none")
    BY <2>1 DEF Manage!AtRest, Manage!IInv, Manage!Shaped
  <2>3. /\ Manage!QueryShape(v7)'
        /\ v4 => v7'.fetch = "asked"
        /\ ~v4 => v7'.fetch = v7.fetch
    BY <2>1 DEF Manage!Invalidated, Manage!Asked, Manage!IInv, Manage!Shaped, Manage!QueryShape
  <2>4. ~v14' => Manage!Current(v7, Manage!Page(v5, v6))'
    BY <2>2, <2>3 DEF Manage!Current, Manage!IInv, Manage!Shaped
  <2> QED
    BY <2>2, <2>3, <2>4 DEF Manage!Synced
<1> QED
  BY <1>2, <1>3

LEMMA ManageLands ==
  ASSUME Manage!IInv, Manage!CreateLands \/ Manage!EraseLands \/ Manage!ToggleLands
  PROVE  Manage!IInv'
<1>1. UNCHANGED <<v1, v3, v4, v5, v6, v8>>
  BY DEF Manage!CreateLands, Manage!EraseLands, Manage!ToggleLands, Manage!still
<1>2. /\ ~v14 => Manage!News(v11) \/ Manage!News(v12) \/ Manage!News(v13)
         \/ Manage!Current(v7, Manage!Page(v5, v6))
      /\ Manage!CallShape(v11) /\ Manage!CallShape(v12) /\ Manage!CallShape(v13)
      /\ v9 = [open |-> v9.open, text |-> v9.text]
  BY DEF Manage!IInv, Manage!Synced, Manage!Shaped
<1>3. ASSUME NEW call, call = Manage!Settled
      PROVE  Manage!CallShape(call) /\ call.pc = "settled" /\ ~call.mine
  BY <1>3 DEF Manage!Settled, Manage!NewCall, Manage!CallShape
<1>4. ASSUME Manage!CallShape(v11)', Manage!CallShape(v12)', Manage!CallShape(v13)',
             v9' = [open |-> v9'.open, text |-> v9'.text],
             Manage!QueryShape(v7)', v14' \in BOOLEAN
      PROVE  Manage!Shaped'
  BY <1>1, <1>4 DEF Manage!IInv, Manage!Shaped
<1>5. CASE Manage!CreateLands
  <2>1. /\ v11.pc = "answered" /\ v11' = Manage!Settled /\ UNCHANGED <<v12, v13, v10>>
        /\ v9' = IF v11.mine THEN Manage!Created(v11.ok) ELSE v9
        /\ IF v11.ok THEN Manage!Invalidate ELSE UNCHANGED <<v7, v14>>
    BY <1>5 DEF Manage!CreateLands
  <2>2. Manage!QueryShape(v7)' /\ v14' \in BOOLEAN /\ Manage!Synced'
    BY <1>1, <1>2, <2>1, ManageHears DEF Manage!CallShape, Manage!News
  <2>3. v9' = [open |-> v9'.open, text |-> v9'.text]
    <3>1. Manage!UsersCreated(v11.ok) \in {Manage!UsersBlank, v9}
          /\ Manage!PaymentsCreated(v11.ok) \in {[v9 EXCEPT !.text = Manage!Blank], v9}
          /\ Manage!ModulesCreated(v11.ok) \in {[v9 EXCEPT !.text = Manage!Blank], v9}
      BY DEF Manage!UsersCreated, Manage!PaymentsCreated, Manage!ModulesCreated
    <3>2. Manage!Created(v11.ok) \in {Manage!UsersBlank, [v9 EXCEPT !.text = Manage!Blank], v9}
      BY <3>1 DEF Manage!Created, Manage!IInv, Manage!Shaped
    <3>3. v9' \in {Manage!UsersBlank, [v9 EXCEPT !.text = Manage!Blank], v9}
      BY <2>1, <3>2
    <3> QED
      BY <1>2, <3>3 DEF Manage!UsersBlank
  <2>4. Manage!CallShape(v11)' /\ Manage!CallShape(v12)' /\ Manage!CallShape(v13)'
    BY <1>2, <1>3, <2>1 DEF Manage!CallShape
  <2>5. Manage!FormsHeld'
    BY <1>1, <1>3, <2>1 DEF Manage!IInv, Manage!FormsHeld, Manage!Pending
  <2> QED
    BY <1>4, <2>2, <2>3, <2>4, <2>5 DEF Manage!IInv
<1>6. CASE Manage!EraseLands
  <2>1. /\ v12.pc = "answered" /\ v12' = Manage!Settled /\ UNCHANGED <<v11, v13, v9>>
        /\ IF v12.ok THEN Manage!Invalidate ELSE UNCHANGED <<v7, v14>>
    BY <1>6 DEF Manage!EraseLands
  <2>2. Manage!QueryShape(v7)' /\ v14' \in BOOLEAN /\ Manage!Synced'
    BY <1>1, <1>2, <2>1, ManageHears DEF Manage!CallShape, Manage!News
  <2>3. Manage!CallShape(v11)' /\ Manage!CallShape(v12)' /\ Manage!CallShape(v13)'
    BY <1>2, <1>3, <2>1 DEF Manage!CallShape
  <2>4. Manage!FormsHeld'
    BY <1>1, <1>3, <2>1 DEF Manage!IInv, Manage!FormsHeld, Manage!Pending
  <2> QED
    BY <1>2, <1>4, <2>1, <2>2, <2>3, <2>4 DEF Manage!IInv
<1>7. CASE Manage!ToggleLands
  <2>1. /\ v13.pc = "answered" /\ v13' = Manage!Settled /\ UNCHANGED <<v11, v12, v9, v10>>
        /\ IF v13.ok THEN Manage!Invalidate ELSE UNCHANGED <<v7, v14>>
    BY <1>7 DEF Manage!ToggleLands
  <2>2. Manage!QueryShape(v7)' /\ v14' \in BOOLEAN /\ Manage!Synced'
    BY <1>1, <1>2, <2>1, ManageHears DEF Manage!CallShape, Manage!News
  <2>3. Manage!CallShape(v11)' /\ Manage!CallShape(v12)' /\ Manage!CallShape(v13)'
    BY <1>2, <1>3, <2>1 DEF Manage!CallShape
  <2>4. Manage!FormsHeld'
    BY <1>1, <1>3, <2>1 DEF Manage!IInv, Manage!FormsHeld, Manage!Pending
  <2> QED
    BY <1>2, <1>4, <2>1, <2>2, <2>3, <2>4 DEF Manage!IInv
<1> QED
  BY <1>5, <1>6, <1>7

(* The server's side of a mutation.                                        *)
LEMMA ManageAnswers ==
  ASSUME Manage!IInv,
         \/ Manage!AcceptErase \/ Manage!AcceptToggle \/ Manage!Refuse
         \/ \E flag \in BOOLEAN : Manage!AcceptCreate(flag)
  PROVE  Manage!IInv'
<1>1. UNCHANGED <<v1, v4, v5, v6, v7, v8, v9, v10>>
  BY DEF Manage!AcceptErase, Manage!AcceptToggle, Manage!Refuse, Manage!AcceptCreate,
     Manage!screens, Manage!still
<1>2. Manage!CallShape(v11) /\ Manage!CallShape(v12) /\ Manage!CallShape(v13) /\ v14 \in BOOLEAN
  BY DEF Manage!IInv, Manage!Shaped
<1>3. ASSUME NEW call, Manage!CallShape(call), call.pc = "sent", NEW ok \in BOOLEAN
      PROVE  /\ Manage!CallShape(Manage!Done(call, ok))
             /\ Manage!Done(call, ok).arg = call.arg /\ Manage!Done(call, ok).pc = "answered"
             /\ (Manage!Done(call, ok).ok <=> ok) /\ (Manage!Done(call, ok).mine <=> call.mine)
  <2>1. ASSUME NEW d, d = [call EXCEPT !.pc = "answered", !.ok = ok]
        PROVE  /\ Manage!CallShape(d) /\ d.arg = call.arg /\ d.pc = "answered"
               /\ (d.ok <=> ok) /\ (d.mine <=> call.mine)
    BY <1>3, <2>1 DEF Manage!CallShape
  <2> QED
    BY <2>1 DEF Manage!Done
<1>4. CASE Manage!Refuse
  <2>1. UNCHANGED <<v3, v14>>
    BY <1>4 DEF Manage!Refuse
  <2>2. /\ Manage!CallShape(v11)' /\ Manage!CallShape(v12)' /\ Manage!CallShape(v13)'
        /\ Manage!News(v11) => Manage!News(v11)'
        /\ Manage!News(v12) => Manage!News(v12)'
        /\ Manage!News(v13) => Manage!News(v13)'
        /\ Manage!Pending(v11)' => Manage!Pending(v11) /\ v11'.arg = v11.arg
        /\ Manage!Pending(v12)' => Manage!Pending(v12) /\ v12'.arg = v12.arg
    <3>1. CASE v11.pc = "sent" /\ v11' = Manage!Done(v11, FALSE) /\ UNCHANGED <<v12, v13>>
      BY <1>2, <1>3, <3>1 DEF Manage!News, Manage!Pending, Manage!CallShape
    <3>2. CASE v12.pc = "sent" /\ v12' = Manage!Done(v12, FALSE) /\ UNCHANGED <<v11, v13>>
      BY <1>2, <1>3, <3>2 DEF Manage!News, Manage!Pending, Manage!CallShape
    <3>3. CASE v13.pc = "sent" /\ v13' = Manage!Done(v13, FALSE) /\ UNCHANGED <<v11, v12>>
      BY <1>2, <1>3, <3>3 DEF Manage!News, Manage!Pending, Manage!CallShape
    <3> QED
      BY <1>4, <3>1, <3>2, <3>3 DEF Manage!Refuse
  <2>3. Manage!Page(v5, v6)' = Manage!Page(v5, v6)
    BY <1>1, <2>1, ManageSamePage
  <2>4. Manage!Shaped'
    BY <1>1, <2>1, <2>2 DEF Manage!IInv, Manage!Shaped, Manage!QueryShape
  <2>5. Manage!Synced' /\ Manage!FormsHeld'
    BY <1>1, <2>1, <2>2, <2>3 DEF Manage!IInv, Manage!Synced, Manage!FormsHeld, Manage!Current
  <2> QED
    BY <2>4, <2>5 DEF Manage!IInv
<1>5. CASE ~Manage!Refuse
  <2>1. PICK heard \in BOOLEAN :
          /\ v14' = (v14 \/ ~heard)
          /\ \/ v11.pc = "sent" /\ v11' = Manage!Done(v11, heard) /\ UNCHANGED <<v12, v13>>
             \/ v12.pc = "sent" /\ v12' = Manage!Done(v12, heard) /\ UNCHANGED <<v11, v13>>
             \/ v13.pc = "sent" /\ v13' = Manage!Done(v13, heard) /\ UNCHANGED <<v11, v12>>
    <3>1. ASSUME NEW flag \in BOOLEAN, Manage!AcceptCreate(flag)
          PROVE  \E heard \in BOOLEAN : v11' = Manage!Done(v11, heard) /\ v14' = (v14 \/ ~heard)
      BY <3>1, Zenon DEF Manage!AcceptCreate
    <3>2. ASSUME NEW flag \in BOOLEAN, Manage!AcceptCreate(flag)
          PROVE  v11.pc = "sent" /\ UNCHANGED <<v12, v13>>
      BY <3>2 DEF Manage!AcceptCreate
    <3>3. CASE Manage!AcceptErase
      BY <3>3, Zenon DEF Manage!AcceptErase
    <3>4. CASE Manage!AcceptToggle
      BY <3>4, Zenon DEF Manage!AcceptToggle
    <3> QED
      BY <1>5, <3>1, <3>2, <3>3, <3>4
  <2>2. v14' \in BOOLEAN /\ (~v14' => heard)
    BY <1>2, <2>1
  <2>3. /\ Manage!CallShape(v11)' /\ Manage!CallShape(v12)' /\ Manage!CallShape(v13)'
        /\ heard => Manage!News(v11)' \/ Manage!News(v12)' \/ Manage!News(v13)'
        /\ Manage!Pending(v11)' => Manage!Pending(v11) /\ v11'.arg = v11.arg
        /\ Manage!Pending(v12)' => Manage!Pending(v12) /\ v12'.arg = v12.arg
    <3>1. CASE v11.pc = "sent" /\ v11' = Manage!Done(v11, heard) /\ UNCHANGED <<v12, v13>>
      <4>1. /\ Manage!CallShape(v11') /\ v11'.arg = v11.arg /\ v11'.pc = "answered"
            /\ (v11'.ok <=> heard) /\ (v11'.mine <=> v11.mine)
        BY <1>2, <1>3, <3>1
      <4> QED
        BY <1>2, <3>1, <4>1 DEF Manage!News, Manage!Pending, Manage!CallShape
    <3>2. CASE v12.pc = "sent" /\ v12' = Manage!Done(v12, heard) /\ UNCHANGED <<v11, v13>>
      <4>1. /\ Manage!CallShape(v12') /\ v12'.arg = v12.arg /\ v12'.pc = "answered"
            /\ (v12'.ok <=> heard) /\ (v12'.mine <=> v12.mine)
        BY <1>2, <1>3, <3>2
      <4> QED
        BY <1>2, <3>2, <4>1 DEF Manage!News, Manage!Pending, Manage!CallShape
    <3>3. CASE v13.pc = "sent" /\ v13' = Manage!Done(v13, heard) /\ UNCHANGED <<v11, v12>>
      BY <1>2, <1>3, <3>3 DEF Manage!News, Manage!Pending, Manage!CallShape
    <3> QED
      BY <2>1, <3>1, <3>2, <3>3
  <2>4. Manage!Shaped'
    BY <1>1, <2>2, <2>3 DEF Manage!IInv, Manage!Shaped, Manage!QueryShape
  <2>5. Manage!Synced' /\ Manage!FormsHeld'
    BY <1>1, <2>2, <2>3 DEF Manage!IInv, Manage!Synced, Manage!FormsHeld
  <2> QED
    BY <2>4, <2>5 DEF Manage!IInv
<1> QED
  BY <1>4, <1>5

LEMMA ManageInductive ==
  ASSUME Manage!AdminListAssumption, Manage!IInv, [Manage!Next]_Manage!vars
  PROVE  Manage!IInv'
<1>1. CASE UNCHANGED Manage!vars
  <2>1. Manage!Page(v5, v6)' = Manage!Page(v5, v6)
    BY <1>1, ManageSamePage DEF Manage!vars
  <2>2. Manage!Shaped'
    BY <1>1 DEF Manage!vars, Manage!IInv, Manage!Shaped, Manage!QueryShape, Manage!CallShape
  <2>3. Manage!Synced' /\ Manage!FormsHeld'
    BY <1>1, <2>1 DEF Manage!vars, Manage!IInv, Manage!Synced, Manage!FormsHeld, Manage!Current,
       Manage!News, Manage!Pending
  <2> QED
    BY <2>2, <2>3 DEF Manage!IInv
<1>2. CASE Manage!Enter \/ Manage!UsersFilter \/ Manage!PaymentsFilter
      \/ \E n \in Manage!PageNumbers : Manage!TurnPage(n)
  BY <1>2, ManageOpens
<1>3. CASE Manage!Leave \/ Manage!Serve \/ Manage!Take \/ Manage!StrayLands \/ Manage!Retry
  BY <1>3, ManageLeaves, ManageReads
<1>4. CASE \/ Manage!UsersOpen \/ Manage!UsersCancel \/ Manage!HandleCreate
           \/ \E text \in Manage!Texts : Manage!UsersType(text) \/ Manage!PaymentsType(text) \/ Manage!ModulesType(text)
  BY <1>4, ManageTypes
<1>5. CASE Manage!Dismiss \/ Manage!HandleDelete
      \/ \E i \in ListIds : Manage!Ask(i) \/ Manage!HandleToggle(i)
  BY <1>5, ManageAsks
<1>6. CASE Manage!CreateLands \/ Manage!EraseLands \/ Manage!ToggleLands
  BY <1>6, ManageLands
<1>7. CASE Manage!AcceptErase \/ Manage!AcceptToggle \/ Manage!Refuse
      \/ \E flag \in BOOLEAN : Manage!AcceptCreate(flag)
  BY <1>7, ManageAnswers
<1> QED
  BY <1>1, <1>2, <1>3, <1>4, <1>5, <1>6, <1>7 DEF Manage!Next

LEMMA ManageMeans ==
  Manage!IInv => Manage!ListSettles /\ Manage!SentAsTyped /\ Manage!DialogHolds
<1> SUFFICES ASSUME Manage!IInv
             PROVE  Manage!ListSettles /\ Manage!SentAsTyped /\ Manage!DialogHolds
  OBVIOUS
<1>1. Manage!ListSettles
  BY DEF Manage!IInv, Manage!Synced, Manage!Current, Manage!News, Manage!ListSettles, Manage!On,
     Manage!Resting, Manage!AtRest, Manage!AtServer
<1>2. Manage!SentAsTyped /\ Manage!DialogHolds
  BY DEF Manage!IInv, Manage!FormsHeld, Manage!SentAsTyped, Manage!DialogHolds
<1> QED
  BY <1>1, <1>2

-----------------------------------------------------------------------------
(* The activities of a ticket: ActivityPanel.tla, whose acts, superuser,   *)
(* open, listing, erasing, editing, adding, typed, job, strangers and      *)
(* behind are v1 to v11 here.                                              *)

LEMMA PanelInit ==
  ASSUME Panel!Init
  PROVE  Panel!IInv
BY DEF Panel!Init, Panel!NewQuery, Panel!NoJob, Panel!IInv, Panel!Shaped, Panel!Synced,
   Panel!Current, Panel!QueryShape, Panel!JobShape

LEMMA PanelOpens ==
  ASSUME Panel!IInv, Panel!Mount \/ Panel!Unmount
  PROVE  Panel!IInv'
<1>1. UNCHANGED <<v1, v11>>
  BY DEF Panel!Mount, Panel!Unmount, Panel!server
<1>2. CASE Panel!Mount
  <2>1. PICK fresh \in BOOLEAN : v4' = Panel!Opened([v4 EXCEPT !.stale = @ \/ ~fresh])
    BY <1>2 DEF Panel!Mount
  <2>2. ~v3 /\ v3' = TRUE /\ UNCHANGED v9
    BY <1>2 DEF Panel!Mount
  <2> DEFINE touched == [v4 EXCEPT !.stale = @ \/ ~fresh]
  <2>3. /\ Panel!QueryShape(touched) /\ touched.fetch = v4.fetch /\ touched.data = v4.data
        /\ touched.got = v4.got /\ (touched.error <=> v4.error)
        /\ v4.stale => touched.stale
    BY DEF Panel!IInv, Panel!Shaped, Panel!QueryShape
  <2> HIDE DEF touched
  <2>4. v4' = Panel!Opened(touched)
    BY <2>1 DEF touched
  <2>5. /\ Panel!QueryShape(v4')
        /\ \/ v4'.fetch = "asked"
           \/ v4' = touched /\ ~(touched.fetch = "none" /\ touched.stale)
    BY <2>3, <2>4 DEF Panel!Opened, Panel!Asked, Panel!QueryShape
  <2>6. Panel!Shaped'
    BY <1>1, <2>2, <2>5 DEF Panel!IInv, Panel!Shaped, Panel!QueryShape, Panel!JobShape
  <2>7. Panel!Current => Panel!Current'
    BY <1>1, <2>2, <2>3, <2>5 DEF Panel!Current
  <2> QED
    BY <1>1, <2>2, <2>6, <2>7 DEF Panel!IInv, Panel!Synced, Panel!News
<1>3. CASE Panel!Unmount
  <2>1. /\ v3 /\ v3' = FALSE /\ UNCHANGED v4
        /\ v9' = [j \in PanelCalls |-> [v9[j] EXCEPT !.mine = FALSE]]
    BY <1>3 DEF Panel!Unmount
  <2>2. ASSUME NEW j \in PanelCalls
        PROVE  Panel!JobShape(v9'[j]) /\ (Panel!News(j) => Panel!News(j)')
    <3>1. v9'[j] = [v9[j] EXCEPT !.mine = FALSE] /\ Panel!JobShape(v9[j])
      BY <2>1 DEF Panel!IInv, Panel!Shaped
    <3>2. /\ Panel!JobShape(v9'[j]) /\ v9'[j].kind = v9[j].kind
          /\ v9'[j].pc = v9[j].pc /\ (v9'[j].ok <=> v9[j].ok)
      BY <3>1 DEF Panel!JobShape
    <3> QED
      BY <3>2 DEF Panel!News
  <2>3. v9' = [j \in PanelCalls |-> v9'[j]]
    BY <2>1
  <2>4. Panel!Shaped'
    BY <1>1, <2>1, <2>2, <2>3 DEF Panel!IInv, Panel!Shaped, Panel!QueryShape, Panel!JobShape
  <2>5. Panel!Current => Panel!Current'
    BY <1>1, <2>1 DEF Panel!Current
  <2> QED
    BY <1>1, <2>2, <2>4, <2>5 DEF Panel!IInv, Panel!Synced
<1> QED
  BY <1>2, <1>3

LEMMA PanelReads ==
  ASSUME Panel!IInv, Panel!ServeList \/ Panel!TakeList \/ Panel!RetryList
  PROVE  Panel!IInv'
<1>1. UNCHANGED <<v1, v3, v9>>
  BY DEF Panel!ServeList, Panel!TakeList, Panel!RetryList, Panel!server
<1>2. Panel!QueryShape(v4)' /\ v11' \in BOOLEAN
  BY DEF Panel!ServeList, Panel!TakeList, Panel!RetryList, Panel!AnsweredWith, Panel!Taken,
     Panel!Asked, Panel!IInv, Panel!Shaped, Panel!QueryShape
<1>3. Panel!Shaped'
  BY <1>1, <1>2 DEF Panel!IInv, Panel!Shaped, Panel!JobShape
<1>4. CASE Panel!ServeList
  <2>1. /\ v4' \in {Panel!AnsweredWith(v4, v1), Panel!AnsweredWith(v4, Failure)}
    BY <1>4 DEF Panel!ServeList
  <2>2. Panel!Current'
    BY <1>1, <2>1 DEF Panel!AnsweredWith, Panel!Current, Panel!IInv, Panel!Shaped, Panel!QueryShape
  <2> QED
    BY <1>3, <2>2 DEF Panel!IInv, Panel!Synced
<1>5. CASE Panel!TakeList
  <2>1. UNCHANGED v11 /\ v4.fetch = "answered" /\ v4' = Panel!Taken(v4)
    BY <1>5 DEF Panel!TakeList
  <2>2. v4'.fetch = "none" /\ (v4.got = Failure => v4'.error)
        /\ (v4.got # Failure => v4'.data = v4.got)
    BY <2>1 DEF Panel!Taken, Panel!IInv, Panel!Shaped, Panel!QueryShape
  <2>3. Panel!Current => Panel!Current'
    BY <1>1, <2>1, <2>2 DEF Panel!Current
  <2> QED
    BY <1>1, <1>3, <2>1, <2>3 DEF Panel!IInv, Panel!Synced, Panel!News
<1>6. CASE Panel!RetryList
  <2>1. UNCHANGED v11 /\ v4'.fetch = "asked"
    BY <1>6 DEF Panel!RetryList, Panel!Asked, Panel!IInv, Panel!Shaped, Panel!QueryShape
  <2>2. Panel!Current'
    BY <2>1 DEF Panel!Current
  <2> QED
    BY <1>3, <2>2 DEF Panel!IInv, Panel!Synced
<1> QED
  BY <1>4, <1>5, <1>6

(* Buttons, and the start of a mutation.                                   *)
LEMMA PanelStarts ==
  ASSUME Panel!IInv,
         \/ Panel!Press
         \/ \E j \in PanelCalls : Panel!Confirm(j) \/ Panel!SubmitEdit(j) \/ Panel!SubmitNew(j)
  PROVE  Panel!IInv'
<1>1. CASE Panel!Press
  <2>1. UNCHANGED <<v1, v3, v4, v9, v11>>
    BY <1>1 DEF Panel!Press, Panel!server
  <2> QED
    BY <2>1 DEF Panel!IInv, Panel!Shaped, Panel!Synced, Panel!Current, Panel!News, Panel!QueryShape,
       Panel!JobShape
<1>2. ASSUME NEW j \in PanelCalls, NEW kind, NEW a, Panel!Begin(j, kind, a)
      PROVE  Panel!IInv'
  <2>1. UNCHANGED <<v1, v3, v4, v11>> /\ v9[j] = Panel!NoJob
        /\ v9' = [v9 EXCEPT ![j] = [kind |-> kind, pc |-> "sent", act |-> a, ok |-> FALSE,
                                    mine |-> TRUE]]
    BY <1>2 DEF Panel!Begin, Panel!server
  <2>2. Panel!Shaped'
    BY <2>1 DEF Panel!IInv, Panel!Shaped, Panel!QueryShape, Panel!JobShape
  <2>3. \A k \in PanelCalls : Panel!News(k) => Panel!News(k)'
    BY <2>1 DEF Panel!IInv, Panel!Shaped, Panel!News, Panel!NoJob
  <2> QED
    BY <2>1, <2>2, <2>3 DEF Panel!IInv, Panel!Synced, Panel!Current
<1> QED
  BY <1>1, <1>2 DEF Panel!Confirm, Panel!SubmitEdit, Panel!SubmitNew

(* The server: what it wrote is news, unless the answer is lost.           *)
LEMMA PanelAnswers ==
  ASSUME Panel!IInv, NEW j \in PanelCalls, Panel!Serve(j) \/ Panel!Refuse(j) \/ Panel!Lose(j)
  PROVE  Panel!IInv'
<1>1. UNCHANGED <<v3, v4>>
  BY DEF Panel!Serve, Panel!Refuse, Panel!Lose, Panel!server
<1>2. /\ v11' \in BOOLEAN
      /\ v9' = [k \in PanelCalls |-> v9'[k]] /\ \A k \in PanelCalls : Panel!JobShape(v9'[k])
  BY ZenonT(60) DEF Panel!Serve, Panel!Refuse, Panel!Lose, Panel!IInv, Panel!Shaped, Panel!JobShape
<1>3. Panel!Shaped'
  BY <1>1, <1>2 DEF Panel!IInv, Panel!Shaped, Panel!QueryShape
<1>4. CASE Panel!Serve(j)
  <2>1. /\ v9[j].kind \in {"create", "update", "erase"}
        /\ v9' = [v9 EXCEPT ![j].pc = "answered", ![j].ok = TRUE]
    BY <1>4 DEF Panel!Serve
  <2>2. v9'[j].kind = v9[j].kind /\ v9'[j].pc = "answered" /\ v9'[j].ok
    <3>1. v9 = [k \in PanelCalls |-> v9[k]] /\ Panel!JobShape(v9[j])
      BY DEF Panel!IInv, Panel!Shaped
    <3>2. v9'[j] = [[v9[j] EXCEPT !.pc = "answered"] EXCEPT !.ok = TRUE]
      BY <2>1, <3>1 DEF Panel!JobShape
    <3> QED
      BY <3>1, <3>2 DEF Panel!JobShape
  <2>3. Panel!News(j)'
    BY <2>1, <2>2 DEF Panel!News
  <2> QED
    BY <1>3, <2>3 DEF Panel!IInv, Panel!Synced
<1>5. CASE Panel!Refuse(j)
  <2>1. UNCHANGED <<v1, v11>>
    BY <1>5 DEF Panel!Refuse, Panel!server
  <2>2. \A k \in PanelCalls : Panel!News(k) => Panel!News(k)'
    BY <1>5 DEF Panel!Refuse, Panel!IInv, Panel!Shaped, Panel!JobShape, Panel!News
  <2> QED
    BY <1>1, <1>3, <2>1, <2>2 DEF Panel!IInv, Panel!Synced, Panel!Current
<1>6. CASE Panel!Lose(j)
  BY <1>3, <1>6 DEF Panel!Lose, Panel!IInv, Panel!Synced
<1> QED
  BY <1>4, <1>5, <1>6

(* The screen hears of it, and so does the list.                           *)
LEMMA PanelHears ==
  ASSUME Panel!IInv, NEW j \in PanelCalls, Panel!Settle(j)
  PROVE  Panel!IInv'
<1>1. /\ UNCHANGED <<v1, v3>> /\ v9' = [v9 EXCEPT ![j] = Panel!Done]
      /\ IF v9[j].ok
         THEN v4' = Panel!Refreshed(j) /\ v11' = (v11 \/ (~v3 /\ ~Panel!AtRest(v4)))
         ELSE UNCHANGED <<v4, v11>>
  BY DEF Panel!Settle, Panel!server
<1>2. v9' = [k \in PanelCalls |-> v9'[k]] /\ \A k \in PanelCalls : Panel!JobShape(v9'[k])
  BY <1>1 DEF Panel!Done, Panel!NoJob, Panel!IInv, Panel!Shaped, Panel!JobShape
<1>3. v9[j].ok \in BOOLEAN
  BY DEF Panel!IInv, Panel!Shaped, Panel!JobShape
<1>4. CASE ~v9[j].ok
  <2>1. UNCHANGED <<v4, v11>>
    BY <1>1, <1>4
  <2>2. Panel!Shaped'
    BY <1>1, <1>2, <2>1 DEF Panel!IInv, Panel!Shaped, Panel!QueryShape
  <2>3. \A k \in PanelCalls : Panel!News(k) => Panel!News(k)'
    BY <1>1, <1>4 DEF Panel!IInv, Panel!Shaped, Panel!News
  <2> QED
    BY <1>1, <2>1, <2>2, <2>3 DEF Panel!IInv, Panel!Synced, Panel!Current
<1>5. CASE v9[j].ok
  <2>1. v4' = Panel!Invalidated(v4, v3) /\ v11' = (v11 \/ (~v3 /\ ~Panel!AtRest(v4)))
    BY <1>1, <1>5 DEF Panel!Refreshed
  <2>2. v11' \in BOOLEAN /\ (~v11' => v3 \/ v4.fetch = "none")
    BY <2>1 DEF Panel!AtRest, Panel!IInv, Panel!Shaped
  <2>3. /\ Panel!QueryShape(v4)'
        /\ v3 => v4'.fetch = "asked"
        /\ ~v3 => v4'.fetch = v4.fetch /\ v4'.stale
    BY <2>1 DEF Panel!Invalidated, Panel!Asked, Panel!IInv, Panel!Shaped, Panel!QueryShape
  <2>4. Panel!Shaped'
    BY <1>1, <1>2, <2>2, <2>3 DEF Panel!IInv, Panel!Shaped
  <2>5. ~v11' => Panel!Current'
    BY <1>1, <2>2, <2>3 DEF Panel!Current, Panel!IInv, Panel!Shaped
  <2> QED
    BY <2>4, <2>5 DEF Panel!IInv, Panel!Synced
<1> QED
  BY <1>3, <1>4, <1>5

LEMMA PanelInductive ==
  ASSUME Panel!IInv, [Panel!Next]_Panel!vars
  PROVE  Panel!IInv'
<1>1. CASE UNCHANGED Panel!vars
  BY <1>1 DEF Panel!vars, Panel!IInv, Panel!Shaped, Panel!Synced, Panel!Current, Panel!News,
     Panel!QueryShape, Panel!JobShape
<1>2. CASE Panel!Stranger
  <2>1. v11' = TRUE /\ UNCHANGED <<v3, v4, v9>>
    BY <1>2 DEF Panel!Stranger
  <2> QED
    BY <2>1 DEF Panel!IInv, Panel!Shaped, Panel!Synced, Panel!QueryShape, Panel!JobShape
<1> QED
  BY <1>1, <1>2, PanelOpens, PanelReads, PanelStarts, PanelAnswers, PanelHears DEF Panel!Next

LEMMA PanelMeans == Panel!IInv => Panel!PanelSettles
BY DEF Panel!IInv, Panel!Synced, Panel!Current, Panel!News, Panel!PanelSettles, Panel!AtRest

-----------------------------------------------------------------------------
(* One ticket: TicketScreen.tla, whose ticket, viewer, screen, detail,     *)
(* call, confirm, form, others and missed are v1 to v9 here.               *)

LEMMA DetailInit ==
  ASSUME Detail!Init
  PROVE  Detail!IInv
BY DEF Detail!Init, Detail!NewQuery, Detail!NoCall, Detail!Blank, Detail!Gone, Detail!IInv,
   Detail!Shaped, Detail!Synced, Detail!Current, Detail!QueryShape, Detail!CallShape

LEMMA DetailDisowned ==
  ASSUME Detail!IInv, NEW c \in Detail!Calls
  PROVE  /\ Detail!Disowned = [k \in Detail!Calls |-> Detail!Disowned[k]]
         /\ Detail!CallShape(Detail!Disowned[c])
            /\ (Detail!News(v5[c]) => Detail!News(Detail!Disowned[c]))
<1>1. Detail!Disowned[c] = [v5[c] EXCEPT !.mine = FALSE] /\ Detail!CallShape(v5[c])
  BY DEF Detail!Disowned, Detail!IInv, Detail!Shaped
<1>2. /\ Detail!CallShape(Detail!Disowned[c]) /\ Detail!Disowned[c].kind = v5[c].kind
      /\ Detail!Disowned[c].pc = v5[c].pc /\ Detail!Disowned[c].answer = v5[c].answer
  BY <1>1 DEF Detail!CallShape
<1>3. Detail!Disowned = [k \in Detail!Calls |-> Detail!Disowned[k]]
  BY DEF Detail!Disowned
<1> QED
  BY <1>2, <1>3 DEF Detail!News

LEMMA DetailOpens ==
  ASSUME Detail!IInv, NEW route \in {"detail", "edit", "away"}, Detail!Open(route)
  PROVE  Detail!IInv'
<1>1. /\ UNCHANGED <<v1, v9>> /\ v3 # route /\ v3' = route /\ v5' = Detail!Disowned
      /\ v7' = IF route = "edit" THEN Detail!FilledBy(v4, Detail!Blank) ELSE Detail!Blank
  BY DEF Detail!Open, Detail!server
<1>2. PICK fresh \in BOOLEAN :
        v4' = IF route = "away" THEN v4
                  ELSE Detail!Opened([v4 EXCEPT !.stale = @ \/ ~fresh])
  BY DEF Detail!Open
<1> DEFINE touched == [v4 EXCEPT !.stale = @ \/ ~fresh]
<1>3. /\ Detail!QueryShape(touched) /\ touched.fetch = v4.fetch /\ touched.data = v4.data
      /\ touched.got = v4.got /\ (touched.error <=> v4.error)
      /\ v4.stale => touched.stale
  BY DEF Detail!IInv, Detail!Shaped, Detail!QueryShape
<1> HIDE DEF touched
<1>4. \/ route = "away" /\ v4' = v4
      \/ route # "away" /\ v4' = Detail!Opened(touched)
  BY <1>2 DEF touched
<1>5. /\ Detail!QueryShape(v4')
      /\ \/ v4'.fetch = "asked"
         \/ route = "away" /\ v4' = v4
         \/ v4' = touched /\ ~(touched.fetch = "none" /\ touched.stale)
  <2>1. CASE route = "away"
    BY <1>4, <2>1 DEF Detail!IInv, Detail!Shaped
  <2>2. CASE route # "away"
    BY <1>3, <1>4, <2>2 DEF Detail!Opened, Detail!Asked, Detail!QueryShape
  <2> QED
    BY <2>1, <2>2
<1>6. v7' \in Detail!Tickets \cup {Detail!Blank}
  BY <1>1 DEF Detail!FilledBy, Detail!Blank, Detail!IInv, Detail!Shaped, Detail!QueryShape
<1>7. Detail!Shaped'
  <2>1. Detail!QueryShape(v4)'
    BY <1>5 DEF Detail!QueryShape, Detail!Tickets
  <2>2. (v5 = [c \in Detail!Calls |-> v5[c]] /\ \A c \in Detail!Calls : Detail!CallShape(v5[c]))'
    BY <1>1, DetailDisowned DEF Detail!CallShape, Detail!Tickets, Detail!Gone, Detail!Calls,
       Detail!Disowned
  <2> QED
    BY <1>1, <1>6, <2>1, <2>2 DEF Detail!IInv, Detail!Shaped, Detail!Tickets, Detail!Gone,
       Detail!Blank
<1>8. Detail!Current => Detail!Current'
  BY <1>1, <1>3, <1>5 DEF Detail!Current
<1> QED
  BY <1>1, <1>7, <1>8, DetailDisowned DEF Detail!IInv, Detail!Synced

LEMMA DetailReads ==
  ASSUME Detail!IInv, Detail!Serve \/ Detail!FailFetch \/ Detail!Take \/ Detail!Retry
  PROVE  Detail!IInv'
<1>1. UNCHANGED <<v1, v3, v5>>
  BY DEF Detail!Serve, Detail!FailFetch, Detail!Take, Detail!Retry, Detail!server
<1>2. Detail!QueryShape(v4')
  BY DEF Detail!Serve, Detail!FailFetch, Detail!Take, Detail!Retry, Detail!AnsweredWith,
     Detail!Taken, Detail!Asked, Detail!Gone, Detail!IInv, Detail!Shaped, Detail!QueryShape
<1>3. v9' \in BOOLEAN /\ v7' \in Detail!Tickets \cup {Detail!Blank}
  <2>1. CASE Detail!Take
    <3>1. Detail!Taken(v4).data \in Detail!Tickets \cup {Unset}
      BY <1>2, <2>1 DEF Detail!Take, Detail!QueryShape
    <3> QED
      BY <2>1, <3>1 DEF Detail!Take, Detail!FilledBy, Detail!Blank, Detail!IInv, Detail!Shaped
  <2> QED
    BY <2>1 DEF Detail!Serve, Detail!FailFetch, Detail!Retry, Detail!IInv, Detail!Shaped
<1>4. Detail!Shaped'
  BY <1>1, <1>2, <1>3 DEF Detail!IInv, Detail!Shaped, Detail!QueryShape, Detail!CallShape,
     Detail!Tickets, Detail!Gone, Detail!Blank, Detail!Calls
<1>5. CASE Detail!Serve
  <2>1. v4' = Detail!AnsweredWith(v4, IF v1 = Detail!Gone THEN Failure ELSE v1)
    BY <1>5 DEF Detail!Serve
  <2>2. Detail!Current'
    BY <1>1, <2>1 DEF Detail!AnsweredWith, Detail!Current, Detail!IInv, Detail!Shaped,
       Detail!QueryShape
  <2> QED
    BY <1>4, <2>2 DEF Detail!IInv, Detail!Synced
<1>6. CASE Detail!FailFetch \/ Detail!Retry
  <2>1. /\ UNCHANGED v9
        /\ v4'.fetch = "asked" \/ (v4'.fetch = "answered" /\ v4'.got = Failure)
    BY <1>6 DEF Detail!FailFetch, Detail!Retry, Detail!AnsweredWith, Detail!Asked, Detail!IInv,
       Detail!Shaped, Detail!QueryShape
  <2>2. Detail!Current'
    BY <2>1 DEF Detail!Current
  <2> QED
    BY <1>4, <2>2 DEF Detail!IInv, Detail!Synced
<1>7. CASE Detail!Take
  <2>1. UNCHANGED v9 /\ v4.fetch = "answered" /\ v4' = Detail!Taken(v4)
    BY <1>7 DEF Detail!Take
  <2>2. v4'.fetch = "none" /\ (v4.got = Failure => v4'.error)
        /\ (v4.got # Failure => v4'.data = v4.got)
    BY <2>1 DEF Detail!Taken, Detail!IInv, Detail!Shaped, Detail!QueryShape
  <2>3. Detail!Current => Detail!Current'
    BY <1>1, <2>1, <2>2 DEF Detail!Current
  <2> QED
    BY <1>1, <1>4, <2>1, <2>3 DEF Detail!IInv, Detail!Synced, Detail!News, Detail!Calls
<1> QED
  BY <1>5, <1>6, <1>7

(* A mutation starts.                                                      *)
LEMMA DetailStarts ==
  ASSUME Detail!IInv, NEW c \in Detail!Calls, NEW kind, NEW arg, NEW previous,
         Detail!Start(c, kind, arg, previous),
         kind = "status" => arg \in TicketStatuses /\ previous \in Detail!Tickets,
         kind = "edit" => arg \in Detail!Tickets,
         kind # "status" => UNCHANGED v4, Detail!QueryShape(v4'),
         UNCHANGED <<v1, v3, v7, v9>>
  PROVE  Detail!IInv'
<1>1. /\ v5[c] = Detail!NoCall
      /\ v5' = [v5 EXCEPT ![c] = [kind |-> kind, pc |-> "sent", arg |-> arg,
                previous |-> previous, answer |-> Unset, mine |-> TRUE]]
  BY DEF Detail!Start
<1>2. /\ v5 = [k \in Detail!Calls |-> v5[k]]
      /\ \A k \in Detail!Calls : Detail!CallShape(v5[k])
  BY DEF Detail!IInv, Detail!Shaped
<1>3. /\ v5' = [k \in Detail!Calls |-> v5'[k]]
      /\ \A k \in Detail!Calls \ {c} : v5'[k] = v5[k]
      /\ v5'[c] = [kind |-> kind, pc |-> "sent", arg |-> arg,
                previous |-> previous, answer |-> Unset, mine |-> TRUE]
  BY <1>1, <1>2
<1>4. \A k \in Detail!Calls : Detail!CallShape(v5'[k])
  BY <1>2, <1>3 DEF Detail!CallShape
<1>5. Detail!Shaped'
  BY <1>3, <1>4 DEF Detail!IInv, Detail!Shaped, Detail!QueryShape, Detail!CallShape, Detail!Tickets,
     Detail!Gone, Detail!Blank, Detail!Calls
<1>6. ~Detail!News(v5[c])
  BY <1>1 DEF Detail!News, Detail!NoCall
<1>7. \A k \in Detail!Calls : Detail!News(v5[k]) => Detail!News(v5'[k])
  BY <1>3, <1>6
<1>8. kind = "status" => Detail!News(v5'[c])
  BY <1>3 DEF Detail!News
<1>9. Detail!Synced'
  BY <1>7, <1>8 DEF Detail!IInv, Detail!Synced, Detail!Current, Detail!News, Detail!Calls
<1> QED
  BY <1>5, <1>9 DEF Detail!IInv

LEMMA DetailPresses ==
  ASSUME Detail!IInv, NEW c \in Detail!Calls,
         \/ \E s \in TicketStatuses : Detail!ChangeStatus(c, s)
         \/ Detail!SubmitEdit(c) \/ Detail!Remove(c) \/ Detail!TouchActivity(c)
  PROVE  Detail!IInv'
<1>1. UNCHANGED <<v1, v3, v7, v9>>
  BY DEF Detail!ChangeStatus, Detail!SubmitEdit, Detail!Remove, Detail!TouchActivity, Detail!server
<1>2. Detail!QueryShape(v4)
  BY DEF Detail!IInv, Detail!Shaped
<1>3. ASSUME NEW s \in TicketStatuses, Detail!ChangeStatus(c, s)
      PROVE  Detail!IInv'
  <2>1. /\ Detail!Start(c, "status", s, v4.data) /\ v4.data \in Detail!Tickets
        /\ v4' = Detail!Written(Detail!Cancelled(v4), [v4.data EXCEPT !.status = s])
    BY <1>2, <1>3 DEF Detail!ChangeStatus, Detail!Showing, Detail!QueryShape
  <2>2. [v4.data EXCEPT !.status = s] \in Detail!Tickets
    BY <2>1 DEF Detail!Tickets
  <2>3. Detail!QueryShape(v4')
    BY <1>2, <2>1, <2>2 DEF Detail!Written, Detail!Cancelled, Detail!QueryShape
  <2> QED
    BY <1>1, <2>1, <2>3, DetailStarts
<1>4. CASE Detail!SubmitEdit(c)
  <2>1. Detail!Start(c, "edit", v7, Unset) /\ v7 \in Detail!Tickets /\ v4' = v4
    BY <1>4 DEF Detail!SubmitEdit, Detail!Editing, Detail!IInv, Detail!Shaped
  <2> QED
    BY <1>1, <1>2, <2>1, DetailStarts
<1>5. CASE Detail!Remove(c)
  <2>1. Detail!Start(c, "remove", Detail!Blank, Unset) /\ v4' = v4
    BY <1>5 DEF Detail!Remove
  <2> QED
    BY <1>1, <1>2, <2>1, DetailStarts
<1>6. CASE Detail!TouchActivity(c)
  <2>1. Detail!Start(c, "activity", Detail!Blank, Unset) /\ v4' = v4
    BY <1>6 DEF Detail!TouchActivity
  <2> QED
    BY <1>1, <1>2, <2>1, DetailStarts
<1> QED
  BY <1>3, <1>4, <1>5, <1>6

(* The form and the dialog.                                                *)
LEMMA DetailTypes ==
  ASSUME Detail!IInv, Detail!Ask \/ Detail!Dismiss \/ \E f \in Detail!Tickets : Detail!Type(f)
  PROVE  Detail!IInv'
<1>1. UNCHANGED <<v1, v3, v4, v5, v9>> /\ v7' \in Detail!Tickets \cup {Detail!Blank}
  BY DEF Detail!Ask, Detail!Dismiss, Detail!Type, Detail!server, Detail!IInv, Detail!Shaped
<1>2. Detail!Shaped'
  BY <1>1 DEF Detail!IInv, Detail!Shaped, Detail!QueryShape, Detail!CallShape, Detail!Tickets,
     Detail!Gone, Detail!Blank, Detail!Calls
<1>3. Detail!Synced'
  BY <1>1 DEF Detail!IInv, Detail!Synced, Detail!Current, Detail!News, Detail!Calls
<1> QED
  BY <1>2, <1>3 DEF Detail!IInv

(* The server answers, or the answer is lost.                              *)
LEMMA DetailAnswered ==
  ASSUME Detail!IInv, NEW c \in Detail!Calls,
         NEW answer \in Detail!Tickets \cup {Detail!Gone, Failure},
         v5[c].kind \in {"status", "edit"} => answer # Detail!Gone, v5' = Detail!Answered(c, answer)
  PROVE  /\ v5' = [k \in Detail!Calls |-> v5'[k]]
           /\ \A k \in Detail!Calls : Detail!CallShape(v5'[k])
         /\ \A k \in Detail!Calls \ {c} : v5'[k] = v5[k]
         /\ v5'[c].kind = v5[c].kind /\ v5'[c].pc = "answered" /\ v5'[c].answer = answer
<1>1. /\ v5 = [k \in Detail!Calls |-> v5[k]]
      /\ \A k \in Detail!Calls : Detail!CallShape(v5[k])
  BY DEF Detail!IInv, Detail!Shaped
<1>2. /\ v5' = [k \in Detail!Calls |-> v5'[k]]
      /\ \A k \in Detail!Calls \ {c} : v5'[k] = v5[k]
      /\ v5'[c] = [[v5[c] EXCEPT !.pc = "answered"] EXCEPT !.answer = answer]
  BY <1>1 DEF Detail!Answered, Detail!CallShape
<1>3. /\ v5'[c].kind = v5[c].kind /\ v5'[c].pc = "answered" /\ v5'[c].answer = answer
      /\ Detail!CallShape(v5'[c])
  BY <1>1, <1>2 DEF Detail!CallShape
<1> QED
  BY <1>1, <1>2, <1>3

LEMMA DetailAnswers ==
  ASSUME Detail!TicketScreenAssumption, Detail!IInv, NEW c \in Detail!Calls,
         Detail!Accept(c) \/ Detail!Refuse(c) \/ Detail!Lose(c)
  PROVE  Detail!IInv'
<1>1. UNCHANGED <<v3, v4, v7>>
  BY DEF Detail!Accept, Detail!Refuse, Detail!Lose, Detail!server
<1>2. Detail!CallShape(v5[c]) /\ v1 \in Detail!Tickets \cup {Detail!Gone} /\ v9 \in BOOLEAN
  BY DEF Detail!IInv, Detail!Shaped
<1>3. PICK answer \in Detail!Tickets \cup {Detail!Gone, Failure} :
        /\ v5' = Detail!Answered(c, answer)
           /\ (v5[c].kind \in {"status", "edit"} => answer # Detail!Gone)
        /\ v1' \in Detail!Tickets \cup {Detail!Gone} /\ v9' \in BOOLEAN
        /\ \/ answer # Failure /\ v5[c].kind # "none"
           \/ UNCHANGED v1 /\ answer = Failure
              /\ (~v9' => ~v9 /\ (Detail!News(v5[c]) => v5[c].kind = "status"))
  <2>1. CASE Detail!Accept(c)
    <3>1. /\ v1 \in Detail!Tickets /\ UNCHANGED v9 /\ v5' = Detail!Answered(c, v1')
          /\ v5[c].kind \in {"status", "edit", "remove", "activity"}
      BY <1>2, <2>1 DEF Detail!Accept, Detail!Sent
    <3>2. /\ v1' \in Detail!Tickets \cup {Detail!Gone}
          /\ v5[c].kind \in {"status", "edit"} => v1' \in Detail!Tickets
      BY <1>2, <2>1, <3>1 DEF Detail!Accept, Detail!Sent, Detail!CallShape, Detail!Tickets
    <3> QED
      BY <1>2, <3>1, <3>2 DEF Detail!TicketScreenAssumption, Detail!Tickets, Detail!Gone
  <2>2. CASE Detail!Refuse(c)
    BY <1>2, <2>2 DEF Detail!Refuse, Detail!server, Detail!TicketScreenAssumption, Detail!Tickets,
       Detail!Gone, Detail!News
  <2>3. CASE Detail!Lose(c)
    <3>1. v9' \in BOOLEAN /\ (~v9' => ~v9 /\ v5[c].kind = "status")
      BY <1>2, <2>3 DEF Detail!Lose
    <3> QED
      BY <1>2, <2>3, <3>1 DEF Detail!Lose, Detail!server, Detail!TicketScreenAssumption,
         Detail!Tickets, Detail!Gone
  <2> QED
    BY <2>1, <2>2, <2>3
<1>4. /\ v5' = [k \in Detail!Calls |-> v5'[k]] /\ \A k \in Detail!Calls : Detail!CallShape(v5'[k])
      /\ \A k \in Detail!Calls \ {c} : v5'[k] = v5[k]
      /\ v5'[c].kind = v5[c].kind /\ v5'[c].pc = "answered" /\ v5'[c].answer = answer
  BY <1>3, DetailAnswered
<1>5. Detail!Shaped'
  BY <1>1, <1>3, <1>4 DEF Detail!IInv, Detail!Shaped, Detail!QueryShape, Detail!CallShape,
     Detail!Tickets, Detail!Gone, Detail!Blank, Detail!Calls
<1>6. CASE answer # Failure /\ v5[c].kind # "none"
  <2>1. Detail!News(v5'[c])
    BY <1>4, <1>6 DEF Detail!News
  <2> QED
    BY <1>5, <2>1 DEF Detail!IInv, Detail!Synced, Detail!News, Detail!Calls
<1>7. CASE UNCHANGED v1 /\ (~v9' => ~v9 /\ (Detail!News(v5[c]) => v5[c].kind = "status"))
  <2>1. ~v9' => \A k \in Detail!Calls : Detail!News(v5[k]) => Detail!News(v5'[k])
    BY <1>4, <1>7 DEF Detail!News
  <2>2. Detail!Synced'
    BY <1>1, <1>7, <2>1 DEF Detail!IInv, Detail!Synced, Detail!Current, Detail!News, Detail!Calls
  <2> QED
    BY <1>5, <2>2 DEF Detail!IInv
<1> QED
  BY <1>3, <1>6, <1>7

(* The screen hears of it.                                                 *)
LEMMA DetailSettled ==
  ASSUME Detail!IInv, NEW c \in Detail!Calls, v5' = [v5 EXCEPT ![c] = Detail!Settled]
  PROVE  /\ v5' = [k \in Detail!Calls |-> v5'[k]]
           /\ \A k \in Detail!Calls : Detail!CallShape(v5'[k])
         /\ \A k \in Detail!Calls \ {c} : v5'[k] = v5[k]
<1>1. /\ v5 = [k \in Detail!Calls |-> v5[k]]
      /\ \A k \in Detail!Calls : Detail!CallShape(v5[k])
  BY DEF Detail!IInv, Detail!Shaped
<1>2. /\ v5' = [k \in Detail!Calls |-> v5'[k]]
      /\ \A k \in Detail!Calls \ {c} : v5'[k] = v5[k]
      /\ v5'[c] = Detail!Settled
  BY <1>1
<1>3. Detail!CallShape(v5'[c])
  BY <1>2 DEF Detail!Settled, Detail!NoCall, Detail!CallShape
<1> QED
  BY <1>1, <1>2, <1>3

(* The ticket is asked for again, or nobody is told of it.                 *)
LEMMA DetailHears ==
  ASSUME Detail!IInv, NEW c \in Detail!Calls, v5' = [v5 EXCEPT ![c] = Detail!Settled],
         NEW q, Detail!QueryShape(q), q.fetch = v4.fetch, NEW shown \in BOOLEAN,
         v4' = Detail!Invalidated(q, shown), v9' = (v9 \/ Detail!Overtaken),
         ~shown => v3 = "away" /\ v3' = "away",
         v3' \in {"detail", "edit",
                  "away"}, v7' \in Detail!Tickets \cup {Detail!Blank}, UNCHANGED v1
  PROVE  Detail!IInv'
<1>1. /\ Detail!QueryShape(v4')
      /\ shown => v4'.fetch = "asked"
      /\ ~shown => v4'.fetch = q.fetch /\ v4'.stale
  BY DEF Detail!Invalidated, Detail!Asked, Detail!QueryShape
<1>2. v9' \in BOOLEAN /\ (~v9' => shown \/ v4.fetch = "none")
  BY DEF Detail!Overtaken, Detail!Shown, Detail!AtRest, Detail!IInv, Detail!Shaped
<1>3. Detail!Shaped'
  BY <1>1, <1>2, DetailSettled DEF Detail!IInv, Detail!Shaped, Detail!QueryShape, Detail!CallShape,
     Detail!Tickets, Detail!Gone, Detail!Blank, Detail!Calls
<1>4. ~v9' => Detail!Current'
  BY <1>1, <1>2 DEF Detail!Current
<1> QED
  BY <1>3, <1>4 DEF Detail!IInv, Detail!Synced

LEMMA DetailFails ==
  ASSUME Detail!IInv, NEW c \in Detail!Calls, v5' = [v5 EXCEPT ![c] = Detail!Settled],
         ~Detail!News(v5[c]), UNCHANGED <<v1, v3, v4, v7, v9>>
  PROVE  Detail!IInv'
<1>1. Detail!Shaped'
  BY DetailSettled DEF Detail!IInv, Detail!Shaped, Detail!QueryShape, Detail!CallShape,
     Detail!Tickets, Detail!Gone, Detail!Blank, Detail!Calls
<1>2. \A k \in Detail!Calls : Detail!News(v5[k]) => Detail!News(v5'[k])
  BY DetailSettled
<1>3. Detail!Synced'
  BY <1>2 DEF Detail!IInv, Detail!Synced, Detail!Current, Detail!News, Detail!Calls
<1> QED
  BY <1>1, <1>3 DEF Detail!IInv

LEMMA DetailLands ==
  ASSUME Detail!IInv, NEW c \in Detail!Calls,
         Detail!StatusSettled(c) \/ Detail!EditSettled(c) \/ Detail!RemoveSettled(c)
               \/ Detail!ActivitySettled(c)
  PROVE  Detail!IInv'
<1>1. /\ Detail!QueryShape(v4) /\ Detail!CallShape(v5[c])
         /\ v7 \in Detail!Tickets \cup {Detail!Blank}
      /\ v3 \in {"detail", "edit", "away"}
  BY DEF Detail!IInv, Detail!Shaped
<1>2. UNCHANGED v1 /\ v5[c].pc = "answered"
  BY DEF Detail!StatusSettled, Detail!EditSettled, Detail!RemoveSettled, Detail!ActivitySettled,
     Detail!Land, Detail!Landing, Detail!server
<1>3. Detail!Shown \in BOOLEAN /\ (~Detail!Shown => v3 = "away")
  BY DEF Detail!Shown
<1>4. ASSUME NEW value \in Detail!Tickets
      PROVE  Detail!QueryShape(Detail!Written(v4, value))
            /\ Detail!Written(v4, value).fetch = v4.fetch
  <2>1. ASSUME NEW q, q = [v4 EXCEPT !.data = value, !.error = FALSE, !.stale = FALSE]
        PROVE  Detail!QueryShape(q) /\ q.fetch = v4.fetch
    BY <1>1, <1>4, <2>1 DEF Detail!QueryShape
  <2> QED
    BY <2>1 DEF Detail!Written
<1>5. CASE Detail!StatusSettled(c)
  <2> DEFINE value == IF v5[c].answer = Failure THEN v5[c].previous ELSE v5[c].answer
  <2>1. value \in Detail!Tickets
    BY <1>1, <1>2, <1>5 DEF Detail!StatusSettled, Detail!Land, Detail!Landing, Detail!CallShape
  <2>2. /\ v5' = [v5 EXCEPT ![c] = Detail!Settled]
           /\ v4' = Detail!Invalidated(Detail!Written(v4, value), Detail!Shown)
        /\ v9' = (v9 \/ Detail!Overtaken) /\ UNCHANGED <<v3, v7>>
    BY <1>5 DEF Detail!StatusSettled, Detail!Land, Detail!Refreshed
  <2> HIDE DEF value
  <2> QED
    BY <1>1, <1>2, <1>3, <1>4, <2>1, <2>2, DetailHears
<1>6. CASE Detail!EditSettled(c) /\ v5[c].answer # Failure
  <2>1. v5[c].answer \in Detail!Tickets
    BY <1>1, <1>2, <1>6 DEF Detail!EditSettled, Detail!Land, Detail!Landing, Detail!CallShape
  <2>2. /\ v5' = [v5 EXCEPT ![c] = Detail!Settled]
        /\ v4' = Detail!Invalidated(Detail!Written(v4, v5[c].answer), TRUE)
        /\ v9' = (v9 \/ Detail!Overtaken) /\ v3' = "detail" /\ v7' = Detail!Blank
    BY <1>6 DEF Detail!EditSettled, Detail!Land, Detail!Refreshed
  <2> QED
    BY <1>2, <1>4, <2>1, <2>2, DetailHears
<1>7. CASE Detail!ActivitySettled(c) /\ v5[c].answer # Failure
  <2>1. /\ v5' = [v5 EXCEPT ![c] = Detail!Settled] /\ v4' = Detail!Invalidated(v4, Detail!Shown)
        /\ v9' = (v9 \/ Detail!Overtaken) /\ UNCHANGED <<v3, v7>>
    BY <1>7 DEF Detail!ActivitySettled, Detail!Land, Detail!Refreshed
  <2> QED
    BY <1>1, <1>2, <1>3, <2>1, DetailHears
<1>8. CASE Detail!RemoveSettled(c) /\ v5[c].answer # Failure
  <2>1. /\ v5' = [Detail!Disowned EXCEPT ![c] = Detail!Settled] /\ v3' = "away"
           /\ v4' = Detail!NewQuery
        /\ v7' = Detail!Blank /\ UNCHANGED v9
    BY <1>8 DEF Detail!RemoveSettled
  <2>2. /\ v5' = [k \in Detail!Calls |-> v5'[k]] /\ v5'[c] = Detail!Settled
        /\ \A k \in Detail!Calls \ {c} : v5'[k] = Detail!Disowned[k]
    BY <2>1, DetailDisowned
  <2>3. Detail!CallShape(v5'[c])
    BY <2>2 DEF Detail!Settled, Detail!NoCall, Detail!CallShape
  <2>4. \A k \in Detail!Calls : Detail!CallShape(v5'[k])
    BY <2>2, <2>3, DetailDisowned
  <2>5. Detail!QueryShape(v4') /\ v4'.data = Unset /\ v4'.fetch = "none"
    BY <2>1 DEF Detail!NewQuery, Detail!QueryShape
  <2>6. Detail!Shaped'
    BY <1>2, <2>1, <2>2, <2>4, <2>5
       DEF Detail!IInv, Detail!Shaped, Detail!QueryShape, Detail!CallShape, Detail!Tickets,
          Detail!Gone, Detail!Blank, Detail!Calls
  <2>7. Detail!Current'
    BY <2>5 DEF Detail!Current
  <2> QED
    BY <2>6, <2>7 DEF Detail!IInv, Detail!Synced
<1>9. CASE ~Detail!StatusSettled(c) /\ v5[c].answer = Failure
  <2>1. /\ v5' = [v5 EXCEPT ![c] = Detail!Settled] /\ UNCHANGED <<v3, v4, v7, v9>>
        /\ v5[c].kind # "status"
    BY <1>9 DEF Detail!EditSettled, Detail!RemoveSettled, Detail!ActivitySettled, Detail!Land,
       Detail!Landing
  <2>2. ~Detail!News(v5[c])
    BY <1>9, <2>1 DEF Detail!News
  <2> QED
    BY <1>2, <2>1, <2>2, DetailFails
<1> QED
  BY <1>5, <1>6, <1>7, <1>8, <1>9

LEMMA DetailInductive ==
  ASSUME Detail!TicketScreenAssumption, Detail!IInv, [Detail!Next]_Detail!vars
  PROVE  Detail!IInv'
<1>1. CASE UNCHANGED Detail!vars
  <2>1. Detail!Shaped'
    BY <1>1 DEF Detail!vars, Detail!IInv, Detail!Shaped, Detail!QueryShape, Detail!CallShape,
       Detail!Tickets, Detail!Gone, Detail!Blank, Detail!Calls
  <2>2. Detail!Synced'
    BY <1>1 DEF Detail!vars, Detail!IInv, Detail!Synced, Detail!Current, Detail!News, Detail!Calls
  <2> QED
    BY <2>1, <2>2 DEF Detail!IInv
<1>2. CASE Detail!Another
  <2>1. /\ v9' = TRUE /\ v1' \in Detail!Tickets \cup {Detail!Gone}
        /\ UNCHANGED <<v3, v4, v5, v7>>
    BY <1>2 DEF Detail!Another
  <2>2. Detail!Shaped'
    BY <2>1 DEF Detail!IInv, Detail!Shaped, Detail!QueryShape, Detail!CallShape, Detail!Tickets,
       Detail!Gone, Detail!Blank, Detail!Calls
  <2> QED
    BY <2>1, <2>2 DEF Detail!IInv, Detail!Synced
<1> QED
  BY <1>1, <1>2, DetailOpens, DetailReads, DetailPresses, DetailTypes, DetailAnswers, DetailLands
       DEF Detail!Next

LEMMA DetailMeans == Detail!IInv => Detail!ScreenSettles
BY DEF Detail!IInv, Detail!Synced, Detail!Current, Detail!News, Detail!ScreenSettles,
   Detail!UnderWay, Detail!Showing, Detail!AtRest
=============================================================================
