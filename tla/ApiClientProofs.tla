-------------------------- MODULE ApiClientProofs --------------------------
(***************************************************************************)
(* What the single-flight refresh of the client guarantees for any number  *)
(* of tabs, calls and expiries: until the network loses the answer of a    *)
(* refresh, somebody ends the session, a page is reloaded or two tabs      *)
(* refresh at once, the client never presents a rotated refresh token and  *)
(* never loses the session.                                                *)
(***************************************************************************)
EXTENDS ApiClient, FiniteSetTheorems, TLAPS

(* The user stays signed in: nothing but calls and expiries happens.       *)
Staid ==
  \A t \in Tabs : hasSession[t] /\ leaving[t] = Staying /\ entering[t] = 0

(* At most one tab is refreshing.  The one working token is in storage, and *)
(* is the one a refresh going out presents; once exchanged, its successor  *)
(* is what the refresh will store.                                         *)
Quiet(them) == \A t \in them : flight[t] = NoFlight

Underway(t) ==
  /\ Quiet(Tabs \ {t})
  /\ \/ /\ flight[t] = [at |-> "sent", tok |-> issued, got |-> 0]
        /\ disk = issued /\ issued <= lapsed
     \/ /\ flight[t] = [at |-> "served", tok |-> disk, got |-> issued]
        /\ disk = issued - 1 /\ disk # 0

OneWorkingToken ==
  /\ live = {issued} /\ ~reuse
  /\ \/ disk = issued /\ Quiet(Tabs)
     \/ \E t \in Tabs : Underway(t)

(* A call holds a pair that was issued; a refused one has expired, and one *)
(* that waits has a refresh to wait for.                                   *)
CallsHoldIssued ==
  \A c \in Calls :
    /\ pc[c] # "idle" => held[c] # 0
    /\ held[c] <= issued
    /\ pc[c] = "rejected" => held[c] <= lapsed
    /\ pc[c] = "joined" => flight[Home[c]] # NoFlight

IInv ==
  /\ TypeOK /\ Staid /\ OneWorkingToken /\ CallsHoldIssued
  /\ issued <= lapsed + 1

(* The invariant of the specification: all of that, until a mishap.        *)
CalmInv == mishaps = {} => IInv

-----------------------------------------------------------------------------

LEMMA InitEstablishes == Init => IInv
<1> SUFFICES ASSUME Init PROVE IInv
  OBVIOUS
<1> USE ApiClientAssumption DEF Init, NoFlight, Staying, MaxPairs, Pairs
<1>1. TypeOK
  <2>1. 1 \in Pairs /\ 0 \in 0 .. MaxPairs /\ 1 \in 0 .. MaxPairs
    OBVIOUS
  <2>2. NoFlight \in Flights /\ Staying \in [at : {"no", "revoking", "clearing"}, tok : 0 .. MaxPairs]
    BY <2>1 DEF Flights
  <2>3. flight \in [Tabs -> Flights]
    BY <2>2
  <2>4. leaving \in [Tabs -> [at : {"no", "revoking", "clearing"}, tok : 0 .. MaxPairs]]
    BY <2>2
  <2>5. disk \in 0 .. MaxPairs /\ issued \in Pairs /\ live \subseteq 1 .. issued
    BY <2>1
  <2>6. /\ lapsed \in 0 .. MaxLapses /\ signIns \in 0 .. MaxSignIns
        /\ reuse \in BOOLEAN /\ mishaps \subseteq Mishaps
    <3>1. lapsed \in 0 .. MaxLapses /\ signIns \in 0 .. MaxSignIns /\ mishaps \subseteq Mishaps
      OBVIOUS
    <3>2. reuse \in BOOLEAN
      BY Zenon
    <3> QED
      BY ONLY <3>1, <3>2
  <2>7. hasSession \in [Tabs -> BOOLEAN] /\ entering \in [Tabs -> 0 .. MaxPairs]
    BY <2>1
  <2>8. /\ pc \in [Calls -> {"idle"} \cup Waiting \cup Settled]
        /\ held \in [Calls -> 0 .. MaxPairs]
    BY <2>1
  <2> QED
    BY ONLY <2>3, <2>4, <2>5, <2>6, <2>7, <2>8 DEF TypeOK
<1>2. Staid /\ OneWorkingToken
  BY DEF Staid, OneWorkingToken, Quiet
<1>3. CallsHoldIssued /\ issued <= lapsed + 1
  BY DEF CallsHoldIssued
<1> QED
  BY <1>1, <1>2, <1>3 DEF IInv

(* Where the storage and the calls stand, whoever is refreshing.           *)
LEMMA Standing ==
  ASSUME IInv
  PROVE  /\ issued \in Pairs /\ lapsed \in 0 .. MaxLapses /\ disk \in 1 .. issued
         /\ Pairs \subseteq 0 .. MaxPairs /\ MaxPairs \in Nat
         /\ flight \in [Tabs -> Flights]
<1> USE ApiClientAssumption DEF IInv
<1>1. issued \in Pairs /\ lapsed \in 0 .. MaxLapses /\ flight \in [Tabs -> Flights]
  BY DEF TypeOK
<1>2. Pairs \subseteq 0 .. MaxPairs /\ MaxPairs \in Nat
  BY DEF Pairs, MaxPairs
<1>3. disk \in 0 .. MaxPairs /\ (disk = issued \/ (disk = issued - 1 /\ disk # 0))
  BY DEF TypeOK, OneWorkingToken, Underway
<1> QED
  BY <1>1, <1>2, <1>3 DEF Pairs

(* What a call does on its own leaves the refresh and the server alone.    *)
LEMMA CallSteps ==
  ASSUME mishaps' = {}, IInv, NEW c \in Calls,
         Send(c) \/ Disconnect(c) \/ Answer(c) \/ Adopt(c) \/ Resend(c)
  PROVE  IInv'
<1> USE ApiClientAssumption, Standing DEF IInv
<1>2. disk \in 0 .. issued /\ issued \in Pairs /\ lapsed \in Nat /\ disk # 0 /\ disk \in 0 .. MaxPairs
  BY DEF Pairs
<1>3. /\ pc' \in [Calls -> {"idle"} \cup Waiting \cup Settled]
      /\ held' \in [Calls -> 0 .. MaxPairs]
  BY <1>2 DEF TypeOK, Send, Disconnect, Answer, Adopt, Resend, Waiting, Settled
<1>4. UNCHANGED <<disk, hasSession, flight, leaving, entering, serverVars, mishaps>>
  BY DEF Send, Disconnect, Answer, Adopt, Resend
<1>5. TypeOK'
  BY <1>3, <1>4 DEF TypeOK, serverVars
<1>6. Staid' /\ OneWorkingToken'
  BY <1>4 DEF Staid, OneWorkingToken, Underway, Quiet, serverVars
<1>8. CallsHoldIssued'
  <2>1. CASE Send(c)
    BY <2>1, <1>2, <1>4 DEF CallsHoldIssued, Send, TypeOK, serverVars
  <2>2. CASE Answer(c)
    BY <2>2, <1>2, <1>4 DEF CallsHoldIssued, Answer, Accepted, TypeOK, serverVars
  <2>3. CASE Adopt(c)
    BY <2>3, <1>2, <1>4 DEF CallsHoldIssued, Adopt, TypeOK, serverVars
  <2>4. CASE Resend(c)
    BY <2>4, <1>4 DEF CallsHoldIssued, Resend, TypeOK, serverVars
  <2>5. CASE Disconnect(c)
    BY <2>5, <1>4 DEF CallsHoldIssued, Disconnect, TypeOK, serverVars
  <2> QED
    BY <2>1, <2>2, <2>3, <2>4, <2>5
<1> QED
  BY <1>4, <1>5, <1>6, <1>8 DEF serverVars

(* A refused call that finds its own session in storage starts a refresh   *)
(* only when none is going on, hence with the token that works; if one has *)
(* just been exchanged in its tab, the call joins it.                      *)
LEMMA RefreshStep ==
  ASSUME mishaps' = {}, IInv, NEW c \in Calls, Refresh(c)
  PROVE  IInv'
<1> USE ApiClientAssumption, Standing DEF IInv
<1> DEFINE t == Home[c]
<1>1. t \in Tabs
  OBVIOUS
<1>2. held[c] = disk /\ held[c] <= lapsed
  BY DEF Refresh, AlreadyRenewed, CallsHoldIssued, Pairs
<1>3. /\ pc' = [pc EXCEPT ![c] = "joined"]
      /\ UNCHANGED <<disk, hasSession, leaving, entering, held, serverVars>>
  BY DEF Refresh
<1>4. CASE flight[t].at # "none"
  <2>1. flight' = flight /\ flight[t] # NoFlight
    BY <1>1, <1>4 DEF Refresh, JoinFlight, NoFlight
  <2>2. TypeOK'
    BY <1>3, <2>1 DEF TypeOK, serverVars, Waiting
  <2>3. Staid' /\ OneWorkingToken'
    BY <1>3, <2>1 DEF Staid, OneWorkingToken, Underway, Quiet, serverVars
  <2>4. CallsHoldIssued'
    BY <1>3, <2>1 DEF CallsHoldIssued, serverVars, TypeOK, Refresh
  <2> QED
    BY <1>3, <2>2, <2>3, <2>4 DEF serverVars
<1>5. CASE flight[t].at = "none"
  <2>1. \A s \in Tabs : flight[s].at = "none"
    BY <1>1, <1>5 DEF Refresh, Note
  <2>2. disk = issued /\ Quiet(Tabs)
    <3>1. ASSUME NEW s \in Tabs, Underway(s) PROVE FALSE
      <4>1. flight[s].at \in {"sent", "served"}
        BY <3>1 DEF Underway
      <4> QED
        BY <2>1, <4>1
    <3> QED
      BY <3>1 DEF OneWorkingToken
  <2> DEFINE row == [at |-> "sent", tok |-> issued, got |-> 0]
  <2>3. flight' = [flight EXCEPT ![t] = row]
    BY <1>1, <1>2, <1>5, <2>2 DEF Refresh, JoinFlight
  <2>4. row \in Flights /\ row # NoFlight
    BY DEF Flights, NoFlight
  <2>5. flight' \in [Tabs -> Flights] /\ flight'[t] = row /\ \A s \in Tabs \ {t} : flight'[s] = NoFlight
    BY <1>1, <2>2, <2>3, <2>4 DEF Quiet
  <2> HIDE DEF t
  <2>6. TypeOK'
    BY <1>3, <2>5 DEF TypeOK, serverVars, Waiting
  <2>7. Underway(t)'
    BY <1>2, <1>3, <2>2, <2>5 DEF Underway, Quiet, serverVars
  <2>8. Staid' /\ OneWorkingToken'
    BY <1>1, <1>3, <2>7 DEF Staid, OneWorkingToken, serverVars
  <2>9. CallsHoldIssued'
    <3>1. \A d \in Calls : pc[d] # "joined"
      BY <2>2 DEF CallsHoldIssued, Quiet
    <3> QED
      BY <1>3, <2>4, <2>5, <3>1 DEF CallsHoldIssued, serverVars, TypeOK, Refresh, t
  <2> QED
    BY <1>3, <2>6, <2>8, <2>9 DEF serverVars
<1> QED
  BY <1>4, <1>5

(* The server exchanges the token: it is the one that works.               *)
LEMMA ExchangeStep ==
  ASSUME mishaps' = {}, IInv, NEW t \in Tabs, Exchange(t)
  PROVE  IInv'
<1> USE ApiClientAssumption, Standing DEF IInv
<1>1. Underway(t) /\ flight[t] = [at |-> "sent", tok |-> issued, got |-> 0]
  BY DEF OneWorkingToken, Underway, Quiet, Exchange, NoFlight
<1>2. disk = issued /\ issued <= lapsed /\ Quiet(Tabs \ {t})
  BY <1>1 DEF Underway
<1> DEFINE row == [at |-> "served", tok |-> issued, got |-> issued + 1]
<1>3. /\ issued' = issued + 1 /\ live' = {issued + 1} /\ UNCHANGED reuse
      /\ flight' = [flight EXCEPT ![t] = row]
      /\ UNCHANGED <<disk, hasSession, leaving, entering, pc, held, lapsed, signIns, mishaps>>
  BY <1>1 DEF Exchange, Honours, OneWorkingToken, Pairs
<1>4. issued + 1 \in Pairs
  BY <1>2 DEF Pairs, MaxPairs
<1>5. row \in Flights /\ row # NoFlight
  BY <1>4 DEF Flights, NoFlight, Pairs
<1>6. flight' \in [Tabs -> Flights] /\ flight'[t] = row /\ \A s \in Tabs \ {t} : flight'[s] = NoFlight
  BY <1>2, <1>3, <1>5 DEF Quiet
<1>7. TypeOK'
  BY <1>3, <1>4, <1>6 DEF TypeOK, Pairs
<1>8. OneWorkingToken'
  <2>1. Underway(t)'
    BY <1>2, <1>3, <1>6 DEF Underway, Quiet, Pairs
  <2> QED
    BY <2>1, <1>3 DEF OneWorkingToken
<1>9. CallsHoldIssued'
  BY <1>2, <1>3, <1>5, <1>6 DEF CallsHoldIssued, TypeOK, Pairs, Quiet
<1>10. Staid' /\ issued' <= lapsed' + 1
  BY <1>2, <1>3 DEF Staid, Pairs
<1> QED
  BY <1>7, <1>8, <1>9, <1>10

(* The refresh lands: the storage catches up and every waiting call leaves *)
(* with the new pair.                                                      *)
LEMMA LandStep ==
  ASSUME mishaps' = {}, IInv, NEW t \in Tabs, Land(t)
  PROVE  IInv'
<1> USE ApiClientAssumption, Standing DEF IInv
<1>1. PICK p \in 0 .. MaxPairs :
        /\ flight[t].at = "served" /\ p = flight[t].got
        /\ Conclude(t, p) /\ Wake(t, p)
  BY DEF Land, Note
<1>2. Underway(t) /\ p = issued /\ Quiet(Tabs \ {t}) /\ flight[t] # NoFlight
  BY <1>1 DEF OneWorkingToken, Underway, Quiet, NoFlight
<1>3. Forget(t) /\ UNCHANGED <<leaving, entering, serverVars>>
  BY DEF Land
<1>5. disk' = issued /\ hasSession' = hasSession
  <2>1. hasSession \in [Tabs -> BOOLEAN] /\ hasSession[t] /\ issued # 0
    BY DEF TypeOK, Staid, Pairs
  <2>2. hasSession' = [hasSession EXCEPT ![t] = hasSession[t] /\ issued # 0]
    BY <1>1, <1>2 DEF Conclude
  <2>3. hasSession' = hasSession
    <3>1. (hasSession[t] /\ issued # 0) = hasSession[t]
      BY <2>1, Zenon
    <3> QED
      BY <2>1, <2>2, <3>1, Zenon
  <2> QED
    BY <1>1, <1>2, <2>3 DEF Conclude
<1>6. flight' \in [Tabs -> Flights] /\ Quiet(Tabs)'
  BY <1>2, <1>3 DEF Forget, Flights, NoFlight, Quiet
<1>7. \A c \in Calls : pc[c] = "joined" => Home[c] = t
  BY <1>2 DEF CallsHoldIssued, Quiet
<1>8. /\ pc' = [c \in Calls |-> IF pc[c] = "joined" THEN "renewed" ELSE pc[c]]
      /\ held' = [c \in Calls |-> IF pc[c] = "joined" THEN issued ELSE held[c]]
  BY <1>1, <1>2, <1>7 DEF Wake, Pairs
<1>9. /\ pc' \in [Calls -> {"idle"} \cup Waiting \cup Settled]
      /\ held' \in [Calls -> 0 .. MaxPairs]
  BY <1>8 DEF TypeOK, Waiting, Pairs
<1>10. TypeOK'
  BY <1>3, <1>5, <1>6, <1>9 DEF TypeOK, serverVars, Pairs
<1>11. OneWorkingToken' /\ Staid'
  BY <1>3, <1>5, <1>6 DEF OneWorkingToken, Staid, serverVars
<1>12. CallsHoldIssued'
  BY <1>3, <1>8 DEF CallsHoldIssued, serverVars, TypeOK, Pairs
<1> QED
  BY <1>3, <1>10, <1>11, <1>12 DEF serverVars

LEMMA LapseStep ==
  ASSUME mishaps' = {}, IInv, Lapse
  PROVE  IInv'
<1> USE ApiClientAssumption DEF IInv, Lapse, clientVars
<1>1. lapsed \in Nat /\ lapsed' = lapsed + 1 /\ lapsed' \in 0 .. MaxLapses /\ issued \in Pairs
  BY DEF TypeOK
<1>2. TypeOK'
  BY <1>1 DEF TypeOK
<1>3. OneWorkingToken'
  BY <1>1 DEF OneWorkingToken, Underway, Quiet, Pairs
<1>4. CallsHoldIssued'
  BY <1>1 DEF CallsHoldIssued, TypeOK
<1>5. Staid' /\ issued' <= lapsed' + 1
  BY <1>1 DEF Staid, Pairs
<1> QED
  BY <1>2, <1>3, <1>4, <1>5

(* A mishap is never forgotten.                                            *)
LEMMA MishapsGrow == [Next]_vars => mishaps \subseteq mishaps'
BY DEF Next, vars, clientVars, Note, Send, Disconnect, Proceed, Answer, Adopt, Refresh, Resend,
   Renew, Exchange, Land, StartSignOut, RevokeOwn, FinishSignOut, StartSignIn, FinishSignIn,
   Reload, Lapse, Expel

LEMMA StepPreserves == CalmInv /\ [Next]_vars => CalmInv'
<1> SUFFICES ASSUME mishaps' = {}, IInv, [Next]_vars PROVE IInv'
  BY MishapsGrow DEF CalmInv
<1>1. ASSUME NEW c \in Calls, Send(c) \/ Disconnect(c) \/ Proceed(c) PROVE IInv'
  BY <1>1, CallSteps, RefreshStep DEF Proceed
<1>2. ASSUME NEW t \in Tabs, Renew(t) PROVE IInv'
  BY <1>2, ExchangeStep, LandStep DEF Renew
<1>3. ASSUME NEW t \in Tabs,
             \/ StartSignOut(t) \/ RevokeOwn(t) \/ FinishSignOut(t)
             \/ StartSignIn(t) \/ FinishSignIn(t)
             \/ Reload(t)
      PROVE FALSE
  BY <1>3 DEF StartSignOut, RevokeOwn, FinishSignOut, StartSignIn, FinishSignIn, Reload,
     IInv, Staid, Staying, Note
<1>4. CASE Expel
  BY <1>4 DEF Expel, Note
<1>5. CASE UNCHANGED vars
  BY <1>5 DEF IInv, vars, clientVars, serverVars, TypeOK, Staid, OneWorkingToken, Underway,
     Quiet, CallsHoldIssued
<1> QED
  BY <1>1, <1>2, <1>3, <1>4, <1>5, LapseStep DEF Next

(* However calls, refreshes and expiries interleave, in any number of      *)
(* tabs, the client never presents a token that was already rotated, until *)
(* a mishap (refreshSession and the second read of the session in request). *)
THEOREM NeverReused == Spec => []RotatedTokenNeverPresented
<1>1. Init => CalmInv
  BY InitEstablishes DEF CalmInv
<1>2. CalmInv /\ [Next]_vars => CalmInv'
  BY StepPreserves
<1>3. CalmInv => RotatedTokenNeverPresented
  BY DEF CalmInv, IInv, OneWorkingToken, RotatedTokenNeverPresented
<1> QED
  BY <1>1, <1>2, <1>3, PTL DEF Spec

(* Nor is the session lost: the refresh token that works is in storage or  *)
(* in the answer about to be stored.                                       *)
THEOREM NeverLost == Spec => []SessionNeverLost
<1>1. Init => CalmInv
  BY InitEstablishes DEF CalmInv
<1>2. CalmInv /\ [Next]_vars => CalmInv'
  BY StepPreserves
<1>3. CalmInv => SessionNeverLost
  <2> SUFFICES ASSUME IInv
      PROVE  /\ live = {issued}
             /\ \/ disk = issued
                \/ \E t \in Tabs : flight[t].at = "served" /\ flight[t].got = issued
    BY DEF CalmInv, SessionNeverLost
  <2>1. ASSUME NEW t \in Tabs, Underway(t)
        PROVE  disk = issued \/ (flight[t].at = "served" /\ flight[t].got = issued)
    BY <2>1 DEF Underway
  <2> QED
    BY <2>1 DEF IInv, OneWorkingToken
<1> QED
  BY <1>1, <1>2, <1>3, PTL DEF Spec

-----------------------------------------------------------------------------
(* At all times, mishaps or not *)

(* What holds at all times, mishaps or not.  A pair is exchanged only once *)
(* its access token has been refused, so a token spent is one that lapsed: *)
(* that bounds the pairs the server issues.                                *)
Spent == {p \in 1 .. lapsed : p \notin live}

RefusedHaveLapsed ==
  /\ \A c \in Calls : pc[c] = "rejected" => held[c] <= lapsed
  /\ \A t \in Tabs : flight[t].at = "sent" => flight[t].tok <= lapsed

Numbered ==
  /\ disk <= issued /\ lapsed <= issued
  /\ \A c \in Calls : held[c] <= issued
  /\ \A t \in Tabs : entering[t] <= issued /\ flight[t].got <= issued

Counted == issued <= 1 + signIns + Cardinality(Spent)

AnyInv == TypeOK /\ RefusedHaveLapsed /\ Numbered /\ Counted

LEMMA Bounds ==
  ASSUME TypeOK
  PROVE  /\ MaxPairs \in Nat /\ Pairs \subseteq 0 .. MaxPairs
         /\ issued \in Nat /\ issued \in 0 .. MaxPairs /\ issued # 0
         /\ lapsed \in Nat /\ signIns \in Nat
         /\ disk \in Int /\ \A c \in Calls : held[c] \in Int
         /\ \A t \in Tabs : entering[t] \in Int /\ flight[t] \in Flights
BY ApiClientAssumption DEF TypeOK, Pairs, MaxPairs

LEMMA SpentFinite ==
  ASSUME TypeOK
  PROVE  IsFiniteSet(Spent) /\ Cardinality(Spent) \in Nat /\ Cardinality(Spent) <= lapsed
<1>1. IsFiniteSet(1 .. lapsed) /\ Cardinality(1 .. lapsed) = lapsed
  BY FS_Interval, Bounds
<1>2. Spent \subseteq 1 .. lapsed
  BY DEF Spent
<1> QED
  BY <1>1, <1>2, FS_Subset, FS_CardinalityType

LEMMA Sum ==
  ASSUME NEW i \in Int, NEW s \in Int, NEW j \in Int, NEW z \in Int, NEW k \in Int, NEW m \in Int,
         j + s <= i + z, k <= m, i <= 1 + s + k
  PROVE  j <= 1 + z + m
OBVIOUS

(* A spent token stays spent: what is issued later has not lapsed.         *)
LEMMA CountKept ==
  ASSUME TypeOK, TypeOK', Counted, Spent \subseteq Spent',
         issued' + signIns <= issued + signIns'
  PROVE  Counted'
<1>1. IsFiniteSet(Spent') /\ Cardinality(Spent') \in Nat
  <2>1. lapsed' \in Nat
    BY DEF TypeOK
  <2>2. IsFiniteSet(1 .. lapsed')
    BY <2>1, FS_Interval
  <2>3. Spent' \subseteq 1 .. lapsed'
    BY DEF Spent
  <2> QED
    BY <2>2, <2>3, FS_Subset, FS_CardinalityType
<1>2. Cardinality(Spent) <= Cardinality(Spent') /\ Cardinality(Spent) \in Nat
  BY <1>1, SpentFinite, FS_Subset
<1>3. /\ issued \in Int /\ signIns \in Int /\ issued' \in Int /\ signIns' \in Int
  BY Bounds DEF TypeOK, Pairs
<1> DEFINE k == Cardinality(Spent)
           m == Cardinality(Spent')
<1>4. issued <= 1 + signIns + k /\ k <= m /\ k \in Int /\ m \in Int
  BY <1>1, <1>2 DEF Counted
<1> HIDE DEF k, m
<1>5. issued' <= 1 + signIns' + m
  BY <1>3, <1>4, Sum
<1> QED
  BY <1>5 DEF Counted, m

(* What a call does on its own.                                            *)
LEMMA AnyCall ==
  ASSUME AnyInv, NEW c \in Calls,
         Send(c) \/ Disconnect(c) \/ Answer(c) \/ Adopt(c) \/ Resend(c)
  PROVE  AnyInv'
<1> USE DEF AnyInv
<1>1. /\ UNCHANGED <<disk, hasSession, flight, leaving, entering, serverVars, mishaps>>
      /\ UNCHANGED <<live, issued, lapsed, signIns, reuse>>
  BY DEF Send, Disconnect, Answer, Adopt, Resend, serverVars
<1>2. /\ pc' \in [Calls -> {"idle"} \cup Waiting \cup Settled]
      /\ held' \in [Calls -> 0 .. MaxPairs]
  BY DEF TypeOK, Send, Disconnect, Answer, Adopt, Resend, Waiting, Settled
<1>3. TypeOK'
  BY <1>1, <1>2 DEF TypeOK
<1>4. \A d \in Calls : held'[d] <= issued
  BY DEF TypeOK, Numbered, Send, Disconnect, Answer, Adopt, Resend
<1>5. Numbered'
  BY <1>1, <1>4 DEF Numbered
<1>6. \A d \in Calls : pc'[d] = "rejected" => held'[d] <= lapsed
  <2>1. CASE Answer(c)
    <3>1. /\ \A d \in Calls \ {c} : pc'[d] = pc[d]
          /\ held' = held
          /\ pc'[c] = "rejected" => ~Accepted(held[c])
      BY <2>1 DEF TypeOK, Answer
    <3>2. held[c] \in Int /\ lapsed \in Int
      BY Bounds
    <3> QED
      BY <3>1, <3>2 DEF RefusedHaveLapsed, Accepted
  <2>2. CASE ~Answer(c)
    BY <2>2 DEF TypeOK, RefusedHaveLapsed, Send, Disconnect, Adopt, Resend
  <2> QED
    BY <2>1, <2>2
<1>7. RefusedHaveLapsed'
  BY <1>1, <1>6 DEF RefusedHaveLapsed
<1>8. Counted'
  BY <1>1 DEF Counted, Spent
<1> QED
  BY <1>3, <1>5, <1>7, <1>8

(* A refused call starts or joins a refresh.                               *)
LEMMA AnyRefresh ==
  ASSUME AnyInv, NEW c \in Calls, Refresh(c)
  PROVE  AnyInv'
<1> USE DEF AnyInv
<1> DEFINE t == Home[c]
           row == [at |-> "sent", tok |-> held[c], got |-> 0]
<1>1. /\ UNCHANGED <<disk, hasSession, leaving, entering, held>>
      /\ UNCHANGED <<live, issued, lapsed, signIns, reuse>>
      /\ pc' = [pc EXCEPT ![c] = "joined"] /\ mishaps' \subseteq Mishaps
  BY DEF TypeOK, Refresh, serverVars, Note, Mishaps
<1>2. t \in Tabs /\ held[c] <= lapsed
  BY ApiClientAssumption DEF RefusedHaveLapsed, Refresh
<1>3. row \in Flights
  <2>1. held[c] \in 0 .. MaxPairs /\ 0 \in 0 .. MaxPairs
    BY Bounds DEF TypeOK
  <2> QED
    BY <2>1 DEF Flights
<1>4. flight' \in [Tabs -> Flights] /\ \A s \in Tabs : flight'[s] = flight[s] \/ flight'[s] = row
  BY <1>2, <1>3 DEF TypeOK, Refresh, JoinFlight
<1> HIDE DEF t
<1>5. TypeOK'
  BY <1>1, <1>4 DEF TypeOK, Waiting
<1>6. Numbered'
  BY <1>1, <1>4, Bounds DEF Numbered
<1>7. RefusedHaveLapsed'
  BY <1>1, <1>2, <1>4 DEF TypeOK, RefusedHaveLapsed
<1>8. Counted'
  BY <1>1 DEF Counted, Spent
<1> QED
  BY <1>5, <1>6, <1>7, <1>8

(* The pairs run out no sooner than access tokens lapse.                   *)
LEMMA PairsSuffice ==
  ASSUME AnyInv
  PROVE  /\ signIns < MaxSignIns => issued + 1 \in Pairs
         /\ \A p \in live : p <= lapsed => issued + 1 \in Pairs
<1> USE DEF AnyInv
<1> DEFINE k == Cardinality(Spent)
<1>1. /\ issued \in Nat /\ signIns \in Nat /\ lapsed \in Nat /\ k \in Nat
      /\ k <= lapsed /\ lapsed <= MaxLapses /\ signIns <= MaxSignIns
      /\ MaxLapses \in Nat /\ MaxSignIns \in Nat
  BY Bounds, SpentFinite, ApiClientAssumption DEF TypeOK
<1>2. ASSUME NEW p \in live, p <= lapsed PROVE k < lapsed
  <2>1. p \in 1 .. lapsed /\ p \notin Spent
    BY <1>1, <1>2 DEF TypeOK, Spent
  <2>2. IsFiniteSet(1 .. lapsed) /\ Cardinality(1 .. lapsed) = lapsed
    BY <1>1, FS_Interval
  <2>3. Spent \in SUBSET (1 .. lapsed) /\ Spent # 1 .. lapsed
    BY <2>1 DEF Spent
  <2>4. k # lapsed
    BY <2>2, <2>3, FS_Subset
  <2> QED
    BY <1>1, <2>4
<1>3. issued <= 1 + signIns + k
  BY DEF Counted
<1> HIDE DEF k
<1>4. signIns < MaxSignIns => issued + 1 \in 1 .. (1 + MaxLapses + MaxSignIns)
  BY <1>1, <1>3
<1>5. k < lapsed => issued + 1 \in 1 .. (1 + MaxLapses + MaxSignIns)
  BY <1>1, <1>3
<1> QED
  BY <1>2, <1>4, <1>5 DEF Pairs, MaxPairs

(* An exchange spends one token that has lapsed and issues one pair.       *)
LEMMA AnyExchange ==
  ASSUME AnyInv, NEW t \in Tabs, Exchange(t)
  PROVE  AnyInv'
<1> USE DEF AnyInv
<1> DEFINE p == flight[t].tok
           n == issued + 1
<1>1. /\ UNCHANGED <<disk, hasSession, leaving, entering, pc, held, lapsed, signIns, mishaps>>
      /\ p <= lapsed /\ p \in 0 .. MaxPairs
  BY DEF Exchange, RefusedHaveLapsed, TypeOK, Flights
<1>2. CASE p \in live
  <2> DEFINE row == [at |-> "served", tok |-> p, got |-> n]
  <2>1. /\ issued' = n /\ live' = (live \ {p}) \cup {n} /\ UNCHANGED reuse
        /\ flight' = [flight EXCEPT ![t] = row]
    BY <1>2 DEF Exchange, Honours
  <2>2. n \in Pairs /\ n \in 0 .. MaxPairs
    BY <1>1, <1>2, PairsSuffice, Bounds DEF Pairs
  <2>3. row \in Flights
    BY <1>1, <2>2 DEF Flights
  <2>4. flight' \in [Tabs -> Flights] /\ \A s \in Tabs : flight'[s] = flight[s] \/ flight'[s] = row
    BY <2>1, <2>3 DEF TypeOK
  <2>5. live' \subseteq 1 .. issued'
    BY <2>1, Bounds DEF TypeOK
  <2>6. TypeOK'
    BY <1>1, <2>1, <2>2, <2>4, <2>5 DEF TypeOK
  <2>7. Numbered'
    BY <1>1, <2>1, <2>4, Bounds DEF Numbered, Flights
  <2>8. RefusedHaveLapsed'
    BY <1>1, <2>4 DEF RefusedHaveLapsed
  <2>9. Counted'
    <3>1. p \in 1 .. lapsed /\ p \notin Spent /\ n \notin 1 .. lapsed
      BY <1>1, <1>2, Bounds DEF TypeOK, Spent, Numbered
    <3>2. Spent' = Spent \cup {p}
      BY <1>1, <2>1, <3>1 DEF Spent
    <3>3. Cardinality(Spent') = Cardinality(Spent) + 1
      BY <3>1, <3>2, SpentFinite, FS_AddElement
    <3> DEFINE k == Cardinality(Spent)
               m == Cardinality(Spent')
    <3>4. k \in Int /\ m = k + 1 /\ issued \in Int /\ signIns \in Int /\ issued <= 1 + signIns + k
      BY <3>3, SpentFinite, Bounds DEF Counted
    <3> HIDE DEF k, m
    <3>5. issued + 1 <= 1 + signIns + m
      BY <3>4
    <3> QED
      BY <1>1, <2>1, <3>5 DEF Counted, m
  <2> QED
    BY <2>6, <2>7, <2>8, <2>9
<1>3. CASE p \notin live
  <2> DEFINE row == [at |-> "served", tok |-> p, got |-> 0]
  <2>1. /\ live' = {} /\ reuse' = TRUE /\ UNCHANGED issued
        /\ flight' = [flight EXCEPT ![t] = row]
    BY <1>3 DEF Exchange, Honours
  <2>2. row \in Flights
    BY <1>1, Bounds DEF Flights
  <2>3. flight' \in [Tabs -> Flights] /\ \A s \in Tabs : flight'[s] = flight[s] \/ flight'[s] = row
    BY <2>1, <2>2 DEF TypeOK
  <2>4. TypeOK'
    BY <1>1, <2>1, <2>3 DEF TypeOK
  <2>5. Numbered'
    BY <1>1, <2>1, <2>3, Bounds DEF Numbered
  <2>6. RefusedHaveLapsed'
    BY <1>1, <2>3 DEF RefusedHaveLapsed
  <2>7. Counted'
    <3>1. Spent \subseteq Spent'
      BY <1>1, <2>1 DEF Spent
    <3>2. issued' + signIns <= issued + signIns'
      BY <1>1, <2>1, Bounds
    <3> QED
      BY <2>4, <3>1, <3>2, CountKept
  <2> QED
    BY <2>4, <2>5, <2>6, <2>7
<1> QED
  BY <1>2, <1>3

(* The answer to a refresh is stored, or the session cleared.              *)
LEMMA AnyLand ==
  ASSUME AnyInv, NEW t \in Tabs, Land(t)
  PROVE  AnyInv'
<1> USE DEF AnyInv
<1>1. PICK p \in 0 .. MaxPairs :
        /\ p = flight[t].got \/ p = 0
        /\ Conclude(t, p) /\ Wake(t, p) /\ mishaps' \subseteq Mishaps
  BY DEF Land, Note, Emptied, TypeOK, Mishaps
<1>2. /\ flight' = [flight EXCEPT ![t] = NoFlight]
      /\ UNCHANGED <<leaving, entering, live, issued, lapsed, signIns, reuse>>
  BY DEF Land, Forget, serverVars
<1>3. p <= issued
  BY <1>1, Bounds DEF Numbered
<1>4. NoFlight \in Flights
  BY Bounds DEF NoFlight, Flights
<1>5. flight' \in [Tabs -> Flights] /\ \A s \in Tabs : flight'[s] = flight[s] \/ flight'[s] = NoFlight
  BY <1>2, <1>4 DEF TypeOK
<1>6. hasSession' \in [Tabs -> BOOLEAN]
  <2>1. hasSession \in [Tabs -> BOOLEAN]
    BY DEF TypeOK
  <2>2. hasSession' = [hasSession EXCEPT ![t] = hasSession[t] /\ p # 0]
    BY <1>1 DEF Conclude
  <2>3. (hasSession[t] /\ p # 0) \in BOOLEAN
    BY <2>1, Zenon
  <2> QED
    BY <2>1, <2>2, <2>3, Zenon
<1>7. /\ pc' \in [Calls -> {"idle"} \cup Waiting \cup Settled]
      /\ held' \in [Calls -> 0 .. MaxPairs]
      /\ \A c \in Calls : held'[c] = held[c] \/ held'[c] = p
      /\ \A c \in Calls : pc'[c] = "rejected" => pc[c] = "rejected" /\ held'[c] = held[c]
  BY <1>1 DEF TypeOK, Wake, Waiting, Settled
<1>8. disk' = p
  BY <1>1 DEF Conclude
<1>9. TypeOK'
  BY <1>1, <1>2, <1>5, <1>6, <1>7, <1>8 DEF TypeOK
<1>10. Numbered'
  BY <1>2, <1>3, <1>5, <1>7, <1>8, Bounds DEF Numbered, NoFlight
<1>11. RefusedHaveLapsed'
  BY <1>2, <1>5, <1>7 DEF RefusedHaveLapsed, NoFlight
<1>12. Counted'
  BY <1>2 DEF Counted, Spent
<1> QED
  BY <1>9, <1>10, <1>11, <1>12

(* The user signs out or in, a page is reloaded.                           *)
LEMMA AnyUser ==
  ASSUME AnyInv, NEW t \in Tabs,
         \/ StartSignOut(t) \/ RevokeOwn(t) \/ FinishSignOut(t)
         \/ StartSignIn(t) \/ FinishSignIn(t) \/ Reload(t)
  PROVE  AnyInv'
<1> USE DEF AnyInv
<1>0. 0 \in 0 .. MaxPairs /\ NoFlight \in Flights
      /\ Staying \in [at : {"no", "revoking", "clearing"}, tok : 0 .. MaxPairs]
  BY Bounds DEF NoFlight, Flights, Staying
<1>1. CASE StartSignOut(t)
  <2>1. /\ UNCHANGED <<disk, hasSession, flight, entering, pc, held, live, issued, lapsed, signIns,
                       reuse>>
        /\ mishaps' \subseteq Mishaps
    BY <1>1 DEF StartSignOut, serverVars, Note, TypeOK, Mishaps
  <2>2. [at |-> "revoking", tok |-> disk]
          \in [at : {"no", "revoking", "clearing"}, tok : 0 .. MaxPairs]
    BY DEF TypeOK
  <2>3. leaving' \in [Tabs -> [at : {"no", "revoking", "clearing"}, tok : 0 .. MaxPairs]]
    BY <1>1, <2>2 DEF StartSignOut, TypeOK
  <2> QED
    BY <2>1, <2>3 DEF TypeOK, RefusedHaveLapsed, Numbered, Counted, Spent
<1>2. CASE RevokeOwn(t)
  <2>1. /\ UNCHANGED <<disk, hasSession, flight, entering, pc, held, issued, lapsed, signIns,
                       reuse, mishaps>>
        /\ live' \subseteq live
    BY <1>2 DEF RevokeOwn
  <2>2. [at |-> "clearing", tok |-> leaving[t].tok]
          \in [at : {"no", "revoking", "clearing"}, tok : 0 .. MaxPairs]
    BY DEF TypeOK
  <2>3. leaving' \in [Tabs -> [at : {"no", "revoking", "clearing"}, tok : 0 .. MaxPairs]]
    BY <1>2, <2>2 DEF RevokeOwn, TypeOK
  <2>4. TypeOK'
    BY <2>1, <2>3 DEF TypeOK
  <2>5. RefusedHaveLapsed' /\ Numbered'
    BY <2>1 DEF RefusedHaveLapsed, Numbered
  <2>6. Spent \subseteq Spent' /\ issued' + signIns <= issued + signIns'
    BY <2>1, Bounds DEF Spent
  <2> QED
    BY <2>4, <2>5, <2>6, CountKept
<1>3. CASE FinishSignOut(t)
  <2>1. /\ disk' = 0
        /\ UNCHANGED <<flight, entering, pc, held, live, issued, lapsed, signIns, reuse>>
        /\ mishaps' \subseteq Mishaps
    BY <1>3 DEF FinishSignOut, serverVars, Note, Emptied, TypeOK, Mishaps
  <2>2. leaving' \in [Tabs -> [at : {"no", "revoking", "clearing"}, tok : 0 .. MaxPairs]]
    BY <1>0, <1>3 DEF FinishSignOut, TypeOK
  <2>3. hasSession' \in [Tabs -> BOOLEAN]
    BY <1>3 DEF FinishSignOut, TypeOK
  <2>4. TypeOK'
    BY <1>0, <2>1, <2>2, <2>3 DEF TypeOK
  <2> QED
    BY <2>1, <2>4, Bounds DEF RefusedHaveLapsed, Numbered, Counted, Spent
<1>4. CASE StartSignIn(t)
  <2> DEFINE n == issued + 1
  <2>1. /\ UNCHANGED <<disk, hasSession, flight, leaving, pc, held, lapsed, reuse>>
        /\ issued' = n /\ signIns' = signIns + 1 /\ live' = live \cup {n}
        /\ entering' = [entering EXCEPT ![t] = n] /\ mishaps' \subseteq Mishaps
    BY <1>4 DEF StartSignIn, Note, TypeOK, Mishaps
  <2>2. n \in Pairs /\ n \in 0 .. MaxPairs /\ signIns' \in 0 .. MaxSignIns
    BY <1>4, <2>1, PairsSuffice, Bounds, ApiClientAssumption DEF StartSignIn, TypeOK
  <2>3. /\ entering' \in [Tabs -> 0 .. MaxPairs]
        /\ \A s \in Tabs : entering'[s] = entering[s] \/ entering'[s] = n
    BY <2>1, <2>2 DEF TypeOK
  <2>4. live' \subseteq 1 .. n
    <3>1. live \subseteq 1 .. issued /\ n \in 1 .. n /\ 1 .. issued \subseteq 1 .. n
      BY Bounds DEF TypeOK
    <3> QED
      BY <2>1, <3>1
  <2>5. TypeOK'
    BY <2>1, <2>2, <2>3, <2>4 DEF TypeOK
  <2>6. Numbered'
    BY <2>1, <2>3, Bounds DEF Numbered, Flights
  <2>7. RefusedHaveLapsed'
    BY <2>1 DEF RefusedHaveLapsed
  <2>8. Spent \subseteq Spent' /\ issued' + signIns <= issued + signIns'
    BY <2>1, Bounds DEF Spent, Numbered
  <2> QED
    BY <2>5, <2>6, <2>7, <2>8, CountKept
<1>5. CASE FinishSignIn(t)
  <2>1. /\ UNCHANGED <<flight, leaving, pc, held, live, issued, lapsed, signIns, reuse, mishaps>>
        /\ disk' = disk \/ disk' = entering[t]
    BY <1>5 DEF FinishSignIn, serverVars
  <2>2. /\ entering' \in [Tabs -> 0 .. MaxPairs]
        /\ \A s \in Tabs : entering'[s] = entering[s] \/ entering'[s] = 0
    BY <1>0, <1>5 DEF FinishSignIn, TypeOK
  <2>3. hasSession' \in [Tabs -> BOOLEAN]
    BY <1>5 DEF FinishSignIn, TypeOK
  <2>4. TypeOK'
    BY <2>1, <2>2, <2>3 DEF TypeOK
  <2> QED
    BY <2>1, <2>2, <2>4, Bounds DEF RefusedHaveLapsed, Numbered, Counted, Spent
<1>6. CASE Reload(t)
  <2>1. /\ UNCHANGED <<disk, held, live, issued, lapsed, signIns, reuse>>
        /\ mishaps' \subseteq Mishaps
    BY <1>6 DEF Reload, serverVars, Note, TypeOK, Mishaps
  <2>2. leaving' \in [Tabs -> [at : {"no", "revoking", "clearing"}, tok : 0 .. MaxPairs]]
    BY <1>0, <1>6 DEF Reload, TypeOK
  <2>3. /\ entering' \in [Tabs -> 0 .. MaxPairs] /\ flight' \in [Tabs -> Flights]
        /\ \A s \in Tabs : entering'[s] = entering[s] \/ entering'[s] = 0
        /\ \A s \in Tabs : flight'[s] = flight[s] \/ flight'[s] = NoFlight
    BY <1>0, <1>6 DEF Reload, TypeOK
  <2>4. hasSession' \in [Tabs -> BOOLEAN]
    <3>1. hasSession \in [Tabs -> BOOLEAN] /\ (disk # 0) \in BOOLEAN
      BY Zenon DEF TypeOK
    <3>2. hasSession' = [hasSession EXCEPT ![t] = disk # 0]
      BY <1>6 DEF Reload
    <3> QED
      BY <3>1, <3>2, Zenon
  <2>5. /\ pc' \in [Calls -> {"idle"} \cup Waiting \cup Settled]
        /\ \A c \in Calls : pc'[c] = "rejected" => pc[c] = "rejected"
    BY <1>6 DEF Reload, TypeOK, Settled
  <2>6. TypeOK'
    BY <2>1, <2>2, <2>3, <2>4, <2>5 DEF TypeOK
  <2> QED
    BY <2>1, <2>3, <2>5, <2>6, Bounds
    DEF RefusedHaveLapsed, Numbered, Counted, Spent, NoFlight
<1> QED
  BY <1>1, <1>2, <1>3, <1>4, <1>5, <1>6

LEMMA AnyServer ==
  ASSUME AnyInv, Lapse \/ Expel
  PROVE  AnyInv'
<1> USE DEF AnyInv
<1>1. /\ UNCHANGED <<disk, hasSession, flight, leaving, entering, pc, held, issued, signIns, reuse>>
      /\ live' \subseteq live /\ mishaps' \subseteq Mishaps
      /\ lapsed <= lapsed' /\ lapsed' \in 0 .. MaxLapses /\ lapsed' <= issued
  <2>1. CASE Lapse
    <3>1. lapsed \in Nat /\ issued \in Nat /\ MaxLapses \in Nat
      BY Bounds, ApiClientAssumption
    <3>2. /\ lapsed' = lapsed + 1 /\ lapsed < issued /\ lapsed < MaxLapses
          /\ UNCHANGED <<clientVars, live, issued, signIns, reuse, mishaps>>
      BY <2>1 DEF Lapse
    <3>3. lapsed <= lapsed' /\ lapsed' \in 0 .. MaxLapses /\ lapsed' <= issued
      BY <3>1, <3>2
    <3> QED
      BY <3>2, <3>3 DEF clientVars, TypeOK
  <2>2. CASE Expel
    BY <2>2, Bounds DEF Expel, clientVars, Note, Mishaps, TypeOK, Numbered
  <2> QED
    BY <2>1, <2>2
<1>2. TypeOK'
  BY <1>1 DEF TypeOK
<1>3. Spent \subseteq Spent' /\ issued' + signIns <= issued + signIns'
  BY <1>1, Bounds DEF Spent
<1>4. Counted'
  BY <1>2, <1>3, CountKept
<1>5. Numbered'
  BY <1>1 DEF Numbered
<1>6. RefusedHaveLapsed'
  <2>1. \A c \in Calls : held[c] \in Int
    BY Bounds
  <2>2. \A s \in Tabs : flight[s].tok \in Int
    BY Bounds DEF Flights
  <2> QED
    BY <1>1, <2>1, <2>2, Bounds DEF RefusedHaveLapsed
<1> QED
  BY <1>2, <1>4, <1>5, <1>6

LEMMA AnyInductive == Spec => []AnyInv
<1>1. Init => AnyInv
  <2> SUFFICES ASSUME Init PROVE AnyInv
    OBVIOUS
  <2>1. TypeOK
    BY InitEstablishes DEF IInv
  <2>2. Counted
    <3>1. Cardinality(Spent) \in Nat
      BY <2>1, SpentFinite
    <3> QED
      BY <3>1 DEF Init, Counted
  <2>3. RefusedHaveLapsed /\ Numbered
    BY DEF Init, RefusedHaveLapsed, Numbered, NoFlight
  <2> QED
    BY <2>1, <2>2, <2>3 DEF AnyInv
<1>2. AnyInv /\ [Next]_vars => AnyInv'
  <2> SUFFICES ASSUME AnyInv, [Next]_vars PROVE AnyInv'
    OBVIOUS
  <2>1. CASE UNCHANGED vars
    BY <2>1 DEF AnyInv, vars, clientVars, serverVars, TypeOK, RefusedHaveLapsed, Numbered,
                Counted, Spent
  <2> QED
    BY <2>1, AnyCall, AnyRefresh, AnyExchange, AnyLand, AnyUser, AnyServer
    DEF Next, Proceed, Renew
<1> QED
  BY <1>1, <1>2, PTL DEF Spec

(* The types hold at all times: in particular the server issues no more    *)
(* pairs than there were sign-ins and access tokens that expired, in       *)
(* whatever tabs and orders the client asks for them.                      *)
THEOREM ClientTypes == Spec => []TypeOK
<1>1. AnyInv => TypeOK
  BY DEF AnyInv
<1> QED
  BY <1>1, AnyInductive, PTL

-----------------------------------------------------------------------------
(* A storage without a session *)

EmptyMeansSignedOut ==
  "emptied" \notin mishaps => (disk = 0 => \A t \in Tabs : ~hasSession[t])

(* Nobody is left in front of authenticated screens once the session is    *)
(* gone from storage, unless another tab emptied it.                       *)
THEOREM ScreensLeft == Spec => []RefusedCallLeavesScreens
<1>1. Init => EmptyMeansSignedOut
  BY DEF Init, EmptyMeansSignedOut
<1>2. AnyInv /\ EmptyMeansSignedOut /\ [Next]_vars => EmptyMeansSignedOut'
  <2> SUFFICES ASSUME AnyInv, EmptyMeansSignedOut, [Next]_vars, "emptied" \notin mishaps',
                      disk' = 0, NEW s \in Tabs
               PROVE  ~hasSession'[s]
    BY DEF EmptyMeansSignedOut
  <2>1. "emptied" \notin mishaps
    BY MishapsGrow
  <2>2. TypeOK /\ hasSession \in [Tabs -> BOOLEAN]
    BY DEF AnyInv, TypeOK
  <2>3. CASE UNCHANGED <<disk, hasSession>>
    BY <2>1, <2>3 DEF EmptyMeansSignedOut
  <2>4. ASSUME NEW t \in Tabs, Land(t)
        PROVE  ~hasSession'[s]
    <3>1. /\ hasSession' = [hasSession EXCEPT ![t] = hasSession[t] /\ FALSE]
          /\ "emptied" \notin Emptied(t, 0)
      BY <2>4 DEF Land, Conclude, Note
    <3>2. hasSession' = [hasSession EXCEPT ![t] = FALSE]
      BY <3>1, Zenon
    <3> QED
      BY <2>2, <3>1, <3>2 DEF Emptied
  <2>5. ASSUME NEW t \in Tabs, FinishSignOut(t)
        PROVE  ~hasSession'[s]
    <3>1. hasSession' = [hasSession EXCEPT ![t] = FALSE] /\ "emptied" \notin Emptied(t, 0)
      BY <2>5 DEF FinishSignOut, Note
    <3> QED
      BY <2>2, <3>1 DEF Emptied
  <2>6. ASSUME NEW t \in Tabs, FinishSignIn(t)
        PROVE  ~hasSession'[s]
    BY <2>3, <2>6 DEF FinishSignIn
  <2>7. ASSUME NEW t \in Tabs, Reload(t)
        PROVE  ~hasSession'[s]
    <3>1. disk = 0 /\ hasSession' = [hasSession EXCEPT ![t] = FALSE]
      <4>1. disk = 0 /\ hasSession' = [hasSession EXCEPT ![t] = disk # 0]
        BY <2>7 DEF Reload
      <4>2. (disk # 0) = FALSE
        BY <4>1, Zenon
      <4> QED
        BY <4>1, <4>2, Zenon
    <3> QED
      BY <2>1, <2>2, <3>1 DEF EmptyMeansSignedOut
  <2> QED
    BY <2>3, <2>4, <2>5, <2>6, <2>7
    DEF Next, Send, Disconnect, Proceed, Answer, Adopt, Refresh, Resend, Renew, Exchange,
        StartSignOut, RevokeOwn, StartSignIn, Lapse, Expel, vars, clientVars
<1>3. EmptyMeansSignedOut => RefusedCallLeavesScreens
  BY ApiClientAssumption DEF EmptyMeansSignedOut, RefusedCallLeavesScreens
<1>4. Spec => []EmptyMeansSignedOut
  BY <1>1, <1>2, AnyInductive, PTL DEF Spec
<1> QED
  BY <1>3, <1>4, PTL

-----------------------------------------------------------------------------
(* The pair a call is repeated with *)

(* The pair in the answer to a refresh is nowhere else until it is stored. *)
FreshAnswer(t) ==
  (flight[t].at = "served" /\ flight[t].got # 0) =>
    /\ disk # flight[t].got
    /\ \A c \in Calls : held[c] # flight[t].got
    /\ \A s \in Tabs : entering[s] # flight[t].got
    /\ \A s \in Tabs \ {t} : flight[s].got # flight[t].got

AnswersFresh == \A t \in Tabs : FreshAnswer(t)

(* A step that takes no new answer and moves pairs that are not in one.    *)
LEMMA NoneAnswered ==
  ASSUME AnswersFresh, TypeOK, NEW p,
         p = 0 \/ p = disk \/ (\E s \in Tabs : p = entering[s]),
         disk' \in {disk, p, 0},
         \A c \in Calls : held'[c] \in {held[c], disk},
         \A s \in Tabs : entering'[s] \in {entering[s], 0},
         \A s \in Tabs : \/ flight'[s] = flight[s]
                         \/ flight'[s].at # "served" /\ flight'[s].got = 0
  PROVE  AnswersFresh'
BY DEF AnswersFresh, FreshAnswer

LEMMA AnswersStep ==
  ASSUME AnyInv, AnswersFresh, [Next]_vars
  PROVE  AnswersFresh'
<1>0. TypeOK /\ Numbered
  BY DEF AnyInv
<1>1. ASSUME NEW c \in Calls, Send(c) \/ Disconnect(c) \/ Answer(c) \/ Adopt(c) \/ Resend(c)
      PROVE  AnswersFresh'
  <2>1. /\ UNCHANGED <<disk, flight, entering>>
        /\ \A d \in Calls : held'[d] \in {held[d], disk}
    BY <1>0, <1>1 DEF TypeOK, Send, Disconnect, Answer, Adopt, Resend
  <2> QED
    BY <1>0, <2>1, NoneAnswered
<1>2. ASSUME NEW c \in Calls, Refresh(c)
      PROVE  AnswersFresh'
  <2> DEFINE row == [at |-> "sent", tok |-> held[c], got |-> 0]
  <2>1. UNCHANGED <<disk, held, entering>> /\ row.at # "served" /\ row.got = 0
    BY <1>2 DEF Refresh
  <2>2. \A s \in Tabs : flight'[s] = flight[s] \/ flight'[s] = row
    BY <1>0, <1>2, ApiClientAssumption DEF TypeOK, Refresh, JoinFlight
  <2> HIDE DEF row
  <2> QED
    BY <1>0, <2>1, <2>2, NoneAnswered
<1>3. ASSUME NEW t \in Tabs, Exchange(t)
      PROVE  AnswersFresh'
  <2> DEFINE n == issued + 1
  <2>1. UNCHANGED <<disk, held, entering>> /\ \A s \in Tabs \ {t} : flight'[s] = flight[s]
    BY <1>0, <1>3 DEF TypeOK, Exchange
  <2>2. flight'[t].got \in {0, n}
    BY <1>0, <1>3 DEF TypeOK, Exchange
  <2>3. /\ n # 0 /\ disk # n /\ \A c \in Calls : held[c] # n
        /\ \A s \in Tabs : entering[s] # n /\ flight[s].got # n
    BY <1>0, Bounds DEF Numbered, Flights
  <2> HIDE DEF n
  <2>4. FreshAnswer(t)'
    BY <2>1, <2>2, <2>3 DEF FreshAnswer
  <2>5. ASSUME NEW s \in Tabs \ {t} PROVE FreshAnswer(s)'
    BY <2>1, <2>2, <2>3 DEF AnswersFresh, FreshAnswer
  <2> QED
    BY <2>4, <2>5 DEF AnswersFresh
<1>4. ASSUME NEW t \in Tabs, Land(t)
      PROVE  AnswersFresh'
  <2>1. PICK p \in 0 .. MaxPairs :
          /\ \/ p = 0
             \/ flight[t].at = "served" /\ p = flight[t].got
          /\ Conclude(t, p) /\ Wake(t, p)
    BY <1>4 DEF Land
  <2>2. /\ UNCHANGED entering /\ disk' = p /\ flight'[t] = NoFlight
        /\ \A s \in Tabs \ {t} : flight'[s] = flight[s]
        /\ \A c \in Calls : held'[c] \in {held[c], p}
    BY <1>0, <1>4, <2>1 DEF TypeOK, Land, Forget, Conclude, Wake
  <2>3. ASSUME NEW s \in Tabs \ {t} PROVE FreshAnswer(s)'
    BY <2>1, <2>2 DEF AnswersFresh, FreshAnswer, NoFlight
  <2>4. FreshAnswer(t)'
    BY <2>2 DEF FreshAnswer, NoFlight
  <2> QED
    BY <2>3, <2>4 DEF AnswersFresh
<1>5. ASSUME NEW t \in Tabs, StartSignIn(t)
      PROVE  AnswersFresh'
  <2> DEFINE n == issued + 1
  <2>1. /\ UNCHANGED <<disk, held, flight>>
        /\ \A s \in Tabs : entering'[s] = entering[s] \/ entering'[s] = n
    BY <1>0, <1>5 DEF TypeOK, StartSignIn
  <2>2. \A s \in Tabs : flight[s].got # n
    BY <1>0, Bounds DEF Numbered, Flights
  <2> HIDE DEF n
  <2> QED
    BY <2>1, <2>2 DEF AnswersFresh, FreshAnswer
<1>6. ASSUME NEW t \in Tabs, FinishSignIn(t) \/ FinishSignOut(t)
      PROVE  AnswersFresh'
  <2>1. /\ UNCHANGED <<held, flight>> /\ disk' \in {disk, entering[t], 0}
        /\ \A s \in Tabs : entering'[s] \in {entering[s], 0}
    BY <1>0, <1>6 DEF TypeOK, FinishSignIn, FinishSignOut
  <2> QED
    BY <1>0, <2>1, NoneAnswered
<1>7. ASSUME NEW t \in Tabs, Reload(t)
      PROVE  AnswersFresh'
  <2>1. /\ UNCHANGED <<disk, held>>
        /\ \A s \in Tabs : entering'[s] \in {entering[s], 0}
        /\ \A s \in Tabs : flight'[s] = flight[s] \/ flight'[s] = NoFlight
    BY <1>0, <1>7 DEF TypeOK, Reload
  <2>2. NoFlight.at # "served" /\ NoFlight.got = 0
    BY DEF NoFlight
  <2> QED
    BY <1>0, <2>1, <2>2, NoneAnswered
<1>8. CASE UNCHANGED <<disk, held, entering, flight>>
  BY <1>0, <1>8, NoneAnswered
<1> QED
  BY <1>1, <1>2, <1>3, <1>4, <1>5, <1>6, <1>7, <1>8
  DEF Next, Proceed, Renew, StartSignOut, RevokeOwn, Lapse, Expel, vars, clientVars

(* A call that was refused is repeated with a pair other than the one it   *)
(* had sent, whoever started the refresh it waited for.                    *)
THEOREM AnotherToken == Spec => RetryCarriesAnotherToken
<1> DEFINE Another ==
      \A c \in Calls : (pc[c] \in {"rejected", "joined"} /\ pc'[c] = "renewed")
                          => held'[c] \notin {0, held[c]}
<1>1. AnyInv /\ AnswersFresh /\ [Next]_vars => [Another]_vars
  <2> SUFFICES ASSUME AnyInv, AnswersFresh, Next, NEW c \in Calls,
                      pc[c] \in {"rejected", "joined"}, pc'[c] = "renewed"
               PROVE  held'[c] \notin {0, held[c]}
    OBVIOUS
  <2>0. TypeOK
    BY DEF AnyInv
  <2>1. ASSUME NEW d \in Calls, Adopt(d)
        PROVE  held'[c] \notin {0, held[c]}
    BY <2>0, <2>1 DEF TypeOK, Adopt, AlreadyRenewed
  <2>2. ASSUME NEW t \in Tabs, Land(t)
        PROVE  held'[c] \notin {0, held[c]}
    <3>1. PICK p \in 0 .. MaxPairs :
            /\ \/ p = 0
               \/ flight[t].at = "served" /\ p = flight[t].got
            /\ Wake(t, p)
      BY <2>2 DEF Land
    <3>2. p # 0 /\ held'[c] = p
      BY <2>0, <3>1 DEF TypeOK, Wake
    <3> QED
      BY <3>1, <3>2 DEF AnswersFresh, FreshAnswer
  <2>3. ASSUME NEW d \in Calls,
               Send(d) \/ Disconnect(d) \/ Answer(d) \/ Refresh(d) \/ Resend(d)
        PROVE  FALSE
    BY <2>0, <2>3 DEF TypeOK, Send, Disconnect, Answer, Refresh, Resend
  <2> QED
    BY <2>0, <2>1, <2>2, <2>3
    DEF TypeOK, Next, Proceed, Renew, Exchange, StartSignOut, RevokeOwn, FinishSignOut,
        StartSignIn, FinishSignIn, Reload, Lapse, Expel, vars, clientVars
<1> HIDE DEF Another
<1>2. Init => AnswersFresh
  BY DEF Init, AnswersFresh, FreshAnswer, NoFlight
<1>3. AnyInv /\ AnswersFresh /\ [Next]_vars => AnswersFresh'
  BY AnswersStep
<1>4. Spec => [][Another]_vars
  BY <1>1, <1>2, <1>3, AnyInductive, PTL DEF Spec
<1> QED
  BY <1>4 DEF RetryCarriesAnotherToken, Another
=============================================================================
