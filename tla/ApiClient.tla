----------------------------- MODULE ApiClient -----------------------------
(***************************************************************************)
(* The application's HTTP client and its session: request, requestBlob and *)
(* the single-flight refresh of frontend/src/api/client.ts, the sign-in,   *)
(* sign-out and expiry notice of context/AuthProvider.tsx, and the storage *)
(* they share.                                                             *)
(*                                                                         *)
(* A tab is one JavaScript context (on a phone there is only one): module  *)
(* variables belong to it, the storage belongs to all of them.  A step is  *)
(* the code between two awaits; the storage answers in the order in which  *)
(* it is asked, so an access to it is atomic with the code that follows.   *)
(* The server is the one of module Sessions with its handlers run one at a *)
(* time.                                                                   *)
(***************************************************************************)
EXTENDS Integers, FiniteSets

CONSTANTS
  Tabs,        \* JavaScript contexts that share the storage
  Calls,       \* authenticated calls made by the screens
  Home,        \* the tab a call is made from
  MaxLapses,   \* bound: access tokens that ever expire
  MaxSignIns,  \* bound: sign-ins after the first one
  Lossy,       \* TRUE: the network may lose a request or its answer
  SignOuts,    \* TRUE: the user may sign out
  Reloads,     \* TRUE: a page may be reloaded or the application killed
  Expulsions   \* TRUE: the server may revoke every session of the user

ASSUME ApiClientAssumption ==
  /\ Home \in [Calls -> Tabs]
  /\ MaxLapses \in Nat /\ MaxSignIns \in Nat
  /\ Lossy \in BOOLEAN /\ SignOuts \in BOOLEAN
  /\ Reloads \in BOOLEAN /\ Expulsions \in BOOLEAN

(* Token pairs, numbered as the server issues them: one by the sign-in the *)
(* behaviour starts from, one by each later sign-in, and one for each      *)
(* access token that has expired.                                          *)
MaxPairs == 1 + MaxLapses + MaxSignIns
Pairs    == 1 .. MaxPairs

VARIABLES
  \* the client
  disk,        \* the pair in storage, 0 for none
  hasSession,  \* hasSession of AuthProvider, per tab
  flight,      \* refreshInFlight, per tab
  leaving,     \* signOut in progress, per tab, and the token it presents
  entering,    \* signIn in progress, per tab: the pair received, 0 for none
  pc,          \* where a call is
  held,        \* the pair a call last sent, 0 for none
  \* the server
  live,        \* pairs whose refresh token is not revoked
  issued,      \* pairs issued so far
  lapsed,      \* access tokens of pairs up to this one have expired
  signIns,     \* sign-ins so far
  reuse,       \* a revoked refresh token was presented
  \* history
  mishaps      \* what has happened besides calls, expiries and refreshes

clientVars == <<disk, hasSession, flight, leaving, entering, pc, held>>
serverVars == <<live, issued, lapsed, signIns, reuse>>
vars       == <<clientVars, serverVars, mishaps>>

(* A refresh: the token it presents, and what the server answered.         *)
Flights  == [at : {"none", "sent", "served"}, tok : 0 .. MaxPairs, got : 0 .. MaxPairs]
NoFlight == [at |-> "none", tok |-> 0, got |-> 0]
Staying  == [at |-> "no", tok |-> 0]

(* What can disturb the session: the answer to a refresh was lost, the     *)
(* user signed out or in, a page was reloaded, the server revoked the      *)
(* sessions, two tabs refreshed at once, or one tab emptied the storage    *)
(* under the screens of another.                                           *)
Mishaps == {"loss", "signOut", "signIn", "reload", "expulsion", "overlap", "emptied"}

Waiting == {"sent", "rejected", "joined", "renewed", "resent"}
Settled == {"done", "denied", "failed", "gone"}

TypeOK ==
  /\ disk \in 0 .. MaxPairs
  /\ hasSession \in [Tabs -> BOOLEAN]
  /\ flight \in [Tabs -> Flights]
  /\ leaving \in [Tabs -> [at : {"no", "revoking", "clearing"}, tok : 0 .. MaxPairs]]
  /\ entering \in [Tabs -> 0 .. MaxPairs]
  /\ pc \in [Calls -> {"idle"} \cup Waiting \cup Settled]
  /\ held \in [Calls -> 0 .. MaxPairs]
  /\ live \subseteq 1 .. issued
  /\ issued \in Pairs
  /\ lapsed \in 0 .. MaxLapses
  /\ signIns \in 0 .. MaxSignIns
  /\ reuse \in BOOLEAN
  /\ mishaps \subseteq Mishaps

Init ==
  /\ disk = 1
  /\ hasSession = [t \in Tabs |-> TRUE]
  /\ flight = [t \in Tabs |-> NoFlight]
  /\ leaving = [t \in Tabs |-> Staying]
  /\ entering = [t \in Tabs |-> 0]
  /\ pc = [c \in Calls |-> "idle"]
  /\ held = [c \in Calls |-> 0]
  /\ live = {1} /\ issued = 1 /\ lapsed = 0
  /\ signIns = 0 /\ reuse = FALSE
  /\ mishaps = {}

-----------------------------------------------------------------------------
(* request and requestBlob *)

Accepted(p) == p > lapsed

(* The session is read and the request sent; without one it is sent bare.  *)
Send(c) ==
  /\ pc[c] = "idle"
  /\ hasSession[Home[c]]
  /\ pc' = [pc EXCEPT ![c] = "sent"]
  /\ held' = [held EXCEPT ![c] = disk]
  /\ UNCHANGED <<disk, hasSession, flight, leaving, entering, serverVars, mishaps>>

(* The answer: a 401 is retried only by a call that had a session; every   *)
(* other outcome, an error included, is handed to the screen.              *)
Answer(c) ==
  /\ pc[c] \in {"sent", "resent"}
  /\ pc' = [pc EXCEPT ![c] =
       IF held[c] # 0 /\ Accepted(held[c]) THEN "done"
       ELSE IF held[c] # 0 /\ pc[c] = "sent" THEN "rejected"
       ELSE "denied"]
  /\ UNCHANGED <<disk, hasSession, flight, leaving, entering, held, serverVars, mishaps>>

Disconnect(c) ==
  /\ Lossy
  /\ pc[c] \in {"sent", "resent"}
  /\ pc' = [pc EXCEPT ![c] = "failed"]
  /\ UNCHANGED <<disk, hasSession, flight, leaving, entering, held, serverVars, mishaps>>

NeverRenewed(p) == FALSE \* mutant: the session is not read again
AlreadyRenewed(p) == disk # 0 /\ disk # p

(* The storage has moved on: the call takes what it finds there.           *)
Adopt(c) ==
  /\ pc[c] = "rejected"
  /\ AlreadyRenewed(held[c])
  /\ pc' = [pc EXCEPT ![c] = "renewed"]
  /\ held' = [held EXCEPT ![c] = disk]
  /\ UNCHANGED <<disk, hasSession, flight, leaving, entering, serverVars, mishaps>>

Note(happened) == mishaps' = mishaps \cup happened

JoinFlight(t, p) ==
  flight' = [flight EXCEPT ![t] =
    IF flight[t].at = "none" THEN [at |-> "sent", tok |-> p, got |-> 0] ELSE flight[t]]

(* refreshSession: the call starts the refresh, or awaits the one going on. *)
Refresh(c) ==
  /\ pc[c] = "rejected"
  /\ ~AlreadyRenewed(held[c])
  /\ pc' = [pc EXCEPT ![c] = "joined"]
  /\ JoinFlight(Home[c], held[c])
  /\ Note({"overlap" : t \in {t \in Tabs \ {Home[c]} :
                flight[Home[c]].at = "none" /\ flight[t].at # "none"}})
  /\ UNCHANGED <<disk, hasSession, leaving, entering, held, serverVars>>

(* The request is repeated, once, with the renewed session.                *)
Resend(c) ==
  /\ pc[c] = "renewed"
  /\ pc' = [pc EXCEPT ![c] = "resent"]
  /\ UNCHANGED <<disk, hasSession, flight, leaving, entering, held, serverVars, mishaps>>

-----------------------------------------------------------------------------
(* The refresh *)

HonoursAny(p) == p # 0 \* mutant: revokedAt is not looked at
Honours(p) == p \in live

(* POST /auth/refresh, handled whole: a live token is exchanged, a revoked *)
(* one ends every session of the user.                                     *)
Exchange(t) ==
  LET p == flight[t].tok
      n == issued + 1
  IN /\ flight[t].at = "sent"
     /\ \/ /\ Honours(p)
           /\ issued' = n
           /\ live' = (live \ {p}) \cup {n}
           /\ flight' = [flight EXCEPT ![t] = [at |-> "served", tok |-> p, got |-> n]]
           /\ UNCHANGED reuse
        \/ /\ ~Honours(p)
           /\ live' = {}
           /\ reuse' = TRUE
           /\ flight' = [flight EXCEPT ![t] = [at |-> "served", tok |-> p, got |-> 0]]
           /\ UNCHANGED issued
     /\ UNCHANGED <<disk, hasSession, leaving, entering, pc, held, lapsed, signIns, mishaps>>

(* Waiting calls resume when the promise settles.                          *)
LeaveWaiters(t, p) == \* mutant: a refusal does not reach those who wait
  /\ pc' = [c \in Calls |->
       IF pc[c] = "joined" /\ Home[c] = t /\ p # 0 THEN "renewed" ELSE pc[c]]
  /\ held' = [c \in Calls |->
       IF pc[c] = "joined" /\ Home[c] = t /\ p # 0 THEN p ELSE held[c]]
Wake(t, p) ==
  LET waiting == {c \in Calls : pc[c] = "joined" /\ Home[c] = t}
  IN /\ pc' = [c \in Calls |->
          IF c \in waiting THEN (IF p = 0 THEN "denied" ELSE "renewed") ELSE pc[c]]
     /\ held' = [c \in Calls |-> IF c \in waiting THEN p ELSE held[c]]

Emptied(t, p) == {"emptied" : s \in {s \in Tabs \ {t} : p = 0 /\ hasSession[s]}}

SaveOnly(t, p) == disk' = p /\ UNCHANGED hasSession \* mutant: nobody is told
KeepStored(t, p) == \* mutant: the new pair is not saved
  disk' = (IF p = 0 THEN 0 ELSE disk) /\ UNCHANGED hasSession
Conclude(t, p) ==
  /\ disk' = p
  /\ hasSession' = [hasSession EXCEPT ![t] = @ /\ p # 0]

KeepPromise(t) == UNCHANGED flight \* mutant: no finally block
Forget(t) == flight' = [flight EXCEPT ![t] = NoFlight]

(* The tail of refreshSession: save, or clear and notify; then forget the  *)
(* promise and let it settle.  A lost answer counts as a refusal.          *)
Land(t) ==
  /\ flight[t].at # "none"
  /\ \E p \in 0 .. MaxPairs :
       /\ \/ flight[t].at = "served" /\ p = flight[t].got /\ Note(Emptied(t, p))
          \/ Lossy /\ p = 0 /\ Note(Emptied(t, p) \cup {"loss"})
       /\ Conclude(t, p)
       /\ Wake(t, p)
  /\ Forget(t)
  /\ UNCHANGED <<leaving, entering, serverVars>>

-----------------------------------------------------------------------------
(* signOut and signIn *)

StartSignOut(t) ==
  /\ SignOuts
  /\ hasSession[t] /\ leaving[t].at = "no"
  /\ leaving' = [leaving EXCEPT ![t] = [at |-> "revoking", tok |-> disk]]
  /\ Note({"signOut"})
  /\ UNCHANGED <<disk, hasSession, flight, entering, pc, held, serverVars>>

(* POST /auth/logout revokes the token presented, if there is one; failing *)
(* does not stop the sign-out.                                             *)
RevokeOwn(t) ==
  /\ leaving[t].at = "revoking"
  /\ leaving' = [leaving EXCEPT ![t] = [at |-> "clearing", tok |-> leaving[t].tok]]
  /\ \/ live' = live \ {leaving[t].tok}
     \/ Lossy /\ UNCHANGED live
  /\ UNCHANGED <<disk, hasSession, flight, entering, pc, held, issued, lapsed,
                 signIns, reuse, mishaps>>

FinishSignOut(t) ==
  /\ leaving[t].at = "clearing"
  /\ leaving' = [leaving EXCEPT ![t] = Staying]
  /\ disk' = 0
  /\ hasSession' = [hasSession EXCEPT ![t] = FALSE]
  /\ Note(Emptied(t, 0))
  /\ UNCHANGED <<flight, entering, pc, held, serverVars>>

(* POST /auth/login, from the login screen.                                *)
StartSignIn(t) ==
  /\ ~hasSession[t] /\ entering[t] = 0
  /\ signIns < MaxSignIns
  /\ signIns' = signIns + 1
  /\ issued' = issued + 1
  /\ live' = live \cup {issued + 1}
  /\ entering' = [entering EXCEPT ![t] = issued + 1]
  /\ Note({"signIn"})
  /\ UNCHANGED <<disk, hasSession, flight, leaving, pc, held, lapsed, reuse>>

FinishSignIn(t) ==
  /\ entering[t] # 0
  /\ entering' = [entering EXCEPT ![t] = 0]
  /\ \/ /\ disk' = entering[t]
        /\ hasSession' = [hasSession EXCEPT ![t] = TRUE]
     \/ /\ Lossy
        /\ UNCHANGED <<disk, hasSession>>
  /\ UNCHANGED <<flight, leaving, pc, held, serverVars, mishaps>>

(* The context is lost with everything in it; the new one starts from the  *)
(* storage.  A request on its way is either handled before or never.       *)
Reload(t) ==
  /\ Reloads
  /\ \/ flight[t].at # "none"
     \/ leaving[t].at # "no"
     \/ entering[t] # 0
     \/ hasSession[t] # (disk # 0)
  /\ hasSession' = [hasSession EXCEPT ![t] = disk # 0]
  /\ flight' = [flight EXCEPT ![t] = NoFlight]
  /\ leaving' = [leaving EXCEPT ![t] = Staying]
  /\ entering' = [entering EXCEPT ![t] = 0]
  /\ pc' = [c \in Calls |->
       IF Home[c] = t /\ pc[c] \in Waiting THEN "gone" ELSE pc[c]]
  /\ Note({"reload"})
  /\ UNCHANGED <<disk, held, serverVars>>

-----------------------------------------------------------------------------
(* The server on its own *)

Lapse ==
  /\ lapsed < issued /\ lapsed < MaxLapses
  /\ lapsed' = lapsed + 1
  /\ UNCHANGED <<clientVars, live, issued, signIns, reuse, mishaps>>

(* A logout-all, a new password or a reuse seen on another device.         *)
Expel ==
  /\ Expulsions
  /\ live # {}
  /\ live' = {}
  /\ Note({"expulsion"})
  /\ UNCHANGED <<clientVars, issued, lapsed, signIns, reuse>>

-----------------------------------------------------------------------------

Proceed(c) ==
  \/ Answer(c)
  \/ Adopt(c)
  \/ Refresh(c)
  \/ Resend(c)

Renew(t) == Exchange(t) \/ Land(t)

Next ==
  \/ \E c \in Calls : Send(c) \/ Disconnect(c) \/ Proceed(c)
  \/ \E t \in Tabs :
       \/ Renew(t)
       \/ StartSignOut(t) \/ RevokeOwn(t) \/ FinishSignOut(t)
       \/ StartSignIn(t) \/ FinishSignIn(t)
       \/ Reload(t)
  \/ Lapse
  \/ Expel

Spec == Init /\ [][Next]_vars

(* fetch settles, with an answer or with an error, and the event loop runs *)
(* what follows; nothing makes the user act or a token lapse.              *)
FairSpec ==
  /\ Spec
  /\ \A c \in Calls : WF_vars(Proceed(c))
  /\ \A t \in Tabs : WF_vars(Renew(t))

-----------------------------------------------------------------------------
(* Properties *)

(* client.ts:1-16, MIGRATION_STATUS.md:802-815: a refresh token that was   *)
(* rotated or revoked is never presented for a refresh, so the server never *)
(* sees a reuse and never ends the sessions on the other devices for it.    *)
(* That holds as long as there are only calls, expiries and refreshes, in  *)
(* any order and in any number of tabs that do not refresh at once.        *)
RotatedTokenNeverPresented == mishaps = {} => ~reuse

(* Nor does any interleaving of them cost the user the session: the one    *)
(* refresh token that still works is in storage or on its way to it.       *)
SessionNeverLost ==
  mishaps = {} =>
    /\ live = {issued}
    /\ \/ disk = issued
       \/ \E t \in Tabs : flight[t].at = "served" /\ flight[t].got = issued

(* A call is repeated with another access token than the one refused, even *)
(* when it joined a refresh that a call with a different session started.  *)
RetryCarriesAnotherToken ==
  [][\A c \in Calls :
       (pc[c] \in {"rejected", "joined"} /\ pc'[c] = "renewed")
         => held'[c] \notin {0, held[c]}]_vars

(* AuthProvider.tsx:59: a user whose session is gone from storage is not   *)
(* left in front of authenticated screens by a call that was refused,      *)
(* unless another tab has emptied the storage.                             *)
RefusedCallLeavesScreens ==
  "emptied" \notin mishaps =>
    \A c \in Calls : (pc[c] = "denied" /\ disk = 0) => ~hasSession[Home[c]]

(* Every call ends: whoever waits for a refresh is told how it went, and   *)
(* a refresh that failed does not hold back the next one.                  *)
CallsEnd ==
  \A c \in Calls : (pc[c] \in Waiting) ~> (pc[c] \in Settled)
=============================================================================
