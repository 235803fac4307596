----------------------------- MODULE QueryCache -----------------------------
(***************************************************************************)
(* One query of the screens' cache, as the hooks of frontend/src/hooks use *)
(* the query library: data kept through a refetch or a failure, at most    *)
(* one fetch under way, and an answer given up when the fetch is           *)
(* cancelled.  Time does not pass here: a screen that opens may find its   *)
(* data fresh or not, whatever the 30 seconds of QueryProvider say.        *)
(***************************************************************************)

CONSTANTS
  Nothing,  \* no data yet; no value
  Failure   \* what a request that failed brings

NewQuery == [data |-> Nothing, error |-> FALSE, stale |-> TRUE,
             fetch |-> "none", got |-> Nothing]

(* A fetch: asked for, answered by the server, then taken by the screen.   *)
Asked(q) == [q EXCEPT !.fetch = "asked", !.got = Nothing]
AnsweredWith(q, value) == [q EXCEPT !.fetch = "answered", !.got = value]

(* Retries are part of the fetch: a failure is the last one's.             *)
Taken(q) ==
  LET landed == [q EXCEPT !.fetch = "none", !.got = Nothing]
  IN IF q.got = Failure
     THEN [landed EXCEPT !.error = TRUE]
     ELSE [landed EXCEPT !.data = q.got, !.error = FALSE, !.stale = FALSE]

(* cancelQueries: the fetch goes on, nobody listens.                       *)
Cancelled(q) == [q EXCEPT !.fetch = "none", !.got = Nothing]

(* setQueryData: a fetch under way is left alone.                          *)
Written(q, value) == [q EXCEPT !.data = value, !.error = FALSE, !.stale = FALSE]

(* invalidateQueries: a query some screen shows is fetched again at once,  *)
(* giving up the fetch under way; another waits for its screen.            *)
Invalidated(q, shown) ==
  LET marked == [q EXCEPT !.stale = TRUE] IN IF shown THEN Asked(marked) ELSE marked

(* A screen that shows the query opens: it asks when there is no data or   *)
(* the data is not fresh.                                                  *)
Opened(q) == IF q.fetch = "none" /\ q.stale THEN Asked(q) ELSE q

AtRest(q) == q.fetch = "none"
=============================================================================
