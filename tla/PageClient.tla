----------------------------- MODULE PageClient -----------------------------
(***************************************************************************)
(* What a page of the web client keeps of the server: the query cache and  *)
(* the mutations under way, as TanStack Query runs them for useQuery,      *)
(* useMutation and invalidateQueries.                                      *)
(*                                                                         *)
(* An invalidated query is fetched again at once.  A fetch under way is    *)
(* given up for the new one, unless the query has no data yet: then the    *)
(* first fetch goes on and the invalidation joins it.                      *)
(***************************************************************************)
EXTENDS FiniteSets

CONSTANTS
  Queries,   \* the query keys of the page
  Missing    \* the data of a query before its first answer

VARIABLES
  cache,     \* cache[q]: the data shown
  fetching,  \* fetching[q]: whether a fetch is under way, and read already
  reply,     \* reply[q]: what the fetch has read, until it arrives
  owed,      \* history: queries an acknowledged change of the page outdated
  excused,   \* history: the owed ones whose fetch failed or was joined late
  calls      \* the calls of mutations that are open

cacheVars == <<cache, fetching, reply, owed, excused>>
clientVars == <<cache, fetching, reply, owed, excused, calls>>

CacheTypeOK ==
  /\ fetching \in [Queries -> {"idle", "asked", "answered"}]
  /\ DOMAIN cache = Queries /\ DOMAIN reply = Queries
  /\ owed \subseteq Queries
  /\ excused \subseteq Queries

\* The page is entered: queries in `warm' are in the cache from another page,
\* as the server has them `now'; the others are fetched.
CacheInit(warm, now) ==
  /\ cache = [q \in Queries |-> IF q \in warm THEN now[q] ELSE Missing]
  /\ fetching = [q \in Queries |-> IF q \in warm THEN "idle" ELSE "asked"]
  /\ reply = [q \in Queries |-> Missing]
  /\ owed = {}
  /\ excused = {}

-----------------------------------------------------------------------------
\* A query that has no data keeps the fetch it has begun.
Joins(q) == cache[q] = Missing /\ fetching[q] # "idle"

\* onSuccess invalidates the queries Q after a change of what `changed' show.
invalidateQueries(Q, changed) ==
  LET again == {q \in Q : ~ Joins(q)}
      late  == {q \in Q : Joins(q) /\ fetching[q] = "answered"}
  IN /\ fetching' = [q \in Queries |-> IF q \in again THEN "asked" ELSE fetching[q]]
     /\ reply' = [q \in Queries |-> IF q \in again THEN Missing ELSE reply[q]]
     /\ owed' = owed \cup changed
     /\ excused' = (excused \ again) \cup late
     /\ UNCHANGED cache

\* The server reads the data of q, which are `now', for the fetch under way.
ServerReads(q, now) ==
  /\ fetching[q] = "asked"
  /\ fetching' = [fetching EXCEPT ![q] = "answered"]
  /\ reply' = [reply EXCEPT ![q] = now]
  /\ UNCHANGED <<cache, owed, excused, calls>>

Arrive(q) ==
  /\ fetching[q] = "answered"
  /\ cache' = [cache EXCEPT ![q] = reply[q]]
  /\ fetching' = [fetching EXCEPT ![q] = "idle"]
  /\ reply' = [reply EXCEPT ![q] = Missing]
  /\ owed' = IF q \in excused THEN owed ELSE owed \ {q}
  /\ UNCHANGED <<excused, calls>>

\* The fetch and its one retry fail: the old data stay on the screen.
FetchFails(q) ==
  /\ fetching[q] # "idle"
  /\ fetching' = [fetching EXCEPT ![q] = "idle"]
  /\ reply' = [reply EXCEPT ![q] = Missing]
  /\ excused' = excused \cup {q}
  /\ UNCHANGED <<cache, owed, calls>>

\* The page is entered again, or its window gets the focus: data that are
\* stale by then are fetched again.
Refetch(q) ==
  /\ fetching[q] = "idle"
  /\ fetching' = [fetching EXCEPT ![q] = "asked"]
  /\ excused' = excused \ {q}
  /\ UNCHANGED <<cache, reply, owed, calls>>

-----------------------------------------------------------------------------
\* useMutation: isPending is that of the observer's call that still waits.
isPending(m) == \E c \in calls : c.mutation = m /\ c.waiting

mutate(r, m, args) ==
  /\ \A c \in calls : c.request # r
  /\ calls' = calls \cup
       {[request |-> r, mutation |-> m, args |-> args, state |-> "sent", waiting |-> TRUE]}
  /\ UNCHANGED cacheVars

\* The handler has read what it needs and has not written yet.
Begun(c) == calls' = (calls \ {c}) \cup {[c EXCEPT !.state = "busy"]}

\* The handler ends; the answer of a call nobody waits for is discarded.
Served(c, result) ==
  calls' = (calls \ {c}) \cup (IF c.waiting THEN {[c EXCEPT !.state = result]} ELSE {})

\* onError shows a toast, and that is all.
Refused(c) ==
  /\ c.state = "refused"
  /\ calls' = calls \ {c}
  /\ UNCHANGED cacheVars

\* Mutant of NetworkFails: the handler is forgotten with the connection.
NetworkFails_ForgetsCall(c) ==
  /\ c.waiting
  /\ calls' = calls \ {c}
  /\ UNCHANGED cacheVars

\* The connection breaks: onError runs while the handler goes on, or with the
\* answer on its way.  Mutations are not retried.
NetworkFails(c) ==
  /\ c.waiting
  /\ calls' = (calls \ {c}) \cup
       (IF c.state \in {"sent", "busy"} THEN {[c EXCEPT !.waiting = FALSE]} ELSE {})
  /\ UNCHANGED cacheVars

\* A change the page has been told of is on the screen, or the fetch that will
\* show it is under way, unless that fetch failed or had read too early.
OwnChangesComing == \A q \in owed \ excused : fetching[q] # "idle"
=============================================================================
