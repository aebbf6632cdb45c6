------------------------------- MODULE Session -------------------------------
(***************************************************************************)
(* Who is signed in, in one tab of the browser.  The query cache is above  *)
(* the pages: it outlives a logout, which goes to the login page without   *)
(* loading the document anew, and is lost only when a refused token loads  *)
(* it again.  A request carries the token of the moment it is sent.        *)
(***************************************************************************)
EXTENDS PageClient

CONSTANT Nobody   \* the user of a tab that shows the login page

VARIABLES
  user,        \* the user of the auth store
  asker,       \* asker[q]: whose token the fetch under way carries
  stale,       \* queries invalidated while no page showed them
  handedOver   \* history: the cache outlived a session ended by the button

sessionVars == <<user, asker, stale, handedOver>>

SessionInit(u, shown) ==
  /\ CacheInit(Queries \ {shown}, [q \in Queries |-> Missing])
  /\ user = u
  /\ asker = [q \in Queries |-> IF q = shown THEN u ELSE Nobody]
  /\ stale = {}
  /\ handedOver = FALSE
  /\ calls = {}

-----------------------------------------------------------------------------
\* A page shows q for u: data that are old enough, marked or not there yet are
\* fetched, unless a fetch is under way, whoever has asked for it.
Show(q, u) ==
  /\ \/ /\ fetching[q] = "idle"
        /\ fetching' = [fetching EXCEPT ![q] = "asked"]
        /\ asker' = [asker EXCEPT ![q] = u]
     \/ /\ fetching[q] # "idle" \/ (cache[q] # Missing /\ q \notin stale)
        /\ UNCHANGED <<fetching, asker>>
  /\ UNCHANGED <<cache, reply, owed, excused, stale, handedOver>>

\* Invalidates all the keys of the list: the one shown is fetched at once.
invalidateList(shown) ==
  /\ invalidateQueries(shown, {})
  /\ asker' = [q \in Queries |-> IF q \in shown /\ ~ Joins(q) THEN user ELSE asker[q]]
  /\ stale' = {q \in Queries \ shown : cache[q] # Missing} \cup (stale \ shown)

\* The answer is to whoever asked.
Answered(q, now) == ServerReads(q, now) /\ UNCHANGED sessionVars

Arrived(q) ==
  /\ Arrive(q)
  /\ stale' = stale \ {q}
  /\ UNCHANGED <<user, asker, handedOver>>

-----------------------------------------------------------------------------
\* The button: the token goes, the cache and what is under way stay.
handleLogout ==
  /\ user # Nobody
  /\ user' = Nobody
  /\ handedOver' = TRUE
  /\ UNCHANGED <<cacheVars, asker, stale>>

\* The document is loaded again: nothing in memory is left, and the answers of
\* the calls under way reach nobody.
Reload ==
  /\ cache' = [q \in Queries |-> Missing]
  /\ fetching' = [q \in Queries |-> "idle"]
  /\ reply' = [q \in Queries |-> Missing]
  /\ asker' = [q \in Queries |-> Nobody]
  /\ owed' = {} /\ excused' = {}
  /\ stale' = {}
  /\ handedOver' = FALSE

\* Mutant of LoginAgain: the login page is pushed, as the button does.
LoginAgain_Push ==
  UNCHANGED <<cache, fetching, reply, asker, owed, excused, stale, handedOver>>

LoginAgain == Reload

\* A token is refused: whoever is signed in by then is signed out.  On the login
\* page nothing is loaded again, and the request has just failed.
Unauthorized ==
  /\ user # Nobody
  /\ user' = Nobody
  /\ LoginAgain
=============================================================================
