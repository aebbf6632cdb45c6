---------------------------- MODULE OfficeProofs ----------------------------
(***************************************************************************)
(* Theorems about the list pages, for any users, rows, page sizes and      *)
(* bounds: whose data a page shows, how the last administrator goes, what  *)
(* a request says of a row, and where the pager leads.                     *)
(***************************************************************************)
EXTENDS ListPage, SumFacts, TLAPS

\* What the first argument looks at; every other variable is of no account.
core == <<cache, fetching, reply, asker, user, handedOver, page, filter>>

\* Unless the cache was handed over, everything in it, on its way to it or asked
\* for is the present user's, and the login page is over an empty cache.
OwnInv ==
  /\ fetching \in [Queries -> {"idle", "asked", "answered"}]
  /\ DOMAIN cache = Queries /\ DOMAIN reply = Queries /\ DOMAIN asker = Queries
  /\ handedOver \in BOOLEAN
  /\ shown \in Queries
  /\ ~ handedOver =>
       \A q \in Queries :
         /\ fetching[q] # "idle" => asker[q] = user
         /\ fetching[q] = "answered" => reply[q].for = user
         /\ cache[q] # Missing => cache[q].for = user
         /\ user = Nobody => fetching[q] = "idle" /\ cache[q] = Missing

\* The first list of a page is one of the queries.
LEMMA FirstList == <<1, NoFilter>> \in Queries
BY QueriesAreLists, IdsAreDistinct DEF Pages, Filters, NoFilter, Texts

LEMMA OwnInit == ListInit => OwnInv
<1> SUFFICES ASSUME ListInit PROVE OwnInv
  OBVIOUS
<1>1. PICK e \in Entries : SessionInit(e.user, <<1, NoFilter>>) /\ page = 1 /\ filter = NoFilter
  BY DEF ListInit
<1>2. shown \in Queries
  BY <1>1, FirstList DEF shown
<1>3. user = e.user /\ user # Nobody
  BY <1>1, EntriesAreSituations, UsersAreUsers DEF SessionInit
<1>4. cache = [q \in Queries |-> Missing] /\ reply = [q \in Queries |-> Missing]
  BY <1>1 DEF SessionInit, CacheInit
<1>5. fetching = [q \in Queries |-> IF q = <<1, NoFilter>> THEN "asked" ELSE "idle"]
  BY <1>1, FirstList DEF SessionInit, CacheInit
<1>6. /\ asker = [q \in Queries |-> IF q = <<1, NoFilter>> THEN user ELSE Nobody]
      /\ handedOver = FALSE
  BY <1>1 DEF SessionInit
<1> QED
  BY <1>2, <1>3, <1>4, <1>5, <1>6 DEF OwnInv

\* A list is shown to the present user, who has come just now or was there.
LEMMA ShowKeeps ==
  ASSUME OwnInv, NEW p, NEW f, NEW u, u # Nobody, <<p, f>> \in Queries,
         page' = p, filter' = f, user' = u, user \in {u, Nobody},
         Show(<<p, f>>, u)
  PROVE  OwnInv'
<1>1. shown' = <<p, f>>
  BY DEF shown
<1>2. /\ fetching' \in [Queries -> {"idle", "asked", "answered"}]
      /\ DOMAIN cache' = Queries /\ DOMAIN reply' = Queries /\ DOMAIN asker' = Queries
      /\ handedOver' \in BOOLEAN
  BY DEF OwnInv, Show
<1>3. ASSUME ~ handedOver', NEW q \in Queries
      PROVE  /\ fetching'[q] # "idle" => asker'[q] = user'
             /\ fetching'[q] = "answered" => reply'[q].for = user'
             /\ cache'[q] # Missing => cache'[q].for = user'
             /\ user' # Nobody
  BY <1>3 DEF OwnInv, Show
<1> QED
  BY <1>1, <1>2, <1>3 DEF OwnInv

\* Nothing that counts here changes.
LEMMA CoreKeeps == ASSUME OwnInv, UNCHANGED core PROVE OwnInv'
BY DEF OwnInv, core, shown

\* A call is answered: the list is fetched again for the present user.
LEMMA InvalidationKeeps ==
  ASSUME OwnInv, invalidateList(Shown), UNCHANGED <<user, handedOver, page, filter>>
  PROVE  OwnInv'
<1>1. Shown \subseteq Queries
  BY DEF OwnInv, Shown
<1>2. cache' = cache
  BY DEF invalidateList, invalidateQueries
<1>3. fetching' = [q \in Queries |-> IF q \in Shown /\ ~ Joins(q) THEN "asked" ELSE fetching[q]]
  BY <1>1 DEF invalidateList, invalidateQueries
<1>4. reply' = [q \in Queries |-> IF q \in Shown /\ ~ Joins(q) THEN Missing ELSE reply[q]]
  BY <1>1 DEF invalidateList, invalidateQueries
<1>5. asker' = [q \in Queries |-> IF q \in Shown /\ ~ Joins(q) THEN user ELSE asker[q]]
  BY DEF invalidateList
<1>6. user = Nobody => Shown = {}
  BY DEF Shown
<1> QED
  BY <1>2, <1>3, <1>4, <1>5, <1>6 DEF OwnInv, shown

\* A fetch is answered with what the server lists for whoever asked.
LEMMA AnswerKeeps ==
  ASSUME OwnInv, NEW q \in Queries, ServerLists(q)
  PROVE  OwnInv'
<1>1. /\ fetching[q] = "asked"
      /\ fetching' = [fetching EXCEPT ![q] = "answered"]
      /\ reply' = [reply EXCEPT ![q] = Answer(q, asker[q])]
      /\ UNCHANGED <<cache, asker, user, handedOver, page, filter>>
  BY DEF ServerLists, Answered, ServerReads, sessionVars, listVars
<1>2. Answer(q, asker[q]).for = asker[q]
  BY DEF Answer
<1> QED
  BY <1>1, <1>2 DEF OwnInv, shown

\* The answer arrives in the cache.
LEMMA ArrivalKeeps ==
  ASSUME OwnInv, NEW q \in Queries, ListArrives(q)
  PROVE  OwnInv'
<1>1. /\ fetching[q] = "answered"
      /\ fetching' = [fetching EXCEPT ![q] = "idle"]
      /\ cache' = [cache EXCEPT ![q] = reply[q]]
      /\ reply' = [reply EXCEPT ![q] = Missing]
      /\ UNCHANGED <<asker, user, handedOver, page, filter>>
  BY DEF ListArrives, Arrived, Arrive, listVars
<1> QED
  BY <1>1 DEF OwnInv, shown

\* A fetch fails, and leaves nothing.
LEMMA FailureKeeps ==
  ASSUME OwnInv, NEW q \in Queries, ListFails(q)
  PROVE  OwnInv'
<1>1. /\ fetching' = [fetching EXCEPT ![q] = "idle"]
      /\ reply' = [reply EXCEPT ![q] = Missing]
      /\ UNCHANGED <<cache, asker, user, handedOver, page, filter>>
  BY DEF ListFails, FetchFails, sessionVars, listVars
<1> QED
  BY <1>1 DEF OwnInv, shown

\* The button hands the cache over; a refused token empties it.
LEMMA LogoutKeeps == ASSUME OwnInv, Logout PROVE OwnInv'
<1>1. handedOver' = TRUE /\ UNCHANGED <<cache, fetching, reply, asker>>
  BY DEF Logout, handleLogout, cacheVars
<1>2. shown' \in Queries
  BY FirstList DEF Logout, Unmount, shown
<1> QED
  BY <1>1, <1>2 DEF OwnInv

LEMMA RefusalKeeps == ASSUME OwnInv, TokenRefused PROVE OwnInv'
<1>1. /\ cache' = [q \in Queries |-> Missing] /\ reply' = [q \in Queries |-> Missing]
      /\ fetching' = [q \in Queries |-> "idle"] /\ asker' = [q \in Queries |-> Nobody]
      /\ handedOver' = FALSE
  BY DEF TokenRefused, Unauthorized, LoginAgain, Reload
<1>2. shown' \in Queries
  BY FirstList DEF TokenRefused, Unmount, shown
<1> QED
  BY <1>1, <1>2 DEF OwnInv

\* A user comes to the page, and the cache is either handed over or empty.
LEMMA LoginKeeps == ASSUME OwnInv, Login PROVE OwnInv'
<1>1. PICK u \in Users : user' = u /\ Show(<<1, NoFilter>>, u)
  BY DEF Login
<1>2. u # Nobody /\ user = Nobody /\ page' = 1 /\ filter' = NoFilter
  BY UsersAreUsers DEF Login
<1> QED
  BY <1>1, <1>2, FirstList, ShowKeeps

LEMMA ListingKeeps == ASSUME OwnInv, SetFilter \/ TurnPage PROVE OwnInv'
<1>1. user # Nobody /\ \E p, f : ShowList(p, f)
  BY DEF SetFilter, TurnPage, Act
<1>2. PICK p, f : ShowList(p, f)
  BY <1>1
<1> QED
  BY <1>1, <1>2, ShowKeeps DEF ShowList

\* What the user does in the sheets, what the server does for a call, and what
\* colleagues do, touches neither the cache nor the session.
LEMMA RestOfUser ==
  ASSUME \/ OpenCreate \/ TypeCreate \/ SubmitCreate \/ OpenEdit \/ TypeEdit \/ SubmitEdit
         \/ OpenDelete \/ ConfirmDelete \/ CloseSheet \/ PickStatus
  PROVE  UNCHANGED core
<1>1. CASE OpenCreate \/ TypeCreate \/ OpenEdit \/ TypeEdit \/ OpenDelete \/ CloseSheet
  BY <1>1 DEF OpenCreate, TypeCreate, OpenEdit, TypeEdit, OpenDelete, CloseSheet, clientVars,
              sessionVars, listVars, core
<1>2. ASSUME NEW mu, NEW i, NEW req, NEW typed, NEW from, Call(mu, i, req, typed, from)
      PROVE  UNCHANGED core
  BY <1>2 DEF Call, mutate, cacheVars, sessionVars, listVars, core
<1>3. CASE SubmitCreate
  BY <1>2, <1>3 DEF SubmitCreate
<1>4. CASE SubmitEdit
  BY <1>2, <1>4 DEF SubmitEdit
<1>5. CASE ConfirmDelete
  BY <1>2, <1>5 DEF ConfirmDelete
<1>6. CASE PickStatus
  BY <1>2, <1>6 DEF PickStatus
<1> QED
  BY <1>1, <1>3, <1>4, <1>5, <1>6

LEMMA RestOfCalls ==
  ASSUME NEW c \in calls, ServeCall(c) \/ onError(c)
  PROVE  UNCHANGED core
BY DEF ServeCall, onError, Refused, NetworkFails, cacheVars, sessionVars, listVars, core

LEMMA RestElsewhere == ASSUME ColleagueStep PROVE UNCHANGED core
BY DEF ColleagueStep, ColleagueAdds, ColleagueRemoves, ColleagueEdits, ColleagueDeletesCompany,
       Elsewhere, clientVars, sessionVars, listVars, core

LEMMA OwnStep == ASSUME OwnInv, [ListNext]_officeVars PROVE OwnInv'
<1>1. CASE SetFilter \/ TurnPage
  BY <1>1, ListingKeeps
<1>2. CASE Logout
  BY <1>2, LogoutKeeps
<1>3. CASE Login
  BY <1>3, LoginKeeps
<1>4. CASE \/ OpenCreate \/ TypeCreate \/ SubmitCreate \/ OpenEdit \/ TypeEdit \/ SubmitEdit
           \/ OpenDelete \/ ConfirmDelete \/ CloseSheet \/ PickStatus
  BY <1>4, RestOfUser, CoreKeeps
<1>5. CASE ColleagueStep
  BY <1>5, RestElsewhere, CoreKeeps
<1>6. ASSUME NEW c \in calls, ServeCall(c) \/ onError(c)
      PROVE  OwnInv'
  BY <1>6, RestOfCalls, CoreKeeps
<1>7. ASSUME NEW c \in calls, onSuccess(c)
      PROVE  OwnInv'
  BY <1>7, InvalidationKeeps DEF onSuccess, listVars
<1>8. ASSUME NEW q \in Queries, ServerLists(q) \/ ListArrives(q) \/ ListFails(q)
      PROVE  OwnInv'
  BY <1>8, AnswerKeeps, ArrivalKeeps, FailureKeeps
<1>9. CASE TokenRefused
  BY <1>9, RefusalKeeps
<1>10. CASE UNCHANGED officeVars
  <2>1. UNCHANGED core
    BY <1>10 DEF officeVars, clientVars, sessionVars, listVars, core
  <2> QED
    BY <2>1, CoreKeeps
<1> QED
  BY <1>1, <1>2, <1>3, <1>4, <1>5, <1>6, <1>7, <1>8, <1>9, <1>10 DEF ListNext, UserStep

\* Whatever logouts, refused tokens, late answers and failures come together: a
\* page shows nobody what was fetched for another, except after the logout by
\* the button, which keeps the cache.
THEOREM CacheIsOwn == ListSpec => []ShownRowsAreOwn
<1>1. OwnInv => ShownRowsAreOwn
  BY DEF OwnInv, ShownRowsAreOwn
<1> QED
  BY OwnInit, OwnStep, <1>1, PTL DEF ListSpec

-----------------------------------------------------------------------------
(***************************************************************************)
(* The last administrator.  Between its count and its write a deletion     *)
(* knows that it counted another one, whatever has happened since.         *)
(***************************************************************************)
CountedInv ==
  \A c \in calls :
    /\ DOMAIN c = {"request", "mutation", "args", "state", "waiting"}
    /\ DOMAIN c.args = {"id", "req", "typed", "from", "by", "mounted", "counted"}
    /\ c.state = "busy" /\ c.args.id \in c.args.counted => Cardinality(c.args.counted) > 1

\* A call that is left as it was, but for the fields the count is not about.
Same(d, c) ==
  /\ DOMAIN d = DOMAIN c /\ DOMAIN d.args = DOMAIN c.args
  /\ d.args.id = c.args.id /\ d.args.counted = c.args.counted
  /\ d.state # "busy" \/ d.state = c.state

LEMMA SameKeeps ==
  ASSUME CountedInv, \A d \in calls' : \E c \in calls : Same(d, c)
  PROVE  CountedInv'
BY DEF CountedInv, Same

\* The handler's end, a failed connection and the end of a page keep the count.
LEMMA ServedKeeps ==
  ASSUME CountedInv, NEW c \in calls, NEW r, r # "busy", Served(c, r)
  PROVE  CountedInv'
<1>1. \A d \in calls' : d \in calls \/ d = [c EXCEPT !.state = r]
  BY DEF Served
<1>2. Same([c EXCEPT !.state = r], c)
  BY DEF CountedInv, Same
<1>3. \A d \in calls : Same(d, d)
  BY DEF Same
<1> QED
  BY <1>1, <1>2, <1>3, SameKeeps

LEMMA FailureOfCallKeeps ==
  ASSUME CountedInv, NEW c \in calls, NetworkFails(c)
  PROVE  CountedInv'
<1>1. \A d \in calls' : d \in calls \/ d = [c EXCEPT !.waiting = FALSE]
  BY DEF NetworkFails
<1>2. Same([c EXCEPT !.waiting = FALSE], c)
  BY DEF CountedInv, Same
<1>3. \A d \in calls : Same(d, d)
  BY DEF Same
<1> QED
  BY <1>1, <1>2, <1>3, SameKeeps

LEMMA CallKeeps ==
  ASSUME CountedInv, NEW m, NEW i, NEW req, NEW typed, NEW from, Call(m, i, req, typed, from)
  PROVE  CountedInv'
<1>1. PICK r \in Requests :
        mutate(r, m, [id |-> i, req |-> req, typed |-> typed, from |-> from, by |-> user,
                      mounted |-> TRUE, counted |-> {}])
  BY DEF Call
<1>2. \A d \in calls' : d \in calls \/ d =
        [request |-> r, mutation |-> m,
         args |-> [id |-> i, req |-> req, typed |-> typed, from |-> from, by |-> user,
                   mounted |-> TRUE, counted |-> {}],
         state |-> "sent", waiting |-> TRUE]
  BY <1>1 DEF mutate
<1> QED
  BY <1>2 DEF CountedInv

\* The guard of DeleteEmployee: who is an administrator is not the only one.
LEMMA BeginKeeps ==
  ASSUME CountedInv, NEW c \in calls, BeginDelete(c)
  PROVE  CountedInv'
<1> DEFINE d == [c EXCEPT !.state = "busy", !.args.counted = Admins]
<1>1. calls' \subseteq calls \cup {d}
  BY DEF BeginDelete
<1>2. c.args.id \in Admins => Cardinality(Admins) > 1
  BY DEF BeginDelete
<1>3. /\ DOMAIN c = {"request", "mutation", "args", "state", "waiting"}
      /\ DOMAIN c.args = {"id", "req", "typed", "from", "by", "mounted", "counted"}
  BY DEF CountedInv
<1>4. /\ DOMAIN d = DOMAIN c /\ DOMAIN d.args = DOMAIN c.args
      /\ d.args.id = c.args.id /\ d.args.counted = Admins
  BY <1>3
<1> HIDE DEF d
<1> QED
  BY <1>1, <1>2, <1>3, <1>4 DEF CountedInv

\* A page that is left, and a document that is loaded again.
LEMMA LeavingKeeps == ASSUME CountedInv, Logout \/ TokenRefused PROVE CountedInv'
<1>1. CASE Logout
  <2>1. calls' = {[c EXCEPT !.args.mounted = FALSE] : c \in calls}
    BY <1>1 DEF Logout
  <2>2. \A c \in calls : Same([c EXCEPT !.args.mounted = FALSE], c)
    BY DEF CountedInv, Same
  <2> QED
    BY <2>1, <2>2, SameKeeps
<1>2. CASE TokenRefused
  <2>1. calls' = {[c EXCEPT !.waiting = FALSE, !.args.mounted = FALSE] :
                    c \in {d \in calls : d.state \in {"sent", "busy"}}}
    BY <1>2 DEF TokenRefused
  <2>2. \A c \in calls : Same([c EXCEPT !.waiting = FALSE, !.args.mounted = FALSE], c)
    BY DEF CountedInv, Same
  <2> QED
    BY <2>1, <2>2, SameKeeps
<1> QED
  BY <1>1, <1>2

LEMMA FewerCallsKeep == ASSUME CountedInv, calls' \subseteq calls PROVE CountedInv'
BY DEF CountedInv

LEMMA CountedStep == ASSUME CountedInv, [ListNext]_officeVars PROVE CountedInv'
<1>1. CASE \/ OpenCreate \/ TypeCreate \/ OpenEdit \/ TypeEdit \/ OpenDelete \/ CloseSheet
           \/ SetFilter \/ TurnPage \/ Login \/ ColleagueStep \/ UNCHANGED officeVars
  <2>1. calls' = calls
    BY <1>1 DEF OpenCreate, TypeCreate, OpenEdit, TypeEdit, OpenDelete, CloseSheet, SetFilter,
       TurnPage, ShowList, Login, ColleagueStep, ColleagueAdds, ColleagueRemoves, ColleagueEdits,
       ColleagueDeletesCompany, Elsewhere, clientVars, officeVars
  <2> QED
    BY <2>1, FewerCallsKeep
<1>2. CASE SubmitCreate \/ SubmitEdit \/ ConfirmDelete \/ PickStatus
  BY <1>2, CallKeeps DEF SubmitCreate, SubmitEdit, ConfirmDelete, PickStatus
<1>3. CASE Logout \/ TokenRefused
  BY <1>3, LeavingKeeps
<1>4. ASSUME NEW c \in calls, ServeCall(c)
      PROVE  CountedInv'
  <2>1. CASE BeginDelete(c)
    BY <2>1, BeginKeeps
  <2>2. CASE ServeCreate(c) \/ ServeUpdate(c) \/ EndDelete(c) \/ ServeRefuse(c)
    BY <2>2, ServedKeeps DEF ServeCreate, ServeUpdate, EndDelete, ServeRefuse
  <2> QED
    BY <1>4, <2>1, <2>2 DEF ServeCall
<1>5. ASSUME NEW c \in calls, onSuccess(c) \/ Refused(c)
      PROVE  CountedInv'
  BY <1>5, FewerCallsKeep DEF onSuccess, Refused
<1>6. ASSUME NEW c \in calls, NetworkFails(c)
      PROVE  CountedInv'
  BY <1>6, FailureOfCallKeeps
<1>7. ASSUME NEW q \in Queries, ServerLists(q) \/ ListArrives(q) \/ ListFails(q)
      PROVE  CountedInv'
  <2>1. calls' = calls
    BY <1>7 DEF ServerLists, Answered, ServerReads, ListArrives, Arrived, Arrive, ListFails,
                FetchFails
  <2> QED
    BY <2>1, FewerCallsKeep
<1> QED
  BY <1>1, <1>2, <1>3, <1>4, <1>5, <1>6, <1>7 DEF ListNext, UserStep, onError

\* A deletion that takes the last administrator was overtaken after its count.
LEMMA DeletionOvertaken ==
  ASSUME CountedInv, NEW c \in calls, EndDelete(c), LastGoes
  PROVE  Overtaken
<1>1. live' = live \ {c.args.id} /\ Admins \subseteq live
  BY DEF EndDelete, Write, Admins
<1>2. Admins = {c.args.id}
  BY <1>1 DEF LastGoes
<1>3. c.args.id \in c.args.counted => c.args.counted # {c.args.id}
  BY FS_Singleton DEF CountedInv, EndDelete
<1> QED
  BY <1>2, <1>3 DEF Overtaken, EndDelete

LEMMA LastStep ==
  ASSUME CountedInv, ListNext, LastGoes
  PROVE  ColleagueDeletesCompany \/ Overtaken
<1>1. CASE UserStep \/ TokenRefused
  <2>1. UNCHANGED live
    BY <1>1 DEF UserStep, OpenCreate, TypeCreate, SubmitCreate, OpenEdit, TypeEdit, SubmitEdit,
       OpenDelete, ConfirmDelete, CloseSheet, PickStatus, Call, SetFilter, TurnPage, ShowList,
       Logout, Login, TokenRefused, backendVars
  <2> QED
    BY <2>1 DEF LastGoes
<1>2. ASSUME ColleagueStep, ~ ColleagueDeletesCompany
      PROVE  FALSE
  <2>1. CASE ColleagueAdds \/ ColleagueEdits
    <3>1. live \subseteq live'
      BY <2>1 DEF ColleagueAdds, ColleagueEdits, Insert, Write
    <3> QED
      BY <3>1 DEF LastGoes, Admins
  <2>2. CASE ColleagueRemoves
    <3>1. PICK i \in live : (i \in Admins => Cardinality(Admins) > 1) /\ live' = live \ {i}
      BY <2>2 DEF ColleagueRemoves, Write
    <3>2. Admins = {i}
      BY <3>1 DEF LastGoes, Admins
    <3>3. Cardinality(Admins) > 1
      BY <3>1, <3>2
    <3>4. Cardinality(Admins) = 1
      BY <3>2, FS_Singleton
    <3> QED
      BY <3>3, <3>4
  <2> QED
    BY <1>2, <2>1, <2>2 DEF ColleagueStep
<1>3. ASSUME NEW c \in calls, ServeCall(c), ~ EndDelete(c)
      PROVE  FALSE
  <2>1. live \subseteq live'
    BY <1>3 DEF ServeCall, ServeCreate, ServeUpdate, BeginDelete, ServeRefuse, Insert, Write,
                backendVars
  <2> QED
    BY <2>1 DEF LastGoes, Admins
<1>4. ASSUME NEW c \in calls, onSuccess(c) \/ onError(c)
      PROVE  FALSE
  BY <1>4 DEF onSuccess, onError, backendVars, LastGoes
<1>5. ASSUME NEW q \in Queries, ServerLists(q) \/ ListArrives(q) \/ ListFails(q)
      PROVE  FALSE
  BY <1>5 DEF ServerLists, ListArrives, ListFails, backendVars, LastGoes
<1>6. ASSUME NEW c \in calls, EndDelete(c)
      PROVE  Overtaken
  BY <1>6, DeletionOvertaken
<1> QED
  BY <1>1, <1>2, <1>3, <1>4, <1>5, <1>6 DEF ListNext

\* However deletions, changes of roles and new employees come together: the last
\* administrator is deleted with a company, or by a call that had counted another
\* one, or none in whom it deletes.
THEOREM LastAdministratorGoesOvertaken == ListSpec => LastAdministratorStays
<1>1. ListInit => CountedInv
  BY DEF ListInit, SessionInit, CountedInv
<1>2. CountedInv /\ [ListNext]_officeVars =>
        [LastGoes => ColleagueDeletesCompany \/ Overtaken]_officeVars
  BY LastStep
<1> QED
  BY <1>1, <1>2, CountedStep, PTL DEF ListSpec, LastAdministratorStays

-----------------------------------------------------------------------------
(***************************************************************************)
(* The rows.  Every row of the server, on its way or shown has the fields  *)
(* its page's forms are filled from.                                       *)
(***************************************************************************)
Whole(a) == \A i \in DOMAIN a.rows : FieldsOf(kind) \subseteq DOMAIN a.rows[i]

StoreWhole ==
  /\ kind \in Kinds
  /\ live \subseteq DOMAIN store
  /\ \A i \in DOMAIN store : FieldsOf(kind) \subseteq DOMAIN store[i]

RowsInv ==
  /\ StoreWhole
  /\ \A q \in Queries : /\ cache[q] # Missing => Whole(cache[q])
                        /\ fetching[q] = "answered" => Whole(reply[q])

\* What can become of the rows in a step.
Inserted == \E u, req : Insert(u, req)

Written ==
  \E ids, rows1 :
    /\ Write(ids, rows1)
    /\ ids \subseteq live /\ DOMAIN rows1 = DOMAIN store
    /\ \A i \in DOMAIN store : DOMAIN rows1[i] = DOMAIN store[i]

LEMMA RowsChange ==
  ASSUME [ListNext]_officeVars
  PROVE  (Inserted \/ Written \/ UNCHANGED backendVars) /\ UNCHANGED kind
<1> USE DEF backendVars, boundVars
<1>1. CASE UserStep \/ TokenRefused \/ UNCHANGED officeVars
  BY <1>1 DEF UserStep, OpenCreate, TypeCreate, SubmitCreate, OpenEdit, TypeEdit, SubmitEdit,
     OpenDelete, ConfirmDelete, CloseSheet, PickStatus, Call, SetFilter, TurnPage, ShowList,
     Logout, Login, TokenRefused, Act, officeVars
<1>2. ASSUME NEW q \in Queries, ServerLists(q) \/ ListArrives(q) \/ ListFails(q)
      PROVE  UNCHANGED backendVars /\ UNCHANGED kind
  BY <1>2 DEF ServerLists, ListArrives, ListFails
<1>3. ASSUME NEW c \in calls, onSuccess(c) \/ onError(c)
      PROVE  UNCHANGED backendVars /\ UNCHANGED kind
  BY <1>3 DEF onSuccess, onError
<1>4. ASSUME NEW i, NEW req, Write(live, [store EXCEPT ![i] = Patch(@, req)])
      PROVE  Written
  <2> DEFINE rows1 == [store EXCEPT ![i] = Patch(store[i], req)]
  <2>1. /\ DOMAIN rows1 = DOMAIN store
        /\ \A j \in DOMAIN store : DOMAIN rows1[j] = DOMAIN store[j]
    BY DEF Patch
  <2> QED
    BY <1>4, <2>1 DEF Written
<1>5. ASSUME NEW ids \in SUBSET live, Write(ids, store)
      PROVE  Written
  BY <1>5 DEF Written
<1>6. ASSUME NEW c \in calls, ServeCall(c)
      PROVE  (Inserted \/ Written \/ UNCHANGED backendVars) /\ UNCHANGED kind
  <2>1. UNCHANGED kind
    BY <1>6 DEF ServeCall
  <2>2. CASE ServeCreate(c)
    BY <2>1, <2>2 DEF ServeCreate, Inserted
  <2>3. CASE ServeUpdate(c)
    BY <1>4, <2>1, <2>3 DEF ServeUpdate
  <2>4. CASE EndDelete(c)
    BY <1>5, <2>1, <2>4 DEF EndDelete
  <2>5. CASE BeginDelete(c) \/ ServeRefuse(c)
    BY <2>1, <2>5 DEF BeginDelete, ServeRefuse
  <2> QED
    BY <1>6, <2>2, <2>3, <2>4, <2>5 DEF ServeCall
<1>7. CASE ColleagueStep
  <2>1. UNCHANGED kind
    BY <1>7 DEF ColleagueStep, ColleagueAdds, ColleagueRemoves, ColleagueEdits,
                ColleagueDeletesCompany, Elsewhere
  <2>2. CASE ColleagueAdds
    BY <2>1, <2>2 DEF ColleagueAdds, Inserted
  <2>3. CASE ColleagueEdits
    BY <1>4, <2>1, <2>3 DEF ColleagueEdits
  <2>4. CASE ColleagueRemoves
    BY <1>5, <2>1, <2>4 DEF ColleagueRemoves
  <2>5. CASE ColleagueDeletesCompany
    BY <1>5, <2>1, <2>5 DEF ColleagueDeletesCompany
  <2> QED
    BY <1>7, <2>2, <2>3, <2>4, <2>5 DEF ColleagueStep
<1> QED
  BY <1>1, <1>2, <1>3, <1>6, <1>7 DEF ListNext

\* A new row has all the fields of its page.
LEMMA NewRowIsWhole ==
  ASSUME StoreWhole, Inserted, UNCHANGED kind
  PROVE  StoreWhole'
<1>1. PICK u, req : Insert(u, req)
  BY DEF Inserted
<1> DEFINE new == NewRow(u, req)
           more(n) == [i \in DOMAIN store \cup {Ids[n]} |-> IF i = Ids[n] THEN new ELSE store[i]]
<1>2. PICK n \in Unused : Write(live \cup {Ids[n]}, more(n))
  BY <1>1 DEF Insert
<1>3. FieldsOf(kind) \subseteq DOMAIN new
  BY DEF NewRow, Filled
<1> HIDE DEF new
<1>4. live' = live \cup {Ids[n]} /\ store' = more(n)
  BY <1>2 DEF Write
<1> QED
  BY <1>3, <1>4 DEF StoreWhole

LEMMA StoreStaysWhole ==
  ASSUME StoreWhole, [ListNext]_officeVars
  PROVE  StoreWhole'
<1>1. UNCHANGED kind
  BY RowsChange
<1>2. CASE Inserted
  BY <1>1, <1>2, NewRowIsWhole
<1>3. CASE Written
  <2>1. /\ live' \subseteq live /\ DOMAIN store' = DOMAIN store
        /\ \A i \in DOMAIN store : DOMAIN store'[i] = DOMAIN store[i]
    BY <1>3 DEF Written, Write
  <2> QED
    BY <1>1, <2>1 DEF StoreWhole
<1>4. CASE UNCHANGED backendVars
  BY <1>1, <1>4 DEF StoreWhole, backendVars
<1> QED
  BY RowsChange, <1>2, <1>3, <1>4

\* What the cache can become: it stays, an answer comes closer, or it is lost.
Settles(q) ==
  \/ /\ cache'[q] = cache[q]
     /\ fetching'[q] = "answered" => fetching[q] = "answered" /\ reply'[q] = reply[q]
  \/ /\ cache'[q] = reply[q] /\ fetching[q] = "answered" /\ fetching'[q] = "idle"
  \/ /\ cache'[q] = Missing /\ fetching'[q] = "idle"

CacheChange ==
  \/ \A q \in Queries : Settles(q)
  \/ \E p \in Queries : /\ ServerLists(p)
                        /\ \A q \in Queries \ {p} : Settles(q)

LEMMA CacheChanges ==
  ASSUME OwnInv, [ListNext]_officeVars
  PROVE  CacheChange
<1>0. /\ fetching \in [Queries -> {"idle", "asked", "answered"}]
      /\ DOMAIN cache = Queries /\ DOMAIN reply = Queries
  BY DEF OwnInv
<1>1. UNCHANGED <<cache, fetching, reply>> => CacheChange
  BY DEF CacheChange, Settles
<1>2. UNCHANGED core => CacheChange
  BY <1>1 DEF core
<1>3. ASSUME NEW q, NEW u, Show(q, u)
      PROVE  CacheChange
  <2>1. /\ UNCHANGED <<cache, reply>>
        /\ fetching' = [fetching EXCEPT ![q] = "asked"] \/ fetching' = fetching
    BY <1>3 DEF Show
  <2> QED
    BY <1>0, <2>1 DEF CacheChange, Settles
<1>4. CASE SetFilter \/ TurnPage
  BY <1>3, <1>4 DEF SetFilter, TurnPage, ShowList
<1>5. CASE Logout
  BY <1>1, <1>5 DEF Logout, handleLogout, cacheVars
<1>6. CASE Login
  BY <1>3, <1>6 DEF Login
<1>7. CASE TokenRefused
  BY <1>7 DEF TokenRefused, Unauthorized, LoginAgain, Reload, CacheChange, Settles
<1>8. ASSUME NEW c \in calls, onSuccess(c)
      PROVE  CacheChange
  <2>1. /\ cache' = cache
        /\ \A q \in Queries : fetching'[q] = "answered" =>
             fetching[q] = "answered" /\ reply'[q] = reply[q]
    BY <1>8 DEF onSuccess, invalidateList, invalidateQueries
  <2> QED
    BY <2>1 DEF CacheChange, Settles
<1>9. ASSUME NEW p \in Queries, ServerLists(p)
      PROVE  CacheChange
  <2>1. /\ UNCHANGED cache /\ fetching' = [fetching EXCEPT ![p] = "answered"]
        /\ reply' = [reply EXCEPT ![p] = Answer(p, asker[p])]
    BY <1>9 DEF ServerLists, Answered, ServerReads
  <2>2. \A q \in Queries \ {p} : Settles(q)
    BY <1>0, <2>1 DEF Settles
  <2> QED
    BY <1>9, <2>2 DEF CacheChange
<1>10. ASSUME NEW p \in Queries, ListArrives(p)
       PROVE  CacheChange
  BY <1>0, <1>10 DEF ListArrives, Arrived, Arrive, CacheChange, Settles
<1>11. ASSUME NEW p \in Queries, ListFails(p)
       PROVE  CacheChange
  BY <1>0, <1>11 DEF ListFails, FetchFails, CacheChange, Settles
<1>12. CASE UNCHANGED officeVars
  BY <1>1, <1>12 DEF officeVars, clientVars
<1> QED
  BY <1>2, <1>4, <1>5, <1>6, <1>7, <1>8, <1>9, <1>10, <1>11, <1>12,
     RestOfUser, RestOfCalls, RestElsewhere DEF ListNext, UserStep

LEMMA RowsStep ==
  ASSUME OwnInv, RowsInv, [ListNext]_officeVars
  PROVE  RowsInv'
<1>1. StoreWhole' /\ UNCHANGED kind
  BY StoreStaysWhole, RowsChange DEF RowsInv
<1>2. \A a : Whole(a) => Whole(a)'
  BY <1>1 DEF Whole
<1>3. ASSUME NEW q \in Queries, Settles(q)
      PROVE  (/\ cache[q] # Missing => Whole(cache[q])
              /\ fetching[q] = "answered" => Whole(reply[q]))'
  BY <1>1, <1>3 DEF Settles, RowsInv, Whole
<1>4. ASSUME NEW p \in Queries, ServerLists(p)
      PROVE  (/\ cache[p] # Missing => Whole(cache[p])
              /\ fetching[p] = "answered" => Whole(reply[p]))'
  <2>1. /\ UNCHANGED cache /\ reply' = [reply EXCEPT ![p] = Answer(p, asker[p])]
    BY <1>4 DEF ServerLists, Answered, ServerReads
  <2>2. Whole(Answer(p, asker[p]))
    BY DEF RowsInv, StoreWhole, Whole, Answer, Slice, Listing
  <2>3. reply'[p] = Answer(p, asker[p]) /\ cache'[p] = cache[p]
    BY <2>1 DEF OwnInv
  <2> HIDE DEF Answer
  <2> QED
    BY <1>1, <2>2, <2>3 DEF RowsInv, Whole
<1> QED
  BY <1>1, <1>3, <1>4, CacheChanges DEF CacheChange, RowsInv

LEMMA RowsInit == ListInit => RowsInv
<1> SUFFICES ASSUME ListInit PROVE RowsInv
  OBVIOUS
<1>1. PICK e \in Entries : /\ kind = e.kind /\ live = DOMAIN e.rows /\ store = e.rows
                           /\ SessionInit(e.user, <<1, NoFilter>>)
  BY DEF ListInit
<1>2. StoreWhole
  BY <1>1, EntriesAreSituations, EntriesHaveRows DEF StoreWhole
<1>3. \A q \in Queries : cache[q] = Missing /\ fetching[q] # "answered"
  BY <1>1 DEF SessionInit, CacheInit
<1> QED
  BY <1>2, <1>3 DEF RowsInv

-----------------------------------------------------------------------------
(***************************************************************************)
(* The forms.  Outside the fields that were typed a form has what it was   *)
(* filled with, and a request has of the form what it says.                *)
(***************************************************************************)
\* The fields of an edit form, for each page.
EditFields ==
  CASE kind = "employees" -> {"name", "phone", "roles"}
    [] kind = "companies" -> Companies!Fields
    [] kind = "contractors" -> Contractors!Fields
    [] kind = "consultants" -> Consultants!Fields
    [] kind = "projects" -> {"name", "description", "status"}
    [] kind = "contracts" -> Contracts!Fields

LEMMA EditFormOfRow ==
  ASSUME kind \in Kinds, NEW r
  PROVE  /\ EditFields \subseteq FieldsOf(kind)
         /\ DOMAIN FormOf(r) = EditFields
         /\ \A x \in EditFields : FormOf(r)[x] = r[x]
<1>1. CASE kind = "employees"
  BY <1>1 DEF EditFields, FieldsOf, FormOf, Employees!Fields, Employees!openEdit
<1>2. CASE kind = "companies"
  BY <1>2 DEF EditFields, FieldsOf, FormOf, Companies!Fields, Companies!openEdit
<1>3. CASE kind = "contractors"
  BY <1>3 DEF EditFields, FieldsOf, FormOf, Contractors!Fields, Contractors!openEdit
<1>4. CASE kind = "consultants"
  BY <1>4 DEF EditFields, FieldsOf, FormOf, Consultants!Fields, Consultants!openEdit
<1>5. CASE kind = "projects"
  BY <1>5 DEF EditFields, FieldsOf, FormOf, Projects!Fields, Projects!openEdit
<1>6. CASE kind = "contracts"
  BY <1>6 DEF EditFields, FieldsOf, FormOf, Contracts!Fields, Contracts!openEdit
<1> QED
  BY <1>1, <1>2, <1>3, <1>4, <1>5, <1>6 DEF Kinds

\* The two pages that send a currency fill in the same one.
LEMMA SameCurrency ==
  \A x : Contractors!Currency(x) = Currency(x) /\ Consultants!Currency(x) = Currency(x)
BY DEF Contractors!Currency, Consultants!Currency, Currency, Contractors!Blank, Consultants!Blank,
       Blank

LEMMA EditRequestOfForm ==
  ASSUME kind \in Kinds, NEW d
  PROVE  /\ DOMAIN EditRequest(d) \subseteq EditFields
         /\ \A x \in DOMAIN EditRequest(d) : Keeps(x, EditRequest(d)[x], d[x])
<1>1. CASE kind = "employees"
  BY <1>1 DEF EditFields, EditRequest, Employees!onEditSubmit, Employees!Body, Keeps
<1>2. CASE kind = "companies"
  BY <1>2 DEF EditFields, EditRequest, Companies!Fields, Companies!buildReq, Companies!Body, Keeps
<1>3. CASE kind = "contractors"
  BY <1>3, SameCurrency DEF EditFields, EditRequest, Contractors!Fields, Contractors!toReq, Contractors!Body, Keeps
<1>4. CASE kind = "consultants"
  BY <1>4, SameCurrency DEF EditFields, EditRequest, Consultants!Fields, Consultants!toUpdateReq, Consultants!Body, Keeps
<1>5. CASE kind = "projects"
  BY <1>5 DEF EditFields, EditRequest, Projects!onEditSubmit, Projects!Body, Keeps
<1>6. CASE kind = "contracts"
  BY <1>6 DEF EditFields, EditRequest, Contracts!Fields, Contracts!onEditSubmit, Contracts!Body, Keeps
<1> QED
  BY <1>1, <1>2, <1>3, <1>4, <1>5, <1>6 DEF Kinds

LEMMA CreateRequestOfForm ==
  ASSUME kind \in Kinds, kind # "contracts", NEW u, NEW d
  PROVE  /\ DOMAIN CreateRequest(d) \subseteq DOMAIN Defaults(u)
         /\ \A x \in DOMAIN CreateRequest(d) : Keeps(x, CreateRequest(d)[x], d[x])
<1>1. CASE kind = "employees"
  BY <1>1
  DEF Defaults, CreateRequest, Employees!defaultValues, Employees!onCreateSubmit, Employees!Body, Keeps
<1>2. CASE kind = "companies"
  BY <1>2 DEF Defaults, CreateRequest, Companies!defaultValues, Companies!buildReq, Companies!Body, Keeps
<1>3. CASE kind = "contractors"
  BY <1>3, SameCurrency
  DEF Defaults, CreateRequest, Contractors!defaultValues, Contractors!toReq, Contractors!Body, Keeps
<1>4. CASE kind = "consultants"
  BY <1>4, SameCurrency
  DEF Defaults, CreateRequest, Consultants!defaultValues, Consultants!toCreateReq, Consultants!Body, Keeps
<1>5. CASE kind = "projects"
  BY <1>5
  DEF Defaults, CreateRequest, Projects!defaultValues, Projects!onCreateSubmit, Projects!Body, Keeps
<1> QED
  BY <1>1, <1>2, <1>3, <1>4, <1>5 DEF Kinds

\* Outside `typed' the form says what it was filled with.
Agrees(form, from, typed) ==
  \A x \in DOMAIN form \ typed : x \in DOMAIN from /\ form[x] = from[x]

\* No call of a page that was left is waited for; deletions alone are begun; and
\* the requests keep to their rows.
CallsOfPage ==
  /\ user = Nobody => \A c \in calls : ~ c.args.mounted
  /\ \A c \in calls : c.state = "busy" => c.mutation = "delete"
  /\ RequestsKeepTheirRow

SheetsInv ==
  /\ user \in Users \cup {Nobody}
  /\ user = Nobody => ~ Covered /\ createTyped = {}
  /\ ~ (createOpen /\ editTarget # Missing)
  /\ deleteTarget # Missing => ~ createOpen /\ editTarget = Missing
  /\ createOpen => kind # "contracts"
  /\ user # Nobody => /\ DOMAIN createForm = DOMAIN Defaults(user)
                      /\ Agrees(createForm, Defaults(user), createTyped)
  /\ editTarget # Missing => /\ DOMAIN editForm = EditFields
                             /\ Agrees(editForm, basis, editTyped)

\* A row that is shown fills the form.
LEMMA ShownRowFills ==
  ASSUME OwnInv, RowsInv, NEW i \in DOMAIN rows
  PROVE  /\ DOMAIN FormOf(rows[i]) = EditFields
         /\ Agrees(FormOf(rows[i]), rows[i], {})
<1>1. cache[shown] # Missing /\ rows = cache[shown].rows
  BY DEF rows
<1>2. FieldsOf(kind) \subseteq DOMAIN rows[i]
  BY <1>1 DEF OwnInv, RowsInv, Whole
<1>3. kind \in Kinds
  BY DEF RowsInv, StoreWhole
<1> HIDE DEF rows
<1> QED
  BY <1>2, <1>3, EditFormOfRow DEF Agrees

LEMMA DefaultsStay ==
  ASSUME UNCHANGED kind, NEW u, user' = u
  PROVE  Defaults(user)' = Defaults(u)
BY DEF Defaults

\* The sheets are left alone, by the same user.
LEMMA SheetsStay ==
  ASSUME SheetsInv, UNCHANGED kind, UNCHANGED user, UNCHANGED sheetVars
  PROVE  SheetsInv'
<1>1. Defaults(user)' = Defaults(user) /\ EditFields' = EditFields
  BY DefaultsStay DEF EditFields
<1>2. /\ UNCHANGED createOpen /\ UNCHANGED createForm /\ UNCHANGED createTyped
      /\ UNCHANGED editTarget /\ UNCHANGED editForm /\ UNCHANGED editTyped /\ UNCHANGED basis
      /\ UNCHANGED deleteTarget
  BY DEF sheetVars, createVars, editVars
<1> QED
  BY <1>1, <1>2 DEF SheetsInv, Agrees, Covered

\* The sheet to create is opened, closed or filled in.
LEMMA CreateSheetChanges ==
  ASSUME SheetsInv, UNCHANGED kind, UNCHANGED user, user # Nobody, UNCHANGED editVars,
         UNCHANGED deleteTarget,
         \/ createOpen' = TRUE /\ ~ Covered /\ kind # "contracts"
         \/ createOpen' = FALSE
         \/ createOpen' = createOpen,
         \/ createForm' = Defaults(user) /\ createTyped' = {}
         \/ \E x, v : /\ createForm' = [createForm EXCEPT ![x] = v]
                      /\ createTyped' = createTyped \cup {x}
  PROVE  SheetsInv'
<1>1. Defaults(user)' = Defaults(user) /\ EditFields' = EditFields
  BY DefaultsStay DEF EditFields
<1>2. UNCHANGED editTarget /\ UNCHANGED editForm /\ UNCHANGED editTyped /\ UNCHANGED basis
  BY DEF editVars
<1>3. /\ DOMAIN createForm' = DOMAIN Defaults(user)
      /\ Agrees(createForm', Defaults(user), createTyped')
  BY DEF SheetsInv, Agrees
<1> QED
  BY <1>1, <1>2, <1>3 DEF SheetsInv, Agrees, Covered

\* The same of the sheet to edit and of the dialog to delete.
LEMMA EditSheetChanges ==
  ASSUME SheetsInv, UNCHANGED kind, UNCHANGED user, user # Nobody, UNCHANGED createVars,
         \/ editTarget' = Missing
         \/ /\ ~ Covered \/ (editTarget' = editTarget /\ editTarget # Missing)
            /\ DOMAIN editForm' = EditFields
            /\ Agrees(editForm', basis', editTyped'),
         \/ deleteTarget' = deleteTarget
         \/ deleteTarget' = Missing
         \/ ~ Covered /\ editTarget' = Missing
  PROVE  SheetsInv'
<1>1. Defaults(user)' = Defaults(user) /\ EditFields' = EditFields
  BY DefaultsStay DEF EditFields
<1>2. UNCHANGED createOpen /\ UNCHANGED createForm /\ UNCHANGED createTyped
  BY DEF createVars
<1> QED
  BY <1>1, <1>2 DEF SheetsInv, Agrees, Covered

LEMMA SheetsStep ==
  ASSUME OwnInv, RowsInv, CallsOfPage, SheetsInv, [ListNext]_officeVars
  PROVE  SheetsInv'
<1> USE DEF sheetVars, sessionVars
<1>0. UNCHANGED kind
  BY RowsChange
<1>1. CASE OpenCreate
  <2>1. /\ createOpen' = TRUE /\ createForm' = Defaults(user) /\ createTyped' = {}
        /\ UNCHANGED user /\ UNCHANGED editVars /\ UNCHANGED deleteTarget
        /\ user # Nobody /\ ~ Covered /\ MayCreate(user)
    BY <1>1 DEF OpenCreate, Act
  <2>2. kind # "contracts"
    BY <2>1 DEF MayCreate
  <2> QED
    BY <1>0, <2>1, <2>2, CreateSheetChanges
<1>2. CASE TypeCreate
  <2>1. /\ createOpen' = createOpen
        /\ \E x, v : /\ createForm' = [createForm EXCEPT ![x] = v]
                     /\ createTyped' = createTyped \cup {x}
        /\ UNCHANGED user /\ UNCHANGED editVars /\ UNCHANGED deleteTarget
        /\ user # Nobody
    BY <1>2 DEF TypeCreate, Act
  <2> QED
    BY <1>0, <2>1, CreateSheetChanges
<1>3. CASE OpenEdit
  <2>1. PICK i \in DOMAIN rows : openEdit(i)
    BY <1>3 DEF OpenEdit
  <2>2. /\ UNCHANGED user /\ UNCHANGED createVars /\ UNCHANGED deleteTarget
        /\ user # Nobody /\ ~ Covered
    BY <1>3 DEF OpenEdit, Act
  <2>3. editForm' = FormOf(rows[i]) /\ basis' = rows[i] /\ editTyped' = {}
    BY <2>1 DEF openEdit
  <2>4. DOMAIN editForm' = EditFields /\ Agrees(editForm', basis', editTyped')
    BY <2>3, ShownRowFills
  <2> QED
    BY <1>0, <2>2, <2>4, EditSheetChanges
<1>4. CASE TypeEdit
  <2>1. /\ \E x, v : /\ editForm' = [editForm EXCEPT ![x] = v]
                     /\ editTyped' = editTyped \cup {x}
        /\ UNCHANGED user /\ UNCHANGED createVars /\ UNCHANGED deleteTarget
        /\ UNCHANGED editTarget /\ UNCHANGED basis
        /\ user # Nobody /\ editTarget # Missing
    BY <1>4 DEF TypeEdit, Act
  <2>2. PICK x, v : /\ editForm' = [editForm EXCEPT ![x] = v]
                    /\ editTyped' = editTyped \cup {x}
    BY <2>1
  <2>3. DOMAIN editForm' = EditFields /\ Agrees(editForm', basis', editTyped')
    BY <2>1, <2>2 DEF SheetsInv, Agrees
  <2> QED
    BY <1>0, <2>1, <2>3, EditSheetChanges
<1>5. CASE OpenDelete
  <2>1. /\ UNCHANGED user /\ UNCHANGED createVars /\ UNCHANGED editVars
        /\ user # Nobody /\ ~ Covered
    BY <1>5 DEF OpenDelete, Act
  <2>2. editTarget' = Missing
    BY <2>1 DEF editVars, Covered
  <2> QED
    BY <1>0, <2>1, <2>2, EditSheetChanges
<1>6. CASE CloseSheet
  <2>1. /\ UNCHANGED user /\ user # Nobody /\ deleteTarget' = Missing
        /\ IF createOpen THEN closeCreate ELSE UNCHANGED createVars
        /\ IF editTarget # Missing THEN closeEdit ELSE UNCHANGED editVars
    BY <1>6 DEF CloseSheet
  <2>2. CASE createOpen
    <3>1. editTarget = Missing /\ deleteTarget = Missing
      BY <2>2 DEF SheetsInv
    <3>2. /\ createOpen' = FALSE /\ createForm' = Defaults(user) /\ createTyped' = {}
          /\ UNCHANGED editVars /\ UNCHANGED deleteTarget
      BY <2>1, <2>2, <3>1 DEF closeCreate
    <3> QED
      BY <1>0, <2>1, <3>2, CreateSheetChanges
  <2>3. CASE ~ createOpen
    <3>1. UNCHANGED createVars /\ editTarget' = Missing
      BY <2>1, <2>3 DEF closeEdit, editVars
    <3> QED
      BY <1>0, <2>1, <3>1, EditSheetChanges
  <2> QED
    BY <2>2, <2>3
<1>7. ASSUME UNCHANGED user, UNCHANGED sheetVars PROVE SheetsInv'
  BY <1>0, <1>7, SheetsStay
<1>8. CASE SubmitCreate \/ SubmitEdit \/ ConfirmDelete \/ PickStatus
  <2>1. UNCHANGED user /\ UNCHANGED sheetVars
    BY <1>8 DEF SubmitCreate, SubmitEdit, ConfirmDelete, PickStatus, Call
  <2> QED
    BY <1>7, <2>1
<1>9. CASE SetFilter \/ TurnPage \/ ColleagueStep \/ UNCHANGED officeVars
  <2>1. UNCHANGED user /\ UNCHANGED sheetVars
    BY <1>9 DEF SetFilter, TurnPage, ShowList, ColleagueStep, ColleagueAdds, ColleagueRemoves,
       ColleagueEdits, ColleagueDeletesCompany, Elsewhere, officeVars
  <2> QED
    BY <1>7, <2>1
<1>10. ASSUME NEW c \in calls, ServeCall(c) \/ onError(c) PROVE SheetsInv'
  <2>1. UNCHANGED user /\ UNCHANGED sheetVars
    BY <1>10 DEF ServeCall, onError
  <2> QED
    BY <1>7, <2>1
<1>11. ASSUME NEW q \in Queries, ServerLists(q) \/ ListArrives(q) \/ ListFails(q)
       PROVE  SheetsInv'
  <2>1. UNCHANGED user /\ UNCHANGED sheetVars
    BY <1>11 DEF ServerLists, ListArrives, ListFails, Answered, Arrived
  <2> QED
    BY <1>7, <2>1
<1>12. CASE Logout \/ TokenRefused
  <2>1. user' = Nobody /\ Unmount
    BY <1>12 DEF Logout, TokenRefused, handleLogout, Unauthorized
  <2>2. /\ createOpen' = FALSE /\ createTyped' = {} /\ editTarget' = Missing
        /\ deleteTarget' = Missing
    BY <2>1 DEF Unmount
  <2> QED
    BY <2>1, <2>2 DEF SheetsInv, Covered
<1>13. CASE Login
  <2>1. PICK u \in Users : user' = u /\ createForm' = Defaults(u)
    BY <1>13 DEF Login
  <2>2. /\ user = Nobody /\ UNCHANGED createOpen /\ UNCHANGED createTyped
        /\ UNCHANGED editVars /\ UNCHANGED deleteTarget
    BY <1>13 DEF Login
  <2>3. ~ Covered /\ createTyped' = {} /\ u # Nobody
    BY <2>2, UsersAreUsers DEF SheetsInv
  <2>4. ~ createOpen' /\ editTarget' = Missing /\ deleteTarget' = Missing
    BY <2>2, <2>3 DEF Covered, editVars
  <2>5. createForm' = Defaults(user)'
    BY <1>0, <2>1, DefaultsStay
  <2> QED
    BY <2>1, <2>3, <2>4, <2>5 DEF SheetsInv, Agrees, Covered
<1>14. ASSUME NEW c \in calls, onSuccess(c) PROVE SheetsInv'
  <2>1. /\ UNCHANGED user
        /\ IF c.args.mounted /\ c.mutation = "create" THEN closeCreate ELSE UNCHANGED createVars
        /\ IF c.args.mounted /\ c.mutation = "update" THEN closeEdit ELSE UNCHANGED editVars
        /\ deleteTarget' = IF c.args.mounted /\ c.mutation = "delete" THEN Missing ELSE deleteTarget
    BY <1>14 DEF onSuccess
  <2>2. CASE ~ c.args.mounted
    BY <1>7, <2>1, <2>2
  <2>3. CASE c.args.mounted
    <3>1. user # Nobody
      BY <2>3 DEF CallsOfPage
    <3>2. CASE c.mutation = "create"
      <4>1. /\ createOpen' = FALSE /\ createForm' = Defaults(user) /\ createTyped' = {}
            /\ UNCHANGED editVars /\ UNCHANGED deleteTarget
        BY <2>1, <2>3, <3>2 DEF closeCreate
      <4> QED
        BY <1>0, <2>1, <3>1, <4>1, CreateSheetChanges
    <3>3. CASE c.mutation = "update"
      <4>1. UNCHANGED createVars /\ editTarget' = Missing /\ UNCHANGED deleteTarget
        BY <2>1, <2>3, <3>3 DEF closeEdit
      <4> QED
        BY <1>0, <2>1, <3>1, <4>1, EditSheetChanges
    <3>4. CASE c.mutation = "delete"
      <4>1. UNCHANGED createVars /\ UNCHANGED editVars /\ deleteTarget' = Missing
        BY <2>1, <2>3, <3>4
      <4>2. CASE ~ createOpen /\ editTarget = Missing
        <5>1. editTarget' = Missing
          BY <4>1, <4>2 DEF editVars
        <5> QED
          BY <1>0, <2>1, <3>1, <4>1, <5>1, EditSheetChanges
      <4>3. CASE createOpen \/ editTarget # Missing
        <5>1. deleteTarget = Missing
          BY <4>3 DEF SheetsInv
        <5> QED
          BY <1>7, <2>1, <4>1, <5>1
      <4> QED
        BY <4>2, <4>3
    <3>5. CASE c.mutation \notin {"create", "update", "delete"}
      BY <1>7, <2>1, <3>5
    <3> QED
      BY <3>2, <3>3, <3>4, <3>5
  <2> QED
    BY <2>2, <2>3
<1> QED
  BY <1>1, <1>2, <1>3, <1>4, <1>5, <1>6, <1>8, <1>9, <1>10, <1>11, <1>12, <1>13, <1>14
  DEF ListNext, UserStep

-----------------------------------------------------------------------------
(***************************************************************************)
(* The calls.  A call keeps its request until it is answered.              *)
(***************************************************************************)
Speaks(d, c) ==
  /\ d.mutation = c.mutation
  /\ d.args.req = c.args.req /\ d.args.typed = c.args.typed /\ d.args.from = c.args.from
  /\ d.args.mounted => c.args.mounted
  /\ d.state = "busy" => c.state = "busy" \/ c.mutation = "delete"

GoOn == \A d \in calls' : \E c \in calls : Speaks(d, c)

LEMMA GoingOnKeeps ==
  ASSUME CallsOfPage, GoOn, user' = Nobody => user = Nobody \/ \A c \in calls' : ~ c.args.mounted
  PROVE  CallsOfPage'
BY DEF CallsOfPage, GoOn, Speaks, RequestsKeepTheirRow

\* What becomes of a call that is served, answered, lost or left.
LEMMA CallGoesOn ==
  ASSUME CountedInv, NEW c \in calls, NEW x
  PROVE  /\ Speaks(c, c)
         /\ x # "busy" => Speaks([c EXCEPT !.state = x], c)
         /\ Speaks([c EXCEPT !.waiting = FALSE], c)
         /\ Speaks([c EXCEPT !.args.mounted = FALSE], c)
         /\ Speaks([c EXCEPT !.waiting = FALSE, !.args.mounted = FALSE], c)
         /\ c.mutation = "delete" => Speaks([c EXCEPT !.state = "busy", !.args.counted = x], c)
<1>1. /\ DOMAIN c = {"request", "mutation", "args", "state", "waiting"}
      /\ DOMAIN c.args = {"id", "req", "typed", "from", "by", "mounted", "counted"}
  BY DEF CountedInv
<1> QED
  BY <1>1 DEF Speaks

LEMMA CallsGoOn ==
  ASSUME CountedInv, NEW c \in calls, ServeCall(c) \/ onSuccess(c) \/ onError(c)
  PROVE  GoOn
<1>1. ASSUME NEW d, Speaks(d, c), calls' \subseteq calls \cup {d}
      PROVE  GoOn
  BY <1>1, CallGoesOn DEF GoOn
<1>2. ASSUME NEW x, x # "busy", Served(c, x)
      PROVE  GoOn
  <2>1. calls' \subseteq calls \cup {[c EXCEPT !.state = x]}
    BY <1>2 DEF Served
  <2> QED
    BY <1>1, <1>2, <2>1, CallGoesOn
<1>3. CASE BeginDelete(c)
  <2>1. /\ calls' \subseteq calls \cup {[c EXCEPT !.state = "busy", !.args.counted = Admins]}
        /\ c.mutation = "delete"
    BY <1>3 DEF BeginDelete
  <2> QED
    BY <1>1, <2>1, CallGoesOn
<1>4. CASE ServeCreate(c) \/ ServeUpdate(c) \/ EndDelete(c) \/ ServeRefuse(c)
  BY <1>2, <1>4 DEF ServeCreate, ServeUpdate, EndDelete, ServeRefuse
<1>5. CASE NetworkFails(c)
  <2>1. calls' \subseteq calls \cup {[c EXCEPT !.waiting = FALSE]}
    BY <1>5 DEF NetworkFails
  <2> QED
    BY <1>1, <2>1, CallGoesOn
<1>6. CASE onSuccess(c) \/ Refused(c)
  <2>1. calls' \subseteq calls \cup {c}
    BY <1>6 DEF onSuccess, Refused
  <2> QED
    BY <1>1, <2>1, CallGoesOn
<1> QED
  BY <1>3, <1>4, <1>5, <1>6 DEF ServeCall, onError

\* A page or a document that is left.
LEMMA LeftCallsGoOn ==
  ASSUME CountedInv, Logout \/ TokenRefused
  PROVE  GoOn /\ \A c \in calls' : ~ c.args.mounted
<1>1. ASSUME NEW c \in calls
      PROVE  /\ ~ [c EXCEPT !.args.mounted = FALSE].args.mounted
             /\ ~ [c EXCEPT !.waiting = FALSE, !.args.mounted = FALSE].args.mounted
  <2>1. /\ DOMAIN c = {"request", "mutation", "args", "state", "waiting"}
        /\ DOMAIN c.args = {"id", "req", "typed", "from", "by", "mounted", "counted"}
    BY DEF CountedInv
  <2> QED
    BY <2>1
<1>2. CASE Logout
  <2>1. calls' = {[c EXCEPT !.args.mounted = FALSE] : c \in calls}
    BY <1>2 DEF Logout
  <2> QED
    BY <1>1, <2>1, CallGoesOn DEF GoOn
<1>3. CASE TokenRefused
  <2>1. \A d \in calls' : \E c \in calls : d = [c EXCEPT !.waiting = FALSE, !.args.mounted = FALSE]
    BY <1>3 DEF TokenRefused
  <2>2. ASSUME NEW d \in calls'
        PROVE  (\E c \in calls : Speaks(d, c)) /\ ~ d.args.mounted
    <3>1. PICK c \in calls : d = [c EXCEPT !.waiting = FALSE, !.args.mounted = FALSE]
      BY <2>1
    <3> QED
      BY <1>1, <3>1, CallGoesOn
  <2> QED
    BY <2>2 DEF GoOn
<1> QED
  BY <1>2, <1>3

\* A new call.
LEMMA NewCallKeeps ==
  ASSUME CallsOfPage, NEW m, NEW i, NEW req, NEW typed, NEW from, Call(m, i, req, typed, from),
         \A x \in DOMAIN req \ typed : x \in DOMAIN from /\ Keeps(x, req[x], from[x])
  PROVE  CallsOfPage'
<1>1. PICK r \in Requests :
        mutate(r, m, [id |-> i, req |-> req, typed |-> typed, from |-> from, by |-> user,
                      mounted |-> TRUE, counted |-> {}])
  BY DEF Call
<1>2. calls' = calls \cup {
        [request |-> r, mutation |-> m,
         args |-> [id |-> i, req |-> req, typed |-> typed, from |-> from, by |-> user,
                   mounted |-> TRUE, counted |-> {}],
         state |-> "sent", waiting |-> TRUE]}
  BY <1>1 DEF mutate
<1>3. user' = user /\ user # Nobody
  BY DEF Call, sessionVars
<1> QED
  BY <1>2, <1>3 DEF CallsOfPage, RequestsKeepTheirRow

LEMMA CallsStep ==
  ASSUME RowsInv, CountedInv, SheetsInv, CallsOfPage, [ListNext]_officeVars
  PROVE  CallsOfPage'
<1>0. kind \in Kinds
  BY DEF RowsInv, StoreWhole
<1>1. CASE SubmitCreate
  <2>1. /\ createOpen /\ user # Nobody
        /\ Call("create", Missing, CreateRequest(createForm), createTyped, Defaults(user))
    BY <1>1 DEF SubmitCreate, Call
  <2>2. kind # "contracts" /\ DOMAIN createForm = DOMAIN Defaults(user)
        /\ Agrees(createForm, Defaults(user), createTyped)
    BY <2>1 DEF SheetsInv
  <2>3. \A x \in DOMAIN CreateRequest(createForm) \ createTyped :
          /\ x \in DOMAIN Defaults(user)
          /\ Keeps(x, CreateRequest(createForm)[x], Defaults(user)[x])
    BY <1>0, <2>2, CreateRequestOfForm DEF Agrees
  <2> QED
    BY <2>1, <2>3, NewCallKeeps
<1>2. CASE SubmitEdit
  <2>1. /\ editTarget # Missing
        /\ Call("update", editTarget, EditRequest(editForm), editTyped, basis)
    BY <1>2 DEF SubmitEdit
  <2>2. DOMAIN editForm = EditFields /\ Agrees(editForm, basis, editTyped)
    BY <2>1 DEF SheetsInv
  <2>3. \A x \in DOMAIN EditRequest(editForm) \ editTyped :
          x \in DOMAIN basis /\ Keeps(x, EditRequest(editForm)[x], basis[x])
    BY <1>0, <2>2, EditRequestOfForm DEF Agrees
  <2> QED
    BY <2>1, <2>3, NewCallKeeps
<1>3. CASE ConfirmDelete
  <2>1. Call("delete", deleteTarget, <<>>, {}, Missing)
    BY <1>3 DEF ConfirmDelete
  <2>2. \A x \in DOMAIN <<>> \ {} : x \in DOMAIN Missing /\ Keeps(x, <<>>[x], Missing[x])
    OBVIOUS
  <2> QED
    BY <2>1, <2>2, NewCallKeeps
<1>4. CASE PickStatus
  <2>1. PICK i \in DOMAIN rows, s \in Projects!Statuses :
          Call("status", i, Projects!statusReq(s), {"status"}, rows[i])
    BY <1>4 DEF PickStatus
  <2>2. DOMAIN Projects!statusReq(s) \ {"status"} = {}
    BY DEF Projects!statusReq
  <2>3. \A x \in DOMAIN Projects!statusReq(s) \ {"status"} :
          x \in DOMAIN rows[i] /\ Keeps(x, Projects!statusReq(s)[x], rows[i][x])
    BY <2>2
  <2> QED
    BY <2>1, <2>3, NewCallKeeps
<1>5. CASE Logout \/ TokenRefused
  BY <1>5, LeftCallsGoOn, GoingOnKeeps
<1>6. ASSUME NEW c \in calls, ServeCall(c) \/ onSuccess(c) \/ onError(c)
      PROVE  CallsOfPage'
  <2>1. UNCHANGED user
    BY <1>6 DEF ServeCall, onSuccess, onError, sessionVars
  <2> QED
    BY <1>6, <2>1, CallsGoOn, GoingOnKeeps
<1>7. ASSUME UNCHANGED calls, user' = Nobody => user = Nobody
      PROVE  CallsOfPage'
  <2>1. GoOn
    BY <1>7, CallGoesOn DEF GoOn
  <2> QED
    BY <1>7, <2>1, GoingOnKeeps
<1>8. CASE \/ OpenCreate \/ TypeCreate \/ OpenEdit \/ TypeEdit \/ OpenDelete \/ CloseSheet
           \/ SetFilter \/ TurnPage \/ ColleagueStep \/ UNCHANGED officeVars
  <2>1. UNCHANGED calls /\ UNCHANGED user
    BY <1>8 DEF OpenCreate, TypeCreate, OpenEdit, TypeEdit, OpenDelete, CloseSheet, SetFilter,
       TurnPage, ShowList, ColleagueStep, ColleagueAdds, ColleagueRemoves, ColleagueEdits,
       ColleagueDeletesCompany, Elsewhere, clientVars, sessionVars, officeVars
  <2> QED
    BY <1>7, <2>1
<1>9. CASE Login
  BY <1>7, <1>9, UsersAreUsers DEF Login
<1>10. ASSUME NEW q \in Queries, ServerLists(q) \/ ListArrives(q) \/ ListFails(q)
       PROVE  CallsOfPage'
  <2>1. UNCHANGED calls /\ UNCHANGED user
    BY <1>10 DEF ServerLists, Answered, ServerReads, ListArrives, Arrived, Arrive, ListFails,
                 FetchFails, sessionVars
  <2> QED
    BY <1>7, <2>1
<1> QED
  BY <1>1, <1>2, <1>3, <1>4, <1>5, <1>6, <1>8, <1>9, <1>10 DEF ListNext, UserStep

OfficeInv == OwnInv /\ CountedInv /\ RowsInv /\ SheetsInv /\ CallsOfPage

LEMMA OfficeInit == ListInit => OfficeInv
<1> SUFFICES ASSUME ListInit PROVE OfficeInv
  OBVIOUS
<1>1. PICK e \in Entries : /\ kind = e.kind /\ SessionInit(e.user, <<1, NoFilter>>)
                           /\ createOpen = FALSE /\ createTyped = {}
                           /\ createForm = Defaults(e.user)
                           /\ editTarget = Missing /\ deleteTarget = Missing
  BY DEF ListInit
<1>2. calls = {} /\ user = e.user /\ user \in Users /\ user # Nobody
  BY <1>1, EntriesAreSituations, UsersAreUsers DEF SessionInit
<1>3. CountedInv /\ CallsOfPage
  BY <1>2 DEF CountedInv, CallsOfPage, RequestsKeepTheirRow
<1>4. SheetsInv
  BY <1>1, <1>2 DEF SheetsInv, Covered, Agrees
<1> QED
  BY <1>3, <1>4, OwnInit, RowsInit DEF OfficeInv

LEMMA OfficeInvariant == ListSpec => []OfficeInv
<1>1. OfficeInv /\ [ListNext]_officeVars => OfficeInv'
  BY OwnStep, CountedStep, RowsStep, SheetsStep, CallsStep DEF OfficeInv
<1> QED
  BY OfficeInit, <1>1, PTL DEF ListSpec

(***************************************************************************)
(* What a request says of a row is what was typed, or what the list showed *)
(* of that row when its form was opened: on each of the six pages, however *)
(* sheets were opened, closed and answered for, and whoever has signed in  *)
(* since.                                                                  *)
(***************************************************************************)
THEOREM RequestsKeepToTheirRow == ListSpec => []RequestsKeepTheirRow
<1>1. OfficeInv => RequestsKeepTheirRow
  BY DEF OfficeInv, CallsOfPage
<1> QED
  BY OfficeInvariant, <1>1, PTL

-----------------------------------------------------------------------------
(***************************************************************************)
(* The types.                                                              *)
(***************************************************************************)
MarksInv == owed \subseteq Queries /\ excused \subseteq Queries

LEMMA MarksStep ==
  ASSUME OwnInv, MarksInv, [ListNext]_officeVars
  PROVE  MarksInv'
<1>1. UNCHANGED <<owed, excused>> => MarksInv'
  BY DEF MarksInv
<1>2. CASE UserStep \/ ColleagueStep \/ UNCHANGED officeVars
  <2>1. UNCHANGED <<owed, excused>>
    BY <1>2 DEF UserStep, OpenCreate, TypeCreate, SubmitCreate, OpenEdit, TypeEdit, SubmitEdit,
       OpenDelete, ConfirmDelete, CloseSheet, PickStatus, Call, mutate, SetFilter, TurnPage,
       ShowList, Show, Logout, handleLogout, Login, ColleagueStep, ColleagueAdds, ColleagueRemoves,
       ColleagueEdits, ColleagueDeletesCompany, Elsewhere, cacheVars, clientVars, officeVars
  <2> QED
    BY <1>1, <2>1
<1>3. CASE TokenRefused
  BY <1>3 DEF TokenRefused, Unauthorized, LoginAgain, Reload, MarksInv
<1>4. ASSUME NEW c \in calls, ServeCall(c) \/ onError(c)
      PROVE  MarksInv'
  BY <1>1, <1>4 DEF ServeCall, onError, Refused, NetworkFails, cacheVars
<1>5. ASSUME NEW c \in calls, onSuccess(c)
      PROVE  MarksInv'
  <2>1. Shown \subseteq Queries
    BY DEF OwnInv, Shown
  <2>2. owed' = owed /\ excused' \subseteq excused \cup Shown
    BY <1>5 DEF onSuccess, invalidateList, invalidateQueries
  <2> QED
    BY <2>1, <2>2 DEF MarksInv
<1>6. ASSUME NEW q \in Queries, ServerLists(q) \/ ListArrives(q) \/ ListFails(q)
      PROVE  MarksInv'
  BY <1>6 DEF ServerLists, Answered, ServerReads, ListArrives, Arrived, Arrive, ListFails,
              FetchFails, MarksInv
<1> QED
  BY <1>2, <1>3, <1>4, <1>5, <1>6 DEF ListNext

\* The list pages, their sheets and the session keep their types: at most one
\* sheet is open and none on the login page, the edit form has the fields of its
\* page, and what is shown is a list that there is.
THEOREM OfficeTypeCorrect == ListSpec => []OfficeTypeOK
<1>1. ListInit => MarksInv
  BY DEF ListInit, SessionInit, CacheInit, MarksInv
<1>2. OfficeInv /\ MarksInv /\ [ListNext]_officeVars => MarksInv'
  BY MarksStep DEF OfficeInv
<1>3. OfficeInv /\ MarksInv => OfficeTypeOK
  <2> SUFFICES ASSUME OfficeInv, MarksInv PROVE OfficeTypeOK
    OBVIOUS
  <2>1. CacheTypeOK
    BY DEF OfficeInv, OwnInv, MarksInv, CacheTypeOK
  <2>2. page \in Pages /\ filter \in Filters
    BY QueriesAreLists DEF OfficeInv, OwnInv, shown
  <2>3. editTarget # Missing => DOMAIN editForm = DOMAIN FormOf(basis)
    BY EditFormOfRow DEF OfficeInv, SheetsInv, RowsInv, StoreWhole
  <2> QED
    BY <2>1, <2>2, <2>3 DEF OfficeTypeOK, OfficeInv, RowsInv, StoreWhole, SheetsInv, CallsOfPage
<1> QED
  BY <1>1, <1>2, <1>3, OfficeInvariant, PTL DEF ListSpec

-----------------------------------------------------------------------------
(***************************************************************************)
(* The pager.  A page that is shown, fetched or kept was not behind the    *)
(* last one when it was asked for, and is not now unless a list has lost   *)
(* a row since.                                                            *)
(***************************************************************************)
Above(g, S, x) == {y \in S : g[y] > g[x]}

\* In a finite set that is ordered there is one of every rank.
LEMMA EveryRank ==
  ASSUME NEW S, IsFiniteSet(S), NEW g, \A x \in S : g[x] \in Int,
         \A x, y \in S : g[x] = g[y] => x = y,
         NEW m \in Nat, m < Cardinality(S)
  PROVE  \E x \in S : Cardinality(Above(g, S, x)) = m
<1> DEFINE Ranked(T) == \A k \in Nat : k < Cardinality(T) =>
                          \E x \in T : Cardinality(Above(g, T, x)) = k
           Bad == {T \in SUBSET S : ~ Ranked(T)}
<1>1. ASSUME Bad # {} PROVE FALSE
  <2>1. PICK T \in Bad : \A U \in Bad : U \subseteq T => U = T
    <3> HIDE DEF Bad
    <3>1. Bad \in SUBSET (SUBSET S)
      BY DEF Bad
    <3> QED
      BY <1>1, <3>1, MinimalSubset
  <2>2. T \subseteq S /\ IsFiniteSet(T) /\ Cardinality(T) \in Nat
    BY <2>1, FS_Subset, FS_CardinalityType
  <2>3. PICK k \in Nat : k < Cardinality(T) /\ \A x \in T : Cardinality(Above(g, T, x)) # k
    BY <2>1
  <2>4. T # {}
    BY <2>3, FS_EmptySet
  <2> DEFINE I == {g[y] : y \in T}
  <2>5. IsFiniteSet(I) /\ I # {} /\ \A v \in I : v \in Int
    <3> DEFINE h == [y \in T |-> g[y]]
    <3>1. h \in Surjection(T, I)
      BY DEF Surjection
    <3>2. IsFiniteSet(I)
      <4> HIDE DEF h, I
      <4> QED
        BY <2>2, <3>1, FS_Surjection
    <3>3. I # {} /\ \A v \in I : v \in Int
      BY <2>2, <2>4
    <3> QED
      BY <3>2, <3>3
  <2>6. PICK x \in T : \A y \in T : g[x] >= g[y]
    <3>1. Max(I) \in I /\ \A v \in I : Max(I) >= v
      <4> HIDE DEF I
      <4> QED
        BY <2>5, MaxIsGreatest
    <3> QED
      BY <3>1
  <2> HIDE DEF I
  <2>7. \A y \in T \ {x} : g[x] > g[y]
    BY <2>2, <2>6
  <2>8. Above(g, T, x) = {}
    BY <2>2, <2>6 DEF Above
  <2>9. k # 0
    BY <2>3, <2>8, FS_EmptySet
  <2> DEFINE U == T \ {x}
  <2>10. IsFiniteSet(U) /\ Cardinality(U) = Cardinality(T) - 1
    BY <2>2, FS_RemoveElement
  <2>11. Ranked(U)
    BY <2>1, <2>2
  <2>12. k - 1 \in Nat /\ k - 1 < Cardinality(U)
    BY <2>2, <2>3, <2>9, <2>10
  <2>13. PICK z \in U : Cardinality(Above(g, U, z)) = k - 1
    BY <2>11, <2>12
  <2>14. Above(g, T, z) = Above(g, U, z) \cup {x} /\ x \notin Above(g, U, z)
    BY <2>7, <2>13 DEF Above
  <2>15. IsFiniteSet(Above(g, U, z))
    BY <2>10, FS_Subset DEF Above
  <2>16. Cardinality(Above(g, T, z)) = k
    <3> DEFINE A == Above(g, U, z)
    <3>1. IsFiniteSet(A) /\ x \notin A /\ Cardinality(A) = k - 1 /\ Above(g, T, z) = A \cup {x}
      BY <2>13, <2>14, <2>15
    <3> HIDE DEF A
    <3>2. Cardinality(A \cup {x}) = Cardinality(A) + 1
      BY <3>1, FS_AddElement
    <3> QED
      BY <2>3, <3>1, <3>2
  <2> QED
    BY <2>3, <2>13, <2>16
<1>2. S \notin Bad
  BY <1>1
<1> QED
  BY <1>2

\* The page p of a list that has more rows than fit on those before is not
\* empty.
LEMMA PageHasARow ==
  ASSUME NEW found, IsFiniteSet(found), found \subseteq {Ids[n] : n \in DOMAIN Ids},
         NEW p \in Nat \ {0}, Cardinality(found) > (p - 1) * Limit
  PROVE  Slice(found, p) # {}
<1> DEFINE g == [i \in found |-> age(i)]
           m == (p - 1) * Limit
<1>1. \A i \in found : age(i) \in DOMAIN Ids /\ Ids[age(i)] = i
  BY DEF age
<1>2. m \in Nat /\ m \div Limit = p - 1
  BY PageHasRows
<1>3. /\ \A i \in found : g[i] \in Int
      /\ \A i, j \in found : g[i] = g[j] => i = j
  BY <1>1, IdsAreDistinct
<1>4. PICK i \in found : Cardinality(Above(g, found, i)) = m
  <2> HIDE DEF g, m
  <2> QED
    BY <1>2, <1>3, EveryRank DEF m
<1>5. Above(g, found, i) = {j \in found : age(j) > age(i)}
  BY DEF Above
<1>6. Cardinality({j \in found : age(j) > age(i)}) \div Limit = p - 1
  BY <1>2, <1>4, <1>5
<1> QED
  BY <1>6 DEF Slice

\* The rows there are, and how many the server lists for a user by each filter.
StockInv ==
  /\ removed \in BOOLEAN
  /\ IsFiniteSet(live) /\ live \subseteq {Ids[n] : n \in DOMAIN Ids}

sizes == [u \in Users |-> [f \in Filters |-> Cardinality(Listing(u, f, live, store))]]

LEMMA StockInit == ListInit => StockInv
BY EntriesHaveRows DEF ListInit, StockInv

LEMMA StockStep == ASSUME StockInv, [ListNext]_officeVars PROVE StockInv'
<1>1. CASE Inserted
  <2>1. PICK n \in DOMAIN Ids : live' = live \cup {Ids[n]}
    BY <1>1 DEF Inserted, Insert, Unused, Write
  <2>2. IsFiniteSet(live \cup {Ids[n]})
    BY FS_AddElement DEF StockInv
  <2>3. removed' \in BOOLEAN
    BY <1>1 DEF Inserted, Insert, Write
  <2> QED
    BY <2>1, <2>2, <2>3 DEF StockInv
<1>2. CASE Written
  <2>1. live' \subseteq live /\ removed' \in BOOLEAN
    BY <1>2 DEF Written, Write
  <2>2. IsFiniteSet(live')
    BY <2>1, FS_Subset DEF StockInv
  <2> QED
    BY <2>1, <2>2 DEF StockInv
<1>3. CASE UNCHANGED backendVars
  BY <1>3 DEF backendVars, StockInv
<1> QED
  BY RowsChange, <1>1, <1>2, <1>3

LEMMA SizesCount ==
  ASSUME StockInv
  PROVE  \A u \in Users, f \in Filters :
           /\ sizes[u][f] = Cardinality(Listing(u, f, live, store))
           /\ IsFiniteSet(Listing(u, f, live, store)) /\ sizes[u][f] \in Nat
<1> SUFFICES ASSUME NEW u \in Users, NEW f \in Filters
             PROVE  /\ sizes[u][f] = Cardinality(Listing(u, f, live, store))
                    /\ IsFiniteSet(Listing(u, f, live, store)) /\ sizes[u][f] \in Nat
  OBVIOUS
<1>1. Listing(u, f, live, store) \subseteq live
  BY DEF Listing
<1>2. IsFiniteSet(Listing(u, f, live, store))
  BY <1>1, FS_Subset DEF StockInv
<1>3. sizes[u][f] = Cardinality(Listing(u, f, live, store))
  BY DEF sizes
<1> QED
  BY <1>2, <1>3, FS_CardinalityType

\* Until a list has lost a row, none has become shorter.
LEMMA SizesGrow ==
  ASSUME StockInv, [ListNext]_officeVars, ~ removed'
  PROVE  /\ ~ removed
         /\ \A u \in Users, f \in Filters :
              sizes[u][f] \in Nat /\ sizes'[u][f] \in Nat /\ sizes[u][f] <= sizes'[u][f]
<1>1. StockInv' /\ UNCHANGED kind
  BY StockStep, RowsChange
<1>2. /\ ~ removed
      /\ \A u \in Users, f \in Filters :
           Listing(u, f, live, store) \subseteq (Listing(u, f, live, store))'
  <2>1. ASSUME NEW ids, NEW rows1, Write(ids, rows1)
        PROVE  /\ ~ removed
               /\ \A u \in Users, f \in Filters :
                    Listing(u, f, live, store) \subseteq (Listing(u, f, live, store))'
    <3>1. /\ live' = ids /\ store' = rows1 /\ ~ removed
          /\ \A u \in Users, f \in Filters :
               Listing(u, f, live, store) \subseteq Listing(u, f, ids, rows1)
      BY <2>1 DEF Write, StockInv
    <3> QED
      BY <1>1, <3>1 DEF Listing, Listed
  <2>2. CASE UNCHANGED backendVars
    BY <1>1, <2>2 DEF backendVars, Listing, Listed
  <2>3. CASE Inserted \/ Written
    BY <2>1, <2>3 DEF Inserted, Insert, Written
  <2> QED
    BY <2>2, <2>3, RowsChange
<1> SUFFICES ASSUME NEW u \in Users, NEW f \in Filters
             PROVE  sizes[u][f] \in Nat /\ sizes'[u][f] \in Nat /\ sizes[u][f] <= sizes'[u][f]
  BY <1>2
<1> DEFINE old == Listing(u, f, live, store)
           new == (Listing(u, f, live, store))'
<1>3. sizes[u][f] = Cardinality(old) /\ sizes[u][f] \in Nat
  BY SizesCount
<1>4. sizes'[u][f] = Cardinality(new) /\ IsFiniteSet(new) /\ sizes'[u][f] \in Nat
  <2>1. new \subseteq live'
    BY DEF Listing
  <2>2. IsFiniteSet(new)
    <3> HIDE DEF new
    <3> QED
      BY <1>1, <2>1, FS_Subset DEF StockInv
  <2>3. sizes'[u][f] = Cardinality(new)
    BY DEF sizes
  <2> QED
    BY <2>2, <2>3, FS_CardinalityType
<1>5. old \subseteq new
  BY <1>2
<1> HIDE DEF old, new
<1> QED
  BY <1>3, <1>4, <1>5, FS_Subset

\* The page p of a list of n rows is not behind the last one.
Reached(p, n) == p = 1 \/ n > (p - 1) * Limit

\* An answer counts no more than n rows, and shows one if it counts any.
Fair(a, n) == a.total \in Nat /\ a.total <= n /\ (a.total > 0 => DOMAIN a.rows # {})

\* Unless a list has lost a row, or the cache was handed over.
PagerInv ==
  ~ removed /\ ~ handedOver =>
    /\ user = Nobody => page = 1
    /\ Reached(page, sizes[user][filter])
    /\ \A q \in Queries :
         /\ fetching[q] = "asked" => Reached(q[1], sizes[user][q[2]])
         /\ fetching[q] = "answered" => Fair(reply[q], sizes[user][q[2]])
         /\ cache[q] # Missing => Fair(cache[q], sizes[user][q[2]])

LEMMA PagerInit == ListInit => PagerInv
<1> SUFFICES ASSUME ListInit PROVE PagerInv
  OBVIOUS
<1>1. PICK e \in Entries : SessionInit(e.user, <<1, NoFilter>>) /\ page = 1 /\ filter = NoFilter
  BY DEF ListInit
<1>2. \A q \in Queries : /\ cache[q] = Missing /\ fetching[q] # "answered"
                         /\ fetching[q] = "asked" => q = <<1, NoFilter>>
  BY <1>1 DEF SessionInit, CacheInit
<1> QED
  BY <1>1, <1>2 DEF PagerInv, Reached

\* A list that is asked for is the one shown, or was asked for before.
LEMMA AskedIsShown ==
  ASSUME OwnInv, [ListNext]_officeVars, NEW q \in Queries, fetching'[q] = "asked"
  PROVE  fetching[q] = "asked" \/ q = shown'
<1>0. fetching \in [Queries -> {"idle", "asked", "answered"}]
  BY DEF OwnInv
<1>1. UNCHANGED fetching => fetching[q] = "asked"
  OBVIOUS
<1>2. CASE SetFilter \/ TurnPage \/ Login
  <2>1. PICK p, f, u : Show(<<p, f>>, u) /\ page' = p /\ filter' = f
    BY <1>2 DEF SetFilter, TurnPage, ShowList, Login
  <2> QED
    BY <1>0, <2>1 DEF Show, shown
<1>3. CASE Logout
  BY <1>1, <1>3 DEF Logout, handleLogout, cacheVars
<1>4. CASE TokenRefused
  BY <1>4 DEF TokenRefused, Unauthorized, LoginAgain, Reload
<1>5. ASSUME NEW c \in calls, onSuccess(c)
      PROVE  fetching[q] = "asked" \/ q = shown'
  <2>1. fetching'[q] = "asked" => fetching[q] = "asked" \/ q \in Shown
    BY <1>5 DEF onSuccess, invalidateList, invalidateQueries
  <2> QED
    BY <1>5, <2>1 DEF onSuccess, listVars, Shown, shown
<1>6. ASSUME NEW p \in Queries, ServerLists(p) \/ ListArrives(p) \/ ListFails(p)
      PROVE  fetching[q] = "asked"
  <2>1. \E x \in {"answered", "idle"} : fetching' = [fetching EXCEPT ![p] = x]
    BY <1>6 DEF ServerLists, Answered, ServerReads, ListArrives, Arrived, Arrive, ListFails,
                FetchFails
  <2> QED
    BY <1>0, <2>1
<1>7. CASE UNCHANGED core \/ UNCHANGED officeVars
  BY <1>1, <1>7 DEF core, officeVars, clientVars
<1> QED
  BY <1>2, <1>3, <1>4, <1>5, <1>6, <1>7, RestOfUser, RestOfCalls, RestElsewhere
  DEF ListNext, UserStep

\* How the session and the part of the list that is shown can change.
LEMMA ShownChange ==
  ASSUME [ListNext]_officeVars
  PROVE  \/ Logout \/ Login \/ TokenRefused
         \/ /\ UNCHANGED <<user, handedOver>>
            /\ page' = 1 \/ TurnPage \/ UNCHANGED <<page, filter>>
<1>1. CASE SetFilter
  BY <1>1 DEF SetFilter, ShowList, Show
<1>2. CASE TurnPage
  BY <1>2 DEF TurnPage, ShowList, Show
<1>3. ASSUME NEW c \in calls, onSuccess(c)
      PROVE  UNCHANGED <<user, handedOver, page, filter>>
  BY <1>3 DEF onSuccess, listVars
<1>4. ASSUME NEW q \in Queries, ServerLists(q) \/ ListArrives(q) \/ ListFails(q)
      PROVE  UNCHANGED <<user, handedOver, page, filter>>
  BY <1>4 DEF ServerLists, Answered, ListArrives, Arrived, ListFails, FetchFails, sessionVars,
              listVars
<1>5. CASE UNCHANGED core \/ UNCHANGED officeVars
  BY <1>5 DEF core, officeVars, sessionVars, listVars
<1> QED
  BY <1>1, <1>2, <1>3, <1>4, <1>5, RestOfUser, RestOfCalls, RestElsewhere DEF ListNext, UserStep

\* The pager leads no further than the rows that were counted.
LEMMA PageTurned ==
  ASSUME NEW n \in Nat, TurnPage, shown \in Queries, Reached(page, n),
         cache[shown] # Missing => total \in Nat /\ total <= n
  PROVE  Reached(page', n) /\ filter' = filter
<1>1. page \in Nat
  BY QueriesAreLists, IdsAreDistinct DEF shown, Pages
<1>2. PICK p \in {page - 1, page + 1} :
        /\ ShowList(p, filter)
        /\ p = page - 1 => page > 1
        /\ p = page + 1 => page * Limit < total
  BY <1>1 DEF TurnPage
<1>3. page' = p /\ filter' = filter
  BY <1>2 DEF ShowList
<1>4. Limit \in Nat
  BY PageHasRows
<1>5. CASE p = page - 1
  <2>1. page > 1 /\ n > (page - 1) * Limit
    BY <1>1, <1>2, <1>5 DEF Reached
  <2>2. (p - 1) * Limit = (page - 1) * Limit - Limit
    BY <1>1, <1>4, <1>5
  <2>3. (page - 1) * Limit \in Int
    BY <1>1, <1>4
  <2>4. n > (p - 1) * Limit
    BY <1>4, <2>1, <2>2, <2>3
  <2> QED
    BY <1>3, <2>4 DEF Reached
<1>6. CASE p = page + 1
  <2>1. page * Limit \in Nat /\ page * Limit < total
    BY <1>1, <1>2, <1>4, <1>6
  <2>2. total \in Nat /\ total <= n
    BY <2>1 DEF total
  <2>3. p - 1 = page
    BY <1>1, <1>6
  <2>4. n > (p - 1) * Limit
    BY <2>1, <2>2, <2>3
  <2> QED
    BY <1>3, <2>4 DEF Reached
<1> QED
  BY <1>2, <1>5, <1>6

\* What the server lists now, of a page that is not behind the last one.
LEMMA AnswerIsFair ==
  ASSUME StockInv, NEW q \in Queries, NEW u \in Users, Reached(q[1], sizes[u][q[2]])
  PROVE  Fair(Answer(q, u), sizes[u][q[2]])
<1>1. q[1] \in Nat \ {0} /\ q[2] \in Filters
  BY QueriesAreLists, IdsAreDistinct DEF Pages
<1> DEFINE found == Listing(u, q[2], live, store)
<1>2. /\ sizes[u][q[2]] = Cardinality(found) /\ sizes[u][q[2]] \in Nat
      /\ IsFiniteSet(found)
  BY <1>1, SizesCount
<1>3. found \subseteq {Ids[n] : n \in DOMAIN Ids}
  BY DEF Listing, StockInv
<1>4. Answer(q, u).total = Cardinality(found) /\ DOMAIN Answer(q, u).rows = Slice(found, q[1])
  BY DEF Answer
<1> HIDE DEF found
<1>5. ASSUME Cardinality(found) > 0 PROVE Slice(found, q[1]) # {}
  <2>1. Cardinality(found) > (q[1] - 1) * Limit
    BY <1>1, <1>2, <1>5, PageHasRows DEF Reached
  <2> QED
    BY <1>1, <1>2, <1>3, <2>1, PageHasARow
<1> QED
  BY <1>2, <1>4, <1>5 DEF Fair

\* What was reached, and what was fair, is so of a longer list.
LEMMA LongerList ==
  ASSUME NEW m \in Nat, NEW n \in Nat, m <= n
  PROVE  /\ \A p \in Nat : Reached(p, m) => Reached(p, n)
         /\ \A a : Fair(a, m) => Fair(a, n)
<1>1. ASSUME NEW p \in Nat, Reached(p, m) PROVE Reached(p, n)
  <2>1. (p - 1) * Limit \in Int
    BY PageHasRows
  <2> QED
    BY <1>1, <2>1 DEF Reached
<1> QED
  BY <1>1 DEF Fair

LEMMA PagerStep ==
  ASSUME OwnInv, SheetsInv, StockInv, PagerInv, [ListNext]_officeVars
  PROVE  PagerInv'
<1> SUFFICES ASSUME ~ removed', ~ handedOver' PROVE PagerInv'
  BY DEF PagerInv
<1>1. /\ ~ removed
      /\ \A u \in Users, f \in Filters :
           sizes[u][f] \in Nat /\ sizes'[u][f] \in Nat /\ sizes[u][f] <= sizes'[u][f]
  BY SizesGrow
<1>2. \A q \in Queries : q[1] \in Nat /\ q[2] \in Filters /\ q = <<q[1], q[2]>>
  BY QueriesAreLists, IdsAreDistinct DEF Pages
<1>3. OwnInv' /\ fetching' \in [Queries -> {"idle", "asked", "answered"}]
  BY OwnStep DEF OwnInv
<1>4. CASE TokenRefused
  <2>1. page' = 1 /\ \A q \in Queries : fetching'[q] = "idle" /\ cache'[q] = Missing
    BY <1>4 DEF TokenRefused, Unmount, Unauthorized, LoginAgain, Reload
  <2> QED
    BY <2>1 DEF PagerInv, Reached
<1>5. CASE Login
  <2>1. ~ handedOver /\ user = Nobody /\ UNCHANGED cache /\ page' = 1 /\ shown' = <<1, NoFilter>>
    BY <1>5 DEF Login, Show, shown
  <2>2. \A q \in Queries : cache'[q] = Missing /\ fetching[q] = "idle"
    BY <2>1 DEF OwnInv
  <2>3. \A q \in Queries : fetching'[q] # "idle" => fetching'[q] = "asked" /\ q = <<1, NoFilter>>
    <3>1. PICK u : Show(<<1, NoFilter>>, u)
      BY <1>5 DEF Login
    <3>2. fetching' = [fetching EXCEPT ![<<1, NoFilter>>] = "asked"] \/ fetching' = fetching
      BY <3>1 DEF Show
    <3>3. DOMAIN fetching = Queries
      BY DEF OwnInv
    <3> QED
      BY <2>2, <3>2, <3>3
  <2> QED
    BY <2>1, <2>2, <2>3 DEF PagerInv, Reached
<1>6. ASSUME UNCHANGED <<user, handedOver>>, page' = 1 \/ TurnPage \/ UNCHANGED <<page, filter>>
      PROVE  PagerInv'
  <2>1. ~ handedOver /\ user' = user /\ shown \in Queries /\ shown' \in Queries
    BY <1>3, <1>6 DEF OwnInv
  <2>2. CASE user = Nobody
    <3>1. page' = 1
      BY <1>1, <1>6, <2>1, <2>2 DEF PagerInv, TurnPage, Act
    <3>2. \A q \in Queries : fetching'[q] = "idle" /\ cache'[q] = Missing
      BY <1>3, <1>6, <2>1, <2>2 DEF OwnInv
    <3> QED
      BY <3>1, <3>2 DEF PagerInv, Reached
  <2>3. CASE user # Nobody
    <3>0. user \in Users
      BY <2>3 DEF SheetsInv
    <3> DEFINE old(q) == sizes[user][q[2]]
               new(q) == sizes'[user][q[2]]
    <3>1. \A q \in Queries : /\ old(q) \in Nat /\ new(q) \in Nat
                             /\ Reached(q[1], old(q)) => Reached(q[1], new(q))
                             /\ \A a : Fair(a, old(q)) => Fair(a, new(q))
      BY <1>1, <1>2, <3>0, LongerList
    <3>2. shown[1] = page /\ shown[2] = filter /\ shown'[1] = page' /\ shown'[2] = filter'
      BY DEF shown
    <3>3. Reached(page', new(shown'))
      <4>1. CASE page' = 1
        BY <4>1 DEF Reached
      <4>2. CASE UNCHANGED <<page, filter>>
        BY <1>1, <2>1, <3>1, <3>2, <4>2 DEF PagerInv
      <4>3. CASE TurnPage
        <5>1. Reached(page, old(shown)) /\ old(shown) \in Nat
          BY <1>1, <2>1, <3>1, <3>2 DEF PagerInv
        <5>2. cache[shown] # Missing => total \in Nat /\ total <= old(shown)
          BY <1>1, <2>1, <3>2 DEF PagerInv, Fair, total
        <5>3. Reached(page', old(shown)) /\ filter' = filter
          BY <2>1, <4>3, <5>1, <5>2, PageTurned
        <5>4. old(shown) = old(shown')
          BY <3>2, <5>3
        <5> QED
          BY <2>1, <3>1, <3>2, <5>3, <5>4
      <4> QED
        BY <1>6, <4>1, <4>2, <4>3
    <3>4. \A q \in Queries : fetching'[q] = "asked" => Reached(q[1], new(q))
      BY <1>1, <2>1, <3>1, <3>2, <3>3, AskedIsShown DEF PagerInv
    <3>5. ASSUME NEW q \in Queries, Settles(q)
          PROVE  /\ fetching'[q] = "answered" => Fair(reply'[q], new(q))
                 /\ cache'[q] # Missing => Fair(cache'[q], new(q))
      BY <1>1, <2>1, <3>1, <3>5 DEF PagerInv, Settles
    <3>6. ASSUME NEW q \in Queries, ServerLists(q)
          PROVE  /\ fetching'[q] = "answered" => Fair(reply'[q], new(q))
                 /\ cache'[q] # Missing => Fair(cache'[q], new(q))
      <4>1. /\ fetching[q] = "asked" /\ cache' = cache
            /\ reply' = [reply EXCEPT ![q] = Answer(q, asker[q])]
        BY <3>6 DEF ServerLists, Answered, ServerReads
      <4>2. asker[q] = user /\ reply'[q] = Answer(q, asker[q])
        BY <2>1, <4>1 DEF OwnInv
      <4>3. Fair(Answer(q, user), old(q))
        BY <1>1, <2>1, <3>0, <4>1, AnswerIsFair DEF PagerInv
      <4> HIDE DEF Answer
      <4> QED
        BY <1>1, <2>1, <3>1, <4>1, <4>2, <4>3 DEF PagerInv
    <3> QED
      BY <2>1, <2>3, <3>2, <3>3, <3>4, <3>5, <3>6, CacheChanges DEF CacheChange, PagerInv
  <2> QED
    BY <2>2, <2>3
<1>7. ~ Logout
  BY DEF Logout, handleLogout
<1> QED
  BY <1>4, <1>5, <1>6, <1>7, ShownChange

(***************************************************************************)
(* Whatever is created and changed by anybody meanwhile: as long as no     *)
(* list loses a row, and the cache is not handed over, the pager and the   *)
(* filters never lead to a page that counts rows and shows none.           *)
(***************************************************************************)
THEOREM EmptyPagesLostARow == ListSpec => []EmptyPageMeansRemoval
<1>1. OfficeInv /\ StockInv /\ PagerInv /\ [ListNext]_officeVars => (StockInv /\ PagerInv)'
  BY StockStep, PagerStep DEF OfficeInv
<1>2. OfficeInv /\ PagerInv => EmptyPageMeansRemoval
  BY DEF OfficeInv, OwnInv, PagerInv, EmptyPageMeansRemoval, Fair, rows, total, shown
<1> QED
  BY StockInit, PagerInit, OfficeInvariant, <1>1, <1>2, PTL DEF ListSpec
=============================================================================
