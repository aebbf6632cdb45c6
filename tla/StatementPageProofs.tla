------------------------- MODULE StatementPageProofs -------------------------
(***************************************************************************)
(* Theorems about the statement page, for any statement, employees, line   *)
(* items, deductions, amounts, situations of entry and numbers of calls.   *)
(***************************************************************************)
EXTENDS StatementPage, ReviewProofs, FiniteSetTheorems, TLAPS

-----------------------------------------------------------------------------
(***************************************************************************)
(* The cache: whatever is in it or on its way is a statement, and a change *)
(* that the page was told of is on the screen or will be.                  *)
(***************************************************************************)
View(s) ==
  /\ s.status \in StatementStatus
  /\ s.qty \in [LineItems -> Amounts]
  /\ s.deds \in [Deds -> Amounts]

CacheInv ==
  /\ fetching \in [Queries -> {"idle", "asked", "answered"}]
  /\ DOMAIN cache = Queries /\ DOMAIN reply = Queries
  /\ owed \subseteq Queries /\ excused \subseteq Queries
  /\ \A q \in Queries : View(cache[q]) /\ (fetching[q] = "answered" => View(reply[q]))
  /\ OwnChangesComing

LEMMA SameCache == ASSUME CacheInv, UNCHANGED cacheVars PROVE CacheInv'
BY DEF CacheInv, View, cacheVars, OwnChangesComing

LEMMA FetchSteps ==
  ASSUME CacheInv, NEW q \in Queries, NEW now, View(now),
         ServerReads(q, now) \/ Arrive(q) \/ FetchFails(q) \/ Refetch(q)
  PROVE  CacheInv'
<1>1. CASE ServerReads(q, now)
  BY <1>1 DEF ServerReads, CacheInv, View, OwnChangesComing
<1>2. CASE Arrive(q)
  BY <1>2 DEF Arrive, CacheInv, View, OwnChangesComing
<1>3. CASE FetchFails(q)
  BY <1>3 DEF FetchFails, CacheInv, View, OwnChangesComing
<1>4. CASE Refetch(q)
  BY <1>4 DEF Refetch, CacheInv, View, OwnChangesComing
<1> QED
  BY <1>1, <1>2, <1>3, <1>4

\* A change is owed on the statement, which is invalidated with it: it is
\* fetched anew, or is being fetched for the first time.
LEMMA InvalidationComes ==
  ASSUME CacheInv, invalidateQueries({"statement"}, {"statement"})
  PROVE  CacheInv'
<1> DEFINE again == {q \in {"statement"} : ~ Joins(q)}
<1>1. /\ fetching' = [q \in Queries |-> IF q \in again THEN "asked" ELSE fetching[q]]
      /\ reply' = [q \in Queries |-> IF q \in again THEN Missing ELSE reply[q]]
      /\ owed' = owed \cup {"statement"}
      /\ excused \ again \subseteq excused' /\ excused' \subseteq excused \cup {"statement"}
      /\ UNCHANGED cache
  BY DEF invalidateQueries
<1>2. "statement" \notin again => fetching["statement"] # "idle"
  BY DEF Joins
<1> HIDE DEF again
<1>3. \A q \in Queries : q = "statement"
  BY QueryOfPage
<1>4. \A q \in owed' \ excused' : fetching'[q] # "idle"
  BY <1>1, <1>2, <1>3, QueryOfPage DEF CacheInv, OwnChangesComing
<1>5. \A q \in Queries : View(cache[q])' /\ (fetching'[q] = "answered" => View(reply[q])')
  BY <1>1 DEF CacheInv, View
<1>6. fetching' \in [Queries -> {"idle", "asked", "answered"}]
  BY <1>1 DEF CacheInv
<1> QED
  BY <1>1, <1>4, <1>5, <1>6, QueryOfPage DEF CacheInv, OwnChangesComing

\* What the page shows is a statement.
LEMMA ShownIsStatement == CacheInv => View(stmt)
BY QueryOfPage DEF CacheInv, stmt

-----------------------------------------------------------------------------
(***************************************************************************)
(* The forms of the page, the calls it makes, and who works on them.       *)
(***************************************************************************)
\* A status offers to the user a move to what.
Offered(what, s) ==
  \E t \in TRANSITIONS : t.from = s /\ t.to = what /\ RolesOf[user] \cap t.roles # {}

SheetKinds == Mutations \ {"worksDone"}

\* An edit of the table: what was not typed is what the typing started from.
KeepsUntyped(works, start, rows) ==
  /\ works \in [LineItems -> Amounts] /\ start \in [LineItems -> Amounts]
  /\ \A l \in LineItems \ rows : works[l] = start[l]

Form == [value : Amounts, from : Deds \cup {Missing}]

FormInv ==
  /\ user \in Actors
  /\ worksDoneMap \in [LineItems -> Amounts] /\ basis \in [LineItems -> Amounts]
  /\ typed \subseteq LineItems
  /\ worksDirty \in BOOLEAN
  /\ worksDirty <=> typed # {}
  /\ worksDirty => KeepsUntyped(worksDoneMap, basis, typed)
  /\ deductForm \in Form /\ deductDefaults \in Form
  /\ sheet = NoSheet \/ sheet.kind \in SheetKinds
  /\ sheet.kind = "editDeduct" =>
       deductForm.from = sheet.item /\ deductDefaults.from = sheet.item
  /\ sheet.kind = "transition" => Offered(sheet.item, sheet.shown)

\* What the deduction form sends: an amount, and the row it was loaded with.
SendsRow(m, args) ==
  \E from, value : /\ value \in Amounts
                   /\ args.data = [f \in {from} |-> value]
                   /\ m = "editDeduct" => from = args.what

CallOK(c) ==
  /\ DOMAIN c = {"request", "mutation", "args", "state", "waiting"}
  /\ c.request \in PageRequests /\ c.mutation \in Mutations
  /\ c.mutation = "transition" => Offered(c.args.what, c.args.shown)
  /\ c.mutation = "worksDone" => KeepsUntyped(c.args.data, c.args.basis, c.args.typed)
  /\ c.mutation \in {"addDeduct", "editDeduct"} => SendsRow(c.mutation, c.args)

\* The handler works for the user on the target of the call.
WorksFor(v, c) ==
  /\ c.request = v.request /\ c.state = "busy" /\ c.mutation = "transition"
  /\ v.move \in validTransitions /\ v.move.to = c.args.what /\ hasAnyRole(user, v.move.roles)

\* Every handler with the identity of a page's call has its call, and no two
\* calls or handlers share an identity.
CallsInv ==
  /\ \A c \in calls : CallOK(c)
  /\ \A c, d \in calls : c.request = d.request => c = d
  /\ \A u, v \in reviews : u.request = v.request => u = v
  /\ \A v \in reviews : v.request \in PageRequests => \E c \in calls : WorksFor(v, c)

\* A call as it was, but for how far it is.
Similar(d, c) ==
  /\ DOMAIN d = DOMAIN c
  /\ d.request = c.request /\ d.mutation = c.mutation /\ d.args = c.args

LEMMA ExceptSimilar ==
  ASSUME CallsInv, NEW c \in calls, NEW x
  PROVE  /\ Similar([c EXCEPT !.state = x], c) /\ [c EXCEPT !.state = x].state = x
         /\ Similar([c EXCEPT !.waiting = x], c) /\ [c EXCEPT !.waiting = x].state = c.state
<1>1. DOMAIN c = {"request", "mutation", "args", "state", "waiting"}
  BY DEF CallsInv, CallOK
<1> QED
  BY <1>1 DEF Similar

\* A call stays right as long as its user is the same.
LEMMA CallStays ==
  ASSUME NEW c, CallOK(c), NEW d, Similar(d, c), UNCHANGED user
  PROVE  CallOK(d)'
<1>1. /\ DOMAIN d = DOMAIN c
      /\ d.request = c.request /\ d.mutation = c.mutation /\ d.args = c.args
  BY DEF Similar
<1>2. \A what, s : Offered(what, s) => Offered(what, s)'
  BY DEF Offered
<1>3. d.mutation = "transition" => Offered(d.args.what, d.args.shown)'
  BY <1>1, <1>2 DEF CallOK
<1> QED
  BY <1>1, <1>3 DEF CallOK

LEMMA CallsStay == ASSUME CallsInv, UNCHANGED user PROVE \A c \in calls : CallOK(c)'
BY DEF CallsInv, CallOK, Offered

\* A call that is not busy has no handler.
LEMMA NotBusy ==
  ASSUME CallsInv, NEW c \in calls, c.state # "busy"
  PROVE  \A v \in reviews : v.request # c.request
BY DEF CallsInv, CallOK, WorksFor

\* A call gets further or ends, when nobody works on it or whoever does goes on.
LEMMA ReplaceKeeps ==
  ASSUME CallsInv, NEW c \in calls, NEW d, Similar(d, c), UNCHANGED user,
         reviews' \subseteq reviews,
         \/ /\ calls' \in {calls \ {c}, (calls \ {c}) \cup {d}}
            /\ \A v \in reviews' : v.request # c.request
         \/ calls' = (calls \ {c}) \cup {d} /\ d.state = c.state
  PROVE  CallsInv'
<1>1. calls' \subseteq (calls \ {c}) \cup {d} /\ calls \ {c} \subseteq calls'
  OBVIOUS
<1>2. CallOK(d)'
  BY CallStays DEF CallsInv
<1>3. \A e \in calls' : CallOK(e)'
  BY <1>1, <1>2, CallsStay
<1>4. \A e, f \in calls' : e.request = f.request => e = f
  BY <1>1 DEF CallsInv, Similar
<1>5. ASSUME NEW v \in reviews', v.request \in PageRequests
      PROVE  \E e \in calls' : WorksFor(v, e)'
  <2>1. PICK e \in calls : WorksFor(v, e)
    BY <1>5 DEF CallsInv
  <2>2. CASE e # c
    BY <1>1, <2>1, <2>2 DEF WorksFor, hasAnyRole
  <2>3. CASE e = c
    <3>1. calls' = (calls \ {c}) \cup {d} /\ d.state = c.state
      BY <2>1, <2>3 DEF WorksFor
    <3> QED
      BY <2>1, <2>3, <3>1 DEF WorksFor, Similar, hasAnyRole
  <2> QED
    BY <2>2, <2>3
<1> QED
  BY <1>3, <1>4, <1>5 DEF CallsInv

LEMMA ServedKeeps ==
  ASSUME CallsInv, NEW c \in calls, NEW x, Served(c, x), UNCHANGED user,
         reviews' \subseteq reviews, \A v \in reviews' : v.request # c.request
  PROVE  CallsInv'
<1>1. Similar([c EXCEPT !.state = x], c)
  BY ExceptSimilar
<1>2. calls' \in {calls \ {c}, (calls \ {c}) \cup {[c EXCEPT !.state = x]}}
  BY DEF Served
<1> QED
  BY <1>1, <1>2, ReplaceKeeps

LEMMA NetworkKeeps ==
  ASSUME CallsInv, NEW c \in calls, NetworkFails(c), UNCHANGED <<user, reviews>>
  PROVE  CallsInv'
<1>1. /\ Similar([c EXCEPT !.waiting = FALSE], c)
      /\ [c EXCEPT !.waiting = FALSE].state = c.state
  BY ExceptSimilar
<1>2. CASE c.state \in {"sent", "busy"}
  <2>1. calls' = (calls \ {c}) \cup {[c EXCEPT !.waiting = FALSE]}
    BY <1>2 DEF NetworkFails
  <2> QED
    BY <1>1, <2>1, ReplaceKeeps
<1>3. CASE c.state \notin {"sent", "busy"}
  <2>1. calls' = calls \ {c}
    BY <1>3 DEF NetworkFails
  <2> QED
    BY <1>1, <1>3, <2>1, NotBusy, ReplaceKeeps
<1> QED
  BY <1>2, <1>3

\* A call that is over, for better or worse.
LEMMA AnswersKeep ==
  ASSUME CallsInv, NEW c \in calls, c.state \in {"ok", "refused"}, calls' = calls \ {c},
         UNCHANGED <<user, reviews>>
  PROVE  CallsInv'
<1>1. Similar(c, c) /\ \A v \in reviews' : v.request # c.request
  BY NotBusy DEF Similar
<1> QED
  BY <1>1, ReplaceKeeps

\* A button makes a call of what the page holds.
LEMMA CallKeeps ==
  ASSUME CallsInv, NEW m \in Mutations, NEW args, Call(m, args),
         \A c : (/\ DOMAIN c = {"request", "mutation", "args", "state", "waiting"}
                 /\ c.request \in PageRequests /\ c.mutation = m /\ c.args = args) => CallOK(c)
  PROVE  CallsInv'
<1>1. PICK r \in PageRequests : mutate(r, m, args)
  BY DEF Call
<1> DEFINE new == [request |-> r, mutation |-> m, args |-> args, state |-> "sent",
                   waiting |-> TRUE]
<1>2. calls' = calls \cup {new} /\ \A c \in calls : c.request # r
  BY <1>1 DEF mutate
<1>3. /\ DOMAIN new = {"request", "mutation", "args", "state", "waiting"}
      /\ new.request = r /\ new.mutation = m /\ new.args = args
  OBVIOUS
<1> HIDE DEF new
<1>4. UNCHANGED <<user, reviews>>
  BY DEF Call, backendVars, reviewVars, pageVars
<1>5. CallOK(new)
  BY <1>3
<1>6. \A c \in calls' : CallOK(c)'
  BY <1>2, <1>4, <1>5, CallsStay, CallStays DEF Similar
<1>7. \A v \in reviews : v.request \in PageRequests => \E c \in calls : WorksFor(v, c)'
  BY <1>4 DEF CallsInv, WorksFor, hasAnyRole
<1> QED
  BY <1>2, <1>3, <1>4, <1>6, <1>7 DEF CallsInv

\* A handler begins: for the page, on one of its calls, or for a colleague.
LEMMA BeginKeeps ==
  ASSUME CallsInv, NEW c \in calls, NEW move \in validTransitions, BeginTransition(c, move)
  PROVE  CallsInv'
<1>1. PICK d : Similar(d, c) /\ d.state = "busy" /\ calls' = (calls \ {c}) \cup {d}
  BY ExceptSimilar DEF BeginTransition, Begun
<1>2. /\ c.mutation = "transition" /\ move.to = c.args.what /\ hasAnyRole(user, move.roles)
      /\ c.state = "sent" /\ UNCHANGED user
  BY DEF BeginTransition, Transition, pageVars
<1>3. PICK v : v.request = c.request /\ v.move = move /\ reviews' = reviews \cup {v}
  BY DEF BeginTransition, Transition, Enter, Deciding
<1>4. \A u \in reviews : u.request # c.request
  BY <1>2, NotBusy
<1>5. CallOK(d)'
  BY <1>1, <1>2, CallStays DEF CallsInv
<1>6. \A e \in calls' : CallOK(e)'
  BY <1>1, <1>2, <1>5, CallsStay
<1>7. \A e, f \in calls' : e.request = f.request => e = f
  BY <1>1 DEF CallsInv, Similar
<1>8. \A e, f \in reviews' : e.request = f.request => e = f
  BY <1>3, <1>4 DEF CallsInv
<1>9. ASSUME NEW u \in reviews', u.request \in PageRequests
      PROVE  \E e \in calls' : WorksFor(u, e)'
  <2>1. CASE u = v
    <3>1. WorksFor(v, d)'
      BY <1>1, <1>2, <1>3 DEF WorksFor, Similar, hasAnyRole
    <3> QED
      BY <1>1, <2>1, <3>1
  <2>2. CASE u # v
    <3>1. u \in reviews /\ u.request # c.request
      BY <1>3, <1>4, <2>2
    <3>2. PICK e \in calls : WorksFor(u, e)
      BY <1>9, <3>1 DEF CallsInv
    <3>3. e # c
      BY <3>1, <3>2 DEF WorksFor
    <3> QED
      BY <1>1, <1>2, <3>2, <3>3 DEF WorksFor, hasAnyRole
  <2> QED
    BY <2>1, <2>2
<1> QED
  BY <1>6, <1>7, <1>8, <1>9 DEF CallsInv

LEMMA ColleagueKeeps ==
  ASSUME CallsInv, UNCHANGED <<user, calls>>,
         \/ \E r \in Requests \ PageRequests, a \in Actors, move \in validTransitions :
              Unused(r) /\ Transition(r, a, move)
         \/ reviews' \subseteq reviews
  PROVE  CallsInv'
<1>1. \A c \in calls : CallOK(c)'
  BY CallsStay
<1>2. \A v \in reviews : v.request \in PageRequests => \E c \in calls : WorksFor(v, c)'
  BY DEF CallsInv, WorksFor, hasAnyRole
<1>3. CASE reviews' \subseteq reviews
  BY <1>1, <1>2, <1>3 DEF CallsInv
<1>4. ASSUME NEW r \in Requests \ PageRequests, NEW a \in Actors,
             NEW move \in validTransitions, Unused(r), Transition(r, a, move)
      PROVE  CallsInv'
  <2>1. PICK new : new.request = r /\ reviews' = reviews \cup {new}
    BY <1>4 DEF Transition, Enter, Deciding
  <2>2. \A u, v \in reviews' : u.request = v.request => u = v
    BY <1>4, <2>1 DEF CallsInv, Unused
  <2> QED
    BY <1>1, <1>2, <2>1, <2>2 DEF CallsInv
<1> QED
  BY <1>3, <1>4

-----------------------------------------------------------------------------
(***************************************************************************)
(* The user's steps.                                                       *)
(***************************************************************************)
LEMMA FormStays == ASSUME FormInv, UNCHANGED pageVars PROVE FormInv'
<1>1. UNCHANGED <<worksDoneMap, worksDirty, typed, basis, deductForm, deductDefaults, sheet, user>>
  BY DEF pageVars, worksVars, formVars
<1>2. \A what, s : Offered(what, s) => Offered(what, s)'
  BY <1>1 DEF Offered
<1> QED
  BY <1>1, <1>2 DEF FormInv

\* A sheet is opened; only that of a deduction touches a form.
LEMMA OpenKeeps ==
  ASSUME FormInv, NEW k \in SheetKinds, NEW item, Open(k, item),
         \/ k # "editDeduct" /\ UNCHANGED formVars
         \/ /\ k = "editDeduct"
            /\ (deductForm \in Form /\ deductDefaults \in Form)'
            /\ deductForm'.from = item /\ deductDefaults'.from = item,
         k = "transition" => Offered(item, stmt.status)
  PROVE  FormInv'
<1>1. /\ UNCHANGED <<worksDoneMap, worksDirty, typed, basis, user>>
      /\ sheet'.kind = k /\ sheet'.item = item /\ sheet'.shown = stmt.status
  BY DEF Open, worksVars
<1>2. k = "transition" => Offered(item, stmt.status)'
  <2>1. stmt.status = (stmt.status)'
    BY DEF Open, clientVars, stmt
  <2> QED
    BY <1>1, <2>1 DEF Offered
<1>3. (sheet.kind = "transition" => Offered(sheet.item, sheet.shown))'
  <2>1. ASSUME k = "transition"
        PROVE  Offered(sheet.item, sheet.shown)'
    <3>1. PICK t \in TRANSITIONS : /\ t.from = stmt.status /\ t.to = item
                                   /\ RolesOf[user] \cap t.roles # {}
      BY <2>1 DEF Offered
    <3> QED
      BY <1>1, <3>1 DEF Offered
  <2> QED
    BY <1>1, <2>1
<1>4. (deductForm \in Form /\ deductDefaults \in Form)'
  BY DEF FormInv, formVars
<1>5. (sheet.kind = "editDeduct" =>
         deductForm.from = sheet.item /\ deductDefaults.from = sheet.item)'
  BY <1>1
<1>6. (sheet.kind \in SheetKinds)'
  BY <1>1
<1> QED
  BY <1>1, <1>3, <1>4, <1>5, <1>6 DEF FormInv

LEMMA OpensKeep ==
  ASSUME FormInv, CacheInv,
         \/ OpenOther \/ OpenAddDeduct
         \/ \E d \in Deds : OpenEditDeduct(d)
         \/ \E t \in TRANSITIONS : OpenConfirm(t)
  PROVE  FormInv'
<1>0. View(stmt)
  BY ShownIsStatement
<1>1. CASE OpenOther
  <2>1. PICK k \in {"updateStmt", "addExtra", "dropExtra", "dropDeduct"} :
          \E item : Open(k, item) /\ UNCHANGED formVars
    BY <1>1 DEF OpenOther
  <2> QED
    BY <2>1, OpenKeeps DEF SheetKinds, Mutations
<1>2. CASE OpenAddDeduct
  BY <1>2, OpenKeeps DEF OpenAddDeduct, SheetKinds, Mutations
<1>3. ASSUME NEW d \in Deds, OpenEditDeduct(d)
      PROVE  FormInv'
  <2> DEFINE values == [value |-> stmt.deds[d], from |-> d]
  <2>1. Open("editDeduct", d) /\ deductForm' = values /\ deductDefaults' = values
    BY <1>3 DEF OpenEditDeduct
  <2>2. values \in Form /\ values.from = d
    BY <1>0 DEF View, Form
  <2> HIDE DEF values
  <2> QED
    BY <2>1, <2>2, OpenKeeps DEF SheetKinds, Mutations
<1>4. ASSUME NEW t \in TRANSITIONS, OpenConfirm(t)
      PROVE  FormInv'
  <2>1. Open("transition", t.to) /\ UNCHANGED formVars
    BY <1>4 DEF OpenConfirm
  <2>2. Offered(t.to, stmt.status)
    BY <1>4 DEF OpenConfirm, availableTransitions, Offered
  <2> QED
    BY <2>1, <2>2, OpenKeeps DEF SheetKinds, Mutations
<1> QED
  BY <1>1, <1>2, <1>3, <1>4

\* Only the typed rows of the table leave what the typing started from.
LEMMA TypingKeeps ==
  ASSUME FormInv, CacheInv, NEW l \in LineItems, NEW v \in Amounts, TypeQuantity(l, v)
  PROVE  FormInv'
<1> DEFINE start == IF worksDirty THEN basis ELSE stmt.qty
           works == IF worksDirty THEN worksDoneMap ELSE stmt.qty
<1>1. stmt.qty \in [LineItems -> Amounts]
  BY ShownIsStatement DEF View
<1>2. KeepsUntyped(works, start, typed)
  BY <1>1 DEF FormInv, KeepsUntyped
<1>3. /\ worksDoneMap' = [works EXCEPT ![l] = v] /\ worksDirty' = TRUE
      /\ typed' = typed \cup {l} /\ basis' = start
  BY DEF TypeQuantity, initWorksDoneMap
<1>4. UNCHANGED <<deductForm, deductDefaults, sheet, user>>
  BY DEF TypeQuantity, formVars
<1> HIDE DEF start, works
<1>5. KeepsUntyped(worksDoneMap', basis', typed')
  BY <1>2, <1>3 DEF KeepsUntyped
<1>6. \A what, s : Offered(what, s) => Offered(what, s)'
  BY <1>4 DEF Offered
<1>7. /\ typed' \subseteq LineItems /\ typed' # {} /\ worksDirty' \in BOOLEAN
      /\ worksDoneMap' \in [LineItems -> Amounts] /\ basis' \in [LineItems -> Amounts]
  BY <1>3, <1>5 DEF FormInv, KeepsUntyped
<1>8. (worksDirty => KeepsUntyped(worksDoneMap, basis, typed))'
  BY <1>5 DEF KeepsUntyped
<1>9. /\ (deductForm \in Form /\ deductDefaults \in Form /\ user \in Actors)'
      /\ (sheet = NoSheet \/ sheet.kind \in SheetKinds)'
      /\ (sheet.kind = "editDeduct" =>
            deductForm.from = sheet.item /\ deductDefaults.from = sheet.item)'
      /\ (sheet.kind = "transition" => Offered(sheet.item, sheet.shown))'
  BY <1>4, <1>6 DEF FormInv
<1> QED
  BY <1>3, <1>7, <1>8, <1>9 DEF FormInv

\* A form is put back, typed into or left.
LEMMA FormsKeep ==
  ASSUME FormInv, UNCHANGED user, sheet' \in {sheet, NoSheet}, UNCHANGED deductDefaults,
         \/ deductForm' \in {deductForm, deductDefaults}
         \/ \E v \in Amounts : deductForm' = [deductForm EXCEPT !.value = v],
         \/ UNCHANGED worksVars
         \/ UNCHANGED <<worksDoneMap, basis>> /\ worksDirty' = FALSE /\ typed' = {}
  PROVE  FormInv'
<1>1. (/\ worksDoneMap \in [LineItems -> Amounts] /\ basis \in [LineItems -> Amounts]
       /\ typed \subseteq LineItems /\ worksDirty \in BOOLEAN
       /\ worksDirty <=> typed # {}
       /\ worksDirty => KeepsUntyped(worksDoneMap, basis, typed))'
  <2>1. CASE UNCHANGED worksVars
    BY <2>1 DEF worksVars, FormInv
  <2>2. CASE UNCHANGED <<worksDoneMap, basis>> /\ worksDirty' = FALSE /\ typed' = {}
    BY <2>2 DEF FormInv
  <2> QED
    BY <2>1, <2>2
<1>2. deductForm' \in Form /\ deductDefaults' \in Form
  BY DEF FormInv, Form
<1>3. deductForm'.from \in {deductForm.from, deductDefaults.from}
  <2>1. deductForm \in Form
    BY DEF FormInv
  <2> QED
    BY <2>1 DEF Form
<1>4. (sheet = NoSheet \/ sheet.kind \in SheetKinds)'
  BY DEF FormInv, NoSheet
<1>5. (sheet.kind = "editDeduct" =>
         deductForm.from = sheet.item /\ deductDefaults.from = sheet.item)'
  BY <1>3 DEF FormInv, NoSheet
<1>6. (sheet.kind = "transition" => Offered(sheet.item, sheet.shown))'
  <2>1. \A what, s : Offered(what, s) => Offered(what, s)'
    BY DEF Offered
  <2> QED
    BY <2>1 DEF FormInv, NoSheet
<1> QED
  BY <1>1, <1>2, <1>4, <1>5, <1>6 DEF FormInv

\* What is sent is what the forms hold.
LEMMA SendsKeep ==
  ASSUME FormInv, CallsInv, saveWorksDone \/ SubmitSheet
  PROVE  CallsInv' /\ FormInv'
<1>1. FormInv'
  BY FormStays DEF saveWorksDone, SubmitSheet, Call
<1>2. CASE saveWorksDone
  <2> DEFINE args == Args(Missing, stmt.status, worksDoneMap)
  <2>1. Call("worksDone", args) /\ worksDirty
    BY <1>2 DEF saveWorksDone
  <2>2. args.data = worksDoneMap /\ args.basis = basis /\ args.typed = typed
    BY DEF Args
  <2> HIDE DEF args
  <2>3. KeepsUntyped(args.data, args.basis, args.typed)
    BY <2>1, <2>2 DEF FormInv
  <2>4. \A c : (/\ DOMAIN c = {"request", "mutation", "args", "state", "waiting"}
                /\ c.request \in PageRequests /\ c.mutation = "worksDone" /\ c.args = args)
               => CallOK(c)
    BY <2>3 DEF CallOK, Mutations
  <2>5. CallsInv'
    BY <2>1, <2>4, CallKeeps DEF Mutations
  <2> QED
    BY <1>1, <2>5
<1>3. CASE SubmitSheet
  <2> DEFINE sent == [f \in {deductForm.from} |-> deductForm.value]
             args == Args(sheet.item, sheet.shown, sent)
  <2>1. Call(sheet.kind, args) /\ sheet # NoSheet
    BY <1>3 DEF SubmitSheet
  <2>2. args.what = sheet.item /\ args.shown = sheet.shown /\ args.data = sent
    BY DEF Args
  <2>3. sheet.kind \in SheetKinds
    BY <2>1 DEF FormInv
  <2>4. sheet.kind = "transition" => Offered(args.what, args.shown)
    BY <2>2 DEF FormInv
  <2>5. SendsRow(sheet.kind, args)
    <3>1. deductForm.value \in Amounts
      BY DEF FormInv, Form
    <3>2. sheet.kind = "editDeduct" => deductForm.from = args.what
      BY <2>2 DEF FormInv
    <3> QED
      BY <2>2, <3>1, <3>2 DEF SendsRow
  <2> HIDE DEF args, sent
  <2>6. \A c : (/\ DOMAIN c = {"request", "mutation", "args", "state", "waiting"}
                /\ c.request \in PageRequests /\ c.mutation = sheet.kind /\ c.args = args)
               => CallOK(c)
    BY <2>3, <2>4, <2>5 DEF CallOK, SheetKinds
  <2>7. CallsInv'
    BY <2>1, <2>3, <2>6, CallKeeps DEF SheetKinds
  <2> QED
    BY <1>1, <2>7
<1> QED
  BY <1>2, <1>3

LEMMA UserKeeps ==
  ASSUME FormInv, CallsInv, CacheInv,
         \/ \E l \in LineItems, v \in Amounts : TypeQuantity(l, v)
         \/ saveWorksDone
         \/ OpenOther \/ OpenAddDeduct
         \/ \E d \in Deds : OpenEditDeduct(d)
         \/ \E v \in Amounts : TypeDeduct(v)
         \/ \E t \in TRANSITIONS : OpenConfirm(t)
         \/ CloseSheet \/ SubmitSheet
  PROVE  FormInv' /\ CallsInv' /\ UNCHANGED <<backendVars, cacheVars>>
<1>1. CASE saveWorksDone \/ SubmitSheet
  <2>1. UNCHANGED <<backendVars, cacheVars>>
    BY <1>1 DEF saveWorksDone, SubmitSheet, Call, mutate
  <2> QED
    BY <1>1, <2>1, SendsKeep
<1>2. ASSUME UNCHANGED <<backendVars, clientVars, user>>
      PROVE  CallsInv' /\ UNCHANGED cacheVars
  <2>1. UNCHANGED <<reviews, calls, user>>
    BY <1>2 DEF backendVars, reviewVars, clientVars
  <2> QED
    BY <1>2, <2>1, ColleagueKeeps DEF clientVars, cacheVars
<1>3. ASSUME NEW l \in LineItems, NEW v \in Amounts, TypeQuantity(l, v)
      PROVE  FormInv' /\ UNCHANGED <<backendVars, clientVars, user>>
  BY <1>3, TypingKeeps DEF TypeQuantity
<1>4. CASE \/ OpenOther \/ OpenAddDeduct
           \/ \E d \in Deds : OpenEditDeduct(d)
           \/ \E t \in TRANSITIONS : OpenConfirm(t)
  <2>1. FormInv'
    BY <1>4, OpensKeep
  <2>2. \E k, item : Open(k, item)
    BY <1>4 DEF OpenOther, OpenAddDeduct, OpenEditDeduct, OpenConfirm
  <2>3. UNCHANGED <<backendVars, clientVars, user>>
    BY <2>2 DEF Open
  <2> QED
    BY <1>2, <2>1, <2>3
<1>5. ASSUME NEW v \in Amounts, TypeDeduct(v)
      PROVE  FormInv' /\ UNCHANGED <<backendVars, clientVars, user>>
  BY <1>5, FormsKeep DEF TypeDeduct
<1>6. CASE CloseSheet
  <2>1. FormInv' /\ UNCHANGED <<backendVars, clientVars, user>>
    BY <1>6, FormsKeep DEF CloseSheet
  <2> QED
    BY <1>2, <2>1
<1> QED
  BY <1>1, <1>2, <1>3, <1>4, <1>5, <1>6

-----------------------------------------------------------------------------
(***************************************************************************)
(* The backend below the page.                                             *)
(***************************************************************************)
BackInv ==
  /\ ReviewTypeOK
  /\ qty \in [LineItems -> Amounts]
  /\ deds \in [Deds -> Amounts]
  /\ gone \subseteq LineItems

LEMMA StoredIsStatement == BackInv => \A q : View(Stored(q))
BY DEF BackInv, ReviewTypeOK, View, Stored

LEMMA SameBackend == ASSUME BackInv, UNCHANGED backendVars PROVE BackInv'
BY DEF BackInv, ReviewTypeOK, backendVars, reviewVars, itemVars

\* The moves of the review, whoever makes them.
LEMMA ReviewMoves ==
  ASSUME BackInv, UNCHANGED itemVars,
         \/ \E r \in Requests, a \in Actors, move \in validTransitions :
              Unused(r) /\ Transition(r, a, move)
         \/ \E v \in reviews : CommitTransition(v) \/ ReviewFailed(v)
  PROVE  ReviewNext /\ BackInv'
<1>1. ReviewNext
  BY DEF ReviewNext, BeginReview, EndReview
<1>2. ReviewTypeOK'
  BY <1>1, ReviewTypeStep DEF BackInv
<1> QED
  BY <1>1, <1>2 DEF BackInv, itemVars

\* What is stored of a table of quantities is one.
LEMMA StoredOfTable ==
  ASSUME NEW works \in [LineItems -> Amounts]
  PROVE  StoredOf(works) \in [LineItems -> Amounts]
BY ZeroIsAnAmount DEF StoredOf

\* What an edit stores comes from the form it was sent by.
LEMMA EditStores ==
  ASSUME BackInv, NEW c, CallOK(c), ServeEdit(c)
  PROVE  BackInv'
<1>1. ReviewTypeOK' /\ gone' \subseteq LineItems
  BY DEF BackInv, ReviewTypeOK, ServeEdit, reviewVars
<1>2. qty' \in [LineItems -> Amounts]
  <2>1. CASE c.mutation = "worksDone"
    <3>1. c.args.data \in [LineItems -> Amounts]
      BY <2>1 DEF CallOK, KeepsUntyped
    <3>2. StoreWorks(c.args.data)
      BY <2>1 DEF ServeEdit
    <3> QED
      BY <3>1, <3>2, StoredOfTable DEF StoreWorks
  <2>2. CASE c.mutation # "worksDone"
    <3>1. UNCHANGED qty
      BY <2>2 DEF ServeEdit, AddExtra
    <3> QED
      BY <3>1 DEF BackInv
  <2> QED
    BY <2>1, <2>2
<1>3. c.mutation \in {"addDeduct", "editDeduct"} => Sent(c) \in Amounts
  <2>1. ASSUME NEW from, NEW value \in Amounts, c.args.data = [f \in {from} |-> value]
        PROVE  Sent(c) \in Amounts
    <3>1. DOMAIN c.args.data = {from}
      BY <2>1
    <3>2. (CHOOSE f \in DOMAIN c.args.data : TRUE) = from
      BY <3>1
    <3>3. Sent(c) = c.args.data[from]
      BY <3>2 DEF Sent
    <3> QED
      BY <2>1, <3>3
  <2> QED
    BY <2>1 DEF CallOK, SendsRow
<1>4. deds' \in [Deds -> Amounts]
  BY <1>3, ZeroIsAnAmount DEF BackInv, ServeEdit, AddExtra
<1> QED
  BY <1>1, <1>2, <1>4 DEF BackInv

LEMMA ServerKeeps ==
  ASSUME FormInv, CallsInv, BackInv, NEW c \in calls,
         \/ \E move \in validTransitions : BeginTransition(c, move)
         \/ \E v \in reviews : EndTransition(c, v)
         \/ RefuseTransition(c) \/ ServeEdit(c) \/ RefuseEdit(c)
  PROVE  /\ [ReviewNext]_reviewVars
         /\ BackInv' /\ CallsInv' /\ UNCHANGED pageVars /\ UNCHANGED cacheVars
<1>1. UNCHANGED pageVars /\ UNCHANGED cacheVars
  BY DEF BeginTransition, EndTransition, RefuseTransition, ServeEdit, RefuseEdit
<1>2. UNCHANGED user
  BY <1>1 DEF pageVars
<1>3. ASSUME NEW move \in validTransitions, BeginTransition(c, move)
      PROVE  ReviewNext /\ BackInv' /\ CallsInv'
  <2>1. Transition(c.request, user, move) /\ UNCHANGED itemVars /\ c.state = "sent"
    BY <1>3 DEF BeginTransition
  <2>2. c.request \in Requests /\ user \in Actors /\ Unused(c.request)
    BY <2>1, NotBusy, PageCallsAreRequests DEF CallsInv, CallOK, FormInv, Unused
  <2>3. ReviewNext /\ BackInv'
    BY <2>1, <2>2, ReviewMoves
  <2> QED
    BY <1>3, <2>3, BeginKeeps
<1>4. ASSUME NEW v \in reviews, EndTransition(c, v)
      PROVE  ReviewNext /\ BackInv' /\ CallsInv'
  <2>1. /\ CommitTransition(v) \/ ReviewFailed(v)
        /\ v.request = c.request /\ UNCHANGED itemVars
    BY <1>4 DEF EndTransition
  <2>2. PICK x : Served(c, x)
    BY <1>4 DEF EndTransition
  <2>3. reviews' = reviews \ {v}
    BY <2>1 DEF CommitTransition, ReviewFailed
  <2>4. \A u \in reviews' : u.request # c.request
    BY <2>1, <2>3 DEF CallsInv
  <2> QED
    BY <1>2, <2>1, <2>2, <2>3, <2>4, ReviewMoves, ServedKeeps
<1>5. ASSUME RefuseTransition(c) \/ ServeEdit(c) \/ RefuseEdit(c)
      PROVE  UNCHANGED reviewVars /\ BackInv' /\ CallsInv'
  <2>1. c.state = "sent" /\ UNCHANGED reviews /\ \E x : Served(c, x)
    BY <1>5 DEF RefuseTransition, ServeEdit, RefuseEdit, backendVars, reviewVars
  <2>2. CallsInv'
    BY <1>2, <2>1, NotBusy, ServedKeeps
  <2>3. UNCHANGED backendVars \/ ServeEdit(c)
    BY <1>5 DEF RefuseTransition, RefuseEdit
  <2>4. BackInv'
    BY <2>3, SameBackend, EditStores DEF CallsInv
  <2>5. UNCHANGED reviewVars
    BY <2>3 DEF backendVars, ServeEdit
  <2> QED
    BY <2>2, <2>4, <2>5
<1>6. [ReviewNext]_reviewVars /\ BackInv' /\ CallsInv'
  BY <1>3, <1>4, <1>5
<1> QED
  BY <1>1, <1>6

LEMMA ColleaguesKeep ==
  ASSUME CallsInv, BackInv,
         \/ ColleagueBegins \/ ColleagueEdits \/ ColleagueDropsLine
         \/ \E v \in reviews : ColleagueEnds(v)
  PROVE  /\ [ReviewNext]_reviewVars
         /\ BackInv' /\ CallsInv' /\ UNCHANGED pageVars /\ UNCHANGED cacheVars
<1>1. UNCHANGED pageVars /\ UNCHANGED clientVars
  BY DEF ColleagueBegins, ColleagueEdits, ColleagueDropsLine, ColleagueEnds
<1>2. UNCHANGED user /\ UNCHANGED calls /\ UNCHANGED cacheVars
  BY <1>1 DEF pageVars, clientVars, cacheVars
<1>3. ASSUME ColleagueBegins
      PROVE  ReviewNext /\ BackInv' /\ CallsInv'
  <2>1. PICK r \in Requests \ PageRequests, a \in Actors, move \in validTransitions :
          Unused(r) /\ Transition(r, a, move)
    BY <1>3 DEF ColleagueBegins
  <2>2. UNCHANGED itemVars
    BY <1>3 DEF ColleagueBegins
  <2> QED
    BY <1>1, <1>2, <2>1, <2>2, ReviewMoves, ColleagueKeeps
<1>4. ASSUME NEW v \in reviews, ColleagueEnds(v)
      PROVE  ReviewNext /\ BackInv' /\ CallsInv'
  <2>1. CommitTransition(v) /\ UNCHANGED itemVars
    BY <1>4 DEF ColleagueEnds
  <2>2. reviews' \subseteq reviews
    BY <2>1 DEF CommitTransition
  <2> QED
    BY <1>2, <2>1, <2>2, ReviewMoves, ColleagueKeeps
<1>5. ASSUME ColleagueEdits \/ ColleagueDropsLine
      PROVE  UNCHANGED reviewVars /\ BackInv' /\ CallsInv'
  <2>1. UNCHANGED reviewVars
    BY <1>5 DEF ColleagueEdits, ColleagueDropsLine
  <2>2. qty' \in [LineItems -> Amounts] /\ deds' \in [Deds -> Amounts] /\ gone' \subseteq LineItems
    <3>1. \A l \in LineItems, v \in Amounts : [qty EXCEPT ![l] = v] \in [LineItems -> Amounts]
      BY DEF BackInv
    <3>2. CASE ColleagueEdits
      BY <3>1, <3>2, StoredOfTable DEF ColleagueEdits, StoreWorks, BackInv
    <3>3. CASE ColleagueDropsLine
      BY <3>3 DEF ColleagueDropsLine, BackInv
    <3> QED
      BY <1>5, <3>2, <3>3
  <2>3. BackInv'
    BY <2>1, <2>2 DEF BackInv, ReviewTypeOK, reviewVars
  <2>4. UNCHANGED reviews
    BY <2>1 DEF reviewVars
  <2> QED
    BY <1>2, <2>1, <2>3, <2>4, ColleagueKeeps
<1>6. [ReviewNext]_reviewVars /\ BackInv' /\ CallsInv'
  BY <1>3, <1>4, <1>5
<1> QED
  BY <1>1, <1>2, <1>6

-----------------------------------------------------------------------------
(***************************************************************************)
(* All steps together.                                                     *)
(***************************************************************************)
PageInv == CacheInv /\ FormInv /\ CallsInv /\ BackInv

LEMMA PageStarts == PageInit => PageInv
<1> SUFFICES ASSUME PageInit PROVE PageInv
  OBVIOUS
<1>1. PICK e \in Entries : /\ status = e.status /\ trail = e.trail
                           /\ qty = e.qty /\ deds = e.deds /\ user = e.user
  BY DEF PageInit
<1>2. /\ e.status \in StatementStatus /\ e.trail \in Seq(Event)
      /\ e.qty \in [LineItems -> Amounts] /\ e.deds \in [Deds -> Amounts] /\ e.user \in Actors
  BY EntriesAreSituations
<1>3. BackInv
  BY <1>1, <1>2 DEF PageInit, BackInv, ReviewTypeOK
<1>4. CacheInv
  <2>1. \A q \in Queries : q = "statement" /\ View(Stored(q))
    BY <1>3, QueryOfPage, StoredIsStatement
  <2>2. /\ cache = [q \in Queries |-> Stored(q)]
        /\ fetching = [q \in Queries |-> "idle"]
        /\ reply = [q \in Queries |-> Missing]
        /\ owed = {} /\ excused = {}
    BY <2>1 DEF PageInit, CacheInit
  <2> QED
    BY <2>1, <2>2 DEF CacheInv, OwnChangesComing
<1>5. FormInv
  <2>1. NoWorks \in [LineItems -> Amounts] /\ BlankForm \in Form
    BY ZeroIsAnAmount DEF NoWorks, BlankForm, Form
  <2>2. sheet = NoSheet /\ sheet.kind = "none"
    BY DEF PageInit, NoSheet
  <2> QED
    BY <1>1, <1>2, <2>1, <2>2 DEF PageInit, FormInv
<1>6. CallsInv
  BY DEF PageInit, CallsInv
<1> QED
  BY <1>3, <1>4, <1>5, <1>6 DEF PageInv

LEMMA PageStep ==
  ASSUME PageInv, [PageNext]_allVars
  PROVE  PageInv' /\ [ReviewNext]_reviewVars
<1>0. CacheInv /\ FormInv /\ CallsInv /\ BackInv
  BY DEF PageInv, backendVars
<1>1. CASE \/ \E l \in LineItems, v \in Amounts : TypeQuantity(l, v)
           \/ saveWorksDone
           \/ OpenOther \/ OpenAddDeduct
           \/ \E d \in Deds : OpenEditDeduct(d)
           \/ \E v \in Amounts : TypeDeduct(v)
           \/ \E t \in TRANSITIONS : OpenConfirm(t)
           \/ CloseSheet \/ SubmitSheet
  <2>1. FormInv' /\ CallsInv' /\ UNCHANGED backendVars /\ UNCHANGED cacheVars
    BY <1>0, <1>1, UserKeeps
  <2> QED
    BY <1>0, <2>1, SameBackend, SameCache DEF PageInv, backendVars
<1>2. ASSUME NEW c \in calls,
             \/ \E move \in validTransitions : BeginTransition(c, move)
             \/ \E v \in reviews : EndTransition(c, v)
             \/ RefuseTransition(c) \/ ServeEdit(c) \/ RefuseEdit(c)
      PROVE  PageInv' /\ [ReviewNext]_reviewVars
  <2>1. /\ [ReviewNext]_reviewVars
        /\ BackInv' /\ CallsInv' /\ UNCHANGED pageVars /\ UNCHANGED cacheVars
    BY <1>0, <1>2, ServerKeeps
  <2> QED
    BY <1>0, <2>1, FormStays, SameCache DEF PageInv, backendVars
<1>3. ASSUME NEW c \in calls, onSuccess(c)
      PROVE  PageInv' /\ [ReviewNext]_reviewVars
  <2>1. CacheInv'
    BY <1>0, <1>3, InvalidationComes DEF onSuccess
  <2>2. /\ UNCHANGED backendVars /\ UNCHANGED <<user, deductDefaults, worksDoneMap, basis>>
        /\ sheet' \in {sheet, NoSheet} /\ deductForm' \in {deductForm, deductDefaults}
        /\ \/ UNCHANGED <<worksDirty, typed>>
           \/ worksDirty' = FALSE /\ typed' = {}
    BY <1>3 DEF onSuccess
  <2>3. FormInv'
    BY <1>0, <2>2, FormsKeep DEF worksVars
  <2>4. c.state = "ok" /\ calls' = calls \ {c} /\ UNCHANGED reviews
    BY <1>3 DEF onSuccess, backendVars, reviewVars
  <2>5. CallsInv'
    BY <1>0, <2>2, <2>4, AnswersKeep
  <2> QED
    BY <1>0, <2>1, <2>2, <2>3, <2>5, SameBackend DEF PageInv, backendVars
<1>4. ASSUME NEW c \in calls, Refused(c) \/ NetworkFails(c), UNCHANGED <<backendVars, pageVars>>
      PROVE  PageInv' /\ [ReviewNext]_reviewVars
  <2>1. UNCHANGED <<user, reviews, cacheVars>>
    BY <1>4 DEF pageVars, backendVars, reviewVars, Refused, NetworkFails
  <2>2. CallsInv'
    BY <1>0, <1>4, <2>1, AnswersKeep, NetworkKeeps DEF Refused
  <2> QED
    BY <1>0, <1>4, <2>1, <2>2, SameBackend, SameCache, FormStays DEF PageInv, backendVars
<1>5. ASSUME NEW q \in Queries, UNCHANGED <<backendVars, pageVars>>,
             ServerReads(q, Stored(q)) \/ Arrive(q) \/ FetchFails(q) \/ Refetch(q)
      PROVE  PageInv' /\ [ReviewNext]_reviewVars
  <2>1. CacheInv'
    BY <1>0, <1>5, StoredIsStatement, FetchSteps
  <2>2. UNCHANGED <<user, reviews, calls>>
    BY <1>5 DEF pageVars, backendVars, reviewVars, ServerReads, Arrive, FetchFails, Refetch
  <2>3. CallsInv'
    BY <1>0, <2>2, ColleagueKeeps
  <2> QED
    BY <1>0, <1>5, <2>1, <2>3, SameBackend, FormStays DEF PageInv, backendVars
<1>6. CASE \/ ColleagueBegins \/ ColleagueEdits \/ ColleagueDropsLine
           \/ \E v \in reviews : ColleagueEnds(v)
  <2>1. /\ [ReviewNext]_reviewVars
        /\ BackInv' /\ CallsInv' /\ UNCHANGED pageVars /\ UNCHANGED cacheVars
    BY <1>0, <1>6, ColleaguesKeep
  <2> QED
    BY <1>0, <2>1, FormStays, SameCache DEF PageInv, backendVars
<1>7. CASE UNCHANGED allVars
  <2>1. UNCHANGED <<backendVars, cacheVars, pageVars>>
    BY <1>7 DEF allVars, clientVars, cacheVars
  <2>2. UNCHANGED <<user, calls, reviews>>
    BY <1>7 DEF allVars, clientVars, pageVars, backendVars, reviewVars
  <2>3. CallsInv'
    BY <1>0, <2>2, ColleagueKeeps
  <2> QED
    BY <1>0, <2>1, <2>3, SameBackend, SameCache, FormStays DEF PageInv, backendVars
<1> QED
  BY <1>1, <1>2, <1>3, <1>4, <1>5, <1>6, <1>7 DEF PageNext, Fetching, Fault

LEMMA PageInvariant == PageSpec => []PageInv
<1>1. PageInv /\ [PageNext]_allVars => PageInv'
  BY PageStep
<1> QED
  BY PageStarts, <1>1, PTL DEF PageSpec

-----------------------------------------------------------------------------
(***************************************************************************)
(* The page, its cache and the statement below keep their types, and each  *)
(* handler at work on a call of the page belongs to a call that is open.   *)
(***************************************************************************)
THEOREM PageTypeCorrect == PageSpec => []PageTypeOK
<1>1. PageInv => PageTypeOK
  <2> SUFFICES ASSUME PageInv PROVE PageTypeOK
    OBVIOUS
  <2>1. CacheInv /\ FormInv /\ CallsInv /\ BackInv
    BY DEF PageInv
  <2>2. CacheTypeOK
    BY <2>1 DEF CacheInv, CacheTypeOK
  <2>3. sheet.kind \in {"none"} \cup Mutations
    BY <2>1 DEF FormInv, SheetKinds, NoSheet
  <2>4. \A v \in reviews : v.request \in PageRequests =>
          \E c \in calls : c.request = v.request /\ c.state = "busy"
    BY <2>1 DEF CallsInv, WorksFor
  <2> QED
    BY <2>1, <2>2, <2>3, <2>4 DEF PageTypeOK, BackInv, FormInv
<1> QED
  BY <1>1, PageInvariant, PTL

(***************************************************************************)
(* Whatever is lost, late or joined: a change the page has been told of is *)
(* on the screen, or the fetch that will show it is under way, unless that *)
(* fetch failed or had been read before the change.                        *)
(***************************************************************************)
THEOREM OwnChangesCome == PageSpec => []OwnChangesComing
<1>1. PageInv => OwnChangesComing
  BY DEF PageInv, CacheInv
<1> QED
  BY <1>1, PageInvariant, PTL

-----------------------------------------------------------------------------
\* Who may reject at one stage at most has one move to rejected.
LEMMA OneRejection ==
  ASSUME Cardinality(RejectStages(user)) <= 1,
         NEW t \in RejectStages(user), NEW u \in RejectStages(user)
  PROVE  t = u
<1>1. IsFiniteSet(TRANSITIONS)
  <2>1. \A S, x : IsFiniteSet(S) => IsFiniteSet(S \cup {x})
    BY FS_AddElement
  <2>2. IsFiniteSet({})
    BY FS_EmptySet
  <2>3. TRANSITIONS = ((((((((({}
           \cup {Move("draft", "submitted", {"pm", "admin"})})
           \cup {Move("submitted", "finance_review", {"finance", "admin"})})
           \cup {Move("submitted", "rejected", {"finance", "admin"})})
           \cup {Move("finance_review", "pm_review", {"pm", "admin"})})
           \cup {Move("finance_review", "rejected", {"pm", "admin"})})
           \cup {Move("pm_review", "director_review", {"director", "admin"})})
           \cup {Move("pm_review", "rejected", {"director", "admin"})})
           \cup {Move("director_review", "approved", {"director", "admin"})})
           \cup {Move("director_review", "rejected", {"director", "admin"})})
    BY Zenon DEF TRANSITIONS
  <2> QED
    BY <2>1, <2>2, <2>3, ZenonT(30)
<1>2. IsFiniteSet(RejectStages(user))
  BY <1>1, FS_Subset DEF RejectStages
<1>3. Cardinality(RejectStages(user)) \in Nat /\ Cardinality(RejectStages(user)) # 0
  BY <1>2, FS_CardinalityType, FS_EmptySet
<1>4. \E x : RejectStages(user) = {x}
  BY <1>2, <1>3, FS_Singleton
<1> QED
  BY <1>4

\* Every target but rejected is reached from one status.
LEMMA OneSource ==
  ASSUME NEW t \in TRANSITIONS, NEW u \in TRANSITIONS, t.to = u.to, t.to # "rejected"
  PROVE  t.from = u.from
BY DEF TRANSITIONS, Move

\* The page and the server have the same table.
LEMMA SameTable == TRANSITIONS = validTransitions
BY DEF TRANSITIONS, validTransitions

(***************************************************************************)
(* The dialog keeps its target while the statement moves on; all the same  *)
(* the handler of a decision starts from the status its button was shown   *)
(* for, for every user who may reject at one stage at most.                *)
(***************************************************************************)
THEOREM DecisionsLandOnTheirStage == PageSpec => []DecisionLandsWhereShown
<1>1. ASSUME PageInv
      PROVE  DecisionLandsWhereShown
  <2> SUFFICES ASSUME NEW c \in calls, NEW v \in reviews, c.request = v.request,
                      Cardinality(RejectStages(user)) <= 1
               PROVE  v.move.from = c.args.shown
    BY DEF DecisionLandsWhereShown
  <2>1. CallsInv
    BY <1>1 DEF PageInv
  <2>2. v.request \in PageRequests
    BY <2>1 DEF CallsInv, CallOK
  <2>3. PICK d \in calls : WorksFor(v, d)
    BY <2>1, <2>2 DEF CallsInv
  <2>4. d = c
    BY <2>1, <2>3 DEF CallsInv, WorksFor
  <2>5. Offered(c.args.what, c.args.shown)
    BY <2>1, <2>3, <2>4 DEF CallsInv, CallOK, WorksFor
  <2>6. PICK t \in TRANSITIONS : /\ t.from = c.args.shown /\ t.to = c.args.what
                                 /\ RolesOf[user] \cap t.roles # {}
    BY <2>5 DEF Offered
  <2>7. /\ v.move \in TRANSITIONS /\ v.move.to = t.to
        /\ RolesOf[user] \cap v.move.roles # {}
    BY <2>3, <2>4, <2>6, SameTable DEF WorksFor, hasAnyRole
  <2>8. CASE t.to = "rejected"
    <3>1. t \in RejectStages(user) /\ v.move \in RejectStages(user)
      BY <2>6, <2>7, <2>8 DEF RejectStages
    <3>2. v.move = t
      BY <3>1, OneRejection
    <3> QED
      BY <2>6, <3>2
  <2>9. CASE t.to # "rejected"
    BY <2>6, <2>7, <2>9, OneSource
  <2> QED
    BY <2>8, <2>9
<1> QED
  BY <1>1, PageInvariant, PTL

-----------------------------------------------------------------------------
(***************************************************************************)
(* A save of the quantities changes the rows that were typed and no other, *)
(* when what the first typing started from is still stored: whatever was   *)
(* typed while an earlier save was out, and whenever that was answered.    *)
(* Of the others it loses those whose line item is gone, and only those.   *)
(***************************************************************************)
THEOREM UntypedRowsAreKept == PageSpec => UntypedQuantitiesKept
<1> DEFINE Kept ==
      \A c \in calls :
        (c.mutation = "worksDone" /\ c.args.basis = qty /\ (ServeEdit(c) \/ RefuseEdit(c))) =>
          \A l \in LineItems \ (c.args.typed \cup gone) :
            c.args.data[l] = qty[l] /\ qty'[l] = qty[l]
<1>1. ASSUME PageInv, NEW c \in calls, c.mutation = "worksDone", c.args.basis = qty,
             ServeEdit(c) \/ RefuseEdit(c),
             NEW l \in LineItems \ (c.args.typed \cup gone)
      PROVE  c.args.data[l] = qty[l] /\ qty'[l] = qty[l]
  <2>1. c.args.data[l] = qty[l]
    BY <1>1 DEF PageInv, CallsInv, CallOK, KeepsUntyped
  <2>2. CASE ServeEdit(c)
    <3>1. qty' = StoredOf(c.args.data)
      BY <1>1, <2>2 DEF ServeEdit, StoreWorks
    <3>2. qty'[l] = c.args.data[l]
      BY <1>1, <3>1 DEF StoredOf
    <3> QED
      BY <2>1, <3>2
  <2>3. CASE RefuseEdit(c)
    BY <2>1, <2>3 DEF RefuseEdit, backendVars, itemVars
  <2> QED
    BY <1>1, <2>2, <2>3
<1>2. PageInv => [Kept]_allVars
  BY <1>1
<1> QED
  BY <1>2, PageInvariant, PTL DEF UntypedQuantitiesKept

(***************************************************************************)
(* No deduction is overwritten with the values of another, although one    *)
(* form serves all of them and late answers reset it at any moment.        *)
(***************************************************************************)
THEOREM RowsOfDeductionsAreKept == PageSpec => DeductionsKeepTheirRow
<1>1. ASSUME PageInv, NEW c \in calls, c.mutation = "editDeduct"
      PROVE  DOMAIN c.args.data = {c.args.what}
  <2>1. SendsRow(c.mutation, c.args)
    BY <1>1 DEF PageInv, CallsInv, CallOK
  <2>2. PICK value : c.args.data = [f \in {c.args.what} |-> value]
    BY <1>1, <2>1 DEF SendsRow
  <2> QED
    BY <2>2
<1>2. PageInv =>
        [\A c \in calls :
           (c.mutation = "editDeduct" /\ ServeEdit(c)) =>
             DOMAIN c.args.data = {c.args.what}]_allVars
  BY <1>1
<1> QED
  BY <1>2, PageInvariant, PTL DEF DeductionsKeepTheirRow

-----------------------------------------------------------------------------
(***************************************************************************)
(* Every step of the page is a step of the review or leaves it alone: what *)
(* is decided on views that are old, and by colleagues meanwhile, skips no *)
(* reviewer.                                                               *)
(***************************************************************************)
THEOREM PageSkipsNoReview == PageSpec => []NoReviewSkipped
<1>1. PageInit => EarnedInv
  BY EntriesAreEarned DEF PageInit, EarnedInv, Earned, Consented
<1>2. PageInv /\ EarnedInv /\ [PageNext]_allVars => EarnedInv'
  BY PageStep, EarnedStep DEF PageInv, BackInv
<1>3. EarnedInv => NoReviewSkipped
  BY DEF EarnedInv, Earned, NoReviewSkipped
<1> QED
  BY <1>1, <1>2, <1>3, PageInvariant, PTL DEF PageSpec
=============================================================================
