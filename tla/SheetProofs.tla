----------------------------- MODULE SheetProofs -----------------------------
(***************************************************************************)
(* Theorems about the documents and the line items of contracts, and about *)
(* the sheet that creates contracts with both, for any number of calls,    *)
(* contracts, items, documents and rows.                                   *)
(***************************************************************************)
EXTENDS CreateContractSheet, SumFacts, FunctionTheorems, SequenceTheorems, TLAPS

(***************************************************************************)
(* I. The documents of contracts, ContractDocuments.                       *)
(***************************************************************************)
\* One step of the documents keeps their types.
LEMMA DocumentsTypeStep ==
  DocumentsTypeOK /\ [DocumentsNext]_<<answer, docVars>> => DocumentsTypeOK'
<1> SUFFICES ASSUME DocumentsTypeOK, [DocumentsNext]_<<answer, docVars>>
             PROVE  DocumentsTypeOK'
  OBVIOUS
<1> USE DEF DocumentsTypeOK, AnswersTypeOK, AnswerState, Answered
<1>0. UnusedKeys # {} => Fresh(UnusedKeys) \in Keys
  BY DEF Fresh, UnusedKeys
<1>1. ASSUME NEW r \in Requests, NEW c \in Contracts, NEW s \in Slots,
             BeginUpload(r, c, s)
      PROVE  DocumentsTypeOK'
  <2>1. \A st \in {"unlink", "count", "insert"}, k \in Keys :
          UploadAt(r, c, s, st, k) \in Filing
    BY DEF UploadAt, Filing
  <2>2. \A d \in InSlot(c, s) : d.key \in Keys
    BY DEF InSlot, LiveDocs, Doc
  <2> QED
    BY <1>0, <1>1, <2>1, <2>2 DEF BeginUpload
<1>2. ASSUME NEW r \in Requests, NEW d \in docs, BeginDelete(r, d)
      PROVE  DocumentsTypeOK'
  <2>1. d.key \in Keys
    BY DEF Doc
  <2>2. [request |-> r, op |-> "delete", stage |-> "unlink", key |-> d.key] \in Filing
    BY <2>1 DEF Filing
  <2> QED
    BY <1>2, <2>2 DEF BeginDelete
<1>3. ASSUME NEW r \in Requests, ServedElsewhere(r)
      PROVE  DocumentsTypeOK'
  BY <1>3 DEF ServedElsewhere, docVars
<1>4. ASSUME NEW f \in filing, FilingStep(f) \/ FailDrop(f)
      PROVE  DocumentsTypeOK'
  <2>1. f \in Filing /\ f.request \in Requests /\ f.key \in Keys
    BY DEF Filing
  <2>2. f.op = "upload" => /\ f.contract \in Contracts /\ f.slot \in Slots
                           /\ [f EXCEPT !.stage = "insert"] \in Filing
    BY <2>1 DEF Filing
  <2>3. ASSUME UnusedKeys # {}, f.op = "upload"
        PROVE  UploadAt(f.request, f.contract, f.slot, "count", Fresh(UnusedKeys)) \in Filing
    BY <1>0, <2>1, <2>2, <2>3 DEF UploadAt, Filing
  <2>4. { IF d.key = f.key THEN [d EXCEPT !.deleted = TRUE] ELSE d : d \in docs }
          \in SUBSET Doc
    BY DEF Doc
  <2>5. CASE DropReplaced(f)
    BY <2>3, <2>4, <2>5 DEF DropReplaced
  <2>6. CASE AcceptUpload(f)
    BY <2>1, <2>2, <2>6 DEF AcceptUpload
  <2>7. CASE RefuseUpload(f) \/ FailInsert(f)
    BY <2>1, <2>7 DEF RefuseUpload, FailInsert
  <2>8. CASE InsertDocument(f)
    <3>1. [key |-> f.key, contract |-> f.contract, slot |-> f.slot, deleted |-> FALSE] \in Doc
      BY <2>1, <2>2, <2>8 DEF InsertDocument, Doc
    <3> QED
      BY <2>1, <2>8, <3>1 DEF InsertDocument
  <2>9. CASE DropDeleted(f)
    BY <2>1, <2>4, <2>9 DEF DropDeleted
  <2>10. CASE FailDrop(f)
    BY <2>1, <2>3, <2>10, MaxFaultsIsNat DEF FailDrop
  <2> QED
    BY <1>4, <2>5, <2>6, <2>7, <2>8, <2>9, <2>10 DEF FilingStep
<1>5. CASE CrashFiling
  BY <1>5, MaxFaultsIsNat DEF CrashFiling
<1>6. CASE UNCHANGED <<answer, docVars>>
  BY <1>6 DEF docVars
<1> QED
  BY <1>1, <1>2, <1>3, <1>4, <1>5, <1>6 DEF DocumentsNext

(***************************************************************************)
(* Rows, files, handlers and answers keep their types.                     *)
(***************************************************************************)
THEOREM DocumentsTypeCorrect == DocumentsSpec => []DocumentsTypeOK
<1>1. AnswersInit /\ DocumentsInit => DocumentsTypeOK
  BY MaxFaultsIsNat
  DEF AnswersInit, DocumentsInit, DocumentsTypeOK, AnswersTypeOK, AnswerState
<1> QED
  BY <1>1, DocumentsTypeStep, PTL DEF DocumentsSpec

-----------------------------------------------------------------------------
(***************************************************************************)
(* The handlers.  Every call has one at most, and only while it is open.   *)
(***************************************************************************)
OneHandlerPerCall ==
  /\ \A f, g \in filing : f.request = g.request => f = g
  /\ \A f \in filing : answer[f.request] = "busy"

LEMMA OneHandlerStep ==
  /\ DocumentsTypeOK /\ OneHandlerPerCall
  /\ [DocumentsNext]_<<answer, docVars>>
  => OneHandlerPerCall'
<1> SUFFICES ASSUME DocumentsTypeOK, OneHandlerPerCall,
                    [DocumentsNext]_<<answer, docVars>>
             PROVE  OneHandlerPerCall'
  OBVIOUS
<1>0. /\ answer \in [Requests -> AnswerState]
      /\ \A f \in filing : f.request \in Requests
  BY DEF DocumentsTypeOK, AnswersTypeOK, Filing
<1> USE DEF OneHandlerPerCall, Answered
<1>1. ASSUME NEW r \in Requests, NEW c \in Contracts, NEW s \in Slots,
             BeginUpload(r, c, s)
      PROVE  OneHandlerPerCall'
  <2>1. PICK f : f.request = r /\ filing' = filing \cup {f}
    BY <1>1 DEF BeginUpload, UploadAt
  <2>2. answer[r] = "free" /\ answer' = [answer EXCEPT ![r] = "busy"]
    BY <1>1 DEF BeginUpload
  <2> QED
    BY <1>0, <2>1, <2>2
<1>2. ASSUME NEW r \in Requests, NEW d \in docs, BeginDelete(r, d)
      PROVE  OneHandlerPerCall'
  BY <1>0, <1>2 DEF BeginDelete
<1>3. ASSUME NEW r \in Requests, ServedElsewhere(r)
      PROVE  OneHandlerPerCall'
  BY <1>0, <1>3 DEF ServedElsewhere, docVars
<1>4. ASSUME NEW f \in filing, FilingStep(f) \/ FailDrop(f)
      PROVE  OneHandlerPerCall'
  <2>1. \/ filing' = filing \ {f} /\ (\A g \in Requests \ {f.request} : answer'[g] = answer[g])
        \/ /\ UNCHANGED answer
           /\ \E g : g.request = f.request /\ filing' = (filing \ {f}) \cup {g}
    BY <1>0, <1>4
    DEF FilingStep, FailDrop, DropReplaced, AcceptUpload, RefuseUpload,
        InsertDocument, FailInsert, DropDeleted, UploadAt, Filing, DocumentsTypeOK
  <2> QED
    BY <1>0, <2>1
<1>5. CASE CrashFiling
  BY <1>5 DEF CrashFiling
<1>6. CASE UNCHANGED <<answer, docVars>>
  BY <1>6 DEF docVars
<1> QED
  BY <1>1, <1>2, <1>3, <1>4, <1>5, <1>6 DEF DocumentsNext

LEMMA OneHandlerHolds == DocumentsSpec => []OneHandlerPerCall
<1>1. AnswersInit /\ DocumentsInit => OneHandlerPerCall
  BY DEF DocumentsInit, OneHandlerPerCall
<1> QED
  BY <1>1, OneHandlerStep, DocumentsTypeCorrect, PTL DEF DocumentsSpec

\* So there are never more handlers than calls.
LEMMA FewHandlers ==
  ASSUME DocumentsTypeOK, OneHandlerPerCall
  PROVE  /\ IsFiniteSet(filing)
         /\ Cardinality(filing) \in Nat
         /\ Cardinality(filing) <= Cardinality(Requests)
<1> DEFINE callOf == [f \in filing |-> f.request]
<1>1. callOf \in [filing -> Requests]
  BY DEF DocumentsTypeOK, Filing
<1>2. callOf \in Injection(filing, Requests)
  BY <1>1, Fun_IsInj DEF OneHandlerPerCall
<1> HIDE DEF callOf
<1> QED
  BY <1>2, RequestsFinite, FS_Injection, FS_CardinalityType

\* The number of calls is a positive natural number.
LEMMA CallsCounted == Cardinality(Requests) \in Nat \ {0}
  BY RequestsFinite, FS_CardinalityType, FS_EmptySet

-----------------------------------------------------------------------------
(***************************************************************************)
(* The number of documents.  A handler that found room was not inserting   *)
(* then, so the others that are, and the documents it counted, are within  *)
(* the limit plus the other calls.                                         *)
(***************************************************************************)
RowsFinite == IsFiniteSet(docs)

\* Marking a row as deleted makes the live documents no more than they were.
LEMMA DroppingShrinks ==
  ASSUME DocumentsTypeOK, RowsFinite, NEW k,
         docs' = { IF d.key = k THEN [d EXCEPT !.deleted = TRUE] ELSE d : d \in docs }
  PROVE  /\ RowsFinite'
         /\ \A c : LiveDocs(c)' \subseteq LiveDocs(c)
<1> DEFINE dropped == [d \in docs |-> IF d.key = k THEN [d EXCEPT !.deleted = TRUE] ELSE d]
<1>1. dropped \in Surjection(docs, docs')
  BY Fun_IsSurj
<1>2. IsFiniteSet(docs')
  BY <1>1, FS_Surjection DEF RowsFinite
<1>3. \A c : LiveDocs(c)' \subseteq LiveDocs(c)
  <2> SUFFICES ASSUME NEW c, NEW e \in LiveDocs(c)'
               PROVE  e \in LiveDocs(c)
    OBVIOUS
  <2>1. PICK d \in docs : e = IF d.key = k THEN [d EXCEPT !.deleted = TRUE] ELSE d
    BY DEF LiveDocs
  <2>2. d \in Doc /\ ~e.deleted
    BY DEF DocumentsTypeOK, LiveDocs
  <2>3. e = d
    BY <2>1, <2>2 DEF Doc
  <2> QED
    BY <2>3 DEF LiveDocs
<1> QED
  BY <1>2, <1>3 DEF RowsFinite

LEMMA RowsStayFinite == DocumentsSpec => []RowsFinite
<1>1. AnswersInit /\ DocumentsInit => RowsFinite
  BY FS_EmptySet DEF DocumentsInit, RowsFinite
<1>2. DocumentsTypeOK /\ RowsFinite /\ [DocumentsNext]_<<answer, docVars>> => RowsFinite'
  <2> SUFFICES ASSUME DocumentsTypeOK, RowsFinite, [DocumentsNext]_<<answer, docVars>>
               PROVE  RowsFinite'
    OBVIOUS
  <2>1. ASSUME NEW f \in filing, DropReplaced(f) \/ DropDeleted(f)
        PROVE  RowsFinite'
    BY <2>1, DroppingShrinks DEF DropReplaced, DropDeleted
  <2>2. ASSUME NEW f \in filing, InsertDocument(f)
        PROVE  RowsFinite'
    BY <2>2, FS_AddElement DEF InsertDocument, RowsFinite
  <2>3. CASE UNCHANGED docs
    BY <2>3 DEF RowsFinite
  <2> QED
    BY <2>1, <2>2, <2>3
    DEF DocumentsNext, BeginUpload, BeginDelete, ServedElsewhere, FilingStep, FailDrop,
        AcceptUpload, RefuseUpload, FailInsert, CrashFiling, docVars
<1> QED
  BY <1>1, <1>2, DocumentsTypeCorrect, PTL DEF DocumentsSpec

\* What the sets that are counted are worth as numbers.
LEMMA Counted ==
  ASSUME DocumentsTypeOK, OneHandlerPerCall, RowsFinite, NEW c
  PROVE  /\ IsFiniteSet(LiveDocs(c)) /\ Cardinality(LiveDocs(c)) \in Nat
         /\ IsFiniteSet(Inserting(c)) /\ Cardinality(Inserting(c)) \in Nat
         /\ Cardinality(Inserting(c)) <= Cardinality(Requests)
<1>1. LiveDocs(c) \in SUBSET docs /\ Inserting(c) \in SUBSET filing
  BY DEF LiveDocs, Inserting
<1>2. IsFiniteSet(LiveDocs(c)) /\ Cardinality(LiveDocs(c)) \in Nat
  BY <1>1, FS_Subset, FS_CardinalityType DEF RowsFinite
<1>3. /\ IsFiniteSet(Inserting(c)) /\ Cardinality(Inserting(c)) \in Nat
      /\ Cardinality(Inserting(c)) <= Cardinality(filing)
  BY <1>1, FewHandlers, FS_Subset, FS_CardinalityType
<1> QED
  BY <1>2, <1>3, FewHandlers, CallsCounted

(***************************************************************************)
(* No contract ever has more live documents than the limit and one for     *)
(* each other call that can be open, whatever uploads, deletions, failures *)
(* and crashes overlap.                                                    *)
(***************************************************************************)
THEOREM DocumentsWithinBound == DocumentsSpec => []DocumentsBounded
<1>1. AnswersInit /\ DocumentsInit => DocumentsBounded
  <2> SUFFICES ASSUME DocumentsInit, NEW c \in Contracts
               PROVE  Cardinality(LiveDocs(c)) + Cardinality(Inserting(c))
                        <= MaxDocuments + Cardinality(Requests) - 1
    BY DEF DocumentsBounded
  <2>1. LiveDocs(c) = {} /\ Inserting(c) = {}
    BY DEF DocumentsInit, LiveDocs, Inserting
  <2> QED
    BY <2>1, FS_EmptySet, CallsCounted, MaxDocumentsPositive
<1>2. /\ DocumentsTypeOK /\ OneHandlerPerCall /\ RowsFinite
      /\ DocumentsBounded /\ [DocumentsNext]_<<answer, docVars>>
      => DocumentsBounded'
  <2> SUFFICES ASSUME DocumentsTypeOK, OneHandlerPerCall, RowsFinite,
                      DocumentsBounded, [DocumentsNext]_<<answer, docVars>>,
                      NEW c \in Contracts
               PROVE  Cardinality(LiveDocs(c)') + Cardinality(Inserting(c)')
                        <= MaxDocuments + Cardinality(Requests) - 1
    BY DEF DocumentsBounded
  <2>0. /\ Cardinality(LiveDocs(c)) \in Nat /\ Cardinality(Inserting(c)) \in Nat
        /\ Cardinality(Requests) \in Nat \ {0} /\ MaxDocuments \in Nat \ {0}
        /\ Cardinality(LiveDocs(c)) + Cardinality(Inserting(c))
             <= MaxDocuments + Cardinality(Requests) - 1
    BY Counted, CallsCounted, MaxDocumentsPositive DEF DocumentsBounded
  <2>1. ASSUME LiveDocs(c)' \subseteq LiveDocs(c), Inserting(c)' \subseteq Inserting(c)
        PROVE  Cardinality(LiveDocs(c)') + Cardinality(Inserting(c)')
                 <= MaxDocuments + Cardinality(Requests) - 1
    <3>1. /\ Cardinality(LiveDocs(c)') \in Nat
          /\ Cardinality(LiveDocs(c)') <= Cardinality(LiveDocs(c))
      BY <2>1, Counted, FS_Subset, FS_CardinalityType
    <3>2. /\ Cardinality(Inserting(c)') \in Nat
          /\ Cardinality(Inserting(c)') <= Cardinality(Inserting(c))
      BY <2>1, Counted, FS_Subset, FS_CardinalityType
    <3> QED
      BY <2>0, <3>1, <3>2
  <2>2. ASSUME NEW f \in filing, AcceptUpload(f)
        PROVE  Cardinality(LiveDocs(c)') + Cardinality(Inserting(c)')
                 <= MaxDocuments + Cardinality(Requests) - 1
    <3>1. LiveDocs(c)' = LiveDocs(c)
      BY <2>2 DEF AcceptUpload, LiveDocs
    <3>2. CASE f.contract = c
      <4>1. Cardinality(LiveDocs(c)) < MaxDocuments
        BY <2>2, <3>2 DEF AcceptUpload, HasRoom
      <4>2. PICK g : filing' = (filing \ {f}) \cup {g}
        BY <2>2 DEF AcceptUpload
      <4>3. /\ IsFiniteSet(filing \ {f})
            /\ Cardinality(filing \ {f}) = Cardinality(filing) - 1
        BY FewHandlers, FS_RemoveElement
      <4>4. /\ IsFiniteSet(filing')
            /\ Cardinality(filing') <= Cardinality(Requests)
        <5>1. /\ IsFiniteSet(filing')
              /\ \/ Cardinality(filing') = Cardinality(filing \ {f})
                 \/ Cardinality(filing') = Cardinality(filing \ {f}) + 1
          BY <4>2, <4>3, FS_AddElement
        <5> QED
          BY <4>3, <5>1, FewHandlers, CallsCounted
      <4>5. Inserting(c)' \in SUBSET filing'
        BY DEF Inserting
      <4>6. /\ Cardinality(Inserting(c)') \in Nat
            /\ Cardinality(Inserting(c)') <= Cardinality(Requests)
        BY <4>4, <4>5, CallsCounted, FS_Subset, FS_CardinalityType
      <4> QED
        BY <2>0, <3>1, <4>1, <4>6
    <3>3. CASE f.contract # c
      <4>1. Inserting(c)' \subseteq Inserting(c)
        BY <2>2, <3>3 DEF AcceptUpload, Inserting, DocumentsTypeOK, Filing
      <4> QED
        BY <2>1, <3>1, <4>1
    <3> QED
      BY <3>2, <3>3
  <2>3. ASSUME NEW f \in filing, InsertDocument(f)
        PROVE  Cardinality(LiveDocs(c)') + Cardinality(Inserting(c)')
                 <= MaxDocuments + Cardinality(Requests) - 1
    <3>1. PICK d : d.contract = f.contract /\ docs' = docs \cup {d}
      BY <2>3 DEF InsertDocument
    <3>2. Inserting(c)' = Inserting(c) \ {f}
      BY <2>3 DEF InsertDocument, Inserting
    <3>3. CASE f.contract = c
      <4>1. f \in Inserting(c)
        BY <2>3, <3>3 DEF InsertDocument, Inserting
      <4>2. Cardinality(Inserting(c)') = Cardinality(Inserting(c)) - 1
        BY <3>2, <4>1, Counted, FS_RemoveElement
      <4>3. LiveDocs(c)' \in SUBSET (LiveDocs(c) \cup {d})
        BY <3>1 DEF LiveDocs
      <4>4. /\ IsFiniteSet(LiveDocs(c) \cup {d})
            /\ \/ Cardinality(LiveDocs(c) \cup {d}) = Cardinality(LiveDocs(c))
               \/ Cardinality(LiveDocs(c) \cup {d}) = Cardinality(LiveDocs(c)) + 1
        BY Counted, FS_AddElement
      <4>5. /\ Cardinality(LiveDocs(c)') \in Nat
            /\ Cardinality(LiveDocs(c)') <= Cardinality(LiveDocs(c)) + 1
        BY <2>0, <4>3, <4>4, FS_Subset, FS_CardinalityType
      <4> QED
        BY <2>0, <4>2, <4>5
    <3>4. CASE f.contract # c
      <4>1. LiveDocs(c)' \subseteq LiveDocs(c)
        BY <3>1, <3>4 DEF LiveDocs
      <4> QED
        BY <2>1, <3>2, <4>1
    <3> QED
      BY <3>3, <3>4
  <2>4. ASSUME NEW f \in filing, DropReplaced(f) \/ DropDeleted(f)
        PROVE  Cardinality(LiveDocs(c)') + Cardinality(Inserting(c)')
                 <= MaxDocuments + Cardinality(Requests) - 1
    <3>1. LiveDocs(c)' \subseteq LiveDocs(c)
      BY <2>4, DroppingShrinks DEF DropReplaced, DropDeleted
    <3>2. Inserting(c)' \subseteq Inserting(c)
      BY <2>4 DEF DropReplaced, DropDeleted, Inserting, UploadAt
    <3> QED
      BY <2>1, <3>1, <3>2
  <2>5. ASSUME UNCHANGED docs, \A g \in filing' : g \in filing \/ g.stage # "insert"
        PROVE  Cardinality(LiveDocs(c)') + Cardinality(Inserting(c)')
                 <= MaxDocuments + Cardinality(Requests) - 1
    <3>1. LiveDocs(c)' \subseteq LiveDocs(c) /\ Inserting(c)' \subseteq Inserting(c)
      BY <2>5 DEF LiveDocs, Inserting
    <3> QED
      BY <2>1, <3>1
  <2>6. ASSUME NEW f \in filing, RefuseUpload(f) \/ FailInsert(f) \/ FailDrop(f)
        PROVE  Cardinality(LiveDocs(c)') + Cardinality(Inserting(c)')
                 <= MaxDocuments + Cardinality(Requests) - 1
    BY <2>5, <2>6 DEF RefuseUpload, FailInsert, FailDrop, UploadAt
  <2>7. CASE \/ CrashFiling \/ (\E r \in Requests : ServedElsewhere(r))
             \/ UNCHANGED <<answer, docVars>>
    BY <2>5, <2>7 DEF CrashFiling, ServedElsewhere, docVars
  <2>8. ASSUME NEW r \in Requests, NEW k \in Contracts, NEW s \in Slots,
               BeginUpload(r, k, s)
        PROVE  Cardinality(LiveDocs(c)') + Cardinality(Inserting(c)')
                 <= MaxDocuments + Cardinality(Requests) - 1
    BY <2>5, <2>8 DEF BeginUpload, UploadAt
  <2>9. ASSUME NEW r \in Requests, NEW d \in docs, BeginDelete(r, d)
         PROVE  Cardinality(LiveDocs(c)') + Cardinality(Inserting(c)')
                  <= MaxDocuments + Cardinality(Requests) - 1
    BY <2>5, <2>9 DEF BeginDelete
  <2> QED
    BY <2>2, <2>3, <2>4, <2>6, <2>7, <2>8, <2>9 DEF DocumentsNext, FilingStep
<1> QED
  BY <1>1, <1>2, DocumentsTypeCorrect, OneHandlerHolds, RowsStayFinite, PTL DEF DocumentsSpec

-----------------------------------------------------------------------------
(***************************************************************************)
(* The keys.  A handler between two steps holds a key nobody else will     *)
(* write: the key of a row whose file it has removed, or a fresh key that  *)
(* no row and no other upload has.                                         *)
(***************************************************************************)
RowKeys == { d.key : d \in docs }

KeysInv ==
  /\ \A f \in filing : f.stage = "unlink" => f.key \in RowKeys \ disk
  /\ \A f \in filing : f.stage # "unlink" => f.key \notin RowKeys
  /\ \A f \in filing : f.stage = "insert" => f.key \in disk
  /\ \A f, g \in filing :
       (f.stage # "unlink" /\ g.stage # "unlink" /\ f.key = g.key) => f = g

\* A fresh key is on no row, on no file and in no handler.
LEMMA FreshKeyIsNew ==
  ASSUME UnusedKeys # {}
  PROVE  /\ Fresh(UnusedKeys) \in Keys \ (disk \cup RowKeys)
         /\ \A f \in filing : f.key # Fresh(UnusedKeys)
<1>1. Fresh(UnusedKeys) \in UnusedKeys
  BY DEF Fresh
<1> QED
  BY <1>1 DEF UnusedKeys, RowKeys

\* Marking rows as deleted leaves the keys of all rows as they are.
LEMMA DroppingKeepsKeys ==
  ASSUME DocumentsTypeOK, NEW k,
         docs' = { IF d.key = k THEN [d EXCEPT !.deleted = TRUE] ELSE d : d \in docs }
  PROVE  RowKeys' = RowKeys
<1>1. \A d \in docs : (IF d.key = k THEN [d EXCEPT !.deleted = TRUE] ELSE d).key = d.key
  BY DEF DocumentsTypeOK, Doc
<1>2. RowKeys' = { e.key : e \in docs' }
  BY DEF RowKeys
<1> QED
  BY <1>1, <1>2 DEF RowKeys

LEMMA KeysHold == DocumentsSpec => []KeysInv
<1>1. AnswersInit /\ DocumentsInit => KeysInv
  BY DEF DocumentsInit, KeysInv
<1>2. DocumentsTypeOK /\ KeysInv /\ [DocumentsNext]_<<answer, docVars>> => KeysInv'
  <2> SUFFICES ASSUME DocumentsTypeOK, KeysInv, [DocumentsNext]_<<answer, docVars>>
               PROVE  KeysInv'
    OBVIOUS
  <2>1. ASSUME NEW r \in Requests, NEW c \in Contracts, NEW s \in Slots,
               BeginUpload(r, c, s)
        PROVE  KeysInv'
    <3>1. RowKeys' = RowKeys
      BY <2>1 DEF BeginUpload, RowKeys
    <3>2. CASE InSlot(c, s) = {}
      <4> DEFINE g == UploadAt(r, c, s, "count", Fresh(UnusedKeys))
      <4>1. /\ filing' = filing \cup {g} /\ disk' = disk
            /\ g.stage = "count" /\ g.key = Fresh(UnusedKeys)
        BY <2>1, <3>2 DEF BeginUpload, UploadAt
      <4>2. UnusedKeys # {}
        BY <2>1 DEF BeginUpload
      <4> HIDE DEF g
      <4> QED
        BY <3>1, <4>1, <4>2, FreshKeyIsNew DEF KeysInv
    <3>3. CASE InSlot(c, s) # {}
      <4>0. PICK d \in InSlot(c, s) :
              /\ filing' = filing \cup {UploadAt(r, c, s, "unlink", d.key)}
              /\ disk' = disk \ {d.key}
        BY <2>1, <3>3 DEF BeginUpload
      <4> DEFINE g == UploadAt(r, c, s, "unlink", d.key)
      <4>1. /\ filing' = filing \cup {g} /\ disk' = disk \ {d.key}
            /\ g.stage = "unlink" /\ g.key = d.key
        BY <4>0 DEF UploadAt
      <4> HIDE DEF g
      <4>2. d.key \in RowKeys
        BY DEF InSlot, LiveDocs, RowKeys
      <4> QED
        BY <3>1, <4>1, <4>2 DEF KeysInv
    <3> QED
      BY <3>2, <3>3
  <2>2. ASSUME NEW r \in Requests, NEW d \in docs, BeginDelete(r, d)
        PROVE  KeysInv'
    <3>1. RowKeys' = RowKeys /\ d.key \in RowKeys
      BY <2>2 DEF BeginDelete, RowKeys
    <3> DEFINE g == [request |-> r, op |-> "delete", stage |-> "unlink", key |-> d.key]
    <3>2. /\ filing' = filing \cup {g} /\ disk' = disk \ {d.key}
          /\ g.stage = "unlink" /\ g.key = d.key
      BY <2>2 DEF BeginDelete
    <3> HIDE DEF g
    <3> QED
      BY <3>1, <3>2 DEF KeysInv
  <2>3. ASSUME NEW f \in filing, DropReplaced(f) \/ FailDrop(f)
        PROVE  KeysInv'
    <3>1. RowKeys' = RowKeys /\ disk' = disk
      BY <2>3, DroppingKeepsKeys DEF DropReplaced, FailDrop, RowKeys
    <3>2. CASE filing' = filing \ {f}
      BY <3>1, <3>2 DEF KeysInv
    <3>3. CASE filing' # filing \ {f}
      <4>1. PICK g : /\ filing' = (filing \ {f}) \cup {g}
                     /\ g.stage = "count" /\ g.key = Fresh(UnusedKeys)
        BY <2>3, <3>3 DEF DropReplaced, FailDrop, UploadAt
      <4>2. UnusedKeys # {}
        BY <2>3, <3>3 DEF DropReplaced, FailDrop
      <4> QED
        BY <3>1, <4>1, <4>2, FreshKeyIsNew DEF KeysInv
    <3> QED
      BY <3>2, <3>3
  <2>4. ASSUME NEW f \in filing, AcceptUpload(f)
        PROVE  KeysInv'
    <3>1. /\ RowKeys' = RowKeys /\ disk' = disk \cup {f.key}
          /\ f.stage = "count"
      BY <2>4 DEF AcceptUpload, RowKeys
    <3> DEFINE g == [f EXCEPT !.stage = "insert"]
    <3>2. filing' = (filing \ {f}) \cup {g}
      BY <2>4 DEF AcceptUpload
    <3>3. g.stage = "insert" /\ g.key = f.key
      BY DEF DocumentsTypeOK, Filing
    <3> HIDE DEF g
    <3> QED
      BY <3>1, <3>2, <3>3 DEF KeysInv
  <2>5. ASSUME NEW f \in filing, InsertDocument(f)
        PROVE  KeysInv'
    <3> DEFINE e == [key |-> f.key, contract |-> f.contract, slot |-> f.slot,
                     deleted |-> FALSE]
    <3>1. /\ docs' = docs \cup {e} /\ e.key = f.key /\ disk' = disk
          /\ filing' = filing \ {f} /\ f.stage = "insert"
      BY <2>5 DEF InsertDocument
    <3> HIDE DEF e
    <3>2. RowKeys' = RowKeys \cup {f.key}
      BY <3>1 DEF RowKeys
    <3> QED
      BY <3>1, <3>2 DEF KeysInv
  <2>6. ASSUME NEW f \in filing, FailInsert(f)
        PROVE  KeysInv'
    <3>1. /\ RowKeys' = RowKeys /\ disk' = disk \ {f.key}
          /\ filing' = filing \ {f} /\ f.stage = "insert"
      BY <2>6 DEF FailInsert, RowKeys
    <3> QED
      BY <3>1 DEF KeysInv
  <2>7. ASSUME NEW f \in filing, RefuseUpload(f) \/ DropDeleted(f)
        PROVE  KeysInv'
    <3>1. RowKeys' = RowKeys /\ disk' = disk /\ filing' = filing \ {f}
      BY <2>7, DroppingKeepsKeys DEF RefuseUpload, DropDeleted, RowKeys
    <3> QED
      BY <3>1 DEF KeysInv
  <2>8. CASE CrashFiling
    BY <2>8 DEF CrashFiling, KeysInv
  <2>9. CASE (\E r \in Requests : ServedElsewhere(r)) \/ UNCHANGED <<answer, docVars>>
    BY <2>9 DEF ServedElsewhere, docVars, KeysInv, RowKeys
  <2> QED
    BY <2>1, <2>2, <2>3, <2>4, <2>5, <2>6, <2>7, <2>8, <2>9 DEF DocumentsNext, FilingStep
<1> QED
  BY <1>1, <1>2, DocumentsTypeCorrect, PTL DEF DocumentsSpec

-----------------------------------------------------------------------------
(***************************************************************************)
(* Torn keys.  A step that is not a fault tears nothing: the key it leaves *)
(* changed on one side is held by its handler, and when the handler lets   *)
(* go of a key the two sides agree on it.                                  *)
(***************************************************************************)
Torn == Mismatched \ HalfDone

LiveKeys == { d.key : d \in { e \in docs : ~e.deleted } }

\* A key is mismatched when it is in one of the two sets.
LEMMA MismatchedBySets ==
  /\ Mismatched = { k \in Keys : ~(k \in disk <=> k \in LiveKeys) }
  /\ Mismatched' = { k \in Keys : ~(k \in disk' <=> k \in LiveKeys') }
<1>1. \A k : k \in LiveKeys <=> \E d \in docs : d.key = k /\ ~d.deleted
  BY DEF LiveKeys
<1>2. \A k : k \in LiveKeys' <=> \E d \in docs' : d.key = k /\ ~d.deleted
  BY DEF LiveKeys
<1> QED
  BY <1>1, <1>2 DEF Mismatched

\* Marking the rows of a key as deleted takes that key out of the live ones.
LEMMA DroppingLiveKeys ==
  ASSUME DocumentsTypeOK, NEW k,
         docs' = { IF d.key = k THEN [d EXCEPT !.deleted = TRUE] ELSE d : d \in docs }
  PROVE  LiveKeys' = LiveKeys \ {k}
<1> DEFINE drop(d) == IF d.key = k THEN [d EXCEPT !.deleted = TRUE] ELSE d
<1>1. \A d \in docs : /\ drop(d).key = d.key
                      /\ ~drop(d).deleted <=> (~d.deleted /\ d.key # k)
  BY DEF DocumentsTypeOK, Doc
<1>2. docs' = { drop(d) : d \in docs }
  OBVIOUS
<1> HIDE DEF drop
<1>3. ASSUME NEW x \in LiveKeys'
      PROVE  x \in LiveKeys \ {k}
  <2>1. PICK e \in docs' : x = e.key /\ ~e.deleted
    BY DEF LiveKeys
  <2>2. PICK d \in docs : e = drop(d)
    BY <1>2
  <2> QED
    BY <1>1, <2>1, <2>2 DEF LiveKeys
<1>4. ASSUME NEW x \in LiveKeys \ {k}
      PROVE  x \in LiveKeys'
  <2>1. PICK d \in docs : x = d.key /\ ~d.deleted
    BY DEF LiveKeys
  <2>2. drop(d) \in docs' /\ ~drop(d).deleted /\ drop(d).key = x
    BY <1>1, <1>2, <2>1
  <2> QED
    BY <2>2 DEF LiveKeys
<1> QED
  BY <1>3, <1>4

\* A step that is not a fault.
LEMMA NothingTorn ==
  ASSUME DocumentsTypeOK, KeysInv,
         \/ \E r \in Requests :
              \/ \E c \in Contracts, s \in Slots : BeginUpload(r, c, s)
              \/ \E d \in docs : BeginDelete(r, d)
              \/ ServedElsewhere(r)
         \/ \E f \in filing : FilingStep(f)
         \/ UNCHANGED <<answer, docVars>>
  PROVE  Torn' \subseteq Torn
<1>0. RowKeys \in SUBSET Keys /\ LiveKeys \subseteq RowKeys
  BY DEF DocumentsTypeOK, Doc, RowKeys, LiveKeys
<1> USE MismatchedBySets DEF Torn
<1>1. ASSUME NEW r \in Requests, NEW c \in Contracts, NEW s \in Slots,
             BeginUpload(r, c, s)
      PROVE  Torn' \subseteq Torn
  <2>1. LiveKeys' = LiveKeys
    BY <1>1 DEF BeginUpload, LiveKeys
  <2>2. CASE InSlot(c, s) = {}
    <3> DEFINE g == UploadAt(r, c, s, "count", Fresh(UnusedKeys))
    <3>1. filing' = filing \cup {g} /\ disk' = disk /\ g.stage = "count"
      BY <1>1, <2>2 DEF BeginUpload, UploadAt
    <3> HIDE DEF g
    <3>2. HalfDone \subseteq HalfDone'
      BY <3>1 DEF HalfDone
    <3> QED
      BY <2>1, <3>1, <3>2
  <2>3. CASE InSlot(c, s) # {}
    <3>1. PICK d \in InSlot(c, s) :
            /\ filing' = filing \cup {UploadAt(r, c, s, "unlink", d.key)}
            /\ disk' = disk \ {d.key}
      BY <1>1, <2>3 DEF BeginUpload
    <3> DEFINE g == UploadAt(r, c, s, "unlink", d.key)
    <3>2. filing' = filing \cup {g} /\ g.stage = "unlink" /\ g.key = d.key
      BY <3>1 DEF UploadAt
    <3> HIDE DEF g
    <3>3. HalfDone \cup {d.key} \subseteq HalfDone'
      BY <3>2 DEF HalfDone
    <3> QED
      BY <2>1, <3>1, <3>3
  <2> QED
    BY <2>2, <2>3
<1>2. ASSUME NEW r \in Requests, NEW d \in docs, BeginDelete(r, d)
      PROVE  Torn' \subseteq Torn
  <2> DEFINE g == [request |-> r, op |-> "delete", stage |-> "unlink", key |-> d.key]
  <2>1. /\ filing' = filing \cup {g} /\ g.stage = "unlink" /\ g.key = d.key
        /\ disk' = disk \ {d.key} /\ docs' = docs
    BY <1>2 DEF BeginDelete
  <2> HIDE DEF g
  <2>2. LiveKeys' = LiveKeys /\ HalfDone \cup {d.key} \subseteq HalfDone'
    BY <2>1 DEF LiveKeys, HalfDone
  <2> QED
    BY <2>1, <2>2
<1>3. ASSUME NEW f \in filing, DropReplaced(f) \/ DropDeleted(f)
      PROVE  Torn' \subseteq Torn
  <2>1. LiveKeys' = LiveKeys \ {f.key} /\ disk' = disk
    BY <1>3, DroppingLiveKeys DEF DropReplaced, DropDeleted
  <2>2. f.stage = "unlink" /\ f.key \notin disk
    BY <1>3 DEF DropReplaced, DropDeleted, KeysInv, DocumentsTypeOK, Filing
  <2>3. filing \ {f} \subseteq filing'
    BY <1>3 DEF DropReplaced, DropDeleted
  <2>4. HalfDone \ {f.key} \subseteq HalfDone'
    BY <2>3 DEF HalfDone
  <2> QED
    BY <2>1, <2>2, <2>4
<1>4. ASSUME NEW f \in filing, AcceptUpload(f)
      PROVE  Torn' \subseteq Torn
  <2> DEFINE g == [f EXCEPT !.stage = "insert"]
  <2>1. /\ filing' = (filing \ {f}) \cup {g} /\ f.stage = "count"
        /\ docs' = docs /\ disk' = disk \cup {f.key}
    BY <1>4 DEF AcceptUpload
  <2>2. g.stage = "insert" /\ g.key = f.key
    BY DEF DocumentsTypeOK, Filing
  <2> HIDE DEF g
  <2>3. LiveKeys' = LiveKeys /\ HalfDone \cup {f.key} \subseteq HalfDone'
    BY <2>1, <2>2 DEF LiveKeys, HalfDone
  <2> QED
    BY <2>1, <2>3
<1>5. ASSUME NEW f \in filing, InsertDocument(f)
      PROVE  Torn' \subseteq Torn
  <2> DEFINE e == [key |-> f.key, contract |-> f.contract, slot |-> f.slot,
                   deleted |-> FALSE]
  <2>1. /\ docs' = docs \cup {e} /\ e.key = f.key /\ ~e.deleted /\ disk' = disk
        /\ filing' = filing \ {f} /\ f.stage = "insert"
    BY <1>5 DEF InsertDocument
  <2> HIDE DEF e
  <2>2. LiveKeys' = LiveKeys \cup {f.key} /\ HalfDone \ {f.key} \subseteq HalfDone'
    BY <2>1 DEF LiveKeys, HalfDone
  <2>3. f.key \in disk
    BY <2>1 DEF KeysInv
  <2> QED
    BY <2>1, <2>2, <2>3
<1>6. ASSUME NEW f \in filing, FailInsert(f)
      PROVE  Torn' \subseteq Torn
  <2>1. /\ docs' = docs /\ disk' = disk \ {f.key}
        /\ filing' = filing \ {f} /\ f.stage = "insert"
    BY <1>6 DEF FailInsert
  <2>2. LiveKeys' = LiveKeys /\ HalfDone \ {f.key} \subseteq HalfDone'
    BY <2>1 DEF LiveKeys, HalfDone
  <2>3. f.key \notin LiveKeys
    BY <1>0, <2>1 DEF KeysInv
  <2> QED
    BY <2>1, <2>2, <2>3
<1>7. ASSUME NEW f \in filing, RefuseUpload(f)
      PROVE  Torn' \subseteq Torn
  <2>1. /\ docs' = docs /\ disk' = disk /\ filing' = filing \ {f} /\ f.stage = "count"
    BY <1>7 DEF RefuseUpload
  <2>2. LiveKeys' = LiveKeys /\ HalfDone \subseteq HalfDone'
    BY <2>1 DEF LiveKeys, HalfDone
  <2> QED
    BY <2>1, <2>2
<1>8. CASE (\E r \in Requests : ServedElsewhere(r)) \/ UNCHANGED <<answer, docVars>>
  BY <1>8 DEF ServedElsewhere, docVars, LiveKeys, HalfDone
<1> QED
  BY <1>1, <1>2, <1>3, <1>4, <1>5, <1>6, <1>7, <1>8 DEF FilingStep

\* One key at most for each handler is half done.
LEMMA FewHalfDone ==
  ASSUME DocumentsTypeOK, OneHandlerPerCall
  PROVE  /\ IsFiniteSet(HalfDone)
         /\ Cardinality(HalfDone) \in Nat
         /\ Cardinality(HalfDone) <= Cardinality(Requests)
<1> DEFINE holders == { g \in filing : g.stage \in {"unlink", "insert"} }
           keyOf == [f \in holders |-> f.key]
<1>1. /\ IsFiniteSet(holders) /\ Cardinality(holders) \in Nat
      /\ Cardinality(holders) <= Cardinality(Requests)
  BY FewHandlers, CallsCounted, FS_Subset, FS_CardinalityType
<1>2. keyOf \in Surjection(holders, HalfDone)
  BY Fun_IsSurj DEF HalfDone
<1> HIDE DEF holders, keyOf
<1> QED
  BY <1>1, <1>2, CallsCounted, FS_Surjection, FS_CardinalityType

(***************************************************************************)
(* A row without its file or a file without its row is the work of a       *)
(* running handler or of a fault, and a fault leaves one at most for each  *)
(* call that can be open.                                                  *)
(***************************************************************************)
THEOREM TornWithinBound == DocumentsSpec => []TornBounded
<1> DEFINE calls == Cardinality(Requests)
           Inv == IsFiniteSet(Torn) /\ TornBounded
<1>0. calls \in Nat \ {0}
  BY CallsCounted
<1>1. AnswersInit /\ DocumentsInit => Inv
  <2> SUFFICES ASSUME DocumentsInit
               PROVE  Inv
    OBVIOUS
  <2>1. Torn = {}
    BY DEF DocumentsInit, Torn, Mismatched
  <2> QED
    BY <1>0, <2>1, FS_EmptySet DEF TornBounded, Torn, DocumentsInit
<1>2. /\ DocumentsTypeOK /\ OneHandlerPerCall /\ KeysInv /\ Inv
      /\ [DocumentsNext]_<<answer, docVars>>
      => Inv'
  <2> SUFFICES ASSUME DocumentsTypeOK, OneHandlerPerCall, KeysInv, Inv,
                      [DocumentsNext]_<<answer, docVars>>
               PROVE  IsFiniteSet(Torn') /\ Cardinality(Torn') <= faults' * calls
    BY DEF TornBounded, Torn
  <2>0. /\ IsFiniteSet(Torn) /\ Cardinality(Torn) \in Nat
        /\ Cardinality(Torn) <= faults * calls /\ faults \in Nat
    BY FS_CardinalityType DEF TornBounded, Torn, DocumentsTypeOK
  <2>1. ASSUME Torn' \subseteq Torn, faults' = faults
        PROVE  IsFiniteSet(Torn') /\ Cardinality(Torn') <= faults' * calls
    <3>1. /\ IsFiniteSet(Torn') /\ Cardinality(Torn') \in Nat
          /\ Cardinality(Torn') <= Cardinality(Torn)
      BY <2>0, <2>1, FS_Subset, FS_CardinalityType
    <3>2. faults * calls \in Nat
      BY <1>0, <2>0
    <3> QED
      BY <2>0, <2>1, <3>1, <3>2
  <2>2. ASSUME NEW more, IsFiniteSet(more), Cardinality(more) \in Nat,
               Cardinality(more) <= calls,
               Torn' \subseteq Torn \cup more, faults' = faults + 1
        PROVE  IsFiniteSet(Torn') /\ Cardinality(Torn') <= faults' * calls
    <3>1. /\ IsFiniteSet(Torn \cup more)
          /\ Cardinality(Torn \cup more) \in Nat
          /\ Cardinality(Torn \cup more) <= Cardinality(Torn) + Cardinality(more)
      <4>1. IsFiniteSet(Torn \cap more) /\ Cardinality(Torn \cap more) \in Nat
        BY <2>0, FS_Intersection, FS_CardinalityType
      <4>2. /\ IsFiniteSet(Torn \cup more)
            /\ Cardinality(Torn \cup more)
                 = Cardinality(Torn) + Cardinality(more) - Cardinality(Torn \cap more)
        BY <2>0, <2>2, FS_Union
      <4>3. Cardinality(Torn \cup more) \in Nat
        BY <4>2, FS_CardinalityType
      <4> QED
        BY <2>0, <2>2, <4>1, <4>2, <4>3
    <3>2. /\ IsFiniteSet(Torn') /\ Cardinality(Torn') \in Nat
          /\ Cardinality(Torn') <= Cardinality(Torn \cup more)
      BY <2>2, <3>1, FS_Subset, FS_CardinalityType
    <3>3. faults' * calls = faults * calls + calls /\ faults * calls \in Nat
      BY <1>0, <2>0, <2>2
    <3> QED
      BY <1>0, <2>0, <2>2, <3>1, <3>2, <3>3
  <2>3. ASSUME NEW f \in filing, FailDrop(f)
        PROVE  IsFiniteSet(Torn') /\ Cardinality(Torn') <= faults' * calls
    <3>1. docs' = docs /\ disk' = disk /\ filing \ {f} \subseteq filing' /\ faults' = faults + 1
      BY <2>3 DEF FailDrop
    <3>2. HalfDone \ {f.key} \subseteq HalfDone' /\ Mismatched' = Mismatched
      BY <3>1 DEF HalfDone, Mismatched
    <3>3. Torn' \subseteq Torn \cup {f.key}
      BY <3>2 DEF Torn
    <3>4. IsFiniteSet({f.key}) /\ Cardinality({f.key}) = 1
      BY FS_Singleton
    <3> QED
      BY <1>0, <2>2, <3>1, <3>3, <3>4
  <2>4. CASE CrashFiling
    <3>1. docs' = docs /\ disk' = disk /\ faults' = faults + 1
      BY <2>4 DEF CrashFiling
    <3>2. Torn' \subseteq Torn \cup HalfDone
      BY <3>1 DEF Torn, Mismatched
    <3> QED
      BY <2>2, <3>1, <3>2, FewHalfDone
  <2>5. CASE \/ \E r \in Requests :
                  \/ \E c \in Contracts, s \in Slots : BeginUpload(r, c, s)
                  \/ \E d \in docs : BeginDelete(r, d)
                  \/ ServedElsewhere(r)
             \/ \E f \in filing : FilingStep(f)
             \/ UNCHANGED <<answer, docVars>>
    <3>1. Torn' \subseteq Torn
      BY <2>5, NothingTorn
    <3>2. faults' = faults
      BY <2>5
      DEF BeginUpload, BeginDelete, ServedElsewhere, FilingStep, DropReplaced, AcceptUpload,
          RefuseUpload, InsertDocument, FailInsert, DropDeleted, docVars
    <3> QED
      BY <2>1, <3>1, <3>2
  <2> QED
    BY <2>3, <2>4, <2>5 DEF DocumentsNext
<1> QED
  BY <1>1, <1>2, DocumentsTypeCorrect, OneHandlerHolds, KeysHold, PTL
  DEF DocumentsSpec

-----------------------------------------------------------------------------
(***************************************************************************)
(* II. The calls.  Handlers of line items and of documents run beside each *)
(* other; the sheet, its colleague and the faults of the backend take no   *)
(* other steps of it than these.                                           *)
(***************************************************************************)
ItemsCall(r) ==
  \/ \E c \in Contracts, budget \in Nat : CreateContract(r, c, budget)
  \/ RefuseContract(r)
  \/ \E c \in Contracts, sort \in Nat, a \in Prices : CheckLineItem(r, c, sort, a)
  \/ \E i \in items, a \in Prices : BeginAmendment(r, i, a)
  \/ \E i \in items : DeleteLineItem(r, i)

ItemsStep(p) == CheckAmendment(p) \/ WriteItem(p) \/ FailWrite(p)

DocumentsCall(r) ==
  \/ \E c \in Contracts, s \in Slots : BeginUpload(r, c, s)
  \/ \E d \in docs : BeginDelete(r, d)

Crash == CrashFiling /\ pricing' = {} /\ UNCHANGED <<exists, grossBudget, items, blind>>

BackendStep ==
  \/ \E r \in Requests : ItemsCall(r) /\ UNCHANGED docVars
  \/ \E r \in Requests : DocumentsCall(r) /\ UNCHANGED itemVars
  \/ \E r \in Requests : Take(r) /\ UNCHANGED <<itemVars, docVars>>
  \/ \E p \in pricing : ItemsStep(p) /\ UNCHANGED docVars
  \/ \E f \in filing : (FilingStep(f) \/ FailDrop(f)) /\ UNCHANGED itemVars
  \/ Crash

backendVars == <<answer, itemVars, docVars>>

\* A call has one handler, of a line item or of a document, while it is open.
PricingCalls ==
  /\ \A p, q \in pricing : p.request = q.request => p = q
  /\ \A p \in pricing : answer[p.request] = "busy" /\ \A f \in filing : f.request # p.request

BackendInv == ItemsTypeOK /\ DocumentsTypeOK /\ OneHandlerPerCall /\ PricingCalls

\* The steps of the documents' handlers, and those that are none of theirs.
LEMMA BackendIsDocuments ==
  ASSUME BackendInv, [BackendStep]_backendVars
  PROVE  [DocumentsNext]_<<answer, docVars>>
<1> USE DEF BackendInv
<1>1. ASSUME NEW r \in Requests, UNCHANGED docVars, \A f \in filing : f.request # r,
             \E a \in AnswerState : Answered(r, a)
      PROVE  DocumentsNext
  BY <1>1 DEF DocumentsNext, ServedElsewhere
<1>2. \A r \in Requests : answer[r] # "busy" => \A f \in filing : f.request # r
  BY DEF OneHandlerPerCall
<1>3. ASSUME NEW r \in Requests, ItemsCall(r), UNCHANGED docVars
      PROVE  DocumentsNext
  <2>1. answer[r] = "free"
    BY <1>3 DEF ItemsCall, CreateContract, RefuseContract, CheckLineItem, BeginAmendment, DeleteLineItem
  <2>2. \E a \in AnswerState : Answered(r, a)
    BY <1>3 DEF ItemsCall, CreateContract, RefuseContract, CheckLineItem, BeginAmendment, DeleteLineItem,
                AnswerState
  <2> QED
    BY <1>1, <1>2, <1>3, <2>1, <2>2
<1>4. ASSUME NEW r \in Requests, Take(r), UNCHANGED docVars
      PROVE  DocumentsNext
  BY <1>1, <1>2, <1>4 DEF Take, AnswerState
<1>5. ASSUME NEW p \in pricing, ItemsStep(p), UNCHANGED docVars
      PROVE  [DocumentsNext]_<<answer, docVars>>
  <2>1. p.request \in Requests /\ \A f \in filing : f.request # p.request
    BY DEF PricingCalls, ItemsTypeOK, Pricing
  <2>2. UNCHANGED answer \/ \E a \in AnswerState : Answered(p.request, a)
    BY <1>5 DEF ItemsStep, CheckAmendment, WriteItem, FailWrite, AnswerState
  <2> QED
    BY <1>1, <1>5, <2>1, <2>2
<1> QED
  BY <1>3, <1>4, <1>5 DEF BackendStep, DocumentsCall, DocumentsNext, Crash, backendVars

\* The queries that a guard misses are counted.
LEMMA GuardTypes ==
  ASSUME ItemsTypeOK, NEW c, NEW reads, GuardReads(c, reads)
  PROVE  blind' \in [Contracts -> Nat]
BY DEF GuardReads, ItemsTypeOK

\* A handler of a line item begins, goes on and ends as its type says.
LEMMA ItemsTypeStep ==
  ASSUME BackendInv, [BackendStep]_backendVars
  PROVE  ItemsTypeOK'
<1> USE DEF BackendInv, ItemsTypeOK
<1>1. ASSUME NEW r \in Requests, ItemsCall(r)
      PROVE  ItemsTypeOK'
  <2>1. ASSUME NEW c \in Contracts, NEW budget \in Nat, CreateContract(r, c, budget)
        PROVE  ItemsTypeOK'
    BY <2>1 DEF CreateContract
  <2>5. ASSUME RefuseContract(r)
        PROVE  ItemsTypeOK'
    BY <2>5 DEF RefuseContract, itemVars
  <2>2. ASSUME NEW c \in Contracts, NEW sort \in Nat, NEW a \in Prices,
               CheckLineItem(r, c, sort, a)
        PROVE  ItemsTypeOK'
    <3>1. Fresh(UnusedItems) \in Items
      BY <2>2 DEF CheckLineItem, Fresh, UnusedItems
    <3>2. [request |-> r, op |-> "create", item |-> Fresh(UnusedItems), contract |-> c,
           sort |-> sort, amount |-> a.stored] \in Pricing
      BY <3>1 DEF Pricing, Amounts
    <3>3. blind' \in [Contracts -> Nat]
      BY <2>2, GuardTypes DEF CheckLineItem
    <3> QED
      BY <2>2, <3>2, <3>3 DEF CheckLineItem
  <2>3. ASSUME NEW i \in items, NEW a \in Prices, BeginAmendment(r, i, a)
        PROVE  ItemsTypeOK'
    <3>1. [request |-> r, op |-> "amend", item |-> i.id, contract |-> i.contract,
           old |-> i.amount, amount |-> a.stored, sent |-> a.sent] \in Pricing
      BY PricesAreInts DEF Pricing, Item, Amounts
    <3> QED
      BY <2>3, <3>1 DEF BeginAmendment
  <2>4. ASSUME NEW i \in items, DeleteLineItem(r, i)
        PROVE  ItemsTypeOK'
    <3>1. [i EXCEPT !.deleted = TRUE] \in Item
      BY DEF Item
    <3> QED
      BY <2>4, <3>1 DEF DeleteLineItem
  <2> QED
    BY <1>1, <2>1, <2>2, <2>3, <2>4, <2>5 DEF ItemsCall
<1>2. ASSUME NEW p \in pricing, ItemsStep(p)
      PROVE  ItemsTypeOK'
  <2>1. CASE CheckAmendment(p)
    <3>1. [p EXCEPT !.op = "update"] \in Pricing
      BY <2>1 DEF CheckAmendment, Pricing
    <3>2. blind' \in [Contracts -> Nat]
      BY <2>1, GuardTypes DEF CheckAmendment
    <3> QED
      BY <2>1, <3>1, <3>2 DEF CheckAmendment
  <2>2. CASE FailWrite(p)
    BY <2>2 DEF FailWrite
  <2>3. CASE WriteItem(p) /\ p.op = "create"
    <3>1. [id |-> p.item, contract |-> p.contract, sort |-> p.sort, amount |-> p.amount,
           deleted |-> FALSE] \in Item
      BY <2>3 DEF Pricing, Item
    <3> QED
      BY <2>3, <3>1 DEF WriteItem
  <2>4. CASE WriteItem(p) /\ p.op # "create"
    <3>1. p.amount \in Amounts
      BY DEF Pricing
    <3>2. \A i \in items : [i EXCEPT !.amount = p.amount] \in Item
      BY <3>1 DEF Item
    <3> QED
      BY <2>4, <3>2 DEF WriteItem
  <2> QED
    BY <1>2, <2>1, <2>2, <2>3, <2>4 DEF ItemsStep
<1>3. CASE UNCHANGED itemVars
  BY <1>3 DEF itemVars
<1>4. CASE Crash
  BY <1>4 DEF Crash
<1> QED
  BY <1>1, <1>2, <1>3, <1>4 DEF BackendStep, backendVars

\* And every open call keeps its one handler.
LEMMA PricingCallsStep ==
  ASSUME BackendInv, [BackendStep]_backendVars
  PROVE  PricingCalls'
<1>0. /\ answer \in [Requests -> AnswerState]
      /\ \A p \in pricing : p.request \in Requests
      /\ \A f \in filing : f.request \in Requests
  BY DEF BackendInv, ItemsTypeOK, DocumentsTypeOK, AnswersTypeOK, Pricing, Filing
<1> USE DEF PricingCalls, Answered
<1>1. ASSUME NEW r \in Requests, ItemsCall(r), UNCHANGED docVars
      PROVE  PricingCalls'
  <2>1. /\ answer[r] = "free" /\ filing' = filing
        /\ \/ pricing' = pricing /\ \E a : answer' = [answer EXCEPT ![r] = a]
           \/ /\ answer' = [answer EXCEPT ![r] = "busy"]
              /\ \E p : p.request = r /\ pricing' = pricing \cup {p}
    <3>1. ASSUME NEW c \in Contracts, NEW sort \in Nat, NEW a \in Prices,
                 CheckLineItem(r, c, sort, a)
          PROVE  /\ answer[r] = "free"
                 /\ \/ pricing' = pricing /\ \E b : answer' = [answer EXCEPT ![r] = b]
                    \/ /\ answer' = [answer EXCEPT ![r] = "busy"]
                       /\ \E p : p.request = r /\ pricing' = pricing \cup {p}
      BY <3>1 DEF CheckLineItem
    <3>2. ASSUME NEW i \in items, NEW a \in Prices, BeginAmendment(r, i, a)
          PROVE  /\ answer[r] = "free" /\ answer' = [answer EXCEPT ![r] = "busy"]
                 /\ \E p : p.request = r /\ pricing' = pricing \cup {p}
      BY <3>2 DEF BeginAmendment
    <3>3. ASSUME \/ \E c \in Contracts, b \in Nat : CreateContract(r, c, b)
                 \/ RefuseContract(r)
                 \/ \E i \in items : DeleteLineItem(r, i)
          PROVE  /\ answer[r] = "free" /\ pricing' = pricing
                 /\ \E b : answer' = [answer EXCEPT ![r] = b]
      BY <3>3 DEF CreateContract, RefuseContract, DeleteLineItem, itemVars
    <3> QED
      BY <1>1, <3>1, <3>2, <3>3 DEF ItemsCall, docVars
  <2> QED
    BY <1>0, <2>1 DEF BackendInv, OneHandlerPerCall
<1>2. ASSUME NEW r \in Requests, DocumentsCall(r), UNCHANGED itemVars
      PROVE  PricingCalls'
  <2>1. /\ answer[r] = "free" /\ pricing' = pricing /\ answer' = [answer EXCEPT ![r] = "busy"]
        /\ \E f : f.request = r /\ filing' = filing \cup {f}
    BY <1>2 DEF DocumentsCall, BeginUpload, BeginDelete, UploadAt, itemVars
  <2> QED
    BY <1>0, <2>1 DEF BackendInv
<1>3. ASSUME NEW r \in Requests, Take(r), UNCHANGED <<itemVars, docVars>>
      PROVE  PricingCalls'
  BY <1>0, <1>3 DEF Take, itemVars, docVars, BackendInv
<1>4. ASSUME NEW p \in pricing, ItemsStep(p), UNCHANGED docVars
      PROVE  PricingCalls'
  <2>1. /\ filing' = filing
        /\ \/ /\ pricing' = pricing \ {p}
              /\ \E a : answer' = [answer EXCEPT ![p.request] = a]
           \/ /\ UNCHANGED answer
              /\ \E q : q.request = p.request /\ pricing' = (pricing \ {p}) \cup {q}
    <3>1. CASE CheckAmendment(p)
      <4>1. [p EXCEPT !.op = "update"].request = p.request
        BY <1>0 DEF BackendInv, ItemsTypeOK, Pricing
      <4> QED
        BY <1>4, <3>1, <4>1 DEF CheckAmendment, docVars
    <3> QED
      BY <1>4, <3>1 DEF ItemsStep, WriteItem, FailWrite, docVars
  <2> QED
    BY <1>0, <2>1 DEF BackendInv
<1>5. ASSUME NEW f \in filing, FilingStep(f) \/ FailDrop(f), UNCHANGED itemVars
      PROVE  PricingCalls'
  <2>1. \/ filing' = filing \ {f} /\ (\A g \in Requests \ {f.request} : answer'[g] = answer[g])
        \/ /\ UNCHANGED answer
           /\ \E g : g.request = f.request /\ filing' = (filing \ {f}) \cup {g}
    BY <1>0, <1>5
    DEF FilingStep, FailDrop, DropReplaced, AcceptUpload, RefuseUpload,
        InsertDocument, FailInsert, DropDeleted, UploadAt, Filing, DocumentsTypeOK, BackendInv
  <2> QED
    BY <1>0, <1>5, <2>1 DEF BackendInv, itemVars
<1>6. CASE Crash
  BY <1>6 DEF Crash
<1>7. CASE UNCHANGED backendVars
  BY <1>7 DEF backendVars, itemVars, docVars, BackendInv
<1> QED
  BY <1>1, <1>2, <1>3, <1>4, <1>5, <1>6, <1>7 DEF BackendStep

LEMMA BackendInvStep ==
  ASSUME BackendInv, [BackendStep]_backendVars
  PROVE  BackendInv'
<1>1. ItemsTypeOK' /\ PricingCalls'
  BY ItemsTypeStep, PricingCallsStep
<1>2. [DocumentsNext]_<<answer, docVars>>
  BY BackendIsDocuments
<1>3. DocumentsTypeOK' /\ OneHandlerPerCall'
  BY <1>2, DocumentsTypeStep, OneHandlerStep DEF BackendInv
<1> QED
  BY <1>1, <1>3 DEF BackendInv

\* No row of a contract is ever removed.
LEMMA ContractsStay ==
  ASSUME BackendInv, [BackendStep]_backendVars
  PROVE  exists \subseteq exists'
BY DEF BackendStep, ItemsCall, CreateContract, RefuseContract, CheckLineItem, BeginAmendment,
       DeleteLineItem, ItemsStep, CheckAmendment, WriteItem, FailWrite, Crash,
       itemVars, backendVars

-----------------------------------------------------------------------------
(***************************************************************************)
(* III. The sheet.  The rows it shows and sends are rows a user can make,  *)
(* a mutation that runs has a contract, and the backend is as above.       *)
(***************************************************************************)
Rows == RowChoices \cup {NewRow}

RowsKnown == wbsRows \in Seq(Rows) /\ mutation.rows \in Seq(Rows)

\* The call that creates the contract was refused, and waits to be told.
Rejected ==
  /\ mutation.contract = Blank /\ mutation.awaiting # Blank
  /\ answer[mutation.awaiting] = "refused"

Targeted ==
  mutation.pending =>
    mutation.next >= 1 /\ (mutation.contract \in exists \/ Rejected)

SheetInv == TypeOK /\ BackendInv /\ RowsKnown /\ Targeted

\* The actions of the user that make no call.
AtTheForm ==
  \/ \E p \in {"", "loading"} : Open(p)
  \/ \E p \in {"chosen", "inactive"} : ProjectLoaded(p)
  \/ Close
  \/ ChooseProject \/ ChooseContractor \/ EnterTitle
  \/ ChooseType \/ EnterBudget \/ EnterTerms \/ ChooseFeeMethod \/ EnterPercents
  \/ AddRow \/ EditRow \/ DropRow \/ ChooseFiles
  \/ goNext \/ goBack

LEMMA FormIsAtTheFront ==
  ASSUME AtTheForm
  PROVE  UNCHANGED <<backendVars, mutation, historyVars, colleague>>
BY DEF AtTheForm, Open, ProjectLoaded, Close, ChooseProject, ChooseContractor, EnterTitle,
       ChooseType, EnterBudget, EnterTerms, ChooseFeeMethod, EnterPercents, Fill,
       AddRow, EditRow, DropRow, ChangeRows, ChooseFiles, goNext, goBack, ShowStep,
       backendVars, itemVars, docVars, historyVars

\* A row that is sent is one of the rows.
LEMMA NextRow ==
  ASSUME SheetInv, mutation.pending, RowsToSend # {}
  PROVE  /\ Min(RowsToSend) \in RowsToSend
         /\ Min(RowsToSend) \in DOMAIN mutation.rows
         /\ Min(RowsToSend) >= mutation.next
         /\ \A i \in RowsToSend : Min(RowsToSend) <= i
         /\ SentPrice(mutation.rows[Min(RowsToSend)]) \in Prices
<1>1. mutation.next \in Nat /\ mutation.rows \in Seq(Rows) /\ mutation.next >= 1
  BY DEF SheetInv, TypeOK, Mutation, RowsKnown, Targeted
<1>2. Len(mutation.rows) \in Nat /\ DOMAIN mutation.rows = 1..Len(mutation.rows)
  BY <1>1
<1>3. IsFiniteSet(RowsToSend)
  <2>1. IsFiniteSet(mutation.next..Len(mutation.rows))
    BY <1>1, <1>2, FS_Interval
  <2> QED
    BY <2>1, FS_Subset DEF RowsToSend
<1>4. \A i \in RowsToSend : i \in Int /\ i \in DOMAIN mutation.rows /\ i >= mutation.next
  BY <1>1, <1>2 DEF RowsToSend
<1>5. Min(RowsToSend) \in RowsToSend /\ \A i \in RowsToSend : Min(RowsToSend) <= i
  BY <1>3, <1>4, MinIsLeast
<1>6. mutation.rows[Min(RowsToSend)] \in Rows
  BY <1>1, <1>4, <1>5
<1> QED
  BY <1>4, <1>5, <1>6, RowsHavePrices DEF Rows

\* What a column keeps of a number.
LEMMA KeptIsNat ==
  ASSUME NEW n \in Nat, NEW unit \in Nat \ {0}
  PROVE  Kept(n, unit) \in Nat
<1>1. \A a \in Nat, b \in Nat \ {0} : a \div b \in Nat
  OBVIOUS
<1>2. 2 * n + unit \in Nat /\ 2 * unit \in Nat \ {0}
  OBVIOUS
<1>3. (2 * n + unit) \div (2 * unit) \in Nat
  BY <1>1, <1>2
<1>4. \A a, b \in Nat : a * b \in Nat
  OBVIOUS
<1> QED
  BY <1>3, <1>4 DEF Kept

LEMMA BudgetOfForm ==
  ASSUME SheetInv
  PROVE  grossBudgetOfForm \in Nat /\ Kept(grossBudgetOfForm, BudgetUnit) \in Nat
<1>1. grossBudgetOfForm \in Nat
  BY BudgetsAreNat DEF SheetInv, TypeOK, Form, grossBudgetOfForm, OrElse
<1> QED
  BY <1>1, KeptIsNat, UnitsPositive

\* The colleague's calls are calls of the backend.
LEMMA CallsOfColleague ==
  ASSUME SheetInv, NEW r \in Requests, Colleague(r)
  PROVE  (ItemsCall(r) /\ UNCHANGED docVars) \/ (DocumentsCall(r) /\ UNCHANGED itemVars)
<1>1. \A a \in ColleaguePrices : a \in Prices
  BY ColleagueWritesPrices
<1>2. \A c \in exists : c \in Contracts
  BY DEF SheetInv, TypeOK, ItemsTypeOK
<1> QED
  BY <1>1, <1>2 DEF Colleague, ItemsCall, DocumentsCall

\* The sheet and its colleague make calls of the backend, and nothing else.
LEMMA NextIsBackend ==
  ASSUME SheetInv, [Next]_vars
  PROVE  [BackendStep]_backendVars
<1> USE DEF SheetInv
<1>1. \A r \in SheetRequests : r \in Requests
  BY SheetRequestsAreRequests
<1>2. CASE AtTheForm
  BY <1>2, FormIsAtTheFront
<1>3. ASSUME NEW r \in SheetRequests, Submit(r)
      PROVE  BackendStep
  <2>1. Fresh(Contracts \ exists) \in Contracts
    BY <1>3 DEF Submit, Fresh, TypeOK, ItemsTypeOK
  <2>2. Kept(grossBudgetOfForm, BudgetUnit) \in Nat
    BY BudgetOfForm
  <2>3. ItemsCall(r) /\ UNCHANGED docVars
    BY <1>3, <2>1, <2>2, Zenon DEF Submit, ItemsCall
  <2> QED
    BY <1>1, <2>3 DEF BackendStep
<1>4. CASE Resume \/ CallRefused \/ Discard
  <2>1. PICK r \in Requests : Take(r)
    BY <1>1, <1>4 DEF Resume, CallRefused, Discard
  <2>2. UNCHANGED <<itemVars, docVars>>
    BY <1>4 DEF Resume, CallRefused, Discard, onError
  <2> QED
    BY <2>1, <2>2 DEF BackendStep
<1>5. CASE onSuccess \/ NetworkFails
  BY <1>5 DEF onSuccess, NetworkFails, onError, backendVars
<1>6. ASSUME NEW r \in SheetRequests, SendItem(r)
      PROVE  BackendStep
  <2>1. /\ Min(RowsToSend) \in Nat
        /\ SentPrice(mutation.rows[Min(RowsToSend)]) \in Prices
    BY <1>6, NextRow DEF SendItem, RowsToSend, TypeOK, Mutation
  <2>2. mutation.contract \in Contracts
    BY <1>6 DEF SendItem, Targeted, Rejected, TypeOK, ItemsTypeOK
  <2>3. ItemsCall(r) /\ UNCHANGED docVars
    BY <1>6, <2>1, <2>2 DEF SendItem, ItemsCall
  <2> QED
    BY <1>1, <2>3 DEF BackendStep
<1>7. ASSUME NEW r \in SheetRequests, SendFile(r)
      PROVE  BackendStep
  <2>1. mutation.contract \in Contracts /\ mutation.files \in SUBSET Slots
    BY <1>7 DEF SendFile, Targeted, Rejected, TypeOK, ItemsTypeOK, Mutation
  <2>2. DocumentsCall(r) /\ UNCHANGED itemVars
    BY <1>7, <2>1 DEF SendFile, DocumentsCall
  <2> QED
    BY <1>1, <2>2 DEF BackendStep
<1>8. ASSUME NEW r \in Requests, Colleague(r)
      PROVE  BackendStep
  BY <1>8, CallsOfColleague DEF BackendStep
<1>9. CASE ServerStep
  BY <1>9 DEF ServerStep, ItemsStep, BackendStep
<1>10. CASE ServerFault
  BY <1>10 DEF ServerFault, BackendStep, Crash, itemVars
<1>11. CASE UNCHANGED vars
  BY <1>11 DEF vars, backendVars
<1> QED
  BY <1>2, <1>3, <1>4, <1>5, <1>6, <1>7, <1>8, <1>9, <1>10, <1>11
     DEF Next, User, AtTheForm, MutationStep

\* A row that is dropped leaves a sequence of rows, one shorter.
LEMMA RowDropped ==
  ASSUME NEW S, NEW s \in Seq(S), NEW i \in DOMAIN s
  PROVE  RemoveAt(s, i) \in Seq(S) /\ Len(RemoveAt(s, i)) <= Len(s)
<1> DEFINE before == SubSeq(s, 1, i - 1)
           after == SubSeq(s, i + 1, Len(s))
<1>0. Len(s) \in Nat /\ i \in 1..Len(s)
  OBVIOUS
<1>1. before \in Seq(S) /\ Len(before) = i - 1
  <2>1. \A k \in 1..(i - 1) : s[k] \in S
    BY <1>0, ElementOfSeq
  <2> QED
    BY <1>0, <2>1, SubSeqProperties
<1>2. after \in Seq(S) /\ Len(after) = Len(s) - i
  <2>1. \A k \in (i + 1)..Len(s) : s[k] \in S
    BY <1>0, ElementOfSeq
  <2> QED
    BY <1>0, <2>1, SubSeqProperties
<1> HIDE DEF before, after
<1>3. before \o after \in Seq(S) /\ Len(before \o after) = Len(s) - 1
  BY <1>0, <1>1, <1>2, ConcatProperties
<1> QED
  BY <1>0, <1>3 DEF RemoveAt, before, after

\* The form and the rows keep their types, whatever the user does.
LEMMA FormTypes ==
  ASSUME SheetInv, AtTheForm
  PROVE  /\ opening' \in 0..MaxOpenings /\ isOpen' \in BOOLEAN /\ step' \in Steps
         /\ form' \in Form /\ changes' \in 0..MaxChanges
         /\ wbsRows' \in Seq(Rows) /\ Len(wbsRows') <= MaxRows
         /\ slotFiles' \in SUBSET Slots
<1> USE BoundsAreNat DEF SheetInv
<1>0. /\ opening \in 0..MaxOpenings /\ isOpen \in BOOLEAN /\ step \in Steps
      /\ form \in Form /\ changes \in 0..MaxChanges
      /\ wbsRows \in Seq(Rows) /\ Len(wbsRows) <= MaxRows
      /\ slotFiles \in SUBSET Slots
  BY DEF TypeOK, RowsKnown
<1>1. defaultValues \in Form
  BY TypesAreTypes DEF defaultValues, Form
<1>2. <<>> \in Seq(Rows) /\ Len(<<>>) <= MaxRows /\ 0 \in Steps /\ {} \in SUBSET Slots
  BY DEF Steps
<1>15. \A n \in 0..MaxOpenings : n < MaxOpenings => n + 1 \in 0..MaxOpenings
  OBVIOUS
<1>3. ASSUME NEW p \in {"", "loading"}, Open(p)
      PROVE  /\ opening' \in 0..MaxOpenings /\ isOpen' = TRUE /\ step' = 0
             /\ form' \in Form /\ UNCHANGED changes
             /\ wbsRows' = <<>> /\ slotFiles' = {}
  <2>1. [defaultValues EXCEPT !.project = p] \in Form
    BY <1>1 DEF Form
  <2>2. /\ isOpen' = TRUE /\ step' = 0 /\ wbsRows' = <<>> /\ slotFiles' = {}
        /\ UNCHANGED changes /\ form' = [defaultValues EXCEPT !.project = p]
        /\ opening' = opening + 1 /\ opening < MaxOpenings
    BY <1>3, Zenon DEF Open
  <2>3. opening' \in 0..MaxOpenings
    BY <1>0, <1>15, <2>2, Zenon
  <2> QED
    BY <2>1, <2>2, <2>3
<1>4. ASSUME NEW f, Fill(f), f \in Form
      PROVE  /\ form' \in Form /\ changes' \in 0..MaxChanges
             /\ UNCHANGED <<opening, isOpen, step, wbsRows, slotFiles>>
  BY <1>0, <1>4 DEF Fill, MayChange
<1>5. \A f \in Form : Registered(f) \in Form
  <2>1. \A f \in Form : [f EXCEPT !.feeMethod = "blank"] \in Form
    BY DEF Form
  <2> QED
    BY <2>1, Zenon DEF Registered
<1>6. CASE ChooseProject \/ ChooseContractor \/ EnterTitle \/ ChooseType
           \/ EnterBudget \/ EnterTerms \/ ChooseFeeMethod \/ EnterPercents
  <2>1. CASE ChooseProject
    <3>1. \A p \in {"", "chosen"} : [form EXCEPT !.project = p] \in Form
      BY <1>0 DEF Form
    <3> QED
      BY <1>0, <1>4, <2>1, <3>1 DEF ChooseProject
  <2>2. CASE ChooseContractor
    <3>1. \A b \in BOOLEAN : [form EXCEPT !.contractor = b] \in Form
      BY <1>0 DEF Form
    <3> QED
      BY <1>0, <1>4, <2>2, <3>1 DEF ChooseContractor
  <2>3. CASE EnterTitle
    <3>1. \A b \in BOOLEAN : [form EXCEPT !.title = b] \in Form
      BY <1>0 DEF Form
    <3> QED
      BY <1>0, <1>4, <2>3, <3>1 DEF EnterTitle
  <2>4. CASE ChooseType
    <3>1. \A t \in Types : [form EXCEPT !.type = t] \in Form
      BY <1>0 DEF Form
    <3> QED
      BY <1>0, <1>4, <1>5, <2>4, <3>1 DEF ChooseType
  <2>5. CASE EnterBudget
    <3>1. \A b \in Budgets \cup {Blank} : [form EXCEPT !.budget = b] \in Form
      BY <1>0 DEF Form
    <3> QED
      BY <1>0, <1>4, <2>5, <3>1 DEF EnterBudget
  <2>6. CASE EnterTerms
    <3>1. /\ [form EXCEPT !.terms = @ \ {form.type}] \in Form
          /\ \A fee \in {"valid", "invalid"} :
               [form EXCEPT !.terms = @ \cup {form.type}, !.fee = fee] \in Form
          /\ form.fee \in {"valid", "invalid"}
      BY <1>0 DEF Form
    <3> QED
      BY <1>0, <1>4, <2>6, <3>1 DEF EnterTerms
  <2>7. CASE ChooseFeeMethod
    <3>1. \A m \in {"blank", "chosen"} : [form EXCEPT !.feeMethod = m] \in Form
      BY <1>0 DEF Form
    <3> QED
      BY <1>0, <1>4, <2>7, <3>1 DEF ChooseFeeMethod
  <2>8. CASE EnterPercents
    <3>1. \A p \in {"valid", "invalid"} : [form EXCEPT !.percents = p] \in Form
      BY <1>0 DEF Form
    <3> QED
      BY <1>0, <1>4, <2>8, <3>1 DEF EnterPercents
  <2> QED
    BY <1>6, <2>1, <2>2, <2>3, <2>4, <2>5, <2>6, <2>7, <2>8
<1>7. ASSUME NEW rows, ChangeRows(rows), rows \in Seq(Rows), Len(rows) <= MaxRows
      PROVE  /\ wbsRows' \in Seq(Rows) /\ Len(wbsRows') <= MaxRows
             /\ changes' \in 0..MaxChanges
             /\ UNCHANGED <<opening, isOpen, step, form, slotFiles>>
  BY <1>0, <1>7 DEF ChangeRows, MayChange
<1>8. CASE AddRow \/ EditRow \/ DropRow
  <2>1. CASE AddRow
    <3>1. NewRow \in Rows /\ Len(wbsRows) < MaxRows /\ Len(wbsRows) \in Nat
      BY <1>0, <2>1 DEF AddRow, Rows
    <3>2. Append(wbsRows, NewRow) \in Seq(Rows) /\ Len(Append(wbsRows, NewRow)) <= MaxRows
      BY <1>0, <3>1
    <3> QED
      BY <1>0, <1>7, <2>1, <3>2 DEF AddRow
  <2>2. CASE EditRow
    <3>1. PICK i \in DOMAIN wbsRows, row \in RowChoices : ChangeRows([wbsRows EXCEPT ![i] = row])
      BY <2>2 DEF EditRow
    <3>2. /\ [wbsRows EXCEPT ![i] = row] \in Seq(Rows)
          /\ Len([wbsRows EXCEPT ![i] = row]) <= MaxRows
      BY <1>0 DEF Rows
    <3> QED
      BY <1>0, <1>7, <3>1, <3>2
  <2>3. CASE DropRow
    <3>1. PICK i \in DOMAIN wbsRows : ChangeRows(RemoveAt(wbsRows, i))
      BY <2>3 DEF DropRow
    <3>2. RemoveAt(wbsRows, i) \in Seq(Rows) /\ Len(RemoveAt(wbsRows, i)) <= Len(wbsRows)
      BY <1>0, RowDropped
    <3>3. Len(RemoveAt(wbsRows, i)) <= MaxRows
      BY <1>0, <3>2
    <3> QED
      BY <1>0, <1>7, <3>1, <3>2, <3>3
  <2> QED
    BY <1>8, <2>1, <2>2, <2>3
<1>9. ASSUME NEW p \in {"chosen", "inactive"}, ProjectLoaded(p)
      PROVE  form' \in Form /\ UNCHANGED <<opening, isOpen, step, wbsRows, slotFiles, changes>>
  <2>1. [form EXCEPT !.project = p] \in Form
    BY <1>0 DEF Form
  <2> QED
    BY <1>9, <2>1 DEF ProjectLoaded
<1>10. CASE goNext \/ goBack
  <2>1. ASSUME NEW s \in Steps, ShowStep(s)
        PROVE  /\ step' \in Steps /\ form' \in Form
               /\ UNCHANGED <<opening, isOpen, wbsRows, slotFiles>>
    BY <1>0, <1>5, <2>1 DEF ShowStep
  <2>2. changes' \in 0..MaxChanges
    BY <1>0, <1>10 DEF goNext, goBack, MayChange
  <2>3. \E s \in Steps : ShowStep(s)
    BY <1>0, <1>10 DEF goNext, goBack, Steps
  <2> QED
    BY <1>0, <2>1, <2>2, <2>3
<1>11. CASE Close
  <2>1. /\ isOpen' = FALSE /\ step' = 0 /\ wbsRows' = <<>> /\ slotFiles' = {}
        /\ form' = defaultValues /\ UNCHANGED <<opening, changes>>
    BY <1>11, Zenon DEF Close
  <2> QED
    BY <1>0, <1>1, <1>2, <2>1
<1>12. CASE ChooseFiles
  BY <1>0, <1>12 DEF ChooseFiles, MayChange
<1>13. CASE \E p \in {"", "loading"} : Open(p)
  <2>1. PICK p \in {"", "loading"} : Open(p)
    BY <1>13
  <2>2. /\ opening' \in 0..MaxOpenings /\ isOpen' = TRUE /\ step' = 0
        /\ form' \in Form /\ UNCHANGED changes
        /\ wbsRows' = <<>> /\ slotFiles' = {}
    BY <1>3, <2>1
  <2> QED
    BY <1>0, <1>2, <2>2
<1>14. CASE \E p \in {"chosen", "inactive"} : ProjectLoaded(p)
  BY <1>0, <1>9, <1>14
<1> QED
  BY <1>6, <1>8, <1>10, <1>11, <1>12, <1>13, <1>14, Zenon DEF AtTheForm

\* A call that was refused stays so until the client reads the answer.
LEMMA RefusalStays ==
  ASSUME BackendInv, NEW a \in Requests, answer[a] = "refused",
         \/ UNCHANGED answer
         \/ \E r \in Requests \ {a} : ItemsCall(r) \/ DocumentsCall(r) \/ Take(r)
         \/ \E p \in pricing : ItemsStep(p)
         \/ \E f \in filing : FilingStep(f) \/ FailDrop(f)
         \/ CrashFiling
  PROVE  answer'[a] = "refused"
<1>0. answer \in [Requests -> AnswerState]
  BY DEF BackendInv, DocumentsTypeOK, AnswersTypeOK
<1> USE DEF Answered
<1>1. ASSUME NEW r \in Requests \ {a}, ItemsCall(r) \/ DocumentsCall(r) \/ Take(r)
      PROVE  answer'[a] = "refused"
  BY <1>0, <1>1
  DEF ItemsCall, CreateContract, RefuseContract, CheckLineItem, BeginAmendment,
      DeleteLineItem, DocumentsCall, BeginUpload, BeginDelete, Take
<1>2. ASSUME NEW p \in pricing, ItemsStep(p)
      PROVE  answer'[a] = "refused"
  <2>1. p.request # a
    BY DEF BackendInv, PricingCalls
  <2> QED
    BY <1>0, <1>2, <2>1 DEF ItemsStep, CheckAmendment, WriteItem, FailWrite
<1>3. ASSUME NEW f \in filing, FilingStep(f) \/ FailDrop(f)
      PROVE  answer'[a] = "refused"
  <2>1. f.request # a
    BY DEF BackendInv, OneHandlerPerCall
  <2> QED
    BY <1>0, <1>3, <2>1
    DEF FilingStep, FailDrop, DropReplaced, AcceptUpload, RefuseUpload,
        InsertDocument, FailInsert, DropDeleted
<1>4. CASE CrashFiling
  BY <1>4 DEF CrashFiling
<1> QED
  BY <1>1, <1>2, <1>3, <1>4

\* The rows of a mutation are those it was started with.
LEMMA SheetInvStep ==
  ASSUME SheetInv, [Next]_vars
  PROVE  SheetInv'
<1> USE DEF SheetInv
<1>0. BackendInv'
  BY NextIsBackend, BackendInvStep
<1>1. exists \subseteq exists'
  BY NextIsBackend, ContractsStay
<1> DEFINE SheetTypes ==
             /\ opening \in 0..MaxOpenings /\ isOpen \in BOOLEAN /\ step \in Steps
             /\ form \in Form /\ changes \in 0..MaxChanges
             /\ wbsRows \in Seq(Rows) /\ Len(wbsRows) <= MaxRows
             /\ slotFiles \in SUBSET Slots
           Running ==
             /\ mutation \in Mutation /\ mutation.rows \in Seq(Rows) /\ Targeted
             /\ origin \in [Contracts -> 0..MaxOpenings]
             /\ outcome \in [Contracts -> {"none", "success", "failed"}]
             /\ colleague \in 0..MaxColleague
<1>2. SheetTypes /\ Running
  BY DEF TypeOK, RowsKnown
<1>3. ASSUME SheetTypes', Running'
      PROVE  SheetInv'
  <2>1. \A s \in Seq(Rows) : s \in Seq(Row)
    <3>1. \A row \in Rows : row \in Row
      BY RowsHavePrices DEF Rows
    <3> QED
      BY <3>1
  <2> QED
    BY <1>0, <1>3, <2>1 DEF TypeOK, BackendInv, RowsKnown
<1>4. Idle \in Mutation /\ Idle.rows \in Seq(Rows) /\ ~Idle.pending
  BY DEF Idle, Mutation
<1> HIDE DEF SheetTypes
<1>5. UNCHANGED sheetVars => SheetTypes'
  BY <1>2 DEF sheetVars, SheetTypes
<1>6. UNCHANGED <<mutation, historyVars, colleague>> /\ (Rejected => Rejected') => Running'
  BY <1>1, <1>2 DEF historyVars, Targeted
<1>17. ASSUME Rejected, mutation.pending, UNCHANGED mutation,
              \/ UNCHANGED answer
              \/ \E r \in Requests \ {mutation.awaiting} :
                   ItemsCall(r) \/ DocumentsCall(r) \/ Take(r)
              \/ \E p \in pricing : ItemsStep(p)
              \/ \E f \in filing : FilingStep(f) \/ FailDrop(f)
              \/ CrashFiling
       PROVE  Rejected'
  <2>1. mutation.awaiting \in Requests
    BY <1>2, <1>17, SheetRequestsAreRequests DEF Rejected, Mutation
  <2> QED
    BY <1>17, <2>1, RefusalStays DEF Rejected
<1>7. CASE AtTheForm
  <2>1. SheetTypes'
    BY <1>7, FormTypes DEF SheetTypes
  <2>2. UNCHANGED <<mutation, historyVars, colleague, answer>>
    BY <1>7, FormIsAtTheFront DEF backendVars
  <2> QED
    BY <1>3, <1>6, <2>1, <2>2 DEF Rejected
<1>8. ASSUME NEW r \in SheetRequests, Submit(r)
      PROVE  SheetInv'
  <2>1. PICK c \in {Fresh(Contracts \ exists), Blank} :
          /\ \/ /\ c # Blank
                /\ CreateContract(r, c, Kept(grossBudgetOfForm, BudgetUnit))
                /\ origin' = [origin EXCEPT ![c] = opening]
             \/ c = Blank /\ RefuseContract(r) /\ UNCHANGED origin
          /\ mutation' = [Idle EXCEPT !.pending = TRUE, !.contract = c,
                                      !.budget = grossBudgetOfForm, !.rows = wbsRows,
                                      !.files = slotFiles, !.awaiting = r]
    BY <1>8, Zenon DEF Submit
  <2>2. c \in Contracts \cup {Blank} /\ r \in Requests /\ r # Blank
    BY <1>8, <2>1, SheetRequestsAreRequests DEF Submit, Fresh, TypeOK, ItemsTypeOK
  <2>3. c \in exists' \/ (c = Blank /\ answer'[r] = "refused")
    BY <2>1, <2>2
    DEF CreateContract, RefuseContract, Answered, BackendInv, DocumentsTypeOK, AnswersTypeOK
  <2>4. /\ mutation' \in Mutation /\ mutation'.rows \in Seq(Rows)
        /\ mutation'.contract = c /\ mutation'.next = 1 /\ mutation'.awaiting = r
    <3>1. wbsRows \in Seq(Row) /\ wbsRows \in Seq(Rows) /\ slotFiles \in SUBSET Slots
      BY DEF TypeOK, RowsKnown
    <3> QED
      BY <1>4, <1>8, <2>1, <2>2, <3>1, BudgetOfForm DEF Idle, Mutation
  <2>5. origin' \in [Contracts -> 0..MaxOpenings]
    <3>1. opening \in 0..MaxOpenings
      BY <1>2 DEF SheetTypes
    <3> QED
      BY <1>2, <2>1, <3>1
  <2>6. UNCHANGED <<outcome, colleague>> /\ UNCHANGED sheetVars
    BY <1>8 DEF Submit
  <2>7. Targeted'
    BY <2>2, <2>3, <2>4 DEF Targeted, Rejected
  <2>8. Running'
    BY <1>2, <2>4, <2>5, <2>6, <2>7
  <2> QED
    BY <1>3, <1>5, <2>6, <2>8
<1>9. CASE Resume
  <2>1. PICK r \in SheetRequests : Answers(r) /\ answer[r] = "ok"
    BY <1>9 DEF Resume
  <2>2. mutation.contract \in exists /\ mutation.next >= 1
    BY <1>2, <2>1 DEF Answers, Targeted, Rejected
  <2> QED
    BY <1>1, <1>2, <1>3, <1>5, <1>9, <2>2 DEF Resume, historyVars, Mutation, Targeted
<1>10. CASE onError
  <2>1. outcome' \in [Contracts -> {"none", "success", "failed"}]
    BY <1>2, <1>10 DEF onError
  <2> QED
    BY <1>2, <1>3, <1>4, <1>5, <1>10, <2>1 DEF onError, Targeted
<1>11. CASE onSuccess
  <2>1. outcome' \in [Contracts -> {"none", "success", "failed"}]
    BY <1>2, <1>11 DEF onSuccess
  <2>2. SheetTypes'
    BY <1>2, <1>11 DEF onSuccess, SheetTypes
  <2> QED
    BY <1>2, <1>3, <1>4, <1>11, <2>1, <2>2 DEF onSuccess, Targeted
<1>12. ASSUME NEW r \in SheetRequests, SendItem(r)
       PROVE  SheetInv'
  <2> DEFINE i == Min(RowsToSend)
  <2>1. i \in Nat /\ i >= 1
    BY <1>12, <1>2, NextRow DEF SendItem, RowsToSend, Mutation, Targeted
  <2> HIDE DEF i
  <2>2. /\ mutation' = [mutation EXCEPT !.next = i + 1, !.awaiting = r]
        /\ UNCHANGED <<sheetVars, historyVars, colleague>>
    BY <1>12 DEF SendItem, i
  <2>9. mutation \in Mutation /\ i + 1 \in Nat /\ r \in SheetRequests \cup {Blank}
    BY <1>2, <2>1
  <2>3. /\ mutation' \in Mutation /\ mutation'.rows = mutation.rows /\ mutation'.next = i + 1
        /\ mutation'.contract = mutation.contract /\ mutation'.pending = mutation.pending
    BY <2>2, <2>9 DEF Mutation
  <2>4. Targeted'
    BY <1>1, <1>2, <1>12, <2>1, <2>3 DEF Targeted, Rejected, SendItem
  <2>5. Running'
    BY <1>2, <2>2, <2>3, <2>4 DEF historyVars
  <2> QED
    BY <1>3, <1>5, <2>2, <2>5
<1>13. ASSUME NEW r \in SheetRequests, SendFile(r)
       PROVE  SheetInv'
  <2>1. PICK s \in mutation.files :
          /\ mutation' = [mutation EXCEPT !.filed = @ \cup {s}, !.awaiting = r]
          /\ UNCHANGED <<sheetVars, historyVars, colleague>>
    BY <1>13 DEF SendFile
  <2>5. /\ mutation \in Mutation /\ r \in SheetRequests \cup {Blank}
        /\ mutation.filed \cup {s} \in SUBSET Slots
    BY <1>2, <2>1 DEF Mutation
  <2>2. /\ mutation' \in Mutation /\ mutation'.rows = mutation.rows
        /\ mutation'.next = mutation.next
        /\ mutation'.contract = mutation.contract /\ mutation'.pending = mutation.pending
    BY <2>1, <2>5 DEF Mutation
  <2>3. Targeted'
    BY <1>1, <1>2, <1>13, <2>2 DEF Targeted, Rejected, SendFile
  <2>4. Running'
    BY <1>2, <2>1, <2>2, <2>3 DEF historyVars
  <2> QED
    BY <1>3, <1>5, <2>1, <2>4
<1>14. ASSUME NEW r \in Requests, Colleague(r)
       PROVE  SheetInv'
  <2>1. colleague' \in 0..MaxColleague /\ UNCHANGED <<sheetVars, mutation, historyVars>>
    BY <1>2, <1>14, BoundsAreNat DEF Colleague
  <2>2. ASSUME Rejected, mutation.pending
        PROVE  Rejected'
    <3>1. r # mutation.awaiting /\ (ItemsCall(r) \/ DocumentsCall(r))
      <4>1. mutation.awaiting \in SheetRequests /\ r \notin SheetRequests
        BY <1>2, <1>14, <2>2 DEF Rejected, Mutation, Colleague
      <4>2. ItemsCall(r) \/ DocumentsCall(r)
        BY <1>14, CallsOfColleague
      <4> QED
        BY <4>1, <4>2
    <3> QED
      BY <1>17, <2>1, <2>2, <3>1
  <2> QED
    BY <1>1, <1>2, <1>3, <1>5, <2>1, <2>2 DEF historyVars, Targeted
<1>15. CASE Discard \/ ServerStep \/ ServerFault
  <2>1. UNCHANGED <<mutation, historyVars, colleague>> /\ UNCHANGED sheetVars
    BY <1>15 DEF Discard, ServerStep, ServerFault
  <2>2. ASSUME Rejected, mutation.pending
        PROVE  Rejected'
    <3>1. CASE Discard
      <4>1. PICK r \in Requests : ~Answers(r) /\ Take(r)
        BY <3>1 DEF Discard
      <4>2. r # mutation.awaiting
        BY <2>2, <4>1 DEF Answers, Rejected
      <4> QED
        BY <1>17, <2>1, <2>2, <4>1, <4>2
    <3>2. CASE ServerStep
      <4>1. \/ \E p \in pricing : ItemsStep(p)
            \/ \E f \in filing : FilingStep(f)
        BY <3>2 DEF ServerStep, ItemsStep
      <4> QED
        BY <1>17, <2>1, <2>2, <4>1
    <3>3. CASE ServerFault
      <4>1. (\E f \in filing : FailDrop(f)) \/ CrashFiling
        BY <3>3 DEF ServerFault
      <4> QED
        BY <1>17, <2>1, <2>2, <4>1
    <3> QED
      BY <1>15, <3>1, <3>2, <3>3
  <2>3. Targeted'
    BY <1>1, <1>2, <2>1, <2>2 DEF Targeted
  <2> QED
    BY <1>2, <1>3, <1>5, <2>1, <2>3 DEF historyVars
<1>16. CASE UNCHANGED vars
  BY <1>3, <1>5, <1>6, <1>16 DEF vars, Rejected
<1> QED
  BY <1>7, <1>8, <1>9, <1>10, <1>11, <1>12, <1>13, <1>14, <1>15, <1>16
     DEF Next, User, AtTheForm, MutationStep, CallRefused, NetworkFails

LEMMA SheetInvInit == Init => SheetInv
<1> SUFFICES ASSUME Init PROVE SheetInv
  OBVIOUS
<1> USE DEF Init
<1>1. defaultValues \in Form
  BY TypesAreTypes DEF defaultValues, Form
<1>2. Idle \in Mutation /\ Idle.rows \in Seq(Rows) /\ ~Idle.pending
  BY DEF Idle, Mutation
<1>3. <<>> \in Seq(Rows) /\ <<>> \in Seq(Row) /\ Len(<<>>) = 0
  OBVIOUS
<1>4. ItemsTypeOK /\ DocumentsTypeOK
  BY MaxFaultsIsNat
  DEF ItemsInit, ItemsTypeOK, AnswersInit, DocumentsInit, DocumentsTypeOK, AnswersTypeOK,
      AnswerState
<1>5. OneHandlerPerCall /\ PricingCalls
  BY DEF OneHandlerPerCall, PricingCalls, ItemsInit, DocumentsInit
<1>6. /\ opening \in 0..MaxOpenings /\ step \in Steps
      /\ colleague \in 0..MaxColleague /\ changes \in 0..MaxChanges
  BY BoundsAreNat DEF Steps
<1>7. origin \in [Contracts -> 0..MaxOpenings]
  BY BoundsAreNat
<1>9. outcome \in [Contracts -> {"none", "success", "failed"}]
  OBVIOUS
<1>10. isOpen \in BOOLEAN /\ slotFiles \in SUBSET Slots
  OBVIOUS
<1>8. Len(wbsRows) <= MaxRows
  BY <1>3, BoundsAreNat
<1> QED
  BY <1>1, <1>2, <1>3, <1>4, <1>5, <1>6, <1>7, <1>8, <1>9, <1>10
     DEF SheetInv, TypeOK, BackendInv, RowsKnown, Targeted

LEMMA SheetInvHolds == Spec => []SheetInv
<1>1. SheetInv /\ [Next]_vars => SheetInv'
  BY SheetInvStep
<1> QED
  BY <1>1, SheetInvInit, PTL DEF Spec

(***************************************************************************)
(* The sheet, its mutation, the rows and handlers of the backend and what  *)
(* the user was told keep their types.                                     *)
(***************************************************************************)
THEOREM SheetTypeCorrect == Spec => []TypeOK
<1>1. SheetInv => TypeOK
  BY DEF SheetInv
<1> QED
  BY <1>1, SheetInvHolds, PTL

(***************************************************************************)
(* The sheet, the colleague and the faults run the documents as            *)
(* ContractDocuments does, so what was proved of it holds here.            *)
(***************************************************************************)
THEOREM SheetImplementsDocuments == Spec => DocumentsSpec
<1>1. Init => AnswersInit /\ DocumentsInit
  BY DEF Init
<1>2. SheetInv /\ [Next]_vars => [DocumentsNext]_<<answer, docVars>>
  <2> SUFFICES ASSUME SheetInv, [Next]_vars
               PROVE  [DocumentsNext]_<<answer, docVars>>
    OBVIOUS
  <2>1. BackendInv /\ [BackendStep]_backendVars
    BY NextIsBackend DEF SheetInv
  <2> QED
    BY <2>1, BackendIsDocuments
<1> QED
  BY <1>1, <1>2, SheetInvHolds, PTL DEF Spec, DocumentsSpec

(***************************************************************************)
(* So a submission that races a colleague's uploads and deletions cannot   *)
(* exceed the number of documents, nor tear more rows and files apart than *)
(* the faults allow.                                                       *)
(***************************************************************************)
THEOREM SheetKeepsDocuments == Spec => [](DocumentsBounded /\ TornBounded)
BY SheetImplementsDocuments, DocumentsWithinBound, TornWithinBound, PTL

-----------------------------------------------------------------------------
(***************************************************************************)
(* IV. The budget guard.  What a handler that passed the guard will add to *)
(* the sum is its gain; it is due.  Only some of the handlers that are due *)
(* can add up: of two updates of one item the second replaces the first.   *)
(***************************************************************************)
RowAmounts == [i \in Item |-> i.amount]

RowsOf(rows, c) == { i \in rows : i.contract = c }

RowIn(rows, k) == CHOOSE i \in rows : i.id = k

LiveIn(rows, k) == \E i \in rows : i.id = k /\ ~i.deleted

Gains(rows) ==
  [p \in Pricing |->
     IF p.op = "create" THEN p.amount ELSE p.amount - RowIn(rows, p.item).amount]

Due(c) ==
  { p \in pricing : /\ p.contract = c
                    /\ p.op = "create" \/ (p.op = "update" /\ LiveIn(items, p.item)) }

Apart(Q) == \A p, q \in Q : p.item = q.item => p = q

\* The ids of rows, and of rows that will be inserted, differ; a row is
\* amended under the contract it belongs to.
IdsUnique ==
  /\ \A i, j \in items : i.id = j.id => i = j
  /\ \A p, q \in pricing : p.op = "create" /\ p.item = q.item => p = q
  /\ \A p \in pricing : p.op = "create" => \A i \in items : i.id # p.item
  /\ \A p \in pricing : p.op # "create" => \E i \in items : i.id = p.item /\ i.contract = p.contract

\* The columns of an amendment are what its call asks for, rounded.
PricesSent ==
  \A p \in pricing : p.op # "create" => p.amount <= p.sent + Rounding

Placed ==
  /\ \A i \in items : i.contract \in exists
  /\ \A p \in pricing : p.contract \in exists

\* A handler of an amendment whose row nobody has changed since it was read.
Untouched(w) == \A i \in items : i.id = w.item => ~i.deleted /\ i.amount = w.old

Fits(c, total) == grossBudget[c] > 0 => total <= grossBudget[c]

\* A total the guard has let pass: the columns round it up, and the guard may
\* have missed a query.
LetPass(c, total) == blind[c] > 0 \/ Fits(c, total - Rounding)

\* While every call has such a handler no item is written, so the one that
\* began last knows the row it amends, and if it passed the guard it fits.
LastBegun ==
  (\A r \in Requests : \E p \in pricing : p.request = r) =>
    \E w \in pricing :
      /\ w.op # "create" => Untouched(w)
      /\ w.op # "amend" => LetPass(w.contract, StoredSum(w.contract) + Gains(items)[w])

\* How far a contract gets over its budget, after so many guards that missed
\* a query.
Excess(missed) == Rounding + (Cardinality(Requests) - 1 + missed) * Span

DueWithin(c) ==
  \A Q \in SUBSET Due(c) : Apart(Q) =>
    StoredSum(c) + SumFunctionOnSet(Gains(items), Q) <= grossBudget[c] + Excess(blind[c])

DueBounded == \A c \in Contracts : grossBudget[c] > 0 => DueWithin(c)

BudgetInv ==
  IsFiniteSet(items) /\ IdsUnique /\ PricesSent /\ Placed /\ LastBegun /\ DueBounded

-----------------------------------------------------------------------------
\* The amounts are finitely many integers.
LEMMA AmountsFinite ==
  /\ IsFiniteSet(Amounts)
  /\ \A a \in Amounts : a \in Int
  /\ \A price \in Prices : price.stored \in Amounts /\ price.sent \in Int
<1> DEFINE stored == [price \in Prices |-> price.stored]
<1>1. stored \in Surjection(Prices, Amounts)
  BY Fun_IsSurj DEF Amounts
<1> HIDE DEF stored
<1>2. IsFiniteSet(Amounts)
  BY <1>1, PricesAreInts, FS_Surjection
<1> QED
  BY <1>2, PricesAreInts DEF Amounts

\* How far two amounts are apart, and what the columns round up.
LEMMA SpanFacts ==
  /\ Span \in Nat
  /\ \A a \in Amounts : a \in Int /\ a <= Span
  /\ \A a, b \in Amounts : a - b <= Span
<1>1. /\ IsFiniteSet(Amounts \cup {0}) /\ Amounts \cup {0} # {}
      /\ \A a \in Amounts \cup {0} : a \in Int
  BY AmountsFinite, FS_AddElement
<1> DEFINE greatest == Max(Amounts \cup {0})
           least == Min(Amounts \cup {0})
<1>2. greatest \in Amounts \cup {0} /\ \A a \in Amounts \cup {0} : greatest >= a
  BY <1>1, MaxIsGreatest
<1>3. least \in Amounts \cup {0} /\ \A a \in Amounts \cup {0} : least <= a
  BY <1>1, MinIsLeast
<1>4. Span = greatest - least
  BY DEF Span
<1> HIDE DEF greatest, least
<1>5. greatest \in Int /\ least \in Int /\ greatest >= 0 /\ least <= 0
  BY <1>1, <1>2, <1>3
<1>6. \A a \in Amounts : a \in Int /\ greatest >= a /\ least <= a
  BY <1>1, <1>2, <1>3
<1>7. Span \in Nat
  BY <1>4, <1>5
<1>8. ASSUME NEW a \in Amounts
      PROVE  a <= Span
  BY <1>4, <1>5, <1>6
<1>9. ASSUME NEW a \in Amounts, NEW b \in Amounts
      PROVE  a - b <= Span
  <2>1. a \in Int /\ b \in Int /\ greatest >= a /\ least <= b
    BY <1>6
  <2> QED
    BY <1>4, <1>5, <2>1
<1> QED
  BY <1>6, <1>7, <1>8, <1>9

LEMMA RoundingFacts ==
  /\ Rounding \in Nat
  /\ \A price \in Prices : price.stored <= price.sent + Rounding
<1> DEFINE up == [price \in Prices |-> price.stored - price.sent]
           ups == { price.stored - price.sent : price \in Prices }
<1>1. up \in Surjection(Prices, ups)
  BY Fun_IsSurj
<1>2. \A price \in Prices : /\ price.stored \in Int /\ price.sent \in Int
                             /\ price.stored - price.sent \in ups
  BY AmountsFinite
<1>3. \A n \in ups \cup {0} : n \in Int
  BY <1>2
<1>4. Rounding = Max(ups \cup {0})
  BY DEF Rounding
<1> HIDE DEF up, ups
<1>5. IsFiniteSet(ups \cup {0})
  BY <1>1, PricesAreInts, FS_Surjection, FS_AddElement
<1>6. Rounding \in ups \cup {0} /\ \A n \in ups \cup {0} : Rounding >= n
  BY <1>3, <1>4, <1>5, MaxIsGreatest
<1> QED
  BY <1>2, <1>3, <1>6

LEMMA ExcessFacts ==
  ASSUME NEW n \in Nat
  PROVE  /\ Excess(n) \in Nat
         /\ Excess(n) >= Rounding + (Cardinality(Requests) - 1) * Span
         /\ n > 0 => Excess(n) >= Rounding + (Cardinality(Requests) - 1) * Span + Span
         /\ Excess(n + 1) = Excess(n) + Span
         /\ \A m \in Nat : m >= n => Excess(m) >= Excess(n)
<1> DEFINE N == Cardinality(Requests) - 1
<1>1. N \in Nat /\ Span \in Nat /\ Rounding \in Nat
  BY CallsCounted, SpanFacts, RoundingFacts
<1>2. \A m : Excess(m) = Rounding + (N + m) * Span
  BY DEF Excess
<1> HIDE DEF N
<1>3. \A x, y, z \in Nat : (x + y) * z = x * z + y * z /\ x * z \in Nat
  OBVIOUS
<1>4. \A m \in Nat : Excess(m) = Rounding + N * Span + m * Span /\ m * Span \in Nat
  BY <1>1, <1>2, <1>3
<1>5. N * Span \in Nat
  BY <1>1, <1>3
<1>6. (n + 1) * Span = n * Span + Span
  BY <1>1, <1>3
<1>7. n > 0 => n * Span >= Span
  BY <1>1, <1>3
<1>8. \A m \in Nat : m >= n => m * Span >= n * Span
  <2> SUFFICES ASSUME NEW m \in Nat, m >= n PROVE m * Span >= n * Span
    OBVIOUS
  <2>1. m - n \in Nat /\ m = (m - n) + n
    OBVIOUS
  <2>2. m * Span = (m - n) * Span + n * Span /\ (m - n) * Span \in Nat
    BY <1>1, <1>3, <2>1
  <2>3. n * Span \in Nat
    BY <1>1, <1>3
  <2> QED
    BY <2>2, <2>3
<1>9. n + 1 \in Nat
  OBVIOUS
<1>10. /\ Excess(n) = Rounding + N * Span + n * Span /\ n * Span \in Nat
       /\ Excess(n + 1) = Rounding + N * Span + (n + 1) * Span
  BY <1>4, <1>9
<1>11. ASSUME NEW m \in Nat, m >= n
       PROVE  Excess(m) >= Excess(n)
  <2>1. Excess(m) = Rounding + N * Span + m * Span /\ m * Span \in Nat
    BY <1>4
  <2>2. m * Span >= n * Span
    BY <1>8, <1>11
  <2> QED
    BY <1>1, <1>5, <1>10, <2>1, <2>2
<1>12. /\ Excess(n) \in Nat /\ Excess(n) >= Rounding + N * Span
       /\ n > 0 => Excess(n) >= Rounding + N * Span + Span
       /\ Excess(n + 1) = Excess(n) + Span
  BY <1>1, <1>5, <1>6, <1>7, <1>10
<1> QED
  BY <1>11, <1>12 DEF N

\* The sum of the rows of a contract, as a sum over one function.
LEMMA SumOfRows ==
  ASSUME NEW rows \in SUBSET Item, IsFiniteSet(rows), NEW c
  PROVE  /\ SumFunction([i \in RowsOf(rows, c) |-> i.amount])
              = SumFunctionOnSet(RowAmounts, RowsOf(rows, c))
         /\ SumFunctionOnSet(RowAmounts, RowsOf(rows, c)) \in Int
         /\ IsFiniteSet(RowsOf(rows, c))
<1> DEFINE own == [i \in RowsOf(rows, c) |-> i.amount]
<1>1. RowsOf(rows, c) \in SUBSET rows /\ IsFiniteSet(RowsOf(rows, c))
  BY FS_Subset DEF RowsOf
<1>2. \A i \in RowsOf(rows, c) : own[i] = RowAmounts[i] /\ RowAmounts[i] \in Int
  BY <1>1, AmountsFinite DEF RowAmounts, Item
<1>3. DOMAIN own = RowsOf(rows, c)
  OBVIOUS
<1> HIDE DEF own
<1>4. SumFunctionOnSet(own, RowsOf(rows, c)) = SumFunctionOnSet(RowAmounts, RowsOf(rows, c))
  BY <1>1, <1>2, SumSame
<1>5. SumFunctionOnSet(RowAmounts, RowsOf(rows, c)) \in Int
  BY <1>1, <1>2, SumInt
<1>6. SumFunction(own) = SumFunctionOnSet(own, RowsOf(rows, c))
  BY <1>3 DEF SumFunction
<1> QED
  BY <1>1, <1>4, <1>5, <1>6 DEF own

LEMMA StoredSumOfRows ==
  ASSUME BackendInv, IsFiniteSet(items), NEW c
  PROVE  /\ StoredSum(c) = SumFunctionOnSet(RowAmounts, RowsOf(items, c))
         /\ StoredSum(c) \in Int
<1>1. items \in SUBSET Item
  BY DEF BackendInv, ItemsTypeOK
<1>2. StoredSum(c) = SumFunction([i \in RowsOf(items, c) |-> i.amount])
  BY DEF StoredSum, ItemsOf, RowsOf
<1> QED
  BY <1>1, <1>2, SumOfRows

\* No more handlers than the calls they can belong to.
LEMMA FewWrites ==
  ASSUME BackendInv, NEW Q \in SUBSET pricing, NEW T \in SUBSET Requests,
         \A p \in Q : p.request \in T
  PROVE  IsFiniteSet(Q) /\ Cardinality(Q) \in Nat /\ Cardinality(Q) <= Cardinality(T)
<1> DEFINE callOf == [p \in Q |-> p.request]
<1>1. callOf \in [Q -> T]
  OBVIOUS
<1>2. callOf \in Injection(Q, T)
  BY <1>1, Fun_IsInj DEF BackendInv, PricingCalls
<1>3. IsFiniteSet(T)
  BY RequestsFinite, FS_Subset
<1> HIDE DEF callOf
<1> QED
  BY <1>2, <1>3, FS_Injection, FS_CardinalityType

\* All calls but one, and all but two.
LEMMA OtherCalls ==
  ASSUME NEW r \in Requests
  PROVE  /\ Cardinality(Requests \ {r}) = Cardinality(Requests) - 1
         /\ \A s \in Requests \ {r} :
              Cardinality(Requests \ {r, s}) = Cardinality(Requests) - 2
<1>1. /\ IsFiniteSet(Requests \ {r})
      /\ Cardinality(Requests \ {r}) = Cardinality(Requests) - 1
  BY RequestsFinite, FS_RemoveElement
<1>2. ASSUME NEW s \in Requests \ {r}
      PROVE  Cardinality(Requests \ {r, s}) = Cardinality(Requests) - 2
  <2>1. Requests \ {r, s} = (Requests \ {r}) \ {s}
    OBVIOUS
  <2>2. Cardinality((Requests \ {r}) \ {s}) = Cardinality(Requests \ {r}) - 1
    BY <1>1, FS_RemoveElement
  <2> QED
    BY <1>1, <2>1, <2>2, CallsCounted
<1> QED
  BY <1>1, <1>2

\* What a handler that is due can gain.
LEMMA GainAtMost ==
  ASSUME BackendInv, IdsUnique, NEW p \in pricing
  PROVE  /\ Gains(items)[p] \in Int /\ Gains(items)[p] <= Span
         /\ p.op = "create" => Gains(items)[p] = p.amount
         /\ p.op # "create" => \A i \in items : i.id = p.item => Gains(items)[p] = p.amount - i.amount
<1>1. p \in Pricing /\ p.amount \in Amounts
  BY DEF BackendInv, ItemsTypeOK, Pricing
<1>2. p.amount \in Int /\ p.amount <= Span
  BY <1>1, SpanFacts
<1>3. CASE p.op = "create"
  BY <1>1, <1>2, <1>3 DEF Gains
<1>4. CASE p.op # "create"
  <2>1. PICK i \in items : i.id = p.item
    BY <1>4 DEF IdsUnique
  <2>2. RowIn(items, p.item) = i /\ \A j \in items : j.id = p.item => j = i
    BY <2>1 DEF RowIn, IdsUnique
  <2>3. i.amount \in Int /\ p.amount - i.amount <= Span
    BY <1>1, SpanFacts DEF BackendInv, ItemsTypeOK, Item
  <2>4. Gains(items)[p] = p.amount - i.amount
    BY <1>1, <1>4, <2>2 DEF Gains
  <2> QED
    BY <1>2, <1>4, <2>2, <2>3, <2>4
<1> QED
  BY <1>3, <1>4

\* What a set of handlers can gain together.
LEMMA GainsAtMost ==
  ASSUME BackendInv, IdsUnique, NEW Q \in SUBSET pricing, NEW T \in SUBSET Requests,
         \A p \in Q : p.request \in T
  PROVE  /\ IsFiniteSet(Q)
         /\ SumFunctionOnSet(Gains(items), Q) \in Int
         /\ SumFunctionOnSet(Gains(items), Q) <= Cardinality(T) * Span
<1>1. /\ IsFiniteSet(Q) /\ Cardinality(Q) \in Nat /\ Cardinality(Q) <= Cardinality(T)
  BY FewWrites
<1>2. Cardinality(T) \in Nat
  BY RequestsFinite, FS_Subset, FS_CardinalityType
<1>3. \A p \in Q : Gains(items)[p] \in Int /\ Gains(items)[p] <= Span
  BY GainAtMost
<1>4. SumFunctionOnSet(Gains(items), Q) \in Int
  BY <1>1, <1>3, SumInt
<1>5. SumFunctionOnSet(Gains(items), Q) <= Cardinality(Q) * Span
  <2>1. Span \in Int
    BY SpanFacts
  <2> QED
    BY <1>1, <1>3, <2>1, SumAtMost
<1>6. /\ Cardinality(Q) * Span \in Nat /\ Cardinality(T) * Span \in Nat
      /\ Cardinality(Q) * Span <= Cardinality(T) * Span
  <2>1. \A k, n, m \in Nat : k <= n => k * m \in Nat /\ n * m \in Nat /\ k * m <= n * m
    OBVIOUS
  <2> QED
    BY <1>1, <1>2, <2>1, SpanFacts
<1> QED
  BY <1>1, <1>4, <1>5, <1>6

-----------------------------------------------------------------------------
(***************************************************************************)
(* The steps.  The handlers change as one begins, goes on or ends.  Rows   *)
(* change when one is inserted or replaced by one of the same id and       *)
(* contract.                                                               *)
(***************************************************************************)
Begun(p) == pricing' = pricing \cup {p}

Ended(p) == pricing' = pricing \ {p}

Inserted(i) == items' = items \cup {i}

Replaced(i, j) == items' = (items \ {i}) \cup {j}

\* A guard of c that misses a query.
Misses(c) == blind' = [blind EXCEPT ![c] = @ + 1]

\* CreateLineItem passes its guard.
Admits(r, c, sort, price) ==
  /\ answer[r] = "free" /\ answer' = [answer EXCEPT ![r] = "busy"]
  /\ c \in exists
  /\ (Fits(c, StoredSum(c) + price.sent) /\ UNCHANGED blind) \/ Misses(c)
  /\ \E k \in UnusedItems :
       Begun([request |-> r, op |-> "create", item |-> k, contract |-> c, sort |-> sort,
              amount |-> price.stored])
  /\ UNCHANGED <<exists, grossBudget, items>>

\* UpdateLineItem passes its guard.
AdmitsUpdate(p) ==
  /\ p.op = "amend"
  /\ \/ Fits(p.contract, StoredSum(p.contract) - p.old + p.sent) /\ UNCHANGED blind
     \/ Misses(p.contract)
  /\ pricing' = (pricing \ {p}) \cup {[p EXCEPT !.op = "update"]}
  /\ UNCHANGED <<answer, exists, grossBudget, items>>

Inserts(p) ==
  /\ p.op = "create" /\ Ended(p)
  /\ Inserted([id |-> p.item, contract |-> p.contract, sort |-> p.sort,
               amount |-> p.amount, deleted |-> FALSE])
  /\ UNCHANGED <<exists, grossBudget, blind>>

Updates(p, i) ==
  /\ p.op = "update" /\ Ended(p)
  /\ i.id = p.item /\ ~i.deleted
  /\ Replaced(i, [i EXCEPT !.amount = p.amount])
  /\ UNCHANGED <<exists, grossBudget, blind>>

\* Every other end of a handler, or of all of them, and every other call.
Quits ==
  /\ pricing' \subseteq pricing
  /\ UNCHANGED blind \/ \E c \in Contracts : Misses(c)
  /\ UNCHANGED <<exists, grossBudget, items>>

LEMMA StepKinds ==
  ASSUME BackendInv, IdsUnique, [BackendStep]_backendVars
  PROVE  \/ \E r \in Requests, c \in Contracts, b \in Nat : CreateContract(r, c, b)
         \/ \E r \in Requests, c \in Contracts, sort \in Nat, a \in Prices :
              Admits(r, c, sort, a)
         \/ \E r \in Requests, i \in items, a \in Prices : BeginAmendment(r, i, a)
         \/ \E r \in Requests, i \in items : DeleteLineItem(r, i)
         \/ \E p \in pricing : AdmitsUpdate(p) \/ Inserts(p) \/ \E i \in items : Updates(p, i)
         \/ Quits
<1>1. ASSUME NEW r \in Requests, ItemsCall(r)
      PROVE  \/ \E c \in Contracts, b \in Nat : CreateContract(r, c, b)
             \/ \E c \in Contracts, sort \in Nat, a \in Prices : Admits(r, c, sort, a)
             \/ \E i \in items, a \in Prices : BeginAmendment(r, i, a)
             \/ \E i \in items : DeleteLineItem(r, i)
             \/ Quits
  <2>1. ASSUME NEW c \in Contracts, NEW sort \in Nat, NEW a \in Prices,
               CheckLineItem(r, c, sort, a)
        PROVE  Admits(r, c, sort, a) \/ Quits
    <3>1. Fresh(UnusedItems) \in UnusedItems
      BY <2>1 DEF CheckLineItem, Fresh
    <3>2. PICK reads \in {"both", "contract"} :
            /\ GuardReads(c, reads)
            /\ IF c \in exists /\ FitsBudget(c, SumRead(c, reads) + a.sent, a.sent)
                 THEN /\ pricing' = pricing \cup
                           {[request |-> r, op |-> "create", item |-> Fresh(UnusedItems),
                             contract |-> c, sort |-> sort, amount |-> a.stored]}
                      /\ Answered(r, "busy")
                 ELSE /\ Answered(r, "refused")
                      /\ UNCHANGED pricing
      BY <2>1 DEF CheckLineItem
    <3>3. answer[r] = "free" /\ UNCHANGED <<exists, grossBudget, items>>
      BY <2>1 DEF CheckLineItem
    <3>4. (reads = "both" /\ UNCHANGED blind) \/ Misses(c)
      BY <3>2 DEF GuardReads, Misses
    <3>5. CASE c \in exists /\ FitsBudget(c, SumRead(c, reads) + a.sent, a.sent)
      <4>1. /\ Begun([request |-> r, op |-> "create", item |-> Fresh(UnusedItems),
                      contract |-> c, sort |-> sort, amount |-> a.stored])
            /\ answer' = [answer EXCEPT ![r] = "busy"]
        BY <3>2, <3>5 DEF Begun, Answered
      <4>2. (Fits(c, StoredSum(c) + a.sent) /\ UNCHANGED blind) \/ Misses(c)
        BY <3>4, <3>5 DEF Fits, FitsBudget, SumRead
      <4> QED
        BY <3>1, <3>3, <3>5, <4>1, <4>2 DEF Admits
    <3>6. CASE ~ (c \in exists /\ FitsBudget(c, SumRead(c, reads) + a.sent, a.sent))
      BY <3>2, <3>3, <3>4, <3>6 DEF Quits
    <3> QED
      BY <3>5, <3>6
  <2>2. ASSUME RefuseContract(r)
        PROVE  Quits
    BY <2>2 DEF RefuseContract, Quits, itemVars
  <2> QED
    BY <1>1, <2>1, <2>2 DEF ItemsCall
<1>2. ASSUME NEW p \in pricing, ItemsStep(p)
      PROVE  \/ AdmitsUpdate(p) \/ Inserts(p) \/ \E i \in items : Updates(p, i)
             \/ Quits
  <2>1. CASE CheckAmendment(p)
    <3>1. PICK reads \in {"both", "contract", "neither"} :
            /\ GuardReads(p.contract, reads)
            /\ IF \/ reads = "neither"
                  \/ FitsBudget(p.contract, SumRead(p.contract, reads) - p.old + p.sent, p.sent)
                 THEN /\ pricing' = (pricing \ {p}) \cup {[p EXCEPT !.op = "update"]}
                      /\ UNCHANGED answer
                 ELSE /\ pricing' = pricing \ {p}
                      /\ Answered(p.request, "refused")
      BY <2>1 DEF CheckAmendment
    <3>2. p.op = "amend" /\ p.contract \in Contracts /\ UNCHANGED <<exists, grossBudget, items>>
      BY <2>1 DEF CheckAmendment, BackendInv, ItemsTypeOK, Pricing
    <3>3. (reads = "both" /\ UNCHANGED blind) \/ Misses(p.contract)
      BY <3>1 DEF GuardReads, Misses
    <3>4. CASE \/ reads = "neither"
               \/ FitsBudget(p.contract, SumRead(p.contract, reads) - p.old + p.sent, p.sent)
      <4>1. \/ Fits(p.contract, StoredSum(p.contract) - p.old + p.sent) /\ UNCHANGED blind
            \/ Misses(p.contract)
        BY <3>3, <3>4 DEF Fits, FitsBudget, SumRead
      <4> QED
        BY <3>1, <3>2, <3>4, <4>1 DEF AdmitsUpdate
    <3>5. CASE ~ (\/ reads = "neither"
                  \/ FitsBudget(p.contract, SumRead(p.contract, reads) - p.old + p.sent, p.sent))
      BY <3>1, <3>2, <3>3, <3>5 DEF Quits
    <3> QED
      BY <3>4, <3>5
  <2>2. CASE WriteItem(p) /\ p.op = "create"
    BY <2>2 DEF WriteItem, Inserts, Ended, Inserted
  <2>3. CASE WriteItem(p) /\ p.op # "create"
    <3>1. /\ p.op = "update" /\ pricing' = pricing \ {p}
          /\ UNCHANGED <<exists, grossBudget, blind>>
          /\ items' = { IF i.id = p.item /\ ~i.deleted
                          THEN [i EXCEPT !.amount = p.amount] ELSE i : i \in items }
      BY <2>3 DEF WriteItem
    <3>2. CASE LiveIn(items, p.item)
      <4>1. PICK i \in items : i.id = p.item /\ ~i.deleted
        BY <3>2 DEF LiveIn
      <4>2. \A j \in items \ {i} : j.id # p.item
        BY <4>1 DEF IdsUnique
      <4>3. Replaced(i, [i EXCEPT !.amount = p.amount])
        BY <3>1, <4>1, <4>2, Zenon DEF Replaced
      <4> QED
        BY <3>1, <4>1, <4>3 DEF Updates, Ended
    <3>3. CASE ~ LiveIn(items, p.item)
      <4>1. items' = items
        BY <3>1, <3>3, Zenon DEF LiveIn
      <4> QED
        BY <3>1, <4>1 DEF Quits
    <3> QED
      BY <3>2, <3>3
  <2>4. CASE FailWrite(p)
    BY <2>4 DEF FailWrite, Quits
  <2> QED
    BY <1>2, <2>1, <2>2, <2>3, <2>4 DEF ItemsStep
<1>3. CASE Crash \/ UNCHANGED itemVars
  BY <1>3 DEF Crash, itemVars, Quits
<1> QED
  BY <1>1, <1>2, <1>3 DEF BackendStep, backendVars

LEMMA RowsStep ==
  ASSUME BackendInv, IsFiniteSet(items), IdsUnique, Placed, [BackendStep]_backendVars
  PROVE  IsFiniteSet(items') /\ IdsUnique' /\ Placed'
<1> USE DEF IdsUnique, Placed
<1>0. items \in SUBSET Item /\ pricing \in SUBSET Pricing
  BY DEF BackendInv, ItemsTypeOK
<1>1. ASSUME NEW r \in Requests, NEW c \in Contracts, NEW b \in Nat, CreateContract(r, c, b)
      PROVE  IsFiniteSet(items') /\ IdsUnique' /\ Placed'
  BY <1>1 DEF CreateContract
<1>2. ASSUME NEW r \in Requests, NEW c \in Contracts, NEW sort \in Nat, NEW a \in Prices,
             Admits(r, c, sort, a)
      PROVE  IsFiniteSet(items') /\ IdsUnique' /\ Placed'
  <2>1. PICK k \in UnusedItems :
          Begun([request |-> r, op |-> "create", item |-> k, contract |-> c, sort |-> sort,
                 amount |-> a.stored])
    BY <1>2 DEF Admits
  <2> DEFINE n == [request |-> r, op |-> "create", item |-> k, contract |-> c, sort |-> sort,
                   amount |-> a.stored]
  <2>2. pricing' = pricing \cup {n} /\ n.op = "create" /\ n.item = k /\ n.contract = c
    BY <2>1 DEF Begun
  <2> HIDE DEF n
  <2>3. (\A i \in items : i.id # k) /\ \A q \in pricing : q.item # k
    BY DEF UnusedItems
  <2>4. items' = items /\ exists' = exists /\ c \in exists
    BY <1>2 DEF Admits
  <2> QED
    BY <2>2, <2>3, <2>4
<1>3. ASSUME NEW r \in Requests, NEW i \in items, NEW a \in Prices, BeginAmendment(r, i, a)
      PROVE  IsFiniteSet(items') /\ IdsUnique' /\ Placed'
  <2> DEFINE n == [request |-> r, op |-> "amend", item |-> i.id, contract |-> i.contract,
                   old |-> i.amount, amount |-> a.stored, sent |-> a.sent]
  <2>1. /\ pricing' = pricing \cup {n} /\ n.op = "amend" /\ n.item = i.id
        /\ n.contract = i.contract /\ items' = items /\ exists' = exists
    BY <1>3 DEF BeginAmendment
  <2> HIDE DEF n
  <2> QED
    BY <2>1
<1>4. ASSUME NEW i \in items, NEW j, j.id = i.id, j.contract = i.contract, Replaced(i, j),
             pricing' \subseteq pricing, exists' = exists
      PROVE  IsFiniteSet(items') /\ IdsUnique' /\ Placed'
  <2>1. items' = (items \ {i}) \cup {j}
    BY <1>4 DEF Replaced
  <2>2. IsFiniteSet(items')
    <3>1. IsFiniteSet(items \ {i})
      BY FS_RemoveElement
    <3> QED
      BY <2>1, <3>1, FS_AddElement
  <2> QED
    BY <1>4, <2>1, <2>2
<1>5. ASSUME NEW r \in Requests, NEW i \in items, DeleteLineItem(r, i)
      PROVE  IsFiniteSet(items') /\ IdsUnique' /\ Placed'
  <2> DEFINE j == [i EXCEPT !.deleted = TRUE]
  <2>1. j.id = i.id /\ j.contract = i.contract
    BY <1>0 DEF Item
  <2>2. Replaced(i, j) /\ pricing' \subseteq pricing /\ exists' = exists
    BY <1>5 DEF DeleteLineItem, Replaced
  <2> HIDE DEF j
  <2> QED
    BY <1>4, <2>1, <2>2
<1>6. ASSUME NEW p \in pricing, AdmitsUpdate(p)
      PROVE  IsFiniteSet(items') /\ IdsUnique' /\ Placed'
  <2> DEFINE n == [p EXCEPT !.op = "update"]
  <2>1. n.op = "update" /\ n.item = p.item /\ n.contract = p.contract
    BY <1>0, <1>6 DEF AdmitsUpdate, Pricing
  <2>2. /\ pricing' = (pricing \ {p}) \cup {n} /\ items' = items /\ exists' = exists
        /\ p.op = "amend"
    BY <1>6 DEF AdmitsUpdate
  <2> HIDE DEF n
  <2> QED
    BY <2>1, <2>2
<1>7. ASSUME NEW p \in pricing, Inserts(p)
      PROVE  IsFiniteSet(items') /\ IdsUnique' /\ Placed'
  <2> DEFINE n == [id |-> p.item, contract |-> p.contract, sort |-> p.sort,
                   amount |-> p.amount, deleted |-> FALSE]
  <2>1. /\ items' = items \cup {n} /\ n.id = p.item /\ n.contract = p.contract
        /\ pricing' = pricing \ {p} /\ exists' = exists /\ p.op = "create"
    BY <1>7 DEF Inserts, Inserted, Ended
  <2> HIDE DEF n
  <2>2. IsFiniteSet(items')
    BY <2>1, FS_AddElement
  <2> QED
    BY <2>1, <2>2
<1>8. ASSUME NEW p \in pricing, NEW i \in items, Updates(p, i)
      PROVE  IsFiniteSet(items') /\ IdsUnique' /\ Placed'
  <2> DEFINE j == [i EXCEPT !.amount = p.amount]
  <2>1. j.id = i.id /\ j.contract = i.contract
    BY <1>0 DEF Item
  <2>2. Replaced(i, j) /\ pricing' \subseteq pricing /\ exists' = exists
    BY <1>8 DEF Updates, Ended
  <2> HIDE DEF j
  <2> QED
    BY <1>4, <2>1, <2>2
<1>9. CASE Quits
  BY <1>9 DEF Quits
<1> QED
  BY <1>1, <1>2, <1>3, <1>5, <1>6, <1>7, <1>8, <1>9, StepKinds

\* The gain of an amendment, from the one row that has its id.
LEMMA GainOfAmendment ==
  ASSUME NEW rows, \A i, j \in rows : i.id = j.id => i = j,
         NEW p \in Pricing, p.op # "create", NEW i \in rows, i.id = p.item
  PROVE  Gains(rows)[p] = p.amount - i.amount
<1>1. RowIn(rows, p.item) = i
  BY DEF RowIn
<1> QED
  BY <1>1 DEF Gains

LEMMA GainOfCreation ==
  ASSUME NEW rows, NEW p \in Pricing, p.op = "create"
  PROVE  Gains(rows)[p] = p.amount
BY DEF Gains

LEMMA PricesSentStep ==
  ASSUME BackendInv, IdsUnique, PricesSent, [BackendStep]_backendVars
  PROVE  PricesSent'
<1> USE DEF PricesSent
<1>0. pricing \in SUBSET Pricing
  BY DEF BackendInv, ItemsTypeOK
<1>1. ASSUME NEW r \in Requests, NEW i \in items, NEW a \in Prices, BeginAmendment(r, i, a)
      PROVE  PricesSent'
  BY <1>1, RoundingFacts DEF BeginAmendment
<1>2. ASSUME NEW r \in Requests, NEW c \in Contracts, NEW sort \in Nat, NEW a \in Prices,
             Admits(r, c, sort, a)
      PROVE  PricesSent'
  BY <1>2 DEF Admits, Begun
<1>3. ASSUME NEW p \in pricing, AdmitsUpdate(p)
      PROVE  PricesSent'
  <2>1. [p EXCEPT !.op = "update"].amount = p.amount /\ [p EXCEPT !.op = "update"].sent = p.sent
    BY <1>0, <1>3 DEF AdmitsUpdate, Pricing
  <2> QED
    BY <1>3, <2>1 DEF AdmitsUpdate
<1>4. CASE pricing' \subseteq pricing
  BY <1>4
<1> QED
  BY <1>1, <1>2, <1>3, <1>4, StepKinds
  DEF CreateContract, DeleteLineItem, Inserts, Updates, Ended, Quits

LEMMA LastBegunStep ==
  ASSUME BackendInv, BudgetInv, [BackendStep]_backendVars, ItemsTypeOK'
  PROVE  LastBegun'
<1> SUFFICES ASSUME \A r \in Requests : \E p \in pricing' : p.request = r
             PROVE  \E w \in pricing' :
                      /\ w.op # "create" => Untouched(w)'
                      /\ w.op # "amend" =>
                           LetPass(w.contract, StoredSum(w.contract) + Gains(items)[w])'
  BY DEF LastBegun
<1>0. /\ \A p \in pricing : p.request \in Requests /\ answer[p.request] = "busy"
      /\ \A p, q \in pricing : p.request = q.request => p = q
      /\ items \in SUBSET Item /\ pricing \in SUBSET Pricing /\ pricing' \in SUBSET Pricing
      /\ blind \in [Contracts -> Nat] /\ \A p \in pricing : p.contract \in Contracts
  BY DEF BackendInv, PricingCalls, ItemsTypeOK, Pricing
<1>1. ASSUME NEW r \in Requests, answer[r] = "free", pricing' = pricing
      PROVE  FALSE
  BY <1>0, <1>1
<1>2. ASSUME NEW r \in Requests, NEW c \in Contracts, NEW b \in Nat, CreateContract(r, c, b)
      PROVE  FALSE
  BY <1>1, <1>2 DEF CreateContract
<1>3. ASSUME NEW r \in Requests, NEW i \in items, DeleteLineItem(r, i)
      PROVE  FALSE
  BY <1>1, <1>3 DEF DeleteLineItem
<1>4. ASSUME NEW p \in pricing, Ended(p)
      PROVE  FALSE
  BY <1>0, <1>4 DEF Ended
<1>5. ASSUME NEW r \in Requests, NEW c \in Contracts, NEW sort \in Nat, NEW a \in Prices,
             Admits(r, c, sort, a)
      PROVE  \E w \in pricing' :
                      /\ w.op # "create" => Untouched(w)'
                      /\ w.op # "amend" =>
                           LetPass(w.contract, StoredSum(w.contract) + Gains(items)[w])'
  <2>1. PICK k \in UnusedItems :
          Begun([request |-> r, op |-> "create", item |-> k, contract |-> c, sort |-> sort,
                 amount |-> a.stored])
    BY <1>5 DEF Admits
  <2> DEFINE n == [request |-> r, op |-> "create", item |-> k, contract |-> c, sort |-> sort,
                   amount |-> a.stored]
  <2>2. n \in pricing' /\ n.op = "create" /\ n.contract = c /\ n.amount = a.stored
    BY <2>1 DEF Begun
  <2> HIDE DEF n
  <2>3. Gains(items')[n] = a.stored
    BY <1>0, <2>2, GainOfCreation
  <2>4. items' = items /\ grossBudget' = grossBudget /\ StoredSum(c)' = StoredSum(c)
    BY <1>5 DEF Admits, StoredSum, ItemsOf
  <2>5. LetPass(c, StoredSum(c) + a.stored)'
    <3>1. CASE Misses(c)
      <4>1. blind'[c] = blind[c] + 1 /\ blind[c] \in Nat
        BY <1>0, <3>1 DEF Misses
      <4>2. blind'[c] > 0
        BY <4>1
      <4> QED
        BY <4>2 DEF LetPass
    <3>2. CASE Fits(c, StoredSum(c) + a.sent)
      <4>1. /\ StoredSum(c) \in Int /\ a.sent \in Int /\ a.stored \in Int /\ Rounding \in Nat
            /\ a.stored <= a.sent + Rounding /\ grossBudget[c] \in Nat
        BY StoredSumOfRows, AmountsFinite, RoundingFacts DEF BudgetInv, BackendInv, ItemsTypeOK
      <4>2. Fits(c, (StoredSum(c)' + a.stored) - Rounding)
        BY <2>4, <3>2, <4>1 DEF Fits
      <4> QED
        BY <2>4, <4>2 DEF LetPass, Fits
    <3> QED
      BY <1>5, <3>1, <3>2 DEF Admits
  <2> QED
    BY <2>2, <2>3, <2>5 DEF LetPass, Fits
<1>6. ASSUME NEW r \in Requests, NEW i \in items, NEW a \in Prices, BeginAmendment(r, i, a)
      PROVE  \E w \in pricing' :
                      /\ w.op # "create" => Untouched(w)'
                      /\ w.op # "amend" =>
                           LetPass(w.contract, StoredSum(w.contract) + Gains(items)[w])'
  <2> DEFINE n == [request |-> r, op |-> "amend", item |-> i.id, contract |-> i.contract,
                   old |-> i.amount, amount |-> a.stored, sent |-> a.sent]
  <2>1. /\ n \in pricing' /\ n.op = "amend" /\ n.item = i.id /\ n.old = i.amount
        /\ items' = items /\ ~i.deleted
    BY <1>6 DEF BeginAmendment
  <2> HIDE DEF n
  <2>2. \A j \in items : j.id = n.item => j = i
    BY <2>1 DEF BudgetInv, IdsUnique
  <2>3. Untouched(n)'
    BY <2>1, <2>2 DEF Untouched
  <2> QED
    BY <2>1, <2>3
<1>7. ASSUME NEW p \in pricing, AdmitsUpdate(p)
      PROVE  \E w \in pricing' :
                      /\ w.op # "create" => Untouched(w)'
                      /\ w.op # "amend" =>
                           LetPass(w.contract, StoredSum(w.contract) + Gains(items)[w])'
  <2> DEFINE n == [p EXCEPT !.op = "update"]
  <2>1. /\ n.op = "update" /\ n.item = p.item /\ n.contract = p.contract
        /\ n.old = p.old /\ n.amount = p.amount /\ n.request = p.request
        /\ p.contract \in Contracts
    BY <1>0, <1>7 DEF AdmitsUpdate, Pricing
  <2>2. /\ pricing' = (pricing \ {p}) \cup {n} /\ items' = items
        /\ grossBudget' = grossBudget /\ p.op = "amend"
        /\ \/ Fits(p.contract, StoredSum(p.contract) - p.old + p.sent) /\ UNCHANGED blind
           \/ Misses(p.contract)
    BY <1>7 DEF AdmitsUpdate
  <2> HIDE DEF n
  <2>3. \A r \in Requests : \E q \in pricing : q.request = r
    BY <2>1, <2>2
  <2>4. PICK w \in pricing : /\ w.op # "create" => Untouched(w)
                             /\ w.op # "amend" =>
                                  LetPass(w.contract, StoredSum(w.contract) + Gains(items)[w])
    BY <2>3 DEF BudgetInv, LastBegun
  <2>5. CASE w # p
    <3>1. w \in pricing'
      BY <2>2, <2>5
    <3>2. w.op # "create" => Untouched(w)'
      BY <2>2, <2>4 DEF Untouched
    <3>3. w.op # "amend" =>
            LetPass(w.contract, StoredSum(w.contract) + Gains(items)[w])'
      <4>1. \A c \in Contracts : blind[c] > 0 => blind'[c] > 0
        BY <1>0, <2>2 DEF Misses
      <4>2. w.contract \in Contracts
        BY <1>0
      <4> QED
        BY <2>2, <2>4, <4>1, <4>2 DEF LetPass, Fits, StoredSum, ItemsOf
    <3> QED
      BY <3>1, <3>2, <3>3
  <2>6. CASE w = p
    <3>1. Untouched(n)'
      BY <2>1, <2>2, <2>4, <2>6 DEF Untouched
    <3>2. PICK i \in items : i.id = n.item
      BY <2>1, <2>2 DEF BudgetInv, IdsUnique
    <3>3. i.amount = p.old
      BY <2>1, <2>2, <3>1, <3>2 DEF Untouched
    <3>4. n \in Pricing /\ n.op # "create"
      BY <1>0, <2>1, <2>2
    <3>5. \A j, l \in items' : j.id = l.id => j = l
      BY <2>2 DEF BudgetInv, IdsUnique
    <3>6. Gains(items')[n] = n.amount - i.amount
      BY <2>2, <3>2, <3>4, <3>5, GainOfAmendment
    <3>7. /\ StoredSum(p.contract) \in Int /\ i.amount \in Int /\ p.amount \in Int
          /\ p.sent \in Int /\ Rounding \in Nat /\ grossBudget[p.contract] \in Nat
          /\ p.amount <= p.sent + Rounding
          /\ StoredSum(p.contract)' = StoredSum(p.contract)
      <4>1. /\ StoredSum(p.contract) \in Int /\ Rounding \in Nat
            /\ grossBudget[p.contract] \in Nat
        BY <2>1, StoredSumOfRows, RoundingFacts DEF BudgetInv, BackendInv, ItemsTypeOK
      <4>2. /\ i.amount \in Int /\ p.amount \in Int /\ p.sent \in Int
            /\ p.amount <= p.sent + Rounding
        BY <1>0, <2>2, AmountsFinite DEF Item, Pricing, BudgetInv, PricesSent
      <4>3. StoredSum(p.contract)' = StoredSum(p.contract)
        BY <2>2 DEF StoredSum, ItemsOf
      <4> QED
        BY <4>1, <4>2, <4>3
    <3>8. StoredSum(p.contract) - p.old + p.amount
            = StoredSum(p.contract)' + Gains(items')[n]
      BY <2>1, <3>3, <3>6, <3>7
    <3>9. LetPass(n.contract, StoredSum(n.contract) + Gains(items)[n])'
      <4>1. CASE Misses(p.contract)
        <5>1. blind'[n.contract] = blind[n.contract] + 1 /\ blind[n.contract] \in Nat
          BY <1>0, <2>1, <4>1 DEF Misses
        <5>2. blind'[n.contract] > 0
          BY <5>1
        <5> QED
          BY <5>2 DEF LetPass
      <4>2. CASE Fits(p.contract, StoredSum(p.contract) - p.old + p.sent)
        <5>1. Fits(p.contract, (StoredSum(p.contract) - p.old + p.amount) - Rounding)
          BY <3>3, <3>7, <4>2 DEF Fits
        <5> QED
          BY <2>1, <2>2, <3>8, <5>1 DEF LetPass, Fits
      <4> QED
        BY <2>2, <4>1, <4>2
    <3>10. n \in pricing'
      BY <2>2
    <3> QED
      BY <3>1, <3>9, <3>10
  <2> QED
    BY <2>5, <2>6
<1>8. CASE Quits
  <2>1. pricing' = pricing /\ UNCHANGED <<grossBudget, items>>
    BY <1>0, <1>8 DEF Quits
  <2>2. PICK w \in pricing : /\ w.op # "create" => Untouched(w)
                             /\ w.op # "amend" =>
                                  LetPass(w.contract, StoredSum(w.contract) + Gains(items)[w])
    BY <2>1 DEF BudgetInv, LastBegun
  <2>3. w.contract \in Contracts /\ \A c \in Contracts : blind[c] > 0 => blind'[c] > 0
    BY <1>0, <1>8 DEF Quits, Misses
  <2> QED
    BY <2>1, <2>2, <2>3 DEF Untouched, LetPass, Fits, StoredSum, ItemsOf
<1> QED
  BY <1>2, <1>3, <1>4, <1>5, <1>6, <1>7, <1>8, StepKinds DEF Inserts, Updates, BudgetInv

-----------------------------------------------------------------------------
\* The stored sum, when a row is inserted or replaced.
LEMMA SumAfterInsert ==
  ASSUME BackendInv, IsFiniteSet(items), NEW j \in Item, j \notin items, Inserted(j), NEW c
  PROVE  StoredSum(c)' = IF c = j.contract THEN StoredSum(c) + j.amount ELSE StoredSum(c)
<1>1. items' \in SUBSET Item /\ items \in SUBSET Item /\ IsFiniteSet(items')
  BY FS_AddElement DEF Inserted, BackendInv, ItemsTypeOK
<1>2. /\ StoredSum(c)' = SumFunctionOnSet(RowAmounts, RowsOf(items', c))
      /\ StoredSum(c) = SumFunctionOnSet(RowAmounts, RowsOf(items, c))
      /\ IsFiniteSet(RowsOf(items, c))
  <2>1. /\ StoredSum(c)' = SumFunction([i \in RowsOf(items', c) |-> i.amount])
        /\ StoredSum(c) = SumFunction([i \in RowsOf(items, c) |-> i.amount])
    BY DEF StoredSum, ItemsOf, RowsOf
  <2> QED
    BY <1>1, <2>1, SumOfRows
<1>3. CASE c = j.contract
  <2>1. RowsOf(items', c) = RowsOf(items, c) \cup {j} /\ j \notin RowsOf(items, c)
    BY <1>3 DEF Inserted, RowsOf
  <2>2. \A x \in RowsOf(items, c) \cup {j} : RowAmounts[x] \in Int
    BY <1>1, AmountsFinite DEF RowsOf, RowAmounts, Item
  <2>3. RowAmounts[j] = j.amount
    BY DEF RowAmounts
  <2> QED
    BY <1>2, <1>3, <2>1, <2>2, <2>3, SumAdd
<1>4. CASE c # j.contract
  <2>1. RowsOf(items', c) = RowsOf(items, c)
    BY <1>4 DEF Inserted, RowsOf
  <2> QED
    BY <1>2, <1>4, <2>1
<1> QED
  BY <1>3, <1>4

LEMMA SumAfterReplace ==
  ASSUME BackendInv, IsFiniteSet(items), IdsUnique, NEW i \in items, NEW j \in Item,
         j.id = i.id, j.contract = i.contract, Replaced(i, j), NEW c
  PROVE  StoredSum(c)' = IF c = j.contract THEN StoredSum(c) - i.amount + j.amount
                                           ELSE StoredSum(c)
<1>1. /\ items' \in SUBSET Item /\ items \in SUBSET Item
      /\ IsFiniteSet(items \ {i}) /\ IsFiniteSet(items')
  <2>1. IsFiniteSet(items \ {i})
    BY FS_RemoveElement
  <2> QED
    BY <2>1, FS_AddElement DEF Replaced, BackendInv, ItemsTypeOK
<1>2. /\ StoredSum(c)' = SumFunctionOnSet(RowAmounts, RowsOf(items', c))
      /\ StoredSum(c) = SumFunctionOnSet(RowAmounts, RowsOf(items, c))
      /\ IsFiniteSet(RowsOf(items, c)) /\ IsFiniteSet(RowsOf(items \ {i}, c))
      /\ SumFunctionOnSet(RowAmounts, RowsOf(items \ {i}, c)) \in Int
  <2>1. /\ StoredSum(c)' = SumFunction([k \in RowsOf(items', c) |-> k.amount])
        /\ StoredSum(c) = SumFunction([k \in RowsOf(items, c) |-> k.amount])
    BY DEF StoredSum, ItemsOf, RowsOf
  <2>3. /\ SumFunction([k \in RowsOf(items', c) |-> k.amount])
             = SumFunctionOnSet(RowAmounts, RowsOf(items', c))
        /\ SumFunction([k \in RowsOf(items, c) |-> k.amount])
             = SumFunctionOnSet(RowAmounts, RowsOf(items, c))
        /\ IsFiniteSet(RowsOf(items, c))
    BY <1>1, SumOfRows
  <2>4. /\ IsFiniteSet(RowsOf(items \ {i}, c))
        /\ SumFunctionOnSet(RowAmounts, RowsOf(items \ {i}, c)) \in Int
    <3> DEFINE others == items \ {i}
    <3>1. others \in SUBSET Item /\ IsFiniteSet(others)
      BY <1>1
    <3> HIDE DEF others
    <3>2. /\ IsFiniteSet(RowsOf(others, c))
          /\ SumFunctionOnSet(RowAmounts, RowsOf(others, c)) \in Int
      BY <3>1, SumOfRows
    <3> QED
      BY <3>2 DEF others
  <2> QED
    BY <2>1, <2>3, <2>4
<1>3. CASE c = j.contract
  <2>1. /\ i \in RowsOf(items, c) /\ RowsOf(items \ {i}, c) = RowsOf(items, c) \ {i}
        /\ RowsOf(items', c) = RowsOf(items \ {i}, c) \cup {j}
        /\ j \notin RowsOf(items \ {i}, c)
    BY <1>3 DEF Replaced, RowsOf, IdsUnique
  <2>2. /\ \A x \in RowsOf(items, c) : RowAmounts[x] \in Int
        /\ \A x \in RowsOf(items \ {i}, c) \cup {j} : RowAmounts[x] \in Int
    BY <1>1, AmountsFinite DEF RowsOf, RowAmounts, Item
  <2>3. RowAmounts[j] = j.amount /\ RowAmounts[i] = i.amount
    BY <1>1 DEF RowAmounts
  <2>4. SumFunctionOnSet(RowAmounts, RowsOf(items, c))
          = i.amount + SumFunctionOnSet(RowAmounts, RowsOf(items \ {i}, c))
    <3> DEFINE rows == RowsOf(items, c)
    <3>1. /\ IsFiniteSet(rows) /\ i \in rows /\ RowsOf(items \ {i}, c) = rows \ {i}
          /\ \A x \in rows : RowAmounts[x] \in Int
      BY <1>2, <2>1, <2>2
    <3> HIDE DEF rows
    <3>2. SumFunctionOnSet(RowAmounts, rows)
            = RowAmounts[i] + SumFunctionOnSet(RowAmounts, rows \ {i})
      BY <3>1, SumRemove
    <3> QED
      BY <2>3, <3>1, <3>2 DEF rows
  <2>5. SumFunctionOnSet(RowAmounts, RowsOf(items', c))
          = SumFunctionOnSet(RowAmounts, RowsOf(items \ {i}, c)) + j.amount
    <3> DEFINE rows == RowsOf(items \ {i}, c)
    <3>1. /\ IsFiniteSet(rows) /\ j \notin rows /\ RowsOf(items', c) = rows \cup {j}
          /\ \A x \in rows \cup {j} : RowAmounts[x] \in Int
      BY <1>2, <2>1, <2>2
    <3> HIDE DEF rows
    <3>2. SumFunctionOnSet(RowAmounts, rows \cup {j})
            = SumFunctionOnSet(RowAmounts, rows) + RowAmounts[j]
      BY <3>1, SumAdd
    <3> QED
      BY <2>3, <3>1, <3>2 DEF rows
  <2>6. i.amount \in Int /\ j.amount \in Int
    BY <1>1, AmountsFinite DEF Item
  <2> QED
    BY <1>2, <1>3, <2>4, <2>5, <2>6
<1>4. CASE c # j.contract
  <2>1. RowsOf(items', c) = RowsOf(items, c)
    BY <1>4 DEF Replaced, RowsOf
  <2> QED
    BY <1>2, <1>4, <2>1
<1> QED
  BY <1>3, <1>4

\* What is due on a contract is a finite set of handlers, each with a gain.
LEMMA DueFacts ==
  ASSUME BackendInv, IdsUnique, NEW c, NEW Q \in SUBSET Due(c)
  PROVE  /\ Q \in SUBSET pricing /\ IsFiniteSet(Q)
         /\ SumFunctionOnSet(Gains(items), Q) \in Int
         /\ \A p \in Q : /\ p \in Pricing /\ p.contract = c /\ p.request \in Requests
                         /\ Gains(items)[p] \in Int
<1>1. Q \in SUBSET pricing /\ pricing \in SUBSET Pricing /\ \A p \in Q : p.contract = c
  BY DEF Due, BackendInv, ItemsTypeOK
<1>2. \A p \in Q : p.request \in Requests
  BY <1>1 DEF Pricing
<1>3. IsFiniteSet(Q) /\ SumFunctionOnSet(Gains(items), Q) \in Int
  <2>1. Requests \in SUBSET Requests
    OBVIOUS
  <2> QED
    BY <1>1, <1>2, <2>1, GainsAtMost
<1> QED
  BY <1>1, <1>2, <1>3, GainAtMost

\* Nothing is added to what was due, and the sum is the same.
LEMMA DueAsBefore ==
  ASSUME BackendInv, IsFiniteSet(items), IdsUnique, NEW c \in Contracts, DueWithin(c),
         grossBudget'[c] = grossBudget[c], blind'[c] \in Nat, blind'[c] >= blind[c],
         StoredSum(c)' = StoredSum(c), Due(c)' \subseteq Due(c),
         \A p \in Due(c)' : Gains(items')[p] = Gains(items)[p]
  PROVE  DueWithin(c)'
<1> SUFFICES ASSUME NEW Q \in SUBSET Due(c)', Apart(Q)
             PROVE  StoredSum(c)' + SumFunctionOnSet(Gains(items'), Q) <= grossBudget'[c] + Excess(blind'[c])
  BY DEF DueWithin, Excess
<1>1. Q \in SUBSET Due(c)
  OBVIOUS
<1>2. IsFiniteSet(Q)
  BY <1>1, DueFacts
<1>3. SumFunctionOnSet(Gains(items'), Q) = SumFunctionOnSet(Gains(items), Q)
  BY <1>2, SumSame
<1>4. StoredSum(c) + SumFunctionOnSet(Gains(items), Q) <= grossBudget[c] + Excess(blind[c])
  BY <1>1 DEF DueWithin
<1>5. /\ Excess(blind[c]) \in Nat /\ Excess(blind'[c]) \in Nat
      /\ Excess(blind'[c]) >= Excess(blind[c]) /\ grossBudget[c] \in Nat
  BY ExcessFacts DEF BackendInv, ItemsTypeOK
<1>6. StoredSum(c) \in Int /\ SumFunctionOnSet(Gains(items), Q) \in Int
  BY <1>1, DueFacts, StoredSumOfRows
<1> QED
  BY <1>3, <1>4, <1>5, <1>6

\* A contract that is created has no items and nothing due.
LEMMA CreationDue ==
  ASSUME BackendInv, BudgetInv, NEW r \in Requests, NEW k \in Contracts, NEW b \in Nat,
         CreateContract(r, k, b), NEW c \in Contracts,
         grossBudget[c] > 0 => DueWithin(c)
  PROVE  grossBudget'[c] > 0 => DueWithin(c)'
<1>1. /\ items' = items /\ pricing' = pricing /\ k \notin exists
      /\ grossBudget' = [grossBudget EXCEPT ![k] = b] /\ blind' = blind
  BY DEF CreateContract
<1>2. StoredSum(c)' = StoredSum(c) /\ Due(c)' = Due(c)
  BY <1>1 DEF StoredSum, ItemsOf, Due
<1>3. grossBudget \in [Contracts -> Nat] /\ Excess(blind[c]) \in Nat
  BY ExcessFacts DEF BackendInv, ItemsTypeOK
<1>4. CASE c # k
  <2>1. grossBudget'[c] = grossBudget[c]
    BY <1>1, <1>3, <1>4
  <2> QED
    BY <1>1, <1>2, <2>1 DEF DueWithin, Excess
<1>5. CASE c = k
  <2>1. Due(c) = {} /\ RowsOf(items, c) = {}
    BY <1>1, <1>5 DEF Due, RowsOf, BudgetInv, Placed
  <2>2. StoredSum(c) = 0
    BY <2>1, StoredSumOfRows, SumEmpty DEF BudgetInv
  <2>3. ASSUME NEW Q \in SUBSET Due(c)'
        PROVE  StoredSum(c)' + SumFunctionOnSet(Gains(items'), Q) <= grossBudget'[c] + Excess(blind'[c])
    <3>1. Q = {}
      BY <1>2, <2>1
    <3>2. SumFunctionOnSet(Gains(items'), Q) = 0
      BY <3>1, SumEmpty
    <3> QED
      BY <1>1, <1>2, <1>3, <1>5, <2>2, <3>2
  <2> QED
    BY <2>3 DEF DueWithin, Excess
<1> QED
  BY <1>4, <1>5

\* A row that is marked as deleted is still in the sum.
LEMMA DeletionDue ==
  ASSUME BackendInv, BudgetInv, NEW r \in Requests, NEW i \in items,
         DeleteLineItem(r, i), NEW c \in Contracts, DueWithin(c)
  PROVE  DueWithin(c)'
<1> DEFINE j == [i EXCEPT !.deleted = TRUE]
<1>1. i \in Item /\ pricing \in SUBSET Pricing /\ items \in SUBSET Item
  BY DEF BackendInv, ItemsTypeOK
<1>2. /\ j \in Item /\ j.id = i.id /\ j.contract = i.contract /\ j.amount = i.amount
      /\ j.deleted /\ i.amount \in Int
  BY <1>1, AmountsFinite DEF Item
<1>3. /\ items' = (items \ {i}) \cup {j} /\ pricing' = pricing
      /\ grossBudget' = grossBudget /\ blind' = blind
  BY DEF DeleteLineItem
<1> HIDE DEF j
<1>4. StoredSum(c) \in Int
  BY StoredSumOfRows DEF BudgetInv
<1>5. StoredSum(c)' = StoredSum(c)
  BY <1>2, <1>3, <1>4, SumAfterReplace DEF BudgetInv, Replaced
<1>6. Due(c)' \subseteq Due(c)
  BY <1>2, <1>3 DEF Due, LiveIn
<1>7. ASSUME NEW p \in Due(c)'
      PROVE  Gains(items')[p] = Gains(items)[p]
  <2>1. p \in Due(c) /\ p \in Pricing
    BY <1>1, <1>6 DEF Due
  <2>2. CASE p.op = "create"
    BY <2>1, <2>2, GainOfCreation
  <2>3. CASE p.op # "create"
    <3>1. PICK l \in items' : l.id = p.item /\ ~l.deleted
      BY <2>3 DEF Due, LiveIn
    <3>2. l \in items
      BY <1>2, <1>3, <3>1
    <3>3. \A x, y \in items : x.id = y.id => x = y
      BY DEF BudgetInv, IdsUnique
    <3>4. \A x, y \in items' : x.id = y.id => x = y
      BY <1>2, <1>3, <3>3
    <3>5. Gains(items)[p] = p.amount - l.amount
      BY <2>1, <2>3, <3>1, <3>2, <3>3, GainOfAmendment
    <3>6. Gains(items')[p] = p.amount - l.amount
      BY <2>1, <2>3, <3>1, <3>4, GainOfAmendment
    <3> QED
      BY <3>5, <3>6
  <2> QED
    BY <2>2, <2>3
<1>8. grossBudget'[c] = grossBudget[c] /\ blind'[c] \in Nat /\ blind'[c] >= blind[c]
  BY <1>3 DEF BackendInv, ItemsTypeOK
<1> QED
  BY <1>5, <1>6, <1>7, <1>8, DueAsBefore DEF BudgetInv

\* A creation that passes the guard fits the budget with what is stored, and
\* what is due from the other calls can be one amount for each of them.  One
\* whose guard misses a query adds an amount to what was due.
LEMMA AdmissionDue ==
  ASSUME BackendInv, BudgetInv, ItemsTypeOK', NEW r \in Requests, NEW k \in Contracts,
         NEW sort \in Nat, NEW a \in Prices, Admits(r, k, sort, a),
         NEW c \in Contracts, grossBudget[c] > 0, DueWithin(c)
  PROVE  DueWithin(c)'
<1>1. PICK item \in UnusedItems :
        Begun([request |-> r, op |-> "create", item |-> item, contract |-> k, sort |-> sort,
               amount |-> a.stored])
  BY DEF Admits
<1> DEFINE n == [request |-> r, op |-> "create", item |-> item, contract |-> k, sort |-> sort,
                 amount |-> a.stored]
<1>2. /\ pricing' = pricing \cup {n} /\ n \in pricing'
      /\ n.op = "create" /\ n.contract = k /\ n.amount = a.stored /\ n.request = r
  BY <1>1 DEF Begun
<1> HIDE DEF n
<1>3. /\ items' = items /\ grossBudget' = grossBudget /\ answer[r] = "free"
      /\ (Fits(k, StoredSum(k) + a.sent) /\ UNCHANGED blind) \/ Misses(k)
  BY DEF Admits
<1>4. /\ n \in Pricing /\ a.stored \in Int /\ a.sent \in Int /\ a.stored <= Span
      /\ a.stored <= a.sent + Rounding /\ Rounding \in Nat /\ Span \in Nat
  BY <1>2, AmountsFinite, SpanFacts, RoundingFacts DEF ItemsTypeOK
<1>5. Gains(items)[n] = a.stored
  BY <1>2, <1>4, GainOfCreation
<1>6. StoredSum(c)' = StoredSum(c) /\ StoredSum(c) \in Int /\ grossBudget[c] \in Nat
  BY <1>3, StoredSumOfRows DEF BudgetInv, StoredSum, ItemsOf, BackendInv, ItemsTypeOK
<1>7. Due(c)' \subseteq Due(c) \cup {n} /\ (c # k => n \notin Due(c)')
  BY <1>2, <1>3 DEF Due
<1>9. /\ blind[c] \in Nat /\ blind'[c] \in Nat /\ blind'[c] >= blind[c]
      /\ Misses(c) => blind'[c] = blind[c] + 1
  BY <1>3 DEF Misses, BackendInv, ItemsTypeOK
<1>10. /\ Excess(blind[c]) \in Nat /\ Excess(blind'[c]) \in Nat
       /\ Excess(blind'[c]) >= Excess(blind[c])
       /\ Excess(blind'[c]) >= Rounding + (Cardinality(Requests) - 1) * Span
       /\ Misses(c) => Excess(blind'[c]) = Excess(blind[c]) + Span
  BY <1>9, ExcessFacts
<1>8. ASSUME NEW Q \in SUBSET Due(c)', Apart(Q)
      PROVE  StoredSum(c)' + SumFunctionOnSet(Gains(items'), Q) <= grossBudget'[c] + Excess(blind'[c])
  <2>1. CASE n \notin Q
    <3>1. Q \in SUBSET Due(c)
      BY <1>7, <2>1
    <3>2. StoredSum(c) + SumFunctionOnSet(Gains(items), Q) <= grossBudget[c] + Excess(blind[c])
      BY <1>8, <3>1 DEF DueWithin
    <3>3. SumFunctionOnSet(Gains(items), Q) \in Int
      BY <3>1, DueFacts DEF BudgetInv
    <3> QED
      BY <1>3, <1>6, <1>10, <3>2, <3>3
  <2>2. CASE n \in Q
    <3> DEFINE P == Q \ {n}
    <3>1. P \in SUBSET Due(c) /\ n \notin P /\ Q = P \cup {n} /\ c = k
      BY <1>7, <2>2
    <3> HIDE DEF P
    <3>2. /\ P \in SUBSET pricing /\ IsFiniteSet(P)
          /\ \A p \in P : Gains(items)[p] \in Int /\ p.request \in Requests
          /\ SumFunctionOnSet(Gains(items), P) \in Int
      BY <3>1, DueFacts DEF BudgetInv
    <3>3. \A p \in P : p.request \in Requests \ {r}
      BY <1>3, <3>2 DEF BackendInv, PricingCalls
    <3>4. SumFunctionOnSet(Gains(items), P) <= Cardinality(Requests \ {r}) * Span
      BY <3>2, <3>3, GainsAtMost DEF BudgetInv
    <3>5. SumFunctionOnSet(Gains(items), P) <= (Cardinality(Requests) - 1) * Span
      BY <3>4, OtherCalls
    <3>6. \A x \in P \cup {n} : Gains(items)[x] \in Int
      BY <1>4, <1>5, <3>2
    <3>7. SumFunctionOnSet(Gains(items), Q) = SumFunctionOnSet(Gains(items), P) + a.stored
      BY <1>5, <3>1, <3>2, <3>6, SumAdd
    <3>8. CASE Fits(k, StoredSum(k) + a.sent)
      <4>1. StoredSum(c) + a.sent <= grossBudget[c]
        BY <3>1, <3>8 DEF Fits
      <4>2. (Cardinality(Requests) - 1) * Span \in Int
        BY <1>4, CallsCounted
      <4> QED
        BY <1>3, <1>4, <1>6, <1>10, <3>2, <3>5, <3>7, <4>1, <4>2
    <3>9. CASE Misses(k)
      <4>1. Apart(P)
        BY <1>8, <3>1 DEF Apart
      <4>2. StoredSum(c) + SumFunctionOnSet(Gains(items), P) <= grossBudget[c] + Excess(blind[c])
        BY <3>1, <4>1 DEF DueWithin
      <4> QED
        BY <1>3, <1>4, <1>6, <1>10, <3>1, <3>2, <3>7, <3>9, <4>2
    <3> QED
      BY <1>3, <3>8, <3>9
  <2> QED
    BY <2>1, <2>2
<1> QED
  BY <1>8 DEF DueWithin, Excess

\* An amendment that passes the guard fits with the amount it read.  If its
\* row has another amount by now, some call has no handler, or has one that
\* fits by itself, or some guard missed a query: each leaves room for what
\* the row has lost meanwhile.
LEMMA AmendmentDue ==
  ASSUME BackendInv, BudgetInv, NEW w \in pricing, AdmitsUpdate(w),
         NEW c \in Contracts, grossBudget[c] > 0, DueWithin(c)
  PROVE  DueWithin(c)'
<1> DEFINE n == [w EXCEPT !.op = "update"]
           M == Span
           calls == Cardinality(Requests)
<1>1. w \in Pricing /\ w.op = "amend" /\ w.amount \in Amounts /\ w.old \in Amounts
      /\ w.request \in Requests
  BY DEF AdmitsUpdate, BackendInv, ItemsTypeOK, Pricing
<1>2. /\ n \in Pricing /\ n.op = "update" /\ n.contract = w.contract /\ n.item = w.item
      /\ n.amount = w.amount /\ n.request = w.request
  BY <1>1 DEF Pricing
<1>3. /\ pricing' = (pricing \ {w}) \cup {n} /\ items' = items /\ grossBudget' = grossBudget
      /\ \/ Fits(w.contract, StoredSum(w.contract) - w.old + w.sent) /\ UNCHANGED blind
         \/ Misses(w.contract)
  BY DEF AdmitsUpdate
<1> HIDE DEF n
<1>4. StoredSum(c)' = StoredSum(c) /\ StoredSum(c) \in Int /\ grossBudget[c] \in Nat
  BY <1>3, StoredSumOfRows DEF BudgetInv, StoredSum, ItemsOf, BackendInv, ItemsTypeOK
<1>5. Due(c)' \subseteq Due(c) \cup {n} /\ w \notin Due(c)
  BY <1>1, <1>3 DEF Due
<1>6. /\ M \in Nat /\ calls \in Nat \ {0} /\ w.amount \in Int /\ w.old \in Int
      /\ w.sent \in Int /\ Rounding \in Nat /\ w.amount <= w.sent + Rounding
      /\ \A a, b \in Amounts : a \in Int /\ a - b <= M
  BY <1>1, AmountsFinite, SpanFacts, RoundingFacts, CallsCounted DEF BudgetInv, PricesSent, Pricing
<1>9. /\ blind[c] \in Nat /\ blind'[c] \in Nat /\ blind'[c] >= blind[c]
      /\ Misses(c) => blind'[c] = blind[c] + 1
  BY <1>3 DEF Misses, BackendInv, ItemsTypeOK
<1>10. /\ Excess(blind[c]) \in Nat /\ Excess(blind'[c]) \in Nat
       /\ Excess(blind'[c]) >= Excess(blind[c])
       /\ Excess(blind[c]) >= Rounding + (calls - 1) * M
       /\ blind[c] > 0 => Excess(blind[c]) >= Rounding + (calls - 1) * M + M
       /\ Misses(c) => Excess(blind'[c]) = Excess(blind[c]) + M
  BY <1>9, ExcessFacts
<1> HIDE DEF M, calls
<1>7. (calls - 1) * M = (calls - 2) * M + M /\ (calls - 2) * M \in Int
  BY <1>6
<1>8. ASSUME NEW Q \in SUBSET Due(c)', Apart(Q)
      PROVE  StoredSum(c)' + SumFunctionOnSet(Gains(items'), Q) <= grossBudget'[c] + Excess(blind'[c])
  <2>1. CASE n \notin Q
    <3>1. Q \in SUBSET Due(c)
      BY <1>5, <2>1
    <3>2. StoredSum(c) + SumFunctionOnSet(Gains(items), Q) <= grossBudget[c] + Excess(blind[c])
      BY <1>8, <3>1 DEF DueWithin
    <3>3. SumFunctionOnSet(Gains(items), Q) \in Int
      BY <3>1, DueFacts DEF BudgetInv
    <3> QED
      BY <1>3, <1>4, <1>10, <3>2, <3>3
  <2>2. CASE n \in Q
    <3> DEFINE P == Q \ {n}
               others == SumFunctionOnSet(Gains(items), P)
    <3>1. P \in SUBSET Due(c) /\ n \notin P /\ Q = P \cup {n} /\ w \notin P
      BY <1>5, <2>2
    <3>2. c = w.contract /\ LiveIn(items, w.item)
      BY <1>2, <1>3, <2>2 DEF Due
    <3> HIDE DEF P
    <3>3. /\ P \in SUBSET pricing /\ IsFiniteSet(P)
          /\ \A p \in P : Gains(items)[p] \in Int /\ p.request \in Requests /\ p.contract = c
          /\ others \in Int
      BY <3>1, DueFacts DEF BudgetInv
    <3>4. \A p \in P : p.request \in Requests \ {w.request}
      BY <3>1, <3>3 DEF BackendInv, PricingCalls
    <3>5. PICK i \in items : i.id = w.item /\ ~i.deleted
      BY <3>2 DEF LiveIn
    <3>6. \A x, y \in items : x.id = y.id => x = y
      BY DEF BudgetInv, IdsUnique
    <3>7. Gains(items)[n] = w.amount - i.amount /\ i.amount \in Int /\ w.amount - i.amount <= M /\ w.old - i.amount <= M
      <4>1. Gains(items)[n] = n.amount - i.amount
        BY <1>2, <3>5, <3>6, GainOfAmendment
      <4>2. i.amount \in Amounts
        BY DEF BackendInv, ItemsTypeOK, Item
      <4> QED
        BY <1>1, <1>2, <1>6, <4>1, <4>2
    <3>8. SumFunctionOnSet(Gains(items), Q) = others + (w.amount - i.amount)
      <4>1. \A x \in P \cup {n} : Gains(items)[x] \in Int
        BY <1>6, <3>3, <3>7
      <4> QED
        BY <3>1, <3>3, <3>7, <4>1, SumAdd
    <3> HIDE DEF others
    <3>10. others <= (calls - 1) * M
      <4>1. others <= Cardinality(Requests \ {w.request}) * Span
        BY <3>3, <3>4, GainsAtMost DEF BudgetInv, others
      <4> QED
        BY <1>1, <4>1, OtherCalls DEF M, calls
    <3>11. ASSUME NEW r \in Requests \ {w.request}, NEW R \in SUBSET P,
                  \A p \in R : p.request # r
           PROVE  /\ SumFunctionOnSet(Gains(items), R) \in Int
                  /\ SumFunctionOnSet(Gains(items), R) <= (calls - 2) * M
      <4>1. R \in SUBSET pricing /\ \A p \in R : p.request \in Requests \ {w.request, r}
        BY <3>3, <3>4, <3>11
      <4>2. /\ SumFunctionOnSet(Gains(items), R) \in Int
            /\ SumFunctionOnSet(Gains(items), R)
                 <= Cardinality(Requests \ {w.request, r}) * Span
        BY <4>1, GainsAtMost DEF BudgetInv
      <4> QED
        BY <1>1, <4>2, OtherCalls DEF M, calls
    <3>12. ASSUME Fits(c, StoredSum(c) - w.old + w.sent)
           PROVE  StoredSum(c) + others + (w.amount - i.amount) <= grossBudget[c] + Excess(blind[c])
      <4>0. StoredSum(c) - w.old + w.amount <= grossBudget[c] + Rounding
        BY <1>4, <1>6, <3>12 DEF Fits
      <4>1. CASE i.amount = w.old
        BY <1>4, <1>6, <1>7, <1>10, <3>3, <3>7, <3>10, <4>0, <4>1
      <4>2. CASE others <= (calls - 2) * M
        BY <1>4, <1>6, <1>7, <1>10, <3>3, <3>7, <4>0, <4>2
      <4>4. CASE blind[c] > 0
        BY <1>4, <1>6, <1>7, <1>10, <3>3, <3>7, <3>10, <4>0, <4>4
      <4>3. CASE i.amount # w.old /\ ~ (others <= (calls - 2) * M) /\ ~ (blind[c] > 0)
        <5>1. \A r \in Requests : \E p \in pricing : p.request = r
          <6> SUFFICES ASSUME NEW r \in Requests, \A p \in pricing : p.request # r
                       PROVE  FALSE
            OBVIOUS
          <6>1. r \in Requests \ {w.request} /\ \A p \in P : p.request # r
            BY <3>3
          <6> QED
            BY <3>11, <4>3, <6>1 DEF others
        <5>2. PICK v \in pricing :
                /\ v.op # "create" => Untouched(v)
                /\ v.op # "amend" =>
                     LetPass(v.contract, StoredSum(v.contract) + Gains(items)[v])
          BY <5>1 DEF BudgetInv, LastBegun
        <5>3. v # w
          BY <1>1, <3>5, <4>3, <5>2 DEF Untouched
        <5>4. v.request \in Requests \ {w.request}
              /\ \A p \in P \ {v} : p.request # v.request
          BY <3>3, <5>3 DEF BackendInv, PricingCalls, ItemsTypeOK, Pricing
        <5>5. /\ SumFunctionOnSet(Gains(items), P \ {v}) \in Int
              /\ SumFunctionOnSet(Gains(items), P \ {v}) <= (calls - 2) * M
          BY <3>11, <5>4
        <5>6. v \in P
          <6> SUFFICES ASSUME v \notin P PROVE FALSE
            OBVIOUS
          <6>1. P \ {v} = P
            OBVIOUS
          <6> QED
            BY <4>3, <5>5, <6>1 DEF others
        <5>7. others = Gains(items)[v] + SumFunctionOnSet(Gains(items), P \ {v})
          BY <3>3, <5>6, SumRemove DEF others
        <5>8. v.op # "amend" /\ v.contract = c
          BY <3>1, <5>6 DEF Due
        <5>9. StoredSum(c) + Gains(items)[v] <= grossBudget[c] + Rounding /\ Gains(items)[v] \in Int
          BY <1>4, <1>6, <3>3, <4>3, <5>2, <5>6, <5>8 DEF LetPass, Fits
        <5> QED
          BY <1>4, <1>6, <1>7, <1>10, <3>7, <5>5, <5>7, <5>9
      <4> QED
        BY <4>1, <4>2, <4>3, <4>4
    <3>13. ASSUME Misses(c)
           PROVE  StoredSum(c) + others + (w.amount - i.amount) <= grossBudget[c] + Excess(blind'[c])
      <4>1. Apart(P)
        BY <1>8, <3>1 DEF Apart
      <4>2. StoredSum(c) + others <= grossBudget[c] + Excess(blind[c])
        BY <3>1, <4>1 DEF DueWithin, others
      <4> QED
        BY <1>4, <1>6, <1>10, <3>3, <3>7, <3>13, <4>2
    <3> QED
      BY <1>3, <1>4, <1>6, <1>10, <3>2, <3>3, <3>7, <3>8, <3>12, <3>13
  <2> QED
    BY <2>1, <2>2
<1> QED
  BY <1>8 DEF DueWithin, Excess

\* A row that is inserted was due: what was its gain is now stored.
LEMMA InsertionDue ==
  ASSUME BackendInv, BudgetInv, ItemsTypeOK', NEW w \in pricing, Inserts(w),
         NEW c \in Contracts, grossBudget[c] > 0, DueWithin(c)
  PROVE  DueWithin(c)'
<1> DEFINE j == [id |-> w.item, contract |-> w.contract, sort |-> w.sort,
                 amount |-> w.amount, deleted |-> FALSE]
<1>1. w \in Pricing /\ w.op = "create" /\ w.amount \in Int
  BY AmountsFinite DEF Inserts, BackendInv, ItemsTypeOK, Pricing
<1>2. /\ j.id = w.item /\ j.contract = w.contract /\ j.amount = w.amount /\ Inserted(j)
      /\ pricing' = pricing \ {w} /\ grossBudget' = grossBudget /\ blind' = blind
  BY DEF Inserts, Ended
<1> HIDE DEF j
<1>3. j \in Item /\ j \notin items /\ items' = items \cup {j}
  BY <1>1, <1>2 DEF Inserted, ItemsTypeOK, BudgetInv, IdsUnique
<1>4. StoredSum(c)' = IF c = w.contract THEN StoredSum(c) + w.amount ELSE StoredSum(c)
  BY <1>2, <1>3, SumAfterInsert DEF BudgetInv
<1>5. StoredSum(c) \in Int /\ blind[c] \in Nat /\ Excess(blind[c]) \in Nat /\ grossBudget[c] \in Nat
  BY StoredSumOfRows, ExcessFacts DEF BudgetInv, BackendInv, ItemsTypeOK
<1>6. \A p \in pricing : p.op # "create" => p.item # w.item
  BY <1>1 DEF BudgetInv, IdsUnique
<1>7. Due(c)' \subseteq Due(c) /\ w \notin Due(c)'
  <2>1. ASSUME NEW p \in Due(c)'
        PROVE  p \in Due(c) /\ p # w
    <3>1. p \in pricing /\ p # w /\ p.contract = c
      BY <1>2 DEF Due
    <3>2. p.op = "create" \/ (p.op = "update" /\ LiveIn(items', p.item))
      BY DEF Due
    <3>3. p.op = "update" => LiveIn(items, p.item)
      BY <1>2, <1>3, <1>6, <3>1, <3>2 DEF LiveIn
    <3> QED
      BY <3>1, <3>2, <3>3 DEF Due
  <2> QED
    BY <2>1
<1>8. \A p \in Due(c)' : Gains(items')[p] = Gains(items)[p]
  <2> SUFFICES ASSUME NEW p \in Due(c)'
               PROVE  Gains(items')[p] = Gains(items)[p]
    OBVIOUS
  <2>1. p \in pricing /\ p \in Pricing
    BY <1>7 DEF Due, BackendInv, ItemsTypeOK
  <2>2. CASE p.op = "create"
    BY <2>1, <2>2, GainOfCreation
  <2>3. CASE p.op # "create"
    <3>1. PICK i \in items : i.id = p.item
      BY <2>1, <2>3 DEF BudgetInv, IdsUnique
    <3>2. \A x, y \in items : x.id = y.id => x = y
      BY DEF BudgetInv, IdsUnique
    <3>3. \A x, y \in items' : x.id = y.id => x = y
      BY <1>1, <1>2, <1>3, <3>2 DEF BudgetInv, IdsUnique
    <3>4. Gains(items)[p] = p.amount - i.amount
      BY <2>1, <2>3, <3>1, <3>2, GainOfAmendment
    <3>5. Gains(items')[p] = p.amount - i.amount
      BY <1>3, <2>1, <2>3, <3>1, <3>3, GainOfAmendment
    <3> QED
      BY <3>4, <3>5
  <2> QED
    BY <2>2, <2>3
<1>9. CASE c # w.contract
  <2>1. StoredSum(c)' = StoredSum(c) /\ grossBudget'[c] = grossBudget[c]
    BY <1>2, <1>4, <1>9
  <2>2. blind'[c] \in Nat /\ blind'[c] >= blind[c]
    BY <1>2, <1>5
  <2> QED
    BY <1>7, <1>8, <2>1, <2>2, DueAsBefore DEF BudgetInv
<1>10. CASE c = w.contract
  <2> SUFFICES ASSUME NEW Q \in SUBSET Due(c)', Apart(Q)
               PROVE  StoredSum(c)' + SumFunctionOnSet(Gains(items'), Q) <= grossBudget'[c] + Excess(blind'[c])
    BY DEF DueWithin, Excess
  <2>1. Q \in SUBSET Due(c) /\ w \notin Q /\ w \in Due(c)
    BY <1>1, <1>7, <1>10 DEF Due
  <2>2. IsFiniteSet(Q) /\ Q \in SUBSET pricing /\ SumFunctionOnSet(Gains(items), Q) \in Int
        /\ \A p \in Q : Gains(items)[p] \in Int
    BY <2>1, DueFacts DEF BudgetInv
  <2>3. Apart(Q \cup {w})
    BY <1>1, <2>2 DEF Apart, BudgetInv, IdsUnique
  <2>4. Gains(items)[w] = w.amount
    BY <1>1, GainOfCreation
  <2>5. SumFunctionOnSet(Gains(items'), Q) = SumFunctionOnSet(Gains(items), Q)
    BY <1>8, <2>2, SumSame
  <2>6. SumFunctionOnSet(Gains(items), Q \cup {w}) = SumFunctionOnSet(Gains(items), Q) + w.amount
    <3>1. \A x \in Q \cup {w} : Gains(items)[x] \in Int
      BY <1>1, <2>2, <2>4
    <3> QED
      BY <2>1, <2>2, <2>4, <3>1, SumAdd
  <2>7. Q \cup {w} \in SUBSET Due(c)
    BY <2>1
  <2>8. StoredSum(c) + SumFunctionOnSet(Gains(items), Q \cup {w}) <= grossBudget[c] + Excess(blind[c])
    BY <2>3, <2>7 DEF DueWithin
  <2> QED
    BY <1>1, <1>2, <1>4, <1>5, <1>10, <2>2, <2>5, <2>6, <2>8
<1> QED
  BY <1>9, <1>10

\* A row that is updated was due: its gain is stored, and another update of
\* the same row gains that much less.
LEMMA UpdateDue ==
  ASSUME BackendInv, BudgetInv, ItemsTypeOK', NEW w \in pricing, NEW i \in items,
         Updates(w, i), NEW c \in Contracts, grossBudget[c] > 0, DueWithin(c)
  PROVE  DueWithin(c)'
<1> DEFINE j == [i EXCEPT !.amount = w.amount]
<1>1. /\ w \in Pricing /\ w.op = "update" /\ w.amount \in Int
      /\ i \in Item /\ i.amount \in Int /\ i.id = w.item /\ ~i.deleted
  BY AmountsFinite DEF Updates, BackendInv, ItemsTypeOK, Pricing, Item
<1>2. j.id = i.id /\ j.contract = i.contract /\ j.amount = w.amount /\ ~j.deleted
  BY <1>1 DEF Item
<1>3. /\ Replaced(i, j) /\ pricing' = pricing \ {w} /\ grossBudget' = grossBudget
      /\ blind' = blind
  BY DEF Updates, Ended
<1> HIDE DEF j
<1>4. j \in Item /\ items' = (items \ {i}) \cup {j}
  BY <1>3 DEF Replaced, ItemsTypeOK
<1>5. i.contract = w.contract
  BY <1>1 DEF BudgetInv, IdsUnique
<1>6. /\ StoredSum(c)' = IF c = w.contract THEN StoredSum(c) - i.amount + w.amount
                                           ELSE StoredSum(c)
      /\ StoredSum(c) \in Int
  <2>1. StoredSum(c)' = IF c = j.contract THEN StoredSum(c) - i.amount + j.amount
                                          ELSE StoredSum(c)
    BY <1>2, <1>3, <1>4, SumAfterReplace DEF BudgetInv
  <2> QED
    BY <1>2, <1>5, <2>1, StoredSumOfRows DEF BudgetInv
<1>7. /\ \A x, y \in items : x.id = y.id => x = y
      /\ \A x, y \in items' : x.id = y.id => x = y
  <2>1. \A x, y \in items : x.id = y.id => x = y
    BY DEF BudgetInv, IdsUnique
  <2> QED
    BY <1>2, <1>4, <2>1
<1>8. Due(c)' \subseteq Due(c) /\ w \notin Due(c)'
  BY <1>1, <1>2, <1>3, <1>4 DEF Due, LiveIn
<1>9. ASSUME NEW p \in Due(c)'
      PROVE  /\ p.item # w.item => Gains(items')[p] = Gains(items)[p]
             /\ p.item = w.item => Gains(items')[p] = Gains(items)[p] + i.amount - w.amount
  <2>1. p \in pricing /\ p \in Pricing /\ p.amount \in Int
    BY <1>8, AmountsFinite DEF Due, BackendInv, ItemsTypeOK, Pricing
  <2>2. CASE p.op = "create"
    <3>1. p.item # w.item
      BY <1>1, <2>1, <2>2 DEF BudgetInv, IdsUnique
    <3> QED
      BY <2>1, <2>2, <3>1, GainOfCreation
  <2>3. CASE p.op # "create" /\ p.item # w.item
    <3>1. PICK l \in items : l.id = p.item
      BY <2>1, <2>3 DEF BudgetInv, IdsUnique
    <3>2. l \in items'
      BY <1>1, <1>4, <2>3, <3>1
    <3>3. Gains(items)[p] = p.amount - l.amount
      BY <1>7, <2>1, <2>3, <3>1, GainOfAmendment
    <3>4. Gains(items')[p] = p.amount - l.amount
      BY <1>7, <2>1, <2>3, <3>1, <3>2, GainOfAmendment
    <3> QED
      BY <2>3, <3>3, <3>4
  <2>4. CASE p.op # "create" /\ p.item = w.item
    <3>1. Gains(items)[p] = p.amount - i.amount
      BY <1>1, <1>7, <2>1, <2>4, GainOfAmendment
    <3>2. Gains(items')[p] = p.amount - w.amount
      <4>1. j \in items' /\ j.id = p.item
        BY <1>1, <1>2, <1>4, <2>4
      <4> QED
        BY <1>2, <1>7, <2>1, <2>4, <4>1, GainOfAmendment
    <3> QED
      BY <1>1, <2>1, <2>4, <3>1, <3>2
  <2> QED
    BY <2>2, <2>3, <2>4
<1>12. blind[c] \in Nat /\ Excess(blind[c]) \in Nat /\ grossBudget[c] \in Nat
  BY ExcessFacts DEF BackendInv, ItemsTypeOK
<1>10. CASE c # w.contract
  <2>1. \A p \in Due(c)' : p.item # w.item
    <3> SUFFICES ASSUME NEW p \in Due(c)', p.item = w.item PROVE FALSE
      OBVIOUS
    <3>1. p \in pricing /\ p.contract = c
      BY <1>8 DEF Due
    <3>2. p.op # "create"
      BY <1>1, <3>1 DEF BudgetInv, IdsUnique
    <3>3. PICK l \in items : l.id = p.item /\ l.contract = c
      BY <3>1, <3>2 DEF BudgetInv, IdsUnique
    <3> QED
      BY <1>1, <1>5, <1>7, <1>10, <3>3
  <2>2. \A p \in Due(c)' : Gains(items')[p] = Gains(items)[p]
    BY <1>9, <2>1
  <2>3. StoredSum(c)' = StoredSum(c) /\ grossBudget'[c] = grossBudget[c]
    BY <1>3, <1>6, <1>10
  <2>4. blind'[c] \in Nat /\ blind'[c] >= blind[c]
    BY <1>3, <1>12
  <2> QED
    BY <1>8, <2>2, <2>3, <2>4, DueAsBefore DEF BudgetInv
<1>11. CASE c = w.contract
  <2> SUFFICES ASSUME NEW Q \in SUBSET Due(c)', Apart(Q)
               PROVE  StoredSum(c)' + SumFunctionOnSet(Gains(items'), Q) <= grossBudget'[c] + Excess(blind'[c])
    BY DEF DueWithin, Excess
  <2>1. Q \in SUBSET Due(c) /\ w \notin Q /\ w \in Due(c)
    BY <1>1, <1>8, <1>11 DEF Due, LiveIn
  <2>2. IsFiniteSet(Q) /\ Q \in SUBSET pricing /\ SumFunctionOnSet(Gains(items), Q) \in Int
        /\ \A p \in Q : Gains(items)[p] \in Int
    BY <2>1, DueFacts DEF BudgetInv
  <2>3. CASE \A p \in Q : p.item # w.item
    <3>1. Apart(Q \cup {w})
      BY <2>3 DEF Apart
    <3>2. Gains(items)[w] = w.amount - i.amount
      BY <1>1, <1>7, GainOfAmendment
    <3>3. SumFunctionOnSet(Gains(items'), Q) = SumFunctionOnSet(Gains(items), Q)
      BY <1>9, <2>2, <2>3, SumSame
    <3>4. SumFunctionOnSet(Gains(items), Q \cup {w})
            = SumFunctionOnSet(Gains(items), Q) + (w.amount - i.amount)
      <4>1. \A x \in Q \cup {w} : Gains(items)[x] \in Int
        BY <1>1, <2>2, <3>2
      <4> QED
        BY <2>1, <2>2, <3>2, <4>1, SumAdd
    <3>5. Q \cup {w} \in SUBSET Due(c)
      BY <2>1
    <3>6. StoredSum(c) + SumFunctionOnSet(Gains(items), Q \cup {w}) <= grossBudget[c] + Excess(blind[c])
      BY <3>1, <3>5 DEF DueWithin
    <3> QED
      BY <1>1, <1>3, <1>6, <1>11, <1>12, <2>2, <3>3, <3>4, <3>6
  <2>4. CASE \E p \in Q : p.item = w.item
    <3>1. PICK p \in Q : p.item = w.item
      BY <2>4
    <3>2. \A q \in Q \ {p} : q.item # w.item
      BY <3>1 DEF Apart
    <3>3. \A q \in Q \ {p} : Gains(items')[q] = Gains(items)[q]
      BY <1>9, <3>2
    <3>4. Gains(items')[p] = Gains(items)[p] + i.amount - w.amount
      BY <1>9, <3>1
    <3>5. \A q \in Q : Gains(items')[q] \in Int /\ Gains(items)[q] \in Int
      BY <1>1, <2>2, <3>3, <3>4
    <3>6. SumFunctionOnSet(Gains(items'), Q)
            = SumFunctionOnSet(Gains(items), Q) - Gains(items)[p] + Gains(items')[p]
      BY <2>2, <3>1, <3>3, <3>5, SumChange
    <3>7. StoredSum(c) + SumFunctionOnSet(Gains(items), Q) <= grossBudget[c] + Excess(blind[c])
      BY <2>1 DEF DueWithin
    <3>8. Gains(items)[p] \in Int
      BY <3>1, <3>5
    <3> QED
      BY <1>1, <1>3, <1>6, <1>11, <1>12, <2>2, <3>4, <3>6, <3>7, <3>8
  <2> QED
    BY <2>3, <2>4
<1> QED
  BY <1>10, <1>11

LEMMA DueStep ==
  ASSUME BackendInv, BudgetInv, [BackendStep]_backendVars, ItemsTypeOK'
  PROVE  DueBounded'
<1> SUFFICES ASSUME NEW c \in Contracts, grossBudget'[c] > 0
             PROVE  DueWithin(c)'
  BY DEF DueBounded
<1>1. grossBudget[c] > 0 => DueWithin(c)
  BY DEF BudgetInv, DueBounded
<1>2. ASSUME NEW r \in Requests, NEW k \in Contracts, NEW b \in Nat, CreateContract(r, k, b)
      PROVE  DueWithin(c)'
  BY <1>1, <1>2, CreationDue
<1>3. ASSUME grossBudget' = grossBudget,
             \/ \E r \in Requests, k \in Contracts, sort \in Nat, a \in Prices :
                  Admits(r, k, sort, a)
             \/ \E r \in Requests, i \in items : DeleteLineItem(r, i)
             \/ \E p \in pricing : AdmitsUpdate(p) \/ Inserts(p) \/ \E i \in items : Updates(p, i)
      PROVE  DueWithin(c)'
  <2>1. grossBudget[c] > 0 /\ DueWithin(c)
    BY <1>1, <1>3
  <2> QED
    BY <1>3, <2>1, AdmissionDue, DeletionDue, AmendmentDue, InsertionDue, UpdateDue
<1>4. ASSUME UNCHANGED <<grossBudget, items>>, Due(c)' \subseteq Due(c),
             UNCHANGED blind \/ \E k \in Contracts : Misses(k)
      PROVE  DueWithin(c)'
  <2>1. StoredSum(c)' = StoredSum(c) /\ DueWithin(c)
    BY <1>1, <1>4 DEF StoredSum, ItemsOf
  <2>2. blind'[c] \in Nat /\ blind'[c] >= blind[c]
    BY <1>4 DEF Misses, BackendInv, ItemsTypeOK
  <2> QED
    BY <1>4, <2>1, <2>2, DueAsBefore DEF BudgetInv
<1>5. ASSUME NEW r \in Requests, NEW i \in items, NEW a \in Prices, BeginAmendment(r, i, a)
      PROVE  DueWithin(c)'
  BY <1>4, <1>5 DEF BeginAmendment, Due
<1>6. CASE Quits
  BY <1>4, <1>6 DEF Quits, Due
<1> QED
  BY <1>2, <1>3, <1>5, <1>6, StepKinds
  DEF BudgetInv, Admits, DeleteLineItem, AdmitsUpdate, Inserts, Updates

LEMMA BudgetInvStep ==
  ASSUME BackendInv, BudgetInv, [BackendStep]_backendVars
  PROVE  BudgetInv'
<1>1. ItemsTypeOK'
  BY ItemsTypeStep
<1>2. IsFiniteSet(items') /\ IdsUnique' /\ Placed'
  BY RowsStep DEF BudgetInv
<1>3. PricesSent'
  BY PricesSentStep DEF BudgetInv
<1> QED
  BY <1>1, <1>2, <1>3, LastBegunStep, DueStep DEF BudgetInv

LEMMA BudgetInvHolds == Spec => []BudgetInv
<1>1. Init => BudgetInv
  <2> SUFFICES ASSUME Init PROVE BudgetInv
    OBVIOUS
  <2>1. items = {} /\ pricing = {} /\ \A c \in Contracts : grossBudget[c] = 0
    BY DEF Init, ItemsInit
  <2>2. IsFiniteSet(items) /\ IdsUnique /\ Placed /\ DueBounded
    BY <2>1, FS_EmptySet DEF IdsUnique, Placed, DueBounded
  <2>4. PricesSent
    BY <2>1 DEF PricesSent
  <2>3. LastBegun
    BY <2>1, RequestsFinite DEF LastBegun
  <2> QED
    BY <2>2, <2>3, <2>4 DEF BudgetInv
<1>2. SheetInv /\ BudgetInv /\ [Next]_vars => BudgetInv'
  <2> SUFFICES ASSUME SheetInv, BudgetInv, [Next]_vars
               PROVE  BudgetInv'
    OBVIOUS
  <2>1. BackendInv /\ [BackendStep]_backendVars
    BY NextIsBackend DEF SheetInv
  <2> QED
    BY <2>1, BudgetInvStep
<1> QED
  BY <1>1, <1>2, SheetInvHolds, PTL DEF Spec

(***************************************************************************)
(* No sequence of creations, amendments and deletions, of the sheet and of *)
(* a colleague, with crashes and failed writes between them, takes the     *)
(* items of a contract further over its budget than what the columns round *)
(* up of one amount, and the distance of two amounts for each other call   *)
(* that can be open and for each guard that missed one of its queries.     *)
(***************************************************************************)
THEOREM BudgetWithinBound == Spec => []BudgetOverrunBounded
<1>1. SheetInv /\ BudgetInv => BudgetOverrunBounded
  <2> SUFFICES ASSUME SheetInv, BudgetInv, NEW c \in Contracts, grossBudget[c] > 0
               PROVE  StoredSum(c) <= grossBudget[c] + Rounding
                                        + (Cardinality(Requests) - 1 + blind[c]) * Span
    BY DEF BudgetOverrunBounded
  <2>0. grossBudget[c] + Rounding + (Cardinality(Requests) - 1 + blind[c]) * Span
          = grossBudget[c] + Excess(blind[c])
    <3>1. /\ grossBudget[c] \in Nat /\ blind[c] \in Nat /\ Span \in Nat /\ Rounding \in Nat
          /\ Cardinality(Requests) \in Nat
      BY CallsCounted, SpanFacts, RoundingFacts DEF SheetInv, TypeOK, ItemsTypeOK
    <3>2. (Cardinality(Requests) - 1 + blind[c]) * Span \in Int
      BY <3>1
    <3> QED
      BY <3>1, <3>2 DEF Excess
  <2>1. {} \in SUBSET Due(c) /\ Apart({})
    BY DEF Apart
  <2>2. StoredSum(c) + SumFunctionOnSet(Gains(items), {}) <= grossBudget[c] + Excess(blind[c])
    BY <2>1 DEF BudgetInv, DueBounded, DueWithin
  <2>3. StoredSum(c) \in Int
    BY StoredSumOfRows DEF SheetInv, BudgetInv
  <2>4. SumFunctionOnSet(Gains(items), {}) = 0
    BY SumEmpty
  <2> QED
    BY <2>0, <2>2, <2>3, <2>4
<1> QED
  BY <1>1, SheetInvHolds, BudgetInvHolds, PTL

-----------------------------------------------------------------------------
(***************************************************************************)
(* V. The form.  A step that was left stays valid behind the user: its     *)
(* fields can be changed on that step alone, and leaving it again checks   *)
(* them again.                                                             *)
(***************************************************************************)
FirstStepValid(f) == f.project # "" /\ f.contractor /\ f.title

FeeMethodAsked(f) == f.type = "cost_plus" /\ f.feeMethod = "unset"

SecondStepValid(f) ==
  /\ f.budget # Blank
  /\ f.type = "lump_sum" \/ f.type \in f.terms
  /\ ~FeeOutOfRange(f)
  /\ f.feeMethod # "blank" /\ ~FeeMethodAsked(f)

FormInv ==
  /\ step >= 1 => FirstStepValid(form)
  /\ step >= 2 => SecondStepValid(form)
  /\ step = 1 => ~FeeMethodAsked(form)
  /\ step = 4 => ~wbsOverBudget

\* What the schema refuses, step by step.
LEMMA ErrorsByStep ==
  ASSUME NEW f \in Form
  PROVE  /\ Errors(f) \cap STEP_FIELDS[0] = {} <=> FirstStepValid(f)
         /\ Errors(f) \cap STEP_FIELDS[1] = {} <=> SecondStepValid(f)
         /\ FirstStepValid(f) /\ SecondStepValid(f) => Errors(f) \subseteq {"percents"}
<1> DEFINE Unchosen == f.project = ""
<1>1. /\ "project" \in Errors(f) <=> Unchosen
      /\ "contractor" \in Errors(f) <=> ~f.contractor
      /\ "title" \in Errors(f) <=> ~f.title
      /\ "budget" \in Errors(f) <=> f.budget = Blank
      /\ "terms" \in Errors(f) <=>
           ~ (f.type = "lump_sum" \/ f.type \in f.terms) \/ FeeOutOfRange(f)
      /\ "feeMethod" \in Errors(f) <=> (f.feeMethod = "blank" \/ FeeMethodAsked(f))
      /\ Errors(f) \subseteq
           {"project", "contractor", "title", "budget", "terms", "feeMethod", "percents"}
  BY DEF Errors, TypeErrors, FeeMethodAsked
<1>2. /\ STEP_FIELDS[0] = {"project", "contractor", "title"}
      /\ STEP_FIELDS[1] = {"budget", "terms", "feeMethod"}
  BY DEF STEP_FIELDS, Steps
<1>3. FirstStepValid(f) <=> ~Unchosen /\ f.contractor /\ f.title
  BY Zenon DEF FirstStepValid
<1> HIDE DEF Errors, Unchosen
<1>4. Errors(f) \cap STEP_FIELDS[0] = {} <=> FirstStepValid(f)
  BY <1>1, <1>2, <1>3
<1>5. Errors(f) \cap STEP_FIELDS[1] = {} <=> SecondStepValid(f)
  BY <1>1, <1>2 DEF SecondStepValid
<1>6. FirstStepValid(f) /\ SecondStepValid(f) => Errors(f) \subseteq {"percents"}
  BY <1>1, <1>3 DEF SecondStepValid
<1> QED
  BY <1>4, <1>5, <1>6

LEMMA FormInvStep ==
  ASSUME SheetInv, FormInv, [Next]_vars
  PROVE  FormInv'
<1>0. step \in 0..4 /\ form \in Form
  BY DEF SheetInv, TypeOK, Steps
<1> USE DEF FormInv
<1>1. ASSUME UNCHANGED <<step, form, wbsRows>>
      PROVE  FormInv'
  BY <1>1 DEF wbsOverBudget, wbsTotal, grossBudgetOfForm
<1>2. ASSUME NEW f, Fill(f), step = 0
      PROVE  FormInv'
  BY <1>2 DEF Fill
<1>3. ASSUME NEW f, Fill(f), step = 1, FirstStepValid(f), ~FeeMethodAsked(f)
      PROVE  FormInv'
  BY <1>3 DEF Fill
<1>4. CASE ChooseProject \/ ChooseContractor \/ EnterTitle
  BY <1>2, <1>4 DEF ChooseProject, ChooseContractor, EnterTitle
<1>5. CASE ChooseType \/ EnterBudget \/ EnterTerms \/ ChooseFeeMethod
  <2>1. CASE step # 1
    BY <1>5, <2>1 DEF ChooseType, EnterBudget, EnterTerms, ChooseFeeMethod
  <2>2. CASE step = 1
    <3>1. FirstStepValid(form) /\ ~FeeMethodAsked(form)
      BY <2>2
    <3>2. \A t \in Types : LET g == Registered([form EXCEPT !.type = t])
                           IN  FirstStepValid(g) /\ ~FeeMethodAsked(g)
      BY <1>0, <3>1 DEF Registered, FirstStepValid, FeeMethodAsked, Form
    <3>3. \A b \in Budgets \cup {Blank} : LET g == [form EXCEPT !.budget = b]
                                          IN  FirstStepValid(g) /\ ~FeeMethodAsked(g)
      BY <1>0, <3>1 DEF FirstStepValid, FeeMethodAsked, Form
    <3>4. /\ \A ts \in SUBSET Types : LET g == [form EXCEPT !.terms = ts]
                                      IN  FirstStepValid(g) /\ ~FeeMethodAsked(g)
          /\ \A ts \in SUBSET Types, fee \in {"valid", "invalid"} :
               LET g == [form EXCEPT !.terms = ts, !.fee = fee]
               IN  FirstStepValid(g) /\ ~FeeMethodAsked(g)
      BY <1>0, <3>1 DEF FirstStepValid, FeeMethodAsked, Form
    <3>5. \A m \in {"blank", "chosen"} : LET g == [form EXCEPT !.feeMethod = m]
                                         IN  FirstStepValid(g) /\ ~FeeMethodAsked(g)
      BY <1>0, <3>1 DEF FirstStepValid, FeeMethodAsked, Form
    <3>6. CASE ChooseType
      BY <1>3, <2>2, <3>2, <3>6 DEF ChooseType
    <3>7. CASE EnterBudget
      BY <1>3, <2>2, <3>3, <3>7 DEF EnterBudget
    <3>8. CASE EnterTerms
      <4>1. /\ form.terms \cup {form.type} \in SUBSET Types
            /\ form.terms \ {form.type} \in SUBSET Types
            /\ form.fee \in {"valid", "invalid"}
        BY <1>0 DEF Form
      <4> QED
        BY <1>3, <2>2, <3>4, <3>8, <4>1 DEF EnterTerms
    <3>9. CASE ChooseFeeMethod
      BY <1>3, <2>2, <3>5, <3>9 DEF ChooseFeeMethod
    <3> QED
      BY <1>5, <3>6, <3>7, <3>8, <3>9
  <2> QED
    BY <2>1, <2>2
<1>6. CASE EnterPercents
  <2>1. PICK p \in {"valid", "invalid"} : Fill([form EXCEPT !.percents = p])
    BY <1>6 DEF EnterPercents
  <2> DEFINE g == [form EXCEPT !.percents = p]
  <2>2. FirstStepValid(form) /\ SecondStepValid(form) => FirstStepValid(g) /\ SecondStepValid(g)
    BY <1>0 DEF FirstStepValid, SecondStepValid, FeeMethodAsked, FeeOutOfRange, Form
  <2>3. form' = g /\ step' = 2 /\ step = 2
    BY <1>6, <2>1 DEF Fill, EnterPercents
  <2> HIDE DEF g
  <2> QED
    BY <2>2, <2>3
<1>7. CASE AddRow \/ EditRow \/ DropRow
  BY <1>7 DEF AddRow, EditRow, DropRow, ChangeRows
<1>8. CASE ChooseFiles
  BY <1>1, <1>8 DEF ChooseFiles
<1>9. ASSUME NEW p \in {"chosen", "inactive"}, ProjectLoaded(p)
      PROVE  FormInv'
  <2> DEFINE g == [form EXCEPT !.project = p]
  <2>1. /\ FirstStepValid(form) => FirstStepValid(g)
        /\ SecondStepValid(form) => SecondStepValid(g)
        /\ FeeMethodAsked(g) => FeeMethodAsked(form)
        /\ g.budget = form.budget
    BY <1>0 DEF FirstStepValid, SecondStepValid, FeeMethodAsked, FeeOutOfRange, Form
  <2>2. form' = g /\ UNCHANGED <<step, wbsRows>>
    BY <1>9 DEF ProjectLoaded
  <2> HIDE DEF g
  <2> QED
    BY <2>1, <2>2 DEF wbsOverBudget, wbsTotal, grossBudgetOfForm
<1>10. CASE Close \/ \E p \in {"", "loading"} : Open(p)
  <2>1. step' = 0
    BY <1>10, Zenon DEF Close, Open
  <2> QED
    BY <2>1
<1>11. ASSUME ShowStep(1), FirstStepValid(form)
       PROVE  FormInv'
  <2>1. FirstStepValid(Registered(form)) /\ ~FeeMethodAsked(Registered(form))
    BY <1>0, <1>11 DEF FirstStepValid, Registered, FeeMethodAsked, Form
  <2> QED
    BY <1>11, <2>1 DEF ShowStep
<1>12. CASE goNext
  <2>1. CASE step = 0
    <3>1. FirstStepValid(form)
      BY <1>0, <1>12, <2>1, ErrorsByStep DEF goNext, CanLeave
    <3> QED
      BY <1>11, <1>12, <2>1, <3>1 DEF goNext
  <2>2. CASE step = 1
    <3>1. SecondStepValid(form)
      BY <1>0, <1>12, <2>2, ErrorsByStep DEF goNext, CanLeave
    <3> QED
      BY <1>12, <2>2, <3>1 DEF goNext, ShowStep
  <2>3. CASE step = 2
    BY <1>12, <2>3 DEF goNext, ShowStep
  <2>4. CASE step = 3
    <3>1. ~wbsOverBudget
      BY <1>12, <2>4 DEF goNext, CanLeave
    <3>2. UNCHANGED <<form, wbsRows>> /\ step' = 4
      BY <1>12, <2>4 DEF goNext, ShowStep
    <3> QED
      BY <2>4, <3>1, <3>2 DEF wbsOverBudget, wbsTotal, grossBudgetOfForm
  <2> QED
    BY <1>0, <1>12, <2>1, <2>2, <2>3, <2>4 DEF goNext
<1>13. CASE goBack
  <2>1. CASE step = 2
    BY <1>11, <1>13, <2>1 DEF goBack
  <2>2. CASE step # 2
    BY <1>0, <1>13, <2>2 DEF goBack, ShowStep
  <2> QED
    BY <2>1, <2>2
<1>14. CASE UNCHANGED sheetVars \/ onSuccess
  BY <1>1, <1>14 DEF sheetVars, onSuccess
<1>15. AtTheForm => FormInv'
  BY <1>4, <1>5, <1>6, <1>7, <1>8, <1>9, <1>10, <1>12, <1>13 DEF AtTheForm
<1>16. CASE UNCHANGED vars
  BY <1>14, <1>16 DEF vars
<1> QED
  BY <1>14, <1>15, <1>16
  DEF Next, User, AtTheForm, MutationStep, Submit, Resume, CallRefused, SendItem, SendFile,
      NetworkFails, onError, Colleague, Discard, ServerStep, ServerFault

LEMMA FormInvHolds == Spec => []FormInv
<1>1. Init => FormInv
  BY DEF Init, FormInv
<1>2. SheetInv /\ FormInv /\ [Next]_vars => FormInv'
  BY FormInvStep
<1> QED
  BY <1>1, <1>2, SheetInvHolds, PTL DEF Spec

(***************************************************************************)
(* Nothing that the last button refuses can have been passed on the steps  *)
(* before it, except the percentages: in whatever order the user goes back *)
(* and forth, changes the type and the budget, or closes the sheet.        *)
(***************************************************************************)
THEOREM StepsCover == Spec => []StepsCoverSchema
<1>1. SheetInv /\ FormInv => StepsCoverSchema
  <2> SUFFICES ASSUME SheetInv, FormInv, step = 4
               PROVE  Errors(form) \subseteq {"percents"}
    BY DEF StepsCoverSchema
  <2>1. form \in Form /\ FirstStepValid(form) /\ SecondStepValid(form)
    BY DEF SheetInv, TypeOK, FormInv
  <2> QED
    BY <2>1, ErrorsByStep
<1> QED
  BY <1>1, SheetInvHolds, FormInvHolds, PTL

(***************************************************************************)
(* A second step whose shown fields are valid holds the user only for a    *)
(* field that is no longer shown: a fee out of range, or the empty fee     *)
(* method, of a contract that was cost plus before.                        *)
(***************************************************************************)
THEOREM OnlyFeeTraps == Spec => []OnlyTheFeeTraps
<1>1. SheetInv /\ FormInv => OnlyTheFeeTraps
  <2> SUFFICES ASSUME SheetInv, FormInv, step = 1, ~CanLeave, form.project # "inactive",
                      ShownFieldsValid
               PROVE  form.type # "cost_plus" /\ (form.feeMethod = "blank" \/ FeeOutOfRange(form))
    BY DEF OnlyTheFeeTraps
  <2>1. form \in Form /\ ~FeeMethodAsked(form)
    BY DEF SheetInv, TypeOK, FormInv
  <2>2. ~SecondStepValid(form)
    BY <2>1, ErrorsByStep DEF CanLeave
  <2>3. form.feeMethod = "blank" \/ FeeOutOfRange(form)
    BY <2>1, <2>2 DEF SecondStepValid, ShownFieldsValid
  <2>4. form.type = "cost_plus" => form.feeMethod # "blank" /\ ~FeeOutOfRange(form)
    BY DEF ShownFieldsValid, FeeOutOfRange
  <2> QED
    BY <2>3, <2>4
<1> QED
  BY <1>1, SheetInvHolds, FormInvHolds, PTL

-----------------------------------------------------------------------------
(***************************************************************************)
(* VI. The mutation.  It ends the opening it was started from, or one that *)
(* the user has opened since: after a success no submission of the same    *)
(* opening can follow, because the sheet is closed.                        *)
(***************************************************************************)
SuccessInv ==
  /\ \A c \in Contracts \ exists : outcome[c] = "none"
  /\ \A c \in Contracts : origin[c] <= opening
  /\ mutation.pending /\ mutation.contract \in Contracts => outcome[mutation.contract] = "none"
  /\ \A c \in Contracts : outcome[c] = "success" =>
       /\ isOpen => origin[c] < opening
       /\ mutation.pending /\ mutation.contract \in Contracts =>
            origin[mutation.contract] # origin[c]
  /\ OneSuccessPerOpening

LEMMA SuccessInvStep ==
  ASSUME SheetInv, SuccessInv, [Next]_vars
  PROVE  SuccessInv'
<1> USE DEF SuccessInv, OneSuccessPerOpening
<1>0. /\ origin \in [Contracts -> 0..MaxOpenings] /\ opening \in Nat
      /\ outcome \in [Contracts -> {"none", "success", "failed"}]
      /\ exists \in SUBSET Contracts
      /\ mutation.pending /\ mutation.contract \in Contracts => mutation.contract \in exists
      /\ mutation.pending /\ mutation.awaiting = Blank => mutation.contract \in exists
      /\ Blank \notin Contracts /\ MaxOpenings \in Nat
  BY BoundsAreNat, SheetRequestsAreRequests DEF Rejected, SheetInv, TypeOK, ItemsTypeOK, Targeted
<1>1. exists \subseteq exists'
  BY NextIsBackend, ContractsStay DEF SheetInv
<1>2. ASSUME UNCHANGED <<mutation, origin, outcome>>,
             \/ UNCHANGED <<opening, isOpen>>
             \/ opening' \in Nat /\ opening' >= opening /\ isOpen' = FALSE
             \/ opening' = opening + 1
      PROVE  SuccessInv'
  <2>1. \A c \in Contracts : origin[c] \in Nat
    BY <1>0
  <2> QED
    BY <1>0, <1>1, <1>2, <2>1
<1>3. CASE AtTheForm
  <2>1. UNCHANGED <<mutation, origin, outcome>>
    BY <1>3, FormIsAtTheFront DEF historyVars
  <2>2. CASE \E p \in {"", "loading"} : Open(p)
    <3>1. opening' = opening + 1
      BY <2>2, Zenon DEF Open
    <3> QED
      BY <1>2, <2>1, <3>1
  <2>3. CASE Close
    <3>1. opening' = opening /\ isOpen' = FALSE
      BY <2>3, Zenon DEF Close
    <3>2. opening' \in Nat /\ opening' >= opening /\ isOpen' = FALSE
      BY <1>0, <3>1
    <3> QED
      BY <1>2, <2>1, <3>2
  <2>4. CASE ~Close /\ ~ \E p \in {"", "loading"} : Open(p)
    <3>1. UNCHANGED <<opening, isOpen>>
      BY <1>3, <2>4
      DEF AtTheForm, ProjectLoaded, ChooseProject, ChooseContractor, EnterTitle,
          ChooseType, EnterBudget, EnterTerms, ChooseFeeMethod, EnterPercents, Fill,
          AddRow, EditRow, DropRow, ChangeRows, ChooseFiles, goNext, goBack, ShowStep
    <3> QED
      BY <1>2, <2>1, <3>1
  <2> QED
    BY <2>2, <2>3, <2>4
<1>4. ASSUME NEW r \in SheetRequests, Submit(r)
      PROVE  SuccessInv'
  <2>1. PICK c \in {Fresh(Contracts \ exists), Blank} :
          /\ \/ /\ c # Blank
                /\ CreateContract(r, c, Kept(grossBudgetOfForm, BudgetUnit))
                /\ origin' = [origin EXCEPT ![c] = opening]
             \/ /\ c = Blank
                /\ RefuseContract(r)
                /\ UNCHANGED origin
          /\ mutation' = [Idle EXCEPT !.pending = TRUE, !.contract = c,
                                      !.budget = grossBudgetOfForm, !.rows = wbsRows,
                                      !.files = slotFiles, !.awaiting = r]
    BY <1>4, Zenon DEF Submit
  <2>2. mutation'.contract = c
    BY <2>1 DEF Idle
  <2>3. UNCHANGED <<opening, isOpen, outcome>> /\ isOpen
    BY <1>4 DEF Submit, sheetVars
  <2>4. \A d \in Contracts : origin[d] \in Nat
    BY <1>0
  <2>5. CASE c = Blank
    <3>1. UNCHANGED <<origin, exists>>
      BY <2>1, <2>5 DEF RefuseContract, itemVars
    <3> QED
      BY <1>0, <2>2, <2>3, <2>5, <3>1
  <2>6. CASE c # Blank
    <3>1. c \in Contracts \ exists /\ exists' = exists \cup {c} /\ origin' = [origin EXCEPT ![c] = opening]
      <4>1. CreateContract(r, c, Kept(grossBudgetOfForm, BudgetUnit)) /\ c = Fresh(Contracts \ exists)
        BY <2>1, <2>6
      <4>2. exists # Contracts
        BY <1>4 DEF Submit
      <4>3. c \in Contracts \ exists
        BY <1>0, <4>1, <4>2, Zenon DEF Fresh
      <4> QED
        BY <2>1, <2>6, <4>1, <4>3 DEF CreateContract
    <3>2. \A d \in Contracts : outcome[d] = "success" =>
            d # c /\ origin'[d] = origin[d] /\ origin[d] < opening
      BY <1>0, <2>3, <3>1
    <3>3. origin'[c] = opening /\ \A d \in Contracts : origin'[d] <= opening'
      BY <1>0, <2>3, <3>1
    <3> QED
      BY <1>0, <2>2, <2>3, <2>4, <3>1, <3>2, <3>3
  <2> QED
    BY <2>5, <2>6
<1>5. CASE Resume
  <2>1. /\ mutation'.pending = mutation.pending /\ mutation'.contract = mutation.contract
        /\ UNCHANGED <<opening, isOpen, origin, outcome>>
    BY <1>5 DEF Resume, sheetVars, historyVars, SheetInv, TypeOK, Mutation
  <2> QED
    BY <1>0, <1>1, <2>1
<1>6. CASE onError /\ mutation.pending
  <2>1. /\ ~mutation'.pending /\ UNCHANGED <<opening, isOpen, origin>>
        /\ outcome' = [c \in Contracts |-> IF c = mutation.contract THEN "failed" ELSE outcome[c]]
    BY <1>6 DEF onError, Idle, sheetVars
  <2> QED
    BY <1>0, <1>1, <1>6, <2>1
<1>7. CASE onSuccess
  <2>1. /\ ~mutation'.pending /\ UNCHANGED <<opening, origin>> /\ isOpen' = FALSE
        /\ outcome' = [outcome EXCEPT ![mutation.contract] = "success"]
        /\ mutation.pending /\ mutation.awaiting = Blank
    BY <1>7 DEF onSuccess, Idle
  <2> QED
    BY <1>0, <1>1, <2>1
<1>8. ASSUME NEW r \in SheetRequests, SendItem(r) \/ SendFile(r)
      PROVE  SuccessInv'
  <2>1. /\ mutation'.pending = mutation.pending /\ mutation'.contract = mutation.contract
        /\ UNCHANGED <<opening, isOpen, origin, outcome>>
    BY <1>8 DEF SendItem, SendFile, sheetVars, historyVars, SheetInv, TypeOK, Mutation
  <2> QED
    BY <1>0, <1>1, <2>1
<1>9. CASE UNCHANGED <<sheetVars, mutation, historyVars>>
  BY <1>2, <1>9 DEF sheetVars, historyVars
<1>10. CASE UNCHANGED vars
  BY <1>9, <1>10 DEF vars
<1>11. CallRefused => onError /\ mutation.pending
  BY DEF CallRefused, Answers
<1> QED
  BY <1>3, <1>4, <1>5, <1>6, <1>7, <1>8, <1>9, <1>10, <1>11
  DEF Next, User, AtTheForm, MutationStep, NetworkFails, Colleague, Discard,
      ServerStep, ServerFault

(***************************************************************************)
(* An opening of the sheet has one success at most, although the sheet can *)
(* be closed and opened again under a mutation that runs, and the success  *)
(* of one opening closes another.                                          *)
(***************************************************************************)
THEOREM OneSuccess == Spec => []OneSuccessPerOpening
<1>1. Init => SuccessInv
  <2> SUFFICES ASSUME Init PROVE SuccessInv
    OBVIOUS
  <2>1. ~mutation.pending
    BY DEF Init, Idle
  <2> QED
    BY <2>1 DEF Init, SuccessInv, OneSuccessPerOpening
<1>2. SheetInv /\ SuccessInv /\ [Next]_vars => SuccessInv'
  BY SuccessInvStep
<1>3. SuccessInv => OneSuccessPerOpening
  BY DEF SuccessInv
<1> QED
  BY <1>1, <1>2, <1>3, SheetInvHolds, PTL DEF Spec

-----------------------------------------------------------------------------
(***************************************************************************)
(* What was sent.  A row the loop has passed is stored, or the call that   *)
(* carries it has not been answered with success; the same of a file.      *)
(***************************************************************************)
RowStored(c, j) == \E t \in items : t.contract = c /\ t.sort = j

FileStored(c, s) == \E d \in docs : d.contract = c /\ d.slot = s

RowOnItsWay(r, c, j) ==
  \/ answer[r] = "refused"
  \/ /\ answer[r] = "busy"
     /\ \E p \in pricing : /\ p.request = r /\ p.op = "create"
                           /\ p.contract = c /\ p.sort = j

FileOnItsWay(r, c, s) ==
  \/ answer[r] = "refused"
  \/ /\ answer[r] = "busy"
     /\ \E f \in filing : /\ f.request = r /\ f.op = "upload"
                          /\ f.contract = c /\ f.slot = s

SentRow(r, c, j) == RowStored(c, j) \/ (r # Blank /\ RowOnItsWay(r, c, j))

SentFile(r, c, s) == FileStored(c, s) \/ (r # Blank /\ FileOnItsWay(r, c, s))

SentInv ==
  mutation.pending =>
    /\ \A j \in DOMAIN mutation.rows :
         mutation.rows[j].described /\ j < mutation.next =>
           SentRow(mutation.awaiting, mutation.contract, j)
    /\ \A s \in mutation.filed : SentFile(mutation.awaiting, mutation.contract, s)

\* Line items and documents stay what they are the rows of.
LEMMA StoredStays ==
  ASSUME BackendInv, IdsUnique, [BackendStep]_backendVars, NEW c, NEW n
  PROVE  /\ RowStored(c, n) => RowStored(c, n)'
         /\ FileStored(c, n) => FileStored(c, n)'
<1>0. items \in SUBSET Item /\ docs \in SUBSET Doc
  BY DEF BackendInv, ItemsTypeOK, DocumentsTypeOK
<1>1. ASSUME NEW i \in items, NEW j, Replaced(i, j), j.contract = i.contract, j.sort = i.sort
      PROVE  RowStored(c, n) => RowStored(c, n)'
  BY <1>1 DEF Replaced, RowStored
<1>2. items \subseteq items' => (RowStored(c, n) => RowStored(c, n)')
  BY DEF RowStored
<1>3. ASSUME NEW r \in Requests, NEW i \in items, DeleteLineItem(r, i)
      PROVE  RowStored(c, n) => RowStored(c, n)'
  <2> DEFINE j == [i EXCEPT !.deleted = TRUE]
  <2>1. j.contract = i.contract /\ j.sort = i.sort
    BY <1>0 DEF Item
  <2>2. Replaced(i, j)
    BY <1>3 DEF DeleteLineItem, Replaced
  <2> HIDE DEF j
  <2> QED
    BY <1>1, <2>1, <2>2
<1>4. ASSUME NEW p \in pricing, NEW i \in items, Updates(p, i)
      PROVE  RowStored(c, n) => RowStored(c, n)'
  <2> DEFINE j == [i EXCEPT !.amount = p.amount]
  <2>1. j.contract = i.contract /\ j.sort = i.sort
    BY <1>0 DEF Item
  <2>2. Replaced(i, j)
    BY <1>4 DEF Updates
  <2> HIDE DEF j
  <2> QED
    BY <1>1, <2>1, <2>2
<1>5. RowStored(c, n) => RowStored(c, n)'
  BY <1>2, <1>3, <1>4, StepKinds
  DEF CreateContract, Admits, BeginAmendment, AdmitsUpdate, Inserts, Inserted, Quits
<1>6. docs \subseteq docs' => (FileStored(c, n) => FileStored(c, n)')
  BY DEF FileStored
<1>7. ASSUME NEW k,
             docs' = { IF d.key = k THEN [d EXCEPT !.deleted = TRUE] ELSE d : d \in docs }
      PROVE  FileStored(c, n) => FileStored(c, n)'
  <2> SUFFICES ASSUME NEW d \in docs, d.contract = c, d.slot = n
               PROVE  \E e \in docs' : e.contract = c /\ e.slot = n
    BY DEF FileStored
  <2> DEFINE e == IF d.key = k THEN [d EXCEPT !.deleted = TRUE] ELSE d
  <2>1. e.contract = c /\ e.slot = n
    BY <1>0 DEF Doc
  <2>2. e \in docs'
    BY <1>7
  <2> QED
    BY <2>1, <2>2
<1>8. FileStored(c, n) => FileStored(c, n)'
  BY <1>6, <1>7, BackendIsDocuments
  DEF DocumentsNext, BeginUpload, BeginDelete, ServedElsewhere, FilingStep, FailDrop,
      DropReplaced, AcceptUpload, RefuseUpload, InsertDocument, FailInsert, DropDeleted,
      CrashFiling, docVars
<1> QED
  BY <1>5, <1>8

\* What is on its way is stored or refused next, or still on its way, while
\* its answer is not taken.
LEMMA OnItsWayStep ==
  ASSUME BackendInv, IdsUnique, [BackendStep]_backendVars, NEW r \in Requests, NEW c, NEW n,
         answer[r] = "refused" => answer'[r] = "refused"
  PROVE  /\ RowOnItsWay(r, c, n) => RowStored(c, n)' \/ RowOnItsWay(r, c, n)'
         /\ FileOnItsWay(r, c, n) => FileStored(c, n)' \/ FileOnItsWay(r, c, n)'
<1>0. /\ answer \in [Requests -> AnswerState]
      /\ pricing \in SUBSET Pricing /\ filing \in SUBSET Filing
      /\ \A p \in pricing : p.request \in Requests
      /\ \A f \in filing : f.request \in Requests
  BY DEF BackendInv, ItemsTypeOK, DocumentsTypeOK, AnswersTypeOK, Pricing, Filing
<1>1. CASE answer[r] # "busy"
  BY <1>1 DEF RowOnItsWay, FileOnItsWay
<1>2. CASE answer[r] = "busy"
  <2>1. ASSUME NEW p \in pricing, p.request = r, p.op = "create", p.contract = c, p.sort = n
        PROVE  RowStored(c, n)' \/ RowOnItsWay(r, c, n)'
    <3>1. /\ \A q \in pricing : q # p => q.request # r
          /\ \A f \in filing : f.request # r
      BY <2>1 DEF BackendInv, PricingCalls
    <3>2. CASE p \in pricing' /\ answer'[r] = "busy"
      BY <2>1, <3>2 DEF RowOnItsWay
    <3>3. CASE ItemsStep(p)
      <4>1. CASE WriteItem(p)
        <5> DEFINE t == [id |-> p.item, contract |-> p.contract, sort |-> p.sort,
                         amount |-> p.amount, deleted |-> FALSE]
        <5>1. t \in items' /\ t.contract = c /\ t.sort = n
          BY <2>1, <4>1 DEF WriteItem
        <5> QED
          BY <5>1 DEF RowStored
      <4>2. CASE FailWrite(p)
        BY <1>0, <2>1, <4>2 DEF FailWrite, Answered, RowOnItsWay
      <4> QED
        BY <2>1, <3>3, <4>1, <4>2 DEF ItemsStep, CheckAmendment
    <3>4. CASE Crash
      BY <1>2, <3>4 DEF Crash, CrashFiling, RowOnItsWay
    <3>5. ASSUME NEW q \in pricing, q # p, ItemsStep(q)
          PROVE  p \in pricing' /\ answer'[r] = "busy"
      BY <1>0, <1>2, <3>1, <3>5
      DEF ItemsStep, CheckAmendment, WriteItem, FailWrite, Answered
    <3>6. ASSUME NEW f \in filing, FilingStep(f) \/ FailDrop(f), UNCHANGED itemVars
          PROVE  p \in pricing' /\ answer'[r] = "busy"
      BY <1>0, <1>2, <3>1, <3>6
      DEF FilingStep, FailDrop, DropReplaced, AcceptUpload, RefuseUpload,
          InsertDocument, FailInsert, DropDeleted, Answered, itemVars
    <3>7. ASSUME NEW s \in Requests, \/ ItemsCall(s)
                                     \/ DocumentsCall(s) /\ UNCHANGED itemVars
                                     \/ Take(s) /\ UNCHANGED itemVars
          PROVE  p \in pricing' /\ answer'[r] = "busy"
      BY <1>0, <1>2, <3>7
      DEF ItemsCall, CreateContract, RefuseContract, CheckLineItem, BeginAmendment, DeleteLineItem,
          DocumentsCall, BeginUpload, BeginDelete, Take, Answered, itemVars
    <3>8. CASE UNCHANGED backendVars
      BY <1>2, <3>2, <3>8 DEF backendVars, itemVars
    <3> QED
      BY <3>2, <3>3, <3>4, <3>5, <3>6, <3>7, <3>8 DEF BackendStep
  <2>2. ASSUME NEW f \in filing, f.request = r, f.op = "upload", f.contract = c, f.slot = n
        PROVE  FileStored(c, n)' \/ FileOnItsWay(r, c, n)'
    <3>1. /\ \A q \in pricing : q.request # r
          /\ \A g \in filing : g # f => g.request # r
      BY <2>2 DEF BackendInv, PricingCalls, OneHandlerPerCall
    <3>2. ASSUME answer'[r] = "busy", NEW g, g \in filing', g.request = r, g.op = "upload",
                 g.contract = c, g.slot = n
          PROVE  FileOnItsWay(r, c, n)'
      BY <3>2 DEF FileOnItsWay
    <3>3. CASE FilingStep(f) \/ FailDrop(f)
      <4>1. ASSUME NEW stage, NEW k, filing' = (filing \ {f}) \cup {UploadAt(r, c, n, stage, k)},
                   UNCHANGED answer
            PROVE  FileOnItsWay(r, c, n)'
        <5> DEFINE g == UploadAt(r, c, n, stage, k)
        <5>1. g \in filing' /\ g.request = r /\ g.op = "upload" /\ g.contract = c /\ g.slot = n
          BY <4>1 DEF UploadAt
        <5> HIDE DEF g
        <5> QED
          BY <1>2, <3>2, <4>1, <5>1
      <4>2. CASE AcceptUpload(f)
        <5> DEFINE g == [f EXCEPT !.stage = "insert"]
        <5>1. g.request = r /\ g.op = "upload" /\ g.contract = c /\ g.slot = n
          BY <1>0, <2>2 DEF Filing
        <5>2. g \in filing' /\ UNCHANGED answer
          BY <4>2 DEF AcceptUpload
        <5> HIDE DEF g
        <5> QED
          BY <1>2, <3>2, <5>1, <5>2
      <4>3. CASE RefuseUpload(f) \/ FailInsert(f)
        BY <1>0, <2>2, <4>3 DEF RefuseUpload, FailInsert, Answered, FileOnItsWay
      <4>4. CASE InsertDocument(f)
        <5> DEFINE d == [key |-> f.key, contract |-> f.contract, slot |-> f.slot,
                         deleted |-> FALSE]
        <5>1. d \in docs' /\ d.contract = c /\ d.slot = n
          BY <2>2, <4>4 DEF InsertDocument
        <5> QED
          BY <5>1 DEF FileStored
      <4>5. CASE DropReplaced(f) \/ FailDrop(f)
        BY <2>2, <4>1, <4>5 DEF DropReplaced, FailDrop
      <4> QED
        BY <2>2, <3>3, <4>2, <4>3, <4>4, <4>5 DEF FilingStep, DropDeleted
    <3>4. CASE Crash
      BY <1>2, <3>4 DEF Crash, CrashFiling, FileOnItsWay
    <3>5. ASSUME NEW q \in pricing, ItemsStep(q), UNCHANGED docVars
          PROVE  f \in filing' /\ answer'[r] = "busy"
      BY <1>0, <1>2, <3>1, <3>5
      DEF ItemsStep, CheckAmendment, WriteItem, FailWrite, Answered, docVars
    <3>6. ASSUME NEW g \in filing, g # f, FilingStep(g) \/ FailDrop(g)
          PROVE  f \in filing' /\ answer'[r] = "busy"
      BY <1>0, <1>2, <3>1, <3>6
      DEF FilingStep, FailDrop, DropReplaced, AcceptUpload, RefuseUpload,
          InsertDocument, FailInsert, DropDeleted, Answered
    <3>7. ASSUME NEW s \in Requests, \/ ItemsCall(s) /\ UNCHANGED docVars
                                     \/ DocumentsCall(s)
                                     \/ Take(s) /\ UNCHANGED docVars
          PROVE  f \in filing' /\ answer'[r] = "busy"
      BY <1>0, <1>2, <3>7
      DEF ItemsCall, CreateContract, RefuseContract, CheckLineItem, BeginAmendment, DeleteLineItem,
          DocumentsCall, BeginUpload, BeginDelete, Take, Answered, docVars
    <3>8. CASE UNCHANGED backendVars
      BY <1>2, <2>2, <3>2, <3>8 DEF backendVars, docVars
    <3>9. CASE f \in filing' /\ answer'[r] = "busy"
      BY <2>2, <3>2, <3>9
    <3> QED
      BY <3>3, <3>4, <3>5, <3>6, <3>7, <3>8, <3>9 DEF BackendStep
  <2> QED
    BY <1>2, <2>1, <2>2 DEF RowOnItsWay, FileOnItsWay
<1> QED
  BY <1>1, <1>2

LEMMA SentInvStep ==
  ASSUME SheetInv, IdsUnique, SentInv, [Next]_vars
  PROVE  SentInv'
<1> USE DEF SentInv
<1>0. /\ BackendInv /\ [BackendStep]_backendVars
      /\ mutation \in Mutation /\ answer \in [Requests -> AnswerState]
      /\ mutation.awaiting # Blank => mutation.awaiting \in Requests
  BY NextIsBackend, SheetRequestsAreRequests
  DEF SheetInv, TypeOK, DocumentsTypeOK, AnswersTypeOK, Mutation
<1>1. ASSUME UNCHANGED mutation,
             mutation.pending /\ mutation.awaiting # Blank =>
               (answer[mutation.awaiting] = "refused" => answer'[mutation.awaiting] = "refused")
      PROVE  SentInv'
  <2> SUFFICES ASSUME mutation.pending
               PROVE  /\ \A j : SentRow(mutation.awaiting, mutation.contract, j) =>
                                  SentRow(mutation.awaiting, mutation.contract, j)'
                      /\ \A s : SentFile(mutation.awaiting, mutation.contract, s) =>
                                  SentFile(mutation.awaiting, mutation.contract, s)'
    BY <1>1
  <2>1. ASSUME NEW n, mutation.awaiting # Blank
        PROVE  /\ RowOnItsWay(mutation.awaiting, mutation.contract, n)
                    => SentRow(mutation.awaiting, mutation.contract, n)'
               /\ FileOnItsWay(mutation.awaiting, mutation.contract, n)
                    => SentFile(mutation.awaiting, mutation.contract, n)'
    <3>1. mutation.awaiting \in Requests
      BY <1>0, <2>1
    <3> DEFINE r == mutation.awaiting
               c == mutation.contract
    <3>2. r' = r /\ c' = c
      BY <1>1
    <3>3. /\ RowOnItsWay(r, c, n) => \/ \E t \in items' : t.contract = c /\ t.sort = n
                                     \/ RowOnItsWay(r, c, n)'
          /\ FileOnItsWay(r, c, n) => \/ \E d \in docs' : d.contract = c /\ d.slot = n
                                      \/ FileOnItsWay(r, c, n)'
      <4>1. r \in Requests /\ (answer[r] = "refused" => answer'[r] = "refused")
        BY <1>1, <2>1, <3>1
      <4> HIDE DEF r, c
      <4>2. \A rr \in Requests : (answer[rr] = "refused" => answer'[rr] = "refused") =>
               \A cc, nn :
                 /\ RowOnItsWay(rr, cc, nn) =>
                      \/ \E t \in items' : t.contract = cc /\ t.sort = nn
                      \/ /\ answer'[rr] = "refused"
                      \/ /\ answer'[rr] = "busy"
                         /\ \E p \in pricing' : /\ p.request = rr /\ p.op = "create"
                                                /\ p.contract = cc /\ p.sort = nn
                 /\ FileOnItsWay(rr, cc, nn) =>
                      \/ \E d \in docs' : d.contract = cc /\ d.slot = nn
                      \/ /\ answer'[rr] = "refused"
                      \/ /\ answer'[rr] = "busy"
                         /\ \E f \in filing' : /\ f.request = rr /\ f.op = "upload"
                                               /\ f.contract = cc /\ f.slot = nn
        BY <1>0, OnItsWayStep DEF RowOnItsWay, FileOnItsWay, RowStored, FileStored
      <4> QED
        BY <3>2, <4>1, <4>2 DEF RowOnItsWay, FileOnItsWay
    <3> QED
      BY <2>1, <3>2, <3>3 DEF SentRow, SentFile, RowStored, FileStored
  <2>2. \A cc, n : /\ RowStored(cc, n) => \E t \in items' : t.contract = cc /\ t.sort = n
                   /\ FileStored(cc, n) => \E d \in docs' : d.contract = cc /\ d.slot = n
    BY <1>0, StoredStays DEF RowStored, FileStored
  <2> QED
    BY <1>1, <2>1, <2>2 DEF SentRow, SentFile, RowStored, FileStored
<1>2. CASE AtTheForm \/ ServerStep \/ UNCHANGED vars
  <2>1. UNCHANGED mutation
    BY <1>2, FormIsAtTheFront DEF ServerStep, vars
  <2>2. mutation.pending /\ mutation.awaiting # Blank =>
          (answer[mutation.awaiting] = "refused" => answer'[mutation.awaiting] = "refused")
    <3>1. CASE AtTheForm \/ UNCHANGED vars
      BY <3>1, FormIsAtTheFront DEF backendVars, vars
    <3>2. CASE ServerStep
      <4>1. \A r \in Requests : answer[r] # "busy" => answer'[r] = answer[r]
        <5>1. ASSUME NEW p \in pricing, ItemsStep(p), NEW r \in Requests, answer[r] # "busy"
              PROVE  answer'[r] = answer[r]
          <6>1. p.request # r
            BY <1>0, <5>1 DEF BackendInv, PricingCalls
          <6> QED
            BY <1>0, <5>1, <6>1
            DEF ItemsStep, CheckAmendment, WriteItem, FailWrite, Answered
        <5>2. ASSUME NEW f \in filing, FilingStep(f), NEW r \in Requests, answer[r] # "busy"
              PROVE  answer'[r] = answer[r]
          <6>1. f.request # r
            BY <1>0, <5>2 DEF BackendInv, OneHandlerPerCall
          <6> QED
            BY <1>0, <5>2, <6>1
            DEF FilingStep, DropReplaced, AcceptUpload, RefuseUpload,
                InsertDocument, FailInsert, DropDeleted, Answered
        <5> QED
          BY <3>2, <5>1, <5>2 DEF ServerStep, ItemsStep
      <4> QED
        BY <1>0, <4>1
    <3> QED
      BY <1>2, <3>1, <3>2
  <2> QED
    BY <1>1, <2>1, <2>2
<1>3. CASE ServerFault
  <2>1. UNCHANGED mutation
    BY <1>3 DEF ServerFault
  <2>2. \A r \in Requests : answer[r] = "refused" => answer'[r] = "refused"
    BY <1>0, <1>3 DEF ServerFault, FailDrop, CrashFiling, Answered
  <2> QED
    BY <1>0, <1>1, <2>1, <2>2
<1>4. ASSUME NEW r \in Requests, Colleague(r)
      PROVE  SentInv'
  <2>1. UNCHANGED mutation /\ answer[r] = "free" /\ \E a : answer' = [answer EXCEPT ![r] = a]
    BY <1>4
    DEF Colleague, CheckLineItem, BeginAmendment, DeleteLineItem, BeginUpload, BeginDelete,
        Answered
  <2>2. \A s \in Requests : answer[s] = "refused" => answer'[s] = "refused"
    BY <1>0, <2>1
  <2> QED
    BY <1>0, <1>1, <2>1, <2>2
<1>5. CASE Discard
  <2>1. PICK r \in Requests : ~Answers(r) /\ Take(r)
    BY <1>5 DEF Discard
  <2>2. UNCHANGED mutation
    BY <1>5 DEF Discard
  <2>3. mutation.pending /\ mutation.awaiting # Blank => r # mutation.awaiting
    BY <2>1 DEF Answers
  <2> QED
    BY <1>0, <1>1, <2>1, <2>2, <2>3 DEF Take, Answered
<1>6. ASSUME ~mutation'.pending
      PROVE  SentInv'
  BY <1>6
<1>7. CASE onError \/ onSuccess
  BY <1>6, <1>7 DEF onError, onSuccess, Idle
<1>8. ASSUME NEW r \in SheetRequests, Submit(r)
      PROVE  SentInv'
  <2>1. /\ mutation'.next = 1 /\ mutation'.filed = {} /\ mutation'.rows = wbsRows
        /\ wbsRows \in Seq(Rows)
    BY <1>8 DEF Submit, Idle, SheetInv, RowsKnown
  <2>2. \A j \in DOMAIN mutation'.rows : ~ (j < mutation'.next)
    BY <2>1
  <2> QED
    BY <2>1, <2>2
<1>9. CASE Resume
  <2>1. PICK r \in SheetRequests : Answers(r) /\ answer[r] = "ok"
    BY <1>9 DEF Resume
  <2>2. /\ mutation' = [mutation EXCEPT !.awaiting = Blank]
        /\ UNCHANGED <<items, docs>> /\ mutation.pending /\ mutation.awaiting = r
    BY <1>9, <2>1 DEF Resume, Answers, itemVars, docVars
  <2>3. /\ mutation'.rows = mutation.rows /\ mutation'.next = mutation.next
        /\ mutation'.filed = mutation.filed /\ mutation'.contract = mutation.contract
    BY <1>0, <2>2 DEF Mutation
  <2>4. \A n : ~RowOnItsWay(r, mutation.contract, n) /\ ~FileOnItsWay(r, mutation.contract, n)
    BY <2>1 DEF RowOnItsWay, FileOnItsWay
  <2> QED
    BY <2>2, <2>3, <2>4 DEF SentRow, SentFile, RowStored, FileStored
<1>10. ASSUME NEW r \in SheetRequests, SendItem(r)
       PROVE  SentInv'
  <2>6. PICK i : i = Min(RowsToSend)
    OBVIOUS
  <2>1. /\ mutation.pending /\ mutation.awaiting = Blank /\ r \in Requests /\ r # Blank
        /\ CheckLineItem(r, mutation.contract, i, SentPrice(mutation.rows[i]))
        /\ mutation' = [mutation EXCEPT !.next = i + 1, !.awaiting = r]
        /\ UNCHANGED <<items, docs>>
    BY <1>10, <2>6, SheetRequestsAreRequests DEF SendItem, CheckLineItem, docVars
  <2>2. /\ i \in DOMAIN mutation.rows /\ i \in Nat
        /\ \A j \in RowsToSend : i <= j
    BY <1>10, <2>6, NextRow DEF SendItem, RowsToSend, SheetInv, TypeOK, Mutation
  <2>3. /\ mutation'.rows = mutation.rows /\ mutation'.next = i + 1
        /\ mutation'.filed = mutation.filed /\ mutation'.contract = mutation.contract
        /\ mutation'.awaiting = r /\ mutation.rows \in Seq(Rows) /\ mutation.next \in Nat
    BY <1>0, <2>1 DEF Mutation, SheetInv, RowsKnown
  <2>4. RowOnItsWay(r, mutation.contract, i)'
    <3>1. CASE answer'[r] = "refused"
      BY <2>3, <3>1 DEF RowOnItsWay
    <3>2. CASE answer'[r] # "refused"
      <4> DEFINE p == [request |-> r, op |-> "create", item |-> Fresh(UnusedItems),
                       contract |-> mutation.contract, sort |-> i,
                       amount |-> SentPrice(mutation.rows[i]).stored]
      <4>1. /\ answer' = [answer EXCEPT ![r] = "busy"] /\ p \in pricing'
        BY <1>0, <2>1, <3>2 DEF CheckLineItem, Answered
      <4>2. p.request = r /\ p.op = "create" /\ p.contract = mutation.contract /\ p.sort = i
        OBVIOUS
      <4> HIDE DEF p
      <4> QED
        BY <1>0, <2>1, <2>3, <4>1, <4>2 DEF RowOnItsWay
    <3> QED
      BY <3>1, <3>2
  <2>5. ASSUME NEW j \in DOMAIN mutation.rows, mutation.rows[j].described, j < i + 1, j # i
        PROVE  j < mutation.next
    <3>1. j \in 1..Len(mutation.rows) /\ j < i
      BY <2>2, <2>3, <2>5
    <3>2. j \notin RowsToSend
      BY <2>2, <3>1
    <3> QED
      BY <2>3, <2>5, <3>1, <3>2 DEF RowsToSend
  <2> QED
    BY <2>1, <2>3, <2>4, <2>5 DEF SentRow, SentFile, RowStored, FileStored
<1>11. ASSUME NEW r \in SheetRequests, SendFile(r)
       PROVE  SentInv'
  <2>1. PICK s \in mutation.files \ mutation.filed :
          /\ BeginUpload(r, mutation.contract, s)
          /\ mutation' = [mutation EXCEPT !.filed = @ \cup {s}, !.awaiting = r]
    BY <1>11 DEF SendFile
  <2>2. /\ mutation.pending /\ mutation.awaiting = Blank /\ r \in Requests /\ r # Blank
        /\ UNCHANGED <<items, docs>>
    BY <1>11, <2>1, SheetRequestsAreRequests DEF SendFile, BeginUpload, itemVars
  <2>3. /\ mutation'.rows = mutation.rows /\ mutation'.next = mutation.next
        /\ mutation'.filed = mutation.filed \cup {s} /\ mutation'.contract = mutation.contract
        /\ mutation'.awaiting = r
    BY <1>0, <2>1 DEF Mutation
  <2>4. FileOnItsWay(r, mutation.contract, s)'
    <3>1. \E stage, k : UploadAt(r, mutation.contract, s, stage, k) \in filing'
      BY <2>1 DEF BeginUpload
    <3>2. PICK f \in filing' : /\ f.request = r /\ f.op = "upload"
                               /\ f.contract = mutation.contract /\ f.slot = s
      BY <3>1 DEF UploadAt
    <3>3. answer'[r] = "busy"
      BY <1>0, <2>1, <2>2 DEF BeginUpload, Answered
    <3> QED
      BY <2>3, <3>2, <3>3 DEF FileOnItsWay
  <2> QED
    BY <2>2, <2>3, <2>4 DEF SentRow, SentFile, RowStored, FileStored
<1> QED
  BY <1>2, <1>3, <1>4, <1>5, <1>7, <1>8, <1>9, <1>10, <1>11
  DEF Next, User, AtTheForm, MutationStep, CallRefused, NetworkFails

LEMMA SentInvHolds == Spec => []SentInv
<1>1. Init => SentInv
  BY DEF Init, SentInv, Idle
<1>2. SheetInv /\ BudgetInv /\ SentInv /\ [Next]_vars => SentInv'
  BY SentInvStep DEF BudgetInv
<1> QED
  BY <1>1, <1>2, SheetInvHolds, BudgetInvHolds, PTL DEF Spec

(***************************************************************************)
(* When the user is told that a contract was created, everything that was  *)
(* filled in is stored: no call of the sheet was lost, refused, or skipped *)
(* before the success.                                                     *)
(***************************************************************************)
THEOREM SuccessComplete == Spec => SuccessIsComplete
<1> DEFINE Complete ==
      \A c \in Contracts : (outcome[c] # "success" /\ outcome'[c] = "success") =>
        /\ \A i \in DOMAIN mutation.rows : mutation.rows[i].described =>
             \E t \in items : t.contract = c /\ t.sort = i
        /\ \A s \in mutation.files : \E d \in docs : d.contract = c /\ d.slot = s
<1>1. SheetInv /\ SentInv /\ [Next]_vars => [Complete]_vars
  <2> SUFFICES ASSUME SheetInv, SentInv, [Next]_vars,
                      NEW c \in Contracts, outcome[c] # "success", outcome'[c] = "success"
               PROVE  /\ \A i \in DOMAIN mutation.rows : mutation.rows[i].described =>
                           \E t \in items : t.contract = c /\ t.sort = i
                      /\ \A s \in mutation.files : \E d \in docs : d.contract = c /\ d.slot = s
    OBVIOUS
  <2>0. outcome \in [Contracts -> {"none", "success", "failed"}]
        /\ mutation.next \in Nat /\ mutation.rows \in Seq(Rows)
    BY DEF SheetInv, TypeOK, Mutation, RowsKnown
  <2>1. onSuccess
    <3>1. ~onError
      BY <2>0 DEF onError
    <3>2. outcome' # outcome
      BY <2>0
    <3> QED
      BY <3>1, <3>2, FormIsAtTheFront
      DEF Next, User, AtTheForm, MutationStep, CallRefused, NetworkFails, Submit, Resume,
          SendItem, SendFile, Colleague, Discard, ServerStep, ServerFault, historyVars, vars
  <2>2. /\ mutation.pending /\ mutation.awaiting = Blank /\ RowsToSend = {}
        /\ mutation.files = mutation.filed /\ mutation.contract = c
    BY <2>0, <2>1 DEF onSuccess
  <2>3. ASSUME NEW i \in DOMAIN mutation.rows, mutation.rows[i].described
        PROVE  i < mutation.next
    <3>1. i \in 1..Len(mutation.rows) /\ i \notin RowsToSend
      BY <2>0, <2>2
    <3> QED
      BY <2>0, <2>3, <3>1 DEF RowsToSend
  <2> QED
    BY <2>2, <2>3 DEF SentInv, SentRow, SentFile, RowStored, FileStored
<1> QED
  BY <1>1, SheetInvHolds, SentInvHolds, PTL DEF Spec, SuccessIsComplete

-----------------------------------------------------------------------------
(***************************************************************************)
(* VII. Refusals.  While a mutation runs, its contract has at most one     *)
(* item for each row it has passed, so the stored sum is at most what the  *)
(* sheet has added up, and that was within the budget when it was sent.    *)
(***************************************************************************)
RowTotals(rows) ==
  [i \in DOMAIN rows |-> OrElse(rows[i].quantity, 0) * OrElse(rows[i].rate, 0)]

\* The items that are stored or will be, and the rows they come from.
PlaceOf(k, c, sort) == [item |-> k, contract |-> c, sort |-> sort]

Placements ==
  { PlaceOf(t.id, t.contract, t.sort) : t \in items }
    \cup { PlaceOf(p.item, p.contract, p.sort) : p \in { q \in pricing : q.op = "create" } }

Numbered == { k \in Placements : k.contract = mutation.contract /\ k.sort # 0 }

Passed(k) ==
  /\ k.sort < mutation.next /\ k.sort \in DOMAIN mutation.rows
  /\ mutation.rows[k.sort].described

RowsOnce ==
  mutation.pending =>
    /\ \A k \in Numbered : Passed(k)
    /\ \A k, l \in Numbered : k.sort = l.sort => k = l

\* What the sheet has sent as the budget, and what it has compared with it.
TotalWithinBudget ==
  mutation.pending =>
    /\ DoubleOf(mutation.budget) > 0 =>
         ~ (DoubleTotal(mutation.rows) > DoubleOf(mutation.budget))
    /\ mutation.contract \in Contracts =>
         grossBudget[mutation.contract] = Kept(mutation.budget, BudgetUnit)

\* A creation that begins adds the row it is for.
LEMMA PlacementBegins ==
  ASSUME NEW r, NEW c, NEW sort, NEW a, CheckLineItem(r, c, sort, a)
  PROVE  \E k : k.contract = c /\ k.sort = sort /\ Placements' \subseteq Placements \cup {k}
<1> DEFINE p == [request |-> r, op |-> "create", item |-> Fresh(UnusedItems),
                 contract |-> c, sort |-> sort, amount |-> a.stored]
           k == PlaceOf(p.item, c, sort)
<1>1. items' = items /\ pricing' \subseteq pricing \cup {p}
  BY DEF CheckLineItem
<1>2. /\ k.contract = c /\ k.sort = sort
      /\ k = PlaceOf(p.item, p.contract, p.sort)
  BY DEF PlaceOf
<1> HIDE DEF k, p
<1>3. ASSUME NEW l \in Placements'
      PROVE  l \in Placements \cup {k}
  BY <1>1, <1>2, <1>3 DEF Placements
<1> QED
  BY <1>2, <1>3

\* Nothing else adds one: a write stores what was going to be stored.
LEMMA PlacementsKept ==
  ASSUME BackendInv,
         \/ \E r, c, b : CreateContract(r, c, b)
         \/ \E r, a : \E i \in items : BeginAmendment(r, i, a) \/ DeleteLineItem(r, i)
         \/ \E p \in pricing : ItemsStep(p)
         \/ Crash
         \/ UNCHANGED itemVars
  PROVE  Placements' \subseteq Placements
<1>0. \A t \in items : t \in Item
  BY DEF BackendInv, ItemsTypeOK
<1>1. ASSUME \A t \in items' : PlaceOf(t.id, t.contract, t.sort) \in Placements,
             \A p \in pricing' : p.op = "create" => p \in pricing
      PROVE  Placements' \subseteq Placements
  <2>1. ASSUME NEW l \in Placements'
        PROVE  l \in Placements
    BY <1>1, <2>1 DEF Placements
  <2> QED
    BY <2>1
<1>2. \A t \in items : PlaceOf(t.id, t.contract, t.sort) \in Placements
  BY DEF Placements
<1>3. ASSUME NEW r, NEW c, NEW b, CreateContract(r, c, b)
      PROVE  Placements' \subseteq Placements
  BY <1>1, <1>2, <1>3 DEF CreateContract
<1>4. ASSUME NEW r, NEW a, NEW i \in items, BeginAmendment(r, i, a)
      PROVE  Placements' \subseteq Placements
  BY <1>1, <1>2, <1>4 DEF BeginAmendment
<1>5. ASSUME NEW r, NEW i \in items, DeleteLineItem(r, i)
      PROVE  Placements' \subseteq Placements
  <2> DEFINE j == [i EXCEPT !.deleted = TRUE]
  <2>1. j.id = i.id /\ j.contract = i.contract /\ j.sort = i.sort
    BY <1>0 DEF Item
  <2>2. items' = (items \ {i}) \cup {j} /\ pricing' = pricing
    BY <1>5 DEF DeleteLineItem
  <2> HIDE DEF j
  <2> QED
    BY <1>1, <1>2, <2>1, <2>2
<1>6. ASSUME NEW p \in pricing, ItemsStep(p)
      PROVE  Placements' \subseteq Placements
  <2>1. CASE CheckAmendment(p)
    <3>1. items' = items
      BY <2>1 DEF CheckAmendment
    <3>2. pricing' \subseteq pricing \cup {[p EXCEPT !.op = "update"]}
      BY <2>1 DEF CheckAmendment
    <3>3. [p EXCEPT !.op = "update"].op # "create"
      BY DEF BackendInv, ItemsTypeOK, Pricing
    <3> QED
      BY <1>1, <1>2, <3>1, <3>2, <3>3
  <2>2. CASE FailWrite(p)
    BY <1>1, <1>2, <2>2 DEF FailWrite
  <2>3. CASE WriteItem(p) /\ p.op = "create"
    <3> DEFINE t == [id |-> p.item, contract |-> p.contract, sort |-> p.sort,
                     amount |-> p.amount, deleted |-> FALSE]
    <3>1. items' = items \cup {t} /\ pricing' = pricing \ {p}
      BY <2>3 DEF WriteItem
    <3>2. t.id = p.item /\ t.contract = p.contract /\ t.sort = p.sort
      OBVIOUS
    <3> HIDE DEF t
    <3>3. PlaceOf(t.id, t.contract, t.sort) \in Placements
      BY <2>3, <3>2 DEF Placements
    <3> QED
      BY <1>1, <1>2, <3>1, <3>3
  <2>4. CASE WriteItem(p) /\ p.op # "create"
    <3>1. /\ items' = { IF i.id = p.item /\ ~i.deleted
                          THEN [i EXCEPT !.amount = p.amount] ELSE i : i \in items }
          /\ pricing' = pricing \ {p}
      BY <2>4 DEF WriteItem
    <3>2. \A i \in items : LET j == [i EXCEPT !.amount = p.amount]
                           IN  j.id = i.id /\ j.contract = i.contract /\ j.sort = i.sort
      BY <1>0 DEF Item
    <3>3. ASSUME NEW t \in items'
          PROVE  PlaceOf(t.id, t.contract, t.sort) \in Placements
      <4>1. \E i \in items : t.id = i.id /\ t.contract = i.contract /\ t.sort = i.sort
        BY <3>1, <3>2
      <4> QED
        BY <1>2, <4>1
    <3> QED
      BY <1>1, <3>1, <3>3
  <2> QED
    BY <1>6, <2>1, <2>2, <2>3, <2>4 DEF ItemsStep
<1>7. CASE Crash
  BY <1>1, <1>2, <1>7 DEF Crash
<1>8. CASE UNCHANGED itemVars
  BY <1>1, <1>2, <1>8 DEF itemVars
<1> QED
  BY <1>3, <1>4, <1>5, <1>6, <1>7, <1>8

LEMMA RowsOnceStep ==
  ASSUME SheetInv, Placed, RowsOnce, [Next]_vars
  PROVE  RowsOnce'
<1> USE DEF RowsOnce, Passed
<1>0. /\ BackendInv /\ mutation \in Mutation
      /\ mutation.rows \in Seq(Rows) /\ mutation.next \in Nat
      /\ exists \in SUBSET Contracts /\ Blank \notin Contracts
  BY SheetRequestsAreRequests DEF SheetInv, TypeOK, ItemsTypeOK, Mutation, RowsKnown
<1>1. ASSUME Placements' \subseteq Placements,
             mutation'.pending => /\ mutation.pending /\ mutation'.contract = mutation.contract
                                  /\ mutation'.rows = mutation.rows
                                  /\ mutation'.next = mutation.next
      PROVE  RowsOnce'
  <2> SUFFICES ASSUME mutation'.pending
               PROVE  /\ \A k \in Numbered' : Passed(k)'
                      /\ \A k, l \in Numbered' : k.sort = l.sort => k = l
    OBVIOUS
  <2>1. \A k \in Numbered' : k \in Numbered
    BY <1>1 DEF Numbered
  <2> QED
    BY <1>1, <2>1
<1>2. CASE UNCHANGED <<itemVars, mutation>>
  BY <1>0, <1>1, <1>2, PlacementsKept
<1>3. ASSUME NEW r \in SheetRequests, Submit(r)
      PROVE  RowsOnce'
  <2>1. PICK c \in {Fresh(Contracts \ exists), Blank} :
          /\ \/ c # Blank /\ CreateContract(r, c, Kept(grossBudgetOfForm, BudgetUnit))
             \/ c = Blank /\ RefuseContract(r)
          /\ mutation' = [Idle EXCEPT !.pending = TRUE, !.contract = c,
                                      !.budget = grossBudgetOfForm, !.rows = wbsRows,
                                      !.files = slotFiles, !.awaiting = r]
    BY <1>3, Zenon DEF Submit
  <2>2. mutation'.contract = c
    BY <2>1 DEF Idle
  <2>3. Placements' \subseteq Placements /\ c \notin exists
    <3>1. CASE c # Blank
      <4>1. CreateContract(r, c, Kept(grossBudgetOfForm, BudgetUnit))
        BY <2>1, <3>1
      <4>2. c \notin exists
        BY <4>1 DEF CreateContract
      <4> QED
        BY <1>0, <4>1, <4>2, PlacementsKept
    <3>2. CASE c = Blank
      <4>1. UNCHANGED itemVars
        BY <2>1, <3>2 DEF RefuseContract
      <4> QED
        BY <1>0, <3>2, <4>1, PlacementsKept
    <3> QED
      BY <3>1, <3>2
  <2>4. \A k \in Placements : k.contract \in exists
    BY DEF Placed, Placements, PlaceOf
  <2>5. Numbered' = {}
    BY <2>2, <2>3, <2>4 DEF Numbered
  <2> QED
    BY <2>5
<1>4. CASE onError \/ onSuccess
  BY <1>4 DEF onError, onSuccess, Idle
<1>5. ASSUME UNCHANGED itemVars, NEW a, NEW fs,
             mutation' = [mutation EXCEPT !.filed = fs, !.awaiting = a]
      PROVE  RowsOnce'
  <2>1. /\ mutation'.pending = mutation.pending /\ mutation'.contract = mutation.contract
        /\ mutation'.rows = mutation.rows /\ mutation'.next = mutation.next
    BY <1>0, <1>5 DEF Mutation
  <2> QED
    BY <1>0, <1>1, <1>5, <2>1, PlacementsKept
<1>6. CASE Resume
  <2>1. UNCHANGED itemVars /\ mutation' = [mutation EXCEPT !.awaiting = Blank]
    BY <1>6 DEF Resume
  <2>2. /\ mutation'.pending = mutation.pending /\ mutation'.contract = mutation.contract
        /\ mutation'.rows = mutation.rows /\ mutation'.next = mutation.next
    BY <1>0, <2>1 DEF Mutation
  <2> QED
    BY <1>0, <1>1, <2>1, <2>2, PlacementsKept
<1>7. ASSUME NEW r \in SheetRequests, SendFile(r)
      PROVE  RowsOnce'
  BY <1>5, <1>7 DEF SendFile
<1>8. ASSUME NEW r \in SheetRequests, SendItem(r)
      PROVE  RowsOnce'
  <2>1. PICK i : i = Min(RowsToSend)
    OBVIOUS
  <2>2. /\ mutation.pending /\ mutation' = [mutation EXCEPT !.next = i + 1, !.awaiting = r]
        /\ CheckLineItem(r, mutation.contract, i, SentPrice(mutation.rows[i]))
    BY <1>8, <2>1 DEF SendItem
  <2>3. /\ i \in DOMAIN mutation.rows /\ mutation.rows[i].described
        /\ i >= mutation.next /\ i \in Nat
    BY <1>0, <1>8, <2>1, NextRow DEF SendItem, RowsToSend
  <2>4. /\ mutation'.contract = mutation.contract /\ mutation'.rows = mutation.rows
        /\ mutation'.next = i + 1
    BY <1>0, <2>2 DEF Mutation
  <2>5. PICK k : /\ k.contract = mutation.contract /\ k.sort = i
                 /\ Placements' \subseteq Placements \cup {k}
    BY <2>2, PlacementBegins
  <2>6. \A l \in Numbered' : l = k \/ l \in Numbered
    BY <2>4, <2>5 DEF Numbered
  <2>7. \A l \in Numbered : l.sort \in Nat /\ l.sort < i
    BY <1>0, <2>2, <2>3
  <2>8. ASSUME NEW l \in Numbered'
        PROVE  Passed(l)'
    <3>1. CASE l = k
      BY <2>3, <2>4, <2>5, <3>1
    <3>2. CASE l \in Numbered
      BY <2>2, <2>3, <2>4, <2>7, <3>2
    <3> QED
      BY <2>6, <2>8, <3>1, <3>2
  <2>9. ASSUME NEW l \in Numbered', NEW m \in Numbered', l.sort = m.sort
        PROVE  l = m
    <3>1. l = k <=> m = k
      BY <2>3, <2>5, <2>6, <2>7, <2>9
    <3> QED
      BY <2>2, <2>6, <2>9, <3>1
  <2> QED
    BY <2>8, <2>9
<1>9. ASSUME NEW r \in Requests, Colleague(r)
      PROVE  RowsOnce'
  <2>1. UNCHANGED mutation
    BY <1>9 DEF Colleague
  <2>2. CASE \E c \in exists, a \in ColleaguePrices : CheckLineItem(r, c, 0, a)
    <3>1. PICK c \in exists, a \in ColleaguePrices : CheckLineItem(r, c, 0, a)
      BY <2>2
    <3>2. PICK k : k.sort = 0 /\ Placements' \subseteq Placements \cup {k}
      BY <3>1, PlacementBegins
    <3>3. \A l \in Numbered' : l \in Numbered
      BY <2>1, <3>2 DEF Numbered
    <3> QED
      BY <2>1, <3>3
  <2>3. CASE ~ \E c \in exists, a \in ColleaguePrices : CheckLineItem(r, c, 0, a)
    <3>1. Placements' \subseteq Placements
      BY <1>0, <1>9, <2>3, PlacementsKept DEF Colleague
    <3> QED
      BY <1>1, <2>1, <3>1
  <2> QED
    BY <2>2, <2>3
<1>10. CASE ServerStep \/ ServerFault
  <2>1. UNCHANGED mutation
    BY <1>10 DEF ServerStep, ServerFault
  <2>2. \/ \E p \in pricing : ItemsStep(p)
        \/ Crash
        \/ UNCHANGED itemVars
    BY <1>10 DEF ServerStep, ServerFault, ItemsStep, Crash, itemVars
  <2>3. Placements' \subseteq Placements
    BY <1>0, <2>2, PlacementsKept
  <2> QED
    BY <1>1, <2>1, <2>3
<1>11. CASE AtTheForm \/ Discard \/ UNCHANGED vars
  <2>1. UNCHANGED <<itemVars, mutation>>
    BY <1>11, FormIsAtTheFront DEF Discard, vars, backendVars
  <2> QED
    BY <1>2, <2>1
<1> QED
  BY <1>3, <1>4, <1>6, <1>7, <1>8, <1>9, <1>10, <1>11
  DEF Next, User, AtTheForm, MutationStep, CallRefused, NetworkFails

\* What the sheet adds up.
LEMMA TotalsAreNat ==
  ASSUME NEW rows \in Seq(Rows)
  PROVE  /\ \A i \in DOMAIN rows : RowTotals(rows)[i] \in Nat /\ rows[i] \in Row
         /\ IsFiniteSet(DOMAIN rows)
         /\ Total(rows) = SumFunctionOnSet(RowTotals(rows), DOMAIN rows)
         /\ Total(rows) \in Nat
<1>1. IsFiniteSet(DOMAIN rows)
  <2>1. Len(rows) \in Nat /\ DOMAIN rows = 1..Len(rows)
    OBVIOUS
  <2> QED
    BY <2>1, FS_Interval
<1>2. ASSUME NEW i \in DOMAIN rows
      PROVE  RowTotals(rows)[i] \in Nat /\ rows[i] \in Row
  <2>1. rows[i] \in Row
    BY RowsHavePrices DEF Rows
  <2> DEFINE q == OrElse(rows[i].quantity, 0)
             rate == OrElse(rows[i].rate, 0)
  <2>2. q \in Nat /\ rate \in Nat
    BY <2>1 DEF Row, OrElse
  <2>3. RowTotals(rows)[i] = q * rate
    BY DEF RowTotals
  <2> HIDE DEF q, rate
  <2> QED
    BY <2>1, <2>2, <2>3
<1>3. DOMAIN RowTotals(rows) = DOMAIN rows
  BY DEF RowTotals
<1>4. Total(rows) = SumFunctionOnSet(RowTotals(rows), DOMAIN rows)
  BY <1>3 DEF SumFunction, Total, RowTotals
<1> DEFINE w == RowTotals(rows)
<1>5. \A i \in DOMAIN rows : w[i] \in Nat
  BY <1>2
<1> HIDE DEF w
<1>6. SumFunctionOnSet(w, DOMAIN rows) \in Nat
  BY <1>1, <1>5, SumNat
<1> QED
  BY <1>1, <1>2, <1>4, <1>6 DEF w

\* The budget of a contract stays what it was created with.
LEMMA BudgetsStay ==
  ASSUME BackendInv, [BackendStep]_backendVars, NEW c \in exists
  PROVE  grossBudget'[c] = grossBudget[c]
<1>1. grossBudget \in [Contracts -> Nat]
  BY DEF BackendInv, ItemsTypeOK
<1>2. ASSUME NEW r, NEW d, NEW b, CreateContract(r, d, b)
      PROVE  grossBudget'[c] = grossBudget[c]
  BY <1>1, <1>2 DEF CreateContract
<1>3. (\E r, d, b : CreateContract(r, d, b)) \/ UNCHANGED grossBudget
  BY DEF BackendStep, ItemsCall, RefuseContract, CheckLineItem, BeginAmendment,
         DeleteLineItem, ItemsStep, CheckAmendment, WriteItem, FailWrite, Crash, itemVars,
         backendVars
<1> QED
  BY <1>2, <1>3

LEMMA TotalStep ==
  ASSUME SheetInv, FormInv, TotalWithinBudget, [Next]_vars
  PROVE  TotalWithinBudget'
<1> USE DEF TotalWithinBudget
<1>0. /\ BackendInv /\ mutation \in Mutation /\ [BackendStep]_backendVars
      /\ mutation.pending /\ mutation.contract \in Contracts => mutation.contract \in exists
      /\ exists \in SUBSET Contracts /\ grossBudget \in [Contracts -> Nat]
      /\ Blank \notin Contracts
  BY NextIsBackend, SheetRequestsAreRequests
  DEF SheetInv, TypeOK, ItemsTypeOK, Targeted, Rejected
<1>1. ASSUME mutation'.pending => /\ mutation.pending /\ mutation'.contract = mutation.contract
                                  /\ mutation'.rows = mutation.rows
                                  /\ mutation'.budget = mutation.budget
      PROVE  TotalWithinBudget'
  <2>1. mutation.pending /\ mutation.contract \in Contracts =>
          grossBudget'[mutation.contract] = grossBudget[mutation.contract]
    BY <1>0, BudgetsStay
  <2> QED
    BY <1>1, <2>1
<1>2. ASSUME NEW r \in SheetRequests, Submit(r)
      PROVE  TotalWithinBudget'
  <2>1. PICK c \in {Fresh(Contracts \ exists), Blank} :
          /\ \/ c # Blank /\ CreateContract(r, c, Kept(grossBudgetOfForm, BudgetUnit))
             \/ c = Blank /\ RefuseContract(r)
          /\ mutation' = [Idle EXCEPT !.pending = TRUE, !.contract = c,
                                      !.budget = grossBudgetOfForm, !.rows = wbsRows,
                                      !.files = slotFiles, !.awaiting = r]
    BY <1>2, Zenon DEF Submit
  <2>2. mutation'.contract = c /\ mutation'.rows = wbsRows /\ mutation'.budget = grossBudgetOfForm
    BY <2>1 DEF Idle
  <2>3. c \in Contracts => grossBudget'[c] = Kept(grossBudgetOfForm, BudgetUnit)
    BY <1>0, <2>1 DEF CreateContract
  <2>4. ~wbsOverBudget
    BY <1>2 DEF Submit, FormInv
  <2> QED
    BY <2>2, <2>3, <2>4 DEF wbsOverBudget, wbsTotal
<1>3. CASE onError \/ onSuccess
  BY <1>3 DEF onError, onSuccess, Idle
<1>4. CASE Resume \/ \E r \in SheetRequests : SendItem(r) \/ SendFile(r)
  <2>1. /\ mutation'.pending = mutation.pending /\ mutation'.contract = mutation.contract
        /\ mutation'.rows = mutation.rows /\ mutation'.budget = mutation.budget
    BY <1>0, <1>4 DEF Mutation, Resume, SendItem, SendFile
  <2> QED
    BY <1>1, <2>1
<1>5. CASE UNCHANGED mutation
  BY <1>1, <1>5
<1> QED
  BY <1>2, <1>3, <1>4, <1>5, FormIsAtTheFront
  DEF Next, User, AtTheForm, MutationStep, CallRefused, NetworkFails, Colleague, Discard,
      ServerStep, ServerFault, vars

\* Nothing is kept of nothing.
LEMMA NothingKept == ASSUME NEW unit \in Nat \ {0} PROVE Kept(0, unit) = 0
<1>1. (2 * 0 + unit) \div (2 * unit) = 0
  OBVIOUS
<1> QED
  BY <1>1 DEF Kept

RefusalInv == RowsOnce /\ TotalWithinBudget

LEMMA RefusalInvHolds == Spec => []RefusalInv
<1>1. Init => RefusalInv
  BY DEF Init, Idle, RefusalInv, RowsOnce, TotalWithinBudget
<1>2. SheetInv /\ BudgetInv /\ FormInv /\ RefusalInv /\ [Next]_vars => RefusalInv'
  BY RowsOnceStep, TotalStep DEF BudgetInv, RefusalInv
<1> QED
  BY <1>1, <1>2, SheetInvHolds, BudgetInvHolds, FormInvHolds, PTL DEF Spec

\* A call of the sheet that is refused at once is the creation of an item.
LEMMA RefusedAtOnce ==
  ASSUME SheetInv, [Next]_vars, mutation.pending, NEW r \in SheetRequests,
         answer[r] = "free", answer'[r] = "refused"
  PROVE  SendItem(r)
<1>0. /\ BackendInv /\ answer \in [Requests -> AnswerState] /\ r \in Requests
  BY SheetRequestsAreRequests DEF SheetInv, BackendInv, DocumentsTypeOK, AnswersTypeOK
<1>1. ~ (AtTheForm \/ onSuccess \/ NetworkFails \/ UNCHANGED vars)
  <2>1. AtTheForm \/ onSuccess \/ NetworkFails \/ UNCHANGED vars => UNCHANGED answer
    BY FormIsAtTheFront DEF onSuccess, NetworkFails, vars, backendVars
  <2> QED
    BY <2>1
<1>2. ~ \E s : Take(s)
  BY <1>0 DEF Take, Answered
<1>3. ~ \E s \in SheetRequests : SendFile(s)
  BY <1>0 DEF SendFile, BeginUpload, Answered
<1>4. ~ \E s \in Requests : Colleague(s)
  <2> SUFFICES ASSUME NEW s \in Requests, Colleague(s) PROVE FALSE
    OBVIOUS
  <2>1. s # r /\ \E a : answer' = [answer EXCEPT ![s] = a]
    BY DEF Colleague, CheckLineItem, BeginAmendment, DeleteLineItem, BeginUpload,
           BeginDelete, Answered
  <2> QED
    BY <1>0, <2>1
<1>5. ~ (ServerStep \/ ServerFault)
  <2>1. ASSUME NEW p \in pricing, ItemsStep(p) PROVE FALSE
    <3>1. p.request # r
      BY <1>0, <2>1 DEF BackendInv, PricingCalls
    <3> QED
      BY <1>0, <2>1, <3>1 DEF ItemsStep, CheckAmendment, WriteItem, FailWrite, Answered
  <2>2. ASSUME NEW f \in filing, FilingStep(f) \/ FailDrop(f) PROVE FALSE
    <3>1. f.request # r
      BY <1>0, <2>2 DEF BackendInv, OneHandlerPerCall
    <3> QED
      BY <1>0, <2>2, <3>1
      DEF FilingStep, FailDrop, DropReplaced, AcceptUpload, RefuseUpload,
          InsertDocument, FailInsert, DropDeleted, Answered
  <2>3. ~CrashFiling
    BY <1>0 DEF CrashFiling
  <2> QED
    BY <2>1, <2>2, <2>3 DEF ServerStep, ServerFault, ItemsStep
<1>6. ASSUME NEW s \in SheetRequests, SendItem(s)
      PROVE  s = r
  <2>1. \E a : answer' = [answer EXCEPT ![s] = a]
    BY <1>6 DEF SendItem, CheckLineItem, Answered
  <2> QED
    BY <1>0, <2>1
<1> QED
  BY <1>1, <1>2, <1>3, <1>4, <1>5, <1>6
  DEF Next, User, AtTheForm, MutationStep, Submit, Resume, CallRefused, Discard

(***************************************************************************)
(* The server refuses a row of a submission for the budget only when an    *)
(* empty quantity was sent as 1, a column or a double rounds the wrong     *)
(* way, or the colleague has changed the items: no item is counted twice,  *)
(* none of another contract is, and a budget that was changed after the    *)
(* rows is looked at again.                                                *)
(***************************************************************************)
THEOREM RefusalsAreExplained == Spec => NoSurpriseRefusal
<1> DEFINE Explained ==
      \A r \in SheetRequests :
        (mutation.pending /\ answer[r] = "free" /\ answer'[r] = "refused") =>
          \/ Inexact
          \/ \E i \in DOMAIN mutation.rows :
               /\ mutation.rows[i].described
               /\ mutation.rows[i].quantity = Blank \/ RoundedUp(mutation.rows[i])
          \/ \E t \in items :
               /\ t.contract = mutation.contract
               /\ t.sort = 0 \/ t.amount # SentPrice(mutation.rows[t.sort]).stored
<1>1. SheetInv /\ BudgetInv /\ RefusalInv /\ [Next]_vars => Explained
  <2> SUFFICES ASSUME SheetInv, BudgetInv, RefusalInv, [Next]_vars, NEW r \in SheetRequests,
                      mutation.pending, answer[r] = "free", answer'[r] = "refused",
                      ~Inexact,
                      \A i \in DOMAIN mutation.rows : mutation.rows[i].described =>
                        mutation.rows[i].quantity # Blank /\ ~RoundedUp(mutation.rows[i]),
                      \A t \in items : t.contract = mutation.contract =>
                        t.sort # 0 /\ t.amount = SentPrice(mutation.rows[t.sort]).stored
               PROVE  FALSE
    OBVIOUS
  <2> DEFINE c == mutation.contract
             rows == mutation.rows
             w == RowTotals(rows)
             v == [j \in DOMAIN rows |-> SentPrice(rows[j]).stored]
             i == Min(RowsToSend)
             own == RowsOf(items, c)
             sortOf == [t \in own |-> t.sort]
             J == {sortOf[t] : t \in own}
  <2>1. SendItem(r)
    BY RefusedAtOnce
  <2>0. /\ BackendInv /\ IsFiniteSet(items) /\ items \in SUBSET Item /\ rows \in Seq(Rows)
        /\ answer \in [Requests -> AnswerState] /\ r \in Requests
        /\ c \in Contracts /\ grossBudget[c] \in Nat /\ mutation.next \in Nat
        /\ mutation.budget \in Nat
    <3>1. c \in exists
      BY <2>1 DEF SendItem, SheetInv, Targeted, Rejected
    <3> QED
      BY <3>1, SheetRequestsAreRequests
      DEF SheetInv, BudgetInv, RowsKnown, BackendInv, ItemsTypeOK, TypeOK, Mutation,
          DocumentsTypeOK, AnswersTypeOK
  <2>2. CheckLineItem(r, c, i, SentPrice(rows[i]))
    BY <2>1 DEF SendItem
  <2>3. /\ i \in DOMAIN rows /\ rows[i].described /\ i >= mutation.next /\ i \in Nat
    BY <2>0, <2>1, NextRow DEF SendItem, RowsToSend
  <2> HIDE DEF i
  <2>4. PICK reads \in {"both", "contract"} :
          /\ grossBudget[c] > 0
          /\ ~ (SumRead(c, reads) + SentPrice(rows[i]).sent <= grossBudget[c])
    <3>1. c \in exists
      BY <2>1 DEF SendItem, SheetInv, Targeted, Rejected
    <3> QED
      BY <2>0, <2>2, <3>1 DEF CheckLineItem, FitsBudget, Answered
  <2>5. /\ \A j \in DOMAIN rows : w[j] \in Nat /\ rows[j] \in Row
        /\ IsFiniteSet(DOMAIN rows)
        /\ Total(rows) = SumFunctionOnSet(w, DOMAIN rows) /\ Total(rows) \in Nat
    BY <2>0, TotalsAreNat
  <2>6. Total(rows) <= grossBudget[c]
    <3>1. grossBudget[c] = Kept(mutation.budget, BudgetUnit)
      BY <2>0 DEF RefusalInv, TotalWithinBudget
    <3>2. mutation.budget # 0
      BY <2>4, <3>1, NothingKept, UnitsPositive
    <3>3. /\ ~ (grossBudget[c] < mutation.budget) /\ DoubleOf(mutation.budget) = mutation.budget
          /\ DoubleTotal(rows) = Total(rows)
      BY DEF Inexact
    <3>4. ~ (Total(rows) > mutation.budget)
      <4>1. mutation.budget > 0
        BY <2>0, <3>2
      <4>2. DoubleOf(mutation.budget) > 0
        BY <3>3, <4>1
      <4>3. ~ (DoubleTotal(rows) > DoubleOf(mutation.budget))
        BY <4>2 DEF RefusalInv, TotalWithinBudget
      <4> QED
        BY <3>3, <4>3
    <3> HIDE DEF rows, c
    <3> QED
      BY <2>0, <2>5, <3>3, <3>4
  <2>7. ASSUME NEW j \in DOMAIN rows
        PROVE  /\ SentPrice(rows[j]).sent \in Int /\ v[j] \in Int
               /\ rows[j].described => SentPrice(rows[j]).sent = w[j] /\ v[j] <= w[j]
    <3>1. rows[j] \in Rows
      BY <2>0
    <3>2. SentPrice(rows[j]) \in [sent : Int, stored : Int]
      BY <3>1, RowsHavePrices, PricesAreInts DEF Rows
    <3>3. rows[j].described => SentPrice(rows[j]).sent = w[j]
      BY DEF RowTotals, SentPrice, OrElse
    <3>4. rows[j].described => ~ (v[j] > SentPrice(rows[j]).sent)
      BY DEF RoundedUp
    <3> QED
      BY <3>2, <3>3, <3>4
  <2>8. ASSUME NEW t \in own
        PROVE  /\ t.sort < mutation.next /\ t.sort \in DOMAIN rows /\ rows[t.sort].described
               /\ t.amount = v[t.sort] /\ PlaceOf(t.id, c, t.sort) \in Numbered
    <3>1. /\ t \in items /\ t.contract = c /\ t.sort # 0
          /\ t.amount = SentPrice(rows[t.sort]).stored
      BY <2>8 DEF RowsOf
    <3>2. PlaceOf(t.id, c, t.sort) \in Numbered
      BY <3>1 DEF Numbered, Placements, PlaceOf
    <3>3. t.sort < mutation.next /\ t.sort \in DOMAIN rows /\ rows[t.sort].described
      BY <3>2 DEF RefusalInv, RowsOnce, Passed, PlaceOf
    <3> QED
      BY <3>1, <3>2, <3>3
  <2>9. ASSUME NEW t \in own, NEW u \in own, t.sort = u.sort
        PROVE  t = u
    <3>1. PlaceOf(t.id, c, t.sort) = PlaceOf(u.id, c, u.sort)
      BY <2>8, <2>9 DEF RefusalInv, RowsOnce, PlaceOf
    <3>2. t.id = u.id /\ t \in items /\ u \in items
      BY <3>1 DEF PlaceOf, RowsOf
    <3> QED
      BY <3>2 DEF BudgetInv, IdsUnique
  <2>10. /\ StoredSum(c) = SumFunctionOnSet(RowAmounts, own)
         /\ IsFiniteSet(own) /\ \A t \in own : RowAmounts[t] = t.amount
    BY <2>0, StoredSumOfRows, FS_Subset DEF RowAmounts, RowsOf
  <2> HIDE DEF w, v, own, rows, c
  <2>11. SumFunctionOnSet(RowAmounts, own) = SumFunctionOnSet(v, J)
    <3>1. \A t \in own : RowAmounts[t] = v[sortOf[t]] /\ RowAmounts[t] \in Int
      BY <2>7, <2>8, <2>10
    <3>2. \A t, u \in own : sortOf[t] = sortOf[u] => t = u
      BY <2>9
    <3>3. IsFiniteSet(own)
      BY <2>10
    <3> HIDE DEF sortOf
    <3> QED
      BY <3>1, <3>2, <3>3, SumMoved, SMTT(30)
  <2>12. /\ J \in SUBSET DOMAIN rows /\ i \notin J /\ J \cup {i} \in SUBSET DOMAIN rows
         /\ \A j \in J : v[j] \in Int /\ w[j] \in Int /\ v[j] <= w[j]
    <3>1. \A j \in J : j \in DOMAIN rows /\ j < mutation.next /\ rows[j].described
      BY <2>8
    <3>2. \A j \in DOMAIN rows : j \in Nat
      BY <2>0
    <3>3. i \notin J
      <4>1. ASSUME i \in J PROVE FALSE
        <5>1. i < mutation.next
          BY <3>1, <4>1
        <5> QED
          BY <2>0, <2>3, <5>1
      <4> QED
        BY <4>1
    <3> HIDE DEF J
    <3> QED
      BY <2>3, <2>5, <2>7, <3>1, <3>3
  <2> HIDE DEF J
  <2>13. IsFiniteSet(J) /\ IsFiniteSet(J \cup {i})
    BY <2>5, <2>12, FS_Subset
  <2>14. /\ SumFunctionOnSet(v, J) <= SumFunctionOnSet(w, J)
         /\ SumFunctionOnSet(v, J) \in Int
    BY <2>12, <2>13, SumBelow, SumInt
  <2>15. SumFunctionOnSet(w, J \cup {i}) = SumFunctionOnSet(w, J) + w[i]
    <3>1. \A j \in J \cup {i} : w[j] \in Int
      BY <2>5, <2>12
    <3> QED
      BY <2>12, <2>13, <3>1, SumAdd
  <2>16. SumFunctionOnSet(w, J) \in Nat /\ w[i] \in Nat
    <3>1. \A j \in J : w[j] \in Nat
      BY <2>5, <2>12
    <3> QED
      BY <2>3, <2>5, <2>13, <3>1, SumNat
  <2>17. SumFunctionOnSet(w, J \cup {i}) <= Total(rows)
    BY <2>5, <2>12, SumMonotone
  <2>18. SumRead(c, reads) \in Int /\ SumRead(c, reads) <= SumFunctionOnSet(w, J)
    BY <2>10, <2>11, <2>14, <2>16 DEF SumRead
  <2>19. SentPrice(rows[i]).sent = w[i]
    BY <2>3, <2>7
  <2>20. SumRead(c, reads) + w[i] <= grossBudget[c]
    <3> HIDE DEF w, i
    <3> QED
      BY <2>0, <2>5, <2>6, <2>15, <2>16, <2>17, <2>18
  <2> QED
    BY <2>4, <2>19, <2>20
<1>2. SheetInv /\ BudgetInv /\ RefusalInv /\ [Next]_vars => [Explained]_vars
  BY <1>1
<1> QED
  BY <1>2, SheetInvHolds, BudgetInvHolds, RefusalInvHolds, PTL DEF Spec, NoSurpriseRefusal
=============================================================================
