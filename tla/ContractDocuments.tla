------------------------- MODULE ContractDocuments -------------------------
(***************************************************************************)
(* The attachments of contracts: rows in the database and files on disk,   *)
(* Upload and Delete of internal/services/attachment_service.go.           *)
(*                                                                         *)
(* A row and its file are changed one after the other and by no            *)
(* transaction, so a handler stops at three places where others run or the *)
(* process may die: the replaced or deleted file is gone and its row is    *)
(* not ("unlink"), the free place has not been counted yet ("count"), the  *)
(* new file is on disk and its row is not ("insert").                      *)
(***************************************************************************)
EXTENDS ApiCalls

CONSTANTS
  Slots,          \* document types
  Keys,           \* storage keys
  MaxDocuments,   \* maxAttachmentsPerContract, 3 in the code
  MaxFaults       \* bound: crashes and failed statements

ASSUME MaxDocumentsPositive == MaxDocuments \in Nat \ {0}
ASSUME MaxFaultsIsNat == MaxFaults \in Nat

VARIABLES
  docs,      \* rows of attachments, by storage key, deleted ones included
  disk,      \* the storage keys with a file
  filing,    \* the handlers between two steps
  faults     \* how often the process died or a soft delete failed

docVars == <<docs, disk, filing, faults>>

Doc == [key : Keys, contract : Contracts, slot : Slots, deleted : BOOLEAN]

Filing ==
  [request : Requests, op : {"upload"}, contract : Contracts, slot : Slots,
   stage : {"unlink", "count", "insert"}, key : Keys]
    \cup
  [request : Requests, op : {"delete"}, stage : {"unlink"}, key : Keys]

DocumentsTypeOK ==
  /\ AnswersTypeOK
  /\ docs \in SUBSET Doc
  /\ disk \in SUBSET Keys
  /\ filing \in SUBSET Filing
  /\ faults \in 0..MaxFaults

DocumentsInit ==
  /\ docs = {}
  /\ disk = {}
  /\ filing = {}
  /\ faults = 0

-----------------------------------------------------------------------------
LiveDocs(c) == { d \in docs : d.contract = c /\ ~d.deleted }
InSlot(c, s) == { d \in LiveDocs(c) : d.slot = s }
Inserting(c) ==
  { f \in filing : f.op = "upload" /\ f.stage = "insert" /\ f.contract = c }

UnusedKeys ==
  Keys \ (disk \cup { d.key : d \in docs } \cup { f.key : f \in filing })

UploadAt(r, c, s, stage, k) ==
  [request |-> r, op |-> "upload", contract |-> c, slot |-> s,
   stage |-> stage, key |-> k]

\* Upload: a document of the same type is replaced, its file removed first.
BeginUpload(r, c, s) ==
  /\ answer[r] = "free"
  /\ UnusedKeys # {}
  /\ IF InSlot(c, s) = {}
       THEN /\ filing' = filing \cup {UploadAt(r, c, s, "count", Fresh(UnusedKeys))}
            /\ UNCHANGED disk
       ELSE \E d \in InSlot(c, s) :
              /\ filing' = filing \cup {UploadAt(r, c, s, "unlink", d.key)}
              /\ disk' = disk \ {d.key}
  /\ Answered(r, "busy")
  /\ UNCHANGED <<docs, faults>>

\* db.Delete(&existing), before anything of the new document was looked at.
DropReplaced(f) ==
  /\ f \in filing /\ f.op = "upload" /\ f.stage = "unlink"
  /\ UnusedKeys # {}
  /\ docs' = { IF d.key = f.key THEN [d EXCEPT !.deleted = TRUE] ELSE d : d \in docs }
  /\ filing' = (filing \ {f}) \cup
       {UploadAt(f.request, f.contract, f.slot, "count", Fresh(UnusedKeys))}
  /\ UNCHANGED <<answer, disk, faults>>

HasRoom(c) == Cardinality(LiveDocs(c)) < MaxDocuments

\* The count, the checks of size and type, and the new file on disk.
AcceptUpload(f) ==
  /\ f \in filing /\ f.op = "upload" /\ f.stage = "count"
  /\ HasRoom(f.contract)
  /\ disk' = disk \cup {f.key}
  /\ filing' = (filing \ {f}) \cup {[f EXCEPT !.stage = "insert"]}
  /\ UNCHANGED <<answer, docs, faults>>

\* Mutant of RefuseUpload: the error path forgets to answer.
RefuseUpload_NoAnswer(f) ==
  /\ f \in filing /\ f.op = "upload" /\ f.stage = "count"
  /\ filing' = filing \ {f}
  /\ UNCHANGED <<answer, docs, disk, faults>>

\* No room, a document too large or of a type not allowed, a failing write.
RefuseUpload(f) ==
  /\ f \in filing /\ f.op = "upload" /\ f.stage = "count"
  /\ filing' = filing \ {f}
  /\ Answered(f.request, "refused")
  /\ UNCHANGED <<docs, disk, faults>>

\* The row of the new document.
InsertDocument(f) ==
  /\ f \in filing /\ f.op = "upload" /\ f.stage = "insert"
  /\ docs' = docs \cup
       {[key |-> f.key, contract |-> f.contract, slot |-> f.slot, deleted |-> FALSE]}
  /\ filing' = filing \ {f}
  /\ Answered(f.request, "ok")
  /\ UNCHANGED <<disk, faults>>

\* Mutant of FailInsert: the file of the failed insert is left on disk.
FailInsert_KeepFile(f) ==
  /\ f \in filing /\ f.op = "upload" /\ f.stage = "insert"
  /\ filing' = filing \ {f}
  /\ Answered(f.request, "refused")
  /\ UNCHANGED <<docs, disk, faults>>

\* The INSERT fails: the file just written is removed again.
FailInsert(f) ==
  /\ f \in filing /\ f.op = "upload" /\ f.stage = "insert"
  /\ disk' = disk \ {f.key}
  /\ filing' = filing \ {f}
  /\ Answered(f.request, "refused")
  /\ UNCHANGED <<docs, faults>>

\* Delete: the file goes first.
BeginDelete(r, d) ==
  /\ answer[r] = "free"
  /\ d \in docs /\ ~d.deleted
  /\ disk' = disk \ {d.key}
  /\ filing' = filing \cup
       {[request |-> r, op |-> "delete", stage |-> "unlink", key |-> d.key]}
  /\ Answered(r, "busy")
  /\ UNCHANGED <<docs, faults>>

DropDeleted(f) ==
  /\ f \in filing /\ f.op = "delete"
  /\ docs' = { IF d.key = f.key THEN [d EXCEPT !.deleted = TRUE] ELSE d : d \in docs }
  /\ filing' = filing \ {f}
  /\ Answered(f.request, "ok")
  /\ UNCHANGED <<disk, faults>>

\* The soft delete fails.  Upload ignores that and goes on, Delete gives up.
FailDrop(f) ==
  /\ f \in filing /\ f.stage = "unlink"
  /\ faults < MaxFaults
  /\ faults' = faults + 1
  /\ \/ /\ f.op = "upload"
        /\ UnusedKeys # {}
        /\ filing' = (filing \ {f}) \cup
             {UploadAt(f.request, f.contract, f.slot, "count", Fresh(UnusedKeys))}
        /\ UNCHANGED answer
     \/ /\ f.op = "delete"
        /\ filing' = filing \ {f}
        /\ Answered(f.request, "refused")
  /\ UNCHANGED <<docs, disk>>

\* The process dies: no open call is finished, the clients see it break off.
CrashFiling ==
  /\ faults < MaxFaults
  /\ faults' = faults + 1
  /\ filing' = {}
  /\ answer' = [r \in Requests |->
                  IF answer[r] = "busy" THEN "refused" ELSE answer[r]]
  /\ UNCHANGED <<docs, disk>>

FilingStep(f) ==
  \/ DropReplaced(f) \/ AcceptUpload(f) \/ RefuseUpload(f)
  \/ InsertDocument(f) \/ FailInsert(f) \/ DropDeleted(f)

\* A call that has no document handler is served elsewhere.
ServedElsewhere(r) ==
  /\ \A f \in filing : f.request # r
  /\ \E a \in AnswerState : Answered(r, a)
  /\ UNCHANGED docVars

DocumentsNext ==
  \/ \E r \in Requests :
       \/ \E c \in Contracts, s \in Slots : BeginUpload(r, c, s)
       \/ \E d \in docs : BeginDelete(r, d)
       \/ ServedElsewhere(r)
  \/ \E f \in filing : FilingStep(f) \/ FailDrop(f)
  \/ CrashFiling

DocumentsSpec ==
  AnswersInit /\ DocumentsInit /\ [][DocumentsNext]_<<answer, docVars>>

-----------------------------------------------------------------------------
(***************************************************************************)
(* At most MaxDocuments documents when one upload runs at a time; every    *)
(* upload that overlaps the last one can add one more, and no sequence of  *)
(* calls adds more than that.                                              *)
(***************************************************************************)
DocumentsBounded ==
  \A c \in Contracts :
    Cardinality(LiveDocs(c)) + Cardinality(Inserting(c))
      <= MaxDocuments + Cardinality(Requests) - 1

\* Storage keys on which the database and the disk disagree.
Mismatched ==
  { k \in Keys : ~(k \in disk <=> \E d \in docs : d.key = k /\ ~d.deleted) }

\* The keys a running handler has changed on one side only.
HalfDone == { f.key : f \in { g \in filing : g.stage \in {"unlink", "insert"} } }

(***************************************************************************)
(* A row without its file, or a file without its row, is the work of a     *)
(* handler that is still running or of a fault: each crash or failed       *)
(* statement leaves at most one such key for each open call behind.        *)
(***************************************************************************)
TornBounded ==
  Cardinality(Mismatched \ HalfDone) <= faults * Cardinality(Requests)
=============================================================================
