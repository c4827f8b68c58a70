------------------------- MODULE AttachmentsProofs -------------------------
(***************************************************************************)
(* Receipts: for any number of keys, contents and concurrent requests.     *)
(***************************************************************************)
EXTENDS Attachments, TLAPS

\* Nothing is there to begin with.
LEMMA AttachmentsInitial == Init => AttachmentsInv
BY AttachmentsAssumption
DEF Init, AttachmentsInv, AttachmentsTypeOK, EvidenceIsFixed, ReceiptsHaveObjects, StoresOK,
    Deleting, RequestOK, Vouched, Idle, Claims, Reqs, Pcs

\* A step of one request that leaves the stores alone and confirms no further
\* key takes nothing from what the others know.
LEMMA OthersKept ==
    ASSUME AttachmentsInv,
           NEW r \in Request,
           UNCHANGED <<row, raced, storeVars>>,
           \A s \in Request : s # r => req'[s] = req[s] /\ (lockedBy = s => lockedBy' = s),
           req'[r].pc \in {"stated", "confirming"} =>
              r \in Confirming(req'[r].key),
           RequestOK(r)'
    PROVE  \A s \in Request : RequestOK(s)'
<1>1. ASSUME NEW k PROVE Confirming(k)' \subseteq Confirming(k)
  BY DEF Confirming
<1>2. ASSUME NEW s \in Request, s # r PROVE RequestOK(s)'
  <2>1. RequestOK(s) /\ req'[s] = req[s] /\ (lockedBy = s => lockedBy' = s)
    BY <1>2 DEF AttachmentsInv
  <2>2. \A k, c : Vouched(k, c) => Vouched(k, c)'
    BY DEF Vouched, storeVars
  <2> QED
    BY <1>1, <2>1, <2>2 DEF RequestOK, storeVars
<1> QED
  BY <1>2

\* A key that was never drawn has no object and no ticket yet.
LEMMA PrepareUploadInv ==
    ASSUME AttachmentsInv,
           NEW k \in Key,
           NEW c \in Content,
           NEW size \in {"within", "over"},
           PrepareUpload(k, c, size)
    PROVE  AttachmentsInv'
<1> USE AttachmentsAssumption DEF AttachmentsInv, AttachmentsTypeOK, storeVars, history
<1>1. AttachmentsTypeOK'
  BY DEF PrepareUpload, PresignPut, ObjectKey, Claims, Reqs, Pcs, RequestOK
<1>2. EvidenceIsFixed'
  BY DEF PrepareUpload, PresignPut, ObjectKey, EvidenceIsFixed, RequestOK, Deleting
<1>3. ReceiptsHaveObjects' /\ StoresOK'
  BY DEF PrepareUpload, PresignPut, ObjectKey, ReceiptsHaveObjects, StoresOK, RequestOK, Vouched
<1>4. /\ (lockedBy # NULL => claim = "draft")'
      /\ (claim \in {"submitted", "rejected"} => Deleting \subseteq leaving)'
  BY DEF PrepareUpload, PresignPut, ObjectKey, Deleting, RequestOK
<1>5. \A s \in Request : RequestOK(s)'
  BY DEF PrepareUpload, PresignPut, ObjectKey, RequestOK, StoresOK, Vouched, Confirming
<1> QED
  BY <1>1, <1>2, <1>3, <1>4, <1>5

\* A signed PUT can only put back what its key already holds.
LEMMA UploadInv ==
    ASSUME AttachmentsInv,
           NEW k \in Key,
           Upload(k)
    PROVE  AttachmentsInv'
<1> USE AttachmentsAssumption DEF AttachmentsInv, AttachmentsTypeOK, storeVars, history
<1>1. AttachmentsTypeOK'
  BY DEF Upload, Claims, Reqs, Pcs, RequestOK
<1>2. EvidenceIsFixed'
  BY DEF Upload, EvidenceIsFixed, RequestOK, Deleting
<1>3. ReceiptsHaveObjects' /\ StoresOK'
  BY DEF Upload, ReceiptsHaveObjects, StoresOK, RequestOK, Vouched
<1>4. /\ (lockedBy # NULL => claim = "draft")'
      /\ (claim \in {"submitted", "rejected"} => Deleting \subseteq leaving)'
  BY DEF Upload, Deleting, RequestOK
<1>5. \A s \in Request : RequestOK(s)'
  BY DEF Upload, RequestOK, StoresOK, Vouched, Confirming
<1> QED
  BY <1>1, <1>2, <1>3, <1>4, <1>5

\* An expired signature allows nothing new.
LEMMA TicketExpiresInv ==
    ASSUME AttachmentsInv,
           NEW k \in Key,
           TicketExpires(k)
    PROVE  AttachmentsInv'
<1> USE AttachmentsAssumption DEF AttachmentsInv, AttachmentsTypeOK, storeVars, history
<1>1. AttachmentsTypeOK'
  BY DEF TicketExpires, Claims, Reqs, Pcs, RequestOK
<1>2. EvidenceIsFixed'
  BY DEF TicketExpires, EvidenceIsFixed, RequestOK, Deleting
<1>3. ReceiptsHaveObjects' /\ StoresOK'
  BY DEF TicketExpires, ReceiptsHaveObjects, StoresOK, RequestOK, Vouched
<1>4. /\ (lockedBy # NULL => claim = "draft")'
      /\ (claim \in {"submitted", "rejected"} => Deleting \subseteq leaving)'
  BY DEF TicketExpires, Deleting, RequestOK
<1>5. \A s \in Request : RequestOK(s)'
  BY DEF TicketExpires, RequestOK, StoresOK, Vouched, Confirming
<1> QED
  BY <1>1, <1>2, <1>3, <1>4, <1>5

\* ConfirmUpload's HEAD fixes what the request knows about its object.
LEMMA StatInv ==
    ASSUME AttachmentsInv,
           NEW r \in Request,
           NEW k \in Key,
           NEW c \in Content,
           NEW size \in {"within", "over"},
           Stat(r, k, c, size)
    PROVE  AttachmentsInv'
<1> USE AttachmentsAssumption DEF AttachmentsInv, AttachmentsTypeOK, storeVars, history
<1>1. AttachmentsTypeOK'
  BY DEF Stat, StatObject, Removing, SizeOf, validateUpload, Claims, Reqs, Pcs, RequestOK
<1>2. EvidenceIsFixed'
  BY DEF Stat, StatObject, Removing, SizeOf, validateUpload, EvidenceIsFixed, RequestOK, Deleting
<1>3. ReceiptsHaveObjects' /\ StoresOK'
  <2>1. raced \subseteq raced' /\ UNCHANGED <<row, drawn, ticket, object>>
    BY DEF Stat
  <2> QED
    BY <2>1 DEF ReceiptsHaveObjects, StoresOK, Vouched
<1>4. /\ (lockedBy # NULL => claim = "draft")'
      /\ (claim \in {"submitted", "rejected"} => Deleting \subseteq leaving)'
  BY DEF Stat, StatObject, Removing, SizeOf, validateUpload, Deleting, RequestOK
<1>5. \A s \in Request : RequestOK(s)'
  <2>1. /\ raced \subseteq raced' /\ UNCHANGED <<row, lockedBy, drawn, ticket, object>>
        /\ Removing(k) # {} => k \in raced'
        /\ \A s \in Request : s # r => req'[s] = req[s]
        /\ req'[r] = [pc |-> "stated", key |-> k, digest |-> c]
    BY DEF Stat
  <2>2. \A x, y : Vouched(x, y) => Vouched(x, y)'
    BY <2>1 DEF Vouched
  <2>3. RequestOK(r)'
    <3>1. object[k] # NULL /\ object[k] \notin Oversized /\ (k \in Reporting => object[k] = c)
      BY Zenon DEF Stat, StatObject, SizeOf, validateUpload
    <3>2. ticket[k] # NULL => ticket[k] = object[k]
      BY <3>1 DEF StoresOK
    <3>3. Vouched(k, c)
      BY <3>1, <3>2 DEF Vouched
    <3>4. k \in drawn
      BY DEF Stat
    <3> QED
      BY <2>1, <2>2, <3>1, <3>3, <3>4 DEF RequestOK
  <2>4. ASSUME NEW s \in Request, s # r PROVE RequestOK(s)'
    <3>1. RequestOK(s) /\ req'[s] = req[s]
      BY <2>1, <2>4
    <3>2. \A x : x # k => Confirming(x)' \subseteq Confirming(x)
      BY <2>1 DEF Confirming
    <3>3. req[s].pc = "removing" /\ req[s].key = k => k \in raced'
      BY <2>1 DEF Removing
    <3> QED
      BY <2>1, <2>2, <3>1, <3>2, <3>3 DEF RequestOK
  <2> QED
    BY <2>3, <2>4
<1> QED
  BY <1>1, <1>2, <1>3, <1>4, <1>5

\* Delete has looked, and changed nothing.
LEMMA DeleteCheckInv ==
    ASSUME AttachmentsInv,
           NEW r \in Request,
           NEW k \in Key,
           DeleteCheck(r, k)
    PROVE  AttachmentsInv'
<1> USE AttachmentsAssumption DEF AttachmentsInv, AttachmentsTypeOK, storeVars, history
<1>1. AttachmentsTypeOK'
  BY DEF DeleteCheck, Claims, Reqs, Pcs, RequestOK
<1>2. EvidenceIsFixed'
  BY DEF DeleteCheck, EvidenceIsFixed, RequestOK, Deleting
<1>3. ReceiptsHaveObjects' /\ StoresOK'
  BY DEF DeleteCheck, ReceiptsHaveObjects, StoresOK, RequestOK, Vouched
<1>4. /\ (lockedBy # NULL => claim = "draft")'
      /\ (claim \in {"submitted", "rejected"} => Deleting \subseteq leaving)'
  BY DEF DeleteCheck, Deleting, RequestOK
<1>5. \A s \in Request : RequestOK(s)'
  <2>1. /\ UNCHANGED <<row, raced, storeVars>>
        /\ \A s \in Request : s # r => req'[s] = req[s] /\ (lockedBy = s => lockedBy' = s)
    BY DEF DeleteCheck
  <2>2. req'[r].pc \in {"stated", "confirming"} => r \in Confirming(req'[r].key)
    BY DEF DeleteCheck, Confirming, Reqs
  <2>3. RequestOK(r)'
    BY DEF DeleteCheck, RequestOK, Vouched, Reqs
  <2> QED
    BY <2>1, <2>2, <2>3, OthersKept DEF AttachmentsInv
<1> QED
  BY <1>1, <1>2, <1>3, <1>4, <1>5

\* The claim's row is locked, so it is a draft until the request ends.
LEMMA ConfirmLockInv ==
    ASSUME AttachmentsInv,
           NEW r \in Request,
           ConfirmLock(r)
    PROVE  AttachmentsInv'
<1> USE AttachmentsAssumption DEF AttachmentsInv, AttachmentsTypeOK, storeVars, history
<1>1. AttachmentsTypeOK'
  BY DEF ConfirmLock, mayAttach, Editable, Claims, Reqs, Pcs, RequestOK
<1>2. EvidenceIsFixed'
  BY DEF ConfirmLock, mayAttach, Editable, EvidenceIsFixed, RequestOK, Deleting
<1>3. ReceiptsHaveObjects' /\ StoresOK'
  BY DEF ConfirmLock, mayAttach, Editable, ReceiptsHaveObjects, StoresOK, RequestOK, Vouched
<1>4. /\ (lockedBy # NULL => claim = "draft")'
      /\ (claim \in {"submitted", "rejected"} => Deleting \subseteq leaving)'
  BY DEF ConfirmLock, mayAttach, Editable, Deleting, RequestOK
<1>5. \A s \in Request : RequestOK(s)'
  <2>1. /\ UNCHANGED <<row, raced, storeVars>>
        /\ \A s \in Request : s # r => req'[s] = req[s] /\ (lockedBy = s => lockedBy' = s)
    BY DEF ConfirmLock, mayAttach, Editable
  <2>2. req'[r].pc \in {"stated", "confirming"} => r \in Confirming(req'[r].key)
    BY DEF ConfirmLock, mayAttach, Editable, Confirming, Reqs
  <2>3. RequestOK(r)'
    <3>1. RequestOK(r) /\ req[r].pc = "stated" /\ lockedBy' = r
          /\ req'[r].pc = "confirming" /\ req'[r].key = req[r].key /\ req'[r].digest = req[r].digest
      BY DEF ConfirmLock, Reqs
    <3>2. \A x, y : Vouched(x, y) => Vouched(x, y)'
      BY <2>1 DEF Vouched
    <3> QED
      BY <2>1, <3>1, <3>2 DEF RequestOK
  <2> QED
    BY <2>1, <2>2, <2>3, OthersKept DEF AttachmentsInv
<1> QED
  BY <1>1, <1>2, <1>3, <1>4, <1>5

\* The row is inserted under the lock, so not on a submitted claim, and
\* vouches for what Stat saw.
LEMMA ConfirmInv ==
    ASSUME AttachmentsInv,
           NEW r \in Request,
           Confirm(r)
    PROVE  AttachmentsInv'
<1> USE AttachmentsAssumption DEF AttachmentsInv, AttachmentsTypeOK, storeVars, history
<1>1. AttachmentsTypeOK'
  BY DEF Confirm, AddExpenseAttachment, Unlock, End, Idle, Claims, Reqs, Pcs, RequestOK
<1>2. EvidenceIsFixed'
  BY DEF Confirm, AddExpenseAttachment, Unlock, End, Idle, EvidenceIsFixed, RequestOK, Deleting
<1>3. ReceiptsHaveObjects' /\ StoresOK'
  <2>1. RequestOK(r) /\ req[r].pc = "confirming" /\ req[r].key \in Key
    BY DEF Confirm, RequestOK
  <2>2. /\ UNCHANGED <<drawn, ticket, object, raced>>
        /\ row' = [row EXCEPT ![req[r].key] = req[r].digest]
    BY DEF Confirm, AddExpenseAttachment
  <2>3. \A x, y : Vouched(x, y) => Vouched(x, y)'
    BY <2>2 DEF Vouched
  <2>4. ASSUME NEW x \in Key
        PROVE  /\ x # req[r].key => row'[x] = row[x]
               /\ row'[req[r].key] = req[r].digest
    BY <2>1, <2>2
  <2>5. Vouched(req[r].key, req[r].digest) /\ req[r].key \in drawn
        /\ (req[r].key \notin raced => object[req[r].key] # NULL)
    BY <2>1 DEF RequestOK
  <2>6. StoresOK'
    BY <2>1, <2>2, <2>3, <2>4, <2>5 DEF StoresOK
  <2>7. ReceiptsHaveObjects'
    BY <2>1, <2>2, <2>4, <2>5 DEF ReceiptsHaveObjects, Vouched
  <2> QED
    BY <2>6, <2>7
<1>4. /\ (lockedBy # NULL => claim = "draft")'
      /\ (claim \in {"submitted", "rejected"} => Deleting \subseteq leaving)'
  BY DEF Confirm, AddExpenseAttachment, Unlock, End, Idle, Deleting, RequestOK
<1>5. \A s \in Request : RequestOK(s)'
  <2>1. /\ RequestOK(r) /\ req[r].pc = "confirming" /\ req[r].key \in Key
        /\ r \in Confirming(req[r].key)
    BY DEF Confirm, RequestOK, Confirming
  <2>2. /\ UNCHANGED <<drawn, ticket, object, raced>>
        /\ \A x \in Key : x # req[r].key => row'[x] = row[x]
        /\ req' = [req EXCEPT ![r] = Idle]
        /\ \A s \in Request : s # r => (lockedBy = s => lockedBy' = s)
    BY <2>1 DEF Confirm, AddExpenseAttachment, Unlock, End
  <2>3. \A x, y : Vouched(x, y) => Vouched(x, y)'
    BY <2>2 DEF Vouched
  <2>4. req'[r] = Idle /\ \A s \in Request : s # r => req'[s] = req[s]
    BY <2>2
  <2>5. \A x : Confirming(x)' \subseteq Confirming(x)
    BY <2>4 DEF Confirming, Idle
  <2>6. RequestOK(r)'
    BY <2>4 DEF RequestOK, Idle
  <2>7. ASSUME NEW s \in Request, s # r PROVE RequestOK(s)'
    <3>1. RequestOK(s) /\ req'[s] = req[s]
      BY <2>4, <2>7
    <3>2. req[s].pc = "removing" /\ req[s].key \notin raced => req[s].key # req[r].key
      BY <2>1, <3>1 DEF RequestOK
    <3> QED
      BY <2>2, <2>3, <2>5, <2>7, <3>1, <3>2 DEF RequestOK
  <2> QED
    BY <2>6, <2>7
<1> QED
  BY <1>1, <1>2, <1>3, <1>4, <1>5

\* The DELETE runs on a draft.
LEMMA DeleteRowInv ==
    ASSUME AttachmentsInv,
           NEW r \in Request,
           DeleteRow(r)
    PROVE  AttachmentsInv'
<1> USE AttachmentsAssumption DEF AttachmentsInv, AttachmentsTypeOK, storeVars, history
<1>1. AttachmentsTypeOK'
  BY DEF DeleteRow, DeleteExpenseAttachment, Editable, Claims, Reqs, Pcs, RequestOK
<1>2. EvidenceIsFixed'
  BY DEF DeleteRow, DeleteExpenseAttachment, Editable, EvidenceIsFixed, RequestOK, Deleting
<1>3. ReceiptsHaveObjects' /\ StoresOK'
  BY DEF DeleteRow, DeleteExpenseAttachment, Editable, ReceiptsHaveObjects, StoresOK,
         RequestOK, Vouched
<1>4. /\ (lockedBy # NULL => claim = "draft")'
      /\ (claim \in {"submitted", "rejected"} => Deleting \subseteq leaving)'
  BY DEF DeleteRow, DeleteExpenseAttachment, Editable, Deleting, RequestOK
<1>5. \A s \in Request : RequestOK(s)'
  BY DEF DeleteRow, DeleteExpenseAttachment, Editable, RequestOK, StoresOK, Vouched, Confirming
<1> QED
  BY <1>1, <1>2, <1>3, <1>4, <1>5

\* On a submitted claim, only a DELETE that ran before the submission commits.
LEMMA DeleteCommitInv ==
    ASSUME AttachmentsInv,
           NEW r \in Request,
           DeleteCommit(r)
    PROVE  AttachmentsInv'
<1> USE AttachmentsAssumption DEF AttachmentsInv, AttachmentsTypeOK, storeVars, history
<1>1. AttachmentsTypeOK'
  BY DEF DeleteCommit, Idle, Claims, Reqs, Pcs, RequestOK
<1>2. EvidenceIsFixed'
  BY DEF DeleteCommit, Idle, EvidenceIsFixed, RequestOK, Deleting
<1>3. ReceiptsHaveObjects' /\ StoresOK'
  BY DEF DeleteCommit, Idle, ReceiptsHaveObjects, StoresOK, RequestOK, Vouched
<1>4. /\ (lockedBy # NULL => claim = "draft")'
      /\ (claim \in {"submitted", "rejected"} => Deleting \subseteq leaving)'
  BY DEF DeleteCommit, Idle, Deleting, RequestOK
<1>5. \A s \in Request : RequestOK(s)'
  <2>0. RequestOK(r) /\ req[r].pc = "deleting" /\ req[r].key \in Key
    BY DEF DeleteCommit, RequestOK
  <2>1. /\ UNCHANGED <<lockedBy, drawn, ticket, object>>
        /\ raced \subseteq raced'
        /\ req[r].key \notin raced' => Confirming(req[r].key) = {}
    BY DEF DeleteCommit
  <2>2. /\ row'[req[r].key] = NULL
        /\ \A x \in Key : x # req[r].key => row'[x] = row[x]
    BY <2>0 DEF DeleteCommit
  <2>3. /\ req'[r].pc = "removing" /\ req'[r].key = req[r].key
        /\ \A s \in Request : s # r => req'[s] \in {Idle, req[s]}
    BY DEF DeleteCommit, Reqs
  <2>4. \A x, y : Vouched(x, y) => Vouched(x, y)'
    BY <2>1 DEF Vouched
  <2>5. \A x : Confirming(x)' \subseteq Confirming(x)
    BY <2>3 DEF Confirming, Idle
  <2>6. RequestOK(r)'
    BY <2>0, <2>1, <2>2, <2>3, <2>5 DEF RequestOK
  <2>7. ASSUME NEW s \in Request, s # r PROVE RequestOK(s)'
    <3>1. CASE req'[s] = Idle
      BY <3>1 DEF RequestOK, Idle
    <3>2. CASE req'[s] = req[s]
      <4>1. RequestOK(s)
        OBVIOUS
      <4> QED
        BY <2>0, <2>1, <2>2, <2>4, <2>5, <3>2, <4>1 DEF RequestOK
    <3> QED
      BY <2>3, <2>7, <3>1, <3>2
  <2> QED
    BY <2>6, <2>7
<1> QED
  BY <1>1, <1>2, <1>3, <1>4, <1>5

\* The object goes after its row.
LEMMA RemoveObjectInv ==
    ASSUME AttachmentsInv,
           NEW r \in Request,
           RemoveObject(r)
    PROVE  AttachmentsInv'
<1> USE AttachmentsAssumption DEF AttachmentsInv, AttachmentsTypeOK, storeVars, history
<1>1. AttachmentsTypeOK'
  BY DEF RemoveObject, End, Idle, Claims, Reqs, Pcs, RequestOK
<1>2. EvidenceIsFixed'
  BY DEF RemoveObject, End, Idle, EvidenceIsFixed, RequestOK, Deleting
<1>3. ReceiptsHaveObjects' /\ StoresOK'
  <2>1. RequestOK(r) /\ req[r].pc = "removing" /\ req[r].key \in Key
    BY DEF RemoveObject, RequestOK
  <2>2. /\ UNCHANGED <<drawn, ticket, row, raced>>
        /\ object'[req[r].key] = NULL
        /\ \A x \in Key : x # req[r].key => object'[x] = object[x]
    BY <2>1 DEF RemoveObject
  <2>3. \A x \in Key : \A y : Vouched(x, y) => Vouched(x, y)'
    BY <2>2 DEF Vouched
  <2>4. req[r].key \notin raced => row[req[r].key] = NULL
    BY <2>1 DEF RequestOK
  <2>5. ReceiptsHaveObjects'
    BY <2>2, <2>4 DEF ReceiptsHaveObjects
  <2>6. StoresOK'
    BY <2>2, <2>3 DEF StoresOK
  <2> QED
    BY <2>5, <2>6
<1>4. /\ (lockedBy # NULL => claim = "draft")'
      /\ (claim \in {"submitted", "rejected"} => Deleting \subseteq leaving)'
  BY DEF RemoveObject, End, Idle, Deleting, RequestOK
<1>5. \A s \in Request : RequestOK(s)'
  <2>1. RequestOK(r) /\ req[r].pc = "removing" /\ req[r].key \in Key
    BY DEF RemoveObject, RequestOK
  <2>2. /\ UNCHANGED <<lockedBy, drawn, ticket, row, raced>>
        /\ object' = [object EXCEPT ![req[r].key] = NULL]
        /\ req' = [req EXCEPT ![r] = Idle]
    BY DEF RemoveObject, End
  <2>3. req'[r] = Idle /\ \A s \in Request : s # r => req'[s] = req[s]
    BY <2>2
  <2>4. /\ object'[req[r].key] = NULL
        /\ \A x \in Key : x # req[r].key => object'[x] = object[x]
    BY <2>1, <2>2
  <2>5. \A x \in Key : \A y : Vouched(x, y) => Vouched(x, y)'
    BY <2>2, <2>4 DEF Vouched
  <2>6. \A x : Confirming(x)' \subseteq Confirming(x)
    BY <2>3 DEF Confirming, Idle
  <2>7. RequestOK(r)'
    BY <2>3 DEF RequestOK, Idle
  <2>8. ASSUME NEW s \in Request, s # r PROVE RequestOK(s)'
    <3>1. RequestOK(s) /\ req'[s] = req[s]
      BY <2>3, <2>8
    <3>2. req[s].pc \in {"stated", "confirming"} /\ req[s].key \notin raced
             => req[s].key # req[r].key
      BY <2>1 DEF RequestOK, Confirming
    <3>3. req[s].pc \in {"stated", "confirming"} => req[s].key \in Key
      BY <3>1 DEF RequestOK
    <3> QED
      BY <2>2, <2>4, <2>5, <2>6, <3>1, <3>2, <3>3 DEF RequestOK
  <2> QED
    BY <2>7, <2>8
<1> QED
  BY <1>1, <1>2, <1>3, <1>4, <1>5

\* The submission locks a draft.
LEMMA SubmitLockInv ==
    ASSUME AttachmentsInv,
           NEW r \in Request,
           SubmitLock(r)
    PROVE  AttachmentsInv'
<1> USE AttachmentsAssumption DEF AttachmentsInv, AttachmentsTypeOK, storeVars, history
<1>1. AttachmentsTypeOK'
  BY DEF SubmitLock, Editable, Claims, Reqs, Pcs, RequestOK
<1>2. EvidenceIsFixed'
  BY DEF SubmitLock, Editable, EvidenceIsFixed, RequestOK, Deleting
<1>3. ReceiptsHaveObjects' /\ StoresOK'
  BY DEF SubmitLock, Editable, ReceiptsHaveObjects, StoresOK, RequestOK, Vouched
<1>4. /\ (lockedBy # NULL => claim = "draft")'
      /\ (claim \in {"submitted", "rejected"} => Deleting \subseteq leaving)'
  BY DEF SubmitLock, Editable, Deleting, RequestOK
<1>5. \A s \in Request : RequestOK(s)'
  <2>1. /\ UNCHANGED <<row, raced, storeVars>>
        /\ \A s \in Request : s # r => req'[s] = req[s] /\ (lockedBy = s => lockedBy' = s)
    BY DEF SubmitLock, Editable
  <2>2. req'[r].pc \in {"stated", "confirming"} => r \in Confirming(req'[r].key)
    BY DEF SubmitLock, Editable, Confirming, Reqs
  <2>3. RequestOK(r)'
    BY DEF SubmitLock, Editable, RequestOK, Vouched, Reqs
  <2> QED
    BY <2>1, <2>2, <2>3, OthersKept DEF AttachmentsInv
<1> QED
  BY <1>1, <1>2, <1>3, <1>4, <1>5

\* The submission takes the receipts as they are for its evidence.
LEMMA SubmitCommitInv ==
    ASSUME AttachmentsInv,
           NEW r \in Request,
           SubmitCommit(r)
    PROVE  AttachmentsInv'
<1> USE AttachmentsAssumption DEF AttachmentsInv, AttachmentsTypeOK, storeVars, history
<1>1. AttachmentsTypeOK'
  BY DEF SubmitCommit, Deleting, Unlock, End, Idle, Claims, Reqs, Pcs, RequestOK
<1>2. EvidenceIsFixed'
  BY DEF SubmitCommit, Unlock, End, Idle, EvidenceIsFixed, RequestOK, Deleting
<1>3. ReceiptsHaveObjects' /\ StoresOK'
  BY DEF SubmitCommit, Unlock, End, Idle, ReceiptsHaveObjects, StoresOK, RequestOK, Vouched
<1>4. /\ (lockedBy # NULL => claim = "draft")'
      /\ (claim \in {"submitted", "rejected"} => Deleting \subseteq leaving)'
  BY DEF SubmitCommit, Unlock, End, Idle, Deleting, RequestOK
<1>5. \A s \in Request : RequestOK(s)'
  <2>1. /\ UNCHANGED <<row, raced, storeVars>>
        /\ \A s \in Request : s # r => req'[s] = req[s] /\ (lockedBy = s => lockedBy' = s)
    BY DEF SubmitCommit, Unlock, End, Idle
  <2>2. req'[r].pc \in {"stated", "confirming"} => r \in Confirming(req'[r].key)
    BY DEF SubmitCommit, Unlock, End, Idle, Confirming, Reqs
  <2>3. RequestOK(r)'
    BY DEF SubmitCommit, Unlock, End, Idle, RequestOK, Vouched, Reqs
  <2> QED
    BY <2>1, <2>2, <2>3, OthersKept DEF AttachmentsInv
<1> QED
  BY <1>1, <1>2, <1>3, <1>4, <1>5

\* A rollback gives up the lock and leaves both stores alone.
LEMMA FailInv ==
    ASSUME AttachmentsInv,
           NEW r \in Request,
           Fail(r)
    PROVE  AttachmentsInv'
<1> USE AttachmentsAssumption DEF AttachmentsInv, AttachmentsTypeOK, storeVars, history
<1>1. AttachmentsTypeOK'
  BY DEF Fail, Unlock, End, Idle, Claims, Reqs, Pcs, RequestOK
<1>2. EvidenceIsFixed'
  BY DEF Fail, Unlock, End, Idle, EvidenceIsFixed, RequestOK, Deleting
<1>3. ReceiptsHaveObjects' /\ StoresOK'
  BY DEF Fail, Unlock, End, Idle, ReceiptsHaveObjects, StoresOK, RequestOK, Vouched
<1>4. /\ (lockedBy # NULL => claim = "draft")'
      /\ (claim \in {"submitted", "rejected"} => Deleting \subseteq leaving)'
  BY DEF Fail, Unlock, End, Idle, Deleting, RequestOK
<1>5. \A s \in Request : RequestOK(s)'
  <2>1. /\ UNCHANGED <<row, raced, storeVars>>
        /\ \A s \in Request : s # r => req'[s] = req[s] /\ (lockedBy = s => lockedBy' = s)
    BY DEF Fail, Unlock, End, Idle
  <2>2. req'[r].pc \in {"stated", "confirming"} => r \in Confirming(req'[r].key)
    BY DEF Fail, Unlock, End, Idle, Confirming, Reqs
  <2>3. RequestOK(r)'
    BY DEF Fail, Unlock, End, Idle, RequestOK, Vouched, Reqs
  <2> QED
    BY <2>1, <2>2, <2>3, OthersKept DEF AttachmentsInv
<1> QED
  BY <1>1, <1>2, <1>3, <1>4, <1>5

\* A claim that moves takes its receipts along; a draft's are not yet evidence.
LEMMA MoveInv ==
    ASSUME AttachmentsInv,
           Withdraw \/ Reject \/ Revise
    PROVE  AttachmentsInv'
<1> USE AttachmentsAssumption DEF AttachmentsInv, AttachmentsTypeOK, storeVars, history
<1>1. AttachmentsTypeOK'
  BY DEF Withdraw, Reject, Revise, Move, Claims, Reqs, Pcs, RequestOK
<1>2. EvidenceIsFixed'
  BY DEF Withdraw, Reject, Revise, Move, EvidenceIsFixed, RequestOK, Deleting
<1>3. ReceiptsHaveObjects' /\ StoresOK'
  BY DEF Withdraw, Reject, Revise, Move, ReceiptsHaveObjects, StoresOK, RequestOK, Vouched
<1>4. /\ (lockedBy # NULL => claim = "draft")'
      /\ (claim \in {"submitted", "rejected"} => Deleting \subseteq leaving)'
  BY DEF Withdraw, Reject, Revise, Move, Deleting, RequestOK
<1>5. \A s \in Request : RequestOK(s)'
  BY DEF Withdraw, Reject, Revise, Move, RequestOK, StoresOK, Vouched, Confirming
<1> QED
  BY <1>1, <1>2, <1>3, <1>4, <1>5

\* The rows go with their claim.
LEMMA DiscardInv ==
    ASSUME AttachmentsInv,
           Discard
    PROVE  AttachmentsInv'
<1> USE AttachmentsAssumption DEF AttachmentsInv, AttachmentsTypeOK, storeVars, history
<1>1. AttachmentsTypeOK'
  BY DEF Discard, Held, Editable, Claims, Reqs, Pcs, RequestOK
<1>2. EvidenceIsFixed'
  BY DEF Discard, Held, Editable, EvidenceIsFixed, RequestOK, Deleting
<1>3. ReceiptsHaveObjects' /\ StoresOK'
  BY DEF Discard, Held, Editable, ReceiptsHaveObjects, StoresOK, RequestOK, Vouched
<1>4. /\ (lockedBy # NULL => claim = "draft")'
      /\ (claim \in {"submitted", "rejected"} => Deleting \subseteq leaving)'
  BY DEF Discard, Held, Editable, Deleting, RequestOK
<1>5. \A s \in Request : RequestOK(s)'
  BY DEF Discard, Held, Editable, RequestOK, StoresOK, Vouched, Confirming
<1> QED
  BY <1>1, <1>2, <1>3, <1>4, <1>5

\* One step of a client, of a request or of the claim.
LEMMA AttachmentsStep == AttachmentsInv /\ [Next]_vars => AttachmentsInv'
<1>1. ASSUME AttachmentsInv, UNCHANGED vars PROVE AttachmentsInv'
  BY <1>1 DEF vars, AttachmentsInv, AttachmentsTypeOK, EvidenceIsFixed, ReceiptsHaveObjects,
              StoresOK, Deleting, RequestOK, Vouched, Confirming
<1> QED
  BY <1>1, PrepareUploadInv, UploadInv, TicketExpiresInv, StatInv, DeleteCheckInv,
     ConfirmLockInv, ConfirmInv, DeleteRowInv, DeleteCommitInv, RemoveObjectInv,
     SubmitLockInv, SubmitCommitInv, FailInv, MoveInv, DiscardInv, ZenonT(60) DEF Next

\* AttachmentsInv holds throughout.
THEOREM AttachmentsInvariance == Spec => []AttachmentsInv
BY AttachmentsInitial, AttachmentsStep, PTL DEF Spec

\* While a claim is submitted or rejected its receipts are the ones it was
\* submitted with, but for a removal that was already under way: ConfirmUpload
\* holds the claim's row lock, and the policy on DELETE wants a draft.
THEOREM EvidenceStands == Spec => [](AttachmentsTypeOK /\ EvidenceIsFixed)
<1>1. AttachmentsInv => AttachmentsTypeOK /\ EvidenceIsFixed
  BY DEF AttachmentsInv
<1> QED
  BY <1>1, AttachmentsInvariance, PTL

\* Two stores without a common transaction agree on every receipt whose
\* confirmation did not overlap a removal of its key, because ConfirmUpload and
\* Delete each touch them in the right order; and a key is signed for one
\* content, so what ConfirmUpload saw of it (its size, and its checksum where
\* the store reports one) stays true.
THEOREM StoresAgree == Spec => []ReceiptsHaveObjects
<1>1. AttachmentsInv => ReceiptsHaveObjects
  BY DEF AttachmentsInv
<1> QED
  BY <1>1, AttachmentsInvariance, PTL
=============================================================================
