---------------------------- MODULE Attachments ----------------------------
(***************************************************************************)
(* The receipts of one claim, kept in two stores that share no             *)
(* transaction: rows in PostgreSQL and objects in a bucket.  A client asks *)
(* for a signed upload, uploads to the bucket itself, and confirms; a      *)
(* removal deletes the row, commits, and then deletes the object.  In      *)
(* between, the submitter submits the claim and gets it back, withdrawn or *)
(* rejected and revised.                                                   *)
(*                                                                         *)
(*   attachment_service.go   PrepareUpload, Stat .. Confirm, Delete*       *)
(*   storage/s3.go           Upload, Stat, RemoveObject                    *)
(*   gen/expenses.sql.go     the statements on expense_attachments         *)
(*   expense_service.go      SubmitLock .. Discard                         *)
(*                                                                         *)
(* Everybody here is the submitter, the only one who may attach or remove. *)
(* An object is its content; a row is the digest it vouches for.           *)
(***************************************************************************)
EXTENDS Naturals, FiniteSets

CONSTANTS
    NULL,
    Key,                     \* bound: object keys that can ever be drawn
    Content,                 \* what a file may contain; stands for its checksum too
    Reporting,               \* the keys whose checksum the store reports to a HEAD
    Oversized,               \* files over MaxObjectBytes, 25 MiB in the code
    Request,                 \* requests in flight at once
    MaxAttachmentsPerClaim   \* 10 in the code

ASSUME AttachmentsAssumption ==
    /\ NULL \notin Content \cup Key \cup Request /\ Oversized \subseteq Content
    /\ Reporting \subseteq Key
    /\ MaxAttachmentsPerClaim \in Nat

VARIABLES
    claim,     \* expenses.status, "submitted" for all of pending_approval,
               \*   approved and paid; or "deleted"
    lockedBy,  \* the request holding the claim's row lock
    drawn,     \* the keys handed out
    ticket,    \* ticket[k]: the content an unexpired signed PUT for k is bound to
    object,    \* object[k]: the bucket
    row,       \* row[k]: the checksum of the committed expense_attachments row
    req,       \* what each request is doing
    raced,     \* history: keys confirmed while their removal was under way
    evidence,  \* history: the rows the claim was last submitted with
    leaving    \* history: the keys whose DELETE had run by then

vars == <<claim, lockedBy, drawn, ticket, object, row, req, raced, evidence, leaving>>
storeVars == <<drawn, ticket, object>>
history == <<raced, evidence, leaving>>

Claims == {"draft", "submitted", "rejected", "deleted"}

Pcs == {"idle", "stated", "confirming", "checked", "deleting", "removing", "submitting"}

Reqs == [pc : Pcs, key : Key \cup {NULL}, digest : Content \cup {NULL}]

Idle == [pc |-> "idle", key |-> NULL, digest |-> NULL]

Held(f) == {k \in Key : f[k] # NULL}

\* The keys whose row some request has deleted and not yet committed.
Deleting == {k \in Key : \E r \in Request : req[r].pc = "deleting" /\ req[r].key = k}

Init ==
    /\ claim = "draft" /\ lockedBy = NULL /\ drawn = {}
    /\ ticket = [k \in Key |-> NULL]
    /\ object = [k \in Key |-> NULL]
    /\ row = [k \in Key |-> NULL]
    /\ req = [r \in Request |-> Idle]
    /\ raced = {} /\ evidence = [k \in Key |-> NULL] /\ leaving = {}

Unlock(r) == lockedBy' = IF lockedBy = r THEN NULL ELSE lockedBy

End(r) == req' = [req EXCEPT ![r] = Idle]

-----------------------------------------------------------------------------
(* Upload.                                                                 *)

\* SELECT count(*) FROM expense_attachments WHERE expense_id = $2.
CountExpenseAttachments == Cardinality(Held(row))

\* Status.Editable.
Editable == claim = "draft"

\* The submitter may attach to a draft.
mayAttach == Editable

\* The size of a file, as far as the limit tells.
SizeOf(c) == IF c \in Oversized THEN "over" ELSE "within"

\* The declared size is within the limit; so are the type and the name.
validateUpload(size) == size = "within"

\* A key with a fresh uuid in it.
ObjectKey == Key \ drawn

\* A signed PUT for k that covers the declared checksum, not the size.
PresignPut(k, c) == [ticket EXCEPT ![k] = c]

\* PrepareUpload: the claim is a draft with room.  The transaction only reads,
\* and what it read may be stale by the time the ticket is used; the declared
\* size need not be the size of the file with that checksum.
PrepareUpload(k, c, size) ==
    /\ validateUpload(size)
    /\ mayAttach
    /\ CountExpenseAttachments < MaxAttachmentsPerClaim
    /\ k \in ObjectKey
    /\ drawn' = drawn \cup {k}
    /\ ticket' = PresignPut(k, c)
    /\ UNCHANGED <<claim, lockedBy, object, row, req, history>>

\* The client PUTs to the bucket, once or again, at any time before the
\* signature expires; content with another checksum is refused there.
Upload(k) ==
    /\ ticket[k] # NULL
    /\ object' = [object EXCEPT ![k] = ticket[k]]
    /\ UNCHANGED <<claim, lockedBy, drawn, ticket, row, req, history>>

TicketExpires(k) ==
    /\ ticket[k] # NULL
    /\ ticket' = [ticket EXCEPT ![k] = NULL]
    /\ UNCHANGED <<claim, lockedBy, drawn, object, row, req, history>>

\* HEAD on the object: what is there, and its checksum where the store has it.
StatObject(k) ==
    [found |-> object[k] # NULL, size |-> SizeOf(object[k]),
     checksum |-> IF k \in Reporting THEN object[k] ELSE NULL]

\* The requests between ConfirmUpload's HEAD and its INSERT of this key.
Confirming(k) == {r \in Request : req[r].pc \in {"stated", "confirming"} /\ req[r].key = k}

\* The requests between Delete's commit and its DELETE of this object.
Removing(k) == {r \in Request : req[r].pc = "removing" /\ req[r].key = k}

\* ConfirmUpload up to its transaction: the object is there, it has the size
\* the client now declares and, where the store reports one, the checksum.
Stat(r, k, c, size) ==
    /\ req[r].pc = "idle"
    /\ validateUpload(size)
    /\ k \in drawn /\ StatObject(k).found
    /\ StatObject(k).size = size
    /\ StatObject(k).checksum \in {NULL, c}
    /\ req' = [req EXCEPT ![r] = [pc |-> "stated", key |-> k, digest |-> c]]
    /\ raced' = IF Removing(k) = {} THEN raced ELSE raced \cup {k}
    /\ UNCHANGED <<claim, lockedBy, row, storeVars, evidence, leaving>>

\* Seeded fault: ConfirmUpload loads the claim without FOR UPDATE.
ConfirmLoad(r) ==
    /\ req[r].pc = "stated"
    /\ Editable
    /\ req' = [req EXCEPT ![r].pc = "confirming"]
    /\ UNCHANGED <<claim, lockedBy, row, storeVars, history>>

\* GetForUpdate and mayAttach.
ConfirmLock(r) ==
    /\ req[r].pc = "stated"
    /\ lockedBy = NULL /\ mayAttach
    /\ lockedBy' = r
    /\ req' = [req EXCEPT ![r].pc = "confirming"]
    /\ UNCHANGED <<claim, row, storeVars, history>>

\* INSERT INTO expense_attachments.
AddExpenseAttachment(k, c) == [row EXCEPT ![k] = c]

\* AddExpenseAttachment and COMMIT; object_key is unique.  The insert waits
\* for an uncommitted delete of the same key.
Confirm(r) ==
    /\ req[r].pc = "confirming"
    /\ row[req[r].key] = NULL
    /\ row' = AddExpenseAttachment(req[r].key, req[r].digest)
    /\ Unlock(r) /\ End(r)
    /\ UNCHANGED <<claim, storeVars, history>>

-----------------------------------------------------------------------------
(* Removal.                                                                *)

\* SELECT ... FROM expense_attachments JOIN expenses, without a lock.
GetExpenseAttachment(k) == [found |-> row[k] # NULL, editable |-> Editable]

\* Delete up to its DELETE.
DeleteCheck(r, k) ==
    /\ req[r].pc = "idle"
    /\ GetExpenseAttachment(k).found /\ GetExpenseAttachment(k).editable
    /\ req' = [req EXCEPT ![r] = [pc |-> "checked", key |-> k, digest |-> NULL]]
    /\ UNCHANGED <<claim, lockedBy, row, storeVars, history>>

\* The row DeleteExpenseAttachment deletes, if policy
\* expense_attachments_delete_drafts_only lets it: the claim is a draft in the
\* statement's snapshot, and no other delete holds the row.
DeleteExpenseAttachment(k) == row[k] # NULL /\ k \notin Deleting /\ Editable

\* The DELETE runs; nobody sees it yet.
DeleteRow(r) ==
    /\ req[r].pc = "checked"
    /\ DeleteExpenseAttachment(req[r].key)
    /\ req' = [req EXCEPT ![r].pc = "deleting"]
    /\ UNCHANGED <<claim, lockedBy, row, storeVars, history>>

\* Seeded fault: the object is deleted before the row's delete commits.
RemoveFirst(r) ==
    /\ req[r].pc = "deleting"
    /\ object' = [object EXCEPT ![req[r].key] = NULL]
    /\ row' \in {row, [row EXCEPT ![req[r].key] = NULL]}
    /\ req' = [req EXCEPT ![r].pc = "removing"]
    /\ UNCHANGED <<claim, lockedBy, drawn, ticket, history>>

\* COMMIT.  Another removal of the same row will find it gone.
DeleteCommit(r) ==
    LET k == req[r].key
    IN  /\ req[r].pc = "deleting"
        /\ row' = [row EXCEPT ![k] = NULL]
        /\ raced' = IF Confirming(k) = {} THEN raced ELSE raced \cup {k}
        /\ req' = [q \in Request |->
                    IF q = r THEN [req[r] EXCEPT !.pc = "removing"]
                    ELSE IF req[q].pc = "checked" /\ req[q].key = k THEN Idle
                    ELSE req[q]]
        /\ UNCHANGED <<claim, lockedBy, storeVars, evidence, leaving>>

\* S3Store.Delete, after the commit.
RemoveObject(r) ==
    /\ req[r].pc = "removing"
    /\ object' = [object EXCEPT ![req[r].key] = NULL]
    /\ End(r)
    /\ UNCHANGED <<claim, lockedBy, drawn, ticket, row, history>>

-----------------------------------------------------------------------------
(* The claim, and faults.                                                  *)

\* Transition with the action submit: load FOR UPDATE, apply, save.
SubmitLock(r) ==
    /\ req[r].pc = "idle"
    /\ lockedBy = NULL /\ Editable
    /\ lockedBy' = r
    /\ req' = [req EXCEPT ![r].pc = "submitting"]
    /\ UNCHANGED <<claim, row, storeVars, history>>

SubmitCommit(r) ==
    /\ req[r].pc = "submitting"
    /\ claim' = "submitted"
    /\ evidence' = row /\ leaving' = Deleting
    /\ Unlock(r) /\ End(r)
    /\ UNCHANGED <<row, storeVars, raced>>

\* The other actions of the state machine, each in a transaction that loads the
\* claim FOR UPDATE.
Move(from, to) ==
    /\ claim = from /\ lockedBy = NULL
    /\ claim' = to
    /\ UNCHANGED <<lockedBy, row, req, storeVars, history>>

Withdraw == Move("submitted", "draft")

Reject == Move("submitted", "rejected")

Revise == Move("rejected", "draft")

\* ExpenseService.Delete: the rows go with the draft, once no other delete
\* holds one; the objects stay.
Discard ==
    /\ Editable /\ lockedBy = NULL /\ Deleting = {}
    /\ claim' = "deleted"
    /\ row' = [k \in Key |-> NULL]
    /\ UNCHANGED <<lockedBy, req, storeVars, history>>

\* Seeded fault: a request that ends without rolling back.
FailHoldingOn(r) ==
    /\ req[r].pc # "idle"
    /\ End(r)
    /\ UNCHANGED <<claim, lockedBy, row, storeVars, history>>

\* A request is refused or dies: its transaction is rolled back and, when only
\* the object was left to delete, the object stays.
Fail(r) ==
    /\ req[r].pc # "idle"
    /\ Unlock(r) /\ End(r)
    /\ UNCHANGED <<claim, row, storeVars, history>>

Next ==
    \/ \E k \in Key :
          \/ \E c \in Content, size \in {"within", "over"} : PrepareUpload(k, c, size)
          \/ Upload(k)
          \/ TicketExpires(k)
    \/ \E r \in Request :
          \/ \E k \in Key, c \in Content, size \in {"within", "over"} : Stat(r, k, c, size)
          \/ \E k \in Key : DeleteCheck(r, k)
          \/ ConfirmLock(r) \/ Confirm(r)
          \/ DeleteRow(r) \/ DeleteCommit(r) \/ RemoveObject(r)
          \/ SubmitLock(r) \/ SubmitCommit(r)
          \/ Fail(r)
    \/ Withdraw \/ Reject \/ Revise
    \/ Discard

Spec == Init /\ [][Next]_vars

-----------------------------------------------------------------------------
\* Every variable has its type, and only a request at work on the claim holds
\* its lock.
AttachmentsTypeOK ==
    /\ claim \in Claims /\ lockedBy \in Request \cup {NULL}
    /\ lockedBy # NULL => req[lockedBy].pc \in {"confirming", "submitting"}
    /\ drawn \subseteq Key /\ raced \subseteq Key /\ leaving \subseteq Key
    /\ ticket \in [Key -> Content \cup {NULL}] /\ object \in [Key -> Content \cup {NULL}]
    /\ row \in [Key -> Content \cup {NULL}] /\ evidence \in [Key -> Content \cup {NULL}]
    /\ req \in [Request -> Reqs]

\* "a claim that has been submitted cannot gain new receipts" and "a receipt
\* on a submitted claim is evidence and cannot be removed"
\* (attachment_service.go:318 and 287): while a claim is submitted, and while it
\* rests in rejected, its receipts are the ones it was submitted with,
\* unchanged.  The one gap is a removal whose DELETE had already run when the
\* submission committed: Delete takes no lock on the claim.
EvidenceIsFixed ==
    claim \in {"submitted", "rejected"} =>
        \A k \in Key :
            /\ row[k] # NULL => row[k] = evidence[k]
            /\ evidence[k] # NULL /\ k \notin leaving => row[k] = evidence[k]

\* A receipt has its object: ConfirmUpload looks before it inserts, and Delete
\* takes the row before the object ("a row pointing at a missing object is a
\* worse failure", attachment_service.go:272).  The one gap is a key confirmed
\* again while its removal is under way, whose late DELETE takes the object.
\* What is there never exceeds the limit, though an oversized upload cannot be
\* stopped ("a client can waste bucket space once, and cannot get a row for
\* it", :79); and where the store reports checksums it is the content the row
\* vouches for, however often a signed upload is replayed.  Where the store
\* reports none, the row keeps what the client declared to ConfirmUpload.
ReceiptsHaveObjects ==
    \A k \in Key :
        row[k] # NULL =>
            /\ k \notin raced => object[k] # NULL
            /\ object[k] # NULL => object[k] \notin Oversized
            /\ object[k] # NULL /\ k \in Reporting => object[k] = row[k]

-----------------------------------------------------------------------------
(* The inductive invariant of AttachmentsProofs.                           *)

\* Whatever is or can still be uploaded under k is as ConfirmUpload saw it.
Vouched(k, digest) ==
    \A c \in {object[k], ticket[k]} \ {NULL} :
        c \notin Oversized /\ (k \in Reporting => c = digest)

\* What a request has established by where it is: one that has looked at an
\* object knows it, and knows it is still there unless a removal overlaps; one
\* with work on the claim's row in hand holds its lock; and one that deletes an
\* object has deleted the row.
RequestOK(r) ==
    /\ req[r].pc \notin {"idle", "submitting"} => req[r].key \in Key
    /\ req[r].pc \in {"confirming", "submitting"} => lockedBy = r
    /\ req[r].pc \in {"stated", "confirming"} =>
          /\ req[r].key \in drawn /\ req[r].digest \in Content
          /\ Vouched(req[r].key, req[r].digest)
          /\ req[r].key \notin raced => object[req[r].key] # NULL
    /\ req[r].pc = "removing" /\ req[r].key \notin raced =>
          row[req[r].key] = NULL /\ Confirming(req[r].key) = {}

\* A key is drawn once, so all that is ever uploaded under it is one content.
StoresOK ==
    \A k \in Key :
        /\ k \notin drawn => ticket[k] = NULL /\ object[k] = NULL /\ row[k] = NULL
        /\ ticket[k] # NULL /\ object[k] # NULL => ticket[k] = object[k]
        /\ row[k] # NULL => Vouched(k, row[k])

AttachmentsInv ==
    /\ AttachmentsTypeOK
    /\ EvidenceIsFixed
    /\ ReceiptsHaveObjects
    /\ StoresOK
    /\ lockedBy # NULL => claim = "draft"
    /\ claim \in {"submitted", "rejected"} => Deleting \subseteq leaving
    /\ \A r \in Request : RequestOK(r)
=============================================================================
