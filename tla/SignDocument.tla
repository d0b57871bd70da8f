---------------------------- MODULE SignDocument ----------------------------
(***************************************************************************)
(* One document to be signed: its recipients, its fields and its           *)
(* signatures (internal/service/sign_document_service.go on the tables     *)
(* sign_documents, sign_document_recipients, sign_document_fields and      *)
(* sign_document_signatures).                                              *)
(*                                                                         *)
(* A call is a session that runs one SQL statement after another.  Checks  *)
(* run on the connection pool, one statement at a time, before the         *)
(* transaction that writes; SetFields has no transaction at all.  What a   *)
(* signing transaction has written shows up in the tables when it commits; *)
(* until then its program counter tells which rows it has locked.          *)
(***************************************************************************)
EXTENDS Integers, FiniteSets

CONSTANTS
  Employees,      \* employees who may be recipients
  FieldIds,       \* bound: the field rows that can ever be inserted
  Sessions,       \* calls that may be served at the same time
  PoolSize,       \* connections in the pool
  RecipientLists, \* bodies of CreateDocument: signing order by recipient
  FieldForms      \* bodies of SetFields: sets of fields

\* A field takes the signature of its recipient or, filled in, another value.
FieldSpec == [recipient : Employees, signature : BOOLEAN, required : BOOLEAN]

ASSUME SigningAssumption ==
  /\ IsFiniteSet(Sessions)
  /\ PoolSize \in Nat \ {0}
  /\ \A list \in RecipientLists :
       \E R \in SUBSET Employees : R # {} /\ list \in [R -> Int]
  /\ FieldForms \subseteq SUBSET FieldSpec
  /\ {} \notin FieldForms

VARIABLES
  doc,         \* status and signed file
  recipients,  \* signing order (0: not a recipient) and status
  fields,      \* rows of sign_document_fields
  signatures,  \* recipients with a row in sign_document_signatures
  call         \* the call each session serves

vars == <<doc, recipients, fields, signatures, call>>

tables == <<doc, recipients, fields, signatures>>

-----------------------------------------------------------------------------
(* Rows *)

DocStatus == {"none", "draft", "sent", "partially_signed", "completed", "cancelled"}
OpenStatus == {"sent", "partially_signed"}

\* The signature fields of the signed file: who is named in one, and whose name
\* is dated by a signature.  Anybody else's is dated to the year 1.
SignedFile == [names : SUBSET Employees, signatures : SUBSET Employees]
NoFile == [names |-> {}, signatures |-> {}]

NoRecipient == [order |-> 0, status |-> "none"]
RecipientRows == [order : Nat \ {0}, status : {"pending", "viewed", "signed"}]

NoField == [state |-> "unused"]
DeletedField == [state |-> "deleted"]
FieldRow(spec, filled) ==
  [state |-> "row", recipient |-> spec.recipient, signature |-> spec.signature,
   required |-> spec.required, filled |-> filled]
FieldRows == [state : {"row"}, recipient : Employees, signature : BOOLEAN,
              required : BOOLEAN, filled : BOOLEAN]

Recipients == {e \in Employees : recipients[e].order > 0}
Signed == {e \in Recipients : recipients[e].status = "signed"}
Listed == {f \in FieldIds : fields[f].state = "row"}
FieldsOf(e) == {f \in Listed : fields[f].recipient = e}

Idle == [pc |-> "idle", employee |-> {}, specs |-> {}, values |-> {},
         last |-> FALSE, file |-> NoFile]

\* Program counters of a signing transaction, in order.
TxSteps == {"signature", "values", "mark", "count", "partial", "place", "stamp", "complete",
            "commit"}
AfterSignature == TxSteps \ {"signature"}
AfterValues == AfterSignature \ {"values"}
AfterMark == AfterValues \ {"mark"}

Calls == [pc : TxSteps \cup {"delete", "insert", "listFields", "send",
                             "recipient", "prior", "fields", "profile"},
          employee : {{e} : e \in Employees} \cup {{}},
          specs : SUBSET FieldSpec, values : SUBSET FieldIds,
          last : BOOLEAN, file : SignedFile]

Init ==
  /\ doc = [status |-> "none", file |-> NoFile]
  /\ recipients = [e \in Employees |-> NoRecipient]
  /\ fields = [f \in FieldIds |-> NoField]
  /\ signatures = {}
  /\ call = [s \in Sessions |-> Idle]

-----------------------------------------------------------------------------
(* Connections and row locks *)

InTx(s) == call[s].pc \in TxSteps

FreeConnection == Cardinality({s \in Sessions : InTx(s)}) < PoolSize

Free(self, e, steps) ==
  \A s \in Sessions \ {self} : call[s].pc \in steps => e \notin call[s].employee

DocumentFree(self) == \A s \in Sessions \ {self} : call[s].pc # "commit"

FieldFree(self, f) ==
  \A s \in Sessions \ {self} : call[s].pc \in AfterValues => f \notin call[s].values

Start(s, next) ==
  /\ call[s] = Idle
  /\ FreeConnection
  /\ call' = [call EXCEPT ![s] = next]

Goto(s, next) == call' = [call EXCEPT ![s] = next]
Return(s) == call' = [call EXCEPT ![s] = Idle]

\* A statement that runs outside a transaction and may end the call.
Query(s, pc, passes, next) ==
  /\ call[s].pc = pc
  /\ FreeConnection
  /\ IF passes THEN Goto(s, next) ELSE Return(s)
  /\ UNCHANGED tables

\* A statement of the signing transaction: an error rolls everything back.
Statement(s, pc, passes, next) ==
  /\ call[s].pc = pc
  /\ IF passes THEN Goto(s, next) ELSE Return(s)
  /\ UNCHANGED tables

-----------------------------------------------------------------------------
(* The creator's calls *)

CreateDocument(list) ==
  /\ doc.status = "none"
  /\ FreeConnection
  /\ doc' = [doc EXCEPT !.status = "draft"]
  /\ recipients' = [e \in Employees |->
       IF e \in DOMAIN list
         THEN [order |-> IF list[e] =< 0 THEN 1 ELSE list[e], status |-> "pending"]
         ELSE recipients[e]]
  /\ UNCHANGED <<fields, signatures, call>>

\* SetFields checks the draft and the recipients, then replaces the fields
\* with one autocommitted statement after another.
SetFields(s, specs) ==
  /\ doc.status = "draft"
  /\ \A spec \in specs : spec.recipient \in Recipients
  /\ Start(s, [Idle EXCEPT !.pc = "delete", !.specs = specs])
  /\ UNCHANGED tables

DeleteFields(s) ==
  /\ call[s].pc = "delete"
  /\ FreeConnection
  /\ \A f \in Listed : FieldFree(s, f)
  /\ fields' = [f \in FieldIds |-> IF f \in Listed THEN DeletedField ELSE fields[f]]
  /\ Goto(s, [call[s] EXCEPT !.pc = "insert"])
  /\ UNCHANGED <<doc, recipients, signatures>>

InsertField(s) ==
  /\ call[s].pc = "insert"
  /\ FreeConnection
  /\ \E f \in FieldIds, spec \in call[s].specs :
       /\ fields[f] = NoField
       /\ fields' = [fields EXCEPT ![f] = FieldRow(spec, FALSE)]
       /\ IF call[s].specs = {spec}
            THEN Return(s)
            ELSE Goto(s, [call[s] EXCEPT !.specs = @ \ {spec}])
  /\ UNCHANGED <<doc, recipients, signatures>>

\* Bound: the call fails when the rows of FieldIds are used up.
OutOfFields(s) ==
  /\ call[s].pc = "insert"
  /\ \A f \in FieldIds : fields[f] # NoField
  /\ Return(s)
  /\ UNCHANGED tables

SendDocument(s) ==
  /\ doc.status = "draft"
  /\ Start(s, [Idle EXCEPT !.pc = "listFields"])
  /\ UNCHANGED tables

ListFields(s) ==
  Query(s, "listFields", Listed # {}, [call[s] EXCEPT !.pc = "send"])

MarkSent(s) ==
  /\ call[s].pc = "send"
  /\ FreeConnection
  /\ DocumentFree(s)
  /\ doc' = IF doc.status = "draft" THEN [doc EXCEPT !.status = "sent"] ELSE doc
  /\ Return(s)
  /\ UNCHANGED <<recipients, fields, signatures>>

CancelDocument ==
  /\ FreeConnection
  /\ \A s \in Sessions : call[s].pc # "commit"
  /\ doc.status \in {"draft"} \cup OpenStatus
  /\ doc' = [doc EXCEPT !.status = "cancelled"]
  /\ UNCHANGED <<recipients, fields, signatures, call>>

-----------------------------------------------------------------------------
(* The recipients' calls *)

\* Mutant: no check that the employee is a recipient.
MarkAnyViewed(e) ==
  /\ FreeConnection
  /\ recipients[e].status \in {"none", "pending"}
  /\ recipients' = [recipients EXCEPT ![e].status = "viewed"]
  /\ UNCHANGED <<doc, fields, signatures, call>>

\* The document need not have been sent.
MarkViewed(e) ==
  /\ FreeConnection
  /\ recipients[e].status = "pending"
  /\ \A s \in Sessions : call[s].pc \in AfterMark => e \notin call[s].employee
  /\ recipients' = [recipients EXCEPT ![e].status = "viewed"]
  /\ UNCHANGED <<doc, fields, signatures, call>>

Sign(s, e, values) ==
  /\ doc.status \in OpenStatus
  /\ Start(s, [Idle EXCEPT !.pc = "recipient", !.employee = {e}, !.values = values])
  /\ UNCHANGED tables

GetRecipient(s) ==
  Query(s, "recipient",
        call[s].employee \subseteq Recipients \ Signed,
        [call[s] EXCEPT !.pc = "prior"])

\* Mutant: a prior recipient who has only viewed the document counts as signed.
CountPendingPriorRecipients(s) ==
  Query(s, "prior",
        \A e \in call[s].employee, r \in Recipients :
          recipients[r].order < recipients[e].order => recipients[r].status # "pending",
        [call[s] EXCEPT !.pc = "fields"])

CountUnsignedPriorRecipients(s) ==
  Query(s, "prior",
        \A e \in call[s].employee, r \in Recipients :
          recipients[r].order < recipients[e].order => r \in Signed,
        [call[s] EXCEPT !.pc = "fields"])

ListFieldsForRecipient(s) ==
  Query(s, "fields",
        \A e \in call[s].employee : \A f \in FieldsOf(e) :
          fields[f].required => f \in call[s].values,
        [call[s] EXCEPT !.pc = "profile"])

\* An employee may have no signature profile.
GetSignatureProfile(s) ==
  \E found \in BOOLEAN :
    Query(s, "profile", found, [call[s] EXCEPT !.pc = "signature"])

\* UNIQUE (recipient_id): waits for the other transaction that inserted.
CreateSignature(s) ==
  /\ \A e \in call[s].employee : Free(s, e, AfterSignature)
  /\ Statement(s, "signature",
               call[s].employee \cap signatures = {},
               [call[s] EXCEPT !.pc = "values"])

UpdateFieldValues(s) ==
  /\ \A f \in call[s].values : FieldFree(s, f)
  /\ Statement(s, "values",
               \A e \in call[s].employee : call[s].values \subseteq FieldsOf(e),
               [call[s] EXCEPT !.pc = "mark"])

MarkRecipientSigned(s) ==
  /\ \A e \in call[s].employee : Free(s, e, AfterMark)
  /\ Statement(s, "mark",
               \A e \in call[s].employee : recipients[e].status \in {"pending", "viewed"},
               [call[s] EXCEPT !.pc = "count"])

\* Mutant: only recipients who have not even viewed the document remain.
CountPendingRecipients(s) ==
  LET last == \A r \in Recipients \ call[s].employee : recipients[r].status # "pending"
  IN Statement(s, "count", TRUE,
               [call[s] EXCEPT !.last = last,
                               !.pc = IF last THEN "place" ELSE "partial"])

\* The transaction sees its own signature and those that have committed.
CountUnsignedRecipients(s) ==
  LET last == Recipients \subseteq Signed \cup call[s].employee
  IN Statement(s, "count", TRUE,
               [call[s] EXCEPT !.last = last,
                               !.pc = IF last THEN "place" ELSE "partial"])

SignatureFields(e) == {f \in FieldsOf(e) : fields[f].signature}

\* createSignedPDF reads through the pool, not through the transaction: first
\* the fields, each of which names its recipient, signed or not.
PlaceFields(s) ==
  /\ FreeConnection
  /\ Statement(s, "place", TRUE,
               [call[s] EXCEPT
                  !.file.names = {r \in Recipients : SignatureFields(r) # {}},
                  !.pc = "stamp"])

\* Mutant: only the caller's signature is looked up.
StampCaller(s) ==
  /\ FreeConnection
  /\ Statement(s, "stamp", TRUE,
               [call[s] EXCEPT !.file.signatures = signatures \cap call[s].employee,
                               !.pc = "complete"])

\* Then the signatures.  A recipient with no signature field is not stamped.
CreateSignedPDF(s) ==
  /\ FreeConnection
  /\ Statement(s, "stamp", TRUE,
               [call[s] EXCEPT !.file.signatures = signatures \cap call[s].file.names,
                               !.pc = "complete"])

\* Mutant: the update has no status condition.
MarkAnyDocument(s) ==
  /\ DocumentFree(s)
  /\ \E pc \in {"partial", "complete"} :
       Statement(s, pc, TRUE, [call[s] EXCEPT !.pc = "commit"])

\* Mutant: the missing row is retried instead of reported.
MarkDocumentOrWait(s) ==
  /\ DocumentFree(s)
  /\ doc.status \in OpenStatus
  /\ \E pc \in {"partial", "complete"} :
       Statement(s, pc, TRUE, [call[s] EXCEPT !.pc = "commit"])

MarkDocument(s) ==
  /\ DocumentFree(s)
  /\ \E pc \in {"partial", "complete"} :
       Statement(s, pc, doc.status \in OpenStatus, [call[s] EXCEPT !.pc = "commit"])

CommitSign(s) ==
  /\ call[s].pc = "commit"
  /\ doc' = IF call[s].last
              THEN [status |-> "completed", file |-> call[s].file]
              ELSE [doc EXCEPT !.status = "partially_signed"]
  /\ recipients' = [e \in Employees |->
       IF e \in call[s].employee THEN [recipients[e] EXCEPT !.status = "signed"]
       ELSE recipients[e]]
  /\ fields' = [f \in FieldIds |->
       IF f \in call[s].values THEN [fields[f] EXCEPT !.filled = TRUE] ELSE fields[f]]
  /\ signatures' = signatures \cup call[s].employee
  /\ Return(s)

\* Any statement, the download or the upload fails, or the client hangs up.
Abort(s) ==
  /\ call[s] # Idle
  /\ Return(s)
  /\ UNCHANGED tables

-----------------------------------------------------------------------------
(* Specification *)

Advance(s) ==
  \/ DeleteFields(s)
  \/ InsertField(s)
  \/ OutOfFields(s)
  \/ ListFields(s)
  \/ MarkSent(s)
  \/ GetRecipient(s)
  \/ CountUnsignedPriorRecipients(s)
  \/ ListFieldsForRecipient(s)
  \/ GetSignatureProfile(s)
  \/ CreateSignature(s)
  \/ UpdateFieldValues(s)
  \/ MarkRecipientSigned(s)
  \/ CountUnsignedRecipients(s)
  \/ PlaceFields(s)
  \/ CreateSignedPDF(s)
  \/ MarkDocument(s)
  \/ CommitSign(s)

Next ==
  \/ \E list \in RecipientLists : CreateDocument(list)
  \/ \E s \in Sessions, specs \in FieldForms : SetFields(s, specs)
  \/ \E s \in Sessions : SendDocument(s)
  \/ CancelDocument
  \/ \E e \in Employees : MarkViewed(e)
  \/ \E s \in Sessions, e \in Employees, values \in SUBSET FieldIds : Sign(s, e, values)
  \/ \E s \in Sessions : Advance(s) \/ Abort(s)

Spec == Init /\ [][Next]_vars

\* A call that is being served runs on, and a row lock or a connection that is
\* released again and again is given to every waiter in turn.
FairSpec == Spec /\ \A s \in Sessions : SF_vars(Advance(s))

-----------------------------------------------------------------------------
(* Properties *)

\* Type invariant: rows and calls are well formed.
TypeOK ==
  /\ doc \in [status : DocStatus, file : SignedFile]
  /\ recipients \in [Employees -> RecipientRows \cup {NoRecipient}]
  /\ fields \in [FieldIds -> FieldRows \cup {NoField, DeletedField}]
  /\ signatures \subseteq Employees
  /\ call \in [Sessions -> Calls \cup {Idle}]

\* Nobody has signed before everybody with a lower signing order has, although
\* Sign checks the order outside its transaction.
SigningOrder ==
  \A e \in Signed, r \in Recipients :
    recipients[r].order < recipients[e].order => r \in Signed

\* A completed document was signed by every recipient, although the count was
\* taken before the document row was locked.
CompletedBySigners == doc.status = "completed" => Signed = Recipients

\* Of the recipients the signed file names in a signature field, at most one is
\* named there without a signature: the one whose signing completed the document
\* and had not committed when the file was made (createSignedPDF,
\* StampSignDocumentPDF).  Of recipients without such a field the file says
\* nothing, however many there are.
FileMissesAtMostOne ==
  doc.status = "completed" =>
    \E e \in Recipients : doc.file.names \ {e} \subseteq doc.file.signatures

\* Once everybody has signed and no call is being served, the document is no
\* longer "partially_signed" (migrations/000001_init.up.sql:991).
AllSignedCompletes ==
  (Recipients # {} /\ Signed = Recipients /\ \A s \in Sessions : call[s] = Idle)
    => doc.status # "partially_signed"

\* Every call returns, as long as the pool has a connection to spare for the
\* reads of createSignedPDF.
CallsReturn == \A s \in Sessions : call[s] # Idle ~> call[s] = Idle

\* The calls implement the signing ceremony.
Ceremony == INSTANCE SigningCeremony WITH
  status <- IF doc.status \in OpenStatus THEN "open" ELSE doc.status,
  order <- [e \in Employees |-> recipients[e].order],
  signed <- Signed

ImplementsCeremony == Ceremony!Spec
=============================================================================
