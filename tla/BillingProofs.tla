---------------------------- MODULE BillingProofs ----------------------------
(***************************************************************************)
(* Theorems about Billing for every choice of its constants.               *)
(***************************************************************************)
EXTENDS Billing, FiniteSetTheorems, TLAPS

-----------------------------------------------------------------------------
(* Requests and their locals *)

\* Moving a request to a stage with locals of that stage keeps the types of
\* the request table.
LEMMA GotoType ==
  ASSUME RequestsTypeOK, NEW q \in Requests, NEW stage \in Stages, NEW locals,
         FitsStage(locals, stage), Goto(q, stage, locals)
  PROVE  RequestsTypeOK'
<1>1. /\ pc' = [pc EXCEPT ![q] = stage]
      /\ loc' = [loc EXCEPT ![q] = locals]
  BY DEF Goto
<1>2. pc' \in [Requests -> Stages] /\ DOMAIN loc' = Requests
  BY <1>1 DEF RequestsTypeOK
<1>3. ASSUME NEW p \in Requests PROVE FitsStage(loc'[p], pc'[p])
  <2>1. CASE p = q
    <3>1. pc'[p] = stage /\ loc'[p] = locals
      BY <2>1, <1>1 DEF RequestsTypeOK
    <3> QED BY <3>1
  <2>2. CASE p # q
    <3>1. pc'[p] = pc[p] /\ loc'[p] = loc[p]
      BY <2>2, <1>1 DEF RequestsTypeOK
    <3> QED BY <3>1 DEF RequestsTypeOK
  <2> QED BY <2>1, <2>2
<1> QED BY <1>2, <1>3 DEF RequestsTypeOK

\* The same for a request that starts on an invoice, or on a payment.
LEMMA BeginInvoiceType ==
  ASSUME RequestsTypeOK, NEW q \in Requests, NEW stage \in InvoiceStages,
         NEW i \in InvoiceIds, Begin(q, stage, [invoice |-> i])
  PROVE  RequestsTypeOK'
<1>1. stage \in Stages /\ FitsStage([invoice |-> i], stage)
  BY DEF Stages, FitsStage, InvoiceStages, PaymentStages, InvoiceLocals
<1> QED BY <1>1, GotoType DEF Begin, Goto

LEMMA BeginPaymentType ==
  ASSUME RequestsTypeOK, NEW q \in Requests, NEW stage \in PaymentStages,
         NEW p \in Requests, Begin(q, stage, [payment |-> p])
  PROVE  RequestsTypeOK'
<1>1. stage \in Stages /\ FitsStage([payment |-> p], stage)
  BY DEF Stages, FitsStage, InvoiceStages, PaymentStages, PaymentLocals
<1> QED BY <1>1, GotoType DEF Begin, Goto

\* The same when the handler ends.
LEMMA FinishType ==
  ASSUME RequestsTypeOK, NEW q \in Requests, Finish(q)
  PROVE  RequestsTypeOK'
<1>1. FitsStage(NoLocals, "done") /\ "done" \in Stages
  BY DEF FitsStage, Stages, InvoiceStages, PaymentStages
<1> QED BY <1>1, GotoType DEF Finish

\* A handler that is past its read holds the id it was given.
LEMMA LocalsFit ==
  ASSUME RequestsTypeOK, NEW q \in Requests
  PROVE  /\ pc[q] \in InvoiceStages => loc[q].invoice \in InvoiceIds
         /\ pc[q] \in PaymentStages => loc[q].payment \in Requests
BY DEF RequestsTypeOK, FitsStage, InvoiceLocals, PaymentLocals

-----------------------------------------------------------------------------
(* Types *)

LEMMA UnchangedTypes ==
  ASSUME TypeOK
  PROVE  /\ UNCHANGED <<pc, loc>> => RequestsTypeOK'
         /\ UNCHANGED paymentVars => PaymentsTypeOK'
         /\ UNCHANGED invoiceVars => InvoicesTypeOK'
         /\ UNCHANGED <<now, job, sweepVars>> => SweepTypeOK'
<1>1. UNCHANGED <<pc, loc>> => RequestsTypeOK'
  BY DEF TypeOK, RequestsTypeOK
<1>2. UNCHANGED paymentVars => PaymentsTypeOK'
  BY DEF TypeOK, PaymentsTypeOK, paymentVars
<1>3. UNCHANGED invoiceVars => InvoicesTypeOK'
  BY DEF TypeOK, InvoicesTypeOK, invoiceVars
<1>4. UNCHANGED <<now, job, sweepVars>> => SweepTypeOK'
  BY DEF TypeOK, SweepTypeOK, sweepVars
<1> QED BY <1>1, <1>2, <1>3, <1>4

\* A status written to a table is one of the table's statuses.
LEMMA WrittenTypes ==
  ASSUME TypeOK
  PROVE  /\ \A i \in InvoiceIds, status \in InvoiceStatuses :
              SetInvoice(i, status) /\ UNCHANGED notices => InvoicesTypeOK'
         /\ \A p \in Requests, status \in PaymentStatuses :
              /\ SetPayment(p, status)
              /\ \/ UNCHANGED receipts
                 \/ \E r \in ReceiptStatuses : SetReceipt(p, r)
              /\ UNCHANGED approved \/ approved' = approved \cup {p}
              => PaymentsTypeOK'
<1>1. ASSUME NEW i \in InvoiceIds, NEW status \in InvoiceStatuses,
             SetInvoice(i, status), UNCHANGED notices
      PROVE  InvoicesTypeOK'
  BY <1>1 DEF TypeOK, InvoicesTypeOK, SetInvoice, Invoice
<1>2. ASSUME NEW p \in Requests, NEW status \in PaymentStatuses,
             SetPayment(p, status),
             \/ UNCHANGED receipts
             \/ \E r \in ReceiptStatuses : SetReceipt(p, r),
             UNCHANGED approved \/ approved' = approved \cup {p}
      PROVE  PaymentsTypeOK'
  <2>1. payments' \in [Requests -> Payment]
    BY <1>2 DEF TypeOK, PaymentsTypeOK, SetPayment, Payment
  <2>2. receipts' \in [Requests -> ReceiptStatuses \cup {"NONE"}]
    BY <1>2 DEF TypeOK, PaymentsTypeOK, SetReceipt
  <2> QED BY <1>2, <2>1, <2>2 DEF TypeOK, PaymentsTypeOK
<1> QED BY <1>1, <1>2

\* One more notification.
LEMMA NotifyType ==
  ASSUME TypeOK, NEW i \in InvoiceIds, Notify(i)
  PROVE  notices' \in [InvoiceIds -> [Times -> Nat]]
<1>1. notices[i][now] + 1 \in Nat
  BY DEF TypeOK, InvoicesTypeOK, SweepTypeOK
<1>2. [notices[i] EXCEPT ![now] = notices[i][now] + 1] \in [Times -> Nat]
  BY <1>1 DEF TypeOK, InvoicesTypeOK
<1>3. notices' = [notices EXCEPT ![i] =
                    [notices[i] EXCEPT ![now] = notices[i][now] + 1]]
  BY DEF Notify
<1> QED BY <1>2, <1>3 DEF TypeOK, InvoicesTypeOK

\* The request's own reads, which start a handler.
LEMMA ReadTypes ==
  ASSUME TypeOK, NEW q \in Requests,
         \/ \E i \in InvoiceIds : CancelInvoiceRead(q, i) \/ CreatePaymentRead(q, i)
         \/ \E p \in Requests :
              \/ ApproveRead(q, p) \/ RejectRead(q, p) \/ UploadRead(q, p)
              \/ ApproveReceiptRead(q, p) \/ RejectReceiptRead(q, p)
  PROVE  TypeOK'
<1>1. ASSUME NEW i \in InvoiceIds,
             CancelInvoiceRead(q, i) \/ CreatePaymentRead(q, i)
      PROVE  TypeOK'
  <2>1. PICK stage \in InvoiceStages : Begin(q, stage, [invoice |-> i])
    BY <1>1 DEF CancelInvoiceRead, CreatePaymentRead, InvoiceStages
  <2>2. RequestsTypeOK'
    BY <2>1, BeginInvoiceType DEF TypeOK
  <2>3. UNCHANGED <<now, job, invoiceVars, paymentVars, sweepVars>>
    BY <1>1 DEF CancelInvoiceRead, CreatePaymentRead, Begin
  <2> QED BY <2>2, <2>3, UnchangedTypes DEF TypeOK
<1>2. ASSUME NEW p \in Requests,
             \/ ApproveRead(q, p) \/ RejectRead(q, p) \/ UploadRead(q, p)
             \/ ApproveReceiptRead(q, p) \/ RejectReceiptRead(q, p)
      PROVE  TypeOK'
  <2>1. PICK stage \in PaymentStages : Begin(q, stage, [payment |-> p])
    BY <1>2 DEF ApproveRead, RejectRead, UploadRead, ApproveReceiptRead,
                RejectReceiptRead, PaymentStages
  <2>2. RequestsTypeOK'
    BY <2>1, BeginPaymentType DEF TypeOK
  <2>3. UNCHANGED <<now, job, invoiceVars, paymentVars, sweepVars>>
    BY <1>2 DEF ApproveRead, RejectRead, UploadRead, ApproveReceiptRead,
                RejectReceiptRead, Begin
  <2> QED BY <2>2, <2>3, UnchangedTypes DEF TypeOK
<1> QED BY <1>1, <1>2

\* Their writes.
LEMMA WriteTypes ==
  ASSUME TypeOK, NEW q \in Requests,
         \/ CancelInvoiceCommit(q) \/ CreatePaymentCommit(q)
         \/ ApprovePayment(q) \/ ApproveInvoice(q) \/ RejectCommit(q)
         \/ UploadCommit(q) \/ ApproveReceiptCommit(q) \/ RejectReceiptCommit(q)
  PROVE  TypeOK'
<1> USE DEF PaymentStatuses, ReceiptStatuses, InvoiceStatuses
<1>1. RequestsTypeOK BY DEF TypeOK
<1>2. /\ pc[q] \in InvoiceStages => loc[q].invoice \in InvoiceIds
      /\ pc[q] \in PaymentStages => loc[q].payment \in Requests
  BY <1>1, LocalsFit
<1>3. \A i, status : SetInvoice(i, status) => InvoicesTypeOK' \/ notices' # notices
                                              \/ status \notin InvoiceStatuses
  <2> SUFFICES ASSUME NEW i, NEW status \in InvoiceStatuses,
                      SetInvoice(i, status), UNCHANGED notices
               PROVE  InvoicesTypeOK'
    OBVIOUS
  <2>1. CASE i \in InvoiceIds BY <2>1, WrittenTypes
  <2>2. CASE i \notin InvoiceIds
    BY <2>2 DEF TypeOK, InvoicesTypeOK, SetInvoice
  <2> QED BY <2>1, <2>2
<1>4. CASE CancelInvoiceCommit(q)
  <2>1. RequestsTypeOK' BY <1>1, <1>4, FinishType DEF CancelInvoiceCommit
  <2>2. InvoicesTypeOK' BY <1>3, <1>4 DEF CancelInvoiceCommit
  <2> QED BY <1>4, <2>1, <2>2, UnchangedTypes
          DEF CancelInvoiceCommit, TypeOK, Finish, Goto
<1>5. CASE CreatePaymentCommit(q)
  <2>1. RequestsTypeOK' BY <1>1, <1>5, FinishType DEF CreatePaymentCommit
  <2>2. loc[q].invoice \in InvoiceIds
    BY <1>2, <1>5 DEF CreatePaymentCommit, InvoiceStages
  <2>3. PaymentsTypeOK'
    BY <1>5, <2>2 DEF CreatePaymentCommit, TypeOK, PaymentsTypeOK, Payment
  <2> QED BY <1>5, <2>1, <2>3, UnchangedTypes
          DEF CreatePaymentCommit, TypeOK, Finish, Goto, invoiceVars
<1>6. CASE ApprovePayment(q)
  <2>1. loc[q].payment \in Requests
    BY <1>2, <1>6 DEF ApprovePayment, PaymentStages
  <2>2. FitsStage(loc[q], "approve_invoice") /\ "approve_invoice" \in Stages
    BY <1>1, <1>6 DEF ApprovePayment, RequestsTypeOK, FitsStage, Stages,
                      InvoiceStages, PaymentStages
  <2>3. RequestsTypeOK' BY <1>1, <1>6, <2>2, GotoType DEF ApprovePayment
  <2>4. PaymentsTypeOK' BY <1>6, <2>1, WrittenTypes DEF ApprovePayment
  <2> QED BY <1>6, <2>3, <2>4, UnchangedTypes
          DEF ApprovePayment, TypeOK, Goto
<1>7. CASE ApproveInvoice(q)
  <2>1. RequestsTypeOK' BY <1>1, <1>7, FinishType DEF ApproveInvoice
  <2>2. InvoicesTypeOK' BY <1>3, <1>7 DEF ApproveInvoice
  <2> QED BY <1>7, <2>1, <2>2, UnchangedTypes
          DEF ApproveInvoice, TypeOK, Finish, Goto
<1>8. CASE RejectCommit(q)
  <2>1. RequestsTypeOK' BY <1>1, <1>8, FinishType DEF RejectCommit
  <2>2. loc[q].payment \in Requests
    BY <1>2, <1>8 DEF RejectCommit, PaymentStages
  <2>3. PaymentsTypeOK' BY <1>8, <2>2, WrittenTypes DEF RejectCommit
  <2> QED BY <1>8, <2>1, <2>3, UnchangedTypes
          DEF RejectCommit, TypeOK, Finish, Goto
<1>9. CASE UploadCommit(q) \/ RejectReceiptCommit(q)
  <2>1. RequestsTypeOK'
    BY <1>1, <1>9, FinishType DEF UploadCommit, RejectReceiptCommit
  <2>2. loc[q].payment \in Requests
    BY <1>2, <1>9 DEF UploadCommit, RejectReceiptCommit, PaymentStages
  <2>3. PaymentsTypeOK'
    BY <1>9, <2>2, WrittenTypes DEF UploadCommit, RejectReceiptCommit
  <2> QED BY <1>9, <2>1, <2>3, UnchangedTypes
          DEF UploadCommit, RejectReceiptCommit, TypeOK, Finish, Goto
<1>10. CASE ApproveReceiptCommit(q)
  <2>1. RequestsTypeOK' BY <1>1, <1>10, FinishType DEF ApproveReceiptCommit
  <2>2. loc[q].payment \in Requests
    BY <1>2, <1>10 DEF ApproveReceiptCommit, PaymentStages
  <2>3. PaymentsTypeOK'
    BY <1>10, <2>2, WrittenTypes, UnchangedTypes DEF ApproveReceiptCommit
  <2>4. InvoicesTypeOK'
    BY <1>10, <1>3, UnchangedTypes DEF ApproveReceiptCommit, invoiceVars
  <2> QED BY <1>10, <2>1, <2>3, <2>4, UnchangedTypes
          DEF ApproveReceiptCommit, TypeOK, Finish, Goto
<1> QED BY <1>4, <1>5, <1>6, <1>7, <1>8, <1>9, <1>10

\* New invoices and the daily job.
LEMMA SweepTypes ==
  ASSUME TypeOK,
         \/ \E i \in InvoiceIds, dueDate \in DueDates : CreateInvoice(i, dueDate)
         \/ SweepStep
  PROVE  TypeOK'
<1>1. ASSUME NEW i \in InvoiceIds, NEW dueDate \in DueDates,
             CreateInvoice(i, dueDate)
      PROVE  TypeOK'
  <2>1. notices' \in [InvoiceIds -> [Times -> Nat]]
    BY <1>1, NotifyType DEF CreateInvoice
  <2>2. invoices' \in [InvoiceIds -> Invoice]
    BY <1>1, BillingAssumption
    DEF CreateInvoice, TypeOK, InvoicesTypeOK, Invoice, InvoiceStatuses
  <2> QED BY <1>1, <2>1, <2>2, UnchangedTypes
          DEF CreateInvoice, TypeOK, InvoicesTypeOK, Idle, runtimeVars
<1>2. ASSUME MarkOverdue, UNCHANGED notices PROVE InvoicesTypeOK'
  <2>1. ASSUME NEW i \in InvoiceIds
        PROVE  [invoices[i] EXCEPT !.status = "OVERDUE"] \in Invoice
    BY DEF TypeOK, InvoicesTypeOK, Invoice, InvoiceStatuses
  <2> QED BY <1>2, <2>1 DEF MarkOverdue, TypeOK, InvoicesTypeOK
<1>3. CASE MarkOverdueRequest
  BY <1>2, <1>3, UnchangedTypes DEF MarkOverdueRequest, TypeOK, Idle, runtimeVars
<1>4. CASE SweepMark
  <2>1. SweepTypeOK' BY <1>4 DEF SweepMark, TypeOK, SweepTypeOK, runtimeVars
  <2> QED BY <1>2, <1>4, <2>1, UnchangedTypes DEF SweepMark, TypeOK, runtimeVars
<1>5. CASE SweepList
  <2>1. StartOfToday \in Nat
    <3>1. now \in Nat /\ DayLength \in Nat \ {0}
      BY RuntimeAssumption, BillingAssumption DEF TypeOK, SweepTypeOK, Times
    <3>2. now \div DayLength \in Nat BY <3>1
    <3> QED BY <3>1, <3>2 DEF StartOfToday, DayOf
  <2>2. SweepTypeOK' BY <1>5, <2>1 DEF SweepList, TypeOK, SweepTypeOK
  <2> QED BY <1>5, <2>2, UnchangedTypes DEF SweepList, TypeOK
<1>6. ASSUME NEW i \in InvoiceIds, SweepRemind(i) PROVE TypeOK'
  <2>1. notices' \in [InvoiceIds -> [Times -> Nat]]
    BY <1>6, NotifyType DEF SweepRemind, TypeOK, InvoicesTypeOK
  <2>2. SweepTypeOK' BY <1>6 DEF SweepRemind, TypeOK, SweepTypeOK, sweepVars
  <2> QED BY <1>6, <2>1, <2>2, UnchangedTypes
          DEF SweepRemind, TypeOK, InvoicesTypeOK
<1>7. CASE SweepAbort
  <2>1. SweepTypeOK' BY <1>7 DEF SweepAbort, TypeOK, SweepTypeOK
  <2> QED BY <1>7, <2>1, UnchangedTypes DEF SweepAbort, TypeOK
<1> QED BY <1>1, <1>3, <1>4, <1>5, <1>6, <1>7 DEF SweepStep

\* Every step keeps every type.
LEMMA NextTypes == TypeOK /\ [Next]_vars => TypeOK'
<1> SUFFICES ASSUME TypeOK, [Next]_vars PROVE TypeOK'
  OBVIOUS
<1>1. CASE InvoicesStep \/ PaymentsStep \/ ReceiptsStep \/ SweepStep
  BY <1>1, ReadTypes, WriteTypes, SweepTypes
  DEF InvoicesStep, PaymentsStep, ReceiptsStep
<1>2. CASE Tick /\ UNCHANGED <<invoiceVars, paymentVars, sweepVars>>
  <2>1. now' \in Times
    BY <1>2, RuntimeAssumption DEF Tick, TypeOK, SweepTypeOK, Times
  <2>2. SweepTypeOK' BY <1>2, <2>1 DEF Tick, TypeOK, SweepTypeOK, sweepVars
  <2> QED BY <1>2, <2>2, UnchangedTypes DEF Tick, TypeOK
<1>3. ASSUME NEW q \in Requests, Abort(q),
             UNCHANGED <<invoiceVars, paymentVars, sweepVars>>
      PROVE  TypeOK'
  <2>1. RequestsTypeOK' BY <1>3, FinishType DEF Abort, TypeOK
  <2> QED BY <1>3, <2>1, UnchangedTypes DEF Abort, Finish, Goto, TypeOK
<1>4. CASE UNCHANGED vars
  BY <1>4, UnchangedTypes DEF vars, runtimeVars, TypeOK
<1> QED BY <1>1, <1>2, <1>3, <1>4 DEF Next

\* The empty tables have their types.
LEMMA InitTypes == Init => TypeOK
<1> SUFFICES ASSUME Init PROVE TypeOK
  OBVIOUS
<1>1. RequestsTypeOK
  BY DEF Init, RuntimeInit, RequestsTypeOK, Stages, FitsStage, InvoiceStages,
         PaymentStages
<1>2. PaymentsTypeOK
  BY DEF Init, PaymentsTypeOK, Payment, NoPayment
<1>3. InvoicesTypeOK
  BY DEF Init, InvoicesTypeOK, Invoice, NoInvoice
<1>4. SweepTypeOK
  <2>1. marked \in BOOLEAN
    BY Zenon DEF Init
  <2>2. now \in Times
    BY RuntimeAssumption DEF Init, RuntimeInit, Times
  <2> QED BY <2>1, <2>2 DEF Init, RuntimeInit, SweepTypeOK
<1> QED BY <1>1, <1>2, <1>3, <1>4 DEF TypeOK

\* Every table keeps its types, and a handler between two database calls
\* holds the invoice or payment it was called for.
THEOREM TypeCorrect == Spec => []TypeOK
BY InitTypes, NextTypes, PTL DEF Spec

-----------------------------------------------------------------------------
(* Receipts and payments *)

\* What a step may do to the payments and the receipts: insert a payment, move
\* one away from the review, or move it there with its receipt.
PaymentStep ==
  \/ UNCHANGED <<payments, receipts>>
  \/ \E p \in Requests, row \in Payment :
       /\ row.status = "UNDER_REVIEW" => receipts'[p] = "PENDING_REVIEW"
       /\ payments' = [payments EXCEPT ![p] = row]
       /\ UNCHANGED receipts \/ \E r \in ReceiptStatuses : SetReceipt(p, r)

\* Every step of the system does one of these.
LEMMA NextPayments == TypeOK /\ [Next]_vars => PaymentStep
<1> SUFFICES ASSUME TypeOK, [Next]_vars PROVE PaymentStep
  OBVIOUS
<1> USE DEF PaymentStatuses, ReceiptStatuses
<1>1. PaymentsTypeOK BY DEF TypeOK
<1>2. \A q \in Requests :
        /\ pc[q] \in InvoiceStages => loc[q].invoice \in InvoiceIds
        /\ pc[q] \in PaymentStages => loc[q].payment \in Requests
  BY LocalsFit DEF TypeOK
<1>3. ASSUME NEW p \in Requests, NEW status \in PaymentStatuses,
             SetPayment(p, status),
             \/ UNCHANGED receipts /\ status # "UNDER_REVIEW"
             \/ \E r \in ReceiptStatuses :
                  /\ SetReceipt(p, r)
                  /\ status = "UNDER_REVIEW" => r = "PENDING_REVIEW"
      PROVE  PaymentStep
  <2> DEFINE row == [status |-> status, invoice |-> payments[p].invoice]
  <2>1. row \in Payment BY <1>1 DEF PaymentsTypeOK, Payment
  <2>2. payments' = [payments EXCEPT ![p] = row]
    <3>1. payments' = [payments EXCEPT ![p] = [payments[p] EXCEPT !.status = status]]
      BY <1>3 DEF SetPayment
    <3>2. [payments[p] EXCEPT !.status = status] = row
      BY <1>1 DEF PaymentsTypeOK, Payment
    <3> QED BY <3>1, <3>2
  <2>3. row.status = "UNDER_REVIEW" => receipts'[p] = "PENDING_REVIEW"
    BY <1>1, <1>3 DEF SetReceipt, PaymentsTypeOK
  <2> HIDE DEF row
  <2> QED BY <1>3, <2>1, <2>2, <2>3 DEF PaymentStep
<1>4. ASSUME NEW q \in Requests,
             \/ ApprovePayment(q) \/ RejectCommit(q) \/ UploadCommit(q)
             \/ RejectReceiptCommit(q) \/ ApproveReceiptCommit(q)
      PROVE  PaymentStep
  <2>1. loc[q].payment \in Requests
    BY <1>2, <1>4 DEF ApprovePayment, RejectCommit, UploadCommit,
                      RejectReceiptCommit, ApproveReceiptCommit, PaymentStages
  <2> QED BY <1>3, <1>4, <2>1
          DEF ApprovePayment, RejectCommit, UploadCommit, RejectReceiptCommit,
              ApproveReceiptCommit, PaymentStep, paymentVars
<1>5. ASSUME NEW q \in Requests, CreatePaymentCommit(q)
      PROVE  PaymentStep
  <2>1. [status |-> "PENDING", invoice |-> loc[q].invoice] \in Payment
    BY <1>2, <1>5 DEF CreatePaymentCommit, Payment, InvoiceStages
  <2> QED BY <1>5, <2>1 DEF CreatePaymentCommit, PaymentStep
<1>6. CASE UNCHANGED paymentVars
  BY <1>6 DEF PaymentStep, paymentVars
<1>7. CASE InvoicesStep
  BY <1>6, <1>7 DEF InvoicesStep, CreateInvoice, CancelInvoiceRead, CreatePaymentRead
<1>8. CASE PaymentsStep
  BY <1>4, <1>5, <1>6, <1>8
  DEF PaymentsStep, CancelInvoiceCommit, ApproveRead, RejectRead, ApproveInvoice
<1>9. CASE ReceiptsStep
  BY <1>4, <1>6, <1>9
  DEF ReceiptsStep, UploadRead, ApproveReceiptRead, RejectReceiptRead
<1>10. CASE SweepStep
  BY <1>6, <1>10
  DEF SweepStep, MarkOverdueRequest, SweepMark, SweepList, SweepRemind, SweepAbort
<1>11. CASE UNCHANGED vars
  BY <1>6, <1>11 DEF vars
<1> QED BY <1>6, <1>7, <1>8, <1>9, <1>10, <1>11 DEF Next

\* A payment under review has a receipt to review, whatever uploads, reviews
\* and direct decisions are in flight.
THEOREM ReviewedWithReceipt == Spec => []UnderReviewHasReceipt
<1>1. Init => UnderReviewHasReceipt
  BY DEF Init, UnderReviewHasReceipt, NoPayment
<1>2. TypeOK /\ UnderReviewHasReceipt /\ PaymentStep => UnderReviewHasReceipt'
  <2> SUFFICES ASSUME TypeOK, UnderReviewHasReceipt, PaymentStep,
                      NEW p \in Requests, payments'[p].status = "UNDER_REVIEW"
               PROVE  receipts'[p] = "PENDING_REVIEW"
    BY DEF UnderReviewHasReceipt
  <2> QED BY DEF UnderReviewHasReceipt, PaymentStep, SetReceipt, TypeOK, PaymentsTypeOK
<1>3. TypeOK /\ UnderReviewHasReceipt /\ [Next]_vars => UnderReviewHasReceipt'
  BY <1>2, NextPayments
<1> QED BY <1>1, <1>3, TypeCorrect, PTL DEF Spec

-----------------------------------------------------------------------------
(* Approvals and invoices *)

Made(p) == payments[p].status # "NONE"

\* Why an approval pays the right invoice although the two updates are apart:
\* whoever holds the id of a payment holds that of a payment that was made,
\* nobody holds one still to be made, and only an approved payment pays.
ApprovalTrail ==
  /\ \A q \in Requests : pc[q] \in {"new", "insert_payment"} => ~Made(q)
  /\ \A q \in Requests : pc[q] \in PaymentStages => Made(loc[q].payment)
  /\ \A q \in Requests : pc[q] = "approve_invoice" => loc[q].payment \in approved
  /\ \A p \in Requests : receipts[p] # "NONE" => Made(p)
  /\ \A p \in approved : Made(p)

\* A step that leaves payments and receipts alone, and moves at most one
\* request: on to an invoice, to a payment that was made, or to its end.
LEMMA TrailKeptByReads ==
  ASSUME TypeOK, ApprovalTrail, UNCHANGED paymentVars, NEW q \in Requests,
         NEW stage, NEW locals, Goto(q, stage, locals),
         \/ stage = "done"
         \/ stage = "cancel_invoice"
         \/ stage = "insert_payment" /\ pc[q] = "new"
         \/ /\ stage \in PaymentStages \ {"approve_invoice"}
            /\ Made(locals.payment)
  PROVE  ApprovalTrail'
<1>1. \A p \in Requests :
        /\ pc'[p] = IF p = q THEN stage ELSE pc[p]
        /\ loc'[p] = IF p = q THEN locals ELSE loc[p]
  BY DEF Goto, TypeOK, RequestsTypeOK
<1>2. UNCHANGED <<payments, receipts, approved>>
  BY DEF paymentVars
<1> QED BY <1>1, <1>2 DEF ApprovalTrail, Made, PaymentStages

\* A step that decides payment p, which was made, and ends its request, or
\* moves it to the second update of a direct approval.
LEMMA TrailKeptByDecisions ==
  ASSUME TypeOK, ApprovalTrail, NEW q \in Requests, NEW p \in Requests,
         NEW stage, Made(p), p = loc[q].payment,
         \E status \in PaymentStatuses : SetPayment(p, status),
         UNCHANGED receipts \/ \E r \in ReceiptStatuses : SetReceipt(p, r),
         UNCHANGED approved \/ approved' = approved \cup {p},
         \/ Finish(q)
         \/ Goto(q, "approve_invoice", loc[q]) /\ p \in approved'
  PROVE  ApprovalTrail'
<1>1. PICK status \in PaymentStatuses : SetPayment(p, status)
  OBVIOUS
<1>2. \A r \in Requests :
        payments'[r].status = IF r = p THEN status ELSE payments[r].status
  BY <1>1 DEF SetPayment, TypeOK, PaymentsTypeOK, Payment
<1>3. \A r \in Requests : (Made(r))' <=> Made(r)
  BY <1>2 DEF Made, PaymentStatuses
<1>4. \A r \in Requests \ {p} : receipts'[r] = receipts[r]
  BY DEF SetReceipt, TypeOK, PaymentsTypeOK
<1>5. \A r \in Requests :
        /\ r # q => pc'[r] = pc[r] /\ loc'[r] = loc[r]
        /\ r = q => \/ pc'[r] = "done"
                    \/ pc'[r] = "approve_invoice" /\ loc'[r] = loc[r] /\ p \in approved'
  BY DEF Finish, Goto, TypeOK, RequestsTypeOK
<1>6. \A r \in Requests : pc[r] \in PaymentStages => loc[r].payment \in Requests
  BY LocalsFit DEF TypeOK
<1>7. approved \subseteq Requests /\ approved \subseteq approved' /\ approved' \subseteq approved \cup {p}
  BY DEF TypeOK, PaymentsTypeOK
<1>8. \A r \in Requests : pc'[r] \in {"new", "insert_payment"} => ~(Made(r))'
  BY <1>3, <1>5 DEF ApprovalTrail
<1>9. \A r \in Requests : pc'[r] \in PaymentStages => (Made(loc[r].payment))' /\ loc'[r] = loc[r]
  BY <1>3, <1>5, <1>6 DEF ApprovalTrail, PaymentStages, Made
<1>10. \A r \in Requests : pc'[r] = "approve_invoice" => loc'[r].payment \in approved'
  BY <1>5, <1>7 DEF ApprovalTrail
<1>11. \A r \in Requests : receipts'[r] # "NONE" => (Made(r))'
  BY <1>3, <1>4 DEF ApprovalTrail
<1>12. \A r \in approved' : (Made(r))'
  BY <1>3, <1>7 DEF ApprovalTrail
<1> QED BY <1>8, <1>9, <1>10, <1>11, <1>12 DEF ApprovalTrail, Made

\* A handler that inserts its payment ends there.
LEMMA TrailKeptByInsert ==
  ASSUME TypeOK, ApprovalTrail, NEW q \in Requests, CreatePaymentCommit(q)
  PROVE  ApprovalTrail'
<1>1. \A r \in Requests :
        /\ pc'[r] = IF r = q THEN "done" ELSE pc[r]
        /\ r # q => loc'[r] = loc[r]
  BY DEF CreatePaymentCommit, Finish, Goto, TypeOK, RequestsTypeOK
<1>2. \A r \in Requests : (Made(r))' <=> (r = q \/ Made(r))
  BY DEF CreatePaymentCommit, Made, TypeOK, PaymentsTypeOK
<1>3. \A r \in Requests : pc[r] \in PaymentStages => loc[r].payment \in Requests
  BY LocalsFit DEF TypeOK
<1>4. UNCHANGED <<receipts, approved>> /\ approved \subseteq Requests
  BY DEF CreatePaymentCommit, TypeOK, PaymentsTypeOK
<1> QED BY <1>1, <1>2, <1>3, <1>4 DEF ApprovalTrail, Made, PaymentStages

\* Steps that move no request keep the trail.
LEMMA TrailKeptByOthers ==
  ApprovalTrail /\ UNCHANGED <<pc, loc, paymentVars>> => ApprovalTrail'
BY DEF ApprovalTrail, Made, paymentVars

\* Every step keeps the trail.
LEMMA NextTrail == TypeOK /\ ApprovalTrail /\ [Next]_vars => ApprovalTrail'
<1> SUFFICES ASSUME TypeOK, ApprovalTrail, [Next]_vars PROVE ApprovalTrail'
  OBVIOUS
<1>1. ASSUME NEW q \in Requests, NEW i \in InvoiceIds,
             CancelInvoiceRead(q, i) \/ CreatePaymentRead(q, i)
      PROVE  ApprovalTrail'
  <2>1. pc[q] = "new" /\ UNCHANGED paymentVars
    BY <1>1 DEF CancelInvoiceRead, CreatePaymentRead, Begin
  <2>2. \/ Goto(q, "cancel_invoice", [invoice |-> i])
        \/ Goto(q, "insert_payment", [invoice |-> i])
    BY <1>1 DEF CancelInvoiceRead, CreatePaymentRead, Begin, Goto
  <2> QED BY <2>1, <2>2, TrailKeptByReads
<1>2. ASSUME NEW q \in Requests, NEW p \in Requests,
             \/ ApproveRead(q, p) \/ RejectRead(q, p) \/ UploadRead(q, p)
             \/ ApproveReceiptRead(q, p) \/ RejectReceiptRead(q, p)
      PROVE  ApprovalTrail'
  <2>1. UNCHANGED paymentVars
    BY <1>2 DEF ApproveRead, RejectRead, UploadRead, ApproveReceiptRead,
                RejectReceiptRead
  <2>2. Made(p)
    BY <1>2 DEF ApproveRead, RejectRead, UploadRead, ApproveReceiptRead,
                RejectReceiptRead, Undecided, Retryable, Reviewable,
                ApprovalTrail, Made
  <2>3. PICK stage \in PaymentStages \ {"approve_invoice"} :
          Begin(q, stage, [payment |-> p])
    BY <1>2 DEF ApproveRead, RejectRead, UploadRead, ApproveReceiptRead,
                RejectReceiptRead, PaymentStages
  <2>4. Goto(q, stage, [payment |-> p])
    BY <2>3 DEF Begin, Goto
  <2> QED BY <2>1, <2>2, <2>4, TrailKeptByReads
<1>3. ASSUME NEW q \in Requests, Finish(q), UNCHANGED paymentVars
      PROVE  ApprovalTrail'
  BY <1>3, TrailKeptByReads DEF Finish
<1>4. ASSUME NEW q \in Requests,
             \/ ApprovePayment(q) \/ RejectCommit(q) \/ UploadCommit(q)
             \/ RejectReceiptCommit(q) \/ ApproveReceiptCommit(q)
      PROVE  ApprovalTrail'
  <2> DEFINE p == loc[q].payment
  <2>1. p \in Requests /\ Made(p)
    BY <1>4, LocalsFit
    DEF ApprovePayment, RejectCommit, UploadCommit, RejectReceiptCommit,
        ApproveReceiptCommit, PaymentStages, TypeOK, ApprovalTrail
  <2>2. CASE Finish(q) /\ UNCHANGED paymentVars
    BY <1>3, <2>2
  <2>3. CASE \E status \in PaymentStatuses : SetPayment(p, status)
    <3>1. UNCHANGED receipts \/ \E r \in ReceiptStatuses : SetReceipt(p, r)
      BY <1>4, <2>2
      DEF ApprovePayment, RejectCommit, UploadCommit, RejectReceiptCommit,
          ApproveReceiptCommit, ReceiptStatuses, paymentVars
    <3>2. UNCHANGED approved \/ approved' = approved \cup {p}
      BY <1>4
      DEF ApprovePayment, RejectCommit, UploadCommit, RejectReceiptCommit,
          ApproveReceiptCommit, paymentVars
    <3>3. \/ Finish(q)
          \/ Goto(q, "approve_invoice", loc[q]) /\ p \in approved'
      BY <1>4
      DEF ApprovePayment, RejectCommit, UploadCommit, RejectReceiptCommit,
          ApproveReceiptCommit
    <3> QED BY <2>1, <2>3, <3>1, <3>2, <3>3, TrailKeptByDecisions
  <2> QED
    BY <1>4, <2>2, <2>3
    DEF ApprovePayment, RejectCommit, UploadCommit, RejectReceiptCommit,
        ApproveReceiptCommit, PaymentStatuses
<1>5. CASE UNCHANGED <<pc, loc, paymentVars>>
  BY <1>5, TrailKeptByOthers
<1>6. CASE InvoicesStep
  BY <1>1, <1>5, <1>6 DEF InvoicesStep, CreateInvoice, Idle, runtimeVars
<1>7. CASE PaymentsStep
  BY <1>2, <1>3, <1>4, <1>7, TrailKeptByInsert
  DEF PaymentsStep, CancelInvoiceCommit, ApproveInvoice
<1>8. CASE ReceiptsStep
  BY <1>2, <1>4, <1>8 DEF ReceiptsStep
<1>9. CASE SweepStep
  BY <1>5, <1>9 DEF SweepStep, MarkOverdueRequest, SweepMark, SweepList,
                    SweepRemind, SweepAbort, Idle, runtimeVars
<1>10. ASSUME NEW q \in Requests, Abort(q), UNCHANGED paymentVars
       PROVE  ApprovalTrail'
  BY <1>3, <1>10 DEF Abort
<1>11. CASE Tick /\ UNCHANGED paymentVars
  BY <1>5, <1>11 DEF Tick
<1>12. CASE UNCHANGED vars
  BY <1>5, <1>12 DEF vars, runtimeVars
<1> QED BY <1>6, <1>7, <1>8, <1>9, <1>10, <1>11, <1>12 DEF Next

\* What a step may do to invoices and approvals: approvals are not forgotten,
\* a payment that was made stays with its invoice, and an invoice becomes paid
\* only through a payment that has been approved.
InvoiceStep ==
  /\ approved \subseteq approved'
  /\ \A p \in Requests : Made(p) => payments'[p].invoice = payments[p].invoice
  /\ \A i \in InvoiceIds :
       invoices'[i].status = "PAID" =>
         \/ invoices[i].status = "PAID"
         \/ \E p \in approved' : payments[p].invoice = i /\ Made(p)

\* Every step does that, as long as the trail is kept.
LEMMA NextInvoices == TypeOK /\ ApprovalTrail /\ [Next]_vars => InvoiceStep
<1> SUFFICES ASSUME TypeOK, ApprovalTrail, [Next]_vars PROVE InvoiceStep
  OBVIOUS
<1>1. /\ payments \in [Requests -> Payment]
      /\ invoices \in [InvoiceIds -> Invoice]
      /\ approved \subseteq Requests
  BY DEF TypeOK, PaymentsTypeOK, InvoicesTypeOK
<1>2. \A q \in Requests :
        pc[q] \in PaymentStages => loc[q].payment \in Requests /\ Made(loc[q].payment)
  BY LocalsFit DEF TypeOK, ApprovalTrail
<1>3. ASSUME NEW p, NEW status, SetPayment(p, status)
      PROVE  \A r \in Requests : payments'[r].invoice = payments[r].invoice
  BY <1>1, <1>3 DEF SetPayment, Payment
<1>4. ASSUME NEW i, NEW status, SetInvoice(i, status)
      PROVE  \A j \in InvoiceIds :
               invoices'[j].status = IF j = i THEN status ELSE invoices[j].status
  BY <1>1, <1>4 DEF SetInvoice, Invoice
<1>5. CASE UNCHANGED <<invoices, paymentVars>>
  BY <1>5 DEF InvoiceStep, paymentVars
<1>6. ASSUME NEW q \in Requests,
             ApprovePayment(q) \/ RejectCommit(q) \/ UploadCommit(q)
               \/ RejectReceiptCommit(q)
      PROVE  InvoiceStep
  BY <1>3, <1>6
  DEF ApprovePayment, RejectCommit, UploadCommit, RejectReceiptCommit,
      InvoiceStep, invoiceVars
<1>7. ASSUME NEW q \in Requests, ApproveReceiptCommit(q) PROVE InvoiceStep
  <2>1. CASE UNCHANGED <<invoices, paymentVars>> BY <1>5, <2>1
  <2>2. CASE ~UNCHANGED <<invoices, paymentVars>>
    <3> DEFINE p == loc[q].payment
    <3>1. /\ SetPayment(p, "APPROVED")
          /\ approved' = approved \cup {p}
          /\ SetInvoice(payments[p].invoice, "PAID")
      BY <1>7, <2>2 DEF ApproveReceiptCommit
    <3>2. p \in Requests /\ Made(p)
      BY <1>2, <1>7 DEF ApproveReceiptCommit, PaymentStages
    <3>3. \A r \in Requests : payments'[r].invoice = payments[r].invoice
      BY <1>3, <3>1
    <3>4. \A j \in InvoiceIds : invoices'[j].status =
            IF j = payments[p].invoice THEN "PAID" ELSE invoices[j].status
      BY <1>4, <3>1
    <3> QED BY <3>1, <3>2, <3>3, <3>4 DEF InvoiceStep
  <2> QED BY <2>1, <2>2
<1>8. ASSUME NEW q \in Requests, ApproveInvoice(q) PROVE InvoiceStep
  <2> DEFINE p == loc[q].payment
  <2>1. p \in approved /\ Made(p) /\ UNCHANGED <<payments, approved>>
    BY <1>2, <1>8
    DEF ApproveInvoice, PaymentStages, ApprovalTrail, paymentVars
  <2>2. \A j \in InvoiceIds : invoices'[j].status =
          IF j = payments[p].invoice THEN "PAID" ELSE invoices[j].status
    BY <1>4, <1>8 DEF ApproveInvoice
  <2> QED BY <2>1, <2>2 DEF InvoiceStep
<1>9. ASSUME NEW q \in Requests, CreatePaymentCommit(q) PROVE InvoiceStep
  <2>1. ~Made(q) BY <1>9 DEF CreatePaymentCommit, ApprovalTrail
  <2> QED BY <1>1, <1>9, <2>1 DEF CreatePaymentCommit, InvoiceStep, invoiceVars
<1>10. ASSUME NEW q \in Requests, CancelInvoiceCommit(q) PROVE InvoiceStep
  <2>1. \A j \in InvoiceIds : invoices'[j].status =
          IF j = loc[q].invoice THEN "CANCELLED" ELSE invoices[j].status
    BY <1>4, <1>10 DEF CancelInvoiceCommit
  <2> QED BY <1>10, <2>1 DEF CancelInvoiceCommit, InvoiceStep, paymentVars
<1>11. ASSUME NEW i \in InvoiceIds, NEW dueDate \in DueDates,
              CreateInvoice(i, dueDate)
       PROVE  InvoiceStep
  BY <1>1, <1>11 DEF CreateInvoice, InvoiceStep, paymentVars
<1>12. ASSUME MarkOverdue, UNCHANGED paymentVars PROVE InvoiceStep
  BY <1>1, <1>12 DEF MarkOverdue, InvoiceStep, paymentVars, Invoice
<1>13. CASE InvoicesStep
  BY <1>5, <1>11, <1>13
  DEF InvoicesStep, CancelInvoiceRead, CreatePaymentRead, invoiceVars
<1>14. CASE PaymentsStep
  BY <1>5, <1>6, <1>8, <1>9, <1>10, <1>14
  DEF PaymentsStep, ApproveRead, RejectRead, invoiceVars
<1>15. CASE ReceiptsStep
  BY <1>5, <1>6, <1>7, <1>15
  DEF ReceiptsStep, UploadRead, ApproveReceiptRead, RejectReceiptRead,
      invoiceVars
<1>16. CASE SweepStep
  BY <1>5, <1>12, <1>16
  DEF SweepStep, MarkOverdueRequest, SweepMark, SweepList, SweepRemind,
      SweepAbort, invoiceVars
<1>17. CASE UNCHANGED <<invoiceVars, paymentVars>>
  BY <1>5, <1>17 DEF invoiceVars
<1> QED
  BY <1>13, <1>14, <1>15, <1>16, <1>17 DEF Next, vars

\* An invoice is paid only by the approval of one of its own payments,
\* although a direct approval is two updates with anything in between.
THEOREM PaidThroughApproval == Spec => []PaidByApproval
<1>1. Init => ApprovalTrail /\ PaidByApproval
  BY DEF Init, RuntimeInit, ApprovalTrail, PaidByApproval, Made, NoPayment,
         NoInvoice, PaymentStages
<1>2. TypeOK' /\ ApprovalTrail /\ PaidByApproval /\ InvoiceStep => PaidByApproval'
  <2> SUFFICES ASSUME TypeOK', ApprovalTrail, PaidByApproval, InvoiceStep,
                      NEW i \in InvoiceIds, invoices'[i].status = "PAID"
               PROVE  \E p \in approved' : payments'[p].invoice = i
    BY DEF PaidByApproval
  <2>1. PICK p \in approved' : payments[p].invoice = i /\ Made(p)
    BY DEF InvoiceStep, PaidByApproval, ApprovalTrail
  <2>2. p \in Requests BY DEF TypeOK, PaymentsTypeOK
  <2> QED BY <2>1, <2>2 DEF InvoiceStep
<1>3. TypeOK /\ ApprovalTrail /\ PaidByApproval /\ [Next]_vars
        => ApprovalTrail' /\ PaidByApproval'
  BY <1>2, NextTypes, NextTrail, NextInvoices
<1> QED BY <1>1, <1>3, TypeCorrect, PTL DEF Spec

-----------------------------------------------------------------------------
(* Notifications *)

\* Why a client hears of an invoice once a day: there is none before the
\* invoice is created, the job lists invoices that were created, and whenever
\* it looks back it looks to the start of today, or further.
NoticesInvariant ==
  /\ \A i \in InvoiceIds :
       invoices[i].status = "NONE" => \A t \in Times : notices[i][t] = 0
  /\ \A i \in job : invoices[i].status # "NONE"
  /\ today <= StartOfToday
  /\ NotifiedOncePerDay

\* A day starts no later than any of its times, and later days start later.
LEMMA DayStarts ==
  ASSUME NEW s \in Times, NEW t \in Times, s <= t
  PROVE  /\ DayOf(s) * DayLength <= DayOf(t) * DayLength
         /\ DayOf(t) * DayLength <= t
<1>1. s \in Nat /\ t \in Nat /\ DayLength \in Nat \ {0}
  BY RuntimeAssumption, BillingAssumption DEF Times
<1>2. s \div DayLength <= t \div DayLength
  BY <1>1
<1>3. (s \div DayLength) * DayLength <= (t \div DayLength) * DayLength
  BY <1>1, <1>2
<1>4. (t \div DayLength) * DayLength <= t
  BY <1>1
<1> QED BY <1>3, <1>4 DEF DayOf

\* No step deletes an invoice.
LEMMA InvoicesStay ==
  ASSUME TypeOK, [Next]_vars, NEW i \in InvoiceIds, invoices[i].status # "NONE"
  PROVE  invoices'[i].status # "NONE"
<1>1. invoices \in [InvoiceIds -> Invoice]
  BY DEF TypeOK, InvoicesTypeOK
<1>2. ASSUME NEW j, NEW status, SetInvoice(j, status), status # "NONE"
      PROVE  invoices'[i].status # "NONE"
  BY <1>1, <1>2 DEF SetInvoice, Invoice
<1>3. ASSUME MarkOverdue PROVE invoices'[i].status # "NONE"
  BY <1>1, <1>3 DEF MarkOverdue, Invoice
<1>4. CASE UNCHANGED invoices
  BY <1>4
<1>5. CASE InvoicesStep
  BY <1>1, <1>5 DEF InvoicesStep, CreateInvoice, CancelInvoiceRead,
                    CreatePaymentRead, invoiceVars
<1>6. CASE PaymentsStep
  BY <1>2, <1>6 DEF PaymentsStep, CancelInvoiceCommit, CreatePaymentCommit,
                    ApproveRead, RejectRead, ApprovePayment, ApproveInvoice,
                    RejectCommit, invoiceVars
<1>7. CASE ReceiptsStep
  BY <1>2, <1>7 DEF ReceiptsStep, UploadRead, ApproveReceiptRead,
                    RejectReceiptRead, UploadCommit, ApproveReceiptCommit,
                    RejectReceiptCommit, invoiceVars
<1>8. CASE SweepStep
  BY <1>3, <1>8 DEF SweepStep, MarkOverdueRequest, SweepMark, SweepList,
                    SweepRemind, SweepAbort, invoiceVars
<1> QED BY <1>4, <1>5, <1>6, <1>7, <1>8 DEF Next, invoiceVars, vars

\* One notification of an invoice that had none on this day.
LEMMA NotifyOnce ==
  ASSUME TypeOK, NotifiedOncePerDay, NEW i \in InvoiceIds, Notify(i),
         \A t \in Times : DayOf(t) = DayOf(now) => notices[i][t] = 0
  PROVE  NotifiedOncePerDay'
<1>1. /\ now \in Times
      /\ notices \in [InvoiceIds -> [Times -> Nat]]
      /\ notices' = [notices EXCEPT ![i] =
                       [notices[i] EXCEPT ![now] = notices[i][now] + 1]]
  BY DEF TypeOK, SweepTypeOK, InvoicesTypeOK, Notify
<1> SUFFICES ASSUME NEW j \in InvoiceIds, NEW t \in Times, NEW s \in Times,
                    DayOf(t) = DayOf(s)
             PROVE  notices'[j][t] + (IF s = t THEN 0 ELSE notices'[j][s]) <= 1
  BY DEF NotifiedOncePerDay, DayOf
<1>2. notices[j][t] + (IF s = t THEN 0 ELSE notices[j][s]) <= 1
  BY DEF NotifiedOncePerDay
<1>3. CASE j = i /\ DayOf(t) = DayOf(now)
  <2>1. notices[i][t] = 0 /\ notices[i][s] = 0
    BY <1>3
  <2>2. /\ notices'[j][t] = IF t = now THEN 1 ELSE 0
        /\ notices'[j][s] = IF s = now THEN 1 ELSE 0
    BY <1>1, <1>3, <2>1
  <2> QED BY <2>2
<1>4. CASE j # i \/ DayOf(t) # DayOf(now)
  <2>1. notices'[j][t] = notices[j][t] /\ notices'[j][s] = notices[j][s]
    BY <1>1, <1>4
  <2> QED BY <1>2, <2>1
<1> QED BY <1>3, <1>4

\* A step that notifies nobody, lists only invoices that exist, and starts no
\* look-back after the start of today.
LEMMA NobodyNotified ==
  ASSUME TypeOK, NoticesInvariant, [Next]_vars, UNCHANGED notices,
         \A i \in job' : i \in job \/ invoices[i].status # "NONE",
         today' \in {today, StartOfToday},
         UNCHANGED now \/ Tick
  PROVE  NoticesInvariant'
<1>1. \A i \in InvoiceIds : invoices'[i].status = "NONE" => invoices[i].status = "NONE"
  BY InvoicesStay
<1>2. TypeOK'
  BY NextTypes
<1>3. \A i \in job' : invoices'[i].status # "NONE"
  BY <1>1, <1>2 DEF NoticesInvariant, TypeOK, SweepTypeOK
<1>4. today' <= StartOfToday'
  <2>1. now \in Times /\ now' \in Times /\ now <= now'
    BY <1>2, RuntimeAssumption DEF TypeOK, SweepTypeOK, Tick, Times
  <2>2. StartOfToday <= StartOfToday'
    BY <2>1, DayStarts DEF StartOfToday, DayOf
  <2>3. StartOfToday \in Int /\ StartOfToday' \in Int /\ today \in Int
    BY <2>1, BillingAssumption, RuntimeAssumption
    DEF StartOfToday, DayOf, Times, TypeOK, SweepTypeOK
  <2> QED BY <2>2, <2>3 DEF NoticesInvariant
<1> QED BY <1>1, <1>3, <1>4 DEF NoticesInvariant, NotifiedOncePerDay, DayOf

LEMMA CreateInvoiceNotices ==
  ASSUME TypeOK, NoticesInvariant, [Next]_vars, NEW i \in InvoiceIds,
         NEW dueDate \in DueDates, CreateInvoice(i, dueDate)
  PROVE  NoticesInvariant'
<1>1. /\ invoices[i].status = "NONE"
      /\ Notify(i)
      /\ UNCHANGED <<now, job, today>>
      /\ invoices' = [invoices EXCEPT ![i] =
                        [status |-> "PENDING", dueDate |-> dueDate]]
  BY DEF CreateInvoice, Idle, runtimeVars, sweepVars
<1>2. NotifiedOncePerDay'
  BY <1>1, NotifyOnce DEF NoticesInvariant
<1>3. \A j \in InvoiceIds :
        invoices'[j].status = "NONE" => j # i /\ invoices[j].status = "NONE"
  BY <1>1 DEF TypeOK, InvoicesTypeOK
<1>4. \A j \in InvoiceIds \ {i} : notices'[j] = notices[j]
  BY <1>1 DEF Notify, TypeOK, InvoicesTypeOK
<1>5. \A j \in job' : invoices'[j].status # "NONE"
  BY <1>1, <1>3 DEF NoticesInvariant, TypeOK, SweepTypeOK
<1> QED BY <1>1, <1>2, <1>3, <1>4, <1>5
        DEF NoticesInvariant, StartOfToday, DayOf

LEMMA SweepRemindNotices ==
  ASSUME TypeOK, NoticesInvariant, [Next]_vars, NEW i \in InvoiceIds, SweepRemind(i)
  PROVE  NoticesInvariant'
<1>1. UNCHANGED <<now, today, invoices>> /\ i \in job /\ job' = job \ {i}
  BY DEF SweepRemind, sweepVars
<1>2. CASE UNCHANGED notices
  BY <1>1, <1>2, NobodyNotified
<1>3. CASE ~AlreadyRemindedToday(i) /\ Notify(i)
  <2>1. ASSUME NEW t \in Times, DayOf(t) = DayOf(now) PROVE notices[i][t] = 0
    <3>1. t \in Int /\ today \in Int /\ StartOfToday \in Int
      BY RuntimeAssumption, BillingAssumption
      DEF Times, TypeOK, SweepTypeOK, StartOfToday, DayOf
    <3>2. StartOfToday <= t
      BY <2>1, <3>1, DayStarts DEF StartOfToday
    <3>3. t >= today
      BY <3>1, <3>2 DEF NoticesInvariant
    <3>4. notices[i][t] \in Nat
      BY DEF TypeOK, InvoicesTypeOK
    <3> QED BY <1>3, <3>3, <3>4 DEF AlreadyRemindedToday
  <2>2. NotifiedOncePerDay'
    BY <1>3, <2>1, NotifyOnce DEF NoticesInvariant
  <2>3. \A j \in InvoiceIds \ {i} : notices'[j] = notices[j]
    BY <1>3 DEF Notify, TypeOK, InvoicesTypeOK
  <2> QED BY <1>1, <2>2, <2>3 DEF NoticesInvariant, StartOfToday, DayOf
<1> QED BY <1>2, <1>3 DEF SweepRemind

LEMMA NextNotices == TypeOK /\ NoticesInvariant /\ [Next]_vars => NoticesInvariant'
<1> SUFFICES ASSUME TypeOK, NoticesInvariant, [Next]_vars PROVE NoticesInvariant'
  OBVIOUS
<1>1. CASE UNCHANGED <<notices, job, today>> /\ (UNCHANGED now \/ Tick)
  BY <1>1, NobodyNotified
<1>2. CASE InvoicesStep
  BY <1>1, <1>2, CreateInvoiceNotices
  DEF InvoicesStep, CancelInvoiceRead, CreatePaymentRead, Begin, invoiceVars, sweepVars
<1>3. CASE PaymentsStep
  BY <1>1, <1>3
  DEF PaymentsStep, CancelInvoiceCommit, CreatePaymentCommit, ApproveRead,
      RejectRead, ApprovePayment, ApproveInvoice, RejectCommit, Begin, Finish,
      Goto, invoiceVars, sweepVars
<1>4. CASE ReceiptsStep
  BY <1>1, <1>4
  DEF ReceiptsStep, UploadRead, ApproveReceiptRead, RejectReceiptRead,
      UploadCommit, ApproveReceiptCommit, RejectReceiptCommit, Begin, Finish,
      Goto, invoiceVars, sweepVars
<1>5. CASE MarkOverdueRequest \/ SweepMark
  BY <1>1, <1>5 DEF MarkOverdueRequest, SweepMark, Idle, runtimeVars, sweepVars
<1>6. CASE SweepList
  <2>1. /\ UNCHANGED <<now, notices>>
        /\ today' = StartOfToday
        /\ \A i \in job' : invoices[i].status # "NONE"
    BY <1>6 DEF SweepList, invoiceVars
  <2> QED BY <2>1, NobodyNotified
<1>7. CASE SweepAbort
  BY <1>7, NobodyNotified DEF SweepAbort, invoiceVars
<1>8. CASE \E i \in InvoiceIds : SweepRemind(i)
  BY <1>8, SweepRemindNotices
<1>9. CASE /\ Tick \/ \E q \in Requests : Abort(q)
           /\ UNCHANGED <<invoiceVars, paymentVars, sweepVars>>
  BY <1>1, <1>9 DEF Tick, Abort, Finish, Goto, invoiceVars, sweepVars
<1>10. CASE UNCHANGED vars
  BY <1>1, <1>10 DEF vars, runtimeVars, invoiceVars, sweepVars
<1> QED BY <1>2, <1>3, <1>4, <1>5, <1>6, <1>7, <1>8, <1>9, <1>10
        DEF Next, SweepStep

\* However often the financial job runs, dies or goes on after midnight, its
\* look-back (remindUpcomingInvoices) keeps a client from hearing of an invoice
\* twice a day, the day it was created included.
THEOREM NoticesOncePerDay == Spec => []NotifiedOncePerDay
<1>1. Init => NoticesInvariant
  <2> SUFFICES ASSUME Init PROVE NoticesInvariant
    OBVIOUS
  <2>1. /\ notices = [i \in InvoiceIds |-> [t \in Times |-> 0]]
        /\ now = 0 /\ job = {} /\ today = 0
    BY DEF Init, RuntimeInit
  <2>2. today <= StartOfToday
    BY <2>1, BillingAssumption DEF StartOfToday, DayOf
  <2> QED BY <2>1, <2>2 DEF NoticesInvariant, NotifiedOncePerDay
<1>2. NoticesInvariant => NotifiedOncePerDay
  BY DEF NoticesInvariant
<1> QED BY <1>1, <1>2, NextNotices, TypeCorrect, PTL DEF Spec

-----------------------------------------------------------------------------
(* One request at a time *)

\* Where at most one is in flight, a request or a statement that may start
\* finds none.
LEMMA StartsAlone ==
  ASSUME Concurrency = 1, IsFiniteSet(Requests), CanStart
  PROVE  InFlight = {}
<1>1. IsFiniteSet(InFlight)
  BY FS_Subset DEF InFlight
<1>2. Cardinality(InFlight) \in Nat
  BY <1>1, FS_CardinalityType
<1>3. Cardinality(InFlight) = 0
  BY <1>2 DEF CanStart
<1> QED BY <1>1, <1>3, FS_EmptySet

\* What the request in flight has read still holds when it writes.
ReadsHold ==
  \A q \in Requests :
    /\ pc[q] = "cancel_invoice" => CancellableInvoice(loc[q].invoice)
    /\ pc[q] \in {"approve_payment", "reject_payment"} => Undecided(loc[q].payment)
    /\ pc[q] = "upload_receipt" => Retryable(loc[q].payment)
    /\ pc[q] \in {"approve_receipt", "reject_receipt"} => Reviewable(loc[q].payment)

AtMostOne == \A p \in InFlight, q \in InFlight : p = q

\* A payment that was made is of an invoice.
MadeForInvoice == \A p \in Requests : Made(p) => payments[p].invoice \in InvoiceIds

OneAtATime == ReadsHold /\ AtMostOne /\ MadeForInvoice

\* A request that starts, alone, and whose read holds.
LEMMA BeginKeepsOne ==
  ASSUME TypeOK, OneAtATime, NEW q \in Requests, NEW stage, NEW locals,
         Begin(q, stage, locals), UNCHANGED <<invoices, payments, receipts>>,
         InFlight = {},
         stage = "cancel_invoice" => CancellableInvoice(locals.invoice),
         stage \in {"approve_payment", "reject_payment"} => Undecided(locals.payment),
         stage = "upload_receipt" => Retryable(locals.payment),
         stage \in {"approve_receipt", "reject_receipt"} => Reviewable(locals.payment)
  PROVE  OneAtATime'
<1>1. \A p \in Requests :
        /\ pc'[p] = IF p = q THEN stage ELSE pc[p]
        /\ loc'[p] = IF p = q THEN locals ELSE loc[p]
        /\ pc[p] \in {"new", "done"}
  BY DEF Begin, TypeOK, RequestsTypeOK, InFlight
<1>2. ReadsHold'
  BY <1>1 DEF ReadsHold, CancellableInvoice, Undecided, Retryable, Reviewable
<1>3. AtMostOne'
  BY <1>1 DEF AtMostOne, InFlight
<1> QED BY <1>2, <1>3 DEF OneAtATime, MadeForInvoice, Made

\* The request in flight ends, or goes on to the second update of a direct
\* approval.
LEMMA WriteKeepsOne ==
  ASSUME TypeOK, OneAtATime, NEW q \in InFlight, MadeForInvoice',
         Finish(q) \/ Goto(q, "approve_invoice", loc[q])
  PROVE  OneAtATime'
<1>1. \A p \in Requests :
        /\ p # q => pc'[p] = pc[p] /\ pc[p] \in {"new", "done"}
        /\ p = q => pc'[p] \in {"done", "approve_invoice"}
  BY DEF Finish, Goto, TypeOK, RequestsTypeOK, InFlight, OneAtATime, AtMostOne
<1>2. ReadsHold'
  BY <1>1 DEF ReadsHold
<1>3. AtMostOne'
  BY <1>1 DEF AtMostOne, InFlight
<1> QED BY <1>2, <1>3 DEF OneAtATime

\* Steps that move no request: a statement of its own, that finds no request
\* in flight, or one that changes no table.
LEMMA OthersKeepOne ==
  ASSUME TypeOK, OneAtATime, UNCHANGED <<pc, loc, payments, receipts>>,
         UNCHANGED invoices \/ InFlight = {}
  PROVE  OneAtATime'
<1>1. CASE UNCHANGED invoices
  BY <1>1 DEF OneAtATime, ReadsHold, AtMostOne, MadeForInvoice, Made, InFlight,
              CancellableInvoice, Undecided, Retryable, Reviewable
<1>2. CASE InFlight = {}
  <2>1. \A p \in Requests : pc[p] \in {"new", "done"}
    BY <1>2 DEF InFlight
  <2> QED BY <2>1 DEF OneAtATime, ReadsHold, AtMostOne, MadeForInvoice, Made, InFlight
<1> QED BY <1>1, <1>2

\* Payments that were made stay with an invoice.
LEMMA MadeForInvoiceKept ==
  TypeOK /\ ApprovalTrail /\ MadeForInvoice /\ [Next]_vars => MadeForInvoice'
<1> SUFFICES ASSUME TypeOK, ApprovalTrail, MadeForInvoice, [Next]_vars
             PROVE  MadeForInvoice'
  OBVIOUS
<1>1. payments \in [Requests -> Payment]
  BY DEF TypeOK, PaymentsTypeOK
<1>2. ASSUME NEW q \in Requests, pc[q] \in PaymentStages, NEW status,
             SetPayment(loc[q].payment, status)
      PROVE  MadeForInvoice'
  <2>1. loc[q].payment \in Requests /\ Made(loc[q].payment)
    BY <1>2, LocalsFit DEF TypeOK, ApprovalTrail
  <2> QED BY <1>1, <1>2, <2>1 DEF SetPayment, MadeForInvoice, Made, Payment
<1>3. ASSUME NEW q \in Requests, CreatePaymentCommit(q)
      PROVE  MadeForInvoice'
  <2>1. loc[q].invoice \in InvoiceIds
    BY <1>3, LocalsFit DEF TypeOK, CreatePaymentCommit, InvoiceStages
  <2> QED BY <1>1, <1>3, <2>1 DEF CreatePaymentCommit, MadeForInvoice, Made
<1>4. CASE UNCHANGED payments
  BY <1>4 DEF MadeForInvoice, Made
<1>5. CASE InvoicesStep
  BY <1>4, <1>5 DEF InvoicesStep, CreateInvoice, CancelInvoiceRead,
                    CreatePaymentRead, paymentVars
<1>6. CASE PaymentsStep
  BY <1>2, <1>3, <1>4, <1>6
  DEF PaymentsStep, CancelInvoiceCommit, ApproveRead, RejectRead,
      ApprovePayment, ApproveInvoice, RejectCommit, paymentVars, PaymentStages
<1>7. CASE ReceiptsStep
  BY <1>2, <1>4, <1>7
  DEF ReceiptsStep, UploadRead, ApproveReceiptRead, RejectReceiptRead,
      UploadCommit, ApproveReceiptCommit, RejectReceiptCommit, paymentVars,
      PaymentStages
<1>8. CASE SweepStep
  BY <1>4, <1>8 DEF SweepStep, MarkOverdueRequest, SweepMark, SweepList,
                    SweepRemind, SweepAbort, paymentVars
<1> QED BY <1>4, <1>5, <1>6, <1>7, <1>8 DEF Next, paymentVars, vars

\* One request at a time, every step keeps what the one in flight has read.
LEMMA NextOne ==
  ASSUME Concurrency = 1, IsFiniteSet(Requests)
  PROVE  TypeOK /\ ApprovalTrail /\ OneAtATime /\ [Next]_vars => OneAtATime'
<1> SUFFICES ASSUME TypeOK, ApprovalTrail, OneAtATime, [Next]_vars
             PROVE  OneAtATime'
  OBVIOUS
<1>1. CanStart => InFlight = {}
  BY StartsAlone
<1>2. MadeForInvoice'
  BY MadeForInvoiceKept DEF OneAtATime
<1>3. ASSUME NEW q \in Requests, NEW i \in InvoiceIds,
             CancelInvoiceRead(q, i) \/ CreatePaymentRead(q, i)
      PROVE  OneAtATime'
  <2>1. InFlight = {} /\ UNCHANGED <<invoices, payments, receipts>>
    BY <1>1, <1>3 DEF CancelInvoiceRead, CreatePaymentRead, Begin, invoiceVars,
                      paymentVars
  <2>2. CASE CancelInvoiceRead(q, i)
    BY <2>1, <2>2, BeginKeepsOne DEF CancelInvoiceRead
  <2>3. CASE CreatePaymentRead(q, i)
    BY <2>1, <2>3, BeginKeepsOne DEF CreatePaymentRead
  <2> QED BY <1>3, <2>2, <2>3
<1>4. ASSUME NEW q \in Requests, NEW p \in Requests,
             \/ ApproveRead(q, p) \/ RejectRead(q, p) \/ UploadRead(q, p)
             \/ ApproveReceiptRead(q, p) \/ RejectReceiptRead(q, p)
      PROVE  OneAtATime'
  <2>1. InFlight = {} /\ UNCHANGED <<invoices, payments, receipts>>
    BY <1>1, <1>4 DEF ApproveRead, RejectRead, UploadRead, ApproveReceiptRead,
                      RejectReceiptRead, Begin, invoiceVars, paymentVars
  <2>2. CASE ApproveRead(q, p)
    BY <2>1, <2>2, BeginKeepsOne DEF ApproveRead
  <2>3. CASE RejectRead(q, p)
    BY <2>1, <2>3, BeginKeepsOne DEF RejectRead
  <2>4. CASE UploadRead(q, p)
    BY <2>1, <2>4, BeginKeepsOne DEF UploadRead
  <2>5. CASE ApproveReceiptRead(q, p)
    BY <2>1, <2>5, BeginKeepsOne DEF ApproveReceiptRead
  <2>6. CASE RejectReceiptRead(q, p)
    BY <2>1, <2>6, BeginKeepsOne DEF RejectReceiptRead
  <2> QED BY <1>4, <2>2, <2>3, <2>4, <2>5, <2>6
<1>5. ASSUME NEW q \in Requests, pc[q] \notin {"new", "done"},
             Finish(q) \/ Goto(q, "approve_invoice", loc[q])
      PROVE  OneAtATime'
  BY <1>2, <1>5, WriteKeepsOne DEF InFlight
<1>6. CASE UNCHANGED <<pc, loc, payments, receipts>>
           /\ (UNCHANGED invoices \/ InFlight = {})
  BY <1>6, OthersKeepOne
<1>7. CASE InvoicesStep
  BY <1>1, <1>3, <1>6, <1>7
  DEF InvoicesStep, CreateInvoice, Idle, runtimeVars, paymentVars
<1>8. CASE PaymentsStep
  BY <1>4, <1>5, <1>8
  DEF PaymentsStep, CancelInvoiceCommit, CreatePaymentCommit, ApprovePayment,
      ApproveInvoice, RejectCommit
<1>9. CASE ReceiptsStep
  BY <1>4, <1>5, <1>9
  DEF ReceiptsStep, UploadCommit, ApproveReceiptCommit, RejectReceiptCommit
<1>10. CASE SweepStep
  BY <1>1, <1>6, <1>10
  DEF SweepStep, MarkOverdueRequest, SweepMark, SweepList, SweepRemind,
      SweepAbort, Idle, runtimeVars, invoiceVars, paymentVars
<1>11. CASE /\ Tick \/ \E q \in Requests : Abort(q)
            /\ UNCHANGED <<invoiceVars, paymentVars, sweepVars>>
  BY <1>5, <1>6, <1>11 DEF Tick, Abort, InFlight, invoiceVars, paymentVars
<1>12. CASE UNCHANGED vars
  BY <1>6, <1>12 DEF vars, runtimeVars, invoiceVars, paymentVars
<1> QED BY <1>7, <1>8, <1>9, <1>10, <1>11, <1>12 DEF Next

\* What the sequential theorems rest on, in one invariant.
Sequential == TypeOK /\ ApprovalTrail /\ OneAtATime

LEMMA SequentialInvariant ==
  ASSUME Concurrency = 1, IsFiniteSet(Requests)
  PROVE  /\ Init => Sequential
         /\ Sequential /\ [Next]_vars => Sequential'
<1>1. Init => ApprovalTrail /\ OneAtATime
  BY DEF Init, RuntimeInit, ApprovalTrail, OneAtATime, ReadsHold, AtMostOne,
         MadeForInvoice, Made, NoPayment, PaymentStages, InFlight
<1> QED BY <1>1, InitTypes, NextTypes, NextTrail, NextOne DEF Sequential

\* A paid invoice is not written but to be paid again.
LEMMA PaidKept ==
  ASSUME Sequential, [Next]_vars, NEW i \in InvoiceIds,
         invoices[i].status = "PAID"
  PROVE  invoices'[i].status = "PAID"
<1>1. invoices \in [InvoiceIds -> Invoice]
  BY DEF Sequential, TypeOK, InvoicesTypeOK
<1>2. ASSUME NEW j, SetInvoice(j, "PAID")
      PROVE  invoices'[i].status = "PAID"
  BY <1>1, <1>2 DEF SetInvoice, Invoice
<1>3. ASSUME NEW q \in Requests, CancelInvoiceCommit(q)
      PROVE  invoices'[i].status = "PAID"
  <2>1. loc[q].invoice # i
    BY <1>3 DEF CancelInvoiceCommit, Sequential, OneAtATime, ReadsHold,
                CancellableInvoice
  <2> QED BY <1>1, <1>3, <2>1 DEF CancelInvoiceCommit, SetInvoice
<1>4. ASSUME MarkOverdue PROVE invoices'[i].status = "PAID"
  BY <1>1, <1>4 DEF MarkOverdue
<1>5. CASE UNCHANGED invoices
  BY <1>5
<1>6. CASE InvoicesStep
  BY <1>1, <1>6 DEF InvoicesStep, CreateInvoice, CancelInvoiceRead,
                    CreatePaymentRead, invoiceVars
<1>7. CASE PaymentsStep
  BY <1>2, <1>3, <1>5, <1>7
  DEF PaymentsStep, CreatePaymentCommit, ApproveRead, RejectRead,
      ApprovePayment, ApproveInvoice, RejectCommit, invoiceVars
<1>8. CASE ReceiptsStep
  BY <1>2, <1>5, <1>8
  DEF ReceiptsStep, UploadRead, ApproveReceiptRead, RejectReceiptRead,
      UploadCommit, ApproveReceiptCommit, RejectReceiptCommit, invoiceVars
<1>9. CASE SweepStep
  BY <1>4, <1>5, <1>9
  DEF SweepStep, MarkOverdueRequest, SweepMark, SweepList, SweepRemind,
      SweepAbort, invoiceVars
<1> QED BY <1>5, <1>6, <1>7, <1>8, <1>9 DEF Next, invoiceVars, vars

\* One request at a time, a paid invoice stays paid, dying requests and the
\* daily job included: cancellation looks at the status first, and the job's
\* statement takes pending invoices only.
THEOREM SequentialPaidStaysPaid ==
  ASSUME Concurrency = 1, IsFiniteSet(Requests)
  PROVE  Spec => PaidStaysPaid
<1>1. Sequential /\ [Next]_vars =>
        [\A i \in InvoiceIds :
           invoices[i].status = "PAID" => invoices'[i].status = "PAID"]_vars
  BY PaidKept
<1> QED BY <1>1, SequentialInvariant, PTL DEF Spec, PaidStaysPaid

\* What a step does to the payments: nothing; insert that of the request; or
\* decide one that was made, and whose status its request knows.
LEMMA DecisionSteps ==
  ASSUME Sequential, [Next]_vars
  PROVE  \/ UNCHANGED <<payments, receipts>>
         \/ \E q \in Requests : CreatePaymentCommit(q)
         \/ \E q \in Requests :
              /\ loc[q].payment \in Requests
              /\ Made(loc[q].payment)
              /\ \/ ApprovePayment(q)
                 \/ RejectCommit(q) /\ Undecided(loc[q].payment)
                 \/ UploadCommit(q) /\ Retryable(loc[q].payment)
                 \/ RejectReceiptCommit(q) /\ Reviewable(loc[q].payment)
                 \/ ApproveReceiptCommit(q) /\ Undecided(loc[q].payment)
<1>1. ASSUME NEW q \in Requests, pc[q] \in PaymentStages
      PROVE  loc[q].payment \in Requests /\ Made(loc[q].payment)
  BY <1>1, LocalsFit DEF Sequential, TypeOK, ApprovalTrail
<1>2. CASE InvoicesStep
  BY <1>2 DEF InvoicesStep, CreateInvoice, CancelInvoiceRead,
              CreatePaymentRead, paymentVars
<1>3. CASE PaymentsStep
  BY <1>1, <1>3
  DEF PaymentsStep, CancelInvoiceCommit, ApproveRead, RejectRead,
      ApprovePayment, ApproveInvoice, RejectCommit, paymentVars, PaymentStages,
      Sequential, OneAtATime, ReadsHold
<1>4. CASE ReceiptsStep
  BY <1>1, <1>4
  DEF ReceiptsStep, UploadRead, ApproveReceiptRead, RejectReceiptRead,
      UploadCommit, ApproveReceiptCommit, RejectReceiptCommit, paymentVars,
      PaymentStages, Sequential, OneAtATime, ReadsHold
<1>5. CASE SweepStep
  BY <1>5 DEF SweepStep, MarkOverdueRequest, SweepMark, SweepList, SweepRemind,
              SweepAbort, paymentVars
<1> QED BY <1>2, <1>3, <1>4, <1>5 DEF Next, paymentVars, vars

\* A payment that was made stays of its invoice, and that invoice stays paid.
LEMMA PaymentOfPaidKept ==
  ASSUME Sequential, [Next]_vars, NEW p \in Requests, Made(p),
         invoices[payments[p].invoice].status = "PAID"
  PROVE  invoices'[payments'[p].invoice].status = "PAID"
<1>1. payments'[p].invoice = payments[p].invoice
  BY NextInvoices DEF Sequential, InvoiceStep
<1>2. payments[p].invoice \in InvoiceIds
  BY DEF Sequential, OneAtATime, MadeForInvoice
<1> QED BY <1>1, <1>2, PaidKept

\* The transaction of a receipt's approval pays the invoice.
LEMMA ReceiptPays ==
  ASSUME Sequential, NEW q \in Requests, NEW p \in Requests,
         p = loc[q].payment, Made(p), Undecided(p), ApproveReceiptCommit(q)
  PROVE  /\ payments'[p].status = "APPROVED"
         /\ invoices'[payments'[p].invoice].status = "PAID"
         /\ \A r \in Requests \ {p} : payments'[r] = payments[r]
                                      /\ receipts'[r] = receipts[r]
<1>1. /\ payments \in [Requests -> Payment]
      /\ receipts \in [Requests -> ReceiptStatuses \cup {"NONE"}]
      /\ invoices \in [InvoiceIds -> Invoice]
      /\ payments[p].invoice \in InvoiceIds
  BY DEF Sequential, TypeOK, PaymentsTypeOK, InvoicesTypeOK, OneAtATime,
         MadeForInvoice
<1>2. /\ SetReceipt(p, "APPROVED")
      /\ SetPayment(p, "APPROVED")
      /\ SetInvoice(payments[p].invoice, "PAID")
  BY DEF ApproveReceiptCommit
<1>3. payments'[p].status = "APPROVED" /\ payments'[p].invoice = payments[p].invoice
  BY <1>1, <1>2 DEF SetPayment, Payment
<1>4. invoices'[payments[p].invoice].status = "PAID"
  BY <1>1, <1>2 DEF SetInvoice, Invoice
<1> QED BY <1>1, <1>2, <1>3, <1>4 DEF SetPayment, SetReceipt

\* One request at a time, an approved receipt stands for an approved payment of
\* a paid invoice, whatever requests die: the transaction of its approval moves
\* the three together, and no later decision finds the payment undecided.
THEOREM SequentialReceiptPays ==
  ASSUME Concurrency = 1, IsFiniteSet(Requests)
  PROVE  Spec => []ApprovedReceiptPays
<1>1. Init => ApprovedReceiptPays
  BY DEF Init, ApprovedReceiptPays
<1>2. ASSUME Sequential, ApprovedReceiptPays, [Next]_vars
      PROVE  ApprovedReceiptPays'
  <2> SUFFICES ASSUME NEW p \in Requests, receipts'[p] = "APPROVED"
               PROVE  /\ payments'[p].status = "APPROVED"
                      /\ invoices'[payments'[p].invoice].status = "PAID"
    BY DEF ApprovedReceiptPays
  <2>1. /\ payments \in [Requests -> Payment]
        /\ receipts \in [Requests -> ReceiptStatuses \cup {"NONE"}]
    BY <1>2 DEF Sequential, TypeOK, PaymentsTypeOK
  <2>2. CASE receipts[p] = "APPROVED" /\ payments'[p].status = "APPROVED"
    <3>1. Made(p) /\ invoices[payments[p].invoice].status = "PAID"
      BY <1>2, <2>2 DEF ApprovedReceiptPays, Made
    <3> QED BY <1>2, <2>2, <3>1, PaymentOfPaidKept
  <2>3. CASE UNCHANGED <<payments, receipts>>
    BY <1>2, <2>2, <2>3 DEF ApprovedReceiptPays
  <2>4. ASSUME NEW q \in Requests, CreatePaymentCommit(q)
        PROVE  receipts[p] = "APPROVED" /\ payments'[p].status = "APPROVED"
    <3>1. receipts[q] = "NONE" /\ UNCHANGED receipts
      BY <1>2, <2>4 DEF CreatePaymentCommit, Sequential, ApprovalTrail
    <3> QED BY <1>2, <2>1, <2>4, <3>1 DEF CreatePaymentCommit, ApprovedReceiptPays
  <2>5. ASSUME NEW q \in Requests, NEW r \in Requests, r = loc[q].payment,
               \/ ApprovePayment(q)
               \/ RejectCommit(q) /\ Undecided(r)
               \/ UploadCommit(q)
               \/ RejectReceiptCommit(q)
        PROVE  receipts[p] = "APPROVED" /\ payments'[p].status = "APPROVED"
    BY <1>2, <2>1, <2>5
    DEF ApprovePayment, RejectCommit, UploadCommit, RejectReceiptCommit,
        SetPayment, SetReceipt, Undecided, ApprovedReceiptPays, Payment
  <2>6. ASSUME NEW q \in Requests, NEW r \in Requests, r = loc[q].payment,
               Made(r), Undecided(r), ApproveReceiptCommit(q)
        PROVE  /\ payments'[p].status = "APPROVED"
               /\ invoices'[payments'[p].invoice].status = "PAID"
    <3>1. CASE p = r
      BY <1>2, <2>6, <3>1, ReceiptPays
    <3>2. CASE p # r
      <4>1. receipts[p] = "APPROVED" /\ payments'[p] = payments[p]
        BY <1>2, <2>6, <3>2, ReceiptPays
      <4> QED BY <1>2, <2>2, <4>1 DEF ApprovedReceiptPays
    <3> QED BY <3>1, <3>2
  <2> QED BY <1>2, <2>2, <2>3, <2>4, <2>5, <2>6, DecisionSteps
<1>3. Sequential /\ ApprovedReceiptPays /\ [Next]_vars => ApprovedReceiptPays'
  BY <1>2
<1> QED BY <1>1, <1>3, SequentialInvariant, PTL DEF Spec

\* A direct approval between its updates waits for the second one, as long as
\* its request does not die.
LEMMA DirectApprovalGoesOn ==
  ASSUME TypeOK, [Next]_vars, ~Crashes, NEW q \in Requests,
         pc[q] = "approve_invoice"
  PROVE  ApproveInvoice(q) \/ (pc'[q] = pc[q] /\ loc'[q] = loc[q])
<1>1. pc \in [Requests -> Stages] /\ DOMAIN loc = Requests
  BY DEF TypeOK, RequestsTypeOK
<1>2. ASSUME NEW r \in Requests, r # q, NEW stage, NEW locals,
             Goto(r, stage, locals) \/ Begin(r, stage, locals)
      PROVE  pc'[q] = pc[q] /\ loc'[q] = loc[q]
  BY <1>1, <1>2 DEF Goto, Begin
<1>3. ASSUME NEW r \in Requests, NEW stage, NEW locals, Begin(r, stage, locals)
      PROVE  r # q
  BY <1>3 DEF Begin
<1>4. CASE InvoicesStep
  BY <1>2, <1>3, <1>4 DEF InvoicesStep, CreateInvoice, CancelInvoiceRead,
                          CreatePaymentRead, Idle, runtimeVars
<1>5. CASE PaymentsStep
  BY <1>2, <1>3, <1>5
  DEF PaymentsStep, CancelInvoiceCommit, CreatePaymentCommit, ApproveRead,
      RejectRead, ApprovePayment, ApproveInvoice, RejectCommit, Finish
<1>6. CASE ReceiptsStep
  BY <1>2, <1>3, <1>6
  DEF ReceiptsStep, UploadRead, ApproveReceiptRead, RejectReceiptRead,
      UploadCommit, ApproveReceiptCommit, RejectReceiptCommit, Finish
<1>7. CASE SweepStep
  BY <1>7 DEF SweepStep, MarkOverdueRequest, SweepMark, SweepList, SweepRemind,
              SweepAbort, Idle, runtimeVars
<1> QED BY <1>4, <1>5, <1>6, <1>7 DEF Next, Tick, Abort, vars, runtimeVars

\* One request at a time and none dying, the invoice of an approved payment is
\* paid, or about to be by the request that approved it.
THEOREM SequentialPaymentPays ==
  ASSUME Concurrency = 1, IsFiniteSet(Requests), ~Crashes
  PROVE  Spec => []ApprovedPaymentPays
<1>1. Init => ApprovedPaymentPays
  BY DEF Init, ApprovedPaymentPays, NoPayment
<1>2. ASSUME Sequential, ApprovedPaymentPays, [Next]_vars
      PROVE  ApprovedPaymentPays'
  <2> SUFFICES ASSUME NEW p \in Requests, payments'[p].status = "APPROVED"
               PROVE  \/ invoices'[payments'[p].invoice].status = "PAID"
                      \/ \E q \in Requests :
                           pc'[q] = "approve_invoice" /\ loc'[q].payment = p
    BY DEF ApprovedPaymentPays
  <2>1. payments \in [Requests -> Payment]
    BY <1>2 DEF Sequential, TypeOK, PaymentsTypeOK
  <2>2. CASE payments[p].status = "APPROVED"
    <3>1. Made(p)
      BY <2>2 DEF Made
    <3>2. CASE invoices[payments[p].invoice].status = "PAID"
      BY <1>2, <3>1, <3>2, PaymentOfPaidKept
    <3>3. ASSUME NEW q \in Requests, pc[q] = "approve_invoice", loc[q].payment = p
          PROVE  \/ invoices'[payments'[p].invoice].status = "PAID"
                 \/ pc'[q] = "approve_invoice" /\ loc'[q].payment = p
      <4>1. CASE ApproveInvoice(q)
        <5>1. payments[p].invoice \in InvoiceIds /\ invoices \in [InvoiceIds -> Invoice]
          BY <1>2, <3>1 DEF Sequential, OneAtATime, MadeForInvoice, TypeOK,
                            InvoicesTypeOK
        <5> QED BY <3>3, <4>1, <5>1
                DEF ApproveInvoice, SetInvoice, Invoice, paymentVars
      <4> QED BY <1>2, <3>3, <4>1, DirectApprovalGoesOn DEF Sequential
    <3> QED BY <1>2, <2>2, <3>2, <3>3 DEF ApprovedPaymentPays
  <2>3. ASSUME NEW q \in Requests, NEW r \in Requests, r = loc[q].payment,
               ApprovePayment(q), payments[p].status # "APPROVED"
        PROVE  pc'[q] = "approve_invoice" /\ loc'[q].payment = p
    <3>1. p = r
      BY <2>1, <2>3 DEF ApprovePayment, SetPayment
    <3> QED BY <1>2, <2>3, <3>1 DEF ApprovePayment, Goto, Sequential, TypeOK,
                                    RequestsTypeOK
  <2>4. ASSUME NEW q \in Requests, NEW r \in Requests, r = loc[q].payment,
               Made(r), Undecided(r), ApproveReceiptCommit(q),
               payments[p].status # "APPROVED"
        PROVE  invoices'[payments'[p].invoice].status = "PAID"
    BY <1>2, <2>4, ReceiptPays
  <2>5. ASSUME NEW q \in Requests, NEW r \in Requests, r = loc[q].payment,
               RejectCommit(q) \/ UploadCommit(q) \/ RejectReceiptCommit(q)
        PROVE  payments[p].status = "APPROVED"
    BY <2>1, <2>5
    DEF RejectCommit, UploadCommit, RejectReceiptCommit, SetPayment, Payment
  <2>6. ASSUME NEW q \in Requests, CreatePaymentCommit(q)
        PROVE  payments[p].status = "APPROVED"
    BY <2>1, <2>6 DEF CreatePaymentCommit
  <2> QED BY <1>2, <2>2, <2>3, <2>4, <2>5, <2>6, DecisionSteps
<1>3. Sequential /\ ApprovedPaymentPays /\ [Next]_vars => ApprovedPaymentPays'
  BY <1>2
<1> QED BY <1>1, <1>3, SequentialInvariant, PTL DEF Spec

=============================================================================
