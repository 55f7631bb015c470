------------------------------- MODULE Billing -------------------------------
(***************************************************************************)
(* Invoices, payments and their receipts (InvoicesService,                 *)
(* PaymentsService, ReceiptsService), and the daily financial job.         *)
(* A handler reads a status, decides, and then writes by id.  Approving a  *)
(* payment is two updates: inside the transaction of the receipt's         *)
(* approval they are one step, called by the payments controller they are  *)
(* two.  Access rights, amounts, files and audit rows are left out.        *)
(***************************************************************************)
EXTENDS Runtime

CONSTANTS
  InvoiceIds,
  NoInvoiceId,     \* the invoice of a payment that does not exist
  DueDates,        \* bound: the due dates invoices are created with
  DayLength,       \* units of time in a day
  ReminderWindow   \* how far ahead of the due date a client is reminded

ASSUME BillingAssumption ==
  /\ DueDates \subseteq Nat
  /\ DayLength \in Nat \ {0}
  /\ ReminderWindow \in Nat

VARIABLES
  invoices,   \* the row of each invoice; status "NONE" when there is none
  payments,   \* the row that request p inserted; status "NONE" when none
  receipts,   \* the status of the receipt of payment p; "NONE" when none
  notices,    \* notices[i][t]: PAYMENT_PENDING notifications of i made at t
  marked,     \* the running financial job has marked, and not listed yet
  today,      \* startOfToday of the running financial job
  approved    \* history: the payments that have ever been approved

invoiceVars == <<invoices, notices>>
paymentVars == <<payments, receipts, approved>>
sweepVars == <<marked, today>>
vars == <<runtimeVars, invoiceVars, paymentVars, sweepVars>>

InvoiceStatuses == {"PENDING", "PAID", "OVERDUE", "CANCELLED", "UNDER_REVIEW"}
PaymentStatuses == {"PENDING", "UNDER_REVIEW", "APPROVED", "REJECTED"}
ReceiptStatuses == {"PENDING_REVIEW", "APPROVED", "REJECTED"}

NoInvoice == [status |-> "NONE", dueDate |-> 0]

NoPayment == [status |-> "NONE", invoice |-> NoInvoiceId]

Invoice == [status : InvoiceStatuses \cup {"NONE"}, dueDate : Nat]
Payment == [status : PaymentStatuses \cup {"NONE"},
            invoice : InvoiceIds \cup {NoInvoiceId}]

InvoiceStages == {"cancel_invoice", "insert_payment"}
PaymentStages ==
  {"approve_payment", "approve_invoice", "reject_payment", "upload_receipt",
   "approve_receipt", "reject_receipt"}

InvoiceLocals == [invoice : InvoiceIds]
PaymentLocals == [payment : Requests]

FitsStage(l, stage) ==
  /\ stage \in {"new", "done"} => l = NoLocals
  /\ stage \in InvoiceStages => l \in InvoiceLocals
  /\ stage \in PaymentStages => l \in PaymentLocals

Stages == {"new", "done"} \cup InvoiceStages \cup PaymentStages

RequestsTypeOK ==
  /\ pc \in [Requests -> Stages]
  /\ DOMAIN loc = Requests
  /\ \A q \in Requests : FitsStage(loc[q], pc[q])

PaymentsTypeOK ==
  /\ payments \in [Requests -> Payment]
  /\ receipts \in [Requests -> ReceiptStatuses \cup {"NONE"}]
  /\ approved \subseteq Requests

InvoicesTypeOK ==
  /\ invoices \in [InvoiceIds -> Invoice]
  /\ notices \in [InvoiceIds -> [Times -> Nat]]

SweepTypeOK ==
  /\ now \in Times
  /\ job \subseteq InvoiceIds
  /\ marked \in BOOLEAN
  /\ today \in Nat

TypeOK == RequestsTypeOK /\ PaymentsTypeOK /\ InvoicesTypeOK /\ SweepTypeOK

Init ==
  /\ RuntimeInit
  /\ invoices = [i \in InvoiceIds |-> NoInvoice]
  /\ payments = [p \in Requests |-> NoPayment]
  /\ receipts = [p \in Requests |-> "NONE"]
  /\ notices = [i \in InvoiceIds |-> [t \in Times |-> 0]]
  /\ marked = FALSE
  /\ today = 0
  /\ approved = {}

SetInvoice(i, status) == invoices' = [invoices EXCEPT ![i].status = status]
SetPayment(p, status) == payments' = [payments EXCEPT ![p].status = status]
SetReceipt(p, status) == receipts' = [receipts EXCEPT ![p] = status]
Notify(i) == notices' = [notices EXCEPT ![i][now] = @ + 1]

-----------------------------------------------------------------------------
(* Invoices *)

\* POST /invoices: the row and the notification of the new charge.
CreateInvoice(i, dueDate) ==
  /\ Idle
  /\ invoices[i].status = "NONE"
  /\ invoices' = [invoices EXCEPT ![i] =
                    [status |-> "PENDING", dueDate |-> dueDate]]
  /\ Notify(i)
  /\ UNCHANGED <<paymentVars, sweepVars>>

\* Slip: any invoice may be cancelled.
CancellableAlways(i) == invoices[i].status # "NONE"

CancellableInvoice(i) == invoices[i].status \notin {"NONE", "PAID"}

\* PATCH /invoices/:id/cancel
CancelInvoiceRead(q, i) ==
  /\ Begin(q, "cancel_invoice", [invoice |-> i])
  /\ CancellableInvoice(i)
  /\ UNCHANGED <<invoiceVars, paymentVars, sweepVars>>

CancelInvoiceCommit(q) ==
  /\ pc[q] = "cancel_invoice"
  /\ SetInvoice(loc[q].invoice, "CANCELLED")
  /\ Finish(q)
  /\ UNCHANGED <<notices, paymentVars, sweepVars>>

-----------------------------------------------------------------------------
(* Payments *)

\* POST /payments
CreatePaymentRead(q, i) ==
  /\ Begin(q, "insert_payment", [invoice |-> i])
  /\ invoices[i].status \notin {"NONE", "PAID", "CANCELLED"}
  /\ UNCHANGED <<invoiceVars, paymentVars, sweepVars>>

CreatePaymentCommit(q) ==
  /\ pc[q] = "insert_payment"
  /\ payments' = [payments EXCEPT ![q] =
                    [status |-> "PENDING", invoice |-> loc[q].invoice]]
  /\ Finish(q)
  /\ UNCHANGED <<invoiceVars, receipts, approved, sweepVars>>

\* Slip: a decided payment may be decided again.
UndecidedAlways(p) == payments[p].status # "NONE"

\* The guard of approve and of reject; the other statuses all pass.
Undecided(p) == payments[p].status \notin {"NONE", "APPROVED"}

\* PATCH /payments/:id/approve: no transaction, hence two updates.
ApproveRead(q, p) ==
  /\ Begin(q, "approve_payment", [payment |-> p])
  /\ Undecided(p)
  /\ UNCHANGED <<invoiceVars, paymentVars, sweepVars>>

ApprovePayment(q) ==
  /\ pc[q] = "approve_payment"
  /\ SetPayment(loc[q].payment, "APPROVED")
  /\ approved' = approved \cup {loc[q].payment}
  /\ Goto(q, "approve_invoice", loc[q])
  /\ UNCHANGED <<invoiceVars, receipts, sweepVars>>

ApproveInvoice(q) ==
  /\ pc[q] = "approve_invoice"
  /\ SetInvoice(payments[loc[q].payment].invoice, "PAID")
  /\ Finish(q)
  /\ UNCHANGED <<notices, paymentVars, sweepVars>>

\* PATCH /payments/:id/reject
RejectRead(q, p) ==
  /\ Begin(q, "reject_payment", [payment |-> p])
  /\ Undecided(p)
  /\ UNCHANGED <<invoiceVars, paymentVars, sweepVars>>

RejectCommit(q) ==
  /\ pc[q] = "reject_payment"
  /\ SetPayment(loc[q].payment, "REJECTED")
  /\ Finish(q)
  /\ UNCHANGED <<invoiceVars, receipts, approved, sweepVars>>

-----------------------------------------------------------------------------
(* Receipts *)

Retryable(p) == payments[p].status \in {"PENDING", "REJECTED"}

\* POST /payments/:id/receipt: the file is stored between the two steps.
UploadRead(q, p) ==
  /\ Begin(q, "upload_receipt", [payment |-> p])
  /\ Retryable(p)
  /\ UNCHANGED <<invoiceVars, paymentVars, sweepVars>>

\* Slip: the receipt is given the status of the payment.
UploadOneStatus(q) ==
  /\ pc[q] = "upload_receipt"
  /\ SetReceipt(loc[q].payment, "UNDER_REVIEW")
  /\ SetPayment(loc[q].payment, "UNDER_REVIEW")
  /\ Finish(q)
  /\ UNCHANGED <<invoiceVars, approved, sweepVars>>

\* The transaction: the receipt is inserted or reset, the payment reviewed.
UploadCommit(q) ==
  /\ pc[q] = "upload_receipt"
  /\ SetReceipt(loc[q].payment, "PENDING_REVIEW")
  /\ SetPayment(loc[q].payment, "UNDER_REVIEW")
  /\ Finish(q)
  /\ UNCHANGED <<invoiceVars, approved, sweepVars>>

\* The guard of the receipt's approve and reject.
Reviewable(p) == receipts[p] \notin {"NONE", "APPROVED"}

\* PATCH /payments/:id/receipt/approve
ApproveReceiptRead(q, p) ==
  /\ Begin(q, "approve_receipt", [payment |-> p])
  /\ Reviewable(p)
  /\ UNCHANGED <<invoiceVars, paymentVars, sweepVars>>

\* Slip: the receipt and the invoice are written, the payment is not.
ApproveReceiptOnly(q) ==
  LET p == loc[q].payment IN
  /\ pc[q] = "approve_receipt"
  /\ SetReceipt(p, "APPROVED")
  /\ SetInvoice(payments[p].invoice, "PAID")
  /\ Finish(q)
  /\ UNCHANGED <<notices, payments, approved, sweepVars>>

\* The transaction, rolled back when approve finds the payment approved.
ApproveReceiptCommit(q) ==
  LET p == loc[q].payment IN
  /\ pc[q] = "approve_receipt"
  /\ \/ /\ Undecided(p)
        /\ SetReceipt(p, "APPROVED")
        /\ SetPayment(p, "APPROVED")
        /\ approved' = approved \cup {p}
        /\ SetInvoice(payments[p].invoice, "PAID")
     \/ ~Undecided(p) /\ UNCHANGED <<invoices, paymentVars>>
  /\ Finish(q)
  /\ UNCHANGED <<notices, sweepVars>>

\* PATCH /payments/:id/receipt/reject: the payment's status is not looked at.
RejectReceiptRead(q, p) ==
  /\ Begin(q, "reject_receipt", [payment |-> p])
  /\ Reviewable(p)
  /\ UNCHANGED <<invoiceVars, paymentVars, sweepVars>>

\* Slip: the payment stays under review.
RejectReceiptOnly(q) ==
  /\ pc[q] = "reject_receipt"
  /\ SetReceipt(loc[q].payment, "REJECTED")
  /\ Finish(q)
  /\ UNCHANGED <<invoiceVars, payments, approved, sweepVars>>

RejectReceiptCommit(q) ==
  /\ pc[q] = "reject_receipt"
  /\ SetReceipt(loc[q].payment, "REJECTED")
  /\ SetPayment(loc[q].payment, "PENDING")
  /\ Finish(q)
  /\ UNCHANGED <<invoiceVars, approved, sweepVars>>

-----------------------------------------------------------------------------
(* The daily job: markOverdueInvoices, then remindUpcomingInvoices *)

\* Slip: the status is not part of the condition.
MarkOverdueByDate ==
  invoices' = [i \in InvoiceIds |->
    IF invoices[i].status # "NONE" /\ invoices[i].dueDate < now
    THEN [invoices[i] EXCEPT !.status = "OVERDUE"]
    ELSE invoices[i]]

\* markOverdueInvoices: one updateMany, its condition in the statement.
MarkOverdue ==
  invoices' = [i \in InvoiceIds |->
    IF invoices[i].status = "PENDING" /\ invoices[i].dueDate < now
    THEN [invoices[i] EXCEPT !.status = "OVERDUE"]
    ELSE invoices[i]]

\* POST /invoices/mark-overdue
MarkOverdueRequest ==
  /\ Idle
  /\ MarkOverdue
  /\ UNCHANGED <<notices, paymentVars, sweepVars>>

SweepMark ==
  /\ ~marked /\ job = {}
  /\ CanStart
  /\ MarkOverdue
  /\ marked' = TRUE
  /\ UNCHANGED <<runtimeVars, notices, paymentVars, today>>

DayOf(t) == t \div DayLength

\* Slip: setUTCHours is forgotten.
StartOfNow == now

StartOfToday == DayOf(now) * DayLength

\* The query of the invoices that are due soon.
SweepList ==
  /\ marked
  /\ marked' = FALSE
  /\ today' = StartOfToday
  /\ job' = {i \in InvoiceIds : /\ invoices[i].status = "PENDING"
                                /\ invoices[i].dueDate >= now
                                /\ invoices[i].dueDate <= now + ReminderWindow}
  /\ UNCHANGED <<now, pc, loc, invoiceVars, paymentVars>>

\* The client heard of invoice i since the job's startOfToday.
AlreadyRemindedToday(i) == \E t \in Times : t >= today /\ notices[i][t] > 0

\* One turn of the loop.  Its lookup and its insert are one step, as nothing
\* else notifies of an invoice the query has found.
SweepRemind(i) ==
  /\ i \in job
  /\ IF AlreadyRemindedToday(i) THEN UNCHANGED notices ELSE Notify(i)
  /\ job' = job \ {i}
  /\ UNCHANGED <<now, pc, loc, invoices, paymentVars, sweepVars>>

\* The worker dies; the job is run again from its start.
SweepAbort ==
  /\ Crashes
  /\ marked \/ job # {}
  /\ marked' = FALSE
  /\ job' = {}
  /\ UNCHANGED <<now, pc, loc, invoiceVars, paymentVars, today>>

-----------------------------------------------------------------------------

InvoicesStep ==
  \E i \in InvoiceIds :
    \/ \E dueDate \in DueDates : CreateInvoice(i, dueDate)
    \/ \E q \in Requests : CancelInvoiceRead(q, i) \/ CreatePaymentRead(q, i)

PaymentsStep ==
  \E q \in Requests :
    \/ CancelInvoiceCommit(q)
    \/ CreatePaymentCommit(q)
    \/ \E p \in Requests : ApproveRead(q, p) \/ RejectRead(q, p)
    \/ ApprovePayment(q)
    \/ ApproveInvoice(q)
    \/ RejectCommit(q)

ReceiptsStep ==
  \E q \in Requests :
    \/ \E p \in Requests :
         UploadRead(q, p) \/ ApproveReceiptRead(q, p) \/ RejectReceiptRead(q, p)
    \/ UploadCommit(q)
    \/ ApproveReceiptCommit(q)
    \/ RejectReceiptCommit(q)

SweepStep ==
  \/ MarkOverdueRequest
  \/ SweepMark
  \/ SweepList
  \/ \E i \in InvoiceIds : SweepRemind(i)
  \/ SweepAbort

Next ==
  \/ InvoicesStep
  \/ PaymentsStep
  \/ ReceiptsStep
  \/ SweepStep
  \/ /\ Tick \/ \E q \in Requests : Abort(q)
     /\ UNCHANGED <<invoiceVars, paymentVars, sweepVars>>

Spec == Init /\ [][Next]_vars

-----------------------------------------------------------------------------
(* Safety, whatever is in flight *)

\* A payment that waits for its review has a receipt to review, even when
\* uploads, reviews and direct decisions race: the receipt and the payment
\* are always moved there, and away from there, together.
UnderReviewHasReceipt ==
  \A p \in Requests :
    payments[p].status = "UNDER_REVIEW" => receipts[p] = "PENDING_REVIEW"

\* No invoice is paid but by the approval of a payment of that invoice,
\* whichever of the two ways it was approved and wherever a request died.
PaidByApproval ==
  \A i \in InvoiceIds :
    invoices[i].status = "PAID" =>
      \E p \in approved : payments[p].invoice = i

\* A client hears of an invoice at most once a day, however often the job
\* runs, dies, or goes on after midnight.
NotifiedOncePerDay ==
  \A i \in InvoiceIds, t \in Times, s \in Times :
    DayOf(t) = DayOf(s) => notices[i][t] + (IF s = t THEN 0 ELSE notices[i][s]) <= 1

-----------------------------------------------------------------------------
(* Properties of one request at a time *)

\* An approved receipt stands for an approved payment of a paid invoice.
ApprovedReceiptPays ==
  \A p \in Requests :
    receipts[p] = "APPROVED" =>
      /\ payments[p].status = "APPROVED"
      /\ invoices[payments[p].invoice].status = "PAID"

\* The invoice of an approved payment is paid, but for the instant between
\* the two updates of a direct approval.
ApprovedPaymentPays ==
  \A p \in Requests :
    payments[p].status = "APPROVED" =>
      \/ invoices[payments[p].invoice].status = "PAID"
      \/ \E q \in Requests : pc[q] = "approve_invoice" /\ loc[q].payment = p

\* A paid invoice stays paid: cancellation and the daily job leave it alone.
PaidStaysPaid ==
  [][\A i \in InvoiceIds :
       invoices[i].status = "PAID" => invoices'[i].status = "PAID"]_vars

=============================================================================
