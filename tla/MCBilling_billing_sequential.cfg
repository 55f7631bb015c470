SPECIFICATION Spec
CONSTANTS
  i1 = i1
  i2 = i2
  q1 = q1
  q2 = q2
  q3 = q3
  q4 = q4
  q5 = q5
  Requests = {q1, q2, q3, q4, q5}
  Horizon = 2
  Concurrency = 1
  Crashes = FALSE
  Keep = Keep
  InvoiceIds = {i1, i2}
  NoInvoiceId = NoInvoiceId
  DueDates = {1}
  DayLength = 2
  ReminderWindow = 1
SYMMETRY Symmetry
INVARIANTS
  ApprovedReceiptPays
  ApprovedPaymentPays
PROPERTIES
  PaidStaysPaid
CHECK_DEADLOCK FALSE
