\* One invoice of the last stage, paid through PayFast and by hand.
CONSTANTS
    n1 = n1  final = final  s1 = s1  s2 = s2
    None = None
    Invoices = {final}
    StageOf <- OneFinal
    Notices = {n1}
    InvoiceOf <- OneNotice
    Slots = {s1, s2}
    MaxDeliveries = 2
    MaxPosted = 1
    MaxRequests = 2
    MaxFaults = 1
SPECIFICATION Spec
SYMMETRY SlotSymmetry
INVARIANTS TypeOK AnsweredIsRecorded AnsweredIsConfirmed ConfirmationsAreOwed HandoffWasPaid
PROPERTIES HandsOverAsAgreed
