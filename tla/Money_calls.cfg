\* Sessions that make any number of calls, on a payment record or on the
\* invoices, payments and payment method of two customers.
CONSTANTS
    Gross = 1
    MaxAmount = 2
    Calls = {"patch", "mark_paid", "mark_partial_payment",
             "mark_advance_paid", "mark_reserve_pending", "mark_reserve_paid",
             "mark_short_paid", "mark_disputed", "assign_factoring",
             "set_reconciliation_status"}
    LongSessions = TRUE
    Ages = {0, 16, 31, 46, 61, 91}
    ModerateBalance = 1
    LargeBalance = 2
    None = None
    Customers = {c1, c2}
    Totals = {0, 2}
    Amounts = {1, 2, 3, 4}
    MaxInvoices = 2
    MaxPayments = 2
    MaxMethods = 1
SPECIFICATION MCSpec
SYMMETRY CustomerSymmetry
INVARIANTS PaidIsSettled ReportsAgree DashboardReserveIsOwed
           SettledNeedsNothing InvoicesBalance PaidMatchesPayments
