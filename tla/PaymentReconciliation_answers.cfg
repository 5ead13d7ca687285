\* The endpoints: one call in a session.
CONSTANTS
    Gross = 1
    MaxAmount = 1
    Calls = {"patch", "mark_paid", "mark_partial_payment",
             "mark_advance_paid", "mark_reserve_pending", "mark_reserve_paid",
             "mark_short_paid", "mark_disputed"}
    LongSessions = FALSE
    Ages = {0, 16, 31, 46, 61, 91}
    ModerateBalance = 1
    LargeBalance = 2
    None = None
SPECIFICATION Spec
INVARIANT AnswersAreStored
