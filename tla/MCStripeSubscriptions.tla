----------------------- MODULE MCStripeSubscriptions -----------------------
(* StripeSubscriptions as TLC runs it.                                     *)
EXTENDS StripeSubscriptions

MCEvents == 1 .. 2

Plain(type) == [type |-> type, metadata |-> FALSE, status |-> "none",
                canceledAt |-> FALSE, atPeriodEnd |-> FALSE]
Subscription(status) == [Plain("customer.subscription") EXCEPT
                         !.metadata = TRUE, !.status = status]

MCContents ==
    {Plain("other"), Plain("invoice.payment_succeeded"),
     Plain("invoice.payment_failed"),
     [Plain("checkout.session.completed") EXCEPT !.metadata = TRUE],
     [Subscription("active") EXCEPT !.atPeriodEnd = TRUE],
     Subscription("canceled"), Subscription("paused")}
=============================================================================
