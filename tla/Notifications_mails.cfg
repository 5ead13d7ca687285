\* Three sessions, three requests and two faults.
CONSTANTS
    MaxOpen = 3
    PaymentMails = {"payment_marked_paid"}
    Settings = {"no_recipient", "development", "smtp"}
    MaxChanges = 3
    MaxFaults = 2
SPECIFICATION NotificationsSpec
INVARIANT MailedOnce
PROPERTY UploadsAnnounced
CHECK_DEADLOCK FALSE
