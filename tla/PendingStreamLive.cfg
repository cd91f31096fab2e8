CONSTANTS
    Request = {r1, r2}
    Client = {c1, c2}
    Outcome = {}
SPECIFICATION WithoutSnapshots
PROPERTIES
    SubmissionAnswered
    RecordDelivered
    DeadSubscriberDropped
CHECK_DEADLOCK FALSE
