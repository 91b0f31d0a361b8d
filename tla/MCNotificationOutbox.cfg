\* Two purchases of one student, announced by overlapping drains of one row each; one trouble.
CONSTANTS
    Purchases = {1, 2}
    Workers = {w1, w2}
    Addressed = {"student_emailed"}
    Milestones = {1, 2}
    Lease = 1
    Backoff = 1
    AttemptCap = 1
    DrainLimit = 1
    MaxAttempts = 2
    MaxReplays = 1
    MaxFaults = 1
SPECIFICATION Spec
CONSTRAINT OneTrouble
SYMMETRY Symmetry
INVARIANTS InAppOnce DeliveredIsDone MailPerAttempt MilestoneAnnounced
CHECK_DEADLOCK FALSE
