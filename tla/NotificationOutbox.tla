-------------------------- MODULE NotificationOutbox --------------------------
(***************************************************************************)
(* The commerce notification outbox.  Settlement leaves one row per        *)
(* purchase; an emission claims the row under a lease, reads which of its  *)
(* five steps are still to be done, performs them one after another, and   *)
(* records the result.  Emissions start from a settlement, from a replayed *)
(* webhook, and from a drain that runs every minute and may overlap the    *)
(* one before it.  No transaction spans an emission: a worker may be slow, *)
(* lose its lease or die between any two statements.                       *)
(***************************************************************************)
EXTENDS Integers, Sequences, FiniteSetsExt

CONSTANTS Purchases,    \* outbox rows, numbered by created_at
          Workers,      \* concurrent emissions
          Addressed,    \* mail steps whose recipient has an address
          Milestones,   \* savings milestones; every purchase saves one unit
          Lease,        \* ticks before a processing row may be taken over (5 minutes)
          Backoff,      \* ticks per attempt before a failed row is drained (2 minutes)
          AttemptCap,   \* attempts after which a drain leaves a failed row alone (8)
          DrainLimit,   \* rows one drain picks up (25)
          MaxAttempts,  \* bound on claims: emissions slower than their lease have none
          MaxReplays,   \* bound on replayed webhooks
          MaxFaults     \* bound on crashes and on failing claims and reads

ASSUME OutboxAssumption ==
    /\ Purchases \subseteq Nat /\ IsFiniteSet(Purchases)
    /\ Addressed \subseteq {"student_emailed", "vendor_emailed"}
    /\ Milestones \subseteq Nat \ {0}
    /\ Lease \in Nat /\ Backoff \in Nat \ {0}
    /\ AttemptCap \in Nat \ {0} /\ DrainLimit \in Nat \ {0}
    /\ MaxAttempts \in Nat /\ MaxReplays \in Nat /\ MaxFaults \in Nat

VARIABLES
    row,       \* commerce_notification_outbox: status, attempts, ticks since it was stamped
    flags,     \* steps recorded as done on the row
    worker,    \* emissions and drains
    inbox,     \* in-app notifications published per purchase and step
    mails,     \* mails that left per purchase and step
    announced, \* savings_milestones
    replays, faults  \* counted up to MaxReplays and MaxFaults

vars == <<row, flags, worker, inbox, mails, announced, replays, faults>>

\* The steps of an emission in the order it performs them.
Rank == [student_notified |-> 1, savings_notified |-> 2, student_emailed |-> 3,
         vendor_notified |-> 4, vendor_emailed |-> 5]
Mails == Addressed
Notices == {"student_notified", "vendor_notified"}
Steps == Notices \cup Mails \cup {"savings_notified"}

\* Ticks are counted up to the longest wait that is ever compared with.
Horizon == 1 + (IF Lease > Backoff * AttemptCap THEN Lease ELSE Backoff * AttemptCap)

Free == [pc |-> "free", list |-> <<>>, tx |-> 0, todo |-> {}, total |-> 0, failed |-> FALSE]

RowType == [status : {"absent", "pending", "processing", "failed", "delivered"},
            attempts : Nat, age : 0..Horizon]
WorkerType == [pc : {"free", "claimed", "sending", "marking"},
               list : Seq(Purchases), tx : Purchases \cup {0},
               todo : SUBSET Steps, total : Nat, failed : BOOLEAN]

TypeOK ==
    /\ row \in [Purchases -> RowType]
    /\ flags \in [Purchases -> SUBSET Steps]
    /\ worker \in [Workers -> WorkerType]
    /\ \A w \in Workers : worker[w].pc \in {"claimed", "sending", "marking"} =>
          worker[w].tx \in Purchases
    /\ inbox \in [Purchases -> [Notices -> Nat]]
    /\ mails \in [Purchases -> [Mails -> Nat]]
    /\ announced \subseteq Milestones
    /\ replays \in Nat /\ faults \in Nat

Init ==
    /\ row = [p \in Purchases |-> [status |-> "absent", attempts |-> 0, age |-> 0]]
    /\ flags = [p \in Purchases |-> {}]
    /\ worker = [w \in Workers |-> Free]
    /\ inbox = [p \in Purchases |-> [s \in Notices |-> 0]]
    /\ mails = [p \in Purchases |-> [s \in Mails |-> 0]]
    /\ announced = {}
    /\ replays = 0 /\ faults = 0

-----------------------------------------------------------------------------
Enqueued == {p \in Purchases : row[p].status # "absent"}

\* savings_stats.total_savings of the student all purchases belong to.
Total == Cardinality(Enqueued)

\* The settlement that completes a purchase inserts its row.
Enqueue(p) ==
    /\ row[p].status = "absent"
    /\ \A q \in Purchases : q < p => row[q].status # "absent"
    /\ row' = [row EXCEPT ![p].status = "pending"]
    /\ UNCHANGED <<flags, worker, inbox, mails, announced, replays, faults>>

\* What the claiming UPDATE accepts: it looks at neither attempts nor backoff.
Claimable(p) ==
    \/ row[p].status \in {"pending", "failed"}
    \/ row[p].status = "processing" /\ row[p].age > Lease

\* Mutated: a row whose worker died is never picked up again.
DueForgetsLost(p) ==
    \/ row[p].status = "pending"
    \/ row[p].status = "failed" /\ row[p].attempts < AttemptCap /\ row[p].age > Backoff

\* What a drain selects.
Due(p) ==
    \/ row[p].status = "pending"
    \/ /\ row[p].status = "failed"
       /\ row[p].attempts < AttemptCap
       /\ row[p].age > Backoff * (IF row[p].attempts > 1 THEN row[p].attempts ELSE 1)
    \/ row[p].status = "processing" /\ row[p].age > Lease

\* A drain takes the rows of its list one after another, in the order of the SELECT.
GoOn(list) == [Free EXCEPT !.list = list]

\* ORDER BY pending first, then created_at.
Before(p, q) ==
    \/ row[p].status = "pending" /\ row[q].status # "pending"
    \/ (row[p].status = "pending" <=> row[q].status = "pending") /\ p < q

Drain(w) ==
    LET due == {p \in Purchases : Due(p)}
        n == IF Cardinality(due) < DrainLimit THEN Cardinality(due) ELSE DrainLimit
    IN
    /\ worker[w] = Free
    /\ due # {}
    /\ \E list \in [1..n -> due] :
          /\ \A i, j \in 1..n : i < j => Before(list[i], list[j])
          /\ \A q \in due : (\A i \in 1..n : list[i] # q) => Before(list[n], q)
          /\ worker' = [worker EXCEPT ![w] = GoOn(list)]
    /\ UNCHANGED <<row, flags, inbox, mails, announced, replays, faults>>

\* The catch clause: the row is to be tried again.
FailRow(p) == row' = [row EXCEPT ![p].status = "failed", ![p].age = 0]

\* The end of one emission.
Resume(w) == GoOn(worker[w].list)

Claim(w, p, list) ==
    /\ row[p].attempts < MaxAttempts
    /\ row' = [row EXCEPT ![p] = [status |-> "processing", attempts |-> @.attempts + 1, age |-> 0]]
    /\ worker' = [worker EXCEPT ![w] = [Free EXCEPT !.pc = "claimed", !.tx = p, !.list = list]]
    /\ UNCHANGED <<flags, inbox, mails, announced, faults>>

\* A drain reaches a row of its list, which others may have moved on meanwhile.
DrainClaim(w) ==
    LET list == worker[w].list IN
    /\ worker[w].pc = "free" /\ list # <<>>
    /\ IF Claimable(Head(list))
       THEN Claim(w, Head(list), Tail(list))
       ELSE /\ worker' = [worker EXCEPT ![w] = GoOn(Tail(list))]
            /\ UNCHANGED <<row, flags, inbox, mails, announced, faults>>
    /\ UNCHANGED replays

\* A settlement, or the replay of one, emits directly; a row that cannot be
\* claimed leaves nothing to do.
EmitDirectly(w, p) ==
    /\ worker[w] = Free
    /\ replays < MaxReplays
    /\ Claimable(p)
    /\ Claim(w, p, <<>>)
    /\ replays' = replays + 1

\* The claiming UPDATE itself fails, in a drain or in a replay: the catch clause
\* marks a row that was never claimed, whatever its status is.
ClaimFails(w, p) ==
    /\ row[p].status # "absent"
    /\ \/ worker[w] = Free /\ UNCHANGED worker
       \/ /\ worker[w].pc = "free" /\ worker[w].list # <<>> /\ p = Head(worker[w].list)
          /\ worker' = [worker EXCEPT ![w] = GoOn(Tail(worker[w].list))]
    /\ faults < MaxFaults
    /\ faults' = faults + 1
    /\ FailRow(p)
    /\ UNCHANGED <<flags, inbox, mails, announced, replays>>

\* The joined SELECT fails.
ReadFails(w) ==
    /\ worker[w].pc = "claimed"
    /\ faults < MaxFaults
    /\ faults' = faults + 1
    /\ FailRow(worker[w].tx)
    /\ worker' = [worker EXCEPT ![w] = Resume(w)]
    /\ UNCHANGED <<flags, inbox, mails, announced, replays>>

\* The joined SELECT: which steps are open, and the savings total right now.
ReadRow(w) ==
    LET p == worker[w].tx IN
    /\ worker[w].pc = "claimed"
    /\ worker' = [worker EXCEPT ![w].pc = "sending", ![w].todo = Steps \ flags[p],
                                ![w].total = Total]
    /\ UNCHANGED <<row, flags, inbox, mails, announced, replays, faults>>

\* Mutated: the notification does not depend on the marker.
NotifyUnclaimed(w, s) ==
    LET p == worker[w].tx IN
    /\ s \in Notices
    /\ inbox' = [inbox EXCEPT ![p][s] = @ + 1]
    /\ flags' = [flags EXCEPT ![p] = @ \cup {s}]
    /\ worker' = [worker EXCEPT ![w].todo = @ \ {s}]
    /\ UNCHANGED <<row, mails, announced, replays, faults>>

\* Marker and notification are one statement, so a step done by another
\* emission since the SELECT publishes nothing.
Notify(w, s) ==
    LET p == worker[w].tx IN
    /\ s \in Notices
    /\ inbox' = [inbox EXCEPT ![p][s] = IF s \in flags[p] THEN @ ELSE @ + 1]
    /\ flags' = [flags EXCEPT ![p] = @ \cup {s}]
    /\ worker' = [worker EXCEPT ![w].todo = @ \ {s}]
    /\ UNCHANGED <<row, mails, announced, replays, faults>>

\* The highest milestone the savings total read with the row has reached.
Reached(total) == {m \in Milestones : m <= total}

\* Mutated: the lowest milestone reached is taken.
AnnounceLowest(w, s) ==
    /\ s = "savings_notified"
    /\ announced' = announced \cup
          {m \in Reached(worker[w].total) : \A n \in Reached(worker[w].total) : m <= n}
    /\ worker' = [worker EXCEPT ![w].pc = "marking"]
    /\ UNCHANGED <<row, flags, inbox, mails, replays, faults>>

AnnounceMilestone(w, s) ==
    /\ s = "savings_notified"
    /\ announced' = announced \cup
          {m \in Reached(worker[w].total) : \A n \in Reached(worker[w].total) : n <= m}
    /\ worker' = [worker EXCEPT ![w].pc = "marking"]
    /\ UNCHANGED <<row, flags, inbox, mails, replays, faults>>

\* The mail leaves before the row says so.
SendMail(w, s) ==
    LET p == worker[w].tx IN
    /\ s \in Mails
    /\ mails' = [mails EXCEPT ![p][s] = @ + 1]
    /\ worker' = [worker EXCEPT ![w].pc = "marking"]
    /\ UNCHANGED <<row, flags, inbox, announced, replays, faults>>

\* Mutated: a failed step is tried again within the attempt.
FailStepRetries(w, s) ==
    /\ worker' = [worker EXCEPT ![w].pc = "sending", ![w].failed = TRUE]
    /\ UNCHANGED <<row, flags, inbox, mails, announced, replays, faults>>

\* A step throws: the provider refused the mail or a statement failed.
FailStep(w, s) ==
    /\ worker' = [worker EXCEPT ![w].pc = "sending", ![w].todo = @ \ {s}, ![w].failed = TRUE]
    /\ UNCHANGED <<row, flags, inbox, mails, announced, replays, faults>>

NextStep(w, s) == s \in worker[w].todo /\ \A x \in worker[w].todo : Rank[s] <= Rank[x]

Perform(w) ==
    /\ worker[w].pc = "sending"
    /\ \E s \in Steps :
          /\ NextStep(w, s)
          /\ Notify(w, s) \/ AnnounceMilestone(w, s) \/ SendMail(w, s) \/ FailStep(w, s)

\* The flag of a mail or milestone step is a statement of its own.
Mark(w) ==
    LET p == worker[w].tx IN
    /\ worker[w].pc = "marking"
    /\ \E s \in Steps :
          /\ NextStep(w, s)
          /\ \/ /\ flags' = [flags EXCEPT ![p] = @ \cup {s}]
                /\ worker' = [worker EXCEPT ![w].pc = "sending", ![w].todo = @ \ {s}]
                /\ UNCHANGED <<row, inbox, mails, announced, replays, faults>>
             \/ FailStep(w, s)

\* Mutated: failures of single steps are forgotten.
FinishBlindly(w) ==
    LET p == worker[w].tx IN
    /\ worker[w].pc = "sending" /\ worker[w].todo = {}
    /\ row' = [row EXCEPT ![p].status = "delivered"]
    /\ worker' = [worker EXCEPT ![w] = Resume(w)]
    /\ UNCHANGED <<flags, inbox, mails, announced, replays, faults>>

\* Every step was tried.  Neither UPDATE checks that the lease is still held;
\* when the one for "delivered" fails, the one for "failed" is tried.
Finish(w) ==
    LET p == worker[w].tx IN
    /\ worker[w].pc = "sending" /\ worker[w].todo = {}
    /\ \/ /\ ~worker[w].failed
          /\ row' = [row EXCEPT ![p].status = "delivered"]
       \/ FailRow(p)
    /\ worker' = [worker EXCEPT ![w] = Resume(w)]
    /\ UNCHANGED <<flags, inbox, mails, announced, replays, faults>>

\* The process dies, or the UPDATE of the catch clause throws and ends the
\* drain with it: rows stay as they are.
Crash(w) ==
    /\ worker[w] # Free
    /\ faults < MaxFaults
    /\ faults' = faults + 1
    /\ worker' = [worker EXCEPT ![w] = Free]
    /\ UNCHANGED <<row, flags, inbox, mails, announced, replays>>

Tick ==
    /\ row' = [p \in Purchases |->
                  [row[p] EXCEPT !.age = IF @ < Horizon /\ row[p].status \in {"processing", "failed"}
                                         THEN @ + 1 ELSE @]]
    /\ UNCHANGED <<flags, worker, inbox, mails, announced, replays, faults>>

Next ==
    \/ \E p \in Purchases : Enqueue(p)
    \/ \E w \in Workers, p \in Purchases : EmitDirectly(w, p) \/ ClaimFails(w, p)
    \/ \E w \in Workers : \/ Drain(w) \/ DrainClaim(w) \/ ReadRow(w) \/ ReadFails(w)
                          \/ Perform(w) \/ Mark(w) \/ Finish(w) \/ Crash(w)
    \/ Tick

Spec == Init /\ [][Next]_vars

\* The drain runs every minute, time passes, and a worker that lives goes on.
Fairness ==
    /\ WF_vars(Tick)
    /\ \A w \in Workers :
          /\ WF_vars(Drain(w)) /\ WF_vars(DrainClaim(w)) /\ WF_vars(ReadRow(w))
          /\ WF_vars(Perform(w)) /\ WF_vars(Mark(w)) /\ WF_vars(Finish(w))

FairSpec == Spec /\ Fairness

-----------------------------------------------------------------------------
\* However many emissions of a purchase overlap, its student and its vendor
\* find it once in their inbox, and exactly when the row says so.
InAppOnce ==
    \A p \in Purchases, s \in Notices :
        inbox[p][s] = IF s \in flags[p] THEN 1 ELSE 0

\* "Delivered" is never claimed for a purchase with a step undone: both mails
\* have left and both notices are published, whoever wrote the status.
DeliveredIsDone ==
    \A p \in Purchases : row[p].status = "delivered" =>
        /\ flags[p] = Steps
        /\ \A s \in Mails : mails[p][s] >= 1

\* Mail is at-least-once; the price is bounded by one copy per attempt, also
\* when leases are lost and slow emissions overlap their successors.
MailPerAttempt ==
    \A p \in Purchases, s \in Mails : mails[p][s] <= row[p].attempts

\* Once every purchase so far is delivered, the highest milestone reached has
\* been announced, although each emission saw only an older total.
MilestoneAnnounced ==
    (\A p \in Enqueued : row[p].status = "delivered") =>
        \A m \in Reached(Total) : (\A n \in Reached(Total) : n <= m) => m \in announced

\* A settled row stays delivered, or out of a drain's reach with its attempts used.
AtRest(p) == \/ row[p].status = "delivered"
             \/ row[p].status = "failed" /\ row[p].attempts >= AttemptCap

\* No purchase is forgotten: after faults, lost leases and failed steps every
\* row comes to rest for good.
EveryRowRests == \A p \in Purchases : row[p].status = "pending" ~> []AtRest(p)
=============================================================================
