----------------------- MODULE NotificationOutboxProofs -----------------------
(***************************************************************************)
(* Machine-checked proofs about NotificationOutbox, for any purchases,     *)
(* workers, addresses and bounds.                                          *)
(***************************************************************************)
EXTENDS NotificationOutbox, FiniteSetTheorems, SequenceTheorems, TLAPS

LEMMA HorizonNat == Horizon \in Nat
  BY OutboxAssumption DEF Horizon

\* The number of enqueued purchases, and so the savings total, is a number.
LEMMA TotalNat == ASSUME TypeOK PROVE Total \in Nat
  BY OutboxAssumption, FS_Subset, FS_CardinalityType DEF Total, Enqueued, TypeOK

\* A worker that starts over is well formed.
LEMMA FreeTyped ==
    ASSUME NEW pc \in {"free", "claimed", "sending", "marking"},
           NEW list \in Seq(Purchases), NEW tx \in Purchases
    PROVE  /\ [Free EXCEPT !.pc = pc, !.tx = tx, !.list = list] \in WorkerType
           /\ [Free EXCEPT !.pc = pc, !.tx = tx, !.list = list].tx = tx
  BY DEF WorkerType, Free

\* A worker stays well formed, and on its purchase, whichever of its other
\* fields a step replaces.
LEMMA SetPc ==
    ASSUME NEW r \in WorkerType, NEW pc \in {"free", "claimed", "sending", "marking"}
    PROVE  /\ [r EXCEPT !.pc = pc] \in WorkerType
           /\ [r EXCEPT !.pc = pc].tx = r.tx
  BY DEF WorkerType

LEMMA SetTodo ==
    ASSUME NEW r \in WorkerType, NEW todo \in SUBSET Steps
    PROVE  /\ [r EXCEPT !.todo = todo] \in WorkerType
           /\ [r EXCEPT !.todo = todo].tx = r.tx
  BY DEF WorkerType

\* A worker between two emissions is free, with what is left of its list.
LEMMA GoOnTyped ==
    ASSUME NEW list \in Seq(Purchases)
    PROVE  GoOn(list) \in WorkerType
  BY DEF WorkerType, Free, GoOn

LEMMA GoOnFree == \A list : GoOn(list).pc = "free"
  BY DEF Free, GoOn

LEMMA SendTodo ==
    ASSUME NEW r \in WorkerType, NEW todo \in SUBSET Steps
    PROVE  /\ [r EXCEPT !.pc = "sending", !.todo = todo] \in WorkerType
           /\ [r EXCEPT !.pc = "sending", !.todo = todo].tx = r.tx
  BY DEF WorkerType

LEMMA SendTotal ==
    ASSUME NEW r \in WorkerType, NEW todo \in SUBSET Steps, NEW total \in Nat
    PROVE  /\ [r EXCEPT !.pc = "sending", !.todo = todo, !.total = total] \in WorkerType
           /\ [r EXCEPT !.pc = "sending", !.todo = todo, !.total = total].tx = r.tx
  BY DEF WorkerType

LEMMA SendFailed ==
    ASSUME NEW r \in WorkerType, NEW todo \in SUBSET Steps
    PROVE  /\ [r EXCEPT !.pc = "sending", !.todo = todo, !.failed = TRUE] \in WorkerType
           /\ [r EXCEPT !.pc = "sending", !.todo = todo, !.failed = TRUE].tx = r.tx
  BY DEF WorkerType

\* The fields of a worker.
LEMMA WorkerFields ==
    ASSUME NEW r \in WorkerType
    PROVE  /\ r.pc \in {"free", "claimed", "sending", "marking"}
           /\ r.list \in Seq(Purchases) /\ r.todo \subseteq Steps
           /\ r.total \in Nat /\ r.failed \in BOOLEAN
  BY DEF WorkerType

\* So does a row.
LEMMA RowTyped ==
    ASSUME NEW r \in RowType, NEW age \in 0..Horizon,
           NEW status \in {"pending", "processing", "failed", "delivered"}
    PROVE  /\ [r EXCEPT !.status = status] \in RowType
           /\ [r EXCEPT !.status = status, !.age = age] \in RowType
           /\ [r EXCEPT !.age = age] \in RowType
           /\ [status |-> status, attempts |-> r.attempts + 1, age |-> age] \in RowType
<1>1. r.attempts + 1 \in Nat
  BY DEF RowType
<1> QED
  BY <1>1 DEF RowType

\* What is left of the list of a drain.
LEMMA ListTyped ==
    ASSUME TypeOK, NEW w \in Workers, worker[w].list # <<>>
    PROVE  Head(worker[w].list) \in Purchases /\ Tail(worker[w].list) \in Seq(Purchases)
<1>1. worker[w].list \in Seq(Purchases)
  BY WorkerFields DEF TypeOK
<1> QED
  BY <1>1, HeadTailProperties

LEMMA DrainList ==
    ASSUME TypeOK, NEW w \in Workers, Drain(w)
    PROVE  \E list \in Seq(Purchases) : worker' = [worker EXCEPT ![w] = GoOn(list)]
<1> DEFINE due == {p \in Purchases : Due(p)}
           n == IF Cardinality(due) < DrainLimit THEN Cardinality(due) ELSE DrainLimit
<1>1. n \in Nat
  BY OutboxAssumption, FS_Subset, FS_CardinalityType
<1>2. PICK list \in [1..n -> due] : worker' = [worker EXCEPT ![w] = GoOn(list)]
  BY DEF Drain
<1>3. due \subseteq Purchases
  OBVIOUS
<1> HIDE DEF due, n
<1>4. list \in [1..n -> Purchases]
  BY <1>2, <1>3
<1>5. list \in Seq(Purchases)
  BY <1>1, <1>4, SeqDef
<1> QED
  BY <1>2, <1>5

\* The type invariant: rows, leases, workers and counters stay well formed.
THEOREM Typed == Spec => []TypeOK
<1> USE OutboxAssumption, HorizonNat
<1>1. Init => TypeOK
  BY DEF Init, TypeOK, Free, RowType, WorkerType
<1>2. TypeOK /\ [Next]_vars => TypeOK'
  <2> SUFFICES ASSUME TypeOK, [Next]_vars PROVE TypeOK'
    OBVIOUS
  <2> USE DEF TypeOK
  <2>0. 0 \in 0..Horizon
    OBVIOUS
  <2>1. ASSUME NEW p \in Purchases, Enqueue(p) PROVE TypeOK'
    BY <2>1, RowTyped, <2>0 DEF Enqueue
  <2>2. ASSUME NEW w \in Workers, NEW p \in Purchases, NEW list \in Seq(Purchases),
               Claim(w, p, list), replays' \in Nat
        PROVE TypeOK'
    <3> DEFINE r == [status |-> "processing", attempts |-> row[p].attempts + 1, age |-> 0]
               f == [Free EXCEPT !.pc = "claimed", !.tx = p, !.list = list]
    <3>1. r \in RowType
      BY <2>0, RowTyped
    <3>2. f \in WorkerType /\ f.tx = p
      BY FreeTyped DEF Free
    <3>3. /\ row' = [row EXCEPT ![p] = r] /\ worker' = [worker EXCEPT ![w] = f]
          /\ UNCHANGED <<flags, inbox, mails, announced, faults>>
      BY <2>2 DEF Claim
    <3> HIDE DEF r, f
    <3> QED
      BY <2>2, <3>1, <3>2, <3>3
  <2>3. ASSUME NEW w \in Workers, NEW p \in Purchases, EmitDirectly(w, p) PROVE TypeOK'
    <3>1. <<>> \in Seq(Purchases) /\ replays' \in Nat
      BY <2>3 DEF EmitDirectly
    <3> QED
      BY <2>2, <2>3, <3>1 DEF EmitDirectly
  <2>4. ASSUME NEW w \in Workers, NEW f \in WorkerType, worker' = [worker EXCEPT ![w] = f],
               f.pc \in {"claimed", "sending", "marking"} => f.tx \in Purchases,
               row' \in [Purchases -> RowType], flags' \in [Purchases -> SUBSET Steps],
               inbox' \in [Purchases -> [Notices -> Nat]],
               mails' \in [Purchases -> [Mails -> Nat]],
               announced' \subseteq Milestones, replays' \in Nat, faults' \in Nat
        PROVE TypeOK'
    BY <2>4
  <2>16. ASSUME NEW w \in Workers, NEW list \in Seq(Purchases),
                worker' = [worker EXCEPT ![w] = GoOn(list)],
                row' \in [Purchases -> RowType], UNCHANGED <<flags, inbox, mails, announced>>,
                replays' \in Nat, faults' \in Nat
         PROVE TypeOK'
    <3>1. PICK f \in WorkerType : f = GoOn(list) /\ f.pc = "free"
      BY GoOnTyped, GoOnFree
    <3> QED
      BY <2>4, <2>16, <3>1
  <2>17. ASSUME NEW p \in Purchases, FailRow(p) PROVE row' \in [Purchases -> RowType]
    <3>1. row[p] \in RowType
      OBVIOUS
    <3>2. [row[p] EXCEPT !.status = "failed", !.age = 0] \in RowType
      BY <2>0, <3>1 DEF RowType
    <3> QED
      BY <2>17, <3>2 DEF FailRow
  <2>18. ASSUME NEW w \in Workers, NEW p \in Purchases, ClaimFails(w, p) PROVE TypeOK'
    <3>1. row' \in [Purchases -> RowType] /\ faults' \in Nat
          /\ UNCHANGED <<flags, inbox, mails, announced, replays>>
      BY <2>17, <2>18 DEF ClaimFails
    <3>2. CASE UNCHANGED worker
      BY <3>1, <3>2
    <3>3. CASE /\ worker[w].list # <<>>
               /\ worker' = [worker EXCEPT ![w] = GoOn(Tail(worker[w].list))]
      <4>1. Tail(worker[w].list) \in Seq(Purchases)
        BY <3>3, ListTyped
      <4> QED
        BY <2>16, <3>1, <3>3, <4>1
    <3> QED
      BY <2>18, <3>2, <3>3 DEF ClaimFails
  <2>19. ASSUME NEW w \in Workers PROVE Resume(w) \in WorkerType /\ Resume(w).pc = "free"
    <3>1. worker[w].list \in Seq(Purchases)
      BY WorkerFields
    <3> QED
      BY <3>1, GoOnTyped, GoOnFree DEF Resume
  <2>20. ASSUME NEW w \in Workers, ReadFails(w) PROVE TypeOK'
    <3>1. worker[w].tx \in Purchases
      BY <2>20 DEF ReadFails
    <3>2. row' \in [Purchases -> RowType]
      BY <2>17, <2>20, <3>1 DEF ReadFails
    <3>3. PICK f \in WorkerType : f = Resume(w) /\ f.pc = "free"
      BY <2>19
    <3>4. worker' = [worker EXCEPT ![w] = f] /\ faults' \in Nat
      BY <2>20, <3>3 DEF ReadFails
    <3> QED
      BY <2>4, <2>20, <3>2, <3>3, <3>4 DEF ReadFails
  <2>5. ASSUME NEW w \in Workers, Drain(w) PROVE TypeOK'
    <3>1. PICK list \in Seq(Purchases) : worker' = [worker EXCEPT ![w] = GoOn(list)]
      BY <2>5, DrainList
    <3> QED
      BY <2>5, <2>16, <3>1 DEF Drain
  <2>6. ASSUME NEW w \in Workers, DrainClaim(w) PROVE TypeOK'
    <3>1. Head(worker[w].list) \in Purchases /\ Tail(worker[w].list) \in Seq(Purchases)
      BY <2>6, ListTyped DEF DrainClaim
    <3>2. CASE Claimable(Head(worker[w].list))
      BY <2>2, <2>6, <3>1, <3>2 DEF DrainClaim
    <3>3. CASE ~Claimable(Head(worker[w].list))
      BY <2>6, <2>16, <3>1, <3>3 DEF DrainClaim
    <3> QED
      BY <3>2, <3>3
  <2>7. ASSUME NEW w \in Workers, ReadRow(w) PROVE TypeOK'
    <3> DEFINE f == [worker[w] EXCEPT !.pc = "sending", !.todo = Steps \ flags[worker[w].tx],
                                      !.total = Total]
    <3>1. f \in WorkerType /\ f.tx = worker[w].tx
      <4>1. worker[w] \in WorkerType /\ Steps \ flags[worker[w].tx] \in SUBSET Steps
        OBVIOUS
      <4> QED
        BY <4>1, SendTotal, TotalNat
    <3>2. worker' = [worker EXCEPT ![w] = f]
      BY <2>7 DEF ReadRow
    <3> HIDE DEF f
    <3> QED
      BY <2>4, <2>7, <3>1, <3>2 DEF ReadRow
  <2>8. ASSUME NEW w \in Workers, NEW s \in Steps, FailStep(w, s),
               worker[w].pc \in {"sending", "marking"}
        PROVE TypeOK'
    <3> DEFINE f == [worker[w] EXCEPT !.pc = "sending", !.todo = worker[w].todo \ {s},
                                      !.failed = TRUE]
    <3>1. worker[w] \in WorkerType /\ worker[w].todo \ {s} \in SUBSET Steps
      BY WorkerFields
    <3>2. f \in WorkerType /\ f.tx = worker[w].tx
      BY <3>1, SendFailed
    <3>3. worker' = [worker EXCEPT ![w] = f]
      BY <2>8 DEF FailStep
    <3> HIDE DEF f
    <3> QED
      BY <2>4, <2>8, <3>2, <3>3 DEF FailStep
  <2>9. ASSUME NEW w \in Workers, NEW s \in Steps, worker[w].pc = "sending",
               Notify(w, s) \/ AnnounceMilestone(w, s) \/ SendMail(w, s)
        PROVE TypeOK'
    <3> DEFINE p == worker[w].tx
               f == [worker[w] EXCEPT !.todo = worker[w].todo \ {s}]
               g == [worker[w] EXCEPT !.pc = "marking"]
    <3>1. worker[w] \in WorkerType /\ worker[w].todo \ {s} \in SUBSET Steps /\ p \in Purchases
      BY <2>9, WorkerFields
    <3>2. f \in WorkerType /\ f.tx = p /\ g \in WorkerType /\ g.tx = p
      BY <3>1, SetTodo, SetPc
    <3>3. CASE Notify(w, s)
      <4>1. inbox' \in [Purchases -> [Notices -> Nat]] /\ flags' \in [Purchases -> SUBSET Steps]
        BY <3>1, <3>3 DEF Notify
      <4>2. worker' = [worker EXCEPT ![w] = f]
        BY <3>3 DEF Notify
      <4> HIDE DEF f
      <4> QED
        BY <2>4, <3>1, <3>2, <3>3, <4>1, <4>2 DEF Notify
    <3>4. CASE AnnounceMilestone(w, s)
      <4>1. announced' \subseteq Milestones
        BY <3>4 DEF AnnounceMilestone, Reached
      <4>2. worker' = [worker EXCEPT ![w] = g]
        BY <3>4 DEF AnnounceMilestone
      <4> HIDE DEF g
      <4> QED
        BY <2>4, <3>1, <3>2, <3>4, <4>1, <4>2 DEF AnnounceMilestone
    <3>5. CASE SendMail(w, s)
      <4>1. mails' \in [Purchases -> [Mails -> Nat]]
        BY <3>1, <3>5 DEF SendMail
      <4>2. worker' = [worker EXCEPT ![w] = g]
        BY <3>5 DEF SendMail
      <4> HIDE DEF g
      <4> QED
        BY <2>4, <3>1, <3>2, <3>5, <4>1, <4>2 DEF SendMail
    <3> QED
      BY <2>9, <3>3, <3>4, <3>5
  <2>10. ASSUME NEW w \in Workers, Perform(w) PROVE TypeOK'
    BY <2>8, <2>9, <2>10 DEF Perform
  <2>11. ASSUME NEW w \in Workers, Mark(w) PROVE TypeOK'
    <3>1. PICK s \in Steps :
             \/ /\ flags' = [flags EXCEPT ![worker[w].tx] = @ \cup {s}]
                /\ worker' = [worker EXCEPT ![w].pc = "sending", ![w].todo = @ \ {s}]
                /\ UNCHANGED <<row, inbox, mails, announced, replays, faults>>
             \/ FailStep(w, s)
      BY <2>11 DEF Mark
    <3> DEFINE f == [worker[w] EXCEPT !.pc = "sending", !.todo = worker[w].todo \ {s}]
    <3>2. worker[w] \in WorkerType /\ worker[w].todo \ {s} \in SUBSET Steps
          /\ worker[w].tx \in Purchases /\ worker[w].pc = "marking"
      BY <2>11, WorkerFields DEF Mark
    <3>3. CASE FailStep(w, s)
      BY <2>8, <3>2, <3>3
    <3>4. CASE ~FailStep(w, s)
      <4>1. f \in WorkerType /\ f.tx = worker[w].tx
        BY <3>2, SendTodo
      <4>2. worker' = [worker EXCEPT ![w] = f]
        BY <3>1, <3>4
      <4>3. flags' \in [Purchases -> SUBSET Steps]
        BY <3>1, <3>2, <3>4
      <4> HIDE DEF f
      <4> QED
        BY <2>4, <3>1, <3>2, <3>4, <4>1, <4>2, <4>3
    <3> QED
      BY <3>3, <3>4
  <2>12. ASSUME NEW w \in Workers, Finish(w) PROVE TypeOK'
    <3>1. worker[w] \in WorkerType /\ worker[w].tx \in Purchases
      BY <2>12 DEF Finish
    <3>2. Resume(w) \in WorkerType /\ Resume(w).pc = "free"
      BY <2>19
    <3>3. row' \in [Purchases -> RowType]
      <4>1. row[worker[w].tx] \in RowType
        BY <3>1
      <4>2. [row[worker[w].tx] EXCEPT !.status = "delivered"] \in RowType
            /\ [row[worker[w].tx] EXCEPT !.status = "failed", !.age = 0] \in RowType
        BY <2>0, <4>1 DEF RowType
      <4>3. CASE FailRow(worker[w].tx)
        BY <2>17, <3>1, <4>3
      <4>4. CASE row' = [row EXCEPT ![worker[w].tx] = [@ EXCEPT !.status = "delivered"]]
        BY <3>1, <4>2, <4>4
      <4>5. FailRow(worker[w].tx) \/ row' = [row EXCEPT ![worker[w].tx].status = "delivered"]
        BY <2>12 DEF Finish
      <4>6. FailRow(worker[w].tx)
            \/ row' = [row EXCEPT ![worker[w].tx] = [@ EXCEPT !.status = "delivered"]]
        BY <4>5, Zenon
      <4> QED
        BY <4>3, <4>4, <4>6
    <3> QED
      BY <2>4, <2>12, <3>2, <3>3 DEF Finish
  <2>13. ASSUME NEW w \in Workers, Crash(w) PROVE TypeOK'
    <3>1. Free \in WorkerType /\ Free.pc = "free"
      BY DEF Free, WorkerType
    <3> QED
      BY <2>4, <2>13, <3>1 DEF Crash
  <2>14. CASE Tick
    <3> DEFINE f(p) == IF row[p].age < Horizon /\ row[p].status \in {"processing", "failed"}
                       THEN row[p].age + 1 ELSE row[p].age
    <3>1. ASSUME NEW p \in Purchases PROVE [row[p] EXCEPT !.age = f(p)] \in RowType
      <4>1. row[p].age \in 0..Horizon /\ row[p] \in RowType
        BY DEF RowType
      <4>2. f(p) \in 0..Horizon
        BY <4>1
      <4> HIDE DEF f
      <4> QED
        BY <4>1, <4>2 DEF RowType
    <3>2. row' = [p \in Purchases |-> [row[p] EXCEPT !.age = f(p)]]
      BY <2>14 DEF Tick
    <3>3. row' \in [Purchases -> RowType]
      <4> HIDE DEF f
      <4> QED
        BY <3>1, <3>2
    <3> QED
      BY <2>14, <3>3 DEF Tick
  <2>15. CASE UNCHANGED vars
    BY <2>15 DEF vars
  <2> QED
    BY <2>1, <2>3, <2>5, <2>6, <2>7, <2>10, <2>11, <2>12, <2>13, <2>14, <2>15, <2>18, <2>20 DEF Next
<1> QED
  BY <1>1, <1>2, PTL DEF Spec

-----------------------------------------------------------------------------
\* What an emission may rely on.  A step it no longer has to do is done, unless
\* it remembers a failure; and the step it is about to mark has had its effect.
Kept(r) == r.pc \in {"sending", "marking"} /\ ~r.failed => Steps \ r.todo \subseteq flags[r.tx]
Performed(r) ==
    r.pc = "marking" =>
        \A s \in Steps : (s \in r.todo /\ \A x \in r.todo : Rank[s] <= Rank[x]) =>
            s \notin Notices /\ (s \in Mails => mails[r.tx][s] >= 1)

WorkersTruthful == \A w \in Workers : Kept(worker[w]) /\ Performed(worker[w])
MarkedMailLeft == \A p \in Purchases : \A s \in Mails : s \in flags[p] => mails[p][s] >= 1
DeliveredMarked == \A p \in Purchases : row[p].status = "delivered" => flags[p] = Steps

Truthful == WorkersTruthful /\ MarkedMailLeft /\ DeliveredMarked /\ InAppOnce

\* No two steps share a rank: an emission has one next step.
LEMMA RankInjective == ASSUME NEW s \in Steps, NEW x \in Steps, Rank[s] <= Rank[x], Rank[x] <= Rank[s]
                       PROVE  s = x
  BY OutboxAssumption DEF Steps, Notices, Mails, Rank

\* Marks and mails only ever grow.
Grows ==
    \A p \in Purchases : flags[p] \subseteq flags'[p] /\ \A s \in Mails : mails[p][s] <= mails'[p][s]

\* One worker moves, marks and mails grow: the others may still rely on what they did.
LEMMA OneWorkerMoves ==
    ASSUME TypeOK, TypeOK', WorkersTruthful, Grows, NEW w \in Workers, NEW f,
           worker' = [worker EXCEPT ![w] = f], Kept(f)', Performed(f)'
    PROVE  WorkersTruthful'
<1> SUFFICES ASSUME NEW v \in Workers PROVE Kept(worker[v])' /\ Performed(worker[v])'
  BY DEF WorkersTruthful
<1>1. CASE v = w
  <2>1. worker'[v] = f
    BY <1>1 DEF TypeOK
  <2> QED
    BY <2>1 DEF Kept, Performed
<1>2. CASE v # w
  <2>1. worker'[v] = worker[v]
    BY <1>2 DEF TypeOK
  <2>2. worker[v].pc \in {"sending", "marking"} => worker[v].tx \in Purchases
    BY DEF TypeOK
  <2>3. Kept(worker[v]) /\ Performed(worker[v])
    BY DEF WorkersTruthful
  <2>4. Kept(worker[v])'
    BY <2>1, <2>2, <2>3 DEF Kept, Grows
  <2>5. ASSUME NEW s \in Mails, worker[v].pc = "marking", mails[worker[v].tx][s] >= 1
        PROVE mails'[worker[v].tx][s] >= 1
    <3>1. mails[worker[v].tx][s] \in Nat /\ mails'[worker[v].tx][s] \in Nat
      BY <2>2, <2>5 DEF TypeOK
    <3> QED
      BY <2>2, <2>5, <3>1 DEF Grows
  <2>6. Performed(worker[v])'
    BY <2>1, <2>3, <2>5 DEF Performed
  <2> QED
    BY <2>4, <2>6
<1> QED
  BY <1>1, <1>2

\* A step that leaves marks, mails and the inbox alone and delivers nothing.
LEMMA QuietStep ==
    ASSUME TypeOK, TypeOK', Truthful, NEW w \in Workers, NEW f,
           worker' = [worker EXCEPT ![w] = f], Kept(f), Performed(f),
           UNCHANGED <<flags, inbox, mails>>,
           \A p \in Purchases : row'[p].status = "delivered" => row[p].status = "delivered"
    PROVE  Truthful'
<1>1. Grows
  BY DEF Grows, TypeOK
<1>2. Kept(f)' /\ Performed(f)'
  BY DEF Kept, Performed
<1>3. WorkersTruthful'
  BY <1>1, <1>2, OneWorkerMoves DEF Truthful
<1>4. MarkedMailLeft' /\ DeliveredMarked' /\ InAppOnce'
  BY DEF Truthful, MarkedMailLeft, DeliveredMarked, InAppOnce
<1> QED
  BY <1>3, <1>4 DEF Truthful

\* A worker with no emission under way relies on nothing.
LEMMA IdleRelies == ASSUME NEW r, r.pc \notin {"sending", "marking"} PROVE Kept(r) /\ Performed(r)
  BY DEF Kept, Performed

\* Setting a step aside as failed.
LEMMA FailStepTruthful ==
    ASSUME TypeOK, TypeOK', Truthful, NEW w \in Workers, NEW s \in Steps, FailStep(w, s)
    PROVE  Truthful'
<1>1. PICK f : /\ f = [worker[w] EXCEPT !.pc = "sending", !.todo = worker[w].todo \ {s},
                                        !.failed = TRUE]
               /\ worker' = [worker EXCEPT ![w] = f]
  BY DEF FailStep
<1>2. f.pc = "sending" /\ f.failed
  BY <1>1 DEF TypeOK, WorkerType
<1>3. Kept(f) /\ Performed(f)
  BY <1>2 DEF Kept, Performed
<1> QED
  BY <1>1, <1>3, QuietStep DEF FailStep

\* A notice is published with its mark, and at most once.
LEMMA NotifyTruthful ==
    ASSUME TypeOK, TypeOK', Truthful, NEW w \in Workers, NEW s \in Steps,
           worker[w].pc = "sending", Notify(w, s)
    PROVE  Truthful'
<1>0. PICK p \in Purchases : p = worker[w].tx
  BY DEF TypeOK
<1>1. PICK f : /\ f = [worker[w] EXCEPT !.todo = worker[w].todo \ {s}]
               /\ worker' = [worker EXCEPT ![w] = f]
  BY DEF Notify
<1>2. f.pc = "sending" /\ f.failed = worker[w].failed /\ f.tx = p /\ f.todo = worker[w].todo \ {s}
  BY <1>0, <1>1 DEF TypeOK, WorkerType
<1>3. /\ flags' = [flags EXCEPT ![p] = flags[p] \cup {s}] /\ mails' = mails /\ row' = row
      /\ s \in Notices
      /\ inbox' = [inbox EXCEPT ![p][s] = IF s \in flags[p] THEN @ ELSE @ + 1]
  BY <1>0 DEF Notify
<1>4. Grows
  BY <1>3 DEF Grows, TypeOK
<1>5. flags'[p] = flags[p] \cup {s}
  BY <1>3 DEF TypeOK
<1>6. Kept(worker[w])
  BY DEF Truthful, WorkersTruthful
<1>7. Kept(f)' /\ Performed(f)'
  BY <1>0, <1>2, <1>5, <1>6 DEF Kept, Performed
<1>8. WorkersTruthful'
  BY <1>1, <1>4, <1>7, OneWorkerMoves DEF Truthful
<1>9. MarkedMailLeft'
  <2>1. s \notin Mails
    BY <1>3, OutboxAssumption DEF Mails, Notices
  <2> QED
    BY <1>3, <2>1 DEF Truthful, MarkedMailLeft, TypeOK
<1>10. DeliveredMarked'
  BY <1>3 DEF Truthful, DeliveredMarked, TypeOK
<1>11. InAppOnce'
  <2> SUFFICES ASSUME NEW q \in Purchases, NEW t \in Notices
               PROVE inbox'[q][t] = IF t \in flags'[q] THEN 1 ELSE 0
    BY DEF InAppOnce
  <2>1. inbox[q][t] = IF t \in flags[q] THEN 1 ELSE 0
    BY DEF Truthful, InAppOnce
  <2> QED
    BY <1>3, <2>1 DEF TypeOK
<1> QED
  BY <1>8, <1>9, <1>10, <1>11 DEF Truthful

\* The effect of a mail or milestone step precedes its mark.
LEMMA EffectTruthful ==
    ASSUME TypeOK, TypeOK', Truthful, NEW w \in Workers, NEW s \in Steps,
           worker[w].pc = "sending", NextStep(w, s), AnnounceMilestone(w, s) \/ SendMail(w, s)
    PROVE  Truthful'
<1>0. PICK p \in Purchases : p = worker[w].tx
  BY DEF TypeOK
<1>1. PICK f : f = [worker[w] EXCEPT !.pc = "marking"] /\ worker' = [worker EXCEPT ![w] = f]
  BY DEF AnnounceMilestone, SendMail
<1>2. /\ f.pc = "marking" /\ f.failed = worker[w].failed /\ f.tx = p
      /\ f.todo = worker[w].todo /\ f.todo \subseteq Steps
  BY <1>0, <1>1 DEF TypeOK, WorkerType
<1>3. /\ flags' = flags /\ inbox' = inbox /\ row' = row /\ s \notin Notices
      /\ mails' = mails \/ mails' = [mails EXCEPT ![p][s] = @ + 1]
      /\ s \in Mails => mails' = [mails EXCEPT ![p][s] = @ + 1]
  BY <1>0, OutboxAssumption DEF AnnounceMilestone, SendMail, Mails, Notices
<1>4. \A q \in Purchases : \A t \in Mails : mails[q][t] <= mails'[q][t]
  BY <1>3 DEF TypeOK
<1>5. Grows
  BY <1>3, <1>4 DEF Grows
<1>6. Kept(f)'
  BY <1>0, <1>2, <1>3 DEF Truthful, WorkersTruthful, Kept
<1>7. s \in Mails => mails'[p][s] >= 1
  BY <1>3 DEF TypeOK
<1>8. Performed(f)'
  <2> SUFFICES ASSUME NEW t \in Steps, t \in f.todo, \A x \in f.todo : Rank[t] <= Rank[x]
               PROVE  t \notin Notices /\ (t \in Mails => mails'[f.tx][t] >= 1)
    BY DEF Performed
  <2>1. t = s
    BY <1>2, RankInjective DEF NextStep
  <2> QED
    BY <1>2, <1>3, <1>7, <2>1
<1>9. WorkersTruthful'
  BY <1>1, <1>5, <1>6, <1>8, OneWorkerMoves DEF Truthful
<1>10. MarkedMailLeft'
  <2> SUFFICES ASSUME NEW q \in Purchases, NEW t \in Mails, t \in flags[q]
               PROVE mails'[q][t] >= 1
    BY <1>3 DEF MarkedMailLeft
  <2>1. mails[q][t] >= 1 /\ mails[q][t] \in Nat /\ mails'[q][t] \in Nat
    BY DEF Truthful, MarkedMailLeft, TypeOK
  <2> QED
    BY <1>4, <2>1
<1>11. DeliveredMarked' /\ InAppOnce'
  BY <1>3 DEF Truthful, DeliveredMarked, InAppOnce
<1> QED
  BY <1>9, <1>10, <1>11 DEF Truthful

\* A mark is only set on a step that has had its effect.
LEMMA MarkTruthful ==
    ASSUME TypeOK, TypeOK', Truthful, NEW w \in Workers, Mark(w)
    PROVE  Truthful'
<1>0. PICK p \in Purchases : p = worker[w].tx /\ worker[w].pc = "marking"
  BY DEF TypeOK, Mark
<1>1. PICK s \in Steps :
         /\ NextStep(w, s)
         /\ \/ /\ flags' = [flags EXCEPT ![worker[w].tx] = @ \cup {s}]
               /\ worker' = [worker EXCEPT ![w].pc = "sending", ![w].todo = @ \ {s}]
               /\ UNCHANGED <<row, inbox, mails, announced, replays, faults>>
            \/ FailStep(w, s)
  BY DEF Mark
<1>2. CASE FailStep(w, s)
  BY <1>2, FailStepTruthful
<1>3. CASE ~FailStep(w, s)
  <2>1. /\ flags' = [flags EXCEPT ![p] = flags[p] \cup {s}]
        /\ UNCHANGED <<row, inbox, mails>>
    BY <1>0, <1>1, <1>3
  <2>0. worker' = [worker EXCEPT ![w].pc = "sending", ![w].todo = @ \ {s}]
    BY <1>1, <1>3
  <2>2. PICK f : /\ f = [worker[w] EXCEPT !.pc = "sending", !.todo = worker[w].todo \ {s}]
                 /\ worker' = [worker EXCEPT ![w] = f]
    <3> DEFINE g == [worker[w] EXCEPT !.pc = "sending", !.todo = worker[w].todo \ {s}]
    <3>1. worker' = [worker EXCEPT ![w] = g]
      BY <2>0 DEF TypeOK
    <3> QED
      BY <3>1
  <2>3. f.pc = "sending" /\ f.failed = worker[w].failed /\ f.tx = p /\ f.todo = worker[w].todo \ {s}
    BY <1>0, <2>2 DEF TypeOK, WorkerType
  <2>4. Kept(worker[w]) /\ Performed(worker[w])
    BY DEF Truthful, WorkersTruthful
  <2>5. s \notin Notices /\ (s \in Mails => mails[p][s] >= 1)
    BY <1>0, <1>1, <2>4 DEF Performed, NextStep
  <2>6. Grows
    BY <2>1 DEF Grows, TypeOK
  <2>7. flags'[p] = flags[p] \cup {s}
    BY <2>1 DEF TypeOK
  <2>8. Kept(f)' /\ Performed(f)'
    BY <1>0, <2>3, <2>4, <2>7 DEF Kept, Performed
  <2>9. WorkersTruthful'
    BY <2>2, <2>6, <2>8, OneWorkerMoves DEF Truthful
  <2>10. MarkedMailLeft'
    BY <2>1, <2>5 DEF Truthful, MarkedMailLeft, TypeOK
  <2>11. DeliveredMarked'
    BY <2>1 DEF Truthful, DeliveredMarked, TypeOK
  <2>12. InAppOnce'
    BY <2>1, <2>5 DEF Truthful, InAppOnce, TypeOK
  <2> QED
    BY <2>9, <2>10, <2>11, <2>12 DEF Truthful
<1> QED
  BY <1>2, <1>3

\* "Delivered" is written by an emission that has tried every step and failed none.
LEMMA FinishTruthful ==
    ASSUME TypeOK, TypeOK', Truthful, NEW w \in Workers, Finish(w)
    PROVE  Truthful'
<1>0. PICK p \in Purchases : p = worker[w].tx
  BY DEF TypeOK, Finish
<1>1. worker' = [worker EXCEPT ![w] = Resume(w)] /\ UNCHANGED <<flags, inbox, mails>>
  BY DEF Finish
<1>2. PICK f : f = Resume(w)
  OBVIOUS
<1>3. f.pc \notin {"sending", "marking"}
  BY <1>2, GoOnFree DEF Resume
<1>4. Grows
  BY <1>1 DEF Grows, TypeOK
<1>5. Kept(f)' /\ Performed(f)'
  BY <1>3 DEF Kept, Performed
<1>6. WorkersTruthful'
  BY <1>1, <1>2, <1>4, <1>5, OneWorkerMoves DEF Truthful
<1>7. MarkedMailLeft' /\ InAppOnce'
  BY <1>1 DEF Truthful, MarkedMailLeft, InAppOnce
<1>8. ~worker[w].failed => flags[p] = Steps
  <2>1. Kept(worker[w]) /\ worker[w].pc = "sending" /\ worker[w].todo = {}
    BY DEF Finish, Truthful, WorkersTruthful
  <2>2. ~worker[w].failed => Steps \subseteq flags[p]
    BY <1>0, <2>1 DEF Kept
  <2> QED
    BY <2>2 DEF TypeOK
<1>9. ASSUME NEW q \in Purchases, row'[q].status = "delivered"
      PROVE  flags'[q] = Steps
  <2>1. CASE row[q].status = "delivered"
    BY <1>1, <2>1 DEF Truthful, DeliveredMarked
  <2>2. CASE row[q].status # "delivered"
    <3>1. q = p /\ ~worker[w].failed
      BY <1>0, <1>9, <2>2 DEF Finish, FailRow, TypeOK, RowType
    <3> QED
      BY <1>1, <1>8, <3>1
  <2> QED
    BY <2>1, <2>2
<1> QED
  BY <1>6, <1>7, <1>9 DEF Truthful, DeliveredMarked

\* A step that leaves emissions, marks, notices and mails alone and delivers nothing.
LEMMA Unmoved ==
    ASSUME Truthful, UNCHANGED <<flags, worker, inbox, mails>>,
           \A q \in Purchases : row'[q].status = "delivered" => row[q].status = "delivered"
    PROVE  Truthful'
<1>1. WorkersTruthful'
  BY DEF Truthful, WorkersTruthful, Kept, Performed
<1>2. MarkedMailLeft'
  BY DEF Truthful, MarkedMailLeft
<1>3. DeliveredMarked'
  BY DEF Truthful, DeliveredMarked
<1>4. InAppOnce'
  BY DEF Truthful, InAppOnce
<1> QED
  BY <1>1, <1>2, <1>3, <1>4 DEF Truthful

LEMMA NextTruthful == ASSUME TypeOK, TypeOK', Truthful, [Next]_vars PROVE Truthful'
<1>1. ASSUME NEW p \in Purchases, Enqueue(p) PROVE Truthful'
  <2>1. UNCHANGED <<flags, worker, inbox, mails>>
    BY <1>1 DEF Enqueue
  <2>2. \A q \in Purchases : row'[q].status = "delivered" => row[q].status = "delivered"
    BY <1>1 DEF Enqueue, TypeOK, RowType
  <2> QED
    BY <2>1, <2>2, Unmoved
<1>2. ASSUME NEW w \in Workers, NEW p \in Purchases, NEW list, Claim(w, p, list) PROVE Truthful'
  <2>1. PICK f : f = [Free EXCEPT !.pc = "claimed", !.tx = p, !.list = list]
                 /\ worker' = [worker EXCEPT ![w] = f]
    BY <1>2 DEF Claim
  <2>2. Kept(f) /\ Performed(f)
    <3>1. f.pc = "claimed"
      BY <2>1 DEF Free
    <3> QED
      BY <3>1, IdleRelies
  <2>3. \A q \in Purchases : row'[q].status = "delivered" => row[q].status = "delivered"
    BY <1>2 DEF Claim, TypeOK, RowType
  <2> QED
    BY <1>2, <2>1, <2>2, <2>3, QuietStep DEF Claim
<1>3. ASSUME NEW w \in Workers, NEW p \in Purchases, EmitDirectly(w, p) PROVE Truthful'
  BY <1>2, <1>3 DEF EmitDirectly
<1>12. ASSUME NEW w \in Workers, NEW list, worker' = [worker EXCEPT ![w] = GoOn(list)],
              UNCHANGED <<flags, inbox, mails>>,
              \A q \in Purchases : row'[q].status = "delivered" => row[q].status = "delivered"
       PROVE  Truthful'
  <2>1. PICK f : f = GoOn(list) /\ f.pc = "free"
    BY GoOnFree
  <2>2. Kept(f) /\ Performed(f)
    BY <2>1, IdleRelies
  <2> QED
    BY <1>12, <2>1, <2>2, QuietStep
<1>4. ASSUME NEW w \in Workers, Drain(w) PROVE Truthful'
  <2>1. PICK list : worker' = [worker EXCEPT ![w] = GoOn(list)]
    BY <1>4 DEF Drain
  <2> QED
    BY <1>4, <1>12, <2>1 DEF Drain
<1>13. ASSUME NEW p \in Purchases, FailRow(p)
       PROVE  \A q \in Purchases : row'[q].status = "delivered" => row[q].status = "delivered"
  BY <1>13 DEF FailRow, TypeOK, RowType
<1>14. ASSUME NEW w \in Workers, NEW p \in Purchases, ClaimFails(w, p) PROVE Truthful'
  <2>1. /\ UNCHANGED <<flags, inbox, mails>>
        /\ \A q \in Purchases : row'[q].status = "delivered" => row[q].status = "delivered"
    BY <1>13, <1>14 DEF ClaimFails
  <2>2. CASE UNCHANGED worker
    BY <2>1, <2>2, Unmoved
  <2>3. CASE worker' = [worker EXCEPT ![w] = GoOn(Tail(worker[w].list))]
    BY <1>12, <2>1, <2>3
  <2> QED
    BY <1>14, <2>2, <2>3 DEF ClaimFails
<1>15. ASSUME NEW w \in Workers, ReadFails(w) PROVE Truthful'
  <2>1. PICK f : f = Resume(w) /\ worker' = [worker EXCEPT ![w] = f]
    BY <1>15 DEF ReadFails
  <2>2. Kept(f) /\ Performed(f)
    <3>1. f.pc = "free"
      BY <2>1, GoOnFree DEF Resume
    <3> QED
      BY <3>1, IdleRelies
  <2>3. worker[w].tx \in Purchases
    BY <1>15 DEF ReadFails, TypeOK
  <2> QED
    BY <1>13, <1>15, <2>1, <2>2, <2>3, QuietStep DEF ReadFails
<1>5. ASSUME NEW w \in Workers, DrainClaim(w) PROVE Truthful'
  <2>1. Head(worker[w].list) \in Purchases
    BY <1>5, ListTyped DEF DrainClaim
  <2>2. CASE Claimable(Head(worker[w].list))
    BY <1>2, <1>5, <2>1, <2>2 DEF DrainClaim
  <2>3. CASE ~Claimable(Head(worker[w].list))
    BY <1>5, <1>12, <2>3 DEF DrainClaim
  <2> QED
    BY <2>2, <2>3
<1>6. ASSUME NEW w \in Workers, ReadRow(w) PROVE Truthful'
  <2>1. PICK f : /\ f = [worker[w] EXCEPT !.pc = "sending", !.todo = Steps \ flags[worker[w].tx],
                                          !.total = Total]
                 /\ worker' = [worker EXCEPT ![w] = f]
    BY <1>6 DEF ReadRow
  <2>2. f.pc = "sending" /\ f.tx = worker[w].tx /\ f.todo = Steps \ flags[f.tx]
    BY <2>1 DEF TypeOK, WorkerType
  <2>3. Kept(f) /\ Performed(f)
    BY <2>2 DEF Kept, Performed
  <2> QED
    BY <1>6, <2>1, <2>3, QuietStep DEF ReadRow
<1>7. ASSUME NEW w \in Workers, Perform(w) PROVE Truthful'
  BY <1>7, NotifyTruthful, EffectTruthful, FailStepTruthful DEF Perform
<1>8. ASSUME NEW w \in Workers, Crash(w) PROVE Truthful'
  <2>1. Kept(Free) /\ Performed(Free)
    <3>1. Free.pc = "free"
      BY DEF Free
    <3> QED
      BY <3>1, IdleRelies
  <2> QED
    BY <1>8, <2>1, QuietStep DEF Crash
<1>9. CASE Tick
  <2>1. \A q \in Purchases : row'[q].status = row[q].status
    BY <1>9 DEF Tick, TypeOK, RowType
  <2>2. UNCHANGED <<flags, worker, inbox, mails>>
    BY <1>9 DEF Tick
  <2> QED
    BY <2>1, <2>2, Unmoved
<1>10. CASE UNCHANGED vars
  BY <1>10, Unmoved DEF vars
<1> QED
  BY <1>1, <1>3, <1>4, <1>5, <1>6, <1>7, <1>8, <1>9, <1>10, <1>14, <1>15, MarkTruthful, FinishTruthful DEF Next

\* Whatever overlaps, faults or fails, marks tell the truth.
THEOREM TruthfulHolds == Spec => []Truthful
<1>1. Init => Truthful
  <2> SUFFICES ASSUME Init PROVE Truthful
    OBVIOUS
  <2>1. WorkersTruthful
    <3>1. \A w \in Workers : worker[w] = Free
      BY DEF Init
    <3>2. Free.pc = "free"
      BY DEF Free
    <3> QED
      BY <3>1, <3>2 DEF WorkersTruthful, Kept, Performed
  <2> QED
    BY <2>1 DEF Init, Truthful, MarkedMailLeft, DeliveredMarked, InAppOnce
<1> QED
  BY <1>1, NextTruthful, Typed, PTL DEF Spec

\* A purchase is found once in each inbox, exactly when its row says so.
THEOREM InAppOnceHolds == Spec => []InAppOnce
<1>1. Truthful => InAppOnce
  BY DEF Truthful
<1> QED
  BY <1>1, TruthfulHolds, PTL

\* A delivered purchase has had both its notices and its mails.
THEOREM DeliveredIsDoneHolds == Spec => []DeliveredIsDone
<1>1. Truthful => DeliveredIsDone
  BY DEF Truthful, MarkedMailLeft, DeliveredMarked, DeliveredIsDone, Steps
<1> QED
  BY <1>1, TruthfulHolds, PTL

-----------------------------------------------------------------------------
(***************************************************************************)
(* One worker's step, told by what the worker then is.                     *)
(***************************************************************************)
\* The step an emission performs, or marks, next.
First(s, todo) == s \in todo /\ \A x \in todo : Rank[s] <= Rank[x]

Active(r) == r.pc \in {"claimed", "sending", "marking"}

\* A worker goes on without an effect: it stops, is between two purchases, or
\* sets a step aside.
Rests(r, r2) ==
    \/ r2.pc = "free"
    \/ /\ r.pc \in {"sending", "marking"} /\ r2.pc = "sending"
       /\ r2.tx = r.tx /\ r2.total = r.total
       /\ \E s \in Steps : First(s, r.todo) /\ r2.todo = r.todo \ {s}

\* Rows keep their attempts, and none is enqueued.
SameRows ==
    \A p \in Purchases :
        /\ row'[p].attempts = row[p].attempts
        /\ row'[p].status = "absent" <=> row[p].status = "absent"

Claims(w, p) ==
    /\ ~Active(worker[w]) /\ row[p].status # "absent"
    /\ worker'[w].pc = "claimed" /\ worker'[w].tx = p
    /\ row' = [row EXCEPT ![p] = [status |-> "processing", attempts |-> @.attempts + 1, age |-> 0]]
    /\ UNCHANGED <<flags, mails, announced>>

Reads(w) ==
    /\ worker[w].pc = "claimed" /\ worker'[w].pc = "sending"
    /\ worker'[w].tx = worker[w].tx /\ worker'[w].total = Total
    /\ UNCHANGED <<row, flags, mails, announced>>

Performs(w, s) ==
    /\ worker[w].pc = "sending" /\ worker'[w].pc = "marking"
    /\ worker'[w].tx = worker[w].tx /\ worker'[w].total = worker[w].total
    /\ worker'[w].todo = worker[w].todo /\ First(s, worker[w].todo)
    /\ \/ /\ s \in Mails /\ announced' = announced
          /\ mails' = [mails EXCEPT ![worker[w].tx][s] = @ + 1]
       \/ /\ s = "savings_notified" /\ mails' = mails
          /\ announced' = announced \cup
                {m \in Reached(worker[w].total) : \A n \in Reached(worker[w].total) : n <= m}
    /\ UNCHANGED <<row, flags>>

Marks(w, s) ==
    /\ worker[w].pc = "marking" \/ (worker[w].pc = "sending" /\ s \in Notices)
    /\ worker'[w].pc = "sending"
    /\ worker'[w].tx = worker[w].tx /\ worker'[w].total = worker[w].total
    /\ First(s, worker[w].todo) /\ worker'[w].todo = worker[w].todo \ {s}
    /\ flags' = [flags EXCEPT ![worker[w].tx] = @ \cup {s}]
    /\ UNCHANGED <<row, mails, announced>>

LEMMA PerformSteps ==
    ASSUME TypeOK, NEW w \in Workers, Perform(w) \/ Mark(w)
    PROVE  \/ \E s \in Steps : Performs(w, s) \/ Marks(w, s)
           \/ Rests(worker[w], worker'[w]) /\ SameRows /\ UNCHANGED <<flags, mails, announced>>
<1>0. worker[w] \in WorkerType
  BY DEF TypeOK
<1>1. ASSUME NEW s \in Steps, First(s, worker[w].todo), worker[w].pc \in {"sending", "marking"}, FailStep(w, s)
      PROVE  Rests(worker[w], worker'[w]) /\ SameRows /\ UNCHANGED <<flags, mails, announced>>
  <2>1. worker'[w] = [worker[w] EXCEPT !.pc = "sending", !.todo = worker[w].todo \ {s}, !.failed = TRUE]
    BY <1>1 DEF FailStep, TypeOK
  <2>2. /\ worker'[w].pc = "sending" /\ worker'[w].tx = worker[w].tx
        /\ worker'[w].total = worker[w].total /\ worker'[w].todo = worker[w].todo \ {s}
    BY <1>0, <2>1 DEF WorkerType
  <2>3. Rests(worker[w], worker'[w])
    BY <1>1, <2>2 DEF Rests
  <2> QED BY <1>1, <2>3 DEF FailStep, SameRows
<1>2. ASSUME NEW s \in Steps, First(s, worker[w].todo), worker[w].pc = "sending", Notify(w, s)
      PROVE  Marks(w, s)
  <2>1. worker'[w] = [worker[w] EXCEPT !.todo = worker[w].todo \ {s}]
    BY <1>2 DEF Notify, TypeOK
  <2>2. /\ worker'[w].pc = "sending" /\ worker'[w].tx = worker[w].tx
        /\ worker'[w].total = worker[w].total /\ worker'[w].todo = worker[w].todo \ {s}
    BY <1>0, <1>2, <2>1 DEF WorkerType
  <2> QED BY <1>2, <2>2 DEF Notify, Marks
<1>3. ASSUME NEW s \in Steps, First(s, worker[w].todo), worker[w].pc = "sending",
             AnnounceMilestone(w, s) \/ SendMail(w, s)
      PROVE  Performs(w, s)
  <2>1. worker'[w] = [worker[w] EXCEPT !.pc = "marking"]
    BY <1>3 DEF AnnounceMilestone, SendMail, TypeOK
  <2>2. /\ worker'[w].pc = "marking" /\ worker'[w].tx = worker[w].tx
        /\ worker'[w].total = worker[w].total /\ worker'[w].todo = worker[w].todo
    BY <1>0, <2>1 DEF WorkerType
  <2> QED BY <1>3, <2>2 DEF AnnounceMilestone, SendMail, Performs
<1>4. CASE Perform(w)
  <2>1. PICK s \in Steps : /\ First(s, worker[w].todo) /\ worker[w].pc = "sending"
                           /\ Notify(w, s) \/ AnnounceMilestone(w, s) \/ SendMail(w, s) \/ FailStep(w, s)
    BY <1>4 DEF Perform, NextStep, First
  <2> QED BY <1>1, <1>2, <1>3, <2>1
<1>5. CASE Mark(w)
  <2>1. PICK s \in Steps :
           /\ First(s, worker[w].todo) /\ worker[w].pc = "marking"
           /\ \/ /\ flags' = [flags EXCEPT ![worker[w].tx] = @ \cup {s}]
                 /\ worker' = [worker EXCEPT ![w].pc = "sending", ![w].todo = @ \ {s}]
                 /\ UNCHANGED <<row, inbox, mails, announced, replays, faults>>
              \/ FailStep(w, s)
    BY <1>5 DEF Mark, NextStep, First
  <2>2. CASE FailStep(w, s)
    BY <1>1, <2>1, <2>2
  <2>3. CASE ~FailStep(w, s)
    <3>1. worker'[w] = [worker[w] EXCEPT !.pc = "sending", !.todo = worker[w].todo \ {s}]
      BY <2>1, <2>3 DEF TypeOK
    <3>2. /\ worker'[w].pc = "sending" /\ worker'[w].tx = worker[w].tx
          /\ worker'[w].total = worker[w].total /\ worker'[w].todo = worker[w].todo \ {s}
      BY <1>0, <3>1 DEF WorkerType
    <3> QED BY <2>1, <2>3, <3>2 DEF Marks
  <2> QED BY <2>2, <2>3
<1> QED BY <1>4, <1>5

Quiet == SameRows /\ UNCHANGED <<flags, mails, announced>>

Alone(w) == \A v \in Workers \ {w} : worker'[v] = worker[v]

\* A claim starts with a fresh record for its row.
LEMMA ClaimStep ==
    ASSUME TypeOK, NEW w \in Workers, NEW p \in Purchases, NEW list,
           worker[w].pc = "free", Claimable(p), Claim(w, p, list)
    PROVE  Alone(w) /\ Claims(w, p)
<1>1. worker' = [worker EXCEPT ![w] = [Free EXCEPT !.pc = "claimed", !.tx = p, !.list = list]]
  BY DEF Claim
<1>2. Alone(w)
  BY <1>1 DEF Alone, TypeOK
<1>3. worker'[w].pc = "claimed" /\ worker'[w].tx = p
  BY <1>1 DEF Free, TypeOK
<1>4. row[p].status # "absent"
  BY DEF Claimable
<1> QED BY <1>2, <1>3, <1>4 DEF Claim, Claims, Active

\* Leaving a row as failed neither enqueues nor counts it.
LEMMA FailRowStep ==
    ASSUME TypeOK, NEW p \in Purchases, FailRow(p), row[p].status # "absent"
    PROVE  SameRows
<1>1. ASSUME NEW q \in Purchases
      PROVE  /\ row'[q].attempts = row[q].attempts
             /\ row'[q].status = "absent" <=> row[q].status = "absent"
  <2>1. row[q] \in RowType
    BY DEF TypeOK
  <2>2. CASE q = p
    <3>1. row'[q] = [row[q] EXCEPT !.status = "failed", !.age = 0]
      BY <2>2 DEF FailRow, TypeOK
    <3> QED BY <2>1, <2>2, <3>1 DEF RowType
  <2>3. CASE q # p
    BY <2>3 DEF FailRow, TypeOK
  <2> QED BY <2>2, <2>3
<1> QED BY <1>1 DEF SameRows

\* A drain that starts or skips a row, and an emission that ends.
LEMMA GoOnStep ==
    ASSUME TypeOK, NEW w \in Workers, NEW list, worker' = [worker EXCEPT ![w] = GoOn(list)]
    PROVE  Alone(w) /\ Rests(worker[w], worker'[w])
<1>1. worker'[w].pc = "free"
  BY GoOnFree DEF TypeOK
<1> QED BY <1>1 DEF Rests, Alone, TypeOK

\* Absent rows have no emission, so none is failed while absent.
Started == \A w \in Workers : Active(worker[w]) => row[worker[w].tx].status # "absent"

LEMMA NextSteps ==
    ASSUME TypeOK, Started, [Next]_vars
    PROVE  \/ \E p \in Purchases : Enqueue(p)
           \/ \E w \in Workers :
                 /\ Alone(w)
                 /\ \/ \E p \in Purchases : Claims(w, p)
                    \/ Reads(w)
                    \/ \E s \in Steps : Performs(w, s) \/ Marks(w, s)
                    \/ Rests(worker[w], worker'[w]) /\ Quiet
           \/ worker' = worker /\ Quiet
<1>1. ASSUME NEW w \in Workers, NEW p \in Purchases, EmitDirectly(w, p)
      PROVE  Alone(w) /\ Claims(w, p)
  BY <1>1, ClaimStep DEF EmitDirectly, Free
<1>2. ASSUME NEW w \in Workers, NEW p \in Purchases, ClaimFails(w, p)
      PROVE  Alone(w) /\ Rests(worker[w], worker'[w]) /\ Quiet
  <2>1. Quiet
    BY <1>2, FailRowStep DEF ClaimFails, Quiet
  <2>2. CASE worker[w] = Free /\ UNCHANGED worker
    BY <2>1, <2>2 DEF Alone, Rests, Free
  <2>3. CASE worker' = [worker EXCEPT ![w] = GoOn(Tail(worker[w].list))]
    BY <2>1, <2>3, GoOnStep
  <2> QED BY <1>2, <2>2, <2>3 DEF ClaimFails
<1>3. ASSUME NEW w \in Workers, Drain(w)
      PROVE  Alone(w) /\ Rests(worker[w], worker'[w]) /\ Quiet
  <2>1. PICK list : worker' = [worker EXCEPT ![w] = GoOn(list)]
    BY <1>3 DEF Drain
  <2> QED BY <1>3, <2>1, GoOnStep DEF Drain, Quiet, SameRows
<1>4. ASSUME NEW w \in Workers, DrainClaim(w)
      PROVE  /\ Alone(w)
             /\ \/ \E p \in Purchases : Claims(w, p)
                \/ Rests(worker[w], worker'[w]) /\ Quiet
  <2>1. Head(worker[w].list) \in Purchases /\ worker[w].pc = "free"
    BY <1>4, ListTyped DEF DrainClaim
  <2>2. CASE Claimable(Head(worker[w].list))
    BY <1>4, <2>1, <2>2, ClaimStep DEF DrainClaim
  <2>3. CASE ~Claimable(Head(worker[w].list))
    BY <1>4, <2>3, GoOnStep DEF DrainClaim, Quiet, SameRows
  <2> QED BY <2>2, <2>3
<1>5. ASSUME NEW w \in Workers, ReadRow(w) PROVE Alone(w) /\ Reads(w)
  <2>1. worker'[w] = [worker[w] EXCEPT !.pc = "sending", !.todo = Steps \ flags[worker[w].tx], !.total = Total]
    BY <1>5 DEF ReadRow, TypeOK
  <2>2. worker[w] \in WorkerType
    BY DEF TypeOK
  <2>3. worker'[w].pc = "sending" /\ worker'[w].tx = worker[w].tx /\ worker'[w].total = Total
    BY <2>1, <2>2 DEF WorkerType
  <2> QED BY <1>5, <2>3 DEF ReadRow, Reads, Alone, TypeOK
<1>6. ASSUME NEW w \in Workers, ReadFails(w)
      PROVE  Alone(w) /\ Rests(worker[w], worker'[w]) /\ Quiet
  <2>1. worker[w].tx \in Purchases /\ row[worker[w].tx].status # "absent"
    BY <1>6 DEF ReadFails, Started, Active, TypeOK
  <2>2. Rests(worker[w], worker'[w])
    BY <1>6, GoOnStep DEF ReadFails, Resume
  <2> QED BY <1>6, <2>1, <2>2, FailRowStep DEF ReadFails, Alone, Quiet, TypeOK
<1>7. ASSUME NEW w \in Workers, Perform(w) \/ Mark(w)
      PROVE  /\ Alone(w)
             /\ \/ \E s \in Steps : Performs(w, s) \/ Marks(w, s)
                \/ Rests(worker[w], worker'[w]) /\ Quiet
  <2>1. Alone(w)
    BY <1>7 DEF Perform, Mark, Notify, AnnounceMilestone, SendMail, FailStep, Alone, TypeOK
  <2> QED BY <1>7, <2>1, PerformSteps DEF Quiet
<1>8. ASSUME NEW w \in Workers, Finish(w)
      PROVE  Alone(w) /\ Rests(worker[w], worker'[w]) /\ Quiet
  <2>1. worker[w].tx \in Purchases /\ row[worker[w].tx].status # "absent"
    BY <1>8 DEF Finish, Started, Active, TypeOK
  <2>2. Rests(worker[w], worker'[w])
    BY <1>8, GoOnStep DEF Finish, Resume
  <2>3. SameRows
    <3>1. CASE FailRow(worker[w].tx)
      BY <2>1, <3>1, FailRowStep
    <3>2. CASE row' = [row EXCEPT ![worker[w].tx].status = "delivered"]
      BY <2>1, <3>2 DEF SameRows, TypeOK, RowType
    <3> QED BY <1>8, <3>1, <3>2 DEF Finish
  <2> QED BY <1>8, <2>2, <2>3 DEF Finish, Alone, Quiet, TypeOK
<1>9. ASSUME NEW w \in Workers, Crash(w)
      PROVE  Alone(w) /\ Rests(worker[w], worker'[w]) /\ Quiet
  BY <1>9 DEF Crash, Alone, Rests, Quiet, SameRows, Free, TypeOK
<1>10. CASE Tick
  <2>1. SameRows
    BY <1>10 DEF Tick, SameRows, TypeOK, RowType
  <2> QED BY <1>10, <2>1 DEF Tick, Quiet
<1>11. CASE UNCHANGED vars
  BY <1>11 DEF vars, Quiet, SameRows
<1> QED BY <1>1, <1>2, <1>3, <1>4, <1>5, <1>6, <1>7, <1>8, <1>9, <1>10, <1>11 DEF Next

-----------------------------------------------------------------------------
(***************************************************************************)
(* Mails.  An attempt that has yet to send a mail owes it, so the mails    *)
(* that left and those still owed are never more than the attempts.        *)
(***************************************************************************)
Owes(r, p, s) ==
    /\ r.tx = p
    /\ \/ r.pc = "claimed"
       \/ r.pc = "sending" /\ s \in r.todo
       \/ r.pc = "marking" /\ s \in r.todo /\ ~First(s, r.todo)

Owing(p, s) == {w \in Workers : Owes(worker[w], p, s)}

MailsOwed ==
    \A p \in Purchases, s \in Mails :
        /\ IsFiniteSet(Owing(p, s))
        /\ mails[p][s] + Cardinality(Owing(p, s)) <= row[p].attempts

SameAttempts == \A p \in Purchases : row'[p].attempts = row[p].attempts

\* A worker takes on no new mail.
Eases(w) == \A p \in Purchases, s \in Mails : Owes(worker'[w], p, s) => Owes(worker[w], p, s)

LEMMA RestsEases ==
    ASSUME TypeOK, NEW w \in Workers, NEW s \in Steps, First(s, worker[w].todo),
           worker[w].pc \in {"sending", "marking"}, worker'[w].pc = "sending",
           worker'[w].tx = worker[w].tx, worker'[w].todo = worker[w].todo \ {s}
    PROVE  Eases(w)
<1> SUFFICES ASSUME NEW p \in Purchases, NEW x \in Mails, Owes(worker'[w], p, x)
             PROVE  Owes(worker[w], p, x)
  BY DEF Eases
<1>1. worker[w].tx = p /\ x \in worker[w].todo /\ x # s /\ x \in Steps
  BY DEF Owes, Steps
<1>2. ~First(x, worker[w].todo)
  <2> SUFFICES ASSUME First(x, worker[w].todo) PROVE FALSE
    OBVIOUS
  <2>1. Rank[s] <= Rank[x] /\ Rank[x] <= Rank[s]
    BY <1>1 DEF First
  <2> QED BY <1>1, <2>1, RankInjective
<1> QED BY <1>1, <1>2 DEF Owes

\* Each step of the outbox: a claim, a mail, or nothing new owed.
LEMMA MailSteps ==
    ASSUME TypeOK, Started, [Next]_vars
    PROVE  \/ \E w \in Workers, p \in Purchases : Alone(w) /\ Claims(w, p)
           \/ \E w \in Workers, s \in Mails : Alone(w) /\ Performs(w, s)
           \/ (\A v \in Workers : Eases(v)) /\ mails' = mails /\ SameAttempts
<1>1. ASSUME NEW w \in Workers, Alone(w), Eases(w) PROVE \A v \in Workers : Eases(v)
  BY <1>1 DEF Alone, Eases
<1>2. ASSUME NEW p \in Purchases, Enqueue(p)
      PROVE  (\A v \in Workers : Eases(v)) /\ mails' = mails /\ SameAttempts
  <2>1. SameAttempts
    BY <1>2 DEF Enqueue, SameAttempts, TypeOK, RowType
  <2> QED BY <1>2, <2>1 DEF Enqueue, Eases
<1>3. ASSUME NEW w \in Workers, Reads(w) PROVE Eases(w) /\ mails' = mails /\ SameAttempts
  BY <1>3 DEF Reads, Eases, Owes, SameAttempts
<1>4. ASSUME NEW w \in Workers, NEW s \in Steps, Performs(w, s), s \notin Mails
      PROVE  Eases(w) /\ mails' = mails /\ SameAttempts
  BY <1>4 DEF Performs, Eases, Owes, SameAttempts
<1>5. ASSUME NEW w \in Workers, NEW s \in Steps, Marks(w, s)
      PROVE  Eases(w) /\ mails' = mails /\ SameAttempts
  BY <1>5, RestsEases DEF Marks, SameAttempts
<1>6. ASSUME NEW w \in Workers, Rests(worker[w], worker'[w]), Quiet
      PROVE  Eases(w) /\ mails' = mails /\ SameAttempts
  <2>1. Eases(w)
    <3>1. CASE worker'[w].pc = "free"
      BY <3>1 DEF Eases, Owes
    <3>2. CASE worker'[w].pc # "free"
      BY <1>6, <3>2, RestsEases DEF Rests
    <3> QED BY <3>1, <3>2
  <2> QED BY <1>6, <2>1 DEF Quiet, SameRows, SameAttempts
<1>7. CASE worker' = worker /\ Quiet
  BY <1>7 DEF Quiet, SameRows, SameAttempts, Eases
<1> QED BY <1>1, <1>2, <1>3, <1>4, <1>5, <1>6, <1>7, NextSteps

LEMMA NextMailsOwed == ASSUME TypeOK, TypeOK', Started, MailsOwed, [Next]_vars PROVE MailsOwed'
<1> SUFFICES ASSUME NEW p \in Purchases, NEW s \in Mails
             PROVE  /\ IsFiniteSet(Owing(p, s)')
                    /\ mails'[p][s] + Cardinality(Owing(p, s)') <= row'[p].attempts
  BY DEF MailsOwed
<1> DEFINE O == Owing(p, s)
           O2 == Owing(p, s)'
<1>0. /\ IsFiniteSet(O) /\ mails[p][s] + Cardinality(O) <= row[p].attempts
      /\ mails[p][s] \in Nat /\ row[p].attempts \in Nat /\ Cardinality(O) \in Nat
  BY FS_CardinalityType DEF MailsOwed, TypeOK, RowType
<1>1. CASE (\A v \in Workers : Eases(v)) /\ mails' = mails /\ SameAttempts
  <2>1. O2 \subseteq O
    BY <1>1 DEF Owing, Eases
  <2>2. IsFiniteSet(O2) /\ Cardinality(O2) <= Cardinality(O) /\ Cardinality(O2) \in Nat
    <3> HIDE DEF O, O2
    <3> QED BY <1>0, <2>1, FS_Subset, FS_CardinalityType
  <2> HIDE DEF O, O2
  <2>3. mails[p][s] + Cardinality(O2) <= row[p].attempts
    BY <1>0, <2>2
  <2> QED BY <1>1, <2>2, <2>3 DEF O2, SameAttempts
<1>2. ASSUME NEW w \in Workers, NEW q \in Purchases, Alone(w), Claims(w, q)
      PROVE  IsFiniteSet(O2) /\ mails'[p][s] + Cardinality(O2) <= row'[p].attempts
  <2>1. w \notin O /\ O2 \subseteq O \cup {w} /\ (q # p => w \notin O2)
    BY <1>2 DEF Claims, Active, Alone, Owing, Owes
  <2>2. row'[p].attempts = IF q = p THEN row[p].attempts + 1 ELSE row[p].attempts
    BY <1>2 DEF Claims, TypeOK
  <2>3. mails' = mails
    BY <1>2 DEF Claims
  <2> HIDE DEF O, O2
  <2>4. IsFiniteSet(O \cup {w}) /\ Cardinality(O \cup {w}) = Cardinality(O) + 1
    BY <1>0, <2>1, FS_AddElement
  <2>5. CASE q = p
    <3>1. IsFiniteSet(O2) /\ Cardinality(O2) <= Cardinality(O) + 1 /\ Cardinality(O2) \in Nat
      BY <2>1, <2>4, FS_Subset, FS_CardinalityType
    <3> QED BY <1>0, <2>2, <2>3, <2>5, <3>1
  <2>6. CASE q # p
    <3>1. O2 \subseteq O
      BY <2>1, <2>6
    <3>2. IsFiniteSet(O2) /\ Cardinality(O2) <= Cardinality(O) /\ Cardinality(O2) \in Nat
      BY <1>0, <3>1, FS_Subset, FS_CardinalityType
    <3> QED BY <1>0, <2>2, <2>3, <2>6, <3>2
  <2> QED BY <2>5, <2>6
<1>3. ASSUME NEW w \in Workers, NEW x \in Mails, Alone(w), Performs(w, x)
      PROVE  IsFiniteSet(O2) /\ mails'[p][s] + Cardinality(O2) <= row'[p].attempts
  <2>1. O2 \subseteq O
    BY <1>3 DEF Performs, Alone, Owing, Owes
  <2>2. row' = row
    BY <1>3 DEF Performs
  <2>3. worker[w].tx \in Purchases
    BY <1>3 DEF Performs, TypeOK
  <2>4. x # "savings_notified"
    BY OutboxAssumption DEF Mails
  <2>5. mails' = [mails EXCEPT ![worker[w].tx][x] = @ + 1]
    BY <1>3, <2>4 DEF Performs
  <2>6. CASE worker[w].tx = p /\ x = s
    <3>1. mails'[p][s] = mails[p][s] + 1
      BY <2>3, <2>5, <2>6 DEF TypeOK
    <3>2. w \in O /\ w \notin O2
      BY <1>3, <2>6 DEF Performs, Owing, Owes, First
    <3> HIDE DEF O, O2
    <3>3. O2 \subseteq O \ {w}
      BY <2>1, <3>2
    <3>4. IsFiniteSet(O \ {w}) /\ Cardinality(O \ {w}) = Cardinality(O) - 1
      BY <1>0, <3>2, FS_RemoveElement
    <3>5. IsFiniteSet(O2) /\ Cardinality(O2) <= Cardinality(O) - 1 /\ Cardinality(O2) \in Nat
      BY <3>3, <3>4, FS_Subset, FS_CardinalityType
    <3> QED BY <1>0, <2>2, <3>1, <3>5
  <2>7. CASE ~(worker[w].tx = p /\ x = s)
    <3>1. mails'[p][s] = mails[p][s]
      BY <2>3, <2>5, <2>7 DEF TypeOK
    <3> HIDE DEF O, O2
    <3>2. IsFiniteSet(O2) /\ Cardinality(O2) <= Cardinality(O) /\ Cardinality(O2) \in Nat
      BY <1>0, <2>1, FS_Subset, FS_CardinalityType
    <3> QED BY <1>0, <2>2, <3>1, <3>2
  <2> QED BY <2>6, <2>7
<1> QED BY <1>1, <1>2, <1>3, MailSteps

-----------------------------------------------------------------------------
(***************************************************************************)
(* Milestones.  An emission of the latest purchase reads the savings total *)
(* of all of them, so its milestone is the highest that is reached.        *)
(***************************************************************************)
Top(total) == {m \in Reached(total) : \A n \in Reached(total) : n <= m}

Latest(p) == p \in Enqueued /\ \A q \in Enqueued : q <= p

\* Purchases are enqueued in order, and emitted once they are.
InOrder ==
    /\ \A p \in Enqueued, q \in Purchases : q < p => q \in Enqueued
    /\ Enqueued = {} \/ \E p \in Enqueued : Latest(p)
    /\ \A p \in Purchases \ Enqueued : flags[p] = {}
    /\ \A w \in Workers : Active(worker[w]) => worker[w].tx \in Enqueued

TotalsRead ==
    \A w \in Workers :
        worker[w].pc \in {"sending", "marking"} /\ Latest(worker[w].tx) => worker[w].total = Total

TopBeforeMark ==
    \A w \in Workers :
        worker[w].pc = "marking" /\ First("savings_notified", worker[w].todo) =>
            Top(worker[w].total) \subseteq announced

TopMarked ==
    \A p \in Purchases : Latest(p) /\ "savings_notified" \in flags[p] => Top(Total) \subseteq announced

TopAnnounced == InOrder /\ TotalsRead /\ TopBeforeMark /\ TopMarked

LEMMA OrderStarted == ASSUME InOrder PROVE Started
BY DEF InOrder, Started, Enqueued

\* The purchase enqueued last is the latest, and nothing was done for it yet.
LEMMA EnqueueAnnounced ==
    ASSUME TypeOK, TopAnnounced, NEW p \in Purchases, Enqueue(p)
    PROVE  TopAnnounced'
<1>1. Enqueued' = Enqueued \cup {p} /\ p \notin Enqueued
  BY DEF Enqueue, Enqueued, TypeOK, RowType
<1>2. UNCHANGED <<flags, worker, announced>>
  BY DEF Enqueue
<1>3. \A q \in Enqueued : q < p
  <2>1. \A q \in Purchases : q \in Int /\ p \in Int
    BY OutboxAssumption
  <2> QED BY <1>1, <2>1 DEF TopAnnounced, InOrder, Enqueued
<1>4. \A q \in Purchases : q < p => q \in Enqueued
  BY DEF Enqueue, Enqueued
<1>5. \A q : Latest(q)' <=> q = p
  <2>1. \A q \in Enqueued \cup {p} : q \in Int
    BY OutboxAssumption DEF Enqueued
  <2> QED BY <1>1, <1>3, <2>1 DEF Latest
<1>6. InOrder'
  <2>1. \A x \in Enqueued', q \in Purchases : q < x => q \in Enqueued'
    BY <1>1, <1>4 DEF TopAnnounced, InOrder
  <2>2. \E x \in Enqueued' : Latest(x)'
    BY <1>1, <1>5
  <2>3. \A x \in Purchases \ Enqueued' : flags'[x] = {}
    BY <1>1, <1>2 DEF TopAnnounced, InOrder
  <2>4. \A w \in Workers : Active(worker'[w]) => worker'[w].tx \in Enqueued'
    BY <1>1, <1>2 DEF TopAnnounced, InOrder
  <2> QED BY <2>1, <2>2, <2>3, <2>4 DEF InOrder, Active
<1>7. TotalsRead'
  BY <1>1, <1>2, <1>5 DEF TopAnnounced, InOrder, TotalsRead, Active
<1>8. TopBeforeMark'
  BY <1>2 DEF TopAnnounced, TopBeforeMark, First
<1>9. TopMarked'
  BY <1>1, <1>2, <1>5 DEF TopAnnounced, InOrder, TopMarked
<1> QED BY <1>6, <1>7, <1>8, <1>9 DEF TopAnnounced

\* No purchase is enqueued: order and totals stay as they are.
LEMMA SameEnqueued ==
    ASSUME TypeOK, InOrder, Enqueued' = Enqueued,
           \A p \in Purchases \ Enqueued : flags'[p] = flags[p],
           \A w \in Workers : Active(worker'[w]) => worker'[w].tx \in Enqueued
    PROVE  InOrder' /\ Total' = Total /\ \A p : Latest(p)' <=> Latest(p)
<1>1. Total' = Total
  BY DEF Total
<1>2. \A p : Latest(p)' <=> Latest(p)
  BY DEF Latest
<1>3. \A p \in Purchases \ Enqueued' : flags'[p] = {}
  BY DEF InOrder
<1> QED BY <1>1, <1>2, <1>3 DEF InOrder, Active

\* A step of one worker, told by what it is afterwards.
LEMMA WorkerAnnounced ==
    ASSUME TypeOK, TopAnnounced, NEW w \in Workers, Alone(w), Enqueued' = Enqueued,
           \A p \in Purchases \ Enqueued : flags'[p] = flags[p],
           Active(worker'[w]) => worker'[w].tx \in Enqueued,
           announced \subseteq announced',
           worker'[w].pc \in {"sending", "marking"} /\ Latest(worker'[w].tx) => worker'[w].total = Total,
           worker'[w].pc = "marking" /\ First("savings_notified", worker'[w].todo) =>
               Top(worker'[w].total) \subseteq announced',
           \A p \in Purchases : Latest(p) /\ "savings_notified" \in flags'[p] => Top(Total) \subseteq announced'
    PROVE  TopAnnounced'
<1>1. \A v \in Workers : Active(worker'[v]) => worker'[v].tx \in Enqueued
  BY DEF Alone, TopAnnounced, InOrder
<1>2. InOrder' /\ Total' = Total /\ \A p : Latest(p)' <=> Latest(p)
  BY <1>1, SameEnqueued DEF TopAnnounced
<1>3. TotalsRead'
  <2> SUFFICES ASSUME NEW v \in Workers, worker'[v].pc \in {"sending", "marking"}, Latest(worker[v].tx)'
               PROVE  worker'[v].total = Total'
    BY DEF TotalsRead
  <2>1. Latest(worker'[v].tx)
    BY DEF Latest
  <2> QED BY <1>2, <2>1 DEF Alone, TopAnnounced, TotalsRead
<1>4. TopBeforeMark'
  <2> SUFFICES ASSUME NEW v \in Workers, worker'[v].pc = "marking",
                      First("savings_notified", worker'[v].todo)
               PROVE  Top(worker'[v].total) \subseteq announced'
    BY DEF TopBeforeMark, First, Top, Reached
  <2> QED BY DEF Alone, TopAnnounced, TopBeforeMark
<1>5. TopMarked'
  <2> SUFFICES ASSUME NEW p \in Purchases, Latest(p)', "savings_notified" \in flags'[p]
               PROVE  Top(Total') \subseteq announced'
    BY DEF TopMarked, Top, Reached
  <2> QED BY <1>2
<1> QED BY <1>2, <1>3, <1>4, <1>5 DEF TopAnnounced

LEMMA NextAnnounced == ASSUME TypeOK, TopAnnounced, [Next]_vars PROVE TopAnnounced'
<1>0. Started
  BY OrderStarted DEF TopAnnounced
<1>1. ASSUME SameRows PROVE Enqueued' = Enqueued
  BY <1>1 DEF SameRows, Enqueued
<1>2. ASSUME NEW w \in Workers, Active(worker[w]) PROVE worker[w].tx \in Enqueued
  BY <1>2 DEF TopAnnounced, InOrder
<1>3. \A p \in Purchases : Latest(p) /\ "savings_notified" \in flags[p] => Top(Total) \subseteq announced
  BY DEF TopAnnounced, TopMarked
<1>4. CASE worker' = worker /\ Quiet
  <2>1. Enqueued' = Enqueued /\ flags' = flags /\ announced' = announced
    BY <1>1, <1>4 DEF Quiet
  <2>2. InOrder' /\ Total' = Total /\ \A p : Latest(p)' <=> Latest(p)
    BY <1>2, <1>4, <2>1, SameEnqueued DEF TopAnnounced
  <2>3. TotalsRead'
    BY <1>4, <2>1, <2>2 DEF TopAnnounced, TotalsRead, Latest
  <2>4. TopBeforeMark' /\ TopMarked'
    BY <1>4, <2>1, <2>2 DEF TopAnnounced, TopBeforeMark, TopMarked, First, Top, Reached
  <2> QED BY <2>2, <2>3, <2>4 DEF TopAnnounced
<1>5. ASSUME NEW w \in Workers, Alone(w), NEW p \in Purchases, Claims(w, p) PROVE TopAnnounced'
  <2>1. Enqueued' = Enqueued /\ p \in Enqueued
    BY <1>5 DEF Claims, Enqueued, TypeOK
  <2> QED BY <1>3, <1>5, <2>1, WorkerAnnounced DEF Claims
<1>6. ASSUME NEW w \in Workers, Alone(w), Reads(w) PROVE TopAnnounced'
  <2>1. Enqueued' = Enqueued
    BY <1>6 DEF Reads, Enqueued
  <2>2. worker[w].tx \in Enqueued
    BY <1>2, <1>6 DEF Reads, Active
  <2> QED BY <1>3, <1>6, <2>1, <2>2, WorkerAnnounced DEF Reads
<1>7. ASSUME NEW w \in Workers, Alone(w), Rests(worker[w], worker'[w]), Quiet PROVE TopAnnounced'
  <2>1. Enqueued' = Enqueued /\ flags' = flags /\ announced' = announced
    BY <1>1, <1>7 DEF Quiet
  <2>2. CASE worker'[w].pc = "free"
    BY <1>3, <1>7, <2>1, <2>2, WorkerAnnounced DEF Active
  <2>3. CASE worker'[w].pc # "free"
    <3>1. /\ worker[w].pc \in {"sending", "marking"} /\ worker'[w].pc = "sending"
          /\ worker'[w].tx = worker[w].tx /\ worker'[w].total = worker[w].total
      BY <1>7, <2>3 DEF Rests
    <3>2. worker[w].tx \in Enqueued
      BY <1>2, <3>1 DEF Active
    <3>3. Latest(worker[w].tx) => worker[w].total = Total
      BY <3>1 DEF TopAnnounced, TotalsRead
    <3> QED BY <1>3, <1>7, <2>1, <3>1, <3>2, <3>3, WorkerAnnounced
  <2> QED BY <2>2, <2>3
<1>8. ASSUME NEW w \in Workers, Alone(w), NEW s \in Steps, Performs(w, s) PROVE TopAnnounced'
  <2>1. /\ worker[w].pc = "sending" /\ worker'[w].pc = "marking" /\ worker'[w].tx = worker[w].tx
        /\ worker'[w].total = worker[w].total /\ worker'[w].todo = worker[w].todo
        /\ First(s, worker[w].todo) /\ row' = row /\ flags' = flags
    BY <1>8 DEF Performs
  <2>2. Enqueued' = Enqueued /\ worker[w].tx \in Enqueued
    BY <1>2, <2>1 DEF Enqueued, Active
  <2>3. Latest(worker[w].tx) => worker[w].total = Total
    BY <2>1 DEF TopAnnounced, TotalsRead
  <2>4. First("savings_notified", worker[w].todo) => s = "savings_notified"
    <3> SUFFICES ASSUME First("savings_notified", worker[w].todo) PROVE s = "savings_notified"
      OBVIOUS
    <3>1. "savings_notified" \in Steps
      BY DEF Steps
    <3>2. Rank[s] <= Rank["savings_notified"] /\ Rank["savings_notified"] <= Rank[s]
      BY <2>1 DEF First
    <3> QED BY <3>1, <3>2, RankInjective
  <2>5. /\ announced \subseteq announced'
        /\ s = "savings_notified" => Top(worker[w].total) \subseteq announced'
    <3>1. "savings_notified" \notin Mails
      BY OutboxAssumption DEF Mails
    <3> QED BY <1>8, <3>1 DEF Performs, Top
  <2> QED BY <1>3, <1>8, <2>1, <2>2, <2>3, <2>4, <2>5, WorkerAnnounced
<1>9. ASSUME NEW w \in Workers, Alone(w), NEW s \in Steps, Marks(w, s) PROVE TopAnnounced'
  <2>1. /\ worker[w].pc = "marking" \/ (worker[w].pc = "sending" /\ s \in Notices)
        /\ worker'[w].pc = "sending" /\ worker'[w].tx = worker[w].tx
        /\ worker'[w].total = worker[w].total /\ First(s, worker[w].todo)
        /\ row' = row /\ announced' = announced
        /\ flags' = [flags EXCEPT ![worker[w].tx] = @ \cup {s}]
    BY <1>9 DEF Marks
  <2>2. Enqueued' = Enqueued /\ worker[w].tx \in Enqueued
    BY <1>2, <2>1 DEF Enqueued, Active
  <2>3. Latest(worker[w].tx) => worker[w].total = Total
    BY <2>1 DEF TopAnnounced, TotalsRead
  <2>4. \A p \in Purchases \ Enqueued : flags'[p] = flags[p]
    BY <2>1, <2>2 DEF TypeOK
  <2>5. ASSUME NEW p \in Purchases, Latest(p), "savings_notified" \in flags'[p]
        PROVE  Top(Total) \subseteq announced'
    <3>1. CASE "savings_notified" \in flags[p]
      BY <1>3, <2>1, <2>5, <3>1
    <3>2. CASE "savings_notified" \notin flags[p]
      <4>1. p = worker[w].tx /\ s = "savings_notified"
        BY <2>1, <2>5, <3>2 DEF TypeOK
      <4>2. worker[w].pc = "marking"
        BY <2>1, <4>1 DEF Notices
      <4> QED BY <2>1, <2>3, <2>5, <4>1, <4>2 DEF TopAnnounced, TopBeforeMark
    <3> QED BY <3>1, <3>2
  <2> QED BY <1>9, <2>1, <2>2, <2>3, <2>4, <2>5, WorkerAnnounced
<1> QED BY <1>0, <1>4, <1>5, <1>6, <1>7, <1>8, <1>9, NextSteps, EnqueueAnnounced

THEOREM TopAnnouncedHolds == Spec => []TopAnnounced
<1>1. Init => TopAnnounced
  <2> SUFFICES ASSUME Init PROVE TopAnnounced
    OBVIOUS
  <2>1. Enqueued = {} /\ \A w \in Workers : worker[w].pc = "free"
    BY DEF Init, Enqueued, Free
  <2>2. \A p \in Purchases : flags[p] = {} /\ ~Latest(p)
    BY <2>1 DEF Init, Latest
  <2> QED BY <2>1, <2>2 DEF TopAnnounced, InOrder, TotalsRead, TopBeforeMark, TopMarked, Active
<1> QED BY <1>1, NextAnnounced, Typed, PTL DEF Spec

\* Every attempt leaves at most one copy of each mail.
THEOREM MailPerAttemptHolds == Spec => []MailPerAttempt
<1>1. Init => MailsOwed
  <2> SUFFICES ASSUME Init, NEW p \in Purchases, NEW s \in Mails
               PROVE  IsFiniteSet(Owing(p, s)) /\ mails[p][s] + Cardinality(Owing(p, s)) <= row[p].attempts
    BY DEF MailsOwed
  <2>1. Owing(p, s) = {}
    BY DEF Init, Owing, Owes, Free
  <2> QED BY <2>1, FS_EmptySet DEF Init
<1>2. TypeOK /\ TypeOK' /\ TopAnnounced /\ MailsOwed /\ [Next]_vars => MailsOwed'
  BY NextMailsOwed, OrderStarted DEF TopAnnounced
<1>3. TypeOK /\ MailsOwed => MailPerAttempt
  <2> SUFFICES ASSUME TypeOK, MailsOwed, NEW p \in Purchases, NEW s \in Mails
               PROVE  mails[p][s] <= row[p].attempts
    BY DEF MailPerAttempt
  <2>1. /\ Cardinality(Owing(p, s)) \in Nat /\ mails[p][s] \in Nat /\ row[p].attempts \in Nat
        /\ mails[p][s] + Cardinality(Owing(p, s)) <= row[p].attempts
    BY FS_CardinalityType DEF MailsOwed, TypeOK, RowType
  <2> QED BY <2>1
<1> QED BY <1>1, <1>2, <1>3, Typed, TopAnnouncedHolds, PTL DEF Spec

\* Once all is delivered, the highest milestone reached has been announced.
THEOREM MilestoneAnnouncedHolds == Spec => []MilestoneAnnounced
<1>1. TypeOK /\ Truthful /\ TopAnnounced => MilestoneAnnounced
  <2> SUFFICES ASSUME TypeOK, Truthful, TopAnnounced, \A p \in Enqueued : row[p].status = "delivered",
                      NEW m \in Top(Total)
               PROVE  m \in announced
    BY DEF MilestoneAnnounced, Top
  <2>1. CASE Enqueued = {}
    <3>1. Total = 0
      BY <2>1, FS_EmptySet DEF Total
    <3> QED BY <3>1, OutboxAssumption DEF Top, Reached
  <2>2. CASE Enqueued # {}
    <3>1. PICK p \in Enqueued : Latest(p)
      BY <2>2 DEF TopAnnounced, InOrder
    <3>2. flags[p] = Steps /\ p \in Purchases
      BY DEF Truthful, DeliveredMarked, Enqueued
    <3>3. "savings_notified" \in flags[p]
      BY <3>2 DEF Steps
    <3> QED BY <3>1, <3>2, <3>3 DEF TopAnnounced, TopMarked
  <2> QED BY <2>1, <2>2
<1> QED BY <1>1, Typed, TruthfulHolds, TopAnnouncedHolds, PTL
=============================================================================
