---------------------------- MODULE DeletionLedger ----------------------------
(***************************************************************************)
(* Erasure of academic profiles.  A deletion commits in PostgreSQL         *)
(* together with a row of the deletion ledger; afterwards a line is        *)
(* appended to a file on the host, which survives a restore of the         *)
(* database.  Rows without a line are an outbox that a dispatcher, a       *)
(* repeated DELETE and the retention job publish.  When the server starts  *)
(* it refuses a file that looks damaged, removes the profiles the file     *)
(* says were erased, and only then listens.                                *)
(*                                                                         *)
(* Appends are synchronous and hold a lock file, so two of them never      *)
(* overlap; a process may die inside one.                                  *)
(***************************************************************************)
EXTENDS Integers, Sequences, SequencesExt

CONSTANTS Users,
          Handlers,   \* DELETE requests in flight
          MaxGen,     \* bound on generations, the profiles ever created
          Budgets     \* bounds on whatever may happen without end, see Kinds

Nobody == "nobody"
Dispatcher == "dispatcher"  \* the timer in the server, and its run at startup
Job == "retention job"      \* a process of its own
Workers == Handlers \cup {Dispatcher, Job}

\* What Budgets bounds: deaths of the server or the host, failing appends,
\* restored dumps, files lost or cut short, closed accounts, runs of the
\* retention job, and deaths of the job alone.
Kinds == {"crashes", "failures", "restores", "losses", "cuts", "closures", "runs", "kills"}

ASSUME LedgerAssumption ==
    /\ MaxGen \in Nat
    /\ Handlers \cap {Nobody, Dispatcher, Job} = {}
    /\ Budgets \subseteq [Kinds -> Nat]

VARIABLES
    live,      \* student_academic_profiles: the user's generation, 0 without a row
    ledger,    \* academic_profile_deletion_ledger: the generations it names
    published, \* those with host_published_at
    account,   \* users.deleted_at: "open", "closed", or "due" past the retention window
    made,      \* history: the owner of every generation
    erasures,  \* history: the clock of erased_at, and every generation's stamp
    host,      \* the file and its markers
    lock,      \* holder of the lock file
    worker,    \* requests, dispatcher and retention job
    server,    \* the API process
    backup,    \* the last dump of the database
    acked,     \* history: erasures the student was told of
    budget     \* what may still happen of each bounded kind

dbVars == <<live, ledger, published, account>>
vars == <<dbVars, made, erasures, host, lock, worker, server, backup, acked, budget>>

Generations == 1..MaxGen
Free == [pc |-> "free", user |-> Nobody, list |-> {}, skip |-> FALSE]
NoTail == [count |-> -1, last |-> 0]

\* ledgerTailState: what the tail marker of a file says.
Describe(lines) == [count |-> Len(lines), last |-> IF lines = <<>> THEN 0 ELSE Last(lines)]

\* A generation is a UUID, the live row of at most one user.
Database == [live : [Users -> Generations \cup {0}], ledger : SUBSET Generations,
             published : SUBSET Generations, account : [Users -> {"open", "closed", "due"}]]

Snapshot == [live |-> live, ledger |-> ledger, published |-> published, account |-> account]

HostType == [ever : BOOLEAN, lines : Seq(Generations), synced : Nat, torn : BOOLEAN,
             tail : [count : Nat \cup {-1}, last : Generations \cup {0}]]

WorkerType == [pc : {"free", "outbox", "recover", "lost", "publish", "append", "mark", "batch"},
               user : Users \cup {Nobody}, list : SUBSET Generations, skip : BOOLEAN]

TypeOK ==
    /\ Snapshot \in Database /\ backup \in Database
    /\ made \in Seq(Users) /\ Len(made) <= MaxGen
    /\ erasures \in [now : Nat, at : [Generations -> Nat]]
    /\ host \in HostType /\ host.synced <= Len(host.lines)
    /\ lock \in Workers \cup {Nobody}
    /\ worker \in [Workers -> WorkerType]
    /\ server \in {"down", "rebuilding", "reconciling", "restoring", "up"}
    /\ acked \subseteq Generations
    /\ budget \in [Kinds -> Nat]

Init ==
    /\ live = [u \in Users |-> 0]
    /\ ledger = {} /\ published = {}
    /\ account = [u \in Users |-> "open"]
    /\ made = <<>>
    /\ erasures = [now |-> 0, at |-> [g \in Generations |-> 0]]
    /\ host = [ever |-> FALSE, lines |-> <<>>, synced |-> 0, torn |-> FALSE, tail |-> NoTail]
    /\ lock = Nobody
    /\ worker = [w \in Workers |-> Free]
    /\ server = "up"
    /\ backup = Snapshot
    /\ acked = {}
    /\ budget \in Budgets

-----------------------------------------------------------------------------
Unpublished == ledger \ published

\* recordDeletionInDatabase stamps erased_at; the order in a batch is left open.
Recorded(gone) ==
    [now |-> erasures.now + 1,
     at |-> [g \in Generations |-> IF g \in gone THEN erasures.now + 1 ELSE erasures.at[g]]]

\* ORDER BY erased_at, when there is a line to write.
Earliest(lines) == {g \in lines : \A h \in lines : erasures.at[g] <= erasures.at[h]}

Of(u) == {g \in Generations : g <= Len(made) /\ made[g] = u}

\* A row lock on the user is held by a repeated DELETE until it commits; the
\* first DELETE has committed before it appends.
RowLocked(u) == \E w \in Handlers : worker[w].user = u /\ worker[w].pc # "append"

Set(w, r) == worker' = [worker EXCEPT ![w] = r]

FileEmpty == host.lines = <<>> /\ ~host.torn
TailShort == host.torn \/ host.tail.count # Len(host.lines)
TailWrong == host.torn \/ host.tail # Describe(host.lines)

\* Mutated: a file that its marker does not describe is not taken for lost.
LostOnlyWhenMissing == host.ever /\ FileEmpty

\* republishMissingDurableLedgerEntries: ledgerLost.
Lost == host.ever /\ (FileEmpty \/ TailWrong)

\* prepareLedgerAppend and the tail check of an append: neither recreate a lost
\* file nor extend a damaged one, unless its history is being rebuilt.
Accepts(rebuild) == rebuild \/ IF FileEmpty THEN ~host.ever ELSE ~TailShort

\* Mutated: the line is written, not flushed, before the tail marker is.
AppendedUnflushed(g) ==
    LET lines == Append(host.lines, g) IN
    [host EXCEPT !.ever = TRUE, !.lines = lines, !.tail = Describe(lines)]

\* A whole append: ever-written marker, line, flush, tail marker.
Appended(g) ==
    LET lines == Append(host.lines, g) IN
    [host EXCEPT !.ever = TRUE, !.lines = lines, !.synced = Len(lines), !.tail = Describe(lines)]

\* What an append leaves that throws on the way: nothing but the ever-written
\* marker (a short write is truncated away), a line whose directory entry was
\* not flushed, or a line without a tail marker.
Interrupted(g) ==
    LET marked == [host EXCEPT !.ever = TRUE]
        lines == Append(host.lines, g)
    IN {marked,
        [marked EXCEPT !.lines = lines],
        [marked EXCEPT !.lines = lines, !.synced = Len(lines), !.tail = NoTail]}

\* A process that dies inside the append may also leave half a line.
Killed(g) == Interrupted(g) \cup {[host EXCEPT !.ever = TRUE, !.torn = TRUE]}

\* The line the worker writes next.
Writing(w) ==
    CASE worker[w].pc = "append" /\ lock = Nobody -> Earliest(worker[w].list)
      [] worker[w].pc = "publish" -> Earliest(worker[w].list \ Range(host.lines))
      [] OTHER -> {}

-----------------------------------------------------------------------------
\* PUT of a student without a profile; later saves keep the generation.
Save(u) ==
    /\ server = "up" /\ account[u] = "open" /\ ~RowLocked(u)
    /\ live[u] = 0 /\ Len(made) < MaxGen
    /\ made' = Append(made, u)
    /\ live' = [live EXCEPT ![u] = Len(made) + 1]
    /\ UNCHANGED <<ledger, published, account, erasures, host, lock, worker, server, backup, acked, budget>>

\* DELETE of the profile: row and ledger row go in one transaction.
Erase(w, u) ==
    /\ server = "up" /\ worker[w].pc = "free"
    /\ account[u] = "open" /\ ~RowLocked(u) /\ live[u] # 0
    /\ live' = [live EXCEPT ![u] = 0]
    /\ ledger' = ledger \cup {live[u]}
    /\ erasures' = Recorded({live[u]})
    /\ Set(w, [Free EXCEPT !.pc = "append", !.user = u, !.list = {live[u]}])
    /\ UNCHANGED <<published, account, made, host, lock, server, backup, acked, budget>>

\* DELETE when the profile is gone already: publish what the first one left.
EraseAgain(w, u) ==
    /\ server = "up" /\ worker[w].pc = "free"
    /\ account[u] = "open" /\ ~RowLocked(u) /\ live[u] = 0
    /\ Set(w, [Free EXCEPT !.pc = "outbox", !.user = u, !.list = Unpublished \cap Of(u)])
    /\ UNCHANGED <<dbVars, made, erasures, host, lock, server, backup, acked, budget>>

\* Every minute, one run at a time.
Dispatch ==
    /\ server = "up" /\ worker[Dispatcher].pc = "free"
    /\ Set(Dispatcher, [Free EXCEPT !.pc = "outbox", !.list = Unpublished])
    /\ UNCHANGED <<dbVars, made, erasures, host, lock, server, backup, acked, budget>>

\* The retention job, one at a time by an advisory lock, publishes first.
StartJob ==
    /\ budget.runs > 0
    /\ budget' = [budget EXCEPT !.runs = @ - 1]
    /\ worker[Job].pc = "free"
    /\ Set(Job, [Free EXCEPT !.pc = "outbox", !.list = Unpublished])
    /\ UNCHANGED <<dbVars, made, erasures, host, lock, server, backup, acked>>

\* A batch holds every profile of an account past its window.
PurgeBatch ==
    LET due == {u \in Users : account[u] = "due" /\ live[u] # 0 /\ ~RowLocked(u)}
        gone == {live[u] : u \in due}
    IN
    /\ worker[Job].pc = "batch"
    /\ live' = [u \in Users |-> IF u \in due THEN 0 ELSE live[u]]
    /\ ledger' = ledger \cup gone
    /\ erasures' = Recorded(gone)
    /\ Set(Job, IF due = {} THEN Free ELSE [Free EXCEPT !.pc = "append", !.list = gone])
    /\ UNCHANGED <<published, account, made, host, lock, server, backup, acked, budget>>

CloseAccount(u) ==
    /\ budget.closures > 0
    /\ budget' = [budget EXCEPT !.closures = @ - 1]
    /\ server = "up" /\ account[u] = "open" /\ ~RowLocked(u)
    /\ account' = [account EXCEPT ![u] = "closed"]
    /\ UNCHANGED <<live, ledger, published, made, erasures, host, lock, worker, server, backup, acked>>

WindowEnds(u) ==
    /\ account[u] = "closed"
    /\ account' = [account EXCEPT ![u] = "due"]
    /\ UNCHANGED <<live, ledger, published, made, erasures, host, lock, worker, server, backup, acked, budget>>

\* Support reverses a closure.
ReopenAccount(u) ==
    /\ account[u] # "open"
    /\ account' = [account EXCEPT ![u] = "open"]
    /\ UNCHANGED <<live, ledger, published, made, erasures, host, lock, worker, server, backup, acked, budget>>

-----------------------------------------------------------------------------
\* An append of one's own, after COMMIT.  The student is told once it returns.
AppendOwn(w) ==
    /\ worker[w].pc = "append" /\ lock = Nobody /\ Accepts(FALSE)
    /\ \E g \in Writing(w) :
          /\ host' = Appended(g)
          /\ Set(w, IF worker[w].list = {g} THEN Free ELSE [worker[w] EXCEPT !.list = @ \ {g}])
          /\ acked' = IF w \in Handlers THEN acked \cup {g} ELSE acked
    /\ UNCHANGED <<dbVars, made, erasures, lock, server, backup, budget>>

\* A run ends with an error; at startup the server ends with it.
Abort(w) ==
    /\ Set(w, Free)
    /\ lock' = IF lock = w THEN Nobody ELSE lock
    /\ server' = IF w = Dispatcher /\ server = "rebuilding" THEN "down" ELSE server
    /\ UNCHANGED <<dbVars, made, erasures, backup, acked>>

AppendRefused(w) ==
    /\ \/ worker[w].pc = "append" /\ lock = Nobody /\ ~Accepts(FALSE)
       \/ Writing(w) # {} /\ worker[w].pc = "publish" /\ ~Accepts(worker[w].skip)
    /\ Abort(w)
    /\ UNCHANGED <<host, budget>>

AppendFails(w) ==
    /\ budget.failures > 0
    /\ Accepts(worker[w].skip)
    /\ \E g \in Writing(w) : host' \in Interrupted(g)
    /\ budget' = [budget EXCEPT !.failures = @ - 1]
    /\ Abort(w)

-----------------------------------------------------------------------------
\* Republication takes the lock and reads the file.  Lines already there are
\* flushed again before their rows may be marked.
Enter(w, list, rebuild) ==
    /\ lock' = w
    /\ Set(w, [worker[w] EXCEPT !.pc = "publish", !.list = list, !.skip = rebuild])
    /\ host' = [host EXCEPT !.ever = @ \/ host.lines # <<>>,
                            !.synced = IF list \cap Range(host.lines) # {}
                                       THEN Len(host.lines) ELSE @]

\* The gate of a start: an empty file only before the first append, otherwise
\* a file that its tail marker describes.
Gate(h) == IF h.lines = <<>> /\ ~h.torn THEN ~h.ever
           ELSE h.ever /\ ~h.torn /\ h.tail = Describe(h.lines)

\* Mutated: a file that passes the gate is not reconciled.
OpenedAsIs(h) == IF Gate(h) THEN "up" ELSE "down"

\* What follows the gate: profiles are reconciled when there is a file.
Opened(h) == CASE ~Gate(h) -> "down"
               [] Gate(h) /\ h.lines = <<>> -> "up"
               [] OTHER -> "reconciling"

\* A republication returns: the job goes on with its batch, a repeated DELETE
\* commits and answers, a starting server looks at its file again.
Return(w, told) ==
    /\ Set(w, IF w = Job THEN [Free EXCEPT !.pc = "batch"] ELSE Free)
    /\ acked' = IF w \in Handlers THEN acked \cup told ELSE acked
    /\ server' = IF w = Dispatcher /\ server = "rebuilding" THEN Opened(host') ELSE server

\* Nothing to publish and a file of the length its marker says.
Idle(w) ==
    /\ worker[w].pc = "outbox" /\ lock = Nobody
    /\ worker[w].list = {}
    /\ FileEmpty \/ ~TailShort
    /\ host' = [host EXCEPT !.ever = @ \/ ~FileEmpty]
    /\ Return(w, {})
    /\ UNCHANGED <<dbVars, made, erasures, lock, backup, budget>>

Continue(w) ==
    /\ worker[w].pc = "outbox" /\ lock = Nobody
    /\ \/ /\ worker[w].list = {} /\ ~FileEmpty /\ TailShort
          /\ Set(w, [worker[w] EXCEPT !.pc = "recover"])
          /\ host' = [host EXCEPT !.ever = TRUE]
          /\ UNCHANGED lock
       \/ /\ worker[w].list # {} /\ Lost
          /\ Set(w, [worker[w] EXCEPT !.pc = "lost"])
          /\ UNCHANGED <<host, lock>>
       \/ /\ worker[w].list # {} /\ ~Lost
          /\ Enter(w, worker[w].list, FALSE)
    /\ UNCHANGED <<dbVars, made, erasures, server, backup, acked, budget>>

\* recoverLedgerTailWithClient: the file names exactly the committed erasures.
Complete == ~host.torn /\ Range(host.lines) = ledger

Recover(w) ==
    /\ worker[w].pc = "recover" /\ lock = Nobody
    /\ Complete
    /\ host' = [host EXCEPT !.tail = Describe(host.lines)]
    /\ Return(w, {})
    /\ UNCHANGED <<dbVars, made, erasures, lock, backup, budget>>

\* Otherwise the whole history is the list to publish.
RecoverFails(w) ==
    /\ worker[w].pc = "recover" /\ lock = Nobody
    /\ ~Complete
    /\ IF Lost THEN /\ Set(w, [worker[w] EXCEPT !.pc = "lost"])
                    /\ UNCHANGED <<host, lock>>
               ELSE Enter(w, ledger, FALSE)
    /\ UNCHANGED <<dbVars, made, erasures, server, backup, acked, budget>>

\* A lost or damaged file is rebuilt from the committed history; half a line
\* makes reading it throw.
LoadHistory(w) ==
    /\ worker[w].pc = "lost" /\ lock = Nobody
    /\ IF host.torn THEN Abort(w) /\ UNCHANGED host
                    ELSE Enter(w, ledger, TRUE) /\ UNCHANGED <<dbVars, made, erasures, server, backup, acked>>
    /\ UNCHANGED budget

PublishLine(w) ==
    /\ worker[w].pc = "publish" /\ Accepts(worker[w].skip)
    /\ \E g \in Writing(w) : host' = Appended(g)
    /\ UNCHANGED <<dbVars, made, erasures, lock, worker, server, backup, acked, budget>>

\* The file lock is released before the rows are marked.
Unlock(w) ==
    /\ worker[w].pc = "publish" /\ Writing(w) = {}
    /\ lock' = Nobody
    /\ Set(w, [worker[w] EXCEPT !.pc = "mark"])
    /\ UNCHANGED <<dbVars, made, erasures, host, server, backup, acked, budget>>

\* Row by row, except inside the transaction of a repeated DELETE.
MarkRows(w) ==
    /\ worker[w].pc = "mark"
    /\ worker[w].list \subseteq published \/ w \in Handlers
    /\ published' = published \cup worker[w].list
    /\ host' = host
    /\ Return(w, worker[w].list \cap Of(worker[w].user))
    /\ UNCHANGED <<live, ledger, account, made, erasures, lock, backup, budget>>

MarkRow(w) ==
    /\ worker[w].pc = "mark" /\ w \notin Handlers
    /\ \E g \in worker[w].list \ published : published' = published \cup {g}
    /\ UNCHANGED <<live, ledger, account, made, erasures, host, lock, worker, server, backup, acked, budget>>

-----------------------------------------------------------------------------
\* The gate of a start passes, or the tail marker can be advanced.
Start ==
    /\ server = "down"
    /\ \/ /\ Gate(host)
          /\ UNCHANGED host
          /\ server' = Opened(host)
       \/ /\ ~Gate(host) /\ Complete
          /\ host' = [host EXCEPT !.tail = Describe(host.lines)]
          /\ server' = Opened(host')
    /\ UNCHANGED <<dbVars, made, erasures, lock, worker, backup, acked, budget>>

\* Killed before the very first line: rebuild the file from the outbox.
StartRebuild ==
    /\ server = "down" /\ ~Gate(host) /\ ~Complete
    /\ FileEmpty /\ host.tail = NoTail
    /\ server' = "rebuilding"
    /\ Set(Dispatcher, [Free EXCEPT !.pc = "outbox", !.list = Unpublished])
    /\ UNCHANGED <<dbVars, made, erasures, host, lock, backup, acked, budget>>

\* Mutated: every profile of a student named in the file is removed.
PurgeByUser ==
    /\ server = "reconciling"
    /\ live' = [u \in Users |-> IF Of(u) \cap Range(host.lines) # {} THEN 0 ELSE live[u]]
    /\ server' = "restoring"
    /\ UNCHANGED <<ledger, published, account, made, erasures, host, lock, worker, backup, acked, budget>>

\* Reconciliation: a profile whose generation was erased is removed again,
ReconcilePurge ==
    /\ server = "reconciling"
    /\ live' = [u \in Users |-> IF live[u] \in Range(host.lines) THEN 0 ELSE live[u]]
    /\ server' = "restoring"
    /\ UNCHANGED <<ledger, published, account, made, erasures, host, lock, worker, backup, acked, budget>>

\* and, in a statement of its own, rows the restored database lacks are added.
ReconcileRows ==
    /\ server = "restoring"
    /\ ledger' = ledger \cup Range(host.lines)
    /\ server' = "up"
    /\ UNCHANGED <<live, published, account, made, erasures, host, lock, worker, backup, acked, budget>>

-----------------------------------------------------------------------------
Dump ==
    /\ budget.restores > 0
    /\ backup # Snapshot
    /\ backup' = Snapshot
    /\ UNCHANGED <<dbVars, made, erasures, host, lock, worker, server, acked, budget>>

\* An operator restores the last dump while nothing runs.
RestoreDump ==
    /\ budget.restores > 0
    /\ server = "down" /\ worker[Job].pc = "free"
    /\ budget' = [budget EXCEPT !.restores = @ - 1]
    /\ live' = backup.live /\ ledger' = backup.ledger
    /\ published' = backup.published /\ account' = backup.account
    /\ UNCHANGED <<made, erasures, host, lock, worker, server, backup, acked>>

\* Processes die: their lock is taken over, an append of theirs is cut short.
Die(W, kind) ==
    /\ budget[kind] > 0
    /\ budget' = [budget EXCEPT ![kind] = @ - 1]
    /\ worker' = [w \in Workers |-> IF w \in W THEN Free ELSE worker[w]]
    /\ lock' = IF lock \in W THEN Nobody ELSE lock

\* What the file may look like after they died.
Left(W) == {host} \cup UNION {Killed(g) : g \in UNION {Writing(w) : w \in W}}

ServerDies ==
    /\ server # "down"
    /\ Die(Workers \ {Job}, "crashes")
    /\ server' = "down"
    /\ host' \in Left(Workers \ {Job})
    /\ UNCHANGED <<dbVars, made, erasures, backup, acked>>

JobDies ==
    /\ worker[Job].pc # "free"
    /\ Die({Job}, "kills")
    /\ host' \in Left({Job})
    /\ UNCHANGED <<dbVars, made, erasures, server, backup, acked>>

\* With the host goes what was not flushed.
HostDies ==
    /\ server # "down"
    /\ Die(Workers, "crashes")
    /\ server' = "down"
    /\ \E h \in Left(Workers) :
          \E n \in h.synced..Len(h.lines) :
             host' = [h EXCEPT !.lines = SubSeq(@, 1, n), !.torn = @ /\ n = Len(h.lines)]
    /\ UNCHANGED <<dbVars, made, erasures, backup, acked>>

\* The volume loses the file, or its end, and keeps the markers.
LoseFile ==
    /\ budget.losses > 0 /\ lock = Nobody
    /\ budget' = [budget EXCEPT !.losses = @ - 1]
    /\ host.lines # <<>>
    /\ host' = [host EXCEPT !.lines = <<>>, !.synced = 0, !.torn = FALSE]
    /\ UNCHANGED <<dbVars, made, erasures, lock, worker, server, backup, acked>>

CutFile ==
    /\ budget.cuts > 0 /\ lock = Nobody
    /\ budget' = [budget EXCEPT !.cuts = @ - 1]
    /\ \E n \in 1..(Len(host.lines) - 1) :
          host' = [host EXCEPT !.lines = SubSeq(@, 1, n), !.synced = n]
    /\ UNCHANGED <<dbVars, made, erasures, lock, worker, server, backup, acked>>

Step(w) == \/ AppendOwn(w) \/ AppendRefused(w) \/ Idle(w) \/ Continue(w) \/ Recover(w)
           \/ RecoverFails(w) \/ LoadHistory(w) \/ PublishLine(w) \/ Unlock(w)
           \/ MarkRows(w) \/ MarkRow(w)
           \/ w = Job /\ PurgeBatch

Boot == Start \/ StartRebuild \/ ReconcilePurge \/ ReconcileRows

Next ==
    \/ \E u \in Users : Save(u) \/ CloseAccount(u) \/ WindowEnds(u) \/ ReopenAccount(u)
    \/ \E w \in Handlers, u \in Users : Erase(w, u) \/ EraseAgain(w, u)
    \/ \E w \in Workers : Step(w) \/ AppendFails(w)
    \/ Dispatch \/ StartJob \/ Boot
    \/ Dump \/ RestoreDump \/ ServerDies \/ JobDies \/ HostDies \/ LoseFile \/ CutFile

Spec == Init /\ [][Next]_vars

\* Code that runs goes on, the dispatcher has a timer, and the server is
\* started again after it went down.
Fairness ==
    /\ \A w \in Workers : WF_vars(Step(w))
    /\ WF_vars(Dispatch) /\ WF_vars(Boot)

FairSpec == Spec /\ Fairness

-----------------------------------------------------------------------------
\* Whatever dies, fails or is restored from a dump: a server that answers
\* requests never holds a profile its student was told is erased.
ErasedStaysErased ==
    server = "up" => \A g \in acked : live[made[g]] # g

Durable == {host.lines[i] : i \in 1..host.synced}

\* Whenever no publication is under way and the file passes the gate, it holds,
\* flushed, every erasure the outbox has given up on.
PublishedIsKept ==
    lock = Nobody /\ Gate(host) => published \subseteq Durable

\* A profile disappears only with a record of its own generation: neither the
\* retention job nor reconciliation takes the one a student made later.
OnlyErasedVanish ==
    [][budget'.restores = budget.restores =>
          \A u \in Users : live[u] # 0 /\ live'[u] # live[u] =>
              live[u] \in ledger' \cup Range(host'.lines)]_vars

\* As long as the server comes back and its file does not end in half a line,
\* the outbox is emptied again and again, so every committed erasure reaches the
\* file: a failed append, a crash after the commit or a lost file only delays it.
EveryErasurePublished ==
    []<>(server = "up" /\ ~host.torn) =>
        []<>(Unpublished = {})

\* A file that was lost is written again with every erasure on record, or is
\* refused; it never passes for whole with a part of them.
RebuiltIsWhole ==
    lock = Nobody /\ Gate(host) => published \subseteq Range(host.lines)
=============================================================================
