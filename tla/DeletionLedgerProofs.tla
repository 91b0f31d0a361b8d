------------------------- MODULE DeletionLedgerProofs -------------------------
(* What holds of DeletionLedger for every instance. *)
EXTENDS DeletionLedger, WellFoundedInduction, TLAPS

-----------------------------------------------------------------------------
(* The lines of the file, the stamps of the rows, and what an append leaves. *)

FileOK(h) == h \in HostType /\ h.synced <= Len(h.lines)

LEMMA DescribeTyped ==
    ASSUME NEW s \in Seq(Generations)
    PROVE  Describe(s) \in [count : Nat \cup {-1}, last : Generations \cup {0}]
  <1>1. CASE s = <<>>
    BY <1>1 DEF Describe
  <1>2. CASE s # <<>>
    <2>1. Len(s) \in Nat \ {0} /\ s[Len(s)] \in Generations
      BY <1>2
    <2> QED
      BY <1>2, <2>1 DEF Describe, Last
  <1> QED
    BY <1>1, <1>2

LEMMA RangeOf ==
    ASSUME NEW s \in Seq(Generations)
    PROVE  /\ Range(s) \subseteq Generations
           /\ \A i \in 1..Len(s) : s[i] \in Range(s)
           /\ \A g \in Range(s) : \E i \in 1..Len(s) : s[i] = g
           /\ (Range(s) = {}) <=> (s = <<>>)
  <1>1. DOMAIN s = 1..Len(s) /\ Len(s) \in Nat /\ \A i \in 1..Len(s) : s[i] \in Generations
    OBVIOUS
  <1>2. Range(s) = {s[i] : i \in 1..Len(s)}
    BY <1>1 DEF Range
  <1>3. s = <<>> => 1..Len(s) = {}
    OBVIOUS
  <1>4. s # <<>> => 1 \in 1..Len(s)
    OBVIOUS
  <1> QED
    BY <1>1, <1>2, <1>3, <1>4

LEMMA RangeAppend ==
    ASSUME NEW s \in Seq(Generations), NEW g \in Generations
    PROVE  Range(Append(s, g)) = Range(s) \cup {g}
  <1>1. Append(s, g) \in Seq(Generations) /\ Len(Append(s, g)) = Len(s) + 1
        /\ Append(s, g)[Len(s) + 1] = g /\ \A i \in 1..Len(s) : Append(s, g)[i] = s[i]
    OBVIOUS
  <1>2. ASSUME NEW x \in Range(Append(s, g)) PROVE x \in Range(s) \cup {g}
    <2>1. PICK i \in 1..(Len(s) + 1) : Append(s, g)[i] = x
      BY <1>1, <1>2, RangeOf
    <2>2. CASE i = Len(s) + 1
      BY <1>1, <2>1, <2>2
    <2>3. CASE i \in 1..Len(s)
      BY <1>1, <2>1, <2>3, RangeOf
    <2> QED
      BY <2>1, <2>2, <2>3
  <1>3. ASSUME NEW x \in Range(s) \cup {g} PROVE x \in Range(Append(s, g))
    <2>1. CASE x = g
      <3>1. Len(s) + 1 \in 1..Len(Append(s, g))
        BY <1>1
      <3> QED
        BY <1>1, <2>1, <3>1, RangeOf
    <2>2. CASE x \in Range(s)
      <3>1. PICK i \in 1..Len(s) : s[i] = x
        BY <2>2, RangeOf
      <3>2. i \in 1..Len(Append(s, g)) /\ Append(s, g)[i] = x
        BY <1>1, <3>1
      <3> QED
        BY <1>1, <3>2, RangeOf
    <2> QED
      BY <1>3, <2>1, <2>2
  <1> QED
    BY <1>2, <1>3

\* A prefix of the file.
LEMMA PrefixOf ==
    ASSUME NEW s \in Seq(Generations), NEW n \in 0..Len(s)
    PROVE  /\ SubSeq(s, 1, n) \in Seq(Generations) /\ Len(SubSeq(s, 1, n)) = n
           /\ \A i \in 1..n : SubSeq(s, 1, n)[i] = s[i]
           /\ Range(SubSeq(s, 1, n)) \subseteq Range(s)
           /\ n = Len(s) => SubSeq(s, 1, n) = s
  <1>1. /\ SubSeq(s, 1, n) \in Seq(Generations) /\ Len(SubSeq(s, 1, n)) = n
        /\ \A i \in 1..n : SubSeq(s, 1, n)[i] = s[i]
    OBVIOUS
  <1>2. ASSUME NEW x \in Range(SubSeq(s, 1, n)) PROVE x \in Range(s)
    <2>1. PICK i \in 1..n : SubSeq(s, 1, n)[i] = x
      BY <1>1, <1>2, RangeOf
    <2>2. i \in 1..Len(s) /\ s[i] = x
      BY <1>1, <2>1
    <2> QED
      BY <2>2, RangeOf
  <1>3. n = Len(s) => SubSeq(s, 1, n) = s
    OBVIOUS
  <1> QED
    BY <1>1, <1>2, <1>3

LEMMA AppendedIs ==
    ASSUME FileOK(host), NEW g \in Generations
    PROVE  /\ FileOK(Appended(g))
           /\ Appended(g).ever
           /\ Appended(g).lines = Append(host.lines, g)
           /\ Appended(g).synced = Len(Append(host.lines, g))
           /\ Appended(g).torn = host.torn
           /\ Appended(g).tail = Describe(Append(host.lines, g))
  <1>1. Append(host.lines, g) \in Seq(Generations)
        /\ Len(Append(host.lines, g)) \in Nat
    BY DEF FileOK, HostType
  <1>2. Describe(Append(host.lines, g)) \in [count : Nat \cup {-1}, last : Generations \cup {0}]
    BY <1>1, DescribeTyped
  <1>3. Appended(g) \in HostType
    BY <1>1, <1>2 DEF Appended, FileOK, HostType
  <1>4. /\ Appended(g).ever
        /\ Appended(g).lines = Append(host.lines, g)
        /\ Appended(g).synced = Len(Append(host.lines, g))
        /\ Appended(g).torn = host.torn
        /\ Appended(g).tail = Describe(Append(host.lines, g))
    BY DEF Appended, FileOK, HostType
  <1> QED
    BY <1>1, <1>3, <1>4 DEF FileOK

\* The lines and the flushed part of a file after an append that was cut short.
CutShort(h, g) ==
    /\ FileOK(h)
    /\ \/ h.lines = host.lines /\ h.synced = host.synced
       \/ h.lines = Append(host.lines, g) /\ h.synced \in {host.synced, Len(h.lines)}

LEMMA KilledLeaves ==
    ASSUME FileOK(host), NEW g \in Generations, NEW h \in Killed(g)
    PROVE  CutShort(h, g)
  <1> DEFINE marked == [host EXCEPT !.ever = TRUE]
             lines == Append(host.lines, g)
  <1>1. lines \in Seq(Generations) /\ Len(lines) = Len(host.lines) + 1 /\ Len(lines) \in Nat
    BY DEF FileOK, HostType
  <1>2. marked \in HostType /\ marked.lines = host.lines /\ marked.synced = host.synced
    BY DEF FileOK, HostType
  <1>3. NoTail \in [count : Nat \cup {-1}, last : Generations \cup {0}]
    BY DEF NoTail
  <1>4. CASE h = marked
    BY <1>2, <1>4 DEF CutShort, FileOK
  <1> HIDE DEF marked, lines
  <1>5. CASE h = [marked EXCEPT !.lines = lines]
    <2>1. h \in HostType /\ h.lines = lines /\ h.synced = host.synced
      BY <1>1, <1>2, <1>5 DEF HostType
    <2>2. host.synced <= Len(lines)
      BY <1>1 DEF FileOK, HostType
    <2> QED
      BY <2>1, <2>2 DEF CutShort, FileOK, lines
  <1>6. CASE h = [marked EXCEPT !.lines = lines, !.synced = Len(lines), !.tail = NoTail]
    <2>1. h \in HostType /\ h.lines = lines /\ h.synced = Len(lines)
      BY <1>1, <1>2, <1>3, <1>6 DEF HostType
    <2> QED
      BY <1>1, <2>1 DEF CutShort, FileOK, lines
  <1>7. CASE h = [host EXCEPT !.ever = TRUE, !.torn = TRUE]
    <2>1. h \in HostType /\ h.lines = host.lines /\ h.synced = host.synced
      BY <1>7 DEF FileOK, HostType
    <2> QED
      BY <2>1 DEF CutShort, FileOK
  <1> QED
    BY <1>4, <1>5, <1>6, <1>7 DEF Killed, Interrupted, marked, lines

\* The earliest of some rows exists, and is one of them.
LEMMA EarliestExists ==
    ASSUME erasures.at \in [Generations -> Nat], NEW lines \in SUBSET Generations
    PROVE  /\ Earliest(lines) \subseteq lines
           /\ lines # {} => Earliest(lines) # {}
  <1>1. Earliest(lines) \subseteq lines
    BY DEF Earliest
  <1>2. ASSUME lines # {} PROVE Earliest(lines) # {}
    <2> DEFINE stamps == {erasures.at[g] : g \in lines}
    <2>1. stamps \subseteq Nat /\ stamps # {}
      BY <1>2
    <2>2. PICK t \in stamps : \A n \in stamps : ~ (<<n, t>> \in OpToRel(<, Nat))
      BY <2>1, NatLessThanWellFounded, WFMin
    <2>3. ASSUME NEW n \in stamps PROVE t <= n
      <3>1. n \in Nat /\ t \in Nat
        BY <2>1
      <3>2. n < t => <<n, t>> \in OpToRel(<, Nat)
        BY <3>1 DEF OpToRel
      <3>3. ~ (n < t)
        BY <2>2, <3>2, Zenon
      <3> QED
        BY <3>1, <3>3
    <2>4. PICK g \in lines : erasures.at[g] = t
      OBVIOUS
    <2> QED
      BY <2>3, <2>4 DEF Earliest
  <1> QED
    BY <1>1, <1>2

-----------------------------------------------------------------------------
(* What the helpers of the actions do to workers, lock and file. *)

LEMMA Fields ==
    ASSUME TypeOK
    PROVE  /\ live \in [Users -> Generations \cup {0}]
           /\ ledger \in SUBSET Generations /\ published \in SUBSET Generations
           /\ account \in [Users -> {"open", "closed", "due"}]
           /\ backup.live \in [Users -> Generations \cup {0}]
           /\ backup.ledger \in SUBSET Generations /\ backup.published \in SUBSET Generations
           /\ backup.account \in [Users -> {"open", "closed", "due"}]
           /\ FileOK(host)
           /\ worker \in [Workers -> WorkerType]
  BY DEF TypeOK, Snapshot, Database, FileOK

LEMMA WorkerFields ==
    ASSUME TypeOK, NEW w \in Workers
    PROVE  /\ worker[w] \in WorkerType
           /\ worker[w].list \in SUBSET Generations
           /\ worker[w].user \in Users \cup {Nobody}
           /\ worker[w].skip \in BOOLEAN
  BY Fields DEF WorkerType

Pcs == {"free", "outbox", "recover", "lost", "publish", "append", "mark", "batch"}

\* One worker goes on with another list; the others stay as they are.
Moves(w, pc, list) ==
    /\ worker' \in [Workers -> WorkerType]
    /\ worker'[w].pc = pc /\ worker'[w].list = list
    /\ \A v \in Workers \ {w} : worker'[v] = worker[v]

LEMMA SetIs ==
    ASSUME TypeOK, NEW w \in Workers, NEW r \in WorkerType, Set(w, r)
    PROVE  Moves(w, r.pc, r.list) /\ worker'[w] = r
  BY Fields DEF Set, Moves

LEMMA TaskSet ==
    ASSUME TypeOK, NEW w \in Workers,
           NEW pc \in Pcs, NEW u \in Users \cup {Nobody}, NEW list \in SUBSET Generations,
           Set(w, [Free EXCEPT !.pc = pc, !.user = u, !.list = list])
    PROVE  Moves(w, pc, list)
  <1> DEFINE r == [Free EXCEPT !.pc = pc, !.user = u, !.list = list]
  <1>1. r \in WorkerType /\ r.pc = pc /\ r.list = list
    BY DEF Free, WorkerType, Pcs
  <1>2. Set(w, r)
    OBVIOUS
  <1> HIDE DEF r
  <1> QED
    BY <1>1, <1>2, SetIs

LEMMA FreeIs == Free \in WorkerType /\ Free.pc = "free" /\ Free.list = {} /\ Free.user = Nobody
  BY DEF Free, WorkerType

LEMMA TaskWithoutUser ==
    ASSUME TypeOK, NEW w \in Workers, NEW pc \in Pcs, NEW list \in SUBSET Generations,
           Set(w, [Free EXCEPT !.pc = pc, !.list = list])
    PROVE  Moves(w, pc, list)
  <1> DEFINE r == [Free EXCEPT !.pc = pc, !.list = list]
  <1>1. r \in WorkerType /\ r.pc = pc /\ r.list = list
    BY DEF Free, WorkerType, Pcs
  <1>2. Set(w, r)
    OBVIOUS
  <1> HIDE DEF r
  <1> QED
    BY <1>1, <1>2, SetIs

LEMMA GoesOn ==
    ASSUME TypeOK, NEW w \in Workers, NEW pc \in Pcs, Set(w, [worker[w] EXCEPT !.pc = pc])
    PROVE  Moves(w, pc, worker[w].list)
  <1> DEFINE r == [worker[w] EXCEPT !.pc = pc]
  <1>1. r \in WorkerType /\ r.pc = pc /\ r.list = worker[w].list
    BY WorkerFields DEF WorkerType, Pcs
  <1>2. Set(w, r)
    OBVIOUS
  <1> HIDE DEF r
  <1> QED
    BY <1>1, <1>2, SetIs

LEMMA AbortIs ==
    ASSUME TypeOK, NEW w \in Workers, Abort(w)
    PROVE  /\ Moves(w, "free", {})
           /\ lock' = IF lock = w THEN Nobody ELSE lock
           /\ server' = server \/ (w = Dispatcher /\ server = "rebuilding" /\ server' = "down")
           /\ UNCHANGED <<live, ledger, published, account, made, erasures, backup, acked>>
  BY FreeIs, SetIs DEF Abort, dbVars

\* Entering a publication flushes what is there already and changes no line.
LEMMA EnterIs ==
    ASSUME TypeOK, NEW w \in Workers, NEW list \in SUBSET Generations, NEW rebuild \in BOOLEAN,
           Enter(w, list, rebuild)
    PROVE  /\ lock' = w
           /\ Moves(w, "publish", list) /\ worker'[w].skip = rebuild
           /\ FileOK(host')
           /\ host'.lines = host.lines /\ host'.torn = host.torn /\ host'.tail = host.tail
           /\ host'.ever = (host.ever \/ host.lines # <<>>)
           /\ host'.synced = IF list \cap Range(host.lines) # {}
                             THEN Len(host.lines) ELSE host.synced
  <1> DEFINE r == [worker[w] EXCEPT !.pc = "publish", !.list = list, !.skip = rebuild]
  <1>1. r \in WorkerType /\ r.pc = "publish" /\ r.list = list /\ r.skip = rebuild
    BY WorkerFields DEF WorkerType
  <1>2. Set(w, r)
    BY DEF Enter
  <1> HIDE DEF r
  <1>3. Moves(w, "publish", list) /\ worker'[w].skip = rebuild
    BY <1>1, <1>2, SetIs
  <1>4. FileOK(host) /\ Len(host.lines) \in Nat
    BY Fields DEF FileOK, HostType
  <1>5. /\ host' \in HostType
        /\ host'.lines = host.lines /\ host'.torn = host.torn /\ host'.tail = host.tail
        /\ host'.ever = (host.ever \/ host.lines # <<>>)
        /\ host'.synced = IF list \cap Range(host.lines) # {}
                          THEN Len(host.lines) ELSE host.synced
    BY <1>4 DEF Enter, FileOK, HostType
  <1> QED
    BY <1>3, <1>4, <1>5 DEF Enter, FileOK

LEMMA ReturnIs ==
    ASSUME TypeOK, NEW w \in Workers, NEW told \in SUBSET Generations, Return(w, told)
    PROVE  /\ Moves(w, IF w = Job THEN "batch" ELSE "free", {})
           /\ acked' \in {acked, acked \cup told}
           /\ server' = IF w = Dispatcher /\ server = "rebuilding" THEN Opened(host') ELSE server
  <1>1. CASE w = Job
    <2> DEFINE r == [Free EXCEPT !.pc = "batch"]
    <2>1. r \in WorkerType /\ r.pc = "batch" /\ r.list = {}
      BY DEF Free, WorkerType
    <2>2. Set(w, r)
      BY <1>1 DEF Return
    <2> HIDE DEF r
    <2>3. Moves(w, "batch", {})
      BY <2>1, <2>2, SetIs
    <2> QED
      BY <1>1, <2>3 DEF Return
  <1>2. CASE w # Job
    BY <1>2, FreeIs, SetIs DEF Return
  <1> QED
    BY <1>1, <1>2

LEMMA OpenedIs == ASSUME NEW h PROVE Opened(h) \in {"down", "up", "reconciling"}
  BY DEF Opened

LEMMA WritingIs ==
    ASSUME TypeOK, NEW w \in Workers
    PROVE  /\ Writing(w) \subseteq worker[w].list
           /\ Writing(w) # {} => \/ worker[w].pc = "append" /\ lock = Nobody
                                 \/ worker[w].pc = "publish"
           /\ worker[w].pc = "publish" /\ Writing(w) = {} => worker[w].list \subseteq Range(host.lines)
  <1>1. erasures.at \in [Generations -> Nat]
    BY DEF TypeOK
  <1>2. worker[w].list \in SUBSET Generations
        /\ worker[w].list \ Range(host.lines) \in SUBSET Generations
    BY WorkerFields
  <1>3. /\ Earliest(worker[w].list) \subseteq worker[w].list
        /\ Earliest(worker[w].list \ Range(host.lines)) \subseteq worker[w].list
        /\ Earliest(worker[w].list \ Range(host.lines)) = {} =>
               worker[w].list \subseteq Range(host.lines)
    BY <1>1, <1>2, EarliestExists
  <1>4. CASE worker[w].pc = "append" /\ lock = Nobody
    BY <1>3, <1>4 DEF Writing
  <1>5. CASE worker[w].pc = "publish"
    BY <1>3, <1>5 DEF Writing
  <1> QED
    BY <1>4, <1>5 DEF Writing

LEMMA LeftIs ==
    ASSUME TypeOK, NEW W \in SUBSET Workers, NEW h \in Left(W)
    PROVE  h = host \/ \E w \in W : \E g \in Writing(w) : CutShort(h, g)
  <1>1. FileOK(host)
    BY Fields
  <1>2. ASSUME NEW w \in W, NEW g \in Writing(w), h \in Killed(g) PROVE CutShort(h, g)
    <2>1. g \in Generations
      BY WritingIs, WorkerFields
    <2> QED
      BY <1>1, <1>2, <2>1, KilledLeaves
  <1> QED
    BY <1>2 DEF Left

-----------------------------------------------------------------------------
(* The types of the state. *)

DatabaseTyped ==
    /\ live \in [Users -> Generations \cup {0}]
    /\ ledger \in SUBSET Generations /\ published \in SUBSET Generations
    /\ account \in [Users -> {"open", "closed", "due"}]

HistoryTyped ==
    /\ made \in Seq(Users) /\ Len(made) <= MaxGen
    /\ erasures \in [now : Nat, at : [Generations -> Nat]]
    /\ acked \subseteq Generations

ControlTyped ==
    /\ lock \in Workers \cup {Nobody}
    /\ server \in {"down", "rebuilding", "reconciling", "restoring", "up"}

LEMMA TypedParts ==
    TypeOK <=> /\ DatabaseTyped /\ backup \in Database
               /\ HistoryTyped /\ ControlTyped /\ FileOK(host)
               /\ worker \in [Workers -> WorkerType]
               /\ budget \in [Kinds -> Nat]
  BY DEF TypeOK, DatabaseTyped, HistoryTyped, ControlTyped, FileOK, Snapshot, Database

LEMMA MaxGenNat == MaxGen \in Nat
  BY LedgerAssumption

LEMMA RecordedIs ==
    ASSUME erasures \in [now : Nat, at : [Generations -> Nat]], NEW gone
    PROVE  Recorded(gone) \in [now : Nat, at : [Generations -> Nat]]
  BY DEF Recorded

\* A bound is used up one by one, and only by the actions that name it.
LEMMA Spent ==
    ASSUME TypeOK, NEW k \in Kinds, budget[k] > 0, budget' = [budget EXCEPT ![k] = @ - 1]
    PROVE  /\ budget' \in [Kinds -> Nat]
           /\ budget'[k] = budget[k] - 1
           /\ \A i \in Kinds \ {k} : budget'[i] = budget[i]
  BY DEF TypeOK

LEMMA SpentOnce ==
    ASSUME TypeOK, [Next]_vars
    PROVE  /\ budget' \in [Kinds -> Nat]
           /\ \A k \in Kinds : budget[k] = 0 => budget'[k] = 0
  <1>1. budget \in [Kinds -> Nat]
    BY DEF TypeOK
  <1>2. CASE UNCHANGED budget
    BY <1>1, <1>2
  <1>3. CASE \E k \in Kinds : budget[k] > 0 /\ budget' = [budget EXCEPT ![k] = @ - 1]
    <2>1. PICK k \in Kinds : budget[k] > 0 /\ budget' = [budget EXCEPT ![k] = @ - 1]
      BY <1>3
    <2>2. budget' \in [Kinds -> Nat] /\ budget'[k] = budget[k] - 1
          /\ \A i \in Kinds \ {k} : budget'[i] = budget[i]
      BY <2>1, Spent
    <2> QED
      BY <1>1, <2>1, <2>2
  <1>4. UNCHANGED budget \/ \E k \in Kinds : budget[k] > 0 /\ budget' = [budget EXCEPT ![k] = @ - 1]
    <2>1. CASE UNCHANGED vars
      BY <2>1 DEF vars
    <2>2. ASSUME NEW u \in Users, Save(u) \/ CloseAccount(u) \/ WindowEnds(u) \/ ReopenAccount(u)
          PROVE  UNCHANGED budget \/ (budget["closures"] > 0 /\ budget' = [budget EXCEPT !["closures"] = @ - 1])
      BY <2>2 DEF Save, CloseAccount, WindowEnds, ReopenAccount
    <2>3. ASSUME NEW w \in Handlers, NEW u \in Users, Erase(w, u) \/ EraseAgain(w, u)
          PROVE  UNCHANGED budget
      BY <2>3 DEF Erase, EraseAgain
    <2>4. ASSUME NEW w \in Workers, Step(w) PROVE UNCHANGED budget
      BY <2>4 DEF Step, AppendOwn, AppendRefused, Idle, Continue, Recover, RecoverFails, LoadHistory,
                  PublishLine, Unlock, MarkRows, MarkRow, PurgeBatch
    <2>5. ASSUME NEW w \in Workers, AppendFails(w)
          PROVE  budget["failures"] > 0 /\ budget' = [budget EXCEPT !["failures"] = @ - 1]
      BY <2>5 DEF AppendFails
    <2>6. CASE Dispatch \/ Boot \/ Dump
      BY <2>6 DEF Dispatch, Boot, Dump, Start, StartRebuild, ReconcilePurge, ReconcileRows
    <2>7. CASE StartJob
      BY <2>7 DEF StartJob, Kinds
    <2>8. CASE RestoreDump
      BY <2>8 DEF RestoreDump, Kinds
    <2>9. CASE ServerDies \/ HostDies
      BY <2>9 DEF ServerDies, HostDies, Die, Kinds
    <2>10. CASE JobDies
      BY <2>10 DEF JobDies, Die, Kinds
    <2>11. CASE LoseFile
      BY <2>11 DEF LoseFile, Kinds
    <2>12. CASE CutFile
      BY <2>12 DEF CutFile, Kinds
    <2>13. "closures" \in Kinds /\ "failures" \in Kinds
      BY DEF Kinds
    <2> QED
      BY <2>1, <2>2, <2>3, <2>4, <2>5, <2>6, <2>7, <2>8, <2>9, <2>10, <2>11, <2>12, <2>13 DEF Next
  <1> QED
    BY <1>2, <1>3, <1>4

-----------------------------------------------------------------------------
(* What the actions do to the file and to its writers. *)

SameDatabase == UNCHANGED <<live, ledger, published, account, made, erasures, backup>>

\* The lines stay; more of them may be flushed, and markers written.
SameLines ==
    /\ FileOK(host')
    /\ host'.lines = host.lines /\ host'.torn = host.torn
    /\ host'.synced \in {host.synced, Len(host.lines)}

LEMMA MarkedHost ==
    ASSUME TypeOK, NEW b \in BOOLEAN, host' = [host EXCEPT !.ever = b]
    PROVE  SameLines /\ host'.ever = b /\ host'.tail = host.tail /\ host'.synced = host.synced
  <1>1. FileOK(host)
    BY Fields
  <1>2. host' \in HostType /\ host'.ever = b /\ host'.lines = host.lines
        /\ host'.torn = host.torn /\ host'.tail = host.tail /\ host'.synced = host.synced
    BY <1>1 DEF FileOK, HostType
  <1> QED
    BY <1>1, <1>2 DEF SameLines, FileOK

LEMMA TailHost ==
    ASSUME TypeOK, host' = [host EXCEPT !.tail = Describe(host.lines)]
    PROVE  SameLines /\ host'.ever = host.ever /\ host'.synced = host.synced
           /\ host'.tail = Describe(host.lines)
  <1>1. FileOK(host)
    BY Fields
  <1>2. Describe(host.lines) \in [count : Nat \cup {-1}, last : Generations \cup {0}]
    BY <1>1, DescribeTyped DEF FileOK, HostType
  <1>3. host' \in HostType /\ host'.ever = host.ever /\ host'.lines = host.lines
        /\ host'.torn = host.torn /\ host'.tail = Describe(host.lines) /\ host'.synced = host.synced
    BY <1>1, <1>2 DEF FileOK, HostType
  <1> QED
    BY <1>1, <1>3 DEF SameLines, FileOK

LEMMA SameHost == ASSUME TypeOK, UNCHANGED host PROVE SameLines
  BY Fields DEF SameLines

LEMMA EnterLines ==
    ASSUME TypeOK, NEW w \in Workers, NEW list \in SUBSET Generations, NEW rebuild \in BOOLEAN,
           Enter(w, list, rebuild)
    PROVE  SameLines
  BY EnterIs DEF SameLines

LEMMA AppendOwnIs ==
    ASSUME TypeOK, NEW w \in Workers, AppendOwn(w)
    PROVE  /\ SameDatabase /\ UNCHANGED <<lock, server>>
           /\ lock = Nobody /\ Accepts(FALSE) /\ worker[w].pc = "append"
           /\ \E g \in Writing(w) :
                 /\ host' = Appended(g) /\ FileOK(host')
                 /\ acked' \in {acked, acked \cup {g}}
                 /\ Moves(w, IF worker[w].list = {g} THEN "free" ELSE "append", worker[w].list \ {g})
  <1>1. PICK g \in Writing(w) :
          /\ host' = Appended(g)
          /\ Set(w, IF worker[w].list = {g} THEN Free ELSE [worker[w] EXCEPT !.list = @ \ {g}])
          /\ acked' = IF w \in Handlers THEN acked \cup {g} ELSE acked
    BY DEF AppendOwn
  <1>2. g \in Generations
    BY WritingIs, WorkerFields
  <1>3. FileOK(host')
    BY <1>1, <1>2, Fields, AppendedIs
  <1>4. worker[w].pc = "append"
    BY DEF AppendOwn
  <1>5. Moves(w, IF worker[w].list = {g} THEN "free" ELSE "append", worker[w].list \ {g})
    <2>1. CASE worker[w].list = {g}
      BY <1>1, <2>1, FreeIs, SetIs
    <2>2. CASE worker[w].list # {g}
      <3> DEFINE r == [worker[w] EXCEPT !.list = @ \ {g}]
      <3>1. r \in WorkerType /\ r.pc = "append" /\ r.list = worker[w].list \ {g}
        BY <1>4, WorkerFields DEF WorkerType
      <3>2. Set(w, r)
        BY <1>1, <2>2
      <3> HIDE DEF r
      <3> QED
        BY <2>2, <3>1, <3>2, SetIs
    <2> QED
      BY <2>1, <2>2
  <1> QED
    BY <1>1, <1>3, <1>4, <1>5 DEF AppendOwn, SameDatabase, dbVars

LEMMA AppendRefusedIs ==
    ASSUME TypeOK, NEW w \in Workers, AppendRefused(w)
    PROVE  Abort(w) /\ UNCHANGED host
  BY DEF AppendRefused

LEMMA AppendFailsIs ==
    ASSUME TypeOK, NEW w \in Workers, AppendFails(w)
    PROVE  Abort(w) /\ budget["failures"] > 0 /\ \E g \in Writing(w) : CutShort(host', g)
  <1>1. PICK g \in Writing(w) : host' \in Interrupted(g)
    BY DEF AppendFails
  <1>2. g \in Generations /\ host' \in Killed(g)
    BY <1>1, WritingIs, WorkerFields DEF Killed
  <1>3. CutShort(host', g)
    BY <1>2, Fields, KilledLeaves
  <1> QED
    BY <1>1, <1>3 DEF AppendFails

LEMMA IdleIs ==
    ASSUME TypeOK, NEW w \in Workers, Idle(w)
    PROVE  /\ SameDatabase /\ UNCHANGED <<lock, acked>> /\ lock = Nobody
           /\ SameLines /\ host'.tail = host.tail /\ host'.synced = host.synced
           /\ host'.ever = (host.ever \/ ~FileEmpty)
           /\ worker[w].pc = "outbox" /\ Return(w, {})
  <1>1. host' = [host EXCEPT !.ever = host.ever \/ ~FileEmpty]
    BY DEF Idle
  <1>2. acked' = acked
    BY DEF Idle, Return
  <1>3. (host.ever \/ ~FileEmpty) \in BOOLEAN
    OBVIOUS
  <1>4. SameLines /\ host'.tail = host.tail /\ host'.synced = host.synced
        /\ host'.ever = (host.ever \/ ~FileEmpty)
    BY <1>1, <1>3, MarkedHost
  <1> QED
    BY <1>2, <1>4 DEF Idle, SameDatabase, dbVars

LEMMA ContinueIs ==
    ASSUME TypeOK, NEW w \in Workers, Continue(w)
    PROVE  /\ SameDatabase /\ UNCHANGED <<server, acked>> /\ lock = Nobody
           /\ worker[w].pc = "outbox" /\ SameLines
           /\ \/ /\ UNCHANGED lock /\ ~FileEmpty /\ host'.ever
                 /\ host'.tail = host.tail /\ host'.synced = host.synced
                 /\ Moves(w, "recover", worker[w].list)
              \/ UNCHANGED <<host, lock>> /\ Moves(w, "lost", worker[w].list)
              \/ ~Lost /\ Enter(w, worker[w].list, FALSE)
  <1>1. SameDatabase /\ UNCHANGED <<server, acked>> /\ lock = Nobody /\ worker[w].pc = "outbox"
    BY DEF Continue, SameDatabase, dbVars
  <1>2. CASE /\ worker[w].list = {} /\ ~FileEmpty /\ TailShort
             /\ Set(w, [worker[w] EXCEPT !.pc = "recover"])
             /\ host' = [host EXCEPT !.ever = TRUE]
             /\ UNCHANGED lock
    <2>1. SameLines /\ host'.ever /\ host'.tail = host.tail /\ host'.synced = host.synced
      BY <1>2, MarkedHost
    <2>2. Moves(w, "recover", worker[w].list)
      BY <1>2, GoesOn DEF Pcs
    <2> QED
      BY <1>1, <1>2, <2>1, <2>2
  <1>3. CASE /\ worker[w].list # {} /\ Lost
             /\ Set(w, [worker[w] EXCEPT !.pc = "lost"])
             /\ UNCHANGED <<host, lock>>
    <2>1. Moves(w, "lost", worker[w].list)
      BY <1>3, GoesOn DEF Pcs
    <2> QED
      BY <1>1, <1>3, <2>1, SameHost
  <1>4. CASE /\ worker[w].list # {} /\ ~Lost
             /\ Enter(w, worker[w].list, FALSE)
    BY <1>1, <1>4, EnterLines, WorkerFields
  <1> QED
    BY <1>2, <1>3, <1>4 DEF Continue

LEMMA RecoverIs ==
    ASSUME TypeOK, NEW w \in Workers, Recover(w)
    PROVE  /\ SameDatabase /\ UNCHANGED <<lock, acked>> /\ lock = Nobody
           /\ worker[w].pc = "recover" /\ Complete /\ Return(w, {})
           /\ SameLines /\ host'.ever = host.ever /\ host'.synced = host.synced
           /\ host'.tail = Describe(host.lines)
  <1>1. host' = [host EXCEPT !.tail = Describe(host.lines)]
    BY DEF Recover
  <1>2. acked' = acked
    BY DEF Recover, Return
  <1> QED
    BY <1>1, <1>2, TailHost DEF Recover, SameDatabase, dbVars

LEMMA RecoverFailsIs ==
    ASSUME TypeOK, NEW w \in Workers, RecoverFails(w)
    PROVE  /\ SameDatabase /\ UNCHANGED <<server, acked>> /\ lock = Nobody
           /\ worker[w].pc = "recover" /\ SameLines
           /\ \/ UNCHANGED <<host, lock>> /\ Moves(w, "lost", worker[w].list)
              \/ ~Lost /\ Enter(w, ledger, FALSE)
  <1>1. SameDatabase /\ UNCHANGED <<server, acked>> /\ lock = Nobody /\ worker[w].pc = "recover"
    BY DEF RecoverFails, SameDatabase, dbVars
  <1>2. CASE Lost
    <2>1. Set(w, [worker[w] EXCEPT !.pc = "lost"]) /\ UNCHANGED <<host, lock>>
      BY <1>2 DEF RecoverFails
    <2>2. Moves(w, "lost", worker[w].list)
      BY <2>1, GoesOn DEF Pcs
    <2> QED
      BY <1>1, <2>1, <2>2, SameHost
  <1>3. CASE ~Lost
    <2>1. Enter(w, ledger, FALSE)
      BY <1>3 DEF RecoverFails
    <2> QED
      BY <1>1, <1>3, <2>1, EnterLines, Fields
  <1> QED
    BY <1>2, <1>3

LEMMA LoadHistoryIs ==
    ASSUME TypeOK, NEW w \in Workers, LoadHistory(w)
    PROVE  /\ worker[w].pc = "lost" /\ lock = Nobody
           /\ \/ Abort(w) /\ UNCHANGED host
              \/ /\ SameDatabase /\ UNCHANGED <<server, acked>>
                 /\ SameLines /\ Enter(w, ledger, TRUE)
  <1>1. CASE host.torn
    BY <1>1 DEF LoadHistory
  <1>2. CASE ~host.torn
    <2>1. Enter(w, ledger, TRUE)
      BY <1>2 DEF LoadHistory
    <2> QED
      BY <1>2, <2>1, EnterLines, Fields DEF LoadHistory, SameDatabase, dbVars
  <1> QED
    BY <1>1, <1>2

LEMMA PublishLineIs ==
    ASSUME TypeOK, NEW w \in Workers, PublishLine(w)
    PROVE  /\ SameDatabase /\ UNCHANGED <<lock, worker, server, acked>>
           /\ worker[w].pc = "publish"
           /\ \E g \in Writing(w) : host' = Appended(g) /\ FileOK(host')
  <1>1. PICK g \in Writing(w) : host' = Appended(g)
    BY DEF PublishLine
  <1>2. g \in Generations
    BY WritingIs, WorkerFields
  <1>3. FileOK(host')
    BY <1>1, <1>2, Fields, AppendedIs
  <1> QED
    BY <1>1, <1>3 DEF PublishLine, SameDatabase, dbVars

LEMMA UnlockIs ==
    ASSUME TypeOK, NEW w \in Workers, Unlock(w)
    PROVE  /\ SameDatabase /\ UNCHANGED <<host, server, acked>> /\ lock' = Nobody
           /\ worker[w].pc = "publish" /\ worker[w].list \subseteq Range(host.lines)
           /\ Moves(w, "mark", worker[w].list)
  BY WritingIs, GoesOn DEF Unlock, SameDatabase, dbVars, Pcs

LEMMA MarkRowsIs ==
    ASSUME TypeOK, NEW w \in Workers, MarkRows(w)
    PROVE  /\ UNCHANGED <<live, ledger, account, made, erasures, lock, backup, host>>
           /\ worker[w].pc = "mark" /\ published' = published \cup worker[w].list
           /\ Return(w, worker[w].list \cap Of(worker[w].user))
           /\ worker[w].list \cap Of(worker[w].user) \in SUBSET Generations
  BY WorkerFields DEF MarkRows

LEMMA MarkRowIs ==
    ASSUME TypeOK, NEW w \in Workers, MarkRow(w)
    PROVE  /\ UNCHANGED <<live, ledger, account, made, erasures, lock, backup, host, worker, server, acked>>
           /\ worker[w].pc = "mark" /\ \E g \in worker[w].list : published' = published \cup {g}
  BY DEF MarkRow

LEMMA NamesApart ==
    /\ Dispatcher \in Workers /\ Job \in Workers /\ Nobody \notin Workers
    /\ Handlers \subseteq Workers /\ Job # Dispatcher
    /\ Job \notin Handlers /\ Dispatcher \notin Handlers
  BY LedgerAssumption DEF Workers, Dispatcher, Job, Nobody

LEMMA PurgeBatchIs ==
    ASSUME TypeOK, PurgeBatch
    PROVE  \E due \in SUBSET Users :
              LET gone == {live[u] : u \in due} IN
              /\ gone \subseteq Generations
              /\ \A u \in due : account[u] = "due" /\ live[u] # 0
              /\ live' = [u \in Users |-> IF u \in due THEN 0 ELSE live[u]]
              /\ ledger' = ledger \cup gone
              /\ erasures' = Recorded(gone)
              /\ Moves(Job, IF due = {} THEN "free" ELSE "append", gone)
              /\ worker[Job].pc = "batch"
              /\ UNCHANGED <<published, account, made, host, lock, server, backup, acked>>
  <1> DEFINE due == {u \in Users : account[u] = "due" /\ live[u] # 0 /\ ~RowLocked(u)}
             gone == {live[u] : u \in due}
  <1>1. gone \in SUBSET Generations
    BY Fields
  <1>2. /\ \A u \in due : account[u] = "due" /\ live[u] # 0
        /\ live' = [u \in Users |-> IF u \in due THEN 0 ELSE live[u]]
        /\ ledger' = ledger \cup gone
        /\ erasures' = Recorded(gone)
        /\ Set(Job, IF due = {} THEN Free ELSE [Free EXCEPT !.pc = "append", !.list = gone])
        /\ worker[Job].pc = "batch"
        /\ UNCHANGED <<published, account, made, host, lock, server, backup, acked>>
    BY DEF PurgeBatch
  <1>3. due = {} => gone = {}
    OBVIOUS
  <1>4. due \in SUBSET Users
    OBVIOUS
  <1> HIDE DEF due
  <1>5. Moves(Job, IF due = {} THEN "free" ELSE "append", gone)
    <2>1. CASE due = {}
      BY <1>2, <1>3, <2>1, FreeIs, SetIs, NamesApart
    <2>2. CASE due # {}
      <3> HIDE DEF gone
      <3>1. Set(Job, [Free EXCEPT !.pc = "append", !.list = gone])
        BY <1>2, <2>2 DEF gone
      <3>2. Moves(Job, "append", gone)
        BY <1>1, <3>1, TaskWithoutUser, NamesApart DEF Pcs
      <3> QED
        BY <2>2, <3>2
    <2> QED
      BY <2>1, <2>2
  <1> QED
    BY <1>1, <1>2, <1>4, <1>5

LEMMA EraseIs ==
    ASSUME TypeOK, NEW w \in Handlers, NEW u \in Users, Erase(w, u)
    PROVE  /\ server = "up" /\ live[u] # 0 /\ live[u] \in Generations
           /\ live' = [live EXCEPT ![u] = 0]
           /\ ledger' = ledger \cup {live[u]}
           /\ erasures' = Recorded({live[u]})
           /\ Moves(w, "append", {live[u]}) /\ worker[w].pc = "free"
           /\ UNCHANGED <<published, account, made, host, lock, server, backup, acked>>
  <1>1. live[u] # 0 /\ live[u] \in Generations
    BY Fields DEF Erase
  <1>2. Set(w, [Free EXCEPT !.pc = "append", !.user = u, !.list = {live[u]}])
    BY DEF Erase
  <1>3. Moves(w, "append", {live[u]})
    <2>1. {live[u]} \in SUBSET Generations /\ u \in Users \cup {Nobody} /\ w \in Workers
      BY <1>1, NamesApart
    <2> QED
      BY <1>2, <2>1, TaskSet DEF Pcs
  <1> QED
    BY <1>1, <1>3 DEF Erase

\* A worker starts from the rows that have no line.
Begins(w) ==
    /\ \E list \in SUBSET ledger : Moves(w, "outbox", list)
    /\ UNCHANGED <<live, ledger, published, account, made, erasures, host, lock, backup, acked>>

LEMMA BeginsIs ==
    ASSUME TypeOK
    PROVE  /\ \A w \in Handlers, u \in Users :
                 EraseAgain(w, u) => Begins(w) /\ worker[w].pc = "free" /\ UNCHANGED server /\ server = "up"
           /\ Dispatch => /\ Begins(Dispatcher) /\ worker[Dispatcher].pc = "free"
                          /\ UNCHANGED server /\ server = "up"
           /\ StartJob => Begins(Job) /\ worker[Job].pc = "free" /\ UNCHANGED server
           /\ StartRebuild => Begins(Dispatcher) /\ server = "down" /\ server' = "rebuilding"
  <1>0. Unpublished \in SUBSET ledger /\ Unpublished \in SUBSET Generations
    BY Fields DEF Unpublished
  <1>1. ASSUME NEW w \in Handlers, NEW u \in Users, EraseAgain(w, u)
        PROVE  Begins(w) /\ worker[w].pc = "free" /\ UNCHANGED server /\ server = "up"
    <2> DEFINE list == Unpublished \cap Of(u)
    <2>1. list \in SUBSET ledger /\ list \in SUBSET Generations
          /\ u \in Users \cup {Nobody} /\ w \in Workers
      BY <1>0, NamesApart
    <2>2. Set(w, [Free EXCEPT !.pc = "outbox", !.user = u, !.list = list])
      BY <1>1 DEF EraseAgain
    <2> HIDE DEF list
    <2>3. Moves(w, "outbox", list)
      BY <2>1, <2>2, TaskSet DEF Pcs
    <2> QED
      BY <1>1, <2>1, <2>3 DEF EraseAgain, Begins, dbVars
  <1>2. ASSUME NEW w \in Workers, Set(w, [Free EXCEPT !.pc = "outbox", !.list = Unpublished])
        PROVE  Moves(w, "outbox", Unpublished)
    BY <1>0, <1>2, TaskWithoutUser DEF Pcs
  <1>3. Dispatch => /\ Begins(Dispatcher) /\ worker[Dispatcher].pc = "free"
                    /\ UNCHANGED server /\ server = "up"
    BY <1>0, <1>2, NamesApart DEF Dispatch, Begins, dbVars
  <1>4. StartJob => Begins(Job) /\ worker[Job].pc = "free" /\ UNCHANGED server
    BY <1>0, <1>2, NamesApart DEF StartJob, Begins, dbVars
  <1>5. StartRebuild => Begins(Dispatcher) /\ server = "down" /\ server' = "rebuilding"
    BY <1>0, <1>2, NamesApart DEF StartRebuild, Begins, dbVars
  <1> QED
    BY <1>1, <1>3, <1>4, <1>5

LEMMA StartIs ==
    ASSUME TypeOK, Start
    PROVE  /\ SameDatabase /\ UNCHANGED <<lock, worker, acked>>
           /\ server = "down" /\ SameLines /\ server' = Opened(host')
  <1>1. CASE UNCHANGED host
    <2>1. server' = Opened(host')
      BY <1>1 DEF Start, Opened
    <2> QED
      BY <1>1, <2>1, SameHost DEF Start, SameDatabase, dbVars
  <1>2. CASE host' = [host EXCEPT !.tail = Describe(host.lines)] /\ server' = Opened(host')
    BY <1>2, TailHost DEF Start, SameDatabase, dbVars
  <1>3. \/ UNCHANGED host
        \/ host' = [host EXCEPT !.tail = Describe(host.lines)] /\ server' = Opened(host')
    BY DEF Start
  <1> QED
    BY <1>1, <1>2, <1>3

\* Dead processes lose their lists and their lock.
Died(W) ==
    /\ worker' \in [Workers -> WorkerType]
    /\ \A w \in W : worker'[w].pc = "free" /\ worker'[w].list = {}
    /\ \A w \in Workers \ W : worker'[w] = worker[w]
    /\ lock' = IF lock \in W THEN Nobody ELSE lock

LEMMA DiedIs ==
    ASSUME TypeOK, NEW W \in SUBSET Workers, NEW k \in Kinds, Die(W, k)
    PROVE  Died(W) /\ budget[k] > 0
  <1>1. worker' = [w \in Workers |-> IF w \in W THEN Free ELSE worker[w]]
    BY DEF Die
  <1> QED
    BY <1>1, Fields, FreeIs DEF Die, Died

LEMMA ServerDiesIs ==
    ASSUME TypeOK, ServerDies
    PROVE  /\ SameDatabase /\ UNCHANGED acked /\ server' = "down" /\ budget["crashes"] > 0
           /\ Died(Workers \ {Job})
           /\ \/ UNCHANGED host
              \/ \E w \in Workers \ {Job} : \E g \in Writing(w) : CutShort(host', g)
  <1>1. Died(Workers \ {Job}) /\ budget["crashes"] > 0
    BY DiedIs DEF ServerDies, Kinds
  <1>2. host' = host \/ \E w \in Workers \ {Job} : \E g \in Writing(w) : CutShort(host', g)
    BY LeftIs DEF ServerDies
  <1> QED
    BY <1>1, <1>2 DEF ServerDies, SameDatabase, dbVars

LEMMA JobDiesIs ==
    ASSUME TypeOK, JobDies
    PROVE  /\ SameDatabase /\ UNCHANGED <<acked, server>> /\ budget["kills"] > 0
           /\ Died({Job})
           /\ UNCHANGED host \/ \E g \in Writing(Job) : CutShort(host', g)
  <1>0. {Job} \in SUBSET Workers
    BY NamesApart
  <1>1. Died({Job}) /\ budget["kills"] > 0
    BY <1>0, DiedIs DEF JobDies, Kinds
  <1>2. host' = host \/ \E w \in {Job} : \E g \in Writing(w) : CutShort(host', g)
    BY <1>0, LeftIs DEF JobDies
  <1> QED
    BY <1>1, <1>2 DEF JobDies, SameDatabase, dbVars

\* What remains of a file h once everything after line n is gone.
Prefix(h, n) ==
    /\ FileOK(host') /\ n \in 0..Len(h.lines)
    /\ host'.lines = SubSeq(h.lines, 1, n)

LEMMA HostDiesIs ==
    ASSUME TypeOK, HostDies
    PROVE  /\ SameDatabase /\ UNCHANGED acked /\ server' = "down" /\ budget["crashes"] > 0
           /\ Died(Workers)
           /\ \E h \in Left(Workers) :
                 \E n \in h.synced..Len(h.lines) : Prefix(h, n) /\ host'.synced = h.synced
  <1>1. Died(Workers) /\ budget["crashes"] > 0
    BY DiedIs DEF HostDies, Kinds
  <1>2. PICK h \in Left(Workers) : \E n \in h.synced..Len(h.lines) :
           host' = [h EXCEPT !.lines = SubSeq(@, 1, n), !.torn = @ /\ n = Len(h.lines)]
    BY DEF HostDies
  <1>3. PICK n \in h.synced..Len(h.lines) :
           host' = [h EXCEPT !.lines = SubSeq(@, 1, n), !.torn = @ /\ n = Len(h.lines)]
    BY <1>2
  <1>4. FileOK(h)
    BY LeftIs, Fields DEF CutShort
  <1>5. h.lines \in Seq(Generations) /\ h.synced \in Nat /\ Len(h.lines) \in Nat
        /\ n \in 0..Len(h.lines) /\ h.synced <= n
    BY <1>4 DEF FileOK, HostType
  <1>6. SubSeq(h.lines, 1, n) \in Seq(Generations) /\ Len(SubSeq(h.lines, 1, n)) = n
    BY <1>5, PrefixOf
  <1>7. host' \in HostType /\ host'.lines = SubSeq(h.lines, 1, n) /\ host'.synced = h.synced
    BY <1>3, <1>4, <1>6 DEF FileOK, HostType
  <1>8. Prefix(h, n) /\ host'.synced = h.synced
    BY <1>5, <1>6, <1>7 DEF Prefix, FileOK
  <1> QED
    BY <1>1, <1>8 DEF HostDies, SameDatabase, dbVars

LEMMA LoseFileIs ==
    ASSUME TypeOK, LoseFile
    PROVE  /\ SameDatabase /\ UNCHANGED <<lock, worker, server, acked>>
           /\ budget["losses"] > 0 /\ lock = Nobody
           /\ FileOK(host') /\ host.lines # <<>>
           /\ host'.lines = <<>> /\ host'.synced = 0 /\ ~host'.torn
           /\ host'.ever = host.ever /\ host'.tail = host.tail
  <1>1. FileOK(host) /\ host' = [host EXCEPT !.lines = <<>>, !.synced = 0, !.torn = FALSE]
    BY Fields DEF LoseFile
  <1>2. /\ host' \in HostType /\ host'.lines = <<>> /\ host'.synced = 0 /\ ~host'.torn
        /\ host'.ever = host.ever /\ host'.tail = host.tail
    <2>1. <<>> \in Seq(Generations) /\ 0 \in Nat
      OBVIOUS
    <2> QED
      BY <1>1, <2>1 DEF FileOK, HostType
  <1>3. FileOK(host')
    BY <1>2 DEF FileOK
  <1> QED
    BY <1>2, <1>3 DEF LoseFile, SameDatabase, dbVars

LEMMA CutFileIs ==
    ASSUME TypeOK, CutFile
    PROVE  /\ SameDatabase /\ UNCHANGED <<lock, worker, server, acked>>
           /\ budget["cuts"] > 0 /\ lock = Nobody
           /\ \E n \in 1..(Len(host.lines) - 1) :
                 /\ Prefix(host, n) /\ host'.synced = n /\ host'.torn = host.torn
                 /\ host'.ever = host.ever /\ host'.tail = host.tail
  <1>1. PICK n \in 1..(Len(host.lines) - 1) :
           host' = [host EXCEPT !.lines = SubSeq(@, 1, n), !.synced = n]
    BY DEF CutFile
  <1>2. FileOK(host) /\ host.lines \in Seq(Generations) /\ n \in 0..Len(host.lines) /\ n \in Nat
    BY Fields DEF FileOK, HostType
  <1>3. SubSeq(host.lines, 1, n) \in Seq(Generations) /\ Len(SubSeq(host.lines, 1, n)) = n
    BY <1>2, PrefixOf
  <1>4. /\ host' \in HostType /\ host'.lines = SubSeq(host.lines, 1, n)
        /\ host'.synced = n /\ host'.torn = host.torn
        /\ host'.ever = host.ever /\ host'.tail = host.tail
    BY <1>1, <1>2, <1>3 DEF FileOK, HostType
  <1>5. Prefix(host, n)
    BY <1>2, <1>3, <1>4 DEF Prefix, FileOK
  <1> QED
    BY <1>4, <1>5 DEF CutFile, SameDatabase, dbVars

-----------------------------------------------------------------------------
(* Type correctness. *)

LEMMA InitTyped == Init => TypeOK
  <1> SUFFICES ASSUME Init PROVE TypeOK
    OBVIOUS
  <1>1. MaxGen \in Nat /\ budget \in [Kinds -> Nat]
    BY LedgerAssumption DEF Init
  <1>2. DatabaseTyped /\ backup \in Database
    BY DEF Init, DatabaseTyped, Database, Snapshot
  <1>3. HistoryTyped
    <2>1. made = <<>> /\ acked = {}
          /\ erasures = [now |-> 0, at |-> [g \in Generations |-> 0]]
      BY DEF Init
    <2>2. erasures \in [now : Nat, at : [Generations -> Nat]]
      BY <2>1
    <2>3. made \in Seq(Users) /\ Len(made) <= MaxGen
      BY <1>1, <2>1
    <2> QED
      BY <2>1, <2>2, <2>3 DEF HistoryTyped
  <1>4. ControlTyped
    BY DEF Init, ControlTyped
  <1>5. FileOK(host)
    <2>1. host = [ever |-> FALSE, lines |-> <<>>, synced |-> 0, torn |-> FALSE, tail |-> NoTail]
      BY DEF Init
    <2>2. <<>> \in Seq(Generations) /\ Len(<<>>) = 0
      OBVIOUS
    <2>3. NoTail \in [count : Nat \cup {-1}, last : Generations \cup {0}]
      BY DEF NoTail
    <2>4. host \in HostType
      BY <2>1, <2>2, <2>3 DEF HostType
    <2> QED
      BY <2>1, <2>2, <2>4 DEF FileOK
  <1>6. worker \in [Workers -> WorkerType]
    BY FreeIs DEF Init
  <1> QED
    BY <1>1, <1>2, <1>3, <1>4, <1>5, <1>6, TypedParts

LEMMA TypedStep == TypeOK /\ [Next]_vars => TypeOK'
  <1> SUFFICES ASSUME TypeOK, [Next]_vars PROVE TypeOK'
    OBVIOUS
  <1>0. budget' \in [Kinds -> Nat]
    BY SpentOnce
  <1>1. /\ DatabaseTyped /\ backup \in Database
        /\ HistoryTyped /\ ControlTyped /\ FileOK(host)
        /\ worker \in [Workers -> WorkerType]
    BY TypedParts
  <1> DEFINE Rest == HistoryTyped /\ ControlTyped /\ FileOK(host) /\ worker \in [Workers -> WorkerType]
             Others == DatabaseTyped /\ backup \in Database
  <1>2. ASSUME Others', Rest' PROVE TypeOK'
    BY <1>0, <1>2 DEF TypeOK, DatabaseTyped, HistoryTyped, ControlTyped, FileOK, Snapshot, Database
  <1>3. ASSUME SameDatabase PROVE Others' /\ (acked' \subseteq Generations => HistoryTyped')
    BY <1>1, <1>3 DEF SameDatabase, DatabaseTyped, HistoryTyped
  <1>4. ASSUME NEW w \in Workers, NEW told \in SUBSET Generations, Return(w, told)
        PROVE  /\ worker' \in [Workers -> WorkerType]
               /\ acked' \subseteq Generations
               /\ UNCHANGED lock => ControlTyped'
    <2>1. /\ Moves(w, IF w = Job THEN "batch" ELSE "free", {})
          /\ acked' \in {acked, acked \cup told}
          /\ server' = IF w = Dispatcher /\ server = "rebuilding" THEN Opened(host') ELSE server
      BY <1>4, ReturnIs
    <2>2. server' \in {server, "down", "up", "reconciling"}
      BY <2>1, OpenedIs
    <2> QED
      BY <1>1, <2>1, <2>2 DEF Moves, HistoryTyped, ControlTyped
  <1>5. ASSUME NEW w \in Workers, Abort(w), FileOK(host') PROVE TypeOK'
    <2>1. /\ Moves(w, "free", {})
          /\ lock' = IF lock = w THEN Nobody ELSE lock
          /\ server' = server \/ server' = "down"
          /\ UNCHANGED <<live, ledger, published, account, made, erasures, backup, acked>>
      BY <1>5, AbortIs
    <2>2. Others' /\ HistoryTyped'
      BY <1>1, <2>1 DEF DatabaseTyped, HistoryTyped
    <2>3. ControlTyped' /\ worker' \in [Workers -> WorkerType]
      BY <1>1, <2>1 DEF ControlTyped, Moves
    <2> QED
      BY <1>2, <1>5, <2>2, <2>3
  <1>6. ASSUME NEW w \in Workers, NEW list \in SUBSET Generations, NEW rebuild \in BOOLEAN,
               SameDatabase, UNCHANGED <<server, acked>>, Enter(w, list, rebuild)
        PROVE  TypeOK'
    <2>1. lock' = w /\ worker' \in [Workers -> WorkerType] /\ FileOK(host')
      BY <1>6, EnterIs DEF Moves
    <2>2. HistoryTyped' /\ ControlTyped'
      BY <1>1, <1>3, <1>6, <2>1 DEF HistoryTyped, ControlTyped
    <2> QED
      BY <1>2, <1>3, <1>6, <2>1, <2>2
  <1> HIDE DEF Rest, Others
  <1>7. CASE UNCHANGED vars
    BY <1>7 DEF vars, dbVars, TypeOK, Snapshot
  <1>8. ASSUME NEW u \in Users, Save(u) PROVE TypeOK'
    <2>1. Len(made) + 1 \in Generations
      BY <1>1, <1>8, MaxGenNat DEF Save, HistoryTyped, Generations
    <2>2. DatabaseTyped' /\ backup' \in Database
      BY <1>1, <1>8, <2>1 DEF Save, DatabaseTyped
    <2>3. HistoryTyped'
      <3>1. made' \in Seq(Users) /\ Len(made') <= MaxGen
        BY <1>1, <1>8, MaxGenNat DEF Save, HistoryTyped
      <3> QED
        BY <1>1, <1>8, <3>1 DEF Save, HistoryTyped
    <2>4. ControlTyped' /\ FileOK(host') /\ worker' \in [Workers -> WorkerType]
      BY <1>1, <1>8 DEF Save, ControlTyped
    <2> QED
      BY <1>2, <2>2, <2>3, <2>4 DEF Rest, Others
  <1>9. ASSUME NEW u \in Users, CloseAccount(u) \/ WindowEnds(u) \/ ReopenAccount(u) PROVE TypeOK'
    <2>1. /\ \E a \in {"open", "closed", "due"} : account' = [account EXCEPT ![u] = a]
          /\ UNCHANGED <<live, ledger, published, made, erasures, host, lock, worker, server, backup, acked>>
      BY <1>9 DEF CloseAccount, WindowEnds, ReopenAccount
    <2>2. DatabaseTyped'
      BY <1>1, <2>1 DEF DatabaseTyped
    <2>3. HistoryTyped' /\ ControlTyped'
      BY <1>1, <2>1 DEF HistoryTyped, ControlTyped
    <2> QED
      BY <1>1, <1>2, <2>1, <2>2, <2>3 DEF Rest, Others
  <1>10. ASSUME NEW w \in Handlers, NEW u \in Users, Erase(w, u) PROVE TypeOK'
    <2>1. /\ live[u] \in Generations
          /\ live' = [live EXCEPT ![u] = 0]
          /\ ledger' = ledger \cup {live[u]}
          /\ erasures' = Recorded({live[u]})
          /\ worker' \in [Workers -> WorkerType]
          /\ UNCHANGED <<published, account, made, host, lock, server, backup, acked>>
      BY <1>10, EraseIs DEF Moves
    <2>2. DatabaseTyped'
      BY <1>1, <2>1 DEF DatabaseTyped
    <2>3. HistoryTyped' /\ ControlTyped'
      BY <1>1, <2>1, RecordedIs DEF HistoryTyped, ControlTyped
    <2> QED
      BY <1>1, <1>2, <2>1, <2>2, <2>3 DEF Rest, Others
  <1>11. ASSUME NEW w \in Workers, Begins(w), UNCHANGED server \/ server' = "rebuilding" PROVE TypeOK'
    <2>1. DatabaseTyped' /\ HistoryTyped' /\ ControlTyped' /\ worker' \in [Workers -> WorkerType]
      BY <1>1, <1>11 DEF Begins, Moves, DatabaseTyped, HistoryTyped, ControlTyped
    <2> QED
      BY <1>1, <1>2, <1>11, <2>1 DEF Begins, Rest, Others
  <1>12. ASSUME NEW w \in Workers, AppendOwn(w) PROVE TypeOK'
    <2>1. PICK g \in Writing(w) :
             /\ FileOK(host')
             /\ acked' \in {acked, acked \cup {g}}
             /\ worker' \in [Workers -> WorkerType]
      BY <1>12, AppendOwnIs DEF Moves
    <2>2. g \in Generations
      BY WritingIs, WorkerFields
    <2>3. SameDatabase /\ UNCHANGED <<lock, server>>
      BY <1>12, AppendOwnIs
    <2>4. Others' /\ HistoryTyped' /\ ControlTyped'
      BY <1>1, <1>3, <2>1, <2>2, <2>3 DEF HistoryTyped, ControlTyped
    <2> QED
      BY <1>2, <2>1, <2>4 DEF Rest
  <1>13. ASSUME NEW w \in Workers, AppendRefused(w) PROVE TypeOK'
    BY <1>1, <1>5, <1>13, AppendRefusedIs
  <1>14. ASSUME NEW w \in Workers, AppendFails(w) PROVE TypeOK'
    BY <1>5, <1>14, AppendFailsIs DEF CutShort
  <1>15. ASSUME NEW w \in Workers, Idle(w) \/ Recover(w) PROVE TypeOK'
    <2>1. SameDatabase /\ UNCHANGED <<lock, acked>> /\ FileOK(host') /\ Return(w, {})
      BY <1>15, IdleIs, RecoverIs DEF SameLines
    <2>2. Others' /\ HistoryTyped' /\ ControlTyped' /\ worker' \in [Workers -> WorkerType]
      BY <1>1, <1>3, <1>4, <2>1 DEF HistoryTyped
    <2> QED
      BY <1>2, <2>1, <2>2 DEF Rest
  <1>16. ASSUME NEW w \in Workers, Continue(w) PROVE TypeOK'
    <2>1. CASE Enter(w, worker[w].list, FALSE)
      BY <1>6, <1>16, <2>1, ContinueIs, WorkerFields
    <2>2. CASE /\ SameDatabase /\ UNCHANGED <<server, acked, lock>>
               /\ FileOK(host') /\ worker' \in [Workers -> WorkerType]
      <3>1. Others' /\ HistoryTyped' /\ ControlTyped'
        BY <1>1, <1>3, <2>2 DEF HistoryTyped, ControlTyped
      <3> QED
        BY <1>2, <2>2, <3>1 DEF Rest
    <2> QED
      BY <1>16, <2>1, <2>2, ContinueIs DEF SameLines, Moves
  <1>17. ASSUME NEW w \in Workers, RecoverFails(w) PROVE TypeOK'
    <2>1. CASE Enter(w, ledger, FALSE)
      BY <1>6, <1>17, <2>1, RecoverFailsIs, Fields
    <2>2. CASE /\ SameDatabase /\ UNCHANGED <<server, acked, lock>>
               /\ FileOK(host') /\ worker' \in [Workers -> WorkerType]
      <3>1. Others' /\ HistoryTyped' /\ ControlTyped'
        BY <1>1, <1>3, <2>2 DEF HistoryTyped, ControlTyped
      <3> QED
        BY <1>2, <2>2, <3>1 DEF Rest
    <2> QED
      BY <1>17, <2>1, <2>2, RecoverFailsIs DEF SameLines, Moves
  <1>18. ASSUME NEW w \in Workers, LoadHistory(w) PROVE TypeOK'
    <2>1. CASE Abort(w) /\ UNCHANGED host
      BY <1>1, <1>5, <2>1
    <2>2. CASE SameDatabase /\ UNCHANGED <<server, acked>> /\ Enter(w, ledger, TRUE)
      BY <1>6, <2>2, Fields
    <2> QED
      BY <1>18, <2>1, <2>2, LoadHistoryIs
  <1>19. ASSUME NEW w \in Workers, PublishLine(w) \/ Unlock(w) PROVE TypeOK'
    <2>1. /\ SameDatabase /\ UNCHANGED <<server, acked>> /\ lock' \in {lock, Nobody}
          /\ FileOK(host') /\ worker' \in [Workers -> WorkerType]
      BY <1>1, <1>19, PublishLineIs, UnlockIs DEF Moves
    <2>2. Others' /\ HistoryTyped' /\ ControlTyped'
      BY <1>1, <1>3, <2>1 DEF HistoryTyped, ControlTyped
    <2> QED
      BY <1>2, <2>1, <2>2 DEF Rest
  <1>20. ASSUME NEW w \in Workers, MarkRows(w) PROVE TypeOK'
    <2>1. /\ UNCHANGED <<live, ledger, account, made, erasures, lock, backup, host>>
          /\ published' = published \cup worker[w].list
          /\ Return(w, worker[w].list \cap Of(worker[w].user))
          /\ worker[w].list \cap Of(worker[w].user) \in SUBSET Generations
          /\ worker[w].list \in SUBSET Generations
      BY <1>20, MarkRowsIs, WorkerFields
    <2>2. worker' \in [Workers -> WorkerType] /\ acked' \subseteq Generations /\ ControlTyped'
      BY <1>4, <2>1
    <2>3. Others' /\ HistoryTyped'
      BY <1>1, <2>1, <2>2 DEF DatabaseTyped, HistoryTyped, Others
    <2> QED
      BY <1>1, <1>2, <2>1, <2>2, <2>3 DEF Rest
  <1>21. ASSUME NEW w \in Workers, MarkRow(w) PROVE TypeOK'
    <2>1. /\ UNCHANGED <<live, ledger, account, made, erasures, lock, backup, host, worker, server, acked>>
          /\ published' \in SUBSET Generations
      BY <1>1, <1>21, MarkRowIs, WorkerFields DEF DatabaseTyped
    <2>2. Others' /\ Rest'
      BY <1>1, <2>1 DEF DatabaseTyped, HistoryTyped, ControlTyped, Others, Rest
    <2> QED
      BY <1>2, <2>2
  <1>22. CASE PurgeBatch
    <2>1. PICK due \in SUBSET Users : \E gone \in SUBSET Generations :
              /\ live' = [u \in Users |-> IF u \in due THEN 0 ELSE live[u]]
              /\ ledger' = ledger \cup gone
              /\ erasures' = Recorded(gone)
              /\ worker' \in [Workers -> WorkerType]
              /\ UNCHANGED <<published, account, made, host, lock, server, backup, acked>>
      BY <1>22, PurgeBatchIs DEF Moves
    <2>2. DatabaseTyped'
      BY <1>1, <2>1 DEF DatabaseTyped
    <2>3. HistoryTyped' /\ ControlTyped'
      BY <1>1, <2>1, RecordedIs DEF HistoryTyped, ControlTyped
    <2> QED
      BY <1>1, <1>2, <2>1, <2>2, <2>3 DEF Rest, Others
  <1>23. CASE Start
    <2>1. /\ SameDatabase /\ UNCHANGED <<lock, worker, acked>>
          /\ FileOK(host') /\ server' \in {"down", "up", "reconciling"}
      BY <1>23, StartIs, OpenedIs DEF SameLines
    <2>2. Others' /\ HistoryTyped' /\ ControlTyped'
      BY <1>1, <1>3, <2>1 DEF HistoryTyped, ControlTyped
    <2> QED
      BY <1>1, <1>2, <2>1, <2>2 DEF Rest
  <1>24. CASE ReconcilePurge
    <2>1. DatabaseTyped'
      BY <1>1, <1>24 DEF ReconcilePurge, DatabaseTyped
    <2>2. HistoryTyped' /\ ControlTyped'
      BY <1>1, <1>24 DEF ReconcilePurge, HistoryTyped, ControlTyped
    <2> QED
      BY <1>1, <1>2, <1>24, <2>1, <2>2 DEF ReconcilePurge, Rest, Others
  <1>25. CASE ReconcileRows
    <2>1. Range(host.lines) \subseteq Generations
      BY <1>1, RangeOf DEF FileOK, HostType
    <2>2. DatabaseTyped'
      BY <1>1, <1>25, <2>1 DEF ReconcileRows, DatabaseTyped
    <2>3. HistoryTyped' /\ ControlTyped'
      BY <1>1, <1>25 DEF ReconcileRows, HistoryTyped, ControlTyped
    <2> QED
      BY <1>1, <1>2, <1>25, <2>2, <2>3 DEF ReconcileRows, Rest, Others
  <1>26. CASE Dump
    <2>1. backup' \in Database
      BY <1>26 DEF Dump, TypeOK
    <2>2. DatabaseTyped' /\ Rest'
      BY <1>1, <1>26 DEF Dump, dbVars, DatabaseTyped, HistoryTyped, ControlTyped, Rest
    <2> QED
      BY <1>2, <2>1, <2>2 DEF Others
  <1>27. CASE RestoreDump
    <2>1. DatabaseTyped' /\ backup' \in Database
      BY <1>1, <1>27, Fields DEF RestoreDump, DatabaseTyped
    <2>2. Rest'
      BY <1>1, <1>27 DEF RestoreDump, HistoryTyped, ControlTyped, Rest
    <2> QED
      BY <1>2, <2>1, <2>2 DEF Others
  <1>28. CASE ServerDies \/ JobDies \/ HostDies
    <2>1. /\ SameDatabase /\ UNCHANGED acked /\ server' \in {server, "down"}
          /\ worker' \in [Workers -> WorkerType]
          /\ lock' \in {lock, Nobody}
      BY <1>28, ServerDiesIs, JobDiesIs, HostDiesIs DEF Died
    <2>2. FileOK(host')
      BY <1>1, <1>28, ServerDiesIs, JobDiesIs, HostDiesIs DEF CutShort, Prefix
    <2>3. Others' /\ HistoryTyped' /\ ControlTyped'
      BY <1>1, <1>3, <2>1 DEF HistoryTyped, ControlTyped
    <2> QED
      BY <1>2, <2>1, <2>2, <2>3 DEF Rest
  <1>29. CASE LoseFile \/ CutFile
    <2>1. /\ SameDatabase /\ UNCHANGED <<lock, worker, server, acked>> /\ FileOK(host')
      BY <1>29, LoseFileIs, CutFileIs DEF Prefix
    <2>2. Others' /\ HistoryTyped' /\ ControlTyped'
      BY <1>1, <1>3, <2>1 DEF HistoryTyped, ControlTyped
    <2> QED
      BY <1>1, <1>2, <2>1, <2>2 DEF Rest
  <1> QED
    <2>1. ASSUME NEW u \in Users, Save(u) \/ CloseAccount(u) \/ WindowEnds(u) \/ ReopenAccount(u)
          PROVE  TypeOK'
      BY <1>8, <1>9, <2>1
    <2>2. ASSUME NEW w \in Handlers, NEW u \in Users, Erase(w, u) \/ EraseAgain(w, u) PROVE TypeOK'
      BY <1>10, <1>11, <2>2, BeginsIs, NamesApart
    <2>3. ASSUME NEW w \in Workers, Step(w) \/ AppendFails(w) PROVE TypeOK'
      BY <1>12, <1>13, <1>14, <1>15, <1>16, <1>17, <1>18, <1>19, <1>20, <1>21, <1>22, <2>3 DEF Step
    <2>4. ASSUME Dispatch \/ StartJob \/ Boot PROVE TypeOK'
      BY <1>11, <1>23, <1>24, <1>25, <2>4, BeginsIs, NamesApart DEF Boot
    <2> QED
      BY <1>7, <1>26, <1>27, <1>28, <1>29, <2>1, <2>2, <2>3, <2>4 DEF Next

\* Every reachable state has the types of TypeOK.
THEOREM Typed == Spec => []TypeOK
  <1>1. Init => TypeOK
    BY InitTyped
  <1>2. TypeOK /\ [Next]_vars => TypeOK'
    BY TypedStep
  <1> QED
    BY <1>1, <1>2, PTL DEF Spec

-----------------------------------------------------------------------------
(* What a profile disappears with. *)

\* The actions that change the database, the last dump or who owns what.
LEMMA DatabaseSteps ==
    ASSUME TypeOK, [Next]_vars
    PROVE  \/ UNCHANGED <<live, ledger, published, made, backup>>
           \/ \E u \in Users : Save(u)
           \/ \E w \in Handlers, u \in Users : Erase(w, u)
           \/ \E w \in Workers : MarkRows(w) \/ MarkRow(w)
           \/ PurgeBatch \/ ReconcilePurge \/ ReconcileRows \/ Dump \/ RestoreDump
  <1>1. ASSUME NEW u \in Users, CloseAccount(u) \/ WindowEnds(u) \/ ReopenAccount(u)
        PROVE  UNCHANGED <<live, ledger, published, made, backup>>
    BY <1>1 DEF CloseAccount, WindowEnds, ReopenAccount
  <1>2. ASSUME NEW w \in Handlers, NEW u \in Users, EraseAgain(w, u)
        PROVE  UNCHANGED <<live, ledger, published, made, backup>>
    BY <1>2 DEF EraseAgain, dbVars
  <1>3. ASSUME NEW w \in Workers,
               \/ AppendOwn(w) \/ AppendRefused(w) \/ AppendFails(w) \/ Idle(w) \/ Continue(w)
               \/ Recover(w) \/ RecoverFails(w) \/ LoadHistory(w) \/ PublishLine(w) \/ Unlock(w)
        PROVE  UNCHANGED <<live, ledger, published, made, backup>>
    <2>1. CASE AppendRefused(w) \/ AppendFails(w)
      BY <2>1 DEF AppendRefused, AppendFails, Abort, dbVars
    <2>2. CASE LoadHistory(w)
      BY <2>2 DEF LoadHistory, Abort, dbVars
    <2> QED
      BY <1>3, <2>1, <2>2 DEF AppendOwn, Idle, Continue, Recover, RecoverFails, PublishLine, Unlock, dbVars
  <1>4. CASE Dispatch \/ StartJob \/ Start \/ StartRebuild
    BY <1>4 DEF Dispatch, StartJob, Start, StartRebuild, dbVars
  <1>5. CASE ServerDies \/ JobDies \/ HostDies \/ LoseFile \/ CutFile
    BY <1>5 DEF ServerDies, JobDies, HostDies, LoseFile, CutFile, dbVars
  <1>6. CASE UNCHANGED vars
    BY <1>6 DEF vars, dbVars
  <1>7. ASSUME NEW w \in Workers, Step(w)
        PROVE  \/ UNCHANGED <<live, ledger, published, made, backup>>
               \/ MarkRows(w) \/ MarkRow(w) \/ PurgeBatch
    BY <1>3, <1>7 DEF Step
  <1> QED
    BY <1>1, <1>2, <1>3, <1>4, <1>5, <1>6, <1>7 DEF Next, Boot

\* A profile disappears only with a record of its own generation.
THEOREM OnlyErasedVanishHolds == Spec => OnlyErasedVanish
  <1>1. ASSUME TypeOK, [Next]_vars, budget'.restores = budget.restores,
               NEW u \in Users, live[u] # 0, live'[u] # live[u]
        PROVE  live[u] \in ledger' \cup Range(host'.lines)
    <2>1. CASE UNCHANGED live
      BY <1>1, <2>1
    <2>2. ASSUME NEW v \in Users, Save(v) PROVE live'[u] = live[u]
      BY <1>1, <2>2, Fields DEF Save
    <2>3. ASSUME NEW w \in Handlers, NEW v \in Users, Erase(w, v) PROVE live[u] \in ledger'
      BY <1>1, <2>3, Fields, EraseIs
    <2>4. CASE PurgeBatch
      <3>1. PICK due \in SUBSET Users :
               /\ live' = [v \in Users |-> IF v \in due THEN 0 ELSE live[v]]
               /\ ledger' = ledger \cup {live[v] : v \in due}
        BY <1>1, <2>4, PurgeBatchIs
      <3>2. u \in due
        BY <1>1, <3>1
      <3> QED
        BY <3>1, <3>2
    <2>5. CASE ReconcilePurge
      BY <1>1, <2>5 DEF ReconcilePurge
    <2>6. CASE RestoreDump
      <3>1. budget["restores"] > 0 /\ budget' = [budget EXCEPT !["restores"] = @ - 1]
            /\ "restores" \in Kinds
        BY <2>6 DEF RestoreDump, Kinds
      <3>2. budget'["restores"] = budget["restores"] - 1 /\ budget["restores"] \in Nat
        BY <1>1, <3>1, Spent DEF TypeOK
      <3> QED
        BY <1>1, <3>2
    <2>7. CASE \/ ReconcileRows \/ Dump \/ \E w \in Workers : MarkRows(w) \/ MarkRow(w)
      BY <1>1, <2>7 DEF ReconcileRows, Dump, MarkRows, MarkRow, dbVars
    <2> QED
      BY <1>1, <2>1, <2>2, <2>3, <2>4, <2>5, <2>6, <2>7, DatabaseSteps
  <1>2. TypeOK /\ [Next]_vars =>
           [budget'.restores = budget.restores =>
               \A u \in Users : live[u] # 0 /\ live'[u] # live[u] =>
                   live[u] \in ledger' \cup Range(host'.lines)]_vars
    BY <1>1
  <1> QED
    BY <1>2, Typed, PTL DEF Spec, OnlyErasedVanish

-----------------------------------------------------------------------------
(* The invariant of the database, the workers and the lines of the file. *)

Created == 1..Len(made)

\* A live generation is one the user created and no erasure names it; a row
\* that counts as published is a row.
SoundDatabase(rows, erased, done) ==
    /\ done \subseteq erased /\ erased \subseteq Created
    /\ \A u \in Users : rows[u] # 0 =>
           rows[u] \in Created /\ rows[u] \notin erased /\ made[rows[u]] = u

Databases ==
    /\ SoundDatabase(live, ledger, published)
    /\ SoundDatabase(backup.live, backup.ledger, backup.published)

\* Workers carry committed erasures only; handlers and dispatcher rest while
\* the server is down.
Queued ==
    /\ \A w \in Workers : worker[w].list \subseteq ledger
    /\ \A w \in Workers : worker[w].pc = "free" => worker[w].list = {}
    /\ server # "up" => \A h \in Handlers : worker[h].pc = "free"
    /\ server \notin {"up", "rebuilding"} => worker[Dispatcher].pc = "free"

\* Whoever publishes holds the lock file.
Locked == \A w \in Workers : (worker[w].pc = "publish") <=> (lock = w)

\* Once profiles are reconciled with the file no line of it names a live one.
Reconciled ==
    /\ Range(host.lines) \subseteq Created
    /\ server \in {"restoring", "up"} => \A u \in Users : live[u] \notin Range(host.lines)

Safe == Databases /\ Queued /\ Locked /\ Reconciled

LEMMA LinesTyped ==
    ASSUME TypeOK
    PROVE  /\ host.lines \in Seq(Generations) /\ Range(host.lines) \subseteq Generations
           /\ Len(host.lines) \in Nat /\ host.synced \in Nat /\ host.synced <= Len(host.lines)
           /\ 0 \notin Range(host.lines)
  <1>1. host.lines \in Seq(Generations) /\ host.synced \in Nat /\ host.synced <= Len(host.lines)
    BY Fields DEF FileOK, HostType
  <1> QED
    BY <1>1, RangeOf DEF Generations

LEMMA CutShortLines ==
    ASSUME TypeOK, NEW h, NEW g \in Generations, CutShort(h, g)
    PROVE  h.lines \in Seq(Generations) /\ Range(h.lines) \subseteq Range(host.lines) \cup {g}
  BY LinesTyped, RangeAppend DEF CutShort, FileOK, HostType

\* The process that was writing a line is gone, or gave up.
Stopped(w, g) ==
    /\ CutShort(host', g) /\ worker'[w].pc = "free"
    /\ SameDatabase /\ server' \in {server, "down"} /\ UNCHANGED acked

\* How the file changes.
LEMMA HostSteps ==
    ASSUME TypeOK, [Next]_vars
    PROVE  \/ SameLines
           \/ \E w \in Workers : AppendOwn(w) \/ PublishLine(w)
           \/ \E w \in Workers : \E g \in Writing(w) : Stopped(w, g)
           \/ HostDies \/ LoseFile \/ CutFile
  <1>1. UNCHANGED host => SameLines
    BY SameHost
  <1>2. ASSUME NEW w \in Workers, AppendFails(w)
        PROVE  \E g \in Writing(w) : Stopped(w, g)
    <2>1. PICK g \in Writing(w) : CutShort(host', g)
      BY <1>2, AppendFailsIs
    <2>2. SameDatabase /\ server' \in {server, "down"} /\ worker'[w].pc = "free" /\ UNCHANGED acked
      BY <1>2, AppendFailsIs, AbortIs DEF SameDatabase, Moves
    <2> QED
      BY <2>1, <2>2 DEF Stopped
  <1>3. CASE ServerDies
    <2>1. /\ SameDatabase /\ server' \in {server, "down"} /\ UNCHANGED acked
          /\ \A w \in Workers \ {Job} : worker'[w].pc = "free"
      BY <1>3, ServerDiesIs DEF Died
    <2>2. CASE \E w \in Workers \ {Job} : \E g \in Writing(w) : CutShort(host', g)
      BY <2>1, <2>2 DEF Stopped
    <2> QED
      BY <1>1, <1>3, <2>2, ServerDiesIs
  <1>4. CASE JobDies
    <2>1. /\ SameDatabase /\ server' \in {server, "down"} /\ UNCHANGED acked
          /\ worker'[Job].pc = "free"
      BY <1>4, JobDiesIs DEF Died
    <2>2. CASE \E g \in Writing(Job) : CutShort(host', g)
      BY <2>1, <2>2, NamesApart DEF Stopped
    <2> QED
      BY <1>1, <1>4, <2>2, JobDiesIs
  <1>5. ASSUME NEW u \in Users, Save(u) \/ CloseAccount(u) \/ WindowEnds(u) \/ ReopenAccount(u)
        PROVE  UNCHANGED host
    BY <1>5 DEF Save, CloseAccount, WindowEnds, ReopenAccount
  <1>6. ASSUME NEW w \in Handlers, NEW u \in Users, Erase(w, u) \/ EraseAgain(w, u)
        PROVE  UNCHANGED host
    BY <1>6 DEF Erase, EraseAgain
  <1>7. ASSUME NEW w \in Workers,
               \/ AppendRefused(w) \/ Unlock(w) \/ MarkRows(w) \/ MarkRow(w)
               \/ Idle(w) \/ Continue(w) \/ Recover(w) \/ RecoverFails(w) \/ LoadHistory(w)
        PROVE  UNCHANGED host \/ SameLines
    BY <1>7, AppendRefusedIs, UnlockIs, MarkRowsIs, MarkRowIs, IdleIs, ContinueIs, RecoverIs,
       RecoverFailsIs, LoadHistoryIs
  <1>8. ASSUME \/ PurgeBatch \/ Dispatch \/ StartJob \/ StartRebuild
               \/ ReconcilePurge \/ ReconcileRows \/ Dump \/ RestoreDump \/ UNCHANGED vars
        PROVE  SameLines
    BY <1>1, <1>8 DEF PurgeBatch, Dispatch, StartJob, StartRebuild, ReconcilePurge, ReconcileRows,
                Dump, RestoreDump, vars
  <1>9. ASSUME NEW w \in Workers, Step(w)
        PROVE  SameLines \/ AppendOwn(w) \/ PublishLine(w)
    <2>1. CASE PurgeBatch
      BY <1>8, <2>1
    <2>2. CASE \/ AppendRefused(w) \/ Unlock(w) \/ MarkRows(w) \/ MarkRow(w)
               \/ Idle(w) \/ Continue(w) \/ Recover(w) \/ RecoverFails(w) \/ LoadHistory(w)
      BY <1>1, <1>7, <2>2
    <2> QED
      BY <1>9, <2>1, <2>2 DEF Step
  <1> QED
    BY <1>1, <1>2, <1>3, <1>4, <1>5, <1>6, <1>8, <1>9, StartIs DEF Next, Boot

\* The file gains at most the line some worker is to write, and then the
\* database stays as it is.
Gains(g) ==
    /\ Range(host'.lines) \subseteq Range(host.lines) \cup {g}
    /\ SameDatabase /\ server' \in {server, "down"}

LEMMA LineSteps ==
    ASSUME TypeOK, [Next]_vars
    PROVE  \/ Range(host'.lines) \subseteq Range(host.lines)
           \/ \E w \in Workers : \E g \in Writing(w) : Gains(g)
  <1>0. \A w \in Workers : Writing(w) \subseteq Generations
    BY WritingIs, WorkerFields
  <1>1. CASE SameLines
    BY <1>1 DEF SameLines
  <1>2. ASSUME NEW w \in Workers, AppendOwn(w) \/ PublishLine(w)
        PROVE  \E g \in Writing(w) : Gains(g)
    <2>1. PICK g \in Writing(w) : host' = Appended(g)
      BY <1>2, AppendOwnIs, PublishLineIs
    <2>2. Range(host'.lines) = Range(host.lines) \cup {g}
      BY <1>0, <2>1, Fields, AppendedIs, LinesTyped, RangeAppend
    <2> QED
      BY <1>2, <2>2, AppendOwnIs, PublishLineIs DEF Gains
  <1>3. ASSUME NEW w \in Workers, NEW g \in Writing(w), Stopped(w, g)
        PROVE  Gains(g)
    BY <1>0, <1>3, CutShortLines DEF Stopped, Gains
  <1>4. CASE HostDies
    <2>1. PICK h \in Left(Workers) : \E n \in h.synced..Len(h.lines) : Prefix(h, n)
      BY <1>4, HostDiesIs
    <2>2. PICK n \in h.synced..Len(h.lines) : Prefix(h, n)
      BY <2>1
    <2>3. SameDatabase /\ server' \in {server, "down"}
      BY <1>4, HostDiesIs
    <2>4. CASE h = host
      BY <2>2, <2>4, LinesTyped, PrefixOf DEF Prefix
    <2>5. CASE h # host
      <3>1. PICK w \in Workers : \E g \in Writing(w) : CutShort(h, g)
        BY <2>5, LeftIs
      <3>2. PICK g \in Writing(w) : CutShort(h, g)
        BY <3>1
      <3>3. h.lines \in Seq(Generations) /\ Range(h.lines) \subseteq Range(host.lines) \cup {g}
        BY <1>0, <3>2, CutShortLines
      <3>4. Range(host'.lines) \subseteq Range(h.lines)
        BY <2>2, <3>3, PrefixOf DEF Prefix
      <3>5. Gains(g)
        BY <2>3, <3>3, <3>4 DEF Gains
      <3> QED
        BY <3>5
    <2> QED
      BY <2>4, <2>5
  <1>5. CASE LoseFile
    <2>1. host'.lines \in Seq(Generations) /\ host'.lines = <<>>
      BY <1>5, LoseFileIs DEF FileOK, HostType
    <2>2. Range(host'.lines) = {}
      BY <2>1, RangeOf
    <2> QED
      BY <2>2
  <1>6. CASE CutFile
    <2>1. PICK n \in 1..(Len(host.lines) - 1) : Prefix(host, n)
      BY <1>6, CutFileIs
    <2> QED
      BY <2>1, LinesTyped, PrefixOf DEF Prefix
  <1> QED
    BY <1>1, <1>2, <1>3, <1>4, <1>5, <1>6, HostSteps

\* A server comes up over an empty file, or once the profiles in it are gone.
LEMMA ServerSteps ==
    ASSUME TypeOK, [Next]_vars, server' \in {"restoring", "up"}
    PROVE  server \in {"restoring", "up"} \/ ReconcilePurge \/ Range(host'.lines) = {}
  <1>0. CASE server' = Opened(host')
    <2>1. host'.lines = <<>>
      BY <1>0 DEF Opened
    <2>2. TypeOK'
      BY TypedStep
    <2>3. host'.lines \in Seq(Generations)
      BY <2>2 DEF TypeOK, HostType
    <2> QED
      BY <2>1, <2>3, RangeOf
  <1>1. CASE UNCHANGED server
    BY <1>1
  <1>2. ASSUME NEW w \in Workers, Idle(w) \/ Recover(w) \/ MarkRows(w)
        PROVE  UNCHANGED server \/ server' = Opened(host')
    BY <1>2 DEF Idle, Recover, MarkRows, Return
  <1>3. ASSUME NEW w \in Workers, Abort(w)
        PROVE  UNCHANGED server
    BY <1>3 DEF Abort
  <1>4. ASSUME NEW w \in Workers, Step(w) \/ AppendFails(w)
        PROVE  UNCHANGED server \/ server' = Opened(host')
    <2>1. CASE AppendRefused(w) \/ AppendFails(w)
      BY <1>3, <2>1 DEF AppendRefused, AppendFails
    <2>2. CASE LoadHistory(w)
      BY <1>3, <2>2 DEF LoadHistory
    <2>3. CASE \/ AppendOwn(w) \/ Continue(w) \/ RecoverFails(w) \/ PublishLine(w) \/ Unlock(w)
               \/ MarkRow(w) \/ PurgeBatch
      BY <2>3 DEF AppendOwn, Continue, RecoverFails, PublishLine, Unlock, MarkRow, PurgeBatch
    <2> QED
      BY <1>2, <1>4, <2>1, <2>2, <2>3 DEF Step
  <1>5. ASSUME NEW u \in Users, Save(u) \/ CloseAccount(u) \/ WindowEnds(u) \/ ReopenAccount(u)
        PROVE  UNCHANGED server
    BY <1>5 DEF Save, CloseAccount, WindowEnds, ReopenAccount
  <1>6. ASSUME NEW w \in Handlers, NEW u \in Users, Erase(w, u) \/ EraseAgain(w, u)
        PROVE  UNCHANGED server
    BY <1>6 DEF Erase, EraseAgain
  <1>7. CASE Dispatch \/ StartJob \/ Dump \/ RestoreDump \/ JobDies \/ LoseFile \/ CutFile \/ UNCHANGED vars
    BY <1>7 DEF Dispatch, StartJob, Dump, RestoreDump, JobDies, LoseFile, CutFile, vars
  <1>8. CASE StartRebuild \/ ServerDies \/ HostDies
    BY <1>8 DEF StartRebuild, ServerDies, HostDies
  <1>9. CASE ReconcileRows
    BY <1>9 DEF ReconcileRows
  <1>10. CASE Start
    BY <1>0, <1>10, StartIs
  <1> QED
    BY <1>0, <1>1, <1>4, <1>5, <1>6, <1>7, <1>8, <1>9, <1>10 DEF Next, Boot

LEMMA MadeGrows ==
    ASSUME TypeOK, NEW u \in Users, Save(u)
    PROVE  /\ Len(made) \in Nat /\ Len(made') = Len(made) + 1
           /\ made'[Len(made) + 1] = u
           /\ \A g \in Created : g \in Created' /\ made'[g] = made[g]
           /\ Len(made) + 1 \notin Created /\ Len(made) + 1 \in Created'
  <1>1. made \in Seq(Users) /\ made' = Append(made, u)
    BY DEF TypeOK, Save
  <1>2. Len(made) \in Nat /\ Len(made') = Len(made) + 1 /\ made'[Len(made) + 1] = u
        /\ \A g \in 1..Len(made) : made'[g] = made[g]
    BY <1>1
  <1> QED
    BY <1>2 DEF Created

LEMMA ReconciledStep == TypeOK /\ Safe /\ [Next]_vars => Reconciled'
  <1> SUFFICES ASSUME TypeOK, Safe, [Next]_vars PROVE Reconciled'
    OBVIOUS
  <1>1. /\ Range(host.lines) \subseteq Created /\ ledger \subseteq Created
        /\ server \in {"restoring", "up"} => \A u \in Users : live[u] \notin Range(host.lines)
        /\ 0 \notin Range(host.lines)
    BY LinesTyped DEF Safe, Reconciled, Databases, SoundDatabase
  <1>2. Created \subseteq Created'
    <2>1. UNCHANGED made \/ \E u \in Users : Save(u)
      BY DatabaseSteps DEF Erase, MarkRows, MarkRow, PurgeBatch, ReconcilePurge, ReconcileRows, Dump,
                           RestoreDump
    <2> QED
      BY <2>1, MadeGrows DEF Created
  <1>3. ASSUME NEW w \in Workers, NEW g \in Writing(w), Gains(g) PROVE Reconciled'
    <2>1. g \in ledger
      BY WritingIs DEF Safe, Queued
    <2>2. live' = live /\ Range(host'.lines) \subseteq Range(host.lines) \cup {g}
          /\ server' \in {server, "down"}
      BY <1>3 DEF Gains, SameDatabase
    <2>3. \A u \in Users : live[u] # g
      <3>1. g # 0
        BY <2>1, Fields DEF Generations
      <3> QED
        BY <2>1, <3>1 DEF Safe, Databases, SoundDatabase
    <2> QED
      BY <1>1, <1>2, <2>1, <2>2, <2>3 DEF Reconciled
  <1>4. CASE Range(host'.lines) \subseteq Range(host.lines)
    <2>1. ASSUME server' \in {"restoring", "up"}, NEW u \in Users
          PROVE  live'[u] \notin Range(host'.lines)
      <3>1. CASE server \in {"restoring", "up"}
        <4>1. CASE live'[u] \in {0, live[u]}
          BY <1>1, <1>4, <3>1, <4>1
        <4>2. ASSUME NEW v \in Users, Save(v) PROVE live'[u] \in {0, live[u]} \/ live'[u] \notin Created
          BY <4>2, Fields, MadeGrows DEF Save
        <4>3. ASSUME NEW w \in Handlers, NEW v \in Users, Erase(w, v) PROVE live'[u] \in {0, live[u]}
          BY <4>3, Fields, EraseIs
        <4>4. CASE PurgeBatch
          <5>1. PICK due \in SUBSET Users : live' = [v \in Users |-> IF v \in due THEN 0 ELSE live[v]]
            BY <4>4, PurgeBatchIs
          <5> QED
            BY <4>1, <5>1
        <4>5. CASE ReconcilePurge
          BY <4>1, <4>5 DEF ReconcilePurge
        <4>6. CASE RestoreDump
          BY <3>1, <4>6 DEF RestoreDump
        <4>7. CASE \/ ReconcileRows \/ Dump \/ \E w \in Workers : MarkRows(w) \/ MarkRow(w)
          BY <4>1, <4>7 DEF ReconcileRows, Dump, MarkRows, MarkRow, dbVars
        <4> QED
          BY <1>1, <1>4, <4>1, <4>2, <4>3, <4>4, <4>5, <4>6, <4>7, DatabaseSteps
      <3>2. CASE ReconcilePurge
        BY <1>1, <3>2, Fields DEF ReconcilePurge
      <3>3. CASE Range(host'.lines) = {}
        BY <3>3
      <3> QED
        BY <2>1, <3>1, <3>2, <3>3, ServerSteps
    <2> QED
      BY <1>1, <1>2, <1>4, <2>1 DEF Reconciled
  <1> QED
    BY <1>3, <1>4, LineSteps

LEMMA DatabasesStep == TypeOK /\ Safe /\ [Next]_vars => Databases'
  <1> SUFFICES ASSUME TypeOK, Safe, [Next]_vars PROVE Databases'
    OBVIOUS
  <1>1. /\ SoundDatabase(live, ledger, published)
        /\ SoundDatabase(backup.live, backup.ledger, backup.published)
        /\ \A w \in Workers : worker[w].list \subseteq ledger
    BY DEF Safe, Databases, Queued
  <1>2. CASE UNCHANGED <<live, ledger, published, made, backup>>
    BY <1>1, <1>2 DEF Databases, SoundDatabase, Created
  <1>3. ASSUME NEW u \in Users, Save(u) PROVE Databases'
    <2>1. /\ live' = [live EXCEPT ![u] = Len(made) + 1]
          /\ UNCHANGED <<ledger, published, backup>>
      BY <1>3 DEF Save
    <2>2. SoundDatabase(backup.live, backup.ledger, backup.published)'
      BY <1>1, <1>3, <2>1, MadeGrows DEF SoundDatabase
    <2>3. SoundDatabase(live, ledger, published)'
      <3>1. published' \subseteq ledger' /\ ledger' \subseteq Created'
        BY <1>1, <1>3, <2>1, MadeGrows DEF SoundDatabase
      <3>2. ASSUME NEW v \in Users, live'[v] # 0
            PROVE  live'[v] \in Created' /\ live'[v] \notin ledger' /\ made'[live'[v]] = v
        <4>1. CASE v = u
          <5>1. live'[v] = Len(made) + 1
            BY <2>1, <4>1, Fields
          <5> QED
            BY <1>1, <1>3, <2>1, <4>1, <5>1, MadeGrows DEF SoundDatabase
        <4>2. CASE v # u
          <5>1. live'[v] = live[v]
            BY <2>1, <4>2, Fields
          <5> QED
            BY <1>1, <1>3, <2>1, <3>2, <5>1, MadeGrows DEF SoundDatabase
        <4> QED
          BY <4>1, <4>2
      <3> QED
        BY <3>1, <3>2 DEF SoundDatabase
    <2> QED
      BY <2>2, <2>3 DEF Databases
  \* Rows of some users go, and the ledger names their generations.
  <1>4. ASSUME NEW due \in SUBSET Users, NEW gone,
               \A u \in due : live[u] # 0,
               \A g \in gone : \E u \in due : live[u] = g,
               \A u \in Users : live'[u] = IF u \in due THEN 0 ELSE live[u],
               ledger' = ledger \cup gone,
               UNCHANGED <<published, made, backup>>
        PROVE  Databases'
    <2>1. SoundDatabase(backup.live, backup.ledger, backup.published)'
      BY <1>1, <1>4 DEF SoundDatabase, Created
    <2>2. published' \subseteq ledger' /\ ledger' \subseteq Created'
      <3>1. gone \subseteq Created
        BY <1>1, <1>4 DEF SoundDatabase
      <3> QED
        BY <1>1, <1>4, <3>1 DEF SoundDatabase, Created
    <2>3. ASSUME NEW v \in Users, live'[v] # 0
          PROVE  live'[v] \in Created' /\ live'[v] \notin ledger' /\ made'[live'[v]] = v
      <3>1. v \notin due /\ live'[v] = live[v]
        BY <1>4, <2>3
      <3>2. live[v] \in Created /\ live[v] \notin ledger /\ made[live[v]] = v
        BY <1>1, <2>3, <3>1 DEF SoundDatabase
      <3>3. ASSUME NEW u \in due PROVE live[u] # live[v]
        BY <1>1, <1>4, <3>1, <3>2, <3>3 DEF SoundDatabase
      <3> QED
        BY <1>4, <3>1, <3>2, <3>3 DEF Created
    <2> QED
      BY <2>1, <2>2, <2>3 DEF Databases, SoundDatabase
  <1>5. ASSUME NEW w \in Handlers, NEW u \in Users, Erase(w, u) PROVE Databases'
    <2>1. /\ live[u] # 0 /\ live' = [live EXCEPT ![u] = 0]
          /\ ledger' = ledger \cup {live[u]}
          /\ UNCHANGED <<published, made, backup>>
      BY <1>5, EraseIs
    <2>2. PICK due \in SUBSET Users : due = {u}
      OBVIOUS
    <2>3. PICK gone : gone = {live[u]}
      OBVIOUS
    <2>4. \A v \in Users : live'[v] = IF v \in due THEN 0 ELSE live[v]
      BY <2>1, <2>2, Fields
    <2>5. (\A v \in due : live[v] # 0) /\ (\A g \in gone : \E v \in due : live[v] = g)
      BY <2>1, <2>2, <2>3
    <2> QED
      BY <1>4, <2>1, <2>3, <2>4, <2>5
  <1>6. CASE PurgeBatch
    <2>1. PICK due \in SUBSET Users :
             /\ \A u \in due : live[u] # 0
             /\ live' = [u \in Users |-> IF u \in due THEN 0 ELSE live[u]]
             /\ ledger' = ledger \cup {live[u] : u \in due}
             /\ UNCHANGED <<published, made, backup>>
      BY <1>6, PurgeBatchIs
    <2>2. PICK gone : gone = {live[u] : u \in due}
      OBVIOUS
    <2>3. \A g \in gone : \E u \in due : live[u] = g
      BY <2>2
    <2> QED
      BY <1>4, <2>1, <2>2, <2>3
  <1>7. ASSUME NEW w \in Workers, MarkRows(w) \/ MarkRow(w) PROVE Databases'
    <2>1. /\ UNCHANGED <<live, ledger, made, backup>>
          /\ published' \subseteq published \cup worker[w].list
      BY <1>7, MarkRowsIs, MarkRowIs
    <2> QED
      BY <1>1, <2>1 DEF Databases, SoundDatabase, Created
  <1>8. CASE ReconcilePurge
    <2>1. /\ \A u \in Users : live'[u] \in {0, live[u]}
          /\ UNCHANGED <<ledger, published, made, backup>>
      BY <1>8 DEF ReconcilePurge
    <2> QED
      BY <1>1, <2>1 DEF Databases, SoundDatabase, Created
  <1>9. CASE ReconcileRows
    <2>1. /\ ledger' = ledger \cup Range(host.lines) /\ server = "restoring"
          /\ UNCHANGED <<live, published, made, backup>>
      BY <1>9 DEF ReconcileRows
    <2>2. Range(host.lines) \subseteq Created /\ \A u \in Users : live[u] \notin Range(host.lines)
      BY <2>1 DEF Safe, Reconciled
    <2> QED
      BY <1>1, <2>1, <2>2 DEF Databases, SoundDatabase, Created
  <1>10. CASE Dump
    <2>1. /\ UNCHANGED <<live, ledger, published, made>>
          /\ backup'.live = live /\ backup'.ledger = ledger /\ backup'.published = published
      BY <1>10 DEF Dump, Snapshot, dbVars
    <2> QED
      BY <1>1, <2>1 DEF Databases, SoundDatabase, Created
  <1>11. CASE RestoreDump
    <2>1. /\ UNCHANGED <<backup, made>>
          /\ live' = backup.live /\ ledger' = backup.ledger /\ published' = backup.published
      BY <1>11 DEF RestoreDump
    <2> QED
      BY <1>1, <2>1 DEF Databases, SoundDatabase, Created
  <1> QED
    BY <1>2, <1>3, <1>5, <1>6, <1>7, <1>8, <1>9, <1>10, <1>11, DatabaseSteps

\* What keeps the lists of the workers: one of them moves on,
LEMMA QueuedMove ==
    ASSUME TypeOK, Queued, NEW w \in Workers, NEW pc, NEW list, Moves(w, pc, list),
           ledger \subseteq ledger', list \subseteq ledger', pc = "free" => list = {},
           \/ UNCHANGED server /\ (pc = "free" \/ worker[w].pc # "free" \/ server = "up" \/ w = Job)
           \/ server = "down" /\ server' = "rebuilding" /\ w = Dispatcher
           \/ server = "rebuilding" /\ w = Dispatcher /\ pc = "free"
    PROVE  Queued'
  <1>1. \A v \in Workers : worker'[v].list \subseteq ledger'
    <2>1. ASSUME NEW v \in Workers PROVE worker'[v].list \subseteq ledger'
      <3>1. CASE v = w
        BY <3>1 DEF Moves
      <3>2. CASE v # w
        BY <3>2 DEF Moves, Queued
      <3> QED
        BY <3>1, <3>2
    <2> QED
      BY <2>1
  <1>2. \A v \in Workers : worker'[v].pc = "free" => worker'[v].list = {}
    BY DEF Moves, Queued
  <1>3. server' # "up" => \A h \in Handlers : worker'[h].pc = "free"
    BY NamesApart DEF Moves, Queued
  <1>4. server' \notin {"up", "rebuilding"} => worker'[Dispatcher].pc = "free"
    BY NamesApart DEF Moves, Queued
  <1> QED
    BY <1>1, <1>2, <1>3, <1>4 DEF Queued

\* nobody does,
LEMMA QueuedSame ==
    ASSUME TypeOK, Queued, UNCHANGED worker, ledger \subseteq ledger',
           UNCHANGED server \/ server \notin {"up", "rebuilding"}
    PROVE  Queued'
  BY DEF Queued

\* or some die.
LEMMA QueuedDied ==
    ASSUME TypeOK, Queued, NEW W \in SUBSET Workers, Died(W), ledger \subseteq ledger',
           UNCHANGED server \/ Workers \ {Job} \subseteq W
    PROVE  Queued'
  <1>1. \A v \in Workers : worker'[v].list \subseteq ledger'
    <2>1. ASSUME NEW v \in Workers PROVE worker'[v].list \subseteq ledger'
      <3>1. CASE v \in W
        BY <3>1 DEF Died
      <3>2. CASE v \notin W
        BY <3>2 DEF Died, Queued
      <3> QED
        BY <3>1, <3>2
    <2> QED
      BY <2>1
  <1>2. \A v \in Workers : worker'[v].pc = "free" => worker'[v].list = {}
    BY DEF Died, Queued
  <1>3. server' # "up" => \A h \in Handlers : worker'[h].pc = "free"
    BY NamesApart DEF Died, Queued
  <1>4. server' \notin {"up", "rebuilding"} => worker'[Dispatcher].pc = "free"
    BY NamesApart DEF Died, Queued
  <1> QED
    BY <1>1, <1>2, <1>3, <1>4 DEF Queued

LEMMA QueuedStep == TypeOK /\ Queued /\ [Next]_vars => Queued'
  <1> SUFFICES ASSUME TypeOK, Queued, [Next]_vars PROVE Queued'
    OBVIOUS
  <1>0. \A w \in Workers : worker[w].list \subseteq ledger
    BY DEF Queued
  <1>1. ASSUME NEW u \in Users, Save(u) \/ CloseAccount(u) \/ WindowEnds(u) \/ ReopenAccount(u)
        PROVE  Queued'
    <2>1. UNCHANGED <<worker, ledger, server>>
      BY <1>1 DEF Save, CloseAccount, WindowEnds, ReopenAccount
    <2> QED
      BY <2>1, QueuedSame
  <1>2. ASSUME NEW w \in Handlers, NEW u \in Users, Erase(w, u) PROVE Queued'
    <2>1. /\ Moves(w, "append", {live[u]}) /\ ledger' = ledger \cup {live[u]}
          /\ UNCHANGED server /\ server = "up" /\ w \in Workers
      BY <1>2, EraseIs, NamesApart
    <2> QED
      BY <2>1, QueuedMove
  <1>3. ASSUME NEW w \in Workers, Begins(w),
               \/ UNCHANGED server /\ (server = "up" \/ w = Job)
               \/ server = "down" /\ server' = "rebuilding" /\ w = Dispatcher
        PROVE  Queued'
    <2>1. PICK list \in SUBSET ledger : Moves(w, "outbox", list)
      BY <1>3 DEF Begins
    <2>2. UNCHANGED ledger
      BY <1>3 DEF Begins
    <2> QED
      BY <1>3, <2>1, <2>2, QueuedMove
  <1>4. ASSUME NEW w \in Workers, AppendOwn(w) PROVE Queued'
    <2>1. PICK g \in Writing(w) :
             Moves(w, IF worker[w].list = {g} THEN "free" ELSE "append", worker[w].list \ {g})
      BY <1>4, AppendOwnIs
    <2>2. UNCHANGED <<ledger, server>> /\ worker[w].pc # "free"
      BY <1>4, AppendOwnIs DEF SameDatabase
    <2>3. CASE worker[w].list = {g}
      <3>1. Moves(w, "free", worker[w].list \ {g}) /\ worker[w].list \ {g} = {}
        BY <2>1, <2>3
      <3> QED
        BY <2>2, <3>1, QueuedMove
    <2>4. CASE worker[w].list # {g}
      <3>1. Moves(w, "append", worker[w].list \ {g}) /\ worker[w].list \ {g} \subseteq ledger
        BY <1>0, <2>1, <2>4
      <3> QED
        BY <2>2, <3>1, QueuedMove
    <2> QED
      BY <2>3, <2>4
  <1>5. ASSUME NEW w \in Workers, Abort(w) PROVE Queued'
    <2>1. /\ Moves(w, "free", {}) /\ UNCHANGED ledger
          /\ UNCHANGED server \/ (w = Dispatcher /\ server = "rebuilding")
      BY <1>5, AbortIs
    <2> QED
      BY <2>1, QueuedMove
  <1>6. ASSUME NEW w \in Workers, NEW told \in SUBSET Generations, Return(w, told),
               UNCHANGED ledger, worker[w].pc # "free"
        PROVE  Queued'
    <2>1. /\ Moves(w, IF w = Job THEN "batch" ELSE "free", {})
          /\ server' = IF w = Dispatcher /\ server = "rebuilding" THEN Opened(host') ELSE server
      BY <1>6, ReturnIs
    <2>2. CASE w = Job
      <3>1. Moves(w, "batch", {}) /\ UNCHANGED server
        BY <2>1, <2>2, NamesApart
      <3> QED
        BY <1>6, <3>1, QueuedMove
    <2>3. CASE w # Job
      <3>1. Moves(w, "free", {}) /\ (UNCHANGED server \/ (w = Dispatcher /\ server = "rebuilding"))
        BY <2>1, <2>3
      <3> QED
        BY <1>6, <3>1, QueuedMove
    <2> QED
      BY <2>2, <2>3
  <1>7. ASSUME NEW w \in Workers, NEW list \in SUBSET ledger, NEW rebuild \in BOOLEAN,
               Enter(w, list, rebuild), UNCHANGED <<ledger, server>>, worker[w].pc # "free"
        PROVE  Queued'
    <2>1. list \in SUBSET Generations
      BY Fields
    <2>2. Moves(w, "publish", list)
      BY <1>7, <2>1, EnterIs
    <2> QED
      BY <1>7, <2>2, QueuedMove
  <1>8. ASSUME NEW w \in Workers, NEW pc, pc # "free", Moves(w, pc, worker[w].list),
               UNCHANGED <<ledger, server>>, worker[w].pc # "free"
        PROVE  Queued'
    BY <1>0, <1>8, QueuedMove
  <1>9. ASSUME NEW w \in Workers, Step(w) \/ AppendFails(w) PROVE Queued'
    <2>1. CASE AppendRefused(w) \/ AppendFails(w)
      BY <1>5, <2>1, AppendRefusedIs, AppendFailsIs
    <2>2. CASE Idle(w) \/ Recover(w)
      BY <1>6, <2>2, IdleIs, RecoverIs DEF SameDatabase
    <2>3. CASE Continue(w)
      BY <1>0, <1>7, <1>8, <2>3, ContinueIs DEF SameDatabase
    <2>4. CASE RecoverFails(w)
      BY <1>7, <1>8, <2>4, RecoverFailsIs DEF SameDatabase
    <2>5. CASE LoadHistory(w)
      BY <1>5, <1>7, <2>5, LoadHistoryIs DEF SameDatabase
    <2>6. CASE PublishLine(w)
      BY <2>6, PublishLineIs, QueuedSame DEF SameDatabase
    <2>7. CASE Unlock(w)
      BY <1>8, <2>7, UnlockIs DEF SameDatabase
    <2>8. CASE MarkRows(w)
      BY <1>6, <2>8, MarkRowsIs
    <2>9. CASE MarkRow(w)
      BY <2>9, MarkRowIs, QueuedSame
    <2>10. CASE PurgeBatch
      <3>1. PICK due \in SUBSET Users :
               /\ ledger' = ledger \cup {live[u] : u \in due}
               /\ Moves(Job, IF due = {} THEN "free" ELSE "append", {live[u] : u \in due})
               /\ UNCHANGED server
        BY <2>10, PurgeBatchIs
      <3>2. PICK gone : gone = {live[u] : u \in due}
        OBVIOUS
      <3>3. CASE due = {}
        <4>1. Moves(Job, "free", gone) /\ gone = {}
          BY <3>1, <3>2, <3>3
        <4> QED
          BY <3>1, <3>2, <4>1, QueuedMove, NamesApart
      <3>4. CASE due # {}
        <4>1. Moves(Job, "append", gone)
          BY <3>1, <3>2, <3>4
        <4> QED
          BY <3>1, <3>2, <4>1, QueuedMove, NamesApart
      <3> QED
        BY <3>3, <3>4
    <2> QED
      BY <1>4, <1>9, <2>1, <2>2, <2>3, <2>4, <2>5, <2>6, <2>7, <2>8, <2>9, <2>10 DEF Step
  <1>10. CASE Start \/ ReconcilePurge \/ ReconcileRows
    <2>1. UNCHANGED worker /\ ledger \subseteq ledger' /\ server \notin {"up", "rebuilding"}
      BY <1>10 DEF Start, ReconcilePurge, ReconcileRows, dbVars
    <2> QED
      BY <2>1, QueuedSame
  <1>11. CASE Dump \/ LoseFile \/ CutFile \/ UNCHANGED vars
    <2>1. UNCHANGED <<worker, ledger, server>>
      BY <1>11 DEF Dump, LoseFile, CutFile, vars, dbVars
    <2> QED
      BY <2>1, QueuedSame
  <1>12. CASE RestoreDump
    <2>1. UNCHANGED <<worker, server>> /\ server = "down" /\ worker[Job].pc = "free"
      BY <1>12 DEF RestoreDump
    <2>2. \A w \in Workers : worker[w].pc = "free" /\ worker[w].list = {}
      BY <2>1 DEF Queued, Workers
    <2> QED
      BY <2>1, <2>2 DEF Queued
  <1>13. CASE ServerDies \/ HostDies
    <2>1. (Died(Workers \ {Job}) \/ Died(Workers)) /\ UNCHANGED ledger
      BY <1>13, ServerDiesIs, HostDiesIs DEF SameDatabase
    <2> QED
      BY <2>1, QueuedDied
  <1>14. CASE JobDies
    <2>1. Died({Job}) /\ UNCHANGED <<ledger, server>> /\ {Job} \in SUBSET Workers
      BY <1>14, JobDiesIs, NamesApart DEF SameDatabase
    <2> QED
      BY <2>1, QueuedDied
  <1>15. ASSUME NEW w \in Handlers, NEW u \in Users, EraseAgain(w, u) PROVE Queued'
    BY <1>3, <1>15, BeginsIs, NamesApart
  <1>16. CASE Dispatch \/ StartJob \/ StartRebuild
    BY <1>3, <1>16, BeginsIs, NamesApart
  <1> QED
    BY <1>1, <1>2, <1>9, <1>10, <1>11, <1>12, <1>13, <1>14, <1>15, <1>16 DEF Next, Boot

LEMMA LockedMove ==
    ASSUME TypeOK, Locked, NEW w \in Workers, NEW pc, NEW list, Moves(w, pc, list),
           \/ pc # "publish" /\ worker[w].pc # "publish" /\ UNCHANGED lock
           \/ pc # "publish" /\ lock' = IF lock = w THEN Nobody ELSE lock
           \/ pc = "publish" /\ lock = Nobody /\ lock' = w
    PROVE  Locked'
  <1>1. ASSUME NEW v \in Workers PROVE (worker'[v].pc = "publish") <=> (lock' = v)
    <2>1. CASE v = w
      BY <2>1, NamesApart DEF Moves, Locked
    <2>2. CASE v # w
      <3>1. worker'[v].pc = worker[v].pc
        BY <2>2 DEF Moves
      <3> QED
        BY <2>2, <3>1, NamesApart DEF Locked
    <2> QED
      BY <2>1, <2>2
  <1> QED
    BY <1>1 DEF Locked

LEMMA LockedDied ==
    ASSUME TypeOK, Locked, NEW W \in SUBSET Workers, Died(W)
    PROVE  Locked'
  <1>1. ASSUME NEW v \in Workers PROVE (worker'[v].pc = "publish") <=> (lock' = v)
    <2>1. CASE v \in W
      BY <2>1, NamesApart DEF Died
    <2>2. CASE v \notin W
      BY <2>2, NamesApart DEF Died, Locked
    <2> QED
      BY <2>1, <2>2
  <1> QED
    BY <1>1 DEF Locked

LEMMA LockedStep == TypeOK /\ Queued /\ Locked /\ [Next]_vars => Locked'
  <1> SUFFICES ASSUME TypeOK, Queued, Locked, [Next]_vars PROVE Locked'
    OBVIOUS
  <1>1. CASE UNCHANGED <<worker, lock>>
    BY <1>1 DEF Locked
  <1>2. ASSUME NEW u \in Users, Save(u) \/ CloseAccount(u) \/ WindowEnds(u) \/ ReopenAccount(u)
        PROVE  UNCHANGED <<worker, lock>>
    BY <1>2 DEF Save, CloseAccount, WindowEnds, ReopenAccount
  <1>3. ASSUME NEW w \in Handlers, NEW u \in Users, Erase(w, u) PROVE Locked'
    <2>1. Moves(w, "append", {live[u]}) /\ worker[w].pc = "free" /\ UNCHANGED lock /\ w \in Workers
      BY <1>3, EraseIs, NamesApart
    <2> QED
      BY <2>1, LockedMove
  <1>4. ASSUME NEW w \in Workers, Begins(w), worker[w].pc = "free" PROVE Locked'
    BY <1>4, LockedMove DEF Begins
  <1>5. ASSUME NEW w \in Workers, AppendOwn(w) PROVE Locked'
    <2>1. PICK g \in Writing(w) :
             Moves(w, IF worker[w].list = {g} THEN "free" ELSE "append", worker[w].list \ {g})
      BY <1>5, AppendOwnIs
    <2>2. PICK pc : pc = IF worker[w].list = {g} THEN "free" ELSE "append"
      OBVIOUS
    <2>3. Moves(w, pc, worker[w].list \ {g}) /\ pc # "publish"
      BY <2>1, <2>2
    <2>4. UNCHANGED lock /\ worker[w].pc = "append"
      BY <1>5, AppendOwnIs
    <2> QED
      BY <2>3, <2>4, LockedMove
  <1>6. ASSUME NEW w \in Workers, Abort(w) PROVE Locked'
    BY <1>6, AbortIs, LockedMove
  <1>7. ASSUME NEW w \in Workers, NEW told \in SUBSET Generations, Return(w, told),
               UNCHANGED lock, worker[w].pc # "publish"
        PROVE  Locked'
    <2>1. Moves(w, IF w = Job THEN "batch" ELSE "free", {})
      BY <1>7, ReturnIs
    <2>2. PICK pc : pc = IF w = Job THEN "batch" ELSE "free"
      OBVIOUS
    <2>3. Moves(w, pc, {}) /\ pc # "publish"
      BY <2>1, <2>2
    <2> QED
      BY <1>7, <2>3, LockedMove
  <1>8. ASSUME NEW w \in Workers, NEW list \in SUBSET Generations, NEW rebuild \in BOOLEAN,
               Enter(w, list, rebuild), lock = Nobody
        PROVE  Locked'
    BY <1>8, EnterIs, LockedMove
  <1>9. ASSUME NEW w \in Workers, Step(w) \/ AppendFails(w) PROVE Locked'
    <2>1. CASE AppendRefused(w) \/ AppendFails(w)
      BY <1>6, <2>1, AppendRefusedIs, AppendFailsIs
    <2>2. CASE Idle(w) \/ Recover(w)
      BY <1>7, <2>2, IdleIs, RecoverIs
    <2>3. CASE Continue(w)
      <3>1. /\ lock = Nobody /\ worker[w].pc = "outbox"
            /\ \/ UNCHANGED lock /\ Moves(w, "recover", worker[w].list)
               \/ UNCHANGED lock /\ Moves(w, "lost", worker[w].list)
               \/ Enter(w, worker[w].list, FALSE)
        BY <2>3, ContinueIs
      <3> QED
        BY <1>8, <3>1, LockedMove, WorkerFields
    <2>4. CASE RecoverFails(w)
      <3>1. /\ lock = Nobody /\ worker[w].pc = "recover"
            /\ \/ UNCHANGED lock /\ Moves(w, "lost", worker[w].list)
               \/ Enter(w, ledger, FALSE)
        BY <2>4, RecoverFailsIs
      <3> QED
        BY <1>8, <3>1, LockedMove, Fields
    <2>5. CASE LoadHistory(w)
      BY <1>6, <1>8, <2>5, LoadHistoryIs, Fields
    <2>6. CASE PublishLine(w) \/ MarkRow(w)
      BY <1>1, <2>6, PublishLineIs, MarkRowIs
    <2>7. CASE Unlock(w)
      <3>1. lock' = Nobody /\ worker[w].pc = "publish" /\ Moves(w, "mark", worker[w].list)
        BY <2>7, UnlockIs
      <3>2. lock = w
        BY <3>1 DEF Locked
      <3> QED
        BY <3>1, <3>2, LockedMove
    <2>8. CASE MarkRows(w)
      BY <1>7, <2>8, MarkRowsIs
    <2>9. CASE PurgeBatch
      <3>1. PICK due \in SUBSET Users :
               /\ Moves(Job, IF due = {} THEN "free" ELSE "append", {live[u] : u \in due})
               /\ worker[Job].pc = "batch" /\ UNCHANGED lock
        BY <2>9, PurgeBatchIs
      <3>2. PICK gone : gone = {live[u] : u \in due}
        OBVIOUS
      <3>3. PICK pc : pc = IF due = {} THEN "free" ELSE "append"
        OBVIOUS
      <3>4. Moves(Job, pc, gone) /\ pc # "publish"
        BY <3>1, <3>2, <3>3
      <3> QED
        BY <3>1, <3>4, LockedMove, NamesApart
    <2> QED
      BY <1>5, <1>9, <2>1, <2>2, <2>3, <2>4, <2>5, <2>6, <2>7, <2>8, <2>9 DEF Step
  <1>10. CASE \/ Start \/ ReconcilePurge \/ ReconcileRows \/ Dump \/ RestoreDump
              \/ LoseFile \/ CutFile \/ UNCHANGED vars
    BY <1>1, <1>10 DEF Start, ReconcilePurge, ReconcileRows, Dump, RestoreDump, LoseFile, CutFile, vars
  <1>11. CASE ServerDies \/ HostDies \/ JobDies
    <2>1. \E W \in SUBSET Workers : Died(W)
      <3>1. {Job} \in SUBSET Workers /\ Workers \ {Job} \in SUBSET Workers /\ Workers \in SUBSET Workers
        BY NamesApart
      <3> QED
        BY <1>11, <3>1, ServerDiesIs, HostDiesIs, JobDiesIs
    <2> QED
      BY <2>1, LockedDied
  <1>12. ASSUME NEW w \in Handlers, NEW u \in Users, EraseAgain(w, u) PROVE Locked'
    BY <1>4, <1>12, BeginsIs, NamesApart
  <1>13. CASE Dispatch \/ StartJob
    BY <1>4, <1>13, BeginsIs, NamesApart
  <1>14. CASE StartRebuild
    <2>1. server = "down" /\ Begins(Dispatcher)
      BY <1>14, BeginsIs
    <2>2. worker[Dispatcher].pc = "free"
      BY <2>1 DEF Queued
    <2> QED
      BY <1>4, <2>1, <2>2, NamesApart
  <1> QED
    BY <1>1, <1>2, <1>3, <1>9, <1>10, <1>11, <1>12, <1>13, <1>14 DEF Next, Boot

LEMMA InitSafe == Init => Safe
  <1> SUFFICES ASSUME Init PROVE Safe
    OBVIOUS
  <1>1. Databases
    BY DEF Init, Databases, SoundDatabase, Snapshot
  <1>2. Queued /\ Locked
    BY FreeIs, NamesApart DEF Init, Queued, Locked
  <1>3. Reconciled
    <2>1. TypeOK /\ host.lines = <<>>
      BY InitTyped DEF Init
    <2>2. Range(host.lines) = {}
      BY <2>1, LinesTyped, RangeOf
    <2> QED
      BY <2>2 DEF Reconciled
  <1> QED
    BY <1>1, <1>2, <1>3 DEF Safe

\* What was erased is not live, workers carry committed erasures only, one of
\* them writes, and a server that answers is reconciled with its file.
THEOREM SafeHolds == Spec => [](TypeOK /\ Safe)
  <1>1. Init => TypeOK /\ Safe
    BY InitTyped, InitSafe
  <1>2. TypeOK /\ Safe /\ [Next]_vars => (TypeOK /\ Safe)'
    BY TypedStep, DatabasesStep, QueuedStep, LockedStep, ReconciledStep DEF Safe
  <1> QED
    BY <1>1, <1>2, PTL DEF Spec

-----------------------------------------------------------------------------
(* Flushed lines, and the promises that rest on them. *)

\* How a worker comes to publish or to mark rows.
Enters(w) ==
    \E list \in SUBSET Generations, rebuild \in BOOLEAN :
        /\ Enter(w, list, rebuild) /\ lock = Nobody
        /\ SameDatabase /\ UNCHANGED <<server, acked>> /\ SameLines
        /\ IF rebuild THEN list = ledger ELSE ~Lost

LEMMA PcSteps ==
    ASSUME TypeOK, [Next]_vars, NEW v \in Workers, worker'[v].pc \in {"mark", "publish"}
    PROVE  worker'[v] = worker[v] \/ Unlock(v) \/ Enters(v)
  <1>1. ASSUME NEW w \in Workers, NEW pc, NEW list, Moves(w, pc, list), pc \notin {"mark", "publish"}
        PROVE  worker'[v] = worker[v]
    BY <1>1 DEF Moves
  <1>2. ASSUME NEW W \in SUBSET Workers, Died(W)
        PROVE  worker'[v] = worker[v]
    BY <1>2 DEF Died
  <1>3. ASSUME NEW w \in Workers, Abort(w) PROVE worker'[v] = worker[v]
    BY <1>1, <1>3, AbortIs
  <1>4. ASSUME NEW w \in Workers, NEW told \in SUBSET Generations, Return(w, told)
        PROVE  worker'[v] = worker[v]
    <2>1. PICK pc : pc = IF w = Job THEN "batch" ELSE "free"
      OBVIOUS
    <2>2. Moves(w, pc, {}) /\ pc \notin {"mark", "publish"}
      BY <1>4, <2>1, ReturnIs
    <2> QED
      BY <1>1, <2>2
  <1>5. ASSUME NEW w \in Workers, NEW list \in SUBSET Generations, NEW rebuild \in BOOLEAN,
               Enter(w, list, rebuild), lock = Nobody, SameDatabase, UNCHANGED <<server, acked>>,
               SameLines, IF rebuild THEN list = ledger ELSE ~Lost
        PROVE  worker'[v] = worker[v] \/ Enters(v)
    <2>1. CASE w = v
      BY <1>5, <2>1 DEF Enters
    <2>2. CASE w # v
      BY <1>5, <2>2, EnterIs DEF Moves
    <2> QED
      BY <2>1, <2>2
  <1>6. ASSUME NEW w \in Workers, Step(w)
        PROVE  worker'[v] = worker[v] \/ Unlock(v) \/ Enters(v)
    <2>1. CASE AppendOwn(w)
      <3>1. PICK g \in Writing(w) :
               Moves(w, IF worker[w].list = {g} THEN "free" ELSE "append", worker[w].list \ {g})
        BY <2>1, AppendOwnIs
      <3>2. PICK pc : pc = IF worker[w].list = {g} THEN "free" ELSE "append"
        OBVIOUS
      <3>3. Moves(w, pc, worker[w].list \ {g}) /\ pc \notin {"mark", "publish"}
        BY <3>1, <3>2
      <3> QED
        BY <1>1, <3>3
    <2>2. CASE AppendRefused(w)
      BY <1>3, <2>2, AppendRefusedIs
    <2>3. CASE Idle(w) \/ Recover(w) \/ MarkRows(w)
      BY <1>4, <2>3, IdleIs, RecoverIs, MarkRowsIs
    <2>4. CASE Continue(w)
      <3>1. CASE ~Lost /\ Enter(w, worker[w].list, FALSE)
        BY <1>5, <2>4, <3>1, ContinueIs, WorkerFields
      <3>2. CASE Moves(w, "recover", worker[w].list) \/ Moves(w, "lost", worker[w].list)
        BY <1>1, <3>2
      <3> QED
        BY <2>4, <3>1, <3>2, ContinueIs
    <2>5. CASE RecoverFails(w)
      <3>1. CASE ~Lost /\ Enter(w, ledger, FALSE)
        BY <1>5, <2>5, <3>1, RecoverFailsIs, Fields
      <3>2. CASE Moves(w, "lost", worker[w].list)
        BY <1>1, <3>2
      <3> QED
        BY <2>5, <3>1, <3>2, RecoverFailsIs
    <2>6. CASE LoadHistory(w)
      BY <1>3, <1>5, <2>6, LoadHistoryIs, Fields
    <2>7. CASE PublishLine(w) \/ MarkRow(w)
      BY <2>7 DEF PublishLine, MarkRow
    <2>8. CASE Unlock(w)
      BY <2>8, UnlockIs DEF Moves
    <2>9. CASE w = Job /\ PurgeBatch
      <3>1. PICK due \in SUBSET Users :
               Moves(Job, IF due = {} THEN "free" ELSE "append", {live[u] : u \in due})
        BY <2>9, PurgeBatchIs
      <3>2. PICK gone : gone = {live[u] : u \in due}
        OBVIOUS
      <3>3. PICK pc : pc = IF due = {} THEN "free" ELSE "append"
        OBVIOUS
      <3>4. Moves(Job, pc, gone) /\ pc \notin {"mark", "publish"}
        BY <3>1, <3>2, <3>3
      <3> QED
        BY <1>1, <3>4, NamesApart
    <2> QED
      BY <1>6, <2>1, <2>2, <2>3, <2>4, <2>5, <2>6, <2>7, <2>8, <2>9 DEF Step
  <1>7. ASSUME NEW u \in Users, Save(u) \/ CloseAccount(u) \/ WindowEnds(u) \/ ReopenAccount(u)
        PROVE  UNCHANGED worker
    BY <1>7 DEF Save, CloseAccount, WindowEnds, ReopenAccount
  <1>8. ASSUME NEW w \in Handlers, NEW u \in Users, Erase(w, u) \/ EraseAgain(w, u)
        PROVE  worker'[v] = worker[v]
    <2>1. w \in Workers
      BY NamesApart
    <2>2. CASE Erase(w, u)
      <3>1. Moves(w, "append", {live[u]})
        BY <2>2, EraseIs
      <3> QED
        BY <1>1, <2>1, <3>1
    <2>3. CASE EraseAgain(w, u)
      BY <1>1, <2>1, <2>3, BeginsIs DEF Begins
    <2> QED
      BY <1>8, <2>2, <2>3
  <1>9. CASE Dispatch \/ StartJob \/ StartRebuild
    BY <1>1, <1>9, BeginsIs, NamesApart DEF Begins
  <1>10. CASE \/ Start \/ ReconcilePurge \/ ReconcileRows \/ Dump \/ RestoreDump
              \/ LoseFile \/ CutFile \/ UNCHANGED vars
    BY <1>10 DEF Start, ReconcilePurge, ReconcileRows, Dump, RestoreDump, LoseFile, CutFile, vars
  <1>11. CASE ServerDies \/ HostDies \/ JobDies
    <2>1. {Job} \in SUBSET Workers /\ Workers \ {Job} \in SUBSET Workers /\ Workers \in SUBSET Workers
      BY NamesApart
    <2> QED
      BY <1>2, <1>11, <2>1, ServerDiesIs, HostDiesIs, JobDiesIs
  <1>12. ASSUME NEW w \in Workers, AppendFails(w) PROVE worker'[v] = worker[v]
    BY <1>3, <1>12, AppendFailsIs
  <1> QED
    BY <1>6, <1>7, <1>8, <1>9, <1>10, <1>11, <1>12 DEF Next, Boot

\* What a worker is about to mark as published.
Marking == {g \in Generations : \E w \in Workers : worker[w].pc = "mark" /\ g \in worker[w].list}

LEMMA PublishedSteps ==
    ASSUME TypeOK, [Next]_vars
    PROVE  /\ published' \subseteq published \cup Marking \/ (RestoreDump /\ published' = backup.published)
           /\ backup'.published \in {backup.published, published}
  <1>1. ASSUME NEW w \in Workers, MarkRows(w) \/ MarkRow(w)
        PROVE  published' \subseteq published \cup Marking /\ backup' = backup
    BY <1>1, MarkRowsIs, MarkRowIs, WorkerFields DEF Marking
  <1>2. CASE UNCHANGED <<live, ledger, published, made, backup>>
    BY <1>2
  <1>3. ASSUME NEW u \in Users, Save(u) PROVE UNCHANGED <<published, backup>>
    BY <1>3 DEF Save
  <1>4. ASSUME NEW w \in Handlers, NEW u \in Users, Erase(w, u) PROVE UNCHANGED <<published, backup>>
    BY <1>4 DEF Erase
  <1>5. CASE PurgeBatch \/ ReconcilePurge \/ ReconcileRows
    BY <1>5 DEF PurgeBatch, ReconcilePurge, ReconcileRows
  <1>6. CASE Dump
    BY <1>6 DEF Dump, Snapshot, dbVars
  <1>7. CASE RestoreDump
    BY <1>7 DEF RestoreDump
  <1> QED
    BY <1>1, <1>2, <1>3, <1>4, <1>5, <1>6, <1>7, DatabaseSteps

LEMMA AckedSteps ==
    ASSUME TypeOK, [Next]_vars
    PROVE  \/ acked' \subseteq acked \cup Marking
           \/ \E w \in Workers : \E g \in Writing(w) :
                 AppendOwn(w) /\ host' = Appended(g) /\ acked' \subseteq acked \cup {g}
  <1>1. ASSUME NEW w \in Workers, Step(w)
        PROVE  \/ acked' \subseteq acked \cup Marking
               \/ \E g \in Writing(w) :
                     AppendOwn(w) /\ host' = Appended(g) /\ acked' \subseteq acked \cup {g}
    <2>1. CASE AppendOwn(w)
      <3>1. PICK g \in Writing(w) : host' = Appended(g) /\ acked' \in {acked, acked \cup {g}}
        BY <2>1, AppendOwnIs
      <3> QED
        BY <2>1, <3>1
    <2>2. CASE MarkRows(w)
      <3>1. worker[w].pc = "mark" /\ Return(w, worker[w].list \cap Of(worker[w].user))
        BY <2>2, MarkRowsIs
      <3>2. acked' \subseteq acked \cup worker[w].list
        BY <3>1 DEF Return
      <3> QED
        BY <3>1, <3>2, WorkerFields DEF Marking
    <2>3. CASE AppendRefused(w) \/ LoadHistory(w)
      BY <2>3 DEF AppendRefused, LoadHistory, Abort
    <2>4. CASE \/ Idle(w) \/ Continue(w) \/ Recover(w) \/ RecoverFails(w) \/ PublishLine(w)
               \/ Unlock(w) \/ MarkRow(w) \/ PurgeBatch
      <3>1. UNCHANGED acked
        BY <2>4, IdleIs, RecoverIs DEF Continue, RecoverFails, PublishLine, Unlock, MarkRow, PurgeBatch
      <3> QED
        BY <3>1
    <2> QED
      BY <1>1, <2>1, <2>2, <2>3, <2>4 DEF Step
  <1>2. ASSUME NEW u \in Users, Save(u) \/ CloseAccount(u) \/ WindowEnds(u) \/ ReopenAccount(u)
        PROVE  UNCHANGED acked
    BY <1>2 DEF Save, CloseAccount, WindowEnds, ReopenAccount
  <1>3. ASSUME NEW w \in Handlers, NEW u \in Users, Erase(w, u) \/ EraseAgain(w, u)
        PROVE  UNCHANGED acked
    BY <1>3 DEF Erase, EraseAgain
  <1>4. ASSUME NEW w \in Workers, AppendFails(w) PROVE UNCHANGED acked
    BY <1>4 DEF AppendFails, Abort
  <1>5. CASE \/ Dispatch \/ StartJob \/ StartRebuild \/ Start \/ ReconcilePurge \/ ReconcileRows
             \/ Dump \/ RestoreDump \/ LoseFile \/ CutFile \/ UNCHANGED vars
    BY <1>5 DEF Dispatch, StartJob, StartRebuild, Start, ReconcilePurge, ReconcileRows, Dump, RestoreDump,
                LoseFile, CutFile, vars
  <1>6. CASE ServerDies \/ HostDies \/ JobDies
    BY <1>6 DEF ServerDies, HostDies, JobDies
  <1> QED
    BY <1>1, <1>2, <1>3, <1>4, <1>5, <1>6 DEF Next, Boot

LEMMA MarkingSteps ==
    ASSUME TypeOK, [Next]_vars
    PROVE  \A g \in Marking' : g \in Marking \/ \E w \in Workers : Unlock(w) /\ g \in worker[w].list
  <1> SUFFICES ASSUME NEW g \in Marking'
               PROVE  g \in Marking \/ \E w \in Workers : Unlock(w) /\ g \in worker[w].list
    OBVIOUS
  <1>1. PICK v \in Workers : worker'[v].pc = "mark" /\ g \in worker'[v].list
    BY DEF Marking
  <1>2. g \in Generations
    BY DEF Marking
  <1>3. CASE worker'[v] = worker[v]
    BY <1>1, <1>2, <1>3 DEF Marking
  <1>4. CASE Unlock(v)
    BY <1>1, <1>4, UnlockIs DEF Moves
  <1>5. CASE Enters(v)
    BY <1>1, <1>5, EnterIs DEF Enters, Moves
  <1> QED
    BY <1>1, <1>3, <1>4, <1>5, PcSteps

-----------------------------------------------------------------------------
(* While the volume keeps its file. *)

Kept == budget["losses"] = 0 /\ budget["cuts"] = 0

\* The flushed lines stay where they are, whatever happens to the rest.
Extends(h) ==
    /\ FileOK(h) /\ host.synced <= h.synced
    /\ \A i \in 1..host.synced : h.lines[i] = host.lines[i]

LEMMA CutShortExtends ==
    ASSUME TypeOK, NEW h, NEW g \in Generations, CutShort(h, g)
    PROVE  Extends(h)
  <1>1. host.lines \in Seq(Generations) /\ host.synced \in Nat /\ Len(host.lines) \in Nat
        /\ host.synced <= Len(host.lines)
    BY LinesTyped
  <1>2. Len(Append(host.lines, g)) = Len(host.lines) + 1
        /\ \A i \in 1..Len(host.lines) : Append(host.lines, g)[i] = host.lines[i]
    BY <1>1
  <1> QED
    BY <1>1, <1>2 DEF CutShort, Extends

LEMMA KeptExtends ==
    ASSUME TypeOK, Kept, [Next]_vars
    PROVE  Extends(host')
  <1>0. /\ host.lines \in Seq(Generations) /\ host.synced \in Nat /\ Len(host.lines) \in Nat
        /\ host.synced <= Len(host.lines)
        /\ \A w \in Workers : Writing(w) \subseteq Generations
    BY LinesTyped, WritingIs, WorkerFields
  <1>1. CASE SameLines
    BY <1>0, <1>1 DEF SameLines, Extends
  <1>2. ASSUME NEW w \in Workers, AppendOwn(w) \/ PublishLine(w) PROVE Extends(host')
    <2>1. PICK g \in Writing(w) : host' = Appended(g) /\ FileOK(host')
      BY <1>2, AppendOwnIs, PublishLineIs
    <2>2. host'.lines = Append(host.lines, g) /\ host'.synced = Len(Append(host.lines, g))
      BY <1>0, <2>1, Fields, AppendedIs
    <2>3. CutShort(host', g)
      BY <2>1, <2>2 DEF CutShort
    <2> QED
      BY <1>0, <2>3, CutShortExtends
  <1>3. ASSUME NEW w \in Workers, NEW g \in Writing(w), Stopped(w, g) PROVE Extends(host')
    BY <1>0, <1>3, CutShortExtends DEF Stopped
  <1>4. CASE HostDies
    <2>1. PICK h \in Left(Workers) : \E n \in h.synced..Len(h.lines) : Prefix(h, n) /\ host'.synced = h.synced
      BY <1>4, HostDiesIs
    <2>2. PICK n \in h.synced..Len(h.lines) : Prefix(h, n) /\ host'.synced = h.synced
      BY <2>1
    <2>3. Extends(h)
      <3>1. CASE h = host
        BY <1>0, <3>1, Fields DEF Extends
      <3>2. CASE h # host
        <4>1. PICK w \in Workers : \E g \in Writing(w) : CutShort(h, g)
          BY <3>2, LeftIs
        <4> QED
          BY <1>0, <4>1, CutShortExtends
      <3> QED
        BY <3>1, <3>2
    <2>4. h.lines \in Seq(Generations) /\ h.synced \in Nat /\ Len(h.lines) \in Nat
      BY <2>3 DEF Extends, FileOK, HostType
    <2>5. n \in 0..Len(h.lines) /\ h.synced <= n /\ n \in Nat
      BY <2>2, <2>4
    <2>6. \A i \in 1..n : host'.lines[i] = h.lines[i]
      BY <2>2, <2>4, <2>5, PrefixOf DEF Prefix
    <2>7. host.synced <= host'.synced /\ FileOK(host')
      BY <2>2, <2>3 DEF Extends, Prefix
    <2>8. \A i \in 1..host.synced : host'.lines[i] = host.lines[i]
      BY <1>0, <2>3, <2>4, <2>5, <2>6 DEF Extends
    <2> QED
      BY <2>7, <2>8 DEF Extends
  <1>5. ~LoseFile /\ ~CutFile
    BY LoseFileIs, CutFileIs DEF Kept
  <1> QED
    BY <1>1, <1>2, <1>3, <1>4, <1>5, HostSteps

\* Everything promised is flushed: what was marked or is about to be, also in
\* the last dump, and what students were told.
Flushed ==
    /\ Kept
    /\ published \cup backup.published \cup acked \cup Marking \subseteq Durable
    /\ \A w \in Workers :
          worker[w].pc = "publish" /\ worker[w].list \cap Range(host.lines) # {} =>
              host.synced = Len(host.lines)

LEMMA DurableLines ==
    ASSUME TypeOK
    PROVE  /\ Durable \subseteq Range(host.lines)
           /\ host.synced = Len(host.lines) => Durable = Range(host.lines)
  <1>1. /\ host.lines \in Seq(Generations) /\ host.synced \in Nat /\ Len(host.lines) \in Nat
        /\ host.synced <= Len(host.lines)
    BY LinesTyped
  <1>2. /\ \A i \in 1..Len(host.lines) : host.lines[i] \in Range(host.lines)
        /\ \A g \in Range(host.lines) : \E i \in 1..Len(host.lines) : host.lines[i] = g
    BY <1>1, RangeOf
  <1>3. ASSUME NEW i \in 1..host.synced PROVE host.lines[i] \in Range(host.lines)
    <2>1. i \in 1..Len(host.lines)
      BY <1>1
    <2> QED
      BY <1>2, <2>1
  <1>4. ASSUME host.synced = Len(host.lines), NEW g \in Range(host.lines) PROVE g \in Durable
    <2>1. \E i \in 1..host.synced : host.lines[i] = g
      BY <1>2, <1>4
    <2> QED
      BY <2>1 DEF Durable
  <1> QED
    BY <1>3, <1>4 DEF Durable

LEMMA DurableGrows ==
    ASSUME TypeOK, Extends(host')
    PROVE  Durable \subseteq Durable'
  <1>1. host.synced \in Nat /\ host'.synced \in Nat
    BY LinesTyped DEF Extends, FileOK, HostType
  <1>2. ASSUME NEW i \in 1..host.synced PROVE host.lines[i] \in Durable'
    <2>1. i \in 1..host'.synced /\ host'.lines[i] = host.lines[i]
      BY <1>1 DEF Extends
    <2> QED
      BY <2>1 DEF Durable
  <1> QED
    BY <1>2 DEF Durable

LEMMA AppendedDurable ==
    ASSUME TypeOK, NEW g \in Generations, host' = Appended(g)
    PROVE  g \in Durable' /\ host'.synced = Len(host'.lines)
  <1>1. host'.lines = Append(host.lines, g) /\ host'.synced = Len(Append(host.lines, g))
    BY Fields, AppendedIs
  <1>2. /\ Len(Append(host.lines, g)) = Len(host.lines) + 1 /\ Len(host.lines) \in Nat
        /\ Append(host.lines, g)[Len(host.lines) + 1] = g
    BY LinesTyped
  <1>3. Len(host.lines) + 1 \in 1..host'.synced /\ host'.lines[Len(host.lines) + 1] = g
    BY <1>1, <1>2
  <1> QED
    BY <1>1, <1>3 DEF Durable

LEMMA FlushedStep == TypeOK /\ Safe /\ Flushed /\ [Next]_vars => Flushed'
  <1> SUFFICES ASSUME TypeOK, Safe, Flushed, [Next]_vars PROVE Flushed'
    OBVIOUS
  <1>1. Kept'
    BY SpentOnce DEF Flushed, Kept, Kinds
  <1>2. Extends(host')
    BY KeptExtends DEF Flushed
  <1>3. Durable \subseteq Durable'
    BY <1>2, DurableGrows
  <1>4. published \cup backup.published \cup acked \cup Marking \subseteq Durable
    BY DEF Flushed
  <1>5. published' \cup backup'.published \subseteq Durable'
    BY <1>3, <1>4, PublishedSteps
  <1>6. acked' \subseteq Durable'
    <2>1. CASE acked' \subseteq acked \cup Marking
      BY <1>3, <1>4, <2>1
    <2>2. ASSUME NEW w \in Workers, NEW g \in Writing(w), host' = Appended(g), acked' \subseteq acked \cup {g}
          PROVE  acked' \subseteq Durable'
      <3>1. g \in Generations
        BY WritingIs, WorkerFields
      <3> QED
        BY <1>3, <1>4, <2>2, <3>1, AppendedDurable
    <2> QED
      BY <2>1, <2>2, AckedSteps
  <1>7. Marking' \subseteq Durable'
    <2>1. ASSUME NEW w \in Workers, Unlock(w), NEW g \in worker[w].list PROVE g \in Durable
      <3>1. worker[w].pc = "publish" /\ worker[w].list \subseteq Range(host.lines)
        BY <2>1, UnlockIs
      <3>2. host.synced = Len(host.lines)
        BY <2>1, <3>1 DEF Flushed
      <3> QED
        BY <2>1, <3>1, <3>2, DurableLines
    <2> QED
      BY <1>3, <1>4, <2>1, MarkingSteps
  <1>8. ASSUME NEW w \in Workers, worker'[w].pc = "publish", worker'[w].list \cap Range(host'.lines) # {}
        PROVE  host'.synced = Len(host'.lines)
    <2>1. CASE Enters(w)
      <3>1. PICK list \in SUBSET Generations, rebuild \in BOOLEAN : Enter(w, list, rebuild)
        BY <2>1 DEF Enters
      <3>2. worker'[w].list = list /\ host'.lines = host.lines
            /\ host'.synced = IF list \cap Range(host.lines) # {} THEN Len(host.lines) ELSE host.synced
        BY <3>1, EnterIs DEF Moves
      <3> QED
        BY <1>8, <3>2
    <2>2. CASE Unlock(w)
      BY <1>8, <2>2, UnlockIs DEF Moves
    <2>3. CASE worker'[w] = worker[w]
      <3>1. worker[w].pc = "publish" /\ lock = w /\ lock # Nobody
        BY <1>8, <2>3, NamesApart DEF Safe, Locked
      <3>2. CASE SameLines
        <4>1. host'.lines = host.lines /\ host'.synced \in {host.synced, Len(host.lines)}
          BY <3>2 DEF SameLines
        <4>2. worker[w].list \cap Range(host.lines) # {}
          BY <1>8, <2>3, <4>1
        <4> QED
          BY <3>1, <4>1, <4>2 DEF Flushed
      <3>3. ASSUME NEW v \in Workers, AppendOwn(v) \/ PublishLine(v) PROVE host'.synced = Len(host'.lines)
        <4>1. PICK g \in Writing(v) : host' = Appended(g)
          BY <3>3, AppendOwnIs, PublishLineIs
        <4>2. g \in Generations
          BY WritingIs, WorkerFields
        <4> QED
          BY <4>1, <4>2, AppendedDurable
      <3>4. ASSUME NEW v \in Workers, NEW g \in Writing(v), Stopped(v, g) PROVE FALSE
        <4>1. worker[v].pc = "publish"
          BY <3>1, <3>4, WritingIs
        <4>2. v = w
          BY <3>1, <4>1 DEF Safe, Locked
        <4> QED
          BY <1>8, <3>4, <4>2 DEF Stopped
      <3>5. ~HostDies
        BY <1>8, HostDiesIs DEF Died
      <3>6. ~LoseFile /\ ~CutFile
        BY <3>1, LoseFileIs, CutFileIs
      <3> QED
        BY <3>2, <3>3, <3>4, <3>5, <3>6, HostSteps
    <2> QED
      BY <1>8, <2>1, <2>2, <2>3, PcSteps
  <1> QED
    BY <1>1, <1>5, <1>6, <1>7, <1>8 DEF Flushed

\* Without a restored dump what students were told is on record.
OnRecord == budget["restores"] = 0 /\ acked \subseteq ledger

LEMMA OnRecordStep == TypeOK /\ Safe /\ OnRecord /\ [Next]_vars => OnRecord'
  <1> SUFFICES ASSUME TypeOK, Safe, OnRecord, [Next]_vars PROVE OnRecord'
    OBVIOUS
  <1>1. budget'["restores"] = 0
    BY SpentOnce DEF OnRecord, Kinds
  <1>2. \A w \in Workers : worker[w].list \subseteq ledger
    BY DEF Safe, Queued
  <1>3. ledger \subseteq ledger'
    <2>1. ~RestoreDump
      BY DEF RestoreDump, OnRecord
    <2>2. ASSUME NEW w \in Workers, MarkRows(w) \/ MarkRow(w) PROVE UNCHANGED ledger
      BY <2>2, MarkRowsIs, MarkRowIs
    <2>3. ASSUME NEW w \in Handlers, NEW u \in Users, Erase(w, u) PROVE ledger \subseteq ledger'
      BY <2>3, EraseIs
    <2>4. ASSUME NEW u \in Users, Save(u) PROVE UNCHANGED ledger
      BY <2>4 DEF Save
    <2>5. CASE PurgeBatch \/ ReconcilePurge \/ ReconcileRows \/ Dump
      BY <2>5 DEF PurgeBatch, ReconcilePurge, ReconcileRows, Dump, dbVars
    <2> QED
      BY <2>1, <2>2, <2>3, <2>4, <2>5, DatabaseSteps
  <1>4. acked' \subseteq ledger
    <2>1. Marking \subseteq ledger /\ acked \subseteq ledger
      BY <1>2 DEF Marking, OnRecord
    <2>2. \A w \in Workers : Writing(w) \subseteq ledger
      BY <1>2, WritingIs
    <2> QED
      BY <2>1, <2>2, AckedSteps
  <1> QED
    BY <1>1, <1>3, <1>4 DEF OnRecord

\* A dump is restored only where the file was never lost or cut.
NoRestoreAfterLoss == \A b \in Budgets : b["restores"] = 0 \/ (b["losses"] = 0 /\ b["cuts"] = 0)

LEMMA InitFlushed == Init => (Kept => Flushed) /\ (budget["restores"] = 0 => OnRecord)
  <1> SUFFICES ASSUME Init PROVE (Kept => Flushed) /\ (budget["restores"] = 0 => OnRecord)
    OBVIOUS
  <1>1. published = {} /\ backup.published = {} /\ acked = {}
    BY DEF Init, Snapshot
  <1>2. \A w \in Workers : worker[w].pc = "free"
    BY FreeIs DEF Init
  <1>3. Marking = {}
    BY <1>2 DEF Marking
  <1> QED
    BY <1>1, <1>2, <1>3 DEF Flushed, OnRecord

\* Whatever fails, dies or is restored, a server that answers holds no profile
\* its student was told is erased.
THEOREM ErasedStaysErasedHolds == NoRestoreAfterLoss => (Spec => []ErasedStaysErased)
  <1> DEFINE Told == TypeOK /\ Safe /\ (Flushed \/ OnRecord)
  <1> SUFFICES ASSUME NoRestoreAfterLoss PROVE Spec => []ErasedStaysErased
    OBVIOUS
  <1>1. Init => Told
    <2>1. Init => budget \in Budgets
      BY DEF Init
    <2>2. Init => Kept \/ budget["restores"] = 0
      BY <2>1 DEF NoRestoreAfterLoss, Kept
    <2> QED
      BY <2>2, InitTyped, InitSafe, InitFlushed
  <1>2. Told /\ [Next]_vars => Told'
    BY TypedStep, DatabasesStep, QueuedStep, LockedStep, ReconciledStep, FlushedStep, OnRecordStep DEF Safe
  <1>3. Told => ErasedStaysErased
    <2> SUFFICES ASSUME Told, server = "up", NEW g \in acked, live[made[g]] = g PROVE FALSE
      BY DEF ErasedStaysErased
    <2>1. acked \subseteq Range(host.lines) \/ acked \subseteq ledger
      BY DurableLines DEF Flushed, OnRecord
    <2>2. g \in Created
      BY <2>1 DEF Safe, Reconciled, Databases, SoundDatabase
    <2>3. made[g] \in Users /\ g # 0
      BY <2>2 DEF TypeOK, Created
    <2>4. g \notin Range(host.lines)
      BY <2>3 DEF Safe, Reconciled
    <2>5. g \notin ledger
      BY <2>3 DEF Safe, Databases, SoundDatabase
    <2> QED
      BY <2>1, <2>4, <2>5
  <1> QED
    BY <1>1, <1>2, <1>3, PTL DEF Spec


-----------------------------------------------------------------------------
(* A file lost or cut is rebuilt with everything promised, or is refused,     *)
(* where no process dies while it runs and no append fails: the server stays  *)
(* up, and a short file is told by its tail marker until all is rewritten.    *)

Calm == budget["crashes"] = 0 /\ budget["failures"] = 0 /\ budget["kills"] = 0

\* What the outbox has given up on, or is about to.
Promised == published \cup Marking

\* All of the file is flushed; its marker says what is in it or, after a loss,
\* that there were more lines.
Described ==
    /\ host.ever \/ host.lines = <<>>
    /\ host.synced = Len(host.lines) /\ ~host.torn
    /\ ~host.ever \/ host.tail = Describe(host.lines) \/ host.tail.count > Len(host.lines)

\* A file that passes the gate, and one that is being extended, holds what was
\* promised; one that is being rebuilt will.
Rebuilt ==
    /\ Calm /\ server = "up" /\ Described
    /\ lock = Nobody /\ Gate(host) => Promised \subseteq Range(host.lines)
    /\ \A w \in Workers : worker[w].pc = "publish" =>
          IF worker[w].skip THEN Promised \subseteq Range(host.lines) \cup worker[w].list
          ELSE Gate(host) /\ Promised \subseteq Range(host.lines)

\* Where the file is described, whoever may extend it finds it whole.
LEMMA DescribedGate ==
    ASSUME TypeOK, Described
    PROVE  /\ ~Lost => Gate(host)
           /\ Accepts(FALSE) => Gate(host)
  <1>1. Len(host.lines) \in Nat /\ Describe(host.lines).count = Len(host.lines)
    BY LinesTyped DEF Describe
  <1>2. ~host.ever => host.lines = <<>> /\ ~host.torn
    BY DEF Described
  <1>3. ~host.ever => Gate(host)
    BY <1>2 DEF Gate
  <1>4. CASE ~Lost
    BY <1>3, <1>4 DEF Lost, FileEmpty, TailWrong, Gate
  <1>5. ASSUME Accepts(FALSE), host.ever PROVE Gate(host)
    <2>1. ~FileEmpty /\ host.tail.count = Len(host.lines) /\ ~host.torn
      BY <1>5 DEF Accepts, TailShort
    <2>2. ~(host.tail.count > Len(host.lines))
      BY <1>1, <2>1
    <2>3. host.tail = Describe(host.lines) /\ host.lines # <<>>
      BY <1>5, <2>1, <2>2 DEF Described, FileEmpty
    <2> QED
      BY <1>5, <2>1, <2>3 DEF Gate
  <1> QED
    BY <1>3, <1>4, <1>5

SameFile ==
    /\ host'.lines = host.lines /\ host'.torn = host.torn /\ host'.ever = host.ever
    /\ host'.synced = host.synced /\ host'.tail = host.tail

LEMMA SameGate == SameFile => Gate(host') = Gate(host)
  BY DEF SameFile, Gate

\* Entering a described file changes nothing of it.
LEMMA EnterDescribed ==
    ASSUME TypeOK, Described, NEW w \in Workers, NEW list \in SUBSET Generations,
           NEW rebuild \in BOOLEAN, Enter(w, list, rebuild)
    PROVE  SameFile
  <1>1. host.ever \in BOOLEAN
    BY Fields DEF FileOK, HostType
  <1> QED
    BY <1>1, EnterIs DEF Described, SameFile

\* Without deaths and failing appends the server stays up, and these are the
\* steps that change the file.
LEMMA CalmSteps ==
    ASSUME TypeOK, Calm, server = "up", Described, [Next]_vars
    PROVE  /\ UNCHANGED server /\ ~RestoreDump
           /\ \/ SameFile
              \/ \E w \in Workers : Recover(w) \/ AppendOwn(w) \/ PublishLine(w)
              \/ LoseFile \/ CutFile
  <1>1. /\ ~ServerDies /\ ~HostDies /\ ~JobDies /\ ~RestoreDump
        /\ ~Start /\ ~StartRebuild /\ ~ReconcilePurge /\ ~ReconcileRows
        /\ \A w \in Workers : ~AppendFails(w)
    <2>1. ~ServerDies /\ ~HostDies /\ ~JobDies
      BY ServerDiesIs, HostDiesIs, JobDiesIs DEF Calm
    <2>2. \A w \in Workers : ~AppendFails(w)
      BY AppendFailsIs DEF Calm
    <2> QED
      BY <2>1, <2>2 DEF RestoreDump, Start, StartRebuild, ReconcilePurge, ReconcileRows
  <1>2. host.ever \in BOOLEAN
    BY Fields DEF FileOK, HostType
  <1>3. UNCHANGED host => SameFile
    BY DEF SameFile
  <1>4. ASSUME NEW w \in Workers, NEW told, Return(w, told) PROVE UNCHANGED server
    BY <1>4 DEF Return
  <1>5. ASSUME NEW w \in Workers, Abort(w) PROVE UNCHANGED server
    BY <1>5 DEF Abort
  <1>6. ASSUME NEW w \in Workers, Step(w)
        PROVE  UNCHANGED server /\ (SameFile \/ Recover(w) \/ AppendOwn(w) \/ PublishLine(w))
    <2>1. CASE AppendOwn(w) \/ PublishLine(w)
      BY <2>1 DEF AppendOwn, PublishLine
    <2>2. CASE AppendRefused(w)
      BY <1>3, <1>5, <2>2 DEF AppendRefused
    <2>3. CASE Idle(w)
      <3>1. FileEmpty \/ host.lines # <<>>
        BY DEF FileEmpty, Described
      <3>2. host.ever \/ ~FileEmpty => host.ever
        BY DEF FileEmpty, Described
      <3> QED
        BY <1>2, <1>4, <2>3, <3>2, IdleIs DEF SameFile, SameLines
    <2>4. CASE Continue(w)
      <3>1. ~FileEmpty => host.ever
        BY DEF FileEmpty, Described
      <3>2. worker[w].list \in SUBSET Generations
        BY WorkerFields
      <3>3. SameFile
        <4>1. CASE /\ ~FileEmpty /\ host'.ever
                   /\ host'.tail = host.tail /\ host'.synced = host.synced
          <5>1. SameLines
            BY <2>4, ContinueIs
          <5>2. host'.ever = TRUE
            BY <4>1, <5>1 DEF SameLines, FileOK, HostType
          <5> QED
            BY <1>2, <3>1, <4>1, <5>1, <5>2 DEF SameFile, SameLines
        <4>2. CASE Enter(w, worker[w].list, FALSE)
          BY <3>2, <4>2, EnterDescribed
        <4> QED
          BY <1>3, <2>4, <4>1, <4>2, ContinueIs
      <3> QED
        BY <2>4, <3>3, ContinueIs
    <2>5. CASE Recover(w)
      BY <1>4, <2>5, RecoverIs
    <2>6. CASE RecoverFails(w)
      <3>1. CASE Enter(w, ledger, FALSE)
        BY <2>6, <3>1, Fields, EnterDescribed, RecoverFailsIs
      <3> QED
        BY <1>3, <2>6, <3>1, RecoverFailsIs
    <2>7. CASE LoadHistory(w)
      <3>1. CASE Enter(w, ledger, TRUE) /\ UNCHANGED server
        BY <3>1, Fields, EnterDescribed
      <3> QED
        BY <1>3, <1>5, <2>7, <3>1, LoadHistoryIs
    <2>8. CASE MarkRows(w)
      BY <1>3, <1>4, <2>8, MarkRowsIs
    <2>9. CASE Unlock(w) \/ MarkRow(w) \/ PurgeBatch
      BY <1>3, <2>9 DEF Unlock, MarkRow, PurgeBatch
    <2> QED
      BY <1>6, <2>1, <2>2, <2>3, <2>4, <2>5, <2>6, <2>7, <2>8, <2>9 DEF Step
  <1>7. ASSUME NEW u \in Users, Save(u) \/ CloseAccount(u) \/ WindowEnds(u) \/ ReopenAccount(u)
        PROVE  UNCHANGED <<server, host>>
    BY <1>7 DEF Save, CloseAccount, WindowEnds, ReopenAccount
  <1>8. ASSUME NEW w \in Handlers, NEW u \in Users, Erase(w, u) \/ EraseAgain(w, u)
        PROVE  UNCHANGED <<server, host>>
    BY <1>8 DEF Erase, EraseAgain
  <1>9. CASE Dispatch \/ StartJob \/ Dump \/ UNCHANGED vars
    BY <1>1, <1>3, <1>9 DEF Dispatch, StartJob, Dump, vars
  <1>10. CASE LoseFile \/ CutFile
    BY <1>1, <1>10 DEF LoseFile, CutFile
  <1> QED
    BY <1>1, <1>3, <1>6, <1>7, <1>8, <1>9, <1>10 DEF Next, Boot


\* A loss shows: the marker counts more lines than are left.
LEMMA LossShows ==
    ASSUME TypeOK, Described, LoseFile \/ CutFile
    PROVE  /\ ~Gate(host') /\ host'.ever
           /\ host'.synced = Len(host'.lines) /\ ~host'.torn
           /\ host'.tail.count > Len(host'.lines)
  <1>1. /\ host.lines \in Seq(Generations) /\ Len(host.lines) \in Nat
        /\ host.tail.count \in Nat \cup {-1}
        /\ Describe(host.lines).count = Len(host.lines)
    BY LinesTyped, Fields DEF FileOK, HostType, Describe
  <1>2. /\ host.lines # <<>> /\ Len(host'.lines) \in Nat /\ Len(host'.lines) < Len(host.lines)
        /\ host'.synced = Len(host'.lines) /\ ~host'.torn
        /\ host'.ever = host.ever /\ host'.tail = host.tail
    <2>1. CASE LoseFile
      <3>1. host.lines # <<>> => Len(host.lines) > 0
        BY <1>1
      <3> QED
        BY <1>1, <2>1, <3>1, LoseFileIs
    <2>2. CASE CutFile
      <3>1. PICK n \in 1..(Len(host.lines) - 1) :
               /\ Prefix(host, n) /\ host'.synced = n /\ host'.torn = host.torn
               /\ host'.ever = host.ever /\ host'.tail = host.tail
        BY <2>2, CutFileIs
      <3>2. n \in 0..Len(host.lines) /\ n \in Nat /\ n < Len(host.lines)
        BY <1>1, <3>1
      <3>3. host'.lines = SubSeq(host.lines, 1, n)
        BY <3>1 DEF Prefix
      <3>4. Len(host'.lines) = n
        BY <1>1, <3>2, <3>3, PrefixOf
      <3>5. host.lines # <<>>
        BY <1>1, <3>1
      <3> QED
        BY <3>1, <3>2, <3>4, <3>5 DEF Described
    <2> QED
      BY <2>1, <2>2
  <1>3. host.ever /\ host.tail.count >= Len(host.lines)
    BY <1>1, <1>2 DEF Described
  <1>4. host'.tail.count > Len(host'.lines)
    BY <1>1, <1>2, <1>3
  <1>5. host'.tail # Describe(host'.lines)
    BY <1>2, <1>4 DEF Describe
  <1> QED
    BY <1>2, <1>3, <1>4, <1>5 DEF Gate

\* A line that was appended passes the gate.
LEMMA AppendedGate ==
    ASSUME TypeOK, Described, NEW g \in Generations, host' = Appended(g)
    PROVE  /\ Gate(host') /\ host'.ever /\ ~host'.torn
           /\ host'.synced = Len(host'.lines) /\ host'.tail = Describe(host'.lines)
           /\ Range(host'.lines) = Range(host.lines) \cup {g}
  <1>1. /\ host'.ever /\ host'.lines = Append(host.lines, g) /\ host'.torn = host.torn
        /\ host'.synced = Len(Append(host.lines, g)) /\ host'.tail = Describe(Append(host.lines, g))
    BY Fields, AppendedIs
  <1>2. Append(host.lines, g) # <<>>
    BY LinesTyped
  <1> QED
    BY <1>1, <1>2, LinesTyped, RangeAppend DEF Gate, Described

LEMMA DescribedStep ==
    ASSUME TypeOK, Calm, server = "up", Described, [Next]_vars
    PROVE  Described'
  <1>1. CASE SameFile
    BY <1>1 DEF SameFile, Described
  <1>2. ASSUME NEW w \in Workers, Recover(w) PROVE Described'
    <2>1. /\ host'.lines = host.lines /\ host'.torn = host.torn
          /\ host'.ever = host.ever /\ host'.synced = host.synced
          /\ host'.tail = Describe(host.lines)
      BY <1>2, RecoverIs DEF SameLines
    <2> QED
      BY <2>1 DEF Described
  <1>3. ASSUME NEW w \in Workers, AppendOwn(w) \/ PublishLine(w) PROVE Described'
    <2>1. PICK g \in Writing(w) : host' = Appended(g)
      BY <1>3, AppendOwnIs, PublishLineIs
    <2>2. g \in Generations
      BY WritingIs, WorkerFields
    <2> QED
      BY <2>1, <2>2, AppendedGate DEF Described
  <1>4. CASE LoseFile \/ CutFile
    BY <1>4, LossShows DEF Described
  <1> QED
    BY <1>1, <1>2, <1>3, <1>4, CalmSteps

\* What is promised is on record, and a promise is added on leaving the file.
LEMMA PromisedSteps ==
    ASSUME TypeOK, Safe, ~RestoreDump, [Next]_vars
    PROVE  /\ Promised \subseteq ledger
           /\ \/ Promised' \subseteq Promised
              \/ \E w \in Workers : Unlock(w) /\ Promised' \subseteq Promised \cup worker[w].list
  <1>1. Promised \subseteq ledger
    BY DEF Promised, Marking, Safe, Queued, Databases, SoundDatabase
  <1>2. published' \subseteq Promised
    BY PublishedSteps DEF Promised
  <1>3. CASE \E w \in Workers : Unlock(w)
    <2>1. PICK w \in Workers : Unlock(w)
      BY <1>3
    <2>2. ASSUME NEW v \in Workers, Unlock(v) PROVE v = w
      BY <2>1, <2>2, UnlockIs DEF Safe, Locked
    <2>3. Marking' \subseteq Marking \cup worker[w].list
      <3>1. ASSUME NEW g \in Marking', g \notin Marking PROVE g \in worker[w].list
        BY <2>2, <3>1, MarkingSteps
      <3> QED
        BY <3>1
    <2> QED
      BY <1>1, <1>2, <2>1, <2>3 DEF Promised
  <1>4. CASE ~ \E w \in Workers : Unlock(w)
    BY <1>1, <1>2, <1>4, MarkingSteps DEF Promised
  <1> QED
    BY <1>3, <1>4

\* The lock is given up on leaving the file, or when extending it is refused.
LEMMA LockSteps ==
    ASSUME TypeOK, Safe, Calm, server = "up", Described, [Next]_vars, lock # Nobody, lock' = Nobody
    PROVE  \E w \in Workers : worker[w].pc = "publish" /\ (Unlock(w) \/ AppendRefused(w))
  <1>1. \A w \in Workers : ~AppendFails(w)
    BY AppendFailsIs DEF Calm
  <1>2. ~ServerDies /\ ~HostDies /\ ~JobDies
    BY ServerDiesIs, HostDiesIs, JobDiesIs DEF Calm
  <1>3. ASSUME NEW w \in Workers, Step(w)
        PROVE  worker[w].pc = "publish" /\ (Unlock(w) \/ AppendRefused(w))
    <2>1. CASE AppendRefused(w)
      BY <2>1, AbortIs DEF AppendRefused, Safe, Locked
    <2>2. CASE Unlock(w)
      BY <2>2, UnlockIs
    <2>3. ~AppendOwn(w) /\ ~Idle(w) /\ ~Continue(w) /\ ~Recover(w) /\ ~RecoverFails(w) /\ ~LoadHistory(w)
      BY DEF AppendOwn, Idle, Continue, Recover, RecoverFails, LoadHistory
    <2>4. ~PublishLine(w) /\ ~MarkRows(w) /\ ~MarkRow(w) /\ ~PurgeBatch
      BY DEF PublishLine, MarkRows, MarkRow, PurgeBatch
    <2> QED
      BY <1>3, <2>1, <2>2, <2>3, <2>4 DEF Step
  <1>4. ASSUME NEW u \in Users, Save(u) \/ CloseAccount(u) \/ WindowEnds(u) \/ ReopenAccount(u)
        PROVE  UNCHANGED lock
    BY <1>4 DEF Save, CloseAccount, WindowEnds, ReopenAccount
  <1>5. ASSUME NEW w \in Handlers, NEW u \in Users, Erase(w, u) \/ EraseAgain(w, u)
        PROVE  UNCHANGED lock
    BY <1>5 DEF Erase, EraseAgain
  <1>6. ASSUME Dispatch \/ StartJob \/ Dump \/ RestoreDump \/ LoseFile \/ CutFile \/ UNCHANGED vars
        PROVE  UNCHANGED lock
    BY <1>6 DEF Dispatch, StartJob, Dump, RestoreDump, LoseFile, CutFile, vars
  <1>7. ASSUME Boot PROVE UNCHANGED lock
    BY <1>7 DEF Boot, Start, StartRebuild, ReconcilePurge, ReconcileRows
  <1> QED
    BY <1>1, <1>2, <1>3, <1>4, <1>5, <1>6, <1>7 DEF Next


LEMMA RebuiltStep == TypeOK /\ Safe /\ Rebuilt /\ [Next]_vars => Rebuilt'
  <1> SUFFICES ASSUME TypeOK, Safe, Rebuilt, [Next]_vars PROVE Rebuilt'
    OBVIOUS
  <1>1. Calm'
    BY SpentOnce DEF Rebuilt, Calm, Kinds
  <1>2. /\ server' = "up" /\ ~RestoreDump
        /\ \/ SameFile
           \/ \E w \in Workers : Recover(w) \/ AppendOwn(w) \/ PublishLine(w)
           \/ LoseFile \/ CutFile
    BY CalmSteps DEF Rebuilt
  <1>3. Described'
    BY DescribedStep DEF Rebuilt
  <1>4. /\ Promised \subseteq ledger
        /\ \/ Promised' \subseteq Promised
           \/ \E w \in Workers : Unlock(w) /\ Promised' \subseteq Promised \cup worker[w].list
    BY <1>2, PromisedSteps
  <1>5. ASSUME lock' = Nobody, Gate(host')
        PROVE  Promised' \subseteq Range(host'.lines)
    <2>1. CASE \E w \in Workers : Unlock(w)
      <3>1. PICK w \in Workers : Unlock(w)
        BY <2>1
      <3>2. /\ UNCHANGED host /\ worker[w].pc = "publish"
            /\ worker[w].list \subseteq Range(host.lines)
        BY <3>1, UnlockIs
      <3>3. Promised \subseteq Range(host.lines)
        BY <3>2 DEF Rebuilt
      <3>4. ASSUME NEW v \in Workers, Unlock(v) PROVE worker[v].list \subseteq Range(host.lines)
        BY <3>4, UnlockIs
      <3> QED
        BY <1>4, <3>2, <3>3, <3>4
    <2>2. ASSUME ~ \E w \in Workers : Unlock(w), lock # Nobody
          PROVE  Promised' \subseteq Range(host'.lines)
      <3>1. PICK w \in Workers : worker[w].pc = "publish" /\ AppendRefused(w)
        BY <1>5, <2>2, LockSteps DEF Rebuilt
      <3>2. UNCHANGED host /\ ~worker[w].skip
        BY <3>1 DEF AppendRefused, Accepts
      <3>3. Promised \subseteq Range(host.lines)
        BY <3>1, <3>2 DEF Rebuilt
      <3> QED
        BY <1>4, <2>2, <3>2, <3>3
    <2>3. ASSUME ~ \E w \in Workers : Unlock(w), lock = Nobody
          PROVE  Promised' \subseteq Range(host'.lines)
      <3>1. Promised' \subseteq Promised
        BY <1>4, <2>3
      <3>2. CASE SameFile
        <4>1. Gate(host) /\ host'.lines = host.lines
          BY <1>5, <3>2, SameGate DEF SameFile
        <4> QED
          BY <2>3, <3>1, <4>1 DEF Rebuilt
      <3>3. ASSUME NEW w \in Workers, Recover(w) PROVE Promised' \subseteq Range(host'.lines)
        BY <1>4, <3>1, <3>3, RecoverIs DEF Complete, SameLines
      <3>4. ASSUME NEW w \in Workers, AppendOwn(w) PROVE Promised' \subseteq Range(host'.lines)
        <4>1. PICK g \in Writing(w) : host' = Appended(g)
          BY <3>4, AppendOwnIs
        <4>2. g \in Generations
          BY WritingIs, WorkerFields
        <4>3. Gate(host)
          BY <3>4, AppendOwnIs, DescribedGate DEF Rebuilt
        <4>4. Promised \subseteq Range(host.lines)
          BY <2>3, <4>3 DEF Rebuilt
        <4>5. Range(host'.lines) = Range(host.lines) \cup {g}
          BY <4>1, <4>2, AppendedGate DEF Rebuilt
        <4> QED
          BY <3>1, <4>4, <4>5
      <3>5. \A w \in Workers : ~PublishLine(w)
        BY <2>3, PublishLineIs, NamesApart DEF Safe, Locked
      <3>6. ~LoseFile /\ ~CutFile
        BY <1>5, LossShows DEF Rebuilt
      <3> QED
        BY <1>2, <3>2, <3>3, <3>4, <3>5, <3>6
    <2> QED
      BY <2>1, <2>2, <2>3
  <1>6. ASSUME NEW w \in Workers, worker'[w].pc = "publish"
        PROVE  IF worker'[w].skip THEN Promised' \subseteq Range(host'.lines) \cup worker'[w].list
               ELSE Gate(host') /\ Promised' \subseteq Range(host'.lines)
    <2>1. ~Unlock(w)
      BY <1>6, UnlockIs DEF Moves
    <2>2. CASE Enters(w)
      <3>1. PICK list \in SUBSET Generations, rebuild \in BOOLEAN :
               /\ Enter(w, list, rebuild) /\ lock = Nobody
               /\ SameDatabase /\ IF rebuild THEN list = ledger ELSE ~Lost
        BY <2>2 DEF Enters
      <3>2. SameFile
        BY <3>1, EnterDescribed DEF Rebuilt
      <3>3. worker'[w].skip = rebuild /\ worker'[w].list = list
        BY <3>1, EnterIs DEF Moves
      <3>4. Promised' \subseteq Promised
        <4>1. \A v \in Workers : ~Unlock(v)
          BY <3>1, NamesApart, UnlockIs DEF Safe, Locked
        <4> QED
          BY <1>4, <4>1
      <3>5. CASE rebuild
        BY <1>4, <3>1, <3>3, <3>4, <3>5
      <3>6. CASE ~rebuild
        <4>1. Gate(host)
          BY <3>1, <3>6, DescribedGate DEF Rebuilt
        <4>2. Promised \subseteq Range(host.lines)
          BY <3>1, <4>1 DEF Rebuilt
        <4>3. Gate(host') /\ host'.lines = host.lines
          BY <3>2, <4>1, SameGate DEF SameFile
        <4> QED
          BY <3>3, <3>4, <3>6, <4>2, <4>3
      <3> QED
        BY <3>5, <3>6
    <2>3. CASE worker'[w] = worker[w]
      <3>1. worker[w].pc = "publish" /\ lock = w /\ lock # Nobody
        BY <1>6, <2>3, NamesApart DEF Safe, Locked
      <3>2. Promised' \subseteq Promised
        <4>1. \A v \in Workers : ~Unlock(v)
          BY <2>1, <3>1, UnlockIs DEF Safe, Locked
        <4> QED
          BY <1>4, <4>1
      <3>3. IF worker[w].skip THEN Promised \subseteq Range(host.lines) \cup worker[w].list
            ELSE Gate(host) /\ Promised \subseteq Range(host.lines)
        BY <3>1 DEF Rebuilt
      <3>4. CASE SameFile
        <4>1. Gate(host') = Gate(host) /\ host'.lines = host.lines
          BY <3>4, SameGate DEF SameFile
        <4> QED
          BY <2>3, <3>2, <3>3, <4>1
      <3>5. ASSUME NEW v \in Workers, PublishLine(v)
            PROVE  IF worker'[w].skip THEN Promised' \subseteq Range(host'.lines) \cup worker'[w].list
                   ELSE Gate(host') /\ Promised' \subseteq Range(host'.lines)
        <4>1. PICK g \in Writing(v) : host' = Appended(g)
          BY <3>5, PublishLineIs
        <4>2. g \in Generations
          BY WritingIs, WorkerFields
        <4>3. Gate(host') /\ Range(host'.lines) = Range(host.lines) \cup {g}
          BY <4>1, <4>2, AppendedGate DEF Rebuilt
        <4> QED
          BY <2>3, <3>2, <3>3, <4>3
      <3>6. \A v \in Workers : ~AppendOwn(v) /\ ~Recover(v)
        BY <3>1, AppendOwnIs, RecoverIs
      <3>7. ~LoseFile /\ ~CutFile
        BY <3>1, LoseFileIs, CutFileIs
      <3> QED
        BY <1>2, <3>4, <3>5, <3>6, <3>7
    <2> QED
      BY <1>6, <2>1, <2>2, <2>3, PcSteps
  <1> QED
    BY <1>1, <1>2, <1>3, <1>5, <1>6 DEF Rebuilt

\* A file is lost or cut only where no process dies and no append fails: both
\* together are what run ledger_rebuild refutes.
NoLossWhileInterrupted ==
    \A b \in Budgets : \/ b["losses"] = 0 /\ b["cuts"] = 0
                       \/ b["crashes"] = 0 /\ b["failures"] = 0 /\ b["kills"] = 0

LEMMA InitRebuilt == Init /\ Calm => Rebuilt
  <1> SUFFICES ASSUME Init, Calm PROVE Rebuilt
    OBVIOUS
  <1>1. /\ host.lines = <<>> /\ host.synced = 0 /\ ~host.torn /\ ~host.ever
        /\ published = {} /\ server = "up"
    BY DEF Init
  <1>2. \A w \in Workers : worker[w].pc = "free"
    BY FreeIs DEF Init
  <1>3. Promised = {}
    BY <1>1, <1>2 DEF Promised, Marking
  <1>4. Len(host.lines) = 0
    BY <1>1
  <1> QED
    BY <1>1, <1>2, <1>3, <1>4 DEF Rebuilt, Described

\* Whenever no publication is under way and the file passes the gate, it holds,
\* flushed, every erasure the outbox has given up on.
THEOREM PublishedIsKeptHolds == NoLossWhileInterrupted => (Spec => []PublishedIsKept)
  <1> DEFINE Whole == TypeOK /\ Safe /\ (Flushed \/ Rebuilt)
  <1> SUFFICES ASSUME NoLossWhileInterrupted PROVE Spec => []PublishedIsKept
    OBVIOUS
  <1>1. Init => Whole
    <2>1. Init => budget \in Budgets
      BY DEF Init
    <2>2. Init => Kept \/ Calm
      BY <2>1 DEF NoLossWhileInterrupted, Kept, Calm
    <2> QED
      BY <2>2, InitTyped, InitSafe, InitFlushed, InitRebuilt
  <1>2. Whole /\ [Next]_vars => Whole'
    BY TypedStep, DatabasesStep, QueuedStep, LockedStep, ReconciledStep, FlushedStep, RebuiltStep DEF Safe
  <1>3. Whole => PublishedIsKept
    <2> SUFFICES ASSUME Whole, lock = Nobody, Gate(host) PROVE published \subseteq Durable
      BY DEF PublishedIsKept
    <2>1. CASE Flushed
      BY <2>1 DEF Flushed
    <2>2. CASE Rebuilt
      <3>1. published \subseteq Range(host.lines) /\ host.synced = Len(host.lines)
        BY <2>2 DEF Rebuilt, Promised, Described
      <3> QED
        BY <3>1, DurableLines
    <2> QED
      BY <2>1, <2>2
  <1> QED
    BY <1>1, <1>2, <1>3, PTL DEF Spec
=============================================================================
