------------------------- MODULE AcademicProfileProofs -------------------------
(* Theorems about AcademicProfile, for every value of its constants. *)
EXTENDS AcademicProfile, TLAPS

-----------------------------------------------------------------------------
(***************************************************************************)
(* Types.                                                                  *)
(***************************************************************************)
\* The words of the model are neither schools nor answers.
LEMMA WordsDiffer ==
    /\ Keep \notin School /\ Idle \notin School /\ Keep \notin Answer
    /\ Keep # None /\ Keep # Blank /\ None \in School /\ Blank \in Answer
BY ProfileAssumption DEF School, Answer, None, Blank, Keep, Idle

LEMMA UnansweredTyped == Unanswered \in [val : Answer, for : School, gen : 0..MaxGen]
BY ProfileAssumption DEF Unanswered, Answer, School

LEMMA NoRowTyped == NoRow \in RowType
BY UnansweredTyped, ProfileAssumption DEF NoRow, NoAnswers, RowType, School

LEMMA ProjectionTyped ==
    ASSUME NEW r \in RowType, NEW u \in School
    PROVE  Projection(r, u) \in ViewType
<1>1. Shown(r) \in [Fields -> Answer]
  BY DEF Shown, RowType
<1> QED BY <1>1 DEF Projection, RowType, ViewType

LEMMA NoViewTyped == NoView \in ViewType
BY ProjectionTyped, NoRowTyped, WordsDiffer DEF NoView

LEMMA NoPatchTyped == NoPatch \in PatchType
BY ProfileAssumption DEF NoPatch, PatchType, School

\* Stages of a page.
Stage == {"closed", "ready", "offer", "saving", "resaving"} \cup Reading

LEMMA PageTyped ==
    ASSUME NEW pc \in Stage, NEW view \in ViewType
    PROVE  Page(pc, view) \in PageType
<1>1. view.claim \in School /\ view.ans \in [Fields -> Answer]
  BY DEF ViewType
<1>2. [claim |-> view.claim, ans |-> view.ans] \in [claim : School, ans : [Fields -> Answer]]
  BY <1>1
<1> QED BY <1>2, NoPatchTyped DEF Page, PageType, Stage

\* A page that goes on keeps its type.
LEMMA StageTyped ==
    ASSUME NEW page \in PageType, NEW pc \in Stage
    PROVE  /\ [page EXCEPT !.pc = pc] \in PageType
           /\ [page EXCEPT !.pc = pc, !.patch = NoPatch] \in PageType
           /\ [page EXCEPT !.pc = pc, !.patch = NoPatch, !.seen = Idle] \in PageType
BY NoPatchTyped DEF PageType, Stage

LEMMA ReviewTyped ==
    ASSUME NEW page \in PageType, NEW view \in ViewType
    PROVE  Review(page, view) \in PageType
BY NoPatchTyped DEF PageType, Stage, Review

LEMMA SpendTyped == ASSUME TypeOK, NEW kind \in Kinds, Spend(kind) PROVE budget' \in [Kinds -> Nat]
BY DEF TypeOK, Spend

\* What a page receives it can show.
LEMMA ReceiveTyped ==
    ASSUME TypeOK, NEW t \in Tabs, NEW view \in ViewType, Receive(t, view)
    PROVE  tab' \in [Tabs -> PageType]
<1>1. tab[t] \in PageType
  BY DEF TypeOK
<1>2. /\ Page("ready", view) \in PageType /\ Review(tab[t], view) \in PageType
      /\ [tab[t] EXCEPT !.pc = "ready", !.patch = NoPatch, !.seen = Idle] \in PageType
  BY <1>1, PageTyped, ReviewTyped, StageTyped DEF Stage
<1>3. PICK page \in PageType : tab' = [tab EXCEPT ![t] = page]
  BY <1>2 DEF Receive
<1> QED BY <1>3 DEF TypeOK

\* A cleared profile.
LEMMA InvalidatedTyped ==
    ASSUME TypeOK
    PROVE  /\ Invalidated(row) \in RowType
           /\ Invalidated(row).gen = row.gen /\ Invalidated(row).rev = row.rev + 1
           /\ Invalidated(row).inst = university /\ Invalidated(row).ans = NoAnswers
<1>1. row.gen \in 0..MaxGen /\ row.rev + 1 \in Nat /\ university \in School
  BY DEF TypeOK, RowType
<1>2. NoRow \in RowType
  BY NoRowTyped
<1>3. Invalidated(row) \in RowType
  BY <1>1, <1>2 DEF Invalidated, RowType
<1>4. /\ Invalidated(row).gen = row.gen /\ Invalidated(row).rev = row.rev + 1
      /\ Invalidated(row).inst = university
  BY <1>1, <1>2 DEF Invalidated, RowType
<1>5. Invalidated(row).ans = NoRow.ans
  BY <1>1, <1>2 DEF Invalidated, RowType
<1> QED BY <1>3, <1>4, <1>5 DEF NoRow

LEMMA GivenTyped ==
    ASSUME NEW p \in PatchType, NEW f \in Fields, p.ans[f] # Keep, p.for \in School
    PROVE  Given(p, f) \in [val : Answer, for : School, gen : 0..MaxGen]
<1>1. p.ans[f] \in Answer /\ p.gen \in 0..MaxGen
  BY DEF PatchType
<1> QED BY <1>1, UnansweredTyped DEF Given

LEMMA MergedTyped ==
    ASSUME TypeOK, NEW p \in PatchType, made + 1 <= MaxGen \/ row.gen # 0
    PROVE  Merged(p) \in RowType
<1>1. \A f \in Fields : (IF p.ans[f] = Keep THEN row.ans[f] ELSE Given(p, f))
                           \in [val : Answer, for : School, gen : 0..MaxGen]
  BY GivenTyped DEF TypeOK, RowType, PatchType
<1>2. (IF row.gen = 0 THEN made + 1 ELSE row.gen) \in 0..MaxGen
  BY ProfileAssumption DEF TypeOK, RowType
<1>3. (IF p.claim = Keep THEN row.claim ELSE p.claim) \in School
  BY DEF TypeOK, RowType, PatchType
<1>4. row.rev + 1 \in Nat /\ university \in School
  BY DEF TypeOK, RowType
<1> QED BY <1>1, <1>2, <1>3, <1>4 DEF Merged, RowType

-----------------------------------------------------------------------------
(***************************************************************************)
(* What a save may do.                                                     *)
(***************************************************************************)
Counted == row.gen <= made

\* What the server has checked of a save it accepts.
Accepted(p) ==
    /\ IF row.gen = 0 THEN p.inst = university ELSE row.inst = university
    /\ university # None => p.claim = Keep
    /\ university = None => p.claim \in {Keep, row.claim} \/ Carried(p) = {}

LEMMA SaveSteps ==
    ASSUME TypeOK, Counted, NEW p \in PatchType, Save(p)
    PROVE  \/ Outcome(p) \notin {"saved", "drift"} /\ row' = row /\ made' = made
           \/ /\ Outcome(p) = "drift" /\ p.rev = row.rev /\ row.gen # 0 /\ row.inst # university
              /\ row' = Invalidated(row) /\ made' = made
           \/ /\ Outcome(p) = "saved" /\ p.rev = row.rev /\ Accepted(p)
              /\ row' = Merged(p) /\ made' = IF row.gen = 0 THEN made + 1 ELSE made
<1>0. row.gen \in Nat /\ made \in Nat /\ row.gen <= made
  BY ProfileAssumption DEF TypeOK, RowType, Counted
<1>1. CASE Outcome(p) \notin {"saved", "drift"}
  <2>1. row' = row
    BY <1>1 DEF Save
  <2>2. made' = made
    BY <1>0, <2>1 DEF Save
  <2> QED BY <1>1, <2>1, <2>2
<1>2. CASE Outcome(p) = "drift"
  <2>1. p.rev = row.rev /\ row.gen # 0 /\ row.inst # university
    BY <1>2 DEF Outcome, Verdict
  <2>2. row' = Invalidated(row)
    BY <1>2 DEF Save
  <2>3. row'.gen = row.gen
    BY <2>2, InvalidatedTyped
  <2>4. made' = made
    BY <1>0, <2>3 DEF Save
  <2> QED BY <1>2, <2>1, <2>2, <2>4
<1>3. CASE Outcome(p) = "saved"
  <2>1. p.rev = row.rev /\ Verdict(p) = "saved"
    BY <1>3 DEF Outcome
  <2>2. Accepted(p)
    BY <2>1 DEF Verdict, ClaimChanges, Accepted
  <2>3. row' = Merged(p)
    BY <1>3 DEF Save
  <2>4. row'.gen = IF row.gen = 0 THEN made + 1 ELSE row.gen
    BY <2>3 DEF Merged
  <2>5. made \in Nat /\ made' = IF row'.gen > made THEN row'.gen ELSE made
    BY DEF Save, TypeOK
  <2>6. made' = IF row.gen = 0 THEN made + 1 ELSE made
    BY <1>0, <2>4, <2>5
  <2> QED BY <1>3, <2>1, <2>2, <2>3, <2>6
<1> QED BY <1>1, <1>2, <1>3

LEMMA SaveTyped ==
    ASSUME TypeOK, Counted, NEW p \in PatchType, Save(p)
    PROVE  row' \in RowType /\ made' \in 0..MaxGen
<1>1. row' \in RowType
  <2>1. made + 1 <= MaxGen \/ row.gen # 0
    BY DEF Save
  <2> QED BY <2>1, SaveSteps, InvalidatedTyped, MergedTyped DEF TypeOK
<1>2. made' \in 0..MaxGen
  BY SaveSteps, ProfileAssumption DEF Save, TypeOK
<1> QED BY <1>1, <1>2

LEMMA PatchTyped ==
    ASSUME NEW t \in Tabs, NEW view \in ViewType, NEW dirty,
           NEW draft \in [claim : School, ans : [Fields -> Answer]]
    PROVE  Patch(view, draft, dirty) \in PatchType
<1>1. view.gen \in 0..MaxGen /\ view.rev \in Nat /\ view.inst \in School
  BY DEF ViewType
<1>2. draft.claim \in School /\ \A f \in Fields : draft.ans[f] \in Answer
  OBVIOUS
<1> QED BY <1>1, <1>2 DEF Patch, PatchType

LEMMA ReconfirmTyped ==
    ASSUME NEW patch \in PatchType, NEW view \in ViewType
    PROVE  [patch EXCEPT !.ans = [f \in Fields |-> IF @[f] = Keep /\ view.ans[f] # Blank
                                                   THEN view.ans[f] ELSE @[f]]] \in PatchType
<1>1. \A f \in Fields : view.ans[f] \in Answer /\ patch.ans[f] \in Answer \cup {Keep}
  BY DEF ViewType, PatchType
<1> DEFINE ans == [f \in Fields |-> IF patch.ans[f] = Keep /\ view.ans[f] # Blank
                                     THEN view.ans[f] ELSE patch.ans[f]]
<1>2. ans \in [Fields -> Answer \cup {Keep}]
  BY <1>1
<1>3. [patch EXCEPT !.ans = ans] \in PatchType
  <2> HIDE DEF ans
  <2> QED BY <1>2 DEF PatchType
<1> QED BY <1>3

\* Steps of the server alone, or of a page that reads.
LEMMA ReadsTyped ==
    ASSUME TypeOK, Counted, NEW t \in Tabs,
           Open(t) \/ Reload(t) \/ Read(t) \/ SelectOutdated(t) \/ Invalidate(t) \/ ReadFails(t)
    PROVE  TypeOK' /\ Counted'
<1>0. tab[t] \in PageType
  BY DEF TypeOK
<1>1. CASE Open(t)
  <2>1. Page("loading", NoView) \in PageType
    BY PageTyped, NoViewTyped DEF Stage, Reading
  <2> QED BY <1>1, <2>1 DEF Open, TypeOK, Counted
<1>2. CASE Reload(t)
  <2>1. [tab[t] EXCEPT !.pc = "reload"] \in PageType
    BY <1>0, StageTyped DEF Stage, Reading
  <2> QED BY <1>2, <2>1 DEF Reload, TypeOK, Counted
<1>3. CASE Read(t)
  <2>1. Projection(row, university) \in ViewType
    BY ProjectionTyped DEF TypeOK
  <2>2. tab' \in [Tabs -> PageType]
    BY <1>3, <2>1, ReceiveTyped DEF Read
  <2> QED BY <1>3, <2>2 DEF Read, TypeOK, Counted
<1>4. CASE SelectOutdated(t)
  <2>1. [tab[t] EXCEPT !.seen = row.inst] \in PageType
    BY <1>0 DEF TypeOK, RowType, PageType
  <2> QED BY <1>4, <2>1 DEF SelectOutdated, TypeOK, Counted
<1>5. CASE Invalidate(t)
  <2>1. row' \in RowType /\ row'.gen = row.gen
    BY <1>5, InvalidatedTyped DEF Invalidate, Cleared, TypeOK
  <2>2. university \in School
    BY DEF TypeOK
  <2>3. Projection(row', university) \in ViewType
    BY <2>1, <2>2, ProjectionTyped
  <2>4. tab' \in [Tabs -> PageType]
    BY <1>5, <2>3, ReceiveTyped DEF Invalidate
  <2> QED BY <1>5, <2>1, <2>4 DEF Invalidate, TypeOK, Counted
<1>6. CASE ReadFails(t)
  <2>1. /\ Page("closed", NoView) \in PageType
        /\ [tab[t] EXCEPT !.pc = "ready", !.patch = NoPatch, !.seen = Idle] \in PageType
    BY <1>0, PageTyped, NoViewTyped, StageTyped DEF Stage
  <2>2. tab' \in [Tabs -> PageType]
    BY <1>6, <2>1 DEF ReadFails, TypeOK
  <2>3. budget' \in [Kinds -> Nat]
    BY <1>6, SpendTyped DEF ReadFails, Kinds
  <2> QED BY <1>6, <2>2, <2>3 DEF ReadFails, TypeOK, Counted
<1> QED BY <1>1, <1>2, <1>3, <1>4, <1>5, <1>6

\* Steps of a page that edits and saves.
LEMMA SavesTyped ==
    ASSUME TypeOK, Counted, NEW t \in Tabs,
           Submit(t) \/ Reconfirm(t) \/ Answered(t) \/ AnswerLost(t) \/ ConnectionLost(t)
    PROVE  TypeOK' /\ Counted'
<1>0. /\ tab[t] \in PageType /\ tab[t].patch \in PatchType /\ tab[t].view \in ViewType
      /\ tab[t].draft \in [claim : School, ans : [Fields -> Answer]]
      /\ tab[t].dirty \subseteq Items
  BY DEF TypeOK, PageType
<1>1. ASSUME Save(tab[t].patch) PROVE row' \in RowType /\ made' \in 0..MaxGen /\ row'.gen <= made'
  <2>1. row' \in RowType /\ made' \in 0..MaxGen
    BY <1>0, <1>1, SaveTyped
  <2>2. made' = IF row'.gen > made THEN row'.gen ELSE made
    BY <1>1 DEF Save
  <2>3. row'.gen \in Nat /\ made \in Nat
    BY <2>1, ProfileAssumption DEF RowType, TypeOK
  <2> QED BY <2>1, <2>2, <2>3
<1>2. CASE Submit(t)
  <2>1. PICK draft \in [claim : School, ans : [Fields -> Answer]],
             dirty \in SUBSET Items :
           tab' = [tab EXCEPT ![t] = [tab[t] EXCEPT !.pc = "saving", !.draft = draft, !.dirty = dirty,
                                                    !.patch = Patch(tab[t].view, draft, dirty)]]
    <3>1. PICK draft \in [claim : School, ans : [Fields -> Answer]] :
             LET dirty == tab[t].dirty \cup Touched(tab[t].draft, draft) IN
             tab' = [tab EXCEPT ![t].pc = "saving", ![t].draft = draft, ![t].dirty = dirty,
                                ![t].patch = Patch(tab[t].view, draft, dirty)]
      BY <1>2 DEF Submit
    <3>2. tab[t].dirty \cup Touched(tab[t].draft, draft) \subseteq Items
      BY <1>0 DEF Touched, Items
    <3> QED BY <3>1, <3>2 DEF TypeOK
  <2>2. Patch(tab[t].view, draft, dirty) \in PatchType
    BY <1>0, PatchTyped
  <2>3. [tab[t] EXCEPT !.pc = "saving", !.draft = draft, !.dirty = dirty,
                       !.patch = Patch(tab[t].view, draft, dirty)] \in PageType
    BY <1>0, <2>2 DEF PageType
  <2>4. tab' \in [Tabs -> PageType]
    BY <2>1, <2>3 DEF TypeOK
  <2>5. budget' \in [Kinds -> Nat]
    BY <1>2, SpendTyped DEF Submit, Kinds
  <2> QED BY <1>2, <2>4, <2>5 DEF Submit, TypeOK, Counted
<1>3. CASE Reconfirm(t)
  <2> DEFINE p == Patch(tab[t].view, tab[t].draft, tab[t].dirty)
             q == [p EXCEPT !.ans = [f \in Fields |-> IF @[f] = Keep /\ tab[t].view.ans[f] # Blank
                                                      THEN tab[t].view.ans[f] ELSE @[f]]]
  <2>1. p \in PatchType
    BY <1>0, PatchTyped
  <2>2. q \in PatchType
    <3> HIDE DEF p
    <3> QED BY <1>0, <2>1, ReconfirmTyped
  <2>3. tab' = [tab EXCEPT ![t] = [tab[t] EXCEPT !.pc = "resaving", !.patch = q]]
    BY <1>3 DEF Reconfirm, TypeOK
  <2>4. [tab[t] EXCEPT !.pc = "resaving", !.patch = q] \in PageType
    <3> HIDE DEF q
    <3> QED BY <1>0, <2>2 DEF PageType
  <2>5. tab' \in [Tabs -> PageType]
    BY <2>3, <2>4 DEF TypeOK
  <2> QED BY <1>3, <2>5 DEF Reconfirm, TypeOK, Counted
<1>4. CASE Answered(t)
  <2>1. row' \in RowType /\ made' \in 0..MaxGen /\ row'.gen <= made'
    BY <1>1, <1>4 DEF Answered
  <2>2. Page("ready", Projection(row', university)) \in PageType
    BY <2>1, ProjectionTyped, PageTyped DEF TypeOK, Stage
  <2>3. /\ [tab[t] EXCEPT !.pc = "review"] \in PageType
        /\ [tab[t] EXCEPT !.pc = "offer", !.patch = NoPatch] \in PageType
        /\ [tab[t] EXCEPT !.pc = "ready", !.patch = NoPatch] \in PageType
    BY <1>0, StageTyped DEF Stage, Reading
  <2>4. PICK page \in PageType : tab' = [tab EXCEPT ![t] = page]
    BY <1>4, <2>2, <2>3 DEF Answered
  <2> QED BY <1>4, <2>1, <2>4 DEF Answered, TypeOK, Counted
<1>5. CASE AnswerLost(t) \/ ConnectionLost(t)
  <2>1. [tab[t] EXCEPT !.pc = "verify"] \in PageType
    BY <1>0, StageTyped DEF Stage, Reading
  <2>2. tab' \in [Tabs -> PageType]
    BY <1>5, <2>1 DEF AnswerLost, ConnectionLost, TypeOK
  <2>3. budget' \in [Kinds -> Nat]
    BY <1>5, SpendTyped DEF AnswerLost, ConnectionLost, Kinds
  <2>4. row' \in RowType /\ made' \in 0..MaxGen /\ row'.gen <= made'
    BY <1>1, <1>5 DEF AnswerLost, ConnectionLost, TypeOK, Counted
  <2>5. stray' \subseteq PatchType
    BY <1>0, <1>5 DEF AnswerLost, ConnectionLost, TypeOK
  <2> QED BY <1>5, <2>2, <2>3, <2>4, <2>5 DEF AnswerLost, ConnectionLost, TypeOK, Counted
<1> QED BY <1>2, <1>3, <1>4, <1>5

LEMMA OthersTyped ==
    ASSUME TypeOK, Counted,
           LateSave \/ (\E t \in Tabs : EraseProfile(t)) \/ \E s \in Schools : SelectInstitution(s)
    PROVE  TypeOK' /\ Counted'
<1>1. CASE LateSave
  <2>1. PICK p \in stray : Save(p) /\ stray' = stray \ {p}
    BY <1>1 DEF LateSave
  <2>2. p \in PatchType
    BY <2>1 DEF TypeOK
  <2>3. row' \in RowType /\ made' \in 0..MaxGen
    BY <2>1, <2>2, SaveTyped
  <2>4. row'.gen <= made'
    <3>1. row'.gen \in Nat /\ made \in Nat
      BY <2>3, ProfileAssumption DEF RowType, TypeOK
    <3> QED BY <2>1, <3>1 DEF Save
  <2> QED BY <1>1, <2>1, <2>3, <2>4 DEF LateSave, TypeOK, Counted
<1>2. ASSUME NEW t \in Tabs, EraseProfile(t) PROVE TypeOK' /\ Counted'
  <2>1. Page("loading", NoView) \in PageType
    BY PageTyped, NoViewTyped DEF Stage, Reading
  <2>2. tab' \in [Tabs -> PageType]
    BY <1>2, <2>1 DEF EraseProfile, TypeOK
  <2>3. budget' \in [Kinds -> Nat]
    BY <1>2, SpendTyped DEF EraseProfile, Kinds
  <2>4. row' \in RowType /\ row'.gen = 0
    BY <1>2, NoRowTyped DEF EraseProfile, NoRow
  <2> QED BY <1>2, <2>2, <2>3, <2>4 DEF EraseProfile, TypeOK, Counted
<1>3. ASSUME NEW s \in Schools, SelectInstitution(s) PROVE TypeOK' /\ Counted'
  <2>1. budget' \in [Kinds -> Nat]
    BY <1>3, SpendTyped DEF SelectInstitution, Kinds
  <2> QED BY <1>3, <2>1 DEF SelectInstitution, TypeOK, Counted, School
<1> QED BY <1>1, <1>2, <1>3

\* Every variable keeps its type, and the stored profile is one of the
\* generations ever created.
THEOREM Typed == Spec => [](TypeOK /\ Counted)
<1>1. Init => TypeOK /\ Counted
  <2> SUFFICES ASSUME Init PROVE TypeOK /\ Counted
    OBVIOUS
  <2>1. Page("closed", NoView) \in PageType
    BY PageTyped, NoViewTyped DEF Stage
  <2>2. row \in RowType /\ row.gen = 0
    BY NoRowTyped DEF Init, NoRow
  <2> QED BY <2>1, <2>2, ProfileAssumption DEF Init, TypeOK, Counted
<1>2. TypeOK /\ Counted /\ [Next]_vars => TypeOK' /\ Counted'
  <2> SUFFICES ASSUME TypeOK, Counted, [Next]_vars PROVE TypeOK' /\ Counted'
    OBVIOUS
  <2>1. CASE UNCHANGED vars
    BY <2>1 DEF vars, TypeOK, Counted
  <2> QED BY <2>1, ReadsTyped, SavesTyped, OthersTyped DEF Next
<1> QED BY <1>1, <1>2, PTL DEF Spec

-----------------------------------------------------------------------------
(***************************************************************************)
(* What the pages know of the stored profile.  Every change of it counts   *)
(* its revision or its generation on, so a page, or a save under way, that *)
(* names the current ones shows what is stored.                            *)
(***************************************************************************)
\* r is stored, m generations were made.
Stored(r, m) ==
    /\ r.gen = 0 => r = NoRow
    /\ r.gen # 0 => r.rev >= 1
    /\ r.gen <= m

\* From r to r2: nothing, an erasure, a new revision, or a new profile.
Move(r, r2, m, m2) ==
    \/ r2 = r /\ m2 = m
    \/ r2 = NoRow /\ m2 = m
    \/ r.gen # 0 /\ r2.gen = r.gen /\ r2.rev = r.rev + 1 /\ m2 = m
    \/ r.gen = 0 /\ r2.gen = m + 1 /\ r2.rev = 1 /\ m2 = m + 1

ViewFits(v, r, m) ==
    /\ v.gen <= m /\ (v.gen = 0 <=> v.rev = 0)
    /\ v.gen = 0 => v.claim = None /\ v.ans = Shown(NoRow)
    /\ v.gen = r.gen => v.rev <= r.rev
    /\ v.gen # 0 /\ v.gen = r.gen /\ v.rev = r.rev => v = Projection(r, r.inst)

\* The school a save is for is the one its page showed: the bound one, the
\* claim it sends, or the claim that was there.
PatchFits(p, r, m) ==
    /\ p.gen <= m /\ (p.gen = 0 <=> p.rev = 0)
    /\ p.inst # None => p.for = p.inst
    /\ p.inst = None /\ p.claim # Keep => p.for = p.claim
    /\ p.inst = None /\ p.claim = Keep /\ p.gen = 0 => p.for = None
    /\ p.gen = r.gen => p.rev <= r.rev
    /\ p.gen # 0 /\ p.gen = r.gen /\ p.rev = r.rev =>
          p.inst = r.inst /\ (p.inst = None /\ p.claim = Keep => p.for = r.claim)

\* What is not touched is as loaded, and a save sends what was touched.
DraftFits(page) ==
    /\ \A f \in Fields : f \notin page.dirty => page.draft.ans[f] = page.view.ans[f]
    /\ "claim" \notin page.dirty => page.draft.claim = page.view.claim
    /\ page.pc \in {"offer", "saving", "resaving", "verify"} => page.dirty # {}
    /\ page.pc \in {"saving", "resaving"} =>
          /\ page.patch.gen = page.view.gen /\ page.patch.rev = page.view.rev
          /\ page.patch.inst = page.view.inst
          /\ page.patch.claim = IF "claim" \in page.dirty /\ page.view.inst = None
                                THEN page.draft.claim ELSE Keep
          /\ \A f \in Fields : f \in page.dirty => page.patch.ans[f] = page.draft.ans[f]
          /\ \A f \in Fields : page.patch.ans[f] \in {Keep, page.draft.ans[f]}

\* A reader that found the profile outdated still sees it, or cleared.
SeenFits(seen, r, u) == seen # Idle => r.gen # 0 /\ seen # u /\ r.inst \in {seen, u}

PageFits(page, r, m, u) ==
    /\ ViewFits(page.view, r, m) /\ PatchFits(page.patch, r, m)
    /\ DraftFits(page) /\ SeenFits(page.seen, r, u)

Fits ==
    /\ Stored(row, made)
    /\ \A t \in Tabs : PageFits(tab[t], row, made, university)
    /\ \A p \in stray : PatchFits(p, row, made)

LEMMA StoredKept ==
    ASSUME NEW r \in RowType, NEW r2 \in RowType, NEW m \in Nat, NEW m2 \in Nat,
           Stored(r, m), Move(r, r2, m, m2)
    PROVE  Stored(r2, m2)
<1>1. r.gen \in Nat /\ r.rev \in Nat /\ NoRow.gen = 0
  BY ProfileAssumption DEF RowType, NoRow
<1> QED BY <1>1 DEF Stored, Move

LEMMA ViewKept ==
    ASSUME NEW r \in RowType, NEW r2 \in RowType, NEW m \in Nat, NEW m2 \in Nat,
           Stored(r, m), Move(r, r2, m, m2), NEW v \in ViewType, ViewFits(v, r, m)
    PROVE  ViewFits(v, r2, m2)
<1>1. r.gen \in Nat /\ r.rev \in Nat /\ v.gen \in Nat /\ v.rev \in Nat /\ NoRow.gen = 0 /\ NoRow.rev = 0
  BY ProfileAssumption DEF RowType, ViewType, NoRow
<1> QED BY <1>1 DEF Stored, Move, ViewFits

LEMMA PatchKept ==
    ASSUME NEW r \in RowType, NEW r2 \in RowType, NEW m \in Nat, NEW m2 \in Nat,
           Stored(r, m), Move(r, r2, m, m2), NEW p \in PatchType, PatchFits(p, r, m)
    PROVE  PatchFits(p, r2, m2)
<1>1. r.gen \in Nat /\ r.rev \in Nat /\ p.gen \in Nat /\ p.rev \in Nat /\ NoRow.gen = 0 /\ NoRow.rev = 0
  BY ProfileAssumption DEF RowType, PatchType, NoRow
<1> QED BY <1>1 DEF Stored, Move, PatchFits

LEMMA NoViewFits == ASSUME NEW r \in RowType, NEW m \in Nat PROVE ViewFits(NoView, r, m)
BY ProfileAssumption DEF NoView, Projection, NoRow, RowType, ViewFits

LEMMA NoPatchFits == ASSUME NEW r \in RowType, NEW m \in Nat PROVE PatchFits(NoPatch, r, m)
BY ProfileAssumption DEF NoPatch, RowType, PatchFits

\* A projection shows what is stored.
LEMMA ProjectionFits ==
    ASSUME NEW r \in RowType, NEW m \in Nat, NEW u, Stored(r, m), r.gen = 0 \/ r.inst = u
    PROVE  ViewFits(Projection(r, u), r, m)
<1>1. r.gen \in Nat /\ r.rev \in Nat /\ NoRow.rev = 0 /\ NoRow.claim = None
  BY ProfileAssumption DEF RowType, NoRow
<1> QED BY <1>1 DEF Stored, Projection, ViewFits

LEMMA FreshPage ==
    ASSUME NEW r \in RowType, NEW m \in Nat, NEW u, NEW v, ViewFits(v, r, m),
           NEW pc \in {"closed", "loading", "ready"}
    PROVE  PageFits(Page(pc, v), r, m, u)
<1>1. DraftFits(Page(pc, v))
  BY DEF Page, DraftFits
<1> QED BY <1>1, NoPatchFits DEF Page, PageFits, SeenFits

\* A page that gives up its save, and one that shows its draft for review.
LEMMA PageResumes ==
    ASSUME NEW r \in RowType, NEW m \in Nat, NEW u, NEW page \in PageType,
           ViewFits(page.view, r, m), DraftFits(page)
    PROVE  /\ PageFits([page EXCEPT !.pc = "ready", !.patch = NoPatch, !.seen = Idle], r, m, u)
           /\ \A v \in ViewType : ViewFits(v, r, m) => PageFits(Review(page, v), r, m, u)
<1>1. PageFits([page EXCEPT !.pc = "ready", !.patch = NoPatch, !.seen = Idle], r, m, u)
  BY NoPatchFits DEF PageType, PageFits, DraftFits, SeenFits
<1>2. ASSUME NEW v \in ViewType, ViewFits(v, r, m) PROVE PageFits(Review(page, v), r, m, u)
  <2>1. DraftFits(Review(page, v))
    BY DEF PageType, Review, DraftFits, Items
  <2> QED BY <1>2, <2>1, NoPatchFits DEF PageType, PageFits, Review, SeenFits
<1> QED BY <1>1, <1>2

\* Only the pages in T move, and what else there is still fits.
LEMMA PagesMove ==
    ASSUME TypeOK, TypeOK', Fits, Move(row, row', made, made'),
           NEW T, \A t \in Tabs \ T : tab'[t] = tab[t],
           \A t \in Tabs \cap T : PageFits(tab'[t], row', made', university'),
           stray' \subseteq stray \cup {tab[t].patch : t \in Tabs},
           \/ \A t \in Tabs : tab[t].seen = Idle
           \/ university' = university /\ row' = row
           \/ university' = university /\ row'.gen = row.gen /\ row'.inst = university
    PROVE  Fits'
<1>0. row \in RowType /\ row' \in RowType /\ made \in Nat /\ made' \in Nat
  BY ProfileAssumption DEF TypeOK
<1>1. Stored(row', made')
  BY <1>0, StoredKept DEF Fits
<1>2. ASSUME NEW t \in Tabs \ T PROVE PageFits(tab'[t], row', made', university')
  <2>1. tab[t] \in PageType /\ tab[t].view \in ViewType /\ tab[t].patch \in PatchType
    BY DEF TypeOK, PageType
  <2>2. PageFits(tab[t], row, made, university)
    BY DEF Fits
  <2>3. ViewFits(tab[t].view, row', made') /\ PatchFits(tab[t].patch, row', made')
    BY <1>0, <2>1, <2>2, ViewKept, PatchKept DEF Fits, PageFits
  <2>4. SeenFits(tab[t].seen, row', university')
    BY <2>2 DEF PageFits, SeenFits
  <2> QED BY <1>2, <2>2, <2>3, <2>4 DEF PageFits
<1>3. ASSUME NEW p \in stray' PROVE PatchFits(p, row', made')
  <2>1. p \in PatchType /\ PatchFits(p, row, made)
    BY DEF Fits, PageFits, TypeOK, PageType
  <2> QED BY <1>0, <2>1, PatchKept DEF Fits
<1>4. \A t \in Tabs : PageFits(tab'[t], row', made', university')
  BY <1>2
<1> QED BY <1>1, <1>3, <1>4 DEF Fits

-----------------------------------------------------------------------------
(***************************************************************************)
(* Saves.                                                                  *)
(***************************************************************************)
LEMMA ClearingMoves ==
    ASSUME TypeOK, row.gen # 0, row' = Invalidated(row), made' = made
    PROVE  Move(row, row', made, made') /\ row'.gen = row.gen /\ row'.inst = university
BY InvalidatedTyped DEF Move

LEMMA SaveMoves ==
    ASSUME TypeOK, Counted, Stored(row, made), NEW p \in PatchType, Save(p)
    PROVE  /\ Move(row, row', made, made')
           /\ Outcome(p) = "saved" => row'.inst = university
<1>1. CASE Outcome(p) = "saved"
  <2>1. row' = Merged(p) /\ made' = IF row.gen = 0 THEN made + 1 ELSE made
    BY <1>1, SaveSteps
  <2>2. /\ row'.gen = IF row.gen = 0 THEN made + 1 ELSE row.gen
        /\ row'.rev = row.rev + 1 /\ row'.inst = university
    BY <2>1 DEF Merged
  <2>3. row.gen = 0 => row.rev = 0
    BY DEF Stored, NoRow
  <2> QED BY <2>1, <2>2, <2>3 DEF Move
<1>2. CASE Outcome(p) # "saved"
  BY <1>2, SaveSteps, ClearingMoves DEF Move
<1> QED BY <1>1, <1>2

\* A save that is accepted is for the school that the profile is then about.
LEMMA SaveFitsSchool ==
    ASSUME TypeOK, Stored(row, made), NEW p \in PatchType, PatchFits(p, row, made),
           p.rev = row.rev, Accepted(p), row' = Merged(p), p.gen \in {0, row'.gen}
    PROVE  p.for = Effective(row')
<1>0. p.gen \in Nat /\ p.rev \in Nat /\ row.gen \in Nat /\ row.rev \in Nat
  BY ProfileAssumption DEF TypeOK, RowType, PatchType
<1>1. /\ row'.gen = IF row.gen = 0 THEN made + 1 ELSE row.gen
      /\ row'.inst = university
      /\ row'.claim = IF p.claim = Keep THEN row.claim ELSE p.claim
  BY DEF Merged
<1>2. CASE row.gen = 0
  <2>1. p.gen = 0 /\ p.inst = university /\ row.claim = None
    BY <1>0, <1>2 DEF Stored, NoRow, PatchFits, Accepted
  <2> QED BY <1>1, <2>1 DEF PatchFits, Effective
<1>3. CASE row.gen # 0
  <2>1. row.rev >= 1
    BY <1>3 DEF Stored
  <2>2. p.gen = row.gen
    BY <1>0, <1>1, <1>3, <2>1 DEF PatchFits
  <2>3. p.inst = row.inst /\ (p.inst = None /\ p.claim = Keep => p.for = row.claim)
    BY <1>3, <2>2 DEF PatchFits
  <2>4. row.inst = university
    BY <1>3 DEF Accepted
  <2> QED BY <1>1, <2>3, <2>4 DEF PatchFits, Effective
<1> QED BY <1>2, <1>3

LEMMA SaveAnswers ==
    ASSUME TypeOK, Counted, Stored(row, made), AnswersFitSchool, university' = university,
           NEW p \in PatchType, PatchFits(p, row, made), Save(p)
    PROVE  AnswersFitSchool'
<1>1. CASE row' = row
  BY <1>1 DEF AnswersFitSchool, Supplied, Effective
<1>2. CASE row' = Invalidated(row)
  <2>1. row'.ans = NoAnswers
    BY <1>2, InvalidatedTyped
  <2> QED BY <2>1 DEF AnswersFitSchool, Supplied, NoAnswers, Unanswered
<1>3. CASE p.rev = row.rev /\ Accepted(p) /\ row' = Merged(p)
  <2> SUFFICES ASSUME NEW f \in Fields, row'.ans[f].val # Blank, row'.ans[f].gen \in {0, row'.gen}
               PROVE  row'.ans[f].for = Effective(row')
    BY DEF AnswersFitSchool, Supplied
  <2>1. CASE p.ans[f] = Keep
    <3>1. row'.ans[f] = row.ans[f]
      BY <1>3, <2>1 DEF Merged
    <3>2. row.gen # 0
      BY <3>1 DEF Stored, NoRow, NoAnswers, Unanswered
    <3>3. row'.gen = row.gen /\ row.inst = university /\ row'.inst = university
      BY <1>3, <3>2 DEF Merged, Accepted
    <3>4. row.ans[f].for = Effective(row)
      BY <3>1, <3>3 DEF AnswersFitSchool, Supplied
    <3>5. CASE university # None
      BY <3>1, <3>3, <3>4, <3>5 DEF Effective
    <3>6. CASE university = None
      <4>1. f \in Carried(p)
        BY <2>1, <3>1 DEF Carried, Supplied
      <4>2. p.claim \in {Keep, row.claim}
        BY <1>3, <3>6, <4>1 DEF Accepted
      <4>3. row'.claim = row.claim
        BY <1>3, <4>2 DEF Merged
      <4> QED BY <3>1, <3>3, <3>4, <4>3 DEF Effective
    <3> QED BY <3>5, <3>6
  <2>2. CASE p.ans[f] # Keep
    <3>1. row'.ans[f] = Given(p, f)
      BY <1>3, <2>2 DEF Merged
    <3>2. row'.ans[f].for = p.for /\ row'.ans[f].gen = p.gen
      BY <3>1 DEF Given, Unanswered
    <3> QED BY <1>3, <3>2, SaveFitsSchool
  <2> QED BY <2>1, <2>2
<1> QED BY <1>1, <1>2, <1>3, SaveSteps

\* One page moves, and the server does not.
LEMMA OnePageMoves ==
    ASSUME TypeOK, TypeOK', Fits, NEW t \in Tabs,
           row' = row, made' = made, university' = university,
           PageFits(tab'[t], row, made, university), \A s \in Tabs \ {t} : tab'[s] = tab[s],
           stray' \subseteq stray \cup {tab[s].patch : s \in Tabs}
    PROVE  Fits'
<1>1. Move(row, row', made, made')
  BY DEF Move
<1>2. \A s \in Tabs \cap {t} : PageFits(tab'[s], row', made', university')
  OBVIOUS
<1>3. university' = university /\ row' = row
  OBVIOUS
<1> QED BY <1>1, <1>2, <1>3, PagesMove

-----------------------------------------------------------------------------
(***************************************************************************)
(* Every step keeps the pages in step with the server.                     *)
(***************************************************************************)
LEMMA ReceiveFits ==
    ASSUME TypeOK, NEW t \in Tabs, NEW v \in ViewType, NEW r \in RowType, NEW m \in Nat, NEW u,
           Receive(t, v), ViewFits(v, r, m), ViewFits(tab[t].view, r, m), DraftFits(tab[t])
    PROVE  PageFits(tab'[t], r, m, u) /\ \A s \in Tabs \ {t} : tab'[s] = tab[s]
<1>1. /\ PageFits(Page("ready", v), r, m, u) /\ PageFits(Review(tab[t], v), r, m, u)
      /\ PageFits([tab[t] EXCEPT !.pc = "ready", !.patch = NoPatch, !.seen = Idle], r, m, u)
  BY FreshPage, PageResumes DEF TypeOK
<1> QED BY <1>1 DEF Receive, TypeOK

LEMMA ReadsFit ==
    ASSUME TypeOK, TypeOK', Fits, NEW t \in Tabs,
           Open(t) \/ Reload(t) \/ Read(t) \/ SelectOutdated(t) \/ Invalidate(t) \/ ReadFails(t)
    PROVE  Fits'
<1>0. /\ tab[t] \in PageType /\ row \in RowType /\ made \in Nat /\ university \in School
      /\ PageFits(tab[t], row, made, university) /\ Stored(row, made)
  BY ProfileAssumption DEF TypeOK, Fits
<1> DEFINE Same == row' = row /\ made' = made /\ university' = university /\ stray' = stray
<1>1. ASSUME Same, PageFits(tab'[t], row, made, university), \A s \in Tabs \ {t} : tab'[s] = tab[s]
      PROVE  Fits'
  BY <1>1, OnePageMoves
<1>2. CASE Open(t)
  <2>1. PageFits(Page("loading", NoView), row, made, university)
    BY <1>0, FreshPage, NoViewFits
  <2> QED BY <1>1, <1>2, <2>1 DEF Open, TypeOK
<1>3. CASE Reload(t)
  <2>1. PageFits([tab[t] EXCEPT !.pc = "reload"], row, made, university)
    BY <1>0 DEF PageFits, PageType, DraftFits
  <2> QED BY <1>1, <1>3, <2>1 DEF Reload, TypeOK
<1>4. CASE Read(t)
  <2>1. Projection(row, university) \in ViewType
    BY <1>0, ProjectionTyped
  <2>2. ViewFits(Projection(row, university), row, made)
    BY <1>0, <1>4, ProjectionFits DEF Read
  <2> QED BY <1>0, <1>1, <1>4, <2>1, <2>2, ReceiveFits DEF Read, PageFits
<1>5. CASE SelectOutdated(t)
  <2>1. SeenFits(row.inst, row, university)
    BY <1>5 DEF SelectOutdated, SeenFits
  <2>2. PageFits([tab[t] EXCEPT !.seen = row.inst], row, made, university)
    BY <1>0, <2>1 DEF PageFits, PageType, DraftFits
  <2> QED BY <1>1, <1>5, <2>2 DEF SelectOutdated, TypeOK
<1>6. CASE Invalidate(t)
  <2>1. row.gen # 0 /\ tab[t].seen # university /\ row.inst \in {tab[t].seen, university}
    BY <1>0, <1>6 DEF Invalidate, PageFits, SeenFits
  <2>2. /\ Move(row, row', made, made') /\ row'.inst = university
        /\ row'.gen = row.gen
    BY <1>6, <2>1, ClearingMoves DEF Invalidate, Cleared, Move
  <2>3. row' \in RowType /\ made' \in Nat
    BY ProfileAssumption DEF TypeOK
  <2>4. Stored(row', made')
    BY <1>0, <2>2, <2>3, StoredKept
  <2>5. ViewFits(tab[t].view, row', made')
    BY <1>0, <2>2, <2>3, ViewKept DEF PageFits, PageType
  <2>6. Projection(row', university) \in ViewType /\ ViewFits(Projection(row', university), row', made')
    BY <1>0, <2>2, <2>3, <2>4, ProjectionTyped, ProjectionFits
  <2>7. Receive(t, Projection(row', university)) /\ university' = university /\ stray' = stray
    BY <1>6 DEF Invalidate
  <2>8. PageFits(tab'[t], row', made', university) /\ \A s \in Tabs \ {t} : tab'[s] = tab[s]
    BY <1>0, <2>3, <2>5, <2>6, <2>7, ReceiveFits DEF PageFits
  <2>9. \A s \in Tabs \cap {t} : PageFits(tab'[s], row', made', university')
    BY <2>7, <2>8
  <2> QED BY <2>2, <2>7, <2>8, <2>9, PagesMove
<1>7. CASE ReadFails(t)
  <2>1. /\ PageFits(Page("closed", NoView), row, made, university)
        /\ PageFits([tab[t] EXCEPT !.pc = "ready", !.patch = NoPatch, !.seen = Idle], row, made, university)
    BY <1>0, FreshPage, NoViewFits, PageResumes DEF PageFits
  <2> QED BY <1>1, <1>7, <2>1 DEF ReadFails, TypeOK
<1> QED BY <1>2, <1>3, <1>4, <1>5, <1>6, <1>7

\* A save built from a page that fits is for the school the page shows.
LEMMA PatchBuilt ==
    ASSUME NEW r \in RowType, NEW m \in Nat, NEW view \in ViewType, ViewFits(view, r, m),
           NEW draft \in [claim : School, ans : [Fields -> Answer]], NEW dirty,
           "claim" \notin dirty => draft.claim = view.claim
    PROVE  PatchFits(Patch(view, draft, dirty), r, m)
<1> DEFINE p == Patch(view, draft, dirty)
<1>1. /\ p.gen = view.gen /\ p.rev = view.rev /\ p.inst = view.inst
      /\ p.claim = IF "claim" \in dirty /\ view.inst = None THEN draft.claim ELSE Keep
      /\ p.for = IF view.inst = None THEN draft.claim ELSE view.inst
  BY DEF Patch
<1>2. draft.claim \in School /\ draft.claim # Keep
  BY WordsDiffer
<1>3. p.inst = None /\ p.claim = Keep => p.for = view.claim
  BY <1>1, <1>2
<1>4. /\ p.inst # None => p.for = p.inst
      /\ p.inst = None /\ p.claim # Keep => p.for = p.claim
  BY <1>1
<1>5. p.gen # 0 /\ p.gen = r.gen /\ p.rev = r.rev => view.inst = r.inst /\ view.claim = r.claim
  BY <1>1 DEF ViewFits, Projection
<1> HIDE DEF p
<1>6. PatchFits(p, r, m)
  BY <1>1, <1>3, <1>4, <1>5 DEF ViewFits, PatchFits
<1> QED BY <1>6 DEF p

LEMMA EditsFit ==
    ASSUME TypeOK, TypeOK', Fits, NEW t \in Tabs, Submit(t) \/ Reconfirm(t)
    PROVE  Fits'
<1> DEFINE view == tab[t].view
<1>0. /\ tab[t] \in PageType /\ row \in RowType /\ made \in Nat /\ view \in ViewType
      /\ PageFits(tab[t], row, made, university) /\ ViewFits(view, row, made) /\ DraftFits(tab[t])
      /\ tab[t].draft \in [claim : School, ans : [Fields -> Answer]]
  BY ProfileAssumption DEF TypeOK, Fits, PageFits, PageType
<1>1. ASSUME PageFits(tab'[t], row, made, university), \A s \in Tabs \ {t} : tab'[s] = tab[s],
             UNCHANGED <<university, row, made, stray>>
      PROVE  Fits'
  BY <1>1, OnePageMoves
<1>2. ASSUME Submit(t) PROVE Fits'
  <2>1. PICK draft \in [claim : School, ans : [Fields -> Answer]] :
           LET dirty == tab[t].dirty \cup Touched(tab[t].draft, draft) IN
           /\ dirty # {}
           /\ tab' = [tab EXCEPT ![t].pc = "saving", ![t].draft = draft, ![t].dirty = dirty,
                                 ![t].patch = Patch(tab[t].view, draft, dirty)]
    BY <1>2 DEF Submit
  <2> DEFINE dirty == tab[t].dirty \cup Touched(tab[t].draft, draft)
             patch == Patch(view, draft, dirty)
             page == [tab[t] EXCEPT !.pc = "saving", !.draft = draft, !.dirty = dirty, !.patch = patch]
  <2>2. dirty # {} /\ tab' = [tab EXCEPT ![t] = page]
    BY <2>1 DEF TypeOK
  <2>3. /\ "claim" \notin dirty => draft.claim = view.claim
        /\ \A f \in Fields : f \notin dirty => draft.ans[f] = view.ans[f]
    BY <1>0 DEF Touched, DraftFits
  <2>4. PatchFits(patch, row, made)
    BY <1>0, <2>3, PatchBuilt
  <2>5. /\ page.pc = "saving" /\ page.draft = draft /\ page.dirty = dirty /\ page.patch = patch
        /\ page.view = view /\ page.seen = tab[t].seen
    BY <1>0 DEF PageType
  <2>6. /\ patch.gen = view.gen /\ patch.rev = view.rev /\ patch.inst = view.inst
        /\ patch.claim = IF "claim" \in dirty /\ view.inst = None THEN draft.claim ELSE Keep
        /\ \A f \in Fields : patch.ans[f] = IF f \in dirty THEN draft.ans[f] ELSE Keep
    BY DEF Patch
  <2>7. DraftFits(page)
    <3> HIDE DEF page, dirty, patch
    <3> QED BY <2>2, <2>3, <2>5, <2>6 DEF DraftFits
  <2>8. PageFits(page, row, made, university)
    <3> HIDE DEF page, dirty, patch
    <3> QED BY <1>0, <2>4, <2>5, <2>7 DEF PageFits
  <2> QED BY <1>1, <1>2, <2>2, <2>8 DEF Submit, TypeOK
<1>3. ASSUME Reconfirm(t) PROVE Fits'
  <2> DEFINE p == Patch(view, tab[t].draft, tab[t].dirty)
             q == [p EXCEPT !.ans = [f \in Fields |-> IF @[f] = Keep /\ view.ans[f] # Blank
                                                      THEN view.ans[f] ELSE @[f]]]
             page == [tab[t] EXCEPT !.pc = "resaving", !.patch = q]
  <2>1. tab' = [tab EXCEPT ![t] = page] /\ tab[t].pc = "offer"
    BY <1>3 DEF Reconfirm, TypeOK
  <2>2. p \in PatchType /\ PatchFits(p, row, made)
    BY <1>0, PatchBuilt, PatchTyped DEF DraftFits
  <2>3. /\ p.gen = view.gen /\ p.rev = view.rev /\ p.inst = view.inst
        /\ p.claim = IF "claim" \in tab[t].dirty /\ view.inst = None THEN tab[t].draft.claim ELSE Keep
        /\ \A f \in Fields : p.ans[f] = IF f \in tab[t].dirty THEN tab[t].draft.ans[f] ELSE Keep
    BY DEF Patch
  <2>4. /\ q.gen = p.gen /\ q.rev = p.rev /\ q.inst = p.inst /\ q.claim = p.claim /\ q.for = p.for
        /\ \A f \in Fields : q.ans[f] = IF p.ans[f] = Keep /\ view.ans[f] # Blank
                                         THEN view.ans[f] ELSE p.ans[f]
    <3> HIDE DEF p
    <3> QED BY <2>2 DEF PatchType
  <2>5. /\ page.pc = "resaving" /\ page.draft = tab[t].draft /\ page.dirty = tab[t].dirty
        /\ page.patch = q /\ page.view = view /\ page.seen = tab[t].seen
    BY <1>0 DEF PageType
  <2>6. /\ \A f \in Fields : f \in tab[t].dirty => q.ans[f] = tab[t].draft.ans[f]
        /\ \A f \in Fields : q.ans[f] \in {Keep, tab[t].draft.ans[f]}
    <3> SUFFICES ASSUME NEW f \in Fields
                 PROVE  /\ f \in tab[t].dirty => q.ans[f] = tab[t].draft.ans[f]
                        /\ q.ans[f] \in {Keep, tab[t].draft.ans[f]}
      OBVIOUS
    <3>1. tab[t].draft.ans[f] \in Answer /\ tab[t].draft.ans[f] # Keep
      BY <1>0, WordsDiffer
    <3>2. f \notin tab[t].dirty => tab[t].draft.ans[f] = view.ans[f]
      BY <1>0 DEF DraftFits
    <3> HIDE DEF p, q
    <3> QED BY <2>3, <2>4, <3>1, <3>2
  <2>7. PatchFits(q, row, made)
    <3> HIDE DEF p, q
    <3> QED BY <2>2, <2>4 DEF PatchFits
  <2>8. DraftFits(page)
    <3> HIDE DEF page, p, q
    <3> QED BY <1>0, <2>1, <2>3, <2>4, <2>5, <2>6 DEF DraftFits
  <2>9. PageFits(page, row, made, university)
    <3> HIDE DEF page, p, q
    <3> QED BY <1>0, <2>5, <2>7, <2>8 DEF PageFits
  <2> QED BY <1>1, <1>3, <2>1, <2>9 DEF Reconfirm, TypeOK
<1> QED BY <1>2, <1>3

LEMMA SavesFit ==
    ASSUME TypeOK, TypeOK', Counted, Fits, NEW t \in Tabs,
           Answered(t) \/ AnswerLost(t) \/ ConnectionLost(t)
    PROVE  Fits'
<1>0. /\ tab[t] \in PageType /\ tab[t].view \in ViewType /\ tab[t].patch \in PatchType
      /\ row \in RowType /\ row' \in RowType /\ made \in Nat /\ made' \in Nat /\ university \in School
      /\ PageFits(tab[t], row, made, university) /\ Stored(row, made)
  BY ProfileAssumption DEF TypeOK, Fits, PageType
<1>1. ASSUME Move(row, row', made, made'), tab[t].seen = Idle
      PROVE  /\ ViewFits(tab[t].view, row', made') /\ PatchFits(tab[t].patch, row', made')
             /\ DraftFits(tab[t]) /\ SeenFits(tab[t].seen, row', university)
  BY <1>0, <1>1, ViewKept, PatchKept DEF PageFits, SeenFits
<1>2. CASE Answered(t)
  <2>1. /\ Move(row, row', made, made') /\ Stored(row', made')
        /\ Outcome(tab[t].patch) = "saved" => row'.inst = university
    BY <1>0, <1>2, SaveMoves, StoredKept DEF Answered
  <2>2. \A s \in Tabs : tab[s].seen = Idle
    BY <1>2 DEF Answered, Save, Unlocked
  <2>3. tab[t].pc \in {"saving", "resaving"} /\ university' = university /\ stray' = stray
    BY <1>2 DEF Answered
  <2>4. Outcome(tab[t].patch) = "saved" =>
           PageFits(Page("ready", Projection(row', university)), row', made', university)
    BY <1>0, <2>1, ProjectionFits, FreshPage
  <2>5. /\ PageFits([tab[t] EXCEPT !.pc = "review"], row', made', university)
        /\ PageFits([tab[t] EXCEPT !.pc = "offer", !.patch = NoPatch], row', made', university)
        /\ PageFits([tab[t] EXCEPT !.pc = "ready", !.patch = NoPatch], row', made', university)
    BY <1>0, <1>1, <2>1, <2>2, <2>3, NoPatchFits DEF PageFits, PageType, DraftFits
  <2>6. PageFits(tab'[t], row', made', university) /\ \A s \in Tabs \ {t} : tab'[s] = tab[s]
    BY <1>2, <2>4, <2>5 DEF Answered, TypeOK
  <2>7. \A s \in Tabs \cap {t} : PageFits(tab'[s], row', made', university')
    BY <2>3, <2>6
  <2> QED BY <2>1, <2>2, <2>3, <2>6, <2>7, PagesMove
<1>3. CASE AnswerLost(t)
  <2>1. Move(row, row', made, made')
    BY <1>0, <1>3, SaveMoves DEF AnswerLost
  <2>2. \A s \in Tabs : tab[s].seen = Idle
    BY <1>3 DEF AnswerLost, Save, Unlocked
  <2>3. PageFits([tab[t] EXCEPT !.pc = "verify"], row', made', university)
    BY <1>0, <1>1, <1>3, <2>1, <2>2 DEF AnswerLost, PageFits, PageType, DraftFits
  <2>4. /\ PageFits(tab'[t], row', made', university) /\ university' = university /\ stray' = stray
        /\ \A s \in Tabs \ {t} : tab'[s] = tab[s]
    BY <1>3, <2>3 DEF AnswerLost, TypeOK
  <2>5. \A s \in Tabs \cap {t} : PageFits(tab'[s], row', made', university')
    BY <2>4
  <2> QED BY <2>1, <2>2, <2>4, <2>5, PagesMove
<1>4. CASE ConnectionLost(t)
  <2>1. row' = row /\ made' = made /\ university' = university
    BY <1>4 DEF ConnectionLost
  <2>2. PageFits([tab[t] EXCEPT !.pc = "verify"], row, made, university)
    BY <1>0, <1>4 DEF ConnectionLost, PageFits, PageType, DraftFits
  <2>3. /\ PageFits(tab'[t], row, made, university)
        /\ \A s \in Tabs \ {t} : tab'[s] = tab[s]
        /\ stray' \subseteq stray \cup {tab[s].patch : s \in Tabs}
    BY <1>4, <2>2 DEF ConnectionLost, TypeOK
  <2> QED BY <2>1, <2>3, OnePageMoves
<1> QED BY <1>2, <1>3, <1>4

LEMMA OthersFit ==
    ASSUME TypeOK, TypeOK', Counted, Fits,
           LateSave \/ (\E t \in Tabs : EraseProfile(t)) \/ \E s \in Schools : SelectInstitution(s)
    PROVE  Fits'
<1>0. /\ row \in RowType /\ row' \in RowType /\ made \in Nat /\ made' \in Nat /\ Stored(row, made)
      /\ \A t \in Tabs : tab[t].seen = Idle
  BY ProfileAssumption DEF TypeOK, Fits, LateSave, Save, EraseProfile, SelectInstitution, Unlocked
<1>1. CASE LateSave
  <2>1. PICK p \in stray : Save(p) /\ stray' = stray \ {p}
    BY <1>1 DEF LateSave
  <2>2. Move(row, row', made, made')
    BY <1>0, <2>1, SaveMoves DEF TypeOK
  <2>3. \A t \in Tabs \ {} : tab'[t] = tab[t]
    BY <1>1 DEF LateSave
  <2>4. \A t \in Tabs \cap {} : PageFits(tab'[t], row', made', university')
    OBVIOUS
  <2> QED BY <1>0, <2>1, <2>2, <2>3, <2>4, PagesMove
<1>2. ASSUME NEW t \in Tabs, EraseProfile(t) PROVE Fits'
  <2>1. Move(row, row', made, made')
    BY <1>2 DEF EraseProfile, Move
  <2>2. CASE tab' = tab
    <3>1. /\ \A s \in Tabs \ {} : tab'[s] = tab[s]
          /\ \A s \in Tabs \cap {} : PageFits(tab'[s], row', made', university')
      BY <2>2
    <3>2. stray' = stray
      BY <1>2 DEF EraseProfile
    <3> QED BY <1>0, <2>1, <3>1, <3>2, PagesMove
  <2>3. CASE tab' = [tab EXCEPT ![t] = Page("loading", NoView)]
    <3>1. PageFits(Page("loading", NoView), row', made', university')
      BY <1>0, FreshPage, NoViewFits
    <3>2. /\ \A s \in Tabs \ {t} : tab'[s] = tab[s]
          /\ \A s \in Tabs \cap {t} : PageFits(tab'[s], row', made', university')
      BY <2>3, <3>1 DEF TypeOK
    <3>3. stray' = stray
      BY <1>2 DEF EraseProfile
    <3> QED BY <1>0, <2>1, <3>2, <3>3, PagesMove
  <2> QED BY <1>2, <2>2, <2>3 DEF EraseProfile
<1>3. ASSUME NEW s \in Schools, SelectInstitution(s) PROVE Fits'
  <2>1. Move(row, row', made, made')
    BY <1>3 DEF SelectInstitution, Move
  <2>2. /\ \A t \in Tabs \ {} : tab'[t] = tab[t]
        /\ \A t \in Tabs \cap {} : PageFits(tab'[t], row', made', university')
        /\ stray' = stray
    BY <1>3 DEF SelectInstitution
  <2> QED BY <1>0, <2>1, <2>2, PagesMove
<1> QED BY <1>1, <1>2, <1>3

LEMMA NextFits == ASSUME TypeOK, TypeOK', Counted, Fits, [Next]_vars PROVE Fits'
<1>1. CASE UNCHANGED vars
  BY <1>1 DEF vars, Fits
<1> QED BY <1>1, ReadsFit, EditsFit, SavesFit, OthersFit DEF Next

\* Pages and saves that name the stored revision show what is stored.
THEOREM FitsHold == Spec => []Fits
<1>1. Init => Fits
  <2> SUFFICES ASSUME Init PROVE Fits
    OBVIOUS
  <2>1. row \in RowType /\ made \in Nat /\ Stored(row, made)
    BY NoRowTyped DEF Init, Stored, NoRow
  <2>2. PageFits(Page("closed", NoView), row, made, university)
    BY <2>1, NoViewFits, FreshPage
  <2> QED BY <2>1, <2>2 DEF Init, Fits
<1> QED BY <1>1, Typed, NextFits, PTL DEF Spec

-----------------------------------------------------------------------------
(***************************************************************************)
(* Properties.                                                             *)
(***************************************************************************)
\* How the stored profile may change.
LEMMA RowSteps ==
    ASSUME TypeOK, Fits, [Next]_vars
    PROVE  \/ row' = row
           \/ row' = NoRow
           \/ row' = Invalidated(row) /\ row.gen # 0 /\ row.inst # university
           \/ /\ university' = university
              /\ \E t \in Tabs : /\ tab[t].pc \in {"saving", "resaving"} /\ tab'[t] # tab[t]
                                 /\ Save(tab[t].patch)
           \/ /\ university' = university
              /\ \E p \in stray : Save(p) /\ stray' = stray \ {p}
<1>1. ASSUME NEW t \in Tabs, Answered(t) \/ AnswerLost(t)
      PROVE  /\ tab[t].pc \in {"saving", "resaving"} /\ tab'[t] # tab[t]
             /\ Save(tab[t].patch) /\ university' = university
  <2>1. tab[t] \in PageType
    BY DEF TypeOK
  <2>2. tab[t].pc \in {"saving", "resaving"} /\ Save(tab[t].patch) /\ university' = university
    BY <1>1 DEF Answered, AnswerLost
  <2>3. tab'[t].pc \in {"ready", "review", "offer", "verify"}
    <3>1. CASE Answered(t)
      <4>1. Page("ready", Projection(row', university)).pc = "ready"
        BY DEF Page
      <4>2. /\ [tab[t] EXCEPT !.pc = "review"].pc = "review"
            /\ [tab[t] EXCEPT !.pc = "offer", !.patch = NoPatch].pc = "offer"
            /\ [tab[t] EXCEPT !.pc = "ready", !.patch = NoPatch].pc = "ready"
        BY <2>1 DEF PageType
      <4>3. tab'[t] \in {Page("ready", Projection(row', university)), [tab[t] EXCEPT !.pc = "review"],
                         [tab[t] EXCEPT !.pc = "offer", !.patch = NoPatch],
                         [tab[t] EXCEPT !.pc = "ready", !.patch = NoPatch]}
        BY <3>1 DEF Answered, TypeOK
      <4> QED BY <4>1, <4>2, <4>3
    <3>2. CASE AnswerLost(t)
      BY <2>1, <3>2 DEF AnswerLost, TypeOK, PageType
    <3> QED BY <1>1, <3>1, <3>2
  <2> QED BY <2>2, <2>3
<1>2. ASSUME NEW t \in Tabs, Invalidate(t)
      PROVE  \/ row' = row
             \/ row' = Invalidated(row) /\ row.gen # 0 /\ row.inst # university
  <2>1. row.gen # 0 /\ tab[t].seen # university
    BY <1>2 DEF Invalidate, Fits, PageFits, SeenFits
  <2> QED BY <1>2, <2>1 DEF Invalidate, Cleared
<1>3. CASE LateSave
  BY <1>3 DEF LateSave
<1>4. CASE UNCHANGED vars
  BY <1>4 DEF vars
<1>5. ASSUME NEW t \in Tabs,
             Open(t) \/ Reload(t) \/ Read(t) \/ SelectOutdated(t) \/ ReadFails(t) \/ Submit(t)
             \/ Reconfirm(t) \/ ConnectionLost(t)
      PROVE  row' = row
  BY <1>5 DEF Open, Reload, Read, SelectOutdated, ReadFails, Submit, Reconfirm, ConnectionLost
<1>6. ASSUME NEW t \in Tabs, EraseProfile(t) PROVE row' = NoRow
  BY <1>6 DEF EraseProfile
<1>7. ASSUME NEW s \in Schools, SelectInstitution(s) PROVE row' = row
  BY <1>7 DEF SelectInstitution
<1> QED BY <1>1, <1>2, <1>3, <1>4, <1>5, <1>6, <1>7 DEF Next

\* Every stored answer was given for the school the profile is about, those saved
\* from pages of an erased generation apart.
THEOREM AnswersFitSchoolHolds == Spec => []AnswersFitSchool
<1>1. Init => AnswersFitSchool
  BY DEF Init, AnswersFitSchool, Supplied, NoRow, NoAnswers, Unanswered
<1>2. TypeOK /\ Counted /\ Fits /\ AnswersFitSchool /\ [Next]_vars => AnswersFitSchool'
  <2> SUFFICES ASSUME TypeOK, Counted, Fits, AnswersFitSchool, [Next]_vars PROVE AnswersFitSchool'
    OBVIOUS
  <2>1. CASE row' = row
    BY <2>1 DEF AnswersFitSchool, Supplied, Effective
  <2>2. CASE row' = NoRow
    BY <2>2 DEF AnswersFitSchool, Supplied, NoRow, NoAnswers, Unanswered
  <2>3. CASE row' = Invalidated(row)
    <3>1. row'.ans = NoAnswers
      BY <2>3, InvalidatedTyped
    <3> QED BY <3>1 DEF AnswersFitSchool, Supplied, NoAnswers, Unanswered
  <2>4. ASSUME NEW t \in Tabs, Save(tab[t].patch), university' = university PROVE AnswersFitSchool'
    <3>1. tab[t].patch \in PatchType /\ PatchFits(tab[t].patch, row, made) /\ Stored(row, made)
      BY DEF TypeOK, PageType, Fits, PageFits
    <3> QED BY <2>4, <3>1, SaveAnswers
  <2>5. ASSUME NEW p \in stray, Save(p), university' = university PROVE AnswersFitSchool'
    <3>1. p \in PatchType /\ PatchFits(p, row, made) /\ Stored(row, made)
      BY DEF TypeOK, Fits
    <3> QED BY <2>5, <3>1, SaveAnswers
  <2> QED BY <2>1, <2>2, <2>3, <2>4, <2>5, RowSteps
<1> QED BY <1>1, <1>2, Typed, FitsHold, PTL DEF Spec

\* No save of the generation that is stored replaces an answer its page did not
\* show; saves left over from an erased generation are apart.
THEOREM NoBlindSaveHolds == Spec => NoBlindSave
<1> DEFINE Seen(f) ==
        row.gen # 0 /\ row'.gen = row.gen /\ row'.ans[f] # row.ans[f] =>
           \/ row'.ans = NoAnswers /\ row.inst # university
           \/ \E p \in {tab[t].patch : t \in Tabs} \cup stray :
                 p.ans[f] = row'.ans[f].val /\ (p.gen = row.gen => p.rev = row.rev)
<1>1. TypeOK /\ Counted /\ Fits /\ [Next]_vars => \A f \in Fields : Seen(f)
  <2> SUFFICES ASSUME TypeOK, Counted, Fits, [Next]_vars, NEW f \in Fields,
                      row.gen # 0, row'.gen = row.gen, row'.ans[f] # row.ans[f]
               PROVE  \/ row'.ans = NoAnswers /\ row.inst # university
                      \/ \E p \in {tab[t].patch : t \in Tabs} \cup stray :
                            p.ans[f] = row'.ans[f].val /\ (p.gen = row.gen => p.rev = row.rev)
    OBVIOUS
  <2>1. row' # NoRow
    BY DEF NoRow
  <2>2. CASE row' = Invalidated(row) /\ row.inst # university
    BY <2>2, InvalidatedTyped
  <2>3. ASSUME NEW p \in {tab[t].patch : t \in Tabs} \cup stray, Save(p)
        PROVE  \/ row'.ans = NoAnswers /\ row.inst # university
               \/ p.ans[f] = row'.ans[f].val /\ p.rev = row.rev
    <3>1. p \in PatchType
      BY <2>3 DEF TypeOK, PageType
    <3>2. CASE row' = Merged(p) /\ p.rev = row.rev
      <4>1. p.ans[f] # Keep /\ row'.ans[f] = Given(p, f)
        BY <3>2 DEF Merged
      <4>2. row'.ans[f].val = p.ans[f]
        BY <4>1 DEF Given, Unanswered
      <4> QED BY <3>2, <4>2
    <3>3. CASE row' = Invalidated(row) /\ row.inst # university
      BY <3>3, InvalidatedTyped
    <3> QED BY <2>3, <3>1, <3>2, <3>3, SaveSteps
  <2> QED BY <2>1, <2>2, <2>3, RowSteps
<1> QED BY <1>1, Typed, FitsHold, PTL DEF Spec, NoBlindSave

\* Readers who overlap clear an outdated profile once, and no other.
THEOREM ReadersClearOnceHolds == Spec => ReadersClearOnce
<1> DEFINE Once ==
        row' # row /\ row.inst = university =>
          \/ row'.gen = 0
          \/ \E t \in Tabs : tab[t].pc \in {"saving", "resaving"} /\ tab'[t] # tab[t]
          \/ stray' # stray
<1>1. TypeOK /\ Fits /\ [Next]_vars => Once
  <2> SUFFICES ASSUME TypeOK, Fits, [Next]_vars, row' # row, row.inst = university
               PROVE  \/ row'.gen = 0
                      \/ \E t \in Tabs : tab[t].pc \in {"saving", "resaving"} /\ tab'[t] # tab[t]
                      \/ stray' # stray
    OBVIOUS
  <2>1. NoRow.gen = 0
    BY DEF NoRow
  <2> QED BY <2>1, RowSteps
<1> QED BY <1>1, Typed, FitsHold, PTL DEF Spec, ReadersClearOnce

\* What a save stores is what it sent,
LEMMA MergedMatches ==
    ASSUME NEW p \in PatchType, row' = Merged(p)
    PROVE  Matches(p, Projection(row', university))
<1> DEFINE v == Projection(row', university)
<1>1. /\ row'.claim = IF p.claim = Keep THEN row.claim ELSE p.claim
      /\ \A f \in Fields : row'.ans[f] = IF p.ans[f] = Keep THEN row.ans[f] ELSE Given(p, f)
  BY DEF Merged
<1>2. \A f \in Fields : Given(p, f).val = p.ans[f]
  BY DEF Given, Unanswered
<1>3. v.claim = row'.claim /\ \A f \in Fields : v.ans[f] = row'.ans[f].val
  BY DEF Projection, Shown
<1> HIDE DEF v
<1>4. Matches(p, v)
  BY <1>1, <1>2, <1>3 DEF Matches
<1> QED BY <1>4 DEF v

\* and with it the whole screen, when the page shows the stored generation.
LEMMA MergedShown ==
    ASSUME TypeOK, Counted, NEW page \in PageType, PageFits(page, row, made, university), Stored(row, made),
           page.pc \in {"saving", "resaving"}, page.view.gen = row.gen,
           page.patch.rev = row.rev, Accepted(page.patch), row' = Merged(page.patch)
    PROVE  /\ page.draft.ans = Shown(row')
           /\ university = None => page.draft.claim = row'.claim
<1> DEFINE view == page.view
           p == page.patch
           draft == page.draft
<1>1. /\ view \in ViewType /\ p \in PatchType /\ draft \in [claim : School, ans : [Fields -> Answer]]
      /\ row.gen \in Nat /\ row.rev \in Nat
  BY ProfileAssumption DEF PageType, TypeOK, RowType
<1>2. /\ view.rev = row.rev /\ view.inst = p.inst
      /\ p.claim = IF "claim" \in page.dirty /\ view.inst = None THEN draft.claim ELSE Keep
      /\ "claim" \notin page.dirty => draft.claim = view.claim
      /\ \A f \in Fields : f \notin page.dirty => draft.ans[f] = view.ans[f]
      /\ \A f \in Fields : f \in page.dirty => p.ans[f] = draft.ans[f]
      /\ \A f \in Fields : p.ans[f] \in {Keep, draft.ans[f]}
  BY DEF PageFits, DraftFits
<1>3. /\ view.claim = row.claim
      /\ \A f \in Fields : view.ans[f] = row.ans[f].val
  <2>1. CASE row.gen = 0
    BY <2>1 DEF PageFits, ViewFits, Stored, Shown, NoRow
  <2>2. CASE row.gen # 0
    <3>1. view = Projection(row, row.inst)
      BY <1>2, <2>2 DEF PageFits, ViewFits
    <3> QED BY <3>1 DEF Projection, Shown
  <2> QED BY <2>1, <2>2
<1>4. university = None => view.inst = None
  <2>1. CASE row.gen = 0
    BY <1>2, <2>1 DEF Accepted
  <2>2. CASE row.gen # 0
    <3>1. view = Projection(row, row.inst)
      BY <1>2, <2>2 DEF PageFits, ViewFits
    <3> QED BY <2>2, <3>1 DEF Projection, Accepted
  <2> QED BY <2>1, <2>2
<1>5. \A f \in Fields : draft.ans[f] \in Answer /\ draft.ans[f] # Keep
  BY <1>1, WordsDiffer
<1>6. draft.claim # Keep
  BY <1>1, WordsDiffer
<1>7. /\ row'.claim = IF p.claim = Keep THEN row.claim ELSE p.claim
      /\ row'.ans = [f \in Fields |-> IF p.ans[f] = Keep THEN row.ans[f] ELSE Given(p, f)]
  BY DEF Merged
<1>8. \A f \in Fields : Given(p, f).val = p.ans[f]
  BY DEF Given, Unanswered
<1> HIDE DEF view, p, draft
<1>9. \A f \in Fields : draft.ans[f] = row'.ans[f].val
  BY <1>2, <1>3, <1>5, <1>7, <1>8
<1>10. draft.ans = Shown(row')
  BY <1>1, <1>9 DEF Shown
<1>11. university = None => draft.claim = row'.claim
  BY <1>2, <1>3, <1>4, <1>6, <1>7
<1> QED BY <1>10, <1>11 DEF draft

\* Only a page's own step ends its save.
LEMMA SavedSteps ==
    ASSUME TypeOK, [Next]_vars, NEW t \in Tabs, Saved(t)
    PROVE  Answered(t) \/ Read(t) \/ Invalidate(t) \/ ReadFails(t)
<1>0. tab[t] \in PageType /\ tab[t].pc \in {"saving", "resaving", "verify"} /\ tab'[t].pc = "ready"
  BY DEF TypeOK, Saved
<1>1. tab' # tab /\ tab'[t] # tab[t]
  BY <1>0
<1>2. ~UNCHANGED vars /\ ~LateSave /\ \A s \in Schools : ~SelectInstitution(s)
  BY <1>1 DEF vars, LateSave, SelectInstitution
<1>3. PICK s \in Tabs : \/ Open(s) \/ Reload(s) \/ Read(s) \/ SelectOutdated(s) \/ Invalidate(s)
                        \/ ReadFails(s) \/ Submit(s) \/ Reconfirm(s) \/ Answered(s)
                        \/ AnswerLost(s) \/ ConnectionLost(s) \/ EraseProfile(s)
  BY <1>2 DEF Next
<1>4. s = t
  <2>1. ASSUME NEW page, tab' = [tab EXCEPT ![s] = page] PROVE s = t
    BY <1>1, <2>1 DEF TypeOK
  <2>2. CASE Open(s) \/ Reload(s) \/ SelectOutdated(s) \/ ReadFails(s) \/ Reconfirm(s)
             \/ Answered(s) \/ AnswerLost(s) \/ ConnectionLost(s)
    BY <2>1, <2>2 DEF Open, Reload, SelectOutdated, ReadFails, Reconfirm, Answered, AnswerLost, ConnectionLost
  <2>3. CASE Read(s) \/ Invalidate(s)
    BY <2>1, <2>3 DEF Read, Invalidate, Receive
  <2>4. CASE EraseProfile(s)
    BY <1>1, <2>1, <2>4 DEF EraseProfile
  <2>5. CASE Submit(s)
    <3>1. \A r \in Tabs \ {s} : tab'[r] = tab[r]
      BY <2>5 DEF Submit, TypeOK
    <3> QED BY <1>1, <3>1
  <2> QED BY <1>3, <2>2, <2>3, <2>4, <2>5
<1>5. ~Open(t) /\ ~Reload(t) /\ ~Submit(t) /\ ~Reconfirm(t) /\ ~EraseProfile(t)
  BY <1>0 DEF Open, Reload, Submit, Reconfirm, EraseProfile
<1>6. ~SelectOutdated(t) /\ ~AnswerLost(t) /\ ~ConnectionLost(t)
  <2>1. /\ [tab[t] EXCEPT !.seen = row.inst].pc = tab[t].pc
        /\ [tab[t] EXCEPT !.pc = "verify"].pc = "verify"
    BY <1>0 DEF PageType
  <2>2. ~SelectOutdated(t)
    BY <1>0, <2>1 DEF SelectOutdated, TypeOK
  <2>3. ~AnswerLost(t) /\ ~ConnectionLost(t)
    BY <1>0, <2>1 DEF AnswerLost, ConnectionLost, TypeOK
  <2> QED BY <2>2, <2>3
<1> QED BY <1>3, <1>4, <1>5, <1>6

\* A page that reports success has stored what it sent, whatever generation it
\* shows.  When the server said so and the page shows the generation that is
\* stored, it has stored all it shows.
THEOREM ShownIsSavedHolds == Spec => ShownIsSaved
<1> DEFINE Whole(t) ==
        Saved(t) =>
          /\ Matches(tab[t].patch, Projection(row', university))
          /\ tab[t].pc # "verify" /\ tab[t].view.gen = row.gen =>
                /\ tab[t].draft.ans = Shown(row')
                /\ university = None => tab[t].draft.claim = row'.claim
<1>1. TypeOK /\ Counted /\ Fits /\ [Next]_vars => \A t \in Tabs : Whole(t)
  <2> SUFFICES ASSUME TypeOK, Counted, Fits, [Next]_vars, NEW t \in Tabs, Saved(t)
               PROVE  /\ Matches(tab[t].patch, Projection(row', university))
                      /\ tab[t].pc # "verify" /\ tab[t].view.gen = row.gen =>
                            /\ tab[t].draft.ans = Shown(row')
                            /\ university = None => tab[t].draft.claim = row'.claim
    OBVIOUS
  <2>0. /\ tab[t] \in PageType /\ tab[t].patch \in PatchType /\ Stored(row, made)
        /\ PageFits(tab[t], row, made, university) /\ tab[t].dirty # {}
        /\ tab[t].pc \in {"saving", "resaving", "verify"} /\ tab'[t].dirty = {} /\ tab'[t].dirty # tab[t].dirty
    BY DEF TypeOK, PageType, Fits, PageFits, DraftFits, Saved
  <2>1. CASE Answered(t)
    <3>1. Outcome(tab[t].patch) = "saved"
      <4>1. /\ [tab[t] EXCEPT !.pc = "review"].dirty = tab[t].dirty
            /\ [tab[t] EXCEPT !.pc = "offer", !.patch = NoPatch].dirty = tab[t].dirty
            /\ [tab[t] EXCEPT !.pc = "ready", !.patch = NoPatch].dirty = tab[t].dirty
        BY <2>0 DEF PageType
      <4>2. \/ Outcome(tab[t].patch) = "saved"
            \/ tab'[t] \in {[tab[t] EXCEPT !.pc = "review"],
                            [tab[t] EXCEPT !.pc = "offer", !.patch = NoPatch],
                            [tab[t] EXCEPT !.pc = "ready", !.patch = NoPatch]}
        BY <2>1 DEF Answered, TypeOK
      <4> QED BY <2>0, <4>1, <4>2
    <3>2. /\ tab[t].pc \in {"saving", "resaving"} /\ Save(tab[t].patch)
      BY <2>1 DEF Answered
    <3>3. /\ tab[t].patch.rev = row.rev /\ Accepted(tab[t].patch) /\ row' = Merged(tab[t].patch)
      BY <2>0, <3>1, <3>2, SaveSteps
    <3> QED BY <2>0, <3>2, <3>3, MergedMatches, MergedShown
  <2>2. ASSUME NEW v, Receive(t, v) PROVE tab[t].pc = "verify" /\ Matches(tab[t].patch, v)
    <3>1. /\ Review(tab[t], v).dirty # {}
          /\ [tab[t] EXCEPT !.pc = "ready", !.patch = NoPatch, !.seen = Idle].dirty = tab[t].dirty
      BY <2>0 DEF PageType, Review, Items
    <3>2. \/ tab[t].pc = "verify" /\ Matches(tab[t].patch, v)
          \/ tab'[t] \in {Review(tab[t], v), [tab[t] EXCEPT !.pc = "ready", !.patch = NoPatch, !.seen = Idle]}
      BY <2>0, <2>2 DEF Receive, TypeOK
    <3> QED BY <2>0, <3>1, <3>2
  <2>3. CASE Read(t)
    BY <2>2, <2>3 DEF Read
  <2>4. CASE Invalidate(t)
    BY <2>2, <2>4 DEF Invalidate
  <2>5. ~ReadFails(t)
    <3>1. [tab[t] EXCEPT !.pc = "ready", !.patch = NoPatch, !.seen = Idle].dirty = tab[t].dirty
      BY <2>0 DEF PageType
    <3> QED BY <2>0, <3>1 DEF ReadFails, TypeOK
  <2> QED BY <2>1, <2>3, <2>4, <2>5, SavedSteps
<1> QED BY <1>1, Typed, FitsHold, PTL DEF Spec, ShownIsSaved
=============================================================================
