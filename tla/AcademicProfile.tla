---------------------------- MODULE AcademicProfile ----------------------------
(***************************************************************************)
(* One student's academic profile, edited from several browser tabs while  *)
(* the school the account is bound to changes.  Answers are given in the   *)
(* context of a school: the bound one, or the one the student claims.  The *)
(* server stores a profile under the school it was given for, clears it    *)
(* when that school has changed, and refuses a save whose page is out of   *)
(* date; the page decides what to send, and what to do when it is refused  *)
(* or when the answer is lost.                                             *)
(***************************************************************************)
EXTENDS Naturals

CONSTANTS Tabs, Schools,
          Fields,     \* answers scoped to a school: programme, entry year, ...
          Values,     \* what a field may be answered with
          MaxGen,     \* bound on generations, the profiles ever created
          Budgets     \* bounds on whatever may happen without end, see Kinds

None == "none"     \* no school
Blank == "blank"   \* unanswered, unknown or skipped
Keep == "keep"     \* a field a patch does not mention
Idle == "idle"

\* What Budgets bounds: saves pressed, changes of the bound school, profiles
\* erased, and requests or answers that get lost.
Kinds == {"saves", "switches", "erasures", "losses"}

ASSUME ProfileAssumption ==
    /\ MaxGen \in Nat
    /\ {None, Blank, Keep, Idle} \cap (Schools \cup Values) = {}
    /\ Budgets \subseteq [Kinds -> Nat]

VARIABLES
    university, \* students.university_id
    row,        \* student_academic_profiles, gen 0 without a row
    made,       \* history: generations ever created
    tab,        \* the pages a student has open
    stray,      \* saves whose page gave up waiting and that may still arrive
    budget

vars == <<university, row, made, tab, stray, budget>>

School == Schools \cup {None}
Answer == Values \cup {Blank}

\* Stored answers remember, as history, the school and the generation that
\* the page showed when the student saved them.
Unanswered == [val |-> Blank, for |-> None, gen |-> 0]
NoAnswers == [f \in Fields |-> Unanswered]
NoRow == [gen |-> 0, rev |-> 0, inst |-> None, claim |-> None, ans |-> NoAnswers]

RowType == [gen : 0..MaxGen, rev : Nat, inst : School, claim : School,
            ans : [Fields -> [val : Answer, for : School, gen : 0..MaxGen]]]
ViewType == [gen : 0..MaxGen, rev : Nat, inst : School, claim : School, ans : [Fields -> Answer]]
PatchType == [gen : 0..MaxGen, rev : Nat, inst : School, claim : School \cup {Keep},
              ans : [Fields -> Answer \cup {Keep}], for : School]

\* The answers a projection of a row shows.
Shown(r) == [f \in Fields |-> r.ans[f].val]
Projection(r, u) == [gen |-> r.gen, rev |-> r.rev, inst |-> u, claim |-> r.claim, ans |-> Shown(r)]
NoView == Projection(NoRow, None)
NoPatch == [gen |-> 0, rev |-> 0, inst |-> None, claim |-> Keep,
            ans |-> [f \in Fields |-> Keep], for |-> None]

\* A page: the projection it loaded, the draft on screen, the items touched,
\* the patch in flight, and the school a read of the server found outdated.
Page(pc, view) ==
    [pc |-> pc, view |-> view, draft |-> [claim |-> view.claim, ans |-> view.ans],
     dirty |-> {}, patch |-> NoPatch, seen |-> Idle]
Items == Fields \cup {"claim"}
Reading == {"loading", "reload", "review", "verify"}

PageType == [pc : {"closed", "ready", "offer", "saving", "resaving"} \cup Reading,
             view : ViewType, draft : [claim : School, ans : [Fields -> Answer]],
             dirty : SUBSET Items, patch : PatchType, seen : School \cup {Idle}]

TypeOK ==
    /\ university \in School /\ row \in RowType /\ made \in 0..MaxGen
    /\ tab \in [Tabs -> PageType]
    /\ stray \subseteq PatchType
    /\ budget \in [Kinds -> Nat]

Init ==
    /\ university \in School
    /\ row = NoRow /\ made = 0
    /\ tab = [t \in Tabs |-> Page("closed", NoView)]
    /\ stray = {}
    /\ budget \in Budgets

Spend(kind) == budget[kind] > 0 /\ budget' = [budget EXCEPT ![kind] = @ - 1]

\* Reads hold the student's row in share mode until they commit.
Unlocked == \A t \in Tabs : tab[t].seen = Idle

-----------------------------------------------------------------------------
\* The server.  A profile of another school keeps nothing but its generation.
Invalidated(r) == [NoRow EXCEPT !.gen = r.gen, !.rev = r.rev + 1, !.inst = university]

Supplied(f) == row.ans[f].val # Blank

ClaimChanges(p) == p.claim # Keep /\ p.claim # row.claim

\* Mutated: one answer given again is enough to replace the school.
CarriedAll(p) == {f \in Fields : Supplied(f) /\ \A g \in Fields : p.ans[g] = Keep}

Carried(p) == {f \in Fields : Supplied(f) /\ p.ans[f] = Keep}

\* The checks of a save of the current revision, in their order.
Verdict(p) ==
    CASE row.gen # 0 /\ row.inst # university -> "drift"
      [] row.gen = 0 /\ p.inst # university -> "binding"
      [] OTHER -> IF university = None
                  THEN IF ClaimChanges(p) /\ Carried(p) # {} THEN "claim" ELSE "saved"
                  ELSE IF p.claim # Keep THEN "refused" ELSE "saved"

\* Mutated: a page out of date may save.
OutcomeAnyRevision(p) == Verdict(p)

Outcome(p) == IF p.rev # row.rev THEN "conflict" ELSE Verdict(p)

\* An answer as it is stored.
Given(p, f) == IF p.ans[f] = Blank THEN Unanswered
               ELSE [val |-> p.ans[f], for |-> p.for, gen |-> p.gen]

\* validateAndMergePatch and the upsert; a new row is a new generation.
Merged(p) ==
    [gen |-> IF row.gen = 0 THEN made + 1 ELSE row.gen,
     rev |-> row.rev + 1, inst |-> university,
     claim |-> IF p.claim = Keep THEN row.claim ELSE p.claim,
     ans |-> [f \in Fields |-> IF p.ans[f] = Keep THEN row.ans[f] ELSE Given(p, f)]]

Save(p) ==
    /\ Unlocked
    /\ made + 1 <= MaxGen \/ row.gen # 0
    /\ row' = CASE Outcome(p) = "saved" -> Merged(p)
                [] Outcome(p) = "drift" -> Invalidated(row)
                [] OTHER -> row
    /\ made' = IF row'.gen > made THEN row'.gen ELSE made

-----------------------------------------------------------------------------
Open(t) ==
    /\ tab[t].pc = "closed"
    /\ tab' = [tab EXCEPT ![t] = Page("loading", NoView)]
    /\ UNCHANGED <<university, row, made, stray, budget>>

Reload(t) ==
    /\ tab[t].pc \in {"ready", "offer"}
    /\ tab' = [tab EXCEPT ![t].pc = "reload"]
    /\ UNCHANGED <<university, row, made, stray, budget>>

\* patchMatchesProjection: what was sent is what is stored.
Matches(p, v) ==
    /\ p.claim \in {Keep, v.claim}
    /\ \A f \in Fields : p.ans[f] \in {Keep, v.ans[f]}

\* Mutated: only the items that were touched are sent again.
ReviewTouched(page, v) ==
    [page EXCEPT !.pc = "ready", !.view = v, !.patch = NoPatch, !.seen = Idle]

\* After a change of school the draft is kept for the student to review, and
\* all of it is sent again: the stored answers are gone.
Review(page, v) ==
    [page EXCEPT !.pc = "ready", !.view = v, !.dirty = Items, !.patch = NoPatch, !.seen = Idle]

\* The page receives a projection.
Receive(t, v) ==
    tab' = [tab EXCEPT ![t] =
              CASE @.pc \in {"loading", "reload"} -> Page("ready", v)
                [] @.pc = "verify" /\ Matches(@.patch, v) -> Page("ready", v)
                [] @.pc = "review" -> Review(@, v)
                [] OTHER -> [@ EXCEPT !.pc = "ready", !.patch = NoPatch, !.seen = Idle]]

\* readAcademicProfile, when the stored school is the bound one,
Read(t) ==
    /\ tab[t].pc \in Reading /\ tab[t].seen = Idle
    /\ row.gen = 0 \/ row.inst = university
    /\ Receive(t, Projection(row, university))
    /\ UNCHANGED <<university, row, made, stray, budget>>

\* and when it is not: other readers may see the same before it is cleared.
SelectOutdated(t) ==
    /\ tab[t].pc \in Reading /\ tab[t].seen = Idle
    /\ row.gen # 0 /\ row.inst # university
    /\ tab' = [tab EXCEPT ![t].seen = row.inst]
    /\ UNCHANGED <<university, row, made, stray, budget>>

\* Mutated: without the observed school in the WHERE clause.
ClearedAgain(t) == Invalidated(row)

Cleared(t) == IF row.inst = tab[t].seen THEN Invalidated(row) ELSE row

Invalidate(t) ==
    /\ tab[t].seen # Idle
    /\ row' = Cleared(t)
    /\ Receive(t, Projection(row', university))
    /\ UNCHANGED <<university, made, stray, budget>>

ReadFails(t) ==
    /\ tab[t].pc \in Reading
    /\ Spend("losses")
    /\ tab' = [tab EXCEPT ![t] = IF @.pc = "loading" THEN Page("closed", NoView)
                                 ELSE [@ EXCEPT !.pc = "ready", !.patch = NoPatch, !.seen = Idle]]
    /\ UNCHANGED <<university, row, made, stray>>

-----------------------------------------------------------------------------
\* buildAcademicProfilePatch: the touched items, the revision and the school
\* of the page.  A claim can be edited only while no school is bound.
Patch(view, draft, dirty) ==
    [gen |-> view.gen, rev |-> view.rev, inst |-> view.inst,
     claim |-> IF "claim" \in dirty /\ view.inst = None THEN draft.claim ELSE Keep,
     ans |-> [f \in Fields |-> IF f \in dirty THEN draft.ans[f] ELSE Keep],
     for |-> IF view.inst = None THEN draft.claim ELSE view.inst]

Touched(old, new) ==
    {f \in Fields : new.ans[f] # old.ans[f]} \cup {c \in {"claim"} : new.claim # old.claim}

\* The student edits some items and presses save.
Submit(t) ==
    /\ tab[t].pc \in {"ready", "offer"}
    /\ Spend("saves")
    /\ \E draft \in [claim : School, ans : [Fields -> Answer]] :
          LET dirty == tab[t].dirty \cup Touched(tab[t].draft, draft) IN
          /\ tab[t].view.inst # None => draft.claim = tab[t].draft.claim
          /\ dirty # {}
          /\ tab' = [tab EXCEPT ![t].pc = "saving", ![t].draft = draft, ![t].dirty = dirty,
                                ![t].patch = Patch(tab[t].view, draft, dirty)]
    /\ UNCHANGED <<university, row, made, stray>>

\* buildClaimReconfirmPatch: saved answers are sent again for the new school.
Reconfirm(t) ==
    LET view == tab[t].view
        patch == Patch(view, tab[t].draft, tab[t].dirty)
    IN
    /\ tab[t].pc = "offer"
    /\ tab' = [tab EXCEPT ![t].pc = "resaving",
                 ![t].patch = [patch EXCEPT !.ans =
                     [f \in Fields |-> IF @[f] = Keep /\ view.ans[f] # Blank
                                       THEN view.ans[f] ELSE @[f]]]]
    /\ UNCHANGED <<university, row, made, stray, budget>>

\* The save is handled and its answer arrives.
Answered(t) ==
    /\ tab[t].pc \in {"saving", "resaving"}
    /\ Save(tab[t].patch)
    /\ tab' = [tab EXCEPT ![t] =
                 CASE Outcome(@.patch) = "saved" -> Page("ready", Projection(row', university))
                   [] Outcome(@.patch) = "drift" /\ @.pc = "saving" -> [@ EXCEPT !.pc = "review"]
                   [] Outcome(@.patch) = "claim" /\ @.pc = "saving" ->
                        [@ EXCEPT !.pc = "offer", !.patch = NoPatch]
                   [] OTHER -> [@ EXCEPT !.pc = "ready", !.patch = NoPatch]]
    /\ UNCHANGED <<university, stray, budget>>

\* It is handled and the answer is lost: the page reads back.
AnswerLost(t) ==
    /\ tab[t].pc \in {"saving", "resaving"}
    /\ Spend("losses")
    /\ Save(tab[t].patch)
    /\ tab' = [tab EXCEPT ![t].pc = "verify"]
    /\ UNCHANGED <<university, stray>>

\* The connection breaks while the save waits at the server.
ConnectionLost(t) ==
    /\ tab[t].pc \in {"saving", "resaving"}
    /\ Spend("losses")
    /\ stray' = stray \cup {tab[t].patch}
    /\ tab' = [tab EXCEPT ![t].pc = "verify"]
    /\ UNCHANGED <<university, row, made>>

LateSave ==
    /\ \E p \in stray : Save(p) /\ stray' = stray \ {p}
    /\ UNCHANGED <<university, tab, budget>>

\* The page starts over, unless it does not learn that the profile is erased.
EraseProfile(t) ==
    /\ tab[t].pc \in {"ready", "offer"} /\ Unlocked
    /\ Spend("erasures")
    /\ row' = NoRow
    /\ tab' \in {tab, [tab EXCEPT ![t] = Page("loading", NoView)]}
    /\ UNCHANGED <<university, made, stray>>

\* selectStudentInstitution binds the account to another school.
SelectInstitution(s) ==
    /\ s # university /\ Unlocked
    /\ Spend("switches")
    /\ university' = s
    /\ UNCHANGED <<row, made, tab, stray>>

Next ==
    \/ \E t \in Tabs : \/ Open(t) \/ Reload(t) \/ Read(t) \/ SelectOutdated(t) \/ Invalidate(t)
                       \/ ReadFails(t) \/ Submit(t) \/ Reconfirm(t) \/ Answered(t)
                       \/ AnswerLost(t) \/ ConnectionLost(t) \/ EraseProfile(t)
    \/ LateSave
    \/ \E s \in Schools : SelectInstitution(s)

Spec == Init /\ [][Next]_vars

-----------------------------------------------------------------------------
\* The school a stored profile is about.
Effective(r) == IF r.inst # None THEN r.inst ELSE r.claim

\* Every stored answer was saved from a page that showed the school the profile
\* is about, however the binding, the claim and the tabs change in between;
\* pages of a generation that was erased apart.
AnswersFitSchool ==
    \A f \in Fields : Supplied(f) /\ row.ans[f].gen \in {0, row.gen}
                          => row.ans[f].for = Effective(row)

\* The same of every page: obsolete school data can never persist.
ObsoleteNeverPersists == \A f \in Fields : Supplied(f) => row.ans[f].for = Effective(row)

\* When a page reports that it saved, each item it sent is stored.  If the
\* server told it so, everything else on its screen is stored as well: nothing
\* the student saw was dropped when the profile was cleared or the claim was
\* replaced.  The second part leaves out a page that still shows a generation
\* which was erased and made again: it is told "saved" although the answers it
\* shows and did not send were erased with the earlier profile.
Saved(t) == /\ tab[t].pc \in {"saving", "resaving", "verify"}
            /\ tab'[t].pc = "ready" /\ tab'[t].dirty = {}

ShownIsSaved ==
    [][\A t \in Tabs : Saved(t) =>
          /\ Matches(tab[t].patch, Projection(row', university))
          /\ tab[t].pc # "verify" /\ tab[t].view.gen = row.gen =>
                /\ tab[t].draft.ans = Shown(row')
                /\ university = None => tab[t].draft.claim = row'.claim]_vars

\* A stored answer is replaced only by a save of a page that showed it, late
\* saves included, or together with all others when the school has changed.  A
\* save left over from a generation that was erased and made again is apart: it
\* may carry a number which the new profile has reached for other answers.
NoBlindSave ==
    [][\A f \in Fields :
          row.gen # 0 /\ row'.gen = row.gen /\ row'.ans[f] # row.ans[f] =>
             \/ row'.ans = NoAnswers /\ row.inst # university
             \/ \E p \in {tab[t].patch : t \in Tabs} \cup stray :
                   p.ans[f] = row'.ans[f].val /\ (p.gen = row.gen => p.rev = row.rev)]_vars

\* A profile stored for the bound school changes only when a save is handled or
\* it is erased: of readers who overlap, one clears an outdated profile, and
\* none makes a page that was just loaded look out of date.
ReadersClearOnce ==
    [][row' # row /\ row.inst = university =>
          \/ row'.gen = 0
          \/ \E t \in Tabs : tab[t].pc \in {"saving", "resaving"} /\ tab'[t] # tab[t]
          \/ stray' # stray]_vars
=============================================================================
