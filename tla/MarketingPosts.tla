--------------------------- MODULE MarketingPosts ---------------------------
(***************************************************************************)
(* apps/marketing-engine's written posts: each day a few times are drawn,  *)
(* and at each one a model writes a post of a category that is not the     *)
(* last one's, which is recorded, sent to the channel and marked.  Draws   *)
(* are 45 minutes apart, so that a run has ended when the next begins.     *)
(***************************************************************************)
EXTENDS Integers, Sequences, FiniteSets

CONSTANTS Category,
          Wording,      \* what the model can write
          Akin,         \* pairs of texts above NEAR_DUPLICATE_THRESHOLD
          MinSlots, MaxSlots,  \* MIN_POSTS_PER_DAY, MAX_POSTS_PER_DAY
          MaxTries,     \* MAX_ATTEMPTS of a slot
          Recall,       \* RECENT_POSTS_FOR_DEDUPE
          MaxNights,    \* bound: days
          PostFaults    \* bound: failed calls and stops

ASSUME PostsAssumption ==
    /\ {MinSlots, MaxSlots, MaxNights, PostFaults, Recall} \subseteq Nat /\ MaxTries \in Nat \ {0}
    /\ MinSlots <= MaxSlots
    /\ \A c \in Category : Category # {c}     \* CATEGORIES has six

VARIABLES slots,    \* times still to come today
          nights,   \* midnights so far
          run,      \* runOnce: its place and locals
          drafts,   \* MarketingPost rows, in the order they are written
          shown,    \* what the channel has, in order
          faults,   \* failed calls and stops so far
          plans     \* observer: posts and plans of this day

postVars == <<slots, nights, run, drafts, shown, faults, plans>>

NoRun == [at |-> "idle", category |-> "none", text |-> 0, tries |-> 0]

\* Types of the rows and the run; a slot has no more tries than it may.
PostsTypeOK ==
    /\ slots \in 0 .. MaxSlots /\ nights \in 0 .. MaxNights /\ faults \in 0 .. PostFaults
    /\ run \in [at : {"idle", "write", "record", "send", "mark"}, category : Category \cup {"none"},
                text : Wording \cup {0}, tries : 0 .. MaxTries - 1]
    /\ drafts \in Seq([category : Category, text : Wording, published : BOOLEAN])
    /\ shown \in Seq([category : Category, text : Wording])
    /\ plans \in [plans : 1 .. 1 + PostFaults, posts : Nat]

\* planDailyPostTimes, and those of them still to come: all from a midnight,
\* any number after a start.
Plan(rest) == slots' \in (IF rest THEN 0 ELSE MinSlots) .. MaxSlots

PostsInit ==
    /\ slots \in 0 .. MaxSlots /\ nights = 0 /\ run = NoRun /\ drafts = <<>> /\ shown = <<>>
    /\ faults = 0 /\ plans = [plans |-> 1, posts |-> 0]

Fault == faults < PostFaults /\ faults' = faults + 1
\* scheduleDay's catch: the slot is over.
RunEnds == run' = NoRun
Published == {n \in DOMAIN drafts : drafts[n].published}

\* Mutant of LastCategory: the query's order is ascending.
FirstCategory == {drafts[n].category : n \in {k \in Published : \A j \in Published : k <= j}}

\* The category of the last one published
LastCategory == {drafts[n].category : n \in {k \in Published : \A j \in Published : j <= k}}

\* pickNextCategory
Categories == IF Category \ LastCategory # {} THEN Category \ LastCategory ELSE Category

\* getRecentPostTexts: the newest of those published.
Recent == {n \in Published : Cardinality({k \in Published : k > n}) < Recall}

\* Refused: written before, published or not, or too near what was published lately.
Refused(t) ==
    \/ \E n \in DOMAIN drafts : drafts[n].text = t
    \/ \E n \in Recent : {t, drafts[n].text} \in Akin

\* A drawn time has come.
Slot ==
    /\ run.at = "idle" /\ slots > 0 /\ slots' = slots - 1
    /\ \E c \in Categories : run' = [NoRun EXCEPT !.at = "write", !.category = c]
    /\ UNCHANGED <<nights, drafts, shown, faults, plans>>

\* generateUniquePost: an answer that is no post or that is refused costs a
\* try, and after the last one the slot is skipped.
Write ==
    /\ run.at = "write"
    /\ \/ /\ run' = IF run.tries + 1 = MaxTries THEN NoRun ELSE [run EXCEPT !.tries = @ + 1]
          /\ UNCHANGED faults
       \/ \E t \in Wording : ~Refused(t) /\ run' = [run EXCEPT !.at = "record", !.text = t] /\ UNCHANGED faults
       \/ Fault /\ RunEnds
    /\ UNCHANGED <<slots, nights, drafts, shown, plans>>

\* The row is written before anything is sent; its hash is unique.
Record ==
    /\ run.at = "record"
    /\ \/ /\ drafts' = Append(drafts, [category |-> run.category, text |-> run.text, published |-> FALSE])
          /\ run' = [run EXCEPT !.at = "send"] /\ UNCHANGED faults
       \/ Fault /\ RunEnds /\ UNCHANGED drafts
    /\ UNCHANGED <<slots, nights, shown, plans>>

\* publishPost: a call that fails may have been carried out.
SendPost ==
    /\ run.at = "send"
    /\ \/ /\ shown' = Append(shown, [category |-> run.category, text |-> run.text])
          /\ plans' = [plans EXCEPT !.posts = @ + 1]
          /\ \/ run' = [run EXCEPT !.at = "mark"] /\ UNCHANGED faults
             \/ Fault /\ RunEnds
       \/ Fault /\ RunEnds /\ UNCHANGED <<shown, plans>>
    /\ UNCHANGED <<slots, nights, drafts>>

\* publishedAt
MarkPublished ==
    /\ run.at = "mark" /\ RunEnds
    /\ \/ drafts' = [drafts EXCEPT ![Len(drafts)].published = TRUE] /\ UNCHANGED faults
       \/ Fault /\ UNCHANGED drafts
    /\ UNCHANGED <<slots, nights, shown, plans>>

\* scheduleDay for the next day; every time of the last has come by then.
Midnight ==
    /\ nights < MaxNights /\ slots = 0 /\ run.at = "idle" /\ nights' = nights + 1
    /\ Plan(FALSE) /\ plans' = [plans |-> 1, posts |-> 0]
    /\ UNCHANGED <<run, drafts, shown, faults>>

\* The process stops, and plans the rest of the day anew when it starts.
StopAndStart ==
    /\ Fault /\ RunEnds /\ Plan(TRUE) /\ plans' = [plans EXCEPT !.plans = @ + 1]
    /\ UNCHANGED <<nights, drafts, shown>>

PostsNext ==
    \/ Slot \/ Write \/ Record \/ SendPost \/ MarkPublished \/ Midnight \/ StopAndStart

PostsSpec == PostsInit /\ [][PostsNext]_postVars
-----------------------------------------------------------------------------
\* No text is shown twice, whatever fails: its row is there before it is.
NoTextTwice == \A m, n \in DOMAIN shown : m # n => shown[m].text # shown[n].text

\* Two posts in a row are of one category only after a fault.
CategoriesAlternate ==
    Cardinality({n \in DOMAIN shown : n > 1 /\ shown[n].category = shown[n - 1].category}) <= faults

\* Of two posts too near each other, the earlier is long gone from memory or its
\* publication was never noted, which takes a fault each time.
NearRepeatsNeedFaults ==
    /\ \A n \in DOMAIN drafts, m \in Published :
           m < n /\ {drafts[m].text, drafts[n].text} \in Akin =>
               Cardinality({k \in Published : m < k /\ k < n}) >= Recall
    /\ Cardinality(DOMAIN drafts \ Published) <= faults + (IF run.at \in {"send", "mark"} THEN 1 ELSE 0)

\* A day's posts: no more than one plan has, for each plan it had.
DayHasItsPosts == plans.posts <= MaxSlots * plans.plans

\* runner.ts, generator.ts: types; no text comes twice, categories and subjects
\* vary but for faults, and a day has no more posts than were planned.
PostsAreSound ==
    PostsTypeOK /\ NoTextTwice /\ CategoriesAlternate /\ NearRepeatsNeedFaults /\ DayHasItsPosts
=============================================================================
