------------------------------ MODULE Moments ------------------------------
(* Smart moments (service/moments*.go, momentstore.go): after every batch and  *)
(* once a day RecomputeAll asks the engine of each recipe for drafts and syncs *)
(* the stored moments with them; users pin, exclude and hide meanwhile.        *)
(* Modelled are the pets of the user, which replace the pets concept, the      *)
(* concept, and the trips, whose identity is the week of their first asset;    *)
(* titles (tryNameMoment) and the order of the list are left out.              *)
EXTENDS Integers, FiniteSets

CONSTANTS
    Shots,          \* assets, numbered from the best to the worst
    FirstWeek,      \* the assets of the first week
    NoShot,
    MinShots,       \* MinAssets, MinPhotos
    MaxMomentActs,
    MaxMishaps      \* assets and captions that change, and rounds without the ML service

ASSUME ShotsAreRanked == Shots \subseteq Nat /\ IsFiniteSet(Shots) /\ NoShot \notin Shots

VARIABLES
    shot,       \* per asset: "alive", "dead" (trashed or offline) or "purged"
    petHits,    \* the assets whose caption and vector say pet
    enabled,    \* the recipes that are enabled
    moment,     \* per moment id: the row
    member,     \* moment_assets: per moment and asset "no", or when it was added: "week", "old"
    changed,    \* moment_edits: per moment and asset "none", "pin" or "exclude"
    round,      \* RecomputeAll: step, recipes left, drafts of the first of them, were pets found
    momentActs, mishaps

moVars == <<shot, petHits, enabled, moment, member, changed, round, momentActs, mishaps>>
tally == <<momentActs, mishaps>>

Recipes == {"profile:pets", "theme:pets", "trip"}
\* ListRecipes: ORDER BY key.
FirstOf(todo) ==
    IF "profile:pets" \in todo THEN "profile:pets" ELSE IF "theme:pets" \in todo THEN "theme:pets" ELSE "trip"
MomentIds == {"pets", "concept", "trip1", "trip2"}
OfRecipe(recipe) == CASE recipe = "profile:pets" -> {"pets"} [] recipe = "theme:pets" -> {"concept"} [] recipe = "trip" -> {"trip1", "trip2"}

NoMoment == [here |-> FALSE, hidden |-> FALSE, cover |-> NoShot, count |-> 0]
NotMember == [x \in Shots |-> "no"]
NoChange == [x \in Shots |-> "none"]
Resting == [pc |-> "idle", todo |-> {}, drafts |-> {}, petsFound |-> FALSE]

MoInit ==
    /\ shot = [x \in Shots |-> "alive"] /\ petHits = Shots /\ enabled = Recipes
    /\ moment = [m \in MomentIds |-> NoMoment] /\ member = [m \in MomentIds |-> NotMember]
    /\ changed = [m \in MomentIds |-> NoChange] /\ round = Resting
    /\ momentActs = 0 /\ mishaps = 0

Alive == {x \in Shots : shot[x] = "alive"}      \* aliveAssetExpr, the candidate pool
MemberSet(m) == {x \in Shots : member[m][x] # "no"}
Pinned(m) == {x \in Shots : changed[m][x] = "pin"}
Excluded(m) == {x \in Shots : changed[m][x] = "exclude"}
Best(S) == IF S = {} THEN NoShot ELSE CHOOSE x \in S : \A y \in S : x <= y

-----------------------------------------------------------------------------
(* The engines: the drafts of a recipe, each an id and its assets.             *)

\* MinePetEntities: the edits count, so that pins make a pet and exclusions unmake it.
PetMatched == ((petHits \ Excluded("pets")) \cup Pinned("pets")) \cap Alive
PetDrafts == IF Cardinality(PetMatched) < MinShots THEN {} ELSE {[id |-> "pets", assets |-> petHits \cap Alive]}

ThemeDrafts == LET found == petHits \cap Alive IN
    IF Cardinality(found) < MinShots THEN {} ELSE {[id |-> "concept", assets |-> found]}

\* TripMomentID: one cluster here, known by the week it begins in.
TripId == IF Alive \cap FirstWeek # {} THEN "trip1" ELSE "trip2"
TripDrafts == IF Cardinality(Alive) < MinShots THEN {} ELSE {[id |-> TripId, assets |-> Alive]}

Drafts(recipe) ==
    CASE recipe = "profile:pets" -> PetDrafts [] recipe = "theme:pets" -> ThemeDrafts [] recipe = "trip" -> TripDrafts

-----------------------------------------------------------------------------
(* SyncRecipeMoments, one transaction.                                         *)

\* Mutant: the edits are not replayed.
DraftOnly(m, assets) == assets

\* What is left of the members: the draft's and the pinned, not the excluded.
Replayed(m, assets) == (assets \cup (Pinned(m) \cap Alive)) \ Excluded(m)

\* Mutant: the members are deleted and inserted again.
Reinserted(m, assets) == [x \in Shots |-> IF x \in assets THEN "week" ELSE "no"]

\* Members keep their added_at; the others get one now.
Stamped(m, assets) ==
    [x \in Shots |-> IF x \notin assets THEN "no" ELSE IF member[m][x] = "no" THEN "week" ELSE member[m][x]]

\* refreshMomentDerived: the cover stays while it is a member.
Derived(row, members) ==
    [row EXCEPT !.count = Cardinality(members), !.cover = IF @ \in members THEN @ ELSE Best(members)]

SyncedRow(m, assets) ==
    LET row == [moment[m] EXCEPT !.here = TRUE, !.cover = Best(assets), !.count = Cardinality(assets)]
    IN  IF changed[m] = NoChange THEN row ELSE Derived(row, Replayed(m, assets))

\* The DELETE takes members and edits with the row.
SyncRecipeMoments(recipe, drafts) ==
    LET ids == {d.id : d \in drafts}
        Assets(m) == (CHOOSE d \in drafts : d.id = m).assets
    IN  /\ moment' = [m \in MomentIds |-> IF m \in ids THEN SyncedRow(m, Assets(m))
                                          ELSE IF m \in OfRecipe(recipe) THEN NoMoment ELSE moment[m]]
        /\ member' = [m \in MomentIds |-> IF m \in ids THEN Stamped(m, Replayed(m, Assets(m)))
                                          ELSE IF m \in OfRecipe(recipe) THEN NotMember ELSE member[m]]
        /\ changed' = [m \in MomentIds |-> IF m \in OfRecipe(recipe) \ ids THEN NoChange ELSE changed[m]]

-----------------------------------------------------------------------------
(* RecomputeAll.                                                               *)

RecomputeStarts ==
    /\ round.pc = "idle"
    /\ round' = [Resting EXCEPT !.pc = "mine", !.todo = enabled]
    /\ UNCHANGED <<shot, petHits, enabled, moment, member, changed, tally>>

RecipesLeft == round.todo \ {FirstOf(round.todo)}

\* Mutant: the concept is not told that pets were found.
NextRecipeAlone(found) ==
    round' = [pc |-> IF RecipesLeft = {} THEN "idle" ELSE "mine",
              todo |-> RecipesLeft, drafts |-> {}, petsFound |-> FALSE]

NextRecipe(found) ==
    round' = [pc |-> IF RecipesLeft = {} THEN "idle" ELSE "mine",
              todo |-> RecipesLeft, drafts |-> {},
              petsFound |-> RecipesLeft # {} /\ (round.petsFound \/ found)]

\* The drafts are built from what is there now.  When pets were found, the concept is
\* synced with no draft, without asking the engine.
MineRecipe ==
    /\ round.pc = "mine"
    /\ round' = [round EXCEPT !.pc = "sync",
                              !.drafts = IF FirstOf(round.todo) = "theme:pets" /\ round.petsFound THEN {} ELSE Drafts(FirstOf(round.todo))]
    /\ UNCHANGED <<shot, petHits, enabled, moment, member, changed, tally>>

\* An engine that needs the ML service fails while it is away: the old moments stay.
MineFails ==
    /\ round.pc = "mine" /\ mishaps < MaxMishaps /\ mishaps' = mishaps + 1
    /\ FirstOf(round.todo) = "profile:pets" \/ (FirstOf(round.todo) = "theme:pets" /\ ~round.petsFound)
    /\ NextRecipe(FALSE)
    /\ UNCHANGED <<shot, petHits, enabled, moment, member, changed, momentActs>>

\* A draft with an asset that was purged since breaks a foreign key: the recipe is
\* skipped and the old moments stay.
SyncRecipe ==
    LET recipe == FirstOf(round.todo)
        broken == \E d \in round.drafts : \E x \in d.assets : shot[x] = "purged"
    IN
    /\ round.pc = "sync"
    /\ IF broken THEN UNCHANGED <<moment, member, changed>> ELSE SyncRecipeMoments(recipe, round.drafts)
    /\ NextRecipe(~broken /\ recipe = "profile:pets" /\ round.drafts # {})
    /\ UNCHANGED <<shot, petHits, enabled, tally>>

-----------------------------------------------------------------------------
(* Requests.  They find a moment only while it is listed: there and not hidden. *)

MomentAct(m) ==
    /\ momentActs < MaxMomentActs /\ momentActs' = momentActs + 1
    /\ moment[m].here /\ ~moment[m].hidden
    /\ UNCHANGED <<shot, petHits, enabled, round, mishaps>>

\* An asset that is not alive gets the edit and becomes a member when it is back.
PinMomentAssets(m, x) ==
    /\ MomentAct(m) /\ shot[x] # "purged" /\ changed[m][x] # "pin"
    /\ changed' = [changed EXCEPT ![m][x] = "pin"]
    /\ IF x \in Alive \ MemberSet(m)
       THEN /\ member' = [member EXCEPT ![m][x] = "week"]
            /\ moment' = [moment EXCEPT ![m] = Derived(@, MemberSet(m) \cup {x})]
       ELSE UNCHANGED <<member, moment>>

\* Mutant: the cover and the count are left alone.
ExcludeMembersOnly(m, x) ==
    /\ MomentAct(m) /\ shot[x] # "purged" /\ changed[m][x] # "exclude"
    /\ changed' = [changed EXCEPT ![m][x] = "exclude"] /\ member' = [member EXCEPT ![m][x] = "no"]
    /\ UNCHANGED moment

ExcludeMomentAssets(m, x) ==
    /\ MomentAct(m) /\ shot[x] # "purged" /\ changed[m][x] # "exclude"
    /\ changed' = [changed EXCEPT ![m][x] = "exclude"]
    /\ member' = [member EXCEPT ![m][x] = "no"]
    /\ moment' = IF x \in MemberSet(m) THEN [moment EXCEPT ![m] = Derived(@, MemberSet(m) \ {x})] ELSE moment

HideMoment(m) ==
    /\ MomentAct(m)
    /\ moment' = [moment EXCEPT ![m].hidden = TRUE]
    /\ UNCHANGED <<member, changed>>

\* UpsertRecipes; the route takes trips and themes only.
UpsertRecipes(recipe) ==
    /\ momentActs < MaxMomentActs /\ momentActs' = momentActs + 1
    /\ enabled' = IF recipe \in enabled THEN enabled \ {recipe} ELSE enabled \cup {recipe}
    /\ UNCHANGED <<shot, petHits, moment, member, changed, round, mishaps>>

\* Trash, drives, purge (with its cascades; a cover has no foreign key).
ShotEvent(x, to) ==
    /\ mishaps < MaxMishaps /\ mishaps' = mishaps + 1 /\ shot[x] \notin {"purged", to}
    /\ shot' = [shot EXCEPT ![x] = to]
    /\ IF to = "purged"
       THEN /\ member' = [m \in MomentIds |-> [member[m] EXCEPT ![x] = "no"]]
            /\ changed' = [m \in MomentIds |-> [changed[m] EXCEPT ![x] = "none"]]
       ELSE UNCHANGED <<member, changed>>
    /\ UNCHANGED <<petHits, enabled, moment, round, momentActs>>

HitsChanges(x) ==
    /\ mishaps < MaxMishaps /\ mishaps' = mishaps + 1
    /\ petHits' = IF x \in petHits THEN petHits \ {x} ELSE petHits \cup {x}
    /\ UNCHANGED <<shot, enabled, moment, member, changed, round, momentActs>>

WeekPasses ==
    /\ round.pc = "idle" /\ \E m \in MomentIds, x \in Shots : member[m][x] = "week"
    /\ member' = [m \in MomentIds |-> [x \in Shots |-> IF member[m][x] = "week" THEN "old" ELSE member[m][x]]]
    /\ UNCHANGED <<shot, petHits, enabled, moment, changed, round, tally>>

MoRuns == RecomputeStarts \/ MineRecipe \/ MineFails \/ SyncRecipe

MoNext ==
    \/ MoRuns
    \/ \E m \in MomentIds, x \in Shots : PinMomentAssets(m, x) \/ ExcludeMomentAssets(m, x)
    \/ \E m \in MomentIds : HideMoment(m)
    \/ \E recipe \in {"theme:pets", "trip"} : UpsertRecipes(recipe)
    \/ \E x \in Shots, to \in {"alive", "dead", "purged"} : ShotEvent(x, to)
    \/ \E x \in Shots : HitsChanges(x)
    \/ WeekPasses

MoSpec == MoInit /\ [][MoNext]_moVars /\ WF_moVars(MoRuns)

-----------------------------------------------------------------------------

MoTypeOK ==
    /\ \A x \in Shots : shot[x] \in {"alive", "dead", "purged"}
    /\ \A m \in MomentIds, x \in Shots : member[m][x] \in {"no", "week", "old"} /\ changed[m][x] \in {"none", "pin", "exclude"}
    /\ \A m \in MomentIds : moment[m].cover \in Shots \cup {NoShot} /\ moment[m].count \in 0..Cardinality(Shots)
    /\ round.pc \in {"idle", "mine", "sync"} /\ enabled \subseteq Recipes

\* No recompute and no edit, in whatever order, shows an excluded asset in the moment or
\* a cover that is not one of its members (or was purged since).
EditsRespected ==
    \A m \in MomentIds :
        /\ MemberSet(m) \cap Excluded(m) = {}
        /\ moment[m].here => \/ moment[m].cover \in MemberSet(m)
                             \/ IF moment[m].cover = NoShot THEN MemberSet(m) = {} ELSE shot[moment[m].cover] = "purged"

\* A member that has been there keeps its added_at: a recompute never makes it look
\* added this week ("the false-freshness trap", momentstore.go:547).
AddedAtKept == [][\A m \in MomentIds, x \in Shots : member[m][x] = "old" => member'[m][x] # "week"]_moVars

\* While batches keep ending and the ML service answers, the moments in the end are what
\* the recipes ask for, with the edits of the user, and pets of the user replace the
\* concept.
SettledTo(m, is, assets) ==
    /\ moment[m].here <=> is
    /\ is => /\ MemberSet(m) = Replayed(m, assets) /\ moment[m].count = Cardinality(MemberSet(m))
             /\ moment[m].cover = NoShot <=> MemberSet(m) = {}
             /\ moment[m].cover # NoShot => moment[m].cover \in MemberSet(m)

MomentsSettled ==
    /\ SettledTo("pets", PetDrafts # {}, petHits \cap Alive)
    /\ "theme:pets" \in enabled => SettledTo("concept", PetDrafts = {} /\ ThemeDrafts # {}, petHits \cap Alive)
    /\ "trip" \in enabled => \A m \in OfRecipe("trip") : SettledTo(m, TripDrafts # {} /\ m = TripId, Alive)
MomentsSettle == <>[]MomentsSettled
=============================================================================
