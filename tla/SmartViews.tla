----------------------------- MODULE SmartViews -----------------------------
(* Smart views (service/smartview.go): Evaluate reconciles the stored matches  *)
(* with what the conditions match now, after every batch for a live view and   *)
(* at some requests; users pin, remove and restore members; a view and an      *)
(* album are converted into each other.  The conditions (ParseConditions,      *)
(* SmartSearch) are reduced to the set of assets they match.                   *)
EXTENDS Integers, FiniteSets

CONSTANTS
    Items,
    Matching,       \* the assets the conditions match at first
    MaxViewActs, MaxItemEvents, MaxViewRestarts,
    PinInEval,      \* may members be pinned or removed between an evaluation's read and write
    AddInConvert    \* may members be edited while a view or an album is converted

ASSUME MatchesAreItems == Matching \subseteq Items

VARIABLES
    item,       \* per asset: "shown", "trashed", "offline" or "gone"
    hits,       \* the assets the conditions match, whatever their state
    view,       \* the smart_views row: does it exist, is it live
    rows,       \* smart_view_matches: per asset "none", "auto", "pinned" or "excluded"
    album,      \* the album it is converted from and to: does it exist, its members
    eval,       \* per evaluator: step, the assets to keep, the rows it read
    conv,       \* the conversion: step, and the members it read
    placed,     \* ghost: what the user pinned or put in the album, and did not take out
    refused,    \* ghost: what the user excluded from the view
    viewActs, itemEvents, viewRestarts

svVars == <<item, hits, view, rows, album, eval, conv, placed, refused, viewActs, itemEvents, viewRestarts>>
asked  == <<placed, refused, viewActs, itemEvents, viewRestarts>>

Evaluators == {"batch", "request"}
NoEval == [pc |-> "idle", keep |-> {}, existing |-> [x \in Items |-> "none"]]
NoConv == [pc |-> "idle", members |-> {}]
NoRows == [x \in Items |-> "none"]

SvInit ==
    /\ item = [x \in Items |-> "shown"] /\ hits = Matching
    /\ view = [here |-> TRUE, live |-> TRUE] /\ rows = NoRows
    /\ album = [here |-> FALSE, members |-> {}]
    /\ eval = [e \in Evaluators |-> NoEval] /\ conv = NoConv
    /\ placed = {} /\ refused = {} /\ viewActs = 0 /\ itemEvents = 0 /\ viewRestarts = 0

Evaluates(e) == eval' = [eval EXCEPT ![e] = [NoEval EXCEPT !.pc = "match"]]

-----------------------------------------------------------------------------
(* Evaluate.                                                                   *)

\* EvaluateAllLive, from the end of a batch.
EvaluateAllLive ==
    /\ eval["batch"].pc = "idle" /\ view.here /\ view.live
    /\ Evaluates("batch")
    /\ UNCHANGED <<item, hits, view, rows, album, conv, asked>>

\* evalParsed: neither trashed nor offline.
EvalMatches(e) ==
    /\ eval[e].pc = "match"
    /\ eval' = [eval EXCEPT ![e].pc = "read", ![e].keep = {x \in hits : item[x] = "shown"}]
    /\ UNCHANGED <<item, hits, view, rows, album, conv, asked>>

\* The origins of the rows there are, outside the transaction.
EvalReads(e) ==
    /\ eval[e].pc = "read"
    /\ eval' = [eval EXCEPT ![e].pc = "write", ![e].existing = rows]
    /\ UNCHANGED <<item, hits, view, rows, album, conv, asked>>

\* What the transaction leaves: new matches come, auto rows that no longer match go.
Reconciled(keep, existing) ==
    [x \in Items |->
        IF x \in keep /\ existing[x] = "none" THEN "auto"
        ELSE IF x \notin keep /\ existing[x] = "auto" THEN "none"
        ELSE rows[x]]

\* Mutant: a recompute also takes the rows that users placed.
EvalWritesAll(e) ==
    /\ eval[e].pc = "write" /\ eval' = [eval EXCEPT ![e] = NoEval]
    /\ rows' = [x \in Items |-> IF x \in eval[e].keep THEN "auto" ELSE "none"]
    /\ UNCHANGED <<item, hits, view, album, conv, asked>>

\* Mutant: matches come and never go.
EvalWritesAdds(e) ==
    /\ eval[e].pc = "write" /\ eval' = [eval EXCEPT ![e] = NoEval]
    /\ rows' = [x \in Items |-> IF rows[x] = "none" /\ x \in eval[e].keep /\ item[x] # "gone" THEN "auto" ELSE rows[x]]
    /\ UNCHANGED <<item, hits, view, album, conv, asked>>

\* The INSERT fails, and the transaction with it, when a row appeared meanwhile, or
\* the asset went.
Fits(e) == \A x \in eval[e].keep : eval[e].existing[x] = "none" => rows[x] = "none" /\ item[x] # "gone"

\* An evaluation that fails is only logged, but it ends a conversion from an album.
EvalWrites(e) ==
    /\ eval[e].pc = "write" /\ eval' = [eval EXCEPT ![e] = NoEval]
    /\ rows' = IF Fits(e) THEN Reconciled(eval[e].keep, eval[e].existing) ELSE rows
    /\ conv' = IF e = "request" /\ conv.pc = "from_delete" /\ ~Fits(e) THEN [conv EXCEPT !.pc = "from_undo"] ELSE conv
    /\ UNCHANGED <<item, hits, view, album, asked>>

-----------------------------------------------------------------------------
(* Requests on the view.  A request runs its evaluation before it returns.     *)

ViewAct ==
    /\ viewActs < MaxViewActs /\ viewActs' = viewActs + 1
    /\ view.here /\ eval["request"].pc = "idle"
    /\ PinInEval \/ eval["batch"].pc # "write"
    /\ AddInConvert \/ conv.pc = "idle"
    /\ UNCHANGED <<item, hits, album, conv, itemEvents, viewRestarts>>

PinAssets(x) ==
    /\ ViewAct /\ item[x] \in {"shown", "offline"} /\ rows[x] # "pinned"
    /\ rows' = [rows EXCEPT ![x] = "pinned"]
    /\ placed' = placed \cup {x} /\ refused' = refused \ {x}
    /\ UNCHANGED <<view, eval>>

\* A pinned row is deleted and may come back as a match; an auto row is excluded.
RemoveAssets(x) ==
    /\ ViewAct /\ rows[x] \in {"pinned", "auto"}
    /\ rows' = [rows EXCEPT ![x] = IF rows[x] = "pinned" THEN "none" ELSE "excluded"]
    /\ placed' = placed \ {x} /\ refused' = IF rows[x] = "auto" THEN refused \cup {x} ELSE refused
    /\ IF rows[x] = "pinned" /\ view.live THEN Evaluates("request") ELSE UNCHANGED eval
    /\ UNCHANGED view

RestoreAssets(x) ==
    /\ ViewAct /\ rows[x] = "excluded"
    /\ rows' = [rows EXCEPT ![x] = "none"] /\ refused' = refused \ {x}
    /\ IF view.live THEN Evaluates("request") ELSE UNCHANGED eval
    /\ UNCHANGED <<view, placed>>

\* Pause, resume, or other conditions.
Update(live) ==
    /\ ViewAct
    /\ view' = [view EXCEPT !.live = live] /\ Evaluates("request")
    /\ UNCHANGED <<rows, placed, refused>>

-----------------------------------------------------------------------------
(* Conversions: create the new one, then delete the old one.                   *)

\* ConvertFromAlbum: the new row ...
FromAlbumStarts ==
    /\ conv = NoConv /\ album.here /\ ~view.here /\ eval["request"].pc = "idle"
    /\ viewActs < MaxViewActs /\ viewActs' = viewActs + 1
    /\ view' = [here |-> TRUE, live |-> TRUE] /\ rows' = NoRows
    /\ conv' = [pc |-> "from_pin", members |-> album.members]
    /\ UNCHANGED <<item, hits, album, eval, placed, refused, itemEvents, viewRestarts>>

\* ... its members pinned, and Evaluate; PinAssets skips what is trashed or gone.
FromAlbumPins ==
    /\ conv.pc = "from_pin" /\ (PinInEval \/ eval["batch"].pc # "write")
    /\ rows' = [x \in Items |-> IF x \in conv.members /\ item[x] \in {"shown", "offline"} THEN "pinned" ELSE rows[x]]
    /\ Evaluates("request")
    /\ conv' = [conv EXCEPT !.pc = "from_delete"]
    /\ placed' = {x \in placed : item[x] \in {"shown", "offline"}}
    /\ UNCHANGED <<item, hits, view, album, refused, viewActs, itemEvents, viewRestarts>>

FromAlbumDeletes ==
    /\ conv.pc = "from_delete" /\ eval["request"].pc = "idle"
    /\ album' = [here |-> FALSE, members |-> {}] /\ conv' = NoConv
    /\ UNCHANGED <<item, hits, view, rows, eval, asked>>

\* Pinning, the evaluation (a search may call the model server) or the deletion of the
\* album fails.
FromAlbumFails ==
    /\ conv.pc \in {"from_pin", "from_delete"}
    /\ conv' = [conv EXCEPT !.pc = "from_undo"] /\ eval' = [eval EXCEPT !["request"] = NoEval]
    /\ UNCHANGED <<item, hits, view, rows, album, asked>>

\* The view and its rows.
ViewGone ==
    /\ view' = [here |-> FALSE, live |-> FALSE] /\ rows' = NoRows /\ refused' = {}
    /\ eval' = [e \in Evaluators |-> NoEval]     \* an evaluation of it finds no row

\* Mutant: a failed conversion cleans up the album instead of the new view.
FromAlbumUndoesWrong ==
    /\ conv.pc = "from_undo" /\ conv' = NoConv
    /\ ViewGone /\ album' = [here |-> FALSE, members |-> {}]
    /\ UNCHANGED <<item, hits, placed, viewActs, itemEvents, viewRestarts>>

\* compensateDeleteSV: the album stays and the new view goes, unless that fails, too.
FromAlbumUndoes ==
    /\ conv.pc = "from_undo" /\ conv' = NoConv
    /\ ViewGone \/ UNCHANGED <<view, rows, refused, eval>>
    /\ UNCHANGED <<item, hits, album, placed, viewActs, itemEvents, viewRestarts>>

\* Mutant: the filter of the read path, which also hides what is offline.
ToAlbumVisible ==
    /\ conv = NoConv /\ view.here /\ ~album.here
    /\ viewActs < MaxViewActs /\ viewActs' = viewActs + 1
    /\ album' = [here |-> TRUE, members |-> {}]
    /\ conv' = [pc |-> "to_add", members |-> {x \in Items : rows[x] \in {"auto", "pinned"} /\ item[x] = "shown"}]
    /\ placed' = {x \in placed : item[x] \in {"shown", "offline"}}
    /\ UNCHANGED <<item, hits, view, rows, eval, refused, itemEvents, viewRestarts>>

\* ConvertToAlbum: the new album, and the members as they are now; not what is
\* trashed, but also what is offline.
ToAlbumStarts ==
    /\ conv = NoConv /\ view.here /\ ~album.here
    /\ viewActs < MaxViewActs /\ viewActs' = viewActs + 1
    /\ album' = [here |-> TRUE, members |-> {}]
    /\ conv' = [pc |-> "to_add", members |-> {x \in Items : rows[x] \in {"auto", "pinned"} /\ item[x] \in {"shown", "offline"}}]
    /\ placed' = {x \in placed : item[x] \in {"shown", "offline"}}
    /\ UNCHANGED <<item, hits, view, rows, eval, refused, itemEvents, viewRestarts>>

\* BatchAddAssets; one member that is gone fails it, and the album is deleted again.
ToAlbumAdds ==
    /\ conv.pc = "to_add"
    /\ IF \E x \in conv.members : item[x] = "gone"
       THEN album' = [here |-> FALSE, members |-> {}] /\ conv' = NoConv
       ELSE album' = [album EXCEPT !.members = @ \cup conv.members] /\ conv' = [conv EXCEPT !.pc = "to_delete"]
    /\ UNCHANGED <<item, hits, view, rows, eval, asked>>

\* The query, the INSERT or the deletion of the view fails; compensateDeleteAlbum.
ToAlbumFails ==
    /\ conv.pc \in {"to_add", "to_delete"} /\ conv' = NoConv
    /\ album' = [here |-> FALSE, members |-> {}] \/ UNCHANGED album
    /\ UNCHANGED <<item, hits, view, rows, eval, asked>>

ToAlbumDeletes ==
    /\ conv.pc = "to_delete" /\ conv' = NoConv
    /\ ViewGone
    /\ UNCHANGED <<item, hits, album, placed, viewActs, itemEvents, viewRestarts>>

\* Albums are edited, too.
AlbumAdds(x) ==
    /\ album.here /\ viewActs < MaxViewActs /\ viewActs' = viewActs + 1
    /\ AddInConvert \/ conv.pc = "idle"
    /\ item[x] \in {"shown", "offline"} /\ x \notin album.members
    /\ album' = [album EXCEPT !.members = @ \cup {x}]
    /\ placed' = placed \cup {x}
    /\ UNCHANGED <<item, hits, view, rows, eval, conv, refused, itemEvents, viewRestarts>>

-----------------------------------------------------------------------------

\* The trash, the drives, the purge (with its cascades), and what indexing finds.
ItemEvent(x, to) ==
    /\ itemEvents < MaxItemEvents /\ itemEvents' = itemEvents + 1 /\ item[x] \notin {"gone", to}
    /\ item' = [item EXCEPT ![x] = to]
    /\ IF to = "gone"
       THEN /\ rows' = [rows EXCEPT ![x] = "none"] /\ album' = [album EXCEPT !.members = @ \ {x}]
            /\ placed' = placed \ {x} /\ refused' = refused \ {x}
       ELSE UNCHANGED <<rows, album, placed, refused>>
    /\ UNCHANGED <<hits, view, eval, conv, viewActs, viewRestarts>>

HitsChange(x) ==
    /\ itemEvents < MaxItemEvents /\ itemEvents' = itemEvents + 1
    /\ hits' = IF x \in hits THEN hits \ {x} ELSE hits \cup {x}
    /\ UNCHANGED <<item, view, rows, album, eval, conv, placed, refused, viewActs, viewRestarts>>

ViewRestart ==
    /\ viewRestarts < MaxViewRestarts /\ viewRestarts' = viewRestarts + 1
    /\ eval' = [e \in Evaluators |-> NoEval] /\ conv' = NoConv
    /\ UNCHANGED <<item, hits, view, rows, album, placed, refused, viewActs, itemEvents>>

SvRuns(g) ==
    \/ g = "live"    /\ (EvaluateAllLive \/ EvalMatches("batch") \/ EvalReads("batch") \/ EvalWrites("batch"))
    \/ g = "request" /\ (EvalMatches("request") \/ EvalReads("request") \/ EvalWrites("request"))
    \/ g = "convert" /\ (FromAlbumPins \/ FromAlbumDeletes \/ FromAlbumUndoes \/ ToAlbumAdds \/ ToAlbumDeletes)

SvGoroutines == {"live", "request", "convert"}

SvNext ==
    \/ \E g \in SvGoroutines : SvRuns(g)
    \/ FromAlbumStarts \/ FromAlbumFails \/ ToAlbumStarts \/ ToAlbumFails
    \/ \E x \in Items : PinAssets(x) \/ RemoveAssets(x) \/ RestoreAssets(x) \/ AlbumAdds(x) \/ HitsChange(x)
    \/ \E live \in BOOLEAN : Update(live)
    \/ \E x \in Items, to \in {"shown", "trashed", "offline", "gone"} : ItemEvent(x, to)
    \/ ViewRestart

SvSpec == SvInit /\ [][SvNext]_svVars /\ \A g \in SvGoroutines : WF_svVars(SvRuns(g))

-----------------------------------------------------------------------------

SvTypeOK ==
    /\ \A x \in Items : rows[x] \in {"none", "auto", "pinned", "excluded"} /\ item[x] \in {"shown", "trashed", "offline", "gone"}
    /\ \A e \in Evaluators : eval[e].pc \in {"idle", "match", "read", "write"} /\ eval[e].keep \subseteq Items
    /\ conv.pc \in {"idle", "from_pin", "from_delete", "from_undo", "to_add", "to_delete"} /\ conv.members \subseteq Items
    /\ album.members \subseteq Items /\ placed \subseteq Items /\ refused \subseteq Items

\* Evaluations never undo the user: what is excluded stays excluded ("only the user
\* can move a pinned/excluded row", smartview.go:612).
ExclusionsStay == \A x \in refused : rows[x] = "excluded"

\* A photo the user placed is never lost, through any number of conversions, crashes
\* between their steps and evaluations: it is in the album or pinned (or, once it was
\* an album, a member) of the view.
PlacedIsKept == \A x \in placed : x \in album.members \/ rows[x] \in {"pinned", "auto"}

\* While batches keep ending, a live view in the end shows what matches, plus the
\* pinned and without the excluded.
ViewSettled ==
    view.here /\ view.live =>
        \A x \in Items : rows[x] \in {"none", "auto"} => (rows[x] = "auto" <=> x \in hits /\ item[x] = "shown")
ViewSettles == <>[]ViewSettled
=============================================================================
