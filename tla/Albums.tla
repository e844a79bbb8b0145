------------------------------- MODULE Albums -------------------------------
(* Albums (service/album.go, service/album_summary.go): the rows, the order of *)
(* the members, the cover, and the three queries that show them.  Requests run *)
(* in goroutines of their own; some check in one statement and write in a      *)
(* later one.                                                                  *)
EXTENDS Integers, FiniteSets, Sequences, SequencesExt, FiniteSetsExt

CONSTANTS
    AlbumIds,       \* a set 1..n
    Titles, NoTitle,
    Pics, NoPic,
    Companions,     \* the videos of Live Photos (is_live_photo_video = 1)
    Videos,         \* other videos
    Score,          \* aesthetic_score; 0 is NULL
    MaxAlbumActs, MaxPicEvents,
    AlbumRaces      \* may a request run between the check and the write of another

\* NULL is not an id, an empty title is refused, and a score is a number.
ASSUME AlbumConstants ==
    IsFiniteSet(Pics) /\ NoPic \notin Pics /\ NoTitle \notin Titles /\ Score \in [Pics -> Nat]

VARIABLES
    pic,        \* per asset: "shown", "trashed", "offline" or "gone"
    title,      \* per album: its name, or NoTitle
    pos,        \* per album and asset: the position of the album_assets row, or -1
    cover,      \* per album: cover_asset_id
    req,        \* the request between its check and its write
    albumActs, picEvents

abVars == <<pic, title, pos, cover, req, albumActs, picEvents>>

NoReq == [op |-> "none"]
NoMembers == [x \in Pics |-> -1]

AbInit ==
    /\ pic = [x \in Pics |-> "shown"]
    /\ title = [a \in AlbumIds |-> NoTitle] /\ pos = [a \in AlbumIds |-> NoMembers]
    /\ cover = [a \in AlbumIds |-> NoPic] /\ req = NoReq /\ albumActs = 0 /\ picEvents = 0

Made       == {a \in AlbumIds : title[a] # NoTitle}
MembersOf(a) == {x \in Pics : pos[a][x] >= 0}
AddedAfter(p) == Max({p[x] : x \in Pics}) + 1

-----------------------------------------------------------------------------
(* The reads.                                                                  *)

Visible(x) == pic[x] = "shown"

\* ListAssets: without companions (in the order of the positions, which are distinct).
ListAssets(a) == {x \in MembersOf(a) : Visible(x) /\ x \notin Companions}

\* List and Get: the chosen cover if it is a visible member, or else the visible
\* member with the best score, then the lowest position.
ShownCover(a) ==
    LET here == {x \in MembersOf(a) : Visible(x)} IN
    IF cover[a] \in here THEN cover[a]
    ELSE IF here = {} THEN NoPic
    ELSE CHOOSE x \in here : \A y \in here \ {x} : Score[y] < Score[x] \/ (Score[y] = Score[x] /\ pos[a][x] < pos[a][y])

\* List: the counts.
PhotoCount(a) == Cardinality({x \in MembersOf(a) : x \notin Companions /\ Visible(x) /\ x \notin Videos})
VideoCount(a) == Cardinality({x \in MembersOf(a) : x \notin Companions /\ Visible(x) /\ x \in Videos})

\* Mutant: the drive may be away.
SummaryOffline(a) ==
    LET in == {x \in MembersOf(a) : pic[x] # "trashed" /\ x \notin Companions} IN
    [assetCount |-> Cardinality(in), coverCandidates |-> {x \in in : x \notin Videos}]

\* Summary: the counts, and the cover candidates, which are photos (all three of the
\* first, the middle and the last in an album this small).
Summary(a) ==
    LET in == {x \in MembersOf(a) : pic[x] = "shown" /\ x \notin Companions} IN
    [assetCount |-> Cardinality(in), coverCandidates |-> {x \in in : x \notin Videos}]

-----------------------------------------------------------------------------
(* The requests.                                                               *)

AlbumAct == albumActs < MaxAlbumActs /\ albumActs' = albumActs + 1 /\ UNCHANGED <<pic, picEvents>>
Quiet    == AlbumRaces \/ req = NoReq

\* Create, UpdateName, UpdateCover and ReorderAssets: the check ...
CreateChecks(t) ==
    /\ AlbumAct /\ req = NoReq /\ \A a \in AlbumIds : title[a] # t
    /\ req' = [op |-> "create", t |-> t]
    /\ UNCHANGED <<title, pos, cover>>

UpdateNameChecks(a, t) ==
    /\ AlbumAct /\ req = NoReq /\ a \in Made /\ \A b \in AlbumIds \ {a} : title[b] # t
    /\ req' = [op |-> "rename", a |-> a, t |-> t]
    /\ UNCHANGED <<title, pos, cover>>

UpdateCoverChecks(a, x) ==
    /\ AlbumAct /\ req = NoReq /\ a \in Made /\ x \in MembersOf(a)
    /\ req' = [op |-> "cover", a |-> a, x |-> x]
    /\ UNCHANGED <<title, pos, cover>>

\* The order is a strict permutation of the members.
ReorderChecks(a, order) ==
    /\ AlbumAct /\ req = NoReq /\ a \in Made /\ order # <<>>
    /\ IsInjective(order) /\ ToSet(order) = MembersOf(a)
    /\ req' = [op |-> "reorder", a |-> a, order |-> order]
    /\ UNCHANGED <<title, pos, cover>>

ReqDone == req' = NoReq /\ UNCHANGED <<pic, albumActs, picEvents>>

\* ... and the write.
CreateAlbum ==
    /\ req.op = "create" /\ ReqDone
    /\ \E a \in AlbumIds \ Made : (\A b \in AlbumIds \ Made : a <= b) /\ title' = [title EXCEPT ![a] = req.t]
    /\ UNCHANGED <<pos, cover>>

UpdateName ==
    /\ req.op = "rename" /\ ReqDone
    /\ title' = IF req.a \in Made THEN [title EXCEPT ![req.a] = req.t] ELSE title
    /\ UNCHANGED <<pos, cover>>

\* The foreign key refuses an asset that is gone.
UpdateCover ==
    /\ req.op = "cover" /\ ReqDone
    /\ cover' = IF req.a \in Made /\ pic[req.x] # "gone" THEN [cover EXCEPT ![req.a] = req.x] ELSE cover
    /\ UNCHANGED <<title, pos>>

ReorderAssets ==
    /\ req.op = "reorder" /\ ReqDone
    /\ pos' = [pos EXCEPT ![req.a] = [x \in Pics |->
                    IF pos[req.a][x] = -1 THEN -1
                    ELSE IF \E i \in DOMAIN req.order : req.order[i] = x
                         THEN (CHOOSE i \in DOMAIN req.order : req.order[i] = x) - 1
                         ELSE pos[req.a][x]]]
    /\ UNCHANGED <<title, cover>>

NewIn(a, xs)       == {x \in ToSet(xs) : pos[a][x] = -1}
NamedBefore(xs, x) == {xs[i] : i \in {k \in DOMAIN xs : \A j \in 1..k : xs[j] # x}}

\* The rows of a batch: those that are new take the next positions in the order of xs.
Appended(a, xs, next) ==
    [pos EXCEPT ![a] = [x \in Pics |->
        IF x \in NewIn(a, xs) THEN next + Cardinality(NewIn(a, xs) \cap NamedBefore(xs, x)) ELSE pos[a][x]]]

\* Mutant: the next position is the number of members.
BatchAddCounts(a, xs) ==
    /\ AlbumAct /\ Quiet /\ a \in Made
    /\ \A i \in DOMAIN xs : pic[xs[i]] # "gone"
    /\ pos' = Appended(a, xs, Cardinality(MembersOf(a)))
    /\ UNCHANGED <<title, cover, req>>

\* AddAsset and BatchAddAssets: one transaction, INSERT OR IGNORE.  OR IGNORE does not
\* cover the foreign key: one asset that is gone fails the whole batch.
BatchAddAssets(a, xs) ==
    /\ AlbumAct /\ Quiet /\ a \in Made
    /\ \A i \in DOMAIN xs : pic[xs[i]] # "gone"
    /\ pos' = Appended(a, xs, AddedAfter(pos[a]))
    /\ UNCHANGED <<title, cover, req>>

\* Mutant: the cover column is left.
RemoveOnly(a, x) ==
    /\ AlbumAct /\ Quiet /\ x \in MembersOf(a)
    /\ pos' = [pos EXCEPT ![a][x] = -1]
    /\ UNCHANGED <<title, cover, req>>

RemoveAsset(a, x) ==
    /\ AlbumAct /\ Quiet /\ x \in MembersOf(a)
    /\ pos' = [pos EXCEPT ![a][x] = -1]
    /\ cover' = IF cover[a] = x THEN [cover EXCEPT ![a] = NoPic] ELSE cover
    /\ UNCHANGED <<title, req>>

DeleteAlbum(a) ==
    /\ AlbumAct /\ Quiet /\ a \in Made
    /\ title' = [title EXCEPT ![a] = NoTitle] /\ pos' = [pos EXCEPT ![a] = NoMembers] /\ cover' = [cover EXCEPT ![a] = NoPic]
    /\ UNCHANGED req

\* The trash, the drives and the purge.  A row that goes takes its memberships with
\* it (CASCADE) and its covers (SET NULL).
PicEvent(x, to) ==
    /\ picEvents < MaxPicEvents /\ picEvents' = picEvents + 1 /\ pic[x] \notin {"gone", to}
    /\ pic' = [pic EXCEPT ![x] = to]
    /\ IF to = "gone"
       THEN /\ pos' = [a \in AlbumIds |-> [pos[a] EXCEPT ![x] = -1]]
            /\ cover' = [a \in AlbumIds |-> IF cover[a] = x THEN NoPic ELSE cover[a]]
       ELSE UNCHANGED <<pos, cover>>
    /\ UNCHANGED <<title, req, albumActs>>

Batches == {<<x>> : x \in Pics} \cup {<<x, y>> : x, y \in Pics}

AbNext ==
    \/ \E t \in Titles : CreateChecks(t) \/ \E a \in AlbumIds : UpdateNameChecks(a, t)
    \/ \E a \in AlbumIds, x \in Pics : UpdateCoverChecks(a, x) \/ RemoveAsset(a, x)
    \/ \E a \in AlbumIds : \E order \in SetToSeqs(MembersOf(a)) : ReorderChecks(a, order)
    \/ CreateAlbum \/ UpdateName \/ UpdateCover \/ ReorderAssets
    \/ \E a \in AlbumIds, xs \in Batches : BatchAddAssets(a, xs)
    \/ \E a \in AlbumIds : DeleteAlbum(a)
    \/ \E x \in Pics, to \in {"shown", "trashed", "offline", "gone"} : PicEvent(x, to)

AbSpec == AbInit /\ [][AbNext]_abVars

-----------------------------------------------------------------------------

AbTypeOK ==
    /\ \A x \in Pics : pic[x] \in {"shown", "trashed", "offline", "gone"}
    /\ \A a \in AlbumIds : /\ title[a] \in Titles \cup {NoTitle} /\ cover[a] \in Pics \cup {NoPic}
                           /\ \A x \in Pics : pos[a][x] \in Int /\ pos[a][x] >= -1
    /\ req.op \in {"none", "create", "rename", "cover", "reorder"}

\* After any sequence of requests, also after photos were purged from the library, no
\* two members of an album share a position (its order would be up to the database),
\* no two albums a name, and a cover is a member of its album.
AlbumsSound ==
    /\ \A a \in AlbumIds : \A x, y \in MembersOf(a) : x # y => pos[a][x] # pos[a][y]
    /\ \A a, b \in Made : a # b => title[a] # title[b]
    /\ \A a \in AlbumIds : cover[a] # NoPic => cover[a] \in MembersOf(a)

\* What List, ListAssets and Summary say of an album agrees: the same number of
\* assets, cover candidates that are listed, a cover exactly when one can be shown.
ReadsAgree ==
    \A a \in Made :
        LET listed == ListAssets(a) IN
        /\ Cardinality(listed) = PhotoCount(a) + VideoCount(a)
        /\ Summary(a).assetCount = Cardinality(listed)
        /\ Summary(a).coverCandidates \subseteq listed
        /\ ShownCover(a) # NoPic => Visible(ShownCover(a))
        /\ listed # {} => ShownCover(a) # NoPic
=============================================================================
