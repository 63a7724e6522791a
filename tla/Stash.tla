------------------------------- MODULE Stash -------------------------------
(***************************************************************************)
(* The file-first Stash pass of stash/processing: after a creator is       *)
(* downloaded, Stash scans the folder, and each file is adjudicated to the *)
(* scene (or image) that holds it.  Files that are primary of a scene are  *)
(* stamped in place, files that Stash merged into somebody else's scene    *)
(* are split off into a new one, one gallery is composed per post or       *)
(* message, everything is flushed by one save_all, and only then is        *)
(* media.stash_id written to the metadata database.                        *)
(*                                                                         *)
(* The passes follow one another: the main program awaits the background   *)
(* task of a creator before the next creator, the daemon's worker awaits   *)
(* its pass.  They share one cached StashContext (config/fanslyconfig.py)  *)
(* and the media, so what a pass leaves behind meets the next one.  The    *)
(* Stash server and its client library (stash_graphql_client) are outside  *)
(* src/ and modelled by what the processing code makes of them.            *)
(*                                                                         *)
(* What is stamped (title, date, performers, tags) is left out: a stamp is *)
(* one write of an object in the store.                                    *)
(***************************************************************************)
EXTENDS Integers, FiniteSets

CONSTANTS
    Files,          \* the downloaded files
    Pictures,       \* those that are images: Stash cannot split an Image
    Items,          \* the posts and messages
    Media,          \* [Items -> SUBSET Files]: their files, aggregated posts included
    Title,          \* [Items -> titles]: what a gallery is titled and dated
    Creators,       \* a set of sets of items: what each creator published
    MaxMoves        \* bound: rearrangements by Stash, faults and crashes

ASSUME StashAssumption ==
    /\ Pictures \subseteq Files
    /\ Media \in [Items -> SUBSET Files] /\ DOMAIN Title = Items
    /\ Creators \subseteq SUBSET Items
    /\ MaxMoves \in Nat

VARIABLES
    split,      \* config.stash_enable_scene_split is True
    place,      \* where the server has a file
    scenes,     \* how many own scenes a file was ever given
    onServer,    \* the <<file, scene>> whose metadata is on the server
    galleries,  \* the items the server has a gallery coded for
    linked,     \* the <<gallery, file, scene>> linked on the server
    seen,       \* the store's cached file objects
    dirty,      \* the stamped <<file, scene>> in the store, to be flushed
    pending,    \* the files for which the store holds a scene to be created
    doubtful,   \* those whose file Stash has moved since the decision
    tied,       \* the <<gallery, file>> links in the store, to be flushed
    mem,        \* media.stash_id in memory
    stored,     \* media.stash_id in the metadata database
    pass,       \* the pass that is under way
    moves       \* counts rearrangements, faults and crashes

serverVars == <<place, scenes, onServer, galleries, linked>>
cacheVars  == <<dirty, pending, doubtful, tied>>
stashVars  == <<split, serverVars, seen, cacheVars, mem, stored, pass, moves>>

NoId      == -1
Foreign   == 0                      \* a scene of another source
MaxScenes == MaxMoves + 1           \* a file is split once per rearrangement
Place     == [host : Foreign .. MaxScenes, primary : BOOLEAN]
Nowhere   == [host |-> NoId, primary |-> FALSE]         \* not in Stash
Aside     == [host |-> Foreign, primary |-> FALSE]      \* merged into Foreign
Own(n)    == [host |-> n, primary |-> TRUE]

Resting == [at |-> "idle", items |-> {}, known |-> {}, leaves |-> {}, ids |-> {},
            pairs |-> {}, compose |-> {}, missed |-> {}, bare |-> {}, moved |-> {}]
Phases  == {"idle", "known", "sweep", "compose", "flushed"}

\* _build_media_index: the files of the posts and messages at hand.
Index(items)  == UNION {Media[i] : i \in items}
ItemsOf(r, f) == {i \in r.items : f \in Media[i]}

-----------------------------------------------------------------------------
\* metadata_scan and the settling wait: Stash gives a new file a scene of its
\* own or adds it to one with the same pHash; the index may still lag behind.
Scanned(F) ==
    {p \in [Files -> Place \union {Nowhere}] :
        \A f \in Files :
            p[f] \in IF f \in F /\ place[f] = Nowhere THEN {Nowhere, Aside, Own(1)}
                     ELSE {place[f]}}

\* start_creator_processing, or process_creator_incremental of the daemon.
Start(items) ==
    /\ pass = Resting
    /\ \E p \in Scanned(Index(items)) :
          /\ place' = p
          /\ scenes' = [f \in Files |-> IF p[f].host > scenes[f] THEN p[f].host ELSE scenes[f]]
    /\ pass' = [Resting EXCEPT !.at = "known", !.items = items, !.leaves = Index(items),
                               !.known = {f \in Index(items) : mem[f] # NoId}]
    /\ UNCHANGED <<split, onServer, galleries, linked, seen, cacheVars, mem, stored, moves>>

\* _accumulate_entities: the file's scene goes to every item that owns it.
OwnersOf(r, f) == ItemsOf(r, f)
Accumulated(r, f, split_) ==
    [r EXCEPT !.compose = @ \union {<<i, f>> : i \in OwnersOf(r, f)},
              !.pairs = IF split_ THEN @ \union {f} ELSE @,
              !.ids = @ \union {f}]

\* _stamp_metadata on a scene that stays where it is; its id is recorded.
Stamp(f, n, r) ==
    /\ dirty' = dirty \union {<<f, n>>}
    /\ mem' = [mem EXCEPT ![f] = n]
    /\ pass' = Accumulated(r, f, FALSE)
    /\ UNCHANGED <<pending, doubtful, tied>>

\* _split_scene_for_file: a scene with a temporary id, created by the flush.
SplitRecordedAtOnce(f, r) ==
    /\ pending' = pending \union {f} /\ doubtful' = doubtful \ {f}
    /\ mem' = [mem EXCEPT ![f] = scenes[f] + 1]
    /\ pass' = Accumulated(r, f, TRUE)
    /\ UNCHANGED <<dirty, tied>>
Split(f, r) ==
    /\ pending' = pending \union {f} /\ doubtful' = doubtful \ {f}
    /\ pass' = Accumulated(r, f, TRUE)
    /\ UNCHANGED <<dirty, tied, mem>>

LeaveAlone(r) == pass' = r /\ UNCHANGED <<cacheVars, mem>>

\* Faulty variant: the split is decided without the re-read.
MaySplitUnchecked(f) == split /\ f \notin Pictures

\* _adjudicate_not_owned: the split is decided on a forced re-read.
MaySplit(f) == split /\ f \notin Pictures /\ ~place[f].primary

NotOwned(f, done, skipped) ==
    IF MaySplit(f) THEN Split(f, done) ELSE LeaveAlone(skipped)

\* Faulty variant: whatever the fast path has looked at counts as handled.
HandledAlways(r, f, handled) == [r EXCEPT !.known = @ \ {f}, !.leaves = @ \ {f}]

\* What the fast path drops from the index before the sweep.
Handled(r, f, handled) ==
    [r EXCEPT !.known = @ \ {f}, !.leaves = IF handled THEN @ \ {f} ELSE @]

\* _process_media_fast_path: the stored id is looked up afresh; the file is
\* still its primary, or was demoted in it, or is not there any more.
FastPath(f) ==
    /\ pass.at = "known" /\ f \in pass.known
    /\ LET found == mem[f] = place[f].host
           gone  == Handled(pass, f, TRUE)
           left  == Handled(pass, f, FALSE)
       IN  \/ found /\ place[f].primary /\ Stamp(f, mem[f], gone)
           \/ found /\ ~place[f].primary /\ NotOwned(f, gone, left)
           \/ ~found /\ LeaveAlone(left)
    /\ UNCHANGED <<split, serverVars, seen, stored, moves>>

\* The sweep's find_iter reads a page of files ahead of their adjudication;
\* the daemon finds one file at a time by its basename.
Read(f) ==
    /\ \/ pass.at = "sweep"
       \/ pass.at = "known" /\ pass.known = {}
    /\ f \in pass.leaves /\ seen[f] = Nowhere /\ place[f] # Nowhere
    /\ seen' = [seen EXCEPT ![f] = place[f]]
    /\ pass' = [pass EXCEPT !.at = "sweep"]
    /\ UNCHANGED <<split, serverVars, cacheVars, mem, stored, moves>>

\* _adjudicate_image reads its image again; _owned_scene trusts what was read.
Judged(f) == IF f \in Pictures THEN place[f] ELSE seen[f]

\* _process_file_first: stamped where our file is primary.
Adjudicate(f) ==
    /\ pass.at = "sweep" /\ f \in pass.leaves /\ seen[f] # Nowhere
    /\ LET r == [pass EXCEPT !.leaves = @ \ {f}]
       IN  \/ Judged(f).primary /\ Stamp(f, Judged(f).host, r)
           \/ ~Judged(f).primary /\ NotOwned(f, r, r)
    /\ UNCHANGED <<split, serverVars, seen, stored, moves>>

Trouble == moves < MaxMoves /\ moves' = moves + 1

\* _safe_adjudicate: one bad file never aborts the rest.
AdjudicationFails(f) ==
    /\ pass.at = "sweep" /\ f \in pass.leaves /\ seen[f] # Nowhere
    /\ Trouble
    /\ pass' = [pass EXCEPT !.leaves = @ \ {f}, !.missed = @ \union {f}]
    /\ UNCHANGED <<split, serverVars, seen, cacheVars, mem, stored>>

\* All files are dealt with; those Stash does not know yet wait for a later
\* pass.
Swept ==
    /\ \/ pass.at = "sweep"
       \/ pass.at = "known" /\ pass.known = {}
    /\ \A f \in pass.leaves : seen[f] = Nowhere /\ place[f] = Nowhere
    /\ pass' = [pass EXCEPT !.at = "compose", !.leaves = {}]
    /\ UNCHANGED <<split, serverVars, seen, cacheVars, mem, stored, moves>>

-----------------------------------------------------------------------------
\* _get_or_create_gallery: the gallery with the item's code, else one with its
\* title and date, else a new one, saved at once.
ByCode(i)  == galleries \intersect {i}
ByTitle(i) == {j \in galleries : Title[j] = Title[i]}
GalleryOf(i) ==
    IF ByCode(i) # {} \/ ByTitle(i) = {} THEN i ELSE CHOOSE j \in ByTitle(i) : TRUE

FilesOf(i) == {f \in Files : <<i, f>> \in pass.compose}

\* _compose_gallery_for_item: the links ride on the later flush.
Compose(i) ==
    /\ pass.at = "compose" /\ FilesOf(i) # {}
    /\ galleries' = galleries \union {GalleryOf(i)}
    /\ tied' = tied \union {<<GalleryOf(i), f>> : f \in FilesOf(i)}
    /\ pass' = [pass EXCEPT !.compose = {t \in @ : t[1] # i}]
    /\ UNCHANGED <<split, place, scenes, onServer, linked, seen, dirty, pending,
                   doubtful, mem, stored, moves>>

\* Per-item isolation: one bad compose must not abort the rest.
ComposeFails(i) ==
    /\ pass.at = "compose" /\ FilesOf(i) # {}
    /\ Trouble
    /\ galleries' \in {galleries, galleries \union {GalleryOf(i)}}
    /\ pass' = [pass EXCEPT !.compose = {t \in @ : t[1] # i}, !.bare = @ \union {i}]
    /\ UNCHANGED <<split, place, scenes, onServer, linked, seen, cacheVars, mem, stored>>

-----------------------------------------------------------------------------
\* store.save_all() writes all that is dirty or new in the store.
NewId(f) == IF f \in pending THEN scenes[f] + 1 ELSE mem[f]
Flushed ==
    /\ onServer' = onServer \union dirty \union {<<f, NewId(f)>> : f \in pending}
    /\ linked' = linked \union {<<t[1], t[2], NewId(t[2])>> : t \in tied}
    /\ place' = [f \in Files |-> IF f \in pending THEN Own(NewId(f)) ELSE place[f]]
    /\ scenes' = [f \in Files |-> IF f \in pending THEN NewId(f) ELSE scenes[f]]
    /\ UNCHANGED galleries

Emptied == dirty' = {} /\ pending' = {} /\ doubtful' = {} /\ tied' = {}

\* _compose_and_flush: only after the flush do the new scenes have ids.
Flush ==
    /\ pass.at = "compose" /\ pass.compose = {}
    /\ Flushed /\ Emptied
    /\ mem' = [f \in Files |-> IF f \in pass.pairs THEN NewId(f) ELSE mem[f]]
    /\ pass' = [pass EXCEPT !.at = "flushed"]
    /\ UNCHANGED <<split, seen, stored, moves>>

\* One await per media: `fdng_store.save(media)`.
Persist(f) ==
    /\ pass.at = "flushed" /\ f \in pass.ids
    /\ stored' = [stored EXCEPT ![f] = mem[f]]
    /\ pass' = [pass EXCEPT !.ids = @ \ {f}]
    /\ UNCHANGED <<split, serverVars, seen, cacheVars, mem, moves>>

\* _finalize_creator: the cached types are invalidated, with what has not
\* been flushed.
Finalized ==
    /\ Emptied
    /\ seen' = [f \in Files |-> Nowhere]
    /\ pass' = Resting

Finish ==
    /\ pass.at = "flushed" /\ pass.ids = {}
    /\ Finalized
    /\ UNCHANGED <<split, serverVars, mem, stored, moves>>

\* An error or a cancellation at any await: the pass is over, finalized.
Abort ==
    /\ pass # Resting /\ Trouble
    /\ Finalized
    /\ UNCHANGED <<split, serverVars, mem, stored>>

\* The flush fails: nothing was written, or all of it was and the answer is
\* lost.
ServerFlushFails ==
    /\ pass.at = "compose" /\ pass.compose = {} /\ Trouble
    /\ Flushed \/ UNCHANGED serverVars
    /\ Finalized
    /\ UNCHANGED <<split, mem, stored>>

-----------------------------------------------------------------------------
\* Stash is used by others too: files with one pHash are merged into a scene
\* of another source, demoted within their own, or made primary again.
Rearrange(f) ==
    /\ place[f] # Nowhere /\ Trouble
    /\ \E q \in {Aside, [place[f] EXCEPT !.primary = FALSE]}
                \union {Own(n) : n \in {place[f].host} \ {Foreign}} :
          q # place[f] /\ place' = [place EXCEPT ![f] = q]
    /\ doubtful' = doubtful \union ({f} \intersect pending)
    /\ pass' = IF pass = Resting THEN pass ELSE [pass EXCEPT !.moved = @ \union {f}]
    /\ UNCHANGED <<split, scenes, onServer, galleries, linked, seen, dirty, pending,
                   tied, mem, stored>>

\* The program ends and is started again.
Crash ==
    /\ Trouble
    /\ mem' = stored
    /\ Emptied
    /\ seen' = [f \in Files |-> Nowhere]
    /\ pass' = Resting
    /\ UNCHANGED <<split, serverVars, stored>>

StashInit ==
    /\ split \in BOOLEAN
    /\ place = [f \in Files |-> Nowhere] /\ scenes = [f \in Files |-> 0]
    /\ onServer = {} /\ galleries = {} /\ linked = {}
    /\ dirty = {} /\ pending = {} /\ doubtful = {} /\ tied = {}
    /\ seen = [f \in Files |-> Nowhere]
    /\ mem = [f \in Files |-> NoId] /\ stored = [f \in Files |-> NoId]
    /\ pass = Resting
    /\ moves = 0

StashNext ==
    \/ Swept \/ Flush \/ ServerFlushFails \/ Finish \/ Abort \/ Crash
    \/ \E items \in Creators : Start(items)
    \/ \E i \in Items : Compose(i) \/ ComposeFails(i)
    \/ \E f \in Files : FastPath(f) \/ Read(f) \/ Adjudicate(f) \/ AdjudicationFails(f)
                            \/ Persist(f) \/ Rearrange(f)

StashSpec == StashInit /\ [][StashNext]_stashVars

-----------------------------------------------------------------------------
(* Types.  An id that media.stash_id holds, in memory or in the database,  *)
(* was given out by the server.                                            *)
StashTypeOK ==
    /\ place \in [Files -> Place \union {Nowhere}]
    /\ scenes \in [Files -> 0 .. MaxScenes]
    /\ \A f \in Files : {mem[f], stored[f]} \subseteq {NoId} \union 1 .. scenes[f]
    /\ galleries \subseteq Items
    /\ doubtful \subseteq pending /\ pending \subseteq pass.pairs
    /\ pass.at \in Phases /\ pass.pairs \subseteq Index(pass.items)
    /\ moves \in 0 .. MaxMoves

(* A pass that ends well leaves every file it could deal with recorded:    *)
(* the file is primary of a scene (with splitting on, whatever Stash made  *)
(* of it), the scene carries its metadata and is in the gallery of every   *)
(* item that owns the file, and the database names it in media.stash_id.   *)
(* "Could deal with": Stash knew the file, neither its adjudication nor    *)
(* the gallery failed, and nobody moved it during the pass.  Earlier       *)
(* passes may have failed or crashed anywhere, and another creator's may   *)
(* have dealt with the same file (_fast_path_known_media: "so nothing is   *)
(* silently lost"; _compose_and_flush: "a failed creator self-heals on the *)
(* next run").                                                             *)
Doable == {f \in Index(pass.items) \ (pass.missed \union pass.moved) :
               place[f] # Nowhere /\ (place[f].primary \/ (split /\ f \notin Pictures))}
RecordedAfterRun ==
    [][Finish =>
          \A f \in Doable :
             /\ place[f].primary
             /\ stored[f] = place[f].host
             /\ <<f, place[f].host>> \in onServer
             /\ \A i \in ItemsOf(pass, f) \ pass.bare :
                   <<GalleryOf(i), f, place[f].host>> \in linked]_stashVars

(* The flush never splits a file off a scene whose primary it already is,  *)
(* which would duplicate the scene, unless Stash moved the file after the  *)
(* forced re-check of _adjudicate_not_owned.                               *)
NoSelfSplit ==
    [][\A f \in pending \ doubtful : scenes'[f] > scenes[f] => ~place[f].primary]_stashVars

(* "Compose one gallery per owning item" (_compose_and_flush): when a pass *)
(* ends well, an item whose files were linked has a gallery of its own.    *)
GalleryPerItem ==
    [][Finish => \A f \in Doable : ItemsOf(pass, f) \ pass.bare \subseteq galleries]_stashVars
=============================================================================
