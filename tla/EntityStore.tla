----------------------------- MODULE EntityStore -----------------------------
(***************************************************************************)
(* The identity map of metadata/entity_store.py over the Pydantic models   *)
(* of metadata/models.py: one object in memory per entity, merged with     *)
(* whatever the API sends next, and written back by save() in several      *)
(* awaited statements.  In the daemon two tasks write the same objects:    *)
(* the worker, which walks a creator (metadata/account.py, media.py,       *)
(* post.py, hashtag.py, wall.py) and then runs the Stash pass over it, and *)
(* the refresh of the following list, which processes every account again. *)
(* After a restart preload() fills the map from the tables.                *)
(*                                                                         *)
(* Scalar columns are grouped by who owns them: "api" (whatever the API    *)
(* sends, a version number here), "file" (is_downloaded, content_hash,     *)
(* local_filename: the downloader's) and "stash" (stash_id).  Each entity  *)
(* has one junction field, `links': a media's variants, a wall's posts, a  *)
(* post's hashtags, an account's avatar and banner.                        *)
(***************************************************************************)
EXTENDS Integers, Sequences, FiniteSets, SequencesExt

CONSTANTS
    Hashtags, Medias, Accounts, Walls, Posts,   \* the entities, by class
    Variants,       \* the media that the API nests in the other media
    Avatars,        \* the media that the API nests in the accounts
    MaxVersions,    \* bound: versions of the data the API serves
    MaxTroubles     \* bound: failed statements and crashes together

ASSUME StoreAssumption ==
    /\ Variants \subseteq Medias /\ Avatars \subseteq Medias \ Variants
    /\ {MaxVersions, MaxTroubles} \subseteq Nat
    /\ Hashtags \intersect Medias = {}
    /\ (Hashtags \union Medias) \intersect Accounts = {}
    /\ (Hashtags \union Medias \union Accounts) \intersect Walls = {}
    /\ (Hashtags \union Medias \union Accounts \union Walls) \intersect Posts = {}

VARIABLES
    held,       \* the entities in the identity map
    obj,        \* the object of each held entity
    row,        \* the stored scalars of an entity, or Absent
    links,      \* the stored junction rows: entity -> set of entities
    stack,      \* for each task, the save() calls it is inside of
    walk,       \* what the walk does after its present save returns
    stamped,    \* the media whose stash_id the Stash pass has yet to save
    toLoad,     \* the rows the preload has not read yet; {} outside it
    shared,     \* entities assigned to while the other task was saving them
    version,    \* the newest data the API serves
    troubles    \* failed statements and crashes so far

storeVars == <<held, obj, row, links, stack, walk, stamped, toLoad, shared,
               version, troubles>>

Entity  == Hashtags \union Medias \union Accounts \union Walls \union Posts
Content == Medias \ (Variants \union Avatars)
Column  == {"api", "file", "stash"}
Task    == {"worker", "refresh"}
Scalars == [api : 0 .. MaxVersions, file : BOOLEAN, stash : BOOLEAN]
Absent  == [api |-> -1, file |-> FALSE, stash |-> FALSE]
Object  == [now : Scalars, snap : Scalars, links : SUBSET Entity, isNew : BOOLEAN]
Frame   == [of : Entity, at : {"row", "links"}, insert : BOOLEAN,
            cols : SUBSET Column, sent : Scalars]

Unheld == [now |-> [api |-> 0, file |-> FALSE, stash |-> FALSE],
           snap |-> [api |-> 0, file |-> FALSE, stash |-> FALSE],
           links |-> {}, isNew |-> FALSE]

\* What the walk has left to do: nothing, a post's hashtags, a wall's posts.
Idle     == <<"idle">>
Tagging(p, g) == <<"tagging", p, g>>

-----------------------------------------------------------------------------
(* Validation: construction, or the merge into the cached object.          *)

(* A new object: pydantic defaults for what the payload does not carry,    *)
(* the snapshot of model_post_init, and _is_new.                           *)
Constructed(v, ls) ==
    LET vals == [api |-> v, file |-> FALSE, stash |-> FALSE]
    IN  [now |-> vals, snap |-> vals, links |-> ls, isNew |-> TRUE]

(* The merge writes only the fields the payload set (model_fields_set), so *)
(* the columns the API does not know keep their value, and leaves the      *)
(* snapshot alone: the object is dirty where it now differs.               *)
Merged(o, v) == [o EXCEPT !.now.api = v]

Validated(e, v) == IF e \in held THEN Merged(obj[e], v) ELSE Constructed(v, {})

Changed(o) == {c \in Column : o.now[c] # o.snap[c]}

(* Validation evicts the cached object, so as not to find it again, and    *)
(* caches it back (or the new one) when it is done, whatever happened.     *)
LeftOut(es) == (held \ es) \union (es \ held)
Cached(es) == held \union es

(* Someone else is between the statements of a save of e.                  *)
InFlight(e, ts) == \E t \in ts : \E i \in DOMAIN stack[t] : stack[t][i].of = e

-----------------------------------------------------------------------------
(* save(): the row, then the new related entities, then the junction rows. *)

\* Faulty variant: every save carries every column.
EnterAllColumns(e, o) ==
    [of |-> e, at |-> IF o.isNew \/ Changed(o) # {} THEN "row" ELSE "links",
     insert |-> o.isNew, cols |-> Column, sent |-> o.now]

(* What the first statement of save(e) carries is computed before the      *)
(* first await: every column of a new object, the changed ones otherwise.  *)
Enter(e, o) ==
    LET cols == IF o.isNew THEN Column ELSE Changed(o)
    IN  [of |-> e, at |-> IF o.isNew \/ cols # {} THEN "row" ELSE "links",
         insert |-> o.isNew, cols |-> cols, sent |-> o.now]

(* The loop over the related entities: save() of the next one that is      *)
(* still _is_new, or on to the junction rows.                              *)
WithRelated(s, os) ==
    LET rest == [s EXCEPT ![Len(s)].at = "links"]
        news == {r \in os[Last(s).of].links : os[r].isNew}
    IN  IF news = {} THEN {rest} ELSE {Append(rest, Enter(r, os[r])) : r \in news}

(* A call of save(e) by task t on the objects os: an unchanged entity has  *)
(* no first statement and goes straight to its related entities.           *)
CallSave(t, e, os) ==
    LET f == Enter(e, os[e])
    IN  IF f.at = "row" THEN stack' = [stack EXCEPT ![t] = Append(@, f)]
        ELSE \E s \in WithRelated(Append(stack[t], f), os) : stack' = [stack EXCEPT ![t] = s]

(* The INSERT .. ON CONFLICT DO UPDATE or the UPDATE of _update commits:   *)
(* an UPDATE of a row that is gone writes nothing.                         *)
Written(e, f) ==
    IF row[e] = Absent /\ ~f.insert THEN Absent
    ELSE [c \in Column |-> IF c \in f.cols THEN f.sent[c] ELSE row[e][c]]

WriteRow(t) ==
    /\ stack[t] # <<>> /\ Last(stack[t]).at = "row"
    /\ LET f  == Last(stack[t])
           os == [obj EXCEPT ![f.of].isNew = FALSE]
       IN  /\ row' = [row EXCEPT ![f.of] = Written(f.of, f)]
           /\ obj' = os
           /\ \E s \in WithRelated(stack[t], os) : stack' = [stack EXCEPT ![t] = s]
    /\ UNCHANGED <<held, links, walk, stamped, toLoad, shared, version, troubles>>

(* _sync_assoc_tables and what follows.  Changed relationships or, when    *)
(* none changed, every relationship that is not None: for one list field   *)
(* both say that the stored junction rows become the list in memory, read  *)
(* when the statement runs.  A target without a row is refused by the      *)
(* foreign key (Refused).  Then the object is cached again and mark_clean  *)
(* takes its snapshot of the values it has by now.                         *)
Backed(e) == \A r \in obj[e].links : row[r] # Absent

Synced(e) == [links EXCEPT ![e] = obj[e].links]

Cleaned(e) == [obj EXCEPT ![e].snap = obj[e].now]

WriteLinks(t) ==
    /\ stack[t] # <<>> /\ Last(stack[t]).at = "links"
    /\ LET e  == Last(stack[t]).of
           os == Cleaned(e)
           up == Front(stack[t])
       IN  /\ row[e] # Absent \/ obj[e].links = {}
           /\ Backed(e)
           /\ links' = Synced(e)
           /\ held' = held \union {e}
           /\ obj' = os
           /\ \E s \in IF up = <<>> THEN {up} ELSE WithRelated(up, os) :
                  stack' = [stack EXCEPT ![t] = s]
    /\ UNCHANGED <<row, walk, stamped, toLoad, shared, version, troubles>>

\* Faulty variant: mark_clean stands in a finally clause.
UnwoundClean(t) ==
    /\ LET es == {stack[t][i].of : i \in DOMAIN stack[t]}
       IN obj' = [e \in Entity |-> IF e \in es THEN [obj[e] EXCEPT !.snap = obj[e].now, !.isNew = FALSE]
                                   ELSE obj[e]]
    /\ stack' = [stack EXCEPT ![t] = <<>>]
    /\ walk' = IF t = "worker" THEN Idle ELSE walk
    /\ stamped' = IF t = "worker" THEN {} ELSE stamped
    /\ UNCHANGED <<held, row, links, toLoad, shared, version>>

(* A statement fails: the connection is lost, or the foreign key of a      *)
(* junction row has no target.  The exception leaves every save() of the   *)
(* task and what the walk was doing; the objects keep what they hold.      *)

Unwound(t) ==
    /\ stack' = [stack EXCEPT ![t] = <<>>]
    /\ walk' = IF t = "worker" THEN Idle ELSE walk
    /\ stamped' = IF t = "worker" THEN {} ELSE stamped
    /\ UNCHANGED <<held, obj, row, links, toLoad, shared, version>>

Refused(t) ==
    /\ stack[t] # <<>> /\ Last(stack[t]).at = "links"
    /\ LET e == Last(stack[t]).of
       IN  (row[e] = Absent /\ obj[e].links # {}) \/ ~Backed(e)
    /\ Unwound(t)
    /\ UNCHANGED troubles

StatementFails(t) ==
    /\ stack[t] # <<>> /\ troubles < MaxTroubles
    /\ troubles' = troubles + 1
    /\ Unwound(t)

-----------------------------------------------------------------------------
(* The handlers of the two tasks.  In a task each starts when the last one *)
(* has returned; the walk does not start before the Stash pass is over.    *)

Free(t)  == toLoad = {} /\ stack[t] = <<>> /\ (t = "worker" => walk = Idle)
Ready(t) == Free(t) /\ (t = "worker" => stamped = {})

Serve ==
    /\ toLoad = {} /\ version < MaxVersions
    /\ version' = version + 1
    /\ UNCHANGED <<held, obj, row, links, stack, walk, stamped, toLoad, shared, troubles>>

(* History: e is assigned to by t between statements of the other's save.   *)
Assigned(t, es) == shared' = shared \union {e \in es : InFlight(e, Task \ {t})}

(* process_media_info: the media and the variants nested in it, then save. *)
ReceiveMedia(m) ==
    /\ Ready("worker") /\ m \in Content
    /\ LET os == [e \in Entity |->
                    IF e = m THEN [Validated(m, version) EXCEPT !.links = Variants]
                    ELSE IF e \in Variants THEN Validated(e, version)
                    ELSE obj[e]]
       IN  obj' = os /\ CallSave("worker", m, os)
    /\ held' = Cached({m} \union Variants)
    /\ Assigned("worker", {m} \union Variants)
    /\ UNCHANGED <<row, links, walk, stamped, toLoad, version, troubles>>

(* The downloader marks the file and saves, with no await in between.      *)
RecordFile(m) ==
    /\ Ready("worker") /\ m \in held \intersect Content /\ ~obj[m].now.file
    /\ LET os == [obj EXCEPT ![m].now.file = TRUE]
       IN  obj' = os /\ CallSave("worker", m, os)
    /\ Assigned("worker", {m})
    /\ UNCHANGED <<held, row, links, walk, stamped, toLoad, version, troubles>>

(* _process_timeline_post: the post is validated, then its hashtags are    *)
(* looked up one by one (a missing one is created, which awaits an INSERT) *)
(* and only then is the post saved.  The lookup reads the identity map     *)
(* only: a hashtag that has its row but never got cached, because its save *)
(* failed half-way, collides on its unique value and the exception of      *)
(* get_or_create leaves the post validated but unsaved.                    *)
ReceivePost(p, g) ==
    /\ Ready("worker")
    /\ LET os == [obj EXCEPT ![p] = Validated(p, version)]
       IN  /\ held' = Cached({p})
           /\ IF g \in held
              THEN /\ obj' = [os EXCEPT ![p].links = @ \union {g}]
                   /\ CallSave("worker", p, obj')
                   /\ walk' = Idle
              ELSE IF row[g] = Absent
              THEN /\ obj' = [os EXCEPT ![g] = Constructed(0, {})]
                   /\ stack' = [stack EXCEPT !["worker"] = Append(@, Enter(g, obj'[g]))]
                   /\ walk' = Tagging(p, g)
              ELSE obj' = os /\ UNCHANGED <<stack, walk>>
    /\ Assigned("worker", {p})
    /\ UNCHANGED <<row, links, stamped, toLoad, version, troubles>>

(* ... or its content has no hashtag (any more): saved as it is.           *)
ReceiveUntagged(p) ==
    /\ Ready("worker")
    /\ LET os == [obj EXCEPT ![p] = Validated(p, version)]
       IN  obj' = os /\ CallSave("worker", p, os)
    /\ held' = Cached({p})
    /\ Assigned("worker", {p})
    /\ UNCHANGED <<row, links, walk, stamped, toLoad, version, troubles>>

(* The new hashtag has its row and id: linked, and the post is saved.      *)
LinkTag ==
    /\ toLoad = {} /\ stack["worker"] = <<>> /\ walk[1] = "tagging"
    /\ LET p  == walk[2]
           os == [obj EXCEPT ![p].links = @ \union {walk[3]}]
       IN  obj' = os /\ CallSave("worker", p, os)
    /\ walk' = Idle
    /\ UNCHANGED <<held, row, links, stamped, toLoad, shared, version, troubles>>

(* process_account_data, of the worker and of the refresh: the account and *)
(* the avatar nested in it are validated, and saved.                       *)
ReceiveAccount(t, a) ==
    /\ Ready(t)
    /\ LET os == [e \in Entity |->
                    IF e = a THEN [Validated(a, version) EXCEPT !.links = Avatars]
                    ELSE IF e \in Avatars THEN Validated(e, version)
                    ELSE obj[e]]
       IN  obj' = os /\ CallSave(t, a, os)
    /\ held' = Cached({a} \union Avatars)
    /\ Assigned(t, {a} \union Avatars)
    /\ UNCHANGED <<row, links, walk, stamped, toLoad, version, troubles>>

(* Then process_account_walls: each listed wall is validated and saved;    *)
(* its posts are not part of the payload.                                  *)
ReceiveWall(t, w) ==
    /\ Ready(t)
    /\ LET os == [obj EXCEPT ![w] = Validated(w, version)]
       IN  obj' = os /\ CallSave(t, w, os)
    /\ held' = Cached({w})
    /\ Assigned(t, {w})
    /\ UNCHANGED <<row, links, walk, stamped, toLoad, version, troubles>>

(* ... and one no longer listed is deleted, with its junction rows.  A     *)
(* save of it that the other task is inside of goes on with the object.    *)
DropWall(t, w) ==
    /\ Ready(t) /\ w \in held /\ row[w] # Absent
    /\ row' = [row EXCEPT ![w] = Absent]
    /\ links' = [links EXCEPT ![w] = {}]
    /\ held' = held \ {w}
    /\ obj' = IF InFlight(w, Task) THEN obj ELSE [obj EXCEPT ![w] = Unheld]
    /\ Assigned(t, {w})
    /\ UNCHANGED <<stack, walk, stamped, toLoad, version, troubles>>

(* process_wall_posts, after the posts themselves: append and save.        *)
ReceiveWallPosts(w, p) ==
    /\ Ready("worker") /\ {w, p} \subseteq held /\ row[p] # Absent
    /\ LET os == [obj EXCEPT ![w].links = @ \union {p}]
       IN  obj' = os /\ CallSave("worker", w, os)
    /\ UNCHANGED <<held, row, links, walk, stamped, toLoad, shared, version, troubles>>

(* The Stash pass over the creator, by the worker after its walk.  The id  *)
(* of the performer is written to the account at once.                     *)
AssignPerformer(a) ==
    /\ Free("worker") /\ a \in held \intersect Accounts /\ ~obj[a].now.stash
    /\ LET os == [obj EXCEPT ![a].now.stash = TRUE]
       IN  obj' = os /\ CallSave("worker", a, os)
    /\ Assigned("worker", {a})
    /\ UNCHANGED <<held, row, links, walk, stamped, toLoad, version, troubles>>

(* The id of a scene, image or gallery is assigned as the pass comes       *)
(* across it.  The media among them are saved much later, one by one,      *)
(* after the flush to the Stash server; the posts are left to their next   *)
(* save by a walk.                                                         *)
AssignStashId(e) ==
    /\ Free("worker") /\ e \in held \intersect (Content \union Posts)
    /\ ~obj[e].isNew /\ row[e] # Absent /\ ~obj[e].now.stash
    /\ obj' = [obj EXCEPT ![e].now.stash = TRUE]
    /\ stamped' = stamped \union ({e} \intersect Medias)
    /\ UNCHANGED <<held, row, links, stack, walk, toLoad, shared, version, troubles>>

SaveStamped(m) ==
    /\ Free("worker") /\ m \in stamped
    /\ CallSave("worker", m, obj)
    /\ stamped' = stamped \ {m}
    /\ UNCHANGED <<held, obj, row, links, walk, toLoad, shared, version, troubles>>

FlushFails ==
    /\ Free("worker") /\ stamped # {} /\ troubles < MaxTroubles
    /\ stamped' = {} /\ troubles' = troubles + 1
    /\ UNCHANGED <<held, obj, row, links, stack, walk, toLoad, shared, version>>

-----------------------------------------------------------------------------
(* The process dies; the next one preloads the tables in a fixed order of  *)
(* classes, each class in whatever order the cursor yields its rows.       *)

\* Faulty variant: the hubs are loaded before their leaves.
PreloadOrderHubsFirst == <<Posts, Walls, Accounts, Medias, Hashtags>>
PreloadOrder == <<Hashtags, Medias, Accounts, Walls, Posts>>

Restart ==
    /\ troubles < MaxTroubles /\ toLoad = {} /\ held # {}
    /\ troubles' = troubles + 1
    /\ held' = {} /\ obj' = [e \in Entity |-> Unheld]
    /\ stack' = [t \in Task |-> <<>>]
    /\ walk' = Idle /\ stamped' = {} /\ shared' = {}
    /\ toLoad' = {e \in Entity : row[e] # Absent}
    /\ UNCHANGED <<row, links, version>>

Class(e) == CHOOSE i \in DOMAIN PreloadOrder : e \in PreloadOrder[i]

(* _process_nested_cache_lookups: of a list of ids, those cached already.  *)
Resolved(ids) == ids \intersect held

(* One row becomes an object that is not new, with its associations.       *)
Preload(e) ==
    /\ e \in toLoad /\ \A x \in toLoad : Class(e) <= Class(x)
    /\ toLoad' = toLoad \ {e}
    /\ held' = held \union {e}
    /\ obj' = [obj EXCEPT ![e] = [now |-> row[e], snap |-> row[e],
                                  links |-> Resolved(links[e]), isNew |-> FALSE]]
    /\ UNCHANGED <<row, links, stack, walk, stamped, shared, version, troubles>>

-----------------------------------------------------------------------------
StoreInit ==
    /\ held = {} /\ obj = [e \in Entity |-> Unheld]
    /\ row = [e \in Entity |-> Absent] /\ links = [e \in Entity |-> {}]
    /\ stack = [t \in Task |-> <<>>] /\ walk = Idle
    /\ stamped = {} /\ toLoad = {} /\ shared = {}
    /\ version = 0 /\ troubles = 0

StoreNext ==
    \/ Serve \/ LinkTag \/ FlushFails \/ Restart
    \/ \E m \in Medias : ReceiveMedia(m) \/ RecordFile(m)
    \/ \E p \in Posts, g \in Hashtags : ReceivePost(p, g)
    \/ \E p \in Posts : ReceiveUntagged(p)
    \/ \E t \in Task, a \in Accounts : ReceiveAccount(t, a)
    \/ \E t \in Task, w \in Walls : ReceiveWall(t, w) \/ DropWall(t, w)
    \/ \E a \in Accounts : AssignPerformer(a)
    \/ \E w \in Walls, p \in Posts : ReceiveWallPosts(w, p)
    \/ \E e \in Entity : AssignStashId(e) \/ SaveStamped(e) \/ Preload(e)
    \/ \E t \in Task : WriteRow(t) \/ WriteLinks(t) \/ Refused(t) \/ StatementFails(t)

StoreSpec == StoreInit /\ [][StoreNext]_storeVars

-----------------------------------------------------------------------------
(* Types.  An entity that is being saved is in the identity map, unless it *)
(* is a hashtag (no id to be cached by before its INSERT) or a wall that   *)
(* the other task deleted meanwhile.                                       *)
StoreTypeOK ==
    /\ held \subseteq Entity /\ shared \subseteq Entity
    /\ obj \in [Entity -> Object]
    /\ row \in [Entity -> Scalars \union {Absent}]
    /\ links \in [Entity -> SUBSET Entity]
    /\ \A t \in Task : \A i \in DOMAIN stack[t] :
          /\ stack[t][i] \in Frame
          /\ stack[t][i].of \in held \union Hashtags \union shared
    /\ stamped \subseteq Content /\ toLoad \subseteq Entity
    /\ version \in 0 .. MaxVersions
    /\ troubles \in 0 .. MaxTroubles

(* What the downloader and the Stash pass earned is never taken back: a    *)
(* stored is_downloaded or stash_id survives the merges of later API data, *)
(* the saves of the other task that were computed before it was written,   *)
(* and restarts (save writes only changed fields, the merge only provided  *)
(* ones).  Excepted is the UPSERT of a new object whose row another save   *)
(* has inserted in the meantime: it carries the columns of its own call.   *)
Upserting(e) ==
    \E t \in Task : stack[t] # <<>> /\ Last(stack[t]).of = e /\ Last(stack[t]).insert
EarnedKept ==
    [][\A e \in Entity : (row[e] # Absent /\ row'[e] # Absent /\ ~Upserting(e)) =>
          \A c \in {"file", "stash"} : (row[e][c] => row'[e][c])]_storeVars

(* What memory knows and the table does not is still marked for writing:   *)
(* whenever no save of an entity is in flight, a column that differs from  *)
(* the stored row makes the object new or dirty, whatever statements       *)
(* failed.  Excepted is the one known hole: an object that one task        *)
(* assigned to while the other was saving it, whose mark_clean then covers *)
(* the assignment before it is written.                                    *)
NotForgotten ==
    \A e \in held \ shared :
        (toLoad = {} /\ ~InFlight(e, Task)) =>
            \/ obj[e].isNew
            \/ row[e] # Absent /\ \A c \in Column : obj[e].now[c] # row[e][c] => c \in Changed(obj[e])

(* The hashtags of a post are only ever added to: no save, failed save or  *)
(* restart removes a stored post_hashtags row (preload loads the leaf      *)
(* classes first so that the links of the hubs resolve).                   *)
TagsKept ==
    [][\A p \in Posts : links[p] \subseteq links'[p]]_storeVars

(* "For existing entities, only sync changed ones" (entity_store.py,       *)
(* _sync_assoc_tables): as long as a wall exists, its stored posts are not *)
(* removed, because nothing ever removes a post from a wall's list.        *)
WallPostsKept ==
    [][\A w \in Walls : row'[w] # Absent => links[w] \subseteq links'[w]]_storeVars
=============================================================================
