------------------------------ MODULE Discovery ------------------------------
(***************************************************************************)
(* How a new post or story reaches the archive: the poll of the home       *)
(* timeline and of the story states (daemon/polling.py), the creator       *)
(* filter (daemon/filters.py), the worker's timeline and stories items,    *)
(* MonitorState (daemon/state.py), the walk over a creator's timeline      *)
(* (download/timeline.py), and the pass over all creators that main makes  *)
(* before the daemon starts.                                               *)
(*                                                                         *)
(* A post is the number of its publication: the n-th post of all has       *)
(* createdAt n, so a clock reading is the number of posts so far.  Which   *)
(* task runs when, and how they end, is in module DaemonRunner; the other  *)
(* kinds of work items are there too.  Every post has media, the API lists *)
(* newest first, use_duplicate_threshold and respect_timeline_stats are    *)
(* off, and no creator's access changes (which makes a walk pass over      *)
(* known pages).                                                           *)
(***************************************************************************)
EXTENDS Integers, Sequences, FiniteSets, FiniteSetsExt

CONSTANTS
    Creators,      \* the creators the account follows
    Scope,         \* those _is_creator_in_scope accepts
    Baseline,      \* the session baseline, or Never
    PageSize,      \* posts on a page of the API
    FilterPages,   \* MAX_FILTER_PAGES
    PagDedup,      \* use_pagination_duplication
    MaxPosts,      \* bound: posts published
    MaxStories,    \* bound: times a creator's stories become active
    MaxQueue,      \* bound: items queued or about to be queued
    MaxFaults,     \* bound: requests and saves that fail
    MaxRestarts    \* bound: crashes or restarts of the program

Never == -1        \* lastCheckedAt or session baseline: None

ASSUME DiscoveryAssumption ==
    /\ Scope \subseteq Creators
    /\ Baseline \in Nat \cup {Never}
    /\ PageSize \in Nat \ {0}
    /\ FilterPages \in Nat
    /\ PagDedup \in BOOLEAN
    /\ {MaxPosts, MaxStories, MaxQueue, MaxFaults, MaxRestarts} \subseteq Nat

VARIABLES
    \* Fansly
    posts,    \* who published the n-th post
    pinned,   \* the posts that are pinned
    active,   \* creators with active stories
    \* the store, which survives a restart
    known,    \* posts in the identity map
    have,     \* posts whose media have been downloaded
    checked,  \* MonitorState.lastCheckedAt
    seen,     \* creators whose MonitorState.lastHasActiveStories is true
    \* the process
    todo,     \* creators main has not come to
    fresh,    \* creators not in baseline_consumed
    page,     \* the home page under examination, and what was pinned on it
    cands,    \* its creators with an unknown post, not yet examined
    flips,    \* creators the story poll returned, not yet queued
    queue,    \* the work queue
    item,     \* the worker's item
    walk,     \* where the worker's handler is
    \* history
    cut,      \* creators a walk of whose timeline was cut short
    missed,   \* posts whose download failed or was cut short
    served,   \* creators whose active stories were fetched
    lost,     \* creators whose active stories were given up
    \* bounds
    ups, faults, restarts

server == <<posts, pinned, active>>
store == <<known, have, checked, seen>>
polls == <<fresh, page, cands, flips>>
history == <<cut, missed, served, lost>>
bounds == <<ups, faults, restarts>>
vars == <<server, store, todo, polls, queue, item, walk, history, bounds>>

Kinds == {"pass", "timeline", "stories"}
NoItem == [kind |-> "none", creator |-> "none"]
NoPage == [all |-> {}, pinned |-> {}]
Resting == [at |-> "idle", cursor |-> 0, page |-> {}]

Now == Len(posts)
PostsOf(c) == {n \in 1..Now : posts[n] = c}
Newest(S, k) == {n \in S : Cardinality({m \in S : m > n}) < k}

\* get_home_timeline, and get_timeline(c, cursor) for k pages in a row.
HomePage == Newest(1..Now, PageSize)
TimelinePages(c, cursor, k) ==
    Newest({n \in PostsOf(c) : cursor = 0 \/ n < cursor}, k * PageSize)

Working(c) == item.creator = c /\ item # NoItem
Walking(c) == Working(c) /\ walk.at \in {"page", "media"}
Queued(kind, c) == \E i \in 1..Len(queue) : queue[i] = [kind |-> kind, creator |-> c]

\* The daemon polls only after main's pass.
Polling == todo = {} /\ item.kind # "pass"

Room(n) == Len(queue) + Cardinality(cands) + Cardinality(flips) + n <= MaxQueue

Enqueue(kind, c) == queue' = Append(queue, [kind |-> kind, creator |-> c])

Fault == faults < MaxFaults /\ faults' = faults + 1 /\ UNCHANGED <<ups, restarts>>

-----------------------------------------------------------------------------
(* Fansly.                                                                 *)

Publish(c) ==
    /\ Now < MaxPosts
    /\ posts' = Append(posts, c)
    /\ UNCHANGED <<pinned, active, store, todo, polls, queue, item, walk,
                   history, bounds>>

Pin(n) ==
    /\ n \in 1..Now
    /\ pinned' = pinned \cup {n}
    /\ UNCHANGED <<posts, active, store, todo, polls, queue, item, walk,
                   history, bounds>>

StoryUp(c) ==
    /\ c \notin active
    /\ ups < MaxStories
    /\ active' = active \cup {c}
    /\ ups' = ups + 1
    /\ UNCHANGED <<posts, pinned, store, todo, polls, queue, item, walk,
                   history, faults, restarts>>

StoryDown(c) ==
    /\ c \in active
    /\ active' = active \ {c}
    /\ UNCHANGED <<posts, pinned, store, todo, polls, queue, item, walk,
                   history, bounds>>

-----------------------------------------------------------------------------
(* The home timeline.                                                      *)

\* Faulty variant: the poll saves the posts it sees.
PollHomeSaves ==
    /\ Polling
    /\ cands = {}
    /\ LET unknown == {posts[n] : n \in HomePage \ known}
       IN /\ Room(Cardinality(unknown))
          /\ cands' = unknown
          /\ page' = IF unknown = {} THEN NoPage
                     ELSE [all |-> HomePage, pinned |-> HomePage \cap pinned]
    /\ known' = known \cup HomePage
    /\ UNCHANGED <<server, have, checked, seen, todo, fresh, flips, queue, item,
                   walk, history, bounds>>

\* poll_home_timeline that succeeds; one that fails changes nothing.
PollHome ==
    /\ Polling
    /\ cands = {}
    /\ LET unknown == {posts[n] : n \in HomePage \ known}
       IN /\ Room(Cardinality(unknown))
          /\ cands' = unknown
          /\ page' = IF unknown = {} THEN NoPage
                     ELSE [all |-> HomePage, pinned |-> HomePage \cap pinned]
    /\ UNCHANGED <<server, store, todo, fresh, flips, queue, item, walk, history,
                   bounds>>

\* should_process_creator: the newest post that is not pinned, of the page or,
\* when the page has none, of up to FilterPages older pages, decides.
ShouldProcess(c, baseline) ==
    LET mine     == page.all \cap PostsOf(c)
        older    == IF mine \subseteq page.pinned
                      THEN TimelinePages(c, Min(mine), FilterPages) \ pinned
                      ELSE {}
        unpinned == (mine \ page.pinned) \cup older
    IN baseline = Never \/ (unpinned # {} /\ Max(unpinned) > baseline)

EffectiveBaseline(c) ==
    IF c \in fresh /\ Baseline # Never THEN Baseline ELSE checked[c]

Examined(c) ==
    /\ cands' = cands \ {c}
    /\ page' = IF cands = {c} THEN NoPage ELSE page
    /\ UNCHANGED <<server, store, todo, flips, item, walk, history>>

\* Faulty variant: the session baseline is used again and again.
ExamineBaselineKept(c) ==
    /\ c \in cands
    /\ IF c \in Scope /\ ShouldProcess(c, EffectiveBaseline(c))
         THEN Enqueue("timeline", c)
         ELSE UNCHANGED queue
    /\ Examined(c)
    /\ UNCHANGED <<fresh, bounds>>

\* _process_timeline_candidate.
Examine(c) ==
    /\ c \in cands
    /\ IF c \in Scope /\ ShouldProcess(c, EffectiveBaseline(c))
         THEN Enqueue("timeline", c)
         ELSE UNCHANGED queue
    /\ fresh' = IF c \in Scope THEN fresh \ {c} ELSE fresh
    /\ Examined(c)
    /\ UNCHANGED bounds

\* The filter could not read the store or the API: processed anyway.
ExamineFails(c) ==
    /\ c \in cands \cap Scope
    /\ Fault
    /\ Enqueue("timeline", c)
    /\ fresh' = fresh \ {c}
    /\ Examined(c)

-----------------------------------------------------------------------------
(* The story states.  The poll saves what it saw before its loop queues    *)
(* anything.                                                               *)

\* Creators whose stories are over have nothing left to serve.
StoriesOver(over) == /\ served' = served \ over
                     /\ lost' = lost \ over
                     /\ UNCHANGED <<cut, missed>>

\* Faulty variant: the row is saved before it is compared.
PollStoriesSavedFirst ==
    /\ Polling
    /\ flips = {}
    /\ flips' = active \ active
    /\ seen' = active
    /\ StoriesOver(Creators \ active)
    /\ UNCHANGED <<server, known, have, checked, todo, fresh, page, cands, queue,
                   item, walk, bounds>>

PollStories ==
    /\ Polling
    /\ flips = {}
    /\ Room(Cardinality(active \ seen))
    /\ flips' = active \ seen
    /\ seen' = active
    /\ StoriesOver(Creators \ active)
    /\ UNCHANGED <<server, known, have, checked, todo, fresh, page, cands, queue,
                   item, walk, bounds>>

\* The row of c could not be read: c is skipped, its row stays as it is.  (A
\* row that cannot be written keeps the new value in the identity map.)
PollStoriesSkips(c) ==
    /\ Polling
    /\ flips = {}
    /\ Fault
    /\ Room(Cardinality(active \ seen))
    /\ flips' = (active \ seen) \ {c}
    /\ seen' = (active \ {c}) \cup (seen \cap {c})
    /\ StoriesOver(Creators \ (active \cup {c}))
    /\ UNCHANGED <<server, known, have, checked, todo, fresh, page, cands, queue,
                   item, walk>>

\* An entry behind those of C is malformed: what was saved for C stays saved,
\* and nobody is returned.
PollStoriesBreaks(C) ==
    /\ Polling
    /\ flips = {}
    /\ Fault
    /\ seen' = (seen \ C) \cup (active \cap C)
    /\ served' = served \ (C \ active)
    /\ lost' = (lost \cup ((active \ seen) \cap C)) \ (C \ active)
    /\ UNCHANGED <<server, known, have, checked, todo, polls, queue, item, walk,
                   cut, missed>>

PutStories(c) ==
    /\ c \in flips
    /\ flips' = flips \ {c}
    /\ IF c \in Scope THEN Enqueue("stories", c) ELSE UNCHANGED queue
    /\ UNCHANGED <<server, store, todo, fresh, page, cands, item, walk, history,
                   bounds>>

-----------------------------------------------------------------------------
(* main's pass and the worker.                                             *)

Start(i) == item' = i /\ walk' = [Resting EXCEPT !.at = "account"]
Finish == item' = NoItem /\ walk' = Resting

TakePass(c) ==
    /\ item = NoItem
    /\ c \in todo
    /\ todo' = todo \ {c}
    /\ Start([kind |-> "pass", creator |-> c])
    /\ UNCHANGED <<server, store, polls, queue, history, bounds>>

TakeItem ==
    /\ Polling
    /\ item = NoItem
    /\ queue # <<>>
    /\ Start(Head(queue))
    /\ queue' = Tail(queue)
    /\ UNCHANGED <<server, store, todo, polls, history, bounds>>

AccountInfo ==
    /\ walk.at = "account"
    /\ walk' = [walk EXCEPT !.at = IF item.kind = "stories" THEN "stories" ELSE "page"]
    /\ UNCHANGED <<server, store, todo, polls, queue, item, history, bounds>>

\* get_creator_account_info raises: the worker drops the item unmarked, main
\* goes on to the next creator.
AccountFails ==
    /\ walk.at = "account"
    /\ Fault
    /\ Finish
    /\ lost' = IF item.kind = "timeline" THEN lost
               ELSE lost \cup ({item.creator} \ served)
    /\ UNCHANGED <<server, store, todo, polls, queue, cut, missed, served>>

\* The walk is over, whichever way: main goes on to the stories.
AfterWalk == [Resting EXCEPT !.at = IF item.kind = "pass" THEN "stories" ELSE "mark"]

NextPage == TimelinePages(item.creator, walk.cursor, 1)

\* Faulty variant: the posts of a page are saved before the page is looked up.
WalkPageSavedFirst ==
    /\ walk.at = "page"
    /\ known' = known \cup NextPage
    /\ IF PagDedup \/ NextPage = {}
         THEN walk' = AfterWalk
         ELSE walk' = [walk EXCEPT !.at = "media", !.page = NextPage]
    /\ UNCHANGED <<server, have, checked, seen, todo, polls, queue, item, history,
                   bounds>>

\* One page of download_timeline: an empty page, or under PagDedup a page of
\* known posts, ends the walk; else its posts are saved, before their media.
WalkPage ==
    /\ walk.at = "page"
    /\ IF NextPage = {} \/ (PagDedup /\ NextPage \subseteq known)
         THEN walk' = AfterWalk /\ UNCHANGED known
         ELSE /\ known' = known \cup NextPage
              /\ walk' = [walk EXCEPT !.at = "media", !.page = NextPage]
    /\ UNCHANGED <<server, have, checked, seen, todo, polls, queue, item, history,
                   bounds>>

\* The request fails: download_timeline prints the error and ends.
WalkPageFails ==
    /\ walk.at = "page"
    /\ Fault
    /\ walk' = AfterWalk
    /\ cut' = IF walk.cursor = 0 THEN cut ELSE cut \cup {item.creator}
    /\ UNCHANGED <<server, store, todo, polls, queue, item, missed, served, lost>>

TurnPage == walk' = [at |-> "page", cursor |-> Min(walk.page), page |-> {}]

WalkMedia ==
    /\ walk.at = "media"
    /\ have' = have \cup walk.page
    /\ TurnPage
    /\ UNCHANGED <<server, known, checked, seen, todo, polls, queue, item,
                   history, bounds>>

\* fetch_and_process_media raises: the walk ends.
WalkMediaFails ==
    /\ walk.at = "media"
    /\ Fault
    /\ walk' = AfterWalk
    /\ missed' = missed \cup (walk.page \ have)
    /\ cut' = cut \cup {item.creator}
    /\ UNCHANGED <<server, store, todo, polls, queue, item, served, lost>>

\* download_media raises: process_download_accessible_media prints the error
\* and the walk goes on.
WalkDownloadFails ==
    /\ walk.at = "media"
    /\ Fault
    /\ missed' = missed \cup (walk.page \ have)
    /\ TurnPage
    /\ UNCHANGED <<server, store, todo, polls, queue, item, cut, served, lost>>

AfterStories ==
    IF item.kind = "pass"
      THEN Finish
      ELSE walk' = [Resting EXCEPT !.at = "mark"] /\ UNCHANGED item

\* download_stories; it turns every error into a warning.
Stories ==
    /\ walk.at = "stories"
    /\ served' = served \cup {item.creator}
    /\ lost' = lost \ {item.creator}
    /\ AfterStories
    /\ UNCHANGED <<server, store, todo, polls, queue, cut, missed, bounds>>

StoriesFail ==
    /\ walk.at = "stories"
    /\ Fault
    /\ lost' = lost \cup ({item.creator} \ served)
    /\ AfterStories
    /\ UNCHANGED <<server, store, todo, polls, queue, cut, missed, served>>

\* Faulty variant: the clock of the next post.
MarkAhead ==
    /\ walk.at = "mark"
    /\ checked' = [checked EXCEPT ![item.creator] = Now + 1]
    /\ Finish
    /\ UNCHANGED <<server, known, have, seen, todo, polls, queue, history, bounds>>

\* mark_creator_processed, when the handler has returned.
Mark ==
    /\ walk.at = "mark"
    /\ checked' = [checked EXCEPT ![item.creator] = Now]
    /\ Finish
    /\ UNCHANGED <<server, known, have, seen, todo, polls, queue, history, bounds>>

\* Neither the account nor the row could be read.
MarkFails ==
    /\ walk.at = "mark"
    /\ Fault
    /\ Finish
    /\ UNCHANGED <<server, store, todo, polls, queue, history>>

-----------------------------------------------------------------------------
\* The process ends, anywhere, and is started again with the same arguments:
\* the store is what is left.
Restart ==
    /\ restarts < MaxRestarts
    /\ restarts' = restarts + 1
    /\ todo' = Scope
    /\ fresh' = Creators
    /\ page' = NoPage
    /\ cands' = {}
    /\ flips' = {}
    /\ queue' = <<>>
    /\ Finish
    /\ missed' = missed \cup (walk.page \ have)
    /\ cut' = IF walk.at = "media" \/ walk.cursor # 0
                THEN cut \cup {item.creator} ELSE cut
    /\ UNCHANGED <<server, store, served, lost, ups, faults>>

Init ==
    /\ posts = <<>>
    /\ pinned = {}
    /\ active = {}
    /\ known = {}
    /\ have = {}
    /\ checked = [c \in Creators |-> Never]
    /\ seen = {}
    /\ todo = Scope
    /\ fresh = Creators
    /\ page = NoPage
    /\ cands = {}
    /\ flips = {}
    /\ queue = <<>>
    /\ item = NoItem
    /\ walk = Resting
    /\ cut = {} /\ missed = {} /\ served = {} /\ lost = {}
    /\ ups = 0 /\ faults = 0 /\ restarts = 0

WorldNext ==
    \/ \E c \in Creators : Publish(c) \/ StoryUp(c) \/ StoryDown(c)
    \/ \E n \in 1..MaxPosts : Pin(n)

HomeNext == PollHome \/ \E c \in Creators : Examine(c)

StoryNext == PollStories \/ \E c \in Creators : PutStories(c)

WorkerNext ==
    \/ TakeItem \/ AccountInfo \/ WalkPage \/ WalkMedia \/ Stories \/ Mark
    \/ \E c \in Creators : TakePass(c)

FaultNext ==
    \/ AccountFails \/ WalkPageFails \/ WalkMediaFails \/ WalkDownloadFails
    \/ StoriesFail \/ MarkFails
    \/ \E c \in Creators : ExamineFails(c) \/ PollStoriesSkips(c)
    \/ \E C \in SUBSET Creators : PollStoriesBreaks(C)

Next == WorldNext \/ HomeNext \/ StoryNext \/ WorkerNext \/ FaultNext \/ Restart

Spec == Init /\ [][Next]_vars

\* The loops poll again and again and the worker goes on; nothing obliges
\* Fansly, a fault or a restart.
FairSpec == /\ Spec
            /\ WF_vars(HomeNext)
            /\ WF_vars(StoryNext)
            /\ WF_vars(WorkerNext)

-----------------------------------------------------------------------------
(* Properties.                                                             *)

\* The type of every variable.
TypeOK ==
    /\ posts \in Seq(Creators)
    /\ {pinned, known, have, missed} \subseteq SUBSET (1..Now)
    /\ {active, seen, todo, fresh, cands, flips} \subseteq SUBSET Creators
    /\ {cut, served, lost} \subseteq SUBSET Creators
    /\ checked \in [Creators -> {Never} \cup (0..Now)]
    /\ page \in [all : SUBSET (1..Now), pinned : SUBSET (1..Now)]
    /\ queue \in Seq([kind : Kinds, creator : Creators])
    /\ item \in [kind : Kinds, creator : Creators] \cup {NoItem}
    /\ walk \in [at : {"idle", "account", "page", "media", "stories", "mark"},
                 cursor : 0..Now, page : SUBSET (1..Now)]
    /\ {ups, faults, restarts} \subseteq Nat

\* Stopping a walk at the first page of known posts loses nothing: what a
\* creator published before a known post is known too, unless a walk of that
\* creator's timeline is on its way or was once cut short.
NoGapUnlessCut ==
    \A c \in Creators : c \in cut \/ Walking(c) \/
        \A n \in PostsOf(c) \cap known : \A m \in PostsOf(c) : m < n => m \in known

\* A post is saved before its media are fetched.  Still, a known post has its
\* media, unless they are being fetched or a failure or a restart met them.
HadUnlessMissed == known \subseteq have \cup missed \cup walk.page

\* The story poll saves what it saw before anything is queued.  Still, the
\* stories of a creator whose row says active are fetched, are about to be, or
\* were given up because of a failure that was seen.
StoriesAccounted ==
    \A c \in seen \cap Scope :
        \/ c \in served \cup lost \cup flips \cup todo
        \/ Queued("stories", c)
        \/ Working(c) /\ item.kind # "timeline"

\* A post that is new to the archive and newer than lastCheckedAt is fetched in
\* the end, unless the creator pins it, it leaves the home page, or
\* lastCheckedAt passes it by.  A session baseline delays that by one poll.
Fresh(n) ==
    /\ n \in HomePage \ (known \cup pinned)
    /\ posts[n] \in Scope
    /\ n > checked[posts[n]]
Detected == \A n \in 1..MaxPosts : Fresh(n) ~> ~Fresh(n)

\* What monitoring-cadence.md says of should_process_creator: it skips the
\* creators who have not posted since the last tick, so none with a post on
\* the page that is unknown and not pinned.
SkipsOnlyInactive ==
    [][\A c \in cands \cap Scope :
          c \notin cands' /\ queue' = queue /\ restarts' = restarts
            => PostsOf(c) \cap page.all \subseteq known \cup page.pinned]_vars

\* What the comment in _worker_loop says of failures: a failed download must not
\* call mark_creator_processed.  So when a timeline item advances lastCheckedAt,
\* none of the creator's posts is one whose download failed.
FailedNotMarked ==
    [][\A c \in Creators :
          item = [kind |-> "timeline", creator |-> c] /\ checked'[c] # checked[c]
            => PostsOf(c) \cap missed \subseteq have]_vars
=============================================================================
