-------------------------- MODULE Discovery_proofs --------------------------
(***************************************************************************)
(* Proofs about Discovery, for every value of its constants: any creators, *)
(* page size and scope, any faults and restarts.                           *)
(***************************************************************************)
EXTENDS Discovery, WellFoundedInduction, FiniteSetTheorems, TLAPS

USE DiscoveryAssumption

-----------------------------------------------------------------------------
(* Posts and pages.                                                        *)

\* The oldest of some posts.
LEMMA MinType ==
    ASSUME NEW S \in SUBSET Nat, S # {}
    PROVE  Min(S) \in S /\ \A n \in S : Min(S) <= n
<1> DEFINE R == {ss \in Nat \X Nat : ss[1] < ss[2]}
<1>1. IsWellFoundedOn(R, Nat)
  BY NatLessThanWellFounded DEF OpToRel
<1> HIDE DEF R
<1>2. PICK x \in S : \A y \in S : ~(<<y, x>> \in R)
  BY <1>1, WFMin
<1>3. \A y \in S : x <= y
  <2> TAKE y \in S
  <2>1. x \in Nat /\ y \in Nat
    OBVIOUS
  <2>2. ~(y < x)
    BY <1>2, <2>1 DEF R
  <2> QED
    BY <2>1, <2>2
<1> QED
  BY <1>3 DEF Min

\* The newest of some of the posts up to b.
LEMMA NewestPost ==
    ASSUME NEW b \in Nat, NEW S \in SUBSET (1..b), S # {}
    PROVE  \E x \in S : \A y \in S : y <= x
<1> DEFINE T == {b - n : n \in S}
<1>1. T \in SUBSET Nat
  <2>1. \A n \in S : n \in Nat /\ n <= b
    OBVIOUS
  <2>2. \A n \in S : b - n \in Nat
    BY <2>1
  <2> QED
    BY <2>2
<1>2. T # {}
  OBVIOUS
<1> HIDE DEF T
<1>4. Min(T) \in T /\ \A u \in T : Min(T) <= u
  BY <1>1, <1>2, MinType
<1>5. PICK x \in S : Min(T) = b - x
  BY <1>4 DEF T
<1>6. \A y \in S : y <= x
  <2> TAKE y \in S
  <2>1. b - y \in T
    BY DEF T
  <2>2. b - x <= b - y
    BY <1>4, <1>5, <2>1
  <2>3. x \in Int /\ y \in Int
    OBVIOUS
  <2> QED
    BY <2>2, <2>3
<1> QED
  BY <1>6

\* Pages: some of the posts, and with a post every newer one; a page of one
\* post or more is empty only when there is none.
LEMMA NewestType ==
    ASSUME NEW b \in Nat, NEW S \in SUBSET (1..b), NEW k \in Nat
    PROVE  /\ Newest(S, k) \subseteq S
           /\ \A n \in Newest(S, k), m \in S : m > n => m \in Newest(S, k)
           /\ k > 0 /\ S # {} => Newest(S, k) # {}
<1> DEFINE Newer(n) == {m \in S : m > n}
<1>1. IsFiniteSet(S)
  <2>1. IsFiniteSet(1..b)
    BY FS_Interval
  <2> QED
    BY <2>1, FS_Subset
<1>2. \A n : IsFiniteSet(Newer(n)) /\ Cardinality(Newer(n)) \in Nat
  BY <1>1, FS_Subset, FS_CardinalityType
<1>3. ASSUME NEW n \in Newest(S, k), NEW m \in S, m > n
      PROVE  m \in Newest(S, k)
  <2>1. n \in S /\ Cardinality(Newer(n)) < k
    BY <1>3 DEF Newest
  <2>2. Newer(m) \subseteq Newer(n)
    <3>1. \A x \in S : x > m => x > n
      BY <1>3, <2>1
    <3> QED
      BY <3>1
  <2>3. Cardinality(Newer(m)) <= Cardinality(Newer(n))
    BY <1>2, <2>2, FS_Subset
  <2>4. Cardinality(Newer(m)) < k
    BY <1>2, <2>1, <2>3
  <2> QED
    BY <2>4 DEF Newest
<1>4. ASSUME k > 0, S # {} PROVE Newest(S, k) # {}
  <2>1. PICK x \in S : \A y \in S : y <= x
    BY <1>4, NewestPost
  <2>2. Newer(x) = {}
    <3>1. \A y \in S : ~(y > x)
      BY <2>1
    <3> QED
      BY <3>1
  <2>3. Cardinality(Newer(x)) = 0
    BY <2>2, FS_EmptySet
  <2>4. x \in Newest(S, k)
    BY <1>4, <2>3 DEF Newest
  <2> QED
    BY <2>4
<1>5. Newest(S, k) \subseteq S
  BY DEF Newest
<1> QED
  BY <1>3, <1>4, <1>5

\* The posts of a creator are posts, and so are a page of them and the home
\* page.
LEMMA PostsType ==
    ASSUME posts \in Seq(Creators), NEW c
    PROVE  /\ Now \in Nat
           /\ PostsOf(c) \in SUBSET (1..Now)
           /\ HomePage \in SUBSET (1..Now)
           /\ \A cursor : TimelinePages(c, cursor, 1) \in SUBSET PostsOf(c)
<1>1. Now \in Nat
  BY DEF Now
<1>2. PostsOf(c) \in SUBSET (1..Now)
  BY DEF PostsOf
<1>3. HomePage \in SUBSET (1..Now)
  BY <1>1 DEF HomePage, Newest
<1>4. \A cursor : TimelinePages(c, cursor, 1) \in SUBSET PostsOf(c)
  BY DEF TimelinePages, Newest
<1> QED
  BY <1>1, <1>2, <1>3, <1>4

-----------------------------------------------------------------------------
(* Types.                                                                  *)

Places == {"idle", "account", "page", "media", "stories", "mark"}

\* TypeOK, variable by variable.
StoreType ==
    /\ posts \in Seq(Creators) /\ pinned \subseteq 1..Now /\ active \subseteq Creators
    /\ known \subseteq 1..Now /\ have \subseteq 1..Now /\ missed \subseteq 1..Now
    /\ seen \subseteq Creators /\ checked \in [Creators -> {Never} \cup (0..Now)]
PollsType ==
    /\ todo \subseteq Creators /\ fresh \subseteq Creators
    /\ cands \subseteq Creators /\ flips \subseteq Creators
    /\ cut \subseteq Creators /\ served \subseteq Creators /\ lost \subseteq Creators
    /\ page \in [all : SUBSET (1..Now), pinned : SUBSET (1..Now)]
    /\ queue \in Seq([kind : Kinds, creator : Creators])
    /\ ups \in Nat /\ faults \in Nat /\ restarts \in Nat
WorkerType ==
    /\ item \in [kind : Kinds, creator : Creators] \cup {NoItem}
    /\ walk \in [at : Places, cursor : 0..Now, page : SUBSET (1..Now)]

\* A handler runs exactly while there is an item; it holds a page exactly while
\* the media of the page are downloaded, and a cursor only in a walk.
WalkShape ==
    /\ walk.at = "idle" <=> item = NoItem
    /\ walk.at = "media" <=> walk.page # {}
    /\ walk.cursor # 0 => walk.at \in {"page", "media"}

Shape == StoreType /\ PollsType /\ WorkerType /\ WalkShape

\* The parts together are TypeOK.
LEMMA TypeParts == TypeOK <=> StoreType /\ PollsType /\ WorkerType
BY DEF TypeOK, StoreType, PollsType, WorkerType, Places

\* The creator of the item in hand.
LEMMA ItemCreator ==
    ASSUME WorkerType, WalkShape, walk.at # "idle"
    PROVE  item.creator \in Creators /\ item.kind \in Kinds /\ item # NoItem
BY DEF WorkerType, WalkShape

\* A new archive has the types and the shape.
LEMMA TypeStart == Init => Shape
<1> SUFFICES ASSUME Init PROVE Shape
  OBVIOUS
<1> USE DEF Init
<1>1. posts \in Seq(Creators) /\ Now = 0
  BY DEF Now
<1>2. StoreType
  BY <1>1 DEF StoreType
<1>3. PollsType
  BY <1>1 DEF PollsType, NoPage
<1>4. WorkerType /\ WalkShape
  BY <1>1 DEF WorkerType, WalkShape, Resting, Places
<1> QED
  BY <1>2, <1>3, <1>4 DEF Shape

\* What Fansly does.
LEMMA TypeWorld == Shape /\ WorldNext => Shape'
<1> SUFFICES ASSUME Shape, WorldNext PROVE Shape'
  OBVIOUS
<1> USE DEF Shape
<1>0. Now \in Nat
  BY PostsType DEF StoreType
<1>1. ASSUME NEW c \in Creators, Publish(c) PROVE Shape'
  <2>0. UNCHANGED <<pinned, active, known, have, checked, seen, todo, fresh, page,
                    cands, flips, queue, item, walk, cut, missed, served, lost,
                    ups, faults, restarts>>
    BY <1>1 DEF Publish, store, polls, history, bounds
  <2>1. posts' \in Seq(Creators) /\ Now' = Now + 1
    BY <1>1 DEF Publish, Now, StoreType
  <2>2. 0..Now \subseteq 0..Now' /\ 1..Now \subseteq 1..Now'
    BY <1>0, <2>1
  <2>3. checked' \in [Creators -> {Never} \cup (0..Now')]
    BY <2>0, <2>2 DEF StoreType
  <2>4. StoreType'
    BY <2>0, <2>1, <2>2, <2>3 DEF StoreType
  <2>5. PollsType'
    BY <2>0, <2>2 DEF PollsType
  <2>6. WorkerType' /\ WalkShape'
    BY <2>0, <2>2 DEF WorkerType, WalkShape
  <2> QED
    BY <2>4, <2>5, <2>6
<1>2. ASSUME NEW n, Pin(n) PROVE Shape'
  <2>1. pinned' = pinned \cup {n} /\ n \in 1..Now
    BY <1>2 DEF Pin
  <2>2. UNCHANGED <<posts, active, known, have, checked, seen, todo, fresh, page,
                    cands, flips, queue, item, walk, cut, missed, served, lost,
                    ups, faults, restarts, Now>>
    BY <1>2 DEF Pin, store, polls, history, bounds, Now
  <2> QED
    BY <2>1, <2>2 DEF StoreType, PollsType, WorkerType, WalkShape
<1>3. ASSUME NEW c \in Creators, StoryUp(c) \/ StoryDown(c) PROVE Shape'
  <2>1. active' \subseteq Creators /\ ups' \in Nat
    BY <1>3 DEF StoryUp, StoryDown, StoreType, PollsType, bounds
  <2>2. UNCHANGED <<posts, pinned, known, have, checked, seen, todo, fresh, page,
                    cands, flips, queue, item, walk, cut, missed, served, lost,
                    faults, restarts, Now>>
    BY <1>3 DEF StoryUp, StoryDown, store, polls, history, bounds, Now
  <2> QED
    BY <2>1, <2>2 DEF StoreType, PollsType, WorkerType, WalkShape
<1> QED
  BY <1>1, <1>2, <1>3 DEF WorldNext

\* Another item in the queue.
LEMMA EnqueueType ==
    ASSUME PollsType, NEW c \in Creators, NEW kind \in Kinds, Enqueue(kind, c)
    PROVE  queue' \in Seq([kind : Kinds, creator : Creators])
<1>1. [kind |-> kind, creator |-> c] \in [kind : Kinds, creator : Creators]
  OBVIOUS
<1> DEFINE S == [kind : Kinds, creator : Creators]
           i == [kind |-> kind, creator |-> c]
<1>2. queue \in Seq(S) /\ i \in S /\ queue' = Append(queue, i)
  BY <1>1 DEF PollsType, Enqueue
<1> HIDE DEF S, i
<1>3. queue' \in Seq(S)
  BY <1>2
<1> QED
  BY <1>3 DEF S

\* The item at the head of the queue, and what is left.
LEMMA QueueHead ==
    ASSUME NEW S, NEW q \in Seq(S), q # <<>>
    PROVE  Head(q) \in S /\ Tail(q) \in Seq(S)
OBVIOUS

\* The queue after a restart.
LEMMA EmptyQueue == ASSUME NEW S PROVE <<>> \in Seq(S)
OBVIOUS

\* The two polls, with their faults.
LEMMA TypePolls ==
    ASSUME Shape,
           \/ PollHome \/ PollStories
           \/ \E c \in Creators : \/ Examine(c) \/ ExamineFails(c)
                                   \/ PollStoriesSkips(c) \/ PutStories(c)
           \/ \E C \in SUBSET Creators : PollStoriesBreaks(C)
    PROVE  Shape'
<1> USE DEF Shape
<1>0. Now \in Nat /\ HomePage \in SUBSET (1..Now)
  BY PostsType DEF StoreType
<1>1. UNCHANGED <<posts, pinned, active, known, have, checked, todo, item, walk,
                  cut, missed, Now>>
  BY DEF PollHome, PollStories, Examine, ExamineFails, Examined, PollStoriesSkips,
         PutStories, PollStoriesBreaks, StoriesOver, Now, server, store, history
<1>2. seen' \subseteq Creators
  BY DEF PollHome, PollStories, Examine, ExamineFails, Examined, PollStoriesSkips,
         PutStories, PollStoriesBreaks, store, StoreType
<1>3. StoreType' /\ WorkerType' /\ WalkShape'
  BY <1>1, <1>2 DEF StoreType, WorkerType, WalkShape
<1>4. /\ ups' \in Nat /\ faults' \in Nat /\ restarts' \in Nat
      /\ fresh' \subseteq Creators /\ flips' \subseteq Creators
      /\ served' \subseteq Creators /\ lost' \subseteq Creators
  BY DEF PollHome, PollStories, Examine, ExamineFails, Examined, PollStoriesSkips,
         PutStories, PollStoriesBreaks, StoriesOver, Fault, store, history, bounds,
         polls, StoreType, PollsType
<1>5. cands' \subseteq Creators
  <2>1. CASE PollHome
    <3>1. \A n \in HomePage : posts[n] \in Creators
      BY <1>0 DEF StoreType, Now
    <3> QED
      BY <2>1, <3>1 DEF PollHome
  <2>2. CASE ~PollHome
    BY <2>2 DEF PollStories, Examine, ExamineFails, Examined, PollStoriesSkips,
                PutStories, PollStoriesBreaks, polls, PollsType
  <2> QED
    BY <2>1, <2>2
<1>6. page' \in [all : SUBSET (1..Now), pinned : SUBSET (1..Now)]
  <2>1. NoPage \in [all : SUBSET (1..Now), pinned : SUBSET (1..Now)]
    BY DEF NoPage
  <2>2. [all |-> HomePage, pinned |-> HomePage \cap pinned]
            \in [all : SUBSET (1..Now), pinned : SUBSET (1..Now)]
    BY <1>0
  <2>3. CASE PollHome
    BY <2>1, <2>2, <2>3 DEF PollHome
  <2>4. CASE ~PollHome
    <3>1. page' = page \/ page' = NoPage
      BY <2>4 DEF PollStories, Examine, ExamineFails, Examined, PollStoriesSkips,
                  PutStories, PollStoriesBreaks, polls
    <3> QED
      BY <2>1, <3>1 DEF PollsType
  <2> QED
    BY <2>3, <2>4
<1>7. queue' \in Seq([kind : Kinds, creator : Creators])
  <2>1. \/ queue' = queue
        \/ \E c \in Creators : Enqueue("timeline", c) \/ Enqueue("stories", c)
    BY DEF PollHome, PollStories, Examine, ExamineFails, PollStoriesSkips,
           PutStories, PollStoriesBreaks, polls
  <2>2. "timeline" \in Kinds /\ "stories" \in Kinds
    BY DEF Kinds
  <2> QED
    BY <2>1, <2>2, EnqueueType DEF PollsType
<1>8. PollsType'
  BY <1>1, <1>4, <1>5, <1>6, <1>7 DEF PollsType
<1> QED
  BY <1>3, <1>8

\* The page in hand: posts that were published, the oldest among them.
LEMMA PageInHand ==
    ASSUME Shape, walk.at = "media"
    PROVE  /\ walk.page # {} /\ walk.page \in SUBSET (1..Now)
           /\ Min(walk.page) \in walk.page /\ \A n \in walk.page : Min(walk.page) <= n
           /\ Min(walk.page) \in 1..Now
<1>1. walk.page # {} /\ walk.page \in SUBSET (1..Now)
  BY DEF Shape, WorkerType, WalkShape
<1>2. walk.page \in SUBSET Nat
  BY <1>1
<1>3. Min(walk.page) \in walk.page /\ \A n \in walk.page : Min(walk.page) <= n
  BY <1>1, <1>2, MinType
<1> QED
  BY <1>1, <1>3

\* What the worker, main's pass, their faults and a restart do to the worker.
LEMMA TypeWorker ==
    ASSUME Shape,
           \/ WorkerNext \/ AccountFails \/ WalkPageFails \/ WalkMediaFails
           \/ WalkDownloadFails \/ StoriesFail \/ MarkFails \/ Restart
    PROVE  WorkerType' /\ WalkShape' /\ posts' = posts
<1> USE DEF Shape
<1>0. Now \in Nat
  BY PostsType DEF StoreType
<1>1. posts' = posts /\ Now' = Now
  BY DEF WorkerNext, TakeItem, AccountInfo, WalkPage, WalkMedia, Stories, Mark,
         TakePass, AccountFails, WalkPageFails, WalkMediaFails, WalkDownloadFails,
         StoriesFail, MarkFails, Restart, server, Now
<1> DEFINE Fits(w, i) ==
      /\ w \in [at : Places, cursor : 0..Now, page : SUBSET (1..Now)]
      /\ w.at = "idle" <=> i = NoItem
      /\ w.at = "media" <=> w.page # {}
      /\ w.cursor # 0 => w.at \in {"page", "media"}
<1>2. \A a \in Places : \A i :
        (a = "idle" <=> i = NoItem) /\ a # "media" => Fits([Resting EXCEPT !.at = a], i)
  BY <1>0 DEF Resting, Places
<1>3. Fits(Resting, NoItem)
  BY <1>0 DEF Resting, Places
<1>4. ASSUME Finish PROVE WorkerType' /\ WalkShape'
  BY <1>1, <1>3, <1>4 DEF Finish, WorkerType, WalkShape
<1>5. ASSUME NEW i \in [kind : Kinds, creator : Creators], Start(i)
      PROVE  WorkerType' /\ WalkShape'
  <2>1. i # NoItem
    BY DEF NoItem, Kinds
  <2>2. "account" \in Places
    BY DEF Places
  <2>3. Fits(walk', item') /\ item' = i
    BY <1>2, <1>5, <2>1, <2>2 DEF Start
  <2> QED
    BY <1>1, <2>3 DEF WorkerType, WalkShape
<1> DEFINE Goes == \E a \in Places \ {"idle", "media"} : walk' = [Resting EXCEPT !.at = a]
<1>6. ASSUME Goes, item' = item, item # NoItem PROVE WorkerType' /\ WalkShape'
  <2>1. Fits(walk', item')
    BY <1>2, <1>6
  <2> QED
    BY <1>1, <1>6, <2>1 DEF WorkerType, WalkShape
<1>7. walk.at # "idle" => item # NoItem
  BY DEF WalkShape
<1>8. ASSUME walk' = AfterWalk, item' = item, item # NoItem
      PROVE  WorkerType' /\ WalkShape'
  <2>1. Goes
    BY <1>8 DEF AfterWalk, Places
  <2> QED
    BY <1>6, <1>8, <2>1
<1>9. ASSUME AfterStories, item # NoItem PROVE WorkerType' /\ WalkShape'
  <2>1. CASE Finish
    BY <1>4, <2>1
  <2>2. CASE ~Finish
    <3>1. Goes /\ item' = item
      BY <1>9, <2>2 DEF AfterStories, Places
    <3> QED
      BY <1>6, <1>9, <3>1
  <2> QED
    BY <2>1, <2>2
<1>10. ASSUME walk.at = "media", TurnPage, item' = item
       PROVE  WorkerType' /\ WalkShape'
  <2>1. Min(walk.page) \in 0..Now
    BY <1>0, <1>10, PageInHand
  <2>2. Fits(walk', item')
    BY <1>7, <1>10, <2>1 DEF TurnPage, Places
  <2> QED
    BY <1>1, <1>10, <2>2 DEF WorkerType, WalkShape
<1>11. ASSUME NEW c \in Creators, TakePass(c) PROVE WorkerType' /\ WalkShape'
  <2>1. [kind |-> "pass", creator |-> c] \in [kind : Kinds, creator : Creators]
    BY DEF Kinds
  <2> QED
    BY <1>5, <1>11, <2>1 DEF TakePass
<1>12. ASSUME TakeItem PROVE WorkerType' /\ WalkShape'
  <2>1. Head(queue) \in [kind : Kinds, creator : Creators]
    BY <1>12, QueueHead DEF TakeItem, PollsType
  <2> QED
    BY <1>5, <1>12, <2>1 DEF TakeItem
<1>13. ASSUME AccountInfo PROVE WorkerType' /\ WalkShape'
  <2>1. walk.cursor = 0 /\ walk.page = {} /\ item # NoItem
    BY <1>7, <1>13 DEF AccountInfo, WalkShape
  <2>2. item' = item /\ walk' \in {[walk EXCEPT !.at = "stories"], [walk EXCEPT !.at = "page"]}
    BY <1>13 DEF AccountInfo
  <2>3. Fits(walk', item')
    BY <2>1, <2>2 DEF WorkerType, Places
  <2> QED
    BY <1>1, <2>2, <2>3 DEF WorkerType, WalkShape
<1>14. ASSUME WalkPage PROVE WorkerType' /\ WalkShape'
  <2>1. walk.at = "page" /\ item # NoItem /\ item' = item
    BY <1>7, <1>14 DEF WalkPage
  <2>2. NextPage \in SUBSET (1..Now)
    BY PostsType DEF NextPage, StoreType
  <2>3. CASE walk' = AfterWalk
    BY <1>8, <2>1, <2>3
  <2>4. CASE NextPage # {} /\ walk' = [walk EXCEPT !.at = "media", !.page = NextPage]
    <3>1. Fits(walk', item')
      BY <2>1, <2>2, <2>4 DEF WorkerType, Places
    <3> QED
      BY <1>1, <2>1, <3>1 DEF WorkerType, WalkShape
  <2> QED
    BY <1>14, <2>3, <2>4 DEF WalkPage
<1>15. ASSUME WalkPageFails \/ WalkMediaFails PROVE WorkerType' /\ WalkShape'
  BY <1>7, <1>8, <1>15 DEF WalkPageFails, WalkMediaFails
<1>16. ASSUME WalkMedia \/ WalkDownloadFails PROVE WorkerType' /\ WalkShape'
  BY <1>10, <1>16 DEF WalkMedia, WalkDownloadFails
<1>17. ASSUME Stories \/ StoriesFail PROVE WorkerType' /\ WalkShape'
  BY <1>7, <1>9, <1>17 DEF Stories, StoriesFail
<1>18. ASSUME AccountFails \/ Mark \/ MarkFails \/ Restart
       PROVE  WorkerType' /\ WalkShape'
  BY <1>4, <1>18 DEF AccountFails, Mark, MarkFails, Restart
<1> HIDE DEF Shape
<1> QED
  BY <1>1, <1>11, <1>12, <1>13, <1>14, <1>15, <1>16, <1>17, <1>18 DEF WorkerNext

\* What they do to the store, the polls and the history.
LEMMA TypeRest ==
    ASSUME Shape,
           \/ WorkerNext \/ AccountFails \/ WalkPageFails \/ WalkMediaFails
           \/ WalkDownloadFails \/ StoriesFail \/ MarkFails \/ Restart
    PROVE  StoreType' /\ PollsType'
<1> USE DEF Shape
<1>0. Now \in Nat
  BY PostsType DEF StoreType
<1>1. UNCHANGED <<posts, pinned, active, seen, Now>>
  BY DEF WorkerNext, TakeItem, AccountInfo, WalkPage, WalkMedia, Stories, Mark,
         TakePass, AccountFails, WalkPageFails, WalkMediaFails, WalkDownloadFails,
         StoriesFail, MarkFails, Restart, server, store, Now
<1>2. known' \subseteq 1..Now
  <2>1. CASE WalkPage
    <3>1. NextPage \in SUBSET (1..Now)
      BY PostsType DEF NextPage, StoreType
    <3> QED
      BY <2>1, <3>1 DEF WalkPage, StoreType
  <2>2. CASE ~WalkPage
    BY <2>2 DEF WorkerNext, TakeItem, AccountInfo, WalkMedia, Stories, Mark,
         TakePass, AccountFails, WalkPageFails, WalkMediaFails, WalkDownloadFails,
         StoriesFail, MarkFails, Restart, store, StoreType
  <2> QED
    BY <2>1, <2>2
<1>3. have' \subseteq 1..Now /\ missed' \subseteq 1..Now
  BY DEF WorkerNext, TakeItem, AccountInfo, WalkPage, WalkMedia, Stories, Mark,
         TakePass, AccountFails, WalkPageFails, WalkMediaFails, WalkDownloadFails,
         StoriesFail, MarkFails, Restart, store, history, StoreType, WorkerType
<1>4. checked' \in [Creators -> {Never} \cup (0..Now)]
  <2>1. CASE Mark
    <3> DEFINE Times == {Never} \cup (0..Now)
    <3>1. Now \in Times
      BY <1>0
    <3>2. checked \in [Creators -> Times]
      BY DEF StoreType
    <3>3. checked' = [checked EXCEPT ![item.creator] = Now]
      BY <2>1 DEF Mark
    <3> HIDE DEF Times
    <3>4. checked' \in [Creators -> Times]
      BY <3>1, <3>2, <3>3
    <3> QED
      BY <3>4 DEF Times
  <2>2. CASE ~Mark
    BY <2>2 DEF WorkerNext, TakeItem, AccountInfo, WalkPage, WalkMedia, Stories,
         TakePass, AccountFails, WalkPageFails, WalkMediaFails, WalkDownloadFails,
         StoriesFail, MarkFails, Restart, store, StoreType
  <2> QED
    BY <2>1, <2>2
<1>5. walk.at # "idle" => item.creator \in Creators
  BY ItemCreator
<1>6. cut' \subseteq Creators /\ served' \subseteq Creators /\ lost' \subseteq Creators
  <2>1. CASE AccountFails \/ Stories \/ StoriesFail
    <3>1. item.creator \in Creators
      BY <1>5, <2>1 DEF AccountFails, Stories, StoriesFail
    <3>2. /\ cut' = cut
          /\ served' = served \/ served' = served \cup {item.creator}
          /\ lost' \subseteq lost \cup {item.creator}
      BY <2>1 DEF AccountFails, Stories, StoriesFail
    <3> QED
      BY <3>1, <3>2 DEF PollsType
  <2>2. CASE WalkPageFails \/ WalkMediaFails \/ Restart
    BY <1>5, <2>2 DEF WalkPageFails, WalkMediaFails, Restart, PollsType, WalkShape
  <2>3. CASE \/ WalkDownloadFails \/ MarkFails
             \/ TakeItem \/ AccountInfo \/ WalkPage \/ WalkMedia \/ Mark
             \/ \E c \in Creators : TakePass(c)
    BY <2>3 DEF TakeItem, AccountInfo, WalkPage, WalkMedia, Mark, TakePass,
                WalkDownloadFails, MarkFails, history, PollsType
  <2> QED
    BY <2>1, <2>2, <2>3 DEF WorkerNext
<1>7. /\ todo' \subseteq Creators /\ fresh' \subseteq Creators
      /\ cands' \subseteq Creators /\ flips' \subseteq Creators
      /\ ups' \in Nat /\ faults' \in Nat /\ restarts' \in Nat
  <2>1. CASE WorkerNext
    BY <2>1 DEF WorkerNext, TakeItem, AccountInfo, WalkPage, WalkMedia, Stories,
                Mark, TakePass, polls, bounds, PollsType
  <2>2. CASE \/ AccountFails \/ WalkPageFails \/ WalkMediaFails
             \/ WalkDownloadFails \/ StoriesFail \/ MarkFails
    BY <2>2 DEF AccountFails, WalkPageFails, WalkMediaFails, WalkDownloadFails,
                StoriesFail, MarkFails, polls, Fault, PollsType
  <2>3. CASE Restart
    BY <2>3 DEF Restart, PollsType
  <2> QED
    BY <2>1, <2>2, <2>3
<1>8. page' \in [all : SUBSET (1..Now), pinned : SUBSET (1..Now)]
  <2>1. NoPage \in [all : SUBSET (1..Now), pinned : SUBSET (1..Now)]
    BY DEF NoPage
  <2>2. page' = page \/ page' = NoPage
    BY DEF WorkerNext, TakeItem, AccountInfo, WalkPage, WalkMedia, Stories, Mark,
         TakePass, AccountFails, WalkPageFails, WalkMediaFails, WalkDownloadFails,
         StoriesFail, MarkFails, Restart, polls
  <2> QED
    BY <2>1, <2>2 DEF PollsType
<1>9. queue' \in Seq([kind : Kinds, creator : Creators])
  <2>1. CASE TakeItem
    BY <2>1, QueueHead DEF TakeItem, PollsType
  <2>2. CASE ~TakeItem
    <3>1. queue' = queue \/ queue' = <<>>
      BY <2>2 DEF WorkerNext, AccountInfo, WalkPage, WalkMedia, Stories, Mark,
         TakePass, AccountFails, WalkPageFails, WalkMediaFails, WalkDownloadFails,
         StoriesFail, MarkFails, Restart
    <3> QED
      BY <3>1, EmptyQueue DEF PollsType
  <2> QED
    BY <2>1, <2>2
<1> HIDE DEF Shape
<1>10. StoreType'
  BY <1>1, <1>2, <1>3, <1>4 DEF StoreType, Shape
<1>11. PollsType'
  BY <1>1, <1>6, <1>7, <1>8, <1>9 DEF PollsType
<1> QED
  BY <1>10, <1>11

\* No step leaves them.
LEMMA TypeStep == Shape /\ [Next]_vars => Shape'
<1> SUFFICES ASSUME Shape, [Next]_vars PROVE Shape'
  OBVIOUS
<1>1. CASE WorldNext
  BY <1>1, TypeWorld
<1>2. CASE \/ WorkerNext \/ AccountFails \/ WalkPageFails \/ WalkMediaFails
           \/ WalkDownloadFails \/ StoriesFail \/ MarkFails \/ Restart
  BY <1>2, TypeWorker, TypeRest DEF Shape
<1>3. CASE \/ PollHome \/ PollStories
           \/ \E c \in Creators : \/ Examine(c) \/ ExamineFails(c)
                                   \/ PollStoriesSkips(c) \/ PutStories(c)
           \/ \E C \in SUBSET Creators : PollStoriesBreaks(C)
  BY <1>3, TypePolls
<1>4. CASE UNCHANGED vars
  BY <1>4 DEF vars, server, store, polls, history, bounds, Shape, StoreType, PollsType,
              WorkerType, WalkShape, Now
<1> QED
  BY <1>1, <1>2, <1>3, <1>4 DEF Next, HomeNext, StoryNext, FaultNext

\* The variables keep their types, and the worker its shape, whatever fails.
LEMMA ShapeHolds == Spec => []Shape
<1> QED
  BY TypeStart, TypeStep, PTL DEF Spec

\* Every variable keeps its type.
THEOREM TypeCorrect == Spec => []TypeOK
<1>1. Shape => TypeOK
  BY TypeParts DEF Shape
<1> QED
  BY <1>1, ShapeHolds, PTL

-----------------------------------------------------------------------------
(* Media.                                                                  *)

\* A step keeps HadUnlessMissed: posts become known only as the page in hand,
\* and a page leaves the hand as downloaded or as missed.
LEMMA HadStep == HadUnlessMissed /\ Shape /\ [Next]_vars => HadUnlessMissed'
<1> SUFFICES ASSUME HadUnlessMissed, Shape, [Next]_vars PROVE HadUnlessMissed'
  OBVIOUS
<1> USE DEF HadUnlessMissed
<1>0. walk.at # "media" => walk.page = {}
  BY DEF Shape, WalkShape
<1>1. CASE WorldNext
  BY <1>1 DEF WorldNext, Publish, Pin, StoryUp, StoryDown, store, history
<1>2. CASE \/ PollHome \/ PollStories
           \/ \E c \in Creators : \/ Examine(c) \/ ExamineFails(c)
                                   \/ PollStoriesSkips(c) \/ PutStories(c)
           \/ \E C \in SUBSET Creators : PollStoriesBreaks(C)
  BY <1>2 DEF PollHome, PollStories, Examine, ExamineFails, Examined,
              PollStoriesSkips, PutStories, PollStoriesBreaks, StoriesOver, store,
              history
<1>3. CASE WalkPage
  <2>1. walk.page = {}
    BY <1>0, <1>3 DEF WalkPage
  <2>2. have' = have /\ missed' = missed
    BY <1>3 DEF WalkPage, history
  <2>3. \/ known' = known
        \/ known' = known \cup NextPage /\ walk' = [walk EXCEPT !.at = "media", !.page = NextPage]
    BY <1>3 DEF WalkPage
  <2>4. walk' = [walk EXCEPT !.at = "media", !.page = NextPage] => walk'.page = NextPage
    BY DEF Shape, WorkerType
  <2> QED
    BY <2>1, <2>2, <2>3, <2>4
<1>4. CASE WalkMedia \/ WalkMediaFails \/ WalkDownloadFails \/ Restart
  BY <1>4 DEF WalkMedia, WalkMediaFails, WalkDownloadFails, Restart, store, history
<1>5. CASE \/ TakeItem \/ AccountInfo \/ Stories \/ Mark
           \/ \E c \in Creators : TakePass(c)
           \/ AccountFails \/ WalkPageFails \/ StoriesFail \/ MarkFails
  <2>1. UNCHANGED <<known, have, missed>>
    BY <1>5 DEF TakeItem, AccountInfo, Stories, Mark, TakePass, AccountFails,
                WalkPageFails, StoriesFail, MarkFails, store, history
  <2>2. walk.at # "media"
    BY <1>5 DEF TakeItem, AccountInfo, Stories, Mark, TakePass, AccountFails,
                WalkPageFails, StoriesFail, MarkFails, Shape, WalkShape
  <2> QED
    BY <1>0, <2>1, <2>2
<1>6. CASE UNCHANGED vars
  BY <1>6 DEF vars, store, history
<1> QED
  BY <1>1, <1>2, <1>3, <1>4, <1>5, <1>6
  DEF Next, HomeNext, StoryNext, WorkerNext, FaultNext

\* A known post has its media, unless they are being fetched or a failure or a
\* restart met them: download_timeline saves a page before its media.
THEOREM MediaCorrect == Spec => []HadUnlessMissed
<1>1. Init => HadUnlessMissed
  BY DEF Init, HadUnlessMissed
<1> QED
  BY <1>1, HadStep, ShapeHolds, PTL DEF Spec

-----------------------------------------------------------------------------
(* Stories.                                                                *)

\* What was in a queue, and what is put into it, is in it after the put.
LEMMA AppendIn ==
    ASSUME NEW S, NEW q \in Seq(S), NEW i \in S, NEW x,
           x = i \/ \E k \in 1..Len(q) : q[k] = x
    PROVE  \E k \in 1..Len(Append(q, i)) : Append(q, i)[k] = x
<1>1. Len(Append(q, i)) = Len(q) + 1 /\ Len(q) \in Nat
  OBVIOUS
<1>2. CASE x = i
  <2>1. Append(q, i)[Len(q) + 1] = x
    BY <1>2
  <2> QED
    BY <1>1, <2>1
<1>3. CASE \E k \in 1..Len(q) : q[k] = x
  <2>1. PICK k \in 1..Len(q) : q[k] = x
    BY <1>3
  <2>2. Append(q, i)[k] = x /\ k \in 1..(Len(q) + 1)
    BY <1>1, <2>1
  <2> QED
    BY <1>1, <2>2
<1> QED
  BY <1>2, <1>3

\* What is in a queue is its head or in the rest.
LEMMA TailIn ==
    ASSUME NEW S, NEW q \in Seq(S), q # <<>>, NEW k \in 1..Len(q)
    PROVE  q[k] = Head(q) \/ \E j \in 1..Len(Tail(q)) : Tail(q)[j] = q[k]
<1>1. Len(Tail(q)) = Len(q) - 1 /\ Len(q) \in Nat
  OBVIOUS
<1>2. CASE k = 1
  BY <1>2
<1>3. CASE k # 1
  <2>1. k - 1 \in 1..Len(Tail(q))
    BY <1>1, <1>3
  <2>2. Tail(q)[k - 1] = q[k]
    BY <1>1, <1>3, <2>1
  <2> QED
    BY <2>1, <2>2
<1> QED
  BY <1>2, <1>3

\* Where the stories of a creator are.  A stories item and main's pass come to
\* the stories before they can be marked as processed, and a stories item
\* never walks the timeline: without that, the step after a walk could leave
\* the stories out.
Serving(c) == Working(c) /\ item.kind # "timeline" /\ walk.at # "mark"
Accounted(c) ==
    c \in served \cup lost \cup flips \cup todo \/ Queued("stories", c) \/ Serving(c)
StoriesInv ==
    /\ \A c \in seen \cap Scope : Accounted(c)
    /\ walk.at \in {"page", "media"} => item.kind # "stories"

\* Stories that are queued stay queued when another item is put.
LEMMA QueuedKept ==
    ASSUME Shape, NEW d \in Creators, NEW kind \in Kinds, NEW c, Queued("stories", c),
           Enqueue(kind, d)
    PROVE  Queued("stories", c)'
<1> DEFINE S == [kind : Kinds, creator : Creators]
           i == [kind |-> kind, creator |-> d]
           x == [kind |-> "stories", creator |-> c]
<1>1. queue \in Seq(S) /\ i \in S /\ queue' = Append(queue, i)
  BY DEF Shape, PollsType, Enqueue
<1>2. \E k \in 1..Len(queue) : queue[k] = x
  BY DEF Queued
<1> HIDE DEF S, i, x
<1>3. \E k \in 1..Len(queue') : queue'[k] = x
  BY <1>1, <1>2, AppendIn
<1> QED
  BY <1>3 DEF Queued, x

\* Stories that are put are queued.
LEMMA QueuedNow ==
    ASSUME Shape, NEW c \in Creators, Enqueue("stories", c)
    PROVE  Queued("stories", c)'
<1> DEFINE S == [kind : Kinds, creator : Creators]
           x == [kind |-> "stories", creator |-> c]
<1>1. queue \in Seq(S) /\ x \in S /\ queue' = Append(queue, x)
  BY DEF Shape, PollsType, Enqueue, Kinds
<1> HIDE DEF S, x
<1>3. \E k \in 1..Len(queue') : queue'[k] = x
  BY <1>1, AppendIn
<1> QED
  BY <1>3 DEF Queued, x

\* What a step on which the stories of c do not depend keeps.
LEMMA AccountedKept ==
    ASSUME NEW c, Accounted(c),
           served \cup lost \cup flips \cup todo \subseteq served' \cup lost' \cup flips' \cup todo',
           UNCHANGED <<queue, item, walk>>
    PROVE  Accounted(c)'
BY DEF Accounted, Serving, Queued, Working

\* Fansly and stuttering leave the stories where they are.
LEMMA StoriesWorld == StoriesInv /\ (WorldNext \/ UNCHANGED vars) => StoriesInv'
<1> SUFFICES ASSUME StoriesInv, WorldNext \/ UNCHANGED vars PROVE StoriesInv'
  OBVIOUS
<1>1. UNCHANGED <<seen, served, lost, flips, todo, queue, item, walk>>
  BY DEF WorldNext, Publish, Pin, StoryUp, StoryDown, vars, store, polls, history
<1> QED
  BY <1>1, AccountedKept DEF StoriesInv

\* The polls lose no stories: the home poll only queues, and a story poll or a
\* put moves them on.
LEMMA StoriesPolls ==
    ASSUME StoriesInv, Shape,
           \/ PollHome \/ PollStories
           \/ \E c \in Creators : \/ Examine(c) \/ ExamineFails(c)
                                   \/ PollStoriesSkips(c) \/ PutStories(c)
           \/ \E C \in SUBSET Creators : PollStoriesBreaks(C)
    PROVE  StoriesInv'
<1>0. item' = item /\ walk' = walk /\ todo' = todo
  BY DEF PollHome, PollStories, Examine, ExamineFails, Examined, PollStoriesSkips,
         PutStories, PollStoriesBreaks
<1>1. "timeline" \in Kinds /\ "stories" \in Kinds
  BY DEF Kinds
<1> SUFFICES ASSUME NEW c \in seen' \cap Scope PROVE Accounted(c)'
  BY <1>0 DEF StoriesInv
<1>2. CASE PollHome
  BY <1>0, <1>2, AccountedKept DEF PollHome, store, history, StoriesInv
<1>3. CASE \E d \in Creators : Examine(d) \/ ExamineFails(d)
  <2>1. PICK d \in Creators : Examine(d) \/ ExamineFails(d)
    BY <1>3
  <2>2. UNCHANGED <<seen, served, lost, flips>>
    BY <2>1 DEF Examine, ExamineFails, Examined, store, history
  <2>3. Accounted(c)
    BY <2>2 DEF StoriesInv
  <2>4. queue' = queue \/ Enqueue("timeline", d)
    BY <2>1 DEF Examine, ExamineFails
  <2>5. Queued("stories", c) => Queued("stories", c)'
    BY <1>1, <2>4, QueuedKept DEF Queued
  <2> QED
    BY <1>0, <2>2, <2>3, <2>5 DEF Accounted, Serving, Working
<1>4. CASE \E d \in Creators : PutStories(d)
  <2>1. PICK d \in Creators : PutStories(d)
    BY <1>4
  <2>2. UNCHANGED <<seen, served, lost>> /\ flips' = flips \ {d}
    BY <2>1 DEF PutStories, store, history
  <2>3. Accounted(c)
    BY <2>2 DEF StoriesInv
  <2>4. CASE c = d
    BY <2>1, <2>4, QueuedNow DEF PutStories, Accounted
  <2>5. CASE c # d
    <3>1. queue' = queue \/ Enqueue("stories", d)
      BY <2>1 DEF PutStories
    <3>2. Queued("stories", c) => Queued("stories", c)'
      BY <1>1, <3>1, QueuedKept DEF Queued
    <3> QED
      BY <1>0, <2>2, <2>3, <2>5, <3>2 DEF Accounted, Serving, Working
  <2> QED
    BY <2>4, <2>5
<1>5. CASE PollStories
  <2>1. flips = {} /\ flips' = active \ seen /\ seen' = active /\ queue' = queue
    BY <1>5 DEF PollStories
  <2>2. served' = served \ (Creators \ active) /\ lost' = lost \ (Creators \ active)
    BY <1>5 DEF PollStories, StoriesOver
  <2>3. CASE c \notin seen
    BY <2>1, <2>3 DEF Accounted
  <2>4. CASE c \in seen
    BY <1>0, <2>1, <2>2, <2>4 DEF StoriesInv, Accounted, Serving, Working, Queued
  <2> QED
    BY <2>3, <2>4
<1>6. CASE \E d \in Creators : PollStoriesSkips(d)
  <2>0. PICK d \in Creators : PollStoriesSkips(d)
    BY <1>6
  <2>1. /\ flips = {} /\ flips' = (active \ seen) \ {d} /\ queue' = queue
        /\ seen' = (active \ {d}) \cup (seen \cap {d})
    BY <2>0 DEF PollStoriesSkips
  <2>2. /\ served' = served \ (Creators \ (active \cup {d}))
        /\ lost' = lost \ (Creators \ (active \cup {d}))
    BY <2>0 DEF PollStoriesSkips, StoriesOver
  <2>3. CASE c \notin seen
    BY <2>1, <2>3 DEF Accounted
  <2>4. CASE c \in seen
    <3>1. Accounted(c) /\ c \in active \cup {d}
      BY <2>1, <2>4 DEF StoriesInv
    <3> QED
      BY <1>0, <2>1, <2>2, <3>1 DEF Accounted, Serving, Working, Queued
  <2> QED
    BY <2>3, <2>4
<1>7. CASE \E C \in SUBSET Creators : PollStoriesBreaks(C)
  <2>0. PICK C \in SUBSET Creators : PollStoriesBreaks(C)
    BY <1>7
  <2>1. /\ seen' = (seen \ C) \cup (active \cap C) /\ queue' = queue /\ flips' = flips
        /\ served' = served \ (C \ active)
        /\ lost' = (lost \cup ((active \ seen) \cap C)) \ (C \ active)
    BY <2>0 DEF PollStoriesBreaks, polls
  <2>2. CASE c \notin seen
    BY <2>1, <2>2 DEF Accounted
  <2>3. CASE c \in seen
    <3>1. Accounted(c) /\ c \notin C \ active
      BY <2>1, <2>3 DEF StoriesInv
    <3> QED
      BY <1>0, <2>1, <3>1 DEF Accounted, Serving, Working, Queued
  <2> QED
    BY <2>2, <2>3
<1> QED
  BY <1>2, <1>3, <1>4, <1>5, <1>6, <1>7

\* The worker, main's pass, their faults and a restart lose no stories.
LEMMA StoriesWorker ==
    ASSUME StoriesInv, Shape,
           \/ WorkerNext \/ AccountFails \/ WalkPageFails \/ WalkMediaFails
           \/ WalkDownloadFails \/ StoriesFail \/ MarkFails \/ Restart
    PROVE  StoriesInv'
<1>0. seen' = seen
  BY DEF WorkerNext, TakeItem, AccountInfo, WalkPage, WalkMedia, Stories, Mark,
         TakePass, AccountFails, WalkPageFails, WalkMediaFails, WalkDownloadFails,
         StoriesFail, MarkFails, Restart, store
<1>1. ASSUME NEW c \in Creators, TakePass(c) PROVE StoriesInv'
  <2>1. /\ todo' = todo \ {c} /\ item = NoItem /\ queue' = queue
        /\ item' = [kind |-> "pass", creator |-> c] /\ walk'.at = "account"
        /\ UNCHANGED <<served, lost, flips>>
    BY <1>1 DEF TakePass, Start, Resting, history, polls
  <2>2. Working(c)' /\ item'.kind = "pass"
    BY <2>1 DEF Working, NoItem
  <2> QED
    BY <1>0, <2>1, <2>2 DEF StoriesInv, Accounted, Serving, Working, Queued
<1>2. ASSUME TakeItem PROVE StoriesInv'
  <2>1. /\ item = NoItem /\ queue # <<>> /\ item' = Head(queue) /\ walk'.at = "account"
        /\ queue' = Tail(queue) /\ UNCHANGED <<served, lost, flips, todo>>
    BY <1>2 DEF TakeItem, Start, Resting, history, polls
  <2> SUFFICES ASSUME NEW c \in seen \cap Scope PROVE Accounted(c)'
    BY <1>0, <2>1 DEF StoriesInv
  <2>2. Accounted(c) /\ ~Serving(c)
    BY <2>1 DEF StoriesInv, Serving, Working
  <2>3. CASE Queued("stories", c)
    <3> DEFINE x == [kind |-> "stories", creator |-> c]
    <3>1. PICK k \in 1..Len(queue) : queue[k] = x
      BY <2>3 DEF Queued
    <3>2. Head(queue) = x \/ \E j \in 1..Len(Tail(queue)) : Tail(queue)[j] = x
      <4> HIDE DEF x
      <4> QED
        BY <2>1, <3>1, TailIn DEF Shape, PollsType
    <3>3. CASE Head(queue) = x
      <4>1. Serving(c)'
        BY <2>1, <3>3 DEF Serving, Working, NoItem
      <4> QED
        BY <4>1 DEF Accounted
    <3>4. CASE \E j \in 1..Len(Tail(queue)) : Tail(queue)[j] = x
      BY <2>1, <3>4 DEF Accounted, Queued
    <3> QED
      BY <3>2, <3>3, <3>4
  <2>4. CASE ~Queued("stories", c)
    BY <2>1, <2>2, <2>4 DEF Accounted
  <2> QED
    BY <2>3, <2>4
<1>3. ASSUME AccountInfo PROVE StoriesInv'
  <2>1. /\ UNCHANGED <<served, lost, flips, todo, queue, item>>
        /\ walk' = [walk EXCEPT !.at = IF item.kind = "stories" THEN "stories" ELSE "page"]
    BY <1>3 DEF AccountInfo, history, polls
  <2>2. walk'.at = IF item.kind = "stories" THEN "stories" ELSE "page"
    BY <2>1 DEF Shape, WorkerType
  <2> QED
    BY <1>0, <2>1, <2>2 DEF StoriesInv, Accounted, Serving, Working, Queued
<1>4. ASSUME WalkPage \/ WalkPageFails \/ WalkMedia \/ WalkMediaFails \/ WalkDownloadFails
      PROVE  StoriesInv'
  <2>1. /\ walk.at \in {"page", "media"}
        /\ UNCHANGED <<served, lost, flips, todo, queue, item>>
    BY <1>4 DEF WalkPage, WalkPageFails, WalkMedia, WalkMediaFails, WalkDownloadFails,
                history, polls
  <2>2. item.kind # "stories"
    BY <2>1 DEF StoriesInv
  <2>3. walk' = AfterWalk \/ walk'.at \in {"page", "media"}
    <3>1. walk' = [walk EXCEPT !.at = "media", !.page = NextPage] => walk'.at = "media"
      BY DEF Shape, WorkerType
    <3>2. TurnPage => walk'.at = "page"
      BY DEF TurnPage
    <3> QED
      BY <1>4, <3>1, <3>2 DEF WalkPage, WalkPageFails, WalkMedia, WalkMediaFails,
                              WalkDownloadFails
  <2>4. item # NoItem
    BY <2>1 DEF Shape, WalkShape
  <2>5. item.kind # "timeline" => walk'.at # "mark"
    <3>1. item.kind \in Kinds
      BY <2>4 DEF Shape, WorkerType
    <3> QED
      BY <2>2, <2>3, <3>1 DEF AfterWalk, Resting, Kinds
  <2> QED
    BY <1>0, <2>1, <2>2, <2>5 DEF StoriesInv, Accounted, Serving, Working, Queued
<1>5. ASSUME Stories \/ StoriesFail PROVE StoriesInv'
  <2>1. /\ UNCHANGED <<flips, todo, queue>>
        /\ served' \cup lost' = served \cup lost \cup {item.creator}
    BY <1>5 DEF Stories, StoriesFail, polls
  <2>2. (walk' = Resting /\ item' = NoItem) \/ walk' = [Resting EXCEPT !.at = "mark"]
    BY <1>5 DEF Stories, StoriesFail, AfterStories, Finish
  <2>3. walk'.at \notin {"page", "media"}
    BY <2>2 DEF Resting
  <2> QED
    BY <1>0, <2>1, <2>3 DEF StoriesInv, Accounted, Serving, Working, Queued
<1>6. ASSUME AccountFails PROVE StoriesInv'
  <2>1. /\ UNCHANGED <<flips, todo, queue, served>> /\ walk' = Resting
        /\ lost \subseteq lost'
        /\ item.kind # "timeline" => item.creator \in lost' \cup served
    BY <1>6 DEF AccountFails, Finish, polls
  <2> QED
    BY <1>0, <2>1 DEF StoriesInv, Accounted, Serving, Working, Queued, Resting
<1>7. ASSUME Mark \/ MarkFails PROVE StoriesInv'
  <2>1. /\ UNCHANGED <<flips, todo, queue, served, lost>> /\ walk' = Resting
        /\ walk.at = "mark"
    BY <1>7 DEF Mark, MarkFails, Finish, polls, history
  <2> QED
    BY <1>0, <2>1 DEF StoriesInv, Accounted, Serving, Working, Queued, Resting
<1>8. ASSUME Restart PROVE StoriesInv'
  BY <1>0, <1>8 DEF Restart, Finish, Resting, StoriesInv, Accounted
<1> QED
  BY <1>1, <1>2, <1>3, <1>4, <1>5, <1>6, <1>7, <1>8 DEF WorkerNext

\* The stories of a creator whose row says active are fetched, are about to be,
\* or were given up because of a failure that was seen: the poll saves what it
\* saw before it queues anything.
THEOREM StoriesCorrect == Spec => []StoriesAccounted
<1>1. Init => StoriesInv
  BY DEF Init, StoriesInv, Resting
<1>2. StoriesInv /\ Shape /\ [Next]_vars => StoriesInv'
  <2>1. CASE WorldNext \/ UNCHANGED vars
    BY <2>1, StoriesWorld
  <2>2. CASE \/ WorkerNext \/ AccountFails \/ WalkPageFails \/ WalkMediaFails
             \/ WalkDownloadFails \/ StoriesFail \/ MarkFails \/ Restart
    BY <2>2, StoriesWorker
  <2>3. CASE \/ PollHome \/ PollStories
             \/ \E c \in Creators : \/ Examine(c) \/ ExamineFails(c)
                                     \/ PollStoriesSkips(c) \/ PutStories(c)
             \/ \E C \in SUBSET Creators : PollStoriesBreaks(C)
    BY <2>3, StoriesPolls
  <2> QED
    BY <2>1, <2>2, <2>3 DEF Next, HomeNext, StoryNext, FaultNext
<1>3. StoriesInv => StoriesAccounted
  BY DEF StoriesInv, StoriesAccounted, Accounted, Serving
<1> QED
  BY <1>1, <1>2, <1>3, ShapeHolds, PTL DEF Spec

-----------------------------------------------------------------------------
(* Gaps.                                                                   *)

\* Of the posts of c, those in K reach down without a gap, save that there may
\* be one just below y.
Closed(c, K, y) ==
    \A n, m \in PostsOf(c) : n \in K /\ m < n /\ (n < y \/ m >= y) => m \in K

\* How far down the walk of the timeline of c has come; 0 if there is none, or
\* if it has not seen a page yet.
Edge(c) == IF ~Walking(c) THEN 0
           ELSE IF walk.at = "media" THEN Min(walk.page) ELSE walk.cursor

GapInv == \A c \in Creators : c \in cut \/ Closed(c, known, Edge(c))

\* A page is made of posts below the cursor, the newest of them, and it is empty
\* only when there are none.
LEMMA PageType ==
    ASSUME Shape, NEW c, NEW y \in Nat
    PROVE  LET S == {n \in PostsOf(c) : y = 0 \/ n < y}
               P == TimelinePages(c, y, 1)
           IN /\ S \in SUBSET (1..Now) /\ P \subseteq S
              /\ \A n \in P, m \in S : m > n => m \in P
              /\ S # {} => P # {}
<1> DEFINE S == {n \in PostsOf(c) : y = 0 \/ n < y}
           P == TimelinePages(c, y, 1)
<1>1. Now \in Nat /\ S \in SUBSET (1..Now)
  BY PostsType DEF Shape, StoreType
<1>2. 1 * PageSize = PageSize /\ PageSize \in Nat /\ PageSize > 0
  BY DEF DiscoveryAssumption
<1>3. P = Newest(S, PageSize)
  BY <1>2 DEF TimelinePages
<1> HIDE DEF S, P
<1>4. /\ P \subseteq S /\ \A n \in P, m \in S : m > n => m \in P
      /\ S # {} => P # {}
  BY <1>1, <1>2, <1>3, NewestType
<1> QED
  BY <1>1, <1>4 DEF S, P

\* A walk that finds no page, or one of known posts, has closed the gap.
LEMMA GapClosed ==
    ASSUME Shape, NEW c, NEW y \in Nat, Closed(c, known, y),
           TimelinePages(c, y, 1) \subseteq known
    PROVE  Closed(c, known, 0)
<1> DEFINE S == {n \in PostsOf(c) : y = 0 \/ n < y}
           P == TimelinePages(c, y, 1)
<1>1. /\ P \subseteq S /\ S \in SUBSET (1..Now) /\ (S # {} => P # {})
      /\ \A n \in P, m \in S : m > n => m \in P
  BY PageType
<1>2. PostsOf(c) \in SUBSET Nat
  BY PostsType DEF Shape, StoreType
<1>3. P \subseteq known
  OBVIOUS
<1> HIDE DEF P
<1> SUFFICES ASSUME NEW n \in PostsOf(c), NEW m \in PostsOf(c), n \in known, m < n
             PROVE  m \in known
  BY DEF Closed
<1>4. CASE n < y \/ m >= y
  BY <1>4 DEF Closed
<1>5. CASE ~(n < y \/ m >= y)
  <2>1. m < y /\ m \in S
    BY <1>2, <1>5
  <2>2. PICK q \in P : TRUE
    BY <1>1, <2>1
  <2>3. q \in PostsOf(c) /\ q \in known /\ q \in S /\ (y = 0 \/ q < y)
    BY <1>1, <1>3, <2>2
  <2>4. CASE m \in P
    BY <1>3, <2>4
  <2>5. CASE m \notin P
    <3>1. ~(m > q) /\ m # q
      BY <1>1, <2>1, <2>2, <2>5
    <3>2. m < q
      BY <1>2, <2>3, <3>1
    <3>3. q < y
      BY <1>2, <2>1, <2>3
    <3> QED
      BY <2>3, <3>2, <3>3 DEF Closed
  <2> QED
    BY <2>4, <2>5
<1> QED
  BY <1>4, <1>5

\* A page that is saved moves the gap to just below its oldest post.
LEMMA GapMoves ==
    ASSUME Shape, NEW c, NEW y \in Nat, Closed(c, known, y),
           TimelinePages(c, y, 1) # {}
    PROVE  LET P == TimelinePages(c, y, 1) IN Closed(c, known \cup P, Min(P))
<1> DEFINE S == {n \in PostsOf(c) : y = 0 \/ n < y}
           P == TimelinePages(c, y, 1)
<1>1. /\ P \subseteq S /\ S \in SUBSET (1..Now)
      /\ \A n \in P, m \in S : m > n => m \in P
  BY PageType
<1>2. PostsOf(c) \in SUBSET Nat /\ P # {}
  BY PostsType DEF Shape, StoreType
<1> HIDE DEF P
<1>3. P \in SUBSET Nat
  BY <1>1
<1>4. Min(P) \in P /\ \A n \in P : Min(P) <= n
  BY <1>2, <1>3, MinType
<1> DEFINE z == Min(P)
<1>5. z \in Nat /\ z \in P /\ (y = 0 \/ z < y) /\ \A n \in P : z <= n
  BY <1>1, <1>3, <1>4
<1> HIDE DEF z
<1>6. ASSUME NEW n \in PostsOf(c), NEW m \in PostsOf(c), n \in known \cup P, m < n,
             n < z \/ m >= z
      PROVE  m \in known \cup P
  <2>1. CASE n < z
    <3>1. n \notin P
      BY <1>2, <1>5, <2>1
    <3>2. n < y \/ m >= y
      BY <1>2, <1>5, <2>1
    <3> QED
      BY <1>6, <3>1, <3>2 DEF Closed
  <2>2. CASE m >= z /\ m \in S
    <3>1. m = z \/ m > z
      BY <1>2, <1>5, <2>2
    <3> QED
      BY <1>1, <1>5, <2>2, <3>1
  <2>3. CASE m >= z /\ m \notin S
    <3>1. y # 0 /\ m >= y /\ n >= y
      BY <1>2, <1>6, <2>3
    <3>2. n \notin P
      BY <1>1, <1>2, <3>1
    <3> QED
      BY <1>6, <3>1, <3>2 DEF Closed
  <2> QED
    BY <1>6, <2>1, <2>2, <2>3
<1> QED
  BY <1>6 DEF Closed, z, P

\* A creator whose walk does not move keeps what it has.
LEMMA GapKept ==
    ASSUME NEW c, c \in cut \/ Closed(c, known, Edge(c)), posts' = posts, cut \subseteq cut',
           known' \cap PostsOf(c) = known \cap PostsOf(c),
           c \in cut' \/ Edge(c)' = Edge(c)
    PROVE  (c \in cut \/ Closed(c, known, Edge(c)))'
<1>1. PostsOf(c)' = PostsOf(c)
  BY DEF PostsOf, Now
<1>2. CASE c \in cut'
  BY <1>2
<1>3. CASE c \notin cut'
  <2>1. Closed(c, known, Edge(c)) /\ Edge(c)' = Edge(c)
    BY <1>3
  <2> QED
    BY <1>1, <2>1 DEF Closed
<1> QED
  BY <1>2, <1>3

\* A new post is unknown, and newer than all.
LEMMA GapPublish ==
    ASSUME GapInv, Shape, NEW d \in Creators, Publish(d)
    PROVE  GapInv'
<1> SUFFICES ASSUME NEW c \in Creators PROVE (c \in cut \/ Closed(c, known, Edge(c)))'
  BY DEF GapInv
<1>1. UNCHANGED <<known, cut, walk, item>> /\ posts' = Append(posts, d)
  BY DEF Publish, store, history
<1>2. Edge(c)' = Edge(c)
  BY <1>1 DEF Edge, Walking, Working, Min
<1>3. posts \in Seq(Creators) /\ Now \in Nat /\ known \subseteq 1..Now
  BY PostsType DEF Shape, StoreType
<1>4. Now' = Now + 1 /\ \A n \in 1..Now : posts'[n] = posts[n]
  BY <1>1, <1>3 DEF Now
<1>5. ASSUME NEW n \in 1..Now PROVE n \in PostsOf(c)' <=> n \in PostsOf(c)
  BY <1>3, <1>4 DEF PostsOf
<1>6. ASSUME NEW n \in PostsOf(c)', NEW m \in PostsOf(c)', n \in known, m < n
      PROVE  n \in PostsOf(c) /\ m \in PostsOf(c)
  <2>1. n \in 1..Now
    BY <1>3, <1>6
  <2>2. m \in 1..Now
    BY <1>3, <1>4, <1>6, <2>1 DEF PostsOf
  <2> QED
    BY <1>5, <1>6, <2>1, <2>2
<1> QED
  BY <1>1, <1>2, <1>6 DEF GapInv, Closed

\* Nothing but the walk touches the posts of a creator.
LEMMA GapOthers ==
    ASSUME GapInv, UNCHANGED <<posts, known, cut, item, walk>>
    PROVE  GapInv'
<1>1. \A c : Edge(c)' = Edge(c)
  BY DEF Edge, Walking, Working, Min
<1> QED
  BY <1>1, GapKept DEF GapInv

\* A page moves the edge of the creator in hand and leaves the others alone.
LEMMA GapWalkPage ==
    ASSUME GapInv, Shape, WalkPage
    PROVE  GapInv'
<1>1. /\ walk.at = "page" /\ posts' = posts /\ cut' = cut /\ item' = item
  BY DEF WalkPage, server, history
<1>2. item # NoItem /\ walk.cursor \in Nat
  BY <1>1 DEF Shape, WalkShape, WorkerType
<1> DEFINE d == item.creator
           y == walk.cursor
           P == TimelinePages(d, y, 1)
<1>3. P = NextPage /\ P \subseteq PostsOf(d)
  BY PostsType DEF NextPage, Shape, StoreType
<1>4. Edge(d) = y /\ Walking(d)
  BY <1>1, <1>2 DEF Edge, Walking, Working
<1> SUFFICES ASSUME NEW c \in Creators PROVE (c \in cut \/ Closed(c, known, Edge(c)))'
  BY DEF GapInv
<1>5. PostsOf(c)' = PostsOf(c)
  BY <1>1 DEF PostsOf, Now
<1>6. CASE c # d
  <2>1. Edge(c) = 0 /\ Edge(c)' = 0
    BY <1>1, <1>6 DEF Edge, Walking, Working
  <2>2. P \cap PostsOf(c) = {}
    BY <1>3, <1>6 DEF PostsOf
  <2>3. known' = known \/ known' = known \cup P
    BY <1>3 DEF WalkPage
  <2>4. known' \cap PostsOf(c) = known \cap PostsOf(c)
    BY <2>2, <2>3
  <2> HIDE DEF P
  <2> QED
    BY <1>1, <2>1, <2>4, GapKept DEF GapInv
<1>7. CASE c = d /\ c \notin cut
  <2>1. Closed(d, known, y)
    BY <1>4, <1>7 DEF GapInv
  <2>2. CASE walk' = AfterWalk /\ known' = known /\ P \subseteq known
    <3>1. Closed(d, known, 0)
      BY <1>2, <2>1, <2>2, GapClosed
    <3>2. walk'.at \notin {"page", "media"}
      BY <2>2 DEF AfterWalk, Resting
    <3>3. Edge(c)' = 0
      BY <3>2 DEF Edge, Walking
    <3> QED
      BY <1>5, <1>7, <2>2, <3>1, <3>3 DEF Closed
  <2>3. CASE /\ P # {} /\ known' = known \cup P
             /\ walk' = [walk EXCEPT !.at = "media", !.page = P]
    <3>1. Closed(d, known \cup P, Min(P))
      BY <1>2, <2>1, <2>3, GapMoves
    <3> HIDE DEF P
    <3>2. walk'.at = "media" /\ walk'.page = P
      BY <2>3 DEF Shape, WorkerType
    <3>3. Edge(c)' = Min(P)
      BY <1>1, <1>2, <1>7, <3>2 DEF Edge, Walking, Working
    <3> QED
      BY <1>5, <1>7, <2>3, <3>1, <3>3 DEF Closed
  <2> QED
    BY <1>3, <2>2, <2>3 DEF WalkPage
<1> QED
  BY <1>1, <1>6, <1>7

\* The other steps of the worker: the edge stays, or it becomes 0 for a creator
\* whose walk had seen no page or is counted as cut.
LEMMA GapWorker ==
    ASSUME GapInv, Shape,
           \/ TakeItem \/ AccountInfo \/ WalkMedia \/ Stories \/ Mark
           \/ \E c \in Creators : TakePass(c)
           \/ AccountFails \/ WalkPageFails \/ WalkMediaFails \/ WalkDownloadFails
           \/ StoriesFail \/ MarkFails \/ Restart
    PROVE  GapInv'
<1>1. posts' = posts /\ known' = known /\ cut \subseteq cut'
  BY DEF TakeItem, AccountInfo, WalkMedia, Stories, Mark, TakePass, AccountFails,
         WalkPageFails, WalkMediaFails, WalkDownloadFails, StoriesFail, MarkFails,
         Restart, server, store, history
<1> SUFFICES ASSUME NEW c \in Creators PROVE c \in cut' \/ Edge(c)' = Edge(c)
  BY <1>1, GapKept DEF GapInv
<1>2. CASE \/ TakeItem \/ Stories \/ Mark \/ \E d \in Creators : TakePass(d)
           \/ AccountFails \/ StoriesFail \/ MarkFails
  <2>1. walk.at \notin {"page", "media"}
    BY <1>2 DEF TakeItem, Stories, Mark, TakePass, AccountFails, StoriesFail,
                MarkFails, Shape, WalkShape
  <2>2. walk'.at \notin {"page", "media"}
    BY <1>2 DEF TakeItem, Stories, Mark, TakePass, AccountFails, StoriesFail,
                MarkFails, Start, Finish, AfterStories, Resting
  <2> QED
    BY <2>1, <2>2 DEF Edge, Walking
<1>3. CASE AccountInfo
  <2>1. walk.at = "account" /\ walk.cursor = 0
    BY <1>3 DEF AccountInfo, Shape, WalkShape
  <2>2. walk'.at \in {"stories", "page"} /\ walk'.cursor = 0
    BY <1>3, <2>1 DEF AccountInfo, Shape, WorkerType
  <2> QED
    BY <2>1, <2>2 DEF Edge, Walking
<1>4. CASE WalkMedia \/ WalkDownloadFails
  <2>1. /\ walk.at = "media" /\ item' = item
        /\ walk' = [at |-> "page", cursor |-> Min(walk.page), page |-> {}]
    BY <1>4 DEF WalkMedia, WalkDownloadFails, TurnPage
  <2> QED
    BY <2>1 DEF Edge, Walking, Working
<1>5. CASE WalkPageFails \/ WalkMediaFails
  <2>1. walk'.at \notin {"page", "media"} /\ walk.at \in {"page", "media"}
    BY <1>5 DEF WalkPageFails, WalkMediaFails, AfterWalk, Resting
  <2>2. \/ walk.at = "page" /\ walk.cursor = 0
        \/ item.creator \in cut'
    BY <1>5 DEF WalkPageFails, WalkMediaFails
  <2> QED
    BY <2>1, <2>2 DEF Edge, Walking, Working
<1>6. CASE Restart
  <2>1. walk'.at \notin {"page", "media"}
    BY <1>6 DEF Restart, Finish, Resting
  <2>2. \/ walk.at # "media" /\ walk.cursor = 0
        \/ item.creator \in cut'
    BY <1>6 DEF Restart
  <2> QED
    BY <2>1, <2>2 DEF Edge, Walking, Working
<1> QED
  BY <1>2, <1>3, <1>4, <1>5, <1>6

\* Stopping a walk at the first page of known posts loses nothing, whatever is
\* published, fails or restarts, for every size of a page.
THEOREM GapCorrect == Spec => []NoGapUnlessCut
<1>1. Init => GapInv
  BY DEF Init, GapInv, Closed
<1>2. GapInv /\ Shape /\ [Next]_vars => GapInv'
  <2> SUFFICES ASSUME GapInv, Shape, [Next]_vars PROVE GapInv'
    OBVIOUS
  <2>1. CASE WorldNext
    <3>1. CASE \E c \in Creators : Publish(c)
      BY <3>1, GapPublish
    <3>2. CASE ~\E c \in Creators : Publish(c)
      <4>1. UNCHANGED <<posts, known, cut, item, walk>>
        BY <2>1, <3>2 DEF WorldNext, Pin, StoryUp, StoryDown, store, history
      <4> QED
        BY <4>1, GapOthers
    <3> QED
      BY <3>1, <3>2
  <2>2. CASE \/ PollHome \/ PollStories
             \/ \E c \in Creators : \/ Examine(c) \/ ExamineFails(c)
                                     \/ PollStoriesSkips(c) \/ PutStories(c)
             \/ \E C \in SUBSET Creators : PollStoriesBreaks(C)
    <3>1. UNCHANGED <<posts, known, cut, item, walk>>
      BY <2>2 DEF PollHome, PollStories, Examine, ExamineFails, Examined,
                  PollStoriesSkips, PutStories, PollStoriesBreaks, StoriesOver,
                  server, store, history
    <3> QED
      BY <3>1, GapOthers
  <2>3. CASE WalkPage
    BY <2>3, GapWalkPage
  <2>4. CASE \/ TakeItem \/ AccountInfo \/ WalkMedia \/ Stories \/ Mark
             \/ \E c \in Creators : TakePass(c)
             \/ AccountFails \/ WalkPageFails \/ WalkMediaFails \/ WalkDownloadFails
             \/ StoriesFail \/ MarkFails \/ Restart
    BY <2>4, GapWorker
  <2>5. CASE UNCHANGED vars
    <3>1. UNCHANGED <<posts, known, cut, item, walk>>
      BY <2>5 DEF vars, server, store, history
    <3> QED
      BY <3>1, GapOthers
  <2> QED
    BY <2>1, <2>2, <2>3, <2>4, <2>5
    DEF Next, HomeNext, StoryNext, WorkerNext, FaultNext
<1>3. GapInv /\ Shape => NoGapUnlessCut
  <2> SUFFICES ASSUME GapInv, Shape, NEW c \in Creators, c \notin cut, ~Walking(c),
                      NEW n \in PostsOf(c) \cap known, NEW m \in PostsOf(c), m < n
               PROVE  m \in known
    BY DEF NoGapUnlessCut
  <2>1. Closed(c, known, 0)
    BY DEF GapInv, Edge
  <2>2. n \in Nat /\ m \in Nat
    BY PostsType DEF Shape, StoreType
  <2>3. n \in PostsOf(c) /\ n \in known /\ m >= 0
    BY <2>2
  <2> QED
    BY <2>1, <2>3 DEF Closed
<1> QED
  BY <1>1, <1>2, <1>3, ShapeHolds, PTL DEF Spec

=============================================================================
