---------------------------- MODULE Daemon_proofs ----------------------------
(***************************************************************************)
(* Proofs about the two actors of the daemon.  DaemonRunner, the tasks,    *)
(* their queue and the ways out.  Livestream, the watcher and its          *)
(* recorder: any number of broadcasts, segments, attempts, faults and      *)
(* crashes.  For every value of the constants of both.                     *)
(***************************************************************************)
EXTENDS DaemonRunner, Livestream, WellFoundedInduction, TLAPS

USE RunnerAssumption

-----------------------------------------------------------------------------
(* The daemon's types.                                                     *)

\* A kind and a creator, or no creator, make an item, which is never NoItem.
LEMMA ItemType ==
    ASSUME NEW k \in Kinds, NEW c \in Creators \cup {NoCreator}
    PROVE  /\ [kind |-> k, creator |-> c] \in Item
           /\ [kind |-> k, creator |-> c] # NoItem
BY DEF Item, NoItem, Kinds

\* What is put into a queue of items and taken from it are items.
LEMMA QueueType ==
    ASSUME NEW q \in Seq(Item)
    PROVE  /\ \A i \in Item : Append(q, i) \in Seq(Item)
           /\ q # <<>> => Head(q) \in Item /\ Tail(q) \in Seq(Item)
OBVIOUS

\* Every action preserves the types of the variables.
LEMMA TypeStep == TypeOK /\ [Next]_vars => TypeOK'
<1> SUFFICES ASSUME TypeOK, [Next]_vars PROVE TypeOK'
  OBVIOUS
<1> USE DEF TypeOK, Ended, EXIT_SUCCESS, DAEMON_UNRECOVERABLE, OTHER_EXCEPTION,
            budgetVars, pollVars, wsVars, mainVars, OnSuccess, OnNewContent,
            Goto, Places, Terminal, Tasks, Pollers
<1> DEFINE CandsOK == cands \in [{"timeline", "story"} -> SUBSET Creators]
           FlagsOK == hit \in BOOLEAN /\ refresh \in BOOLEAN /\ stop \in BOOLEAN
<1>1. CASE TickNext
  <2> USE DEF TickQuit, TickUnhide, TickRewire, TickTo
  <2>1. pc' \in [Tasks -> Places]
    BY <1>1 DEF TickNext
  <2>2. CandsOK' /\ FlagsOK'
    BY <1>1 DEF TickNext
  <2> QED
    BY <1>1, <2>1, <2>2 DEF TickNext
<1>2. CASE TimelineNext
  <2>1. CASE TimelinePoll \/ TimelineQuit
    BY <2>1 DEF TimelinePoll, TimelineQuit
  <2>2. CASE TimelineBadPage
    BY <2>2 DEF TimelineBadPage, OnSoftError
  <2>3. ASSUME NEW C \in SUBSET Creators, TimelinePage(C) PROVE TypeOK'
    <3> USE <2>3 DEF TimelinePage
    <3>1. CandsOK' /\ FlagsOK'
      OBVIOUS
    <3>2. pc' \in [Tasks -> Places]
      OBVIOUS
    <3> QED
      BY <3>1, <3>2
  <2>4. ASSUME NEW c \in Creators, TimelineSift(c) PROVE TypeOK'
    <3> PICK should \in BOOLEAN :
         LET any  == hit \/ should
             last == cands["timeline"] = {c}
         IN /\ should => InScopeCreator(c)
            /\ IF should THEN Enqueue("timeline", c) /\ OnSuccess
                         ELSE UNCHANGED <<queue, budgetVars>>
            /\ IF last /\ any THEN OnNewContent ELSE UNCHANGED <<sim, refresh>>
            /\ Goto("timeline", IF last THEN "wait" ELSE "sift")
            /\ hit' = (any /\ ~last)
      BY <2>4 DEF TimelineSift
    <3> cands' = [cands EXCEPT !["timeline"] = @ \ {c}] /\ UNCHANGED <<token, stop, item, wsVars, mainVars, owed>>
      BY <2>4 DEF TimelineSift
    <3>1. CandsOK' /\ FlagsOK'
      OBVIOUS
    <3>2. pc' \in [Tasks -> Places]
      OBVIOUS
    <3>3. queue' \in Seq(Item)
      <4>1. CASE should
        <5>1. [kind |-> "timeline", creator |-> c] \in Item
          BY ItemType DEF Kinds
        <5>2. queue' = Append(queue, [kind |-> "timeline", creator |-> c])
          BY <4>1, Zenon DEF Enqueue
        <5> QED
          BY <5>1, <5>2, QueueType
      <4>2. CASE ~should
        BY <4>2
      <4> QED
        BY <4>1, <4>2
    <3> QED
      BY <3>1, <3>2, <3>3
  <2>5. CASE ScopeLookupFails("timeline")
    BY <2>5 DEF ScopeLookupFails
  <2> QED
    BY <1>2, <2>1, <2>2, <2>3, <2>4, <2>5 DEF TimelineNext
<1>3. CASE StoryNext
  <2>1. CASE StoryPoll \/ StoryQuit
    BY <2>1 DEF StoryPoll, StoryQuit
  <2>2. CASE StoryBadPage
    BY <2>2 DEF StoryBadPage, OnSoftError
  <2>3. ASSUME NEW C \in SUBSET Creators, StoryFlips(C) PROVE TypeOK'
    <3> USE <2>3 DEF StoryFlips
    <3>1. CandsOK' /\ FlagsOK'
      OBVIOUS
    <3>2. pc' \in [Tasks -> Places]
      OBVIOUS
    <3> QED
      BY <3>1, <3>2
  <2>4. ASSUME NEW c \in Creators, StoryPut(c) PROVE TypeOK'
    <3> USE <2>4 DEF StoryPut
    <3>1. CandsOK' /\ FlagsOK'
      OBVIOUS
    <3>2. pc' \in [Tasks -> Places]
      OBVIOUS
    <3>3. queue' \in Seq(Item)
      <4>1. [kind |-> "stories", creator |-> c] \in Item
        BY ItemType DEF Kinds
      <4>2. CASE queue' = Append(queue, [kind |-> "stories", creator |-> c])
        BY <4>1, <4>2, QueueType
      <4>3. CASE queue' = queue
        BY <4>3
      <4> QED
        BY <4>2, <4>3, Zenon DEF Enqueue
    <3> QED
      BY <3>1, <3>2, <3>3
  <2>5. CASE ScopeLookupFails("story")
    BY <2>5 DEF ScopeLookupFails
  <2> QED
    BY <1>3, <2>1, <2>2, <2>3, <2>4, <2>5 DEF StoryNext
<1>4. CASE FollowingNext
  <2> USE DEF FollowingWake, FollowingFetched, FollowingFails, OnSoftError
  <2>1. pc' \in [Tasks -> Places]
    BY <1>4 DEF FollowingNext
  <2>2. CandsOK' /\ FlagsOK'
    BY <1>4 DEF FollowingNext
  <2> QED
    BY <1>4, <2>1, <2>2 DEF FollowingNext
<1>5. CASE WsNext
  <2> USE DEF Delivers, WakeIf, Events
  <2>1. CASE WsNoWork \/ WsDies
    BY <2>1 DEF WsNoWork, WsDies
  <2>2. ASSUME NEW e \in Feed, WsWork(e) PROVE TypeOK'
    <3>1. PICK c \in Targets(e) : Enqueue(WorkOf(e), c)
      BY <2>2 DEF WsWork
    <3>2. WorkOf(e) \in Kinds /\ c \in Creators \cup {NoCreator}
      <4>1. e \in {"Dm", "Deleted", "Purchase", "StoryPurchase", "Follow"}
        BY <2>2 DEF WsWork
      <4> QED
        BY <3>1, <4>1 DEF WorkOf, Kinds, Targets
    <3>3. queue' \in Seq(Item)
      BY <3>1, <3>2, ItemType, QueueType DEF Enqueue
    <3> QED
      BY <2>2, <3>3 DEF WsWork
  <2>3. ASSUME NEW c \in Creators, WsSubscription(c) PROVE TypeOK'
    <3>1. event' \in Item
      BY <2>3, ItemType DEF WsSubscription, WorkOf, Kinds
    <3> QED
      BY <2>3, <3>1 DEF WsSubscription
  <2> QED
    BY <1>5, <2>1, <2>2, <2>3 DEF WsNext
<1>6. CASE WsSubscriptionSaved
  <2>1. queue' \in Seq(Item)
    BY <1>6, QueueType DEF WsSubscriptionSaved
  <2> QED
    BY <1>6, <2>1 DEF WsSubscriptionSaved
<1>7. CASE WorkerNext
  <2> USE DEF ItemDone, WorkerReturns
  <2>1. CASE WorkerTake
    BY <2>1, QueueType DEF WorkerTake
  <2>2. CASE WorkerQuit \/ WorkerAnswered \/ WorkerRefreshed
    BY <2>2 DEF WorkerQuit, WorkerAnswered, WorkerRefreshed
  <2>3. CASE WorkerSkips \/ WorkerNoGroups \/ WorkerDownloaded
    BY <2>3 DEF WorkerSkips, WorkerNoGroups, WorkerDownloaded
  <2>4. CASE WorkerSoftError
    BY <2>4 DEF WorkerSoftError, OnSoftError
  <2>5. CASE WorkerHardError
    BY <2>5 DEF WorkerHardError, OnHardError
  <2> QED
    BY <1>7, <2>1, <2>2, <2>3, <2>4, <2>5 DEF WorkerNext
<1>8. CASE MainNext
  <2> USE DEF Live, Cancelled
  <2>1. ASSUME NEW code \in {EXIT_SUCCESS, DAEMON_UNRECOVERABLE, OTHER_EXCEPTION},
               MainLeave(code)
        PROVE  TypeOK'
    <3> USE <2>1 DEF MainLeave, StopPollers
    <3>1. CandsOK' /\ FlagsOK'
      OBVIOUS
    <3>2. pc' \in [Tasks -> Places]
      BY DEF CancelPollers
    <3> QED
      BY <3>1, <3>2
  <2>2. CASE MainDrained \/ MainDrainRaises \/ MainDrainTimeout \/ MainStopWs
    BY <2>2 DEF MainDrained, MainDrainRaises, MainDrainTimeout, MainStopWs
  <2> QED
    BY <1>8, <2>1, <2>2 DEF MainNext, MainGathered, MainTripped, MainCrashed
<1>9. CASE FirstSigint
  BY <1>9 DEF FirstSigint
<1>10. CASE SecondSigint
  <2> USE <1>10 DEF SecondSigint, StopPollers
  <2>1. CandsOK' /\ FlagsOK'
    OBVIOUS
  <2>2. pc' \in [Tasks -> Places]
    BY DEF Cancelled
  <2> QED
    BY <2>1, <2>2
<1>11. CASE TimePasses \/ TokenRevoked \/ Halted \/ UNCHANGED vars
  BY <1>11 DEF TimePasses, TokenRevoked, Halted, vars
<1> QED
  BY <1>1, <1>2, <1>3, <1>4, <1>5, <1>6, <1>7, <1>8, <1>9, <1>10, <1>11 DEF Next

\* Every variable keeps its type in every behaviour of the daemon.
THEOREM TypeCorrect == Spec => []TypeOK
<1>1. Init => TypeOK
  <2> SUFFICES ASSUME Init PROVE TypeOK
    OBVIOUS
  <2> USE DEF Init
  <2>1. pc \in [Tasks -> Places]
    BY DEF Places, Terminal, Tasks, Pollers
  <2>2. cands \in [{"timeline", "story"} -> SUBSET Creators]
    OBVIOUS
  <2>3. hit \in BOOLEAN /\ refresh \in BOOLEAN /\ stop \in BOOLEAN
    OBVIOUS
  <2>4. queue \in Seq(Item) /\ feed \in Nat /\ owed \in Nat /\ sigints \in 0..2
    OBVIOUS
  <2> QED
    BY <2>1, <2>2, <2>3, <2>4 DEF TypeOK, Ended, EXIT_SUCCESS
<1> QED
  BY <1>1, TypeStep, PTL DEF Spec

-----------------------------------------------------------------------------
(* How the ways out end: tasks, exit code, WebSocket.                      *)

\* A task that still runs goes from one place to another: it raises exactly
\* if the budget trips, and run_daemon and the signals are left alone.
TaskStep(t) ==
    /\ Live(t)
    /\ Running
    /\ UNCHANGED mainVars
    /\ \E where \in Places :
         /\ Goto(t, where)
         /\ IF where = "raised" THEN trip' # "none" ELSE trip' = trip

\* Nothing of that happens.
QuietStep == UNCHANGED <<pc, trip, mainVars>>

\* The five tasks and the WebSocket do one or the other.
LEMMA TaskSteps ==
    ASSUME TypeOK,
           \/ TickNext \/ TimelineNext \/ StoryNext \/ FollowingNext
           \/ WsNext \/ WsSubscriptionSaved \/ WorkerNext
    PROVE  QuietStep \/ \E t \in Tasks : TaskStep(t)
<1> USE DEF TypeOK, At, Live, TaskStep, Places, Terminal, Pollers, Tasks, mainVars, wsVars,
            pollVars, budgetVars, OnSuccess
<1>1. CASE TickNext
  BY <1>1 DEF TickNext, TickQuit, TickUnhide, TickRewire, TickTo, QuietStep, Goto
<1>2. CASE TimelineNext
  <2>0. "timeline" \in Tasks
    OBVIOUS
  <2>1. CASE TimelinePoll \/ TimelineQuit
    BY <2>1 DEF TimelinePoll, TimelineQuit
  <2>2. CASE TimelineBadPage
    BY <2>2 DEF TimelineBadPage, OnSoftError
  <2>3. ASSUME NEW C \in SUBSET Creators, TimelinePage(C) PROVE TaskStep("timeline")
    BY <2>3 DEF TimelinePage
  <2>4. ASSUME NEW c \in Creators, TimelineSift(c) PROVE TaskStep("timeline")
    BY <2>4 DEF TimelineSift
  <2>5. CASE ScopeLookupFails("timeline")
    BY <2>5 DEF ScopeLookupFails
  <2> QED
    BY <1>2, <2>0, <2>1, <2>2, <2>3, <2>4, <2>5 DEF TimelineNext
<1>3. CASE StoryNext
  <2>0. "story" \in Tasks
    OBVIOUS
  <2>1. CASE StoryPoll \/ StoryQuit
    BY <2>1 DEF StoryPoll, StoryQuit
  <2>2. CASE StoryBadPage
    BY <2>2 DEF StoryBadPage, OnSoftError
  <2>3. ASSUME NEW C \in SUBSET Creators, StoryFlips(C) PROVE TaskStep("story")
    BY <2>3 DEF StoryFlips
  <2>4. ASSUME NEW c \in Creators, StoryPut(c) PROVE TaskStep("story")
    BY <2>4 DEF StoryPut
  <2>5. CASE ScopeLookupFails("story")
    BY <2>5 DEF ScopeLookupFails
  <2> QED
    BY <1>3, <2>0, <2>1, <2>2, <2>3, <2>4, <2>5 DEF StoryNext
<1>4. CASE FollowingNext
  BY <1>4 DEF FollowingNext, FollowingWake, FollowingFetched, FollowingFails, OnSoftError
<1>5. CASE WsNext \/ WsSubscriptionSaved
  BY <1>5 DEF WsNext, WsSubscriptionSaved, WsNoWork, WsDies, WsWork, WsSubscription, Delivers, QuietStep
<1>6. CASE WorkerNext
  <2> USE DEF ItemDone, WorkerReturns
  <2>1. CASE WorkerTake \/ WorkerQuit \/ WorkerAnswered \/ WorkerRefreshed
    BY <2>1 DEF WorkerTake, WorkerQuit, WorkerAnswered, WorkerRefreshed
  <2>2. CASE WorkerSkips \/ WorkerNoGroups \/ WorkerDownloaded
    BY <2>2 DEF WorkerSkips, WorkerNoGroups, WorkerDownloaded
  <2>3. CASE WorkerSoftError
    BY <2>3 DEF WorkerSoftError, OnSoftError
  <2>4. CASE WorkerHardError
    BY <2>4 DEF WorkerHardError, OnHardError
  <2> QED
    BY <1>6, <2>1, <2>2, <2>3, <2>4 DEF WorkerNext
<1> QED
  BY <1>1, <1>2, <1>3, <1>4, <1>5, <1>6

\* The inductive invariant behind NoOrphans and ExitCodeTruthful: the pollers
\* are over once the drain begins and the worker once it has ended; a task has
\* raised exactly if the budget tripped; a daemon that leaves with success and
\* without a second Ctrl+C leaves after all its tasks, none of which raised.
ShutdownInv ==
    /\ main \in {"draining", "stopping"} \cup Ended => \A t \in Pollers : ~Live(t)
    /\ main \in {"stopping"} \cup Ended => ~Live("worker")
    /\ trip # "none" <=> \E t \in Tasks : pc[t] = "raised"
    /\ main = "gather" => exit = EXIT_SUCCESS
    /\ main # "gather" /\ exit = DAEMON_UNRECOVERABLE => trip # "none"
    /\ main # "gather" /\ exit = EXIT_SUCCESS /\ sigints < 2 =>
         trip = "none" /\ \A t \in Tasks : ~Live(t)
    /\ main = "returned" => exit # OTHER_EXCEPTION

\* Every step of the tasks, the shutdown and the user preserves it.
LEMMA ShutdownStep == TypeOK /\ ShutdownInv /\ [Next]_vars => ShutdownInv'
<1> SUFFICES ASSUME TypeOK, ShutdownInv, [Next]_vars PROVE ShutdownInv'
  OBVIOUS
<1> USE DEF ShutdownInv, Live, Ended, mainVars
<1>1. CASE QuietStep
  BY <1>1 DEF QuietStep
<1>2. ASSUME NEW t \in Tasks, TaskStep(t) PROVE ShutdownInv'
  BY <1>2 DEF TaskStep, Goto, Running, TypeOK, Terminal, Tasks, Pollers
<1>3. CASE MainNext
  <2> USE DEF TypeOK, Tasks, Pollers, Terminal, EXIT_SUCCESS, DAEMON_UNRECOVERABLE, OTHER_EXCEPTION
  <2>1. ASSUME NEW code, MainLeave(code)
        PROVE  /\ main = "gather" /\ main' = "draining" /\ exit' = code
               /\ UNCHANGED <<trip, sigints>>
               /\ \A t \in Tasks : pc'[t] = IF t \in Pollers /\ Live(t) THEN "cancelled" ELSE pc[t]
    BY <2>1 DEF MainLeave, StopPollers, CancelPollers, budgetVars
  <2>2. CASE MainGathered
    BY <2>2, <2>1 DEF MainGathered
  <2>3. CASE MainTripped
    BY <2>3, <2>1 DEF MainTripped
  <2>4. CASE MainCrashed
    BY <2>4, <2>1 DEF MainCrashed
  <2>5. CASE MainDrained \/ MainDrainRaises
    BY <2>5 DEF MainDrained, MainDrainRaises, budgetVars
  <2>6. CASE MainDrainTimeout
    BY <2>6 DEF MainDrainTimeout, budgetVars, Goto, Cancelled
  <2>7. CASE MainStopWs
    BY <2>7 DEF MainStopWs, budgetVars
  <2> QED
    BY <1>3, <2>2, <2>3, <2>4, <2>5, <2>6, <2>7 DEF MainNext
<1>4. CASE FirstSigint
  BY <1>4 DEF FirstSigint, budgetVars, Running
<1>5. CASE SecondSigint
  <2>1. /\ \A t \in Tasks : pc'[t] = IF Live(t) THEN Cancelled(t) ELSE pc[t]
        /\ trip' = trip
        /\ sigints' = 2
        /\ IF main = "gather" THEN main' = "draining" /\ exit' = EXIT_SUCCESS
                              ELSE main' \in {"raised", main} /\ exit' = exit
        /\ main' = main => main = "stopping"
    <3>1. \A t \in Tasks : pc'[t] = IF Live(t) THEN Cancelled(t) ELSE pc[t]
      BY <1>5 DEF SecondSigint
    <3> QED
      BY <1>5, <3>1 DEF SecondSigint, StopPollers, budgetVars, TypeOK, Running
  <2>2. \A t \in Tasks : ~Live(t)' /\ (pc'[t] = "raised" <=> pc[t] = "raised")
    BY <2>1 DEF Cancelled, Terminal
  <2>3. Pollers \subseteq Tasks /\ "worker" \in Tasks
    BY DEF Tasks
  <2> QED
    BY <2>1, <2>2, <2>3 DEF TypeOK, EXIT_SUCCESS, DAEMON_UNRECOVERABLE, OTHER_EXCEPTION
<1>6. CASE TimePasses \/ TokenRevoked \/ Halted \/ UNCHANGED vars
  BY <1>6, <1>1 DEF TimePasses, TokenRevoked, Halted, vars, QuietStep, budgetVars
<1> QED
  BY <1>1, <1>2, <1>3, <1>4, <1>5, <1>6, TaskSteps DEF Next

\* It holds throughout every behaviour.
LEMMA ShutdownCorrect == Spec => []ShutdownInv
<1>1. Init => ShutdownInv
  BY DEF Init, ShutdownInv, Live, Ended, Tasks, Pollers, Terminal, EXIT_SUCCESS
<1> QED
  BY <1>1, ShutdownStep, TypeCorrect, PTL DEF Spec

\* However run_daemon ends, none of its five tasks survives it.
THEOREM NothingSurvives == Spec => []NoOrphans
<1>1. ShutdownInv => NoOrphans
  BY DEF ShutdownInv, NoOrphans, Running, Tasks, Ended
<1> QED
  BY <1>1, ShutdownCorrect, PTL

\* The exit code a caller gets is DAEMON_UNRECOVERABLE exactly if the budget
\* tripped, unless the user forced the end.
THEOREM ExitCodeCorrect == Spec => []ExitCodeTruthful
<1>1. TypeOK /\ ShutdownInv => ExitCodeTruthful
  BY DEF TypeOK, ShutdownInv, ExitCodeTruthful, EXIT_SUCCESS, DAEMON_UNRECOVERABLE, OTHER_EXCEPTION
<1> QED
  BY <1>1, TypeCorrect, ShutdownCorrect, PTL

\* Whenever run_daemon returns, the WebSocket is stopped.
THEOREM WebSocketStopped == Spec => []StoppedOnReturn
<1>1. Init => StoppedOnReturn
  BY DEF Init, StoppedOnReturn
<1>2. TypeOK /\ StoppedOnReturn /\ [Next]_vars => StoppedOnReturn'
  <2> SUFFICES ASSUME TypeOK, StoppedOnReturn, [Next]_vars PROVE StoppedOnReturn'
    OBVIOUS
  <2> USE DEF StoppedOnReturn, mainVars, wsVars
  <2>1. CASE ~Running
    <3>1. UNCHANGED vars
      BY <2>1 DEF Next, TickNext, TickQuit, TickUnhide, TickRewire, TickTo,
                  TimelineNext, TimelinePoll, TimelineQuit, TimelinePage,
                  TimelineBadPage, TimelineSift, ScopeLookupFails, StoryNext,
                  StoryPoll, StoryQuit, StoryFlips, StoryBadPage, StoryPut,
                  FollowingNext, FollowingWake, FollowingFetched, FollowingFails,
                  WsNext, WsNoWork, WsWork, WsSubscription, WsDies, Delivers,
                  WsSubscriptionSaved, WorkerNext, WorkerTake, WorkerQuit,
                  WorkerSkips, WorkerNoGroups, WorkerAnswered, WorkerDownloaded,
                  WorkerSoftError, WorkerHardError, WorkerRefreshed, MainNext,
                  MainGathered, MainTripped, MainCrashed, MainLeave, MainDrained,
                  MainDrainRaises, MainDrainTimeout, MainStopWs, FirstSigint,
                  SecondSigint, TimePasses, TokenRevoked, Halted, At, Running,
                  Ended
    <3> QED
      BY <3>1 DEF vars
  <2>2. CASE Running
    <3>1. CASE MainNext
      BY <3>1 DEF MainNext, MainGathered, MainTripped, MainCrashed, MainLeave,
                  StopPollers, MainDrained, MainDrainRaises, MainDrainTimeout,
                  MainStopWs, OTHER_EXCEPTION
    <3>2. CASE SecondSigint
      BY <2>2, <3>2 DEF SecondSigint, StopPollers, Running, Ended
    <3>3. CASE ~MainNext /\ ~SecondSigint
      <4>1. main' = main
        BY <3>3, TaskSteps DEF Next, TaskStep, QuietStep, FirstSigint,
                               TimePasses, TokenRevoked, Halted, vars
      <4> QED
        BY <2>2, <4>1 DEF Running, Ended
    <3> QED
      BY <3>1, <3>2, <3>3
  <2> QED
    BY <2>1, <2>2
<1> QED
  BY <1>1, <1>2, TypeCorrect, PTL DEF Spec

-----------------------------------------------------------------------------
(* The queue.                                                              *)

\* The worker holds an item exactly between taking it and being done with it.
HoldsInv == item # NoItem <=> pc["worker"] \in {"account", "download", "refresh"}

\* NoItem is not an item.
LEMMA NoItemType == NoItem \notin Item
BY DEF Item, NoItem, Kinds

\* A step that is not the worker's puts an item, or nothing.
PutStep ==
    /\ UNCHANGED <<item, owed>>
    /\ pc'["worker"] = pc["worker"]
    /\ queue' = queue \/ \E i \in Item : queue' = Append(queue, i)

\* The pollers and the WebSocket only ever put.
LEMMA PutSteps ==
    ASSUME TypeOK, TickNext \/ TimelineNext \/ StoryNext \/ FollowingNext
                   \/ WsNext \/ WsSubscriptionSaved
    PROVE  PutStep
<1> USE DEF PutStep, TypeOK, Tasks, Pollers, pollVars, wsVars, mainVars, budgetVars
<1>1. CASE TickNext
  BY <1>1 DEF TickNext, TickQuit, TickUnhide, TickRewire, TickTo, Goto
<1>2. CASE TimelineNext
  <2>1. ASSUME NEW c \in Creators, TimelineSift(c) PROVE PutStep
    <3>1. [kind |-> "timeline", creator |-> c] \in Item
      BY ItemType DEF Kinds
    <3>2. UNCHANGED item /\ pc'["worker"] = pc["worker"] /\ UNCHANGED owed
      BY <2>1 DEF TimelineSift, Goto
    <3>3. queue' = queue \/ queue' = Append(queue, [kind |-> "timeline", creator |-> c])
      BY <2>1, Zenon DEF TimelineSift, Enqueue
    <3> QED
      BY <3>1, <3>2, <3>3
  <2> QED
    BY <1>2, <2>1 DEF TimelineNext, TimelinePoll, TimelineQuit, TimelineBadPage, OnSoftError,
                      TimelinePage, ScopeLookupFails, Goto
<1>3. CASE StoryNext
  <2>1. ASSUME NEW c \in Creators, StoryPut(c) PROVE PutStep
    <3>1. [kind |-> "stories", creator |-> c] \in Item
      BY ItemType DEF Kinds
    <3>2. UNCHANGED item /\ pc'["worker"] = pc["worker"] /\ UNCHANGED owed
      BY <2>1 DEF StoryPut, Goto
    <3>3. queue' = queue \/ queue' = Append(queue, [kind |-> "stories", creator |-> c])
      BY <2>1, Zenon DEF StoryPut, Enqueue
    <3> QED
      BY <3>1, <3>2, <3>3
  <2> QED
    BY <1>3, <2>1 DEF StoryNext, StoryPoll, StoryQuit, StoryBadPage, OnSoftError,
                      StoryFlips, ScopeLookupFails, Goto
<1>4. CASE FollowingNext
  BY <1>4 DEF FollowingNext, FollowingWake, FollowingFetched, FollowingFails, OnSoftError, Goto
<1>5. CASE WsNext
  <2>1. ASSUME NEW e \in Feed, WsWork(e) PROVE PutStep
    <3>1. PICK c \in Targets(e) : Enqueue(WorkOf(e), c)
      BY <2>1 DEF WsWork
    <3>2. [kind |-> WorkOf(e), creator |-> c] \in Item
      <4>1. e \in {"Dm", "Deleted", "Purchase", "StoryPurchase", "Follow"}
        BY <2>1 DEF WsWork, Events
      <4>2. WorkOf(e) \in Kinds /\ c \in Creators \cup {NoCreator}
        BY <3>1, <4>1 DEF WorkOf, Kinds, Targets
      <4> QED
        BY <4>2, ItemType
    <3> QED
      BY <2>1, <3>1, <3>2 DEF WsWork, Enqueue
  <2> QED
    BY <1>5, <2>1 DEF WsNext, WsNoWork, WsDies, WsSubscription
<1>6. CASE WsSubscriptionSaved
  BY <1>6 DEF WsSubscriptionSaved
<1> QED
  BY <1>1, <1>2, <1>3, <1>4, <1>5, <1>6

\* What a step of the worker does to the queue, to what it holds and to what
\* is owed.
TakeStep ==
    /\ pc["worker"] = "idle"
    /\ queue # <<>>
    /\ item' = Head(queue)
    /\ queue' = Tail(queue)
    /\ pc'["worker"] = "account"
    /\ UNCHANGED owed

HoldStep ==
    /\ pc["worker"] \in {"account", "download", "refresh"}
    /\ UNCHANGED queue
    /\ \/ /\ pc'["worker"] \in {"download", "refresh"}
          /\ UNCHANGED <<item, owed>>
       \/ /\ pc'["worker"] \in {"idle", "raised"}
          /\ ItemDone

QuitStep ==
    /\ pc["worker"] = "idle"
    /\ stop
    /\ queue = <<>>
    /\ pc'["worker"] = "done"
    /\ UNCHANGED <<queue, item, owed>>

\* The worker takes, works on, drops or finishes one item, or quits for good.
LEMMA WorkSteps ==
    ASSUME TypeOK, WorkerNext
    PROVE  /\ TakeStep \/ HoldStep \/ QuitStep
           /\ UNCHANGED <<stop, mainVars>>
<1> USE DEF TypeOK, Tasks, At, Goto, TakeStep, HoldStep, QuitStep, mainVars
<1>1. CASE WorkerTake
  BY <1>1 DEF WorkerTake
<1>2. CASE WorkerQuit
  BY <1>2 DEF WorkerQuit
<1>3. CASE WorkerAnswered \/ WorkerRefreshed
  BY <1>3 DEF WorkerAnswered, WorkerRefreshed
<1>4. CASE WorkerSkips \/ WorkerNoGroups \/ WorkerDownloaded
  BY <1>4 DEF WorkerSkips, WorkerNoGroups, WorkerDownloaded, WorkerReturns
<1>5. CASE WorkerSoftError \/ WorkerHardError
  BY <1>5 DEF WorkerSoftError, WorkerHardError, OnSoftError, OnHardError
<1> QED
  BY <1>1, <1>2, <1>3, <1>4, <1>5 DEF WorkerNext

\* What the shutdown does: it may end the worker, with what it holds.
EndStep ==
    /\ UNCHANGED <<queue, owed>>
    /\ \/ pc'["worker"] = pc["worker"] /\ UNCHANGED item
       \/ pc'["worker"] \in Terminal /\ item' = NoItem

\* No way out touches the queue.
LEMMA EndSteps ==
    ASSUME TypeOK, HoldsInv, MainNext \/ SecondSigint
    PROVE  EndStep
<1> USE DEF EndStep, TypeOK, Tasks, Pollers, Live, Cancelled, Terminal, HoldsInv
<1>1. CASE MainNext
  BY <1>1 DEF MainNext, MainGathered, MainTripped, MainCrashed, MainLeave,
              CancelPollers, StopPollers, MainDrained, MainDrainRaises,
              MainDrainTimeout, Goto, MainStopWs
<1>2. CASE SecondSigint
  BY <1>2 DEF SecondSigint
<1> QED
  BY <1>1, <1>2

\* Every step keeps the worker's item and its place in agreement.
LEMMA HoldsStep == TypeOK /\ HoldsInv /\ [Next]_vars => HoldsInv'
<1> SUFFICES ASSUME TypeOK, HoldsInv, [Next]_vars PROVE HoldsInv'
  OBVIOUS
<1> USE DEF HoldsInv
<1>1. CASE PutStep
  BY <1>1 DEF PutStep
<1>2. CASE WorkerNext
  BY <1>2, WorkSteps, NoItemType, QueueType
     DEF TakeStep, HoldStep, QuitStep, ItemDone, TypeOK
<1>3. CASE MainNext \/ SecondSigint
  BY <1>3, EndSteps DEF EndStep, Terminal
<1>4. CASE FirstSigint \/ TimePasses \/ TokenRevoked \/ Halted \/ UNCHANGED vars
  BY <1>4 DEF FirstSigint, TimePasses, TokenRevoked, Halted, vars
<1> QED
  BY <1>1, <1>2, <1>3, <1>4, PutSteps DEF Next

\* So they agree throughout every behaviour.
LEMMA HoldsCorrect == Spec => []HoldsInv
<1>1. Init => HoldsInv
  BY DEF Init, HoldsInv, Tasks
<1> QED
  BY <1>1, HoldsStep, TypeCorrect, PTL DEF Spec

\* The five tasks, the WebSocket and the shutdown together use the queue as
\* WorkQueue says.
THEOREM QueueRefines == Spec => ImplementsWorkQueue
<1> USE DEF WQ!QInit, WQ!QNext, WQ!qvars, WQ!Put, WQ!Take, WQ!Finish, WQ!Close
<1>1. Init => WQ!QInit
  BY DEF Init, Live, Tasks, Terminal
<1>2. TypeOK /\ HoldsInv /\ [Next]_vars => [WQ!QNext]_WQ!qvars
  <2> SUFFICES ASSUME TypeOK, HoldsInv, [Next]_vars PROVE [WQ!QNext]_WQ!qvars
    OBVIOUS
  <2> USE DEF HoldsInv, Live, Terminal
  <2>1. CASE PutStep
    BY <2>1 DEF PutStep
  <2>2. CASE WorkerNext
    <3>1. CASE TakeStep
      BY <3>1 DEF TakeStep
    <3>2. CASE HoldStep
      BY <3>2 DEF HoldStep, ItemDone
    <3>3. CASE QuitStep
      BY <3>3 DEF QuitStep
    <3> QED
      BY <2>2, <3>1, <3>2, <3>3, WorkSteps
  <2>3. CASE MainNext \/ SecondSigint
    BY <2>3, EndSteps DEF EndStep
  <2>4. CASE FirstSigint \/ TimePasses \/ TokenRevoked \/ Halted \/ UNCHANGED vars
    BY <2>4 DEF FirstSigint, TimePasses, TokenRevoked, Halted, vars
  <2> QED
    BY <2>1, <2>2, <2>3, <2>4, PutSteps DEF Next
<1> QED
  BY <1>1, <1>2, TypeCorrect, HoldsCorrect, PTL DEF Spec, ImplementsWorkQueue, WQ!QSpec

\* The inductive invariant behind AcceptedWorkFinished: while the daemon still
\* gathers after one Ctrl+C, no more is owed than what is queued or in hand;
\* the worker goes only after Ctrl+C and with nothing left to do, and only then
\* does the daemon leave with success.
OwedInv ==
    /\ main = "gather" /\ stop => sigints # 0
    /\ main = "gather" /\ pc["worker"] = "done" => stop
    /\ main = "gather" /\ sigints = 1 =>
         owed <= Len(queue) + (IF item = NoItem THEN 0 ELSE 1)
    /\ main = "gather" /\ sigints = 1 /\ pc["worker"] = "done" => owed = 0
    /\ main # "gather" /\ exit = EXIT_SUCCESS => sigints # 0
    /\ main # "gather" /\ exit = EXIT_SUCCESS /\ sigints = 1 => owed = 0

\* Every step preserves the account of what is owed to the user.
LEMMA OwedStep ==
    TypeOK /\ HoldsInv /\ ShutdownInv /\ OwedInv /\ [Next]_vars => OwedInv'
<1> SUFFICES ASSUME TypeOK, HoldsInv, ShutdownInv, OwedInv, [Next]_vars
             PROVE  OwedInv'
  OBVIOUS
<1> USE DEF OwedInv
<1>1. ASSUME PutStep, UNCHANGED <<mainVars, stop>> PROVE OwedInv'
  <2>1. Len(queue') >= Len(queue) /\ Len(queue) \in Nat /\ Len(queue') \in Nat
    BY <1>1 DEF PutStep, TypeOK
  <2> QED
    BY <1>1, <2>1 DEF PutStep, TypeOK, mainVars
<1>2. CASE WorkerNext
  <2> USE DEF mainVars
  <2>1. CASE TakeStep
    <3>1. Len(queue) \in Nat /\ Len(queue') = Len(queue) - 1 /\ Len(queue') \in Nat
      BY <2>1 DEF TakeStep, TypeOK
    <3>2. item = NoItem /\ item' # NoItem
      BY <2>1, NoItemType, QueueType DEF TakeStep, HoldsInv, TypeOK
    <3> QED
      BY <1>2, <2>1, <3>1, <3>2, WorkSteps DEF TakeStep, TypeOK
  <2>2. CASE HoldStep
    <3>1. item # NoItem /\ Len(queue) \in Nat
      BY <2>2 DEF HoldStep, HoldsInv, TypeOK
    <3> QED
      BY <1>2, <2>2, <3>1, WorkSteps DEF HoldStep, ItemDone, TypeOK
  <2>3. CASE QuitStep
    <3>1. item = NoItem /\ Len(queue) = 0
      BY <2>3 DEF QuitStep, HoldsInv
    <3>2. main = "gather" /\ sigints = 1 => owed = 0
      BY <3>1 DEF TypeOK
    <3>3. UNCHANGED <<queue, item, owed, stop, mainVars>> /\ stop
      BY <1>2, <2>3, WorkSteps DEF QuitStep
    <3> QED
      BY <3>2, <3>3
  <2> QED
    BY <1>2, <2>1, <2>2, <2>3, WorkSteps
<1>3. CASE MainNext
  <2> USE DEF TypeOK, Tasks, EXIT_SUCCESS, DAEMON_UNRECOVERABLE, OTHER_EXCEPTION
  <2>1. CASE MainGathered
    BY <2>1 DEF MainGathered, MainLeave, StopPollers
  <2>2. CASE MainTripped \/ MainCrashed
    BY <2>2 DEF MainTripped, MainCrashed, MainLeave, StopPollers
  <2>3. CASE MainDrained \/ MainDrainRaises \/ MainDrainTimeout \/ MainStopWs
    BY <2>3 DEF MainDrained, MainDrainRaises, MainDrainTimeout, MainStopWs
  <2> QED
    BY <1>3, <2>1, <2>2, <2>3 DEF MainNext
<1>4. CASE FirstSigint
  <2>1. Len(queue) \in Nat
    BY DEF TypeOK
  <2> QED
    BY <1>4, <2>1 DEF FirstSigint
<1>5. CASE SecondSigint
  BY <1>5 DEF SecondSigint, StopPollers, Running, Ended
<1>6. CASE TimePasses \/ TokenRevoked \/ Halted \/ UNCHANGED vars
  BY <1>6 DEF TimePasses, TokenRevoked, Halted, vars, mainVars
<1>7. ASSUME \/ TickNext \/ TimelineNext \/ StoryNext \/ FollowingNext
             \/ WsNext \/ WsSubscriptionSaved
      PROVE  OwedInv'
  <2>1. UNCHANGED <<mainVars, stop>>
    BY <1>7 DEF TickNext, TickQuit, TickUnhide, TickRewire, TickTo,
                TimelineNext, TimelinePoll, TimelineQuit, TimelinePage,
                TimelineBadPage, TimelineSift, ScopeLookupFails, StoryNext,
                StoryPoll, StoryQuit, StoryFlips, StoryBadPage, StoryPut,
                FollowingNext, FollowingWake, FollowingFetched, FollowingFails,
                WsNext, WsNoWork, WsWork, WsSubscription, WsDies,
                WsSubscriptionSaved, mainVars
  <2> QED
    BY <1>1, <1>7, <2>1, PutSteps
<1> QED
  BY <1>2, <1>3, <1>4, <1>5, <1>6, <1>7 DEF Next

\* One Ctrl+C loses no accepted work, for any number of creators and events.
THEOREM NoAcceptedWorkLost == Spec => []AcceptedWorkFinished
<1>1. Init => OwedInv
  BY DEF Init, OwedInv, Tasks
<1>2. OwedInv => AcceptedWorkFinished
  BY DEF OwedInv, AcceptedWorkFinished
<1> QED
  BY <1>1, <1>2, OwedStep, TypeCorrect, HoldsCorrect, ShutdownCorrect, PTL DEF Spec

-----------------------------------------------------------------------------
HIDE RunnerAssumption

(* The recorder of a live broadcast: the inductive invariant.              *)

Recording == {"open", "poll", "mux"}
Statuses  == {"none", "open", "endlist", "gone"}

\* An entry of _active_recordings; what was collected plays no part.
Entry(t) ==
    /\ t = [at |-> t.at, show |-> t.show, name |-> t.name, attempt |-> t.attempt, of |-> t.of,
            got |-> t.got, last |-> t.last, stop |-> t.stop]
    /\ t.at \in Recording \cup {"none", "spawned", "done"}

StreamTyped ==
    /\ playlist \in [Shows -> Statuses]
    /\ watcher \in {"down", "salvage", "mux", "idle", "asked", "stopped"}
    /\ seen \in Shows \cup {0} /\ stopping \in BOOLEAN
    /\ failures \in 0..MaxFailures /\ todo \subseteq Names
    /\ Entry(task)
    /\ dirs = [n \in Names |-> [here |-> dirs[n].here, files |-> dirs[n].files]]
    /\ outs = [n \in Names |-> outs[n]]

\* Broadcasts follow one another.
Successive == \A b, c \in Shows : OnAir(b) /\ playlist[c] # "none" => c <= b

\* An MP4 that is whole has bytes.
Filled == \A n \in Names : outs[n].whole => outs[n].bytes

\* Nothing is recorded while the salvage pass looks at what was left behind.
Salvaging ==
    /\ watcher \in {"down", "salvage", "mux"} => task.at = "none"
    /\ watcher \in {"salvage", "mux"} => \A n \in todo : dirs[n].here
    /\ watcher = "mux" => todo # {} /\ ~outs[Next1].whole /\ outs[Next1].bytes

\* A recorder is of a broadcast that was on, and writes to a name of its own.
Followed ==
    /\ task.at # "none" => task.show \in Shows /\ playlist[task.show] # "none"
    /\ seen # 0 => playlist[seen] # "none"
    /\ task.at \in Recording =>
          task.name \in Names /\ dirs[task.name].here /\ ~outs[task.name].whole
    /\ task.at = "poll" =>
          task.of \in Shows /\ task.show <= task.of /\ playlist[task.of] # "none"

\* A recorder that is told to stop, or that leaves its loop, does so because its
\* broadcast is over or the program ends.
Over(b) == stopping \/ ~OnAir(b)
Ending ==
    /\ task.at \notin {"none", "done"} /\ task.stop => Over(task.show)
    /\ task.at \notin {"none", "done"} /\ watcher = "asked" /\ seen = 0 => Over(task.show)
    /\ task.at = "mux" => Over(task.show)

\* A broadcast takes another name only after a fault.
Slots(b, m) == \A k \in Parts : Taken(<<b, k>>) => k <= m
MayBegin(b) ==
    \/ task.at = "spawned" /\ task.show = b
    \/ watcher = "asked" /\ task.at = "none" /\ seen = b
    \/ ~stopping /\ (OnAir(b) \/ playlist[b] = "none")
                 /\ (task.show = b => task.at \notin Recording)
Slotted == \A b \in Shows :
    /\ Slots(b, failures + 1)
    /\ MayBegin(b) => Slots(b, failures)

StreamInv ==
    StreamTyped /\ Successive /\ Filled /\ Salvaging /\ Followed /\ Ending /\ Slotted

\* What was finished is not written.
FinishedKept == \A n \in Names : outs[n].whole => outs'[n] = outs[n]

-----------------------------------------------------------------------------
(* First and last.                                                         *)

\* The least of some numbers.
LEMMA LeastNumber ==
    ASSUME NEW S \in SUBSET Nat, S # {}
    PROVE  /\ Min(S) \in S /\ \A n \in S : Min(S) <= n
<1> DEFINE R == {ss \in Nat \X Nat : ss[1] < ss[2]}
<1>1. IsWellFoundedOn(R, Nat)
  BY NatLessThanWellFounded DEF OpToRel
<1> HIDE DEF R
<1>2. PICK x \in S : \A y \in S : ~(<<y, x>> \in R)
  BY <1>1, WFMin
<1>3. ASSUME NEW y \in S PROVE x <= y
  <2>1. x \in Nat /\ y \in Nat
    OBVIOUS
  <2>2. ~(y < x)
    BY <1>2, <2>1 DEF R
  <2> QED
    BY <2>1, <2>2
<1> QED
  BY <1>3 DEF Min

\* The latest of some broadcasts, or zero.
LEMMA LatestOf ==
    ASSUME NEW S \in SUBSET Shows
    PROVE  /\ Max(S \cup {0}) \in S \cup {0}
           /\ \A b \in S : b <= Max(S \cup {0})
<1> DEFINE Z == S \cup {0}
           T == {MaxShows - n : n \in Z}
<1>1. \A n \in Z : n \in Nat /\ MaxShows - n \in Nat
  BY StreamAssumption DEF Shows
<1>2. T \in SUBSET Nat /\ T # {}
  BY <1>1
<1> HIDE DEF T
<1>3. Min(T) \in T /\ \A u \in T : Min(T) <= u
  BY <1>2, LeastNumber
<1>4. PICK x \in Z : Min(T) = MaxShows - x
  BY <1>3 DEF T
<1>5. ASSUME NEW y \in Z PROVE y <= x
  <2>1. MaxShows - y \in T
    BY <1>5 DEF T
  <2>2. MaxShows - x <= MaxShows - y
    BY <1>3, <1>4, <2>1
  <2> QED
    BY <1>1, <2>2, StreamAssumption
<1> HIDE DEF Z
<1>6. \E z \in Z : \A y \in Z : z >= y
  BY <1>1, <1>5
<1>7. Max(Z) \in Z /\ \A y \in Z : Max(Z) >= y
  BY <1>6 DEF Max
<1> QED
  BY <1>1, <1>7 DEF Z

\* The directory that the salvage pass takes next is one of those it has left.
LEMMA FirstOrphan == ASSUME todo \subseteq Names, todo # {} PROVE Next1 \in todo
<1> DEFINE A == {n[1] : n \in todo}
           B == {n[2] : n \in {m \in todo : m[1] = Min(A)}}
<1>1. \A n \in todo : n[1] \in Nat /\ n[2] \in Nat
  BY DEF Names, Shows, Parts
<1>2. A \in SUBSET Nat /\ A # {} /\ \A n \in todo : n[1] \in A
  BY <1>1
<1> HIDE DEF A
<1>3. Min(A) \in A /\ \A u \in A : Min(A) <= u
  BY <1>2, LeastNumber
<1>4. B \in SUBSET Nat /\ B # {}
  BY <1>1, <1>3 DEF A
<1>5. \A n \in todo : n[1] = Min(A) => n[2] \in B
  OBVIOUS
<1>6. \A u \in B : \E n \in todo : n[1] = Min(A) /\ n[2] = u
  OBVIOUS
<1> HIDE DEF B
<1>7. Min(B) \in B /\ \A u \in B : Min(B) <= u
  BY <1>4, LeastNumber
<1>8. PICK n \in todo : n[1] = Min(A) /\ n[2] = Min(B)
  BY <1>6, <1>7
<1>9. \A m \in todo : n[1] < m[1] \/ (n[1] = m[1] /\ n[2] <= m[2])
  <2> TAKE m \in todo
  <2>1. n[1] <= m[1] /\ n[1] \in Nat /\ m[1] \in Nat
    BY <1>1, <1>2, <1>3, <1>8
  <2>2. n[1] = m[1] => n[2] <= m[2]
    BY <1>5, <1>7, <1>8
  <2> QED
    BY <2>1, <2>2
<1> QED
  BY <1>9 DEF Next1

\* The latest broadcast and the one that is on.
LEMMA LatestIs ==
    ASSUME StreamTyped
    PROVE  /\ Latest \in Shows \cup {0}
           /\ \A b \in Shows : playlist[b] # "none" => b <= Latest
           /\ Latest # 0 => playlist[Latest] # "none"
           /\ Online \in Shows \cup {0} /\ (Online # 0 => OnAir(Online))
           /\ Online = 0 => \A b \in Shows : ~OnAir(b)
<1> DEFINE S == {b \in Shows : playlist[b] # "none"}
           O == {b \in Shows : OnAir(b)}
<1>1. Max(S \cup {0}) \in S \cup {0} /\ \A b \in S : b <= Max(S \cup {0})
  BY LatestOf
<1>2. Max(O \cup {0}) \in O \cup {0} /\ \A b \in O : b <= Max(O \cup {0})
  BY LatestOf
<1>3. Latest = Max(S \cup {0}) /\ Online = Max(O \cup {0})
  BY DEF Latest, Online
<1>4. \A b \in Shows : b >= 1 /\ b \in Nat
  BY StreamAssumption DEF Shows
<1>5. Latest \in S \cup {0} /\ \A b \in S : b <= Latest
  BY <1>1, <1>3
<1>6. Online \in O \cup {0} /\ \A b \in O : b <= Online
  BY <1>2, <1>3
<1>7. ASSUME Online = 0, NEW b \in Shows PROVE ~OnAir(b)
  <2>1. b \in O => b <= 0
    BY <1>6, <1>7
  <2> QED
    BY <1>4, <1>7, <2>1
<1> QED
  BY <1>4, <1>5, <1>6, <1>7

-----------------------------------------------------------------------------
(* Frames.                                                                 *)

\* The slots that are taken are kept, and no broadcast may begin that could not
\* before, but for those that a fault makes room for.
LEMMA SlotsKept ==
    ASSUME StreamInv, failures' \in Nat, failures <= failures',
           \A n \in Names : Taken(n)' => Taken(n),
           \A b \in Shows : MayBegin(b)' => MayBegin(b) \/ failures' = failures + 1
    PROVE  Slotted'
<1>1. failures \in Nat
  BY StreamAssumption DEF StreamInv, StreamTyped
<1>2. \A b \in Shows, k \in Parts : <<b, k>> \in Names /\ k \in Nat
  BY StreamAssumption DEF Names, Parts
<1>3. \A b \in Shows, k \in Parts :
        Taken(<<b, k>>)' => k <= failures + 1 /\ (MayBegin(b) => k <= failures)
  BY <1>2 DEF StreamInv, Slotted, Slots
<1>4. \A k, m, l \in Nat : m <= l =>
        /\ (k <= m + 1 => k <= l + 1) /\ (k <= m => k <= l)
        /\ (k <= m + 1 /\ l = m + 1 => k <= l)
  OBVIOUS
<1>5. ASSUME NEW b \in Shows, NEW k \in Parts, Taken(<<b, k>>)'
      PROVE  k <= failures' + 1 /\ (MayBegin(b)' => k <= failures')
  <2>1. k \in Nat /\ k <= failures + 1 /\ (MayBegin(b) => k <= failures)
    BY <1>2, <1>3, <1>5
  <2>2. /\ k <= failures' + 1
        /\ MayBegin(b) => k <= failures'
        /\ failures' = failures + 1 => k <= failures'
    BY <1>1, <1>4, <2>1
  <2> QED
    BY <2>2
<1> QED
  BY <1>5 DEF Slotted, Slots

\* The creator's broadcasts come and go.
LEMMA ServiceKeeps ==
    ASSUME StreamInv, GoLive \/ PublishSegment \/ EndShow \/ Purge
    PROVE  StreamInv' /\ FinishedKept
<1> USE DEF StreamInv
<1>1. /\ UNCHANGED <<watcher, seen, task, stopping, todo, dirs, outs, failures>>
      /\ playlist' \in [Shows -> Statuses]
      /\ \A b \in Shows : playlist[b] # "none" => playlist'[b] # "none"
      /\ \A b \in Shows : OnAir(b)' => OnAir(b) \/ playlist[b] = "none"
  <2>1. CASE PublishSegment
    BY <2>1 DEF PublishSegment, StreamTyped, OnAir, diskVars
  <2>2. CASE EndShow \/ Purge
    BY <2>2 DEF EndShow, Purge, GoesOff, StreamTyped, OnAir, Statuses, diskVars
  <2>3. CASE GoLive
    <3>1. Latest + 1 \in Shows /\ playlist[Latest + 1] = "none"
      <4>1. Latest + 1 \in Shows
        BY <2>3, LatestIs, StreamAssumption DEF GoLive, Shows
      <4>2. ~(Latest + 1 <= Latest)
        BY <4>1, LatestIs, StreamAssumption DEF Shows
      <4> QED
        BY <4>1, <4>2, LatestIs
    <3> QED
      BY <2>3, <3>1 DEF GoLive, StreamTyped, OnAir, Statuses, diskVars
  <2> QED
    BY <2>1, <2>2, <2>3
<1>2. Successive'
  <2>1. CASE GoLive
    <3>1. playlist' = [playlist EXCEPT ![Latest + 1] = "open"] /\ Online = 0
      BY <2>1 DEF GoLive
    <3>2. \A b \in Shows : ~OnAir(b) /\ (playlist[b] # "none" => b <= Latest)
      BY <3>1, LatestIs
    <3>3. Latest \in Nat /\ Shows \subseteq Nat
      BY LatestIs, StreamAssumption DEF Shows
    <3>4. ASSUME NEW b \in Shows, NEW c \in Shows, OnAir(b)', playlist'[c] # "none"
          PROVE  c <= b
      <4>1. b = Latest + 1
        BY <3>1, <3>2, <3>4 DEF OnAir, StreamTyped
      <4>2. c = Latest + 1 \/ c <= Latest
        BY <3>1, <3>2, <3>4 DEF StreamTyped
      <4> QED
        BY <3>3, <4>1, <4>2
    <3> QED
      BY <3>4 DEF Successive
  <2>2. CASE PublishSegment \/ EndShow \/ Purge
    <3>1. \A b \in Shows : /\ OnAir(b)' => OnAir(b)
                           /\ playlist'[b] # "none" => playlist[b] # "none"
      BY <2>2 DEF PublishSegment, EndShow, Purge, GoesOff, StreamTyped, OnAir
    <3> QED
      BY <3>1 DEF Successive
  <2> QED
    BY <2>1, <2>2
<1>3. StreamTyped'
  BY <1>1 DEF StreamTyped, Entry
<1>4. Filled' /\ Salvaging'
  BY <1>1 DEF Filled, Salvaging, Next1
<1>5. Followed'
  BY <1>1 DEF Followed, StreamTyped
<1>6. Ending'
  <2>1. task.at # "none" => (Over(task.show) => Over(task.show)')
    BY <1>1 DEF Over, Followed
  <2> QED
    BY <1>1, <2>1 DEF Ending
<1>7. Slotted'
  <2>1. \A n \in Names : Taken(n)' => Taken(n)
    BY <1>1 DEF Taken
  <2>2. \A b \in Shows : MayBegin(b)' => MayBegin(b)
    BY <1>1 DEF MayBegin
  <2>3. failures \in Nat /\ failures' = failures
    BY <1>1, StreamAssumption DEF StreamTyped
  <2> QED
    BY <2>1, <2>2, <2>3, SlotsKept
<1> QED
  BY <1>1, <1>2, <1>3, <1>4, <1>5, <1>6, <1>7 DEF FinishedKept

\* A directory is made, filled or removed.
LEMMA DirSet ==
    ASSUME StreamTyped, NEW n \in Names, NEW h, NEW F,
           dirs' = [dirs EXCEPT ![n] = [here |-> h, files |-> F]]
    PROVE  /\ (dirs = [m \in Names |-> [here |-> dirs[m].here, files |-> dirs[m].files]])'
           /\ dirs'[n].here = h
           /\ \A m \in Names \ {n} : dirs'[m] = dirs[m]
<1> DEFINE D == [here |-> h, files |-> F]
<1>1. D = [here |-> D.here, files |-> D.files] /\ D.here = h
  OBVIOUS
<1>2. dirs = [m \in Names |-> [here |-> dirs[m].here, files |-> dirs[m].files]]
  BY DEF StreamTyped
<1>3. dirs' = [dirs EXCEPT ![n] = D]
  OBVIOUS
<1> HIDE DEF D
<1>4. dirs'[n] = D /\ \A m \in Names \ {n} : dirs'[m] = dirs[m]
  BY <1>2, <1>3
<1>5. \A m \in Names : dirs[m] = [here |-> dirs[m].here, files |-> dirs[m].files]
  BY <1>2
<1>6. \A m \in Names : dirs'[m] = [here |-> dirs'[m].here, files |-> dirs'[m].files]
  BY <1>1, <1>4, <1>5
<1>7. dirs' = [m \in Names |-> dirs'[m]]
  BY <1>2, <1>3
<1>8. dirs' = [m \in Names |-> [here |-> dirs'[m].here, files |-> dirs'[m].files]]
  BY <1>6, <1>7
<1> QED
  BY <1>1, <1>4, <1>8

\* An MP4 is written.
LEMMA OutSet ==
    ASSUME StreamTyped, NEW n \in Names, NEW O, outs' = [outs EXCEPT ![n] = O]
    PROVE  /\ (outs = [m \in Names |-> outs[m]])' /\ outs'[n] = O
           /\ \A m \in Names \ {n} : outs'[m] = outs[m]
BY DEF StreamTyped

\* A mux ends: well, or not.
LEMMA MuxedIs ==
    ASSUME StreamInv, NEW n \in Names, outs[n].bytes \/ dirs[n].here,
           \/ \E segs : Muxed(n, segs)
           \/ Unmuxed(n)
    PROVE  /\ (dirs = [m \in Names |-> [here |-> dirs[m].here, files |-> dirs[m].files]])'
           /\ (outs = [m \in Names |-> outs[m]])'
           /\ \A m \in Names \ {n} : outs'[m] = outs[m] /\ dirs'[m] = dirs[m]
           /\ Filled' /\ \A m \in Names : Taken(m)' => Taken(m)
           /\ Unmuxed(n) => ~outs'[n].whole /\ dirs' = dirs
<1> USE DEF StreamInv
<1>1. \A m \in Names : outs[m].whole => outs[m].bytes
  BY DEF Filled
<1>2. ASSUME NEW segs, Muxed(n, segs)
      PROVE  /\ (dirs = [m \in Names |-> [here |-> dirs[m].here, files |-> dirs[m].files]])'
             /\ (outs = [m \in Names |-> outs[m]])' /\ outs'[n].bytes
             /\ \A m \in Names \ {n} : outs'[m] = outs[m] /\ dirs'[m] = dirs[m]
  <2> DEFINE O == [whole |-> TRUE, segs |-> segs, bytes |-> TRUE]
  <2>1. O.bytes
    OBVIOUS
  <2>2. outs' = [outs EXCEPT ![n] = O]
    BY <1>2 DEF Muxed
  <2> HIDE DEF O
  <2>3. /\ (outs = [m \in Names |-> outs[m]])' /\ outs'[n].bytes
        /\ \A m \in Names \ {n} : outs'[m] = outs[m]
    BY <2>1, <2>2, OutSet
  <2>4. dirs' = [dirs EXCEPT ![n] = [here |-> FALSE, files |-> <<>>]]
    BY <1>2 DEF Muxed, NoDir
  <2> QED
    BY <2>3, <2>4, DirSet
<1>3. ASSUME Unmuxed(n)
      PROVE  /\ (dirs = [m \in Names |-> [here |-> dirs[m].here, files |-> dirs[m].files]])'
             /\ (outs = [m \in Names |-> outs[m]])' /\ ~outs'[n].whole
             /\ \A m \in Names \ {n} : outs'[m] = outs[m] /\ dirs'[m] = dirs[m]
             /\ dirs' = dirs
  <2>1. dirs' = dirs
    BY <1>3 DEF Unmuxed
  <2>2. CASE outs' = [outs EXCEPT ![n] = Nothing]
    BY <2>1, <2>2, OutSet DEF Nothing, StreamTyped
  <2>3. CASE outs' = [outs EXCEPT ![n] = Partial]
    BY <2>1, <2>3, OutSet DEF Partial, StreamTyped
  <2> QED
    BY <1>3, <2>2, <2>3 DEF Unmuxed
<1>4. CASE \E segs : Muxed(n, segs)
  BY <1>1, <1>2, <1>3, <1>4 DEF Filled, Taken
<1>5. CASE Unmuxed(n)
  BY <1>1, <1>3, <1>5 DEF Filled, Taken
<1> QED
  BY <1>3, <1>4, <1>5

\* The salvage pass writes only what is not whole, under a name that is taken.
LEMMA SalvageKeeps ==
    ASSUME StreamInv,
           StartWatcher \/ SalvageRemoves \/ SalvageMuxes \/ SalvageMuxed \/ SalvageEnds
    PROVE  StreamInv' /\ FinishedKept
<1> USE DEF StreamInv
<1>1. /\ UNCHANGED <<playlist, seen, task, stopping>> /\ task.at = "none"
      /\ watcher' \in {"salvage", "mux", "idle"}
  BY DEF StartWatcher, SalvageRemoves, SalvageMuxes, SalvageMuxed, SalvageEnds, serviceVars,
         Salvaging
<1>2. failures \in Nat /\ failures' \in 0..MaxFailures /\ failures <= failures'
  <2>1. failures' = failures \/ (failures < MaxFailures /\ failures' = failures + 1)
    BY DEF StartWatcher, SalvageRemoves, SalvageMuxes, SalvageMuxed, SalvageEnds, NoFault, Hit,
           Muxed
  <2> QED
    BY <2>1, StreamAssumption DEF StreamTyped
<1> DEFINE Shapes ==
             /\ dirs = [m \in Names |-> [here |-> dirs[m].here, files |-> dirs[m].files]]
             /\ outs = [m \in Names |-> outs[m]]
           Good == /\ Shapes' /\ todo' \subseteq Names /\ Filled' /\ FinishedKept
                   /\ \A n \in Names : Taken(n)' => Taken(n)
                   /\ watcher' \in {"salvage", "mux"} => \A n \in todo' : dirs'[n].here
                   /\ watcher' = "mux" => todo' # {} /\ ~outs'[Next1'].whole /\ outs'[Next1'].bytes
<1>3. ASSUME StartWatcher \/ SalvageEnds PROVE Good
  <2>1. UNCHANGED <<dirs, outs>> /\ watcher' # "mux"
    BY <1>3 DEF StartWatcher, SalvageEnds, diskVars
  <2>2. todo' \subseteq Names /\ (watcher' = "salvage" => \A n \in todo' : dirs[n].here)
    BY <1>3 DEF StartWatcher, SalvageEnds
  <2> QED
    BY <1>1, <2>1, <2>2 DEF StreamTyped, Filled, Taken, FinishedKept
<1>4. ASSUME SalvageRemoves PROVE Good
  <2>1. /\ Next1 \in todo /\ Next1 \in Names /\ watcher' = "salvage" /\ outs' = outs
        /\ todo' = todo \ {Next1} /\ dirs' = [dirs EXCEPT ![Next1] = NoDir]
        /\ \A n \in todo : dirs[n].here
    BY <1>4, FirstOrphan DEF SalvageRemoves, StreamTyped, Salvaging
  <2>2. /\ (dirs = [m \in Names |-> [here |-> dirs[m].here, files |-> dirs[m].files]])'
        /\ dirs'[Next1].here = FALSE
        /\ \A m \in Names \ {Next1} : dirs'[m] = dirs[m]
    BY <2>1, DirSet DEF NoDir
  <2> QED
    BY <2>1, <2>2 DEF StreamTyped, Filled, Taken, FinishedKept
<1>5. ASSUME SalvageMuxes PROVE Good
  <2>1. /\ Next1 \in todo /\ Next1 \in Names /\ watcher' = "mux" /\ dirs' = dirs
        /\ todo' = todo /\ outs' = [outs EXCEPT ![Next1] = Partial]
        /\ ~outs[Next1].bytes /\ \A n \in todo : dirs[n].here
    BY <1>5, FirstOrphan DEF SalvageMuxes, StreamTyped, Salvaging, Spent
  <2>2. Next1' = Next1
    BY <2>1 DEF Next1
  <2>3. /\ (outs = [m \in Names |-> outs[m]])' /\ outs'[Next1] = Partial
        /\ \A m \in Names \ {Next1} : outs'[m] = outs[m]
    BY <2>1, OutSet
  <2>4. Partial.bytes /\ ~Partial.whole
    BY DEF Partial
  <2> QED
    BY <2>1, <2>2, <2>3, <2>4 DEF StreamTyped, Filled, Taken, FinishedKept
<1>6. ASSUME SalvageMuxed PROVE Good
  <2>1. /\ Next1 \in todo /\ Next1 \in Names /\ watcher' = "salvage"
        /\ todo' = todo \ {Next1} /\ ~outs[Next1].whole /\ outs[Next1].bytes
        /\ \A n \in todo : dirs[n].here
        /\ (\E segs : Muxed(Next1, segs)) \/ Unmuxed(Next1)
    BY <1>6, FirstOrphan DEF SalvageMuxed, StreamTyped, Salvaging
  <2>2. /\ Shapes' /\ Filled' /\ \A m \in Names : Taken(m)' => Taken(m)
        /\ \A m \in Names \ {Next1} : outs'[m] = outs[m] /\ dirs'[m] = dirs[m]
    BY <2>1, MuxedIs
  <2> QED
    BY <2>1, <2>2 DEF StreamTyped, FinishedKept
<1>7. Good
  BY <1>3, <1>4, <1>5, <1>6
<1>8. StreamTyped'
  BY <1>1, <1>2, <1>7 DEF StreamTyped, Entry
<1>9. Successive' /\ Filled' /\ Salvaging'
  BY <1>1, <1>7 DEF Successive, OnAir, Salvaging
<1>10. Followed' /\ Ending'
  BY <1>1 DEF Followed, Ending, Recording
<1>11. Slotted'
  <2>1. \A b \in Shows : MayBegin(b)' => MayBegin(b)
    BY <1>1 DEF MayBegin, OnAir
  <2> QED
    BY <1>2, <1>7, <2>1, SlotsKept
<1> QED
  BY <1>7, <1>8, <1>9, <1>10, <1>11

\* An entry that is told to stop, or that moves on.
LEMMA StopSet ==
    ASSUME NEW t, Entry(t), NEW x, NEW u, u = [t EXCEPT !.stop = x]
    PROVE  /\ Entry(u) /\ u.at = t.at /\ u.show = t.show /\ u.name = t.name /\ u.of = t.of
           /\ u.got = t.got /\ u.stop = x
BY DEF Entry

\* An entry whose state changes.
LEMMA AtSet ==
    ASSUME NEW t, Entry(t), NEW a \in Recording \cup {"none", "spawned", "done"},
           NEW u, u = [t EXCEPT !.at = a]
    PROVE  /\ Entry(u) /\ u.at = a /\ u.show = t.show /\ u.name = t.name /\ u.of = t.of
           /\ u.got = t.got /\ u.stop = t.stop
BY DEF Entry

\* No recorder.
LEMMA NoTaskIs == Entry(NoTask) /\ NoTask.at = "none" /\ NoTask.stop = FALSE
BY DEF Entry, NoTask

\* A recorder that was just started.
LEMMA SpawnedIs ==
    ASSUME NEW b, NEW u, u = [NoTask EXCEPT !.at = "spawned", !.show = b]
    PROVE  Entry(u) /\ u.at = "spawned" /\ u.show = b /\ u.stop = FALSE
BY DEF Entry, NoTask

\* What the watcher does with the entry leaves the disk alone.
LEMMA WatcherKeeps ==
    ASSUME StreamInv, Ask \/ Diff \/ WatcherStops \/ Shutdown
    PROVE  StreamInv' /\ FinishedKept
<1> USE DEF StreamInv
<1>1. /\ UNCHANGED <<playlist, dirs, outs, todo, failures>>
      /\ failures \in Nat /\ failures' = failures
  BY StreamAssumption
  DEF Ask, Diff, WatcherStops, Shutdown, serviceVars, diskVars, StreamTyped
<1>2. \A n \in Names : Taken(n)' => Taken(n)
  BY <1>1 DEF Taken
<1>3. Successive' /\ Filled' /\ FinishedKept
  BY <1>1 DEF Successive, OnAir, Filled, FinishedKept
<1>4. ASSUME Ask PROVE StreamInv'
  <2>1. /\ watcher = "idle" /\ watcher' = "asked" /\ seen' = Online /\ ~stopping
        /\ UNCHANGED <<task, stopping>>
    BY <1>4 DEF Ask
  <2>2. StreamTyped' /\ Salvaging' /\ Followed'
    BY <1>1, <2>1, LatestIs DEF StreamTyped, Entry, Salvaging, Followed, OnAir
  <2>3. Ending'
    BY <1>1, <2>1, LatestIs DEF Ending, Over, OnAir, Followed
  <2>4. \A b \in Shows : MayBegin(b)' => MayBegin(b)
    <3> SUFFICES ASSUME NEW b \in Shows, task.at = "none", seen' = b PROVE MayBegin(b)
      BY <1>1, <2>1 DEF MayBegin, OnAir
    <3>1. b # 0
      BY StreamAssumption DEF Shows
    <3> QED
      BY <2>1, <3>1, LatestIs DEF MayBegin, Recording
  <2> QED
    BY <1>1, <1>2, <1>3, <2>2, <2>3, <2>4, SlotsKept
<1>5. ASSUME Diff PROVE StreamInv'
  <2>1. /\ watcher = "asked" /\ watcher' = "idle" /\ seen' = 0 /\ task' = Diffed(seen)
        /\ UNCHANGED stopping
    BY <1>5 DEF Diff
  <2>2. CASE task' = NoTask /\ task.at \in {"none", "done"}
    <3>1. StreamTyped' /\ Salvaging' /\ Followed' /\ Ending'
      BY <1>1, <2>1, <2>2, NoTaskIs DEF StreamTyped, Salvaging, Followed, Ending, Recording
    <3>2. \A b \in Shows : MayBegin(b)' => MayBegin(b)
      BY <1>1, <2>1, <2>2, NoTaskIs DEF MayBegin, OnAir, Recording
    <3> QED
      BY <1>1, <1>2, <1>3, <3>1, <3>2, SlotsKept
  <2>3. CASE /\ task.at = "none" /\ seen # 0
             /\ task' = [NoTask EXCEPT !.at = "spawned", !.show = seen]
    <3>1. Entry(task') /\ task'.at = "spawned" /\ task'.show = seen /\ task'.stop = FALSE
      BY <2>3, SpawnedIs
    <3>2. StreamTyped' /\ Salvaging' /\ Followed' /\ Ending'
      BY <1>1, <2>1, <2>3, <3>1 DEF StreamTyped, Salvaging, Followed, Ending, Recording
    <3>3. \A b \in Shows : MayBegin(b)' => MayBegin(b)
      BY <1>1, <2>1, <2>3, <3>1 DEF MayBegin, OnAir, Recording
    <3> QED
      BY <1>1, <1>2, <1>3, <3>2, <3>3, SlotsKept
  <2>4. CASE /\ task.at \notin {"none", "done"}
             /\ task' = [task EXCEPT !.stop = @ \/ seen = 0]
    <3>1. /\ Entry(task') /\ task'.at = task.at /\ task'.show = task.show
          /\ task'.name = task.name /\ task'.of = task.of
          /\ task'.stop = (task.stop \/ seen = 0)
      BY <2>4, StopSet DEF StreamTyped
    <3>2. StreamTyped' /\ Salvaging' /\ Followed'
      BY <1>1, <2>1, <2>4, <3>1 DEF StreamTyped, Salvaging, Followed, Recording
    <3>3. Ending'
      BY <1>1, <2>1, <2>4, <3>1 DEF Ending, Over, OnAir
    <3>4. \A b \in Shows : MayBegin(b)' => MayBegin(b)
      BY <1>1, <2>1, <2>4, <3>1 DEF MayBegin, OnAir, Recording
    <3> QED
      BY <1>1, <1>2, <1>3, <3>2, <3>3, <3>4, SlotsKept
  <2> QED
    BY <2>1, <2>2, <2>3, <2>4 DEF Diffed
<1>6. ASSUME WatcherStops \/ Shutdown PROVE StreamInv'
  <2>1. /\ task' = [task EXCEPT !.stop = @ \/ task.at # "none"] /\ seen' = seen
        /\ stopping' = TRUE
        /\ watcher' = watcher \/ (watcher = "idle" /\ watcher' = "stopped")
    BY <1>6 DEF WatcherStops, Shutdown
  <2>2. /\ Entry(task') /\ task'.at = task.at /\ task'.show = task.show
        /\ task'.name = task.name /\ task'.of = task.of
    BY <2>1, StopSet DEF StreamTyped
  <2>3. StreamTyped' /\ Salvaging' /\ Followed'
    BY <1>1, <2>1, <2>2 DEF StreamTyped, Salvaging, Followed, Recording, Next1
  <2>4. Ending'
    BY <2>1 DEF Ending, Over
  <2>5. \A b \in Shows : MayBegin(b)' => MayBegin(b)
    BY <1>1, <2>1, <2>2 DEF MayBegin, OnAir, Recording
  <2> QED
    BY <1>1, <1>2, <1>3, <2>3, <2>4, <2>5, SlotsKept
<1> QED
  BY <1>3, <1>4, <1>5, <1>6

\* The process ends: what was in memory is gone, and what was written is not.
LEMMA GoneKeeps == ASSUME StreamInv, Exit \/ Crash PROVE StreamInv' /\ FinishedKept
<1> USE DEF StreamInv
<1>1. /\ UNCHANGED <<playlist, dirs, outs>> /\ task' = NoTask /\ seen' = 0
      /\ watcher' = "down" /\ stopping' = FALSE /\ todo' = {}
      /\ failures < MaxFailures /\ failures' = failures + 1
  BY DEF Exit, Crash, Gone, Hit, serviceVars, diskVars
<1>2. failures \in Nat /\ failures' \in 0..MaxFailures /\ failures <= failures'
  BY <1>1, StreamAssumption DEF StreamTyped
<1>3. StreamTyped'
  BY <1>1, <1>2, NoTaskIs DEF StreamTyped
<1>4. Successive' /\ Filled' /\ FinishedKept /\ Salvaging' /\ Followed' /\ Ending'
  BY <1>1, NoTaskIs
  DEF Successive, OnAir, Filled, FinishedKept, Salvaging, Followed, Ending, Recording
<1>5. Slotted'
  <2>1. \A n \in Names : Taken(n)' => Taken(n)
    BY <1>1 DEF Taken
  <2> QED
    BY <1>1, <1>2, <2>1, SlotsKept
<1> QED
  BY <1>3, <1>4, <1>5

-----------------------------------------------------------------------------
(* The recorder.                                                           *)

\* A recorder that begins finds a name that nothing has, within the bound.
LEMMA FreeName ==
    ASSUME StreamInv, NEW b \in Shows, MayBegin(b)
    PROVE  FreePart(b) \in Parts /\ ~Taken(<<b, FreePart(b)>>) /\ FreePart(b) <= failures + 1
<1> DEFINE S == {k \in Parts : ~Taken(<<b, k>>)}
<1>1. failures \in Nat /\ failures + 1 \in Parts /\ Parts \subseteq Nat
  BY StreamAssumption DEF StreamInv, StreamTyped, Parts
<1>2. Slots(b, failures)
  BY DEF StreamInv, Slotted
<1>3. ~Taken(<<b, failures + 1>>)
  <2>1. ~(failures + 1 <= failures)
    BY <1>1
  <2> QED
    BY <1>1, <1>2, <2>1 DEF Slots
<1>4. failures + 1 \in S /\ S \in SUBSET Nat
  BY <1>1, <1>3
<1>5. FreePart(b) = Min(S)
  BY DEF FreePart
<1> HIDE DEF S
<1>6. Min(S) \in S /\ \A n \in S : Min(S) <= n
  BY <1>4, LeastNumber
<1> QED
  BY <1>4, <1>5, <1>6 DEF S

\* A recording begins: its name is taken.
LEMMA BeginKeeps == ASSUME StreamInv, BeginRecording PROVE StreamInv' /\ FinishedKept
<1> USE DEF StreamInv
<1> DEFINE b == task.show
           name == <<b, FreePart(b)>>
<1>1. /\ UNCHANGED <<playlist, watcher, seen, stopping, todo, outs, failures>>
      /\ task.at = "spawned" /\ dirs' = [dirs EXCEPT ![name] = [here |-> TRUE, files |-> <<>>]]
      /\ task' = [task EXCEPT !.at = "open", !.name = name, !.attempt = 1]
  BY DEF BeginRecording, serviceVars
<1>2. b \in Shows /\ playlist[b] # "none" /\ MayBegin(b)
  BY <1>1 DEF Followed, MayBegin
<1>3. /\ FreePart(b) \in Parts /\ ~Taken(name) /\ FreePart(b) <= failures + 1
      /\ name \in Names
  BY <1>2, FreeName DEF Names
<1> HIDE DEF name
<1>4. /\ Entry(task') /\ task'.at = "open" /\ task'.show = b /\ task'.name = name
      /\ task'.stop = task.stop
  BY <1>1 DEF StreamTyped, Entry, Recording
<1>5. /\ (dirs = [m \in Names |-> [here |-> dirs[m].here, files |-> dirs[m].files]])'
      /\ dirs'[name].here = TRUE
      /\ \A m \in Names \ {name} : dirs'[m] = dirs[m]
  BY <1>1, <1>3, DirSet
<1>6. ~outs[name].whole
  BY <1>3 DEF Filled, Taken
<1>7. watcher \notin {"down", "salvage", "mux"}
  BY <1>1 DEF Salvaging
<1>8. StreamTyped' /\ Successive' /\ Filled' /\ Salvaging' /\ Followed' /\ FinishedKept
  BY <1>1, <1>2, <1>3, <1>4, <1>5, <1>6, <1>7
  DEF StreamTyped, Successive, OnAir, Filled, Salvaging, Followed, FinishedKept
<1>9. Ending'
  BY <1>1, <1>4 DEF Ending, Over, OnAir
<1>10. Slotted'
  <2>1. ASSUME NEW c \in Shows, MayBegin(c)' PROVE MayBegin(c) /\ c # b
    <3>1. c # b
      BY <1>1, <1>2, <1>4, <2>1 DEF MayBegin, OnAir, Recording
    <3> QED
      BY <1>1, <1>4, <2>1, <3>1 DEF MayBegin, OnAir
  <2>2. ASSUME NEW c \in Shows, NEW k \in Parts, Taken(<<c, k>>)', <<c, k>> # name
        PROVE  Taken(<<c, k>>)
    <3>1. <<c, k>> \in Names
      BY DEF Names
    <3> QED
      BY <1>1, <1>5, <2>2, <3>1 DEF Taken
  <2>3. ASSUME NEW c \in Shows, NEW k \in Parts, <<c, k>> = name
        PROVE  c = b /\ k = FreePart(b)
    BY <2>3 DEF name
  <2>4. \A c \in Shows : /\ Slots(c, failures + 1)
                         /\ MayBegin(c) => Slots(c, failures)
    BY DEF Slotted
  <2>5. ASSUME NEW c \in Shows, NEW k \in Parts, Taken(<<c, k>>)'
        PROVE  k <= failures + 1 /\ (MayBegin(c)' => k <= failures)
    <3>1. CASE <<c, k>> = name
      BY <1>3, <2>1, <2>3, <3>1
    <3>2. CASE <<c, k>> # name
      BY <2>1, <2>2, <2>4, <2>5, <3>2 DEF Slots
    <3> QED
      BY <3>1, <3>2
  <2> QED
    BY <1>1, <2>5 DEF Slotted, Slots
<1> QED
  BY <1>8, <1>9, <1>10

\* What the recorder may do from then on: it writes to its own name only, to the
\* MP4 only while that is not whole, and ends because its broadcast is over or
\* by a fault.
LEMMA RecorderFrame ==
    ASSUME StreamInv, task.at \in Recording \cup {"spawned"},
           UNCHANGED <<playlist, watcher, seen, stopping, todo>>,
           failures' \in 0..MaxFailures, failures <= failures',
           (dirs = [m \in Names |-> [here |-> dirs[m].here, files |-> dirs[m].files]])',
           (outs = [m \in Names |-> outs[m]])',
           \A m \in Names \ {task.name} : outs'[m] = outs[m] /\ dirs'[m] = dirs[m],
           task.at = "spawned" => UNCHANGED <<dirs, outs>>,
           Filled', Entry(task'), task'.at \in Recording \cup {"done"},
           task'.show = task.show, task'.stop = task.stop,
           task'.at \in Recording =>
              task.at # "spawned" /\ task'.name = task.name /\ dirs'[task.name].here
              /\ ~outs'[task.name].whole,
           task'.at = "poll" =>
              task'.of \in Shows /\ task.show <= task'.of /\ playlist[task'.of] # "none",
           task'.at = "mux" => Over(task.show),
           task'.at = "done" => Over(task.show) \/ failures' = failures + 1
    PROVE  StreamInv' /\ FinishedKept
<1> USE DEF StreamInv
<1>1. /\ task.show \in Shows /\ playlist[task.show] # "none"
      /\ task.at \in Recording =>
            task.name \in Names /\ dirs[task.name].here /\ ~outs[task.name].whole
      /\ watcher \notin {"down", "salvage", "mux"}
  BY DEF Followed, Salvaging, Recording
<1>2. FinishedKept
  BY <1>1 DEF FinishedKept
<1>3. StreamTyped' /\ Successive' /\ Salvaging'
  BY <1>1 DEF StreamTyped, Successive, OnAir, Salvaging
<1>4. Followed'
  BY <1>1 DEF Followed, Recording
<1>5. Ending'
  BY DEF Ending, Over, OnAir, Recording
<1>6. Slotted'
  <2>1. \A n \in Names : Taken(n)' => Taken(n)
    BY <1>1 DEF Taken, Recording
  <2>2. ASSUME NEW b \in Shows, MayBegin(b)' PROVE MayBegin(b) \/ failures' = failures + 1
    <3>1. ~stopping /\ (OnAir(b) \/ playlist[b] = "none")
          /\ (task.show = b => task'.at \notin Recording)
      BY <2>2 DEF MayBegin, OnAir, Recording
    <3>2. CASE task.show # b
      BY <3>1, <3>2 DEF MayBegin
    <3>3. CASE task.show = b
      BY <1>1, <3>1, <3>3 DEF Over, Recording
    <3> QED
      BY <3>2, <3>3
  <2>3. failures' \in Nat
    BY StreamAssumption
  <2> QED
    BY <2>1, <2>2, <2>3, SlotsKept
<1> QED
  BY <1>2, <1>3, <1>4, <1>5, <1>6

\* An attempt that ends is followed by another, or is the last.
LEMMA RetriedIs ==
    ASSUME NEW t, Entry(t), NEW u, u = Retried(t)
    PROVE  /\ Entry(u) /\ u.at \in {"open", "done"}
           /\ u.show = t.show /\ u.name = t.name /\ u.stop = t.stop
<1> DEFINE A == t.attempt + 1
           S == <<>>
           L == -1
<1>1. CASE t.attempt < MaxAttempts
  <2>1. u = [t EXCEPT !.at = "open", !.attempt = A, !.got = S, !.last = L]
    BY <1>1 DEF Retried
  <2> HIDE DEF A, S, L
  <2> QED
    BY <2>1 DEF Entry, Recording
<1>2. CASE ~(t.attempt < MaxAttempts)
  <2>1. u = [t EXCEPT !.at = "done"]
    BY <1>2 DEF Retried, Finished
  <2> QED
    BY <2>1, AtSet DEF Recording
<1> QED
  BY <1>1, <1>2

\* Whoever is told to stop has a reason.
LEMMA StoppedIs ==
    ASSUME StreamInv, task.at \in Recording, Stopped
    PROVE  Over(task.show)
BY DEF StreamInv, Ending, Stopped, Over, Recording

\* The playlist that a recorder follows is of its broadcast or a later one: once
\* that has ended, so has the broadcast.
LEMMA FollowedOver ==
    ASSUME StreamInv, NEW b \in Shows, NEW c \in Shows, b <= c, playlist[c] \in {"endlist", "gone"}
    PROVE  Over(b)
<1>1. ASSUME OnAir(b) PROVE FALSE
  <2>1. c <= b
    BY <1>1 DEF StreamInv, Successive
  <2>2. b \in Nat /\ c \in Nat
    BY StreamAssumption DEF Shows
  <2>3. c = b
    BY <2>1, <2>2
  <2> QED
    BY <1>1, <2>3 DEF OnAir
<1> QED
  BY <1>1 DEF Over

\* A recorder opens the latest stream of its creator, gives up, or ends.
LEMMA OpenKeeps == ASSUME StreamInv, OpenStream PROVE StreamInv' /\ FinishedKept
<1> USE DEF StreamInv
<1>1. /\ UNCHANGED <<playlist, watcher, seen, stopping, todo, dirs, outs>>
      /\ task.at = "open" /\ Entry(task) /\ Filled
      /\ dirs = [m \in Names |-> [here |-> dirs[m].here, files |-> dirs[m].files]]
      /\ outs = [m \in Names |-> outs[m]]
  BY DEF OpenStream, serviceVars, diskVars, StreamTyped
<1>2. /\ task.show \in Shows /\ playlist[task.show] # "none"
      /\ dirs[task.name].here /\ ~outs[task.name].whole
  BY <1>1 DEF Followed, Recording
<1>3. failures \in Nat /\ failures' \in 0..MaxFailures /\ failures <= failures'
  <2>1. failures' = failures \/ (failures < MaxFailures /\ failures' = failures + 1)
    BY DEF OpenStream, NoFault, Hit
  <2> QED
    BY <2>1, StreamAssumption DEF StreamTyped
<1>4. Filled'
  BY <1>1 DEF Filled
<1>5. CASE Stopped /\ task' = Finished(task)
  <2>1. /\ Entry(task') /\ task'.at = "done" /\ task'.show = task.show
        /\ task'.stop = task.stop
    BY <1>1, <1>5, AtSet DEF Finished, Recording
  <2>2. Over(task.show)
    BY <1>1, <1>5, StoppedIs DEF Recording
  <2> QED
    BY <1>1, <1>3, <1>4, <2>1, <2>2, RecorderFrame DEF Recording
<1>6. CASE Variant # 0 /\ task' = [task EXCEPT !.at = "poll", !.of = Variant]
  <2>1. Variant = Latest /\ Latest \in Shows /\ task.show <= Latest /\ playlist[Latest] # "none"
    BY <1>2, <1>6, LatestIs DEF Variant
  <2>2. /\ Entry(task') /\ task'.at = "poll" /\ task'.show = task.show /\ task'.of = Variant
        /\ task'.name = task.name /\ task'.stop = task.stop
    <3> DEFINE V == Variant
    <3>1. task' = [task EXCEPT !.at = "poll", !.of = V]
      BY <1>6
    <3> HIDE DEF V
    <3>2. /\ Entry(task') /\ task'.at = "poll" /\ task'.show = task.show /\ task'.of = V
          /\ task'.name = task.name /\ task'.stop = task.stop
      BY <1>1, <3>1 DEF Entry, Recording
    <3> QED
      BY <3>2 DEF V
  <2> QED
    BY <1>1, <1>2, <1>3, <1>4, <2>1, <2>2, RecorderFrame DEF Recording
<1>7. CASE task' = Retried(task) /\ (Variant = 0 \/ failures' = failures + 1)
  <2>1. /\ Entry(task') /\ task'.at \in {"open", "done"} /\ task'.show = task.show
        /\ task'.name = task.name /\ task'.stop = task.stop
    BY <1>1, <1>7, RetriedIs
  <2>2. ASSUME Variant = 0 PROVE Over(task.show)
    <3>1. /\ Latest \in Shows /\ task.show <= Latest /\ playlist[Latest] # "none"
          /\ Latest # 0
      <4>1. task.show <= Latest /\ Latest \in Shows \cup {0} /\ task.show \in 1..MaxShows
        BY <1>2, LatestIs DEF Shows
      <4>2. Latest # 0
        BY <4>1, StreamAssumption
      <4> QED
        BY <4>1, <4>2, LatestIs
    <3>2. playlist[Latest] \notin {"open", "endlist"}
      BY <2>2, <3>1 DEF Variant
    <3>3. playlist[Latest] \in Statuses
      BY <3>1 DEF StreamTyped
    <3>4. playlist[Latest] = "gone"
      BY <3>1, <3>2, <3>3 DEF Statuses
    <3> QED
      BY <1>2, <3>1, <3>4, FollowedOver
  <2> QED
    BY <1>1, <1>2, <1>3, <1>4, <1>7, <2>1, <2>2, RecorderFrame DEF Recording
<1> QED
  BY <1>5, <1>6, <1>7 DEF OpenStream, Hit

\* A recorder leaves its loop: it muxes what there is, or opens the stream again.
LEMMA LeaveKeeps ==
    ASSUME StreamInv, task.at = "poll", Over(task.show), NEW t, Entry(t), t.at = "poll",
           t.show = task.show, t.name = task.name, t.stop = task.stop, Leave(t),
           UNCHANGED <<playlist, watcher, seen, stopping, todo>>,
           failures' \in 0..MaxFailures, failures <= failures',
           (dirs = [m \in Names |-> [here |-> dirs[m].here, files |-> dirs[m].files]])',
           \A m \in Names \ {task.name} : dirs'[m] = dirs[m],
           dirs'[task.name].here
    PROVE  StreamInv' /\ FinishedKept
<1> USE DEF StreamInv
<1>1. /\ task.name \in Names /\ ~outs[task.name].whole
      /\ outs = [m \in Names |-> outs[m]] /\ Filled
  BY DEF Followed, Recording, StreamTyped
<1>2. CASE t.got = <<>>
  <2>1. outs' = outs /\ task' = Retried(t)
    BY <1>2 DEF Leave
  <2>2. /\ Entry(task') /\ task'.at \in {"open", "done"} /\ task'.show = task.show
        /\ task'.name = task.name /\ task'.stop = task.stop
    BY <2>1, RetriedIs
  <2>3. Filled'
    BY <1>1, <2>1 DEF Filled
  <2> QED
    BY <1>1, <2>1, <2>2, <2>3, RecorderFrame DEF Recording
<1>3. CASE t.got # <<>>
  <2>1. outs' = [outs EXCEPT ![task.name] = Partial] /\ task' = [t EXCEPT !.at = "mux"]
    BY <1>3 DEF Leave
  <2>2. /\ (outs = [m \in Names |-> outs[m]])' /\ outs'[task.name] = Partial
        /\ \A m \in Names \ {task.name} : outs'[m] = outs[m]
    BY <1>1, <2>1, OutSet
  <2>3. ~outs'[task.name].whole /\ outs'[task.name].bytes
    BY <2>2 DEF Partial
  <2>4. Filled'
    BY <1>1, <2>2, <2>3 DEF Filled
  <2>5. /\ Entry(task') /\ task'.at = "mux" /\ task'.show = task.show
        /\ task'.name = task.name /\ task'.stop = task.stop
    BY <2>1, AtSet DEF Recording
  <2> QED
    BY <1>1, <2>2, <2>3, <2>4, <2>5, RecorderFrame DEF Recording
<1> QED
  BY <1>2, <1>3

\* What was collected of a manifest.
LEMMA CollectedIs ==
    ASSUME Entry(task), NEW jobs, NEW ok, NEW t, t = Collected(jobs, ok)
    PROVE  /\ Entry(t) /\ t.at = task.at /\ t.show = task.show /\ t.name = task.name
           /\ t.of = task.of /\ t.stop = task.stop
<1> DEFINE G == task.got \o [k \in DOMAIN SetToSortSeq(ok, <) |-> Index(SetToSortSeq(ok, <)[k])]
           L == IF ok = {} THEN task.last ELSE jobs[Max(ok)]
<1>1. t = [task EXCEPT !.got = G, !.last = L]
  BY DEF Collected
<1> HIDE DEF G, L
<1> QED
  BY <1>1 DEF Entry

\* Segments are written into the recorder's own directory.
LEMMA WrittenIs ==
    ASSUME StreamTyped, task.name \in Names, NEW jobs, NEW ok, dirs' = Written(jobs, ok)
    PROVE  /\ (dirs = [m \in Names |-> [here |-> dirs[m].here, files |-> dirs[m].files]])'
           /\ dirs'[task.name].here = dirs[task.name].here
           /\ \A m \in Names \ {task.name} : dirs'[m] = dirs[m]
<1> DEFINE n == task.name
           F == [i \in DOMAIN dirs[n].files \cup {Index(k) : k \in ok} |->
                    IF \E k \in ok : i = Index(k)
                    THEN <<task.of, jobs[i - Len(task.got) + 1]>> ELSE dirs[n].files[i]]
           h == dirs[n].here
<1>1. dirs' = [dirs EXCEPT ![n] = [dirs[n] EXCEPT !.files = F]]
  BY DEF Written, StreamTyped
<1>2. dirs[n] = [here |-> h, files |-> dirs[n].files]
  BY DEF StreamTyped
<1> HIDE DEF F, h
<1>3. [dirs[n] EXCEPT !.files = F] = [here |-> h, files |-> F]
  BY <1>2
<1>4. dirs' = [dirs EXCEPT ![n] = [here |-> h, files |-> F]]
  BY <1>1, <1>3
<1>5. /\ (dirs = [m \in Names |-> [here |-> dirs[m].here, files |-> dirs[m].files]])'
      /\ dirs'[n].here = h
      /\ \A m \in Names \ {n} : dirs'[m] = dirs[m]
  BY <1>4, DirSet
<1> QED
  BY <1>5 DEF h

\* A recorder reads a manifest, or is told to stop.
LEMMA PollKeeps == ASSUME StreamInv, Poll \/ PollStops PROVE StreamInv' /\ FinishedKept
<1> USE DEF StreamInv
<1>1. /\ UNCHANGED <<playlist, watcher, seen, stopping, todo>>
      /\ task.at = "poll" /\ Entry(task) /\ Filled
      /\ dirs = [m \in Names |-> [here |-> dirs[m].here, files |-> dirs[m].files]]
      /\ outs = [m \in Names |-> outs[m]]
  BY DEF Poll, PollStops, serviceVars, StreamTyped
<1>2. /\ task.show \in Shows /\ task.of \in Shows /\ task.show <= task.of
      /\ playlist[task.of] # "none"
      /\ task.name \in Names /\ dirs[task.name].here /\ ~outs[task.name].whole
  BY <1>1 DEF Followed, Recording
<1>3. CASE PollStops
  <2>1. Leave(task) /\ UNCHANGED <<dirs, failures>> /\ Stopped
    BY <1>3 DEF PollStops
  <2>2. Over(task.show)
    BY <1>1, <2>1, StoppedIs DEF Recording
  <2>3. failures' \in 0..MaxFailures /\ failures <= failures'
    BY <2>1, StreamAssumption DEF StreamTyped
  <2> QED
    BY <1>1, <1>2, <2>1, <2>2, <2>3, LeaveKeeps
<1>4. CASE Poll
  <2>1. PICK ok \in SUBSET DOMAIN Fresh(task) :
           /\ IF ok = DOMAIN Fresh(task) THEN NoFault ELSE Hit("segment")
           /\ dirs' = Written(Fresh(task), ok)
           /\ IF playlist[task.of] = "endlist" THEN Leave(Collected(Fresh(task), ok))
              ELSE task' = Collected(Fresh(task), ok) /\ UNCHANGED outs
    BY <1>4 DEF Poll
  <2>2. failures' \in 0..MaxFailures /\ failures <= failures'
    <3>1. failures' = failures \/ (failures < MaxFailures /\ failures' = failures + 1)
      BY <2>1 DEF NoFault, Hit
    <3> QED
      BY <3>1, StreamAssumption DEF StreamTyped
  <2> DEFINE t == Collected(Fresh(task), ok)
  <2>3. /\ Entry(t) /\ t.at = "poll" /\ t.show = task.show /\ t.name = task.name
        /\ t.of = task.of /\ t.stop = task.stop
    BY <1>1, CollectedIs
  <2>4. /\ (dirs = [m \in Names |-> [here |-> dirs[m].here, files |-> dirs[m].files]])'
        /\ dirs'[task.name].here
        /\ \A m \in Names \ {task.name} : dirs'[m] = dirs[m]
    BY <1>2, <2>1, WrittenIs
  <2>5. IF playlist[task.of] = "endlist" THEN Leave(t) ELSE task' = t /\ UNCHANGED outs
    BY <2>1
  <2> HIDE DEF t
  <2>6. CASE playlist[task.of] = "endlist"
    <3>1. Over(task.show)
      BY <1>2, <2>6, FollowedOver
    <3> QED
      BY <1>1, <1>2, <2>2, <2>3, <2>4, <2>5, <2>6, <3>1, LeaveKeeps
  <2>7. CASE playlist[task.of] # "endlist"
    <3>1. task' = t /\ outs' = outs
      BY <2>5, <2>7
    <3>2. Filled'
      BY <1>1, <3>1 DEF Filled
    <3> QED
      BY <1>1, <1>2, <2>2, <2>3, <2>4, <3>1, <3>2, RecorderFrame DEF Recording
  <2> QED
    BY <2>6, <2>7
<1> QED
  BY <1>3, <1>4

\* The mux ends, well or not.
LEMMA MuxKeeps == ASSUME StreamInv, Mux PROVE StreamInv' /\ FinishedKept
<1> USE DEF StreamInv
<1>1. /\ UNCHANGED <<playlist, watcher, seen, stopping, todo>>
      /\ task.at = "mux" /\ Entry(task)
  BY DEF Mux, serviceVars, StreamTyped
<1>2. /\ task.name \in Names /\ dirs[task.name].here /\ ~outs[task.name].whole
      /\ Over(task.show)
  BY <1>1 DEF Followed, Recording, Ending
<1>3. failures' \in 0..MaxFailures /\ failures <= failures'
  <2>1. failures' = failures \/ (failures < MaxFailures /\ failures' = failures + 1)
    BY DEF Mux, Muxed, NoFault, Hit
  <2> QED
    BY <2>1, StreamAssumption DEF StreamTyped
<1>4. (\E segs : Muxed(task.name, segs)) \/ Unmuxed(task.name)
  BY DEF Mux
<1>5. /\ (dirs = [m \in Names |-> [here |-> dirs[m].here, files |-> dirs[m].files]])'
      /\ (outs = [m \in Names |-> outs[m]])' /\ Filled'
      /\ \A m \in Names \ {task.name} : outs'[m] = outs[m] /\ dirs'[m] = dirs[m]
      /\ Unmuxed(task.name) => ~outs'[task.name].whole /\ dirs' = dirs
  BY <1>2, <1>4, MuxedIs
<1>6. CASE task' = Finished(task)
  <2>1. /\ Entry(task') /\ task'.at = "done" /\ task'.show = task.show
        /\ task'.stop = task.stop
    BY <1>1, <1>6, AtSet DEF Finished, Recording
  <2> QED
    BY <1>1, <1>2, <1>3, <1>5, <2>1, RecorderFrame DEF Recording
<1>7. CASE Unmuxed(task.name) /\ task' = Retried(task)
  <2>1. /\ Entry(task') /\ task'.at \in {"open", "done"} /\ task'.show = task.show
        /\ task'.name = task.name /\ task'.stop = task.stop
    BY <1>1, <1>7, RetriedIs
  <2> QED
    BY <1>1, <1>2, <1>3, <1>5, <1>7, <2>1, RecorderFrame DEF Recording
<1> QED
  BY <1>6, <1>7 DEF Mux

\* A recorder is cancelled; its mux may still end well.
LEMMA CancelKeeps == ASSUME StreamInv, CancelTask PROVE StreamInv' /\ FinishedKept
<1> USE DEF StreamInv
<1>1. /\ UNCHANGED <<playlist, watcher, seen, stopping, todo, dirs, failures>>
      /\ task.at \in Recording \cup {"spawned"} /\ stopping /\ Entry(task)
      /\ dirs = [m \in Names |-> [here |-> dirs[m].here, files |-> dirs[m].files]]
      /\ outs = [m \in Names |-> outs[m]] /\ Filled
      /\ task' = [task EXCEPT !.at = "done"]
  BY DEF CancelTask, serviceVars, StreamTyped, Recording
<1>2. /\ Entry(task') /\ task'.at = "done" /\ task'.show = task.show /\ task'.stop = task.stop
  BY <1>1, AtSet DEF Recording
<1>3. failures' \in 0..MaxFailures /\ failures <= failures'
  BY <1>1, StreamAssumption DEF StreamTyped
<1>4. Over(task.show)
  BY <1>1 DEF Over
<1>5. CASE outs' = outs
  <2>1. Filled'
    BY <1>1, <1>5 DEF Filled
  <2> QED
    BY <1>1, <1>2, <1>3, <1>4, <1>5, <2>1, RecorderFrame DEF Recording
<1>6. CASE outs' # outs
  <2> DEFINE S == [i \in DOMAIN task.got |-> dirs[task.name].files[task.got[i]]]
             O == [whole |-> TRUE, bytes |-> TRUE, segs |-> S]
  <2>1. task.at = "mux" /\ outs' = [outs EXCEPT ![task.name] = O]
    BY <1>6 DEF CancelTask
  <2>2. O.bytes
    OBVIOUS
  <2> HIDE DEF O
  <2>3. task.name \in Names
    BY <2>1 DEF Followed, Recording
  <2>4. /\ (outs = [m \in Names |-> outs[m]])' /\ outs'[task.name] = O
        /\ \A m \in Names \ {task.name} : outs'[m] = outs[m]
    BY <2>1, <2>3, OutSet
  <2>5. Filled'
    BY <1>1, <2>2, <2>4 DEF Filled
  <2> QED
    BY <1>1, <1>2, <1>3, <1>4, <2>1, <2>4, <2>5, RecorderFrame DEF Recording
<1> QED
  BY <1>5, <1>6

-----------------------------------------------------------------------------
(* The specification of the recorder.                                      *)

\* At the start nothing was recorded.
LEMMA StreamStart == StreamInit => StreamInv
<1> SUFFICES ASSUME StreamInit PROVE StreamInv
  OBVIOUS
<1>1. /\ playlist = [b \in Shows |-> "none"] /\ watcher = "down" /\ seen = 0
      /\ task = NoTask /\ stopping = FALSE /\ todo = {} /\ failures = 0
      /\ dirs = [n \in Names |-> NoDir] /\ outs = [n \in Names |-> Nothing]
  BY DEF StreamInit
<1>2. /\ NoDir = [here |-> NoDir.here, files |-> NoDir.files] /\ ~NoDir.here
      /\ ~Nothing.whole /\ ~Nothing.bytes
  BY DEF NoDir, Nothing
<1>3. \A n \in Names : dirs[n] = NoDir /\ outs[n] = Nothing
  BY <1>1
<1>4. dirs = [n \in Names |-> [here |-> dirs[n].here, files |-> dirs[n].files]]
  BY <1>1, <1>2, <1>3
<1>5. StreamTyped
  <2>1. playlist \in [Shows -> Statuses]
    BY <1>1 DEF Statuses
  <2>2. outs = [n \in Names |-> outs[n]]
    BY <1>1
  <2>3. failures \in 0..MaxFailures /\ seen \in Shows \cup {0} /\ todo \subseteq Names
    BY <1>1, StreamAssumption
  <2>4. Entry(task)
    BY <1>1, NoTaskIs
  <2> QED
    BY <1>1, <1>4, <2>1, <2>2, <2>3, <2>4 DEF StreamTyped
<1>6. Successive /\ Filled /\ Salvaging /\ Followed /\ Ending
  BY <1>1, <1>2, <1>3, NoTaskIs
  DEF Successive, OnAir, Filled, Salvaging, Followed, Ending, Recording
<1>7. Slotted
  <2>1. \A b \in Shows, k \in Parts : ~Taken(<<b, k>>)
    BY <1>2, <1>3 DEF Taken, Names
  <2> QED
    BY <2>1 DEF Slotted, Slots
<1> QED
  BY <1>5, <1>6, <1>7 DEF StreamInv

\* The invariant is inductive, and no step writes what was finished.
LEMMA StreamStep == StreamInv /\ [StreamNext]_streamVars => StreamInv' /\ FinishedKept
<1>1. ASSUME StreamInv, StreamNext PROVE StreamInv' /\ FinishedKept
  BY <1>1, ServiceKeeps, SalvageKeeps, WatcherKeeps, GoneKeeps, BeginKeeps, OpenKeeps,
     PollKeeps, MuxKeeps, CancelKeeps
  DEF StreamNext, Watch, RecorderStep
<1>2. ASSUME StreamInv, UNCHANGED streamVars PROVE StreamInv' /\ FinishedKept
  <2>1. /\ UNCHANGED <<playlist, watcher, seen, task, stopping>>
        /\ UNCHANGED <<todo, dirs, outs, failures>>
    BY <1>2 DEF streamVars
  <2>2. Next1' = Next1 /\ \A n : Taken(n)' = Taken(n)
    BY <2>1 DEF Next1, Taken
  <2>3. \A b : OnAir(b)' = OnAir(b) /\ Over(b)' = Over(b) /\ MayBegin(b)' = MayBegin(b)
    BY <2>1 DEF OnAir, Over, MayBegin
  <2> QED
    BY <1>2, <2>1, <2>2, <2>3
    DEF StreamInv, StreamTyped, Entry, Successive, Filled, Salvaging, Followed, Ending,
        Slotted, Slots, FinishedKept
<1> QED
  BY <1>1, <1>2

\* A finished MP4 is never written again: not by a later recorder of the same
\* broadcast, whose name is another, nor by a salvage after any number of
\* crashes, nor by a mux that outlives its task (fileio/livestream.py,
\* _unique_output_path; download/livestream.py, _salvage_orphan_segments).
THEOREM CompletedCorrect == StreamSpec => CompletedKept
<1>1. StreamInv /\ [StreamNext]_streamVars =>
        [\A n \in Names : outs[n].whole => outs'[n] = outs[n]]_streamVars
  BY StreamStep DEF FinishedKept
<1> QED
  BY <1>1, StreamStart, StreamStep, PTL DEF StreamSpec, CompletedKept

=============================================================================
