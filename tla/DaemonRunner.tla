---------------------------- MODULE DaemonRunner ----------------------------
(***************************************************************************)
(* The monitoring daemon, daemon/runner.py: five asyncio tasks (two poll   *)
(* loops, the worker, the activity tick, the following refresh), the       *)
(* handler the WebSocket's drain task calls, and the coroutine that owns   *)
(* them.  They share a work queue, the ActivitySimulator, the ErrorBudget, *)
(* stop_event and refresh_event, and they interleave at every await.  An   *)
(* action below is the code between two awaits.                            *)
(*                                                                         *)
(* Time is abstracted: a countdown may expire whenever its loop waits, a   *)
(* phase of the simulator may be over whenever it is ticked, and what the  *)
(* budget measures is only whether its window has passed (silence).  What  *)
(* is downloaded, which posts are new and the MonitorState rows are in     *)
(* module Discovery.                                                       *)
(***************************************************************************)
EXTENDS Naturals, Sequences, FiniteSets

CONSTANTS
    Creators,      \* account ids that appear in polls and in events
    NoCreator,     \* an item that carries no creator id
    InScope,       \* the creators named by -u
    UseFollowing,  \* -uf: every creator is in scope, the list is refreshed
    Feed,          \* the kinds of service event the WebSocket delivers
    Revocable,     \* may the token be revoked while the daemon runs
    MaxEvents,     \* bound: events delivered in a behaviour
    MaxQueue,      \* bound: items queued or about to be queued
    MaxSigints     \* bound: how often the user presses Ctrl+C

Events == {"Dm", "Text", "Deleted", "SubConfirmed", "Purchase",
           "StoryPurchase", "Follow"}

ASSUME RunnerAssumption ==
    /\ NoCreator \notin Creators
    /\ InScope \subseteq Creators
    /\ UseFollowing \in BOOLEAN
    /\ Feed \subseteq Events
    /\ MaxEvents \in Nat
    /\ Revocable \in BOOLEAN
    /\ MaxQueue \in Nat
    /\ MaxSigints \in 0..2

Pollers == {"timeline", "story", "tick", "following"}
Tasks == Pollers \cup {"worker"}

\* How a task ends: by returning, with DaemonUnrecoverableError, with any
\* other exception, by cancellation.
Terminal == {"done", "raised", "crashed", "cancelled"}

\* Where a task can be: at an await, or at its end.
Places == {"wait", "fetch", "sift", "put", "rewire", "idle", "account",
           "download", "refresh"} \cup Terminal

Kinds == {"messages", "deleted", "full", "redownload", "access", "stories",
          "timeline"}
Item == [kind : Kinds, creator : Creators \cup {NoCreator}]
NoItem == [kind |-> "none", creator |-> NoCreator]

VARIABLES
    sim,      \* ActivitySimulator.state
    silence,  \* "recent", or where the daemon was when the window passed
    token,    \* does the API accept the token, or answer 401 to everything
    stop,     \* stop_event
    refresh,  \* refresh_event
    queue,    \* the asyncio.Queue of WorkItems
    pc,       \* the await each task is at
    cands,    \* creators a poll returned and its loop has yet to examine
    hit,      \* queued_any of the timeline loop
    item,     \* the worker's WorkItem
    event,    \* the item the WebSocket handler is about to put
    ws,       \* does the WebSocket deliver events
    main,     \* where _run_daemon_body is
    exit,     \* its exit code
    sigints,  \* sigint_count
    feed,     \* events still to come
    trip,     \* history: what made the ErrorBudget raise first: a hard status,
              \* or silence ("hidden": of a hidden phase already over)
    owed      \* history: items accepted before Ctrl+C and not yet finished

budgetVars == <<silence, trip>>
pollVars == <<cands, hit>>
wsVars == <<event, ws, feed>>
mainVars == <<main, exit, sigints>>
vars == <<sim, silence, token, stop, refresh, queue, pc, cands, hit, item,
          event, ws, main, exit, sigints, feed, trip, owed>>

EXIT_SUCCESS == "success"
DAEMON_UNRECOVERABLE == "unrecoverable"
OTHER_EXCEPTION == "exception"

Ended == {"returned", "raised"}
Running == main \notin Ended
At(t, where) == pc[t] = where /\ Running
Goto(t, where) == pc' = [pc EXCEPT ![t] = where]
Live(t) == pc[t] \notin Terminal

-----------------------------------------------------------------------------
(* ErrorBudget, ActivitySimulator and the scope predicate.                 *)

OnSuccess == silence' = "recent" /\ UNCHANGED trip

\* on_error for anything but an HTTPStatusError 401/418: raise only when the
\* window has passed, else let the task go on at `where`.
OnSoftError(t, where) ==
    /\ Goto(t, IF silence = "recent" THEN where ELSE "raised")
    /\ trip' = CASE trip # "none" \/ silence = "recent" -> trip
                 [] trip = "none" /\ silence = "hidden" /\ sim # "hidden" -> "hidden"
                 [] OTHER -> "awake"
    /\ UNCHANGED silence

OnHardError(t) ==
    /\ Goto(t, "raised")
    /\ trip' = IF trip = "none" THEN "status" ELSE trip
    /\ UNCHANGED silence

OnNewContent ==
    /\ sim' = "active"
    /\ refresh' = (refresh \/ sim # "active")

\* _is_creator_in_scope: no -u list means no filter.
InScopeCreator(c) == UseFollowing \/ InScope = {} \/ c \in InScope

\* MaxQueue is a bound of the model: asyncio.Queue() has none.
Room(n) ==
    Len(queue) + Cardinality(cands["timeline"]) + Cardinality(cands["story"])
      + (IF event = NoItem THEN 0 ELSE 1) + n <= MaxQueue

\* Faulty variant: the newest item goes first.
EnqueueFirst(kind, c) ==
    queue' = <<[kind |-> kind, creator |-> c]>> \o queue

Enqueue(kind, c) == queue' = Append(queue, [kind |-> kind, creator |-> c])

-----------------------------------------------------------------------------
(* _timeline_poll_loop.  poll_home_timeline turns every API failure, 401   *)
(* included, into an empty page; only a page of the wrong shape raises.    *)

TimelinePoll ==
    /\ At("timeline", "wait")
    /\ ~stop
    /\ sim # "hidden"
    /\ Goto("timeline", "fetch")
    /\ UNCHANGED <<sim, silence, token, stop, refresh, queue, cands, hit, item,
                   wsVars, mainVars, trip, owed>>

TimelineQuit ==
    /\ At("timeline", "wait")
    /\ stop
    /\ Goto("timeline", "done")
    /\ UNCHANGED <<sim, budgetVars, token, stop, refresh, queue, pollVars, item,
                   wsVars, mainVars, owed>>

TimelinePage(C) ==
    /\ At("timeline", "fetch")
    /\ token = "revoked" => C = {}
    /\ Room(Cardinality(C))
    /\ OnSuccess
    /\ Goto("timeline", IF C = {} THEN "wait" ELSE "sift")
    /\ cands' = [cands EXCEPT !["timeline"] = C]
    /\ hit' = FALSE
    /\ UNCHANGED <<sim, token, stop, refresh, queue, item, wsVars, mainVars,
                   owed>>

TimelineBadPage ==
    /\ At("timeline", "fetch")
    /\ token = "valid"
    /\ OnSoftError("timeline", "wait")
    /\ UNCHANGED <<sim, token, stop, refresh, queue, pollVars, item, wsVars,
                   mainVars, owed>>

\* _process_timeline_candidate for one creator; after the last one, in the
\* same stretch of code, the simulator is told whether anything was queued.
TimelineSift(c) ==
    /\ At("timeline", "sift")
    /\ c \in cands["timeline"]
    /\ \E should \in BOOLEAN :
         LET any  == hit \/ should
             last == cands["timeline"] = {c}
         IN /\ should => InScopeCreator(c)
            /\ IF should THEN Enqueue("timeline", c) /\ OnSuccess
                         ELSE UNCHANGED <<queue, budgetVars>>
            /\ IF last /\ any THEN OnNewContent ELSE UNCHANGED <<sim, refresh>>
            /\ Goto("timeline", IF last THEN "wait" ELSE "sift")
            /\ hit' = (any /\ ~last)
    /\ cands' = [cands EXCEPT !["timeline"] = @ \ {c}]
    /\ UNCHANGED <<token, stop, item, wsVars, mainVars, owed>>

-----------------------------------------------------------------------------
(* _story_poll_loop.  The simulator hears of the flips before the scope    *)
(* check of each creator.                                                  *)

StoryPoll ==
    /\ At("story", "wait")
    /\ ~stop
    /\ sim # "hidden"
    /\ Goto("story", "fetch")
    /\ UNCHANGED <<sim, budgetVars, token, stop, refresh, queue, pollVars, item,
                   wsVars, mainVars, owed>>

StoryQuit ==
    /\ At("story", "wait")
    /\ stop
    /\ Goto("story", "done")
    /\ UNCHANGED <<sim, budgetVars, token, stop, refresh, queue, pollVars, item,
                   wsVars, mainVars, owed>>

StoryFlips(C) ==
    /\ At("story", "fetch")
    /\ token = "revoked" => C = {}
    /\ Room(Cardinality(C))
    /\ OnSuccess
    /\ IF C = {} THEN UNCHANGED <<sim, refresh>> ELSE OnNewContent
    /\ Goto("story", IF C = {} THEN "wait" ELSE "put")
    /\ cands' = [cands EXCEPT !["story"] = C]
    /\ UNCHANGED <<token, stop, queue, hit, item, wsVars, mainVars, owed>>

StoryBadPage ==
    /\ At("story", "fetch")
    /\ token = "valid"
    /\ OnSoftError("story", "wait")
    /\ UNCHANGED <<sim, token, stop, refresh, queue, pollVars, item, wsVars,
                   mainVars, owed>>

StoryPut(c) ==
    /\ At("story", "put")
    /\ c \in cands["story"]
    /\ IF InScopeCreator(c) THEN Enqueue("stories", c) ELSE UNCHANGED queue
    /\ cands' = [cands EXCEPT !["story"] = @ \ {c}]
    /\ Goto("story", IF cands["story"] = {c} THEN "wait" ELSE "put")
    /\ UNCHANGED <<sim, budgetVars, token, stop, refresh, hit, item, wsVars,
                   mainVars, owed>>

\* The store fails while a poll loop resolves a creator for the scope check:
\* no try surrounds that call, so the task dies with the store's exception.
ScopeLookupFails(t) ==
    /\ At(t, IF t = "timeline" THEN "sift" ELSE "put")
    /\ ~UseFollowing
    /\ InScope # {}
    /\ Goto(t, "crashed")
    /\ cands' = [cands EXCEPT ![t] = {}]
    /\ hit' = IF t = "timeline" THEN FALSE ELSE hit
    /\ UNCHANGED <<sim, budgetVars, token, stop, refresh, queue, item, wsVars,
                   mainVars, owed>>

-----------------------------------------------------------------------------
(* _following_refresh_loop.                                                *)

\* Faulty variant: the hidden phase is looked at before stop_event.
FollowingWakeHiddenFirst ==
    /\ At("following", "wait")
    /\ refresh' = FALSE
    /\ Goto("following", CASE sim = "hidden" -> "wait"
                           [] sim # "hidden" /\ stop -> "done"
                           [] OTHER -> "fetch")
    /\ UNCHANGED <<sim, budgetVars, token, stop, queue, pollVars, item, wsVars,
                   mainVars, owed>>

\* The countdown ends, or refresh_event or stop_event ends it.
FollowingWake ==
    /\ At("following", "wait")
    /\ refresh' = FALSE
    /\ Goto("following", CASE stop -> "done"
                           [] ~stop /\ sim = "hidden" -> "wait"
                           [] OTHER -> "fetch")
    /\ UNCHANGED <<sim, budgetVars, token, stop, queue, pollVars, item, wsVars,
                   mainVars, owed>>

FollowingFetched ==
    /\ At("following", "fetch")
    /\ token = "valid"
    /\ OnSuccess
    /\ Goto("following", "wait")
    /\ UNCHANGED <<sim, token, stop, refresh, queue, pollVars, item, wsVars,
                   mainVars, owed>>

\* Every HTTP error reaches this loop as an ApiError: never a hard one.
FollowingFails ==
    /\ At("following", "fetch")
    /\ OnSoftError("following", "wait")
    /\ UNCHANGED <<sim, token, stop, refresh, queue, pollVars, item, wsVars,
                   mainVars, owed>>

-----------------------------------------------------------------------------
(* _simulator_tick_loop.                                                   *)

TickQuit ==
    /\ At("tick", "wait")
    /\ stop
    /\ Goto("tick", "done")
    /\ UNCHANGED <<sim, budgetVars, token, stop, refresh, queue, pollVars, item,
                   wsVars, mainVars, owed>>

TickTo(from, to) ==
    /\ At("tick", "wait")
    /\ ~stop
    /\ sim = from
    /\ sim' = to
    /\ UNCHANGED <<budgetVars, token, stop, refresh, queue, pc, pollVars, item,
                   wsVars, mainVars, owed>>

\* Faulty variant: a WebSocket that is down cannot be restarted.
TickUnhideIfUp ==
    /\ At("tick", "wait")
    /\ ~stop
    /\ sim = "hidden"
    /\ ws = "up"
    /\ sim' = "active"
    /\ OnSuccess
    /\ refresh' = TRUE
    /\ ws' = "down"
    /\ event' = NoItem
    /\ Goto("tick", "rewire")
    /\ UNCHANGED <<token, stop, queue, pollVars, item, mainVars, feed, owed>>

\* The "unhide" transition: the budget is reset, a refresh requested and the
\* WebSocket stopped (an event its handler holds is dropped) to be restarted.
TickUnhide ==
    /\ At("tick", "wait")
    /\ ~stop
    /\ sim = "hidden"
    /\ sim' = "active"
    /\ OnSuccess
    /\ refresh' = TRUE
    /\ ws' = "down"
    /\ event' = NoItem
    /\ Goto("tick", "rewire")
    /\ UNCHANGED <<token, stop, queue, pollVars, item, mainVars, feed, owed>>

\* start_in_thread, or the exception that leaves the WebSocket down.
TickRewire ==
    /\ At("tick", "rewire")
    /\ ws' \in {"up", "down"}
    /\ Goto("tick", "wait")
    /\ UNCHANGED <<sim, budgetVars, token, stop, refresh, queue, pollVars, item,
                   event, mainVars, feed, owed>>

-----------------------------------------------------------------------------
(* The MSG_SERVICE_EVENT handler, called by the WebSocket's drain task on  *)
(* the same event loop, one event at a time.                               *)

\* INTERRUPT_EVENTS.  "Text" is any of them that carries no work: a message
\* without attachments, a subscription that is not confirmed.
Interrupts == {"Dm", "Text", "SubConfirmed", "Purchase"}

\* dispatch_ws_event: the kind of WorkItem an event becomes.
WorkOf(e) == CASE e = "Dm" -> "messages"
               [] e = "Deleted" -> "deleted"
               [] e = "SubConfirmed" -> "full"
               [] e \in {"Purchase", "StoryPurchase"} -> "redownload"
               [] e = "Follow" -> "access"

\* A deletion names messages only, and a message may lack its senderId.
Targets(e) == CASE e = "Deleted" -> {NoCreator}
                [] e = "Dm" -> Creators \cup {NoCreator}
                [] OTHER -> Creators

WakeIf(e) == sim' = IF sim = "hidden" /\ e \in Interrupts THEN "active" ELSE sim

Delivers == /\ Running
            /\ ws = "up"
            /\ event = NoItem
            /\ feed > 0
            /\ feed' = feed - 1

WsNoWork ==
    /\ Delivers
    /\ "Text" \in Feed
    /\ WakeIf("Text")
    /\ UNCHANGED <<budgetVars, token, stop, refresh, queue, pc, pollVars, item,
                   event, ws, mainVars, owed>>

WsWork(e) ==
    /\ Delivers
    /\ e \in Feed \ {"Text", "SubConfirmed"}
    /\ Room(1)
    /\ WakeIf(e)
    /\ \E c \in Targets(e) : Enqueue(WorkOf(e), c)
    /\ OnSuccess
    /\ UNCHANGED <<token, stop, refresh, pc, pollVars, item, event, ws,
                   mainVars, owed>>

\* A confirmed subscription is first merged into the store
\* (apply_subscription_ws_event), and only then queued.
WsSubscription(c) ==
    /\ Delivers
    /\ "SubConfirmed" \in Feed
    /\ Room(1)
    /\ WakeIf("SubConfirmed")
    /\ event' = [kind |-> WorkOf("SubConfirmed"), creator |-> c]
    /\ UNCHANGED <<budgetVars, token, stop, refresh, queue, pc, pollVars, item,
                   ws, mainVars, owed>>

WsSubscriptionSaved ==
    /\ Running
    /\ event # NoItem
    /\ queue' = Append(queue, event)
    /\ event' = NoItem
    /\ OnSuccess
    /\ UNCHANGED <<sim, token, stop, refresh, pc, pollVars, item, ws, feed,
                   mainVars, owed>>

\* The child process gives up: it is not respawned before the next unhide.
WsDies ==
    /\ Running
    /\ ws = "up"
    /\ ws' = "down"
    /\ UNCHANGED <<sim, budgetVars, token, stop, refresh, queue, pc, pollVars,
                   item, event, feed, mainVars, owed>>

-----------------------------------------------------------------------------
(* _worker_loop and the handlers of _WORK_DISPATCH.  "account" is the      *)
(* first request of a handler (get_creator_account_info, or get_group for  *)
(* a message item), "download" all that follows.                           *)

\* Faulty variant: after stop_event nothing is taken from the queue.
WorkerTakeUntilStop ==
    /\ At("worker", "idle")
    /\ ~stop
    /\ queue # <<>>
    /\ item' = Head(queue)
    /\ queue' = Tail(queue)
    /\ Goto("worker", "account")
    /\ UNCHANGED <<sim, budgetVars, token, stop, refresh, pollVars, wsVars,
                   mainVars, owed>>

WorkerTake ==
    /\ At("worker", "idle")
    /\ queue # <<>>
    /\ item' = Head(queue)
    /\ queue' = Tail(queue)
    /\ Goto("worker", "account")
    /\ UNCHANGED <<sim, budgetVars, token, stop, refresh, pollVars, wsVars,
                   mainVars, owed>>

WorkerQuit ==
    /\ At("worker", "idle")
    /\ stop
    /\ queue = <<>>
    /\ Goto("worker", "done")
    /\ UNCHANGED <<sim, budgetVars, token, stop, refresh, queue, pollVars, item,
                   wsVars, mainVars, owed>>

FiltersOut(i) == i.creator # NoCreator /\ ~InScopeCreator(i.creator)

\* Faulty variant: an item that came after Ctrl+C is counted as owed.
ItemDoneMiscounted == /\ item' = NoItem
                      /\ owed' = owed - 1

\* The item leaves the worker, whatever became of it.
ItemDone == /\ item' = NoItem
            /\ owed' = IF owed > 0 THEN owed - 1 ELSE 0

\* The handler returned: success for the budget, whatever it swallowed.  A
\* FullCreatorDownload is followed by _refresh_following, which never raises.
WorkerReturns ==
    /\ OnSuccess
    /\ IF item.kind = "full" /\ UseFollowing
         THEN Goto("worker", "refresh") /\ UNCHANGED <<item, owed>>
         ELSE Goto("worker", "idle") /\ ItemDone

\* No request is made: out of scope, a creator the store does not know, or an
\* item that only touches the store.
WorkerSkips ==
    /\ At("worker", "account")
    /\ FiltersOut(item) \/ item.kind # "messages"
    /\ WorkerReturns
    /\ UNCHANGED <<sim, token, stop, refresh, queue, pollVars, wsVars, mainVars>>

\* get_group answered anything but 200: the handler prints and returns.
WorkerNoGroups ==
    /\ At("worker", "account")
    /\ item.kind = "messages"
    /\ ~FiltersOut(item)
    /\ WorkerReturns
    /\ UNCHANGED <<sim, token, stop, refresh, queue, pollVars, wsVars, mainVars>>

WorkerAnswered ==
    /\ At("worker", "account")
    /\ ~FiltersOut(item)
    /\ token = "valid"
    /\ item.kind # "deleted"
    /\ Goto("worker", "download")
    /\ UNCHANGED <<sim, budgetVars, token, stop, refresh, queue, pollVars, item,
                   wsVars, mainVars, owed>>

WorkerDownloaded ==
    /\ At("worker", "download")
    /\ WorkerReturns
    /\ UNCHANGED <<sim, token, stop, refresh, queue, pollVars, wsVars, mainVars>>

\* fetch_and_process_media is called with no try around it from the message
\* and the targeted PPV paths only; timeline, wall and stories swallow.
LetsErrorsOut == {"messages", "full", "redownload"}

WorkerSoftError ==
    /\ \/ At("worker", "account")
       \/ At("worker", "download") /\ item.kind \in LetsErrorsOut
    /\ OnSoftError("worker", "idle")
    /\ ItemDone
    /\ UNCHANGED <<sim, token, stop, refresh, queue, pollVars, wsVars, mainVars>>

\* The token was revoked after the handler's first request.
WorkerHardError ==
    /\ At("worker", "download")
    /\ token = "revoked"
    /\ item.kind \in LetsErrorsOut
    /\ OnHardError("worker")
    /\ ItemDone
    /\ UNCHANGED <<sim, token, stop, refresh, queue, pollVars, wsVars, mainVars>>

WorkerRefreshed ==
    /\ At("worker", "refresh")
    /\ Goto("worker", "idle")
    /\ ItemDone
    /\ UNCHANGED <<sim, budgetVars, token, stop, refresh, queue, pollVars,
                   wsVars, mainVars>>

-----------------------------------------------------------------------------
(* run_daemon's body and the signals.                                      *)

\* The head of the finally block: set both events, cancel the four pollers
\* and wait for them.  A tick cancelled while it restarts the WebSocket may
\* still restart it: stop_thread suppresses that cancellation.
StopPollers ==
    /\ stop' = TRUE
    /\ refresh' = TRUE
    /\ cands' = [cands EXCEPT !["timeline"] = {}, !["story"] = {}]
    /\ hit' = FALSE
    /\ ws' \in IF pc["tick"] = "rewire" THEN {"up", "down"} ELSE {ws}
    /\ main' = "draining"

\* Faulty variant: the tick task is missing from poller_tasks.
CancelPollersButTick ==
    pc' = [t \in Tasks |-> IF t \in Pollers \ {"tick"} /\ Live(t) THEN "cancelled"
                                                                 ELSE pc[t]]

CancelPollers ==
    pc' = [t \in Tasks |-> IF t \in Pollers /\ Live(t) THEN "cancelled" ELSE pc[t]]

MainLeave(code) ==
    /\ main = "gather"
    /\ exit' = code
    /\ StopPollers
    /\ CancelPollers
    /\ UNCHANGED <<sim, budgetVars, token, queue, item, event, feed, sigints,
                   owed>>

\* Faulty variants: gather over the pollers only; an unrecoverable error
\* caught like a cancellation.
MainGatheredPollers == (\A t \in Pollers : pc[t] = "done") /\ MainLeave(EXIT_SUCCESS)
MainTrippedQuietly == (\E t \in Tasks : pc[t] = "raised") /\ MainLeave(EXIT_SUCCESS)

MainGathered == (\A t \in Tasks : pc[t] = "done") /\ MainLeave(EXIT_SUCCESS)
MainTripped  == (\E t \in Tasks : pc[t] = "raised") /\ MainLeave(DAEMON_UNRECOVERABLE)
MainCrashed  == (\E t \in Tasks : pc[t] = "crashed") /\ MainLeave(OTHER_EXCEPTION)

\* Faulty variant: the WebSocket is stopped only when the drain timed out.
MainDrainedReturns ==
    /\ main = "draining"
    /\ pc["worker"] = "done"
    /\ main' = "returned"
    /\ UNCHANGED <<sim, budgetVars, token, stop, refresh, queue, pc, pollVars,
                   item, wsVars, exit, sigints, owed>>

\* wait_for(worker_task, 30) returns.
MainDrained ==
    /\ main = "draining"
    /\ pc["worker"] = "done"
    /\ main' = "stopping"
    /\ UNCHANGED <<sim, budgetVars, token, stop, refresh, queue, pc, pollVars,
                   item, wsVars, exit, sigints, owed>>

\* wait_for re-raises what ended the worker; only TimeoutError is caught, so
\* the rest of the finally block, and the return, do not run.
MainDrainRaises ==
    /\ main = "draining"
    /\ pc["worker"] \in {"raised", "cancelled"}
    /\ main' = "raised"
    /\ UNCHANGED <<sim, budgetVars, token, stop, refresh, queue, pc, pollVars,
                   item, wsVars, exit, sigints, owed>>

\* A worker that waits in queue.get swallows its cancellation and returns.
Cancelled(t) == IF t = "worker" /\ pc[t] = "idle" THEN "done" ELSE "cancelled"

\* 30 s are over: the worker is cancelled, with what it holds.
MainDrainTimeout ==
    /\ main = "draining"
    /\ Live("worker")
    /\ Goto("worker", Cancelled("worker"))
    /\ item' = NoItem
    /\ main' = "stopping"
    /\ UNCHANGED <<sim, budgetVars, token, stop, refresh, queue, pollVars,
                   wsVars, exit, sigints, owed>>

MainStopWs ==
    /\ main = "stopping"
    /\ ws' = "down"
    /\ event' = NoItem
    /\ main' = IF exit = OTHER_EXCEPTION THEN "raised" ELSE "returned"
    /\ UNCHANGED <<sim, budgetVars, token, stop, refresh, queue, pc, pollVars,
                   item, feed, exit, sigints, owed>>

\* Ctrl+C.  What is queued or in hand now is owed to the user.
FirstSigint ==
    /\ Running
    /\ sigints = 0
    /\ MaxSigints >= 1
    /\ sigints' = 1
    /\ stop' = TRUE
    /\ owed' = Len(queue) + (IF item = NoItem THEN 0 ELSE 1)
    /\ UNCHANGED <<sim, budgetVars, token, refresh, queue, pc, pollVars, item,
                   wsVars, main, exit>>

\* Again: KeyboardInterrupt leaves the loop, and asyncio.run cancels every
\* task, the drain task of the WebSocket and run_daemon included, which only
\* stop_thread may survive.
SecondSigint ==
    /\ Running
    /\ sigints = 1
    /\ MaxSigints = 2
    /\ sigints' = 2
    /\ pc' = [t \in Tasks |-> IF Live(t) THEN Cancelled(t) ELSE pc[t]]
    /\ item' = NoItem
    /\ event' = NoItem
    /\ IF main = "gather"
         THEN StopPollers /\ exit' = EXIT_SUCCESS
         ELSE /\ main' \in IF main = "stopping" THEN {"raised", main} ELSE {"raised"}
              /\ UNCHANGED <<stop, refresh, pollVars, ws, exit>>
    /\ UNCHANGED <<sim, budgetVars, token, queue, feed, owed>>

-----------------------------------------------------------------------------
(* The world.                                                              *)

TimePasses ==
    /\ Running
    /\ silence = "recent"
    /\ silence' = IF sim = "hidden" THEN "hidden" ELSE "awake"
    /\ UNCHANGED <<sim, token, stop, refresh, queue, pc, pollVars, item, wsVars,
                   mainVars, trip, owed>>

\* From here on the API answers 401 (or 418) to every request.
TokenRevoked ==
    /\ Running
    /\ Revocable
    /\ token = "valid"
    /\ token' = "revoked"
    /\ UNCHANGED <<sim, budgetVars, stop, refresh, queue, pc, pollVars, item,
                   wsVars, mainVars, owed>>

Halted == ~Running /\ UNCHANGED vars

Init ==
    /\ sim = "active"
    /\ silence = "recent"
    /\ token = "valid"
    /\ stop = FALSE
    /\ refresh = FALSE
    /\ queue = <<>>
    /\ pc = [t \in Tasks |-> CASE t = "worker" -> "idle"
                               [] t = "following" /\ ~UseFollowing -> "done"
                               [] OTHER -> "wait"]
    /\ cands = [t \in {"timeline", "story"} |-> {}]
    /\ hit = FALSE
    /\ item = NoItem
    /\ event = NoItem
    /\ ws \in {"up", "down"}
    /\ main = "gather"
    /\ exit = EXIT_SUCCESS
    /\ sigints = 0
    /\ feed = MaxEvents
    /\ trip = "none"
    /\ owed = 0

TimelineNext ==
    \/ TimelinePoll \/ TimelineQuit \/ TimelineBadPage
    \/ \E C \in SUBSET Creators : TimelinePage(C)
    \/ \E c \in Creators : TimelineSift(c)
    \/ ScopeLookupFails("timeline")

StoryNext ==
    \/ StoryPoll \/ StoryQuit \/ StoryBadPage
    \/ \E C \in SUBSET Creators : StoryFlips(C)
    \/ \E c \in Creators : StoryPut(c)
    \/ ScopeLookupFails("story")

FollowingNext == FollowingWake \/ FollowingFetched \/ FollowingFails

TickNext ==
    \/ TickQuit \/ TickUnhide \/ TickRewire
    \/ TickTo("active", "idle") \/ TickTo("idle", "hidden")

WsNext ==
    \/ WsNoWork \/ WsDies
    \/ \E e \in Feed : WsWork(e)
    \/ \E c \in Creators : WsSubscription(c)

WorkerNext ==
    \/ WorkerTake \/ WorkerQuit \/ WorkerSkips \/ WorkerNoGroups
    \/ WorkerAnswered \/ WorkerDownloaded \/ WorkerSoftError
    \/ WorkerHardError \/ WorkerRefreshed

MainNext ==
    \/ MainGathered \/ MainTripped \/ MainCrashed
    \/ MainDrained \/ MainDrainRaises \/ MainDrainTimeout \/ MainStopWs

Next ==
    \/ TickNext \/ TimelineNext \/ StoryNext \/ FollowingNext
    \/ WsNext \/ WsSubscriptionSaved \/ WorkerNext \/ MainNext
    \/ FirstSigint \/ SecondSigint
    \/ TimePasses \/ TokenRevoked
    \/ Halted

Spec == Init /\ [][Next]_vars

\* asyncio runs every ready task: a countdown expires, a request is answered
\* or times out, a handler returns.  Signals and events come or do not.
Fairness ==
    /\ WF_vars(TimelineNext) /\ WF_vars(StoryNext)
    /\ WF_vars(FollowingNext) /\ WF_vars(TickNext)
    /\ WF_vars(WsSubscriptionSaved)
    /\ WF_vars(WorkerNext) /\ WF_vars(MainNext)
    /\ WF_vars(TimePasses)

FairSpec == Spec /\ Fairness

\* The same when the answer to a request of the worker may never come, as when
\* _make_rate_limited_request meets 429 again and again: the worker then still
\* does what needs no answer, and every timer still fires.
SlowApiSpec ==
    /\ Spec
    /\ WF_vars(TimelineNext) /\ WF_vars(StoryNext)
    /\ WF_vars(FollowingNext) /\ WF_vars(TickNext)
    /\ WF_vars(WsSubscriptionSaved) /\ WF_vars(MainNext) /\ WF_vars(TimePasses)
    /\ WF_vars(WorkerTake) /\ WF_vars(WorkerQuit)

-----------------------------------------------------------------------------
(* Properties.                                                             *)

\* The type of every variable: which awaits a task can be at, which exit code
\* and which history values exist.
TypeOK ==
    /\ sim \in {"active", "idle", "hidden"}
    /\ silence \in {"recent", "hidden", "awake"}
    /\ token \in {"valid", "revoked"}
    /\ stop \in BOOLEAN
    /\ refresh \in BOOLEAN
    /\ queue \in Seq(Item)
    /\ pc \in [Tasks -> Places]
    /\ cands \in [{"timeline", "story"} -> SUBSET Creators]
    /\ hit \in BOOLEAN
    /\ item \in Item \cup {NoItem}
    /\ event \in Item \cup {NoItem}
    /\ ws \in {"up", "down"}
    /\ main \in {"gather", "draining", "stopping"} \cup Ended
    /\ exit \in {EXIT_SUCCESS, DAEMON_UNRECOVERABLE, OTHER_EXCEPTION}
    /\ sigints \in 0..2
    /\ feed \in Nat
    /\ trip \in {"none", "hidden", "awake", "status"}
    /\ owed \in Nat

\* When run_daemon is over, by return or by exception, none of its five tasks
\* is still running: no poll can enqueue and no item can start behind the
\* caller's back, whichever of the ways out was taken.
NoOrphans == ~Running => \A t \in Tasks : ~Live(t)

\* The exit code a caller gets tells why: when run_daemon returns and was not
\* interrupted a second time, it returns DAEMON_UNRECOVERABLE exactly if the
\* ErrorBudget tripped in one of the tasks.
ExitCodeTruthful ==
    main = "returned" /\ sigints < 2 =>
        (exit = DAEMON_UNRECOVERABLE <=> trip # "none")

\* One Ctrl+C loses no accepted work: when the daemon then returns success,
\* everything that was queued or in hand at that moment has been finished.
AcceptedWorkFinished ==
    main = "returned" /\ exit = EXIT_SUCCESS /\ sigints = 1 => owed = 0

\* Whenever run_daemon returns, the WebSocket is stopped, even if the shutdown
\* met the tick loop half way through a restart of the WebSocket.
StoppedOnReturn == main = "returned" => ws = "down" /\ event = NoItem

\* The worker, the loops and the shutdown together use the queue as WorkQueue
\* says: in order, one at a time, nothing taken after the worker has gone.
WQ == INSTANCE WorkQueue WITH pending <- queue, current <- item,
                              open <- Live("worker")
ImplementsWorkQueue == WQ!QSpec

\* Once the daemon is told to stop, or one of its tasks dies of an exhausted
\* budget or of any other exception, run_daemon ends: no loop waits for
\* another one, whatever state the shutdown finds them in.
Ends ==
    stop \/ (\E t \in Tasks : pc[t] \in {"raised", "crashed"}) ~> ~Running

\* Whatever becomes of one item, the worker goes on to the next: an item that
\* waits is taken up, or the daemon ends.
WorkServed == queue # <<>> ~> pc["worker"] = "account" \/ ~Running

\* The daemon does not stay hidden: no failure of the WebSocket restart, and
\* no lost event, ends the loop that must wake it.
Unhides == sim = "hidden" ~> sim # "hidden" \/ stop

\* What the docstring of run_daemon and the integration test of the
\* unrecoverable exit promise: when the budget has tripped, run_daemon returns
\* DAEMON_UNRECOVERABLE and the WebSocket is stopped.
UnrecoverableExit ==
    trip # "none" /\ ~Running /\ sigints < 2 =>
        main = "returned" /\ exit = DAEMON_UNRECOVERABLE /\ ws = "down"

\* What the docstring of run_daemon says of Ctrl+C: work in flight is drained
\* for up to 30 seconds, so the daemon ends though an answer never comes.
DrainCapped == sigints = 1 ~> ~Running

\* What the docstring of ErrorBudget promises of a 401: the daemon stops.
RevokedStops == token = "revoked" ~> ~Running

\* What _simulator_tick_loop says of hidden phases: they are intended
\* downtime, so once the daemon is awake again the silence of the phase that
\* has ended makes no error fatal.
HiddenGapForgiven == trip # "hidden"

=============================================================================
