------------------------------ MODULE Session ------------------------------
(***************************************************************************)
(* One creator through one session of the program: the first pass over     *)
(* the creator (main), the backfill of the events captured meanwhile       *)
(* (daemon/bootstrap.py), and the daemon's worker.  What is followed is    *)
(* the creator's subscription: how a change of access is detected from     *)
(* WebSocket events and REST answers (metadata/subscriptions.py), kept in  *)
(* the module-level registry _access_changed_accounts, and consumed by     *)
(* the account lookup that opens every pass (get_creator_account_info).    *)
(*                                                                         *)
(* Everything runs on one event loop: a step ends where the code awaits.   *)
(* The registry is keyed by creator and creators do not interact, so one   *)
(* creator is enough.                                                      *)
(***************************************************************************)
EXTENDS Integers, Sequences

CONSTANTS
    FullPass,     \* config.full_pass
    MayLapse,     \* may the subscription end, or only begin and grow
    MaxVersion,   \* bound: changes of the subscription
    MaxExtra      \* bound: follows, purchases, polls, list requests and failures

ASSUME SessionAssumption ==
    /\ {FullPass, MayLapse} \subseteq BOOLEAN
    /\ {MaxVersion, MaxExtra} \subseteq Nat

\* The tiers of access, and the kind of media each one opens.
Tiers == {"none", "base", "top"}
Opens(tier) == CASE tier = "none" -> {}
                 [] tier = "base" -> {"base"}
                 [] tier = "top" -> {"base", "top"}
Grows(t, u) == Opens(t) # Opens(u) /\ Opens(t) \subseteq Opens(u)

Sub == [version : -1..MaxVersion, tier : Tiers]
NoSub == [version |-> -1, tier |-> "none"]   \* no Subscription row yet

Reasons == {"none", "sub-activated", "tier-upgraded", "ppv-purchase"}
Kinds == {"full", "timeline", "stories", "access", "ppv", "ppvTargeted"}
Sight == {"unseen", "yes", "no"}             \* a remembered `following`

VARIABLES
    sub,       \* the subscription as the service has it
    follows,   \* does the user follow the creator, as the service has it
    wire,      \* subscription events on their way
    handling,  \* the event whose handler awaits store.save, or None
    cached,    \* the Subscription row of the entity store
    account,   \* Account.following of the entity store
    logged,    \* the latest FollowEvent
    locked,    \* kinds of media with a row that still says access=False
    reg,       \* _access_changed_accounts, at this creator
    queue,     \* the queue of the bootstrap, then of the daemon
    attached,  \* is the MSG_SERVICE_EVENT handler registered
    phase,     \* of the program
    pass,      \* the pass under way
    lists,     \* the following or subscriptions request under way
    extra,     \* what the bound MaxExtra leaves
    fresh,     \* history: the last pass that ended had asked after the last
               \* change of the subscription
    missed     \* history: a refresh batch failed since the last complete one

serviceVars == <<sub, follows>>
storeVars == <<cached, account, logged, locked>>
ghosts == <<fresh, missed>>
vars == <<serviceVars, wire, handling, storeVars, reg, queue, attached, phase,
          pass, lists, extra, ghosts>>

\* found: the reason a save in progress will register.
None == [sub |-> NoSub, work |-> FALSE, found |-> "none"]
NoPass == [at |-> "idle", kind |-> "none", shortcut |-> FALSE, sub |-> NoSub,
           follows |-> FALSE, prior |-> "unseen", found |-> "none",
           reason |-> "none"]
At(where) == pass.at = where

-----------------------------------------------------------------------------
(* metadata/subscriptions.py.                                              *)

\* _process_single_subscription: what a change from old to new tells.
Reason(old, new) ==
    IF new.tier = "none" \/ new.tier = old.tier THEN "none"
    ELSE IF old.tier = "none" THEN "sub-activated" ELSE "tier-upgraded"

\* A detected change overwrites what the registry held.
Register(r, found) == IF found = "none" THEN r ELSE found

\* apply_subscription_ws_event: an older version than the row's is skipped.
Stale(s) == s.version < cached.version

-----------------------------------------------------------------------------
(* The service.                                                            *)

Events(s) == [sub : {s}, work : BOOLEAN]

\* A change is announced twice, each possibly lost or overtaken: by (15,5),
\* which carries work when it is active, and by (15,102) or a notification.
SubscriptionChanges(tier) ==
    /\ sub.version < MaxVersion
    /\ tier # sub.tier
    /\ Grows(sub.tier, tier) \/ MayLapse
    /\ sub' = [version |-> sub.version + 1, tier |-> tier]
    /\ \E W \in SUBSET Events(sub') : wire' = wire \cup W
    /\ fresh' = FALSE
    /\ UNCHANGED <<follows, handling, storeVars, reg, queue, attached, phase,
                   pass, lists, extra, missed>>

Spend == extra > 0 /\ extra' = extra - 1

\* (3,2) queues CheckCreatorAccess; an unfollow is only observed.
FollowChanges ==
    /\ Spend
    /\ follows' = ~follows
    /\ queue' = IF attached /\ follows' THEN Append(queue, "access") ELSE queue
    /\ UNCHANGED <<sub, wire, handling, storeVars, reg, attached, phase, pass,
                   lists, ghosts>>

\* (2,7), (2,8), (32,7): the order may or may not name the media bought.
Purchase(kind) ==
    /\ Spend
    /\ attached
    /\ queue' = Append(queue, kind)
    /\ UNCHANGED <<serviceVars, wire, handling, storeVars, reg, attached, phase,
                   pass, lists, ghosts>>

-----------------------------------------------------------------------------
(* The MSG_SERVICE_EVENT handler: one event at a time, in the drain task.  *)

EventArrives ==
    /\ attached
    /\ handling = None
    /\ \E e \in wire :
         /\ wire' = wire \ {e}
         /\ handling' = [sub |-> e.sub, work |-> e.work,
                         found |-> IF Stale(e.sub) THEN "none" ELSE Reason(cached, e.sub)]
         /\ cached' = IF Stale(e.sub) THEN cached ELSE e.sub
    /\ UNCHANGED <<serviceVars, account, logged, locked, reg, queue, attached,
                   phase, pass, lists, extra, ghosts>>

\* The row is saved: a change is registered, and dispatch_ws_event turns a
\* confirmed (15,5) into work.
EventHandled ==
    /\ handling # None
    /\ reg' = Register(reg, handling.found)
    /\ queue' = IF handling.work /\ handling.sub.tier # "none"
                THEN Append(queue, "full") ELSE queue
    /\ handling' = None
    /\ UNCHANGED <<serviceVars, wire, storeVars, attached, phase, pass, lists,
                   extra, ghosts>>

-----------------------------------------------------------------------------
(* get_creator_account_info and the passes that begin with it.             *)

\* _handle_redownload_item: media known and no other reason pending means a
\* shortcut to the media; else the purchase is registered, unless a reason is.
Shortcut(kind) == kind = "ppvTargeted" /\ reg \in {"none", "ppv-purchase"}
RegistersPurchase(kind) == kind \in {"ppv", "ppvTargeted"} /\ ~Shortcut(kind)

\* Faulty variant: a purchase replaces the reason that was pending.
BeginClobbers(kind) ==
    /\ pass' = [NoPass EXCEPT !.at = "ask", !.kind = kind, !.shortcut = Shortcut(kind)]
    /\ reg' = IF RegistersPurchase(kind) THEN "ppv-purchase" ELSE reg

Begin(kind) ==
    /\ pass' = [NoPass EXCEPT !.at = "ask", !.kind = kind, !.shortcut = Shortcut(kind)]
    /\ reg' = IF RegistersPurchase(kind) /\ reg = "none" THEN "ppv-purchase" ELSE reg

\* The service answers with what it holds now; the answer is read later.
Answered ==
    /\ At("ask")
    /\ pass' = [pass EXCEPT !.at = "merge", !.sub = sub, !.follows = follows]
    /\ UNCHANGED <<serviceVars, wire, handling, storeVars, reg, queue, attached,
                   phase, lists, extra, ghosts>>

\* process_account_data: `following` and the embedded subscription enter the
\* identity map, whatever their version (apply_subscription_snapshot).
Merged ==
    /\ At("merge")
    /\ pass' = [pass EXCEPT !.at = "consume", !.prior = account,
                            !.found = Reason(cached, pass.sub)]
    /\ cached' = pass.sub
    /\ account' = IF pass.follows THEN "yes" ELSE "no"
    /\ UNCHANGED <<serviceVars, wire, handling, logged, locked, reg, queue,
                   attached, phase, lists, extra, ghosts>>

\* record_follow_observation: an event only when the observation is news, and
\* never for a creator not followed before.
FollowIsNews == account # logged /\ (logged # "unseen" \/ account = "yes")

FollowTransition == FollowIsNews /\ account = "yes" /\ pass.prior # "yes"

\* Faulty variant: the registry is read before the account answer is merged,
\* whose own finding then waits for another pass.
ConsumedEarly ==
    /\ At("consume")
    /\ pass' = [pass EXCEPT !.reason = reg, !.at = IF reg # "none" THEN "refresh" ELSE "walk"]
    /\ reg' = "none"
    /\ UNCHANGED <<serviceVars, wire, handling, cached, account, logged, locked,
                   queue, attached, phase, lists, extra, ghosts>>

\* The reason: --full-pass, else the registry's, else a new follow.
Consumed ==
    /\ At("consume")
    /\ LET pending == Register(reg, pass.found)
           reason == CASE FullPass -> "full-pass"
                       [] ~FullPass /\ pending # "none" -> pending
                       [] ~FullPass /\ pending = "none" /\ FollowTransition
                            -> "follow-transition"
                       [] OTHER -> "none"
       IN /\ reg' = IF FullPass THEN pending ELSE "none"
          /\ pass' = [pass EXCEPT !.reason = reason,
                                  !.at = IF reason = "none" THEN "walk" ELSE "refresh"]
    /\ logged' = IF FollowIsNews THEN account ELSE logged
    /\ UNCHANGED <<serviceVars, wire, handling, cached, account, locked, queue,
                   attached, phase, lists, extra, ghosts>>

\* refresh_locked_account_media asks again for every row that is locked; a
\* batch that fails is logged and left.
Refreshed ==
    /\ At("refresh")
    /\ locked' = locked \ Opens(sub.tier)
    /\ missed' = FALSE
    /\ pass' = [pass EXCEPT !.at = "walk"]
    /\ UNCHANGED <<serviceVars, wire, handling, cached, account, logged, reg,
                   queue, attached, phase, lists, extra, fresh>>

RefreshFails ==
    /\ At("refresh")
    /\ locked # {}
    /\ Spend
    /\ missed' = TRUE
    /\ pass' = [pass EXCEPT !.at = "walk"]
    /\ UNCHANGED <<serviceVars, wire, handling, storeVars, reg, queue, attached,
                   phase, lists, fresh>>

Walks == pass.kind \notin {"stories", "access"} /\ ~pass.shortcut

\* The walks of the pass; posts published meanwhile may add locked rows.
PassEnds ==
    /\ At("walk")
    /\ \E new \in SUBSET (Opens("top") \ Opens(sub.tier)) :
         locked' = IF Walks THEN locked \cup new ELSE locked
    /\ fresh' = (pass.sub.version = sub.version)
    /\ pass' = NoPass
    /\ phase' = IF pass.kind = "sync" THEN "backfill" ELSE phase
    /\ UNCHANGED <<serviceVars, wire, handling, cached, account, logged, reg,
                   queue, attached, lists, extra, missed>>

\* Faulty variant: a failed first pass never reaches the backfill.
PassFailsStuck ==
    /\ At("ask") \/ At("walk")
    /\ Spend
    /\ pass' = NoPass
    /\ UNCHANGED <<serviceVars, wire, handling, storeVars, reg, queue, attached,
                   phase, lists, ghosts>>

\* A request or a walk raises, or the merged account has no timelineStats.  An
\* item is dropped, with what its pass had consumed.  The first pass survives
\* ApiAccountInfoError alone.
PassFails ==
    /\ At("ask") \/ At("consume") \/ At("walk")
    /\ Spend
    /\ pass' = NoPass
    /\ reg' = IF At("consume") THEN Register(reg, pass.found) ELSE reg
    /\ phase' = IF pass.kind # "sync" THEN phase
                ELSE IF At("walk") THEN "ended" ELSE "backfill"
    /\ UNCHANGED <<serviceVars, wire, handling, storeVars, queue, attached,
                   lists, ghosts>>

-----------------------------------------------------------------------------
(* The other readers of subscriptions over REST: get_following_accounts    *)
(* and process_subscriptions_response, before the first pass and, in the   *)
(* daemon, beside the worker.                                              *)

ListsAsked ==
    /\ phase = "start" \/ phase = "daemon"
    /\ lists.sub = NoSub
    /\ Spend
    /\ lists' = [lists EXCEPT !.sub = sub]
    /\ UNCHANGED <<serviceVars, wire, handling, storeVars, reg, queue, attached,
                   phase, pass, ghosts>>

ListsMerged ==
    /\ lists.sub # NoSub
    /\ ~lists.work
    /\ cached' = lists.sub
    /\ lists' = [lists EXCEPT !.found = Reason(cached, lists.sub), !.work = TRUE]
    /\ UNCHANGED <<serviceVars, wire, handling, account, logged, locked, reg,
                   queue, attached, phase, pass, extra, ghosts>>

ListsRegistered ==
    /\ lists.work
    /\ reg' = Register(reg, lists.found)
    /\ lists' = None
    /\ UNCHANGED <<serviceVars, wire, handling, storeVars, queue, attached,
                   phase, pass, extra, ghosts>>

-----------------------------------------------------------------------------
(* main: the first pass, drain_backfill, then run_daemon or                *)
(* shutdown_bootstrap.                                                     *)

SyncBegins ==
    /\ phase = "start"
    /\ lists = None
    /\ Begin("sync")
    /\ phase' = "sync"
    /\ UNCHANGED <<serviceVars, wire, handling, storeVars, queue, attached,
                   lists, extra, ghosts>>

\* drain_backfill and _worker_loop: one item at a time, in order.
ItemTaken ==
    /\ phase \in {"backfill", "daemon"}
    /\ At("idle")
    /\ queue # <<>>
    /\ Begin(Head(queue))
    /\ queue' = Tail(queue)
    /\ UNCHANGED <<serviceVars, wire, handling, storeVars, attached, phase,
                   lists, extra, ghosts>>

\* Faulty variant: the drain stops after the items it counted at its start
\* (here: at any point after the first pass).
DrainedByCount ==
    /\ phase = "backfill"
    /\ At("idle")
    /\ \E daemonMode \in BOOLEAN :
         /\ phase' = IF daemonMode THEN "daemon" ELSE "ended"
         /\ attached' = daemonMode
    /\ UNCHANGED <<serviceVars, wire, handling, storeVars, reg, queue, pass,
                   lists, extra, ghosts>>

\* The queue is found empty: from here to the daemon's handler, or to the
\* detached one, nothing awaits.
Drained ==
    /\ phase = "backfill"
    /\ At("idle")
    /\ queue = <<>>
    /\ \E daemonMode \in BOOLEAN :
         /\ phase' = IF daemonMode THEN "daemon" ELSE "ended"
         /\ attached' = daemonMode
    /\ UNCHANGED <<serviceVars, wire, handling, storeVars, reg, queue, pass,
                   lists, extra, ghosts>>

\* The daemon's polls queue work of their own.
Poll(kind) ==
    /\ phase = "daemon"
    /\ Spend
    /\ queue' = Append(queue, kind)
    /\ UNCHANGED <<serviceVars, wire, handling, storeVars, reg, attached, phase,
                   pass, lists, ghosts>>

Init ==
    /\ sub = [version |-> 0, tier |-> "none"]
    /\ follows = FALSE
    /\ wire = {}
    /\ handling = None
    /\ cached = NoSub
    /\ account = "unseen"
    /\ logged = "unseen"
    /\ locked = Opens("top")
    /\ reg = "none"
    /\ queue = <<>>
    /\ attached \in BOOLEAN       \* the WebSocket may not be up at start
    /\ phase = "start"
    /\ pass = NoPass
    /\ lists = None
    /\ extra = MaxExtra
    /\ fresh = FALSE
    /\ missed = FALSE

ServiceNext ==
    \/ \E tier \in Tiers : SubscriptionChanges(tier)
    \/ FollowChanges
    \/ \E kind \in {"ppv", "ppvTargeted"} : Purchase(kind)

HandlerNext == EventArrives \/ EventHandled

PassNext == Answered \/ Merged \/ Consumed \/ Refreshed \/ RefreshFails
            \/ PassEnds \/ PassFails

ListsNext == ListsAsked \/ ListsMerged \/ ListsRegistered

MainNext == SyncBegins \/ ItemTaken \/ Drained
            \/ \E kind \in {"timeline", "stories"} : Poll(kind)

Next == (phase # "ended" /\ ServiceNext) \/ HandlerNext \/ PassNext \/ ListsNext \/ MainNext

Spec == Init /\ [][Next]_vars

-----------------------------------------------------------------------------
(* Properties.                                                             *)

\* Every variable has its type; the first pass is the one phase "sync" waits
\* for, so that no failure leaves main without a pass to wait for.
TypeOK ==
    /\ sub \in Sub
    /\ follows \in BOOLEAN
    /\ wire \subseteq [sub : Sub, work : BOOLEAN]
    /\ {handling, lists} \subseteq [sub : Sub, work : BOOLEAN, found : Reasons]
    /\ cached \in Sub
    /\ {account, logged} \subseteq Sight
    /\ locked \subseteq Opens("top")
    /\ reg \in Reasons
    /\ queue \in Seq(Kinds)
    /\ attached \in BOOLEAN
    /\ phase \in {"start", "sync", "backfill", "daemon", "ended"}
    /\ pass \in [at : {"idle", "ask", "merge", "consume", "refresh", "walk"},
                 kind : Kinds \cup {"sync", "none"}, shortcut : BOOLEAN, sub : Sub,
                 follows : BOOLEAN, prior : Sight, found : Reasons,
                 reason : Reasons \cup {"full-pass", "follow-transition"}]
    /\ extra \in 0..MaxExtra
    /\ {fresh, missed} \subseteq BOOLEAN
    /\ phase = "sync" <=> pass.kind = "sync"
    /\ pass.kind = "none" <=> At("idle")

\* Media the user may see does not stay locked: when a pass that asked after
\* the last change of the subscription is over, the rows that change opened
\* have been asked for again, or the reason to do so is registered or about to
\* be (get_creator_account_info merging, then consuming, then refreshing).
UnlockedAfterPass ==
    fresh /\ ~missed /\ locked \cap Opens(sub.tier) # {} /\ At("idle") =>
        \/ reg # "none"
        \/ handling.found # "none"
        \/ lists.found # "none"

\* A purchase never replaces the reason of a subscription: the full re-walk it
\* asks for would become a shortcut (_handle_redownload_item's setdefault).
ReasonNotDowngraded ==
    [][(reg \in {"sub-activated", "tier-upgraded"}) => reg' # "ppv-purchase"]_vars

\* Without a daemon, what the bootstrap captured has been worked off when the
\* program goes on to its end; left is at most the event whose handler was
\* suspended when the handler was detached (drain_backfill, shutdown_bootstrap).
NothingOrphaned ==
    phase = "ended" /\ ~attached =>
        Len(queue) + (IF handling # None /\ handling.work THEN 1 ELSE 0) <= 1

\* What _handle_redownload_item says of its shortcut: it is taken only for a
\* pure purchase, when no other reason is pending that it would consume.
TargetedOnlyIfPure ==
    pass.shortcut => pass.reason \notin {"sub-activated", "tier-upgraded"}
=============================================================================
