--------------------------- MODULE Session_proofs ---------------------------
(***************************************************************************)
(* Proofs about Session, for every number of changes of the subscription,  *)
(* of purchases, polls and failures.                                       *)
(***************************************************************************)
EXTENDS Session, SequenceTheorems, TLAPS

-----------------------------------------------------------------------------
(* Types.                                                                  *)

\* What the tiers open.
LEMMA OpensType ==
    /\ Opens("none") = {} /\ Opens("base") = {"base"} /\ Opens("top") = {"base", "top"}
    /\ \A t \in Tiers : Opens(t) \subseteq Opens("top")
    /\ \A t \in Tiers : Opens(t) # {} <=> t # "none"
BY DEF Opens, Tiers

\* What a change tells is a reason, or none.
LEMMA ReasonType ==
    ASSUME NEW old, NEW new
    PROVE  Reason(old, new) \in Reasons
BY DEF Reason, Reasons

\* What is registered stays a reason.
LEMMA RegisterType ==
    ASSUME NEW r \in Reasons, NEW found \in Reasons
    PROVE  Register(r, found) \in Reasons
BY DEF Register, Reasons

\* A pass begins with its request, whatever it was queued for.
LEMMA BeginType ==
    ASSUME NEW kind \in Kinds \cup {"sync"}, reg \in Reasons, Begin(kind)
    PROVE  /\ pass' \in [at : {"idle", "ask", "merge", "consume", "refresh", "walk"},
                         kind : Kinds \cup {"sync", "none"}, shortcut : BOOLEAN, sub : Sub,
                         follows : BOOLEAN, prior : Sight, found : Reasons,
                         reason : Reasons \cup {"full-pass", "follow-transition"}]
           /\ pass'.kind = kind /\ pass'.at = "ask" /\ pass'.sub = NoSub
           /\ reg' \in Reasons
           /\ reg' = reg \/ (reg = "none" /\ reg' # "none")
<1>1. NoSub \in Sub /\ MaxVersion \in Nat
  BY SessionAssumption DEF NoSub, Sub, Tiers
<1>2. Shortcut(kind) \in BOOLEAN
  BY DEF Shortcut
<1>3. pass' \in [at : {"idle", "ask", "merge", "consume", "refresh", "walk"},
                 kind : Kinds \cup {"sync", "none"}, shortcut : BOOLEAN, sub : Sub,
                 follows : BOOLEAN, prior : Sight, found : Reasons,
                 reason : Reasons \cup {"full-pass", "follow-transition"}]
  BY <1>1, <1>2 DEF Begin, NoPass, Sight, Reasons
<1>4. pass'.kind = kind /\ pass'.at = "ask" /\ pass'.sub = NoSub
  BY DEF Begin, NoPass
<1>5. reg' \in Reasons /\ (reg' = reg \/ (reg = "none" /\ reg' # "none"))
  BY DEF Begin, Reasons
<1> QED
  BY <1>3, <1>4, <1>5

\* The service and the lists: what they know of a subscription is one.
LEMMA ServiceTypes ==
    ASSUME TypeOK, ServiceNext \/ ListsNext \/ HandlerNext \/ UNCHANGED vars
    PROVE  TypeOK'
<1> USE SessionAssumption
<1>1. ASSUME NEW tier \in Tiers, SubscriptionChanges(tier) PROVE TypeOK'
  <2>1. sub' \in Sub
    BY <1>1 DEF SubscriptionChanges, TypeOK, Sub
  <2>2. wire' \subseteq [sub : Sub, work : BOOLEAN]
    BY <1>1, <2>1 DEF SubscriptionChanges, TypeOK, Events
  <2> QED
    BY <1>1, <2>1, <2>2 DEF SubscriptionChanges, TypeOK, storeVars, At
<1>2. ASSUME FollowChanges PROVE TypeOK'
  <2>1. "access" \in Kinds
    BY DEF Kinds
  <2>2. queue' \in Seq(Kinds)
    BY <1>2, <2>1, AppendProperties DEF FollowChanges, TypeOK
  <2>3. follows' \in BOOLEAN /\ extra' \in 0..MaxExtra
    BY <1>2 DEF FollowChanges, Spend, TypeOK
  <2> QED
    BY <1>2, <2>2, <2>3 DEF FollowChanges, TypeOK, storeVars, ghosts, At
<1>3. ASSUME NEW kind \in {"ppv", "ppvTargeted"}, Purchase(kind) PROVE TypeOK'
  <2>1. kind \in Kinds
    BY DEF Kinds
  <2>2. queue' \in Seq(Kinds)
    BY <1>3, <2>1, AppendProperties DEF Purchase, TypeOK
  <2>3. extra' \in 0..MaxExtra
    BY <1>3 DEF Purchase, Spend, TypeOK
  <2> QED
    BY <1>3, <2>2, <2>3 DEF Purchase, TypeOK, storeVars, serviceVars, ghosts, At
<1>4. ASSUME EventArrives PROVE TypeOK'
  <2>1. PICK e \in wire :
           /\ wire' = wire \ {e}
           /\ handling' = [sub |-> e.sub, work |-> e.work,
                 found |-> IF Stale(e.sub) THEN "none" ELSE Reason(cached, e.sub)]
           /\ cached' = IF Stale(e.sub) THEN cached ELSE e.sub
    BY <1>4 DEF EventArrives
  <2>2. e.sub \in Sub /\ e.work \in BOOLEAN
    BY DEF TypeOK
  <2>3. handling' \in [sub : Sub, work : BOOLEAN, found : Reasons]
    BY <2>1, <2>2, ReasonType DEF Reasons
  <2>4. cached' \in Sub /\ wire' \subseteq [sub : Sub, work : BOOLEAN]
    BY <2>1, <2>2 DEF TypeOK
  <2> QED
    BY <1>4, <2>3, <2>4 DEF EventArrives, TypeOK, serviceVars, ghosts, At
<1>5. ASSUME EventHandled PROVE TypeOK'
  <2>1. "full" \in Kinds
    BY DEF Kinds
  <2>2. queue' \in Seq(Kinds)
    BY <1>5, <2>1, AppendProperties DEF EventHandled, TypeOK
  <2>3. reg' \in Reasons
    BY <1>5, RegisterType DEF EventHandled, TypeOK
  <2>4. handling' \in [sub : Sub, work : BOOLEAN, found : Reasons]
    BY <1>5 DEF EventHandled, None, NoSub, Sub, Tiers, Reasons
  <2> QED
    BY <1>5, <2>2, <2>3, <2>4 DEF EventHandled, TypeOK, storeVars, serviceVars, ghosts, At
<1>6. ASSUME ListsAsked PROVE TypeOK'
  <2>1. lists' \in [sub : Sub, work : BOOLEAN, found : Reasons]
    BY <1>6 DEF ListsAsked, TypeOK
  <2>2. extra' \in 0..MaxExtra
    BY <1>6 DEF ListsAsked, Spend, TypeOK
  <2> QED
    BY <1>6, <2>1, <2>2 DEF ListsAsked, TypeOK, storeVars, serviceVars, ghosts, At
<1>7. ASSUME ListsMerged PROVE TypeOK'
  <2>1. lists' \in [sub : Sub, work : BOOLEAN, found : Reasons] /\ cached' \in Sub
    BY <1>7, ReasonType DEF ListsMerged, TypeOK
  <2> QED
    BY <1>7, <2>1 DEF ListsMerged, TypeOK, serviceVars, ghosts, At
<1>8. ASSUME ListsRegistered PROVE TypeOK'
  <2>1. reg' \in Reasons
    BY <1>8, RegisterType DEF ListsRegistered, TypeOK
  <2>2. lists' \in [sub : Sub, work : BOOLEAN, found : Reasons]
    BY <1>8 DEF ListsRegistered, None, NoSub, Sub, Tiers, Reasons
  <2> QED
    BY <1>8, <2>1, <2>2 DEF ListsRegistered, TypeOK, serviceVars, storeVars, ghosts, At
<1>9. CASE UNCHANGED vars
  BY <1>9 DEF vars, TypeOK, serviceVars, storeVars, ghosts, At
<1> QED
  BY <1>1, <1>2, <1>3, <1>4, <1>5, <1>6, <1>7, <1>8, <1>9
  DEF ServiceNext, ListsNext, HandlerNext

\* A pass.
LEMMA PassTypes ==
    ASSUME TypeOK, PassNext
    PROVE  TypeOK'
<1> DEFINE P == [at : {"idle", "ask", "merge", "consume", "refresh", "walk"},
                 kind : Kinds \cup {"sync", "none"}, shortcut : BOOLEAN, sub : Sub,
                 follows : BOOLEAN, prior : Sight, found : Reasons,
                 reason : Reasons \cup {"full-pass", "follow-transition"}]
<1> USE SessionAssumption
<1>1. ASSUME Answered PROVE TypeOK'
  <2>1. pass' \in P /\ pass'.kind = pass.kind /\ pass'.at # "idle" /\ pass.at # "idle"
    BY <1>1 DEF Answered, TypeOK, At
  <2> QED
    BY <1>1, <2>1 DEF Answered, TypeOK, serviceVars, storeVars, ghosts, At
<1>2. ASSUME Merged PROVE TypeOK'
  <2>1. pass' \in P /\ pass'.kind = pass.kind /\ pass'.at # "idle" /\ pass.at # "idle"
    BY <1>2, ReasonType DEF Merged, TypeOK, At
  <2>2. cached' \in Sub /\ account' \in Sight
    BY <1>2 DEF Merged, TypeOK, Sight
  <2> QED
    BY <1>2, <2>1, <2>2 DEF Merged, TypeOK, serviceVars, ghosts, At
<1>3. ASSUME Consumed PROVE TypeOK'
  <2>1. Register(reg, pass.found) \in Reasons
    BY RegisterType DEF TypeOK
  <2>2. reg' \in Reasons
    BY <1>3, <2>1 DEF Consumed, Reasons
  <2>3. pass' \in P /\ pass'.kind = pass.kind /\ pass'.at # "idle" /\ pass.at # "idle"
    BY <1>3, <2>1 DEF Consumed, TypeOK, Reasons, At
  <2>4. logged' \in Sight
    BY <1>3 DEF Consumed, TypeOK
  <2> QED
    BY <1>3, <2>2, <2>3, <2>4 DEF Consumed, TypeOK, serviceVars, ghosts, At
<1>4. ASSUME Refreshed PROVE TypeOK'
  <2>1. pass' \in P /\ pass'.kind = pass.kind /\ pass'.at # "idle" /\ pass.at # "idle"
    BY <1>4 DEF Refreshed, TypeOK, At
  <2> QED
    BY <1>4, <2>1 DEF Refreshed, TypeOK, serviceVars, At
<1>5. ASSUME RefreshFails PROVE TypeOK'
  <2>1. pass' \in P /\ pass'.kind = pass.kind /\ pass'.at # "idle" /\ pass.at # "idle"
    BY <1>5 DEF RefreshFails, TypeOK, At
  <2>2. extra' \in 0..MaxExtra
    BY <1>5 DEF RefreshFails, Spend, TypeOK
  <2> QED
    BY <1>5, <2>1, <2>2 DEF RefreshFails, TypeOK, serviceVars, storeVars, At
<1>6. NoPass \in P /\ NoPass.kind = "none" /\ NoPass.at = "idle"
  BY DEF NoPass, NoSub, Sub, Tiers, Sight, Reasons
<1>7. ASSUME PassEnds PROVE TypeOK'
  <2>1. locked' \subseteq Opens("top")
    BY <1>7 DEF PassEnds, TypeOK
  <2>2. phase' \in {"start", "sync", "backfill", "daemon", "ended"} /\ phase' # "sync"
    BY <1>7 DEF PassEnds, TypeOK
  <2>3. fresh' \in BOOLEAN
    BY <1>7 DEF PassEnds
  <2> QED
    BY <1>6, <1>7, <2>1, <2>2, <2>3 DEF PassEnds, TypeOK, serviceVars, At
<1>8. ASSUME PassFails PROVE TypeOK'
  <2>1. reg' \in Reasons
    BY <1>8, RegisterType DEF PassFails, TypeOK
  <2>2. phase' \in {"start", "sync", "backfill", "daemon", "ended"} /\ phase' # "sync"
    BY <1>8 DEF PassFails, TypeOK
  <2>3. extra' \in 0..MaxExtra
    BY <1>8 DEF PassFails, Spend, TypeOK
  <2> QED
    BY <1>6, <1>8, <2>1, <2>2, <2>3 DEF PassFails, TypeOK, serviceVars, storeVars, ghosts, At
<1> QED
  BY <1>1, <1>2, <1>3, <1>4, <1>5, <1>7, <1>8 DEF PassNext

\* The program.
LEMMA MainTypes ==
    ASSUME TypeOK, MainNext
    PROVE  TypeOK'
<1> USE SessionAssumption
<1>1. ASSUME SyncBegins PROVE TypeOK'
  <2>1. Begin("sync") /\ reg \in Reasons
    BY <1>1 DEF SyncBegins, TypeOK
  <2> QED
    BY <1>1, <2>1, BeginType DEF SyncBegins, TypeOK, serviceVars, storeVars, ghosts, At, Kinds
<1>2. ASSUME ItemTaken PROVE TypeOK'
  <2>1. Begin(Head(queue)) /\ reg \in Reasons /\ queue \in Seq(Kinds) /\ queue # <<>>
    BY <1>2 DEF ItemTaken, TypeOK
  <2>2. Head(queue) \in Kinds /\ queue' \in Seq(Kinds)
    BY <1>2, <2>1, HeadTailProperties DEF ItemTaken
  <2>3. Head(queue) # "sync" /\ Head(queue) # "none" /\ phase # "sync"
    BY <1>2, <2>2 DEF Kinds, ItemTaken
  <2> QED
    BY <1>2, <2>1, <2>2, <2>3, BeginType
    DEF ItemTaken, TypeOK, serviceVars, storeVars, ghosts, At
<1>3. ASSUME Drained PROVE TypeOK'
  BY <1>3 DEF Drained, TypeOK, serviceVars, storeVars, ghosts, At
<1>4. ASSUME NEW kind \in {"timeline", "stories"}, Poll(kind) PROVE TypeOK'
  <2>1. kind \in Kinds
    BY DEF Kinds
  <2>2. queue' \in Seq(Kinds)
    BY <1>4, <2>1, AppendProperties DEF Poll, TypeOK
  <2>3. extra' \in 0..MaxExtra
    BY <1>4 DEF Poll, Spend, TypeOK
  <2> QED
    BY <1>4, <2>2, <2>3 DEF Poll, TypeOK, storeVars, serviceVars, ghosts, At
<1> QED
  BY <1>1, <1>2, <1>3, <1>4 DEF MainNext

\* Every variable keeps its type, and the first pass is what phase "sync" waits
\* for (main, drain_backfill, _worker_loop).
THEOREM SessionTypeCorrect == Spec => []TypeOK
<1>1. Init => TypeOK
  <2> SUFFICES ASSUME Init PROVE TypeOK
    OBVIOUS
  <2>1. queue \in Seq(Kinds)
    BY EmptySeq DEF Init
  <2>2. sub \in Sub /\ cached \in Sub /\ NoSub \in Sub
    BY SessionAssumption DEF Init, NoSub, Sub, Tiers
  <2> QED
    <3>1. {handling, lists} \subseteq [sub : Sub, work : BOOLEAN, found : Reasons]
      BY <2>2 DEF Init, None, Reasons
    <3>2. pass \in [at : {"idle", "ask", "merge", "consume", "refresh", "walk"},
                    kind : Kinds \cup {"sync", "none"}, shortcut : BOOLEAN, sub : Sub,
                    follows : BOOLEAN, prior : Sight, found : Reasons,
                    reason : Reasons \cup {"full-pass", "follow-transition"}]
      BY <2>2 DEF Init, NoPass, Sight, Reasons
    <3>3. phase # "sync" /\ pass.kind = "none" /\ At("idle")
      BY DEF Init, NoPass, At
    <3>4. extra \in 0..MaxExtra
      BY SessionAssumption DEF Init
    <3> QED
      BY <2>1, <2>2, <3>1, <3>2, <3>3, <3>4 DEF Init, TypeOK, Sight, Reasons
<1>2. TypeOK /\ [Next]_vars => TypeOK'
  BY ServiceTypes, PassTypes, MainTypes DEF Next
<1> QED
  BY <1>1, <1>2, PTL DEF Spec

-----------------------------------------------------------------------------
(* What anybody knows of the subscription is behind the service, as long   *)
(* as access only grows.                                                   *)

\* A subscription that the service had once.
Past(s) ==
    /\ s.version <= sub.version /\ Opens(s.tier) \subseteq Opens(sub.tier)
    /\ s.version = sub.version => s.tier = sub.tier

Behind ==
    /\ Past(cached) /\ Past(pass.sub) /\ Past(lists.sub) /\ Past(handling.sub)
    /\ \A e \in wire : Past(e.sub)
    /\ sub.version >= 0

\* The service has something at least as good, and newer if it is different.
LEMMA PastGrows ==
    ASSUME NEW s \in Sub, sub \in Sub, sub' \in Sub, Past(s),
           sub' = sub \/ (sub'.version = sub.version + 1 /\ Grows(sub.tier, sub'.tier))
    PROVE  Past(s)'
BY DEF Past, Sub, Grows

\* What is known only moves between those who know it.
LEMMA BehindStep ==
    ASSUME ~MayLapse, TypeOK, TypeOK', Behind, [Next]_vars
    PROVE  Behind'
<1>1. Past(NoSub)
  BY OpensType DEF NoSub, Behind, Past, TypeOK, Sub
<1>2. ASSUME NEW tier \in Tiers, SubscriptionChanges(tier) PROVE Behind'
  <2>1. /\ sub' = [version |-> sub.version + 1, tier |-> tier]
        /\ Grows(sub.tier, tier)
        /\ \A e \in wire' : e \in wire \/ e.sub = sub'
        /\ UNCHANGED <<cached, pass, lists, handling>>
    BY <1>2 DEF SubscriptionChanges, Events, storeVars
  <2>2. sub \in Sub /\ sub' \in Sub
    BY DEF TypeOK
  <2>3. Past(sub)' /\ \A s \in Sub : Past(s) => Past(s)'
    BY <2>1, <2>2, PastGrows DEF Past, Sub
  <2>4. {cached, pass.sub, lists.sub, handling.sub} \subseteq Sub
    BY DEF TypeOK
  <2>5. \A e \in wire' : Past(e.sub)'
    BY <2>1, <2>3 DEF Behind, TypeOK, Past
  <2>6. sub'.version >= 0
    BY <2>1, <2>2 DEF Behind, Sub
  <2>7. /\ Past(cached)' /\ Past(pass.sub)' /\ Past(lists.sub)' /\ Past(handling.sub)'
    BY <2>1, <2>3, <2>4 DEF Behind, Past
  <2> QED
    BY <2>5, <2>6, <2>7 DEF Behind
<1> DEFINE K == {sub, NoSub, cached, pass.sub, lists.sub, handling.sub}
                \cup {e.sub : e \in wire}
<1>3. ASSUME sub' = sub, cached' \in K, pass'.sub \in K, lists'.sub \in K,
             handling'.sub \in K, wire' \subseteq wire
      PROVE  Behind'
  <2>1. \A s : Past(s)' <=> Past(s)
    BY <1>3 DEF Past
  <2>2. Past(sub) /\ Past(NoSub)
    BY <1>1 DEF Past, TypeOK, Sub
  <2>3. \A s \in K : Past(s)
    BY <2>2 DEF Behind
  <2>4. /\ Past(cached)' /\ Past(pass.sub)' /\ Past(lists.sub)' /\ Past(handling.sub)'
        /\ sub'.version >= 0
    BY <1>3, <2>1, <2>3 DEF Past, Behind
  <2>5. \A e \in wire' : Past(e.sub)'
    BY <1>3, <2>1 DEF Behind
  <2> QED
    BY <2>4, <2>5 DEF Behind
<1>4. ASSUME FollowChanges \/ \E kind \in {"ppv", "ppvTargeted"} : Purchase(kind)
      PROVE  Behind'
  BY <1>3, <1>4 DEF FollowChanges, Purchase, serviceVars, storeVars
<1>5. ASSUME HandlerNext PROVE Behind'
  BY <1>3, <1>5 DEF HandlerNext, EventArrives, EventHandled, None, serviceVars, storeVars
<1>6. ASSUME ListsNext PROVE Behind'
  <2>1. lists \in [sub : Sub, work : BOOLEAN, found : Reasons]
    BY DEF TypeOK
  <2>2. CASE ListsAsked
    BY <1>3, <2>1, <2>2 DEF ListsAsked, serviceVars, storeVars
  <2>3. CASE ListsMerged
    <3>1. lists'.sub = lists.sub /\ cached' = lists.sub
      BY <2>1, <2>3 DEF ListsMerged
    <3> QED
      BY <1>3, <2>3, <3>1 DEF ListsMerged, serviceVars
  <2>4. CASE ListsRegistered
    BY <1>3, <2>4 DEF ListsRegistered, None, serviceVars, storeVars
  <2> QED
    BY <1>6, <2>2, <2>3, <2>4 DEF ListsNext
<1>7. ASSUME PassNext PROVE Behind'
  <2>1. CASE Answered
    BY <1>3, <2>1 DEF Answered, TypeOK, serviceVars, storeVars
  <2>2. CASE Merged
    BY <1>3, <2>2 DEF Merged, TypeOK, serviceVars
  <2>3. CASE Consumed
    BY <1>3, <2>3 DEF Consumed, TypeOK, serviceVars
  <2>4. CASE Refreshed \/ RefreshFails
    BY <1>3, <2>4 DEF Refreshed, RefreshFails, TypeOK, serviceVars, storeVars
  <2>5. CASE PassEnds \/ PassFails
    BY <1>3, <2>5 DEF PassEnds, PassFails, NoPass, serviceVars, storeVars
  <2> QED
    BY <1>7, <2>1, <2>2, <2>3, <2>4, <2>5 DEF PassNext
<1>8. ASSUME MainNext PROVE Behind'
  <2>1. /\ UNCHANGED <<sub, cached, lists, handling, wire>>
        /\ pass' = pass \/ pass'.sub = NoSub
    BY <1>8 DEF MainNext, SyncBegins, ItemTaken, Drained, Poll, Begin, NoPass,
                serviceVars, storeVars
  <2>2. /\ sub' = sub /\ cached' = cached /\ lists'.sub = lists.sub
        /\ handling'.sub = handling.sub /\ wire' = wire
        /\ pass'.sub = pass.sub \/ pass'.sub = NoSub
    BY <2>1
  <2> QED
    BY <1>3, <2>2
<1>9. CASE UNCHANGED vars
  BY <1>3, <1>9 DEF vars, serviceVars, storeVars
<1> QED
  BY <1>2, <1>4, <1>5, <1>6, <1>7, <1>8, <1>9 DEF Next, ServiceNext

-----------------------------------------------------------------------------
(* UnlockedAfterPass.                                                      *)

\* A change of access was noticed and not yet refreshed for.
Noticed ==
    \/ reg # "none" \/ handling.found # "none" \/ lists.found # "none"
    \/ At("consume") /\ pass.found # "none"
    \/ At("refresh")

\* This pass read the subscription after it last changed.
Current == pass.at \in {"consume", "refresh", "walk"} /\ pass.sub.version = sub.version

\* What the row in the store opens is unlocked or noticed; and so is, once a
\* pass read the subscription as it is, what that opens.
AccessInv ==
    ~missed =>
        /\ locked \cap Opens(cached.tier) # {} => Noticed
        /\ (fresh \/ Current) /\ locked \cap Opens(sub.tier) # {} => Noticed

\* A list answer that is not merged has found nothing; no pass is under way
\* before the first one.
ListsInv ==
    /\ lists.work \/ lists.found = "none"
    /\ phase = "start" => At("idle")

\* Only the merge of the lists finds something, and the start is left for good.
LEMMA ListsStep == TypeOK /\ ListsInv /\ [Next]_vars => ListsInv'
<1> SUFFICES ASSUME TypeOK, ListsInv, [Next]_vars PROVE ListsInv'
  OBVIOUS
<1>1. lists \in [sub : Sub, work : BOOLEAN, found : Reasons]
  BY DEF TypeOK
<1>2. CASE lists' = lists /\ ((phase' = phase /\ pass' = pass) \/ phase' # "start")
  BY <1>2 DEF ListsInv, At
<1>3. CASE ListsNext
  <2>1. lists.work \/ lists.found = "none" => (lists.work \/ lists.found = "none")'
    <3>1. CASE ListsAsked
      BY <1>1, <3>1 DEF ListsAsked
    <3>2. CASE ListsMerged
      BY <1>1, <3>2 DEF ListsMerged
    <3>3. CASE ListsRegistered
      BY <3>3 DEF ListsRegistered, None
    <3> QED
      BY <1>3, <3>1, <3>2, <3>3 DEF ListsNext
  <2>2. phase' = phase /\ pass' = pass
    BY <1>3 DEF ListsNext, ListsAsked, ListsMerged, ListsRegistered
  <2> QED
    BY <2>1, <2>2 DEF ListsInv, At
<1>4. CASE HandlerNext
  BY <1>2, <1>4 DEF HandlerNext, EventArrives, EventHandled
<1>5. CASE PassNext
  <2>1. ~At("idle") /\ lists' = lists
    BY <1>5 DEF PassNext, Answered, Merged, Consumed, Refreshed, RefreshFails,
                PassEnds, PassFails, At
  <2>2. phase' = phase \/ phase' # "start"
    BY <1>5 DEF PassNext, Answered, Merged, Consumed, Refreshed, RefreshFails,
                PassEnds, PassFails
  <2> QED
    BY <2>1, <2>2 DEF ListsInv
<1>6. CASE MainNext
  BY <1>2, <1>6 DEF MainNext, SyncBegins, ItemTaken, Drained, Poll
<1>7. CASE ServiceNext
  BY <1>2, <1>7 DEF ServiceNext, SubscriptionChanges, FollowChanges, Purchase
<1> QED
  BY <1>2, <1>3, <1>4, <1>5, <1>6, <1>7 DEF Next, vars

\* A row that opens something it did not open before is a change.
LEMMA ReasonTells ==
    ASSUME NEW old \in Sub, NEW new \in Sub, Reason(old, new) = "none"
    PROVE  Opens(new.tier) = {} \/ new.tier = old.tier
BY OpensType DEF Reason

\* Nothing that is read or asked takes a noticed change away.
LEMMA AccessStep ==
    ASSUME ~MayLapse, TypeOK, Behind, ListsInv, AccessInv, [Next]_vars
    PROVE  AccessInv'
<1>1. ASSUME UNCHANGED <<sub, cached, locked, missed, fresh>>, Noticed => Noticed',
             Current' => Current
      PROVE  AccessInv'
  BY <1>1 DEF AccessInv
<1>2. ASSUME NEW tier \in Tiers, SubscriptionChanges(tier) PROVE AccessInv'
  <2>1. pass.sub.version <= sub.version /\ sub.version + 1 = sub'.version /\ pass' = pass
    BY <1>2 DEF SubscriptionChanges, Behind, Past
  <2>2. ~Current' /\ ~fresh'
    BY <1>2, <2>1 DEF Current, SubscriptionChanges, TypeOK, Sub
  <2>3. UNCHANGED <<cached, locked, missed>> /\ (Noticed <=> Noticed')
    BY <1>2 DEF SubscriptionChanges, storeVars, Noticed, At
  <2> QED
    BY <2>2, <2>3 DEF AccessInv
<1>3. ASSUME FollowChanges \/ \E kind \in {"ppv", "ppvTargeted"} : Purchase(kind)
      PROVE  AccessInv'
  BY <1>1, <1>3 DEF FollowChanges, Purchase, serviceVars, storeVars, ghosts,
                    Noticed, Current, At
<1>4. ASSUME EventArrives PROVE AccessInv'
  <2>1. PICK e \in wire :
           /\ handling' = [sub |-> e.sub, work |-> e.work,
                 found |-> IF Stale(e.sub) THEN "none" ELSE Reason(cached, e.sub)]
           /\ cached' = IF Stale(e.sub) THEN cached ELSE e.sub
    BY <1>4 DEF EventArrives
  <2>2. e.sub \in Sub /\ cached \in Sub
    BY DEF TypeOK
  <2>3. Noticed => Noticed'
    BY <1>4 DEF EventArrives, Noticed, At, None
  <2>4. /\ UNCHANGED <<sub, locked, missed, fresh>> /\ (Current' => Current)
    BY <1>4 DEF EventArrives, Current, serviceVars, ghosts
  <2>5. cached'.tier = cached.tier \/ Opens(cached'.tier) = {} \/ Noticed'
    BY <2>1, <2>2, ReasonTells DEF Noticed
  <2> QED
    BY <2>3, <2>4, <2>5 DEF AccessInv
<1>5. ASSUME EventHandled PROVE AccessInv'
  <2>1. Noticed => Noticed'
    BY <1>5 DEF EventHandled, Noticed, At, Register, None
  <2> QED
    BY <1>1, <1>5, <2>1 DEF EventHandled, serviceVars, storeVars, ghosts, Current
<1>6. ASSUME ListsNext PROVE AccessInv'
  <2>1. lists \in [sub : Sub, work : BOOLEAN, found : Reasons] /\ cached \in Sub
    BY DEF TypeOK
  <2>2. CASE ListsAsked
    <3>1. lists'.found = lists.found
      BY <2>1, <2>2 DEF ListsAsked
    <3>2. Noticed => Noticed'
      BY <2>2, <3>1 DEF ListsAsked, Noticed, At
    <3> QED
      BY <1>1, <2>2, <3>2 DEF ListsAsked, serviceVars, storeVars, ghosts, Current
  <2>3. CASE ListsMerged
    <3>1. lists'.found = Reason(cached, lists.sub) /\ cached' = lists.sub
      BY <2>1, <2>3 DEF ListsMerged
    <3>2. cached'.tier = cached.tier \/ Opens(cached'.tier) = {} \/ Noticed'
      BY <2>1, <3>1, ReasonTells DEF Noticed
    <3>3. Noticed => Noticed'
      BY <2>3, <3>1 DEF ListsMerged, ListsInv, Noticed, At
    <3>4. UNCHANGED <<sub, locked, missed, fresh>> /\ (Current' <=> Current)
      BY <2>3 DEF ListsMerged, serviceVars, ghosts, Current
    <3> QED
      BY <3>2, <3>3, <3>4 DEF AccessInv
  <2>4. CASE ListsRegistered
    <3>1. Noticed => Noticed'
      BY <2>4 DEF ListsRegistered, Noticed, At, Register, None
    <3> QED
      BY <1>1, <2>4, <3>1 DEF ListsRegistered, serviceVars, storeVars, ghosts, Current
  <2> QED
    BY <1>6, <2>2, <2>3, <2>4 DEF ListsNext
<1>7. ASSUME PassNext PROVE AccessInv'
  <2>1. /\ cached \in Sub /\ pass.sub \in Sub /\ sub \in Sub
        /\ Past(pass.sub) /\ Opens(cached.tier) \subseteq Opens(sub.tier)
    BY DEF TypeOK, Behind, Past
  <2>2. CASE Answered
    <3>1. At("ask") /\ pass'.at = "merge"
      BY <2>2 DEF Answered, TypeOK
    <3>2. (Noticed => Noticed') /\ ~Current'
      BY <2>2, <3>1 DEF Answered, Noticed, Current, At
    <3> QED
      BY <2>2, <3>2 DEF Answered, AccessInv, serviceVars, storeVars, ghosts
  <2>3. CASE Merged
    <3>1. /\ At("merge") /\ pass'.at = "consume" /\ pass'.sub = pass.sub
          /\ pass'.found = Reason(cached, pass.sub) /\ cached' = pass.sub
          /\ UNCHANGED <<sub, locked, missed, fresh, reg, handling, lists>>
      BY <2>3 DEF Merged, TypeOK, serviceVars, ghosts
    <3>2. Noticed => Noticed'
      BY <3>1 DEF Noticed, At
    <3>3. cached'.tier = cached.tier \/ Opens(cached'.tier) = {} \/ Noticed'
      BY <2>1, <3>1, ReasonTells DEF Noticed, At
    <3>4. ~missed' /\ locked' \cap Opens(cached'.tier) # {} => Noticed'
      BY <3>1, <3>2, <3>3 DEF AccessInv
    <3>5. Current' => cached'.tier = sub'.tier
      BY <2>1, <3>1 DEF Current, Past
    <3>6. ~missed' /\ fresh' /\ locked' \cap Opens(sub'.tier) # {} => Noticed'
      BY <3>1, <3>2 DEF AccessInv
    <3> QED
      BY <3>4, <3>5, <3>6 DEF AccessInv
  <2>4. CASE Consumed
    <3>1. /\ At("consume") /\ pass'.at \in {"walk", "refresh"} /\ pass'.sub = pass.sub
          /\ UNCHANGED <<sub, cached, locked, missed, fresh, handling, lists>>
      BY <2>4 DEF Consumed, TypeOK, serviceVars, ghosts
    <3>2. Current' <=> Current
      BY <3>1 DEF Current, At
    <3>3. reg # "none" \/ pass.found # "none" => pass'.at = "refresh"
      BY <2>4 DEF Consumed, Register, TypeOK, Reasons
    <3>4. Noticed => Noticed'
      BY <3>1, <3>3 DEF Noticed, At
    <3> QED
      BY <3>1, <3>2, <3>4, <1>1
  <2>5. CASE Refreshed
    <3>1. /\ locked' \cap Opens(sub'.tier) = {}
          /\ cached' = cached /\ sub' = sub
      BY <2>5 DEF Refreshed, serviceVars
    <3>2. locked' \cap Opens(cached'.tier) = {}
      BY <2>1, <3>1
    <3> QED
      BY <3>1, <3>2 DEF AccessInv
  <2>6. CASE RefreshFails
    BY <2>6 DEF RefreshFails, AccessInv
  <2>7. CASE PassEnds
    <3>1. /\ At("walk") /\ pass'.at = "idle"
          /\ UNCHANGED <<sub, cached, missed, reg, handling, lists>>
          /\ fresh' => pass.sub.version = sub.version
      BY <2>7 DEF PassEnds, NoPass, serviceVars
    <3>2. (Noticed => Noticed') /\ ~Current' /\ (fresh' => Current)
      BY <3>1 DEF Noticed, Current, At
    <3>3. locked' \cap Opens(sub.tier) = locked \cap Opens(sub.tier)
      BY <2>7 DEF PassEnds
    <3>4. locked' \cap Opens(cached.tier) = locked \cap Opens(cached.tier)
      BY <2>1, <3>3
    <3> QED
      BY <3>1, <3>2, <3>3, <3>4 DEF AccessInv
  <2>8. CASE PassFails
    <3>1. /\ pass.at \in {"ask", "consume", "walk"} /\ pass'.at = "idle"
          /\ UNCHANGED <<sub, cached, locked, missed, fresh, handling, lists>>
          /\ reg' = IF At("consume") THEN Register(reg, pass.found) ELSE reg
      BY <2>8 DEF PassFails, NoPass, At, serviceVars, storeVars, ghosts
    <3>2. (Noticed => Noticed') /\ ~Current'
      BY <3>1 DEF Noticed, Current, At, Register
    <3> QED
      BY <3>1, <3>2, <1>1
  <2> QED
    BY <1>7, <2>2, <2>3, <2>4, <2>5, <2>6, <2>7, <2>8 DEF PassNext
<1>8. ASSUME MainNext PROVE AccessInv'
  <2>1. UNCHANGED <<sub, cached, locked, missed, fresh, handling, lists>>
    BY <1>8 DEF MainNext, SyncBegins, ItemTaken, Drained, Poll, serviceVars, storeVars, ghosts
  <2>2. CASE UNCHANGED <<pass, reg>>
    BY <1>1, <2>1, <2>2 DEF Noticed, Current, At
  <2>3. ASSUME NEW kind, Begin(kind), At("idle") PROVE AccessInv'
    <3>1. pass'.at = "ask" /\ (reg # "none" => reg' = reg)
      BY <2>3 DEF Begin, NoPass
    <3>2. (Noticed => Noticed') /\ ~Current'
      BY <2>1, <2>3, <3>1 DEF Noticed, Current, At
    <3> QED
      BY <1>1, <2>1, <3>2
  <2>4. CASE SyncBegins
    BY <2>3, <2>4 DEF SyncBegins, ListsInv
  <2>5. CASE ItemTaken
    BY <2>3, <2>5 DEF ItemTaken
  <2> QED
    BY <1>8, <2>2, <2>4, <2>5 DEF MainNext, Drained, Poll
<1>9. CASE UNCHANGED vars
  BY <1>1, <1>9 DEF vars, serviceVars, storeVars, ghosts, Noticed, Current, At
<1> QED
  BY <1>2, <1>3, <1>4, <1>5, <1>6, <1>7, <1>8, <1>9 DEF Next, ServiceNext, HandlerNext

\* UnlockedAfterPass, for a subscription that only begins and grows: whenever a
\* pass that asked after the last change is over, what the change opened has
\* been asked for again, or the reason to do so is registered or about to be
\* (get_creator_account_info, metadata/subscriptions.py).
THEOREM UnlockedCorrect == ~MayLapse => (Spec => []UnlockedAfterPass)
<1> SUFFICES ASSUME ~MayLapse PROVE Spec => []UnlockedAfterPass
  OBVIOUS
<1> DEFINE Inv == Behind /\ ListsInv /\ AccessInv
<1>1. Init => Inv
  <2> SUFFICES ASSUME Init PROVE Inv
    OBVIOUS
  <2>1. /\ sub.version = 0 /\ cached = NoSub /\ pass.sub = NoSub /\ lists.sub = NoSub
        /\ handling.sub = NoSub /\ wire = {} /\ sub.tier = "none" /\ lists.found = "none"
        /\ ~fresh /\ pass.at = "idle"
    BY DEF Init, None, NoPass
  <2>2. Behind
    BY <2>1, OpensType DEF Behind, Past, NoSub
  <2>3. Opens(cached.tier) = {}
    BY <2>1, OpensType DEF NoSub
  <2> QED
    BY <2>1, <2>2, <2>3 DEF ListsInv, AccessInv, Current, At
<1>2. TypeOK /\ TypeOK' /\ Inv /\ [Next]_vars => Inv'
  BY BehindStep, ListsStep, AccessStep
<1>3. Inv => UnlockedAfterPass
  BY DEF AccessInv, UnlockedAfterPass, Noticed, At
<1> QED
  BY <1>1, <1>2, <1>3, SessionTypeCorrect, PTL DEF Spec

-----------------------------------------------------------------------------
(* NothingOrphaned.                                                        *)

\* The work of the event whose handler awaits the save.
HandlerWork == IF handling # None /\ handling.work THEN 1 ELSE 0

\* With the handler detached nothing captures events any more, no daemon polls,
\* and the work there is can only move from the suspended handler to the queue.
Detached == attached \/ (phase # "daemon" /\ Len(queue) + HandlerWork <= 1)

\* No step of the worker, the lists or main adds work to a detached queue, and
\* the handler only moves its own there.
LEMMA DetachedStep == TypeOK /\ TypeOK' /\ Detached /\ [Next]_vars => Detached'
<1> SUFFICES ASSUME TypeOK, TypeOK', Detached, [Next]_vars PROVE Detached'
  OBVIOUS
<1>1. queue \in Seq(Kinds) /\ Len(queue) \in Nat /\ HandlerWork \in 0..1
  BY DEF TypeOK, HandlerWork
<1>2. CASE UNCHANGED <<attached, phase, queue, handling>>
  BY <1>2 DEF Detached, HandlerWork
<1>3. CASE ServiceNext
  BY <1>2, <1>3 DEF ServiceNext, SubscriptionChanges, FollowChanges, Purchase, Detached
<1>4. CASE EventArrives
  BY <1>4 DEF EventArrives, Detached
<1>5. CASE EventHandled
  <2>1. HandlerWork' = 0 /\ UNCHANGED <<attached, phase>>
    BY <1>5 DEF EventHandled, HandlerWork
  <2>2. queue' = queue \/ (HandlerWork = 1 /\ queue' = Append(queue, "full"))
    BY <1>5 DEF EventHandled, HandlerWork
  <2>3. Len(queue') <= Len(queue) + HandlerWork
    BY <1>1, <2>2
  <2>4. queue' \in Seq(Kinds)
    BY DEF TypeOK
  <2> QED
    BY <1>1, <2>1, <2>3, <2>4, LenProperties DEF Detached
<1>6. CASE PassNext
  <2>1. UNCHANGED <<attached, queue, handling>> /\ (phase' = phase \/ phase' # "daemon")
    BY <1>6 DEF PassNext, Answered, Merged, Consumed, Refreshed, RefreshFails,
                PassEnds, PassFails
  <2> QED
    BY <2>1 DEF Detached, HandlerWork
<1>7. CASE ListsNext
  BY <1>2, <1>7 DEF ListsNext, ListsAsked, ListsMerged, ListsRegistered
<1>8. CASE MainNext
  <2>1. CASE SyncBegins
    BY <2>1 DEF SyncBegins, Detached, HandlerWork
  <2>2. CASE ItemTaken
    <3>1. queue # <<>> /\ queue' = Tail(queue) /\ UNCHANGED <<attached, phase, handling>>
      BY <2>2 DEF ItemTaken
    <3>2. Len(queue') = Len(queue) - 1
      BY <1>1, <3>1, HeadTailProperties
    <3> QED
      BY <1>1, <3>1, <3>2 DEF Detached, HandlerWork
  <2>3. CASE Drained
    <3>1. PICK daemonMode \in BOOLEAN :
             /\ phase' = IF daemonMode THEN "daemon" ELSE "ended"
             /\ attached' = daemonMode
      BY <2>3 DEF Drained
    <3>2. Len(queue') = 0 /\ (HandlerWork' = 0 \/ HandlerWork' = 1)
      <4>1. queue' = <<>>
        BY <2>3 DEF Drained
      <4>2. Len(queue') = 0
        BY <4>1
      <4>3. HandlerWork' = 0 \/ HandlerWork' = 1
        BY DEF HandlerWork
      <4> QED
        BY <4>2, <4>3
    <3>3. CASE daemonMode = TRUE
      BY <3>1, <3>3 DEF Detached
    <3>4. CASE daemonMode = FALSE
      <4>1. phase' = "ended"
        BY <3>1, <3>4
      <4>2. Len(queue') + HandlerWork' <= 1
        BY <3>2
      <4> QED
        BY <4>1, <4>2 DEF Detached
    <3> QED
      BY <3>3, <3>4
  <2>4. CASE \E kind \in {"timeline", "stories"} : Poll(kind)
    BY <2>4 DEF Poll, Detached
  <2> QED
    BY <1>8, <2>1, <2>2, <2>3, <2>4 DEF MainNext
<1>9. CASE UNCHANGED vars
  BY <1>2, <1>9 DEF vars
<1> QED
  BY <1>3, <1>4, <1>5, <1>6, <1>7, <1>8, <1>9 DEF Next, HandlerNext

\* NothingOrphaned: when the program ends without a daemon, the bootstrap's queue
\* has been worked off, but for the event whose handler was suspended when the
\* handler was detached (drain_backfill, shutdown_bootstrap).
THEOREM NothingOrphanedCorrect == Spec => []NothingOrphaned
<1>1. Init => Detached
  BY DEF Init, Detached, HandlerWork
<1>2. Detached => NothingOrphaned
  BY DEF Detached, NothingOrphaned, HandlerWork
<1> QED
  BY <1>1, <1>2, DetachedStep, SessionTypeCorrect, PTL DEF Spec
=============================================================================
