--------------------------- MODULE Service_proofs ---------------------------
(***************************************************************************)
(* Proofs about WsBridge and RateLimiter, for every value of their         *)
(* constants, and about the two side by side.                              *)
(*                                                                         *)
(* The bridge: however often the connection is lost, refused or restarted, *)
(* and whatever comes in a batch, the handler sees the events of the       *)
(* service in order and once.                                              *)
(*                                                                         *)
(* The limiter: however many callers wait, and whenever the 429s arrive,   *)
(* no request leaves in the window the latest 429 opened, and none without *)
(* a token earned.                                                         *)
(***************************************************************************)
EXTENDS MCService, FiniteSetTheorems, TLAPS

USE BridgeAssumption

-----------------------------------------------------------------------------
(* Types.                                                                  *)

Messages == [kind : {"event"}, n : 1..MaxEvents]
            \cup [kind : {"status"}, up : BOOLEAN, session : Conns]
            \cup [kind : {"auth_error", "rate_limit"}]

Children == [life : {"none", "run", "ended"},
             phase : {"top", "opening", "auth", "listen", "lost", "done"},
             conn : Conns, connected : BOOLEAN, session : Conns,
             attempts : 0..MaxReconnects,
             ping : {"none", "sleep", "sending", "exited"},
             shown : BOOLEAN \X Conns]

Proxies == [proc : BOOLEAN, up : BOOLEAN, session : Conns,
            drain : {"none", "read", "handling", "dead"},
            item : 0..MaxEvents,
            use : {"fresh", "waiting", "ready", "restarting", "closing", "closed"}]

\* BridgeTypeOK, with the types of the messages that wait.
QueuesType == evtQ \in Seq(Messages) /\ cmdQ \in Seq({"stop", "cookies"})
CountsType ==
    /\ api \in {"none", "ok", "null"}
    /\ opened \in Conns /\ faults \in 0..MaxFaults /\ sent \in 0..MaxEvents
    /\ unhides \in 0..MaxRestarts
TypeInv ==
    /\ child \in Children /\ proxy \in Proxies /\ QueuesType /\ CountsType
    /\ got \in Seq(1..MaxEvents)
    /\ proxy.drain = "handling" => proxy.item # 0

\* The types of the messages are those BridgeTypeOK asks for.
LEMMA TypeParts == TypeInv => BridgeTypeOK
<1> SUFFICES ASSUME TypeInv PROVE BridgeTypeOK
  OBVIOUS
<1>1. \A i \in DOMAIN evtQ : evtQ[i].kind \in {"event", "status", "auth_error", "rate_limit"}
  <2>1. \A m \in Messages : m.kind \in {"event", "status", "auth_error", "rate_limit"}
    BY DEF Messages
  <2> HIDE DEF Messages
  <2>2. \A i \in DOMAIN evtQ : evtQ[i] \in Messages
    BY DEF TypeInv, QueuesType
  <2> QED
    BY <2>1, <2>2
<1>2. \A i \in DOMAIN cmdQ : cmdQ[i] \in {"stop", "cookies"}
  BY DEF TypeInv, QueuesType
<1>3. \A i \in DOMAIN got : got[i] \in 1..MaxEvents
  BY DEF TypeInv
<1> QED
  BY <1>1, <1>2, <1>3 DEF TypeInv, CountsType, BridgeTypeOK, Children, Proxies

\* No transport is one, and there is another as long as the bound allows.
LEMMA ConnsType ==
    /\ None \in Conns
    /\ \A n \in Conns : n < MaxFaults + MaxRestarts + 1 => n + 1 \in Conns
BY DEF Conns, None

\* A new subprocess, and what the steps make of one.
LEMMA NewChildType == NewChild \in Children /\ [NewChild EXCEPT !.life = "none"] \in Children
<1>0. None \in Conns /\ 0 \in 0..MaxReconnects
  BY ConnsType, BridgeAssumption
<1>1. <<FALSE, None>> \in BOOLEAN \X Conns
  BY <1>0
<1> DEFINE nothing == <<FALSE, None>>
<1>2. NewChild = [life |-> "run", phase |-> "top", conn |-> None, connected |-> FALSE,
                  session |-> None, attempts |-> 0, ping |-> "none", shown |-> nothing]
  BY DEF NewChild
<1> HIDE DEF nothing
<1>3. nothing \in BOOLEAN \X Conns
  BY <1>1 DEF nothing
<1>4. NewChild \in Children
  BY <1>0, <1>2, <1>3 DEF Children
<1> QED
  BY <1>4 DEF Children

\* The operators that change the subprocess yield one.
LEMMA ChildSteps ==
    ASSUME NEW c \in Children
    PROVE  /\ Disconnected(c) \in Children /\ Granted(c) \in Children
           /\ Refused(c) \in Children /\ Pinging(c) \in Children
BY ConnsType DEF Disconnected, Granted, Refused, Pinging, Children

\* The frames, one by one: what becomes of the child, what is put, and how many
\* events it carries.
Does(c, kind, to, out, n) ==
    Frame(c, kind).c = to /\ Frame(c, kind).out = out /\ Frame(c, kind).n = n

\* Each kind of frame, as Frame says.
LEMMA FrameIs ==
    ASSUME NEW c
    PROVE  /\ Does(c, "session", Granted(c), <<>>, 0)
           /\ Does(c, "401", Refused(c), <<[kind |-> "auth_error"]>>, 0)
           /\ Does(c, "429", c, <<[kind |-> "rate_limit"]>>, 0)
           /\ Does(c, "event", c, <<EventMsg(sent + 1)>>, 1)
           /\ Does(c, "batch", c, <<EventMsg(sent + 1), EventMsg(sent + 2)>>, 2)
<1> DEFINE a == <<[kind |-> "auth_error"]>>
           b == <<[kind |-> "rate_limit"]>>
           d == <<EventMsg(sent + 1)>>
           e == <<EventMsg(sent + 1), EventMsg(sent + 2)>>
<1>1. \A kind : Frame(c, kind) =
        CASE kind = "session" -> [c |-> Granted(c), out |-> <<>>, n |-> 0]
          [] kind = "401" -> [c |-> Refused(c), out |-> a, n |-> 0]
          [] kind = "429" -> [c |-> c, out |-> b, n |-> 0]
          [] kind = "event" -> [c |-> c, out |-> d, n |-> 1]
          [] kind = "batch" -> [c |-> c, out |-> e, n |-> 2]
  BY Zenon DEF Frame
<1> HIDE DEF a, b, d, e
<1>2. Does(c, "session", Granted(c), <<>>, 0)
  BY <1>1 DEF Does
<1>3. Does(c, "401", Refused(c), a, 0)
  BY <1>1 DEF Does
<1>4. Does(c, "429", c, b, 0)
  BY <1>1 DEF Does
<1>5. Does(c, "event", c, d, 1)
  BY <1>1 DEF Does
<1>6. Does(c, "batch", c, e, 2)
  BY <1>1 DEF Does
<1> QED
  BY <1>2, <1>3, <1>4, <1>5, <1>6, Zenon DEF a, b, d, e

\* What a frame does: the child stays one, and what it puts are messages.
LEMMA FrameType ==
    ASSUME NEW c \in Children, sent \in 0..MaxEvents,
           NEW kind \in {"session", "401", "429", "event", "batch"},
           sent + Frame(c, kind).n <= MaxEvents
    PROVE  /\ Frame(c, kind).c \in Children
           /\ Frame(c, kind).out \in Seq(Messages)
           /\ Frame(c, kind).n \in 0..2
<1> DEFINE a == [kind |-> "auth_error"]
           b == [kind |-> "rate_limit"]
           d == EventMsg(sent + 1)
           e == EventMsg(sent + 2)
           F == Frame(c, kind)
<1>1. a \in Messages /\ b \in Messages
  BY DEF Messages
<1>2. /\ F.n \in {1, 2} => d \in Messages
      /\ F.n = 2 => e \in Messages
  BY DEF Messages, EventMsg
<1>3. /\ kind = "session" => Does(c, kind, Granted(c), <<>>, 0)
      /\ kind = "401" => Does(c, kind, Refused(c), <<a>>, 0)
      /\ kind = "429" => Does(c, kind, c, <<b>>, 0)
      /\ kind = "event" => Does(c, kind, c, <<d>>, 1)
      /\ kind = "batch" => Does(c, kind, c, <<d, e>>, 2)
  BY FrameIs, Zenon
<1> HIDE DEF a, b, d, e, Messages
<1>4. F.n \in 0..2
  BY <1>3 DEF Does
<1>5. F.c \in Children
  BY <1>3, ChildSteps DEF Does
<1>6. F.out \in Seq(Messages)
  <2>1. CASE kind = "session"
    <3>1. F.out = <<>>
      BY <1>3, <2>1 DEF Does
    <3> HIDE DEF F
    <3> QED
      BY <3>1
  <2>2. CASE kind = "401"
    <3>1. F.out = <<a>>
      BY <1>3, <2>2 DEF Does
    <3> HIDE DEF F
    <3> QED
      BY <1>1, <3>1
  <2>3. CASE kind = "429"
    <3>1. F.out = <<b>>
      BY <1>3, <2>3 DEF Does
    <3> HIDE DEF F
    <3> QED
      BY <1>1, <3>1
  <2>4. CASE kind = "event"
    <3>1. F.out = <<d>> /\ F.n = 1
      BY <1>3, <2>4 DEF Does
    <3> HIDE DEF F
    <3> QED
      BY <1>2, <3>1
  <2>5. CASE kind = "batch"
    <3>1. F.out = <<d, e>> /\ F.n = 2
      BY <1>3, <2>5 DEF Does
    <3> HIDE DEF F
    <3> QED
      BY <1>2, <3>1
  <2> QED
    BY <2>1, <2>2, <2>3, <2>4, <2>5
<1> QED
  BY <1>4, <1>5, <1>6

\* What is put is a message.
LEMMA PutType ==
    ASSUME NEW out \in Seq(Messages), evtQ \in Seq(Messages), Put(out)
    PROVE  evtQ' \in Seq(Messages)
<1> HIDE DEF Messages
<1> QED
  BY DEF Put

\* The head of a queue and what is left.
LEMMA TakeType ==
    ASSUME NEW S, NEW q \in Seq(S), q # <<>>
    PROVE  Head(q) \in S /\ Tail(q) \in Seq(S)
OBVIOUS

\* The queues after a start, and after one or more puts.
LEMMA FillType ==
    ASSUME NEW S
    PROVE  /\ <<>> \in Seq(S)
           /\ \A m \in S : <<m>> \in Seq(S)
           /\ \A q, r \in Seq(S) : q \o r \in Seq(S)
           /\ \A q \in Seq(S), m \in S : Append(q, m) \in Seq(S)
OBVIOUS

\* The messages of the publisher and the last one.
LEMMA StatusType ==
    ASSUME NEW c \in Children
    PROVE  <<StatusMsg(c)>> \in Seq(Messages) /\ <<Terminal>> \in Seq(Messages)
           /\ Snapshot(c) \in BOOLEAN \X Conns
<1>1. StatusMsg(c) \in Messages /\ Terminal \in Messages
  BY ConnsType DEF StatusMsg, Terminal, Messages, Children
<1>2. Snapshot(c) \in BOOLEAN \X Conns
  BY DEF Snapshot, Children
<1> HIDE DEF Messages
<1>3. \A m \in Messages : <<m>> \in Seq(Messages)
  OBVIOUS
<1> QED
  BY <1>1, <1>2, <1>3

\* The bridge starts well typed.
LEMMA TypeStart == BridgeInit => TypeInv
<1> SUFFICES ASSUME BridgeInit PROVE TypeInv
  OBVIOUS
<1>1. child \in Children
  BY NewChildType DEF BridgeInit
<1>2. proxy \in Proxies /\ proxy.drain = "none"
  BY ConnsType, BridgeAssumption DEF BridgeInit, Proxies
<1>3. QueuesType
  BY DEF BridgeInit, QueuesType
<1>4. CountsType /\ got \in Seq(1..MaxEvents)
  BY ConnsType, BridgeAssumption DEF BridgeInit, CountsType, None
<1> QED
  BY <1>1, <1>2, <1>3, <1>4 DEF TypeInv

\* A fault within the bound.
LEMMA FaultType == ASSUME CountsType, Fault PROVE faults' \in 0..MaxFaults
BY BridgeAssumption DEF CountsType, Fault

\* The steps of the child that handle a frame.
LEMMA TypeFrames ==
    ASSUME TypeInv, Authenticate \/ Listen
    PROVE  TypeInv'
<1> DEFINE Kinds == {"session", "401", "429", "event", "batch"}
<1>1. child \in Children /\ sent \in 0..MaxEvents /\ evtQ \in Seq(Messages) /\ CountsType
  BY DEF TypeInv, QueuesType, CountsType
<1>2. UNCHANGED <<cmdQ, proxy, api, got, unhides, opened>>
  BY DEF Authenticate, Listen, childOnly
<1>3. faults' \in 0..MaxFaults
  BY <1>1, FaultType DEF Authenticate, Listen, CountsType
<1>4. ASSUME NEW kind \in Kinds, Put(Frame(child, kind).out), sent' = sent + Frame(child, kind).n,
             sent + Frame(child, kind).n <= MaxEvents
      PROVE  /\ evtQ' \in Seq(Messages) /\ sent' \in 0..MaxEvents
             /\ Frame(child, kind).c \in Children
  <2>1. /\ Frame(child, kind).c \in Children
        /\ Frame(child, kind).out \in Seq(Messages)
        /\ Frame(child, kind).n \in 0..2
    BY <1>1, <1>4, FrameType
  <2>2. evtQ' \in Seq(Messages)
    BY <1>1, <1>4, <2>1, PutType
  <2>3. sent' \in 0..MaxEvents
    BY <1>1, <1>4, <2>1, BridgeAssumption
  <2> QED
    BY <2>1, <2>2, <2>3
<1>5. CASE Authenticate
  <2>1. PICK kind \in {"session", "401", "429", "event"} :
          LET f == Frame(child, kind) IN
          /\ kind = "event" => sent < MaxEvents
          /\ Put(f.out)
          /\ sent' = sent + f.n
          /\ child' = IF f.c.session = None
                      THEN [f.c EXCEPT !.connected = FALSE, !.phase = "top"]
                      ELSE [Pinging(f.c) EXCEPT !.attempts = 0, !.phase = "listen"]
    BY <1>5 DEF Authenticate
  <2>2. sent + Frame(child, kind).n <= MaxEvents
    BY <1>1, <2>1, FrameIs, BridgeAssumption DEF Does
  <2>3. /\ evtQ' \in Seq(Messages) /\ sent' \in 0..MaxEvents
        /\ Frame(child, kind).c \in Children
    BY <1>4, <2>1, <2>2
  <2>4. \A c \in Children : /\ [c EXCEPT !.connected = FALSE, !.phase = "top"] \in Children
                            /\ [c EXCEPT !.attempts = 0, !.phase = "listen"] \in Children
    <3>1. 0 \in 0..MaxReconnects
      BY BridgeAssumption
    <3> QED
      BY <3>1 DEF Children
  <2>5. child' \in Children
    BY <2>1, <2>3, <2>4, ChildSteps
  <2> QED
    BY <1>1, <1>2, <1>3, <2>3, <2>5 DEF TypeInv, QueuesType, CountsType
<1>6. CASE Listen
  <2>1. \A c \in Children : /\ [c EXCEPT !.connected = FALSE, !.phase = "lost"] \in Children
                            /\ [c EXCEPT !.phase = "lost"] \in Children
                            /\ [c EXCEPT !.phase = "listen"] \in Children
    BY DEF Children
  <2>2. CASE \E kind \in {"401", "429", "event", "batch"} :
               LET f == Frame(child, kind) IN
               /\ kind \in {"401", "429"} \/ sent + f.n <= MaxEvents
               /\ Put(f.out)
               /\ sent' = sent + f.n
               /\ child' = [f.c EXCEPT !.phase = IF f.c.connected THEN "listen" ELSE "lost"]
    <3>1. PICK kind \in {"401", "429", "event", "batch"} :
               LET f == Frame(child, kind) IN
               /\ kind \in {"401", "429"} \/ sent + f.n <= MaxEvents
               /\ Put(f.out)
               /\ sent' = sent + f.n
               /\ child' = [f.c EXCEPT !.phase = IF f.c.connected THEN "listen" ELSE "lost"]
      BY <2>2
    <3>2. sent + Frame(child, kind).n <= MaxEvents
      BY <1>1, <3>1, FrameIs, BridgeAssumption DEF Does
    <3>3. /\ evtQ' \in Seq(Messages) /\ sent' \in 0..MaxEvents
          /\ Frame(child, kind).c \in Children
      BY <1>4, <3>1, <3>2
    <3>4. child' \in Children
      BY <2>1, <3>1, <3>3
    <3> QED
      BY <1>1, <1>2, <1>3, <3>3, <3>4 DEF TypeInv, QueuesType, CountsType
  <2>3. CASE /\ child' = [child EXCEPT !.connected = FALSE, !.phase = "lost"]
                \/ child' = [child EXCEPT !.phase = "lost"]
             /\ UNCHANGED <<evtQ, sent>>
    <3>1. child' \in Children
      BY <1>1, <2>1, <2>3
    <3> QED
      BY <1>1, <1>2, <1>3, <2>3, <3>1 DEF TypeInv, QueuesType, CountsType
  <2> QED
    BY <1>6, <2>2, <2>3 DEF Listen
<1> QED
  BY <1>5, <1>6

\* The other steps of the child.
LEMMA TypeChild ==
    ASSUME TypeInv,
           \/ Maintain \/ Open \/ AuthenticateDrops \/ Lost \/ GiveUp \/ PingWake
           \/ PingSent \/ Publish \/ Command
    PROVE  TypeInv'
<1>1. child \in Children /\ CountsType /\ evtQ \in Seq(Messages)
  BY DEF TypeInv, QueuesType
<1>2. UNCHANGED <<proxy, api, got, unhides, sent>>
  BY DEF Maintain, Open, AuthenticateDrops, Lost, GiveUp, PingWake, PingSent, Publish,
         Command, childOnly
<1>3. faults' \in 0..MaxFaults
  BY <1>1, FaultType DEF CountsType, Maintain, Open, AuthenticateDrops, Lost, GiveUp,
         PingWake, PingSent, Publish, Command
<1>4. opened' \in Conns
  BY <1>1, ConnsType DEF CountsType, Maintain, Open, AuthenticateDrops, Lost, GiveUp,
         PingWake, PingSent, Publish, Command
<1>5. evtQ' \in Seq(Messages)
  <2>1. \/ evtQ' = evtQ
        \/ Put(<<Terminal>>) \/ Put(<<StatusMsg(child)>>)
    BY DEF Maintain, Open, AuthenticateDrops, Lost, GiveUp, PingWake, PingSent, Publish,
           Command
  <2>2. <<Terminal>> \in Seq(Messages) /\ <<StatusMsg(child)>> \in Seq(Messages)
    BY <1>1, StatusType
  <2> HIDE DEF Messages
  <2> QED
    BY <1>1, <2>1, <2>2, PutType
<1>6. cmdQ' \in Seq({"stop", "cookies"})
  <2>1. CASE Command
    BY <2>1, TakeType DEF Command, TypeInv, QueuesType
  <2>2. CASE ~Command
    BY <2>2 DEF Maintain, Open, AuthenticateDrops, Lost, GiveUp, PingWake, PingSent,
                Publish, childOnly, TypeInv, QueuesType
  <2> QED
    BY <2>1, <2>2
<1>7. child' \in Children
  <2>1. CASE Maintain
    <3>1. child.attempts \in 0..MaxReconnects
      BY <1>1 DEF Children
    <3>2. child.attempts < MaxReconnects => child.attempts + 1 \in 0..MaxReconnects
      BY <3>1, BridgeAssumption
    <3>3. \/ child' = [child EXCEPT !.phase = "done"]
          \/ /\ child' = [child EXCEPT !.attempts = @ + 1, !.phase = "opening"]
             /\ child.attempts < MaxReconnects
      BY <2>1, <3>1, BridgeAssumption DEF Maintain
    <3> QED
      BY <1>1, <3>2, <3>3 DEF Children
  <2>2. CASE Open
    <3>1. \/ opened + 1 \in Conns
             /\ child' = [child EXCEPT !.conn = opened + 1, !.connected = TRUE, !.phase = "auth"]
          \/ child' = [child EXCEPT !.connected = FALSE, !.phase = "top"]
      BY <1>1, <2>2, ConnsType DEF Open, CountsType
    <3> QED
      BY <1>1, <3>1 DEF Children
  <2>3. CASE AuthenticateDrops \/ GiveUp \/ Command
    BY <1>1, <2>3 DEF AuthenticateDrops, GiveUp, Command, Children
  <2>4. CASE PingWake
    BY <1>1, <2>4 DEF PingWake, Children
  <2>5. CASE PingSent
    BY <1>1, <2>5 DEF PingSent, Children
  <2>6. CASE Lost
    <3>1. Disconnected(child) \in Children /\ child' = [Disconnected(child) EXCEPT !.phase = "top"]
      BY <1>1, <2>6, ChildSteps DEF Lost
    <3> QED
      BY <3>1 DEF Children
  <2>7. CASE Publish
    <3>1. Snapshot(child) \in BOOLEAN \X Conns
          /\ child' = [child EXCEPT !.shown = Snapshot(child)]
      BY <1>1, <2>7, StatusType DEF Publish
    <3> HIDE DEF Conns
    <3> QED
      BY <1>1, <3>1 DEF Children
  <2> QED
    BY <2>1, <2>2, <2>3, <2>4, <2>5, <2>6, <2>7
<1> QED
  BY <1>2, <1>3, <1>4, <1>5, <1>6, <1>7 DEF TypeInv, QueuesType, CountsType

\* A message of the event queue, by kind.
LEMMA MessageParts ==
    ASSUME NEW m \in Messages
    PROVE  /\ m.kind = "event" => m.n \in 1..MaxEvents
           /\ m.kind = "status" => m.up \in BOOLEAN /\ m.session \in Conns
BY DEF Messages

\* The steps of the parent.
LEMMA TypeParent == ASSUME TypeInv, ParentNext PROVE TypeInv'
<1>1. proxy \in Proxies /\ child \in Children /\ CountsType
      /\ evtQ \in Seq(Messages) /\ cmdQ \in Seq({"stop", "cookies"})
  BY DEF TypeInv, QueuesType
<1>2. UNCHANGED <<opened, faults, sent>>
  BY DEF ParentNext, GetActiveSession, SessionReady, Drain, Handled, Unhide, Close, Joined,
         StopAsked, serverSide
<1>3. api' \in {"none", "ok", "null"} /\ unhides' \in 0..MaxRestarts
  BY <1>1, BridgeAssumption DEF ParentNext, GetActiveSession, SessionReady, Drain, Handled,
         Unhide, Close, Joined, StopAsked, CountsType
<1>4. child' \in Children
  <2>1. \A c \in Children : [c EXCEPT !.life = "ended", !.ping = "none"] \in Children
    BY DEF Children
  <2> QED
    BY <1>1, <2>1, NewChildType DEF ParentNext, GetActiveSession, Started, SessionReady, Drain,
         Handled, Unhide, Close, Joined, StopAsked
<1>5. evtQ' \in Seq(Messages)
  <2>1. CASE Drain
    <3> HIDE DEF Messages
    <3> QED
      BY <1>1, <2>1, TakeType DEF Drain
  <2>2. CASE ~Drain
    <3>1. evtQ' = evtQ \/ evtQ' = <<>>
      BY <2>2 DEF ParentNext, GetActiveSession, Started, SessionReady, Handled, Unhide, Close,
                  Joined, StopAsked
    <3> HIDE DEF Messages
    <3> QED
      BY <1>1, <3>1, FillType
  <2> QED
    BY <2>1, <2>2
<1>6. cmdQ' \in Seq({"stop", "cookies"})
  <2> DEFINE Commands == {"stop", "cookies"}
  <2>1. cmdQ \in Seq(Commands) /\ "stop" \in Commands /\ "cookies" \in Commands
    BY <1>1
  <2> HIDE DEF Commands
  <2>2. CASE Drain
    <3>1. cmdQ' = cmdQ \/ cmdQ' = cmdQ \o <<"cookies">> \/ cmdQ' = cmdQ \o <<>>
      BY <2>2 DEF Drain, CookiePush
    <3>2. <<>> \in Seq(Commands) /\ <<"cookies">> \in Seq(Commands)
      BY <2>1, FillType
    <3>3. cmdQ' \in Seq(Commands)
      BY <2>1, <3>1, <3>2, FillType
    <3> QED
      BY <3>3 DEF Commands
  <2>3. CASE ~Drain
    <3>1. cmdQ' = cmdQ \/ cmdQ' = <<>> \/ cmdQ' = Append(cmdQ, "stop")
      BY <2>3 DEF ParentNext, GetActiveSession, Started, SessionReady, Handled, Unhide, Close,
                  Joined, StopAsked
    <3>2. cmdQ' \in Seq(Commands)
      BY <2>1, <3>1, FillType
    <3> QED
      BY <3>2 DEF Commands
  <2> QED
    BY <2>2, <2>3
<1>7. proxy' \in Proxies /\ (proxy'.drain = "handling" => proxy'.item # 0)
  <2>0. 0 \in 0..MaxEvents
    BY BridgeAssumption
  <2>1. CASE Drain
    <3>1. Head(evtQ) \in Messages
      <4> HIDE DEF Messages
      <4> QED
        BY <1>1, <2>1, TakeType DEF Drain
    <3> DEFINE m == Head(evtQ)
    <3>2. CASE m.kind = "event"
      <4>1. m.n \in 1..MaxEvents /\ m.n \in 0..MaxEvents /\ m.n # 0
        BY <3>1, <3>2, MessageParts, BridgeAssumption
      <4>2. proxy' = [proxy EXCEPT !.drain = "handling", !.item = m.n]
        BY <2>1, <3>2 DEF Drain
      <4> HIDE DEF m
      <4> QED
        BY <1>1, <4>1, <4>2 DEF Proxies
    <3>3. CASE m.kind = "status"
      <4>1. m.up \in BOOLEAN /\ m.session \in Conns
        BY <3>1, <3>3, MessageParts
      <4>2. proxy' = [proxy EXCEPT !.up = m.up, !.session = m.session]
        BY <2>1, <3>3 DEF Drain, Mirrored
      <4>3. proxy.drain = "read"
        BY <2>1 DEF Drain
      <4> HIDE DEF m
      <4> QED
        BY <1>1, <4>1, <4>2, <4>3 DEF Proxies
    <3>4. CASE m.kind \notin {"event", "status"}
      BY <1>1, <2>1, <3>4 DEF Drain, TypeInv
    <3> QED
      BY <3>2, <3>3, <3>4
  <2>2. CASE GetActiveSession
    BY <1>1, <2>0, <2>2 DEF GetActiveSession, Started, Proxies
  <2>3. CASE SessionReady
    BY <1>1, <2>3 DEF SessionReady, TypeInv, Proxies
  <2>4. CASE Handled
    BY <1>1, <2>0, <2>4 DEF Handled, Proxies
  <2>5. CASE Unhide \/ Close
    <3>1. \/ proxy' = proxy
          \/ proxy' = [proxy EXCEPT !.drain = "none", !.item = 0, !.use = "restarting"]
          \/ proxy' = [proxy EXCEPT !.drain = "none", !.item = 0, !.use = "closing"]
      BY <2>5 DEF Unhide, Close, StopAsked
    <3> QED
      BY <1>1, <2>0, <3>1 DEF TypeInv, Proxies
  <2>6. CASE Joined
    <3>1. \/ proxy' = [proxy EXCEPT !.up = FALSE, !.drain = "read", !.use = "ready"]
          \/ proxy' = [proxy EXCEPT !.proc = FALSE, !.up = FALSE, !.use = "closed"]
      BY <2>6 DEF Joined
    <3> QED
      BY <1>1, <3>1 DEF TypeInv, Proxies
  <2> QED
    BY <2>1, <2>2, <2>3, <2>4, <2>5, <2>6 DEF ParentNext
<1>8. got' \in Seq(1..MaxEvents)
  <2>1. CASE Handled
    <3>1. proxy.item \in 1..MaxEvents
      BY <1>1, <2>1, BridgeAssumption DEF Handled, TypeInv, Proxies
    <3>2. got \in Seq(1..MaxEvents) /\ (got' = got \/ got' = Append(got, proxy.item))
      BY <2>1 DEF Handled, TypeInv
    <3>3. Append(got, proxy.item) \in Seq(1..MaxEvents)
      BY <3>1, <3>2
    <3> QED
      BY <3>2, <3>3
  <2>2. CASE ~Handled
    BY <2>2 DEF ParentNext, GetActiveSession, SessionReady, Drain, Unhide, Close, Joined,
                StopAsked, TypeInv
  <2> QED
    BY <2>1, <2>2
<1> QED
  BY <1>1, <1>2, <1>3, <1>4, <1>5, <1>6, <1>7, <1>8 DEF TypeInv, QueuesType, CountsType

\* Every step of the bridge preserves the types.
LEMMA TypeStep == TypeInv /\ [BridgeNext]_bridgeVars => TypeInv'
<1> SUFFICES ASSUME TypeInv, [BridgeNext]_bridgeVars PROVE TypeInv'
  OBVIOUS
<1>1. CASE ChildNext
  BY <1>1, TypeFrames, TypeChild DEF ChildNext
<1>2. CASE ParentNext
  BY <1>2, TypeParent
<1>3. CASE UNCHANGED bridgeVars
  BY <1>3 DEF bridgeVars, TypeInv, QueuesType, CountsType
<1> QED
  BY <1>1, <1>2, <1>3 DEF BridgeNext

\* The types hold throughout.
LEMMA TypeHolds == BridgeSpec => []TypeInv
  BY TypeStart, TypeStep, PTL DEF BridgeSpec

\* Every variable of the bridge keeps its type, and so do the messages.
THEOREM BridgeTypeCorrect == BridgeSpec => []BridgeTypeOK
BY TypeHolds, TypeParts, PTL

-----------------------------------------------------------------------------
(* The order of the events.                                                *)

\* The events among the messages of q: their numbers rise, and are above b or
\* at most t.
Rising(q) == \A i, j \in 1..Len(q) :
                i < j /\ q[i].kind = "event" /\ q[j].kind = "event" => q[i].n < q[j].n
Above(q, b) == \A i \in 1..Len(q) : q[i].kind = "event" => b < q[i].n
AtMost(q, t) == \A i \in 1..Len(q) : q[i].kind = "event" => q[i].n <= t

\* What the handler has finished, what it has in hand, and what waits rise in
\* this order, up to the last event the server has sent.
OrderInv ==
    /\ InOrderOnce
    /\ \A i \in 1..Len(got) : /\ got[i] <= sent /\ Above(evtQ, got[i])
                              /\ proxy.drain = "handling" => got[i] < proxy.item
    /\ proxy.drain = "handling" => proxy.item <= sent /\ Above(evtQ, proxy.item)
    /\ Rising(evtQ) /\ AtMost(evtQ, sent)

\* Messages put behind others whose events they exceed.
LEMMA PutOrder ==
    ASSUME NEW q \in Seq(Messages), NEW r \in Seq(Messages), NEW s \in Nat, NEW t \in Nat,
           s <= t, Rising(q), AtMost(q, s), Rising(r), Above(r, s), AtMost(r, t)
    PROVE  /\ Rising(q \o r) /\ AtMost(q \o r, t)
           /\ \A b \in Nat : b <= s /\ Above(q, b) => Above(q \o r, b)
<1> DEFINE Z == q \o r
<1>0. Len(q) \in Nat /\ Len(r) \in Nat /\ Len(Z) = Len(q) + Len(r)
  OBVIOUS
<1>1. ASSUME NEW i \in 1..Len(Z), Z[i].kind = "event"
      PROVE  /\ Z[i].n \in Nat
             /\ \/ i <= Len(q) /\ i \in 1..Len(q) /\ Z[i] = q[i]
                \/ i > Len(q) /\ (i - Len(q)) \in 1..Len(r) /\ Z[i] = r[i - Len(q)]
  <2>1. \/ i <= Len(q) /\ i \in 1..Len(q) /\ Z[i] = q[i]
        \/ i > Len(q) /\ (i - Len(q)) \in 1..Len(r) /\ Z[i] = r[i - Len(q)]
    <3> HIDE DEF Messages
    <3> QED
      BY <1>0
  <2>2. Z[i] \in Messages
    <3> HIDE DEF Messages, Z
    <3> QED
      BY <2>1
  <2>3. Z[i].n \in 1..MaxEvents
    <3> HIDE DEF Z
    <3> QED
      BY <1>1, <2>2, MessageParts
  <2> QED
    BY <2>1, <2>3, BridgeAssumption
<1> HIDE DEF Z
<1>2. AtMost(Z, t)
  <2> SUFFICES ASSUME NEW i \in 1..Len(Z), Z[i].kind = "event" PROVE Z[i].n <= t
    BY DEF AtMost
  <2>1. CASE i <= Len(q)
    <3>1. Z[i].n <= s /\ Z[i].n \in Nat
      BY <1>0, <1>1, <2>1 DEF AtMost
    <3> QED
      BY <3>1
  <2>2. CASE ~(i <= Len(q))
    BY <1>0, <1>1, <2>2 DEF AtMost
  <2> QED
    BY <2>1, <2>2
<1>3. Rising(Z)
  <2> SUFFICES ASSUME NEW i \in 1..Len(Z), NEW j \in 1..Len(Z), i < j,
                      Z[i].kind = "event", Z[j].kind = "event"
               PROVE  Z[i].n < Z[j].n
    BY DEF Rising
  <2>1. CASE j <= Len(q)
    <3>1. i <= Len(q)
      BY <1>0, <2>1
    <3>2. i \in 1..Len(q) /\ Z[i] = q[i]
      BY <1>1, <1>0, <3>1
    <3>3. j \in 1..Len(q) /\ Z[j] = q[j]
      BY <1>1, <1>0, <2>1
    <3> QED
      BY <3>2, <3>3 DEF Rising
  <2>2. CASE i > Len(q)
    <3>1. j > Len(q) /\ i - Len(q) < j - Len(q)
      BY <1>0, <2>2
    <3>2. (i - Len(q)) \in 1..Len(r) /\ Z[i] = r[i - Len(q)]
      BY <1>1, <1>0, <2>2
    <3>3. (j - Len(q)) \in 1..Len(r) /\ Z[j] = r[j - Len(q)]
      BY <1>1, <1>0, <3>1
    <3> QED
      BY <3>1, <3>2, <3>3 DEF Rising
  <2>3. CASE i <= Len(q) /\ j > Len(q)
    <3>1. Z[i].n <= s /\ Z[i].n \in Nat
      <4>1. i \in 1..Len(q) /\ Z[i] = q[i] /\ Z[i].n \in Nat
        BY <1>1, <1>0, <2>3
      <4> QED
        BY <4>1 DEF AtMost
    <3>2. s < Z[j].n /\ Z[j].n \in Nat
      <4>1. (j - Len(q)) \in 1..Len(r) /\ Z[j] = r[j - Len(q)] /\ Z[j].n \in Nat
        BY <1>1, <1>0, <2>3
      <4> QED
        BY <4>1 DEF Above
    <3> QED
      BY <3>1, <3>2
  <2> QED
    BY <1>0, <2>1, <2>2, <2>3
<1>4. ASSUME NEW b \in Nat, b <= s, Above(q, b) PROVE Above(Z, b)
  <2> SUFFICES ASSUME NEW i \in 1..Len(Z), Z[i].kind = "event" PROVE b < Z[i].n
    BY DEF Above
  <2>1. CASE i <= Len(q)
    BY <1>0, <1>1, <1>4, <2>1 DEF Above
  <2>2. CASE ~(i <= Len(q))
    <3>1. s < Z[i].n /\ Z[i].n \in Nat
      BY <1>0, <1>1, <2>2 DEF Above
    <3> QED
      BY <1>4, <3>1
  <2> QED
    BY <2>1, <2>2
<1> QED
  BY <1>2, <1>3, <1>4 DEF Z

\* What is left when the head is taken.
LEMMA TakeOrder ==
    ASSUME NEW q \in Seq(Messages), q # <<>>, Rising(q)
    PROVE  /\ Rising(Tail(q))
           /\ \A b : Above(q, b) => Above(Tail(q), b)
           /\ \A t : AtMost(q, t) => AtMost(Tail(q), t)
           /\ Head(q).kind = "event" =>
                /\ Above(Tail(q), Head(q).n)
                /\ \A b : Above(q, b) => b < Head(q).n
                /\ \A t : AtMost(q, t) => Head(q).n <= t
<1> DEFINE Z == Tail(q)
<1>1. Len(q) \in Nat /\ Len(q) > 0 /\ Len(Z) = Len(q) - 1 /\ Head(q) = q[1] /\ 1 \in 1..Len(q)
  <2> HIDE DEF Messages
  <2> QED
    OBVIOUS
<1>2. \A i \in 1..Len(Z) : i + 1 \in 1..Len(q) /\ 1 < i + 1 /\ Z[i] = q[i + 1]
  <2> HIDE DEF Messages
  <2> QED
    BY <1>1
<1> HIDE DEF Z
<1>3. Rising(Z)
  <2> SUFFICES ASSUME NEW i \in 1..Len(Z), NEW j \in 1..Len(Z), i < j,
                      Z[i].kind = "event", Z[j].kind = "event"
               PROVE  Z[i].n < Z[j].n
    BY DEF Rising
  <2>1. i + 1 < j + 1
    BY <1>1
  <2> QED
    BY <1>2, <2>1 DEF Rising
<1>4. \A b : Above(q, b) => Above(Z, b)
  BY <1>2 DEF Above
<1>5. \A t : AtMost(q, t) => AtMost(Z, t)
  BY <1>2 DEF AtMost
<1>6. q[1].kind = "event" => Above(Z, q[1].n)
  BY <1>1, <1>2 DEF Above, Rising
<1>7. q[1].kind = "event" => /\ \A b : Above(q, b) => b < q[1].n
                            /\ \A t : AtMost(q, t) => q[1].n <= t
  BY <1>1 DEF Above, AtMost
<1> QED
  BY <1>1, <1>3, <1>4, <1>5, <1>6, <1>7 DEF Z

\* One message.
LEMMA OneMessage ==
    ASSUME NEW m, NEW s, NEW t, m.kind = "event" => s < m.n /\ m.n <= t
    PROVE  Rising(<<m>>) /\ Above(<<m>>, s) /\ AtMost(<<m>>, t)
<1> DEFINE q == <<m>>
<1>1. \A i \in 1..Len(q) : i = 1 /\ q[i] = m
  OBVIOUS
<1> HIDE DEF q
<1>2. Above(q, s) /\ AtMost(q, t)
  BY <1>1 DEF Above, AtMost
<1>3. \A i, j \in 1..Len(q) : ~(i < j)
  BY <1>1
<1>4. Rising(q)
  BY <1>3 DEF Rising
<1> QED
  BY <1>2, <1>4 DEF q

\* The two events of a batch.
LEMMA TwoEvents ==
    ASSUME NEW d, NEW e, NEW s \in Nat, d.n = s + 1, e.n = s + 2
    PROVE  Rising(<<d, e>>) /\ Above(<<d, e>>, s) /\ AtMost(<<d, e>>, s + 2)
<1> DEFINE q == <<d, e>>
<1>1. \A i \in 1..Len(q) : (i = 1 /\ q[i] = d) \/ (i = 2 /\ q[i] = e)
  OBVIOUS
<1> HIDE DEF q
<1>2. \A i \in 1..Len(q) : q[i].n = s + i /\ i \in Nat /\ i > 0 /\ i <= 2
  BY <1>1
<1>3. Above(q, s) /\ AtMost(q, s + 2)
  BY <1>2 DEF Above, AtMost
<1>4. Rising(q)
  BY <1>2 DEF Rising
<1> QED
  BY <1>3, <1>4 DEF q

\* A frame carries the next events, in order.
LEMMA FrameOrder ==
    ASSUME NEW c, NEW kind \in {"session", "401", "429", "event", "batch"}, sent \in Nat
    PROVE  LET F == Frame(c, kind)
           IN  Rising(F.out) /\ Above(F.out, sent) /\ AtMost(F.out, sent + F.n)
<1> DEFINE a == [kind |-> "auth_error"]
           b == [kind |-> "rate_limit"]
           d == EventMsg(sent + 1)
           e == EventMsg(sent + 2)
           F == Frame(c, kind)
           Goal(q, t) == Rising(q) /\ Above(q, sent) /\ AtMost(q, t)
<1>1. /\ kind = "session" => Does(c, kind, Granted(c), <<>>, 0)
      /\ kind = "401" => Does(c, kind, Refused(c), <<a>>, 0)
      /\ kind = "429" => Does(c, kind, c, <<b>>, 0)
      /\ kind = "event" => Does(c, kind, c, <<d>>, 1)
      /\ kind = "batch" => Does(c, kind, c, <<d, e>>, 2)
  BY FrameIs, Zenon
<1>2. Goal(<<>>, sent + 0)
  BY DEF Rising, Above, AtMost
<1>3. Goal(<<a>>, sent + 0) /\ Goal(<<b>>, sent + 0)
  <2>1. a.kind # "event" /\ b.kind # "event"
    OBVIOUS
  <2> HIDE DEF a, b
  <2> QED
    BY <2>1, OneMessage
<1>4. d.n = sent + 1 /\ e.n = sent + 2
  BY DEF EventMsg
<1> HIDE DEF a, b, d, e
<1>5. Goal(<<d>>, sent + 1)
  <2>1. sent < d.n /\ d.n <= sent + 1
    BY <1>4
  <2> QED
    BY <2>1, OneMessage
<1>6. Goal(<<d, e>>, sent + 2)
  BY <1>4, TwoEvents
<1> HIDE DEF Goal
<1>7. Goal(F.out, sent + F.n)
  BY <1>1, <1>2, <1>3, <1>5, <1>6, Zenon DEF Does
<1> QED
  BY <1>7 DEF Goal

\* Putting messages whose events are new keeps the order.
LEMMA OrderPut ==
    ASSUME TypeInv, OrderInv, NEW r \in Seq(Messages), evtQ' = evtQ \o r,
           Rising(r), Above(r, sent), sent' \in Nat, sent <= sent', AtMost(r, sent'),
           UNCHANGED <<got, proxy>>
    PROVE  OrderInv'
<1>1. evtQ \in Seq(Messages) /\ sent \in Nat
  BY BridgeAssumption DEF TypeInv, QueuesType, CountsType
<1>2. Rising(evtQ') /\ AtMost(evtQ', sent')
      /\ \A b \in Nat : b <= sent /\ Above(evtQ, b) => Above(evtQ', b)
  BY <1>1, PutOrder DEF OrderInv
<1>3. \A i \in 1..Len(got) : got[i] \in Nat
  BY BridgeAssumption DEF TypeInv
<1>4. proxy.item \in Nat
  BY BridgeAssumption DEF TypeInv, Proxies
<1>5. \A i \in 1..Len(got) : got[i] <= sent' /\ Above(evtQ', got[i])
  BY <1>1, <1>2, <1>3 DEF OrderInv
<1>6. proxy.drain = "handling" => proxy.item <= sent' /\ Above(evtQ', proxy.item)
  BY <1>1, <1>2, <1>4 DEF OrderInv
<1> QED
  BY <1>2, <1>5, <1>6 DEF OrderInv, InOrderOnce

\* Steps that put and take nothing, or empty the queue, keep it too, as long as
\* they put nothing new into the hand.
LEMMA OrderKept ==
    ASSUME OrderInv, evtQ' = evtQ \/ evtQ' = <<>>, UNCHANGED <<got, sent>>,
           proxy'.drain = "handling" => proxy.drain = "handling" /\ proxy'.item = proxy.item
    PROVE  OrderInv'
<1>1. \A b : Above(evtQ, b) => Above(evtQ', b)
  BY DEF Above
<1>2. Rising(evtQ') /\ AtMost(evtQ', sent')
  BY DEF OrderInv, Rising, AtMost
<1> QED
  BY <1>1, <1>2 DEF OrderInv, InOrderOnce

\* Every step keeps the order.
LEMMA OrderStep ==
    ASSUME TypeInv, OrderInv, [BridgeNext]_bridgeVars
    PROVE  OrderInv'
<1>1. evtQ \in Seq(Messages) /\ sent \in Nat /\ child \in Children
  BY BridgeAssumption DEF TypeInv, QueuesType, CountsType
<1>2. ASSUME NEW kind \in {"session", "401", "429", "event", "batch"},
             Put(Frame(child, kind).out), sent' = sent + Frame(child, kind).n,
             sent + Frame(child, kind).n <= MaxEvents, UNCHANGED <<got, proxy>>
      PROVE  OrderInv'
  <2> DEFINE F == Frame(child, kind)
  <2>1. F.out \in Seq(Messages) /\ F.n \in 0..2
    BY <1>1, <1>2, FrameType DEF TypeInv, CountsType
  <2>2. Rising(F.out) /\ Above(F.out, sent) /\ AtMost(F.out, sent + F.n)
    BY <1>1, FrameOrder
  <2>3. evtQ' = evtQ \o F.out /\ sent' = sent + F.n
    BY <1>2 DEF Put
  <2> HIDE DEF F
  <2>4. sent' \in Nat /\ sent <= sent'
    BY <1>1, <2>1, <2>3
  <2> QED
    BY <1>2, <2>1, <2>2, <2>3, <2>4, OrderPut
<1>3. CASE Authenticate
  <2>1. UNCHANGED <<got, proxy>>
    BY <1>3 DEF Authenticate, childOnly
  <2>2. PICK k \in {"session", "401", "429", "event"} :
          /\ k = "event" => sent < MaxEvents
          /\ Put(Frame(child, k).out) /\ sent' = sent + Frame(child, k).n
    BY <1>3 DEF Authenticate
  <2>3. sent + Frame(child, k).n <= MaxEvents
    BY <1>1, <2>2, FrameIs, BridgeAssumption DEF Does, TypeInv, CountsType
  <2> QED
    BY <1>2, <2>1, <2>2, <2>3
<1>4. CASE Listen
  <2>1. UNCHANGED <<got, proxy>>
    BY <1>4 DEF Listen, childOnly
  <2>2. CASE UNCHANGED <<evtQ, sent>>
    BY <2>1, <2>2, OrderKept
  <2>3. CASE \E k \in {"401", "429", "event", "batch"} :
               /\ k \in {"401", "429"} \/ sent + Frame(child, k).n <= MaxEvents
               /\ Put(Frame(child, k).out) /\ sent' = sent + Frame(child, k).n
    <3>1. PICK k \in {"401", "429", "event", "batch"} :
               /\ k \in {"401", "429"} \/ sent + Frame(child, k).n <= MaxEvents
               /\ Put(Frame(child, k).out) /\ sent' = sent + Frame(child, k).n
      BY <2>3
    <3>2. sent + Frame(child, k).n <= MaxEvents
      BY <1>1, <3>1, FrameIs, BridgeAssumption DEF Does, TypeInv, CountsType
    <3> QED
      BY <1>2, <2>1, <3>1, <3>2
  <2> QED
    BY <1>4, <2>2, <2>3 DEF Listen
<1>5. CASE GiveUp \/ Publish
  <2>1. UNCHANGED <<got, proxy, sent>>
    BY <1>5 DEF GiveUp, Publish, childOnly
  <2> DEFINE u == Terminal
             v == StatusMsg(child)
  <2>2. evtQ' = evtQ \o <<u>> \/ evtQ' = evtQ \o <<v>>
    BY <1>5 DEF GiveUp, Publish, Put
  <2>3. <<u>> \in Seq(Messages) /\ <<v>> \in Seq(Messages)
    BY <1>1, StatusType
  <2>4. u.kind = "status" /\ v.kind = "status"
    BY DEF Terminal, StatusMsg
  <2> HIDE DEF u, v
  <2>5. \A m : m.kind = "status" => Rising(<<m>>) /\ Above(<<m>>, sent) /\ AtMost(<<m>>, sent)
    BY OneMessage
  <2>6. PICK r \in Seq(Messages) :
          evtQ' = evtQ \o r /\ Rising(r) /\ Above(r, sent) /\ AtMost(r, sent)
    BY <2>2, <2>3, <2>4, <2>5
  <2>7. sent' \in Nat /\ sent <= sent' /\ AtMost(r, sent')
    BY <1>1, <2>1, <2>6
  <2> QED
    BY <2>1, <2>6, <2>7, OrderPut
<1>6. CASE \/ Maintain \/ Open \/ AuthenticateDrops \/ Lost \/ PingWake \/ PingSent
           \/ Command \/ UNCHANGED bridgeVars
  <2>1. UNCHANGED <<evtQ, got, sent, proxy>>
    BY <1>6 DEF Maintain, Open, AuthenticateDrops, Lost, PingWake, PingSent, Command,
                childOnly, bridgeVars
  <2> QED
    BY <2>1, OrderKept
<1>7. CASE GetActiveSession \/ SessionReady \/ Unhide \/ Close \/ Joined
  <2>1. (evtQ' = evtQ \/ evtQ' = <<>>) /\ UNCHANGED <<got, sent>>
    BY <1>7 DEF GetActiveSession, Started, SessionReady, Unhide, Close, StopAsked, Joined,
                serverSide
  <2>2. proxy'.drain = "handling" => proxy.drain = "handling" /\ proxy'.item = proxy.item
    BY <1>7 DEF GetActiveSession, Started, SessionReady, Unhide, Close, StopAsked, Joined,
                TypeInv, Proxies
  <2> QED
    BY <2>1, <2>2, OrderKept
<1>8. CASE Drain
  <2> DEFINE m == Head(evtQ)
  <2>1. evtQ # <<>> /\ evtQ' = Tail(evtQ) /\ UNCHANGED <<got, sent>>
        /\ proxy.drain = "read"
    BY <1>8 DEF Drain, serverSide
  <2>2. /\ Rising(evtQ') /\ AtMost(evtQ', sent)
        /\ \A b : Above(evtQ, b) => Above(evtQ', b)
        /\ m.kind = "event" => /\ Above(evtQ', m.n) /\ m.n <= sent
                               /\ \A b : Above(evtQ, b) => b < m.n
    BY <1>1, <2>1, TakeOrder DEF OrderInv
  <2>3. CASE m.kind = "event"
    <3>1. proxy' = [proxy EXCEPT !.drain = "handling", !.item = m.n]
      BY <1>8, <2>3 DEF Drain
    <3>2. proxy'.drain = "handling" /\ proxy'.item = m.n
      BY <3>1 DEF TypeInv, Proxies
    <3> HIDE DEF m
    <3> QED
      BY <2>1, <2>2, <2>3, <3>2 DEF OrderInv, InOrderOnce
  <2>4. CASE m.kind # "event"
    <3>1. proxy' = proxy \/ proxy' = Mirrored(proxy, m)
      BY <1>8, <2>4 DEF Drain
    <3>2. proxy'.drain = "read"
      BY <2>1, <3>1 DEF Mirrored, TypeInv, Proxies
    <3> QED
      BY <2>1, <2>2, <3>2 DEF OrderInv, InOrderOnce
  <2> QED
    BY <2>3, <2>4
<1>9. CASE Handled
  <2>1. UNCHANGED <<evtQ, sent>> /\ proxy.drain = "handling"
    BY <1>9 DEF Handled, serverSide
  <2>2. proxy'.drain # "handling"
    BY <1>9 DEF Handled, TypeInv, Proxies
  <2>3. CASE got' = got
    BY <2>1, <2>2, <2>3, OrderKept
  <2>4. CASE got' = Append(got, proxy.item)
    <3>1. got \in Seq(Nat) /\ proxy.item \in Nat
      BY BridgeAssumption DEF TypeInv, Proxies
    <3>2. Len(got') = Len(got) + 1 /\ Len(got) \in Nat
      BY <2>4, <3>1
    <3>3. \A i \in 1..Len(got') : \/ i \in 1..Len(got) /\ got'[i] = got[i]
                                  \/ i = Len(got) + 1 /\ got'[i] = proxy.item
      BY <2>4, <3>1, <3>2
    <3>4. \A i \in 1..Len(got') : got'[i] <= sent' /\ Above(evtQ', got'[i])
      BY <2>1, <3>3 DEF OrderInv
    <3>5. \A i, j \in 1..Len(got') : i < j => got'[i] < got'[j]
      <4> SUFFICES ASSUME NEW i \in 1..Len(got'), NEW j \in 1..Len(got'), i < j
                   PROVE  got'[i] < got'[j]
        OBVIOUS
      <4>1. i \in 1..Len(got) /\ got'[i] = got[i]
        BY <3>2, <3>3
      <4>2. CASE j \in 1..Len(got) /\ got'[j] = got[j]
        BY <3>1, <4>1, <4>2 DEF OrderInv, InOrderOnce
      <4>3. CASE got'[j] = proxy.item
        BY <2>1, <4>1, <4>3 DEF OrderInv
      <4> QED
        BY <3>3, <4>2, <4>3
    <3>6. InOrderOnce'
      <4>1. got' \in Seq(Nat)
        BY <2>4, <3>1
      <4> QED
        BY <3>5, <4>1 DEF InOrderOnce
    <3> QED
      BY <2>1, <2>2, <3>4, <3>6 DEF OrderInv
  <2> QED
    BY <1>9, <2>3, <2>4 DEF Handled
<1> QED
  BY <1>3, <1>4, <1>5, <1>6, <1>7, <1>8, <1>9 DEF BridgeNext, ChildNext, ParentNext

\* The handler sees the events of the service in order and none twice, across
\* reconnects, batches and restarts of the subprocess.
THEOREM OrderCorrect == BridgeSpec => []InOrderOnce
<1>1. BridgeInit => OrderInv
  BY BridgeAssumption DEF BridgeInit, OrderInv, InOrderOnce, Rising, AtMost
<1>2. OrderInv => InOrderOnce
  BY DEF OrderInv
<1> QED
  BY <1>1, <1>2, OrderStep, TypeHolds, PTL DEF BridgeSpec

-----------------------------------------------------------------------------
(* The ping worker.                                                        *)

\* A frame leaves the ping worker alone, or the connection is given up.
LEMMA FramePings ==
    ASSUME NEW c \in Children, NEW kind \in {"401", "429", "event", "batch"}
    PROVE  Frame(c, kind).c = c \/ ~Frame(c, kind).c.connected
<1>1. ~Refused(c).connected
  BY DEF Refused, Disconnected, Children
<1> QED
  BY <1>1, FrameIs DEF Does

\* While the child listens on a connection it believes in, a ping worker watches
\* it, one started with this connection.
THEOREM PingsCorrect == BridgeSpec => []PingWatches
<1>1. BridgeInit => PingWatches
  BY DEF BridgeInit, PingWatches, Running, NewChild
<1>2. TypeInv /\ PingWatches /\ [BridgeNext]_bridgeVars => PingWatches'
  <2> SUFFICES ASSUME TypeInv, PingWatches, [BridgeNext]_bridgeVars,
                      child'.life = "run", child'.phase = "listen", child'.connected
               PROVE  child'.ping \in {"sleep", "sending"}
    BY DEF PingWatches, Running
  <2>1. child \in Children
    BY DEF TypeInv
  <2>2. CASE child' = child
    BY <2>2 DEF PingWatches, Running
  <2>3. CASE Authenticate
    <3>1. PICK k \in {"session", "401", "429", "event"} :
            LET f == Frame(child, k) IN
            child' = IF f.c.session = None
                    THEN [f.c EXCEPT !.connected = FALSE, !.phase = "top"]
                    ELSE [Pinging(f.c) EXCEPT !.attempts = 0, !.phase = "listen"]
      BY <2>3 DEF Authenticate
    <3>2. Frame(child, k).c \in Children
      BY <2>1, <3>1, ChildSteps, FrameIs DEF Does
    <3>3. \A c \in Children : [c EXCEPT !.connected = FALSE, !.phase = "top"].phase = "top"
      BY DEF Children
    <3>4. \A c \in Children :
            [Pinging(c) EXCEPT !.attempts = 0, !.phase = "listen"].ping \in {"sleep", "sending"}
      BY DEF Pinging, Children
    <3> QED
      BY <3>1, <3>2, <3>3, <3>4
  <2>4. CASE Listen
    <3>1. CASE child' = [child EXCEPT !.connected = FALSE, !.phase = "lost"]
               \/ child' = [child EXCEPT !.phase = "lost"]
      BY <2>1, <3>1 DEF Children
    <3>2. CASE \E k \in {"401", "429", "event", "batch"} :
                 LET f == Frame(child, k) IN
                 child' = [f.c EXCEPT !.phase = IF f.c.connected THEN "listen" ELSE "lost"]
      <4>1. PICK k \in {"401", "429", "event", "batch"} :
                 LET f == Frame(child, k) IN
                 child' = [f.c EXCEPT !.phase = IF f.c.connected THEN "listen" ELSE "lost"]
        BY <3>2
      <4> DEFINE d == Frame(child, k).c
      <4>2. child' = [d EXCEPT !.phase = IF d.connected THEN "listen" ELSE "lost"]
        BY <4>1
      <4>3. d \in Children /\ (d = child \/ ~d.connected)
        BY <2>1, ChildSteps, FrameIs, FramePings DEF Does
      <4> HIDE DEF d
      <4>4. d.connected /\ child'.ping = d.ping
        BY <4>2, <4>3 DEF Children
      <4>5. child.life = "run" /\ child.phase = "listen"
        BY <2>4 DEF Listen, Running
      <4> QED
        BY <4>3, <4>4, <4>5 DEF PingWatches, Running
    <3> QED
      BY <2>4, <3>1, <3>2 DEF Listen
  <2>5. CASE PingWake \/ PingSent \/ Publish
    <3>1. child.life = "run" /\ child.phase = "listen"
      BY <2>1, <2>5 DEF PingWake, PingSent, Publish, Running, Children
    <3>2. \/ child'.ping \in {"sleep", "sending"}
          \/ child'.ping = child.ping /\ child'.connected = child.connected
      BY <2>1, <2>5 DEF PingWake, PingSent, Publish, Children
    <3> QED
      BY <3>1, <3>2 DEF PingWatches, Running
  <2>6. CASE Maintain \/ Open \/ AuthenticateDrops \/ GiveUp \/ Command
    <3>1. \/ child' = child
          \/ child'.life = "ended" \/ child'.phase # "listen"
      BY <2>1, <2>6 DEF Maintain, Open, AuthenticateDrops, GiveUp, Command, Children
    <3> QED
      BY <2>2, <3>1
  <2>7. CASE Lost
    <3>1. Disconnected(child) \in Children
      BY <2>1, ChildSteps
    <3> QED
      BY <2>7, <3>1 DEF Lost, Children
  <2>8. CASE ParentNext
    <3>1. child' = child \/ child' = NewChild
          \/ child' = [child EXCEPT !.life = "ended", !.ping = "none"]
      BY <2>8 DEF ParentNext, GetActiveSession, Started, SessionReady, Drain, Handled, Unhide,
                  Close, StopAsked, Joined
    <3>2. child' = NewChild => child'.phase # "listen"
      BY DEF NewChild
    <3>3. child' = [child EXCEPT !.life = "ended", !.ping = "none"] => child'.life # "run"
      BY <2>1 DEF Children
    <3> QED
      BY <2>2, <3>1, <3>2, <3>3
  <2> QED
    BY <2>2, <2>3, <2>4, <2>5, <2>6, <2>7, <2>8 DEF BridgeNext, ChildNext, bridgeVars
<1> QED
  BY <1>1, <1>2, TypeHolds, PTL DEF BridgeSpec

HIDE BridgeAssumption
USE LimiterAssumption

-----------------------------------------------------------------------------
(* The numbers.                                                            *)

\* The lower and the higher of two integers.
LEMMA Extremes ==
    ASSUME NEW a \in Int, NEW b \in Int
    PROVE  /\ Lower(a, b) = IF a <= b THEN a ELSE b
           /\ Higher(a, b) = IF a >= b THEN a ELSE b
<1>1. Lower(a, b) = IF a <= b THEN a ELSE b
  BY DEF Lower, Min
<1>2. Higher(a, b) = IF a >= b THEN a ELSE b
  BY DEF Higher, Max
<1> QED
  BY <1>1, <1>2

\* What is left of a sequence without its head.
LEMMA TailType ==
    ASSUME NEW S, NEW s \in Seq(S), s # <<>>
    PROVE  Tail(s) \in Seq(S)
OBVIOUS

\* Counting a request, or a 429 out of band.
LEMMA CountType ==
    ASSUME NEW k \in [sent : Nat, oob : Nat]
    PROVE  /\ k.sent \in Nat
           /\ [k EXCEPT !.sent = @ + 1] \in [sent : Nat, oob : Nat]
           /\ [k EXCEPT !.sent = @ + 1].sent = k.sent + 1
           /\ [k EXCEPT !.oob = @ + 1] \in [sent : Nat, oob : Nat]
           /\ [k EXCEPT !.oob = @ + 1].sent = k.sent
OBVIOUS

\* The learned floor is a length of time below its cap, whatever was recorded.
LEMMA FloorType ==
    ASSUME NEW f \in Nat, NEW outs \in Seq(BOOLEAN), NEW v
    PROVE  /\ MinimumFloor(f, outs, v) \in Nat
           /\ f <= FloorCap => MinimumFloor(f, outs, v) <= FloorCap
<1> DEFINE Bad == {i \in DOMAIN outs : ~outs[i]}
           n == Len(outs)
           bad == Cardinality(Bad)
           share == (bad * FloorGain * Factor) \div n
<1>1. n \in Nat /\ IsFiniteSet(DOMAIN outs)
  BY FS_Interval
<1>2. bad \in Nat
  BY <1>1, FS_Subset, FS_CardinalityType
<1>3. n >= MinHistory => share \in Nat
  <2>1. bad * FloorGain * Factor \in Nat
    BY <1>2
  <2>2. ASSUME NEW x \in Nat, NEW d \in Nat \ {0} PROVE x \div d \in Nat
    OBVIOUS
  <2> QED
    BY <1>1, <2>1, <2>2
<1> HIDE DEF share, bad, n, Bad
<1> DEFINE steep == Lower(FloorCap, 1 + share)
<1>4. n >= MinHistory => steep \in Nat /\ steep <= FloorCap
  BY <1>3, Extremes
<1> HIDE DEF steep
<1>5. n >= MinHistory => /\ Higher(f, steep) \in Nat
                         /\ f <= FloorCap => Higher(f, steep) <= FloorCap
  BY <1>4, Extremes
<1>6. f > 0 => /\ Higher(1, f - 1) \in Nat /\ f - 1 \in Nat
               /\ Higher(1, f - 1) <= f /\ f - 1 <= f
  BY Extremes
<1>7. MinimumFloor(f, outs, v) =
        CASE n < MinHistory -> f
          [] n >= MinHistory /\ bad > 0 -> Higher(f, steep)
          [] n >= MinHistory /\ bad = 0 /\ n = Window /\ f > 0 ->
                 IF v THEN Higher(1, f - 1) ELSE f - 1
          [] OTHER -> f
  BY DEF MinimumFloor, steep, share, bad, n, Bad
<1>8. \/ MinimumFloor(f, outs, v) = f
      \/ n >= MinHistory /\ MinimumFloor(f, outs, v) = Higher(f, steep)
      \/ f > 0 /\ MinimumFloor(f, outs, v) \in {Higher(1, f - 1), f - 1}
  BY <1>1, <1>2, <1>7
<1> QED
  BY <1>5, <1>6, <1>8

-----------------------------------------------------------------------------
(* The inductive invariant.                                                *)

\* The clock, the bucket, the window and the floor are counted in whole units,
\* and the bucket never holds more than the burst.
Numbers ==
    /\ now \in Nat /\ tokens \in Nat /\ lastRefill \in Nat
    /\ backoff \in Nat /\ shutUntil \in Nat /\ floor \in Nat
    /\ outcomes \in Seq(BOOLEAN)
    /\ count \in [sent : Nat, oob : Nat]
    /\ tokens <= Burst

\* Until the window of the last 429 has passed the bucket is empty, and it is
\* not refilled before the window ends: the time of the last refill stands at
\* or after that end.
Closed ==
    /\ tokens >= 1 => shutUntil <= now
    /\ shutUntil <= lastRefill \/ shutUntil <= now

LimiterInv == Numbers /\ TokensEarned /\ Closed

\* The limiter starts with a full bucket and no window.
LEMMA LimiterStart == LimiterInit => LimiterInv
  BY Extremes DEF LimiterInit, LimiterInv, Numbers, TokensEarned, Closed

\* A refill adds at most the time that passed, and none before the window ends.
LEMMA RefillStep ==
    ASSUME LimiterInv
    PROVE  /\ Refilled.tokens \in Nat /\ Refilled.tokens <= Burst
           /\ Refilled.at \in Nat
           /\ count.sent + Refilled.tokens <= Burst + Lower(now, Refilled.at) - 1
           /\ Refilled.tokens >= 1 => shutUntil <= now
           /\ shutUntil <= Refilled.at \/ shutUntil <= now
<1> USE DEF LimiterInv, Numbers, Closed, TokensEarned
<1>1. CASE now > lastRefill
  <2>1. Refilled = [tokens |-> Lower(Burst, tokens + (now - lastRefill)), at |-> now]
    BY <1>1 DEF Refilled
  <2>2. Lower(Burst, tokens + (now - lastRefill)) =
          IF Burst <= tokens + (now - lastRefill) THEN Burst
          ELSE tokens + (now - lastRefill)
    BY Extremes
  <2>3. Lower(now, now) = now /\ Lower(now, lastRefill) = lastRefill
    BY <1>1, Extremes
  <2> QED
    BY <1>1, <2>1, <2>2, <2>3
<1>2. CASE ~(now > lastRefill)
  BY <1>2 DEF Refilled
<1> QED
  BY <1>1, <1>2

\* A recorded response preserves the invariant: a 429 empties the bucket and
\* closes it, a success can bring the refill forward only with the window.
LEMMA RecordStep ==
    ASSUME LimiterInv, NEW status \in Statuses, Record(status), now' = now,
           count' \in [sent : Nat, oob : Nat], count'.sent = count.sent
    PROVE  LimiterInv'
<1> DEFINE all == Append(outcomes, status \in {"ok", "client"})
           outs == IF Len(all) > Window THEN Tail(all) ELSE all
<1>1. outs \in Seq(BOOLEAN)
  <2>1. all \in Seq(BOOLEAN) /\ all # <<>>
    BY DEF LimiterInv, Numbers
  <2> HIDE DEF all
  <2> QED
    BY <2>1, TailType
<1>2. outcomes' = outs
  BY DEF Record
<1>3. CASE Violated
  <2>1. PICK grown \in Lengths : /\ backoff' = grown /\ tokens' = 0
                                 /\ lastRefill' = now + grown
                                 /\ shutUntil' = now + grown /\ floor' = floor
    BY <1>3 DEF Violated
  <2>2. grown \in Nat
    BY DEF Lengths
  <2>3. Lower(now, lastRefill) <= now /\ Lower(now, now + grown) = now
    BY <2>2, Extremes DEF LimiterInv, Numbers
  <2>4. Lower(now, lastRefill) \in Int
    BY Extremes DEF LimiterInv, Numbers
  <2> QED
    BY <1>1, <1>2, <2>1, <2>2, <2>3, <2>4
    DEF LimiterInv, Numbers, TokensEarned, Closed
<1>4. CASE Eased(outs)
  <2> DEFINE least == MinimumFloor(floor, outs, violations)
             smaller == Higher(least, backoff \div Factor)
             end == now + (IF least <= 0 THEN 0 ELSE smaller)
  <2>1. least \in Nat
    BY <1>1, FloorType DEF LimiterInv, Numbers
  <2>2. backoff \div Factor \in Nat
    BY DEF LimiterInv, Numbers
  <2> HIDE DEF least
  <2>3. smaller \in Nat
    BY <2>1, <2>2, Extremes
  <2> HIDE DEF smaller
  <2>4. end \in Nat /\ end >= now
    BY <2>1, <2>3 DEF LimiterInv, Numbers
  <2>5. /\ UNCHANGED tokens
        /\ \/ UNCHANGED <<backoff, floor, lastRefill, shutUntil>>
           \/ /\ floor' = least
              /\ backoff' = IF least <= 0 THEN 0 ELSE smaller
              /\ lastRefill' = Lower(lastRefill, end)
              /\ shutUntil' = Lower(shutUntil, end)
    BY <1>4 DEF Eased, least, smaller
  <2> HIDE DEF end
  <2>6. CASE UNCHANGED <<backoff, floor, lastRefill, shutUntil>>
    BY <1>1, <1>2, <2>5, <2>6 DEF LimiterInv, Numbers, TokensEarned, Closed
  <2>7. CASE /\ floor' = least
             /\ backoff' = IF least <= 0 THEN 0 ELSE smaller
             /\ lastRefill' = Lower(lastRefill, end)
             /\ shutUntil' = Lower(shutUntil, end)
    <3>1. /\ lastRefill' = IF lastRefill <= end THEN lastRefill ELSE end
          /\ shutUntil' = IF shutUntil <= end THEN shutUntil ELSE end
      BY <2>4, <2>7, Extremes DEF LimiterInv, Numbers
    <3>2. lastRefill' \in Nat /\ shutUntil' \in Nat
      BY <2>4, <3>1 DEF LimiterInv, Numbers
    <3>3. Lower(now, lastRefill') = Lower(now, lastRefill)
      BY <2>4, <3>1, <3>2, Extremes DEF LimiterInv, Numbers
    <3>4. backoff' \in Nat /\ floor' \in Nat
      BY <2>1, <2>3, <2>7
    <3>5. Numbers'
      BY <1>1, <1>2, <2>5, <3>2, <3>4 DEF LimiterInv, Numbers
    <3>6. TokensEarned'
      BY <2>5, <3>3 DEF LimiterInv, TokensEarned
    <3>7. Closed'
      BY <2>4, <2>5, <3>1 DEF LimiterInv, Numbers, Closed
    <3> QED
      BY <3>5, <3>6, <3>7 DEF LimiterInv
  <2> QED
    BY <2>5, <2>6, <2>7
<1>5. CASE UNCHANGED <<violations, badRun, goodRun, floor, bucket, window, nextAllowed>>
  BY <1>1, <1>2, <1>5
  DEF LimiterInv, Numbers, TokensEarned, Closed, bucket, window
<1> QED
  BY <1>3, <1>4, <1>5 DEF Record

\* Every step preserves the invariant.
LEMMA LimiterStep == LimiterInv /\ [LimiterNext]_limiterVars => LimiterInv'
<1> SUFFICES ASSUME LimiterInv, [LimiterNext]_limiterVars PROVE LimiterInv'
  OBVIOUS
<1> USE DEF LimiterInv
<1>1. ASSUME NEW c \in Callers, Begin(c) \/ Woken(c) \/ OuterRetry(c)
      PROVE  LimiterInv'
  BY <1>1 DEF Begin, Woken, OuterRetry, Numbers, TokensEarned, Closed,
              bucket, window, learned
<1>2. ASSUME NEW c \in Callers, Reserve(c) PROVE LimiterInv'
  <2>1. floor' = MinimumFloor(floor, outcomes, violations)
    BY <1>2 DEF Reserve
  <2>2. floor' \in Nat
    BY <2>1, FloorType DEF Numbers
  <2>3. UNCHANGED <<now, tokens, lastRefill, backoff, shutUntil, outcomes, count>>
    BY <1>2 DEF Reserve, bucket, window
  <2> QED
    BY <2>2, <2>3 DEF Numbers, TokensEarned, Closed
<1>3. ASSUME NEW c \in Callers, TakeToken(c) PROVE LimiterInv'
  <2>1. lastRefill' = Refilled.at
    BY <1>3 DEF TakeToken
  <2>2. UNCHANGED <<now, backoff, shutUntil, floor, outcomes>>
    BY <1>3 DEF TakeToken, window, learned
  <2>3. /\ tokens' \in Nat /\ tokens' <= Refilled.tokens
        /\ count' \in [sent : Nat, oob : Nat]
        /\ count'.sent + tokens' = count.sent + Refilled.tokens
    <3>1. CASE Refilled.tokens >= 1
      <4>1. tokens' = Refilled.tokens - 1 /\ count' = [count EXCEPT !.sent = @ + 1]
        BY <1>3, <3>1 DEF TakeToken
      <4>2. tokens' \in Nat /\ tokens' <= Refilled.tokens
        BY <3>1, <4>1, RefillStep
      <4>3. count \in [sent : Nat, oob : Nat]
        BY DEF Numbers
      <4>4. /\ count' \in [sent : Nat, oob : Nat]
            /\ count.sent \in Nat /\ count'.sent = count.sent + 1
        BY <4>1, <4>3, CountType
      <4>5. count'.sent + tokens' = count.sent + Refilled.tokens
        BY <4>1, <4>4, RefillStep
      <4> QED
        BY <4>2, <4>4, <4>5
    <3>2. CASE ~(Refilled.tokens >= 1)
      <4>1. tokens' = Refilled.tokens /\ count' = count
        BY <1>3, <3>2 DEF TakeToken
      <4> QED
        BY <4>1, RefillStep DEF Numbers
    <3> QED
      BY <3>1, <3>2
  <2>4. Numbers'
    <3>1. tokens' <= Burst
      BY <2>3, RefillStep
    <3>2. lastRefill' \in Nat
      BY <2>1, RefillStep
    <3> QED
      BY <2>2, <2>3, <3>1, <3>2 DEF Numbers
  <2>5. TokensEarned'
    <3>1. Lower(now, Refilled.at) \in Int
      BY RefillStep, Extremes DEF Numbers
    <3> QED
      BY <2>1, <2>2, <2>3, <3>1, RefillStep DEF TokensEarned
  <2>6. Closed'
    BY <2>1, <2>2, <2>3, RefillStep DEF Numbers, Closed
  <2> QED
    BY <2>4, <2>5, <2>6
<1>4. ASSUME NEW c \in Callers, Respond(c) PROVE LimiterInv'
  <2>1. PICK status \in Statuses : Record(status)
    BY <1>4 DEF Respond
  <2>2. now' = now /\ count' = count
    BY <1>4 DEF Respond
  <2> QED
    BY <2>1, <2>2, RecordStep DEF Numbers
<1>5. CASE OutOfBand
  <2>1. Record("429") /\ now' = now
    BY <1>5 DEF OutOfBand
  <2>2. count' = [count EXCEPT !.oob = @ + 1]
    BY <1>5 DEF OutOfBand
  <2>3. count' \in [sent : Nat, oob : Nat] /\ count'.sent = count.sent
    BY <2>2, CountType DEF Numbers
  <2> QED
    BY <2>1, <2>3, RecordStep DEF Statuses
<1>6. CASE Tick
  <2>1. now' = now + 1 /\ UNCHANGED <<tokens, lastRefill, backoff, shutUntil,
                                      floor, outcomes, count>>
    BY <1>6 DEF Tick, bucket, window, learned
  <2>2. /\ Lower(now, lastRefill) \in Int /\ Lower(now', lastRefill') \in Int
        /\ Lower(now, lastRefill) <= Lower(now', lastRefill')
    BY <2>1, Extremes DEF Numbers
  <2> QED
    BY <2>1, <2>2 DEF Numbers, TokensEarned, Closed
<1>7. CASE UNCHANGED limiterVars
  BY <1>7 DEF limiterVars, bucket, window, learned, Numbers, TokensEarned, Closed
<1> QED
  BY <1>1, <1>2, <1>3, <1>4, <1>5, <1>6, <1>7 DEF LimiterNext

\* The invariant holds throughout.
LEMMA LimiterAlways == LimiterSpec => []LimiterInv
  BY LimiterStart, LimiterStep, PTL DEF LimiterSpec

-----------------------------------------------------------------------------
(* The types of the limiter.                                               *)

\* A window of outcomes is a sequence no longer than the window.
LEMMA WindowOf ==
    ASSUME NEW s
    PROVE  s \in SeqOf(BOOLEAN, Window) <=> s \in Seq(BOOLEAN) /\ Len(s) <= Window
<1>1. ASSUME s \in SeqOf(BOOLEAN, Window)
      PROVE  s \in Seq(BOOLEAN) /\ Len(s) <= Window
  <2>1. PICK m \in 0..Window : s \in [1..m -> BOOLEAN]
    BY <1>1 DEF SeqOf
  <2> QED
    BY <2>1
<1>2. ASSUME s \in Seq(BOOLEAN), Len(s) <= Window
      PROVE  s \in SeqOf(BOOLEAN, Window)
  <2>1. Len(s) \in 0..Window /\ s \in [1..Len(s) -> BOOLEAN]
    BY <1>2
  <2> QED
    BY <2>1 DEF SeqOf
<1> QED
  BY <1>1, <1>2

\* The newest outcome pushes the oldest out of a full window.
LEMMA WindowSlides ==
    ASSUME NEW s \in SeqOf(BOOLEAN, Window), NEW b \in BOOLEAN, NEW w,
           w = IF Len(Append(s, b)) > Window THEN Tail(Append(s, b)) ELSE Append(s, b)
    PROVE  w \in SeqOf(BOOLEAN, Window)
<1>1. s \in Seq(BOOLEAN) /\ Len(s) <= Window
  BY WindowOf
<1>2. /\ Append(s, b) \in Seq(BOOLEAN) /\ Append(s, b) # <<>>
      /\ Len(Append(s, b)) = Len(s) + 1
  BY <1>1
<1> DEFINE all == Append(s, b)
<1>3. Tail(all) \in Seq(BOOLEAN) /\ Len(Tail(all)) = Len(s)
  BY <1>1, <1>2, TailType
<1>4. w \in Seq(BOOLEAN) /\ Len(w) <= Window
  <2>1. w = IF Len(all) > Window THEN Tail(all) ELSE all
    OBVIOUS
  <2>2. all \in Seq(BOOLEAN) /\ Len(all) = Len(s) + 1 /\ Len(s) \in Nat
    BY <1>1, <1>2
  <2>3. CASE Len(all) > Window
    <3>1. w = Tail(all)
      BY <2>1, <2>3
    <3> QED
      BY <1>1, <1>3, <3>1
  <2>4. CASE ~(Len(all) > Window)
    <3>1. w = all
      BY <2>1, <2>4
    <3>2. ASSUME NEW x \in Seq(BOOLEAN), ~(Len(x) > Window) PROVE Len(x) <= Window
      <4>1. Len(x) \in Nat
        OBVIOUS
      <4> QED
        BY <3>2, <4>1
    <3> HIDE DEF all
    <3> QED
      BY <2>2, <2>4, <3>1, <3>2
  <2> QED
    BY <2>3, <2>4
<1> QED
  BY <1>4, WindowOf

\* A request of a caller: where it is, until when, and which try it is.
Calls == [at : {"idle", "reserve", "sleep", "token", "flight", "outer"},
          due : Nat, try : 0..MaxRetries]

\* A call that moves on to a place, for a time, and perhaps for another try.
LEMMA CallType ==
    ASSUME call \in [Callers -> Calls], NEW c \in Callers,
           NEW place \in {"idle", "reserve", "sleep", "token", "flight", "outer"},
           NEW due \in Nat
    PROVE  /\ At(c, place, due) => call' \in [Callers -> Calls]
           /\ call' = [call EXCEPT ![c] = [Idle EXCEPT !.at = place, !.due = due]] =>
                  call' \in [Callers -> Calls]
           /\ call' = [call EXCEPT ![c] = [Idle EXCEPT !.at = place]] =>
                  call' \in [Callers -> Calls]
           /\ call' = [call EXCEPT ![c] = Idle] => call' \in [Callers -> Calls]
           /\ (call[c].try < MaxRetries - 1
               /\ call' = [call EXCEPT ![c].at = place, ![c].try = @ + 1]) =>
                  call' \in [Callers -> Calls]
<1>1. call[c] \in Calls
  OBVIOUS
<1>2. /\ Idle \in Calls /\ [Idle EXCEPT !.at = place] \in Calls
      /\ [Idle EXCEPT !.at = place, !.due = due] \in Calls
  <2>1. 0 \in Nat /\ 0 \in 0..MaxRetries
    OBVIOUS
  <2> QED
    BY <2>1 DEF Calls, Idle
<1>3. ASSUME NEW k \in Calls
      PROVE  /\ [k EXCEPT !.at = place, !.due = due] \in Calls
             /\ k.try < MaxRetries - 1 => [k EXCEPT !.at = place, !.try = @ + 1] \in Calls
  <2>1. k.try < MaxRetries - 1 => k.try + 1 \in 0..MaxRetries
    BY DEF Calls
  <2> QED
    BY <2>1 DEF Calls
<1>4. ASSUME NEW k \in Calls, call' = [call EXCEPT ![c] = k]
      PROVE  call' \in [Callers -> Calls]
  BY <1>4
<1>5. At(c, place, due) => call' = [call EXCEPT ![c] = [call[c] EXCEPT !.at = place, !.due = due]]
  BY DEF At
<1>6. call' = [call EXCEPT ![c].at = place, ![c].try = @ + 1] =>
          call' = [call EXCEPT ![c] = [call[c] EXCEPT !.at = place, !.try = @ + 1]]
  OBVIOUS
<1> QED
  BY <1>1, <1>2, <1>3, <1>4, <1>5, <1>6

\* The types of what a response changes.
Recorded ==
    /\ tokens \in 0..Burst /\ lastRefill \in Nat
    /\ backoff \in 0..Higher(MaxBackoff, FloorCap) /\ lastBackoff \in 0..MaxTime
    /\ violations \in BOOLEAN /\ badRun \in Nat /\ goodRun \in 0..2
    /\ floor \in 0..FloorCap /\ outcomes \in SeqOf(BOOLEAN, Window)
    /\ nextAllowed \in Nat /\ shutUntil \in Nat

\* What a response that is recorded leaves are values of the same kinds.
LEMMA RecordTypes ==
    ASSUME Recorded, now \in 0..MaxTime, NEW status \in Statuses, Record(status)
    PROVE  Recorded'
<1> DEFINE all == Append(outcomes, status \in {"ok", "client"})
           outs == IF Len(all) > Window THEN Tail(all) ELSE all
           most == Higher(MaxBackoff, FloorCap)
<1>1. outs \in SeqOf(BOOLEAN, Window) /\ outs \in Seq(BOOLEAN)
  <2>1. outs \in SeqOf(BOOLEAN, Window)
    <3> DEFINE b == status \in {"ok", "client"}
    <3>1. b \in BOOLEAN
      OBVIOUS
    <3> HIDE DEF b
    <3> QED
      BY <3>1, WindowSlides DEF Recorded, b
  <2> HIDE DEF outs
  <2> QED
    BY <2>1, WindowOf
<1>2. outcomes' = outs
  BY DEF Record
<1>3. most \in Nat /\ MaxBackoff <= most /\ FloorCap <= most
  BY Extremes
<1> HIDE DEF outs, most
<1>4. CASE Violated
  <2>1. PICK grown \in Lengths : /\ violations' = TRUE /\ badRun' = badRun + 1
                                 /\ goodRun' = 0 /\ backoff' = grown
                                 /\ lastBackoff' = now /\ tokens' = 0
                                 /\ lastRefill' = now + grown
                                 /\ shutUntil' = now + grown
                                 /\ UNCHANGED <<floor, nextAllowed>>
    BY <1>4 DEF Violated
  <2>2. grown \in Nat /\ grown <= most
    BY <1>3 DEF Lengths
  <2>3. most' = most
    BY DEF most
  <2>4. /\ tokens' \in 0..Burst /\ lastRefill' \in Nat /\ lastBackoff' \in 0..MaxTime
        /\ backoff' \in 0..most' /\ violations' \in BOOLEAN /\ badRun' \in Nat
        /\ goodRun' \in 0..2 /\ floor' \in 0..FloorCap
        /\ nextAllowed' \in Nat /\ shutUntil' \in Nat
    BY <1>3, <2>1, <2>2, <2>3 DEF Recorded
  <2> QED
    BY <1>1, <1>2, <2>4 DEF Recorded, most
<1>5. CASE Eased(outs)
  <2> DEFINE least == MinimumFloor(floor, outs, violations)
             smaller == Higher(least, backoff \div Factor)
             end == now + (IF least <= 0 THEN 0 ELSE smaller)
  <2>1. least \in 0..FloorCap
    BY <1>1, FloorType DEF Recorded
  <2>2. backoff \in Nat /\ backoff <= most
    BY DEF Recorded, most
  <2>3. backoff \div Factor \in Nat /\ backoff \div Factor <= backoff
    BY <2>2
  <2> HIDE DEF least
  <2>4. smaller \in Nat /\ smaller <= most
    BY <1>3, <2>1, <2>2, <2>3, Extremes
  <2> HIDE DEF smaller
  <2>5. end \in Nat /\ now + smaller \in Nat
    BY <2>1, <2>4
  <2>6. /\ lastBackoff' = now /\ UNCHANGED <<violations, tokens>>
        /\ \/ /\ goodRun + 1 < 2 /\ goodRun' = goodRun + 1
              /\ UNCHANGED <<backoff, badRun, floor, nextAllowed, lastRefill, shutUntil>>
           \/ /\ goodRun' = 0 /\ floor' = least
              /\ backoff' = IF least <= 0 THEN 0 ELSE smaller
              /\ badRun' = IF least <= 0 THEN 0 ELSE Higher(0, badRun - 1)
              /\ nextAllowed' = Lower(nextAllowed, now + smaller)
              /\ lastRefill' = Lower(lastRefill, end)
              /\ shutUntil' = Lower(shutUntil, end)
    BY <1>5 DEF Eased, least, smaller
  <2> HIDE DEF end
  <2>7. Higher(0, badRun - 1) \in Nat
    BY Extremes DEF Recorded
  <2>8. /\ Lower(nextAllowed, now + smaller) \in Nat
        /\ Lower(lastRefill, end) \in Nat /\ Lower(shutUntil, end) \in Nat
    BY <2>5, Extremes DEF Recorded
  <2>9. most' = most
    BY DEF most
  <2>10. /\ tokens' \in 0..Burst /\ lastRefill' \in Nat /\ lastBackoff' \in 0..MaxTime
         /\ violations' \in BOOLEAN /\ badRun' \in Nat
         /\ goodRun' \in 0..2 /\ floor' \in 0..FloorCap
         /\ nextAllowed' \in Nat /\ shutUntil' \in Nat
    BY <2>1, <2>6, <2>7, <2>8 DEF Recorded
  <2>11. backoff' \in 0..most'
    BY <1>3, <2>1, <2>2, <2>4, <2>6, <2>9
  <2> QED
    BY <1>1, <1>2, <2>10, <2>11 DEF Recorded, most
<1>6. CASE UNCHANGED <<violations, badRun, goodRun, floor, bucket, window, nextAllowed>>
  BY <1>1, <1>2, <1>6 DEF Recorded, bucket, window
<1> QED
  BY <1>4, <1>5, <1>6 DEF Record, outs

\* The types that a response leaves alone.
Others ==
    /\ now \in 0..MaxTime /\ lastRequest \in 0..MaxTime
    /\ call \in [Callers -> Calls]
    /\ count \in [sent : 0..MaxRequests, oob : 0..MaxOutOfBand]

\* The types of the limiter in two parts: what a response changes, and the rest.
LEMMA LimiterTypeParts == LimiterTypeOK <=> Recorded /\ Others
  BY DEF LimiterTypeOK, Recorded, Others, Calls

\* The types hold at the start.
LEMMA LimiterTypeStart == LimiterInit => LimiterTypeOK
<1> SUFFICES ASSUME LimiterInit PROVE LimiterTypeOK
  OBVIOUS
<1> DEFINE empty == <<>>
<1>1. empty \in SeqOf(BOOLEAN, Window)
  <2>1. empty \in Seq(BOOLEAN) /\ Len(empty) <= Window
    OBVIOUS
  <2> HIDE DEF empty
  <2> QED
    BY <2>1, WindowOf, Zenon
<1>2. Higher(MaxBackoff, FloorCap) \in Nat
  BY Extremes
<1>3. Recorded
  <2>1. 0 \in 0..Higher(MaxBackoff, FloorCap) /\ 0 \in 0..FloorCap /\ 0 \in 0..MaxTime
    BY <1>2
  <2>2. outcomes \in SeqOf(BOOLEAN, Window)
    BY <1>1 DEF LimiterInit
  <2>3. /\ tokens \in 0..Burst /\ lastRefill \in Nat /\ badRun \in Nat /\ goodRun \in 0..2
        /\ nextAllowed \in Nat /\ shutUntil \in Nat
    BY DEF LimiterInit
  <2>4. violations \in BOOLEAN
    BY DEF LimiterInit
  <2>5. backoff = 0 /\ lastBackoff = 0 /\ floor = 0
    BY DEF LimiterInit
  <2> QED
    BY <2>1, <2>2, <2>3, <2>4, <2>5 DEF Recorded
<1>4. Others
  BY DEF LimiterInit, Others, Calls, Idle
<1> QED
  BY <1>3, <1>4, LimiterTypeParts

\* Every step keeps the types; what a refill gives is bounded by LimiterInv.
LEMMA LimiterTypeStep ==
    LimiterInv /\ LimiterTypeOK /\ [LimiterNext]_limiterVars => LimiterTypeOK'
<1> SUFFICES ASSUME LimiterInv, Recorded, Others, [LimiterNext]_limiterVars
             PROVE  Recorded' /\ Others'
  <2>1. LimiterTypeOK' <=> Recorded' /\ Others'
    BY DEF LimiterTypeOK, Recorded, Others, Calls
  <2> QED
    BY <2>1, LimiterTypeParts
<1> DEFINE most == Higher(MaxBackoff, FloorCap)
<1>1. UNCHANGED <<bucket, window, learned, nextAllowed>> => Recorded'
  BY DEF Recorded, bucket, window, learned
<1>2. ASSUME NEW c \in Callers, Begin(c) \/ Woken(c) \/ OuterRetry(c)
      PROVE  Recorded' /\ Others'
  <2>1. now \in Nat
    BY DEF Others
  <2>2. call' \in [Callers -> Calls]
    BY <1>2, <2>1, CallType DEF Begin, Woken, OuterRetry, Others
  <2>3. UNCHANGED <<now, bucket, window, learned, nextAllowed, lastRequest, count>>
    BY <1>2 DEF Begin, Woken, OuterRetry
  <2> QED
    BY <1>1, <2>2, <2>3 DEF Others
<1>3. ASSUME NEW c \in Callers, Reserve(c) PROVE Recorded' /\ Others'
  <2> DEFINE least == MinimumFloor(floor, outcomes, violations)
             over == IF InBackoff THEN lastBackoff + backoff ELSE 0
             base == Max({now, nextAllowed, over})
             target == IF least > 0 /\ lastRequest > 0
                       THEN Higher(base, lastRequest + least) ELSE base
  <2>1. outcomes \in Seq(BOOLEAN)
    BY WindowOf DEF Recorded
  <2>2. least \in 0..FloorCap
    BY <2>1, FloorType DEF Recorded
  <2>3. now \in Nat /\ nextAllowed \in Nat /\ lastRequest \in Nat
    BY DEF Recorded, Others
  <2>4. over \in Nat
    <3>1. backoff \in Nat /\ lastBackoff \in Nat
      BY DEF Recorded
    <3> QED
      BY <3>1
  <2> HIDE DEF least, over
  <2>5. base \in Nat
    <3>1. \E x \in {now, nextAllowed, over} : \A y \in {now, nextAllowed, over} : x >= y
      BY <2>3, <2>4
    <3>2. base \in {now, nextAllowed, over}
      BY <3>1 DEF Max
    <3> QED
      BY <2>3, <2>4, <3>2
  <2> HIDE DEF base
  <2>6. target \in Nat /\ Higher(least, 1) \in Nat
    BY <2>2, <2>3, <2>5, Extremes
  <2>7. /\ floor' = least /\ nextAllowed' = target + Higher(least, 1)
        /\ At(c, "sleep", target)
        /\ UNCHANGED <<now, bucket, window, violations, badRun, goodRun, outcomes,
                       lastRequest, count>>
    BY <1>3 DEF Reserve, least, over, base
  <2> HIDE DEF target
  <2>8. call' \in [Callers -> Calls]
    BY <2>6, <2>7, CallType DEF Others
  <2>9. nextAllowed' \in Nat
    BY <2>6, <2>7
  <2> QED
    BY <2>2, <2>7, <2>8, <2>9 DEF Recorded, Others, bucket, window
<1>4. ASSUME NEW c \in Callers, TakeToken(c) PROVE Recorded' /\ Others'
  <2>1. now \in Nat /\ now \in 0..MaxTime
    BY DEF Others
  <2>2. lastRefill' \in Nat
    BY <1>4, RefillStep DEF TakeToken
  <2>3. UNCHANGED <<now, window, learned, nextAllowed>>
    BY <1>4 DEF TakeToken
  <2>4. CASE Refilled.tokens >= 1
    <3>1. /\ count.sent < MaxRequests /\ tokens' = Refilled.tokens - 1
          /\ lastRequest' = now /\ count' = [count EXCEPT !.sent = @ + 1]
          /\ At(c, "flight", now)
      BY <1>4, <2>4 DEF TakeToken
    <3>2. tokens' \in 0..Burst
      BY <2>4, <3>1, RefillStep
    <3>3. count' \in [sent : 0..MaxRequests, oob : 0..MaxOutOfBand]
      BY <3>1 DEF Others
    <3>4. call' \in [Callers -> Calls]
      BY <2>1, <3>1, CallType DEF Others
    <3> QED
      BY <2>1, <2>2, <2>3, <3>1, <3>2, <3>3, <3>4
      DEF Recorded, Others, window, learned
  <2>5. CASE ~(Refilled.tokens >= 1)
    <3>1. /\ tokens' = Refilled.tokens /\ At(c, "token", now + 1)
          /\ UNCHANGED <<lastRequest, count>>
      BY <1>4, <2>5 DEF TakeToken
    <3>2. tokens' \in 0..Burst
      BY <3>1, RefillStep
    <3>3. now + 1 \in Nat
      BY <2>1
    <3>4. call' \in [Callers -> Calls]
      BY <3>1, <3>3, CallType DEF Others
    <3> QED
      BY <2>1, <2>2, <2>3, <3>1, <3>2, <3>4 DEF Recorded, Others, window, learned
  <2> QED
    BY <2>4, <2>5
<1>5. ASSUME NEW c \in Callers, Respond(c) PROVE Recorded' /\ Others'
  <2>1. PICK status \in Statuses :
           /\ Record(status)
           /\ IF status # "429" THEN call' = [call EXCEPT ![c] = Idle]
              ELSE IF call[c].try < MaxRetries - 1
              THEN call' = [call EXCEPT ![c].at = "reserve", ![c].try = @ + 1]
              ELSE call' = [call EXCEPT ![c] = [Idle EXCEPT !.at = "outer",
                                                            !.due = now + OuterDelay]]
    BY <1>5 DEF Respond
  <2>2. now + OuterDelay \in Nat
    BY DEF Others
  <2>3. call' \in [Callers -> Calls]
    <3>1. CASE status # "429"
      BY <2>1, <3>1, CallType DEF Others
    <3>2. CASE status = "429" /\ call[c].try < MaxRetries - 1
      BY <2>1, <3>2, CallType DEF Others
    <3>3. CASE status = "429" /\ ~(call[c].try < MaxRetries - 1)
      BY <2>1, <2>2, <3>3, CallType DEF Others
    <3> QED
      BY <3>1, <3>2, <3>3
  <2>4. UNCHANGED <<now, lastRequest, count>>
    BY <1>5 DEF Respond
  <2>5. Recorded'
    BY <2>1, RecordTypes DEF Others
  <2> QED
    BY <2>3, <2>4, <2>5 DEF Others
<1>6. CASE OutOfBand
  <2>1. Record("429") /\ UNCHANGED <<now, lastRequest, call>>
    BY <1>6 DEF OutOfBand
  <2>2. Recorded'
    BY <2>1, RecordTypes DEF Others, Statuses
  <2>3. count' \in [sent : 0..MaxRequests, oob : 0..MaxOutOfBand]
    BY <1>6 DEF OutOfBand, Others
  <2> QED
    BY <2>1, <2>2, <2>3 DEF Others
<1>7. CASE Tick
  <2>1. /\ now < MaxTime /\ now' = now + 1
        /\ UNCHANGED <<bucket, window, learned, nextAllowed, lastRequest, call, count>>
    BY <1>7 DEF Tick
  <2> QED
    BY <1>1, <2>1 DEF Others
<1>8. CASE UNCHANGED limiterVars
  BY <1>1, <1>8 DEF limiterVars, Others
<1> QED
  BY <1>2, <1>3, <1>4, <1>5, <1>6, <1>7, <1>8 DEF LimiterNext

-----------------------------------------------------------------------------
(* The theorems.                                                           *)

\* Every token in the bucket or spent was earned, so that by any time at most
\* the burst and one request per unit have been sent (_refill_tokens).
THEOREM BucketCorrect == LimiterSpec => []TokensEarned
<1>1. LimiterInv => TokensEarned
  BY DEF LimiterInv
<1> QED
  BY <1>1, LimiterAlways, PTL

\* No request leaves inside the window of the latest 429, however long before
\* it its slot was reserved (_reserve_slot, _apply_adaptive_backoff).
THEOREM WindowRespected == LimiterSpec => BackoffHonoured
<1>1. LimiterInv /\ [LimiterNext]_limiterVars =>
        [count'.sent > count.sent => now >= shutUntil]_limiterVars
  <2> SUFFICES ASSUME LimiterInv, LimiterNext, count'.sent > count.sent
               PROVE  now >= shutUntil
    OBVIOUS
  <2>1. count.sent \in Nat
    BY DEF LimiterInv, Numbers
  <2>2. ASSUME NEW c \in Callers, TakeToken(c) PROVE now >= shutUntil
    <3>1. Refilled.tokens >= 1
      BY <2>1, <2>2 DEF TakeToken
    <3> QED
      BY <3>1, RefillStep DEF LimiterInv, Numbers
  <2>3. ASSUME NEW c \in Callers,
               Begin(c) \/ Reserve(c) \/ Woken(c) \/ Respond(c) \/ OuterRetry(c)
        PROVE  count' = count
    BY <2>3 DEF Begin, Reserve, Woken, Respond, OuterRetry
  <2>4. OutOfBand => count'.sent = count.sent
    BY DEF OutOfBand, LimiterInv, Numbers
  <2>5. Tick => count' = count
    BY DEF Tick
  <2> QED
    BY <2>1, <2>2, <2>3, <2>4, <2>5 DEF LimiterNext
<1> QED
  BY <1>1, LimiterAlways, PTL DEF LimiterSpec, BackoffHonoured

-----------------------------------------------------------------------------
(* The two side by side.                                                   *)

\* Whichever of the two moves, both stay well typed: the clock, bucket, window
\* and calls of the limiter, and the child, proxies and messages of the bridge.
THEOREM ServiceTypeCorrect == Spec => []TypeOK
<1> DEFINE Inv == LimiterInv /\ LimiterTypeOK /\ TypeInv
<1>1. Init => Inv
  BY LimiterStart, LimiterTypeStart, TypeStart DEF Init
<1>2. Inv /\ [Next]_allVars => Inv'
  <2>1. [Next]_allVars => [LimiterNext]_limiterVars /\ [BridgeNext]_bridgeVars
    BY DEF Next, allVars
  <2> QED
    BY <2>1, LimiterStep, LimiterTypeStep, TypeStep
<1>3. Inv => TypeOK
  BY TypeParts DEF TypeOK
<1> QED
  BY <1>1, <1>2, <1>3, PTL DEF Spec
=============================================================================
