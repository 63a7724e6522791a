------------------------------ MODULE WsBridge ------------------------------
(***************************************************************************)
(* The WebSocket subprocess and the proxy in the main process              *)
(* (api/websocket.py), with their user, FanslyApi (api/fansly.py) and the  *)
(* daemon's restart after a hidden phase.                                  *)
(*                                                                         *)
(* The child runs four tasks on its own loop: the reconnecting connection, *)
(* the ping worker, the status publisher and the command consumer.  The    *)
(* parent drains the event queue with one task.  A step ends where the     *)
(* code awaits or reads a queue; delays are not modelled: a step that      *)
(* waits may come at any time.                                             *)
(***************************************************************************)
EXTENDS Integers, Sequences, SequencesExt

CONSTANTS
    MaxReconnects,  \* _max_reconnect_attempts
    HandlerMayRaise,\* may a registered handler raise
    MaxFaults,      \* bound: refusals, drops, rejections and ping timeouts
    MaxEvents,      \* bound: service events the server sends
    MaxQueue,       \* bound: messages waiting in the event queue
    MaxRestarts     \* bound: unhides

ASSUME BridgeAssumption ==
    /\ HandlerMayRaise \in BOOLEAN
    /\ {MaxReconnects, MaxFaults, MaxEvents, MaxQueue, MaxRestarts} \subseteq Nat

Conns == 0..(MaxFaults + MaxRestarts + 1)
None == 0

VARIABLES
    child,   \* the subprocess, a record
    evtQ,    \* child to parent
    cmdQ,    \* parent to child
    proxy,   \* FanslyWebSocket, a record
    api,     \* FanslyApi.session_id
    opened,  \* transports opened so far
    faults,  \* faults so far
    sent,    \* service events the server has sent
    got,     \* the events the registered handler has finished, in order
    unhides  \* restarts so far

bridgeVars == <<child, evtQ, cmdQ, proxy, api, opened, faults, sent, got, unhides>>

\* phase: where _maintain_connection is.  conn: the transport in
\* self.websocket.  session: the transport on which session_id was granted.
NewChild == [life |-> "run", phase |-> "top", conn |-> None,
             connected |-> FALSE, session |-> None, attempts |-> 0,
             ping |-> "none", shown |-> <<FALSE, None>>]

Snapshot(c) == <<c.connected, c.session>>
StatusMsg(c) == [kind |-> "status", up |-> c.connected, session |-> c.session]
Terminal == [kind |-> "status", up |-> FALSE, session |-> None]
EventMsg(n) == [kind |-> "event", n |-> n]

BridgeTypeOK ==
    /\ child \in [life : {"none", "run", "ended"},
                  phase : {"top", "opening", "auth", "listen", "lost", "done"},
                  conn : Conns, connected : BOOLEAN, session : Conns,
                  attempts : 0..MaxReconnects,
                  ping : {"none", "sleep", "sending", "exited"},
                  shown : BOOLEAN \X Conns]
    /\ \A i \in DOMAIN evtQ :
        evtQ[i].kind \in {"event", "status", "auth_error", "rate_limit"}
    /\ \A i \in DOMAIN cmdQ : cmdQ[i] \in {"stop", "cookies"}
    /\ proxy \in [proc : BOOLEAN, up : BOOLEAN, session : Conns,
                  drain : {"none", "read", "handling", "dead"},
                  item : 0..MaxEvents,
                  use : {"fresh", "waiting", "ready", "restarting", "closing",
                         "closed"}]
    /\ api \in {"none", "ok", "null"}
    /\ opened \in Conns /\ faults \in 0..MaxFaults /\ sent \in 0..MaxEvents
    /\ unhides \in 0..MaxRestarts
    /\ \A i \in DOMAIN got : got[i] \in 1..MaxEvents

BridgeInit ==
    /\ child = [NewChild EXCEPT !.life = "none"]
    /\ evtQ = <<>> /\ cmdQ = <<>>
    /\ proxy = [proc |-> FALSE, up |-> FALSE, session |-> None,
                drain |-> "none", item |-> 0, use |-> "fresh"]
    /\ api = "none"
    /\ opened = 0 /\ faults = 0 /\ sent = 0 /\ got = <<>> /\ unhides = 0

-----------------------------------------------------------------------------
(* The child: _maintain_connection, connect, _listen_loop, disconnect.     *)

Running == child.life = "run"
Fault == faults < MaxFaults /\ faults' = faults + 1
Put(msgs) == Len(evtQ \o msgs) <= MaxQueue /\ evtQ' = evtQ \o msgs
childOnly == <<cmdQ, proxy, api, got, unhides>>

\* disconnect: nothing unless connected, so after a lost connection neither
\* the transport nor the session is cleared.
Disconnected(c) ==
    IF c.connected /\ c.conn # None
    THEN [c EXCEPT !.connected = FALSE, !.conn = None, !.session = None,
                   !.ping = "none"]
    ELSE c

\* One turn of the loop: give up, or count an attempt and connect.
Maintain ==
    /\ Running /\ child.phase = "top" /\ ~child.connected
    /\ child' = IF child.attempts >= MaxReconnects
                THEN [child EXCEPT !.phase = "done"]
                ELSE [child EXCEPT !.attempts = @ + 1, !.phase = "opening"]
    /\ UNCHANGED <<childOnly, evtQ, opened, faults, sent>>

\* ws_connect: the transport is up before the session is.
Open ==
    /\ Running /\ child.phase = "opening"
    /\ \/ /\ opened < MaxFaults + MaxRestarts + 1
          /\ opened' = opened + 1
          /\ child' = [child EXCEPT !.conn = opened + 1, !.connected = TRUE,
                                    !.phase = "auth"]
          /\ UNCHANGED faults
       \/ /\ Fault
          /\ child' = [child EXCEPT !.connected = FALSE, !.phase = "top"]
          /\ UNCHANGED opened
    /\ UNCHANGED <<childOnly, evtQ, sent>>

\* _handle_auth_response, and _handle_error_event for a 401, which clears
\* `connected` first, so that the disconnect after it does nothing.
Granted(c) == [c EXCEPT !.session = c.conn]
Refused(c) == Disconnected([c EXCEPT !.connected = FALSE, !.session = None])

\* Faulty variant: a batch is unpacked from its end.
FrameReversed(c, kind) ==
    IF kind = "batch"
    THEN [c |-> c, out |-> <<EventMsg(sent + 2), EventMsg(sent + 1)>>, n |-> 2]
    ELSE IF kind = "event"
    THEN [c |-> c, out |-> <<EventMsg(sent + 1)>>, n |-> 1]
    ELSE [c |-> Granted(c), out |-> <<>>, n |-> 0]

\* What a frame of the server does to the child (_handle_message): r.c is the
\* child after it, r.out the messages put, r.n the service events it carries.
Frame(c, kind) ==
    CASE kind = "session" ->
            [c |-> Granted(c), out |-> <<>>, n |-> 0]
      [] kind = "401" ->
            [c |-> Refused(c), out |-> <<[kind |-> "auth_error"]>>, n |-> 0]
      [] kind = "429" ->
            [c |-> c, out |-> <<[kind |-> "rate_limit"]>>, n |-> 0]
      [] kind = "event" ->
            [c |-> c, out |-> <<EventMsg(sent + 1)>>, n |-> 1]
      [] kind = "batch" ->
            [c |-> c, out |-> <<EventMsg(sent + 1), EventMsg(sent + 2)>>, n |-> 2]

\* Faulty variant: the reference to a finished worker is not cleared.
PingingOnce(c) == IF c.ping = "none" THEN [c EXCEPT !.ping = "sleep"] ELSE c

\* _start_ping_loop: a finished worker is replaced, a living one is kept.
Pinging(c) ==
    IF c.ping \in {"none", "exited"} THEN [c EXCEPT !.ping = "sleep"] ELSE c

\* The first frame after the authentication message.  Whatever it is, a
\* session id lets connect succeed and resets the count of attempts.
Authenticate ==
    /\ Running /\ child.phase = "auth"
    /\ \E kind \in {"session", "401", "429", "event"} :
        LET f == Frame(child, kind) IN
        /\ IF kind = "session" THEN UNCHANGED faults
           ELSE IF kind = "event" THEN sent < MaxEvents /\ UNCHANGED faults
           ELSE Fault
        /\ Put(f.out)
        /\ sent' = sent + f.n
        /\ child' = IF f.c.session = None
                    THEN [f.c EXCEPT !.connected = FALSE, !.phase = "top"]
                    ELSE [Pinging(f.c) EXCEPT !.attempts = 0, !.phase = "listen"]
    /\ UNCHANGED <<childOnly, opened>>

\* The transport dies while connect waits for that frame.
AuthenticateDrops ==
    /\ Running /\ child.phase = "auth"
    /\ Fault
    /\ child' = [child EXCEPT !.connected = FALSE, !.phase = "top"]
    /\ UNCHANGED <<childOnly, evtQ, opened, sent>>

\* One turn of _listen_loop: a frame, the loss of the transport, or the
\* timeout after which `connected` is looked at again.
Listen ==
    /\ Running /\ child.phase = "listen"
    /\ \/ \E kind \in {"401", "429", "event", "batch"} :
            LET f == Frame(child, kind) IN
            /\ IF kind \in {"401", "429"} THEN Fault
               ELSE sent + f.n <= MaxEvents /\ UNCHANGED faults
            /\ Put(f.out)
            /\ sent' = sent + f.n
            /\ child' = [f.c EXCEPT !.phase = IF f.c.connected THEN "listen"
                                              ELSE "lost"]
       \/ /\ Fault
          /\ child' = [child EXCEPT !.connected = FALSE, !.phase = "lost"]
          /\ UNCHANGED <<evtQ, sent>>
       \/ /\ ~child.connected
          /\ child' = [child EXCEPT !.phase = "lost"]
          /\ UNCHANGED <<evtQ, faults, sent>>
    /\ UNCHANGED <<childOnly, opened>>

Lost ==
    /\ Running /\ child.phase = "lost"
    /\ child' = [Disconnected(child) EXCEPT !.phase = "top"]
    /\ UNCHANGED <<childOnly, evtQ, opened, faults, sent>>

\* Faulty variant: the child ends without a last word.
GiveUpSilently ==
    /\ Running /\ child.phase = "done"
    /\ child' = [child EXCEPT !.life = "ended", !.ping = "none"]
    /\ UNCHANGED <<childOnly, evtQ, opened, faults, sent>>

\* The supervisor sees _maintain_connection end, says so, and the process ends.
GiveUp ==
    /\ Running /\ child.phase = "done"
    /\ Put(<<Terminal>>)
    /\ child' = [child EXCEPT !.life = "ended", !.ping = "none"]
    /\ UNCHANGED <<childOnly, opened, faults, sent>>

\* The ping worker wakes: it leaves with the connection, resets it when the
\* answer to the last ping is late, or sends.
PingWake ==
    /\ Running /\ child.ping = "sleep"
    /\ \/ /\ child.connected
          /\ child' = [child EXCEPT !.ping = "sending"]
          /\ UNCHANGED faults
       \/ /\ child.connected /\ Fault
          /\ child' = [child EXCEPT !.connected = FALSE, !.ping = "exited"]
       \/ /\ ~child.connected
          /\ child' = [child EXCEPT !.ping = "exited"]
          /\ UNCHANGED faults
    /\ UNCHANGED <<childOnly, evtQ, opened, sent>>

\* The await of that send ends; by then the transport may be another one.
PingSent ==
    /\ Running /\ child.ping = "sending"
    /\ \/ /\ child' = [child EXCEPT !.ping = IF child.connected THEN "sleep"
                                             ELSE "exited"]
          /\ UNCHANGED faults
       \/ /\ Fault
          /\ child' = [child EXCEPT !.connected = FALSE, !.ping = "exited"]
    /\ UNCHANGED <<childOnly, evtQ, opened, sent>>

\* _status_publisher.
Publish ==
    /\ Running /\ Snapshot(child) # child.shown
    /\ Put(<<StatusMsg(child)>>)
    /\ child' = [child EXCEPT !.shown = Snapshot(child)]
    /\ UNCHANGED <<childOnly, opened, faults, sent>>

\* _command_consumer: on "stop" the supervisor cancels the tasks and closes.
Command ==
    /\ Running /\ cmdQ # <<>>
    /\ cmdQ' = Tail(cmdQ)
    /\ child' = IF Head(cmdQ) = "stop"
                THEN [child EXCEPT !.life = "ended", !.ping = "none"]
                ELSE child
    /\ UNCHANGED <<evtQ, proxy, api, opened, faults, sent, got, unhides>>

-----------------------------------------------------------------------------
(* The parent: the proxy, its drain task, and those who start and stop it. *)

serverSide == <<opened, faults, sent>>

\* start_in_thread: new queues, a new child, a new drain task.
Started(use) ==
    /\ child' = NewChild
    /\ evtQ' = <<>> /\ cmdQ' = <<>>
    /\ proxy' = [proxy EXCEPT !.proc = TRUE, !.drain = "read", !.item = 0,
                              !.use = use]

\* get_active_session starts the client and polls for a session id.
GetActiveSession ==
    /\ proxy.use = "fresh"
    /\ Started("waiting")
    /\ UNCHANGED <<api, serverSide, got, unhides>>

SessionReady ==
    /\ proxy.use = "waiting" /\ proxy.session # None
    /\ proxy' = [proxy EXCEPT !.use = "ready"]
    /\ api' = "ok"
    /\ UNCHANGED <<child, evtQ, cmdQ, serverSide, got, unhides>>

\* _update_status; a lost connection makes the parent push its cookies.
Mirrored(p, m) == [p EXCEPT !.up = m.up, !.session = m.session]
CookiePush(p, m) == IF p.up /\ ~m.up THEN <<"cookies">> ELSE <<>>

\* One turn of _drain_evt_q.
Drain ==
    /\ proxy.proc /\ proxy.drain = "read" /\ evtQ # <<>>
    /\ evtQ' = Tail(evtQ)
    /\ LET m == Head(evtQ) IN
        /\ proxy' = CASE m.kind = "event" ->
                            [proxy EXCEPT !.drain = "handling", !.item = m.n]
                      [] m.kind = "status" -> Mirrored(proxy, m)
                      [] OTHER -> proxy
        /\ cmdQ' = IF m.kind = "status" THEN cmdQ \o CookiePush(proxy, m)
                   ELSE cmdQ
        /\ api' = IF m.kind = "auth_error" THEN "null" ELSE api
    /\ UNCHANGED <<child, serverSide, got, unhides>>

\* The handler's awaits end; what it raises ends the drain task.
Handled ==
    /\ proxy.drain = "handling"
    /\ \/ /\ got' = Append(got, proxy.item)
          /\ proxy' = [proxy EXCEPT !.drain = "read", !.item = 0]
       \/ /\ HandlerMayRaise
          /\ proxy' = [proxy EXCEPT !.drain = "dead", !.item = 0]
          /\ UNCHANGED got
    /\ UNCHANGED <<child, evtQ, cmdQ, api, serverSide, unhides>>

\* stop_thread, first half: the command, and the end of the drain task.  A
\* drain task that died raises here, and stop_thread with it.
StopAsked(use) ==
    /\ cmdQ' = Append(cmdQ, "stop")
    /\ proxy' = IF proxy.drain = "dead" THEN proxy
                ELSE [proxy EXCEPT !.drain = "none", !.item = 0, !.use = use]
    /\ UNCHANGED <<child, evtQ, api, serverSide, got>>

\* The tick loop restarts the client on unhide; the callers that close it are
\* the daemon's shutdown, aclose, and get_active_session after five seconds.
Unhide ==
    /\ proxy.use = "ready" /\ unhides < MaxRestarts
    /\ unhides' = unhides + 1
    /\ StopAsked("restarting")

Close ==
    /\ proxy.use \in {"waiting", "ready"}
    /\ StopAsked("closing")
    /\ proxy.drain # "dead"
    /\ UNCHANGED unhides

\* stop_thread, second half: the join, or terminate after its timeout.
Joined ==
    /\ proxy.use \in {"restarting", "closing"}
    /\ IF proxy.use = "restarting"
       THEN /\ child' = NewChild
            /\ proxy' = [proxy EXCEPT !.up = FALSE, !.drain = "read", !.use = "ready"]
       ELSE /\ child' = [child EXCEPT !.life = "ended", !.ping = "none"]
            /\ proxy' = [proxy EXCEPT !.proc = FALSE, !.up = FALSE,
                                      !.use = "closed"]
    /\ evtQ' = <<>> /\ cmdQ' = <<>>
    /\ UNCHANGED <<api, serverSide, got, unhides>>

ChildNext == Maintain \/ Open \/ Authenticate \/ AuthenticateDrops \/ Listen
             \/ Lost \/ GiveUp \/ PingWake \/ PingSent \/ Publish \/ Command
ParentNext == GetActiveSession \/ SessionReady \/ Drain \/ Handled \/ Unhide
              \/ Close \/ Joined
BridgeNext == ChildNext \/ ParentNext

\* The tasks of both processes are scheduled fairly, and a transport that is
\* asked for is answered; nothing obliges the server to send or the user to
\* stop.
BridgeFairness ==
    /\ WF_bridgeVars(Maintain) /\ WF_bridgeVars(Open)
    /\ WF_bridgeVars(Lost) /\ WF_bridgeVars(GiveUp)
    /\ WF_bridgeVars(PingWake) /\ WF_bridgeVars(PingSent)
    /\ WF_bridgeVars(Publish) /\ WF_bridgeVars(Command)
    /\ WF_bridgeVars(Drain) /\ WF_bridgeVars(Handled)
    /\ WF_bridgeVars(Joined)
    /\ WF_bridgeVars(Running /\ child.phase = "listen" /\ ~child.connected /\ Listen)

BridgeSpec == BridgeInit /\ [][BridgeNext]_bridgeVars /\ BridgeFairness

-----------------------------------------------------------------------------
(* Properties.                                                             *)

\* The registered handler sees the service events in the order of the server
\* and none twice, across reconnects, batches and restarts of the subprocess
\* (_handle_message, _drain_evt_q, start_in_thread).
InOrderOnce == \A i, j \in DOMAIN got : i < j => got[i] < got[j]

\* While the child listens on a connection it believes in, a ping worker
\* watches it: one that ended with an earlier connection has been replaced
\* (_start_ping_loop).  Without it a silent server is never noticed.
PingWatches ==
    (Running /\ child.phase = "listen" /\ child.connected)
        => child.ping \in {"sleep", "sending"}

\* A connection that connect accepted has been authenticated: the session id
\* was granted on it.  connect is documented to raise otherwise
\* (api/websocket.py:496 "RuntimeError: If authentication fails").
SessionOfThisConnection ==
    (Running /\ child.phase = "listen") => child.session = child.conn

\* Once the faults and restarts are over, what the parent mirrors is the state
\* of the child for good, also when the child has given up and ended
\* (_status_publisher, _supervisor, _update_status, stop_thread).
MirrorSettles ==
    <>[](proxy.up = (child.life = "run" /\ child.connected))

=============================================================================
