------------------------------ MODULE Connection ------------------------------
(***************************************************************************)
(* The one WebSocket of a browser tab: WebSocketProvider on the tab's      *)
(* side, WsBroadcaster (ws/gateway.ts) on the panel's, and the console     *)
(* commands that are acknowledged over it (what their handlers do is in    *)
(* Console).  Broadcast events, the answer "subscribed" and the            *)
(* application-level ping change no state that is kept here and are left   *)
(* out of the queues.  ensureAccessToken hands out a token or none;        *)
(* a connection refused, because the panel is down or the token has        *)
(* expired on the way, is RefuseConnection.                                *)
(***************************************************************************)
EXTENDS Naturals, Sequences, FiniteSets

CONSTANTS
  Requests,      \* calls of request(), each made once
  Sockets,       \* WebSocket objects, recycled once both ends forgot them
  None,
  MaxConnects,   \* calls of connect() that wait for a token at a time
  MaxTimers      \* retry timers armed at a time

ASSUME ConnectionAssumption ==
  /\ None \notin Sockets \cup Requests
  /\ MaxConnects \in Nat \ {0}       \* the page connects when it is loaded
  /\ MaxTimers \in Nat

VARIABLES
  isAuthenticated,   \* AuthContext
  intentionalClose,  \* the ref of the provider
  connecting,        \* calls of connect() that await the token
  gaveUp,            \* the last connect() got no token and returned
  readyState,        \* of each socket, at the tab
  wsRef,             \* the socket that send() and request() use
  connected,         \* what the pages show
  retryTimers,       \* armed retry timers
  retryRef,          \* the timer in retryTimer.current is still armed
  peer,              \* each socket at the panel
  linkUp,            \* the network path of the socket works
  up, down,          \* messages on their way
  request,           \* each request at the tab
  on,                \* the socket it was sent on, as long as that matters
  handler            \* each request at the panel

tabVars   == <<isAuthenticated, intentionalClose, connecting, gaveUp, readyState,
               wsRef, connected, retryTimers, retryRef, request, on>>
panelVars == <<peer, handler>>
netVars   == <<linkUp, up, down>>
vars == <<tabVars, panelVars, netVars>>

Msg(t, r, ok) == [type |-> t, id |-> r, ok |-> ok]
Plain(t)      == Msg(t, None, TRUE)
UpMsgs   == {Plain("subscribe"), Plain("close")}
              \cup {Msg("request", r, TRUE) : r \in Requests}
DownMsgs == {Plain("open"), Plain("close")}
              \cup {Msg("ack", r, b) : r \in Requests, b \in BOOLEAN}

RequestStates == {"idle", "pending", "ok", "failed", "gaveUp"}
HandlerStates == {"none", "running", "ok", "failed", "ackedOk", "ackedFailed", "gone"}

TypeOK ==
  /\ isAuthenticated \in BOOLEAN /\ intentionalClose \in BOOLEAN
  /\ connecting \in 0..MaxConnects /\ gaveUp \in BOOLEAN
  /\ readyState \in [Sockets -> {"unused", "connecting", "open", "closing", "closed"}]
  /\ wsRef \in Sockets \cup {None} /\ connected \in BOOLEAN
  /\ retryTimers \in 0..MaxTimers /\ retryRef \in BOOLEAN
  /\ peer \in [Sockets -> {"none", "new", "subscribed", "closed"}]
  /\ linkUp \in [Sockets -> BOOLEAN]
  /\ up \in [Sockets -> Seq(UpMsgs)] /\ down \in [Sockets -> Seq(DownMsgs)]
  /\ request \in [Requests -> RequestStates]
  /\ on \in [Requests -> Sockets \cup {None}]
  /\ handler \in [Requests -> HandlerStates]

Init ==
  /\ isAuthenticated = TRUE /\ intentionalClose = FALSE
  /\ connecting = 1 /\ gaveUp = FALSE
  /\ readyState = [s \in Sockets |-> "unused"]
  /\ wsRef = None /\ connected = FALSE
  /\ retryTimers = 0 /\ retryRef = FALSE
  /\ peer = [s \in Sockets |-> "none"]
  /\ linkUp = [s \in Sockets |-> TRUE]
  /\ up = [s \in Sockets |-> <<>>] /\ down = [s \in Sockets |-> <<>>]
  /\ request = [r \in Requests |-> "idle"] /\ on = [r \in Requests |-> None]
  /\ handler = [r \in Requests |-> "none"]

Attached(s)  == peer[s] \in {"new", "subscribed"}
Listening(s) == readyState[s] \in {"connecting", "open", "closing"}

(* A message goes on its way if there is a way and an end to receive it. *)
SendUp(s, m)   == IF linkUp[s] /\ Attached(s)
                  THEN [up EXCEPT ![s] = Append(@, m)] ELSE up
SendDown(s, m) == IF linkUp[s] /\ Listening(s)
                  THEN [down EXCEPT ![s] = Append(@, m)] ELSE down
-----------------------------------------------------------------------------
(* The tab.                                                                *)

(* rejectAllPending: whatever socket they were sent on.                    *)
(* Mutant: the pending map survives the connection.                        *)
RejectNone == UNCHANGED request
RejectAllPending ==
  request' = [r \in Requests |->
                IF request[r] = "pending" THEN "gaveUp" ELSE request[r]]

(* close() on a socket the tab may still be opening. *)
CloseSocket(s) ==
  IF s # None /\ readyState[s] \in {"connecting", "open"}
  THEN /\ readyState' = [readyState EXCEPT ![s] = "closing"]
       /\ up' = IF readyState[s] = "open" THEN SendUp(s, Plain("close")) ELSE up
  ELSE UNCHANGED <<readyState, up>>

(* The effect of the provider, run by isAuthenticated becoming true. *)
Login ==
  /\ ~isAuthenticated /\ connecting < MaxConnects
  /\ isAuthenticated' = TRUE /\ intentionalClose' = FALSE
  /\ connecting' = connecting + 1 /\ gaveUp' = FALSE
  /\ UNCHANGED <<readyState, wsRef, connected, retryTimers, retryRef, request, on,
                 panelVars, netVars>>

(* clearTimeout(retryTimer.current): an older timer stays armed.           *)
(* Mutant: it is taken for armed because a connection was lost.            *)
ClearLost ==
  /\ retryTimers' = IF connected THEN retryTimers ELSE retryTimers - 1
  /\ retryRef' = FALSE
ClearRetry ==
  /\ retryTimers' = IF retryRef THEN retryTimers - 1 ELSE retryTimers
  /\ retryRef' = FALSE

(* The effect's cleanup, then the effect with isAuthenticated false. *)
Logout ==
  /\ isAuthenticated
  /\ isAuthenticated' = FALSE /\ intentionalClose' = TRUE
  /\ ClearRetry
  /\ RejectAllPending
  /\ CloseSocket(wsRef)
  /\ UNCHANGED <<connecting, gaveUp, wsRef, connected, on, panelVars, linkUp, down>>

(* connect() goes on with a token, unless a logout came in between. *)
ConnectWithToken ==
  /\ connecting > 0
  /\ connecting' = connecting - 1
  /\ IF intentionalClose
     THEN UNCHANGED <<readyState, wsRef>>
     ELSE \E s \in Sockets :
            /\ readyState[s] = "unused"
            /\ readyState' = [readyState EXCEPT ![s] = "connecting"]
            /\ wsRef' = s
  /\ UNCHANGED <<isAuthenticated, intentionalClose, gaveUp, connected, retryTimers,
                 retryRef, request, on, panelVars, netVars>>

(* ensureAccessToken found no token and could get none: nobody tries again. *)
ConnectWithoutToken ==
  /\ connecting > 0
  /\ connecting' = connecting - 1
  /\ gaveUp' = TRUE
  /\ UNCHANGED <<isAuthenticated, intentionalClose, readyState, wsRef, connected,
                 retryTimers, retryRef, request, on, panelVars, netVars>>

Readable(s) == down[s] # <<>>
Read(s) == down' = [down EXCEPT ![s] = Tail(@)]

(* onopen: subscribe to everything. *)
OnOpen(s) ==
  /\ Readable(s) /\ Head(down[s]).type = "open"
  /\ Read(s)
  /\ IF readyState[s] = "connecting"
     THEN /\ readyState' = [readyState EXCEPT ![s] = "open"]
          /\ connected' = TRUE
          /\ up' = SendUp(s, Plain("subscribe"))
     ELSE /\ up' = SendUp(s, Plain("close"))
          /\ UNCHANGED <<readyState, connected>>
  /\ UNCHANGED <<isAuthenticated, intentionalClose, connecting, gaveUp, wsRef,
                 retryTimers, retryRef, request, on, panelVars, linkUp>>

(* onclose; onerror closes the socket first and comes here.  The socket    *)
(* need not be the one in wsRef.                                           *)
OnClose(s) ==
  /\ readyState' = [readyState EXCEPT ![s] = "closed"]
  /\ down' = [down EXCEPT ![s] = <<>>]
  /\ connected' = FALSE
  /\ RejectAllPending
  /\ IF intentionalClose
     THEN UNCHANGED <<retryTimers, retryRef>>
     ELSE /\ retryTimers < MaxTimers
          /\ retryTimers' = retryTimers + 1
          /\ retryRef' = TRUE
  /\ UNCHANGED <<isAuthenticated, intentionalClose, connecting, gaveUp, wsRef, on,
                 panelVars>>

CloseReceived(s) ==
  /\ Readable(s) /\ Head(down[s]).type = "close"
  /\ OnClose(s)
  /\ UNCHANGED <<linkUp, up>>

RefuseConnection(s) ==
  /\ readyState[s] \in {"connecting", "closing"} /\ peer[s] = "none"
  /\ OnClose(s)
  /\ UNCHANGED <<linkUp, up>>

LossNoticed(s) ==
  /\ ~linkUp[s] /\ Listening(s)
  /\ OnClose(s)
  /\ UNCHANGED <<linkUp, up>>

(* The timer that fires is the one in retryTimer.current or an older one. *)
Retry ==
  /\ retryTimers > 0 /\ connecting < MaxConnects
  /\ retryTimers' = retryTimers - 1
  /\ retryRef' \in IF retryTimers = 1 THEN {FALSE} ELSE {retryRef, FALSE}
  /\ connecting' = connecting + 1 /\ gaveUp' = FALSE
  /\ UNCHANGED <<isAuthenticated, intentionalClose, readyState, wsRef, connected,
                 request, on, panelVars, netVars>>

(* request(): refused at once without an open socket. *)
Ask(r) ==
  /\ request[r] = "idle"
  /\ IF wsRef # None /\ readyState[wsRef] = "open"
     THEN /\ request' = [request EXCEPT ![r] = "pending"]
          /\ on' = [on EXCEPT ![r] = wsRef]
          /\ up' = SendUp(wsRef, Msg("request", r, TRUE))
     ELSE /\ request' = [request EXCEPT ![r] = "gaveUp"]
          /\ UNCHANGED <<on, up>>
  /\ UNCHANGED <<isAuthenticated, intentionalClose, connecting, gaveUp, readyState,
                 wsRef, connected, retryTimers, retryRef, panelVars, linkUp, down>>

Timeout(r) ==
  /\ request[r] = "pending"
  /\ request' = [request EXCEPT ![r] = "gaveUp"]
  /\ UNCHANGED <<isAuthenticated, intentionalClose, connecting, gaveUp, readyState,
                 wsRef, connected, retryTimers, retryRef, on, panelVars, netVars>>

(* An ack settles the request with its requestId, if that is still waiting. *)
(* Mutants: acks go to whoever waits; a late ack counts.                   *)
SettlesAny(r, m)  == request[r] = "pending"
SettlesLate(r, m) == r = m.id
Settles(r, m) == r = m.id /\ request[r] = "pending"

(* A message that reaches a socket which is closing is thrown away. *)
AckReceived(s) ==
  /\ Readable(s) /\ Head(down[s]).type = "ack"
  /\ Read(s)
  /\ LET m == Head(down[s])
     IN request' = [r \in Requests |->
          IF readyState[s] = "open" /\ Settles(r, m)
          THEN IF m.ok THEN "ok" ELSE "failed" ELSE request[r]]
  /\ UNCHANGED <<isAuthenticated, intentionalClose, connecting, gaveUp, readyState,
                 wsRef, connected, retryTimers, retryRef, on, panelVars, linkUp, up>>
-----------------------------------------------------------------------------
(* The panel.                                                              *)

(* verifyClient accepts the token; the 5 s subscribe timer is armed. *)
Accept(s) ==
  /\ Listening(s) /\ peer[s] = "none" /\ linkUp[s]
  /\ peer' = [peer EXCEPT ![s] = "new"]
  /\ down' = SendDown(s, Plain("open"))
  /\ UNCHANGED <<tabVars, handler, linkUp, up>>

(* The panel's end of some sockets goes; a tab that can be told is told.   *)
(* wsSubscriptions has the attached ones.                                  *)
PanelCloses(S) ==
  /\ peer' = [s \in Sockets |-> IF s \in S THEN "closed" ELSE peer[s]]
  /\ up' = [s \in Sockets |-> IF s \in S THEN <<>> ELSE up[s]]
  /\ down' = [s \in Sockets |-> IF s \in S /\ linkUp[s] /\ Listening(s)
                                THEN Append(down[s], Plain("close")) ELSE down[s]]

Arrives(s, t) == up[s] # <<>> /\ Head(up[s]).type = t
Take(s)       == up' = [up EXCEPT ![s] = Tail(@)]

SubscribeArrives(s) ==
  /\ Arrives(s, "subscribe")
  /\ Take(s)
  /\ peer' = [peer EXCEPT ![s] = "subscribed"]
  /\ UNCHANGED <<tabVars, handler, linkUp, down>>

CloseArrives(s) ==
  /\ Arrives(s, "close")
  /\ PanelCloses({s})
  /\ UNCHANGED <<tabVars, handler, linkUp>>

(* handleRequest calls the registered handler. *)
RequestArrives(s) ==
  /\ Arrives(s, "request")
  /\ Take(s)
  /\ handler' = [handler EXCEPT ![Head(up[s]).id] = "running"]
  /\ UNCHANGED <<tabVars, peer, linkUp, down>>

SubscribeTimeout(s) ==
  /\ peer[s] = "new"
  /\ PanelCloses({s})
  /\ UNCHANGED <<tabVars, handler, linkUp>>

(* Two ticks of the 10 s timer without a pong between them: the socket is  *)
(* terminated.  A path that is slow may do that to a tab that lives.       *)
Heartbeat(s) ==
  /\ Attached(s)
  /\ PanelCloses({s})
  /\ UNCHANGED <<tabVars, handler, linkUp>>

(* The handler's promise settles: Console has the handlers themselves. *)
HandlerEnds(r) ==
  /\ handler[r] = "running"
  /\ handler' \in {[handler EXCEPT ![r] = "ok"], [handler EXCEPT ![r] = "failed"]}
  /\ UNCHANGED <<tabVars, peer, netVars>>

(* sendAck: dropped unless the connection the request came by is open. *)
SendAck(r) ==
  /\ handler[r] \in {"ok", "failed"}
  /\ handler' = [handler EXCEPT ![r] = IF @ = "ok" THEN "ackedOk" ELSE "ackedFailed"]
  /\ down' = IF Attached(on[r])
             THEN SendDown(on[r], Msg("ack", r, handler[r] = "ok")) ELSE down
  /\ UNCHANGED <<tabVars, peer, linkUp, up>>

(* The panel ends (destroy, or a crash) and a new one starts: the bash is  *)
(* a child of the panel's terminal and goes with it.                       *)
PanelRestarts ==
  /\ PanelCloses({s \in Sockets : Attached(s)})
  /\ handler' = [r \in Requests |->
       IF handler[r] \in {"running", "ok", "failed"}
       THEN "gone" ELSE handler[r]]
  /\ UNCHANGED <<tabVars, linkUp>>
-----------------------------------------------------------------------------
(* The network path of a socket is gone; neither end is told. *)
LinkDies(s) ==
  /\ linkUp[s] /\ Listening(s)
  /\ linkUp' = [linkUp EXCEPT ![s] = FALSE]
  /\ up' = [up EXCEPT ![s] = <<>>] /\ down' = [down EXCEPT ![s] = <<>>]
  /\ UNCHANGED <<tabVars, panelVars>>

(* Both ends are done with the object: its name may stand for a new one. *)
Recycle(s) ==
  /\ readyState[s] = "closed" /\ ~Attached(s)
  /\ \A r \in Requests : on[r] = s => handler[r] \notin
       {"running", "ok", "failed"}
  /\ readyState' = [readyState EXCEPT ![s] = "unused"]
  /\ wsRef' = IF wsRef = s THEN None ELSE wsRef
  /\ peer' = [peer EXCEPT ![s] = "none"]
  /\ linkUp' = [linkUp EXCEPT ![s] = TRUE]
  /\ up' = [up EXCEPT ![s] = <<>>] /\ down' = [down EXCEPT ![s] = <<>>]
  /\ UNCHANGED <<isAuthenticated, intentionalClose, connecting, gaveUp, connected,
                 retryTimers, retryRef, request, on, handler>>

TabStep ==
  \/ Login \/ Logout \/ ConnectWithToken \/ ConnectWithoutToken \/ Retry
  \/ \E s \in Sockets : OnOpen(s) \/ CloseReceived(s) \/ RefuseConnection(s)
                         \/ LossNoticed(s) \/ AckReceived(s)
  \/ \E r \in Requests : Timeout(r) \/ Ask(r)

PanelStep ==
  \/ \E s \in Sockets : Accept(s) \/ SubscribeArrives(s) \/ CloseArrives(s)
                         \/ RequestArrives(s) \/ SubscribeTimeout(s) \/ Heartbeat(s)
  \/ \E r \in Requests : HandlerEnds(r) \/ SendAck(r)

Next ==
  \/ TabStep \/ PanelStep \/ PanelRestarts
  \/ \E s \in Sockets : LinkDies(s) \/ Recycle(s)

Spec == Init /\ [][Next]_vars
-----------------------------------------------------------------------------
(* Properties.                                                             *)

(* A request that waits for its ack was sent on a socket that is open at   *)
(* the tab: whatever ends a socket (close, loss, logout, also of another   *)
(* socket) rejects what is pending, so no caller sits out the full timeout *)
(* of an ack that cannot come (rejectAllPending of WebSocketContext).      *)
PendingIsReachable ==
  \A r \in Requests : request[r] = "pending" => readyState[on[r]] = "open"

(* The commands behave as RequestChannel promises: acks meet the request   *)
(* with their requestId and only while it waits, however they are delayed  *)
(* and whichever of the sockets they come by.                              *)
Told == [r \in Requests |-> IF request[r] = "pending" THEN "asked" ELSE request[r]]
Done == [r \in Requests |->
           CASE handler[r] = "ackedOk"     -> "ok"
             [] handler[r] = "ackedFailed" -> "failed"
             [] handler[r] = "gone"        -> "lost"
             [] OTHER                      -> handler[r]]
Channel == INSTANCE RequestChannel WITH told <- Told, done <- Done
ImplementsChannel == Channel!Spec
=============================================================================
