--------------------------- MODULE Connection_proofs ---------------------------
(***************************************************************************)
(* Proofs about Connection, for any number of requests, sockets, waiting   *)
(* calls of connect() and retry timers.  The argument for the refinement:  *)
(* a request message is on its way only before the panel has seen it, once *)
(* and on the socket it was sent on (AskedOnce), and an ack that is on its *)
(* way says what the panel found (AcksAreTrue).                            *)
(***************************************************************************)
EXTENDS Connection, SequenceTheorems, TLAPS

(* The retry timer that can be cleared is one of those that are armed.     *)
TimerIsArmed == retryRef => retryTimers > 0

Typed == TypeOK /\ TimerIsArmed

PendingHasSocket == \A r \in Requests : request[r] = "pending" => on[r] \in Sockets

SeenIsAsked == \A r \in Requests : handler[r] # "none" => request[r] # "idle"

(* A request on its way was asked, on this socket, and the panel has not   *)
(* seen it; and it is not on its way twice.                                *)
Unseen(s, m) == m.type = "request" =>
  /\ request[m.id] # "idle" /\ on[m.id] = s /\ handler[m.id] = "none"

NoneTwice(q) ==
  \A i, j \in 1..Len(q) :
    q[i].type = "request" /\ q[j].type = "request" /\ q[i].id = q[j].id => i = j

AskedOnce ==
  \A s \in Sockets : NoneTwice(up[s]) /\ \A i \in 1..Len(up[s]) : Unseen(s, up[s][i])

(* An ack on its way says what the panel found.                            *)
TrueAck(m) == m.type = "ack" =>
  handler[m.id] = IF m.ok THEN "ackedOk" ELSE "ackedFailed"

AcksAreTrue == \A s \in Sockets : \A i \in 1..Len(down[s]) : TrueAck(down[s][i])

IInv == /\ Typed /\ PendingHasSocket /\ PendingIsReachable
        /\ SeenIsAsked /\ AskedOnce /\ AcksAreTrue

(***************************************************************************)
(* Type correctness.                                                       *)
(***************************************************************************)
LEMMA Bounds == MaxConnects \in Nat /\ MaxConnects >= 1 /\ MaxTimers \in Nat
BY ConnectionAssumption

LEMMA MessageTypes ==
  /\ Plain("subscribe") \in UpMsgs /\ Plain("close") \in UpMsgs
  /\ \A r \in Requests : Msg("request", r, TRUE) \in UpMsgs
  /\ Plain("open") \in DownMsgs /\ Plain("close") \in DownMsgs
  /\ \A r \in Requests, b \in BOOLEAN : Msg("ack", r, b) \in DownMsgs
<1>1. \A r \in Requests : Msg("request", r, TRUE) \in UpMsgs
  BY Zenon DEF UpMsgs
<1>2. \A r \in Requests, b \in BOOLEAN : Msg("ack", r, b) \in DownMsgs
  BY DEF DownMsgs, Msg
<1>3. /\ Plain("subscribe") \in UpMsgs /\ Plain("close") \in UpMsgs
      /\ Plain("open") \in DownMsgs /\ Plain("close") \in DownMsgs
  BY DEF UpMsgs, DownMsgs
<1> QED
  BY Zenon, <1>1, <1>2, <1>3

(* What an end puts on its way keeps the queues typed. *)
LEMMA SendUpType ==
  ASSUME TypeOK, NEW s \in Sockets, NEW m \in UpMsgs
  PROVE  SendUp(s, m) \in [Sockets -> Seq(UpMsgs)]
BY AppendProperties DEF TypeOK, SendUp

LEMMA SendDownType ==
  ASSUME TypeOK, NEW s \in Sockets, NEW m \in DownMsgs
  PROVE  SendDown(s, m) \in [Sockets -> Seq(DownMsgs)]
BY AppendProperties DEF TypeOK, SendDown

LEMMA ReadType ==
  ASSUME TypeOK, NEW s \in Sockets, Readable(s), Read(s)
  PROVE  down' \in [Sockets -> Seq(DownMsgs)]
BY HeadTailProperties DEF TypeOK, Readable, Read

LEMMA TakeType ==
  ASSUME TypeOK, NEW s \in Sockets, up[s] # <<>>, Take(s)
  PROVE  up' \in [Sockets -> Seq(UpMsgs)]
BY HeadTailProperties DEF TypeOK, Take

LEMMA CloseSocketType ==
  ASSUME TypeOK, CloseSocket(wsRef)
  PROVE  /\ readyState' \in [Sockets -> {"unused", "connecting", "open", "closing", "closed"}]
         /\ up' \in [Sockets -> Seq(UpMsgs)]
<1>1. CASE wsRef # None /\ readyState[wsRef] \in {"connecting", "open"}
  <2>1. wsRef \in Sockets
    BY <1>1, Zenon DEF TypeOK
  <2>2. SendUp(wsRef, Plain("close")) \in [Sockets -> Seq(UpMsgs)]
    BY <2>1, SendUpType, MessageTypes
  <2> QED
    BY <1>1, <2>1, <2>2 DEF TypeOK, CloseSocket
<1>2. CASE ~(wsRef # None /\ readyState[wsRef] \in {"connecting", "open"})
  BY <1>2, Zenon DEF TypeOK, CloseSocket
<1> QED
  BY <1>1, <1>2

LEMMA PanelClosesType ==
  ASSUME TypeOK, NEW S \in SUBSET Sockets, PanelCloses(S)
  PROVE  /\ peer' \in [Sockets -> {"none", "new", "subscribed", "closed"}]
         /\ up' \in [Sockets -> Seq(UpMsgs)]
         /\ down' \in [Sockets -> Seq(DownMsgs)]
<1>1. \A s \in Sockets : Append(down[s], Plain("close")) \in Seq(DownMsgs)
  BY MessageTypes, AppendProperties DEF TypeOK
<1> QED
  BY <1>1 DEF TypeOK, PanelCloses

(* The flags, and everything else: Zenon knows Booleans and SMT knows      *)
(* numbers.                                                                *)
Flags ==
  /\ isAuthenticated \in BOOLEAN /\ intentionalClose \in BOOLEAN /\ gaveUp \in BOOLEAN
  /\ connected \in BOOLEAN /\ retryRef \in BOOLEAN

Counters == connecting \in 0..MaxConnects /\ retryTimers \in 0..MaxTimers

Ends ==
  /\ readyState \in [Sockets -> {"unused", "connecting", "open", "closing", "closed"}]
  /\ wsRef \in Sockets \cup {None}
  /\ peer \in [Sockets -> {"none", "new", "subscribed", "closed"}]
  /\ linkUp \in [Sockets -> BOOLEAN]
  /\ up \in [Sockets -> Seq(UpMsgs)] /\ down \in [Sockets -> Seq(DownMsgs)]
  /\ request \in [Requests -> RequestStates]
  /\ on \in [Requests -> Sockets \cup {None}]
  /\ handler \in [Requests -> HandlerStates]

LEMMA TypedParts == Typed <=> Flags /\ Counters /\ TimerIsArmed /\ Ends
BY Zenon DEF Typed, TypeOK, Flags, Counters, Ends

LEMMA TypeInit == Init => Typed
<1> SUFFICES ASSUME Init PROVE Typed
  OBVIOUS
<1>1. Flags
  BY Zenon DEF Init, Flags
<1>2. Counters
  BY Bounds DEF Init, Counters
<1>3. TimerIsArmed
  BY Zenon DEF Init, TimerIsArmed
<1>4. Ends
  BY DEF Init, Ends, RequestStates, HandlerStates
<1> QED
  BY <1>1, <1>2, <1>3, <1>4, TypedParts

(* The flags, whatever happens. *)
LEMMA FlagsNext == Flags /\ [Next]_vars => Flags'
<1> SUFFICES ASSUME Flags, [Next]_vars PROVE Flags'
  OBVIOUS
<1> USE DEF Flags, tabVars
<1>1. CASE Login \/ ConnectWithToken \/ ConnectWithoutToken
  BY <1>1, Zenon DEF Login, ConnectWithToken, ConnectWithoutToken
<1>2. CASE Logout
  BY <1>2, Zenon DEF Logout, ClearRetry
<1>3. CASE Retry
  <2>1. retryRef' \in BOOLEAN
    BY <1>3 DEF Retry
  <2> QED
    BY <1>3, <2>1, Zenon DEF Retry
<1>4. ASSUME NEW s \in Sockets, OnOpen(s) PROVE Flags'
  BY <1>4, Zenon DEF OnOpen
<1>5. ASSUME NEW s \in Sockets,
             CloseReceived(s) \/ RefuseConnection(s) \/ LossNoticed(s)
      PROVE  Flags'
  BY <1>5, Zenon DEF CloseReceived, RefuseConnection, LossNoticed, OnClose
<1>6. ASSUME NEW s \in Sockets, AckReceived(s) PROVE Flags'
  BY <1>6, Zenon DEF AckReceived
<1>7. ASSUME NEW r \in Requests, Timeout(r) \/ Ask(r) PROVE Flags'
  BY <1>7, Zenon DEF Timeout, Ask
<1>8. CASE PanelStep \/ PanelRestarts
  BY <1>8, Zenon
  DEF PanelStep, Accept, SubscribeArrives, CloseArrives, RequestArrives,
      SubscribeTimeout, Heartbeat, HandlerEnds, SendAck, PanelRestarts
<1>9. ASSUME NEW s \in Sockets, LinkDies(s) \/ Recycle(s) PROVE Flags'
  BY <1>9, Zenon DEF LinkDies, Recycle
<1>10. CASE UNCHANGED vars
  BY <1>10, Zenon DEF vars
<1> QED
  BY Zenon, <1>1, <1>2, <1>3, <1>4, <1>5, <1>6, <1>7, <1>8, <1>9, <1>10
  DEF Next, TabStep

LEMMA CountersNext ==
  Counters /\ TimerIsArmed /\ [Next]_vars => Counters' /\ TimerIsArmed'
<1> SUFFICES ASSUME Counters, TimerIsArmed, [Next]_vars
             PROVE  Counters' /\ TimerIsArmed'
  OBVIOUS
<1> DEFINE Same == UNCHANGED <<retryTimers, retryRef>>
<1> USE Bounds DEF Counters, TimerIsArmed, tabVars
<1>1. CASE Login
  BY <1>1 DEF Login
<1>2. CASE Logout
  <2>1. connecting' = connecting /\ ~retryRef'
    BY <1>2, Zenon DEF Logout, ClearRetry
  <2>2. retryTimers' = IF retryRef THEN retryTimers - 1 ELSE retryTimers
    BY <1>2, Zenon DEF Logout, ClearRetry
  <2> QED
    BY <2>1, <2>2
<1>3. CASE ConnectWithToken \/ ConnectWithoutToken
  BY <1>3 DEF ConnectWithToken, ConnectWithoutToken
<1>4. CASE Retry
  <2>1. /\ retryTimers > 0 /\ connecting < MaxConnects
        /\ retryTimers' = retryTimers - 1 /\ connecting' = connecting + 1
    BY <1>4, Zenon DEF Retry
  <2>2. retryRef' => retryTimers # 1
    BY <1>4, Zenon DEF Retry
  <2> QED
    BY <2>1, <2>2
<1>5. ASSUME NEW s \in Sockets, OnClose(s) PROVE Counters' /\ TimerIsArmed'
  <2>1. CASE intentionalClose
    BY <1>5, <2>1, Zenon DEF OnClose
  <2>2. CASE ~intentionalClose
    <3>1. /\ retryTimers < MaxTimers /\ retryTimers' = retryTimers + 1
          /\ connecting' = connecting
      BY <1>5, <2>2, Zenon DEF OnClose
    <3> QED
      BY <3>1
  <2> QED
    BY <2>1, <2>2
<1>6. ASSUME NEW s \in Sockets, CloseReceived(s) \/ RefuseConnection(s) \/ LossNoticed(s)
      PROVE  OnClose(s)
  BY <1>6, Zenon DEF CloseReceived, RefuseConnection, LossNoticed
<1>7. ASSUME UNCHANGED <<connecting, retryTimers, retryRef>>
      PROVE  Counters' /\ TimerIsArmed'
  BY <1>7, Zenon
<1>8. ASSUME NEW s \in Sockets, OnOpen(s) \/ AckReceived(s)
      PROVE  UNCHANGED <<connecting, retryTimers, retryRef>>
  BY <1>8, Zenon DEF OnOpen, AckReceived
<1>9. ASSUME NEW r \in Requests, Timeout(r) \/ Ask(r)
      PROVE  UNCHANGED <<connecting, retryTimers, retryRef>>
  BY <1>9, Zenon DEF Timeout, Ask
<1>10. CASE PanelStep \/ PanelRestarts
  <2>1. UNCHANGED <<connecting, retryTimers, retryRef>>
    BY <1>10, Zenon
    DEF PanelStep, Accept, SubscribeArrives, CloseArrives, RequestArrives,
        SubscribeTimeout, Heartbeat, HandlerEnds, SendAck, PanelRestarts
  <2> QED
    BY <2>1, <1>7
<1>11. ASSUME NEW s \in Sockets, LinkDies(s) \/ Recycle(s)
       PROVE  UNCHANGED <<connecting, retryTimers, retryRef>>
  BY <1>11, Zenon DEF LinkDies, Recycle
<1>12. CASE UNCHANGED vars
  BY <1>12, <1>7, Zenon DEF vars
<1> QED
  BY Zenon, <1>1, <1>2, <1>3, <1>4, <1>5, <1>6, <1>7, <1>8, <1>9, <1>10, <1>11, <1>12
  DEF Next, TabStep

LEMMA EndsNext == Typed /\ [Next]_vars => Ends'
<1> SUFFICES ASSUME Typed, [Next]_vars PROVE Ends'
  OBVIOUS
<1>a. TypeOK
  BY DEF Typed
<1>b. Ends
  BY TypedParts
<1> USE DEF Ends, tabVars, panelVars, netVars, RequestStates, HandlerStates
<1>1. CASE Login \/ ConnectWithoutToken \/ Retry
  BY <1>1, <1>b DEF Login, ConnectWithoutToken, Retry
<1>2. CASE Logout
  BY <1>2, <1>a, <1>b, CloseSocketType DEF Logout, RejectAllPending
<1>3. CASE ConnectWithToken
  BY <1>3, <1>b DEF ConnectWithToken
<1>6. ASSUME NEW s \in Sockets, OnOpen(s) PROVE Ends'
  <2>1. down' \in [Sockets -> Seq(DownMsgs)]
    BY <1>6, <1>a, ReadType DEF OnOpen
  <2>2. up' \in [Sockets -> Seq(UpMsgs)]
    BY <1>6, <1>a, SendUpType, MessageTypes DEF OnOpen
  <2> QED
    BY <1>6, <1>b, <2>1, <2>2 DEF OnOpen
<1>7. ASSUME NEW s \in Sockets, OnClose(s), UNCHANGED <<linkUp, up>>
      PROVE  Ends'
  BY <1>7, <1>b DEF OnClose, RejectAllPending
<1>71. ASSUME NEW s \in Sockets, CloseReceived(s) \/ RefuseConnection(s) \/ LossNoticed(s)
       PROVE  OnClose(s) /\ UNCHANGED <<linkUp, up>>
  BY <1>71, Zenon DEF CloseReceived, RefuseConnection, LossNoticed
<1>8. ASSUME NEW s \in Sockets, AckReceived(s) PROVE Ends'
  <2>1. down' \in [Sockets -> Seq(DownMsgs)]
    BY <1>8, <1>a, ReadType DEF AckReceived
  <2> QED
    BY <1>8, <1>b, <2>1 DEF AckReceived
<1>9. ASSUME NEW r \in Requests, Timeout(r) PROVE Ends'
  BY <1>9, <1>b DEF Timeout
<1>10. ASSUME NEW r \in Requests, Ask(r) PROVE Ends'
  <2>1. CASE wsRef # None /\ readyState[wsRef] = "open"
    <3>1. wsRef \in Sockets
      BY <2>1, <1>b
    <3>2. SendUp(wsRef, Msg("request", r, TRUE)) \in [Sockets -> Seq(UpMsgs)]
      BY <1>a, <3>1, SendUpType, MessageTypes
    <3> QED
      BY <1>10, <1>b, <2>1, <3>1, <3>2 DEF Ask
  <2>2. CASE ~(wsRef # None /\ readyState[wsRef] = "open")
    BY <1>10, <1>b, <2>2 DEF Ask
  <2> QED
    BY <2>1, <2>2
<1>11. ASSUME NEW s \in Sockets, Accept(s) PROVE Ends'
  BY <1>11, <1>a, <1>b, SendDownType, MessageTypes DEF Accept
<1>12. ASSUME NEW s \in Sockets, SubscribeArrives(s) PROVE Ends'
  BY <1>12, <1>a, <1>b, TakeType DEF SubscribeArrives, Arrives
<1>13. ASSUME NEW s \in Sockets, CloseArrives(s) \/ SubscribeTimeout(s) \/ Heartbeat(s)
       PROVE  Ends'
  BY <1>13, <1>a, <1>b, PanelClosesType DEF CloseArrives, SubscribeTimeout, Heartbeat
<1>14. ASSUME NEW s \in Sockets, RequestArrives(s) PROVE Ends'
  BY <1>14, <1>a, <1>b, TakeType DEF RequestArrives, Arrives
<1>15. ASSUME NEW r \in Requests, HandlerEnds(r) PROVE Ends'
  BY <1>15, <1>b DEF HandlerEnds
<1>16. ASSUME NEW r \in Requests, SendAck(r) PROVE Ends'
  <2>1. down' \in [Sockets -> Seq(DownMsgs)]
    <3>1. CASE on[r] \in Sockets
      BY <1>16, <1>a, <1>b, <3>1, SendDownType, MessageTypes DEF SendAck
    <3>2. CASE on[r] \notin Sockets
      BY <1>16, <1>b, <3>2 DEF SendAck, SendDown
    <3> QED
      BY <3>1, <3>2
  <2> QED
    BY <1>16, <1>b, <2>1 DEF SendAck
<1>17. CASE PanelRestarts
  BY <1>17, <1>a, <1>b, PanelClosesType DEF PanelRestarts
<1>18. ASSUME NEW s \in Sockets, LinkDies(s) PROVE Ends'
  BY <1>18, <1>b DEF LinkDies
<1>19. ASSUME NEW s \in Sockets, Recycle(s) PROVE Ends'
  BY <1>19, <1>b DEF Recycle
<1>20. CASE UNCHANGED vars
  BY <1>20, <1>b DEF vars
<1> QED
  BY Zenon, <1>1, <1>2, <1>3, <1>6, <1>7, <1>71, <1>8, <1>9, <1>10, <1>11,
     <1>12, <1>13, <1>14, <1>15, <1>16, <1>17, <1>18, <1>19, <1>20
  DEF Next, TabStep, PanelStep

LEMMA TypeNext == Typed /\ [Next]_vars => Typed'
<1> SUFFICES ASSUME Typed, [Next]_vars PROVE Typed'
  OBVIOUS
<1>1. Flags' /\ Counters' /\ TimerIsArmed' /\ Ends'
  BY TypedParts, FlagsNext, CountersNext, EndsNext
<1>2. Typed' <=> Flags' /\ Counters' /\ TimerIsArmed' /\ Ends'
  BY Zenon DEF Typed, TypeOK, Flags, Counters, Ends
<1> QED
  BY <1>1, <1>2

(* The state of both ends of the connection always has its type. *)
THEOREM TypeCorrect == Spec => []TypeOK
<1>1. Typed => TypeOK
  BY DEF Typed
<1> QED
  BY <1>1, TypeInit, TypeNext, PTL DEF Spec
-----------------------------------------------------------------------------
(* The pending requests.                                                   *)

LEMMA TypedFacts ==
  ASSUME Typed
  PROVE  /\ readyState \in [Sockets -> {"unused", "connecting", "open", "closing", "closed"}]
         /\ wsRef \in Sockets \cup {None}
         /\ up \in [Sockets -> Seq(UpMsgs)] /\ down \in [Sockets -> Seq(DownMsgs)]
         /\ request \in [Requests -> RequestStates]
         /\ on \in [Requests -> Sockets \cup {None}]
         /\ handler \in [Requests -> HandlerStates]
BY Zenon DEF Typed, TypeOK

(* What ends a socket leaves nothing pending. *)
LEMMA AllRejected ==
  ASSUME Typed, RejectAllPending, NEW r \in Requests
  PROVE  /\ request'[r] # "pending"
         /\ request[r] # "idle" => request'[r] # "idle"
BY TypedFacts DEF RejectAllPending

LEMMA PanelLeavesTab ==
  ASSUME PanelStep \/ PanelRestarts \/ (\E s \in Sockets : LinkDies(s)) \/ UNCHANGED vars
  PROVE  UNCHANGED tabVars
BY Zenon DEF PanelStep, Accept, SubscribeArrives, CloseArrives, RequestArrives,
   SubscribeTimeout, Heartbeat, HandlerEnds, SendAck, PanelRestarts, LinkDies, vars

LEMMA PendingNext ==
  PendingHasSocket /\ PendingIsReachable /\ Typed /\ [Next]_vars
    => PendingHasSocket' /\ PendingIsReachable'
<1> SUFFICES ASSUME PendingHasSocket, PendingIsReachable, Typed, [Next]_vars,
                    NEW r \in Requests, request'[r] = "pending"
             PROVE  on'[r] \in Sockets /\ readyState'[on'[r]] = "open"
  BY DEF PendingHasSocket, PendingIsReachable
<1> USE TypedFacts DEF PendingHasSocket, PendingIsReachable
<1> DEFINE Goal == on'[r] \in Sockets /\ readyState'[on'[r]] = "open"
<1>1. ASSUME UNCHANGED <<readyState, request, on>> PROVE Goal
  BY <1>1
<1>2. CASE Login \/ ConnectWithoutToken \/ Retry
  BY <1>2, <1>1, Zenon DEF Login, ConnectWithoutToken, Retry
<1>3. CASE Logout
  BY <1>3, AllRejected DEF Logout
<1>4. CASE ConnectWithToken
  BY <1>4 DEF ConnectWithToken
<1>5. ASSUME NEW s \in Sockets, OnOpen(s) PROVE Goal
  BY <1>5 DEF OnOpen
<1>6. ASSUME NEW s \in Sockets, CloseReceived(s) \/ RefuseConnection(s) \/ LossNoticed(s)
      PROVE  Goal
  <2>1. RejectAllPending
    BY <1>6, Zenon DEF CloseReceived, RefuseConnection, LossNoticed, OnClose
  <2> QED
    BY <2>1, AllRejected
<1>7. ASSUME NEW s \in Sockets, AckReceived(s) PROVE Goal
  BY <1>7 DEF AckReceived
<1>8. ASSUME NEW q \in Requests, Timeout(q) PROVE Goal
  BY <1>8 DEF Timeout
<1>9. ASSUME NEW q \in Requests, Ask(q) PROVE Goal
  BY <1>9 DEF Ask
<1>10. CASE PanelStep \/ PanelRestarts \/ (\E s \in Sockets : LinkDies(s)) \/ UNCHANGED vars
  BY <1>10, <1>1, PanelLeavesTab, Zenon DEF tabVars
<1>11. ASSUME NEW s \in Sockets, Recycle(s) PROVE Goal
  BY <1>11 DEF Recycle
<1> QED
  BY Zenon, <1>2, <1>3, <1>4, <1>5, <1>6, <1>7, <1>8, <1>9, <1>10, <1>11
  DEF Next, TabStep

(* Whoever waits for an ack waits on a socket that is open at the tab,     *)
(* whatever has ended sockets meanwhile: no caller sits out the timeout of *)
(* an ack that cannot come.                                                *)
THEOREM PendingReachable == Spec => []PendingIsReachable
<1>1. Init => PendingHasSocket /\ PendingIsReachable
  BY DEF Init, PendingHasSocket, PendingIsReachable
<1> QED
  BY <1>1, TypeInit, TypeNext, PendingNext, PTL DEF Spec
-----------------------------------------------------------------------------
(* The queues.                                                             *)

(* A queue step that puts no request, and no ack, on its way. *)
Quiet(q, r) ==
  \/ r = q \/ r = <<>> \/ (q # <<>> /\ r = Tail(q))
  \/ \E t \in {"subscribe", "open", "close"} : r = Append(q, Plain(t))

LEMMA AppendFacts ==
  ASSUME NEW M, NEW q \in Seq(M), NEW m \in M
  PROVE  /\ Len(Append(q, m)) = Len(q) + 1 /\ Append(q, m)[Len(q) + 1] = m
         /\ \A j \in 1..Len(q) : Append(q, m)[j] = q[j]
OBVIOUS

LEMMA QuietKeeps ==
  ASSUME NEW M, NEW q \in Seq(M), NEW r \in Seq(M), Quiet(q, r),
         NEW i \in 1..Len(r), r[i].type \in {"request", "ack"}
  PROVE  \E j \in 1..Len(q) : q[j] = r[i]
<1>1. CASE r = q \/ r = <<>>
  BY <1>1
<1>2. CASE q # <<>> /\ r = Tail(q)
  <2>1. i + 1 \in 1..Len(q) /\ q[i + 1] = r[i]
    BY <1>2, HeadTailProperties
  <2> QED
    BY <2>1
<1>3. ASSUME NEW t \in {"subscribe", "open", "close"}, r = Append(q, Plain(t))
      PROVE  \E j \in 1..Len(q) : q[j] = r[i]
  <2>1. Len(r) = Len(q) + 1 /\ r[Len(q) + 1] = Plain(t)
        /\ \A j \in 1..Len(q) : r[j] = q[j]
    BY <1>3 
  <2>2. Plain(t).type = t
    BY DEF Plain, Msg
  <2>3. i # Len(q) + 1
    BY <2>1, <2>2
  <2> QED
    BY <2>1, <2>3
<1> QED
  BY <1>1, <1>2, <1>3 DEF Quiet

LEMMA QuietNoneTwice ==
  ASSUME NEW M, NEW q \in Seq(M), NEW r \in Seq(M), Quiet(q, r), NoneTwice(q)
  PROVE  NoneTwice(r)
<1> SUFFICES ASSUME NEW i \in 1..Len(r), NEW j \in 1..Len(r),
                    r[i].type = "request", r[j].type = "request", r[i].id = r[j].id
             PROVE  i = j
  BY DEF NoneTwice
<1>1. CASE r = q \/ r = <<>>
  BY <1>1 DEF NoneTwice
<1>2. CASE q # <<>> /\ r = Tail(q)
  <2>1. /\ i + 1 \in 1..Len(q) /\ q[i + 1] = r[i]
        /\ j + 1 \in 1..Len(q) /\ q[j + 1] = r[j]
    BY <1>2, HeadTailProperties
  <2>2. i + 1 = j + 1
    BY <2>1 DEF NoneTwice
  <2> QED
    BY <2>2
<1>3. ASSUME NEW t \in {"subscribe", "open", "close"}, r = Append(q, Plain(t))
      PROVE  i = j
  <2>1. Len(r) = Len(q) + 1 /\ r[Len(q) + 1] = Plain(t)
        /\ \A k \in 1..Len(q) : r[k] = q[k]
    BY <1>3
  <2>2. Plain(t).type = t
    BY DEF Plain, Msg
  <2>3. i # Len(q) + 1 /\ j # Len(q) + 1
    BY <2>1, <2>2
  <2> QED
    BY <2>1, <2>3 DEF NoneTwice
<1> QED
  BY <1>1, <1>2, <1>3 DEF Quiet

LEMMA AppendNoneTwice ==
  ASSUME NEW M, NEW q \in Seq(M), NEW m \in M, NoneTwice(q),
         \A j \in 1..Len(q) : q[j].type = "request" => q[j].id # m.id
  PROVE  NoneTwice(Append(q, m))
<1> DEFINE r == Append(q, m)
<1>1. /\ Len(r) = Len(q) + 1 /\ r[Len(q) + 1] = m
      /\ \A j \in 1..Len(q) : r[j] = q[j]
  BY AppendFacts
<1> HIDE DEF r
<1>2. ASSUME NEW i \in 1..Len(r), NEW j \in 1..Len(r),
             r[i].type = "request", r[j].type = "request", r[i].id = r[j].id
      PROVE  i = j
  <2>1. CASE i \in 1..Len(q) /\ j \in 1..Len(q)
    BY <1>1, <1>2, <2>1 DEF NoneTwice
  <2>2. CASE i = Len(q) + 1 \/ j = Len(q) + 1
    BY <1>1, <1>2, <2>2
  <2>3. Len(q) \in Nat
    OBVIOUS
  <2> QED
    BY <1>1, <2>1, <2>2, <2>3
<1>3. NoneTwice(r)
  BY <1>2 DEF NoneTwice
<1> QED
  BY <1>3 DEF r

LEMMA SendUpQuiet ==
  ASSUME Typed, NEW c \in Sockets, NEW t \in {"subscribe", "close"},
         up' = SendUp(c, Plain(t)), NEW s \in Sockets
  PROVE  Quiet(up[s], up'[s])
BY TypedFacts DEF SendUp, Quiet

LEMMA PanelClosesQuiet ==
  ASSUME Typed, NEW S, PanelCloses(S), NEW s \in Sockets
  PROVE  Quiet(up[s], up'[s]) /\ Quiet(down[s], down'[s])
BY TypedFacts DEF PanelCloses, Quiet

(* What each step puts on its way to the panel. *)
LEMMA UpNext ==
  ASSUME Typed, [Next]_vars, NEW s \in Sockets
  PROVE  \/ Quiet(up[s], up'[s])
         \/ \E r \in Requests : /\ Ask(r) /\ request[r] = "idle" /\ on'[r] = s
                                /\ up'[s] = Append(up[s], Msg("request", r, TRUE))
<1> DEFINE Goal == Quiet(up[s], up'[s])
<1>1. ASSUME UNCHANGED up PROVE Goal
  BY <1>1 DEF Quiet
<1>2. CASE Login \/ ConnectWithToken \/ ConnectWithoutToken \/ Retry
  BY <1>2, <1>1, Zenon
  DEF Login, ConnectWithToken, ConnectWithoutToken, Retry, netVars
<1>3. CASE Logout
  <2>1. CASE UNCHANGED up
    BY <2>1, <1>1
  <2>2. CASE wsRef \in Sockets /\ up' = SendUp(wsRef, Plain("close"))
    BY <2>2, SendUpQuiet
  <2> QED
    BY <1>3, <2>1, <2>2, TypedFacts DEF Logout, CloseSocket
<1>4. ASSUME NEW c \in Sockets, OnOpen(c) PROVE Goal
  BY <1>4, SendUpQuiet DEF OnOpen
<1>5. ASSUME NEW c \in Sockets,
             CloseReceived(c) \/ RefuseConnection(c) \/ LossNoticed(c) \/ AckReceived(c)
      PROVE  Goal
  BY <1>5, <1>1, Zenon DEF CloseReceived, RefuseConnection, LossNoticed, AckReceived
<1>6. ASSUME NEW r \in Requests, Timeout(r) PROVE Goal
  BY <1>6, <1>1, Zenon DEF Timeout, netVars
<1>7. ASSUME NEW r \in Requests, Ask(r)
      PROVE  Goal \/ (/\ Ask(r) /\ request[r] = "idle" /\ on'[r] = s
                      /\ up'[s] = Append(up[s], Msg("request", r, TRUE)))
  BY <1>7, TypedFacts DEF Ask, SendUp, Quiet
<1>8. ASSUME NEW c \in Sockets, Accept(c) PROVE Goal
  BY <1>8, <1>1, Zenon DEF Accept
<1>9. ASSUME NEW c \in Sockets, SubscribeArrives(c) \/ RequestArrives(c) PROVE Goal
  BY <1>9, TypedFacts DEF SubscribeArrives, RequestArrives, Arrives, Take, Quiet
<1>10. ASSUME NEW c \in Sockets, CloseArrives(c) \/ SubscribeTimeout(c) \/ Heartbeat(c)
       PROVE  Goal
  BY <1>10, PanelClosesQuiet, Zenon DEF CloseArrives, SubscribeTimeout, Heartbeat
<1>11. ASSUME NEW r \in Requests, HandlerEnds(r) \/ SendAck(r) PROVE Goal
  BY <1>11, <1>1, Zenon DEF HandlerEnds, SendAck, netVars
<1>12. CASE PanelRestarts
  BY <1>12, PanelClosesQuiet, Zenon DEF PanelRestarts
<1>13. ASSUME NEW c \in Sockets, LinkDies(c) \/ Recycle(c) PROVE Goal
  BY <1>13, TypedFacts DEF LinkDies, Recycle, Quiet
<1>14. CASE UNCHANGED vars
  BY <1>14, <1>1, Zenon DEF vars, netVars
<1> QED
  BY Zenon, <1>2, <1>3, <1>4, <1>5, <1>6, <1>7, <1>8, <1>9, <1>10, <1>11, <1>12,
     <1>13, <1>14 DEF Next, TabStep, PanelStep

(* What each step puts on its way to the tab. *)
LEMMA DownNext ==
  ASSUME Typed, [Next]_vars, NEW s \in Sockets
  PROVE  \/ Quiet(down[s], down'[s])
         \/ \E r \in Requests :
              SendAck(r) /\ down'[s] = Append(down[s], Msg("ack", r, handler[r] = "ok"))
<1> DEFINE Goal == Quiet(down[s], down'[s])
<1>1. ASSUME UNCHANGED down PROVE Goal
  BY <1>1 DEF Quiet
<1>2. CASE Login \/ Logout \/ ConnectWithToken \/ ConnectWithoutToken \/ Retry
  BY <1>2, <1>1, Zenon
  DEF Login, Logout, ConnectWithToken, ConnectWithoutToken, Retry, netVars
<1>3. ASSUME NEW c \in Sockets, OnOpen(c) \/ AckReceived(c) PROVE Goal
  BY <1>3, TypedFacts DEF OnOpen, AckReceived, Readable, Read, Quiet
<1>4. ASSUME NEW c \in Sockets, CloseReceived(c) \/ RefuseConnection(c) \/ LossNoticed(c)
      PROVE  Goal
  <2>1. down' = [down EXCEPT ![c] = <<>>]
    BY <1>4, Zenon DEF CloseReceived, RefuseConnection, LossNoticed, OnClose
  <2> QED
    BY <2>1, TypedFacts DEF Quiet
<1>5. ASSUME NEW r \in Requests, Timeout(r) \/ Ask(r) \/ HandlerEnds(r) PROVE Goal
  BY <1>5, <1>1, Zenon DEF Timeout, Ask, HandlerEnds, netVars
<1>6. ASSUME NEW c \in Sockets, Accept(c) PROVE Goal
  BY <1>6, TypedFacts DEF Accept, SendDown, Quiet
<1>7. ASSUME NEW c \in Sockets, SubscribeArrives(c) \/ RequestArrives(c) PROVE Goal
  BY <1>7, <1>1, Zenon DEF SubscribeArrives, RequestArrives
<1>8. ASSUME NEW c \in Sockets, CloseArrives(c) \/ SubscribeTimeout(c) \/ Heartbeat(c)
       PROVE  Goal
  BY <1>8, PanelClosesQuiet, Zenon DEF CloseArrives, SubscribeTimeout, Heartbeat
<1>9. ASSUME NEW r \in Requests, SendAck(r)
      PROVE  Goal \/ down'[s] = Append(down[s], Msg("ack", r, handler[r] = "ok"))
  <2>1. down' = down \/ down' = [down EXCEPT ![on[r]]
                                   = Append(@, Msg("ack", r, handler[r] = "ok"))]
    BY <1>9, Zenon DEF SendAck, SendDown
  <2> QED
    BY <2>1, TypedFacts DEF Quiet
<1>10. CASE PanelRestarts
  BY <1>10, PanelClosesQuiet, Zenon DEF PanelRestarts
<1>11. ASSUME NEW c \in Sockets, LinkDies(c) \/ Recycle(c) PROVE Goal
  BY <1>11, TypedFacts DEF LinkDies, Recycle, Quiet
<1>12. CASE UNCHANGED vars
  BY <1>12, <1>1, Zenon DEF vars, netVars
<1> QED
  BY Zenon, <1>2, <1>3, <1>4, <1>5, <1>6, <1>7, <1>8, <1>9, <1>10, <1>11, <1>12
  DEF Next, TabStep, PanelStep
-----------------------------------------------------------------------------
(* What a step does to one request at either end.                          *)

LEMMA RequestNext ==
  ASSUME Typed, [Next]_vars, NEW r \in Requests, request[r] # "idle"
  PROVE  request'[r] # "idle" /\ on'[r] = on[r]
<1> DEFINE Goal == request'[r] # "idle" /\ on'[r] = on[r]
<1>1. ASSUME UNCHANGED <<request, on>> PROVE Goal
  BY <1>1
<1>2. CASE Login \/ ConnectWithToken \/ ConnectWithoutToken \/ Retry
  BY <1>2, <1>1, Zenon DEF Login, ConnectWithToken, ConnectWithoutToken, Retry
<1>3. CASE Logout
  BY <1>3, AllRejected DEF Logout
<1>4. ASSUME NEW s \in Sockets, OnOpen(s) \/ Recycle(s) PROVE Goal
  BY <1>4, <1>1, Zenon DEF OnOpen, Recycle
<1>5. ASSUME NEW s \in Sockets, CloseReceived(s) \/ RefuseConnection(s) \/ LossNoticed(s)
      PROVE  Goal
  <2>1. RejectAllPending /\ on' = on
    BY <1>5, Zenon DEF CloseReceived, RefuseConnection, LossNoticed, OnClose
  <2> QED
    BY <2>1, AllRejected
<1>6. ASSUME NEW s \in Sockets, AckReceived(s) PROVE Goal
  BY <1>6, TypedFacts DEF AckReceived
<1>7. ASSUME NEW q \in Requests, Timeout(q) \/ Ask(q) PROVE Goal
  BY <1>7, TypedFacts DEF Timeout, Ask
<1>8. CASE PanelStep \/ PanelRestarts \/ (\E s \in Sockets : LinkDies(s)) \/ UNCHANGED vars
  BY <1>8, <1>1, PanelLeavesTab, Zenon DEF tabVars
<1> QED
  BY Zenon, <1>2, <1>3, <1>4, <1>5, <1>6, <1>7, <1>8 DEF Next, TabStep

(* The steps of the handlers: all else leaves them alone. *)
HandlerStep ==
  \/ \E s \in Sockets : RequestArrives(s)
  \/ \E r \in Requests : HandlerEnds(r) \/ SendAck(r)
  \/ PanelRestarts

LEMMA HandlerNext ==
  ASSUME [Next]_vars
  PROVE  HandlerStep \/ UNCHANGED handler
BY Zenon DEF Next, TabStep, PanelStep, HandlerStep, vars, panelVars, Login, Logout,
   ConnectWithToken, ConnectWithoutToken, Retry, OnOpen, CloseReceived,
   RefuseConnection, LossNoticed, OnClose, AckReceived, Timeout, Ask, Accept,
   SubscribeArrives, CloseArrives, SubscribeTimeout, Heartbeat, LinkDies, Recycle

(* The message that arrives is one of the queue, typed. *)
LEMMA ArrivesFacts ==
  ASSUME Typed, NEW s \in Sockets, Arrives(s, "request")
  PROVE  /\ 1 \in 1..Len(up[s]) /\ up[s][1].type = "request"
         /\ up[s][1] = Head(up[s]) /\ Head(up[s]).id \in Requests
<1>1. up[s] \in Seq(UpMsgs) /\ up[s] # <<>>
  BY TypedFacts DEF Arrives
<1>2. Head(up[s]) \in UpMsgs /\ Head(up[s]) = up[s][1] /\ 1 \in 1..Len(up[s])
  BY <1>1
<1>3. Head(up[s]).type = "request"
  BY DEF Arrives
<1>4. Head(up[s]).id \in Requests
  BY <1>2, <1>3 DEF UpMsgs, Plain, Msg
<1> QED
  BY <1>2, <1>3, <1>4

(* Once a handler has been called, it is never called again; once the ack  *)
(* has been handed to the connection, it stands.                           *)
LEMMA OneHandler ==
  ASSUME Typed, AskedOnce, [Next]_vars, NEW r \in Requests, handler[r] # "none"
  PROVE  /\ handler'[r] # "none"
         /\ handler[r] \in {"ackedOk", "ackedFailed"} => handler'[r] = handler[r]
<1> DEFINE Goal == /\ handler'[r] # "none"
                   /\ handler[r] \in {"ackedOk", "ackedFailed"} => handler'[r] = handler[r]
<1>1. ASSUME NEW s \in Sockets, RequestArrives(s) PROVE Goal
  <2>1. /\ 1 \in 1..Len(up[s]) /\ up[s][1].type = "request"
        /\ up[s][1] = Head(up[s]) /\ Head(up[s]).id \in Requests
    BY <1>1, ArrivesFacts DEF RequestArrives
  <2>2. handler[Head(up[s]).id] = "none"
    BY <2>1 DEF AskedOnce, Unseen
  <2> QED
    BY <1>1, <2>1, <2>2, TypedFacts DEF RequestArrives
<1>2. ASSUME NEW q \in Requests, HandlerEnds(q) PROVE Goal
  BY <1>2, TypedFacts DEF HandlerEnds
<1>3. ASSUME NEW q \in Requests, SendAck(q) PROVE Goal
  BY <1>3, TypedFacts DEF SendAck
<1>4. CASE PanelRestarts
  BY <1>4, TypedFacts DEF PanelRestarts
<1>5. CASE UNCHANGED handler
  BY <1>5
<1> QED
  BY Zenon, <1>1, <1>2, <1>3, <1>4, <1>5, HandlerNext DEF HandlerStep

(* A handler is called because its request arrived. *)
LEMMA CalledByArrival ==
  ASSUME Typed, [Next]_vars, NEW r \in Requests, handler[r] = "none", handler'[r] # "none"
  PROVE  \E s \in Sockets : RequestArrives(s) /\ Head(up[s]).id = r
<1>1. ASSUME NEW s \in Sockets, RequestArrives(s), Head(up[s]).id # r PROVE FALSE
  BY <1>1, TypedFacts DEF RequestArrives
<1>2. ASSUME NEW q \in Requests, HandlerEnds(q) PROVE FALSE
  BY <1>2, TypedFacts DEF HandlerEnds
<1>3. ASSUME NEW q \in Requests, SendAck(q) PROVE FALSE
  BY <1>3, TypedFacts DEF SendAck
<1>4. CASE PanelRestarts
  BY <1>4, TypedFacts DEF PanelRestarts
<1>5. CASE UNCHANGED handler
  BY <1>5
<1> QED
  BY Zenon, <1>1, <1>2, <1>3, <1>4, <1>5, HandlerNext DEF HandlerStep

LEMMA SeenNext ==
  Typed /\ AskedOnce /\ SeenIsAsked /\ [Next]_vars => SeenIsAsked'
<1> SUFFICES ASSUME Typed, AskedOnce, SeenIsAsked, [Next]_vars,
                    NEW r \in Requests, handler'[r] # "none"
             PROVE  request'[r] # "idle"
  BY DEF SeenIsAsked
<1>1. CASE handler[r] # "none"
  BY <1>1, RequestNext DEF SeenIsAsked
<1>2. CASE handler[r] = "none"
  <2>1. PICK s \in Sockets : RequestArrives(s) /\ Head(up[s]).id = r
    BY <1>2, CalledByArrival
  <2>2. 1 \in 1..Len(up[s]) /\ up[s][1].type = "request" /\ up[s][1].id = r
    BY <2>1, ArrivesFacts DEF RequestArrives
  <2>3. request[r] # "idle"
    BY <2>2 DEF AskedOnce, Unseen
  <2> QED
    BY <2>3, RequestNext
<1> QED
  BY <1>1, <1>2

(* What is on its way stays unseen until it arrives. *)
LEMMA StaysUnseen ==
  ASSUME Typed, AskedOnce, [Next]_vars, NEW s \in Sockets, NEW i \in 1..Len(up'[s]),
         Quiet(up[s], up'[s]), up'[s][i].type = "request"
  PROVE  /\ request'[up'[s][i].id] # "idle" /\ on'[up'[s][i].id] = s
         /\ handler'[up'[s][i].id] = "none"
<1> DEFINE r == up'[s][i].id
<1>1. up[s] \in Seq(UpMsgs) /\ up'[s] \in Seq(UpMsgs)
  BY TypeNext, TypedFacts DEF Typed, TypeOK
<1>2. PICK j \in 1..Len(up[s]) : up[s][j] = up'[s][i]
  BY <1>1, QuietKeeps
<1>3. r \in Requests
  BY <1>1 DEF UpMsgs, Plain, Msg
<1>4. request[r] # "idle" /\ on[r] = s /\ handler[r] = "none"
  BY <1>2 DEF AskedOnce, Unseen
<1>5. request'[r] # "idle" /\ on'[r] = on[r]
  BY <1>3, <1>4, RequestNext
<1>6. ASSUME handler'[r] # "none" PROVE FALSE
  <2>1. PICK c \in Sockets : RequestArrives(c) /\ Head(up[c]).id = r
    BY <1>3, <1>4, <1>6, CalledByArrival
  <2>2. 1 \in 1..Len(up[c]) /\ up[c][1].type = "request" /\ up[c][1].id = r
    BY <2>1, ArrivesFacts DEF RequestArrives
  <2>3. c = s
    BY <1>4, <2>2 DEF AskedOnce, Unseen
  <2>4. up'[s] = Tail(up[s]) /\ up[s] # <<>>
    BY <2>1, <2>3, TypedFacts DEF RequestArrives, Arrives, Take
  <2>5. i + 1 \in 1..Len(up[s]) /\ up[s][i + 1] = up'[s][i]
    BY <1>1, <2>4, HeadTailProperties
  <2>6. i + 1 = 1
    BY <2>2, <2>3, <2>5 DEF AskedOnce, NoneTwice
  <2> QED
    BY <2>6
<1> QED
  BY <1>4, <1>5, <1>6

LEMMA AskedOnceNext ==
  Typed /\ SeenIsAsked /\ AskedOnce /\ [Next]_vars => AskedOnce'
<1> SUFFICES ASSUME Typed, SeenIsAsked, AskedOnce, [Next]_vars, NEW s \in Sockets
             PROVE  /\ NoneTwice(up'[s])
                    /\ \A i \in 1..Len(up'[s]) : up'[s][i].type = "request" =>
                         /\ request'[up'[s][i].id] # "idle"
                         /\ on'[up'[s][i].id] = s /\ handler'[up'[s][i].id] = "none"
  BY DEF AskedOnce, NoneTwice, Unseen
<1>1. up[s] \in Seq(UpMsgs) /\ up'[s] \in Seq(UpMsgs)
  BY TypeNext, TypedFacts DEF Typed, TypeOK
<1>2. CASE Quiet(up[s], up'[s])
  <2>1. NoneTwice(up'[s])
    BY <1>1, <1>2, QuietNoneTwice DEF AskedOnce
  <2> QED
    BY <1>2, <2>1, StaysUnseen
<1>3. ASSUME NEW r \in Requests, Ask(r), request[r] = "idle", on'[r] = s,
             up'[s] = Append(up[s], Msg("request", r, TRUE))
      PROVE  /\ NoneTwice(up'[s])
             /\ \A i \in 1..Len(up'[s]) : up'[s][i].type = "request" =>
                  /\ request'[up'[s][i].id] # "idle"
                  /\ on'[up'[s][i].id] = s /\ handler'[up'[s][i].id] = "none"
  <2>1. /\ Len(up'[s]) = Len(up[s]) + 1 /\ up'[s][Len(up[s]) + 1] = Msg("request", r, TRUE)
        /\ \A j \in 1..Len(up[s]) : up'[s][j] = up[s][j]
    <3>1. Msg("request", r, TRUE) \in UpMsgs
      BY MessageTypes
    <3>2. up'[s] = Append(up[s], Msg("request", r, TRUE))
      BY <1>3
    <3> DEFINE q == up[s]
               m == Msg("request", r, TRUE)
    <3>3. q \in Seq(UpMsgs) /\ m \in UpMsgs
      BY <1>1, <3>1
    <3> HIDE DEF q, m
    <3>4. /\ Len(Append(q, m)) = Len(q) + 1 /\ Append(q, m)[Len(q) + 1] = m
          /\ \A j \in 1..Len(q) : Append(q, m)[j] = q[j]
      BY <3>3, AppendFacts
    <3> QED
      BY <3>2, <3>4, Zenon DEF q, m
  <2>2. \A j \in 1..Len(up[s]) : up[s][j].type = "request" => up[s][j].id # r
    BY <1>3 DEF AskedOnce, Unseen
  <2>3. handler' = handler
    BY <1>3 DEF Ask, panelVars
  <2>4. handler[r] = "none"
    BY <1>3 DEF SeenIsAsked
  <2>5. request'[r] # "idle"
    BY <1>3, TypedFacts DEF Ask
  <2>6. NoneTwice(up'[s])
    <3>1. Msg("request", r, TRUE).id = r /\ NoneTwice(up[s])
      BY DEF Msg, AskedOnce
    <3>2. Msg("request", r, TRUE) \in UpMsgs
      BY MessageTypes
    <3>3. NoneTwice(Append(up[s], Msg("request", r, TRUE)))
      BY <1>1, <2>2, <3>1, <3>2, AppendNoneTwice
    <3>4. up'[s] = Append(up[s], Msg("request", r, TRUE))
      BY <1>3
    <3> QED
      BY <3>3, <3>4
  <2>7. ASSUME NEW i \in 1..Len(up[s]), up[s][i].type = "request"
        PROVE  /\ request'[up[s][i].id] # "idle"
               /\ on'[up[s][i].id] = s /\ handler'[up[s][i].id] = "none"
    <3>1. up[s][i].id \in Requests
      BY <1>1, <2>7 DEF UpMsgs, Plain, Msg
    <3>2. /\ request[up[s][i].id] # "idle" /\ on[up[s][i].id] = s
          /\ handler[up[s][i].id] = "none"
      BY <2>7 DEF AskedOnce, Unseen
    <3> QED
      BY <2>3, <3>1, <3>2, RequestNext
  <2> QED
    BY <1>1, <1>3, <2>1, <2>3, <2>4, <2>5, <2>6, <2>7 DEF Msg
<1> QED
  BY <1>2, <1>3, UpNext

LEMMA AcksNext ==
  Typed /\ AskedOnce /\ AcksAreTrue /\ [Next]_vars => AcksAreTrue'
<1> SUFFICES ASSUME Typed, AskedOnce, AcksAreTrue, [Next]_vars, NEW s \in Sockets,
                    NEW i \in 1..Len(down'[s]), down'[s][i].type = "ack"
             PROVE  handler'[down'[s][i].id]
                      = IF down'[s][i].ok THEN "ackedOk" ELSE "ackedFailed"
  BY DEF AcksAreTrue, TrueAck
<1>1. down[s] \in Seq(DownMsgs) /\ down'[s] \in Seq(DownMsgs)
  BY TypeNext, TypedFacts DEF Typed, TypeOK
<1>2. ASSUME NEW j \in 1..Len(down[s]), down[s][j] = down'[s][i]
      PROVE  handler'[down'[s][i].id]
               = IF down'[s][i].ok THEN "ackedOk" ELSE "ackedFailed"
  <2>1. down[s][j].id \in Requests
    BY <1>1, <1>2 DEF DownMsgs, Plain, Msg
  <2>2. handler[down[s][j].id] = IF down[s][j].ok THEN "ackedOk" ELSE "ackedFailed"
    BY <1>2 DEF AcksAreTrue, TrueAck
  <2> QED
    BY <1>2, <2>1, <2>2, OneHandler
<1>3. CASE Quiet(down[s], down'[s])
  BY <1>1, <1>2, <1>3, QuietKeeps
<1>4. ASSUME NEW r \in Requests, SendAck(r),
             down'[s] = Append(down[s], Msg("ack", r, handler[r] = "ok"))
      PROVE  handler'[down'[s][i].id]
               = IF down'[s][i].ok THEN "ackedOk" ELSE "ackedFailed"
  <2>1. /\ Len(down'[s]) = Len(down[s]) + 1
        /\ down'[s][Len(down[s]) + 1] = Msg("ack", r, handler[r] = "ok")
        /\ \A j \in 1..Len(down[s]) : down'[s][j] = down[s][j]
    BY <1>1, <1>4
  <2>2. CASE i = Len(down[s]) + 1
    <3>1. down'[s][i].id = r /\ (down'[s][i].ok <=> handler[r] = "ok")
      <4>1. Msg("ack", r, handler[r] = "ok").id = r
        BY DEF Msg
      <4>2. Msg("ack", r, handler[r] = "ok").ok <=> handler[r] = "ok"
        BY Zenon DEF Msg
      <4> QED
        BY <2>1, <2>2, <4>1, <4>2, Zenon
    <3>2. handler'[r] = IF handler[r] = "ok" THEN "ackedOk" ELSE "ackedFailed"
      BY <1>4, TypedFacts DEF SendAck
    <3> QED
      BY <3>1, <3>2
  <2>3. CASE i # Len(down[s]) + 1
    BY <1>1, <1>2, <2>1, <2>3
  <2> QED
    BY <2>2, <2>3
<1> QED
  BY <1>3, <1>4, DownNext

LEMMA InvInit == Init => IInv
<1>1. Init => AskedOnce /\ AcksAreTrue /\ SeenIsAsked /\ PendingHasSocket /\ PendingIsReachable
  BY DEF Init, AskedOnce, AcksAreTrue, SeenIsAsked, PendingHasSocket, PendingIsReachable,
     NoneTwice
<1> QED
  BY <1>1, TypeInit DEF IInv

LEMMA InvNext == IInv /\ [Next]_vars => IInv'
BY Zenon, TypeNext, PendingNext, SeenNext, AskedOnceNext, AcksNext DEF IInv

LEMMA InvHolds == Spec => []IInv
BY InvInit, InvNext, PTL DEF Spec
-----------------------------------------------------------------------------
(* The refinement of RequestChannel.                                       *)

(* A step that touches neither the requests nor the handlers. *)
LEMMA OthersStutter ==
  ASSUME UNCHANGED <<request, handler>>
  PROVE  UNCHANGED Channel!vars
BY DEF Channel!vars, Told, Done

LEMMA AskRefines ==
  ASSUME IInv, NEW r \in Requests, Ask(r)
  PROVE  Channel!Next
<1>1. handler' = handler /\ request \in [Requests -> RequestStates] /\ request[r] = "idle"
  BY TypedFacts DEF Ask, panelVars, IInv
<1>2. CASE request' = [request EXCEPT ![r] = "pending"]
  <2>1. Channel!Ask(r)
    BY <1>1, <1>2 DEF Channel!Ask, Told, Done
  <2> QED
    BY <2>1 DEF Channel!Next
<1>3. CASE request' = [request EXCEPT ![r] = "gaveUp"]
  <2>1. Channel!GiveUp({r})
    BY <1>1, <1>3 DEF Channel!GiveUp, Told, Done
  <2> QED
    BY <2>1 DEF Channel!Next
<1> QED
  BY <1>2, <1>3 DEF Ask

LEMMA TimeoutRefines ==
  ASSUME IInv, NEW r \in Requests, Timeout(r)
  PROVE  Channel!Next
<1>1. Channel!GiveUp({r})
  BY TypedFacts DEF Timeout, panelVars, IInv, Channel!GiveUp, Told, Done
<1> QED
  BY <1>1 DEF Channel!Next

(* A connection that ends makes every caller give up at once. *)
LEMMA RejectRefines ==
  ASSUME IInv, RejectAllPending, UNCHANGED handler
  PROVE  Channel!Next
<1> DEFINE R == {r \in Requests : request[r] = "pending"}
<1>1. Channel!GiveUp(R)
  BY TypedFacts DEF RejectAllPending, IInv, Channel!GiveUp, Told, Done
<1> QED
  BY <1>1 DEF Channel!Next

LEMMA AckRefines ==
  ASSUME IInv, NEW s \in Sockets, AckReceived(s)
  PROVE  [Channel!Next]_(Channel!vars)
<1> DEFINE m == Head(down[s])
<1>1. /\ handler' = handler /\ request \in [Requests -> RequestStates]
      /\ down[s] \in Seq(DownMsgs) /\ down[s] # <<>> /\ m.type = "ack"
  BY TypedFacts DEF AckReceived, panelVars, IInv, Readable
<1>2. m \in DownMsgs /\ m = down[s][1] /\ 1 \in 1..Len(down[s])
  BY <1>1
<1>3. m.id \in Requests /\ m.ok \in BOOLEAN
  BY <1>1, <1>2 DEF DownMsgs, Plain, Msg
<1>4. handler[m.id] = IF m.ok THEN "ackedOk" ELSE "ackedFailed"
  BY <1>1, <1>2, Zenon DEF IInv, AcksAreTrue, TrueAck
<1>5. CASE readyState[s] = "open" /\ request[m.id] = "pending"
  <2>1. request' = [request EXCEPT ![m.id] = IF m.ok THEN "ok" ELSE "failed"]
    BY <1>1, <1>3, <1>5 DEF AckReceived, Settles
  <2>2. Channel!Tell(m.id)
    BY <1>1, <1>3, <1>4, <1>5, <2>1 DEF Channel!Tell, Told, Done
  <2> QED
    BY <1>3, <2>2 DEF Channel!Next
<1>6. CASE ~(readyState[s] = "open" /\ request[m.id] = "pending")
  <2>1. request' = request
    BY <1>1, <1>3, <1>6 DEF AckReceived, Settles
  <2> QED
    BY <1>1, <2>1, OthersStutter
<1> QED
  BY <1>5, <1>6

(* The handler is called for a request it has not seen. *)
LEMMA ArrivalRefines ==
  ASSUME IInv, NEW s \in Sockets, RequestArrives(s)
  PROVE  Channel!Next
<1> DEFINE r == Head(up[s]).id
<1>1. r \in Requests /\ request[r] # "idle" /\ handler[r] = "none"
  BY ArrivesFacts DEF RequestArrives, IInv, AskedOnce, Unseen
<1>2. request' = request /\ handler' = [handler EXCEPT ![r] = "running"]
  BY DEF RequestArrives, tabVars
<1>3. Channel!Start(r)
  BY <1>1, <1>2, TypedFacts DEF Channel!Start, Told, Done, IInv
<1> QED
  BY <1>1, <1>3 DEF Channel!Next

LEMMA HandlerRefines ==
  ASSUME IInv, NEW r \in Requests, HandlerEnds(r)
  PROVE  Channel!Next
<1>1. request' = request /\ handler \in [Requests -> HandlerStates] /\ handler[r] = "running"
  BY TypedFacts DEF HandlerEnds, tabVars, IInv
<1>2. PICK res \in {"ok", "failed"} : handler' = [handler EXCEPT ![r] = res]
  BY DEF HandlerEnds
<1>3. Channel!End(r)
  BY <1>1, <1>2 DEF Channel!End, Told, Done
<1> QED
  BY <1>3 DEF Channel!Next

LEMMA SendAckStutters ==
  ASSUME IInv, NEW r \in Requests, SendAck(r)
  PROVE  UNCHANGED Channel!vars
<1>1. request' = request /\ handler \in [Requests -> HandlerStates]
  BY TypedFacts DEF SendAck, tabVars, IInv
<1>2. /\ handler[r] \in {"ok", "failed"}
      /\ handler' = [handler EXCEPT ![r] = IF handler[r] = "ok" THEN "ackedOk"
                                           ELSE "ackedFailed"]
  BY DEF SendAck
<1> QED
  BY <1>1, <1>2 DEF Channel!vars, Told, Done

LEMMA RestartRefines ==
  ASSUME IInv, PanelRestarts
  PROVE  Channel!Next
<1> DEFINE R == {r \in Requests : handler[r] \in {"running", "ok", "failed"}}
<1>1. Channel!Lose(R)
  BY TypedFacts DEF PanelRestarts, tabVars, IInv, Channel!Lose, Told, Done
<1> QED
  BY <1>1 DEF Channel!Next

(* No command is carried out before it is asked, and at first none is. *)
LEMMA InitRefines == Init => Channel!Init
BY DEF Init, Channel!Init, Told, Done

LEMMA NextRefines == IInv /\ [Next]_vars => [Channel!Next]_(Channel!vars)
<1> SUFFICES ASSUME IInv, [Next]_vars PROVE [Channel!Next]_(Channel!vars)
  OBVIOUS
<1>1. CASE Login \/ ConnectWithToken \/ ConnectWithoutToken \/ Retry
  BY <1>1, OthersStutter, Zenon
  DEF Login, ConnectWithToken, ConnectWithoutToken, Retry, panelVars
<1>2. CASE Logout
  BY <1>2, RejectRefines, Zenon DEF Logout, panelVars
<1>3. ASSUME NEW s \in Sockets, OnOpen(s) \/ Recycle(s) \/ LinkDies(s)
      PROVE  UNCHANGED Channel!vars
  BY <1>3, OthersStutter, Zenon DEF OnOpen, Recycle, LinkDies, tabVars, panelVars
<1>4. ASSUME NEW s \in Sockets, CloseReceived(s) \/ RefuseConnection(s) \/ LossNoticed(s)
      PROVE  Channel!Next
  BY <1>4, RejectRefines, Zenon
  DEF CloseReceived, RefuseConnection, LossNoticed, OnClose, panelVars
<1>5. ASSUME NEW s \in Sockets,
             Accept(s) \/ SubscribeArrives(s) \/ CloseArrives(s) \/ SubscribeTimeout(s)
               \/ Heartbeat(s)
      PROVE  UNCHANGED Channel!vars
  BY <1>5, OthersStutter, Zenon
  DEF Accept, SubscribeArrives, CloseArrives, SubscribeTimeout, Heartbeat, tabVars
<1>6. CASE UNCHANGED vars
  BY <1>6, OthersStutter, Zenon DEF vars, tabVars, panelVars
<1> QED
  BY Zenon, <1>1, <1>2, <1>3, <1>4, <1>5, <1>6, AckRefines, TimeoutRefines, AskRefines,
     ArrivalRefines, HandlerRefines, SendAckStutters, RestartRefines
  DEF Next, TabStep, PanelStep

(* request() keeps the promises of RequestChannel: over any number of      *)
(* sockets, reconnections, lost links, restarts and timeouts a command is  *)
(* carried out at most once, and the caller who is told how it went is     *)
(* told what the panel found.                                              *)
THEOREM ChannelImplemented == Spec => ImplementsChannel
BY InitRefines, NextRefines, InvHolds, PTL DEF Spec, ImplementsChannel, Channel!Spec
=============================================================================
