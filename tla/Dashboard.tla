------------------------------ MODULE Dashboard ------------------------------
(***************************************************************************)
(* The two bounded lists of the dashboard.  IncidentsService keeps the      *)
(* last incidents of every instance and pushes each new one; the hook       *)
(* useIncidents asks for the list once and then adds what is pushed.        *)
(* MetricsService keeps the last samples of the host.                       *)
(***************************************************************************)
EXTENDS Integers, Sequences, FiniteSets, SequencesExt

CONSTANTS
  ServerIds,
  MAX_BUFFER,     \* incidents kept of an instance
  DEFAULT_LIMIT,  \* incidents of an answer to a request without a limit
  SHOWN,          \* incidents the hook keeps
  MAX_SAMPLES     \* samples kept

Larger(a, b)  == IF a > b THEN a ELSE b
Smaller(a, b) == IF a < b THEN a ELSE b

------------------------------------------------------------------------------
(* IncidentsService.                                                        *)

NoIncidents(now) == [monotonicTs |-> now, buffers |-> [s \in ServerIds |-> <<>>]]

NextTimestamp(service, now) == Larger(now, service.monotonicTs + 1)

NewIncident(service, serverId, id, now) ==
  [id |-> id, serverId |-> serverId, timestamp |-> NextTimestamp(service, now)]

Bounded(list) == IF Len(list) > MAX_BUFFER THEN Tail(list) ELSE list

Recorded(service, incident) ==
  [monotonicTs |-> incident.timestamp,
   buffers |-> [service.buffers EXCEPT ![incident.serverId] = Bounded(Append(@, incident))]]

(* limit is empty when the query has none, or one the schema refuses.       *)
GetIncidents(service, serverId, limit) ==
  LET take   == Smaller(Larger(IF limit = <<>> THEN DEFAULT_LIMIT ELSE limit[1], 1), MAX_BUFFER)
      sorted == SortSeq(service.buffers[serverId], LAMBDA a, b : a.timestamp > b.timestamp)
  IN [serverId |-> serverId, total |-> Len(sorted),
      incidents |-> SubSeq(sorted, 1, Smaller(take, Len(sorted)))]

------------------------------------------------------------------------------
(* useIncidents.  The answer of a request is taken whatever instance the    *)
(* hook is at by then.                                                      *)

Mounted == [serverId |-> "", data |-> <<>>]

At(hook, serverId) ==
  [serverId |-> serverId, data |-> IF serverId = "" THEN <<>> ELSE hook.data]

Answered(hook, response) == [hook EXCEPT !.data = response.incidents]

Pushed(hook, incident) ==
  IF incident.serverId # hook.serverId \/ \E i \in DOMAIN hook.data : hook.data[i].id = incident.id
    THEN hook
    ELSE LET longer == <<incident>> \o hook.data
         IN [hook EXCEPT !.data = SubSeq(longer, 1, Smaller(SHOWN, Len(longer)))]

------------------------------------------------------------------------------
(* MetricsService: of a sample the time, the bytes received and their rate, *)
(* kept as the bytes and the milliseconds it is made of.  What may be null   *)
(* is a sequence of at most one element.                                    *)

NoSamples == [samples |-> <<>>, disk |-> <<>>, last |-> <<>>]

(* The bytes of all interfaces but lo; zero when /proc/net/dev is not read. *)
NetBytes(dev) ==
  FoldLeft(LAMBDA sum, line : IF line.iface = "lo" THEN sum ELSE sum + line.bytes, 0, dev)

Rate(metrics, bytes, now) ==
  LET over(last) == [bytes |-> Larger(0, bytes - last.bytes), ms |-> now - last.at]
  IN IF metrics.last = <<>> \/ Head(metrics.last).at >= now THEN <<>> ELSE <<over(Head(metrics.last))>>

(* df is asked until it has told the size of a disk once.                   *)
Collected(metrics, disks, bytes, now) ==
  LET sample == [timestamp |-> now, bytes |-> bytes, rate |-> Rate(metrics, bytes, now)]
      all    == Append(metrics.samples, sample)
  IN [samples |-> SubSeq(all, Larger(1, Len(all) - MAX_SAMPLES + 1), Len(all)),
      disk    |-> IF metrics.disk = <<>> /\ disks # <<>> THEN <<Head(disks)>> ELSE metrics.disk,
      last    |-> <<[bytes |-> bytes, at |-> now]>>]

GetMetrics(metrics, windowMs, now) ==
  [samples |-> SelectSeq(metrics.samples, LAMBDA s : s.timestamp >= now - windowMs),
   disk    |-> metrics.disk,
   current |-> IF metrics.samples = <<>> THEN <<>> ELSE <<Last(metrics.samples)>>]
=============================================================================
