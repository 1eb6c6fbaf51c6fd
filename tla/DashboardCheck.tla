--------------------------- MODULE DashboardCheck ---------------------------
(* Dashboard with two instances, lists of two and answers of one.           *)
EXTENDS Integers, Sequences, FiniteSets

Dash == INSTANCE Dashboard WITH
          ServerIds <- {"a", "b"}, MAX_BUFFER <- 2, DEFAULT_LIMIT <- 1, SHOWN <- 2,
          MAX_SAMPLES <- 4

(* The dashboard between two requests: the service, the hook, how many      *)
(* incidents were recorded, how often the user chose an instance, and what  *)
(* is on its way to the browser: pushes on the WebSocket, answers on        *)
(* connections of their own.                                                *)
Start == [service |-> Dash!NoIncidents(1), hook |-> Dash!Mounted,
          recorded |-> 0, chosen |-> 0, way |-> <<>>]

MaxRecorded == 3
MaxChosen   == 2

Sent(d, kind, body) == [d EXCEPT !.way = Append(@, [kind |-> kind, body |-> body])]

Record(d, s) ==
  LET incident == Dash!NewIncident(d.service, s, d.recorded + 1, d.recorded)
  IN Sent([d EXCEPT !.service = Dash!Recorded(@, incident), !.recorded = @ + 1], "push", incident)

Choose(d, s) ==
  Sent([d EXCEPT !.hook = Dash!At(@, s), !.chosen = @ + 1],
       "answer", Dash!GetIncidents(d.service, s, <<1>>))

Delivered(d, i) ==
  [d EXCEPT !.way = SubSeq(@, 1, i - 1) \o SubSeq(@, i + 1, Len(@)),
            !.hook = IF d.way[i].kind = "push" THEN Dash!Pushed(@, d.way[i].body)
                                               ELSE Dash!Answered(@, d.way[i].body)]

(* A push does not overtake a push.                                         *)
Deliverable(d, inOrder) ==
  {i \in DOMAIN d.way : IF inOrder THEN i = 1
                        ELSE d.way[i].kind = "push" => \A j \in 1..(i - 1) : d.way[j].kind # "push"}

Nexts(d, inOrder) ==
  {Record(d, s) : s \in {t \in {"a", "b"} : d.recorded < MaxRecorded}}
    \cup {Choose(d, s) : s \in {t \in {"a", "b"} : t # d.hook.serverId /\ d.chosen < MaxChosen}}
    \cup {Delivered(d, i) : i \in Deliverable(d, inOrder)}

(* Every record and every choice takes at most two steps.                   *)
Reached(inOrder) ==
  LET within[n \in 0..(2 * (MaxRecorded + MaxChosen))] ==
        IF n = 0 THEN [all |-> {Start}, last |-> {Start}]
        ELSE LET before == within[n - 1]
                 next   == UNION {Nexts(d, inOrder) : d \in before.last}
             IN [all |-> before.all \cup next, last |-> next]
  IN within[2 * (MaxRecorded + MaxChosen)].all

InOrder  == Reached(TRUE)
AnyOrder == Reached(FALSE)

AtRest(ds) == {d \in ds : d.way = <<>> /\ d.hook.serverId # ""}

Newest(d) == Dash!GetIncidents(d.service, d.hook.serverId, <<1>>).incidents

(* The buffer holds the last two incidents of   its instance in the order   *)
(* they were recorded, though the clock goes back: their times grow.        *)
ASSUME TheLastIncidentsAreKept ==
  \A servers \in [1..4 -> {"a", "b"}], clock \in [1..4 -> {0, 5}] :
    LET after[n \in 0..4] ==
          IF n = 0 THEN Dash!NoIncidents(1)
          ELSE Dash!Recorded(after[n - 1], Dash!NewIncident(after[n - 1], servers[n], n, clock[n]))
        Of(s)  == {n \in 1..4 : servers[n] = s}
        Ids(s) == [i \in DOMAIN after[4].buffers[s] |-> after[4].buffers[s][i].id]
    IN \A s \in {"a", "b"} :
         /\ {Ids(s)[i] : i \in DOMAIN Ids(s)} = {n \in Of(s) : Cardinality({m \in Of(s) : m > n}) < 2}
         /\ \A i, j \in DOMAIN Ids(s) :
              i < j => /\ Ids(s)[i] < Ids(s)[j]
                       /\ after[4].buffers[s][i].timestamp < after[4].buffers[s][j].timestamp
         /\ \A limit \in {<<>>, <<0>>, <<1>>, <<4>>} :
              LET answer == Dash!GetIncidents(after[4], s, limit)
              IN /\ answer.total = Len(Ids(s))
                 /\ \A i \in DOMAIN answer.incidents :
                      answer.incidents[i].id = Ids(s)[Len(Ids(s)) + 1 - i]

(* When answers and pushes arrive in the order they were sent, the list is  *)
(* headed by the newest incidents of the instance it is asked for, also     *)
(* after the user went from one instance to another.                        *)
ASSUME InOrderTheListIsComplete ==
  \A d \in AtRest(InOrder) : SubSeq(d.hook.data, 1, Len(Newest(d))) = Newest(d)

(* In whatever order they arrive, no incident is listed twice.              *)
ASSUME NoIncidentTwice ==
  \A d \in AnyOrder : \A i, j \in DOMAIN d.hook.data :
    i # j => d.hook.data[i].id # d.hook.data[j].id

(* A push that overtakes the answer is lost with the list it was added to,  *)
(* and the late answer for another instance takes the place of the list.    *)
ASSUME SomeAreMissed ==
  /\ \E d \in AtRest(AnyOrder) : d.hook.data = <<>> /\ Newest(d) # <<>>
  /\ \E d \in AtRest(AnyOrder) :
       \E i \in DOMAIN d.hook.data : d.hook.data[i].serverId # d.hook.serverId

------------------------------------------------------------------------------
(* Five samples, five units of time apart, of bytes that only grow; df      *)
(* answers at the second time.  An unreadable /proc/net/dev counts zero.    *)

Dev(n) == <<[iface |-> "lo", bytes |-> 90], [iface |-> "eth0", bytes |-> n], [iface |-> "eth1", bytes |-> 2 * n]>>

Sampled(unread) ==
  LET after[n \in 0..5] ==
        IF n = 0 THEN Dash!NoSamples
        ELSE Dash!Collected(after[n - 1], IF n < 2 THEN <<>> ELSE <<n>>,
                            Dash!NetBytes(IF n \in unread THEN <<>> ELSE Dev(10 * n)), 5 * n)
  IN after

(* No sample of the longest window was dropped when the buffer is longer    *)
(* than the window, and every shorter window is an end of it.               *)
ASSUME TheWindowIsComplete ==
  \A n \in 1..5, window \in {5, 10, 15} :
    LET answer == Dash!GetMetrics(Sampled({})[n], window, 5 * n)
    IN /\ {answer.samples[i].timestamp : i \in DOMAIN answer.samples}
            = {5 * k : k \in {m \in 1..n : 5 * (n - m) <= window}}
       /\ answer.current = <<answer.samples[Len(answer.samples)]>>
       /\ answer.disk = IF n < 2 THEN <<>> ELSE <<2>>

(* No rate is negative.  The rates add up to the bytes received; but after  *)
(* a read that failed one rate is of all bytes since the host booted.       *)
ASSUME RatesAddUp ==
  /\ \A unread \in SUBSET (1..5), n \in 2..5 :
       LET rate == Sampled(unread)[n].samples[Len(Sampled(unread)[n].samples)].rate[1]
       IN /\ rate.ms = 5 /\ rate.bytes >= 0
          /\ n \notin unread => rate.bytes = IF n - 1 \in unread THEN 30 * n ELSE 30
  /\ Sampled({})[1].samples[1].rate = <<>>
=============================================================================
