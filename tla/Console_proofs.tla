-------------------------- MODULE Console_proofs --------------------------
(***************************************************************************)
(* Proofs about Console, for any number of requests and any bounds.        *)
(*                                                                         *)
(* Lines are handed to the callbacks by a walk over arrays, one line after *)
(* another.  What that walk does is proved by induction over the length of *)
(* the arrays: the recursive functions exist (Prefix lemmas), and each     *)
(* line keeps what the handlers rely on (Sound).                           *)
(***************************************************************************)
EXTENDS Console, SequenceTheorems, WellFoundedInduction, TLAPS

-----------------------------------------------------------------------------
(* Induction and lists.                                                    *)

(* A set with 0 and the successor of each of its numbers has them all.     *)
LEMMA SetInduction ==
  ASSUME NEW S, 0 \in S, \A n \in Nat : n \in S => n + 1 \in S
  PROVE  Nat \subseteq S
<1> SUFFICES ASSUME Nat \ S # {} PROVE FALSE
  OBVIOUS
<1> DEFINE T == Nat \ S
<1>1. PICK m \in T : \A k \in T : <<k, m>> \notin OpToRel(<, Nat)
  <2> HIDE DEF T
  <2>1. T \subseteq Nat /\ T # {}
    BY DEF T
  <2> QED
    BY <2>1, WFMin, NatLessThanWellFounded, Zenon
<1>2. m # 0 /\ m \in Nat /\ m \notin S
  OBVIOUS
<1>3. m - 1 \in Nat /\ m - 1 < m
  BY <1>2
<1>4. <<m - 1, m>> \in OpToRel(<, Nat)
  BY <1>2, <1>3 DEF OpToRel
<1>5. m - 1 \in S
  BY <1>1, <1>3, <1>4
<1>6. (m - 1) + 1 \in S
  BY <1>3, <1>5
<1> QED
  BY <1>2, <1>3, <1>6

(* The prefixes of a list without some of its callbacks exist.             *)
Remaining(list, gone, n, g) ==
  g = [i \in 0..n |-> IF i = 0 THEN <<>>
                      ELSE IF list[i] \in gone THEN g[i - 1] ELSE Append(g[i - 1], list[i])]

LEMMA LeftExists ==
  ASSUME NEW list, NEW gone, NEW n \in Nat
  PROVE  \E g : Remaining(list, gone, n, g)
<1> DEFINE S == {k \in Nat : \E g : Remaining(list, gone, k, g)}
<1>1. 0 \in S
  <2> DEFINE g == [i \in 0..0 |-> <<>>]
  <2>1. g = [i \in 0..0 |-> IF i = 0 THEN <<>>
                      ELSE IF list[i] \in gone THEN g[i - 1] ELSE Append(g[i - 1], list[i])]
    OBVIOUS
  <2> QED
    BY <2>1 DEF Remaining
<1>2. ASSUME NEW k \in Nat, k \in S PROVE k + 1 \in S
  <2>1. PICK g : Remaining(list, gone, k, g)
    BY <1>2
  <2> DEFINE h == [i \in 0..(k + 1) |->
                     IF i <= k THEN g[i]
                     ELSE IF list[i] \in gone THEN g[i - 1] ELSE Append(g[i - 1], list[i])]
  <2>2. \A i \in 0..k : h[i] = g[i]
    OBVIOUS
  <2>3. \A i \in 0..(k + 1) :
          h[i] = IF i = 0 THEN <<>>
                 ELSE IF list[i] \in gone THEN h[i - 1] ELSE Append(h[i - 1], list[i])
    <3> TAKE i \in 0..(k + 1)
    <3>1. CASE i = 0
      BY <2>1, <3>1 DEF Remaining
    <3>2. CASE i # 0 /\ i <= k
      <4>1. i - 1 \in 0..k /\ i \in 0..k
        BY <3>2
      <4>2. g[i] = IF list[i] \in gone THEN g[i - 1] ELSE Append(g[i - 1], list[i])
        BY <2>1, <3>2, <4>1 DEF Remaining
      <4> QED
        BY <2>2, <3>2, <4>1, <4>2
    <3>3. CASE i = k + 1
      <4>1. i - 1 \in 0..k
        BY <3>3
      <4> QED
        BY <2>2, <3>3, <4>1
    <3> QED
      BY <3>1, <3>2, <3>3
  <2> HIDE DEF h
  <2>4. h = [i \in 0..(k + 1) |-> h[i]]
    BY DEF h
  <2> QED
    BY <2>3, <2>4 DEF Remaining
<1> HIDE DEF S
<1>3. Nat \subseteq S
  BY <1>1, <1>2, SetInduction
<1> QED
  BY <1>3 DEF S

(* What is left of a list is a list of those that are not gone.            *)
LEMMA WithoutKeeps ==
  ASSUME NEW A, NEW list \in Seq(A), NEW gone
  PROVE  /\ Without(list, gone) \in Seq(A)
         /\ Range(Without(list, gone)) \subseteq Range(list) \ gone
<1> DEFINE n == Len(list)
           g == CHOOSE f : Remaining(list, gone, n, f)
           S == {k \in Nat : k <= n => /\ g[k] \in Seq(A)
                                       /\ Range(g[k]) \subseteq Range(list) \ gone}
<1>1. n \in Nat /\ DOMAIN list = 1..n
  OBVIOUS
<1>2. Remaining(list, gone, n, g)
  BY <1>1, LeftExists, Zenon
<1>3. Without(list, gone) = g[n]
  BY Zenon DEF Without, Remaining
<1> HIDE DEF g, n
<1>4. g[0] = <<>> /\ \A k \in 1..n : g[k] = IF list[k] \in gone THEN g[k - 1]
                                             ELSE Append(g[k - 1], list[k])
  <2>1. \A i \in 0..n : g[i] = IF i = 0 THEN <<>>
                      ELSE IF list[i] \in gone THEN g[i - 1] ELSE Append(g[i - 1], list[i])
    BY <1>2, Zenon DEF Remaining
  <2>2. 0 \in 0..n /\ \A k \in 1..n : k \in 0..n /\ k # 0
    BY <1>1
  <2> QED
    BY <2>1, <2>2, Zenon
<1>6. 0 \in S
  <2>1. <<>> \in Seq(A) /\ Range(<<>>) = {}
    BY EmptySeq DEF Range
  <2> QED
    BY <1>4, <2>1
<1>7. ASSUME NEW k \in Nat, k \in S PROVE k + 1 \in S
  <2> SUFFICES ASSUME k + 1 <= n
               PROVE  g[k + 1] \in Seq(A) /\ Range(g[k + 1]) \subseteq Range(list) \ gone
    OBVIOUS
  <2>1. g[k] \in Seq(A) /\ Range(g[k]) \subseteq Range(list) \ gone
    BY <1>1, <1>7
  <2>2. k + 1 \in 1..n /\ (k + 1) - 1 = k
    BY <1>1
  <2>3. list[k + 1] \in A /\ list[k + 1] \in Range(list)
    BY <1>1, <2>2 DEF Range
  <2>4. CASE list[k + 1] \in gone
    BY <1>4, <2>1, <2>2, <2>4
  <2>5. CASE list[k + 1] \notin gone
    <3>1. g[k + 1] = Append(g[k], list[k + 1])
      BY <1>4, <2>2, <2>5
    <3>2. Range(Append(g[k], list[k + 1])) = Range(g[k]) \cup {list[k + 1]}
      BY <2>1, <2>3, AppendProperties DEF Range
    <3> QED
      BY <2>1, <2>3, <2>5, <3>1, <3>2
  <2> QED
    BY <2>4, <2>5
<1> HIDE DEF S
<1>8. Nat \subseteq S
  BY <1>6, <1>7, SetInduction
<1>9. n \in S
  BY <1>1, <1>8
<1> QED
  BY <1>1, <1>3, <1>9 DEF S
-----------------------------------------------------------------------------
(* One line, and all of them.                                              *)

Stages == {"free", "waits", "settled", "answered", "left"}

(* What the walk keeps, wherever it has got to: nobody is added to a list, *)
(* a request belongs to whoever made it, only what waited and was live is  *)
(* settled or answered well, and whose waiter is in the list still waits   *)
(* or was answered by its poll.  Only a live command collects an outcome.  *)
ByLine(r) == request[r].live /\ request[r].kind \in {"save", "plugin", "about"}

SoundRequest(s, r) ==
  /\ s.req[r].from = request[r].from
  /\ s.req[r].stage \in {"waits", "settled"} =>
       /\ request[r].stage = "waits"
       /\ s.req[r].kind = request[r].kind /\ s.req[r].live = request[r].live
       /\ s.req[r].hit # request[r].hit => request[r].live
  /\ s.req[r].stage = "left" => s.req[r] = request[r]
  /\ s.req[r].kind \in {request[r].kind, None}
  /\ s.req[r].stage = "settled" => ByLine(r)
  /\ (request[r].stage = "waits" /\ s.req[r].stage # "waits" /\ s.req[r].answer = "ok") =>
       ByLine(r)

SoundList(s) ==
  /\ s.data \in Seq(Listeners) /\ s.exit \in Seq(Requests)
  /\ Range(s.data) \subseteq Range(onData)
  /\ \A c \in Range(s.data) : c.role = "waits" => s.req[c.by].stage \in {"waits", "left"}

Sound(s) ==
  /\ s = [req |-> s.req, data |-> s.data, exit |-> s.exit]
  /\ s.req \in [Requests -> RequestsAt(Stages)]
  /\ \A r \in Requests : SoundRequest(s, r)
  /\ SoundList(s)

(* Every callback for lines belongs to a request of its kind that waits,   *)
(* made to the bash that runs, or is the waiter of one that was answered   *)
(* by its poll.                                                            *)
Listens(q) ==
  \/ q.stage = "waits" /\ q.live /\ q.kind \in {"save", "plugin", "about"}
  \/ q.stage = "left"

CallbacksWait == \A c \in Range(onData) : Listens(request[c.by])

LEMMA HearSound ==
  ASSUME NEW s, Sound(s), NEW line, CallbacksWait, onData \in Seq(Listeners),
         request \in [Requests -> AtRest]
  PROVE  Sound(Hear(s, line))
<1> DEFINE called  == Called(s.data, {c \in Range(s.data) : Settling(c, line)})
           settled == {c \in called : Settling(c, line)}
           done    == {c.by : c \in settled}
           heard   == {c.by : c \in {d \in called : d.role = "collects"}}
           after(r) == LET q == s.req[r]
                       IN CASE r \in done /\ q.stage = "left" -> Free
                            [] r \in done /\ q.kind = "save" /\ q.stage = "waits" ->
                                 Done(q, AnswerTo(line))
                            [] r \in heard \cup done /\ q.kind # "save" /\ q.stage # "left" ->
                                 [q EXCEPT !.hit = IF r \in heard THEN Hit(q.kind, @, line) ELSE @,
                                           !.stage = IF r \in done /\ @ = "waits"
                                                     THEN "settled" ELSE @]
                            [] OTHER -> q
           t == [req |-> [r \in Requests |-> after(r)],
                 data |-> Without(s.data, settled), exit |-> Without(s.exit, done)]
<1>1. Hear(s, line) = t
  BY Zenon DEF Hear
<1>2. called \subseteq Range(s.data)
  BY DEF Called, Range
<1>3. s.data \in Seq(Listeners) /\ s.exit \in Seq(Requests) /\ Range(s.data) \subseteq Range(onData)
  BY DEF Sound, SoundList
<1>4. /\ t.data \in Seq(Listeners) /\ Range(t.data) \subseteq Range(s.data) \ settled
      /\ t.exit \in Seq(Requests)
  <2> HIDE DEF settled, done
  <2> QED
    BY <1>3, WithoutKeeps
<1>5. \A c \in settled : c.role = "waits" /\ c \in Range(onData) /\ c \in Listeners
  <2>1. Range(onData) \subseteq Listeners
    BY DEF Range
  <2> QED
    BY <1>2, <1>3, <2>1 DEF Settling
<1>6. \A r \in done \cup heard : request[r].stage = "waits" => ByLine(r)
  <2>1. \A r \in done \cup heard : \E c \in Range(onData) : r = c.by
    BY <1>2, <1>3, <1>5
  <2> HIDE DEF called, settled, done, heard
  <2> QED
    BY <2>1 DEF CallbacksWait, Listens, ByLine
<1> HIDE DEF called, settled, done, heard
<1>7. ASSUME NEW r \in Requests
      PROVE  /\ after(r) \in RequestsAt(Stages)
             /\ SoundRequest(t, r)
             /\ r \notin done => after(r).stage = s.req[r].stage
  <2> DEFINE q == s.req[r]
  <2>1. q \in RequestsAt(Stages) /\ SoundRequest(s, r)
    BY DEF Sound
  <2>2. t.req[r] = after(r)
    OBVIOUS
  <2>3. CASE r \in done /\ q.stage = "left"
    <3>1. after(r) = Free
      BY <2>3, Zenon
    <3>2. request[r].from = None /\ request[r].stage = "left"
      <4>1. request[r] \in AtRest /\ request[r] = q
        BY <2>1, <2>3 DEF SoundRequest
      <4> HIDE DEF q
      <4> QED
        BY <2>3, <4>1 DEF AtRest, RequestsAt
    <3>3. /\ Free \in RequestsAt(Stages) /\ Free.from = None /\ Free.kind = None
          /\ Free.stage = "free"
      BY DEF Free, RequestsAt, Stages
    <3> HIDE DEF after, t, q
    <3> QED
      BY <2>2, <2>3, <3>1, <3>2, <3>3 DEF SoundRequest
  <2>4. CASE r \in done /\ q.kind = "save" /\ q.stage = "waits"
    <3>1. after(r) = [kind |-> None, from |-> q.from, stage |-> "answered", live |-> FALSE,
                      hit |-> None, answer |-> AnswerTo(line)]
      <4>1. after(r) = Done(q, AnswerTo(line))
        <5>1. q.stage # "left"
          BY <2>4
        <5> QED
          BY <2>4, <5>1, Zenon
      <4> HIDE DEF after, q
      <4> QED
        BY <4>1 DEF Done, Free
    <3>2. q.from \in {"page", "other", None} /\ AnswerTo(line) \in {"ok", "error", None}
      BY <2>1 DEF RequestsAt, AnswerTo
    <3> HIDE DEF after, t, q
    <3>3. after(r) \in RequestsAt(Stages)
      BY <3>1, <3>2 DEF RequestsAt, Stages
    <3> USE DEF q
    <3> QED
      BY <1>6, <2>1, <2>2, <2>4, <3>1, <3>3 DEF SoundRequest
  <2>5. CASE /\ ~(r \in done /\ q.stage = "left")
             /\ ~(r \in done /\ q.kind = "save" /\ q.stage = "waits")
             /\ r \in heard \cup done /\ q.kind # "save" /\ q.stage # "left"
    <3> DEFINE hit == IF r \in heard THEN Hit(q.kind, q.hit, line) ELSE q.hit
               stage == IF r \in done /\ q.stage = "waits" THEN "settled" ELSE q.stage
    <3>1. after(r) = [q EXCEPT !.hit = hit, !.stage = stage]
      BY <2>5, Zenon
    <3>2. hit \in {"ok", "error", None}
      BY <2>1 DEF Hit, RequestsAt
    <3>3. stage \in Stages
      BY <2>1 DEF RequestsAt, Stages
    <3>4. /\ stage \in {"waits", "settled"} => q.stage \in {"waits", "settled"}
          /\ stage = "settled" => r \in done \/ q.stage = "settled"
          /\ stage # "left"
          /\ stage # "waits" => r \in done \/ q.stage # "waits"
          /\ r \notin done => stage = q.stage
          /\ hit # q.hit => r \in heard
      BY <2>5
    <3> HIDE DEF hit, after, t
    <3>5. /\ after(r) \in RequestsAt(Stages)
          /\ after(r).kind = q.kind /\ after(r).from = q.from /\ after(r).live = q.live
          /\ after(r).stage = stage /\ after(r).answer = q.answer /\ after(r).hit = hit
      BY <2>1, <3>1, <3>2, <3>3 DEF RequestsAt
    <3> HIDE DEF stage
    <3> QED
      BY <1>6, <2>1, <2>2, <3>4, <3>5 DEF SoundRequest, ByLine
  <2>6. CASE /\ ~(r \in done /\ q.stage = "left")
             /\ ~(r \in done /\ q.kind = "save" /\ q.stage = "waits")
             /\ ~(r \in heard \cup done /\ q.kind # "save" /\ q.stage # "left")
    <3>1. after(r) = q
      BY <2>6, Zenon
    <3> HIDE DEF after, t
    <3> QED
      BY <2>1, <2>2, <3>1 DEF SoundRequest
  <2> QED
    BY <2>3, <2>4, <2>5, <2>6
<1> HIDE DEF t, after
<1>8. \A c \in Range(t.data) : c.role = "waits" => t.req[c.by].stage \in {"waits", "left"}
  <2> SUFFICES ASSUME NEW c \in Range(t.data), c.role = "waits"
               PROVE  t.req[c.by].stage \in {"waits", "left"}
    OBVIOUS
  <2>1. c \in Range(s.data) /\ c \notin settled /\ c \in Listeners
    <3>1. Range(t.data) \subseteq Listeners
      BY <1>4 DEF Range
    <3> QED
      BY <1>4, <3>1
  <2>2. s.req[c.by].stage \in {"waits", "left"}
    BY <2>1 DEF Sound, SoundList
  <2>3. c.by \notin done
    <3>1. SUFFICES ASSUME NEW d \in settled, d.by = c.by PROVE FALSE
      BY DEF done
    <3>2. d.role = "waits" /\ d \in Listeners
      BY <1>5
    <3>3. d = c
      BY <2>1, <3>1, <3>2 DEF Listeners
    <3> QED
      BY <2>1, <3>3
  <2>4. c.by \in Requests
    BY <2>1 DEF Listeners
  <2>5. t.req[c.by].stage = s.req[c.by].stage
    BY <1>7, <2>3, <2>4 DEF t
  <2> QED
    BY <2>2, <2>5
<1>9. t.req \in [Requests -> RequestsAt(Stages)]
  BY <1>7 DEF t
<1>10. t = [req |-> t.req, data |-> t.data, exit |-> t.exit]
  BY DEF t
<1> QED
  BY <1>1, <1>3, <1>4, <1>7, <1>8, <1>9, <1>10 DEF Sound, SoundList

(* The prefixes of hearing one line after another exist.                   *)
Told(state, seq, n, g) ==
  g = [i \in 0..n |-> IF i = 0 THEN state ELSE Hear(g[i - 1], seq[i])]

LEMMA ToldExists ==
  ASSUME NEW state, NEW seq, NEW n \in Nat
  PROVE  \E g : Told(state, seq, n, g)
<1> DEFINE S == {k \in Nat : \E g : Told(state, seq, k, g)}
<1>1. 0 \in S
  <2> DEFINE g == [i \in 0..0 |-> state]
  <2>1. g = [i \in 0..0 |-> IF i = 0 THEN state ELSE Hear(g[i - 1], seq[i])]
    OBVIOUS
  <2> QED
    BY <2>1 DEF Told
<1>2. ASSUME NEW k \in Nat, k \in S PROVE k + 1 \in S
  <2>1. PICK g : Told(state, seq, k, g)
    BY <1>2
  <2> DEFINE h == [i \in 0..(k + 1) |-> IF i <= k THEN g[i] ELSE Hear(g[i - 1], seq[i])]
  <2>2. \A i \in 0..k : h[i] = g[i]
    OBVIOUS
  <2>3. \A i \in 0..(k + 1) : h[i] = IF i = 0 THEN state ELSE Hear(h[i - 1], seq[i])
    <3> TAKE i \in 0..(k + 1)
    <3>1. CASE i = 0
      <4>1. 0 \in 0..k
        OBVIOUS
      <4>2. g[0] = state
        BY <2>1, <4>1, Zenon DEF Told
      <4> QED
        BY <2>2, <3>1, <4>1, <4>2
    <3>2. CASE i # 0 /\ i <= k
      <4>1. i - 1 \in 0..k /\ i \in 0..k
        BY <3>2
      <4>2. g[i] = Hear(g[i - 1], seq[i])
        BY <2>1, <3>2, <4>1 DEF Told
      <4> QED
        BY <2>2, <3>2, <4>1, <4>2
    <3>3. CASE i = k + 1
      <4>1. i - 1 \in 0..k
        BY <3>3
      <4> QED
        BY <2>2, <3>3, <4>1
    <3> QED
      BY <3>1, <3>2, <3>3
  <2> HIDE DEF h
  <2>4. h = [i \in 0..(k + 1) |-> h[i]]
    BY DEF h
  <2>5. Told(state, seq, k + 1, h)
    BY <2>3, <2>4, Zenon DEF Told
  <2> QED
    BY <2>5
<1> HIDE DEF S
<1>3. Nat \subseteq S
  BY <1>1, <1>2, SetInduction
<1> QED
  BY <1>3 DEF S

LEMMA HearAllSound ==
  ASSUME NEW state, Sound(state), NEW A, NEW seq \in Seq(A), CallbacksWait,
         onData \in Seq(Listeners), request \in [Requests -> AtRest]
  PROVE  Sound(HearAll(state, seq))
<1> DEFINE n == Len(seq)
           g == CHOOSE f : Told(state, seq, n, f)
           S == {k \in Nat : k <= n => Sound(g[k])}
<1>1. n \in Nat
  OBVIOUS
<1>2. Told(state, seq, n, g)
  BY <1>1, ToldExists, Zenon
<1>3. HearAll(state, seq) = g[n]
  BY Zenon DEF HearAll, Told
<1> HIDE DEF g, n
<1>4. g[0] = state /\ \A k \in 1..n : g[k] = Hear(g[k - 1], seq[k])
  <2>1. \A i \in 0..n : g[i] = IF i = 0 THEN state ELSE Hear(g[i - 1], seq[i])
    BY <1>2, Zenon DEF Told
  <2>2. 0 \in 0..n /\ \A k \in 1..n : k \in 0..n /\ k # 0
    BY <1>1
  <2> QED
    BY <2>1, <2>2, Zenon
<1>5. 0 \in S
  BY <1>4
<1>6. ASSUME NEW k \in Nat, k \in S PROVE k + 1 \in S
  <2> SUFFICES ASSUME k + 1 <= n PROVE Sound(g[k + 1])
    OBVIOUS
  <2>1. Sound(g[k])
    BY <1>1, <1>6
  <2>2. k + 1 \in 1..n /\ (k + 1) - 1 = k
    BY <1>1
  <2>3. g[k + 1] = Hear(g[k], seq[k + 1])
    BY <1>4, <2>2
  <2>4. Sound(Hear(g[k], seq[k + 1]))
    BY <2>1, HearSound, Zenon
  <2> QED
    BY <2>3, <2>4, Zenon
<1> HIDE DEF S
<1>7. Nat \subseteq S
  BY <1>5, <1>6, SetInduction
<1>8. n \in S
  BY <1>1, <1>7
<1> QED
  BY <1>1, <1>3, <1>8 DEF S

(* Before the first line nothing is changed.                               *)
LEMMA CallbacksSound ==
  ASSUME request \in [Requests -> AtRest],
         onData \in Seq(Listeners), onExit \in Seq(Requests), CallbacksWait
  PROVE  Sound(Callbacks)
<1> DEFINE s == Callbacks
<1>1. /\ s.req = request /\ s.data = onData /\ s.exit = onExit
      /\ s = [req |-> s.req, data |-> s.data, exit |-> s.exit]
  BY DEF Callbacks
<1> HIDE DEF s
<1>2. s.req \in [Requests -> RequestsAt(Stages)]
  <2>1. AtRest \subseteq RequestsAt(Stages)
    BY DEF AtRest, RequestsAt, Stages, Kinds
  <2> QED
    BY <1>1, <2>1
<1>3. \A r \in Requests : SoundRequest(s, r)
  <2> TAKE r \in Requests
  <2>1. /\ request[r].stage \in {"free", "waits", "answered", "left"}
        /\ (request[r].stage = "waits" /\ request[r].stage # "waits") => FALSE
    BY DEF AtRest, RequestsAt
  <2> QED
    BY <1>1, <2>1 DEF SoundRequest
<1>4. SoundList(s)
  BY <1>1 DEF SoundList, CallbacksWait, Listens
<1> QED
  BY <1>1, <1>2, <1>3, <1>4 DEF Sound, s

(* The handlers that go on after the lines: nobody is settled any more.    *)
LEMMA ResumedSound ==
  ASSUME NEW s, Sound(s), NEW r \in Requests, request \in [Requests -> AtRest]
  PROVE  LET q == Resumed(s.req)[r] IN
         /\ q \in AtRest
         /\ q.from = request[r].from
         /\ q.stage = "waits" => /\ s.req[r].stage = "waits" /\ request[r].stage = "waits"
                                 /\ q.kind = request[r].kind /\ q.live = request[r].live
                                 /\ q.hit # request[r].hit => request[r].live
         /\ s.req[r].stage \in {"waits", "left"} => q = s.req[r]
         /\ q.kind \in {request[r].kind, None}
         /\ (request[r].stage = "waits" /\ q.stage # "waits" /\ q.answer = "ok") => ByLine(r)
<1> DEFINE p == s.req[r]
           q == Resumed(s.req)[r]
<1>1. p \in RequestsAt(Stages) /\ SoundRequest(s, r) /\ request[r] \in AtRest
  BY DEF Sound
<1>2. CASE p.stage = "settled"
  <2> DEFINE answer == IF p.hit = None THEN "error" ELSE p.hit
  <2>1. q = [kind |-> None, from |-> p.from, stage |-> "answered", live |-> FALSE,
             hit |-> None, answer |-> answer]
    BY <1>2 DEF Resumed, Done, Free
  <2>2. p.from \in {"page", "other", None} /\ answer \in {"ok", "error", None}
    BY <1>1 DEF RequestsAt
  <2> HIDE DEF answer, q
  <2>3. q \in AtRest /\ q.from = p.from /\ q.stage = "answered" /\ q.kind = None
    BY <2>1, <2>2 DEF AtRest, RequestsAt
  <2> QED
    BY <1>1, <1>2, <2>3 DEF SoundRequest, q
<1>3. CASE p.stage # "settled"
  <2>1. q = p
    BY <1>3 DEF Resumed
  <2> HIDE DEF q
  <2>2. q \in AtRest
    <3>1. CASE p.stage = "left"
      BY <1>1, <2>1, <3>1 DEF SoundRequest
    <3>2. CASE p.stage # "left"
      BY <1>1, <1>3, <2>1, <3>2 DEF AtRest, RequestsAt, Stages
    <3> QED
      BY <3>1, <3>2
  <2> QED
    BY <1>1, <2>1, <2>2 DEF SoundRequest, q
<1> QED
  BY <1>2, <1>3
-----------------------------------------------------------------------------
(* The inductive invariant.                                                *)

(* While the panel is up at most one write is under way, of what the       *)
(* memory says; without one the file says it, unless the last one failed.  *)
(* The mutations that wait have not touched anything.                      *)
DiskFollows ==
  /\ Len(writes) <= 1 /\ (writes # <<>> => writes[1].content = record)
  /\ (Up /\ writes = <<>> /\ saved) => file = record
  /\ ~Up => writes = <<>>

(* The commands of LDM are not the page's.                                 *)
Elsewhere(q) == q.kind \in {"plugin", "about"} => q.from # "page"

LdmElsewhere == \A r \in Requests : Elsewhere(request[r])

IInv == TypeOK /\ CallbacksWait /\ LdmElsewhere /\ DiskFollows /\ ButtonsComeBack

LEMMA InitIInv == Init => IInv
<1> SUFFICES ASSUME Init PROVE IInv
  OBVIOUS
<1> USE DEF Init, SessionsInit, PageInit
<1>1. SessionsTypeOK /\ PageTypeOK /\ {running, killed} \subseteq BOOLEAN
  <2>1. <<>> \in Seq(Mutations) /\ <<>> \in Seq([by : Mutations, content : Records])
        /\ Len(<<>>) <= MaxQueue
    BY ConsoleAssumption, EmptySeq
  <2>2. record \in Records /\ file \in Records \cup {"missing"}
    BY DEF Records
  <2>3. saved \in BOOLEAN /\ asking \in BOOLEAN /\ {running, killed} \subseteq BOOLEAN
    BY Zenon
  <2> QED
    BY <2>1, <2>2, <2>3, Zenon DEF SessionsTypeOK, PageTypeOK
<1>2. /\ lines \in Seq(Lines) /\ Len(lines) <= Capacity
      /\ input \in Seq(Commands) /\ Len(input) <= MaxInput
      /\ onData \in Seq(Listeners) /\ onExit \in Seq(Requests)
  <2>1. Len(<<>>) <= Capacity /\ Len(<<>>) <= MaxInput
    BY ConsoleAssumption
  <2> QED
    BY <2>1, EmptySeq
<1>3. request \in [Requests -> AtRest]
  BY DEF Free, AtRest, RequestsAt
<1>4. CallbacksWait
  BY DEF CallbacksWait, Range
<1>5. DiskFollows
  BY DEF DiskFollows, Up
<1>6. LdmElsewhere
  BY ConsoleAssumption DEF LdmElsewhere, Elsewhere, Free
<1> QED
  BY <1>1, <1>2, <1>3, <1>4, <1>5, <1>6 DEF IInv, TypeOK, ButtonsComeBack
-----------------------------------------------------------------------------
(* What a step does to the records of the terminal.                        *)

Kind1 == {<<"save">>, <<"touch">>, <<"deactivate">>, <<"mark">>, <<"cleanup">>, <<"remove">>}

RecordChange ==
  \/ /\ UNCHANGED sessionVars \/ \E kinds \in Kind1 : Enqueue(kinds)
     /\ phase' = phase \/ (Up /\ Up')
  \/ BeginMutation /\ Up /\ Up'
  \/ (\E i \in DOMAIN writes : WriteEnds(i) \/ WriteFails(i)) /\ Up /\ Up'
  \/ Initialize /\ ~Up /\ Up'
  \/ SessionsDie /\ Up /\ ~Up'

LEMMA RecordSteps == Next => RecordChange
<1> SUFFICES ASSUME Next PROVE RecordChange
  OBVIOUS
<1> USE DEF Up
<1>1. ASSUME NEW kinds \in Kind1, Record(kinds)
      PROVE  UNCHANGED sessionVars \/ \E k \in Kind1 : Enqueue(k)
  BY <1>1, Zenon DEF Record
<1>2. /\ <<"save">> \in Kind1 /\ <<"touch">> \in Kind1 /\ <<"deactivate">> \in Kind1
      /\ <<"mark">> \in Kind1 /\ <<"cleanup">> \in Kind1 /\ <<"remove">> \in Kind1
  BY DEF Kind1
<1>3. ASSUME TerminalStep PROVE RecordChange
  BY <1>1, <1>2, <1>3, Zenon
  DEF TerminalStep, StartBash, StartGame, GameLoads, GameEnds, GameReads, BashReads,
      TypeInTerminal, FlushLines, FlushChunks, BashExit, BashIsGone, ForceKill, RecordChange
<1>4. ASSUME NEW r \in Requests, RequestStep(r) PROVE RecordChange
  BY <1>4, Zenon
  DEF RequestStep, OtherAsks, PressSave, ConfirmShutdown, Answer, PageTimesOut, TimerFires,
      PollHits, TimerOfLeft, Quiet, RecordChange
<1>5. ASSUME HandleSend \/ PageStep PROVE RecordChange
  BY <1>5, Zenon DEF HandleSend, Quiet, PageStep, RecordChange
<1>6. CASE Boot
  <2>1. phase = "down" /\ phase' = "up" /\ Initialize
    BY <1>6, Zenon DEF Boot
  <2> QED
    BY <2>1, Zenon DEF RecordChange
<1>7. CASE Signal
  <2>1. phase # "down" /\ phase' # "down"
    BY <1>7 DEF Signal
  <2> QED
    BY <1>1, <1>2, <1>7, <2>1, Zenon DEF Signal, RecordChange
<1>8. CASE CloseSockets
  <2>1. phase # "down" /\ phase' # "down" /\ UNCHANGED sessionVars
    BY <1>8 DEF CloseSockets
  <2> QED
    BY <2>1, Zenon DEF RecordChange
<1>9. CASE DestroyTerminals
  <2>1. phase # "down" /\ phase' # "down" /\ UNCHANGED sessionVars
    BY <1>9 DEF DestroyTerminals
  <2> QED
    BY <2>1, Zenon DEF RecordChange
<1>10. CASE PanelEnds
  BY <1>10, Zenon DEF PanelEnds, RecordChange
<1>11. CASE SessionStep
  BY <1>2, <1>11, Zenon DEF SessionStep, RecordChange
<1> QED
  BY <1>3, <1>4, <1>5, <1>6, <1>7, <1>8, <1>9, <1>10, <1>11, Zenon DEF Next, PanelStep

(* A write that has ended or failed is taken out of those under way.       *)
LEMMA Removed ==
  ASSUME NEW A, NEW s \in Seq(A), NEW i \in DOMAIN s
  PROVE  /\ RemoveAt(s, i) \in Seq(A)
         /\ Len(RemoveAt(s, i)) = Len(s) - 1
<1> DEFINE a == SubSeq(s, 1, i - 1)
           b == SubSeq(s, i + 1, Len(s))
<1>1. i \in 1..Len(s) /\ Len(s) \in Nat
  OBVIOUS
<1>2. a \in Seq(A) /\ Len(a) = i - 1
  BY <1>1, SubSeqProperties
<1>3. b \in Seq(A) /\ Len(b) = Len(s) - i
  BY <1>1, SubSeqProperties
<1>4. RemoveAt(s, i) = a \o b
  BY DEF RemoveAt
<1> HIDE DEF a, b
<1>5. a \o b \in Seq(A) /\ Len(a \o b) = Len(a) + Len(b)
  BY <1>2, <1>3, ConcatProperties
<1> QED
  BY <1>1, <1>2, <1>3, <1>4, <1>5

LEMMA RecordsTyped ==
  ASSUME SessionsTypeOK, RecordChange
  PROVE  SessionsTypeOK'
<1> USE DEF SessionsTypeOK
<1>1. CASE UNCHANGED sessionVars
  BY <1>1 DEF sessionVars
<1>2. ASSUME NEW kinds \in Kind1, Enqueue(kinds) PROVE SessionsTypeOK'
  <2>1. PICK kind \in Mutations : kinds = <<kind>>
    BY DEF Kind1, Mutations
  <2>2. mutations \o kinds \in Seq(Mutations) /\ Len(mutations \o kinds) = Len(mutations) + Len(kinds)
    BY <2>1, ConcatProperties
  <2> QED
    BY <1>2, <2>2, Zenon DEF Enqueue
<1>3. CASE BeginMutation
  <2>1. Tail(mutations) \in Seq(Mutations) /\ Len(Tail(mutations)) <= MaxQueue
        /\ Head(mutations) \in Mutations
    BY <1>3, ConsoleAssumption, HeadTailProperties DEF BeginMutation
  <2>2. Mutated(Head(mutations)) \subseteq Records
    BY <2>1 DEF Mutated, Records, Mutations
  <2>3. PICK r \in Mutated(Head(mutations)) :
          /\ record' = r
          /\ writes' = IF Saves(Head(mutations), r)
                       THEN <<[by |-> Head(mutations), content |-> r]>> ELSE <<>>
    BY <1>3 DEF BeginMutation
  <2>4. writes' \in Seq([by : Mutations, content : Records])
    <3> DEFINE W == [by : Mutations, content : Records]
               w == [by |-> Head(mutations), content |-> r]
    <3>1. w \in W
      BY <2>1, <2>2, <2>3
    <3> HIDE DEF W, w
    <3>2. <<w>> \in Seq(W) /\ <<>> \in Seq(W)
      BY <3>1
    <3> QED
      BY <2>3, <3>2 DEF W, w
  <2> QED
    BY <1>3, <2>1, <2>2, <2>3, <2>4 DEF BeginMutation
<1>4. ASSUME NEW i \in DOMAIN writes, WriteEnds(i) \/ WriteFails(i) PROVE SessionsTypeOK'
  <2>1. writes \in Seq([by : Mutations, content : Records])
    BY Zenon
  <2> HIDE DEF SessionsTypeOK
  <2>2. writes[i].content \in Records
    <3> DEFINE W == [by : Mutations, content : Records]
    <3> HIDE DEF W
    <3>1. \A s \in Seq(W) : \A k \in DOMAIN s : s[k] \in W
      OBVIOUS
    <3>2. writes[i] \in W
      BY <2>1, <3>1, Zenon DEF W
    <3> QED
      BY <3>2 DEF W
  <2>3. RemoveAt(writes, i) \in Seq([by : Mutations, content : Records])
    BY <2>1, Removed, Zenon
  <2> USE DEF SessionsTypeOK
  <2>4. writes' = RemoveAt(writes, i) /\ UNCHANGED <<record, mutations>>
        /\ file' \in {file, writes[i].content} /\ saved' \in BOOLEAN
    BY <1>4, Zenon DEF WriteEnds, WriteFails
  <2> QED
    BY <2>2, <2>3, <2>4
<1>5. CASE Initialize
  BY <1>5 DEF Initialize, Records
<1>6. CASE SessionsDie
  <2>1. mutations' \in Seq(Mutations) /\ Len(mutations') <= MaxQueue
    BY <1>6, ConsoleAssumption, EmptySeq DEF SessionsDie
  <2> QED
    BY <1>6, <2>1 DEF SessionsDie, Records
<1> QED
  BY <1>1, <1>2, <1>3, <1>4, <1>5, <1>6, Zenon DEF RecordChange

(* Only a mutation changes what the memory says, and it leaves it to its   *)
(* write to tell the file; what need not be saved has changed nothing.     *)
LEMMA DiskNext ==
  ASSUME SessionsTypeOK, DiskFollows, RecordChange
  PROVE  DiskFollows'
<1>1. CASE UNCHANGED <<record, file, writes, saved>> /\ (phase' = phase \/ (Up /\ Up'))
  BY <1>1 DEF DiskFollows, Up
<1>2. CASE BeginMutation /\ Up /\ Up'
  <2>1. PICK r \in Mutated(Head(mutations)) :
          /\ record' = r
          /\ writes' = IF Saves(Head(mutations), r)
                       THEN <<[by |-> Head(mutations), content |-> r]>> ELSE <<>>
    BY <1>2 DEF BeginMutation
  <2>2. writes = <<>> /\ UNCHANGED <<file, saved>>
    BY <1>2 DEF BeginMutation
  <2>3. Head(mutations) \in Mutations
    BY <1>2 DEF SessionsTypeOK, BeginMutation
  <2>4. CASE Saves(Head(mutations), r)
    BY <1>2, <2>1, <2>4 DEF DiskFollows
  <2>5. CASE ~Saves(Head(mutations), r)
    <3>1. r = record
      BY <2>1, <2>3, <2>5 DEF Saves, Mutated, Mutations
    <3> QED
      BY <1>2, <2>1, <2>2, <2>5, <3>1 DEF DiskFollows
  <2> QED
    BY <2>4, <2>5
<1>3. ASSUME NEW i \in DOMAIN writes, WriteEnds(i) \/ WriteFails(i), Up, Up' PROVE DiskFollows'
  <2>0. writes \in Seq([by : Mutations, content : Records])
    BY Zenon DEF SessionsTypeOK
  <2>1. Len(writes) = 1 /\ i = 1 /\ writes[i].content = record
    <3>1. Len(writes) \in Nat /\ i \in 1..Len(writes) /\ Len(writes) <= 1
      BY <2>0 DEF DiskFollows
    <3>2. i = 1 /\ Len(writes) = 1
      <4>1. \A n \in Nat : n <= 1 => \A k \in 1..n : k = 1 /\ n = 1
        OBVIOUS
      <4> QED
        BY <3>1, <4>1, Zenon
    <3>3. writes # <<>>
      BY <2>0, <3>2, EmptySeq
    <3> QED
      BY <3>2, <3>3 DEF DiskFollows
  <2>2. /\ RemoveAt(writes, i) \in Seq([by : Mutations, content : Records])
        /\ Len(RemoveAt(writes, i)) = 0
    BY <2>0, <2>1, Removed
  <2>3. writes' = <<>>
    BY <1>3, <2>2 DEF WriteEnds, WriteFails
  <2>4. CASE WriteEnds(i)
    BY <1>3, <2>1, <2>3, <2>4 DEF WriteEnds, DiskFollows
  <2>5. CASE WriteFails(i)
    BY <1>3, <2>3, <2>5 DEF WriteFails, DiskFollows
  <2> QED
    BY <1>3, <2>4, <2>5
<1>4. CASE Initialize /\ ~Up /\ Up'
  BY <1>4 DEF Initialize, DiskFollows
<1>5. CASE SessionsDie /\ Up /\ ~Up'
  BY <1>5 DEF SessionsDie, DiskFollows
<1> QED
  BY <1>1, <1>2, <1>3, <1>4, <1>5, Zenon DEF RecordChange, Enqueue, sessionVars
-----------------------------------------------------------------------------
(* What a step does to the page and to the terminal.                       *)

Shown == {confirm, None} \cup Handed \cup {Command(w, 0) : w \in Presets}

PageChange ==
  /\ confirm' \in Shown
  /\ asking' \in {asking, TRUE, FALSE}
  /\ pending' \in {pending, None, "save", "shutdown"}

LEMMA PageSteps == Next => PageChange
<1> SUFFICES ASSUME Next PROVE PageChange
  OBVIOUS
<1>1. /\ confirm \in Shown /\ None \in Shown
      /\ \A c \in Handed : c \in Shown
      /\ \A w \in Presets : Command(w, 0) \in Shown
  BY DEF Shown
<1>2. ASSUME UNCHANGED pageVars PROVE PageChange
  BY <1>1, <1>2, Zenon DEF pageVars, PageChange
<1>3. ASSUME AckSettles PROVE PageChange
  BY <1>1, <1>3, Zenon DEF AckSettles, PageChange
<1>4. ASSUME TerminalStep \/ SessionStep \/ PanelStep PROVE PageChange
  BY <1>2, <1>3, <1>4, Zenon
  DEF TerminalStep, StartBash, StartGame, GameLoads, GameEnds, GameReads, BashReads,
      TypeInTerminal, FlushLines, FlushChunks, BashExit, BashIsGone, ForceKill, SessionStep,
      PanelStep, Boot, Signal, CloseSockets, DestroyTerminals, PanelEnds
<1>5. ASSUME NEW r \in Requests, RequestStep(r) PROVE PageChange
  <2>1. CASE PressSave(r)
    BY <1>1, <2>1, Zenon DEF PressSave, RunAck, PageChange
  <2>2. CASE ConfirmShutdown(r)
    BY <1>1, <2>2, Zenon DEF ConfirmShutdown, RunAck, PageChange
  <2> QED
    BY <1>2, <1>3, <1>5, <2>1, <2>2, Zenon
    DEF RequestStep, OtherAsks, Answer, PageTimesOut, TimerFires, PollHits, TimerOfLeft
<1>6. ASSUME HandleSend PROVE PageChange
  <2>1. PICK c \in Handed :
          \/ AskAbout(c)
          \/ Through(c) /\ RunAck("shutdown") /\ UNCHANGED asking
          \/ Through(c) /\ UNCHANGED <<asking, pending>>
    BY <1>6, Zenon DEF HandleSend
  <2> QED
    BY <1>1, <2>1, Zenon DEF AskAbout, Through, RunAck, PageChange
<1>7. ASSUME PageStep PROVE PageChange
  BY <1>1, <1>7, Zenon DEF PageStep, PressPreset, Cancel, PressShutdown, PageChange
<1> QED
  BY <1>4, <1>5, <1>6, <1>7, Zenon DEF Next

LEMMA PageTyped ==
  ASSUME PageTypeOK, PageChange
  PROVE  PageTypeOK'
<1> DEFINE Dialogs == [name : Words, args : 0..MaxArguments] \cup {None}
<1>1. confirm \in Dialogs
  BY Zenon DEF PageTypeOK
<1>2. Handed \subseteq Dialogs
  <2> SUFFICES ASSUME NEW c \in Handed PROVE c \in Dialogs
    OBVIOUS
  <2>1. CASE confirm = None
    <3>1. PICK w \in Words, n \in 0..MaxArguments : c = Command(w, n)
      BY <2>1 DEF Handed
    <3> QED
      BY <3>1 DEF Command
  <2>2. CASE confirm # None
    <3>1. confirm.name \in Words /\ confirm.args \in 0..MaxArguments
      BY <1>1, <2>2
    <3>2. PICK n \in confirm.args..MaxArguments : c = Command(confirm.name, n)
      BY <2>2 DEF Handed
    <3>3. n \in 0..MaxArguments
      BY <3>1, <3>2, ConsoleAssumption
    <3> QED
      BY <3>1, <3>2, <3>3 DEF Command
  <2> QED
    BY <2>1, <2>2
<1>3. \A w \in Presets : Command(w, 0) \in Dialogs
  BY ConsoleAssumption DEF Command, Words
<1>4. Shown \subseteq Dialogs
  BY <1>1, <1>2, <1>3 DEF Shown
<1>5. asking' \in BOOLEAN
  BY Zenon DEF PageTypeOK, PageChange
<1>6. pending' \in {"save", "shutdown", None}
  BY Zenon DEF PageTypeOK, PageChange
<1> QED
  BY <1>4, <1>5, <1>6, Zenon DEF PageTypeOK, PageChange

TerminalChange ==
  /\ running' \in {running, TRUE, FALSE} /\ killed' \in {killed, TRUE, FALSE}
  /\ game' \in {game, "unstarted", "loading", "ready", "ended"}
  /\ lines' \in {lines, <<>>} \/ \E line \in Lines : lines' = Push(line)
  /\ \/ input' \in {input, <<>>}
     \/ input # <<>> /\ input' = Tail(input)
     \/ \E first \in Commands : Write(<<first>>) \/ \E second \in Commands : Write(<<first, second>>)
  /\ phase' \in {phase, "down", "up", "marking", "closing", "killed"}

LEMMA TerminalSteps == Next => TerminalChange
<1> SUFFICES ASSUME Next PROVE TerminalChange
  OBVIOUS
<1> USE DEF TerminalChange
<1>1. /\ "other" \in Lines
      /\ "Save" \in Commands /\ "Shutdown" \in Commands /\ "plugin" \in Commands
      /\ "about" \in Commands
  BY DEF Lines, Commands
<1>2. \A command : Replies(command) \subseteq Lines
  BY DEF Replies, Lines
<1>3. ASSUME NEW line \in Lines, Prints(line)
      PROVE  lines' \in {lines, <<>>} \/ \E l \in Lines : lines' = Push(l)
  BY <1>3, Zenon DEF Prints
<1>4. ASSUME NEW r, NEW from,
             HandleSave(r, from) \/ HandleShutdown(r, from) \/ HandleClose(r)
               \/ HandlePlugin(r, "plugin") \/ HandlePlugin(r, "about")
      PROVE  input' = input
               \/ \E first \in Commands :
                    Write(<<first>>) \/ \E second \in Commands : Write(<<first, second>>)
  BY <1>1, <1>4, Zenon DEF HandleSave, HandleShutdown, HandleClose, HandlePlugin, AnswerAtOnce
<1>5. ASSUME TerminalStep PROVE TerminalChange
  <2>1. CASE GameLoads
    BY <1>1, <1>3, <2>1, Zenon DEF GameLoads
  <2>2. CASE GameReads
    <3>1. PICK line \in Lines : Prints(line)
      BY <1>2, <2>2, Zenon DEF GameReads
    <3>2. lines' \in {lines, <<>>} \/ \E l \in Lines : lines' = Push(l)
      BY <1>3, <3>1, Zenon
    <3>3. game' \in {game, "ended"}
      BY <2>2, Zenon DEF GameReads
    <3> QED
      BY <2>2, <3>2, <3>3, Zenon DEF GameReads
  <2>3. CASE BashReads
    BY <1>1, <1>3, <2>3, Zenon DEF BashReads
  <2>4. CASE TypeInTerminal
    BY <1>1, <2>4, Zenon DEF TypeInTerminal
  <2> QED
    BY <1>5, <2>1, <2>2, <2>3, <2>4, Zenon
    DEF TerminalStep, StartBash, StartGame, GameEnds, FlushLines, FlushChunks, BashExit,
        BashIsGone, ForceKill, Killing, ptyVars
<1>6. ASSUME NEW r \in Requests, RequestStep(r) PROVE TerminalChange
  <2>1. CASE OtherAsks(r)
    <3>1. Quiet /\ (HandleSave(r, "other") \/ HandleShutdown(r, "other") \/ HandleClose(r)
                     \/ HandlePlugin(r, "plugin") \/ HandlePlugin(r, "about"))
      BY <2>1 DEF OtherAsks
    <3> QED
      BY <1>4, <3>1, Zenon DEF Quiet
  <2>2. CASE PressSave(r) \/ ConfirmShutdown(r)
    BY <1>4, <2>2, Zenon DEF PressSave, ConfirmShutdown, Quiet
  <2>3. CASE Answer(r) \/ PageTimesOut(r) \/ TimerFires(r) \/ PollHits(r) \/ TimerOfLeft(r)
    BY <2>3, Zenon
    DEF Answer, PageTimesOut, TimerFires, PollHits, TimerOfLeft, ptyVars, Killing
  <2> QED
    BY <1>6, <2>1, <2>2, <2>3, Zenon DEF RequestStep
<1>7. ASSUME HandleSend PROVE TerminalChange
  BY <1>4, <1>7, Zenon DEF HandleSend, Quiet
<1>8. ASSUME PageStep \/ SessionStep \/ PanelStep PROVE TerminalChange
  BY <1>8, Zenon
  DEF PageStep, SessionStep, PanelStep, Boot, Signal, CloseSockets, DestroyTerminals, Killing,
      PanelEnds, ptyVars
<1> QED
  BY <1>5, <1>6, <1>7, <1>8, Zenon DEF Next

(* The ring keeps its bound: the oldest line goes.                         *)
LEMMA PushBounded ==
  ASSUME lines \in Seq(Lines), Len(lines) <= Capacity, NEW line \in Lines
  PROVE  Push(line) \in Seq(Lines) /\ Len(Push(line)) <= Capacity
<1> DEFINE s == Append(lines, line)
<1>1. s \in Seq(Lines) /\ Len(s) = Len(lines) + 1 /\ s # <<>>
  BY AppendProperties
<1>2. Push(line) = IF Len(s) > Capacity THEN Tail(s) ELSE s
  BY DEF Push
<1>3. Len(lines) \in Nat /\ Capacity \in Nat
  BY ConsoleAssumption
<1> HIDE DEF s
<1>4. Tail(s) \in Seq(Lines) /\ Len(Tail(s)) = Len(s) - 1
  BY <1>1, HeadTailProperties
<1> QED
  BY <1>1, <1>2, <1>3, <1>4

Bounded == /\ lines \in Seq(Lines) /\ Len(lines) <= Capacity
           /\ input \in Seq(Commands) /\ Len(input) <= MaxInput

LEMMA TerminalTyped ==
  ASSUME Bounded, TerminalChange
  PROVE  Bounded'
<1>1. lines' \in Seq(Lines) /\ Len(lines') <= Capacity
  <2>1. <<>> \in Seq(Lines) /\ Len(<<>>) <= Capacity
    BY ConsoleAssumption, EmptySeq
  <2> QED
    BY <2>1, PushBounded, Zenon DEF Bounded, TerminalChange
<1>2. input' \in Seq(Commands) /\ Len(input') <= MaxInput
  <2>1. <<>> \in Seq(Commands) /\ Len(<<>>) <= MaxInput
    BY ConsoleAssumption, EmptySeq
  <2>2. input # <<>> => Tail(input) \in Seq(Commands) /\ Len(Tail(input)) <= MaxInput
    BY ConsoleAssumption, HeadTailProperties DEF Bounded
  <2>3. ASSUME NEW commands \in Seq(Commands), Write(commands)
        PROVE  input' \in Seq(Commands) /\ Len(input') <= MaxInput
    BY <2>3, ConcatProperties DEF Write, Bounded
  <2>4. \A a \in Commands : <<a>> \in Seq(Commands)
    OBVIOUS
  <2>5. \A a, b \in Commands : <<a, b>> \in Seq(Commands)
    OBVIOUS
  <2> QED
    BY <2>1, <2>2, <2>3, <2>4, <2>5, Zenon DEF Bounded, TerminalChange
<1> QED
  BY <1>1, <1>2 DEF Bounded
-----------------------------------------------------------------------------
(* What a step does to the requests and their callbacks.                   *)

RequestsTyped ==
  /\ request \in [Requests -> AtRest]
  /\ onData \in Seq(Listeners) /\ onExit \in Seq(Requests)

Known == RequestsTyped /\ CallbacksWait /\ LdmElsewhere /\ ButtonsComeBack

Asking(r, from) ==
  \/ HandleSave(r, from) \/ HandleShutdown(r, from)
  \/ from = "other" /\ (HandleClose(r) \/ HandlePlugin(r, "plugin") \/ HandlePlugin(r, "about"))

RequestChange ==
  \/ UNCHANGED <<request, onData, onExit, pending>>
  \/ FlushLines /\ UNCHANGED pending
  \/ BashExit /\ UNCHANGED pending
  \/ \E r \in Requests :
       \/ request[r] = Free /\ Asking(r, "other") /\ UNCHANGED pending
       \/ request[r] = Free /\ Asking(r, "page")
       \/ Answer(r) \/ PageTimesOut(r)
       \/ (TimerFires(r) \/ PollHits(r) \/ TimerOfLeft(r)) /\ UNCHANGED pending
  \/ CloseSockets \/ PanelEnds

LEMMA RequestSteps == Next => RequestChange
<1> SUFFICES ASSUME Next PROVE RequestChange
  OBVIOUS
<1> USE DEF RequestChange, Asking
<1>1. ASSUME TerminalStep PROVE RequestChange
  BY <1>1, Zenon
  DEF TerminalStep, StartBash, StartGame, GameLoads, GameEnds, GameReads, BashReads,
      TypeInTerminal, FlushLines, FlushChunks, BashExit, BashIsGone, ForceKill, ptyVars, pageVars
<1>2. ASSUME NEW r \in Requests, RequestStep(r) PROVE RequestChange
  <2>1. CASE OtherAsks(r)
    <3>1. /\ request[r] = Free /\ UNCHANGED pending
          /\ \/ HandleSave(r, "other") \/ HandleShutdown(r, "other") \/ HandleClose(r)
             \/ HandlePlugin(r, "plugin") \/ HandlePlugin(r, "about")
      BY <2>1 DEF OtherAsks, pageVars
    <3> QED
      BY <3>1, Zenon
  <2> QED
    BY <1>2, <2>1, Zenon
    DEF RequestStep, PressSave, ConfirmShutdown, TimerFires, PollHits, TimerOfLeft, pageVars
<1>3. ASSUME HandleSend \/ PageStep PROVE RequestChange
  BY <1>3, Zenon
  DEF HandleSend, AskAbout, PageStep, PressPreset, Cancel, PressShutdown, ptyVars
<1>4. ASSUME PanelStep \/ SessionStep PROVE RequestChange
  BY <1>4, Zenon
  DEF PanelStep, SessionStep, Boot, Signal, DestroyTerminals, ptyVars, pageVars
<1> QED
  BY <1>1, <1>2, <1>3, <1>4, Zenon DEF Next

(* A new request is answered at once, or waits, with the callbacks of its  *)
(* kind.                                                                   *)
NewRequest(r, from, q) ==
  /\ q \in RequestsAt({"waits", "answered"}) /\ q.from = from /\ Elsewhere(q)
  /\ request' = [request EXCEPT ![r] = q]
  /\ onData' \in Seq(Listeners) /\ onExit' \in Seq(Requests)
  /\ \A c \in Range(onData') :
       \/ c \in Range(onData)
       \/ c.by = r /\ q.stage = "waits" /\ q.live /\ q.kind \in {"save", "plugin", "about"}

Registers(r, kind) ==
  /\ onData' \in Seq(Listeners) /\ onExit' \in Seq(Requests)
  /\ \A c \in Range(onData') :
       c \in Range(onData) \/ (c.by = r /\ kind \in {"save", "plugin", "about"})

LEMMA AskingIsNew ==
  ASSUME Known, NEW r \in Requests, NEW from \in {"page", "other"}, Asking(r, from)
  PROVE  \E q : NewRequest(r, from, q)
<1>1. onData \in Seq(Listeners) /\ onExit \in Seq(Requests)
  BY DEF Known, RequestsTyped
<1>2. ASSUME NEW answer \in {"ok", "error"}, AnswerAtOnce(r, from, answer)
      PROVE  \E q : NewRequest(r, from, q)
  <2> DEFINE asker == [Free EXCEPT !.from = from]
             q == Done(asker, answer)
  <2>0. asker.from = from
    BY DEF Free
  <2> HIDE DEF asker
  <2>1. q = [kind |-> None, from |-> from, stage |-> "answered", live |-> FALSE,
             hit |-> None, answer |-> answer]
    <3>1. q = [Free EXCEPT !.from = from, !.stage = "answered", !.answer = answer]
      BY <2>0, Zenon DEF Done
    <3> HIDE DEF q
    <3> QED
      BY <3>1 DEF Free
  <2>2. request' = [request EXCEPT ![r] = q] /\ UNCHANGED <<onData, onExit>>
    BY <1>2, Zenon DEF AnswerAtOnce, asker
  <2> HIDE DEF q
  <2>3. q \in RequestsAt({"waits", "answered"}) /\ q.from = from /\ Elsewhere(q)
    BY <2>1, ConsoleAssumption DEF RequestsAt, Elsewhere
  <2> QED
    BY <1>1, <2>2, <2>3, Zenon DEF NewRequest
<1>3. ASSUME NEW kind \in Kinds, Asks(r, kind, from), Registers(r, kind),
             kind \in {"plugin", "about"} => from = "other"
      PROVE  \E q : NewRequest(r, from, q)
  <2> DEFINE live == kind \notin {"shutdown", "close"}
             q == [Free EXCEPT !.kind = kind, !.from = from, !.stage = "waits", !.live = live]
  <2>1. request' = [request EXCEPT ![r] = q]
    BY <1>3, Zenon DEF Asks
  <2>2. live \in BOOLEAN /\ (kind \in {"save", "plugin", "about"} => live)
    OBVIOUS
  <2> HIDE DEF live
  <2>3. q = [kind |-> kind, from |-> from, stage |-> "waits", live |-> live,
             hit |-> None, answer |-> None]
    <3>1. q = [Free EXCEPT !.kind = kind, !.from = from, !.stage = "waits", !.live = live]
      OBVIOUS
    <3> HIDE DEF q
    <3> QED
      BY <3>1 DEF Free
  <2> HIDE DEF q
  <2>4. /\ q.kind = kind /\ q.from = from /\ q.stage = "waits" /\ q.live = live
        /\ q \in RequestsAt({"waits", "answered"})
    BY <2>2, <2>3 DEF RequestsAt
  <2>5. Elsewhere(q)
    BY <1>3, <2>4 DEF Elsewhere
  <2> QED
    BY <1>3, <2>1, <2>2, <2>4, <2>5, Zenon DEF NewRequest, Registers
<1>4. /\ "save" \in Kinds /\ "shutdown" \in Kinds /\ "close" \in Kinds
      /\ "plugin" \in Kinds /\ "about" \in Kinds
      /\ "ok" \in {"ok", "error"} /\ "error" \in {"ok", "error"}
      /\ "save" \notin {"plugin", "about"} /\ "shutdown" \notin {"plugin", "about"}
      /\ "close" \notin {"plugin", "about"}
  BY DEF Kinds
<1>5. /\ Callback(r, "waits") \in Listeners /\ Callback(r, "waits").by = r
      /\ Callback(r, "collects") \in Listeners /\ Callback(r, "collects").by = r
  BY DEF Callback, Listeners
<1>6. /\ Append(onExit, r) \in Seq(Requests)
      /\ Append(onData, Callback(r, "waits")) \in Seq(Listeners)
      /\ Range(Append(onData, Callback(r, "waits"))) = Range(onData) \cup {Callback(r, "waits")}
  BY <1>1, <1>5, AppendProperties DEF Range
<1>7. LET both == <<Callback(r, "collects"), Callback(r, "waits")>>
      IN /\ onData \o both \in Seq(Listeners)
         /\ \A c \in Range(onData \o both) : c \in Range(onData) \/ c.by = r
  <2> DEFINE both == <<Callback(r, "collects"), Callback(r, "waits")>>
  <2>1. both \in Seq(Listeners) /\ Range(both) = {Callback(r, "collects"), Callback(r, "waits")}
    BY <1>5 DEF Range
  <2> HIDE DEF both
  <2>2. onData \o both \in Seq(Listeners) /\ Range(onData \o both) = Range(onData) \cup Range(both)
    <3>1. onData \o both \in Seq(Listeners)
      BY <1>1, <2>1, ConcatProperties
    <3>2. Range(onData \o both) = Range(onData) \cup Range(both)
      BY <1>1, <2>1, RangeConcatenation
    <3> QED
      BY <3>1, <3>2
  <2>3. \A c \in Range(onData \o both) : c \in Range(onData) \/ c.by = r
    BY <1>5, <2>1, <2>2
  <2> QED
    BY <2>2, <2>3 DEF both
<1>8. CASE HandleSave(r, from)
  <2>1. CASE AnswerAtOnce(r, from, "error")
    BY <1>2, <1>4, <2>1, Zenon
  <2>2. CASE /\ onData' = Append(onData, Callback(r, "waits"))
             /\ onExit' = Append(onExit, r) /\ Asks(r, "save", from)
    <3>1. Registers(r, "save")
      BY <1>5, <1>6, <2>2, Zenon DEF Registers
    <3> QED
      BY <1>3, <1>4, <2>2, <3>1, Zenon
  <2> QED
    BY <1>8, <2>1, <2>2, Zenon DEF HandleSave
<1>9. ASSUME NEW kind, UNCHANGED <<onData, onExit>> PROVE Registers(r, kind)
  <2>1. onData' = onData /\ onExit' = onExit
    BY <1>9, Zenon
  <2> QED
    BY <1>1, <2>1, Zenon DEF Registers
<1>10. CASE HandleShutdown(r, from) \/ (from = "other" /\ HandleClose(r))
  <2>1. CASE \E answer \in {"ok", "error"} : AnswerAtOnce(r, from, answer)
    BY <1>2, <2>1
  <2>2. CASE Asks(r, "shutdown", from) /\ UNCHANGED <<onData, onExit>>
    BY <1>3, <1>4, <1>9, <2>2, Zenon
  <2>3. CASE Asks(r, "close", from) /\ UNCHANGED <<onData, onExit>>
    BY <1>3, <1>4, <1>9, <2>3, Zenon
  <2> QED
    BY <1>4, <1>10, <2>1, <2>2, <2>3, Zenon DEF HandleShutdown, HandleClose
<1>11. ASSUME NEW kind \in {"plugin", "about"}, from = "other", HandlePlugin(r, kind)
       PROVE  \E q : NewRequest(r, from, q)
  <2>1. CASE AnswerAtOnce(r, from, "error")
    BY <1>2, <1>4, <2>1, Zenon
  <2>2. CASE /\ onData' = onData \o <<Callback(r, "collects"), Callback(r, "waits")>>
             /\ onExit' = Append(onExit, r) /\ Asks(r, kind, from)
    <3>1. kind \in Kinds /\ kind \in {"save", "plugin", "about"}
      BY <1>4
    <3>2. Registers(r, kind)
      BY <1>6, <1>7, <2>2, <3>1, Zenon DEF Registers
    <3> QED
      BY <1>3, <1>11, <2>2, <3>1, <3>2, Zenon
  <2> QED
    BY <1>11, <2>1, <2>2, Zenon DEF HandlePlugin
<1> QED
  BY <1>8, <1>10, <1>11, Zenon DEF Asking
-----------------------------------------------------------------------------
(* The exit of the bash.                                                   *)

(* Those who are told of the exit have failed, and wait for no line.       *)
LEMMA RejectedSound ==
  ASSUME NEW s, Sound(s), request \in [Requests -> AtRest]
  PROVE  LET called == Called(s.exit, Range(s.exit))
             rejected == [r \in Requests |->
                           CASE r \in called /\ s.req[r].stage = "waits" ->
                                  Done(s.req[r], "error")
                             [] r \in called /\ s.req[r].stage = "left" -> Free
                             [] OTHER -> s.req[r]]
             left == Without(s.data, {Callback(r, "waits") : r \in called})
         IN Sound([req |-> rejected, data |-> left, exit |-> <<>>])
<1> DEFINE called == Called(s.exit, Range(s.exit))
           gone == {Callback(r, "waits") : r \in called}
           after(r) == CASE r \in called /\ s.req[r].stage = "waits" -> Done(s.req[r], "error")
                         [] r \in called /\ s.req[r].stage = "left" -> Free
                         [] OTHER -> s.req[r]
           t == [req |-> [r \in Requests |-> after(r)],
                 data |-> Without(s.data, gone), exit |-> <<>>]
<1> HIDE DEF called
<1>1. s.data \in Seq(Listeners) /\ Range(s.data) \subseteq Range(onData)
  BY DEF Sound, SoundList
<1>2. t.data \in Seq(Listeners) /\ Range(t.data) \subseteq Range(s.data) \ gone
  <2> HIDE DEF gone
  <2> QED
    BY <1>1, WithoutKeeps
<1>3. t.exit \in Seq(Requests)
  OBVIOUS
<1>4. ASSUME NEW r \in Requests
      PROVE  /\ after(r) \in RequestsAt(Stages) /\ SoundRequest(t, r)
             /\ r \notin called => after(r) = s.req[r]
  <2> DEFINE q == s.req[r]
  <2>1. q \in RequestsAt(Stages) /\ SoundRequest(s, r)
    BY DEF Sound
  <2>2. t.req[r] = after(r)
    OBVIOUS
  <2>3. CASE r \in called /\ q.stage = "waits"
    <3>1. after(r) = [kind |-> None, from |-> q.from, stage |-> "answered", live |-> FALSE,
                      hit |-> None, answer |-> "error"]
      <4>1. after(r) = Done(q, "error")
        <5>1. q.stage # "left"
          BY <2>3
        <5> QED
          BY <2>3, <5>1, Zenon
      <4> HIDE DEF after, q
      <4> QED
        BY <4>1 DEF Done, Free
    <3>2. q.from \in {"page", "other", None}
      BY <2>1 DEF RequestsAt
    <3> HIDE DEF after, t, q
    <3>3. after(r) \in RequestsAt(Stages)
      BY <3>1, <3>2 DEF RequestsAt, Stages
    <3> USE DEF q
    <3> QED
      BY <2>1, <2>2, <2>3, <3>1, <3>3 DEF SoundRequest
  <2>4. CASE r \in called /\ q.stage = "left"
    <3>1. after(r) = Free
      <4>1. q.stage # "waits"
        BY <2>4
      <4> QED
        BY <2>4, <4>1, Zenon
    <3>2. request[r].from = None /\ request[r].stage = "left"
      <4>1. request[r] \in AtRest /\ request[r] = q
        BY <2>1, <2>4 DEF SoundRequest
      <4> HIDE DEF q
      <4> QED
        BY <2>4, <4>1 DEF AtRest, RequestsAt
    <3>3. /\ Free \in RequestsAt(Stages) /\ Free.from = None /\ Free.kind = None
          /\ Free.stage = "free"
      BY DEF Free, RequestsAt, Stages
    <3> HIDE DEF after, t, q
    <3> QED
      BY <2>2, <2>4, <3>1, <3>2, <3>3 DEF SoundRequest
  <2>5. CASE ~(r \in called /\ q.stage = "waits") /\ ~(r \in called /\ q.stage = "left")
    <3>1. after(r) = q
      BY <2>5, Zenon
    <3> HIDE DEF after, t
    <3> QED
      BY <2>1, <2>2, <3>1 DEF SoundRequest
  <2> QED
    BY <2>3, <2>4, <2>5
<1> HIDE DEF t, after
<1>5. \A c \in Range(t.data) : c.role = "waits" => t.req[c.by].stage \in {"waits", "left"}
  <2> SUFFICES ASSUME NEW c \in Range(t.data), c.role = "waits"
               PROVE  t.req[c.by].stage \in {"waits", "left"}
    OBVIOUS
  <2>1. c \in Range(s.data) /\ c \notin gone /\ c \in Listeners
    <3>1. Range(t.data) \subseteq Listeners
      BY <1>2 DEF Range
    <3> QED
      BY <1>2, <3>1
  <2>2. c.by \in Requests /\ c = Callback(c.by, "waits")
    BY <2>1 DEF Listeners, Callback
  <2>3. c.by \notin called
    BY <2>1, <2>2
  <2>4. t.req[c.by] = s.req[c.by]
    BY <1>4, <2>2, <2>3 DEF t
  <2> QED
    BY <2>1, <2>4 DEF Sound, SoundList
<1>6. t.req \in [Requests -> RequestsAt(Stages)]
  BY <1>4 DEF t
<1>7. t = [req |-> t.req, data |-> t.data, exit |-> t.exit]
  BY DEF t
<1>8. Sound(t)
  BY <1>1, <1>2, <1>3, <1>4, <1>5, <1>6, <1>7 DEF Sound, SoundList
<1> QED
  BY <1>8, Zenon DEF t, after, gone, called

(* After the exit whoever waited for the process has its answer; nobody    *)
(* else is answered well who was not before.                               *)
LEMMA ExitedKeeps ==
  ASSUME NEW s, Sound(s), CallbacksWait, onData \in Seq(Listeners), lines \in Seq(Lines),
         request \in [Requests -> AtRest], NEW r \in Requests
  PROVE  LET q == Resumed(Exited(s).req)[r] IN
         /\ q \in AtRest
         /\ q.from = request[r].from /\ q.kind \in {request[r].kind, None}
         /\ (request[r].stage = "waits" /\ q.stage # "waits" /\ q.answer = "ok") =>
              ByLine(r) \/ request[r].kind \in {"shutdown", "close"}
         /\ (q.stage = "waits" /\ q.hit # request[r].hit) => request[r].live
<1> DEFINE called == Called(s.exit, Range(s.exit))
           rejected == [p \in Requests |->
                         CASE p \in called /\ s.req[p].stage = "waits" ->
                                Done(s.req[p], "error")
                           [] p \in called /\ s.req[p].stage = "left" -> Free
                           [] OTHER -> s.req[p]]
           left == Without(s.data, {Callback(p, "waits") : p \in called})
           after == HearAll([req |-> rejected, data |-> left, exit |-> <<>>], lines)
           hears == {p \in Requests : after.req[p].kind \in {"shutdown", "close"}}
           last == [p \in Requests |->
                     IF p \in hears THEN Done(after.req[p], "ok")
                     ELSE [after.req[p] EXCEPT !.live = FALSE]]
           q == Resumed(Exited(s).req)[r]
<1>1. Sound([req |-> rejected, data |-> left, exit |-> <<>>])
  BY RejectedSound, Zenon
<1>2. Sound(after)
  <2> HIDE DEF rejected, left
  <2> QED
    BY <1>1, HearAllSound, Zenon
<1>3. Exited(s).req = last
  <2>1. Exited(s) = [after EXCEPT !.req = last]
    BY Zenon DEF Exited
  <2>2. after = [req |-> after.req, data |-> after.data, exit |-> after.exit]
    BY <1>2, Zenon DEF Sound
  <2> HIDE DEF after, last
  <2> QED
    BY <2>1, <2>2
<1> DEFINE p == after.req[r]
<1>4. p \in RequestsAt(Stages) /\ SoundRequest(after, r) /\ request[r] \in AtRest
  BY <1>2 DEF Sound
<1>5. last[r] = IF p.kind \in {"shutdown", "close"} THEN Done(p, "ok")
                ELSE [p EXCEPT !.live = FALSE]
  <2> HIDE DEF after
  <2> QED
    OBVIOUS
<1>6. q = IF last[r].stage = "settled"
          THEN Done(last[r], IF last[r].hit = None THEN "error" ELSE last[r].hit)
          ELSE last[r]
  BY <1>3 DEF Resumed
<1> HIDE DEF last, after
<1>7. CASE p.kind \in {"shutdown", "close"}
  <2>1. last[r] = [kind |-> None, from |-> p.from, stage |-> "answered", live |-> FALSE,
                   hit |-> None, answer |-> "ok"]
    BY <1>5, <1>7 DEF Done, Free
  <2>2. p.from \in {"page", "other", None}
    BY <1>4 DEF RequestsAt
  <2>3. q = last[r]
    BY <1>6, <2>1
  <2> HIDE DEF q
  <2>4. q \in AtRest /\ q.from = p.from /\ q.kind = None /\ q.stage = "answered"
    BY <2>1, <2>2, <2>3 DEF AtRest, RequestsAt
  <2>5. request[r].kind = p.kind
    <3>1. None # "shutdown" /\ None # "close"
      BY ConsoleAssumption
    <3>2. p.kind \in {request[r].kind, None}
      BY <1>4 DEF SoundRequest
    <3> HIDE DEF p
    <3> QED
      BY <1>7, <3>1, <3>2
  <2> QED
    BY <1>4, <1>7, <2>4, <2>5 DEF SoundRequest, q
<1>8. CASE p.kind \notin {"shutdown", "close"}
  <2>1. /\ last[r] \in RequestsAt(Stages)
        /\ last[r].from = p.from /\ last[r].stage = p.stage /\ last[r].kind = p.kind
        /\ last[r].answer = p.answer /\ last[r].hit = p.hit
    BY <1>4, <1>5, <1>8 DEF RequestsAt
  <2>2. CASE p.stage = "settled"
    <3> DEFINE answer == IF p.hit = None THEN "error" ELSE p.hit
    <3>1. q = [kind |-> None, from |-> p.from, stage |-> "answered", live |-> FALSE,
               hit |-> None, answer |-> answer]
      BY <1>6, <2>1, <2>2 DEF Done, Free
    <3>2. p.from \in {"page", "other", None} /\ answer \in {"ok", "error", None}
      BY <1>4 DEF RequestsAt
    <3> HIDE DEF answer, q
    <3>3. q \in AtRest /\ q.from = p.from /\ q.kind = None /\ q.stage = "answered"
      BY <3>1, <3>2 DEF AtRest, RequestsAt
    <3> QED
      BY <1>4, <2>2, <3>3 DEF SoundRequest, q
  <2>3. CASE p.stage # "settled"
    <3>1. q = last[r]
      BY <1>6, <2>1, <2>3
    <3> HIDE DEF q
    <3>2. q \in AtRest
      <4>1. CASE p.stage # "left"
        BY <2>1, <2>3, <3>1, <4>1 DEF AtRest, RequestsAt, Stages
      <4>2. CASE p.stage = "left"
        <5>1. p \in AtRest
          BY <1>4, <4>2 DEF SoundRequest
        <5>2. q = [p EXCEPT !.live = FALSE]
          BY <1>5, <1>8, <3>1
        <5> HIDE DEF p
        <5> QED
          BY <4>2, <5>1, <5>2 DEF AtRest, RequestsAt
      <4> QED
        BY <4>1, <4>2
    <3> QED
      BY <1>4, <2>1, <3>1, <3>2 DEF SoundRequest, q
  <2> QED
    BY <2>2, <2>3
<1> QED
  BY <1>7, <1>8
-----------------------------------------------------------------------------
(* What a step keeps of the requests: their types, that callbacks belong   *)
(* to those who wait, and that disabled buttons have a request under way.  *)

(* A step that leaves a request where it came from and lets its kind be,   *)
(* or forgets it, makes no command of LDM the page's.                      *)
LEMMA ElsewhereKept ==
  ASSUME LdmElsewhere,
         \A r \in Requests : \/ request'[r].from # "page"
                            \/ request'[r].kind = None
                            \/ /\ request'[r].from = request[r].from
                               /\ request'[r].kind \in {request[r].kind, None}
  PROVE  LdmElsewhere'
<1> SUFFICES ASSUME NEW r \in Requests PROVE Elsewhere(request'[r])
  BY DEF LdmElsewhere, Elsewhere
<1>1. Elsewhere(request[r])
  BY DEF LdmElsewhere
<1> QED
  BY <1>1, ConsoleAssumption DEF Elsewhere

(* A step that leaves every request with the page it came from, or takes   *)
(* the page out of its wait, leaves no button disabled for good.           *)
LEMMA ButtonsKept ==
  ASSUME ButtonsComeBack,
         pending' = None \/ (/\ UNCHANGED pending
                            /\ \A r \in Requests : request[r].from = "page" => request'[r].from = "page")
  PROVE  ButtonsComeBack'
BY DEF ButtonsComeBack

LEMMA LinesKeep ==
  ASSUME Known, lines \in Seq(Lines), FlushLines, UNCHANGED pending
  PROVE  Known'
<1> DEFINE s == Heard
<1>1. Sound(s)
  <2>1. Sound(Callbacks)
    BY CallbacksSound, Zenon DEF Known, RequestsTyped, AtRest
  <2> QED
    BY <2>1, HearAllSound, Zenon DEF Known, RequestsTyped, Heard
<1>2. /\ request' = Resumed(s.req)
      /\ onData' = Without(s.data, Collected(request', s.data))
      /\ onExit' = s.exit
  BY Zenon DEF FlushLines
<1> HIDE DEF s
<1>3. s.data \in Seq(Listeners) /\ s.exit \in Seq(Requests) /\ Range(s.data) \subseteq Range(onData)
  BY <1>1 DEF Sound, SoundList
<1>4. /\ onData' \in Seq(Listeners)
      /\ Range(onData') \subseteq Range(s.data) \ Collected(request', s.data)
  BY <1>2, <1>3, WithoutKeeps
<1>5. \A r \in Requests : /\ request'[r] \in AtRest
                          /\ request'[r].from = request[r].from
                          /\ request'[r].kind \in {request[r].kind, None}
                          /\ s.req[r].stage \in {"waits", "left"} => request'[r] = s.req[r]
                          /\ request'[r].stage = "waits" => s.req[r].stage = "waits"
  BY <1>1, <1>2, ResumedSound DEF Known, RequestsTyped
<1>6. request' \in [Requests -> AtRest]
  <2>1. \E f : request' = [r \in Requests |-> f[r]]
    <3>1. request' = [r \in Requests |-> Resumed(s.req)[r]]
      BY <1>2 DEF Resumed
    <3> QED
      BY <3>1
  <2> QED
    BY <1>5, <2>1
<1>7. CallbacksWait'
  <2> SUFFICES ASSUME NEW c \in Range(onData') PROVE Listens(request'[c.by])
    BY DEF CallbacksWait, Listens
  <2> DEFINE r == c.by
  <2>1. c \in Range(s.data) /\ c \notin Collected(request', s.data) /\ c \in Range(onData)
    BY <1>3, <1>4
  <2>2. c \in Listeners
    <3>1. Range(s.data) \subseteq Listeners
      BY <1>3 DEF Range
    <3> QED
      BY <2>1, <3>1
  <2>3. r \in Requests /\ c.role \in {"waits", "collects"}
    BY <2>2 DEF Listeners
  <2>4. s.req[r].stage \in {"waits", "left"}
    <3>1. CASE c.role = "waits"
      BY <1>1, <2>1, <3>1 DEF Sound, SoundList
    <3>2. CASE c.role = "collects"
      BY <1>5, <2>1, <2>3, <3>2 DEF Collected
    <3> QED
      BY <2>3, <3>1, <3>2
  <2>5. request'[r] = s.req[r]
    BY <1>5, <2>3, <2>4
  <2>6. CASE s.req[r].stage = "left"
    BY <2>5, <2>6 DEF Listens
  <2>7. CASE s.req[r].stage = "waits"
    <3>1. /\ s.req[r].kind = request[r].kind /\ s.req[r].live = request[r].live
          /\ request[r].stage = "waits"
      BY <1>1, <2>3, <2>7 DEF Sound, SoundRequest
    <3>2. request[r].live /\ request[r].kind \in {"save", "plugin", "about"}
      BY <2>1, <3>1 DEF Known, CallbacksWait, Listens
    <3> QED
      BY <2>5, <2>7, <3>1, <3>2 DEF Listens
  <2> QED
    BY <2>4, <2>6, <2>7
<1>8. ButtonsComeBack'
  BY <1>5, ButtonsKept DEF Known
<1>9. LdmElsewhere'
  BY <1>5, ElsewhereKept DEF Known
<1> QED
  BY <1>2, <1>3, <1>4, <1>6, <1>7, <1>8, <1>9 DEF Known, RequestsTyped

LEMMA TailsAreLines == \A tail \in Tails : tail \in Seq(Lines)
<1>1. \A command : Replies(command) \subseteq Lines
  BY DEF Replies, Lines
<1>2. <<>> \in Seq(Lines) /\ \A line \in Lines : <<line>> \in Seq(Lines)
  OBVIOUS
<1> QED
  BY <1>1, <1>2 DEF Tails

(* What the exit makes of each request.                                    *)
LEMMA ExitKeeps ==
  ASSUME Known, lines \in Seq(Lines), BashExit
  PROVE  /\ onData' = <<>> /\ onExit' = <<>>
         /\ request' \in [Requests -> AtRest]
         /\ \A r \in Requests :
              /\ request'[r].from = request[r].from
              /\ request'[r].kind \in {request[r].kind, None}
              /\ (request[r].stage = "waits" /\ request'[r].stage # "waits"
                    /\ request'[r].answer = "ok") =>
                   ByLine(r) \/ request[r].kind \in {"shutdown", "close"}
              /\ (request'[r].stage = "waits" /\ request'[r].hit # request[r].hit) =>
                   request[r].live
<1>1. PICK tail \in Tails : request' = Resumed(Exited(HearAll(Callbacks, tail)).req)
  BY Zenon DEF BashExit
<1>2. onData' = <<>> /\ onExit' = <<>>
  BY Zenon DEF BashExit
<1> DEFINE s == HearAll(Callbacks, tail)
<1>3. Sound(s)
  <2>1. Sound(Callbacks)
    BY CallbacksSound, Zenon DEF Known, RequestsTyped, AtRest
  <2>2. tail \in Seq(Lines)
    BY TailsAreLines
  <2> QED
    BY <2>1, <2>2, HearAllSound, Zenon DEF Known, RequestsTyped
<1>4. request' = Resumed(Exited(s).req)
  BY <1>1
<1> HIDE DEF s
<1>5. \A r \in Requests :
        LET q == Resumed(Exited(s).req)[r] IN
        /\ q \in AtRest
        /\ q.from = request[r].from /\ q.kind \in {request[r].kind, None}
        /\ (request[r].stage = "waits" /\ q.stage # "waits" /\ q.answer = "ok") =>
             ByLine(r) \/ request[r].kind \in {"shutdown", "close"}
        /\ (q.stage = "waits" /\ q.hit # request[r].hit) => request[r].live
  BY <1>3, ExitedKeeps, Zenon DEF Known, RequestsTyped
<1>6. request' \in [Requests -> AtRest]
  <2>1. request' = [r \in Requests |-> Resumed(Exited(s).req)[r]]
    BY <1>4 DEF Resumed
  <2> QED
    BY <1>5, <2>1
<1> QED
  BY <1>2, <1>4, <1>5, <1>6, Zenon

(* A step that changes the requests one by one and adds no callback keeps  *)
(* those that are left with their requests, if they are left alone.        *)
LEMMA CallbacksKept ==
  ASSUME Known, onData' \in Seq(Listeners), Range(onData') \subseteq Range(onData),
         \A c \in Range(onData') :
           LET q == request'[c.by] IN
           /\ q.stage = request[c.by].stage /\ q.live = request[c.by].live
           /\ q.kind = request[c.by].kind
  PROVE  CallbacksWait'
BY DEF Known, CallbacksWait, Listens

LEMMA OneRequestKeeps ==
  ASSUME Known, NEW r \in Requests,
         \/ Answer(r) \/ PageTimesOut(r)
         \/ (TimerFires(r) \/ PollHits(r) \/ TimerOfLeft(r)) /\ UNCHANGED pending
  PROVE  Known'
<1>1. /\ request \in [Requests -> AtRest]
      /\ onData \in Seq(Listeners) /\ onExit \in Seq(Requests)
      /\ Range(onData) \subseteq Listeners
  BY DEF Known, RequestsTyped, Range
<1>2. request[r] \in AtRest
  BY <1>1
<1>3. \A c \in Range(onData) : c.by \in Requests /\ request[c.by].stage \in {"waits", "left"}
  BY <1>1 DEF Known, CallbacksWait, Listens, Listeners
<1>4. CASE Answer(r)
  <2>1. /\ request' = [request EXCEPT ![r] = Free] /\ request[r].stage = "answered"
        /\ UNCHANGED <<onData, onExit>>
    BY <1>4, Zenon DEF Answer, ptyVars
  <2>2. Free \in AtRest
    BY DEF Free, AtRest, RequestsAt
  <2>3. request' \in [Requests -> AtRest]
    BY <1>1, <2>1, <2>2
  <2>4. CallbacksWait'
    <3>1. \A c \in Range(onData') : request'[c.by] = request[c.by]
      BY <1>1, <1>3, <2>1
    <3>2. onData' \in Seq(Listeners) /\ Range(onData') \subseteq Range(onData)
      BY <1>1, <2>1
    <3> QED
      BY <3>1, <3>2, CallbacksKept, Zenon
  <2>5. ButtonsComeBack'
    <3>1. CASE request[r].from = "page"
      BY <1>4, <3>1 DEF Answer, AckSettles, ButtonsComeBack
    <3>2. CASE request[r].from # "page"
      <4>1. UNCHANGED pending
        BY <1>4, <3>2, Zenon DEF Answer, pageVars
      <4>2. \A p \in Requests : request[p].from = "page" => request'[p].from = "page"
        BY <1>1, <2>1, <3>2
      <4> QED
        BY <4>1, <4>2, ButtonsKept DEF Known
    <3> QED
      BY <3>1, <3>2
  <2>6. LdmElsewhere'
    <3>1. \A p \in Requests : request'[p].kind = None \/ request'[p] = request[p]
      BY <1>1, <2>1 DEF Free
    <3> QED
      BY <3>1, ElsewhereKept DEF Known
  <2> QED
    BY <1>1, <2>1, <2>3, <2>4, <2>5, <2>6 DEF Known, RequestsTyped
<1>5. CASE PageTimesOut(r)
  <2>1. /\ request' = [request EXCEPT ![r].from = "other"]
        /\ UNCHANGED <<onData, onExit>> /\ pending' = None
    BY <1>5, Zenon DEF PageTimesOut, ptyVars, AckSettles
  <2> DEFINE q == [request[r] EXCEPT !.from = "other"]
  <2>2. q \in AtRest /\ q.stage = request[r].stage /\ q.live = request[r].live
        /\ q.kind = request[r].kind /\ q.from # "page"
    <3>1. request[r].from = "page" /\ None # "page"
      BY <1>5, ConsoleAssumption, Zenon DEF PageTimesOut
    <3> QED
      BY <1>2, <3>1 DEF AtRest, RequestsAt
  <2>3. request' = [request EXCEPT ![r] = q]
    BY <1>1, <2>1
  <2> HIDE DEF q
  <2>4. request' \in [Requests -> AtRest]
    BY <1>1, <2>2, <2>3
  <2>5. CallbacksWait'
    <3>1. \A p \in Requests : /\ request'[p].stage = request[p].stage
                              /\ request'[p].live = request[p].live
                              /\ request'[p].kind = request[p].kind
      BY <1>1, <2>2, <2>3
    <3>2. onData' \in Seq(Listeners) /\ Range(onData') \subseteq Range(onData)
      BY <1>1, <2>1
    <3>3. \A c \in Range(onData') : c.by \in Requests
      BY <1>3, <3>2
    <3> QED
      BY <3>1, <3>2, <3>3, CallbacksKept, Zenon
  <2>6. ButtonsComeBack'
    BY <2>1 DEF ButtonsComeBack
  <2>7. LdmElsewhere'
    <3>1. \A p \in Requests : request'[p].from # "page" \/ request'[p] = request[p]
      BY <1>1, <2>2, <2>3
    <3> QED
      BY <3>1, ElsewhereKept DEF Known
  <2> QED
    BY <1>1, <2>1, <2>4, <2>5, <2>6, <2>7 DEF Known, RequestsTyped
<1>6. CASE TimerFires(r) /\ UNCHANGED pending
  <2> DEFINE answer == IF request[r].kind = "close" THEN "ok" ELSE "error"
             q == Done(request[r], answer)
             gone == {Callback(r, "waits"), Callback(r, "collects")}
  <2>1. /\ request' = [request EXCEPT ![r] = q]
        /\ onData' = Without(onData, gone) /\ onExit' = Without(onExit, {r})
    <3>1. request' = [request EXCEPT ![r] = Done(@, answer)]
      BY <1>6, Zenon DEF TimerFires
    <3> QED
      BY <1>1, <1>6, <3>1, Zenon DEF TimerFires, Unsubscribed
  <2>2. q = [kind |-> None, from |-> request[r].from, stage |-> "answered", live |-> FALSE,
             hit |-> None, answer |-> answer]
    <3> HIDE DEF answer
    <3>1. q = [Free EXCEPT !.from = request[r].from, !.stage = "answered", !.answer = answer]
      BY Zenon DEF Done
    <3> HIDE DEF q
    <3> QED
      BY <3>1 DEF Free
  <2>3. request[r].from \in {"page", "other", None} /\ answer \in {"ok", "error", None}
    BY <1>2 DEF AtRest, RequestsAt
  <2> HIDE DEF answer, q, gone
  <2>4. q \in AtRest /\ q.from = request[r].from /\ q.kind = None
    BY <2>2, <2>3 DEF AtRest, RequestsAt
  <2>5. request' \in [Requests -> AtRest]
    BY <1>1, <2>1, <2>4
  <2>6. /\ onData' \in Seq(Listeners) /\ Range(onData') \subseteq Range(onData) \ gone
        /\ onExit' \in Seq(Requests)
    BY <1>1, <2>1, WithoutKeeps
  <2>7. CallbacksWait'
    <3>1. ASSUME NEW c \in Range(onData') PROVE request'[c.by] = request[c.by]
      <4>1. c \in Listeners /\ c \notin gone /\ c.by \in Requests
        BY <1>1, <1>3, <2>6
      <4>2. c.by # r
        BY <4>1 DEF Listeners, gone, Callback
      <4> QED
        BY <1>1, <2>1, <4>1, <4>2
    <3> QED
      BY <2>6, <3>1, CallbacksKept, Zenon
  <2>8. ButtonsComeBack'
    <3>1. \A p \in Requests : request'[p].from = request[p].from
      BY <1>1, <2>1, <2>4
    <3> QED
      BY <1>6, <3>1, ButtonsKept DEF Known
  <2>9. LdmElsewhere'
    <3>1. \A p \in Requests : request'[p].kind = None \/ request'[p] = request[p]
      BY <1>1, <2>1, <2>4
    <3> QED
      BY <3>1, ElsewhereKept DEF Known
  <2> QED
    BY <2>5, <2>6, <2>7, <2>8, <2>9 DEF Known, RequestsTyped
<1>7. CASE PollHits(r) /\ UNCHANGED pending
  <2> DEFINE kind == request[r].kind
             hit == request[r].hit
             q == Left(request[r], hit)
             gone == {Callback(r, "collects")}
  <2>1. /\ onData' = Without(onData, gone) /\ onExit' = onExit
        /\ kind \in {"plugin", "about"} /\ hit # None
    BY <1>7, Zenon DEF PollHits
  <2>2. q = [kind |-> kind, from |-> None, stage |-> "left", live |-> FALSE,
             hit |-> None, answer |-> hit]
    <3> HIDE DEF hit
    <3>1. q = [Free EXCEPT !.kind = kind, !.stage = "left", !.answer = hit]
      BY Zenon DEF Left
    <3> HIDE DEF q, kind
    <3> QED
      BY <3>1 DEF Free
  <2>3. request' = [request EXCEPT ![r] = q]
    <3>1. request' = [request EXCEPT ![r] = Left(@, @.hit)]
      BY <1>7, Zenon DEF PollHits
    <3> QED
      BY <1>1, <3>1, Zenon
  <2>4. hit \in {"ok", "error"}
    BY <1>2, <2>1 DEF AtRest, RequestsAt
  <2> HIDE DEF q, gone, hit
  <2>5. q \in AtRest /\ q.stage = "left" /\ q.from = None
    BY <2>1, <2>2, <2>4 DEF AtRest
  <2>6. request' \in [Requests -> AtRest]
    BY <1>1, <2>3, <2>5
  <2>7. onData' \in Seq(Listeners) /\ Range(onData') \subseteq Range(onData)
    BY <1>1, <2>1, WithoutKeeps
  <2>8. CallbacksWait'
    <3> SUFFICES ASSUME NEW c \in Range(onData') PROVE Listens(request'[c.by])
      BY DEF CallbacksWait, Listens
    <3>1. Listens(request[c.by]) /\ c.by \in Requests
      BY <1>3, <2>7 DEF Known, CallbacksWait
    <3>2. CASE c.by = r
      BY <1>1, <2>3, <2>5, <3>2 DEF Listens
    <3>3. CASE c.by # r
      <4>1. request'[c.by] = request[c.by]
        BY <1>1, <2>3, <3>1, <3>3
      <4> QED
        BY <3>1, <4>1
    <3> QED
      BY <3>2, <3>3
  <2>9. ButtonsComeBack'
    <3>1. request[r].from # "page"
      BY <2>1 DEF Known, LdmElsewhere, Elsewhere
    <3>2. \A p \in Requests : request[p].from = "page" => request'[p].from = "page"
      BY <1>1, <2>3, <3>1
    <3> QED
      BY <1>7, <3>2, ButtonsKept DEF Known
  <2>10. LdmElsewhere'
    <3>1. \A p \in Requests : request'[p].from = None \/ request'[p] = request[p]
      BY <1>1, <2>3, <2>5
    <3>2. None # "page"
      BY ConsoleAssumption
    <3> QED
      BY <3>1, <3>2, ElsewhereKept DEF Known
  <2> QED
    BY <1>1, <2>1, <2>6, <2>7, <2>8, <2>9, <2>10 DEF Known, RequestsTyped
<1>8. CASE TimerOfLeft(r) /\ UNCHANGED pending
  <2> DEFINE gone == {Callback(r, "waits"), Callback(r, "collects")}
  <2>1. /\ request' = [request EXCEPT ![r] = Free] /\ request[r].stage = "left"
        /\ onData' = Without(onData, gone) /\ onExit' = Without(onExit, {r})
    BY <1>8, Zenon DEF TimerOfLeft, Unsubscribed
  <2> HIDE DEF gone
  <2>2. Free \in AtRest
    BY DEF Free, AtRest, RequestsAt
  <2>3. request' \in [Requests -> AtRest]
    BY <1>1, <2>1, <2>2
  <2>4. /\ onData' \in Seq(Listeners) /\ Range(onData') \subseteq Range(onData) \ gone
        /\ onExit' \in Seq(Requests)
    BY <1>1, <2>1, WithoutKeeps
  <2>5. CallbacksWait'
    <3>1. ASSUME NEW c \in Range(onData') PROVE request'[c.by] = request[c.by]
      <4>1. c \in Listeners /\ c \notin gone /\ c.by \in Requests
        BY <1>1, <1>3, <2>4
      <4>2. c.by # r
        BY <4>1 DEF Listeners, gone, Callback
      <4> QED
        BY <1>1, <2>1, <4>1, <4>2
    <3> QED
      BY <2>4, <3>1, CallbacksKept, Zenon
  <2>6. ButtonsComeBack'
    <3>1. request[r].from = None /\ None # "page"
      BY <1>2, <2>1, ConsoleAssumption DEF AtRest, RequestsAt
    <3>2. \A p \in Requests : request[p].from = "page" => request'[p].from = "page"
      BY <1>1, <2>1, <3>1
    <3> QED
      BY <1>8, <3>2, ButtonsKept DEF Known
  <2>7. LdmElsewhere'
    <3>1. \A p \in Requests : request'[p].kind = None \/ request'[p] = request[p]
      BY <1>1, <2>1 DEF Free
    <3> QED
      BY <3>1, ElsewhereKept DEF Known
  <2> QED
    BY <2>3, <2>4, <2>5, <2>6, <2>7 DEF Known, RequestsTyped
<1> QED
  BY <1>4, <1>5, <1>6, <1>7, <1>8

LEMMA AskingKeeps ==
  ASSUME Known, NEW r \in Requests, request[r] = Free, NEW from \in {"page", "other"},
         Asking(r, from), from = "page" \/ UNCHANGED pending
  PROVE  Known'
<1>1. PICK q : NewRequest(r, from, q)
  BY AskingIsNew
<1>2. /\ request \in [Requests -> AtRest] /\ onData \in Seq(Listeners)
      /\ Range(onData) \subseteq Listeners
  BY DEF Known, RequestsTyped, Range
<1>3. /\ q \in AtRest /\ q.from = from
      /\ request' = [request EXCEPT ![r] = q]
  BY <1>1 DEF NewRequest, AtRest, RequestsAt
<1>4. request' \in [Requests -> AtRest]
  BY <1>2, <1>3
<1>5. request[r].stage = "free" /\ request[r].from = None
  BY DEF Free
<1>6. CallbacksWait'
  <2> SUFFICES ASSUME NEW c \in Range(onData') PROVE Listens(request'[c.by])
    BY DEF CallbacksWait, Listens
  <2>1. CASE c \in Range(onData)
    <3>1. Listens(request[c.by])
      BY <2>1 DEF Known, CallbacksWait
    <3>2. c.by \in Requests /\ c.by # r
      BY <1>2, <1>5, <2>1, <3>1 DEF Listeners, Listens
    <3>3. request'[c.by] = request[c.by]
      BY <1>2, <1>3, <3>2
    <3> QED
      BY <3>1, <3>3
  <2>2. CASE /\ c.by = r /\ q.stage = "waits" /\ q.live
             /\ q.kind \in {"save", "plugin", "about"}
    <3>1. request'[r] = q
      BY <1>2, <1>3
    <3> QED
      BY <2>2, <3>1 DEF Listens
  <2> QED
    BY <1>1, <2>1, <2>2, Zenon DEF NewRequest
<1>7. ButtonsComeBack'
  <2>1. CASE from = "page"
    <3>1. request'[r].from = "page"
      BY <1>2, <1>3, <2>1
    <3> QED
      BY <3>1 DEF ButtonsComeBack
  <2>2. CASE UNCHANGED pending
    <3>1. \A p \in Requests : request[p].from = "page" => request'[p].from = "page"
      <4>1. None # "page"
        BY ConsoleAssumption
      <4> QED
        BY <1>2, <1>3, <1>5, <4>1
    <3> QED
      BY <2>2, <3>1, ButtonsKept DEF Known
  <2> QED
    BY <2>1, <2>2
<1>8. LdmElsewhere'
  <2> SUFFICES ASSUME NEW p \in Requests PROVE Elsewhere(request'[p])
    BY DEF LdmElsewhere, Elsewhere
  <2>1. request'[p] \in {q, request[p]}
    BY <1>2, <1>3
  <2>2. Elsewhere(q) /\ Elsewhere(request[p])
    BY <1>1 DEF NewRequest, Known, LdmElsewhere
  <2> QED
    BY <2>1, <2>2
<1> QED
  BY <1>1, <1>4, <1>6, <1>7, <1>8 DEF NewRequest, Known, RequestsTyped

LEMMA RequestsKeep ==
  ASSUME Known, lines \in Seq(Lines), RequestChange
  PROVE  Known'
<1>1. CASE UNCHANGED <<request, onData, onExit, pending>>
  BY <1>1, Zenon DEF Known, RequestsTyped, CallbacksWait, LdmElsewhere, ButtonsComeBack
<1>2. CASE FlushLines /\ UNCHANGED pending
  BY <1>2, LinesKeep
<1>3. CASE BashExit /\ UNCHANGED pending
  <2>1. /\ onData' = <<>> /\ onExit' = <<>>
        /\ request' \in [Requests -> AtRest]
        /\ \A r \in Requests : /\ request'[r].from = request[r].from
                              /\ request'[r].kind \in {request[r].kind, None}
    BY <1>3, ExitKeeps, Zenon
  <2>2. onData' \in Seq(Listeners) /\ onExit' \in Seq(Requests) /\ CallbacksWait'
    BY <2>1 DEF CallbacksWait, Range
  <2>3. ButtonsComeBack'
    BY <1>3, <2>1, ButtonsKept DEF Known
  <2>4. LdmElsewhere'
    BY <2>1, ElsewhereKept DEF Known
  <2> QED
    BY <2>1, <2>2, <2>3, <2>4 DEF Known, RequestsTyped
<1>4. ASSUME NEW r \in Requests,
             \/ request[r] = Free /\ Asking(r, "other") /\ UNCHANGED pending
             \/ request[r] = Free /\ Asking(r, "page")
      PROVE  Known'
  BY <1>4, AskingKeeps
<1>5. ASSUME NEW r \in Requests,
             \/ Answer(r) \/ PageTimesOut(r)
             \/ (TimerFires(r) \/ PollHits(r) \/ TimerOfLeft(r)) /\ UNCHANGED pending
      PROVE  Known'
  BY <1>5, OneRequestKeeps
<1>6. CASE CloseSockets
  <2>1. /\ request' = [r \in Requests |->
                         [request[r] EXCEPT !.from = IF @ = "page" THEN "other" ELSE @]]
        /\ UNCHANGED <<onData, onExit>> /\ pending' = None
    BY <1>6, Zenon DEF CloseSockets, ptyVars, AckSettles
  <2>2. /\ request \in [Requests -> AtRest]
        /\ onData \in Seq(Listeners) /\ onExit \in Seq(Requests)
        /\ Range(onData) \subseteq Listeners
    BY DEF Known, RequestsTyped, Range
  <2>3. \A r \in Requests : /\ request'[r] \in AtRest
                            /\ request'[r].stage = request[r].stage
                            /\ request'[r].live = request[r].live
                            /\ request'[r].kind = request[r].kind
                            /\ request'[r].from # "page"
    <3> TAKE r \in Requests
    <3> DEFINE q == request[r]
               from == IF q.from = "page" THEN "other" ELSE q.from
    <3>1. request'[r] = [q EXCEPT !.from = from]
      BY <2>1
    <3>2. /\ q \in AtRest /\ from \in {"other", None}
          /\ from # "page" /\ (q.stage = "left" => from = None)
      <4>1. None # "page"
        BY ConsoleAssumption
      <4> QED
        BY <2>2, <4>1 DEF AtRest, RequestsAt
    <3> HIDE DEF from, q
    <3>3. /\ request'[r] \in AtRest /\ request'[r].stage = q.stage
          /\ request'[r].live = q.live /\ request'[r].kind = q.kind
          /\ request'[r].from # "page"
      BY <3>1, <3>2 DEF AtRest, RequestsAt
    <3> QED
      BY <3>3 DEF q
  <2>4. request' \in [Requests -> AtRest]
    BY <2>1, <2>3
  <2>5. CallbacksWait'
    <3>1. onData' \in Seq(Listeners) /\ Range(onData') \subseteq Range(onData)
      BY <2>1, <2>2
    <3>2. \A c \in Range(onData') : c.by \in Requests
      BY <2>2, <3>1 DEF Listeners
    <3> QED
      BY <2>3, <3>1, <3>2, CallbacksKept, Zenon
  <2>6. ButtonsComeBack'
    BY <2>1 DEF ButtonsComeBack
  <2>7. LdmElsewhere'
    BY <2>3, ElsewhereKept DEF Known
  <2> QED
    BY <2>1, <2>2, <2>4, <2>5, <2>6, <2>7 DEF Known, RequestsTyped
<1>7. CASE PanelEnds
  <2>1. /\ request' = [r \in Requests |-> Free] /\ onData' = <<>> /\ onExit' = <<>>
        /\ pending' = None
    BY <1>7, Zenon DEF PanelEnds, AckSettles
  <2>2. Free \in AtRest
    BY DEF Free, AtRest, RequestsAt
  <2>3. LdmElsewhere'
    <3>1. \A r \in Requests : request'[r].kind = None
      BY <2>1 DEF Free
    <3> QED
      BY <3>1, ElsewhereKept DEF Known
  <2> QED
    BY <2>1, <2>2, <2>3 DEF Known, RequestsTyped, CallbacksWait, ButtonsComeBack, Range
<1> QED
  BY <1>1, <1>2, <1>3, <1>4, <1>5, <1>6, <1>7, Zenon DEF RequestChange
-----------------------------------------------------------------------------
LEMMA NextIInv == IInv /\ [Next]_vars => IInv'
<1>1. CASE UNCHANGED vars
  <2> SUFFICES ASSUME IInv PROVE IInv'
    BY <1>1
  <2>1. UNCHANGED <<sessionVars, pageVars, request, phase, running, killed, game, input, lines,
                    onData, onExit>>
    BY <1>1, Zenon DEF vars, ptyVars
  <2>2. TypeOK'
    BY <2>1, Zenon DEF IInv, TypeOK, SessionsTypeOK, PageTypeOK, sessionVars, pageVars
  <2>3. CallbacksWait' /\ LdmElsewhere' /\ DiskFollows' /\ ButtonsComeBack'
    BY <2>1, Zenon
    DEF IInv, CallbacksWait, LdmElsewhere, DiskFollows, ButtonsComeBack, sessionVars, pageVars, Up
  <2> QED
    BY <2>2, <2>3 DEF IInv
<1>2. CASE Next
  <2> SUFFICES ASSUME IInv PROVE IInv'
    BY <1>2
  <2>1. SessionsTypeOK' /\ DiskFollows'
    BY <1>2, RecordSteps, RecordsTyped, DiskNext, Zenon DEF IInv, TypeOK
  <2>2. PageTypeOK'
    BY <1>2, PageSteps, PageTyped, Zenon DEF IInv, TypeOK
  <2>3. TerminalChange
    BY <1>2, TerminalSteps, Zenon
  <2>4. Bounded'
    BY <2>3, TerminalTyped, Zenon DEF IInv, TypeOK, Bounded
  <2>5. {running, killed}' \subseteq BOOLEAN
    <3>1. running \in BOOLEAN /\ killed \in BOOLEAN
      BY Zenon DEF IInv, TypeOK
    <3> QED
      BY <2>3, <3>1, Zenon DEF TerminalChange
  <2>6. /\ game' \in {"unstarted", "loading", "ready", "ended"}
        /\ phase' \in {"down", "up", "marking", "closing", "killed"}
    BY <2>3, Zenon DEF TerminalChange, IInv, TypeOK
  <2>7. Known'
    <3>1. Known /\ lines \in Seq(Lines)
      BY Zenon DEF IInv, TypeOK, Known, RequestsTyped
    <3> QED
      BY <1>2, <3>1, RequestSteps, RequestsKeep, Zenon
  <2>8. TypeOK'
    BY <2>1, <2>2, <2>4, <2>5, <2>6, <2>7, Zenon
    DEF TypeOK, Bounded, Known, RequestsTyped
  <2> QED
    BY <2>1, <2>7, <2>8 DEF IInv, Known
<1> QED
  BY <1>1, <1>2

(* The inductive invariant: nobody is left in a list of callbacks but who  *)
(* waits, the file follows the memory, and buttons have their request.     *)
THEOREM Invariance == Spec => []IInv
<1>1. Init => IInv
  BY InitIInv
<1>2. IInv /\ [Next]_vars => IInv'
  BY NextIInv
<1> QED
  BY <1>1, <1>2, PTL DEF Spec

(* The types of the console, its bounds, and that no command of LDM is     *)
(* ever left between the line that settles it and its handler.             *)
THEOREM TypeCorrect == Spec => []TypeOK
<1>1. IInv => TypeOK
  BY DEF IInv
<1> QED
  BY <1>1, Invariance, PTL

(* However mutations, writes, failures of the disk and ends of the panel   *)
(* alternate, the file says what the memory says as soon as nothing is     *)
(* under way and the last write went well.                                 *)
THEOREM RecordKept == Spec => []RecordIsKept
<1>1. IInv => RecordIsKept
  BY DEF IInv, DiskFollows, RecordIsKept, FileIsRecord
<1> QED
  BY <1>1, Invariance, PTL

(* Whatever becomes of the terminal, disabled buttons have a request of    *)
(* the page under way, whose answer or local timeout enables them.         *)
THEOREM ButtonsFollow == Spec => []ButtonsComeBack
<1>1. IInv => ButtonsComeBack
  BY DEF IInv
<1> QED
  BY <1>1, Invariance, PTL

-----------------------------------------------------------------------------
(* What is answered well.                                                  *)

AnswerIsTrue(r) ==
  Waits(r) =>
    IF request'[r].stage = "waits"
    THEN request'[r].hit # request[r].hit => request[r].live
    ELSE request'[r].answer = "ok" => ToldTheTruth(r)

(* A step that leaves a waiting request alone, or fails it, tells no lie.  *)
LEMMA LeftAlone ==
  ASSUME NEW r \in Requests,
         Waits(r) => \/ request'[r].stage = "waits" /\ request'[r].hit = request[r].hit
                     \/ request'[r].stage # "waits" /\ request'[r].answer # "ok"
  PROVE  AnswerIsTrue(r)
BY DEF AnswerIsTrue

LEMMA NewAreNotWaiting ==
  ASSUME Known, NEW r \in Requests, NEW p \in Requests,
         \/ request[p] = Free /\ (Asking(p, "other") \/ Asking(p, "page"))
         \/ Answer(p) \/ TimerOfLeft(p)
  PROVE  AnswerIsTrue(r)
<1>1. request \in [Requests -> AtRest]
  BY DEF Known, RequestsTyped
<1>2. \E q : request' = [request EXCEPT ![p] = q] /\ request[p].stage # "waits"
  <2>1. ASSUME Answer(p) \/ TimerOfLeft(p)
        PROVE  \E q : request' = [request EXCEPT ![p] = q] /\ request[p].stage # "waits"
    <3>1. request' = [request EXCEPT ![p] = Free] /\ request[p].stage \in {"answered", "left"}
      BY <2>1, Zenon DEF Answer, TimerOfLeft
    <3>2. request[p].stage # "waits"
      BY <3>1
    <3> QED
      BY <3>1, <3>2, Zenon
  <2>2. ASSUME NEW from \in {"page", "other"}, request[p] = Free, Asking(p, from)
        PROVE  \E q : request' = [request EXCEPT ![p] = q] /\ request[p].stage # "waits"
    <3>1. PICK q : NewRequest(p, from, q)
      BY <2>2, AskingIsNew
    <3>2. request[p].stage # "waits"
      BY <2>2 DEF Free
    <3> QED
      BY <3>1, <3>2, Zenon DEF NewRequest
  <2> QED
    BY <2>1, <2>2
<1>3. PICK q : request' = [request EXCEPT ![p] = q] /\ request[p].stage # "waits"
  BY <1>2
<1>4. Waits(r) => request'[r] = request[r]
  BY <1>1, <1>3 DEF Waits
<1> QED
  BY <1>4, LeftAlone DEF Waits

LEMMA StepAnswers ==
  ASSUME Known, lines \in Seq(Lines), RequestChange, NEW r \in Requests
  PROVE  AnswerIsTrue(r)
<1>1. request \in [Requests -> AtRest]
  BY DEF Known, RequestsTyped
<1>2. CASE UNCHANGED <<request, onData, onExit, pending>>
  BY <1>2, LeftAlone DEF Waits
<1>3. CASE FlushLines
  <2>1. Sound(Heard)
    <3>1. Sound(Callbacks)
      BY CallbacksSound, Zenon DEF Known, RequestsTyped
    <3> QED
      BY <3>1, HearAllSound, Zenon DEF Known, RequestsTyped, Heard
  <2>2. request' = Resumed(Heard.req)
    BY <1>3, Zenon DEF FlushLines
  <2>3. /\ (Waits(r) /\ request'[r].stage # "waits" /\ request'[r].answer = "ok") => ByLine(r)
        /\ (request'[r].stage = "waits" /\ request'[r].hit # request[r].hit) => request[r].live
    BY <1>1, <2>1, <2>2, ResumedSound DEF Waits
  <2> QED
    BY <2>3 DEF AnswerIsTrue, ToldTheTruth, ByLine
<1>4. CASE BashExit
  <2>1. /\ (request[r].stage = "waits" /\ request'[r].stage # "waits"
             /\ request'[r].answer = "ok") =>
            ByLine(r) \/ request[r].kind \in {"shutdown", "close"}
        /\ (request'[r].stage = "waits" /\ request'[r].hit # request[r].hit) => request[r].live
    BY <1>4, ExitKeeps, Zenon
  <2>2. ~running'
    BY <1>4, Zenon DEF BashExit, BashIsGone
  <2> QED
    BY <2>1, <2>2 DEF AnswerIsTrue, ToldTheTruth, Waits, ByLine
<1>5. ASSUME NEW p \in Requests,
             \/ request[p] = Free /\ (Asking(p, "other") \/ Asking(p, "page"))
             \/ Answer(p) \/ TimerOfLeft(p)
      PROVE  AnswerIsTrue(r)
  BY <1>5, NewAreNotWaiting, Zenon
<1>6. ASSUME NEW p \in Requests, PageTimesOut(p) PROVE AnswerIsTrue(r)
  <2>1. request' = [request EXCEPT ![p].from = "other"]
    BY <1>6, Zenon DEF PageTimesOut
  <2>2. request[p] \in AtRest
    BY <1>1
  <2>3. request'[r].stage = request[r].stage /\ request'[r].hit = request[r].hit
    BY <1>1, <2>1, <2>2 DEF AtRest, RequestsAt
  <2> QED
    BY <2>3, LeftAlone DEF Waits
<1>7. ASSUME NEW p \in Requests, TimerFires(p) PROVE AnswerIsTrue(r)
  <2> DEFINE answer == IF request[p].kind = "close" THEN "ok" ELSE "error"
             q == Done(request[p], answer)
  <2>1. request' = [request EXCEPT ![p] = q]
    <3>1. request' = [request EXCEPT ![p] = Done(@, answer)]
      BY <1>7, Zenon DEF TimerFires
    <3> QED
      BY <1>1, <3>1, Zenon
  <2>2. request[p].kind = "close" => killed'
    BY <1>7, Zenon DEF TimerFires, Killing
  <2>3. q.answer = answer /\ q.stage = "answered"
    BY DEF Done, Free
  <2>4. answer = "ok" => request[p].kind = "close"
    OBVIOUS
  <2> HIDE DEF q, answer
  <2>5. CASE r = p
    <3>1. request'[r].answer = answer /\ request'[r].stage = "answered"
      BY <1>1, <2>1, <2>3, <2>5
    <3> QED
      BY <2>2, <2>4, <2>5, <3>1 DEF AnswerIsTrue, ToldTheTruth
  <2>6. CASE r # p
    <3>1. request'[r] = request[r]
      BY <1>1, <2>1, <2>6
    <3> QED
      BY <3>1, LeftAlone DEF Waits
  <2> QED
    BY <2>5, <2>6
<1>8. CASE CloseSockets
  <2>1. request'[r] = [request[r] EXCEPT !.from = IF @ = "page" THEN "other" ELSE @]
    BY <1>8 DEF CloseSockets
  <2>2. request[r] \in AtRest
    BY <1>1
  <2>3. request'[r].stage = request[r].stage /\ request'[r].hit = request[r].hit
    BY <2>1, <2>2 DEF AtRest, RequestsAt
  <2> QED
    BY <2>3, LeftAlone DEF Waits
<1>9. CASE PanelEnds
  <2>1. request'[r].stage = "free" /\ request'[r].answer = None
    BY <1>9 DEF PanelEnds, Free
  <2>2. ~running'
    BY <1>9, Zenon DEF PanelEnds
  <2> QED
    BY <2>1, <2>2, LeftAlone, ConsoleAssumption
<1>10. ASSUME NEW p \in Requests, PollHits(p) PROVE AnswerIsTrue(r)
  <2> DEFINE q == Left(request[p], request[p].hit)
  <2>1. /\ request' = [request EXCEPT ![p] = Left(@, @.hit)]
        /\ request[p].kind \in {"plugin", "about"}
    BY <1>10, Zenon DEF PollHits
  <2>2. request' = [request EXCEPT ![p] = q]
    BY <1>1, <2>1, Zenon
  <2>3. q.answer = request[p].hit /\ q.stage = "left"
    BY DEF Left, Free
  <2> HIDE DEF q
  <2>4. CASE r = p
    <3>1. request'[r].answer = request[r].hit /\ request'[r].stage = "left"
      BY <1>1, <2>2, <2>3, <2>4
    <3> QED
      BY <2>1, <2>4, <3>1 DEF AnswerIsTrue, ToldTheTruth
  <2>5. CASE r # p
    <3>1. request'[r] = request[r]
      BY <1>1, <2>2, <2>5
    <3> QED
      BY <3>1, LeftAlone DEF Waits
  <2> QED
    BY <2>4, <2>5
<1> QED
  BY <1>2, <1>3, <1>4, <1>5, <1>6, <1>7, <1>8, <1>9, <1>10, Zenon DEF RequestChange

(* Whoever is told that its request went well was told the truth: the line *)
(* came from the bash it asked, or the bash is killed or gone.             *)
THEOREM AnswersTrue == Spec => AnswersAreTrue
<1>1. IInv /\ [Next]_vars => [\A r \in Requests : AnswerIsTrue(r)]_vars
  <2>1. ASSUME IInv, Next, NEW r \in Requests PROVE AnswerIsTrue(r)
    <3>1. Known /\ lines \in Seq(Lines)
      BY <2>1, Zenon DEF IInv, TypeOK, Known, RequestsTyped
    <3> QED
      BY <2>1, <3>1, RequestSteps, StepAnswers, Zenon
  <2> QED
    BY <2>1
<1>2. [\A r \in Requests : AnswerIsTrue(r)]_vars <=>
      [\A r \in Requests : Waits(r) =>
         IF request'[r].stage = "waits"
         THEN request'[r].hit # request[r].hit => request[r].live
         ELSE request'[r].answer = "ok" => ToldTheTruth(r)]_vars
  BY DEF AnswerIsTrue
<1> QED
  BY <1>1, <1>2, Invariance, PTL DEF Spec, AnswersAreTrue
=============================================================================
