-------------------------- MODULE ConfigPage_proofs --------------------------
(***************************************************************************)
(* Proofs about the configuration page, for any servers, any contents of   *)
(* their files and any number of clicks and loads.  What parsing and       *)
(* serializing make of a file is proved by induction over its lines: a     *)
(* record of the form that is written is read back as it was, and          *)
(* comments are read as they stand.                                        *)
(***************************************************************************)
EXTENDS ConfigPage, Lists, SequenceTheorems, FiniteSetTheorems, WellFoundedInduction, TLAPS

-----------------------------------------------------------------------------
(* Induction and recursion.                                                *)

(* A set with 0 and the successor of each of its numbers has them all.     *)
LEMMA SetInduction ==
  ASSUME NEW S, 0 \in S, \A n \in Nat : n \in S => n + 1 \in S
  PROVE  Nat \subseteq S
<1> SUFFICES ASSUME Nat \ S # {} PROVE FALSE
  OBVIOUS
<1> DEFINE Rest == Nat \ S
<1>1. PICK m \in Rest : \A k \in Rest : <<k, m>> \notin OpToRel(<, Nat)
  <2> HIDE DEF Rest
  <2>1. Rest \subseteq Nat /\ Rest # {}
    BY DEF Rest
  <2> QED
    BY <2>1, WFMin, NatLessThanWellFounded, Zenon
<1>2. m # 0 /\ m \in Nat /\ m \notin S
  OBVIOUS
<1>3. m - 1 \in Nat /\ m - 1 < m
  BY <1>2
<1>4. <<m - 1, m>> \in OpToRel(<, Nat)
  BY <1>2, <1>3 DEF OpToRel
<1>5. m - 1 \in S
  BY <1>1, <1>3, <1>4
<1>6. (m - 1) + 1 \in S
  BY <1>3, <1>5
<1> QED
  BY <1>2, <1>3, <1>6

(* The values of a recursive function, from a on and by these steps.       *)
Runs(f, a, n, step) == f[0] = a /\ \A i \in 1..n : f[i] = step[i][f[i - 1]]

(* There is a function from a on, whatever the steps do inside a set U.    *)
LEMMA RecursionExists ==
  ASSUME NEW U, NEW a \in U, NEW n \in Nat, NEW step \in [1..n -> [U -> U]]
  PROVE  \E f \in [0..n -> U] : Runs(f, a, n, step)
<1> DEFINE S == {k \in Nat : k <= n => \E f \in [0..k -> U] : Runs(f, a, k, step)}
<1>1. 0 \in S
  <2> DEFINE f == [i \in 0..0 |-> a]
  <2>1. f \in [0..0 -> U] /\ Runs(f, a, 0, step)
    BY DEF Runs
  <2> QED
    BY <2>1
<1>2. ASSUME NEW k \in Nat, k \in S PROVE k + 1 \in S
  <2> SUFFICES ASSUME k + 1 <= n PROVE \E f \in [0..(k + 1) -> U] : Runs(f, a, k + 1, step)
    OBVIOUS
  <2>1. PICK g \in [0..k -> U] : Runs(g, a, k, step)
    BY <1>2
  <2> DEFINE f == [i \in 0..(k + 1) |-> IF i <= k THEN g[i] ELSE step[i][g[k]]]
  <2>2. step[k + 1] \in [U -> U] /\ g[k] \in U
    OBVIOUS
  <2>3. step[k + 1][g[k]] \in U
    BY <2>2
  <2>4. f \in [0..(k + 1) -> U]
    BY <2>3
  <2>5. ASSUME NEW i \in 1..(k + 1) PROVE f[i] = step[i][f[i - 1]]
    <3>1. CASE i <= k
      <4>1. i \in 1..k /\ i - 1 \in 0..k
        BY <3>1
      <4>2. g[i] = step[i][g[i - 1]]
        BY <2>1, <4>1 DEF Runs
      <4> QED
        BY <3>1, <4>1, <4>2
    <3>2. CASE i = k + 1
      BY <3>2
    <3> QED
      BY <3>1, <3>2
  <2>6. f[0] = a
    BY <2>1 DEF Runs
  <2> QED
    BY <2>4, <2>5, <2>6 DEF Runs
<1> HIDE DEF S
<1>3. Nat \subseteq S
  BY <1>1, <1>2, SetInduction
<1> QED
  BY <1>3 DEF S

(* The equation of KeptAt.                                                 *)
Kept(list, positions, n, g) ==
  g = [i \in 0..n |-> IF i = 0 THEN <<>>
                      ELSE IF i \in positions THEN Append(g[i - 1], list[i]) ELSE g[i - 1]]

LEMMA KeptPrefixes ==
  ASSUME NEW A, NEW list \in Seq(A), NEW positions
  PROVE  \E g \in [0..Len(list) -> Seq(A)] :
           /\ KeptAt(list, positions) = g[Len(list)]
           /\ g[0] = <<>>
           /\ \A i \in 1..Len(list) :
                g[i] = IF i \in positions THEN Append(g[i - 1], list[i]) ELSE g[i - 1]
<1> DEFINE n == Len(list)
           U == Seq(A)
           step == [i \in 1..n |-> [s \in U |-> IF i \in positions THEN Append(s, list[i]) ELSE s]]
           h == CHOOSE f : Kept(list, positions, n, f)
<1>1. n \in Nat /\ \A i \in 1..n : list[i] \in A
  OBVIOUS
<1>2. \A i \in 1..n : \A s \in U : (IF i \in positions THEN Append(s, list[i]) ELSE s) \in U
  BY <1>1
<1>3. step \in [1..n -> [U -> U]] /\ <<>> \in U
  BY <1>2
<1>4. \E f \in [0..n -> U] : Runs(f, <<>>, n, step)
  <2> HIDE DEF step, n, U
  <2> QED
    BY <1>1, <1>3, RecursionExists
<1>5. PICK f \in [0..n -> U] : Runs(f, <<>>, n, step)
  BY <1>4
<1>6. \A i \in 1..n : f[i] = IF i \in positions THEN Append(f[i - 1], list[i]) ELSE f[i - 1]
  <2> TAKE i \in 1..n
  <2>2. f[i] = step[i][f[i - 1]]
    BY <1>5 DEF Runs
  <2> HIDE DEF U, n
  <2>1. i - 1 \in 0..n /\ f[i - 1] \in U
    BY <1>1
  <2>3. step[i][f[i - 1]] = IF i \in positions THEN Append(f[i - 1], list[i]) ELSE f[i - 1]
    BY <2>1
  <2> QED
    BY <2>2, <2>3
<1>7. Kept(list, positions, n, f)
  <2> HIDE DEF n, U
  <2>1. f[0] = <<>>
    BY <1>5 DEF Runs
  <2>2. \A i \in 0..n : f[i] = IF i = 0 THEN <<>>
             ELSE IF i \in positions THEN Append(f[i - 1], list[i]) ELSE f[i - 1]
    <3> TAKE i \in 0..n
    <3>1. CASE i = 0
      BY <2>1, <3>1
    <3>2. CASE i # 0
      <4>1. i \in 1..n
        BY <1>1, <3>2
      <4> QED
        BY <1>6, <3>2, <4>1, Zenon
    <3> QED
      BY <3>1, <3>2
  <2>3. f = [i \in 0..n |-> f[i]]
    BY <1>5
  <2> QED
    BY <2>2, <2>3 DEF Kept
<1>8. Kept(list, positions, n, h)
  BY <1>7, Zenon
<1>9. KeptAt(list, positions) = h[n]
  BY Zenon DEF KeptAt, Kept
<1> HIDE DEF h
<1>10. DOMAIN h = 0..n /\ h[0] = <<>>
         /\ \A i \in 1..n : h[i] = IF i \in positions THEN Append(h[i - 1], list[i]) ELSE h[i - 1]
  <2>1. \A i \in 0..n : h[i] = IF i = 0 THEN <<>>
             ELSE IF i \in positions THEN Append(h[i - 1], list[i]) ELSE h[i - 1]
    BY <1>8, Zenon DEF Kept
  <2>2. 0 \in 0..n /\ \A i \in 1..n : i \in 0..n /\ i # 0
    BY <1>1
  <2>3. DOMAIN h = 0..n
    BY <1>8, Zenon DEF Kept
  <2> QED
    BY <2>1, <2>2, <2>3, Zenon
<1>11. h = f
  <2> DEFINE S == {k \in Nat : k <= n => h[k] = f[k]}
  <2>1. 0 \in S
    BY <1>5, <1>10 DEF Runs
  <2>2. ASSUME NEW k \in Nat, k \in S PROVE k + 1 \in S
    <3> SUFFICES ASSUME k + 1 <= n PROVE h[k + 1] = f[k + 1]
      OBVIOUS
    <3>1. k + 1 \in 1..n /\ (k + 1) - 1 = k /\ h[k] = f[k]
      BY <1>1, <2>2
    <3> QED
      BY <1>6, <1>10, <3>1
  <2> HIDE DEF S
  <2>3. Nat \subseteq S
    BY <2>1, <2>2, SetInduction
  <2>4. \A i \in 0..n : h[i] = f[i]
    BY <1>1, <2>3 DEF S
  <2>5. h = [i \in 0..n |-> h[i]] /\ f = [i \in 0..n |-> f[i]]
    BY <1>8, <1>5, Zenon DEF Kept
  <2> QED
    BY <2>4, <2>5
<1> QED
  BY <1>5, <1>9, <1>10, <1>11

(* Array.filter yields elements of the list, and the list itself when the  *)
(* predicate holds of all.                                                 *)
LEMMA KeptType ==
  ASSUME NEW A, NEW list \in Seq(A), NEW positions
  PROVE  KeptAt(list, positions) \in Seq(A)
<1> DEFINE n == Len(list)
           U == Seq(A)
<1>1. PICK g \in [0..n -> U] :
           /\ KeptAt(list, positions) = g[n]
           /\ g[0] = <<>>
           /\ \A i \in 1..n :
                g[i] = IF i \in positions THEN Append(g[i - 1], list[i]) ELSE g[i - 1]
  BY KeptPrefixes
<1>2. n \in 0..n
  OBVIOUS
<1> HIDE DEF n, U
<1>3. g[n] \in U
  BY <1>2
<1> QED
  BY <1>1, <1>3 DEF U

LEMMA KeptAll ==
  ASSUME NEW A, NEW list \in Seq(A), NEW positions, DOMAIN list \subseteq positions
  PROVE  KeptAt(list, positions) = list
<1> DEFINE n == Len(list)
<1>1. PICK g \in [0..n -> Seq(A)] :
           /\ KeptAt(list, positions) = g[n]
           /\ g[0] = <<>>
           /\ \A i \in 1..n :
                g[i] = IF i \in positions THEN Append(g[i - 1], list[i]) ELSE g[i - 1]
  BY KeptPrefixes
<1> DEFINE S == {k \in Nat : k <= n => g[k] = SubSeq(list, 1, k)}
<1>2. n \in Nat /\ DOMAIN list = 1..n
  OBVIOUS
<1>3. 0 \in S
  BY <1>1
<1>4. ASSUME NEW k \in Nat, k \in S PROVE k + 1 \in S
  <2> SUFFICES ASSUME k + 1 <= n PROVE g[k + 1] = SubSeq(list, 1, k + 1)
    OBVIOUS
  <2>1. k + 1 \in 1..n /\ k + 1 \in positions /\ (k + 1) - 1 = k
    BY <1>2
  <2>2. g[k + 1] = Append(g[k], list[k + 1])
    BY <1>1, <2>1
  <2>3. g[k] = SubSeq(list, 1, k)
    BY <1>2, <1>4
  <2>4. Append(SubSeq(list, 1, k), list[k + 1]) = SubSeq(list, 1, k + 1)
    BY <1>2
  <2> QED
    BY <2>2, <2>3, <2>4
<1> HIDE DEF S
<1>5. Nat \subseteq S
  BY <1>3, <1>4, SetInduction
<1>6. n \in S /\ n <= n
  BY <1>2, <1>5
<1>7. g[n] = SubSeq(list, 1, n)
  BY <1>6 DEF S
<1> QED
  BY <1>1, <1>7

(* The keys of a finite dictionary in some order, each once.               *)
LEMMA KeysInOrder ==
  ASSUME NEW S, IsFiniteSet(S)
  PROVE  /\ C!SetToSeq(S) \in [1..Cardinality(S) -> S]
         /\ Cardinality(S) \in Nat
         /\ \A i, j \in 1..Cardinality(S) :
              C!SetToSeq(S)[i] = C!SetToSeq(S)[j] => i = j
         /\ \A x \in S : \E i \in 1..Cardinality(S) : C!SetToSeq(S)[i] = x
<1> DEFINE n == Cardinality(S)
           q == C!SetToSeq(S)
<1>1. n \in Nat /\ ExistsBijection(1..n, S)
  BY FS_CardinalityType
<1>2. PICK b \in Bijection(1..n, S) : TRUE
  BY <1>1 DEF ExistsBijection
<1>3. b \in [1..n -> S] /\ C!IsInjective(b)
  BY <1>2 DEF Bijection, Injection, IsInjective, C!IsInjective
<1>4. q \in [1..n -> S] /\ C!IsInjective(q)
  <2>1. n = C!Cardinality(S)
    BY DEF Cardinality, C!Cardinality
  <2>2. q = CHOOSE f \in [1..C!Cardinality(S) -> S] : C!IsInjective(f)
    BY DEF C!SetToSeq
  <2> HIDE DEF q, n
  <2> QED
    BY <1>3, <2>1, <2>2
<1> HIDE DEF q
<1>5. \A i, j \in 1..n : q[i] = q[j] => i = j
  BY <1>4 DEF C!IsInjective
<1>6. q \in Injection(1..n, S)
  BY <1>4 DEF C!IsInjective, Injection, IsInjective
<1>7. IsFiniteSet(1..n) /\ Cardinality(1..n) = n
  <2>1. Cardinality(1..n) = IF 1 > n THEN 0 ELSE n - 1 + 1
    BY <1>1, FS_Interval
  <2>2. IsFiniteSet(1..n)
    BY <1>1, FS_Interval
  <2> QED
    BY <1>1, <2>1, <2>2
<1>8. q \in Surjection(1..n, S)
  BY <1>6, <1>7, FS_Injection
<1>9. \A x \in S : \E i \in 1..n : q[i] = x
  BY <1>8 DEF Surjection
<1> QED
  BY <1>1, <1>4, <1>5, <1>9 DEF q
-----------------------------------------------------------------------------
(* The types of a file's lines and of the record made of them.  Texts is   *)
(* STRING: that a string in quotes is one of its elements is not known to  *)
(* the provers.                                                            *)
Reserved == C!COMMENTS \cup C!LEGACY_KEYS \cup C!KNOWN_KEYS
Texts    == STRING \cup Reserved \cup C!VALID_LOADOUT_SKILLSET_IDS \cup C!ITEM_IDS
                  \cup {"Y", "N", "5", "Unturned", ""}
Lines    == [key : Texts, value : Seq(Texts)]

CommentLines == {l \in Lines : l.key \in C!COMMENTS}
Entries      == [skillsetId : C!VALID_LOADOUT_SKILLSET_IDS, itemIds : Seq(C!ITEM_IDS)]
Dicts(S)     == UNION {[K -> Seq(Texts)] : K \in {P \in SUBSET S : IsFiniteSet(P)}}

Records ==
  [known : Dicts(C!KNOWN_KEYS), unknown : Dicts(Texts \ Reserved),
   comments : Seq(CommentLines), loadouts : Seq(Entries)]

LEMMA DictIs ==
  ASSUME NEW S, NEW f
  PROVE  f \in Dicts(S) <=> /\ DOMAIN f \subseteq S /\ IsFiniteSet(DOMAIN f)
                            /\ f \in [DOMAIN f -> Seq(Texts)]
<1> DEFINE V == Seq(Texts)
<1> HIDE DEF V
<1>1. Dicts(S) = UNION {[K -> V] : K \in {P \in SUBSET S : IsFiniteSet(P)}}
  BY DEF Dicts, V
<1>2. f \in Dicts(S) <=> \E K \in SUBSET S : IsFiniteSet(K) /\ f \in [K -> V]
  BY <1>1
<1> QED
  BY <1>2 DEF V

LEMMA NoKeysType ==
  ASSUME NEW S
  PROVE  C!NoKeys \in Dicts(S) /\ DOMAIN C!NoKeys = {}
<1>1. DOMAIN C!NoKeys = {} /\ C!NoKeys \in [{} -> Seq(Texts)]
  BY DEF C!NoKeys
<1> QED
  BY <1>1, DictIs, FS_EmptySet

LEMMA PutType ==
  ASSUME NEW S, NEW f \in Dicts(S), NEW k \in S, NEW v \in Seq(Texts)
  PROVE  C!Put(f, k, v) \in Dicts(S)
<1> DEFINE V == Seq(Texts)
           g == C!Put(f, k, v)
<1>1. DOMAIN f \subseteq S /\ IsFiniteSet(DOMAIN f) /\ f \in [DOMAIN f -> V]
  BY DictIs
<1>2. IsFiniteSet(DOMAIN f \cup {k})
  BY <1>1, FS_AddElement
<1>3. g = [x \in DOMAIN f \cup {k} |-> IF x = k THEN v ELSE f[x]]
  BY DEF C!Put
<1>4. v \in V
  OBVIOUS
<1> HIDE DEF V, g
<1>5. DOMAIN g = DOMAIN f \cup {k} /\ g \in [DOMAIN g -> V]
  BY <1>1, <1>3, <1>4
<1>6. DOMAIN g \subseteq S /\ IsFiniteSet(DOMAIN g)
  BY <1>1, <1>2, <1>5
<1>7. g \in Dicts(S)
  BY <1>5, <1>6, DictIs DEF V
<1> QED
  BY <1>7 DEF g

LEMMA LoadoutLineType ==
  ASSUME NEW v \in Seq(Texts)
  PROVE  C!ParseLoadoutLine(v) \in Seq(Entries)
<1> SUFFICES ASSUME v # <<>>, Head(v) \in C!VALID_LOADOUT_SKILLSET_IDS,
                    C!Range(Tail(v)) \subseteq C!ITEM_IDS
             PROVE  <<[skillsetId |-> Head(v), itemIds |-> Tail(v)]>> \in Seq(Entries)
  BY DEF C!ParseLoadoutLine
<1>1. Tail(v) \in Seq(Texts)
  OBVIOUS
<1>3. Tail(v) \in Seq(C!ITEM_IDS)
  <2> DEFINE t == Tail(v)
             I == C!ITEM_IDS
  <2>1. t \in Seq(Texts) /\ C!Range(t) \subseteq I
    BY <1>1
  <2> HIDE DEF t, I
  <2>2. \A i \in 1..Len(t) : t[i] \in I
    <3>1. DOMAIN t = 1..Len(t)
      BY <2>1
    <3> QED
      BY <2>1, <3>1 DEF C!Range
  <2>3. t \in Seq(I)
    BY <2>1, <2>2
  <2> QED
    BY <2>3 DEF t, I
<1>4. [skillsetId |-> Head(v), itemIds |-> Tail(v)] \in Entries
  BY <1>3 DEF Entries
<1> QED
  BY <1>4

LEMMA ParseLineType ==
  ASSUME NEW r \in Records, NEW l \in Lines
  PROVE  C!ParseLine(r, l) \in Records
<1> DEFINE K == Dicts(C!KNOWN_KEYS)
           X == Dicts(Texts \ Reserved)
           M == Seq(CommentLines)
           E == Seq(Entries)
<1>1. r \in [known : K, unknown : X, comments : M, loadouts : E]
  BY DEF Records
<1>2. l.key \in Texts /\ l.value \in Seq(Texts)
  BY DEF Lines
<1>3. l.key \in C!COMMENTS => Append(r.comments, l) \in M
  <2>1. r.comments \in Seq(CommentLines)
    BY <1>1
  <2> QED
    BY <2>1 DEF CommentLines
<1>4. r.loadouts \o C!ParseLoadoutLine(l.value) \in E
  <2>1. r.loadouts \in Seq(Entries) /\ C!ParseLoadoutLine(l.value) \in Seq(Entries)
    BY <1>1, <1>2, LoadoutLineType
  <2> QED
    BY <2>1
<1>5. l.key \in C!KNOWN_KEYS => C!Put(r.known, l.key, l.value) \in K
  BY <1>1, <1>2, PutType
<1>6. l.key \notin Reserved => C!Put(r.unknown, l.key, l.value) \in X
  BY <1>1, <1>2, PutType
<1> DEFINE W == [known : K, unknown : X, comments : M, loadouts : E]
<1>7. /\ r \in W
      /\ l.key \in C!COMMENTS => [r EXCEPT !.comments = Append(@, l)] \in W
      /\ [r EXCEPT !.loadouts = @ \o C!ParseLoadoutLine(l.value)] \in W
      /\ l.key \in C!KNOWN_KEYS => [r EXCEPT !.known = C!Put(@, l.key, l.value)] \in W
      /\ l.key \notin Reserved => [r EXCEPT !.unknown = C!Put(@, l.key, l.value)] \in W
  <2> HIDE DEF K, X, M, E
  <2> QED
    BY <1>1, <1>3, <1>4, <1>5, <1>6
<1>8. Records = W
  BY DEF Records
<1> HIDE DEF W
<1>9. C!ParseLine(r, l) \in W
  BY <1>7, Zenon DEF C!ParseLine, Reserved
<1> QED
  BY <1>8, <1>9

(* The records after each line.                                            *)
After(lines, g) ==
  /\ g \in [0..Len(lines) -> Records]
  /\ g[0] = C!EmptyRecord
  /\ \A i \in 1..Len(lines) : g[i] = C!ParseLine(g[i - 1], lines[i])
  /\ C!ParseCommandsDat(lines) = g[Len(lines)]

(* The equation of ParseCommandsDat.                                       *)
Parsed(lines, n, g) ==
  g = [i \in 0..n |-> IF i = 0 THEN C!EmptyRecord ELSE C!ParseLine(g[i - 1], lines[i])]

LEMMA ParsePrefixes ==
  ASSUME NEW lines \in Seq(Lines)
  PROVE  \E g : After(lines, g)
<1> DEFINE n == Len(lines)
           step == [i \in 1..n |-> [r \in Records |-> C!ParseLine(r, lines[i])]]
           h == CHOOSE f : Parsed(lines, n, f)
<1>1. n \in Nat /\ \A i \in 1..n : lines[i] \in Lines
  OBVIOUS
<1>2. C!EmptyRecord \in Records
  <2>1. <<>> \in Seq(CommentLines) /\ <<>> \in Seq(Entries)
    OBVIOUS
  <2> QED
    BY <2>1, NoKeysType DEF C!EmptyRecord, Records
<1>3. step \in [1..n -> [Records -> Records]]
  <2>1. \A i \in 1..n : \A r \in Records : C!ParseLine(r, lines[i]) \in Records
    BY <1>1, ParseLineType
  <2> HIDE DEF n
  <2> QED
    BY <2>1
<1>4. PICK f \in [0..n -> Records] : Runs(f, C!EmptyRecord, n, step)
  <2> HIDE DEF step, n
  <2> QED
    BY <1>1, <1>2, <1>3, RecursionExists
<1>5. f[0] = C!EmptyRecord /\ \A i \in 1..n : f[i] = C!ParseLine(f[i - 1], lines[i])
  <2>1. f[0] = C!EmptyRecord
    BY <1>4 DEF Runs
  <2>2. ASSUME NEW i \in 1..n PROVE f[i] = C!ParseLine(f[i - 1], lines[i])
    <3>1. f[i] = step[i][f[i - 1]]
      BY <1>4 DEF Runs
    <3> HIDE DEF n
    <3>2. f[i - 1] \in Records
      BY <1>1
    <3> QED
      BY <3>1, <3>2
  <2> QED
    BY <2>1, <2>2
<1>6. Parsed(lines, n, f)
  <2> HIDE DEF n
  <2>1. ASSUME NEW i \in 0..n
        PROVE  f[i] = IF i = 0 THEN C!EmptyRecord ELSE C!ParseLine(f[i - 1], lines[i])
    <3>1. i = 0 \/ i \in 1..n
      BY <1>1
    <3> QED
      BY <1>5, <3>1
  <2>2. f = [i \in 0..n |-> f[i]]
    BY <1>4
  <2> QED
    BY <2>1, <2>2 DEF Parsed
<1>7. Parsed(lines, n, h)
  BY <1>6, Zenon
<1>8. C!ParseCommandsDat(lines) = h[n]
  BY Zenon DEF C!ParseCommandsDat, Parsed
<1> HIDE DEF h, n
<1>9. h[0] = C!EmptyRecord /\ \A i \in 1..n : h[i] = C!ParseLine(h[i - 1], lines[i])
  <2>1. \A i \in 0..n :
           h[i] = IF i = 0 THEN C!EmptyRecord ELSE C!ParseLine(h[i - 1], lines[i])
    BY <1>7, Zenon DEF Parsed
  <2>2. 0 \in 0..n /\ \A i \in 1..n : i \in 0..n /\ i # 0
    BY <1>1
  <2> QED
    BY <2>1, <2>2, Zenon
<1>10. h = f
  <2> DEFINE S == {k \in Nat : k <= n => h[k] = f[k]}
  <2>1. 0 \in S
    BY <1>5, <1>9
  <2>2. ASSUME NEW k \in Nat, k \in S PROVE k + 1 \in S
    <3> SUFFICES ASSUME k + 1 <= n PROVE h[k + 1] = f[k + 1]
      OBVIOUS
    <3>1. k + 1 \in 1..n /\ (k + 1) - 1 = k /\ h[k] = f[k]
      BY <1>1, <2>2
    <3> QED
      BY <1>5, <1>9, <3>1
  <2> HIDE DEF S
  <2>3. Nat \subseteq S
    BY <2>1, <2>2, SetInduction
  <2>4. \A i \in 0..n : h[i] = f[i]
    BY <1>1, <2>3 DEF S
  <2>5. h = [i \in 0..n |-> h[i]] /\ f = [i \in 0..n |-> f[i]]
    BY <1>7, <1>4, Zenon DEF Parsed
  <2> QED
    BY <2>4, <2>5
<1>11. After(lines, f)
  BY <1>4, <1>5, <1>8, <1>10 DEF After, n
<1> QED
  BY <1>11
-----------------------------------------------------------------------------
(* What one line makes of a record, whatever it holds so far.              *)
Rec(k, u, c, l) == [known |-> k, unknown |-> u, comments |-> c, loadouts |-> l]

LEMMA CommentRead ==
  ASSUME NEW k, NEW u, NEW c, NEW l, NEW line, line.key \in C!COMMENTS
  PROVE  C!ParseLine(Rec(k, u, c, l), line) = Rec(k, u, Append(c, line), l)
<1>1. /\ line.key \notin C!LEGACY_KEYS /\ line.key \notin C!KNOWN_KEYS
      /\ line.key # "Loadout"
  BY DEF C!COMMENTS, C!LEGACY_KEYS, C!KNOWN_KEYS, C!FLAG_KEYS, C!REPEATABLE_KEYS
<1> QED
  BY <1>1 DEF C!ParseLine, Rec

LEMMA KnownRead ==
  ASSUME NEW k, NEW u, NEW c, NEW l, NEW line,
         line.key \in C!KNOWN_KEYS, line.key # "Loadout"
  PROVE  C!ParseLine(Rec(k, u, c, l), line) = Rec(C!Put(k, line.key, line.value), u, c, l)
<1>1. line.key \notin C!COMMENTS /\ line.key \notin C!LEGACY_KEYS
  BY DEF C!COMMENTS, C!LEGACY_KEYS, C!KNOWN_KEYS, C!FLAG_KEYS, C!REPEATABLE_KEYS
<1> QED
  BY <1>1 DEF C!ParseLine, Rec

LEMMA UnknownRead ==
  ASSUME NEW k, NEW u, NEW c, NEW l, NEW line, line.key \notin Reserved
  PROVE  C!ParseLine(Rec(k, u, c, l), line) = Rec(k, C!Put(u, line.key, line.value), c, l)
<1>1. /\ line.key \notin C!COMMENTS /\ line.key \notin C!LEGACY_KEYS
      /\ line.key \notin C!KNOWN_KEYS /\ line.key # "Loadout"
  BY DEF Reserved, C!KNOWN_KEYS, C!REPEATABLE_KEYS
<1> QED
  BY <1>1 DEF C!ParseLine, Rec

LoadoutLine(e)   == C!Line("Loadout", <<e.skillsetId>> \o e.itemIds)
LoadoutLines(es) == [i \in DOMAIN es |-> LoadoutLine(es[i])]

LEMMA LoadoutRead ==
  ASSUME NEW k, NEW u, NEW c, NEW l, NEW e \in Entries
  PROVE  /\ LoadoutLine(e) \in Lines
         /\ C!ParseLine(Rec(k, u, c, l), LoadoutLine(e)) = Rec(k, u, c, l \o <<e>>)
<1> DEFINE I == C!ITEM_IDS
           v == <<e.skillsetId>> \o e.itemIds
<1>1. /\ e.skillsetId \in C!VALID_LOADOUT_SKILLSET_IDS /\ e.itemIds \in Seq(I)
      /\ e = [skillsetId |-> e.skillsetId, itemIds |-> e.itemIds]
  BY DEF Entries
<1>2. I \subseteq Texts /\ e.skillsetId \in Texts
  <2>1. C!ITEM_IDS \subseteq Texts
    BY DEF Texts
  <2>2. C!VALID_LOADOUT_SKILLSET_IDS \subseteq Texts
    BY DEF Texts
  <2> QED
    BY <1>1, <2>1, <2>2
<1>3. /\ v # <<>> /\ Head(v) = e.skillsetId /\ Tail(v) = e.itemIds /\ v \in Seq(Texts)
  <2> HIDE DEF I
  <2>1. e.itemIds \in Seq(Texts)
    BY <1>1, <1>2
  <2>2. v \in Seq(Texts) /\ Len(v) = Len(e.itemIds) + 1 /\ v[1] = e.skillsetId
    BY <1>2, <2>1
  <2>3. v # <<>> /\ Head(v) = e.skillsetId
    BY <2>1, <2>2
  <2>4. Tail(v) = e.itemIds
    BY <1>2, <2>1
  <2> QED
    BY <2>2, <2>3, <2>4
<1>4. C!Range(e.itemIds) \subseteq C!ITEM_IDS
  <2> HIDE DEF I
  <2>1. C!Range(e.itemIds) \subseteq I
    BY <1>1 DEF C!Range
  <2> QED
    BY <2>1 DEF I
<1> HIDE DEF v, I
<1>5. C!ParseLoadoutLine(v) = <<e>>
  BY <1>1, <1>3, <1>4 DEF C!ParseLoadoutLine
<1>6. LoadoutLine(e) = [key |-> "Loadout", value |-> v]
  BY DEF LoadoutLine, C!Line, v
<1>7. "Loadout" \notin C!COMMENTS /\ "Loadout" \notin C!LEGACY_KEYS
  BY DEF C!COMMENTS, C!LEGACY_KEYS
<1>8. C!ParseLine(Rec(k, u, c, l), LoadoutLine(e)) = Rec(k, u, c, l \o <<e>>)
  <2> DEFINE r == Rec(k, u, c, l)
             line == LoadoutLine(e)
  <2>1. line.key = "Loadout" /\ line.value = v /\ line.value # <<>>
    BY <1>3, <1>6
  <2> HIDE DEF r, line
  <2>2. C!ParseLine(r, line) = [r EXCEPT !.loadouts = @ \o C!ParseLoadoutLine(line.value)]
    BY <1>7, <2>1 DEF C!ParseLine
  <2>3. C!ParseLine(r, line) = [r EXCEPT !.loadouts = @ \o <<e>>]
    BY <1>5, <2>1, <2>2
  <2> QED
    BY <2>3 DEF r, line, Rec
<1>9. LoadoutLine(e) \in Lines
  <2> DEFINE V == Seq(Texts)
  <2>1. v \in V /\ Lines = [key : Texts, value : V] /\ "Loadout" \in Texts
    BY <1>3 DEF Lines, Texts, Reserved, C!KNOWN_KEYS, C!REPEATABLE_KEYS
  <2> HIDE DEF V
  <2> QED
    BY <1>6, <2>1
<1> QED
  BY <1>8, <1>9

(* The keys of a dictionary in the order of its lines, and what the first  *)
(* of these lines hold of it.                                              *)
KeysOf(f)       == C!SetToSeq(DOMAIN f)
FirstKeys(f, i) == [x \in {KeysOf(f)[j] : j \in 1..i} |-> f[x]]

LEMMA LinesOfDict ==
  ASSUME NEW S \in SUBSET Texts, NEW f \in Dicts(S)
  PROVE  /\ C!LinesOf(f) \in Seq(Lines)
         /\ \A i \in 1..Len(C!LinesOf(f)) :
              /\ KeysOf(f)[i] \in DOMAIN f
              /\ C!LinesOf(f)[i] = C!Line(KeysOf(f)[i], f[KeysOf(f)[i]])
              /\ FirstKeys(f, i) = C!Put(FirstKeys(f, i - 1), KeysOf(f)[i], f[KeysOf(f)[i]])
         /\ FirstKeys(f, 0) = C!NoKeys
         /\ FirstKeys(f, Len(C!LinesOf(f))) = f
<1> DEFINE D == DOMAIN f
           n == Cardinality(D)
           q == KeysOf(f)
           w == C!LinesOf(f)
           V == Seq(Texts)
<1>1. D \subseteq Texts /\ IsFiniteSet(D) /\ f \in [D -> V]
  BY DictIs
<1>2. q \in [1..n -> D] /\ n \in Nat /\ \A x \in D : \E i \in 1..n : q[i] = x
  BY <1>1, KeysInOrder DEF KeysOf
<1>3. w = [i \in 1..n |-> C!Line(q[i], f[q[i]])]
  BY <1>2 DEF C!LinesOf, KeysOf
<1> HIDE DEF D, n, q, w, V
<1>4. \A i \in 1..n : q[i] \in D /\ C!Line(q[i], f[q[i]]) \in [key : Texts, value : V]
  BY <1>1, <1>2 DEF C!Line
<1>5. w \in Seq([key : Texts, value : V]) /\ Len(w) = n
  BY <1>2, <1>3, <1>4
<1>6. \A i \in 1..n : FirstKeys(f, i) = C!Put(FirstKeys(f, i - 1), q[i], f[q[i]])
  <2> TAKE i \in 1..n
  <2>1. {q[j] : j \in 1..i} = {q[j] : j \in 1..(i - 1)} \cup {q[i]}
    BY <1>2
  <2>2. FirstKeys(f, i) = [x \in {q[j] : j \in 1..i} |-> f[x]]
    BY DEF FirstKeys, q
  <2>3. FirstKeys(f, i - 1) = [x \in {q[j] : j \in 1..(i - 1)} |-> f[x]]
    BY DEF FirstKeys, q
  <2> QED
    BY <2>1, <2>2, <2>3 DEF C!Put
<1>7. FirstKeys(f, 0) = C!NoKeys
  BY DEF FirstKeys, C!NoKeys
<1>8. FirstKeys(f, n) = f
  <2>1. {q[j] : j \in 1..n} = D
    BY <1>2
  <2>2. FirstKeys(f, n) = [x \in D |-> f[x]]
    BY <2>1 DEF FirstKeys, q
  <2> QED
    BY <1>1, <2>2
<1>9. Lines = [key : Texts, value : V]
  BY DEF Lines, V
<1> QED
  BY <1>3, <1>4, <1>5, <1>6, <1>7, <1>8, <1>9 DEF D, q, w

(* The m lines from o on make of h[0] the records of h.                    *)
Obeys(h, m, lines, o) == \A i \in 1..m : h[i] = C!ParseLine(h[i - 1], lines[o + i])

(* When the parser is at h[0] before such lines, it is at the last of h    *)
(* behind them.                                                            *)
LEMMA Follows ==
  ASSUME NEW lines \in Seq(Lines), NEW g, After(lines, g),
         NEW o \in Nat, NEW m \in Nat, o + m <= Len(lines), NEW h, g[o] = h[0],
         Obeys(h, m, lines, o)
  PROVE  g[o + m] = h[m]
<1> DEFINE S == {k \in Nat : k <= m => g[o + k] = h[k]}
<1>1. 0 \in S
  OBVIOUS
<1>2. ASSUME NEW k \in Nat, k \in S PROVE k + 1 \in S
  <2> SUFFICES ASSUME k + 1 <= m PROVE g[o + (k + 1)] = h[k + 1]
    OBVIOUS
  <2>1. k + 1 \in 1..m /\ (k + 1) - 1 = k /\ k <= m
    OBVIOUS
  <2>2. Len(lines) \in Nat
    OBVIOUS
  <2>3. o + (k + 1) \in 1..Len(lines) /\ (o + (k + 1)) - 1 = o + k
    BY <2>1, <2>2
  <2>4. g[o + (k + 1)] = C!ParseLine(g[o + k], lines[o + (k + 1)])
    BY <2>3, Zenon DEF After
  <2>5. h[k + 1] = C!ParseLine(h[k], lines[o + (k + 1)])
    BY <2>1, Zenon DEF Obeys
  <2>6. g[o + k] = h[k]
    BY <1>2, <2>1
  <2> QED
    BY <2>4, <2>5, <2>6
<1> HIDE DEF S
<1>3. m \in S
  BY <1>1, <1>2, SetInduction
<1> QED
  BY <1>3 DEF S

LEMMA LoadoutLinesType ==
  ASSUME NEW es \in Seq(Entries)
  PROVE  /\ LoadoutLines(es) \in Seq(Lines)
         /\ Len(LoadoutLines(es)) = Len(es)
         /\ \A i \in 1..Len(es) : /\ es[i] \in Entries
                                  /\ LoadoutLines(es)[i] = LoadoutLine(es[i])
<1> DEFINE n == Len(es)
<1>1. n \in Nat /\ DOMAIN es = 1..n /\ \A i \in 1..n : es[i] \in Entries
  OBVIOUS
<1>2. \A i \in 1..n : LoadoutLine(es[i]) \in Lines
  BY <1>1, LoadoutRead
<1>3. LoadoutLines(es) = [i \in 1..n |-> LoadoutLine(es[i])]
  BY <1>1 DEF LoadoutLines
<1> HIDE DEF n
<1>4. LoadoutLines(es) \in Seq(Lines) /\ Len(LoadoutLines(es)) = n
  BY <1>1, <1>2, <1>3
<1> QED
  BY <1>1, <1>3, <1>4 DEF n

-----------------------------------------------------------------------------
(* A record the page may send: a key whose lines are entries is not among  *)
(* the others, and a flag has no value.                                    *)
Writable ==
  {r \in Records : /\ DOMAIN r.known \cap C!REPEATABLE_KEYS = {}
                   /\ \A k \in DOMAIN r.known \cap C!FLAG_KEYS : r.known[k] = <<>>}

LEMMA Serialized ==
  ASSUME NEW r \in Writable
  PROVE  C!SerializeCommandsDat(r) =
           r.comments \o C!LinesOf(r.known) \o LoadoutLines(r.loadouts) \o C!LinesOf(r.unknown)
<1> DEFINE one(l) == IF l.key \in C!FLAG_KEYS THEN C!Line(l.key, <<>>) ELSE l
           entries == C!KeptAt(r.loadouts, {i \in DOMAIN r.loadouts :
                        r.loadouts[i].skillsetId \in C!VALID_LOADOUT_SKILLSET_IDS})
           known == [k \in DOMAIN r.known \ C!REPEATABLE_KEYS |-> r.known[k]]
<1>1. /\ r.known \in Dicts(C!KNOWN_KEYS) /\ r.loadouts \in Seq(Entries)
      /\ DOMAIN r.known \cap C!REPEATABLE_KEYS = {}
      /\ \A k \in DOMAIN r.known \cap C!FLAG_KEYS : r.known[k] = <<>>
  BY DEF Writable, Records
<1>2. known = r.known
  <2>1. r.known \in [DOMAIN r.known -> Seq(Texts)]
    BY <1>1, DictIs
  <2>2. DOMAIN r.known \ C!REPEATABLE_KEYS = DOMAIN r.known
    BY <1>1
  <2>3. r.known = [k \in DOMAIN r.known |-> r.known[k]]
    BY <2>1
  <2> QED
    BY <2>2, <2>3
<1>3. entries = r.loadouts
  <2> DEFINE P == {i \in DOMAIN r.loadouts :
                     r.loadouts[i].skillsetId \in C!VALID_LOADOUT_SKILLSET_IDS}
  <2>1. \A i \in DOMAIN r.loadouts : r.loadouts[i] \in Entries
    BY <1>1
  <2>2. DOMAIN r.loadouts \subseteq P
    BY <2>1 DEF Entries
  <2>3. C!KeptAt(r.loadouts, P) = KeptAt(r.loadouts, P)
    BY Zenon DEF C!KeptAt, KeptAt
  <2> HIDE DEF P
  <2>4. KeptAt(r.loadouts, P) = r.loadouts
    BY <1>1, <2>2, KeptAll
  <2> QED
    BY <2>3, <2>4 DEF P
<1>4. [i \in DOMAIN C!LinesOf(r.known) |-> one(C!LinesOf(r.known)[i])] = C!LinesOf(r.known)
  <2> DEFINE w == C!LinesOf(r.known)
             n == Len(w)
  <2>1. C!KNOWN_KEYS \in SUBSET Texts
    BY DEF Texts, Reserved
  <2>2. /\ w \in Seq(Lines)
        /\ \A i \in 1..n : /\ KeysOf(r.known)[i] \in DOMAIN r.known
                           /\ w[i] = C!Line(KeysOf(r.known)[i], r.known[KeysOf(r.known)[i]])
    BY <1>1, <2>1, LinesOfDict
  <2>3. \A i \in 1..n : one(w[i]) = w[i]
    <3> TAKE i \in 1..n
    <3> DEFINE k == KeysOf(r.known)[i]
    <3>1. k \in DOMAIN r.known /\ w[i] = C!Line(k, r.known[k])
      BY <2>2
    <3> HIDE DEF w, n, k
    <3>2. w[i].key = k
      BY <3>1 DEF C!Line
    <3> QED
      BY <1>1, <3>1, <3>2
  <2>4. DOMAIN w = 1..n /\ w = [i \in DOMAIN w |-> w[i]]
    BY <2>2
  <2> HIDE DEF w, n, one
  <2>5. [i \in DOMAIN w |-> one(w[i])] = w
    BY <2>3, <2>4
  <2> QED
    BY <2>5 DEF w
<1>5. [i \in DOMAIN entries |-> C!Line("Loadout", <<entries[i].skillsetId>> \o entries[i].itemIds)]
        = LoadoutLines(entries)
  BY DEF LoadoutLines, LoadoutLine
<1> DEFINE lk == C!LinesOf(known)
<1>6. C!SerializeCommandsDat(r) =
        r.comments \o [i \in DOMAIN lk |-> one(lk[i])]
          \o [i \in DOMAIN entries |->
                C!Line("Loadout", <<entries[i].skillsetId>> \o entries[i].itemIds)]
          \o C!LinesOf(r.unknown)
  BY Zenon DEF C!SerializeCommandsDat
<1>7. [i \in DOMAIN lk |-> one(lk[i])] = C!LinesOf(r.known)
  <2>1. lk = C!LinesOf(r.known)
    BY <1>2
  <2> HIDE DEF one, lk
  <2> QED
    BY <1>4, <2>1, Zenon
<1> QED
  BY <1>3, <1>5, <1>6, <1>7, Zenon

(* Where the parts of four lists are in all of them.                       *)
LEMMA Places ==
  ASSUME NEW S, NEW a \in Seq(S), NEW b \in Seq(S), NEW c \in Seq(S), NEW d \in Seq(S),
         NEW w, w = a \o b \o c \o d
  PROVE  /\ w \in Seq(S)
         /\ Len(w) = Len(a) + Len(b) + Len(c) + Len(d)
         /\ \A i \in 1..Len(a) : w[i] = a[i]
         /\ \A i \in 1..Len(b) : w[Len(a) + i] = b[i]
         /\ \A i \in 1..Len(c) : w[Len(a) + Len(b) + i] = c[i]
         /\ \A i \in 1..Len(d) : w[Len(a) + Len(b) + Len(c) + i] = d[i]
OBVIOUS

(* What is written is read back as it was: parseCommandsDatContent undoes  *)
(* serializeCommandsDat on every record the page may send.                 *)
THEOREM CommandsRoundTrip ==
  ASSUME NEW r \in Writable
  PROVE  /\ C!SerializeCommandsDat(r) \in Seq(Lines)
         /\ C!ParseCommandsDat(C!SerializeCommandsDat(r)) = r
<1> DEFINE a == r.comments
           b == C!LinesOf(r.known)
           c == LoadoutLines(r.loadouts)
           d == C!LinesOf(r.unknown)
           w == a \o b \o c \o d
           la == Len(a)
           lb == Len(b)
           lc == Len(c)
           ld == Len(d)
           none == C!NoKeys
<1>1. /\ r = Rec(r.known, r.unknown, a, r.loadouts)
      /\ r.known \in Dicts(C!KNOWN_KEYS) /\ DOMAIN r.known \cap C!REPEATABLE_KEYS = {}
      /\ r.unknown \in Dicts(Texts \ Reserved)
      /\ a \in Seq(CommentLines) /\ r.loadouts \in Seq(Entries)
  BY DEF Writable, Records, Rec
<1>2. a \in Seq(Lines) /\ \A i \in 1..la : a[i].key \in C!COMMENTS
  <2>1. \A i \in 1..la : a[i] \in CommentLines
    BY <1>1
  <2> QED
    BY <1>1, <2>1 DEF CommentLines
<1>3. b \in Seq(Lines)
  BY <1>1, LinesOfDict DEF Texts, Reserved
<1>4. c \in Seq(Lines) /\ lc = Len(r.loadouts)
  BY <1>1, LoadoutLinesType
<1>5. d \in Seq(Lines)
  BY <1>1, LinesOfDict
<1>6. C!SerializeCommandsDat(r) = w
  BY Serialized
<1>7. la \in Nat /\ lb \in Nat /\ lc \in Nat /\ ld \in Nat
  BY <1>2, <1>3, <1>4, <1>5
<1>8. /\ w \in Seq(Lines)
      /\ Len(w) = la + lb + lc + ld
      /\ \A i \in 1..la : w[i] = a[i]
      /\ \A i \in 1..lb : w[la + i] = b[i]
      /\ \A i \in 1..lc : w[la + lb + i] = c[i]
      /\ \A i \in 1..ld : w[la + lb + lc + i] = d[i]
  <2> HIDE DEF a, b, c, d
  <2>1. a \in Seq(Lines) /\ b \in Seq(Lines) /\ c \in Seq(Lines) /\ d \in Seq(Lines)
    BY <1>2, <1>3, <1>4, <1>5
  <2>2. w = a \o b \o c \o d
    OBVIOUS
  <2> HIDE DEF w
  <2> QED
    BY <2>1, <2>2, Places
<1> HIDE DEF w, la, lb, lc, ld
<1>9. PICK g : After(w, g)
  BY <1>8, ParsePrefixes
<1>path. w \in Seq(Lines) /\ After(w, g)
  BY <1>8, <1>9
<1>10. g[0 + la] = Rec(none, none, a, <<>>)
  <2> DEFINE h == [i \in 0..la |-> Rec(none, none, SubSeq(a, 1, i), <<>>)]
  <2>1. h[0] = g[0]
    <3>1. h[0] = Rec(none, none, SubSeq(a, 1, 0), <<>>)
      BY <1>7
    <3>2. SubSeq(a, 1, 0) = <<>>
      BY <1>2
    <3> QED
      BY <1>9, <3>1, <3>2 DEF After, C!EmptyRecord, Rec
  <2>2. ASSUME NEW i \in 1..la PROVE h[i] = C!ParseLine(h[i - 1], w[0 + i])
    <3>1. i - 1 \in 0..la /\ i \in 0..la /\ w[0 + i] = a[i]
      BY <1>7, <1>8
    <3>2. C!ParseLine(Rec(none, none, SubSeq(a, 1, i - 1), <<>>), a[i])
            = Rec(none, none, Append(SubSeq(a, 1, i - 1), a[i]), <<>>)
      BY <1>2, CommentRead
    <3>3. Append(SubSeq(a, 1, i - 1), a[i]) = SubSeq(a, 1, i)
      <4> HIDE DEF a
      <4> QED
        BY <1>2 DEF la
    <3> HIDE DEF none
    <3> QED
      BY <3>1, <3>2, <3>3
  <2>3. h[la] = Rec(none, none, a, <<>>)
    <3>1. SubSeq(a, 1, la) = a
      <4> HIDE DEF a
      <4> QED
        BY <1>2 DEF la
    <3>2. h[la] = Rec(none, none, SubSeq(a, 1, la), <<>>)
      BY <1>7
    <3> QED
      BY <3>1, <3>2, Zenon
  <2> HIDE DEF h, none
  <2>4. 0 + la <= Len(w)
    BY <1>7, <1>8
  <2>5. g[0 + la] = h[la]
    <3>1. Obeys(h, la, w, 0)
      BY <2>2 DEF Obeys
    <3> QED
      BY <1>path, <1>7, <2>1, <2>4, <3>1, Follows
  <2> QED
    BY <2>3, <2>5
<1>11. g[la + lb] = Rec(r.known, none, a, <<>>)
  <2> DEFINE h == [i \in 0..lb |-> Rec(FirstKeys(r.known, i), none, a, <<>>)]
  <2>1. /\ FirstKeys(r.known, 0) = none /\ FirstKeys(r.known, lb) = r.known
        /\ \A i \in 1..lb :
             /\ KeysOf(r.known)[i] \in DOMAIN r.known
             /\ b[i] = C!Line(KeysOf(r.known)[i], r.known[KeysOf(r.known)[i]])
             /\ FirstKeys(r.known, i) = C!Put(FirstKeys(r.known, i - 1),
                  KeysOf(r.known)[i], r.known[KeysOf(r.known)[i]])
    BY <1>1, LinesOfDict DEF Texts, Reserved, lb
  <2>2. ASSUME NEW i \in 1..lb PROVE h[i] = C!ParseLine(h[i - 1], w[la + i])
    <3> DEFINE k == KeysOf(r.known)[i]
               prev == FirstKeys(r.known, i - 1)
    <3>1. i - 1 \in 0..lb /\ i \in 0..lb /\ w[la + i] = b[i]
      BY <1>7, <1>8
    <3>2. /\ k \in C!KNOWN_KEYS /\ k # "Loadout"
          /\ b[i] = C!Line(k, r.known[k])
          /\ FirstKeys(r.known, i) = C!Put(prev, k, r.known[k])
      <4>1. DOMAIN r.known \subseteq C!KNOWN_KEYS
        BY <1>1, DictIs
      <4>2. k \in DOMAIN r.known
        BY <2>1
      <4>3. b[i] = C!Line(k, r.known[k]) /\ FirstKeys(r.known, i) = C!Put(prev, k, r.known[k])
        BY <2>1, Zenon
      <4> QED
        BY <1>1, <4>1, <4>2, <4>3 DEF C!REPEATABLE_KEYS
    <3>3. b[i].key = k /\ b[i].value = r.known[k]
      BY <3>2 DEF C!Line
    <3> HIDE DEF k, prev, none
    <3>4. C!ParseLine(Rec(prev, none, a, <<>>), b[i]) = Rec(C!Put(prev, k, r.known[k]), none, a, <<>>)
      BY <3>2, <3>3, KnownRead
    <3>5. h[i - 1] = Rec(prev, none, a, <<>>) /\ h[i] = Rec(FirstKeys(r.known, i), none, a, <<>>)
      BY <3>1 DEF prev
    <3> QED
      BY <3>1, <3>2, <3>4, <3>5, Zenon
  <2>3. h[0] = g[la]
    <3>1. h[0] = Rec(none, none, a, <<>>)
      BY <1>7, <2>1
    <3> QED
      BY <1>7, <1>10, <3>1
  <2>4. h[lb] = Rec(r.known, none, a, <<>>)
    BY <1>7, <2>1
  <2> HIDE DEF h, none
  <2>5. la + lb <= Len(w)
    BY <1>7, <1>8
  <2>6. g[la + lb] = h[lb]
    <3>1. Obeys(h, lb, w, la)
      BY <2>2 DEF Obeys
    <3> QED
      BY <1>path, <1>7, <2>3, <2>5, <3>1, Follows
  <2> QED
    BY <2>4, <2>6
<1>12. g[la + lb + lc] = Rec(r.known, none, a, r.loadouts)
  <2> DEFINE e == r.loadouts
             h == [i \in 0..lc |-> Rec(r.known, none, a, SubSeq(e, 1, i))]
  <2>1. /\ e \in Seq(Entries) /\ Len(e) = lc
        /\ \A i \in 1..lc : e[i] \in Entries /\ c[i] = LoadoutLine(e[i])
    BY <1>1, <1>4, LoadoutLinesType
  <2> HIDE DEF e
  <2>2. ASSUME NEW i \in 1..lc PROVE h[i] = C!ParseLine(h[i - 1], w[(la + lb) + i])
    <3>1. i - 1 \in 0..lc /\ i \in 0..lc /\ w[(la + lb) + i] = LoadoutLine(e[i])
      BY <1>7, <1>8, <2>1
    <3>2. C!ParseLine(Rec(r.known, none, a, SubSeq(e, 1, i - 1)), LoadoutLine(e[i]))
            = Rec(r.known, none, a, SubSeq(e, 1, i - 1) \o <<e[i]>>)
      BY <2>1, LoadoutRead
    <3>3. SubSeq(e, 1, i - 1) \o <<e[i]>> = SubSeq(e, 1, i)
      BY <2>1
    <3>4. /\ h[i - 1] = Rec(r.known, none, a, SubSeq(e, 1, i - 1))
          /\ h[i] = Rec(r.known, none, a, SubSeq(e, 1, i))
      <4> HIDE DEF none
      <4> QED
        BY <3>1
    <3> QED
      BY <3>1, <3>2, <3>3, <3>4, Zenon
  <2>3. h[0] = g[la + lb]
    <3>1. SubSeq(e, 1, 0) = <<>>
      BY <2>1
    <3>2. h[0] = Rec(r.known, none, a, SubSeq(e, 1, 0))
      BY <1>7
    <3> QED
      BY <1>11, <3>1, <3>2
  <2>4. h[lc] = Rec(r.known, none, a, e)
    <3>1. SubSeq(e, 1, lc) = e
      BY <2>1
    <3>2. h[lc] = Rec(r.known, none, a, SubSeq(e, 1, lc))
      BY <1>7
    <3> QED
      BY <3>1, <3>2
  <2> HIDE DEF h, none
  <2>5. (la + lb) + lc <= Len(w) /\ la + lb \in Nat
    BY <1>7, <1>8
  <2>6. g[(la + lb) + lc] = h[lc]
    <3>1. Obeys(h, lc, w, la + lb)
      BY <2>2 DEF Obeys
    <3> QED
      BY <1>path, <1>7, <2>3, <2>5, <3>1, Follows
  <2> QED
    BY <2>4, <2>6 DEF e
<1>13. g[la + lb + lc + ld] = Rec(r.known, r.unknown, a, r.loadouts)
  <2> DEFINE u == r.unknown
             h == [i \in 0..ld |-> Rec(r.known, FirstKeys(u, i), a, r.loadouts)]
             o == la + lb + lc
  <2>1. /\ FirstKeys(u, 0) = none /\ FirstKeys(u, ld) = u
        /\ \A i \in 1..ld :
             /\ KeysOf(u)[i] \in DOMAIN u
             /\ d[i] = C!Line(KeysOf(u)[i], u[KeysOf(u)[i]])
             /\ FirstKeys(u, i) = C!Put(FirstKeys(u, i - 1), KeysOf(u)[i], u[KeysOf(u)[i]])
    BY <1>1, LinesOfDict DEF ld
  <2>2. ASSUME NEW i \in 1..ld PROVE h[i] = C!ParseLine(h[i - 1], w[o + i])
    <3> DEFINE k == KeysOf(u)[i]
               prev == FirstKeys(u, i - 1)
    <3>1. i - 1 \in 0..ld /\ i \in 0..ld /\ w[o + i] = d[i]
      BY <1>7, <1>8
    <3>2. /\ k \notin Reserved
          /\ d[i] = C!Line(k, u[k])
          /\ FirstKeys(u, i) = C!Put(prev, k, u[k])
      <4>1. DOMAIN u \subseteq Texts \ Reserved
        BY <1>1, DictIs
      <4>2. k \in DOMAIN u
        BY <2>1
      <4>3. d[i] = C!Line(k, u[k]) /\ FirstKeys(u, i) = C!Put(prev, k, u[k])
        BY <2>1, Zenon
      <4> HIDE DEF k, prev
      <4> QED
        BY <4>1, <4>2, <4>3
    <3>3. d[i].key = k /\ d[i].value = u[k]
      BY <3>2 DEF C!Line
    <3> HIDE DEF k, prev
    <3>4. C!ParseLine(Rec(r.known, prev, a, r.loadouts), d[i])
            = Rec(r.known, C!Put(prev, k, u[k]), a, r.loadouts)
      BY <3>2, <3>3, UnknownRead
    <3>5. /\ h[i - 1] = Rec(r.known, prev, a, r.loadouts)
          /\ h[i] = Rec(r.known, FirstKeys(u, i), a, r.loadouts)
      BY <3>1 DEF prev
    <3> QED
      BY <3>1, <3>2, <3>4, <3>5, Zenon
  <2>3. h[0] = g[o]
    <3>1. h[0] = Rec(r.known, none, a, r.loadouts)
      BY <1>7, <2>1
    <3> QED
      BY <1>12, <3>1
  <2>4. h[ld] = Rec(r.known, u, a, r.loadouts)
    BY <1>7, <2>1
  <2>5. o + ld <= Len(w) /\ o \in Nat
    BY <1>7, <1>8
  <2> HIDE DEF h, none, o
  <2>6. g[o + ld] = h[ld]
    <3>1. Obeys(h, ld, w, o)
      BY <2>2 DEF Obeys
    <3> QED
      BY <1>path, <1>7, <2>3, <2>5, <3>1, Follows
  <2> QED
    BY <2>4, <2>6 DEF o
<1>14. C!ParseCommandsDat(w) = r
  BY <1>1, <1>8, <1>9, <1>13 DEF After
<1> QED
  BY <1>6, <1>8, <1>14

(* The comments of a file are kept as they stand, in their order.          *)
LEMMA CommentsParsed ==
  ASSUME NEW lines \in Seq(Lines)
  PROVE  /\ C!ParseCommandsDat(lines) \in Records
         /\ C!ParseCommandsDat(lines).comments = C!Comments(lines)
<1> DEFINE n == Len(lines)
           P == {i \in DOMAIN lines : lines[i].key \in C!COMMENTS}
<1>1. PICK g : After(lines, g)
  BY ParsePrefixes
<1>2. PICK k \in [0..n -> Seq(Lines)] :
           /\ KeptAt(lines, P) = k[n]
           /\ k[0] = <<>>
           /\ \A i \in 1..n : k[i] = IF i \in P THEN Append(k[i - 1], lines[i]) ELSE k[i - 1]
  <2> HIDE DEF P
  <2> QED
    BY KeptPrefixes
<1>3. n \in Nat /\ DOMAIN lines = 1..n
  OBVIOUS
<1>4. \A r \in Records : \A l :
         C!ParseLine(r, l).comments
           = IF l.key \in C!COMMENTS THEN Append(r.comments, l) ELSE r.comments
  <2> TAKE r \in Records
  <2> TAKE l
  <2>1. \A x : [r EXCEPT !.comments = x].comments = x
               /\ [r EXCEPT !.loadouts = x].comments = r.comments
               /\ [r EXCEPT !.known = x].comments = r.comments
               /\ [r EXCEPT !.unknown = x].comments = r.comments
    <3> DEFINE K == Dicts(C!KNOWN_KEYS)
               X == Dicts(Texts \ Reserved)
               M == Seq(CommentLines)
               E == Seq(Entries)
    <3>1. r \in [known : K, unknown : X, comments : M, loadouts : E]
      BY DEF Records
    <3> HIDE DEF K, X, M, E
    <3> QED
      BY <3>1
  <2>2. CASE l.key \in C!COMMENTS
    <3>1. l.key \notin C!LEGACY_KEYS /\ l.key \notin C!KNOWN_KEYS /\ l.key # "Loadout"
      BY <2>2 DEF C!COMMENTS, C!LEGACY_KEYS, C!KNOWN_KEYS, C!FLAG_KEYS, C!REPEATABLE_KEYS
    <3>2. C!ParseLine(r, l) = [r EXCEPT !.comments = Append(r.comments, l)]
      BY <2>2, <3>1 DEF C!ParseLine
    <3> QED
      BY <2>1, <2>2, <3>2
  <2>3. CASE l.key \notin C!COMMENTS
    <3> DEFINE known == C!Put(r.known, l.key, l.value)
               unknown == C!Put(r.unknown, l.key, l.value)
               loadouts == r.loadouts \o C!ParseLoadoutLine(l.value)
    <3>1. \/ C!ParseLine(r, l) = r
          \/ C!ParseLine(r, l) = [r EXCEPT !.loadouts = loadouts]
          \/ C!ParseLine(r, l) = [r EXCEPT !.known = known]
          \/ C!ParseLine(r, l) = [r EXCEPT !.unknown = unknown]
      BY <2>3 DEF C!ParseLine
    <3> HIDE DEF known, unknown, loadouts
    <3> QED
      BY <2>1, <2>3, <3>1
  <2> QED
    BY <2>2, <2>3
<1>5. \A i \in 1..n : /\ g[i - 1] \in Records
                      /\ g[i] = C!ParseLine(g[i - 1], lines[i])
  <2> TAKE i \in 1..n
  <2>1. i - 1 \in 0..n
    BY <1>3
  <2> QED
    BY <1>1, <2>1 DEF After
<1>6. g[0].comments = <<>>
  BY <1>1 DEF After, C!EmptyRecord
<1> DEFINE S == {i \in Nat : i <= n => g[i].comments = k[i]}
<1>7. 0 \in S
  BY <1>2, <1>6
<1>8. ASSUME NEW i \in Nat, i \in S PROVE i + 1 \in S
  <2> SUFFICES ASSUME i + 1 <= n PROVE g[i + 1].comments = k[i + 1]
    OBVIOUS
  <2>1. i + 1 \in 1..n /\ (i + 1) - 1 = i /\ g[i].comments = k[i]
    BY <1>3, <1>8
  <2>2. g[i] \in Records /\ g[i + 1] = C!ParseLine(g[i], lines[i + 1])
    BY <1>5, <2>1
  <2>3. k[i + 1] = IF i + 1 \in P THEN Append(k[i], lines[i + 1]) ELSE k[i]
    BY <1>2, <2>1
  <2>4. i + 1 \in P <=> lines[i + 1].key \in C!COMMENTS
    BY <1>3, <2>1
  <2> HIDE DEF P
  <2> QED
    BY <1>4, <2>1, <2>2, <2>3, <2>4
<1> HIDE DEF S
<1>9. n \in S
  BY <1>3, <1>7, <1>8, SetInduction
<1>10. g[n].comments = k[n]
  BY <1>3, <1>9 DEF S
<1>11. C!Comments(lines) = KeptAt(lines, P)
  BY Zenon DEF C!Comments, C!KeptAt, KeptAt
<1>12. g[n] \in Records /\ C!ParseCommandsDat(lines) = g[n]
  BY <1>1, <1>3 DEF After
<1> QED
  BY <1>2, <1>10, <1>11, <1>12
-----------------------------------------------------------------------------
(* The types of what the form holds.                                       *)
Fields ==
  [Name : Seq(Texts), PvE : BOOLEAN, LogChat : {"Y", "N"}, LogAnticheat : {"Y", "N"},
   VotifyAllow : {"Y", "N"}, VotifyPassCooldown : Texts, Votify : Seq(Texts),
   Loadout : Seq(Entries)]

Metas == [unknown : Dicts(Texts \ Reserved), comments : Seq(CommentLines)]

LEMMA FieldsOfType ==
  ASSUME NEW r \in Records
  PROVE  C!FieldsOf(r) \in Fields /\ C!MetaOf(r) \in Metas
<1> DEFINE V == Seq(Texts)
           E == Seq(Entries)
           has(k) == k \in DOMAIN r.known
           name == IF has("Name") THEN r.known["Name"] ELSE C!EMPTY_FIELDS.Name
           pve == has("PvE")
           chat == IF has("Log") THEN C!YesNo(r.known["Log"], 1) ELSE "Y"
           anti == IF has("Log") THEN C!YesNo(r.known["Log"], 2) ELSE "N"
           allow == IF has("Votify") THEN C!YesNo(r.known["Votify"], 1) ELSE "N"
           cool == IF has("Votify") THEN C!Part(r.known["Votify"], 2, "5") ELSE "5"
           votify == IF has("Votify") THEN r.known["Votify"] ELSE <<>>
<1>1. \A k \in DOMAIN r.known : r.known[k] \in V
  <2>1. r.known \in Dicts(C!KNOWN_KEYS)
    BY DEF Records
  <2> QED
    BY <2>1, DictIs
<1>2. {"Y", "N", "5", "Unturned"} \subseteq Texts
  BY DEF Texts
<1>3. \A v \in V : C!Part(v, 2, "5") \in Texts
  BY <1>2 DEF C!Part
<1>4. \A v, i : C!YesNo(v, i) \in {"Y", "N"}
  BY DEF C!YesNo
<1>5. <<>> \in V /\ C!EMPTY_FIELDS.Name \in V
  BY <1>2 DEF C!EMPTY_FIELDS
<1>6. r.loadouts \in E /\ C!MetaOf(r) \in Metas
  BY DEF Records, C!MetaOf, Metas
<1> HIDE DEF V, E
<1>7. name \in V /\ votify \in V /\ cool \in Texts
  BY <1>1, <1>2, <1>3, <1>5
<1>8. chat \in {"Y", "N"} /\ anti \in {"Y", "N"} /\ allow \in {"Y", "N"}
  BY <1>4
<1>9. pve \in BOOLEAN
  <2>1. CASE has("PvE")
    BY <2>1
  <2>2. CASE ~has("PvE")
    BY <2>2
  <2> QED
    BY <2>1, <2>2
<1>10. C!FieldsOf(r) =
         [Name |-> name, PvE |-> pve, LogChat |-> chat, LogAnticheat |-> anti,
          VotifyAllow |-> allow, VotifyPassCooldown |-> cool, Votify |-> votify,
          Loadout |-> r.loadouts]
  BY Zenon DEF C!FieldsOf
<1>11. Fields = [Name : V, PvE : BOOLEAN, LogChat : {"Y", "N"}, LogAnticheat : {"Y", "N"},
                 VotifyAllow : {"Y", "N"}, VotifyPassCooldown : Texts, Votify : V, Loadout : E]
  BY DEF Fields, V, E
<1> HIDE DEF name, pve, chat, anti, allow, cool, votify
<1> QED
  BY <1>6, <1>7, <1>8, <1>9, <1>10, <1>11

LEMMA KnownOfType ==
  ASSUME NEW f \in Fields
  PROVE  /\ C!KnownOf(f) \in Dicts(C!KNOWN_KEYS)
         /\ DOMAIN C!KnownOf(f) \subseteq {"Name", "PvE", "Log", "Votify"}
         /\ "PvE" \in DOMAIN C!KnownOf(f) <=> f.PvE
         /\ "PvE" \in DOMAIN C!KnownOf(f) => C!KnownOf(f)["PvE"] = <<>>
         /\ "Log" \in DOMAIN C!KnownOf(f) /\ C!KnownOf(f)["Log"] = <<f.LogChat, f.LogAnticheat>>
         /\ "Name" \in DOMAIN C!KnownOf(f) <=> f.Name # <<>>
         /\ "Name" \in DOMAIN C!KnownOf(f) => C!KnownOf(f)["Name"] = f.Name
         /\ f.VotifyAllow = "Y" =>
              /\ "Votify" \in DOMAIN C!KnownOf(f)
              /\ C!KnownOf(f)["Votify"] =
                   <<"Y", IF f.VotifyPassCooldown = "" THEN "5" ELSE f.VotifyPassCooldown>>
         /\ f.VotifyAllow = "N" /\ f.Votify = <<>> => "Votify" \notin DOMAIN C!KnownOf(f)
<1> DEFINE V == Seq(Texts)
           cool == IF f.VotifyPassCooldown = "" THEN "5" ELSE f.VotifyPassCooldown
           votify == IF f.VotifyAllow = "Y" THEN <<"Y", cool>> ELSE f.Votify
           value(k) == CASE k = "Name"   -> f.Name
                         [] k = "PvE"    -> <<>>
                         [] k = "Log"    -> <<f.LogChat, f.LogAnticheat>>
                         [] k = "Votify" -> votify
           keys == {"Log"} \cup (IF f.Name = <<>> THEN {} ELSE {"Name"})
                           \cup (IF f.PvE THEN {"PvE"} ELSE {})
                           \cup (IF votify = <<>> THEN {} ELSE {"Votify"})
           all == {"Name", "PvE", "Log", "Votify"}
<1>1. C!KnownOf(f) = [k \in keys |-> value(k)]
  BY Zenon DEF C!KnownOf
<1>2. /\ value("Name") = f.Name /\ value("PvE") = <<>>
      /\ value("Log") = <<f.LogChat, f.LogAnticheat>> /\ value("Votify") = votify
  <2> HIDE DEF votify
  <2> QED
    OBVIOUS
<1>3. /\ f.Name \in V /\ f.LogChat \in Texts /\ f.LogAnticheat \in Texts
      /\ f.VotifyPassCooldown \in Texts /\ f.Votify \in V /\ {"Y", "N", "5"} \subseteq Texts
  BY DEF Fields, Texts
<1>4. <<>> \in V /\ <<f.LogChat, f.LogAnticheat>> \in V /\ <<"Y", cool>> \in V
  <2>1. cool \in Texts /\ "Y" \in Texts
    BY <1>3
  <2>2. \A x, y \in Texts : <<x, y>> \in Seq(Texts)
    OBVIOUS
  <2> HIDE DEF cool
  <2> QED
    BY <1>3, <2>1, <2>2
<1> HIDE DEF value, V
<1>5. \A k \in all : value(k) \in V
  BY <1>2, <1>3, <1>4
<1>6. keys \subseteq all
  <2> HIDE DEF votify
  <2> QED
    OBVIOUS
<1>7. IsFiniteSet(keys)
  <2> HIDE DEF keys
  <2>1. IsFiniteSet({})
    BY FS_EmptySet
  <2>2. IsFiniteSet({} \cup {"Name"})
    BY <2>1, FS_AddElement
  <2>3. IsFiniteSet(({} \cup {"Name"}) \cup {"PvE"})
    BY <2>2, FS_AddElement
  <2>4. IsFiniteSet((({} \cup {"Name"}) \cup {"PvE"}) \cup {"Log"})
    BY <2>3, FS_AddElement
  <2>5. IsFiniteSet(((({} \cup {"Name"}) \cup {"PvE"}) \cup {"Log"}) \cup {"Votify"})
    BY <2>4, FS_AddElement
  <2>6. all = ((({} \cup {"Name"}) \cup {"PvE"}) \cup {"Log"}) \cup {"Votify"}
    OBVIOUS
  <2> HIDE DEF all
  <2>7. IsFiniteSet(all)
    BY <2>5, <2>6, Zenon
  <2> QED
    BY <1>6, <2>7, FS_Subset
<1>8. /\ "Log" \in keys /\ ("Name" \in keys <=> f.Name # <<>>)
      /\ "Votify" \in keys <=> votify # <<>>
  <2> HIDE DEF votify
  <2> QED
    OBVIOUS
<1>9. "PvE" \in keys <=> f.PvE
  <2> HIDE DEF votify
  <2> QED
    OBVIOUS
<1>10. votify # <<>> <=> (f.VotifyAllow = "Y" \/ f.Votify # <<>>)
  <2>1. <<"Y", cool>> # <<>>
    OBVIOUS
  <2> HIDE DEF cool
  <2> QED
    BY <2>1
<1>11. f.VotifyAllow = "Y" => votify = <<"Y", cool>>
  BY Zenon
<1>12. all \subseteq C!KNOWN_KEYS
  BY DEF C!KNOWN_KEYS, C!FLAG_KEYS
<1> DEFINE known == C!KnownOf(f)
<1> HIDE DEF keys, votify, known
<1>13. DOMAIN known = keys /\ \A k \in keys : known[k] = value(k)
  BY <1>1 DEF known
<1>14. known \in [keys -> V]
  BY <1>1, <1>5, <1>6 DEF known
<1>15. known \in Dicts(C!KNOWN_KEYS)
  BY <1>6, <1>7, <1>12, <1>13, <1>14, DictIs DEF V
<1>16. f.VotifyAllow = "N" => f.VotifyAllow # "Y"
  OBVIOUS
<1> HIDE DEF cool
<1>17. DOMAIN known \subseteq all
  BY <1>6, <1>13
<1>18. "PvE" \in DOMAIN known <=> f.PvE
  BY <1>9, <1>13, Zenon
<1>19. /\ "PvE" \in DOMAIN known => known["PvE"] = <<>>
       /\ "Log" \in DOMAIN known /\ known["Log"] = <<f.LogChat, f.LogAnticheat>>
       /\ "Name" \in DOMAIN known <=> f.Name # <<>>
       /\ "Name" \in DOMAIN known => known["Name"] = f.Name
  BY <1>2, <1>8, <1>13, Zenon
<1>20. f.VotifyAllow = "Y" => "Votify" \in DOMAIN known /\ known["Votify"] = <<"Y", cool>>
  BY <1>2, <1>8, <1>10, <1>11, <1>13, Zenon
<1>21. f.VotifyAllow = "N" /\ f.Votify = <<>> => "Votify" \notin DOMAIN known
  BY <1>8, <1>10, <1>13, <1>16, Zenon
<1> QED
  BY <1>15, <1>17, <1>18, <1>19, <1>20, <1>21, Zenon DEF known, cool

LEMMA RecordOfType ==
  ASSUME NEW f \in Fields, NEW m \in Metas
  PROVE  /\ C!RecordOf(f, m) \in Writable
         /\ C!RecordOf(f, m) = Rec(C!KnownOf(f), m.unknown, m.comments, f.Loadout)
<1> DEFINE k == C!KnownOf(f)
           r == C!RecordOf(f, m)
<1>1. r = Rec(k, m.unknown, m.comments, f.Loadout)
  BY DEF C!RecordOf, Rec
<1>2. /\ k \in Dicts(C!KNOWN_KEYS) /\ DOMAIN k \subseteq {"Name", "PvE", "Log", "Votify"}
      /\ "PvE" \in DOMAIN k => k["PvE"] = <<>>
  BY KnownOfType
<1>3. m.unknown \in Dicts(Texts \ Reserved) /\ m.comments \in Seq(CommentLines)
  BY DEF Metas
<1>4. f.Loadout \in Seq(Entries)
  BY DEF Fields
<1> HIDE DEF k, r
<1>5. r \in Records /\ r.known = k
  BY <1>1, <1>2, <1>3, <1>4 DEF Records, Rec
<1>6. DOMAIN k \cap C!REPEATABLE_KEYS = {}
  BY <1>2 DEF C!REPEATABLE_KEYS
<1>7. \A x \in DOMAIN k \cap C!FLAG_KEYS : k[x] = <<>>
  BY <1>2 DEF C!FLAG_KEYS
<1>8. r \in Writable
  BY <1>5, <1>6, <1>7 DEF Writable
<1> QED
  BY <1>1, <1>8 DEF k, r

(* What a record is read as has the effect it has on the server.           *)
Poll(known) == IF "Votify" \in DOMAIN known THEN known["Votify"] ELSE <<"N", "5">>

LEMMA EffectiveIs ==
  ASSUME NEW lines, NEW r, r = C!ParseCommandsDat(lines)
  PROVE  /\ C!Effective(lines).Name =
              IF "Name" \in DOMAIN r.known THEN r.known["Name"] ELSE C!EMPTY_FIELDS.Name
         /\ C!Effective(lines).PvE = ("PvE" \in DOMAIN r.known)
         /\ C!Effective(lines).Log =
              IF "Log" \in DOMAIN r.known THEN r.known["Log"] ELSE <<"Y", "N">>
         /\ C!Effective(lines).Votify =
              <<C!Part(Poll(r.known), 1, "N"), C!Part(Poll(r.known), 2, "5")>>
         /\ C!Effective(lines).Loadout = C!Overriding(r.loadouts)
         /\ C!Effective(lines).unknown = {<<k, r.unknown[k]>> : k \in DOMAIN r.unknown}
<1> DEFINE get(k, d) == IF k \in DOMAIN r.known THEN r.known[k] ELSE d
           votify == Poll(r.known)
           name == get("Name", C!EMPTY_FIELDS.Name)
           pve == "PvE" \in DOMAIN r.known
           log == get("Log", <<"Y", "N">>)
           parts == <<C!Part(votify, 1, "N"), C!Part(votify, 2, "5")>>
           over == C!Overriding(r.loadouts)
           others == {<<k, r.unknown[k]>> : k \in DOMAIN r.unknown}
<1>1. C!Effective(lines) =
        [Name |-> name, PvE |-> pve, Log |-> log, Votify |-> parts, Loadout |-> over,
         unknown |-> others]
  <2>1. votify = get("Votify", <<"N", "5">>)
    BY DEF Poll
  <2> HIDE DEF name, log, over, others
  <2> QED
    BY <2>1 DEF C!Effective, name, log, over, others
<1> DEFINE now == C!Effective(lines)
<1> HIDE DEF name, pve, log, parts, over, others, now
<1>2. /\ now.Name = name /\ now.Log = log /\ now.Votify = parts
      /\ now.Loadout = over /\ now.unknown = others
  BY <1>1 DEF now
<1>3. now.PvE = pve
  BY <1>1 DEF now
<1> QED
  BY <1>2, <1>3, Zenon DEF name, pve, log, parts, over, others, now

(* The save property of Commands.dat, of a form whose hidden lines are     *)
(* those of the file "base": what is written says what the form shows, has *)
(* the unknown commands of "base" and its comments.                        *)
LEMMA SavedSaysShown ==
  ASSUME NEW f \in Fields, NEW base \in Seq(Lines), NEW s,
         s.form.fields = f, s.form.base = base
  PROVE  CommandsSaved(s, C!SerializeCommandsDat(C!RecordOf(f, C!MetaOf(C!ParseCommandsDat(base)))))
<1> DEFINE old == C!ParseCommandsDat(base)
           m == C!MetaOf(old)
           r == C!RecordOf(f, m)
           w == C!SerializeCommandsDat(r)
           k == C!KnownOf(f)
           now == C!Effective(w)
           want == C!Shown(f, base)
<1>1. old \in Records /\ old.comments = C!Comments(base)
  BY CommentsParsed
<1>2. m \in Metas /\ m.unknown = old.unknown /\ m.comments = old.comments
  BY <1>1, FieldsOfType DEF C!MetaOf
<1> HIDE DEF old, m
<1>3. r \in Writable /\ r = Rec(k, m.unknown, m.comments, f.Loadout)
  BY <1>2, RecordOfType
<1> HIDE DEF r
<1>4. w \in Seq(Lines) /\ C!ParseCommandsDat(w) = r
  BY <1>3, CommandsRoundTrip
<1> HIDE DEF w
<1>5. r.known = k /\ r.unknown = old.unknown /\ r.comments = old.comments /\ r.loadouts = f.Loadout
  <2> HIDE DEF k
  <2> QED
    BY <1>2, <1>3 DEF Rec
<1>6. C!Comments(w) = C!Comments(base)
  BY <1>1, <1>4, <1>5, CommentsParsed
<1> DEFINE votify == Poll(k)
<1>7. /\ now.Name = IF "Name" \in DOMAIN k THEN k["Name"] ELSE C!EMPTY_FIELDS.Name
      /\ now.PvE = ("PvE" \in DOMAIN k)
      /\ now.Log = IF "Log" \in DOMAIN k THEN k["Log"] ELSE <<"Y", "N">>
      /\ now.Votify = <<C!Part(votify, 1, "N"), C!Part(votify, 2, "5")>>
      /\ now.Loadout = C!Overriding(f.Loadout)
      /\ now.unknown = {<<x, old.unknown[x]>> : x \in DOMAIN old.unknown}
  <2> HIDE DEF k
  <2>1. r = C!ParseCommandsDat(w)
    BY <1>4
  <2> QED
    BY <1>5, <2>1, EffectiveIs
<1>8. C!Effective(base).unknown = {<<x, old.unknown[x]>> : x \in DOMAIN old.unknown}
  <2>1. old = C!ParseCommandsDat(base)
    BY DEF old
  <2> QED
    BY <2>1, EffectiveIs
<1>9. /\ "PvE" \in DOMAIN k <=> f.PvE
      /\ "Log" \in DOMAIN k /\ k["Log"] = <<f.LogChat, f.LogAnticheat>>
      /\ "Name" \in DOMAIN k <=> f.Name # <<>>
      /\ "Name" \in DOMAIN k => k["Name"] = f.Name
      /\ f.VotifyAllow = "Y" =>
           /\ "Votify" \in DOMAIN k
           /\ k["Votify"] =
                <<"Y", IF f.VotifyPassCooldown = "" THEN "5" ELSE f.VotifyPassCooldown>>
      /\ f.VotifyAllow = "N" /\ f.Votify = <<>> => "Votify" \notin DOMAIN k
  BY KnownOfType
<1> DEFINE cool == IF f.VotifyPassCooldown = "" THEN "5" ELSE f.VotifyPassCooldown
           name == IF f.Name = <<>> THEN C!EMPTY_FIELDS.Name ELSE f.Name
           poll == IF f.VotifyAllow = "N" THEN <<"N", "5">> ELSE <<"Y", cool>>
           others == C!Effective(base).unknown
           over == C!Overriding(f.Loadout)
<1>10. want = [Name |-> name, PvE |-> f.PvE, Log |-> <<f.LogChat, f.LogAnticheat>>,
               Votify |-> poll, Loadout |-> over, unknown |-> others]
  BY Zenon DEF C!Shown
<1> HIDE DEF now, want
<1>11. /\ DOMAIN want = {"Name", "PvE", "Log", "Votify", "Loadout", "unknown"}
       /\ want.Name = name /\ want.Log = <<f.LogChat, f.LogAnticheat>> /\ want.Votify = poll
       /\ want.Loadout = over /\ want.unknown = others
  <2> HIDE DEF name, poll, over, others
  <2> QED
    BY <1>10
<1>12. want.PvE = f.PvE
  <2> HIDE DEF name, poll, over, others
  <2> QED
    BY <1>10, Zenon
<1> HIDE DEF k
<1>13. now.Name = want.Name /\ now.Log = want.Log
  <2> HIDE DEF poll, over, others
  <2> QED
    BY <1>7, <1>9, <1>11
<1>14. now.PvE = want.PvE
  <2>1. f.PvE \in BOOLEAN
    BY DEF Fields
  <2>2. CASE f.PvE = TRUE
    <3>1. ("PvE" \in DOMAIN k) = TRUE
      BY <1>9, <2>2
    <3> QED
      BY <1>7, <1>12, <2>2, <3>1
  <2>3. CASE f.PvE = FALSE
    <3>1. ~("PvE" \in DOMAIN k)
      BY <1>9, <2>3, Zenon
    <3>2. ("PvE" \in DOMAIN k) = FALSE
      BY <3>1
    <3> QED
      BY <1>7, <1>12, <2>3, <3>2, Zenon
  <2> QED
    BY <2>1, <2>2, <2>3
<1>15. now.Loadout = want.Loadout /\ now.unknown = want.unknown
  BY <1>7, <1>8, <1>11, Zenon
<1>16. ASSUME f.VotifyAllow = "Y" \/ f.Votify = <<>> PROVE now.Votify = want.Votify
  <2>1. f.VotifyAllow \in {"Y", "N"}
    BY DEF Fields
  <2> HIDE DEF name, over, others
  <2>2. CASE f.VotifyAllow = "Y"
    <3>1. votify = <<"Y", cool>> /\ poll = <<"Y", cool>>
      BY <1>9, <2>2 DEF Poll
    <3> HIDE DEF votify, cool, poll
    <3>2. C!Part(votify, 1, "N") = "Y" /\ C!Part(votify, 2, "5") = cool
      BY <3>1 DEF C!Part
    <3> QED
      BY <1>7, <1>11, <3>1, <3>2 DEF votify
  <2>3. CASE f.VotifyAllow = "N"
    <3>1. votify = <<"N", "5">> /\ poll = <<"N", "5">>
      BY <1>9, <1>16, <2>3 DEF Poll
    <3> HIDE DEF votify, poll
    <3>2. C!Part(votify, 1, "N") = "N" /\ C!Part(votify, 2, "5") = "5"
      BY <3>1 DEF C!Part
    <3> QED
      BY <1>7, <1>11, <3>1, <3>2 DEF votify
  <2> QED
    BY <2>1, <2>2, <2>3
<1> HIDE DEF name, poll, over, others, cool, votify
<1>17. \A part \in DOMAIN want \ {"Votify"} : now[part] = want[part]
  <2> TAKE part \in DOMAIN want \ {"Votify"}
  <2>1. part \in {"Name", "PvE", "Log", "Loadout", "unknown"}
    BY <1>11
  <2> QED
    BY <1>13, <1>14, <1>15, <2>1, Zenon
<1>18. CommandsSaved(s, w)
  BY <1>6, <1>16, <1>17, Zenon DEF CommandsSaved, now, want
<1> QED
  BY <1>18, Zenon DEF w, r, m, old
-----------------------------------------------------------------------------
(* The dialog of a loadout, whatever is done in it, hands over item ids.   *)
Ids     == C!ITEM_IDS
Dialogs == [tags : Seq(Ids), input : DOMAIN Finds \cup {""}, active : Nat, visible : Nat]

LEMMA VisibleType ==
  ASSUME NEW d \in Dialogs
  PROVE  G!Filtered(d) \in Seq(Ids) /\ G!Visible(d) \in Seq(Ids)
<1> DEFINE P == {i \in DOMAIN Items : d.input = "" \/ Items[i] \in Finds[d.input]}
<1>1. Items \in Seq(Ids) /\ d.visible \in Nat
  BY ConfigPageAssumption DEF Ids, Dialogs
<1>2. G!Filtered(d) = KeptAt(Items, P)
  BY Zenon DEF G!Filtered, G!KeptAt, KeptAt
<1> HIDE DEF P
<1>3. G!Filtered(d) \in Seq(Ids)
  BY <1>1, <1>2, KeptType
<1>4. d.visible < Len(G!Filtered(d)) => SubSeq(G!Filtered(d), 1, d.visible) \in Seq(Ids)
  BY <1>1, <1>3
<1> QED
  BY <1>3, <1>4 DEF G!Visible, G!HasMore

LEMMA EventsType ==
  ASSUME NEW d \in Dialogs
  PROVE  G!Events(d) \subseteq Dialogs
<1> DEFINE Chosen == Seq(Ids)
           N == DOMAIN Finds \cup {""}
           D == [tags : Chosen, input : N, active : Nat, visible : Nat]
           v == G!Visible(d)
<1>1. d \in D
  BY DEF Dialogs
<1>2. d.tags \in Chosen /\ d.input \in N /\ d.active \in Nat /\ d.visible \in Nat
  <2> HIDE DEF Chosen, N
  <2> QED
    BY <1>1
<1>3. Ids \subseteq Texts /\ "" \in N
  BY DEF Ids, Texts
<1>4. \A id \in Ids : Append(d.tags, id) \in Chosen
  <2>1. \A s \in Seq(Ids) : \A id \in Ids : Append(s, id) \in Seq(Ids)
    OBVIOUS
  <2> QED
    BY <1>2, <2>1, Zenon
<1>5. v \in Seq(Ids) /\ Len(G!Filtered(d)) \in Nat
  BY VisibleType
<1>6. PAGE_SIZE \in Nat /\ ItemIds \subseteq Ids
  BY ConfigPageAssumption DEF Ids
<1>7. \A row \in DOMAIN v : v[row] \in Ids /\ row \in Nat /\ row - 1 \in Nat
  BY <1>5
<1>8. v # <<>> => G!Highlighted(d) \in Ids
  <2> SUFFICES ASSUME v # <<>> PROVE G!Highlighted(d) \in Ids
    OBVIOUS
  <2> DEFINE n == Len(v)
  <2>1. n \in Nat /\ n > 0 /\ DOMAIN v = 1..n
    BY <1>5
  <2>2. d.active % n \in 0..(n - 1)
    <3>1. \A a, b \in Nat : b > 0 => a % b \in 0..(b - 1)
      OBVIOUS
    <3> HIDE DEF n
    <3> QED
      BY <1>2, <2>1, <3>1
  <2>3. (d.active % n) + 1 \in DOMAIN v
    <3> HIDE DEF n
    <3> QED
      BY <2>1, <2>2
  <2> QED
    BY <1>7, <2>3 DEF G!Highlighted
<1> HIDE DEF Chosen, N, v
<1>9. \A text \in N : G!Type(d, text) \in D
  BY <1>1, <1>6 DEF G!Type
<1>10. \A id \in Ids : G!AddTag(d, id, FALSE) \in D
  BY <1>1, <1>3, <1>4, <1>6 DEF G!AddTag, G!Type
<1>11. G!Grown(d) \in D
  <2>1. G!Smaller(d.visible + PAGE_SIZE, Len(G!Filtered(d))) \in Nat
    BY <1>2, <1>5, <1>6 DEF G!Smaller
  <2> QED
    BY <1>1, <2>1 DEF G!Grown
<1>12. G!Enter(d) \in D
  BY <1>1, <1>6, <1>8, <1>10 DEF G!Enter, v
<1>13. G!ArrowDown(d) \in D
  <2>1. \A e \in D : [e EXCEPT !.active = d.active + 1] \in D
    BY <1>2
  <2> HIDE DEF D
  <2> QED
    BY <1>1, <1>11, <2>1 DEF G!ArrowDown
<1>14. G!ArrowUp(d) \in D
  <2>1. (IF d.active = 0 THEN 0 ELSE d.active - 1) \in Nat
    BY <1>2
  <2> QED
    BY <1>1, <2>1 DEF G!ArrowUp
<1>15. G!Backspace(d) \in D
  <2>1. d.tags # <<>> => G!Front(d.tags) \in Chosen
    BY <1>2 DEF G!Front, Chosen
  <2> QED
    BY <1>1, <2>1 DEF G!Backspace
<1>16. \A row \in DOMAIN v : G!Click(d, row) \in D
  <2> TAKE row \in DOMAIN v
  <2>1. row - 1 \in Nat /\ v[row] \in Ids
    BY <1>7
  <2>2. Append(d.tags, v[row]) \in Chosen
    BY <1>4, <2>1
  <2> DEFINE t == Append(d.tags, v[row])
             a == row - 1
  <2>3. G!Click(d, row) = [d EXCEPT !.active = a, !.tags = t]
    BY <1>1 DEF G!Click, G!AddTag, v
  <2> HIDE DEF t, a
  <2>4. t \in Chosen /\ a \in Nat
    BY <2>1, <2>2 DEF t, a
  <2> QED
    BY <1>1, <2>3, <2>4
<1>17. \A id : G!RemoveTag(d, id) \in D
  <2> TAKE id
  <2> DEFINE P == {i \in DOMAIN d.tags : d.tags[i] # id}
  <2>1. G!KeptAt(d.tags, P) = KeptAt(d.tags, P)
    BY Zenon DEF G!KeptAt, KeptAt
  <2>2. G!RemoveTag(d, id) = [d EXCEPT !.tags = G!KeptAt(d.tags, P)]
    BY <1>1 DEF G!RemoveTag
  <2> HIDE DEF P
  <2>3. KeptAt(d.tags, P) \in Chosen
    BY <1>2, KeptType DEF Chosen
  <2> QED
    BY <1>1, <2>1, <2>2, <2>3
<1> HIDE DEF D
<1>18. \A text \in DOMAIN Finds : text \in N
  BY DEF N
<1>19. G!Events(d) \subseteq D
  BY <1>9, <1>11, <1>12, <1>13, <1>14, <1>15, <1>16, <1>17, <1>18 DEF G!Events, G!Scroll, v
<1> QED
  BY <1>19 DEF D, Dialogs, Chosen, N

(* The equation of Within.                                                 *)
Opens(a, n, g) ==
  g = [i \in 0..n |-> IF i = 0 THEN {G!Opened(a)}
                      ELSE g[i - 1] \cup UNION {G!Events(d) : d \in g[i - 1]}]

LEMMA WithinType ==
  ASSUME NEW a \in Seq(Ids), NEW n \in Nat
  PROVE  G!Within(a, n) \subseteq Dialogs
<1> DEFINE U == SUBSET Dialogs
           next(D) == D \cup UNION {G!Events(d) : d \in D}
           step == [i \in 1..n |-> [D \in U |-> next(D)]]
           h == CHOOSE f : Opens(a, n, f)
<1>1. {G!Opened(a)} \in U
  <2> DEFINE Chosen == Seq(Ids)
             N == DOMAIN Finds \cup {""}
  <2>1. /\ a \in Chosen /\ "" \in N /\ PAGE_SIZE \in Nat
        /\ Dialogs = [tags : Chosen, input : N, active : Nat, visible : Nat]
    BY ConfigPageAssumption DEF Dialogs
  <2> HIDE DEF Chosen, N
  <2>2. G!Opened(a) \in Dialogs
    BY <2>1 DEF G!Opened
  <2> QED
    BY <2>2
<1>2. \A D \in U : next(D) \in U
  BY EventsType
<1> HIDE DEF next, U
<1>3. step \in [1..n -> [U -> U]]
  BY <1>2
<1>4. PICK f \in [0..n -> U] : Runs(f, {G!Opened(a)}, n, step)
  <2> HIDE DEF step
  <2> QED
    BY <1>1, <1>3, RecursionExists
<1>5. ASSUME NEW i \in 0..n
      PROVE  f[i] = IF i = 0 THEN {G!Opened(a)} ELSE next(f[i - 1])
  <2>1. CASE i = 0
    BY <1>4, <2>1 DEF Runs
  <2>2. CASE i # 0
    <3>1. i \in 1..n /\ i - 1 \in 0..n
      BY <2>2
    <3>2. f[i] = step[i][f[i - 1]]
      BY <1>4, <3>1 DEF Runs
    <3>3. f[i - 1] \in U
      BY <3>1
    <3> QED
      BY <2>2, <3>1, <3>2, <3>3
  <2> QED
    BY <2>1, <2>2
<1>6. Opens(a, n, f)
  <2>1. f = [i \in 0..n |-> f[i]]
    BY <1>4
  <2>2. f = [i \in 0..n |-> IF i = 0 THEN {G!Opened(a)} ELSE next(f[i - 1])]
    BY <1>5, <2>1
  <2> QED
    BY <2>2, Zenon DEF Opens, next
<1>7. Opens(a, n, h)
  BY <1>6, Zenon
<1>8. G!Within(a, n) = h[n]
  BY Zenon DEF G!Within, Opens
<1> HIDE DEF h
<1>9. \A i \in 0..n : h[i] = IF i = 0 THEN {G!Opened(a)} ELSE next(h[i - 1])
  BY <1>7, Zenon DEF Opens, next
<1> DEFINE S == {i \in Nat : i <= n => h[i] \in U}
<1>10. 0 \in S
  <2>1. h[0] = {G!Opened(a)}
    BY <1>9
  <2> QED
    BY <1>1, <2>1
<1>11. ASSUME NEW i \in Nat, i \in S PROVE i + 1 \in S
  <2> SUFFICES ASSUME i + 1 <= n PROVE h[i + 1] \in U
    OBVIOUS
  <2>1. i + 1 \in 0..n /\ i + 1 # 0 /\ (i + 1) - 1 = i /\ h[i] \in U
    BY <1>11
  <2>2. h[i + 1] = next(h[i])
    BY <1>9, <2>1
  <2> QED
    BY <1>2, <2>1, <2>2
<1> HIDE DEF S
<1>12. n \in S
  BY <1>10, <1>11, SetInduction
<1> QED
  BY <1>8, <1>12 DEF S, U

LEMMA OutcomesType ==
  ASSUME NEW a \in Seq(Ids)
  PROVE  G!Outcomes(a, MaxEvents) \subseteq Seq(Ids)
<1> SUFFICES ASSUME NEW d \in G!Within(a, MaxEvents) PROVE G!Saved(d) \in Seq(Ids)
  BY DEF G!Outcomes
<1>1. d.tags \in Seq(Ids)
  <2>1. d \in Dialogs
    BY ConfigPageAssumption, WithinType
  <2> QED
    BY <2>1 DEF Dialogs
<1> DEFINE P == {i \in DOMAIN d.tags : \A j \in 1..(i - 1) : d.tags[j] # d.tags[i]}
<1>2. G!Saved(d) = KeptAt(d.tags, P)
  BY Zenon DEF G!Saved, G!KeptAt, KeptAt
<1> HIDE DEF P
<1> QED
  BY <1>1, <1>2, KeptType
-----------------------------------------------------------------------------
(* The inductive invariant: what is held for Commands.dat is a form whose  *)
(* hidden lines are those of the file it was made of, an answer that is    *)
(* under way is the lines of a file, and a save under way has the record   *)
(* of the form that was held when the button was pressed.                  *)
CommandsHeld ==
  [fields : Fields, meta : Metas, from : Servers \cup {Absent}, base : Seq(Lines)]

MadeOfBase(c) == c.from \in Servers => c.meta = C!MetaOf(C!ParseCommandsDat(c.base))

HeldOK(h) ==
  /\ DOMAIN h = Tabs
  /\ h.commands \in CommandsHeld /\ MadeOfBase(h.commands)
  /\ "from" \in DOMAIN h.txt /\ h.txt.from \in Servers \cup {Absent}
  /\ {"rows", "from"} \subseteq DOMAIN h.workshop
  /\ h.workshop.from \in Servers \cup {Absent}
  /\ \A m \in DOMAIN h.workshop.rows :
       h.workshop.rows[m] \in {"enabled", "disabled", "pending_apply"}

LoadOK(l) ==
  /\ DOMAIN l = {"server", "tab", "stage", "data"}
  /\ l.server \in Servers /\ l.tab \in Tabs
  /\ l.stage = "answered" /\ l.tab = "commands" => l.data \in Seq(Lines)

LoadsOK(q) ==
  /\ q \in Seq(Range(q)) /\ Len(q) <= MaxLoads
  /\ \A i \in DOMAIN q : LoadOK(q[i])

CallOK(s) ==
  /\ DOMAIN s = {"server", "tab", "payload", "form", "stage"}
  /\ s.server \in Servers /\ s.tab \in Tabs
  /\ s.tab = "commands" => /\ s.form \in CommandsHeld /\ MadeOfBase(s.form)
                           /\ s.payload = C!RecordOf(s.form.fields, s.form.meta)

SaveOK(q) == q = <<>> \/ (q = <<q[1]>> /\ CallOK(q[1]))

DiskOK(d) ==
  /\ DOMAIN d = Servers
  /\ \A s \in Servers : DOMAIN d[s] = Tabs /\ d[s].commands \in Seq(Lines)

FlagsOK ==
  /\ {dirty, configLoading, configError, saving} \subseteq BOOLEAN
  /\ saving <=> save # <<>>
  /\ loads # <<>> \/ ~configLoading

IInv ==
  /\ server \in Servers /\ tab \in Tabs
  /\ HeldOK(held) /\ LoadsOK(loads) /\ SaveOK(save) /\ DiskOK(disk) /\ FlagsOK

-----------------------------------------------------------------------------
(* How the parts of the state change.                                      *)
LEMMA FormChanged ==
  ASSUME NEW h, HeldOK(h), NEW f \in Fields
  PROVE  HeldOK([h EXCEPT !.commands.fields = f])
<1> DEFINE c == h.commands
           e == [c EXCEPT !.fields = f]
           g == [h EXCEPT !.commands.fields = f]
           B == Seq(Lines)
           F == Servers \cup {Absent}
<1>1. c \in [fields : Fields, meta : Metas, from : F, base : B] /\ MadeOfBase(c)
  BY DEF HeldOK, CommandsHeld
<1>2. /\ DOMAIN g = Tabs /\ g.commands = e /\ g.txt = h.txt /\ g.workshop = h.workshop
  BY DEF HeldOK, Tabs
<1> HIDE DEF c, g, B, F
<1>3. /\ e \in [fields : Fields, meta : Metas, from : F, base : B]
      /\ e.from = c.from /\ e.meta = c.meta /\ e.base = c.base
  BY <1>1
<1> HIDE DEF e
<1>4. e \in CommandsHeld /\ MadeOfBase(e)
  BY <1>1, <1>3 DEF MadeOfBase, CommandsHeld, B, F
<1>5. HeldOK(g)
  BY <1>2, <1>4, Zenon DEF HeldOK
<1> QED
  BY <1>5 DEF g

(* What is held of the other two tabs is replaced or edited.               *)
LEMMA OthersChanged ==
  ASSUME NEW h, HeldOK(h), NEW g, DOMAIN g = DOMAIN h, g.commands = h.commands,
         "from" \in DOMAIN g.txt, g.txt.from \in Servers \cup {Absent},
         {"rows", "from"} \subseteq DOMAIN g.workshop,
         g.workshop.from \in Servers \cup {Absent},
         \A m \in DOMAIN g.workshop.rows :
           g.workshop.rows[m] \in {"enabled", "disabled", "pending_apply"}
  PROVE  HeldOK(g)
BY Zenon DEF HeldOK

LEMMA LoadAdded ==
  ASSUME NEW q, LoadsOK(q), Len(q) < MaxLoads, NEW s \in Servers, NEW t \in Tabs
  PROVE  LoadsOK(Append(q, Load(s, t))) /\ Append(q, Load(s, t)) # <<>>
<1> DEFINE l == Load(s, t)
           S == Range(q) \cup {l}
           p == Append(q, l)
<1>1. LoadOK(l)
  BY DEF LoadOK, Load
<1> HIDE DEF l
<1>2. q \in Seq(S) /\ l \in S
  <2>1. q \in Seq(Range(q))
    BY DEF LoadsOK
  <2> DEFINE R == Range(q)
  <2> HIDE DEF R
  <2> QED
    BY <2>1 DEF R
<1> HIDE DEF S
<1>3. /\ p \in Seq(S) /\ p # <<>> /\ Len(p) = Len(q) + 1 /\ DOMAIN q = 1..Len(q)
      /\ Len(q) \in Nat /\ DOMAIN p = 1..(Len(q) + 1)
      /\ \A i \in 1..Len(q) : p[i] = q[i]
      /\ p[Len(q) + 1] = l
  BY <1>2
<1> HIDE DEF p
<1>4. \A i \in DOMAIN p : LoadOK(p[i])
  <2>1. \A i \in DOMAIN q : LoadOK(q[i])
    BY DEF LoadsOK
  <2> TAKE i \in DOMAIN p
  <2>2. i \in 1..Len(q) \/ i = Len(q) + 1
    BY <1>3
  <2> QED
    BY <1>1, <1>3, <2>1, <2>2
<1>5. Len(p) <= MaxLoads
  BY <1>3, ConfigPageAssumption
<1>6. p \in Seq(Range(p))
  BY <1>3, SeqOfRange
<1> QED
  BY <1>3, <1>4, <1>5, <1>6 DEF LoadsOK, p, l

LEMMA Removed ==
  ASSUME NEW S, NEW q \in Seq(S), NEW i \in 1..Len(q), NEW p, p = RemoveAt(q, i)
  PROVE  /\ p \in Seq(S) /\ Len(p) = Len(q) - 1 /\ DOMAIN p = 1..(Len(q) - 1)
         /\ \A j \in 1..(Len(q) - 1) : p[j] = IF j < i THEN q[j] ELSE q[j + 1]
<1> DEFINE a == SubSeq(q, 1, i - 1)
           b == SubSeq(q, i + 1, Len(q))
<1>1. a \in Seq(S) /\ Len(a) = i - 1 /\ \A j \in 1..(i - 1) : a[j] = q[j]
  OBVIOUS
<1>2. b \in Seq(S) /\ Len(b) = Len(q) - i
  OBVIOUS
<1>3. \A j \in 1..(Len(q) - i) : b[j] = q[i + j]
  OBVIOUS
<1>4. p = a \o b
  BY DEF RemoveAt
<1>5. Len(q) \in Nat
  OBVIOUS
<1> HIDE DEF a, b
<1>6. p \in Seq(S) /\ Len(p) = Len(q) - 1
  BY <1>1, <1>2, <1>4, <1>5
<1>7. DOMAIN p = 1..(Len(q) - 1)
  BY <1>6
<1>8. ASSUME NEW j \in 1..(Len(q) - 1)
      PROVE  p[j] = IF j < i THEN q[j] ELSE q[j + 1]
  <2>1. CASE j < i
    <3>1. j \in 1..(i - 1) /\ p[j] = a[j]
      BY <1>1, <1>2, <1>4, <1>5, <2>1
    <3> QED
      BY <1>1, <2>1, <3>1
  <2>2. CASE ~(j < i)
    <3> DEFINE k == j - (i - 1)
    <3>1. k \in 1..(Len(q) - i) /\ (i - 1) + k = j /\ i + k = j + 1
      BY <1>5, <2>2
    <3>2. p[(i - 1) + k] = b[k]
      <4> HIDE DEF k
      <4> QED
        BY <1>1, <1>2, <1>4, <1>5, <3>1
    <3> HIDE DEF k
    <3> QED
      BY <1>3, <2>2, <3>1, <3>2
  <2> QED
    BY <2>1, <2>2
<1> QED
  BY <1>6, <1>7, <1>8

LEMMA LoadRemoved ==
  ASSUME NEW q, LoadsOK(q), NEW i \in DOMAIN q
  PROVE  LoadsOK(RemoveAt(q, i))
<1> DEFINE S == Range(q)
           n == Len(q)
           p == RemoveAt(q, i)
<1>1. q \in Seq(S) /\ n <= MaxLoads /\ \A j \in DOMAIN q : LoadOK(q[j])
  BY DEF LoadsOK
<1> HIDE DEF S
<1>2. n \in Nat /\ DOMAIN q = 1..n /\ i \in 1..n
  BY <1>1
<1>3. p = RemoveAt(q, i)
  OBVIOUS
<1> HIDE DEF p
<1>4. i \in 1..Len(q) /\ q \in Seq(S)
  BY <1>1, <1>2
<1>5. /\ p \in Seq(S) /\ Len(p) = n - 1 /\ DOMAIN p = 1..(n - 1)
      /\ \A j \in 1..(n - 1) : p[j] = IF j < i THEN q[j] ELSE q[j + 1]
  BY <1>3, <1>4, Removed
<1> HIDE DEF n
<1>6. \A j \in DOMAIN p : LoadOK(p[j])
  <2> TAKE j \in DOMAIN p
  <2>1. j \in DOMAIN q /\ j + 1 \in DOMAIN q
    BY <1>2, <1>5
  <2>2. p[j] = q[j] \/ p[j] = q[j + 1]
    BY <1>5
  <2> QED
    BY <1>1, <2>1, <2>2
<1>7. Len(p) <= MaxLoads
  BY <1>1, <1>2, <1>5, ConfigPageAssumption DEF n
<1>8. p \in Seq(Range(p))
  BY <1>5, SeqOfRange
<1> QED
  BY <1>6, <1>7, <1>8 DEF LoadsOK, p

LEMMA LoadAnswered ==
  ASSUME NEW q, LoadsOK(q), NEW i \in DOMAIN q, NEW d, DiskOK(d)
  PROVE  LET p == [q EXCEPT ![i].stage = "answered", ![i].data = d[q[i].server][q[i].tab]]
         IN LoadsOK(p) /\ (q # <<>> => p # <<>>)
<1> DEFINE x == d[q[i].server][q[i].tab]
           l == [q[i] EXCEPT !.stage = "answered", !.data = x]
           p == [q EXCEPT ![i].stage = "answered", ![i].data = x]
           S == Range(q) \cup {l}
<1>1. q \in Seq(Range(q)) /\ Len(q) <= MaxLoads /\ \A j \in DOMAIN q : LoadOK(q[j])
  BY DEF LoadsOK
<1>2. q[i].server \in Servers /\ q[i].tab \in Tabs
      /\ DOMAIN q[i] = {"server", "tab", "stage", "data"}
  BY <1>1 DEF LoadOK
<1>3. q[i].tab = "commands" => x \in Seq(Lines)
  BY <1>2 DEF DiskOK
<1> HIDE DEF x
<1>4. LoadOK(l)
  <2>1. /\ DOMAIN l = DOMAIN q[i] /\ l.server = q[i].server /\ l.tab = q[i].tab
        /\ l.data = x
    BY <1>2
  <2> HIDE DEF l
  <2> QED
    BY <1>2, <1>3, <2>1 DEF LoadOK
<1>5. DOMAIN p = DOMAIN q /\ \A j \in DOMAIN q : p[j] = IF j = i THEN l ELSE q[j]
  OBVIOUS
<1>6. p = [j \in DOMAIN q |-> p[j]]
  OBVIOUS
<1> HIDE DEF l, p
<1>7. q \in Seq(S) /\ l \in S
  <2> DEFINE R == Range(q)
  <2> HIDE DEF R
  <2> QED
    BY <1>1 DEF R
<1> HIDE DEF S
<1>8. /\ p \in Seq(S) /\ Len(p) = Len(q) /\ (q # <<>> => p # <<>>)
  <2>1. DOMAIN q = 1..Len(q) /\ Len(q) \in Nat /\ \A j \in 1..Len(q) : q[j] \in S
    BY <1>7
  <2>2. \A j \in 1..Len(q) : p[j] \in S
    BY <1>5, <1>7, <2>1
  <2>3. p = [j \in 1..Len(q) |-> p[j]]
    BY <1>6, <2>1
  <2> DEFINE n == Len(q)
  <2> HIDE DEF n
  <2>4. p \in Seq(S) /\ Len(p) = n
    BY <2>1, <2>2, <2>3 DEF n
  <2>5. q # <<>> => n > 0
    BY <1>7, <2>1 DEF n
  <2> QED
    BY <2>4, <2>5 DEF n
<1>9. \A j \in DOMAIN p : LoadOK(p[j])
  BY <1>1, <1>4, <1>5
<1>10. p \in Seq(Range(p))
  BY <1>8, SeqOfRange
<1>11. LoadsOK(p)
  BY <1>1, <1>8, <1>9, <1>10 DEF LoadsOK
<1> QED
  BY <1>8, <1>11 DEF p, x

(* What the form and the dialog may make of the fields.                    *)
LEMMA PickerSaveType ==
  ASSUME NEW es \in Seq(Entries), NEW id \in C!VALID_LOADOUT_SKILLSET_IDS, NEW items \in Seq(Ids)
  PROVE  C!PickerSave(es, id, items) \in Seq(Entries)
<1> DEFINE P == {i \in DOMAIN es : es[i].skillsetId # id}
           Chosen == Seq(Ids)
           V == C!VALID_LOADOUT_SKILLSET_IDS
           changed == [i \in DOMAIN es |-> IF es[i].skillsetId = id
                                           THEN [es[i] EXCEPT !.itemIds = items] ELSE es[i]]
           added == Append(es, [skillsetId |-> id, itemIds |-> items])
<1>1. Entries = [skillsetId : V, itemIds : Chosen]
  BY DEF Entries, Ids
<1>2. C!KeptAt(es, P) \in Seq(Entries)
  <2>1. C!KeptAt(es, P) = KeptAt(es, P)
    BY Zenon DEF C!KeptAt, KeptAt
  <2> HIDE DEF P
  <2> QED
    BY <2>1, KeptType
<1>3. changed \in Seq(Entries)
  <2> DEFINE n == Len(es)
             e(i) == IF es[i].skillsetId = id
                     THEN [es[i] EXCEPT !.itemIds = items] ELSE es[i]
  <2>1. n \in Nat /\ DOMAIN es = 1..n /\ \A i \in 1..n : es[i] \in Entries
    OBVIOUS
  <2>2. \A x \in Entries : [x EXCEPT !.itemIds = items] \in Entries
    <3> HIDE DEF Chosen, V
    <3>1. items \in Chosen
      BY DEF Chosen
    <3> QED
      BY <1>1, <3>1
  <2>3. \A i \in 1..n : e(i) \in Entries
    BY <2>1, <2>2
  <2>4. changed = [i \in 1..n |-> e(i)]
    BY <2>1
  <2> HIDE DEF changed, n, e
  <2> QED
    BY <2>1, <2>3, <2>4
<1>4. added \in Seq(Entries)
  <2>1. [skillsetId |-> id, itemIds |-> items] \in Entries
    <3> HIDE DEF Chosen, V
    <3>1. items \in Chosen /\ id \in V
      BY DEF Chosen, V
    <3> QED
      BY <1>1, <3>1
  <2> QED
    BY <2>1
<1>5. C!PickerSave(es, id, items) \in {C!KeptAt(es, P), changed, es, added}
  BY DEF C!PickerSave
<1> QED
  BY <1>2, <1>3, <1>4, <1>5

LEMMA LoadoutChanged ==
  ASSUME NEW f \in Fields, NEW es \in Seq(Entries)
  PROVE  [f EXCEPT !.Loadout = es] \in Fields
<1> DEFINE E == Seq(Entries)
           V == Seq(Texts)
<1>1. Fields = [Name : V, PvE : BOOLEAN, LogChat : {"Y", "N"}, LogAnticheat : {"Y", "N"},
                VotifyAllow : {"Y", "N"}, VotifyPassCooldown : Texts, Votify : V, Loadout : E]
  BY DEF Fields
<1>2. es \in E
  OBVIOUS
<1> HIDE DEF E, V
<1> QED
  BY <1>1, <1>2

LEMMA SeqOfMore ==
  ASSUME NEW S, NEW U, S \subseteq U
  PROVE  Seq(S) \subseteq Seq(U)
BY SeqMonotonic

LEMMA FieldChanged ==
  ASSUME NEW f \in Fields
  PROVE  /\ \A n \in Names : [f EXCEPT !.Name = n] \in Fields
         /\ [f EXCEPT !.PvE = ~@] \in Fields
         /\ [f EXCEPT !.VotifyAllow = IF @ = "Y" THEN "N" ELSE "Y"] \in Fields
         /\ \A n \in Cooldowns : [f EXCEPT !.VotifyPassCooldown = n] \in Fields
<1> DEFINE E == Seq(Entries)
           V == Seq(Texts)
<1>1. Fields = [Name : V, PvE : BOOLEAN, LogChat : {"Y", "N"}, LogAnticheat : {"Y", "N"},
                VotifyAllow : {"Y", "N"}, VotifyPassCooldown : Texts, Votify : V, Loadout : E]
  BY DEF Fields
<1>2. Names \subseteq V /\ Cooldowns \subseteq Texts
  <2>1. Names \subseteq Seq(STRING) /\ Cooldowns \subseteq STRING
    BY ConfigPageAssumption
  <2>2. STRING \subseteq Texts
    BY DEF Texts
  <2>3. Seq(STRING) \subseteq Seq(Texts)
    BY <2>2, SeqOfMore, Zenon
  <2> QED
    BY <2>1, <2>2, <2>3
<1> HIDE DEF E, V
<1>3. \A n \in Names : [f EXCEPT !.Name = n] \in Fields
  BY <1>1, <1>2
<1>4. [f EXCEPT !.PvE = ~@] \in Fields
  <2>1. CASE f.PvE = TRUE
    <3>1. [f EXCEPT !.PvE = FALSE] \in Fields
      BY <1>1
    <3> QED
      BY <2>1, <3>1
  <2>2. CASE f.PvE = FALSE
    <3>1. [f EXCEPT !.PvE = TRUE] \in Fields
      BY <1>1
    <3> QED
      BY <2>2, <3>1
  <2>3. f.PvE \in BOOLEAN
    BY <1>1
  <2> QED
    BY <2>1, <2>2, <2>3
<1>5. [f EXCEPT !.VotifyAllow = IF @ = "Y" THEN "N" ELSE "Y"] \in Fields
  BY <1>1
<1>6. \A n \in Cooldowns : [f EXCEPT !.VotifyPassCooldown = n] \in Fields
  BY <1>1, <1>2
<1> QED
  BY <1>3, <1>4, <1>5, <1>6, Zenon

(* An edit of the form leaves it a form.                                   *)
LEMMA FormEdited ==
  ASSUME HeldOK(held), EditField \/ EditLoadout
  PROVE  HeldOK(held')
<1> DEFINE f == held.commands.fields
<1>1. f \in Fields /\ f.Loadout \in Seq(Entries)
  <2>1. held.commands \in CommandsHeld
    BY DEF HeldOK
  <2>2. f \in Fields
    <3> DEFINE F == Servers \cup {Absent}
               B == Seq(Lines)
    <3>1. CommandsHeld = [fields : Fields, meta : Metas, from : F, base : B]
      BY DEF CommandsHeld
    <3> HIDE DEF F, B
    <3> QED
      BY <2>1, <3>1
  <2> HIDE DEF f
  <2>3. f.Loadout \in Seq(Entries)
    <3> DEFINE E == Seq(Entries)
               V == Seq(Texts)
    <3>1. Fields = [Name : V, PvE : BOOLEAN, LogChat : {"Y", "N"}, LogAnticheat : {"Y", "N"},
                    VotifyAllow : {"Y", "N"}, VotifyPassCooldown : Texts, Votify : V, Loadout : E]
      BY DEF Fields
    <3> HIDE DEF E, V
    <3>2. f.Loadout \in E
      BY <2>2, <3>1
    <3> QED
      BY <3>2 DEF E
  <2> QED
    BY <2>2, <2>3
<1>2. ASSUME NEW g \in Fields, ChangeFields(g) PROVE HeldOK(held')
  <2>1. held' = [held EXCEPT !.commands.fields = g]
    BY <1>2 DEF ChangeFields
  <2> QED
    BY <2>1, FormChanged
<1>3. CASE EditField
  <2>1. \/ \E n \in Names : ChangeFields([f EXCEPT !.Name = n])
        \/ ChangeFields([f EXCEPT !.PvE = ~@])
        \/ ChangeFields([f EXCEPT !.VotifyAllow = IF @ = "Y" THEN "N" ELSE "Y"])
        \/ \E n \in Cooldowns : ChangeFields([f EXCEPT !.VotifyPassCooldown = n])
    BY <1>3, Zenon DEF EditField
  <2> HIDE DEF f
  <2> QED
    BY <1>1, <1>2, <2>1, FieldChanged, Zenon
<1>4. CASE EditLoadout
  <2> DEFINE es == f.Loadout
             Pencils == {j \in DOMAIN es : es[j].skillsetId \in C!Editable(es)}
  <2>1. \/ \E id \in C!AddableSkillsets(es) : \E items \in G!Outcomes(<<>>, MaxEvents) :
             ChangeFields([f EXCEPT !.Loadout = C!PickerSave(es, id, items)])
        \/ \E i \in Pencils : \E items \in G!Outcomes(es[i].itemIds, MaxEvents) :
             ChangeFields([f EXCEPT !.Loadout = C!PickerSave(es, es[i].skillsetId, items)])
        \/ \E i \in Pencils : ChangeFields([f EXCEPT !.Loadout = C!DeleteEntry(es, i)])
    BY <1>4 DEF EditLoadout
  <2>2. \A i \in DOMAIN es : /\ es[i].skillsetId \in C!VALID_LOADOUT_SKILLSET_IDS
                             /\ es[i].itemIds \in Seq(Ids)
    <3>1. \A i \in DOMAIN es : es[i] \in Entries
      BY <1>1
    <3> DEFINE Chosen == Seq(Ids)
    <3>2. Entries = [skillsetId : C!VALID_LOADOUT_SKILLSET_IDS, itemIds : Chosen]
      BY DEF Entries, Ids
    <3> HIDE DEF Chosen, f
    <3>3. \A i \in DOMAIN es : /\ es[i].skillsetId \in C!VALID_LOADOUT_SKILLSET_IDS
                               /\ es[i].itemIds \in Chosen
      BY <3>1, <3>2
    <3> QED
      BY <3>3 DEF Chosen
  <2> HIDE DEF f
  <2>3. ASSUME NEW e \in Seq(Entries), ChangeFields([f EXCEPT !.Loadout = e])
        PROVE  HeldOK(held')
    BY <1>1, <1>2, <2>3, LoadoutChanged
  <2>4. CASE \E id \in C!AddableSkillsets(es) : \E items \in G!Outcomes(<<>>, MaxEvents) :
               ChangeFields([f EXCEPT !.Loadout = C!PickerSave(es, id, items)])
    <3>1. PICK id \in C!AddableSkillsets(es), items \in G!Outcomes(<<>>, MaxEvents) :
               ChangeFields([f EXCEPT !.Loadout = C!PickerSave(es, id, items)])
      BY <2>4, Zenon
    <3>2. id \in C!VALID_LOADOUT_SKILLSET_IDS
      BY DEF C!AddableSkillsets
    <3>3. items \in Seq(Ids)
      <4>1. <<>> \in Seq(Ids)
        OBVIOUS
      <4> QED
        BY <4>1, OutcomesType
    <3>4. C!PickerSave(es, id, items) \in Seq(Entries)
      BY <1>1, <3>2, <3>3, PickerSaveType
    <3> QED
      BY <2>3, <3>1, <3>4
  <2>5. CASE \E i \in Pencils : \E items \in G!Outcomes(es[i].itemIds, MaxEvents) :
               ChangeFields([f EXCEPT !.Loadout = C!PickerSave(es, es[i].skillsetId, items)])
    <3>1. PICK i \in Pencils : \E items \in G!Outcomes(es[i].itemIds, MaxEvents) :
               ChangeFields([f EXCEPT !.Loadout = C!PickerSave(es, es[i].skillsetId, items)])
      BY <2>5, Zenon
    <3>2. PICK items \in G!Outcomes(es[i].itemIds, MaxEvents) :
               ChangeFields([f EXCEPT !.Loadout = C!PickerSave(es, es[i].skillsetId, items)])
      BY <3>1, Zenon
    <3>3. es[i].skillsetId \in C!VALID_LOADOUT_SKILLSET_IDS /\ items \in Seq(Ids)
      BY <2>2, OutcomesType
    <3>4. C!PickerSave(es, es[i].skillsetId, items) \in Seq(Entries)
      BY <1>1, <3>3, PickerSaveType
    <3> QED
      BY <2>3, <3>2, <3>4
  <2>6. CASE \E i \in Pencils : ChangeFields([f EXCEPT !.Loadout = C!DeleteEntry(es, i)])
    <3>1. PICK i \in Pencils : ChangeFields([f EXCEPT !.Loadout = C!DeleteEntry(es, i)])
      BY <2>6, Zenon
    <3>2. C!DeleteEntry(es, i) = RemoveAt(es, i)
      BY DEF C!DeleteEntry, C!RemoveAt, RemoveAt
    <3>3. i \in 1..Len(es)
      BY <1>1
    <3>4. C!DeleteEntry(es, i) \in Seq(Entries)
      BY <1>1, <3>2, <3>3, Removed
    <3> QED
      BY <2>3, <3>1, <3>4
  <2> QED
    BY <2>1, <2>4, <2>5, <2>6, Zenon
<1> QED
  BY <1>3, <1>4

LEMMA FileLines == Seq(C!Lines) \subseteq Seq(Lines)
<1>1. STRING \subseteq Texts
  BY DEF Texts
<1>2. Seq(STRING) \subseteq Seq(Texts)
  BY <1>1, SeqOfMore, Zenon
<1> DEFINE V == Seq(STRING)
           W == Seq(Texts)
<1>3. C!Lines = [key : STRING, value : V] /\ Lines = [key : Texts, value : W]
  BY DEF C!Lines, Lines
<1>4. V \subseteq W
  BY <1>2
<1> HIDE DEF V, W
<1>5. C!Lines \subseteq Lines
  BY <1>1, <1>3, <1>4
<1> QED
  BY <1>5, SeqOfMore, Zenon

(* The answer of a load becomes what is held for its tab.                  *)
LEMMA AnswerHeld ==
  ASSUME HeldOK(held), NEW l, LoadOK(l), l.stage = "answered"
  PROVE  HeldOK(HeldAfter(l))
<1> DEFINE F == Servers \cup {Absent}
           B == Seq(Lines)
<1>1. l.server \in Servers /\ l.server \in F /\ l.tab \in Tabs
  BY DEF LoadOK
<1>2. CASE l.tab = "commands"
  <2> DEFINE r == C!ParseCommandsDat(l.data)
             c == [fields |-> C!FieldsOf(r), meta |-> C!MetaOf(r),
                   from |-> l.server, base |-> l.data]
             h == [held EXCEPT !.commands = c]
  <2>1. l.data \in B
    BY <1>2 DEF LoadOK
  <2>2. C!FieldsOf(r) \in Fields /\ C!MetaOf(r) \in Metas
    BY <2>1, CommentsParsed, FieldsOfType
  <2>3. c.from = l.server /\ c.meta = C!MetaOf(r) /\ c.base = l.data
    <3> HIDE DEF r
    <3> QED
      OBVIOUS
  <2>4. MadeOfBase(c)
    BY <2>3, Zenon DEF MadeOfBase
  <2>5. c \in CommandsHeld
    <3> HIDE DEF r, F, B
    <3>1. CommandsHeld = [fields : Fields, meta : Metas, from : F, base : B]
      BY DEF CommandsHeld, F, B
    <3> QED
      BY <1>1, <2>1, <2>2, <3>1
  <2> HIDE DEF c
  <2>6. DOMAIN h = DOMAIN held /\ h.commands = c /\ h.txt = held.txt /\ h.workshop = held.workshop
    BY DEF HeldOK, Tabs
  <2>7. HeldAfter(l) = h
    BY <1>2 DEF HeldAfter, c
  <2> HIDE DEF h
  <2> QED
    BY <2>4, <2>5, <2>6, <2>7, Zenon DEF HeldOK
<1>3. CASE l.tab = "txt"
  <2> DEFINE p == T!ParseConfigTxt(l.data)
             x == [fields |-> T!TxtFieldsOf(p), sections |-> p, from |-> l.server, base |-> l.data]
             h == [held EXCEPT !.txt = x]
  <2>1. DOMAIN h = DOMAIN held /\ h.commands = held.commands /\ h.txt = x
        /\ h.workshop = held.workshop
    <3> HIDE DEF x
    <3> QED
      BY DEF HeldOK, Tabs
  <2>2. "from" \in DOMAIN x /\ x.from = l.server
    OBVIOUS
  <2>3. HeldAfter(l) = h
    BY <1>3 DEF HeldAfter
  <2>4. /\ {"rows", "from"} \subseteq DOMAIN held.workshop
        /\ held.workshop.from \in Servers \cup {Absent}
        /\ \A m \in DOMAIN held.workshop.rows :
             held.workshop.rows[m] \in {"enabled", "disabled", "pending_apply"}
    BY Zenon DEF HeldOK
  <2> HIDE DEF h, x
  <2>5. x.from \in Servers \cup {Absent}
    BY <1>1, <2>2
  <2>6. HeldOK(h)
    BY <2>1, <2>2, <2>4, <2>5, OthersChanged
  <2> QED
    BY <2>3, <2>6
<1>4. CASE l.tab = "workshop"
  <2> DEFINE x == [rows |-> Rows(l.data), from |-> l.server]
             h == [held EXCEPT !.workshop = x]
  <2>1. DOMAIN h = DOMAIN held /\ h.commands = held.commands /\ h.txt = held.txt
        /\ h.workshop = x
    <3> HIDE DEF x
    <3> QED
      BY DEF HeldOK, Tabs
  <2>2. {"rows", "from"} \subseteq DOMAIN x /\ x.from = l.server /\ x.rows = Rows(l.data)
    OBVIOUS
  <2>3. HeldAfter(l) = h
    BY <1>4 DEF HeldAfter
  <2>4. "from" \in DOMAIN held.txt /\ held.txt.from \in Servers \cup {Absent}
    BY Zenon DEF HeldOK
  <2>5. \A m \in DOMAIN Rows(l.data) : Rows(l.data)[m] \in {"enabled", "disabled", "pending_apply"}
    BY DEF Rows
  <2> HIDE DEF h, x
  <2>6. x.from \in Servers \cup {Absent}
    BY <1>1, <2>2
  <2>7. HeldOK(h)
    BY <2>1, <2>2, <2>4, <2>5, <2>6, OthersChanged
  <2> QED
    BY <2>3, <2>7
<1> QED
  BY <1>1, <1>2, <1>3, <1>4 DEF Tabs

(* What is written for Commands.dat is lines.                              *)
LEMMA WrittenType ==
  ASSUME NEW s, CallOK(s), s.tab = "commands"
  PROVE  /\ Written(s) = C!SerializeCommandsDat(C!RecordOf(s.form.fields, s.form.meta))
         /\ Written(s) \in Seq(Lines)
         /\ s.form.fields \in Fields /\ s.form.meta \in Metas /\ s.form.base \in Seq(Lines)
<1> DEFINE F == Servers \cup {Absent}
           B == Seq(Lines)
           f == s.form
<1>1. f \in [fields : Fields, meta : Metas, from : F, base : B]
  BY DEF CallOK, CommandsHeld
<1> HIDE DEF F, B
<1>2. f.fields \in Fields /\ f.meta \in Metas /\ f.base \in B
  BY <1>1
<1>3. s.payload = C!RecordOf(f.fields, f.meta)
  BY DEF CallOK
<1>4. Written(s) = C!SerializeCommandsDat(s.payload)
  BY DEF Written
<1>5. C!RecordOf(f.fields, f.meta) \in Writable
  BY <1>2, RecordOfType
<1>6. C!SerializeCommandsDat(C!RecordOf(f.fields, f.meta)) \in Seq(Lines)
  BY <1>5, CommandsRoundTrip
<1> QED
  BY <1>2, <1>3, <1>4, <1>6 DEF B

LEMMA DiskWritten ==
  ASSUME NEW d, DiskOK(d), NEW s, NEW t \in Tabs, NEW x, t = "commands" => x \in Seq(Lines)
  PROVE  DiskOK([d EXCEPT ![s][t] = x])
<1> DEFINE B == Seq(Lines)
           e == [d EXCEPT ![s][t] = x]
<1>1. t = "commands" => x \in B
  OBVIOUS
<1>2. DOMAIN d = Servers /\ \A v \in Servers : DOMAIN d[v] = Tabs /\ d[v].commands \in B
  BY DEF DiskOK
<1> HIDE DEF B
<1>3. DOMAIN e = Servers
  BY <1>2
<1>4. ASSUME NEW v \in Servers PROVE DOMAIN e[v] = Tabs /\ e[v].commands \in B
  <2>1. CASE v = s
    <3>1. e[v] = [d[v] EXCEPT ![t] = x]
      BY <1>2, <2>1
    <3>2. DOMAIN e[v] = Tabs
      BY <1>2, <3>1
    <3>3. e[v]["commands"] = IF t = "commands" THEN x ELSE d[v]["commands"]
      BY <1>2, <3>1 DEF Tabs
    <3> QED
      BY <1>1, <1>2, <3>2, <3>3
  <2>2. CASE v # s
    BY <1>2, <2>2
  <2> QED
    BY <2>1, <2>2
<1> QED
  BY <1>3, <1>4 DEF DiskOK, B

LEMMA Initially == Init => IInv
<1> SUFFICES ASSUME Init PROVE IInv
  OBVIOUS
<1>1. server \in Servers /\ tab \in Tabs
  BY DEF Init, Tabs
<1>2. HeldOK(held)
  <2> DEFINE F == Servers \cup {Absent}
             B == Seq(Lines)
             V == Seq(Texts)
             E == Seq(Entries)
             f == C!EMPTY_FIELDS
             m == C!NoMeta
  <2>1. f \in Fields
    <3>1. <<"Unturned">> \in V /\ <<>> \in V /\ <<>> \in E /\ "5" \in Texts
      <4>1. "Unturned" \in Texts /\ "5" \in Texts
        BY DEF Texts
      <4> QED
        BY <4>1
    <3>2. Fields = [Name : V, PvE : BOOLEAN, LogChat : {"Y", "N"}, LogAnticheat : {"Y", "N"},
                    VotifyAllow : {"Y", "N"}, VotifyPassCooldown : Texts, Votify : V, Loadout : E]
      BY DEF Fields
    <3> HIDE DEF V, E
    <3> QED
      BY <3>1, <3>2 DEF C!EMPTY_FIELDS
  <2>2. m \in Metas
    <3>1. <<>> \in Seq(CommentLines)
      OBVIOUS
    <3> QED
      BY <3>1, NoKeysType DEF C!NoMeta, Metas
  <2>3. <<>> \in B /\ Absent \in F /\ Absent \notin Servers
    BY ConfigPageAssumption
  <2> DEFINE c == [fields |-> f, meta |-> m, from |-> Absent, base |-> <<>>]
  <2>4. c \in CommandsHeld
    <3>1. CommandsHeld = [fields : Fields, meta : Metas, from : F, base : B]
      BY DEF CommandsHeld
    <3> HIDE DEF f, m, F, B
    <3> QED
      BY <2>1, <2>2, <2>3, <3>1
  <2>5. MadeOfBase(c)
    BY <2>3 DEF MadeOfBase
  <2> DEFINE x == [fields |-> T!EMPTY_TXT_FIELDS, sections |-> <<>>, from |-> Absent, base |-> <<>>]
             w == [rows |-> <<>>, from |-> Absent]
  <2>6. held = [commands |-> c, txt |-> x, workshop |-> w]
    BY DEF Init, NothingHeld
  <2>7. "from" \in DOMAIN x /\ x.from = Absent
    OBVIOUS
  <2>8. {"rows", "from"} \subseteq DOMAIN w /\ w.from = Absent /\ w.rows = <<>>
    OBVIOUS
  <2>9. DOMAIN w.rows = {}
    BY <2>8
  <2> HIDE DEF c, x, w
  <2>10. DOMAIN held = Tabs /\ held.commands = c /\ held.txt = x /\ held.workshop = w
    BY <2>6 DEF Tabs
  <2> QED
    BY <2>3, <2>4, <2>5, <2>7, <2>8, <2>9, <2>10 DEF HeldOK
<1>3. LoadsOK(loads) /\ loads # <<>>
  <2>1. LoadsOK(<<>>)
    <3>1. <<>> \in Seq(Range(<<>>)) /\ Len(<<>>) = 0 /\ DOMAIN <<>> = {}
      OBVIOUS
    <3> QED
      BY <3>1, ConfigPageAssumption DEF LoadsOK
  <2>2. Len(<<>>) < MaxLoads /\ "commands" \in Tabs
    BY ConfigPageAssumption DEF Tabs
  <2>3. loads = Append(<<>>, Load(server, "commands"))
    BY DEF Init
  <2> QED
    BY <1>1, <2>1, <2>2, <2>3, LoadAdded
<1>4. SaveOK(save) /\ save = <<>>
  BY DEF Init, SaveOK
<1>5. DiskOK(disk)
  <2>1. disk \in [Servers -> Disks]
    BY DEF Init
  <2>2. \A d \in Disks : DOMAIN d = Tabs /\ d.commands \in Seq(Lines)
    BY ConfigPageAssumption, FileLines
  <2> QED
    BY <2>1, <2>2 DEF DiskOK
<1>6. FlagsOK
  <2>1. dirty = FALSE /\ saving = FALSE /\ configError = FALSE /\ configLoading = TRUE
    BY DEF Init
  <2> QED
    BY <1>3, <1>4, <2>1 DEF FlagsOK
<1> QED
  BY <1>1, <1>2, <1>3, <1>4, <1>5, <1>6 DEF IInv

-----------------------------------------------------------------------------
(* The steps.  An edit of the other two tabs leaves what is held for       *)
(* Commands.dat, and rows with a status each.                              *)
LEMMA TxtEdited ==
  ASSUME HeldOK(held), EditTxtField \/ EditRawEntry
  PROVE  HeldOK(held')
<1> DEFINE x == held.txt
<1>1. "from" \in DOMAIN x /\ x.from \in Servers \cup {Absent} /\ DOMAIN held = Tabs
  BY Zenon DEF HeldOK
<1>2. ASSUME NEW g, held' = [held EXCEPT !.txt = g], "from" \in DOMAIN g, g.from = x.from
      PROVE  HeldOK(held')
  <2>1. /\ DOMAIN held' = DOMAIN held /\ held'.commands = held.commands
        /\ held'.workshop = held.workshop /\ held'.txt = g
    BY <1>1, <1>2 DEF Tabs
  <2>2. /\ {"rows", "from"} \subseteq DOMAIN held.workshop
        /\ held.workshop.from \in Servers \cup {Absent}
        /\ \A m \in DOMAIN held.workshop.rows :
             held.workshop.rows[m] \in {"enabled", "disabled", "pending_apply"}
    BY Zenon DEF HeldOK
  <2> QED
    BY <1>1, <1>2, <2>1, <2>2, OthersChanged
<1>3. ASSUME NEW y, held' = [held EXCEPT !.txt.fields = y] PROVE HeldOK(held')
  <2> DEFINE g == [x EXCEPT !.fields = y]
  <2>1. held' = [held EXCEPT !.txt = g]
    BY <1>3
  <2>2. "from" \in DOMAIN g /\ g.from = x.from
    BY <1>1
  <2> QED
    BY <1>2, <2>1, <2>2
<1>4. ASSUME NEW y, held' = [held EXCEPT !.txt.sections = y] PROVE HeldOK(held')
  <2> DEFINE g == [x EXCEPT !.sections = y]
  <2>1. held' = [held EXCEPT !.txt = g]
    BY <1>4
  <2>2. "from" \in DOMAIN g /\ g.from = x.from
    BY <1>1
  <2> QED
    BY <1>2, <2>1, <2>2
<1>5. CASE EditTxtField
  <2> DEFINE a == [x.fields EXCEPT !.Icon = IF @ = "" THEN "url" ELSE ""]
             b == [x.fields EXCEPT !.VAC_Secure = ~@]
  <2>1. held' = [held EXCEPT !.txt.fields = a] \/ held' = [held EXCEPT !.txt.fields = b]
    BY <1>5 DEF EditTxtField
  <2> QED
    BY <1>3, <2>1
<1>6. CASE EditRawEntry
  <2>1. PICK i \in DOMAIN x.sections :
          \E e \in Range(x.sections[i].entries), v \in {"", "5"} :
            held' = [held EXCEPT !.txt.sections = T!UpdateRawEntry(@, x.sections[i].name, e.key, v)]
    BY <1>6, Zenon DEF EditRawEntry
  <2>3. PICK e \in Range(x.sections[i].entries), v \in {"", "5"} :
          held' = [held EXCEPT !.txt.sections = T!UpdateRawEntry(@, x.sections[i].name, e.key, v)]
    BY <2>1
  <2> DEFINE y == T!UpdateRawEntry(x.sections, x.sections[i].name, e.key, v)
  <2>2. held' = [held EXCEPT !.txt.sections = y]
    BY <2>3
  <2> QED
    BY <1>4, <2>2
<1> QED
  BY <1>5, <1>6

LEMMA RowsChanged ==
  ASSUME HeldOK(held), NEW r, held' = [held EXCEPT !.workshop.rows = r],
         \A m \in DOMAIN r : r[m] \in {"enabled", "disabled", "pending_apply"}
  PROVE  HeldOK(held')
<1> DEFINE x == held.workshop
           g == [x EXCEPT !.rows = r]
<1>1. /\ {"rows", "from"} \subseteq DOMAIN x /\ x.from \in Servers \cup {Absent}
      /\ DOMAIN held = Tabs
      /\ "from" \in DOMAIN held.txt /\ held.txt.from \in Servers \cup {Absent}
  BY Zenon DEF HeldOK
<1>2. held' = [held EXCEPT !.workshop = g]
  OBVIOUS
<1>3. DOMAIN g = DOMAIN x /\ g.from = x.from /\ g.rows = r
  BY <1>1
<1> HIDE DEF x, g
<1>4. /\ DOMAIN held' = DOMAIN held /\ held'.commands = held.commands
      /\ held'.txt = held.txt /\ held'.workshop = g
  BY <1>1, <1>2 DEF Tabs
<1> QED
  BY <1>1, <1>3, <1>4, OthersChanged

LEMMA RowsEdited ==
  ASSUME HeldOK(held), NEW m, ToggleStatus(m) \/ DeletionEnds
  PROVE  HeldOK(held')
<1> DEFINE r == held.workshop.rows
<1>1. \A k \in DOMAIN r : r[k] \in {"enabled", "disabled", "pending_apply"}
  BY Zenon DEF HeldOK
<1>2. CASE ToggleStatus(m)
  <2> DEFINE q == [r EXCEPT ![m] = IF @ = "enabled" THEN "disabled" ELSE "enabled"]
  <2>1. held' = [held EXCEPT !.workshop.rows = q]
    BY <1>2 DEF ToggleStatus
  <2>2. \A k \in DOMAIN q : q[k] \in {"enabled", "disabled", "pending_apply"}
    BY <1>1
  <2> QED
    BY <2>1, <2>2, RowsChanged
<1>3. CASE DeletionEnds
  <2> DEFINE q == [k \in DOMAIN r \ {deletion[1].mod} |-> r[k]]
  <2>1. held' = [held EXCEPT !.workshop.rows = q]
    BY <1>3 DEF DeletionEnds
  <2>2. \A k \in DOMAIN q : q[k] \in {"enabled", "disabled", "pending_apply"}
    BY <1>1
  <2> QED
    BY <2>1, <2>2, RowsChanged
<1> QED
  BY <1>2, <1>3

(* A request joins the loads.                                              *)
LEMMA Fetched ==
  ASSUME LoadsOK(loads), NEW s \in Servers, NEW t \in Tabs, FetchConfig(s, t)
  PROVE  LoadsOK(loads') /\ loads' # <<>> /\ configLoading' = TRUE /\ configError' = FALSE
BY LoadAdded DEF FetchConfig

(* The record of the save is that of the form that is held.                *)
LEMMA Pressed ==
  ASSUME HeldOK(held), server \in Servers, tab \in Tabs, PressSave
  PROVE  SaveOK(save') /\ save' # <<>>
<1> DEFINE p == Payload(tab)
           f == held[tab]
           c == [server |-> server, tab |-> tab, payload |-> p, form |-> f, stage |-> "sent"]
<1>1. save' = <<c>>
  BY DEF PressSave
<1>2. /\ DOMAIN c = {"server", "tab", "payload", "form", "stage"}
      /\ c.server = server /\ c.tab = tab /\ c.payload = p /\ c.form = f
  <2> HIDE DEF p, f
  <2> QED
    OBVIOUS
<1> HIDE DEF c
<1>3. ASSUME tab = "commands"
      PROVE  /\ f \in CommandsHeld /\ MadeOfBase(f)
             /\ p = C!RecordOf(f.fields, f.meta)
  <2>1. f = held.commands
    BY <1>3
  <2>2. p = C!RecordOf(held.commands.fields, held.commands.meta)
    BY <1>3 DEF Payload
  <2>3. held.commands \in CommandsHeld /\ MadeOfBase(held.commands)
    BY Zenon DEF HeldOK
  <2> HIDE DEF f, p
  <2> QED
    BY <2>1, <2>2, <2>3, Zenon
<1> HIDE DEF f, p
<1>4. CallOK(c)
  BY <1>2, <1>3 DEF CallOK
<1>5. save'[1] = c /\ save' # <<>>
  BY <1>1
<1> QED
  BY <1>1, <1>4, <1>5 DEF SaveOK

LEMMA SaveDone ==
  ASSUME SaveOK(save), save # <<>>, save' = [save EXCEPT ![1].stage = "done"]
  PROVE  SaveOK(save') /\ save' # <<>>
<1> DEFINE s == save[1]
           c == [s EXCEPT !.stage = "done"]
<1>1. save = <<s>> /\ CallOK(s)
  BY Zenon DEF SaveOK
<1>2. /\ DOMAIN c = DOMAIN s /\ c.server = s.server /\ c.tab = s.tab
      /\ c.payload = s.payload /\ c.form = s.form
  BY <1>1 DEF CallOK
<1> HIDE DEF c
<1>3. CallOK(c)
  BY <1>1, <1>2 DEF CallOK
<1> HIDE DEF s
<1>4. save' = <<c>>
  BY <1>1 DEF c, s
<1>5. save'[1] = c /\ save' # <<>>
  BY <1>4
<1> QED
  BY <1>3, <1>4, <1>5 DEF SaveOK

(* The panel and others write the files.                                   *)
LEMMA FilesWritten ==
  ASSUME DiskOK(disk), SaveOK(save),
         PanelWrites \/ PanelDeletes \/ \E s \in Servers : OtherWrites(s)
  PROVE  DiskOK(disk')
<1>1. CASE PanelWrites
  <2> DEFINE s == save[1]
  <2>1. CallOK(s)
    BY <1>1 DEF PanelWrites, SaveOK
  <2>2. disk' = [disk EXCEPT ![s.server][s.tab] = Written(s)]
    BY <1>1 DEF PanelWrites
  <2>3. s.tab \in Tabs /\ (s.tab = "commands" => Written(s) \in Seq(Lines))
    BY <2>1, WrittenType DEF CallOK
  <2> QED
    BY <2>2, <2>3, DiskWritten
<1>2. CASE PanelDeletes
  <2> DEFINE s == deletion[1].server
             w == disk[s].workshop
             x == [downloaded |-> w.downloaded \ {deletion[1].mod},
                   named |-> w.named \ {deletion[1].mod}]
  <2>1. disk' = [disk EXCEPT ![s].workshop = x]
    BY <1>2 DEF PanelDeletes
  <2> HIDE DEF x, s
  <2>2. disk' = [disk EXCEPT ![s]["workshop"] = x]
    BY <2>1
  <2>3. "workshop" \in Tabs /\ "workshop" # "commands"
    BY DEF Tabs
  <2> QED
    BY <2>2, <2>3, DiskWritten
<1>3. CASE \E s \in Servers : OtherWrites(s)
  <2>1. PICK s \in Servers : OtherWrites(s)
    BY <1>3
  <2>2. "commands" \in Tabs /\ "txt" \in Tabs /\ "txt" # "commands"
    BY DEF Tabs
  <2>3. CASE \E c \in OtherCommands : disk' = [disk EXCEPT ![s].commands = c]
    <3>1. PICK c \in OtherCommands : disk' = [disk EXCEPT ![s].commands = c]
      BY <2>3
    <3>2. c \in Seq(Lines)
      BY ConfigPageAssumption, FileLines
    <3> QED
      BY <2>2, <3>1, <3>2, DiskWritten
  <2>4. CASE \E c \in OtherTxt : disk' = [disk EXCEPT ![s].txt = c]
    <3>1. PICK c \in OtherTxt : disk' = [disk EXCEPT ![s].txt = c]
      BY <2>4
    <3>2. disk' = [disk EXCEPT ![s]["txt"] = c]
      BY <3>1
    <3> QED
      BY <2>2, <3>2, DiskWritten
  <2> QED
    BY <2>1, <2>3, <2>4 DEF OtherWrites
<1> QED
  BY <1>1, <1>2, <1>3

(* Every step keeps the invariant; each step has what it changes in its    *)
(* first part, and the flags in its last.                                  *)
THEOREM Invariance == IInv /\ [Next]_vars => IInv'
<1> SUFFICES ASSUME IInv, [Next]_vars PROVE IInv'
  OBVIOUS
<1> USE DEF IInv
<1>1. ASSUME NEW s \in Servers, SelectServer(s) PROVE IInv'
  <2>1. LoadsOK(loads') /\ loads' # <<>> /\ configLoading' = TRUE /\ configError' = FALSE
    BY <1>1, Fetched, Zenon DEF SelectServer
  <2>2. /\ server' = s /\ tab' = tab /\ held' = held /\ dirty' = dirty
        /\ saving' = saving /\ save' = save /\ disk' = disk
    BY <1>1, Zenon DEF SelectServer
  <2>3. FlagsOK'
    BY <2>1, <2>2 DEF FlagsOK
  <2> QED
    BY <2>1, <2>2, <2>3
<1>2. ASSUME NEW t \in Tabs, SelectTab(t) PROVE IInv'
  <2>1. LoadsOK(loads') /\ loads' # <<>> /\ configLoading' = TRUE /\ configError' = FALSE
    BY <1>2, Fetched, Zenon DEF SelectTab
  <2>2. /\ server' = server /\ tab' = t /\ held' = held /\ dirty' = FALSE
        /\ saving' = saving /\ save' = save /\ disk' = disk
    BY <1>2, Zenon DEF SelectTab
  <2>3. FlagsOK'
    BY <2>1, <2>2 DEF FlagsOK
  <2> QED
    BY <2>1, <2>2, <2>3
<1>3. CASE PressRetry
  <2>1. LoadsOK(loads') /\ loads' # <<>> /\ configLoading' = TRUE /\ configError' = FALSE
    BY <1>3, Fetched, Zenon DEF PressRetry
  <2>2. /\ server' = server /\ tab' = tab /\ held' = held /\ dirty' = dirty
        /\ saving' = saving /\ save' = save /\ disk' = disk
    BY <1>3, Zenon DEF PressRetry
  <2>3. FlagsOK'
    BY <2>1, <2>2 DEF FlagsOK
  <2> QED
    BY <2>1, <2>2, <2>3
<1>4. ASSUME NEW t, Edit(t), HeldOK(held') PROVE IInv'
  <2>1. /\ server' = server /\ tab' = tab /\ dirty' = TRUE /\ configLoading' = configLoading
        /\ configError' = configError /\ saving' = saving /\ loads' = loads
        /\ save' = save /\ disk' = disk
    BY <1>4, Zenon DEF Edit
  <2>2. FlagsOK'
    BY <2>1 DEF FlagsOK
  <2> QED
    BY <1>4, <2>1, <2>2
<1>5. CASE EditField \/ EditLoadout
  BY <1>4, <1>5, FormEdited DEF EditField, EditLoadout
<1>6. CASE EditTxtField \/ EditRawEntry
  BY <1>4, <1>6, TxtEdited DEF EditTxtField, EditRawEntry
<1>7. ASSUME NEW m, ToggleStatus(m) PROVE IInv'
  BY <1>4, <1>7, RowsEdited DEF ToggleStatus
<1>8. ASSUME NEW m, ConfirmDeletion(m) PROVE IInv'
  <2>1. /\ server' = server /\ tab' = tab /\ held' = held /\ dirty' = dirty
        /\ configLoading' = configLoading /\ configError' = configError
        /\ saving' = saving /\ loads' = loads /\ save' = save /\ disk' = disk
    BY <1>8, Zenon DEF ConfirmDeletion
  <2>2. FlagsOK'
    BY <2>1 DEF FlagsOK
  <2> QED
    BY <2>1, <2>2
<1>9. CASE PressSave
  <2>1. SaveOK(save') /\ save' # <<>>
    BY <1>9, Pressed
  <2>2. /\ server' = server /\ tab' = tab /\ held' = held /\ dirty' = dirty
        /\ configLoading' = configLoading /\ configError' = FALSE
        /\ saving' = TRUE /\ loads' = loads /\ disk' = disk
    BY <1>9, Zenon DEF PressSave
  <2>3. FlagsOK'
    BY <2>1, <2>2 DEF FlagsOK
  <2> QED
    BY <2>1, <2>2, <2>3
<1>10. ASSUME NEW i \in DOMAIN loads, PanelAnswers(i) PROVE IInv'
  <2>1. LoadsOK(loads') /\ (loads # <<>> => loads' # <<>>)
    BY <1>10, LoadAnswered DEF PanelAnswers
  <2>2. /\ server' = server /\ tab' = tab /\ held' = held /\ dirty' = dirty
        /\ configLoading' = configLoading /\ configError' = configError
        /\ saving' = saving /\ save' = save /\ disk' = disk
    BY <1>10, Zenon DEF PanelAnswers
  <2>3. FlagsOK'
    BY <2>1, <2>2 DEF FlagsOK
  <2> QED
    BY <2>1, <2>2, <2>3
<1>11. ASSUME NEW i \in DOMAIN loads, LoadArrives(i) PROVE IInv'
  <2>1. LoadsOK(loads')
    BY <1>11, LoadRemoved DEF LoadArrives
  <2>2. HeldOK(held')
    <3>1. LoadOK(loads[i]) /\ loads[i].stage = "answered" /\ held' = HeldAfter(loads[i])
      BY <1>11 DEF LoadsOK, LoadArrives
    <3> QED
      BY <3>1, AnswerHeld
  <2>3. /\ server' = server /\ tab' = tab /\ dirty' = FALSE /\ configLoading' = FALSE
        /\ configError' = configError /\ saving' = saving /\ save' = save /\ disk' = disk
    BY <1>11, Zenon DEF LoadArrives
  <2>4. FlagsOK'
    BY <2>3 DEF FlagsOK
  <2> QED
    BY <2>1, <2>2, <2>3, <2>4
<1>12. ASSUME NEW i \in DOMAIN loads, LoadFails(i) PROVE IInv'
  <2>1. LoadsOK(loads')
    BY <1>12, LoadRemoved DEF LoadFails
  <2>2. /\ server' = server /\ tab' = tab /\ held' = held /\ dirty' = dirty
        /\ configLoading' = FALSE /\ configError' = TRUE /\ saving' = saving
        /\ save' = save /\ disk' = disk
    BY <1>12, Zenon DEF LoadFails
  <2>3. FlagsOK'
    BY <2>2 DEF FlagsOK
  <2> QED
    BY <2>1, <2>2, <2>3
<1>13. CASE PanelWrites
  <2>1. DiskOK(disk')
    BY <1>13, FilesWritten
  <2>2. SaveOK(save') /\ save' # <<>> /\ save # <<>>
    BY <1>13, SaveDone DEF PanelWrites
  <2>3. /\ server' = server /\ tab' = tab /\ held' = held /\ dirty' = dirty
        /\ configLoading' = configLoading /\ configError' = configError
        /\ saving' = saving /\ loads' = loads
    BY <1>13, Zenon DEF PanelWrites
  <2>4. FlagsOK'
    BY <2>2, <2>3 DEF FlagsOK
  <2> QED
    BY <2>1, <2>2, <2>3, <2>4
<1>14. CASE SaveEnds \/ SaveFails
  <2>1. SaveOK(save') /\ save' = <<>> /\ saving' = FALSE
    BY <1>14, Zenon DEF SaveEnds, SaveFails, SaveOK
  <2>2. /\ server' = server /\ tab' = tab /\ held' = held /\ configLoading' = configLoading
        /\ loads' = loads /\ disk' = disk
    BY <1>14, Zenon DEF SaveEnds, SaveFails
  <2>3. dirty' \in BOOLEAN /\ configError' \in BOOLEAN
    BY <1>14 DEF SaveEnds, SaveFails, FlagsOK
  <2>4. FlagsOK'
    BY <2>1, <2>2, <2>3 DEF FlagsOK
  <2> QED
    BY <2>1, <2>2, <2>4
<1>15. CASE PanelDeletes
  <2>1. DiskOK(disk')
    BY <1>15, FilesWritten
  <2>2. /\ server' = server /\ tab' = tab /\ held' = held /\ dirty' = dirty
        /\ configLoading' = configLoading /\ configError' = configError
        /\ saving' = saving /\ loads' = loads /\ save' = save
    BY <1>15, Zenon DEF PanelDeletes
  <2>3. FlagsOK'
    BY <2>2 DEF FlagsOK
  <2> QED
    BY <2>1, <2>2, <2>3
<1>16. CASE DeletionEnds
  <2>1. HeldOK(held')
    BY <1>16, RowsEdited
  <2>2. /\ server' = server /\ tab' = tab /\ dirty' = dirty
        /\ configLoading' = configLoading /\ configError' = configError
        /\ saving' = saving /\ loads' = loads /\ save' = save /\ disk' = disk
    BY <1>16, Zenon DEF DeletionEnds
  <2>3. FlagsOK'
    BY <2>2 DEF FlagsOK
  <2> QED
    BY <2>1, <2>2, <2>3
<1>17. CASE DeletionFails
  <2>1. /\ server' = server /\ tab' = tab /\ held' = held /\ dirty' = dirty
        /\ configLoading' = configLoading /\ configError' = TRUE
        /\ saving' = saving /\ loads' = loads /\ save' = save /\ disk' = disk
    BY <1>17, Zenon DEF DeletionFails
  <2>2. FlagsOK'
    BY <2>1 DEF FlagsOK
  <2> QED
    BY <2>1, <2>2
<1>18. CASE \E s \in Servers : OtherWrites(s)
  <2>1. DiskOK(disk')
    BY <1>18, FilesWritten
  <2>2. /\ server' = server /\ tab' = tab /\ held' = held /\ dirty' = dirty
        /\ configLoading' = configLoading /\ configError' = configError
        /\ saving' = saving /\ loads' = loads /\ save' = save
    BY <1>18, Zenon DEF OtherWrites
  <2>3. FlagsOK'
    BY <2>2 DEF FlagsOK
  <2> QED
    BY <2>1, <2>2, <2>3
<1>19. CASE UNCHANGED vars
  <2>1. /\ server' = server /\ tab' = tab /\ held' = held /\ dirty' = dirty
        /\ configLoading' = configLoading /\ configError' = configError
        /\ saving' = saving /\ loads' = loads /\ save' = save /\ disk' = disk
    BY <1>19 DEF vars
  <2>2. FlagsOK'
    BY <2>1 DEF FlagsOK
  <2> QED
    BY <2>1, <2>2
<1> QED
  BY <1>1, <1>2, <1>3, <1>5, <1>6, <1>7, <1>8, <1>9, <1>10, <1>11, <1>12, <1>13, <1>14,
     <1>15, <1>16, <1>17, <1>18, <1>19, Zenon DEF Next, UserStep, PanelStep

(* The types of the page: what is held for a tab comes from an instance or *)
(* from none, and a save is under way exactly while the button turns.      *)
THEOREM TypeCorrect == Spec => []TypeOK
<1>1. IInv => TypeOK
  <2> SUFFICES ASSUME IInv PROVE TypeOK
    OBVIOUS
  <2>1. \A t \in Tabs : held[t].from \in Servers \cup {Absent}
    <3> DEFINE F == Servers \cup {Absent}
               B == Seq(Lines)
    <3>1. held.commands \in [fields : Fields, meta : Metas, from : F, base : B]
      BY DEF IInv, HeldOK, CommandsHeld
    <3>2. held.txt.from \in F /\ held.workshop.from \in F
      BY DEF IInv, HeldOK
    <3> HIDE DEF F, B
    <3>3. held.commands.from \in F
      BY <3>1
    <3> QED
      BY <3>2, <3>3 DEF F, Tabs
  <2>2. \A m \in DOMAIN held.workshop.rows :
          held.workshop.rows[m] \in {"enabled", "disabled", "pending_apply"}
    BY Zenon DEF IInv, HeldOK
  <2>3. server \in Servers /\ tab \in Tabs /\ FlagsOK
    BY Zenon DEF IInv
  <2>4. Len(loads) <= MaxLoads
    BY DEF IInv, LoadsOK
  <2> QED
    BY <2>1, <2>2, <2>3, <2>4, Zenon DEF TypeOK, FlagsOK
<1> QED
  BY Initially, Invariance, <1>1, PTL DEF Spec

(* A save of Commands.dat to the instance the form came from says what the *)
(* form showed when the button was pressed, and keeps the unknown commands *)
(* and the comments of the file that was loaded, whatever was loaded,      *)
(* selected or edited since, and whatever the files and the input are.     *)
THEOREM CommandsSavedCorrect == Spec => CommandsSavedAsShown
<1>1. ASSUME IInv, NEW s \in Servers, PanelWrites, save[1].tab = "commands",
             save[1].server = s, save[1].form.from = s
      PROVE  CommandsSaved(save[1], disk'[s].commands)
  <2> DEFINE c == save[1]
             f == c.form.fields
             base == c.form.base
             w == C!SerializeCommandsDat(C!RecordOf(f, C!MetaOf(C!ParseCommandsDat(base))))
  <2>1. CallOK(c)
    BY <1>1 DEF IInv, SaveOK, PanelWrites
  <2>2. Written(c) = C!SerializeCommandsDat(C!RecordOf(f, c.form.meta))
        /\ f \in Fields /\ base \in Seq(Lines)
    BY <1>1, <2>1, WrittenType
  <2>3. c.form.meta = C!MetaOf(C!ParseCommandsDat(base))
    BY <1>1, <2>1, Zenon DEF CallOK, MadeOfBase
  <2>4. disk' = [disk EXCEPT ![s]["commands"] = Written(c)]
    BY <1>1 DEF PanelWrites
  <2>5. disk'[s].commands = Written(c)
    <3>1. DOMAIN disk = Servers /\ DOMAIN disk[s] = Tabs
      BY <1>1 DEF IInv, DiskOK
    <3> HIDE DEF c
    <3> QED
      BY <2>4, <3>1 DEF Tabs
  <2>6. CommandsSaved(c, w)
    BY <2>2, SavedSaysShown
  <2> QED
    BY <2>2, <2>3, <2>5, <2>6, Zenon
<1>2. IInv /\ [Next]_vars =>
        [\A s \in Servers :
           (/\ PanelWrites /\ save[1].tab = "commands"
            /\ save[1].server = s /\ save[1].form.from = s)
           => CommandsSaved(save[1], disk'[s].commands)]_vars
  BY <1>1, Zenon
<1> QED
  BY Initially, Invariance, <1>2, PTL DEF Spec, CommandsSavedAsShown
=============================================================================
