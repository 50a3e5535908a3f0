--------------------------- MODULE PollersProofs ---------------------------
(***************************************************************************)
(* Proofs about Pollers, for up to ten instances and every number of       *)
(* requests and instance guids.  IInv has a part for each actor: the BBS   *)
(* gives out an instance guid once and a crash it has reported stays true  *)
(* (RecordsInv); the router has one endpoint per instance guid             *)
(* (RouterInv); a call of HelloWorldInstancePoller that nothing disturbs   *)
(* goes round the router's endpoints from wherever the turn was when it    *)
(* began (CallInv); and the crash that a spec has seen was reported        *)
(* (SpecInv).                                                              *)
(***************************************************************************)
EXTENDS Pollers, FiniteSetTheorems, SequenceTheorems, TLAPS

\* How many elements of a finite set of numbers are at most x: between 1 and all
\* of them, and more for a larger x.
LEMMA Ranks ==
  ASSUME NEW S, S \subseteq Nat, IsFiniteSet(S)
  PROVE  /\ Cardinality(S) \in Nat
         /\ \A x \in S : Cardinality({y \in S : y <= x}) \in 1 .. Cardinality(S)
         /\ \A x, z \in S :
              x < z => Cardinality({y \in S : y <= x}) < Cardinality({y \in S : y <= z})
  <1> DEFINE Below(x) == {y \in S : y <= x}
  <1>1. Cardinality(S) \in Nat
    BY FS_CardinalityType
  <1>2. ASSUME NEW x \in S
        PROVE  /\ IsFiniteSet(Below(x)) /\ Cardinality(Below(x)) \in 1 .. Cardinality(S)
               /\ Cardinality(Below(x)) \in Nat
    <2>1. Below(x) \in SUBSET S
      OBVIOUS
    <2>2. IsFiniteSet(Below(x)) /\ Cardinality(Below(x)) <= Cardinality(S)
      BY <2>1, FS_Subset
    <2>3. x \in Below(x)
      OBVIOUS
    <2> HIDE DEF Below
    <2>4. Cardinality(Below(x)) \in Nat
      BY <2>2, FS_CardinalityType
    <2>5. Cardinality(Below(x)) # 0
      BY <2>2, <2>3, FS_EmptySet
    <2> QED BY <1>1, <2>2, <2>4, <2>5
  <1>3. ASSUME NEW x \in S, NEW z \in S, x < z
        PROVE  Cardinality(Below(x)) < Cardinality(Below(z))
    <2>1. Below(x) \in SUBSET Below(z)
      <3> SUFFICES ASSUME NEW y \in S, y <= x PROVE y <= z
        OBVIOUS
      <3>1. x \in Nat /\ y \in Nat /\ z \in Nat
        OBVIOUS
      <3> QED BY <1>3, <3>1
    <2>2. z \in Below(z) /\ z \notin Below(x)
      BY <1>3
    <2>3. /\ IsFiniteSet(Below(z)) /\ Cardinality(Below(z)) \in Nat
          /\ Cardinality(Below(x)) \in Nat
      BY <1>2
    <2> HIDE DEF Below
    <2>4. /\ Cardinality(Below(x)) <= Cardinality(Below(z))
          /\ Cardinality(Below(x)) = Cardinality(Below(z)) => Below(x) = Below(z)
      BY <2>1, <2>3, FS_Subset
    <2> QED BY <2>2, <2>3, <2>4
  <1> QED BY <1>1, <1>2, <1>3

\* Sorted lists every element of a finite set of numbers once, in order.
LEMMA SortedLists ==
  ASSUME NEW S, S \subseteq Nat, IsFiniteSet(S)
  PROVE  /\ Sorted(S) \in [1 .. Cardinality(S) -> S]
         /\ Cardinality(S) \in Nat
         /\ \A x \in S : \E k \in 1 .. Cardinality(S) : Sorted(S)[k] = x
         /\ \A a, b \in 1 .. Cardinality(S) : a < b => Sorted(S)[a] < Sorted(S)[b]
         /\ Range(Sorted(S)) = S
  <1> DEFINE n == Cardinality(S)
             rank == [x \in S |-> Cardinality({y \in S : y <= x})]
  <1>1. /\ n \in Nat /\ rank \in [S -> 1 .. n]
        /\ \A x, z \in S : x < z => rank[x] < rank[z]
    BY Ranks
  <1>2. /\ Sorted(S) = [k \in 1 .. n |-> Sorted(S)[k]]
        /\ \A k \in 1 .. n :
             (\E x \in S : rank[x] = k) => Sorted(S)[k] \in S /\ rank[Sorted(S)[k]] = k
    <2>1. Sorted(S) = [k \in 1 .. n |-> Sorted(S)[k]]
      BY DEF Sorted
    <2>2. ASSUME NEW k \in 1 .. n, NEW w \in S, rank[w] = k
          PROVE  Sorted(S)[k] \in S /\ rank[Sorted(S)[k]] = k
      <3>1. Sorted(S)[k] = CHOOSE x \in S : Cardinality({y \in S : y <= x}) = k
        BY DEF Sorted
      <3>2. Cardinality({y \in S : y <= w}) = k
        BY <2>2
      <3>3. Sorted(S)[k] \in S /\ Cardinality({y \in S : y <= Sorted(S)[k]}) = k
        BY <3>1, <3>2
      <3> QED BY <3>3
    <2> QED BY <2>1, <2>2
  <1> HIDE DEF rank
  <1>3. \A x, z \in S : rank[x] = rank[z] => x = z
    <2> SUFFICES ASSUME NEW x \in S, NEW z \in S, rank[x] = rank[z], x # z PROVE FALSE
      OBVIOUS
    <2>1. x < z \/ z < x
      OBVIOUS
    <2>2. rank[x] \in Nat /\ rank[z] \in Nat
      BY <1>1
    <2> QED BY <1>1, <2>1, <2>2
  <1>4. rank \in Injection(S, 1 .. n)
    BY <1>1, <1>3 DEF Injection, IsInjective
  <1>5. IsFiniteSet(1 .. n) /\ Cardinality(1 .. n) = n
    <2>1. 1 \in Int /\ n \in Int
      BY <1>1
    <2>2. IsFiniteSet(1 .. n) /\ Cardinality(1 .. n) = IF 1 > n THEN 0 ELSE n - 1 + 1
      BY <2>1, FS_Interval
    <2> QED BY <1>1, <2>2
  <1>6. rank \in Surjection(S, 1 .. n)
    BY <1>4, <1>5, FS_Injection
  <1>7. ASSUME NEW k \in 1 .. n PROVE Sorted(S)[k] \in S /\ rank[Sorted(S)[k]] = k
    <2>1. \E x \in S : rank[x] = k
      BY <1>6 DEF Surjection
    <2> QED BY <1>2, <2>1
  <1>8. Sorted(S) \in [1 .. n -> S] /\ DOMAIN Sorted(S) = 1 .. n
    BY <1>2, <1>7
  <1>9. ASSUME NEW x \in S PROVE \E k \in 1 .. n : Sorted(S)[k] = x
    <2>1. rank[x] \in 1 .. n
      BY <1>1
    <2>2. Sorted(S)[rank[x]] = x
      BY <1>3, <1>7, <2>1
    <2> QED BY <2>1, <2>2
  <1>10. ASSUME NEW a \in 1 .. n, NEW b \in 1 .. n, a < b PROVE Sorted(S)[a] < Sorted(S)[b]
    <2> DEFINE x == Sorted(S)[a]
               z == Sorted(S)[b]
    <2>1. x \in S /\ z \in S /\ rank[x] = a /\ rank[z] = b
      BY <1>7
    <2> HIDE DEF x, z
    <2>2. x \in Nat /\ z \in Nat /\ a \in Nat /\ b \in Nat /\ x # z
      BY <1>1, <1>10, <2>1
    <2>3. ~(z < x)
      BY <1>1, <1>10, <2>1, <2>2
    <2> QED BY <2>2, <2>3 DEF x, z
  <1>11. Range(Sorted(S)) = S
    BY <1>8, <1>9 DEF Range
  <1> QED BY <1>1, <1>8, <1>9, <1>10, <1>11

-----------------------------------------------------------------------------
\* The records of the BBS.  An instance guid is given out once, an index has at
\* most one ordinary and one moved record, and a reported crash stays true.
RecordTypes ==
  /\ watches \in Watches /\ oldAPI \in BOOLEAN
  /\ desired \in 0 .. Instances /\ guids \in 0 .. MaxGuids
  /\ lrps \subseteq [index : 0 .. Instances - 1, guid : 0 .. MaxGuids,
                     state : {"UNCLAIMED", "CLAIMED", "RUNNING", "CRASHED"},
                     presence : {"ordinary", "evacuating", "suspect"}]
  /\ alive \subseteq 1 .. guids /\ stopping \subseteq 1 .. guids
  /\ events \subseteq [index : 0 .. Instances - 1, guid : 1 .. guids]

RecordsInv ==
  /\ RecordTypes
  /\ \A r \in lrps :
       /\ r.guid <= guids
       /\ r.state = "UNCLAIMED" <=> r.guid = 0
       /\ r.presence # "ordinary" => r.state = "RUNNING"
  /\ \A r, s \in lrps : r.guid = s.guid /\ r.guid # 0 => r = s
  /\ \A r, s \in lrps :
       r.index = s.index /\ (r.presence = "ordinary" <=> s.presence = "ordinary") => r = s
  /\ \A event \in events : \A r \in lrps : r.guid = event.guid => r.state = "CRASHED"

\* The endpoints of the router: one per instance guid.
RouterInv ==
  /\ pool \in Seq([index : 0 .. Instances - 1, guid : 1 .. MaxGuids])
  /\ \A k \in DOMAIN pool : pool[k].guid <= guids
  /\ \A a, b \in DOMAIN pool : pool[a].guid = pool[b].guid => a = b
  /\ turn \in DOMAIN pool \cup {1}

\* The indices at the endpoints in ks whose container answers
IndicesAt(ks) == {pool[k].index : k \in {j \in ks : pool[j].guid \in alive}}

\* A quiet call has asked the endpoints from a first one up to the one before
\* the current turn, round the end of the pool, or all of them.
Progress(asked, next, found) ==
  LET n == Len(pool) IN
  \/ /\ asked >= n
     /\ found = IndicesAt(DOMAIN pool)
  \/ \E first \in DOMAIN pool :
       \/ /\ first + asked <= n
          /\ next = first + asked
          /\ found = IndicesAt(first .. next - 1)
       \/ /\ first + asked > n /\ asked < n
          /\ next = first + asked - n
          /\ found = IndicesAt((first .. n) \cup (1 .. next - 1))

CallInv ==
  /\ i \in 0 .. Requests /\ quiet \in BOOLEAN
  /\ served \subseteq 0 .. Instances - 1
  /\ respondingIndicesHash \subseteq 0 .. Instances
  /\ i < Requests =>
       /\ answer = << >>
       /\ Reachable(pool, alive) \subseteq served
       /\ respondingIndicesHash \subseteq served \cup {Text}
       /\ quiet => /\ served = Reachable(pool, alive)
                   /\ Progress(i, turn, respondingIndicesHash)
  /\ i = Requests =>
       \E found \in SUBSET (served \cup {Text}) :
         /\ answer = Sorted(found)
         /\ quiet => found = served

SpecInv ==
  /\ spec \in {"polls", "read", "destroyed", "matched"} \cup Failures
  /\ running \in BOOLEAN /\ counted \in 0 .. 2 * Instances
  /\ spec = "matched" => \E event \in events : event.guid = target.guid

IInv == RecordsInv /\ RouterInv /\ CallInv /\ SpecInv

-----------------------------------------------------------------------------
RecordSet == [index : 0 .. Instances - 1, guid : 0 .. MaxGuids,
              state : {"UNCLAIMED", "CLAIMED", "RUNNING", "CRASHED"},
              presence : {"ordinary", "evacuating", "suspect"}]

\* Numbers that the provers need to know as such.
LEMMA Numbers ==
  ASSUME RecordTypes
  PROVE  /\ Instances \in Nat /\ Requests \in Nat /\ MaxGuids \in Nat /\ MaxGuids <= Requests
         /\ guids \in Nat /\ guids <= MaxGuids /\ desired \in Nat /\ desired <= Instances
         /\ lrps \subseteq RecordSet
         /\ \A r \in lrps : r.index \in Nat /\ r.guid \in Nat
  <1>1. Instances \in Nat /\ Requests \in Nat /\ MaxGuids \in Nat /\ MaxGuids <= Requests
    BY PollersAssumption
  <1>2. lrps \subseteq RecordSet
    BY DEF RecordTypes, RecordSet
  <1> QED BY <1>1, <1>2 DEF RecordTypes, RecordSet

\* A record makes way for another one of the same index and presence, whose
\* guid is the old one, none, or a new one.
LEMMA Replaced ==
  ASSUME RecordsInv, NEW r \in lrps, NEW s \in RecordSet,
         Becomes(r, s), UNCHANGED <<watches, oldAPI, desired>>, stopping' \subseteq stopping,
         s.index = r.index, s.presence = r.presence, r.state # "CRASHED",
         guids' \in guids .. MaxGuids, s.guid <= guids', alive' \subseteq 1 .. guids',
         s.guid \in {0, r.guid} \/ s.guid > guids,
         s.state = "UNCLAIMED" <=> s.guid = 0,
         s.presence # "ordinary" => s.state = "RUNNING",
         events' = events \/ (events' = events \cup {Placed(r)} /\ r.guid # 0 /\
                              (s.guid = r.guid => s.state = "CRASHED"))
  PROVE  RecordsInv'
  <1>1. /\ RecordTypes /\ lrps \subseteq RecordSet /\ guids \in Nat /\ guids' \in Nat
        /\ guids <= guids' /\ guids' <= MaxGuids /\ MaxGuids \in Nat /\ Instances \in Nat
        /\ \A x \in lrps : x.guid \in Nat /\ x.index \in Nat
        /\ s.guid \in Nat
    BY Numbers DEF RecordsInv, RecordSet
  <1>2. lrps' = (lrps \ {r}) \cup {s}
    BY DEF Becomes
  <1>3. Placed(r).index = r.index /\ Placed(r).guid = r.guid
    BY DEF Placed
  <1>4. RecordTypes'
    <2>1. lrps' \subseteq RecordSet
      BY <1>1, <1>2
    <2>2. r.guid # 0 => Placed(r) \in [index : 0 .. Instances - 1, guid : 1 .. guids']
      <3>1. r \in RecordSet /\ r.guid <= guids
        BY <1>1 DEF RecordsInv
      <3>2. r.index \in 0 .. Instances - 1
        BY <3>1 DEF RecordSet
      <3>3. r.guid # 0 => r.guid \in 1 .. guids'
        BY <1>1, <3>1
      <3> QED BY <3>2, <3>3 DEF Placed
    <2>3. events \subseteq [index : 0 .. Instances - 1, guid : 1 .. guids']
      <3>1. 1 .. guids \subseteq 1 .. guids'
        BY <1>1
      <3> QED BY <3>1 DEF RecordsInv, RecordTypes
    <2>4. events' \subseteq [index : 0 .. Instances - 1, guid : 1 .. guids']
      BY <2>2, <2>3
    <2>5. guids' \in 0 .. MaxGuids
      BY <1>1
    <2>6. stopping' \subseteq 1 .. guids'
      <3>1. 1 .. guids \subseteq 1 .. guids'
        BY <1>1
      <3> QED BY <1>1, <3>1 DEF RecordTypes
    <2> QED BY <1>1, <2>1, <2>4, <2>5, <2>6 DEF RecordTypes, RecordSet
  <1>5. \A x \in lrps' :
          /\ x.guid <= guids'
          /\ x.state = "UNCLAIMED" <=> x.guid = 0
          /\ x.presence # "ordinary" => x.state = "RUNNING"
    BY <1>1, <1>2 DEF RecordsInv
  <1>6. \A x, y \in lrps' : x.guid = y.guid /\ x.guid # 0 => x = y
    BY <1>1, <1>2 DEF RecordsInv
  <1>7. \A x, y \in lrps' :
          x.index = y.index /\ (x.presence = "ordinary" <=> y.presence = "ordinary") => x = y
    BY <1>2 DEF RecordsInv
  <1>8. ASSUME NEW event \in events', NEW x \in lrps', x.guid = event.guid
        PROVE  x.state = "CRASHED"
    <2>1. CASE event \in events
      <3>1. event.guid \in 1 .. guids
        BY <1>1, <2>1 DEF RecordTypes
      <3>2. event.guid # r.guid
        BY <2>1 DEF RecordsInv
      <3>3. CASE x \in lrps
        BY <1>8, <2>1, <3>3 DEF RecordsInv
      <3>4. CASE x = s
        BY <1>1, <1>8, <3>1, <3>2, <3>4
      <3> QED BY <1>2, <3>3, <3>4
    <2>2. CASE events' = events \cup {Placed(r)} /\ event = Placed(r) /\ r.guid # 0
      <3>1. x.guid = r.guid
        BY <1>3, <1>8, <2>2
      <3>2. x = s
        BY <1>2, <2>2, <3>1 DEF RecordsInv
      <3>3. s.guid = r.guid => s.state = "CRASHED"
        <4>1. events' # events
          <5>1. Placed(r) \notin events
            BY <1>3 DEF RecordsInv
          <5> QED BY <2>2, <5>1
        <4> QED BY <4>1
      <3> QED BY <3>1, <3>2, <3>3
    <2> QED BY <2>1, <2>2
  <1> QED BY <1>4, <1>5, <1>6, <1>7, <1>8 DEF RecordsInv

\* Records go, containers die.
LEMMA Fewer ==
  ASSUME RecordsInv, lrps' \subseteq lrps, alive' \subseteq alive,
         UNCHANGED <<watches, oldAPI, guids, events>>, desired' \in 0 .. Instances,
         stopping' \subseteq stopping
  PROVE  RecordsInv'
  <1>1. RecordTypes'
    BY DEF RecordsInv, RecordTypes
  <1> QED BY <1>1 DEF RecordsInv

\* Unclaimed records come, where there is no ordinary one yet.
LEMMA More ==
  ASSUME RecordsInv, NEW X \in SUBSET (0 .. Instances - 1),
         \A x \in X : ~ \E r \in Ordinary : r.index = x,
         lrps' \subseteq lrps \cup {Unclaimed(x) : x \in X},
         UNCHANGED <<watches, oldAPI, guids, events, alive>>, desired' \in 0 .. Instances,
         stopping' \subseteq 1 .. guids
  PROVE  RecordsInv'
  <1> DEFINE new == {Unclaimed(x) : x \in X}
  <1>1. /\ RecordTypes /\ lrps \subseteq RecordSet /\ guids \in Nat /\ Instances \in Nat
        /\ MaxGuids \in Nat
        /\ \A x \in lrps : x.guid \in Nat /\ x.index \in Nat
    BY Numbers DEF RecordsInv
  <1>2. \A u \in new : /\ u \in RecordSet /\ u.guid = 0 /\ u.state = "UNCLAIMED"
                       /\ u.presence = "ordinary" /\ u.index \in X
    BY <1>1 DEF Unclaimed, LRP, RecordSet
  <1>3. \A u, v \in new : u.index = v.index => u = v
    BY DEF Unclaimed, LRP
  <1>4. lrps' \subseteq lrps \cup new
    OBVIOUS
  <1> HIDE DEF new
  <1>5. RecordTypes'
    <2>1. lrps' \subseteq RecordSet
      BY <1>1, <1>2, <1>4
    <2> QED BY <1>1, <2>1 DEF RecordTypes, RecordSet
  <1>6. \A x \in lrps' :
          /\ x.guid <= guids'
          /\ x.state = "UNCLAIMED" <=> x.guid = 0
          /\ x.presence # "ordinary" => x.state = "RUNNING"
    BY <1>1, <1>2, <1>4 DEF RecordsInv
  <1>7. \A x, y \in lrps' : x.guid = y.guid /\ x.guid # 0 => x = y
    BY <1>2, <1>4 DEF RecordsInv
  <1>8. ASSUME NEW x \in lrps', NEW y \in lrps', x.index = y.index,
               x.presence = "ordinary" <=> y.presence = "ordinary"
        PROVE  x = y
    <2>1. CASE x \in lrps /\ y \in lrps
      BY <1>8, <2>1 DEF RecordsInv
    <2>2. CASE x \in new /\ y \in new
      BY <1>3, <1>8, <2>2
    <2>3. CASE x \in lrps /\ y \in new
      BY <1>2, <1>8, <2>3 DEF Ordinary
    <2>4. CASE x \in new /\ y \in lrps
      BY <1>2, <1>8, <2>4 DEF Ordinary
    <2> QED BY <1>4, <2>1, <2>2, <2>3, <2>4
  <1>9. ASSUME NEW event \in events', NEW x \in lrps', x.guid = event.guid
        PROVE  x.state = "CRASHED"
    <2>1. event \in events /\ event.guid \in 1 .. guids
      BY <1>1 DEF RecordTypes
    <2>2. event.guid # 0
      BY <1>1, <2>1
    <2> QED BY <1>2, <1>4, <1>9, <2>1, <2>2 DEF RecordsInv
  <1> QED BY <1>5, <1>6, <1>7, <1>8, <1>9 DEF RecordsInv

\* RecordsInv is inductive.
LEMMA RecordsStep ==
  ASSUME RecordsInv, [Next]_vars
  PROVE  RecordsInv'
  <1>1. /\ RecordTypes /\ lrps \subseteq RecordSet /\ guids \in Nat /\ guids <= MaxGuids
        /\ MaxGuids \in Nat /\ Instances \in Nat /\ desired \in Nat /\ desired <= Instances
        /\ alive \subseteq 1 .. guids /\ stopping \subseteq 1 .. guids /\ desired \in 0 .. Instances
        /\ \A x \in lrps : x.guid \in Nat /\ x.index \in Nat
    BY Numbers DEF RecordsInv, RecordTypes
  <1>2. ASSUME NEW r \in lrps
        PROVE  /\ r \in RecordSet /\ r.guid <= guids /\ r.guid \in 0 .. MaxGuids
               /\ r.index \in 0 .. Instances - 1
               /\ r.state = "UNCLAIMED" <=> r.guid = 0
               /\ r.presence # "ordinary" => r.state = "RUNNING"
    BY <1>1 DEF RecordsInv, RecordSet
  <1>3. ASSUME NEW r \in lrps, Claim(r) PROVE RecordsInv'
    <2> DEFINE s == LRP(r.index, guids + 1, "CLAIMED", "ordinary")
    <2>1. /\ r.state = "UNCLAIMED" /\ guids < MaxGuids /\ guids' = guids + 1 /\ Becomes(r, s)
          /\ UNCHANGED <<watches, oldAPI, desired, stopping, events, alive>>
      BY <1>3 DEF Claim, Outside
    <2>2. s \in RecordSet /\ s.index = r.index /\ s.guid = guids + 1 /\ s.state = "CLAIMED"
          /\ s.presence = "ordinary" /\ r.presence = "ordinary"
      BY <1>1, <1>2, <2>1 DEF LRP, RecordSet
    <2> HIDE DEF s
    <2>3. guids' \in guids .. MaxGuids /\ s.guid <= guids' /\ alive' \subseteq 1 .. guids'
          /\ s.guid > guids /\ s.guid # 0
      BY <1>1, <2>1, <2>2
    <2> QED BY <2>1, <2>2, <2>3, Replaced
  <1>4. ASSUME NEW r \in lrps, Run(r) PROVE RecordsInv'
    <2> DEFINE s == [r EXCEPT !.state = "RUNNING"]
    <2>1. /\ r.state = "CLAIMED" /\ Becomes(r, s) /\ alive' = alive \cup {r.guid}
          /\ UNCHANGED <<watches, oldAPI, desired, stopping, events, guids>>
      BY <1>4 DEF Run, Outside
    <2>2. s \in RecordSet /\ s.index = r.index /\ s.guid = r.guid /\ s.state = "RUNNING"
          /\ s.presence = r.presence
      BY <1>2 DEF RecordSet
    <2> HIDE DEF s
    <2>3. guids' \in guids .. MaxGuids /\ s.guid <= guids' /\ alive' \subseteq 1 .. guids'
          /\ s.guid # 0
      <3>1. r.guid # 0 /\ r.guid <= guids /\ r.guid \in Nat
        BY <1>1, <1>2, <2>1
      <3>2. r.guid \in 1 .. guids
        BY <1>1, <3>1
      <3>3. guids' = guids /\ alive' = alive \cup {r.guid} /\ s.guid = r.guid
        BY <2>1, <2>2
      <3>4. alive \subseteq 1 .. guids /\ guids \in Nat /\ MaxGuids \in Nat /\ guids <= MaxGuids
        BY <1>1
      <3>5. guids' \in guids .. MaxGuids
        BY <3>3, <3>4
      <3>6. s.guid <= guids' /\ s.guid # 0
        BY <3>1, <3>3
      <3>7. alive' \subseteq 1 .. guids'
        BY <3>2, <3>3, <3>4
      <3> QED BY <3>5, <3>6, <3>7
    <2> QED BY <2>1, <2>2, <2>3, Replaced
  <1>5. ASSUME NEW r \in lrps, Dies(r) PROVE RecordsInv'
    BY <1>1, <1>5, Fewer DEF Dies, Outside
  <1>6. ASSUME NEW r \in lrps, CrashReported(r) PROVE RecordsInv'
    <2>1. /\ r.state = "RUNNING" /\ UNCHANGED <<watches, oldAPI, desired, alive, guids>>
          /\ stopping' \subseteq stopping
      BY <1>6 DEF CrashReported, Outside
    <2>2. CASE r \notin Ordinary
      BY <1>1, <1>6, <2>1, <2>2, Fewer DEF CrashReported
    <2>3. CASE r \in Ordinary
      <3>1. events' \in {events, events \cup {Placed(r)}}
        BY <1>6, <2>3 DEF CrashReported
      <3>2. /\ guids' \in guids .. MaxGuids /\ alive' \subseteq 1 .. guids'
            /\ r.guid # 0 /\ r.guid <= guids'
        BY <1>1, <1>2, <2>1
      <3>3. r.presence = "ordinary"
        BY <2>3 DEF Ordinary
      <3>4. CASE Becomes(r, Unclaimed(r.index))
        <4> DEFINE s == Unclaimed(r.index)
        <4>1. s \in RecordSet /\ s.index = r.index /\ s.guid = 0 /\ s.state = "UNCLAIMED"
              /\ s.presence = "ordinary" /\ s.guid <= guids'
          BY <1>1, <1>2, <2>1 DEF Unclaimed, LRP, RecordSet
        <4>2. Becomes(r, s)
          BY <3>4
        <4> HIDE DEF s
        <4> QED BY <2>1, <3>1, <3>2, <3>3, <4>1, <4>2, Replaced
      <3>5. CASE Becomes(r, [r EXCEPT !.state = "CRASHED"])
        <4> DEFINE s == [r EXCEPT !.state = "CRASHED"]
        <4>1. s \in RecordSet /\ s.index = r.index /\ s.guid = r.guid /\ s.state = "CRASHED"
              /\ s.presence = r.presence
          BY <1>2 DEF RecordSet
        <4>2. Becomes(r, s)
          BY <3>5
        <4> HIDE DEF s
        <4> QED BY <2>1, <3>1, <3>2, <3>3, <4>1, <4>2, Replaced
      <3> QED BY <1>6, <2>3, <3>4, <3>5 DEF CrashReported
    <2> QED BY <2>2, <2>3
  <1>7. ASSUME NEW r \in lrps, Stop(r) PROVE RecordsInv'
    BY <1>1, <1>7, Fewer DEF Stop, Outside
  <1>8. ASSUME NEW r \in lrps, Register(r) PROVE RecordsInv'
    BY <1>1, <1>8, Fewer DEF Register, Outside
  <1>9. ASSUME NEW r \in lrps, NEW presence \in {"evacuating", "suspect"}, Move(r, presence)
        PROVE  RecordsInv'
    <2> DEFINE m == [r EXCEPT !.presence = presence]
               u == Unclaimed(r.index)
    <2>1. /\ r.state = "RUNNING" /\ r.presence = "ordinary"
          /\ \A x \in lrps : x.presence # "ordinary" => x.index # r.index
          /\ lrps' = (lrps \ {r}) \cup {m, u}
          /\ UNCHANGED <<watches, oldAPI, desired, stopping, alive, guids, events>>
      BY <1>9 DEF Move, Outside, Ordinary, Moved
    <2>2. m \in RecordSet /\ m.index = r.index /\ m.guid = r.guid /\ m.state = "RUNNING"
          /\ m.presence # "ordinary"
      BY <1>2, <2>1 DEF RecordSet
    <2>3. u \in RecordSet /\ u.index = r.index /\ u.guid = 0 /\ u.state = "UNCLAIMED"
          /\ u.presence = "ordinary"
      BY <1>1, <1>2 DEF Unclaimed, LRP, RecordSet
    <2> HIDE DEF m, u
    <2>4. RecordTypes'
      <3>1. lrps' \subseteq RecordSet
        BY <1>1, <2>1, <2>2, <2>3
      <3> QED BY <1>1, <2>1, <3>1 DEF RecordTypes, RecordSet
    <2>5. \A x \in lrps' : (x \in lrps /\ x # r) \/ x = m \/ x = u
      BY <2>1
    <2>6. \A x \in lrps' :
            /\ x.guid <= guids'
            /\ x.state = "UNCLAIMED" <=> x.guid = 0
            /\ x.presence # "ordinary" => x.state = "RUNNING"
      BY <1>1, <1>2, <2>1, <2>2, <2>3, <2>5
    <2>7. \A x, y \in lrps' : x.guid = y.guid /\ x.guid # 0 => x = y
      BY <2>2, <2>3, <2>5 DEF RecordsInv
    <2>8. \A x, y \in lrps' :
            x.index = y.index /\ (x.presence = "ordinary" <=> y.presence = "ordinary") => x = y
      BY <2>1, <2>2, <2>3, <2>5 DEF RecordsInv
    <2>9. ASSUME NEW event \in events', NEW x \in lrps', x.guid = event.guid
          PROVE  x.state = "CRASHED"
      <3>1. event \in events /\ event.guid \in 1 .. guids
        BY <1>1, <2>1 DEF RecordTypes
      <3>2. event.guid # r.guid /\ event.guid # 0
        BY <1>1, <2>1, <3>1 DEF RecordsInv
      <3> QED BY <2>2, <2>3, <2>5, <2>9, <3>1, <3>2 DEF RecordsInv
    <2> QED BY <2>4, <2>6, <2>7, <2>8, <2>9 DEF RecordsInv
  <1>10. ASSUME NEW k \in DOMAIN pool, Unregister(k) PROVE RecordsInv'
    BY <1>1, <1>10, Fewer DEF Unregister, Outside
  <1>11. ASSUME NEW n \in Counts, UpdateDesiredLRP(n) PROVE RecordsInv'
    <2> DEFINE extra == {r \in lrps : r.index >= n}
               placed == {r \in lrps : r.state \in {"CLAIMED", "RUNNING"}}
               X == {x \in desired .. n - 1 : ~ \E r \in Ordinary : r.index = x}
               late == {r \in placed \ extra : r.index >= desired \/ r.guid \in stopping}
    <2>1. /\ lrps' = (lrps \ (extra \ placed)) \cup {Unclaimed(x) : x \in X}
          /\ stopping' = {r.guid : r \in late} /\ desired' = n
          /\ UNCHANGED <<watches, oldAPI, alive, guids, events>>
      BY <1>11 DEF UpdateDesiredLRP
    <2>2. n \in 0 .. Instances
      BY PollersAssumption
    <2>3. X \in SUBSET (0 .. Instances - 1) /\ \A x \in X : ~ \E r \in Ordinary : r.index = x
      BY <1>1, <2>2
    <2>4. stopping' \subseteq 1 .. guids
      <3> SUFFICES ASSUME NEW r \in late PROVE r.guid \in 1 .. guids
        BY <2>1
      <3>1. r \in lrps /\ r.state # "UNCLAIMED"
        OBVIOUS
      <3>2. r.guid # 0 /\ r.guid <= guids /\ r.guid \in Nat
        BY <1>1, <1>2, <3>1
      <3> QED BY <1>1, <3>2
    <2>5. lrps' \subseteq lrps \cup {Unclaimed(x) : x \in X}
      BY <2>1
    <2> HIDE DEF X
    <2> QED BY <2>1, <2>2, <2>3, <2>4, <2>5, More
  <1>14. ASSUME NEW x \in 0 .. desired - 1, Converge(x) PROVE RecordsInv'
    <2>1. /\ ~ \E r \in Ordinary : r.index = x
          /\ lrps' = lrps \cup {Unclaimed(x)}
          /\ UNCHANGED <<watches, oldAPI, desired, stopping, alive, guids, events>>
      BY <1>14 DEF Converge, Outside
    <2>2. {x} \in SUBSET (0 .. Instances - 1) /\ \A y \in {x} : ~ \E r \in Ordinary : r.index = y
      BY <1>1, <2>1
    <2>3. lrps' \subseteq lrps \cup {Unclaimed(y) : y \in {x}} /\ stopping' \subseteq 1 .. guids
      BY <1>1, <2>1
    <2> QED BY <1>1, <2>1, <2>2, <2>3, More
  <1>12. ASSUME UNCHANGED bbsVars, alive' \subseteq alive PROVE RecordsInv'
    BY <1>1, <1>12, Fewer DEF bbsVars
  <1>13. ASSUME \/ CallHelloWorld \/ HelloWorldRequest \/ HelloWorldRequestFails
                \/ HelloWorldRequestLost
                \/ LRPStatePoller \/ CountActive \/ IndexActive
                \/ ReadTarget \/ DestroyTarget \/ SeeCrash
                \/ \E x \in 0 .. Instances - 1 : LRPInstanceStatePoller(x)
                \/ UNCHANGED vars
         PROVE  RecordsInv'
    BY <1>12, <1>13
    DEF CallHelloWorld, HelloWorldRequest, HelloWorldRequestFails, HelloWorldRequestLost,
        LRPStatePoller, CountActive, IndexActive, ReadTarget, DestroyTarget, SeeCrash,
        LRPInstanceStatePoller, ExpectFails, vars
  <1> QED BY <1>3, <1>4, <1>5, <1>6, <1>7, <1>8, <1>9, <1>10, <1>11, <1>13, <1>14
          DEF Next, Diego, Test

-----------------------------------------------------------------------------
\* What is left of a sequence without its k-th element.
LEMMA Removal ==
  ASSUME NEW T, NEW s \in Seq(T), NEW k \in DOMAIN s
  PROVE  /\ RemoveAt(s, k) \in Seq(T) /\ Len(s) \in Nat /\ DOMAIN s = 1 .. Len(s)
         /\ DOMAIN RemoveAt(s, k) = 1 .. (Len(s) - 1)
         /\ \A j \in 1 .. (Len(s) - 1) :
              RemoveAt(s, k)[j] = IF j < k THEN s[j] ELSE s[j + 1]
  <1>1. /\ Len(s) \in Nat /\ k \in 1 .. Len(s) /\ DOMAIN s = 1 .. Len(s)
        /\ \A j \in 1 .. Len(s) : s[j] \in T
    OBVIOUS
  <1> DEFINE a == SubSeq(s, 1, k - 1)
             b == SubSeq(s, k + 1, Len(s))
  <1>2. a \in Seq(T) /\ Len(a) = k - 1 /\ \A j \in 1 .. (k - 1) : a[j] = s[j]
    BY <1>1
  <1>3. b \in Seq(T) /\ Len(b) = Len(s) - k /\ \A j \in 1 .. (Len(s) - k) : b[j] = s[k + j]
    <2>1. k + 1 \in Int /\ Len(s) \in Int /\ \A j \in (k + 1) .. Len(s) : s[j] \in T
      BY <1>1
    <2>2. /\ b \in Seq(T) /\ Len(b) = IF k + 1 <= Len(s) THEN Len(s) - (k + 1) + 1 ELSE 0
          /\ \A j \in 1 .. (Len(s) - (k + 1) + 1) : b[j] = s[k + 1 + j - 1]
      BY <2>1, SubSeqProperties
    <2>3. Len(b) = Len(s) - k /\ Len(s) - (k + 1) + 1 = Len(s) - k
      BY <1>1, <2>2
    <2>4. \A j \in 1 .. (Len(s) - k) : k + 1 + j - 1 = k + j
      BY <1>1
    <2> QED BY <2>2, <2>3, <2>4
  <1> HIDE DEF a, b
  <1>4. RemoveAt(s, k) = a \o b
    BY DEF RemoveAt, a, b
  <1>5. /\ a \o b \in Seq(T) /\ Len(a \o b) = Len(s) - 1
        /\ \A j \in 1 .. (Len(s) - 1) : (a \o b)[j] = IF j <= k - 1 THEN a[j] ELSE b[j - (k - 1)]
    <2>1. /\ a \o b \in Seq(T) /\ Len(a \o b) = Len(a) + Len(b)
          /\ \A j \in 1 .. Len(a) + Len(b) :
               (a \o b)[j] = IF j <= Len(a) THEN a[j] ELSE b[j - Len(a)]
      BY <1>2, <1>3, ConcatProperties
    <2>2. Len(a) + Len(b) = Len(s) - 1 /\ Len(a) = k - 1
      BY <1>1, <1>2, <1>3
    <2> QED BY <2>1, <2>2
  <1>6. ASSUME NEW j \in 1 .. (Len(s) - 1)
        PROVE  (a \o b)[j] = IF j < k THEN s[j] ELSE s[j + 1]
    <2>1. CASE j < k
      BY <1>1, <1>2, <1>5, <2>1
    <2>2. CASE ~(j < k)
      <3>1. (a \o b)[j] = b[j - (k - 1)] /\ j - (k - 1) \in 1 .. (Len(s) - k)
        BY <1>1, <1>5, <2>2
      <3>2. b[j - (k - 1)] = s[k + (j - (k - 1))]
        BY <1>3, <3>1
      <3>3. k + (j - (k - 1)) = j + 1
        BY <1>1
      <3> QED BY <2>2, <3>1, <3>2, <3>3
    <2> QED BY <2>1, <2>2
  <1>7. DOMAIN (a \o b) = 1 .. (Len(s) - 1)
    BY <1>5
  <1> QED BY <1>1, <1>4, <1>5, <1>6, <1>7

\* The turn goes round the pool.
LEMMA Turns ==
  ASSUME RouterInv, pool # << >>
  PROVE  /\ Len(pool) \in Nat \ {0} /\ DOMAIN pool = 1 .. Len(pool) /\ turn \in 1 .. Len(pool)
         /\ NextTurn = IF turn = Len(pool) THEN 1 ELSE turn + 1
  <1>1. Len(pool) \in Nat \ {0} /\ DOMAIN pool = 1 .. Len(pool) /\ turn \in 1 .. Len(pool)
    BY DEF RouterInv
  <1> DEFINE n == Len(pool)
  <1>2. NextTurn = (turn % n) + 1
    BY DEF NextTurn
  <1> HIDE DEF n
  <1>3. n \in Nat \ {0} /\ turn \in 1 .. n
    BY <1>1 DEF n
  <1>4. turn % n = IF turn = n THEN 0 ELSE turn
    BY <1>3
  <1>5. NextTurn = IF turn = n THEN 1 ELSE turn + 1
    BY <1>2, <1>3, <1>4
  <1> QED BY <1>1, <1>5 DEF n

\* RouterInv is inductive.
LEMMA RouterStep ==
  ASSUME RecordsInv, RouterInv, [Next]_vars
  PROVE  RouterInv'
  <1> DEFINE Endpoint == [index : 0 .. Instances - 1, guid : 1 .. MaxGuids]
  <1>1. /\ guids \in Nat /\ MaxGuids \in Nat /\ guids <= MaxGuids /\ pool \in Seq(Endpoint)
        /\ Len(pool) \in Nat /\ DOMAIN pool = 1 .. Len(pool)
        /\ turn \in DOMAIN pool \cup {1}
        /\ \A k \in DOMAIN pool : pool[k] \in Endpoint /\ pool[k].guid \in Nat /\ pool[k].guid <= guids
        /\ \A a, b \in DOMAIN pool : pool[a].guid = pool[b].guid => a = b
    <2>1. guids \in Nat /\ MaxGuids \in Nat /\ guids <= MaxGuids
      BY Numbers DEF RecordsInv
    <2>2. pool \in Seq(Endpoint) /\ turn \in DOMAIN pool \cup {1}
      BY DEF RouterInv
    <2>3. Len(pool) \in Nat /\ DOMAIN pool = 1 .. Len(pool)
      BY <2>2
    <2>4. \A k \in DOMAIN pool : pool[k] \in Endpoint
      BY <2>2, <2>3, ElementOfSeq
    <2>5. \A k \in DOMAIN pool : pool[k].guid \in Nat
      BY <2>1, <2>4
    <2> QED BY <2>1, <2>2, <2>3, <2>4, <2>5 DEF RouterInv
  <1>2. ASSUME guids' \in Nat, guids <= guids', UNCHANGED pool, turn' \in DOMAIN pool \cup {1}
        PROVE  RouterInv'
    BY <1>1, <1>2 DEF RouterInv
  <1>3. ASSUME NEW r \in lrps, Claim(r) PROVE RouterInv'
    BY <1>1, <1>2, <1>3 DEF Claim
  <1>4. ASSUME NEW r \in lrps,
               \/ Run(r) \/ Dies(r) \/ CrashReported(r) \/ Stop(r)
               \/ \E presence \in {"evacuating", "suspect"} : Move(r, presence)
        PROVE  RouterInv'
    BY <1>1, <1>2, <1>4 DEF Run, Dies, CrashReported, Stop, Move
  <1>9. ASSUME NEW x \in 0 .. desired - 1, Converge(x) PROVE RouterInv'
    BY <1>1, <1>2, <1>9 DEF Converge
  <1>5. ASSUME NEW r \in lrps, Register(r) PROVE RouterInv'
    <2>1. /\ r.state = "RUNNING" /\ \A k \in DOMAIN pool : pool[k].guid # r.guid
          /\ pool' = Append(pool, Placed(r)) /\ turn' \in DOMAIN pool' /\ guids' = guids
      BY <1>5 DEF Register
    <2>2. Placed(r).guid = r.guid /\ r.guid \in Nat /\ r.guid <= guids /\ Placed(r) \in Endpoint
      <3>1. r.index \in 0 .. Instances - 1 /\ r.guid \in 0 .. MaxGuids /\ r.guid <= guids /\ r.guid # 0
        BY <2>1 DEF RecordsInv, RecordTypes
      <3>2. r.guid \in 1 .. MaxGuids
        BY <1>1, <3>1
      <3> QED BY <3>1, <3>2 DEF Placed
    <2> DEFINE e == Placed(r)
               n == Len(pool)
    <2> HIDE DEF e, Endpoint
    <2>3. /\ Append(pool, e) \in Seq(Endpoint) /\ DOMAIN Append(pool, e) = 1 .. (n + 1)
          /\ \A k \in 1 .. n : Append(pool, e)[k] = pool[k]
          /\ Append(pool, e)[n + 1] = e
      BY <1>1, <2>2 DEF e
    <2>4. ASSUME NEW a \in 1 .. (n + 1), NEW b \in 1 .. (n + 1), pool'[a].guid = pool'[b].guid
          PROVE  a = b
      <3>1. /\ a \in 1 .. n \/ a = n + 1
            /\ b \in 1 .. n \/ b = n + 1
        BY <1>1
      <3>2. /\ a \in 1 .. n => pool'[a] = pool[a] /\ pool[a].guid # r.guid
            /\ b \in 1 .. n => pool'[b] = pool[b] /\ pool[b].guid # r.guid
            /\ a = n + 1 => pool'[a].guid = r.guid
            /\ b = n + 1 => pool'[b].guid = r.guid
        BY <1>1, <2>1, <2>2, <2>3 DEF e
      <3> QED BY <1>1, <2>4, <3>1, <3>2
    <2>5. \A k \in 1 .. (n + 1) : pool'[k].guid <= guids'
      <3> SUFFICES ASSUME NEW k \in 1 .. (n + 1) PROVE pool'[k].guid <= guids
        BY <2>1
      <3>1. k \in 1 .. n \/ k = n + 1
        BY <1>1
      <3> QED BY <1>1, <2>1, <2>2, <2>3, <3>1 DEF e
    <2> QED BY <2>1, <2>3, <2>4, <2>5 DEF RouterInv, e, Endpoint
  <1>6. ASSUME NEW k \in DOMAIN pool, Unregister(k) PROVE RouterInv'
    <2>1. pool' = RemoveAt(pool, k) /\ turn' \in DOMAIN pool' \cup {1} /\ guids' = guids
      BY <1>6 DEF Unregister
    <2> HIDE DEF Endpoint
    <2> DEFINE n == Len(pool)
               at(j) == IF j < k THEN j ELSE j + 1
    <2>2. /\ pool' \in Seq(Endpoint) /\ DOMAIN pool' = 1 .. (n - 1)
          /\ \A j \in 1 .. (n - 1) : pool'[j] = IF j < k THEN pool[j] ELSE pool[j + 1]
      BY <1>1, <2>1, Removal
    <2>3. \A j \in 1 .. (n - 1) : at(j) \in DOMAIN pool /\ pool'[j] = pool[at(j)]
      BY <1>1, <2>2
    <2>4. \A a, b \in 1 .. (n - 1) : at(a) = at(b) => a = b
      BY <1>1
    <2> HIDE DEF at
    <2>5. \A a, b \in DOMAIN pool' : pool'[a].guid = pool'[b].guid => a = b
      BY <1>1, <2>2, <2>3, <2>4, SMTT(30)
    <2>6. \A j \in DOMAIN pool' : pool'[j].guid <= guids'
      BY <1>1, <2>1, <2>2, <2>3
    <2> QED BY <2>1, <2>2, <2>5, <2>6 DEF RouterInv, Endpoint
  <1>7. ASSUME HelloWorldRequest \/ HelloWorldRequestFails \/ HelloWorldRequestLost
        PROVE  RouterInv'
    <2>1. UNCHANGED <<guids, pool>> /\ turn' \in {turn, NextTurn}
      BY <1>7 DEF HelloWorldRequest, HelloWorldRequestFails, HelloWorldRequestLost, bbsVars
    <2>2. NextTurn \in DOMAIN pool \cup {1}
      <3>1. CASE pool = << >>
        BY <1>1, <3>1 DEF NextTurn
      <3>2. CASE pool # << >>
        BY <3>2, Turns
      <3> QED BY <3>1, <3>2
    <2> QED BY <1>1, <1>2, <2>1, <2>2
  <1>8. ASSUME \/ CallHelloWorld
               \/ LRPStatePoller \/ CountActive \/ IndexActive
               \/ ReadTarget \/ DestroyTarget \/ SeeCrash
               \/ \E n \in Counts : UpdateDesiredLRP(n)
               \/ \E x \in 0 .. Instances - 1 : LRPInstanceStatePoller(x)
               \/ UNCHANGED vars
        PROVE  RouterInv'
    <2>1. UNCHANGED <<guids, pool, turn>>
      BY <1>8
      DEF CallHelloWorld, LRPStatePoller, CountActive, UpdateDesiredLRP, IndexActive, ReadTarget,
          DestroyTarget, SeeCrash, LRPInstanceStatePoller, ExpectFails, bbsVars, routerVars, vars
    <2> QED BY <1>1, <1>2, <2>1
  <1> QED BY <1>3, <1>4, <1>5, <1>6, <1>7, <1>8, <1>9 DEF Next, Diego, Test

-----------------------------------------------------------------------------
\* Nothing sorted is the empty list.
LEMMA SortedEmpty == Sorted({}) = << >>
  <1>1. IsFiniteSet({}) /\ Cardinality({}) = 0 /\ {} \subseteq Nat
    BY FS_EmptySet
  <1>2. Sorted({}) \in [1 .. 0 -> {}]
    BY <1>1, SortedLists
  <1> QED BY <1>2

\* The router never has more endpoints than a call makes requests.
LEMMA PoolSize ==
  ASSUME RecordsInv, RouterInv
  PROVE  Len(pool) \in Nat /\ Len(pool) <= guids /\ Len(pool) <= Requests
  <1> DEFINE n == Len(pool)
             f == [k \in 1 .. n |-> pool[k].guid]
  <1>1. /\ guids \in Nat /\ guids <= MaxGuids /\ MaxGuids \in Nat /\ MaxGuids <= Requests
        /\ Requests \in Nat
    BY Numbers DEF RecordsInv
  <1>2. n \in Nat /\ DOMAIN pool = 1 .. n
    BY DEF RouterInv
  <1>3. \A k \in 1 .. n : pool[k].guid \in 1 .. guids
    <2> SUFFICES ASSUME NEW k \in 1 .. n PROVE pool[k].guid \in 1 .. guids
      OBVIOUS
    <2>1. pool[k] \in [index : 0 .. Instances - 1, guid : 1 .. MaxGuids]
      BY ElementOfSeq DEF RouterInv
    <2>2. pool[k].guid \in 1 .. MaxGuids /\ pool[k].guid <= guids
      BY <1>2, <2>1 DEF RouterInv
    <2> QED BY <1>1, <2>2
  <1>4. f \in Injection(1 .. n, 1 .. guids)
    BY <1>2, <1>3 DEF RouterInv, Injection, IsInjective
  <1>5. /\ IsFiniteSet(1 .. guids)
        /\ Cardinality(1 .. guids) = IF 1 > guids THEN 0 ELSE guids - 1 + 1
        /\ Cardinality(1 .. n) = IF 1 > n THEN 0 ELSE n - 1 + 1
    <2>1. 1 \in Int /\ guids \in Int /\ n \in Int
      BY <1>1, <1>2
    <2> QED BY <2>1, FS_Interval
  <1> HIDE DEF f, n
  <1>6. Cardinality(1 .. n) <= Cardinality(1 .. guids)
    BY <1>4, <1>5, FS_Injection
  <1>7. n <= guids
    BY <1>1, <1>2, <1>5, <1>6
  <1> QED BY <1>1, <1>2, <1>7 DEF n

\* The indices at endpoints of a pool are indices of instances.
LEMMA ReachableType ==
  ASSUME NEW p \in Seq([index : 0 .. Instances - 1, guid : 1 .. MaxGuids]), NEW A
  PROVE  Reachable(p, A) \subseteq 0 .. Instances - 1
  <1>1. ASSUME NEW k \in DOMAIN p PROVE p[k].index \in 0 .. Instances - 1
    <2>1. k \in 1 .. Len(p)
      OBVIOUS
    <2>2. p[k] \in [index : 0 .. Instances - 1, guid : 1 .. MaxGuids]
      BY <2>1, ElementOfSeq
    <2> QED BY <2>2
  <1> QED BY <1>1 DEF Reachable

\* The reachable indices are those at all endpoints; the indices at some
\* endpoints and at others add up.
LEMMA Indices ==
  ASSUME RouterInv
  PROVE  /\ Reachable(pool, alive) = IndicesAt(DOMAIN pool)
         /\ Reachable(pool, alive) \subseteq 0 .. Instances - 1
         /\ IndicesAt({}) = {}
         /\ \A A, B : IndicesAt(A \cup B) = IndicesAt(A) \cup IndicesAt(B)
  <1>1. Reachable(pool, alive) \subseteq 0 .. Instances - 1
    BY ReachableType DEF RouterInv
  <1> QED BY <1>1 DEF Reachable, IndicesAt

\* What a response brings into the map
Recorded(response) == IF Ignored(response) THEN {} ELSE {response.body}

\* A response of the router or of an instance brings in the index at the endpoint
\* whose turn it is, if that one answers.
LEMMA RecordedIsTurn ==
  ASSUME RouterInv, NEW response \in Responses
  PROVE  /\ response.body # Text =>
              /\ pool = << >> => Recorded(response) = {}
              /\ pool # << >> => Recorded(response) = IndicesAt({turn})
         /\ Recorded(response) \subseteq Reachable(pool, alive) \cup {Text}
  <1>1. CASE pool = << >>
    <2>1. response.status = 404
      BY <1>1 DEF Responses
    <2> QED BY <1>1, <2>1 DEF Recorded, Ignored
  <1>2. CASE pool # << >>
    <2>1. turn \in DOMAIN pool
      BY <1>2, Turns
    <2>2. CASE pool[turn].guid \in alive
      <3>1. response.status = 200 /\ response.body = pool[turn].index
        BY <1>2, <2>2 DEF Responses
      <3>2. Recorded(response) = {pool[turn].index}
        BY <3>1 DEF Recorded, Ignored
      <3> QED BY <1>2, <2>1, <2>2, <3>2 DEF IndicesAt, Reachable
    <2>3. CASE pool[turn].guid \notin alive
      <3>1. \/ response.status = 502 /\ response.body = RouterPage
            \/ response.body = Text
        BY <1>2, <2>3 DEF Responses
      <3>2. IndicesAt({turn}) = {}
        BY <2>3 DEF IndicesAt
      <3>3. CASE response.status = 502
        <4>1. Recorded(response) = {}
          BY <3>3 DEF Recorded, Ignored
        <4> QED BY <1>2, <3>2, <4>1
      <3>4. CASE response.body = Text
        <4>1. Recorded(response) \subseteq {Text}
          BY <3>4 DEF Recorded
        <4> QED BY <3>4, <4>1
      <3> QED BY <3>1, <3>3, <3>4
    <2> QED BY <2>2, <2>3
  <1> QED BY <1>1, <1>2

\* A request takes a quiet call one endpoint further.
LEMMA ProgressStep ==
  ASSUME RouterInv, NEW k \in Nat, NEW h, Progress(k, turn, h), NEW hit,
         pool = << >> => hit = {}, pool # << >> => hit = IndicesAt({turn})
  PROVE  Progress(k + 1, NextTurn, h \cup hit)
  <1> DEFINE n == Len(pool)
  <1>1. CASE pool = << >>
    <2>1. hit = {} /\ n = 0 /\ DOMAIN pool = {}
      BY <1>1
    <2>2. h = IndicesAt(DOMAIN pool)
      BY <2>1 DEF Progress
    <2> QED BY <2>1, <2>2 DEF Progress
  <1>2. CASE pool # << >>
    <2>1. /\ n \in Nat \ {0} /\ DOMAIN pool = 1 .. n /\ turn \in 1 .. n
          /\ NextTurn = IF turn = n THEN 1 ELSE turn + 1
          /\ hit = IndicesAt({turn})
      BY <1>2, Turns
    <2> HIDE DEF n
    <2>2. CASE k >= n /\ h = IndicesAt(DOMAIN pool)
      <3>1. h \cup hit = IndicesAt(DOMAIN pool \cup {turn})
        BY <2>1, <2>2, Indices
      <3>2. DOMAIN pool \cup {turn} = DOMAIN pool /\ k + 1 >= n
        BY <2>1, <2>2
      <3> QED BY <3>1, <3>2 DEF Progress, n
    <2>3. ASSUME NEW first \in 1 .. n, first + k <= n, turn = first + k,
                 h = IndicesAt(first .. turn - 1)
          PROVE  Progress(k + 1, NextTurn, h \cup hit)
      <3>1. h \cup hit = IndicesAt((first .. turn - 1) \cup {turn})
        BY <2>1, <2>3, Indices
      <3>2. (first .. turn - 1) \cup {turn} = first .. turn
        BY <2>1, <2>3
      <3>3. CASE turn < n
        <4>1. NextTurn = turn + 1 /\ NextTurn = first + (k + 1) /\ first + (k + 1) <= n
              /\ NextTurn - 1 = turn
          BY <2>1, <2>3, <3>3
        <4>2. h \cup hit = IndicesAt(first .. NextTurn - 1)
          BY <3>1, <3>2, <4>1
        <4> QED BY <2>1, <4>1, <4>2 DEF Progress, n
      <3>4. CASE turn = n /\ first = 1
        <4>1. k + 1 >= n /\ first .. turn = DOMAIN pool
          BY <2>1, <2>3, <3>4
        <4> QED BY <3>1, <3>2, <4>1 DEF Progress, n
      <3>5. CASE turn = n /\ first # 1
        <4>1. /\ NextTurn = 1 /\ NextTurn = first + (k + 1) - n
              /\ first + (k + 1) > n /\ k + 1 < n
              /\ (first .. n) \cup (1 .. NextTurn - 1) = first .. n
          BY <2>1, <2>3, <3>5
        <4>2. h \cup hit = IndicesAt((first .. n) \cup (1 .. NextTurn - 1))
          BY <3>1, <3>2, <3>5, <4>1
        <4> QED BY <2>1, <4>1, <4>2 DEF Progress, n
      <3> QED BY <2>1, <3>3, <3>4, <3>5
    <2>4. ASSUME NEW first \in 1 .. n, first + k > n, k < n, turn = first + k - n,
                 h = IndicesAt((first .. n) \cup (1 .. turn - 1))
          PROVE  Progress(k + 1, NextTurn, h \cup hit)
      <3>1. h \cup hit = IndicesAt(((first .. n) \cup (1 .. turn - 1)) \cup {turn})
        BY <2>1, <2>4, Indices
      <3>2. ((first .. n) \cup (1 .. turn - 1)) \cup {turn} = (first .. n) \cup (1 .. turn)
        BY <2>1, <2>4
      <3>3. CASE k + 1 = n
        <4>1. k + 1 >= n /\ (first .. n) \cup (1 .. turn) = DOMAIN pool
          BY <2>1, <2>4, <3>3
        <4> QED BY <3>1, <3>2, <4>1 DEF Progress, n
      <3>4. CASE k + 1 # n
        <4>1. /\ NextTurn = turn + 1 /\ NextTurn = first + (k + 1) - n
              /\ first + (k + 1) > n /\ k + 1 < n /\ NextTurn - 1 = turn
          BY <2>1, <2>4, <3>4
        <4>2. h \cup hit = IndicesAt((first .. n) \cup (1 .. NextTurn - 1))
          BY <3>1, <3>2, <4>1
        <4> QED BY <2>1, <4>1, <4>2 DEF Progress, n
      <3> QED BY <3>3, <3>4
    <2> QED BY <2>1, <2>2, <2>3, <2>4 DEF Progress, n
  <1> QED BY <1>1, <1>2

\* Between two calls, when the last result has been looked at.
LEMMA Forgotten ==
  ASSUME Forget, ~(i' < Requests), i' \in 0 .. Requests
  PROVE  CallInv'
  <1>1. answer' = << >> /\ served' = {} /\ quiet' = TRUE /\ respondingIndicesHash' = {}
    BY DEF Forget
  <1>2. answer' = Sorted({}) /\ {} \in SUBSET (served' \cup {Text'}) /\ {} = served'
    BY <1>1, SortedEmpty
  <1>3. quiet' \in BOOLEAN /\ served' \subseteq 0 .. Instances - 1
        /\ respondingIndicesHash' \subseteq 0 .. Instances
    BY <1>1
  <1> QED BY <1>2, <1>3 DEF CallInv

\* What happens around a call, or between two calls.
LEMMA WindowStep ==
  ASSUME CallInv, RouterInv', UNCHANGED i, Window, pool' = pool => turn' = turn
  PROVE  CallInv'
  <1>1. UNCHANGED i /\ Requests \in Nat /\ i \in 0 .. Requests
    BY PollersAssumption DEF CallInv
  <1>2. Reachable(pool', alive') \subseteq 0 .. Instances - 1
    BY ReachableType DEF RouterInv
  <1>3. CASE i < Requests
    <2>1. /\ served' = served \cup Reachable(pool', alive')
          /\ quiet' = (quiet /\ pool' = pool /\ alive' = alive)
          /\ answer' = answer /\ respondingIndicesHash' = respondingIndicesHash
      BY <1>3 DEF Window
    <2>2. /\ served \subseteq 0 .. Instances - 1 /\ respondingIndicesHash \subseteq 0 .. Instances
          /\ answer = << >> /\ respondingIndicesHash \subseteq served \cup {Text}
          /\ Reachable(pool, alive) \subseteq served
          /\ quiet \in BOOLEAN
      BY <1>3 DEF CallInv
    <2>3. served' \subseteq 0 .. Instances - 1 /\ respondingIndicesHash \subseteq served' \cup {Text}
          /\ Reachable(pool', alive') \subseteq served'
      BY <1>2, <2>1, <2>2
    <2>4. quiet' \in BOOLEAN
      BY <2>1
    <2>5. ASSUME quiet'
          PROVE  served' = Reachable(pool', alive') /\ Progress(i, turn, respondingIndicesHash)'
      <3>1. quiet /\ pool' = pool /\ alive' = alive /\ turn' = turn
        BY <2>1, <2>5
      <3>2. served = Reachable(pool, alive) /\ Progress(i, turn, respondingIndicesHash)
        BY <1>3, <3>1 DEF CallInv
      <3>3. served' = Reachable(pool', alive')
        BY <2>1, <3>1, <3>2
      <3>4. Progress(i, turn, respondingIndicesHash)'
        BY <1>1, <2>1, <3>1, <3>2 DEF Progress, IndicesAt
      <3> QED BY <3>3, <3>4
    <2>6. i' < Requests /\ i' # Requests /\ i' \in 0 .. Requests
      BY <1>1, <1>3
    <2>7. answer' = << >> /\ respondingIndicesHash' \subseteq 0 .. Instances
          /\ respondingIndicesHash' \subseteq served' \cup {Text'}
      BY <1>1, <2>1, <2>2, <2>3 DEF Text
    <2> QED BY <2>3, <2>4, <2>5, <2>6, <2>7 DEF CallInv
  <1>4. CASE ~(i < Requests)
    <2>1. Forget /\ ~(i' < Requests) /\ i' \in 0 .. Requests
      BY <1>1, <1>4 DEF Window
    <2> QED BY <2>1, Forgotten
  <1> QED BY <1>3, <1>4

\* A list that is looked at again, or not at all, stays what it is.
LEMMA LookStep ==
  ASSUME CallInv, i = Requests, UNCHANGED <<i, respondingIndicesHash, answer, served, quiet>>
  PROVE  CallInv'
  <1>1. ~(i < Requests) /\ Requests \in Nat
    BY PollersAssumption
  <1> QED BY <1>1 DEF CallInv

\* CallInv is inductive.
LEMMA CallStep ==
  ASSUME RecordsInv, RouterInv, RouterInv', CallInv, [Next]_vars
  PROVE  CallInv'
  <1>1. /\ Requests \in Nat /\ i \in 0 .. Requests
        /\ respondingIndicesHash \subseteq 0 .. Instances /\ served \subseteq 0 .. Instances - 1
        /\ quiet \in BOOLEAN /\ Instances \in Nat /\ Text = Instances /\ Text' = Text
    BY PollersAssumption DEF CallInv, Text
  <1>2. CASE Diego
    <2>1. Window /\ UNCHANGED i
      BY <1>2
      DEF Diego, Claim, Run, Dies, CrashReported, Stop, Converge, Register, Move, Unregister, Outside
    <2>2. pool' = pool => turn' = turn
      <3>1. ASSUME NEW r \in lrps, Register(r) PROVE pool' # pool
        <4>1. pool' = Append(pool, Placed(r))
          BY <3>1 DEF Register
        <4>2. Len(Append(pool, Placed(r))) = Len(pool) + 1 /\ Len(pool) \in Nat
          BY DEF RouterInv
        <4> QED BY <4>1, <4>2
      <3>2. ASSUME NEW k \in DOMAIN pool, Unregister(k) PROVE pool' # pool
        <4>1. pool' = RemoveAt(pool, k)
          BY <3>2 DEF Unregister
        <4>2. /\ DOMAIN RemoveAt(pool, k) = 1 .. (Len(pool) - 1) /\ DOMAIN pool = 1 .. Len(pool)
              /\ Len(pool) \in Nat
          BY Removal DEF RouterInv
        <4>3. Len(pool) \in DOMAIN pool /\ Len(pool) \notin DOMAIN pool'
          BY <4>1, <4>2
        <4> QED BY <4>3
      <3>3. ASSUME NEW r \in lrps,
                   \/ Claim(r) \/ Run(r) \/ Dies(r) \/ CrashReported(r) \/ Stop(r)
                   \/ \E presence \in {"evacuating", "suspect"} : Move(r, presence)
            PROVE  turn' = turn
        BY <3>3 DEF Claim, Run, Dies, CrashReported, Stop, Move
      <3>4. ASSUME NEW x \in 0 .. desired - 1, Converge(x) PROVE turn' = turn
        BY <3>4 DEF Converge
      <3> QED BY <1>2, <3>1, <3>2, <3>3, <3>4 DEF Diego
    <2> QED BY <2>1, <2>2, WindowStep
  <1>3. ASSUME NEW n \in Counts, UpdateDesiredLRP(n) PROVE CallInv'
    <2>1. i = Requests /\ UNCHANGED i /\ Forget
      BY <1>3 DEF UpdateDesiredLRP, Idle
    <2>2. ~(i' < Requests) /\ i' \in 0 .. Requests
      BY <1>1, <2>1
    <2> QED BY <2>1, <2>2, Forgotten
  <1>4. CASE CallHelloWorld
    <2>1. /\ i' = 0 /\ respondingIndicesHash' = {} /\ answer' = << >>
          /\ served' = Reachable(pool, alive) /\ quiet' = TRUE /\ UNCHANGED <<pool, alive, turn>>
      BY <1>4 DEF CallHelloWorld, routerVars
    <2>2. served' = Reachable(pool', alive') /\ served' \subseteq 0 .. Instances - 1
      BY <2>1, Indices
    <2>3. Len(pool) \in Nat /\ Len(pool) <= Requests
      BY PoolSize
    <2>4. Progress(0, turn, {})
      <3>1. CASE pool = << >>
        <4>1. Len(pool) = 0 /\ DOMAIN pool = {}
          BY <3>1
        <4> QED BY <4>1, Indices DEF Progress
      <3>2. CASE pool # << >>
        <4>1. turn \in DOMAIN pool /\ turn \in Nat /\ turn + 0 <= Len(pool) /\ turn = turn + 0
              /\ turn .. turn - 1 = {}
          BY <3>2, Turns
        <4>2. {} = IndicesAt(turn .. turn - 1)
          BY <4>1, Indices
        <4> QED BY <4>1, <4>2 DEF Progress
      <3> QED BY <3>1, <3>2
    <2>5. Progress(i, turn, respondingIndicesHash)'
      BY <2>1, <2>4 DEF Progress, IndicesAt
    <2>6. CASE Requests # 0
      <3>1. i' \in 0 .. Requests /\ i' # Requests /\ quiet' \in BOOLEAN
        BY <1>1, <2>1, <2>6
      <3> QED BY <2>1, <2>2, <2>5, <3>1 DEF CallInv
    <2>7. CASE Requests = 0
      <3>1. Len(pool) = 0
        BY <1>1, <2>3, <2>7
      <3>2. DOMAIN pool = {}
        BY <3>1 DEF RouterInv
      <3>3. served' = {}
        BY <2>1, <3>2, Indices
      <3>4. i' \in 0 .. Requests /\ ~(i' < Requests) /\ quiet' \in BOOLEAN
        BY <1>1, <2>1, <2>7
      <3>5. answer' = Sorted({}) /\ {} \in SUBSET (served' \cup {Text'}) /\ {} = served'
        BY <2>1, <3>3, SortedEmpty
      <3> QED BY <2>1, <2>2, <3>4, <3>5 DEF CallInv
    <2> QED BY <2>6, <2>7
  <1>5. CASE HelloWorldRequest
    <2>1. PICK response \in Responses :
            /\ Ignored(response) => response.body = RouterPage
            /\ respondingIndicesHash' = respondingIndicesHash \cup Recorded(response)
            /\ quiet' = (quiet /\ response.body # Text)
      BY <1>5 DEF HelloWorldRequest, Recorded
    <2> DEFINE hit == Recorded(response)
    <2>2. /\ i < Requests /\ turn' = NextTurn /\ i' = i + 1
          /\ answer' = IF i + 1 = Requests THEN Sorted(respondingIndicesHash') ELSE << >>
          /\ UNCHANGED <<alive, pool, served>>
      BY <1>5 DEF HelloWorldRequest, LoopGoesOn
    <2>3. /\ hit \subseteq Reachable(pool, alive) \cup {Text}
          /\ response.body # Text =>
               /\ pool = << >> => hit = {}
               /\ pool # << >> => hit = IndicesAt({turn})
      BY <2>1, RecordedIsTurn
    <2>4. respondingIndicesHash' = respondingIndicesHash \cup hit
      BY <2>1
    <2> HIDE DEF hit
    <2>5. /\ Reachable(pool, alive) \subseteq served
          /\ respondingIndicesHash \subseteq served \cup {Text}
          /\ quiet => served = Reachable(pool, alive) /\ Progress(i, turn, respondingIndicesHash)
      BY <2>2 DEF CallInv
    <2>6. respondingIndicesHash' \subseteq served' \cup {Text'} /\ served' \subseteq 0 .. Instances - 1
      BY <1>1, <2>2, <2>3, <2>4, <2>5
    <2>7. respondingIndicesHash' \subseteq 0 .. Instances
      <3>1. 0 .. Instances - 1 \subseteq 0 .. Instances /\ Text \in 0 .. Instances
        BY <1>1
      <3> QED BY <1>1, <2>6, <3>1
    <2>8. quiet' \in BOOLEAN /\ (quiet' => quiet /\ response.body # Text)
      BY <2>1
    <2>9. quiet' => Progress(i + 1, NextTurn, respondingIndicesHash \cup hit)
      <3>1. i \in Nat
        BY <1>1
      <3> QED BY <2>3, <2>5, <2>8, <3>1, ProgressStep
    <2>10. quiet' => Progress(i, turn, respondingIndicesHash)'
      BY <2>2, <2>4, <2>9 DEF Progress, IndicesAt
    <2>11. CASE i + 1 = Requests
      <3>1. /\ i' = Requests /\ ~(i' < Requests) /\ i' \in 0 .. Requests
            /\ answer' = Sorted(respondingIndicesHash')
        BY <1>1, <2>2, <2>11
      <3>2. quiet' => respondingIndicesHash' = served'
        <4>1. Len(pool) \in Nat /\ Len(pool) <= i + 1 /\ DOMAIN pool = 1 .. Len(pool) /\ i \in Nat
          BY <1>1, <2>11, PoolSize DEF RouterInv
        <4>2. \A first \in DOMAIN pool : ~(first + (i + 1) <= Len(pool)) /\ ~(i + 1 < Len(pool))
          BY <4>1
        <4>3. quiet' => respondingIndicesHash \cup hit = IndicesAt(DOMAIN pool)
          BY <2>9, <4>2 DEF Progress
        <4> QED BY <2>2, <2>4, <2>5, <2>8, <4>3, Indices
      <3> QED BY <2>6, <2>7, <2>8, <3>1, <3>2 DEF CallInv
    <2>12. CASE i + 1 # Requests
      <3>1. i' < Requests /\ i' # Requests /\ i' \in 0 .. Requests /\ answer' = << >>
        BY <1>1, <2>2, <2>12
      <3>2. Reachable(pool', alive') = Reachable(pool, alive)
        BY <2>2
      <3>3. /\ Reachable(pool', alive') \subseteq served'
            /\ quiet' => served' = Reachable(pool', alive')
        BY <2>2, <2>5, <2>8, <3>2
      <3> QED BY <2>6, <2>7, <2>8, <2>10, <3>1, <3>3 DEF CallInv
    <2> QED BY <2>11, <2>12
  <1>9. CASE HelloWorldRequestFails
    <2>1. i' = Requests /\ Forget
      BY <1>9 DEF HelloWorldRequestFails
    <2>2. ~(i' < Requests) /\ i' \in 0 .. Requests
      BY <1>1, <2>1
    <2> QED BY <2>1, <2>2, Forgotten
  <1>6. CASE HelloWorldRequestLost
    <2>1. /\ i < Requests /\ quiet' = FALSE /\ i' = i + 1
          /\ answer' = IF i + 1 = Requests THEN Sorted(respondingIndicesHash') ELSE << >>
          /\ UNCHANGED <<alive, pool, served, respondingIndicesHash>>
      BY <1>6 DEF HelloWorldRequestLost, LoopGoesOn
    <2>2. /\ Reachable(pool, alive) \subseteq served
          /\ respondingIndicesHash \subseteq served \cup {Text}
      BY <2>1 DEF CallInv
    <2>3. /\ respondingIndicesHash' \subseteq served' \cup {Text'} /\ served' \subseteq 0 .. Instances - 1
          /\ respondingIndicesHash' \subseteq 0 .. Instances /\ quiet' \in BOOLEAN /\ ~quiet'
          /\ Reachable(pool', alive') \subseteq served'
      BY <1>1, <2>1, <2>2
    <2>4. CASE i + 1 = Requests
      <3>1. /\ i' = Requests /\ ~(i' < Requests) /\ i' \in 0 .. Requests
            /\ answer' = Sorted(respondingIndicesHash')
        BY <1>1, <2>1, <2>4
      <3> QED BY <2>3, <3>1 DEF CallInv
    <2>5. CASE i + 1 # Requests
      <3>1. i' < Requests /\ i' # Requests /\ i' \in 0 .. Requests /\ answer' = << >>
        BY <1>1, <2>1, <2>5
      <3> QED BY <2>3, <3>1 DEF CallInv
    <2> QED BY <2>4, <2>5
  <1>7. CASE \/ LRPStatePoller \/ CountActive \/ IndexActive
             \/ ReadTarget \/ DestroyTarget \/ SeeCrash
             \/ \E x \in 0 .. Instances - 1 : LRPInstanceStatePoller(x)
    <2>1. i = Requests /\ UNCHANGED <<helloVars, windowVars>>
      BY <1>7
      DEF LRPStatePoller, CountActive, IndexActive, ReadTarget, DestroyTarget, SeeCrash,
          LRPInstanceStatePoller, ExpectFails, Looks, Idle, vars
    <2> QED BY <2>1, LookStep DEF helloVars, windowVars
  <1>8. CASE UNCHANGED vars
    <2>1. UNCHANGED <<pool, turn, alive, i, respondingIndicesHash, answer, served, quiet>>
      BY <1>8 DEF vars, routerVars, helloVars, windowVars
    <2>2. Progress(i, turn, respondingIndicesHash)' <=> Progress(i, turn, respondingIndicesHash)
      BY <2>1 DEF Progress, IndicesAt
    <2> QED BY <2>1, <2>2 DEF CallInv
  <1> QED BY <1>2, <1>3, <1>4, <1>5, <1>6, <1>7, <1>8, <1>9 DEF Next, Test

-----------------------------------------------------------------------------
\* At most two records per index: ActiveActualLRPs returns at most that many.
LEMMA RecordCount ==
  ASSUME RecordsInv
  PROVE  /\ IsFiniteSet(ActiveActualLRPs)
         /\ Cardinality(ActiveActualLRPs) \in 0 .. 2 * Instances
  <1> DEFINE S == ActiveActualLRPs
             I == 0 .. (Instances - 1)
             T == I \X (0 .. 1)
             f == [r \in S |-> <<r.index, IF r.presence = "ordinary" THEN 0 ELSE 1>>]
  <1>1. Instances \in Nat /\ \A r \in S : r \in lrps /\ r.index \in I
    BY Numbers DEF RecordsInv, RecordSet, ActiveActualLRPs
  <1>2. f \in [S -> T]
    BY <1>1
  <1>3. ASSUME NEW r \in S, NEW s \in S, f[r] = f[s] PROVE r = s
    <2>1. /\ r.index = s.index
          /\ (IF r.presence = "ordinary" THEN 0 ELSE 1) = (IF s.presence = "ordinary" THEN 0 ELSE 1)
      BY <1>3
    <2>2. r.presence = "ordinary" <=> s.presence = "ordinary"
      BY <2>1
    <2> QED BY <1>1, <2>1, <2>2 DEF RecordsInv
  <1>4. f \in Injection(S, T)
    BY <1>2, <1>3 DEF Injection, IsInjective
  <1>5. /\ IsFiniteSet(I) /\ Cardinality(I) = IF 0 > Instances - 1 THEN 0 ELSE Instances - 1 - 0 + 1
        /\ IsFiniteSet(0 .. 1) /\ Cardinality(0 .. 1) = IF 0 > 1 THEN 0 ELSE 1 - 0 + 1
    <2>1. 0 \in Int /\ 1 \in Int /\ Instances - 1 \in Int
      BY <1>1
    <2> QED BY <2>1, FS_Interval
  <1>6. Cardinality(I) = Instances /\ Cardinality(0 .. 1) = 2
    BY <1>1, <1>5
  <1>7. IsFiniteSet(T) /\ Cardinality(T) = Cardinality(I) * Cardinality(0 .. 1)
    BY <1>5, FS_Product
  <1>8. Cardinality(T) = 2 * Instances
    BY <1>1, <1>6, <1>7
  <1> HIDE DEF S, T, f
  <1>9. IsFiniteSet(S) /\ Cardinality(S) <= Cardinality(T)
    BY <1>4, <1>7, FS_Injection
  <1>10. Cardinality(S) \in Nat
    BY <1>9, FS_CardinalityType
  <1> QED BY <1>1, <1>8, <1>9, <1>10 DEF S

\* SpecInv is inductive: events are collected, and only SeeCrash says "matched".
LEMMA SpecStep ==
  ASSUME RecordsInv, SpecInv, [Next]_vars
  PROVE  SpecInv'
  <1>1. Instances \in Nat
    BY PollersAssumption
  <1>2. ASSUME UNCHANGED <<spec, target, running, counted>>, events \subseteq events'
        PROVE  SpecInv'
    BY <1>2 DEF SpecInv
  <1>3. ASSUME NEW why \in Failures, spec' = why, running' \in BOOLEAN,
               counted' \in 0 .. 2 * Instances
        PROVE  SpecInv'
    <2>1. why # "matched"
      BY DEF Failures
    <2> QED BY <1>3, <2>1 DEF SpecInv
  <1>4. running \in BOOLEAN /\ counted \in 0 .. 2 * Instances
    BY DEF SpecInv
  <1>5. CASE Diego
    <2>1. UNCHANGED <<spec, target, running, counted>>
      BY <1>5
      DEF Diego, Claim, Run, Dies, CrashReported, Stop, Converge, Register, Move, Unregister,
          Outside, lookVars
    <2>2. events \subseteq events'
      BY <1>5
      DEF Diego, Claim, Run, Dies, CrashReported, Stop, Converge, Register, Move, Unregister
    <2> QED BY <1>2, <2>1, <2>2
  <1>6. ASSUME NEW n \in Counts, UpdateDesiredLRP(n) PROVE SpecInv'
    <2>1. running' = FALSE /\ counted' = 0 /\ UNCHANGED <<events, target, spec>>
      BY <1>6 DEF UpdateDesiredLRP
    <2>2. running' \in BOOLEAN
      BY <2>1
    <2>3. counted' \in 0 .. 2 * Instances
      BY <1>1, <2>1
    <2> QED BY <2>1, <2>2, <2>3 DEF SpecInv
  <1>7. CASE \/ CallHelloWorld \/ HelloWorldRequest \/ HelloWorldRequestLost \/ UNCHANGED vars
    <2>1. UNCHANGED <<spec, target, running, counted, events>>
      BY <1>7
      DEF CallHelloWorld, HelloWorldRequest, HelloWorldRequestLost, vars, bbsVars, lookVars
    <2> QED BY <1>2, <2>1
  <1>8. CASE HelloWorldRequestFails
    <2>1. spec' = "not the router" /\ UNCHANGED <<running, counted>>
      BY <1>8 DEF HelloWorldRequestFails, lookVars
    <2>2. "not the router" \in Failures
      BY DEF Failures
    <2> QED BY <1>3, <1>4, <2>1, <2>2
  <1>9. ASSUME NEW why \in Failures, ExpectFails(why) PROVE SpecInv'
    <2>1. spec' = why /\ UNCHANGED <<running, counted>>
      BY <1>9 DEF ExpectFails, lookVars
    <2> QED BY <1>3, <1>4, <2>1
  <1>10. Failures = {"bbs error", "not one record", "out of range", "no container",
                     "not the router"}
    BY DEF Failures
  <1> HIDE DEF Failures
  <1>11. CASE LRPStatePoller
    <2>1. CASE ExpectFails("bbs error")
      BY <1>9, <1>10, <2>1
    <2>2. CASE ~ExpectFails("bbs error")
      <3>1. running' \in BOOLEAN /\ UNCHANGED <<events, counted, target, spec>>
        BY <1>11, <2>2 DEF LRPStatePoller, bbsVars
      <3> QED BY <3>1 DEF SpecInv
    <2> QED BY <2>1, <2>2
  <1>12. ASSUME NEW x \in 0 .. Instances - 1, LRPInstanceStatePoller(x) PROVE SpecInv'
    <2>1. ExpectFails("bbs error") \/ ExpectFails("not one record") \/ UNCHANGED vars
      BY <1>12 DEF LRPInstanceStatePoller
    <2> QED BY <1>7, <1>9, <1>10, <2>1
  <1>13. CASE CountActive
    <2>1. CASE ExpectFails("bbs error")
      BY <1>9, <1>10, <2>1
    <2>2. CASE ~ExpectFails("bbs error")
      <3>1. /\ counted' = Cardinality(ActiveActualLRPs)
            /\ UNCHANGED <<events, running, target, spec>>
        BY <1>13, <2>2 DEF CountActive, bbsVars
      <3>2. counted' \in 0 .. 2 * Instances
        BY <3>1, RecordCount
      <3> QED BY <3>1, <3>2 DEF SpecInv
    <2> QED BY <2>1, <2>2
  <1>14. CASE IndexActive
    <2>1. ExpectFails("bbs error") \/ ExpectFails("out of range") \/ UNCHANGED vars
      BY <1>14 DEF IndexActive
    <2> QED BY <1>7, <1>9, <1>10, <2>1
  <1>15. CASE ReadTarget
    <2>1. CASE ExpectFails("bbs error") \/ ExpectFails("not one record")
      BY <1>9, <1>10, <2>1
    <2>2. CASE ~(ExpectFails("bbs error") \/ ExpectFails("not one record"))
      <3>1. spec' = "read" /\ UNCHANGED <<running, counted>>
        BY <1>15, <2>2 DEF ReadTarget
      <3> QED BY <3>1 DEF SpecInv
    <2> QED BY <2>1, <2>2
  <1>16. CASE DestroyTarget
    <2>1. CASE ExpectFails("no container")
      BY <1>9, <1>10, <2>1
    <2>2. CASE ~ExpectFails("no container")
      <3>1. spec' = "destroyed" /\ UNCHANGED <<running, counted>>
        BY <1>16, <2>2 DEF DestroyTarget, lookVars
      <3> QED BY <3>1 DEF SpecInv
    <2> QED BY <2>1, <2>2
  <1>17. CASE SeeCrash
    <2>1. /\ spec' = "matched" /\ UNCHANGED <<running, counted, target, events>>
          /\ \E event \in events : event.guid = target.guid
      BY <1>17 DEF SeeCrash, Match, bbsVars, lookVars
    <2> QED BY <2>1 DEF SpecInv
  <1> QED BY <1>5, <1>6, <1>7, <1>8, <1>11, <1>12, <1>13, <1>14, <1>15, <1>16, <1>17
          DEF Next, Test

-----------------------------------------------------------------------------
\* The first state satisfies IInv.
LEMMA Initially == Init => IInv
  <1> SUFFICES ASSUME Init PROVE IInv
    OBVIOUS
  <1>1. Instances \in Nat /\ Requests \in Nat /\ MaxGuids \in Nat
    BY PollersAssumption
  <1>2. RecordsInv
    <2>1. watches \in Watches /\ oldAPI \in BOOLEAN
      BY DEF Init
    <2>2. lrps = {} /\ desired = 0 /\ guids = 0 /\ events = {} /\ alive = {} /\ stopping = {}
      BY DEF Init
    <2>3. RecordTypes
      BY <1>1, <2>1, <2>2 DEF RecordTypes
    <2> QED BY <2>2, <2>3 DEF RecordsInv
  <1>3. RouterInv
    <2>1. pool = << >> /\ turn = 1
      BY DEF Init
    <2> QED BY <2>1 DEF RouterInv
  <1>4. CallInv
    <2>1. /\ i = Requests /\ quiet = TRUE /\ respondingIndicesHash = {} /\ served = {}
          /\ answer = << >>
      BY DEF Init
    <2>2. answer = Sorted({}) /\ {} \in SUBSET (served \cup {Text})
      BY <2>1, SortedEmpty
    <2> QED BY <1>1, <2>1, <2>2 DEF CallInv
  <1>5. SpecInv
    <2>1. running = FALSE /\ counted = 0 /\ spec = "polls"
      BY DEF Init
    <2>2. counted \in 0 .. 2 * Instances
      BY <1>1, <2>1
    <2> QED BY <2>1, <2>2 DEF SpecInv
  <1> QED BY <1>2, <1>3, <1>4, <1>5 DEF IInv

\* IInv holds of every reachable state, for every number of instances and
\* requests.
LEMMA Invariance == Spec => []IInv
  <1>1. IInv /\ [Next]_vars => IInv'
    <2> SUFFICES ASSUME IInv, [Next]_vars PROVE IInv'
      OBVIOUS
    <2>1. RecordsInv' /\ RouterInv'
      BY RecordsStep, RouterStep DEF IInv
    <2>2. CallInv' /\ SpecInv'
      BY <2>1, CallStep, SpecStep DEF IInv
    <2> QED BY <2>1, <2>2 DEF IInv
  <1> QED BY <1>1, Initially, PTL DEF Spec

\* A set of indices is a finite set of numbers, as Sorted needs it.
LEMMA IndexSets ==
  ASSUME NEW S, S \subseteq 0 .. Instances
  PROVE  S \subseteq Nat /\ IsFiniteSet(S)
  <1>1. Instances \in Nat
    BY PollersAssumption
  <1>2. 0 \in Int /\ Instances \in Int
    BY <1>1
  <1>3. IsFiniteSet(0 .. Instances)
    BY <1>2, FS_Interval
  <1>4. IsFiniteSet(S)
    BY <1>3, FS_Subset
  <1> QED BY <1>1, <1>4

\* What a call has returned lists a part of what was served, once each and in
\* order.
LEMMA Answers ==
  ASSUME CallInv
  PROVE  /\ Range(answer) \subseteq served \cup {Text}
         /\ \A a, b \in DOMAIN answer : a < b => answer[a] < answer[b]
         /\ i = Requests /\ quiet => answer = Sorted(served)
  <1>1. Requests \in Nat /\ i \in 0 .. Requests /\ served \cup {Text} \subseteq 0 .. Instances
    BY PollersAssumption DEF CallInv, Text
  <1>2. CASE i < Requests
    <2>1. answer = << >>
      BY <1>2 DEF CallInv
    <2>2. DOMAIN answer = {}
      BY <2>1
    <2>3. Range(answer) = {}
      BY <2>2 DEF Range
    <2>4. i # Requests
      BY <1>1, <1>2
    <2> QED BY <2>2, <2>3, <2>4
  <1>3. CASE i = Requests
    <2>1. PICK found \in SUBSET (served \cup {Text}) : answer = Sorted(found) /\ (quiet => found = served)
      BY <1>3 DEF CallInv
    <2>2. found \subseteq Nat /\ IsFiniteSet(found)
      BY <1>1, <2>1, IndexSets
    <2>3. /\ answer \in [1 .. Cardinality(found) -> found]
          /\ Range(answer) = found
          /\ \A a, b \in 1 .. Cardinality(found) : a < b => answer[a] < answer[b]
      BY <2>1, <2>2, SortedLists
    <2>4. DOMAIN answer = 1 .. Cardinality(found)
      BY <2>3
    <2> QED BY <2>1, <2>3, <2>4
  <1> QED BY <1>1, <1>2, <1>3

-----------------------------------------------------------------------------
\* The types, for any one-digit indices and any number of requests.
\* HelloWorldInstancePoller returns a list that is sorted and has nothing twice.
THEOREM TypeCorrect == Spec => []TypeOK
  <1>1. IInv => TypeOK
    <2> SUFFICES ASSUME IInv PROVE TypeOK
      OBVIOUS
    <2>1. /\ watches \in Watches
          /\ lrps \subseteq [index : 0 .. Instances - 1, guid : 0 .. MaxGuids,
                     state : {"UNCLAIMED", "CLAIMED", "RUNNING", "CRASHED"},
                     presence : {"ordinary", "evacuating", "suspect"}]
          /\ desired \in 0 .. Instances /\ oldAPI \in BOOLEAN /\ guids \in 0 .. MaxGuids
          /\ alive \subseteq 1 .. guids /\ stopping \subseteq 1 .. guids
          /\ events \subseteq [index : 0 .. Instances - 1, guid : 1 .. guids]
      BY DEF IInv, RecordsInv, RecordTypes
    <2>2. \A r, s \in lrps : r.index = s.index /\ r.presence = s.presence => r = s
      BY DEF IInv, RecordsInv
    <2>3. Len(pool) <= guids /\ turn \in DOMAIN pool \cup {1}
      BY PoolSize DEF IInv, RouterInv
    <2>4. /\ quiet \in BOOLEAN /\ i \in 0 .. Requests
          /\ respondingIndicesHash \subseteq 0 .. Instances
          /\ served \subseteq 0 .. Instances - 1
      BY DEF IInv, CallInv
    <2>5. /\ Range(answer) \subseteq served \cup {Text}
          /\ \A a, b \in DOMAIN answer : a < b => answer[a] < answer[b]
      BY Answers DEF IInv
    <2>6. respondingIndicesHash \cup Range(answer) \subseteq 0 .. Instances
      <3>1. served \cup {Text} \subseteq 0 .. Instances
        BY <2>4, PollersAssumption DEF Text
      <3> QED BY <2>4, <2>5, <3>1
    <2>7. /\ running \in BOOLEAN /\ counted \in 0 .. 2 * Instances
          /\ spec \in {"polls", "read", "destroyed", "matched"} \cup Failures
      BY DEF IInv, SpecInv
    <2> QED BY <2>1, <2>2, <2>3, <2>4, <2>5, <2>6, <2>7 DEF TypeOK
  <1> QED BY <1>1, Invariance, PTL

\* HelloWorldInstancePoller never reports an index that could not respond at
\* some time during the call.
THEOREM SoundPolls == Spec => []PollIsSound
  <1>1. IInv => PollIsSound
    BY Answers DEF IInv, PollIsSound
  <1> QED BY <1>1, Invariance, PTL

\* A call during which nothing changes and no request gets lost reports exactly
\* the instances that respond: as many requests as the router has endpoints
\* ask every one of them, wherever the turn is when the call begins.
THEOREM ExactPolls == Spec => []PollIsExact
  <1>1. IInv => PollIsExact
    BY Answers DEF IInv, PollIsExact
  <1> QED BY <1>1, Invariance, PTL

\* The crash event that ends a spec's wait is that of the instance it destroyed.
THEOREM OwnCrash == Spec => []CrashSeenIsItsOwn
  <1>1. IInv => CrashSeenIsItsOwn
    BY DEF IInv, RecordsInv, SpecInv, CrashSeenIsItsOwn
  <1> QED BY <1>1, Invariance, PTL
=============================================================================
