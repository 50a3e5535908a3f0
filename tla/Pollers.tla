------------------------------ MODULE Pollers ------------------------------
(***************************************************************************)
(* helpers/pollers.go, route_helpers.go and match_bbs_event.go: how a spec *)
(* watches an LRP whose instances are placed, crash, and are moved between *)
(* cells while it looks.  The spec calls a poller again and again          *)
(* (Eventually, Consistently) or once (Expect); an Expect that fails       *)
(* inside a poller ends the spec, it is not tried again.  The BBS, the     *)
(* cells, the route emitter and the router are external, modelled as the   *)
(* pollers see them.                                                       *)
(***************************************************************************)
EXTENDS Naturals, FiniteSets, Sequences, SequencesExt

CONSTANTS Watches,    \* what specs poll: "routes", "records" or both
          Instances,  \* the largest number of instances a spec desires
          Counts,     \* the numbers of instances that specs ask for
          Requests,   \* requests of one HelloWorldInstancePoller call; 20 in the code
          MaxGuids    \* bound on the instances that are placed in a behaviour

\* The indices have one digit, so that strings and numbers have the same order,
\* and the router never has more endpoints than a call makes requests.
ASSUME PollersAssumption ==
  /\ {Requests, MaxGuids} \subseteq Nat
  /\ Watches \subseteq {"routes", "records"}
  /\ Instances \in 0 .. 10 /\ Counts \subseteq 0 .. Instances
  /\ MaxGuids <= Requests

VARIABLES
  watches,    \* what this spec polls
  lrps,       \* the ActualLRP records of the spec's process guid
  desired,    \* instances of its DesiredLRP
  oldAPI,     \* a BBS that answers 404 to ActualLRPs and knows groups only
  stopping,   \* guids that the cells have been asked to stop, although their
              \* index is desired again
  guids,      \* instance guids used so far
  alive,      \* guids whose container answers
  pool,       \* the router's endpoints of the host
  turn,       \* the endpoint whose turn it is
  events,     \* the crash events that getEvents has collected
  i,          \* HelloWorldInstancePoller: the loop variable; Requests: returned
  respondingIndicesHash,  \* its map
  answer,     \* what it returned, for Eventually's matcher to look at
  served,     \* the indices that could respond at some time during the call
  quiet,      \* did nothing change during the call, no request get lost, and
              \* nobody answer but the router and the instances?
  running,    \* the last LRPStatePoller call of the spec returned RUNNING
  counted,    \* the length of the list its last ActiveActualLRPs call returned
  target,     \* the instance the spec destroys, then waits for its crash event
  spec        \* "polls", "read", "destroyed", "matched", or which of the Failures ended it

bbsVars == <<watches, lrps, desired, oldAPI, stopping, guids, events>>
routerVars == <<pool, turn>>
helloVars == <<i, respondingIndicesHash>>
windowVars == <<answer, served, quiet>>
lookVars == <<running, counted, target>>
vars == <<bbsVars, alive, routerVars, helloVars, windowVars, lookVars, spec>>

\* The Expects, and the index expression, that can end the spec
Failures == {"bbs error", "not one record", "out of range", "no container", "not the router"}

LRP(x, g, s, p) == [index |-> x, guid |-> g, state |-> s, presence |-> p]
Unclaimed(x) == LRP(x, 0, "UNCLAIMED", "ordinary")
Ordinary == {r \in lrps : r.presence = "ordinary"}
Moved == lrps \ Ordinary
Placed(r) == [index |-> r.index, guid |-> r.guid]

Init ==
  /\ lrps = {} /\ desired = 0 /\ guids = 0 /\ events = {}
  /\ watches \in Watches
  /\ oldAPI \in (IF watches = "routes" THEN {FALSE} ELSE BOOLEAN)
  /\ alive = {} /\ stopping = {}
  /\ pool = << >> /\ turn = 1
  /\ i = Requests /\ respondingIndicesHash = {} /\ answer = << >>
  /\ served = {} /\ quiet = TRUE
  /\ running = FALSE /\ counted = 0 /\ target = [index |-> 0, guid |-> 0]
  /\ spec = "polls"

\* The spec's goroutine is between two calls of pollers.
Idle == spec \notin Failures /\ i = Requests
Looks == Idle /\ watches = "records"

-----------------------------------------------------------------------------
\* BBS, cells, route emitter

\* The indices that the router can reach
Reachable(endpoints, answering) ==
  {endpoints[k].index : k \in {j \in DOMAIN endpoints : endpoints[j].guid \in answering}}

Forget == respondingIndicesHash' = {} /\ answer' = << >> /\ served' = {} /\ quiet' = TRUE

\* What happens during a HelloWorldInstancePoller call is recorded; what a call
\* has returned is looked at before anything else happens, and its map is gone.
\* After a spec has failed nobody polls any more.
Window ==
  /\ spec \notin Failures
  /\ IF i < Requests
       THEN /\ served' = served \cup Reachable(pool', alive')
            /\ quiet' = (quiet /\ pool' = pool /\ alive' = alive)
            /\ UNCHANGED <<respondingIndicesHash, answer>>
       ELSE Forget

Becomes(r, s) == lrps' = (lrps \ {r}) \cup {s}

Outside == <<watches, desired, oldAPI, i, lookVars, spec>>

Claim(r) ==
  /\ r.state = "UNCLAIMED" /\ guids < MaxGuids
  /\ guids' = guids + 1
  /\ Becomes(r, LRP(r.index, guids', "CLAIMED", "ordinary"))
  /\ UNCHANGED <<Outside, stopping, events, alive, pool, turn>>
  /\ Window

Run(r) ==
  /\ r.state = "CLAIMED"
  /\ Becomes(r, [r EXCEPT !.state = "RUNNING"])
  /\ alive' = alive \cup {r.guid}
  /\ UNCHANGED <<Outside, stopping, guids, events, pool, turn>>
  /\ Window

Dies(r) ==
  /\ r.state = "RUNNING" /\ r.guid \in alive
  /\ alive' = alive \ {r.guid}
  /\ UNCHANGED <<Outside, stopping, lrps, guids, events, pool, turn>>
  /\ Window

\* The cell reports a dead container: an ordinary instance is restarted, or
\* has crashed too often (to the router that is one which is not placed
\* again); one that was moved just goes.
CrashReported(r) ==
  /\ r.state = "RUNNING" /\ r.guid \notin alive
  /\ IF r \in Ordinary
       THEN /\ events' = IF watches = "records" THEN events \cup {Placed(r)} ELSE events
            /\ \/ Becomes(r, Unclaimed(r.index))
               \/ watches = "records" /\ Becomes(r, [r EXCEPT !.state = "CRASHED"])
       ELSE lrps' = lrps \ {r} /\ UNCHANGED events
  /\ stopping' = stopping \ {r.guid}
  /\ UNCHANGED <<Outside, guids, alive, pool, turn>>
  /\ Window

\* Its cell evacuates, or is no longer seen: a second record for the index.
\* A BBS with the old API does not know suspect instances; to the router they
\* are like evacuating ones.
Move(r, presence) ==
  /\ r \in Ordinary /\ r.state = "RUNNING"
  /\ r.index < desired /\ ~ \E m \in Moved : m.index = r.index
  /\ presence = "suspect" => watches = "records" /\ ~oldAPI
  /\ lrps' = (lrps \ {r}) \cup {[r EXCEPT !.presence = presence], Unclaimed(r.index)}
  /\ UNCHANGED <<Outside, stopping, guids, events, alive, pool, turn>>
  /\ Window

\* A moved instance goes with its cell, or when its replacement runs; one that
\* is desired no more goes, and so does one that was to be stopped, although its
\* index may be desired again by now.
Stop(r) ==
  /\ r \in Moved \/ r.index >= desired \/ r.guid \in stopping
  /\ lrps' = lrps \ {r}
  /\ alive' = alive \ {r.guid} /\ stopping' = stopping \ {r.guid}
  /\ UNCHANGED <<Outside, guids, events, pool, turn>>
  /\ Window

\* The BBS's convergence finds a desired index without an ordinary instance.
Converge(x) ==
  /\ ~ \E r \in Ordinary : r.index = x
  /\ lrps' = lrps \cup {Unclaimed(x)}
  /\ UNCHANGED <<Outside, stopping, guids, events, alive, pool, turn>>
  /\ Window

\* The route emitter, some time later; LRPs of other specs have no routes.
Register(r) ==
  /\ watches = "routes" /\ r.state = "RUNNING"
  /\ \A k \in DOMAIN pool : pool[k].guid # r.guid
  /\ pool' = Append(pool, Placed(r))
  /\ turn' \in DOMAIN pool'
  /\ UNCHANGED <<Outside, stopping, lrps, guids, events, alive>>
  /\ Window

Unregister(k) ==
  /\ \A r \in lrps : r.state = "RUNNING" => r.guid # pool[k].guid
  /\ pool' = RemoveAt(pool, k)
  /\ turn' \in DOMAIN pool' \cup {1}
  /\ UNCHANGED <<Outside, stopping, lrps, guids, events, alive>>
  /\ Window

Diego ==
  \/ \E r \in lrps :
       \/ Claim(r) \/ Run(r) \/ Dies(r) \/ CrashReported(r) \/ Stop(r) \/ Register(r)
       \/ \E presence \in {"evacuating", "suspect"} : Move(r, presence)
  \/ \E x \in 0 .. desired - 1 : Converge(x)
  \/ \E k \in DOMAIN pool : Unregister(k)

-----------------------------------------------------------------------------
\* The spec

\* An Expect inside a poller fails: Eventually does not call it again.
ExpectFails(why) ==
  /\ spec' = why
  /\ UNCHANGED <<bbsVars, alive, routerVars, helloVars, windowVars, lookVars>>

\* DesireLRP and UpdateDesiredLRP, at any time.  The BBS answers when it has
\* made the records of new indices that have none, deleted the unplaced extra
\* ones, and asked the cells to stop the placed ones.
UpdateDesiredLRP(n) ==
  /\ Idle /\ n # desired
  /\ desired' = n
  /\ LET extra == {r \in lrps : r.index >= n}
         placed == {r \in lrps : r.state \in {"CLAIMED", "RUNNING"}}
         new == {x \in desired .. n - 1 : ~ \E r \in Ordinary : r.index = x}
         late == {r \in placed \ extra : r.index >= desired \/ r.guid \in stopping}
     IN  /\ lrps' = (lrps \ (extra \ placed)) \cup {Unclaimed(x) : x \in new}
         /\ stopping' = {r.guid : r \in late}
  /\ running' = FALSE /\ counted' = 0
  /\ Forget
  /\ UNCHANGED <<watches, oldAPI, guids, events, alive, routerVars, i, target, spec>>

\* Mutant: the map is made once, outside the function that is polled.
CallHelloWorldKeepingMap ==
  /\ Idle /\ watches = "routes"
  /\ i' = 0
  /\ answer' = << >> /\ served' = Reachable(pool, alive) /\ quiet' = TRUE
  /\ UNCHANGED <<bbsVars, alive, routerVars, respondingIndicesHash, lookVars, spec>>

\* HelloWorldInstancePoller is called.
CallHelloWorld ==
  /\ Idle /\ watches = "routes"
  /\ i' = 0
  /\ respondingIndicesHash' = {}
  /\ answer' = << >> /\ served' = Reachable(pool, alive) /\ quiet' = TRUE
  /\ UNCHANGED <<bbsVars, alive, routerVars, lookVars, spec>>

\* Bodies: an index, anything else (which sorts after the digits), or one of the
\* router's own error pages
Text == Instances
RouterPage == Instances + 1

\* ResponseBodyAndStatusCodeFromHost: the router asks the endpoint whose turn it
\* is.  The port of a container that is gone may have been taken by something
\* else, which answers as it likes.
Responses ==
  IF pool = << >> THEN [status : {404}, body : {RouterPage}]
  ELSE IF pool[turn].guid \in alive THEN [status : {200}, body : {pool[turn].index}]
  ELSE [status : {502}, body : {RouterPage}] \cup [status : {200, 404, 502}, body : {Text}]

\* status == http.StatusNotFound, status == http.StatusBadGateway
Ignored(response) == response.status \in {404, 502}

NextTurn == IF pool = << >> THEN turn ELSE (turn % Len(pool)) + 1

\* Mutant: the order is the wrong way round.
SortedDescending(indices) ==
  [k \in 1 .. Cardinality(indices) |->
     CHOOSE x \in indices : Cardinality({y \in indices : y >= x}) = k]

\* sort.StringSlice(respondingIndices).Sort(): k of the keys are at most the
\* k-th one.
Sorted(indices) ==
  [k \in 1 .. Cardinality(indices) |->
     CHOOSE x \in indices : Cardinality({y \in indices : y <= x}) = k]

\* The loop goes on; after its last request the keys are returned, sorted.
LoopGoesOn(n) ==
  /\ i' = n
  /\ answer' = IF n = Requests THEN Sorted(respondingIndicesHash') ELSE << >>

\* Mutant: an endpoint that fails ends the loop.
HelloWorldRequestBreaking ==
  /\ i < Requests
  /\ turn' = NextTurn
  /\ \E response \in Responses :
       /\ Ignored(response) => response.body = RouterPage
       /\ respondingIndicesHash' =
            respondingIndicesHash \cup IF Ignored(response) THEN {} ELSE {response.body}
       /\ quiet' = (quiet /\ response.body # Text)
       /\ LoopGoesOn(IF Ignored(response) THEN Requests ELSE i + 1)
  /\ UNCHANGED <<bbsVars, alive, pool, served, lookVars, spec>>

\* A request of the loop: the router's own 404 and 502 are ignored, the body of
\* any other status is recorded.
HelloWorldRequest ==
  /\ i < Requests
  /\ turn' = NextTurn
  /\ \E response \in Responses :
       /\ Ignored(response) => response.body = RouterPage
       /\ respondingIndicesHash' =
            respondingIndicesHash \cup IF Ignored(response) THEN {} ELSE {response.body}
       /\ quiet' = (quiet /\ response.body # Text)
  /\ LoopGoesOn(i + 1)
  /\ UNCHANGED <<bbsVars, alive, pool, served, lookVars, spec>>

\* "Got a 404, but it wasn't from the router!": the call does not return.
HelloWorldRequestFails ==
  /\ i < Requests
  /\ turn' = NextTurn
  /\ \E response \in Responses : Ignored(response) /\ response.body # RouterPage
  /\ i' = Requests
  /\ Forget
  /\ spec' = "not the router"
  /\ UNCHANGED <<bbsVars, alive, pool, lookVars>>

\* err != nil, of the request or of reading the body: it is not repeated.
HelloWorldRequestLost ==
  /\ i < Requests
  /\ quiet' = FALSE
  /\ turn' \in {turn, NextTurn}
  /\ UNCHANGED respondingIndicesHash
  /\ LoopGoesOn(i + 1)
  /\ UNCHANGED <<bbsVars, alive, pool, served, lookVars, spec>>

\* The instance of a group that Resolve picks: the one that is not evacuating
\* when it runs or has crashed, or is alone.
Resolve(group) ==
  CHOOSE r \in group :
    \/ Cardinality(group) = 1
    \/ \E o \in group :
         /\ o.presence = "ordinary"
         /\ r = o <=> o.state \in {"RUNNING", "CRASHED"}

\* LRPStatePoller: the first LRP of the list, whatever its index, or "".
LRPStatePoller ==
  /\ Looks
  /\ \/ ExpectFails("bbs error")
     \/ /\ \/ lrps = {} /\ running' = FALSE
           \/ \E first \in lrps :
                LET group == {r \in lrps : r.index = first.index}
                    foundLRP == IF oldAPI THEN Resolve(group) ELSE first
                IN  running' = (foundLRP.state = "RUNNING")
        /\ UNCHANGED <<bbsVars, alive, routerVars, helloVars, windowVars, counted, target, spec>>

\* ActualLRPFilter{ProcessGuid, Index}
AtIndex(x) == {r \in lrps : r.index = x}

\* LRPInstanceStatePoller: exactly one LRP is expected; an old BBS, which resolves
\* a group of two, has none that is empty.
LRPInstanceStatePoller(x) ==
  /\ Looks /\ x < desired
  /\ \/ ExpectFails("bbs error")
     \/ ~oldAPI /\ Cardinality(AtIndex(x)) # 1 /\ ExpectFails("not one record")
     \/ /\ IF oldAPI THEN AtIndex(x) # {} ELSE Cardinality(AtIndex(x)) = 1
        /\ UNCHANGED vars

ActiveActualLRPs == {r \in lrps : r.state # "UNCLAIMED"}

\* Eventually(runningLRPsPoller).Should(HaveLen(n)), at an n that is desired.
\* filteredActualLRPs takes an old BBS's 404 for an error.
CountActive ==
  /\ Looks
  /\ \/ ExpectFails("bbs error")
     \/ /\ ~oldAPI /\ counted' = Cardinality(ActiveActualLRPs)
        /\ UNCHANGED <<bbsVars, alive, routerVars, helloVars, windowVars, running, target, spec>>

\* A second call whose list is indexed up to the length of the first one
IndexActive ==
  /\ Looks
  /\ counted > 0 /\ counted = desired
  /\ \/ ExpectFails("bbs error")
     \/ Cardinality(ActiveActualLRPs) < counted /\ ExpectFails("out of range")
     \/ Cardinality(ActiveActualLRPs) >= counted /\ UNCHANGED vars

\* Destroying the container of the only instance, after LRPStatePoller has
\* returned RUNNING: read its record, which must be the only one ...
ReadTarget ==
  /\ Looks /\ running /\ spec = "polls" /\ desired = 1
  /\ \/ ExpectFails("bbs error")
     \/ ~oldAPI /\ Cardinality(AtIndex(0)) # 1 /\ ExpectFails("not one record")
     \/ /\ ~oldAPI /\ \E r \in lrps : AtIndex(0) = {r} /\ target' = Placed(r)
        /\ spec' = "read"
        /\ UNCHANGED <<bbsVars, alive, routerVars, helloVars, windowVars, running, counted>>

\* ... then call garden, which does not know a container that is gone.
DestroyTarget ==
  /\ Looks /\ spec = "read"
  /\ \/ target.guid \notin alive /\ ExpectFails("no container")
     \/ /\ target.guid \in alive /\ alive' = alive \ {target.guid}
        /\ spec' = "destroyed"
        /\ UNCHANGED <<bbsVars, routerVars, helloVars, windowVars, lookVars>>

\* Mutant: the matcher looks at the index only.
MatchIndexOnly(event) == event.index = target.index

\* ActualLRPCrashedEventMatcher; process guid and cell go with the instance guid.
Match(event) == event.index = target.index /\ event.guid = target.guid

\* Eventually(getEvents).Should(ContainElement(MatchActualLRPCrashedEvent(...)))
SeeCrash ==
  /\ Looks /\ spec = "destroyed"
  /\ \E event \in events : Match(event)
  /\ spec' = "matched"
  /\ UNCHANGED <<bbsVars, alive, routerVars, helloVars, windowVars, lookVars>>

Test ==
  \/ \E n \in Counts : UpdateDesiredLRP(n)
  \/ CallHelloWorld \/ HelloWorldRequest \/ HelloWorldRequestFails \/ HelloWorldRequestLost
  \/ LRPStatePoller
  \/ \E x \in 0 .. Instances - 1 : LRPInstanceStatePoller(x)
  \/ CountActive \/ IndexActive
  \/ ReadTarget \/ DestroyTarget \/ SeeCrash

Next == Diego \/ Test

Spec == Init /\ [][Next]_vars

-----------------------------------------------------------------------------
\* The types; what HelloWorldInstancePoller returns is sorted and has nothing
\* twice, since specs compare it with Equal.
TypeOK ==
  /\ watches \in Watches
  /\ lrps \subseteq [index : 0 .. Instances - 1, guid : 0 .. MaxGuids,
                     state : {"UNCLAIMED", "CLAIMED", "RUNNING", "CRASHED"},
                     presence : {"ordinary", "evacuating", "suspect"}]
  /\ \A r, s \in lrps : r.index = s.index /\ r.presence = s.presence => r = s
  /\ desired \in 0 .. Instances /\ oldAPI \in BOOLEAN /\ guids \in 0 .. MaxGuids
  /\ alive \subseteq 1 .. guids
  /\ Len(pool) <= guids /\ turn \in DOMAIN pool \cup {1}
  /\ events \subseteq [index : 0 .. Instances - 1, guid : 1 .. guids]
  /\ stopping \subseteq 1 .. guids
  /\ quiet \in BOOLEAN /\ running \in BOOLEAN
  /\ i \in 0 .. Requests
  /\ served \subseteq 0 .. Instances - 1
  /\ respondingIndicesHash \cup Range(answer) \subseteq 0 .. Instances
  /\ \A a, b \in DOMAIN answer : a < b => answer[a] < answer[b]
  /\ counted \in 0 .. 2 * Instances
  /\ spec \in {"polls", "read", "destroyed", "matched"} \cup Failures

\* HelloWorldInstancePoller reports an index only when an instance of it could
\* respond at some time during the call: nothing is left from an earlier call,
\* however the instances change between and during the calls.
PollIsSound == i = Requests => Range(answer) \ {Text} \subseteq served

\* When nothing changes during a call, no request gets lost and no port of a dead
\* container is taken by something else, it reports
\* exactly the instances that respond, in order, although some endpoints of the
\* router may be dead: Should(Equal(["0", "1"])) and Should(BeEmpty()) hold
\* once the LRP has settled.
PollIsExact == i = Requests /\ quiet => answer = Sorted(served)

\* The crash event a spec waits for is that of the instance it destroyed: the
\* BBS no longer lists that instance as placed, also when the instance before
\* it at the same index had crashed and its event is in the list too.
CrashSeenIsItsOwn ==
  spec = "matched" =>
    \A r \in lrps : r.guid = target.guid => r.state = "CRASHED"
=============================================================================
