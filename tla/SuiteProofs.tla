---------------------------- MODULE SuiteProofs ----------------------------
(***************************************************************************)
(* Proofs about Suite, for every suite whose blocks stop what they start,  *)
(* every number of specs, containers and faults.  That nothing is left     *)
(* running in silence needs an invariant that follows the teardown: the    *)
(* variables hold what the current spec has started (OwnHeld); whatever    *)
(* the variables of the running block hold is yet to be stopped, or gone   *)
(* (ToBeStopped); and when the file's AfterEach has passed, what is left   *)
(* of the file's was out of its reach (FileIsDone), started by a spec that *)
(* is known to have failed (SurvivorsFailed).                              *)
(***************************************************************************)
EXTENDS Suite, TLAPS

Place ==
  /\ spec \in 0 .. MaxSpecs /\ context \in AllBlocks
  /\ phase \in {"idle", "before", "body", "after"}
  /\ block \in {SuiteBlock, context} /\ step \in Nat \ {0}
  /\ phase = "before" => step \in 1 .. Len(BeforeEach[block])
  /\ phase = "body" => block = context
  /\ phase = "after" => step \in 1 .. Len(AfterEach[block])
  /\ phase # "idle" => spec # 0

\* StopProcesses starts with its first argument, and with no failure.
StopPlace ==
  /\ member \in Nat \ {0} /\ unclean \in BOOLEAN
  /\ ~At("stop") => member = 1 /\ unclean = FALSE

Processes ==
  /\ \A p \in live : /\ p = Process(p.holder, p.comp, p.spec)
                     /\ <<p.holder, p.comp>> \in Variables
                     /\ p.spec \in 1 .. spec
  /\ handle \in [Variables -> 0 .. spec]

GardenState ==
  /\ client \in BOOLEAN /\ blocks \in 0 .. Blocks
  /\ destroying \subseteq containers /\ containers \subseteq Containers
  /\ todo \subseteq Containers /\ destroyErrs \subseteq Containers
  /\ tries \in 0 .. MaxTries

Reports ==
  /\ lost \subseteq 0 .. spec /\ failed \subseteq 0 .. spec /\ troubled \subseteq 0 .. spec
  /\ faults \in 0 .. MaxFaults

Held(p) == handle[<<p.holder, p.comp>>] = p.spec

\* The variables hold the processes that the current spec has started: the
\* suite's block starts its own, and then the context those of its file.
OwnHeld ==
  \A p \in Listening : p.spec = spec =>
    /\ Held(p)
    /\ p.holder \in {SuiteBlock, FileOf[context]}
    /\ phase = "before" /\ block = SuiteBlock => p.holder = SuiteBlock

\* What runs of earlier specs was left by specs that failed.
SurvivorsFailed ==
  \A p \in Listening : p.spec # spec => p.spec \in failed

\* A step of the running AfterEach block, from the current one on, stops p.
StepAhead(p) ==
  \E s \in step .. Len(AfterEach[block]) :
    /\ AfterEach[block][s].op = "stop"
    /\ \E m \in DOMAIN AfterEach[block][s].procs :
         /\ AfterEach[block][s].procs[m] = p.comp
         /\ s = step => member <= m \/ unclean

ToBeStopped ==
  phase = "after" => \A p \in live : p.holder = FileOf[block] /\ Held(p) => StepAhead(p)

\* When the suite's AfterEach runs and the file's has passed, that has left
\* nothing but what an earlier spec left in variables that are nil since.
FileIsDone ==
  spec \notin failed /\ phase = "after" /\ block # context =>
    \A p \in Listening : p.holder = FileOf[context] => p.holder \in Resets /\ p.spec # spec

TInv == Place /\ StopPlace /\ Processes /\ GardenState /\ Reports
SInv ==
  /\ NoOrphans /\ OwnHeld /\ SurvivorsFailed
  /\ ToBeStopped /\ FileIsDone /\ PassedMeansClean
IInv == TInv /\ SInv

-----------------------------------------------------------------------------
\* The process variables are those that the blocks name.
LEMMA VariableOf ==
  /\ \A b \in AllBlocks : \A i \in DOMAIN BeforeEach[b] :
       <<FileOf[b], BeforeEach[b][i]>> \in Variables
  /\ \A f, c : <<f, c>> \in Variables =>
       \E b \in AllBlocks : FileOf[b] = f /\ \E i \in DOMAIN BeforeEach[b] : BeforeEach[b][i] = c
  BY DEF Variables

\* The blocks, as the provers need to know them.
LEMMA Blocked ==
  ASSUME NEW b \in AllBlocks
  PROVE  /\ Len(BeforeEach[b]) \in Nat /\ DOMAIN BeforeEach[b] = 1 .. Len(BeforeEach[b])
         /\ b = SuiteBlock \/ BeforeEach[b] # << >> => Len(BeforeEach[b]) # 0
         /\ FileOf[b] = SuiteBlock <=> b = SuiteBlock
         /\ Len(AfterEach[b]) \in Nat \ {0} /\ DOMAIN AfterEach[b] = 1 .. Len(AfterEach[b])
         /\ \A s \in DOMAIN AfterEach[b] :
              /\ AfterEach[b][s].op \in {"cleanup", "stop", "report"}
              /\ Len(AfterEach[b][s].procs) \in Nat
              /\ DOMAIN AfterEach[b][s].procs = 1 .. Len(AfterEach[b][s].procs)
  <1> DEFINE R == [op : {"cleanup", "stop", "report"}, procs : Seq(STRING)]
  <1>1. BeforeEach[b] \in Seq(STRING) /\ (b = SuiteBlock => BeforeEach[b] # << >>)
    BY SuiteAssumption
  <1>2. AfterEach[b] \in Seq(R) /\ AfterEach[b] # << >>
    BY SuiteAssumption
  <1>3. /\ Len(BeforeEach[b]) \in Nat /\ DOMAIN BeforeEach[b] = 1 .. Len(BeforeEach[b])
        /\ b = SuiteBlock \/ BeforeEach[b] # << >> => Len(BeforeEach[b]) # 0
    BY <1>1
  <1>4. Len(AfterEach[b]) \in Nat \ {0} /\ DOMAIN AfterEach[b] = 1 .. Len(AfterEach[b])
    BY <1>2
  <1>5. \A s \in DOMAIN AfterEach[b] : AfterEach[b][s] \in R
    <2> HIDE DEF R
    <2> QED BY <1>2, <1>4
  <1>6. \A s \in DOMAIN AfterEach[b] : AfterEach[b][s].procs \in Seq(STRING)
    BY <1>5
  <1>7. FileOf[b] = SuiteBlock <=> b = SuiteBlock
    BY SuiteAssumption
  <1> QED BY <1>3, <1>4, <1>5, <1>6, <1>7

\* What an AfterEach step may do to the position.
LEMMA Moves ==
  ASSUME Place, phase = "after", StepDone \/ BlockEnds, UNCHANGED <<spec, context>>
  PROVE  Place'
  <1>1. block \in AllBlocks /\ SuiteBlock \in AllBlocks
    BY DEF Place, AllBlocks
  <1>2. /\ Len(AfterEach[block]) \in Nat \ {0} /\ Len(AfterEach[SuiteBlock]) \in Nat \ {0}
        /\ step \in 1 .. Len(AfterEach[block])
    BY <1>1, Blocked DEF Place
  <1>3. CASE BlockEnds
    <2>1. CASE block # SuiteBlock
      BY <1>2, <1>3, <2>1 DEF BlockEnds, Place
    <2>2. CASE block = SuiteBlock
      BY <1>2, <1>3, <2>2 DEF BlockEnds, Place
    <2> QED BY <2>1, <2>2
  <1>4. CASE step # Len(AfterEach[block]) /\ step' = step + 1 /\ UNCHANGED <<block, phase>>
    BY <1>2, <1>4 DEF Place
  <1> QED BY <1>3, <1>4 DEF StepDone

-----------------------------------------------------------------------------
(***************************************************************************)
(* The kinds of steps, by what they do to the position, the processes and  *)
(* the verdicts.                                                           *)
(***************************************************************************)

\* At most, processes die.
Aside ==
  /\ UNCHANGED <<spec, context, blockVars, stopVars, handle, failed>>
  /\ live' \subseteq live

LeavesStop ==
  \/ At("stop") /\ member' = 1 /\ unclean' = FALSE
  \/ ~At("stop") /\ UNCHANGED stopVars

\* An assertion fails: in an AfterEach block, or before it.
Fails ==
  /\ UNCHANGED <<spec, context, handle>>
  /\ live' \subseteq live
  /\ failed' = failed \cup {spec}
  /\ \/ phase = "after" /\ BlockEnds /\ LeavesStop
     \/ phase \in {"before", "body"} /\ ToTeardown /\ UNCHANGED stopVars

\* A step of an AfterEach block succeeds.
StepsOn ==
  /\ phase = "after" /\ StepDone /\ LeavesStop
  /\ At("stop") => member > Len(Arguments) /\ unclean = FALSE
  /\ UNCHANGED <<spec, context, live, handle, failed>>

\* StopProcesses deals with one argument.
StopsOne ==
  /\ At("stop") /\ member <= Len(Arguments)
  /\ UNCHANGED <<spec, context, blockVars, handle, failed>>
  /\ member' = member + 1
  /\ live' \subseteq live
  /\ \/ unclean' = unclean /\ Target \notin live'
     \/ unclean' = TRUE

Restarts(c) ==
  /\ phase = "body" \/ (phase = "before" /\ block # SuiteBlock)
  /\ UNCHANGED <<spec, context, blockVars, stopVars, failed>>
  /\ LET old == Process(SuiteBlock, c, handle[<<SuiteBlock, c>>]) IN
     /\ old \in live
     /\ live' = (live \ {old}) \cup {Process(SuiteBlock, c, spec)}
  /\ handle' = [handle EXCEPT ![<<SuiteBlock, c>>] = spec]

\* Gone takes the process away, and nothing else.
LEMMA GoneShrinks ==
  ASSUME NEW p, Gone(p)
  PROVE  live' \subseteq live /\ p \notin live'
  BY DEF Gone

\* MoveOn either stays at the step or finishes it.
LEMMA MovedOn ==
  ASSUME NEW k, MoveOn(k)
  PROVE  UNCHANGED blockVars \/ StepDone
  BY DEF MoveOn

\* Every step is of one of these kinds.
LEMMA Kinds ==
  ASSUME StopPlace, [Next]_vars
  PROVE  \/ Aside \/ Fails \/ StepsOn \/ StopsOne
         \/ BodyEnds \/ BeginSpec \/ InvokeSucceeds \/ \E c : Restarts(c)
  <1>1. unclean \in BOOLEAN
    BY DEF StopPlace
  <1>2. CASE InvokeFails
    BY <1>2 DEF InvokeFails, Fails, stopVars
  <1>3. CASE ListContainers
    <2>1. /\ phase = "after" /\ ~At("stop") /\ UNCHANGED stopVars
          /\ UNCHANGED <<spec, context, live, handle, failed>>
      BY <1>3 DEF ListContainers, At, spaceVars
    <2>2. StepDone \/ UNCHANGED blockVars
      BY <1>3 DEF ListContainers
    <2> QED BY <2>1, <2>2 DEF Aside, StepsOn, LeavesStop
  <1>4. CASE ListFails
    BY <1>4 DEF ListFails, At, Abort, Fails, LeavesStop, spaceVars
  <1>5. ASSUME NEW k \in Containers, DestroySettles(k) \/ DestroyFails(k)
        PROVE  Aside \/ StepsOn
    <2>1. /\ phase = "after" /\ ~At("stop") /\ UNCHANGED stopVars
          /\ UNCHANGED <<spec, context, live, handle, failed>>
      BY <1>5 DEF DestroySettles, DestroyFails, At, spaceVars
    <2>2. MoveOn(k) \/ UNCHANGED blockVars
      BY <1>5 DEF DestroySettles, DestroyFails
    <2> QED BY <2>1, <2>2, MovedOn DEF Aside, StepsOn, LeavesStop
  <1>6. CASE StopSkips
    BY <1>6 DEF StopSkips, StopsOne, spaceVars
  <1>7. CASE StopTerminates
    BY <1>7, GoneShrinks DEF StopTerminates, StopsOne
  <1>8. CASE StopTimesOut
    BY <1>8, GoneShrinks DEF StopTimesOut, StopsOne
  <1>9. CASE StopReturns
    <2>1. /\ phase = "after" /\ LeavesStop /\ At("stop") /\ member > Len(Arguments)
          /\ UNCHANGED <<spec, context, live, handle>>
      BY <1>9 DEF StopReturns, LeavesStop, At, spaceVars
    <2>2. CASE unclean = TRUE
      BY <1>9, <2>1, <2>2 DEF StopReturns, Abort, Fails
    <2>3. CASE unclean = FALSE
      BY <1>9, <2>1, <2>3 DEF StopReturns, StepsOn
    <2> QED BY <1>1, <2>2, <2>3
  <1>10. CASE Report
    BY <1>10 DEF Report, Abort, At, Fails, StepsOn, LeavesStop, spaceVars
  <1>11. ASSUME NEW c \in Restarted, Restart(c) PROVE Fails \/ Restarts(c)
    <2>1. CASE failed' = failed \cup {spec} /\ ToTeardown
      BY <1>11, <2>1 DEF Restart, Fails, ToTeardown, blockVars
    <2> QED BY <1>11, <2>1 DEF Restart, Restarts
  <1>12. ASSUME NEW p \in live, Crash(p) PROVE Aside
    BY <1>12, GoneShrinks DEF Crash, Aside
  <1>13. ASSUME NEW k \in Containers, CreateContainer(k) \/ CellDestroys(k) \/ Destroyed(k)
         PROVE  Aside
    BY <1>13 DEF CreateContainer, CellDestroys, Destroyed, Aside, spaceVars
  <1>14. CASE UNCHANGED vars
    BY <1>14 DEF vars, Aside, spaceVars
  <1> QED BY <1>2, <1>3, <1>4, <1>5, <1>6, <1>7, <1>8, <1>9, <1>10, <1>11, <1>12, <1>13, <1>14
          DEF Next, SetUp, TearDown, Around

-----------------------------------------------------------------------------
\* Facts about the position that most steps need.
LEMMA Here ==
  ASSUME Place
  PROVE  /\ MaxSpecs \in Nat /\ spec \in Nat
         /\ block \in AllBlocks /\ context \in AllBlocks /\ SuiteBlock \in AllBlocks
         /\ phase = "before" =>
              /\ step \in DOMAIN BeforeEach[block]
              /\ <<FileOf[block], Starting>> \in Variables
         /\ phase # "idle" => spec \in 1 .. spec
  <1>1. MaxSpecs \in Nat /\ spec \in Nat
    BY SuiteAssumption DEF Place
  <1>2. block \in AllBlocks /\ context \in AllBlocks /\ SuiteBlock \in AllBlocks
    BY DEF Place, AllBlocks
  <1>3. phase = "before" => step \in DOMAIN BeforeEach[block]
    BY <1>2, Blocked DEF Place
  <1>4. phase = "before" => <<FileOf[block], Starting>> \in Variables
    BY <1>2, <1>3, VariableOf DEF Starting
  <1>5. phase # "idle" => spec \in 1 .. spec
    BY <1>1 DEF Place
  <1> QED BY <1>1, <1>2, <1>3, <1>4, <1>5

\* Invoke leads to the next component, to the context's BeforeEach or to the body.
LEMMA Invoked ==
  ASSUME Place, InvokeSucceeds
  PROVE  \/ /\ step < Len(BeforeEach[block]) /\ step' = step + 1
            /\ UNCHANGED <<block, phase>> /\ ~EntersContext
         \/ /\ EntersContext /\ block' = context /\ step' = 1
            /\ \/ phase' = "before" /\ BeforeEach[context] # << >>
               \/ phase' = "body"
         \/ /\ step = Len(BeforeEach[block]) /\ block = context /\ ~EntersContext
            /\ phase' = "body" /\ UNCHANGED <<block, step>>
  <1>1. phase = "before" /\ Len(BeforeEach[block]) \in Nat /\ step \in 1 .. Len(BeforeEach[block])
    BY Here, Blocked DEF InvokeSucceeds, Place
  <1>2. CASE step < Len(BeforeEach[block])
    BY <1>1, <1>2 DEF InvokeSucceeds, EntersContext
  <1>3. CASE step = Len(BeforeEach[block])
    <2>1. CASE EntersContext
      BY <1>1, <1>3, <2>1 DEF InvokeSucceeds
    <2>2. CASE ~EntersContext
      <3>1. block = context
        BY <1>3, <2>2 DEF EntersContext, Place
      <3>2. phase' = "body" /\ UNCHANGED <<block, step>>
        BY <1>1, <1>3, <2>2 DEF InvokeSucceeds
      <3> QED BY <1>3, <2>2, <3>1, <3>2
    <2> QED BY <2>1, <2>2
  <1> QED BY <1>1, <1>2, <1>3

\* The position stays one.
LEMMA PlaceStep ==
  ASSUME Place, StopPlace, [Next]_vars
  PROVE  Place'
  <1>1. CASE UNCHANGED <<spec, context, blockVars>>
    BY <1>1 DEF Place, blockVars
  <1>2. CASE phase = "after" /\ (StepDone \/ BlockEnds) /\ UNCHANGED <<spec, context>>
    BY <1>2, Moves
  <1>3. CASE phase \in {"before", "body"} /\ ToTeardown /\ UNCHANGED <<spec, context>>
    <2>1. Len(AfterEach[block]) \in Nat \ {0}
      BY Here, Blocked
    <2> QED BY <1>3, <2>1 DEF Place, ToTeardown
  <1>4. CASE BeginSpec
    <2>1. Len(BeforeEach[SuiteBlock]) \in Nat /\ Len(BeforeEach[SuiteBlock]) # 0
      BY Here, Blocked
    <2>2. spec' \in 0 .. MaxSpecs /\ spec' # 0
      BY <1>4, Here DEF BeginSpec, Place
    <2> QED BY <1>4, <2>1, <2>2 DEF BeginSpec, Place
  <1>5. CASE InvokeSucceeds
    <2>1. /\ UNCHANGED <<spec, context>> /\ phase = "before"
          /\ Len(BeforeEach[block]) \in Nat /\ Len(BeforeEach[context]) \in Nat
          /\ BeforeEach[context] # << >> => Len(BeforeEach[context]) # 0
          /\ step \in 1 .. Len(BeforeEach[block])
      BY <1>5, Here, Blocked DEF InvokeSucceeds, Place
    <2>2. CASE step < Len(BeforeEach[block]) /\ step' = step + 1 /\ UNCHANGED <<block, phase>>
      BY <2>1, <2>2 DEF Place
    <2>3. CASE /\ block' = context /\ step' = 1
               /\ phase' = "body" \/ (phase' = "before" /\ BeforeEach[context] # << >>)
      BY <2>1, <2>3 DEF Place
    <2>4. CASE block = context /\ phase' = "body" /\ UNCHANGED <<block, step>>
      BY <2>1, <2>4 DEF Place
    <2> QED BY <1>5, <2>2, <2>3, <2>4, Invoked
  <1>6. BodyEnds => phase \in {"before", "body"} /\ ToTeardown /\ UNCHANGED <<spec, context>>
    BY DEF BodyEnds
  <1> QED BY <1>1, <1>2, <1>3, <1>4, <1>5, <1>6, Kinds
          DEF Aside, Fails, StepsOn, StopsOne, Restarts

\* StopProcesses begins where it should.
LEMMA StopPlaceStep ==
  ASSUME Place, StopPlace, [Next]_vars
  PROVE  StopPlace'
  <1>1. CASE UNCHANGED <<blockVars, stopVars>>
    BY <1>1 DEF StopPlace, blockVars, stopVars, At
  <1>2. CASE LeavesStop
    <2>1. member' = 1 /\ unclean' = FALSE
      BY <1>2 DEF LeavesStop, StopPlace, stopVars
    <2>2. member' \in Nat \ {0}
      BY <2>1
    <2>3. unclean' \in BOOLEAN
      BY <2>1
    <2> QED BY <2>1, <2>2, <2>3 DEF StopPlace
  <1>3. CASE phase # "after" /\ UNCHANGED stopVars
    <2>1. ~At("stop")
      BY <1>3 DEF At
    <2> QED BY <1>2, <1>3, <2>1 DEF LeavesStop
  <1>4. CASE StopsOne
    <2>1. At("stop")' /\ member' = member + 1
      BY <1>4 DEF StopsOne, At, blockVars
    <2>2. unclean' \in BOOLEAN
      BY <1>4 DEF StopsOne, StopPlace
    <2>3. member' \in Nat \ {0}
      BY <2>1 DEF StopPlace
    <2> QED BY <2>1, <2>2, <2>3 DEF StopPlace
  <1>5. BodyEnds \/ BeginSpec \/ InvokeSucceeds => phase # "after" /\ UNCHANGED stopVars
    BY DEF BodyEnds, BeginSpec, InvokeSucceeds
  <1> QED BY <1>1, <1>2, <1>3, <1>4, <1>5, Kinds DEF Aside, Fails, StepsOn, Restarts

\* A process of a spec that has begun is one for good.
LEMMA ProcessesStep ==
  ASSUME Place, StopPlace, Processes, [Next]_vars
  PROVE  Processes'
  <1>1. CASE UNCHANGED <<spec, handle>> /\ live' \subseteq live
    BY <1>1 DEF Processes, Process, Variables, AllBlocks
  <1>2. CASE BeginSpec
    <2>1. spec' = spec + 1 /\ UNCHANGED <<live, handle>> /\ spec \in Nat
      BY <1>2, Here DEF BeginSpec, spaceVars
    <2>2. 1 .. spec \subseteq 1 .. spec' /\ 0 .. spec \subseteq 0 .. spec'
      BY <2>1
    <2> QED BY <2>1, <2>2 DEF Processes, Process, Variables, AllBlocks
  <1>3. ASSUME NEW b, NEW c, <<b, c>> \in Variables, UNCHANGED spec, spec \in 1 .. spec,
               live' \subseteq live \cup {Process(b, c, spec)},
               handle' \in [Variables -> 0 .. spec]
        PROVE  Processes'
    <2> DEFINE new == Process(b, c, spec)
    <2>1. new = Process(new.holder, new.comp, new.spec) /\ new.holder = b /\ new.comp = c
          /\ new.spec = spec
      BY DEF Process
    <2>2. /\ Variables' = Variables
          /\ \A x, y, z : Process(x, y, z)' = Process(x, y, z)
      BY DEF Variables, AllBlocks, Process
    <2> HIDE DEF new
    <2>3. ASSUME NEW p \in live'
          PROVE  /\ p = Process(p.holder, p.comp, p.spec)
                 /\ <<p.holder, p.comp>> \in Variables
                 /\ p.spec \in 1 .. spec
      BY <1>3, <2>1, <2>3 DEF Processes, new
    <2> QED BY <1>3, <2>3 DEF Processes, Process, Variables, AllBlocks
  <1>4. CASE InvokeSucceeds
    <2>1. /\ UNCHANGED spec /\ phase = "before" /\ handle' = Assigned(FileOf[block], Starting)
          /\ live' = live \cup {Process(FileOf[block], Starting, spec)}
      BY <1>4 DEF InvokeSucceeds
    <2>2. spec \in 1 .. spec /\ <<FileOf[block], Starting>> \in Variables /\ 0 \in 0 .. spec
          /\ spec \in 0 .. spec
      BY <2>1, Here DEF Place
    <2>3. Assigned(FileOf[block], Starting) \in [Variables -> 0 .. spec]
      BY <2>2 DEF Assigned, Processes
    <2> QED BY <1>3, <2>1, <2>2, <2>3
  <1>5. ASSUME NEW c, Restarts(c) PROVE Processes'
    <2> DEFINE old == Process(SuiteBlock, c, handle[<<SuiteBlock, c>>])
    <2>1. /\ UNCHANGED spec /\ phase # "idle" /\ old \in live
          /\ live' = (live \ {old}) \cup {Process(SuiteBlock, c, spec)}
          /\ handle' = [handle EXCEPT ![<<SuiteBlock, c>>] = spec]
      BY <1>5 DEF Restarts
    <2>2. old.holder = SuiteBlock /\ old.comp = c
      BY DEF Process
    <2>3. <<SuiteBlock, c>> \in Variables
      BY <2>1, <2>2 DEF Processes
    <2>4. spec \in 1 .. spec /\ spec \in 0 .. spec
      BY <2>1, Here
    <2>5. handle' \in [Variables -> 0 .. spec]
      BY <2>1, <2>4 DEF Processes
    <2>6. live' \subseteq live \cup {Process(SuiteBlock, c, spec)}
      BY <2>1
    <2> QED BY <1>3, <2>1, <2>3, <2>4, <2>5, <2>6
  <1>6. BodyEnds => UNCHANGED <<spec, handle>> /\ live' \subseteq live
    BY DEF BodyEnds, spaceVars
  <1>7. Aside \/ Fails \/ StepsOn \/ StopsOne => UNCHANGED <<spec, handle>> /\ live' \subseteq live
    BY DEF Aside, Fails, StepsOn, StopsOne
  <1> QED BY <1>1, <1>2, <1>4, <1>5, <1>6, <1>7, Kinds

\* Ports are claimed only while there are some.
LEMMA PortsStep ==
  ASSUME GardenState, [Next]_vars
  PROVE  blocks' \in 0 .. Blocks
  <1>1. Blocks \in Nat /\ blocks \in 0 .. Blocks
    BY SuiteAssumption DEF GardenState
  <1>2. ASSUME NEW c, HasPorts(c), TakePorts(c) PROVE blocks' \in 0 .. Blocks
    BY <1>1, <1>2 DEF HasPorts, TakePorts
  <1>3. UNCHANGED blocks \/ \E c : HasPorts(c) /\ TakePorts(c)
    <2>1. CASE InvokeSucceeds
      BY <2>1 DEF InvokeSucceeds
    <2>2. CASE InvokeFails
      BY <2>2 DEF InvokeFails
    <2>3. ASSUME NEW c \in Restarted, Restart(c)
          PROVE  UNCHANGED blocks \/ (HasPorts(c) /\ TakePorts(c))
      BY <2>3 DEF Restart
    <2>4. CASE BeginSpec \/ BodyEnds \/ UNCHANGED vars
      BY <2>4 DEF BeginSpec, BodyEnds, vars, spaceVars
    <2>5. CASE TearDown
      BY <2>5 DEF TearDown, ListContainers, ListFails, DestroySettles, DestroyFails, StopSkips,
                  StopTerminates, StopTimesOut, StopReturns, Report, spaceVars
    <2>6. ASSUME NEW p \in live, Crash(p) PROVE UNCHANGED blocks
      BY <2>6 DEF Crash
    <2>7. ASSUME NEW k \in Containers, CreateContainer(k) \/ CellDestroys(k) \/ Destroyed(k)
          PROVE  UNCHANGED blocks
      BY <2>7 DEF CreateContainer, CellDestroys, Destroyed, spaceVars
    <2> QED BY <2>1, <2>2, <2>3, <2>4, <2>5, <2>6, <2>7 DEF Next, SetUp, Around
  <1> QED BY <1>1, <1>2, <1>3

\* A process that goes away leaves the containers and the specs what they are.
LEMMA GoneTypes ==
  ASSUME NEW p, Gone(p), destroying \subseteq containers, containers \subseteq Containers
  PROVE  /\ destroying' \subseteq containers' /\ containers' \subseteq Containers
         /\ lost' \subseteq lost \cup {spec}
  BY DEF Gone, gardenVars

\* CleanupGarden and the containers.
LEMMA GardenStep ==
  ASSUME GardenState, [Next]_vars
  PROVE  GardenState'
  <1> DEFINE Known == destroying \subseteq containers /\ containers \subseteq Containers
             Work == /\ todo \subseteq Containers /\ destroyErrs \subseteq Containers
                     /\ tries \in 0 .. MaxTries
  <1>1. Known /\ Work /\ client \in BOOLEAN
    BY DEF GardenState
  <1>2. blocks' \in 0 .. Blocks
    BY PortsStep
  <1>3. client' \in BOOLEAN /\ (client' = client \/ InvokeSucceeds)
    <2>1. CASE InvokeSucceeds
      BY <1>1, <2>1 DEF InvokeSucceeds
    <2>2. CASE UNCHANGED client
      BY <1>1, <2>2
    <2>3. UNCHANGED client \/ InvokeSucceeds
      BY DEF Next, SetUp, Around, TearDown, BeginSpec, BodyEnds, InvokeFails, Restart, Crash,
             CreateContainer, CellDestroys, Destroyed, ListContainers, ListFails,
             DestroySettles, DestroyFails, StopSkips, StopTerminates, StopTimesOut, StopReturns,
             Report, vars, spaceVars
    <2> QED BY <2>1, <2>2, <2>3
  <1>4. Known'
    <2>1. CASE UNCHANGED gardenVars
      BY <1>1, <2>1 DEF gardenVars
    <2>2. ASSUME NEW p, Gone(p) PROVE Known'
      BY <1>1, <2>2, GoneTypes
    <2>3. ASSUME NEW k \in Containers,
                 CreateContainer(k) \/ CellDestroys(k) \/ Destroyed(k) \/ DestroySettles(k)
          PROVE  Known'
      BY <1>1, <2>3 DEF CreateContainer, CellDestroys, Destroyed, DestroySettles
    <2>4. \/ UNCHANGED gardenVars \/ \E p : Gone(p)
          \/ \E k \in Containers :
               CreateContainer(k) \/ CellDestroys(k) \/ Destroyed(k) \/ DestroySettles(k)
      BY DEF Next, SetUp, Around, TearDown, BeginSpec, BodyEnds, InvokeSucceeds, InvokeFails,
             Restart, Crash, ListContainers, ListFails, DestroyFails, StopSkips, StopTerminates,
             StopTimesOut, StopReturns, Report, vars, gardenVars
    <2> QED BY <2>1, <2>2, <2>3, <2>4
  <1>5. Work'
    <2>0. 0 \in 0 .. MaxTries /\ 1 \in 0 .. MaxTries
      BY DEF MaxTries
    <2>1. CASE UNCHANGED cleanupVars
      BY <1>1, <2>1 DEF cleanupVars
    <2>2. CASE ListContainers \/ ListFails
      BY <1>1, <2>0, <2>2 DEF ListContainers, ListFails
    <2>3. ASSUME NEW k \in Containers, MoveOn(k), destroyErrs' \subseteq destroyErrs \cup {k}
          PROVE  Work'
      BY <1>1, <2>0, <2>3 DEF MoveOn
    <2>4. CASE tries # MaxTries /\ tries' = tries + 1 /\ UNCHANGED <<todo, destroyErrs>>
      BY <1>1, <2>4 DEF MaxTries
    <2>5. ASSUME NEW k \in Containers, DestroySettles(k) \/ DestroyFails(k)
          PROVE  Work'
      BY <2>3, <2>4, <2>5 DEF DestroySettles, DestroyFails
    <2>6. \/ UNCHANGED cleanupVars \/ ListContainers \/ ListFails
          \/ \E k \in Containers : DestroySettles(k) \/ DestroyFails(k)
      BY DEF Next, SetUp, Around, TearDown, BeginSpec, BodyEnds, InvokeSucceeds, InvokeFails,
             Restart, Crash, CreateContainer, CellDestroys, Destroyed, StopSkips, StopTerminates,
             StopTimesOut, StopReturns, Report, vars
    <2> QED BY <2>1, <2>2, <2>5, <2>6
  <1> QED BY <1>2, <1>3, <1>4, <1>5 DEF GardenState

\* Only specs that have begun are reported, and the faults stay bounded.
LEMMA ReportsStep ==
  ASSUME Place, StopPlace, GardenState, Reports, [Next]_vars
  PROVE  Reports'
  <1>1. spec \in Nat /\ MaxFaults \in Nat /\ spec \in 0 .. spec
    BY Here, SuiteAssumption
  <1>2. /\ spec' \in Nat /\ 0 .. spec \subseteq 0 .. spec'
        /\ spec \in 0 .. spec'
    <2>1. spec' = spec \/ spec' = spec + 1
      BY Kinds DEF Aside, Fails, StepsOn, StopsOne, BodyEnds, BeginSpec, InvokeSucceeds, Restarts
    <2> QED BY <1>1, <2>1
  <1>3. failed' \subseteq failed \cup {spec}
    BY Kinds DEF Aside, Fails, StepsOn, StopsOne, BodyEnds, BeginSpec, InvokeSucceeds, Restarts
  <1>4. lost' \subseteq lost \cup {spec}
    <2>1. UNCHANGED lost \/ \E p : Gone(p)
      BY DEF Next, SetUp, Around, TearDown, BeginSpec, BodyEnds, InvokeSucceeds, InvokeFails,
             Restart, Crash, CreateContainer, CellDestroys, Destroyed, ListContainers, ListFails,
             DestroySettles, DestroyFails, StopSkips, StopTerminates,
             StopTimesOut, StopReturns, Report, vars, gardenVars
    <2> QED BY <2>1, GoneTypes DEF GardenState
  <1>5. troubled' \subseteq troubled \cup {spec} /\ faults' \in 0 .. MaxFaults
    <2>1. UNCHANGED faultVars \/ \E kind : Fault(kind)
      BY DEF Next, SetUp, Around, TearDown, BeginSpec, BodyEnds, InvokeSucceeds, InvokeFails,
             Restart, Crash, CreateContainer, CellDestroys, Destroyed, ListContainers, ListFails,
             DestroySettles, DestroyFails, StopSkips, StopTerminates,
             StopTimesOut, StopReturns, Report, vars
    <2>2. CASE UNCHANGED faultVars
      BY <2>2 DEF faultVars, Reports
    <2>3. ASSUME NEW kind, Fault(kind) PROVE troubled' \subseteq troubled \cup {spec} /\ faults' \in 0 .. MaxFaults
      BY <1>1, <2>3 DEF Fault, Reports
    <2> QED BY <2>1, <2>2, <2>3
  <1> QED BY <1>2, <1>3, <1>4, <1>5 DEF Reports

-----------------------------------------------------------------------------
\* Every process is stopped somewhere in the AfterEach of its file.
LEMMA Stopped ==
  ASSUME Processes, NEW p \in live, NEW d \in AllBlocks, p.holder = FileOf[d]
  PROVE  \E s \in DOMAIN AfterEach[d] :
           /\ AfterEach[d][s].op = "stop"
           /\ \E m \in DOMAIN AfterEach[d][s].procs : AfterEach[d][s].procs[m] = p.comp
  <1>1. <<p.holder, p.comp>> \in Variables
    BY DEF Processes
  <1>2. PICK b \in AllBlocks :
          FileOf[b] = p.holder /\ \E i \in DOMAIN BeforeEach[b] : BeforeEach[b][i] = p.comp
    BY <1>1, VariableOf
  <1>3. PICK i \in DOMAIN BeforeEach[b] : BeforeEach[b][i] = p.comp
    BY <1>2
  <1>4. \A x, y \in AllBlocks : FileOf[x] = FileOf[y] =>
          \A n \in DOMAIN BeforeEach[x] : \E s \in DOMAIN AfterEach[y] :
            /\ AfterEach[y][s].op = "stop"
            /\ \E m \in DOMAIN AfterEach[y][s].procs : AfterEach[y][s].procs[m] = BeforeEach[x][n]
    BY SuiteAssumption, Zenon
  <1>5. FileOf[b] = FileOf[d]
    BY <1>2
  <1>6. \E s \in DOMAIN AfterEach[d] :
          /\ AfterEach[d][s].op = "stop"
          /\ \E m \in DOMAIN AfterEach[d][s].procs : AfterEach[d][s].procs[m] = BeforeEach[b][i]
    BY <1>4, <1>5, Zenon
  <1> QED BY <1>3, <1>6

\* The start of an AfterEach block has all of its stops ahead.
LEMMA AllAhead ==
  ASSUME Processes, NEW p \in live, Place', FileOf[block'] = p.holder, step' = 1, member' = 1
  PROVE  StepAhead(p)'
  <1> DEFINE b == block'
  <1>0. b \in AllBlocks
    BY DEF Place, AllBlocks
  <1>1. PICK s \in DOMAIN AfterEach[b] :
              /\ AfterEach[b][s].op = "stop"
              /\ \E m \in DOMAIN AfterEach[b][s].procs : AfterEach[b][s].procs[m] = p.comp
    BY <1>0, Stopped
  <1>2. PICK m \in DOMAIN AfterEach[b][s].procs : AfterEach[b][s].procs[m] = p.comp
    BY <1>1
  <1>4. s \in 1 .. Len(AfterEach[b]) /\ m \in Nat /\ 1 <= m
    BY <1>0, <1>1, <1>2, Blocked
  <1> QED BY <1>1, <1>2, <1>4 DEF StepAhead

\* A step that fails the spec keeps SInv: the variables still hold what they
\* held, and the AfterEach block that is next has everything ahead of it.
LEMMA FailureKeeps ==
  ASSUME Place', StopPlace, Processes, SInv, Fails
  PROVE  SInv'
  <1>1. spec' \in failed' /\ live' \subseteq live
    BY DEF Fails
  <1>2. NoOrphans'
    BY DEF Fails, SInv, NoOrphans, Listening
  <1>3. phase' = "after" => step' = 1
    BY DEF Fails, BlockEnds, ToTeardown
  <1>4. member' = 1
    <2>1. CASE LeavesStop
      BY <2>1 DEF LeavesStop, StopPlace, stopVars
    <2>2. CASE phase \in {"before", "body"} /\ UNCHANGED stopVars
      BY <2>2 DEF StopPlace, At, stopVars
    <2> QED BY <2>1, <2>2 DEF Fails
  <1>5. ToBeStopped'
    BY <1>1, <1>3, <1>4, AllAhead DEF ToBeStopped
  <1>6. /\ UNCHANGED <<spec, context, handle>> /\ failed' = failed \cup {spec}
        /\ phase' # "before" /\ Listening' \subseteq Listening
    BY DEF Fails, BlockEnds, ToTeardown, Listening
  <1>7. OwnHeld' /\ SurvivorsFailed'
    BY <1>6 DEF SInv, OwnHeld, SurvivorsFailed, Held
  <1>8. PassedMeansClean'
    BY <1>1, <1>6 DEF SInv, SurvivorsFailed, PassedMeansClean
  <1> QED BY <1>1, <1>2, <1>5, <1>7, <1>8 DEF SInv, FileIsDone

\* So does one in which processes die at most.
LEMMA AsideKeeps ==
  ASSUME SInv, Aside
  PROVE  SInv'
  <1>1. Listening' \subseteq Listening /\ live' \subseteq live
    BY DEF Aside, Listening
  <1>2. /\ UNCHANGED <<spec, context, phase, block, step, member, unclean, handle, failed>>
        /\ \A p : (Held(p) <=> Held(p)') /\ (StepAhead(p) => StepAhead(p)')
    BY DEF Aside, blockVars, stopVars, Held, StepAhead
  <1>3. NoOrphans'
    BY <1>1, <1>2 DEF SInv, NoOrphans
  <1>4. OwnHeld' /\ SurvivorsFailed'
    BY <1>1, <1>2 DEF SInv, OwnHeld, SurvivorsFailed
  <1>5. ToBeStopped' /\ FileIsDone'
    BY <1>1, <1>2 DEF SInv, ToBeStopped, FileIsDone
  <1>6. PassedMeansClean'
    BY <1>1, <1>2 DEF SInv, PassedMeansClean
  <1> QED BY <1>3, <1>4, <1>5, <1>6 DEF SInv

\* What the variables still hold when a step of the teardown is over is stopped
\* by a later one.
LEMMA NotAtThisStep ==
  ASSUME Place, StopPlace, ToBeStopped, phase = "after",
         At("stop") => member > Len(Arguments) /\ unclean = FALSE,
         NEW p \in live, p.holder = FileOf[block], Held(p)
  PROVE  \E s \in step + 1 .. Len(AfterEach[block]) :
           /\ AfterEach[block][s].op = "stop"
           /\ \E m \in DOMAIN AfterEach[block][s].procs : AfterEach[block][s].procs[m] = p.comp
  <1>1. /\ Len(AfterEach[block]) \in Nat /\ step \in 1 .. Len(AfterEach[block])
        /\ \A s \in 1 .. Len(AfterEach[block]) :
             DOMAIN AfterEach[block][s].procs = 1 .. Len(AfterEach[block][s].procs)
             /\ Len(AfterEach[block][s].procs) \in Nat
    BY Here, Blocked DEF Place
  <1>2. PICK s \in step .. Len(AfterEach[block]) :
          /\ AfterEach[block][s].op = "stop"
          /\ \E m \in DOMAIN AfterEach[block][s].procs :
               /\ AfterEach[block][s].procs[m] = p.comp
               /\ s = step => member <= m \/ unclean
    BY DEF ToBeStopped, StepAhead
  <1>3. s # step
    <2> SUFFICES ASSUME s = step PROVE FALSE
      OBVIOUS
    <2>1. At("stop")
      BY <1>2 DEF At
    <2>2. member > Len(AfterEach[block][step].procs) /\ unclean = FALSE
      BY <2>1 DEF Arguments
    <2>3. PICK m \in 1 .. Len(AfterEach[block][step].procs) : member <= m
      BY <1>1, <1>2, <2>2
    <2>4. member \in Nat /\ Len(AfterEach[block][step].procs) \in Nat
      BY <1>1 DEF StopPlace
    <2> QED BY <2>2, <2>3, <2>4
  <1>4. s \in step + 1 .. Len(AfterEach[block])
    BY <1>1, <1>3
  <1> QED BY <1>2, <1>4

\* A step of the teardown that is over has left none of its processes.
LEMMA StepsOnKeeps ==
  ASSUME Place, Place', StopPlace, StopPlace', Processes, SInv, StepsOn
  PROVE  SInv'
  <1>1. /\ UNCHANGED <<spec, context, live, handle, failed>> /\ phase = "after" /\ StepDone
        /\ Listening' = Listening /\ block \in AllBlocks
        /\ \A p : Held(p) <=> Held(p)'
    BY Here DEF StepsOn, Listening, Held
  <1>2. member' = 1
    BY DEF StepsOn, LeavesStop, StopPlace, stopVars
  <1>3. /\ Len(AfterEach[block]) \in Nat /\ step \in 1 .. Len(AfterEach[block])
        /\ \A s \in 1 .. Len(AfterEach[block]) :
             DOMAIN AfterEach[block][s].procs = 1 .. Len(AfterEach[block][s].procs)
             /\ Len(AfterEach[block][s].procs) \in Nat
    BY <1>1, Blocked DEF Place
  <1>4. ASSUME NEW p \in live, p.holder = FileOf[block], Held(p)
        PROVE  \E s \in step + 1 .. Len(AfterEach[block]) :
                 /\ AfterEach[block][s].op = "stop"
                 /\ \E m \in DOMAIN AfterEach[block][s].procs : AfterEach[block][s].procs[m] = p.comp
    BY <1>1, <1>4, NotAtThisStep DEF SInv, StepsOn
  <1>6. NoOrphans'
    BY <1>1 DEF SInv, NoOrphans
  <1>7. phase' \in {"after", "idle"}
    BY <1>1 DEF StepDone, BlockEnds
  <1>8. OwnHeld' /\ SurvivorsFailed'
    BY <1>1, <1>7 DEF SInv, OwnHeld, SurvivorsFailed
  <1>9. CASE step # Len(AfterEach[block]) /\ step' = step + 1 /\ UNCHANGED <<block, phase>>
    <2>1. ASSUME NEW p \in live, p.holder = FileOf[block], Held(p) PROVE StepAhead(p)'
      <3>1. PICK s \in step + 1 .. Len(AfterEach[block]) :
                 /\ AfterEach[block][s].op = "stop"
                 /\ \E m \in DOMAIN AfterEach[block][s].procs : AfterEach[block][s].procs[m] = p.comp
        BY <1>4, <2>1
      <3>2. PICK m \in DOMAIN AfterEach[block][s].procs : AfterEach[block][s].procs[m] = p.comp
        BY <3>1
      <3>3. m \in Nat /\ 1 <= m
        <4>1. s \in 1 .. Len(AfterEach[block])
          BY <1>3, <3>1
        <4>2. DOMAIN AfterEach[block][s].procs = 1 .. Len(AfterEach[block][s].procs)
              /\ Len(AfterEach[block][s].procs) \in Nat
          BY <1>3, <4>1
        <4> QED BY <3>2, <4>2
      <3> QED BY <1>2, <1>9, <3>1, <3>2, <3>3 DEF StepAhead
    <2>2. ToBeStopped' /\ FileIsDone'
      BY <1>1, <1>9, <2>1 DEF SInv, ToBeStopped, FileIsDone
    <2>3. PassedMeansClean'
      BY <1>1, <1>9 DEF PassedMeansClean
    <2> QED BY <1>6, <1>8, <2>2, <2>3 DEF SInv
  <1>10. CASE step = Len(AfterEach[block]) /\ BlockEnds
    <2>1. ASSUME NEW p \in Listening, p.holder = FileOf[block]
          PROVE  p.holder \in Resets /\ p.spec # spec
      <3>1. ~Held(p)
        BY <1>3, <1>4, <1>10, <2>1 DEF Listening
      <3> QED BY <3>1 DEF SInv, NoOrphans, OwnHeld, Held
    <2>2. CASE block # SuiteBlock
      <3>1. block = context /\ block' = SuiteBlock /\ phase' = "after" /\ step' = 1
        BY <1>1, <1>10, <2>2 DEF BlockEnds, Place
      <3>2. \A p \in live : p.holder = FileOf[block'] => StepAhead(p)'
        BY <1>2, <3>1, AllAhead
      <3>3. ToBeStopped' /\ FileIsDone'
        BY <1>1, <2>1, <3>1, <3>2 DEF ToBeStopped, FileIsDone
      <3>4. PassedMeansClean'
        BY <3>1 DEF PassedMeansClean
      <3> QED BY <1>6, <1>8, <3>3, <3>4 DEF SInv
    <2>3. CASE block = SuiteBlock
      <3>1. phase' = "idle" /\ FileOf[block] = SuiteBlock /\ SuiteBlock \notin Resets
        BY <1>1, <1>10, <2>3, Blocked, SuiteAssumption DEF BlockEnds
      <3>2. \A p \in Listening : p.holder # SuiteBlock
        BY <2>1, <3>1
      <3>3. ASSUME spec \notin failed, NEW p \in Listening
            PROVE  /\ p.spec # spec
                   /\ p.holder = FileOf[context] => p.holder \in Resets
        <4>1. CASE p.holder = FileOf[context]
          <5>1. block # context
            BY <2>3, <3>1, <3>2, <4>1
          <5> QED BY <1>1, <3>3, <4>1, <5>1 DEF SInv, FileIsDone
        <4>2. CASE p.holder # FileOf[context]
          BY <3>2, <4>2 DEF SInv, OwnHeld
        <4> QED BY <4>1, <4>2
      <3>4. ASSUME NEW p \in Listening PROVE p.spec \in failed
        <4>1. CASE p.spec # spec
          BY <4>1 DEF SInv, SurvivorsFailed
        <4>2. CASE p.spec = spec
          BY <3>3, <4>2
        <4> QED BY <4>1, <4>2
      <3>5. PassedMeansClean'
        BY <1>1, <3>2, <3>3, <3>4 DEF PassedMeansClean
      <3>6. ToBeStopped' /\ FileIsDone'
        BY <3>1 DEF ToBeStopped, FileIsDone
      <3> QED BY <1>6, <1>8, <3>5, <3>6 DEF SInv
    <2> QED BY <2>2, <2>3
  <1> QED BY <1>1, <1>9, <1>10 DEF StepDone

\* StopProcesses signals what its variables hold, and that is all there is.
LEMMA StopsOneKeeps ==
  ASSUME Place, StopPlace, Processes, SInv, StopsOne
  PROVE  SInv'
  <1>1. /\ UNCHANGED <<spec, context, phase, block, step, handle, failed>> /\ phase = "after"
        /\ Listening' \subseteq Listening /\ live' \subseteq live /\ block \in AllBlocks
        /\ AfterEach[block][step].op = "stop"
        /\ \A p : Held(p) <=> Held(p)'
    BY Here DEF StopsOne, blockVars, Listening, Held, At
  <1>2. NoOrphans'
    BY <1>1 DEF SInv, NoOrphans
  <1>3. OwnHeld' /\ SurvivorsFailed'
    BY <1>1 DEF SInv, OwnHeld, SurvivorsFailed
  <1>4. PassedMeansClean'
    BY <1>1 DEF PassedMeansClean
  <1>5. ASSUME NEW p \in live', p.holder = FileOf[block], Held(p) PROVE StepAhead(p)'
    <2>1. p \in live
      BY <1>1
    <2>2. PICK s \in step .. Len(AfterEach[block]) :
            /\ AfterEach[block][s].op = "stop"
            /\ \E m \in DOMAIN AfterEach[block][s].procs :
                 /\ AfterEach[block][s].procs[m] = p.comp
                 /\ s = step => member <= m \/ unclean
      BY <1>1, <1>5, <2>1 DEF SInv, ToBeStopped, StepAhead
    <2>3. PICK m \in DOMAIN AfterEach[block][s].procs :
                 /\ AfterEach[block][s].procs[m] = p.comp
                 /\ s = step => member <= m \/ unclean
      BY <2>2
    <2>5. p = Process(FileOf[block], p.comp, handle[<<FileOf[block], p.comp>>])
      BY <1>5, <2>1 DEF Processes, Held
    <2>6. s = step => member' <= m \/ unclean'
      <3> SUFFICES ASSUME s = step PROVE member' <= m \/ unclean'
        OBVIOUS
      <3>1. CASE unclean' = TRUE
        BY <3>1
      <3>2. CASE unclean' = unclean /\ Target \notin live'
        <4>1. m = member => p = Target
          BY <2>3, <2>5 DEF Target, Arguments
        <4>2. m # member
          BY <3>2, <4>1
        <4>3. DOMAIN AfterEach[block][s].procs = 1 .. Len(AfterEach[block][s].procs)
              /\ Len(AfterEach[block][s].procs) \in Nat
          <5>1. s \in DOMAIN AfterEach[block]
            BY <1>1, Blocked DEF Place
          <5> QED BY <1>1, <5>1, Blocked
        <4>4. m \in Nat /\ member \in Nat /\ member' = member + 1
          BY <4>3 DEF StopPlace, StopsOne
        <4>5. CASE unclean
          BY <3>2, <4>5
        <4>6. CASE member <= m
          BY <4>2, <4>4, <4>6
        <4> QED BY <2>3, <4>5, <4>6
      <3> QED BY <3>1, <3>2 DEF StopsOne
    <2> QED BY <1>1, <2>2, <2>3, <2>6 DEF StepAhead
  <1>6. ToBeStopped' /\ FileIsDone'
    BY <1>1, <1>5 DEF SInv, ToBeStopped, FileIsDone
  <1> QED BY <1>2, <1>3, <1>4, <1>6 DEF SInv

\* The teardown begins with everything ahead of it.
LEMMA BodyEndsKeeps ==
  ASSUME Place, Place', StopPlace, Processes, SInv, BodyEnds
  PROVE  SInv'
  <1>1. /\ UNCHANGED <<spec, context, block, handle, failed, live>> /\ phase = "body"
        /\ phase' = "after" /\ step' = 1 /\ block = context /\ Listening' = Listening
        /\ \A p : Held(p) <=> Held(p)'
    BY DEF BodyEnds, ToTeardown, spaceVars, Place, Listening, Held
  <1>2. member' = 1
    BY <1>1 DEF BodyEnds, StopPlace, At, stopVars
  <1>3. NoOrphans' /\ OwnHeld' /\ SurvivorsFailed' /\ PassedMeansClean'
    BY <1>1 DEF SInv, NoOrphans, OwnHeld, SurvivorsFailed, PassedMeansClean
  <1>4. \A p \in live : p.holder = FileOf[block] => StepAhead(p)'
    BY <1>1, <1>2, AllAhead
  <1>5. ToBeStopped' /\ FileIsDone'
    BY <1>1, <1>4 DEF ToBeStopped, FileIsDone
  <1> QED BY <1>3, <1>5 DEF SInv

\* A spec begins with no component of its own.
LEMMA BeginSpecKeeps ==
  ASSUME Place, Processes, SInv, BeginSpec
  PROVE  SInv'
  <1>1. /\ UNCHANGED <<live, handle, failed>> /\ phase = "idle" /\ phase' = "before" /\ step' = 1
        /\ spec' = spec + 1 /\ spec \in Nat
    BY Here DEF BeginSpec, spaceVars
  <1>2. NoOrphans'
    BY <1>1 DEF SInv, NoOrphans, Listening
  <1>3. ToBeStopped' /\ FileIsDone' /\ PassedMeansClean'
    BY <1>1 DEF ToBeStopped, FileIsDone, PassedMeansClean
  <1>4. \A p \in Listening : p.spec # spec' /\ p.spec \in failed
    <2> SUFFICES ASSUME NEW p \in Listening PROVE p.spec # spec' /\ p.spec \in failed
      OBVIOUS
    <2>1. p.spec \in failed
      BY <1>1 DEF SInv, PassedMeansClean
    <2>2. p.spec \in 1 .. spec
      BY DEF Processes, Listening
    <2> QED BY <1>1, <2>1, <2>2
  <1>5. OwnHeld' /\ SurvivorsFailed'
    BY <1>1, <1>4 DEF OwnHeld, SurvivorsFailed, Listening
  <1> QED BY <1>2, <1>3, <1>5 DEF SInv

\* A component that starts takes over its variable: no other process listens
\* for it.
LEMMA InvokeKeeps ==
  ASSUME Place, Processes, SInv, InvokeSucceeds
  PROVE  SInv'
  <1> DEFINE f == FileOf[block]
             new == Process(f, Starting, spec)
             v == <<f, Starting>>
  <1>1. /\ UNCHANGED <<spec, context, failed>> /\ phase = "before" /\ ~Up(Starting)
        /\ live' = live \cup {new} /\ handle' = Assigned(f, Starting)
        /\ v \in Variables /\ block \in {SuiteBlock, context}
        /\ f = SuiteBlock <=> block = SuiteBlock
    BY Here, Blocked DEF InvokeSucceeds, Place
  <1>2. new.holder = f /\ new.comp = Starting /\ new.spec = spec
    BY DEF Process
  <1> HIDE DEF f
  <1>3. ASSUME NEW p \in Listening'
        PROVE  \/ p = new /\ handle'[<<p.holder, p.comp>>] = p.spec
               \/ /\ p \in Listening /\ p.comp # Starting
                  /\ <<p.holder, p.comp>> \in Variables
                  /\ ~(EntersContext /\ p.holder = FileOf[context] /\ FileOf[context] \in Resets) =>
                       handle'[<<p.holder, p.comp>>] = handle[<<p.holder, p.comp>>]
    <2>1. CASE p = new
      <3>1. handle'[v] = spec
        BY <1>1 DEF Assigned
      <3> QED BY <1>2, <2>1, <3>1
    <2>2. CASE p \in live /\ p # new
      <3>1. p \in Listening /\ p.comp # Starting
        BY <1>1, <1>3, <2>2 DEF Listening, Up
      <3>2. <<p.holder, p.comp>> \in Variables /\ <<p.holder, p.comp>> # v
        BY <2>2, <3>1 DEF Processes
      <3>3. handle'[<<p.holder, p.comp>>] =
              IF EntersContext /\ p.holder = FileOf[context] /\ FileOf[context] \in Resets THEN 0
              ELSE handle[<<p.holder, p.comp>>]
        BY <1>1, <3>2 DEF Assigned
      <3> QED BY <3>1, <3>2, <3>3
    <2> QED BY <1>1, <1>3, <2>1, <2>2 DEF Listening
  <1>4. NoOrphans'
    BY <1>3 DEF SInv, NoOrphans
  <1>5. phase' # "after" /\ phase' # "idle"
    BY <1>1, Invoked
  <1>6. ToBeStopped' /\ FileIsDone' /\ PassedMeansClean'
    BY <1>5 DEF ToBeStopped, FileIsDone, PassedMeansClean
  <1>7. SurvivorsFailed'
    BY <1>1, <1>2, <1>3 DEF SInv, SurvivorsFailed
  <1>8. f \in {SuiteBlock, FileOf[context]}
    BY <1>1 DEF f
  <1>9. phase' = "before" /\ block' = SuiteBlock => block = SuiteBlock /\ f = SuiteBlock
    BY <1>1, Invoked DEF EntersContext
  <1>10. EntersContext => block = SuiteBlock /\ FileOf[context] # SuiteBlock
    <2>1. context # SuiteBlock => FileOf[context] # SuiteBlock
      BY Here, Blocked
    <2> QED BY <2>1 DEF EntersContext
  <1>11. ASSUME NEW p \in Listening', p.spec = spec
         PROVE  /\ Held(p)'
                /\ p.holder \in {SuiteBlock, FileOf[context]}
                /\ phase' = "before" /\ block' = SuiteBlock => p.holder = SuiteBlock
    <2>1. CASE p = new /\ handle'[<<p.holder, p.comp>>] = p.spec
      BY <1>2, <1>8, <1>9, <2>1 DEF Held
    <2>2. CASE /\ p \in Listening
               /\ ~(EntersContext /\ p.holder = FileOf[context] /\ FileOf[context] \in Resets) =>
                       handle'[<<p.holder, p.comp>>] = handle[<<p.holder, p.comp>>]
      <3>1. /\ Held(p) /\ p.holder \in {SuiteBlock, FileOf[context]}
            /\ block = SuiteBlock => p.holder = SuiteBlock
        BY <1>1, <1>11, <2>2 DEF SInv, OwnHeld
      <3>2. handle'[<<p.holder, p.comp>>] = handle[<<p.holder, p.comp>>]
        BY <1>10, <2>2, <3>1
      <3> QED BY <1>9, <3>1, <3>2 DEF Held
    <2> QED BY <1>3, <2>1, <2>2
  <1>12. OwnHeld'
    BY <1>1, <1>11 DEF OwnHeld
  <1> QED BY <1>4, <1>6, <1>7, <1>12 DEF SInv

\* A component that a test restarts takes over the variable of the old one.
LEMMA RestartKeeps ==
  ASSUME Place, Processes, SInv, NEW c, Restarts(c)
  PROVE  SInv'
  <1> DEFINE old == Process(SuiteBlock, c, handle[<<SuiteBlock, c>>])
             new == Process(SuiteBlock, c, spec)
             v == <<SuiteBlock, c>>
  <1>1. /\ UNCHANGED <<spec, context, phase, block, step, failed>>
        /\ phase \in {"before", "body"} /\ old \in live /\ live' = (live \ {old}) \cup {new}
        /\ handle' = [handle EXCEPT ![v] = spec]
    BY DEF Restarts, blockVars
  <1>2. /\ old.holder = SuiteBlock /\ old.comp = c
        /\ new.holder = SuiteBlock /\ new.comp = c /\ new.spec = spec
    BY DEF Process
  <1>3. v \in Variables /\ v \in DOMAIN handle
    BY <1>1, <1>2 DEF Processes
  <1>4. ASSUME NEW p \in Listening'
        PROVE  \/ p.holder = SuiteBlock /\ p.spec = spec /\ Held(p)'
               \/ p \in Listening /\ (Held(p) => Held(p)')
    <2>1. CASE p = new
      BY <1>1, <1>2, <1>3, <2>1 DEF Held
    <2>2. CASE p \in live /\ p # old
      <3>1. p \in Listening
        BY <2>2, <1>4 DEF Listening
      <3>2. CASE <<p.holder, p.comp>> = v
        <4>1. p.holder = SuiteBlock /\ p.comp = c
          BY <3>2
        <4>2. Held(p)
          BY <3>1, <4>1, SuiteAssumption DEF SInv, NoOrphans, Held
        <4>3. p = old
          BY <2>2, <4>1, <4>2 DEF Processes, Held
        <4> QED BY <2>2, <4>3
      <3>3. CASE <<p.holder, p.comp>> # v
        BY <1>1, <3>1, <3>3 DEF Held, Processes
      <3> QED BY <3>2, <3>3
    <2> QED BY <1>1, <1>4, <2>1, <2>2 DEF Listening
  <1>5. NoOrphans'
    BY <1>4 DEF SInv, NoOrphans, Held
  <1>6. OwnHeld' /\ SurvivorsFailed'
    BY <1>1, <1>4 DEF SInv, OwnHeld, SurvivorsFailed
  <1>7. ToBeStopped' /\ FileIsDone' /\ PassedMeansClean'
    BY <1>1 DEF ToBeStopped, FileIsDone, PassedMeansClean
  <1> QED BY <1>5, <1>6, <1>7 DEF SInv

-----------------------------------------------------------------------------
\* The first state satisfies IInv.
LEMMA Initially == Init => IInv
  <1> SUFFICES ASSUME Init PROVE IInv
    OBVIOUS
  <1>1. Blocks \in Nat /\ MaxFaults \in Nat /\ MaxSpecs \in Nat
    BY SuiteAssumption
  <1>2. Place
    BY <1>1 DEF Init, Place, AllBlocks
  <1>3. StopPlace
    <2>1. member = 1 /\ unclean = FALSE
      BY DEF Init
    <2>2. member \in Nat \ {0}
      BY <2>1
    <2>3. unclean \in BOOLEAN
      BY <2>1
    <2> QED BY <2>1, <2>2, <2>3 DEF StopPlace
  <1>4. Processes
    <2>1. live = {} /\ spec = 0 /\ handle = [v \in Variables |-> 0]
      BY DEF Init
    <2>2. handle \in [Variables -> 0 .. 0]
      BY <2>1
    <2> QED BY <2>1, <2>2 DEF Processes
  <1>5. GardenState
    <2>1. client \in BOOLEAN
      BY DEF Init
    <2>2. blocks \in 0 .. Blocks /\ tries \in 0 .. MaxTries
      BY <1>1 DEF Init, MaxTries
    <2> QED BY <2>1, <2>2 DEF Init, GardenState
  <1>6. Reports
    BY <1>1 DEF Init, Reports
  <1>7. SInv
    BY DEF Init, SInv, NoOrphans, OwnHeld, SurvivorsFailed, ToBeStopped, FileIsDone,
           PassedMeansClean, Listening
  <1> QED BY <1>2, <1>3, <1>4, <1>5, <1>6, <1>7 DEF IInv, TInv

\* Every step keeps IInv.
LEMMA Inductive == IInv /\ [Next]_vars => IInv'
  <1> SUFFICES ASSUME IInv, [Next]_vars PROVE IInv'
    OBVIOUS
  <1>1. Place /\ StopPlace /\ Processes /\ GardenState /\ Reports /\ SInv
    BY DEF IInv, TInv
  <1>2. Place' /\ StopPlace' /\ Processes'
    BY <1>1, PlaceStep, StopPlaceStep, ProcessesStep
  <1>3. GardenState' /\ Reports'
    BY <1>1, GardenStep, ReportsStep
  <1>4. SInv'
    BY <1>1, <1>2, Kinds, AsideKeeps, FailureKeeps, StepsOnKeeps, StopsOneKeeps, BodyEndsKeeps,
       BeginSpecKeeps, InvokeKeeps, RestartKeeps
  <1> QED BY <1>2, <1>3, <1>4 DEF IInv, TInv

\* IInv holds of every reachable state.
LEMMA Invariance == Spec => []IInv
  BY Initially, Inductive, PTL DEF Spec

\* The types, for every suite; CleanupGarden tries a container at most three
\* times.
THEOREM TypeCorrect == Spec => []TypeOK
  <1>1. IInv => TypeOK
    <2> SUFFICES ASSUME IInv PROVE TypeOK
      OBVIOUS
    <2>1. Place /\ StopPlace /\ Processes /\ GardenState /\ Reports
      BY DEF IInv, TInv
    <2>2. live \subseteq {Process(v[1], v[2], s) : v \in Variables, s \in 1 .. spec}
      <3> SUFFICES ASSUME NEW p \in live
                   PROVE  \E v \in Variables, s \in 1 .. spec : p = Process(v[1], v[2], s)
        OBVIOUS
      <3>1. /\ p = Process(p.holder, p.comp, p.spec) /\ <<p.holder, p.comp>> \in Variables
            /\ p.spec \in 1 .. spec
        BY <2>1 DEF Processes
      <3> DEFINE v == <<p.holder, p.comp>>
      <3>2. v[1] = p.holder /\ v[2] = p.comp
        OBVIOUS
      <3> QED BY <3>1, <3>2
    <2>3. lost \cup failed \cup troubled \subseteq 0 .. spec
      BY <2>1 DEF Reports
    <2> QED BY <2>1, <2>2, <2>3 DEF TypeOK, Place, StopPlace, Processes, GardenState, Reports
  <1> QED BY <1>1, Invariance, PTL

\* The variable a process was started for still holds it: a later teardown can
\* stop it, whatever failed in between.
THEOREM WithinReach == Spec => []NoOrphans
  <1>1. IInv => NoOrphans
    BY DEF IInv, SInv
  <1> QED BY <1>1, Invariance, PTL

\* Whatever still runs when a spec is over was started by a spec that has been
\* reported as failed; and a spec that passed leaves nothing running of the
\* suite's or of its file's, unless the file sets its variables to nil.
THEOREM PassedIsClean == Spec => []PassedMeansClean
  <1>1. IInv => PassedMeansClean
    BY DEF IInv, SInv
  <1> QED BY <1>1, Invariance, PTL

\* In a suite whose block stops one component at a time, the last one started
\* first, no component of the suite is signalled while one that was started after
\* it still runs; and when a file's process still runs then, the spec that
\* started it has been reported as failed.
THEOREM StopsInOrder == StopsInReverse => (Spec => DependantsStopFirst)
  <1> SUFFICES ASSUME StopsInReverse PROVE Spec => DependantsStopFirst
    OBVIOUS
  <1>1. IInv /\ [Next]_vars => [SignalsLastStarted]_vars
    <2> SUFFICES ASSUME IInv, NEW p \in live, StopTerminates \/ StopTimesOut, p = Target,
                        block = SuiteBlock, NEW q \in Listening \ {p}
                 PROVE  IF q.holder = SuiteBlock
                        THEN \E i, j \in DOMAIN BeforeEach[SuiteBlock] :
                               /\ i < j /\ BeforeEach[SuiteBlock][i] = q.comp
                               /\ BeforeEach[SuiteBlock][j] = p.comp
                        ELSE q.spec \in failed
      BY DEF SignalsLastStarted
    <2>1. /\ Place /\ StopPlace /\ Processes
          /\ NoOrphans /\ OwnHeld /\ SurvivorsFailed /\ ToBeStopped /\ FileIsDone
      BY DEF IInv, TInv, SInv
    <2>2. /\ phase = "after" /\ AfterEach[SuiteBlock][step].op = "stop"
          /\ member <= Len(Arguments)
      BY DEF StopTerminates, StopTimesOut, At
    <2>3. SuiteBlock \in AllBlocks /\ context \in AllBlocks
      BY <2>1, Here
    <2>4. /\ FileOf[SuiteBlock] = SuiteBlock
          /\ FileOf[context] = SuiteBlock <=> context = SuiteBlock
      BY <2>3, Blocked
    <2>5. CASE q.holder = SuiteBlock
      <3>1. p.holder = SuiteBlock /\ p.comp = Arguments[member]
        BY <2>4 DEF Target, Process
      <3>2. step \in DOMAIN AfterEach[SuiteBlock] /\ step \in Nat
        BY <2>1, <2>2, <2>3, Blocked DEF Place
      <3>3. member \in DOMAIN AfterEach[SuiteBlock][step].procs
        BY <2>1, <2>2, <2>3, <3>2, Blocked DEF Arguments, StopPlace
      <3>4. q \in live /\ Held(q)
        BY <2>1, <2>5, SuiteAssumption DEF NoOrphans, Held, Listening
      <3>5. StepAhead(q)
        BY <2>1, <2>2, <2>4, <2>5, <3>4 DEF ToBeStopped
      <3>6. PICK s \in step .. Len(AfterEach[SuiteBlock]) :
              /\ AfterEach[SuiteBlock][s].op = "stop"
              /\ \E m \in DOMAIN AfterEach[SuiteBlock][s].procs :
                   AfterEach[SuiteBlock][s].procs[m] = q.comp
        BY <3>5 DEF StepAhead
      <3>7. PICK m \in DOMAIN AfterEach[SuiteBlock][s].procs :
              AfterEach[SuiteBlock][s].procs[m] = q.comp
        BY <3>6
      <3>8. s \in DOMAIN AfterEach[SuiteBlock] /\ step <= s /\ s \in Nat
        BY <2>3, <3>2, <3>6, Blocked
      <3>9. s # step
        <4> SUFFICES ASSUME s = step PROVE FALSE
          OBVIOUS
        <4>1. m = member
          BY <2>2, <3>2, <3>3, <3>7 DEF StopsInReverse
        <4>2. q.comp = p.comp
          BY <3>1, <3>7, <4>1 DEF Arguments
        <4>3. q = Process(q.holder, q.comp, handle[<<q.holder, q.comp>>])
          BY <2>1, <3>4 DEF Processes, Held
        <4>4. p = Process(SuiteBlock, p.comp, handle[<<SuiteBlock, p.comp>>])
          BY <2>4, <3>1 DEF Target
        <4> QED BY <2>5, <4>2, <4>3, <4>4
      <3>10. step < s
        BY <3>2, <3>8, <3>9
      <3>11. \E i, j \in DOMAIN BeforeEach[SuiteBlock] :
               /\ i < j
               /\ BeforeEach[SuiteBlock][i] = AfterEach[SuiteBlock][s].procs[m]
               /\ BeforeEach[SuiteBlock][j] = AfterEach[SuiteBlock][step].procs[member]
        BY <2>2, <3>2, <3>3, <3>6, <3>8, <3>10 DEF StopsInReverse
      <3> QED BY <2>5, <3>1, <3>7, <3>11 DEF Arguments
    <2>6. CASE q.holder # SuiteBlock
      <3>1. CASE q.spec # spec
        BY <2>1, <2>6, <3>1 DEF SurvivorsFailed
      <3>2. CASE q.spec = spec
        <4>1. q.holder = FileOf[context]
          BY <2>1, <2>6, <3>2 DEF OwnHeld
        <4>2. block # context
          BY <2>4, <2>6, <4>1
        <4> QED BY <2>1, <2>2, <2>6, <3>2, <4>1, <4>2 DEF FileIsDone
      <3> QED BY <3>1, <3>2
    <2> QED BY <2>5, <2>6
  <1> QED BY <1>1, Invariance, PTL DEF Spec, DependantsStopFirst

-----------------------------------------------------------------------------
(***************************************************************************)
(* A suite that starts garden first (GardenFirst) works again one spec     *)
(* after a fault.  Garden is what the suite's AfterEach depends on: with   *)
(* garden and its client there, CleanupGarden does not end the teardown    *)
(* before StopProcesses has run.                                           *)
(***************************************************************************)

\* The allocator has a block of ports for the garden of every spec to come.
Ample ==
  blocks + spec >= MaxSpecs + (IF phase = "before" /\ block = SuiteBlock /\ step = 1 THEN 1 ELSE 0)

\* Garden has been started, and a cleanup may be to come.
NeedsGarden ==
  \/ phase = "before" /\ ~(block = SuiteBlock /\ step = 1)
  \/ phase = "body"
  \/ phase = "after" /\ block # SuiteBlock
  \/ At("cleanup")

CleansInv ==
  /\ Ample
  /\ Up(Garden) => client
  /\ unclean => spec \in troubled
  /\ spec \notin troubled /\ NeedsGarden => Up(Garden)
  /\ AfterEachCleansUp

\* Garden is a process of the suite's own block, and keeps its ports.
LEMMA GardenProcess ==
  ASSUME GardenFirst, Processes
  PROVE  /\ Up(Garden) <=> \E p \in live : p.comp = Garden
         /\ \A p \in live : p.comp = Garden => p.holder = SuiteBlock
         /\ Up(Garden)' <=> \E p \in live' : p.comp = Garden
  <1>1. Up(Garden) <=> \E p \in live : p.comp = Garden
    BY DEF GardenFirst, Up
  <1>2. Up(Garden)' <=> \E p \in live' : p.comp = Garden
    BY DEF GardenFirst, Up, Garden
  <1>3. ASSUME NEW p \in live, p.comp = Garden PROVE p.holder = SuiteBlock
    <2>1. <<p.holder, Garden>> \in Variables
      BY <1>3 DEF Processes
    <2>2. PICK b \in AllBlocks :
            FileOf[b] = p.holder /\ \E i \in DOMAIN BeforeEach[b] : BeforeEach[b][i] = Garden
      BY <2>1, VariableOf
    <2>3. b = SuiteBlock
      BY <2>2 DEF GardenFirst
    <2> QED BY <2>2, <2>3, Blocked
  <1> QED BY <1>1, <1>2, <1>3

\* Only garden takes blocks of ports.
LEMMA GardenPorts ==
  ASSUME GardenFirst, Place, phase = "before"
  PROVE  /\ Starting = Garden <=> block = SuiteBlock /\ step = 1
         /\ HasPorts(Starting) <=> (block = SuiteBlock /\ step = 1 => blocks > 0)
         /\ TakePorts(Starting) =>
              blocks' = IF block = SuiteBlock /\ step = 1 THEN blocks - 1 ELSE blocks
  <1>1. Starting = Garden <=> block = SuiteBlock /\ step = 1
    BY Here DEF GardenFirst, Starting
  <1> QED BY <1>1 DEF HasPorts, TakePorts

\* A step of the teardown by which the position moves.  When the suite's
\* AfterEach ends, nothing that is left of it may listen.
LEMMA TeardownMoves ==
  ASSUME GardenFirst, IInv, CleansInv, phase = "after", StepDone \/ BlockEnds,
         UNCHANGED <<spec, context, live, client, blocks, troubled>>, unclean' \in {unclean, FALSE},
         spec \notin troubled /\ block = SuiteBlock /\ phase' = "idle" =>
           \A p \in Listening : p.holder # SuiteBlock
  PROVE  CleansInv'
  <1>1. Place /\ Processes
    BY DEF IInv, TInv
  <1>2. Place' /\ step \in Nat \ {0} /\ SuiteBlock \in AllBlocks
    BY <1>1, Moves, Here DEF Place
  <1>3. \/ block # SuiteBlock /\ phase' = "after"
        \/ block = SuiteBlock /\ phase' = "idle"
        \/ block = SuiteBlock /\ block' = SuiteBlock /\ phase' = "after" /\ step' = step + 1
    BY DEF StepDone, BlockEnds
  <1>4. (Up(Garden)' <=> Up(Garden)) /\ Listening' = Listening
    BY DEF Up, Listening, Garden
  <1>5. Ample'
    BY <1>3 DEF CleansInv, Ample
  <1>6. NeedsGarden' => NeedsGarden
    <2>1. CASE block # SuiteBlock
      BY <2>1 DEF NeedsGarden
    <2>2. CASE phase' = "idle"
      BY <2>2 DEF NeedsGarden, At
    <2>3. CASE block' = SuiteBlock /\ phase' = "after" /\ step' = step + 1
      <3>1. step' \in DOMAIN AfterEach[SuiteBlock] /\ step' # 1
        BY <1>2, <2>3, Blocked DEF Place
      <3>2. AfterEach[SuiteBlock][step'].op # "cleanup"
        BY <3>1 DEF GardenFirst, CleansThenReports
      <3> QED BY <2>3, <3>2 DEF NeedsGarden, At
    <2> QED BY <1>3, <2>1, <2>2, <2>3
  <1>7. unclean' => spec' \in troubled'
    BY DEF CleansInv
  <1>8. AfterEachCleansUp'
    BY <1>3, <1>4 DEF AfterEachCleansUp
  <1> QED BY <1>4, <1>5, <1>6, <1>7, <1>8 DEF CleansInv

\* A step away from the teardown's path, in which no process comes or goes.
LEMMA NothingComesOrGoes ==
  ASSUME CleansInv, UNCHANGED <<spec, blockVars, live, client, blocks, unclean, troubled>>
  PROVE  CleansInv'
  <1>1. (Up(Garden)' <=> Up(Garden)) /\ Listening' = Listening
    BY DEF Up, Listening, Garden
  <1>2. Ample' /\ (NeedsGarden' <=> NeedsGarden)
    BY DEF CleansInv, Ample, NeedsGarden, At, blockVars
  <1>3. AfterEachCleansUp'
    BY <1>1 DEF CleansInv, AfterEachCleansUp, blockVars
  <1> QED BY <1>1, <1>2, <1>3 DEF CleansInv

\* In a troubled spec, little is asked.
LEMMA Troubled ==
  ASSUME CleansInv, spec' \in troubled', Ample', Up(Garden)' => client'
  PROVE  CleansInv'
  BY DEF CleansInv, AfterEachCleansUp

\* The steps before the teardown.
LEMMA CleansBefore ==
  ASSUME GardenFirst, IInv, CleansInv, BeginSpec \/ SetUp \/ BodyEnds
  PROVE  CleansInv'
  <1>1. /\ Place /\ Processes /\ spec \in Nat /\ blocks \in Nat /\ MaxSpecs \in Nat
        /\ SuiteBlock \in AllBlocks /\ block \in AllBlocks
    BY Here, SuiteAssumption DEF IInv, TInv, GardenState
  <1>2. /\ Up(Garden) <=> \E p \in live : p.comp = Garden
        /\ Up(Garden)' <=> \E p \in live' : p.comp = Garden
    BY <1>1, GardenProcess
  <1>3. unclean = FALSE /\ unclean' = unclean
    BY DEF IInv, TInv, StopPlace, At, BeginSpec, SetUp, InvokeSucceeds, InvokeFails, BodyEnds, stopVars
  <1>4. CASE BeginSpec
    <2>1. /\ phase' = "before" /\ block' = SuiteBlock /\ step' = 1 /\ phase = "idle"
          /\ UNCHANGED <<live, client, blocks>> /\ spec' = spec + 1
      BY <1>4 DEF BeginSpec, spaceVars
    <2>2. Ample'
      BY <1>1, <2>1 DEF CleansInv, Ample
    <2>3. ~NeedsGarden' /\ AfterEachCleansUp'
      BY <2>1 DEF NeedsGarden, At, AfterEachCleansUp
    <2> QED BY <1>2, <1>3, <2>1, <2>2, <2>3 DEF CleansInv
  <1>5. CASE InvokeSucceeds
    <2>1. /\ phase = "before" /\ UNCHANGED <<spec, context, troubled>>
          /\ TakePorts(Starting)
          /\ live' = live \cup {Process(FileOf[block], Starting, spec)}
          /\ client' = (client \/ Starting = ClientAfter)
      BY <1>5 DEF InvokeSucceeds, faultVars
    <2> DEFINE new == Process(FileOf[block], Starting, spec)
    <2>0. new.comp = Starting /\ live' = live \cup {new}
      BY <2>1 DEF Process
    <2> HIDE DEF new
    <2>2. Up(Garden)' => client'
      <3>1. CASE Starting = Garden
        BY <2>1, <3>1 DEF GardenFirst
      <3>2. CASE Starting # Garden
        <4>1. Up(Garden)' => Up(Garden)
          BY <1>2, <2>0, <3>2
        <4> QED BY <2>1, <4>1 DEF CleansInv
      <3> QED BY <3>1, <3>2
    <2>3. spec \notin troubled => Up(Garden)'
      <3>1. CASE Starting = Garden
        BY <1>2, <2>0, <3>1
      <3>2. CASE Starting # Garden
        <4>1. spec \notin troubled => Up(Garden)
          BY <1>1, <2>1, <3>2, GardenPorts DEF CleansInv, NeedsGarden
        <4> QED BY <1>2, <2>1, <4>1
      <3> QED BY <3>1, <3>2
    <2>4. phase' # "idle" /\ ~(phase' = "before" /\ block' = SuiteBlock /\ step' = 1)
      <3>1. step \in Nat \ {0} /\ SuiteBlock \notin Contexts
        BY <1>1, SuiteAssumption DEF Place
      <3> QED BY <1>1, <1>5, <2>1, <3>1, Invoked DEF EntersContext
    <2>5. Ample'
      <3>1. blocks' = IF block = SuiteBlock /\ step = 1 THEN blocks - 1 ELSE blocks
        BY <1>1, <2>1, GardenPorts
      <3> QED BY <1>1, <2>1, <2>4, <3>1 DEF CleansInv, Ample
    <2>6. AfterEachCleansUp'
      BY <2>4 DEF AfterEachCleansUp
    <2> QED BY <1>3, <2>1, <2>2, <2>3, <2>5, <2>6 DEF CleansInv
  <1>6. CASE InvokeFails
    <2>1. /\ phase = "before" /\ phase' = "after" /\ step' = 1
          /\ UNCHANGED <<spec, context, live, client>>
      BY <1>6 DEF InvokeFails, ToTeardown
    <2>2. (Up(Garden)' <=> Up(Garden)) /\ AfterEachCleansUp'
      BY <1>2, <2>1 DEF AfterEachCleansUp
    <2>3. HasPorts(Starting)
      BY <1>1, <2>1, GardenPorts DEF CleansInv, Ample, Place
    <2>4. TakePorts(Starting)
      BY <1>6, <2>3 DEF InvokeFails
    <2>5. Ample'
      <3>1. blocks' = IF block = SuiteBlock /\ step = 1 THEN blocks - 1 ELSE blocks
        BY <1>1, <2>1, <2>4, GardenPorts
      <3> QED BY <1>1, <2>1, <3>1 DEF CleansInv, Ample
    <2>6. CASE UNCHANGED faultVars /\ Up(Starting)
      <3>1. troubled' = troubled
        BY <2>6 DEF faultVars
      <3>2. spec \notin troubled => Up(Garden)
        <4>1. CASE Starting = Garden
          BY <2>6, <4>1
        <4>2. CASE Starting # Garden
          BY <1>1, <2>1, <4>2, GardenPorts DEF CleansInv, NeedsGarden
        <4> QED BY <4>1, <4>2
      <3> QED BY <1>3, <2>1, <2>2, <2>5, <3>1, <3>2 DEF CleansInv
    <2>7. CASE Fault("start")
      <3>1. spec' \in troubled'
        BY <2>1, <2>7 DEF Fault
      <3> QED BY <2>1, <2>2, <2>5, <3>1, Troubled DEF CleansInv
    <2> QED BY <1>6, <2>3, <2>6, <2>7 DEF InvokeFails
  <1>7. CASE BodyEnds
    <2>1. /\ phase = "body" /\ phase' = "after"
          /\ UNCHANGED <<spec, live, client, blocks, troubled>>
      BY <1>7 DEF BodyEnds, ToTeardown, spaceVars, faultVars
    <2>2. (Up(Garden)' <=> Up(Garden)) /\ AfterEachCleansUp' /\ NeedsGarden
      BY <1>2, <2>1 DEF AfterEachCleansUp, NeedsGarden
    <2>3. Ample'
      BY <2>1 DEF CleansInv, Ample
    <2> QED BY <1>3, <2>1, <2>2, <2>3 DEF CleansInv
  <1> QED BY <1>4, <1>5, <1>6, <1>7 DEF SetUp

\* The steps of the teardown.
LEMMA CleansTeardown ==
  ASSUME GardenFirst, IInv, CleansInv, TearDown
  PROVE  CleansInv'
  <1>1. /\ Place /\ StopPlace /\ Processes /\ NoOrphans /\ ToBeStopped
        /\ phase = "after" /\ unclean \in BOOLEAN
        /\ SuiteBlock \in AllBlocks /\ block \in AllBlocks
    <2>1. Place /\ StopPlace /\ Processes /\ NoOrphans /\ ToBeStopped /\ unclean \in BOOLEAN
      BY DEF IInv, TInv, SInv, StopPlace
    <2>2. phase = "after"
      BY DEF TearDown, ListContainers, ListFails, DestroySettles, DestroyFails, StopSkips,
             StopTerminates, StopTimesOut, StopReturns, Report, At
    <2> QED BY <2>1, <2>2, Here
  <1>2. /\ Len(AfterEach[block]) \in Nat /\ step \in 1 .. Len(AfterEach[block])
        /\ step \in DOMAIN AfterEach[block]
    BY <1>1, Blocked DEF Place
  <1>3. ASSUME block = SuiteBlock, NEW p \in Listening, p.holder = SuiteBlock,
               At("stop") => member > Len(Arguments) /\ unclean = FALSE
        PROVE  step # Len(AfterEach[block])
    <2>1. p \in live /\ Held(p)
      BY <1>1, <1>3, SuiteAssumption DEF NoOrphans, Held, Listening
    <2>2. step + 1 .. Len(AfterEach[block]) # {}
      BY <1>1, <1>3, <2>1, Blocked, NotAtThisStep
    <2> QED BY <1>2, <2>2
  <1>4. CASE StepsOn /\ UNCHANGED <<client, blocks, troubled>>
    <2>1. /\ StepDone /\ UNCHANGED <<spec, context, live>>
          /\ At("stop") => member > Len(Arguments) /\ unclean = FALSE
      BY <1>4 DEF StepsOn
    <2>2. unclean' \in {unclean, FALSE}
      BY <1>4 DEF StepsOn, LeavesStop, stopVars
    <2>3. phase' = "idle" => step = Len(AfterEach[block])
      BY <1>1, <2>1 DEF StepDone
    <2> QED BY <1>1, <1>3, <1>4, <2>1, <2>2, <2>3, TeardownMoves
  <1>5. ASSUME ListContainers \/ \E k \in Containers : DestroySettles(k) \/ DestroyFails(k)
        PROVE  CleansInv'
    <2>1. /\ ~At("stop") /\ UNCHANGED <<spec, context, live, handle, client, blocks, failed, troubled>>
          /\ UNCHANGED stopVars /\ UNCHANGED unclean
      BY <1>5 DEF ListContainers, DestroySettles, DestroyFails, At, spaceVars, faultVars, stopVars
    <2>2. UNCHANGED blockVars \/ StepDone
      BY <1>5, MovedOn DEF ListContainers, DestroySettles, DestroyFails
    <2>3. CASE UNCHANGED blockVars
      BY <2>1, <2>3, NothingComesOrGoes
    <2>4. CASE StepDone
      BY <1>1, <1>4, <2>1, <2>4 DEF StepsOn, LeavesStop
    <2> QED BY <2>2, <2>3, <2>4
  <1>6. CASE ListFails
    <2>1. /\ ~(client /\ Up(Garden)) /\ At("cleanup") /\ BlockEnds
          /\ UNCHANGED <<spec, context, live, client, blocks, troubled, unclean>>
      BY <1>6 DEF ListFails, Abort, spaceVars, faultVars, stopVars
    <2>2. spec \in troubled
      BY <2>1 DEF CleansInv, NeedsGarden
    <2> QED BY <1>1, <2>1, <2>2, TeardownMoves
  <1>7. CASE StopSkips
    <2>1. UNCHANGED <<spec, blockVars, live, client, blocks, unclean, troubled>>
      BY <1>7 DEF StopSkips, spaceVars, faultVars
    <2> QED BY <2>1, NothingComesOrGoes
  <1>8. ASSUME StopTerminates \/ StopTimesOut, Ample', Up(Garden)' => client' PROVE CleansInv'
    <2>1. /\ At("stop") /\ UNCHANGED <<spec, phase, block, step, client, blocks>>
          /\ live' \subseteq live
      BY <1>8, GoneShrinks DEF StopTerminates, StopTimesOut, blockVars
    <2>2. CASE StopTimesOut
      BY <1>8, <2>1, <2>2, Troubled DEF StopTimesOut, Fault
    <2>3. CASE StopTerminates
      <3>1. UNCHANGED <<unclean, troubled>> /\ live' = live \ {Target}
        BY <2>3 DEF StopTerminates, Gone, faultVars
      <3>2. AfterEachCleansUp'
        BY <1>1, <2>1 DEF AfterEachCleansUp
      <3>3. ASSUME spec \notin troubled, NeedsGarden' PROVE Up(Garden)'
        <4>1. block # SuiteBlock
          BY <1>1, <2>1, <3>3 DEF NeedsGarden, At
        <4>2. Up(Garden)
          BY <1>1, <3>3, <4>1 DEF CleansInv, NeedsGarden
        <4>3. PICK p \in live : p.comp = Garden /\ p.holder = SuiteBlock
          BY <1>1, <4>2, GardenProcess
        <4>4. Target.holder # SuiteBlock
          BY <1>1, <4>1, Blocked DEF Target, Process
        <4>5. p \in live'
          BY <3>1, <4>1, <4>3, <4>4
        <4> QED BY <1>1, <4>3, <4>5, GardenProcess
      <3> QED BY <1>8, <2>1, <3>1, <3>2, <3>3 DEF CleansInv
    <2> QED BY <1>8, <2>2, <2>3
  <1>9. CASE StopTerminates \/ StopTimesOut
    <2>1. /\ UNCHANGED <<spec, phase, block, step, client, blocks>>
          /\ live' \subseteq live
      BY <1>9, GoneShrinks DEF StopTerminates, StopTimesOut, blockVars
    <2>2. Ample'
      BY <2>1 DEF CleansInv, Ample
    <2>3. Up(Garden)' => Up(Garden)
      BY <2>1 DEF Up, Garden
    <2> QED BY <1>8, <1>9, <2>1, <2>2, <2>3 DEF CleansInv
  <1>10. CASE StopReturns
    <2>1. /\ At("stop") /\ member > Len(Arguments) /\ unclean' = FALSE
          /\ UNCHANGED <<spec, context, live, client, blocks, troubled>>
          /\ IF unclean THEN BlockEnds ELSE StepDone
      BY <1>10 DEF StopReturns, Abort, spaceVars, faultVars
    <2>2. phase' = "idle" /\ unclean = FALSE => step = Len(AfterEach[block])
      BY <1>1, <2>1 DEF StepDone
    <2>3. unclean = FALSE \/ spec \in troubled
      BY <1>1 DEF CleansInv
    <2>4. StepDone \/ BlockEnds
      BY <1>1, <2>1
    <2> QED BY <1>1, <1>3, <2>1, <2>2, <2>3, <2>4, TeardownMoves
  <1>11. CASE Report
    <2>1. /\ At("report") /\ UNCHANGED <<spec, context, live, client, blocks, troubled, unclean>>
          /\ StepDone \/ BlockEnds
      BY <1>11 DEF Report, Abort, spaceVars, faultVars, stopVars
    <2>2. ~At("stop") /\ (block = SuiteBlock => step = Len(AfterEach[block]))
      BY <1>2, <2>1 DEF At, GardenFirst, CleansThenReports
    <2> QED BY <1>1, <1>3, <2>1, <2>2, TeardownMoves
  <1> QED BY <1>5, <1>6, <1>7, <1>9, <1>10, <1>11 DEF TearDown

\* What goes on around the test process.
LEMMA CleansAround ==
  ASSUME GardenFirst, IInv, CleansInv, Around \/ UNCHANGED vars
  PROVE  CleansInv'
  <1>1. Processes /\ Place
    BY DEF IInv, TInv
  <1>2. CASE UNCHANGED <<spec, blockVars, live, client, blocks, unclean, troubled>>
    BY <1>2, NothingComesOrGoes
  <1>3. ASSUME NEW k \in Containers, CreateContainer(k) \/ CellDestroys(k) \/ Destroyed(k)
        PROVE  CleansInv'
    BY <1>2, <1>3 DEF CreateContainer, CellDestroys, Destroyed, spaceVars, stopVars, faultVars
  <1>4. ASSUME NEW p \in live, Crash(p) PROVE CleansInv'
    <2>1. /\ UNCHANGED <<spec, phase, block, step, client, blocks>>
          /\ live' \subseteq live /\ spec' \in troubled'
      BY <1>4, GoneShrinks DEF Crash, Fault, blockVars
    <2>2. Ample'
      BY <2>1 DEF CleansInv, Ample
    <2>3. Up(Garden)' => Up(Garden)
      BY <2>1 DEF Up, Garden
    <2> QED BY <2>1, <2>2, <2>3, Troubled DEF CleansInv
  <1>5. ASSUME NEW c \in Restarted, Restart(c) PROVE CleansInv'
    <2>1. c # Garden
      BY <1>5 DEF GardenFirst
    <2>2. /\ phase = "body" \/ (phase = "before" /\ block # SuiteBlock)
          /\ UNCHANGED <<spec, block, client, unclean>> /\ blocks' = blocks
          /\ phase' \in {phase, "after"}
      BY <1>5, <2>1 DEF Restart, HasPorts, TakePorts, ToTeardown, blockVars, stopVars
    <2> DEFINE old == Process(SuiteBlock, c, handle[<<SuiteBlock, c>>])
               new == Process(SuiteBlock, c, spec)
    <2>3. old.comp = c /\ new.comp = c
      BY DEF Process
    <2>4. live' = (live \ {old}) \cup {new} \/ live' = live \ {old} \/ live' = live
      BY <1>5 DEF Restart
    <2> HIDE DEF old, new
    <2>5. Up(Garden)' <=> Up(Garden)
      <3>1. \A p : p.comp = Garden => (p \in live' <=> p \in live)
        BY <2>1, <2>3, <2>4
      <3> QED BY <1>1, <3>1, GardenProcess
    <2>6. Ample'
      BY <2>2 DEF CleansInv, Ample
    <2>7. troubled \subseteq troubled'
      BY <1>5 DEF Restart, Fault, faultVars
    <2>8. AfterEachCleansUp'
      BY <2>2 DEF AfterEachCleansUp
    <2>9. spec' \notin troubled' => Up(Garden)'
      BY <2>2, <2>5, <2>7 DEF CleansInv, NeedsGarden
    <2>10. unclean' => spec' \in troubled'
      BY <2>2, <2>7 DEF CleansInv
    <2> QED BY <2>2, <2>5, <2>6, <2>8, <2>9, <2>10 DEF CleansInv
  <1>6. CASE UNCHANGED vars
    BY <1>2, <1>6 DEF vars, spaceVars, stopVars, faultVars
  <1> QED BY <1>3, <1>4, <1>5, <1>6 DEF Around

\* A suite that starts garden first, and has ports for it, leaves none of its own
\* processes running after a spec in which nothing went wrong, whatever earlier
\* specs left behind.
THEOREM GardenFirstCleansUp ==
  GardenFirst /\ Blocks >= MaxSpecs => (Spec => []AfterEachCleansUp)
  <1> SUFFICES ASSUME GardenFirst, Blocks >= MaxSpecs PROVE Spec => []AfterEachCleansUp
    OBVIOUS
  <1>1. Init => CleansInv
    <2> SUFFICES ASSUME Init PROVE CleansInv
      OBVIOUS
    <2>1. Ample
      BY SuiteAssumption DEF Init, Ample
    <2> QED BY <2>1 DEF Init, CleansInv, Up, NeedsGarden, At, AfterEachCleansUp, Listening
  <1>2. IInv /\ CleansInv /\ [Next]_vars => CleansInv'
    BY CleansBefore, CleansTeardown, CleansAround DEF Next
  <1>3. CleansInv => AfterEachCleansUp
    BY DEF CleansInv
  <1> QED BY <1>1, <1>2, <1>3, Invariance, PTL DEF Spec

-----------------------------------------------------------------------------
(***************************************************************************)
(* Containers that garden takes with it are reported, in a suite whose     *)
(* cells are gone when its AfterEach runs (CellsInFiles).  Until some spec *)
(* has failed, whatever containers remain after the cleanup are in         *)
(* destroyContainerErrors, and a garden that is gone before the cleanup    *)
(* makes the cleanup fail.                                                 *)
(***************************************************************************)

\* The suite's BeforeEach has come past the start of garden.
GardenBegun ==
  \/ block # SuiteBlock
  \/ \E i \in 1 .. step - 1 : BeforeEach[SuiteBlock][i] = Garden

\* The suite's cleanup has listed the containers.
Listed == phase = "after" /\ block = SuiteBlock /\ (At("cleanup") => todo # {})

\* The spec is bound to fail.
Doomed ==
  \/ /\ ~Up(Garden)
     /\ \/ phase = "before" /\ GardenBegun
        \/ phase = "body"
        \/ phase = "after" /\ block # SuiteBlock
        \/ At("cleanup")
  \/ Listed /\ destroyErrs # {}

\* While no spec has failed
SoFarSoGood ==
  /\ phase = "before" /\ ~GardenBegun => ~Up(Garden)
  /\ Listed => containers \ destroying \subseteq destroyErrs \cup todo

LeakInv ==
  /\ ~At("cleanup") => todo = {}
  /\ \A s \in lost : (\E f \in failed : f <= s) \/ (s = spec /\ Doomed)
  /\ failed = {} => SoFarSoGood

\* Outside CleanupGarden nothing is left to do for it.
LEMMA TodoStep ==
  ASSUME LeakInv, [Next]_vars
  PROVE  (~At("cleanup") => todo = {})'
  <1>1. CASE UNCHANGED <<blockVars, todo>>
    BY <1>1 DEF LeakInv, At, blockVars
  <1>2. CASE ~At("cleanup") /\ UNCHANGED todo
    BY <1>2 DEF LeakInv
  <1>3. CASE BeginSpec \/ SetUp \/ BodyEnds
    <2>1. ~At("cleanup") /\ UNCHANGED todo
      BY <1>3 DEF BeginSpec, SetUp, InvokeSucceeds, InvokeFails, BodyEnds, At, cleanupVars
    <2> QED BY <1>2, <2>1
  <1>4. CASE ListContainers \/ ListFails
    <2>1. CASE ListFails
      BY <2>1 DEF ListFails
    <2>2. CASE ListContainers
      BY <2>2 DEF ListContainers, At, blockVars
    <2> QED BY <1>4, <2>1, <2>2
  <1>5. ASSUME NEW k \in Containers, DestroySettles(k) \/ DestroyFails(k)
        PROVE  (~At("cleanup") => todo = {})'
    <2>1. CASE MoveOn(k)
      <3>1. CASE todo = {k}
        BY <2>1, <3>1 DEF MoveOn
      <3>2. CASE todo # {k}
        BY <1>5, <2>1, <3>2 DEF MoveOn, DestroySettles, DestroyFails, At, blockVars
      <3> QED BY <3>1, <3>2
    <2>2. CASE UNCHANGED <<todo, blockVars>>
      BY <1>1, <2>2
    <2> QED BY <1>5, <2>1, <2>2 DEF DestroySettles, DestroyFails
  <1>6. CASE StopSkips \/ StopTerminates \/ StopTimesOut \/ StopReturns \/ Report
    <2>1. ~At("cleanup") /\ UNCHANGED todo
      BY <1>6 DEF StopSkips, StopTerminates, StopTimesOut, StopReturns, Report, At, cleanupVars
    <2> QED BY <1>2, <2>1
  <1>7. ASSUME NEW c \in Restarted, Restart(c) PROVE (~At("cleanup") => todo = {})'
    <2>1. ~At("cleanup") /\ UNCHANGED todo
      BY <1>7 DEF Restart, At, cleanupVars
    <2> QED BY <1>2, <2>1
  <1>8. ASSUME NEW p \in live, Crash(p) PROVE (~At("cleanup") => todo = {})'
    BY <1>1, <1>8 DEF Crash, cleanupVars
  <1>9. ASSUME NEW k \in Containers, CreateContainer(k) \/ CellDestroys(k) \/ Destroyed(k)
        PROVE  (~At("cleanup") => todo = {})'
    BY <1>1, <1>9 DEF CreateContainer, CellDestroys, Destroyed, cleanupVars
  <1>10. CASE UNCHANGED vars
    BY <1>1, <1>10 DEF vars, cleanupVars
  <1> QED BY <1>3, <1>4, <1>5, <1>6, <1>7, <1>8, <1>9, <1>10 DEF Next, TearDown, Around

\* Once a spec has failed, later losses need no report of their own.
LEMMA FailedIsEnough ==
  ASSUME Reports', LeakInv, (~At("cleanup") => todo = {})', UNCHANGED spec, spec \in Nat,
         lost' \subseteq lost \cup {spec}, failed \subseteq failed', failed' # {}
  PROVE  LeakInv'
  <1>1. PICK f \in failed' : f <= spec
    <2>1. PICK f : f \in failed'
      OBVIOUS
    <2>2. f \in 0 .. spec
      BY <2>1 DEF Reports
    <2> QED BY <2>1, <2>2
  <1>2. \A s \in lost' : \E g \in failed' : g <= s
    BY <1>1 DEF LeakInv
  <1> QED BY <1>2 DEF LeakInv

\* Before that, there is at most a loss of this spec.
LEMMA NoneFailed ==
  ASSUME LeakInv, failed = {}
  PROVE  SoFarSoGood /\ lost \subseteq {spec} /\ (lost # {} => Doomed)
  BY DEF LeakInv

\* And it is enough that the spec will fail.
LEMMA WillFail ==
  ASSUME failed' = {}, SoFarSoGood', (~At("cleanup") => todo = {})', lost' \subseteq {spec'},
         lost' # {} => Doomed'
  PROVE  LeakInv'
  BY DEF LeakInv

\* There is one garden, of the suite's block; cells belong to files.
LEMMA GardenAndCells ==
  ASSUME CellsInFiles, Processes, NoOrphans
  PROVE  /\ Up(Garden) <=> \E p \in live : p.comp = Garden
         /\ Up(Garden)' <=> \E p \in live' : p.comp = Garden
         /\ Up(Cell) => \E p \in Listening : p.comp = Cell /\ p.holder # SuiteBlock
         /\ \A p \in live : p.comp = Garden => p \in Listening /\ p.holder = SuiteBlock
         /\ \A p, q \in live : p.comp = Garden /\ q.comp = Garden => p = q
  <1>1. Up(Garden) <=> \E p \in live : p.comp = Garden
    BY DEF CellsInFiles, Up
  <1>2. Up(Garden)' <=> \E p \in live' : p.comp = Garden
    BY DEF CellsInFiles, Up, Garden
  <1>3. ASSUME NEW p \in live, p.comp = Garden PROVE p \in Listening /\ p.holder = SuiteBlock
    <2>1. <<p.holder, Garden>> \in Variables
      BY <1>3 DEF Processes
    <2>2. PICK b \in AllBlocks :
            FileOf[b] = p.holder /\ \E i \in DOMAIN BeforeEach[b] : BeforeEach[b][i] = Garden
      BY <2>1, VariableOf
    <2>3. b = SuiteBlock
      BY <2>2 DEF CellsInFiles
    <2> QED BY <1>3, <2>2, <2>3, Blocked DEF CellsInFiles, Listening
  <1>4. ASSUME NEW p \in live, p.comp = Cell PROVE p \in Listening /\ p.holder # SuiteBlock
    <2>1. <<p.holder, Cell>> \in Variables
      BY <1>4 DEF Processes
    <2>2. PICK b \in AllBlocks :
            FileOf[b] = p.holder /\ \E i \in DOMAIN BeforeEach[b] : BeforeEach[b][i] = Cell
      BY <2>1, VariableOf
    <2>3. b # SuiteBlock
      BY <2>2 DEF CellsInFiles
    <2> QED BY <1>4, <2>2, <2>3, Blocked DEF CellsInFiles, Listening
  <1>5. ASSUME NEW p \in live, p.comp = Garden
        PROVE  p = Process(SuiteBlock, Garden, handle[<<SuiteBlock, Garden>>])
    <2>1. handle[<<p.holder, p.comp>>] = p.spec
      BY <1>3, <1>5, SuiteAssumption DEF NoOrphans
    <2>2. p = Process(p.holder, p.comp, p.spec)
      BY DEF Processes
    <2> QED BY <1>3, <1>5, <2>1, <2>2
  <1> QED BY <1>1, <1>2, <1>3, <1>4, <1>5 DEF Up

\* The steps before the teardown, while no spec has failed.
LEMMA LeakBefore ==
  ASSUME CellsInFiles, IInv, LeakInv, (~At("cleanup") => todo = {})', failed = {}, failed' = {},
         BeginSpec \/ InvokeSucceeds \/ BodyEnds \/ \E c \in Restarted : Restart(c)
  PROVE  LeakInv'
  <1>1. /\ Place /\ Processes /\ NoOrphans /\ PassedMeansClean /\ SoFarSoGood
        /\ lost \subseteq {spec} /\ (lost # {} => Doomed)
        /\ block \in {SuiteBlock, context}
    BY NoneFailed DEF IInv, TInv, SInv, Place
  <1>2. UNCHANGED gardenVars /\ UNCHANGED lost /\ ~At("cleanup") /\ phase # "after"
    BY DEF BeginSpec, InvokeSucceeds, BodyEnds, Restart, gardenVars, At
  <1>3. /\ Up(Garden) <=> \E p \in live : p.comp = Garden
        /\ Up(Garden)' <=> \E p \in live' : p.comp = Garden
        /\ \A p \in live : p.comp = Garden => p \in Listening /\ p.holder = SuiteBlock
    BY <1>1, GardenAndCells
  <1>4. CASE BeginSpec
    <2>1. /\ phase = "idle" /\ phase' = "before" /\ block' = SuiteBlock /\ step' = 1
          /\ UNCHANGED live
      BY <1>4 DEF BeginSpec, spaceVars
    <2>2. Listening = {}
      BY <1>1, <2>1 DEF PassedMeansClean
    <2>3. lost = {}
      BY <1>1, <2>1 DEF Doomed, At, Listed
    <2>4. ~Up(Garden)' /\ Listening' = {}
      BY <1>3, <2>1, <2>2 DEF Listening
    <2>5. SoFarSoGood'
      BY <2>1, <2>4 DEF SoFarSoGood, Listed
    <2> QED BY <1>2, <2>3, <2>5, WillFail
  <1>5. CASE InvokeSucceeds
    <2> DEFINE new == Process(FileOf[block], Starting, spec)
    <2>1. /\ phase = "before" /\ UNCHANGED <<spec, context>> /\ live' = live \cup {new}
          /\ phase' # "after"
      BY <1>1, <1>5, Invoked DEF InvokeSucceeds
    <2>2. new.comp = Starting
      BY DEF Process
    <2>3. /\ block \in AllBlocks /\ step \in DOMAIN BeforeEach[block] /\ SuiteBlock \in AllBlocks
          /\ DOMAIN BeforeEach[SuiteBlock] = 1 .. Len(BeforeEach[SuiteBlock])
          /\ step \in Nat \ {0}
      BY <1>1, <2>1, Here, Blocked DEF Place
    <2> HIDE DEF new
    <2>4. Starting # Garden => (Up(Garden)' <=> Up(Garden))
      BY <1>3, <2>1, <2>2
    <2>5. GardenBegun => Starting # Garden
      <3>1. CASE block # SuiteBlock
        BY <2>3, <3>1 DEF CellsInFiles, Starting
      <3>2. CASE block = SuiteBlock /\ \E i \in 1 .. step - 1 : BeforeEach[SuiteBlock][i] = Garden
        <4>1. PICK i \in 1 .. step - 1 : BeforeEach[SuiteBlock][i] = Garden
          BY <3>2
        <4>2. i \in DOMAIN BeforeEach[SuiteBlock] /\ i # step
          BY <2>3, <3>2, <4>1
        <4> QED BY <2>3, <3>2, <4>1, <4>2 DEF CellsInFiles, Starting
      <3> QED BY <3>1, <3>2 DEF GardenBegun
    <2>6. /\ phase' = "before" /\ (GardenBegun \/ Starting = Garden) => GardenBegun'
          /\ phase' = "before" /\ GardenBegun' => GardenBegun \/ Starting = Garden \/ block' # SuiteBlock
      <3>1. CASE step' = step + 1 /\ UNCHANGED <<block, phase>>
        <4>1. CASE block # SuiteBlock
          BY <3>1, <4>1 DEF GardenBegun
        <4>2. CASE block = SuiteBlock
          <5>1. 1 .. step' - 1 = (1 .. step - 1) \cup {step} /\ BeforeEach[SuiteBlock][step] = Starting
            BY <2>3, <3>1, <4>2 DEF Starting
          <5> QED BY <3>1, <4>2, <5>1 DEF GardenBegun
        <4> QED BY <4>1, <4>2
      <3>2. CASE EntersContext /\ block' = context
        BY <3>2 DEF EntersContext, GardenBegun
      <3>3. CASE phase' = "body"
        BY <3>3
      <3> QED BY <1>1, <1>5, <3>1, <3>2, <3>3, Invoked
    <2>7. phase' = "before" /\ ~GardenBegun' => ~Up(Garden)'
      BY <1>1, <2>1, <2>4, <2>6 DEF SoFarSoGood
    <2>9. SoFarSoGood'
      BY <2>1, <2>7 DEF SoFarSoGood, Listed
    <2>10. ASSUME lost' # {} PROVE Doomed'
      <3>1. ~Up(Garden) /\ GardenBegun
        BY <1>1, <1>2, <2>1, <2>10 DEF Doomed, Listed, At
      <3>2. phase' = "before" \/ phase' = "body"
        BY <1>1, <1>5, <2>1, Invoked
      <3> QED BY <2>4, <2>5, <2>6, <3>1, <3>2 DEF Doomed
    <2> QED BY <1>1, <1>2, <2>1, <2>9, <2>10, WillFail
  <1>6. CASE BodyEnds
    <2>1. /\ phase = "body" /\ phase' = "after" /\ UNCHANGED <<spec, context, block, live, todo>> /\ step' = 1
      BY <1>6 DEF BodyEnds, ToTeardown, spaceVars, cleanupVars
    <2>2. block = SuiteBlock => At("cleanup")'
      <3>1. 1 \in DOMAIN AfterEach[SuiteBlock]
        BY <1>1, Here, Blocked
      <3> QED BY <2>1, <3>1 DEF At, CellsInFiles, CleansThenReports
    <2>3. todo' = {}
      BY <1>2, <2>1 DEF LeakInv
    <2>4. ~Listed' /\ (Up(Garden)' <=> Up(Garden)) /\ Listening' = Listening
      BY <1>3, <2>1, <2>2, <2>3 DEF Listed, Listening
    <2>5. SoFarSoGood'
      BY <1>1, <2>1, <2>4 DEF SoFarSoGood
    <2>6. lost # {} => Doomed'
      BY <1>1, <2>1, <2>2, <2>4 DEF Doomed, Listed, At
    <2> QED BY <1>1, <1>2, <2>1, <2>5, <2>6, WillFail
  <1>7. ASSUME NEW c \in Restarted, Restart(c) PROVE LeakInv'
    <2> DEFINE old == Process(SuiteBlock, c, handle[<<SuiteBlock, c>>])
               new == Process(SuiteBlock, c, spec)
    <2>1. spec \notin failed'
      OBVIOUS
    <2>2. /\ phase = "body" \/ (phase = "before" /\ GardenBegun)
          /\ UNCHANGED <<spec, context, phase, block, step>> /\ old \in live
          /\ live' = (live \ {old}) \cup {new}
      BY <1>7, <2>1 DEF Restart, blockVars, GardenBegun
    <2>3. old.comp = c /\ new.comp = c /\ new.holder = SuiteBlock
      BY DEF Process
    <2> HIDE DEF old, new
    <2>4. Up(Garden)' => Up(Garden)
      BY <1>3, <2>2, <2>3
    <2>5. GardenBegun' <=> GardenBegun
      BY <2>2 DEF GardenBegun
    <2>6. SoFarSoGood'
      BY <2>2, <2>5 DEF SoFarSoGood, Listed
    <2>7. lost # {} => Doomed'
      BY <1>1, <2>2, <2>4, <2>5 DEF Doomed, Listed, At
    <2> QED BY <1>1, <1>2, <2>2, <2>6, <2>7, WillFail
  <1> QED BY <1>4, <1>5, <1>6, <1>7

\* Where a step of the teardown leads that succeeds.
LEMMA SuiteSteps ==
  ASSUME CellsInFiles, Place, phase = "after", StepDone
  PROVE  /\ block # SuiteBlock => phase' = "after" /\ (block' # SuiteBlock \/ At("cleanup")')
         /\ block = SuiteBlock /\ ~At("report") =>
              phase' = "after" /\ block' = SuiteBlock /\ ~At("cleanup")'
         /\ block = SuiteBlock /\ At("report") => phase' = "idle"
  <1>1. /\ Len(AfterEach[SuiteBlock]) \in Nat \ {0}
        /\ DOMAIN AfterEach[SuiteBlock] = 1 .. Len(AfterEach[SuiteBlock])
        /\ step \in Nat \ {0} /\ block \in AllBlocks
        /\ block = SuiteBlock => step \in DOMAIN AfterEach[SuiteBlock]
    BY Here, Blocked DEF Place
  <1>2. CASE block # SuiteBlock
    <2>1. AfterEach[SuiteBlock][1].op = "cleanup"
      BY <1>1 DEF CellsInFiles, CleansThenReports
    <2> QED BY <1>2, <2>1 DEF StepDone, BlockEnds, At
  <1>3. CASE block = SuiteBlock /\ step = Len(AfterEach[SuiteBlock])
    <2>1. At("report") /\ phase' = "idle"
      BY <1>1, <1>3 DEF CellsInFiles, CleansThenReports, At, StepDone, BlockEnds
    <2> QED BY <1>3, <2>1
  <1>4. CASE block = SuiteBlock /\ step # Len(AfterEach[SuiteBlock])
    <2>1. step' = step + 1 /\ UNCHANGED <<block, phase>>
      BY <1>4 DEF StepDone
    <2>2. step' \in DOMAIN AfterEach[SuiteBlock] /\ step' # 1
      BY <1>1, <1>4, <2>1
    <2>3. AfterEach[SuiteBlock][step'].op # "cleanup" /\ AfterEach[SuiteBlock][step].op # "report"
      BY <1>1, <1>4, <2>2 DEF CellsInFiles, CleansThenReports
    <2> QED BY <1>4, <2>1, <2>3 DEF At
  <1> QED BY <1>2, <1>3, <1>4

\* When the suite's AfterEach runs, the cells are gone.
LEMMA NoCells ==
  ASSUME CellsInFiles, IInv, failed = {}, phase = "after", block = SuiteBlock
  PROVE  ~Up(Cell)
  <1> SUFFICES ASSUME Up(Cell) PROVE FALSE
    OBVIOUS
  <1>1. PICK p \in Listening : p.comp = Cell /\ p.holder # SuiteBlock
    BY GardenAndCells DEF IInv, TInv, SInv
  <1>2. p.spec = spec /\ p.holder = FileOf[context]
    BY <1>1 DEF IInv, SInv, OwnHeld, SurvivorsFailed
  <1>3. FileOf[SuiteBlock] = SuiteBlock
    BY Blocked DEF AllBlocks
  <1>4. block # context
    BY <1>1, <1>2, <1>3
  <1> QED BY <1>2, <1>4 DEF IInv, SInv, FileIsDone

\* A step by which no process comes or goes and the position stays.
LEMMA LeakStays ==
  ASSUME LeakInv, (~At("cleanup") => todo = {})', failed = {}, failed' = {},
         UNCHANGED <<spec, context, blockVars, live, todo, destroyErrs, lost>>,
         Listed => containers' \ destroying' \subseteq containers \ destroying
  PROVE  LeakInv'
  <1>1. SoFarSoGood /\ lost \subseteq {spec} /\ (lost # {} => Doomed)
    BY NoneFailed
  <1>2. /\ Listening' = Listening /\ (Up(Garden)' <=> Up(Garden))
        /\ (GardenBegun' <=> GardenBegun) /\ (Listed' <=> Listed)
    BY DEF Listening, Up, Garden, GardenBegun, Listed, At, blockVars
  <1>3. Doomed => Doomed'
    BY <1>2 DEF Doomed, At, blockVars
  <1>4. SoFarSoGood'
    BY <1>1, <1>2 DEF SoFarSoGood, blockVars
  <1> QED BY <1>1, <1>3, <1>4, WillFail

\* A process goes away, while no spec has failed: when it is garden, either the
\* cleanup is still to come or it has recorded what is left.
LEMMA LeakGone ==
  ASSUME CellsInFiles, IInv, LeakInv, (~At("cleanup") => todo = {})', failed = {}, failed' = {},
         NEW p \in live, Gone(p), UNCHANGED <<spec, context, blockVars, todo, destroyErrs>>
  PROVE  LeakInv'
  <1>1. /\ SoFarSoGood /\ lost \subseteq {spec} /\ (lost # {} => Doomed)
        /\ Processes /\ NoOrphans /\ PassedMeansClean /\ Place
    BY NoneFailed DEF IInv, TInv, SInv
  <1>2. /\ Up(Garden) <=> \E q \in live : q.comp = Garden
        /\ Up(Garden)' <=> \E q \in live' : q.comp = Garden
        /\ \A q \in live : q.comp = Garden => q \in Listening /\ q.holder = SuiteBlock
        /\ \A x, y \in live : x.comp = Garden /\ y.comp = Garden => x = y
    BY <1>1, GardenAndCells
  <1>3. live' = live \ {p} /\ Listening' \subseteq Listening
    BY DEF Gone, Listening
  <1>4. UNCHANGED <<phase, block, step>> /\ (GardenBegun' <=> GardenBegun) /\ (Listed' <=> Listed)
        /\ (At("cleanup")' <=> At("cleanup"))
    BY DEF GardenBegun, Listed, At, blockVars
  <1>5. CASE p.comp # Garden
    <2>1. UNCHANGED <<lost, containers, destroying>>
      BY <1>5 DEF Gone, gardenVars
    <2>2. Up(Garden)' <=> Up(Garden)
      BY <1>2, <1>3, <1>5
    <2>3. SoFarSoGood'
      BY <1>1, <1>3, <1>4, <2>1, <2>2 DEF SoFarSoGood
    <2>4. Doomed => Doomed'
      BY <1>4, <2>2 DEF Doomed
    <2> QED BY <1>1, <2>1, <2>3, <2>4, WillFail
  <1>6. CASE p.comp = Garden
    <2>1. /\ containers' = {} /\ lost' \subseteq lost \cup {spec}
          /\ lost' = lost \/ ~(containers \subseteq destroying)
      BY <1>6 DEF Gone
    <2>2. ~Up(Garden)' /\ Up(Garden) /\ p \in Listening /\ p.holder = SuiteBlock
      BY <1>2, <1>3, <1>6
    <2>3. SoFarSoGood'
      BY <1>1, <1>3, <1>4, <2>1, <2>2 DEF SoFarSoGood
    <2>4. phase # "idle" /\ (phase = "before" => GardenBegun)
      BY <1>1, <2>2 DEF PassedMeansClean, SoFarSoGood
    <2>5. ASSUME lost' # {} PROVE Doomed'
      <3>1. CASE phase \in {"before", "body"} \/ (phase = "after" /\ block # SuiteBlock) \/ At("cleanup")
        BY <1>4, <2>2, <2>4, <3>1 DEF Doomed
      <3>2. CASE phase = "after" /\ block = SuiteBlock /\ ~At("cleanup")
        <4>1. Listed /\ todo = {}
          BY <3>2 DEF Listed, LeakInv
        <4>2. destroyErrs # {}
          <5>1. CASE lost # {}
            BY <1>1, <2>2, <5>1 DEF Doomed
          <5>2. CASE ~(containers \subseteq destroying)
            BY <1>1, <4>1, <5>2 DEF SoFarSoGood
          <5> QED BY <2>1, <2>5, <5>1, <5>2
        <4> QED BY <1>4, <4>1, <4>2 DEF Doomed
      <3> QED BY <1>1, <2>4, <3>1, <3>2 DEF Place
    <2> QED BY <1>1, <2>1, <2>3, <2>5, WillFail
  <1> QED BY <1>5, <1>6

\* The steps of CleanupGarden, while no spec has failed.
LEMMA LeakCleanup ==
  ASSUME CellsInFiles, IInv, LeakInv, (~At("cleanup") => todo = {})', failed = {}, failed' = {},
         ListContainers \/ \E k \in Containers : DestroySettles(k) \/ DestroyFails(k)
  PROVE  LeakInv'
  <1>1. /\ SoFarSoGood /\ lost \subseteq {spec} /\ (lost # {} => Doomed) /\ Place
        /\ At("cleanup") /\ phase = "after" /\ ~At("report")
        /\ UNCHANGED <<spec, context, live, lost, destroying>>
    BY NoneFailed
    DEF IInv, TInv, ListContainers, DestroySettles, DestroyFails, At, spaceVars, gardenVars
  <1>2. Listening' = Listening /\ (Up(Garden)' <=> Up(Garden))
    BY <1>1 DEF Listening, Up, Garden
  <1>3. UNCHANGED blockVars \/ StepDone
    BY MovedOn DEF ListContainers, DestroySettles, DestroyFails
  <1>4. /\ block # SuiteBlock => phase' = "after" /\ (block' # SuiteBlock \/ At("cleanup")')
        /\ block = SuiteBlock => phase' = "after" /\ block' = SuiteBlock
        /\ StepDone /\ block = SuiteBlock => ~At("cleanup")'
    <2>1. CASE UNCHANGED blockVars /\ ~StepDone
      BY <1>1, <2>1 DEF blockVars
    <2>2. CASE StepDone
      BY <1>1, <2>2, SuiteSteps
    <2> QED BY <1>3, <2>1, <2>2
  <1>5. ASSUME Listed' => containers' \ destroying' \subseteq destroyErrs' \cup todo' PROVE SoFarSoGood'
    <2>1. phase' = "after"
      BY <1>4
    <2> QED BY <1>1, <1>2, <1>5, <2>1 DEF SoFarSoGood
  <1>6. CASE ListContainers
    <2>1. Up(Garden) /\ todo = {} /\ todo' = containers /\ UNCHANGED containers
      BY <1>6 DEF ListContainers, gardenVars
    <2>2. lost = {}
      BY <1>1, <2>1 DEF Doomed, Listed
    <2> QED BY <1>1, <1>5, <2>1, <2>2, WillFail
  <1>7. ASSUME NEW k \in Containers, DestroySettles(k) \/ DestroyFails(k) PROVE LeakInv'
    <2>1. k \in todo /\ destroyErrs \subseteq destroyErrs'
      BY <1>7 DEF DestroySettles, DestroyFails
    <2>2. \/ todo' = todo \ {k} /\ (todo = {k} <=> todo' = {}) /\ (todo # {k} => UNCHANGED blockVars)
             /\ (todo = {k} => StepDone)
          \/ todo' = todo /\ UNCHANGED blockVars
      BY <1>7, <2>1 DEF DestroySettles, DestroyFails, MoveOn
    <2>3. block # SuiteBlock => ~Listed'
      <3> SUFFICES ASSUME block # SuiteBlock PROVE ~Listed'
        OBVIOUS
      <3>1. CASE UNCHANGED blockVars
        BY <3>1 DEF Listed, blockVars
      <3>2. CASE todo' = {}
        BY <1>4, <3>2 DEF Listed
      <3> QED BY <2>2, <3>1, <3>2
    <2>4. block = SuiteBlock => Listed /\ Listed'
      <3> SUFFICES ASSUME block = SuiteBlock PROVE Listed /\ Listed'
        OBVIOUS
      <3>1. CASE todo' # {}
        BY <1>1, <1>4, <2>1, <3>1 DEF Listed
      <3>2. CASE todo' = {}
        BY <1>1, <1>4, <2>1, <2>2, <3>2 DEF Listed
      <3> QED BY <3>1, <3>2
    <2>5. ASSUME block = SuiteBlock
          PROVE  containers' \ destroying' \subseteq destroyErrs' \cup todo'
      <3>1. containers \ destroying \subseteq destroyErrs \cup todo
        BY <1>1, <2>4, <2>5 DEF SoFarSoGood
      <3>2. CASE DestroySettles(k)
        <4>1. containers' \ destroying \subseteq (containers \ destroying) \ {k}
          BY <3>2 DEF DestroySettles
        <4>2. todo' = todo \ {k} /\ destroyErrs' = destroyErrs
          BY <3>2 DEF DestroySettles, MoveOn
        <4> QED BY <1>1, <3>1, <4>1, <4>2
      <3>3. CASE DestroyFails(k)
        <4>1. UNCHANGED containers
          BY <3>3 DEF DestroyFails, gardenVars
        <4>2. todo' = todo \/ (todo' = todo \ {k} /\ k \in destroyErrs')
          BY <3>3 DEF DestroyFails, MoveOn
        <4> QED BY <1>1, <2>1, <3>1, <4>1, <4>2
      <3> QED BY <1>7, <3>2, <3>3
    <2>6. SoFarSoGood'
      BY <1>5, <2>3, <2>5
    <2>7. ASSUME lost # {} PROVE Doomed'
      <3>1. CASE Listed /\ destroyErrs # {}
        BY <2>1, <2>4, <3>1 DEF Doomed, Listed
      <3>2. CASE ~Up(Garden) /\ block # SuiteBlock
        BY <1>2, <1>4, <3>2 DEF Doomed
      <3>3. CASE ~Up(Garden) /\ block = SuiteBlock
        <4>1. CASE UNCHANGED blockVars
          BY <1>1, <1>2, <3>3, <4>1 DEF Doomed, At, blockVars
        <4>2. CASE todo' = todo \ {k} /\ todo = {k}
          <5>1. DestroyFails(k)
            BY <1>7, <3>3 DEF DestroySettles
          <5>2. k \in destroyErrs'
            BY <2>1, <4>2, <5>1 DEF DestroyFails
          <5> QED BY <2>4, <3>3, <5>2 DEF Doomed
        <4> QED BY <2>2, <4>1, <4>2
      <3> QED BY <1>1, <2>7, <3>1, <3>2, <3>3 DEF Doomed
    <2> QED BY <1>1, <2>6, <2>7, WillFail
  <1> QED BY <1>6, <1>7

\* StopProcesses returns or the report finds nothing, while no spec has failed.
LEMMA LeakStepsOn ==
  ASSUME CellsInFiles, IInv, LeakInv, (~At("cleanup") => todo = {})', failed = {}, failed' = {},
         StopReturns \/ Report
  PROVE  LeakInv'
  <1>1. /\ SoFarSoGood /\ lost \subseteq {spec} /\ (lost # {} => Doomed) /\ Place /\ StopPlace
        /\ phase = "after" /\ ~At("cleanup")
        /\ UNCHANGED <<spec, context, live, lost, destroying, containers, todo, destroyErrs>>
    BY NoneFailed DEF IInv, TInv, StopReturns, Report, At, spaceVars, gardenVars, cleanupVars
  <1>2. Listening' = Listening /\ (Up(Garden)' <=> Up(Garden)) /\ todo = {} /\ todo' = {}
    BY <1>1 DEF Listening, Up, Garden, LeakInv
  <1>3. spec \notin failed'
    OBVIOUS
  <1>4. StepDone /\ (At("report") => destroyErrs = {})
    BY <1>3 DEF StopReturns, Report, Abort, At
  <1>5. /\ block # SuiteBlock => phase' = "after" /\ (block' # SuiteBlock \/ At("cleanup")')
        /\ block = SuiteBlock /\ ~At("report") =>
              phase' = "after" /\ block' = SuiteBlock /\ ~At("cleanup")'
        /\ block = SuiteBlock /\ At("report") => phase' = "idle"
    BY <1>1, <1>4, SuiteSteps
  <1>6. Listed' => block = SuiteBlock
    BY <1>2, <1>5 DEF Listed
  <1>7. block = SuiteBlock => Listed
    BY <1>1 DEF Listed
  <1>8. SoFarSoGood'
    <2>1. phase' # "before"
      BY <1>5
    <2> QED BY <1>1, <1>2, <1>6, <1>7, <2>1 DEF SoFarSoGood
  <1>9. lost # {} => Doomed'
    <2>1. CASE block # SuiteBlock
      BY <1>1, <1>2, <1>5, <2>1 DEF Doomed, Listed
    <2>2. CASE block = SuiteBlock
      <3>1. Doomed => destroyErrs # {}
        BY <1>1, <2>2 DEF Doomed
      <3> QED BY <1>1, <1>4, <1>5, <2>2, <3>1 DEF Doomed, Listed
    <2> QED BY <2>1, <2>2
  <1> QED BY <1>1, <1>8, <1>9, WillFail

\* Every step keeps LeakInv.
LEMMA LeakStep ==
  ASSUME CellsInFiles, IInv, IInv', LeakInv, [Next]_vars
  PROVE  LeakInv'
  <1>1. /\ (~At("cleanup") => todo = {})' /\ Place /\ StopPlace /\ Reports' /\ GardenState
        /\ spec \in Nat
    BY TodoStep, Here DEF IInv, TInv
  <1>2. /\ failed \subseteq failed' /\ (spec' = spec \/ BeginSpec)
    BY <1>1, Kinds DEF Aside, Fails, StepsOn, StopsOne, BodyEnds, BeginSpec, InvokeSucceeds, Restarts
  <1>3. CASE failed' # {} /\ ~BeginSpec
    <2>1. lost' \subseteq lost \cup {spec}
      <3>1. UNCHANGED lost \/ \E p : Gone(p)
        BY DEF Next, SetUp, Around, TearDown, BeginSpec, BodyEnds, InvokeSucceeds, InvokeFails,
               Restart, Crash, CreateContainer, CellDestroys, Destroyed, ListContainers, ListFails,
               DestroySettles, DestroyFails, StopSkips, StopTerminates,
               StopTimesOut, StopReturns, Report, vars, gardenVars
      <3> QED BY <1>1, <3>1, GoneTypes DEF GardenState
    <2> QED BY <1>1, <1>2, <1>3, <2>1, FailedIsEnough
  <1>4. CASE failed' # {} /\ BeginSpec
    <2>1. UNCHANGED <<lost, failed>> /\ ~Doomed
      BY <1>4 DEF BeginSpec, gardenVars, Doomed, Listed, At
    <2> QED BY <1>1, <1>4, <2>1 DEF LeakInv
  <1>5. CASE failed' = {}
    <2>1. failed = {}
      BY <1>2, <1>5
    <2>2. CASE BeginSpec \/ InvokeSucceeds \/ BodyEnds \/ \E c \in Restarted : Restart(c)
      BY <1>1, <1>5, <2>1, <2>2, LeakBefore
    <2>3. CASE InvokeFails \/ ListFails
      BY <1>5, <2>3 DEF InvokeFails, ListFails, Abort
    <2>4. CASE ListContainers \/ \E k \in Containers : DestroySettles(k) \/ DestroyFails(k)
      BY <1>1, <1>5, <2>1, <2>4, LeakCleanup
    <2>5. CASE StopReturns \/ Report
      BY <1>1, <1>5, <2>1, <2>5, LeakStepsOn
    <2>6. CASE StopSkips \/ UNCHANGED vars
      <3>1. UNCHANGED <<spec, context, blockVars, live, todo, destroyErrs, lost, containers, destroying>>
        BY <2>6 DEF StopSkips, vars, spaceVars, gardenVars, cleanupVars
      <3> QED BY <1>1, <1>5, <2>1, <3>1, LeakStays
    <2>7. CASE StopTerminates \/ StopTimesOut
      <3>1. Target \in live /\ UNCHANGED <<spec, context, blockVars, todo, destroyErrs>>
        BY <2>7 DEF StopTerminates, StopTimesOut, cleanupVars
      <3>2. Gone(Target) \/ UNCHANGED <<live, gardenVars>>
        BY <2>7 DEF StopTerminates, StopTimesOut
      <3>3. CASE Gone(Target)
        BY <1>1, <1>5, <2>1, <3>1, <3>3, LeakGone
      <3>4. CASE UNCHANGED <<live, gardenVars>>
        BY <1>1, <1>5, <2>1, <3>1, <3>4, LeakStays DEF gardenVars
      <3> QED BY <3>2, <3>3, <3>4
    <2>8. ASSUME NEW p \in live, Crash(p) PROVE LeakInv'
      <3>1. Gone(p) /\ UNCHANGED <<spec, context, blockVars, todo, destroyErrs>>
        BY <2>8 DEF Crash, cleanupVars
      <3> QED BY <1>1, <1>5, <2>1, <3>1, LeakGone
    <2>9. ASSUME NEW k \in Containers, CreateContainer(k) \/ CellDestroys(k) \/ Destroyed(k)
          PROVE  LeakInv'
      <3>1. UNCHANGED <<spec, context, blockVars, live, todo, destroyErrs, lost>>
        BY <2>9 DEF CreateContainer, CellDestroys, Destroyed, spaceVars, cleanupVars
      <3>2. Listed => ~CreateContainer(k)
        BY <2>1, NoneFailed, NoCells DEF Listed, CreateContainer
      <3>3. Listed => containers' \ destroying' \subseteq containers \ destroying
        BY <2>9, <3>2 DEF CellDestroys, Destroyed
      <3> QED BY <1>1, <1>5, <2>1, <3>1, <3>3, LeakStays
    <2> QED BY <2>2, <2>3, <2>4, <2>5, <2>6, <2>7, <2>8, <2>9 DEF Next, SetUp, TearDown, Around
  <1> QED BY <1>3, <1>4, <1>5

\* In a suite whose cells belong to its files, and whose teardown begins with the
\* cleanup and ends with the report, containers never go with their garden
\* unnoticed: this spec or an earlier one is reported as failed.
THEOREM NoLeakUnnoticed == CellsInFiles => (Spec => []NoSilentLeak)
  <1> SUFFICES ASSUME CellsInFiles PROVE Spec => []NoSilentLeak
    OBVIOUS
  <1>1. Init => LeakInv
    BY DEF Init, LeakInv, SoFarSoGood, Listening, Up, Listed
  <1>2. IInv /\ IInv' /\ LeakInv /\ [Next]_vars => LeakInv'
    BY LeakStep
  <1>3. LeakInv => NoSilentLeak
    BY DEF LeakInv, NoSilentLeak, Doomed, Listed, At
  <1> QED BY <1>1, <1>2, <1>3, Invariance, PTL DEF Spec
=============================================================================
