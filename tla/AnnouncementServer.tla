------------------------ MODULE AnnouncementServer ------------------------
(***************************************************************************)
(* inigo_announcement_server.go and helpers/callback.go: every spec of the *)
(* cell suite starts an HTTP server on a port the kernel chooses, hands    *)
(* its URL to the containers it runs, polls what they announced, and stops *)
(* the server first thing in its AfterEach.  Each request runs in a        *)
(* goroutine of its own; containers live on until CleanupGarden, which     *)
(* comes after Stop, and those it fails to destroy live on in later specs. *)
(* The other ginkgo processes of the run do the same on the same           *)
(* EXTERNAL_ADDRESS: their servers take ports, and their containers may be *)
(* alive when a port of theirs is free again.  This module is one process; *)
(* the others are its environment.  sync.RWMutex and httptest.Server are   *)
(* external.                                                               *)
(***************************************************************************)
EXTENDS Naturals, Sequences, FiniteSets

CONSTANTS Containers,  \* the containers on the host; each announces its guid
          Test,        \* the goroutine of the spec, which calls Announcements
          None,
          Ports,       \* ports the kernel may choose for ":0"
          Others,      \* how many other ginkgo processes there are, each with
                       \* one server at a time
          MaxSpecs     \* bound on the specs of a behaviour

\* The spec is not one of its containers, and port 0 stands for no port.
ASSUME AnnouncementAssumption ==
  /\ Test \notin Containers /\ None \notin Containers
  /\ 0 \notin Ports
  /\ MaxSpecs \in Nat /\ Others \in Nat

Handlers == Containers \cup {Test}
Servers == 1 .. MaxSpecs

VARIABLES
  server,      \* the package variable: the latest server; 0: nil
  serverAddr,  \* the package variable: its port
  listening,   \* is its listener open?
  registered,  \* per server, the slice its handler has captured
  writer,      \* per server, lock: who has called Lock() and not Unlock(), or None
  readers,     \* per server, lock: who holds it for reading
  stage,       \* per client, how far its request is
  conn,        \* per client, the server its request went to
  slice,       \* per container, registered as its append has read it
  url,         \* per container, the server and the port it has been told;
               \* server 0: it is a container of another ginkgo process
  life,        \* per container: "absent", "running" or "gone"
  phase,       \* of the spec: "idle", "body", "stopping", "stopped"
  specs,       \* how many specs have begun
  leaked,      \* containers that CleanupGarden could not destroy
  elsewhere,   \* ports of the servers of the other ginkgo processes
  inherited,   \* per server, containers that ran with its port before it had it
  acked,       \* containers whose request was answered
  answer,      \* the list that the last Announcements() was sent
  known        \* acked by this server when that Announcements() was called

lockVars == <<writer, readers>>
packageVars == <<server, serverAddr, listening>>
containerVars == <<url, life, leaked>>
hostVars == <<elsewhere, inherited>>
specVars == <<phase, specs>>
readVars == <<answer, known>>
vars == <<packageVars, registered, lockVars, stage, conn, slice, containerVars, hostVars,
          specVars, acked, readVars>>

\* The stages of a request: "none"; "sent", its connection is new; "active", in
\* the handler; "waiting", "locked", "loaded", "stored": in the section of
\* /announce; "reading", "encoded": in that of /announcements; "answering", the
\* handler is left.
WriteSection == {"locked", "loaded", "stored"}
ReadSection == {"reading", "encoded"}
InHandler == {"active", "waiting", "answering"} \cup WriteSection \cup ReadSection

Init ==
  /\ server = 0 /\ serverAddr = 0 /\ listening = FALSE
  /\ registered = [s \in Servers |-> << >>]
  /\ writer = [s \in Servers |-> None]
  /\ readers = [s \in Servers |-> {}]
  /\ stage = [h \in Handlers |-> "none"]
  /\ conn = [h \in Handlers |-> 0]
  /\ slice = [c \in Containers |-> << >>]
  /\ url = [c \in Containers |-> [server |-> 0, addr |-> 0]]
  /\ life = [c \in Containers |-> "absent"]
  /\ phase = "idle" /\ specs = 0
  /\ leaked = {} /\ acked = {}
  /\ elsewhere = {} /\ inherited = [s \in Servers |-> {}]
  /\ answer = << >> /\ known = {}

Goes(h, from, to) ==
  /\ stage[h] = from
  /\ stage' = [stage EXCEPT ![h] = to]

-----------------------------------------------------------------------------
\* The spec

\* Start, the last line of the BeforeEach: a new lock, a new slice, a listener
\* on whatever free port the kernel picks, maybe one that an earlier server,
\* of this process or of another, had and that a container still curls.
Start ==
  /\ phase = "idle" /\ specs < MaxSpecs
  /\ specs' = specs + 1
  /\ server' = server + 1
  /\ serverAddr' \in Ports \ elsewhere
  /\ inherited' = [inherited EXCEPT ![server + 1] =
       {c \in Containers : life[c] = "running" /\ url[c].addr = serverAddr'}]
  /\ listening' = TRUE
  /\ phase' = "body"
  /\ UNCHANGED <<registered, lockVars, stage, conn, slice, containerVars, elsewhere,
                 acked, readVars>>

\* The BeforeEach fails before Start, or Listen does.  The AfterEach runs all
\* the same: server.Close() on the closed server of the spec before, which
\* returns at once, or a nil dereference that ends the AfterEach before CleanupGarden.
StartFails ==
  /\ phase = "idle" /\ specs < MaxSpecs
  /\ specs' = specs + 1
  /\ phase' = IF server = 0 THEN "idle" ELSE "stopped"
  /\ UNCHANGED <<packageVars, registered, lockVars, stage, conn, slice, containerVars, hostVars,
                 acked, readVars>>

\* AnnounceURL(guid) goes into a task or LRP, whose container comes up.
AnnounceURL(c) ==
  /\ phase = "body"
  /\ life[c] = "absent"
  /\ url' = [url EXCEPT ![c] = [server |-> server, addr |-> serverAddr]]
  /\ life' = [life EXCEPT ![c] = "running"]
  /\ UNCHANGED <<packageVars, registered, lockVars, stage, conn, slice, leaked, hostVars, specVars,
                 acked, readVars>>

\* http.Get in Announcements
CallAnnouncements ==
  /\ phase = "body"
  /\ Goes(Test, "none", "sent")
  /\ conn' = [conn EXCEPT ![Test] = server]
  /\ known' = {c \in acked : conn[c] = server}
  /\ UNCHANGED <<packageVars, registered, lockVars, slice, containerVars, hostVars, specVars,
                 acked, answer>>

\* The list is decoded and returned to the spec.
AnnouncementsReturns ==
  /\ Goes(Test, "answering", "none")
  /\ UNCHANGED <<packageVars, registered, lockVars, conn, slice, containerVars, hostVars, specVars,
                 acked, readVars>>

\* Stop: Close shuts the listener and drops the connections that have not sent
\* a request; the curls behind them fail.
Stop ==
  /\ phase = "body"
  /\ stage[Test] = "none"
  /\ phase' = "stopping"
  /\ listening' = FALSE
  /\ stage' = [h \in Handlers |-> IF stage[h] = "sent" THEN "none" ELSE stage[h]]
  /\ life' = [c \in Containers |-> IF stage[c] = "sent" THEN "gone" ELSE life[c]]
  /\ UNCHANGED <<server, serverAddr, registered, lockVars, conn, slice, url, leaked, hostVars, specs,
                 acked, readVars>>

\* Mutants: Close does not wait; the AfterEach ends without CleanupGarden.
StopReturnsEarly ==
  /\ phase = "stopping"
  /\ phase' = "stopped"
  /\ UNCHANGED <<packageVars, registered, lockVars, stage, conn, slice, containerVars, hostVars, specs,
                 acked, readVars>>
StopReturnsToNextSpec ==
  /\ phase = "stopping"
  /\ \A c \in Containers : stage[c] \notin InHandler
  /\ phase' = "idle"
  /\ UNCHANGED <<packageVars, registered, lockVars, stage, conn, slice, containerVars, hostVars, specs,
                 acked, readVars>>

\* Close waits until every request that had been read is answered.
StopReturns ==
  /\ phase = "stopping"
  /\ \A c \in Containers : stage[c] \notin InHandler
  /\ phase' = "stopped"
  /\ UNCHANGED <<packageVars, registered, lockVars, stage, conn, slice, containerVars, hostVars, specs,
                 acked, readVars>>

\* CleanupGarden and the stops behind it, after which the next spec begins.
\* Each ginkgo process has a garden of its own: only its containers are there.
CleanupGarden ==
  /\ phase = "stopped"
  /\ \E left \in SUBSET {c \in Containers : life[c] = "running" /\ url[c].server # 0} :
       /\ leaked' = leaked \cup left
       /\ life' = [c \in Containers |->
            IF life[c] = "running" /\ url[c].server # 0 /\ c \notin left
            THEN "gone" ELSE life[c]]
  /\ phase' = "idle"
  /\ UNCHANGED <<packageVars, registered, lockVars, stage, conn, slice, url, hostVars, specs, acked, readVars>>

-----------------------------------------------------------------------------
\* The containers: each runs curl on its URL once

Connect(c) ==
  /\ life[c] = "running" /\ c \notin acked
  /\ listening /\ url[c].addr = serverAddr
  /\ Goes(c, "none", "sent")
  /\ conn' = [conn EXCEPT ![c] = server]
  /\ UNCHANGED <<packageVars, registered, lockVars, slice, containerVars, hostVars, specVars,
                 acked, readVars>>

\* No server of ours has the port: the curl fails, or another process answers it.
Refused(c) ==
  /\ life[c] = "running" /\ stage[c] = "none"
  /\ ~(listening /\ url[c].addr = serverAddr)
  /\ life' = [life EXCEPT ![c] = "gone"]
  /\ UNCHANGED <<packageVars, registered, lockVars, stage, conn, slice, url, leaked, hostVars, specVars,
                 acked, readVars>>

\* A container goes away by itself: its process ends, or its cell deletes it.
\* A request it has sent is handled all the same.
Dies(c) ==
  /\ life[c] = "running"
  /\ life' = [life EXCEPT ![c] = "gone"]
  /\ UNCHANGED <<packageVars, registered, lockVars, stage, conn, slice, url, leaked, hostVars, specVars,
                 acked, readVars>>

-----------------------------------------------------------------------------
\* The other ginkgo processes: their specs start servers on free ports, give
\* the URL to containers of theirs and stop the servers, whatever this one does.

OtherStarts ==
  /\ Cardinality(elsewhere) < Others
  /\ \E p \in Ports \ elsewhere :
       /\ ~(listening /\ p = serverAddr)
       /\ elsewhere' = elsewhere \cup {p}
  /\ UNCHANGED <<packageVars, registered, lockVars, stage, conn, slice, containerVars,
                 inherited, specVars, acked, readVars>>

OtherAnnounceURL(c) ==
  /\ life[c] = "absent"
  /\ \E p \in elsewhere : url' = [url EXCEPT ![c] = [server |-> 0, addr |-> p]]
  /\ life' = [life EXCEPT ![c] = "running"]
  /\ UNCHANGED <<packageVars, registered, lockVars, stage, conn, slice, leaked, hostVars,
                 specVars, acked, readVars>>

OtherStops ==
  /\ \E p \in elsewhere : elsewhere' = elsewhere \ {p}
  /\ UNCHANGED <<packageVars, registered, lockVars, stage, conn, slice, containerVars,
                 inherited, specVars, acked, readVars>>

-----------------------------------------------------------------------------
\* The handler, one goroutine per request

Frame == <<packageVars, conn, containerVars, hostVars, specVars>>
At(h) == conn[h]

Serve(h) ==
  /\ Goes(h, "sent", "active")
  /\ UNCHANGED <<Frame, registered, lockVars, slice, acked, readVars>>

\* /announce.  Lock() first keeps other writers and new readers out, then waits
\* for the readers inside.
CallLock(c) ==
  /\ Goes(c, "active", "waiting")
  /\ writer[At(c)] = None
  /\ writer' = [writer EXCEPT ![At(c)] = c]
  /\ UNCHANGED <<Frame, registered, readers, slice, acked, readVars>>

\* Mutant: Lock() does not wait for the readers.
LockBarging(c) ==
  /\ Goes(c, "waiting", "locked")
  /\ UNCHANGED <<Frame, registered, lockVars, slice, acked, readVars>>

Lock(c) ==
  /\ Goes(c, "waiting", "locked")
  /\ readers[At(c)] = {}
  /\ UNCHANGED <<Frame, registered, lockVars, slice, acked, readVars>>

\* registered = append(registered, announcement): read the slice, then assign
Load(c) ==
  /\ Goes(c, "locked", "loaded")
  /\ slice' = [slice EXCEPT ![c] = registered[At(c)]]
  /\ UNCHANGED <<Frame, registered, lockVars, acked, readVars>>

Store(c) ==
  /\ Goes(c, "loaded", "stored")
  /\ registered' = [registered EXCEPT ![At(c)] = Append(slice[c], c)]
  /\ UNCHANGED <<Frame, lockVars, slice, acked, readVars>>

Unlock(c) ==
  /\ Goes(c, "stored", "answering")
  /\ writer' = [writer EXCEPT ![At(c)] = None]
  /\ UNCHANGED <<Frame, registered, readers, slice, acked, readVars>>

\* The response reaches curl, when the container is still there.
Respond(c) ==
  /\ Goes(c, "answering", "none")
  /\ acked' = IF life[c] = "running" THEN acked \cup {c} ELSE acked
  /\ UNCHANGED <<Frame, registered, lockVars, slice, readVars>>

\* Mutant: the reader registers as a writer.
RLockAsWriter(h) ==
  /\ Goes(h, "active", "reading")
  /\ writer[At(h)] = None
  /\ writer' = [writer EXCEPT ![At(h)] = h]
  /\ UNCHANGED <<Frame, registered, readers, slice, acked, readVars>>

\* /announcements.  The list is encoded under the read lock.
RLock(h) ==
  /\ Goes(h, "active", "reading")
  /\ writer[At(h)] = None
  /\ readers' = [readers EXCEPT ![At(h)] = @ \cup {h}]
  /\ UNCHANGED <<Frame, registered, writer, slice, acked, readVars>>

\* Mutant: a list that was encoded before is sent again.
EncodeCached(h) ==
  /\ Goes(h, "reading", "encoded")
  /\ answer' = IF answer = << >> THEN registered[At(h)] ELSE answer
  /\ UNCHANGED <<Frame, registered, lockVars, slice, acked, known>>

Encode(h) ==
  /\ Goes(h, "reading", "encoded")
  /\ answer' = registered[At(h)]
  /\ UNCHANGED <<Frame, registered, lockVars, slice, acked, known>>

\* Mutant: the read lock is not given back.
RUnlockForgotten(h) ==
  /\ Goes(h, "encoded", "answering")
  /\ UNCHANGED <<Frame, registered, lockVars, slice, acked, readVars>>

RUnlock(h) ==
  /\ Goes(h, "encoded", "answering")
  /\ readers' = [readers EXCEPT ![At(h)] = @ \ {h}]
  /\ UNCHANGED <<Frame, registered, writer, slice, acked, readVars>>

-----------------------------------------------------------------------------
TestStep == CallAnnouncements \/ AnnouncementsReturns

Announce(c) ==
  \/ Serve(c) \/ CallLock(c) \/ Lock(c) \/ Load(c) \/ Store(c) \/ Unlock(c) \/ Respond(c)

ListAnnouncements == Serve(Test) \/ RLock(Test) \/ Encode(Test) \/ RUnlock(Test)

Next ==
  \/ Start \/ StartFails \/ Stop \/ StopReturns \/ CleanupGarden
  \/ TestStep
  \/ ListAnnouncements
  \/ \E c \in Containers :
       AnnounceURL(c) \/ Connect(c) \/ Refused(c) \/ Dies(c) \/ Announce(c)
  \/ OtherStarts \/ OtherStops
  \/ \E c \in Containers : OtherAnnounceURL(c)

Spec == Init /\ [][Next]_vars

\* The go runtime and the kernel run every goroutine and deliver every answer.
\* Nothing says that a container ever connects, or that the spec ever ends.
FairSpec ==
  /\ Spec
  /\ WF_vars(AnnouncementsReturns)
  /\ WF_vars(StopReturns)
  /\ WF_vars(ListAnnouncements)
  /\ \A c \in Containers : WF_vars(Announce(c))

-----------------------------------------------------------------------------
\* The types.
TypeOK ==
  /\ server \in 0 .. MaxSpecs /\ serverAddr \in Ports \cup {0} /\ listening \in BOOLEAN
  /\ registered \in [Servers -> Seq(Containers)]
  /\ writer \in [Servers -> Containers \cup {None}]
  /\ readers \in [Servers -> SUBSET {Test}]
  /\ stage \in [Handlers -> InHandler \cup {"none", "sent"}]
  /\ conn \in [Handlers -> 0 .. MaxSpecs]
  /\ slice \in [Containers -> Seq(Containers)]
  /\ url \in [Containers -> [server : 0 .. MaxSpecs, addr : Ports \cup {0}]]
  /\ life \in [Containers -> {"absent", "running", "gone"}]
  /\ phase \in {"idle", "body", "stopping", "stopped"}
  /\ specs \in 0 .. MaxSpecs /\ server <= specs
  /\ leaked \subseteq Containers /\ acked \subseteq Containers
  /\ elsewhere \subseteq Ports /\ inherited \in [Servers -> SUBSET Containers]
  /\ answer \in Seq(Containers) /\ known \subseteq Containers

Listed(list, c) == \E i \in DOMAIN list : list[i] = c

\* No data race on the slice of a server: a handler that is between Lock() and
\* Unlock() is alone in the sections, and readers meet readers only.
NoDataRace ==
  \A g, h \in Handlers :
    g # h /\ conn[g] = conn[h] /\ stage[g] \in WriteSection =>
      stage[h] \notin WriteSection \cup ReadSection

\* What Announcements() returns contains every announcement that was answered
\* before the call, so one look is enough for a test that expects none
\* (task_lifecycle_test.go) or that has seen its container exit.
ReadsAreFresh ==
  stage[Test] = "answering" => \A c \in known : Listed(answer, c)

\* A server lists announcements of its own spec's containers.  Ports are used
\* again, so Stop, CleanupGarden and the next Start must come in this order, and
\* two things can still interfere: a container of this process that CleanupGarden
\* left, and one of another process, whose server gave up the port while the
\* container lived on.  Either had the port before this server had it.
NoForeignAnnouncements ==
  \A s \in Servers : \A c \in Containers :
    Listed(registered[s], c) =>
      \/ url[c].server = s
      \/ c \in inherited[s] /\ (c \in leaked \/ url[c].server = 0)

\* A request that reaches the handler is answered although the spec polls in a
\* loop and containers announce all the time: a waiting writer keeps new
\* readers out.
RequestsAnswered == \A h \in Handlers : stage[h] = "active" ~> stage[h] = "none"

Board ==
  INSTANCE AnnouncementBoard WITH
    board <- registered, current <- server, open <- (phase \in {"body", "stopping"})

\* The server implements the announcement board: each request is one atomic
\* post or read between its call and its answer, and no post comes after Stop.
ImplementsBoard == Board!Spec
=============================================================================
