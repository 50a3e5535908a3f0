----------------------------- MODULE SQLRunner -----------------------------
(***************************************************************************)
(* componentMaker.SQL(): the runner that gives each spec a fresh database  *)
(* diego_<process> on the shared database server and drops it at the end.  *)
(* It is a goroutine of the test process: a failed Expect in it fails the  *)
(* current spec and ends the runner (defer GinkgoRecover()).  A teardown   *)
(* that was aborted leaves a runner, and clients of its database, behind;  *)
(* so runners are numbered by the spec that started them.                  *)
(* The server is external: PostgreSQL refuses to drop a database that has  *)
(* sessions, MySQL drops it under them.                                    *)
(***************************************************************************)
EXTENDS Naturals, FiniteSets

CONSTANTS Procs,     \* numbers of the parallel processes
          MaxSpecs,  \* bound on the specs of a process
          MaxFaults  \* bound on the faults of a behaviour

VARIABLES driver,    \* dbDriverName, from DBInfo()
          database,  \* per process, the spec whose runner created diego_<p>; 0: none
          sessions,  \* per process, the sessions in diego_<p>
          runner,    \* per process and spec, where its runner is
          pools,     \* per process, the connections of its runners: the spec,
                     \* and which of the three calls of Connect opened it
          failed,    \* per process, the specs that failed
          spec,      \* per process, the number of the current spec
          faults

sqlVars == <<database, sessions, runner, pools>>

RunnerStates == {"off", "started", "connected", "dropped", "created", "opened",
                 "ready", "signalled", "reconnected", "exited"}

SQLInit ==
  /\ driver \in {"mysql", "postgres"}
  /\ database = [p \in Procs |-> 0]
  /\ sessions = [p \in Procs |-> {}]
  /\ runner = [p \in Procs |-> [s \in 1 .. MaxSpecs |-> "off"]]
  /\ pools = [p \in Procs |-> {}]

Fault == faults < MaxFaults /\ faults' = faults + 1

Runs(p, s, from, to) ==
  /\ runner[p][s] = from
  /\ runner' = [runner EXCEPT ![p][s] = to]

\* DROP DATABASE succeeds.
CanDrop(p) == database[p] # 0 /\ (driver = "mysql" \/ sessions[p] = {})

Fails(p) == failed' = [failed EXCEPT ![p] = @ \cup {spec[p]}]

\* The runner returns: defer db.Close() closes the first connection, the one db
\* was when the statement was executed.
Exits(p, s, from) ==
  /\ Runs(p, s, from, "exited")
  /\ pools' = [pools EXCEPT ![p] = @ \ {<<s, 1>>}]

Connect(p, s) ==
  /\ Runs(p, s, "started", "connected")
  /\ pools' = [pools EXCEPT ![p] = @ \cup {<<s, 1>>}]
  /\ UNCHANGED <<database, sessions, failed, faults>>

\* DROP DATABASE, its error ignored: "we just want a clean slate"
DropOld(p, s) ==
  /\ Runs(p, s, "connected", "dropped")
  /\ database' = IF CanDrop(p) THEN [database EXCEPT ![p] = 0] ELSE database
  /\ UNCHANGED <<sessions, pools, failed, faults>>

\* Mutant: CREATE DATABASE IF NOT EXISTS.
CreateIfMissing(p, s) ==
  /\ Runs(p, s, "dropped", "created")
  /\ database' = IF database[p] = 0 THEN [database EXCEPT ![p] = s] ELSE database
  /\ UNCHANGED <<sessions, pools, failed, faults>>

\* CREATE DATABASE
Create(p, s) ==
  \/ /\ database[p] = 0
     /\ Runs(p, s, "dropped", "created")
     /\ database' = [database EXCEPT ![p] = s]
     /\ UNCHANGED <<sessions, pools, failed, faults>>
  \/ /\ database[p] # 0
     /\ Exits(p, s, "dropped")
     /\ Fails(p)
     /\ UNCHANGED <<database, sessions, faults>>

\* Connect to the new database, and Ping
Open(p, s) ==
  /\ Runs(p, s, "created", "opened")
  /\ pools' = [pools EXCEPT ![p] = @ \cup {<<s, 2>>}]
  /\ sessions' = [sessions EXCEPT ![p] = @ \cup {<<"runner", s>>}]
  /\ UNCHANGED <<database, failed, faults>>

\* Mutant: the second connection stays open.
ReadyUnclosed(p, s) ==
  /\ Runs(p, s, "opened", "ready")
  /\ UNCHANGED <<database, sessions, pools, failed, faults>>

\* Close it, close(ready)
Ready(p, s) ==
  /\ Runs(p, s, "opened", "ready")
  /\ pools' = [pools EXCEPT ![p] = @ \ {<<s, 2>>}]
  /\ sessions' = [sessions EXCEPT ![p] = @ \ {<<"runner", s>>}]
  /\ UNCHANGED <<database, failed, faults>>

\* After the signal: a third connection, which nothing closes
Reconnect(p, s) ==
  /\ Runs(p, s, "signalled", "reconnected")
  /\ pools' = [pools EXCEPT ![p] = @ \cup {<<s, 3>>}]
  /\ UNCHANGED <<database, sessions, failed, faults>>

\* Mutants: the runner returns without the final DROP; it keeps its first
\* connection.
DropForgotten(p, s) ==
  /\ Exits(p, s, "reconnected")
  /\ UNCHANGED <<database, sessions, failed, faults>>
DropUnclosed(p, s) ==
  /\ Runs(p, s, "reconnected", "exited")
  /\ database' = IF CanDrop(p) THEN [database EXCEPT ![p] = 0] ELSE database
  /\ IF CanDrop(p) THEN UNCHANGED failed ELSE Fails(p)
  /\ UNCHANGED <<sessions, pools, faults>>

\* DROP DATABASE, and return
Drop(p, s) ==
  /\ Exits(p, s, "reconnected")
  /\ database' = IF CanDrop(p) THEN [database EXCEPT ![p] = 0] ELSE database
  /\ IF CanDrop(p) THEN UNCHANGED failed ELSE Fails(p)
  /\ UNCHANGED <<sessions, faults>>

\* The server does not answer a Ping in time, or an Exec or Close fails.
RunnerFails(p, s) ==
  /\ Fault
  /\ \E from \in {"started", "dropped", "created", "opened", "signalled", "reconnected"} :
       Exits(p, s, from)
  /\ Fails(p)
  /\ UNCHANGED <<database, sessions>>

RunnerStep(p, s) ==
  \/ Connect(p, s) \/ DropOld(p, s) \/ Create(p, s) \/ Open(p, s) \/ Ready(p, s)
  \/ Reconnect(p, s) \/ Drop(p, s)
=============================================================================
