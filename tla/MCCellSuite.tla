---------------------------- MODULE MCCellSuite ----------------------------
(***************************************************************************)
(* Suite for TLC: the BeforeEach and AfterEach blocks of the cell suite,   *)
(* and of two test files that stand for the others.                        *)
(***************************************************************************)
EXTENDS Suite

Cleanup == [op |-> "cleanup", procs |-> << >>]
Stop(procs) == [op |-> "stop", procs |-> procs]
ReportErrors == [op |-> "report", procs |-> << >>]

\* cell_suite_test.go.  converger_test.go stands for the files that keep their
\* process variables; task_lifecycle_test.go sets them to nil in its BeforeEach,
\* and has contexts that start the cell and the auctioneer and one that starts
\* neither (lines 342-388).  Each file stops what it has in one StopProcesses.
CellContexts == {"converger", "task_lifecycle", "task_expires"}
KeepingContexts == {"converger"}
ResettingFiles == {"task_lifecycle"}
NoFiles == {}

CellFileOf ==
  [b \in CellContexts \cup {"suite"} |-> IF b = "task_expires" THEN "task_lifecycle" ELSE b]

CellBeforeEach ==
  [b \in CellContexts \cup {"suite"} |->
     CASE b = "suite" -> <<"plumbing", "garden", "bbs">>
       [] b = "converger" -> <<"auctioneer", "cell">>
       [] b = "task_lifecycle" -> <<"cell", "auctioneer">>
       [] b = "task_expires" -> << >>]

\* inigo_announcement_server.Stop, before the cleanup, panics exactly when
\* gardenClient is nil too: both are set at the end of the BeforeEach.
CellAfterEach ==
  [b \in CellContexts \cup {"suite"} |->
     IF b = "suite"
     THEN <<Cleanup, Stop(<<"bbs">>), Stop(<<"garden">>), Stop(<<"plumbing">>), ReportErrors>>
     ELSE <<Stop(<<"auctioneer", "cell">>)>>]

NoContainers == {}
OneContainer == {"c1"}

\* What DependantsStopFirst and NoSilentLeak need of a suite.
ASSUME CellSuiteAssumption == StopsInReverse /\ CellsInFiles
=============================================================================
