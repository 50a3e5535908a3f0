--------------------------- MODULE MCVolmanSuite ---------------------------
(***************************************************************************)
(* Suite for TLC: the BeforeEach and AfterEach blocks of the volman suite. *)
(***************************************************************************)
EXTENDS Suite

Cleanup == [op |-> "cleanup", procs |-> << >>]
Stop(procs) == [op |-> "stop", procs |-> procs]
ReportErrors == [op |-> "report", procs |-> << >>]

\* volman_suite_test.go and volman_bbs_lrp_test.go
VolmanContexts == {"volman_bbs_lrp"}
VolmanFileOf == [b \in VolmanContexts \cup {"suite"} |-> b]

VolmanBeforeEach ==
  [b \in {"suite", "volman_bbs_lrp"} |->
     IF b = "suite" THEN <<"garden", "driver", "syncer">> ELSE <<"plumbing", "cell">>]

VolmanAfterEach ==
  [b \in {"suite", "volman_bbs_lrp"} |->
     IF b = "suite"
     THEN <<Cleanup, Stop(<<"garden", "syncer", "driver">>), ReportErrors>>
     ELSE <<Cleanup, Stop(<<"plumbing", "cell">>), ReportErrors>>]

NoFiles == {}
OneContainer == {"c1"}

\* What AfterEachCleansUp and NoSilentLeak need of a suite.
ASSUME VolmanSuiteAssumption == GardenFirst /\ Blocks >= MaxSpecs /\ CellsInFiles
=============================================================================
