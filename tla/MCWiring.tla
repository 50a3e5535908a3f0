----------------------------- MODULE MCWiring -----------------------------
(***************************************************************************)
(* Wiring for TLC: the start sequences of the repository's specs, in the   *)
(* order of their BeforeEach blocks.                                       *)
(***************************************************************************)
EXTENDS Wiring

\* cell_suite_test.go, BeforeEach
CellBase == <<"nats", "locket", "garden", "bbs">>

\* ssh_test.go (lrp_test.go and most others start a subset of it)
SSHSpec == CellBase \o <<"router", "file-server", "rep-0", "auctioneer", "ssh-proxy">>
\* converger_test.go, with its restart of the bbs
ConvergerSpec == CellBase \o
  <<"file-server", "router", "auctioneer", "rep-0", "bbs", "rep-1">>
\* evacuation_test.go, "when garden Destroy hangs"
EvacuationSpec == CellBase \o
  <<"bbs", "router", "file-server", "auctioneer", "evac-cells", "garden">>
\* local_route_emitter_test.go, "when tcp route emitting is enabled"
LocalEmitterSpec == CellBase \o
  <<"local-cells", "router", "file-server", "auctioneer", "routing-api">>
\* and without: the spec has the emitters, but no routing API
LocalEmitterHTTPSpec == CellBase \o <<"local-cells", "router", "file-server", "auctioneer">>
\* volman_suite_test.go and volman_bbs_lrp_test.go
VolmanSpec ==
  <<"garden", "local-driver", "nats", "locket", "bbs", "router", "file-server",
    "rep-0", "auctioneer">>

AllSpecs ==
  {SSHSpec, ConvergerSpec, EvacuationSpec, LocalEmitterSpec, LocalEmitterHTTPSpec, VolmanSpec}

\* These sequences leave RoutingAPI the port it does not claim.
ASSUME MCWiringAssumption == CompatibleScenarios

FirstTwo == {1, 2}
\* Three specs, so that the slice of config functions can get room to share
ThreeAndOne == [p \in FirstTwo |-> IF p = 1 THEN 3 ELSE 1]
=============================================================================
