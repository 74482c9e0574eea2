------------------------------ MODULE MCClient ------------------------------
(***************************************************************************)
(* Instances for TLC of two parts of a client's process, one per           *)
(* behaviour: its life and its fetches (ClientSetup, in four               *)
(* configurations) and its metrics (Metrics, with a week of one hour, two  *)
(* starts of the process and three events of other threads).               *)
(***************************************************************************)
EXTENDS ClientSetup, Metrics

MCConfigs == {[bep5 |-> TRUE, i2p |-> FALSE, injector |-> "bep5"],
              [bep5 |-> TRUE, i2p |-> TRUE, injector |-> "i2p"],
              [bep5 |-> FALSE, i2p |-> FALSE, injector |-> "direct"],
              [bep5 |-> FALSE, i2p |-> FALSE, injector |-> "none"]}

\* A client that failed to start, and one that is not started any more.
NoClient ==
  /\ config \in {c \in Configs : c.injector = "bep5"}
  /\ internal = "Failed"
  /\ cache = FALSE /\ starting = TRUE
  /\ setup = "unborn" /\ injector = "none" /\ listen = "unborn"
  /\ dht = "none" /\ upnp = FALSE /\ server = FALSE /\ i2p = "none"
  /\ fetch = NoFetch /\ peer = "off"

NoMetrics ==
  /\ now = MaxTime /\ next = 1
  /\ device_file = Missing /\ number_file = Missing /\ records = {}
  /\ client = "none" /\ pc = "none" /\ then = "none"
  /\ device = Nobody /\ number = NoNumber /\ record_id = NoRecord
  /\ oldest_record = <<>> /\ stopped = FALSE /\ processor = FALSE
  /\ alarm = NoAlarm /\ buffer = {}
  /\ finished = {} /\ unfinished = {} /\ has_new_data = FALSE
  /\ wake = FALSE /\ watch = "wait" /\ changed = FALSE
  /\ channel = <<>> /\ closed = FALSE
  /\ runs = MaxRuns /\ ops = MaxOps

ClientSpec ==
  /\ (SetupInit /\ NoMetrics) \/ (NoClient /\ MetricsInit)
  /\ [][\/ SetupNext /\ UNCHANGED metricsvars
        \/ MetricsNext /\ UNCHANGED setup_vars]_<<setup_vars, metricsvars>>
  /\ SetupFair /\ MetricsFair
=============================================================================
