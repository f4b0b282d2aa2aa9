--------------------------- MODULE HypothesisRules ---------------------------
(***************************************************************************)
(* The table of rules by which signals become hypotheses                   *)
(* (analysis/hypothesis_rules.py, DEFAULT_HYPOTHESIS_RULES): what a rule   *)
(* fires on, what supports and what refutes it, and the confidence it      *)
(* begins with.  Titles, rationales and hints are left out.  A rule's id   *)
(* is its place in the order of the names, the last thing rank looks at.   *)
(***************************************************************************)
EXTENDS Naturals

Rule(id, base, triggers, supporting, refuting) ==
  [id |-> id, base |-> base, triggers |-> triggers,
   supporting |-> supporting, refuting |-> refuting]

ImagePullFailure ==
  Rule(1, 70, {"event.image_pull_failure", "pod.image_pull_failure"},
       {"deployment.unavailable_replicas", "event.backoff",
        "image.no_pull_secret", "image.not_found", "image.pull_unauthorized"},
       {})

BackendsAllFailing ==
  Rule(2, 65, {"graph.service_backends_failing"},
       {"network.no_endpoints", "pod.crash_loop", "pod.image_pull_failure"},
       {})

ClusterDnsUnavailable ==
  Rule(3, 65, {"network.dns_missing"},
       {"logs.error_pattern"},
       {})

DnsWorkloadDegraded ==
  Rule(4, 75, {"network.dns_workload_unhealthy"},
       {"logs.error_pattern", "network.dns_missing"},
       {})

IngressDeniedByPolicy ==
  Rule(5, 65, {"network.policy_denies_all"},
       {"event.probe_failure", "network.no_endpoints"},
       {})

(* Faulty: nothing explains a Service without endpoints better.            *)
EndpointsUnrefuted ==
  Rule(6, 60, {"network.no_endpoints"},
       {"deployment.unavailable_replicas", "event.probe_failure",
        "network.selector_matches_nothing", "pod.crash_loop",
        "pod.not_ready", "pod.pending"},
       {})

ServiceWithoutEndpoints ==
  Rule(6, 60, {"network.no_endpoints"},
       {"deployment.unavailable_replicas", "event.probe_failure",
        "network.selector_matches_nothing", "pod.crash_loop",
        "pod.not_ready", "pod.pending"},
       {"graph.service_backends_failing"})

NodeHostingFailures ==
  Rule(7, 60, {"graph.node_carrying_failures"},
       {"node.not_ready", "node.pressure", "pod.pending"},
       {})

NodeUnhealthy ==
  Rule(8, 60, {"node.not_ready", "node.pressure", "pod.evicted"},
       {"event.scheduling_failure", "pod.oom_killed", "pod.pending"},
       {})

ProbeFailing ==
  Rule(9, 45, {"event.probe_failure", "pod.not_ready"},
       {"container.killed", "deployment.unavailable_replicas",
        "network.no_endpoints", "pod.crash_loop"},
       {})

RolloutStalled ==
  Rule(10, 50, {"deployment.progress_stalled",
                     "deployment.unavailable_replicas"},
       {"event.backoff", "pod.crash_loop", "pod.image_pull_failure"},
       {})

QuotaExhausted ==
  Rule(11, 75, {"quota.exceeded"},
       {"event.scheduling_failure", "pod.pending"},
       {})

Unschedulable ==
  Rule(12, 60, {"event.scheduling_failure", "pod.pending"},
       {"metrics.node_overcommitted", "node.not_ready", "node.pressure",
        "storage.pvc_unbound"},
       {})

ClaimBlockingPod ==
  Rule(13, 70, {"graph.pod_blocked_by_storage"},
       {"pod.pending", "storage.pvc_unbound"},
       {})

ClassBlockingWorkloads ==
  Rule(14, 75, {"graph.storage_class_blocking"},
       {"graph.pod_blocked_by_storage", "pod.pending",
        "storage.pvc_unbound"},
       {})

NoDefaultStorageClass ==
  Rule(15, 70, {"storage.no_default_class"},
       {"pod.pending", "storage.pvc_unbound"},
       {})

VolumeAttachBlocked ==
  Rule(16, 70, {"storage.attach_failure"},
       {"event.mount_failure", "node.not_ready", "pod.pending",
        "pod.stuck_creating"},
       {})

VolumeUnavailable ==
  Rule(17, 60, {"event.mount_failure", "storage.pvc_unbound"},
       {"pod.stuck_creating", "storage.pv_unavailable"},
       {})

ApplicationStartupFailure ==
  Rule(18, 55, {"event.backoff", "pod.crash_loop"},
       {"container.nonzero_exit_code", "deployment.unavailable_replicas",
        "event.probe_failure", "logs.error_pattern",
        "logs.historical_errors"},
       {"config.key_missing", "config.reference_missing",
        "container.killed", "container.oom_exit_code",
        "pod.image_pull_failure", "pod.oom_killed"})

(* Faulty: only a reference that was looked up tells of it.                *)
ConfigurationAsRead ==
  Rule(19, 80, {"config.key_missing", "config.reference_missing"},
       {"container.nonzero_exit_code", "event.warning",
        "logs.error_pattern", "pod.crash_loop"},
       {})

MissingConfiguration ==
  Rule(19, 80, {"config.key_missing", "config.reference_missing",
                     "pod.config_error"},
       {"container.nonzero_exit_code", "event.warning",
        "logs.error_pattern", "pod.crash_loop"},
       {})

OutOfMemory ==
  Rule(20, 65, {"container.oom_exit_code", "logs.oom_pattern",
                     "pod.oom_killed"},
       {"container.missing_limits", "container.no_memory_limit",
        "metrics.memory_near_limit", "metrics.memory_peaked_at_limit",
        "metrics.restart_rate", "node.pressure", "pod.crash_loop"},
       {})

RuleTable ==
  {ImagePullFailure, BackendsAllFailing, ClusterDnsUnavailable,
   DnsWorkloadDegraded, IngressDeniedByPolicy, ServiceWithoutEndpoints,
   NodeHostingFailures, NodeUnhealthy, ProbeFailing, RolloutStalled,
   QuotaExhausted, Unschedulable, ClaimBlockingPod, ClassBlockingWorkloads,
   NoDefaultStorageClass, VolumeAttachBlocked, VolumeUnavailable,
   ApplicationStartupFailure, MissingConfiguration, OutOfMemory}
=============================================================================
