SPECIFICATION HostSpec
CONSTANTS
  Jobs = {"a"}
  Ports = {"19000", "19001"}
INVARIANT HealedJobsAreDead
