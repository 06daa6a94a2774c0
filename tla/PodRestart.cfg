\* kwatch restarts while the pod of a Deployment is broken
SPECIFICATION Spec
CONSTANTS
  Pod = {"p"}
  Workload = {"custom", "web", "job"}
  Deployments = {}
  Specs <- OwnedPod
  Failures = {"Error", "OOMKilled"}
  Stops = {}
  Waits = {}
  IgnoreDisruptionTerminations = TRUE
  InhibitNodeSuppressesPods = TRUE
  ContainerNames = {}
  LogPatterns = {}
  ForbiddenReasons = {"OOMKilled"}
  ContainerRestartThreshold = 1
  defaultCrashLoopHighFreqThreshold = 0
  maxBaseline = 5
  MaxRestarts = 1
INVARIANTS RestartIsSilent
