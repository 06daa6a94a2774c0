\* Pods of four kinds through failures, drains and restarts of kwatch
SPECIFICATION Spec
CONSTANTS
  Pod = {"p"}
  Workload = {"custom", "web", "job"}
  Deployments = {"web"}
  Specs <- FourPods
  Failures = {"Error", "OOMKilled", "SIGTERM"}
  Stops = {"SIGTERM"}
  Waits = {"ErrImagePull", "ImagePullBackOff"}
  IgnoreDisruptionTerminations = TRUE
  InhibitNodeSuppressesPods = TRUE
  ContainerNames = {}
  LogPatterns = {}
  ForbiddenReasons = {"OOMKilled"}
  ContainerRestartThreshold = 1
  defaultCrashLoopHighFreqThreshold = 0
  maxBaseline = 1
  MaxRestarts = 1
INVARIANTS CrashIsTold FailureIsTold StartupQuiet RecoveredIsNotBaselined
PROPERTIES DrainIsSilent
