\* One tick is 5 s: the numbers of infra/k8s/03-supervisor.yaml.
CONSTANTS
  StartTimes = {4, 8, 24}
  FlushTimes = {1, 10}
  TracingKeys = TRUE
  LivenessDelay = 18
  LivenessPeriod = 3
  LivenessFailures = 3
  ReadinessDelay = 2
  ReadinessPeriod = 1
  ReadinessFailures = 20
SPECIFICATION Spec
INVARIANTS
  DeploymentInv
  MuteIsBounded
  RotationIsSound
PROPERTIES
  StartUpIsNotKilled
  ComesBack
