SPECIFICATION Spec
CONSTANTS
  QueueSize = 2
  Watts <- OnOff
  Commands <- ReflowOnly
  Gestures <- StopGesture
  MaxInputs = 3
INVARIANTS
  IteratorIsThere
