SPECIFICATION Spec
CONSTANTS
  PinLowSamples = 2
PROPERTIES
  FaultsLatch
