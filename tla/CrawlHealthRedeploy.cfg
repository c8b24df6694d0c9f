\* One redeploy between the bulk write and the message.
CONSTANTS
  Source = {s1}
  Threshold = 3
  MaxCount = 4
  MaxAttempts = 3
  LinesThatFit = 1
  FaultKind = {"crash"}
  MaxFaults = 1
SPECIFICATION Spec
PROPERTIES
  LastingOutageIsAlerted
