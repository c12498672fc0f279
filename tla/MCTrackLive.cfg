CONSTANTS
  tr1 = tr1
  tr2 = tr2
  Tracks <- Both
  Kinds = {"playback", "tee"}
SPECIFICATION Spec
PROPERTIES
  StopLeadsToFree
