--------------------------- MODULE MCDetectionGate ---------------------------
\* TLC instances of DetectionGate. One rule is enough for what its windows
\* cover.
EXTENDS DetectionGate
==============================================================================
