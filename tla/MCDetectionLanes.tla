--------------------------- MODULE MCDetectionLanes ---------------------------
\* DetectionLanes on two nodes that compete for one rule: TLC's instance.
EXTENDS DetectionLanes
===============================================================================
