-------------------------- MODULE MCQueryTelemetry --------------------------
EXTENDS TelemetryReaders, TLC
MCLogSizes == {-1, 1, 2}
\* No query is treated apart, and no property of the run is a liveness one.
CaptureSymmetry == Permutations(Captures)
=============================================================================
