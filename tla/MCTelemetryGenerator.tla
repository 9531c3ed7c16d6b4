------------------------- MODULE MCTelemetryGenerator -------------------------
EXTENDS TelemetryGenerator

MCSpeeds == {2, 4}
=============================================================================
