---------------------------- MODULE MCLapPipeline ----------------------------
EXTENDS LapPipeline

CONSTANTS ver, ham

MCGrid == <<ver, ham>>
MCLapTimes == {1, 2}
=============================================================================
