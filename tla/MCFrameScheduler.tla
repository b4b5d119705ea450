-------------------------- MODULE MCFrameScheduler --------------------------
(* Small instances of FrameScheduler.  Times are in units of the shortest  *)
(* period; a field is VP + 1 halflines.                                    *)
EXTENDS FrameScheduler

MCCallbacks == {"Halfline", "TOMPIT", "GPUCPUINT", "JERRYPIT1", "JERRYI2S", "DSPSample"}
MCPitPeriods == {0, 1}
MCSclkPeriods == {2}
MCVPs == {1, 2}
=============================================================================
