---------------------------- MODULE MCUnitTests ----------------------------
(* Instances of UnitTestRunner for TLC.                                    *)
EXTENDS UnitTestRunner, UnitTests

TwoGroups == Restrict(AllGroups, {"Heap", "String"})
AllWays   == {"RUNNER", "script", "alone"}

AllPrograms == DOMAIN AllGroups

\* All but those with the longest scripts.
ShortPrograms == AllPrograms \ {"EntryTable", "Event", "EventBuffer", "MultiCoreEventBuffer", "Object"}
=============================================================================
