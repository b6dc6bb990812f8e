---------------------------- MODULE MCSyncEngine ----------------------------
(* SyncEngine on small instances: ids are numbers, threads model values.    *)
EXTENDS SyncEngine
CONSTANTS m1, a1, sched
MCInstances == {1}
MCTwoInstances == {1, 2}
MCManual == {m1}
MCAdmins == {a1}
MCNoAdmins == {}
MCNoManual == {}
=============================================================================
