------------------------------ MODULE MCBackup ------------------------------
EXTENDS Backup, TLC
CONSTANTS t1, c1
(* Two files uploaded to one challenge under one name: one path in the ZIP.  *)
MCFiles == {1, 2}
MCPathOf == [f \in MCFiles |-> <<c1, "task.zip">>]
=============================================================================
