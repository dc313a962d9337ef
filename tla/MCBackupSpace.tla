---------------------------- MODULE MCBackupSpace ----------------------------
(* Instance of BackupSpace for TLC: two runs of one sub-run each. *)
EXTENDS BackupSpace, TLC

Owner == "s1" :> "run_1" @@ "s2" :> "run_2"

=============================================================================
