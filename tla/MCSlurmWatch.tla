---------------------------- MODULE MCSlurmWatch ----------------------------
(* SlurmWatch with the ExitCode fields of a job that failed, was killed by     *)
(* signal 9, ended with code 0 all the same, or met Slurm's own 0:125.         *)
EXTENDS SlurmWatch

MCFields == {<<1, 0>>, <<0, 9>>, <<0, 0>>, <<0, 125>>}
MCTimeouts == {NoTimeout, 0, 5}
=============================================================================
