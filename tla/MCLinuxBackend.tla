-------------------------- MODULE MCLinuxBackend ---------------------------
(* An instance of the linux backend: callstacks of up to three entries,    *)
(* with the callchains that are left of them when entries are lost.        *)
EXTENDS LinuxBackend

(* The subsequences of <<1, 2, 3>>.                                        *)
Subchains == {<<1>>, <<2>>, <<3>>, <<1, 2>>, <<1, 3>>, <<2, 3>>, <<1, 2, 3>>}

(* One that is empty, one that fills the array, one that starts another.   *)
Arrays == {<<0, 0, 0>>, <<1, 2, 0>>, <<1, 3, 0>>, <<1, 2, 3>>, <<1, 0, 3>>}
=============================================================================
