------------------------------ MODULE MCSshOutput ------------------------------
(* Model checking of SshOutput: all the constants are numbers.              *)
EXTENDS SshOutput
=============================================================================
