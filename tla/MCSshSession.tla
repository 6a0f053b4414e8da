---------------------------- MODULE MCSshSession ----------------------------
(* SshSession on small sets of calls.                                      *)
EXTENDS SshSession, TLC

\* The calls of one kind are interchangeable.
CallSymmetry == Permutations(Connects) \cup Permutations(Disconnects)
=============================================================================
