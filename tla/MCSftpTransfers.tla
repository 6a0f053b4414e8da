---------------------------- MODULE MCSftpTransfers ----------------------------
(* The instance of SftpTransfers that TLC checks. *)
EXTENDS SftpTransfers
=============================================================================
