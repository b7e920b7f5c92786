----------------------------- MODULE MCFtpSession -----------------------------
(* Instances of FtpSession.tla: passive mode, PORT mode, repeated logins. *)
EXTENDS FtpSession
==============================================================================
