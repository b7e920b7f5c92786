------------------------------- MODULE MCFtpPipe -------------------------------
(* Instances of FtpPipe.tla: the application of the benchmark, and          *)
(* applications that use what ftp_client_pipe.h allows.                     *)
EXTENDS FtpPipe
===============================================================================
