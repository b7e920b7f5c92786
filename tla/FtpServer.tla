------------------------------- MODULE FtpServer -------------------------------
(***************************************************************************)
(* What an FTP server says (external: the client's view of RFC 959), as    *)
(* reply lines for FtpProto.tla.                                           *)
(***************************************************************************)
EXTENDS Integers, Sequences

\* A line of a reply to cmd; "first" tells where a reply starts (only the
\* properties look at cmd and first). An address can be scanned from a 227:
\* every successful line without one (no comma, fewer than six numbers, or the
\* address on a later line of the reply) is a 200 here, since the client looks
\* at nothing of the number but its first digit.
Line(cmd, status, sep, first) ==
    [cmd |-> cmd, status |-> status, sep |-> sep, addr |-> (status = 227),
     first |-> first]

\* A reply in one line, or in three as RFC 959 lays them out.
OneLine(cmd, status) == <<Line(cmd, status, " ", TRUE)>>

ThreeLines(cmd, status) ==
    <<Line(cmd, status, "-", TRUE), Line(cmd, 0, "x", FALSE),
      Line(cmd, status, " ", FALSE)>>

\* The final replies a server may give to each command.
Verdicts(cmd) ==
    CASE cmd = "HELLO" -> {220, 421}
      [] cmd = "USER"  -> {230, 331, 530}
      [] cmd = "PASS"  -> {230, 530}
      [] cmd = "PASV"  -> {227, 200, 502}
      [] cmd = "RETR"  -> {226, 426, 550}
      [] OTHER         -> {200, 550}
==============================================================================
