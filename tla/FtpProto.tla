------------------------------- MODULE FtpProto -------------------------------
(***************************************************************************)
(* The FTP protocol engine ftp_client_proto.cc / .h: a state machine with  *)
(* no I/O of its own. The fields of the object are a record p; a method    *)
(* that changes them is an operator returning [p, err], the new fields and *)
(* the value the method returns ("ok" for 0).                              *)
(*                                                                         *)
(* A reply line is a record: its status number (0 if it is not a number),  *)
(* the character in column 4, and whether an address can be scanned from   *)
(* it. An output line is represented by its command.                       *)
(***************************************************************************)
EXTENDS Integers, Sequences

STACKLEN == 3           \* ftp_client_proto_STACKLEN

States == {"UNINIT", "INIT", "CONNECTED", "USER", "PASS", "IDLE", "CWD", "TYPE",
           "SIZE", "PORT", "PASV", "RETR"}

Commands == {"USER", "PASS", "CWD", "TYPE", "SIZE", "PORT", "PASV", "RETR"}

NoOutput == "none"      \* m_obuflen == 0

Separators == {" ", "-", "x"}

\* init(): the fields of a new session.
NewProto ==
    [state         |-> "INIT",      \* what a reply is awaited for
     stack         |-> <<>>,        \* states to return to
     sent_user     |-> FALSE,       \* USER sent ahead of the server's hello
     obuf          |-> NoOutput,    \* the output line
     multiline     |-> FALSE,       \* in the middle of a multi-line reply
     status        |-> 0,           \* the last reply's number
     address_ready |-> FALSE]       \* PASV's address was not fetched yet

Success(status) == status >= 200 /\ status < 300
InProgress(status) == status >= 100 /\ status < 200
NeedMore(status) == status >= 300 /\ status < 400

isInputReady(p) == p.state # "IDLE"
isOutputReady(p) == p.obuf # NoOutput

callState(p, jump_to, return_to) ==
    [p EXCEPT !.stack = Append(@, return_to), !.state = jump_to]

popState(p) == [p EXCEPT !.stack = SubSeq(@, 1, Len(@) - 1)]

returnState(p) == [popState(p) EXCEPT !.state = p.stack[Len(p.stack)]]

Goto(p, s) == [p EXCEPT !.state = s]

Output(p, cmd) == [p EXCEPT !.obuf = cmd]

------------------------------------------------------------------------------
\* Mutant: the caller's state stays on the stack when PASV fails.
PasvReplyNoPop(p, l) ==
    IF Success(l.status) /\ l.addr
    THEN Output([returnState(p) EXCEPT !.address_ready = TRUE], "RETR")
    ELSE Goto(p, "IDLE")

\* The reply to PASV: its address is fetched and RETR is queued, or the
\* caller's state is dropped.
PasvReply(p, l) ==
    IF Success(l.status) /\ l.addr
    THEN LET q == [returnState(p) EXCEPT !.address_ready = TRUE]
         IN  IF q.state = "RETR" THEN Output(q, "RETR") ELSE q
    ELSE Goto(popState(p), "IDLE")

\* The switch of giveInput, on a line that starts a reply.
ReplyTo(p, l) ==
    CASE p.state = "INIT" ->
            IF ~Success(l.status) THEN Goto(p, "UNINIT")
            ELSE IF p.sent_user
                 THEN [Goto(p, "USER") EXCEPT !.sent_user = FALSE]
                 ELSE Goto(p, "CONNECTED")
      [] p.state = "USER" ->
            IF Success(l.status) THEN Goto(p, "IDLE")
            ELSE IF NeedMore(l.status) THEN Goto(Output(p, "PASS"), "PASS")
            ELSE Goto(p, "INIT")
      [] p.state = "PASS" -> Goto(p, IF Success(l.status) THEN "IDLE" ELSE "INIT")
      [] p.state \in {"CWD", "TYPE", "SIZE"} -> Goto(p, "IDLE")
      [] p.state = "PORT" ->
            IF Success(l.status) THEN returnState(p) ELSE Goto(popState(p), "IDLE")
      [] p.state = "PASV" -> PasvReply(p, l)
      [] p.state = "RETR" -> IF InProgress(l.status) THEN p ELSE Goto(p, "IDLE")
      [] OTHER -> p

\* Mutant: the end of a multi-line reply is not recognised.
giveInputNeverEnds(p, l) ==
    [p   |-> IF p.multiline THEN p
             ELSE ReplyTo([p EXCEPT !.status = l.status, !.multiline = (l.sep = "-")], l),
     err |-> "ok"]

\* giveInput(line)
giveInput(p, l) ==
    IF p.multiline
    THEN [p   |-> [p EXCEPT !.multiline = ~(l.sep = " " /\ l.status = p.status)],
          err |-> "ok"]
    ELSE [p   |-> ReplyTo([p EXCEPT !.status = l.status,
                                    !.multiline = (l.sep = "-")], l),
          err |-> IF p.state = "INIT" /\ ~Success(l.status) THEN "EACCES"
                  ELSE IF p.state \in {"UNINIT", "CONNECTED", "IDLE"} THEN "EINVAL"
                  ELSE "ok"]

\* getStatus(): 0 while a command is in progress.
getStatus(p) == IF p.state \in {"IDLE", "INIT"} THEN p.status ELSE 0

\* advanceOutput()
advanceOutput(p) == Output(p, NoOutput)

\* Mutant: a USER sent ahead of the hello is not remembered.
loginForgetsSendAhead(p) ==
    IF p.state \notin {"INIT", "CONNECTED"} THEN [p |-> p, err |-> "EISCONN"]
    ELSE [p   |-> IF p.state = "CONNECTED" THEN Goto(Output(p, "USER"), "USER")
                  ELSE Output(p, "USER"),
          err |-> "ok"]

\* login(): USER may be queued before the server has said hello.
login(p) ==
    IF p.state \notin {"INIT", "CONNECTED"} \/ p.sent_user
    THEN [p |-> p, err |-> "EISCONN"]
    ELSE IF isOutputReady(p) THEN [p |-> p, err |-> "EWOULDBLOCK"]
    ELSE [p   |-> IF p.state = "CONNECTED" THEN Goto(Output(p, "USER"), "USER")
                  ELSE [Output(p, "USER") EXCEPT !.sent_user = TRUE],
          err |-> "ok"]

\* Mutant: the test is missing.
RefusalNever(p) == "ok"

\* The test every command after login starts with.
Refusal(p) ==
    IF p.state # "IDLE" THEN "EISCONN"
    ELSE IF isOutputReady(p) THEN "EWOULDBLOCK" ELSE "ok"

\* cd(), type(), size(): the command is the state.
simpleCommand(p, cmd) ==
    [p   |-> IF Refusal(p) = "ok" THEN Goto(Output(p, cmd), cmd) ELSE p,
     err |-> Refusal(p)]

\* get(fname, adr): in passive mode the server is asked for a port. fits says
\* whether the name is shorter than ftp_client_proto_MAXFNAME.
get(p, passive, fits) ==
    LET mode == IF passive THEN "PASV" ELSE "PORT"
        err  == IF Refusal(p) = "ok" /\ ~fits THEN "E2BIG" ELSE Refusal(p)
    IN  [p   |-> IF err = "ok" THEN callState(Output(p, mode), mode, "RETR") ELSE p,
         err |-> err]

\* isPortReady(&address): the address is handed over once.
takePort(p) == [p EXCEPT !.address_ready = FALSE]
==============================================================================
