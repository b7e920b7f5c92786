------------------------------ MODULE FtpSession ------------------------------
(***************************************************************************)
(* The protocol engine of FtpProto.tla driven by an application and        *)
(* talking to a server, over a connection that delivers lines in order.    *)
(* The application calls login, cd, type, size and get whenever it likes;  *)
(* the engine refuses what it is not ready for. The server (external) says *)
(* hello and answers every command in turn, with a reply of one line or of *)
(* several, arriving piecemeal.                                            *)
(***************************************************************************)
EXTENDS FtpProto, FtpServer, SequencesExt

CONSTANTS
    Passive,        \* get() in PASV mode (the only one the pipe uses) or PORT
    RetryLogin      \* TRUE: the application calls login() again after a failure

ASSUME SessionAssumption == Passive \in BOOLEAN /\ RetryLogin \in BOOLEAN

VARIABLES
    p,              \* the engine's fields
    toServer,       \* command lines on their way
    toClient,       \* reply lines on their way
    owed,           \* what the server still has to say: replies to send, in order
    err,            \* what the last engine method returned
    triedLogin      \* login() was called in this session

vars == <<p, toServer, toClient, owed, err, triedLogin>>

------------------------------------------------------------------------------
Init ==
    /\ p = NewProto
    /\ toServer = <<>>
    /\ toClient = <<>>
    /\ owed = <<"HELLO">>
    /\ err = "ok"
    /\ triedLogin = FALSE

------------------------------------------------------------------------------
\* The application's calls.
Call(result) ==
    /\ err \notin {"EACCES", "EINVAL"}
    /\ p' = result.p
    /\ err' = result.err
    /\ UNCHANGED <<toServer, toClient, owed>>

Login ==
    /\ triedLogin => RetryLogin
    /\ Call(login(p))
    /\ triedLogin' = TRUE

Simple(cmd) == Call(simpleCommand(p, cmd)) /\ UNCHANGED triedLogin

Get(fits) == Call(get(p, Passive, fits)) /\ UNCHANGED triedLogin

\* The pipe takes the output line and puts it on the wire.
SendOutput ==
    /\ isOutputReady(p)
    /\ toServer' = Append(toServer, p.obuf)
    /\ p' = advanceOutput(p)
    /\ UNCHANGED <<toClient, owed, err, triedLogin>>

\* The pipe gives the engine a line, if the engine is ready for one.
ReceiveLine ==
    /\ isInputReady(p)
    /\ err \notin {"EACCES", "EINVAL"}
    /\ toClient # <<>>
    /\ LET r == giveInput(p, Head(toClient))
       IN  p' = r.p /\ err' = r.err
    /\ toClient' = Tail(toClient)
    /\ UNCHANGED <<toServer, owed, triedLogin>>

\* The application gives up and starts over: connect() calls init().
Reconnect ==
    /\ \/ err \in {"EACCES", "EINVAL"}
       \/ p.state = "INIT" /\ getStatus(p) # 0
    /\ p' = NewProto
    /\ toServer' = <<>>
    /\ toClient' = <<>>
    /\ owed' = <<"HELLO">>
    /\ err' = "ok"
    /\ triedLogin' = FALSE

------------------------------------------------------------------------------
\* The server reads a command.
ServerReads ==
    /\ owed = <<>>
    /\ toServer # <<>>
    /\ owed' = <<Head(toServer)>>
    /\ toServer' = Tail(toServer)
    /\ UNCHANGED <<p, toClient, err, triedLogin>>

\* The server announces a transfer before its final reply.
ServerStartsTransfer ==
    /\ owed = <<"RETR">>
    /\ toClient' = Append(toClient, Line("RETR", 150, " ", TRUE))
    /\ owed' = <<"RETR2">>
    /\ UNCHANGED <<p, toServer, err, triedLogin>>

\* The server decides on its final reply.
ServerReplies ==
    /\ owed # <<>> /\ owed[1] \in Commands \cup {"HELLO", "RETR2"}
    /\ LET cmd == IF owed[1] = "RETR2" THEN "RETR" ELSE owed[1]
       IN  \E v \in Verdicts(cmd) :
              \E r \in {OneLine(cmd, v), ThreeLines(cmd, v)} : toClient' = toClient \o r
    /\ owed' = <<>>
    /\ UNCHANGED <<p, toServer, err, triedLogin>>

Next ==
    \/ Login
    \/ \E cmd \in {"CWD", "TYPE", "SIZE"} : Simple(cmd)
    \/ \E fits \in BOOLEAN : Get(fits)
    \/ SendOutput
    \/ ReceiveLine
    \/ Reconnect
    \/ ServerReads
    \/ ServerStartsTransfer
    \/ ServerReplies

\* Lines are carried and answered; the application calls when it likes.
Fairness ==
    /\ WF_vars(SendOutput)
    /\ WF_vars(ReceiveLine)
    /\ WF_vars(ServerReads)
    /\ WF_vars(ServerReplies)

Spec == Init /\ [][Next]_vars /\ Fairness

------------------------------------------------------------------------------
\* Type invariant: the engine's fields, with a stack of at most STACKLEN states,
\* and the lines under way.
TypeOK ==
    /\ p \in [state : States, stack : BoundedSeq(States, STACKLEN), sent_user : BOOLEAN,
              obuf : Commands \cup {NoOutput}, multiline : BOOLEAN,
              status : 0..599, address_ready : BOOLEAN]
    /\ \A i \in 1..Len(toServer) : toServer[i] \in Commands
    /\ Len(owed) <= 1
    /\ err \in {"ok", "EISCONN", "EWOULDBLOCK", "E2BIG", "EACCES", "EINVAL"}

\* The command whose reply each state awaits (ftp_client_proto.h, state_t).
Awaited(s) == IF s = "INIT" THEN "HELLO" ELSE s

\* "m_state says what our parser is awaiting a response to": the next line is
\* the start of the reply to the command the state is named for, or, in a
\* multi-line reply, a continuation of the reply already started.
InSync ==
    toClient # <<>> /\ isInputReady(p) /\ err \notin {"EACCES", "EINVAL"} =>
       IF p.multiline THEN ~toClient[1].first
       ELSE toClient[1].first /\ toClient[1].cmd = Awaited(p.state)

\* getStatus() is nonzero only when nothing is outstanding: no line waits to be
\* sent, no command is unanswered, and all that is still to come are the
\* remaining lines of the reply already reported.
DoneMeansDone ==
    getStatus(p) # 0 /\ err \notin {"EACCES", "EINVAL"} =>
       /\ p.obuf = NoOutput /\ toServer = <<>> /\ owed = <<>>
       /\ \A i \in 1..Len(toClient) : ~toClient[i].first

\* The return stack is never popped empty nor overflows (popState and callState
\* abort): it holds a state exactly while a port is being negotiated.
StackMatchesState ==
    Len(p.stack) = IF p.state \in {"PASV", "PORT"} THEN 1 ELSE 0

\* A state that awaits a reply does not await it for ever: some command is
\* being sent, answered or reported.
NeverWaitsForNothing ==
    p.state \notin {"IDLE", "CONNECTED", "UNINIT"} /\ getStatus(p) = 0 =>
       \/ p.obuf # NoOutput
       \/ toServer # <<>> \/ owed # <<>> \/ toClient # <<>>

\* Every command the engine accepts is finished in the end, by a reply or by
\* the end of the session.
CommandsFinish ==
    (p.state \notin {"IDLE", "CONNECTED", "UNINIT"})
       ~> (getStatus(p) # 0 \/ p.state \in {"CONNECTED", "UNINIT"})
==============================================================================
