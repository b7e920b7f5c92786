-------------------------------- MODULE FtpPipe --------------------------------
(***************************************************************************)
(* One FTP session: ftp_client_pipe.cc / .h around the protocol engine of  *)
(* FtpProto.tla, between an application, a server (external), the poller   *)
(* and the scheduler.                                                      *)
(*                                                                         *)
(* Everything runs in one thread: an event of a socket, a scheduled call   *)
(* or a call of the application runs to its end, except that the           *)
(* application's ftpCmdDone, called last, may call the session again. So   *)
(* the callback is a phase of its own, from the call to CallbackReturn,    *)
(* and the session's fields are a record s which every handler maps to     *)
(* a new record.                                                           *)
(***************************************************************************)
EXTENDS FtpProto, FtpServer

CONSTANTS
    MultiLine,          \* TRUE: the server sends replies of several lines
    CarriesOn,          \* TRUE: the application goes on after a bad status;
                        \* FALSE: it then ends the session, as robouser_t does
    RestartInCallback,  \* TRUE: it starts a new session inside ftpCmdDone
    Failures,           \* TRUE: connections break
    NoAddress,          \* TRUE: a successful reply to PASV may lack an address
    Spurious            \* TRUE: the poller may report data that are not there

ASSUME PipeAssumption ==
    {MultiLine, CarriesOn, RestartInCallback, Failures, NoAddress, Spurious} \subseteq BOOLEAN

VARIABLES
    s,                  \* the session's fields (below)
    cmd,                \* the command whose ftpCmdDone the application awaits
    report,             \* the outcome ftpCmdDone was called with, while it runs
    dead,               \* the application gave up the session
    aborted,            \* an assertion failed
    toServer, toClient, \* lines on the control connection
    owed,               \* what the server has still to answer
    broken,             \* the control connection is broken
    xfer                \* the server's end of the data connection

appVars == <<cmd, report, dead, aborted>>
netVars == <<toServer, toClient, owed, broken, xfer>>
vars == <<s, appVars, netVars>>

\* init(): no connection. A socket is "none", "connecting" or "open".
NewPipe ==
    [p     |-> NewProto,
     state |-> "IDLE",      \* m_state: IDLE, GETTING or SLEEPING
     cfd   |-> "none", dfd |-> "none",
     in    |-> <<>>,        \* lines in m_iline and m_ibuf
     out   |-> <<>>,        \* lines in m_obuf
     timer |-> "none",      \* skedIndex: not scheduled, a timeout, a wake-up
     events |-> "none",     \* m_dfd_events
     later |-> FALSE,       \* m_wakeup may be after now
     gotData |-> FALSE,     \* bytes were read since get()
     calls |-> 0]           \* m_in_ftpCmdDone

\* shutdown()
shutdown(x) ==
    IF x.cfd = "none" /\ x.dfd = "none" THEN x
    ELSE [x EXCEPT !.timer = "none", !.state = "IDLE", !.cfd = "none", !.dfd = "none"]

closeData(x) == [x EXCEPT !.dfd = "none"]

------------------------------------------------------------------------------
(* notifyPollEvent_cfd. A handler's result is [s, err]: err is "ok",       *)
(* "EALREADY" or "error".                                                  *)

Result(x, e) == [s |-> x, err |-> e]

\* Mutant: the engine is not told that its line was taken.
PutOutputNoAdvance(x) ==
    IF isOutputReady(x.p) THEN [x EXCEPT !.out = Append(@, x.p.obuf)] ELSE x

PutOutput(x) ==
    IF isOutputReady(x.p)
    THEN [x EXCEPT !.out = Append(@, x.p.obuf), !.p = advanceOutput(@)]
    ELSE x

\* A line has come: the timeout is cancelled, unless it is the one of get().
\* Mutant: it is not.
LineCameKeepsTimer(x) == x

LineCame(x) == IF x.state = "IDLE" THEN [x EXCEPT !.timer = "none"] ELSE x

\* One line of m_ibuf. It stays there once the loop has been left, and so does
\* one the engine does not take.
ReadLine(r, line) ==
    IF r.err # "ok" \/ ~isInputReady(r.s.p)
    THEN [r EXCEPT !.s.in = Append(@, line)]
    ELSE LET x == LineCame(r.s)
             g == giveInput(x.p, line)
             y == [x EXCEPT !.p = g.p]
         IN  IF g.err # "ok" THEN Result([y EXCEPT !.in = Append(@, line)], "error")
             ELSE IF getStatus(g.p) # 0 THEN Result(y, "EALREADY")
             ELSE Result(PutOutput(y), "ok")

\* The loop over all lines: where it is after i of them.
ReadLines(x) ==
    LET after[i \in 0..Len(x.in)] ==
            IF i = 0 THEN Result([x EXCEPT !.in = <<>>], "ok")
            ELSE ReadLine(after[i - 1], x.in[i])
    IN  after

ProcessLines(x) ==
    LET r == ReadLines(x)[Len(x.in)]
    IN  IF r.err = "ok" THEN Result(PutOutput(r.s), "ok") ELSE r

\* Connecting to the address PASV gave: how it goes is chosen by port.
OpenData(x, port) ==
    IF ~x.p.address_ready THEN Result(x, "ok")
    ELSE LET y == [x EXCEPT !.p = takePort(@)]
         IN  IF port = "nosocket" THEN Result(y, "error")
             ELSE IF port = "refused" THEN Result([y EXCEPT !.dfd = "open"], "error")
             ELSE Result([y EXCEPT !.dfd = port], "ok")

\* What is left to do after the lines: flush, then the data connection.
\* flush is "ok", "block" or "error".
FlushAndOpen(x, flush, port) ==
    IF x.cfd = "open" /\ flush = "error" /\ x.out # <<>> THEN Result(x, "error")
    ELSE OpenData(IF x.cfd = "open" /\ flush = "ok" THEN [x EXCEPT !.out = <<>>] ELSE x, port)

\* After POLLERR and the read: lines and output.
ControlIO(x, flush, port) ==
    LET r == ProcessLines(x)
    IN  IF r.err # "ok" THEN r ELSE FlushAndOpen(r.s, flush, port)

\* Whether the flush at the end of ControlIO is reached, and what it sends.
Flushed(x, flush) ==
    LET r == ProcessLines(x)
    IN  IF r.err = "ok" /\ r.s.cfd = "open" /\ flush = "ok" THEN r.s.out ELSE <<>>

------------------------------------------------------------------------------
(* notifyPollEvent_dfd.                                                    *)

\* Mutant: a pending timeout stays scheduled.
CloseTransferKeepsTimer(x) == [closeData(x) EXCEPT !.state = "IDLE"]

CloseTransfer(x) == [closeData(x) EXCEPT !.state = "IDLE", !.timer = "none"]

\* Mutants: the end of the data is not passed on; a read error ends the
\* transfer as the end of the file does.
TransferQuietEnd(x, read, pause) ==
    CASE read = "eof"   -> Result(CloseTransfer(x), "ok")
      [] read = "error" -> Result(x, "error")
      [] OTHER          -> Result([x EXCEPT !.gotData = TRUE, !.later = pause], "ok")

TransferErrorEnds(x, read, pause) ==
    CASE read \in {"eof", "error"} -> Result(CloseTransfer(x), "EALREADY")
      [] OTHER          -> Result([x EXCEPT !.gotData = TRUE, !.later = pause], "ok")

\* handle_data_io reads once; then the throttle (pause: sleep before the next).
Transfer(x, read, pause) ==
    CASE read = "eof"   -> Result(CloseTransfer(x), "EALREADY")
      [] read = "error" -> Result(x, "error")
      [] read = "data"  -> Result([x EXCEPT !.gotData = TRUE, !.later = pause, !.events = "none"], "ok")
      [] read = "block" -> Result([x EXCEPT !.later = pause /\ x.gotData, !.events = "none"], "ok")

\* Too early: the event is remembered until the scheduler wakes the session.
\* Mutant: nobody wakes it.
SnoozeForEver(x, kind) ==
    [x EXCEPT !.state = "SLEEPING", !.events = IF @ = "in" THEN @ ELSE kind]

Snooze(x, kind) ==
    [x EXCEPT !.timer = IF x.state = "GETTING" THEN "wakeup" ELSE @,
              !.state = "SLEEPING",
              !.events = IF @ = "in" THEN @ ELSE kind]

\* An event ("in" or "hup") of the data socket. conn is the outcome of a
\* pending connect; early says that m_wakeup is still to come.
DataIO(x, kind, conn, early, read, pause) ==
    IF x.state = "IDLE" THEN Result(x, "assert")
    ELSE IF x.dfd = "connecting" /\ conn = "error" THEN Result(x, "error")
    ELSE LET y == [x EXCEPT !.dfd = "open"]
             snooze == y.state = "GETTING" /\ kind = "in" /\ early
         IN  IF snooze /\ y.timer # "none" THEN Result(y, "assert")
             ELSE IF snooze \/ y.state = "SLEEPING" THEN Result(Snooze(y, kind), "ok")
             ELSE IF kind = "in" THEN Transfer([y EXCEPT !.timer = "none"], read, pause)
             ELSE Result(CloseTransfer(y), "EALREADY")

------------------------------------------------------------------------------
(* notifyPollEvent, once the handler has returned.                         *)

\* A command that failed takes its data connection with it.
CloseFailed(x) ==
    IF getStatus(x.p) # 0 /\ ~Success(getStatus(x.p)) THEN closeData(x) ELSE x

\* Mutant: the data connection is not waited for.
FinishedOnVerdict(x, e) == e = "error" \/ getStatus(x.p) # 0

\* Both the server's verdict and the end of the data are there, or an error.
Finished(x, e) == e = "error" \/ (getStatus(x.p) # 0 /\ x.dfd = "none")

Outcome(x, e) ==
    IF e = "error" THEN "xerr" ELSE IF Success(getStatus(x.p)) THEN "ok" ELSE "bad"

\* call_ftpCmdDone: nothing is called while a call is running.
CallFtpCmdDone(x, outcome, c) ==
    IF x.calls = 0
    THEN /\ s' = [x EXCEPT !.calls = 1]
         /\ report' = outcome
         /\ cmd' = "none"
    ELSE /\ s' = x
         /\ report' = report
         /\ cmd' = c

\* r is the handler's result, c the command the application awaits.
Notify(r, c) ==
    /\ aborted' = (r.err = "assert")
    /\ dead' = dead
    /\ IF r.err \in {"error", "EALREADY"} /\ Finished(CloseFailed(r.s), r.err)
       THEN CallFtpCmdDone(CloseFailed(r.s), Outcome(r.s, r.err), c)
       ELSE /\ s' = IF r.err = "EALREADY" THEN CloseFailed(r.s) ELSE r.s
            /\ report' = report
            /\ cmd' = c

InCallback == report # "none"

\* The main loop may call the session. It takes a session that was given up
\* out of the loop first (Platoon.tla has the case where it is late).
Free == ~aborted /\ ~InCallback /\ ~dead

------------------------------------------------------------------------------
(* Events of the control socket.                                           *)

\* POLLERR, POLLHUP or the end of the stream.
ControlBreaks ==
    /\ Free
    /\ s.cfd # "none"
    /\ broken
    /\ Notify(Result(s, "error"), cmd)
    /\ UNCHANGED netVars

FlushOutcomes == IF broken THEN {"error"} ELSE {"ok", "block"}

PortOutcomes == {"connecting", "open"} \cup (IF Failures THEN {"nosocket", "refused"} ELSE {})

\* Lines are handled and output flushed.
ControlStep(x, flush, port, c) ==
    /\ Notify(ControlIO(x, flush, port), c)
    /\ toServer' = toServer \o Flushed(x, flush)

ControlConnects(flush) ==
    /\ Free
    /\ s.cfd = "connecting"
    /\ ControlStep([s EXCEPT !.cfd = "open"], flush, "connecting", cmd)
    /\ UNCHANGED <<toClient, owed, broken, xfer>>

\* n lines are read; with none, the socket has become writable.
ControlReady(n, flush, port) ==
    /\ Free
    /\ s.cfd = "open"
    /\ n <= Len(toClient)
    /\ n > 0 \/ s.out # <<>>
    /\ ControlStep([s EXCEPT !.in = @ \o SubSeq(toClient, 1, n)], flush, port, cmd)
    /\ toClient' = SubSeq(toClient, n + 1, Len(toClient))
    /\ UNCHANGED <<owed, broken, xfer>>

------------------------------------------------------------------------------
(* Events of the data socket.                                              *)

\* What a read returns, by what the server has done. Only a read that nothing
\* is there for would block.
Reads ==
    CASE xfer = "closed"  -> {"eof"}
      [] xfer = "reset"   -> {"error"}
      [] xfer = "sending" -> {"data"} \cup (IF Spurious THEN {"block"} ELSE {})
      [] OTHER            -> {"block"}

\* The interest mask notifyPollEvent leaves behind.
WantsData == s.state = "GETTING" \/ (s.state = "SLEEPING" /\ s.events = "none")

DataConnects == {"ok"} \cup (IF Failures THEN {"error"} ELSE {})

DataReady(read) ==
    /\ Free
    /\ s.dfd # "none"
    /\ WantsData
    /\ xfer # "none" \/ Spurious
    /\ read \in Reads
    /\ \E conn \in DataConnects, early \in (IF s.later THEN BOOLEAN ELSE {FALSE}), pause \in BOOLEAN :
          Notify(DataIO(s, "in", conn, early, read, pause), cmd)
    /\ UNCHANGED netVars

\* POLLHUP alone: at the end of the data, or when the session did not ask
\* for more.
DataHangsUp ==
    /\ Free
    /\ s.dfd # "none"
    /\ xfer = "closed" \/ (xfer = "reset" /\ ~WantsData)
    /\ \E conn \in DataConnects : Notify(DataIO(s, "hup", conn, FALSE, "eof", FALSE), cmd)
    /\ UNCHANGED netVars

------------------------------------------------------------------------------
(* skedCallback.                                                           *)

\* A timeout: shutdownAndNotify().
Timeout ==
    /\ Free
    /\ s.timer # "none"
    /\ s.state \in {"IDLE", "GETTING"}
    /\ CallFtpCmdDone(shutdown([s EXCEPT !.timer = "none"]), "xerr", cmd)
    /\ UNCHANGED <<dead, aborted, netVars>>

\* The end of the sleep: an event seen meanwhile is handled now.
WakeUp ==
    /\ Free
    /\ s.timer # "none"
    /\ s.state = "SLEEPING"
    /\ LET x == [s EXCEPT !.timer = "none", !.state = "GETTING", !.later = FALSE,
                          !.events = "none"]
       IN  IF s.events = "none" THEN Notify(Result(x, "ok"), cmd)
           ELSE IF s.dfd = "none" THEN Notify(Result(x, "assert"), cmd)
           ELSE \E read \in Reads, pause \in BOOLEAN :
                   Notify(DataIO(x, s.events, "ok", FALSE, read, pause), cmd)
    /\ UNCHANGED netVars

------------------------------------------------------------------------------
(* The application.                                                        *)

CanCall ==
    /\ ~aborted /\ ~dead
    /\ cmd = "none"
    /\ InCallback => report = "ok" \/ (CarriesOn /\ report = "bad")

\* connect() and login(), which the application calls one after the other.
\* A connection may be established at once; the first write may then fail.
ConnectAndLogin(conn, flush) ==
    /\ ~aborted /\ ~dead /\ cmd = "none" /\ s.cfd = "none"
    /\ InCallback => RestartInCallback /\ conn = "connecting"
    /\ LET x == [NewPipe EXCEPT !.p = login(NewProto).p, !.cfd = conn, !.timer = "timeout"]
       IN  /\ Notify(IF s.timer # "none" THEN Result(s, "assert")
                     ELSE ControlIO(x, flush, "connecting"), "login")
           /\ toServer' = Flushed(x, flush)
    /\ toClient' = <<>>
    /\ owed' = <<"HELLO">>
    /\ broken' = (flush = "error" /\ conn = "open")
    /\ xfer' = "none"

ConnectFails ==
    /\ ~aborted /\ ~dead /\ cmd = "none" /\ s.cfd = "none" /\ ~InCallback
    /\ Failures
    /\ s' = [NewPipe EXCEPT !.timer = s.timer]
    /\ UNCHANGED <<appVars, netVars>>

\* cd(), type(), size(), which differ in the text they send.
SimpleCommand(c, flush) ==
    /\ CanCall
    /\ simpleCommand(s.p, c).err = "ok"
    /\ s.cfd = "open"
    /\ ControlStep([s EXCEPT !.p = simpleCommand(@, c).p], flush, "connecting", c)
    /\ UNCHANGED <<toClient, owed, broken, xfer>>

\* Mutant: without a limit.
StartGetNoTimer(x) ==
    [x EXCEPT !.p = get(@, TRUE, TRUE).p, !.state = "GETTING",
              !.gotData = FALSE, !.later = FALSE]

\* The transfer begins, with five seconds for the first data to come.
StartGet(x) ==
    [x EXCEPT !.p = get(@, TRUE, TRUE).p, !.state = "GETTING",
              !.gotData = FALSE, !.later = FALSE, !.timer = "timeout"]

Get(flush) ==
    /\ CanCall
    /\ get(s.p, TRUE, TRUE).err = "ok"
    /\ s.cfd = "open"
    /\ IF s.timer # "none"
       THEN Notify(Result(s, "assert"), cmd) /\ UNCHANGED toServer
       ELSE ControlStep(StartGet(s), flush, "connecting", "get")
    /\ UNCHANGED <<toClient, owed, broken, xfer>>

\* shutdown(), of a session given up or at any other time.
Shutdown ==
    /\ ~aborted
    /\ InCallback => RestartInCallback
    /\ dead \/ s.cfd # "none"
    /\ s' = shutdown(s)
    /\ cmd' = "none"
    /\ dead' = FALSE
    /\ UNCHANGED <<report, aborted, netVars>>

\* ftpCmdDone returns. It may have given up the session.
CallbackReturn ==
    /\ InCallback /\ ~aborted
    /\ s' = [s EXCEPT !.calls = @ - 1]
    /\ report' = "none"
    /\ dead' = (cmd = "none" /\ (report = "xerr" \/ (report = "bad" /\ ~CarriesOn)))
    /\ UNCHANGED <<cmd, aborted, netVars>>

------------------------------------------------------------------------------
(* The server and the network (external).                                  *)

ServerReads ==
    /\ ~broken /\ s.cfd = "open"
    /\ owed = <<>> /\ toServer # <<>>
    /\ owed' = <<Head(toServer)>>
    /\ toServer' = Tail(toServer)
    /\ xfer' = IF Head(toServer) = "PASV" THEN "none" ELSE xfer
    /\ UNCHANGED <<s, appVars, toClient, broken>>

ServerStartsTransfer ==
    /\ ~broken /\ s.cfd = "open"
    /\ owed = <<"RETR">>
    /\ toClient' = Append(toClient, Line("RETR", 150, " ", TRUE))
    /\ owed' = <<"RETR2">>
    /\ xfer' = "sending"
    /\ UNCHANGED <<s, appVars, toServer, broken>>

\* The final reply: a transfer that was not announced is refused.
ServerReplies ==
    /\ ~broken /\ s.cfd = "open"
    /\ owed # <<>>
    /\ LET c == IF owed[1] = "RETR2" THEN "RETR" ELSE owed[1]
           vs == CASE owed[1] = "RETR" -> {550} [] owed[1] = "RETR2" -> {226, 426}
                   [] OTHER -> Verdicts(c) \ (IF c = "PASV" /\ ~NoAddress THEN {200} ELSE {})
       IN  \E v \in vs :
              \E lines \in {OneLine(c, v)} \cup (IF MultiLine THEN {ThreeLines(c, v)} ELSE {}) :
                 toClient' = toClient \o lines
    /\ owed' = <<>>
    /\ UNCHANGED <<s, appVars, toServer, broken, xfer>>

ServerClosesData ==
    /\ xfer = "sending"
    /\ \E end \in {"closed"} \cup (IF Failures THEN {"reset"} ELSE {}) : xfer' = end
    /\ UNCHANGED <<s, appVars, toServer, toClient, owed, broken>>

ConnectionBreaks ==
    /\ Failures /\ ~broken /\ s.cfd # "none"
    /\ broken' = TRUE
    /\ UNCHANGED <<s, appVars, toServer, toClient, owed, xfer>>

\* A failed assertion ends the program.
Halted == aborted /\ UNCHANGED vars

------------------------------------------------------------------------------
Init ==
    /\ s = NewPipe
    /\ cmd = "none" /\ report = "none" /\ dead = FALSE /\ aborted = FALSE
    /\ toServer = <<>> /\ toClient = <<>> /\ owed = <<>>
    /\ broken = FALSE /\ xfer = "none"

AppStep ==
    \/ ConnectFails \/ Shutdown
    \/ \E flush \in FlushOutcomes : SimpleCommand("TYPE", flush) \/ Get(flush)
    \/ \E conn \in {"connecting", "open"}, flush \in {"ok", "block"} \cup (IF Failures THEN {"error"} ELSE {}) :
          ConnectAndLogin(conn, flush)

ServerStep == ServerReads \/ ServerStartsTransfer \/ ServerReplies \/ ServerClosesData

Next ==
    \/ AppStep
    \/ CallbackReturn
    \/ ControlBreaks
    \/ \E flush \in FlushOutcomes :
          \/ ControlConnects(flush)
          \/ \E n \in 0..Len(toClient), port \in PortOutcomes : ControlReady(n, flush, port)
    \/ \E read \in {"data", "block", "eof", "error"} : DataReady(read)
    \/ DataHangsUp
    \/ Timeout \/ WakeUp
    \/ ServerStep
    \/ ConnectionBreaks
    \/ Halted

Spec == Init /\ [][Next]_vars

\* The poller reports what is ready, the scheduler runs what is due, callbacks
\* return and sessions that were given up are shut down. No data need come
\* before their end, and no event need be spurious.
ClientFairness ==
    /\ WF_vars(CallbackReturn)
    /\ WF_vars(ControlBreaks)
    /\ WF_vars(\E flush \in FlushOutcomes \ {"block"} : ControlConnects(flush))
    /\ WF_vars(\E flush \in FlushOutcomes \ {"block"}, n \in 0..Len(toClient), port \in PortOutcomes :
                  ControlReady(n, flush, port))
    /\ WF_vars(\E read \in {"eof", "error"} : DataReady(read))
    /\ WF_vars(Timeout)
    /\ WF_vars(WakeUp)
    /\ WF_vars(dead /\ Shutdown)

\* The server reads and answers, and ends its transfers.
ServerFairness == WF_vars(ServerReads) /\ WF_vars(ServerReplies) /\ WF_vars(ServerClosesData)

\* The server may fall silent at any point.
FairSpec == Spec /\ ClientFairness

------------------------------------------------------------------------------
\* Type invariant: the session's fields, the application's view and the queues.
TypeOK ==
    /\ s.state \in {"IDLE", "GETTING", "SLEEPING"}
    /\ {s.cfd, s.dfd} \subseteq {"none", "connecting", "open"}
    /\ s.timer \in {"none", "timeout", "wakeup"}
    /\ s.events \in {"none", "in", "hup"}
    /\ {s.later, s.gotData, dead, aborted, broken} \subseteq BOOLEAN
    /\ s.calls \in 0..1
    /\ s.p.state \in States
    /\ Len(s.out) <= 1 /\ Len(s.in) <= 6
    /\ cmd \in {"none", "login", "TYPE", "get"}
    /\ report \in {"none", "ok", "bad", "xerr"}
    /\ xfer \in {"none", "sending", "closed", "reset"}

\* What a get that was answered without an address leaves behind: it was
\* reported, but the session is still GETTING and its timeout scheduled.
Stranded(x) ==
    NoAddress /\ x.state = "GETTING" /\ x.timer = "timeout" /\ x.dfd = "none"

\* The assertions: a scheduled session is not scheduled again, no data event
\* comes to an idle session, no wake-up finds the socket gone. The only one
\* that can fail is the first (Sked.cc:332), in the get after a stranded one.
AssertsHold == aborted => Stranded(s) /\ cmd = "none"

\* assert(!skc->skedIndex) and the other assertions, without exception.
NoAssertFails == ~aborted

\* "datainterface->ftpCmdDone() will be called when done": between two calls of
\* the session, the application awaits no command of a session that was shut
\* down, nor one the server has answered and whose data connection is closed.
CompletionReported ==
    Free /\ cmd # "none" => s.cfd # "none" /\ (getStatus(s.p) = 0 \/ s.dfd # "none")

\* "When any command finishes, this function is called": a server's verdict is
\* reported for a command the application is waiting for, and only once.
ReportedOnce ==
    [][ ~AppStep /\ report = "none" /\ report' \in {"ok", "bad"} => cmd # "none" ]_vars

\* A get that is reported successful received the whole file: the server ended
\* the data connection in order and confirmed the transfer. Or it did not even
\* open a data connection: the success is that of PASV, and no RETR was sent.
OkMeansWholeFile ==
    [][ cmd = "get" /\ report = "none" /\ report' = "ok" =>
           /\ owed = <<>>
           /\ \/ xfer = "closed" /\ s'.p.status = 226
              \/ Stranded(s') /\ xfer = "none" /\ s'.p.status = 200 ]_vars

\* "If xerr is nonzero, the local part of the command failed (perhaps a data
\* connection could not be established)": a get without one is not successful.
OkMeansConnected ==
    [][ cmd = "get" /\ report = "none" /\ report' = "ok" => xfer # "none" ]_vars

\* Between commands a session holds no data socket and no scheduled event, so
\* no old timeout can end a later command; except after a get that ended
\* without an address.
NoLeftovers ==
    ~aborted /\ cmd = "none" /\ ~dead /\ report \in {"none", "ok"} =>
       \/ s.dfd = "none" /\ s.timer = "none" /\ s.state = "IDLE"
       \/ Stranded(s)

\* Every command ends, with the server's verdict, an error or a timeout, if the
\* server does its part.
CommandsFinish == ServerFairness => ((cmd # "none") ~> (cmd = "none"))

\* The server has said nothing at all to a login, or sent neither data nor
\* their end to a get.
Silent ==
    \/ cmd = "login" /\ s.p.state = "INIT"
    \/ cmd = "get" /\ s.state = "GETTING" /\ ~s.gotData

\* A data event without data has taken the timeout of a get away.
Deaf == Spurious /\ s.dfd # "none" /\ s.timer = "none"

\* "Abort if no response in five seconds": no command waits for a silent server
\* for ever; but after a spurious event nothing ends a get any more.
SilenceTimesOut == Silent ~> (~Silent \/ Deaf)

\* The same with a poller that may report data that are not there: silence
\* always ends.
SilenceEnds == Silent ~> ~Silent
==============================================================================
