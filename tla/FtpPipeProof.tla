----------------------------- MODULE FtpPipeProof -----------------------------
(***************************************************************************)
(* What a session promises the application: no assertion fails, a command  *)
(* is reported when it is done and once, a file reported as received was   *)
(* received, and nothing of a command is left when the next begins. All of *)
(* it for an application that gives up a session after a failure and       *)
(* starts no new one inside ftpCmdDone, as the benchmark does; the runs    *)
(* show what happens otherwise.                                            *)
(***************************************************************************)
EXTENDS FtpPipe, FtpInStep, SequenceTheorems, WellFoundedInduction

------------------------------------------------------------------------------
(***************************************************************************)
(* The fields of a session.                                                *)
(***************************************************************************)
PipeStates == {"IDLE", "GETTING", "SLEEPING"}
Sockets == {"none", "connecting", "open"}
Timers == {"none", "timeout", "wakeup"}
Events == {"none", "in", "hup"}
LineSeqs == Seq(Lines)
CommandSeqs == Seq(Commands)
Depths == 0..1

PipeRecords ==
    [p : ProtoRecords, state : PipeStates, cfd : Sockets, dfd : Sockets, in : LineSeqs,
     out : CommandSeqs, timer : Timers, events : Events, later : Flags, gotData : Flags,
     calls : Depths]

\* The conversation of session x, when the server has been sent srv and owes
\* debt, and the lines are still to be read.
Talk(x, srv, lines, debt) ==
    [p |-> x.p, srv |-> srv \o x.out, lines |-> lines, owed |-> debt,
     tried |-> TRUE, passive |-> TRUE]

\* Now.
View == Talk(s, toServer, s.in \o toClient, owed)

\* A server says what FtpServer.tla lets it say.
HonestLine(l) ==
    /\ l.status \in Verdicts(l.cmd) \/ (l.cmd = "RETR" /\ l.status = 150)
    /\ l.addr = (l.status = 227)
    /\ l.cmd = "PASV" /\ l.status = 200 => NoAddress
    /\ l.status = 150 => l.sep = " "

Honest(lines) == \A n \in 1..Len(lines) : lines[n].first => HonestLine(lines[n])

------------------------------------------------------------------------------
(***************************************************************************)
(* Where session x is with the command c, z being its conversation and     *)
(* data the server's end of the data connection.                           *)
(***************************************************************************)
\* Nothing of a transfer is there.
NoTransfer(x) == x.dfd = "none" /\ x.state = "IDLE"

AllQuiet(x) == NoTransfer(x) /\ x.timer = "none"

\* Nothing is, or only what a get without an address leaves.
Rests(x) == AllQuiet(x) \/ Stranded(x)

\* The data connection is open: a read is awaited, or the end of a sleep.
Receiving(x, data) ==
    /\ x.dfd # "none"
    /\ \/ x.state = "GETTING" /\ (x.later => x.timer = "none")
       \/ x.state = "SLEEPING" /\ x.timer # "none" /\ (x.events = "hup" => data = "closed")

\* The data have come, or are still to come.
DataPart(x, data) == Receiving(x, data) \/ (AllQuiet(x) /\ data = "closed")

\* The server has not yet been told to send.
NotAsked(z, data) == OnItsWay(z, "RETR") => data = "none"

AwaitsPort(x, z, data) ==
    /\ x.p.state = "PASV" /\ x.dfd = "none" /\ x.state = "GETTING" /\ ~x.later
    /\ x.timer = "timeout" /\ ~x.p.address_ready
    /\ z.p.obuf = NoOutput /\ z.srv = <<>> => data = "none"

\* The port is known, and the data connection not yet opened.
HasPort(x, z, data) ==
    /\ x.p.state = "RETR" /\ x.dfd = "none" /\ x.state = "GETTING" /\ ~x.later
    /\ x.p.address_ready
    /\ OnItsWay(z, "RETR") /\ data = "none"

AwaitsEnd(x, z, data) ==
    /\ x.p.state = "RETR" /\ ~x.p.address_ready
    /\ NotAsked(z, data)
    /\ DataPart(x, data)

AwaitsData(x, data) ==
    /\ x.p.state = "IDLE" /\ x.p.status = 226 /\ ~x.p.address_ready
    /\ Receiving(x, data)

LoggingIn(x) ==
    /\ x.p.state \in {"USER", "PASS"} \/ (x.p.state = "INIT" /\ x.p.sent_user)
    /\ ~x.p.address_ready /\ NoTransfer(x)

\* A command is under way.
Working(x, c, z, data) ==
    \/ c = "none" /\ x.p.state = "IDLE" /\ ~x.p.address_ready /\ Rests(x)
    \/ c = "login" /\ LoggingIn(x)
    \/ c = "TYPE" /\ x.p.state = "TYPE" /\ ~x.p.address_ready /\ Rests(x)
    \/ c = "get" /\ \/ AwaitsPort(x, z, data) \/ HasPort(x, z, data)
                    \/ AwaitsEnd(x, z, data) \/ AwaitsData(x, data)

\* The conversation is in step.
InTouch(x, z) ==
    /\ Sound(z) /\ InStep(z) /\ Honest(z.lines)
    /\ x.state # "SLEEPING" => x.events = "none"

------------------------------------------------------------------------------
(***************************************************************************)
(* The inductive invariant.                                                *)
(***************************************************************************)
Datas == {"none", "sending", "closed", "reset"}

\* What is between the session and the server.
Wires ==
    /\ toServer \in CommandSeqs /\ toClient \in LineSeqs /\ owed \in Debts
    /\ broken \in BOOLEAN /\ xfer \in Datas

\* The types; no more than two replies of three lines are under way, and no
\* command waits for another to be sent.
Typed ==
    /\ s \in PipeRecords /\ Len(s.in) <= 6 /\ Len(s.out) <= 1
    /\ cmd \in {"none", "login", "TYPE", "get"}
    /\ report \in {"none", "ok", "bad", "xerr"}
    /\ dead \in BOOLEAN
    /\ Wires

\* What the application knows.
Known ==
    /\ aborted = FALSE \/ (aborted = TRUE /\ Stranded(s) /\ cmd = "none")
    /\ s.calls = IF report = "none" THEN 0 ELSE 1
    /\ report \in {"bad", "xerr"} => cmd = "none"
    /\ dead => cmd = "none" /\ report = "none"
    /\ s.cfd = "none" => cmd = "none" /\ report \in {"none", "xerr"} /\ AllQuiet(s)

\* The session has not failed.
Alive == s.cfd # "none" /\ ~dead /\ report \in {"none", "ok"}

\* Nothing is left to be done until the next event.
InOrder(x, c, z, data) ==
    InTouch(x, z) /\ x.p.obuf = NoOutput /\ ~x.p.address_ready /\ Working(x, c, z, data)

Fit == InOrder(s, cmd, View, xfer)

PipeInv == Typed /\ Known /\ (Alive => Fit)

------------------------------------------------------------------------------
(***************************************************************************)
(* What the handlers do to the fields.                                     *)
(***************************************************************************)
\* Fields that only the application's calls and the data events change.
SameRest(x, y) ==
    /\ y.state = x.state /\ y.cfd = x.cfd /\ y.dfd = x.dfd /\ y.events = x.events
    /\ y.later = x.later /\ y.gotData = x.gotData /\ y.calls = x.calls

Outcomes == {"ok", "EALREADY", "error", "assert"}

Results == [s : PipeRecords, err : Outcomes]

\* The engine takes its new fields.
LEMMA SetEngine ==
  ASSUME NEW x \in PipeRecords, NEW q \in ProtoRecords, NEW y, y = [x EXCEPT !.p = q]
  PROVE  /\ y \in PipeRecords /\ SameRest(x, y) /\ y.p = q
         /\ y.in = x.in /\ y.out = x.out /\ y.timer = x.timer
BY DEF PipeRecords, SameRest

\* Lines are put back, or taken.
LEMMA SetIn ==
  ASSUME NEW x \in PipeRecords, NEW lines \in LineSeqs, NEW y, y = [x EXCEPT !.in = lines]
  PROVE  /\ y \in PipeRecords /\ SameRest(x, y) /\ y.p = x.p
         /\ y.in = lines /\ y.out = x.out /\ y.timer = x.timer
BY DEF PipeRecords, SameRest

\* Output is queued, or sent.
LEMMA SetOut ==
  ASSUME NEW x \in PipeRecords, NEW cmds \in CommandSeqs, NEW y, y = [x EXCEPT !.out = cmds]
  PROVE  /\ y \in PipeRecords /\ SameRest(x, y) /\ y.p = x.p
         /\ y.in = x.in /\ y.out = cmds /\ y.timer = x.timer
BY DEF PipeRecords, SameRest

\* LineCame cancels the timeout of an idle session.
LEMMA LineCameFields ==
  ASSUME NEW x \in PipeRecords, NEW y, y = LineCame(x)
  PROVE  /\ y \in PipeRecords /\ SameRest(x, y) /\ y.p = x.p /\ y.in = x.in /\ y.out = x.out
         /\ y.timer = IF x.state = "IDLE" THEN "none" ELSE x.timer
<1>1. "none" \in Timers
    BY DEF Timers
<1>2. CASE x.state = "IDLE"
    <2>1. y = [x EXCEPT !.timer = "none"]
        BY <1>2 DEF LineCame
    <2> QED BY <1>1, <1>2, <2>1 DEF PipeRecords, SameRest
<1>3. CASE x.state # "IDLE"
    <2>1. y = x
        BY <1>3 DEF LineCame
    <2> QED BY <1>3, <2>1 DEF SameRest
<1> QED BY <1>2, <1>3

\* PutOutput moves the engine's output line, if there is one, to the queue.
LEMMA PutOutputFields ==
  ASSUME NEW x \in PipeRecords, NEW y, y = PutOutput(x)
  PROVE  /\ y \in PipeRecords /\ SameRest(x, y) /\ y.in = x.in /\ y.timer = x.timer
         /\ y.p.obuf = NoOutput /\ y.p.state = x.p.state
         /\ y.p.address_ready = x.p.address_ready /\ y.p.status = x.p.status
         /\ \/ y = x
            \/ /\ x.p.obuf # NoOutput /\ y.p = advanceOutput(x.p)
               /\ y.out = Append(x.out, x.p.obuf)
<1>1. CASE x.p.obuf = NoOutput
    <2>1. y = x
        BY <1>1 DEF PutOutput, isOutputReady
    <2> QED BY <1>1, <2>1 DEF SameRest
<1>2. CASE x.p.obuf # NoOutput
    <2> DEFINE q == advanceOutput(x.p)
               o == Append(x.out, x.p.obuf)
               u == [x EXCEPT !.out = o]
    <2>1. y = [x EXCEPT !.out = Append(@, x.p.obuf), !.p = advanceOutput(@)]
        BY <1>2 DEF PutOutput, isOutputReady
    <2>2. y = [u EXCEPT !.p = q]
        BY <2>1 DEF PipeRecords
    <2>3. x.p \in ProtoRecords /\ q = Output(x.p, NoOutput) /\ NoOutput \in Outputs
        BY DEF PipeRecords, advanceOutput, Outputs
    <2>4. /\ q \in ProtoRecords /\ q.obuf = NoOutput /\ q.state = x.p.state
          /\ q.address_ready = x.p.address_ready /\ q.status = x.p.status
        BY <2>3, OutputFields DEF Keeps
    <2>5. x.p.obuf \in Commands
        BY <1>2, <2>3 DEF ProtoRecords, Outputs
    <2>6. o \in CommandSeqs
        BY <2>5 DEF PipeRecords, CommandSeqs
    <2> HIDE DEF q, o, u
    <2>7. u \in PipeRecords /\ SameRest(x, u) /\ u.in = x.in /\ u.out = o /\ u.timer = x.timer
        BY <2>6, SetOut DEF u
    <2>8. /\ y \in PipeRecords /\ SameRest(u, y) /\ y.p = q
          /\ y.in = u.in /\ y.out = u.out /\ y.timer = u.timer
        BY <2>2, <2>4, <2>7, SetEngine
    <2>9. SameRest(x, y)
        BY <2>7, <2>8 DEF SameRest
    <2> QED BY <1>2, <2>4, <2>7, <2>8, <2>9 DEF q, o
<1> QED BY <1>1, <1>2

\* The loop has been left, or the engine takes no line.
Stuck(r) == r.err # "ok" \/ r.s.p.state = "IDLE"

\* Then a line stays where it is.
LEMMA StuckFields ==
  ASSUME NEW r \in Results, Stuck(r), NEW l \in Lines, NEW t, t = ReadLine(r, l)
  PROVE  /\ t \in Results /\ t.err = r.err /\ SameRest(r.s, t.s) /\ t.s.p = r.s.p
         /\ t.s.out = r.s.out /\ t.s.timer = r.s.timer /\ t.s.in = Append(r.s.in, l)
<1> DEFINE a == Append(r.s.in, l)
           y == [r.s EXCEPT !.in = a]
<1>1. t = [r EXCEPT !.s.in = Append(@, l)]
    BY DEF Stuck, ReadLine, isInputReady
<1>2. t = [r EXCEPT !.s = y]
    BY <1>1 DEF Results, PipeRecords
<1>3. r.s \in PipeRecords
    BY DEF Results
<1>4. a \in LineSeqs
    BY <1>3 DEF PipeRecords, LineSeqs
<1> HIDE DEF a
<1>5. /\ y \in PipeRecords /\ SameRest(r.s, y) /\ y.p = r.s.p
      /\ y.in = a /\ y.out = r.s.out /\ y.timer = r.s.timer
    BY <1>3, <1>4, SetIn
<1> HIDE DEF y
<1>6. t \in Results /\ t.err = r.err /\ t.s = y
    BY <1>2, <1>5 DEF Results
<1> QED BY <1>5, <1>6 DEF a

\* t is r after the engine has dealt with line l and returned g.
Taken(r, l, t, g) ==
    \E y \in PipeRecords :
       /\ SameRest(r.s, y) /\ y.p = g.p /\ y.in = r.s.in /\ y.out = r.s.out
       /\ y.timer = IF r.s.state = "IDLE" THEN "none" ELSE r.s.timer
       /\ \/ /\ g.err # "ok" /\ t.err = "error" /\ SameRest(r.s, t.s)
             /\ t.s.in = Append(r.s.in, l) /\ t.s.out = r.s.out
          \/ g.err = "ok" /\ getStatus(g.p) # 0 /\ t.err = "EALREADY" /\ t.s = y
          \/ g.err = "ok" /\ getStatus(g.p) = 0 /\ t.err = "ok" /\ t.s = PutOutput(y)

\* Otherwise the engine is given the line: it fails, or has an answer, or goes on.
LEMMA TakenFields ==
  ASSUME NEW r \in Results, ~Stuck(r), NEW l \in Lines, NEW t, t = ReadLine(r, l),
         NEW g, g = giveInput(r.s.p, l), g.p \in ProtoRecords
  PROVE  t \in Results /\ Taken(r, l, t, g)
<1> DEFINE x == LineCame(r.s)
           y == [x EXCEPT !.p = g.p]
           a == Append(y.in, l)
           f == [y EXCEPT !.in = a]
<1>1. r.s \in PipeRecords
    BY DEF Results
<1>2. /\ x \in PipeRecords /\ SameRest(r.s, x) /\ x.p = r.s.p /\ x.in = r.s.in
      /\ x.out = r.s.out /\ x.timer = IF r.s.state = "IDLE" THEN "none" ELSE r.s.timer
    BY <1>1, LineCameFields
<1>3. t = IF g.err # "ok" THEN Result([y EXCEPT !.in = Append(@, l)], "error")
          ELSE IF getStatus(g.p) # 0 THEN Result(y, "EALREADY")
          ELSE Result(PutOutput(y), "ok")
    BY <1>2 DEF Stuck, ReadLine, isInputReady
<1> HIDE DEF x
<1>4. /\ y \in PipeRecords /\ SameRest(x, y) /\ y.p = g.p
      /\ y.in = x.in /\ y.out = x.out /\ y.timer = x.timer
    BY <1>2, SetEngine
<1>5. [y EXCEPT !.in = Append(@, l)] = f
    BY <1>4 DEF PipeRecords
<1>6. a \in LineSeqs
    BY <1>4 DEF PipeRecords, LineSeqs
<1> HIDE DEF y, a
<1>7. f \in PipeRecords /\ SameRest(y, f) /\ f.in = a /\ f.out = y.out
    BY <1>4, <1>6, SetIn
<1> HIDE DEF f
<1>8. PutOutput(y) \in PipeRecords
    BY <1>4, PutOutputFields
<1>9. SameRest(r.s, y) /\ SameRest(r.s, f)
    BY <1>2, <1>4, <1>7 DEF SameRest
<1>10. CASE g.err # "ok"
    <2>1. t = Result(f, "error")
        BY <1>3, <1>5, <1>10
    <2>2. t \in Results /\ t.err = "error" /\ t.s = f
        BY <1>7, <2>1 DEF Result, Results, Outcomes
    <2> QED BY <1>2, <1>4, <1>7, <1>9, <1>10, <2>2 DEF a, Taken
<1>11. CASE g.err = "ok" /\ getStatus(g.p) # 0
    <2>1. t = Result(y, "EALREADY")
        BY <1>3, <1>11
    <2>2. t \in Results /\ t.err = "EALREADY" /\ t.s = y
        BY <1>4, <2>1 DEF Result, Results, Outcomes
    <2> QED BY <1>2, <1>4, <1>9, <1>11, <2>2 DEF Taken
<1>12. CASE g.err = "ok" /\ getStatus(g.p) = 0
    <2>1. t = Result(PutOutput(y), "ok")
        BY <1>3, <1>12
    <2>2. t \in Results /\ t.err = "ok" /\ t.s = PutOutput(y)
        BY <1>8, <2>1 DEF Result, Results, Outcomes
    <2> QED BY <1>2, <1>4, <1>9, <1>12, <2>2 DEF Taken
<1> QED BY <1>10, <1>11, <1>12

------------------------------------------------------------------------------
(***************************************************************************)
(* Conversations in step.                                                  *)
(***************************************************************************)
\* What may be outstanding.
LEMMA WhatIsOutstanding ==
  ASSUME NEW z, Sound(z), InStep(z)
  PROVE  \/ Quiet(z) \/ Transferring(z) \/ \E c \in Questions : Outstanding(z, c)
         \/ SentAhead(z) /\ ~z.p.multiline
<1>1. z.p.state \in States /\ z.tried \in BOOLEAN /\ z.p.sent_user \in BOOLEAN
    BY DEF Sound, ProtoRecords, Flags
<1>2. CASE z.p.state = "INIT"
    BY <1>1, <1>2 DEF InStep, Agreement, Questions
<1>3. CASE z.p.state \in Commands \ {"RETR"}
    BY <1>3 DEF InStep, Agreement, Questions
<1>4. CASE z.p.state = "RETR"
    BY <1>4 DEF InStep, Agreement, Questions, Commands
<1>5. CASE z.p.state \in {"IDLE", "CONNECTED"}
    BY <1>5 DEF InStep, Agreement
<1> QED BY <1>1, <1>2, <1>3, <1>4, <1>5 DEF InStep, Agreement, States, Commands

\* At most one command line waits to be read by the server.
LEMMA OneCommand ==
  ASSUME NEW z, Sound(z), InStep(z)
  PROVE  Len(z.srv) <= 1
<1>1. z.srv = <<>> \/ \E c : z.srv = <<c>>
    BY WhatIsOutstanding DEF Quiet, Transferring, Outstanding, SentAhead, Nothing, OnItsWay, Under
<1>2. ASSUME NEW c, z.srv = <<c>> PROVE Len(z.srv) <= 1
    BY <1>2
<1> QED BY <1>1, <1>2

\* While RETR is on its way no reply begins among the lines.
LEMMA NoReplyYet ==
  ASSUME NEW z, InStep(z), z.passive, z.p.state = "RETR", OnItsWay(z, "RETR")
  PROVE  NoReply(z.lines)
<1>1. Outstanding(z, "RETR") \/ Transferring(z)
    BY DEF InStep, Agreement
<1>2. ~Nothing(z) /\ ~Under(z, NoOutput, <<>>, <<"RETR2">>)
    <2>1. "RETR" # NoOutput
        BY DEF NoOutput
    <2>2. <<"RETR">> # <<>> /\ <<"RETR">> # <<"RETR2">>
        OBVIOUS
    <2> QED BY <2>1, <2>2 DEF OnItsWay, Nothing, Under
<1> QED BY <1>1, <1>2 DEF Outstanding, Transferring

\* A reply that begins at line k ends two lines further on at the latest.
LEMMA ReplyEnds ==
  ASSUME NEW z, Sound(z), InStep(z), NEW k \in 1..Len(z.lines), z.lines[k].first
  PROVE  \E e \in k..(k + 2) : /\ e \in 1..Len(z.lines) /\ EndsAt(z.lines, e)
                               /\ z.lines[k].sep # "-" => e = k
                               /\ \A i \in (k + 1)..e : ~z.lines[i].first
<1>1. WholeAt(z.lines, k)
    BY DEF InStep, WellFormed, Whole
<1>2. CASE z.lines[k].sep # "-"
    BY <1>1, <1>2 DEF WholeAt
<1>3. CASE z.lines[k].sep = "-"
    <2> DEFINE v == z.lines[k].status
    <2>1. RestAt(z.lines, k + 1, v)
        BY <1>1, <1>3 DEF WholeAt
    <2>2. CASE LastAt(z.lines, k + 1, v)
        <3>1. k + 1 \in 1..Len(z.lines) /\ EndsAt(z.lines, k + 1) /\ ~z.lines[k + 1].first
            BY <2>2 DEF LastAt
        <3>2. k + 1 \in k..(k + 2) /\ \A i \in (k + 1)..(k + 1) : i = k + 1
            OBVIOUS
        <3>3. \A i \in (k + 1)..(k + 1) : ~z.lines[i].first
            BY <3>1, <3>2
        <3> QED BY <1>3, <3>1, <3>2, <3>3
    <2>3. CASE ~z.lines[k + 1].first /\ LastAt(z.lines, (k + 1) + 1, v)
        <3>1. (k + 1) + 1 = k + 2 /\ \A i \in (k + 1)..(k + 2) : i \in {k + 1, k + 2}
            OBVIOUS
        <3>2. /\ k + 2 \in 1..Len(z.lines) /\ EndsAt(z.lines, k + 2)
              /\ ~z.lines[k + 2].first /\ ~z.lines[k + 1].first
            BY <2>3, <3>1 DEF LastAt
        <3>3. k + 2 \in k..(k + 2) /\ \A i \in (k + 1)..(k + 2) : ~z.lines[i].first
            BY <3>1, <3>2
        <3> QED BY <1>3, <3>2, <3>3
    <2> QED BY <2>1, <2>2, <2>3 DEF RestAt
<1> QED BY <1>2, <1>3

\* A first line is the first of all, or the second or third of those there.
LEMMA ReplyBegins ==
  ASSUME NEW z, Sound(z), InStep(z), z.lines # <<>>
  PROVE  \/ ~z.p.multiline /\ z.lines[1].first
         \/ \E e \in 1..2 : e \in 1..Len(z.lines) /\ EndsAt(z.lines, e)
<1>1. CASE ~z.p.multiline
    BY <1>1 DEF InStep, WellFormed, Fresh
<1>2. CASE z.p.multiline
    <2>1. RestAt(z.lines, 1, z.p.status)
        BY <1>2 DEF InStep, WellFormed
    <2>2. LastAt(z.lines, 1, z.p.status) \/ LastAt(z.lines, 2, z.p.status)
        BY <2>1 DEF RestAt
    <2>3. \A e : LastAt(z.lines, e, z.p.status) => e \in 1..Len(z.lines) /\ EndsAt(z.lines, e)
        BY DEF LastAt
    <2> QED BY <2>2, <2>3
<1> QED BY <1>1, <1>2

\* There are never more than six lines under way.
LEMMA SixLines ==
  ASSUME NEW z, Sound(z), InStep(z), Honest(z.lines)
  PROVE  Len(z.lines) <= 6
<1> DEFINE n == Len(z.lines)
<1> SUFFICES ASSUME n > 0 PROVE n <= 6
    BY DEF Sound
<1>0. n \in Nat /\ z.lines # <<>>
    BY DEF Sound
<1>1. \A e \in 1..n : EndsAt(z.lines, e) => e = n \/ (e + 1 \in 1..n /\ z.lines[e + 1].first)
    BY <1>0 DEF EndsAt
<1>2. CASE NoReply(z.lines)
    <2>1. ~z.lines[1].first
        BY <1>0, <1>2 DEF NoReply
    <2>2. PICK e \in 1..2 : e \in 1..n /\ EndsAt(z.lines, e)
        BY <1>0, <2>1, ReplyBegins
    <2> QED BY <1>0, <1>1, <1>2, <2>2 DEF NoReply
<1>3. ASSUME NEW c, NEW k \in 1..n, OneReply(z.lines, k, c) PROVE n <= 6
    <2>1. \A i \in 1..n : z.lines[i].first <=> i = k
        BY <1>3 DEF OneReply
    <2>2. k <= 3
        <3>1. CASE z.lines[1].first
            BY <1>0, <2>1, <3>1
        <3>2. CASE ~z.lines[1].first
            <4>1. PICK e \in 1..2 : e \in 1..n /\ EndsAt(z.lines, e)
                BY <1>0, <3>2, ReplyBegins
            <4> QED BY <1>0, <1>1, <2>1, <4>1
        <3> QED BY <3>1, <3>2
    <2>3. PICK e \in k..(k + 2) : e \in 1..n /\ EndsAt(z.lines, e)
        BY <2>1, ReplyEnds
    <2> QED BY <1>0, <1>1, <2>1, <2>2, <2>3
<1>4. ASSUME NEW c, NEW d, NEW k \in 1..n, NEW m \in 1..n, TwoReplies(z.lines, k, m, c, d),
             (~z.p.multiline) \/ z.lines[k].sep # "-"
      PROVE  n <= 6
    <2>1. k < m /\ \A i \in 1..n : z.lines[i].first <=> i \in {k, m}
        BY <1>4 DEF TwoReplies
    <2>2. PICK e \in k..(k + 2) : /\ e \in 1..n /\ EndsAt(z.lines, e)
                                  /\ z.lines[k].sep # "-" => e = k
                                  /\ \A i \in (k + 1)..e : ~z.lines[i].first
        BY <2>1, ReplyEnds
    <2>3. m = e + 1
        <3>1. m \notin (k + 1)..e
            BY <2>1, <2>2
        <3>2. e # n
            BY <1>0, <2>1, <2>2, <3>1
        <3>3. e + 1 \in 1..n /\ z.lines[e + 1].first
            BY <1>1, <2>2, <3>2
        <3>4. e + 1 # k
            BY <2>2
        <3> QED BY <2>1, <3>3, <3>4
    <2>4. m <= 4
        <3>1. CASE ~z.p.multiline
            <4>1. z.lines[1].first
                BY <1>0, <3>1 DEF InStep, WellFormed, Fresh
            <4>2. k = 1
                BY <1>0, <2>1, <4>1
            <4> QED BY <2>2, <2>3, <4>2
        <3>2. CASE z.lines[k].sep # "-"
            <4>1. k <= 3
                <5>1. CASE z.lines[1].first
                    BY <1>0, <2>1, <5>1
                <5>2. CASE ~z.lines[1].first
                    <6>1. PICK f \in 1..2 : f \in 1..n /\ EndsAt(z.lines, f)
                        BY <1>0, <5>2, ReplyBegins
                    <6> QED BY <1>0, <1>1, <2>1, <6>1
                <5> QED BY <5>1, <5>2
            <4> QED BY <2>2, <2>3, <3>2, <4>1
        <3> QED BY <1>4, <3>1, <3>2
    <2>5. PICK f \in m..(m + 2) : f \in 1..n /\ EndsAt(z.lines, f)
        BY <2>1, ReplyEnds
    <2> QED BY <1>0, <1>1, <2>1, <2>4, <2>5
<1>5. CASE Transferring(z)
    <2>1. \/ NoReply(z.lines) \/ \E k \in 1..n : OneReply(z.lines, k, "RETR")
          \/ \E k, m \in 1..n : TwoReplies(z.lines, k, m, "RETR", "RETR") /\ InProgress(z.lines[k].status)
        BY <1>5 DEF Transferring
    <2>2. ASSUME NEW k \in 1..n, NEW m \in 1..n, TwoReplies(z.lines, k, m, "RETR", "RETR"),
                 InProgress(z.lines[k].status)
          PROVE  z.lines[k].sep # "-"
        <3>1. z.lines[k].first /\ z.lines[k].cmd = "RETR"
            BY <2>2 DEF TwoReplies
        <3>2. HonestLine(z.lines[k])
            BY <3>1 DEF Honest
        <3>3. z.lines[k].status \in {226, 426, 550, 150}
            BY <3>1, <3>2 DEF HonestLine, Verdicts
        <3>4. z.lines[k].status = 150
            BY <2>2, <3>3 DEF InProgress
        <3>5. z.lines[k].sep = " "
            BY <3>2, <3>4 DEF HonestLine
        <3> QED BY <3>5
    <2> QED BY <1>2, <1>3, <1>4, <2>1, <2>2
<1>6. CASE SentAhead(z) /\ ~z.p.multiline
    BY <1>2, <1>3, <1>4, <1>6 DEF SentAhead
<1>7. ASSUME NEW c, Outstanding(z, c) PROVE n <= 6
    BY <1>2, <1>3, <1>7 DEF Outstanding
<1> QED BY <1>2, <1>5, <1>6, <1>7, WhatIsOutstanding DEF Quiet

\* A reply that lacks an address is one the server may give.
Allowed(z, w) ==
    \E v \in Verdicts(Asked(z.owed)) :
       /\ Asked(z.owed) = "PASV" /\ v = 200 => NoAddress
       /\ \/ w.lines = z.lines \o OneLine(Asked(z.owed), v)
          \/ w.lines = z.lines \o ThreeLines(Asked(z.owed), v)

\* The lines left are honest, and so are those a server adds.
LEMMA HonestTail ==
  ASSUME NEW lines, NEW rest, IsTail(lines, rest), Honest(lines)
  PROVE  Honest(rest)
<1> SUFFICES ASSUME NEW n \in 1..Len(rest), rest[n].first PROVE HonestLine(rest[n])
    BY DEF Honest
<1>1. n + 1 \in 1..Len(lines) /\ rest[n] = lines[n + 1]
    BY DEF IsTail
<1> QED BY <1>1 DEF Honest

\* A whole reply is added.
LEMMA HonestLonger ==
  ASSUME NEW lines, NEW more, NEW c, NEW v, IsLonger(lines, more, c, v),
         Honest(lines), HonestLine(more[Len(lines) + 1])
  PROVE  Honest(more)
<1> SUFFICES ASSUME NEW n \in 1..Len(more), more[n].first PROVE HonestLine(more[n])
    BY DEF Honest
<1>1. n <= Len(lines) + 1 /\ Len(lines) \in Nat
    BY DEF IsLonger
<1>2. CASE n \in 1..Len(lines)
    BY <1>2 DEF Honest, IsLonger
<1>3. CASE n = Len(lines) + 1
    BY <1>3
<1> QED BY <1>1, <1>2, <1>3

\* The server's announcement and its replies.
LEMMA HonestServer ==
  ASSUME NEW z, NEW w, Sound(z), Honest(z.lines), (Replies(z, w) /\ Allowed(z, w)) \/ Announces(z, w)
  PROVE  Honest(w.lines)
<1>0. z.lines \in Seq(Lines)
    BY DEF Sound
<1>1. CASE Announces(z, w)
    <2> DEFINE a == Line("RETR", 150, " ", TRUE)
    <2>1. w.lines = Append(z.lines, a) /\ OneLine("RETR", 150) = <<a>>
        BY <1>1 DEF Announces, OneLine
    <2>2. HonestLine(a) /\ a \in Lines
        BY DEF HonestLine, Line, Lines, Commands, Separators
    <2> HIDE DEF a
    <2>3. w.lines = z.lines \o OneLine("RETR", 150)
        BY <1>0, <2>1, <2>2, AppendIsConcat
    <2>4. w.lines[Len(z.lines) + 1] = a
        BY <1>0, <2>1
    <2>5. IsLonger(z.lines, w.lines, "RETR", 150)
        BY <1>0, <2>3, OneLonger
    <2> QED BY <2>2, <2>4, <2>5, HonestLonger
<1>2. CASE Allowed(z, w)
    <2> DEFINE c == Asked(z.owed)
    <2>1. PICK v \in Verdicts(c) :
             /\ c = "PASV" /\ v = 200 => NoAddress
             /\ w.lines = z.lines \o OneLine(c, v) \/ w.lines = z.lines \o ThreeLines(c, v)
        BY <1>2 DEF Allowed
    <2>2. v # 150
        BY DEF Verdicts
    <2> HIDE DEF c
    <2>3. CASE w.lines = z.lines \o OneLine(c, v)
        <3> DEFINE a == Line(c, v, " ", TRUE)
        <3>1. OneLine(c, v) = <<a>>
            BY DEF OneLine
        <3>2. HonestLine(a)
            BY <2>1, <2>2 DEF HonestLine, Line
        <3> HIDE DEF a
        <3>3. w.lines[Len(z.lines) + 1] = a
            BY <1>0, <2>3, <3>1
        <3>4. IsLonger(z.lines, w.lines, c, v)
            BY <1>0, <2>3, OneLonger
        <3> QED BY <3>2, <3>3, <3>4, HonestLonger
    <2>4. CASE w.lines = z.lines \o ThreeLines(c, v)
        <3> DEFINE a == Line(c, v, "-", TRUE)
                   b == Line(c, 0, "x", FALSE)
                   d == Line(c, v, " ", FALSE)
        <3>1. ThreeLines(c, v) = <<a, b, d>>
            BY DEF ThreeLines
        <3>2. HonestLine(a)
            BY <2>1, <2>2 DEF HonestLine, Line
        <3> HIDE DEF a, b, d
        <3>3. w.lines[Len(z.lines) + 1] = a
            BY <1>0, <2>4, <3>1
        <3>4. IsLonger(z.lines, w.lines, c, v)
            BY <1>0, <2>4, ThreeLonger
        <3> QED BY <3>2, <3>3, <3>4, HonestLonger
    <2> QED BY <2>1, <2>3, <2>4
<1> QED BY <1>1, <1>2

------------------------------------------------------------------------------
(***************************************************************************)
(* The engine is given a line.                                             *)
(***************************************************************************)
\* The server has answered the command c of session x.
Answered(x, c, data) ==
    /\ c \in {"login", "TYPE", "get"}
    /\ x.p.state \in {"IDLE", "INIT"} /\ x.p.status # 0
    /\ x.p.obuf = NoOutput /\ ~x.p.address_ready
    /\ Success(x.p.status) => x.p.state = "IDLE"
    /\ c \in {"login", "TYPE"} => Rests(x)
    /\ c = "get" => /\ x.p.state = "IDLE"
                    /\ Success(x.p.status) => \/ x.p.status = 226 /\ DataPart(x, data)
                                              \/ x.p.status = 200 /\ Stranded(x) /\ data = "none"

\* y is x after lines were handled: a timeout may have been cancelled.
Handles(x, y) ==
    SameRest(x, y) /\ y.timer = IF x.state = "IDLE" THEN "none" ELSE x.timer

\* That leaves a transfer as it is.
LEMMA HandlesKeeps ==
  ASSUME NEW x, NEW y, Handles(x, y), NEW data
  PROVE  /\ NoTransfer(x) => AllQuiet(y)
         /\ AllQuiet(x) => AllQuiet(y)
         /\ Stranded(x) => Stranded(y)
         /\ Rests(x) => Rests(y)
         /\ Receiving(x, data) => Receiving(y, data)
         /\ DataPart(x, data) => DataPart(y, data)
<1>1. /\ NoTransfer(x) => AllQuiet(y)
      /\ AllQuiet(x) => AllQuiet(y)
      /\ Stranded(x) => Stranded(y)
    BY DEF Handles, SameRest, NoTransfer, AllQuiet, Stranded
<1>2. Receiving(x, data) => Receiving(y, data)
    BY DEF Handles, SameRest, Receiving
<1> QED BY <1>1, <1>2 DEF DataPart, Rests

\* What the record of a conversation holds.
LEMMA TalkFields ==
  ASSUME NEW x, NEW srv, NEW lines, NEW debt, NEW z, z = Talk(x, srv, lines, debt)
  PROVE  /\ z.p = x.p /\ z.srv = srv \o x.out /\ z.lines = lines /\ z.owed = debt
         /\ z.tried = TRUE /\ z.passive = TRUE
BY DEF Talk

\* x is given the first of lines, which its engine does not take amiss.
Given(x, y, srv, lines, debt) ==
    /\ lines # <<>> /\ x.p.state # "IDLE"
    /\ giveInput(x.p, Head(lines)).err = "ok" /\ y.p = giveInput(x.p, Head(lines)).p
    /\ y.out = x.out /\ Handles(x, y)

\* The conversation goes on, and stays in step.
LEMMA GivenInTouch ==
  ASSUME NEW x, NEW y, NEW srv, NEW lines, NEW debt, Given(x, y, srv, lines, debt),
         NEW z, z = Talk(x, srv, lines, debt), InTouch(x, z),
         NEW w, w = Talk(y, srv, Tail(lines), debt)
  PROVE  InTouch(y, w) /\ TakesLine(z, w)
<1>1. /\ z.p = x.p /\ z.srv = srv \o x.out /\ z.lines = lines /\ z.owed = debt
      /\ w.p = y.p /\ w.srv = srv \o y.out /\ w.lines = Tail(lines) /\ w.owed = debt
      /\ SameEnds(z, w)
    BY DEF Talk, SameEnds
<1>2. TakesLine(z, w)
    BY <1>1 DEF Given, TakesLine
<1>3. Sound(z) /\ InStep(z) /\ Honest(z.lines) /\ giveInput(z.p, Head(z.lines)).err = "ok"
    BY <1>1 DEF InTouch, Given
<1>4. Sound(w) /\ InStep(w)
    BY <1>2, <1>3, TakeSound, TakeInStep
<1>5. IsTail(z.lines, w.lines)
    BY <1>2, <1>3, ReadFacts
<1>6. Honest(w.lines)
    BY <1>3, <1>5, HonestTail
<1>7. y.state # "SLEEPING" => y.events = "none"
    BY DEF InTouch, Given, Handles, SameRest
<1> QED BY <1>2, <1>4, <1>6, <1>7 DEF InTouch

\* A further line of a reply: nothing else has changed.
LEMMA FurtherWorking ==
  ASSUME NEW x, NEW y, NEW srv, NEW lines, NEW debt, Given(x, y, srv, lines, debt),
         NEW z, z = Talk(x, srv, lines, debt), InTouch(x, z),
         NEW w, w = Talk(y, srv, Tail(lines), debt),
         NEW c, NEW data, Working(x, c, z, data), x.p.multiline
  PROVE  /\ getStatus(y.p) = 0 /\ Working(y, c, w, data)
         /\ y.p.state = x.p.state /\ y.p.address_ready = x.p.address_ready
<1>1. /\ z.p = x.p /\ z.srv = srv \o x.out /\ z.lines = lines /\ z.owed = debt
      /\ w.p = y.p /\ w.srv = srv \o y.out /\ w.owed = debt /\ w.tried = TRUE
    BY DEF Talk
<1>2. InTouch(y, w) /\ TakesLine(z, w)
    BY GivenInTouch
<1>3. /\ z.lines # <<>> /\ z.lines[1] \in Lines /\ w.p = giveInput(z.p, z.lines[1]).p
      /\ w.srv = z.srv /\ w.owed = z.owed
      /\ z.p \in ProtoRecords /\ z.p.stack = StackFor(z.p.state) /\ z.p.state # "IDLE"
    BY <1>2, ReadFacts DEF InTouch
<1>4. PICK q, l, g, r : /\ q = z.p /\ l = z.lines[1] /\ g = giveInput(q, l) /\ r = g.p
                        /\ q = x.p /\ r = w.p /\ r = y.p
    BY <1>1, <1>3
<1>5. GoesOn(q, l, r)
    BY <1>3, <1>4, InputFields
<1>6. /\ y.p.state = x.p.state /\ y.p.sent_user = x.p.sent_user /\ y.p.obuf = x.p.obuf
      /\ y.p.status = x.p.status /\ y.p.address_ready = x.p.address_ready
    BY <1>4, <1>5 DEF GoesOn
<1>7. \A d : OnItsWay(w, d) <=> OnItsWay(z, d)
    BY <1>1, <1>3, <1>6 DEF OnItsWay, Under
<1>8. Handles(x, y) /\ SameRest(x, y)
    BY DEF Given, Handles
<1>9. Working(y, c, w, data)
    <2>1. CASE c = "none" /\ x.p.state = "IDLE"
        BY <2>1, <1>1, <1>3
    <2>2. CASE c = "login" /\ LoggingIn(x)
        <3>1. LoggingIn(y)
            BY <1>6, <1>8, <2>2, HandlesKeeps DEF LoggingIn, AllQuiet
        <3> QED BY <2>2, <3>1 DEF Working
    <2>3. CASE c = "TYPE" /\ x.p.state = "TYPE" /\ ~x.p.address_ready /\ Rests(x)
        BY <1>6, <1>8, <2>3, HandlesKeeps DEF Working
    <2>4. CASE c = "get" /\ AwaitsPort(x, z, data)
        <3>1. AwaitsPort(y, w, data)
            BY <1>1, <1>3, <1>6, <1>8, <2>4 DEF AwaitsPort, SameRest, Handles
        <3> QED BY <2>4, <3>1 DEF Working
    <2>5. CASE c = "get" /\ HasPort(x, z, data)
        <3>1. HasPort(y, w, data)
            BY <1>6, <1>7, <1>8, <2>5 DEF HasPort, SameRest
        <3> QED BY <2>5, <3>1 DEF Working
    <2>6. CASE c = "get" /\ AwaitsEnd(x, z, data)
        <3>1. DataPart(y, data)
            BY <1>8, <2>6, HandlesKeeps DEF AwaitsEnd
        <3>2. AwaitsEnd(y, w, data)
            BY <1>6, <1>7, <2>6, <3>1 DEF AwaitsEnd, NotAsked
        <3> QED BY <2>6, <3>2 DEF Working
    <2>7. CASE x.p.state = "IDLE"
        BY <2>7, <1>1, <1>3
    <2> QED BY <2>1, <2>2, <2>3, <2>4, <2>5, <2>6, <2>7 DEF Working, AwaitsData
<1>10. getStatus(y.p) = 0
    <2>1. x.p.state # "IDLE"
        BY <1>1, <1>3
    <2>2. CASE x.p.state = "INIT"
        <3>1. x.p.sent_user
            BY <2>2 DEF Working, LoggingIn, AwaitsPort, HasPort, AwaitsEnd, AwaitsData
        <3>2. w.p.state = "INIT" /\ w.p.sent_user
            BY <1>1, <1>6, <2>2, <3>1
        <3>3. w.p.status = 0
            BY <1>2, <3>2 DEF InTouch, InStep, Agreement
        <3> QED BY <1>1, <3>3 DEF getStatus
    <2>3. CASE x.p.state # "INIT"
        BY <1>6, <2>1, <2>3 DEF getStatus
    <2> QED BY <2>2, <2>3
<1> QED BY <1>6, <1>9, <1>10

\* What the first line of an answer does to the engine q, which then is r.
AnswerTo(q, r) ==
    /\ ~r.sent_user
    /\ r.status # 0
    /\ q.state = "INIT" => r.state = "USER" /\ ~r.address_ready
    /\ q.state \in {"USER", "PASS"} =>
          /\ ~r.address_ready
          /\ r.state \in {"IDLE", "INIT", "PASS"}
          /\ Success(r.status) => r.state = "IDLE"
    /\ q.state = "TYPE" => r.state = "IDLE" /\ ~r.address_ready
    /\ q.state = "PASV" =>
          IF r.address_ready THEN r.state = "RETR" /\ r.obuf = "RETR"
          ELSE r.state = "IDLE" /\ (Success(r.status) => r.status = 200 /\ NoAddress)
    /\ q.state = "RETR" =>
          /\ ~r.address_ready
          /\ IF InProgress(r.status) THEN r.state = "RETR" /\ r.obuf = q.obuf
             ELSE r.state = "IDLE" /\ (Success(r.status) => r.status = 226)

\* What it does, when the server is honest.
LEMMA AnswerFields ==
  ASSUME NEW q \in ProtoRecords, NEW l \in Lines, q.stack = StackFor(q.state), ~q.multiline,
         q.sent_user => q.state = "INIT", q.state = "INIT" => q.sent_user,
         q.state \in {"INIT", "USER", "PASS", "TYPE", "PASV", "RETR"},
         ~q.address_ready, HonestLine(l), l.cmd = Question(q.state),
         NEW g, g = giveInput(q, l), NEW r, r = g.p, g.err = "ok"
  PROVE  AnswerTo(q, r)
<1>1. Begins(q, l, r, g.err) /\ r \in ProtoRecords
    BY InputFields
<1>2. /\ r.status = l.status /\ Reaction(q, l, r)
      /\ q.state = "INIT" => Success(l.status)
    BY <1>1 DEF Begins
<1>3. q.sent_user \in BOOLEAN /\ r.sent_user \in BOOLEAN /\ r.address_ready \in BOOLEAN
    BY <1>1 DEF ProtoRecords, Flags
<1>4. l.status \in Verdicts(l.cmd) \/ (l.cmd = "RETR" /\ l.status = 150)
    BY DEF HonestLine
<1>5. /\ l.addr = (l.status = 227)
      /\ l.cmd = "PASV" /\ l.status = 200 => NoAddress
    BY DEF HonestLine
<1>6. CASE q.state = "INIT"
    <2>1. r.state = "USER" /\ r.sent_user = FALSE /\ r.address_ready = q.address_ready
        BY <1>2, <1>6 DEF Reaction
    <2>2. r.status # 0
        BY <1>2, <1>6 DEF Success
    <2> QED BY <1>6, <2>1, <2>2 DEF AnswerTo
<1>7. CASE q.state \in {"USER", "PASS"}
    <2>1. l.status \in {230, 331, 530}
        BY <1>4, <1>7 DEF Question, Verdicts
    <2>2. /\ r.address_ready = q.address_ready /\ r.sent_user = q.sent_user
          /\ r.state \in {"IDLE", "INIT", "PASS"}
          /\ Success(l.status) => r.state = "IDLE"
        BY <1>2, <1>7 DEF Reaction
    <2> QED BY <1>2, <1>7, <2>1, <2>2 DEF AnswerTo
<1>8. CASE q.state = "TYPE"
    <2>1. l.status \in {200, 550}
        BY <1>4, <1>8 DEF Question, Verdicts
    <2>2. /\ r.address_ready = q.address_ready /\ r.sent_user = q.sent_user
          /\ r.state = "IDLE"
        BY <1>2, <1>8 DEF Reaction
    <2> QED BY <1>2, <1>8, <2>1, <2>2 DEF AnswerTo
<1>9. CASE q.state = "PASV"
    <2>1. l.status \in {227, 200, 502} /\ l.cmd = "PASV"
        BY <1>4, <1>9 DEF Question, Verdicts
    <2>2. Success(227) /\ ~Success(502)
        BY DEF Success
    <2>3. r.sent_user = q.sent_user
        BY <1>2, <1>9 DEF Reaction
    <2>4. CASE l.status = 227
        <3>0. Success(l.status) /\ l.addr
            BY <1>5, <2>2, <2>4
        <3>1. r.state = "RETR" /\ r.obuf = "RETR" /\ r.address_ready = TRUE
            BY <1>2, <1>9, <3>0 DEF Reaction
        <3> QED BY <1>2, <1>9, <2>3, <2>4, <3>1 DEF AnswerTo
    <2>5. CASE l.status \in {200, 502}
        <3>0. l.status # 227
            BY <2>5
        <3>1. ~l.addr
            BY <1>5, <3>0, Zenon
        <3>2. r.state = "IDLE" /\ r.address_ready = q.address_ready
            BY <1>2, <1>9, <3>1 DEF Reaction
        <3>3. Success(r.status) => r.status = 200 /\ NoAddress
            BY <1>2, <1>5, <2>1, <2>2, <2>5
        <3>4. r.status # 0
            BY <1>2, <2>5
        <3> QED BY <1>9, <2>3, <3>2, <3>3, <3>4 DEF AnswerTo
    <2> QED BY <2>1, <2>4, <2>5
<1>10. CASE q.state = "RETR"
    <2>1. l.status \in {226, 426, 550, 150}
        BY <1>4, <1>10 DEF Question, Verdicts
    <2>2. /\ r.address_ready = q.address_ready /\ r.sent_user = q.sent_user
          /\ r.state = IF InProgress(l.status) THEN "RETR" ELSE "IDLE"
          /\ r.obuf = q.obuf
        BY <1>2, <1>10 DEF Reaction
    <2>3. Success(l.status) => l.status = 226
        BY <2>1 DEF Success
    <2>4. r.status # 0
        BY <1>2, <2>1
    <2> QED BY <1>2, <1>10, <2>2, <2>3, <2>4 DEF AnswerTo
<1> QED BY <1>6, <1>7, <1>8, <1>9, <1>10

\* The first line of an answer: the command has it, or the next step begins.
LEMMA FirstWorking ==
  ASSUME NEW x, NEW y, NEW srv, NEW lines, NEW debt, Given(x, y, srv, lines, debt),
         NEW z, z = Talk(x, srv, lines, debt), InTouch(x, z),
         NEW w, w = Talk(y, srv, Tail(lines), debt),
         NEW c, NEW data, Working(x, c, z, data), ~x.p.multiline
  PROVE  /\ IF getStatus(y.p) = 0 THEN Working(y, c, w, data) ELSE Answered(y, c, data)
         /\ ~NoReply(z.lines)
<1>1. /\ z.p = x.p /\ z.srv = srv \o x.out /\ z.lines = lines /\ z.owed = debt
      /\ w.p = y.p /\ w.srv = srv \o y.out /\ w.owed = debt /\ w.tried = TRUE
      /\ z.tried = TRUE /\ z.passive = TRUE
    BY DEF Talk
<1>2. InTouch(y, w) /\ TakesLine(z, w) /\ Sound(z) /\ InStep(z) /\ InStep(w)
    BY GivenInTouch DEF InTouch
<1>3. /\ z.lines # <<>> /\ z.lines[1] \in Lines /\ w.p = giveInput(z.p, z.lines[1]).p
      /\ w.srv = z.srv /\ w.owed = z.owed
      /\ z.p \in ProtoRecords /\ z.p.stack = StackFor(z.p.state) /\ z.p.state # "IDLE"
    BY <1>2, ReadFacts
<1>4. z.lines[1].first /\ z.lines[1].cmd = Question(z.p.state)
    BY <1>1, <1>2, <1>3, NextAnswers
<1>5. 1 \in 1..Len(z.lines)
    BY <1>2, <1>3 DEF Sound
<1>6. ~NoReply(z.lines) /\ HonestLine(z.lines[1])
    BY <1>4, <1>5 DEF NoReply, InTouch, Honest
<1>7. z.p.sent_user => z.p.state = "INIT"
    BY <1>2 DEF InStep, Agreement
<1>8. ~(c = "get" /\ HasPort(x, z, data))
    BY <1>1, <1>2, <1>6, NoReplyYet DEF HasPort
<1>9. /\ ~z.p.address_ready /\ z.p.state \in {"INIT", "USER", "PASS", "TYPE", "PASV", "RETR"}
      /\ z.p.state = "INIT" => z.p.sent_user
    BY <1>1, <1>3, <1>8 DEF Working, LoggingIn, AwaitsPort, AwaitsEnd, AwaitsData
<1>10. AnswerTo(x.p, y.p)
    <2>1. giveInput(z.p, z.lines[1]).err = "ok"
        <3>1. Head(z.lines) = z.lines[1]
            BY <1>2, <1>3, TailLines DEF Sound
        <3> QED BY <1>1, <3>1 DEF Given
    <2>2. PICK q, l, g, r : /\ q = z.p /\ l = z.lines[1] /\ g = giveInput(q, l) /\ r = g.p
                            /\ q = x.p /\ r = y.p /\ g.err = "ok"
        BY <1>1, <1>3, <2>1
    <2>3. /\ q \in ProtoRecords /\ l \in Lines /\ q.stack = StackFor(q.state) /\ ~q.multiline
          /\ q.sent_user => q.state = "INIT"
          /\ q.state = "INIT" => q.sent_user
          /\ q.state \in {"INIT", "USER", "PASS", "TYPE", "PASV", "RETR"}
          /\ ~q.address_ready /\ HonestLine(l) /\ l.cmd = Question(q.state)
        BY <1>1, <1>3, <1>4, <1>6, <1>7, <1>9, <2>2
    <2>4. AnswerTo(q, r)
        BY <2>2, <2>3, AnswerFields
    <2> QED BY <2>2, <2>4
<1>11. Handles(x, y) /\ SameRest(x, y)
    BY DEF Given, Handles
<1>12. ASSUME y.p.state \in {"IDLE", "INIT"} PROVE y.p.obuf = NoOutput /\ getStatus(y.p) # 0
    <2>1. Quiet(w)
        BY <1>1, <1>2, <1>10, <1>12 DEF InStep, Agreement, AnswerTo
    <2>2. y.p.obuf = NoOutput
        BY <1>1, <2>1 DEF Quiet, Nothing, Under
    <2> QED BY <1>10, <1>12, <2>2 DEF getStatus, AnswerTo
<1>13. y.p.state \notin {"IDLE", "INIT"} => getStatus(y.p) = 0
    BY DEF getStatus
<1> SUFFICES IF y.p.state \in {"IDLE", "INIT"} THEN Answered(y, c, data) ELSE Working(y, c, w, data)
    BY <1>6, <1>12, <1>13
<1>14. CASE c = "login" /\ LoggingIn(x)
    <2>1. AllQuiet(y)
        BY <1>11, <1>14, HandlesKeeps DEF LoggingIn
    <2>0. Rests(y)
        BY <2>1 DEF Rests
    <2>2. x.p.state \in {"INIT", "USER", "PASS"}
        BY <1>14 DEF LoggingIn
    <2>3. CASE y.p.state \in {"IDLE", "INIT"}
        BY <1>10, <1>12, <1>14, <2>0, <2>2, <2>3 DEF Answered, AnswerTo
    <2>4. CASE y.p.state \notin {"IDLE", "INIT"}
        <3>1. LoggingIn(y)
            BY <1>10, <2>1, <2>2, <2>4 DEF LoggingIn, AnswerTo, AllQuiet
        <3> QED BY <1>14, <2>4, <3>1 DEF Working
    <2> QED BY <2>3, <2>4
<1>15. CASE c = "TYPE" /\ x.p.state = "TYPE" /\ ~x.p.address_ready /\ Rests(x)
    <2>1. Rests(y)
        BY <1>11, <1>15, HandlesKeeps
    <2>2. y.p.state = "IDLE" /\ ~y.p.address_ready /\ y.p.status # 0
        BY <1>10, <1>15 DEF AnswerTo
    <2> QED BY <1>12, <1>15, <2>1, <2>2 DEF Answered
<1>16. CASE c = "get" /\ AwaitsPort(x, z, data)
    <2>1. x.p.state = "PASV"
        BY <1>16 DEF AwaitsPort
    <2>2. Outstanding(z, "PASV")
        BY <1>1, <1>2, <2>1 DEF InStep, Agreement, Commands
    <2>3. z.srv = <<>> /\ z.owed = <<>> /\ z.p.obuf = NoOutput
        BY <1>6, <2>2 DEF Outstanding, Nothing, Under
    <2>4. CASE y.p.address_ready
        <3>1. y.p.state = "RETR" /\ y.p.obuf = "RETR"
            BY <1>10, <2>1, <2>4 DEF AnswerTo
        <3>2. OnItsWay(w, "RETR")
            BY <1>1, <1>3, <2>3, <3>1 DEF OnItsWay, Under
        <3>3. HasPort(y, w, data)
            BY <1>11, <1>16, <2>3, <2>4, <3>1, <3>2 DEF HasPort, AwaitsPort, SameRest
        <3> QED BY <1>16, <3>1, <3>3 DEF Working
    <2>5. CASE ~y.p.address_ready
        <3>1. /\ y.p.state = "IDLE" /\ y.p.status # 0
              /\ Success(y.p.status) => y.p.status = 200 /\ NoAddress
            BY <1>10, <2>1, <2>5 DEF AnswerTo
        <3>2. Success(y.p.status) => Stranded(y) /\ data = "none"
            BY <1>11, <1>16, <2>3, <3>1 DEF AwaitsPort, Stranded, Handles, SameRest
        <3> QED BY <1>12, <1>16, <2>5, <3>1, <3>2 DEF Answered
    <2> QED BY <2>4, <2>5
<1>17. CASE c = "get" /\ AwaitsEnd(x, z, data)
    <2>1. x.p.state = "RETR" /\ DataPart(x, data)
        BY <1>17 DEF AwaitsEnd
    <2>2. DataPart(y, data)
        BY <1>11, <2>1, HandlesKeeps
    <2>3. ~OnItsWay(z, "RETR")
        BY <1>1, <1>2, <1>6, <2>1, NoReplyYet
    <2>4. CASE InProgress(y.p.status)
        <3>1. y.p.state = "RETR" /\ y.p.obuf = x.p.obuf /\ ~y.p.address_ready
            BY <1>10, <2>1, <2>4 DEF AnswerTo
        <3>2. ~OnItsWay(w, "RETR")
            BY <1>1, <1>3, <2>3, <3>1 DEF OnItsWay, Under
        <3>3. AwaitsEnd(y, w, data)
            BY <2>2, <3>1, <3>2 DEF AwaitsEnd, NotAsked
        <3> QED BY <1>17, <3>1, <3>3 DEF Working
    <2>5. CASE ~InProgress(y.p.status)
        <3>1. /\ y.p.state = "IDLE" /\ ~y.p.address_ready /\ y.p.status # 0
              /\ Success(y.p.status) => y.p.status = 226
            BY <1>10, <2>1, <2>5 DEF AnswerTo
        <3> QED BY <1>12, <1>17, <2>2, <3>1 DEF Answered
    <2> QED BY <2>4, <2>5
<1>18. x.p.state # "IDLE"
    BY <1>1, <1>3
<1> QED BY <1>8, <1>14, <1>15, <1>16, <1>17, <1>18 DEF Working, AwaitsData

------------------------------------------------------------------------------
(***************************************************************************)
(* The loop over the lines that were read.                                 *)
(***************************************************************************)
\* y differs from x only in the lines it keeps.
LEMMA SameWork ==
  ASSUME NEW x, NEW y, SameRest(x, y), y.p = x.p, y.timer = x.timer, NEW z, NEW c, NEW data
  PROVE  /\ Working(x, c, z, data) => Working(y, c, z, data)
         /\ Answered(x, c, data) => Answered(y, c, data)
         /\ InTouch(x, z) => InTouch(y, z)
<1>1. /\ Receiving(x, data) => Receiving(y, data)
      /\ NoTransfer(x) => NoTransfer(y)
      /\ Rests(x) => Rests(y)
      /\ Stranded(x) => Stranded(y)
      /\ AllQuiet(x) => AllQuiet(y)
    BY DEF SameRest, Receiving, NoTransfer, AllQuiet, Rests, Stranded
<1>2. DataPart(x, data) => DataPart(y, data)
    BY <1>1 DEF DataPart
<1>3. /\ AwaitsPort(x, z, data) => AwaitsPort(y, z, data)
      /\ HasPort(x, z, data) => HasPort(y, z, data)
    BY DEF SameRest, AwaitsPort, HasPort
<1>4. /\ AwaitsEnd(x, z, data) => AwaitsEnd(y, z, data)
      /\ AwaitsData(x, data) => AwaitsData(y, data)
      /\ LoggingIn(x) => LoggingIn(y)
    BY <1>1, <1>2 DEF AwaitsEnd, AwaitsData, LoggingIn
<1>5. Working(x, c, z, data) => Working(y, c, z, data)
    BY <1>1, <1>3, <1>4 DEF Working
<1>6. Answered(x, c, data) => Answered(y, c, data)
    BY <1>1, <1>2 DEF Answered
<1>7. InTouch(x, z) => InTouch(y, z)
    BY DEF InTouch, SameRest
<1> QED BY <1>5, <1>6, <1>7

\* PutOutput sends what the engine has to say.
LEMMA PutTalk ==
  ASSUME NEW x \in PipeRecords, NEW y, y = PutOutput(x), NEW srv \in CommandSeqs, NEW lines, NEW debt,
         NEW z, z = Talk(x, srv, lines, debt), InTouch(x, z),
         NEW w, w = Talk(y, srv, lines, debt), NEW c, NEW data, Working(x, c, z, data)
  PROVE  InTouch(y, w) /\ Working(y, c, w, data)
<1>1. /\ y \in PipeRecords /\ SameRest(x, y) /\ y.in = x.in /\ y.timer = x.timer
      /\ y.p.obuf = NoOutput /\ y.p.state = x.p.state
      /\ y.p.address_ready = x.p.address_ready /\ y.p.status = x.p.status
      /\ \/ y = x
         \/ /\ x.p.obuf # NoOutput /\ y.p = advanceOutput(x.p)
            /\ y.out = Append(x.out, x.p.obuf)
    BY PutOutputFields
<1>2. CASE y = x
    BY <1>2
<1>3. CASE x.p.obuf # NoOutput /\ y.p = advanceOutput(x.p) /\ y.out = Append(x.out, x.p.obuf)
    <2>1. /\ z.p = x.p /\ z.srv = srv \o x.out /\ z.lines = lines /\ z.owed = debt
          /\ w.p = y.p /\ w.srv = srv \o y.out /\ w.lines = lines /\ w.owed = debt
          /\ SameEnds(z, w)
        BY DEF Talk, SameEnds
    <2>2. x.p.obuf \in Commands /\ x.out \in Seq(Commands) /\ srv \in Seq(Commands) /\ x.p \in ProtoRecords
        BY <1>3 DEF PipeRecords, ProtoRecords, Outputs, CommandSeqs
    <2>3. w.srv = Append(z.srv, z.p.obuf)
        <3>1. \A o \in Commands : srv \o Append(x.out, o) = Append(srv \o x.out, o)
            BY <2>2
        <3> QED BY <1>3, <2>1, <2>2, <3>1
    <2>4. SendsLine(z, w)
        BY <1>3, <2>1, <2>3 DEF SendsLine
    <2>5. Sound(w) /\ InStep(w)
        BY <2>4, SendSound, SendInStep DEF InTouch
    <2>6. InTouch(y, w)
        BY <1>1, <2>1, <2>5 DEF InTouch, SameRest
    <2>7. z.srv \in Seq(Commands) /\ w.owed = z.owed /\ z.p.obuf # NoOutput /\ w.p.obuf = NoOutput
        BY <1>1, <1>3, <2>1 DEF InTouch, Sound
    <2>8. Len(w.srv) = Len(z.srv) + 1 /\ w.srv # <<>> /\ w.srv[Len(w.srv)] = z.p.obuf
        <3>1. z.p.obuf \in Commands
            BY <2>1, <2>2
        <3>2. \A o \in Commands : /\ Len(Append(z.srv, o)) = Len(z.srv) + 1
                                  /\ Append(z.srv, o) # <<>>
                                  /\ Append(z.srv, o)[Len(z.srv) + 1] = o
            BY <2>7, AppendProperties
        <3> QED BY <2>3, <3>1, <3>2
    <2>9. OnItsWay(w, "RETR") => OnItsWay(z, "RETR")
        <3>1. SUFFICES ASSUME w.srv = <<"RETR">>, w.owed = <<>> PROVE OnItsWay(z, "RETR")
            BY <2>7, <2>8 DEF OnItsWay, Under, NoOutput
        <3>2. Len(w.srv) = 1 /\ z.p.obuf = "RETR"
            BY <2>8, <3>1
        <3>3. z.srv = <<>>
            BY <2>7, <2>8, <3>2
        <3> QED BY <2>7, <3>1, <3>2, <3>3 DEF OnItsWay, Under
    <2>10. OnItsWay(z, "RETR") => OnItsWay(w, "RETR")
        <3> SUFFICES ASSUME OnItsWay(z, "RETR") PROVE OnItsWay(w, "RETR")
            OBVIOUS
        <3>1. z.p.obuf = "RETR" /\ z.srv = <<>> /\ z.owed = <<>>
            BY <2>7 DEF OnItsWay, Under
        <3>2. w.srv = <<"RETR">>
            BY <2>3, <3>1
        <3> QED BY <2>7, <3>1, <3>2 DEF OnItsWay, Under
    <2>11. w.p.sent_user = z.p.sent_user
        <3>1. w.p = Output(x.p, NoOutput) /\ NoOutput \in Outputs
            BY <1>3, <2>1 DEF advanceOutput, Outputs
        <3> QED BY <2>1, <2>2, <3>1, OutputFields
    <2>12. /\ Receiving(x, data) => Receiving(y, data)
           /\ NoTransfer(x) => NoTransfer(y)
           /\ Rests(x) => Rests(y)
           /\ AllQuiet(x) => AllQuiet(y)
        BY <1>1 DEF SameRest, Receiving, NoTransfer, AllQuiet, Rests, Stranded
    <2>13. DataPart(x, data) => DataPart(y, data)
        BY <2>12 DEF DataPart
    <2>14. /\ AwaitsPort(x, z, data) => AwaitsPort(y, w, data)
           /\ HasPort(x, z, data) => HasPort(y, w, data)
        BY <1>1, <2>8, <2>10 DEF SameRest, AwaitsPort, HasPort
    <2>15. /\ AwaitsEnd(x, z, data) => AwaitsEnd(y, w, data)
           /\ AwaitsData(x, data) => AwaitsData(y, data)
           /\ LoggingIn(x) => LoggingIn(y)
        BY <1>1, <2>1, <2>9, <2>11, <2>12, <2>13 DEF AwaitsEnd, NotAsked, AwaitsData, LoggingIn
    <2>16. Working(y, c, w, data)
        BY <1>1, <2>12, <2>14, <2>15 DEF Working
    <2> QED BY <2>6, <2>16
<1> QED BY <1>1, <1>2, <1>3

\* The queue is as short as the conversation says.
LEMMA ShortQueue ==
  ASSUME NEW x \in PipeRecords, NEW srv \in CommandSeqs, NEW lines, NEW debt,
         InTouch(x, Talk(x, srv, lines, debt))
  PROVE  Len(x.out) <= 1
<1> DEFINE z == Talk(x, srv, lines, debt)
<1>1. z.srv = srv \o x.out /\ Sound(z) /\ InStep(z)
    BY DEF Talk, InTouch
<1> HIDE DEF z
<1>2. Len(z.srv) <= 1
    BY <1>1, OneCommand
<1>3. x.out \in Seq(Commands) /\ srv \in Seq(Commands)
    BY DEF PipeRecords, CommandSeqs
<1> QED BY <1>1, <1>2, <1>3

\* The lines of total after the first i.
After(total, i) == SubSeq(total, i + 1, Len(total))

\* Where the loop is after i lines of total.
Loop(x, r, total, srv, debt, c, data, i) ==
    LET z == Talk(r.s, srv, r.s.in \o After(total, i), debt)
    IN  /\ r \in Results /\ SameRest(x, r.s)
        /\ Len(r.s.in) <= i /\ Len(r.s.out) <= 1
        /\ r.err \in {"ok", "EALREADY", "error"}
        /\ ~Stuck(r) => r.s.in = <<>>
        /\ r.err # "error" => InTouch(r.s, z)
        /\ r.err = "ok" => Working(r.s, c, z, data)
        /\ r.err = "EALREADY" => Answered(r.s, c, data)
        /\ NoReply(total) =>
              /\ r.err = "ok" /\ NoReply(z.lines)
              /\ r.s.p.state = x.p.state /\ r.s.p.address_ready = x.p.address_ready

\* The lines after one more.
LEMMA AfterNext ==
  ASSUME NEW total \in LineSeqs, NEW i \in 1..Len(total)
  PROVE  /\ After(total, i - 1) \in LineSeqs /\ After(total, i) \in LineSeqs
         /\ After(total, i - 1) # <<>> /\ total[i] \in Lines
         /\ Head(After(total, i - 1)) = total[i]
         /\ Tail(After(total, i - 1)) = After(total, i)
         /\ \A kept \in LineSeqs : kept \o After(total, i - 1) = Append(kept, total[i]) \o After(total, i)
<1> USE DEF LineSeqs
<1>1. total \in Seq(Lines) /\ total[i] \in Lines /\ (i - 1) + 1 = i
    OBVIOUS
<1>2. /\ After(total, i - 1) = SubSeq(total, i, Len(total))
      /\ After(total, i) = SubSeq(total, i + 1, Len(total))
    BY <1>1 DEF After
<1>3. After(total, i - 1) \in Seq(Lines) /\ After(total, i) \in Seq(Lines)
    <2>1. \A j, k \in Int : (\A m \in j..k : total[m] \in Lines) => SubSeq(total, j, k) \in Seq(Lines)
        BY SubSeqProperties
    <2>2. Len(total) \in Nat /\ \A m \in 1..Len(total) : total[m] \in Lines
        BY <1>1
    <2>3. SubSeq(total, i, Len(total)) \in Seq(Lines) /\ SubSeq(total, i + 1, Len(total)) \in Seq(Lines)
        BY <2>1, <2>2
    <2> QED BY <1>2, <2>3
<1>4. /\ Head(SubSeq(total, i, Len(total))) = total[i]
      /\ Tail(SubSeq(total, i, Len(total))) = SubSeq(total, i + 1, Len(total))
    BY HeadTailOfSubSeq
<1>5. SubSeq(total, i, Len(total)) = <<total[i]>> \o SubSeq(total, i + 1, Len(total))
    BY SubSeqRecursiveFirst
<1>6. SubSeq(total, i, Len(total)) # <<>>
    <2>1. Len(SubSeq(total, i, Len(total))) > 0
        BY <1>1, SubSeqProperties
    <2> QED BY <2>1
<1>7. ASSUME NEW kept \in LineSeqs
      PROVE  kept \o After(total, i - 1) = Append(kept, total[i]) \o After(total, i)
    <2>1. <<total[i]>> \in Seq(Lines)
        BY <1>1
    <2>2. (kept \o <<total[i]>>) \o After(total, i) = kept \o (<<total[i]>> \o After(total, i))
        <3>1. ASSUME NEW a \in Seq(Lines), NEW b \in Seq(Lines), NEW d \in Seq(Lines)
              PROVE  (a \o b) \o d = a \o (b \o d)
            BY SMT
        <3> QED BY <1>3, <2>1, <3>1
    <2>3. Append(kept, total[i]) = kept \o <<total[i]>>
        BY <1>1, AppendIsConcat
    <2> QED BY <1>2, <1>5, <2>2, <2>3
<1> QED BY <1>1, <1>2, <1>3, <1>4, <1>6, <1>7

\* Before the first line.
LEMMA LoopStarts ==
  ASSUME NEW x \in PipeRecords, NEW total \in LineSeqs, NEW srv \in CommandSeqs, NEW debt, NEW c, NEW data,
         InTouch(x, Talk(x, srv, total, debt)), Working(x, c, Talk(x, srv, total, debt), data),
         NEW r, r = Result([x EXCEPT !.in = <<>>], "ok")
  PROVE  Loop(x, r, total, srv, debt, c, data, 0)
<1> DEFINE y == [x EXCEPT !.in = <<>>]
           z == Talk(x, srv, total, debt)
<1>1. <<>> \in LineSeqs /\ Len(<<>>) = 0
    BY DEF LineSeqs
<1>2. y \in PipeRecords /\ SameRest(x, y) /\ y.p = x.p /\ y.in = <<>> /\ y.out = x.out /\ y.timer = x.timer
    BY <1>1, SetIn
<1>3. r = Result(y, "ok")
    OBVIOUS
<1> HIDE DEF y
<1>4. r \in Results /\ r.s = y /\ r.err = "ok"
    BY <1>2, <1>3 DEF Result, Results, Outcomes
<1>5. <<>> \o After(total, 0) = total
    <2>1. SubSeq(total, 1, Len(total)) = total
        BY SubSeqFull DEF LineSeqs
    <2> QED BY <2>1 DEF After, LineSeqs
<1>6. Talk(y, srv, <<>> \o After(total, 0), debt) = z
    BY <1>2, <1>5 DEF Talk
<1>7. InTouch(x, z) /\ Working(x, c, z, data)
    OBVIOUS
<1> HIDE DEF z
<1>8. InTouch(y, z) /\ Working(y, c, z, data)
    BY <1>2, <1>7, SameWork
<1>9. Len(y.out) <= 1
    <2>1. Len(x.out) <= 1
        BY ShortQueue
    <2> QED BY <1>2, <2>1
<1>10. z.lines = total
    BY DEF z, Talk
<1>11. PICK v : v = Talk(r.s, srv, r.s.in \o After(total, 0), debt)
    OBVIOUS
<1>12. v = z
    BY <1>2, <1>4, <1>6, <1>11
<1>13. /\ InTouch(r.s, v) /\ Working(r.s, c, v, data) /\ v.lines = total
       /\ SameRest(x, r.s) /\ r.s.p = x.p /\ r.s.in = <<>> /\ Len(r.s.in) <= 0 /\ Len(r.s.out) <= 1
    BY <1>1, <1>2, <1>4, <1>8, <1>9, <1>10, <1>12
<1> QED BY <1>4, <1>11, <1>13 DEF Loop

\* With no reply among the lines, the engine is inside one.
LEMMA InsideReply ==
  ASSUME NEW z, InStep(z), z.lines \in Seq(Lines), z.lines # <<>>, NoReply(z.lines)
  PROVE  z.p.multiline
<1>1. ~z.lines[1].first
    BY DEF NoReply
<1> QED BY <1>1 DEF InStep, WellFormed, Fresh

\* One more line.
LEMMA LoopGoesOn ==
  ASSUME NEW x \in PipeRecords, NEW total \in LineSeqs, NEW srv \in CommandSeqs, NEW debt, NEW c, NEW data,
         NEW i \in 1..Len(total), NEW r, Loop(x, r, total, srv, debt, c, data, i - 1),
         NEW t, t = ReadLine(r, total[i])
  PROVE  Loop(x, t, total, srv, debt, c, data, i)
<1> DEFINE l == total[i]
<1>z. PICK z, w : /\ z = Talk(r.s, srv, r.s.in \o After(total, i - 1), debt)
                  /\ w = Talk(t.s, srv, t.s.in \o After(total, i), debt)
    OBVIOUS
<1>1. /\ r \in Results /\ SameRest(x, r.s)
      /\ Len(r.s.in) <= i - 1 /\ Len(r.s.out) <= 1
      /\ r.err \in {"ok", "EALREADY", "error"}
      /\ ~Stuck(r) => r.s.in = <<>>
      /\ r.err # "error" => InTouch(r.s, z)
      /\ r.err = "ok" => Working(r.s, c, z, data)
      /\ r.err = "EALREADY" => Answered(r.s, c, data)
      /\ NoReply(total) =>
            /\ r.err = "ok" /\ NoReply(z.lines)
            /\ r.s.p.state = x.p.state /\ r.s.p.address_ready = x.p.address_ready
    BY <1>z DEF Loop
<1>2. /\ After(total, i - 1) \in LineSeqs /\ After(total, i) \in LineSeqs
      /\ After(total, i - 1) # <<>> /\ l \in Lines
      /\ Head(After(total, i - 1)) = l
      /\ Tail(After(total, i - 1)) = After(total, i)
      /\ \A kept \in LineSeqs : kept \o After(total, i - 1) = Append(kept, l) \o After(total, i)
    BY AfterNext
<1>3. r.s \in PipeRecords /\ r.s.in \in LineSeqs /\ r.s.out \in CommandSeqs /\ r.s.p \in ProtoRecords
    BY <1>1 DEF Results, PipeRecords
<1>4. \A kept \in LineSeqs : Len(Append(kept, l)) = Len(kept) + 1 /\ Len(kept) \in Nat
    BY <1>2 DEF LineSeqs
<1>5. \A rest \in LineSeqs : <<>> \o rest = rest
    BY DEF LineSeqs
<1>6. t = ReadLine(r, l)
    OBVIOUS
<1> HIDE DEF l
<1> SUFFICES /\ t \in Results /\ SameRest(x, t.s)
             /\ Len(t.s.in) <= i /\ Len(t.s.out) <= 1
             /\ t.err \in {"ok", "EALREADY", "error"}
             /\ ~Stuck(t) => t.s.in = <<>>
             /\ t.err # "error" => InTouch(t.s, w)
             /\ t.err = "ok" => Working(t.s, c, w, data)
             /\ t.err = "EALREADY" => Answered(t.s, c, data)
             /\ NoReply(total) =>
                   /\ t.err = "ok" /\ NoReply(w.lines)
                   /\ t.s.p.state = x.p.state /\ t.s.p.address_ready = x.p.address_ready
    BY <1>z DEF Loop
<1>7. CASE Stuck(r)
    <2>1. /\ t \in Results /\ t.err = r.err /\ SameRest(r.s, t.s) /\ t.s.p = r.s.p
          /\ t.s.out = r.s.out /\ t.s.timer = r.s.timer /\ t.s.in = Append(r.s.in, l)
        BY <1>1, <1>2, <1>6, <1>7, StuckFields
    <2>2. w = z
        <3>1. r.s.in \o After(total, i - 1) = t.s.in \o After(total, i)
            BY <1>2, <1>3, <2>1
        <3> QED BY <1>z, <2>1, <3>1 DEF Talk
    <2>3. SameRest(x, t.s)
        BY <1>1, <2>1 DEF SameRest
    <2>4. Len(t.s.in) <= i /\ Len(t.s.out) <= 1
        BY <1>1, <1>3, <1>4, <2>1
    <2>5. Stuck(t)
        BY <1>7, <2>1 DEF Stuck
    <2>6. /\ InTouch(r.s, z) => InTouch(t.s, z)
          /\ Working(r.s, c, z, data) => Working(t.s, c, z, data)
          /\ Answered(r.s, c, data) => Answered(t.s, c, data)
        BY <2>1, SameWork
    <2> QED BY <1>1, <2>1, <2>2, <2>3, <2>4, <2>5, <2>6
<1>8. CASE ~Stuck(r)
    <2>1. /\ r.err = "ok" /\ r.s.p.state # "IDLE" /\ r.s.in = <<>>
          /\ InTouch(r.s, z) /\ Working(r.s, c, z, data)
        BY <1>1, <1>8 DEF Stuck
    <2> DEFINE lines == After(total, i - 1)
    <2>2. z = Talk(r.s, srv, lines, debt) /\ z.p = r.s.p /\ z.lines = lines
        <3>1. r.s.in \o lines = lines
            BY <1>2, <1>5, <2>1
        <3> QED BY <1>z, <3>1 DEF Talk
    <2>3. Sound(z) /\ InStep(z) /\ r.s.p.stack = StackFor(r.s.p.state)
        BY <2>1, <2>2 DEF InTouch, Sound
    <2>4. PICK q, g : q = r.s.p /\ g = giveInput(q, l)
        OBVIOUS
    <2>5. g.p \in ProtoRecords /\ (q.multiline => g.err = "ok")
        BY <1>2, <1>3, <2>3, <2>4, InputFields
    <2>6. g = giveInput(r.s.p, l)
        BY <2>4
    <2>0. t \in Results /\ Taken(r, l, t, g)
        BY <1>1, <1>2, <1>6, <1>8, <2>5, <2>6, TakenFields
    <2>7. PICK y \in PipeRecords :
             /\ SameRest(r.s, y) /\ y.p = g.p /\ y.in = r.s.in /\ y.out = r.s.out
             /\ y.timer = IF r.s.state = "IDLE" THEN "none" ELSE r.s.timer
             /\ \/ /\ g.err # "ok" /\ t.err = "error" /\ SameRest(r.s, t.s)
                   /\ t.s.in = Append(r.s.in, l) /\ t.s.out = r.s.out
                \/ g.err = "ok" /\ getStatus(g.p) # 0 /\ t.err = "EALREADY" /\ t.s = y
                \/ g.err = "ok" /\ getStatus(g.p) = 0 /\ t.err = "ok" /\ t.s = PutOutput(y)
        BY <2>0 DEF Taken
    <2>8. CASE g.err # "ok"
        <3>1. /\ t.err = "error" /\ SameRest(r.s, t.s)
              /\ t.s.in = Append(r.s.in, l) /\ t.s.out = r.s.out
            BY <2>7, <2>8
        <3>2. SameRest(x, t.s)
            BY <1>1, <3>1 DEF SameRest
        <3>3. Len(t.s.in) <= i /\ Len(t.s.out) <= 1
            BY <1>1, <1>3, <1>4, <3>1
        <3>4. Stuck(t)
            BY <3>1 DEF Stuck
        <3>5. ~NoReply(total)
            <4>1. ~z.p.multiline
                BY <2>2, <2>4, <2>5, <2>8
            <4>2. ~NoReply(z.lines)
                BY <1>2, <2>2, <2>3, <4>1, InsideReply DEF LineSeqs
            <4> QED BY <1>1, <4>2
        <3> QED BY <2>0, <3>1, <3>2, <3>3, <3>4, <3>5
    <2>9. CASE g.err = "ok"
        <3> DEFINE v == Talk(y, srv, After(total, i), debt)
        <3>1. Given(r.s, y, srv, lines, debt)
            BY <1>2, <2>1, <2>6, <2>7, <2>9 DEF Given, Handles
        <3>2. v = Talk(y, srv, Tail(lines), debt)
            BY <1>2
        <3> HIDE DEF lines, v
        <3>3. InTouch(y, v) /\ TakesLine(z, v)
            BY <2>1, <2>2, <3>1, <3>2, GivenInTouch
        <3>4. IF getStatus(y.p) = 0 THEN Working(y, c, v, data) ELSE Answered(y, c, data)
            BY <2>1, <2>2, <3>1, <3>2, FirstWorking, FurtherWorking
        <3>5. NoReply(total) => /\ getStatus(y.p) = 0 /\ y.p.state = x.p.state
                                /\ y.p.address_ready = x.p.address_ready /\ NoReply(v.lines)
            <4> SUFFICES ASSUME NoReply(total)
                         PROVE  /\ getStatus(y.p) = 0 /\ y.p.state = x.p.state
                                /\ y.p.address_ready = x.p.address_ready /\ NoReply(v.lines)
                OBVIOUS
            <4>1. NoReply(z.lines) /\ r.s.p.state = x.p.state /\ r.s.p.address_ready = x.p.address_ready
                BY <1>1
            <4>2. r.s.p.multiline
                <5>1. z.lines \in Seq(Lines) /\ z.lines # <<>>
                    BY <1>2, <2>2 DEF LineSeqs, lines
                <5> QED BY <2>2, <2>3, <4>1, <5>1, InsideReply
            <4>3. /\ getStatus(y.p) = 0 /\ y.p.state = r.s.p.state
                  /\ y.p.address_ready = r.s.p.address_ready
                BY <2>1, <2>2, <3>1, <3>2, <4>2, FurtherWorking
            <4>4. IsTail(z.lines, v.lines)
                BY <2>3, <3>3, ReadFacts
            <4>5. NoReply(v.lines)
                <5>1. \A n \in 1..Len(v.lines) : n + 1 \in 1..Len(z.lines)
                    BY <4>4 DEF IsTail
                <5>2. \A n \in 1..Len(v.lines) : v.lines[n] = z.lines[n + 1]
                    BY <4>4 DEF IsTail
                <5> QED BY <4>1, <5>1, <5>2 DEF NoReply
            <4> QED BY <4>1, <4>3, <4>5
        <3>6. y.in = <<>> /\ SameRest(x, y) /\ Len(<<>>) = 0
            BY <1>1, <2>1, <2>7 DEF SameRest
        <3>7. CASE getStatus(y.p) # 0
            <4>1. t.err = "EALREADY" /\ t.s = y
                BY <2>7, <2>9, <3>7
            <4>2. w = v
                BY <1>z, <1>2, <1>5, <3>6, <4>1 DEF v
            <4>3. Len(y.out) <= 1
                BY <3>3, ShortQueue DEF v
            <4>4. Answered(y, c, data)
                BY <3>4, <3>7
            <4> QED BY <2>0, <3>3, <3>5, <3>6, <3>7, <4>1, <4>2, <4>3, <4>4
        <3>8. CASE getStatus(y.p) = 0
            <4>1. t.err = "ok" /\ t.s = PutOutput(y)
                BY <2>7, <2>9, <3>8
            <4>2. /\ t.s \in PipeRecords /\ SameRest(y, t.s) /\ t.s.in = y.in
                  /\ t.s.p.state = y.p.state /\ t.s.p.address_ready = y.p.address_ready
                BY <4>1, PutOutputFields
            <4>3. w = Talk(t.s, srv, After(total, i), debt)
                BY <1>z, <1>2, <1>5, <3>6, <4>2
            <4>4. InTouch(t.s, w) /\ Working(t.s, c, w, data)
                BY <3>3, <3>4, <3>8, <4>1, <4>3, PutTalk DEF v
            <4>5. Len(t.s.out) <= 1
                BY <4>2, <4>3, <4>4, ShortQueue
            <4>6. w.lines = v.lines
                BY <4>3 DEF v, Talk
            <4>7. SameRest(x, t.s)
                BY <3>6, <4>2 DEF SameRest
            <4> QED BY <2>0, <3>5, <3>6, <3>8, <4>1, <4>2, <4>4, <4>5, <4>6, <4>7
        <3> QED BY <3>7, <3>8
    <2> QED BY <2>8, <2>9
<1> QED BY <1>7, <1>8

\* A set of numbers that is not empty has a least one.
LEMMA HasLeast ==
  ASSUME NEW T \in SUBSET Nat, T # {}
  PROVE  \E n \in T : \A m \in T : n <= m
<1>1. PICK n \in T : \A m \in T : ~(<<m, n>> \in OpToRel(<, Nat))
    BY NatLessThanWellFounded, WFMin
<1>2. ASSUME NEW m \in T PROVE n <= m
    <2>1. m \in Nat /\ n \in Nat
        OBVIOUS
    <2>2. ~(m < n)
        BY <1>1, <2>1 DEF OpToRel
    <2> QED BY <2>1, <2>2
<1> QED BY <1>1, <1>2

\* f is the loop over the first n of lines.
Runs(f, start, lines, n) ==
    /\ f \in [0..n -> Results] /\ f[0] = start
    /\ \A i \in 1..n : f[i] = ReadLine(f[i - 1], lines[i])

\* The recursive function ReadLines is the loop, if there is one.
LEMMA ReadLinesRuns ==
  ASSUME NEW x, NEW n \in Nat, n = Len(x.in), NEW start, start = Result([x EXCEPT !.in = <<>>], "ok"),
         \E g : Runs(g, start, x.in, n)
  PROVE  /\ ReadLines(x)[0] = start
         /\ \A i \in 1..n : ReadLines(x)[i] = ReadLine(ReadLines(x)[i - 1], x.in[i])
<1> DEFINE f == ReadLines(x)
           lines == x.in
<1>1. f = CHOOSE h : h = [i \in 0..n |-> IF i = 0 THEN start ELSE ReadLine(h[i - 1], lines[i])]
    BY DEF ReadLines
<1> HIDE DEF f, lines
<1>2. PICK g : g \in [0..n -> Results] /\ g[0] = start /\ \A i \in 1..n : g[i] = ReadLine(g[i - 1], lines[i])
    BY DEF Runs, lines
<1>3. g = [i \in 0..n |-> IF i = 0 THEN start ELSE ReadLine(g[i - 1], lines[i])]
    BY <1>2
<1>4. f = [i \in 0..n |-> IF i = 0 THEN start ELSE ReadLine(f[i - 1], lines[i])]
    BY <1>1, <1>3
<1>5. f[0] = start /\ \A i \in 1..n : f[i] = ReadLine(f[i - 1], lines[i])
    BY <1>4
<1> QED BY <1>5 DEF f, lines

\* The loop runs to the end of the lines.
LEMMA LoopRuns ==
  ASSUME NEW x \in PipeRecords, NEW total \in LineSeqs, NEW srv \in CommandSeqs, NEW debt, NEW c, NEW data,
         InTouch(x, Talk(x, srv, total, debt)), Working(x, c, Talk(x, srv, total, debt), data),
         NEW start, start = Result([x EXCEPT !.in = <<>>], "ok"),
         NEW n \in 0..Len(total)
  PROVE  \E f : Runs(f, start, total, n) /\ \A i \in 0..n : Loop(x, f[i], total, srv, debt, c, data, i)
<1> DEFINE Fine(f, k) == Runs(f, start, total, k)
                         /\ \A i \in 0..k : Loop(x, f[i], total, srv, debt, c, data, i)
           Bad == {k \in 0..Len(total) : ~\E f : Fine(f, k)}
<1>0. Len(total) \in Nat
    BY DEF LineSeqs
<1>1. Loop(x, start, total, srv, debt, c, data, 0)
    BY LoopStarts
<1>2. start \in Results
    BY <1>1 DEF Loop
<1>3. Fine([i \in 0..0 |-> start], 0)
    BY <1>1, <1>2 DEF Runs
<1>4. ASSUME NEW k \in 1..Len(total), NEW f, Fine(f, k - 1)
      PROVE  \E g : Fine(g, k)
    <2> DEFINE t == ReadLine(f[k - 1], total[k])
               g == [i \in 0..k |-> IF i = k THEN t ELSE f[i]]
    <2>0. k - 1 \in 0..(k - 1) /\ k \in Nat
        BY <1>0
    <2>1. /\ f \in [0..(k - 1) -> Results] /\ f[0] = start
          /\ \A i \in 1..(k - 1) : f[i] = ReadLine(f[i - 1], total[i])
          /\ \A i \in 0..(k - 1) : Loop(x, f[i], total, srv, debt, c, data, i)
        BY <1>4 DEF Runs
    <2>2. Loop(x, f[k - 1], total, srv, debt, c, data, k - 1)
        BY <2>0, <2>1
    <2>3. Loop(x, t, total, srv, debt, c, data, k)
        BY <2>2, LoopGoesOn
    <2>4. t \in Results
        BY <2>3 DEF Loop
    <2> HIDE DEF t
    <2>5. /\ g \in [0..k -> Results] /\ g[0] = start /\ g[k] = t
          /\ \A i \in 0..(k - 1) : g[i] = f[i]
        BY <2>0, <2>1, <2>4
    <2> HIDE DEF g
    <2>6. ASSUME NEW i \in 1..k PROVE g[i] = ReadLine(g[i - 1], total[i])
        <3>1. i - 1 \in 0..(k - 1) /\ (i = k \/ i \in 1..(k - 1))
            BY <2>0
        <3>2. g[i - 1] = f[i - 1]
            BY <2>5, <3>1
        <3>3. CASE i = k
            BY <2>5, <3>2, <3>3 DEF t
        <3>4. CASE i \in 1..(k - 1)
            <4>1. i \in 0..(k - 1)
                BY <3>4, <2>0
            <4> QED BY <2>1, <2>5, <3>2, <3>4, <4>1
        <3> QED BY <3>1, <3>3, <3>4
    <2>7. ASSUME NEW i \in 0..k PROVE Loop(x, g[i], total, srv, debt, c, data, i)
        <3>1. i = k \/ i \in 0..(k - 1)
            BY <2>0
        <3> QED BY <2>1, <2>3, <2>5, <3>1
    <2>8. Runs(g, start, total, k)
        BY <2>5, <2>6 DEF Runs
    <2>9. Fine(g, k)
        BY <2>7, <2>8
    <2> QED BY <2>9
<1> HIDE DEF Fine
<1>5. ASSUME Bad # {} PROVE FALSE
    <2>1. Bad \subseteq Nat
        BY <1>0
    <2>2. PICK k \in Bad : \A m \in Bad : k <= m
        BY <1>5, <2>1, HasLeast
    <2>3. k # 0
        BY <1>3, <2>2
    <2>4. k \in 1..Len(total) /\ k - 1 \in 0..Len(total) /\ k - 1 \notin Bad
        BY <1>0, <2>2, <2>3
    <2>5. PICK f : Fine(f, k - 1)
        BY <2>4
    <2>6. \E g : Fine(g, k)
        BY <1>4, <2>4, <2>5
    <2> QED BY <2>2, <2>6
<1>6. PICK f : Fine(f, n)
    BY <1>5
<1> QED BY <1>6 DEF Fine

\* Where ReadLines ends.
LEMMA LoopEnds ==
  ASSUME NEW x \in PipeRecords, NEW total \in LineSeqs, NEW srv \in CommandSeqs, NEW debt, NEW c, NEW data,
         InTouch(x, Talk(x, srv, total, debt)), Working(x, c, Talk(x, srv, total, debt), data),
         NEW n \in 0..Len(total), n = Len(x.in), \A i \in 1..n : total[i] = x.in[i]
  PROVE  Loop(x, ReadLines(x)[n], total, srv, debt, c, data, n)
<1> DEFINE start == Result([x EXCEPT !.in = <<>>], "ok")
           h == ReadLines(x)
<1>0. n \in Nat
    BY DEF LineSeqs
<1>1. PICK f : Runs(f, start, total, n) /\ \A i \in 0..n : Loop(x, f[i], total, srv, debt, c, data, i)
    BY LoopRuns
<1>2. Runs(f, start, x.in, n)
    BY <1>1 DEF Runs
<1>3. h[0] = start /\ \A i \in 1..n : h[i] = ReadLine(h[i - 1], x.in[i])
    BY <1>0, <1>2, ReadLinesRuns
<1> HIDE DEF h, start
<1>4. f[0] = start /\ \A i \in 1..n : f[i] = ReadLine(f[i - 1], x.in[i])
    BY <1>2 DEF Runs
<1> DEFINE Bad == {i \in 0..n : h[i] # f[i]}
<1>5. ASSUME Bad # {} PROVE FALSE
    <2>1. Bad \subseteq Nat
        BY <1>0
    <2>2. PICK k \in Bad : \A m \in Bad : k <= m
        BY <1>5, <2>1, HasLeast
    <2>3. k # 0
        BY <1>3, <1>4, <2>2
    <2>4. k \in 1..n /\ k - 1 \in 0..n /\ k - 1 \notin Bad
        BY <1>0, <2>2, <2>3
    <2>5. h[k - 1] = f[k - 1]
        BY <2>4
    <2>6. h[k] = f[k]
        BY <1>3, <1>4, <2>4, <2>5
    <2> QED BY <2>2, <2>6
<1>6. n \in 0..n /\ h[n] = f[n]
    BY <1>0, <1>5
<1>7. Loop(x, f[n], total, srv, debt, c, data, n)
    BY <1>1, <1>6
<1> QED BY <1>6, <1>7 DEF h

\* What the handling of the lines has made of session x: z is the conversation
\* then, total the lines there were.
Processed(x, r, z, total, c, data) ==
    /\ r \in Results /\ SameRest(x, r.s)
    /\ Len(r.s.in) <= Len(x.in) /\ Len(r.s.out) <= 1
    /\ r.err \in {"ok", "EALREADY", "error"}
    /\ r.err = "ok" => InTouch(r.s, z) /\ Working(r.s, c, z, data) /\ r.s.p.obuf = NoOutput
    /\ r.err = "EALREADY" => InTouch(r.s, z) /\ Answered(r.s, c, data)
    /\ NoReply(total) => /\ r.err = "ok" /\ r.s.p.state = x.p.state
                         /\ r.s.p.address_ready = x.p.address_ready

\* The lines x has and those that follow, with the parts they are made of.
LEMMA LinesThere ==
  ASSUME NEW a \in LineSeqs, NEW b \in LineSeqs
  PROVE  /\ a \o b \in LineSeqs /\ Len(a) \in 0..Len(a \o b)
         /\ \A i \in 1..Len(a) : (a \o b)[i] = a[i]
         /\ After(a \o b, Len(a)) = b
<1> USE DEF LineSeqs
<1>1. /\ a \o b \in Seq(Lines) /\ Len(a \o b) = Len(a) + Len(b)
      /\ \A i \in 1..Len(a) : (a \o b)[i] = a[i]
      /\ Len(a) \in Nat /\ Len(b) \in Nat
    OBVIOUS
<1>2. SubSeq(a \o b, Len(a) + 1, Len(a \o b)) = b
    BY <1>1
<1> QED BY <1>1, <1>2 DEF After

\* ProcessLines.
LEMMA ProcessLinesEnds ==
  ASSUME NEW x \in PipeRecords, NEW rest \in LineSeqs, NEW srv \in CommandSeqs, NEW debt, NEW c, NEW data,
         NEW total, total = x.in \o rest,
         InTouch(x, Talk(x, srv, total, debt)), Working(x, c, Talk(x, srv, total, debt), data),
         NEW r, r = ProcessLines(x)
  PROVE  Processed(x, r, Talk(r.s, srv, r.s.in \o rest, debt), total, c, data)
<1> DEFINE n == Len(x.in)
           h == ReadLines(x)
<1>0. x.in \in LineSeqs
    BY DEF PipeRecords
<1>1. /\ total \in LineSeqs /\ n \in 0..Len(total)
      /\ \A i \in 1..n : total[i] = x.in[i]
      /\ After(total, n) = rest
    BY <1>0, LinesThere
<1>2. Loop(x, h[n], total, srv, debt, c, data, n)
    BY <1>1, LoopEnds
<1>3. PICK q, v, w : /\ q = h[n] /\ v = Talk(q.s, srv, q.s.in \o rest, debt)
                     /\ w = Talk(r.s, srv, r.s.in \o rest, debt)
    OBVIOUS
<1>4. r = IF q.err = "ok" THEN Result(PutOutput(q.s), "ok") ELSE q
    BY <1>3 DEF ProcessLines
<1> HIDE DEF h, n
<1>5. /\ q \in Results /\ SameRest(x, q.s)
      /\ Len(q.s.in) <= n /\ Len(q.s.out) <= 1
      /\ q.err \in {"ok", "EALREADY", "error"}
      /\ q.err # "error" => InTouch(q.s, v)
      /\ q.err = "ok" => Working(q.s, c, v, data)
      /\ q.err = "EALREADY" => Answered(q.s, c, data)
      /\ NoReply(total) => /\ q.err = "ok" /\ q.s.p.state = x.p.state
                           /\ q.s.p.address_ready = x.p.address_ready
    BY <1>1, <1>2, <1>3 DEF Loop
<1> SUFFICES Processed(x, r, w, total, c, data)
    BY <1>3
<1>6. CASE q.err # "ok"
    <2>1. r = q /\ w = v
        BY <1>3, <1>4, <1>6
    <2> QED BY <1>5, <1>6, <2>1 DEF Processed, n
<1>7. CASE q.err = "ok"
    <2>1. q.s \in PipeRecords /\ InTouch(q.s, v) /\ Working(q.s, c, v, data)
        BY <1>5, <1>7 DEF Results
    <2>2. PICK y : y = PutOutput(q.s)
        OBVIOUS
    <2>3. r = Result(y, "ok")
        BY <1>4, <1>7, <2>2
    <2>4. /\ y \in PipeRecords /\ SameRest(q.s, y) /\ y.in = q.s.in
          /\ y.p.obuf = NoOutput /\ y.p.state = q.s.p.state
          /\ y.p.address_ready = q.s.p.address_ready
        BY <2>1, <2>2, PutOutputFields
    <2>5. r \in Results /\ r.s = y /\ r.err = "ok"
        BY <2>3, <2>4 DEF Result, Results, Outcomes
    <2>6. w = Talk(y, srv, q.s.in \o rest, debt)
        BY <1>3, <2>4, <2>5
    <2>7. InTouch(y, w) /\ Working(y, c, w, data)
        BY <1>3, <2>1, <2>2, <2>6, PutTalk
    <2>8. Len(y.out) <= 1
        BY <2>4, <2>6, <2>7, ShortQueue
    <2>9. SameRest(x, y)
        BY <1>5, <2>4 DEF SameRest
    <2> QED BY <1>5, <2>4, <2>5, <2>7, <2>8, <2>9 DEF Processed, n
<1> QED BY <1>6, <1>7

------------------------------------------------------------------------------
(***************************************************************************)
(* Flushing, and opening the data connection.                              *)
(***************************************************************************)
\* How a handler leaves session x: z is the conversation then.
Handled(x, r, c, z, data) ==
    /\ r \in Results /\ Len(r.s.in) <= 6 /\ Len(r.s.out) <= 1
    /\ r.s.calls = x.calls /\ r.s.cfd = x.cfd
    /\ r.err \in {"ok", "EALREADY", "error"}
    /\ r.err = "ok" => InOrder(r.s, c, z, data)
    /\ r.err = "EALREADY" =>
          /\ InTouch(r.s, z)
          /\ Answered(r.s, c, data) \/ (getStatus(r.s.p) = 0 /\ InOrder(r.s, c, z, data))

\* The address is handed over: the conversation is the same.
LEMMA TakePortTalk ==
  ASSUME NEW x \in PipeRecords, NEW y, y = [x EXCEPT !.p = takePort(@)], NEW srv, NEW lines, NEW debt,
         InTouch(x, Talk(x, srv, lines, debt))
  PROVE  /\ y \in PipeRecords /\ SameRest(x, y) /\ y.in = x.in /\ y.out = x.out /\ y.timer = x.timer
         /\ y.p.obuf = x.p.obuf /\ y.p.state = x.p.state /\ ~y.p.address_ready
         /\ InTouch(y, Talk(y, srv, lines, debt))
<1>1. PICK o, b, q : o = x.p /\ b = FALSE /\ q = takePort(o)
    OBVIOUS
<1>a. o \in ProtoRecords /\ b \in Flags /\ q = [o EXCEPT !.address_ready = b]
    BY <1>1 DEF PipeRecords, takePort, Flags
<1>b. /\ q \in ProtoRecords /\ q.stack = o.stack /\ q.state = o.state
      /\ q.sent_user = o.sent_user /\ q.obuf = o.obuf
      /\ q.multiline = o.multiline /\ q.status = o.status /\ q.address_ready = b
    BY <1>a, SetAddressReady
<1>2. /\ q \in ProtoRecords /\ q.stack = x.p.stack /\ q.state = x.p.state
      /\ q.sent_user = x.p.sent_user /\ q.obuf = x.p.obuf
      /\ q.multiline = x.p.multiline /\ q.status = x.p.status /\ ~q.address_ready
    BY <1>1, <1>b, Zenon
<1>3. y = [x EXCEPT !.p = q]
    BY <1>1 DEF PipeRecords
<1>4. /\ y \in PipeRecords /\ SameRest(x, y) /\ y.p = q
      /\ y.in = x.in /\ y.out = x.out /\ y.timer = x.timer
    <2>1. q \in ProtoRecords
        BY <1>2
    <2> QED BY <1>3, <2>1 DEF PipeRecords, SameRest
<1>5. PICK z, w : z = Talk(x, srv, lines, debt) /\ w = Talk(y, srv, lines, debt)
    OBVIOUS
<1>6. /\ z.p = x.p /\ z.srv = w.srv /\ z.lines = w.lines /\ z.owed = w.owed /\ w.p = q
      /\ SameEnds(z, w)
    BY <1>4, <1>5 DEF Talk, SameEnds
<1>7. Sound(z) /\ WellFormed(z) /\ Agreement(z) /\ Honest(z.lines)
    BY <1>5 DEF InTouch, InStep
<1>8. Sound(w)
    BY <1>2, <1>6, <1>7 DEF Sound, SameEnds
<1>9. WellFormed(w)
    BY <1>2, <1>6, <1>7, SameLines
<1>10. /\ Quiet(z) => Quiet(w)
       /\ \A d \in Questions : Outstanding(z, d) => Outstanding(w, d)
       /\ Transferring(z) => Transferring(w)
       /\ SentAhead(z) => SentAhead(w)
    BY <1>2, <1>6 DEF Quiet, Outstanding, Transferring, SentAhead, Nothing, OnItsWay, Under
<1>11. Agreement(w)
    <2>1. "RETR" \in Questions
        BY DEF Questions, Commands
    <2>2. z.p.multiline \/ ~w.p.multiline
        BY <1>2, <1>6 DEF ProtoRecords, Flags
    <2> QED BY <1>2, <1>6, <1>7, <1>10, <2>1, <2>2, SameState
<1>12. y.state # "SLEEPING" => y.events = "none"
    BY <1>4 DEF InTouch, SameRest
<1> QED BY <1>2, <1>4, <1>5, <1>6, <1>7, <1>8, <1>9, <1>11, <1>12 DEF InTouch, InStep

\* Opening the data connection: the session awaits its end from then on.
LEMMA OpenDataEnds ==
  ASSUME NEW x \in PipeRecords, Len(x.in) <= 6, Len(x.out) <= 1, NEW srv, NEW lines, NEW debt,
         NEW z, z = Talk(x, srv, lines, debt), InTouch(x, z), x.p.obuf = NoOutput,
         NEW c, NEW data, Working(x, c, z, data),
         NEW port \in {"connecting", "open", "nosocket", "refused"}, NEW r, r = OpenData(x, port),
         NEW w, w = Talk(r.s, srv, lines, debt)
  PROVE  /\ Handled(x, r, c, w, data) /\ r.s.in = x.in
         /\ ~x.p.address_ready => r.err = "ok" /\ r.s = x
<1>1. CASE ~x.p.address_ready
    <2>1. r = Result(x, "ok")
        BY <1>1 DEF OpenData
    <2>2. r \in Results /\ r.s = x /\ r.err = "ok"
        BY <2>1 DEF Result, Results, Outcomes
    <2>3. InOrder(r.s, c, w, data)
        BY <1>1, <2>2 DEF InOrder
    <2> QED BY <2>2, <2>3 DEF Handled
<1>2. CASE x.p.address_ready
    <2>1. c = "get" /\ HasPort(x, z, data)
        BY <1>2 DEF Working, LoggingIn, AwaitsPort, AwaitsEnd, AwaitsData
    <2>2. PICK y, v : y = [x EXCEPT !.p = takePort(@)] /\ v = Talk(y, srv, lines, debt)
        OBVIOUS
    <2>3. /\ y \in PipeRecords /\ SameRest(x, y) /\ y.in = x.in /\ y.out = x.out /\ y.timer = x.timer
          /\ y.p.obuf = x.p.obuf /\ y.p.state = x.p.state /\ ~y.p.address_ready /\ InTouch(y, v)
        <3>1. InTouch(x, Talk(x, srv, lines, debt)) /\ y = [x EXCEPT !.p = takePort(@)]
            BY <2>2
        <3>2. InTouch(y, Talk(y, srv, lines, debt))
            BY <3>1, TakePortTalk
        <3> QED BY <2>2, <3>1, <3>2, TakePortTalk
    <2>4. /\ z.srv = srv \o x.out /\ z.owed = debt /\ z.p = x.p
          /\ v.srv = srv \o y.out /\ v.owed = debt /\ v.p = y.p
        BY <2>2 DEF Talk
    <2>5. r = IF port = "nosocket" THEN Result(y, "error")
              ELSE IF port = "refused" THEN Result([y EXCEPT !.dfd = "open"], "error")
              ELSE Result([y EXCEPT !.dfd = port], "ok")
        BY <1>2, <2>2 DEF OpenData
    <2>6. CASE port = "nosocket"
        <3>1. r = Result(y, "error")
            BY <2>5, <2>6
        <3>2. r \in Results /\ r.s = y /\ r.err = "error"
            BY <2>3, <3>1 DEF Result, Results, Outcomes
        <3> QED BY <1>2, <2>3, <3>2 DEF Handled, SameRest
    <2>7. CASE port # "nosocket"
        <3> DEFINE d == IF port = "refused" THEN "open" ELSE port
                   u == [y EXCEPT !.dfd = d]
        <3>1. d \in Sockets /\ d # "none"
            BY <2>7 DEF Sockets
        <3>2. r = Result(u, IF port = "refused" THEN "error" ELSE "ok")
            BY <2>5, <2>7
        <3> HIDE DEF d
        <3>3. /\ u \in PipeRecords /\ u.dfd = d /\ u.p = y.p /\ u.in = y.in /\ u.out = y.out
              /\ u.state = y.state /\ u.cfd = y.cfd /\ u.events = y.events /\ u.later = y.later
              /\ u.calls = y.calls
            BY <2>3, <3>1 DEF PipeRecords
        <3> HIDE DEF u
        <3>4. r \in Results /\ r.s = u /\ r.err = IF port = "refused" THEN "error" ELSE "ok"
            BY <3>2, <3>3 DEF Result, Results, Outcomes
        <3>5. w = v
            BY <2>2, <3>3, <3>4 DEF Talk
        <3>6. InTouch(u, w)
            BY <2>3, <3>3, <3>5 DEF InTouch
        <3>7. Receiving(u, data)
            BY <2>1, <2>3, <3>1, <3>3 DEF HasPort, Receiving, SameRest
        <3>8. u.p.state = "RETR" /\ data = "none"
            BY <2>1, <2>3, <3>3 DEF HasPort
        <3>9. AwaitsEnd(u, w, data)
            BY <2>3, <3>3, <3>7, <3>8 DEF AwaitsEnd, NotAsked, DataPart
        <3>10. InOrder(u, c, w, data)
            BY <2>1, <2>3, <3>3, <3>6, <3>9 DEF InOrder, Working
        <3>11. /\ Len(u.in) <= 6 /\ Len(u.out) <= 1 /\ u.calls = x.calls /\ u.cfd = x.cfd
            BY <2>3, <3>3 DEF SameRest
        <3> QED BY <1>2, <2>3, <3>3, <3>4, <3>10, <3>11 DEF Handled
    <2> QED BY <2>6, <2>7
<1> QED BY <1>1, <1>2

\* Flushing first: what is sent leaves the queue.
LEMMA FlushEnds ==
  ASSUME NEW x \in PipeRecords, Len(x.in) <= 6, Len(x.out) <= 1, NEW srv \in CommandSeqs, NEW lines, NEW debt,
         NEW z, z = Talk(x, srv, lines, debt), InTouch(x, z), x.p.obuf = NoOutput,
         NEW c, NEW data, Working(x, c, z, data), NEW flush,
         NEW port \in {"connecting", "open", "nosocket", "refused"}, NEW r, r = FlushAndOpen(x, flush, port),
         NEW sent, sent = IF x.cfd = "open" /\ flush = "ok" THEN x.out ELSE <<>>,
         NEW w, w = Talk(r.s, srv \o sent, lines, debt)
  PROVE  /\ Handled(x, r, c, w, data) /\ r.s.in = x.in
         /\ ~x.p.address_ready => /\ r.err \in {"ok", "error"} /\ InOrder(r.s, c, w, data)
                                  /\ r.s.p.state = x.p.state
<1>0. /\ x.out \in Seq(Commands) /\ srv \in Seq(Commands) /\ <<>> \in CommandSeqs
      /\ srv \o <<>> = srv /\ (srv \o x.out) \o <<>> = srv \o x.out
    BY DEF PipeRecords, CommandSeqs
<1>1. CASE x.cfd = "open" /\ flush = "error" /\ x.out # <<>>
    <2>1. r = Result(x, "error") /\ sent = <<>>
        BY <1>1 DEF FlushAndOpen
    <2>2. r \in Results /\ r.s = x /\ r.err = "error"
        BY <2>1 DEF Result, Results, Outcomes
    <2>3. w = z
        BY <1>0, <2>1, <2>2
    <2> QED BY <2>2, <2>3 DEF Handled, InOrder
<1>2. CASE ~(x.cfd = "open" /\ flush = "error" /\ x.out # <<>>)
    <2> DEFINE e == [x EXCEPT !.out = <<>>]
    <2>1. /\ e \in PipeRecords /\ SameRest(x, e) /\ e.p = x.p
          /\ e.in = x.in /\ e.out = <<>> /\ e.timer = x.timer
        BY <1>0, SetOut
    <2>2. PICK y : /\ y = IF x.cfd = "open" /\ flush = "ok" THEN e ELSE x
                   /\ r = OpenData(y, port)
        BY <1>2 DEF FlushAndOpen
    <2> HIDE DEF e
    <2>3. /\ y \in PipeRecords /\ SameRest(x, y) /\ y.p = x.p /\ y.in = x.in /\ y.timer = x.timer
          /\ Len(y.out) <= 1
          /\ (srv \o sent) \o y.out = srv \o x.out
        <3>1. CASE x.cfd = "open" /\ flush = "ok"
            <4>1. y = e /\ sent = x.out
                BY <2>2, <3>1
            <4>2. y.out = <<>> /\ Len(<<>>) = 0
                BY <2>1, <4>1
            <4>3. (srv \o sent) \o y.out = (srv \o x.out) \o <<>>
                BY <4>1, <4>2
            <4>4. (srv \o sent) \o y.out = srv \o x.out
                BY <1>0, <4>3
            <4>5. Len(y.out) <= 1
                BY <4>2
            <4>6. y \in PipeRecords /\ SameRest(x, y) /\ y.p = x.p /\ y.in = x.in /\ y.timer = x.timer
                BY <2>1, <4>1
            <4> QED BY <4>4, <4>5, <4>6
        <3>2. CASE ~(x.cfd = "open" /\ flush = "ok")
            BY <1>0, <2>2, <3>2 DEF SameRest
        <3> QED BY <3>1, <3>2
    <2>4. z = Talk(y, srv \o sent, lines, debt)
        BY <2>3 DEF Talk
    <2>5. InTouch(y, z) /\ Working(y, c, z, data)
        BY <2>3, SameWork
    <2>6. Len(y.in) <= 6 /\ y.p.obuf = NoOutput
        BY <2>3
    <2>7. /\ Handled(y, r, c, w, data) /\ r.s.in = y.in
          /\ ~y.p.address_ready => r.err = "ok" /\ r.s = y
        BY <2>2, <2>3, <2>4, <2>5, <2>6, OpenDataEnds
    <2>8. Handled(x, r, c, w, data)
        BY <2>3, <2>7 DEF Handled, SameRest
    <2>9. ~x.p.address_ready => /\ r.err \in {"ok", "error"} /\ InOrder(r.s, c, w, data)
                                /\ r.s.p.state = x.p.state
        BY <2>3, <2>7 DEF Handled
    <2> QED BY <2>3, <2>7, <2>8, <2>9
<1> QED BY <1>1, <1>2

\* What notifyPollEvent_cfd has made of session x: total are the lines there
\* were. With no reply among them the command that was just sent is as it was.
Controlled(x, flush, r, c, w, total, data) ==
    /\ Handled(x, r, c, w, data)
    /\ NoReply(total) /\ ~x.p.address_ready =>
          /\ r.err \in {"ok", "error"} /\ InOrder(r.s, c, w, data)
          /\ r.s.p.state = x.p.state
    /\ Flushed(x, flush) \in CommandSeqs

\* notifyPollEvent_cfd, in a session that has lines to read and output to send.
LEMMA ControlIOEnds ==
  ASSUME NEW x \in PipeRecords, NEW rest \in LineSeqs, NEW srv \in CommandSeqs, NEW debt, NEW c, NEW data,
         NEW total, total = x.in \o rest,
         InTouch(x, Talk(x, srv, total, debt)), Working(x, c, Talk(x, srv, total, debt), data),
         NEW flush, NEW port \in {"connecting", "open", "nosocket", "refused"},
         NEW r, r = ControlIO(x, flush, port),
         NEW w, w = Talk(r.s, srv \o Flushed(x, flush), r.s.in \o rest, debt)
  PROVE  Controlled(x, flush, r, c, w, total, data)
<1>1. PICK q, v : q = ProcessLines(x) /\ v = Talk(q.s, srv, q.s.in \o rest, debt)
    OBVIOUS
<1>2. Processed(x, q, v, total, c, data)
    BY <1>1, ProcessLinesEnds
<1>3. /\ q \in Results /\ SameRest(x, q.s)
      /\ Len(q.s.in) <= Len(x.in) /\ Len(q.s.out) <= 1
      /\ q.err \in {"ok", "EALREADY", "error"}
      /\ q.err = "ok" => InTouch(q.s, v) /\ Working(q.s, c, v, data) /\ q.s.p.obuf = NoOutput
      /\ q.err = "EALREADY" => InTouch(q.s, v) /\ Answered(q.s, c, data)
      /\ NoReply(total) => /\ q.err = "ok" /\ q.s.p.state = x.p.state
                           /\ q.s.p.address_ready = x.p.address_ready
    BY <1>2 DEF Processed
<1>4. q.s \in PipeRecords
    BY <1>3 DEF Results
<1>5. Len(q.s.in) <= 6
    <2>1. Len(total) <= 6
        <3>1. PICK z : z = Talk(x, srv, total, debt)
            OBVIOUS
        <3>2. z.lines = total /\ Sound(z) /\ InStep(z) /\ Honest(z.lines)
            BY <3>1 DEF Talk, InTouch
        <3> QED BY <3>2, SixLines
    <2>2. x.in \in LineSeqs
        BY DEF PipeRecords
    <2>3. Len(x.in) \in 0..Len(total) /\ total \in LineSeqs
        BY <2>2, LinesThere
    <2>4. Len(total) \in Nat /\ Len(q.s.in) \in Nat
        BY <1>4, <2>3 DEF LineSeqs, PipeRecords
    <2> QED BY <1>3, <2>1, <2>3, <2>4
<1>8. Flushed(x, flush) \in CommandSeqs
    <2>1. q.s.out \in CommandSeqs /\ <<>> \in CommandSeqs
        BY <1>4 DEF PipeRecords, CommandSeqs
    <2> QED BY <1>1, <2>1 DEF Flushed
<1>6. CASE q.err # "ok"
    <2>1. r = q /\ Flushed(x, flush) = <<>>
        BY <1>1, <1>6 DEF ControlIO, Flushed
    <2>2. srv \o <<>> = srv
        BY DEF CommandSeqs
    <2>3. w = v
        BY <1>1, <2>1, <2>2
    <2>4. q.s.calls = x.calls /\ q.s.cfd = x.cfd
        BY <1>3 DEF SameRest
    <2> QED BY <1>3, <1>5, <1>6, <1>8, <2>1, <2>3, <2>4 DEF Handled, Controlled
<1>7. CASE q.err = "ok"
    <2>1. r = FlushAndOpen(q.s, flush, port)
        BY <1>1, <1>7 DEF ControlIO
    <2>2. PICK sent : /\ sent = Flushed(x, flush)
                      /\ sent = IF q.s.cfd = "open" /\ flush = "ok" THEN q.s.out ELSE <<>>
        BY <1>1, <1>7 DEF Flushed
    <2>3. PICK u : u = Talk(r.s, srv \o sent, q.s.in \o rest, debt)
        OBVIOUS
    <2>4. /\ Handled(q.s, r, c, u, data) /\ r.s.in = q.s.in
          /\ ~q.s.p.address_ready => /\ r.err \in {"ok", "error"} /\ InOrder(r.s, c, u, data)
                                     /\ r.s.p.state = q.s.p.state
        <3>1. InTouch(q.s, v) /\ Working(q.s, c, v, data) /\ q.s.p.obuf = NoOutput
            BY <1>3, <1>7
        <3> QED BY <1>1, <1>3, <1>4, <1>5, <2>1, <2>2, <2>3, <3>1, FlushEnds
    <2>5. u = w
        BY <2>2, <2>3, <2>4
    <2>6. Handled(x, r, c, w, data)
        BY <1>3, <2>4, <2>5 DEF Handled, SameRest
    <2> QED BY <1>3, <1>8, <2>4, <2>5, <2>6 DEF Controlled
<1> QED BY <1>6, <1>7

------------------------------------------------------------------------------
(***************************************************************************)
(* The end of notifyPollEvent: the application is told, or not yet.        *)
(***************************************************************************)
\* A session in order, or one whose failure is being reported.
LEMMA AtRest ==
  ASSUME NEW y \in PipeRecords, y = s', Len(y.in) <= 6, Len(y.out) <= 1,
         y.calls = IF report' = "none" THEN 0 ELSE 1, y.cfd # "none",
         cmd' \in {"none", "login", "TYPE", "get"}, report' \in {"none", "ok", "bad", "xerr"},
         ~dead', dead' \in BOOLEAN, Wires',
         aborted' = FALSE \/ (aborted' = TRUE /\ Stranded(y) /\ cmd' = "none"),
         report' \in {"bad", "xerr"} => cmd' = "none",
         NEW w, w = Talk(y, toServer', y.in \o toClient', owed'),
         report' \in {"none", "ok"} => InOrder(y, cmd', w, xfer')
  PROVE  PipeInv'
<1>1. View' = w
    BY DEF View, Talk
<1>2. Typed'
    BY DEF Typed
<1>3. Known'
    BY DEF Known, Stranded
<1>4. Alive' => Fit'
    BY <1>1 DEF Alive, Fit, InOrder, InTouch, Working, NoTransfer, AllQuiet, Rests, Stranded, Receiving, DataPart,
               NotAsked, AwaitsPort, HasPort, AwaitsEnd, AwaitsData, LoggingIn
<1> QED BY <1>2, <1>3, <1>4 DEF PipeInv

\* CloseFailed closes the data connection of a command that failed.
LEMMA CloseFailedFields ==
  ASSUME NEW x \in PipeRecords, NEW y, y = CloseFailed(x)
  PROVE  /\ y \in PipeRecords /\ y.p = x.p /\ y.in = x.in /\ y.out = x.out
         /\ y.calls = x.calls /\ y.cfd = x.cfd
         /\ IF getStatus(x.p) # 0 /\ ~Success(getStatus(x.p)) THEN y.dfd = "none" ELSE y = x
<1>1. "none" \in Sockets
    BY DEF Sockets
<1>2. CASE getStatus(x.p) # 0 /\ ~Success(getStatus(x.p))
    <2>1. y = [x EXCEPT !.dfd = "none"]
        BY <1>2 DEF CloseFailed, closeData
    <2> QED BY <1>1, <1>2, <2>1 DEF PipeRecords
<1>3. CASE ~(getStatus(x.p) # 0 /\ ~Success(getStatus(x.p)))
    BY <1>3 DEF CloseFailed
<1> QED BY <1>2, <1>3

\* The depth of calls is counted.
LEMMA SetCalls ==
  ASSUME NEW x \in PipeRecords, NEW n \in Depths, NEW y, y = [x EXCEPT !.calls = n]
  PROVE  /\ y \in PipeRecords /\ y.calls = n /\ y.p = x.p /\ y.in = x.in /\ y.out = x.out
         /\ y.timer = x.timer /\ y.state = x.state /\ y.cfd = x.cfd /\ y.dfd = x.dfd
         /\ y.events = x.events /\ y.later = x.later /\ y.gotData = x.gotData
BY DEF PipeRecords

\* It is nothing to the conversation and the command.
LEMMA SameOrder ==
  ASSUME NEW x, NEW y, y.p = x.p, y.timer = x.timer, y.state = x.state, y.dfd = x.dfd,
         y.events = x.events, y.later = x.later, NEW z, NEW c, NEW data
  PROVE  InOrder(x, c, z, data) => InOrder(y, c, z, data)
<1>1. /\ Receiving(x, data) => Receiving(y, data)
      /\ NoTransfer(x) => NoTransfer(y)
      /\ Rests(x) => Rests(y)
      /\ AllQuiet(x) => AllQuiet(y)
    BY DEF Receiving, NoTransfer, AllQuiet, Rests, Stranded
<1>2. DataPart(x, data) => DataPart(y, data)
    BY <1>1 DEF DataPart
<1>3. /\ AwaitsPort(x, z, data) => AwaitsPort(y, z, data)
      /\ HasPort(x, z, data) => HasPort(y, z, data)
    BY DEF AwaitsPort, HasPort
<1>4. /\ AwaitsEnd(x, z, data) => AwaitsEnd(y, z, data)
      /\ AwaitsData(x, data) => AwaitsData(y, data)
      /\ LoggingIn(x) => LoggingIn(y)
    BY <1>1, <1>2 DEF AwaitsEnd, AwaitsData, LoggingIn
<1>5. Working(x, c, z, data) => Working(y, c, z, data)
    BY <1>1, <1>3, <1>4 DEF Working
<1>6. InTouch(x, z) => InTouch(y, z)
    BY DEF InTouch
<1> QED BY <1>5, <1>6 DEF InOrder

\* What a verdict says: there was a command, and a get that is reported
\* successful has its data.
Truthful(c) ==
    /\ report' \in {"ok", "bad"} => c # "none"
    /\ c = "get" /\ report' = "ok" =>
          /\ owed' = <<>>
          /\ \/ xfer' = "closed" /\ s'.p.status = 226
             \/ Stranded(s') /\ xfer' = "none" /\ s'.p.status = 200

\* An answer that is complete is reported; one whose data are still to come is not.
LEMMA AnswerReported ==
  ASSUME NEW y \in PipeRecords, NEW c, NEW z, NEW data, InTouch(y, z), Answered(y, c, data),
         y.dfd = "none", Success(y.p.status)
  PROVE  /\ InOrder(y, "none", z, data)
         /\ c = "get" => \/ data = "closed" /\ y.p.status = 226
                         \/ Stranded(y) /\ data = "none" /\ y.p.status = 200
<1>1. y.p.state = "IDLE" /\ y.p.obuf = NoOutput /\ ~y.p.address_ready
    BY DEF Answered
<1>2. /\ Rests(y)
      /\ c = "get" => \/ data = "closed" /\ y.p.status = 226
                      \/ Stranded(y) /\ data = "none" /\ y.p.status = 200
    BY DEF Answered, DataPart, Receiving, Rests
<1> QED BY <1>1, <1>2 DEF InOrder, Working

\* While no call of the application runs.
LEMMA NotifyEnds ==
  ASSUME NEW x, NEW r, NEW c \in {"none", "login", "TYPE", "get"}, NEW w, NEW data,
         Handled(x, r, c, w, data), x.calls = 0, x.cfd # "none",
         w = Talk(r.s, toServer', r.s.in \o toClient', owed'), xfer' = data,
         report = "none", dead = FALSE, Wires', Notify(r, c)
  PROVE  PipeInv' /\ Truthful(c)
<1>1. /\ r \in Results /\ Len(r.s.in) <= 6 /\ Len(r.s.out) <= 1
      /\ r.s.calls = 0 /\ r.s.cfd # "none"
      /\ r.err \in {"ok", "EALREADY", "error"}
      /\ r.err = "ok" => InOrder(r.s, c, w, data)
      /\ r.err = "EALREADY" =>
            /\ InTouch(r.s, w)
            /\ Answered(r.s, c, data) \/ (getStatus(r.s.p) = 0 /\ InOrder(r.s, c, w, data))
    BY DEF Handled
<1>2. PICK u : u = CloseFailed(r.s)
    OBVIOUS
<1>3. r.s \in PipeRecords
    BY <1>1 DEF Results
<1>4. /\ u \in PipeRecords /\ u.p = r.s.p /\ u.in = r.s.in /\ u.out = r.s.out
      /\ u.calls = 0 /\ u.cfd # "none"
      /\ IF getStatus(r.s.p) # 0 /\ ~Success(getStatus(r.s.p)) THEN u.dfd = "none" ELSE u = r.s
    BY <1>1, <1>2, <1>3, CloseFailedFields
<1>5. /\ aborted' = FALSE /\ ~dead' /\ dead' \in BOOLEAN
    <2>1. r.err # "assert"
        BY <1>1
    <2> QED BY <2>1, Zenon DEF Notify
<1>6. \/ /\ r.err \in {"error", "EALREADY"} /\ Finished(u, r.err)
         /\ CallFtpCmdDone(u, Outcome(r.s, r.err), c)
      \/ /\ ~(r.err \in {"error", "EALREADY"} /\ Finished(u, r.err))
         /\ s' = IF r.err = "EALREADY" THEN u ELSE r.s
         /\ report' = "none" /\ cmd' = c
    BY <1>2 DEF Notify
<1>7. CASE r.err \in {"error", "EALREADY"} /\ Finished(u, r.err)
    <2>1. s' = [u EXCEPT !.calls = 1] /\ report' = Outcome(r.s, r.err) /\ cmd' = "none"
        BY <1>4, <1>6, <1>7 DEF CallFtpCmdDone
    <2>2. PICK y : y = s' /\ y = [u EXCEPT !.calls = 1]
        BY <2>1
    <2>3. /\ y \in PipeRecords /\ y.calls = 1 /\ y.p = u.p /\ y.in = u.in /\ y.out = u.out
          /\ y.timer = u.timer /\ y.state = u.state /\ y.cfd = u.cfd /\ y.dfd = u.dfd
          /\ y.events = u.events /\ y.later = u.later
        <3>1. 1 \in Depths
            BY DEF Depths
        <3> QED BY <1>4, <2>2, <3>1, SetCalls
    <2>4. CASE r.err = "error"
        <3>1. report' = "xerr"
            BY <2>1, <2>4 DEF Outcome
        <3>2. PICK v : v = Talk(y, toServer', y.in \o toClient', owed')
            OBVIOUS
        <3>3. PipeInv'
            BY <1>1, <1>4, <1>5, <2>1, <2>2, <2>3, <3>1, <3>2, AtRest
        <3> QED BY <3>1, <3>3 DEF Truthful
    <2>5. CASE r.err = "EALREADY" /\ Success(getStatus(r.s.p))
        <3>0. getStatus(r.s.p) # 0 /\ u.dfd = "none"
            BY <1>7, <2>5, <1>4 DEF Finished, Success
        <3>1. u = r.s /\ InTouch(r.s, w) /\ Answered(r.s, c, data) /\ report' = "ok"
            BY <1>1, <1>4, <2>1, <2>5, <3>0 DEF Outcome
        <3>2. Success(r.s.p.status)
            BY <2>5, <3>0 DEF getStatus
        <3>3. /\ InOrder(r.s, "none", w, data)
              /\ c = "get" => \/ data = "closed" /\ r.s.p.status = 226
                              \/ Stranded(r.s) /\ data = "none" /\ r.s.p.status = 200
            BY <1>3, <3>0, <3>1, <3>2, AnswerReported
        <3>4. InOrder(y, "none", w, data)
            BY <2>3, <3>1, <3>3, SameOrder
        <3>5. w = Talk(y, toServer', y.in \o toClient', owed')
            BY <2>3, <3>1 DEF Talk
        <3>6. PipeInv'
            BY <1>1, <1>4, <1>5, <2>1, <2>2, <2>3, <3>1, <3>4, <3>5, AtRest
        <3>7. c # "none"
            BY <3>1 DEF Answered
        <3>8. owed' = <<>>
            <4>1. w.p.state = "IDLE" /\ w.owed = owed' /\ InStep(w)
                BY <3>1, <3>2 DEF Answered, Talk, InTouch
            <4>2. Quiet(w)
                BY <4>1 DEF InStep, Agreement
            <4> QED BY <4>1, <4>2 DEF Quiet, Nothing, Under
        <3>9. Stranded(r.s) => Stranded(y)
            BY <2>3, <3>1 DEF Stranded
        <3> QED BY <2>2, <2>3, <3>1, <3>3, <3>6, <3>7, <3>8, <3>9 DEF Truthful
    <2>6. CASE r.err = "EALREADY" /\ ~Success(getStatus(r.s.p))
        <3>1. report' = "bad"
            BY <2>1, <2>6 DEF Outcome
        <3>2. PICK v : v = Talk(y, toServer', y.in \o toClient', owed')
            OBVIOUS
        <3>3. PipeInv'
            BY <1>1, <1>4, <1>5, <2>1, <2>2, <2>3, <3>1, <3>2, AtRest
        <3>4. getStatus(r.s.p) # 0
            BY <1>4, <1>7, <2>6 DEF Finished
        <3>5. c # "none"
            BY <1>1, <2>6, <3>4 DEF Answered
        <3> QED BY <3>1, <3>3, <3>5 DEF Truthful
    <2> QED BY <1>7, <2>4, <2>5, <2>6
<1>8. CASE ~(r.err \in {"error", "EALREADY"} /\ Finished(u, r.err))
    <2>1. s' = (IF r.err = "EALREADY" THEN u ELSE r.s) /\ report' = "none" /\ cmd' = c
        BY <1>6, <1>8
    <2>2. r.err # "error"
        BY <1>8 DEF Finished
    <2>3. s' = r.s /\ InOrder(r.s, c, w, data)
        <3>1. CASE r.err = "ok"
            BY <1>1, <2>1, <3>1
        <3>2. CASE r.err = "EALREADY" /\ getStatus(r.s.p) = 0
            <4>1. ~Answered(r.s, c, data)
                BY <3>2 DEF Answered, getStatus
            <4> QED BY <1>1, <1>4, <2>1, <3>2, <4>1
        <3>3. CASE r.err = "EALREADY" /\ getStatus(r.s.p) # 0
            <4>1. u.dfd # "none"
                BY <1>4, <1>8, <3>3 DEF Finished
            <4>2. u = r.s /\ Success(getStatus(r.s.p)) /\ InTouch(r.s, w) /\ Answered(r.s, c, data)
                BY <1>1, <1>4, <3>3, <4>1
            <4>3. Success(r.s.p.status) /\ r.s.p.state = "IDLE"
                BY <4>2 DEF getStatus, Answered, Success
            <4>4. c = "get" /\ r.s.p.status = 226 /\ DataPart(r.s, data)
                BY <4>1, <4>2, <4>3 DEF Answered, AllQuiet, NoTransfer, Rests, Stranded
            <4>5. Receiving(r.s, data)
                BY <4>1, <4>2, <4>4 DEF DataPart, AllQuiet, NoTransfer
            <4>6. AwaitsData(r.s, data)
                BY <4>2, <4>3, <4>4, <4>5 DEF AwaitsData, Answered
            <4>7. InOrder(r.s, c, w, data)
                BY <4>2, <4>4, <4>6 DEF InOrder, Answered, Working
            <4> QED BY <2>1, <3>3, <4>2, <4>7
        <3> QED BY <1>1, <2>2, <3>1, <3>2, <3>3
    <2>4. PipeInv'
        BY <1>1, <1>3, <1>5, <2>1, <2>3, AtRest
    <2> QED BY <2>1, <2>4 DEF Truthful
<1> QED BY <1>7, <1>8

\* While the application is being told of the end of another command, nothing
\* more is reported.
LEMMA NotifyInCallback ==
  ASSUME NEW r \in Results, NEW c \in {"none", "login", "TYPE", "get"}, NEW w,
         Len(r.s.in) <= 6, Len(r.s.out) <= 1, r.s.calls = 1, r.s.cfd # "none",
         r.err \in {"ok", "error"}, getStatus(r.s.p) = 0, InOrder(r.s, c, w, xfer'),
         w = Talk(r.s, toServer', r.s.in \o toClient', owed'),
         report = "ok", dead = FALSE, Wires', Notify(r, c)
  PROVE  PipeInv' /\ report' = "ok"
<1>1. r.s \in PipeRecords /\ CloseFailed(r.s) = r.s
    BY DEF Results, CloseFailed
<1>2. s' = r.s /\ report' = "ok" /\ cmd' = c
    BY <1>1 DEF Notify, CallFtpCmdDone
<1>3. aborted' = FALSE /\ ~dead' /\ dead' \in BOOLEAN
    <2>1. r.err # "assert"
        OBVIOUS
    <2> QED BY <2>1, Zenon DEF Notify
<1> QED BY <1>1, <1>2, <1>3, AtRest

\* An event of the control connection, or a command sent in the callback of
\* the one before.
LEMMA ControlStepEnds ==
  ASSUME NEW srv \in CommandSeqs, NEW x \in PipeRecords, x.cfd # "none",
         toClient' \in LineSeqs, owed' \in Debts, broken' \in BOOLEAN, xfer' \in Datas,
         NEW total, total = x.in \o toClient',
         NEW z, z = Talk(x, srv, total, owed'), InTouch(x, z),
         NEW c \in {"none", "login", "TYPE", "get"}, Working(x, c, z, xfer'),
         NEW flush, NEW port \in {"connecting", "open", "nosocket", "refused"},
         dead = FALSE,
         \/ report = "none" /\ x.calls = 0
         \/ /\ report = "ok" /\ x.calls = 1 /\ NoReply(total)
            /\ x.p.state \in {"TYPE", "PASV"} /\ ~x.p.address_ready,
         Notify(ControlIO(x, flush, port), c),
         toServer' = srv \o Flushed(x, flush) \/ (srv = <<>> /\ toServer' = Flushed(x, flush))
  PROVE  /\ PipeInv'
         /\ report = "none" => Truthful(c)
         /\ report = "ok" => report' = "ok"
<1>1. PICK r, w, v : /\ r = ControlIO(x, flush, port)
                     /\ w = Talk(r.s, toServer', r.s.in \o toClient', owed')
                     /\ v = Talk(r.s, srv \o Flushed(x, flush), r.s.in \o toClient', owed')
    OBVIOUS
<1>2. Controlled(x, flush, r, c, v, total, xfer')
    <2>1. InTouch(x, Talk(x, srv, total, owed')) /\ Working(x, c, Talk(x, srv, total, owed'), xfer')
        OBVIOUS
    <2>2. PICK rest, debt, data : rest = toClient' /\ debt = owed' /\ data = xfer'
        OBVIOUS
    <2>3. /\ rest \in LineSeqs /\ total = x.in \o rest
          /\ InTouch(x, Talk(x, srv, total, debt)) /\ Working(x, c, Talk(x, srv, total, debt), data)
          /\ v = Talk(r.s, srv \o Flushed(x, flush), r.s.in \o rest, debt)
        BY <1>1, <2>1, <2>2
    <2>4. Controlled(x, flush, r, c, v, total, data)
        BY <1>1, <2>3, ControlIOEnds
    <2> QED BY <2>2, <2>4
<1>6. toServer' = srv \o Flushed(x, flush) /\ toServer' \in CommandSeqs
    <2>1. \A a, b \in CommandSeqs : a \o b \in CommandSeqs /\ <<>> \o a = a
        BY DEF CommandSeqs
    <2> QED BY <1>2, <2>1 DEF Controlled
<1>7. w = v /\ Wires'
    BY <1>1, <1>6 DEF Wires
<1>3. /\ Handled(x, r, c, w, xfer')
      /\ NoReply(total) /\ ~x.p.address_ready =>
            /\ r.err \in {"ok", "error"} /\ InOrder(r.s, c, w, xfer')
            /\ r.s.p.state = x.p.state
    BY <1>2, <1>7 DEF Controlled
<1>4. CASE report = "none" /\ x.calls = 0
    <2>1. Notify(r, c)
        BY <1>1
    <2> QED BY <1>1, <1>3, <1>4, <1>7, <2>1, NotifyEnds
<1>5. CASE /\ report = "ok" /\ x.calls = 1 /\ NoReply(total)
           /\ x.p.state \in {"TYPE", "PASV"} /\ ~x.p.address_ready
    <2>1. Notify(r, c)
        BY <1>1
    <2>2. /\ r.err \in {"ok", "error"} /\ InOrder(r.s, c, w, xfer') /\ r.s.p.state \in {"TYPE", "PASV"}
        BY <1>3, <1>5
    <2>3. getStatus(r.s.p) = 0
        BY <2>2 DEF getStatus
    <2>4. /\ r \in Results /\ Len(r.s.in) <= 6 /\ Len(r.s.out) <= 1
          /\ r.s.calls = 1 /\ r.s.cfd # "none"
        BY <1>3, <1>5 DEF Handled
    <2> QED BY <1>1, <1>5, <1>7, <2>1, <2>2, <2>3, <2>4, NotifyInCallback
<1> QED BY <1>4, <1>5

------------------------------------------------------------------------------
(***************************************************************************)
(* Events of the control connection.                                       *)
(***************************************************************************)
\* The benchmark ends a session after a failure, and starts no new one inside
\* ftpCmdDone.
GivesUp == CarriesOn = FALSE /\ RestartInCallback = FALSE

\* The invariant, in a session that may be called.
LEMMA FreeFacts ==
  ASSUME PipeInv, Free, s.cfd # "none"
  PROVE  /\ report = "none" /\ dead = FALSE /\ s.calls = 0
         /\ InOrder(s, cmd, View, xfer)
         /\ s \in PipeRecords /\ Len(s.in) <= 6 /\ Len(s.out) <= 1
         /\ cmd \in {"none", "login", "TYPE", "get"} /\ Wires
<1>1. Typed /\ Known /\ (Alive => Fit)
    BY DEF PipeInv
<1>2. report = "none" /\ dead = FALSE
    BY <1>1 DEF Free, InCallback, Typed
<1>3. Fit
    BY <1>1, <1>2 DEF Alive
<1> QED BY <1>1, <1>2, <1>3 DEF Typed, Known, Fit

\* Nothing of the network changes.
LEMMA WiresStay ==
  ASSUME Wires, UNCHANGED netVars
  PROVE  Wires'
BY DEF Wires, netVars

\* ControlBreaks.
LEMMA ControlBreaksInv ==
  ASSUME PipeInv, ControlBreaks
  PROVE  PipeInv' /\ Truthful(cmd)
<1>1. Free /\ s.cfd # "none" /\ Notify(Result(s, "error"), cmd) /\ UNCHANGED netVars
    BY DEF ControlBreaks
<1>2. /\ report = "none" /\ dead = FALSE /\ s.calls = 0
      /\ s \in PipeRecords /\ Len(s.in) <= 6 /\ Len(s.out) <= 1
      /\ cmd \in {"none", "login", "TYPE", "get"} /\ Wires
    BY <1>1, FreeFacts
<1>3. PICK r, w : r = Result(s, "error") /\ w = Talk(r.s, toServer', r.s.in \o toClient', owed')
    OBVIOUS
<1>4. r \in Results /\ r.s = s /\ r.err = "error"
    BY <1>2, <1>3 DEF Result, Results, Outcomes
<1>5. Handled(s, r, cmd, w, xfer')
    BY <1>2, <1>4 DEF Handled
<1>6. Wires' /\ Notify(r, cmd)
    BY <1>1, <1>2, <1>3, WiresStay
<1> QED BY <1>1, <1>2, <1>3, <1>5, <1>6, NotifyEnds

\* ControlConnects.
LEMMA ControlConnectsInv ==
  ASSUME PipeInv, NEW flush, ControlConnects(flush)
  PROVE  PipeInv' /\ Truthful(cmd)
<1>1. /\ Free /\ s.cfd = "connecting"
      /\ toClient' = toClient /\ owed' = owed /\ broken' = broken /\ xfer' = xfer
    BY DEF ControlConnects
<1>2. /\ report = "none" /\ dead = FALSE /\ s.calls = 0
      /\ InOrder(s, cmd, View, xfer)
      /\ s \in PipeRecords
      /\ cmd \in {"none", "login", "TYPE", "get"} /\ Wires
    BY <1>1, FreeFacts
<1>3. PICK x : x = [s EXCEPT !.cfd = "open"]
    OBVIOUS
<1>4. Notify(ControlIO(x, flush, "connecting"), cmd) /\ toServer' = toServer \o Flushed(x, flush)
    BY <1>3 DEF ControlConnects, ControlStep
<1>5. "open" \in Sockets
    BY DEF Sockets
<1>6. /\ x \in PipeRecords /\ x.cfd = "open" /\ x.calls = 0 /\ x.in = s.in /\ x.out = s.out
      /\ x.p = s.p /\ x.timer = s.timer /\ x.state = s.state /\ x.dfd = s.dfd
      /\ x.events = s.events /\ x.later = s.later
    BY <1>2, <1>3, <1>5 DEF PipeRecords
<1>7. PICK z, total : z = View /\ total = x.in \o toClient'
    OBVIOUS
<1>8. z = Talk(x, toServer, total, owed')
    BY <1>1, <1>6, <1>7 DEF View, Talk
<1>9. InOrder(x, cmd, z, xfer)
    BY <1>2, <1>6, <1>7, SameOrder
<1>10. InTouch(x, z) /\ Working(x, cmd, z, xfer')
    BY <1>1, <1>9 DEF InOrder
<1>11. /\ toServer \in CommandSeqs /\ toClient' \in LineSeqs /\ owed' \in Debts
       /\ broken' \in BOOLEAN /\ xfer' \in Datas /\ x.cfd # "none"
    BY <1>1, <1>2, <1>6 DEF Wires
<1> QED BY <1>2, <1>4, <1>6, <1>7, <1>8, <1>10, <1>11, ControlStepEnds

\* Lines that are read come behind those that were left.
LEMMA LinesSplit ==
  ASSUME NEW a \in LineSeqs, NEW b \in LineSeqs, NEW n \in 0..Len(b)
  PROVE  LET q == SubSeq(b, 1, n)  r == SubSeq(b, n + 1, Len(b))
         IN  q \in LineSeqs /\ r \in LineSeqs /\ a \o q \in LineSeqs /\ (a \o q) \o r = a \o b
<1> DEFINE q == SubSeq(b, 1, n)
           r == SubSeq(b, n + 1, Len(b))
<1> USE DEF LineSeqs
<1>1. q \in Seq(Lines) /\ r \in Seq(Lines)
    <2>1. \A j, k \in Int : (\A m \in j..k : b[m] \in Lines) => SubSeq(b, j, k) \in Seq(Lines)
        BY SubSeqProperties
    <2>2. Len(b) \in Nat /\ \A m \in 1..Len(b) : b[m] \in Lines
        OBVIOUS
    <2> QED BY <2>1, <2>2
<1>2. Len(q) = n /\ Len(r) = Len(b) - n
    BY SubSeqProperties
<1>3. q \o r = b
    <2>1. \A m \in 1..n : q[m] = b[m]
        BY SubSeqProperties
    <2>2. \A m \in 1..(Len(b) - n) : r[m] = b[n + m]
        BY SubSeqProperties
    <2> HIDE DEF q, r
    <2>3. Len(q \o r) = Len(b) /\ \A m \in 1..Len(b) : (q \o r)[m] = b[m]
        BY <1>1, <1>2, <2>1, <2>2
    <2>4. q \o r \in Seq(Lines)
        BY <1>1
    <2>5. ASSUME NEW d \in Seq(Lines), NEW e \in Seq(Lines), Len(d) = Len(e),
                 \A m \in 1..Len(e) : d[m] = e[m]
          PROVE  d = e
        BY <2>5, SeqEqual
    <2> QED BY <2>3, <2>4, <2>5
<1> HIDE DEF q, r
<1>4. a \o q \in Seq(Lines) /\ (a \o q) \o r = a \o (q \o r)
    <2>1. ASSUME NEW d \in Seq(Lines), NEW e \in Seq(Lines), NEW f \in Seq(Lines)
          PROVE  (d \o e) \o f = d \o (e \o f) /\ d \o e \in Seq(Lines)
        BY SMT
    <2> QED BY <1>1, <2>1
<1> QED BY <1>1, <1>3, <1>4 DEF q, r

\* ControlReady.
LEMMA ControlReadyInv ==
  ASSUME PipeInv, NEW flush, NEW port \in PortOutcomes, NEW n \in 0..Len(toClient),
         ControlReady(n, flush, port)
  PROVE  PipeInv' /\ Truthful(cmd)
<1>1. /\ Free /\ s.cfd = "open" /\ toClient' = SubSeq(toClient, n + 1, Len(toClient))
      /\ owed' = owed /\ broken' = broken /\ xfer' = xfer
    BY DEF ControlReady
<1>2. /\ report = "none" /\ dead = FALSE /\ s.calls = 0
      /\ InOrder(s, cmd, View, xfer)
      /\ s \in PipeRecords
      /\ cmd \in {"none", "login", "TYPE", "get"} /\ Wires
    BY <1>1, FreeFacts
<1>3. PICK x, lines : /\ lines = s.in \o SubSeq(toClient, 1, n)
                      /\ x = [s EXCEPT !.in = lines]
    OBVIOUS
<1>4. Notify(ControlIO(x, flush, port), cmd) /\ toServer' = toServer \o Flushed(x, flush)
    <2>1. x = [s EXCEPT !.in = @ \o SubSeq(toClient, 1, n)]
        BY <1>2, <1>3 DEF PipeRecords
    <2> QED BY <2>1 DEF ControlReady, ControlStep
<1>5. /\ toClient \in LineSeqs /\ s.in \in LineSeqs
    BY <1>2 DEF Wires, PipeRecords
<1>6. /\ toClient' \in LineSeqs /\ lines \in LineSeqs /\ lines \o toClient' = s.in \o toClient
    BY <1>1, <1>3, <1>5, LinesSplit
<1>7. /\ x \in PipeRecords /\ SameRest(s, x) /\ x.p = s.p /\ x.in = lines /\ x.out = s.out
      /\ x.timer = s.timer
    <2>1. s \in PipeRecords /\ lines \in LineSeqs /\ x = [s EXCEPT !.in = lines]
        BY <1>2, <1>3, <1>6
    <2> QED BY <2>1 DEF PipeRecords, SameRest
<1>8. PICK z, total : z = View /\ total = x.in \o toClient'
    OBVIOUS
<1>9. z = Talk(x, toServer, total, owed')
    BY <1>1, <1>6, <1>7, <1>8 DEF View, Talk
<1>10. InTouch(s, z) /\ Working(s, cmd, z, xfer)
    BY <1>2, <1>8 DEF InOrder
<1>11. InTouch(x, z) /\ Working(x, cmd, z, xfer')
    BY <1>1, <1>7, <1>10, SameWork
<1>12. /\ toServer \in CommandSeqs /\ toClient' \in LineSeqs /\ owed' \in Debts
       /\ broken' \in BOOLEAN /\ xfer' \in Datas /\ x.cfd # "none" /\ x.calls = 0
    BY <1>1, <1>2, <1>6, <1>7 DEF Wires, SameRest
<1>13. port \in {"connecting", "open", "nosocket", "refused"}
    BY DEF PortOutcomes
<1> QED BY <1>2, <1>4, <1>7, <1>8, <1>9, <1>11, <1>12, <1>13, ControlStepEnds

------------------------------------------------------------------------------
(***************************************************************************)
(* Calls of the application, and the scheduler's timeout.                  *)
(***************************************************************************)
\* NewPipe has no connection.
LEMMA NewPipeFields ==
  /\ NewPipe \in PipeRecords /\ NewPipe.in = <<>> /\ NewPipe.out = <<>> /\ NewPipe.calls = 0
  /\ NewPipe.cfd = "none" /\ AllQuiet(NewPipe) /\ NewPipe.p = NewProto /\ NewPipe.events = "none"
<1>1. NewProto \in ProtoRecords
    BY DEF NewProto, ProtoRecords, States, ReturnStacks, Flags, Outputs, Statuses
<1>2. /\ "IDLE" \in PipeStates /\ "none" \in Sockets /\ <<>> \in LineSeqs /\ <<>> \in CommandSeqs
      /\ "none" \in Timers /\ "none" \in Events /\ FALSE \in Flags /\ 0 \in Depths
    BY DEF PipeStates, Sockets, LineSeqs, CommandSeqs, Timers, Events, Flags, Depths
<1>3. NewPipe \in PipeRecords
    BY <1>1, <1>2 DEF NewPipe, PipeRecords
<1> QED BY <1>3 DEF NewPipe, AllQuiet, NoTransfer

\* A session without a connection, dead or never alive.
LEMMA NoConnection ==
  ASSUME s' \in PipeRecords, Len((s').in) <= 6, Len((s').out) <= 1, AllQuiet(s'), (s').cfd = "none",
         cmd' = "none", report' \in {"none", "xerr"}, (s').calls = IF report' = "none" THEN 0 ELSE 1,
         dead' = FALSE, aborted' = FALSE, Wires'
  PROVE  PipeInv'
<1>1. Typed'
    BY DEF Typed
<1>2. Known'
    BY DEF Known, AllQuiet, NoTransfer
<1>3. ~Alive'
    BY DEF Alive
<1> QED BY <1>1, <1>2, <1>3 DEF PipeInv

\* Initially.
LEMMA InitInv ==
  ASSUME Init
  PROVE  PipeInv
<1>1. /\ s \in PipeRecords /\ s.in = <<>> /\ s.out = <<>> /\ s.calls = 0
      /\ s.cfd = "none" /\ AllQuiet(s)
    BY NewPipeFields DEF Init
<1>2. Len(<<>>) = 0 /\ <<>> \in CommandSeqs /\ <<>> \in LineSeqs /\ <<>> \in Debts
    BY DEF CommandSeqs, LineSeqs, Debts
<1>3. Typed
    <2>1. Wires
        BY <1>2 DEF Wires, Init, Datas
    <2>2. Len(s.in) <= 6 /\ Len(s.out) <= 1
        BY <1>1, <1>2
    <2> QED BY <1>1, <2>1, <2>2 DEF Typed, Init
<1>4. Known
    BY <1>1 DEF Known, Init
<1>5. ~Alive
    BY <1>1 DEF Alive
<1> QED BY <1>3, <1>4, <1>5 DEF PipeInv

\* ConnectFails.
LEMMA ConnectFailsInv ==
  ASSUME PipeInv, ConnectFails
  PROVE  PipeInv'
<1>1. /\ Typed /\ Known /\ s.cfd = "none" /\ report = "none" /\ ~dead /\ cmd = "none"
      /\ s' = [NewPipe EXCEPT !.timer = s.timer]
      /\ ~aborted /\ UNCHANGED <<appVars, netVars>>
    BY DEF PipeInv, ConnectFails, InCallback
<1>2. s.timer = "none" /\ dead = FALSE /\ aborted = FALSE /\ Wires
    BY <1>1 DEF Known, AllQuiet, Typed
<1>3. PICK y : y = s' /\ y = [NewPipe EXCEPT !.timer = "none"]
    BY <1>1, <1>2
<1>4. /\ y \in PipeRecords /\ y.in = <<>> /\ y.out = <<>> /\ y.calls = 0
      /\ y.cfd = "none" /\ AllQuiet(y) /\ Len(<<>>) = 0
    <2>1. "none" \in Timers
        BY DEF Timers
    <2> QED BY <1>3, <2>1, NewPipeFields DEF PipeRecords, AllQuiet, NoTransfer
<1>5. /\ cmd' = "none" /\ report' = "none" /\ dead' = FALSE /\ aborted' = FALSE /\ UNCHANGED netVars
    BY <1>1, <1>2 DEF appVars
<1>6. Wires'
    BY <1>2, <1>5, WiresStay
<1>7. Len(y.in) <= 6 /\ Len(y.out) <= 1
    BY <1>4
<1> QED BY <1>3, <1>4, <1>5, <1>6, <1>7, NoConnection

\* shutdown() closes everything.
LEMMA ShutdownFields ==
  ASSUME NEW x \in PipeRecords, NEW y, y = shutdown(x), x.cfd # "none" \/ AllQuiet(x)
  PROVE  /\ y \in PipeRecords /\ y.in = x.in /\ y.out = x.out /\ y.calls = x.calls
         /\ y.cfd = "none" /\ AllQuiet(y)
<1>1. CASE x.cfd = "none"
    <2>1. y = x
        BY <1>1 DEF shutdown, AllQuiet, NoTransfer
    <2> QED BY <1>1, <2>1
<1>2. CASE x.cfd # "none"
    <2>1. y = [x EXCEPT !.timer = "none", !.state = "IDLE", !.cfd = "none", !.dfd = "none"]
        BY <1>2 DEF shutdown
    <2>2. "none" \in Timers /\ "IDLE" \in PipeStates /\ "none" \in Sockets
        BY DEF Timers, PipeStates, Sockets
    <2> QED BY <2>1, <2>2 DEF PipeRecords, AllQuiet, NoTransfer
<1> QED BY <1>1, <1>2

\* Shutdown.
LEMMA ShutdownInv ==
  ASSUME GivesUp, PipeInv, Shutdown
  PROVE  PipeInv'
<1>1. /\ Typed /\ Known /\ report = "none" /\ s' = shutdown(s)
      /\ cmd' = "none" /\ dead' = FALSE /\ ~aborted /\ UNCHANGED <<report, aborted, netVars>>
    BY DEF GivesUp, PipeInv, Shutdown, InCallback
<1>2. /\ s \in PipeRecords /\ Len(s.in) <= 6 /\ Len(s.out) <= 1 /\ s.calls = 0
      /\ s.cfd # "none" \/ AllQuiet(s)
      /\ aborted = FALSE /\ Wires
    BY <1>1 DEF Typed, Known
<1>3. PICK x, y : x = s /\ y = s'
    OBVIOUS
<1>4. /\ y \in PipeRecords /\ y.in = x.in /\ y.out = x.out /\ y.calls = x.calls
      /\ y.cfd = "none" /\ AllQuiet(y)
    BY <1>1, <1>2, <1>3, ShutdownFields
<1>5. Wires'
    BY <1>1, <1>2, WiresStay
<1> QED BY <1>1, <1>2, <1>3, <1>4, <1>5, NoConnection

\* Timeout.
LEMMA TimeoutInv ==
  ASSUME PipeInv, Timeout
  PROVE  PipeInv' /\ report' = "xerr"
<1>1. /\ Typed /\ Known /\ report = "none" /\ s.timer # "none" /\ ~dead
      /\ ~aborted /\ UNCHANGED <<dead, aborted, netVars>>
    BY DEF PipeInv, Timeout, Free, InCallback
<1>2. /\ s \in PipeRecords /\ Len(s.in) <= 6 /\ Len(s.out) <= 1 /\ s.calls = 0
      /\ s.cfd # "none" /\ aborted = FALSE /\ dead = FALSE /\ Wires
    BY <1>1 DEF Typed, Known, AllQuiet
<1>3. PICK x, y : x = [s EXCEPT !.timer = "none"] /\ y = shutdown(x)
    OBVIOUS
<1>4. /\ x \in PipeRecords /\ x.in = s.in /\ x.out = s.out /\ x.calls = 0 /\ x.cfd # "none"
    <2>1. "none" \in Timers
        BY DEF Timers
    <2> QED BY <1>2, <1>3, <2>1 DEF PipeRecords
<1>5. /\ y \in PipeRecords /\ y.in = x.in /\ y.out = x.out /\ y.calls = 0
      /\ y.cfd = "none" /\ AllQuiet(y)
    BY <1>3, <1>4, ShutdownFields
<1>6. s' = [y EXCEPT !.calls = 1] /\ report' = "xerr" /\ cmd' = "none"
    BY <1>3, <1>5 DEF Timeout, CallFtpCmdDone
<1>7. PICK u : u = s' /\ u = [y EXCEPT !.calls = 1]
    BY <1>6
<1>8. /\ u \in PipeRecords /\ u.calls = 1 /\ u.in = y.in /\ u.out = y.out
      /\ u.timer = y.timer /\ u.state = y.state /\ u.cfd = y.cfd /\ u.dfd = y.dfd
    <2>1. 1 \in Depths
        BY DEF Depths
    <2> QED BY <1>5, <1>7, <2>1, SetCalls
<1>9. AllQuiet(u)
    BY <1>5, <1>8 DEF AllQuiet, NoTransfer
<1>10. Wires'
    BY <1>1, <1>2, WiresStay
<1> QED BY <1>1, <1>2, <1>4, <1>5, <1>6, <1>7, <1>8, <1>9, <1>10, NoConnection

\* CallbackReturn.
LEMMA CallbackReturnInv ==
  ASSUME GivesUp, PipeInv, CallbackReturn
  PROVE  PipeInv' /\ report' = "none"
<1>1. /\ Typed /\ Known /\ (Alive => Fit) /\ report # "none"
      /\ s' = [s EXCEPT !.calls = @ - 1] /\ report' = "none"
      /\ dead' = (cmd = "none" /\ (report = "xerr" \/ (report = "bad" /\ ~CarriesOn)))
      /\ ~aborted /\ UNCHANGED <<cmd, aborted, netVars>>
    BY DEF PipeInv, CallbackReturn, InCallback
<1>2. /\ s \in PipeRecords /\ Len(s.in) <= 6 /\ Len(s.out) <= 1 /\ s.calls = 1
      /\ ~dead /\ aborted = FALSE /\ Wires
    BY <1>1 DEF Typed, Known
<1>3. PICK y : y = s' /\ y = [s EXCEPT !.calls = 0]
    BY <1>1, <1>2
<1>4. /\ y \in PipeRecords /\ y.calls = 0 /\ y.p = s.p /\ y.in = s.in /\ y.out = s.out
      /\ y.timer = s.timer /\ y.state = s.state /\ y.cfd = s.cfd /\ y.dfd = s.dfd
      /\ y.events = s.events /\ y.later = s.later
    <2>1. 0 \in Depths
        BY DEF Depths
    <2> QED BY <1>2, <1>3, <2>1 DEF PipeRecords
<1>5. Wires'
    BY <1>1, <1>2, WiresStay
<1>6. CASE report = "ok"
    <2>1. ~dead' /\ dead' \in BOOLEAN
        BY <1>1, <1>6, Zenon
    <2>2. s.cfd # "none"
        BY <1>1, <1>6 DEF Known
    <2>3. InOrder(s, cmd, View, xfer)
        BY <1>1, <1>2, <1>6, <2>2 DEF Alive, Fit
    <2>4. PICK w : w = Talk(y, toServer', y.in \o toClient', owed')
        OBVIOUS
    <2>5. w = View
        BY <1>1, <1>4, <2>4 DEF View, Talk, netVars
    <2>6. InOrder(y, cmd, w, xfer)
        BY <1>4, <2>3, <2>5, SameOrder
    <2>7. xfer' = xfer /\ cmd' = cmd /\ cmd \in {"none", "login", "TYPE", "get"} /\ aborted' = FALSE
        BY <1>1, <1>2 DEF netVars, Typed
    <2> QED BY <1>1, <1>2, <1>3, <1>4, <1>5, <2>1, <2>2, <2>4, <2>6, <2>7, AtRest
<1>7. CASE report # "ok"
    <2>1. report \in {"bad", "xerr"} /\ cmd = "none"
        BY <1>1, <1>7 DEF Typed, Known
    <2>2. dead' = TRUE
        BY <1>1, <2>1 DEF GivesUp
    <2>3. cmd' = "none" /\ report' = "none" /\ aborted' = FALSE
        BY <1>1, <1>2, <2>1
    <2>4. Typed'
        BY <1>2, <1>3, <1>4, <1>5, <2>2, <2>3 DEF Typed
    <2>5. AllQuiet(s) => AllQuiet(y)
        BY <1>4 DEF AllQuiet, NoTransfer
    <2>6. s.cfd = "none" => AllQuiet(s)
        BY <1>1 DEF Known
    <2>7. Known'
        BY <1>3, <1>4, <2>2, <2>3, <2>5, <2>6 DEF Known, AllQuiet, NoTransfer
    <2>8. ~Alive'
        BY <2>2 DEF Alive
    <2> QED BY <1>1, <2>4, <2>7, <2>8 DEF PipeInv
<1> QED BY <1>6, <1>7

\* The invariant, when the application may give a command.
LEMMA CallFacts ==
  ASSUME GivesUp, PipeInv, CanCall, s.cfd = "open"
  PROVE  /\ \/ report = "none" /\ s.calls = 0
            \/ report = "ok" /\ s.calls = 1
         /\ dead = FALSE /\ InOrder(s, "none", View, xfer)
         /\ s \in PipeRecords /\ Len(s.in) <= 6 /\ Len(s.out) <= 1 /\ Wires
<1>1. Typed /\ Known /\ (Alive => Fit) /\ ~dead /\ cmd = "none"
    BY DEF PipeInv, CanCall
<1>2. report \in {"none", "ok"} /\ dead = FALSE
    BY <1>1 DEF CanCall, GivesUp, InCallback, Typed
<1>3. Fit
    BY <1>1, <1>2 DEF Alive
<1> QED BY <1>1, <1>2, <1>3 DEF Typed, Known, Fit

\* A command is given to an idle session x, whose engine then is y's.
LEMMA CommandGiven ==
  ASSUME NEW x, NEW y, NEW srv, NEW lines, NEW debt, NEW data,
         NEW z, z = Talk(x, srv, lines, debt), InOrder(x, "none", z, data),
         NEW w, w = Talk(y, srv, lines, debt), y.out = x.out,
         NEW c \in {"TYPE", "PASV"}, y.p \in ProtoRecords, y.p.stack = StackFor(y.p.state),
         x.p.state = "IDLE", Accepts(x.p, y.p, c, c), y.p.sent_user = x.p.sent_user,
         y.events = "none"
  PROVE  InTouch(y, w) /\ NoReply(lines)
<1>1. /\ z.p = x.p /\ z.srv = srv \o x.out /\ z.lines = lines /\ z.owed = debt
      /\ w.p = y.p /\ w.srv = z.srv /\ w.lines = z.lines /\ w.owed = z.owed
      /\ SameEnds(z, w)
    BY DEF Talk, SameEnds
<1>2. Sound(z) /\ InStep(z) /\ Honest(z.lines)
    BY DEF InOrder, InTouch
<1>3. Sound(w)
    BY <1>1, <1>2 DEF Sound, SameEnds
<1>4. InStep(w)
    <2>1. c \in {"CWD", "TYPE", "SIZE", "PASV", "PORT"} /\ (c = "PORT" => ~z.passive)
        OBVIOUS
    <2>2. z.p.state = "IDLE" /\ Accepts(z.p, w.p, c, c) /\ w.p.sent_user = z.p.sent_user
        BY <1>1
    <2> QED BY <1>1, <1>2, <2>1, <2>2, CommandStep
<1>5. Quiet(z)
    BY <1>1, <1>2 DEF InStep, Agreement
<1> QED BY <1>1, <1>2, <1>3, <1>4, <1>5 DEF InTouch, Quiet

\* SimpleCommand.
LEMMA SimpleCommandInv ==
  ASSUME GivesUp, PipeInv, NEW flush, SimpleCommand("TYPE", flush)
  PROVE  PipeInv'
<1>1. /\ CanCall /\ s.cfd = "open" /\ simpleCommand(s.p, "TYPE").err = "ok"
      /\ toClient' = toClient /\ owed' = owed /\ broken' = broken /\ xfer' = xfer
    BY DEF SimpleCommand
<1>2. /\ \/ report = "none" /\ s.calls = 0
         \/ report = "ok" /\ s.calls = 1
      /\ dead = FALSE /\ InOrder(s, "none", View, xfer)
      /\ s \in PipeRecords /\ Len(s.in) <= 6 /\ Len(s.out) <= 1 /\ Wires
    BY <1>1, CallFacts
<1>3. PICK g, q, r : q = s.p /\ g = simpleCommand(q, "TYPE") /\ r = g.p
    OBVIOUS
<1>4. q \in ProtoRecords /\ q.stack = StackFor(q.state) /\ ~q.address_ready /\ Rests(s)
    <2>1. Sound(View) /\ InStep(View) /\ View.p = s.p
        BY <1>2 DEF InOrder, InTouch, View, Talk
    <2> QED BY <1>2, <1>3, <2>1 DEF InOrder, Working, Sound
<1>5. /\ r \in ProtoRecords /\ r.stack = StackFor(r.state) /\ q.state = "IDLE"
      /\ Accepts(q, r, "TYPE", "TYPE") /\ r.sent_user = q.sent_user
    <2>1. "TYPE" \in {"CWD", "TYPE", "SIZE"} /\ g.err = "ok" /\ "ok" \notin Refusals
        BY <1>1, <1>3 DEF Refusals
    <2> QED BY <1>3, <1>4, <2>1, SimpleFields
<1>6. ~r.address_ready
    <2>1. r = [q EXCEPT !.obuf = "TYPE", !.state = "TYPE"]
        BY <1>1, <1>3 DEF simpleCommand, Refusal, Goto, Output
    <2> QED BY <1>4, <2>1 DEF ProtoRecords
<1>7. PICK x : x = [s EXCEPT !.p = r]
    OBVIOUS
<1>8. Notify(ControlIO(x, flush, "connecting"), "TYPE") /\ toServer' = toServer \o Flushed(x, flush)
    <2>1. x = [s EXCEPT !.p = simpleCommand(@, "TYPE").p]
        BY <1>2, <1>3, <1>7 DEF PipeRecords
    <2> QED BY <2>1 DEF SimpleCommand, ControlStep
<1>9. /\ x \in PipeRecords /\ SameRest(s, x) /\ x.p = r
      /\ x.in = s.in /\ x.out = s.out /\ x.timer = s.timer
    BY <1>2, <1>5, <1>7 DEF PipeRecords, SameRest
<1>10. PICK z, v, total : z = View /\ total = x.in \o toClient' /\ v = Talk(x, toServer, total, owed')
    OBVIOUS
<1>11. z = Talk(s, toServer, total, owed') /\ InOrder(s, "none", z, xfer)
    BY <1>1, <1>2, <1>9, <1>10 DEF View
<1>12. InTouch(x, v) /\ NoReply(total)
    <2>1. x.events = "none"
        BY <1>4, <1>9, <1>11 DEF InOrder, InTouch, SameRest, Rests, Stranded, AllQuiet, NoTransfer
    <2>2. /\ x.p \in ProtoRecords /\ x.p.stack = StackFor(x.p.state) /\ s.p.state = "IDLE"
          /\ Accepts(s.p, x.p, "TYPE", "TYPE") /\ x.p.sent_user = s.p.sent_user
        BY <1>3, <1>5, <1>9
    <2>3. "TYPE" \in {"TYPE", "PASV"} /\ x.out = s.out
        BY <1>9
    <2> QED BY <1>10, <1>11, <2>1, <2>2, <2>3, CommandGiven
<1>13. Rests(x)
    BY <1>4, <1>9 DEF Rests, Stranded, AllQuiet, NoTransfer, SameRest
<1>14. x.p.state = "TYPE" /\ ~x.p.address_ready
    BY <1>5, <1>6, <1>9 DEF Accepts
<1>15. Working(x, "TYPE", v, xfer')
    BY <1>13, <1>14 DEF Working
<1>16. /\ toServer \in CommandSeqs /\ toClient' \in LineSeqs /\ owed' \in Debts
       /\ broken' \in BOOLEAN /\ xfer' \in Datas /\ x.cfd # "none" /\ x.calls = s.calls
    BY <1>1, <1>2, <1>9 DEF Wires, SameRest
<1> QED BY <1>2, <1>8, <1>9, <1>10, <1>12, <1>14, <1>15, <1>16, ControlStepEnds

\* Get, after one that ended without an address: the session is still
\* scheduled, which an assertion forbids.
LEMMA GetStranded ==
  ASSUME GivesUp, PipeInv, NEW flush, Get(flush), s.timer # "none"
  PROVE  PipeInv' /\ report' = report
<1>1. /\ CanCall /\ s.cfd = "open" /\ Notify(Result(s, "assert"), cmd)
      /\ toServer' = toServer /\ toClient' = toClient /\ owed' = owed
      /\ broken' = broken /\ xfer' = xfer
    BY DEF Get
<1>2. /\ \/ report = "none" /\ s.calls = 0
         \/ report = "ok" /\ s.calls = 1
      /\ dead = FALSE /\ InOrder(s, "none", View, xfer)
      /\ s \in PipeRecords /\ Len(s.in) <= 6 /\ Len(s.out) <= 1 /\ Wires
    BY <1>1, CallFacts
<1>3. cmd = "none"
    BY <1>1 DEF CanCall
<1>4. Stranded(s)
    <2>1. Rests(s)
        BY <1>2 DEF InOrder, Working
    <2> QED BY <2>1 DEF Rests, AllQuiet
<1>5. PICK r : r = Result(s, "assert")
    OBVIOUS
<1>6. r.s = s /\ r.err = "assert" /\ Notify(r, cmd)
    BY <1>1, <1>5 DEF Result
<1>7. s' = s /\ report' = report /\ cmd' = cmd /\ dead' = dead
    BY <1>6 DEF Notify
<1>8. aborted' = TRUE
    BY <1>6, Zenon DEF Notify
<1>9. PICK y, w : y = s /\ w = Talk(y, toServer', y.in \o toClient', owed')
    OBVIOUS
<1>10. InOrder(y, "none", w, xfer)
    BY <1>1, <1>2, <1>9 DEF View
<1>11. Wires' /\ y = s' /\ Stranded(y)
    BY <1>1, <1>2, <1>4, <1>7, <1>9 DEF Wires
<1>12. dead' = FALSE /\ ~dead' /\ dead' \in BOOLEAN
    BY <1>2, <1>7
<1> QED BY <1>1, <1>2, <1>3, <1>7, <1>8, <1>9, <1>10, <1>11, <1>12, AtRest

\* Get.
LEMMA GetInv ==
  ASSUME GivesUp, PipeInv, NEW flush, Get(flush), s.timer = "none"
  PROVE  PipeInv'
<1>1. /\ CanCall /\ s.cfd = "open" /\ get(s.p, TRUE, TRUE).err = "ok"
      /\ toClient' = toClient /\ owed' = owed /\ broken' = broken /\ xfer' = xfer
    BY DEF Get
<1>2. /\ \/ report = "none" /\ s.calls = 0
         \/ report = "ok" /\ s.calls = 1
      /\ dead = FALSE /\ InOrder(s, "none", View, xfer)
      /\ s \in PipeRecords /\ Len(s.in) <= 6 /\ Len(s.out) <= 1 /\ Wires
    BY <1>1, CallFacts
<1>0. AllQuiet(s)
    BY <1>2 DEF InOrder, Working, Rests, Stranded
<1>3. PICK g, q, r, passive, fits :
         passive = TRUE /\ fits = TRUE /\ q = s.p /\ g = get(q, passive, fits) /\ r = g.p
    OBVIOUS
<1>4. q \in ProtoRecords /\ q.stack = StackFor(q.state) /\ ~q.address_ready /\ Rests(s)
    <2>1. Sound(View) /\ InStep(View) /\ View.p = s.p
        BY <1>2 DEF InOrder, InTouch, View, Talk
    <2> QED BY <1>2, <1>3, <2>1 DEF InOrder, Working, Sound
<1>5. /\ r \in ProtoRecords /\ r.stack = StackFor(r.state) /\ q.state = "IDLE"
      /\ Accepts(q, r, "PASV", "PASV") /\ r.sent_user = q.sent_user
    <2>1. passive \in BOOLEAN /\ fits \in BOOLEAN /\ g.err = "ok" /\ "ok" \notin Refusals
        BY <1>1, <1>3 DEF Refusals
    <2>2. Mode(passive) = "PASV"
        BY <1>3 DEF Mode
    <2>3. /\ r \in ProtoRecords /\ r.stack = StackFor(r.state) /\ q.state = "IDLE"
          /\ Accepts(q, r, Mode(passive), Mode(passive)) /\ r.sent_user = q.sent_user
        <3>1. q \in ProtoRecords /\ q.stack = StackFor(q.state) /\ g = get(q, passive, fits) /\ r = g.p
            BY <1>3, <1>4
        <3>2. \/ r = q /\ g.err \in Refusals
              \/ /\ g.err = "ok" /\ q.state = "IDLE" /\ Accepts(q, r, Mode(passive), Mode(passive))
                 /\ r.sent_user = q.sent_user
            BY <2>1, <3>1, GetFields
        <3>3. r \in ProtoRecords /\ r.stack = StackFor(r.state)
            BY <2>1, <3>1, GetFields
        <3> QED BY <2>1, <3>2, <3>3
    <2> QED BY <2>2, <2>3
<1>6. ~r.address_ready
    <2>1. r = callState(Output(q, "PASV"), "PASV", "RETR")
        BY <1>1, <1>3 DEF get, Refusal
    <2>2. r.address_ready = q.address_ready
        BY <1>4, <2>1 DEF callState, Output, ProtoRecords
    <2> QED BY <1>4, <2>2
<1>7. PICK x : x = StartGet(s)
    OBVIOUS
<1>8. Notify(ControlIO(x, flush, "connecting"), "get") /\ toServer' = toServer \o Flushed(x, flush)
    BY <1>7 DEF Get, ControlStep
<1>9. /\ x \in PipeRecords /\ x.p = r /\ x.in = s.in /\ x.out = s.out /\ x.state = "GETTING"
      /\ ~x.later /\ x.timer = "timeout" /\ x.cfd = s.cfd /\ x.dfd = s.dfd /\ x.events = s.events /\ x.calls = s.calls
    <2>1. "GETTING" \in PipeStates /\ FALSE \in Flags /\ "timeout" \in Timers
        BY DEF PipeStates, Flags, Timers
    <2>2. x = [s EXCEPT !.p = r, !.state = "GETTING", !.gotData = FALSE, !.later = FALSE,
                        !.timer = "timeout"]
        BY <1>2, <1>3, <1>7 DEF StartGet, PipeRecords
    <2> QED BY <1>2, <1>5, <2>1, <2>2 DEF PipeRecords
<1>10. PICK z, v, total : z = View /\ total = x.in \o toClient' /\ v = Talk(x, toServer, total, owed')
    OBVIOUS
<1>11. z = Talk(s, toServer, total, owed') /\ InOrder(s, "none", z, xfer)
    BY <1>1, <1>2, <1>9, <1>10 DEF View
<1>12. InTouch(x, v) /\ NoReply(total)
    <2>1. x.events = "none"
        BY <1>0, <1>9, <1>11 DEF InOrder, InTouch, AllQuiet, NoTransfer
    <2>2. /\ x.p \in ProtoRecords /\ x.p.stack = StackFor(x.p.state) /\ s.p.state = "IDLE"
          /\ Accepts(s.p, x.p, "PASV", "PASV") /\ x.p.sent_user = s.p.sent_user
        BY <1>3, <1>5, <1>9
    <2>3. "PASV" \in {"TYPE", "PASV"} /\ x.out = s.out
        BY <1>9
    <2> QED BY <1>10, <1>11, <2>1, <2>2, <2>3, CommandGiven
<1>13. x.p.state = "PASV" /\ ~x.p.address_ready /\ x.p.obuf # NoOutput
    BY <1>5, <1>6, <1>9 DEF Accepts, NoOutput
<1>14. AwaitsPort(x, v, xfer')
    <2>1. x.dfd = "none"
        BY <1>0, <1>9 DEF AllQuiet, NoTransfer
    <2>2. v.p = x.p
        BY <1>10 DEF Talk
    <2> QED BY <1>9, <1>13, <2>1, <2>2 DEF AwaitsPort
<1>15. Working(x, "get", v, xfer')
    BY <1>14 DEF Working
<1>16. /\ toServer \in CommandSeqs /\ toClient' \in LineSeqs /\ owed' \in Debts
       /\ broken' \in BOOLEAN /\ xfer' \in Datas /\ x.cfd # "none"
    BY <1>1, <1>2, <1>9 DEF Wires
<1> QED BY <1>2, <1>8, <1>9, <1>10, <1>12, <1>13, <1>15, <1>16, ControlStepEnds

\* ConnectAndLogin.
LEMMA ConnectAndLoginInv ==
  ASSUME GivesUp, PipeInv, NEW conn \in {"connecting", "open"}, NEW flush, ConnectAndLogin(conn, flush)
  PROVE  PipeInv'
<1>1. /\ Typed /\ Known /\ report = "none" /\ dead = FALSE /\ s.cfd = "none"
      /\ toClient' = <<>> /\ owed' = <<"HELLO">> /\ broken' \in BOOLEAN /\ xfer' = "none"
    BY DEF GivesUp, PipeInv, ConnectAndLogin, InCallback, Typed
<1>2. s.timer = "none"
    BY <1>1 DEF Known, AllQuiet
<1>3. PICK q, r : q = NewProto /\ r = login(q).p
    OBVIOUS
<1>4. q \in ProtoRecords /\ r = [Output(q, "USER") EXCEPT !.sent_user = TRUE]
    BY <1>3, NewPipeFields DEF login, NewProto, isOutputReady, PipeRecords
<1>5. /\ r \in ProtoRecords /\ r.state = "INIT" /\ r.stack = <<>> /\ r.sent_user /\ r.obuf = "USER"
      /\ ~r.multiline /\ r.status = 0 /\ ~r.address_ready
    <2>1. TRUE \in Flags /\ "USER" \in Outputs
        BY DEF Flags, Outputs, Commands
    <2>2. r = [q EXCEPT !.obuf = "USER", !.sent_user = TRUE]
        BY <1>4 DEF Output
    <2>3. r \in ProtoRecords
        BY <1>4, <2>1, <2>2 DEF ProtoRecords
    <2> QED BY <1>3, <2>2, <2>3 DEF NewProto
<1>6. PICK x : x = [NewPipe EXCEPT !.p = r, !.cfd = conn, !.timer = "timeout"]
    OBVIOUS
<1>7. Notify(ControlIO(x, flush, "connecting"), "login") /\ toServer' = Flushed(x, flush)
    BY <1>2, <1>3, <1>6 DEF ConnectAndLogin
<1>8. /\ x \in PipeRecords /\ x.p = r /\ x.in = <<>> /\ x.out = <<>> /\ x.cfd # "none" /\ x.calls = 0
      /\ NoTransfer(x) /\ x.events = "none"
    <2>1. conn \in Sockets /\ "timeout" \in Timers
        BY DEF Sockets, Timers
    <2> QED BY <1>5, <1>6, <2>1, NewPipeFields DEF PipeRecords, NoTransfer, AllQuiet
<1>9. PICK srv, total, z : srv = <<>> /\ total = x.in \o toClient' /\ z = Talk(x, srv, total, owed')
    OBVIOUS
<1>10. /\ z.p = r /\ z.srv = <<>> /\ z.lines = <<>> /\ z.owed = <<"HELLO">>
       /\ z.tried /\ z.tried \in BOOLEAN /\ z.passive \in BOOLEAN
    BY <1>1, <1>8, <1>9 DEF Talk
<1>11. NoReply(z.lines) /\ Honest(z.lines) /\ Whole(z.lines) /\ Fresh(z.lines)
    BY <1>10 DEF NoReply, Honest, Whole, Fresh
<1>12. Sound(z)
    <2>1. z.srv \in Seq(Commands) /\ z.lines \in Seq(Lines)
        BY <1>10
    <2>2. z.owed \in Debts
        BY <1>10 DEF Debts
    <2>3. z.p.stack = StackFor(z.p.state)
        BY <1>5, <1>10 DEF StackFor
    <2> QED BY <1>5, <1>10, <2>1, <2>2, <2>3 DEF Sound
<1>13. SentAhead(z)
    BY <1>5, <1>10, <1>11 DEF SentAhead, Under
<1>14. InStep(z)
    <2>1. WellFormed(z)
        BY <1>5, <1>10, <1>11 DEF WellFormed
    <2>2. Agreement(z)
        BY <1>5, <1>10, <1>13 DEF Agreement, Commands
    <2> QED BY <2>1, <2>2 DEF InStep
<1>15. InTouch(x, z)
    BY <1>8, <1>11, <1>12, <1>14 DEF InTouch
<1>16. Working(x, "login", z, xfer')
    BY <1>5, <1>8 DEF Working, LoggingIn
<1>17. /\ srv \in CommandSeqs /\ toClient' \in LineSeqs /\ owed' \in Debts /\ xfer' \in Datas
    BY <1>1, <1>9 DEF CommandSeqs, LineSeqs, Debts, Datas
<1> QED BY <1>1, <1>7, <1>8, <1>9, <1>15, <1>16, <1>17, ControlStepEnds

------------------------------------------------------------------------------
(***************************************************************************)
(* Events of the data connection.                                          *)
(***************************************************************************)
\* The data connection is open, before or after the server's verdict.
Expecting(x, z, data) ==
    /\ InTouch(x, z) /\ x.p.obuf = NoOutput /\ ~x.p.address_ready
    /\ Receiving(x, data)
    /\ \/ x.p.state = "RETR" /\ NotAsked(z, data)
       \/ x.p.state = "IDLE" /\ x.p.status = 226

\* A session in order with a data connection expects its end.
LEMMA WithData ==
  ASSUME NEW x, NEW c, NEW z, NEW data, InOrder(x, c, z, data), x.dfd # "none" \/ x.state = "SLEEPING"
  PROVE  c = "get" /\ Expecting(x, z, data)
<1>1. InTouch(x, z) /\ x.p.obuf = NoOutput /\ ~x.p.address_ready /\ Working(x, c, z, data)
    BY DEF InOrder
<1>2. c = "get" /\ (AwaitsEnd(x, z, data) \/ AwaitsData(x, data))
    BY <1>1 DEF Working, LoggingIn, Rests, Stranded, AllQuiet, NoTransfer, AwaitsPort, HasPort
<1>3. CASE AwaitsEnd(x, z, data)
    <2>1. Receiving(x, data)
        BY <1>3 DEF AwaitsEnd, DataPart, AllQuiet, NoTransfer
    <2> QED BY <1>1, <1>2, <1>3, <2>1 DEF AwaitsEnd, Expecting
<1>4. CASE AwaitsData(x, data)
    BY <1>1, <1>2, <1>4 DEF AwaitsData, Expecting
<1> QED BY <1>2, <1>3, <1>4

\* It goes on expecting it.
LEMMA ExpectsOn ==
  ASSUME NEW x, NEW y, NEW z, NEW data, Expecting(x, z, data), y.p = x.p,
         Receiving(y, data), y.state # "SLEEPING" => y.events = "none"
  PROVE  InOrder(y, "get", z, data)
<1>1. InTouch(y, z) /\ y.p.obuf = NoOutput /\ ~y.p.address_ready
    BY DEF Expecting, InTouch
<1>2. AwaitsEnd(y, z, data) \/ AwaitsData(y, data)
    BY DEF Expecting, AwaitsEnd, AwaitsData, DataPart
<1> QED BY <1>1, <1>2 DEF InOrder, Working

\* Or the end has come.
LEMMA ExpectsNoMore ==
  ASSUME NEW x, NEW y, NEW z, NEW data, Expecting(x, z, data), y.p = x.p,
         AllQuiet(y), y.events = "none", data = "closed"
  PROVE  /\ InTouch(y, z)
         /\ Answered(y, "get", data) \/ (getStatus(y.p) = 0 /\ InOrder(y, "get", z, data))
<1>1. InTouch(y, z) /\ y.p.obuf = NoOutput /\ ~y.p.address_ready
    BY DEF Expecting, InTouch
<1>2. DataPart(y, data)
    BY DEF DataPart
<1>3. CASE x.p.state = "RETR" /\ NotAsked(z, data)
    <2>1. AwaitsEnd(y, z, data)
        BY <1>1, <1>2, <1>3 DEF AwaitsEnd
    <2>2. getStatus(y.p) = 0
        BY <1>3 DEF getStatus
    <2> QED BY <1>1, <2>1, <2>2 DEF InOrder, Working
<1>4. CASE x.p.state = "IDLE" /\ x.p.status = 226
    BY <1>1, <1>2, <1>4 DEF Answered, Success
<1> QED BY <1>1, <1>3, <1>4 DEF Expecting

\* y is x with other fields of the transfer.
SameTalk(x, y) ==
    y.p = x.p /\ y.in = x.in /\ y.out = x.out /\ y.calls = x.calls /\ y.cfd = x.cfd

\* What notifyPollEvent_dfd has made of session x, z being the conversation.
DataHandled(x, r, z, data) ==
    Handled(x, r, "get", z, data) /\ SameTalk(x, r.s)

\* Reading from a session that is not asleep, or the connection's end.
LEMMA TransferEnds ==
  ASSUME NEW x \in PipeRecords, Len(x.in) <= 6, Len(x.out) <= 1,
         NEW z, NEW data, Expecting(x, z, data), x.state = "GETTING", x.timer = "none",
         NEW read \in {"data", "block", "eof", "error"}, read = "eof" => data = "closed",
         NEW pause \in BOOLEAN, NEW r, r = Transfer(x, read, pause)
  PROVE  DataHandled(x, r, z, data)
<1>1. x.dfd # "none" /\ x.events = "none"
    BY DEF Expecting, Receiving, InTouch
<1>2. CASE read = "eof"
    <2>1. PICK y : y = CloseTransfer(x)
        OBVIOUS
    <2>2. r = Result(y, "EALREADY")
        BY <1>2, <2>1 DEF Transfer
    <2>3. y \in PipeRecords /\ SameTalk(x, y) /\ AllQuiet(y) /\ y.events = "none"
        <3>1. "IDLE" \in PipeStates /\ "none" \in Timers /\ "none" \in Sockets
            BY DEF PipeStates, Timers, Sockets
        <3>2. y = [x EXCEPT !.dfd = "none", !.state = "IDLE", !.timer = "none"]
            BY <2>1 DEF CloseTransfer, closeData
        <3> QED BY <1>1, <3>1, <3>2 DEF PipeRecords, SameTalk, AllQuiet, NoTransfer
    <2>4. r \in Results /\ r.s = y /\ r.err = "EALREADY"
        BY <2>2, <2>3 DEF Result, Results, Outcomes
    <2>5. /\ InTouch(y, z)
          /\ Answered(y, "get", data) \/ (getStatus(y.p) = 0 /\ InOrder(y, "get", z, data))
        <3>1. y.p = x.p /\ data = "closed"
            BY <1>2, <2>3 DEF SameTalk
        <3> QED BY <2>3, <3>1, ExpectsNoMore
    <2> QED BY <2>3, <2>4, <2>5 DEF DataHandled, Handled, SameTalk
<1>3. CASE read = "error"
    <2>1. r = Result(x, "error")
        BY <1>3 DEF Transfer
    <2>2. r \in Results /\ r.s = x /\ r.err = "error"
        BY <2>1 DEF Result, Results, Outcomes
    <2> QED BY <2>2 DEF DataHandled, Handled, SameTalk
<1>4. CASE read \in {"data", "block"}
    <2>1. PICK got, wait : /\ got = (x.gotData \/ read = "data")
                           /\ wait = (pause /\ (x.gotData \/ read = "data"))
        OBVIOUS
    <2>2. x.gotData \in BOOLEAN /\ got \in Flags /\ wait \in Flags
        BY <2>1 DEF PipeRecords, Flags
    <2>3. PICK y : y = IF read = "data" THEN [x EXCEPT !.gotData = TRUE, !.later = pause, !.events = "none"]
                       ELSE [x EXCEPT !.later = pause /\ x.gotData, !.events = "none"]
        OBVIOUS
    <2>4. r = Result(y, "ok")
        BY <1>4, <2>3 DEF Transfer
    <2>5. y \in PipeRecords /\ SameTalk(x, y) /\ y.dfd = x.dfd /\ y.state = "GETTING"
          /\ y.timer = "none" /\ y.events = "none"
        <3>1. "none" \in Events /\ TRUE \in Flags /\ pause \in Flags /\ (pause /\ x.gotData) \in Flags
            BY <2>2 DEF Events, Flags
        <3> QED BY <2>3, <3>1 DEF PipeRecords, SameTalk
    <2>6. r \in Results /\ r.s = y /\ r.err = "ok"
        BY <2>4, <2>5 DEF Result, Results, Outcomes
    <2>7. Receiving(y, data)
        BY <1>1, <2>5 DEF Receiving
    <2>8. InOrder(y, "get", z, data)
        BY <2>5, <2>7, ExpectsOn DEF SameTalk
    <2> QED BY <2>5, <2>6, <2>8 DEF DataHandled, Handled, SameTalk
<1> QED BY <1>2, <1>3, <1>4

\* An event of the data connection.
LEMMA DataIOEnds ==
  ASSUME NEW x \in PipeRecords, Len(x.in) <= 6, Len(x.out) <= 1,
         NEW z, NEW data, Expecting(x, z, data),
         NEW kind \in {"in", "hup"}, NEW conn, NEW early, early => x.later,
         kind = "hup" => data = "closed" \/ (x.state = "SLEEPING" /\ x.events = "in"),
         NEW read \in {"data", "block", "eof", "error"}, kind = "in" /\ read = "eof" => data = "closed",
         NEW pause \in BOOLEAN, NEW r, r = DataIO(x, kind, conn, early, read, pause)
  PROVE  DataHandled(x, r, z, data)
<1>1. /\ x.dfd # "none" /\ x.state # "IDLE"
      /\ \/ x.state = "GETTING" /\ (x.later => x.timer = "none") /\ x.events = "none"
         \/ x.state = "SLEEPING" /\ x.timer # "none" /\ (x.events = "hup" => data = "closed")
    BY DEF Expecting, Receiving, InTouch
<1>2. CASE x.dfd = "connecting" /\ conn = "error"
    <2>1. r = Result(x, "error")
        BY <1>1, <1>2 DEF DataIO
    <2>2. r \in Results /\ r.s = x /\ r.err = "error"
        BY <2>1 DEF Result, Results, Outcomes
    <2> QED BY <2>2 DEF DataHandled, Handled, SameTalk
<1>3. CASE ~(x.dfd = "connecting" /\ conn = "error")
    <2>1. PICK y : y = [x EXCEPT !.dfd = "open"]
        OBVIOUS
    <2>2. /\ y \in PipeRecords /\ SameTalk(x, y) /\ y.dfd = "open" /\ y.state = x.state
          /\ y.timer = x.timer /\ y.events = x.events /\ y.later = x.later
        <3>1. "open" \in Sockets
            BY DEF Sockets
        <3> QED BY <2>1, <3>1 DEF PipeRecords, SameTalk
    <2>3. Expecting(y, z, data)
        BY <1>1, <2>2 DEF Expecting, InTouch, Receiving, SameTalk
    <2>4. Len(y.in) <= 6 /\ Len(y.out) <= 1
        BY <2>2 DEF SameTalk
    <2> DEFINE snooze == y.state = "GETTING" /\ kind = "in" /\ early
    <2>5. snooze => y.timer = "none"
        BY <1>1, <2>2
    <2>6. r = IF snooze \/ y.state = "SLEEPING" THEN Result(Snooze(y, kind), "ok")
              ELSE IF kind = "in" THEN Transfer([y EXCEPT !.timer = "none"], read, pause)
              ELSE Result(CloseTransfer(y), "EALREADY")
        BY <1>1, <1>3, <2>1, <2>5 DEF DataIO
    <2>7. CASE snooze \/ y.state = "SLEEPING"
        <3>1. PICK u : u = Snooze(y, kind)
            OBVIOUS
        <3>2. r = Result(u, "ok")
            BY <2>6, <2>7, <3>1
        <3>3. /\ u \in PipeRecords /\ SameTalk(y, u) /\ u.dfd = y.dfd /\ u.state = "SLEEPING"
              /\ u.timer = (IF y.state = "GETTING" THEN "wakeup" ELSE y.timer)
              /\ u.events = (IF y.events = "in" THEN "in" ELSE kind)
            <4>1. PICK t, e : /\ t = IF y.state = "GETTING" THEN "wakeup" ELSE y.timer
                              /\ e = IF y.events = "in" THEN "in" ELSE kind
                OBVIOUS
            <4>2. y.timer \in Timers
                BY <2>2 DEF PipeRecords
            <4>3. t \in Timers
                <5>1. "wakeup" \in Timers
                    BY DEF Timers
                <5> QED BY <4>1, <4>2, <5>1
            <4>4. e \in Events /\ "SLEEPING" \in PipeStates
                BY <4>1 DEF Events, PipeStates
            <4>5. u = [y EXCEPT !.timer = t, !.state = "SLEEPING", !.events = e]
                BY <2>2, <3>1, <4>1 DEF Snooze, PipeRecords
            <4> QED BY <2>2, <4>1, <4>3, <4>4, <4>5 DEF PipeRecords, SameTalk
        <3>4. r \in Results /\ r.s = u /\ r.err = "ok"
            BY <3>2, <3>3 DEF Result, Results, Outcomes
        <3>5. Receiving(u, data)
            <4>1. u.timer # "none"
                BY <1>1, <2>2, <3>3
            <4>2. u.events = "hup" => data = "closed"
                BY <2>2, <3>3
            <4> QED BY <2>2, <3>3, <4>1, <4>2 DEF Receiving
        <3>6. InOrder(u, "get", z, data)
            BY <2>3, <3>3, <3>5, ExpectsOn DEF SameTalk
        <3> QED BY <2>2, <2>4, <3>3, <3>4, <3>6 DEF DataHandled, Handled, SameTalk
    <2>8. CASE ~(snooze \/ y.state = "SLEEPING") /\ kind = "in"
        <3>1. PICK u : u = [y EXCEPT !.timer = "none"]
            OBVIOUS
        <3>2. r = Transfer(u, read, pause)
            BY <2>6, <2>8, <3>1
        <3>3. /\ u \in PipeRecords /\ SameTalk(y, u) /\ u.dfd = y.dfd /\ u.state = "GETTING"
              /\ u.timer = "none" /\ u.events = y.events
            <4>1. "none" \in Timers
                BY DEF Timers
            <4>2. y.state = "GETTING"
                BY <1>1, <2>2, <2>8
            <4> QED BY <2>2, <3>1, <4>1, <4>2 DEF PipeRecords, SameTalk
        <3>4. Expecting(u, z, data)
            <4>1. Receiving(u, data)
                BY <2>2, <3>3 DEF Receiving
            <4>2. u.events = "none" /\ u.p = y.p
                BY <1>1, <2>2, <2>8, <3>3 DEF SameTalk
            <4>3. InTouch(u, z)
                BY <2>3, <4>2 DEF Expecting, InTouch
            <4> QED BY <2>3, <4>1, <4>2, <4>3 DEF Expecting
        <3>5. Len(u.in) <= 6 /\ Len(u.out) <= 1 /\ (read = "eof" => data = "closed")
            BY <2>4, <2>8, <3>3 DEF SameTalk
        <3>6. DataHandled(u, r, z, data)
            BY <3>2, <3>3, <3>4, <3>5, TransferEnds
        <3> QED BY <2>2, <3>3, <3>6 DEF DataHandled, Handled, SameTalk
    <2>9. CASE ~(snooze \/ y.state = "SLEEPING") /\ kind = "hup"
        <3>1. PICK u : u = CloseTransfer(y)
            OBVIOUS
        <3>2. r = Result(u, "EALREADY")
            BY <2>6, <2>9, <3>1
        <3>3. u \in PipeRecords /\ SameTalk(y, u) /\ AllQuiet(u) /\ u.events = y.events
            <4>1. "IDLE" \in PipeStates /\ "none" \in Timers /\ "none" \in Sockets
                BY DEF PipeStates, Timers, Sockets
            <4>2. u = [y EXCEPT !.dfd = "none", !.state = "IDLE", !.timer = "none"]
                BY <3>1 DEF CloseTransfer, closeData
            <4> QED BY <2>2, <4>1, <4>2 DEF PipeRecords, SameTalk, AllQuiet, NoTransfer
        <3>4. r \in Results /\ r.s = u /\ r.err = "EALREADY"
            BY <3>2, <3>3 DEF Result, Results, Outcomes
        <3>5. u.events = "none" /\ data = "closed"
            BY <1>1, <2>2, <2>9, <3>3
        <3>6. /\ InTouch(u, z)
              /\ Answered(u, "get", data) \/ (getStatus(u.p) = 0 /\ InOrder(u, "get", z, data))
            <4>1. u.p = y.p
                BY <3>3 DEF SameTalk
            <4> QED BY <2>3, <3>3, <3>5, <4>1, ExpectsNoMore
        <3> QED BY <2>2, <2>4, <3>3, <3>4, <3>6 DEF DataHandled, Handled, SameTalk
    <2> QED BY <2>7, <2>8, <2>9
<1> QED BY <1>2, <1>3

\* What the data connection's handler left is told to the application, or not.
LEMMA DataNotified ==
  ASSUME PipeInv, Free, s.cfd # "none", cmd = "get", UNCHANGED netVars,
         NEW x \in PipeRecords, SameTalk(s, x), NEW r, DataHandled(x, r, View, xfer), Notify(r, cmd)
  PROVE  PipeInv' /\ Truthful(cmd)
<1>1. /\ report = "none" /\ dead = FALSE /\ s.calls = 0 /\ Wires
    BY FreeFacts
<1>2. PICK w : w = Talk(r.s, toServer', r.s.in \o toClient', owed')
    OBVIOUS
<1>3. w = View
    BY <1>2 DEF DataHandled, SameTalk, View, Talk, netVars
<1>4. Wires' /\ xfer' = xfer
    BY <1>1, WiresStay DEF netVars
<1>5. Handled(x, r, cmd, w, xfer') /\ x.calls = 0 /\ x.cfd # "none"
    BY <1>1, <1>3, <1>4 DEF DataHandled, SameTalk
<1>6. cmd \in {"none", "login", "TYPE", "get"}
    OBVIOUS
<1> QED BY <1>1, <1>2, <1>4, <1>5, <1>6, NotifyEnds

\* A data connection is there only with a get.
LEMMA DataFacts ==
  ASSUME PipeInv, Free, s.dfd # "none" \/ s.state = "SLEEPING"
  PROVE  /\ s.cfd # "none" /\ cmd = "get" /\ Expecting(s, View, xfer)
         /\ s \in PipeRecords /\ Len(s.in) <= 6 /\ Len(s.out) <= 1
<1>1. s.cfd # "none"
    BY DEF PipeInv, Known, AllQuiet, NoTransfer
<1>2. InOrder(s, cmd, View, xfer) /\ s \in PipeRecords /\ Len(s.in) <= 6 /\ Len(s.out) <= 1
    BY <1>1, FreeFacts
<1> QED BY <1>1, <1>2, WithData

\* DataReady.
LEMMA DataReadyInv ==
  ASSUME PipeInv, NEW read \in {"data", "block", "eof", "error"}, DataReady(read)
  PROVE  PipeInv' /\ Truthful(cmd)
<1>1. Free /\ s.dfd # "none" /\ read \in Reads /\ UNCHANGED netVars
    BY DEF DataReady
<1>2. PICK conn \in DataConnects, early \in (IF s.later THEN BOOLEAN ELSE {FALSE}), pause \in BOOLEAN :
         Notify(DataIO(s, "in", conn, early, read, pause), cmd)
    BY DEF DataReady
<1>3. /\ s.cfd # "none" /\ cmd = "get" /\ Expecting(s, View, xfer)
      /\ s \in PipeRecords /\ Len(s.in) <= 6 /\ Len(s.out) <= 1
    BY <1>1, DataFacts
<1>4. PICK r, x, z, data : /\ r = DataIO(s, "in", conn, early, read, pause)
                           /\ x = s /\ z = View /\ data = xfer
    OBVIOUS
<1>5. early => s.later
    BY <1>2
<1>6. read = "eof" => xfer = "closed"
    BY <1>1 DEF Reads
<1>7. DataHandled(x, r, z, data)
    <2>1. /\ x \in PipeRecords /\ Len(x.in) <= 6 /\ Len(x.out) <= 1 /\ Expecting(x, z, data)
          /\ "in" \in {"in", "hup"} /\ (early => x.later)
          /\ "in" = "hup" => data = "closed" \/ (x.state = "SLEEPING" /\ x.events = "in")
          /\ "in" = "in" /\ read = "eof" => data = "closed"
          /\ r = DataIO(x, "in", conn, early, read, pause)
        BY <1>3, <1>4, <1>5, <1>6
    <2> QED BY <2>1, DataIOEnds
<1>8. SameTalk(s, x) /\ Notify(r, cmd)
    BY <1>2, <1>4 DEF SameTalk
<1> QED BY <1>1, <1>3, <1>4, <1>7, <1>8, DataNotified

\* DataHangsUp.
LEMMA DataHangsUpInv ==
  ASSUME PipeInv, DataHangsUp
  PROVE  PipeInv' /\ Truthful(cmd)
<1>1. /\ Free /\ s.dfd # "none" /\ UNCHANGED netVars
      /\ xfer = "closed" \/ (xfer = "reset" /\ ~WantsData)
    BY DEF DataHangsUp
<1>2. PICK conn \in DataConnects : Notify(DataIO(s, "hup", conn, FALSE, "eof", FALSE), cmd)
    BY DEF DataHangsUp
<1>3. /\ s.cfd # "none" /\ cmd = "get" /\ Expecting(s, View, xfer)
      /\ s \in PipeRecords /\ Len(s.in) <= 6 /\ Len(s.out) <= 1
    BY <1>1, DataFacts
<1>4. PICK r, x, z, data, early, pause : /\ r = DataIO(s, "hup", conn, early, "eof", pause)
                                         /\ x = s /\ z = View /\ data = xfer
                                         /\ early = FALSE /\ pause = FALSE
    OBVIOUS
<1>5. xfer = "closed" \/ (s.state = "SLEEPING" /\ s.events = "in")
    <2>1. CASE xfer = "reset" /\ ~WantsData
        <3>1. s.state = "SLEEPING" /\ s.events # "none" /\ s.events # "hup"
            BY <1>3, <2>1 DEF WantsData, Expecting, Receiving
        <3>2. s.events \in {"none", "in", "hup"}
            BY <1>3 DEF PipeRecords, Events
        <3> QED BY <3>1, <3>2
    <2> QED BY <1>1, <2>1
<1>7. DataHandled(x, r, z, data)
    <2>1. /\ x \in PipeRecords /\ Len(x.in) <= 6 /\ Len(x.out) <= 1 /\ Expecting(x, z, data)
          /\ "hup" \in {"in", "hup"} /\ (early => x.later)
          /\ "hup" = "hup" => data = "closed" \/ (x.state = "SLEEPING" /\ x.events = "in")
          /\ "hup" = "in" /\ "eof" = "eof" => data = "closed"
          /\ r = DataIO(x, "hup", conn, early, "eof", pause) /\ pause \in BOOLEAN
          /\ "eof" \in {"data", "block", "eof", "error"}
        BY <1>3, <1>4, <1>5
    <2> QED BY <2>1, DataIOEnds
<1>8. SameTalk(s, x) /\ Notify(r, cmd)
    BY <1>2, <1>4 DEF SameTalk
<1> QED BY <1>1, <1>3, <1>4, <1>7, <1>8, DataNotified

\* WakeUp.
LEMMA WakeUpInv ==
  ASSUME PipeInv, WakeUp
  PROVE  PipeInv' /\ Truthful(cmd)
<1>1. Free /\ s.state = "SLEEPING" /\ UNCHANGED netVars
    BY DEF WakeUp
<1>2. PICK x : x = [s EXCEPT !.timer = "none", !.state = "GETTING", !.later = FALSE, !.events = "none"]
    OBVIOUS
<1>3. /\ s.cfd # "none" /\ cmd = "get" /\ Expecting(s, View, xfer)
      /\ s \in PipeRecords /\ Len(s.in) <= 6 /\ Len(s.out) <= 1
    BY <1>1, DataFacts
<1>4. s.dfd # "none" /\ (s.events = "hup" => xfer = "closed")
    BY <1>1, <1>3 DEF Expecting, Receiving
<1>5. \/ s.events = "none" /\ Notify(Result(x, "ok"), cmd)
      \/ /\ s.events # "none"
         /\ \E read \in Reads, pause \in BOOLEAN :
               Notify(DataIO(x, s.events, "ok", FALSE, read, pause), cmd)
    BY <1>2, <1>4 DEF WakeUp
<1>6. /\ x \in PipeRecords /\ SameTalk(s, x) /\ x.dfd = s.dfd /\ x.state = "GETTING"
      /\ x.timer = "none" /\ ~x.later /\ x.events = "none"
    <2>1. "none" \in Timers /\ "GETTING" \in PipeStates /\ FALSE \in Flags /\ "none" \in Events
        BY DEF Timers, PipeStates, Flags, Events
    <2> QED BY <1>2, <1>3, <2>1 DEF PipeRecords, SameTalk
<1>7. PICK z, data : z = View /\ data = xfer
    OBVIOUS
<1>8. Receiving(x, data)
    BY <1>4, <1>6 DEF Receiving
<1>9. Expecting(x, z, data)
    <2>1. x.p = s.p
        BY <1>6 DEF SameTalk
    <2>2. InTouch(x, z)
        BY <1>3, <1>6, <1>7 DEF Expecting, InTouch
    <2> QED BY <1>3, <1>7, <1>8, <2>1, <2>2 DEF Expecting
<1>10. Len(x.in) <= 6 /\ Len(x.out) <= 1
    BY <1>3, <1>6 DEF SameTalk
<1>11. CASE s.events = "none" /\ Notify(Result(x, "ok"), cmd)
    <2>1. PICK r : r = Result(x, "ok")
        OBVIOUS
    <2>2. r \in Results /\ r.s = x /\ r.err = "ok"
        BY <1>6, <2>1 DEF Result, Results, Outcomes
    <2>3. InOrder(x, "get", z, data)
        BY <1>6, <1>8, <1>9, ExpectsOn
    <2>4. DataHandled(x, r, z, data)
        BY <1>10, <2>2, <2>3 DEF DataHandled, Handled, SameTalk
    <2>5. Notify(r, cmd)
        BY <1>11, <2>1
    <2> QED BY <1>1, <1>3, <1>6, <1>7, <2>4, <2>5, DataNotified
<1>12. CASE s.events # "none" /\ \E read \in Reads, pause \in BOOLEAN :
                                   Notify(DataIO(x, s.events, "ok", FALSE, read, pause), cmd)
    <2>1. PICK read \in Reads, pause \in BOOLEAN : Notify(DataIO(x, s.events, "ok", FALSE, read, pause), cmd)
        BY <1>12
    <2>2. PICK r, kind, early, conn : /\ kind = s.events /\ early = FALSE /\ conn = "ok"
                                      /\ r = DataIO(x, kind, conn, early, read, pause)
        OBVIOUS
    <2>3. /\ kind \in {"in", "hup"} /\ (kind = "hup" => data = "closed")
        <3>1. s.events \in {"none", "in", "hup"}
            BY <1>3 DEF PipeRecords, Events
        <3> QED BY <1>4, <1>7, <1>12, <2>2, <3>1
    <2>4. /\ read \in {"data", "block", "eof", "error"} /\ (read = "eof" => data = "closed")
        BY <1>7 DEF Reads
    <2>5. DataHandled(x, r, z, data)
        <3>1. /\ kind = "hup" => data = "closed" \/ (x.state = "SLEEPING" /\ x.events = "in")
              /\ kind = "in" /\ read = "eof" => data = "closed"
              /\ early => x.later
            BY <2>2, <2>3, <2>4
        <3> QED BY <1>6, <1>9, <1>10, <2>2, <2>3, <2>4, <3>1, DataIOEnds
    <2>6. Notify(r, cmd)
        BY <2>1, <2>2
    <2> QED BY <1>1, <1>3, <1>6, <1>7, <2>5, <2>6, DataNotified
<1> QED BY <1>5, <1>11, <1>12

------------------------------------------------------------------------------
(***************************************************************************)
(* The server and the network.                                             *)
(***************************************************************************)
\* The session and the application are left alone: what is in order stays so,
\* if the conversation and the command go with it.
LEMMA NetworkStep ==
  ASSUME PipeInv, UNCHANGED <<s, appVars>>, Wires',
         NEW w, w = Talk(s, toServer', s.in \o toClient', owed'),
         Alive => InTouch(s, w) /\ Working(s, cmd, w, xfer')
  PROVE  PipeInv'
<1>1. s' = s /\ cmd' = cmd /\ report' = report /\ dead' = dead /\ aborted' = aborted
    BY DEF appVars
<1>2. Typed' /\ Known'
    BY <1>1 DEF PipeInv, Typed, Known, AllQuiet, NoTransfer
<1>3. Alive' => Fit'
    <2> SUFFICES ASSUME Alive' PROVE Fit'
        OBVIOUS
    <2>1. Alive
        BY <1>1 DEF Alive
    <2>2. s.p.obuf = NoOutput /\ ~s.p.address_ready
        BY <2>1 DEF PipeInv, Fit, InOrder
    <2>3. InOrder(s, cmd, w, xfer')
        BY <2>1, <2>2 DEF InOrder
    <2>4. View' = w
        BY <1>1 DEF View, Talk
    <2>5. PICK x, c, data : x = s /\ c = cmd /\ data = xfer'
        OBVIOUS
    <2>6. x = s' /\ c = cmd'
        BY <1>1, <2>5
    <2>7. InOrder(x, c, w, data)
        BY <2>3, <2>5
    <2> QED BY <2>4, <2>5, <2>6, <2>7 DEF Fit
<1> QED BY <1>2, <1>3 DEF PipeInv

\* A command that does not depend on the server's end of the data connection.
LEMMA WorkingAnyway ==
  ASSUME NEW x, NEW c, NEW z, NEW w, NEW data, NEW next, Working(x, c, z, data),
         ~x.p.address_ready,
         AwaitsPort(x, z, data) => AwaitsPort(x, w, next),
         AwaitsEnd(x, z, data) => AwaitsEnd(x, w, next),
         AwaitsData(x, data) => AwaitsData(x, next)
  PROVE  Working(x, c, w, next)
<1>1. ~HasPort(x, z, data)
    BY DEF HasPort
<1> QED BY <1>1 DEF Working

\* A command that is read was outstanding, and nothing else.
LEMMA ReadsOutstanding ==
  ASSUME NEW z, NEW w, ReadsCommand(z, w), InStep(z), z.passive, z.p.obuf = NoOutput
  PROVE  /\ z.p.state # "IDLE"
         /\ z.p.state \in {"PASV", "RETR"} => /\ OnItsWay(z, z.p.state)
                                              /\ z.srv = <<z.p.state>>
<1>1. z.srv # <<>> /\ z.owed = <<>>
    BY DEF ReadsCommand
<1>2. ~Quiet(z) /\ ~Nothing(z) /\ ~Transferring(z)
    BY <1>1 DEF Quiet, Nothing, Under, Transferring
<1>3. ASSUME NEW c, Outstanding(z, c)
      PROVE  OnItsWay(z, c) /\ z.srv = <<c>>
    BY <1>1, <1>2, <1>3 DEF Outstanding, OnItsWay, Under
<1>4. z.p.state # "IDLE"
    BY <1>2 DEF InStep, Agreement
<1>5. CASE z.p.state \in {"PASV", "RETR"}
    <2>1. Outstanding(z, z.p.state)
        BY <1>2, <1>5 DEF InStep, Agreement, Commands
    <2> QED BY <1>3, <1>4, <2>1
<1> QED BY <1>4, <1>5

\* The server is asked for a port before it sends, and for a file before it
\* opens a transfer.
LEMMA ReadKeepsWorking ==
  ASSUME NEW x, NEW c, NEW z, NEW w, NEW data, NEW next,
         InOrder(x, c, z, data), z.p = x.p, z.passive, ReadsCommand(z, w),
         next = IF Head(z.srv) = "PASV" THEN "none" ELSE data
  PROVE  InTouch(x, w) /\ Working(x, c, w, next)
<1>1. Sound(z) /\ InStep(z) /\ Honest(z.lines) /\ x.p.obuf = NoOutput /\ ~x.p.address_ready
    BY DEF InOrder, InTouch
<1>2. Sound(w) /\ InStep(w) /\ w.lines = z.lines /\ w.p = z.p
    BY <1>1, ReadSound, ReadInStep DEF ReadsCommand
<1>3. InTouch(x, w)
    BY <1>2 DEF InTouch, InOrder
<1>4. /\ x.p.state # "IDLE"
      /\ x.p.state \in {"PASV", "RETR"} => OnItsWay(z, x.p.state) /\ z.srv = <<x.p.state>>
    BY <1>1, ReadsOutstanding
<1>5. ASSUME AwaitsPort(x, z, data) PROVE AwaitsPort(x, w, next)
    <2>1. z.srv = <<"PASV">>
        BY <1>4, <1>5 DEF AwaitsPort
    <2>2. next = "none"
        BY <2>1
    <2> QED BY <1>5, <2>2 DEF AwaitsPort
<1>6. ASSUME AwaitsEnd(x, z, data) PROVE AwaitsEnd(x, w, next)
    <2>1. OnItsWay(z, "RETR") /\ z.srv = <<"RETR">>
        BY <1>4, <1>6 DEF AwaitsEnd
    <2>2. data = "none"
        BY <1>6, <2>1 DEF AwaitsEnd, NotAsked
    <2>3. next = data
        BY <2>1
    <2> QED BY <1>6, <2>2, <2>3 DEF AwaitsEnd, NotAsked
<1>7. ~AwaitsData(x, data)
    BY <1>4 DEF AwaitsData
<1> QED BY <1>1, <1>3, <1>5, <1>6, <1>7, WorkingAnyway DEF InOrder

\* What the server sends begins when it says so.
LEMMA AnnounceKeepsWorking ==
  ASSUME NEW x, NEW c, NEW z, NEW w, NEW data,
         InOrder(x, c, z, data), z.p = x.p, z.passive, Announces(z, w)
  PROVE  InTouch(x, w) /\ Working(x, c, w, "sending")
<1>1. Sound(z) /\ InStep(z) /\ Honest(z.lines) /\ x.p.obuf = NoOutput /\ ~x.p.address_ready
    BY DEF InOrder, InTouch
<1>2. Sound(w) /\ InStep(w) /\ Honest(w.lines) /\ w.p = z.p
    BY <1>1, AnnounceSound, AnnounceInStep, HonestServer DEF Announces
<1>3. InTouch(x, w)
    BY <1>2 DEF InTouch, InOrder
<1>4. /\ ~Quiet(z) /\ ~Transferring(z)
      /\ ~Outstanding(z, "PASV")
    BY <1>1, AnnounceKeeps DEF Questions, Commands
<1>5. x.p.state # "IDLE" /\ x.p.state # "PASV"
    BY <1>1, <1>4 DEF InStep, Agreement, Commands
<1>6. ASSUME AwaitsEnd(x, z, data) PROVE AwaitsEnd(x, w, "sending")
    <2>1. Outstanding(z, "RETR")
        BY <1>1, <1>4, <1>6 DEF InStep, Agreement, AwaitsEnd
    <2>2. z.owed = <<"RETR">> /\ w.owed = <<"RETR2">>
        BY DEF Announces
    <2>3. OnItsWay(z, "RETR")
        BY <2>1, <2>2 DEF Outstanding, Nothing, Under
    <2>4. data = "none"
        BY <1>6, <2>3 DEF AwaitsEnd, NotAsked
    <2>5. Receiving(x, "sending")
        BY <1>6, <2>4 DEF AwaitsEnd, DataPart, Receiving
    <2>6. ~OnItsWay(w, "RETR")
        BY <2>2 DEF OnItsWay, Under
    <2> QED BY <1>6, <2>5, <2>6 DEF AwaitsEnd, NotAsked, DataPart
<1>7. ~AwaitsData(x, data) /\ ~AwaitsPort(x, z, data)
    BY <1>5 DEF AwaitsData, AwaitsPort
<1> QED BY <1>1, <1>3, <1>6, <1>7, WorkingAnyway DEF InOrder

\* A reply says nothing of the data connection.
LEMMA ReplyKeepsWorking ==
  ASSUME NEW x, NEW c, NEW z, NEW w, NEW data,
         InOrder(x, c, z, data), z.p = x.p, z.passive, Replies(z, w), Allowed(z, w)
  PROVE  InTouch(x, w) /\ Working(x, c, w, data)
<1>1. Sound(z) /\ InStep(z) /\ Honest(z.lines) /\ x.p.obuf = NoOutput /\ ~x.p.address_ready
    BY DEF InOrder, InTouch
<1>2. /\ Sound(w) /\ InStep(w) /\ Honest(w.lines) /\ w.p = z.p /\ w.srv = z.srv
      /\ z.owed # <<>> /\ w.owed = <<>>
    BY <1>1, ReplySound, ReplyInStep, HonestServer DEF Replies
<1>3. InTouch(x, w)
    BY <1>2 DEF InTouch, InOrder
<1>4. AwaitsPort(x, z, data) => AwaitsPort(x, w, data)
    BY <1>2 DEF AwaitsPort
<1>5. ASSUME AwaitsEnd(x, z, data) PROVE AwaitsEnd(x, w, data)
    <2>1. Outstanding(z, "RETR") \/ Transferring(z)
        BY <1>1, <1>5 DEF InStep, Agreement, AwaitsEnd
    <2>2. z.srv = <<>>
        BY <1>2, <2>1 DEF Outstanding, Transferring, OnItsWay, Nothing, Under
    <2>3. ~OnItsWay(w, "RETR")
        BY <1>1, <1>2, <2>2 DEF OnItsWay, Under, NoOutput
    <2> QED BY <1>5, <2>3 DEF AwaitsEnd, NotAsked
<1> QED BY <1>1, <1>3, <1>4, <1>5, WorkingAnyway DEF InOrder

\* The end of the data comes after their beginning.
LEMMA EndKeepsWorking ==
  ASSUME NEW x, NEW c, NEW z, NEW next, InOrder(x, c, z, "sending")
  PROVE  InTouch(x, z) /\ Working(x, c, z, next)
<1>1. InTouch(x, z) /\ Working(x, c, z, "sending") /\ ~x.p.address_ready
    BY DEF InOrder
<1>2. Receiving(x, "sending") => Receiving(x, next)
    BY DEF Receiving
<1>3. AwaitsPort(x, z, "sending") => AwaitsPort(x, z, next)
    BY DEF AwaitsPort
<1>4. AwaitsEnd(x, z, "sending") => AwaitsEnd(x, z, next)
    BY <1>2 DEF AwaitsEnd, NotAsked, DataPart
<1>5. AwaitsData(x, "sending") => AwaitsData(x, next)
    BY <1>2 DEF AwaitsData
<1> QED BY <1>1, <1>3, <1>4, <1>5, WorkingAnyway

\* The invariant, seen from the network.
LEMMA NetworkFacts ==
  ASSUME PipeInv
  PROVE  /\ s \in PipeRecords /\ s.in \in Seq(Lines) /\ s.out \in Seq(Commands) /\ Wires
         /\ View.p = s.p /\ View.srv = toServer \o s.out /\ View.lines = s.in \o toClient
         /\ View.owed = owed /\ View.tried /\ View.passive
         /\ Alive => InOrder(s, cmd, View, xfer)
BY DEF PipeInv, Typed, PipeRecords, LineSeqs, CommandSeqs, View, Talk, Fit

\* ServerReads.
LEMMA ServerReadsInv ==
  ASSUME PipeInv, ServerReads
  PROVE  PipeInv'
<1>1. /\ owed = <<>> /\ toServer # <<>>
      /\ owed' = <<Head(toServer)>> /\ toServer' = Tail(toServer)
      /\ xfer' = IF Head(toServer) = "PASV" THEN "none" ELSE xfer
      /\ UNCHANGED <<s, appVars>> /\ toClient' = toClient /\ broken' = broken
    BY DEF ServerReads
<1>2. /\ s.out \in Seq(Commands) /\ Wires
      /\ View.p = s.p /\ View.srv = toServer \o s.out /\ View.lines = s.in \o toClient
      /\ View.owed = owed /\ View.tried /\ View.passive
      /\ Alive => InOrder(s, cmd, View, xfer)
    BY NetworkFacts
<1>3. toServer \in Seq(Commands)
    BY <1>2 DEF Wires, CommandSeqs
<1>4. /\ toServer \o s.out # <<>> /\ Head(toServer \o s.out) = Head(toServer)
      /\ Tail(toServer \o s.out) = Tail(toServer) \o s.out
    <2>1. ASSUME NEW a \in Seq(Commands), NEW b \in Seq(Commands), a # <<>>
          PROVE  a \o b # <<>> /\ Head(a \o b) = Head(a) /\ Tail(a \o b) = Tail(a) \o b
        BY <2>1
    <2> QED BY <1>1, <1>2, <1>3, <2>1
<1>5. Wires'
    <2>1. Head(toServer) \in Commands /\ Tail(toServer) \in Seq(Commands)
        BY <1>1, <1>3
    <2>2. owed' \in Debts
        BY <1>1, <2>1 DEF Debts
    <2>3. xfer' \in Datas
        BY <1>1, <1>2 DEF Wires, Datas
    <2> QED BY <1>1, <1>2, <2>1, <2>2, <2>3 DEF Wires, CommandSeqs
<1>6. PICK z, w : z = View /\ w = Talk(s, toServer', s.in \o toClient', owed')
    OBVIOUS
<1>7. ReadsCommand(z, w) /\ z.passive /\ z.p = s.p /\ Head(z.srv) = Head(toServer)
    <2>1. w.p = s.p /\ w.srv = Tail(toServer) \o s.out /\ w.lines = s.in \o toClient
        BY <1>1, <1>6 DEF Talk
    <2>2. w.owed = <<Head(toServer)>> /\ w.tried = TRUE /\ w.passive = TRUE
        BY <1>1, <1>6 DEF Talk
    <2>3. z.tried = TRUE /\ z.passive = TRUE
        BY <1>6 DEF View, Talk
    <2> QED BY <1>1, <1>2, <1>4, <1>6, <2>1, <2>2, <2>3 DEF ReadsCommand, SameEnds
<1>8. ASSUME Alive PROVE InTouch(s, w) /\ Working(s, cmd, w, xfer')
    <2>1. PICK next : next = xfer'
        OBVIOUS
    <2>2. InOrder(s, cmd, z, xfer) /\ next = IF Head(z.srv) = "PASV" THEN "none" ELSE xfer
        BY <1>1, <1>2, <1>6, <1>7, <1>8, <2>1
    <2> QED BY <1>7, <2>1, <2>2, ReadKeepsWorking
<1> QED BY <1>1, <1>5, <1>6, <1>8, NetworkStep

\* ServerStartsTransfer.
LEMMA ServerStartsTransferInv ==
  ASSUME PipeInv, ServerStartsTransfer
  PROVE  PipeInv'
<1> DEFINE l == Line("RETR", 150, " ", TRUE)
<1>0. l \in Lines
    BY DEF Line, Lines, Commands, Separators
<1>1. /\ owed = <<"RETR">> /\ owed' = <<"RETR2">> /\ xfer' = "sending"
      /\ toClient' = Append(toClient, l) /\ toServer' = toServer /\ broken' = broken
      /\ UNCHANGED <<s, appVars>>
    BY DEF ServerStartsTransfer
<1> HIDE DEF l
<1>2. /\ s.in \in Seq(Lines) /\ Wires
      /\ View.p = s.p /\ View.srv = toServer \o s.out /\ View.lines = s.in \o toClient
      /\ View.owed = owed /\ View.tried /\ View.passive
      /\ Alive => InOrder(s, cmd, View, xfer)
    BY NetworkFacts
<1>3. toClient \in Seq(Lines)
    BY <1>2 DEF Wires, LineSeqs
<1>4. s.in \o Append(toClient, l) = Append(s.in \o toClient, l)
    <2>1. ASSUME NEW a \in Seq(Lines), NEW b \in Seq(Lines), NEW e \in Lines
          PROVE  a \o Append(b, e) = Append(a \o b, e)
        BY SMT
    <2> QED BY <1>0, <1>2, <1>3, <2>1
<1>5. Wires'
    <2>1. toClient' \in Seq(Lines) /\ owed' \in Debts /\ xfer' \in Datas
        BY <1>0, <1>1, <1>3 DEF Debts, Datas
    <2> QED BY <1>1, <1>2, <2>1 DEF Wires, LineSeqs
<1>6. PICK z, w : z = View /\ w = Talk(s, toServer', s.in \o toClient', owed')
    OBVIOUS
<1>7. Announces(z, w) /\ z.passive /\ z.p = s.p
    <2>1. w.p = s.p /\ w.srv = toServer \o s.out /\ w.lines = Append(s.in \o toClient, l)
        BY <1>1, <1>4, <1>6 DEF Talk
    <2>2. w.owed = <<"RETR2">> /\ w.tried = TRUE /\ w.passive = TRUE
        BY <1>1, <1>6 DEF Talk
    <2>3. z.tried = TRUE /\ z.passive = TRUE
        BY <1>6 DEF View, Talk
    <2> QED BY <1>1, <1>2, <1>6, <2>1, <2>2, <2>3 DEF Announces, SameEnds, l
<1>8. ASSUME Alive PROVE InTouch(s, w) /\ Working(s, cmd, w, xfer')
    <2>1. InOrder(s, cmd, z, xfer)
        BY <1>2, <1>6, <1>8
    <2>2. InTouch(s, w) /\ Working(s, cmd, w, "sending")
        BY <1>7, <2>1, AnnounceKeepsWorking
    <2> QED BY <1>1, <2>2
<1> QED BY <1>1, <1>5, <1>6, <1>8, NetworkStep

\* ServerReplies.
LEMMA ServerRepliesInv ==
  ASSUME PipeInv, ServerReplies
  PROVE  PipeInv'
<1> DEFINE c == Asked(owed)
<1>1. /\ owed # <<>> /\ owed' = <<>> /\ xfer' = xfer /\ toServer' = toServer
      /\ broken' = broken /\ UNCHANGED <<s, appVars>>
    BY DEF ServerReplies
<1>2. /\ s.in \in Seq(Lines) /\ Wires
      /\ View.p = s.p /\ View.srv = toServer \o s.out /\ View.lines = s.in \o toClient
      /\ View.owed = owed /\ View.tried /\ View.passive
      /\ Alive => InOrder(s, cmd, View, xfer)
    BY NetworkFacts
<1>3. toClient \in Seq(Lines)
    BY <1>2 DEF Wires, LineSeqs
<1>4. c \in Commands \cup {"HELLO"}
    <2>1. PICK q \in Commands \cup {"HELLO", "RETR2"} : owed = <<q>>
        BY <1>1, <1>2 DEF Wires, Debts
    <2>2. owed[1] = q
        BY <2>1
    <2> QED BY <2>1, <2>2 DEF Commands, Asked
<1>5. PICK v \in Verdicts(c) :
         /\ c = "PASV" /\ v = 200 => NoAddress
         /\ toClient' = toClient \o OneLine(c, v) \/ toClient' = toClient \o ThreeLines(c, v)
    <2>1. PICK v \in CASE owed[1] = "RETR" -> {550} [] owed[1] = "RETR2" -> {226, 426}
                       [] OTHER -> Verdicts(c) \ (IF c = "PASV" /\ ~NoAddress THEN {200} ELSE {}) :
             \E lines \in {OneLine(c, v)} \cup (IF MultiLine THEN {ThreeLines(c, v)} ELSE {}) :
                toClient' = toClient \o lines
        BY DEF ServerReplies, Asked
    <2>2. toClient' = toClient \o OneLine(c, v) \/ toClient' = toClient \o ThreeLines(c, v)
        BY <2>1
    <2>3. v \in Verdicts(c) /\ (c = "PASV" /\ v = 200 => NoAddress)
        <3>1. CASE owed[1] \in {"RETR", "RETR2"}
            <4>1. c = "RETR" /\ v \in {226, 426, 550}
                BY <2>1, <3>1 DEF Asked
            <4> QED BY <4>1 DEF Verdicts
        <3>2. CASE owed[1] \notin {"RETR", "RETR2"}
            BY <2>1, <3>2
        <3> QED BY <3>1, <3>2
    <2> QED BY <2>2, <2>3
<1>6. OneLine(c, v) \in Seq(Lines) /\ ThreeLines(c, v) \in Seq(Lines)
    BY <1>4, ServerLines
<1>7. PICK t \in {OneLine(c, v), ThreeLines(c, v)} : toClient' = toClient \o t
    BY <1>5
<1>8. t \in Seq(Lines) /\ toClient' \in Seq(Lines) /\ s.in \o toClient' = (s.in \o toClient) \o t
    <2>1. ASSUME NEW d \in Seq(Lines), NEW e \in Seq(Lines), NEW f \in Seq(Lines)
          PROVE  d \o (e \o f) = (d \o e) \o f /\ e \o f \in Seq(Lines)
        BY SMT
    <2>2. t \in Seq(Lines)
        BY <1>6, <1>7
    <2>3. toClient \o t \in Seq(Lines) /\ s.in \o (toClient \o t) = (s.in \o toClient) \o t
        BY <1>2, <1>3, <2>1, <2>2
    <2> QED BY <1>7, <2>2, <2>3
<1>9. Wires'
    BY <1>1, <1>2, <1>8 DEF Wires, LineSeqs, Debts
<1>10. PICK z, w : z = View /\ w = Talk(s, toServer', s.in \o toClient', owed')
    OBVIOUS
<1>11. Replies(z, w) /\ Allowed(z, w) /\ z.passive /\ z.p = s.p
    <2>1. w.p = s.p /\ w.srv = toServer \o s.out /\ w.lines = (s.in \o toClient) \o t
        BY <1>1, <1>8, <1>10 DEF Talk
    <2>2. w.owed = <<>> /\ w.tried = TRUE /\ w.passive = TRUE
        BY <1>1, <1>10 DEF Talk
    <2>3. z.tried = TRUE /\ z.passive = TRUE
        BY <1>10 DEF View, Talk
    <2>4. z.owed = owed /\ w.lines = z.lines \o t
        BY <1>2, <1>10, <2>1
    <2>5. Asked(z.owed) = c
        BY <2>4
    <2>6. w.lines = z.lines \o OneLine(Asked(z.owed), v) \/ w.lines = z.lines \o ThreeLines(Asked(z.owed), v)
        BY <1>7, <2>4, <2>5
    <2>7. Replies(z, w)
        BY <1>1, <1>2, <1>10, <2>1, <2>2, <2>3, <2>4, <2>5, <2>6 DEF Replies, SameEnds
    <2>8. Allowed(z, w)
        BY <1>5, <2>5, <2>6 DEF Allowed
    <2> QED BY <2>3, <2>7, <2>8, <1>2, <1>10
<1>12. ASSUME Alive PROVE InTouch(s, w) /\ Working(s, cmd, w, xfer')
    <2>1. InOrder(s, cmd, z, xfer)
        BY <1>2, <1>10, <1>12
    <2>2. InTouch(s, w) /\ Working(s, cmd, w, xfer)
        BY <1>11, <2>1, ReplyKeepsWorking
    <2> QED BY <1>1, <2>2
<1> QED BY <1>1, <1>9, <1>10, <1>12, NetworkStep

\* ServerClosesData.
LEMMA ServerClosesDataInv ==
  ASSUME PipeInv, ServerClosesData
  PROVE  PipeInv'
<1>1. /\ xfer = "sending" /\ xfer' \in {"closed", "reset"}
      /\ UNCHANGED <<s, appVars>> /\ toServer' = toServer /\ toClient' = toClient
      /\ owed' = owed /\ broken' = broken
    BY DEF ServerClosesData
<1>2. Wires /\ (Alive => InOrder(s, cmd, View, xfer))
    BY NetworkFacts
<1>3. Wires'
    BY <1>1, <1>2 DEF Wires, Datas
<1>4. PICK z, next : z = View /\ next = xfer'
    OBVIOUS
<1>5. z = Talk(s, toServer', s.in \o toClient', owed')
    BY <1>1, <1>4 DEF View
<1>6. ASSUME Alive PROVE InTouch(s, z) /\ Working(s, cmd, z, xfer')
    <2>1. InOrder(s, cmd, z, "sending")
        BY <1>1, <1>2, <1>4, <1>6
    <2>2. InTouch(s, z) /\ Working(s, cmd, z, next)
        BY <2>1, EndKeepsWorking
    <2> QED BY <1>4, <2>2
<1> QED BY <1>1, <1>3, <1>5, <1>6, NetworkStep

\* ConnectionBreaks, and steps of others: nothing of the conversation changes.
LEMMA NothingSaid ==
  ASSUME PipeInv, UNCHANGED <<s, appVars, toServer, toClient, owed, xfer>>, broken' \in BOOLEAN
  PROVE  PipeInv'
<1>1. /\ UNCHANGED <<s, appVars>> /\ toServer' = toServer /\ toClient' = toClient
      /\ owed' = owed /\ xfer' = xfer
    OBVIOUS
<1>2. Wires /\ (Alive => InOrder(s, cmd, View, xfer))
    BY NetworkFacts
<1>3. Wires'
    BY <1>1, <1>2 DEF Wires
<1>4. PICK z : z = View
    OBVIOUS
<1>5. z = Talk(s, toServer', s.in \o toClient', owed')
    BY <1>1, <1>4 DEF View
<1>6. ASSUME Alive PROVE InTouch(s, z) /\ Working(s, cmd, z, xfer')
    BY <1>1, <1>2, <1>4, <1>6 DEF InOrder
<1> QED BY <1>1, <1>3, <1>5, <1>6, NetworkStep

------------------------------------------------------------------------------
(***************************************************************************)
(* Every step keeps the invariant, and what it reports is true.            *)
(***************************************************************************)
\* A verdict comes from an event, for a command that was awaited, unless the
\* application's own call reports it at once.
TrueVerdict ==
    report = "none" /\ report' \in {"ok", "bad"} =>
       \/ AppStep /\ cmd = "none"
       \/ Truthful(cmd) /\ owed' = owed /\ xfer' = xfer

\* The application's calls.
LEMMA AppStepInv ==
  ASSUME GivesUp, PipeInv, AppStep
  PROVE  PipeInv' /\ TrueVerdict
<1>1. ASSUME ConnectFails PROVE PipeInv' /\ report' = report
    BY <1>1, ConnectFailsInv DEF ConnectFails, appVars
<1>2. ASSUME Shutdown PROVE PipeInv' /\ report' = report
    BY <1>2, ShutdownInv DEF Shutdown
<1>3. ASSUME NEW flush \in FlushOutcomes, SimpleCommand("TYPE", flush)
      PROVE  PipeInv' /\ cmd = "none"
    BY <1>3, SimpleCommandInv DEF SimpleCommand, CanCall
<1>4. ASSUME NEW flush \in FlushOutcomes, Get(flush)
      PROVE  PipeInv' /\ cmd = "none"
    BY <1>4, GetInv, GetStranded DEF Get, CanCall
<1>5. ASSUME NEW conn \in {"connecting", "open"}, NEW flush, ConnectAndLogin(conn, flush)
      PROVE  PipeInv' /\ cmd = "none"
    BY <1>5, ConnectAndLoginInv DEF ConnectAndLogin
<1>6. \/ ConnectFails \/ Shutdown
      \/ \E flush \in FlushOutcomes : SimpleCommand("TYPE", flush) \/ Get(flush)
      \/ \E conn \in {"connecting", "open"} : \E flush : ConnectAndLogin(conn, flush)
    BY DEF AppStep
<1>7. PipeInv' /\ (report' = report \/ cmd = "none")
    BY <1>1, <1>2, <1>3, <1>4, <1>5, <1>6
<1>8. TrueVerdict
    BY <1>7 DEF TrueVerdict
<1> QED BY <1>7, <1>8

\* The server, and the network.
LEMMA ServerStepInv ==
  ASSUME PipeInv, ServerStep \/ ConnectionBreaks \/ Halted \/ UNCHANGED vars
  PROVE  PipeInv' /\ report' = report
<1>1. CASE ServerStep
    <2>1. PipeInv'
        BY <1>1, ServerReadsInv, ServerStartsTransferInv, ServerRepliesInv, ServerClosesDataInv
           DEF ServerStep
    <2>2. UNCHANGED appVars
        BY <1>1 DEF ServerStep, ServerReads, ServerStartsTransfer, ServerReplies, ServerClosesData
    <2> QED BY <2>1, <2>2 DEF appVars
<1>2. CASE ConnectionBreaks
    BY <1>2, NothingSaid DEF ConnectionBreaks, appVars
<1>3. CASE Halted \/ UNCHANGED vars
    <2>1. UNCHANGED <<s, appVars, toServer, toClient, owed, xfer>> /\ broken' = broken
        BY <1>3 DEF Halted, vars, netVars
    <2>2. broken \in BOOLEAN
        BY DEF PipeInv, Typed, Wires
    <2> QED BY <2>1, <2>2, NothingSaid DEF appVars
<1> QED BY <1>1, <1>2, <1>3

\* The events.
LEMMA EventInv ==
  ASSUME PipeInv,
         \/ ControlBreaks
         \/ \E flush \in FlushOutcomes :
               \/ ControlConnects(flush)
               \/ \E n \in 0..Len(toClient), port \in PortOutcomes : ControlReady(n, flush, port)
         \/ \E read \in {"data", "block", "eof", "error"} : DataReady(read)
         \/ DataHangsUp
         \/ WakeUp
  PROVE  PipeInv' /\ Truthful(cmd) /\ owed' = owed /\ xfer' = xfer
<1>1. CASE ControlBreaks
    BY <1>1, ControlBreaksInv DEF ControlBreaks, netVars
<1>2. ASSUME NEW flush, ControlConnects(flush)
      PROVE  PipeInv' /\ Truthful(cmd) /\ owed' = owed /\ xfer' = xfer
    BY <1>2, ControlConnectsInv DEF ControlConnects
<1>3. ASSUME NEW flush, NEW n \in 0..Len(toClient), NEW port \in PortOutcomes,
             ControlReady(n, flush, port)
      PROVE  PipeInv' /\ Truthful(cmd) /\ owed' = owed /\ xfer' = xfer
    BY <1>3, ControlReadyInv DEF ControlReady
<1>4. ASSUME NEW read \in {"data", "block", "eof", "error"}, DataReady(read)
      PROVE  PipeInv' /\ Truthful(cmd) /\ owed' = owed /\ xfer' = xfer
    BY <1>4, DataReadyInv DEF DataReady, netVars
<1>5. CASE DataHangsUp
    BY <1>5, DataHangsUpInv DEF DataHangsUp, netVars
<1>6. CASE WakeUp
    BY <1>6, WakeUpInv DEF WakeUp, netVars
<1> QED BY <1>1, <1>2, <1>3, <1>4, <1>5, <1>6

\* Every step.
LEMMA NextInv ==
  ASSUME GivesUp, PipeInv, [Next]_vars
  PROVE  PipeInv' /\ TrueVerdict
<1>1. CASE AppStep
    BY <1>1, AppStepInv
<1>2. CASE CallbackReturn
    BY <1>2, CallbackReturnInv DEF TrueVerdict
<1>3. CASE \/ ControlBreaks
           \/ \E flush \in FlushOutcomes :
                 \/ ControlConnects(flush)
                 \/ \E n \in 0..Len(toClient), port \in PortOutcomes : ControlReady(n, flush, port)
           \/ \E read \in {"data", "block", "eof", "error"} : DataReady(read)
           \/ DataHangsUp
           \/ WakeUp
    BY <1>3, EventInv DEF TrueVerdict
<1>4. CASE Timeout
    BY <1>4, TimeoutInv DEF TrueVerdict
<1>5. CASE ServerStep \/ ConnectionBreaks \/ Halted \/ UNCHANGED vars
    BY <1>5, ServerStepInv DEF TrueVerdict
<1> QED BY <1>1, <1>2, <1>3, <1>4, <1>5 DEF Next

\* So the invariant holds in every reachable state.
LEMMA AlwaysPipeInv ==
  ASSUME GivesUp
  PROVE  Spec => []PipeInv
<1>1. Init => PipeInv
    BY InitInv
<1>2. PipeInv /\ [Next]_vars => PipeInv'
    BY NextInv
<1> QED BY <1>1, <1>2, PTL DEF Spec

------------------------------------------------------------------------------
(***************************************************************************)
(* The fields keep their types: in particular the session never holds more *)
(* than six lines unread, one line unsent and one call of ftpCmdDone under *)
(* way.                                                                    *)
(***************************************************************************)
THEOREM PipeTypes ==
  ASSUME GivesUp
  PROVE  Spec => []TypeOK
<1>1. PipeInv => TypeOK
    <2> SUFFICES ASSUME PipeInv PROVE TypeOK
        OBVIOUS
    <2>1. Typed /\ aborted \in BOOLEAN
        BY DEF PipeInv, Known
    <2>2. s.p \in ProtoRecords
        BY <2>1 DEF Typed, PipeRecords
    <2>3. s.p.state \in States
        BY <2>2 DEF ProtoRecords
    <2> QED BY <2>1, <2>3 DEF TypeOK, Typed, Wires, PipeRecords, PipeStates, Sockets, Timers,
                   Events, Flags, Depths, Datas
<1> QED BY <1>1, AlwaysPipeInv, PTL

(***************************************************************************)
(* The assertions of the session: no data event comes while it is idle,    *)
(* its data socket is there when it is woken, and it is not scheduled      *)
(* while it is; except by the get that follows one which ended without an  *)
(* address, when the server's successful replies to PASV may lack one.     *)
(***************************************************************************)
THEOREM AssertionsHold ==
  ASSUME GivesUp
  PROVE  Spec => []AssertsHold
<1>1. PipeInv => AssertsHold
    BY DEF PipeInv, Known, AssertsHold
<1> QED BY <1>1, AlwaysPipeInv, PTL

(***************************************************************************)
(* So none can fail if those replies have their address.                   *)
(***************************************************************************)
THEOREM NoneFails ==
  ASSUME GivesUp, NoAddress = FALSE
  PROVE  Spec => []NoAssertFails
<1>1. AssertsHold => NoAssertFails
    BY DEF AssertsHold, NoAssertFails, Stranded
<1> QED BY <1>1, AssertionsHold, PTL

(***************************************************************************)
(* ftpCmdDone is called when a command is done: between two calls of the   *)
(* session the application awaits none that was answered and whose data    *)
(* have come, nor one of a session that was shut down.                     *)
(***************************************************************************)
THEOREM DoneIsReported ==
  ASSUME GivesUp
  PROVE  Spec => []CompletionReported
<1>1. PipeInv => CompletionReported
    <2> SUFFICES ASSUME PipeInv, Free, cmd # "none"
                 PROVE  s.cfd # "none" /\ (getStatus(s.p) = 0 \/ s.dfd # "none")
        BY DEF CompletionReported
    <2>1. s.cfd # "none"
        BY DEF PipeInv, Known
    <2>2. InOrder(s, cmd, View, xfer)
        BY <2>1, FreeFacts
    <2>3. PICK z : z = View
        OBVIOUS
    <2>4. InStep(z) /\ z.p = s.p /\ z.tried /\ Working(s, cmd, z, xfer)
        BY <2>2, <2>3 DEF InOrder, InTouch, View, Talk
    <2>5. CASE s.p.state \notin {"IDLE", "INIT"}
        BY <2>1, <2>5 DEF getStatus
    <2>6. CASE s.p.state = "INIT"
        <3>1. LoggingIn(s)
            BY <2>4, <2>6 DEF Working, AwaitsPort, HasPort, AwaitsEnd, AwaitsData
        <3>2. s.p.status = 0
            BY <2>4, <2>6, <3>1 DEF LoggingIn, InStep, Agreement
        <3> QED BY <2>1, <2>6, <3>2 DEF getStatus
    <2>7. CASE s.p.state = "IDLE"
        <3>1. AwaitsData(s, xfer)
            BY <2>4, <2>7 DEF Working, LoggingIn, AwaitsPort, HasPort, AwaitsEnd
        <3> QED BY <2>1, <3>1 DEF AwaitsData, Receiving
    <2> QED BY <2>5, <2>6, <2>7
<1> QED BY <1>1, AlwaysPipeInv, PTL

(***************************************************************************)
(* Between commands a session that goes on holds no data socket and is not *)
(* scheduled: no timeout of an earlier command can end a later one. The    *)
(* exception is the get that ended without an address.                     *)
(***************************************************************************)
THEOREM NothingIsLeft ==
  ASSUME GivesUp
  PROVE  Spec => []NoLeftovers
<1>1. PipeInv => NoLeftovers
    <2> SUFFICES ASSUME PipeInv, cmd = "none", ~dead, report \in {"none", "ok"}
                 PROVE  \/ s.dfd = "none" /\ s.timer = "none" /\ s.state = "IDLE"
                        \/ Stranded(s)
        BY DEF NoLeftovers
    <2>1. CASE s.cfd = "none"
        BY <2>1 DEF PipeInv, Known, AllQuiet, NoTransfer
    <2>2. CASE s.cfd # "none"
        <3>1. InOrder(s, cmd, View, xfer)
            BY <2>2 DEF PipeInv, Alive, Fit
        <3> QED BY <3>1 DEF InOrder, Working, Rests, AllQuiet, NoTransfer
    <2> QED BY <2>1, <2>2
<1> QED BY <1>1, AlwaysPipeInv, PTL

(***************************************************************************)
(* An event reports a verdict only for a command the application awaits,   *)
(* so each command is reported once.                                       *)
(***************************************************************************)
THEOREM EachIsReportedOnce ==
  ASSUME GivesUp
  PROVE  Spec => ReportedOnce
<1>1. PipeInv /\ [Next]_vars =>
         [~AppStep /\ report = "none" /\ report' \in {"ok", "bad"} => cmd # "none"]_vars
    BY NextInv DEF TrueVerdict, Truthful
<1> QED BY <1>1, AlwaysPipeInv, PTL DEF Spec, ReportedOnce

(***************************************************************************)
(* A get that is reported successful received the whole file: the server   *)
(* closed the data connection in order, confirmed the transfer with 226,   *)
(* and owes no further reply. A connection that breaks in the middle, and  *)
(* a verdict that overtakes the data, are never reported as success. The   *)
(* only other success is that of a PASV without an address, which opens no *)
(* data connection and leaves the session stranded.                        *)
(***************************************************************************)
THEOREM FilesAreWhole ==
  ASSUME GivesUp
  PROVE  Spec => OkMeansWholeFile
<1>1. PipeInv /\ [Next]_vars =>
         [cmd = "get" /\ report = "none" /\ report' = "ok" =>
             /\ owed = <<>>
             /\ \/ xfer = "closed" /\ s'.p.status = 226
                \/ Stranded(s') /\ xfer = "none" /\ s'.p.status = 200]_vars
    BY NextInv DEF TrueVerdict, Truthful
<1> QED BY <1>1, AlwaysPipeInv, PTL DEF Spec, OkMeansWholeFile
==============================================================================
