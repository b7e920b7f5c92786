------------------------------- MODULE FtpInStep -------------------------------
(***************************************************************************)
(* What an FTP engine and a server have under way between them, and how it *)
(* stays in step, whoever carries the lines: facts about the operators of  *)
(* FtpProto.tla and FtpServer.tla that FtpSessionProof.tla and             *)
(* FtpPipeProof.tla use. A conversation is a record z: the engine's fields *)
(* (p), the commands (srv) and the reply lines (lines) on their way, what  *)
(* the server owes (owed), whether login() was called (tried) and whether  *)
(* transfers are passive (passive).                                        *)
(***************************************************************************)
EXTENDS FtpProto, FtpServer, TLAPS

\* The engine's fields, and the lines a server sends. The values of a field have
\* names of their own: setting a field preserves ProtoRecords whatever they are.
Flags == BOOLEAN
ReturnStacks == {<<>>, <<"RETR">>}
Outputs == Commands \cup {NoOutput}
Statuses == 0..599

ProtoRecords ==
    [state : States, stack : ReturnStacks, sent_user : Flags, obuf : Outputs,
     multiline : Flags, status : Statuses, address_ready : Flags]

Lines ==
    [cmd : Commands \cup {"HELLO"}, status : 0..599, sep : Separators, addr : BOOLEAN,
     first : BOOLEAN]

\* What the server can owe.
Debts == {<<>>} \cup {<<c>> : c \in Commands \cup {"HELLO", "RETR2"}}

\* The stack that goes with a state.
StackFor(s) == IF s \in {"PASV", "PORT"} THEN <<"RETR">> ELSE <<>>

------------------------------------------------------------------------------
(***************************************************************************)
(* The lines s under way are whole replies, except that of the first reply *)
(* some lines may have been read.                                          *)
(***************************************************************************)
\* A reply ends with line n.
EndsAt(s, n) == n = Len(s) \/ s[n + 1].first

\* Line n is the last one of a reply of several lines, with that status.
LastAt(s, n, status) ==
    /\ n \in 1..Len(s)
    /\ ~s[n].first /\ s[n].sep = " " /\ s[n].status = status
    /\ EndsAt(s, n)

\* The rest of a reply of several lines begins with line n.
RestAt(s, n, status) ==
    \/ LastAt(s, n, status)
    \/ n \in 1..Len(s) /\ ~s[n].first /\ s[n].sep = "x" /\ LastAt(s, n + 1, status)

\* The reply that begins with line n is whole.
WholeAt(s, n) ==
    IF s[n].sep = "-" THEN RestAt(s, n + 1, s[n].status) ELSE EndsAt(s, n)

Whole(s) == \A n \in 1..Len(s) : s[n].first => WholeAt(s, n)

\* Between two replies.
Fresh(s) == s = <<>> \/ s[1].first

------------------------------------------------------------------------------
(***************************************************************************)
(* Which replies begin among the lines s.                                  *)
(***************************************************************************)
NoReply(s) == \A n \in 1..Len(s) : ~s[n].first

\* Only one, at line k, to command c.
OneReply(s, k, c) ==
    /\ k \in 1..Len(s)
    /\ s[k].cmd = c
    /\ \A n \in 1..Len(s) : s[n].first <=> n = k

\* Two, at lines k and m, to commands c and d.
TwoReplies(s, k, m, c, d) ==
    /\ k \in 1..Len(s) /\ m \in 1..Len(s) /\ k < m
    /\ s[k].cmd = c /\ s[m].cmd = d
    /\ \A n \in 1..Len(s) : s[n].first <=> n \in {k, m}


------------------------------------------------------------------------------
(***************************************************************************)
(* A conversation.                                                         *)
(***************************************************************************)
Sound(z) ==
    /\ z.p \in ProtoRecords /\ z.p.stack = StackFor(z.p.state)
    /\ z.srv \in Seq(Commands)
    /\ z.lines \in Seq(Lines)
    /\ z.owed \in Debts
    /\ z.tried \in BOOLEAN /\ z.passive \in BOOLEAN

WellFormed(z) ==
    /\ Whole(z.lines)
    /\ IF z.p.multiline THEN RestAt(z.lines, 1, z.p.status) ELSE Fresh(z.lines)

\* What is under way outside of lines.
Under(z, output, server, debt) == z.p.obuf = output /\ z.srv = server /\ z.owed = debt

Nothing(z) == Under(z, NoOutput, <<>>, <<>>)

OnItsWay(z, c) ==
    \/ Under(z, c, <<>>, <<>>)
    \/ Under(z, NoOutput, <<c>>, <<>>)
    \/ Under(z, NoOutput, <<>>, <<c>>)

\* Nothing is outstanding.
Quiet(z) == Nothing(z) /\ NoReply(z.lines)

\* One command is outstanding, and it is c.
Outstanding(z, c) ==
    \/ OnItsWay(z, c) /\ NoReply(z.lines)
    \/ \E k \in 1..Len(z.lines) :
          Nothing(z) /\ OneReply(z.lines, k, c) /\ (c = "RETR" => ~InProgress(z.lines[k].status))

\* The server has announced a transfer: before or after the announcement is
\* read, before or after the final reply is sent.
Transferring(z) ==
    \/ Under(z, NoOutput, <<>>, <<"RETR2">>) /\ NoReply(z.lines)
    \/ \E k \in 1..Len(z.lines) :
          /\ Under(z, NoOutput, <<>>, <<"RETR2">>)
          /\ OneReply(z.lines, k, "RETR") /\ InProgress(z.lines[k].status)
    \/ \E k, m \in 1..Len(z.lines) :
          /\ Nothing(z)
          /\ TwoReplies(z.lines, k, m, "RETR", "RETR")
          /\ InProgress(z.lines[k].status) /\ ~InProgress(z.lines[m].status)

\* USER was sent ahead of the hello: both are outstanding, in this order.
SentAhead(z) ==
    \/ /\ Under(z, "USER", <<>>, <<"HELLO">>) \/ Under(z, NoOutput, <<"USER">>, <<"HELLO">>)
       /\ NoReply(z.lines)
    \/ /\ OnItsWay(z, "USER")
       /\ \E k \in 1..Len(z.lines) : OneReply(z.lines, k, "HELLO")
    \/ /\ Nothing(z)
       /\ \E k, m \in 1..Len(z.lines) : TwoReplies(z.lines, k, m, "HELLO", "USER")

\* What is outstanding in each state of the engine.
Agreement(z) ==
    /\ z.p.state # "UNINIT"
    /\ z.p.sent_user => z.p.state = "INIT"
    /\ ~z.tried => z.p.state \in {"INIT", "CONNECTED"} /\ ~z.p.sent_user
    /\ z.p.state = "INIT" /\ (z.p.sent_user \/ ~z.tried) => z.p.status = 0 /\ ~z.p.multiline
    /\ z.p.state \in {"IDLE", "CONNECTED"} => Quiet(z)
    /\ z.p.state = "INIT" =>
          IF z.p.sent_user THEN SentAhead(z)
          ELSE IF z.tried THEN Quiet(z) ELSE Outstanding(z, "HELLO")
    /\ z.p.state = "PORT" => ~z.passive
    /\ z.p.state \in Commands \ {"RETR"} => Outstanding(z, z.p.state)
    /\ z.p.state = "RETR" => \/ Outstanding(z, "RETR") \/ Transferring(z)
                             \/ ~z.passive /\ Quiet(z)

InStep(z) == WellFormed(z) /\ Agreement(z)

(***************************************************************************)
(* What may happen in a conversation z that is then w.                     *)
(***************************************************************************)
SameEnds(z, w) == w.tried = z.tried /\ w.passive = z.passive

\* The engine's output line is taken.
SendsLine(z, w) ==
    /\ z.p.obuf # NoOutput
    /\ w.p = advanceOutput(z.p) /\ w.srv = Append(z.srv, z.p.obuf)
    /\ w.lines = z.lines /\ w.owed = z.owed /\ SameEnds(z, w)

\* The engine is given a line.
TakesLine(z, w) ==
    /\ z.p.state # "IDLE" /\ z.lines # <<>>
    /\ w.p = giveInput(z.p, Head(z.lines)).p /\ w.lines = Tail(z.lines)
    /\ w.srv = z.srv /\ w.owed = z.owed /\ SameEnds(z, w)

\* The server reads a command.
ReadsCommand(z, w) ==
    /\ z.owed = <<>> /\ z.srv # <<>>
    /\ w.owed = <<Head(z.srv)>> /\ w.srv = Tail(z.srv)
    /\ w.p = z.p /\ w.lines = z.lines /\ SameEnds(z, w)

\* The server announces a transfer.
Announces(z, w) ==
    /\ z.owed = <<"RETR">> /\ w.owed = <<"RETR2">>
    /\ w.lines = Append(z.lines, Line("RETR", 150, " ", TRUE))
    /\ w.p = z.p /\ w.srv = z.srv /\ SameEnds(z, w)

\* The command a debt stands for.
Asked(debt) == IF debt[1] = "RETR2" THEN "RETR" ELSE debt[1]

\* The server replies.
Replies(z, w) ==
    /\ z.owed # <<>> /\ w.owed = <<>>
    /\ \E v \in Verdicts(Asked(z.owed)) :
          \/ w.lines = z.lines \o OneLine(Asked(z.owed), v)
          \/ w.lines = z.lines \o ThreeLines(Asked(z.owed), v)
    /\ w.p = z.p /\ w.srv = z.srv /\ SameEnds(z, w)

------------------------------------------------------------------------------
(***************************************************************************)
(* What the engine's methods do to its fields.                             *)
(***************************************************************************)
\* q has these fields of r.
Keeps(q, r) ==
    q.multiline = r.multiline /\ q.status = r.status /\ q.address_ready = r.address_ready

\* Going to a state changes nothing else.
LEMMA GotoFields ==
  ASSUME NEW q \in ProtoRecords, NEW s \in States
  PROVE  /\ Goto(q, s) \in ProtoRecords
         /\ Goto(q, s).state = s /\ Goto(q, s).stack = q.stack
         /\ Goto(q, s).sent_user = q.sent_user /\ Goto(q, s).obuf = q.obuf
         /\ Keeps(Goto(q, s), q)
BY DEF Goto, ProtoRecords, Keeps

\* Writing a command to obuf changes nothing else.
LEMMA OutputFields ==
  ASSUME NEW q \in ProtoRecords, NEW c \in Outputs
  PROVE  /\ Output(q, c) \in ProtoRecords
         /\ Output(q, c).obuf = c /\ Output(q, c).stack = q.stack
         /\ Output(q, c).sent_user = q.sent_user /\ Output(q, c).state = q.state
         /\ Keeps(Output(q, c), q)
BY DEF Output, ProtoRecords, Keeps

\* popState empties a stack of one.
LEMMA PopFields ==
  ASSUME NEW q \in ProtoRecords, q.stack = <<"RETR">>
  PROVE  /\ popState(q) \in ProtoRecords
         /\ popState(q).stack = <<>> /\ popState(q).state = q.state
         /\ popState(q).sent_user = q.sent_user /\ popState(q).obuf = q.obuf
         /\ Keeps(popState(q), q)
<1>1. SubSeq(<<"RETR">>, 1, Len(<<"RETR">>) - 1) = <<>>
    OBVIOUS
<1>2. popState(q) = [q EXCEPT !.stack = <<>>]
    BY <1>1 DEF popState
<1>3. <<>> \in ReturnStacks
    BY DEF ReturnStacks
<1> QED BY <1>2, <1>3 DEF ProtoRecords, Keeps

\* Dropping the state to return to, and becoming idle.
LEMMA PoppedFields ==
  ASSUME NEW q \in ProtoRecords, q.stack = <<"RETR">>, NEW r, r = Goto(popState(q), "IDLE")
  PROVE  /\ r \in ProtoRecords /\ r.stack = <<>> /\ r.state = "IDLE"
         /\ r.sent_user = q.sent_user /\ r.obuf = q.obuf /\ Keeps(r, q)
<1> DEFINE o == popState(q)
<1>1. /\ o \in ProtoRecords /\ o.stack = <<>> /\ o.sent_user = q.sent_user /\ o.obuf = q.obuf
      /\ Keeps(o, q)
    BY PopFields
<1> HIDE DEF o
<1>2. r = Goto(o, "IDLE") /\ "IDLE" \in States
    BY DEF o, States
<1> QED BY <1>1, <1>2, GotoFields DEF Keeps

\* returnState goes back to the state on the stack.
LEMMA ReturnFields ==
  ASSUME NEW q \in ProtoRecords, q.stack = <<"RETR">>
  PROVE  /\ returnState(q) \in ProtoRecords
         /\ returnState(q).stack = <<>> /\ returnState(q).state = "RETR"
         /\ returnState(q).sent_user = q.sent_user /\ returnState(q).obuf = q.obuf
         /\ Keeps(returnState(q), q)
<1>1. q.stack[Len(q.stack)] = "RETR" /\ "RETR" \in States
    BY DEF States
<1>2. returnState(q) = Goto(popState(q), "RETR")
    BY <1>1 DEF returnState, Goto
<1> QED BY <1>1, <1>2, PopFields, GotoFields DEF Keeps

\* callState puts the state to return to on an empty stack.
LEMMA CallFields ==
  ASSUME NEW q \in ProtoRecords, q.stack = <<>>, NEW s \in States
  PROVE  /\ callState(q, s, "RETR") \in ProtoRecords
         /\ callState(q, s, "RETR").stack = <<"RETR">> /\ callState(q, s, "RETR").state = s
         /\ callState(q, s, "RETR").sent_user = q.sent_user
         /\ callState(q, s, "RETR").obuf = q.obuf
         /\ Keeps(callState(q, s, "RETR"), q)
<1>1. callState(q, s, "RETR") = [q EXCEPT !.stack = <<"RETR">>, !.state = s]
    BY DEF callState
<1>2. <<"RETR">> \in ReturnStacks
    BY DEF ReturnStacks
<1> QED BY <1>1, <1>2 DEF ProtoRecords, Keeps

\* Setting a flag of the engine changes nothing else.
LEMMA SetMultiline ==
  ASSUME NEW q \in ProtoRecords, NEW b \in Flags, NEW r, r = [q EXCEPT !.multiline = b]
  PROVE  /\ r \in ProtoRecords /\ r.stack = q.stack /\ r.state = q.state
         /\ r.multiline = b /\ r.sent_user = q.sent_user /\ r.obuf = q.obuf
         /\ r.status = q.status /\ r.address_ready = q.address_ready
BY DEF ProtoRecords

\* The note that USER was sent ahead.
LEMMA SetSentUser ==
  ASSUME NEW q \in ProtoRecords, NEW b \in Flags, NEW r, r = [q EXCEPT !.sent_user = b]
  PROVE  /\ r \in ProtoRecords /\ r.stack = q.stack /\ r.state = q.state
         /\ r.sent_user = b /\ r.obuf = q.obuf /\ Keeps(r, q)
BY DEF ProtoRecords, Keeps

\* The address that PASV gave.
LEMMA SetAddressReady ==
  ASSUME NEW q \in ProtoRecords, NEW b \in Flags, NEW r, r = [q EXCEPT !.address_ready = b]
  PROVE  /\ r \in ProtoRecords /\ r.stack = q.stack /\ r.state = q.state
         /\ r.sent_user = q.sent_user /\ r.obuf = q.obuf
         /\ r.multiline = q.multiline /\ r.status = q.status /\ r.address_ready = b
BY DEF ProtoRecords

\* Where a line that starts a reply takes the engine, and what it sends.
Reaction(q, l, r) ==
    /\ q.state = "INIT" =>
          /\ r.obuf = q.obuf
          /\ IF ~Success(l.status) THEN r.state = "UNINIT" /\ r.sent_user = q.sent_user
             ELSE IF q.sent_user THEN r.state = "USER" /\ r.sent_user = FALSE
             ELSE r.state = "CONNECTED" /\ r.sent_user = FALSE
    /\ q.state # "INIT" => r.sent_user = q.sent_user
    /\ q.state = "USER" =>
          IF NeedMore(l.status) /\ ~Success(l.status) THEN r.state = "PASS" /\ r.obuf = "PASS"
          ELSE r.obuf = q.obuf /\ r.state = IF Success(l.status) THEN "IDLE" ELSE "INIT"
    /\ q.state = "PASS" => r.obuf = q.obuf /\ r.state = IF Success(l.status) THEN "IDLE" ELSE "INIT"
    /\ q.state \in {"CWD", "TYPE", "SIZE"} => r.state = "IDLE" /\ r.obuf = q.obuf
    /\ q.state = "PORT" => r.state \in {"RETR", "IDLE"} /\ r.obuf = q.obuf
    /\ q.state = "PASV" =>
          IF Success(l.status) /\ l.addr THEN r.state = "RETR" /\ r.obuf = "RETR"
          ELSE r.state = "IDLE" /\ r.obuf = q.obuf
    /\ IF q.state = "PASV" /\ Success(l.status) /\ l.addr THEN r.address_ready = TRUE
       ELSE r.address_ready = q.address_ready
    /\ q.state = "RETR" => /\ r.state = IF InProgress(l.status) THEN "RETR" ELSE "IDLE"
                           /\ r.obuf = q.obuf
    /\ q.state \in {"UNINIT", "CONNECTED", "IDLE"} => r = q

\* What the engine does with the last line of a reply: one of the outcomes, the
\* stack as the new state needs it.
LEMMA ReplyFields ==
  ASSUME NEW q \in ProtoRecords, NEW l \in Lines, q.stack = StackFor(q.state)
  PROVE  LET r == ReplyTo(q, l)
         IN  /\ r \in ProtoRecords
             /\ r.stack = StackFor(r.state)
             /\ r.multiline = q.multiline /\ r.status = q.status
             /\ Reaction(q, l, r)
<1> DEFINE r == ReplyTo(q, l)
           Fine == /\ r \in ProtoRecords /\ r.stack = StackFor(r.state)
                   /\ r.multiline = q.multiline /\ r.status = q.status
                   /\ Reaction(q, l, r)
<1> SUFFICES Fine
    OBVIOUS
<1>0. /\ q.state \in States /\ Commands \subseteq States
      /\ {"UNINIT", "INIT", "CONNECTED", "IDLE"} \subseteq States
      /\ q.sent_user \in BOOLEAN
    BY DEF ProtoRecords, Flags, States, Commands
<1>1. CASE q.state = "INIT"
    <2>1. CASE ~Success(l.status)
        <3>1. r = Goto(q, "UNINIT")
            BY <1>1, <2>1 DEF ReplyTo
        <3> HIDE DEF r
        <3> QED BY <1>0, <1>1, <2>1, <3>1, GotoFields DEF Reaction, Keeps, StackFor
    <2>2. CASE Success(l.status) /\ q.sent_user
        <3> DEFINE u == Goto(q, "USER")
                   b == FALSE
        <3>1. r = [u EXCEPT !.sent_user = b] /\ b \in Flags
            BY <1>1, <2>2 DEF ReplyTo, Flags
        <3>2. /\ u \in ProtoRecords /\ u.state = "USER" /\ u.stack = q.stack
              /\ u.obuf = q.obuf /\ Keeps(u, q)
            BY <1>0, GotoFields DEF States
        <3> HIDE DEF r, u, b
        <3>3. /\ r \in ProtoRecords /\ r.state = "USER" /\ r.stack = q.stack /\ r.obuf = q.obuf
              /\ r.sent_user = FALSE /\ Keeps(r, q)
            <4>1. /\ r \in ProtoRecords /\ r.state = u.state /\ r.stack = u.stack
                  /\ r.obuf = u.obuf /\ r.sent_user = b /\ Keeps(r, u)
                BY <3>1, <3>2, SetSentUser
            <4> QED BY <3>2, <4>1 DEF b, Keeps
        <3> QED BY <1>1, <2>2, <3>3 DEF Reaction, StackFor, Keeps
    <2>3. CASE Success(l.status) /\ ~q.sent_user
        <3>1. r = Goto(q, "CONNECTED")
            BY <1>1, <2>3 DEF ReplyTo
        <3> HIDE DEF r
        <3> QED BY <1>0, <1>1, <2>3, <3>1, GotoFields DEF Reaction, Keeps, StackFor
    <2> QED BY <2>1, <2>2, <2>3
<1>2. CASE q.state = "USER"
    <2>1. CASE NeedMore(l.status) /\ ~Success(l.status)
        <3> DEFINE o == Output(q, "PASS")
        <3>1. r = Goto(o, "PASS") /\ "PASS" \in States
            BY <1>0, <1>2, <2>1 DEF ReplyTo, Commands
        <3>2. /\ o \in ProtoRecords /\ o.obuf = "PASS" /\ o.stack = q.stack
              /\ o.sent_user = q.sent_user /\ Keeps(o, q)
            BY OutputFields DEF Outputs, Commands
        <3> HIDE DEF r, o
        <3>3. /\ r \in ProtoRecords /\ r.state = "PASS" /\ r.obuf = "PASS" /\ r.stack = q.stack
              /\ r.sent_user = q.sent_user /\ Keeps(r, o)
            BY <3>1, <3>2, GotoFields
        <3> QED BY <1>2, <2>1, <3>2, <3>3 DEF Reaction, Keeps, StackFor
    <2>2. CASE ~NeedMore(l.status) \/ Success(l.status)
        <3> DEFINE s == IF Success(l.status) THEN "IDLE" ELSE "INIT"
        <3>1. r = Goto(q, s)
            BY <1>2, <2>2 DEF ReplyTo
        <3>2. s \in States
            BY <1>0
        <3> HIDE DEF r
        <3>3. /\ r \in ProtoRecords /\ r.state = s /\ r.stack = q.stack
              /\ r.sent_user = q.sent_user /\ r.obuf = q.obuf /\ Keeps(r, q)
            BY <3>1, <3>2, GotoFields
        <3> QED BY <1>2, <2>2, <3>3 DEF Reaction, Keeps, StackFor
    <2> QED BY <2>1, <2>2
<1>3. CASE q.state = "PASS"
    <2> DEFINE s == IF Success(l.status) THEN "IDLE" ELSE "INIT"
    <2>1. r = Goto(q, s)
        BY <1>3 DEF ReplyTo
    <2>2. s \in States
        BY <1>0
    <2> HIDE DEF r
    <2>3. /\ r \in ProtoRecords /\ r.state = s /\ r.stack = q.stack
          /\ r.sent_user = q.sent_user /\ r.obuf = q.obuf /\ Keeps(r, q)
        BY <2>1, <2>2, GotoFields
    <2> QED BY <1>3, <2>3 DEF Reaction, Keeps, StackFor
<1>4. CASE q.state \in {"CWD", "TYPE", "SIZE"}
    <2>1. r = Goto(q, "IDLE")
        BY <1>4 DEF ReplyTo
    <2> HIDE DEF r
    <2> QED BY <1>0, <1>4, <2>1, GotoFields DEF Reaction, Keeps, StackFor
<1>5. CASE q.state = "PORT"
    <2>1. r = returnState(q) \/ r = Goto(popState(q), "IDLE")
        BY <1>5 DEF ReplyTo
    <2>2. q.stack = <<"RETR">>
        BY <1>5 DEF StackFor
    <2> HIDE DEF r
    <2>3. CASE r = returnState(q)
        <3>1. /\ r \in ProtoRecords /\ r.state = "RETR" /\ r.stack = <<>>
              /\ r.sent_user = q.sent_user /\ r.obuf = q.obuf /\ Keeps(r, q)
            BY <2>2, <2>3, ReturnFields
        <3> QED BY <1>5, <3>1 DEF Reaction, Keeps, StackFor
    <2>4. CASE r = Goto(popState(q), "IDLE")
        <3>1. /\ r \in ProtoRecords /\ r.state = "IDLE" /\ r.stack = <<>>
              /\ r.sent_user = q.sent_user /\ r.obuf = q.obuf /\ Keeps(r, q)
            BY <2>2, <2>4, PoppedFields
        <3> QED BY <1>5, <3>1 DEF Reaction, Keeps, StackFor
    <2> QED BY <2>1, <2>3, <2>4
<1>6. CASE q.state = "PASV"
    <2>1. r = PasvReply(q, l)
        BY <1>6 DEF ReplyTo
    <2>2. q.stack = <<"RETR">>
        BY <1>6 DEF StackFor
    <2>3. CASE Success(l.status) /\ l.addr
        <3> DEFINE a == [returnState(q) EXCEPT !.address_ready = TRUE]
        <3>1. /\ a \in ProtoRecords /\ a.state = "RETR" /\ a.stack = <<>>
              /\ a.sent_user = q.sent_user
              /\ a.multiline = q.multiline /\ a.status = q.status /\ a.address_ready = TRUE
            <4> DEFINE b == returnState(q)
            <4>1. /\ b \in ProtoRecords /\ b.state = "RETR" /\ b.stack = <<>>
                  /\ b.sent_user = q.sent_user /\ Keeps(b, q)
                BY <2>2, ReturnFields
            <4> HIDE DEF b
            <4> DEFINE ready == TRUE
            <4>2. a = [b EXCEPT !.address_ready = ready] /\ ready \in Flags
                BY DEF b, Flags
            <4> HIDE DEF a, ready
            <4>3. /\ a \in ProtoRecords /\ a.stack = b.stack /\ a.state = b.state
                  /\ a.sent_user = b.sent_user /\ a.obuf = b.obuf
                  /\ a.multiline = b.multiline /\ a.status = b.status /\ a.address_ready = ready
                BY <4>1, <4>2, SetAddressReady
            <4> QED BY <4>1, <4>3 DEF Keeps, ready
        <3>2. r = Output(a, "RETR")
            BY <2>1, <2>3, <3>1 DEF PasvReply
        <3> HIDE DEF r, a
        <3> QED BY <1>6, <2>3, <3>1, <3>2, OutputFields DEF Reaction, Keeps, StackFor, Outputs, Commands
    <2>4. CASE ~(Success(l.status) /\ l.addr)
        <3>1. r = Goto(popState(q), "IDLE")
            BY <2>1, <2>4 DEF PasvReply
        <3> HIDE DEF r
        <3>2. /\ r \in ProtoRecords /\ r.state = "IDLE" /\ r.stack = <<>>
              /\ r.sent_user = q.sent_user /\ r.obuf = q.obuf /\ Keeps(r, q)
            BY <2>2, <3>1, PoppedFields
        <3> QED BY <1>6, <2>4, <3>2 DEF Reaction, Keeps, StackFor
    <2> QED BY <2>3, <2>4
<1>7. CASE q.state = "RETR"
    <2>1. r = IF InProgress(l.status) THEN q ELSE Goto(q, "IDLE")
        BY <1>7 DEF ReplyTo
    <2> HIDE DEF r
    <2> QED BY <1>0, <1>7, <2>1, GotoFields DEF Reaction, Keeps, StackFor
<1>8. CASE q.state \in {"UNINIT", "CONNECTED", "IDLE"}
    <2>1. r = q
        BY <1>8 DEF ReplyTo
    <2> HIDE DEF r
    <2> QED BY <1>8, <2>1 DEF Reaction
<1> QED BY <1>0, <1>1, <1>2, <1>3, <1>4, <1>5, <1>6, <1>7, <1>8 DEF States

\* A further line of a reply only tells whether the reply goes on.
GoesOn(q, l, r) ==
    /\ r.multiline = ~(l.sep = " " /\ l.status = q.status)
    /\ r.state = q.state /\ r.sent_user = q.sent_user /\ r.obuf = q.obuf
    /\ r.status = q.status /\ r.address_ready = q.address_ready

\* A first line is reacted to.
Begins(q, l, r, err) ==
    /\ r.multiline = (l.sep = "-") /\ r.status = l.status
    /\ Reaction(q, l, r) \/ q.state \in {"UNINIT", "CONNECTED", "IDLE"}
    /\ err = IF q.state = "INIT" /\ ~Success(l.status) THEN "EACCES"
             ELSE IF q.state \in {"UNINIT", "CONNECTED", "IDLE"} THEN "EINVAL"
             ELSE "ok"

\* giveInput.
LEMMA InputFields ==
  ASSUME NEW q \in ProtoRecords, NEW l \in Lines, q.stack = StackFor(q.state),
         NEW g, g = giveInput(q, l), NEW r, r = g.p
  PROVE  /\ r \in ProtoRecords /\ r.stack = StackFor(r.state)
         /\ q.multiline => GoesOn(q, l, r) /\ g.err = "ok"
         /\ ~q.multiline => Begins(q, l, r, g.err)
<1>1. CASE q.multiline
    <2> DEFINE more == ~(l.sep = " " /\ l.status = q.status)
    <2>1. r = [q EXCEPT !.multiline = more] /\ g.err = "ok"
        BY <1>1 DEF giveInput
    <2>2. more \in Flags
        BY DEF Flags
    <2> HIDE DEF more
    <2>3. /\ r \in ProtoRecords /\ r.stack = q.stack /\ r.state = q.state
          /\ r.multiline = more
          /\ r.sent_user = q.sent_user /\ r.obuf = q.obuf /\ r.status = q.status
          /\ r.address_ready = q.address_ready
        BY <2>1, <2>2, SetMultiline
    <2>4. r.multiline = ~(l.sep = " " /\ l.status = q.status)
        BY <2>3 DEF more
    <2> QED BY <1>1, <2>1, <2>3, <2>4 DEF GoesOn
<1>2. CASE ~q.multiline
    <2> DEFINE more == (l.sep = "-")
               s == [q EXCEPT !.status = l.status, !.multiline = more]
               error == IF q.state = "INIT" /\ ~Success(l.status) THEN "EACCES"
                        ELSE IF q.state \in {"UNINIT", "CONNECTED", "IDLE"} THEN "EINVAL"
                        ELSE "ok"
    <2>1. g.p = ReplyTo(s, l) /\ g.err = error
        BY <1>2, Zenon DEF giveInput
    <2>2. more \in Flags /\ l.status \in Statuses
        BY DEF Lines, Flags, Statuses
    <2> DEFINE t == [q EXCEPT !.status = l.status]
    <2>0. /\ t \in ProtoRecords /\ t.stack = q.stack /\ t.state = q.state
          /\ t.sent_user = q.sent_user /\ t.obuf = q.obuf /\ t.status = l.status
          /\ t.address_ready = q.address_ready
        BY <2>2 DEF ProtoRecords
    <2> HIDE DEF more
    <2>7. s = [t EXCEPT !.multiline = more]
        BY DEF ProtoRecords
    <2> HIDE DEF s, t
    <2>3. /\ s \in ProtoRecords /\ s.stack = q.stack /\ s.state = q.state
          /\ s.multiline = more /\ s.status = l.status
          /\ s.sent_user = q.sent_user /\ s.obuf = q.obuf /\ s.address_ready = q.address_ready
        BY <2>0, <2>2, <2>7, SetMultiline
    <2> HIDE DEF error
    <2>4. /\ r \in ProtoRecords /\ r.stack = StackFor(r.state)
          /\ r.multiline = more /\ r.status = l.status /\ Reaction(s, l, r)
        BY <2>1, <2>3, ReplyFields
    <2>5. Reaction(q, l, r) \/ q.state \in {"UNINIT", "CONNECTED", "IDLE"}
        BY <2>3, <2>4 DEF Reaction
    <2>6. r.multiline = (l.sep = "-") /\ g.err = error
        BY <2>1, <2>4 DEF more
    <2> QED BY <1>2, <2>4, <2>5, <2>6 DEF error, Begins
<1> QED BY <1>1, <1>2

------------------------------------------------------------------------------
(***************************************************************************)
(* The types, and the stack.                                               *)
(***************************************************************************)
LEMMA ServerLines ==
  ASSUME NEW c \in Commands \cup {"HELLO"}, NEW v \in Verdicts(c)
  PROVE  /\ OneLine(c, v) \in Seq(Lines) /\ ThreeLines(c, v) \in Seq(Lines)
         /\ v \in 200..599 /\ ~InProgress(v)
<1>1. v \in 200..599
    BY DEF Verdicts, Commands
<1>2. Line(c, v, " ", TRUE) \in Lines /\ Line(c, v, "-", TRUE) \in Lines
    BY <1>1 DEF Line, Lines, Separators
<1>3. Line(c, 0, "x", FALSE) \in Lines /\ Line(c, v, " ", FALSE) \in Lines
    BY <1>1 DEF Line, Lines, Separators
<1>4. OneLine(c, v) \in Seq(Lines)
    <2> DEFINE a == Line(c, v, " ", TRUE)
    <2>1. a \in Lines /\ OneLine(c, v) = <<a>>
        BY <1>2 DEF OneLine
    <2> HIDE DEF a
    <2> QED BY <2>1
<1>5. ThreeLines(c, v) \in Seq(Lines)
    <2> DEFINE a == Line(c, v, "-", TRUE)
               b == Line(c, 0, "x", FALSE)
               d == Line(c, v, " ", FALSE)
    <2>1. a \in Lines /\ b \in Lines /\ d \in Lines
        BY <1>2, <1>3
    <2>2. ThreeLines(c, v) = <<a, b, d>>
        BY DEF ThreeLines
    <2> HIDE DEF a, b, d
    <2> QED BY <2>1, <2>2
<1> QED BY <1>1, <1>4, <1>5 DEF InProgress

\* q accepts a command: c is sent, and its reply is awaited in state s.
Accepts(q, r, s, c) ==
    /\ q.obuf = NoOutput
    /\ r.state = s /\ r.obuf = c
    /\ r.multiline = q.multiline /\ r.status = q.status

Refusals == {"EISCONN", "EWOULDBLOCK", "E2BIG"}

\* What login() does.
LEMMA LoginFields ==
  ASSUME NEW q \in ProtoRecords, q.stack = StackFor(q.state), NEW g, g = login(q)
  PROVE  /\ g.p \in ProtoRecords /\ g.p.stack = StackFor(g.p.state)
         /\ \/ g.p = q /\ g.err \in Refusals
            \/ /\ g.err = "ok" /\ q.sent_user = FALSE
               /\ \/ /\ q.state = "CONNECTED" /\ Accepts(q, g.p, "USER", "USER")
                     /\ g.p.sent_user = FALSE
                  \/ /\ q.state = "INIT" /\ Accepts(q, g.p, "INIT", "USER")
                     /\ g.p.sent_user = TRUE
<1>0. /\ q.state \in States /\ {"USER", "INIT", "CONNECTED"} \subseteq States
      /\ "USER" \in Commands /\ q.sent_user \in BOOLEAN
    BY DEF ProtoRecords, Flags, States, Commands
<1> DEFINE o == Output(q, "USER")
<1>1. /\ o \in ProtoRecords /\ o.obuf = "USER" /\ o.stack = q.stack
      /\ o.sent_user = q.sent_user /\ o.state = q.state /\ Keeps(o, q)
    BY <1>0, OutputFields DEF Outputs
<1>2. CASE q.state \notin {"INIT", "CONNECTED"} \/ q.sent_user
    <2>1. g.p = q /\ g.err = "EISCONN"
        BY <1>2 DEF login
    <2> QED BY <2>1 DEF Refusals
<1>3. CASE q.state \in {"INIT", "CONNECTED"} /\ ~q.sent_user /\ q.obuf # NoOutput
    <2>1. g.p = q /\ g.err = "EWOULDBLOCK"
        BY <1>3 DEF login, isOutputReady
    <2> QED BY <2>1 DEF Refusals
<1>4. CASE q.state = "CONNECTED" /\ ~q.sent_user /\ q.obuf = NoOutput
    <2>1. g.p = Goto(o, "USER") /\ g.err = "ok"
        BY <1>4 DEF login, isOutputReady
    <2> DEFINE r == g.p
    <2> HIDE DEF o, r
    <2>2. /\ r \in ProtoRecords /\ r.obuf = "USER" /\ r.stack = o.stack
          /\ r.sent_user = o.sent_user /\ r.state = "USER" /\ Keeps(r, o)
        <3>1. r = Goto(o, "USER") /\ "USER" \in States
            BY <2>1 DEF r, States
        <3> QED BY <1>1, <3>1, GotoFields
    <2>3. r.stack = StackFor(r.state) /\ r.sent_user = FALSE
        BY <1>0, <1>1, <1>4, <2>2 DEF StackFor
    <2>4. Accepts(q, r, "USER", "USER")
        BY <1>1, <1>4, <2>2 DEF Accepts, Keeps
    <2> QED BY <1>0, <1>4, <2>1, <2>2, <2>3, <2>4 DEF r
<1>5. CASE q.state = "INIT" /\ ~q.sent_user /\ q.obuf = NoOutput
    <2>1. g.p = [o EXCEPT !.sent_user = TRUE] /\ g.err = "ok"
        BY <1>5 DEF login, isOutputReady
    <2> DEFINE r == g.p
    <2> HIDE DEF o, r
    <2>2. /\ r \in ProtoRecords /\ r.obuf = "USER" /\ r.stack = o.stack
          /\ r.sent_user = TRUE /\ r.state = "INIT" /\ Keeps(r, o)
        <3> DEFINE b == TRUE
        <3>1. r = [o EXCEPT !.sent_user = b] /\ b \in Flags
            BY <2>1 DEF r, Flags
        <3> HIDE DEF b
        <3>2. /\ r \in ProtoRecords /\ r.stack = o.stack /\ r.state = o.state
              /\ r.sent_user = b /\ r.obuf = o.obuf /\ Keeps(r, o)
            BY <1>1, <3>1, SetSentUser
        <3> QED BY <1>1, <1>5, <3>2 DEF b
    <2>3. r.stack = StackFor(r.state)
        BY <1>1, <1>5, <2>2 DEF StackFor
    <2>4. Accepts(q, r, "INIT", "USER")
        BY <1>1, <1>5, <2>2 DEF Accepts, Keeps
    <2> QED BY <1>0, <1>5, <2>1, <2>2, <2>3, <2>4 DEF r
<1> QED BY <1>0, <1>2, <1>3, <1>4, <1>5

\* What cd(), type() and size() do.
LEMMA SimpleFields ==
  ASSUME NEW q \in ProtoRecords, q.stack = StackFor(q.state),
         NEW c \in {"CWD", "TYPE", "SIZE"}, NEW g, g = simpleCommand(q, c)
  PROVE  /\ g.p \in ProtoRecords /\ g.p.stack = StackFor(g.p.state)
         /\ \/ g.p = q /\ g.err \in Refusals
            \/ /\ g.err = "ok" /\ q.state = "IDLE" /\ Accepts(q, g.p, c, c)
               /\ g.p.sent_user = q.sent_user
<1>0. c \in States /\ c \in Commands
    BY DEF States, Commands
<1> DEFINE o == Output(q, c)
<1>1. /\ o \in ProtoRecords /\ o.obuf = c /\ o.stack = q.stack
      /\ o.sent_user = q.sent_user /\ o.state = q.state /\ Keeps(o, q)
    BY <1>0, OutputFields DEF Outputs
<1>2. CASE q.state # "IDLE" \/ q.obuf # NoOutput
    <2>1. g.p = q /\ g.err \in {"EISCONN", "EWOULDBLOCK"}
        BY <1>2 DEF simpleCommand, Refusal, isOutputReady
    <2> QED BY <2>1 DEF Refusals
<1>3. CASE q.state = "IDLE" /\ q.obuf = NoOutput
    <2>1. g.p = Goto(o, c) /\ g.err = "ok"
        BY <1>3 DEF simpleCommand, Refusal, isOutputReady
    <2> DEFINE r == g.p
    <2> HIDE DEF o, r
    <2>2. /\ r \in ProtoRecords /\ r.obuf = c /\ r.stack = o.stack
          /\ r.sent_user = o.sent_user /\ r.state = c /\ Keeps(r, o)
        BY <1>0, <1>1, <2>1, GotoFields DEF r
    <2>3. r.stack = StackFor(r.state)
        BY <1>1, <1>3, <2>2 DEF StackFor
    <2>4. Accepts(q, r, c, c)
        BY <1>1, <1>3, <2>2 DEF Accepts, Keeps
    <2>5. r.sent_user = q.sent_user
        BY <1>1, <2>2
    <2> QED BY <1>3, <2>1, <2>2, <2>3, <2>4, <2>5 DEF r
<1> QED BY <1>2, <1>3

Mode(passive) == IF passive THEN "PASV" ELSE "PORT"

\* What get() does.
LEMMA GetFields ==
  ASSUME NEW q \in ProtoRecords, q.stack = StackFor(q.state),
         NEW passive \in BOOLEAN,
         NEW fits \in BOOLEAN, NEW g, g = get(q, passive, fits)
  PROVE  /\ g.p \in ProtoRecords /\ g.p.stack = StackFor(g.p.state)
         /\ \/ g.p = q /\ g.err \in Refusals
            \/ /\ g.err = "ok" /\ q.state = "IDLE" /\ Accepts(q, g.p, Mode(passive), Mode(passive))
               /\ g.p.sent_user = q.sent_user
<1>0. Mode(passive) \in {"PASV", "PORT"} /\ Mode(passive) \in States /\ Mode(passive) \in Commands
    BY DEF States, Commands, Mode
<1> DEFINE o == Output(q, Mode(passive))
<1>1. /\ o \in ProtoRecords /\ o.obuf = Mode(passive) /\ o.stack = q.stack
      /\ o.sent_user = q.sent_user /\ o.state = q.state /\ Keeps(o, q)
    BY <1>0, OutputFields DEF Outputs
<1>2. CASE q.state # "IDLE" \/ q.obuf # NoOutput \/ ~fits
    <2>1. g.p = q /\ g.err \in {"EISCONN", "EWOULDBLOCK", "E2BIG"}
        BY <1>2 DEF get, Refusal, isOutputReady
    <2> QED BY <2>1 DEF Refusals
<1>3. CASE q.state = "IDLE" /\ q.obuf = NoOutput /\ fits
    <2>1. g.p = callState(o, Mode(passive), "RETR") /\ g.err = "ok"
        BY <1>3 DEF get, Refusal, isOutputReady, Mode
    <2>2. o.stack = <<>>
        BY <1>1, <1>3 DEF StackFor
    <2> DEFINE r == g.p
    <2> HIDE DEF o, r
    <2>3. /\ r \in ProtoRecords /\ r.obuf = Mode(passive) /\ r.stack = <<"RETR">>
          /\ r.sent_user = o.sent_user /\ r.state = Mode(passive) /\ Keeps(r, o)
        BY <1>0, <1>1, <2>1, <2>2, CallFields DEF r
    <2>4. r.stack = StackFor(r.state)
        BY <1>0, <2>3 DEF StackFor
    <2>5. Accepts(q, r, Mode(passive), Mode(passive))
        BY <1>1, <1>3, <2>3 DEF Accepts, Keeps
    <2>6. r.sent_user = q.sent_user
        BY <1>1, <2>3
    <2> QED BY <1>3, <2>1, <2>3, <2>4, <2>5, <2>6 DEF r
<1> QED BY <1>2, <1>3



------------------------------------------------------------------------------
(***************************************************************************)
(* What becomes of the lines under way when one is read.                   *)
(***************************************************************************)
LEMMA TailLines ==
  ASSUME NEW s \in Seq(Lines), s # <<>>, NEW t, t = Tail(s)
  PROVE  /\ t \in Seq(Lines) /\ Len(s) \in Nat \ {0} /\ Len(t) = Len(s) - 1
         /\ \A n \in 1..Len(t) : n + 1 \in 1..Len(s) /\ t[n] = s[n + 1]
         /\ Head(s) = s[1] /\ s[1] \in Lines
OBVIOUS

\* t is what is left of s without its first line.
IsTail(s, t) ==
    /\ Len(s) \in Nat \ {0} /\ Len(t) = Len(s) - 1
    /\ \A n \in 1..Len(t) : t[n] = s[n + 1]

\* A reply that ends at a line still ends there.
LEMMA RestEnds ==
  ASSUME NEW s, NEW t, IsTail(s, t), NEW n \in 1..Len(t), EndsAt(s, n + 1)
  PROVE  EndsAt(t, n)
<1>1. CASE n + 1 = Len(s)
    BY <1>1 DEF IsTail, EndsAt
<1>2. CASE n + 1 # Len(s)
    <2>1. s[n + 2].first /\ n + 1 \in 1..Len(t)
        BY <1>2 DEF IsTail, EndsAt
    <2>2. t[n + 1] = s[n + 2]
        BY <2>1 DEF IsTail
    <2> QED BY <2>1, <2>2 DEF EndsAt
<1> QED BY <1>1, <1>2

\* A last line stays the last line of its reply.
LEMMA RestLast ==
  ASSUME NEW s, NEW t, IsTail(s, t), NEW n \in 1..Len(s), NEW v, LastAt(s, n + 1, v)
  PROVE  LastAt(t, n, v)
<1>1. n + 1 \in 1..Len(s) /\ n \in 1..Len(t)
    <2>1. n + 1 \in 1..Len(s)
        BY DEF LastAt
    <2> QED BY <2>1 DEF IsTail
<1>2. t[n] = s[n + 1]
    BY <1>1 DEF IsTail
<1>3. EndsAt(t, n)
    BY <1>1, RestEnds DEF LastAt
<1> QED BY <1>1, <1>2, <1>3 DEF LastAt

\* The rest of a reply stays the rest of it.
LEMMA RestRest ==
  ASSUME NEW s, NEW t, IsTail(s, t), NEW n \in 1..Len(s), NEW v, RestAt(s, n + 1, v)
  PROVE  RestAt(t, n, v)
<1>1. CASE LastAt(s, n + 1, v)
    BY <1>1, RestLast DEF RestAt
<1>2. CASE /\ n + 1 \in 1..Len(s) /\ ~s[n + 1].first /\ s[n + 1].sep = "x"
           /\ LastAt(s, n + 2, v)
    <2>1. n \in 1..Len(t) /\ n + 1 \in 1..Len(s)
        BY <1>2 DEF IsTail
    <2>2. t[n] = s[n + 1]
        BY <2>1 DEF IsTail
    <2>3. LastAt(s, (n + 1) + 1, v)
        BY <1>2
    <2>4. LastAt(t, n + 1, v)
        BY <2>1, <2>3, RestLast
    <2> QED BY <1>2, <2>1, <2>2, <2>4 DEF RestAt
<1>3. (n + 1) + 1 = n + 2
    OBVIOUS
<1> QED BY <1>1, <1>2, <1>3 DEF RestAt

\* What consisted of whole replies still does, but for the one being read.
LEMMA RestWhole ==
  ASSUME NEW s, NEW t, IsTail(s, t), Whole(s)
  PROVE  Whole(t)
<1> SUFFICES ASSUME NEW n \in 1..Len(t), t[n].first PROVE WholeAt(t, n)
    BY DEF Whole
<1>1. n + 1 \in 1..Len(s) /\ n \in 1..Len(s) /\ t[n] = s[n + 1]
    BY DEF IsTail
<1>2. WholeAt(s, n + 1)
    BY <1>1 DEF Whole
<1>3. CASE t[n].sep = "-"
    <2>1. RestAt(s, (n + 1) + 1, t[n].status)
        BY <1>1, <1>2, <1>3 DEF WholeAt
    <2>2. RestAt(t, n + 1, t[n].status)
        BY <1>1, <2>1, RestRest
    <2> QED BY <1>3, <2>2 DEF WholeAt
<1>4. CASE t[n].sep # "-"
    <2>1. EndsAt(s, n + 1)
        BY <1>1, <1>2, <1>4 DEF WholeAt
    <2>2. EndsAt(t, n)
        BY <2>1, RestEnds
    <2> QED BY <1>4, <2>2 DEF WholeAt
<1> QED BY <1>3, <1>4

\* After the last line of a reply comes the first of another, or nothing.
LEMMA RestFresh ==
  ASSUME NEW s \in Seq(Lines), NEW t \in Seq(Lines), IsTail(s, t), EndsAt(s, 1)
  PROVE  Fresh(t)
<1>1. CASE Len(s) = 1
    BY <1>1 DEF IsTail, Fresh
<1>2. CASE Len(s) # 1
    <2>1. s[2].first /\ 1 \in 1..Len(t)
        BY <1>2 DEF EndsAt, IsTail
    <2>2. t[1] = s[2]
        BY <2>1 DEF IsTail
    <2> QED BY <2>1, <2>2 DEF Fresh
<1> QED BY <1>1, <1>2

\* A line that begins a reply is read.
LEMMA FirstRead ==
  ASSUME NEW s \in Seq(Lines), NEW t \in Seq(Lines), IsTail(s, t), Whole(s), s[1].first
  PROVE  IF s[1].sep = "-" THEN RestAt(t, 1, s[1].status) ELSE Fresh(t)
<1>1. 1 \in 1..Len(s) /\ WholeAt(s, 1)
    BY DEF IsTail, Whole
<1>2. CASE s[1].sep = "-"
    <2>1. RestAt(s, 1 + 1, s[1].status)
        BY <1>1, <1>2 DEF WholeAt
    <2>2. RestAt(t, 1, s[1].status)
        BY <1>1, <2>1, RestRest
    <2> QED BY <1>2, <2>2
<1>3. CASE s[1].sep # "-"
    <2>1. EndsAt(s, 1)
        BY <1>1, <1>3 DEF WholeAt
    <2> QED BY <1>3, <2>1, RestFresh
<1> QED BY <1>2, <1>3

\* A further line of a reply is read.
LEMMA FurtherRead ==
  ASSUME NEW s \in Seq(Lines), NEW t \in Seq(Lines), IsTail(s, t), NEW v, RestAt(s, 1, v)
  PROVE  /\ ~s[1].first
         /\ IF s[1].sep = " " /\ s[1].status = v THEN Fresh(t) ELSE RestAt(t, 1, v)
<1>1. CASE LastAt(s, 1, v)
    <2>1. ~s[1].first /\ s[1].sep = " " /\ s[1].status = v /\ EndsAt(s, 1)
        BY <1>1 DEF LastAt
    <2> QED BY <2>1, RestFresh
<1>2. CASE 1 \in 1..Len(s) /\ ~s[1].first /\ s[1].sep = "x" /\ LastAt(s, 1 + 1, v)
    <2>1. LastAt(t, 1, v)
        BY <1>2, RestLast
    <2> QED BY <1>2, <2>1 DEF RestAt
<1> QED BY <1>1, <1>2 DEF RestAt

\* When the first of two replies begins the lines, the second is the next one.
LEMMA SecondIsNext ==
  ASSUME NEW s, NEW t, IsTail(s, t), NEW c, NEW d, NEW m \in 1..Len(s),
         TwoReplies(s, 1, m, c, d)
  PROVE  m - 1 \in 1..Len(t) /\ OneReply(t, m - 1, d) /\ t[m - 1] = s[m]
<1>0. \A n \in 1..Len(t) : n + 1 \in 1..Len(s) /\ t[n] = s[n + 1]
    BY DEF IsTail
<1>1. m - 1 \in 1..Len(t) /\ t[m - 1] = s[m]
    BY DEF IsTail, TwoReplies
<1>2. \A n \in 1..Len(t) : t[n].first <=> n = m - 1
    BY <1>0 DEF TwoReplies
<1> QED BY <1>1, <1>2 DEF OneReply, TwoReplies

\* When neither of two replies begins the lines, both move up.
LEMMA BothMoveUp ==
  ASSUME NEW s, NEW t, IsTail(s, t), NEW c, NEW d, NEW k \in 1..Len(s), NEW m \in 1..Len(s),
         TwoReplies(s, k, m, c, d), k # 1
  PROVE  /\ k - 1 \in 1..Len(t) /\ m - 1 \in 1..Len(t)
         /\ TwoReplies(t, k - 1, m - 1, c, d) /\ t[k - 1] = s[k] /\ t[m - 1] = s[m]
<1>0. \A n \in 1..Len(t) : n + 1 \in 1..Len(s) /\ t[n] = s[n + 1]
    BY DEF IsTail
<1>1. k - 1 \in 1..Len(t) /\ t[k - 1] = s[k] /\ m - 1 \in 1..Len(t) /\ t[m - 1] = s[m]
    <2>1. k - 1 \in 1..Len(t) /\ m - 1 \in 1..Len(t)
        BY DEF IsTail, TwoReplies
    <2>2. (k - 1) + 1 = k /\ (m - 1) + 1 = m
        OBVIOUS
    <2> QED BY <1>0, <2>1, <2>2
<1>2. \A n \in 1..Len(t) : t[n].first <=> n \in {k - 1, m - 1}
    <2> SUFFICES ASSUME NEW n \in 1..Len(t) PROVE t[n].first <=> n \in {k - 1, m - 1}
        OBVIOUS
    <2>1. /\ n + 1 \in 1..Len(s) /\ t[n] = s[n + 1]
          /\ s[n + 1].first <=> n + 1 \in {k, m}
        BY <1>0 DEF TwoReplies
    <2>2. n + 1 \in {k, m} <=> n \in {k - 1, m - 1}
        OBVIOUS
    <2> QED BY <2>1, <2>2
<1>3. k - 1 < m - 1
    BY DEF TwoReplies
<1> QED BY <1>1, <1>2, <1>3 DEF TwoReplies

\* The replies under way are those of before, less the one whose first line was
\* read.
LEMMA RestReplies ==
  ASSUME NEW s, NEW t, IsTail(s, t), NEW c
  PROVE  /\ NoReply(s) => NoReply(t)
         /\ OneReply(s, 1, c) => NoReply(t)
         /\ \A k \in 1..Len(s) : OneReply(s, k, c) /\ k # 1 =>
               k - 1 \in 1..Len(t) /\ OneReply(t, k - 1, c) /\ t[k - 1] = s[k]
<1>0. \A n \in 1..Len(t) : n + 1 \in 1..Len(s) /\ t[n] = s[n + 1]
    BY DEF IsTail
<1>1. NoReply(s) => NoReply(t)
    BY <1>0 DEF NoReply
<1>2. OneReply(s, 1, c) => NoReply(t)
    BY <1>0 DEF NoReply, OneReply
<1>3. ASSUME NEW k \in 1..Len(s), OneReply(s, k, c), k # 1
      PROVE  k - 1 \in 1..Len(t) /\ OneReply(t, k - 1, c) /\ t[k - 1] = s[k]
    <2>1. k - 1 \in 1..Len(t) /\ t[k - 1] = s[k]
        BY <1>3 DEF IsTail
    <2>2. \A n \in 1..Len(t) : t[n].first <=> n = k - 1
        BY <1>0, <1>3 DEF OneReply
    <2> QED BY <1>3, <2>1, <2>2 DEF OneReply
<1> QED BY <1>1, <1>2, <1>3

------------------------------------------------------------------------------
(***************************************************************************)
(* What becomes of the lines under way when the server replies.            *)
(***************************************************************************)
\* t is s followed by a whole reply to c whose status is v.
IsLonger(s, t, c, v) ==
    /\ Len(s) \in Nat /\ Len(t) \in Nat /\ Len(t) > Len(s)
    /\ \A n \in 1..Len(s) : t[n] = s[n]
    /\ t[Len(s) + 1].first /\ t[Len(s) + 1].cmd = c /\ t[Len(s) + 1].status = v
    /\ \A n \in 1..Len(t) : n > Len(s) + 1 => ~t[n].first
    /\ WholeAt(t, Len(s) + 1)

\* A reply of one line is a whole reply.
LEMMA OneLonger ==
  ASSUME NEW s \in Seq(Lines), NEW c, NEW v, NEW t, t = s \o OneLine(c, v)
  PROVE  IsLonger(s, t, c, v)
<1> DEFINE a == Line(c, v, " ", TRUE)
           k == Len(s)
<1>1. a.first /\ a.cmd = c /\ a.status = v /\ a.sep = " "
    BY DEF Line
<1>2. t = s \o <<a>>
    BY DEF OneLine
<1> HIDE DEF a
<1>3. k \in Nat /\ Len(t) = k + 1
    BY <1>2
<1>4. \A n \in 1..k : t[n] = s[n]
    BY <1>2
<1>5. t[k + 1] = a
    BY <1>2
<1> HIDE DEF k
<1>6. WholeAt(t, k + 1)
    BY <1>1, <1>3, <1>5 DEF WholeAt, EndsAt
<1>7. t[k + 1].first /\ t[k + 1].cmd = c /\ t[k + 1].status = v
    BY <1>1, <1>5
<1> QED BY <1>3, <1>4, <1>6, <1>7 DEF IsLonger, k

\* A reply of several lines is a whole reply.
LEMMA ThreeLonger ==
  ASSUME NEW s \in Seq(Lines), NEW c, NEW v, NEW t, t = s \o ThreeLines(c, v)
  PROVE  IsLonger(s, t, c, v)
<1> DEFINE a == Line(c, v, "-", TRUE)
           b == Line(c, 0, "x", FALSE)
           d == Line(c, v, " ", FALSE)
           k == Len(s)
<1>1. /\ a.first /\ a.cmd = c /\ a.status = v /\ a.sep = "-"
      /\ ~b.first /\ b.sep = "x"
      /\ ~d.first /\ d.sep = " " /\ d.status = v
    BY DEF Line
<1>2. t = s \o <<a, b, d>>
    BY DEF ThreeLines
<1> HIDE DEF a, b, d
<1>3. k \in Nat /\ Len(t) = k + 3
    BY <1>2
<1>4. \A n \in 1..k : t[n] = s[n]
    BY <1>2
<1>5. t[k + 1] = a /\ t[k + 2] = b /\ t[k + 3] = d
    BY <1>2
<1> HIDE DEF k
<1>6. WholeAt(t, k + 1)
    <2>1. EndsAt(t, k + 3)
        BY <1>3 DEF EndsAt
    <2>2. LastAt(t, k + 3, v)
        <3>1. k + 3 \in 1..Len(t)
            BY <1>3
        <3>2. ~t[k + 3].first /\ t[k + 3].sep = " " /\ t[k + 3].status = v
            BY <1>1, <1>5
        <3> QED BY <2>1, <3>1, <3>2 DEF LastAt
    <2>3. (k + 2) + 1 = k + 3 /\ (k + 1) + 1 = k + 2 /\ k + 2 \in 1..Len(t)
        BY <1>3
    <2>4. RestAt(t, k + 2, v)
        BY <1>1, <1>5, <2>2, <2>3 DEF RestAt
    <2> QED BY <1>1, <1>5, <2>3, <2>4 DEF WholeAt
<1>7. \A n \in 1..Len(t) : n > k + 1 => ~t[n].first
    <2> SUFFICES ASSUME NEW n \in 1..Len(t), n > k + 1 PROVE ~t[n].first
        OBVIOUS
    <2>1. n = k + 2 \/ n = k + 3
        BY <1>3
    <2> QED BY <1>1, <1>5, <2>1
<1>8. t[k + 1].first /\ t[k + 1].cmd = c /\ t[k + 1].status = v
    BY <1>1, <1>5
<1> QED BY <1>3, <1>4, <1>6, <1>7, <1>8 DEF IsLonger, k

\* A reply that ends at a line still ends there.
LEMMA LongerEnds ==
  ASSUME NEW s, NEW t, NEW c, NEW v, IsLonger(s, t, c, v), NEW n \in 1..Len(s), EndsAt(s, n)
  PROVE  EndsAt(t, n)
<1>1. CASE n = Len(s)
    BY <1>1 DEF IsLonger, EndsAt
<1>2. CASE n # Len(s)
    <2>1. s[n + 1].first /\ n + 1 \in 1..Len(s)
        BY <1>2 DEF EndsAt, IsLonger
    <2>2. t[n + 1] = s[n + 1]
        BY <2>1 DEF IsLonger
    <2> QED BY <2>1, <2>2 DEF EndsAt
<1> QED BY <1>1, <1>2

\* A last line stays the last line of its reply.
LEMMA LongerLast ==
  ASSUME NEW s, NEW t, NEW c, NEW v, IsLonger(s, t, c, v), NEW n, NEW w, LastAt(s, n, w)
  PROVE  LastAt(t, n, w)
<1>1. n \in 1..Len(s) /\ EndsAt(s, n)
    BY DEF LastAt
<1>2. t[n] = s[n] /\ n \in 1..Len(t) /\ EndsAt(t, n)
    BY <1>1, LongerEnds DEF IsLonger
<1> QED BY <1>2 DEF LastAt

\* The rest of a reply stays the rest of it.
LEMMA LongerRest ==
  ASSUME NEW s, NEW t, NEW c, NEW v, IsLonger(s, t, c, v), NEW n, NEW w, RestAt(s, n, w)
  PROVE  RestAt(t, n, w)
<1>1. CASE LastAt(s, n, w)
    BY <1>1, LongerLast DEF RestAt
<1>2. CASE n \in 1..Len(s) /\ ~s[n].first /\ s[n].sep = "x" /\ LastAt(s, n + 1, w)
    <2>1. LastAt(t, n + 1, w)
        BY <1>2, LongerLast
    <2>2. t[n] = s[n] /\ n \in 1..Len(t)
        BY <1>2 DEF IsLonger
    <2> QED BY <1>2, <2>1, <2>2 DEF RestAt
<1> QED BY <1>1, <1>2 DEF RestAt

\* What consisted of whole replies still does.
LEMMA LongerWhole ==
  ASSUME NEW s, NEW t, NEW c, NEW v, IsLonger(s, t, c, v), Whole(s)
  PROVE  Whole(t)
<1> SUFFICES ASSUME NEW n \in 1..Len(t), t[n].first PROVE WholeAt(t, n)
    BY DEF Whole
<1>1. n \in 1..Len(s) \/ n = Len(s) + 1
    BY DEF IsLonger
<1>2. CASE n = Len(s) + 1
    BY <1>2 DEF IsLonger
<1>3. CASE n \in 1..Len(s)
    <2>1. t[n] = s[n]
        BY <1>3 DEF IsLonger
    <2>2. WholeAt(s, n)
        BY <1>3, <2>1 DEF Whole
    <2>3. CASE t[n].sep = "-"
        <3>1. RestAt(s, n + 1, t[n].status)
            BY <2>1, <2>2, <2>3 DEF WholeAt
        <3>2. RestAt(t, n + 1, t[n].status)
            BY <3>1, LongerRest
        <3> QED BY <2>3, <3>2 DEF WholeAt
    <2>4. CASE t[n].sep # "-"
        <3>1. EndsAt(s, n)
            BY <2>1, <2>2, <2>4 DEF WholeAt
        <3>2. EndsAt(t, n)
            BY <1>3, <3>1, LongerEnds
        <3> QED BY <2>4, <3>2 DEF WholeAt
    <2> QED BY <2>3, <2>4
<1> QED BY <1>1, <1>2, <1>3

\* What starts with a first line, or is empty, starts with a first line.
LEMMA LongerFresh ==
  ASSUME NEW s \in Seq(Lines), NEW t, NEW c, NEW v, IsLonger(s, t, c, v), Fresh(s)
  PROVE  Fresh(t)
<1>1. CASE s = <<>>
    <2>1. Len(s) + 1 = 1
        BY <1>1
    <2> QED BY <2>1 DEF IsLonger, Fresh
<1>2. CASE s # <<>>
    <2>1. 1 \in 1..Len(s) /\ s[1].first
        BY <1>2 DEF Fresh
    <2> QED BY <2>1 DEF IsLonger, Fresh
<1> QED BY <1>1, <1>2

\* The new reply comes after the one under way, if there is one.
LEMMA LongerReplies ==
  ASSUME NEW s, NEW t, NEW c, NEW v, IsLonger(s, t, c, v), NEW b
  PROVE  /\ Len(s) + 1 \in 1..Len(t) /\ t[Len(s) + 1].status = v
         /\ NoReply(s) => OneReply(t, Len(s) + 1, c)
         /\ \A k \in 1..Len(s) : OneReply(s, k, b) =>
               k \in 1..Len(t) /\ TwoReplies(t, k, Len(s) + 1, b, c) /\ t[k] = s[k]
<1>1. Len(s) + 1 \in 1..Len(t) /\ t[Len(s) + 1].status = v
    BY DEF IsLonger
<1>2. ASSUME NoReply(s) PROVE OneReply(t, Len(s) + 1, c)
    <2>1. ASSUME NEW n \in 1..Len(t) PROVE t[n].first <=> n = Len(s) + 1
        <3>1. CASE n \in 1..Len(s)
            BY <1>2, <3>1 DEF IsLonger, NoReply
        <3>2. CASE n \notin 1..Len(s)
            BY <3>2 DEF IsLonger
        <3> QED BY <3>1, <3>2
    <2> QED BY <1>1, <2>1 DEF OneReply, IsLonger
<1>3. ASSUME NEW k \in 1..Len(s), OneReply(s, k, b)
      PROVE  k \in 1..Len(t) /\ TwoReplies(t, k, Len(s) + 1, b, c) /\ t[k] = s[k]
    <2>0. k \in 1..Len(t) /\ k < Len(s) + 1 /\ t[k] = s[k]
        BY DEF IsLonger
    <2>1. ASSUME NEW n \in 1..Len(t) PROVE t[n].first <=> n \in {k, Len(s) + 1}
        <3>1. CASE n \in 1..Len(s)
            BY <1>3, <3>1 DEF IsLonger, OneReply
        <3>2. CASE n \notin 1..Len(s)
            BY <1>3, <3>2 DEF IsLonger
        <3> QED BY <3>1, <3>2
    <2>2. t[k].cmd = b /\ t[Len(s) + 1].cmd = c
        BY <1>3, <2>0 DEF OneReply, IsLonger
    <2> QED BY <1>1, <2>0, <2>1, <2>2 DEF TwoReplies
<1> QED BY <1>1, <1>2, <1>3

(***************************************************************************)
(* The steps that leave the engine's state alone keep the agreement if     *)
(* they keep what is outstanding.                                          *)
(***************************************************************************)
Questions == Commands \cup {"HELLO"}

\* What the engine awaits an answer to.
Question(state) == IF state = "INIT" THEN "HELLO" ELSE state

\* A step that leaves the state of the engine alone keeps the agreement, if it
\* loses no answer.
LEMMA SameState ==
  ASSUME NEW z, NEW w, Sound(z), Agreement(z),
         w.p.state = z.p.state, w.p.sent_user = z.p.sent_user, SameEnds(z, w),
         w.p.status = z.p.status, z.p.multiline \/ ~w.p.multiline,
         Quiet(z) => Quiet(w), SentAhead(z) => SentAhead(w),
         \A c \in Questions : c # "RETR" /\ Outstanding(z, c) => Outstanding(w, c),
         Outstanding(z, "RETR") \/ Transferring(z) => Outstanding(w, "RETR") \/ Transferring(w)
  PROVE  Agreement(w)
<1>0. z.p.state \in States /\ "HELLO" \in Questions /\ Commands \subseteq Questions
    BY DEF Sound, ProtoRecords, Questions
<1>1. /\ w.p.state # "UNINIT"
      /\ w.p.sent_user => w.p.state = "INIT"
      /\ ~w.tried => w.p.state \in {"INIT", "CONNECTED"} /\ ~w.p.sent_user
      /\ w.p.state = "PORT" => ~w.passive
    BY DEF Agreement, SameEnds
<1>2. w.p.state = "INIT" /\ (w.p.sent_user \/ ~w.tried) => w.p.status = 0 /\ ~w.p.multiline
    BY DEF Agreement, SameEnds
<1>3. w.p.state \in {"IDLE", "CONNECTED"} => Quiet(w)
    BY DEF Agreement
<1>4. w.p.state = "INIT" =>
         IF w.p.sent_user THEN SentAhead(w)
         ELSE IF w.tried THEN Quiet(w) ELSE Outstanding(w, "HELLO")
    BY <1>0 DEF Agreement, SameEnds
<1>5. w.p.state \in Commands \ {"RETR"} => Outstanding(w, w.p.state)
    BY <1>0 DEF Agreement
<1>6. w.p.state = "RETR" => Outstanding(w, "RETR") \/ Transferring(w) \/ (~w.passive /\ Quiet(w))
    BY DEF Agreement, SameEnds
<1> QED BY <1>1, <1>2, <1>3, <1>4, <1>5, <1>6 DEF Agreement

\* A further line of a reply is read.
LEMMA FurtherKeeps ==
  ASSUME NEW z, NEW w, IsTail(z.lines, w.lines), ~z.lines[1].first,
         w.p.obuf = z.p.obuf, w.srv = z.srv, w.owed = z.owed
  PROVE  /\ Quiet(z) => Quiet(w)
         /\ \A c \in Questions : Outstanding(z, c) => Outstanding(w, c)
         /\ Transferring(z) => Transferring(w)
<1>0. \A a, b, d : Under(z, a, b, d) => Under(w, a, b, d)
    BY DEF Under
<1>1. (NoReply(z.lines) => NoReply(w.lines)) /\ (Nothing(z) => Nothing(w))
    BY <1>0, RestReplies DEF Nothing
<1>2. ASSUME NEW c, NEW k \in 1..Len(z.lines), OneReply(z.lines, k, c)
      PROVE  /\ k - 1 \in 1..Len(w.lines) /\ OneReply(w.lines, k - 1, c)
             /\ w.lines[k - 1] = z.lines[k]
    <2>1. k # 1
        BY <1>2 DEF OneReply
    <2> QED BY <1>2, <2>1, RestReplies
<1>3. Quiet(z) => Quiet(w)
    BY <1>1 DEF Quiet
<1>4. ASSUME NEW c \in Questions, Outstanding(z, c) PROVE Outstanding(w, c)
    <2>1. CASE OnItsWay(z, c) /\ NoReply(z.lines)
        BY <1>0, <1>1, <2>1 DEF OnItsWay, Outstanding
    <2>2. ASSUME NEW k \in 1..Len(z.lines), Nothing(z), OneReply(z.lines, k, c),
                 c = "RETR" => ~InProgress(z.lines[k].status)
          PROVE  Outstanding(w, c)
        <3>1. /\ k - 1 \in 1..Len(w.lines) /\ OneReply(w.lines, k - 1, c)
              /\ (c = "RETR" => ~InProgress(w.lines[k - 1].status))
            BY <1>2, <2>2
        <3> QED BY <1>1, <2>2, <3>1 DEF Outstanding
    <2> QED BY <1>4, <2>1, <2>2 DEF Outstanding
<1>5. ASSUME Transferring(z) PROVE Transferring(w)
    <2>1. CASE Under(z, NoOutput, <<>>, <<"RETR2">>) /\ NoReply(z.lines)
        BY <1>0, <1>1, <2>1 DEF Transferring
    <2>2. ASSUME NEW k \in 1..Len(z.lines), Under(z, NoOutput, <<>>, <<"RETR2">>),
                 OneReply(z.lines, k, "RETR"), InProgress(z.lines[k].status)
          PROVE  Transferring(w)
        <3>1. /\ k - 1 \in 1..Len(w.lines) /\ OneReply(w.lines, k - 1, "RETR")
              /\ InProgress(w.lines[k - 1].status)
            BY <1>2, <2>2
        <3> QED BY <1>0, <2>2, <3>1 DEF Transferring
    <2>3. ASSUME NEW k \in 1..Len(z.lines), NEW m \in 1..Len(z.lines), Nothing(z),
                 TwoReplies(z.lines, k, m, "RETR", "RETR"),
                 InProgress(z.lines[k].status), ~InProgress(z.lines[m].status)
          PROVE  Transferring(w)
        <3>1. k # 1
            BY <2>3 DEF TwoReplies
        <3>2. /\ k - 1 \in 1..Len(w.lines) /\ m - 1 \in 1..Len(w.lines)
              /\ TwoReplies(w.lines, k - 1, m - 1, "RETR", "RETR")
              /\ w.lines[k - 1] = z.lines[k] /\ w.lines[m - 1] = z.lines[m]
            BY <2>3, <3>1, BothMoveUp
        <3> QED BY <1>1, <2>3, <3>2 DEF Transferring
    <2> QED BY <1>5, <2>1, <2>2, <2>3 DEF Transferring
<1> QED BY <1>3, <1>4, <1>5

\* A command is sent.
LEMMA SendKeeps ==
  ASSUME NEW z, NEW w, Sound(z), SendsLine(z, w)
  PROVE  /\ ~Quiet(z) /\ ~Transferring(z)
         /\ \A c \in Questions : Outstanding(z, c) => Outstanding(w, c)
         /\ SentAhead(z) => SentAhead(w)
<1>0. /\ z.p.obuf # NoOutput /\ w.p.obuf = NoOutput
      /\ w.srv = Append(z.srv, z.p.obuf) /\ w.owed = z.owed /\ w.lines = z.lines
    BY OutputFields DEF Outputs, SendsLine, advanceOutput, Sound
<1>1. \A b, d : ~Under(z, NoOutput, b, d)
    BY <1>0 DEF Under
<1>2. \A a, d : Under(z, a, <<>>, d) => Under(w, NoOutput, <<a>>, d)
    BY <1>0 DEF Under
<1>3. ASSUME NEW c, OnItsWay(z, c) PROVE OnItsWay(w, c)
    BY <1>1, <1>2, <1>3 DEF OnItsWay
<1>4. ~Quiet(z) /\ ~Transferring(z) /\ ~Nothing(z)
    BY <1>1 DEF Quiet, Nothing, Transferring
<1>5. ASSUME NEW c \in Questions, Outstanding(z, c) PROVE Outstanding(w, c)
    BY <1>0, <1>3, <1>4, <1>5 DEF Outstanding
<1>6. ASSUME SentAhead(z) PROVE SentAhead(w)
    <2>1. CASE /\ Under(z, "USER", <<>>, <<"HELLO">>) \/ Under(z, NoOutput, <<"USER">>, <<"HELLO">>)
               /\ NoReply(z.lines)
        BY <1>0, <1>1, <1>2, <2>1 DEF SentAhead
    <2>2. CASE /\ OnItsWay(z, "USER")
               /\ \E k \in 1..Len(z.lines) : OneReply(z.lines, k, "HELLO")
        BY <1>0, <1>3, <2>2 DEF SentAhead
    <2> QED BY <1>4, <1>6, <2>1, <2>2 DEF SentAhead
<1> QED BY <1>4, <1>5, <1>6

\* The server reads a command.
LEMMA ReadKeeps ==
  ASSUME NEW z, NEW w, Sound(z), ReadsCommand(z, w)
  PROVE  /\ ~Quiet(z) /\ ~Transferring(z)
         /\ \A c \in Questions : Outstanding(z, c) => Outstanding(w, c)
         /\ SentAhead(z) => SentAhead(w)
<1>0. /\ z.owed = <<>> /\ z.srv # <<>> /\ w.lines = z.lines /\ w.p = z.p
      /\ w.owed = <<Head(z.srv)>> /\ w.srv = Tail(z.srv)
    BY DEF ReadsCommand
<1>1. \A a, d : ~Under(z, a, <<>>, d)
    BY <1>0 DEF Under
<1>2. \A a, b, c : ~Under(z, a, b, <<c>>)
    BY <1>0 DEF Under
<1>3. \A c : Under(z, NoOutput, <<c>>, <<>>) => Under(w, NoOutput, <<>>, <<c>>)
    BY <1>0 DEF Under
<1>4. ASSUME NEW c, OnItsWay(z, c) PROVE OnItsWay(w, c)
    BY <1>1, <1>3, <1>4 DEF OnItsWay
<1>5. ~Quiet(z) /\ ~Transferring(z) /\ ~Nothing(z)
    BY <1>1 DEF Quiet, Nothing, Transferring
<1>6. ASSUME NEW c \in Questions, Outstanding(z, c) PROVE Outstanding(w, c)
    BY <1>0, <1>4, <1>5, <1>6 DEF Outstanding
<1>7. ASSUME SentAhead(z) PROVE SentAhead(w)
    <2>1. ~Under(z, "USER", <<>>, <<"HELLO">>) /\ ~Under(z, NoOutput, <<"USER">>, <<"HELLO">>)
        BY <1>2
    <2>2. CASE /\ OnItsWay(z, "USER")
               /\ \E k \in 1..Len(z.lines) : OneReply(z.lines, k, "HELLO")
        BY <1>0, <1>4, <2>2 DEF SentAhead
    <2> QED BY <1>5, <1>7, <2>1, <2>2 DEF SentAhead
<1> QED BY <1>5, <1>6, <1>7

\* The server announces a transfer.
LEMMA AnnounceKeeps ==
  ASSUME NEW z, NEW w, Sound(z), Announces(z, w)
  PROVE  /\ ~Quiet(z) /\ ~Transferring(z) /\ ~SentAhead(z)
         /\ \A c \in Questions : c # "RETR" => ~Outstanding(z, c)
         /\ Outstanding(z, "RETR") => Transferring(w)
         /\ IsLonger(z.lines, w.lines, "RETR", 150)
<1>0. z.owed = <<"RETR">> /\ w.owed = <<"RETR2">> /\ w.p = z.p /\ w.srv = z.srv
    BY DEF Announces
<1>1. IsLonger(z.lines, w.lines, "RETR", 150)
    <2> DEFINE a == Line("RETR", 150, " ", TRUE)
    <2>1. w.lines = Append(z.lines, a) /\ z.lines \in Seq(Lines)
        BY DEF Announces, Sound
    <2>2. OneLine("RETR", 150) = <<a>>
        BY DEF OneLine
    <2> HIDE DEF a
    <2>3. w.lines = z.lines \o <<a>>
        BY <2>1
    <2>4. w.lines = z.lines \o OneLine("RETR", 150)
        BY <2>2, <2>3
    <2> QED BY <2>1, <2>4, OneLonger
<1>2. \A a, b : ~Under(z, a, b, <<>>)
    BY <1>0 DEF Under
<1>3. \A a, b, c : Under(z, a, b, <<c>>) => c = "RETR"
    BY <1>0 DEF Under
<1>4. ~Quiet(z) /\ ~Nothing(z) /\ ~Transferring(z)
    BY <1>2, <1>3 DEF Quiet, Nothing, Transferring
<1>5. ASSUME NEW c, OnItsWay(z, c) PROVE c = "RETR" /\ Under(z, NoOutput, <<>>, <<"RETR">>)
    BY <1>2, <1>3, <1>5 DEF OnItsWay
<1>6. ~SentAhead(z)
    BY <1>3, <1>4, <1>5 DEF SentAhead
<1>7. ASSUME NEW c, Outstanding(z, c)
      PROVE  c = "RETR" /\ Under(z, NoOutput, <<>>, <<"RETR">>) /\ NoReply(z.lines)
    BY <1>4, <1>5, <1>7 DEF Outstanding
<1>8. ASSUME Outstanding(z, "RETR") PROVE Transferring(w)
    <2> DEFINE k == Len(z.lines) + 1
    <2>1. k \in 1..Len(w.lines) /\ OneReply(w.lines, k, "RETR") /\ w.lines[k].status = 150
        BY <1>1, <1>7, <1>8, LongerReplies
    <2>2. InProgress(w.lines[k].status)
        BY <2>1 DEF InProgress
    <2>3. Under(w, NoOutput, <<>>, <<"RETR2">>)
        BY <1>0, <1>7, <1>8 DEF Under
    <2> HIDE DEF k
    <2> QED BY <2>1, <2>2, <2>3 DEF Transferring
<1> QED BY <1>1, <1>4, <1>6, <1>7, <1>8

\* The server replies.
LEMMA ReplyKeeps ==
  ASSUME NEW z, NEW w, Sound(z), Replies(z, w)
  PROVE  /\ ~Quiet(z)
         /\ \A c \in Questions : Outstanding(z, c) => Outstanding(w, c)
         /\ Transferring(z) => Transferring(w) \/ Outstanding(w, "RETR")
         /\ SentAhead(z) => SentAhead(w)
         /\ \E c, v : IsLonger(z.lines, w.lines, c, v)
<1>0. w.owed = <<>> /\ w.p = z.p /\ w.srv = z.srv
    BY DEF Replies
<1> DEFINE cmd == Asked(z.owed)
<1>1. cmd \in Questions /\ \E x : z.owed = <<x>>
    <2>1. z.owed # <<>> /\ z.owed \in Debts
        BY DEF Replies, Sound
    <2>2. PICK x \in Commands \cup {"HELLO", "RETR2"} : z.owed = <<x>>
        BY <2>1 DEF Debts
    <2>3. z.owed[1] = x
        BY <2>2
    <2> QED BY <2>2, <2>3 DEF Questions, Commands, Asked
<1>2. PICK v \in Verdicts(cmd) :
         w.lines = z.lines \o OneLine(cmd, v) \/ w.lines = z.lines \o ThreeLines(cmd, v)
    BY DEF Replies
<1>3. \A x : z.owed = <<x>> => cmd = IF x = "RETR2" THEN "RETR" ELSE x
    BY DEF Asked
<1> HIDE DEF cmd
<1>4. IsLonger(z.lines, w.lines, cmd, v) /\ ~InProgress(v)
    <2>1. z.lines \in Seq(Lines)
        BY DEF Sound
    <2>2. ~InProgress(v)
        BY <1>1, ServerLines DEF Questions
    <2> QED BY <1>2, <2>1, <2>2, OneLonger, ThreeLonger
<1> DEFINE k == Len(z.lines) + 1
<1>5. k \in 1..Len(w.lines) /\ w.lines[k].status = v
    BY <1>4, LongerReplies
<1>6. NoReply(z.lines) => OneReply(w.lines, k, cmd)
    BY <1>4, LongerReplies
<1>7. ASSUME NEW c, NEW n \in 1..Len(z.lines), OneReply(z.lines, n, c)
      PROVE  /\ n \in 1..Len(w.lines) /\ TwoReplies(w.lines, n, k, c, cmd)
             /\ w.lines[n] = z.lines[n]
    BY <1>4, <1>7, LongerReplies
<1> HIDE DEF k
<1>8. \A a, b : ~Under(z, a, b, <<>>)
    BY <1>1 DEF Under
<1>9. \A a, b, c : Under(z, a, b, <<c>>) => /\ Under(w, a, b, <<>>)
                                         /\ cmd = IF c = "RETR2" THEN "RETR" ELSE c
    BY <1>0, <1>3 DEF Under
<1>10. ~Quiet(z) /\ ~Nothing(z)
    BY <1>8 DEF Quiet, Nothing
<1>11. ASSUME NEW c \in Questions, OnItsWay(z, c) PROVE cmd = c /\ Nothing(w)
    <2>1. c # "RETR2"
        BY DEF Questions, Commands
    <2> QED BY <1>8, <1>9, <1>11, <2>1 DEF OnItsWay, Nothing
<1>12. ASSUME NEW c \in Questions, Outstanding(z, c) PROVE Outstanding(w, c)
    <2>1. OnItsWay(z, c) /\ NoReply(z.lines)
        BY <1>10, <1>12 DEF Outstanding
    <2>2. Nothing(w) /\ OneReply(w.lines, k, c) /\ ~InProgress(w.lines[k].status)
        BY <1>4, <1>5, <1>6, <1>11, <2>1
    <2> QED BY <1>5, <2>2 DEF Outstanding
<1>13. ASSUME Transferring(z) PROVE Transferring(w) \/ Outstanding(w, "RETR")
    <2>1. Under(z, NoOutput, <<>>, <<"RETR2">>)
        BY <1>10, <1>13 DEF Transferring
    <2>2. cmd = "RETR" /\ Nothing(w)
        BY <1>9, <2>1 DEF Nothing
    <2>3. CASE NoReply(z.lines)
        <3>1. OneReply(w.lines, k, "RETR") /\ ~InProgress(w.lines[k].status)
            BY <1>4, <1>5, <1>6, <2>2, <2>3
        <3> QED BY <1>5, <2>2, <3>1 DEF Outstanding
    <2>4. ASSUME NEW n \in 1..Len(z.lines), OneReply(z.lines, n, "RETR"),
                 InProgress(z.lines[n].status)
          PROVE  Transferring(w)
        <3>1. /\ n \in 1..Len(w.lines) /\ TwoReplies(w.lines, n, k, "RETR", "RETR")
              /\ InProgress(w.lines[n].status)
            BY <1>7, <2>2, <2>4
        <3>2. ~InProgress(w.lines[k].status)
            BY <1>4, <1>5
        <3> QED BY <1>5, <2>2, <3>1, <3>2 DEF Transferring
    <2> QED BY <1>10, <1>13, <2>3, <2>4 DEF Transferring
<1>14. ASSUME SentAhead(z) PROVE SentAhead(w)
    <2>1. CASE /\ Under(z, "USER", <<>>, <<"HELLO">>) \/ Under(z, NoOutput, <<"USER">>, <<"HELLO">>)
               /\ NoReply(z.lines)
        <3>1. cmd = "HELLO" /\ OnItsWay(w, "USER")
            BY <1>9, <2>1 DEF OnItsWay
        <3>2. OneReply(w.lines, k, "HELLO")
            BY <1>6, <2>1, <3>1
        <3> QED BY <1>5, <3>1, <3>2 DEF SentAhead
    <2>2. ASSUME OnItsWay(z, "USER"), NEW n \in 1..Len(z.lines), OneReply(z.lines, n, "HELLO")
          PROVE  SentAhead(w)
        <3>1. cmd = "USER" /\ Nothing(w)
            BY <1>11, <2>2 DEF Questions, Commands
        <3>2. n \in 1..Len(w.lines) /\ TwoReplies(w.lines, n, k, "HELLO", "USER")
            BY <1>7, <2>2, <3>1
        <3> QED BY <1>5, <3>1, <3>2 DEF SentAhead
    <2> QED BY <1>10, <1>14, <2>1, <2>2 DEF SentAhead
<1> QED BY <1>4, <1>10, <1>12, <1>13, <1>14

\* The agreement after a step that changes the engine's state, once login()
\* was called or the hello has been read.
LEMMA NewState ==
  ASSUME NEW w, w.p.sent_user = FALSE,
         \/ w.p.state = "CONNECTED" /\ Quiet(w)
         \/ w.p.state \in {"IDLE", "INIT"} /\ w.tried /\ Quiet(w)
         \/ \E c \in Commands \ {"RETR"} :
               /\ w.p.state = c /\ w.tried /\ Outstanding(w, c)
               /\ c = "PORT" => ~w.passive
         \/ /\ w.p.state = "RETR" /\ w.tried
            /\ Outstanding(w, "RETR") \/ Transferring(w) \/ (~w.passive /\ Quiet(w))
  PROVE  Agreement(w)
<1>1. CASE w.p.state = "CONNECTED" /\ Quiet(w)
    BY <1>1 DEF Agreement, Commands
<1>2. CASE w.p.state \in {"IDLE", "INIT"} /\ w.tried /\ Quiet(w)
    BY <1>2 DEF Agreement, Commands
<1>3. ASSUME NEW c \in Commands \ {"RETR"}, w.p.state = c, w.tried, Outstanding(w, c),
             c = "PORT" => ~w.passive
      PROVE  Agreement(w)
    <2>1. Outstanding(w, w.p.state)
        BY <1>3
    <2>2. c \notin {"UNINIT", "INIT", "CONNECTED", "IDLE", "RETR"}
        BY DEF Commands
    <2> QED BY <1>3, <2>1, <2>2 DEF Agreement
<1>4. CASE /\ w.p.state = "RETR" /\ w.tried
           /\ Outstanding(w, "RETR") \/ Transferring(w) \/ (~w.passive /\ Quiet(w))
    BY <1>4 DEF Agreement
<1> QED BY <1>1, <1>2, <1>3, <1>4

------------------------------------------------------------------------------
(***************************************************************************)
(* The engine reads a line.                                                *)
(***************************************************************************)
LEMMA ReadFacts ==
  ASSUME NEW z, NEW w, Sound(z), TakesLine(z, w)
  PROVE  /\ IsTail(z.lines, w.lines) /\ w.lines \in Seq(Lines)
         /\ z.lines \in Seq(Lines) /\ z.lines # <<>> /\ z.lines[1] \in Lines
         /\ w.p = giveInput(z.p, z.lines[1]).p
         /\ w.srv = z.srv /\ w.owed = z.owed /\ SameEnds(z, w)
         /\ z.p \in ProtoRecords /\ z.p.stack = StackFor(z.p.state) /\ z.p.state # "IDLE"
<1>1. /\ z.lines \in Seq(Lines) /\ z.lines # <<>> /\ w.lines = Tail(z.lines)
      /\ z.p \in ProtoRecords /\ z.p.stack = StackFor(z.p.state) /\ z.p.state # "IDLE"
    BY DEF Sound, TakesLine
<1>2. Head(z.lines) = z.lines[1]
    BY <1>1, TailLines
<1>3. /\ w.p = giveInput(z.p, z.lines[1]).p
      /\ w.srv = z.srv /\ w.owed = z.owed /\ SameEnds(z, w)
    BY <1>2 DEF TakesLine
<1>4. /\ IsTail(z.lines, w.lines) /\ w.lines \in Seq(Lines) /\ z.lines[1] \in Lines
    BY <1>1, TailLines DEF IsTail
<1> QED BY <1>1, <1>3, <1>4

\* A line inside a reply of several lines.
LEMMA FurtherLine ==
  ASSUME NEW z, NEW w, Sound(z), InStep(z), TakesLine(z, w), z.p.multiline
  PROVE  InStep(w)
<1> DEFINE l == z.lines[1]
<1>0. /\ IsTail(z.lines, w.lines) /\ w.lines \in Seq(Lines)
      /\ z.lines \in Seq(Lines) /\ l \in Lines
      /\ w.p = giveInput(z.p, l).p
      /\ w.srv = z.srv /\ w.owed = z.owed /\ w.tried = z.tried /\ w.passive = z.passive
      /\ z.p \in ProtoRecords /\ z.p.stack = StackFor(z.p.state)
    BY ReadFacts DEF SameEnds
<1>i. PICK q, g, r : q = z.p /\ g = giveInput(q, l) /\ r = g.p /\ r = w.p
    BY <1>0
<1>j. GoesOn(z.p, l, w.p)
    BY <1>0, <1>i, InputFields
<1>1. Whole(z.lines) /\ RestAt(z.lines, 1, z.p.status)
    BY DEF InStep, WellFormed
<1>2. /\ ~l.first
      /\ IF l.sep = " " /\ l.status = z.p.status THEN Fresh(w.lines)
         ELSE RestAt(w.lines, 1, z.p.status)
    BY <1>0, <1>1, FurtherRead
<1>3. Whole(w.lines)
    BY <1>0, <1>1, RestWhole
<1>4. /\ Quiet(z) => Quiet(w)
      /\ \A c \in Questions : Outstanding(z, c) => Outstanding(w, c)
      /\ Transferring(z) => Transferring(w)
    <2>1. w.p.obuf = z.p.obuf
        BY <1>j DEF GoesOn
    <2> QED BY <1>0, <1>2, <2>1, FurtherKeeps
<1> HIDE DEF l
<1>5. /\ w.p.multiline = ~(l.sep = " " /\ l.status = z.p.status)
      /\ w.p.state = z.p.state /\ w.p.sent_user = z.p.sent_user /\ w.p.status = z.p.status
    BY <1>j DEF GoesOn
<1>6. WellFormed(w)
    <2>1. CASE l.sep = " " /\ l.status = z.p.status
        BY <1>2, <1>3, <1>5, <2>1 DEF WellFormed
    <2>2. CASE ~(l.sep = " " /\ l.status = z.p.status)
        BY <1>2, <1>3, <1>5, <2>2 DEF WellFormed
    <2> QED BY <2>1, <2>2
<1>7. ~SentAhead(z) \/ ~(z.p.state = "INIT" /\ z.p.sent_user)
    BY DEF InStep, Agreement
<1>8. Agreement(w)
    <2> DEFINE st == z.p.state
    <2>1. Outstanding(z, "RETR") => Outstanding(w, "RETR")
        BY <1>4 DEF Questions, Commands
    <2>2. z.p.state = "INIT" => ~z.p.sent_user /\ z.tried
        BY DEF InStep, Agreement
    <2>3. z.p.state \in States /\ Commands \subseteq Questions
        BY <1>0 DEF ProtoRecords, Questions
    <2>4. /\ w.p.state # "UNINIT"
          /\ w.p.sent_user => w.p.state = "INIT"
          /\ ~w.tried => w.p.state \in {"INIT", "CONNECTED"} /\ ~w.p.sent_user
          /\ w.p.state = "PORT" => ~w.passive
        BY <1>0, <1>5 DEF InStep, Agreement
    <2>5. w.p.state = "INIT" => ~w.p.sent_user /\ w.tried /\ Quiet(w)
        BY <1>0, <1>4, <1>5, <2>2 DEF InStep, Agreement
    <2>6. w.p.state \in {"IDLE", "CONNECTED"} => Quiet(w)
        BY <1>4, <1>5 DEF InStep, Agreement
    <2>7. w.p.state \in Commands \ {"RETR"} => Outstanding(w, w.p.state)
        BY <1>4, <1>5, <2>3 DEF InStep, Agreement
    <2>8. w.p.state = "RETR" => Outstanding(w, "RETR") \/ Transferring(w) \/ (~w.passive /\ Quiet(w))
        BY <1>0, <1>4, <1>5, <2>1 DEF InStep, Agreement
    <2> QED BY <2>4, <2>5, <2>6, <2>7, <2>8 DEF Agreement
<1> QED BY <1>6, <1>8 DEF InStep

\* What a line that begins a reply leaves outstanding.
LEMMA FirstLine ==
  ASSUME NEW z, NEW w, Sound(z), InStep(z), TakesLine(z, w), ~z.p.multiline
  PROVE  giveInput(z.p, z.lines[1]).err # "ok" \/ InStep(w)
<1> DEFINE l == z.lines[1]
<1>0. /\ IsTail(z.lines, w.lines) /\ w.lines \in Seq(Lines)
      /\ z.lines \in Seq(Lines) /\ z.lines # <<>> /\ l \in Lines
      /\ w.p = giveInput(z.p, l).p
      /\ w.srv = z.srv /\ w.owed = z.owed /\ w.tried = z.tried /\ w.passive = z.passive
      /\ z.p \in ProtoRecords /\ z.p.stack = StackFor(z.p.state) /\ z.p.state # "IDLE"
    BY ReadFacts DEF SameEnds
<1>i. PICK q, g, r : q = z.p /\ g = giveInput(q, l) /\ r = g.p /\ r = w.p
    BY <1>0
<1>j. Begins(z.p, l, w.p, giveInput(z.p, l).err)
    BY <1>0, <1>i, InputFields
<1>1. Whole(z.lines) /\ l.first /\ 1 \in 1..Len(z.lines)
    BY <1>0 DEF InStep, WellFormed, Fresh, IsTail
<1>2. WellFormed(w)
    <2>1. IF l.sep = "-" THEN RestAt(w.lines, 1, l.status) ELSE Fresh(w.lines)
        BY <1>0, <1>1, FirstRead
    <2>2. Whole(w.lines)
        BY <1>0, <1>1, RestWhole
    <2> HIDE DEF l
    <2>3. w.p.multiline = (l.sep = "-") /\ w.p.status = l.status
        BY <1>j DEF Begins
    <2> QED BY <2>1, <2>2, <2>3 DEF WellFormed
<1>3. ~NoReply(z.lines)
    BY <1>1 DEF NoReply
<1>4. \A k \in 1..Len(z.lines) : \A c : OneReply(z.lines, k, c) => k = 1
    BY <1>1 DEF OneReply
<1>5. \A k, m \in 1..Len(z.lines) : \A c, d : TwoReplies(z.lines, k, m, c, d) => k = 1
    BY <1>1 DEF TwoReplies
<1>6. ASSUME NEW c, OneReply(z.lines, 1, c) PROVE NoReply(w.lines)
    BY <1>0, <1>6, RestReplies
<1>7. ASSUME NEW m \in 1..Len(z.lines), NEW c, NEW d, TwoReplies(z.lines, 1, m, c, d)
      PROVE  /\ m - 1 \in 1..Len(w.lines) /\ OneReply(w.lines, m - 1, d)
             /\ w.lines[m - 1] = z.lines[m]
    <2>1. IsTail(z.lines, w.lines)
        BY <1>0
    <2> QED BY <1>7, <2>1, SecondIsNext
<1>8. ~Quiet(z)
    BY <1>3 DEF Quiet
<1>9. ASSUME NEW c, Outstanding(z, c)
      PROVE  Nothing(z) /\ NoReply(w.lines) /\ (c = "RETR" => ~InProgress(l.status))
    <2>1. PICK k \in 1..Len(z.lines) :
             Nothing(z) /\ OneReply(z.lines, k, c) /\ (c = "RETR" => ~InProgress(z.lines[k].status))
        BY <1>3, <1>9 DEF Outstanding
    <2>2. k = 1
        BY <1>4, <2>1
    <2> QED BY <1>6, <2>1, <2>2
<1> HIDE DEF l
<1>10. \/ Reaction(z.p, l, w.p)
       \/ z.p.state \in {"UNINIT", "CONNECTED", "IDLE"}
    BY <1>j DEF Begins
<1>11. /\ z.p.state \notin {"UNINIT", "CONNECTED", "IDLE"}
       /\ z.p.state = "INIT" => z.p.sent_user \/ ~z.tried
       /\ z.p.sent_user \in BOOLEAN /\ z.p.state \in States
    BY <1>0, <1>8 DEF InStep, Agreement, ProtoRecords, Flags
<1>12. Reaction(z.p, l, w.p)
    BY <1>10, <1>11
<1>13. z.p.state = "INIT" /\ ~Success(l.status) => giveInput(z.p, l).err # "ok"
    BY <1>j DEF Begins
<1>14. \A a, b, d : Under(z, a, b, d) /\ w.p.obuf = z.p.obuf => Under(w, a, b, d)
    BY <1>0 DEF Under
<1>15. ASSUME Nothing(z) PROVE \A c : w.p.obuf = c => Under(w, c, <<>>, <<>>)
    BY <1>0, <1>15 DEF Under, Nothing
<1>16. ASSUME Nothing(z), NoReply(w.lines), w.p.obuf = z.p.obuf PROVE Quiet(w)
    BY <1>14, <1>16 DEF Nothing, Quiet
<1>17. z.p.state # "INIT" => z.tried /\ ~z.p.sent_user
    BY <1>11 DEF InStep, Agreement
<1>18. ASSUME NEW c, Under(w, c, <<>>, <<>>), NoReply(w.lines) PROVE Outstanding(w, c)
    BY <1>18 DEF Outstanding, OnItsWay
<1>19. CASE z.p.state = "INIT" /\ z.p.sent_user /\ Success(l.status)
    <2>1. w.tried /\ w.p.state = "USER" /\ w.p.sent_user = FALSE /\ w.p.obuf = z.p.obuf
        BY <1>0, <1>12, <1>19 DEF InStep, Agreement, Reaction
    <2>2. SentAhead(z)
        BY <1>19 DEF InStep, Agreement
    <2>3. ASSUME OnItsWay(z, "USER"), NEW k \in 1..Len(z.lines), OneReply(z.lines, k, "HELLO")
          PROVE  Outstanding(w, "USER")
        <3>1. NoReply(w.lines)
            BY <1>4, <1>6, <2>3
        <3>2. OnItsWay(w, "USER")
            BY <1>14, <2>1, <2>3 DEF OnItsWay
        <3> QED BY <3>1, <3>2 DEF Outstanding
    <2>4. ASSUME Nothing(z), NEW k \in 1..Len(z.lines), NEW m \in 1..Len(z.lines),
                 TwoReplies(z.lines, k, m, "HELLO", "USER")
          PROVE  Outstanding(w, "USER")
        <3>1. k = 1
            BY <1>5, <2>4
        <3>2. m - 1 \in 1..Len(w.lines) /\ OneReply(w.lines, m - 1, "USER")
            BY <1>7, <2>4, <3>1
        <3>3. Nothing(w)
            BY <1>14, <2>1, <2>4 DEF Nothing
        <3> QED BY <3>2, <3>3 DEF Outstanding
    <2>5. Outstanding(w, "USER")
        BY <1>3, <2>2, <2>3, <2>4 DEF SentAhead
    <2>6. Agreement(w)
        BY <2>1, <2>5, NewState DEF Commands
    <2> QED BY <1>2, <2>6 DEF InStep
<1>20. CASE z.p.state = "INIT" /\ ~z.p.sent_user /\ Success(l.status)
    <2>1. w.p.state = "CONNECTED" /\ w.p.sent_user = FALSE /\ w.p.obuf = z.p.obuf
        BY <1>12, <1>20 DEF Reaction
    <2>2. Outstanding(z, "HELLO")
        BY <1>11, <1>20 DEF InStep, Agreement
    <2>3. Quiet(w)
        BY <1>9, <1>16, <2>1, <2>2
    <2>4. Agreement(w)
        BY <2>1, <2>3, NewState
    <2> QED BY <1>2, <2>4 DEF InStep
<1>21. ASSUME NEW c \in Commands \ {"RETR"}, z.p.state = c PROVE InStep(w)
    <2>1. Outstanding(z, c)
        BY <1>21 DEF InStep, Agreement
    <2>2. Nothing(z) /\ NoReply(w.lines)
        BY <1>9, <2>1
    <2>3. z.p.state # "INIT"
        BY <1>21 DEF Commands
    <2>4. w.tried /\ w.p.sent_user = FALSE
        BY <1>0, <1>11, <1>12, <1>17, <2>3 DEF Reaction
    <2>5. \/ w.p.state \in {"IDLE", "INIT"} /\ w.p.obuf = z.p.obuf
          \/ w.p.state = "PASS" /\ w.p.obuf = "PASS"
          \/ w.p.state = "RETR" /\ w.p.obuf = "RETR"
          \/ w.p.state = "RETR" /\ w.p.obuf = z.p.obuf /\ c = "PORT"
        BY <1>12, <1>21 DEF Reaction, Commands
    <2>6. CASE w.p.state \in {"IDLE", "INIT"} /\ w.p.obuf = z.p.obuf
        <3>1. Quiet(w)
            BY <1>16, <2>2, <2>6
        <3>2. Agreement(w)
            BY <2>4, <2>6, <3>1, NewState
        <3> QED BY <1>2, <3>2 DEF InStep
    <2>7. CASE w.p.state = "PASS" /\ w.p.obuf = "PASS"
        <3>1. Outstanding(w, "PASS")
            BY <1>15, <1>18, <2>2, <2>7
        <3>2. Agreement(w)
            BY <2>4, <2>7, <3>1, NewState DEF Commands
        <3> QED BY <1>2, <3>2 DEF InStep
    <2>8. CASE w.p.state = "RETR" /\ w.p.obuf = "RETR"
        <3>1. Outstanding(w, "RETR")
            BY <1>15, <1>18, <2>2, <2>8
        <3>2. Agreement(w)
            BY <2>4, <2>8, <3>1, NewState
        <3> QED BY <1>2, <3>2 DEF InStep
    <2>9. CASE w.p.state = "RETR" /\ w.p.obuf = z.p.obuf /\ c = "PORT"
        <3>1. Quiet(w) /\ ~w.passive
            BY <1>0, <1>16, <1>21, <2>2, <2>9 DEF InStep, Agreement
        <3>2. Agreement(w)
            BY <2>4, <2>9, <3>1, NewState
        <3> QED BY <1>2, <3>2 DEF InStep
    <2> QED BY <2>5, <2>6, <2>7, <2>8, <2>9
<1>22. CASE z.p.state = "RETR"
    <2>1. w.tried /\ w.p.sent_user = FALSE /\ w.p.obuf = z.p.obuf
        BY <1>0, <1>11, <1>12, <1>17, <1>22 DEF Reaction
    <2>2. w.p.state = IF InProgress(l.status) THEN "RETR" ELSE "IDLE"
        BY <1>12, <1>22 DEF Reaction
    <2>3. Outstanding(z, "RETR") \/ Transferring(z)
        BY <1>8, <1>22 DEF InStep, Agreement
    <2>4. CASE Outstanding(z, "RETR")
        <3>1. Nothing(z) /\ NoReply(w.lines) /\ ~InProgress(l.status)
            BY <1>9, <2>4
        <3>2. Quiet(w)
            BY <1>16, <2>1, <3>1
        <3>3. Agreement(w)
            BY <2>1, <2>2, <3>1, <3>2, NewState
        <3> QED BY <1>2, <3>3 DEF InStep
    <2>5. ASSUME NEW k \in 1..Len(z.lines), Under(z, NoOutput, <<>>, <<"RETR2">>),
                 OneReply(z.lines, k, "RETR"), InProgress(z.lines[k].status)
          PROVE  InStep(w)
        <3>1. InProgress(l.status) /\ NoReply(w.lines)
            BY <1>4, <1>6, <2>5 DEF l
        <3>2. Transferring(w)
            BY <1>14, <2>1, <2>5, <3>1 DEF Transferring
        <3>3. Agreement(w)
            BY <2>1, <2>2, <3>1, <3>2, NewState
        <3> QED BY <1>2, <3>3 DEF InStep
    <2>6. ASSUME NEW k \in 1..Len(z.lines), NEW m \in 1..Len(z.lines), Nothing(z),
                 TwoReplies(z.lines, k, m, "RETR", "RETR"),
                 InProgress(z.lines[k].status), ~InProgress(z.lines[m].status)
          PROVE  InStep(w)
        <3>1. k = 1 /\ InProgress(l.status)
            BY <1>5, <2>6 DEF l
        <3>2. /\ m - 1 \in 1..Len(w.lines) /\ OneReply(w.lines, m - 1, "RETR")
              /\ ~InProgress(w.lines[m - 1].status)
            BY <1>7, <2>6, <3>1
        <3>3. Nothing(w)
            BY <1>14, <2>1, <2>6 DEF Nothing
        <3>4. Outstanding(w, "RETR")
            BY <3>2, <3>3 DEF Outstanding
        <3>5. Agreement(w)
            BY <2>1, <2>2, <3>1, <3>4, NewState
        <3> QED BY <1>2, <3>5 DEF InStep
    <2> QED BY <1>3, <2>3, <2>4, <2>5, <2>6 DEF Transferring
<1> QED BY <1>11, <1>13, <1>19, <1>20, <1>21, <1>22 DEF States, Commands, l

------------------------------------------------------------------------------
(***************************************************************************)
(* The application calls.                                                  *)
(***************************************************************************)
\* A command accepted in a session where nothing is outstanding.
LEMMA Accepted ==
  ASSUME NEW z, NEW w, Quiet(z), NEW c, w.p.obuf = c, w.srv = z.srv, w.owed = z.owed, w.lines = z.lines
  PROVE  Outstanding(w, c)
<1>1. Under(w, c, <<>>, <<>>)
    BY DEF Quiet, Nothing, Under
<1>2. NoReply(w.lines)
    BY DEF Quiet
<1> QED BY <1>1, <1>2 DEF Outstanding, OnItsWay

\* The lines under way and where the engine is in them stay as they are.
LEMMA SameLines ==
  ASSUME NEW z, NEW w, WellFormed(z), w.lines = z.lines, w.p.multiline = z.p.multiline, w.p.status = z.p.status
  PROVE  WellFormed(w)
BY DEF WellFormed

\* Lines are added.
LEMMA LongerLines ==
  ASSUME NEW z, NEW w, Sound(z), WellFormed(z), w.p = z.p, NEW c, NEW v, IsLonger(z.lines, w.lines, c, v)
  PROVE  WellFormed(w)
<1>1. z.lines \in Seq(Lines)
    BY DEF Sound
<1>2. Whole(w.lines)
    BY LongerWhole DEF WellFormed
<1>3. CASE z.p.multiline
    <2>1. RestAt(w.lines, 1, z.p.status)
        BY <1>3, LongerRest DEF WellFormed
    <2> QED BY <1>2, <1>3, <2>1 DEF WellFormed
<1>4. CASE ~z.p.multiline
    <2>1. Fresh(w.lines)
        BY <1>1, <1>4, LongerFresh DEF WellFormed
    <2> QED BY <1>2, <1>4, <2>1 DEF WellFormed
<1> QED BY <1>3, <1>4

\* login() sends USER, or is remembered until the greeting has come.
LEMMA LoginStep ==
  ASSUME NEW z, NEW w, Sound(z), InStep(z), ~z.tried, w.p = login(z.p).p,
         w.srv = z.srv, w.lines = z.lines, w.owed = z.owed, w.tried = TRUE, w.passive = z.passive
  PROVE  InStep(w)
<1>g. PICK q, g : q = z.p /\ g = login(q)
    OBVIOUS
<1>0. /\ w.p = g.p /\ w.srv = z.srv /\ w.lines = z.lines /\ w.owed = z.owed
      /\ w.tried = TRUE /\ ~z.tried
      /\ z.p \in ProtoRecords /\ z.p.stack = StackFor(z.p.state)
    BY <1>g DEF Sound
<1>1. z.p.state \in {"INIT", "CONNECTED"} /\ ~z.p.sent_user
    BY <1>0 DEF InStep, Agreement
<1>3. ~Under(z, "HELLO", <<>>, <<>>) /\ ~Under(z, NoOutput, <<"HELLO">>, <<>>)
    <2>1. z.p.obuf # "HELLO"
        BY <1>0 DEF ProtoRecords, Outputs, Commands, NoOutput
    <2>2. z.srv # <<"HELLO">>
        <3>1. z.srv \in Seq(Commands) /\ "HELLO" \notin Commands
            BY DEF Sound, Commands
        <3>2. ASSUME z.srv = <<"HELLO">> PROVE FALSE
            <4>1. 1 \in 1..Len(z.srv) /\ z.srv[1] = "HELLO"
                BY <3>2
            <4>2. \A n \in 1..Len(z.srv) : z.srv[n] \in Commands
                BY <3>1
            <4> QED BY <3>1, <4>1, <4>2
        <3> QED BY <3>2
    <2> QED BY <2>1, <2>2 DEF Under
<1>4. CASE z.p.state = "CONNECTED"
    <2>1. Quiet(z) /\ z.p.obuf = NoOutput
        BY <1>4 DEF InStep, Agreement, Quiet, Nothing, Under
    <2>2. Accepts(z.p, w.p, "USER", "USER") /\ w.p.sent_user = FALSE
        <3>1. ~(z.p.state \notin {"INIT", "CONNECTED"} \/ z.p.sent_user) /\ ~isOutputReady(z.p)
            BY <1>1, <2>1 DEF isOutputReady
        <3>2. g.err = "ok"
            BY <1>g, <3>1 DEF login
        <3>3. \/ g.p = q /\ g.err \in Refusals
              \/ q.state = "CONNECTED" /\ Accepts(q, g.p, "USER", "USER") /\ g.p.sent_user = FALSE
              \/ q.state = "INIT"
            BY <1>g, <1>0, LoginFields
        <3> QED BY <1>g, <1>0, <1>4, <3>2, <3>3 DEF Refusals
    <2>3. Outstanding(w, "USER")
        BY <1>0, <2>1, <2>2, Accepted DEF Accepts
    <2>4. Agreement(w)
        BY <1>0, <2>2, <2>3, NewState DEF Accepts, Commands
    <2>5. WellFormed(w)
        BY <1>0, <2>2, SameLines DEF InStep, Accepts
    <2> QED BY <2>4, <2>5 DEF InStep
<1>5. CASE z.p.state = "INIT"
    <2>1. Outstanding(z, "HELLO")
        BY <1>0, <1>1, <1>5 DEF InStep, Agreement
    <2>2. \/ Under(z, NoOutput, <<>>, <<"HELLO">>) /\ NoReply(z.lines)
          \/ Nothing(z) /\ \E k \in 1..Len(z.lines) : OneReply(z.lines, k, "HELLO")
        BY <1>3, <2>1 DEF Outstanding, OnItsWay
    <2>3. z.p.obuf = NoOutput
        BY <2>2 DEF Under, Nothing
    <2>4. Accepts(z.p, w.p, "INIT", "USER") /\ w.p.sent_user = TRUE
        <3>1. ~(z.p.state \notin {"INIT", "CONNECTED"} \/ z.p.sent_user) /\ ~isOutputReady(z.p)
            BY <1>1, <2>3 DEF isOutputReady
        <3>2. g.err = "ok"
            BY <1>g, <3>1 DEF login
        <3>3. \/ g.p = q /\ g.err \in Refusals
              \/ q.state = "INIT" /\ Accepts(q, g.p, "INIT", "USER") /\ g.p.sent_user = TRUE
              \/ q.state = "CONNECTED"
            BY <1>g, <1>0, LoginFields
        <3> QED BY <1>g, <1>0, <1>5, <3>2, <3>3 DEF Refusals
    <2>5. SentAhead(w)
        <3>1. CASE Under(z, NoOutput, <<>>, <<"HELLO">>) /\ NoReply(z.lines)
            <4>1. Under(w, "USER", <<>>, <<"HELLO">>) /\ NoReply(w.lines)
                BY <1>0, <2>4, <3>1 DEF Under, Accepts
            <4> QED BY <4>1 DEF SentAhead
        <3>2. CASE Nothing(z) /\ \E k \in 1..Len(z.lines) : OneReply(z.lines, k, "HELLO")
            <4>1. Under(w, "USER", <<>>, <<>>)
                BY <1>0, <2>4, <3>2 DEF Under, Nothing, Accepts
            <4>2. \E k \in 1..Len(w.lines) : OneReply(w.lines, k, "HELLO")
                BY <1>0, <3>2
            <4> QED BY <4>1, <4>2 DEF SentAhead, OnItsWay
        <3> QED BY <2>2, <3>1, <3>2
    <2>6. WellFormed(w)
        BY <1>0, <2>4, SameLines DEF InStep, Accepts
    <2>7. w.p.status = 0 /\ ~w.p.multiline
        BY <1>0, <1>5, <2>4 DEF InStep, Agreement, Accepts
    <2>8. w.p.state = "INIT"
        BY <2>4 DEF Accepts
    <2>9. Agreement(w)
        BY <1>0, <2>4, <2>5, <2>7, <2>8 DEF Agreement, Commands
    <2> QED BY <2>6, <2>9 DEF InStep
<1> QED BY <1>1, <1>4, <1>5

\* A command after login: refused, or accepted when nothing is outstanding.
LEMMA CommandStep ==
  ASSUME NEW z, NEW w, Sound(z), InStep(z), NEW c \in {"CWD", "TYPE", "SIZE", "PASV", "PORT"},
         c = "PORT" => ~z.passive,
         \/ w.p = z.p
         \/ z.p.state = "IDLE" /\ Accepts(z.p, w.p, c, c) /\ w.p.sent_user = z.p.sent_user,
         w.srv = z.srv, w.lines = z.lines, w.owed = z.owed, SameEnds(z, w)
  PROVE  InStep(w)
<1>1. CASE w.p = z.p
    <2>1. /\ Quiet(z) => Quiet(w)
          /\ SentAhead(z) => SentAhead(w)
          /\ \A d : Outstanding(z, d) => Outstanding(w, d)
          /\ Transferring(z) => Transferring(w)
        BY <1>1 DEF Quiet, Nothing, Under, Outstanding, OnItsWay, Transferring, SentAhead
    <2>2. Agreement(w)
        BY <1>1, <2>1, SameState DEF InStep
    <2> QED BY <1>1, <2>2, SameLines DEF InStep
<1>2. CASE z.p.state = "IDLE" /\ Accepts(z.p, w.p, c, c) /\ w.p.sent_user = z.p.sent_user
    <2>1. Quiet(z) /\ z.tried /\ ~z.p.sent_user
        BY <1>2 DEF InStep, Agreement
    <2>2. Outstanding(w, c)
        BY <1>2, <2>1, Accepted DEF Accepts
    <2>3. w.p.sent_user = FALSE /\ w.tried /\ w.p.state = c
        <3>1. z.p.sent_user \in BOOLEAN
            BY DEF Sound, ProtoRecords, Flags
        <3> QED BY <1>2, <2>1, <3>1 DEF Accepts, SameEnds
    <2>4. Agreement(w)
        BY <2>2, <2>3, NewState DEF Commands, SameEnds
    <2>5. WellFormed(w)
        BY <1>2, SameLines DEF InStep, Accepts
    <2> QED BY <2>4, <2>5 DEF InStep
<1> QED BY <1>1, <1>2

------------------------------------------------------------------------------
\* The line that is read next answers what the engine awaits.
LEMMA NextAnswers ==
  ASSUME NEW z, Sound(z), InStep(z), z.lines # <<>>, z.p.state # "IDLE", ~z.p.multiline
  PROVE  z.lines[1].first /\ z.lines[1].cmd = Question(z.p.state)
<1>1. z.lines[1].first /\ 1 \in 1..Len(z.lines) /\ z.p.state \in States
    BY DEF InStep, WellFormed, Fresh, Sound, ProtoRecords
<1>2. ~NoReply(z.lines) /\ ~Quiet(z)
    BY <1>1 DEF NoReply, Quiet
<1>3. \A k \in 1..Len(z.lines) : \A c : OneReply(z.lines, k, c) => z.lines[1].cmd = c
    BY <1>1 DEF OneReply
<1>4. \A k, m \in 1..Len(z.lines) : \A c, d :
         TwoReplies(z.lines, k, m, c, d) => z.lines[1].cmd = c
    BY <1>1 DEF TwoReplies
<1>5. ASSUME NEW c, Outstanding(z, c) PROVE z.lines[1].cmd = c
    BY <1>2, <1>3, <1>5 DEF Outstanding
<1>6. Transferring(z) => z.lines[1].cmd = "RETR"
    BY <1>2, <1>3, <1>4 DEF Transferring
<1>7. SentAhead(z) => z.lines[1].cmd = "HELLO"
    BY <1>2, <1>3, <1>4 DEF SentAhead
<1>8. CASE z.p.state = "INIT"
    BY <1>1, <1>2, <1>5, <1>7, <1>8 DEF InStep, Agreement, Question
<1>9. CASE z.p.state \in Commands \ {"RETR"}
    BY <1>1, <1>5, <1>9 DEF InStep, Agreement, Question, Commands
<1>10. CASE z.p.state = "RETR"
    BY <1>1, <1>2, <1>5, <1>6, <1>10 DEF InStep, Agreement, Question
<1>11. z.p.state \notin {"UNINIT", "CONNECTED"}
    BY <1>2 DEF InStep, Agreement
<1> QED BY <1>1, <1>8, <1>9, <1>10, <1>11 DEF States, Commands
------------------------------------------------------------------------------
(***************************************************************************)
(* Together: whatever happens in a conversation leaves it one, and in step *)
(* if it was.                                                              *)
(***************************************************************************)
\* A line that is taken is a command.
LEMMA SendSound ==
  ASSUME NEW z, NEW w, Sound(z), SendsLine(z, w)
  PROVE  Sound(w)
<1>1. /\ z.p \in ProtoRecords /\ w.p = Output(z.p, NoOutput) /\ z.p.obuf # NoOutput
      /\ NoOutput \in Outputs
    BY DEF Sound, SendsLine, advanceOutput, Outputs
<1>2. w.p \in ProtoRecords /\ w.p.stack = z.p.stack /\ w.p.state = z.p.state
    BY <1>1, OutputFields
<1>3. z.p.obuf \in Commands
    BY <1>1 DEF ProtoRecords, Outputs
<1>4. w.srv \in Seq(Commands)
    BY <1>3 DEF Sound, SendsLine
<1> QED BY <1>2, <1>4 DEF Sound, SendsLine, SameEnds

\* A line that is taken is then on its way.
LEMMA SendInStep ==
  ASSUME NEW z, NEW w, Sound(z), InStep(z), SendsLine(z, w)
  PROVE  InStep(w)
<1>1. /\ w.p = Output(z.p, NoOutput) /\ w.lines = z.lines /\ SameEnds(z, w)
      /\ z.p \in ProtoRecords
    BY DEF SendsLine, advanceOutput, Sound
<1>2. /\ w.p.state = z.p.state /\ w.p.sent_user = z.p.sent_user
      /\ w.p.multiline = z.p.multiline /\ w.p.status = z.p.status
    BY <1>1, OutputFields DEF Keeps, Outputs
<1>3. Agreement(w)
    BY <1>1, <1>2, SendKeeps, SameState DEF InStep, Questions, Commands
<1>4. WellFormed(w)
    BY <1>1, <1>2, SameLines DEF InStep
<1> QED BY <1>3, <1>4 DEF InStep

\* A line that is given is one less.
LEMMA TakeSound ==
  ASSUME NEW z, NEW w, Sound(z), TakesLine(z, w)
  PROVE  Sound(w)
<1> DEFINE l == z.lines[1]
<1>1. /\ w.lines \in Seq(Lines) /\ l \in Lines
      /\ w.p = giveInput(z.p, l).p /\ w.srv = z.srv /\ w.owed = z.owed /\ SameEnds(z, w)
      /\ z.p \in ProtoRecords /\ z.p.stack = StackFor(z.p.state)
    BY ReadFacts
<1> HIDE DEF l
<1>2. PICK q, g, r : q = z.p /\ g = giveInput(q, l) /\ r = g.p /\ r = w.p
    BY <1>1
<1>3. w.p \in ProtoRecords /\ w.p.stack = StackFor(w.p.state)
    BY <1>1, <1>2, InputFields
<1> QED BY <1>1, <1>3 DEF Sound, SameEnds

\* If the engine takes it, the answer it awaits next is still the next to come.
LEMMA TakeInStep ==
  ASSUME NEW z, NEW w, Sound(z), InStep(z), TakesLine(z, w), giveInput(z.p, Head(z.lines)).err = "ok"
  PROVE  InStep(w)
<1>1. Head(z.lines) = z.lines[1]
    BY TailLines DEF Sound, TakesLine
<1>2. giveInput(z.p, z.lines[1]).err = "ok"
    BY <1>1
<1> QED BY <1>2, FirstLine, FurtherLine

\* A command that is read is owed an answer.
LEMMA ReadSound ==
  ASSUME NEW z, NEW w, Sound(z), ReadsCommand(z, w)
  PROVE  Sound(w)
<1>1. Head(z.srv) \in Commands /\ Tail(z.srv) \in Seq(Commands)
    BY DEF Sound, ReadsCommand
<1>2. w.owed \in Debts
    BY <1>1 DEF ReadsCommand, Debts
<1> QED BY <1>1, <1>2 DEF Sound, ReadsCommand, SameEnds

\* It stays the one outstanding.
LEMMA ReadInStep ==
  ASSUME NEW z, NEW w, Sound(z), InStep(z), ReadsCommand(z, w)
  PROVE  InStep(w)
<1>1. w.p = z.p /\ w.lines = z.lines /\ SameEnds(z, w)
    BY DEF ReadsCommand
<1>2. Agreement(w)
    BY <1>1, ReadKeeps, SameState DEF InStep, Questions, Commands
<1>3. WellFormed(w)
    BY <1>1, SameLines DEF InStep
<1> QED BY <1>2, <1>3 DEF InStep

\* An announcement is one more line.
LEMMA AnnounceSound ==
  ASSUME NEW z, NEW w, Sound(z), Announces(z, w)
  PROVE  Sound(w)
<1> DEFINE a == Line("RETR", 150, " ", TRUE)
<1>1. a \in Lines
    BY DEF Line, Lines, Commands, Separators
<1>2. w.lines = Append(z.lines, a) /\ w.owed \in Debts
    BY DEF Announces, Debts
<1> HIDE DEF a
<1>3. w.lines \in Seq(Lines)
    BY <1>1, <1>2 DEF Sound
<1> QED BY <1>2, <1>3 DEF Sound, Announces, SameEnds

\* It turns the outstanding transfer into one under way.
LEMMA AnnounceInStep ==
  ASSUME NEW z, NEW w, Sound(z), InStep(z), Announces(z, w)
  PROVE  InStep(w)
<1>1. w.p = z.p /\ SameEnds(z, w)
    BY DEF Announces
<1>2. Agreement(w)
    BY <1>1, AnnounceKeeps, SameState DEF InStep
<1>3. WellFormed(w)
    BY <1>1, AnnounceKeeps, LongerLines DEF InStep
<1> QED BY <1>2, <1>3 DEF InStep

\* A reply is one line more, or three.
LEMMA ReplySound ==
  ASSUME NEW z, NEW w, Sound(z), Replies(z, w)
  PROVE  Sound(w)
<1> DEFINE cmd == Asked(z.owed)
<1>1. cmd \in Commands \cup {"HELLO"}
    <2>1. PICK x \in Commands \cup {"HELLO", "RETR2"} : z.owed = <<x>>
        BY DEF Sound, Replies, Debts
    <2>2. z.owed[1] = x
        BY <2>1
    <2> QED BY <2>1, <2>2 DEF Commands, Asked
<1>2. PICK v \in Verdicts(cmd) :
         w.lines = z.lines \o OneLine(cmd, v) \/ w.lines = z.lines \o ThreeLines(cmd, v)
    BY DEF Replies
<1> HIDE DEF cmd
<1>3. OneLine(cmd, v) \in Seq(Lines) /\ ThreeLines(cmd, v) \in Seq(Lines)
    BY <1>1, ServerLines
<1>4. \A t \in Seq(Lines) : z.lines \o t \in Seq(Lines)
    BY DEF Sound
<1>5. w.lines \in Seq(Lines) /\ w.owed \in Debts
    BY <1>2, <1>3, <1>4 DEF Replies, Debts
<1> QED BY <1>5 DEF Sound, Replies, SameEnds

\* It answers what is outstanding.
LEMMA ReplyInStep ==
  ASSUME NEW z, NEW w, Sound(z), InStep(z), Replies(z, w)
  PROVE  InStep(w)
<1>1. w.p = z.p /\ SameEnds(z, w)
    BY DEF Replies
<1>2. Agreement(w)
    BY <1>1, ReplyKeeps, SameState DEF InStep, Questions, Commands
<1>3. WellFormed(w)
    BY <1>1, ReplyKeeps, LongerLines DEF InStep
<1> QED BY <1>2, <1>3 DEF InStep
================================================================================
