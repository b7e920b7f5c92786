--------------------------- MODULE FtpSessionProof ---------------------------
(***************************************************************************)
(* The protocol engine and the server stay in step: what the engine        *)
(* expects next is what the server says next, replies of several lines and *)
(* a USER sent ahead of the hello included; and a command that is reported *)
(* as done is done. For the login this needs that the application calls    *)
(* login() once a session. What each step does to the conversation is in   *)
(* FtpInStep.tla.                                                          *)
(***************************************************************************)
EXTENDS FtpSession, FtpInStep

Fatal == err \in {"EACCES", "EINVAL"}

\* The conversation the session is.
Now == [p |-> p, srv |-> toServer, lines |-> toClient, owed |-> owed,
        tried |-> triedLogin, passive |-> Passive]

Errors == {"ok", "EISCONN", "EWOULDBLOCK", "E2BIG", "EACCES", "EINVAL"}

Typed == Sound(Now) /\ err \in Errors

InStepInv == Fatal \/ InStep(Now)

\* z is the conversation now and w the one after the step.
IsStep(z, w) ==
    /\ z.p = p /\ z.srv = toServer /\ z.lines = toClient /\ z.owed = owed
    /\ z.tried = triedLogin /\ z.passive = Passive
    /\ w.p = p' /\ w.srv = toServer' /\ w.lines = toClient' /\ w.owed = owed'
    /\ w.tried = triedLogin' /\ w.passive = Passive

\* The two can be named.
LEMMA BothConversations ==
  \E z, w : z = Now /\ w = Now' /\ IsStep(z, w)
<1>1. PICK z, w : z = Now /\ w = Now'
    OBVIOUS
<1>2. IsStep(z, w)
    BY <1>1 DEF Now, IsStep
<1> QED BY <1>1, <1>2

\* A session starts with the server about to say hello.
LEMMA SessionStarts == Init => Typed /\ InStep(Now)
<1> SUFFICES ASSUME Init PROVE Typed /\ InStep(Now)
    OBVIOUS
<1>z. PICK z : z = Now
    OBVIOUS
<1>1. /\ z.p = NewProto /\ z.srv = <<>> /\ z.lines = <<>> /\ z.owed = <<"HELLO">>
      /\ z.tried = FALSE /\ z.passive = Passive /\ err = "ok"
    BY <1>z DEF Init, Now
<1>2. /\ z.p.state = "INIT" /\ z.p.sent_user = FALSE /\ z.p.obuf = NoOutput
      /\ z.p.multiline = FALSE /\ z.p.status = 0 /\ z.p.stack = <<>>
    BY <1>1 DEF NewProto
<1>3. z.p \in ProtoRecords
    BY <1>1 DEF NewProto, ProtoRecords, Flags, ReturnStacks, Outputs, Statuses, States
<1>4. Sound(z)
    <2>1. z.p.stack = StackFor(z.p.state)
        BY <1>2 DEF StackFor
    <2>2. z.owed \in Debts
        BY <1>1 DEF Debts
    <2>3. z.srv \in Seq(Commands) /\ z.lines \in Seq(Lines)
        BY <1>1
    <2>4. z.tried \in BOOLEAN /\ z.passive \in BOOLEAN
        BY <1>1, SessionAssumption
    <2> QED BY <1>3, <2>1, <2>2, <2>3, <2>4 DEF Sound
<1>5. WellFormed(z)
    BY <1>1, <1>2 DEF WellFormed, Whole, Fresh
<1>6. Outstanding(z, "HELLO")
    <2>1. Under(z, NoOutput, <<>>, <<"HELLO">>) /\ NoReply(z.lines)
        BY <1>1, <1>2 DEF Under, NoReply
    <2> QED BY <2>1 DEF Outstanding, OnItsWay
<1>7. Agreement(z)
    BY <1>1, <1>2, <1>6 DEF Agreement, Commands
<1> QED BY <1>z, <1>1, <1>4, <1>5, <1>7 DEF InStep, Typed, Errors

------------------------------------------------------------------------------
(***************************************************************************)
(* What each action is to the conversation.                                *)
(***************************************************************************)
LEMMA SendIsStep ==
  ASSUME NEW z, NEW w, IsStep(z, w), SendOutput
  PROVE  SendsLine(z, w) /\ err' = err
BY DEF IsStep, SendOutput, SendsLine, SameEnds, isOutputReady

\* A line is read.
LEMMA ReceiveIsStep ==
  ASSUME NEW z, NEW w, IsStep(z, w), ReceiveLine
  PROVE  TakesLine(z, w) /\ ~Fatal /\ err' = giveInput(z.p, Head(z.lines)).err
<1>1. p' = giveInput(p, Head(toClient)).p /\ err' = giveInput(p, Head(toClient)).err
    BY DEF ReceiveLine
<1>2. ~Fatal
    BY DEF ReceiveLine, Fatal
<1>3. /\ p.state # "IDLE" /\ toClient # <<>> /\ toClient' = Tail(toClient)
      /\ toServer' = toServer /\ owed' = owed /\ triedLogin' = triedLogin
    BY DEF ReceiveLine, isInputReady
<1> QED BY <1>1, <1>2, <1>3 DEF IsStep, TakesLine, SameEnds

\* A command is read.
LEMMA ServerReadIsStep ==
  ASSUME NEW z, NEW w, IsStep(z, w), ServerReads
  PROVE  ReadsCommand(z, w) /\ err' = err
BY DEF IsStep, ServerReads, ReadsCommand, SameEnds

\* A transfer is announced.
LEMMA AnnounceIsStep ==
  ASSUME NEW z, NEW w, IsStep(z, w), ServerStartsTransfer
  PROVE  Announces(z, w) /\ err' = err
BY DEF IsStep, ServerStartsTransfer, Announces, SameEnds

\* A command is answered.
LEMMA ReplyIsStep ==
  ASSUME NEW z, NEW w, IsStep(z, w), ServerReplies
  PROVE  Replies(z, w) /\ err' = err
<1> DEFINE c == Asked(owed)
<1>1. PICK v \in Verdicts(c) :
         toClient' = toClient \o OneLine(c, v) \/ toClient' = toClient \o ThreeLines(c, v)
    BY DEF ServerReplies, Asked
<1> HIDE DEF c
<1>2. z.owed = owed /\ z.lines = toClient /\ w.lines = toClient'
    BY DEF IsStep
<1>3. \E u \in Verdicts(Asked(z.owed)) :
         \/ w.lines = z.lines \o OneLine(Asked(z.owed), u)
         \/ w.lines = z.lines \o ThreeLines(Asked(z.owed), u)
    BY <1>1, <1>2 DEF c
<1>4. /\ owed # <<>> /\ owed' = <<>> /\ p' = p /\ toServer' = toServer
      /\ triedLogin' = triedLogin /\ err' = err
    BY DEF ServerReplies
<1> QED BY <1>3, <1>4 DEF IsStep, Replies, SameEnds

------------------------------------------------------------------------------
(***************************************************************************)
(* The types, and the stack.                                               *)
(***************************************************************************)
\* The conversation after a call of the application, and what it returned.
LEMMA CalledSound ==
  ASSUME NEW z, NEW w, IsStep(z, w), Sound(z), NEW g, Call(g),
         g.p \in ProtoRecords, g.p.stack = StackFor(g.p.state),
         g.err = "ok" \/ g.err \in Refusals, triedLogin' \in BOOLEAN
  PROVE  Sound(w) /\ err' \in Errors
<1>1. /\ w.p = g.p /\ err' = g.err /\ w.srv = z.srv /\ w.lines = z.lines /\ w.owed = z.owed
      /\ w.tried \in BOOLEAN /\ w.passive = z.passive
    BY DEF Call, IsStep
<1>2. err' \in Errors
    BY <1>1 DEF Errors, Refusals
<1> QED BY <1>1, <1>2 DEF Sound

\* Every step keeps the types.
LEMMA TypedStep == Typed /\ [Next]_vars => Typed'
<1> SUFFICES ASSUME Typed, [Next]_vars PROVE Typed'
    OBVIOUS
<1>z. PICK z, w : z = Now /\ w = Now' /\ IsStep(z, w)
    BY BothConversations
<1>0. Sound(z) /\ err \in Errors
    BY <1>z DEF Typed
<1>p. /\ p \in ProtoRecords /\ p.stack = StackFor(p.state)
      /\ triedLogin \in BOOLEAN /\ Passive \in BOOLEAN
    BY <1>z, <1>0 DEF IsStep, Sound
<1> SUFFICES Sound(w) /\ err' \in Errors
    BY <1>z DEF Typed
<1>1. CASE Login
    <2>1. PICK g : g = login(p)
        OBVIOUS
    <2>2. Call(g) /\ triedLogin' \in BOOLEAN
        BY <1>1, <2>1 DEF Login
    <2>3. /\ g.p \in ProtoRecords /\ g.p.stack = StackFor(g.p.state)
          /\ g.err = "ok" \/ g.err \in Refusals
        BY <1>p, <2>1, LoginFields
    <2> QED BY <1>z, <1>0, <2>2, <2>3, CalledSound
<1>2. ASSUME NEW c \in {"CWD", "TYPE", "SIZE"}, Simple(c) PROVE Sound(w) /\ err' \in Errors
    <2>1. PICK g : g = simpleCommand(p, c)
        OBVIOUS
    <2>2. Call(g) /\ triedLogin' \in BOOLEAN
        BY <1>p, <1>2, <2>1 DEF Simple
    <2>3. /\ g.p \in ProtoRecords /\ g.p.stack = StackFor(g.p.state)
          /\ g.err = "ok" \/ g.err \in Refusals
        BY <1>p, <2>1, SimpleFields
    <2> QED BY <1>z, <1>0, <2>2, <2>3, CalledSound
<1>3. ASSUME NEW fits \in BOOLEAN, Get(fits) PROVE Sound(w) /\ err' \in Errors
    <2>1. PICK g : g = get(p, Passive, fits)
        OBVIOUS
    <2>2. Call(g) /\ triedLogin' \in BOOLEAN
        BY <1>p, <1>3, <2>1 DEF Get
    <2>3. /\ g.p \in ProtoRecords /\ g.p.stack = StackFor(g.p.state)
          /\ g.err = "ok" \/ g.err \in Refusals
        BY <1>p, <2>1, GetFields
    <2> QED BY <1>z, <1>0, <2>2, <2>3, CalledSound
<1>4. CASE SendOutput
    BY <1>z, <1>0, <1>4, SendIsStep, SendSound
<1>5. CASE ReceiveLine
    <2>1. TakesLine(z, w) /\ err' = giveInput(z.p, Head(z.lines)).err
        BY <1>z, <1>5, ReceiveIsStep
    <2>2. Sound(w)
        BY <1>0, <2>1, TakeSound
    <2>3. err' \in {"ok", "EACCES", "EINVAL"}
        BY <2>1 DEF giveInput
    <2> QED BY <2>2, <2>3 DEF Errors
<1>6. CASE Reconnect
    <2>1. Init'
        BY <1>6 DEF Reconnect, Init
    <2>2. Typed'
        BY <2>1, SessionStarts, PTL
    <2> QED BY <1>z, <2>2 DEF Typed
<1>7. CASE ServerReads
    BY <1>z, <1>0, <1>7, ServerReadIsStep, ReadSound
<1>8. CASE ServerStartsTransfer
    BY <1>z, <1>0, <1>8, AnnounceIsStep, AnnounceSound
<1>9. CASE ServerReplies
    BY <1>z, <1>0, <1>9, ReplyIsStep, ReplySound
<1>10. CASE UNCHANGED vars
    BY <1>z, <1>0, <1>10 DEF vars, IsStep, Sound
<1> QED BY <1>1, <1>2, <1>3, <1>4, <1>5, <1>6, <1>7, <1>8, <1>9, <1>10 DEF Next

\* So they hold in every reachable state.
LEMMA AlwaysTyped == Spec => []Typed
<1>1. Init => Typed
    BY SessionStarts
<1> QED BY <1>1, TypedStep, PTL DEF Spec

\* The two stacks that occur have room in STACKLEN.
LEMMA Stacks == {<<>>, <<"RETR">>} \subseteq BoundedSeq(States, STACKLEN)
<1>1. <<>> \in [1..0 -> States] /\ <<"RETR">> \in [1..1 -> States]
    BY DEF States
<1>2. 0 \in 0..3 /\ 1 \in 0..3
    OBVIOUS
<1> QED BY <1>1, <1>2 DEF BoundedSeq, SeqOf, STACKLEN

\* Typed, in terms of the variables.
LEMMA TypedFields ==
  ASSUME Typed
  PROVE  /\ p \in ProtoRecords /\ p.stack = StackFor(p.state)
         /\ toServer \in Seq(Commands) /\ toClient \in Seq(Lines) /\ owed \in Debts
         /\ err \in Errors
BY DEF Typed, Sound, Now

(***************************************************************************)
(* Every field of the engine keeps its type; in particular the stack of    *)
(* m_state_stack never holds more than ftp_client_proto_STACKLEN states.   *)
(***************************************************************************)
THEOREM SessionTypes == Spec => []TypeOK
<1>1. Typed => TypeOK
    <2> SUFFICES ASSUME Typed PROVE TypeOK
        OBVIOUS
    <2>0. /\ p \in ProtoRecords /\ toServer \in Seq(Commands) /\ owed \in Debts
          /\ err \in Errors
        BY TypedFields
    <2>1. p.stack \in BoundedSeq(States, STACKLEN)
        BY <2>0, Stacks DEF ProtoRecords, ReturnStacks
    <2>2. p \in [state : States, stack : BoundedSeq(States, STACKLEN), sent_user : BOOLEAN,
                 obuf : Commands \cup {NoOutput}, multiline : BOOLEAN,
                 status : 0..599, address_ready : BOOLEAN]
        BY <2>0, <2>1 DEF ProtoRecords, Flags, Outputs, Statuses
    <2>3. \A i \in 1..Len(toServer) : toServer[i] \in Commands
        BY <2>0
    <2>4. Len(owed) <= 1
        <3>1. owed = <<>> \/ \E c : owed = <<c>>
            BY <2>0 DEF Debts
        <3>2. CASE owed = <<>>
            BY <3>2
        <3>3. ASSUME NEW c, owed = <<c>> PROVE Len(owed) <= 1
            BY <3>3
        <3> QED BY <3>1, <3>2, <3>3
    <2> QED BY <2>0, <2>2, <2>3, <2>4 DEF Errors, TypeOK
<1> QED BY <1>1, AlwaysTyped, PTL

(***************************************************************************)
(* popState never pops an empty stack and callState never overflows it,    *)
(* the two cases in which they abort: there is one state on the stack      *)
(* while a port is negotiated, and none otherwise.                         *)
(***************************************************************************)
THEOREM StackIsBalanced == Spec => []StackMatchesState
<1>1. Typed => StackMatchesState
    BY TypedFields DEF StackFor, StackMatchesState
<1> QED BY <1>1, AlwaysTyped, PTL

------------------------------------------------------------------------------
(***************************************************************************)
(* The engine and the server stay in step.                                 *)
(***************************************************************************)
\* A command other than login() is called.
LEMMA CalledInStep ==
  ASSUME NEW z, NEW w, IsStep(z, w), Sound(z), InStep(z), NEW g, Call(g),
         triedLogin' = triedLogin,
         NEW c \in {"CWD", "TYPE", "SIZE", "PASV", "PORT"}, c = "PORT" => ~Passive,
         \/ g.p = p
         \/ p.state = "IDLE" /\ Accepts(p, g.p, c, c) /\ g.p.sent_user = p.sent_user
  PROVE  InStep(w)
<1>1. /\ w.p = g.p /\ z.p = p /\ w.srv = z.srv /\ w.lines = z.lines /\ w.owed = z.owed
      /\ SameEnds(z, w) /\ z.passive = Passive
    BY DEF Call, IsStep, SameEnds
<1>2. \/ w.p = z.p
      \/ z.p.state = "IDLE" /\ Accepts(z.p, w.p, c, c) /\ w.p.sent_user = z.p.sent_user
    BY <1>1
<1> QED BY <1>1, <1>2, CommandStep

\* Every step keeps client and server in step.
LEMMA InStepStep ==
  ASSUME RetryLogin = FALSE
  PROVE  Typed /\ InStepInv /\ [Next]_vars => InStepInv'
<1> SUFFICES ASSUME Typed, InStepInv, [Next]_vars PROVE InStepInv'
    OBVIOUS
<1>z. PICK z, w : z = Now /\ w = Now' /\ IsStep(z, w)
    BY BothConversations
<1>0. Sound(z) /\ (Fatal \/ InStep(z)) /\ z.p = p /\ z.tried = triedLogin
    BY <1>z DEF Typed, InStepInv, IsStep
<1>p. p \in ProtoRecords /\ p.stack = StackFor(p.state) /\ Passive \in BOOLEAN
    BY TypedFields, SessionAssumption
<1>e. err' = err /\ Fatal => Fatal'
    BY DEF Fatal
<1> SUFFICES Fatal' \/ InStep(w)
    BY <1>z DEF InStepInv
<1>1. CASE Login
    <2>1. /\ p' = login(p).p /\ toServer' = toServer /\ toClient' = toClient /\ owed' = owed
          /\ triedLogin' = TRUE /\ triedLogin = FALSE /\ ~Fatal
        <3>1. triedLogin \in BOOLEAN
            BY <1>0 DEF Sound
        <3> QED BY <1>1, <3>1 DEF Login, Call, Fatal
    <2>2. /\ w.p = login(z.p).p /\ w.srv = z.srv /\ w.lines = z.lines /\ w.owed = z.owed
          /\ w.tried = TRUE /\ w.passive = z.passive /\ ~z.tried
        BY <1>z, <2>1 DEF IsStep
    <2> QED BY <1>0, <2>1, <2>2, LoginStep
<1>2. ASSUME NEW c \in {"CWD", "TYPE", "SIZE"}, Simple(c) PROVE InStep(w)
    <2>1. PICK g : g = simpleCommand(p, c)
        OBVIOUS
    <2>2. Call(g) /\ triedLogin' = triedLogin
        BY <1>2, <2>1 DEF Simple
    <2>3. ~Fatal
        BY <2>2 DEF Call, Fatal
    <2>4. \/ g.p = p
          \/ p.state = "IDLE" /\ Accepts(p, g.p, c, c) /\ g.p.sent_user = p.sent_user
        BY <1>p, <2>1, SimpleFields
    <2> QED BY <1>z, <1>0, <2>2, <2>3, <2>4, CalledInStep
<1>3. ASSUME NEW fits \in BOOLEAN, Get(fits) PROVE InStep(w)
    <2> DEFINE c == Mode(Passive)
    <2>1. PICK g : g = get(p, Passive, fits)
        OBVIOUS
    <2>2. Call(g) /\ triedLogin' = triedLogin
        BY <1>3, <2>1 DEF Get
    <2>3. ~Fatal
        BY <2>2 DEF Call, Fatal
    <2>4. \/ g.p = p
          \/ p.state = "IDLE" /\ Accepts(p, g.p, c, c) /\ g.p.sent_user = p.sent_user
        BY <1>p, <2>1, GetFields
    <2>5. c \in {"PASV", "PORT"} /\ (c = "PORT" => ~Passive)
        BY DEF Mode
    <2> HIDE DEF c
    <2> QED BY <1>z, <1>0, <2>2, <2>3, <2>4, <2>5, CalledInStep
<1>4. CASE SendOutput
    BY <1>z, <1>0, <1>e, <1>4, SendIsStep, SendInStep
<1>5. CASE ReceiveLine
    <2>1. TakesLine(z, w) /\ ~Fatal /\ err' = giveInput(z.p, Head(z.lines)).err
        BY <1>z, <1>5, ReceiveIsStep
    <2>2. err' = "ok" \/ Fatal'
        BY <2>1 DEF giveInput, Fatal
    <2> QED BY <1>0, <2>1, <2>2, TakeInStep
<1>6. CASE Reconnect
    <2>1. Init'
        BY <1>6 DEF Reconnect, Init
    <2>2. InStep(Now)'
        BY <2>1, SessionStarts, PTL
    <2> QED BY <1>z, <2>2
<1>7. CASE ServerReads
    BY <1>z, <1>0, <1>e, <1>7, ServerReadIsStep, ReadInStep
<1>8. CASE ServerStartsTransfer
    BY <1>z, <1>0, <1>e, <1>8, AnnounceIsStep, AnnounceInStep
<1>9. CASE ServerReplies
    BY <1>z, <1>0, <1>e, <1>9, ReplyIsStep, ReplyInStep
<1>10. CASE UNCHANGED vars
    <2>1. Now' = Now /\ err' = err
        BY <1>10 DEF vars, Now
    <2> QED BY <1>z, <1>0, <1>e, <2>1
<1> QED BY <1>1, <1>2, <1>3, <1>4, <1>5, <1>6, <1>7, <1>8, <1>9, <1>10 DEF Next

\* So they are in step in every reachable state, unless the session has failed
\* for good.
LEMMA AlwaysInStep ==
  ASSUME RetryLogin = FALSE
  PROVE  Spec => []InStepInv
<1>1. Init => InStepInv
    BY SessionStarts DEF InStepInv
<1> QED BY <1>1, InStepStep, AlwaysTyped, PTL DEF Spec

(***************************************************************************)
(* giveInput never takes a line for the answer to another command than the *)
(* one it answers, nor a line inside a reply for the start of one, however *)
(* the server splits its replies, also when USER was sent ahead of the     *)
(* hello: provided the application calls login() once a session.           *)
(***************************************************************************)
THEOREM StaysInSync ==
  ASSUME RetryLogin = FALSE
  PROVE  Spec => []InSync
<1>1. Typed /\ InStepInv => InSync
    <2> SUFFICES ASSUME Typed, InStep(Now), toClient # <<>>, p.state # "IDLE"
                 PROVE  IF p.multiline THEN ~toClient[1].first
                        ELSE toClient[1].first /\ toClient[1].cmd = Awaited(p.state)
        BY DEF InSync, InStepInv, Fatal, isInputReady
    <2>0. PICK z : z = Now
        OBVIOUS
    <2>1. z.lines = toClient /\ z.p = p /\ Sound(z) /\ InStep(z)
        BY <2>0 DEF Now, Typed
    <2>2. CASE p.multiline
        BY <2>1, <2>2 DEF InStep, WellFormed, RestAt, LastAt
    <2>3. CASE ~p.multiline
        BY <2>1, <2>3, NextAnswers DEF Question, Awaited
    <2> QED BY <2>2, <2>3
<1> QED BY <1>1, AlwaysTyped, AlwaysInStep, PTL

(***************************************************************************)
(* When getStatus() reports a command as finished, nothing of it is        *)
(* outstanding: no line waits to be sent, the server owes no reply, and    *)
(* what is still to come are further lines of the reply reported.          *)
(***************************************************************************)
THEOREM ReportedMeansDone ==
  ASSUME RetryLogin = FALSE
  PROVE  Spec => []DoneMeansDone
<1>1. Typed /\ InStepInv => DoneMeansDone
    <2> SUFFICES ASSUME Typed, InStep(Now), getStatus(p) # 0
                 PROVE  /\ p.obuf = NoOutput /\ toServer = <<>> /\ owed = <<>>
                        /\ \A i \in 1..Len(toClient) : ~toClient[i].first
        BY DEF DoneMeansDone, InStepInv, Fatal
    <2>0. PICK z : z = Now
        OBVIOUS
    <2>1. /\ z.lines = toClient /\ z.p = p /\ z.srv = toServer /\ z.owed = owed
          /\ InStep(z)
        BY <2>0 DEF Now
    <2>2. z.p.state \in {"IDLE", "INIT"} /\ z.p.status # 0
        BY <2>1 DEF getStatus
    <2>3. Quiet(z)
        BY <2>1, <2>2 DEF InStep, Agreement
    <2> QED BY <2>1, <2>3 DEF Quiet, Nothing, Under, NoReply
<1> QED BY <1>1, AlwaysTyped, AlwaysInStep, PTL
==============================================================================
