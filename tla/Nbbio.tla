--------------------------------- MODULE Nbbio ---------------------------------
(***************************************************************************)
(* The nonblocking line buffer nbbio.cc / nbbio.h: bytes on their way to   *)
(* or from a socket, in a circular array between m_getFrom and m_putTo.    *)
(* An input buffer is filled from the socket and read by lines; an output  *)
(* buffer is put to and flushed to the socket. read() and write() are the  *)
(* system's: they move as many bytes as they like, none, or fail.          *)
(*                                                                         *)
(* A call of readline takes one step per character, as its loop does;      *)
(* every other method is one step. A call that moves no byte (put without  *)
(* room, a read() or write() that fails) changes nothing and is no step.   *)
(***************************************************************************)
EXTENDS Integers, Sequences, FiniteSets

CONSTANTS
    BUFLEN,             \* nbbio_BUFLEN, 1024 in the code
    MAXLEN,             \* size of the buffer the caller passes to readline
    Bytes, CR, LF, NUL,
    MaxBytes            \* bound: bytes that go into the buffer in a behaviour

ASSUME NbbioAssumption ==
    /\ BUFLEN \in Nat /\ BUFLEN >= 2
    /\ MAXLEN \in Nat /\ MAXLEN >= 1
    /\ {CR, LF} \subseteq Bytes /\ CR # LF /\ NUL \notin Bytes
    /\ MaxBytes \in Nat

VARIABLES
    role,               \* "input" or "output"
    m_buf, m_getFrom, m_putTo,
    m_linelen,          \* length of the unfinished line in linebuf
    m_lastchar,
    linebuf,            \* the caller's buffer
    pc,                 \* "idle", or "readline" inside its loop
    accepted,           \* history: every byte that went in
    delivered,          \* history: every byte that came out
    lines               \* history: the lines readline returned

bufVars == <<m_buf, m_getFrom, m_putTo>>
lineVars == <<m_linelen, m_lastchar, linebuf, pc, lines>>
vars == <<role, bufVars, lineVars, accepted, delivered>>

------------------------------------------------------------------------------
\* i & (BUFLEN - 1), for BUFLEN a power of two and the i the code gives it.
Masked(i) == IF i < 0 THEN i + BUFLEN ELSE IF i >= BUFLEN THEN i - BUFLEN ELSE i

bytesUsed == Masked(m_putTo - m_getFrom)

bytesFree == BUFLEN - 1 - bytesUsed

isEmpty == m_putTo = m_getFrom

contigBytesUsed ==
    (IF m_putTo >= m_getFrom THEN m_putTo ELSE BUFLEN) - m_getFrom

\* Mutant: the last byte is used even when the first is still occupied.
FreeFromToWholeArray(get, put) ==
    (IF get > put THEN get - 1 ELSE BUFLEN) - put

\* contigBytesFree() for given indices.
FreeFromTo(get, put) ==
    (IF get > put THEN get - 1 ELSE BUFLEN) - put - (IF get = 0 THEN 1 ELSE 0)

contigBytesFree == FreeFromTo(m_getFrom, m_putTo)

\* An array with the bytes of s copied to offset at.
CopyTo(buf, at, s) ==
    [i \in 0..(BUFLEN - 1) |->
        IF i \in at..(at + Len(s) - 1) THEN s[i - at + 1] ELSE buf[i]]

\* The n bytes from offset at on.
CopyFrom(buf, at, n) == [i \in 1..n |-> buf[at + i - 1]]

\* The nonempty byte strings of at most n bytes.
Chunks(n) == UNION {[1..k -> Bytes] : k \in 1..n}

------------------------------------------------------------------------------
Init ==
    /\ role \in {"input", "output"}
    /\ m_buf = [i \in 0..(BUFLEN - 1) |-> NUL]
    /\ m_getFrom = 0
    /\ m_putTo = 0
    /\ m_linelen = 0
    /\ m_lastchar = NUL
    /\ linebuf = [i \in 0..(MAXLEN - 1) |-> NUL]
    /\ pc = "idle"
    /\ accepted = <<>>
    /\ delivered = <<>>
    /\ lines = <<>>

\* The bytes s have been stored behind m_putTo, in one piece or in two.
Stored(s) ==
    LET first == IF Len(s) > contigBytesFree THEN contigBytesFree ELSE Len(s)
        rest == SubSeq(s, first + 1, Len(s))
        end == m_putTo + first
    IN  /\ m_buf' = CopyTo(CopyTo(m_buf, m_putTo, SubSeq(s, 1, first)), 0, rest)
        /\ m_putTo' = IF end = BUFLEN THEN Len(rest) ELSE end
        /\ accepted' = accepted \o s

\* put(p, n): all of p or, when it does not fit, nothing.
Put(p) ==
    /\ role = "output"
    /\ Len(accepted) + Len(p) <= MaxBytes
    /\ bytesFree >= Len(p)
    /\ Stored(p)
    /\ UNCHANGED <<role, m_getFrom, lineVars, delivered>>

\* The first read() of fillFrom returns the bytes s, and does not reach the
\* end of the array.
FillFrom(s) ==
    /\ role = "input" /\ pc = "idle"
    /\ Len(accepted) + Len(s) <= MaxBytes
    /\ Len(s) <= contigBytesFree
    /\ m_putTo + Len(s) # BUFLEN
    /\ m_buf' = CopyTo(m_buf, m_putTo, s)
    /\ m_putTo' = m_putTo + Len(s)
    /\ accepted' = accepted \o s
    /\ UNCHANGED <<role, m_getFrom, lineVars, delivered>>

\* The first read() fills the array to its end; then there is a second, which
\* returns the bytes t, or none at the end of the file or with an error.
FillFromWrapping(s, t) ==
    /\ role = "input" /\ pc = "idle"
    /\ Len(accepted) + Len(s) + Len(t) <= MaxBytes
    /\ Len(s) = contigBytesFree
    /\ m_putTo + Len(s) = BUFLEN
    /\ Len(t) <= FreeFromTo(m_getFrom, 0)
    /\ m_buf' = CopyTo(CopyTo(m_buf, m_putTo, s), 0, t)
    /\ m_putTo' = Len(t)
    /\ accepted' = accepted \o s \o t
    /\ UNCHANGED <<role, m_getFrom, lineVars, delivered>>

\* write() takes n bytes, and not the last one of the array.
FlushTo(n) ==
    /\ role = "output"
    /\ n <= contigBytesUsed
    /\ m_getFrom + n # BUFLEN
    /\ m_getFrom' = m_getFrom + n
    /\ delivered' = delivered \o CopyFrom(m_buf, m_getFrom, n)
    /\ UNCHANGED <<role, m_buf, m_putTo, lineVars, accepted>>

\* write() takes all up to the end of the array; flushTo calls itself, and the
\* second write() takes n bytes, which may be none.
FlushToWrapping(n) ==
    LET k == contigBytesUsed
    IN  /\ role = "output"
        /\ k > 0
        /\ m_getFrom + k = BUFLEN
        /\ n <= m_putTo
        /\ m_getFrom' = n
        /\ delivered' = delivered \o CopyFrom(m_buf, m_getFrom, k)
                                  \o CopyFrom(m_buf, 0, n)
        /\ UNCHANGED <<role, m_buf, m_putTo, lineVars, accepted>>

------------------------------------------------------------------------------
\* readline(linebuf, maxlen) is called and finds something in the buffer.
Readline ==
    /\ role = "input" /\ pc = "idle"
    /\ ~isEmpty
    /\ pc' = "readline"
    /\ UNCHANGED <<role, bufVars, m_linelen, m_lastchar, linebuf, lines,
                   accepted, delivered>>

\* readc(), in the loop of readline.
readc == m_buf[m_getFrom]

Consume ==
    /\ m_getFrom' = Masked(m_getFrom + 1)
    /\ delivered' = Append(delivered, readc)
    /\ UNCHANGED <<role, m_buf, m_putTo, accepted>>

\* Mutant: the loop's test allows one character too many.
InLoopTooLong == pc = "readline" /\ ~isEmpty /\ m_linelen <= MAXLEN

InLoop == pc = "readline" /\ ~isEmpty /\ m_linelen < MAXLEN

ReadChar ==
    /\ InLoop
    /\ readc \notin {CR, LF}
    /\ Consume
    /\ linebuf' = [linebuf EXCEPT ![m_linelen] = readc]
    /\ m_linelen' = m_linelen + 1
    /\ m_lastchar' = readc
    /\ UNCHANGED <<pc, lines>>

\* A line is complete: it is returned without its end, which was c.
ReturnLine(c) ==
    /\ linebuf' = [linebuf EXCEPT ![m_linelen] = NUL]
    /\ lines' = Append(lines, CopyFrom(linebuf, 0, m_linelen))
    /\ m_linelen' = 0
    /\ m_lastchar' = c
    /\ pc' = "idle"

\* Mutant: a CR does not remember that an LF may follow.
ReadCRForgets ==
    InLoop /\ readc = CR /\ Consume /\ ReturnLine(NUL)

ReadCR ==
    /\ InLoop
    /\ readc = CR
    /\ Consume
    /\ ReturnLine(CR)

ReadLF ==
    /\ InLoop
    /\ readc = LF
    /\ m_lastchar # CR
    /\ Consume
    /\ ReturnLine(LF)

\* The LF of a CR LF: ignored, and m_lastchar stays CR.
SkipLF ==
    /\ InLoop
    /\ readc = LF
    /\ m_lastchar = CR
    /\ Consume
    /\ UNCHANGED lineVars

\* Mutant: the part of a line that has been read is forgotten.
ReadlineStartsOver ==
    /\ pc = "readline"
    /\ isEmpty \/ m_linelen = MAXLEN
    /\ pc' = "idle"
    /\ m_linelen' = 0
    /\ UNCHANGED <<role, bufVars, m_lastchar, linebuf, lines, accepted, delivered>>

\* No end of line yet (EWOULDBLOCK), or no room left in linebuf (ENOSPC).
ReadlineGivesUp ==
    /\ pc = "readline"
    /\ isEmpty \/ m_linelen = MAXLEN
    /\ pc' = "idle"
    /\ UNCHANGED <<role, bufVars, m_linelen, m_lastchar, linebuf, lines,
                   accepted, delivered>>

Next ==
    \/ \E p \in Chunks(BUFLEN - 1) : Put(p)
    \/ \E s \in Chunks(contigBytesFree) : FillFrom(s)
    \/ \E s \in Chunks(contigBytesFree), t \in Chunks(BUFLEN - 1) \cup {<<>>} :
            FillFromWrapping(s, t)
    \/ \E n \in 1..contigBytesUsed : FlushTo(n)
    \/ \E n \in 0..m_putTo : FlushToWrapping(n)
    \/ Readline
    \/ ReadChar
    \/ ReadCR
    \/ ReadLF
    \/ SkipLF
    \/ ReadlineGivesUp

Spec == Init /\ [][Next]_vars

------------------------------------------------------------------------------
\* Type invariant: the indices stay inside the array, and the unfinished line
\* inside the caller's buffer (nbbio.h:66-84, readline's maxlen).
TypeOK ==
    /\ role \in {"input", "output"}
    /\ m_buf \in [0..(BUFLEN - 1) -> Bytes \cup {NUL}]
    /\ m_getFrom \in 0..(BUFLEN - 1)
    /\ m_putTo \in 0..(BUFLEN - 1)
    /\ m_linelen \in 0..MAXLEN
    /\ m_lastchar \in Bytes \cup {NUL}
    /\ linebuf \in [0..(MAXLEN - 1) -> Bytes \cup {NUL}]
    /\ pc \in {"idle", "readline"}
    /\ accepted \in Seq(Bytes)
    /\ delivered \in Seq(Bytes)
    /\ lines \in Seq(Seq(Bytes \cup {NUL}))

\* The buffer is a queue, whatever the sizes of the reads and writes and
\* wherever they wrap (put, fillFrom, flushTo, readc): the bytes that came out
\* followed by the bytes between m_getFrom and m_putTo are the bytes that went
\* in, in their order, none lost, none twice.
Fifo ==
    /\ Len(accepted) = Len(delivered) + bytesUsed
    /\ \A i \in 1..Len(delivered) : delivered[i] = accepted[i]
    /\ \A i \in 0..(bytesUsed - 1) :
            m_buf[Masked(m_getFrom + i)] = accepted[Len(delivered) + 1 + i]

\* No I/O with a length of zero while there is something to do: fillFrom asks
\* read() for no bytes, which it would take for the end of the connection,
\* only if the buffer is full, and flushTo returns without a write only if it
\* is empty (contigBytesFree, contigBytesUsed).
NoStall ==
    /\ contigBytesFree = 0 <=> bytesFree = 0
    /\ contigBytesUsed = 0 <=> isEmpty
    /\ contigBytesFree <= bytesFree
    /\ contigBytesUsed <= bytesUsed

\* Where the lines of s end, as nbbio.h says of m_lastchar: at every CR and at
\* every LF; when the character after a CR is an LF, that one is ignored.
Ends(s) ==
    {i \in DOMAIN s : s[i] = CR \/ (s[i] = LF /\ ~ (i > 1 /\ s[i - 1] = CR))}

\* The number of the line that character i is part of.
LineNo(ends, i) == Cardinality({e \in ends : e < i}) + 1

IsText(c) == c \notin {CR, LF}

\* The line that ends at e, without its end: all text behind the last CR or LF
\* before e.
LineEndingAt(s, e) ==
    LET first == CHOOSE i \in 1..e :
                    /\ i = 1 \/ ~IsText(s[i - 1])
                    /\ \A j \in i..(e - 1) : IsText(s[j])
    IN  SubSeq(s, first, e - 1)

\* ls are the lines of s that end at the positions ends.
LinesAt(ls, s, ends) ==
    /\ Len(ls) = Cardinality(ends)
    /\ \A e \in ends : ls[LineNo(ends, e)] = LineEndingAt(s, e)

\* No CR is followed by two LFs.
LonelyLFs(s) == \A i \in 3..Len(s) : s[i] = LF /\ s[i - 1] = LF => s[i - 2] # CR

\* The lines readline returns are the lines of the stream, as nbbio.h defines
\* them, unless a CR was followed by more than one LF: however the stream was
\* cut into reads and wherever a read ended between a CR and its LF, and none
\* is cut short by the caller's buffer (readline, m_lastchar, m_linelen).
LinesAreTheStream ==
    role = "input" /\ LonelyLFs(delivered) => LinesAt(lines, delivered, Ends(delivered))

\* Whatever the stream, readline loses nothing but empty lines, and it makes
\* none up: the lines it returns are the lines of the stream but for some that
\* have no text (readline, m_lastchar, m_linelen).
OnlyEmptyLost ==
    role = "input" =>
        \E ends \in SUBSET Ends(delivered) :
            /\ LinesAt(lines, delivered, ends)
            /\ \A e \in Ends(delivered) \ ends : LineEndingAt(delivered, e) = <<>>

\* What nbbio.h:77-82 says, of every stream: after a CR, "if the next character
\* is LF, it is silently ignored". The code leaves m_lastchar at CR when it
\* ignores an LF, and so ignores the LFs after that one too.
NextLFIgnored ==
    role = "input" => LinesAt(lines, delivered, Ends(delivered))

===============================================================================
