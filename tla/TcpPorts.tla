------------------------------ MODULE TcpPorts ------------------------------
(***************************************************************************)
(* The input and the output port of one TCP connection (io-ports in        *)
(* tcp.scm), used by a thread that reads and a thread that writes.         *)
(*                                                                         *)
(* The socket does not block: a thread that finds no data, or no room, is  *)
(* suspended in the scheduler, and the other one runs.  tcp.scm is         *)
(* compiled with (disable-interrupts), so these are the only places where  *)
(* the threads change: in "recv", "more", "cr" and "send" the thread may   *)
(* be suspended; ReaderBusy and WriterBusy say when one of them is inside  *)
(* code that is not interrupted.                                           *)
(*                                                                         *)
(* The bytes of each direction are numbered in the order in which they     *)
(* were sent or are to be written; 0 is any other byte: what a buffer held *)
(* before, or what stands in a bytevector before the part to be written.   *)
(***************************************************************************)
EXTENDS Integers, Sequences, FiniteSets

CONSTANT
    PortUses        \* the ways a program and its peer use a connection

NoLimit == 100

\* A use of a connection.
PortUseTypeOK(u) ==
    /\ u.kind \in Seq({"single", "lead", "tail", "cr", "lf"})
                                            \* what each byte of the peer is
    /\ u.inSize \in Nat \ {0}               \* +input-buffer-size+
    /\ u.outSize \in Nat                    \* tcp-buffer-size, or 0
    /\ u.chunkSize \in Nat \ {0}            \* +output-chunk-size+
    /\ u.maxOut \in Nat                     \* bound on the bytes written
    /\ u.maxWrite \in Nat                   \* bound on those written at once
    /\ u.writeFrom \subseteq Nat            \* offsets given to write-bytevector
    /\ u.readOps \subseteq {"char", "peek", "bytes", "line", "buffered", "ready"}
    /\ u.limits \subseteq 1..NoLimit        \* limits given to read-line
    /\ u.closes \subseteq {"input", "output"} \* the ports the program closes
    /\ u.timeouts \in BOOLEAN               \* may reads and writes time out?

ASSUME PortUsesAssumption == \A u \in PortUses : PortUseTypeOK(u)

(***************************************************************************)
(* What a use must not do for the ports to keep their promises.            *)
(***************************************************************************)
\* One index serves both buffers: a port that is read does not buffer output.
OneDirection(u) == u.outSize = 0 \/ u.readOps = {}

\* Closing the input port second closes the socket, also under the last flush.
FlushesFirst(u) == u.outSize = 0 \/ u.closes # {"input", "output"}

\* read-buffered takes as many bytes as there are in a full buffer, and is not
\* used beside operations that leave a part of one.
TakesAll(u) ==
    "buffered" \in u.readOps => u.readOps \subseteq {"buffered", "peek", "ready"}

\* peek-char may have to wait for the end of a character, and does not.
PeeksSingles(u) ==
    "peek" \in u.readOps => \A i \in DOMAIN u.kind : u.kind[i] # "lead"

\* A limit that ends at a carriage return makes read-line receive over bytes
\* that it has not seen.
LimitsSpareCr(u) ==
    \/ \A i \in DOMAIN u.kind : u.kind[i] # "cr"
    \/ \A l \in u.limits : l >= Len(u.kind)

SoundUse(u) ==
    /\ OneDirection(u) /\ FlushesFirst(u) /\ TakesAll(u) /\ PeeksSingles(u)
    /\ LimitsSpareCr(u)

VARIABLES
    portUse,        \* the use that is made of this connection
    arrived,        \* bytes of the peer that have reached the socket
    peerClosed,     \* has the peer finished sending?
    received,       \* bytes taken out of the socket by recv()
    buf, buflen,    \* the input buffer and the number of bytes in it
    bufindex,       \* "also used as outbuf-position"
    outbuf,         \* the output buffer
    rd,             \* the operation of the reading thread
    wr,             \* the operation of the writing thread
    sent,           \* bytes accepted by send()
    written,        \* number of bytes the program has written
    iclosed, oclosed, \* closed ports
    socket,         \* "open", "shut" (for writing) or "closed"
    consumed,       \* ghost: the bytes handed to the program
    answer,         \* ghost: what the last operation that looks ahead said
    flushed,        \* ghost: number of bytes written before the last flush
    failed          \* ghost: did an operation fail?

Kind      == portUse.kind
InSize    == portUse.inSize
OutSize   == portUse.outSize
ChunkSize == portUse.chunkSize

inVars  == <<arrived, peerClosed, received, buf, buflen>>
outVars == <<outbuf, sent, written, flushed>>
closeVars == <<iclosed, oclosed, socket>>
ghosts  == <<consumed, answer, failed>>
portVars == <<portUse, inVars, bufindex, outVars, rd, wr, closeVars, ghosts>>

NoCall == [at |-> "idle"]
NoAnswer == [of |-> "none"]

PortsInit ==
    /\ portUse \in PortUses
    /\ arrived = 0
    /\ peerClosed = FALSE
    /\ received = 0
    /\ buf = [i \in 0..InSize-1 |-> 0]
    /\ buflen = 0
    /\ bufindex = 0
    /\ outbuf = [i \in 0..OutSize-1 |-> 0]
    /\ rd = NoCall
    /\ wr = NoCall
    /\ sent = <<>>
    /\ written = 0
    /\ iclosed = FALSE /\ oclosed = FALSE
    /\ socket = "open"
    /\ consumed = <<>>
    /\ answer = NoAnswer
    /\ flushed = 0
    /\ failed = FALSE

-----------------------------------------------------------------------------
\* The peer sends bytes, at last closes its side.
PeerSends ==
    /\ arrived < Len(Kind) /\ ~peerClosed
    /\ \E n \in arrived+1..Len(Kind) : arrived' = n
    /\ UNCHANGED <<portUse, peerClosed, received, buf, buflen, bufindex, outVars,
                   rd, wr,
                   closeVars, ghosts>>

PeerCloses ==
    /\ ~peerClosed
    /\ peerClosed' = TRUE
    /\ UNCHANGED <<portUse, arrived, received, buf, buflen, bufindex, outVars,
                   rd, wr,
                   closeVars, ghosts>>

Least(m, n) == IF m < n THEN m ELSE n
Bytes(b, from, to) == [i \in 1..to-from |-> b[from + i - 1]]
Extra(b) == IF b > 0 /\ Kind[b] = "lead" THEN 1 ELSE 0

\* How many bytes recv() puts into the buffer after the first off of them.
Available(off) == Least(arrived - received, InSize - off)
AtEnd == peerClosed /\ arrived = received

\* read-input: recv() has filled the buffer b behind off, or found nothing.
Received(b, off) ==
    /\ buf' = [i \in DOMAIN buf |-> IF off <= i /\ i < off + Available(off)
                                    THEN received + i - off + 1 ELSE b[i]]
    /\ received' = received + Available(off)
    /\ buflen' = off + Available(off)
    /\ bufindex' = 0
    /\ UNCHANGED <<arrived, peerClosed>>

Consume(bytes) == consumed' = consumed \o bytes

-----------------------------------------------------------------------------
(***************************************************************************)
(* The reading thread.                                                     *)
(***************************************************************************)
Reading(op) == rd.at = "test" /\ rd.op = op

BeginRead(op) ==
    /\ rd = NoCall /\ ~iclosed
    /\ op \in portUse.readOps \cap {"char", "peek", "bytes", "line"}
    /\ \E n \in IF op = "line" THEN portUse.limits ELSE IF op = "bytes" THEN {2} ELSE {0} :
          rd' = [at |-> "test", op |-> op, need |-> 0, got |-> 0, left |-> n,
                  asked |-> FALSE, chunk |-> <<>>, from |-> Len(consumed) + 1,
                  limit |-> n]
    /\ UNCHANGED <<portUse, inVars, bufindex, outVars, wr, closeVars, ghosts>>

\* The operation needs input and calls read-input.
NeedsInput ==
    /\ rd.at = "test"
    /\ bufindex >= buflen
    /\ rd' = [rd EXCEPT !.at = "recv"]
    /\ UNCHANGED <<portUse, inVars, bufindex, outVars, wr, closeVars, ghosts>>

\* recv() delivers data.
Recv ==
    /\ rd.at = "recv"
    /\ arrived > received
    /\ Received(buf, 0)
    /\ rd' = [rd EXCEPT !.at = "test", !.asked = TRUE]
    /\ UNCHANGED <<portUse, outVars, wr, closeVars, ghosts>>

\* recv() returns 0: an end of file, or an error in the middle of a character.
RecvEnd ==
    /\ rd.at = "recv"
    /\ AtEnd
    /\ Received(buf, 0)
    /\ rd' = NoCall
    /\ failed' = (failed \/ (rd.op = "char" /\ rd.got > 0))
    /\ answer' = IF rd.op = "peek" THEN [of |-> "eof"] ELSE NoAnswer
    /\ UNCHANGED <<portUse, outVars, wr, closeVars, consumed>>

\* "read operation timed out"
ReadTimeout ==
    /\ portUse.timeouts
    /\ rd.at \in {"recv", "more", "cr"}
    /\ arrived = received /\ ~peerClosed
    /\ rd' = NoCall
    /\ failed' = TRUE
    /\ answer' = NoAnswer
    /\ UNCHANGED <<portUse, inVars, bufindex, outVars, wr, closeVars, consumed>>

\* read-char: ##sys#read-char/encoding takes one byte at a time from
\* read-bytevector! until the encoding needs no more.
ReadChar ==
    /\ Reading("char")
    /\ bufindex < buflen
    /\ Consume(<<buf[bufindex]>>)
    /\ bufindex' = bufindex + 1
    /\ LET need == IF rd.got = 0 THEN Extra(buf[bufindex]) ELSE rd.need - 1
       IN /\ rd' = IF need > 0 THEN [rd EXCEPT !.need = need, !.got = @ + 1]
                               ELSE NoCall
          /\ answer' = IF need > 0 THEN answer ELSE NoAnswer
    /\ UNCHANGED <<portUse, inVars, outVars, wr, closeVars, failed>>

\* read-bytevector! copies what the buffer holds.
ReadBytes ==
    /\ Reading("bytes")
    /\ bufindex < buflen
    /\ LET n == Least(rd.left, buflen - bufindex)
       IN /\ Consume(Bytes(buf, bufindex, bufindex + n))
          /\ bufindex' = bufindex + n
          /\ rd' = IF rd.left = n THEN NoCall ELSE [rd EXCEPT !.left = @ - n]
    /\ answer' = NoAnswer
    /\ UNCHANGED <<portUse, inVars, outVars, wr, closeVars, failed>>

\* The bytes of the character that ##sys#decode-char finds at i.
CharAt(b, i) == [j \in 1..1+Extra(b[i]) |-> IF i + j - 1 < InSize
                                            THEN b[i + j - 1] ELSE 0]

\* peek-char moves the rest of the buffer to its front, and tries to receive
\* more without waiting, when it does not hold the whole character.
PeekChar ==
    /\ Reading("peek")
    /\ bufindex < buflen
    /\ LET rest  == buflen - bufindex
           moved == [i \in DOMAIN buf |-> IF i < rest THEN buf[bufindex + i] ELSE buf[i]]
       IN IF ~rd.asked /\ Extra(buf[bufindex]) + 1 > rest
          THEN Received(moved, rest)
          ELSE UNCHANGED <<inVars, bufindex>>
    /\ rd' = NoCall
    /\ answer' = [of |-> "peek", char |-> CharAt(buf', bufindex')]
    /\ UNCHANGED <<portUse, outVars, wr, closeVars, consumed, failed>>

\* read-buffered: ##sys#buffer->string takes the number of bytes to copy.
ReadBuffered ==
    /\ "buffered" \in portUse.readOps
    /\ rd = NoCall /\ ~iclosed
    /\ bufindex < buflen
    /\ Consume([i \in 1..buflen |-> IF bufindex + i - 1 < InSize
                                    THEN buf[bufindex + i - 1] ELSE 0])
    /\ bufindex' = buflen
    /\ answer' = NoAnswer
    /\ UNCHANGED <<portUse, inVars, outVars, rd, wr, closeVars, failed>>

\* There are bytes in the buffer, or select() finds the socket readable.
InputReady == bufindex < buflen \/ arrived > received \/ AtEnd

\* char-ready?
CharReady ==
    /\ "ready" \in portUse.readOps
    /\ rd = NoCall /\ ~iclosed
    /\ answer' = [of |-> "ready", yes |-> InputReady]
    /\ UNCHANGED <<portUse, inVars, bufindex, outVars, rd, wr, closeVars,
                   consumed, failed>>

-----------------------------------------------------------------------------
(***************************************************************************)
(* read-line: ##sys#scan-buffer-line looks for the end of the line in the  *)
(* part of the buffer the limit lets it see; when it gets to the end of    *)
(* that part, or to a carriage return there, it asks for more.             *)
(***************************************************************************)
\* Mutant of Seen: the scanner sees one byte more than the limit allows.
SeenPast == Least(buflen, bufindex + rd.left + 1)

Seen == Least(buflen, bufindex + rd.left)
Ends == { i \in bufindex..Seen-1 : buf[i] > 0 /\ Kind[buf[i]] \in {"cr", "lf"} }
Stop == IF Ends = {} THEN Seen ELSE CHOOSE i \in Ends : \A j \in Ends : i <= j
Is(i, kind) == i < buflen /\ buf[i] > 0 /\ Kind[buf[i]] = kind

\* What read-line returned: the bytes from..text of the stream; the port goes on
\* after the byte next.
Line(text, next) == [of |-> "line", from |-> rd.from, limit |-> rd.limit,
                     text |-> text, next |-> next]

LineDone(next) ==
    /\ Consume(Bytes(buf, bufindex, next))
    /\ bufindex' = next
    /\ rd' = NoCall
    /\ answer' = Line(Len(consumed) + Stop - bufindex, Len(consumed'))
    /\ UNCHANGED <<portUse, inVars, outVars, wr, closeVars, failed>>

\* The end of the line is seen: a line feed, a carriage return with the line
\* feed after it, or a carriage return that something else follows.
LineEnds ==
    /\ Reading("line")
    /\ bufindex < buflen
    /\ Ends # {}
    /\ \/ Is(Stop, "lf") /\ LineDone(Stop + 1)
       \/ Is(Stop, "cr") /\ Stop + 1 < Seen
            /\ LineDone(IF Is(Stop + 1, "lf") THEN Stop + 2 ELSE Stop + 1)

\* The limit is reached without an end of line.
LineLimit ==
    /\ Reading("line")
    /\ bufindex < buflen
    /\ Ends = {}
    /\ Seen - bufindex >= rd.left
    /\ LineDone(Seen)

\* The eos handler calls read-input: the line goes on, or a carriage return is
\* the last byte in sight.
LineMore ==
    /\ Reading("line")
    /\ bufindex < buflen
    /\ \/ /\ Ends = {}
          /\ Seen - bufindex < rd.left
          /\ rd' = [rd EXCEPT !.at = "more", !.left = @ - (Seen - bufindex),
                              !.chunk = Bytes(buf, bufindex, Seen)]
       \/ /\ Is(Stop, "cr") /\ Stop + 1 = Seen
          /\ rd' = [rd EXCEPT !.at = "cr", !.chunk = Bytes(buf, bufindex, Seen)]
    /\ UNCHANGED <<portUse, inVars, bufindex, outVars, wr, closeVars, ghosts>>

RecvMore ==
    /\ rd.at = "more"
    /\ arrived > received \/ AtEnd
    /\ Received(buf, 0)
    /\ Consume(rd.chunk)
    /\ IF arrived > received
       THEN rd' = [rd EXCEPT !.at = "test"] /\ UNCHANGED answer
       ELSE rd' = NoCall /\ answer' = Line(Len(consumed'), Len(consumed'))
    /\ UNCHANGED <<portUse, outVars, wr, closeVars, failed>>

\* How many bytes that follow a carriage return belong to the end of line.
AfterCr == IF Kind[received + 1] = "lf" THEN 1 ELSE 0

RecvAfterCr ==
    /\ rd.at = "cr"
    /\ buf' = [i \in DOMAIN buf |-> IF i < Available(0) THEN received + i + 1
                                                        ELSE buf[i]]
    /\ received' = received + Available(0)
    /\ buflen' = Available(0)
    /\ \/ /\ arrived > received
          /\ bufindex' = AfterCr
          /\ Consume(rd.chunk \o Bytes(buf', 0, AfterCr))
       \/ /\ AtEnd
          /\ bufindex' = 1
          /\ Consume(rd.chunk)
    /\ rd' = NoCall
    /\ answer' = Line(Len(consumed) + Len(rd.chunk) - 1, Len(consumed'))
    /\ UNCHANGED <<portUse, arrived, peerClosed, outVars, wr, closeVars, failed>>

Reader ==
    \/ \E op \in portUse.readOps : BeginRead(op)
    \/ NeedsInput \/ Recv \/ RecvEnd \/ ReadTimeout
    \/ ReadChar \/ ReadBytes \/ PeekChar \/ ReadBuffered \/ CharReady
    \/ LineEnds \/ LineLimit \/ LineMore \/ RecvMore \/ RecvAfterCr

-----------------------------------------------------------------------------
(***************************************************************************)
(* The writing thread.  A call of output-to-socket sends msg, or the bytes *)
(* from off to len of the output buffer, and then continues with "then".   *)
(***************************************************************************)
OutVars == <<inVars, rd, iclosed, consumed, answer>>

Send(msg, len, then, rest) ==
    wr' = [at |-> "send", msg |-> msg, off |-> 0, len |-> len, then |-> then,
           rest |-> rest]

\* The next n bytes are to be written, and stand in a bytevector at offset from.
\* write-bytevector counts them, but takes as many from the start of it.
Handed(n, from) == [i \in 1..n |-> IF i <= from THEN 0 ELSE written + i - from]

\* write-char, which passes 0 for the offset, and write-bytevector.
Write ==
    /\ wr = NoCall /\ ~oclosed
    /\ \E n \in 1..Least(portUse.maxWrite, portUse.maxOut - written),
           from \in portUse.writeFrom :
          /\ written' = written + n
          /\ IF OutSize = 0
             THEN Send(Handed(n, from), n, "return", <<>>)
             ELSE wr' = [at |-> "add", rest |-> Handed(n, from)]
    /\ UNCHANGED <<portUse, OutVars, bufindex, outbuf, sent, flushed, oclosed,
                   socket, failed>>

Outbuf(n) == [i \in DOMAIN outbuf |-> IF bufindex <= i /\ i < bufindex + n
                                      THEN wr.rest[i - bufindex + 1] ELSE outbuf[i]]

\* add-to-buf: the rest of the bytes fits into the output buffer.
Fits == bufindex + Len(wr.rest) <= OutSize

AddAll ==
    /\ wr.at = "add"
    /\ Fits
    /\ outbuf' = Outbuf(Len(wr.rest))
    /\ bufindex' = bufindex + Len(wr.rest)
    /\ wr' = NoCall
    /\ UNCHANGED <<portUse, OutVars, sent, written, flushed, oclosed, socket,
                   failed>>

AddPart ==
    /\ wr.at = "add"
    /\ ~Fits
    /\ outbuf' = Outbuf(OutSize - bufindex)
    /\ Send(<<>>, OutSize, "add", SubSeq(wr.rest, OutSize - bufindex + 1, Len(wr.rest)))
    /\ UNCHANGED <<portUse, OutVars, bufindex, sent, written, flushed, oclosed,
                   socket, failed>>

\* What send() is given.
Message == IF wr.then = "return" THEN wr.msg
                                 ELSE [i \in 1..OutSize |-> outbuf[i - 1]]

Advance(n) == [wr EXCEPT !.off = @ + n]

\* send() takes some bytes of the next chunk; when it takes none the thread
\* waits until it takes some.
SendSome ==
    /\ wr.at = "send"
    /\ wr.off < wr.len
    /\ socket # "closed"
    /\ \E n \in 1..Least(ChunkSize, wr.len - wr.off) :
          /\ sent' = sent \o SubSeq(Message, wr.off + 1, wr.off + n)
          /\ wr' = Advance(n)
    /\ UNCHANGED <<portUse, OutVars, bufindex, outbuf, written, flushed, oclosed,
                   socket, failed>>

\* "write operation timed out", or "cannot write to socket" when it was closed.
WriteFails ==
    /\ wr.at = "send"
    /\ wr.off < wr.len
    /\ portUse.timeouts \/ socket = "closed"
    /\ wr' = NoCall
    /\ failed' = TRUE
    /\ UNCHANGED <<portUse, OutVars, bufindex, outVars, oclosed, socket>>

\* The output buffer after it was sent.
Emptied == 0

\* output-to-socket returns to write-bytevector, add-to-buf or flush.
Sent ==
    /\ wr.at = "send"
    /\ wr.off = wr.len
    /\ wr.then # "close"
    /\ bufindex' = IF wr.then = "return" THEN bufindex ELSE Emptied
    /\ wr' = IF wr.then = "add" THEN [at |-> "add", rest |-> wr.rest] ELSE NoCall
    /\ flushed' = IF wr.then = "flush" THEN written ELSE flushed
    /\ UNCHANGED <<portUse, OutVars, outbuf, sent, written, oclosed, socket,
                   failed>>

Flush ==
    /\ wr = NoCall /\ ~oclosed
    /\ OutSize > 0 /\ bufindex > 0
    /\ Send(<<>>, bufindex, "flush", <<>>)
    /\ UNCHANGED <<portUse, OutVars, bufindex, outVars, oclosed, socket, failed>>

-----------------------------------------------------------------------------
(***************************************************************************)
(* Closing the ports.  The last one to be closed closes the socket.        *)
(***************************************************************************)
CloseInput ==
    /\ "input" \in portUse.closes
    /\ rd = NoCall /\ ~iclosed
    /\ iclosed' = TRUE
    /\ socket' = IF oclosed THEN "closed" ELSE socket
    /\ UNCHANGED <<portUse, inVars, bufindex, outVars, rd, wr, oclosed, ghosts>>

ShutOutput == IF iclosed THEN "closed" ELSE "shut"

\* Mutant of CloseOutput: what is in the buffer is not written.
CloseOutputUnflushed ==
    /\ "output" \in portUse.closes
    /\ wr = NoCall /\ ~oclosed
    /\ oclosed' = TRUE
    /\ socket' = ShutOutput
    /\ UNCHANGED <<portUse, OutVars, bufindex, outVars, wr, failed>>

CloseOutput ==
    /\ "output" \in portUse.closes
    /\ wr = NoCall /\ ~oclosed
    /\ oclosed' = TRUE
    /\ IF OutSize > 0 /\ bufindex > 0
       THEN Send(<<>>, bufindex, "close", <<>>) /\ UNCHANGED socket
       ELSE socket' = ShutOutput /\ UNCHANGED wr
    /\ UNCHANGED <<portUse, OutVars, bufindex, outVars, failed>>

ClosedOutput ==
    /\ wr.at = "send"
    /\ wr.off = wr.len
    /\ wr.then = "close"
    /\ bufindex' = Emptied
    /\ socket' = ShutOutput
    /\ wr' = NoCall
    /\ UNCHANGED <<portUse, OutVars, outVars, oclosed, failed>>

Writer ==
    \/ Write \/ AddAll \/ AddPart \/ SendSome \/ WriteFails \/ Sent
    \/ Flush \/ CloseOutput \/ ClosedOutput

-----------------------------------------------------------------------------
ReaderBusy == rd.at = "test"
WriterBusy == wr.at = "add" \/ (wr.at = "send" /\ wr.off = wr.len)

PortsNext ==
    \/ ~WriterBusy /\ Reader
    \/ ~ReaderBusy /\ Writer
    \/ ~WriterBusy /\ ~ReaderBusy /\ CloseInput
    \/ PeerSends \/ PeerCloses

PortsSpec == PortsInit /\ [][PortsNext]_portVars

-----------------------------------------------------------------------------
(***************************************************************************)
(* Properties.                                                             *)
(***************************************************************************)
Numbers(s) == \A i \in DOMAIN s : s[i] = i

\* Every variable has its type; the indices stay within their buffers.
PortsTypeOK ==
    /\ portUse \in PortUses
    /\ arrived \in 0..Len(Kind) /\ received \in 0..arrived
    /\ peerClosed \in BOOLEAN
    /\ buf \in [0..InSize-1 -> 0..Len(Kind)]
    /\ buflen \in 0..InSize
    /\ outbuf \in [0..OutSize-1 -> 0..portUse.maxOut]
    /\ bufindex \in Nat
    /\ OutSize > 0 => bufindex <= (IF InSize > OutSize THEN InSize ELSE OutSize)
    /\ rd.at \in {"idle", "test", "recv", "more", "cr"}
    /\ wr.at \in {"idle", "add", "send"}
    /\ written \in 0..portUse.maxOut /\ flushed \in 0..written
    /\ {iclosed, oclosed, failed} \subseteq BOOLEAN
    /\ socket \in {"open", "shut", "closed"}

\* The program gets the bytes of the peer in the order in which they were
\* sent, none missing and none twice, however its operations, the arrival of
\* the bytes and the limits of its lines cut them up.
InputInOrder == Numbers(consumed)

\* Bytevectors are written from their start.
WritesWhole == portUse.writeFrom \subseteq {0}

\* The peer gets what the program writes, in order and once, if bytevectors are
\* written from their start; a failed write may leave bytes unsent.
OutputInOrder == ~failed /\ WritesWhole => Numbers(sent)

\* As many bytes as were written before a flush that succeeded have been sent, and
\* the peer sees the end of the stream only after as many as were written at all.
OutputDelivered ==
    ~failed => /\ Len(sent) >= flushed
               /\ socket # "open" => Len(sent) = written

\* read-line returns what stands between the position of the port and the next end
\* of line (or the end of the input, or the limit), and leaves the port behind
\* it, wherever the bytes were cut on their way.
LinesAreWhole ==
    answer.of = "line" /\ rd = NoCall =>
        LET last  == IF peerClosed THEN arrived ELSE Len(Kind)
            ends  == { i \in answer.from..last : Kind[i] \in {"cr", "lf"} }
            end   == IF ends = {} THEN last + 1
                     ELSE CHOOSE i \in ends : \A j \in ends : i <= j
            bound == answer.from + answer.limit
        IN IF end >= bound
           THEN answer.text = bound - 1 /\ answer.next = bound - 1
           ELSE /\ answer.text = end - 1
                /\ answer.next = IF end < last /\ Kind[end] = "cr" /\ Kind[end + 1] = "lf"
                                 THEN end + 1 ELSE Least(end, last)

\* peek-char says what read-char will read.
PeekIsNext ==
    answer.of = "peek" /\ rd = NoCall =>
        LET next == Len(consumed) + 1
        IN /\ next <= Len(Kind)
           /\ answer.char = [j \in 1..1+Extra(next) |-> next + j - 1]

\* A read-char after char-ready? said yes does not wait.
ReadyCharDoesNotWait ==
    answer.of = "ready" /\ rd.at = "recv" /\ rd.op = "char" /\ answer.yes =>
        arrived > received \/ AtEnd

\* The program gets the bytes of the peer in order, none missing and none
\* twice, however they are cut up; read-line returns what stands before the
\* next end of line and leaves the port behind it; peek-char says what
\* read-char will read (tcp.scm, read-input and the procedures of its port).
InputWhole == InputInOrder /\ LinesAreWhole /\ PeekIsNext

\* The peer gets what the program wrote in order and once (of bytevectors that are
\* written from their start), what was flushed at once, and the end of the stream
\* after all of it, and the two positions that the ports of a connection share
\* stay in their buffers (output-to-socket and the procedures of its port).
OutputWhole == PortsTypeOK /\ OutputInOrder /\ OutputDelivered
=============================================================================
