---------------------------- MODULE TcpPortsProofs ----------------------------
(***************************************************************************)
(* Proofs about the ports of a TCP connection, for every peer, every size  *)
(* of the buffers and every program that uses the ports as SoundUse says:  *)
(* input comes in order and whole, output goes in order and whole.         *)
(***************************************************************************)
EXTENDS TcpPorts, SequenceTheorems, WellFoundedInduction, TLAPS

-----------------------------------------------------------------------------
(***************************************************************************)
(* The inductive invariant.                                                *)
(***************************************************************************)
\* Calls in progress.
ReadCall ==
    [at : {"test", "recv", "more", "cr"}, op : {"char", "peek", "bytes", "line"},
     need : Int, got : Nat, left : Nat, asked : BOOLEAN, chunk : Seq(Nat),
     from : Nat, limit : Nat]
AddCall == [at : {"add"}, rest : Seq(0..portUse.maxOut)]
SendCall ==
    [at : {"send"}, msg : Seq(Nat), off : Nat, len : Nat,
     then : {"return", "add", "flush", "close"}, rest : Seq(0..portUse.maxOut)]

\* The types, and what is in use at all: there is an output buffer, or a reader.
TypeInv ==
    /\ PortsTypeOK
    /\ rd \in {NoCall} \cup ReadCall
    /\ wr \in {NoCall} \cup AddCall \cup SendCall
    /\ consumed \in Seq(Nat) /\ sent \in Seq(Nat)
    /\ OutSize > 0 => rd = NoCall /\ bufindex <= OutSize
    /\ wr.at = "add" => OutSize > 0
    /\ wr.at = "send" =>
           /\ wr.off <= wr.len
           /\ IF wr.then = "return" THEN OutSize = 0 /\ wr.len = Len(wr.msg)
                                    ELSE OutSize > 0 /\ wr.len <= OutSize

\* How many bytes of the buffer the program has not taken.
Held == IF bufindex < buflen THEN buflen - bufindex ELSE 0

\* The buffer holds the last bytes that were received; what was taken from it is
\* all that is not held.
StreamOK ==
    /\ buflen <= received
    /\ \A i \in 0..buflen-1 : buf[i] = received - buflen + i + 1
    /\ Numbers(consumed)
    /\ Len(consumed) + Held = received

\* Which calls there are, and when.
CallsOK ==
    /\ OutSize > 0 => buflen = 0
    /\ rd.at # "idle" => rd.op \in portUse.readOps
    /\ rd.at = "recv" => Held = 0
    /\ "buffered" \in portUse.readOps => bufindex = 0 \/ bufindex >= buflen

\* No line ends from byte m to byte n.
EndFree(m, n) == \A i \in m..n : Kind[i] \notin {"cr", "lf"}

\* How far read-line has come.
LineCall ==
    /\ rd.op = "line" /\ rd.limit \in portUse.limits
    /\ rd.from \in 1..Len(consumed)+1
    /\ rd.left > 0
    /\ EndFree(rd.from, Len(consumed))
    /\ rd.at # "more" => rd.left = rd.limit - (Len(consumed) + 1 - rd.from)
LineOK ==
    /\ rd.at # "idle" /\ rd.op = "line" => LineCall
    /\ rd.at \in {"more", "cr"} =>
           /\ LineCall
           /\ Len(rd.chunk) = Held
           /\ \A i \in DOMAIN rd.chunk : rd.chunk[i] = Len(consumed) + i
    /\ rd.at = "more" =>
           /\ rd.left = rd.limit - (received + 1 - rd.from)
           /\ EndFree(rd.from, received)
    /\ rd.at = "cr" =>
           /\ Held \in 1..rd.left
           /\ EndFree(rd.from, received - 1) /\ Kind[received] = "cr"

\* What read-line returned, said of the bytes received.
AtLimit(a) ==
    /\ a.text = a.from + a.limit - 1 /\ a.next = a.text
    /\ a.text <= received /\ EndFree(a.from, a.text)
AtLineEnd(a) ==
    LET end == a.text + 1
    IN  /\ a.from <= end /\ end < a.from + a.limit
        /\ end <= received /\ EndFree(a.from, a.text)
        /\ \/ Kind[end] = "lf" /\ a.next = end
           \/ /\ Kind[end] = "cr" /\ end < received /\ Kind[end + 1] = "lf"
              /\ a.next = end + 1
           \/ /\ Kind[end] = "cr" /\ a.next = end
              /\ IF end < received THEN Kind[end + 1] # "lf"
                                   ELSE peerClosed /\ arrived = end
AtInputEnd(a) ==
    /\ peerClosed /\ arrived = a.text /\ a.next = a.text
    /\ a.text + 1 < a.from + a.limit /\ EndFree(a.from, a.text)
AnswerOK ==
    answer.of = "line" =>
        /\ answer.from \in Nat \ {0} /\ answer.limit \in Nat
        /\ answer.text \in Nat /\ answer.next \in Nat
        /\ AtLimit(answer) \/ AtLineEnd(answer) \/ AtInputEnd(answer)

\* The bytes that the writing thread is at, in the order in which they are to be
\* sent: those of the output buffer and those that do not fit.  Which ones they
\* are is known if bytevectors are written from their start.
InBuffer == IF OutSize > 0 THEN bufindex ELSE 0
Byte(b, k) == WritesWhole => b = k
BufferedFrom(n, len) == \A i \in 0..len-1 : Byte(outbuf[i], n + i + 1)
RestOK == \A i \in DOMAIN wr.rest : Byte(wr.rest[i], written - Len(wr.rest) + i)

\* While nothing fails: where the bytes are that have not been sent.
WriteOK ==
    /\ WritesWhole => Numbers(sent)
    /\ flushed <= Len(sent)
    /\ wr.at = "idle" => Len(sent) + InBuffer = written /\ BufferedFrom(Len(sent), InBuffer)
    /\ wr.at = "add" =>
           /\ Len(sent) + bufindex + Len(wr.rest) = written
           /\ BufferedFrom(Len(sent), bufindex) /\ RestOK
    /\ wr.at = "send" =>
           LET base == Len(sent) - wr.off
           IN  /\ base + wr.len + Len(wr.rest) = written /\ RestOK
               /\ wr.then # "add" => wr.rest = <<>>
               /\ IF wr.then = "return"
                  THEN \A i \in DOMAIN wr.msg : Byte(wr.msg[i], base + i)
                  ELSE BufferedFrom(base, wr.len)
    /\ socket # "open" => Len(sent) = written

\* The closed output port writes its buffer and no more.
ShutOK ==
    /\ oclosed => /\ "output" \in portUse.closes
                  /\ wr.at = "idle" \/ (wr.at = "send" /\ wr.then = "close")
    /\ wr.at = "send" /\ wr.then = "close" => oclosed
    /\ socket # "open" => oclosed /\ wr.at = "idle"

ReadInv == TypeInv /\ StreamOK /\ CallsOK /\ LineOK /\ AnswerOK /\ PeekIsNext
WriteInv == TypeInv /\ ShutOK /\ (~failed => WriteOK)

-----------------------------------------------------------------------------
(***************************************************************************)
(* Uses, calls and sequences.                                              *)
(***************************************************************************)
\* What is known of a use of the connection.
LEMMA UseTypes ==
    ASSUME portUse \in PortUses
    PROVE  /\ Kind \in Seq({"single", "lead", "tail", "cr", "lf"})
           /\ Len(Kind) \in Nat /\ DOMAIN Kind = 1..Len(Kind)
           /\ InSize \in Nat \ {0} /\ OutSize \in Nat /\ ChunkSize \in Nat \ {0}
           /\ portUse.maxOut \in Nat /\ portUse.maxWrite \in Nat
           /\ portUse.limits \subseteq Nat \ {0} /\ portUse.writeFrom \subseteq Nat
           /\ \A b \in Nat : Extra(b) \in {0, 1}
<1>1. PortUseTypeOK(portUse)
  BY PortUsesAssumption
<1>2. Kind \in Seq({"single", "lead", "tail", "cr", "lf"})
  BY <1>1 DEF PortUseTypeOK, Kind
<1>3. portUse.limits \subseteq Nat \ {0}
  <2>1. portUse.limits \subseteq 1..NoLimit
    BY <1>1 DEF PortUseTypeOK
  <2> QED  BY <2>1 DEF NoLimit
<1>4. /\ InSize \in Nat \ {0} /\ OutSize \in Nat /\ ChunkSize \in Nat \ {0}
      /\ portUse.maxOut \in Nat /\ portUse.maxWrite \in Nat /\ portUse.writeFrom \subseteq Nat
  BY <1>1 DEF PortUseTypeOK, InSize, OutSize, ChunkSize
<1>5. \A b \in Nat : Extra(b) \in {0, 1}
  BY DEF Extra
<1> QED  BY <1>2, <1>3, <1>4, <1>5

\* The fields of a call that reads, and what becomes of it.
LEMMA ReadFields ==
    ASSUME NEW r \in ReadCall
    PROVE  /\ r.at \in {"test", "recv", "more", "cr"} /\ r.op \in {"char", "peek", "bytes", "line"}
           /\ r.need \in Int /\ r.got \in Nat /\ r.left \in Nat /\ r.asked \in BOOLEAN
           /\ r.chunk \in Seq(Nat) /\ r.from \in Nat /\ r.limit \in Nat
           /\ r # NoCall /\ r.at # "idle" /\ NoCall.at = "idle"
<1>1. r.at # "idle"
  BY DEF ReadCall
<1>2. NoCall.at = "idle"
  BY DEF NoCall
<1> QED  BY <1>1, <1>2 DEF ReadCall

\* Moving a call to another place changes nothing else of it.
LEMMA ReadMoves ==
    ASSUME NEW r \in ReadCall, NEW at \in {"test", "recv", "more", "cr"}
    PROVE  /\ [r EXCEPT !.at = at] \in ReadCall
           /\ [r EXCEPT !.at = at].at = at
           /\ LET n == [r EXCEPT !.at = at]
              IN  /\ n.op = r.op /\ n.need = r.need /\ n.got = r.got /\ n.left = r.left
                  /\ n.asked = r.asked /\ n.chunk = r.chunk /\ n.from = r.from /\ n.limit = r.limit
BY DEF ReadCall

\* The lesser of two integers.
LEMMA Leasts ==
    ASSUME NEW m \in Int, NEW n \in Int
    PROVE  Least(m, n) \in Int /\ Least(m, n) <= m /\ Least(m, n) <= n /\ Least(m, n) \in {m, n}
BY DEF Least

\* The least element of a set of numbers.
LEMMA LeastNat ==
    ASSUME NEW S \in SUBSET Nat, S # {}
    PROVE  \E i \in S : \A j \in S : i <= j
<1>1. IsWellFoundedOn(OpToRel(<, Nat), Nat)
  BY NatLessThanWellFounded
<1>2. PICK i \in S : \A j \in S : ~(<<j, i>> \in OpToRel(<, Nat))
  BY <1>1, WFMin
<1>3. ASSUME NEW j \in S PROVE i <= j
  <2>1. ~(j < i)
    BY <1>2 DEF OpToRel
  <2> QED  BY <2>1
<1> QED  BY <1>3

\* A function on the first n numbers is a sequence.
LEMMA SeqOf ==
    ASSUME NEW S, NEW n \in Nat, NEW f \in [1..n -> S]
    PROVE  f \in Seq(S) /\ Len(f) = n /\ DOMAIN f = 1..n
OBVIOUS

\* A piece of a buffer is a sequence.
LEMMA Pieces ==
    ASSUME NEW b, NEW from \in Nat, NEW to \in Nat, from <= to,
           \A i \in from..to-1 : b[i] \in Nat
    PROVE  /\ Bytes(b, from, to) \in Seq(Nat)
           /\ Len(Bytes(b, from, to)) = to - from
           /\ \A i \in 1..to-from : Bytes(b, from, to)[i] = b[from + i - 1]
<1> DEFINE n == to - from
<1>1. n \in Nat
  OBVIOUS
<1>2. \A i \in 1..n : b[from + i - 1] \in Nat
  <2> TAKE i \in 1..n
  <2>1. from + i - 1 \in from..to-1
    BY <1>1
  <2> QED  BY <2>1
<1>3. Bytes(b, from, to) = [i \in 1..n |-> b[from + i - 1]]
  BY DEF Bytes
<1> HIDE DEF n
<1>4. [i \in 1..n |-> b[from + i - 1]] \in Seq(Nat) /\ Len([i \in 1..n |-> b[from + i - 1]]) = n
  BY <1>1, <1>2
<1> QED  BY <1>3, <1>4 DEF n

\* Consuming more.
LEMMA Joins ==
    ASSUME NEW s \in Seq(Nat), NEW t \in Seq(Nat)
    PROVE  /\ s \o t \in Seq(Nat) /\ Len(s \o t) = Len(s) + Len(t)
           /\ Numbers(s) /\ (\A i \in DOMAIN t : t[i] = Len(s) + i) => Numbers(s \o t)
<1>1. s \o t \in Seq(Nat) /\ Len(s \o t) = Len(s) + Len(t) /\ Len(s) \in Nat /\ Len(t) \in Nat
  OBVIOUS
<1>2. ASSUME Numbers(s), \A i \in DOMAIN t : t[i] = Len(s) + i
      PROVE  Numbers(s \o t)
  <2>1. SUFFICES ASSUME NEW i \in 1..Len(s) + Len(t) PROVE (s \o t)[i] = i
    BY <1>1 DEF Numbers
  <2>2. CASE i <= Len(s)
    BY <1>1, <1>2, <2>2 DEF Numbers
  <2>3. CASE i > Len(s)
    <3>1. (s \o t)[i] = t[i - Len(s)] /\ i - Len(s) \in DOMAIN t
      BY <1>1, <2>3
    <3> QED  BY <1>1, <1>2, <3>1
  <2> QED  BY <1>1, <2>2, <2>3
<1> QED  BY <1>1, <1>2

-----------------------------------------------------------------------------
(***************************************************************************)
(* Type correctness.                                                       *)
(***************************************************************************)
InputTypes ==
    /\ received \in 0..arrived
    /\ buf \in [0..InSize-1 -> 0..Len(Kind)] /\ buflen \in 0..InSize
    /\ bufindex \in Nat

\* What a step of the reading thread has to keep,
LEMMA ReadKeepsTypes ==
    ASSUME TypeInv, OutSize = 0, InputTypes',
           UNCHANGED <<portUse, arrived, peerClosed, outVars, wr, closeVars>>,
           rd' \in {NoCall} \cup ReadCall, consumed' \in Seq(Nat), failed' \in BOOLEAN
    PROVE  TypeInv'
<1>0. UNCHANGED <<Kind, InSize, OutSize, outbuf, sent, written, flushed, iclosed, oclosed, socket>>
  BY DEF Kind, InSize, OutSize, outVars, closeVars
<1>1. PortsTypeOK'
  <2>1. rd'.at \in {"idle", "test", "recv", "more", "cr"}
    BY DEF ReadCall, NoCall
  <2> QED  BY <1>0, <2>1 DEF TypeInv, PortsTypeOK, InputTypes
<1>2. wr' \in {NoCall} \cup (AddCall \cup SendCall)' /\ sent' \in Seq(Nat)
  BY DEF TypeInv, AddCall, SendCall, outVars
<1>3. /\ (OutSize = 0)'
      /\ (wr.at = "add" => OutSize > 0)'
      /\ (wr.at = "send" =>
             /\ wr.off <= wr.len
             /\ IF wr.then = "return" THEN OutSize = 0 /\ wr.len = Len(wr.msg)
                                      ELSE OutSize > 0 /\ wr.len <= OutSize)'
  BY DEF TypeInv, OutSize
<1> QED  BY <1>1, <1>2, <1>3 DEF TypeInv

\* and what one of the writing thread.
WriteTypes ==
    /\ outbuf \in [0..OutSize-1 -> 0..portUse.maxOut]
    /\ bufindex \in Nat /\ (OutSize > 0 => bufindex <= OutSize)
    /\ wr \in {NoCall} \cup AddCall \cup SendCall
    /\ wr.at = "add" => OutSize > 0
    /\ wr.at = "send" =>
           /\ wr.off <= wr.len
           /\ IF wr.then = "return" THEN OutSize = 0 /\ wr.len = Len(wr.msg)
                                    ELSE OutSize > 0 /\ wr.len <= OutSize
    /\ written \in 0..portUse.maxOut /\ flushed \in 0..written /\ sent \in Seq(Nat)

\* What the writer does keeps the types when it keeps those of its own variables.
LEMMA WriteKeepsTypes ==
    ASSUME TypeInv, WriteTypes', UNCHANGED <<portUse, inVars, rd, iclosed, consumed>>,
           oclosed' \in BOOLEAN, failed' \in BOOLEAN, socket' \in {"open", "shut", "closed"}
    PROVE  TypeInv'
<1>1. UNCHANGED <<Kind, InSize, OutSize, arrived, peerClosed, received, buf, buflen>>
  BY DEF Kind, InSize, OutSize, inVars
<1>2. wr'.at \in {"idle", "add", "send"}
  BY DEF WriteTypes, AddCall, SendCall, NoCall
<1>3. (OutSize > 0 => bufindex <= (IF InSize > OutSize THEN InSize ELSE OutSize))'
  <2>1. InSize \in Nat /\ OutSize \in Nat
    BY UseTypes DEF TypeInv, PortsTypeOK
  <2> QED  BY <1>1, <2>1 DEF WriteTypes
<1>4. PortsTypeOK'
  BY <1>1, <1>2, <1>3 DEF TypeInv, PortsTypeOK, WriteTypes
<1>5. (OutSize > 0 => rd = NoCall)'
  BY <1>1 DEF TypeInv
<1> QED  BY <1>1, <1>4, <1>5 DEF TypeInv, WriteTypes

\* recv() behind the bytes that are kept.
LEMMA ReceivedTypes ==
    ASSUME TypeInv, NEW off \in 0..InSize, NEW b \in [0..InSize-1 -> 0..Len(Kind)],
           Received(b, off), portUse' = portUse
    PROVE  /\ InputTypes' /\ bufindex' = 0 /\ UNCHANGED <<arrived, peerClosed, Kind, InSize, OutSize>>
           /\ Available(off) \in Nat /\ received' = received + Available(off)
           /\ buflen' = off + Available(off)
           /\ \A i \in 0..InSize-1 : buf'[i] = IF off <= i /\ i < off + Available(off)
                                                THEN received + i - off + 1 ELSE b[i]
<1>1. /\ portUse \in PortUses /\ arrived \in 0..Len(Kind) /\ received \in 0..arrived
      /\ buf \in [0..InSize-1 -> 0..Len(Kind)]
  BY DEF TypeInv, PortsTypeOK
<1>2. InSize \in Nat /\ Len(Kind) \in Nat
  BY <1>1, UseTypes
<1>3. PICK a : a = Available(off)
  OBVIOUS
<1>4. a \in Nat /\ a <= arrived - received /\ a <= InSize - off
  BY <1>1, <1>2, <1>3 DEF Available, Least
<1>5. /\ buf' = [i \in 0..InSize-1 |-> IF off <= i /\ i < off + a
                                        THEN received + i - off + 1 ELSE b[i]]
      /\ received' = received + a /\ buflen' = off + a /\ bufindex' = 0
      /\ UNCHANGED <<arrived, peerClosed>>
  <2>1. DOMAIN buf = 0..InSize-1
    BY <1>1
  <2> QED  BY <1>3, <2>1 DEF Received
<1>6. UNCHANGED <<Kind, InSize, OutSize>>
  BY DEF Kind, InSize, OutSize
<1>7. ASSUME NEW i \in 0..InSize-1
      PROVE  (IF off <= i /\ i < off + a THEN received + i - off + 1 ELSE b[i]) \in 0..Len(Kind)
  BY <1>1, <1>2, <1>4
<1>8. InputTypes'
  BY <1>1, <1>2, <1>4, <1>5, <1>6, <1>7 DEF InputTypes
<1> QED  BY <1>3, <1>4, <1>5, <1>6, <1>8

\* What read-line sees.
LEMMA Scans ==
    ASSUME TypeInv, rd \in ReadCall, bufindex < buflen
    PROVE  /\ Seen \in bufindex..buflen /\ Seen <= bufindex + rd.left
           /\ Seen = buflen \/ Seen = bufindex + rd.left
           /\ Ends \subseteq bufindex..Seen-1
           /\ Ends = {} => Stop = Seen
           /\ Ends # {} => Stop \in Ends /\ \A j \in Ends : Stop <= j
<1>1. bufindex \in Nat /\ buflen \in Nat /\ rd.left \in Nat
  <2>1. InSize \in Nat
    BY UseTypes DEF TypeInv, PortsTypeOK
  <2> QED  BY <2>1, ReadFields DEF TypeInv, PortsTypeOK
<1>2. /\ Seen \in bufindex..buflen /\ Seen <= bufindex + rd.left
      /\ Seen = buflen \/ Seen = bufindex + rd.left
  BY <1>1 DEF Seen, Least
<1>3. Ends \subseteq bufindex..Seen-1
  BY DEF Ends
<1>4. ASSUME Ends # {} PROVE Stop \in Ends /\ \A j \in Ends : Stop <= j
  <2>1. Ends \subseteq Nat
    BY <1>1, <1>2, <1>3
  <2>2. PICK i \in Ends : \A j \in Ends : i <= j
    BY <1>4, <2>1, LeastNat
  <2> QED  BY <1>4, <2>2 DEF Stop
<1>5. Ends = {} => Stop = Seen
  BY DEF Stop
<1> QED  BY <1>2, <1>3, <1>4, <1>5


\* The parts of the type invariant that the steps use.
LEMMA TypeFacts ==
    ASSUME TypeInv
    PROVE  /\ portUse \in PortUses /\ arrived \in Nat /\ received \in Nat /\ arrived <= Len(Kind)
           /\ received <= arrived /\ InputTypes /\ bufindex \in Nat /\ buflen \in Nat
           /\ InSize \in Nat /\ InSize > 0 /\ OutSize \in Nat /\ Len(Kind) \in Nat /\ buflen <= InSize
           /\ consumed \in Seq(Nat) /\ Len(consumed) \in Nat
           /\ failed \in BOOLEAN /\ iclosed \in BOOLEAN
           /\ rd # NoCall => rd \in ReadCall
           /\ rd.at # "idle" => rd \in ReadCall
           /\ \A i \in 0..InSize-1 : buf[i] \in Nat /\ buf[i] <= Len(Kind)
<1>1. portUse \in PortUses
  BY DEF TypeInv, PortsTypeOK
<1>2. InSize \in Nat /\ InSize > 0 /\ OutSize \in Nat /\ Len(Kind) \in Nat
  BY <1>1, UseTypes
<1>3. consumed \in Seq(Nat) /\ Len(consumed) \in Nat
  BY DEF TypeInv
<1>4. (rd # NoCall => rd \in ReadCall) /\ (rd.at # "idle" => rd \in ReadCall)
  BY DEF TypeInv, NoCall
<1>5. InputTypes /\ arrived \in 0..Len(Kind) /\ failed \in BOOLEAN /\ iclosed \in BOOLEAN
  BY DEF TypeInv, PortsTypeOK, InputTypes
<1> QED  BY <1>1, <1>2, <1>3, <1>4, <1>5 DEF InputTypes

\* Where there is output to be buffered, nobody reads.
LEMMA ReadersReadOnly ==
    ASSUME TypeInv, SoundUse(portUse), Reader
    PROVE  OutSize = 0 /\ (rd = NoCall \/ rd \in ReadCall)
<1>1. OutSize # 0 => portUse.readOps = {}
  BY DEF SoundUse, OneDirection, OutSize
<1>2. OutSize # 0 => rd = NoCall
  BY UseTypes DEF TypeInv, PortsTypeOK
<1>3. NoCall.at = "idle"
  BY DEF NoCall
<1>4. OutSize = 0
  BY <1>1, <1>2, <1>3 DEF Reader, NeedsInput, Recv, RecvEnd, ReadTimeout, ReadChar, ReadBytes, PeekChar,
     ReadBuffered, CharReady, LineEnds, LineLimit, LineMore, RecvMore, RecvAfterCr, Reading
<1> QED  BY <1>4 DEF TypeInv

\* A reading procedure is called.
LEMMA BeginReadTypes ==
    ASSUME TypeInv, OutSize = 0, NEW op \in portUse.readOps, BeginRead(op)
    PROVE  TypeInv'
<1>1. PICK n \in IF op = "line" THEN portUse.limits ELSE IF op = "bytes" THEN {2} ELSE {0} :
          rd' = [at |-> "test", op |-> op, need |-> 0, got |-> 0, left |-> n,
                 asked |-> FALSE, chunk |-> <<>>, from |-> Len(consumed) + 1, limit |-> n]
  BY DEF BeginRead
<1>2. n \in Nat /\ op \in {"char", "peek", "bytes", "line"}
  BY UseTypes, TypeFacts DEF BeginRead
<1>3. Len(consumed) + 1 \in Nat /\ <<>> \in Seq(Nat)
  BY TypeFacts
<1>4. rd' \in ReadCall
  BY <1>1, <1>2, <1>3 DEF ReadCall
<1>5. UNCHANGED <<portUse, inVars, bufindex, outVars, wr, closeVars, ghosts>>
  BY DEF BeginRead
<1>6. InputTypes'
  BY <1>5, TypeFacts DEF InputTypes, inVars, InSize, Kind
<1> QED  BY <1>4, <1>5, <1>6, TypeFacts, ReadKeepsTypes DEF inVars, ghosts

\* Steps of a call that take no bytes keep the types.
LEMMA CallTypes ==
    ASSUME TypeInv, OutSize = 0, rd' \in {NoCall} \cup ReadCall,
           UNCHANGED <<portUse, inVars, bufindex, outVars, wr, closeVars, consumed>>,
           failed' \in BOOLEAN
    PROVE  TypeInv'
<1>1. InputTypes'
  BY TypeFacts DEF InputTypes, inVars, InSize, Kind
<1> QED  BY <1>1, TypeFacts, ReadKeepsTypes DEF inVars

\* Steps of a call that take bytes from the buffer keep the types.
LEMMA TakeTypes ==
    ASSUME TypeInv, OutSize = 0, rd' \in {NoCall} \cup ReadCall, bufindex' \in Nat,
           UNCHANGED <<portUse, inVars, outVars, wr, closeVars, failed>>,
           NEW bytes \in Seq(Nat), Consume(bytes)
    PROVE  TypeInv'
<1>1. InputTypes'
  BY TypeFacts DEF InputTypes, inVars, InSize, Kind
<1>2. consumed' \in Seq(Nat)
  BY TypeFacts, Joins DEF Consume
<1> QED  BY <1>1, <1>2, TypeFacts, ReadKeepsTypes DEF inVars

\* Receiving into the buffer keeps the types.
LEMMA RecvTypes ==
    ASSUME TypeInv, OutSize = 0, rd' \in {NoCall} \cup ReadCall, Received(buf, 0),
           UNCHANGED <<portUse, outVars, wr, closeVars>>,
           consumed' \in Seq(Nat), failed' \in BOOLEAN
    PROVE  TypeInv'
<1>1. InputTypes' /\ UNCHANGED <<arrived, peerClosed>>
  BY TypeFacts, ReceivedTypes DEF InputTypes
<1> QED  BY <1>1, ReadKeepsTypes


\* The line that read-line takes, up to a place that it has seen.
LEMMA LineBytes ==
    ASSUME TypeInv, NEW from \in Nat, NEW to \in Nat, from <= to, to <= buflen
    PROVE  /\ Bytes(buf, from, to) \in Seq(Nat) /\ Len(Bytes(buf, from, to)) = to - from
           /\ \A i \in 1..to-from : Bytes(buf, from, to)[i] = buf[from + i - 1]
<1>1. \A i \in from..to-1 : buf[i] \in Nat
  BY TypeFacts, SMTT(30)
<1> QED  BY <1>1, Pieces

\* Where a line that is seen ends.
LEMMA LineStops ==
    ASSUME TypeInv, LineEnds
    PROVE  /\ rd \in ReadCall /\ rd.op = "line" /\ Ends # {} /\ bufindex < buflen
           /\ Stop \in Ends /\ Stop \in bufindex..Seen-1 /\ \A j \in Ends : Stop <= j
           /\ Seen <= buflen /\ Seen \in Nat /\ Stop \in Nat
           /\ \E next \in {Stop + 1, Stop + 2} :
                  /\ next \in Nat /\ next <= Seen /\ LineDone(next)
                  /\ \/ Is(Stop, "lf") /\ next = Stop + 1
                     \/ Is(Stop, "cr") /\ Stop + 1 < Seen
                        /\ next = IF Is(Stop + 1, "lf") THEN Stop + 2 ELSE Stop + 1
<1>1. rd \in ReadCall /\ rd.op = "line" /\ Ends # {} /\ bufindex < buflen
  <2>1. rd.at = "test" /\ rd.op = "line" /\ Ends # {} /\ bufindex < buflen
    BY DEF LineEnds, Reading
  <2> QED  BY <2>1, TypeFacts
<1>2. /\ Stop \in Ends /\ Stop \in bufindex..Seen-1 /\ \A j \in Ends : Stop <= j
      /\ Seen <= buflen /\ Seen \in Nat /\ Stop \in Nat
  BY <1>1, Scans, TypeFacts
<1>3. CASE Is(Stop, "lf") /\ LineDone(Stop + 1)
  <2>1. Stop + 1 \in Nat /\ Stop + 1 <= Seen
    BY <1>2
  <2> QED  BY <1>1, <1>2, <1>3, <2>1
<1>4. CASE Is(Stop, "cr") /\ Stop + 1 < Seen /\ LineDone(IF Is(Stop + 1, "lf") THEN Stop + 2 ELSE Stop + 1)
  <2>1. PICK next : next = IF Is(Stop + 1, "lf") THEN Stop + 2 ELSE Stop + 1
    OBVIOUS
  <2>2. next \in {Stop + 1, Stop + 2} /\ next \in Nat /\ next <= Seen
    BY <1>2, <1>4, <2>1
  <2> QED  BY <1>1, <1>2, <1>4, <2>1, <2>2
<1> QED  BY <1>3, <1>4 DEF LineEnds

\* read-line returns a line.
LEMMA LineDoneTypes ==
    ASSUME TypeInv, OutSize = 0, NEW next \in Nat, bufindex <= next, next <= buflen, LineDone(next)
    PROVE  TypeInv'
<1>1. Bytes(buf, bufindex, next) \in Seq(Nat)
  BY TypeFacts, LineBytes
<1>2. Consume(Bytes(buf, bufindex, next)) /\ bufindex' = next /\ rd' = NoCall
      /\ UNCHANGED <<portUse, inVars, outVars, wr, closeVars, failed>>
  BY DEF LineDone
<1> QED  BY <1>1, <1>2, TakeTypes

\* read-line has come to the end of the buffer.
LEMMA LineMoreTypes ==
    ASSUME TypeInv, OutSize = 0, LineMore
    PROVE  TypeInv'
<1>1. rd.at = "test" /\ bufindex < buflen /\ rd \in ReadCall
  BY TypeFacts DEF LineMore, Reading
<1>2. Seen \in bufindex..buflen /\ Seen <= bufindex + rd.left /\ Seen \in Nat
  BY <1>1, Scans, TypeFacts
<1>3. Bytes(buf, bufindex, Seen) \in Seq(Nat)
  BY <1>2, TypeFacts, LineBytes
<1>4. rd.left - (Seen - bufindex) \in Nat
  BY <1>1, <1>2, ReadFields, TypeFacts
<1>5. rd' \in ReadCall
  <2>1. \/ rd' = [rd EXCEPT !.at = "more", !.left = @ - (Seen - bufindex),
                           !.chunk = Bytes(buf, bufindex, Seen)]
        \/ rd' = [rd EXCEPT !.at = "cr", !.chunk = Bytes(buf, bufindex, Seen)]
    BY DEF LineMore
  <2> QED  BY <1>1, <1>3, <1>4, <2>1 DEF ReadCall
<1> QED  BY <1>5, CallTypes, TypeFacts DEF LineMore, ghosts

\* read-line looks for the byte behind a carriage return.
LEMMA RecvAfterCrTypes ==
    ASSUME TypeInv, OutSize = 0, RecvAfterCr
    PROVE  TypeInv'
<1>1. rd \in ReadCall /\ rd.chunk \in Seq(Nat)
  BY TypeFacts, ReadFields DEF RecvAfterCr
<1>2. UNCHANGED <<Kind, InSize, arrived>> /\ portUse' = portUse
  BY DEF RecvAfterCr, Kind, InSize
<1>3. PICK a : a = Available(0)
  OBVIOUS
<1>4. a \in Nat /\ a <= arrived - received /\ a <= InSize /\ (arrived > received => a > 0)
  BY <1>3, TypeFacts DEF Available, Least
<1>5. /\ buf' = [i \in 0..InSize-1 |-> IF i < a THEN received + i + 1 ELSE buf[i]]
      /\ received' = received + a /\ buflen' = a
  <2>1. DOMAIN buf = 0..InSize-1
    BY TypeFacts DEF InputTypes
  <2> QED  BY <1>3, <2>1 DEF RecvAfterCr
<1>6. AfterCr \in {0, 1}
  BY DEF AfterCr
<1>7. bufindex' \in Nat /\ consumed' \in Seq(Nat)
  <2>1. CASE arrived > received /\ bufindex' = AfterCr /\ Consume(rd.chunk \o Bytes(buf', 0, AfterCr))
    <3>1. PICK b, n : b = buf' /\ n = AfterCr
      OBVIOUS
    <3>2. n \in Nat /\ \A i \in 0..n-1 : b[i] \in Nat
      <4>1. n \in {0, 1} /\ n <= a
        BY <1>4, <1>6, <2>1, <3>1
      <4>2. received \in Nat /\ InSize \in Nat
        BY TypeFacts
      <4>3. ASSUME NEW i \in 0..n-1 PROVE b[i] \in Nat
        <5>1. i \in 0..InSize-1 /\ i < a /\ i \in Nat
          BY <1>4, <4>1, <4>2
        <5>2. b[i] = received + i + 1
          BY <1>5, <3>1, <5>1
        <5> QED  BY <4>2, <5>1, <5>2
      <4> QED  BY <4>1, <4>3
    <3>3. Bytes(b, 0, n) \in Seq(Nat)
      BY <3>2, Pieces
    <3>4. Bytes(buf', 0, AfterCr) \in Seq(Nat)
      BY <3>1, <3>3
    <3> QED  BY <1>1, <1>6, <2>1, <3>4, TypeFacts, Joins DEF Consume
  <2>2. CASE bufindex' = 1 /\ Consume(rd.chunk)
    BY <1>1, <2>2, TypeFacts, Joins DEF Consume
  <2> QED  BY <2>1, <2>2 DEF RecvAfterCr
<1>8. InputTypes'
  <2>1. ASSUME NEW i \in 0..InSize-1
        PROVE  (IF i < a THEN received + i + 1 ELSE buf[i]) \in 0..Len(Kind)
    BY <1>4, TypeFacts
  <2>2. buf' \in [0..InSize-1 -> 0..Len(Kind)]
    BY <1>5, <2>1
  <2>3. received' \in 0..arrived /\ buflen' \in 0..InSize
    BY <1>4, <1>5, TypeFacts
  <2> QED  BY <1>2, <1>7, <2>2, <2>3 DEF InputTypes
<1>9. rd' = NoCall /\ UNCHANGED <<portUse, arrived, peerClosed, outVars, wr, closeVars, failed>>
  BY DEF RecvAfterCr
<1> QED  BY <1>7, <1>8, <1>9, TypeFacts, ReadKeepsTypes

\* Every step of the reader keeps the types.
LEMMA ReaderTypes ==
    ASSUME TypeInv, SoundUse(portUse), Reader
    PROVE  TypeInv'
<1>0. OutSize = 0 /\ (rd = NoCall \/ rd \in ReadCall)
  BY ReadersReadOnly
<1>1. ASSUME NEW op \in portUse.readOps, BeginRead(op) PROVE TypeInv'
  BY <1>0, <1>1, BeginReadTypes
<1>2. CASE NeedsInput
  <2>1. rd' \in ReadCall
    BY <1>2, TypeFacts, ReadMoves DEF NeedsInput
  <2> QED  BY <1>0, <1>2, <2>1, CallTypes, TypeFacts DEF NeedsInput, ghosts
<1>3. CASE Recv
  <2>1. rd' \in ReadCall
    BY <1>3, TypeFacts DEF Recv, ReadCall
  <2> QED  BY <1>0, <1>3, <2>1, RecvTypes, TypeFacts DEF Recv, ghosts
<1>4. CASE RecvEnd
  BY <1>0, <1>4, RecvTypes, TypeFacts DEF RecvEnd
<1>5. CASE ReadTimeout
  BY <1>0, <1>5, CallTypes DEF ReadTimeout
<1>6. CASE ReadChar
  <2>1. rd \in ReadCall
    BY <1>6, TypeFacts DEF ReadChar, Reading
  <2>2. rd' \in {NoCall} \cup ReadCall
    <3>1. buf[bufindex] \in Nat
      BY <1>6, TypeFacts DEF ReadChar
    <3>2. Extra(buf[bufindex]) \in {0, 1}
      BY <3>1, UseTypes, TypeFacts
    <3>3. Extra(buf[bufindex]) \in Int /\ rd.need - 1 \in Int /\ rd.got + 1 \in Nat
      BY <2>1, <3>2, ReadFields
    <3> QED  BY <1>6, <2>1, <3>3 DEF ReadChar, ReadCall
  <2>3. <<buf[bufindex]>> \in Seq(Nat) /\ bufindex' \in Nat
    BY <1>6, TypeFacts DEF ReadChar
  <2> QED  BY <1>0, <1>6, <2>2, <2>3, TakeTypes DEF ReadChar
<1>7. CASE ReadBytes
  <2>1. rd \in ReadCall /\ bufindex < buflen /\ rd.left \in Nat
    BY <1>7, TypeFacts, ReadFields DEF ReadBytes, Reading
  <2>2. PICK n : n = Least(rd.left, buflen - bufindex)
    OBVIOUS
  <2>3. n \in Nat /\ n <= rd.left /\ n <= buflen - bufindex
    BY <2>1, <2>2, TypeFacts DEF Least
  <2>4. bufindex + n \in Nat /\ bufindex <= bufindex + n /\ bufindex + n <= buflen
    BY <2>3, TypeFacts
  <2>5. Bytes(buf, bufindex, bufindex + n) \in Seq(Nat)
    BY <2>4, TypeFacts, LineBytes
  <2>6. rd' \in {NoCall} \cup ReadCall
    BY <1>7, <2>1, <2>2, <2>3 DEF ReadBytes, ReadCall
  <2> QED  BY <1>0, <1>7, <2>2, <2>4, <2>5, <2>6, TakeTypes DEF ReadBytes
<1>8. CASE PeekChar
  <2>1. InputTypes' /\ UNCHANGED <<arrived, peerClosed>>
    <3>1. CASE UNCHANGED <<inVars, bufindex>>
      BY <1>8, <3>1, TypeFacts DEF PeekChar, inVars, InputTypes, InSize, Kind
    <3>2. CASE ~UNCHANGED <<inVars, bufindex>>
      <4>1. PICK rest, moved : /\ rest = buflen - bufindex
                               /\ moved = [i \in DOMAIN buf |-> IF i < rest THEN buf[bufindex + i] ELSE buf[i]]
        OBVIOUS
      <4>2. Received(moved, rest)
        BY <1>8, <3>2, <4>1 DEF PeekChar
      <4>3. bufindex < buflen /\ rest \in 0..InSize
        BY <1>8, <4>1, TypeFacts DEF PeekChar
      <4>4. moved \in [0..InSize-1 -> 0..Len(Kind)]
        <5>1. DOMAIN buf = 0..InSize-1
          BY TypeFacts DEF InputTypes
        <5>2. ASSUME NEW i \in 0..InSize-1, i < rest PROVE buf[bufindex + i] \in 0..Len(Kind)
          BY <4>1, <4>3, <5>2, TypeFacts
        <5>3. ASSUME NEW i \in 0..InSize-1 PROVE buf[i] \in 0..Len(Kind)
          BY TypeFacts
        <5> QED  BY <4>1, <5>1, <5>2, <5>3
      <4> QED  BY <1>8, <4>2, <4>3, <4>4, ReceivedTypes DEF PeekChar
    <3> QED  BY <3>1, <3>2
  <2> QED  BY <1>0, <1>8, <2>1, TypeFacts, ReadKeepsTypes DEF PeekChar
<1>9. CASE ReadBuffered
  <2>1. PICK bytes : bytes = [i \in 1..buflen |-> IF bufindex + i - 1 < InSize
                                                THEN buf[bufindex + i - 1] ELSE 0]
    OBVIOUS
  <2>2. ASSUME NEW i \in 1..buflen
        PROVE  (IF bufindex + i - 1 < InSize THEN buf[bufindex + i - 1] ELSE 0) \in Nat
    <3>1. bufindex + i - 1 \in Nat
      BY TypeFacts
    <3> QED  BY <3>1, TypeFacts
  <2>3. bytes \in [1..buflen -> Nat] /\ buflen \in Nat
    BY <2>1, <2>2, TypeFacts
  <2>4. bytes \in Seq(Nat)
    BY <2>3
  <2> QED  BY <1>0, <1>9, <2>1, <2>4, TakeTypes, TypeFacts DEF ReadBuffered
<1>10. CASE CharReady
  BY <1>0, <1>10, CallTypes, TypeFacts DEF CharReady
<1>11. CASE LineEnds
  <2>1. PICK next \in Nat : next <= Seen /\ bufindex <= next /\ LineDone(next)
    BY <1>11, LineStops, TypeFacts, SMTT(30)
  <2> QED  BY <1>0, <1>11, <2>1, LineStops, LineDoneTypes, TypeFacts
<1>12. CASE LineLimit
  <2>1. rd \in ReadCall /\ bufindex < buflen /\ LineDone(Seen)
    BY <1>12, TypeFacts DEF LineLimit, Reading
  <2>2. Seen \in Nat /\ bufindex <= Seen /\ Seen <= buflen
    BY <2>1, Scans, TypeFacts
  <2> QED  BY <1>0, <2>1, <2>2, LineDoneTypes
<1>13. CASE LineMore
  BY <1>0, <1>13, LineMoreTypes
<1>14. CASE RecvMore
  <2>1. rd \in ReadCall /\ rd.chunk \in Seq(Nat)
    BY <1>14, TypeFacts, ReadFields DEF RecvMore
  <2>2. consumed' \in Seq(Nat)
    BY <1>14, <2>1, TypeFacts, Joins DEF RecvMore, Consume
  <2>3. rd' \in {NoCall} \cup ReadCall
    <3>1. rd' = [rd EXCEPT !.at = "test"] \/ rd' = NoCall
      BY <1>14 DEF RecvMore
    <3>2. [rd EXCEPT !.at = "test"] \in ReadCall
      BY <2>1, ReadMoves
    <3> QED  BY <3>1, <3>2
  <2>4. Received(buf, 0) /\ UNCHANGED <<portUse, outVars, wr, closeVars, failed>>
    BY <1>14 DEF RecvMore
  <2>5. failed' \in BOOLEAN
    BY <2>4, TypeFacts
  <2> QED  BY <1>0, <2>2, <2>3, <2>4, <2>5, RecvTypes
<1>15. CASE RecvAfterCr
  BY <1>0, <1>15, RecvAfterCrTypes
<1> QED
  BY <1>1, <1>2, <1>3, <1>4, <1>5, <1>6, <1>7, <1>8, <1>9, <1>10, <1>11, <1>12, <1>13, <1>14, <1>15 DEF Reader

\* The fields of the calls that write.
LEMMA WriteFields ==
    /\ \A w \in SendCall :
           /\ w.at = "send" /\ w.msg \in Seq(Nat) /\ w.off \in Nat /\ w.len \in Nat
           /\ w.then \in {"return", "add", "flush", "close"} /\ w.rest \in Seq(0..portUse.maxOut)
    /\ \A w \in AddCall : w.at = "add" /\ w.rest \in Seq(0..portUse.maxOut)
    /\ NoCall.at = "idle"
BY DEF SendCall, AddCall, NoCall

\* A call of output-to-socket.
LEMMA SendIsCall ==
    ASSUME portUse' = portUse, NEW msg \in Seq(Nat), NEW len \in Nat,
           NEW then \in {"return", "add", "flush", "close"}, NEW rest \in Seq(0..portUse.maxOut),
           Send(msg, len, then, rest)
    PROVE  /\ wr' \in SendCall'
           /\ wr'.at = "send" /\ wr'.msg = msg /\ wr'.off = 0 /\ wr'.len = len /\ wr'.then = then
           /\ wr'.rest = rest
BY DEF Send, SendCall

\* What a call of the writer holds at each of its places.
LEMMA WriterFacts ==
    ASSUME TypeInv
    PROVE  /\ wr.at = "idle" => wr = NoCall
           /\ wr.at = "add" => wr \in AddCall /\ OutSize > 0
           /\ wr.at = "send" =>
                  /\ wr \in SendCall /\ wr.off <= wr.len
                  /\ IF wr.then = "return" THEN OutSize = 0 /\ wr.len = Len(wr.msg)
                                           ELSE OutSize > 0 /\ wr.len <= OutSize
           /\ portUse \in PortUses
           /\ OutSize \in Nat /\ bufindex \in Nat /\ (OutSize > 0 => bufindex <= OutSize)
           /\ written \in Nat /\ written <= portUse.maxOut /\ flushed \in Nat /\ flushed <= written
           /\ sent \in Seq(Nat) /\ Len(sent) \in Nat /\ portUse.maxOut \in Nat
           /\ outbuf \in [0..OutSize-1 -> 0..portUse.maxOut]
           /\ failed \in BOOLEAN /\ iclosed \in BOOLEAN /\ oclosed \in BOOLEAN
           /\ socket \in {"open", "shut", "closed"}
           /\ WriteTypes
<1>1. portUse \in PortUses
  BY DEF TypeInv, PortsTypeOK
<1>2. OutSize \in Nat /\ portUse.maxOut \in Nat
  BY <1>1, UseTypes
<1>3. /\ wr.at = "idle" => wr = NoCall
      /\ wr.at = "add" => wr \in AddCall /\ OutSize > 0
      /\ wr.at = "send" => wr \in SendCall
  BY WriteFields DEF TypeInv
<1>4. /\ bufindex \in Nat /\ (OutSize > 0 => bufindex <= OutSize)
      /\ written \in 0..portUse.maxOut /\ flushed \in 0..written
      /\ sent \in Seq(Nat)
      /\ outbuf \in [0..OutSize-1 -> 0..portUse.maxOut]
      /\ failed \in BOOLEAN /\ iclosed \in BOOLEAN /\ oclosed \in BOOLEAN
      /\ socket \in {"open", "shut", "closed"}
  BY DEF TypeInv, PortsTypeOK
<1>5. WriteTypes
  BY <1>4 DEF TypeInv, WriteTypes
<1> QED  BY <1>1, <1>2, <1>3, <1>4, <1>5 DEF TypeInv

\* What add-to-buf copies.
LEMMA Added ==
    ASSUME TypeInv, wr.at = "add", NEW n \in Nat, n <= Len(wr.rest), bufindex + n <= OutSize
    PROVE  /\ Outbuf(n) \in [0..OutSize-1 -> 0..portUse.maxOut]
           /\ \A i \in 0..OutSize-1 :
                  Outbuf(n)[i] = IF bufindex <= i /\ i < bufindex + n THEN wr.rest[i - bufindex + 1]
                                                                     ELSE outbuf[i]
<1>1. /\ wr.rest \in Seq(0..portUse.maxOut) /\ bufindex \in Nat /\ OutSize \in Nat
      /\ outbuf \in [0..OutSize-1 -> 0..portUse.maxOut] /\ portUse.maxOut \in Nat
  BY WriterFacts, WriteFields
<1>2. ASSUME NEW i \in 0..OutSize-1, bufindex <= i, i < bufindex + n
      PROVE  wr.rest[i - bufindex + 1] \in 0..portUse.maxOut
  <2>1. i - bufindex + 1 \in 1..Len(wr.rest)
    BY <1>1, <1>2
  <2> QED  BY <1>1, <2>1, ElementOfSeq
<1>3. DOMAIN outbuf = 0..OutSize-1
  BY <1>1
<1> QED  BY <1>1, <1>2, <1>3 DEF Outbuf

\* A part of the message being sent, byte by byte.
LEMMA MessageTypes ==
    ASSUME TypeInv, wr.at = "send", NEW m \in Nat, NEW n \in Nat, m + n <= wr.len
    PROVE  /\ SubSeq(Message, m + 1, m + n) \in Seq(Nat) /\ Len(SubSeq(Message, m + 1, m + n)) = n
           /\ \A i \in 1..n : SubSeq(Message, m + 1, m + n)[i]
                  = IF wr.then = "return" THEN wr.msg[m + i] ELSE outbuf[m + i - 1]
<1>1. PICK s : s = Message
  OBVIOUS
<1>2. s \in Seq(Nat) /\ m + n <= Len(s)
      /\ \A i \in 1..wr.len : s[i] = IF wr.then = "return" THEN wr.msg[i] ELSE outbuf[i - 1]
  <2>1. CASE wr.then = "return"
    BY <1>1, <2>1, WriterFacts, WriteFields DEF Message
  <2>2. CASE wr.then # "return"
    <3>1. /\ OutSize \in Nat /\ wr.len <= OutSize /\ wr.len \in Nat
          /\ outbuf \in [0..OutSize-1 -> 0..portUse.maxOut] /\ portUse.maxOut \in Nat
      BY <2>2, WriterFacts, WriteFields
    <3>2. s = [i \in 1..OutSize |-> outbuf[i - 1]]
      BY <1>1, <2>2 DEF Message
    <3>3. ASSUME NEW i \in 1..OutSize PROVE outbuf[i - 1] \in Nat
      <4>1. i - 1 \in 0..OutSize-1
        BY <3>1
      <4> QED  BY <3>1, <4>1
    <3>4. s \in [1..OutSize -> Nat]
      BY <3>2, <3>3
    <3>5. s \in Seq(Nat) /\ Len(s) = OutSize
      BY <3>1, <3>4
    <3> QED  BY <2>2, <3>1, <3>2, <3>5
  <2> QED  BY <2>1, <2>2
<1>3. \A i \in m+1..m+n : s[i] \in Nat
  BY <1>2
<1>4. /\ SubSeq(s, m + 1, m + n) \in Seq(Nat)
      /\ Len(SubSeq(s, m + 1, m + n)) = IF m + 1 <= m + n THEN (m + n) - (m + 1) + 1 ELSE 0
      /\ \A i \in 1..(m + n) - (m + 1) + 1 : SubSeq(s, m + 1, m + n)[i] = s[(m + 1) + i - 1]
  BY <1>3, SubSeqProperties
<1>5. Len(SubSeq(s, m + 1, m + n)) = n
  BY <1>4
<1>6. ASSUME NEW i \in 1..n
      PROVE  SubSeq(s, m + 1, m + n)[i] = IF wr.then = "return" THEN wr.msg[m + i] ELSE outbuf[m + i - 1]
  <2>1. SubSeq(s, m + 1, m + n)[i] = s[(m + 1) + i - 1]
    BY <1>4
  <2>2. (m + 1) + i - 1 = m + i /\ m + i \in 1..wr.len
    <3>1. wr.len \in Nat
      BY WriterFacts, WriteFields
    <3> QED  BY <3>1
  <2> QED  BY <1>2, <2>1, <2>2
<1> QED  BY <1>1, <1>4, <1>5, <1>6

\* The bytes that Write hands to the port.
LEMMA NewBytes ==
    ASSUME TypeInv, NEW n \in 1..Least(portUse.maxWrite, portUse.maxOut - written),
           NEW from \in portUse.writeFrom
    PROVE  /\ n \in Nat /\ written + n \in Nat /\ written + n <= portUse.maxOut
           /\ Handed(n, from) \in Seq(0..portUse.maxOut) /\ Handed(n, from) \in Seq(Nat)
           /\ Len(Handed(n, from)) = n /\ DOMAIN Handed(n, from) = 1..n
           /\ \A i \in 1..n : Byte(Handed(n, from)[i], written + i)
<1>1. portUse.maxWrite \in Nat /\ portUse.maxOut \in Nat /\ written \in Nat /\ from \in Nat
  BY WriterFacts, UseTypes
<1>2. n \in Nat /\ written + n <= portUse.maxOut
  BY <1>1 DEF Least
<1>3. PICK w, new, S : /\ w = written /\ S = 0..portUse.maxOut
                       /\ new = [i \in 1..n |-> IF i <= from THEN 0 ELSE w + i - from]
  OBVIOUS
<1>4. ASSUME NEW i \in 1..n PROVE (IF i <= from THEN 0 ELSE w + i - from) \in S
  BY <1>1, <1>2, <1>3
<1>5. n \in Nat /\ new \in [1..n -> S]
  BY <1>2, <1>3, <1>4
<1>6. new \in Seq(S) /\ Len(new) = n /\ DOMAIN new = 1..n
  BY <1>5, SeqOf
<1>7. new \in Seq(Nat)
  BY <1>1, <1>3, <1>6
<1>8. new = Handed(n, from)
  BY <1>3 DEF Handed
<1>9. ASSUME NEW i \in 1..n PROVE Byte(Handed(n, from)[i], written + i)
  <2>1. SUFFICES ASSUME WritesWhole PROVE new[i] = w + i
    BY <1>3, <1>8 DEF Byte
  <2>2. from = 0
    BY <2>1 DEF WritesWhole
  <2> QED  BY <1>1, <1>3, <2>2
<1>10. Handed(n, from) \in Seq(0..portUse.maxOut)
  BY <1>3, <1>6, <1>8
<1>11. Handed(n, from) \in Seq(Nat) /\ Len(Handed(n, from)) = n /\ DOMAIN Handed(n, from) = 1..n
  BY <1>6, <1>7, <1>8
<1>12. written + n \in Nat
  BY <1>1, <1>2
<1> QED  BY <1>2, <1>9, <1>10, <1>11, <1>12

\* Every step of the writer keeps the types.
LEMMA WriterTypes ==
    ASSUME TypeInv, Writer
    PROVE  TypeInv'
<1>0. \/ wr.at # "send" \/ wr.off < wr.len \/ wr.off = wr.len
  BY WriterFacts, WriteFields
<1>1. CASE Write
  <2>1. PICK n \in 1..Least(portUse.maxWrite, portUse.maxOut - written),
             from \in portUse.writeFrom :
             /\ written' = written + n
             /\ IF OutSize = 0
                THEN Send(Handed(n, from), n, "return", <<>>)
                ELSE wr' = [at |-> "add", rest |-> Handed(n, from)]
    BY <1>1 DEF Write
  <2>2. PICK new : new = Handed(n, from)
    OBVIOUS
  <2>3. /\ n \in Nat /\ written' \in 0..portUse.maxOut /\ new \in Seq(0..portUse.maxOut)
        /\ new \in Seq(Nat) /\ Len(new) = n /\ <<>> \in Seq(0..portUse.maxOut)
    <3>1. n \in Nat /\ written + n \in Nat /\ written + n <= portUse.maxOut
      BY NewBytes
    <3>2. new \in Seq(0..portUse.maxOut) /\ new \in Seq(Nat) /\ Len(new) = n
      BY <2>2, NewBytes
    <3> QED  BY <2>1, <3>1, <3>2
  <2>4. UNCHANGED <<portUse, OutVars, bufindex, outbuf, sent, flushed, oclosed, socket, failed, OutSize>>
    BY <1>1 DEF Write, OutSize
  <2>5. /\ wr' \in {NoCall} \cup (AddCall \cup SendCall)'
        /\ (wr.at = "add" => OutSize > 0)'
        /\ (wr.at = "send" => wr.off <= wr.len /\ wr.then = "return" /\ OutSize = 0 /\ wr.len = Len(wr.msg))'
    <3>1. CASE OutSize = 0
      <4>1. Send(new, n, "return", <<>>)
        BY <2>1, <2>2, <3>1
      <4>2. /\ wr' \in SendCall' /\ wr'.at = "send" /\ wr'.msg = new /\ wr'.off = 0 /\ wr'.len = n
            /\ wr'.then = "return"
        BY <2>3, <2>4, <4>1, SendIsCall
      <4> QED  BY <2>3, <2>4, <3>1, <4>2
    <3>2. CASE OutSize # 0
      <4>1. wr' = [at |-> "add", rest |-> new]
        BY <2>1, <2>2, <3>2
      <4>2. wr' \in AddCall' /\ wr'.at = "add"
        BY <2>3, <2>4, <4>1 DEF AddCall
      <4>3. OutSize > 0
        BY <3>2, WriterFacts
      <4> QED  BY <2>4, <4>2, <4>3
    <3> QED  BY <3>1, <3>2
  <2>6. flushed' \in 0..written'
    BY <2>1, <2>3, <2>4, WriterFacts
  <2>7. WriteTypes'
    BY <2>3, <2>4, <2>5, <2>6, WriterFacts DEF WriteTypes
  <2> QED  BY <2>4, <2>7, WriterFacts, WriteKeepsTypes DEF OutVars
<1>2. CASE AddAll
  <2>1. wr \in AddCall /\ wr.rest \in Seq(0..portUse.maxOut) /\ bufindex + Len(wr.rest) <= OutSize
    BY <1>2, WriterFacts, WriteFields DEF AddAll, Fits
  <2>2. /\ outbuf' \in [0..OutSize-1 -> 0..portUse.maxOut] /\ bufindex' \in Nat /\ bufindex' <= OutSize
        /\ wr' = NoCall /\ wr'.at = "idle"
    <3>1. PICK n : n = Len(wr.rest)
      OBVIOUS
    <3>2. n \in Nat /\ n <= Len(wr.rest) /\ bufindex + n <= OutSize /\ bufindex \in Nat
      BY <2>1, <3>1, WriterFacts
    <3>3. Outbuf(n) \in [0..OutSize-1 -> 0..portUse.maxOut]
      BY <1>2, <3>2, Added DEF AddAll
    <3> QED  BY <1>2, <3>1, <3>2, <3>3, WriteFields DEF AddAll
  <2>3. UNCHANGED <<portUse, OutVars, sent, written, flushed, oclosed, socket, failed, OutSize>>
    BY <1>2 DEF AddAll, OutSize
  <2>4. WriteTypes'
    BY <2>2, <2>3, WriterFacts DEF WriteTypes
  <2> QED  BY <2>3, <2>4, WriterFacts, WriteKeepsTypes DEF OutVars
<1>3. CASE AddPart
  <2>1. /\ wr \in AddCall /\ wr.rest \in Seq(0..portUse.maxOut) /\ bufindex + Len(wr.rest) > OutSize
        /\ OutSize > 0 /\ OutSize \in Nat /\ bufindex \in Nat /\ bufindex <= OutSize
    BY <1>3, WriterFacts, WriteFields DEF AddPart, Fits
  <2>2. PICK n, rest : n = OutSize - bufindex /\ rest = SubSeq(wr.rest, OutSize - bufindex + 1, Len(wr.rest))
    OBVIOUS
  <2>3. n \in Nat /\ n <= Len(wr.rest) /\ bufindex + n <= OutSize
    BY <2>1, <2>2
  <2>4. rest \in Seq(0..portUse.maxOut)
    <3>1. PICK r, l : r = wr.rest /\ l = Len(wr.rest)
      OBVIOUS
    <3>2. n \in Nat /\ l \in Nat /\ r \in Seq(0..portUse.maxOut) /\ l = Len(r)
      BY <2>1, <2>3, <3>1
    <3>3. ASSUME NEW i \in n+1..l PROVE r[i] \in 0..portUse.maxOut
      <4>1. i \in 1..Len(r)
        BY <3>2
      <4> QED  BY <3>2, <4>1, ElementOfSeq
    <3>4. SubSeq(r, n + 1, l) \in Seq(0..portUse.maxOut)
      BY <3>2, <3>3, SubSeqProperties
    <3> QED  BY <2>2, <3>1, <3>4
  <2>5. outbuf' \in [0..OutSize-1 -> 0..portUse.maxOut]
    BY <1>3, <2>2, <2>3, Added DEF AddPart
  <2>6. UNCHANGED <<portUse, OutVars, bufindex, sent, written, flushed, oclosed, socket, failed, OutSize>>
    BY <1>3 DEF AddPart, OutSize
  <2>7. PICK size : size = OutSize
    OBVIOUS
  <2>8. Send(<<>>, size, "add", rest) /\ size \in Nat /\ <<>> \in Seq(Nat)
    BY <1>3, <2>1, <2>2, <2>7 DEF AddPart
  <2>9. /\ wr' \in SendCall' /\ wr'.at = "send" /\ wr'.off = 0 /\ wr'.len = size /\ wr'.then = "add"
    BY <2>4, <2>6, <2>8, SendIsCall
  <2>10. WriteTypes'
    BY <2>1, <2>5, <2>6, <2>7, <2>9, WriterFacts DEF WriteTypes
  <2> QED  BY <2>6, <2>10, WriterFacts, WriteKeepsTypes DEF OutVars
<1>4. CASE SendSome
  <2>1. wr \in SendCall /\ wr.at = "send" /\ wr.off \in Nat /\ wr.len \in Nat /\ ChunkSize \in Nat
    BY <1>4, WriterFacts, WriteFields, UseTypes DEF SendSome
  <2>2. PICK n \in 1..Least(ChunkSize, wr.len - wr.off) :
             sent' = sent \o SubSeq(Message, wr.off + 1, wr.off + n) /\ wr' = Advance(n)
    BY <1>4 DEF SendSome
  <2>3. n \in Nat /\ wr.off + n <= wr.len
    <3>1. PICK c, d, l : c = ChunkSize /\ d = wr.len - wr.off /\ l = Least(c, d)
      OBVIOUS
    <3>2. c \in Int /\ d \in Int
      BY <2>1, <3>1
    <3>3. l \in Int /\ l <= d
      BY <3>1, <3>2, Leasts
    <3>4. n \in 1..l
      BY <2>2, <3>1
    <3>5. n \in Nat /\ n <= d
      BY <3>2, <3>3, <3>4
    <3> QED  BY <2>1, <3>1, <3>5
  <2>4. PICK m : m = wr.off
    OBVIOUS
  <2>5. PICK bytes : bytes = SubSeq(Message, m + 1, m + n)
    OBVIOUS
  <2>6. bytes \in Seq(Nat)
    BY <2>1, <2>3, <2>4, <2>5, MessageTypes
  <2>7. sent' \in Seq(Nat)
    BY <2>2, <2>4, <2>5, <2>6, WriterFacts
  <2>8. UNCHANGED <<portUse, OutVars, bufindex, outbuf, written, flushed, oclosed, socket, failed, OutSize>>
    BY <1>4 DEF SendSome, OutSize
  <2>9. /\ wr' \in SendCall' /\ wr'.at = "send" /\ wr'.off = wr.off + n /\ wr'.len = wr.len
        /\ wr'.then = wr.then /\ wr'.msg = wr.msg
    <3>1. wr.off + n \in Nat
      BY <2>1, <2>3
    <3> QED  BY <2>1, <2>2, <2>8, <3>1 DEF Advance, SendCall
  <2>10. WriteTypes'
    BY <2>1, <2>3, <2>7, <2>8, <2>9, WriterFacts DEF WriteTypes
  <2> QED  BY <2>8, <2>10, WriterFacts, WriteKeepsTypes DEF OutVars
<1>5. CASE WriteFails
  <2>1. UNCHANGED <<portUse, OutVars, bufindex, outVars, oclosed, socket, OutSize>> /\ wr' = NoCall /\ failed' = TRUE
    BY <1>5 DEF WriteFails, OutSize
  <2>2. WriteTypes'
    BY <2>1, WriterFacts, WriteFields DEF WriteTypes, outVars
  <2> QED  BY <2>1, <2>2, WriterFacts, WriteKeepsTypes DEF OutVars
<1>6. CASE Sent
  <2>1. wr \in SendCall /\ wr.at = "send" /\ wr.rest \in Seq(0..portUse.maxOut)
        /\ IF wr.then = "return" THEN OutSize = 0 ELSE OutSize > 0
    BY <1>6, WriterFacts, WriteFields DEF Sent
  <2>2. UNCHANGED <<portUse, OutVars, outbuf, sent, written, oclosed, socket, failed, OutSize>>
    BY <1>6 DEF Sent, OutSize
  <2>3. bufindex' \in Nat /\ (OutSize > 0 => bufindex' <= OutSize)
    BY <1>6, <2>1, WriterFacts DEF Sent, Emptied
  <2>4. flushed' \in 0..written
    BY <1>6, WriterFacts DEF Sent
  <2>5. CASE wr.then = "add"
    <3>1. wr' = [at |-> "add", rest |-> wr.rest]
      BY <1>6, <2>5 DEF Sent
    <3>2. wr' \in AddCall' /\ wr'.at = "add"
      BY <2>1, <2>2, <3>1 DEF AddCall
    <3>3. WriteTypes'
      BY <2>1, <2>2, <2>3, <2>4, <2>5, <3>2, WriterFacts DEF WriteTypes
    <3> QED  BY <2>2, <3>3, WriterFacts, WriteKeepsTypes DEF OutVars
  <2>6. CASE wr.then # "add"
    <3>1. wr' = NoCall
      BY <1>6, <2>6 DEF Sent
    <3>2. WriteTypes'
      BY <2>2, <2>3, <2>4, <3>1, WriterFacts, WriteFields DEF WriteTypes
    <3> QED  BY <2>2, <3>2, WriterFacts, WriteKeepsTypes DEF OutVars
  <2> QED  BY <2>5, <2>6
<1>7. ASSUME NEW then \in {"flush", "close"}, Send(<<>>, bufindex, then, <<>>), OutSize > 0,
             UNCHANGED <<portUse, OutVars, bufindex, outVars, failed>>,
             oclosed' \in BOOLEAN, socket' = socket
      PROVE  TypeInv'
  <2>1. PICK len : len = bufindex
    OBVIOUS
  <2>2. len \in Nat /\ len <= OutSize /\ <<>> \in Seq(Nat) /\ <<>> \in Seq(0..portUse.maxOut)
    BY <1>7, <2>1, WriterFacts
  <2>3. Send(<<>>, len, then, <<>>) /\ then \in {"return", "add", "flush", "close"}
    BY <1>7, <2>1
  <2>4. wr' \in SendCall' /\ wr'.at = "send" /\ wr'.off = 0 /\ wr'.len = len /\ wr'.then = then
    BY <1>7, <2>2, <2>3, SendIsCall
  <2>5. OutSize' = OutSize
    BY <1>7 DEF OutSize
  <2>6. WriteTypes'
    BY <1>7, <2>2, <2>4, <2>5, WriterFacts DEF WriteTypes, outVars
  <2> QED  BY <1>7, <2>6, WriterFacts, WriteKeepsTypes DEF OutVars
<1>8. CASE Flush
  BY <1>7, <1>8, WriterFacts DEF Flush
<1>9. ASSUME UNCHANGED <<portUse, OutVars, outVars, failed>>, wr' = wr \/ wr' = NoCall,
             oclosed' \in BOOLEAN, socket' \in {"open", "shut", "closed"},
             bufindex' = bufindex \/ bufindex' = 0
      PROVE  TypeInv'
  <2>1. OutSize' = OutSize
    BY <1>9 DEF OutSize
  <2>2. bufindex' \in Nat /\ (OutSize > 0 => bufindex' <= OutSize)
    BY <1>9, WriterFacts
  <2>3. CASE wr' = wr
    <3>1. WriteTypes'
      BY <1>9, <2>1, <2>2, <2>3, WriterFacts DEF WriteTypes, outVars, AddCall, SendCall
    <3> QED  BY <1>9, <3>1, WriterFacts, WriteKeepsTypes DEF OutVars
  <2>4. CASE wr' = NoCall
    <3>1. WriteTypes'
      BY <1>9, <2>1, <2>2, <2>4, WriterFacts, WriteFields DEF WriteTypes, outVars
    <3> QED  BY <1>9, <3>1, WriterFacts, WriteKeepsTypes DEF OutVars
  <2> QED  BY <1>9, <2>3, <2>4
<1>10. CASE CloseOutput
  <2>1. CASE OutSize > 0 /\ bufindex > 0
    BY <1>7, <1>10, <2>1 DEF CloseOutput
  <2>2. CASE ~(OutSize > 0 /\ bufindex > 0)
    BY <1>9, <1>10, <2>2 DEF CloseOutput, ShutOutput
  <2> QED  BY <2>1, <2>2
<1>11. CASE ClosedOutput
  BY <1>9, <1>11, WriterFacts DEF ClosedOutput, ShutOutput, Emptied
<1> QED  BY <1>1, <1>2, <1>3, <1>4, <1>5, <1>6, <1>8, <1>10, <1>11 DEF Writer

\* Steps that move no bytes of the program.
LEMMA OutsideTypes ==
    ASSUME TypeInv, UNCHANGED <<portUse, received, buf, buflen, bufindex, outVars, rd, wr, consumed, oclosed, failed>>,
           arrived' \in arrived..Len(Kind), peerClosed' \in BOOLEAN, iclosed' \in BOOLEAN,
           socket' \in {"open", "shut", "closed"}
    PROVE  TypeInv'
<1>1. UNCHANGED <<Kind, InSize, OutSize, outbuf, sent, written, flushed>>
  BY DEF Kind, InSize, OutSize, outVars
<1>2. arrived' \in 0..Len(Kind) /\ received \in 0..arrived'
  BY TypeFacts
<1>3. PortsTypeOK'
  BY <1>1, <1>2 DEF TypeInv, PortsTypeOK
<1>4. (wr \in {NoCall} \cup AddCall \cup SendCall)'
  BY DEF TypeInv, AddCall, SendCall
<1> QED  BY <1>1, <1>3, <1>4 DEF TypeInv

\* Every step keeps the types.
LEMMA TypesNext ==
    ASSUME TypeInv, SoundUse(portUse), [PortsNext]_portVars
    PROVE  TypeInv'
<1>0. arrived \in arrived..Len(Kind) /\ arrived \in Nat /\ Len(Kind) \in Nat
  BY TypeFacts
<1>1. CASE Reader
  BY <1>1, ReaderTypes
<1>2. CASE Writer
  BY <1>2, WriterTypes
<1>3. CASE CloseInput
  BY <1>0, <1>3, OutsideTypes DEF CloseInput, inVars, ghosts, TypeInv, PortsTypeOK
<1>4. CASE PeerSends
  <2>1. arrived' \in arrived..Len(Kind)
    BY <1>0, <1>4 DEF PeerSends
  <2> QED  BY <1>4, <2>1, OutsideTypes DEF PeerSends, ghosts, closeVars, TypeInv, PortsTypeOK
<1>5. CASE PeerCloses
  BY <1>0, <1>5, OutsideTypes DEF PeerCloses, ghosts, closeVars, TypeInv, PortsTypeOK
<1>6. CASE UNCHANGED portVars
  BY <1>0, <1>6, OutsideTypes DEF portVars, inVars, ghosts, closeVars, TypeInv, PortsTypeOK
<1> QED  BY <1>1, <1>2, <1>3, <1>4, <1>5, <1>6 DEF PortsNext

\* Every use of the ports starts with the types.
LEMMA TypesInit == ASSUME PortsInit PROVE TypeInv
<1>1. InSize \in Nat \ {0} /\ OutSize \in Nat /\ Len(Kind) \in Nat /\ portUse.maxOut \in Nat
  BY UseTypes DEF PortsInit
<1>2. NoCall.at = "idle"
  BY DEF NoCall
<1>3. buf \in [0..InSize-1 -> 0..Len(Kind)] /\ outbuf \in [0..OutSize-1 -> 0..portUse.maxOut]
  BY <1>1 DEF PortsInit
<1>4. PortsTypeOK
  <2>1. /\ portUse \in PortUses /\ arrived = 0 /\ received = 0 /\ peerClosed = FALSE /\ buflen = 0
        /\ bufindex = 0 /\ rd.at = "idle" /\ wr.at = "idle" /\ written = 0 /\ flushed = 0
        /\ iclosed = FALSE /\ oclosed = FALSE /\ failed = FALSE /\ socket = "open"
    BY <1>2 DEF PortsInit
  <2>2. OutSize > 0 => bufindex <= (IF InSize > OutSize THEN InSize ELSE OutSize)
    BY <1>1, <2>1
  <2>3. /\ arrived \in 0..Len(Kind) /\ received \in 0..arrived /\ buflen \in 0..InSize
        /\ bufindex \in Nat /\ written \in 0..portUse.maxOut /\ flushed \in 0..written
    BY <1>1, <2>1
  <2>4. peerClosed \in BOOLEAN /\ {iclosed, oclosed, failed} \subseteq BOOLEAN
    BY <2>1
  <2> QED  BY <1>3, <2>1, <2>2, <2>3, <2>4 DEF PortsTypeOK
<1> QED  BY <1>1, <1>2, <1>4 DEF PortsInit, TypeInv

-----------------------------------------------------------------------------
(***************************************************************************)
(* Input: the program gets the bytes in order, and whole lines.            *)
(***************************************************************************)
LEMMA HeldFacts ==
    ASSUME TypeInv
    PROVE  /\ Held \in Nat /\ (Held = 0 <=> bufindex >= buflen)
           /\ bufindex < buflen => Held = buflen - bufindex
           /\ buflen = 0 => Held = 0
BY TypeFacts DEF Held

\* What is next in the buffer.
LEMMA NextBytes ==
    ASSUME TypeInv, StreamOK
    PROVE  /\ \A i \in bufindex..buflen-1 : buf[i] = Len(consumed) + (i - bufindex) + 1
           /\ Len(consumed) <= received /\ received <= Len(Kind)
<1>1. ASSUME NEW i \in bufindex..buflen-1 PROVE buf[i] = Len(consumed) + (i - bufindex) + 1
  <2>1. i \in 0..buflen-1 /\ bufindex < buflen
    BY TypeFacts
  <2>2. buf[i] = received - buflen + i + 1 /\ Len(consumed) + (buflen - bufindex) = received
    BY <2>1, HeldFacts DEF StreamOK
  <2> QED  BY <2>1, <2>2, TypeFacts, SMTT(30)
<1>2. Len(consumed) <= received
  BY HeldFacts, TypeFacts DEF StreamOK
<1> QED  BY <1>1, <1>2, TypeFacts

\* The program takes the next n bytes of the buffer.
LEMMA Taken ==
    ASSUME TypeInv, StreamOK, NEW n \in Nat, bufindex + n <= buflen,
           NEW bytes \in Seq(Nat), Len(bytes) = n,
           \A i \in 1..n : bytes[i] = buf[bufindex + i - 1],
           Consume(bytes), bufindex' = bufindex + n, UNCHANGED <<received, buf, buflen>>
    PROVE  StreamOK' /\ Len(consumed') = Len(consumed) + n /\ Held' = Held - n
<1>1. \A i \in DOMAIN bytes : bytes[i] = Len(consumed) + i
  <2> TAKE i \in DOMAIN bytes
  <2>1. PICK k : k = bufindex + i - 1
    OBVIOUS
  <2>2. i \in 1..n /\ bufindex \in Nat /\ buflen \in Nat /\ Len(consumed) \in Nat
    BY TypeFacts
  <2>3. k \in bufindex..buflen-1 /\ k - bufindex + 1 = i
    BY <2>1, <2>2
  <2>4. bytes[i] = buf[k]
    BY <2>1, <2>2
  <2>5. buf[k] = Len(consumed) + (k - bufindex) + 1
    BY <2>3, NextBytes
  <2> QED  BY <2>2, <2>3, <2>4, <2>5
<1>2. Numbers(consumed') /\ Len(consumed') = Len(consumed) + n
  BY <1>1, Joins, TypeFacts DEF Consume, StreamOK
<1>3. Held' = Held - n
  <2>1. bufindex \in Nat /\ buflen \in Nat
    BY TypeFacts
  <2>2. Held' = IF bufindex + n < buflen THEN buflen - (bufindex + n) ELSE 0
    BY DEF Held
  <2> QED  BY <2>1, <2>2 DEF Held
<1>4. (Len(consumed) + Held = received)'
  BY <1>2, <1>3, TypeFacts, HeldFacts, SMTT(30) DEF StreamOK
<1> QED  BY <1>2, <1>3, <1>4 DEF StreamOK

\* recv() fills the buffer from its start once all that it held is taken.
LEMMA Refilled ==
    ASSUME TypeInv, StreamOK, Received(buf, 0), portUse' = portUse,
           Numbers(consumed'), Len(consumed') = received
    PROVE  /\ StreamOK' /\ bufindex' = 0 /\ Held' = Available(0) /\ received' = received + Available(0)
           /\ Available(0) \in Nat /\ buflen' = Available(0)
           /\ Available(0) = 0 <=> arrived = received
<1>1. PICK a, b : a = Available(0) /\ b = buf
  OBVIOUS
<1>2. b \in [0..InSize-1 -> 0..Len(Kind)] /\ 0 \in 0..InSize /\ Received(b, 0)
  BY <1>1, TypeFacts DEF InputTypes
<1>3. /\ Available(0) \in Nat /\ received' = received + Available(0)
      /\ buflen' = 0 + Available(0) /\ bufindex' = 0
      /\ \A i \in 0..InSize-1 : buf'[i] = IF 0 <= i /\ i < 0 + Available(0)
                                            THEN received + i - 0 + 1 ELSE b[i]
  <2>1. PICK off : off = 0
    OBVIOUS
  <2>2. off \in 0..InSize /\ Received(b, off)
    BY <1>2, <2>1
  <2> QED  BY <1>2, <2>1, <2>2, ReceivedTypes
<1>4. /\ a \in Nat /\ received' = received + a /\ buflen' = a /\ bufindex' = 0
      /\ \A i \in 0..InSize-1 : i < a => buf'[i] = received + i + 1
  BY <1>1, <1>3
<1>5. a <= InSize /\ (a = 0 <=> arrived = received)
  BY <1>1, TypeFacts DEF Available, Least
<1>6. \A i \in 0..buflen'-1 : buf'[i] = received' - buflen' + i + 1
  <2> TAKE i \in 0..buflen'-1
  <2>1. i \in 0..InSize-1 /\ i < a /\ received \in Nat
    BY <1>4, <1>5, TypeFacts
  <2> QED  BY <1>4, <2>1
<1>7. Held' = a
  BY <1>4 DEF Held
<1>8. StreamOK'
  <2>1. received \in Nat
    BY TypeFacts
  <2>2. buflen' <= received' /\ Len(consumed') + Held' = received'
    BY <1>4, <1>7, <2>1
  <2> QED  BY <1>6, <2>2 DEF StreamOK
<1> QED  BY <1>1, <1>4, <1>5, <1>7, <1>8

\* What was answered stays true.
LEMMA AnswerStays ==
    ASSUME TypeInv, TypeInv', AnswerOK, UNCHANGED <<answer, portUse>>, received <= received',
           ~peerClosed \/ UNCHANGED <<arrived, peerClosed>>
    PROVE  AnswerOK'
<1>1. SUFFICES ASSUME answer.of = "line"
               PROVE  AtLimit(answer)' \/ AtLineEnd(answer)' \/ AtInputEnd(answer)'
  BY DEF AnswerOK
<1>2. /\ answer.from \in Nat \ {0} /\ answer.limit \in Nat
      /\ answer.text \in Nat /\ answer.next \in Nat
      /\ received \in Nat /\ arrived \in Nat /\ received <= arrived
  BY <1>1, TypeFacts DEF AnswerOK
<1>3. received' \in Nat /\ arrived' \in Nat /\ received' <= arrived'
  <2>1. (received \in 0..arrived /\ arrived \in 0..Len(Kind))' /\ Len(Kind)' = Len(Kind)
    BY DEF TypeInv, PortsTypeOK, Kind
  <2>2. Len(Kind) \in Nat
    BY TypeFacts
  <2> QED  BY <2>1, <2>2
<1>4. \A m, n : EndFree(m, n)' <=> EndFree(m, n)
  BY DEF EndFree, Kind
<1>5. CASE AtLimit(answer)
  BY <1>2, <1>3, <1>4, <1>5 DEF AtLimit
<1>6. CASE AtLineEnd(answer)
  BY <1>2, <1>3, <1>4, <1>6 DEF AtLineEnd, Kind
<1>7. CASE AtInputEnd(answer)
  BY <1>2, <1>4, <1>7 DEF AtInputEnd
<1> QED  BY <1>1, <1>5, <1>6, <1>7 DEF AnswerOK

\* Nothing that read-line looks at is changed.
LEMMA LineStays ==
    ASSUME LineOK, UNCHANGED <<portUse, rd, consumed, received>>, Held' = Held
    PROVE  LineOK'
BY DEF LineOK, LineCall, EndFree, Kind

\* Steps that leave stream and buffer alone keep what is held.
LEMMA StreamStays ==
    ASSUME StreamOK, UNCHANGED <<received, buf, buflen, bufindex, consumed>>
    PROVE  StreamOK' /\ Held' = Held
<1>1. Held' = Held
  BY DEF Held
<1> QED  BY <1>1 DEF StreamOK

\* What a call of the reading thread leaves behind.
LEMMA CallsSet ==
    ASSUME UNCHANGED portUse, OutSize = 0,
           rd' = NoCall \/ (rd'.op \in portUse.readOps /\ (rd'.at = "recv" => Held' = 0)),
           "buffered" \in portUse.readOps => bufindex' = 0 \/ bufindex' >= buflen'
    PROVE  CallsOK'
<1>1. OutSize' = 0 /\ ~(OutSize' > 0)
  BY DEF OutSize
<1>2. NoCall.at = "idle"
  BY DEF NoCall
<1> QED  BY <1>1, <1>2 DEF CallsOK

\* Without a call there is no line to speak of.
LEMMA CallEnds ==
    ASSUME rd' = NoCall
    PROVE  LineOK'
<1>1. NoCall.at = "idle"
  BY DEF NoCall
<1> QED  BY <1>1 DEF LineOK

\* A call of the reading thread in progress.
LEMMA CallFacts ==
    ASSUME ReadInv, SoundUse(portUse), rd.at # "idle"
    PROVE  /\ rd \in ReadCall /\ rd # NoCall /\ rd.op \in portUse.readOps
           /\ rd.op # "peek" => "buffered" \notin portUse.readOps
           /\ rd.op = "line" => LineCall
<1>1. rd \in ReadCall
  BY TypeFacts DEF ReadInv
<1>2. rd.op \in portUse.readOps /\ rd.op \in {"char", "peek", "bytes", "line"} /\ rd # NoCall
  BY <1>1, ReadFields DEF ReadInv, CallsOK
<1>3. rd.op # "peek" => "buffered" \notin portUse.readOps
  BY <1>2 DEF SoundUse, TakesAll
<1>4. rd.op = "line" => LineCall
  BY DEF ReadInv, LineOK
<1> QED  BY <1>1, <1>2, <1>3, <1>4

\* Steps of the others.
LEMMA OthersRead ==
    ASSUME ReadInv, TypeInv',
           UNCHANGED <<portUse, received, buf, buflen, rd, consumed, answer>>,
           bufindex' = bufindex \/ OutSize > 0,
           ~peerClosed \/ UNCHANGED <<arrived, peerClosed>>
    PROVE  ReadInv'
<1>1. Held' = Held
  <2>1. CASE bufindex' = bufindex
    BY <2>1 DEF Held
  <2>2. CASE OutSize > 0
    <3>1. buflen = 0 /\ buflen' = 0
      BY <2>2 DEF ReadInv, CallsOK
    <3>2. Held = 0
      BY <3>1, HeldFacts DEF ReadInv
    <3>3. (bufindex \in Nat)'
      BY DEF TypeInv, PortsTypeOK
    <3>4. Held' = 0
      <4>1. Held' = IF bufindex' < buflen' THEN buflen' - bufindex' ELSE 0
        BY DEF Held
      <4>2. ~(bufindex' < 0)
        BY <3>3
      <4> QED  BY <3>1, <4>1, <4>2
    <3> QED  BY <3>2, <3>4
  <2> QED  BY <2>1, <2>2
<1>2. StreamOK'
  BY <1>1 DEF ReadInv, StreamOK
<1>3. CallsOK'
  <2>1. OutSize' = OutSize
    BY DEF OutSize
  <2>2. (bufindex \in Nat)'
    BY DEF TypeInv, PortsTypeOK
  <2>3. bufindex' = bufindex \/ bufindex' >= buflen'
    BY <2>2 DEF ReadInv, CallsOK
  <2> QED  BY <1>1, <2>1, <2>3 DEF ReadInv, CallsOK
<1>4. LineOK'
  BY <1>1, LineStays DEF ReadInv
<1>5. received <= received'
  BY TypeFacts DEF ReadInv
<1>6. AnswerOK'
  BY <1>5, AnswerStays DEF ReadInv
<1>7. PeekIsNext'
  BY DEF ReadInv, PeekIsNext, Kind, Extra
<1> QED  BY <1>2, <1>3, <1>4, <1>6, <1>7 DEF ReadInv

\* A call begins; needs input; gives up.
LEMMA BeginReadInv ==
    ASSUME ReadInv, TypeInv', OutSize = 0, NEW op \in portUse.readOps, BeginRead(op)
    PROVE  ReadInv'
<1>1. PICK n \in IF op = "line" THEN portUse.limits ELSE IF op = "bytes" THEN {2} ELSE {0} :
          rd' = [at |-> "test", op |-> op, need |-> 0, got |-> 0, left |-> n,
                 asked |-> FALSE, chunk |-> <<>>, from |-> Len(consumed) + 1,
                 limit |-> n]
  BY DEF BeginRead
<1>2. /\ rd'.at = "test" /\ rd'.op = op /\ rd'.left = n /\ rd'.limit = n /\ rd'.from = Len(consumed) + 1
      /\ rd' # NoCall /\ rd = NoCall /\ rd.at = "idle"
  BY <1>1 DEF NoCall, BeginRead
<1>3. UNCHANGED <<portUse, arrived, peerClosed, received, buf, buflen, bufindex, consumed, answer>>
  BY DEF BeginRead, inVars, ghosts
<1>4. StreamOK' /\ Held' = Held
  BY <1>3, StreamStays DEF ReadInv
<1>5. "buffered" \in portUse.readOps => bufindex' = 0 \/ bufindex' >= buflen'
  BY <1>3 DEF ReadInv, CallsOK
<1>6. CallsOK'
  BY <1>2, <1>3, <1>5, CallsSet
<1>7. LineOK'
  <2>1. CASE op # "line"
    BY <1>2, <2>1 DEF LineOK
  <2>2. CASE op = "line"
    <3>1. n \in portUse.limits /\ n \in Nat /\ n > 0 /\ Len(consumed) \in Nat
      BY <1>1, <2>2, UseTypes, TypeFacts DEF ReadInv
    <3>2. EndFree(Len(consumed) + 1, Len(consumed))'
      BY <1>3, <3>1 DEF EndFree
    <3>3. LineCall'
      BY <1>2, <1>3, <2>2, <3>1, <3>2 DEF LineCall, EndFree
    <3> QED  BY <1>2, <3>3 DEF LineOK
  <2> QED  BY <2>1, <2>2
<1>8. AnswerOK'
  BY <1>3, AnswerStays, TypeFacts DEF ReadInv
<1>9. PeekIsNext'
  BY <1>2 DEF PeekIsNext
<1> QED  BY <1>4, <1>6, <1>7, <1>8, <1>9 DEF ReadInv

\* A reading procedure finds the buffer empty and waits for input.
LEMMA NeedsInputInv ==
    ASSUME ReadInv, TypeInv', OutSize = 0, SoundUse(portUse), NeedsInput
    PROVE  ReadInv'
<1>1. rd.at = "test" /\ rd \in ReadCall /\ rd.op \in portUse.readOps /\ Held = 0
      /\ (rd.op = "line" => LineCall)
  BY CallFacts, HeldFacts DEF NeedsInput, ReadInv
<1>2. /\ rd'.at = "recv" /\ rd'.op = rd.op /\ rd'.left = rd.left /\ rd'.limit = rd.limit
      /\ rd'.from = rd.from /\ rd' # NoCall
  <2>1. rd' = [rd EXCEPT !.at = "recv"]
    BY DEF NeedsInput
  <2> QED  BY <1>1, <2>1, ReadMoves, ReadFields
<1>3. UNCHANGED <<portUse, arrived, peerClosed, received, buf, buflen, bufindex, consumed, answer>>
  BY DEF NeedsInput, inVars, ghosts
<1>4. StreamOK' /\ Held' = Held
  BY <1>3, StreamStays DEF ReadInv
<1>5. "buffered" \in portUse.readOps => bufindex' = 0 \/ bufindex' >= buflen'
  BY <1>3 DEF ReadInv, CallsOK
<1>6. CallsOK'
  BY <1>1, <1>2, <1>3, <1>4, <1>5, CallsSet
<1>7. LineOK'
  BY <1>1, <1>2, <1>3 DEF LineOK, LineCall, EndFree, Kind
<1>8. AnswerOK'
  BY <1>3, AnswerStays, TypeFacts DEF ReadInv
<1>9. PeekIsNext'
  BY <1>2 DEF PeekIsNext
<1> QED  BY <1>4, <1>6, <1>7, <1>8, <1>9 DEF ReadInv

\* The reading procedure is timed out.
LEMMA ReadTimeoutInv ==
    ASSUME ReadInv, TypeInv', OutSize = 0, ReadTimeout
    PROVE  ReadInv'
<1>1. rd' = NoCall /\ answer' = NoAnswer /\ answer'.of = "none"
  BY DEF ReadTimeout, NoAnswer
<1>2. UNCHANGED <<portUse, received, buf, buflen, bufindex, consumed>>
  BY DEF ReadTimeout, inVars
<1>3. StreamOK'
  BY <1>2, StreamStays DEF ReadInv
<1>4. "buffered" \in portUse.readOps => bufindex' = 0 \/ bufindex' >= buflen'
  BY <1>2 DEF ReadInv, CallsOK
<1> QED  BY <1>1, <1>2, <1>3, <1>4, CallsSet, CallEnds DEF ReadInv, AnswerOK, PeekIsNext

\* recv() delivers bytes, or the end of the input.
LEMMA RecvInv ==
    ASSUME ReadInv, TypeInv', OutSize = 0, SoundUse(portUse), Recv
    PROVE  ReadInv'
<1>1. rd.at = "recv" /\ rd \in ReadCall /\ rd.op \in portUse.readOps /\ Held = 0
      /\ (rd.op = "line" => LineCall)
  BY CallFacts DEF Recv, ReadInv, CallsOK
<1>2. /\ rd'.at = "test" /\ rd'.op = rd.op /\ rd'.left = rd.left /\ rd'.limit = rd.limit
      /\ rd'.from = rd.from /\ rd' # NoCall
  <2>1. rd' = [rd EXCEPT !.at = "test", !.asked = TRUE]
    BY DEF Recv
  <2>2. rd' \in ReadCall /\ rd'.at = "test"
    BY <1>1, <2>1 DEF ReadCall
  <2>3. rd' # NoCall
    BY <2>2 DEF NoCall
  <2> QED  BY <1>1, <2>1, <2>2, <2>3 DEF ReadCall
<1>3. UNCHANGED <<portUse, arrived, peerClosed, consumed, answer>>
  BY DEF Recv, ghosts, Received
<1>4. Numbers(consumed') /\ Len(consumed') = received
  BY <1>1, <1>3, TypeFacts DEF ReadInv, StreamOK
<1>5. StreamOK' /\ bufindex' = 0 /\ received <= received'
  <2>1. Received(buf, 0)
    BY DEF Recv
  <2> QED  BY <1>3, <1>4, <2>1, Refilled, TypeFacts DEF ReadInv
<1>6. CallsOK'
  BY <1>1, <1>2, <1>3, <1>5, CallsSet
<1>7. LineOK'
  BY <1>1, <1>2, <1>3 DEF LineOK, LineCall, EndFree, Kind
<1>8. AnswerOK'
  BY <1>3, <1>5, AnswerStays DEF ReadInv
<1>9. PeekIsNext'
  BY <1>2 DEF PeekIsNext
<1> QED  BY <1>5, <1>6, <1>7, <1>8, <1>9 DEF ReadInv

\* The peer has no more bytes.
LEMMA RecvEndInv ==
    ASSUME ReadInv, TypeInv', OutSize = 0, RecvEnd
    PROVE  ReadInv'
<1>1. rd' = NoCall /\ answer'.of \in {"eof", "none"} /\ Received(buf, 0) /\ UNCHANGED <<portUse, consumed>>
  BY DEF RecvEnd, NoAnswer
<1>2. Numbers(consumed') /\ Len(consumed') = received
  <2>1. Held = 0
    BY DEF RecvEnd, ReadInv, CallsOK
  <2> QED  BY <1>1, <2>1, TypeFacts DEF ReadInv, StreamOK
<1>3. StreamOK' /\ bufindex' = 0
  BY <1>1, <1>2, Refilled DEF ReadInv
<1> QED  BY <1>1, <1>3, CallsSet, CallEnds DEF ReadInv, AnswerOK, PeekIsNext

\* Characters and bytes are taken from the buffer.
LEMMA ReadCharInv ==
    ASSUME ReadInv, TypeInv', OutSize = 0, SoundUse(portUse), ReadChar
    PROVE  ReadInv'
<1>1. /\ rd.at = "test" /\ rd.op = "char" /\ rd \in ReadCall /\ rd.op \in portUse.readOps
      /\ "buffered" \notin portUse.readOps
  BY CallFacts DEF ReadChar, Reading
<1>2. PICK b : b = <<buf[bufindex]>>
  OBVIOUS
<1>3. b \in Seq(Nat) /\ Len(b) = 1 /\ \A i \in 1..1 : b[i] = buf[bufindex + i - 1]
  <2>1. bufindex \in 0..InSize-1
    BY TypeFacts DEF ReadInv, ReadChar
  <2>2. buf[bufindex] \in Nat
    BY <2>1, TypeFacts DEF ReadInv
  <2>3. bufindex + 1 - 1 = bufindex
    BY <2>1
  <2> QED  BY <1>2, <2>2, <2>3
<1>4. /\ Consume(b) /\ bufindex' = bufindex + 1 /\ bufindex + 1 <= buflen
      /\ UNCHANGED <<portUse, arrived, peerClosed, received, buf, buflen>>
  BY <1>2, TypeFacts DEF ReadChar, inVars, ReadInv
<1>5. StreamOK'
  <2>1. PICK n : n = 1
    OBVIOUS
  <2>2. n \in Nat /\ bufindex + n <= buflen /\ bufindex' = bufindex + n /\ Len(b) = n
        /\ \A i \in 1..n : b[i] = buf[bufindex + i - 1]
    BY <1>3, <1>4, <2>1
  <2> QED  BY <1>3, <1>4, <2>2, Taken DEF ReadInv
<1>6. \/ rd' = NoCall /\ answer' = NoAnswer
      \/ \E need : rd' = [rd EXCEPT !.need = need, !.got = @ + 1] /\ answer' = answer
  BY DEF ReadChar
<1>7. CASE rd' = NoCall /\ answer' = NoAnswer
  <2>1. answer'.of = "none"
    BY <1>7 DEF NoAnswer
  <2> QED  BY <1>1, <1>4, <1>5, <1>7, <2>1, CallsSet, CallEnds DEF ReadInv, AnswerOK, PeekIsNext
<1>8. CASE \E need : rd' = [rd EXCEPT !.need = need, !.got = @ + 1] /\ answer' = answer
  <2>1. rd'.at = "test" /\ rd'.op = "char"
    BY <1>1, <1>8 DEF ReadCall
  <2>2. rd' # NoCall
    BY <2>1 DEF NoCall
  <2>3. CallsOK'
    BY <1>1, <1>4, <2>1, CallsSet
  <2>4. LineOK'
    BY <2>1 DEF LineOK
  <2>5. AnswerOK'
    BY <1>4, <1>8, AnswerStays, TypeFacts DEF ReadInv
  <2> QED  BY <1>5, <2>2, <2>3, <2>4, <2>5 DEF ReadInv, PeekIsNext
<1> QED  BY <1>6, <1>7, <1>8

\* read-string! takes what the buffer has, up to what it was asked for.
LEMMA ReadBytesInv ==
    ASSUME ReadInv, TypeInv', OutSize = 0, SoundUse(portUse), ReadBytes
    PROVE  ReadInv'
<1>1. /\ rd.at = "test" /\ rd.op = "bytes" /\ rd \in ReadCall /\ rd.op \in portUse.readOps
      /\ "buffered" \notin portUse.readOps /\ rd.left \in Nat
  <2>1. rd.at = "test" /\ rd.op = "bytes"
    BY DEF ReadBytes, Reading
  <2> QED  BY <2>1, CallFacts, ReadFields
<1>2. PICK n : n = Least(rd.left, buflen - bufindex)
  OBVIOUS
<1>3. n \in Nat /\ bufindex + n <= buflen /\ bufindex \in Nat
  BY <1>1, <1>2, TypeFacts DEF ReadBytes, Least, ReadInv
<1>4. PICK b : b = Bytes(buf, bufindex, bufindex + n)
  OBVIOUS
<1>5. b \in Seq(Nat) /\ Len(b) = n /\ \A i \in 1..n : b[i] = buf[bufindex + i - 1]
  <2>1. PICK to : to = bufindex + n
    OBVIOUS
  <2>2. to \in Nat /\ bufindex <= to /\ to <= buflen /\ to - bufindex = n
    BY <1>3, <2>1
  <2>3. /\ Bytes(buf, bufindex, to) \in Seq(Nat) /\ Len(Bytes(buf, bufindex, to)) = to - bufindex
        /\ \A i \in 1..to-bufindex : Bytes(buf, bufindex, to)[i] = buf[bufindex + i - 1]
    BY <1>3, <2>2, LineBytes DEF ReadInv
  <2>4. b = Bytes(buf, bufindex, to)
    BY <1>4, <2>1
  <2> QED  BY <2>2, <2>3, <2>4
<1>6. /\ Consume(b) /\ bufindex' = bufindex + n
      /\ rd' = IF rd.left = n THEN NoCall ELSE [rd EXCEPT !.left = @ - n]
      /\ UNCHANGED <<portUse, arrived, peerClosed, received, buf, buflen>>
  BY <1>2, <1>4 DEF ReadBytes, inVars
<1>7. StreamOK'
  BY <1>3, <1>5, <1>6, Taken DEF ReadInv
<1>8. answer'.of = "none"
  BY DEF ReadBytes, NoAnswer
<1>9. rd' = NoCall \/ (rd'.at = "test" /\ rd'.op = "bytes")
  BY <1>1, <1>6 DEF ReadCall
<1>10. CallsOK'
  BY <1>1, <1>6, <1>9, CallsSet
<1>11. LineOK'
  BY <1>9, CallEnds DEF LineOK
<1> QED  BY <1>7, <1>8, <1>10, <1>11 DEF ReadInv, AnswerOK, PeekIsNext

\* peek-char looks at a byte and leaves it.
LEMMA PeekCharInv ==
    ASSUME ReadInv, TypeInv', OutSize = 0, SoundUse(portUse), PeekChar
    PROVE  ReadInv'
<1>1. rd.at = "test" /\ rd.op = "peek" /\ "peek" \in portUse.readOps /\ bufindex < buflen
  <2>1. rd.at = "test" /\ rd.op = "peek"
    BY DEF PeekChar, Reading
  <2> QED  BY <2>1, CallFacts DEF PeekChar
<1>2. PICK next : next = Len(consumed) + 1
  OBVIOUS
<1>3. /\ buf[bufindex] = next /\ next \in 1..Len(Kind) /\ bufindex \in Nat /\ buflen \in Nat
      /\ bufindex < InSize
  <2>1. bufindex \in bufindex..buflen-1 /\ bufindex - bufindex = 0 /\ Len(consumed) \in Nat
    BY <1>1, TypeFacts DEF ReadInv
  <2>2. buf[bufindex] = next
    BY <1>2, <2>1, NextBytes DEF ReadInv
  <2>3. Len(consumed) + (buflen - bufindex) = received
    BY <1>1, HeldFacts DEF ReadInv, StreamOK
  <2> QED  BY <1>1, <1>2, <2>1, <2>2, <2>3, TypeFacts DEF ReadInv
<1>4. Extra(next) = 0
  <2>1. \A i \in DOMAIN Kind : Kind[i] # "lead"
    BY <1>1 DEF SoundUse, PeeksSingles, Kind
  <2>2. next \in DOMAIN Kind
    BY <1>3, UseTypes, TypeFacts DEF ReadInv
  <2> QED  BY <2>1, <2>2 DEF Extra
<1>5. UNCHANGED <<portUse, arrived, peerClosed, received, buf, buflen, bufindex, consumed>>
  <2>1. ~(Extra(buf[bufindex]) + 1 > buflen - bufindex)
    BY <1>1, <1>3, <1>4
  <2> QED  BY <2>1 DEF PeekChar, inVars
<1>6. /\ answer'.of = "peek" /\ answer'.char = CharAt(buf, bufindex)' /\ rd' = NoCall
      /\ (Kind = Kind')
  BY DEF PeekChar, Kind, CharAt, Extra, InSize
<1>7. StreamOK'
  BY <1>5, StreamStays DEF ReadInv
<1>8. CallsOK'
  BY <1>5, <1>6, CallsSet DEF ReadInv, CallsOK
<1>9. PeekIsNext'
  <2>1. CharAt(buf, bufindex)' = [j \in 1..1 |-> next + j - 1]
    <3>1. CharAt(buf, bufindex)' = [j \in 1..1 |-> IF bufindex + j - 1 < InSize
                                                   THEN buf[bufindex + j - 1] ELSE 0]
      BY <1>3, <1>4, <1>5, <1>6 DEF CharAt, Extra, InSize
    <3>2. \A j \in 1..1 : j = 1 /\ bufindex + j - 1 = bufindex /\ next + j - 1 = next
      BY <1>3
    <3> QED  BY <1>3, <3>1, <3>2
  <2>2. (Extra(next) = 0)'
    BY <1>4, <1>6 DEF Extra
  <2>3. next <= Len(Kind)' /\ next = Len(consumed') + 1
    BY <1>2, <1>3, <1>5, <1>6
  <2> QED  BY <1>6, <2>1, <2>2, <2>3 DEF PeekIsNext
<1> QED  BY <1>6, <1>7, <1>8, <1>9, CallEnds DEF ReadInv, AnswerOK

\* read-buffered takes all of the buffer.
LEMMA ReadBufferedInv ==
    ASSUME ReadInv, TypeInv', OutSize = 0, ReadBuffered
    PROVE  ReadInv'
<1>1. bufindex = 0 /\ buflen \in Nat /\ buflen <= InSize /\ InSize \in Nat
  BY TypeFacts DEF ReadBuffered, ReadInv, CallsOK
<1>2. PICK b : b = [i \in 1..buflen |-> IF bufindex + i - 1 < InSize
                                        THEN buf[bufindex + i - 1] ELSE 0]
  OBVIOUS
<1>3. \A i \in 1..buflen : bufindex + i - 1 \in 0..InSize-1 /\ b[i] = buf[bufindex + i - 1]
  BY <1>1, <1>2
<1>4. \A i \in 1..buflen : buf[bufindex + i - 1] \in Nat
  BY <1>3, TypeFacts DEF ReadInv
<1>5. b \in Seq(Nat) /\ Len(b) = buflen
  <2>1. b \in [1..buflen -> Nat]
    BY <1>2, <1>3, <1>4
  <2> QED  BY <1>1, <2>1
<1>6. /\ Consume(b) /\ bufindex' = buflen /\ rd' = NoCall /\ answer'.of = "none"
      /\ UNCHANGED <<portUse, received, buf, buflen>>
  BY <1>2 DEF ReadBuffered, inVars, NoAnswer
<1>7. StreamOK'
  <2>1. PICK n : n = buflen
    OBVIOUS
  <2>2. n \in Nat /\ bufindex + n <= buflen /\ bufindex' = bufindex + n /\ Len(b) = n
        /\ \A i \in 1..n : b[i] = buf[bufindex + i - 1]
    BY <1>1, <1>3, <1>5, <1>6, <2>1
  <2> QED  BY <1>5, <1>6, <2>2, Taken DEF ReadInv
<1>8. CallsOK'
  <2>1. bufindex' >= buflen'
    BY <1>1, <1>6
  <2> QED  BY <1>6, <2>1, CallsSet
<1> QED  BY <1>6, <1>7, <1>8, CallEnds DEF ReadInv, AnswerOK, PeekIsNext

\* char-ready? takes nothing.
LEMMA CharReadyInv ==
    ASSUME ReadInv, TypeInv', OutSize = 0, CharReady
    PROVE  ReadInv'
<1>1. /\ rd' = NoCall /\ answer'.of = "ready"
      /\ UNCHANGED <<portUse, received, buf, buflen, bufindex, consumed>>
  BY DEF CharReady, inVars
<1>2. StreamOK'
  BY <1>1, StreamStays DEF ReadInv
<1>3. CallsOK'
  BY <1>1, CallsSet DEF ReadInv, CallsOK
<1> QED  BY <1>1, <1>2, <1>3, CallEnds DEF ReadInv, AnswerOK, PeekIsNext

-----------------------------------------------------------------------------
(***************************************************************************)
(* Lines.                                                                  *)
(***************************************************************************)
LEMMA FreeJoins ==
    ASSUME NEW a \in Nat, NEW b \in Nat, NEW c \in Nat, EndFree(a, b), EndFree(b + 1, c)
    PROVE  EndFree(a, c)
BY DEF EndFree

\* No line ends in the part of the buffer before the first end that the scanner sees.
LEMMA SeenFree ==
    ASSUME ReadInv, rd \in ReadCall, bufindex < buflen, NEW to \in bufindex..Seen,
           \A j \in Ends : to <= j
    PROVE  EndFree(Len(consumed) + 1, Len(consumed) + (to - bufindex))
<1>1. /\ bufindex \in Nat /\ buflen \in Nat /\ Len(consumed) \in Nat /\ Seen \in Nat /\ Seen <= buflen
      /\ to \in Nat
  BY TypeFacts, Scans DEF ReadInv
<1>2. SUFFICES ASSUME NEW i \in Len(consumed)+1..Len(consumed)+(to-bufindex)
               PROVE  Kind[i] \notin {"cr", "lf"}
  BY DEF EndFree
<1>3. PICK k : k = bufindex + i - Len(consumed) - 1
  OBVIOUS
<1>4. k \in bufindex..Seen-1 /\ k < to /\ k \in bufindex..buflen-1 /\ Len(consumed) + (k - bufindex) + 1 = i
      /\ i > 0 /\ k \in Nat
  BY <1>1, <1>3
<1>5. buf[k] = i
  BY <1>4, NextBytes DEF ReadInv
<1>6. k \notin Ends
  BY <1>4
<1> QED  BY <1>4, <1>5, <1>6 DEF Ends

\* A call of read-line.
LEMMA LineFacts ==
    ASSUME ReadInv, SoundUse(portUse), rd \in ReadCall, rd.op = "line"
    PROVE  /\ LineCall /\ rd.limit \in Nat /\ rd.limit > 0 /\ rd.left \in Nat /\ rd.left > 0
           /\ rd.from \in Nat /\ rd.from > 0 /\ rd.from <= Len(consumed) + 1
           /\ EndFree(rd.from, Len(consumed)) /\ "buffered" \notin portUse.readOps
           /\ rd.op \in portUse.readOps
<1>1. rd.at # "idle" /\ rd.left \in Nat
  BY ReadFields
<1>2. LineCall /\ "buffered" \notin portUse.readOps /\ rd.op \in portUse.readOps
  BY <1>1, CallFacts
<1>3. rd.limit \in Nat /\ rd.limit > 0
  <2>1. rd.limit \in portUse.limits
    BY <1>2 DEF LineCall
  <2>2. portUse.limits \subseteq Nat \ {0}
    BY UseTypes, TypeFacts DEF ReadInv
  <2> QED  BY ONLY <2>1, <2>2
<1>4. rd.from \in Nat /\ rd.from > 0 /\ rd.from <= Len(consumed) + 1
  BY <1>2, TypeFacts DEF ReadInv, LineCall
<1> QED  BY <1>1, <1>2, <1>3, <1>4 DEF LineCall

\* The line is found in the buffer.
LEMMA LineDoneInv ==
    ASSUME ReadInv, OutSize = 0, SoundUse(portUse), rd \in ReadCall,
           rd.op = "line", NEW next \in Nat, bufindex <= next, next <= buflen, LineDone(next)
    PROVE  /\ StreamOK' /\ CallsOK' /\ LineOK' /\ PeekIsNext'
           /\ Len(consumed') = Len(consumed) + (next - bufindex)
           /\ UNCHANGED <<portUse, arrived, peerClosed, received>>
           /\ answer'.of = "line" /\ answer'.from = rd.from /\ answer'.limit = rd.limit
           /\ answer'.text = Len(consumed) + Stop - bufindex
           /\ answer'.next = Len(consumed) + (next - bufindex)
<1>1. bufindex \in Nat /\ buflen \in Nat
  BY TypeFacts DEF ReadInv
<1>2. PICK b, n : b = Bytes(buf, bufindex, next) /\ n = next - bufindex
  OBVIOUS
<1>3. b \in Seq(Nat) /\ Len(b) = n /\ \A i \in 1..n : b[i] = buf[bufindex + i - 1]
  <2>1. /\ Bytes(buf, bufindex, next) \in Seq(Nat) /\ Len(Bytes(buf, bufindex, next)) = next - bufindex
        /\ \A i \in 1..next-bufindex : Bytes(buf, bufindex, next)[i] = buf[bufindex + i - 1]
    BY <1>1, LineBytes DEF ReadInv
  <2> QED  BY <1>2, <2>1
<1>4. n \in Nat /\ bufindex + n = next
  BY <1>1, <1>2
<1>5. /\ Consume(b) /\ bufindex' = next /\ rd' = NoCall
      /\ answer' = Line(Len(consumed) + Stop - bufindex, Len(consumed'))
      /\ UNCHANGED <<portUse, arrived, peerClosed, received, buf, buflen>>
  BY <1>2 DEF LineDone, inVars
<1>6. StreamOK' /\ Len(consumed') = Len(consumed) + n
  BY <1>3, <1>4, <1>5, Taken DEF ReadInv
<1>7. /\ answer'.of = "line" /\ answer'.from = rd.from /\ answer'.limit = rd.limit
      /\ answer'.text = Len(consumed) + Stop - bufindex /\ answer'.next = Len(consumed')
  BY <1>5 DEF Line
<1>8. CallsOK'
  BY <1>5, CallsSet, LineFacts
<1> QED  BY <1>2, <1>5, <1>6, <1>7, <1>8, CallEnds DEF PeekIsNext

\* read-line finds the end of its line in the buffer.
LEMMA LineEndsInv ==
    ASSUME ReadInv, TypeInv', OutSize = 0, SoundUse(portUse), LineEnds
    PROVE  ReadInv'
<1>1. /\ rd \in ReadCall /\ rd.op = "line" /\ bufindex < buflen
      /\ Stop \in Ends /\ Stop \in bufindex..Seen-1 /\ \A j \in Ends : Stop <= j
      /\ Seen <= buflen /\ Seen \in Nat /\ Stop \in Nat
  BY LineStops DEF ReadInv
<1>2. PICK next \in {Stop + 1, Stop + 2} :
               /\ next \in Nat /\ next <= Seen /\ LineDone(next)
               /\ \/ Is(Stop, "lf") /\ next = Stop + 1
                  \/ Is(Stop, "cr") /\ Stop + 1 < Seen
                     /\ next = IF Is(Stop + 1, "lf") THEN Stop + 2 ELSE Stop + 1
  BY LineStops DEF ReadInv
<1>3. /\ bufindex \in Nat /\ buflen \in Nat /\ Len(consumed) \in Nat /\ received \in Nat
      /\ Seen <= bufindex + rd.left /\ Len(consumed) + (buflen - bufindex) = received
  BY <1>1, Scans, TypeFacts, HeldFacts DEF ReadInv, StreamOK
<1>4. bufindex <= next /\ next <= buflen
  BY <1>1, <1>2, <1>3
<1>5. /\ StreamOK' /\ CallsOK' /\ LineOK' /\ PeekIsNext'
      /\ UNCHANGED <<portUse, arrived, peerClosed, received>>
      /\ answer'.of = "line" /\ answer'.from = rd.from /\ answer'.limit = rd.limit
      /\ answer'.text = Len(consumed) + Stop - bufindex
      /\ answer'.next = Len(consumed) + (next - bufindex)
  BY <1>1, <1>2, <1>4, LineDoneInv
<1>6. PICK end : end = Len(consumed) + (Stop - bufindex) + 1
  OBVIOUS
<1>7. /\ end \in Nat /\ answer'.text + 1 = end /\ answer'.text \in Nat /\ end <= received
      /\ answer'.next = end + (next - (Stop + 1))
  BY <1>1, <1>2, <1>3, <1>5, <1>6
<1>8. buf[Stop] = end /\ (Stop + 1 < Seen => buf[Stop + 1] = end + 1 /\ end < received)
  <2>1. Stop \in bufindex..buflen-1
    BY <1>1, <1>3
  <2>2. buf[Stop] = end
    BY <1>6, <2>1, NextBytes DEF ReadInv
  <2>3. ASSUME Stop + 1 < Seen PROVE buf[Stop + 1] = end + 1 /\ end < received
    <3>1. PICK k : k = Stop + 1
      OBVIOUS
    <3>2. k \in bufindex..buflen-1
      BY <1>1, <1>3, <2>3, <3>1
    <3>3. buf[k] = Len(consumed) + (k - bufindex) + 1
      BY <3>2, NextBytes DEF ReadInv
    <3> QED  BY <1>1, <1>3, <1>6, <3>1, <3>2, <3>3
  <2> QED  BY <2>2, <2>3
<1>9. LineCall /\ rd.from \in Nat /\ rd.from > 0 /\ rd.from <= Len(consumed) + 1
      /\ rd.limit \in Nat /\ rd.left \in Nat /\ EndFree(rd.from, Len(consumed))
      /\ rd.left = rd.limit - (Len(consumed) + 1 - rd.from)
  <2>1. rd.at = "test"
    BY DEF LineEnds, Reading
  <2> QED  BY <1>1, <2>1, LineFacts DEF LineCall
<1>10. rd.from <= end /\ end < rd.from + rd.limit
  <2>1. PICK l, from, limit, seen, stop :
            /\ l = Len(consumed) /\ from = rd.from /\ limit = rd.limit /\ seen = Seen /\ stop = Stop
    OBVIOUS
  <2>2. /\ l \in Nat /\ from \in Nat /\ limit \in Nat /\ seen \in Nat /\ stop \in Nat
        /\ bufindex \in Nat /\ stop < seen /\ bufindex <= stop /\ from <= l + 1
        /\ seen <= bufindex + (limit - (l + 1 - from))
    BY <1>1, <1>3, <1>9, <2>1
  <2>3. end = l + (stop - bufindex) + 1
    BY <1>6, <2>1
  <2>4. from <= end /\ end < from + limit
    BY <2>2, <2>3
  <2> QED  BY <2>1, <2>4
<1>11. EndFree(rd.from, end - 1)
  <2>1. Stop \in bufindex..Seen
    BY <1>1, <1>3
  <2>2. EndFree(Len(consumed) + 1, Len(consumed) + (Stop - bufindex))
    BY <1>1, <2>1, SeenFree
  <2>3. PICK c : c = end - 1
    OBVIOUS
  <2>4. c \in Nat /\ c = Len(consumed) + (Stop - bufindex)
    BY <1>1, <1>3, <1>6, <2>3
  <2>5. EndFree(Len(consumed) + 1, c)
    BY <2>2, <2>4
  <2>6. EndFree(rd.from, c)
    BY <1>3, <1>9, <2>4, <2>5, FreeJoins
  <2> QED  BY <2>3, <2>6
<1>12. AnswerOK'
  <2>1. PICK a : a = answer'
    OBVIOUS
  <2>2. /\ a.from = rd.from /\ a.limit = rd.limit /\ a.text = end - 1 /\ a.text + 1 = end
        /\ a.text \in Nat /\ a.next = end + (next - (Stop + 1)) /\ a.next \in Nat
    BY <1>2, <1>1, <1>5, <1>7, <2>1
  <2>3. Kind' = Kind /\ EndFree(a.from, a.text)'
    BY <1>5, <1>11, <2>2 DEF Kind, EndFree
  <2>4. \/ Kind[end] = "lf" /\ a.next = end
        \/ Kind[end] = "cr" /\ end < received /\ Kind[end + 1] = "lf" /\ a.next = end + 1
        \/ Kind[end] = "cr" /\ end < received /\ Kind[end + 1] # "lf" /\ a.next = end
    <3>1. CASE Is(Stop, "lf") /\ next = Stop + 1
      BY <1>1, <1>7, <1>8, <2>2, <3>1 DEF Is
    <3>2. CASE Is(Stop, "cr") /\ Stop + 1 < Seen
               /\ next = IF Is(Stop + 1, "lf") THEN Stop + 2 ELSE Stop + 1
      <4>1. Kind[end] = "cr" /\ end < received /\ buf[Stop + 1] = end + 1 /\ end + 1 > 0
        BY <1>7, <1>8, <3>2 DEF Is
      <4>2. Is(Stop + 1, "lf") <=> Kind[end + 1] = "lf"
        <5>1. Stop + 1 < buflen
          BY <1>1, <1>3, <3>2
        <5> QED  BY <4>1, <5>1 DEF Is
      <4> QED  BY <1>1, <1>7, <2>2, <3>2, <4>1, <4>2
    <3> QED  BY <1>2, <3>1, <3>2
  <2>5. AtLineEnd(a)'
    BY <1>5, <1>7, <1>10, <2>2, <2>3, <2>4 DEF AtLineEnd
  <2>6. AtLineEnd(answer)'
    BY <2>1, <2>5 DEF AtLineEnd, EndFree
  <2> QED  BY <1>9, <2>1, <2>2, <2>6 DEF AnswerOK
<1> QED  BY <1>5, <1>12 DEF ReadInv

\* read-line reaches its limit.
LEMMA LineLimitInv ==
    ASSUME ReadInv, TypeInv', OutSize = 0, SoundUse(portUse), LineLimit
    PROVE  ReadInv'
<1>1. rd.at = "test" /\ rd.op = "line" /\ bufindex < buflen /\ Ends = {} /\ Seen - bufindex >= rd.left
  BY DEF LineLimit, Reading
<1>2. rd \in ReadCall
  BY <1>1, CallFacts
<1>3. /\ LineCall /\ rd.limit \in Nat /\ rd.left \in Nat /\ rd.from \in Nat /\ rd.from > 0
      /\ rd.from <= Len(consumed) + 1 /\ EndFree(rd.from, Len(consumed))
      /\ rd.left = rd.limit - (Len(consumed) + 1 - rd.from)
  BY <1>1, <1>2, LineFacts DEF LineCall
<1>4. /\ bufindex \in Nat /\ buflen \in Nat /\ Len(consumed) \in Nat /\ received \in Nat
      /\ Seen \in Nat /\ bufindex <= Seen /\ Seen <= buflen /\ Seen <= bufindex + rd.left /\ Stop = Seen
      /\ Len(consumed) + (buflen - bufindex) = received
  BY <1>1, <1>2, Scans, TypeFacts, HeldFacts DEF ReadInv, StreamOK
<1>5. /\ StreamOK' /\ CallsOK' /\ LineOK' /\ PeekIsNext'
      /\ UNCHANGED <<portUse, arrived, peerClosed, received>>
      /\ answer'.of = "line" /\ answer'.from = rd.from /\ answer'.limit = rd.limit
      /\ answer'.text = Len(consumed) + Stop - bufindex
      /\ answer'.next = Len(consumed) + (Seen - bufindex)
  <2>1. PICK next : next = Seen
    OBVIOUS
  <2>2. next \in Nat /\ bufindex <= next /\ next <= buflen /\ LineDone(next)
    BY <1>4, <2>1 DEF LineLimit
  <2> QED  BY <1>1, <1>2, <2>1, <2>2, LineDoneInv
<1>6. PICK c : c = Len(consumed) + (Seen - bufindex)
  OBVIOUS
<1>7. c \in Nat /\ c <= received /\ c = rd.from + rd.limit - 1
  <2>1. PICK l, from, limit, left, seen :
            l = Len(consumed) /\ from = rd.from /\ limit = rd.limit /\ left = rd.left /\ seen = Seen
    OBVIOUS
  <2>2. /\ l \in Nat /\ from \in Nat /\ limit \in Nat /\ left \in Nat /\ seen \in Nat
        /\ bufindex \in Nat /\ buflen \in Nat /\ bufindex <= seen /\ seen <= buflen
        /\ seen - bufindex >= left /\ seen <= bufindex + left /\ left = limit - (l + 1 - from)
        /\ l + (buflen - bufindex) = received
    BY <1>1, <1>3, <1>4, <2>1
  <2>3. c = l + (seen - bufindex)
    BY <1>6, <2>1
  <2>4. c \in Nat /\ c <= received /\ c = from + limit - 1
    BY <2>2, <2>3
  <2> QED  BY <2>1, <2>4
<1>8. answer'.text = c /\ answer'.next = c
  BY <1>4, <1>5, <1>6
<1>9. EndFree(rd.from, c)
  <2>1. Seen \in bufindex..Seen
    BY <1>4
  <2>2. EndFree(Len(consumed) + 1, c)
    BY <1>1, <1>2, <1>6, <2>1, SeenFree
  <2> QED  BY <1>3, <1>4, <1>7, <2>2, FreeJoins
<1>10. AnswerOK'
  <2>1. AtLimit(answer)'
    BY <1>5, <1>7, <1>8, <1>9 DEF AtLimit, EndFree, Kind
  <2> QED  BY <1>3, <1>5, <1>7, <1>8, <2>1 DEF AnswerOK
<1> QED  BY <1>5, <1>10 DEF ReadInv

\* The line goes on behind what is in the buffer.
LEMMA LineMoreInv ==
    ASSUME ReadInv, TypeInv', OutSize = 0, SoundUse(portUse), LineMore
    PROVE  ReadInv'
<1>1. rd.at = "test" /\ rd.op = "line" /\ bufindex < buflen
  BY DEF LineMore, Reading
<1>2. rd \in ReadCall
  BY <1>1, CallFacts
<1>3. /\ LineCall /\ rd.limit \in Nat /\ rd.left \in Nat /\ rd.from \in Nat /\ rd.from > 0
      /\ rd.from <= Len(consumed) + 1 /\ EndFree(rd.from, Len(consumed))
      /\ rd.left = rd.limit - (Len(consumed) + 1 - rd.from)
      /\ "buffered" \notin portUse.readOps /\ rd.op \in portUse.readOps
  BY <1>1, <1>2, LineFacts DEF LineCall
<1>4. /\ bufindex \in Nat /\ buflen \in Nat /\ Len(consumed) \in Nat /\ received \in Nat
      /\ Seen \in Nat /\ bufindex <= Seen /\ Seen <= buflen
      /\ Seen = buflen \/ Seen = bufindex + rd.left
      /\ Len(consumed) + Held = received /\ Held = buflen - bufindex /\ Held \in Nat
      /\ received <= Len(Kind) /\ Len(Kind) \in Nat
  BY <1>1, <1>2, Scans, TypeFacts, HeldFacts DEF ReadInv, StreamOK
<1>5. UNCHANGED <<portUse, arrived, peerClosed, received, buf, buflen, bufindex, consumed, answer>>
  BY DEF LineMore, inVars, ghosts
<1>6. StreamOK' /\ Held' = Held
  BY <1>5, StreamStays DEF ReadInv
<1>7. AnswerOK'
  BY <1>5, AnswerStays, TypeFacts DEF ReadInv
<1>8. PICK b : b = Bytes(buf, bufindex, Seen)
  OBVIOUS
<1>9. ASSUME Seen = buflen
      PROVE  b \in Seq(Nat) /\ Len(b) = Held /\ \A i \in DOMAIN b : b[i] = Len(consumed) + i
  <2>1. b \in Seq(Nat) /\ Len(b) = Held /\ \A i \in 1..Held : b[i] = buf[bufindex + i - 1]
    <3>1. PICK to : to = Seen
      OBVIOUS
    <3>2. to \in Nat /\ bufindex <= to /\ to <= buflen /\ to - bufindex = Held
      BY <1>4, <1>9, <3>1
    <3>3. /\ Bytes(buf, bufindex, to) \in Seq(Nat) /\ Len(Bytes(buf, bufindex, to)) = to - bufindex
          /\ \A i \in 1..to-bufindex : Bytes(buf, bufindex, to)[i] = buf[bufindex + i - 1]
      BY <1>4, <3>2, LineBytes DEF ReadInv
    <3>4. b = Bytes(buf, bufindex, to)
      BY <1>8, <3>1
    <3> QED  BY <3>2, <3>3, <3>4
  <2>2. ASSUME NEW i \in 1..Held PROVE b[i] = Len(consumed) + i
    <3>1. PICK k : k = bufindex + i - 1
      OBVIOUS
    <3>2. k \in bufindex..buflen-1 /\ k - bufindex + 1 = i
      BY <1>4, <3>1
    <3>3. buf[k] = Len(consumed) + (k - bufindex) + 1
      BY <3>2, NextBytes DEF ReadInv
    <3> QED  BY <1>4, <2>1, <3>1, <3>2, <3>3
  <2> QED  BY <2>1, <2>2
<1>10. LineCall /\ rd'.op = rd.op /\ rd'.limit = rd.limit /\ rd'.from = rd.from /\ rd'.left > 0
       /\ (rd'.at # "more" => rd'.left = rd.left) => LineCall'
  BY <1>3, <1>5 DEF LineCall, EndFree, Kind
<1>11. CASE /\ Ends = {}
            /\ Seen - bufindex < rd.left
            /\ rd' = [rd EXCEPT !.at = "more", !.left = @ - (Seen - bufindex),
                                !.chunk = Bytes(buf, bufindex, Seen)]
  <2>1. Seen = buflen
    BY <1>4, <1>11, <1>3
  <2>2. /\ rd'.at = "more" /\ rd'.op = "line" /\ rd'.left = rd.left - Held /\ rd'.chunk = b
        /\ rd'.limit = rd.limit /\ rd'.from = rd.from
    BY <1>1, <1>2, <1>4, <1>8, <1>11, <2>1 DEF ReadCall
  <2>3. rd' # NoCall
    BY <2>2 DEF NoCall
  <2>4. rd'.left > 0 /\ rd'.left = rd.limit - (received + 1 - rd.from)
    <3>1. PICK l, from, limit, left :
              l = Len(consumed) /\ from = rd.from /\ limit = rd.limit /\ left = rd.left
      OBVIOUS
    <3>2. /\ l \in Nat /\ from \in Nat /\ limit \in Nat /\ left \in Nat /\ received \in Nat
          /\ left = limit - (l + 1 - from) /\ l + Held = received /\ Held \in Nat /\ Held < left
      BY <1>3, <1>4, <1>11, <2>1, <3>1
    <3>3. left - Held > 0 /\ left - Held = limit - (received + 1 - from)
      BY <3>2
    <3> QED  BY <2>2, <3>1, <3>3
  <2>5. EndFree(rd.from, received)
    <3>1. Seen \in bufindex..Seen
      BY <1>4
    <3>2. EndFree(Len(consumed) + 1, Len(consumed) + (Seen - bufindex))
      BY <1>1, <1>2, <1>11, <3>1, SeenFree
    <3>3. Len(consumed) + (Seen - bufindex) = received
      BY <1>4, <2>1
    <3>4. EndFree(Len(consumed) + 1, received)
      BY <3>2, <3>3
    <3> QED  BY <1>3, <1>4, <3>4, FreeJoins
  <2>6. LineCall'
    BY <1>1, <1>3, <1>10, <2>2, <2>4
  <2>7. LineOK'
    <3>1. EndFree(rd.from, received)'
      BY <1>5, <2>2, <2>5 DEF EndFree, Kind
    <3>2. Len(rd'.chunk) = Held' /\ \A i \in DOMAIN rd'.chunk : rd'.chunk[i] = Len(consumed') + i
      BY <1>5, <1>6, <1>9, <2>1, <2>2
    <3>3. rd'.left = rd'.limit - (received' + 1 - rd'.from)
      BY <1>5, <2>2, <2>4
    <3> QED  BY <2>2, <2>6, <3>1, <3>2, <3>3 DEF LineOK
  <2>8. CallsOK'
    BY <1>1, <1>3, <1>5, <2>2, CallsSet
  <2> QED  BY <1>6, <1>7, <2>3, <2>7, <2>8 DEF ReadInv, PeekIsNext
<1>12. CASE /\ Is(Stop, "cr") /\ Stop + 1 = Seen
            /\ rd' = [rd EXCEPT !.at = "cr", !.chunk = Bytes(buf, bufindex, Seen)]
  <2>1. /\ Ends # {} /\ Stop \in bufindex..Seen-1 /\ \A j \in Ends : Stop <= j
    <3>1. Stop # Seen
      BY <1>4, <1>12
    <3> QED  BY <1>1, <1>2, <3>1, Scans DEF ReadInv
  <2>2. Stop \in bufindex..buflen-1 /\ buf[Stop] \in 1..Len(Kind) /\ Kind[buf[Stop]] = "cr"
    <3>1. Stop \in bufindex..buflen-1 /\ Stop \in 0..InSize-1
      BY <1>4, <2>1, TypeFacts DEF ReadInv
    <3>2. buf[Stop] \in Nat /\ buf[Stop] <= Len(Kind)
      BY <3>1, TypeFacts DEF ReadInv
    <3> QED  BY <1>4, <1>12, <3>1, <3>2 DEF Is
  <2>3. rd.limit >= Len(Kind)
    <3>1. buf[Stop] \in DOMAIN Kind
      BY <2>2, UseTypes, TypeFacts DEF ReadInv
    <3>2. \A l \in portUse.limits : l >= Len(Kind)
      BY <2>2, <3>1 DEF SoundUse, LimitsSpareCr, Kind
    <3> QED  BY <1>3, <3>2 DEF LineCall
  <2>4. Held <= rd.left /\ Seen = buflen /\ Held > 0
    <3>1. PICK l, from, limit, left, seen, kinds :
              /\ l = Len(consumed) /\ from = rd.from /\ limit = rd.limit /\ left = rd.left
              /\ seen = Seen /\ kinds = Len(Kind)
      OBVIOUS
    <3>2. /\ l \in Nat /\ from \in Nat /\ limit \in Nat /\ left \in Nat /\ seen \in Nat /\ kinds \in Nat
          /\ bufindex \in Nat /\ buflen \in Nat /\ seen <= buflen /\ received \in Nat /\ from > 0
          /\ seen = buflen \/ seen = bufindex + left
          /\ left = limit - (l + 1 - from) /\ limit >= kinds /\ received <= kinds
          /\ Held \in Nat /\ l + Held = received /\ Held = buflen - bufindex
      BY <1>3, <1>4, <2>3, <3>1
    <3>3. Held <= left
      BY <3>2
    <3>4. seen = buflen
      BY <3>2, <3>3
    <3> QED  BY <1>1, <3>1, <3>2, <3>3, <3>4
  <2>5. /\ rd'.at = "cr" /\ rd'.op = "line" /\ rd'.left = rd.left /\ rd'.chunk = b
        /\ rd'.limit = rd.limit /\ rd'.from = rd.from
    BY <1>1, <1>2, <1>8, <1>12 DEF ReadCall
  <2>6. rd' # NoCall
    BY <2>5 DEF NoCall
  <2>7. buf[Stop] = received /\ Len(consumed) + (Stop - bufindex) = received - 1 /\ received - 1 \in Nat
    <3>1. buf[Stop] = Len(consumed) + (Stop - bufindex) + 1
      BY <2>2, NextBytes DEF ReadInv
    <3>2. Stop + 1 = buflen
      BY <1>12, <2>4
    <3> QED  BY <1>4, <2>2, <2>4, <3>1, <3>2, SMTT(30)
  <2>8. EndFree(rd.from, received - 1)
    <3>1. Stop \in bufindex..Seen
      BY <1>4, <2>1
    <3>2. EndFree(Len(consumed) + 1, Len(consumed) + (Stop - bufindex))
      BY <1>1, <1>2, <2>1, <3>1, SeenFree
    <3>3. PICK c : c = received - 1
      OBVIOUS
    <3>4. EndFree(Len(consumed) + 1, c) /\ c \in Nat
      BY <2>7, <3>2, <3>3
    <3>5. EndFree(rd.from, c)
      BY <1>3, <1>4, <3>4, FreeJoins
    <3> QED  BY <3>3, <3>5
  <2>9. LineCall'
    BY <1>1, <1>3, <1>4, <1>10, <2>4, <2>5
  <2>10. LineOK'
    <3>1. EndFree(rd.from, received - 1)' /\ (Kind[received] = "cr")'
      BY <1>5, <2>2, <2>5, <2>7, <2>8 DEF EndFree, Kind
    <3>2. Len(rd'.chunk) = Held' /\ \A i \in DOMAIN rd'.chunk : rd'.chunk[i] = Len(consumed') + i
      BY <1>5, <1>6, <1>9, <2>4, <2>5
    <3>3. Held' \in 1..rd'.left
      BY <1>3, <1>4, <1>6, <2>4, <2>5
    <3> QED  BY <2>5, <2>9, <3>1, <3>2, <3>3 DEF LineOK
  <2>11. CallsOK'
    BY <1>1, <1>3, <1>5, <2>5, CallsSet
  <2> QED  BY <1>6, <1>7, <2>6, <2>10, <2>11 DEF ReadInv, PeekIsNext
<1> QED  BY <1>11, <1>12 DEF LineMore

\* More of the line is received, or the input ends.
LEMMA RecvMoreInv ==
    ASSUME ReadInv, TypeInv', OutSize = 0, SoundUse(portUse), RecvMore
    PROVE  ReadInv'
<1>1. rd.at = "more" /\ rd.at # "idle" /\ Received(buf, 0) /\ Consume(rd.chunk)
  BY DEF RecvMore
<1>2. LineCall /\ rd.op = "line"
  BY <1>1 DEF ReadInv, LineOK, LineCall
<1>3. rd \in ReadCall /\ rd # NoCall /\ rd.chunk \in Seq(Nat)
  BY <1>1, CallFacts, ReadFields
<1>4. /\ rd.limit \in Nat /\ rd.left \in Nat /\ rd.left > 0 /\ rd.from \in Nat /\ rd.from > 0
      /\ rd.from <= Len(consumed) + 1 /\ rd.limit \in portUse.limits
      /\ rd.left = rd.limit - (received + 1 - rd.from) /\ EndFree(rd.from, received)
      /\ "buffered" \notin portUse.readOps /\ rd.op \in portUse.readOps
      /\ Len(rd.chunk) = Held /\ \A i \in DOMAIN rd.chunk : rd.chunk[i] = Len(consumed) + i
  BY <1>1, <1>2, <1>3, LineFacts DEF ReadInv, LineOK, LineCall
<1>5. /\ Len(consumed) + Held = received /\ Held \in Nat /\ Len(consumed) \in Nat /\ received \in Nat
      /\ arrived \in Nat /\ Numbers(consumed)
  BY HeldFacts, TypeFacts DEF ReadInv, StreamOK
<1>6. Numbers(consumed') /\ Len(consumed') = received
  <2>1. PICK chunk : chunk = rd.chunk
    OBVIOUS
  <2>2. chunk \in Seq(Nat) /\ consumed' = consumed \o chunk /\ consumed \in Seq(Nat)
    BY <1>1, <1>3, <2>1, TypeFacts DEF Consume, ReadInv
  <2> QED  BY <1>4, <1>5, <2>1, <2>2, Joins
<1>7. UNCHANGED <<portUse, arrived, peerClosed, Kind>>
  BY <1>1 DEF RecvMore, Received, Kind
<1>8. StreamOK' /\ received' = received + Available(0) /\ Available(0) \in Nat /\ bufindex' = 0
      /\ (Available(0) = 0 <=> arrived = received)
  BY <1>1, <1>6, <1>7, Refilled DEF ReadInv
<1>9. CASE arrived > received
  <2>1. rd' = [rd EXCEPT !.at = "test"] /\ answer' = answer
    BY <1>9 DEF RecvMore
  <2>2. /\ rd'.at = "test" /\ rd'.op = "line" /\ rd'.left = rd.left /\ rd'.limit = rd.limit
        /\ rd'.from = rd.from /\ rd' # NoCall
    BY <1>2, <1>3, <2>1, ReadMoves, ReadFields
  <2>3. CallsOK'
    BY <1>2, <1>4, <1>7, <2>2, CallsSet
  <2>4. LineOK'
    <3>1. EndFree(rd.from, Len(consumed))'
      BY <1>4, <1>6, <1>7, <2>2 DEF EndFree
    <3>2. rd'.from \in 1..Len(consumed')+1
      BY <1>4, <1>5, <1>6, <2>2
    <3>3. rd'.left = rd'.limit - (Len(consumed') + 1 - rd'.from)
      BY <1>4, <1>6, <2>2
    <3>4. LineCall'
      BY <1>4, <1>7, <2>2, <3>1, <3>2, <3>3 DEF LineCall
    <3> QED  BY <2>2, <3>4 DEF LineOK
  <2>5. AnswerOK'
    BY <1>5, <1>7, <1>8, <2>1, AnswerStays DEF ReadInv
  <2> QED  BY <1>8, <2>2, <2>3, <2>4, <2>5 DEF ReadInv, PeekIsNext
<1>10. CASE ~(arrived > received)
  <2>1. rd' = NoCall /\ answer' = Line(Len(consumed'), Len(consumed')) /\ AtEnd
    BY <1>10 DEF RecvMore
  <2>2. /\ answer'.of = "line" /\ answer'.from = rd.from /\ answer'.limit = rd.limit
        /\ answer'.text = received /\ answer'.next = received
    BY <1>6, <2>1 DEF Line
  <2>3. CallsOK'
    BY <1>7, <1>8, <2>1, CallsSet
  <2>4. received + 1 < rd.from + rd.limit
    <3>1. PICK from, limit, left : from = rd.from /\ limit = rd.limit /\ left = rd.left
      OBVIOUS
    <3>2. /\ from \in Nat /\ limit \in Nat /\ left > 0 /\ left \in Nat /\ received \in Nat
          /\ left = limit - (received + 1 - from)
      BY <1>4, <1>5, <3>1
    <3>3. received + 1 < from + limit
      BY <3>2
    <3> QED  BY <3>1, <3>3
  <2>5. AtInputEnd(answer)'
    BY <1>4, <1>5, <1>7, <2>1, <2>2, <2>4 DEF AtInputEnd, AtEnd, EndFree
  <2>6. AnswerOK'
    BY <1>4, <1>5, <2>2, <2>5 DEF AnswerOK
  <2> QED  BY <1>8, <2>1, <2>2, <2>3, <2>6, CallEnds DEF ReadInv, PeekIsNext
<1> QED  BY <1>9, <1>10

\* The byte after a carriage return is received, or the input ends.
LEMMA RecvAfterCrInv ==
    ASSUME ReadInv, TypeInv', OutSize = 0, SoundUse(portUse), RecvAfterCr
    PROVE  ReadInv'
<1>1. rd.at = "cr" /\ rd.at # "idle" /\ rd' = NoCall
  BY DEF RecvAfterCr
<1>2. LineCall /\ rd.op = "line"
  BY <1>1 DEF ReadInv, LineOK, LineCall
<1>3. rd \in ReadCall /\ rd # NoCall
  BY <1>1, CallFacts
<1>4. PICK chunk : chunk = rd.chunk
  OBVIOUS
<1>5. /\ chunk \in Seq(Nat) /\ Len(chunk) = Held
      /\ \A i \in DOMAIN chunk : chunk[i] = Len(consumed) + i
  BY <1>1, <1>3, <1>4, ReadFields DEF ReadInv, LineOK
<1>6. /\ rd.limit \in Nat /\ rd.left \in Nat /\ rd.from \in Nat /\ rd.from > 0
      /\ rd.from <= Len(consumed) + 1
      /\ rd.left = rd.limit - (Len(consumed) + 1 - rd.from)
      /\ Held \in 1..rd.left /\ EndFree(rd.from, received - 1) /\ Kind[received] = "cr"
      /\ "buffered" \notin portUse.readOps
  BY <1>1, <1>2, <1>3, LineFacts DEF ReadInv, LineOK, LineCall
<1>7. /\ Len(consumed) + Held = received /\ Held \in Nat /\ Len(consumed) \in Nat /\ received \in Nat
      /\ arrived \in Nat /\ received <= arrived /\ Numbers(consumed) /\ InSize \in Nat /\ InSize > 0
      /\ consumed \in Seq(Nat) /\ Len(Kind) \in Nat /\ arrived <= Len(Kind)
  BY HeldFacts, TypeFacts DEF ReadInv, StreamOK
<1>8. PICK a : a = Available(0)
  OBVIOUS
<1>9. a \in Nat /\ a <= InSize /\ a <= arrived - received /\ (arrived > received => a > 0)
  BY <1>7, <1>8 DEF Available, Least
<1>10. /\ received' = received + a /\ buflen' = a
       /\ \A i \in 0..InSize-1 : i < a => buf'[i] = received + i + 1
  <2>1. buf' = [i \in DOMAIN buf |-> IF i < a THEN received + i + 1 ELSE buf[i]]
    BY <1>8 DEF RecvAfterCr
  <2>2. DOMAIN buf = 0..InSize-1
    BY DEF ReadInv, TypeInv, PortsTypeOK
  <2> QED  BY <1>8, <2>1, <2>2 DEF RecvAfterCr
<1>11. UNCHANGED <<portUse, arrived, peerClosed, Kind>>
  BY DEF RecvAfterCr, Kind
<1>12. PICK n : n = IF arrived > received THEN AfterCr ELSE 0
  OBVIOUS
<1>13. n \in {0, 1} /\ n <= a
  BY <1>9, <1>12 DEF AfterCr
<1>14. PICK b : b = Bytes(buf', 0, n)
  OBVIOUS
<1>15. b \in Seq(Nat) /\ Len(b) = n /\ \A i \in DOMAIN b : b[i] = received + i
  <2>1. PICK new : new = buf'
    OBVIOUS
  <2>2. \A i \in 0..n-1 : new[i] \in Nat /\ new[i] = received + i + 1
    BY <1>7, <1>9, <1>10, <1>13, <2>1
  <2>3. PICK zero : zero = 0
    OBVIOUS
  <2>4. zero \in Nat /\ n \in Nat /\ zero <= n /\ \A i \in zero..n-1 : new[i] \in Nat
    BY <1>13, <2>2, <2>3
  <2>5. /\ Bytes(new, zero, n) \in Seq(Nat) /\ Len(Bytes(new, zero, n)) = n - zero
        /\ \A i \in 1..n-zero : Bytes(new, zero, n)[i] = new[zero + i - 1]
    BY <2>4, Pieces
  <2>6. b = Bytes(new, zero, n)
    BY <1>14, <2>1, <2>3
  <2>7. b \in Seq(Nat) /\ Len(b) = n /\ \A i \in 1..n : b[i] = new[i - 1]
    BY <1>13, <2>3, <2>5, <2>6
  <2>8. ASSUME NEW i \in 1..n PROVE b[i] = received + i
    <3>1. i - 1 \in 0..n-1 /\ i - 1 + 1 = i
      BY <1>13
    <3>2. new[i - 1] = received + (i - 1) + 1
      BY <2>2, <3>1
    <3> QED  BY <1>7, <2>7, <3>1, <3>2
  <2> QED  BY <2>7, <2>8
<1>15a. arrived > received => ~AtEnd
  BY <1>7 DEF AtEnd
<1>16. Numbers(consumed') /\ Len(consumed') = received + n
  <2>1. Numbers(consumed \o chunk) /\ Len(consumed \o chunk) = received /\ consumed \o chunk \in Seq(Nat)
    BY <1>5, <1>7, Joins
  <2>2. CASE arrived > received
    <3>1. consumed' = consumed \o (chunk \o b)
      <4>1. n = AfterCr /\ ~AtEnd
        BY <1>15a, <1>12, <2>2
      <4>2. consumed' = consumed \o (rd.chunk \o Bytes(buf', 0, AfterCr))
        BY <4>1 DEF RecvAfterCr, Consume
      <4> QED  BY <1>4, <1>14, <4>1, <4>2
    <3>2. consumed' = (consumed \o chunk) \o b
      <4>1. PICK c : c = consumed
        OBVIOUS
      <4>2. c \in Seq(Nat) /\ chunk \in Seq(Nat) /\ b \in Seq(Nat)
        BY <1>5, <1>7, <1>15, <4>1
      <4>3. (c \o chunk) \o b = c \o (chunk \o b)
        BY <4>2, ConcatAssociative, SMTT(30)
      <4> QED  BY <3>1, <4>1, <4>3
    <3>3. PICK s : s = consumed \o chunk
      OBVIOUS
    <3>4. Numbers(s) /\ Len(s) = received /\ s \in Seq(Nat)
      BY <2>1, <3>3
    <3>5. Numbers(s \o b) /\ Len(s \o b) = received + n
      BY <1>15, <3>4, Joins
    <3> QED  BY <3>2, <3>3, <3>5
  <2>3. CASE ~(arrived > received)
    <3>1. n = 0 /\ consumed' = consumed \o chunk
      BY <1>4, <1>12, <2>3 DEF RecvAfterCr, Consume
    <3> QED  BY <1>7, <2>1, <3>1
  <2> QED  BY <2>2, <2>3
<1>17. bufindex' = IF arrived > received THEN n ELSE 1
  BY <1>15a, <1>12 DEF RecvAfterCr
<1>18. ~(arrived > received) => AtEnd /\ a = 0 /\ n = 0
  BY <1>7, <1>9, <1>12 DEF RecvAfterCr
<1>19. StreamOK'
  <2>1. Held' = a - n
    <3>1. Held' = IF bufindex' < buflen' THEN buflen' - bufindex' ELSE 0
      BY DEF Held
    <3> QED  BY <1>9, <1>10, <1>13, <1>17, <1>18, <3>1
  <2>2. \A i \in 0..buflen'-1 : buf'[i] = received' - buflen' + i + 1
    <3> TAKE i \in 0..buflen'-1
    <3>1. i \in 0..InSize-1 /\ i < a
      BY <1>7, <1>9, <1>10
    <3> QED  BY <1>7, <1>9, <1>10, <3>1
  <2>3. buflen' <= received' /\ Len(consumed') + Held' = received'
    BY <1>7, <1>9, <1>10, <1>13, <1>16, <2>1
  <2> QED  BY <1>16, <2>2, <2>3 DEF StreamOK
<1>20. CallsOK'
  BY <1>1, <1>6, <1>11, CallsSet
<1>21. /\ answer'.of = "line" /\ answer'.from = rd.from /\ answer'.limit = rd.limit
       /\ answer'.text = received - 1 /\ answer'.next = received + n
  <2>1. answer' = Line(Len(consumed) + Len(rd.chunk) - 1, Len(consumed'))
    BY DEF RecvAfterCr
  <2>2. Len(consumed) + Len(rd.chunk) - 1 = received - 1
    BY <1>4, <1>5, <1>7
  <2> QED  BY <1>16, <2>1, <2>2 DEF Line
<1>22. rd.from <= received /\ received < rd.from + rd.limit
  <2>1. PICK l, from, limit, left :
            l = Len(consumed) /\ from = rd.from /\ limit = rd.limit /\ left = rd.left
    OBVIOUS
  <2>2. /\ l \in Nat /\ from \in Nat /\ limit \in Nat /\ left \in Nat /\ received \in Nat
        /\ left = limit - (l + 1 - from) /\ Held \in 1..left /\ l + Held = received /\ from <= l + 1
    BY <1>6, <1>7, <2>1
  <2>3. from <= received /\ received < from + limit
    BY <2>2
  <2> QED  BY <2>1, <2>3
<1>23. AnswerOK'
  <2>1. PICK c : c = received - 1
    OBVIOUS
  <2>2. c \in Nat /\ c + 1 = received /\ EndFree(rd.from, c)
    BY <1>6, <1>7, <1>22, <2>1
  <2>3. EndFree(answer.from, answer.text)'
    BY <1>11, <1>21, <2>1, <2>2 DEF EndFree
  <2>4. \/ arrived > received /\ received < received' /\ Kind[received + 1] = "lf" /\ n = 1
        \/ arrived > received /\ received < received' /\ Kind[received + 1] # "lf" /\ n = 0
        \/ peerClosed /\ arrived = received /\ received' = received /\ n = 0
    BY <1>7, <1>9, <1>10, <1>12, <1>18 DEF AfterCr, AtEnd
  <2>5. (answer.text + 1)' = received /\ answer'.next = received + n /\ received + n \in Nat
    BY <1>7, <1>13, <1>21, <2>1, <2>2
  <2>6. AtLineEnd(answer)'
    <3>1. /\ (answer.text + 1)' = received /\ answer'.from = rd.from /\ answer'.limit = rd.limit
          /\ answer'.next = received + n /\ received <= received' /\ Kind' = Kind
      BY <1>7, <1>9, <1>10, <1>11, <1>21, <2>5
    <3>2. \/ Kind[received] = "cr" /\ received < received' /\ Kind[received + 1] = "lf"
             /\ answer'.next = received + 1
          \/ /\ Kind[received] = "cr" /\ answer'.next = received
             /\ IF received < received' THEN Kind[received + 1] # "lf"
                                        ELSE peerClosed' /\ arrived' = received
      <4>1. CASE arrived > received /\ received < received' /\ Kind[received + 1] = "lf" /\ n = 1
        BY <1>6, <3>1, <4>1
      <4>2. CASE arrived > received /\ received < received' /\ Kind[received + 1] # "lf" /\ n = 0
        BY <1>6, <1>7, <3>1, <4>2
      <4>3. CASE peerClosed /\ arrived = received /\ received' = received /\ n = 0
        BY <1>6, <1>7, <1>11, <3>1, <4>3
      <4> QED  BY <2>4, <4>1, <4>2, <4>3
    <3> QED  BY <1>22, <2>3, <3>1, <3>2 DEF AtLineEnd
  <2> QED  BY <1>6, <1>21, <2>1, <2>2, <2>5, <2>6 DEF AnswerOK
<1> QED  BY <1>1, <1>19, <1>20, <1>21, <1>23, CallEnds DEF ReadInv, PeekIsNext

\* Every step of the reading thread, and every other one.
LEMMA ReaderInv ==
    ASSUME ReadInv, SoundUse(portUse), Reader, TypeInv'
    PROVE  ReadInv'
<1>0. OutSize = 0
  BY ReadersReadOnly DEF ReadInv
<1>1. ASSUME NEW op \in portUse.readOps, BeginRead(op) PROVE ReadInv'
  BY <1>0, <1>1, BeginReadInv
<1>2. CASE NeedsInput
  BY <1>0, <1>2, NeedsInputInv
<1>3. CASE Recv
  BY <1>0, <1>3, RecvInv
<1>4. CASE RecvEnd
  BY <1>0, <1>4, RecvEndInv
<1>5. CASE ReadTimeout
  BY <1>0, <1>5, ReadTimeoutInv
<1>6. CASE ReadChar
  BY <1>0, <1>6, ReadCharInv
<1>7. CASE ReadBytes
  BY <1>0, <1>7, ReadBytesInv
<1>8. CASE PeekChar
  BY <1>0, <1>8, PeekCharInv
<1>9. CASE ReadBuffered
  BY <1>0, <1>9, ReadBufferedInv
<1>10. CASE CharReady
  BY <1>0, <1>10, CharReadyInv
<1>11. CASE LineEnds
  BY <1>0, <1>11, LineEndsInv
<1>12. CASE LineLimit
  BY <1>0, <1>12, LineLimitInv
<1>13. CASE LineMore
  BY <1>0, <1>13, LineMoreInv
<1>14. CASE RecvMore
  BY <1>0, <1>14, RecvMoreInv
<1>15. CASE RecvAfterCr
  BY <1>0, <1>15, RecvAfterCrInv
<1> QED  BY <1>1, <1>2, <1>3, <1>4, <1>5, <1>6, <1>7, <1>8, <1>9, <1>10, <1>11, <1>12,
            <1>13, <1>14, <1>15 DEF Reader

\* The writing thread leaves the input alone, all but the index that it shares.
LEMMA WriterReads ==
    ASSUME TypeInv, Writer
    PROVE  /\ UNCHANGED <<portUse, arrived, peerClosed, received, buf, buflen, rd, consumed, answer, iclosed>>
           /\ bufindex' = bufindex \/ OutSize > 0
<1>1. UNCHANGED <<portUse, OutVars>>
  BY DEF Writer, Write, AddAll, AddPart, SendSome, WriteFails, Sent, Flush, CloseOutput, ClosedOutput
<1>2. bufindex' = bufindex \/ OutSize > 0
  <2>1. CASE AddAll
    BY <2>1, WriterFacts DEF AddAll
  <2>2. CASE Sent
    BY <2>2, WriterFacts DEF Sent
  <2>3. CASE ClosedOutput
    BY <2>3, WriterFacts DEF ClosedOutput
  <2>4. CASE Write \/ AddPart \/ SendSome \/ WriteFails \/ Flush \/ CloseOutput
    BY <2>4 DEF Write, AddPart, SendSome, WriteFails, Flush, CloseOutput
  <2> QED  BY <2>1, <2>2, <2>3, <2>4 DEF Writer
<1> QED  BY <1>1, <1>2 DEF OutVars, inVars

\* Every step keeps the invariant of reading.
LEMMA ReadNext ==
    ASSUME ReadInv, SoundUse(portUse), [PortsNext]_portVars
    PROVE  ReadInv'
<1>0. TypeInv'
  BY TypesNext DEF ReadInv
<1>1. CASE Reader
  BY <1>0, <1>1, ReaderInv
<1>2. CASE Writer
  BY <1>0, <1>2, WriterReads, OthersRead DEF ReadInv
<1>3. CASE CloseInput
  BY <1>0, <1>3, OthersRead DEF CloseInput, inVars, ghosts
<1>4. CASE PeerSends
  BY <1>0, <1>4, OthersRead DEF PeerSends, ghosts
<1>5. CASE PeerCloses
  BY <1>0, <1>5, OthersRead DEF PeerCloses, ghosts
<1>6. CASE UNCHANGED portVars
  BY <1>0, <1>6, OthersRead DEF portVars, inVars, ghosts
<1> QED  BY <1>1, <1>2, <1>3, <1>4, <1>5, <1>6 DEF PortsNext

\* Before the first byte nothing is held and nothing was taken.
LEMMA ReadStart == ASSUME PortsInit PROVE ReadInv
<1>1. /\ arrived = 0 /\ received = 0 /\ buflen = 0 /\ bufindex = 0 /\ rd.at = "idle"
      /\ consumed = <<>> /\ answer.of = "none"
  BY DEF PortsInit, NoCall, NoAnswer
<1>2. StreamOK /\ CallsOK
  BY <1>1 DEF StreamOK, CallsOK, Numbers, Held
<1> QED  BY <1>1, <1>2, TypesInit DEF ReadInv, LineOK, AnswerOK, PeekIsNext

\* What read-line returned, said of all that the peer has sent or will send.
LEMMA LinesFromAnswer ==
    ASSUME ReadInv
    PROVE  LinesAreWhole
<1>1. SUFFICES ASSUME answer.of = "line", rd = NoCall
      PROVE  LET last  == IF peerClosed THEN arrived ELSE Len(Kind)
                 ends  == { i \in answer.from..last : Kind[i] \in {"cr", "lf"} }
                 end   == IF ends = {} THEN last + 1
                          ELSE CHOOSE i \in ends : \A j \in ends : i <= j
                 bound == answer.from + answer.limit
             IN IF end >= bound
                THEN answer.text = bound - 1 /\ answer.next = bound - 1
                ELSE /\ answer.text = end - 1
                     /\ answer.next = IF end < last /\ Kind[end] = "cr" /\ Kind[end + 1] = "lf"
                                      THEN end + 1 ELSE Least(end, last)
  BY DEF LinesAreWhole
<1> DEFINE last == IF peerClosed THEN arrived ELSE Len(Kind)
           ends == { i \in answer.from..last : Kind[i] \in {"cr", "lf"} }
           bound == answer.from + answer.limit
<1>2. /\ answer.from \in Nat \ {0} /\ answer.limit \in Nat
      /\ answer.text \in Nat /\ answer.next \in Nat
      /\ AtLimit(answer) \/ AtLineEnd(answer) \/ AtInputEnd(answer)
  BY <1>1 DEF ReadInv, AnswerOK
<1>3. last \in Nat /\ received <= last /\ received \in Nat /\ (peerClosed => last = arrived)
  BY TypeFacts DEF ReadInv
<1>4. PICK end : end = IF ends = {} THEN last + 1 ELSE CHOOSE i \in ends : \A j \in ends : i <= j
  OBVIOUS
<1>5. /\ ends = {} => end = last + 1
      /\ ends # {} => end \in ends /\ \A j \in ends : end <= j
  <2>1. ends \in SUBSET Nat
    BY <1>2, <1>3
  <2>2. ASSUME ends # {} PROVE \E i \in ends : \A j \in ends : i <= j
    BY <2>1, <2>2, LeastNat
  <2> HIDE DEF ends, last
  <2> QED  BY <1>4, <2>2
<1>6. end \in Nat /\ \A i \in ends : i \in answer.from..last /\ Kind[i] \in {"cr", "lf"}
  BY <1>2, <1>3, <1>5
<1>7. \A i \in answer.from..last : Kind[i] \in {"cr", "lf"} => i \in ends
  OBVIOUS
<1> HIDE DEF last, ends
<1>8. SUFFICES IF end >= bound
               THEN answer.text = bound - 1 /\ answer.next = bound - 1
               ELSE /\ answer.text = end - 1
                    /\ answer.next = IF end < last /\ Kind[end] = "cr" /\ Kind[end + 1] = "lf"
                                     THEN end + 1 ELSE Least(end, last)
  BY <1>4 DEF last, ends
<1>9. PICK from, limit, text, next :
          from = answer.from /\ limit = answer.limit /\ text = answer.text /\ next = answer.next
  OBVIOUS
<1>10. from \in Nat /\ from > 0 /\ limit \in Nat /\ text \in Nat /\ next \in Nat /\ bound = from + limit
  BY <1>2, <1>9
<1> HIDE DEF bound
<1>11. CASE AtLimit(answer)
  <2>1. text = from + limit - 1 /\ next = text /\ text <= received /\ EndFree(from, text)
    BY <1>9, <1>11 DEF AtLimit
  <2>2. end > text
    <3>1. CASE ends = {}
      BY <1>3, <1>5, <1>10, <2>1, <3>1
    <3>2. CASE ends # {}
      <4>1. end \in from..last /\ Kind[end] \in {"cr", "lf"}
        BY <1>5, <1>6, <1>9, <3>2
      <4> QED  BY <1>3, <1>10, <2>1, <4>1 DEF EndFree
    <3> QED  BY <3>1, <3>2
  <2> QED  BY <1>6, <1>9, <1>10, <2>1, <2>2
<1>12. CASE AtLineEnd(answer)
  <2>1. /\ from <= text + 1 /\ text + 1 < from + limit /\ text + 1 <= received /\ EndFree(from, text)
        /\ Kind[text + 1] \in {"cr", "lf"}
    BY <1>9, <1>12 DEF AtLineEnd
  <2>2. end = text + 1
    <3>1. text + 1 \in from..last
      BY <1>3, <1>10, <2>1
    <3>2. text + 1 \in ends
      BY <1>7, <1>9, <2>1, <3>1
    <3>3. end <= text + 1 /\ end \in from..last /\ Kind[end] \in {"cr", "lf"}
      BY <1>5, <1>6, <1>9, <3>2
    <3>4. ~(end <= text)
      BY <1>6, <1>10, <2>1, <3>3 DEF EndFree
    <3> QED  BY <1>6, <1>10, <3>3, <3>4
  <2>3. ~(end >= bound) /\ text = end - 1 /\ end <= last
    BY <1>3, <1>6, <1>10, <2>1, <2>2
  <2>4. next = IF end < last /\ Kind[end] = "cr" /\ Kind[end + 1] = "lf" THEN end + 1 ELSE end
    <3>1. \/ Kind[end] = "lf" /\ next = end
          \/ Kind[end] = "cr" /\ end < received /\ Kind[end + 1] = "lf" /\ next = end + 1
          \/ Kind[end] = "cr" /\ next = end /\ end < received /\ Kind[end + 1] # "lf"
          \/ Kind[end] = "cr" /\ next = end /\ peerClosed /\ arrived = end
      BY <1>9, <1>12, <2>2 DEF AtLineEnd
    <3> QED  BY <1>3, <1>6, <3>1
  <2>5. Least(end, last) = end
    BY <1>3, <1>6, <2>3 DEF Least
  <2> QED  BY <1>9, <2>3, <2>4, <2>5
<1>13. CASE AtInputEnd(answer)
  <2>1. /\ peerClosed /\ arrived = text /\ next = text /\ text + 1 < from + limit /\ EndFree(from, text)
    BY <1>9, <1>13 DEF AtInputEnd
  <2>2. last = text /\ end = last + 1
    <3>1. last = text
      BY <1>3, <2>1
    <3>2. ends = {}
      <4>1. SUFFICES ASSUME ends # {} PROVE FALSE
        OBVIOUS
      <4>2. end \in from..last /\ Kind[end] \in {"cr", "lf"}
        BY <1>5, <1>6, <1>9, <4>1
      <4> QED  BY <2>1, <3>1, <4>2 DEF EndFree
    <3> QED  BY <1>5, <3>1, <3>2
  <2>3. ~(end >= bound) /\ text = end - 1 /\ ~(end < last) /\ Least(end, last) = last
    BY <1>3, <1>10, <2>1, <2>2 DEF Least
  <2> QED  BY <1>9, <2>1, <2>2, <2>3
<1> QED  BY <1>2, <1>11, <1>12, <1>13

-----------------------------------------------------------------------------
(***************************************************************************)
(* The theorem about input.                                                *)
(***************************************************************************)
\* The program gets the bytes of the peer in order, none missing and none
\* twice, however they are cut up, every line whole, and peek-char says what
\* read-char will read: of every connection that is used as SoundUse says
\* (tcp.scm, read-input and the procedures of the input port).
THEOREM InputComesWhole ==
    ASSUME \A u \in PortUses : SoundUse(u)
    PROVE  PortsSpec => []InputWhole
<1>1. PortsInit => ReadInv
  BY ReadStart
<1>2. ReadInv /\ [PortsNext]_portVars => ReadInv'
  BY ReadNext DEF ReadInv, TypeInv, PortsTypeOK
<1>3. ReadInv => InputWhole
  BY LinesFromAnswer DEF InputWhole, InputInOrder, ReadInv, StreamOK
<1> QED  BY <1>1, <1>2, <1>3, PTL DEF PortsSpec

-----------------------------------------------------------------------------
(***************************************************************************)
(* Output: the peer gets the bytes in order, and all of them.              *)
(***************************************************************************)
\* A writing thread that takes a step works on a socket that is open.
LEMMA WritersOpen ==
    ASSUME TypeInv, ShutOK, Writer
    PROVE  socket = "open" /\ (wr.at = "idle" \/ wr.at = "add" => ~oclosed)
<1>1. wr = NoCall => wr.at = "idle"
  BY WriteFields
<1>2. CASE Write \/ Flush \/ CloseOutput
  BY <1>1, <1>2 DEF Write, Flush, CloseOutput, ShutOK
<1>3. CASE AddAll \/ AddPart \/ SendSome \/ WriteFails \/ Sent \/ ClosedOutput
  BY <1>3 DEF AddAll, AddPart, SendSome, WriteFails, Sent, ClosedOutput, ShutOK
<1> QED  BY <1>2, <1>3 DEF Writer

\* The socket is shut down only after the output port was closed.
LEMMA ShutNext ==
    ASSUME TypeInv, ShutOK, Writer
    PROVE  ShutOK'
<1>0. /\ socket = "open" /\ (wr.at = "idle" \/ wr.at = "add" => ~oclosed) /\ NoCall.at = "idle"
      /\ (wr.at = "send" => wr \in SendCall)
  BY WritersOpen, WriteFields, WriterFacts
<1>1. CASE Write
  <2>1. ~oclosed' /\ socket' = "open" /\ portUse' = portUse
    BY <1>0, <1>1 DEF Write
  <2>2. wr'.at = "add" \/ wr'.then = "return"
    BY <1>1 DEF Write, Send
  <2> QED  BY <2>1, <2>2 DEF ShutOK
<1>2. CASE AddAll
  BY <1>0, <1>2 DEF AddAll, ShutOK
<1>3. CASE AddPart
  <2>1. ~oclosed' /\ socket' = "open" /\ wr'.then = "add"
    BY <1>0, <1>3 DEF AddPart, Send
  <2> QED  BY <2>1 DEF ShutOK
<1>4. CASE SendSome
  <2>1. wr'.at = "send" /\ wr'.then = wr.then
    BY <1>0, <1>4 DEF SendSome, Advance, SendCall
  <2> QED  BY <1>0, <1>4, <2>1 DEF SendSome, ShutOK
<1>5. CASE WriteFails
  BY <1>0, <1>5 DEF WriteFails, ShutOK
<1>6. CASE Sent
  <2>1. ~oclosed' /\ socket' = "open" /\ (wr'.at = "add" \/ wr'.at = "idle")
    BY <1>0, <1>6 DEF Sent, ShutOK
  <2> QED  BY <2>1 DEF ShutOK
<1>7. CASE Flush
  <2>1. ~oclosed' /\ socket' = "open" /\ wr'.then = "flush"
    BY <1>0, <1>7 DEF Flush, Send
  <2> QED  BY <2>1 DEF ShutOK
<1>8. CASE CloseOutput
  <2>1. oclosed' /\ "output" \in portUse.closes /\ portUse' = portUse /\ wr.at = "idle"
    BY <1>0, <1>8 DEF CloseOutput
  <2>2. \/ wr'.at = "send" /\ wr'.then = "close" /\ socket' = "open"
        \/ wr'.at = "idle"
    BY <1>0, <1>8, <2>1 DEF CloseOutput, Send
  <2> QED  BY <2>1, <2>2 DEF ShutOK
<1>9. CASE ClosedOutput
  <2>1. oclosed' /\ wr'.at = "idle" /\ "output" \in portUse.closes /\ portUse' = portUse
    BY <1>0, <1>9 DEF ClosedOutput, ShutOK
  <2> QED  BY <2>1 DEF ShutOK
<1> QED  BY <1>1, <1>2, <1>3, <1>4, <1>5, <1>6, <1>7, <1>8, <1>9 DEF Writer

\* Nothing is being written.
LEMMA IdleWrites ==
    ASSUME TypeInv, WriteOK, wr = NoCall
    PROVE  /\ Len(sent) + InBuffer = written /\ BufferedFrom(Len(sent), InBuffer)
           /\ InBuffer = IF OutSize > 0 THEN bufindex ELSE 0
           /\ InBuffer \in Nat /\ Len(sent) \in Nat /\ written \in Nat /\ bufindex \in Nat /\ OutSize \in Nat
BY WriterFacts, WriteFields DEF WriteOK, InBuffer

\* The next write begins.
LEMMA WriteBegins ==
    ASSUME TypeInv, WriteOK, Write, socket = "open"
    PROVE  WriteOK'
<1>1. PICK n \in 1..Least(portUse.maxWrite, portUse.maxOut - written), from \in portUse.writeFrom :
          /\ written' = written + n
          /\ IF OutSize = 0
             THEN Send(Handed(n, from), n, "return", <<>>)
             ELSE wr' = [at |-> "add", rest |-> Handed(n, from)]
  BY DEF Write
<1>2. PICK new : new = Handed(n, from)
  OBVIOUS
<1>3. /\ n \in Nat /\ written' = written + n /\ new \in Seq(Nat) /\ Len(new) = n
      /\ IF OutSize = 0 THEN Send(new, n, "return", <<>>)
                        ELSE wr' = [at |-> "add", rest |-> new]
  BY <1>1, <1>2, NewBytes
<1>4. /\ Len(sent) + InBuffer = written /\ BufferedFrom(Len(sent), InBuffer)
      /\ InBuffer = IF OutSize > 0 THEN bufindex ELSE 0
      /\ Len(sent) \in Nat /\ written \in Nat /\ bufindex \in Nat /\ OutSize \in Nat
  BY IdleWrites DEF Write
<1>5. /\ UNCHANGED <<bufindex, outbuf, sent, flushed, OutSize, WritesWhole>> /\ socket' = "open"
  BY DEF Write, OutSize, WritesWhole
<1>6. (WritesWhole => Numbers(sent))' /\ flushed' <= Len(sent')
  BY <1>5 DEF WriteOK, Numbers
<1>7. DOMAIN new = 1..n /\ \A i \in 1..n : Byte(new[i], written + i)
  BY <1>2, NewBytes
<1>8. CASE OutSize = 0
  <2>1. /\ wr'.at = "send" /\ wr'.msg = new /\ wr'.off = 0 /\ wr'.len = n /\ wr'.then = "return"
        /\ wr'.rest = <<>>
    BY <1>3, <1>8 DEF Send
  <2>2. Len(sent') = written /\ Len(sent') - wr'.off = written /\ Len(wr'.rest) = 0
    BY <1>4, <1>5, <1>8, <2>1
  <2>3. RestOK'
    BY <2>1 DEF RestOK
  <2> QED  BY <1>3, <1>4, <1>5, <1>6, <1>7, <2>1, <2>2, <2>3 DEF WriteOK, Byte
<1>9. CASE OutSize # 0
  <2>1. wr'.at = "add" /\ wr'.rest = new /\ OutSize > 0
    BY <1>3, <1>4, <1>9
  <2>2. Len(sent) + bufindex = written /\ BufferedFrom(Len(sent), bufindex)
    BY <1>4, <2>1
  <2>3. BufferedFrom(Len(sent), bufindex)'
    BY <1>5, <2>2 DEF BufferedFrom, Byte
  <2>4. Len(sent') + bufindex' + Len(wr'.rest) = written'
    BY <1>3, <1>4, <1>5, <2>1, <2>2
  <2>5. RestOK'
    <3>1. written' - Len(wr'.rest) = written
      BY <1>3, <1>4, <2>1
    <3> QED  BY <1>5, <1>7, <2>1, <3>1 DEF RestOK, Byte
  <2> QED  BY <1>5, <1>6, <2>1, <2>3, <2>4, <2>5 DEF WriteOK
<1> QED  BY <1>8, <1>9

\* add-to-buf: what is put behind the bytes in the buffer are the next ones.
LEMMA AddFacts ==
    ASSUME TypeInv, WriteOK, wr.at = "add"
    PROVE  /\ bufindex \in Nat /\ OutSize \in Nat /\ OutSize > 0 /\ bufindex <= OutSize
           /\ Len(sent) \in Nat /\ written \in Nat
           /\ Len(wr.rest) \in Nat /\ wr.rest \in Seq(0..portUse.maxOut)
           /\ Len(sent) + bufindex + Len(wr.rest) = written
           /\ BufferedFrom(Len(sent), bufindex) /\ RestOK /\ (WritesWhole => Numbers(sent))
           /\ flushed <= Len(sent)
BY WriterFacts, WriteFields DEF WriteOK

\* The characters that did not fit are the last ones written.
LEMMA RestBytes ==
    ASSUME RestOK, NEW S, wr.rest \in Seq(S)
    PROVE  \A i \in 1..Len(wr.rest) : Byte(wr.rest[i], written - Len(wr.rest) + i)
<1>1. PICK r : r = wr.rest
  OBVIOUS
<1>2. r \in Seq(S) /\ \A i \in DOMAIN r : Byte(r[i], written - Len(r) + i)
  BY <1>1 DEF RestOK
<1>3. DOMAIN r = 1..Len(r)
  BY <1>2
<1> QED  BY <1>1, <1>2, <1>3

\* With n of the rest added, the output buffer follows what was sent.
LEMMA AddedBytes ==
    ASSUME TypeInv, WriteOK, wr.at = "add", NEW n \in Nat, n <= Len(wr.rest), bufindex + n <= OutSize
    PROVE  \A i \in 0..bufindex+n-1 : Byte(Outbuf(n)[i], Len(sent) + i + 1)
<1>1. /\ bufindex \in Nat /\ OutSize \in Nat /\ Len(sent) \in Nat /\ written \in Nat
      /\ BufferedFrom(Len(sent), bufindex) /\ RestOK /\ Len(wr.rest) \in Nat
      /\ Len(sent) + bufindex + Len(wr.rest) = written /\ wr.rest \in Seq(0..portUse.maxOut)
  BY AddFacts
<1>2. SUFFICES ASSUME NEW i \in 0..bufindex+n-1 PROVE Byte(Outbuf(n)[i], Len(sent) + i + 1)
  OBVIOUS
<1>3. i \in 0..OutSize-1 /\ i \in Nat /\ i < bufindex + n
  BY <1>1
<1>4. Outbuf(n)[i] = IF bufindex <= i /\ i < bufindex + n THEN wr.rest[i - bufindex + 1] ELSE outbuf[i]
  BY <1>3, Added
<1>5. CASE bufindex <= i
  <2>1. PICK k, l : k = i - bufindex + 1 /\ l = Len(wr.rest)
    OBVIOUS
  <2>2. k \in 1..l /\ l \in Nat
    BY <1>1, <1>3, <1>5, <2>1
  <2>3. Byte(wr.rest[k], written - l + k)
    BY <1>1, <2>1, <2>2, RestBytes
  <2>4. written - l + k = Len(sent) + i + 1
    <3>1. PICK s : s = Len(sent)
      OBVIOUS
    <3>2. /\ s \in Nat /\ bufindex \in Nat /\ l \in Nat /\ i \in Nat /\ written \in Nat
          /\ s + bufindex + l = written /\ k = i - bufindex + 1
      BY <1>1, <1>3, <2>1, <3>1
    <3>3. written - l + k = s + i + 1
      BY <3>2
    <3> QED  BY <3>1, <3>3
  <2>5. Outbuf(n)[i] = wr.rest[k]
    BY <1>3, <1>4, <1>5, <2>1
  <2> QED  BY <2>3, <2>4, <2>5
<1>6. CASE ~(bufindex <= i)
  <2>1. i \in 0..bufindex-1
    BY <1>1, <1>3, <1>6
  <2>2. Outbuf(n)[i] = outbuf[i] /\ Byte(outbuf[i], Len(sent) + i + 1)
    BY <1>1, <1>4, <1>6, <2>1 DEF BufferedFrom
  <2> QED  BY <2>2
<1> QED  BY <1>5, <1>6

\* A string that fits is added to the output buffer.
LEMMA AddAllKeeps ==
    ASSUME TypeInv, WriteOK, AddAll, socket = "open"
    PROVE  WriteOK'
<1>1. wr.at = "add" /\ Fits
  BY DEF AddAll
<1>2. PICK n : n = Len(wr.rest)
  OBVIOUS
<1>3. /\ n \in Nat /\ bufindex + n <= OutSize /\ OutSize > 0 /\ OutSize \in Nat /\ bufindex \in Nat
      /\ Len(sent) \in Nat /\ Len(sent) + (bufindex + n) = written
      /\ (WritesWhole => Numbers(sent)) /\ flushed <= Len(sent)
  BY <1>1, <1>2, AddFacts DEF Fits
<1>4. \A i \in 0..bufindex+n-1 : Byte(Outbuf(n)[i], Len(sent) + i + 1)
  BY <1>1, <1>2, <1>3, AddedBytes
<1>5. /\ outbuf' = Outbuf(n) /\ bufindex' = bufindex + n /\ wr' = NoCall /\ wr'.at = "idle"
      /\ UNCHANGED <<sent, written, flushed, OutSize, WritesWhole>> /\ socket' = "open"
  BY <1>2, WriteFields DEF AddAll, OutSize, WritesWhole
<1>6. InBuffer' = bufindex + n
  BY <1>3, <1>5 DEF InBuffer
<1>7. BufferedFrom(Len(sent), InBuffer)'
  <2>1. PICK new, to, l : new = Outbuf(n) /\ to = bufindex + n /\ l = Len(sent)
    OBVIOUS
  <2>2. \A i \in 0..to-1 : WritesWhole => new[i] = l + i + 1
    <3>1. SUFFICES ASSUME NEW i \in 0..to-1 PROVE Byte(new[i], l + i + 1)
      BY DEF Byte
    <3>2. i \in 0..bufindex+n-1
      BY <1>3, <2>1, <3>1
    <3>3. Byte(Outbuf(n)[i], Len(sent) + i + 1)
      BY <1>4, <3>2
    <3> QED  BY <2>1, <3>3, Zenon
  <2>3. outbuf' = new /\ InBuffer' = to /\ Len(sent') = l /\ WritesWhole' = WritesWhole
    BY <1>5, <1>6, <2>1
  <2>4. \A i \in 0..InBuffer'-1 : WritesWhole' => outbuf'[i] = Len(sent') + i + 1
    BY ONLY <2>2, <2>3
  <2> QED  BY <2>4 DEF BufferedFrom, Byte
<1>8. (WritesWhole => Numbers(sent))'
  BY <1>3, <1>5 DEF Numbers
<1> QED  BY <1>3, <1>5, <1>6, <1>7, <1>8 DEF WriteOK

\* A string that does not fit fills the output buffer, which is sent.
LEMMA AddPartKeeps ==
    ASSUME TypeInv, WriteOK, AddPart, socket = "open"
    PROVE  WriteOK'
<1>1. wr.at = "add" /\ ~Fits
  BY DEF AddPart
<1>2. PICK n, r, l : n = OutSize - bufindex /\ r = wr.rest /\ l = Len(wr.rest)
  OBVIOUS
<1>3. /\ bufindex \in Nat /\ OutSize \in Nat /\ OutSize > 0 /\ Len(sent) \in Nat /\ written \in Nat
      /\ l \in Nat /\ r \in Seq(0..portUse.maxOut) /\ l = Len(r)
      /\ Len(sent) + bufindex + l = written /\ (WritesWhole => Numbers(sent))
      /\ flushed <= Len(sent) /\ RestOK
      /\ n \in Nat /\ bufindex + n = OutSize /\ n <= l
  BY <1>1, <1>2, AddFacts DEF Fits
<1>4. \A i \in 0..OutSize-1 : Byte(Outbuf(n)[i], Len(sent) + i + 1)
  <2>1. \A i \in 0..bufindex+n-1 : Byte(Outbuf(n)[i], Len(sent) + i + 1)
    BY <1>1, <1>2, <1>3, AddedBytes
  <2> QED  BY <1>3, <2>1
<1>5. PICK rest : rest = SubSeq(r, n + 1, l)
  OBVIOUS
<1>6. Len(rest) = l - n /\ \A i \in 1..l-n : rest[i] = r[n + i]
  BY <1>3, <1>5
<1>7. /\ outbuf' = Outbuf(n) /\ Send(<<>>, OutSize, "add", rest)
      /\ UNCHANGED <<sent, written, flushed, bufindex, OutSize, WritesWhole>> /\ socket' = "open"
  BY <1>2, <1>5 DEF AddPart, OutSize, WritesWhole
<1>8. wr'.at = "send" /\ wr'.off = 0 /\ wr'.len = OutSize /\ wr'.then = "add" /\ wr'.rest = rest
  BY <1>7 DEF Send
<1>9. RestOK'
  <2>1. \A i \in 1..l : Byte(r[i], written - l + i)
    BY <1>2, <1>3, RestBytes
  <2>2. DOMAIN rest = 1..l-n
    BY <1>3, <1>5
  <2>3. \A i \in 1..l-n : Byte(rest[i], written - (l - n) + i)
    <3> TAKE i \in 1..l-n
    <3>1. n + i \in 1..l
      BY <1>3
    <3>2. rest[i] = r[n + i] /\ Byte(r[n + i], written - l + (n + i))
      BY <1>6, <2>1, <3>1
    <3>3. written - l + (n + i) = written - (l - n) + i
      BY <1>3
    <3> QED  BY <3>2, <3>3
  <2>4. Len(rest) = l - n
    BY <1>6
  <2> QED  BY <1>7, <1>8, <2>2, <2>3, <2>4 DEF RestOK, Byte
<1>10. Len(sent') - wr'.off = Len(sent) /\ Len(sent) + wr'.len + Len(wr'.rest) = written'
  <2>1. Len(rest) = l - n /\ Len(sent) + bufindex + l = written
    BY <1>3, <1>6
  <2>2. PICK k, m : k = Len(sent) /\ m = Len(rest)
    OBVIOUS
  <2>3. k - 0 = k /\ k + OutSize + m = written
    BY <1>3, <2>1, <2>2
  <2> QED  BY <1>7, <1>8, <2>2, <2>3
<1>11. BufferedFrom(Len(sent), OutSize)'
  BY <1>4, <1>7 DEF BufferedFrom, Byte
<1>12. (WritesWhole => Numbers(sent))'
  BY <1>3, <1>7 DEF Numbers
<1> QED  BY <1>3, <1>7, <1>8, <1>9, <1>10, <1>11, <1>12 DEF WriteOK, BufferedFrom

\* output-to-socket: what is sent are the next bytes.
LEMMA SendFacts ==
    ASSUME TypeInv, WriteOK, wr.at = "send"
    PROVE  /\ wr \in SendCall /\ wr.off \in Nat /\ wr.len \in Nat /\ Len(sent) \in Nat /\ written \in Nat
           /\ Len(wr.rest) \in Nat /\ OutSize \in Nat /\ bufindex \in Nat
           /\ wr.then = "return" => wr.len = Len(wr.msg) /\ wr.msg \in Seq(Nat) /\ OutSize = 0
           /\ wr.then # "return" => OutSize > 0
           /\ (Len(sent) - wr.off) + wr.len + Len(wr.rest) = written /\ RestOK
           /\ wr.then # "add" => wr.rest = <<>>
           /\ wr.then = "return" => \A i \in DOMAIN wr.msg : Byte(wr.msg[i], (Len(sent) - wr.off) + i)
           /\ wr.then # "return" => BufferedFrom(Len(sent) - wr.off, wr.len)
           /\ (WritesWhole => Numbers(sent)) /\ flushed <= Len(sent)
<1>1. wr \in SendCall /\ OutSize \in Nat /\ Len(sent) \in Nat /\ written \in Nat /\ bufindex \in Nat
      /\ IF wr.then = "return" THEN OutSize = 0 /\ wr.len = Len(wr.msg) ELSE OutSize > 0
  BY WriterFacts
<1>2. /\ wr.off \in Nat /\ wr.len \in Nat /\ Len(wr.rest) \in Nat /\ wr.msg \in Seq(Nat)
  BY <1>1, WriteFields
<1> QED  BY <1>1, <1>2 DEF WriteOK

\* send() takes some of the message.
LEMMA SendSomeKeeps ==
    ASSUME TypeInv, WriteOK, SendSome, socket = "open"
    PROVE  WriteOK'
<1>1. wr.at = "send" /\ wr.off < wr.len
  BY DEF SendSome
<1>2. PICK n \in 1..Least(ChunkSize, wr.len - wr.off) :
          sent' = sent \o SubSeq(Message, wr.off + 1, wr.off + n) /\ wr' = Advance(n)
  BY DEF SendSome
<1>3. PICK off, len, base : off = wr.off /\ len = wr.len /\ base = Len(sent) - wr.off
  OBVIOUS
<1>4. off \in Nat /\ len \in Nat /\ base \in Int /\ base + off = Len(sent) /\ Len(sent) \in Nat
  <2>1. wr.off \in Nat /\ wr.len \in Nat /\ Len(sent) \in Nat
    BY <1>1, SendFacts
  <2>2. PICK s : s = Len(sent)
    OBVIOUS
  <2>3. off \in Nat /\ len \in Nat /\ s \in Nat /\ base = s - off
    BY <1>3, <2>1, <2>2
  <2>4. base \in Int /\ base + off = s
    BY <2>3
  <2> QED  BY <2>2, <2>3, <2>4
<1>5. n \in Nat /\ off + n <= len
  <2>1. PICK c, l : c = ChunkSize /\ l = Least(c, len - off)
    OBVIOUS
  <2>2. c \in Int /\ len - off \in Int
    BY <1>4, <2>1, UseTypes, WriterFacts
  <2>3. l \in Int /\ l <= len - off
    BY <2>1, <2>2, Leasts
  <2>4. n \in 1..l
    BY <1>2, <1>3, <2>1
  <2> QED  BY <1>4, <2>3, <2>4
<1>6. PICK bytes : bytes = SubSeq(Message, off + 1, off + n)
  OBVIOUS
<1>7. /\ bytes \in Seq(Nat) /\ Len(bytes) = n
      /\ \A i \in 1..n : bytes[i] = IF wr.then = "return" THEN wr.msg[off + i] ELSE outbuf[off + i - 1]
  BY <1>1, <1>3, <1>4, <1>5, <1>6, MessageTypes
<1>8. \A i \in DOMAIN bytes : Byte(bytes[i], Len(sent) + i)
  <2>1. SUFFICES ASSUME NEW i \in 1..n PROVE Byte(bytes[i], Len(sent) + i)
    BY <1>7
  <2>2. CASE wr.then = "return"
    <3>1. PICK m : m = wr.msg
      OBVIOUS
    <3>2. len = Len(m) /\ m \in Seq(Nat) /\ \A j \in DOMAIN m : Byte(m[j], base + j)
      BY <1>1, <1>3, <2>2, <3>1, SendFacts
    <3>3. PICK k : k = off + i
      OBVIOUS
    <3>4. k \in DOMAIN m /\ base + k = Len(sent) + i
      <4>1. PICK s : s = Len(sent)
        OBVIOUS
      <4>2. s \in Nat /\ off \in Nat /\ len \in Nat /\ base \in Int /\ base + off = s /\ off + n <= len /\ n \in Nat
        BY <1>4, <1>5, <4>1
      <4>3. k \in 1..len /\ base + k = s + i
        BY <3>3, <4>2
      <4> QED  BY <3>2, <4>1, <4>3
    <3>5. bytes[i] = m[k]
      BY <1>7, <2>2, <3>1, <3>3
    <3> QED  BY <3>2, <3>4, <3>5
  <2>3. CASE wr.then # "return"
    <3>1. PICK k : k = off + i - 1
      OBVIOUS
    <3>2. k \in 0..len-1 /\ base + k + 1 = Len(sent) + i
      BY <1>4, <1>5, <3>1
    <3>3. Byte(outbuf[k], base + k + 1)
      BY <1>1, <1>3, <2>3, <3>2, SendFacts DEF BufferedFrom
    <3>4. bytes[i] = outbuf[k]
      BY <1>7, <2>3, <3>1
    <3> QED  BY <3>2, <3>3, <3>4
  <2> QED  BY <2>2, <2>3
<1>9. (WritesWhole => Numbers(sent))' /\ Len(sent') = Len(sent) + n
  <2>1. PICK s, t : s = sent /\ t = sent'
    OBVIOUS
  <2>2. s \in Seq(Nat) /\ (WritesWhole => Numbers(s)) /\ t = s \o bytes
    BY <1>1, <1>2, <1>3, <1>6, <2>1, SendFacts, WriterFacts
  <2>3. Len(t) = Len(s) + n
    BY <1>7, <2>2, Joins
  <2>4. ASSUME WritesWhole PROVE Numbers(t)
    <3>1. \A i \in DOMAIN bytes : bytes[i] = Len(s) + i
      BY <1>8, <2>1, <2>4 DEF Byte
    <3> QED  BY <1>7, <2>2, <2>4, <3>1, Joins
  <2>5. WritesWhole' = WritesWhole
    BY DEF SendSome, WritesWhole
  <2> QED  BY <2>1, <2>3, <2>4, <2>5 DEF Numbers
<1>10. /\ wr'.at = "send" /\ wr'.off = off + n /\ wr'.len = len /\ wr'.then = wr.then
       /\ wr'.msg = wr.msg /\ wr'.rest = wr.rest
  BY <1>1, <1>2, <1>3, SendFacts DEF Advance, SendCall
<1>11. Len(sent') - wr'.off = base
  BY <1>4, <1>5, <1>9, <1>10
<1>12. UNCHANGED <<outbuf, written, flushed, socket, WritesWhole>>
  BY DEF SendSome, WritesWhole
<1>13. RestOK' /\ flushed' <= Len(sent')
  <2>1. RestOK'
    BY <1>1, <1>10, <1>12, SendFacts DEF RestOK, Byte
  <2> QED  BY <1>1, <1>4, <1>5, <1>9, <1>12, <2>1, SendFacts, WriterFacts
<1>14. /\ base + wr'.len + Len(wr'.rest) = written'
       /\ wr'.then # "add" => wr'.rest = <<>>
       /\ wr'.then = "return" => \A i \in DOMAIN wr'.msg : Byte(wr'.msg[i], base + i)
  BY <1>1, <1>3, <1>10, <1>12, SendFacts
<1>15. wr'.then # "return" => \A i \in 0..wr'.len-1 : Byte(outbuf'[i], base + i + 1)
  BY <1>1, <1>3, <1>10, <1>12, SendFacts DEF BufferedFrom
<1> QED  BY <1>9, <1>10, <1>11, <1>12, <1>13, <1>14, <1>15 DEF WriteOK, BufferedFrom, Byte

\* output-to-socket returns to where it was called from.
LEMMA SentKeeps ==
    ASSUME TypeInv, WriteOK, Sent, socket = "open"
    PROVE  WriteOK'
<1>1. wr.at = "send" /\ wr.off = wr.len /\ wr.then # "close"
  BY DEF Sent
<1>2. PICK l, rest : l = Len(sent) /\ rest = wr.rest
  OBVIOUS
<1>3. /\ l \in Nat /\ written \in Nat /\ Len(rest) \in Nat /\ l + Len(rest) = written
      /\ (WritesWhole => Numbers(sent)) /\ flushed <= l /\ RestOK /\ OutSize \in Nat
      /\ wr.then # "add" => rest = <<>>
      /\ IF wr.then = "return" THEN OutSize = 0 ELSE OutSize > 0
  <2>1. PICK off : off = wr.off
    OBVIOUS
  <2>2. off \in Nat /\ l \in Nat /\ Len(rest) \in Nat /\ (l - off) + off + Len(rest) = written
    BY <1>1, <1>2, <2>1, SendFacts
  <2>3. l + Len(rest) = written
    BY <2>2
  <2> QED  BY <1>1, <1>2, <2>2, <2>3, SendFacts
<1>4. /\ UNCHANGED <<outbuf, sent, written, socket, OutSize, WritesWhole>>
      /\ bufindex' = IF wr.then = "return" THEN bufindex ELSE 0
      /\ flushed' = IF wr.then = "flush" THEN written ELSE flushed
  BY DEF Sent, OutSize, Emptied, WritesWhole
<1>5. (WritesWhole => Numbers(sent))' /\ flushed' <= Len(sent')
  BY <1>2, <1>3, <1>4 DEF Numbers
<1>6. CASE wr.then = "add"
  <2>1. wr'.at = "add" /\ wr'.rest = rest /\ bufindex' = 0
    BY <1>2, <1>4, <1>6 DEF Sent
  <2>2. RestOK'
    BY <1>2, <1>3, <1>4, <2>1 DEF RestOK, Byte
  <2>3. BufferedFrom(Len(sent), bufindex)'
    BY <2>1 DEF BufferedFrom
  <2>4. Len(sent') + bufindex' + Len(wr'.rest) = written' /\ socket' = "open"
    <3>1. Len(sent') = l /\ Len(wr'.rest) = Len(rest) /\ written' = written /\ socket' = "open"
      BY <1>2, <1>4, <2>1, Zenon
    <3>2. l + 0 + Len(rest) = written
      BY <1>3
    <3> QED  BY <2>1, <3>1, <3>2
  <2> QED  BY <1>5, <2>1, <2>2, <2>3, <2>4 DEF WriteOK
<1>7. CASE wr.then # "add"
  <2>1. wr' = NoCall /\ wr'.at = "idle" /\ l = written
    BY <1>3, <1>7, WriteFields DEF Sent
  <2>2. InBuffer' = 0
    BY <1>3, <1>4 DEF InBuffer
  <2>3. BufferedFrom(Len(sent), InBuffer)'
    BY <2>2 DEF BufferedFrom
  <2> QED  BY <1>2, <1>3, <1>4, <1>5, <2>1, <2>2, <2>3 DEF WriteOK
<1> QED  BY <1>6, <1>7

\* What is in the buffer is to be sent.
LEMMA FlushBegins ==
    ASSUME TypeInv, WriteOK, wr = NoCall, OutSize > 0, socket = "open",
           NEW then \in {"flush", "close"}, Send(<<>>, bufindex, then, <<>>),
           UNCHANGED <<portUse, bufindex, outVars, socket>>
    PROVE  WriteOK'
<1>1. /\ Len(sent) + bufindex = written /\ BufferedFrom(Len(sent), bufindex) /\ Len(sent) \in Nat
      /\ bufindex \in Nat
  BY IdleWrites
<1>2. /\ wr'.at = "send" /\ wr'.off = 0 /\ wr'.len = bufindex /\ wr'.then = then /\ wr'.rest = <<>>
  BY DEF Send
<1>3. UNCHANGED <<outbuf, sent, written, flushed, WritesWhole>>
  BY DEF outVars, WritesWhole
<1>4. Len(sent') - wr'.off = Len(sent) /\ Len(sent) + wr'.len + Len(wr'.rest) = written'
  BY <1>1, <1>2, <1>3
<1>5. RestOK'
  BY <1>2 DEF RestOK
<1> QED  BY <1>1, <1>2, <1>3, <1>4, <1>5 DEF WriteOK, BufferedFrom, Byte, Numbers

\* The output port is closed with nothing left to send.
LEMMA OutputEnds ==
    ASSUME TypeInv, WriteOK, UNCHANGED <<portUse, outVars>>, wr' = NoCall,
           Len(sent) = written, InBuffer' = 0
    PROVE  WriteOK'
<1>1. UNCHANGED <<outbuf, sent, written, flushed, WritesWhole>> /\ wr'.at = "idle"
  BY WriteFields DEF outVars, WritesWhole
<1>2. BufferedFrom(Len(sent), InBuffer)'
  BY DEF BufferedFrom
<1>3. Len(sent) \in Nat
  BY WriterFacts
<1> QED  BY <1>1, <1>2, <1>3 DEF WriteOK, Numbers

\* Closing the output port begins to send its buffer.
LEMMA CloseOutputKeeps ==
    ASSUME TypeInv, WriteOK, CloseOutput, socket = "open"
    PROVE  WriteOK'
<1>1. wr = NoCall /\ UNCHANGED <<portUse, bufindex, outVars, OutSize>>
  BY DEF CloseOutput, OutSize
<1>2. CASE OutSize > 0 /\ bufindex > 0
  BY <1>1, <1>2, FlushBegins DEF CloseOutput
<1>3. CASE ~(OutSize > 0 /\ bufindex > 0)
  <2>1. InBuffer = 0 /\ Len(sent) = written
    BY <1>1, <1>3, IdleWrites
  <2>2. InBuffer' = 0 /\ wr' = NoCall
    BY <1>1, <1>3, <2>1 DEF InBuffer, CloseOutput
  <2> QED  BY <1>1, <2>1, <2>2, OutputEnds
<1> QED  BY <1>2, <1>3

\* With its buffer sent the output port is closed.
LEMMA ClosedOutputKeeps ==
    ASSUME TypeInv, WriteOK, ClosedOutput
    PROVE  WriteOK'
<1>1. wr.at = "send" /\ wr.off = wr.len /\ wr.then = "close" /\ UNCHANGED <<portUse, outVars>>
      /\ wr' = NoCall /\ bufindex' = 0
  BY DEF ClosedOutput, Emptied
<1>2. Len(sent) = written
  <2>1. PICK l, off : l = Len(sent) /\ off = wr.off
    OBVIOUS
  <2>2. l \in Nat /\ off \in Nat /\ Len(wr.rest) = 0 /\ (l - off) + off + Len(wr.rest) = written
    BY <1>1, <2>1, SendFacts
  <2> QED  BY <2>1, <2>2
<1> QED  BY <1>1, <1>2, OutputEnds DEF InBuffer

\* While nothing fails the writing thread keeps its bytes in order.
LEMMA WriterKeeps ==
    ASSUME TypeInv, ShutOK, WriteOK, Writer, ~failed'
    PROVE  WriteOK'
<1>0. socket = "open"
  BY WritersOpen
<1>1. CASE Write
  BY <1>0, <1>1, WriteBegins
<1>2. CASE AddAll
  BY <1>0, <1>2, AddAllKeeps
<1>3. CASE AddPart
  BY <1>0, <1>3, AddPartKeeps
<1>4. CASE SendSome
  BY <1>0, <1>4, SendSomeKeeps
<1>5. CASE WriteFails
  BY <1>5 DEF WriteFails
<1>6. CASE Sent
  BY <1>0, <1>6, SentKeeps
<1>7. CASE Flush
  BY <1>0, <1>7, FlushBegins DEF Flush
<1>8. CASE CloseOutput
  BY <1>0, <1>8, CloseOutputKeeps
<1>9. CASE ClosedOutput
  BY <1>9, ClosedOutputKeeps
<1> QED  BY <1>1, <1>2, <1>3, <1>4, <1>5, <1>6, <1>7, <1>8, <1>9 DEF Writer

\* The steps of the others.
LEMMA OthersWrite ==
    ASSUME ShutOK, TypeInv, UNCHANGED <<portUse, outVars, wr, oclosed, socket>>,
           bufindex' = bufindex \/ OutSize = 0
    PROVE  ShutOK' /\ (WriteOK => WriteOK')
<1>1. UNCHANGED <<OutSize, outbuf, sent, written, flushed, WritesWhole>>
  BY DEF OutSize, outVars, WritesWhole
<1>2. InBuffer' = InBuffer
  BY <1>1, WriterFacts DEF InBuffer
<1>3. ShutOK'
  BY DEF ShutOK
<1>4. ASSUME WriteOK PROVE WriteOK'
  <2>1. wr.at = "add" => bufindex' = bufindex
    BY WriterFacts
  <2> QED  BY <1>1, <1>2, <1>4, <2>1 DEF WriteOK, BufferedFrom, RestOK, Byte, Numbers
<1> QED  BY <1>3, <1>4

\* What the reader does leaves the writer alone, apart from a failure.
LEMMA ReadersWrite ==
    ASSUME TypeInv, SoundUse(portUse), Reader
    PROVE  UNCHANGED <<portUse, outVars, wr, oclosed, socket>> /\ OutSize = 0 /\ (failed => failed')
<1>1. OutSize = 0
  BY ReadersReadOnly
<1>2. UNCHANGED <<portUse, outVars, wr, closeVars>>
  BY DEF Reader, BeginRead, NeedsInput, Recv, RecvEnd, ReadTimeout, ReadChar, ReadBytes, PeekChar,
         ReadBuffered, CharReady, LineEnds, LineLimit, LineDone, LineMore, RecvMore, RecvAfterCr
<1>3. failed' = failed \/ failed' = TRUE \/ (failed' <=> (failed \/ (rd.op = "char" /\ rd.got > 0)))
  BY DEF Reader, BeginRead, NeedsInput, Recv, RecvEnd, ReadTimeout, ReadChar, ReadBytes, PeekChar,
         ReadBuffered, CharReady, LineEnds, LineLimit, LineDone, LineMore, RecvMore, RecvAfterCr, ghosts
<1> QED  BY <1>1, <1>2, <1>3 DEF closeVars

\* Only a program that buffers no output closes the input port second.
LEMMA CloseInputWrites ==
    ASSUME TypeInv, ShutOK, SoundUse(portUse), CloseInput
    PROVE  ShutOK' /\ (WriteOK => WriteOK')
<1>1. /\ "input" \in portUse.closes /\ socket' = IF oclosed THEN "closed" ELSE socket
      /\ UNCHANGED <<portUse, bufindex, outVars, wr, oclosed>>
  BY DEF CloseInput
<1>2. CASE ~oclosed
  BY <1>1, <1>2, OthersWrite
<1>3. CASE oclosed
  <2>1. OutSize = 0
    <3>1. "output" \in portUse.closes
      BY <1>3 DEF ShutOK
    <3>2. portUse.closes \subseteq {"input", "output"}
      BY PortUsesAssumption DEF TypeInv, PortsTypeOK, PortUseTypeOK
    <3>3. portUse.closes = {"input", "output"}
      BY <1>1, <3>1, <3>2
    <3> QED  BY <3>3 DEF SoundUse, FlushesFirst, OutSize
  <2>2. wr.at = "idle" /\ wr = NoCall
    BY <1>3, <2>1, WriterFacts DEF ShutOK
  <2>3. ShutOK'
    BY <1>1, <1>3, <2>2 DEF ShutOK
  <2>4. ASSUME WriteOK PROVE WriteOK'
    <3>1. Len(sent) = written
      BY <2>1, <2>2, <2>4, IdleWrites
    <3>2. InBuffer' = 0
      BY <1>1, <2>1 DEF InBuffer, OutSize
    <3> QED  BY <1>1, <2>2, <2>4, <3>1, <3>2, OutputEnds
  <2> QED  BY <2>3, <2>4
<1> QED  BY <1>2, <1>3

\* Every step keeps the invariant of writing.
LEMMA WriteNext ==
    ASSUME WriteInv, SoundUse(portUse), [PortsNext]_portVars
    PROVE  WriteInv'
<1>0. TypeInv' /\ TypeInv /\ ShutOK /\ (~failed => WriteOK)
  BY TypesNext DEF WriteInv
<1>1. CASE Reader
  BY <1>0, <1>1, ReadersWrite, OthersWrite DEF WriteInv
<1>2. CASE Writer
  <2>1. failed => failed'
    BY <1>2 DEF Writer, Write, AddAll, AddPart, SendSome, WriteFails, Sent, Flush, CloseOutput,
                ClosedOutput
  <2> QED  BY <1>0, <1>2, <2>1, ShutNext, WriterKeeps DEF WriteInv
<1>3. CASE CloseInput
  <2>1. failed' = failed
    BY <1>3 DEF CloseInput, ghosts
  <2> QED  BY <1>0, <1>3, <2>1, CloseInputWrites DEF WriteInv
<1>4. CASE PeerSends
  BY <1>0, <1>4, OthersWrite DEF PeerSends, ghosts, closeVars, WriteInv
<1>5. CASE PeerCloses
  BY <1>0, <1>5, OthersWrite DEF PeerCloses, ghosts, closeVars, WriteInv
<1>6. CASE UNCHANGED portVars
  BY <1>0, <1>6, OthersWrite DEF portVars, ghosts, closeVars, WriteInv
<1> QED  BY <1>1, <1>2, <1>3, <1>4, <1>5, <1>6 DEF PortsNext

\* Before the first call nothing is written and nothing sent.
LEMMA WriteStart == ASSUME PortsInit PROVE WriteInv
<1>1. /\ bufindex = 0 /\ wr.at = "idle" /\ sent = <<>> /\ written = 0 /\ flushed = 0 /\ oclosed = FALSE
      /\ socket = "open"
  BY DEF PortsInit, NoCall
<1>2. InBuffer = 0 /\ Len(sent) = 0
  BY <1>1 DEF InBuffer
<1>3. WriteOK
  BY <1>1, <1>2 DEF WriteOK, Numbers, BufferedFrom
<1>4. ShutOK
  BY <1>1 DEF ShutOK
<1> QED  BY <1>3, <1>4, TypesInit DEF WriteInv

-----------------------------------------------------------------------------
(***************************************************************************)
(* The theorem about output.                                               *)
(***************************************************************************)
\* The peer gets what the program wrote in order and once (of bytevectors that are
\* written from their start), as many bytes as were flushed, and the end of the
\* stream after as many as were written at all, as long as no operation fails; and
\* every index stays in its buffer: of every connection that is used as SoundUse
\* says (output-to-socket and the procedures of the output port).
THEOREM OutputGoesWhole ==
    ASSUME \A u \in PortUses : SoundUse(u)
    PROVE  PortsSpec => []OutputWhole
<1>1. PortsInit => WriteInv
  BY WriteStart
<1>2. WriteInv /\ [PortsNext]_portVars => WriteInv'
  BY WriteNext DEF WriteInv, TypeInv, PortsTypeOK
<1>3. WriteInv => OutputWhole
  BY DEF OutputWhole, OutputInOrder, OutputDelivered, WriteInv, WriteOK, TypeInv
<1> QED  BY <1>1, <1>2, <1>3, PTL DEF PortsSpec
=============================================================================
