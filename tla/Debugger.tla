------------------------------- MODULE Debugger -------------------------------
(***************************************************************************)
(* The debugger stub, dbg-stub.c: a program that reports events to a       *)
(* client, which it is connected to by a stream, and obeys the requests of *)
(* the client while it stands still.  Requests are lines, and a line is    *)
(* two characters here, its text and the newline; writes are complete.     *)
(***************************************************************************)
EXTENDS Integers, Sequences, FiniteSets, SequencesExt

CONSTANTS
    Units,              \* compiled units, and the kinds of the events in each
    EventKinds,         \* bits of the event mask
    EventNumbers,       \* of events, that the client sets and clears breakpoints with
    MaxSent             \* bound of the requests of the client

ASSUME UnitsAssumption == \A u \in DOMAIN Units : Units[u] \in Seq(EventKinds)
ASSUME EventNumbersAssumption == EventNumbers \subseteq Nat
ASSUME MaxSentAssumption == MaxSent \in Nat

VARIABLES
    infos,      \* dbg_info_list: units, in the order they were registered
    unseen,     \* how many of them were before unseen_dbg_info_list
    listed,     \* dbg_info_count
    enabled,    \* the events with a breakpoint: <<unit, index>>
    mask,       \* event_mask
    interrupted,
    status,     \* "off", "connecting", "running", "reading" or "terminated"
    line,       \* of rw_buffer, what socket_read has copied
    input,      \* input_buffer
    stream,     \* characters on their way from the client
    requested, done, \* requests of the client: all, and those carried out
    asked,      \* prompts: what the last one said of unseen units
    table       \* numbers of events the client has been told
netVars == <<line, input, stream, requested, done>>
infoVars == <<infos, unseen, listed, enabled, table>>
debugVars == <<infoVars, mask, interrupted, status, netVars, asked>>

Requests ==
    {[op |-> op, arg |-> 0] : op \in {"continue", "list", "query", "terminate"}}
        \cup {[op |-> "setmask", arg |-> e] : e \in EventKinds}
        \cup {[op |-> op, arg |-> n] : op \in {"set", "clear"}, n \in EventNumbers}
Newline == [op |-> "newline", arg |-> 0]
Characters(request) == <<request, Newline>>

DebuggerInit ==
    /\ infos = <<>> /\ unseen = 0 /\ listed = 0 /\ enabled = {} /\ table = <<>>
    /\ mask = {} /\ interrupted = FALSE /\ status = "off" /\ asked = "nothing"
    /\ line = <<>> /\ input = <<>> /\ stream = <<>> /\ requested = <<>> /\ done = <<>>

\* C_register_debug_info, when a unit is loaded
Register(u) ==
    /\ status # "terminated" /\ u \notin ToSet(infos)
    /\ infos' = Append(infos, u)
    /\ UNCHANGED <<unseen, listed, enabled, table, mask, interrupted, status, netVars, asked>>

\* The events of all units in one row, which is how breakpoints are numbered.
Cells(units) == FlattenSeq([i \in DOMAIN units |-> [j \in DOMAIN Units[units[i]] |-> <<units[i], j>>]])
KindOf(cell) == Units[cell[1]][cell[2]]

\* connect_to_debugger, and the prompt that every round of send_event begins with
Prompting == status \in {"connecting", "reading"}
Connect ==
    /\ status = "off" /\ status' = "connecting" /\ asked' = "connect"
    /\ UNCHANGED <<infoVars, mask, interrupted, netVars>>
Event(cell) ==                      \* debug_event_hook
    /\ status = "running" /\ cell \in ToSet(Cells(infos))
    /\ cell \in enabled \/ interrupted \/ KindOf(cell) \in mask
    /\ status' = "reading" /\ asked' = IF interrupted THEN "interrupted" ELSE "event"
    /\ UNCHANGED <<infoVars, mask, interrupted, netVars>>
Interrupt ==                        \* interrupt_signal_handler
    /\ status \in {"running", "reading"}   \* installed only when the client has let the program go
    /\ ~interrupted /\ interrupted' = TRUE
    /\ UNCHANGED <<infoVars, mask, status, netVars, asked>>

\* socket_read: what recv returns, copied as far as the newline.
UpToNewline(chars) ==
    IF \E i \in DOMAIN chars : chars[i] = Newline
    THEN CHOOSE i \in DOMAIN chars : chars[i] = Newline /\ \A j \in 1 .. i - 1 : chars[j] # Newline
    ELSE Len(chars)
Complete == line # <<>> /\ Last(line) = Newline
CopyLineAll ==                      \* a mutant: the rest of the buffer is dropped
    /\ Prompting /\ ~Complete /\ input # <<>>
    /\ line' = line \o SubSeq(input, 1, UpToNewline(input)) /\ input' = <<>>
    /\ UNCHANGED <<infoVars, mask, interrupted, status, stream, requested, done, asked>>
CopyLine ==
    /\ Prompting /\ ~Complete /\ input # <<>>
    /\ line' = line \o SubSeq(input, 1, UpToNewline(input))
    /\ input' = SubSeq(input, UpToNewline(input) + 1, Len(input))
    /\ UNCHANGED <<infoVars, mask, interrupted, status, stream, requested, done, asked>>
Receive ==
    /\ Prompting /\ ~Complete /\ input = <<>>
    /\ \E n \in DOMAIN stream :
           input' = SubSeq(stream, 1, n) /\ stream' = SubSeq(stream, n + 1, Len(stream))
    /\ UNCHANGED <<infoVars, mask, interrupted, status, line, requested, done, asked>>

\* The answers to a request that is complete.
Request == line[1]
Handled ==
    /\ Prompting /\ Complete
    /\ line' = <<>> /\ done' = Append(done, Request) /\ UNCHANGED <<input, stream, requested>>
Listen ==                           \* and the next prompt: are there units not listed yet?
    /\ asked' = IF unseen' < Len(infos) THEN "more" ELSE "listen"
    /\ UNCHANGED status
SetMask ==
    /\ Handled /\ Request.op = "setmask" /\ mask' = {Request.arg}
    /\ UNCHANGED <<infoVars, interrupted>> /\ Listen
Query ==                            \* of memory, globals, statistics or the trace: nothing changes
    /\ Handled /\ Request.op = "query"
    /\ UNCHANGED <<infoVars, mask, interrupted>> /\ Listen
Continue ==                         \* back to the program
    /\ Handled /\ Request.op = "continue"
    /\ status' = "running" /\ interrupted' = FALSE
    /\ UNCHANGED <<infoVars, mask, asked>>
Terminate ==
    /\ Handled /\ Request.op = "terminate" /\ status' = "terminated"
    /\ UNCHANGED <<infoVars, mask, interrupted, asked>>
Disconnect ==                       \* recv returns 0 when the client has gone
    /\ Prompting /\ ~Complete /\ input = <<>> /\ stream = <<>>
    /\ status' = "terminated" /\ UNCHANGED <<infoVars, mask, interrupted, netVars, asked>>
Breakpoint ==                       \* enable_debug_info
    /\ Handled /\ Request.op \in {"set", "clear"}
    /\ LET cells == Cells(infos)
           cell == cells[Request.arg + 1]
       IN  IF Request.arg >= Len(cells)
           THEN status' = "terminated" /\ UNCHANGED <<enabled, unseen, asked>>
           ELSE /\ enabled' = IF Request.op = "set" THEN enabled \cup {cell} ELSE enabled \ {cell}
                /\ UNCHANGED unseen /\ Listen
    /\ UNCHANGED <<infos, listed, table, mask, interrupted>>
ListEvents ==                       \* of the units not seen yet, without a pattern
    /\ Handled /\ Request.op = "list"
    /\ LET news == Cells(SubSeq(infos, unseen + 1, Len(infos)))
       IN  /\ table' = table \o [i \in DOMAIN news |-> <<listed + i - 1, news[i]>>]
           /\ listed' = listed + Len(news)
    /\ unseen' = Len(infos) /\ UNCHANGED <<infos, enabled, mask, interrupted>> /\ Listen

\* The client, which may send before it is asked.
ClientSends ==
    /\ Len(requested) < MaxSent
    /\ \E r \in Requests : requested' = Append(requested, r) /\ stream' = stream \o Characters(r)
    /\ UNCHANGED <<infoVars, mask, interrupted, status, line, input, done, asked>>

DebuggerNext ==
    \/ \E u \in DOMAIN Units : Register(u)
    \/ Connect \/ (\E u \in DOMAIN Units : \E j \in DOMAIN Units[u] : Event(<<u, j>>)) \/ Interrupt
    \/ CopyLine \/ Receive \/ SetMask \/ Query \/ Continue \/ Terminate \/ Disconnect \/ Breakpoint
    \/ ListEvents \/ ClientSends

DebuggerSpec == DebuggerInit /\ [][DebuggerNext]_debugVars

-----------------------------------------------------------------------------
\* The characters of requests.
Text(requests) ==
    [i \in 1 .. 2 * Len(requests) |-> IF i % 2 = 1 THEN requests[(i + 1) \div 2] ELSE Newline]

\* The stub carries out the requests of the client one by one as they were
\* sent, into whatever pieces the stream has cut them, and stands still at
\* the end of a prompt until the next one is complete.
RequestsInOrder ==
    /\ IsPrefix(done, requested)
    /\ Text(done) \o line \o input \o stream = Text(requested)

\* The number an event was listed with is the number a breakpoint on it is
\* set with, also after more units have been loaded, and every event of the
\* units that were there is listed once.
Sets(request, n) == request.op = "set" /\ request.arg = n
Clears(request, n) == request.op = "clear" /\ request.arg = n
IsSet(n) ==
    \E i \in DOMAIN done : Sets(done[i], n) /\ \A j \in i + 1 .. Len(done) : ~Clears(done[j], n)
NumbersMeanEvents ==
    LET cells == Cells(infos)
    IN  /\ \A i \in DOMAIN table : table[i] = <<i - 1, cells[i]>>
        /\ Len(table) = Len(Cells(SubSeq(infos, 1, unseen)))
        /\ status # "terminated" => enabled = {cells[n + 1] : n \in {m \in 0 .. Len(cells) - 1 : IsSet(m)}}

\* The stub carries out the requests of its client in order and once, into
\* whatever pieces the stream has cut them, and a number means the same event
\* when it is listed and when a breakpoint is set, however many units have
\* been loaded in between (dbg-stub.c, socket_read and send_event).
RequestsObeyed == RequestsInOrder /\ NumbersMeanEvents
=============================================================================
