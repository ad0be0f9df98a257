------------------------------ MODULE MCSockets ------------------------------
(***************************************************************************)
(* Small instances of the three models of sockets: the ports of one        *)
(* connection (TcpPorts), the threads that open connections                *)
(* (TcpConnections) and the debugger stub (Debugger).  They share nothing; *)
(* a behaviour is one of one of them, the part, while the others stand     *)
(* still.                                                                  *)
(***************************************************************************)
EXTENDS TcpConnections, TcpPorts, Debugger, TLC

CONSTANTS a1, a2, c1, c2

ASSUME NetworksAssumption == ConstantsOK

\* Nobody uses the network.
Unused == [acceptors |-> {}, connectors |-> {}, main |-> NoThread,
           timeouts |-> {}, signals |-> FALSE, failures |-> FALSE]

\* One thread accepts with a timeout, two connect without one.
Mixed == [acceptors |-> {a1}, connectors |-> {c1, c2}, main |-> NoThread,
          timeouts |-> {"accept"}, signals |-> TRUE, failures |-> TRUE]

\* Two threads accept, one of them the primordial thread, and one connects.
Server == [acceptors |-> {a1, a2}, connectors |-> {c1}, main |-> a1,
           timeouts |-> {}, signals |-> TRUE, failures |-> FALSE]

SoundNetworks == {Unused, Mixed, Server}

-----------------------------------------------------------------------------
\* The programs for which the ports keep their promises.
ASSUME SoundUsesAssumption == \A u \in PortUses : SoundUse(u)

Lines == <<"single", "cr", "lf", "single", "cr", "single", "lf">>
Feeds == <<"single", "single", "lf", "single", "lf">>
Wide  == <<"lead", "tail", "single">>
Plain == <<"single", "single", "single">>

\* NoLimit of TcpPorts: read-line reads whole lines.
Whole == 100

\* A program that does nothing with a connection.
Nothing == [kind |-> <<>>, inSize |-> 1, outSize |-> 0, chunkSize |-> 1, maxOut |-> 0,
            maxWrite |-> 0, writeFrom |-> {0}, readOps |-> {}, limits |-> {}, closes |-> {},
            timeouts |-> FALSE]

\* It reads characters, bytes and lines through a buffer of three bytes.
Reads == [kind |-> Lines, inSize |-> 3, limits |-> {Whole}, closes |-> {"input"},
          readOps |-> {"char", "peek", "bytes", "line", "ready"}, timeouts |-> TRUE]
         @@ Nothing

\* It writes through a buffer of three bytes, two of which send() takes at most.
Writes == [outSize |-> 3, chunkSize |-> 2, maxOut |-> 6, maxWrite |-> 4,
           closes |-> {"output"}] @@ Nothing

\* It writes parts of bytevectors, also from offset 1.
Slices == [writeFrom |-> {0, 1}, maxOut |-> 5, maxWrite |-> 3] @@ Writes

\* One thread reads lines with a limit, another one writes unbuffered.
Talks == [kind |-> Feeds, inSize |-> 2, chunkSize |-> 2, maxOut |-> 3, maxWrite |-> 2,
          readOps |-> {"char", "line"}, limits |-> {2}, closes |-> {"input", "output"},
          timeouts |-> TRUE] @@ Nothing

\* One thread looks at what is in the buffer and takes it, another one writes.
Takes == [kind |-> Plain, inSize |-> 2, chunkSize |-> 2, maxOut |-> 3, maxWrite |-> 2,
          readOps |-> {"peek", "buffered"}, closes |-> {"input", "output"},
          timeouts |-> TRUE] @@ Nothing

\* It reads characters of two bytes.
Decodes == [kind |-> Wide, inSize |-> 3, readOps |-> {"char"}] @@ Nothing

SoundUses == {Reads, Writes, Slices, Talks, Takes, Decodes}

-----------------------------------------------------------------------------
\* Two units, one with two kinds of events.
TwoUnits == [u1 |-> <<1, 2>>, u2 |-> <<2>>]

-----------------------------------------------------------------------------
VARIABLE part
socketVars == <<portVars, vars, debugVars, part>>

SocketsInit ==
    /\ part \in {"ports", "connections", "debugger"}
    /\ PortsInit /\ Init /\ DebuggerInit
    /\ IF part = "ports" THEN use = Unused
       ELSE portUse = Decodes /\ (use = Unused <=> part # "connections")

Ports == part = "ports" /\ PortsNext /\ UNCHANGED <<vars, debugVars, part>>
Connections == part = "connections" /\ Next /\ UNCHANGED <<portVars, debugVars, part>>
Debugs == part = "debugger" /\ DebuggerNext /\ UNCHANGED <<portVars, vars, part>>
SocketsNext == Ports \/ Connections \/ Debugs

\* The threads of TcpConnections are scheduled as its FairSpec says.
SocketsSpec == SocketsInit /\ [][SocketsNext]_socketVars /\ Fairness
=============================================================================
