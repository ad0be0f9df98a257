--------------------------- MODULE TcpConnections ---------------------------
(***************************************************************************)
(* tcp-accept and tcp-connect (tcp.scm) in several threads of one process. *)
(*                                                                         *)
(* The threads wait in the scheduler until poll() reports their file       *)
(* descriptor or their deadline passes; slot 13 of the thread, here        *)
(* th[t].flag, says which of the two it was.  The listening socket itself  *)
(* blocks: an accept() that finds no connection stops the whole process.   *)
(* tcp.scm is compiled with (disable-interrupts): between two waits a      *)
(* thread is not preempted, so that its run is one step.                   *)
(***************************************************************************)
EXTENDS Integers, FiniteSets

CONSTANTS
    Threads,        \* the threads of the process
    NoThread,
    Uses,           \* the ways the threads use the network
    MaxConns        \* bound on the number of clients that connect

\* A use of the network.
UseTypeOK(u) ==
    /\ u.acceptors \subseteq Threads        \* who accepts from one listener
    /\ u.connectors \subseteq Threads       \* who connects
    /\ u.acceptors \cap u.connectors = {}
    /\ u.main \in Threads \cup {NoThread}   \* which one is primordial
    /\ u.timeouts \subseteq {"accept", "connect"} \* operations with a timeout
    /\ u.signals \in BOOLEAN               \* do signals interrupt system calls?
    /\ u.failures \in BOOLEAN              \* may accept() fail?

ConstantsOK ==
    /\ NoThread \notin Threads /\ MaxConns \in Nat
    /\ \A u \in Uses : UseTypeOK(u)

VARIABLES
    use,            \* the use that is made of the network
    offered,        \* number of clients that have connected
    backlog,        \* number of connections in the queue of the listener
    sock,           \* the sockets of the connecting threads
    th,             \* state of the threads
    result,         \* what the last operation of each thread returned
    stuck           \* the thread whose accept() blocks the process

Acceptor  == use.acceptors
Connector == use.connectors
Thread    == Acceptor \cup Connector

vars == <<use, offered, backlog, sock, th, result, stuck>>

Idle    == [at |-> "idle",    flag |-> FALSE]
Blocked == [at |-> "blocked", flag |-> FALSE]
Ready(flag) == [at |-> "ready", flag |-> flag]

Init ==
    /\ use \in Uses
    /\ offered = 0
    /\ backlog = 0
    /\ sock = [t \in Connector |-> "none"]
    /\ th = [t \in Thread |-> Idle]
    /\ result = [t \in Thread |-> "none"]
    /\ stuck = NoThread

Return(t, r) ==
    /\ th' = [th EXCEPT ![t] = Idle]
    /\ result' = [result EXCEPT ![t] = r]

-----------------------------------------------------------------------------
\* The network.
ClientConnects ==
    /\ offered < MaxConns
    /\ offered' = offered + 1
    /\ backlog' = backlog + 1
    /\ UNCHANGED <<use, sock, th, result, stuck>>

ConnectionDecided(t) ==
    /\ sock[t] = "pending"
    /\ \E s \in {"connected", "refused"} : sock' = [sock EXCEPT ![t] = s]
    /\ UNCHANGED <<use, offered, backlog, th, result, stuck>>

-----------------------------------------------------------------------------
\* The scheduler.

\* Mutant of Pollable: poll() reports a listener only when its queue grows.
PollableOnce(t) == IF t \in Acceptor THEN backlog = 1
                                     ELSE sock[t] \in {"connected", "refused"}

\* poll() reports the file descriptor thread t waits for.
Pollable(t) == IF t \in Acceptor THEN backlog > 0
                                 ELSE sock[t] \in {"connected", "refused"}

WakeForIo ==
    /\ stuck = NoThread
    /\ LET woken == { t \in Thread : th[t] = Blocked /\ Pollable(t) }
       IN /\ woken # {}
          /\ th' = [t \in Thread |-> IF t \in woken THEN Ready(FALSE) ELSE th[t]]
    /\ UNCHANGED <<use, offered, backlog, sock, result, stuck>>

WakeForTimeout(t) ==
    /\ stuck = NoThread
    /\ th[t] = Blocked
    /\ (IF t \in Acceptor THEN "accept" ELSE "connect") \in use.timeouts
    /\ th' = [th EXCEPT ![t] = Ready(TRUE)]
    /\ UNCHANGED <<use, offered, backlog, sock, result, stuck>>

\* poll() was interrupted by a signal: the primordial thread must run.
ForcePrimordial ==
    /\ use.signals
    /\ stuck = NoThread
    /\ use.main \in Thread /\ th[use.main] = Blocked
    /\ th' = [th EXCEPT ![use.main] = Ready(FALSE)]
    /\ UNCHANGED <<use, offered, backlog, sock, result, stuck>>

-----------------------------------------------------------------------------
\* tcp-accept

\* Mutant of TcpAccept: accept() is called without waiting for a connection.
TcpAcceptAtOnce(t) ==
    /\ stuck = NoThread
    /\ th[t] = Idle
    /\ th' = [th EXCEPT ![t] = Ready(FALSE)]
    /\ result' = [result EXCEPT ![t] = "none"]
    /\ UNCHANGED <<use, offered, backlog, sock, stuck>>

TcpAccept(t) ==
    /\ stuck = NoThread
    /\ th[t] = Idle
    /\ th' = [th EXCEPT ![t] = Blocked]
    /\ result' = [result EXCEPT ![t] = "none"]
    /\ UNCHANGED <<use, offered, backlog, sock, stuck>>

\* "accept operation timed out"
AcceptTimesOut(t) ==
    /\ stuck = NoThread
    /\ th[t] = Ready(TRUE)
    /\ Return(t, "timeout")
    /\ UNCHANGED <<use, offered, backlog, sock, stuck>>

Accept(t) ==
    /\ stuck = NoThread
    /\ th[t] = Ready(FALSE)
    /\ backlog > 0
    /\ backlog' = backlog - 1
    /\ Return(t, "ports")
    /\ UNCHANGED <<use, offered, sock, stuck>>

\* "could not accept from listener"
AcceptFails(t) ==
    /\ use.failures
    /\ stuck = NoThread
    /\ th[t] = Ready(FALSE)
    /\ Return(t, "error")
    /\ UNCHANGED <<use, offered, backlog, sock, stuck>>

\* There is no connection: accept() waits, and with it every thread.
AcceptBlocks(t) ==
    /\ stuck = NoThread
    /\ th[t] = Ready(FALSE)
    /\ backlog = 0
    /\ stuck' = t
    /\ UNCHANGED <<use, offered, backlog, sock, th, result>>

AcceptReturns ==
    /\ stuck # NoThread
    /\ backlog > 0
    /\ backlog' = backlog - 1
    /\ Return(stuck, "ports")
    /\ stuck' = NoThread
    /\ UNCHANGED <<use, offered, sock>>

\* A signal interrupts accept(): tcp-accept waits again.
AcceptInterrupted ==
    /\ use.signals
    /\ stuck # NoThread
    /\ th' = [th EXCEPT ![stuck] = Blocked]
    /\ stuck' = NoThread
    /\ UNCHANGED <<use, offered, backlog, sock, result>>

-----------------------------------------------------------------------------
\* tcp-connect

\* Mutant of Connected: the error of the socket is not asked for.
ConnectedUnchecked(t, s) == sock' = [sock EXCEPT ![t] = s] /\ Return(t, "ports")

\* What get-socket-error lets through, after the wait or at once.
Connected(t, s) ==
    IF s = "refused"
    THEN sock' = [sock EXCEPT ![t] = "closed"] /\ Return(t, "error")
    ELSE sock' = [sock EXCEPT ![t] = s] /\ Return(t, "ports")

\* connect() succeeds or fails at once.  When a signal interrupts it the loop
\* calls it again, which is an error, for the connection is already under way.
TcpConnectAtOnce(t) ==
    /\ stuck = NoThread
    /\ th[t] = Idle
    /\ \/ Connected(t, "connected")
       \/ sock' = [sock EXCEPT ![t] = "closed"] /\ Return(t, "error")
    /\ UNCHANGED <<use, offered, backlog, stuck>>

TcpConnect(t) ==
    /\ stuck = NoThread
    /\ th[t] = Idle
    /\ sock' = [sock EXCEPT ![t] = "pending"]
    /\ th' = [th EXCEPT ![t] = Blocked]
    /\ result' = [result EXCEPT ![t] = "none"]
    /\ UNCHANGED <<use, offered, backlog, stuck>>

\* "Don't loop: it's connected now"
ConnectContinues(t) ==
    /\ stuck = NoThread
    /\ th[t].at = "ready"
    /\ Connected(t, sock[t])
    /\ UNCHANGED <<use, offered, backlog, stuck>>

-----------------------------------------------------------------------------
Accepts(t) ==
    TcpAccept(t) \/ AcceptTimesOut(t) \/ Accept(t) \/ AcceptFails(t) \/ AcceptBlocks(t)

Connects(t) == TcpConnectAtOnce(t) \/ TcpConnect(t) \/ ConnectContinues(t)

Next ==
    \/ ClientConnects
    \/ \E t \in Connector : ConnectionDecided(t) \/ Connects(t)
    \/ \E t \in Acceptor : Accepts(t)
    \/ WakeForIo \/ (\E t \in Thread : WakeForTimeout(t)) \/ ForcePrimordial
    \/ AcceptReturns \/ AcceptInterrupted

Spec == Init /\ [][Next]_vars

\* Acceptors come back for the next connection; the scheduler polls again and
\* again and runs what is ready; a blocked accept() returns.
Fairness ==
    /\ WF_vars(WakeForIo)
    /\ WF_vars(AcceptReturns)
    /\ \A t \in Threads : WF_vars(t \in Acceptor /\ Accepts(t))

FairSpec == Spec /\ Fairness

-----------------------------------------------------------------------------
\* A thread that accepts never keeps the other threads from running: accept()
\* is called only when there is a connection.
ProcessNeverBlocks == stuck = NoThread

\* That is so as long as no other thread accepts from the listener, and the one
\* that does is not the primordial thread, which signals wake.
LoneAcceptorNeverBlocks ==
    Cardinality(Acceptor) <= 1 /\ ~(use.signals /\ use.main \in Acceptor)
        => ProcessNeverBlocks

\* tcp-connect returns ports only for a connection that is established, and when
\* it fails it has closed its socket.
ConnectResults ==
    \A t \in Connector :
        /\ result[t] = "ports" => sock[t] = "connected"
        /\ result[t] \in {"error", "timeout"} => sock[t] = "closed"

\* Every client that connects is accepted while there are threads that accept,
\* also when accept() blocks the process for a while or signals interrupt it
\* (accept() that fails each time, or a timeout of 0, accepts nobody).
EveryClientAccepted ==
    Acceptor # {} /\ "accept" \notin use.timeouts /\ ~use.failures /\ backlog > 0
        ~> backlog = 0
=============================================================================
