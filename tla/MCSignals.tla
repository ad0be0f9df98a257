----------------------------- MODULE MCSignals -----------------------------
(***************************************************************************)
(* Uses of signals in the model-checking runs of Signals.                  *)
(***************************************************************************)
EXTENDS Signals

CONSTANTS p, a, s1, s2, b

\* Both threads compute and look at the event queue from time to time.
Looks == [queued |-> {s1, s2}, breaks |-> {}, waiters |-> {}, async |-> FALSE,
          maxRaised |-> 1]

\* Both threads also wait for events, and the signals come twice.
Waits == [Looks EXCEPT !.waiters = {p, a}, !.maxRaised = 2]

\* A user interrupt (C-c) besides an ordinary signal.
Interrupted == [Looks EXCEPT !.queued = {s1}, !.breaks = {b}]

\* Signals that arrive at any place in C code, with and without user interrupts.
Anywhere       == [Looks EXCEPT !.async = TRUE]
BreaksAnywhere == [Interrupted EXCEPT !.async = TRUE]

SoundUses == {Looks, Interrupted, Waits, Anywhere, BreaksAnywhere}

\* Uses that break a property, the one named in the comment.
AsyncUses   == {Anywhere}                        \* AcceptedKept; and
                                                 \* LimitFindsInterrupt without
                                                 \* its condition on struck
BreakUses   == {Interrupted}                     \* AcceptedKept
BlockedUses == { [Interrupted EXCEPT !.waiters = {p}] }           \* WaiterWaits
SleepUses   == { [Looks EXCEPT !.waiters = {p}] } \* SleepsUntilSignal
                                                 \* and EverySignalHandled
=============================================================================
