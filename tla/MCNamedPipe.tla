---------------------------- MODULE MCNamedPipe ----------------------------
EXTENDS NamedPipe

CONSTANTS c1, c2

TwoClients == {c1, c2}

Plain(commands) == {[command |-> c, data |-> <<>>] : c \in commands}

\* The multiplier 5.5 as a float.
SetMultiplier == [command |-> setMaximumCPUcoreMultplier, data |-> <<0, 0, 176, 64>>]

\* One client asks and stops, the other asks, starts and sets.
AskStopSet ==
  [c \in Clients |-> IF c = c1 THEN Plain({stop_service, get_current_CPU_data})
                    ELSE Plain({start_DVFS, get_current_CPU_data}) \union {SetMultiplier}]

\* One client sends two messages, the other one.
TwoAndOne == [c \in Clients |-> IF c = c1 THEN 2 ELSE 1]

TwoSizes == {1, 2}
SomeByte == {7}
=============================================================================
