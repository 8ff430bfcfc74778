------------------------------ MODULE Testbed ------------------------------
(***************************************************************************)
(* A benchmark as the Makefile runs it: the runner as the command that the *)
(* host tuning wraps. The wrapper restores the host when the runner ends,  *)
(* and on a signal, which it passes on without waiting for the runner; a   *)
(* signal may reach the runner as a KeyboardInterrupt, late or never.      *)
(***************************************************************************)
EXTENDS Naturals, FiniteSets

CONSTANTS Refusable, Fallible, MaxSignals, Combos, Count, Emulated, MaxSpoilt

\* The first combination is number 1; there may be nothing to measure of it.
ASSUME RunAssumption ==
    /\ Combos \subseteq Nat \ {0} /\ 1 \in Combos
    /\ Count \in Nat /\ MaxSignals \in Nat /\ Emulated \in BOOLEAN

VARIABLES
    host, balanced, phase, pos, saved, marked, lost, left, child, signals,
    at, combo, iter, skips, outputs, results, tc, active, leaked, server, serving, queue,
    conns, client, spoilt, interrupts

Wrapper == INSTANCE HostTuning
Run == INSTANCE Bench WITH MaxInterrupts <- MaxSignals

hostVars == <<host, balanced, phase, pos, saved, marked, lost, left, child, signals>>
benchVars == <<at, combo, iter, skips, outputs, results, tc, active, leaked, server, serving,
               queue, conns, client, spoilt, interrupts>>
vars == <<hostVars, benchVars>>

Init == Wrapper!Init /\ Run!Init

WrapperSteps == Wrapper!Steps /\ UNCHANGED benchVars
WrapperFaults == Wrapper!Faults /\ UNCHANGED benchVars

\* The runner runs once it is launched, also behind the end of the wrapper.
RunnerSteps == child = "running" /\ Run!Runner /\ UNCHANGED hostVars
ServerSteps == child = "running" /\ Run!Server /\ UNCHANGED hostVars
Trouble ==
    /\ child = "running" /\ Run!Trouble
    /\ interrupts' <= signals
    /\ UNCHANGED hostVars

\* Its exit is what the wrapper waits for.
RunnerExits == at = "exit" /\ Wrapper!ChildEnds /\ UNCHANGED benchVars

Over == Wrapper!Ended /\ UNCHANGED vars

Next == \/ WrapperSteps \/ WrapperFaults
        \/ RunnerSteps \/ ServerSteps \/ Trouble \/ RunnerExits
        \/ Over

\* Processes run, waits have time limits; nothing makes a fault happen.
Fairness ==
    /\ WF_vars(WrapperSteps) /\ WF_vars(RunnerSteps)
    /\ WF_vars(ServerSteps) /\ WF_vars(RunnerExits)

Spec == Init /\ [][Next]_vars /\ Fairness

-----------------------------------------------------------------------------
(* Properties *)

TypeOK == Wrapper!TypeOK /\ Run!TypeOK

(* with_host_tuning.sh puts the settings back, but for failures it does    *)
(* not look at and signals in three gaps: see HostTuning.                  *)
SavedIsRestored == Wrapper!SavedIsRestored

(* No time of another combination's server, or under part of the emulation *)
(* of run_benchmarks.py, is kept: see Bench.                               *)
MeasuredAsConfigured == Run!MeasuredAsConfigured

(* NetemManager takes the emulation off again, unless a tc command failed  *)
(* or was interrupted: see Bench.                                          *)
EmulationRemoved == Run!EmulationRemoved

(* The benchmark ends and the host is released, although the server waits  *)
(* forever for a client that was killed, or a handshake never ends: the    *)
(* time limit of collect_handshake and the SIGKILL of stop_server see to   *)
(* it.                                                                     *)
Terminates == <>(phase \in {"ended", "killed"} /\ child # "running")
=============================================================================
