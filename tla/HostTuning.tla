----------------------------- MODULE HostTuning -----------------------------
(***************************************************************************)
(* scripts/with_host_tuning.sh: settings of the host are changed one after *)
(* the other, a command is run, and what was changed is put back when the  *)
(* command ends, when a command of the script fails (set -e), or when a    *)
(* signal arrives.                                                         *)
(*                                                                         *)
(* What restore_settings puts back it decides by files written and flags   *)
(* set on the way, each by a command of its own; bash runs a trap between  *)
(* two commands, so a signal finds any prefix of them done.                *)
(***************************************************************************)
EXTENDS Naturals, Sequences

CONSTANTS
    Refusable,          \* settings that may stay as they are
    Fallible,           \* settings that a failure nobody looks at may hit
    MaxSignals          \* signals the script gets

VARIABLES
    host,               \* setting -> "orig", "tuned", "removed" or "all"; there
                        \* is a configuration of irqbalance at first
    balanced,           \* irqbalance is active on this host
    phase,              \* what the script is doing
    pos,                \* next step of the plan, or of the restore
    saved,              \* settings whose old value is in a file of tmpdir
    marked,             \* settings whose flag says they were changed
    lost,               \* settings whose saving or putting back failed unnoticed
    left,               \* the step of the plan at which the script left it
    child,              \* the wrapped command: "none", "running" or "gone"
    signals             \* signals received

NoStep == <<"none", "none">>
Settings == {"governor", "boost", "slice", "irqconf", "irqs", "shield"}

\* Mutant: the governor is changed before the old one is saved.
PlanSettingFirst ==
    <<<<"governor", "set">>, <<"governor", "save">>, <<"boost", "save">>, <<"boost", "set">>,
      <<"irqs", "save">>, <<"irqs", "set">>>>

\* The commands of the script that matter, in its order: the old value is
\* saved, the setting is changed, a flag remembers that it was.
Plan ==
    <<<<"governor", "save">>, <<"governor", "set">>,
      <<"boost", "save">>, <<"boost", "set">>,
      <<"slice", "save">>, <<"slice", "set">>, <<"slice", "mark">>>>
    \o (IF balanced
        THEN <<<<"irqconf", "mark">>, <<"irqconf", "save">>, <<"irqconf", "set">>>>
        ELSE <<<<"irqs", "save">>, <<"irqs", "set">>>>)
    \o <<<<"shield", "set">>, <<"shield", "mark">>>>

\* The order in which restore_settings looks at them.
RestoreOrder == <<"governor", "boost", "slice", "irqconf", "irqs", "shield">>

Init ==
    /\ host = [s \in Settings |-> "orig"]
    /\ balanced \in BOOLEAN
    /\ phase = "tuning" /\ pos = 1
    /\ saved = {} /\ marked = {} /\ lost = {} /\ left = NoStep
    /\ child = "none" /\ signals = 0

\* A command of the plan succeeds.
Step ==
    /\ phase = "tuning" /\ pos <= Len(Plan)
    /\ LET s == Plan[pos][1]
           does == Plan[pos][2]
       IN  /\ saved' = IF does = "save" THEN saved \cup {s} ELSE saved
           /\ marked' = IF does = "mark" THEN marked \cup {s} ELSE marked
           /\ host' = IF does = "set" THEN [host EXCEPT ![s] = "tuned"] ELSE host
    /\ pos' = pos + 1
    /\ UNCHANGED <<balanced, phase, lost, left, child, signals>>

\* Saves guarded by || true, which the script goes on from when they fail.
Unchecked == {"irqconf", "irqs"}

\* Such a save fails. The configuration of irqbalance then counts as saved,
\* and an empty file is what is left to restore the IRQ affinities from.
SaveFails ==
    /\ phase = "tuning" /\ pos <= Len(Plan)
    /\ Plan[pos][2] = "save" /\ Plan[pos][1] \in Unchecked \cap Fallible
    /\ saved' = saved \cup {Plan[pos][1]}
    /\ lost' = lost \cup {Plan[pos][1]}
    /\ pos' = pos + 1
    /\ UNCHANGED <<host, balanced, phase, marked, left, child, signals>>

\* A setting is not to be changed, its tool is missing or refuses: at most a
\* warning, and the script goes on with the next setting.
SetRefused ==
    /\ phase = "tuning" /\ pos <= Len(Plan)
    /\ Plan[pos][2] = "set" /\ Plan[pos][1] \in Refusable
    /\ pos' = IF pos < Len(Plan) /\ Plan[pos + 1][2] = "mark" THEN pos + 2 ELSE pos + 1
    /\ UNCHANGED <<host, balanced, phase, saved, marked, lost, left, child, signals>>

\* The command is started in the background and waited for.
Launch ==
    /\ phase = "tuning" /\ pos = Len(Plan) + 1
    /\ phase' = "waiting" /\ child' = "running"
    /\ UNCHANGED <<host, balanced, pos, saved, marked, lost, left, signals>>

\* restore_settings is called and sets cleanup_done; the traps are not yet
\* reset.
EnterRestore ==
    /\ phase' = "entering" /\ pos' = 1
    /\ left' = IF pos <= Len(Plan) THEN Plan[pos] ELSE NoStep

\* A command that is not guarded fails: set -e leaves through the EXIT trap.
\* Of the commands that save the IRQ affinities that is mkdir.
Fails ==
    /\ phase = "tuning" /\ pos <= Len(Plan)
    /\ \/ Plan[pos] = <<"irqconf", "set">>
       \/ Plan[pos][2] = "save" /\ Plan[pos][1] # "irqconf"
    /\ EnterRestore
    /\ UNCHANGED <<host, balanced, saved, marked, lost, child, signals>>

\* wait returns.
Wait ==
    /\ phase = "waiting" /\ child = "gone"
    /\ EnterRestore
    /\ UNCHANGED <<host, balanced, saved, marked, lost, child, signals>>

\* The wrapped command ends.
ChildEnds ==
    /\ child = "running"
    /\ child' = "gone"
    /\ UNCHANGED <<host, balanced, phase, pos, saved, marked, lost, left, signals>>

\* The traps are reset.
ResetTraps ==
    /\ phase = "entering"
    /\ phase' = "restoring"
    /\ UNCHANGED <<host, balanced, pos, saved, marked, lost, left, child, signals>>

\* What restore_settings makes of setting s. The slice gets all CPUs,
\* whatever it was allowed before; a configuration of irqbalance that was not
\* seen to exist is removed; from a backup that failed nothing comes back.
PutBack(s) ==
    CASE s \in {"governor", "boost", "irqs"} /\ s \in saved \ lost -> "orig"
      [] s = "slice" /\ s \in saved /\ s \in marked -> "all"
      [] s = "irqconf" /\ s \in marked /\ s \notin saved -> "removed"
      [] s = "irqconf" /\ s \in marked /\ s \in saved \ lost -> "orig"
      [] s = "shield" /\ s \in marked -> "orig"
      [] OTHER -> host[s]

\* The next setting, or the end behind the last one.
Restore ==
    /\ phase = "restoring"
    /\ \/ /\ pos <= Len(RestoreOrder)
          /\ LET s == RestoreOrder[pos]
             IN  host' = [host EXCEPT ![s] = PutBack(s)]
          /\ pos' = pos + 1
          /\ UNCHANGED phase
       \/ /\ pos > Len(RestoreOrder)
          /\ phase' = "ended"
          /\ UNCHANGED <<host, pos>>
    /\ UNCHANGED <<balanced, saved, marked, lost, left, child, signals>>

\* The write that puts a setting back fails; nobody looks.
RestoreFails ==
    /\ phase = "restoring" /\ pos <= Len(RestoreOrder)
    /\ LET s == RestoreOrder[pos]
       IN  s \in Fallible /\ PutBack(s) # host[s] /\ lost' = lost \cup {s}
    /\ pos' = pos + 1
    /\ UNCHANGED <<host, balanced, phase, saved, marked, left, child, signals>>

\* INT, TERM or HUP arrives. handle_signal forwards it to the command and
\* restores without waiting for it; when the restore has been entered already
\* it finds cleanup_done set and leaves; when the traps are reset the signal
\* ends the script.
Signal ==
    /\ signals < MaxSignals
    /\ signals' = signals + 1
    /\ \/ /\ phase \in {"tuning", "waiting"}
          /\ EnterRestore
       \/ /\ phase \in {"entering", "restoring"}
          /\ phase' = "killed"
          /\ UNCHANGED <<pos, left>>
    /\ UNCHANGED <<host, balanced, saved, marked, lost, child>>

Ended == phase \in {"ended", "killed"} /\ child # "running"

Steps == Step \/ Launch \/ Wait \/ ResetTraps \/ Restore
Faults == SaveFails \/ SetRefused \/ Fails \/ RestoreFails \/ Signal
-----------------------------------------------------------------------------
(* Properties *)

TypeOK ==
    /\ host \in [Settings -> {"orig", "tuned", "removed", "all"}]
    /\ balanced \in BOOLEAN
    /\ phase \in {"tuning", "waiting", "entering", "restoring", "ended", "killed"}
    /\ pos \in 1 .. Len(Plan) + 1
    /\ saved \in SUBSET Settings /\ marked \in SUBSET Settings
    /\ lost \in SUBSET Settings
    /\ left \in (Settings \X {"save", "set", "mark"}) \cup {NoStep}
    /\ child \in {"none", "running", "gone"}
    /\ signals \in 0 .. MaxSignals

\* A signal found setting s between the command that changes it and the one
\* that notes the change; for the configuration of irqbalance, between the
\* flag that it is to be put back and the flag that there is one.
Caught(s) ==
    \/ s \in {"slice", "shield"} /\ left = <<s, "mark">>
    \/ s = "irqconf" /\ left = <<s, "save">>

(* When restore_settings has run to its end, a setting is as it was (the   *)
(* slice: at least unconstrained), whichever command failed or was         *)
(* interrupted, but for two causes: a save or a restoring write of that    *)
(* setting guarded by || true failed, or a signal came in one of the three *)
(* gaps between a change and its flag. Governors, boost and IRQ affinities *)
(* have no such gap.                                                       *)
SavedIsRestored ==
    phase = "ended" =>
        \A s \in Settings :
            \/ host[s] = "orig"
            \/ s = "slice" /\ host[s] = "all"
            \/ s \in lost
            \/ Caught(s)
=============================================================================
