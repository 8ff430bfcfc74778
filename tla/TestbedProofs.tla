---------------------------- MODULE TestbedProofs ----------------------------
(***************************************************************************)
(* Proofs about Testbed, for every number of combinations, handshakes and  *)
(* signals, and any sets of settings that may be refused or lost.          *)
(***************************************************************************)
EXTENDS Testbed, Sequences, FiniteSetTheorems, SequenceTheorems, TLAPS

(* The wrapper.                                                            *)

\* The commands of with_host_tuning.sh, one after the other.
LEMMA PlanTable ==
    ASSUME balanced \in BOOLEAN
    PROVE  /\ Len(Wrapper!Plan) = IF balanced THEN 12 ELSE 11
           /\ Wrapper!Plan[1] = <<"governor", "save">>
           /\ Wrapper!Plan[2] = <<"governor", "set">>
           /\ Wrapper!Plan[3] = <<"boost", "save">>
           /\ Wrapper!Plan[4] = <<"boost", "set">>
           /\ Wrapper!Plan[5] = <<"slice", "save">>
           /\ Wrapper!Plan[6] = <<"slice", "set">>
           /\ Wrapper!Plan[7] = <<"slice", "mark">>
           /\ balanced => /\ Wrapper!Plan[8] = <<"irqconf", "mark">>
                          /\ Wrapper!Plan[9] = <<"irqconf", "save">>
                          /\ Wrapper!Plan[10] = <<"irqconf", "set">>
                          /\ Wrapper!Plan[11] = <<"shield", "set">>
                          /\ Wrapper!Plan[12] = <<"shield", "mark">>
           /\ ~balanced => /\ Wrapper!Plan[8] = <<"irqs", "save">>
                           /\ Wrapper!Plan[9] = <<"irqs", "set">>
                           /\ Wrapper!Plan[10] = <<"shield", "set">>
                           /\ Wrapper!Plan[11] = <<"shield", "mark">>
<1>1. CASE balanced
  BY <1>1 DEF Wrapper!Plan
<1>2. CASE ~balanced
  BY <1>2 DEF Wrapper!Plan
<1> QED BY <1>1, <1>2

\* The script is between a change and its flag, or a signal found it there.
Gap(s) ==
    \/ /\ phase = "tuning"
       /\ \/ s = "slice" /\ pos = 7
          \/ s = "irqconf" /\ balanced /\ pos = 9
          \/ s = "shield" /\ pos = Len(Wrapper!Plan)
    \/ Wrapper!Caught(s)

\* What can be put back: a setting that is not as it was has its old value
\* saved, and its flag set where there is one, but for the gaps.
Recoverable ==
    /\ \A s \in {"governor", "boost", "irqs"} : host[s] = "orig" \/ s \in saved
    /\ host["slice"] \in {"orig", "all"} \/ "slice" \in marked \/ Gap("slice")
    /\ "slice" \in marked => "slice" \in saved
    /\ host["irqconf"] = "orig" \/ "irqconf" \in marked
    /\ "irqconf" \in marked => "irqconf" \in saved \/ Gap("irqconf")
    /\ host["shield"] = "orig" \/ "shield" \in marked \/ Gap("shield")

\* What the commands up to pos have saved and marked.
SavedSoFar ==
    /\ phase = "tuning" =>
        /\ pos > 1 => "governor" \in saved
        /\ pos > 3 => "boost" \in saved
        /\ pos > 5 => "slice" \in saved
        /\ pos > 8 /\ ~balanced => "irqs" \in saved
        /\ pos > 8 /\ balanced => "irqconf" \in marked
        /\ pos > 9 /\ balanced => "irqconf" \in saved
    /\ phase \in {"tuning", "waiting"} => left = Wrapper!NoStep

\* A setting that the restore has passed.
PutBackOrLost(s) ==
    \/ host[s] = "orig"
    \/ s = "slice" /\ host[s] = "all"
    \/ s \in lost
    \/ Wrapper!Caught(s)

\* What the restore up to pos has passed.
PutBackSoFar(n) ==
    /\ n > 1 => PutBackOrLost("governor")
    /\ n > 2 => PutBackOrLost("boost")
    /\ n > 3 => PutBackOrLost("slice")
    /\ n > 4 => PutBackOrLost("irqconf")
    /\ n > 5 => PutBackOrLost("irqs")
    /\ n > 6 => PutBackOrLost("shield")

HostInv ==
    /\ Wrapper!TypeOK /\ Recoverable /\ SavedSoFar
    /\ phase \in {"entering", "restoring"} => pos <= 7 /\ PutBackSoFar(pos)
    /\ phase = "ended" => PutBackSoFar(7)

LEMMA HostInit == Wrapper!Init => HostInv
<1> SUFFICES ASSUME Wrapper!Init PROVE HostInv
  OBVIOUS
<1> USE DEF Wrapper!Init
<1>1. Len(Wrapper!Plan) \in Nat
  BY PlanTable
<1>2. Wrapper!TypeOK
  BY <1>1, RunAssumption DEF Wrapper!TypeOK, Wrapper!Settings
<1>3. Recoverable /\ SavedSoFar
  BY DEF Recoverable, SavedSoFar, Wrapper!Settings
<1> QED BY <1>2, <1>3 DEF HostInv

\* The command at pos, for each pos.
At(s, does) ==
    \/ pos = 1 /\ s = "governor" /\ does = "save"
    \/ pos = 2 /\ s = "governor" /\ does = "set"
    \/ pos = 3 /\ s = "boost" /\ does = "save"
    \/ pos = 4 /\ s = "boost" /\ does = "set"
    \/ pos = 5 /\ s = "slice" /\ does = "save"
    \/ pos = 6 /\ s = "slice" /\ does = "set"
    \/ pos = 7 /\ s = "slice" /\ does = "mark"
    \/ balanced /\ pos = 8 /\ s = "irqconf" /\ does = "mark"
    \/ balanced /\ pos = 9 /\ s = "irqconf" /\ does = "save"
    \/ balanced /\ pos = 10 /\ s = "irqconf" /\ does = "set"
    \/ balanced /\ pos = 11 /\ s = "shield" /\ does = "set"
    \/ balanced /\ pos = 12 /\ s = "shield" /\ does = "mark"
    \/ ~balanced /\ pos = 8 /\ s = "irqs" /\ does = "save"
    \/ ~balanced /\ pos = 9 /\ s = "irqs" /\ does = "set"
    \/ ~balanced /\ pos = 10 /\ s = "shield" /\ does = "set"
    \/ ~balanced /\ pos = 11 /\ s = "shield" /\ does = "mark"

LEMMA PlanAt ==
    ASSUME balanced \in BOOLEAN, pos \in 1..Len(Wrapper!Plan)
    PROVE  At(Wrapper!Plan[pos][1], Wrapper!Plan[pos][2])
<1>1. Len(Wrapper!Plan) = IF balanced THEN 12 ELSE 11
  BY PlanTable
<1>2. CASE balanced
  <2>1. pos \in 1..12
    BY <1>1, <1>2
  <2>2. \/ pos = 1 \/ pos = 2 \/ pos = 3 \/ pos = 4 \/ pos = 5 \/ pos = 6
        \/ pos = 7 \/ pos = 8 \/ pos = 9 \/ pos = 10 \/ pos = 11 \/ pos = 12
    BY <2>1
  <2> QED BY <1>2, <2>2, PlanTable DEF At
<1>3. CASE ~balanced
  <2>1. pos \in 1..11
    BY <1>1, <1>3
  <2>2. \/ pos = 1 \/ pos = 2 \/ pos = 3 \/ pos = 4 \/ pos = 5 \/ pos = 6
        \/ pos = 7 \/ pos = 8 \/ pos = 9 \/ pos = 10 \/ pos = 11
    BY <2>1
  <2> QED BY <1>3, <2>2, PlanTable DEF At
<1> QED BY <1>2, <1>3

LEMMA PlanTyped ==
    ASSUME balanced \in BOOLEAN, pos \in 1..Len(Wrapper!Plan)
    PROVE  Wrapper!Plan[pos] \in Wrapper!Settings \X {"save", "set", "mark"}
<1>1. Len(Wrapper!Plan) = IF balanced THEN 12 ELSE 11
  BY PlanTable
<1> DEFINE T == Wrapper!Settings \X {"save", "set", "mark"}
<1>4. \A s \in Wrapper!Settings, d \in {"save", "set", "mark"} : <<s, d>> \in T
  OBVIOUS
<1> HIDE DEF T
<1>5. \A s \in Wrapper!Settings : <<s, "save">> \in T /\ <<s, "set">> \in T /\ <<s, "mark">> \in T
  BY <1>4
<1>6. \A s \in {"governor", "boost", "slice", "irqconf", "irqs", "shield"} : s \in Wrapper!Settings
  BY DEF Wrapper!Settings
<1>2. CASE balanced
  <2>1. pos \in 1..12
    BY <1>1, <1>2
  <2>2. \/ pos = 1 \/ pos = 2 \/ pos = 3 \/ pos = 4 \/ pos = 5 \/ pos = 6
        \/ pos = 7 \/ pos = 8 \/ pos = 9 \/ pos = 10 \/ pos = 11 \/ pos = 12
    BY <2>1
  <2>3. Wrapper!Plan[pos] \in T
    BY <1>2, <1>5, <1>6, <2>2, PlanTable
  <2> QED BY <2>3 DEF T
<1>3. CASE ~balanced
  <2>1. pos \in 1..11
    BY <1>1, <1>3
  <2>2. \/ pos = 1 \/ pos = 2 \/ pos = 3 \/ pos = 4 \/ pos = 5 \/ pos = 6
        \/ pos = 7 \/ pos = 8 \/ pos = 9 \/ pos = 10 \/ pos = 11
    BY <2>1
  <2>3. Wrapper!Plan[pos] \in T
    BY <1>3, <1>5, <1>6, <2>2, PlanTable
  <2> QED BY <2>3 DEF T
<1> QED BY <1>2, <1>3

\* The plan is the one for this host.
LEMMA PlanStays ==
    ASSUME balanced \in BOOLEAN, balanced' = balanced
    PROVE  /\ (Len(Wrapper!Plan))' = Len(Wrapper!Plan)
           /\ Len(Wrapper!Plan) = IF balanced THEN 12 ELSE 11
BY PlanTable DEF Wrapper!Plan

\* The facts about the wrapper's state that the steps below start from.
HostTypes ==
    /\ host \in [Wrapper!Settings -> {"orig", "tuned", "removed", "all"}]
    /\ balanced \in BOOLEAN
    /\ phase \in {"tuning", "waiting", "entering", "restoring", "ended", "killed"}
    /\ saved \in SUBSET Wrapper!Settings /\ marked \in SUBSET Wrapper!Settings
    /\ lost \in SUBSET Wrapper!Settings
    /\ left \in (Wrapper!Settings \X {"save", "set", "mark"}) \cup {Wrapper!NoStep}
    /\ child \in {"none", "running", "gone"} /\ signals \in 0 .. MaxSignals

LEMMA StepKeeps ==
    ASSUME HostInv, Wrapper!Step \/ Wrapper!SaveFails
    PROVE  HostInv'
<1> DEFINE s == Wrapper!Plan[pos][1]
           does == Wrapper!Plan[pos][2]
<1>1. /\ phase = "tuning" /\ pos <= Len(Wrapper!Plan)
      /\ saved' = IF does = "save" THEN saved \cup {s} ELSE saved
      /\ marked' = IF does = "mark" THEN marked \cup {s} ELSE marked
      /\ host' = IF does = "set" THEN [host EXCEPT ![s] = "tuned"] ELSE host
      /\ pos' = pos + 1
      /\ lost' \in {lost, lost \cup {s}}
      /\ UNCHANGED <<balanced, phase, left, child, signals>>
  BY DEF Wrapper!Step, Wrapper!SaveFails
<1>2. HostTypes /\ pos \in 1 .. Len(Wrapper!Plan) + 1
  BY DEF HostInv, HostTypes, Wrapper!TypeOK
<1>3. /\ (Len(Wrapper!Plan))' = Len(Wrapper!Plan)
      /\ Len(Wrapper!Plan) = IF balanced THEN 12 ELSE 11
  BY <1>1, <1>2, PlanStays DEF HostTypes
<1>4. At(s, does)
  BY <1>1, <1>2, <1>3, PlanAt DEF HostTypes
<1> HIDE DEF s, does
<1>5. s \in Wrapper!Settings
  BY <1>4 DEF At, Wrapper!Settings
<1>6. Wrapper!TypeOK'
  BY <1>1, <1>2, <1>3, <1>5 DEF Wrapper!TypeOK, HostTypes
<1>7. \A x \in Wrapper!Settings :
        host'[x] = IF does = "set" /\ x = s THEN "tuned" ELSE host[x]
  BY <1>1, <1>2, <1>5 DEF HostTypes
<1>8. /\ Recoverable /\ SavedSoFar
      /\ \A x : Wrapper!Caught(x)' = Wrapper!Caught(x)
  BY <1>1 DEF HostInv, Wrapper!Caught
<1>9. /\ host'["governor"] = "orig" \/ "governor" \in saved'
      /\ host'["boost"] = "orig" \/ "boost" \in saved'
      /\ host'["irqs"] = "orig" \/ "irqs" \in saved'
  BY <1>1, <1>4, <1>7, <1>8 DEF Recoverable, SavedSoFar, At, Wrapper!Settings
<1>10. host'["irqconf"] = "orig" \/ "irqconf" \in marked'
  BY <1>1, <1>4, <1>7, <1>8 DEF Recoverable, SavedSoFar, At, Wrapper!Settings
<1>11. "irqconf" \in marked' => "irqconf" \in saved' \/ Gap("irqconf")'
  <2>1. CASE s = "irqconf"
    <3>1. \/ pos = 8 /\ does = "mark" /\ balanced
          \/ pos = 9 /\ does = "save" /\ balanced
          \/ pos = 10 /\ does = "set" /\ balanced
      BY <1>4, <2>1 DEF At
    <3>2. CASE pos = 8 /\ does = "mark" /\ balanced
      <4>1. phase' = "tuning" /\ pos' = 9
        BY <1>1, <3>2
      <4>2. balanced'
        BY <1>1, <3>2
      <4> QED BY <4>1, <4>2 DEF Gap
    <3>3. CASE pos = 9 /\ does = "save" /\ balanced
      BY <1>1, <2>1, <3>3
    <3>4. CASE pos = 10 /\ does = "set" /\ balanced
      <4>1. "irqconf" \in saved
        BY <1>1, <1>8, <3>4 DEF SavedSoFar
      <4>2. saved' = saved
        BY <1>1, <3>4
      <4> QED BY <4>1, <4>2
    <3> QED BY <3>1, <3>2, <3>3, <3>4
  <2>2. CASE s # "irqconf"
    <3>1. ~(balanced /\ pos = 9)
      BY <1>4, <2>2 DEF At
    <3>2. ("irqconf" \in marked' => "irqconf" \in marked)
             /\ ("irqconf" \in saved => "irqconf" \in saved')
      BY <1>1, <2>2
    <3>3. Gap("irqconf") => Gap("irqconf")'
      BY <1>8, <3>1 DEF Gap
    <3> QED BY <1>8, <3>2, <3>3 DEF Recoverable
  <2> QED BY <2>1, <2>2
<1>12. host'["shield"] = "orig" \/ "shield" \in marked' \/ Gap("shield")'
  BY <1>1, <1>3, <1>4, <1>7, <1>8 DEF Recoverable, At, Gap, Wrapper!Settings
<1>13. /\ host'["slice"] \in {"orig", "all"} \/ "slice" \in marked' \/ Gap("slice")'
       /\ "slice" \in marked' => "slice" \in saved'
  <2>1. CASE s = "slice"
    <3>1. \/ pos = 5 /\ does = "save"
          \/ pos = 6 /\ does = "set"
          \/ pos = 7 /\ does = "mark"
      BY <1>4, <2>1 DEF At
    <3>2. pos > 5 => "slice" \in saved
      BY <1>1, <1>8 DEF SavedSoFar
    <3>3. CASE pos = 5 /\ does = "save"
      BY <1>1, <1>7, <1>8, <2>1, <3>3 DEF Recoverable, Gap, Wrapper!Settings
    <3>4. CASE pos = 6 /\ does = "set"
      BY <1>1, <1>8, <2>1, <3>2, <3>4 DEF Gap
    <3>5. CASE pos = 7 /\ does = "mark"
      BY <1>1, <2>1, <3>2, <3>5
    <3> QED BY <3>1, <3>3, <3>4, <3>5
  <2>2. CASE s # "slice"
    <3>1. pos # 7
      BY <1>4, <2>2 DEF At
    <3>2. host'["slice"] = host["slice"]
      BY <1>7, <2>2 DEF Wrapper!Settings
    <3> QED BY <1>1, <1>8, <2>2, <3>1, <3>2 DEF Recoverable, Gap
  <2> QED BY <2>1, <2>2
<1>14. Recoverable'
  BY <1>9, <1>10, <1>11, <1>12, <1>13 DEF Recoverable
<1>15. SavedSoFar'
  BY <1>1, <1>2, <1>4, <1>8 DEF SavedSoFar, At, Wrapper!NoStep
<1> QED BY <1>1, <1>6, <1>14, <1>15 DEF HostInv

\* Where a gap was open when the restore was entered, the signal is noted.
LEMMA EnteringKeeps ==
    ASSUME HostInv, Wrapper!EnterRestore, phase \in {"tuning", "waiting"},
           UNCHANGED <<host, balanced, saved, marked, lost, child>>,
           signals' \in 0 .. MaxSignals
    PROVE  HostInv'
<1>1. /\ HostTypes /\ Recoverable /\ SavedSoFar /\ pos \in 1 .. Len(Wrapper!Plan) + 1
      /\ phase' = "entering" /\ pos' = 1
      /\ left' = IF pos <= Len(Wrapper!Plan) THEN Wrapper!Plan[pos] ELSE Wrapper!NoStep
  BY DEF HostInv, HostTypes, Wrapper!TypeOK, Wrapper!EnterRestore
<1>2. /\ (Len(Wrapper!Plan))' = Len(Wrapper!Plan)
      /\ Len(Wrapper!Plan) = IF balanced THEN 12 ELSE 11
  BY <1>1, PlanStays DEF HostTypes
<1>3. left' \in (Wrapper!Settings \X {"save", "set", "mark"}) \cup {Wrapper!NoStep}
  <2>1. CASE pos <= Len(Wrapper!Plan)
    <3>1. pos \in 1 .. Len(Wrapper!Plan)
      BY <1>1, <1>2, <2>1
    <3>2. Wrapper!Plan[pos] \in Wrapper!Settings \X {"save", "set", "mark"}
      BY <1>1, <1>2, <3>1, PlanTyped DEF HostTypes
    <3> QED BY <1>1, <2>1, <3>2
  <2> QED BY <1>1, <2>1
<1>4. Wrapper!TypeOK'
  BY <1>1, <1>2, <1>3 DEF Wrapper!TypeOK, HostTypes
<1>5. \A s : ~Wrapper!Caught(s)
  BY <1>1 DEF SavedSoFar, Wrapper!Caught, Wrapper!NoStep
<1>6. /\ phase = "tuning" /\ pos = 7 => Wrapper!Caught("slice")'
      /\ phase = "tuning" /\ balanced /\ pos = 9 => Wrapper!Caught("irqconf")'
      /\ phase = "tuning" /\ pos = Len(Wrapper!Plan) => Wrapper!Caught("shield")'
  <2>1. /\ Wrapper!Plan[7] = <<"slice", "mark">>
        /\ balanced => Wrapper!Plan[9] = <<"irqconf", "save">>
        /\ Wrapper!Plan[Len(Wrapper!Plan)] = <<"shield", "mark">>
    BY <1>1, <1>2, PlanTable DEF HostTypes
  <2> QED BY <1>1, <1>2, <2>1 DEF Wrapper!Caught
<1>7. \A s \in {"slice", "irqconf", "shield"} : Gap(s) => Gap(s)'
  BY <1>5, <1>6 DEF Gap
<1>8. Recoverable'
  BY <1>1, <1>7 DEF Recoverable
<1>9. SavedSoFar' /\ PutBackSoFar(1)'
  BY <1>1 DEF SavedSoFar, PutBackSoFar
<1> QED BY <1>1, <1>4, <1>8, <1>9 DEF HostInv, PutBackSoFar

\* The steps that change no setting, no file and no flag.
LEMMA OtherSteps ==
    ASSUME HostInv, \/ Wrapper!SetRefused \/ Wrapper!Launch \/ Wrapper!Fails
                    \/ Wrapper!Wait \/ Wrapper!ChildEnds \/ Wrapper!ResetTraps
                    \/ Wrapper!Signal \/ UNCHANGED hostVars
    PROVE  HostInv'
<1>1. UNCHANGED <<host, balanced, saved, marked, lost>>
  BY DEF Wrapper!SetRefused, Wrapper!Launch, Wrapper!Fails, Wrapper!Wait,
         Wrapper!ChildEnds, Wrapper!ResetTraps, Wrapper!Signal, hostVars
<1>2. /\ Wrapper!TypeOK /\ Recoverable /\ SavedSoFar
      /\ phase \in {"entering", "restoring"} => pos <= 7 /\ PutBackSoFar(pos)
      /\ phase = "ended" => PutBackSoFar(7)
  BY DEF HostInv
<1>3. HostTypes /\ pos \in 1 .. Len(Wrapper!Plan) + 1
  BY <1>2 DEF Wrapper!TypeOK, HostTypes
<1>4. /\ (Len(Wrapper!Plan))' = Len(Wrapper!Plan)
      /\ Len(Wrapper!Plan) = IF balanced THEN 12 ELSE 11
  BY <1>1, <1>3, PlanStays DEF HostTypes
<1>5. CASE Wrapper!SetRefused
  <2>1. /\ phase = "tuning" /\ pos <= Len(Wrapper!Plan)
        /\ Wrapper!Plan[pos][2] = "set"
        /\ pos' = IF pos < Len(Wrapper!Plan) /\ Wrapper!Plan[pos + 1][2] = "mark"
                  THEN pos + 2 ELSE pos + 1
        /\ UNCHANGED <<phase, left, child, signals>>
    BY <1>5 DEF Wrapper!SetRefused
  <2>2. PICK s, does : At(s, does) /\ does = "set"
    BY <1>3, <1>4, <2>1, PlanAt DEF HostTypes
  <2>3. pos' \in {pos + 1, pos + 2}
    BY <2>1
  <2>4. pos' \in 1 .. Len(Wrapper!Plan) + 1
    BY <1>3, <1>4, <2>1
  <2>5. Wrapper!TypeOK'
    BY <1>1, <1>2, <1>4, <2>1, <2>4 DEF Wrapper!TypeOK
  <2>6. balanced /\ pos = 10 => pos' = 11
    BY <1>3, <1>4, <2>1, PlanTable DEF HostTypes
  <2>7. /\ ~(balanced /\ pos = 9) /\ pos # 7 /\ pos # Len(Wrapper!Plan)
    BY <1>3, <1>4, <2>2 DEF At, HostTypes
  <2>8. \A x \in {"slice", "irqconf", "shield"} : Gap(x) => Gap(x)'
    BY <2>1, <2>7 DEF Gap, Wrapper!Caught
  <2>9. Recoverable'
    BY <1>1, <1>2, <2>8 DEF Recoverable
  <2>10. SavedSoFar'
    BY <1>1, <1>2, <1>3, <1>4, <2>1, <2>2, <2>3, <2>6, PlanTable
       DEF SavedSoFar, At, HostTypes, Wrapper!NoStep
  <2> QED BY <2>1, <2>5, <2>9, <2>10 DEF HostInv
<1>6. CASE Wrapper!Launch
  <2>1. /\ phase = "tuning" /\ pos = Len(Wrapper!Plan) + 1
        /\ phase' = "waiting" /\ child' = "running" /\ UNCHANGED <<pos, left, signals>>
    BY <1>6 DEF Wrapper!Launch
  <2>2. Wrapper!TypeOK'
    BY <1>1, <1>2, <1>4, <2>1 DEF Wrapper!TypeOK
  <2>3. \A x \in {"slice", "irqconf", "shield"} : Gap(x) => Gap(x)'
    BY <1>4, <2>1 DEF Gap, Wrapper!Caught
  <2>4. Recoverable'
    BY <1>1, <1>2, <2>3 DEF Recoverable
  <2>5. SavedSoFar'
    BY <1>2, <2>1 DEF SavedSoFar, Wrapper!NoStep
  <2> QED BY <2>1, <2>2, <2>4, <2>5 DEF HostInv
<1>7. CASE Wrapper!Fails
  BY <1>3, <1>7, EnteringKeeps DEF Wrapper!Fails, HostTypes
<1>8. CASE Wrapper!Wait
  BY <1>3, <1>8, EnteringKeeps DEF Wrapper!Wait, HostTypes
<1>9. CASE Wrapper!ChildEnds \/ Wrapper!ResetTraps \/ UNCHANGED hostVars
  <2>1. /\ \/ child' = "gone" /\ phase' = phase
           \/ phase = "entering" /\ phase' = "restoring" /\ child' = child
           \/ UNCHANGED <<phase, child>>
        /\ UNCHANGED <<pos, left, signals>>
    BY <1>9 DEF Wrapper!ChildEnds, Wrapper!ResetTraps, hostVars
  <2>2. Wrapper!TypeOK'
    BY <1>1, <1>2, <1>4, <2>1 DEF Wrapper!TypeOK
  <2>3. \A x : Wrapper!Caught(x)' = Wrapper!Caught(x)
    BY <2>1 DEF Wrapper!Caught
  <2>4. \A x \in {"slice", "irqconf", "shield"} : Gap(x) => Gap(x)'
    BY <1>1, <1>4, <2>1, <2>3 DEF Gap
  <2>5. Recoverable' /\ SavedSoFar'
    BY <1>1, <1>2, <2>1, <2>4 DEF Recoverable, SavedSoFar, Wrapper!NoStep
  <2>6. /\ phase' \in {"entering", "restoring"} => pos' <= 7 /\ PutBackSoFar(pos)'
        /\ phase' = "ended" => PutBackSoFar(7)'
    BY <1>1, <1>2, <2>1, <2>3 DEF PutBackSoFar, PutBackOrLost
  <2> QED BY <2>2, <2>5, <2>6 DEF HostInv
<1>10. CASE Wrapper!Signal
  <2>1. signals' \in 0 .. MaxSignals /\ child' = child
    BY <1>3, <1>10, RunAssumption DEF Wrapper!Signal, HostTypes
  <2>2. CASE phase \in {"tuning", "waiting"} /\ Wrapper!EnterRestore
    BY <1>1, <2>1, <2>2, EnteringKeeps
  <2>3. CASE phase \in {"entering", "restoring"} /\ phase' = "killed" /\ UNCHANGED <<pos, left>>
    <3>1. Wrapper!TypeOK'
      BY <1>1, <1>2, <1>4, <2>1, <2>3 DEF Wrapper!TypeOK
    <3>2. \A x \in {"slice", "irqconf", "shield"} : Gap(x) => Gap(x)'
      BY <2>3 DEF Gap, Wrapper!Caught
    <3>3. Recoverable' /\ SavedSoFar'
      BY <1>1, <1>2, <2>3, <3>2 DEF Recoverable, SavedSoFar
    <3> QED BY <2>3, <3>1, <3>3 DEF HostInv
  <2> QED BY <1>10, <2>2, <2>3 DEF Wrapper!Signal
<1> QED BY <1>5, <1>6, <1>7, <1>8, <1>9, <1>10

\* restore_settings puts back what can be put back, one setting at a time,
\* or fails to.
LEMMA RestoreKeeps ==
    ASSUME HostInv, Wrapper!Restore \/ Wrapper!RestoreFails
    PROVE  HostInv'
<1>1. /\ phase = "restoring"
      /\ UNCHANGED <<balanced, saved, marked, left, child, signals>>
  BY DEF Wrapper!Restore, Wrapper!RestoreFails
<1>2. /\ HostTypes /\ pos \in 1 .. Len(Wrapper!Plan) + 1
      /\ Recoverable /\ pos <= 7 /\ PutBackSoFar(pos) /\ Wrapper!TypeOK
  BY <1>1 DEF HostInv, Wrapper!TypeOK, HostTypes
<1>3. /\ (Len(Wrapper!Plan))' = Len(Wrapper!Plan)
      /\ Len(Wrapper!Plan) = IF balanced THEN 12 ELSE 11
  BY <1>1, <1>2, PlanStays DEF HostTypes
<1>4. /\ Len(Wrapper!RestoreOrder) = 6
      /\ Wrapper!RestoreOrder[1] = "governor" /\ Wrapper!RestoreOrder[2] = "boost"
      /\ Wrapper!RestoreOrder[3] = "slice" /\ Wrapper!RestoreOrder[4] = "irqconf"
      /\ Wrapper!RestoreOrder[5] = "irqs" /\ Wrapper!RestoreOrder[6] = "shield"
  BY DEF Wrapper!RestoreOrder
<1>5. \A x : Wrapper!Caught(x)' = Wrapper!Caught(x)
  BY <1>1 DEF Wrapper!Caught
<1>6. CASE pos > Len(Wrapper!RestoreOrder)
  <2>1. phase' = "ended" /\ UNCHANGED <<host, pos, lost>> /\ pos = 7
    BY <1>2, <1>3, <1>4, <1>6 DEF Wrapper!Restore, Wrapper!RestoreFails
  <2>2. Wrapper!TypeOK'
    BY <1>1, <1>2, <1>3, <2>1 DEF Wrapper!TypeOK
  <2>3. \A x \in {"slice", "irqconf", "shield"} : Gap(x) => Gap(x)'
    BY <1>1, <1>5 DEF Gap
  <2>4. Recoverable'
    BY <1>1, <1>2, <2>1, <2>3 DEF Recoverable
  <2>5. PutBackSoFar(7)'
    BY <1>2, <1>5, <2>1 DEF PutBackSoFar, PutBackOrLost
  <2> QED BY <2>1, <2>2, <2>4, <2>5 DEF HostInv, SavedSoFar
<1>7. CASE pos <= Len(Wrapper!RestoreOrder)
  <2> DEFINE s == Wrapper!RestoreOrder[pos]
  <2> DEFINE v == Wrapper!PutBack(s)
  <2>1. /\ pos' = pos + 1 /\ phase' = phase
        /\ \/ host' = [host EXCEPT ![s] = v] /\ lost' = lost
           \/ host' = host /\ lost' = lost \cup {s}
    BY <1>2, <1>4, <1>7 DEF Wrapper!Restore, Wrapper!RestoreFails
  <2>2. \/ pos = 1 /\ s = "governor"
        \/ pos = 2 /\ s = "boost"
        \/ pos = 3 /\ s = "slice"
        \/ pos = 4 /\ s = "irqconf"
        \/ pos = 5 /\ s = "irqs"
        \/ pos = 6 /\ s = "shield"
    <3>1. \/ pos = 1 \/ pos = 2 \/ pos = 3 \/ pos = 4 \/ pos = 5 \/ pos = 6
      BY <1>2, <1>3, <1>4, <1>7
    <3> QED BY <1>4, <3>1
  <2>3. /\ v = "orig" \/ (s = "slice" /\ v = "all") \/ s \in lost \/ Wrapper!Caught(s)
        /\ v \in {"orig", "removed", "all", host[s]}
        /\ s = "irqconf" => v \in {"orig", host[s]} \/ s \in marked
        /\ s \in {"governor", "boost", "irqs", "shield"} => v \in {"orig", host[s]}
        /\ s = "slice" => v \in {"all", host[s]}
    <3>1. /\ \A x \in {"governor", "boost", "irqs"} : host[x] = "orig" \/ x \in saved
          /\ host["slice"] \in {"orig", "all"} \/ "slice" \in marked \/ Wrapper!Caught("slice")
          /\ "slice" \in marked => "slice" \in saved
          /\ host["irqconf"] = "orig" \/ "irqconf" \in marked
          /\ "irqconf" \in marked => "irqconf" \in saved \/ Wrapper!Caught("irqconf")
          /\ host["shield"] = "orig" \/ "shield" \in marked \/ Wrapper!Caught("shield")
      BY <1>1, <1>2 DEF Recoverable, Gap
    <3> HIDE DEF s
    <3>2. CASE s \in {"governor", "boost", "irqs"}
      BY <3>1, <3>2 DEF Wrapper!PutBack
    <3>3. CASE s = "slice"
      BY <3>1, <3>3 DEF Wrapper!PutBack
    <3>4. CASE s = "irqconf"
      BY <3>1, <3>4 DEF Wrapper!PutBack
    <3>5. CASE s = "shield"
      BY <3>1, <3>5 DEF Wrapper!PutBack
    <3> QED BY <2>2, <3>2, <3>3, <3>4, <3>5
  <2> HIDE DEF s, v
  <2>4. s \in Wrapper!Settings
    BY <2>2 DEF Wrapper!Settings
  <2>5. /\ host' \in [Wrapper!Settings -> {"orig", "tuned", "removed", "all"}]
        /\ \A x \in Wrapper!Settings : x # s => host'[x] = host[x]
        /\ \/ host'[s] = v /\ lost' = lost
           \/ host'[s] = host[s] /\ s \in lost'
        /\ lost \subseteq lost' /\ lost' \in SUBSET Wrapper!Settings
    BY <1>2, <2>1, <2>3, <2>4 DEF HostTypes
  <2>6. Wrapper!TypeOK'
    BY <1>1, <1>2, <1>3, <1>4, <1>7, <2>1, <2>5 DEF Wrapper!TypeOK
  <2>7. \A x \in {"slice", "irqconf", "shield"} : Gap(x) => Gap(x)'
    BY <1>1, <1>5 DEF Gap
  <2>8. Recoverable'
    <3>1. /\ host'["governor"] = "orig" \/ "governor" \in saved'
          /\ host'["boost"] = "orig" \/ "boost" \in saved'
          /\ host'["irqs"] = "orig" \/ "irqs" \in saved'
      BY <1>1, <1>2, <2>3, <2>5 DEF Recoverable, Wrapper!Settings
    <3>2. host'["slice"] \in {"orig", "all"} \/ "slice" \in marked' \/ Gap("slice")'
      BY <1>1, <1>2, <2>3, <2>5, <2>7 DEF Recoverable, Wrapper!Settings
    <3>3. host'["irqconf"] = "orig" \/ "irqconf" \in marked'
      BY <1>1, <1>2, <2>3, <2>5 DEF Recoverable, Wrapper!Settings
    <3>4. host'["shield"] = "orig" \/ "shield" \in marked' \/ Gap("shield")'
      BY <1>1, <1>2, <2>3, <2>5, <2>7 DEF Recoverable, Wrapper!Settings
    <3>5. /\ "slice" \in marked' => "slice" \in saved'
          /\ "irqconf" \in marked' => "irqconf" \in saved' \/ Gap("irqconf")'
      BY <1>1, <1>2, <2>7 DEF Recoverable
    <3> QED BY <3>1, <3>2, <3>3, <3>4, <3>5 DEF Recoverable
  <2>9. \A x \in Wrapper!Settings : x = s => PutBackOrLost(x)'
    BY <1>5, <2>3, <2>5 DEF PutBackOrLost
  <2>10. \A x \in Wrapper!Settings : x # s /\ PutBackOrLost(x) => PutBackOrLost(x)'
    BY <1>5, <2>5 DEF PutBackOrLost
  <2>11. PutBackSoFar(pos)'
    BY <1>2, <2>1, <2>2, <2>9, <2>10 DEF PutBackSoFar, Wrapper!Settings
  <2> QED BY <1>1, <1>2, <1>4, <1>7, <2>1, <2>6, <2>8, <2>11 DEF HostInv, SavedSoFar
<1> QED BY <1>2, <1>4, <1>6, <1>7

LEMMA HostStep ==
    ASSUME HostInv, \/ Wrapper!Steps \/ Wrapper!Faults \/ Wrapper!ChildEnds
                    \/ UNCHANGED hostVars
    PROVE  HostInv'
BY StepKeeps, OtherSteps, RestoreKeeps DEF Wrapper!Steps, Wrapper!Faults

-----------------------------------------------------------------------------
(* The benchmark.                                                          *)

Busy == {"start", "boot", "iterate", "client", "stop"}

\* The loops of main and run_benchmark.
Counted ==
    /\ at \in {"netem", "start", "boot", "iterate", "client", "stop", "clear", "exit"}
    /\ combo \in Nat \ {0} /\ iter \in 1 .. Count + 1 /\ skips \in 0 .. 2
    /\ at \in Busy \cup {"netem"} => combo \in Combos
    /\ at = "client" => iter <= Count
    /\ at \in {"netem", "start", "boot"} => skips = 0
    /\ at \in {"iterate", "client"} => skips <= 1
    /\ interrupts \in 0 .. MaxSignals

\* Measurements are taken with the whole emulation in effect, and it is then
\* known to NetemManager; what nobody knows of any more has leaked.
Emulates ==
    /\ tc \in 0 .. Run!TcCommands /\ active \in BOOLEAN /\ leaked \in BOOLEAN
    /\ at \in Busy => /\ tc = IF Emulated THEN Run!TcCommands ELSE 0
                      /\ active = Emulated
    /\ at # "netem" => tc = 0 \/ active = TRUE \/ leaked = TRUE
    /\ at = "exit" => active = FALSE
    /\ at = "netem" => Emulated \/ tc = 0
    /\ MeasuredAsConfigured

\* There is no server but that of the current combination.
OneServer ==
    /\ server \in [Combos -> {"off", "booting", "accepting", "waiting"}]
    /\ \A c \in Combos : server[c] # "off" => c = combo
    /\ at \in {"netem", "start"} => \A c \in Combos : server[c] = "off"
    /\ client \in [st : {"none", "trying", "finished", "refused"}, peer : Nat]
    /\ client.st # "none" => at = "client"
    /\ client.st = "finished" => client.peer = combo

\* A connection is served or queued at most once.
Queued ==
    /\ Run!NoConn \notin Run!Known
    /\ serving \in Run!Known \cup {Run!NoConn}
    /\ queue \in Seq(Run!Known \ {serving})
    /\ \A i, j \in 1 .. Len(queue) : queue[i] = queue[j] => i = j

BenchInv == Counted /\ Emulates /\ OneServer /\ Queued

IInv == HostInv /\ BenchInv

LEMMA BenchInit == Run!Init => BenchInv
<1> SUFFICES ASSUME Run!Init PROVE BenchInv
  OBVIOUS
<1> USE RunAssumption DEF Run!Init
<1>1. Counted
  BY DEF Counted, Busy
<1>2. Emulates
  <2>1. MeasuredAsConfigured
    BY DEF MeasuredAsConfigured, Run!MeasuredAsConfigured
  <2>2. active \in BOOLEAN /\ leaked \in BOOLEAN
    BY Zenon
  <2>3. tc \in 0 .. Run!TcCommands
    BY DEF Run!TcCommands
  <2>4. at \notin Busy /\ at = "netem"
    BY DEF Busy
  <2>5. tc = 0
    OBVIOUS
  <2> QED BY <2>1, <2>2, <2>3, <2>4, <2>5 DEF Emulates
<1>3. OneServer
  BY DEF OneServer, Run!NoClient
<1>4. Queued
  BY EmptySeq DEF Queued, Run!Known, Run!NoConns, Run!NoConn
<1> QED BY <1>1, <1>2, <1>3, <1>4 DEF BenchInv

\* The steps of the processes, leaving out those that only the server and the
\* client take: these change neither the loops nor the emulation.
RunnerStep ==
    \/ Run!Apply \/ Run!Clear \/ Run!StartServer \/ Run!Booted \/ Run!StartClient
    \/ Run!Collect \/ Run!LeaveLoop \/ Run!Stop \/ Run!Timeout
    \/ Run!ApplyFails \/ Run!NoCertificate \/ Run!Interrupt \/ Run!InterruptCleanup

QuietStep ==
    UNCHANGED <<at, combo, iter, skips, outputs, results, tc, active, leaked, interrupts>>

BenchStep == Run!Runner \/ Run!Server \/ Run!Trouble \/ UNCHANGED benchVars

LEMMA StepKinds == BenchStep => RunnerStep \/ QuietStep
BY DEF BenchStep, RunnerStep, QuietStep, benchVars, Run!Runner, Run!Server, Run!Trouble,
       Run!Bind, Run!Accept, Run!Served, Run!Arrive, Run!Refused, Run!ClientFinishes,
       Run!ServerFinishes, Run!Spoil, Run!BootFails, Run!runner, Run!netem

LEMMA CountedStep ==
    ASSUME Counted, BenchStep
    PROVE  Counted'
<1> USE RunAssumption DEF Counted, Busy
<1>1. CASE QuietStep
  BY <1>1 DEF QuietStep
<1>2. CASE Run!Apply
  BY <1>2 DEF Run!Apply
<1>3. CASE Run!Clear
  BY <1>3 DEF Run!Clear
<1>4. CASE Run!StartServer
  BY <1>4 DEF Run!StartServer
<1>5. CASE Run!Booted
  BY <1>5 DEF Run!Booted, Run!Raise, Run!NextCombo
<1>6. CASE Run!StartClient
  BY <1>6 DEF Run!StartClient
<1>7. CASE Run!Collect
  BY <1>7 DEF Run!Collect
<1>8. CASE Run!LeaveLoop
  BY <1>8 DEF Run!LeaveLoop
<1>9. CASE Run!Stop
  BY <1>9 DEF Run!Stop, Run!Raise, Run!NextCombo
<1>10. CASE Run!Timeout
  BY <1>10 DEF Run!Timeout
<1>11. CASE Run!ApplyFails
  BY <1>11 DEF Run!ApplyFails
<1>12. CASE Run!NoCertificate
  BY <1>12 DEF Run!NoCertificate, Run!Raise, Run!NextCombo
<1>13. CASE Run!Interrupt
  BY <1>13 DEF Run!Interrupt
<1>14. CASE Run!InterruptCleanup
  BY <1>14 DEF Run!InterruptCleanup
<1> QED BY <1>1, <1>2, <1>3, <1>4, <1>5, <1>6, <1>7, <1>8, <1>9, <1>10, <1>11, <1>12,
           <1>13, <1>14, StepKinds DEF RunnerStep

\* The emulation and what was measured under it.
LEMMA EmulatesStep ==
    ASSUME Counted, Emulates, OneServer, BenchStep
    PROVE  Emulates'
<1>1. CASE QuietStep
  BY <1>1 DEF QuietStep, Emulates, MeasuredAsConfigured, Run!MeasuredAsConfigured
<1>2. CASE Run!Apply
  <2>1. at = "netem" /\ UNCHANGED <<outputs, results, leaked>>
    BY <1>2 DEF Run!Apply
  <2>2. MeasuredAsConfigured'
    BY <2>1 DEF Emulates, MeasuredAsConfigured, Run!MeasuredAsConfigured
  <2>3. CASE Emulated /\ tc < Run!TcCommands /\ tc' = tc + 1 /\ UNCHANGED <<active, at>>
    <3>1. tc' \in 0 .. Run!TcCommands
      BY <2>3 DEF Emulates, Run!TcCommands
    <3>2. active' \in BOOLEAN /\ leaked' \in BOOLEAN
      BY <2>1, <2>3 DEF Emulates
    <3>3. at' \notin Busy /\ at' = "netem"
      BY <2>1, <2>3 DEF Busy
    <3> QED BY <2>2, <2>3, <3>1, <3>2, <3>3 DEF Emulates
  <2>4. CASE /\ Emulated => tc = Run!TcCommands
             /\ active' = Emulated /\ at' = "start" /\ UNCHANGED tc
    <3>1. active' \in BOOLEAN /\ leaked' \in BOOLEAN
      BY <2>1, <2>4, RunAssumption DEF Emulates
    <3>2. tc' = tc /\ tc \in 0 .. Run!TcCommands
      BY <2>4 DEF Emulates
    <3>3. tc = IF Emulated THEN Run!TcCommands ELSE 0
      BY <2>1, <2>4 DEF Emulates
    <3>4. tc' = 0 \/ active' = TRUE
      BY <2>4, <3>2, <3>3, RunAssumption
    <3> QED BY <2>2, <2>4, <3>1, <3>2, <3>3, <3>4 DEF Emulates
  <2> QED BY <1>2, <2>3, <2>4 DEF Run!Apply
<1>3. CASE Run!Clear \/ (Run!InterruptCleanup /\ at = "clear")
  <2>1. UNCHANGED <<outputs, results>> /\ at = "clear" /\ at' = "exit"
    BY <1>3 DEF Run!Clear, Run!InterruptCleanup
  <2>2. active' = FALSE
    BY <1>3 DEF Run!Clear, Run!InterruptCleanup
  <2>3. MeasuredAsConfigured'
    BY <2>1 DEF Emulates, MeasuredAsConfigured, Run!MeasuredAsConfigured
  <2>4. tc' \in {0, tc} /\ tc' \in 0 .. Run!TcCommands
    BY <1>3 DEF Run!Clear, Run!InterruptCleanup, Emulates, Run!TcCommands
  <2>5. active' \in BOOLEAN /\ leaked' \in BOOLEAN
    <3>1. active' \in BOOLEAN
      BY <2>2, Zenon
    <3>2. leaked' = leaked \/ leaked' = TRUE \/ leaked' = (leaked \/ (active /\ tc' # 0))
      BY <1>3, Zenon DEF Run!Clear, Run!InterruptCleanup
    <3>3. leaked \in BOOLEAN
      BY DEF Emulates
    <3>4. leaked' \in BOOLEAN
      BY <3>2, <3>3
    <3> QED BY <3>1, <3>4
  <2>6. tc' = 0 \/ leaked' = TRUE
    <3>1. tc = 0 \/ active = TRUE \/ leaked = TRUE
      BY <2>1 DEF Emulates
    <3>2. active \in BOOLEAN /\ leaked \in BOOLEAN
      BY DEF Emulates
    <3>3. CASE Run!Clear
      BY <3>1, <3>2, <3>3 DEF Run!Clear
    <3>4. CASE Run!InterruptCleanup /\ at = "clear"
      <4>1. /\ tc' \in IF active THEN {0, tc} ELSE {tc}
            /\ leaked' = (leaked \/ (active /\ tc' # 0))
        BY <3>4 DEF Run!InterruptCleanup
      <4> QED BY <3>1, <3>2, <4>1
    <3> QED BY <1>3, <3>3, <3>4
  <2> QED BY <2>1, <2>2, <2>3, <2>4, <2>5, <2>6 DEF Emulates, Busy
<1>4. CASE \/ Run!StartServer \/ Run!StartClient \/ Run!LeaveLoop \/ Run!Timeout
           \/ Run!InterruptCleanup /\ at = "stop"
  <2>1. /\ UNCHANGED <<outputs, results, tc, active, leaked>>
        /\ at \in Busy
        /\ at' \notin {"netem", "exit"}
    BY <1>4 DEF Run!StartServer, Run!StartClient, Run!LeaveLoop, Run!Timeout,
       Run!InterruptCleanup, Run!netem, Busy
  <2> QED BY <2>1 DEF Emulates, MeasuredAsConfigured, Run!MeasuredAsConfigured, Busy
<1>5. CASE Run!Booted \/ Run!NoCertificate
  <2>1. /\ UNCHANGED <<results, tc, active, leaked>>
        /\ outputs' \in {{}, outputs}
        /\ at' \notin {"netem", "exit"} /\ at \in Busy
    BY <1>5 DEF Run!Booted, Run!NoCertificate, Run!netem, Run!Raise, Run!NextCombo, Busy
  <2> QED BY <2>1 DEF Emulates, MeasuredAsConfigured, Run!MeasuredAsConfigured, Busy
<1>6. CASE Run!Collect
  <2> DEFINE o == [combo |-> combo, iter |-> iter, tc |-> tc, server |-> client.peer]
  <2>1. /\ UNCHANGED <<results, tc, active, leaked>> /\ at' = "iterate" /\ at = "client"
        /\ \/ outputs' = outputs
           \/ client.st = "finished" /\ outputs' = outputs \cup {o}
    BY <1>6 DEF Run!Collect, Run!netem
  <2>2. client.st = "finished" =>
          o.server = o.combo /\ o.tc = IF Emulated THEN Run!TcCommands ELSE 0
    BY <2>1 DEF OneServer, Emulates, Busy
  <2> HIDE DEF o
  <2>3. MeasuredAsConfigured'
    BY <2>1, <2>2 DEF Emulates, MeasuredAsConfigured, Run!MeasuredAsConfigured
  <2> QED BY <2>1, <2>3 DEF Emulates, Busy
<1>7. CASE Run!Stop
  <2>1. /\ UNCHANGED <<tc, active, leaked>> /\ at = "stop" /\ at' \notin {"netem", "exit"}
        /\ outputs' \subseteq outputs /\ results' \subseteq results \cup outputs
    BY <1>7 DEF Run!Stop, Run!netem, Run!Raise, Run!NextCombo
  <2>2. MeasuredAsConfigured'
    BY <2>1 DEF Emulates, MeasuredAsConfigured, Run!MeasuredAsConfigured
  <2> QED BY <2>1, <2>2 DEF Emulates, Busy
<1>8. CASE Run!ApplyFails \/ Run!Interrupt
  <2>1. /\ UNCHANGED <<outputs, results, tc, active>>
        /\ at' \in Busy => at \in Busy
        /\ at' \notin {"netem", "exit"}
        /\ at \in Busy \/ (at = "netem" /\ leaked' = (tc # 0))
    BY <1>8 DEF Run!ApplyFails, Run!Interrupt, Busy
  <2>2. leaked' \in BOOLEAN
    BY <1>8, Zenon DEF Run!ApplyFails, Run!Interrupt
  <2>3. tc' = 0 \/ active' = TRUE \/ leaked' = TRUE
    BY <2>1, <2>2 DEF Emulates, Run!TcCommands, Busy
  <2> QED BY <2>1, <2>2, <2>3 DEF Emulates, MeasuredAsConfigured, Run!MeasuredAsConfigured
<1>9. Run!InterruptCleanup => at \in {"stop", "clear"}
  BY DEF Run!InterruptCleanup
<1> QED BY <1>1, <1>2, <1>3, <1>4, <1>5, <1>6, <1>7, <1>8, <1>9, StepKinds DEF RunnerStep

\* A process that binds, accepts, serves or ends was there before.
LEMMA ServerMoves ==
    ASSUME OneServer, NEW c \in Combos,
           server[c] # "off",
           NEW v \in {"off", "booting", "accepting", "waiting"},
           server' = [server EXCEPT ![c] = v],
           UNCHANGED <<at, combo, client>>
    PROVE  OneServer'
<1>1. at \notin {"netem", "start"} /\ c = combo
  BY DEF OneServer
<1>2. server' \in [Combos -> {"off", "booting", "accepting", "waiting"}]
  BY DEF OneServer
<1>3. \A d \in Combos : server'[d] # "off" => d = combo
  BY <1>1 DEF OneServer
<1> QED BY <1>1, <1>2, <1>3 DEF OneServer

\* The next combination starts without a server.
LEMMA NextComboStarts ==
    ASSUME OneServer, Counted, \A d \in Combos : server'[d] = "off",
           server' \in [Combos -> {"off", "booting", "accepting", "waiting"}],
           client' = client, at # "client", at' # "client"
    PROVE  OneServer'
BY DEF OneServer

LEMMA OneServerStep ==
    ASSUME Counted, OneServer, BenchStep
    PROVE  OneServer'
<1>1. CASE UNCHANGED <<server, client, combo>> /\ at # "client"
           /\ (at' \in {"netem", "start"} => at \in {"netem", "start"})
  BY <1>1 DEF OneServer
<1>2. CASE UNCHANGED <<server, client, combo, at>>
  BY <1>2 DEF OneServer
<1>3. CASE Run!Apply \/ Run!Clear \/ Run!LeaveLoop \/ Run!ApplyFails
  BY <1>1, <1>3 DEF Run!Apply, Run!Clear, Run!LeaveLoop, Run!ApplyFails, Run!stack
<1>4. CASE Run!StartServer
  <2>1. /\ at = "start" /\ server' = [server EXCEPT ![combo] = "booting"] /\ at' = "boot"
        /\ UNCHANGED <<combo, client>>
    BY <1>4 DEF Run!StartServer
  <2>2. combo \in Combos
    BY <2>1 DEF Counted, Busy
  <2> QED BY <2>1, <2>2 DEF OneServer
<1>5. CASE Run!NoCertificate
  <2>1. at = "start" /\ UNCHANGED <<server, client>> /\ at' # "client"
    BY <1>5 DEF Run!NoCertificate, Run!Raise, Run!NextCombo, Run!stack
  <2> QED BY <2>1, NextComboStarts DEF OneServer
<1>6. CASE Run!Booted
  <2>1. at = "boot" /\ UNCHANGED <<server, client>> /\ at' # "client"
    BY <1>6 DEF Run!Booted, Run!Raise, Run!NextCombo, Run!stack
  <2>2. CASE server[combo] = "off"
    BY <2>1, <2>2, NextComboStarts DEF OneServer
  <2>3. CASE server[combo] # "off"
    <3>1. combo' = combo /\ at' = "iterate"
      BY <1>6, <2>3 DEF Run!Booted
    <3> QED BY <1>1, <2>1, <3>1
  <2> QED BY <2>2, <2>3
<1>7. CASE Run!StartClient
  <2>1. at' = "client" /\ UNCHANGED <<combo, server>> /\ client' = [st |-> "trying", peer |-> 0]
    BY <1>7 DEF Run!StartClient, Run!stack
  <2> QED BY <2>1 DEF OneServer
<1>8. CASE Run!Collect \/ Run!Timeout \/ Run!Interrupt
  <2>1. at' \in {"iterate", "stop", "clear"} /\ UNCHANGED <<combo, server>>
        /\ client' = [st |-> "none", peer |-> 0]
    BY <1>8 DEF Run!Collect, Run!Timeout, Run!Interrupt, Run!stack, Run!NoClient
  <2> QED BY <2>1 DEF OneServer
<1>9. CASE Run!Stop
  <2>1. /\ at = "stop" /\ server' = [server EXCEPT ![combo] = "off"]
        /\ client' = client /\ at' # "client"
    BY <1>9 DEF Run!Stop, Run!Gone, Run!Raise, Run!NextCombo
  <2>2. \A d \in Combos : server'[d] = "off"
    BY <2>1 DEF OneServer
  <2>3. server' \in [Combos -> {"off", "booting", "accepting", "waiting"}]
    BY <2>1 DEF OneServer
  <2> QED BY <2>1, <2>2, <2>3, NextComboStarts
<1>17. CASE Run!InterruptCleanup
  <2>1. /\ at \in {"stop", "clear"} /\ at' \in {"clear", "exit"} /\ UNCHANGED <<combo, client>>
        /\ server' = server \/ server' = [server EXCEPT ![combo] = "off"]
    BY <1>17 DEF Run!InterruptCleanup, Run!Gone, Run!stack
  <2>2. server' \in [Combos -> {"off", "booting", "accepting", "waiting"}]
    BY <2>1 DEF OneServer
  <2>3. \A d \in Combos : server'[d] # "off" => d = combo
    BY <2>1 DEF OneServer
  <2> QED BY <2>1, <2>2, <2>3 DEF OneServer
<1>10. CASE \E c \in Combos : Run!Bind(c)
  <2>1. PICK c \in Combos : Run!Bind(c)
    BY <1>10
  <2>2. PICK v \in {"off", "accepting"} : server' = [server EXCEPT ![c] = v]
    BY <2>1 DEF Run!Bind
  <2>3. server[c] = "booting" /\ UNCHANGED <<at, combo, client>>
    BY <2>1 DEF Run!Bind, Run!runner
  <2> QED BY <2>2, <2>3, ServerMoves
<1>11. CASE \E c \in Combos : Run!Accept(c)
  <2>1. PICK c \in Combos : Run!Accept(c)
    BY <1>11
  <2> QED BY <2>1, ServerMoves DEF Run!Accept, Run!runner
<1>12. CASE \E c \in Combos : Run!Served(c)
  <2>1. PICK c \in Combos : Run!Served(c)
    BY <1>12
  <2>2. PICK v \in {"off", "accepting"} : server' = [server EXCEPT ![c] = v]
    BY <2>1 DEF Run!Served, Run!Gone
  <2>3. server[c] = "waiting" /\ UNCHANGED <<at, combo, client>>
    BY <2>1 DEF Run!Served, Run!runner
  <2> QED BY <2>2, <2>3, ServerMoves
<1>13. CASE \E c \in Combos : Run!BootFails(c)
  <2>1. PICK c \in Combos : Run!BootFails(c)
    BY <1>13
  <2> QED BY <2>1, ServerMoves DEF Run!BootFails, Run!Gone, Run!runner
<1>14. CASE Run!Arrive \/ (\E a \in Run!Known : Run!ServerFinishes(a)) \/ Run!Spoil
            \/ UNCHANGED benchVars
  BY <1>2, <1>14 DEF Run!Arrive, Run!ServerFinishes, Run!Spoil, Run!runner, Run!stack, benchVars
<1>15. CASE Run!Refused
  <2>1. /\ client.st = "trying" /\ client' = [client EXCEPT !.st = "refused"]
        /\ UNCHANGED <<at, combo, server>>
    BY <1>15 DEF Run!Refused, Run!runner, Run!stack
  <2>2. client' \in [st : {"none", "trying", "finished", "refused"}, peer : Nat]
        /\ client'.st = "refused"
    BY <2>1 DEF OneServer
  <2> QED BY <2>1, <2>2 DEF OneServer
<1>16. CASE Run!ClientFinishes
  <2>1. /\ client.st = "trying" /\ UNCHANGED <<at, combo, server>>
    BY <1>16 DEF Run!ClientFinishes, Run!runner
  <2>2. PICK c \in Combos : Run!Bound(c) /\ client' = [st |-> "finished", peer |-> c]
    BY <1>16 DEF Run!ClientFinishes
  <2>3. c = combo /\ c \in Nat
    BY <2>2, RunAssumption DEF OneServer, Run!Bound
  <2> QED BY <2>1, <2>2, <2>3 DEF OneServer
<1> QED BY <1>3, <1>4, <1>5, <1>6, <1>7, <1>8, <1>9, <1>10, <1>11, <1>12, <1>13, <1>14,
           <1>15, <1>16, <1>17
        DEF BenchStep, Run!Runner, Run!Server, Run!Trouble

\* A process that ends leaves nothing queued, or nothing changed.
LEMMA GoneKeepsQueue ==
    ASSUME Queued, NEW c, Run!Gone(c)
    PROVE  Queued'
<1>1. CASE UNCHANGED <<serving, queue, conns>>
  BY <1>1 DEF Queued, Run!Known
<1>2. CASE serving' = Run!NoConn /\ queue' = <<>> /\ conns' = Run!NoConns
  <2>1. (Run!Known)' = {}
    BY <1>2 DEF Run!Known, Run!NoConns
  <2> QED BY <1>2, <2>1, EmptySeq DEF Queued
<1> QED BY <1>1, <1>2 DEF Run!Gone

LEMMA QueuedStep ==
    ASSUME Counted, Queued, BenchStep
    PROVE  Queued'
<1>1. CASE UNCHANGED <<serving, queue, conns>>
  BY <1>1 DEF Queued, Run!Known
<1>2. CASE \/ Run!Apply \/ Run!Clear \/ Run!StartServer \/ Run!Booted \/ Run!StartClient
           \/ Run!Collect \/ Run!LeaveLoop \/ Run!Timeout \/ Run!ApplyFails
           \/ Run!NoCertificate \/ Run!Interrupt \/ Run!Spoil \/ Run!Refused
           \/ (\E c \in Combos : Run!Bind(c)) \/ UNCHANGED benchVars
  <2>1. UNCHANGED <<serving, queue, conns>>
    BY <1>2 DEF Run!Apply, Run!Clear, Run!StartServer, Run!Booted, Run!StartClient,
       Run!Collect, Run!LeaveLoop, Run!Timeout, Run!ApplyFails, Run!NoCertificate,
       Run!Interrupt, Run!Spoil, Run!Refused, Run!Bind, Run!stack, benchVars
  <2> QED BY <1>1, <2>1
<1>3. CASE Run!Stop \/ \E c \in Combos : Run!BootFails(c)
  BY <1>3, GoneKeepsQueue DEF Run!Stop, Run!BootFails
<1>8. CASE Run!InterruptCleanup
  <2>1. Run!Gone(combo) \/ UNCHANGED <<serving, queue, conns>>
    BY <1>8 DEF Run!InterruptCleanup, Run!stack
  <2> QED BY <1>1, <2>1, GoneKeepsQueue
<1>4. CASE \E c \in Combos : Run!Served(c)
  <2>1. PICK c \in Combos : Run!Served(c)
    BY <1>4
  <2>2. CASE serving' = Run!NoConn /\ UNCHANGED <<queue, conns>>
    <3>1. (Run!Known)' = Run!Known
      BY <2>2 DEF Run!Known
    <3>2. queue \in Seq(Run!Known \ {Run!NoConn})
      <4>1. \A i \in 1 .. Len(queue) : queue[i] \in Run!Known \ {Run!NoConn}
        BY ElementOfSeq DEF Queued
      <4> QED BY <4>1 DEF Queued
    <3> QED BY <2>2, <3>1, <3>2 DEF Queued
  <2> QED BY <2>1, <2>2, GoneKeepsQueue DEF Run!Served
<1>5. CASE \E c \in Combos : Run!Accept(c)
  <2>1. /\ queue # <<>> /\ serving' = Head(queue) /\ queue' = Tail(queue)
        /\ conns' = conns
    BY <1>5 DEF Run!Accept
  <2>2. (Run!Known)' = Run!Known
    BY <2>1 DEF Run!Known
  <2> DEFINE S == Run!Known \ {serving}
  <2>3. queue \in Seq(S) /\ Len(queue) \in Nat
    BY DEF Queued
  <2>4. /\ Head(queue) = queue[1] /\ queue[1] \in S
        /\ Tail(queue) \in Seq(S) /\ Len(Tail(queue)) = Len(queue) - 1
        /\ \A i \in 1 .. Len(queue) - 1 : Tail(queue)[i] = queue[i + 1]
    BY <2>1, <2>3
  <2> HIDE DEF S
  <2>5. \A i \in 1 .. Len(queue) - 1 : Tail(queue)[i] \in S /\ Tail(queue)[i] # queue[1]
    BY <2>3, <2>4, ElementOfSeq DEF Queued
  <2>6. Tail(queue) \in Seq(Run!Known \ {queue[1]})
    <3>1. S \ {queue[1]} \subseteq Run!Known \ {queue[1]}
      BY DEF S
    <3>2. \A i \in 1 .. Len(Tail(queue)) : Tail(queue)[i] \in Run!Known \ {queue[1]}
      BY <2>4, <2>5, <3>1
    <3> DEFINE t == Tail(queue)
               Q == Run!Known \ {queue[1]}
    <3>3. t \in Seq(S) /\ \A i \in 1 .. Len(t) : t[i] \in Q
      BY <2>4, <3>2
    <3> HIDE DEF t, Q
    <3>4. t \in Seq(Q)
      BY <3>3
    <3> QED BY <3>4 DEF t, Q
  <2>7. \A i, j \in 1 .. Len(Tail(queue)) : Tail(queue)[i] = Tail(queue)[j] => i = j
    BY <2>3, <2>4 DEF Queued
  <2> QED BY <2>1, <2>2, <2>4, <2>6, <2>7 DEF Queued, S
<1>6. CASE Run!Arrive
  <2> DEFINE a == Run!Attempt
  <2>1. /\ a \notin Run!Known /\ queue' = Append(queue, a) /\ serving' = serving
        /\ (Run!Known)' = Run!Known \cup {a}
    BY <1>6 DEF Run!Arrive, Run!Known
  <2>2. a # Run!NoConn
    BY DEF Counted, Run!Attempt, Run!NoConn
  <2> HIDE DEF a
  <2>3. queue \in Seq(Run!Known \ {serving}) /\ Len(queue) \in Nat
        /\ serving \in Run!Known \cup {Run!NoConn}
    BY DEF Queued
  <2>4. /\ Len(queue') = Len(queue) + 1 /\ queue'[Len(queue) + 1] = a
        /\ \A i \in 1 .. Len(queue) : queue'[i] = queue[i] /\ queue[i] \in Run!Known \ {serving}
    BY <2>1, <2>3, ElementOfSeq
  <2>5. queue' \in Seq((Run!Known \cup {a}) \ {serving})
    <3>1. \A i \in 1 .. Len(queue) : queue[i] \in (Run!Known \cup {a}) \ {serving}
      BY <2>4
    <3>2. queue \in Seq((Run!Known \cup {a}) \ {serving})
      BY <2>3, <3>1
    <3>3. a \in (Run!Known \cup {a}) \ {serving}
      BY <2>1, <2>2, <2>3
    <3> QED BY <2>1, <3>2, <3>3, AppendProperties
  <2>6. \A i, j \in 1 .. Len(queue') : queue'[i] = queue'[j] => i = j
    BY <2>1, <2>3, <2>4 DEF Queued
  <2> QED BY <2>1, <2>2, <2>5, <2>6 DEF Queued
<1>7. CASE Run!ClientFinishes \/ \E a \in Run!Known : Run!ServerFinishes(a)
  <2>1. (Run!Known)' = Run!Known /\ UNCHANGED <<serving, queue>>
    BY <1>7 DEF Run!ClientFinishes, Run!ServerFinishes, Run!Known
  <2> QED BY <2>1 DEF Queued
<1> QED BY <1>2, <1>3, <1>4, <1>5, <1>6, <1>7, <1>8
        DEF BenchStep, Run!Runner, Run!Server, Run!Trouble

LEMMA BenchStepKeeps ==
    ASSUME BenchInv, BenchStep
    PROVE  BenchInv'
<1>1. Counted /\ Emulates /\ OneServer /\ Queued
  BY DEF BenchInv
<1>2. Counted' /\ Emulates' /\ OneServer' /\ Queued'
  BY <1>1, CountedStep, EmulatesStep, OneServerStep, QueuedStep
<1> QED BY <1>2 DEF BenchInv

-----------------------------------------------------------------------------
(* Theorems.                                                               *)

\* Every step is one of the wrapper, of the benchmark, or of the wrapper that
\* sees the runner end.
LEMMA NextKinds ==
    ASSUME [Next]_vars
    PROVE  /\ Wrapper!Steps \/ Wrapper!Faults \/ Wrapper!ChildEnds \/ UNCHANGED hostVars
           /\ BenchStep
BY DEF Next, vars, WrapperSteps, WrapperFaults, RunnerSteps, ServerSteps, Trouble,
       RunnerExits, Over, BenchStep

(* with_host_tuning.sh and run_benchmarks.py keep the conjunction of what  *)
(* can be put back, what was put back or lost, the loops, the emulation,   *)
(* the one server and its queue.                                           *)
THEOREM Invariance == Spec => []IInv
<1>1. Init => IInv
  BY HostInit, BenchInit DEF Init, IInv
<1>2. IInv /\ [Next]_vars => IInv'
  BY NextKinds, HostStep, BenchStepKeeps DEF IInv
<1> QED BY <1>1, <1>2, PTL DEF Spec

\* The cardinality that Bench extends is the one of this module.
LEMMA SameCardinality ==
    ASSUME NEW S
    PROVE  Run!Cardinality(S) = Cardinality(S)
BY DEF Run!Cardinality, Cardinality

LEMMA BenchTypes ==
    ASSUME IInv
    PROVE  Run!TypeOK
<1>1. Counted /\ Emulates /\ OneServer /\ Queued
  BY DEF IInv, BenchInv
<1>2. Cardinality({c \in Combos : Run!Bound(c)}) <= 1
  <2> DEFINE B == {c \in Combos : Run!Bound(c)}
  <2>1. B \subseteq {combo}
    BY <1>1 DEF OneServer, Run!Bound
  <2> HIDE DEF B
  <2>2. IsFiniteSet({combo}) /\ Cardinality({combo}) = 1
    BY FS_Singleton
  <2>3. Cardinality(B) <= Cardinality({combo})
    BY <2>1, <2>2, FS_Subset
  <2> QED BY <2>2, <2>3 DEF B
<1>3. \A i \in DOMAIN queue : queue[i] \in Run!Known \ {serving}
  BY <1>1, ElementOfSeq DEF Queued
<1>4. client.st \in {"none", "trying", "finished", "refused"}
  BY <1>1 DEF OneServer
<1>5. combo \in Nat /\ iter \in 1 .. Count + 1 /\ skips \in 0 .. 2
      /\ interrupts \in 0 .. MaxSignals
  BY <1>1 DEF Counted
<1>6. at \in {"netem", "start", "boot", "iterate", "client", "stop", "clear", "exit"}
  BY <1>1 DEF Counted
<1>7. tc \in 0 .. Run!TcCommands /\ active \in BOOLEAN /\ leaked \in BOOLEAN
  BY <1>1 DEF Emulates
<1>8. /\ server \in [Combos -> {"off", "booting", "accepting", "waiting"}]
      /\ serving \in Run!Known \cup {Run!NoConn}
  BY <1>1 DEF OneServer, Queued
<1> QED BY <1>2, <1>3, <1>4, <1>5, <1>6, <1>7, <1>8, SameCardinality DEF Run!TypeOK

(* The state of both scripts, of the server and of the client stays typed: *)
(* one process at most holds the port and no queued connection is served.  *)
THEOREM TypeCorrect == Spec => []TypeOK
<1>1. IInv => TypeOK
  BY BenchTypes DEF IInv, HostInv, TypeOK
<1> QED BY <1>1, Invariance, PTL

(* restore_settings puts every setting back, after any failure of a        *)
(* command and any signal that lets it run to its end, unless a command of *)
(* that setting failed behind || true or the signal came in its gap.       *)
THEOREM HostRestored == Spec => []SavedIsRestored
<1>1. IInv => SavedIsRestored
  <2> SUFFICES ASSUME IInv, phase = "ended", NEW s \in Wrapper!Settings
               PROVE  PutBackOrLost(s)
    BY DEF SavedIsRestored, Wrapper!SavedIsRestored, PutBackOrLost
  <2> QED BY DEF IInv, HostInv, PutBackSoFar, Wrapper!Settings
<1> QED BY <1>1, Invariance, PTL

(* No time is kept of another combination's server or under part of the    *)
(* emulation.                                                              *)
THEOREM TimesAsConfigured == Spec => []MeasuredAsConfigured
<1>1. IInv => MeasuredAsConfigured
  BY DEF IInv, BenchInv, Emulates
<1> QED BY <1>1, Invariance, PTL

(* NetemManager leaves no emulation behind unless a tc command failed or   *)
(* was interrupted.                                                        *)
THEOREM InterfaceClean == Spec => []EmulationRemoved
<1>1. ASSUME IInv PROVE EmulationRemoved
  <2>1. /\ at = "exit" => active = FALSE
        /\ at # "netem" => tc = 0 \/ active = TRUE \/ leaked = TRUE
    BY <1>1 DEF IInv, BenchInv, Emulates
  <2> QED BY <2>1 DEF EmulationRemoved, Run!EmulationRemoved
<1> QED BY <1>1, Invariance, PTL
=============================================================================
