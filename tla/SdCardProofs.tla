---------------------------- MODULE SdCardProofs ----------------------------
(* The speed ladder of the SD card, for any ladder, calls and card moves.  *)
EXTENDS SdCard, TLAPS

\* What the call in progress knows of the ladder and of the card.
Progress ==
  /\ ModeNeverWraps
  /\ pc = "attempt" => op = "transfer"
  /\ pc = "try" => ~res
  /\ pc # "idle" => op \in {"init", "transfer"}
  /\ pc = "judge" /\ res => mode # 0 /\ ready /\ done /\ event /\ tried

\* What the last call has left behind for the next one.
Aftermath ==
  /\ SuccessIsUp
  /\ pc = "idle" /\ op = "end" => mode # 0
  /\ pc = "try" /\ op = "init" /\ prev = "end" /\ ~tried => mode # 0
  /\ pc \in {"idle", "judge"} /\ op = "init" /\ prev = "end" => tried

IInv == TypeOK /\ Progress /\ Aftermath

LEMMA InitIInv == Init => IInv
<1> SUFFICES ASSUME Init PROVE IInv
  OBVIOUS
<1> USE SdAssumption DEF Init
<1>1. MaxMode \in 0 .. MaxMode /\ 0 \in 0 .. MaxCalls /\ 0 \in 0 .. MaxMoves
  OBVIOUS
<1>2. TypeOK BY <1>1 DEF TypeOK, Ops
<1>3. Progress BY DEF Progress, ModeNeverWraps
<1>4. Aftermath BY DEF Aftermath, SuccessIsUp
<1> QED BY <1>2, <1>3, <1>4 DEF IInv

LEMMA MoveStep == IInv /\ Move => IInv'
<1> SUFFICES ASSUME IInv, Move PROVE IInv'
  OBVIOUS
<1> USE SdAssumption DEF IInv, Move, card
<1>1. TypeOK' BY DEF TypeOK
<1>2. Progress' BY DEF Progress, ModeNeverWraps
<1>3. Aftermath' BY DEF Aftermath, SuccessIsUp
<1> QED BY <1>1, <1>2, <1>3

LEMMA CallStep == ASSUME IInv, NEW o \in Ops \ {"none"}, Call(o) PROVE IInv'
<1> USE SdAssumption DEF IInv, Call, card
<1>1. o \in {"init", "end", "transfer"} BY DEF Ops
<1>2. pc' \in {"idle", "try", "attempt"} /\ pc' = Entry(o) BY <1>1 DEF Entry
<1>3. mode' \in 0 .. MaxMode /\ (o = "end" => mode' # 0)
  BY DEF TypeOK, Reset
<1>4. ready' \in BOOLEAN /\ done' \in BOOLEAN /\ event' \in BOOLEAN
  BY DEF TypeOK, StorageEnd
<1>5. TypeOK'
  <2>1. op' \in Ops /\ prev' \in Ops BY DEF TypeOK
  <2>2. calls' \in 0 .. MaxCalls /\ moves' \in 0 .. MaxMoves BY DEF TypeOK
  <2> QED BY <1>2, <1>3, <1>4, <2>1, <2>2 DEF TypeOK
<1>6. Progress'
  BY <1>1, <1>2 DEF Progress, ModeNeverWraps, Entry
<1>7. Aftermath'
  BY <1>1, <1>2, <1>3 DEF Aftermath, SuccessIsUp, Entry
<1> QED BY <1>5, <1>6, <1>7

LEMMA AttemptStep == IInv /\ Attempt => IInv'
<1> SUFFICES ASSUME IInv, Attempt PROVE IInv'
  OBVIOUS
<1> USE SdAssumption DEF IInv, Attempt
<1>1. mode' \in 0 .. MaxMode
  BY DEF TypeOK, Progress, ModeNeverWraps
<1>2. op = "transfer" /\ pc' \in {"idle", "try"} /\ (pc' = "try" => ~res')
  BY DEF Progress
<1>3. TypeOK' BY <1>1, <1>2 DEF TypeOK, StorageEnd
<1>4. Progress' BY <1>2 DEF Progress, ModeNeverWraps
<1>5. Aftermath' BY <1>2 DEF Aftermath, SuccessIsUp
<1> QED BY <1>3, <1>4, <1>5

LEMMA TryStep == IInv /\ Try => IInv'
<1> SUFFICES ASSUME IInv, Try PROVE IInv'
  OBVIOUS
<1> USE SdAssumption DEF IInv, Try, Judge, Exhausted, card
<1>1. TypeOK' BY DEF TypeOK
<1>2. Progress' BY DEF Progress, ModeNeverWraps
<1>3. Aftermath' BY DEF Aftermath, SuccessIsUp
<1> QED BY <1>1, <1>2, <1>3

\* The four ways of JudgeResult: done, failed, given up, one step down.
LEMMA JudgeStep == IInv /\ JudgeResult => IInv'
<1> SUFFICES ASSUME IInv, JudgeResult PROVE IInv'
  OBVIOUS
<1> USE SdAssumption DEF IInv
<1>1. /\ pc = "judge" /\ op \in {"init", "transfer"}
      /\ UNCHANGED <<done, event, inserted, op, tried, prev, calls, moves>>
  BY DEF JudgeResult, Progress
<1>2. mode \in 0 .. MaxMode /\ MaxMode \in 0 .. MaxMode /\ MaxMode # 0
  BY DEF TypeOK
<1>3. CASE res /\ pc' = (IF op = "init" THEN "idle" ELSE "attempt") /\ first' = FALSE
           /\ UNCHANGED <<mode, ready, res>>
  <2>1. mode # 0 /\ ready /\ done /\ event /\ tried BY <1>1, <1>3 DEF Progress
  <2>2. TypeOK' BY <1>1, <1>3 DEF TypeOK
  <2>3. Progress' BY <1>1, <1>3, <2>1 DEF Progress, ModeNeverWraps
  <2>4. Aftermath' BY <1>1, <1>3, <2>1 DEF Aftermath, SuccessIsUp
  <2> QED BY <2>2, <2>3, <2>4
<1>4. CASE ~res /\ pc' = "idle" /\ mode' \in {mode, MaxMode}
           /\ ready' \in {FALSE, ready} /\ UNCHANGED <<first, res>>
  <2>1. TypeOK' BY <1>1, <1>2, <1>4 DEF TypeOK
  <2>2. Progress' BY <1>1, <1>4 DEF Progress, ModeNeverWraps
  <2>3. Aftermath' BY <1>1, <1>4 DEF Aftermath, SuccessIsUp
  <2> QED BY <2>1, <2>2, <2>3
<1>5. CASE ~res /\ ~GiveUp /\ mode' = NextMode /\ pc' = "try"
           /\ ready' \in {FALSE, ready} /\ UNCHANGED <<first, res>>
  <2>1. mode' \in 0 .. MaxMode BY <1>2, <1>5 DEF GiveUp, NextMode
  <2>2. TypeOK' BY <1>1, <1>5, <2>1 DEF TypeOK
  <2>3. Progress' BY <1>1, <1>5 DEF Progress, ModeNeverWraps
  <2>4. Aftermath' BY <1>1, <1>5 DEF Aftermath, SuccessIsUp
  <2> QED BY <2>2, <2>3, <2>4
<1> QED BY <1>3, <1>4, <1>5 DEF JudgeResult, StorageEnd

LEMMA StepIInv == IInv /\ [Next]_vars => IInv'
<1> SUFFICES ASSUME IInv, [Next]_vars PROVE IInv'
  OBVIOUS
<1>1. CASE \E o \in Ops \ {"none"} : Call(o)
  BY <1>1, CallStep
<1>2. CASE Work
  BY <1>2, AttemptStep, TryStep, JudgeStep DEF Work
<1>3. CASE Move
  BY <1>3, MoveStep
<1>4. CASE UNCHANGED vars
  BY <1>4 DEF vars, card, IInv, TypeOK, Progress, Aftermath, ModeNeverWraps, SuccessIsUp
<1> QED BY <1>1, <1>2, <1>3, <1>4 DEF Next

LEMMA Invariance == Spec => []IInv
  BY InitIInv, StepIInv, PTL DEF Spec

-----------------------------------------------------------------------------
\* The driver's variables keep their types.
THEOREM TypeCorrect == Spec => []TypeOK
<1>1. IInv => TypeOK BY DEF IInv
<1> QED BY <1>1, Invariance, PTL

\* `sd_mode--` in sd_init_retry never finds SD_INIT_FAIL.
THEOREM ModeNeverWrapsHolds == Spec => []ModeNeverWraps
<1>1. IInv => ModeNeverWraps BY DEF IInv, Progress
<1> QED BY <1>1, Invariance, PTL

\* A successful sd_initialize leaves a card that is up at a speed of the ladder.
THEOREM SuccessIsUpHolds == Spec => []SuccessIsUp
<1>1. IInv => SuccessIsUp BY DEF IInv, Aftermath
<1> QED BY <1>1, Invariance, PTL

\* sd_end brings a used-up ladder back: the next sd_initialize tries the card.
THEOREM EndRevivesHolds == Spec => []EndRevives
<1>1. IInv => EndRevives BY DEF IInv, Aftermath, EndRevives
<1> QED BY <1>1, Invariance, PTL
=============================================================================
