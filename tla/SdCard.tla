------------------------------- MODULE SdCard -------------------------------
(***************************************************************************)
(* The SD card: the ladder of speeds in sd.c, its use by the transfer      *)
(* engine when a transfer fails, and sd_end.  The user inserts and removes *)
(* the card at any moment.                                                 *)
(*                                                                         *)
(* A round of attempts at a data command (up to 5, or 3 after a            *)
(* reinitialisation; EmmcDisk has them one by one) is a single step here.  *)
(***************************************************************************)
EXTENDS Integers

CONSTANTS
  MaxMode,     \* SD_UHS_SDR104, SD_DEFAULT_SPEED (4)
  MaxCalls,    \* bound: calls the clients make
  MaxMoves     \* bound: insertions and removals

ASSUME SdAssumption == MaxMode \in Nat \ {0} /\ MaxCalls \in Nat /\ MaxMoves \in Nat

VARIABLES
  mode,      \* sd_mode, a u32; 0 is SD_INIT_FAIL
  ready,     \* sd_storage.initialized
  done,      \* sd_init_done
  event,     \* insertion_event
  inserted,  \* a card is in the slot
  pc,        \* where the call in progress is
  op,        \* the call: sd_initialize, sd_end, or a transfer
  first,     \* first_reinit of the transfer
  res,       \* what sd_init_retry, and in the end the call, returned
  tried,     \* history: a speed was tried in the call
  prev,      \* history: the call before it
  calls, moves   \* bounds

card == <<mode, ready, done, event>>
vars == <<card, inserted, pc, op, first, res, tried, prev, calls, moves>>

Ops == {"none", "init", "end", "transfer"}

TypeOK ==
  /\ mode \in 0 .. MaxMode
  /\ ready \in BOOLEAN /\ done \in BOOLEAN /\ event \in BOOLEAN
  /\ inserted \in BOOLEAN
  /\ pc \in {"idle", "attempt", "power", "try", "judge"}
  /\ op \in Ops /\ prev \in Ops
  /\ first \in BOOLEAN /\ res \in BOOLEAN /\ tried \in BOOLEAN
  /\ calls \in 0 .. MaxCalls /\ moves \in 0 .. MaxMoves

Init ==
  /\ mode = MaxMode
  /\ ready = FALSE /\ done = FALSE /\ event = FALSE
  /\ inserted \in BOOLEAN
  /\ pc = "idle" /\ op = "none" /\ prev = "none"
  /\ first = TRUE /\ res = FALSE /\ tried = FALSE
  /\ calls = 0 /\ moves = 0

\* The user.
Move ==
  /\ moves < MaxMoves
  /\ moves' = moves + 1
  /\ inserted' = ~inserted
  /\ UNCHANGED <<card, pc, op, first, res, tried, prev, calls>>

-----------------------------------------------------------------------------
\* sdmmc_storage_end: only if CMD0 can be sent.
StorageEnd == ready' \in {FALSE, ready}

\* A transfer on a storage that is not initialised is refused at once.
Entry(o) == CASE o = "transfer" -> IF ready THEN "attempt" ELSE "idle"
              [] o = "init" -> "try"
              [] o = "end" -> "idle"

\* Seeded fault: sd_end leaves a failed ladder as it is.
Reset_None == mode

\* sd_end resets a failed ladder.
Reset == IF mode = 0 THEN MaxMode ELSE mode

\* sd_end (_sd_deinit) as a whole, or the start of the other calls.
Call(o) ==
  /\ pc = "idle" /\ calls < MaxCalls
  /\ calls' = calls + 1
  /\ op' = o /\ prev' = op
  /\ pc' = Entry(o)
  /\ first' = TRUE /\ res' = FALSE /\ tried' = FALSE
  /\ \/ /\ o = "end"
        /\ mode' = Reset
        /\ event' = FALSE
        /\ IF done THEN StorageEnd /\ done' = FALSE ELSE UNCHANGED <<ready, done>>
     \/ o # "end" /\ UNCHANGED card
  /\ UNCHANGED <<inserted, moves>>

\* A round of attempts at the transfer: it succeeds, or the card is brought
\* down and up again, the first time from the speed it has, then a step lower.
Attempt ==
  /\ pc = "attempt"
  /\ \/ /\ inserted
        /\ pc' = "idle" /\ res' = TRUE
        /\ UNCHANGED <<ready, mode>>
     \/ /\ StorageEnd
        /\ pc' = "try" /\ res' = FALSE
        /\ mode' = IF first THEN mode ELSE mode - 1
  /\ UNCHANGED <<done, event, inserted, op, first, tried, prev, calls, moves>>

\* sd_initialize walks down the ladder, a bare sd_init_retry does not.
Laddered == op = "init" \/ first

\* Seeded fault: sd_init_retry misses its SD_INIT_FAIL case.
Exhausted_Never == FALSE

\* sd.c:105: nothing is tried and nothing is reset.
Exhausted == mode = 0

Judge(r) == pc' = "judge" /\ res' = r

\* The rest of sd_init_retry: sdmmc_storage_init_sd.
Try ==
  /\ pc = "try"
  /\ \/ Exhausted /\ Judge(FALSE) /\ UNCHANGED <<card, tried>>
     \/ /\ ~Exhausted /\ inserted
        /\ Judge(TRUE) /\ tried' = TRUE
        /\ ready' = TRUE /\ done' = TRUE /\ event' = TRUE
        /\ UNCHANGED mode
     \/ /\ ~Exhausted
        /\ Judge(FALSE) /\ tried' = TRUE
        /\ ready' = FALSE /\ done' = FALSE
        /\ UNCHANGED <<mode, event>>
  /\ UNCHANGED <<inserted, op, first, prev, calls, moves>>

\* Seeded fault: the loop of sd_initialize forgets to step down.
NextMode_Same == mode

\* The next round starts with `sd_mode--`.
NextMode == mode - 1

\* sd_initialize stops when there is no card or no speed left.
GiveUp == ~inserted \/ mode = 0

\* What the caller of sd_init_retry does with its result: a transfer starts
\* again or fails, sd_initialize goes one step down, or gives up.
JudgeResult ==
  /\ pc = "judge"
  /\ UNCHANGED <<done, event, inserted, op, tried, prev, calls, moves>>
  /\ \/ /\ res
        /\ pc' = IF op = "init" THEN "idle" ELSE "attempt"
        /\ first' = FALSE
        /\ UNCHANGED <<mode, ready, res>>
     \/ ~res /\ ~Laddered /\ pc' = "idle" /\ UNCHANGED <<mode, ready, first, res>>
     \/ /\ ~res /\ Laddered /\ GiveUp
        /\ mode' = IF inserted THEN mode ELSE MaxMode
        /\ StorageEnd
        /\ pc' = "idle"
        /\ UNCHANGED <<first, res>>
     \/ /\ ~res /\ Laddered /\ ~GiveUp
        /\ mode' = NextMode
        /\ StorageEnd
        /\ pc' = "try"
        /\ UNCHANGED <<first, res>>

-----------------------------------------------------------------------------
Work == Attempt \/ Try \/ JudgeResult

Next == (\E o \in Ops \ {"none"} : Call(o)) \/ Work \/ Move

Spec == Init /\ [][Next]_vars

\* The processor runs; neither the user nor the card owes anything.
FairSpec == Spec /\ WF_vars(Work)
-----------------------------------------------------------------------------
(* Properties.                                                             *)

\* The transfer engine steps down (`sd_mode--` on a u32) only from a speed:
\* every call of sd_init_retry(true) finds sd_mode above SD_INIT_FAIL, whatever
\* earlier calls, removals and failed resets left behind.
ModeNeverWraps == pc = "attempt" /\ ~first => mode # 0

\* A call that reports success leaves a card that is known to be there, at a
\* speed of the ladder.
SuccessIsUp ==
  pc = "idle" /\ op = "init" /\ res => ready /\ done /\ event /\ mode # 0

\* After sd_end the next sd_initialize really tries the card, even when the
\* calls before had used up the ladder.
EndRevives ==
  pc = "idle" /\ op = "init" /\ prev = "end" => tried

\* Every call returns, however the user plays with the card.
CallsReturn == (pc # "idle") ~> (pc = "idle")
=============================================================================
