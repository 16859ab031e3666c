--------------------------- MODULE EmmcDiskProofs ---------------------------
(* Safety of the block engine for every size of card, memory and ladder.   *)
EXTENDS EmmcDisk, TLAPS

\* What the locals of a call hold at each point of it.
Locals ==
  /\ pc \in {"ensure", "check", "xfer", "reinit"} => req \in Transfer
  /\ pc \in {"ensure", "check"} => retries > 0 /\ pos = 0
  /\ pc = "xfer" => retries > 0 /\ pos < req.n
  /\ pc \in {"reinit", "init"} /\ req \in Transfer => 0 < req.n
  /\ pc \in {"ensure", "check"} \/ req \notin Transfer => first
  /\ pc = "setpart" => req.op = "dinit"
  /\ pc = "init" => req.op # "end"
  /\ pc = "end" => req.op = "end"

\* The driver's record of the partition is right as long as nothing failed.
Tracking ==
  /\ pc \in {"ensure", "check"} /\ clean => swPart = hwPart
  /\ pc = "check" /\ clean => hwPart = PartOf(req.drv)
  /\ ~first => ~clean
  /\ pc = "init" /\ IsTransfer(req) => ~clean

\* The half of the inductive invariant that is not about types.
Flow ==
  /\ Locals
  /\ Tracking
  /\ AddressedPartition
  /\ ReinitKeepsTrack
  /\ LadderNeverWraps

\* The inductive invariant.
IInv == ControlOK /\ DataOK /\ Flow

LEMMA NoCallType == NoCall \in Request /\ Pending \in Result
  BY DEF NoCall, Request, Control, Pending, Result, Drive

LEMMA RequestType ==
  ASSUME NEW r \in Request
  PROVE  /\ r.op \in {"read", "write", "dinit", "init", "end"}
         /\ r.drv \in Drive
         /\ r.off \in Cell /\ r.n \in 0 .. NumCells
         /\ r.off + r.n <= NumCells
         /\ First(r) \in Nat
         /\ r.op \in {"read", "write"} <=> r \in Transfer
         /\ r \in Transfer => First(r) + r.n <= NumSec
         /\ PartOf(r.drv) \in Part
  BY SizeAssumption DEF Request, Transfer, Control, Drive, Cell, Sector, First,
     PartOf, Part, GPP, BOOT0, BOOT1

LEMMA InitIInv == Init => IInv
<1> SUFFICES ASSUME Init PROVE IInv
  OBVIOUS
<1>1. DataOK
  BY ContentAssumption DEF Init, DataOK
<1>2. ControlOK
  <2>1. mode \in Mode /\ pos \in 0 .. NumCells /\ calls \in 0 .. MaxCalls
    BY SizeAssumption, EngineAssumption DEF Init, Mode
  <2>2. retries \in 0 .. MaxRetries \cup 0 .. ReinitRetries
    BY EngineAssumption DEF Init
  <2>3. QED
    BY <2>1, <2>2, NoCallType DEF Init, ControlOK, Part, GPP, Points
<1>3. Locals /\ Tracking /\ AddressedPartition /\ ReinitKeepsTrack /\ LadderNeverWraps
  BY DEF Init, Locals, Tracking, AddressedPartition, ReinitKeepsTrack, LadderNeverWraps,
         NoCall
<1> QED
  BY <1>1, <1>2, <1>3 DEF IInv, Flow

-----------------------------------------------------------------------------
(* Facts about the steps' building blocks.                                 *)

\* A chunk is not empty and stays within the request.
LEMMA ChunkBound ==
  ASSUME ControlOK, Locals, pc = "xfer"
  PROVE  Chunk \in Nat /\ Chunk > 0 /\ pos + Chunk <= req.n
  BY RequestType, EngineAssumption DEF Chunk, ControlOK, Locals

\* Moving sectors keeps the card and the memory well formed.
LEMMA MoveType ==
  ASSUME DataOK, ControlOK, Locals, pc = "xfer", NEW k \in 0 .. Chunk
  PROVE  /\ MoveTo(k) \in [Part -> [Sector -> Data]]
         /\ MoveFrom(k) \in [Cell -> Data]
<1>1. /\ req.off \in Nat /\ req.n \in Nat /\ req.off + req.n <= NumCells
      /\ First(req) \in Nat /\ First(req) + req.n <= NumSec
  BY RequestType DEF ControlOK, Locals, Cell
<1>2. pos \in Nat /\ k \in Nat /\ pos + k <= req.n
  BY ChunkBound, <1>1 DEF ControlOK
<1>3. ASSUME NEW s \in Sector, s - First(req) \in pos .. pos + k - 1
      PROVE  req.off + s - First(req) \in Cell
  BY <1>1, <1>2, <1>3, SizeAssumption DEF Sector, Cell
<1>4. ASSUME NEW x \in Cell, x - req.off \in pos .. pos + k - 1
      PROVE  First(req) + x - req.off \in Sector
  BY <1>1, <1>2, <1>4, SizeAssumption DEF Sector, Cell
<1>5. hwPart \in Part
  BY DEF ControlOK
<1>6. MoveTo(k) \in [Part -> [Sector -> Data]]
  BY <1>3, <1>5 DEF MoveTo, DataOK
<1>7. MoveFrom(k) \in [Cell -> Data]
  BY <1>4, <1>5 DEF MoveFrom, DataOK
<1> QED
  BY <1>6, <1>7

\* A return leaves a well-formed idle state.
LEMMA ReturnType ==
  ASSUME ControlOK, NEW ok \in BOOLEAN, NEW cl \in BOOLEAN, Return(ok, cl)
  PROVE  /\ pc' = "idle" /\ req' \in Request /\ last' \in Result
         /\ pos' \in 0 .. NumCells /\ first' \in BOOLEAN /\ clean' \in BOOLEAN
         /\ retries' \in 0 .. MaxRetries \cup 0 .. ReinitRetries
<1>1. pos' \in 0 .. NumCells /\ retries' \in 0 .. MaxRetries \cup 0 .. ReinitRetries
  BY SizeAssumption, EngineAssumption DEF Return
<1>2. last' \in Result
  BY DEF Return, ControlOK, Result
<1> QED
  BY <1>1, <1>2, NoCallType DEF Return

\* With no call in progress there is nothing else to say.
LEMMA ReturnIdle ==
  ASSUME NEW ok, NEW cl, Return(ok, cl) PROVE Flow'
  BY DEF Return, Flow, Locals, Tracking, AddressedPartition, ReinitKeepsTrack,
         LadderNeverWraps

\* Switching selects one of the partitions.
LEMMA SwitchType ==
  ASSUME ControlOK, NEW p \in Part, NEW ok \in BOOLEAN, SwitchPartition(p, ok)
  PROVE  swPart' \in Part /\ hwPart' \in Part /\ (ok => swPart' = p /\ hwPart' = p)
  BY DEF ControlOK, SwitchPartition

LEMMA ModeStep ==
  ASSUME ControlOK
  PROVE  /\ FromTop(mode) \in Mode \ {0}
         /\ mode # 0 => mode - 1 \in Mode
  BY EngineAssumption DEF ControlOK, Mode, FromTop

-----------------------------------------------------------------------------
(* Every step preserves the inductive invariant.                           *)

LEMMA CallStep ==
  ASSUME IInv, NEW r \in Request, Call(r)
  PROVE  IInv'
<1> USE DEF IInv
<1>1. DataOK'
  BY ContentAssumption DEF Call, DataOK
<1>2. ControlOK'
  <2>1. mode' \in Mode
    BY ModeStep DEF Call, ControlOK
  <2>2. pos' \in 0 .. NumCells /\ retries' \in 0 .. MaxRetries \cup 0 .. ReinitRetries
        /\ calls' \in 0 .. MaxCalls
    BY SizeAssumption, EngineAssumption DEF Call, ControlOK
  <2>3. pc' \in Points /\ clean' \in BOOLEAN /\ first' \in BOOLEAN
    BY DEF Call, Entry, Points
  <2> QED
    BY <2>1, <2>2, <2>3, NoCallType DEF Call, ControlOK
<1>3. Flow'
  <2>1. /\ req' = r /\ first' = TRUE /\ clean' = (swPart = hwPart)
        /\ swPart' = swPart /\ hwPart' = hwPart /\ pc' = Entry(r)
        /\ retries' > 0 /\ pos' = 0
    BY RequestType, EngineAssumption DEF Call
  <2>2. r.op \in {"read", "write"} <=> r \in Transfer
    BY RequestType
  <2>3. r.op \in {"read", "write", "dinit", "init", "end"}
    BY RequestType
  <2> QED
    BY <2>1, <2>2, <2>3 DEF Flow, Entry, IsTransfer, Locals, Tracking, AddressedPartition,
       ReinitKeepsTrack, LadderNeverWraps
<1> QED
  BY <1>1, <1>2, <1>3

LEMMA EnsureStep ==
  ASSUME IInv, EnsurePartition
  PROVE  IInv'
<1> USE DEF IInv
<1>1. PartOf(req.drv) \in Part
  BY RequestType DEF ControlOK
<1>2. /\ swPart' \in Part /\ hwPart' \in Part /\ clean' \in BOOLEAN
      /\ clean' => swPart' = hwPart' /\ hwPart' = PartOf(req.drv)
  <2>1. CASE swPart = PartOf(req.drv) /\ UNCHANGED <<swPart, hwPart, clean>>
    BY <2>1 DEF EnsurePartition, NeedsSwitch, ControlOK, Flow, Tracking
  <2>2. CASE \E ok \in BOOLEAN : /\ SwitchPartition(PartOf(req.drv), ok)
                                 /\ clean' = (clean /\ ok)
    <3>1. PICK ok \in BOOLEAN : /\ SwitchPartition(PartOf(req.drv), ok)
                                /\ clean' = (clean /\ ok)
      BY <2>2
    <3> QED
      BY <1>1, <3>1, SwitchType DEF ControlOK
  <2> QED
    BY <2>1, <2>2 DEF EnsurePartition, NeedsSwitch
<1>3. DataOK'
  BY DEF EnsurePartition, Continue, DataOK, data, hist
<1>4. ControlOK'
  BY <1>2 DEF EnsurePartition, Continue, ControlOK, call, hist, Points
<1>5. Flow'
  BY <1>2 DEF EnsurePartition, Continue, call, Flow, Locals, Tracking, AddressedPartition,
     ReinitKeepsTrack, LadderNeverWraps
<1> QED
  BY <1>3, <1>4, <1>5

LEMMA SetPartitionStep ==
  ASSUME IInv, SetPartition
  PROVE  IInv'
<1> USE DEF IInv
<1>1. PICK ok \in BOOLEAN : /\ SwitchPartition(PartOf(req.drv), ok)
                            /\ Return(inited /\ ok, clean /\ ok)
  BY DEF SetPartition
<1>2. DataOK'
  BY <1>1 DEF SetPartition, Return, DataOK, data
<1>3. ControlOK'
  <2>1. swPart' \in Part /\ hwPart' \in Part
    BY <1>1, RequestType, SwitchType DEF ControlOK
  <2>2. (inited /\ ok) \in BOOLEAN /\ (clean /\ ok) \in BOOLEAN
    BY DEF ControlOK
  <2> QED
    BY <1>1, <2>1, <2>2, ReturnType DEF SetPartition, ControlOK, Points
<1>4. Flow'
  BY <1>1, ReturnIdle
<1> QED
  BY <1>2, <1>3, <1>4

LEMMA CheckStep ==
  ASSUME IInv, CheckRequest
  PROVE  IInv'
<1> USE DEF IInv
<1>1. CASE \E ok \in BOOLEAN : Return(ok, clean)
  <2>1. DataOK'
    BY <1>1 DEF CheckRequest, Return, DataOK, data
  <2>2. ControlOK'
    BY <1>1, ReturnType DEF CheckRequest, ControlOK, card, Points
  <2> QED
    BY <1>1, <2>1, <2>2, ReturnIdle
<1>2. CASE req.n # 0 /\ Continue("xfer") /\ UNCHANGED <<call, clean>>
  <2>1. DataOK'
    BY <1>2 DEF CheckRequest, Continue, DataOK, data, hist
  <2>2. ControlOK'
    BY <1>2 DEF CheckRequest, Continue, ControlOK, card, call, hist, Points
  <2>3. req.n \in Nat
    BY RequestType DEF ControlOK
  <2>4. pos < req.n
    BY <1>2, <2>3 DEF CheckRequest, Flow, Locals
  <2>5. Flow'
    BY <1>2, <2>4 DEF CheckRequest, Continue, card, call, Flow, Locals, Tracking,
       AddressedPartition, ReinitKeepsTrack, LadderNeverWraps
  <2> QED
    BY <2>1, <2>2, <2>5
<1> QED
  BY <1>1, <1>2 DEF CheckRequest

\* What an attempt does to the card and the memory.
LEMMA AttemptType ==
  ASSUME IInv, pc = "xfer", NEW k \in 0 .. Chunk, Move(k)
  PROVE  media' \in [Part -> [Sector -> Data]] /\ cells' \in [Cell -> Data]
  BY MoveType DEF IInv, Flow, Move, DataOK

LEMMA AttemptOkStep ==
  ASSUME IInv, AttemptOk
  PROVE  IInv'
<1>1. /\ pc = "xfer" /\ Move(Chunk) /\ UNCHANGED <<card, calls>>
      /\ Chunk \in Nat /\ Chunk > 0 /\ pos + Chunk <= req.n
  BY ChunkBound DEF AttemptOk, IInv, Flow
<1>2. media' \in [Part -> [Sector -> Data]] /\ cells' \in [Cell -> Data]
  <2>1. Chunk \in 0 .. Chunk
    BY <1>1
  <2> QED
    BY <1>1, <2>1, AttemptType
<1>3. CASE pos + Chunk = req.n /\ Return(TRUE, clean)
  <2>1. DataOK'
    BY <1>2, <1>3 DEF Return, DataOK
  <2>2. ControlOK'
    BY <1>1, <1>3, ReturnType DEF ControlOK, card, Points, IInv
  <2> QED
    BY <1>3, <2>1, <2>2, ReturnIdle DEF IInv
<1>4. CASE /\ pos + Chunk < req.n
           /\ pos' = pos + Chunk
           /\ retries' = MaxRetries
           /\ Continue("xfer")
           /\ UNCHANGED <<first, clean>>
  <2>1. DataOK'
    BY <1>2, <1>4 DEF Continue, hist, DataOK, IInv
  <2>2. pos' \in 0 .. NumCells /\ retries' \in 0 .. MaxRetries \cup 0 .. ReinitRetries
    BY <1>1, <1>4, RequestType, SizeAssumption, EngineAssumption DEF ControlOK, Cell, IInv
  <2>3. ControlOK'
    BY <1>1, <1>4, <2>2 DEF Continue, ControlOK, card, hist, Points, IInv
  <2>4. Flow'
    BY <1>1, <1>4, EngineAssumption DEF Continue, card, hist, IInv, Flow, Locals, Tracking,
       AddressedPartition, ReinitKeepsTrack, LadderNeverWraps
  <2> QED
    BY <2>1, <2>3, <2>4 DEF IInv
<1> QED
  BY <1>3, <1>4 DEF AttemptOk

LEMMA AttemptFailStep ==
  ASSUME IInv, AttemptFail
  PROVE  IInv'
<1>1. /\ pc = "xfer" /\ retries' = retries - 1
      /\ Continue(IF retries = 1 THEN "reinit" ELSE "xfer")
      /\ UNCHANGED <<card, pos, first, clean, calls>>
  BY DEF AttemptFail
<1>2. media' \in [Part -> [Sector -> Data]] /\ cells' \in [Cell -> Data]
  <2>1. PICK k \in 0 .. Chunk :
          \/ Move(k)
          \/ /\ req.op = "read" /\ k < Chunk
             /\ cells' = [MoveFrom(k) EXCEPT ![req.off + pos + k] = Junk]
             /\ UNCHANGED media
    BY DEF AttemptFail
  <2>2. CASE Move(k)
    BY <1>1, <2>2, AttemptType
  <2>3. CASE /\ cells' = [MoveFrom(k) EXCEPT ![req.off + pos + k] = Junk]
             /\ UNCHANGED media
    BY <1>1, <2>3, MoveType, DataAssumption DEF IInv, Flow, DataOK
  <2> QED
    BY <2>1, <2>2, <2>3
<1>3. DataOK'
  BY <1>1, <1>2 DEF Continue, hist, DataOK, IInv
<1>4. retries' \in 0 .. MaxRetries \cup 0 .. ReinitRetries
  BY <1>1, EngineAssumption DEF ControlOK, IInv, Flow, Locals
<1>5. ControlOK'
  BY <1>1, <1>4 DEF Continue, ControlOK, card, hist, Points, IInv
<1>6. Flow'
  <2>1. pc' = "xfer" => retries' > 0
    BY <1>1 DEF Continue, ControlOK, IInv, Flow, Locals
  <2>2. pos \in Nat /\ req.n \in Nat /\ pos < req.n
    BY <1>1, RequestType DEF ControlOK, IInv, Flow, Locals
  <2>3. 0 < req.n
    BY <2>2
  <2> QED
    BY <1>1, <2>1, <2>3 DEF Continue, card, hist, IInv, Flow, Locals, Tracking,
       AddressedPartition, ReinitKeepsTrack, LadderNeverWraps
<1> QED
  BY <1>3, <1>5, <1>6 DEF IInv

LEMMA EndType ==
  ASSUME ControlOK, StorageEnd
  PROVE  inited' \in BOOLEAN /\ hwPart' \in Part
  BY DEF ControlOK, StorageEnd, Part, GPP

LEMMA ReinitStep ==
  ASSUME IInv, Reinit
  PROVE  IInv'
<1> USE DEF IInv
<1>1. mode' \in Mode
  BY ModeStep DEF Reinit, LowerMode, Flow, LadderNeverWraps
<1>2. inited' \in BOOLEAN /\ hwPart' \in Part
  BY EndType DEF Reinit
<1>3. DataOK'
  BY DEF Reinit, Continue, DataOK, data, hist
<1>4. ControlOK'
  BY <1>1, <1>2 DEF Reinit, Continue, ControlOK, call, hist, Points
<1>5. Flow'
  BY RequestType DEF Reinit, Continue, call, ControlOK, Flow, Locals, Tracking,
     AddressedPartition, ReinitKeepsTrack, LadderNeverWraps
<1> QED
  BY <1>3, <1>4, <1>5

\* Memory stays well formed when an initialisation scribbles on it.
LEMMA ScribbleType ==
  ASSUME DataOK
  PROVE  [cells EXCEPT ![0] = Junk] \in [Cell -> Data]
  BY DataAssumption DEF DataOK

LEMMA InitOkStep ==
  ASSUME IInv, InitOk
  PROVE  IInv'
<1> USE DEF IInv
<1>1. /\ pc = "init" /\ mode # 0 /\ inited' = TRUE /\ swPart' = GPP /\ hwPart' = GPP
      /\ UNCHANGED <<mode, media, calls>>
      /\ cells' \in [Cell -> Data]
  BY ScribbleType DEF InitOk, Exhausted, FreshPartition
<1>2. inited' \in BOOLEAN /\ swPart' \in Part /\ hwPart' \in Part
  BY <1>1 DEF Part
<1>3. CASE /\ IsTransfer(req)
           /\ pos' = 0
           /\ retries' = ReinitRetries
           /\ first' = FALSE
           /\ Continue("xfer")
           /\ UNCHANGED clean
  <2>1. req \in Transfer /\ req.n \in Nat /\ req.n > 0
    BY <1>1, <1>3, RequestType DEF IsTransfer, ControlOK, Flow, Locals
  <2>2. DataOK'
    BY <1>1, <1>3 DEF Continue, DataOK, hist
  <2>3. pos' \in 0 .. NumCells /\ retries' \in 0 .. MaxRetries \cup 0 .. ReinitRetries
        /\ retries' > 0
    BY <1>3, SizeAssumption, EngineAssumption
  <2>4. ControlOK'
    BY <1>1, <1>2, <1>3, <2>3 DEF Continue, ControlOK, hist, Points
  <2>5. Flow'
    BY <1>1, <1>3, <2>1, <2>3 DEF Continue, Flow, Locals, Tracking,
       AddressedPartition, ReinitKeepsTrack, LadderNeverWraps
  <2> QED
    BY <2>2, <2>4, <2>5
<1>4. CASE /\ req.op = "dinit"
           /\ clean' = TRUE
           /\ Continue("setpart")
           /\ UNCHANGED call
  <2>1. DataOK'
    BY <1>1, <1>4 DEF Continue, DataOK, hist
  <2>2. ControlOK'
    BY <1>1, <1>2, <1>4 DEF Continue, ControlOK, call, hist, Points
  <2>3. req \notin Transfer
    BY <1>4, RequestType DEF ControlOK
  <2>4. Flow'
    BY <1>1, <1>4, <2>3 DEF Continue, call, Flow, Locals, Tracking,
       AddressedPartition, ReinitKeepsTrack, LadderNeverWraps, IsTransfer
  <2> QED
    BY <2>1, <2>2, <2>4
<1>5. CASE req.op = "init" /\ Return(TRUE, TRUE)
  <2>1. DataOK'
    BY <1>1, <1>5 DEF Return, DataOK
  <2>2. ControlOK'
    BY <1>1, <1>2, <1>5, ReturnType DEF ControlOK, Points
  <2> QED
    BY <1>5, <2>1, <2>2, ReturnIdle
<1> QED
  BY <1>3, <1>4, <1>5 DEF InitOk, RestartPos

LEMMA InitFailStep ==
  ASSUME IInv, InitFail
  PROVE  IInv'
<1> USE DEF IInv
<1>1. /\ pc = "init" /\ mode # 0 /\ inited' = FALSE /\ swPart' = GPP
      /\ UNCHANGED <<media, calls>>
      /\ cells' \in [Cell -> Data]
      /\ hwPart' \in {hwPart, GPP}
  BY ScribbleType DEF InitFail, Exhausted, FreshPartition, DataOK
<1>2. inited' \in BOOLEAN /\ swPart' \in Part /\ hwPart' \in Part
  BY <1>1 DEF Part, ControlOK
<1>3. CASE /\ Laddered
           /\ mode' = mode - 1
           /\ clean' = FALSE
           /\ Continue("init")
           /\ UNCHANGED call
  <2>1. DataOK'
    BY <1>1, <1>3 DEF Continue, DataOK, hist
  <2>2. ControlOK'
    BY <1>1, <1>2, <1>3, ModeStep DEF Continue, ControlOK, call, hist, Points
  <2>3. Flow'
    BY <1>1, <1>3 DEF Continue, call, Flow, Locals, Tracking,
       AddressedPartition, ReinitKeepsTrack, LadderNeverWraps, IsTransfer
  <2> QED
    BY <2>1, <2>2, <2>3
<1>4. CASE ~Laddered /\ Return(FALSE, FALSE) /\ UNCHANGED mode
  <2>1. DataOK'
    BY <1>1, <1>4 DEF Return, DataOK
  <2>2. ControlOK'
    BY <1>1, <1>2, <1>4, ReturnType DEF ControlOK, Points
  <2> QED
    BY <1>4, <2>1, <2>2, ReturnIdle
<1> QED
  BY <1>3, <1>4 DEF InitFail, LowerMode

LEMMA ExhaustedStep ==
  ASSUME IInv, InitExhausted
  PROVE  IInv'
<1> USE DEF IInv
<1>1. /\ pc = "init" /\ mode = 0 /\ UNCHANGED <<mode, swPart, data, calls>>
      /\ inited' \in BOOLEAN /\ hwPart' \in Part
  BY EndType DEF InitExhausted, Exhausted, ControlOK
<1>2. CASE /\ req.op = "dinit"
           /\ Continue("setpart")
           /\ UNCHANGED <<call, clean>>
  <2>1. DataOK'
    BY <1>1, <1>2 DEF Continue, DataOK, data, hist
  <2>2. ControlOK'
    BY <1>1, <1>2 DEF Continue, ControlOK, call, hist, Points
  <2>3. Flow'
    BY <1>1, <1>2 DEF Continue, call, Flow, Locals, Tracking,
       AddressedPartition, ReinitKeepsTrack, LadderNeverWraps, IsTransfer
  <2> QED
    BY <2>1, <2>2, <2>3
<1>3. CASE req.op # "dinit" /\ Return(FALSE, FALSE)
  <2>1. DataOK'
    BY <1>1, <1>3 DEF Return, DataOK, data
  <2>2. ControlOK'
    BY <1>1, <1>3, ReturnType DEF ControlOK, Points
  <2> QED
    BY <1>3, <2>1, <2>2, ReturnIdle
<1> QED
  BY <1>2, <1>3 DEF InitExhausted

LEMMA EmmcEndStep ==
  ASSUME IInv, EmmcEnd
  PROVE  IInv'
<1> USE DEF IInv
<1>1. DataOK'
  BY DEF EmmcEnd, Return, DataOK, data
<1>2. ControlOK'
  <2>1. inited' \in BOOLEAN /\ hwPart' \in Part
    BY EndType DEF EmmcEnd
  <2>2. clean \in BOOLEAN /\ Return(TRUE, clean)
    BY DEF EmmcEnd, ControlOK
  <2> QED
    BY <2>1, <2>2, ReturnType DEF EmmcEnd, ControlOK, Points
<1> QED
  BY <1>1, <1>2, ReturnIdle DEF EmmcEnd

LEMMA StepIInv == IInv /\ [Next]_vars => IInv'
<1> SUFFICES ASSUME IInv, [Next]_vars PROVE IInv'
  OBVIOUS
<1>1. CASE \E r \in Request : Call(r)
  BY <1>1, CallStep
<1>2. CASE Work
  BY <1>2, EnsureStep, SetPartitionStep, CheckStep, AttemptOkStep, AttemptFailStep,
     ReinitStep, InitOkStep, InitFailStep, ExhaustedStep, EmmcEndStep DEF Work
<1>3. CASE UNCHANGED vars
  <2>1. DataOK' /\ ControlOK'
    BY <1>3 DEF vars, card, data, call, hist, IInv, DataOK, ControlOK
  <2>2. Flow'
    BY <1>3 DEF vars, card, data, call, hist, IInv, Flow, Locals, Tracking,
       AddressedPartition, ReinitKeepsTrack, LadderNeverWraps
  <2> QED
    BY <2>1, <2>2 DEF IInv
<1> QED
  BY <1>1, <1>2, <1>3 DEF Next

-----------------------------------------------------------------------------
(* The theorems.                                                           *)

LEMMA Invariance == Spec => []IInv
  BY InitIInv, StepIInv, PTL DEF Spec

\* The state stays well formed: in particular emmc_mode, a u32 that
\* emmc_init_retry decrements, never leaves its ladder.
THEOREM TypeCorrect == Spec => []TypeOK
<1>1. IInv => TypeOK
  BY DEF IInv, TypeOK
<1> QED
  BY <1>1, Invariance, PTL

\* As long as no command failed since the call began, the card has selected
\* the partition of the drive that disk_read or disk_write was given.
THEOREM AddressedPartitionHolds == Spec => []AddressedPartition
<1>1. IInv => AddressedPartition
  BY DEF IInv, Flow
<1> QED
  BY <1>1, Invariance, PTL

\* Once a transfer has reinitialised the card it runs in the user area, and
\* the driver's record says so.
THEOREM ReinitKeepsTrackHolds == Spec => []ReinitKeepsTrack
<1>1. IInv => ReinitKeepsTrack
  BY DEF IInv, Flow
<1> QED
  BY <1>1, Invariance, PTL

\* _sdmmc_storage_readwrite never decrements emmc_mode below EMMC_INIT_FAIL.
THEOREM LadderNeverWrapsHolds == Spec => []LadderNeverWraps
<1>1. IInv => LadderNeverWraps
  BY DEF IInv, Flow
<1> QED
  BY <1>1, Invariance, PTL
-----------------------------------------------------------------------------
(* What a call has done so far to the card and to memory, in the words of  *)
(* the contract: this is what its return will have to account for.         *)

\* Whether cell x belongs to the buffer of the call in progress.
InBuffer(x) == x - req.off \in 0 .. req.n - 1

\* Before the first reinitialisation, k sectors are in the partition the card
\* has selected, for a k no smaller than pos.  After it the buffer may be
\* damaged, and the rest of the transfer goes to the user area.
WriteEffect ==
  req.op = "write" =>
    /\ pc \in {"ensure", "check"} => media = media0 /\ cells = cells0
    /\ pc \in {"xfer", "reinit", "init"} => req.drv = "BOOT0"
    /\ pc \in {"xfer", "reinit"} /\ first =>
         cells = cells0
         /\ \E k \in pos .. req.n :
              media = Contract!Put(media0, hwPart, cells0, req, k)
    /\ pc = "init" /\ first =>
         cells \in {cells0, Contract!Scribbled(cells0)}
         /\ \E p \in Part, k \in 0 .. req.n :
              media = Contract!Put(media0, p, cells0, req, k)
    /\ ~first =>
         cells = Contract!Scribbled(cells0)
         /\ \E p \in Part, k \in 0 .. req.n, l \in pos .. req.n :
              media = Contract!Put(Contract!Put(media0, p, cells0, req, k),
                                   GPP, cells, req, l)

\* What a read leaves of a cell outside its buffer.
Outside(x) ==
  /\ pc \in {"xfer", "reinit"} /\ first => cells[x] = cells0[x]
  /\ pc = "init" /\ first => cells[x] \in {cells0[x], Contract!Scribbled(cells0)[x]}
  /\ ~first => cells[x] = Contract!Scribbled(cells0)[x]

\* A read touches no sector; the cells of its buffer before pos are exact.
ReadEffect ==
  req.op = "read" =>
    /\ media = media0
    /\ pc \in {"ensure", "check"} => cells = cells0
    /\ \A x \in Cell :
         /\ cells[x] \in Contract!Left(req, x)
         /\ ~InBuffer(x) => Outside(x)
         /\ pc = "xfer" /\ x - req.off \in 0 .. pos - 1 =>
              cells[x] = media0[hwPart][First(req) + x - req.off]

\* Anything else touches cell 0 at most; between calls nothing is pending.
ControlEffect ==
  ~IsTransfer(req) => media = media0 /\ cells \in {cells0, Contract!Scribbled(cells0)}

Between ==
  /\ pc = "idle" => media = media0 /\ cells = cells0
  /\ pc # "idle" => ~last.done

Effect == WriteEffect /\ ReadEffect /\ ControlEffect /\ Between

\* The contract's vocabulary is the engine's: both come from DiskTypes.
LEMMA Vocabulary ==
  ASSUME NEW r, NEW d
  PROVE  /\ Contract!First(r) = First(r) /\ Contract!PartOf(d) = PartOf(d)
         /\ Contract!Part = Part /\ Contract!GPP = GPP
         /\ Contract!Cell = Cell /\ Contract!Sector = Sector
         /\ Contract!Pending = Pending /\ Contract!Control = Control
         /\ Contract!Request = Request
<1>1. /\ Contract!First(r) = First(r) /\ Contract!PartOf(d) = PartOf(d)
      /\ Contract!Part = Part /\ Contract!GPP = GPP
      /\ Contract!Cell = Cell /\ Contract!Sector = Sector
  BY DEF Contract!First, First, Contract!PartOf, PartOf, Contract!Part, Part,
     Contract!GPP, GPP, Contract!BOOT0, BOOT0, Contract!BOOT1, BOOT1,
     Contract!Cell, Cell, Contract!Sector, Sector
<1>2. Contract!Pending = Pending /\ Contract!Control = Control
  BY DEF Contract!Pending, Pending, Contract!NoCall, NoCall, Contract!Control, Control,
     Contract!Drive, Drive
<1>3. \A q : Contract!First(q) = First(q)
  BY DEF Contract!First, First
<1>4. Contract!Transfer = Transfer
  BY <1>1, <1>3 DEF Contract!Transfer, Transfer, Contract!Drive, Drive
<1> QED
  BY <1>1, <1>2, <1>4 DEF Contract!Request, Request

\* The contents of a card.
Media == [Part -> [Sector -> Data]]

LEMMA PutIs ==
  ASSUME NEW m, NEW p, NEW c, NEW r, NEW k
  PROVE  Contract!Put(m, p, c, r, k) =
           [m EXCEPT ![p] = [s \in Sector |->
              IF s - First(r) \in 0 .. k - 1 THEN c[r.off + s - First(r)] ELSE m[p][s]]]
  BY DEF Contract!Put, Contract!First, First, Contract!Sector, Sector

\* A window of a transfer written to a card gives a card.
LEMMA PutType ==
  ASSUME NEW m \in Media, NEW p \in Part, NEW c \in [Cell -> Data],
         NEW r \in Transfer, NEW k \in 0 .. r.n
  PROVE  Contract!Put(m, p, c, r, k) \in Media
<1>1. /\ r.off \in Nat /\ r.n \in Nat /\ r.off + r.n <= NumCells /\ First(r) \in Nat
  BY RequestType DEF Request, Cell
<1>2. ASSUME NEW s \in Sector, s - First(r) \in 0 .. k - 1
      PROVE  r.off + s - First(r) \in Cell
  BY <1>1, <1>2, SizeAssumption DEF Sector, Cell
<1>3. [s \in Sector |-> IF s - First(r) \in 0 .. k - 1
                         THEN c[r.off + s - First(r)] ELSE m[p][s]] \in [Sector -> Data]
  BY <1>2 DEF Media
<1> QED
  BY <1>3, PutIs DEF Media

\* Nothing written yet.
LEMMA PutZero ==
  ASSUME NEW m \in Media, NEW p \in Part, NEW c, NEW r, First(r) \in Nat
  PROVE  Contract!Put(m, p, c, r, 0) = m
<1>1. ASSUME NEW s \in Sector PROVE s - First(r) \notin 0 .. 0 - 1
  BY DEF Sector
<1>2. [s \in Sector |-> IF s - First(r) \in 0 .. 0 - 1
                         THEN c[r.off + s - First(r)] ELSE m[p][s]] = m[p]
  BY <1>1 DEF Media
<1> QED
  BY <1>2, PutIs DEF Media

\* Card q after j sectors from a on are written to partition p from memory c.
More(q, p, c, r, a, j) ==
  [q EXCEPT ![p] = [s \in Sector |-> IF s - First(r) \in a .. a + j - 1
                                      THEN c[r.off + s - First(r)] ELSE q[p][s]]]

\* Writing again from a place already reached only moves the end on.
LEMMA PutMore ==
  ASSUME NEW m \in Media, NEW p \in Part, NEW c, NEW r, First(r) \in Nat,
         NEW k \in Nat, NEW a \in 0 .. k, NEW j \in Nat,
         NEW q, q = Contract!Put(m, p, c, r, k),
         NEW e \in Nat, e = IF k >= a + j THEN k ELSE a + j
  PROVE  More(q, p, c, r, a, j) = Contract!Put(m, p, c, r, e)
<1> DEFINE F(n) == [s \in Sector |-> IF s - First(r) \in 0 .. n - 1
                                      THEN c[r.off + s - First(r)] ELSE m[p][s]]
<1>1. q = [m EXCEPT ![p] = F(k)] /\ Contract!Put(m, p, c, r, e) = [m EXCEPT ![p] = F(e)]
  BY PutIs
<1>2. q[p] = F(k)
  BY <1>1 DEF Media
<1>3. ASSUME NEW s \in Sector
      PROVE  (IF s - First(r) \in a .. a + j - 1
              THEN c[r.off + s - First(r)] ELSE q[p][s]) = F(e)[s]
  <2>1. PICK i \in Int : i = s - First(r)
    BY DEF Sector
  <2>2. i \in 0 .. e - 1 <=> i \in 0 .. k - 1 \/ i \in a .. a + j - 1
    BY <2>1
  <2>3. q[p][s] = IF i \in 0 .. k - 1 THEN c[r.off + s - First(r)] ELSE m[p][s]
    BY <1>2, <2>1
  <2> QED
    BY <2>1, <2>2, <2>3
<1>4. [s \in Sector |-> IF s - First(r) \in a .. a + j - 1
                         THEN c[r.off + s - First(r)] ELSE q[p][s]] = F(e)
  BY <1>3
<1> HIDE DEF F
<1>5. [q EXCEPT ![p] = F(e)] = [m EXCEPT ![p] = F(e)]
  BY <1>1 DEF Media
<1> QED
  BY <1>1, <1>4, <1>5 DEF More

LEMMA InitEffect == Init => Effect
  BY DEF Init, Effect, WriteEffect, ReadEffect, ControlEffect, Between, NoCall, IsTransfer

\* A return leaves nothing pending.
LEMMA ReturnEffect ==
  ASSUME NEW ok, NEW cl, Return(ok, cl) PROVE Effect'
  BY DEF Return, Effect, WriteEffect, ReadEffect, ControlEffect, Between, NoCall, IsTransfer

\* A return is the contract's Finish when it accounts for the call's effect.
LEMMA ReturnFinishes ==
  ASSUME ControlOK, Between, pc # "idle", NEW ok \in BOOLEAN, NEW cl \in BOOLEAN,
         Return(ok, cl),
         \/ req.op = "write" /\ ok /\ req.drv = "BOOT0" /\ Contract!WriteDone(req, cl)
         \/ req.op = "write" /\ ~ok /\ Contract!WriteFailed(req, cl)
         \/ req.op = "read" /\ ok /\ Contract!ReadDone(req, cl)
         \/ req.op = "read" /\ ~ok /\ Contract!ReadFailed(req, cl)
         \/ ~IsTransfer(req) /\ Contract!Controlled
  PROVE  Contract!Next
<1>1. ~last.done /\ last' = [req |-> req, ok |-> ok, clean |-> cl, done |-> TRUE]
  BY DEF Between, Return
<1>2. req \in Contract!Request /\ Contract!Control = Control
  BY Vocabulary DEF ControlOK
<1>3. ~IsTransfer(req) => req \in Control
  BY DEF IsTransfer, ControlOK, Request, Transfer
<1>4. Contract!Finish(req, ok, cl)
  BY <1>1, <1>2, <1>3 DEF Contract!Finish
<1> QED
  BY <1>2, <1>4 DEF Contract!Next

\* A step within a call changes nothing the contract sees.
LEMMA Inside ==
  ASSUME UNCHANGED hist PROVE UNCHANGED Contract!vars
  BY DEF hist, Contract!vars

\* What a step has to show: its effect is kept, and the contract allows it.
Refines == Effect' /\ [Contract!Next]_(Contract!vars)

LEMMA CallRefines ==
  ASSUME IInv, IInv', Effect, NEW r \in Request, Call(r)
  PROVE  Refines
<1>1. /\ media' = media0' /\ media0' = media0 /\ cells' = cells0' /\ first' = TRUE
      /\ pc' \in {"ensure", "end", "init"} /\ req' = r /\ last' = Pending
      /\ IsTransfer(r) => pc' = "ensure"
  BY DEF Call, Entry, Effect, Between
<1>2. \A x \in Cell : cells'[x] \in Contract!Left(req, x)'
  BY <1>1 DEF Contract!Left
<1>3. Effect'
  BY <1>1, <1>2 DEF Effect, WriteEffect, ReadEffect, ControlEffect, Between, IsTransfer,
     Outside, Pending
<1>4. Contract!Begin
  BY <1>1, Vocabulary DEF Contract!Begin, IInv, DataOK
<1> QED
  BY <1>3, <1>4 DEF Refines, Contract!Next

LEMMA EnsureRefines ==
  ASSUME IInv, Effect, EnsurePartition
  PROVE  Refines
<1>1. /\ pc = "ensure" /\ pc' = "check" /\ first' = first
      /\ UNCHANGED <<media, cells, media0, cells0, req, last>>
  BY DEF EnsurePartition, Continue, data, hist, call
<1>2. IsTransfer(req) /\ first
  BY <1>1, RequestType DEF IInv, Flow, Locals, ControlOK, IsTransfer
<1>3. \A x \in Cell : Contract!Left(req, x)' = Contract!Left(req, x)
  BY <1>1 DEF Contract!Left
<1>4. Effect'
  BY <1>1, <1>2, <1>3 DEF Effect, WriteEffect, ReadEffect, ControlEffect, Between,
     Outside, IsTransfer
<1> QED
  BY <1>1, <1>4, Inside DEF Refines, hist

LEMMA SetPartitionRefines ==
  ASSUME IInv, Effect, SetPartition
  PROVE  Refines
<1>1. PICK ok \in BOOLEAN : Return(inited /\ ok, clean /\ ok)
  BY DEF SetPartition
<1>2. req.op = "dinit"
  BY DEF SetPartition, IInv, Flow, Locals
<1>3. Contract!Controlled
  BY <1>1, <1>2 DEF SetPartition, data, Return, Effect, ControlEffect, IsTransfer,
     Contract!Controlled
<1>4. (inited /\ ok) \in BOOLEAN /\ (clean /\ ok) \in BOOLEAN /\ pc # "idle"
  BY DEF IInv, ControlOK, SetPartition
<1>5. Contract!Next
  <2>1. PICK o \in BOOLEAN, c \in BOOLEAN : o = (inited /\ ok) /\ c = (clean /\ ok)
    BY <1>4
  <2>2. Return(o, c)
    BY <1>1, <2>1
  <2> QED
    BY <1>2, <1>3, <1>4, <2>2, ReturnFinishes DEF IInv, Effect, IsTransfer
<1> QED
  BY <1>1, <1>5, ReturnEffect DEF Refines

LEMMA CheckRefines ==
  ASSUME IInv, Effect, CheckRequest
  PROVE  Refines
<1>1. /\ pc = "check" /\ IsTransfer(req) /\ first
      /\ UNCHANGED <<media, cells>> /\ media = media0 /\ cells = cells0
      /\ clean \in BOOLEAN /\ Between /\ ControlOK
  BY RequestType DEF CheckRequest, IInv, Flow, Locals, ControlOK, IsTransfer, data, Effect,
     WriteEffect, ReadEffect
<1>2. CASE Refused /\ Return(FALSE, clean)
  <2>1. UNCHANGED <<media0, cells0>>
    BY <1>1, <1>2 DEF Return
  <2>2. Contract!WriteFailed(req, clean) /\ Contract!ReadFailed(req, clean)
    BY <2>1 DEF Contract!WriteFailed, Contract!ReadFailed
  <2>3. Contract!Next
    BY <1>1, <1>2, <2>2, ReturnFinishes DEF IsTransfer
  <2> QED
    BY <1>2, <2>3, ReturnEffect DEF Refines
<1>3. CASE ~Refused /\ req.n = 0 /\ Return(TRUE, clean)
  <2>1. /\ UNCHANGED <<media0, cells0>> /\ media0 \in Media /\ First(req) \in Nat
        /\ PartOf(req.drv) \in Part
    BY <1>1, <1>3, RequestType DEF Return, IInv, DataOK, ControlOK, Media
  <2>2. Contract!Put(media0, PartOf(req.drv), cells0, req, req.n) = media0
    BY <1>3, <2>1, PutZero
  <2>3. Contract!Get(media0, PartOf(req.drv), cells0, req, req.n) = cells0
    <3>1. ASSUME NEW x \in Cell PROVE x - req.off \notin 0 .. req.n - 1
      <4>1. PICK i \in Int : i = x - req.off
        BY RequestType DEF Cell, ControlOK, IInv
      <4> QED
        BY <1>3, <4>1
    <3> QED
      BY <3>1, Vocabulary DEF Contract!Get, IInv, DataOK
  <2>4. Contract!WriteDone(req, clean) /\ Contract!ReadDone(req, clean)
    BY <2>1, <2>2, <2>3, Vocabulary DEF Contract!WriteDone, Contract!ReadDone
  <2>5. Contract!Next
    BY <1>1, <1>3, <2>4, ReturnFinishes DEF IsTransfer, Refused
  <2> QED
    BY <1>3, <2>5, ReturnEffect DEF Refines
<1>4. CASE ~Refused /\ req.n # 0 /\ Continue("xfer") /\ UNCHANGED <<call, clean>>
  <2>1. /\ pc' = "xfer" /\ pos = 0 /\ pos' = 0 /\ first' /\ hwPart' = hwPart
        /\ UNCHANGED <<media, cells, media0, cells0, req, last>>
        /\ media0 \in Media /\ First(req) \in Nat /\ hwPart \in Part /\ req.n \in Nat
    BY <1>1, <1>4, RequestType DEF CheckRequest, Continue, call, hist, card, IInv, Flow, Locals,
       DataOK, ControlOK, Media
  <2>2. WriteEffect'
    <3>1. media0 = Contract!Put(media0, hwPart, cells0, req, 0) /\ 0 \in 0 .. req.n
      BY <2>1, PutZero
    <3> QED
      BY <1>1, <1>4, <2>1, <3>1 DEF WriteEffect, Refused
  <2>3. ReadEffect'
    <3>1. \A x \in Cell : cells0[x] \in Contract!Left(req, x)
      BY DEF Contract!Left
    <3>2. \A x \in Cell : x - req.off \notin 0 .. pos - 1
      <4> TAKE x \in Cell
      <4>1. PICK i \in Int : i = x - req.off
        BY RequestType DEF Cell, ControlOK, IInv
      <4> QED
        BY <2>1, <4>1
    <3>3. \A x \in Cell : Contract!Left(req, x)' = Contract!Left(req, x)
      BY <2>1 DEF Contract!Left
    <3> QED
      BY <1>1, <2>1, <3>1, <3>2, <3>3 DEF ReadEffect, Outside
  <2>4. ControlEffect' /\ Between'
    BY <1>1, <2>1 DEF ControlEffect, Between
  <2> QED
    BY <2>1, <2>2, <2>3, <2>4, Inside DEF Refines, Effect, hist
<1> QED
  BY <1>2, <1>3, <1>4 DEF CheckRequest

-----------------------------------------------------------------------------
(* Transfers in the words of the contract.                                 *)

\* What an attempt that moves k sectors of a write adds to its effect.
LEMMA WriteMove ==
  ASSUME IInv, Effect, pc = "xfer", req.op = "write", NEW k \in 0 .. Chunk
  PROVE  /\ first =>
              cells = cells0
              /\ \E j \in pos + k .. req.n :
                   MoveTo(k) = Contract!Put(media0, hwPart, cells0, req, j)
         /\ ~first =>
              /\ cells = Contract!Scribbled(cells0) /\ hwPart = GPP
              /\ \E p \in Part, i \in 0 .. req.n, j \in pos + k .. req.n :
                   MoveTo(k) = Contract!Put(Contract!Put(media0, p, cells0, req, i),
                                            GPP, cells, req, j)
<1>1. /\ req \in Transfer /\ First(req) \in Nat /\ req.n \in Nat /\ pos \in Nat
      /\ k \in Nat /\ pos + k <= req.n /\ hwPart \in Part /\ media0 \in Media
      /\ cells \in [Cell -> Data] /\ cells0 \in [Cell -> Data]
  <2>1. pos \in Nat /\ k \in Nat /\ pos + k <= req.n
    BY ChunkBound, RequestType DEF IInv, Flow, Locals, ControlOK
  <2> QED
    BY <2>1, RequestType DEF IInv, Flow, Locals, ControlOK, DataOK, Media
<1>2. ASSUME NEW m \in Media, NEW c, c = cells, NEW j \in pos .. req.n,
             media = Contract!Put(m, hwPart, c, req, j)
      PROVE  \E e \in pos + k .. req.n : MoveTo(k) = Contract!Put(m, hwPart, c, req, e)
  <2>1. PICK e \in Nat : e = IF j >= pos + k THEN j ELSE pos + k
    BY <1>1
  <2>2. e \in pos + k .. req.n /\ j \in Nat /\ pos \in 0 .. j
    BY <1>1, <2>1
  <2>3. MoveTo(k) = More(media, hwPart, c, req, pos, k)
    BY <1>2 DEF MoveTo, More
  <2>4. More(media, hwPart, c, req, pos, k) = Contract!Put(m, hwPart, c, req, e)
    <3>1. /\ m \in Media /\ hwPart \in Part /\ First(req) \in Nat /\ j \in Nat
          /\ pos \in 0 .. j /\ k \in Nat /\ e \in Nat
          /\ media = Contract!Put(m, hwPart, c, req, j)
          /\ e = IF j >= pos + k THEN j ELSE pos + k
      BY <1>1, <1>2, <2>1, <2>2
    <3> QED
      BY <3>1, PutMore
  <2> QED
    BY <2>2, <2>3, <2>4
<1>3. CASE first
  <2>1. cells = cells0
        /\ \E j \in pos .. req.n : media = Contract!Put(media0, hwPart, cells0, req, j)
    BY <1>3 DEF Effect, WriteEffect
  <2> QED
    BY <1>1, <1>2, <1>3, <2>1
<1>4. CASE ~first
  <2>1. cells = Contract!Scribbled(cells0) /\ hwPart = GPP
    BY <1>4 DEF Effect, WriteEffect, IInv, Flow, ReinitKeepsTrack
  <2>2. PICK p \in Part, i \in 0 .. req.n, j \in pos .. req.n :
          media = Contract!Put(Contract!Put(media0, p, cells0, req, i), GPP, cells, req, j)
    BY <1>4 DEF Effect, WriteEffect
  <2>3. PICK m \in Media : m = Contract!Put(media0, p, cells0, req, i)
    BY <1>1, PutType
  <2>4. \E e \in pos + k .. req.n : MoveTo(k) = Contract!Put(m, GPP, cells, req, e)
    BY <1>2, <2>1, <2>2, <2>3
  <2> QED
    BY <1>4, <2>1, <2>3, <2>4
<1> QED
  BY <1>3, <1>4

\* What an attempt that moves k sectors of a read adds to its effect.
LEMMA ReadMove ==
  ASSUME IInv, Effect, pc = "xfer", req.op = "read", NEW k \in 0 .. Chunk, NEW x \in Cell
  PROVE  /\ MoveFrom(k)[x] \in Contract!Left(req, x)
         /\ ~InBuffer(x) => MoveFrom(k)[x] = cells[x]
         /\ x - req.off \in 0 .. pos + k - 1 =>
              MoveFrom(k)[x] = media0[hwPart][First(req) + x - req.off]
<1>1. /\ pos \in Nat /\ k \in Nat /\ req.n \in Nat /\ pos + k <= req.n /\ hwPart \in Part
      /\ req.off \in Nat
  BY ChunkBound, RequestType DEF IInv, Flow, Locals, ControlOK, Cell
<1>2. /\ media = media0 /\ cells[x] \in Contract!Left(req, x)
      /\ x - req.off \in 0 .. pos - 1 =>
           cells[x] = media0[hwPart][First(req) + x - req.off]
  BY DEF Effect, ReadEffect
<1>3. PICK i \in Int : i = x - req.off
  BY <1>1 DEF Cell
<1>4. MoveFrom(k)[x] = IF i \in pos .. pos + k - 1
                       THEN media0[hwPart][First(req) + x - req.off] ELSE cells[x]
  BY <1>2, <1>3 DEF MoveFrom
<1>5. CASE i \in pos .. pos + k - 1
  <2>1. InBuffer(x) /\ MoveFrom(k)[x] = media0[hwPart][First(req) + x - req.off]
    BY <1>1, <1>3, <1>4, <1>5 DEF InBuffer
  <2>2. MoveFrom(k)[x] \in Contract!Left(req, x)
    <3>1. x - req.off \in 0 .. req.n - 1
      BY <2>1 DEF InBuffer
    <3>2. Contract!First(req) = First(req) /\ Contract!Part = Part
      BY Vocabulary
    <3> QED
      BY <1>1, <2>1, <3>1, <3>2 DEF Contract!Left
  <2> QED
    BY <2>1, <2>2
<1>6. CASE i \notin pos .. pos + k - 1
  <2>1. i \in 0 .. pos + k - 1 => i \in 0 .. pos - 1
    BY <1>1, <1>3, <1>6
  <2> QED
    BY <1>2, <1>3, <1>4, <1>6, <2>1
<1> QED
  BY <1>5, <1>6

\* A read that moved all its sectors is the contract's Get.
LEMMA ReadWhole ==
  ASSUME IInv, Effect, pc = "xfer", req.op = "read", pos + Chunk = req.n
  PROVE  /\ first => MoveFrom(Chunk) = Contract!Get(media0, hwPart, cells0, req, req.n)
         /\ ~first => MoveFrom(Chunk) =
              Contract!Get(media0, GPP, Contract!Scribbled(cells0), req, req.n)
<1>1. Chunk \in 0 .. Chunk
  BY ChunkBound DEF IInv, Flow
<1>2. ASSUME NEW x \in Cell, NEW c \in {cells0, Contract!Scribbled(cells0)},
             IF first THEN c = cells0 ELSE c = Contract!Scribbled(cells0)
      PROVE  MoveFrom(Chunk)[x] = IF x - req.off \in 0 .. req.n - 1
                                  THEN media0[hwPart][First(req) + x - req.off] ELSE c[x]
  <2>1. /\ ~InBuffer(x) => MoveFrom(Chunk)[x] = cells[x]
        /\ InBuffer(x) => MoveFrom(Chunk)[x] = media0[hwPart][First(req) + x - req.off]
    <3>1. 0 .. pos + Chunk - 1 = 0 .. req.n - 1
      BY ChunkBound DEF IInv, Flow, ControlOK
    <3> QED
      BY <1>1, <3>1, ReadMove DEF InBuffer
  <2>2. ~InBuffer(x) => cells[x] = c[x]
    BY <1>2 DEF Effect, ReadEffect, Outside
  <2> QED
    BY <2>1, <2>2 DEF InBuffer
<1>3. ~first => hwPart = GPP
  BY DEF IInv, Flow, ReinitKeepsTrack
<1>4. ASSUME NEW p, NEW c
      PROVE  Contract!Get(media0, p, c, req, req.n) =
               [x \in Cell |-> IF x - req.off \in 0 .. req.n - 1
                               THEN media0[p][First(req) + x - req.off] ELSE c[x]]
  BY DEF Contract!Get, Contract!Cell, Cell, Contract!First, First
<1>5. MoveFrom(Chunk) = [x \in Cell |-> MoveFrom(Chunk)[x]]
  BY DEF MoveFrom
<1>6. CASE first
  <2>1. \A x \in Cell : MoveFrom(Chunk)[x] =
          IF x - req.off \in 0 .. req.n - 1
          THEN media0[hwPart][First(req) + x - req.off] ELSE cells0[x]
    BY <1>2, <1>6
  <2>2. MoveFrom(Chunk) = [x \in Cell |-> IF x - req.off \in 0 .. req.n - 1
                             THEN media0[hwPart][First(req) + x - req.off] ELSE cells0[x]]
    BY <1>5, <2>1
  <2> QED
    BY <1>4, <1>6, <2>2
<1>7. CASE ~first
  <2>1. PICK c : c = Contract!Scribbled(cells0)
    OBVIOUS
  <2>2. \A x \in Cell : MoveFrom(Chunk)[x] =
          IF x - req.off \in 0 .. req.n - 1
          THEN media0[hwPart][First(req) + x - req.off] ELSE c[x]
    BY <1>2, <1>7, <2>1
  <2>3. MoveFrom(Chunk) = [x \in Cell |-> IF x - req.off \in 0 .. req.n - 1
                             THEN media0[hwPart][First(req) + x - req.off] ELSE c[x]]
    BY <1>5, <2>2
  <2> QED
    BY <1>3, <1>4, <1>7, <2>1, <2>3
<1> QED
  BY <1>6, <1>7

\* The effect of a transfer that goes on after an attempt has moved k sectors:
\* pos moves by at most k.
LEMMA MoveEffect ==
  ASSUME IInv, Effect, pc = "xfer", pc' \in {"xfer", "reinit"}, NEW k \in 0 .. Chunk, Move(k),
         pos' \in pos .. pos + k, UNCHANGED <<hwPart, first, req, hist>>
  PROVE  Effect'
<1>1. /\ pos \in Nat /\ k \in Nat /\ req.n \in Nat /\ pos + k <= req.n
      /\ req.op \in {"read", "write"} /\ UNCHANGED <<media0, cells0, last>>
  BY ChunkBound, RequestType DEF IInv, Flow, Locals, ControlOK, hist
<1>2. ControlEffect' /\ Between'
  BY <1>1 DEF ControlEffect, Between, IsTransfer, Effect
<1>3. CASE req.op = "write" /\ media' = MoveTo(k) /\ UNCHANGED cells
  <2>1. \A j \in pos + k .. req.n : j \in (pos .. req.n)' /\ j \in 0 .. req.n
    BY <1>1
  <2>2. req.drv = "BOOT0"
    BY <1>3 DEF Effect, WriteEffect
  <2>3. CASE first
    <3>1. PICK j \in pos + k .. req.n :
            media' = Contract!Put(media0, hwPart, cells0, req, j)
      BY <1>3, <2>3, WriteMove
    <3>2. cells = cells0 /\ j \in (pos .. req.n)'
      BY <1>3, <2>1, <2>3, WriteMove
    <3> QED
      BY <1>1, <1>2, <1>3, <2>2, <2>3, <3>1, <3>2 DEF Effect, WriteEffect, ReadEffect
  <2>4. CASE ~first
    <3>1. PICK p \in Part, i \in 0 .. req.n, j \in pos + k .. req.n :
            media' = Contract!Put(Contract!Put(media0, p, cells0, req, i), GPP, cells, req, j)
      BY <1>3, <2>4, WriteMove
    <3>2. cells = Contract!Scribbled(cells0) /\ j \in (pos .. req.n)'
      BY <1>3, <2>1, <2>4, WriteMove
    <3>3. WriteEffect'
      BY <1>1, <1>3, <2>2, <2>4, <3>1, <3>2 DEF WriteEffect
    <3> QED
      BY <1>1, <1>2, <1>3, <3>3 DEF Effect, ReadEffect
  <2> QED
    BY <2>3, <2>4
<1>4. CASE req.op = "read" /\ cells' = MoveFrom(k) /\ UNCHANGED media
  <2>1. \A x \in Cell : x - req.off \in 0 .. pos' - 1 => x - req.off \in 0 .. pos + k - 1
    BY <1>1
  <2>2. \A x \in Cell : Contract!Left(req, x)' = Contract!Left(req, x)
    BY <1>1 DEF Contract!Left
  <2>3. media = media0 /\ \A x \in Cell : ~InBuffer(x) => Outside(x)
    BY <1>4 DEF Effect, ReadEffect
  <2>4. \A x \in Cell : Outside(x) /\ MoveFrom(k)[x] = cells[x] => Outside(x)'
    BY <1>1, <1>4 DEF Outside
  <2>5. ReadEffect'
    <3>1. ASSUME NEW x \in Cell
          PROVE  /\ cells'[x] \in Contract!Left(req, x)'
                 /\ ~InBuffer(x) => Outside(x)'
                 /\ x - req.off \in 0 .. pos' - 1 =>
                      cells'[x] = media0[hwPart][First(req) + x - req.off]
      BY <1>4, <2>1, <2>2, <2>3, <2>4, ReadMove
    <3> QED
      BY <1>1, <1>4, <2>3, <3>1 DEF ReadEffect, InBuffer
  <2> QED
    BY <1>1, <1>2, <1>4, <2>5 DEF Effect, WriteEffect
<1> QED
  BY <1>1, <1>3, <1>4 DEF Move

LEMMA AttemptOkRefines ==
  ASSUME IInv, Effect, AttemptOk
  PROVE  Refines
<1>1. /\ pc = "xfer" /\ Move(Chunk) /\ UNCHANGED hwPart /\ req \in Transfer
      /\ Chunk \in Nat /\ Chunk > 0 /\ pos + Chunk <= req.n /\ pos \in Nat /\ req.n \in Nat
      /\ Chunk \in 0 .. Chunk /\ clean \in BOOLEAN /\ Between /\ ControlOK
  BY ChunkBound, RequestType DEF AttemptOk, IInv, Flow, Locals, ControlOK, card, Effect
<1>2. CASE pos + Chunk = req.n /\ Return(TRUE, clean)
  <2>1. media0' = media' /\ cells0' = cells'
    BY <1>2 DEF Return
  <2>2. hwPart \in Part /\ PartOf(req.drv) \in Part /\ (~first => ~clean)
        /\ (clean => hwPart = PartOf(req.drv))
    BY <1>1, RequestType DEF IInv, Flow, Tracking, ControlOK, AddressedPartition
  <2>3. ASSUME req.op = "write", media' = MoveTo(Chunk), UNCHANGED cells
        PROVE  Contract!WriteDone(req, clean) /\ req.drv = "BOOT0"
    <3>1. req.drv = "BOOT0"
      BY <1>1, <2>3 DEF Effect, WriteEffect
    <3>2. CASE first
      <4>1. PICK j \in pos + Chunk .. req.n :
              media' = Contract!Put(media0, hwPart, cells0, req, j)
        BY <1>1, <2>3, <3>2, WriteMove
      <4>2. cells = cells0 /\ j = req.n
        BY <1>1, <1>2, <2>3, <3>2, <4>1, WriteMove
      <4> QED
        BY <2>1, <2>2, <2>3, <3>1, <4>1, <4>2, Vocabulary DEF Contract!WriteDone
    <3>3. CASE ~first
      <4>1. PICK p \in Part, i \in 0 .. req.n, j \in pos + Chunk .. req.n :
              media' = Contract!Put(Contract!Put(media0, p, cells0, req, i), GPP, cells, req, j)
        BY <1>1, <2>3, <3>3, WriteMove
      <4>2. cells = Contract!Scribbled(cells0) /\ j = req.n
        BY <1>1, <1>2, <2>3, <3>3, <4>1, WriteMove
      <4>3. media0' = Contract!Put(Contract!Put(media0, p, cells0, req, i),
                                   Contract!GPP, cells0', req, req.n)
        BY <2>1, <2>3, <4>1, <4>2, Vocabulary
      <4>4. cells0' = Contract!Scribbled(cells0) /\ ~clean /\ p \in Contract!Part
        BY <2>1, <2>2, <2>3, <3>3, <4>2, Vocabulary
      <4> QED
        BY <3>1, <4>3, <4>4 DEF Contract!WriteDone
    <3> QED
      BY <3>2, <3>3
  <2>4. ASSUME req.op = "read", cells' = MoveFrom(Chunk), UNCHANGED media
        PROVE  Contract!ReadDone(req, clean)
    <3>1. media0' = media0
      BY <2>1, <2>4 DEF Effect, ReadEffect
    <3>2. CASE first
      <4>1. cells0' = Contract!Get(media0, hwPart, cells0, req, req.n)
        BY <1>1, <1>2, <2>1, <2>4, <3>2, ReadWhole
      <4> QED
        BY <2>2, <3>1, <4>1, Vocabulary DEF Contract!ReadDone
    <3>3. CASE ~first
      <4>1. cells0' = Contract!Get(media0, GPP, Contract!Scribbled(cells0), req, req.n)
        BY <1>1, <1>2, <2>1, <2>4, <3>3, ReadWhole
      <4> QED
        BY <2>2, <3>1, <3>3, <4>1, Vocabulary DEF Contract!ReadDone
    <3> QED
      BY <3>2, <3>3
  <2>5. Contract!Next
    BY <1>1, <1>2, <2>3, <2>4, ReturnFinishes DEF Move
  <2> QED
    BY <1>2, <2>5, ReturnEffect DEF Refines
<1>3. CASE /\ pos + Chunk < req.n
           /\ pos' = pos + Chunk
           /\ Continue("xfer")
           /\ UNCHANGED first
  <2>1. pc' = "xfer" /\ pos' \in pos .. pos + Chunk /\ UNCHANGED <<hwPart, first, req, hist>>
    BY <1>1, <1>3 DEF Continue, hist
  <2> QED
    BY <1>1, <2>1, MoveEffect, Inside DEF Refines
<1> QED
  BY <1>2, <1>3 DEF AttemptOk

LEMMA AttemptFailRefines ==
  ASSUME IInv, Effect, AttemptFail
  PROVE  Refines
<1>1. /\ pc = "xfer" /\ pc' \in {"xfer", "reinit"} /\ pos' = pos /\ pos \in Nat
      /\ UNCHANGED <<hwPart, first, req, hist>> /\ req \in Transfer
  BY DEF AttemptFail, Continue, hist, card, IInv, Flow, Locals, ControlOK
<1>2. PICK k \in 0 .. Chunk :
        \/ Move(k)
        \/ /\ req.op = "read" /\ k < Chunk
           /\ cells' = [MoveFrom(k) EXCEPT ![req.off + pos + k] = Junk]
           /\ UNCHANGED media
  BY DEF AttemptFail
<1>3. CASE Move(k)
  <2>1. pos' \in pos .. pos + k
    BY <1>1, ChunkBound DEF IInv, Flow
  <2> QED
    BY <1>1, <1>3, <2>1, MoveEffect, Inside DEF Refines
<1>4. CASE /\ req.op = "read" /\ k < Chunk
           /\ cells' = [MoveFrom(k) EXCEPT ![req.off + pos + k] = Junk]
           /\ UNCHANGED media
  <2>1. /\ k \in Nat /\ Chunk \in Nat /\ pos + Chunk <= req.n /\ req.off \in Nat
        /\ req.n \in Nat /\ UNCHANGED <<media0, cells0, last>>
    BY <1>1, ChunkBound, RequestType DEF IInv, Flow, ControlOK, Cell, hist
  <2>2. \A x \in Cell : Contract!Left(req, x)' = Contract!Left(req, x)
    BY <1>1, <2>1 DEF Contract!Left
  <2>3. media = media0 /\ \A x \in Cell : ~InBuffer(x) => Outside(x)
    BY <1>4 DEF Effect, ReadEffect
  <2>4. ASSUME NEW x \in Cell
        PROVE  /\ cells'[x] \in Contract!Left(req, x)
               /\ ~InBuffer(x) => cells'[x] = cells[x]
               /\ x - req.off \in 0 .. pos - 1 =>
                    cells'[x] = media0[hwPart][First(req) + x - req.off]
    <3>1. /\ MoveFrom(k)[x] \in Contract!Left(req, x)
          /\ ~InBuffer(x) => MoveFrom(k)[x] = cells[x]
          /\ x - req.off \in 0 .. pos + k - 1 =>
               MoveFrom(k)[x] = media0[hwPart][First(req) + x - req.off]
      BY <1>1, <1>4, ReadMove
    <3>2. PICK i \in Int : i = x - req.off
      BY <2>1 DEF Cell
    <3>3. CASE i = pos + k
      <4>1. cells'[x] = Junk
        <5>1. req.off + pos + k = x
          BY <1>1, <2>1, <3>2, <3>3 DEF Cell
        <5>2. cells' = [MoveFrom(k) EXCEPT ![x] = Junk]
          BY <1>4, <5>1
        <5> QED
          BY <5>2 DEF MoveFrom
      <4>2. InBuffer(x) /\ x - req.off \notin 0 .. pos - 1
        BY <1>1, <1>4, <2>1, <3>2, <3>3 DEF InBuffer
      <4>3. Junk \in Contract!Left(req, x)
        <5>1. x - req.off \in 0 .. req.n - 1
          BY <4>2 DEF InBuffer
        <5> QED
          BY <5>1 DEF Contract!Left
      <4> QED
        BY <4>1, <4>2, <4>3
    <3>4. CASE i # pos + k
      <4>1. cells'[x] = MoveFrom(k)[x]
        BY <1>1, <1>4, <2>1, <3>2, <3>4 DEF MoveFrom, Cell
      <4>2. x - req.off \in 0 .. pos - 1 => x - req.off \in 0 .. pos + k - 1
        BY <1>1, <2>1, <3>2
      <4> QED
        BY <3>1, <4>1, <4>2
    <3> QED
      BY <3>3, <3>4
  <2>5. \A x \in Cell : Outside(x) /\ cells'[x] = cells[x] => Outside(x)'
    BY <1>1, <2>1 DEF Outside
  <2>6. ReadEffect'
    BY <1>1, <1>4, <2>1, <2>2, <2>3, <2>4, <2>5 DEF ReadEffect, InBuffer
  <2>7. WriteEffect' /\ ControlEffect' /\ Between'
    BY <1>1, <1>4, <2>1 DEF WriteEffect, ControlEffect, Between, IsTransfer, Effect
  <2> QED
    BY <1>1, <2>6, <2>7, Inside DEF Refines, Effect
<1> QED
  BY <1>2, <1>3, <1>4

\* A damaged memory that is damaged again is the same.
LEMMA ScribbleAgain ==
  ASSUME NEW c \in [Cell -> Data]
  PROVE  /\ [c EXCEPT ![0] = Junk] = Contract!Scribbled(c)
         /\ Contract!Scribbled(Contract!Scribbled(c)) = Contract!Scribbled(c)
         /\ Contract!Scribbled(c) \in [Cell -> Data]
         /\ Contract!Scribbled(c)[0] = Junk
         /\ \A x \in Cell : x # 0 => Contract!Scribbled(c)[x] = c[x]
<1>1. 0 \in Cell /\ Junk \in Data
  BY SizeAssumption, DataAssumption DEF Cell
<1>2. /\ [c EXCEPT ![0] = Junk] = Contract!Scribbled(c)
      /\ Contract!Scribbled(c) \in [Cell -> Data]
      /\ Contract!Scribbled(c)[0] = Junk
      /\ \A x \in Cell : x # 0 => Contract!Scribbled(c)[x] = c[x]
  BY <1>1 DEF Contract!Scribbled
<1>3. [[c EXCEPT ![0] = Junk] EXCEPT ![0] = Junk] = [c EXCEPT ![0] = Junk]
  BY <1>1
<1> QED
  BY <1>2, <1>3 DEF Contract!Scribbled

\* Reinitialising within a transfer: memory may be damaged, nothing else moves.
LEMMA ScribbleEffect ==
  ASSUME IInv, Effect, pc \in {"xfer", "reinit", "init"}, IsTransfer(req),
         UNCHANGED <<media, req, hist>>,
         \/ /\ pc' = "init" /\ pos' = pos /\ first' = first
            /\ cells' \in {cells, Contract!Scribbled(cells)}
         \/ /\ pc = "init" /\ pc' = "xfer" /\ pos' = 0 /\ ~first'
            /\ cells' = Contract!Scribbled(cells)
  PROVE  Effect'
<1>1. /\ cells \in [Cell -> Data] /\ cells0 \in [Cell -> Data] /\ media0 \in Media
      /\ cells' \in {cells, Contract!Scribbled(cells)} /\ UNCHANGED <<media0, cells0, last>>
      /\ req \in Request /\ pos \in Nat /\ req.n \in Nat /\ req.off \in Nat /\ hwPart \in Part
      /\ first \in BOOLEAN
  BY RequestType DEF IInv, DataOK, ControlOK, Media, hist, Cell
<1>2. ControlEffect' /\ Between'
  BY <1>1 DEF ControlEffect, Between, IsTransfer, Effect
<1>3. /\ first => cells \in {cells0, Contract!Scribbled(cells0)} \/ req.op = "read"
      /\ ~first => cells = Contract!Scribbled(cells0) \/ req.op = "read"
  BY DEF Effect, WriteEffect, IsTransfer
<1>4. /\ Contract!Scribbled(Contract!Scribbled(cells0)) = Contract!Scribbled(cells0)
      /\ \A x \in Cell : x # 0 => Contract!Scribbled(cells0)[x] = cells0[x]
      /\ \A x \in Cell : x # 0 => Contract!Scribbled(cells)[x] = cells[x]
      /\ Contract!Scribbled(cells)[0] = Junk /\ Contract!Scribbled(cells0)[0] = Junk
  BY <1>1, ScribbleAgain
<1>5. CASE req.op = "write"
  <2>1. req.drv = "BOOT0"
    BY <1>5 DEF Effect, WriteEffect
  <2>2. CASE first
    <3>1. \E p \in Part, k \in 0 .. req.n : media = Contract!Put(media0, p, cells0, req, k)
      <4>1. CASE pc = "init"
        BY <1>5, <2>2, <4>1 DEF Effect, WriteEffect
      <4>2. CASE pc # "init"
        <5>1. PICK k \in pos .. req.n : media = Contract!Put(media0, hwPart, cells0, req, k)
          BY <1>5, <2>2, <4>2 DEF Effect, WriteEffect
        <5>2. k \in 0 .. req.n
          BY <1>1, <5>1
        <5> QED
          BY <1>1, <5>1, <5>2
      <4> QED
        BY <4>1, <4>2
    <3>2. PICK p \in Part, k \in 0 .. req.n : media = Contract!Put(media0, p, cells0, req, k)
      BY <3>1
    <3>3. CASE pc' = "init"
      <4>1. cells' \in {cells0, Contract!Scribbled(cells0)} /\ first'
        BY <1>1, <1>3, <1>4, <1>5, <2>2, <3>3
      <4>2. WriteEffect'
        BY <1>1, <1>5, <2>1, <3>1, <3>3, <4>1 DEF WriteEffect
      <4> QED
        BY <1>1, <1>2, <1>5, <4>2 DEF Effect, ReadEffect
    <3>4. CASE pc' = "xfer"
      <4>1. cells' = Contract!Scribbled(cells0) /\ ~first' /\ pos' = 0
        BY <1>1, <1>3, <1>4, <1>5, <2>2, <3>4
      <4>2. media = Contract!Put(Contract!Put(media0, p, cells0, req, k), GPP, cells', req, 0)
        <5>1. /\ Contract!Put(media0, p, cells0, req, k) \in Media /\ GPP \in Part
              /\ First(req) \in Nat
          BY <1>1, <1>5, PutType, RequestType DEF Part
        <5> QED
          BY <3>2, <5>1, PutZero
      <4>3. 0 \in (pos .. req.n)'
        BY <1>1, <4>1
      <4>4. WriteEffect'
        BY <1>1, <1>5, <2>1, <3>4, <4>1, <4>2, <4>3 DEF WriteEffect
      <4> QED
        BY <1>1, <1>2, <1>5, <4>4 DEF Effect, ReadEffect
    <3> QED
      BY <3>3, <3>4
  <2>3. CASE ~first
    <3>1. cells = Contract!Scribbled(cells0)
      BY <1>3, <1>5, <2>3
    <3>2. PICK p \in Part, k \in 0 .. req.n, l \in pos .. req.n :
            media = Contract!Put(Contract!Put(media0, p, cells0, req, k), GPP, cells, req, l)
      BY <1>5, <2>3 DEF Effect, WriteEffect
    <3>3. cells' = cells /\ ~first' /\ l \in (pos .. req.n)'
      BY <1>1, <1>4, <2>3, <3>1
    <3>4. pc' \in {"init", "xfer"}
      OBVIOUS
    <3>5. WriteEffect'
      BY <1>1, <1>5, <2>1, <3>1, <3>2, <3>3, <3>4 DEF WriteEffect
    <3> QED
      BY <1>1, <1>2, <1>5, <3>5 DEF Effect, ReadEffect
  <2> QED
    BY <2>2, <2>3
<1>6. CASE req.op = "read"
  <2>1. \A x \in Cell : Contract!Left(req, x)' = Contract!Left(req, x)
    BY <1>1, <1>6 DEF Contract!Left
  <2>2. ASSUME NEW x \in Cell
        PROVE  /\ cells'[x] \in Contract!Left(req, x)
               /\ ~InBuffer(x) => Outside(x)'
               /\ pc' = "xfer" => x - req.off \notin 0 .. pos' - 1
    <3>1. /\ cells[x] \in Contract!Left(req, x) /\ (~InBuffer(x) => Outside(x))
          /\ x = 0 => Junk \in Contract!Left(req, x)
      BY <1>6 DEF Effect, ReadEffect, Contract!Left
    <3>2. cells'[x] \in Contract!Left(req, x)
      BY <1>1, <1>4, <3>1
    <3>3. ~InBuffer(x) => Outside(x)'
      BY <1>1, <1>4, <3>1 DEF Outside
    <3>4. pc' = "xfer" => x - req.off \notin 0 .. pos' - 1
      <4>1. PICK i \in Int : i = x - req.off
        BY <1>1 DEF Cell
      <4> QED
        BY <4>1
    <3> QED
      BY <3>2, <3>3, <3>4
  <2>3. ReadEffect'
    BY <1>1, <1>6, <2>1, <2>2 DEF ReadEffect, InBuffer, Effect
  <2> QED
    BY <1>1, <1>2, <1>6, <2>3 DEF Effect, WriteEffect
<1> QED
  BY <1>1, <1>5, <1>6 DEF IsTransfer

\* A transfer that gives up at this point has failed in the contract's sense.
LEMMA TransferFails ==
  ASSUME IInv, Effect, pc = "init", IsTransfer(req), Return(FALSE, FALSE), UNCHANGED media,
         cells' \in {cells, Contract!Scribbled(cells)}
  PROVE  Contract!Next
<1>1. /\ cells \in [Cell -> Data] /\ cells0 \in [Cell -> Data] /\ media0 \in Media
      /\ req \in Transfer /\ pos \in Nat /\ req.n \in Nat /\ First(req) \in Nat
      /\ ControlOK /\ Between /\ media0' = media' /\ cells0' = cells'
      /\ cells' \in [Cell -> Data]
  BY RequestType, ScribbleAgain DEF IInv, DataOK, ControlOK, Media, Effect, Return, IsTransfer
<1>2. /\ Contract!Scribbled(Contract!Scribbled(cells0)) = Contract!Scribbled(cells0)
      /\ Contract!Scribbled(cells)[0] = Junk
      /\ \A x \in Cell : x # 0 => Contract!Scribbled(cells)[x] = cells[x]
  BY <1>1, ScribbleAgain
<1>3. ASSUME req.op = "write" PROVE Contract!WriteFailed(req, FALSE)
  <2>1. cells0' \in {cells0, Contract!Scribbled(cells0)}
    BY <1>1, <1>2, <1>3 DEF Effect, WriteEffect
  <2>2. \E p \in Part, k \in 0 .. req.n, l \in 0 .. req.n :
          media = Contract!Put(Contract!Put(media0, p, cells0, req, k), GPP, cells', req, l)
    <3>1. CASE first
      <4>1. PICK p \in Part, k \in 0 .. req.n : media = Contract!Put(media0, p, cells0, req, k)
        BY <1>3, <3>1 DEF Effect, WriteEffect
      <4>2. Contract!Put(media0, p, cells0, req, k) \in Media /\ GPP \in Part
        BY <1>1, PutType DEF Part
      <4>3. media = Contract!Put(Contract!Put(media0, p, cells0, req, k), GPP, cells', req, 0)
        BY <1>1, <4>1, <4>2, PutZero
      <4>4. 0 \in 0 .. req.n
        BY <1>1
      <4> QED
        BY <4>1, <4>3, <4>4
    <3>2. CASE ~first
      <4>1. PICK p \in Part, k \in 0 .. req.n, l \in pos .. req.n :
              media = Contract!Put(Contract!Put(media0, p, cells0, req, k), GPP, cells, req, l)
        BY <1>3, <3>2 DEF Effect, WriteEffect
      <4>2. cells' = cells
        BY <1>2, <1>3, <3>2 DEF Effect, WriteEffect
      <4>3. l \in 0 .. req.n
        BY <1>1, <4>1
      <4> QED
        BY <4>1, <4>2, <4>3
    <3> QED
      BY <3>1, <3>2
  <2>3. PICK p \in Part, k \in 0 .. req.n, l \in 0 .. req.n :
          media0' = Contract!Put(Contract!Put(media0, p, cells0, req, k),
                                 Contract!GPP, cells0', req, l)
    BY <1>1, <2>2, Vocabulary
  <2>4. p \in Contract!Part
    BY <2>3, Vocabulary
  <2> QED
    BY <2>1, <2>3, <2>4 DEF Contract!WriteFailed
<1>4. ASSUME req.op = "read" PROVE Contract!ReadFailed(req, FALSE)
  <2>1. media0' = media0
    BY <1>1, <1>4 DEF Effect, ReadEffect
  <2>2. \A x \in Cell : cells'[x] \in Contract!Left(req, x)
    <3>1. ASSUME NEW x \in Cell
          PROVE  cells[x] \in Contract!Left(req, x) /\ (x = 0 => Junk \in Contract!Left(req, x))
      BY <1>4 DEF Effect, ReadEffect, Contract!Left
    <3> QED
      BY <1>2, <3>1
  <2>3. cells' \in [Cell -> UNION {Contract!Left(req, x) : x \in Cell}]
    BY <1>1, <2>2
  <2> QED
    BY <1>1, <2>1, <2>2, <2>3, Vocabulary DEF Contract!ReadFailed
<1> QED
  BY <1>1, <1>3, <1>4, ReturnFinishes DEF IsTransfer

LEMMA ReinitRefines ==
  ASSUME IInv, Effect, Reinit
  PROVE  Refines
<1>1. /\ pc = "reinit" /\ pc' = "init" /\ pos' = pos /\ first' = first /\ cells' = cells
      /\ UNCHANGED <<media, req, hist>>
  BY DEF Reinit, Continue, data, call
<1>2. IsTransfer(req)
  BY <1>1, RequestType DEF IInv, Flow, Locals, ControlOK, IsTransfer
<1> QED
  BY <1>1, <1>2, ScribbleEffect, Inside DEF Refines

\* Initialising for a client: memory may be damaged, nothing else changes.
LEMMA ControlKept ==
  ASSUME IInv, Effect, ~IsTransfer(req), UNCHANGED media,
         cells' \in {cells, Contract!Scribbled(cells)}
  PROVE  media' = media0 /\ cells' \in {cells0, Contract!Scribbled(cells0)}
  BY ScribbleAgain DEF IInv, DataOK, Effect, ControlEffect

LEMMA ControlGoesOn ==
  ASSUME IInv, Effect, ~IsTransfer(req), pc # "idle", pc' # "idle",
         UNCHANGED <<media, req, hist>>, cells' \in {cells, Contract!Scribbled(cells)}
  PROVE  Effect'
<1>1. media' = media0' /\ cells' \in {cells0', Contract!Scribbled(cells0)'}
  BY ControlKept DEF hist
<1> QED
  BY <1>1 DEF Effect, WriteEffect, ReadEffect, ControlEffect, Between, IsTransfer, hist

LEMMA ControlReturns ==
  ASSUME IInv, Effect, ~IsTransfer(req), pc # "idle", UNCHANGED media,
         cells' \in {cells, Contract!Scribbled(cells)},
         NEW ok \in BOOLEAN, NEW cl \in BOOLEAN, Return(ok, cl)
  PROVE  Contract!Next
<1>1. Contract!Controlled
  BY ControlKept DEF Contract!Controlled, Return
<1> QED
  BY <1>1, ReturnFinishes DEF IInv, Effect

LEMMA InitOkRefines ==
  ASSUME IInv, Effect, InitOk
  PROVE  Refines
<1>1. /\ pc = "init" /\ cells' = Contract!Scribbled(cells) /\ media' = media
  BY ScribbleAgain DEF InitOk, IInv, DataOK
<1>2. CASE /\ IsTransfer(req)
           /\ pos' = 0 /\ first' = FALSE
           /\ Continue("xfer")
  <2>1. pc' = "xfer" /\ UNCHANGED <<req, hist>>
    BY <1>2 DEF Continue
  <2> QED
    BY <1>1, <1>2, <2>1, ScribbleEffect, Inside DEF Refines
<1>3. CASE req.op = "dinit" /\ Continue("setpart")
  <2>1. pc' = "setpart" /\ UNCHANGED <<req, hist>> /\ ~IsTransfer(req)
    BY <1>3 DEF Continue, IsTransfer
  <2> QED
    BY <1>1, <2>1, ControlGoesOn, Inside DEF Refines
<1>4. CASE req.op = "init" /\ Return(TRUE, TRUE)
  <2>1. ~IsTransfer(req)
    BY <1>4 DEF IsTransfer
  <2>2. Contract!Next
    BY <1>1, <1>4, <2>1, ControlReturns
  <2> QED
    BY <1>4, <2>2, ReturnEffect DEF Refines
<1> QED
  BY <1>2, <1>3, <1>4 DEF InitOk, RestartPos

LEMMA InitFailRefines ==
  ASSUME IInv, Effect, InitFail
  PROVE  Refines
<1>1. /\ pc = "init" /\ cells' \in {cells, Contract!Scribbled(cells)} /\ media' = media
  BY ScribbleAgain DEF InitFail, IInv, DataOK
<1>2. CASE Continue("init") /\ UNCHANGED call
  <2>1. pc' = "init" /\ UNCHANGED <<req, hist>> /\ pos' = pos /\ first' = first
    BY <1>2 DEF Continue, call
  <2>2. CASE IsTransfer(req)
    BY <1>1, <2>1, <2>2, ScribbleEffect, Inside DEF Refines
  <2>3. CASE ~IsTransfer(req)
    BY <1>1, <2>1, <2>3, ControlGoesOn, Inside DEF Refines
  <2> QED
    BY <2>2, <2>3
<1>3. CASE ~Laddered /\ Return(FALSE, FALSE)
  <2>1. IsTransfer(req)
    BY <1>3 DEF Laddered
  <2>2. Contract!Next
    BY <1>1, <1>3, <2>1, TransferFails
  <2> QED
    BY <1>3, <2>2, ReturnEffect DEF Refines
<1> QED
  BY <1>2, <1>3 DEF InitFail

LEMMA ExhaustedRefines ==
  ASSUME IInv, Effect, InitExhausted
  PROVE  Refines
<1>1. pc = "init" /\ cells' = cells /\ media' = media
  BY DEF InitExhausted, data
<1>2. CASE req.op = "dinit" /\ Continue("setpart")
  <2>1. pc' = "setpart" /\ UNCHANGED <<req, hist>> /\ ~IsTransfer(req)
    BY <1>2 DEF Continue, IsTransfer
  <2> QED
    BY <1>1, <2>1, ControlGoesOn, Inside DEF Refines
<1>3. CASE Return(FALSE, FALSE)
  <2>1. Contract!Next
    BY <1>1, <1>3, TransferFails, ControlReturns
  <2> QED
    BY <1>3, <2>1, ReturnEffect DEF Refines
<1> QED
  BY <1>2, <1>3 DEF InitExhausted

LEMMA EmmcEndRefines ==
  ASSUME IInv, Effect, EmmcEnd
  PROVE  Refines
<1>1. /\ pc = "end" /\ cells' = cells /\ media' = media /\ Return(TRUE, clean)
      /\ clean \in BOOLEAN
  BY DEF EmmcEnd, data, IInv, ControlOK
<1>2. ~IsTransfer(req)
  BY <1>1 DEF IInv, Flow, Locals, IsTransfer
<1>3. Contract!Next
  BY <1>1, <1>2, ControlReturns
<1> QED
  BY <1>1, <1>3, ReturnEffect DEF Refines

-----------------------------------------------------------------------------
(* The engine implements the contract.                                     *)

LEMMA StepRefines == IInv /\ IInv' /\ Effect /\ [Next]_vars => Refines
<1> SUFFICES ASSUME IInv, IInv', Effect, [Next]_vars PROVE Refines
  OBVIOUS
<1>1. CASE \E r \in Request : Call(r)
  BY <1>1, CallRefines
<1>2. CASE Work
  BY <1>2, EnsureRefines, SetPartitionRefines, CheckRefines, AttemptOkRefines,
     AttemptFailRefines, ReinitRefines, InitOkRefines, InitFailRefines, ExhaustedRefines,
     EmmcEndRefines DEF Work
<1>3. CASE UNCHANGED vars
  <2>1. UNCHANGED <<media, cells, pc, req, pos, first, hwPart, hist>>
        /\ UNCHANGED <<media0, cells0, last>>
    BY <1>3 DEF vars, card, data, call, hist
  <2>2. \A x \in Cell : Contract!Left(req, x)' = Contract!Left(req, x) /\ Outside(x)' = Outside(x)
    BY <2>1 DEF Contract!Left, Outside
  <2>3. WriteEffect' /\ ControlEffect' /\ Between'
    BY <2>1 DEF Effect, WriteEffect, ControlEffect, Between, IsTransfer
  <2>4. ReadEffect'
    BY <2>1, <2>2 DEF Effect, ReadEffect, InBuffer
  <2> QED
    BY <2>1, <2>3, <2>4, Inside DEF Refines, Effect
<1> QED
  BY <1>1, <1>2, <1>3 DEF Next

\* disk_initialize, disk_read, disk_write and the engine behind them promise
\* their clients what DiskContract says, each call being one step of it: a
\* call that returns has moved its data exactly, or has reported a failure, or
\* went astray in one of the few ways a fault explains.
THEOREM ContractImplemented == Spec => ImplementsContract
<1>1. Init => Contract!Init
  BY Vocabulary DEF Init, Contract!Init
<1>2. IInv /\ IInv' /\ Effect /\ [Next]_vars => Effect' /\ [Contract!Next]_(Contract!vars)
  BY StepRefines DEF Refines
<1> QED
  BY <1>1, <1>2, InitEffect, Invariance, PTL DEF Spec, ImplementsContract, Contract!Spec
=============================================================================
