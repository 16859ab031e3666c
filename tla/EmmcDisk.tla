------------------------------ MODULE EmmcDisk ------------------------------
(***************************************************************************)
(* Block access to the eMMC: the FatFs glue of sdloader (diskio.c), the    *)
(* initialisation ladder (emmc.c) and the transfer engine with its retries *)
(* and its re-initialisation (sdmmc.c).                                    *)
(*                                                                         *)
(* One call is in progress at a time: the program is single threaded and   *)
(* polls the controller.  The environment is the card: every command may   *)
(* fail, and a failed data command may have moved some of its sectors.     *)
(* Memory is a row of sector-sized cells; cell 0 is the first 512 bytes of *)
(* SDMMC_UPPER_BUFFER, where the card's ext_csd is read on every           *)
(* initialisation and where modchip.c keeps the images it transfers.       *)
(***************************************************************************)
EXTENDS DiskTypes

CONSTANTS
  MaxXfer,        \* sectors one data command moves at most (0xFFFF)
  MaxRetries,     \* attempts at a chunk before the card is reinitialised (5)
  ReinitRetries,  \* attempts at the first chunk after that (3)
  MaxMode,        \* EMMC_MMC_HS400, the fastest step of the ladder (4)
  MaxCalls        \* bound: calls the clients make

ASSUME EngineAssumption == /\ MaxXfer \in Nat \ {0}
                           /\ MaxRetries \in Nat \ {0}
                           /\ ReinitRetries \in Nat \ {0}
                           /\ MaxMode \in Nat \ {0}
                           /\ MaxCalls \in Nat

Mode == 0 .. MaxMode              \* 0 is EMMC_INIT_FAIL

VARIABLES
  mode,     \* emmc_mode
  inited,   \* emmc_storage.initialized
  swPart,   \* emmc_storage.partition: the partition the driver believes in
  hwPart,   \* the partition the card has selected
  media,    \* the sectors of the card
  cells,    \* the sectors of memory
  pc,       \* where the call in progress is
  req,      \* the call in progress
  pos,      \* sectors of it moved so far (sct_off - sector)
  retries,  \* attempts left
  first,    \* first_reinit
  calls,    \* bound: calls made so far
  last,     \* what the client was last told: request, result and history
  clean,    \* history: no fault touched the call in progress
  media0,   \* history: media when the call in progress began
  cells0    \* history: cells when the call in progress began

card == <<mode, inited, swPart, hwPart>>
call == <<pos, retries, first>>
data == <<media, cells>>
hist == <<last, media0, cells0>>
vars == <<card, data, pc, req, call, calls, clean, hist>>

Points == {"idle", "ensure", "check", "xfer", "reinit", "init", "setpart", "end"}

\* The state of the driver and of the call in progress.
ControlOK ==
  /\ mode \in Mode
  /\ inited \in BOOLEAN
  /\ swPart \in Part
  /\ hwPart \in Part
  /\ pc \in Points
  /\ req \in Request
  /\ pos \in 0 .. NumCells
  /\ retries \in 0 .. MaxRetries \cup 0 .. ReinitRetries
  /\ first \in BOOLEAN
  /\ calls \in 0 .. MaxCalls
  /\ last \in Result
  /\ clean \in BOOLEAN

\* The contents of the card and of memory.
DataOK ==
  /\ media \in [Part -> [Sector -> Data]]
  /\ cells \in [Cell -> Data]
  /\ media0 \in [Part -> [Sector -> Data]]
  /\ cells0 \in [Cell -> Data]

TypeOK == ControlOK /\ DataOK

\* emmc_storage starts zeroed, emmc_mode at its fastest, the card in its user
\* area; nothing has returned yet.
Init ==
  /\ mode = MaxMode
  /\ inited = FALSE
  /\ swPart = GPP
  /\ hwPart = GPP
  /\ media = InitMedia
  /\ cells \in Fill
  /\ pc = "idle"
  /\ req = NoCall
  /\ pos = 0
  /\ retries = 0
  /\ first = TRUE
  /\ calls = 0
  /\ last = Pending
  /\ clean = TRUE
  /\ media0 = media
  /\ cells0 = cells

-----------------------------------------------------------------------------
(* Calling and returning.                                                  *)

\* Where a call of each kind starts.
Entry(r) == IF IsTransfer(r) THEN "ensure" ELSE IF r.op = "end" THEN "end" ELSE "init"

\* emmc_initialize takes back an earlier failure of the whole ladder.
FromTop(m) == IF m = 0 THEN MaxMode ELSE m

\* A client calls.  A writer has filled its buffer.
Call(r) ==
  /\ pc = "idle"
  /\ calls < MaxCalls
  /\ calls' = calls + 1
  /\ req' = r
  /\ pc' = Entry(r)
  /\ IF r.op = "write" THEN cells' \in Fill ELSE UNCHANGED cells
  /\ mode' = IF r.op \in {"init", "dinit"} THEN FromTop(mode) ELSE mode
  /\ pos' = 0
  /\ retries' = MaxRetries
  /\ first' = TRUE
  /\ clean' = (swPart = hwPart)
  /\ cells0' = cells'
  /\ last' = Pending
  /\ UNCHANGED <<inited, swPart, hwPart, media, media0>>

\* The call returns ok: the client sees what it did, its locals are gone.
Return(ok, cl) ==
  /\ pc' = "idle"
  /\ last' = [req |-> req, ok |-> ok, clean |-> cl, done |-> TRUE]
  /\ media0' = media'
  /\ cells0' = cells'
  /\ req' = NoCall
  /\ pos' = 0 /\ retries' = 0 /\ first' = TRUE /\ clean' = TRUE

\* The call goes on at point p.
Continue(p) ==
  /\ pc' = p
  /\ UNCHANGED <<req, hist>>

-----------------------------------------------------------------------------
(* Partitions: ensure_partition, emmc_set_partition.                       *)

\* The switch command, then a status check, then the driver's own record.
\* A failure of the first may or may not have switched the card, a failure
\* of the second has.
SwitchPartition(p, ok) ==
  IF ok THEN swPart' = p /\ hwPart' = p
        ELSE swPart' = swPart /\ hwPart' \in {hwPart, p}

\* Seeded fault: only a partition other than the default is selected.
NeedsSwitch_DefaultOnly == swPart = GPP /\ swPart # PartOf(req.drv)

NeedsSwitch == swPart # PartOf(req.drv)

\* disk_read and disk_write ignore what ensure_partition returns.
EnsurePartition ==
  /\ pc = "ensure"
  /\ \/ ~NeedsSwitch /\ UNCHANGED <<swPart, hwPart, clean>>
     \/ /\ NeedsSwitch
        /\ \E ok \in BOOLEAN : /\ SwitchPartition(PartOf(req.drv), ok)
                              /\ clean' = (clean /\ ok)
  /\ Continue("check")
  /\ UNCHANGED <<mode, inited, data, call, calls>>

\* The second half of disk_initialize: the partition is set whether or not
\* the initialisation worked, and both must have.
SetPartition ==
  /\ pc = "setpart"
  /\ UNCHANGED <<mode, inited, data, calls>>
  /\ \E ok \in BOOLEAN : /\ SwitchPartition(PartOf(req.drv), ok)
                        /\ Return(inited /\ ok, clean /\ ok)

-----------------------------------------------------------------------------
(* Transfers: _sdmmc_storage_readwrite.                                    *)

\* disk_write serves BOOT0 only, and an uninitialised storage serves nobody.
\* A transfer of no sectors is done at once.
Refused == (req.op = "write" /\ req.drv # "BOOT0") \/ ~inited

CheckRequest ==
  /\ pc = "check"
  /\ UNCHANGED <<card, data, calls>>
  /\ \/ Refused /\ Return(FALSE, clean)
     \/ ~Refused /\ req.n = 0 /\ Return(TRUE, clean)
     \/ ~Refused /\ req.n # 0 /\ Continue("xfer") /\ UNCHANGED <<call, clean>>

\* The first k sectors from pos on are copied to or from the partition the
\* card has selected, whatever the driver believes.
MoveTo(k) ==
  [media EXCEPT ![hwPart] =
     [s \in Sector |->
        IF s - First(req) \in pos .. pos + k - 1
        THEN cells[req.off + s - First(req)] ELSE media[hwPart][s]]]

MoveFrom(k) ==
  [x \in Cell |->
     IF x - req.off \in pos .. pos + k - 1
     THEN media[hwPart][First(req) + x - req.off] ELSE cells[x]]

Move(k) ==
  \/ req.op = "write" /\ media' = MoveTo(k) /\ UNCHANGED cells
  \/ req.op = "read" /\ cells' = MoveFrom(k) /\ UNCHANGED media

Chunk == IF req.n - pos <= MaxXfer THEN req.n - pos ELSE MaxXfer

\* A data command succeeds; the next chunk starts with all its retries.
AttemptOk ==
  /\ pc = "xfer"
  /\ Move(Chunk)
  /\ UNCHANGED <<card, calls>>
  /\ \/ pos + Chunk = req.n /\ Return(TRUE, clean)
     \/ /\ pos + Chunk < req.n
        /\ pos' = pos + Chunk
        /\ retries' = MaxRetries
        /\ Continue("xfer")
        /\ UNCHANGED <<first, clean>>

\* A data command fails after k sectors; a read may leave a broken sector.
AttemptFail ==
  /\ pc = "xfer"
  /\ \E k \in 0 .. Chunk :
       \/ Move(k)
       \/ /\ req.op = "read" /\ k < Chunk
          /\ cells' = [MoveFrom(k) EXCEPT ![req.off + pos + k] = Junk]
          /\ UNCHANGED media
  /\ retries' = retries - 1
  /\ Continue(IF retries = 1 THEN "reinit" ELSE "xfer")
  /\ UNCHANGED <<card, pos, first, clean, calls>>

-----------------------------------------------------------------------------
(* Initialisation: emmc_initialize, emmc_init_retry, sdmmc_storage_end.    *)

\* Seeded fault: the loop of emmc_initialize forgets to step down.
LowerMode_Same == mode

LowerMode == mode - 1

\* Seeded fault: emmc_init_retry misses its EMMC_INIT_FAIL case.
Exhausted_Never == FALSE

Exhausted == mode = 0

\* Seeded fault: the storage keeps its partition when it is brought up.
FreshPartition_Kept == swPart

\* sdmmc_storage_init_mmc zeroes the storage, its partition with it.
FreshPartition == GPP

\* Seeded fault: the transfer goes on where it was.
RestartPos_Kept == pos

\* After a reinitialisation a transfer starts again.
RestartPos == 0

\* sdmmc_storage_end: CMD0 resets the card to its user area; when it cannot
\* be sent the storage stays as it is.
StorageEnd ==
  \/ inited' = FALSE /\ hwPart' = GPP
  \/ UNCHANGED <<inited, hwPart>>

\* All retries failed.  The first time the card is reinitialised from the
\* current step of the ladder, later from the step below.
Reinit ==
  /\ pc = "reinit"
  /\ mode' = IF first THEN FromTop(mode) ELSE LowerMode
  /\ StorageEnd
  /\ clean' = FALSE
  /\ Continue("init")
  /\ UNCHANGED <<swPart, data, call, calls>>

\* emmc_initialize walks down the ladder, a bare emmc_init_retry does not.
Laddered == ~IsTransfer(req) \/ first

\* sdmmc_storage_init_mmc brings the card up: the storage is zeroed first
\* (so its partition is GPP), the card is reset, its ext_csd read to cell 0.
\* A transfer then starts again from its first sector.
InitOk ==
  /\ pc = "init"
  /\ ~Exhausted
  /\ inited' = TRUE
  /\ swPart' = FreshPartition
  /\ hwPart' = GPP
  /\ cells' = [cells EXCEPT ![0] = Junk]
  /\ UNCHANGED <<mode, media, calls>>
  /\ \/ /\ IsTransfer(req)
        /\ pos' = RestartPos
        /\ retries' = ReinitRetries
        /\ first' = FALSE
        /\ Continue("xfer")
        /\ UNCHANGED clean
     \/ /\ req.op = "dinit"
        /\ clean' = TRUE
        /\ Continue("setpart")
        /\ UNCHANGED call
     \/ req.op = "init" /\ Return(TRUE, TRUE)

\* sdmmc_storage_init_mmc fails somewhere; emmc_initialize goes one step down.
InitFail ==
  /\ pc = "init"
  /\ ~Exhausted
  /\ inited' = FALSE
  /\ swPart' = FreshPartition
  /\ hwPart' \in {hwPart, GPP}
  /\ cells' \in {cells, [cells EXCEPT ![0] = Junk]}
  /\ UNCHANGED <<media, calls>>
  /\ \/ /\ Laddered
        /\ mode' = LowerMode
        /\ clean' = FALSE
        /\ Continue("init")
        /\ UNCHANGED call
     \/ ~Laddered /\ Return(FALSE, FALSE) /\ UNCHANGED mode

\* emmc_init_retry at EMMC_INIT_FAIL does nothing: the ladder is exhausted.
\* emmc_initialize ends the storage before it gives up.
InitExhausted ==
  /\ pc = "init"
  /\ Exhausted
  /\ IF Laddered THEN StorageEnd ELSE UNCHANGED <<inited, hwPart>>
  /\ UNCHANGED <<mode, swPart, data, calls>>
  /\ \/ /\ req.op = "dinit"
        /\ Continue("setpart")
        /\ UNCHANGED <<call, clean>>
     \/ req.op # "dinit" /\ Return(FALSE, FALSE)

\* emmc_end() called by a client.
EmmcEnd ==
  /\ pc = "end"
  /\ StorageEnd
  /\ UNCHANGED <<mode, swPart, data, calls>>
  /\ Return(TRUE, clean)

-----------------------------------------------------------------------------
Work ==
  \/ EnsurePartition \/ SetPartition \/ CheckRequest
  \/ AttemptOk \/ AttemptFail
  \/ Reinit \/ InitOk \/ InitFail \/ InitExhausted \/ EmmcEnd

Next == (\E r \in Request : Call(r)) \/ Work

Spec == Init /\ [][Next]_vars

\* The program keeps running while a call is in progress; nothing obliges a
\* client to call, nor the card to answer well.
FairSpec == Spec /\ WF_vars(Work)
-----------------------------------------------------------------------------
(* Properties.                                                             *)

\* While a transfer runs and nothing failed in it, the card has selected the
\* partition of the drive that was asked for (ensure_partition's purpose).
AddressedPartition ==
  pc = "xfer" /\ clean => swPart = hwPart /\ hwPart = PartOf(req.drv)

\* A transfer that goes on after a reinitialisation runs in the user area, and
\* the driver knows: sdmmc_storage_init_mmc zeroes the storage and resets the
\* card, so the next call selects its partition again.
ReinitKeepsTrack ==
  pc \in {"xfer", "reinit"} /\ ~first => swPart = GPP /\ hwPart = GPP

\* `emmc_mode--` on a u32 never wraps: below 1 the ladder is left first.
LadderNeverWraps ==
  pc \in {"xfer", "reinit"} /\ ~first => mode # 0

\* Every call returns, however often the card fails.
CallsReturn == (pc # "idle") ~> (pc = "idle")

\* disk_read, disk_write and the engine behind them implement the contract
\* their clients are modelled with.
Contract == INSTANCE DiskContract WITH media <- media0, cells <- cells0
ImplementsContract == Contract!Spec

\* diskio.c:144: "we only ever want to write to boot0".
OnlyBoot0Written ==
  [][\A p \in Part \ {BOOT0} : media'[p] = media[p]]_vars
=============================================================================
