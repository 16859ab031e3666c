------------------------------ MODULE Modchip ------------------------------
(***************************************************************************)
(* What modchip.c does to BOOT0: commands to the modchip, its settings and *)
(* the update images, each operation a sequence of disk_read and           *)
(* disk_write calls with the memory it prepares in between.  The calls are *)
(* the steps of DiskContract, which EmmcDisk implements.                   *)
(*                                                                         *)
(* A sector is two halves: the command and the descriptor live in the low  *)
(* half of their sectors, the settings in the high half of the             *)
(* descriptor's (offset 0x100).  The modchip itself is external: at        *)
(* power-up it carries out the command it finds.                           *)
(***************************************************************************)
EXTENDS DiskTypes

CONSTANTS
  CmdSec,      \* MODCHIP_CMD_SECTOR
  FwStart,     \* MODCHIP_FW_START_SECTOR and MODCHIP_RP_BL_START_SECTOR
  IplStart,    \* MODCHIP_BL_START_SECTOR
  SecSize,     \* bytes of a sector (0x200)
  MaxOps,      \* bound: operations in a behaviour
  MaxFaults    \* bound: calls a fault of the card touches

CfgSec  == NumSec - 1              \* MODCHIP_CFG_SECTOR and MODCHIP_DESC_SECTOR
UpBytes == NumCells * SecSize      \* SDMMC_UP_BUF_SZ
FwMax   == (NumSec - FwStart) * SecSize       \* MODCHIP_FW_MAX_SIZE, RP_BL_MAX_SIZE
IplMax  == (NumSec - IplStart - 1) * SecSize  \* MODCHIP_BL_MAX_SIZE
AllOnes == NumSec * SecSize + 1    \* 0xffffffff

ASSUME LayoutAssumption == /\ SecSize \in Nat \ {0}
                           /\ CmdSec \in Nat /\ FwStart \in Nat /\ IplStart \in Nat
                           /\ CmdSec < FwStart
                           /\ FwStart < IplStart
                           /\ IplStart < CfgSec
                           /\ MaxOps \in Nat /\ MaxFaults \in Nat

Mk(kind, x, y) == [k |-> kind, a |-> x, b |-> y]

Settings    == {Mk("cfg", v, 0) : v \in 0 .. 1}
DefaultCfg  == Mk("cfg", 0, 0)
CfgValid(h) == h.k = "cfg"         \* modchip_is_cfg_valid: the two magics

\* Half a sector: settings, or nothing of interest, the rest of the boot data
\* there, a descriptor, a command with its operands, or a piece of an image.
Half == Settings \cup [k : {"none", "boot", "desc", "fwcmd", "blcmd", "rstcmd",
                            "fw", "bl", "ipl"},
                       a : 0 .. AllOnes, b : 0 .. AllOnes]

None   == Mk("none", 0, 0)
RstCmd == Mk("rstcmd", 0, 0)
Image(kind, i) == [lo |-> Mk(kind, i, 0), hi |-> Mk(kind, i, 1)]

\* At power-on the modchip has carried out and cleared any command.
ASSUME SectorAssumption  == Data = [lo : Half, hi : Half]
ASSUME PowerOnAssumption == InitMedia[BOOT0][CmdSec].lo = None

Updates == {"fw", "bl", "ipl"}
Op == [k : {"rst", "rollback", "getcfg", "desc"}, size : {0}, cfg : {DefaultCfg}]
      \cup [k : {"fw", "bl"}, size : 0 .. FwMax, cfg : {DefaultCfg}]
      \cup [k : {"ipl"}, size : 0 .. IplMax, cfg : {DefaultCfg}]
      \cup [k : {"setcfg"}, size : {0}, cfg : Settings]

VARIABLES
  media, cells, last,    \* the card, memory and the last call's outcome
  pc,          \* where the operation in progress is
  op,          \* the operation in progress, or the last one
  idx,         \* bytes of the image written so far
  cmd,         \* the modchip_cmd_t being issued
  recovering,  \* the reset after a failed image write is running
  got,         \* the settings modchip_get_cfg read
  res,         \* what the operation returned
  health,      \* history: the worst that happened to a disk call
  faults, ops  \* bounds

disk == <<media, cells, last>>
mvars == <<disk, pc, op, idx, cmd, recovering, got, res, health, faults, ops>>

Disk == INSTANCE DiskContract

Points == {"idle", "load", "image", "rst", "rst_read", "rst_zero", "rst_write",
           "cmd", "cmd_read", "cmd_patch", "cmd_write",
           "cfg_read", "cfg_patch", "cfg_write"}

TypeOK ==
  /\ media \in [Part -> [Sector -> Data]]
  /\ cells \in [Cell -> Data]
  /\ last \in Result
  /\ pc \in Points
  /\ op \in Op
  /\ idx \in 0 .. FwMax /\ (idx = 0 \/ idx < op.size)
  /\ cmd \in Half
  /\ recovering \in BOOLEAN
  /\ got \in Half
  /\ res \in {"none", "ok", "fail"}
  /\ health \in {"fine", "refused", "faulty"}
  /\ faults \in 0 .. MaxFaults
  /\ ops \in 0 .. MaxOps

Idle == [k |-> "desc", size |-> 0, cfg |-> DefaultCfg]

Init ==
  /\ media = InitMedia
  /\ cells \in Fill
  /\ last = Pending
  /\ pc = "idle"
  /\ op = Idle
  /\ idx = 0
  /\ cmd = None
  /\ recovering = FALSE
  /\ got = DefaultCfg
  /\ res = "none"
  /\ health = "fine"
  /\ faults = 0
  /\ ops = 0

-----------------------------------------------------------------------------
(* The steps operations are made of.                                       *)

Command == media[BOOT0][CmdSec].lo

\* The program fills its buffer before the next call.
Prepare(c) ==
  /\ cells' = c
  /\ last' = Pending
  /\ UNCHANGED media

\* The first byte's cell alone.
Prepare0(sector) == Prepare([cells EXCEPT ![0] = sector])

Worse(ok, clean) ==
  IF ~clean \/ health = "faulty" THEN "faulty"
  ELSE IF ~ok THEN "refused" ELSE health

\* disk_read or disk_write of n sectors of BOOT0 from SDMMC_UPPER_BUFFER.
DiskCall(kind, sec, n, ok) ==
  \E clean \in BOOLEAN :
    /\ clean \/ faults < MaxFaults
    /\ Disk!Finish([op |-> kind, drv |-> "BOOT0", sec |-> sec, off |-> 0, n |-> n],
                   ok, clean)
    /\ health' = Worse(ok, clean)
    /\ faults' = faults + (IF clean THEN 0 ELSE 1)

Return(ok) ==
  /\ pc' = "idle"
  /\ res' = IF ok THEN "ok" ELSE "fail"
  /\ idx' = 0

Goto(p) == pc' = p /\ UNCHANGED <<res, idx>>

Entry(o) == CASE o.k \in Updates -> "load"
              [] o.k = "rst" -> "rst"
              [] o.k = "rollback" -> "cmd"
              [] OTHER -> "cfg_read"

\* A caller starts an operation.  A rollback is an update with no sectors.
Start(o) ==
  /\ pc = "idle"
  /\ ops < MaxOps
  /\ ops' = ops + 1
  /\ op' = o
  /\ pc' = Entry(o)
  /\ cmd' = IF o.k = "rollback" THEN Mk("fwcmd", AllOnes, AllOnes) ELSE None
  /\ recovering' = FALSE
  /\ res' = "none"
  /\ Prepare(cells)
  /\ UNCHANGED <<idx, got, health, faults>>

-----------------------------------------------------------------------------
(* Images: modchip_write_fw_update(_from_file), _bl_update, _ipl_update.   *)

Sectors(bytes) == (bytes + SecSize - 1) \div SecSize

\* An image that does not fit in the buffer is moved in pieces (fw only).
Chunked == op.k = "fw" /\ op.size >= UpBytes
Piece   == IF op.size - idx < UpBytes THEN op.size - idx ELSE UpBytes
Area(kind) == IF kind = "ipl" THEN IplStart ELSE FwStart

Loaded(n) ==
  [x \in Cell |-> IF x < n THEN Image(op.k, idx \div SecSize + x) ELSE cells[x]]

\* The image is damaged: have the modchip reset itself.
Recover == recovering' = TRUE /\ Goto("rst")

\* f_read of the whole image or of a piece; a file on the eMMC can have the
\* card reinitialised under the pieces that are already in memory.
Load ==
  /\ pc = "load"
  /\ UNCHANGED <<op, cmd, got, ops>>
  /\ \/ /\ op.k # "fw" /\ op.size > UpBytes
        /\ Return(FALSE)
        /\ UNCHANGED <<disk, recovering, health, faults>>
     \/ /\ op.k = "fw" \/ op.size <= UpBytes
        /\ Goto("image")
        /\ UNCHANGED recovering
        /\ \/ Prepare(Loaded(Sectors(Piece))) /\ UNCHANGED <<health, faults>>
           \/ /\ faults < MaxFaults
              /\ Prepare([Loaded(Sectors(Piece)) EXCEPT ![0] = Junk])
              /\ health' = "faulty" /\ faults' = faults + 1
     \/ /\ op.k = "fw" \/ op.size <= UpBytes
        /\ \E n \in 0 .. Sectors(Piece) : Prepare(Loaded(n))
        /\ IF Chunked THEN Recover ELSE Return(FALSE) /\ UNCHANGED recovering
        /\ UNCHANGED <<health, faults>>

\* The sectors a command names.  A chunked update gets a different formula.
Count == IF Chunked THEN op.size + (SecSize - 1) \div SecSize ELSE Sectors(op.size)

UpdateCmd == Mk(IF op.k = "fw" THEN "fwcmd" ELSE "blcmd", FwStart, Count)

MorePieces == Chunked /\ idx + UpBytes < op.size

\* Seeded fault: the loop forgets to advance.
NextPiece_Same == idx

NextPiece == idx + UpBytes

\* disk_write of the piece, then the next piece or the command.
WriteImage ==
  /\ pc = "image"
  /\ UNCHANGED <<op, got, ops>>
  /\ \/ /\ DiskCall("write", Area(op.k) + idx \div SecSize, Sectors(Piece), TRUE)
        /\ UNCHANGED recovering
        /\ \/ /\ MorePieces
              /\ pc' = "load" /\ idx' = NextPiece
              /\ UNCHANGED <<res, cmd>>
           \/ ~MorePieces /\ op.k = "ipl" /\ Return(TRUE) /\ UNCHANGED cmd
           \/ ~MorePieces /\ op.k # "ipl" /\ Goto("cmd") /\ cmd' = UpdateCmd
     \/ /\ DiskCall("write", Area(op.k) + idx \div SecSize, Sectors(Piece), FALSE)
        /\ Recover
        /\ UNCHANGED cmd

-----------------------------------------------------------------------------
(* Commands: modchip_write_rst_cmd, modchip_write_cmd.                     *)

Step == UNCHANGED <<op, cmd, recovering, got, ops>>

RstBegin == pc = "rst" /\ Prepare(cells) /\ Goto("rst_read") /\ Step
            /\ UNCHANGED <<health, faults>>

\* The test is the wrong way round: RES_OK is 0.
RstRead ==
  /\ pc = "rst_read" /\ Step
  /\ \/ DiskCall("read", CmdSec, 1, TRUE) /\ Return(FALSE)
     \/ DiskCall("read", CmdSec, 1, FALSE) /\ Goto("rst_zero")

RstZero == pc = "rst_zero" /\ Prepare0([cells[0] EXCEPT !.lo = None])
           /\ Goto("rst_write") /\ Step /\ UNCHANGED <<health, faults>>

\* So is this one: the command follows a write that failed.
RstWrite ==
  /\ pc = "rst_write"
  /\ UNCHANGED <<op, recovering, got, ops>>
  /\ \/ DiskCall("write", CmdSec, 1, TRUE) /\ Return(FALSE) /\ UNCHANGED cmd
     \/ DiskCall("write", CmdSec, 1, FALSE) /\ Goto("cmd") /\ cmd' = RstCmd

CmdBegin == pc = "cmd" /\ Prepare(cells) /\ Goto("cmd_read") /\ Step
            /\ UNCHANGED <<health, faults>>

CmdRead ==
  /\ pc = "cmd_read" /\ Step
  /\ \/ DiskCall("read", CmdSec, 1, TRUE) /\ Goto("cmd_patch")
     \/ DiskCall("read", CmdSec, 1, FALSE) /\ Return(FALSE)

\* Seeded fault: the command is written over the whole sector.
Patched_Whole == [lo |-> cmd, hi |-> None]

\* The command goes over the first bytes of what the sector holds.
Patched == [cells[0] EXCEPT !.lo = cmd]

CmdPatch == pc = "cmd_patch" /\ Prepare0(Patched) /\ Goto("cmd_write") /\ Step
            /\ UNCHANGED <<health, faults>>

\* Seeded fault: what the reset returned is returned for the update.
Outcome_Reset(ok) == ok

\* After a failed image the update has failed, whatever becomes of the reset.
Outcome(ok) == ok /\ ~recovering

CmdWrite ==
  /\ pc = "cmd_write" /\ Step
  /\ \E ok \in BOOLEAN : DiskCall("write", CmdSec, 1, ok) /\ Return(Outcome(ok))

-----------------------------------------------------------------------------
(* Settings and descriptor: modchip_get_cfg, _set_cfg, _read_desc.         *)

CfgRead ==
  /\ pc = "cfg_read"
  /\ UNCHANGED <<op, cmd, recovering, ops>>
  /\ \/ /\ DiskCall("read", CfgSec, 1, TRUE)
        /\ IF op.k = "setcfg" THEN Goto("cfg_patch") ELSE Return(TRUE)
        /\ got' = IF op.k = "getcfg" THEN cells'[0].hi ELSE got
     \/ DiskCall("read", CfgSec, 1, FALSE) /\ Return(FALSE) /\ UNCHANGED got

CfgPatch == pc = "cfg_patch" /\ Prepare0([cells[0] EXCEPT !.hi = op.cfg])
            /\ Goto("cfg_write") /\ Step /\ UNCHANGED <<health, faults>>

CfgWrite ==
  /\ pc = "cfg_write" /\ Step
  /\ \E ok \in BOOLEAN : DiskCall("write", CfgSec, 1, ok) /\ Return(ok)

-----------------------------------------------------------------------------
(* Power.                                                                  *)

\* The modchip carries out a command: it takes the image, rewrites sdloader,
\* the descriptor and the settings, and clears the command.
Applied(m) ==
  IF m[BOOT0][CmdSec].lo.k \notin {"fwcmd", "blcmd", "rstcmd"} THEN m
  ELSE [m EXCEPT ![BOOT0][CmdSec].lo = None,
                 ![BOOT0][IplStart] = InitMedia[BOOT0][IplStart],
                 ![BOOT0][CfgSec] = InitMedia[BOOT0][CfgSec]]

\* The request a write in progress was making when the power went.
Torn(sec, n, k) ==
  Disk!Put(media, BOOT0, cells,
           [op |-> "write", drv |-> "BOOT0", sec |-> sec, off |-> 0, n |-> n], k)

AfterPower ==
  CASE pc = "image" -> {Torn(Area(op.k) + idx \div SecSize, Sectors(Piece), k) :
                          k \in 0 .. Sectors(Piece)}
    [] pc \in {"cmd_write", "rst_write"} -> {media, Torn(CmdSec, 1, 1)}
    [] pc = "cfg_write" -> {media, Torn(CfgSec, 1, 1)}
    [] OTHER -> {media}

\* Power goes, in the middle of anything, and comes back.
Reboot ==
  /\ \E m \in AfterPower : media' = Applied(m)
  /\ cells' \in Fill
  /\ last' = Pending
  /\ pc' = "idle" /\ op' = Idle /\ idx' = 0 /\ cmd' = None
  /\ recovering' = FALSE /\ got' = DefaultCfg /\ res' = "none"
  /\ UNCHANGED <<health, faults, ops>>

-----------------------------------------------------------------------------
Work ==
  \/ Load \/ WriteImage
  \/ RstBegin \/ RstRead \/ RstZero \/ RstWrite
  \/ CmdBegin \/ CmdRead \/ CmdPatch \/ CmdWrite
  \/ CfgRead \/ CfgPatch \/ CfgWrite

Next == (\E o \in Op : Start(o)) \/ Work \/ Reboot

Spec == Init /\ [][Next]_mvars

\* An operation in progress is carried on by the processor.
FairSpec == Spec /\ WF_mvars(Work)
-----------------------------------------------------------------------------
(* Properties.                                                             *)

\* Commands come and go, but the boot data that shares their sector stays as
\* it was at power-on as long as no disk call failed (read, patch, write).
BootDataKept ==
  health = "fine" => media[BOOT0][CmdSec].hi = InitMedia[BOOT0][CmdSec].hi

\* An operation that reports success has left its own command on the card:
\* no image failure, no reset in between is reported as an update sent.
ReportedSent ==
  pc = "idle" /\ res = "ok" /\ health # "faulty" =>
    /\ op.k = "rst" => Command = RstCmd
    /\ op.k = "rollback" => Command = Mk("fwcmd", AllOnes, AllOnes)
    /\ op.k \in {"fw", "bl"} => Command = UpdateCmd

\* Every operation comes to an end, the chunked update and its reset too.
OperationsEnd == (pc # "idle") ~> (pc = "idle")

\* modchip.c:123: "issue reset command so modchip rewrites sdloader atleast,
\* if this fails too, not much we can do": it is given up after a failure only.
ResetIssued ==
  [][pc' = "idle" /\ pc \in {"rst_read", "rst_write"} /\ last.done'
     => ~last.ok']_mvars

=============================================================================
