---------------------------- MODULE ToolboxProofs ---------------------------
(***************************************************************************)
(* Proofs about Toolbox, on top of the invariants of Modchip: for any size *)
(* of the card, the images and the session of the user.                    *)
(***************************************************************************)
EXTENDS Toolbox, ModchipProofs

\* Which operation a menu waits for, and what the menus know of the order.
Screening ==
  /\ screen \in {"off", "main", "top", "confirm", "settings"} => pc = "idle"
  /\ screen = "boot" => op.k = "getcfg"
  /\ screen = "info" => op.k = "desc"
  /\ screen = "saving" => op.k = "setcfg" /\ op.cfg = temp
  /\ screen \in {"confirm", "busy"} => armed.k \in Updates \cup {"rst", "rollback"}
  /\ screen = "confirm" => (used <=> locked)
  /\ screen = "busy" => op = armed /\ ~used /\ ~locked /\ (op.k \in Updates => file = op)

\* The menus that OrderLocks is about and those that return to them; an order is
\* on the card only when the operation that sent it is over.
Locking ==
  Sound /\ Command.k # "none" =>
    /\ screen \in {"main", "top", "info", "confirm", "settings", "saving", "busy"}
    /\ screen = "busy" => pc = "idle" /\ Ordered
    /\ screen # "busy" => pending
    /\ screen \notin {"busy", "main"} => locked

CardCfg == media[BOOT0][CfgSec].hi

\* A save that worked is on the card before it is in use.
Saving ==
  Sound =>
    /\ screen = "boot" /\ pc = "idle" /\ res = "ok" => got = CardCfg
    /\ IF screen = "saving" /\ pc = "idle" /\ res = "ok"
       THEN temp = CardCfg
       ELSE synced /\ CfgValid(CardCfg) => cfg = CardCfg

ToolboxInv == Screening /\ Locking /\ Saving /\ ImageUnderOrder

-----------------------------------------------------------------------------
(* The menus take the steps of Modchip, and initialise the card.           *)

LEMMA OpChoices ==
  /\ Idle \in Op
  /\ [k |-> "getcfg", size |-> 0, cfg |-> DefaultCfg] \in Op
  /\ \A c \in Settings : [k |-> "setcfg", size |-> 0, cfg |-> c] \in Op
  /\ \A k \in {"rst", "rollback"} : [k |-> k, size |-> 0, cfg |-> DefaultCfg] \in Op
BY DEF Op, Idle

\* The size the menu lets through is one the update accepts.
LEMMA ChoiceType ==
  ASSUME NEW k \in Updates, NEW n \in 0 .. FwMax, n <= Limit(k)
  PROVE  [k |-> k, size |-> n, cfg |-> DefaultCfg] \in Op
<1>1. CASE k \in {"fw", "bl"}
  BY <1>1 DEF Op
<1>2. CASE k = "ipl"
  <2>1. n \in 0 .. IplMax
    BY <1>2, Bytes DEF Limit
  <2> QED BY <1>2, <2>1 DEF Op
<1> QED BY <1>1, <1>2 DEF Updates

LEMMA ModchipSteps ==
  ASSUME ToolboxTypeOK, [ToolboxNext]_tvars PROVE [Next]_mvars \/ (InitCard /\ screen = "main")
<1>1. CASE BootRead \/ Confirm \/ Info \/ Save
  BY <1>1, OpChoices DEF BootRead, Confirm, Info, Save, Next, ToolboxTypeOK
<1>2. CASE Operate \/ PowerCycle
  BY <1>2 DEF Operate, PowerCycle, Next
<1>3. CASE BootCfg \/ Back \/ ChooseAny \/ Confirmed \/ InfoDone \/ OpenSettings \/ Edit \/ Saved
  BY <1>3 DEF BootCfg, Back, ChooseAny, Choose, Confirmed, InfoDone, OpenSettings, Edit, Saved
<1>4. CASE OpenToolbox
  BY <1>4 DEF OpenToolbox
<1>5. CASE UNCHANGED tvars
  BY <1>5 DEF tvars
<1> QED BY <1>1, <1>2, <1>3, <1>4, <1>5 DEF ToolboxNext

\* Between operations the buffer is of no interest.
LEMMA InitCardKeeps ==
  ASSUME TypeOK, Position, CommandInv, Written, InitCard, pc = "idle"
  PROVE  TypeOK' /\ Position' /\ CommandInv' /\ Written'
<1>1. UNCHANGED <<media, pc, op, idx, cmd, recovering, got, res, health, faults, ops>>
  BY DEF InitCard
<1>2. TypeOK'
  BY <1>1, ScribbledType, PendingType DEF TypeOK, InitCard
<1>3. Position'
  BY <1>1 DEF Position, Chunked
<1>4. UpdateCmd' = UpdateCmd
  BY <1>1 DEF UpdateCmd, Count, Chunked, Sectors, Mk
<1>5. CommandInv'
  BY <1>1, <1>4 DEF CommandInv, Linked, Staged, KnownCommand, Command, BootDataKept,
                    ReportedSent, RstPoints, CmdPoints, CfgPoints
<1>6. Written'
  BY <1>1 DEF Written, OnCard, Sectors, Image, Mk, Area, CmdPoints
<1> QED BY <1>2, <1>3, <1>5, <1>6

Base == ToolboxTypeOK /\ Position /\ CommandInv /\ Written /\ Screening

LEMMA BaseInit == ToolboxInit => Base
<1> SUFFICES ASSUME ToolboxInit PROVE Base
  OBVIOUS
<1>1. TypeOK /\ Position /\ CommandInv /\ Written
  BY InitType, CommandInit, WrittenInit DEF ToolboxInit
<1>2. pc = "idle" /\ screen = "off"
  BY DEF ToolboxInit, Session, Init
<1>3. Screening
  BY <1>2 DEF Screening
<1>4. DefaultCfg \in Settings
  BY DEF DefaultCfg, Settings
<1> QED BY <1>1, <1>3, <1>4, OpChoices DEF Base, ToolboxTypeOK, ToolboxInit, Session, Screens

\* A step of an operation belongs to the operation that was started.
LEMMA WorkFrame == ASSUME Work PROVE op' = op /\ pc # "idle"
BY DEF Work, Load, WriteImage, RstBegin, RstRead, RstZero, RstWrite, CmdBegin, CmdRead,
       CmdPatch, CmdWrite, CfgRead, CfgPatch, CfgWrite, Step

LEMMA ModchipStep ==
  ASSUME Base, [ToolboxNext]_tvars PROVE TypeOK' /\ Position' /\ CommandInv' /\ Written'
<1>1. CASE [Next]_mvars
  BY <1>1, StepType, StepCommand, StepWritten DEF Base, ToolboxTypeOK
<1>2. CASE InitCard /\ screen = "main"
  BY <1>2, InitCardKeeps DEF Base, ToolboxTypeOK, Screening
<1> QED BY <1>1, <1>2, ModchipSteps DEF Base

LEMMA MenuTypes ==
  ASSUME Base, [ToolboxNext]_tvars
  PROVE  /\ screen' \in Screens /\ armed' \in Op /\ file' \in Op
         /\ cfg' \in Settings /\ temp' \in Settings
<1>1. /\ screen \in Screens /\ armed \in Op /\ file \in Op /\ cfg \in Settings /\ temp \in Settings
      /\ got \in Half
  BY DEF Base, ToolboxTypeOK, TypeOK
<1>2. DefaultCfg \in Settings
  BY DEF DefaultCfg, Settings
<1>3. CASE BootRead \/ Confirm \/ Info \/ Save
  BY <1>1, <1>3 DEF BootRead, Confirm, Info, Save, Show, Screens
<1>4. CASE Operate \/ PowerCycle \/ UNCHANGED tvars
  BY <1>1, <1>2, <1>4, OpChoices DEF Operate, PowerCycle, menus, tvars, Screens
<1>5. CASE BootCfg
  BY <1>1, <1>2, <1>5, HalfFacts DEF BootCfg, Show, Screens
<1>6. CASE ChooseAny
  <2>1. armed' \in Op
    BY <1>6, OpChoices, ChoiceType DEF ChooseAny, Choose
  <2> QED BY <1>1, <1>6, <2>1 DEF ChooseAny, Choose, Show, Screens
<1>7. CASE Back \/ Confirmed \/ InfoDone \/ OpenSettings \/ Edit \/ Saved \/ OpenToolbox
  BY <1>1, <1>7 DEF Back, Confirmed, InfoDone, OpenSettings, Edit, Saved, OpenToolbox, Show,
                    Screens, Kept
<1> QED BY <1>3, <1>4, <1>5, <1>6, <1>7 DEF ToolboxNext

\* The flags of the menu entries stay flags.
LEMMA FlagTypes ==
  ASSUME Base, [ToolboxNext]_tvars
  PROVE  pending' \in BOOLEAN /\ locked' \in BOOLEAN /\ used' \in BOOLEAN /\ synced' \in BOOLEAN
<1>1. pending \in BOOLEAN /\ locked \in BOOLEAN /\ used \in BOOLEAN /\ synced \in BOOLEAN
  BY DEF Base, ToolboxTypeOK
<1>2. CASE BootRead \/ Confirm \/ Info \/ Save \/ Operate \/ PowerCycle \/ UNCHANGED tvars
  BY <1>1, <1>2 DEF BootRead, Confirm, Info, Save, Operate, PowerCycle, menus, tvars
<1>3. CASE BootCfg \/ ChooseAny \/ Back \/ InfoDone \/ OpenSettings \/ Edit \/ OpenToolbox
  BY <1>1, <1>3 DEF BootCfg, ChooseAny, Choose, Back, InfoDone, OpenSettings, Edit, OpenToolbox,
                    FreshLock
<1>4. CASE Confirmed \/ Saved
  BY <1>1, <1>4 DEF Confirmed, Saved
<1> QED BY <1>2, <1>3, <1>4 DEF ToolboxNext

LEMMA ScreeningStep == ASSUME Base, [ToolboxNext]_tvars PROVE Screening'
<1> USE DEF Base
<1>1. CASE BootRead \/ Info
  BY <1>1 DEF BootRead, Info, Show, Start, Idle, Screening, Entry
<1>2. CASE Save
  BY <1>2 DEF Save, Show, Start, Screening
<1>3. CASE Confirm
  BY <1>3 DEF Confirm, Show, Start, Screening
<1>4. CASE PowerCycle
  BY <1>4 DEF PowerCycle, Reboot, Screening
<1>5. CASE UNCHANGED tvars
  BY <1>5 DEF tvars, menus, mvars, disk, Screening
<1>6. CASE Operate
  BY <1>6, WorkFrame DEF Operate, menus, Screening
<1>7. CASE Confirmed
  BY <1>7 DEF Confirmed, Show, Screening, mvars
<1>8. CASE ChooseAny
  BY <1>8 DEF ChooseAny, Choose, Show, Screening, mvars, Updates
<1>9. CASE BootCfg \/ Back \/ InfoDone \/ OpenSettings \/ Edit \/ Saved
  BY <1>9 DEF BootCfg, Back, InfoDone, OpenSettings, Edit, Saved, Show, Screening, mvars
<1>10. CASE OpenToolbox
  BY <1>10 DEF OpenToolbox, InitCard, Show, Screening
<1> QED BY <1>1, <1>2, <1>3, <1>4, <1>5, <1>6, <1>7, <1>8, <1>9, <1>10 DEF ToolboxNext

LEMMA BaseStep == Base /\ [ToolboxNext]_tvars => Base'
BY ModchipStep, MenuTypes, FlagTypes, ScreeningStep DEF Base, ToolboxTypeOK

\* The menus and their data are well formed, and a menu waits for the operation
\* it has started.
THEOREM ToolboxTypesHold == ToolboxSpec => []Base
BY BaseInit, BaseStep, PTL DEF ToolboxSpec

-----------------------------------------------------------------------------
(* What a step of an operation changes, as long as the card has no fault.  *)

\* The menus that read or save settings wait for one sector only.
LEMMA SettingsPoints ==
  ASSUME Base, screen \in {"boot", "info", "saving"} PROVE pc \in CfgPoints \cup {"idle"}
<1>1. op.k \in {"getcfg", "desc", "setcfg"}
  BY DEF Base, Screening
<1>2. pc \notin {"load", "image"}
  BY <1>1 DEF Base, Position, Updates
<1>3. pc \notin RstPoints \cup CmdPoints
  BY <1>1 DEF Base, CommandInv, Linked, Updates
<1> QED BY <1>2, <1>3 DEF Base, ToolboxTypeOK, TypeOK, Points, RstPoints, CmdPoints, CfgPoints

LEMMA BusyPoints == ASSUME Base, screen = "busy" PROVE pc \notin CfgPoints
BY DEF Base, Screening, CommandInv, Linked, Updates

LEMMA SettingsWork ==
  ASSUME Base, Work, pc \in CfgPoints, health' # "faulty"
  PROVE  /\ health # "faulty"
         /\ \A s \in Sector \ {CfgSec} : media'[BOOT0][s] = media[BOOT0][s]
         /\ \/ CardCfg' = CardCfg /\ ~(op.k = "setcfg" /\ pc' = "idle" /\ res' = "ok")
              /\ (op.k = "getcfg" /\ pc' = "idle" /\ res' = "ok" => got' = CardCfg)
            \/ op.k = "setcfg" /\ pc' = "idle" /\ res' = "ok" /\ CardCfg' = op.cfg
<1>1. CfgRead \/ CfgPatch \/ CfgWrite
  BY DEF CfgPoints, Work, Load, WriteImage, RstBegin, RstRead, RstZero, RstWrite, CmdBegin,
         CmdRead, CmdPatch, CmdWrite
<1>2. CASE CfgRead
  <2>1. PICK ok \in BOOLEAN :
          /\ DiskCall("read", CfgSec, 1, ok)
          /\ ok => \/ op.k = "setcfg" /\ pc' = "cfg_patch"
                   \/ op.k # "setcfg" /\ (op.k = "getcfg" => got' = cells'[0].hi)
          /\ ~ok => res' = "fail"
    BY <1>2 DEF CfgRead, Goto, Return
  <2>2. health # "faulty" /\ UNCHANGED media /\ (ok => cells'[0] = media[BOOT0][CfgSec])
    BY <2>1, SectorRead DEF Base, ToolboxTypeOK
  <2> QED BY <2>1, <2>2 DEF CardCfg
<1>3. CASE CfgPatch
  BY <1>3 DEF CfgPatch, Prepare0, Prepare, Goto, CardCfg
<1>4. CASE CfgWrite
  <2>1. PICK ok \in BOOLEAN :
          DiskCall("write", CfgSec, 1, ok) /\ pc' = "idle" /\ res' = (IF ok THEN "ok" ELSE "fail")
    BY <1>4 DEF CfgWrite, Return
  <2>2. /\ health # "faulty"
        /\ ok => media'[BOOT0][CfgSec] = cells[0]
        /\ ~ok => UNCHANGED media
        /\ \A s \in Sector \ {CfgSec} : media'[BOOT0][s] = media[BOOT0][s]
    BY <2>1, SectorWrite DEF Base, ToolboxTypeOK
  <2>3. op.k = "setcfg" /\ cells[0].hi = op.cfg
    BY <1>4 DEF CfgWrite, Base, CommandInv, Linked, Staged
  <2> QED BY <2>1, <2>2, <2>3 DEF CardCfg
<1> QED BY <1>1, <1>2, <1>3, <1>4

\* No image looks like settings.
LEMMA ImageNoCfg == ASSUME NEW kind \in Updates, NEW i PROVE ~CfgValid(Image(kind, i).hi)
BY DEF CfgValid, Image, Mk, Updates

\* What updates and resets do to the commands and the settings on the card.
LEMMA OrderWork ==
  ASSUME Base, Work, pc \notin CfgPoints, health' # "faulty"
  PROVE  /\ health # "faulty"
         /\ CardCfg' = CardCfg \/ ~CfgValid(CardCfg')
         /\ \/ Command' = Command
            \/ Command' = None
            \/ /\ pc = "cmd_write" /\ pc' = "idle" /\ Command' = cmd
               /\ ~recovering => res' = "ok"
               /\ \A s \in Sector \ {CmdSec} : media'[BOOT0][s] = media[BOOT0][s]
<1> USE DEF Base, ToolboxTypeOK
<1>1. CmdSec \in Sector /\ CfgSec \in Sector /\ CmdSec # CfgSec
  BY Layout, SizeAssumption DEF Sector
<1>2. CASE Load \/ RstBegin \/ RstZero \/ CmdBegin \/ CmdPatch
  <2>1. UNCHANGED media /\ health' \in {health, "faulty"}
    BY <1>2 DEF Load, RstBegin, RstZero, CmdBegin, CmdPatch, Prepare0, Prepare, disk
  <2> QED BY <2>1 DEF CardCfg, Command
<1>3. CASE RstRead \/ CmdRead
  <2>1. PICK ok \in BOOLEAN : DiskCall("read", CmdSec, 1, ok)
    BY <1>3 DEF RstRead, CmdRead
  <2>2. health # "faulty" /\ UNCHANGED media
    BY <2>1, SectorRead
  <2> QED BY <2>2 DEF CardCfg, Command
<1>4. CASE RstWrite \/ CmdWrite
  <2>1. PICK ok \in BOOLEAN :
          /\ DiskCall("write", CmdSec, 1, ok)
          /\ \/ pc = "rst_write"
             \/ /\ pc = "cmd_write" /\ pc' = "idle"
                /\ ok /\ ~recovering => res' = "ok"
    BY <1>4 DEF RstWrite, CmdWrite, Return, Outcome
  <2>2. /\ health # "faulty"
        /\ ok => media'[BOOT0][CmdSec] = cells[0]
        /\ ~ok => UNCHANGED media
        /\ \A s \in Sector \ {CmdSec} : media'[BOOT0][s] = media[BOOT0][s]
    BY <2>1, SectorWrite
  <2>3. CardCfg' = CardCfg
    BY <1>1, <2>2 DEF CardCfg
  <2>4. cells[0].lo = (IF pc = "rst_write" THEN None ELSE cmd)
    BY <2>1 DEF CommandInv, Staged
  <2>5. CASE ok
    BY <2>1, <2>2, <2>3, <2>4, <2>5 DEF Command
  <2>6. CASE ~ok
    BY <2>2, <2>3, <2>6 DEF Command
  <2> QED BY <2>5, <2>6
<1>5. CASE WriteImage
  <2>1. PICK k \in Nat : idx = k * SecSize
    BY DEF Position
  <2>2. /\ op \in Op /\ idx \in 0 .. FwMax /\ (idx = 0 \/ idx < op.size) /\ op.k \in Updates
        /\ (idx # 0 => Chunked) /\ (op.k = "fw" \/ op.size <= UpBytes) /\ pc = "image"
    BY <1>5 DEF TypeOK, Position, WriteImage
  <2>3. idx \div SecSize = k /\ Sectors(Piece) \in 0 .. NumCells /\ Area(op.k) + k \in Sector
    BY <2>1, <2>2, PieceFacts
  <2>4. PICK a \in Nat, n \in Nat : a = Area(op.k) + k /\ n = Sectors(Piece) /\ n - 1 < NumCells
    BY <2>3, SizeAssumption DEF Sector
  <2>5. /\ health # "faulty"
        /\ \/ UNCHANGED media
           \/ \A s \in Sector : media'[BOOT0][s] =
                 IF s - a \in 0 .. n - 1 THEN cells[s - a] ELSE media[BOOT0][s]
    BY <1>5, <2>3, <2>4, PieceWrite
  <2>6. \A x \in 0 .. n - 1 : cells[x] = Image(op.k, k + x)
    BY <2>2, <2>3, <2>4, <2>5 DEF Written
  <2>7. CASE UNCHANGED media
    BY <2>5, <2>7 DEF CardCfg, Command
  <2>8. CASE \A s \in Sector : media'[BOOT0][s] =
                 IF s - a \in 0 .. n - 1 THEN cells[s - a] ELSE media[BOOT0][s]
    <3>1. CardCfg' = CardCfg \/ ~CfgValid(CardCfg')
      BY <1>1, <2>2, <2>6, <2>8, ImageNoCfg DEF CardCfg
    <3>2. CmdSec - a \notin 0 .. n - 1
      BY <2>4, Layout, SizeAssumption DEF Area, Sector
    <3>3. Command' = Command
      BY <1>1, <2>8, <3>2 DEF Command
    <3> QED BY <2>5, <3>1, <3>3
  <2> QED BY <2>5, <2>7, <2>8
<1> QED BY <1>2, <1>3, <1>4, <1>5
        DEF Work, CfgRead, CfgPatch, CfgWrite, CfgPoints

-----------------------------------------------------------------------------
(* The locks.                                                              *)

LEMMA NoneCommand == None.k = "none"
BY DEF None, Mk

\* An operation that is started leaves the card as it is.
LEMMA StartFrame == ASSUME NEW o, Start(o) PROVE UNCHANGED <<media, health>> /\ pc' # "idle"
BY DEF Start, Prepare, Entry

LEMMA LockingInit == ToolboxInit => Locking
<1> SUFFICES ASSUME ToolboxInit PROVE Locking
  OBVIOUS
<1>1. Command = None
  BY PowerOnAssumption DEF ToolboxInit, Init, Command
<1> QED BY <1>1, NoneCommand DEF Locking

LEMMA LockingStep == ASSUME Base, Locking, [ToolboxNext]_tvars PROVE Locking'
<1>1. CASE BootRead \/ Info \/ Save
  <2>1. UNCHANGED <<media, health, pending, locked>>
    BY <1>1, StartFrame DEF BootRead, Info, Save
  <2>2. \/ screen = "off" /\ screen' = "boot"
        \/ screen = "top" /\ screen' = "info"
        \/ screen = "settings" /\ screen' = "saving"
    BY <1>1 DEF BootRead, Info, Save, Show
  <2> QED BY <2>1, <2>2 DEF Locking, Sound, Command
<1>2. CASE Confirm
  <2>1. UNCHANGED <<media, health, pending, locked>> /\ screen = "confirm" /\ ~used /\ screen' = "busy"
    BY <1>2, StartFrame DEF Confirm, Show
  <2>2. ~locked
    BY <2>1 DEF Base, Screening
  <2>3. ~(Sound /\ Command.k # "none")
    BY <2>1, <2>2 DEF Locking
  <2> QED BY <2>1, <2>3 DEF Locking, Sound, Command
<1>3. CASE PowerCycle
  <2>1. Sound => Command'.k = "none"
    BY <1>3, RebootClears DEF PowerCycle, Sound, Base, ToolboxTypeOK
  <2>2. health' = health
    BY <1>3 DEF PowerCycle, Reboot
  <2> QED BY <2>1, <2>2 DEF Locking, Sound
<1>4. CASE UNCHANGED tvars
  BY <1>4 DEF tvars, menus, mvars, disk, Locking, Sound, Command, Ordered
<1>5. CASE Confirmed
  <2>1. UNCHANGED <<media, health>> /\ screen = "busy" /\ screen' = "confirm"
        /\ pending' = (pending \/ Ordered) /\ locked' = (locked \/ Ordered)
    BY <1>5 DEF Confirmed, Show, mvars, disk
  <2> QED BY <2>1 DEF Locking, Sound, Command
<1>6. CASE ChooseAny
  <2>1. /\ UNCHANGED <<media, health, pending, locked>>
        /\ screen = "top" /\ screen' = "confirm"
    BY <1>6 DEF ChooseAny, Choose, Show, mvars, disk
  <2> QED BY <2>1 DEF Locking, Sound, Command
<1>7. CASE BootCfg \/ Back \/ InfoDone \/ OpenSettings \/ Edit \/ Saved
  <2>1. UNCHANGED <<media, health, pending, locked>>
    BY <1>7 DEF BootCfg, Back, InfoDone, OpenSettings, Edit, Saved, mvars, disk
  <2>2. \/ screen \in {"boot", "top"} /\ screen' = "main"
        \/ screen \in {"confirm", "settings", "info"} /\ screen' = "top"
        \/ screen \in {"top", "settings", "saving"} /\ screen' = "settings"
    BY <1>7 DEF BootCfg, Back, InfoDone, OpenSettings, Edit, Saved, Show
  <2> QED BY <2>1, <2>2 DEF Locking, Sound, Command
<1>8. CASE OpenToolbox
  <2>1. /\ UNCHANGED <<media, health, pending>> /\ locked' = pending
        /\ screen = "main" /\ screen' = "top"
    BY <1>8 DEF OpenToolbox, InitCard, Show, FreshLock
  <2> QED BY <2>1 DEF Locking, Sound, Command
<1>9. CASE Operate
  <2>1. Work /\ UNCHANGED <<screen, pending, locked, used, armed>> /\ pc # "idle" /\ op' = op
    BY <1>9, WorkFrame DEF Operate, menus
  <2>2. CASE health' = "faulty"
    BY <2>2 DEF Locking, Sound
  <2>3. CASE health' # "faulty" /\ pc \in CfgPoints
    <3>1. CmdSec \in Sector \ {CfgSec}
      BY Layout, SizeAssumption DEF Sector
    <3>2. health # "faulty" /\ Command' = Command
      BY <2>1, <2>3, <3>1, SettingsWork DEF Command
    <3>3. screen # "busy"
      BY <2>3, BusyPoints
    <3> QED BY <2>1, <3>2, <3>3 DEF Locking, Sound
  <2>4. CASE health' # "faulty" /\ pc \notin CfgPoints
    <3>1. /\ health # "faulty"
          /\ \/ Command' = Command
             \/ Command' = None
             \/ /\ pc = "cmd_write" /\ pc' = "idle" /\ Command' = cmd
                /\ ~recovering => res' = "ok"
      BY <2>1, <2>4, OrderWork
    <3>2. screen = "busy"
      BY <2>1, <2>4, SettingsPoints DEF Base, Screening, ToolboxTypeOK, Screens
    <3>3. Command.k = "none"
      BY <2>1, <3>1, <3>2 DEF Locking, Sound
    <3>4. CASE Command'.k = "none"
      BY <3>4 DEF Locking
    <3>5. CASE Command'.k # "none"
      <4>1. pc = "cmd_write" /\ pc' = "idle" /\ (~recovering => res' = "ok")
        BY <3>1, <3>3, <3>5, NoneCommand
      <4>2. recovering => armed.k \in Updates
        BY <3>2 DEF Base, CommandInv, Linked, Screening
      <4>3. Ordered'
        BY <2>1, <4>1, <4>2 DEF Ordered
      <4> QED BY <2>1, <3>2, <4>1, <4>3 DEF Locking
    <3> QED BY <3>4, <3>5
  <2> QED BY <2>2, <2>3, <2>4
<1> QED BY <1>1, <1>2, <1>3, <1>4, <1>5, <1>6, <1>7, <1>8, <1>9 DEF ToolboxNext

-----------------------------------------------------------------------------
(* The image under an order.                                               *)

\* A step that leaves the command and the sectors of the images alone.
LEMMA SameImage ==
  ASSUME ImageUnderOrder, health' # "faulty" => health # "faulty", Command' = Command,
         file' = file,
         \A s \in Sector : s < CfgSec => media'[BOOT0][s] = media[BOOT0][s]
  PROVE  ImageUnderOrder'
<1> SUFFICES ASSUME Sound', IsOrder(Command)' PROVE Whole(CfgSec)'
  BY DEF ImageUnderOrder
<1>1. Whole(CfgSec)
  BY DEF ImageUnderOrder, Sound, IsOrder
<1>2. ASSUME NEW i \in 0 .. Sectors(file.size) - 1, FwStart + i < CfgSec
      PROVE  media'[BOOT0][FwStart + i] =
               Image(IF Command.k = "fwcmd" THEN "fw" ELSE "bl", i)
  <2>1. FwStart + i \in Sector
    BY <1>2, Layout, SizeAssumption DEF Sector
  <2> QED BY <1>1, <1>2, <2>1 DEF Whole
<1> QED BY <1>2 DEF Whole, Sectors, Image, Mk

LEMMA NoOrder == ASSUME Sound' => Command'.k = "none" PROVE ImageUnderOrder'
BY DEF ImageUnderOrder, IsOrder

LEMMA ImageStep == ASSUME Base, Locking, ImageUnderOrder, [ToolboxNext]_tvars PROVE ImageUnderOrder'
<1>1. CASE BootRead \/ Info \/ Save
  BY <1>1, StartFrame, SameImage DEF BootRead, Info, Save, Command
<1>2. CASE Confirm
  <2>1. UNCHANGED <<media, health>> /\ screen = "confirm" /\ ~used
    BY <1>2, StartFrame DEF Confirm
  <2>2. ~locked
    BY <2>1 DEF Base, Screening
  <2>3. Sound => Command.k = "none"
    BY <2>1, <2>2 DEF Locking
  <2> QED BY <2>1, <2>3, NoOrder DEF Sound, Command
<1>3. CASE PowerCycle
  <2>1. Sound => Command'.k = "none"
    BY <1>3, RebootClears DEF PowerCycle, Sound, Base, ToolboxTypeOK
  <2>2. health' = health
    BY <1>3 DEF PowerCycle, Reboot
  <2> QED BY <2>1, <2>2, NoOrder DEF Sound
<1>4. CASE UNCHANGED tvars
  BY <1>4, SameImage DEF tvars, menus, mvars, disk, Command
<1>5. CASE BootCfg \/ Back \/ ChooseAny \/ Confirmed \/ InfoDone \/ OpenSettings \/ Edit \/ Saved
  BY <1>5, SameImage DEF BootCfg, Back, ChooseAny, Choose, Confirmed, InfoDone, OpenSettings,
                         Edit, Saved, mvars, disk, Command
<1>6. CASE OpenToolbox
  BY <1>6, SameImage DEF OpenToolbox, InitCard, Command
<1>7. CASE Operate
  <2>1. Work /\ UNCHANGED <<screen, file>> /\ op' = op
    BY <1>7, WorkFrame DEF Operate, menus
  <2>2. CASE health' = "faulty"
    BY <2>2 DEF ImageUnderOrder, Sound
  <2>3. CASE health' # "faulty" /\ pc \in CfgPoints
    <3>1. CmdSec \in Sector \ {CfgSec} /\ \A s \in Sector : s < CfgSec => s \in Sector \ {CfgSec}
      BY Layout, SizeAssumption DEF Sector
    <3>2. /\ health # "faulty" /\ Command' = Command
          /\ \A s \in Sector : s < CfgSec => media'[BOOT0][s] = media[BOOT0][s]
      BY <2>1, <2>3, <3>1, SettingsWork DEF Command
    <3> QED BY <2>1, <3>2, SameImage
  <2>4. CASE health' # "faulty" /\ pc \notin CfgPoints
    <3>1. /\ health # "faulty"
          /\ \/ Command' = Command
             \/ Command' = None
             \/ /\ pc = "cmd_write" /\ Command' = cmd
                /\ \A s \in Sector \ {CmdSec} : media'[BOOT0][s] = media[BOOT0][s]
      BY <2>1, <2>4, OrderWork
    <3>2. screen = "busy" /\ pc # "idle"
      BY <2>1, <2>4, SettingsPoints, WorkFrame DEF Base, Screening, ToolboxTypeOK, Screens
    <3>3. Command.k = "none"
      BY <3>1, <3>2 DEF Locking, Sound
    <3>4. CASE ~IsOrder(Command')
      BY <3>4 DEF ImageUnderOrder, IsOrder
    <3>5. CASE IsOrder(Command')
      <4>1. /\ pc = "cmd_write" /\ Command' = cmd
            /\ \A s \in Sector \ {CmdSec} : media'[BOOT0][s] = media[BOOT0][s]
        BY <3>1, <3>3, <3>5, NoneCommand DEF IsOrder
      <4>2. op.k \in {"fw", "bl"} /\ ~recovering /\ cmd = UpdateCmd
        BY <3>5, <4>1 DEF Base, CommandInv, Linked, CmdPoints, IsOrder, RollbackCmd, RstCmd, Mk
      <4>3. file = op /\ op \in Op /\ op.k \in Updates
        BY <3>2, <4>2 DEF Base, Screening, Updates, ToolboxTypeOK, TypeOK
      <4>4. OnCard(Sectors(op.size))
        BY <3>1, <4>1, <4>2, <4>3 DEF Base, Written, CmdPoints
      <4>5. PICK n : n = Sectors(op.size)
        OBVIOUS
      <4>6. \A i \in 0 .. n - 1 : media'[BOOT0][FwStart + i] = Image(op.k, i)
        BY <4>1, <4>2, <4>3, <4>4, <4>5, CountType DEF OnCard, Area
      <4>7. (IF cmd.k = "fwcmd" THEN "fw" ELSE "bl") = op.k
        BY <4>2 DEF UpdateCmd, Mk
      <4>8. Sectors(file'.size) = n
        BY <2>1, <4>3, <4>5
      <4>9. Whole(CfgSec)'
        BY <4>1, <4>6, <4>7, <4>8 DEF Whole, Sectors, Image, Mk
      <4> QED BY <4>9 DEF ImageUnderOrder
    <3> QED BY <3>4, <3>5
  <2> QED BY <2>2, <2>3, <2>4
<1> QED BY <1>1, <1>2, <1>3, <1>4, <1>5, <1>6, <1>7 DEF ToolboxNext

-----------------------------------------------------------------------------
(* The settings.                                                           *)

LEMMA SavingStep == ASSUME Base, Saving, [ToolboxNext]_tvars PROVE Saving'
<1>1. CASE BootRead \/ Info \/ Save \/ Confirm
  <2>1. UNCHANGED <<media, health, cfg, synced>> /\ pc' # "idle"
    BY <1>1, StartFrame DEF BootRead, Info, Save, Confirm
  <2>2. screen # "saving"
    BY <1>1 DEF BootRead, Info, Save, Confirm
  <2> QED BY <2>1, <2>2 DEF Saving, Sound, CardCfg
<1>2. CASE PowerCycle
  BY <1>2 DEF PowerCycle, Saving
<1>3. CASE UNCHANGED tvars
  BY <1>3 DEF tvars, menus, mvars, disk, Saving, Sound, CardCfg
<1>4. CASE BootCfg
  <2>1. UNCHANGED <<media, health>> /\ screen = "boot" /\ screen' = "main" /\ pc = "idle"
    BY <1>4 DEF BootCfg, Show, mvars, disk
  <2>2. synced' => cfg' = got /\ res = "ok"
    BY <1>4 DEF BootCfg
  <2> QED BY <2>1, <2>2 DEF Saving, Sound, CardCfg
<1>5. CASE Saved
  <2>1. UNCHANGED <<media, health, temp>> /\ screen = "saving" /\ screen' = "settings" /\ pc = "idle"
    BY <1>5 DEF Saved, Show, mvars, disk
  <2>2. cfg' = (IF res = "ok" THEN temp ELSE cfg) /\ synced' = (synced \/ res = "ok")
    BY <1>5 DEF Saved, Kept
  <2> QED BY <2>1, <2>2 DEF Saving, Sound, CardCfg
<1>6. CASE Back \/ ChooseAny \/ Confirmed \/ InfoDone \/ OpenSettings \/ Edit
  <2>1. UNCHANGED <<media, health, cfg, synced>> /\ screen # "saving" /\ screen' \notin {"saving", "boot"}
    BY <1>6 DEF Back, ChooseAny, Choose, Confirmed, InfoDone, OpenSettings, Edit, Show, mvars, disk
  <2> QED BY <2>1 DEF Saving, Sound, CardCfg
<1>7. CASE OpenToolbox
  BY <1>7 DEF OpenToolbox, InitCard, Show, Saving, Sound, CardCfg
<1>8. CASE Operate
  <2>1. Work /\ UNCHANGED <<screen, cfg, synced, temp>> /\ op' = op /\ pc # "idle"
    BY <1>8, WorkFrame DEF Operate, menus
  <2>2. CASE health' = "faulty"
    BY <2>2 DEF Saving, Sound
  <2>3. CASE health' # "faulty" /\ pc \in CfgPoints
    <3>1. /\ health # "faulty"
          /\ \/ CardCfg' = CardCfg /\ ~(op.k = "setcfg" /\ pc' = "idle" /\ res' = "ok")
               /\ (op.k = "getcfg" /\ pc' = "idle" /\ res' = "ok" => got' = CardCfg)
             \/ op.k = "setcfg" /\ pc' = "idle" /\ res' = "ok" /\ CardCfg' = op.cfg
      BY <2>1, <2>3, SettingsWork
    <3>2. /\ screen \in {"boot", "info", "saving"}
          /\ screen = "boot" => op.k = "getcfg"
          /\ screen = "info" => op.k = "desc"
          /\ screen = "saving" => op.k = "setcfg" /\ op.cfg = temp
      BY <2>1, <2>3, BusyPoints DEF Base, Screening, ToolboxTypeOK, Screens
    <3>3. synced /\ CfgValid(CardCfg) => cfg = CardCfg
      BY <2>1, <3>1 DEF Saving, Sound
    <3>4. CASE CardCfg' = CardCfg /\ ~(op.k = "setcfg" /\ pc' = "idle" /\ res' = "ok")
               /\ (op.k = "getcfg" /\ pc' = "idle" /\ res' = "ok" => got' = CardCfg)
      <4>1. screen = "boot" /\ pc' = "idle" /\ res' = "ok" => got' = CardCfg'
        BY <3>2, <3>4
      <4>2. ~(screen = "saving" /\ pc' = "idle" /\ res' = "ok")
        BY <3>2, <3>4
      <4> QED BY <2>1, <3>3, <3>4, <4>1, <4>2 DEF Saving
    <3>5. CASE op.k = "setcfg" /\ pc' = "idle" /\ res' = "ok" /\ CardCfg' = op.cfg
      BY <2>1, <3>2, <3>5 DEF Saving
    <3> QED BY <3>1, <3>4, <3>5
  <2>4. CASE health' # "faulty" /\ pc \notin CfgPoints
    <3>1. health # "faulty" /\ (CardCfg' = CardCfg \/ ~CfgValid(CardCfg'))
      BY <2>1, <2>4, OrderWork
    <3>2. screen \notin {"boot", "saving"}
      BY <2>1, <2>4, SettingsPoints
    <3>3. synced /\ CfgValid(CardCfg) => cfg = CardCfg
      BY <3>1, <3>2 DEF Saving, Sound
    <3> QED BY <2>1, <3>1, <3>2, <3>3 DEF Saving
  <2> QED BY <2>2, <2>3, <2>4
<1> QED BY <1>1, <1>2, <1>3, <1>4, <1>5, <1>6, <1>7, <1>8 DEF ToolboxNext

LEMMA InvInit == ToolboxInit => Base /\ Locking /\ Saving /\ ImageUnderOrder
<1> SUFFICES ASSUME ToolboxInit PROVE Base /\ Locking /\ Saving /\ ImageUnderOrder
  OBVIOUS
<1>1. Command = None
  BY PowerOnAssumption DEF ToolboxInit, Init, Command
<1>2. ImageUnderOrder
  BY <1>1, NoneCommand DEF ImageUnderOrder, IsOrder
<1>3. Saving
  BY DEF ToolboxInit, Session, Saving
<1> QED BY <1>2, <1>3, BaseInit, LockingInit

\* The inductive invariant the next theorems are parts of.
THEOREM ToolboxInvariant == ToolboxSpec => [](Base /\ Locking /\ Saving /\ ImageUnderOrder)
<1>1. Base /\ Locking /\ Saving /\ ImageUnderOrder /\ [ToolboxNext]_tvars
        => (Base /\ Locking /\ Saving /\ ImageUnderOrder)'
  BY BaseStep, LockingStep, SavingStep, ImageStep
<1> QED BY <1>1, InvInit, PTL DEF ToolboxSpec

\* As long as the card has no fault, an update order on it has its image complete
\* below the settings sector, at every moment and so also when the power goes.
THEOREM ImageUnderOrderHolds == ToolboxSpec => []ImageUnderOrder
BY ToolboxInvariant, PTL

\* An order on the card locks the entries that would overwrite it, also when the
\* toolbox is left and entered again (command_pending).
THEOREM OrderLocksHolds == ToolboxSpec => []OrderLocks
<1>1. Locking => OrderLocks
  BY DEF Locking, OrderLocks
<1> QED BY <1>1, ToolboxInvariant, PTL

\* The settings in use are the valid ones on the card, once read or saved there
\* (modchip_get_cfg_or_default, settings_save_cb).
THEOREM SettingsCoherentHolds == ToolboxSpec => []SettingsCoherent
<1>1. Saving => SettingsCoherent
  BY DEF Saving, SettingsCoherent, CardCfg
<1> QED BY <1>1, ToolboxInvariant, PTL

\* No image reaches beyond BOOT0, and no IPL the sector with the settings.
THEOREM ImageFitsHolds == ToolboxSpec => []ImageFits
<1>1. Base => ImageFits
  <2> SUFFICES ASSUME Base, pc = "image"
               PROVE  LET end == Area(op.k) + idx \div SecSize + Sectors(Piece)
                      IN end <= NumSec /\ (op.k = "ipl" => end <= CfgSec)
    BY DEF ImageFits
  <2>1. PICK k \in Nat : idx = k * SecSize
    BY DEF Base, Position
  <2>2. /\ op \in Op /\ idx \in 0 .. FwMax /\ (idx = 0 \/ idx < op.size) /\ op.k \in Updates
        /\ (idx # 0 => Chunked) /\ (op.k = "fw" \/ op.size <= UpBytes)
    BY DEF Base, ToolboxTypeOK, TypeOK, Position
  <2>3. /\ idx \div SecSize = k /\ Sectors(Piece) \in 0 .. NumCells /\ Area(op.k) + k \in Sector
        /\ Area(op.k) + k + Sectors(Piece) <= (IF op.k = "ipl" THEN CfgSec ELSE NumSec)
    BY <2>1, <2>2, PieceFacts
  <2>4. CfgSec <= NumSec /\ CfgSec \in Int /\ NumSec \in Int
    BY SizeAssumption DEF CfgSec
  <2>5. PICK end : end = Area(op.k) + k + Sectors(Piece)
    OBVIOUS
  <2>6. end <= NumSec /\ (op.k = "ipl" => end <= CfgSec)
    <3>1. CASE op.k = "ipl"
      <4>1. Area(op.k) + k + Sectors(Piece) <= CfgSec
        BY <2>3, <3>1
      <4>2. PICK at \in Int, n \in Int : at = Area(op.k) + k /\ n = Sectors(Piece)
        BY <2>3 DEF Sector
      <4>3. end \in Int /\ end <= CfgSec
        BY <4>1, <4>2, <2>5
      <4> QED BY <4>3, <2>4, <3>1
    <3>2. CASE op.k # "ipl"
      BY <2>3, <2>5, <3>2
    <3> QED BY <3>1, <3>2
  <2>7. Area(op.k) + idx \div SecSize + Sectors(Piece) = end
    BY <2>3, <2>5
  <2> QED BY <2>6, <2>7
<1> QED BY <1>1, ToolboxInvariant, PTL
=============================================================================
