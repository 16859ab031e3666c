------------------------------ MODULE Toolbox ------------------------------
(***************************************************************************)
(* The toolbox menus (modchip_toolbox.c) over the operations of Modchip:   *)
(* what the user may start, and in which order.  command_pending locks the *)
(* entries that would write over an order the modchip has not carried out. *)
(* The boot step that reads the settings (get_cfg in main.c) is here too,  *)
(* as the settings menu edits what it read.                                *)
(***************************************************************************)
EXTENDS Modchip

VARIABLES
  screen,    \* the menu on display, or the operation it waits for
  pending,   \* command_pending
  locked,    \* `disabled` of entries 1 to 4 and 6 of the toolbox menu
  used,      \* `disabled` of the Confirm entry
  armed,     \* the operation the confirm menu offers
  cfg,       \* sdloader_cfg
  temp,      \* temp_cfg of the settings menu
  file,      \* history: the update confirmed last
  synced     \* history: cfg was read from the card or saved to it

menus == <<screen, pending, locked, used, armed, cfg, temp, file, synced>>
tvars == <<mvars, menus>>

Screens == {"off", "boot", "main", "top", "info", "confirm", "busy", "settings", "saving"}

ToolboxTypeOK ==
  /\ TypeOK
  /\ screen \in Screens
  /\ pending \in BOOLEAN /\ locked \in BOOLEAN /\ used \in BOOLEAN
  /\ armed \in Op /\ file \in Op
  /\ cfg \in Settings /\ temp \in Settings
  /\ synced \in BOOLEAN

Session ==
  /\ screen = "off" /\ pending = FALSE /\ locked = FALSE /\ used = FALSE
  /\ armed = Idle /\ file = Idle /\ cfg = DefaultCfg /\ temp = DefaultCfg
  /\ synced = FALSE

ToolboxInit == Init /\ Session

\* emmc_initialize(false) can leave ext_csd in the buffer; its result is
\* ignored, a card that is not up refuses the calls that follow.
InitCard ==
  /\ cells' \in {cells, Disk!Scribbled(cells)}
  /\ last' = Pending
  /\ UNCHANGED <<media, pc, op, idx, cmd, recovering, got, res, health, faults, ops>>

Show(s) == screen' = s

-----------------------------------------------------------------------------
\* main: get_cfg.
BootRead ==
  /\ screen = "off"
  /\ Start([k |-> "getcfg", size |-> 0, cfg |-> DefaultCfg])
  /\ Show("boot")
  /\ UNCHANGED <<pending, locked, used, armed, cfg, temp, file, synced>>

\* modchip_get_cfg_or_default.
BootCfg ==
  /\ screen = "boot" /\ pc = "idle"
  /\ Show("main")
  /\ LET ok == res = "ok" /\ CfgValid(got)
     IN cfg' = (IF ok THEN got ELSE DefaultCfg) /\ synced' = ok
  /\ UNCHANGED <<mvars, pending, locked, used, armed, temp, file>>

\* Seeded fault: the entries of a new toolbox menu are enabled.
FreshLock_Open == FALSE

\* toolbox() builds its entries from command_pending.
FreshLock == pending

OpenToolbox ==
  /\ screen = "main"
  /\ InitCard
  /\ Show("top")
  /\ locked' = FreshLock
  /\ UNCHANGED <<pending, used, armed, cfg, temp, file, synced>>

Back ==
  /\ \/ screen = "top" /\ Show("main")
     \/ screen \in {"confirm", "settings"} /\ Show("top")
  /\ UNCHANGED <<mvars, pending, locked, used, armed, cfg, temp, file, synced>>

\* Seeded fault: the size limit of another image is passed to update_cb.
Limit_Fw(k) == FwMax

\* The size_max each entry passes to update_cb.
Limit(k) == IF k = "ipl" THEN IplMax ELSE FwMax

\* FW Reset, FW Rollback, and the updates: update_cb opens the file (on any
\* drive) and refuses one that is too large.
Choose(k, n) ==
  /\ screen = "top" /\ ~locked
  /\ n <= Limit(k)
  /\ armed' = [k |-> k, size |-> n, cfg |-> DefaultCfg]
  /\ used' = FALSE
  /\ Show("confirm")
  /\ UNCHANGED <<mvars, pending, locked, cfg, temp, file, synced>>

ChooseAny ==
  \/ \E k \in {"rst", "rollback"} : Choose(k, 0)
  \/ \E k \in Updates, n \in 0 .. FwMax : Choose(k, n)

Confirm ==
  /\ screen = "confirm" /\ ~used
  /\ Start(armed)
  /\ Show("busy")
  /\ file' = IF armed.k \in Updates THEN armed ELSE file
  /\ UNCHANGED <<pending, locked, used, armed, cfg, temp, synced>>

\* Seeded fault: a rollback is not taken for an order.
Ordered_Update == armed.k \in Updates

\* reset and rollback lock the menu when they worked, updates always.
Ordered == armed.k \in Updates \/ res = "ok"

Confirmed ==
  /\ screen = "busy" /\ pc = "idle"
  /\ Show("confirm")
  /\ pending' = (pending \/ Ordered)
  /\ locked' = (locked \/ Ordered)
  /\ used' = (used \/ Ordered)
  /\ UNCHANGED <<mvars, armed, cfg, temp, file, synced>>

-----------------------------------------------------------------------------
\* FW Info: modchip_read_desc.
Info ==
  /\ screen = "top"
  /\ Start(Idle)
  /\ Show("info")
  /\ UNCHANGED <<pending, locked, used, armed, cfg, temp, file, synced>>

InfoDone ==
  /\ screen = "info" /\ pc = "idle"
  /\ Show("top")
  /\ UNCHANGED <<mvars, pending, locked, used, armed, cfg, temp, file, synced>>

\* IPL Settings is never locked.
OpenSettings ==
  /\ screen = "top"
  /\ temp' = cfg
  /\ Show("settings")
  /\ UNCHANGED <<mvars, pending, locked, used, armed, cfg, file, synced>>

\* One of the three entries that cycle a setting.
Edit ==
  /\ screen = "settings"
  /\ temp' \in Settings \ {temp}
  /\ UNCHANGED <<mvars, screen, pending, locked, used, armed, cfg, file, synced>>

Save ==
  /\ screen = "settings"
  /\ Start([k |-> "setcfg", size |-> 0, cfg |-> temp])
  /\ Show("saving")
  /\ UNCHANGED <<pending, locked, used, armed, cfg, temp, file, synced>>

\* Seeded fault: the settings are taken over before they are saved.
Kept_Always == temp

\* Only a save that worked changes the settings in use.
Kept == IF res = "ok" THEN temp ELSE cfg

Saved ==
  /\ screen = "saving" /\ pc = "idle"
  /\ Show("settings")
  /\ cfg' = Kept
  /\ synced' = (synced \/ res = "ok")
  /\ UNCHANGED <<mvars, pending, locked, used, armed, temp, file>>

\* Power goes and comes back: command_pending is in memory.
PowerCycle ==
  /\ Reboot
  /\ screen' = "off" /\ pending' = FALSE /\ locked' = FALSE /\ used' = FALSE
  /\ armed' = Idle /\ file' = Idle /\ cfg' = DefaultCfg /\ temp' = DefaultCfg
  /\ synced' = FALSE

Operate == Work /\ UNCHANGED menus

ToolboxNext ==
  \/ BootRead \/ BootCfg \/ OpenToolbox \/ Back \/ ChooseAny \/ Confirm \/ Confirmed
  \/ Info \/ InfoDone \/ OpenSettings \/ Edit \/ Save \/ Saved
  \/ Operate \/ PowerCycle

ToolboxSpec == ToolboxInit /\ [][ToolboxNext]_tvars
-----------------------------------------------------------------------------
(* Properties.  They hold as long as the card itself has not failed.       *)

Sound == health # "faulty"

IsOrder(c) == c.k \in {"fwcmd", "blcmd"} /\ c.a # AllOnes

\* What of the image an order names is on the card, from sector to sector.
Whole(lastOwn) ==
  \A i \in 0 .. Sectors(file.size) - 1 :
    FwStart + i < lastOwn =>
      media[BOOT0][FwStart + i] = Image(IF Command.k = "fwcmd" THEN "fw" ELSE "bl", i)

\* At every moment, so also when the power goes, an update order on the card
\* has its image complete below the settings sector: the order follows the
\* image, and no later update, boot loader or reset touches it.
ImageUnderOrder == Sound /\ IsOrder(Command) => Whole(CfgSec)

\* modchip_toolbox.c:231: "FW update command sent. Reboot console!": until the
\* console reboots nothing spoils the image, in its last sector either.
SentImageWhole == Sound /\ IsOrder(Command) => Whole(NumSec)

\* An order on the card locks the entries that could overwrite it, also when
\* the toolbox is left and entered again.
OrderLocks ==
  Sound /\ Command.k # "none" /\ screen \in {"main", "top", "confirm", "settings"} =>
    pending /\ (screen # "main" => locked)

\* The images written stay in the last 128 KiB of BOOT0, and an IPL stays below
\* the sector with the settings.
ImageFits ==
  pc = "image" =>
    LET end == Area(op.k) + idx \div SecSize + Sectors(Piece)
    IN end <= NumSec /\ (op.k = "ipl" => end <= CfgSec)

\* The settings in use are those on the card, once they were read or saved:
\* a save that fails changes neither, an order replaces those on the card.
SettingsCoherent ==
  /\ Sound /\ synced /\ screen # "saving"
  /\ CfgValid(media[BOOT0][CfgSec].hi)
  => cfg = media[BOOT0][CfgSec].hi
=============================================================================
