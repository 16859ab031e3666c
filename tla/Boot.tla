------------------------------- MODULE Boot --------------------------------
(***************************************************************************)
(* The program from reset to payload: main.c with its menu, and the search *)
(* for files in files.c on top of FatFs, which keeps one volume mounted.   *)
(*                                                                         *)
(* Drives are in the order of sdloader_drive.  What a drive holds is its   *)
(* file system and the version of payload.bin in the root directory; the   *)
(* host rewrites it over USB and the user may swap the SD card.  The fault *)
(* of a device makes a call fail.  FatFs is vendored under bdk/libs.       *)
(***************************************************************************)
EXTENDS Integers

CONSTANTS
  MaxVer,      \* bound: contents a drive can have
  MaxVisits,   \* bound: menu entries the user selects
  Worlds       \* what the drives can hold at power-on

SD        == 0
BOOT1_1MB == 1
BOOT1     == 2
GPP       == 3
INVALID   == 4
Drives == {SD, BOOT1_1MB, BOOT1, GPP}
Device(d) == IF d = SD THEN "sd" ELSE "emmc"

\* A root directory: 0 has no payload.bin, otherwise its version.  A version
\* can be larger than PAYLOAD_SIZE_MAX.
NoFile   == 0
TooLarge == MaxVer
Mixed    == MaxVer + 1          \* old directory entry, new contents
Entry    == 0 .. MaxVer

Unread == -1                    \* the directory is not in fs.win
Volume == {v \in [fat : BOOLEAN, file : Entry] : v.fat \/ v.file = NoFile}

ASSUME BootAssumption == /\ MaxVer \in Nat \ {0}
                         /\ MaxVisits \in Nat
                         /\ Worlds \subseteq [Drives -> Volume]

\* sd_loader_cfg_t: default_payload_vol (0 is automatic, 5 to 7 are no drive),
\* default_action and disable_ofw_btn_combo.
Automatic == 0
Cfg  == [vol : {Automatic, 1, 3, 7}, action : {"payload", "ofw", "menu"}, noOfw : BOOLEAN]
DefaultCfg == [vol |-> Automatic, action |-> "payload", noOfw |-> FALSE]

VARIABLES
  pc,       \* what the program does
  up,       \* which storages are initialised
  disk,     \* what the drives hold
  cur,      \* cur_drive
  reg,      \* FatFs[]: the volumes fs is registered for
  fs,       \* the FATFS object
  cfg,      \* sdloader_cfg
  drive,    \* the drive the search is at
  all,      \* open_file_on_any (or open_file_on)
  want,     \* the file it looks for: the payload, or one of the toolbox
  entry,    \* the directory entry of the file that was opened
  payload,  \* payload_ctx: the drive and version that were read
  visits,   \* bound
  failed,   \* history: a call to a device failed
  touched   \* history: the drives that were rewritten, ended or swapped since
            \* the program last mounted them, or tried to

files == <<cur, reg, fs>>
search == <<drive, all, want>>
vars == <<pc, up, disk, files, cfg, search, entry, payload, visits, failed, touched>>

Points == {"boot", "buttons", "mount", "open", "read", "menu", "toolbox", "ums",
           "launched", "ofw", "off"}

TypeOK ==
  /\ pc \in Points
  /\ up \in [{"sd", "emmc"} -> BOOLEAN]
  /\ disk \in [Drives -> Volume]
  /\ cur \in Drives \cup {INVALID}
  /\ reg \subseteq Drives
  /\ fs \in [drv : Drives, on : BOOLEAN, dir : {Unread} \cup Entry]
  /\ cfg \in Cfg
  /\ drive \in 0 .. 6 /\ (pc \in {"mount", "open", "read"} => drive \in Drives)
  /\ all \in BOOLEAN
  /\ want \in {"payload", "update"}
  /\ entry \in Entry
  /\ payload \in [drv : Drives \cup {INVALID}, ver : Entry \cup {Mixed}]
  /\ visits \in 0 .. MaxVisits
  /\ failed \in BOOLEAN /\ touched \subseteq Drives

NoPayload == [drv |-> INVALID, ver |-> NoFile]

Init ==
  /\ pc = "boot"
  /\ up = [s \in {"sd", "emmc"} |-> FALSE]
  /\ disk \in Worlds
  /\ cur = INVALID
  /\ reg = {}
  /\ fs = [drv |-> SD, on |-> FALSE, dir |-> Unread]
  /\ cfg = DefaultCfg
  /\ drive = INVALID /\ all = FALSE /\ want = "payload" /\ entry = NoFile
  /\ payload = NoPayload
  /\ visits = 0
  /\ failed = FALSE /\ touched = {}

Storages == {"sd", "emmc"}

\* sd_end and emmc_end: the storage stays up if CMD0 cannot be sent.
End(devices) ==
  \/ up' = [s \in DOMAIN up |-> up[s] /\ s \notin devices] /\ UNCHANGED failed
  \/ \E d \in devices : /\ up[d]
                       /\ up' = [s \in DOMAIN up |-> up[s] /\ (s \notin devices \/ s = d)]
                       /\ failed' = TRUE

\* Storages that were initialised and ended again.
Used(devices) ==
  \/ up' = [s \in DOMAIN up |-> up[s] /\ s \notin devices] /\ UNCHANGED failed
  \/ /\ up' \in [DOMAIN up -> BOOLEAN]
     /\ \A s \in DOMAIN up \ devices : up'[s] = up[s]
     /\ failed' = TRUE

-----------------------------------------------------------------------------
(* Start-up: get_cfg and the buttons.                                      *)

\* The settings are read from BOOT0, or the default ones are taken.
GetCfg ==
  /\ pc = "boot"
  /\ pc' = "buttons"
  /\ cfg' \in Cfg
  /\ Used({"emmc"})
  /\ UNCHANGED <<disk, files, search, entry, payload, visits, touched>>

\* Seeded fault: the search on any drive starts with the second one.
FirstDrive_Second == IF cfg.vol = Automatic THEN BOOT1_1MB ELSE cfg.vol - 1

FirstDrive == IF cfg.vol = Automatic THEN SD ELSE cfg.vol - 1

\* open_file_on refuses a number that is no drive.
Refused == FirstDrive > GPP

\* load_payload: on any drive, or on the configured one.
Load ==
  /\ want' = "payload"
  /\ all' = (cfg.vol = Automatic)
  /\ drive' = FirstDrive
  /\ pc' = IF Refused THEN "menu" ELSE "mount"

\* Volume buttons at start-up: both for the stock firmware, up for the menu.
Buttons ==
  /\ pc = "buttons"
  /\ UNCHANGED <<up, disk, files, cfg, entry, payload, visits, failed, touched>>
  /\ \E held \in {"none", "down", "up", "both"} :
       \/ held = "both" /\ ~cfg.noOfw /\ pc' = "ofw" /\ UNCHANGED search
       \/ held = "up" /\ pc' = "menu" /\ UNCHANGED search
       \/ /\ held \in {"none", "down"} \/ (held = "both" /\ cfg.noOfw)
          /\ \/ cfg.action = "payload" /\ Load
             \/ cfg.action \in {"ofw", "menu"} /\ pc' = cfg.action /\ UNCHANGED search

-----------------------------------------------------------------------------
(* Files: mount_drive, open_file_on, open_file_on_any, read_payload.       *)

Caller == IF want = "payload" THEN "menu" ELSE "toolbox"

\* Seeded fault: the loop does not advance.
NextOf_Same == drive

NextOf == drive + 1

\* The search goes on with the next drive, a single drive was all.
NextDrive ==
  IF all /\ drive < GPP
  THEN pc' = "mount" /\ drive' = NextOf /\ UNCHANGED <<all, want>>
  ELSE pc' = Caller /\ UNCHANGED search

\* Seeded fault: a mount that failed leaves cur_drive.
CurFailed_Set == drive

\* mount_drive records a drive only when it was mounted.
CurFailed == INVALID

\* Seeded fault: whatever is mounted is searched.
Mounted_Any == cur # INVALID

Mounted == cur = drive

\* mount_drive: nothing to do for cur_drive; otherwise the old volume is
\* unregistered and f_mount registers fs, initialises the device and looks for
\* a file system.
MountCached ==
  /\ pc = "mount" /\ Mounted
  /\ pc' = "open"
  /\ UNCHANGED <<up, disk, files, cfg, search, entry, payload, visits, failed, touched>>

Register == reg' = (reg \ {cur}) \cup {drive}

MountOk ==
  /\ pc = "mount" /\ ~Mounted
  /\ disk[drive].fat
  /\ Register
  /\ up' = [up EXCEPT ![Device(drive)] = TRUE]
  /\ fs' = [drv |-> drive, on |-> TRUE, dir |-> Unread]
  /\ cur' = drive
  /\ touched' = touched \ {drive}
  /\ pc' = "open"
  /\ UNCHANGED <<disk, cfg, search, entry, payload, visits, failed>>

\* No file system, or the device fails.
MountFail ==
  /\ pc = "mount" /\ ~Mounted
  /\ Register
  /\ \/ ~disk[drive].fat /\ up' = [up EXCEPT ![Device(drive)] = TRUE] /\ UNCHANGED failed
     \/ \E b \in BOOLEAN : up' = [up EXCEPT ![Device(drive)] = b] /\ failed' = TRUE
  /\ fs' = [drv |-> drive, on |-> FALSE, dir |-> Unread]
  /\ cur' = CurFailed
  /\ touched' = touched \ {drive}
  /\ NextDrive
  /\ UNCHANGED <<disk, cfg, entry, payload, visits>>

\* f_open on the volume f_chdrive selected.  fs.on is enough for mount_volume,
\* as disk_status is 0; the directory comes from the window or the device.
Found(e) ==
  IF want = "payload" /\ e # NoFile THEN {"read"}
  ELSE IF want = "payload" THEN {"next"} ELSE {"next", "toolbox"}

Opened(e) ==
  /\ entry' = e
  /\ \E f \in Found(e) : IF f = "next" THEN NextDrive ELSE pc' = f /\ UNCHANGED search

OpenOk ==
  /\ pc = "open" /\ drive \in reg /\ fs.on
  /\ \/ fs.dir # Unread /\ Opened(fs.dir) /\ UNCHANGED fs
     \/ /\ up[Device(fs.drv)]
        /\ Opened(disk[fs.drv].file)
        /\ fs' = [fs EXCEPT !.dir = disk[fs.drv].file]
  /\ UNCHANGED <<up, disk, cur, reg, cfg, payload, visits, failed, touched>>

\* An error is not "no such file": the search ends with it.
OpenFail ==
  /\ pc = "open"
  /\ pc' = Caller
  /\ fs' = [fs EXCEPT !.dir = Unread]
  /\ failed' = (failed \/ up[Device(fs.drv)])
  /\ UNCHANGED <<up, disk, cur, reg, cfg, search, entry, payload, visits, touched>>

\* Seeded fault: the file is read without a look at its size.
Fits_Any == TRUE

Fits == entry # TooLarge

\* read_payload and launch_payload: the file is read from the volume fs is for;
\* deinit unmounts and ends both storages.
ReadOk ==
  /\ pc = "read" /\ Fits /\ up[Device(fs.drv)]
  /\ payload' = [drv |-> fs.drv,
                 ver |-> IF entry = disk[fs.drv].file THEN entry ELSE Mixed]
  /\ reg' = reg \ {cur}
  /\ fs' = [fs EXCEPT !.on = FALSE]
  /\ End(Storages)
  /\ pc' = "launched"
  /\ UNCHANGED <<disk, cur, cfg, search, entry, visits, touched>>

\* Too large, or the device fails or is not up.  The read of an allocation
\* chain takes the directory out of the window.
ReadFail ==
  /\ pc = "read"
  /\ \/ ~Fits /\ UNCHANGED <<fs, failed>>
     \/ /\ Fits
        /\ \E d \in {Unread, fs.dir} : fs' = [fs EXCEPT !.dir = d]
        /\ failed' = (failed \/ up[Device(fs.drv)])
  /\ pc' = "menu"
  /\ UNCHANGED <<up, disk, cur, reg, cfg, search, entry, payload, visits, touched>>

-----------------------------------------------------------------------------
(* The menu: do_menu and its callbacks.                                    *)

Visit == visits < MaxVisits /\ visits' = visits + 1

\* retry_cb.
Retry ==
  /\ pc = "menu" /\ Visit /\ Load
  /\ UNCHANGED <<up, disk, files, cfg, entry, payload, failed, touched>>

\* power_off_cb, rcm_cb, ofw_cb and the time-out of the menu: deinit first.
Leave ==
  /\ pc = "menu"
  /\ pc' \in {"off", "ofw"}
  /\ End(Storages)
  /\ reg' = reg \ {cur}
  /\ fs' = IF cur \in reg THEN [fs EXCEPT !.on = FALSE] ELSE fs
  /\ UNCHANGED <<disk, cur, cfg, search, entry, payload, visits, touched>>

\* toolbox_cb: the eMMC is initialised, and stays so.
OpenToolbox ==
  /\ pc = "menu" /\ Visit
  /\ pc' = "toolbox"
  /\ \/ up' = [up EXCEPT !["emmc"] = TRUE] /\ UNCHANGED failed
     \/ up' = [up EXCEPT !["emmc"] = FALSE] /\ failed' = TRUE
  /\ UNCHANGED <<disk, files, cfg, search, entry, payload, touched>>

\* update_cb looks for its file on any drive.
ToolboxFile ==
  /\ pc = "toolbox" /\ Visit
  /\ want' = "update" /\ all' = TRUE /\ drive' = SD
  /\ pc' = "mount"
  /\ UNCHANGED <<up, disk, files, cfg, entry, payload, failed, touched>>

ToolboxSettings ==
  /\ pc = "toolbox" /\ Visit
  /\ cfg' \in Cfg
  /\ UNCHANGED <<pc, up, disk, files, search, entry, payload, failed, touched>>

LeaveToolbox ==
  /\ pc = "toolbox"
  /\ pc' = "menu"
  /\ UNCHANGED <<up, disk, files, cfg, search, entry, payload, visits, failed, touched>>

\* ums_cb: init_ums_cfg initialises both storages and ends them, and so does a
\* session with the host.  The mounted volume is not told.
OpenUms ==
  /\ pc = "menu" /\ Visit
  /\ pc' = "ums"
  /\ Used({"sd", "emmc"})
  /\ touched' = Drives
  /\ UNCHANGED <<disk, files, cfg, search, entry, payload>>

HostWrites ==
  /\ pc = "ums" /\ Visit
  /\ \E d \in Drives, e \in Entry : disk' = [disk EXCEPT ![d] = [fat |-> TRUE, file |-> e]]
  /\ UNCHANGED <<pc, up, files, cfg, search, entry, payload, failed, touched>>

LeaveUms ==
  /\ pc = "ums"
  /\ pc' = "menu"
  /\ UNCHANGED <<up, disk, files, cfg, search, entry, payload, visits, failed, touched>>

\* The user swaps the SD card while a menu waits.
SwapCard ==
  /\ pc = "menu" /\ Visit
  /\ \E v \in Volume : disk' = [disk EXCEPT ![SD] = v]
  /\ touched' = touched \cup {SD}
  /\ UNCHANGED <<pc, up, files, cfg, search, entry, payload, failed>>

-----------------------------------------------------------------------------
Work ==
  \/ GetCfg \/ Buttons
  \/ MountCached \/ MountOk \/ MountFail \/ OpenOk \/ OpenFail \/ ReadOk \/ ReadFail

User ==
  \/ Retry \/ Leave \/ OpenToolbox \/ ToolboxFile \/ ToolboxSettings \/ LeaveToolbox
  \/ OpenUms \/ HostWrites \/ LeaveUms \/ SwapCard

Next == Work \/ User

Spec == Init /\ [][Next]_vars

\* The processor runs; nothing obliges the user to do anything.
FairSpec == Spec /\ WF_vars(Work)
-----------------------------------------------------------------------------
(* Properties.                                                             *)

\* While the program runs, cur_drive names a volume that FatFs knows and that
\* is the one fs was mounted for: a search that skips the mount may rely on it.
MountCacheSound ==
  pc \notin {"launched", "off", "ofw"} /\ cur # INVALID =>
    cur \in reg /\ fs.on /\ fs.drv = cur

\* What is launched was read from start to end, fits, and is the file that was
\* on the drive, as long as nobody rewrote or swapped it since it was mounted.
LaunchWhole ==
  pc = "launched" =>
    /\ payload.drv \in Drives
    /\ payload.ver \notin {NoFile, TooLarge}
    /\ payload.drv \notin touched => payload.ver = disk[payload.drv].file

\* "automatic": with no failure the payload is the one on the first drive, in
\* the order SD, BOOT1 at 1 MiB, BOOT1, GPP, that has one.  A drive that was
\* swapped or rewritten while it was mounted may be passed over, as its old
\* directory is looked at.
AutomaticOrder ==
  pc = "launched" /\ all /\ ~failed =>
    \A d \in Drives \ touched : d < payload.drv => disk[d].file = NoFile

\* The payload comes from the drive that was chosen in the settings, if one was,
\* with whatever mounted before, by an earlier search or for the toolbox, and
\* whatever failed, was swapped or rewritten since: never from another one
\* (load_payload, open_file_on, mount_drive).
SelectedDrive ==
  pc = "launched" /\ cfg.vol # Automatic => payload.drv = cfg.vol - 1

\* Every search ends: in a launch, the menu or the toolbox.
SearchEnds ==
  pc \in {"boot", "buttons", "mount", "open", "read"} ~>
    pc \in {"menu", "toolbox", "launched", "ofw"}

\* README.md:19: "The payload is loaded from payload.bin in the root directory
\* of the FAT32 partition on the selected boot storage."
LaunchCurrent == pc = "launched" => payload.ver = disk[payload.drv].file
=============================================================================
