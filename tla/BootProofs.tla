----------------------------- MODULE BootProofs ----------------------------
(***************************************************************************)
(* Proofs about Boot, for any contents of the drives, any number of        *)
(* versions and any number of visits to the menu.                          *)
(***************************************************************************)
EXTENDS Boot, TLAPS

-----------------------------------------------------------------------------
(* Types.                                                                  *)

\* The first drive of a search is a drive or one of the numbers that are none.
LEMMA FirstDriveType ==
  ASSUME cfg \in Cfg
  PROVE  FirstDrive \in {SD, BOOT1_1MB, BOOT1, 6} /\ (~Refused => FirstDrive \in Drives)
BY SMT DEF Cfg, FirstDrive, Refused, Automatic, SD, BOOT1_1MB, BOOT1, GPP, Drives

LEMMA DriveFacts ==
  /\ Drives \subseteq 0 .. 6 /\ INVALID \in 0 .. 6 /\ INVALID \notin Drives /\ SD \in Drives
  /\ \A d \in Drives : d < GPP => d + 1 \in Drives
BY SMT DEF Drives, SD, BOOT1_1MB, BOOT1, GPP, INVALID

\* What ends or initialises storages leaves each up or down.
LEMMA UpType ==
  ASSUME TypeOK, NEW devices, End(devices) \/ Used(devices)
  PROVE  up' \in [{"sd", "emmc"} -> BOOLEAN] /\ failed' \in BOOLEAN
BY DEF TypeOK, End, Used

LEMMA EntryFacts ==
  /\ NoFile \in Entry /\ TooLarge \in Entry /\ Mixed \notin Entry /\ Unread \notin Entry
  /\ NoFile # TooLarge
BY BootAssumption, SMT DEF NoFile, TooLarge, Mixed, Unread, Entry

LEMMA InitType == Init => TypeOK
<1> SUFFICES ASSUME Init PROVE TypeOK
  OBVIOUS
<1>1. disk \in [Drives -> Volume] /\ 0 \in 0 .. MaxVisits
  BY BootAssumption, SMT DEF Init
<1>2. cfg \in Cfg
  BY DEF Init, DefaultCfg, Cfg, Automatic
<1>3. fs \in [drv : Drives, on : BOOLEAN, dir : {Unread} \cup Entry]
  BY DriveFacts DEF Init
<1>4. payload \in [drv : Drives \cup {INVALID}, ver : Entry \cup {Mixed}] /\ entry \in Entry
  BY EntryFacts DEF Init, NoPayload
<1> QED BY <1>1, <1>2, <1>3, <1>4, DriveFacts DEF Init, TypeOK, Points

LEMMA NextDriveType ==
  ASSUME TypeOK, NextDrive, drive \in Drives
  PROVE  /\ pc' \in Points /\ drive' \in 0 .. 6
         /\ pc' \in {"mount", "open", "read"} => drive' \in Drives
         /\ all' \in BOOLEAN /\ want' \in {"payload", "update"}
<1>1. CASE all /\ drive < GPP
  BY <1>1, DriveFacts DEF TypeOK, NextDrive, NextOf, Points
<1>2. CASE ~(all /\ drive < GPP)
  BY <1>2 DEF TypeOK, NextDrive, Caller, Points, search
<1> QED BY <1>1, <1>2

LEMMA LoadType ==
  ASSUME TypeOK, Load
  PROVE  /\ pc' \in Points /\ drive' \in 0 .. 6
         /\ pc' \in {"mount", "open", "read"} => drive' \in Drives
         /\ all' \in BOOLEAN /\ want' \in {"payload", "update"}
<1>1. /\ FirstDrive \in {SD, BOOT1_1MB, BOOT1, 6} /\ (~Refused => FirstDrive \in Drives)
  BY FirstDriveType DEF TypeOK
<1>2. FirstDrive \in 0 .. 6
  BY <1>1, SMT DEF SD, BOOT1_1MB, BOOT1
<1> QED BY <1>1, <1>2 DEF Load, Points

LEMMA VisitType == ASSUME TypeOK, Visit PROVE visits' \in 0 .. MaxVisits
BY BootAssumption, SMT DEF TypeOK, Visit

LEMMA StartType == TypeOK /\ (GetCfg \/ Buttons) => TypeOK'
<1>1. TypeOK /\ GetCfg => TypeOK'
  BY UpType DEF TypeOK, GetCfg, Points, files, search
<1>2. TypeOK /\ Buttons => TypeOK'
  <2> SUFFICES ASSUME TypeOK, Buttons PROVE TypeOK'
    OBVIOUS
  <2>1. CASE Load
    BY <2>1, LoadType DEF TypeOK, Buttons, files
  <2>2. CASE UNCHANGED search /\ pc' \in {"ofw", "menu"}
    BY <2>2 DEF TypeOK, Buttons, files, search, Points
  <2> QED BY <2>1, <2>2 DEF Buttons
<1> QED BY <1>1, <1>2

LEMMA MountType == TypeOK /\ (MountCached \/ MountOk \/ MountFail) => TypeOK'
<1> SUFFICES ASSUME TypeOK, MountCached \/ MountOk \/ MountFail PROVE TypeOK'
  OBVIOUS
<1>1. drive \in Drives
  BY DEF TypeOK, MountCached, MountOk, MountFail
<1>2. CASE MountCached
  BY <1>1, <1>2 DEF TypeOK, MountCached, files, search, Points
<1>3. Device(drive) \in {"sd", "emmc"}
  BY DEF Device
<1>4. CASE MountOk
  BY <1>1, <1>3, <1>4 DEF TypeOK, MountOk, Register, search, Points
<1>5. CASE MountFail
  <2>1. up' \in [{"sd", "emmc"} -> BOOLEAN] /\ failed' \in BOOLEAN
    BY <1>3, <1>5 DEF TypeOK, MountFail
  <2>2. /\ pc' \in Points /\ drive' \in 0 .. 6
        /\ pc' \in {"mount", "open", "read"} => drive' \in Drives
        /\ all' \in BOOLEAN /\ want' \in {"payload", "update"}
    BY <1>1, <1>5, NextDriveType DEF MountFail
  <2> QED BY <1>1, <1>5, <2>1, <2>2 DEF TypeOK, MountFail, Register, CurFailed
<1> QED BY <1>2, <1>4, <1>5

\* What a search does with a directory entry.
LEMMA OpenedType ==
  ASSUME TypeOK, drive \in Drives, NEW e \in Entry, Opened(e)
  PROVE  /\ entry' = e
         /\ pc' \in Points /\ drive' \in 0 .. 6
         /\ pc' \in {"mount", "open", "read"} => drive' \in Drives
         /\ all' \in BOOLEAN /\ want' \in {"payload", "update"}
<1>1. CASE NextDrive
  BY <1>1, NextDriveType DEF Opened
<1>2. CASE UNCHANGED search /\ pc' \in {"read", "toolbox"}
  BY <1>2 DEF TypeOK, Opened, search, Points
<1> QED BY <1>1, <1>2 DEF Opened, Found

LEMMA OpenType == TypeOK /\ (OpenOk \/ OpenFail) => TypeOK'
<1> SUFFICES ASSUME TypeOK, OpenOk \/ OpenFail PROVE TypeOK'
  OBVIOUS
<1>1. drive \in Drives
  BY DEF TypeOK, OpenOk, OpenFail
<1>2. CASE OpenOk
  <2>1. \E e \in Entry : Opened(e) /\ (fs' = fs \/ fs' = [fs EXCEPT !.dir = e])
    BY <1>2 DEF TypeOK, OpenOk, Volume
  <2>2. PICK e \in Entry : Opened(e) /\ (fs' = fs \/ fs' = [fs EXCEPT !.dir = e])
    BY <2>1
  <2>3. fs' \in [drv : Drives, on : BOOLEAN, dir : {Unread} \cup Entry]
    BY <2>2 DEF TypeOK
  <2> QED BY <1>1, <1>2, <2>2, <2>3, OpenedType DEF TypeOK, OpenOk
<1>3. CASE OpenFail
  BY <1>1, <1>3 DEF TypeOK, OpenFail, Caller, Points, search
<1> QED BY <1>2, <1>3

LEMMA ReadType == TypeOK /\ (ReadOk \/ ReadFail) => TypeOK'
<1> SUFFICES ASSUME TypeOK, ReadOk \/ ReadFail PROVE TypeOK'
  OBVIOUS
<1>1. drive \in Drives
  BY DEF TypeOK, ReadOk, ReadFail
<1>2. CASE ReadOk
  <2>1. payload' \in [drv : Drives \cup {INVALID}, ver : Entry \cup {Mixed}]
    BY <1>1, <1>2 DEF TypeOK, ReadOk
  <2> QED BY <1>2, <2>1, UpType DEF TypeOK, ReadOk, search, Points
<1>3. CASE ReadFail
  BY <1>1, <1>3 DEF TypeOK, ReadFail, search, Points
<1> QED BY <1>2, <1>3

LEMMA UserType == TypeOK /\ User => TypeOK'
<1> SUFFICES ASSUME TypeOK, User PROVE TypeOK'
  OBVIOUS
<1>1. CASE Retry
  BY <1>1, LoadType, VisitType DEF TypeOK, Retry, files
<1>2. CASE Leave
  BY <1>2, UpType DEF TypeOK, Leave, search, Points
<1>3. CASE OpenToolbox
  BY <1>3, VisitType DEF TypeOK, OpenToolbox, files, search, Points
<1>4. CASE ToolboxFile
  BY <1>4, VisitType, DriveFacts DEF TypeOK, ToolboxFile, files, Points
<1>5. CASE ToolboxSettings
  BY <1>5, VisitType DEF TypeOK, ToolboxSettings, files, search
<1>6. CASE LeaveToolbox \/ LeaveUms
  BY <1>6 DEF TypeOK, LeaveToolbox, LeaveUms, files, search, Points
<1>7. CASE OpenUms
  BY <1>7, VisitType, UpType DEF TypeOK, OpenUms, files, search, Points
<1>8. CASE HostWrites
  <2>1. \A e \in Entry : [fat |-> TRUE, file |-> e] \in Volume
    BY DEF Volume
  <2>2. disk' \in [Drives -> Volume]
    BY <1>8, <2>1 DEF TypeOK, HostWrites
  <2> QED BY <1>8, <2>2, VisitType DEF TypeOK, HostWrites, files, search
<1>9. CASE SwapCard
  <2>1. disk' \in [Drives -> Volume]
    BY <1>9, DriveFacts DEF TypeOK, SwapCard
  <2> QED BY <1>9, <2>1, VisitType, DriveFacts DEF TypeOK, SwapCard, files, search
<1> QED BY <1>1, <1>2, <1>3, <1>4, <1>5, <1>6, <1>7, <1>8, <1>9 DEF User

LEMMA StepType == TypeOK /\ [Next]_vars => TypeOK'
<1>1. TypeOK /\ UNCHANGED vars => TypeOK'
  BY DEF TypeOK, vars, files, search
<1> QED BY <1>1, StartType, MountType, OpenType, ReadType, UserType DEF Next, Work

\* The state keeps its types: a search that opens or reads is at one of the
\* four drives, whatever the settings say.
THEOREM TypesHold == Spec => []TypeOK
BY InitType, StepType, PTL DEF Spec

-----------------------------------------------------------------------------
(* The mount cache.                                                        *)

LEMMA CacheStep == TypeOK /\ MountCacheSound /\ [Next]_vars => MountCacheSound'
<1> SUFFICES ASSUME TypeOK, MountCacheSound, [Next]_vars PROVE MountCacheSound'
  OBVIOUS
<1>1. CASE MountOk
  BY <1>1 DEF TypeOK, MountOk, Mounted, MountCacheSound, Register
<1>2. CASE MountFail
  BY <1>2 DEF MountFail, MountCacheSound, CurFailed
<1>3. CASE OpenOk \/ OpenFail \/ ReadFail
  <2>1. UNCHANGED <<cur, reg>>
    BY <1>3 DEF OpenOk, OpenFail, ReadFail
  <2>2. fs'.on = fs.on /\ fs'.drv = fs.drv /\ pc \in {"open", "read"}
    BY <1>3 DEF TypeOK, OpenOk, OpenFail, ReadFail
  <2> QED BY <2>1, <2>2 DEF MountCacheSound
<1>4. CASE ReadOk \/ Leave
  BY <1>4 DEF ReadOk, Leave, MountCacheSound
<1>5. CASE \/ UNCHANGED vars \/ GetCfg \/ Buttons \/ MountCached \/ Retry \/ OpenToolbox
           \/ ToolboxFile \/ ToolboxSettings \/ LeaveToolbox \/ OpenUms \/ HostWrites
           \/ LeaveUms \/ SwapCard
  <2>1. UNCHANGED files /\ (pc' = pc \/ pc \notin {"launched", "off", "ofw"})
    BY <1>5 DEF vars, GetCfg, Buttons, MountCached, Retry, OpenToolbox, ToolboxFile,
                ToolboxSettings, LeaveToolbox, OpenUms, HostWrites, LeaveUms, SwapCard
  <2> QED BY <2>1 DEF MountCacheSound, files
<1> QED BY <1>1, <1>2, <1>3, <1>4, <1>5 DEF Next, Work, User

\* cur_drive is the volume FatFs is mounted for, whatever fails, is swapped or is
\* exported in between (mount_drive, unmount_drive, deinit).
THEOREM MountCacheSoundHolds == Spec => []MountCacheSound
<1>1. Init => MountCacheSound
  BY DEF Init, MountCacheSound
<1> QED BY <1>1, InitType, StepType, CacheStep, PTL DEF Spec

-----------------------------------------------------------------------------
(* The search and the launch.                                              *)

\* What the search is at has been mounted and found.
AtMounted == pc \in {"open", "read"} => cur = drive
AtFound == pc = "read" => want = "payload" /\ entry # NoFile /\ entry = fs.dir

\* The directory in the window is the one on the drive, unless that was touched.
WindowCurrent == fs.dir # Unread /\ fs.drv \notin touched => fs.dir = disk[fs.drv].file

\* The host may rewrite any drive.
AllTouched == pc = "ums" => touched = Drives

\* A payload search on all drives has passed only drives without a payload.
Passed ==
  pc \in {"mount", "open", "read"} /\ all /\ want = "payload" /\ ~failed =>
    \A d \in Drives \ touched : d < drive => disk[d].file = NoFile

\* A payload search with a drive chosen in the settings is at that drive and
\* goes on to no other.
AtSelected ==
  pc \in {"mount", "open", "read"} /\ want = "payload" /\ cfg.vol # Automatic =>
    ~all /\ drive = cfg.vol - 1

IInv ==
  /\ TypeOK /\ MountCacheSound /\ AtMounted /\ AtFound /\ WindowCurrent /\ AllTouched /\ Passed
  /\ AtSelected
  /\ LaunchWhole /\ AutomaticOrder /\ SelectedDrive

LEMMA InvInit == Init => IInv
<1> SUFFICES ASSUME Init PROVE IInv
  OBVIOUS
<1>1. /\ TypeOK /\ MountCacheSound /\ AtMounted /\ AtFound /\ AllTouched /\ Passed
      /\ AtSelected /\ LaunchWhole /\ AutomaticOrder /\ SelectedDrive
  BY InitType DEF Init, MountCacheSound, AtMounted, AtFound, AllTouched, Passed, AtSelected,
                  LaunchWhole, AutomaticOrder, SelectedDrive
<1>2. WindowCurrent
  BY DEF Init, WindowCurrent
<1> QED BY <1>1, <1>2 DEF IInv

\* A search begins with no drive passed, or with one drive only.
LEMMA LoadPassed == ASSUME TypeOK, Load PROVE Passed'
<1>1. all' => drive' = 0
  BY DEF Load, FirstDrive, SD
<1>2. \A d \in Drives : ~(d < 0)
  BY SMT DEF Drives, SD, BOOT1_1MB, BOOT1, GPP
<1> QED BY <1>1, <1>2 DEF Passed

\* The next drive: this one has no payload.
LEMMA NextPassed ==
  ASSUME TypeOK, Passed, pc \in {"mount", "open"}, NextDrive, UNCHANGED disk,
         drive \in Drives, touched' = touched \/ touched' = touched \ {drive},
         failed => failed',
         ~failed' /\ all /\ want = "payload" /\ drive \notin touched' => disk[drive].file = NoFile
  PROVE  Passed'
<1> SUFFICES ASSUME pc' \in {"mount", "open", "read"}, all', want' = "payload", ~failed',
                    NEW d \in Drives \ touched', d < drive'
             PROVE  disk'[d].file = NoFile
  BY DEF Passed
<1>1. all /\ drive < GPP /\ drive' = drive + 1 /\ want = "payload" /\ all
  BY DEF NextDrive, NextOf, Caller
<1>2. d < drive \/ d = drive
  BY <1>1, SMT DEF Drives, SD, BOOT1_1MB, BOOT1, GPP
<1>3. CASE d < drive
  <2>1. d # drive
    BY <1>3, SMT DEF Drives, SD, BOOT1_1MB, BOOT1, GPP
  <2> QED BY <1>1, <1>3, <2>1 DEF Passed
<1>4. CASE d = drive
  BY <1>1, <1>4
<1> QED BY <1>2, <1>3, <1>4

\* A search stays at the drive that was chosen.
LEMMA SearchSelected ==
  ASSUME AtSelected, pc \in {"mount", "open"}, NextDrive \/ UNCHANGED search, UNCHANGED cfg
  PROVE  AtSelected'
BY DEF AtSelected, NextDrive, Caller, search

LEMMA MountInv == ASSUME IInv, MountCached \/ MountOk \/ MountFail PROVE IInv'
<1> USE DEF IInv
<1>1. TypeOK' /\ MountCacheSound'
  BY StepType, CacheStep DEF Next, Work
<1>2. pc' # "launched" /\ pc' # "ums" /\ drive \in Drives
  BY DEF TypeOK, MountCached, MountOk, MountFail, NextDrive, Caller
<1>3. LaunchWhole' /\ AutomaticOrder' /\ SelectedDrive' /\ AllTouched'
  BY <1>2 DEF LaunchWhole, AutomaticOrder, SelectedDrive, AllTouched
<1>4. AtMounted' /\ AtFound'
  <2>1. pc' # "read"
    BY DEF MountCached, MountOk, MountFail, NextDrive, Caller
  <2>2. CASE MountCached
    BY <2>1, <2>2 DEF AtMounted, AtFound, MountCached, Mounted, search, files
  <2>3. CASE MountOk
    BY <2>1, <2>3 DEF AtMounted, AtFound, MountOk, Mounted, search
  <2>4. CASE MountFail
    <3>1. pc' \in {"mount", "menu", "toolbox"}
      BY <2>4 DEF MountFail, NextDrive, Caller
    <3> QED BY <3>1 DEF AtMounted, AtFound
  <2> QED BY <2>2, <2>3, <2>4
<1>5. WindowCurrent' /\ AtSelected'
  <2>1. pc = "mount" /\ (NextDrive \/ UNCHANGED search) /\ UNCHANGED cfg
    BY DEF MountCached, MountOk, MountFail
  <2>2. AtSelected'
    BY <2>1, SearchSelected
  <2> QED BY <2>2 DEF WindowCurrent, MountCached, MountOk, MountFail, files
<1>6. CASE MountFail
  <2>1. failed => failed'
    BY <1>6 DEF MountFail
  <2>2. ~failed' => disk[drive].file = NoFile
    BY <1>2, <1>6 DEF MountFail, TypeOK, Volume
  <2>3. Passed'
    BY <1>2, <1>6, <2>1, <2>2, NextPassed DEF MountFail
  <2> QED BY <1>1, <1>3, <1>4, <1>5, <2>3
<1>7. CASE MountCached \/ MountOk
  <2>1. /\ pc = "mount" /\ UNCHANGED <<disk, drive, all, want, failed>>
        /\ touched' = touched \/ touched' = touched \ {drive}
    BY <1>7 DEF MountCached, MountOk, search
  <2>2. \A d \in Drives : d < drive => d # drive
    BY SMT DEF Drives, SD, BOOT1_1MB, BOOT1, GPP
  <2>3. Passed'
    BY <2>1, <2>2 DEF Passed
  <2> QED BY <1>1, <1>3, <1>4, <1>5, <2>3
<1> QED BY <1>6, <1>7

LEMMA OpenInv == ASSUME IInv, OpenOk \/ OpenFail PROVE IInv'
<1> USE DEF IInv
<1>1. TypeOK' /\ MountCacheSound'
  BY StepType, CacheStep DEF Next, Work
<1>2. /\ pc = "open" /\ pc' \notin {"launched", "ums"} /\ drive \in Drives
      /\ UNCHANGED <<disk, cur, touched>>
  BY DEF TypeOK, OpenOk, OpenFail, Opened, Found, NextDrive, Caller
<1>3. LaunchWhole' /\ AutomaticOrder' /\ SelectedDrive' /\ AllTouched'
  BY <1>2 DEF LaunchWhole, AutomaticOrder, SelectedDrive, AllTouched
<1>4. cur = drive /\ fs.drv = drive /\ AtSelected'
  <2>1. NextDrive \/ UNCHANGED search
    BY DEF OpenOk, OpenFail, Opened, Found
  <2>2. UNCHANGED cfg
    BY DEF OpenOk, OpenFail
  <2> QED BY <1>2, <2>1, <2>2, DriveFacts, SearchSelected DEF AtMounted, MountCacheSound
<1>5. CASE OpenFail
  BY <1>1, <1>2, <1>3, <1>4, <1>5
     DEF OpenFail, AtMounted, AtFound, WindowCurrent, Passed, Caller, search, TypeOK
<1>6. CASE OpenOk
  <2>1. PICK e \in Entry : /\ Opened(e) /\ fs'.dir = e /\ fs'.drv = fs.drv
                           /\ (e = fs.dir /\ fs.dir # Unread) \/ e = disk[drive].file
    BY <1>2, <1>4, <1>6 DEF TypeOK, OpenOk, Volume
  <2>2. drive \notin touched => e = disk[drive].file
    BY <1>4, <2>1 DEF WindowCurrent
  <2>3. WindowCurrent'
    BY <1>2, <1>4, <2>1, <2>2 DEF WindowCurrent
  <2>4. CASE UNCHANGED search /\ pc' = "read"
    <3>1. want = "payload" /\ e # NoFile
      BY <1>2, <2>1, <2>4 DEF Opened, Found, NextDrive, Caller
    <3>2. AtMounted' /\ AtFound'
      BY <1>2, <1>4, <2>1, <2>4, <3>1 DEF AtMounted, AtFound, Opened, search
    <3>3. Passed'
      BY <1>2, <1>6, <2>4 DEF Passed, OpenOk, search
    <3> QED BY <1>1, <1>3, <1>4, <2>3, <3>2, <3>3
  <2>5. CASE UNCHANGED search /\ pc' = "toolbox"
    BY <1>1, <1>3, <1>4, <2>3, <2>5 DEF AtMounted, AtFound, Passed
  <2>6. CASE NextDrive /\ "next" \in Found(e)
    <3>1. AtMounted' /\ AtFound'
      BY <2>6 DEF AtMounted, AtFound, NextDrive, Caller
    <3>2. want = "payload" => e = NoFile
      BY <2>6 DEF Found
    <3>3. Passed'
      BY <1>2, <1>6, <2>2, <2>6, <3>2, NextPassed DEF OpenOk
    <3> QED BY <1>1, <1>3, <1>4, <2>3, <3>1, <3>3
  <2> QED BY <2>1, <2>4, <2>5, <2>6 DEF Opened, Found
<1> QED BY <1>5, <1>6

LEMMA ReadInv == ASSUME IInv, ReadOk \/ ReadFail PROVE IInv'
<1> USE DEF IInv
<1>1. TypeOK' /\ MountCacheSound'
  BY StepType, CacheStep DEF Next, Work
<1>2. /\ pc = "read" /\ drive \in Drives /\ cur = drive /\ fs.drv = drive
      /\ want = "payload" /\ entry # NoFile /\ entry = fs.dir /\ entry \in Entry
      /\ UNCHANGED <<disk, touched, drive, all>>
  BY DriveFacts DEF TypeOK, ReadOk, ReadFail, AtMounted, AtFound, MountCacheSound, search
<1>3. AtMounted' /\ AtFound' /\ AllTouched' /\ Passed' /\ AtSelected'
  BY DEF ReadOk, ReadFail, AtMounted, AtFound, AllTouched, Passed, AtSelected
<1>4. WindowCurrent'
  BY DEF ReadOk, ReadFail, WindowCurrent, TypeOK
<1>5. CASE ReadFail
  <2>1. LaunchWhole' /\ AutomaticOrder' /\ SelectedDrive'
    BY <1>5 DEF ReadFail, LaunchWhole, AutomaticOrder, SelectedDrive
  <2> QED BY <1>1, <1>3, <1>4, <2>1
<1>6. CASE ReadOk
  <2>1. /\ payload'.drv = drive
        /\ payload'.ver = IF entry = disk[drive].file THEN entry ELSE Mixed
        /\ entry # TooLarge
    BY <1>2, <1>6 DEF ReadOk, Fits
  <2>2. drive \notin touched => entry = disk[drive].file
    BY <1>2, EntryFacts DEF WindowCurrent
  <2>3. LaunchWhole'
    BY <1>2, <2>1, <2>2, EntryFacts DEF LaunchWhole
  <2>4. failed => failed'
    BY <1>6 DEF ReadOk, End
  <2>5. AutomaticOrder'
    BY <1>2, <2>1, <2>4 DEF AutomaticOrder, Passed
  <2>6. SelectedDrive'
    <3>1. UNCHANGED cfg
      BY <1>6 DEF ReadOk
    <3> QED BY <1>2, <2>1, <3>1 DEF AtSelected, SelectedDrive
  <2> QED BY <1>1, <1>3, <1>4, <2>3, <2>5, <2>6
<1> QED BY <1>5, <1>6

\* A search begins at the drive that was chosen.
LEMMA LoadSelected == ASSUME Load, UNCHANGED cfg PROVE AtSelected'
BY DEF Load, FirstDrive, AtSelected

\* Everything else happens outside a search.
LEMMA OutsideInv == ASSUME IInv, GetCfg \/ Buttons \/ User PROVE IInv'
<1> USE DEF IInv
<1>1. TypeOK' /\ MountCacheSound'
  BY StepType, CacheStep DEF Next, Work
<1>2. pc' # "launched" /\ pc' \notin {"open", "read"}
  BY DEF GetCfg, Buttons, Load, User, Retry, Leave, OpenToolbox, ToolboxFile, ToolboxSettings,
         LeaveToolbox, OpenUms, HostWrites, LeaveUms, SwapCard
<1>3. LaunchWhole' /\ AutomaticOrder' /\ SelectedDrive' /\ AtMounted' /\ AtFound'
  BY <1>2 DEF LaunchWhole, AutomaticOrder, SelectedDrive, AtMounted, AtFound
<1>4. AllTouched'
  BY DEF AllTouched, GetCfg, Buttons, Load, User, Retry, Leave, OpenToolbox, ToolboxFile,
         ToolboxSettings, LeaveToolbox, OpenUms, HostWrites, LeaveUms, SwapCard
<1>5. WindowCurrent'
  <2>1. CASE HostWrites \/ SwapCard \/ OpenUms
    <3>1. fs \in [drv : Drives, on : BOOLEAN, dir : {Unread} \cup Entry] /\ UNCHANGED fs
      BY <2>1 DEF TypeOK, HostWrites, SwapCard, OpenUms, files
    <3>2. fs.drv \in Drives
      BY <3>1
    <3>3. CASE HostWrites \/ OpenUms
      BY <3>1, <3>2, <3>3 DEF HostWrites, OpenUms, AllTouched, WindowCurrent
    <3>4. CASE SwapCard
      <4>1. touched' = touched \cup {SD} /\ \A d \in Drives \ {SD} : disk'[d] = disk[d]
        BY <3>4 DEF SwapCard, TypeOK
      <4> QED BY <3>1, <3>2, <4>1 DEF WindowCurrent
    <3> QED BY <2>1, <3>3, <3>4
  <2>2. CASE ~(HostWrites \/ SwapCard \/ OpenUms)
    <3>1. UNCHANGED <<disk, touched>> /\ fs'.dir = fs.dir /\ fs'.drv = fs.drv
      BY <2>2 DEF TypeOK, GetCfg, Buttons, User, Retry, Leave, OpenToolbox, ToolboxFile,
                  ToolboxSettings, LeaveToolbox, LeaveUms, files
    <3> QED BY <3>1 DEF WindowCurrent
  <2> QED BY <2>1, <2>2
<1>6. Passed' /\ AtSelected'
  <2>1. CASE Load
    <3>1. UNCHANGED cfg
      BY <2>1 DEF GetCfg, Buttons, Load, User, Retry, Leave, OpenToolbox, ToolboxFile,
                  ToolboxSettings, LeaveToolbox, OpenUms, HostWrites, LeaveUms, SwapCard
    <3> QED BY <2>1, <3>1, LoadPassed, LoadSelected
  <2>2. CASE ToolboxFile
    BY <2>2 DEF ToolboxFile, Passed, AtSelected
  <2>3. CASE ~Load /\ ~ToolboxFile
    <3>1. pc' # "mount"
      BY <2>3 DEF GetCfg, Buttons, User, Retry, Leave, OpenToolbox, ToolboxSettings,
                  LeaveToolbox, OpenUms, HostWrites, LeaveUms, SwapCard
    <3> QED BY <1>2, <3>1 DEF Passed, AtSelected
  <2> QED BY <2>1, <2>2, <2>3
<1> QED BY <1>1, <1>3, <1>4, <1>5, <1>6

LEMMA InvStep == IInv /\ [Next]_vars => IInv'
<1>1. IInv /\ UNCHANGED vars => IInv'
  BY StepType, CacheStep
     DEF IInv, vars, files, search, AtMounted, AtFound, WindowCurrent, AllTouched, Passed,
         AtSelected, LaunchWhole, AutomaticOrder, SelectedDrive
<1> QED BY <1>1, MountInv, OpenInv, ReadInv, OutsideInv DEF Next, Work

\* The inductive invariant that the three theorems below are parts of.
THEOREM SearchInvariant == Spec => []IInv
BY InvInit, InvStep, PTL DEF Spec

\* What is launched fits, was found in a directory, and is the file on the drive
\* as long as that was not touched since its mount (read_payload).
THEOREM LaunchWholeHolds == Spec => []LaunchWhole
BY SearchInvariant, PTL DEF IInv

\* Without failures an automatic launch passes over no payload on an earlier
\* drive, unless that drive was touched while mounted (open_file_on_any).
THEOREM AutomaticOrderHolds == Spec => []AutomaticOrder
BY SearchInvariant, PTL DEF IInv

\* A payload comes from the drive chosen in the settings, whatever was mounted
\* before it (open_file_on, mount_drive).
THEOREM SelectedDriveHolds == Spec => []SelectedDrive
BY SearchInvariant, PTL DEF IInv
=============================================================================
