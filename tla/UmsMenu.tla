------------------------------ MODULE UmsMenu ------------------------------
(***************************************************************************)
(* The USB mass storage menu: which part of each storage the USB host will *)
(* be given.  sdloader/ums.c, with the walk over the entries of a menu     *)
(* from gfx/tui.c.                                                         *)
(*                                                                         *)
(* Sector numbers are u32 in the code.  Here they are words of Digits      *)
(* digits in base Base, and arithmetic wraps at Word.                      *)
(***************************************************************************)
EXTENDS Integers, Sequences

CONSTANTS
  Base, Digits,   \* of a word; 256 and 4 in the code
  BootSize,       \* sectors of a boot partition, 0x2000
  MaxParts,       \* entries of part_table_t, 30; an MBR has 4
  Gpp,            \* the user area of the eMMC, a disk
  Cards,          \* the SD cards the user has, disks
  NoCard,         \* the slot is empty
  Used,           \* bound: the volumes the user opens
  MaxSwaps        \* bound: changes of the card

Word == Base ^ Digits

Volumes == {"sd", "gpp", "boot0", "boot1"}

(* A disk: its sectors, its partitions as <<first sector, sectors>>, and   *)
(* whether a GPT or an MBR lists them.                                     *)
Sane(d) ==
  /\ d.sectors \in 1 .. Word - 1 /\ d.gpt \in BOOLEAN
  /\ d.parts \in Seq((0 .. Word - 1) \X (1 .. Word - 1))
  /\ \A i \in DOMAIN d.parts : d.parts[i][1] + d.parts[i][2] <= d.sectors

ASSUME UmsAssumption ==
  /\ Base \in Nat \ {0, 1} /\ Digits \in Nat \ {0}
  /\ BootSize \in 1 .. Word - 1 /\ MaxParts \in Nat /\ MaxParts >= 4 /\ MaxSwaps \in Nat
  /\ Sane(Gpp) /\ NoCard \notin Cards /\ \A c \in Cards : Sane(c)
  /\ Used \subseteq Volumes

\* What the proofs use of the powers of Base.
ASSUME PowerAssumption ==
  /\ \A i \in 0 .. Digits : Base ^ i \in Nat \ {0} /\ (i > 0 => Base ^ i >= Base)
  /\ \A i \in 0 .. Digits - 1 : Word = Base ^ i * (Base * Base ^ (Digits - 1 - i))

VARIABLES
  cfg,      \* volume_cfgs
  errors,   \* storage_state: the storages that did not come up
  greyed,   \* the disabled entries of the main menu
  vgreyed,  \* the disabled entries of the volume menu
  at,       \* the menu that is waiting for a button
  cursor,   \* menu->selected of the main menu
  vcursor,  \* and of the volume menu
  vol,      \* the volume whose menu is open
  sel,      \* the number selector: field, maximum, digit, value
  seen,     \* the partition table read last; the code drops it on leaving
  card,     \* in the SD slot
  settled,  \* history: since the last (re)load of the menu, each reading of
            \* the volume succeeded and found the same disk
  swaps     \* bound

settings == <<cfg, errors, greyed, vgreyed, vol, seen, settled>>
vars == <<settings, at, cursor, vcursor, sel, card, swaps>>

-----------------------------------------------------------------------------
(* Menus: the entries that can be selected, from top to bottom.            *)

MainEntries == <<"sd", "gpp", "boot0", "boot1", "start", "reload", "back">>
VolumeEntries == <<"mount", "mode", "part", "offset", "size", "back">>

\* The places of the entries that are not disabled (tui_entry_is_selectable).
Live(entries, off) == {i \in DOMAIN entries : entries[i] \notin off}

\* Seeded fault: the first entry is selected whether or not it is disabled.
First_Any(entries, off) == 1

First(entries, off) ==
  CHOOSE i \in Live(entries, off) : \A j \in Live(entries, off) : i <= j

\* VOL- : the next one that can be selected; VOL+ : the one before.
Steps(entries, off, i) ==
  {j \in Live(entries, off) :
     \/ j > i /\ \A k \in Live(entries, off) : k > i => j <= k
     \/ j < i /\ \A k \in Live(entries, off) : k < i => k <= j}

-----------------------------------------------------------------------------
Sub(a, b) == (a - b) % Word
Least(a, b) == IF a < b THEN a ELSE b

NoTable == [n |-> 0, parts |-> <<>>]

\* The table read from a disk: n_parts is the number of GPT entries, but the
\* index of the last partition of an MBR.
Table(d) ==
  LET kept == SubSeq(d.parts, 1, Least(IF d.gpt THEN MaxParts ELSE 4, Len(d.parts)))
  IN  [n |-> IF d.gpt \/ kept = <<>> THEN Len(kept) ELSE Len(kept) - 1,
       parts |-> kept]

\* parts[p]: the entries after the last one are zero.
Entry(t, p) == IF p < Len(t.parts) THEN t.parts[p + 1] ELSE <<0, 0>>

\* Seeded fault: the size is not cut to what is left after the offset.
SizeUpdate_Kept(c) == IF c.size = 0 THEN [c EXCEPT !.size = Sub(c.phys, c.offset)] ELSE c

SizeUpdate(c) ==
  LET s == Least(c.size, Sub(c.phys, c.offset))
  IN  [c EXCEPT !.size = IF s = 0 THEN Sub(c.phys, c.offset) ELSE s]

Mounted(c) == c.mount # "no"

\* The part of the code that reads the partition into offset and size, with
\* the updates of these two that follow it.
PartUpdate(c, t) ==
  IF c.mode = "part" /\ Mounted(c)
  THEN SizeUpdate([c EXCEPT !.offset = Entry(t, c.part)[1], !.size = Entry(t, c.part)[2]])
  ELSE SizeUpdate(c)

\* Seeded fault: the mode is kept when the disk has no table.
ModeUpdate_Kept(c, t) == PartUpdate(c, t)

\* Seeded fault: the new mode takes effect with the next partition only.
ModeUpdate_Late(c, t) == SizeUpdate(IF t.n = 0 THEN [c EXCEPT !.mode = "offset"] ELSE c)

ModeUpdate(c, t) ==
  PartUpdate(IF t.n = 0 THEN [c EXCEPT !.mode = "offset"] ELSE c, t)

\* The entries of the volume menu the updates leave disabled.
Greyed(c, t) ==
  IF ~Mounted(c) THEN {"mode", "part", "offset", "size"}
  ELSE (IF t.n = 0 THEN {"mode"} ELSE {})
       \cup (IF c.mode = "part" THEN {"offset", "size"} ELSE {"part"})

Storage(v) == IF v = "sd" THEN "sd" ELSE "emmc"

\* Seeded fault: Start asks for a storage that came up, not for a volume.
VolumeUpdate_Storage(c, bad) ==
  (IF bad = {"sd", "emmc"} THEN {"start"} ELSE {}) \cup {v \in Volumes : Storage(v) \in bad}

\* config_volume_update: the entries of the main menu that are disabled.
VolumeUpdate(c, bad) ==
  (IF \A v \in Volumes : ~Mounted(c[v]) THEN {"start"} ELSE {})
  \cup {v \in Volumes : Storage(v) \in bad}

-----------------------------------------------------------------------------
\* The selector keeps nothing between two uses.
Idle == [field |-> "offset", max |-> 0, digit |-> 0, val |-> 0]

Blank == [mount |-> "no", mode |-> "offset", part |-> 0,
          offset |-> 0, size |-> 0, phys |-> 0]

\* init_ums_cfg: all is cleared, the storages are tried; only the SD card is
\* mounted.  An empty slot fails.
Fresh(bad) ==
  /\ card = NoCard => "sd" \in bad
  /\ errors' = bad
  /\ cfg' = [v \in Volumes |-> IF v = "sd" /\ "sd" \notin bad
                               THEN [Blank EXCEPT !.mount = "rw"] ELSE Blank]
  /\ greyed' = VolumeUpdate(cfg', bad)
  /\ seen' = [v \in Volumes |-> NoTable]
  /\ settled' = [v \in Volumes |-> TRUE]
  /\ UNCHANGED <<vgreyed, vol>>

Init ==
  /\ card \in Cards \cup {NoCard}
  /\ at = "left" /\ errors = {} /\ greyed = {} /\ vgreyed = {}
  /\ cfg = [v \in Volumes |-> Blank]
  /\ cursor = Len(MainEntries) /\ vcursor = Len(VolumeEntries) /\ vol = "sd"
  /\ sel = Idle
  /\ seen = [v \in Volumes |-> NoTable]
  /\ settled = [v \in Volumes |-> TRUE]
  /\ swaps = 0

\* The user changes the card.
Swap ==
  /\ swaps < MaxSwaps /\ swaps' = swaps + 1
  /\ card' \in (Cards \cup {NoCard}) \ {card}
  /\ UNCHANGED <<settings, at, cursor, vcursor, sel>>

\* ums(): the menu is opened from the main menu of the program.
Open ==
  /\ at = "left" /\ at' = "main"
  /\ \E bad \in SUBSET {"sd", "emmc"} : Fresh(bad)
  /\ cursor' = First(MainEntries, greyed')
  /\ UNCHANGED <<vcursor, sel, card, swaps>>

Reload ==
  /\ at = "main" /\ MainEntries[cursor] = "reload"
  /\ \E bad \in SUBSET {"sd", "emmc"} : Fresh(bad)
  /\ UNCHANGED <<at, cursor, vcursor, sel, card, swaps>>

\* VOL+ and VOL- in either menu.
Navigate ==
  \/ /\ at = "main" /\ cursor' \in Steps(MainEntries, greyed, cursor)
     /\ UNCHANGED <<settings, at, vcursor, sel, card, swaps>>
  \/ /\ at = "volume" /\ vcursor' \in Steps(VolumeEntries, vgreyed, vcursor)
     /\ UNCHANGED <<settings, at, cursor, sel, card, swaps>>

\* Back, and the USB session of Start, which leaves the menu as it was.
Leave ==
  /\ at = "main" /\ MainEntries[cursor] = "back"
  /\ at' = "left"
  /\ UNCHANGED <<settings, cursor, vcursor, sel, card, swaps>>

Start ==
  /\ at = "main" /\ MainEntries[cursor] = "start" /\ "start" \notin greyed
  /\ at' = "session"
  /\ UNCHANGED <<settings, cursor, vcursor, sel, card, swaps>>

SessionEnds ==
  /\ at = "session" /\ at' = "main"
  /\ UNCHANGED <<settings, cursor, vcursor, sel, card, swaps>>

-----------------------------------------------------------------------------
(* The menu of a volume.                                                   *)

\* The settings of volume v become c; t is its partition table.
Apply(v, c, t) ==
  /\ cfg' = [cfg EXCEPT ![v] = c]
  /\ greyed' = VolumeUpdate(cfg', errors)
  /\ vgreyed' = Greyed(c, t)

\* volume_load_part_table for a storage that can be read, and one that
\* cannot.  The size chosen earlier is replaced by that of the volume.
Loaded(v, d) == [cfg[v] EXCEPT !.phys = d.sectors, !.size = d.sectors]

Disk(v) == CASE v = "sd" -> card [] v = "gpp" -> Gpp
             [] OTHER -> [sectors |-> BootSize, parts |-> <<>>, gpt |-> FALSE]

\* config_volume_cb: the table is read at each visit and the settings are
\* brought in line with it (config_mount_mode_update).
Visit(v, readable) ==
  LET t == IF readable THEN Table(Disk(v)) ELSE NoTable
      c == IF readable THEN Loaded(v, Disk(v)) ELSE [cfg[v] EXCEPT !.phys = 0]
  IN  /\ at = "main" /\ MainEntries[cursor] = v /\ v \in Used /\ v \notin greyed
      /\ readable => Disk(v) # NoCard
      /\ v \in {"boot0", "boot1"} => readable
      /\ at' = "volume" /\ vol' = v
      /\ Apply(v, ModeUpdate(c, t), t)
      /\ seen' = [seen EXCEPT ![v] = t]
      /\ settled' = [settled EXCEPT ![v] = /\ @ /\ readable
                       /\ \/ cfg[v].phys = 0
                          \/ cfg[v].phys = Disk(v).sectors /\ seen[v] = t]
      /\ vcursor' = First(VolumeEntries, vgreyed')
      /\ UNCHANGED <<errors, cursor, sel, card, swaps>>

Chosen(e) == at = "volume" /\ VolumeEntries[vcursor] = e /\ e \notin vgreyed

NextMount(m) == CASE m = "no" -> "ro" [] m = "ro" -> "rw" [] m = "rw" -> "no"

\* config_mount_mode_cb, config_mode_cb and config_part_cb.
Edit(c) ==
  /\ Apply(vol, c, seen[vol])
  /\ UNCHANGED <<errors, vol, seen, settled, at, cursor, vcursor, sel, card, swaps>>

CycleMount ==
  /\ Chosen("mount")
  /\ Edit(ModeUpdate([cfg[vol] EXCEPT !.mount = NextMount(@)], seen[vol]))

ToggleMode ==
  /\ Chosen("mode")
  /\ LET m == IF cfg[vol].mode = "offset" /\ seen[vol].n > 0 THEN "part" ELSE "offset"
     IN  Edit(ModeUpdate([cfg[vol] EXCEPT !.mode = m], seen[vol]))

\* Seeded fault: the partitions do not start over.
Following_Free(p, n) == p + 1

Following(p, n) == (p + 1) % n

NextPart ==
  /\ Chosen("part")
  /\ Edit(PartUpdate([cfg[vol] EXCEPT !.part = Following(@, seen[vol].n)], seen[vol]))

LeaveVolume ==
  /\ Chosen("back")
  /\ at' = "main" /\ greyed' = VolumeUpdate(cfg, errors) /\ vgreyed' = {}
  /\ UNCHANGED <<cfg, errors, vol, seen, settled, cursor, vcursor, sel, card, swaps>>

-----------------------------------------------------------------------------
(* The number selector: digit by digit from the highest.                   *)

Digit(x, i) == (x \div Base ^ i) % Base
WithDigit(x, i, d) == x + (d - Digit(x, i)) * Base ^ i

\* config_offset_cb, config_size_cb.
Select(f) ==
  /\ f \in {"offset", "size"} /\ Chosen(f)
  /\ at' = "select"
  /\ sel' = [field |-> f, digit |-> Digits - 1, val |-> cfg[vol][f],
             max |-> IF f = "offset" THEN Sub(cfg[vol].phys, 1)
                     ELSE Sub(cfg[vol].phys, cfg[vol].offset)]
  /\ UNCHANGED <<settings, cursor, vcursor, card, swaps>>

\* Seeded fault: the digit wraps without a look at the maximum.
Higher_Free(s) == WithDigit(s.val, s.digit, (Digit(s.val, s.digit) + 1) % Base)

\* VOL+ : one up, or to zero when that is too much.
Higher(s) ==
  LET x == WithDigit(s.val, s.digit, (Digit(s.val, s.digit) + 1) % Base)
  IN  IF x > s.max THEN WithDigit(s.val, s.digit, 0) ELSE x

\* VOL- : one down, and then down until it is not above the maximum.  The
\* values the loop passes, in order; the digit of the first that fits counts.
Below(s) ==
  LET x == WithDigit(s.val, s.digit, (Digit(s.val, s.digit) - 1) % Base)
  IN  [k \in 0 .. Base ^ (Digits - s.digit) - 1 |-> Sub(x, k * Base ^ s.digit)]

Fits(s) == {k \in DOMAIN Below(s) : Below(s)[k] <= s.max}

Lower(s) ==
  LET k == CHOOSE k \in Fits(s) : \A j \in Fits(s) : k <= j
  IN  WithDigit(s.val, s.digit, Digit(Below(s)[k], s.digit))

\* A step of a button that is held.  The subtraction does not end when no
\* value fits.
Turn ==
  /\ at = "select"
  /\ \/ sel' = [sel EXCEPT !.val = Higher(sel)] /\ at' = at
     \/ Fits(sel) # {} /\ sel' = [sel EXCEPT !.val = Lower(sel)] /\ at' = at
     \/ Fits(sel) = {} /\ at' = "hung" /\ sel' = sel
  /\ UNCHANGED <<settings, cursor, vcursor, card, swaps>>

\* POWER: the next digit, and after the last one the value is taken.
Accept ==
  /\ at = "select"
  /\ IF sel.digit > 0
     THEN /\ sel' = [sel EXCEPT !.digit = @ - 1]
          /\ UNCHANGED <<settings, at, cursor, vcursor, card, swaps>>
     ELSE /\ at' = "volume"
          /\ Apply(vol, SizeUpdate([cfg[vol] EXCEPT ![sel.field] = sel.val]), seen[vol])
          /\ sel' = Idle
          /\ UNCHANGED <<errors, vol, seen, settled, cursor, vcursor, card, swaps>>

Next ==
  \/ Swap \/ Open \/ Reload \/ Navigate \/ Leave \/ Start \/ SessionEnds
  \/ \E v \in Volumes, readable \in BOOLEAN : Visit(v, readable)
  \/ CycleMount \/ ToggleMode \/ NextPart \/ LeaveVolume
  \/ \E f \in {"offset", "size"} : Select(f)
  \/ Turn \/ Accept

Spec == Init /\ [][Next]_vars

-----------------------------------------------------------------------------
(* Properties.                                                             *)

Words == 0 .. Word - 1

TypeOK ==
  /\ cfg \in [Volumes -> [mount : {"no", "ro", "rw"}, mode : {"part", "offset"},
                          part : 0 .. MaxParts, offset : Words, size : Words, phys : Words]]
  /\ errors \subseteq {"sd", "emmc"}
  /\ greyed \subseteq Volumes \cup {"start"}
  /\ vgreyed \subseteq {"mode", "part", "offset", "size"}
  /\ at \in {"left", "main", "volume", "select", "session", "hung"}
  /\ cursor \in DOMAIN MainEntries /\ vcursor \in DOMAIN VolumeEntries
  /\ vol \in Volumes /\ card \in Cards \cup {NoCard}
  /\ sel \in [field : {"offset", "size"}, max : Words, digit : 0 .. Digits - 1, val : Words]
  /\ settled \in [Volumes -> BOOLEAN] /\ swaps \in 0 .. MaxSwaps

\* What the host would be given of a volume lies inside the volume, and is
\* not empty once the volume was read.  It holds for a volume whose disk has
\* not changed, and by partition whatever was in the slot before: the table is
\* read again at each visit.
ExportFits ==
  \A v \in Volumes :
    LET c == cfg[v] IN
    settled[v] \/ (c.mode = "part" /\ Mounted(c)) =>
      /\ c.offset + c.size <= c.phys
      /\ c.phys > 0 => c.size > 0

\* A volume given by partition is that partition of the table read last, as
\* long as the disk is the same: the mount mode, the mode and the partition are
\* changed in any order and on several visits.
PartExported ==
  \A v \in Volumes :
    cfg[v].mode = "part" /\ Mounted(cfg[v]) /\ settled[v] =>
      /\ cfg[v].part < seen[v].n
      /\ <<cfg[v].offset, cfg[v].size>> = seen[v].parts[cfg[v].part + 1]

\* The next partition is only asked for when there is one: config_part_cb
\* divides by n_parts.  The mode may come from a visit with another card.
PartsToStep == at = "volume" /\ "part" \notin vgreyed => seen[vol].n > 0

\* Start is only offered when the session would have a volume: the volumes
\* handed to usb_device_gadget_ums, those mounted on a storage that came up.
Exported == {v \in Volumes : Mounted(cfg[v]) /\ Storage(v) \notin errors}
StartHasVolume ==
  at \notin {"left"} => ("start" \notin greyed <=> Exported # {})

\* The selector stays at or below its maximum, and its subtraction ends, unless
\* the disk was changed or could not be read since the menu was loaded.
SelectorBounded ==
  /\ at = "select" /\ settled[vol] => sel.val <= sel.max
  /\ at = "hung" => ~settled[vol]

\* The entry that POWER would run can be selected, also after a callback has
\* disabled entries.
CursorLive ==
  /\ at = "main" => MainEntries[cursor] \notin greyed
  /\ at = "volume" => VolumeEntries[vcursor] \notin vgreyed
=============================================================================
