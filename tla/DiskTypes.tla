------------------------------ MODULE DiskTypes -----------------------------
(***************************************************************************)
(* The vocabulary of block access: drives, partitions, memory and the      *)
(* calls of diskio.c, shared by the contract and the engine behind it.     *)
(***************************************************************************)
EXTENDS Integers

CONSTANTS
  Data,           \* contents a sector can have
  Junk,           \* what an ext_csd read or a broken transfer leaves behind
  NumCells,       \* sector-sized cells of memory
  NumSec,         \* sectors of a partition
  BootShift,      \* first sector of the BOOT1_1MB drive (0x100000 / 512)
  Fill,           \* buffers a caller prepares before it writes
  InitMedia       \* contents of the partitions at power-on

GPP   == 0
BOOT0 == 1
BOOT1 == 2
Part  == {GPP, BOOT0, BOOT1}
Drive == {"BOOT0", "BOOT1", "BOOT1_1MB", "GPP"}

Cell   == 0 .. NumCells - 1
Sector == 0 .. NumSec - 1

ASSUME DataAssumption    == Junk \in Data
ASSUME SizeAssumption    == /\ NumCells \in Nat \ {0}
                            /\ NumSec \in Nat \ {0}
                            /\ BootShift \in Nat
ASSUME ContentAssumption == /\ Fill \subseteq [Cell -> Data]
                            /\ Fill # {}
                            /\ InitMedia \in [Part -> [Sector -> Data]]

PartOf(d) == IF d = "GPP" THEN GPP ELSE IF d = "BOOT0" THEN BOOT0 ELSE BOOT1

\* The first sector on the card of a request: BOOT1_1MB is shifted.
First(r) == r.sec + (IF r.drv = "BOOT1_1MB" THEN BootShift ELSE 0)

Transfer == {r \in [op : {"read", "write"}, drv : Drive, sec : Sector,
                    off : Cell, n : 0 .. NumCells] :
               /\ r.off + r.n <= NumCells
               /\ First(r) + r.n <= NumSec}

\* disk_initialize(drv), emmc_initialize(false) and emmc_end().
Control == [op : {"dinit"}, drv : Drive, sec : {0}, off : {0}, n : {1}]
           \cup [op : {"init", "end"}, drv : {"GPP"}, sec : {0}, off : {0}, n : {1}]

Request == Transfer \cup Control

IsTransfer(r) == r.op \in {"read", "write"}

NoCall == [op |-> "end", drv |-> "GPP", sec |-> 0, off |-> 0, n |-> 1]

Result == [req : Request, ok : BOOLEAN, clean : BOOLEAN, done : BOOLEAN]
Pending == [req |-> NoCall, ok |-> FALSE, clean |-> FALSE, done |-> FALSE]
=============================================================================
