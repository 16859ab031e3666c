---------------------------- MODULE ModchipProofs ---------------------------
(***************************************************************************)
(* Proofs about Modchip, for any size of the sectors, the buffer and the   *)
(* partition, and any number of operations, failures and power cuts.       *)
(***************************************************************************)
EXTENDS Modchip, TLAPS

-----------------------------------------------------------------------------
(* Arithmetic: bytes are rounded up to sectors.                            *)

LEMMA MulNat == ASSUME NEW a \in Nat, NEW b \in Nat PROVE a * b \in Nat
BY SMT

LEMMA MulMono ==
  ASSUME NEW a \in Nat, NEW b \in Nat, NEW s \in Nat, a <= b
  PROVE  a * s <= b * s
BY SMT

LEMMA MulStrict ==
  ASSUME NEW a \in Nat, NEW b \in Nat, NEW s \in Nat \ {0}, a * s < b * s
  PROVE  a < b
BY SMT

LEMMA MulGe == ASSUME NEW a \in Nat, NEW s \in Nat \ {0} PROVE a <= a * s
BY SMT

LEMMA MulDist ==
  ASSUME NEW a \in Nat, NEW b \in Nat, NEW s \in Nat
  PROVE  (a + b) * s = a * s + b * s
BY SMT

LEMMA DivExact == ASSUME NEW a \in Nat, NEW s \in Nat \ {0} PROVE (a * s) \div s = a
BY SMT

\* Bytes that fit in so many sectors take no more of them.
LEMMA SectorsBound ==
  ASSUME NEW m \in Nat, NEW b \in Nat, b <= m * SecSize
  PROVE  Sectors(b) \in 0 .. m
BY LayoutAssumption, SMT DEF Sectors

LEMMA SectorsPositive == ASSUME NEW b \in Nat, b > 0 PROVE Sectors(b) \in Nat \ {0}
BY LayoutAssumption, SMT DEF Sectors

\* The layout of BOOT0, in sectors and in bytes.
LEMMA Layout ==
  /\ CmdSec \in Sector /\ FwStart \in Sector /\ IplStart \in Sector /\ CfgSec \in Sector
  /\ CmdSec < FwStart /\ FwStart < IplStart /\ IplStart < CfgSec
  /\ 0 \in Cell /\ BOOT0 \in Part /\ GPP \in Part
BY SizeAssumption, LayoutAssumption, SMT DEF CfgSec, Sector, Cell, Part, BOOT0, GPP, BOOT1

LEMMA Bytes ==
  /\ UpBytes \in Nat \ {0} /\ FwMax \in Nat /\ IplMax \in Nat /\ AllOnes \in Nat
  /\ IplMax <= FwMax /\ FwMax < AllOnes /\ NumSec < AllOnes
<1>1. PICK S \in Nat \ {0} : S = SecSize
  BY LayoutAssumption
<1>2. PICK N \in Nat : N = NumSec
  BY SizeAssumption
<1>3. PICK C \in Nat \ {0} : C = NumCells
  BY SizeAssumption
<1>4. PICK f \in Nat : f = NumSec - FwStart /\ f <= N
  BY <1>2, LayoutAssumption, Layout DEF Sector
<1>5. PICK i \in Nat : i = NumSec - IplStart - 1 /\ i <= f
  BY <1>2, <1>4, LayoutAssumption, Layout DEF Sector, CfgSec
<1>6. UpBytes = C * S /\ FwMax = f * S /\ IplMax = i * S /\ AllOnes = N * S + 1
  BY <1>1, <1>2, <1>3, <1>4, <1>5 DEF UpBytes, FwMax, IplMax, AllOnes
<1>7. C * S \in Nat /\ f * S \in Nat /\ i * S \in Nat /\ N * S \in Nat
  BY MulNat
<1>8. PICK cs \in Nat, fs \in Nat, is \in Nat, ns \in Nat :
        cs = C * S /\ fs = f * S /\ is = i * S /\ ns = N * S
  BY <1>7
<1>9. C <= cs /\ is <= fs /\ fs <= ns /\ N <= ns
  BY <1>4, <1>5, <1>8, MulMono, MulGe
<1>10. UpBytes = cs /\ FwMax = fs /\ IplMax = is /\ AllOnes = ns + 1
  BY <1>6, <1>8
<1> QED BY <1>2, <1>3, <1>9, <1>10

LEMMA OpFacts ==
  ASSUME NEW o \in Op
  PROVE  /\ o.size \in 0 .. FwMax
         /\ o.k = "ipl" => o.size <= IplMax
         /\ o.k \in {"rst", "rollback", "getcfg", "desc", "fw", "bl", "ipl", "setcfg"}
         /\ o.cfg \in Settings
<1>1. DefaultCfg \in Settings
  BY DEF DefaultCfg, Settings
<1>2. CASE o \in [k : {"rst", "rollback", "getcfg", "desc"}, size : {0}, cfg : {DefaultCfg}]
  BY <1>1, <1>2, Bytes
<1>3. CASE o \in [k : {"fw", "bl"}, size : 0 .. FwMax, cfg : {DefaultCfg}]
  BY <1>1, <1>3
<1>4. CASE o \in [k : {"ipl"}, size : 0 .. IplMax, cfg : {DefaultCfg}]
  <2>1. o.size \in 0 .. IplMax /\ o.k = "ipl" /\ o.cfg \in Settings
    BY <1>1, <1>4
  <2> QED BY <2>1, Bytes
<1>5. CASE o \in [k : {"setcfg"}, size : {0}, cfg : Settings]
  BY <1>5, Bytes
<1> QED BY <1>2, <1>3, <1>4, <1>5 DEF Op

-----------------------------------------------------------------------------
(* What a call of diskio.c does to the card and the buffer.                *)

Write(sec, n) == [op |-> "write", drv |-> "BOOT0", sec |-> sec, off |-> 0, n |-> n]

\* The contract uses the vocabulary of this module.
LEMMA Vocabulary ==
  /\ Disk!Part = Part /\ Disk!Cell = Cell /\ Disk!Sector = Sector /\ Disk!Control = Control
  /\ Disk!GPP = GPP /\ \A r : Disk!First(r) = First(r) /\ Disk!PartOf(r.drv) = PartOf(r.drv)
BY DEF Disk!Part, Part, Disk!Cell, Cell, Disk!Sector, Sector, Disk!Control, Control, Disk!GPP,
       GPP, Disk!BOOT0, BOOT0, Disk!BOOT1, BOOT1, Disk!First, First, Disk!PartOf, PartOf,
       Disk!Drive, Drive

LEMMA CallRequest ==
  ASSUME NEW kind \in {"read", "write"}, NEW sec \in Sector, NEW n \in 0 .. NumCells,
         sec + n <= NumSec
  PROVE  [op |-> kind, drv |-> "BOOT0", sec |-> sec, off |-> 0, n |-> n] \in Transfer
<1>1. PICK r : r = [op |-> kind, drv |-> "BOOT0", sec |-> sec, off |-> 0, n |-> n]
  OBVIOUS
<1>2. /\ r.off + r.n <= NumCells
      /\ First(r) + r.n <= NumSec
  BY <1>1, SizeAssumption DEF First, Sector
<1>3. r \in [op : {"read", "write"}, drv : Drive, sec : Sector, off : Cell, n : 0 .. NumCells]
  BY <1>1, Layout DEF Drive
<1> QED BY <1>1, <1>2, <1>3 DEF Transfer

\* A write of any part of a transfer leaves a card of sectors.
LEMMA PutType ==
  ASSUME NEW m \in [Part -> [Sector -> Data]], NEW p \in Part, NEW c \in [Cell -> Data],
         NEW r \in Transfer, NEW k \in 0 .. r.n
  PROVE  Disk!Put(m, p, c, r, k) \in [Part -> [Sector -> Data]]
<1>1. /\ r.off \in Nat /\ r.n \in Nat /\ r.off + r.n <= NumCells /\ First(r) \in Int
  BY SizeAssumption DEF Transfer, Cell, First, Sector
<1>2. ASSUME NEW s \in Sector, s - First(r) \in 0 .. k - 1
      PROVE  r.off + s - First(r) \in Cell
  BY <1>1, <1>2, SizeAssumption DEF Sector, Cell
<1> QED BY <1>2 DEF Disk!Put, Disk!First, First, Disk!Sector, Sector

LEMMA GetType ==
  ASSUME NEW m \in [Part -> [Sector -> Data]], NEW p \in Part, NEW c \in [Cell -> Data],
         NEW r \in Transfer
  PROVE  Disk!Get(m, p, c, r, r.n) \in [Cell -> Data]
<1>1. /\ r.off \in Nat /\ r.n \in Nat /\ First(r) \in Nat /\ First(r) + r.n <= NumSec
  BY SizeAssumption DEF Transfer, Cell, First, Sector
<1>2. ASSUME NEW x \in Cell, x - r.off \in 0 .. r.n - 1
      PROVE  First(r) + x - r.off \in Sector
  BY <1>1, <1>2, SizeAssumption DEF Sector, Cell
<1> QED BY <1>2 DEF Disk!Get, Disk!First, First, Disk!Cell, Cell

LEMMA ScribbledType ==
  ASSUME NEW c \in [Cell -> Data] PROVE Disk!Scribbled(c) \in [Cell -> Data]
BY DataAssumption DEF Disk!Scribbled

LEMMA LeftType ==
  ASSUME media \in [Part -> [Sector -> Data]], cells \in [Cell -> Data], NEW r \in Transfer,
         NEW x \in Cell
  PROVE  Disk!Left(r, x) \subseteq Data
<1>1. /\ r.off \in Nat /\ r.n \in Nat /\ First(r) \in Nat /\ First(r) + r.n <= NumSec
  BY SizeAssumption DEF Transfer, Cell, First, Sector
<1>2. ASSUME x - r.off \in 0 .. r.n - 1
      PROVE  First(r) + x - r.off \in Sector
  BY <1>1, <1>2, SizeAssumption DEF Sector, Cell
<1> QED BY <1>2, DataAssumption, Vocabulary DEF Disk!Left

\* Whatever happens, the card and the buffer hold sectors.
LEMMA FinishType ==
  ASSUME media \in [Part -> [Sector -> Data]], cells \in [Cell -> Data], NEW r \in Transfer,
         NEW ok \in BOOLEAN, NEW clean \in BOOLEAN, Disk!Finish(r, ok, clean)
  PROVE  media' \in [Part -> [Sector -> Data]] /\ cells' \in [Cell -> Data] /\ last' \in Result
<1>1. PartOf(r.drv) \in Part /\ r.n \in 0 .. r.n /\ r \in Request /\ GPP \in Part
  BY SizeAssumption DEF PartOf, Part, GPP, BOOT0, BOOT1, Transfer, Request
<1>2. last' \in Result
  BY <1>1 DEF Disk!Finish, Result
<1>3. CASE Disk!WriteDone(r, clean)
  <2>1. CASE media' = Disk!Put(media, PartOf(r.drv), cells, r, r.n) /\ UNCHANGED cells
    BY <1>1, <1>2, <2>1, PutType
  <2>2. CASE \E p \in Part : media' = Disk!Put(media, p, cells, r, r.n) /\ UNCHANGED cells
    BY <1>1, <1>2, <2>2, PutType
  <2>3. CASE /\ cells' = Disk!Scribbled(cells)
             /\ \E p \in Part, k \in 0 .. r.n :
                  media' = Disk!Put(Disk!Put(media, p, cells, r, k), GPP, cells', r, r.n)
    <3>1. cells' \in [Cell -> Data]
      BY <2>3, ScribbledType
    <3>2. PICK p \in Part, k \in 0 .. r.n :
            media' = Disk!Put(Disk!Put(media, p, cells, r, k), GPP, cells', r, r.n)
      BY <2>3
    <3>3. Disk!Put(media, p, cells, r, k) \in [Part -> [Sector -> Data]]
      BY PutType
    <3> QED BY <1>1, <1>2, <3>1, <3>2, <3>3, PutType
  <2> QED BY <1>3, <1>2, <2>1, <2>2, <2>3, Vocabulary DEF Disk!WriteDone
<1>4. CASE Disk!WriteFailed(r, clean)
  <2>1. CASE UNCHANGED <<media, cells>>
    BY <2>1, <1>2
  <2>2. CASE /\ cells' \in {cells, Disk!Scribbled(cells)}
             /\ \E p \in Part, k, l \in 0 .. r.n :
                  media' = Disk!Put(Disk!Put(media, p, cells, r, k), GPP, cells', r, l)
    <3>1. cells' \in [Cell -> Data]
      BY <2>2, ScribbledType
    <3>2. PICK p \in Part, k \in 0 .. r.n, l \in 0 .. r.n :
            media' = Disk!Put(Disk!Put(media, p, cells, r, k), GPP, cells', r, l)
      BY <2>2
    <3>3. Disk!Put(media, p, cells, r, k) \in [Part -> [Sector -> Data]]
      BY PutType
    <3> QED BY <1>1, <1>2, <3>1, <3>2, <3>3, PutType
  <2> QED BY <1>4, <2>1, <2>2, Vocabulary DEF Disk!WriteFailed
<1>5. CASE Disk!ReadDone(r, clean)
  <2>1. PICK p \in Part, c \in {cells, Disk!Scribbled(cells)} :
          cells' = Disk!Get(media, p, c, r, r.n)
    BY <1>1, <1>5, Vocabulary DEF Disk!ReadDone
  <2>2. c \in [Cell -> Data]
    BY ScribbledType
  <2> QED BY <1>2, <1>5, <2>1, <2>2, GetType DEF Disk!ReadDone
<1>6. CASE Disk!ReadFailed(r, clean)
  <2>1. CASE UNCHANGED cells
    BY <1>2, <1>6, <2>1 DEF Disk!ReadFailed
  <2>2. CASE cells' \in {c \in [Cell -> UNION {Disk!Left(r, x) : x \in Cell}] :
                           \A x \in Cell : c[x] \in Disk!Left(r, x)}
    <3>1. \A x \in Cell : cells'[x] \in Data
      BY <2>2, LeftType
    <3>2. cells' = [x \in Cell |-> cells'[x]]
      BY <2>2
    <3> QED BY <1>2, <1>6, <3>1, <3>2 DEF Disk!ReadFailed
  <2> QED BY <1>6, <2>1, <2>2, Vocabulary DEF Disk!ReadFailed
<1>7. r \notin Control
  BY DEF Transfer, Control
<1> QED BY <1>3, <1>4, <1>5, <1>6, <1>7, Vocabulary DEF Disk!Finish

\* The same for a call of modchip.c, and its bookkeeping.
LEMMA CallType ==
  ASSUME TypeOK, NEW kind \in {"read", "write"}, NEW sec \in Sector,
         NEW n \in 0 .. NumCells, sec + n <= NumSec, NEW ok \in BOOLEAN,
         DiskCall(kind, sec, n, ok)
  PROVE  /\ media' \in [Part -> [Sector -> Data]] /\ cells' \in [Cell -> Data]
         /\ last' \in Result
         /\ health' \in {"fine", "refused", "faulty"} /\ faults' \in 0 .. MaxFaults
<1>1. PICK clean \in BOOLEAN :
        /\ clean \/ faults < MaxFaults
        /\ Disk!Finish([op |-> kind, drv |-> "BOOT0", sec |-> sec, off |-> 0, n |-> n],
                       ok, clean)
        /\ health' = Worse(ok, clean)
        /\ faults' = faults + (IF clean THEN 0 ELSE 1)
  BY DEF DiskCall
<1>2. [op |-> kind, drv |-> "BOOT0", sec |-> sec, off |-> 0, n |-> n] \in Transfer
  BY CallRequest
<1>3. /\ media' \in [Part -> [Sector -> Data]] /\ cells' \in [Cell -> Data]
      /\ last' \in Result
  BY <1>1, <1>2, FinishType DEF TypeOK
<1>4. health' \in {"fine", "refused", "faulty"}
  BY <1>1 DEF TypeOK, Worse
<1>5. faults' \in 0 .. MaxFaults
  BY <1>1, LayoutAssumption DEF TypeOK
<1> QED BY <1>3, <1>4, <1>5

\* As long as the card has no fault a call is exact or does nothing.
LEMMA CallEffect ==
  ASSUME TypeOK, NEW kind \in {"read", "write"}, NEW sec \in Sector,
         NEW n \in 0 .. NumCells, sec + n <= NumSec, NEW ok \in BOOLEAN,
         DiskCall(kind, sec, n, ok), health' # "faulty"
  PROVE  /\ health # "faulty" /\ health' = (IF ok THEN health ELSE "refused")
         /\ ~ok => UNCHANGED <<media, cells>>
         /\ ok /\ kind = "write" =>
              /\ UNCHANGED cells
              /\ media' = [media EXCEPT ![BOOT0] = media'[BOOT0]]
              /\ \A s \in Sector : media'[BOOT0][s] =
                   IF s - sec \in 0 .. n - 1 THEN cells[s - sec] ELSE media[BOOT0][s]
         /\ ok /\ kind = "read" =>
              /\ UNCHANGED media
              /\ \A x \in Cell : x < n => cells'[x] = media[BOOT0][sec + x]
<1>1. PICK r : r = [op |-> kind, drv |-> "BOOT0", sec |-> sec, off |-> 0, n |-> n]
  OBVIOUS
<1>2. /\ Disk!Finish(r, ok, TRUE)
      /\ health # "faulty" /\ health' = (IF ok THEN health ELSE "refused")
  BY <1>1 DEF DiskCall, Worse
<1>3. r \in Transfer
  BY <1>1, CallRequest
<1>4. r \notin Control
  BY <1>3 DEF Transfer, Control
<1>5. First(r) = sec /\ PartOf(r.drv) = BOOT0 /\ r.off = 0 /\ r.n = n /\ r.op = kind
  BY <1>1 DEF First, PartOf, Sector
<1>6. ASSUME ~ok PROVE UNCHANGED <<media, cells>>
  BY <1>2, <1>4, <1>6, Vocabulary DEF Disk!Finish, Disk!WriteFailed, Disk!ReadFailed
<1>7. ASSUME ok, kind = "write"
      PROVE  /\ UNCHANGED cells
             /\ media' = [media EXCEPT ![BOOT0] = media'[BOOT0]]
             /\ \A s \in Sector : media'[BOOT0][s] =
                  IF s - sec \in 0 .. n - 1 THEN cells[s - sec] ELSE media[BOOT0][s]
  <2>1. UNCHANGED cells /\ media' = Disk!Put(media, BOOT0, cells, r, n)
    BY <1>2, <1>4, <1>5, <1>7, Vocabulary DEF Disk!Finish, Disk!WriteDone
  <2>2. media' = [media EXCEPT ![BOOT0] = [s \in Sector |->
                    IF s - sec \in 0 .. n - 1 THEN cells[0 + s - sec] ELSE media[BOOT0][s]]]
    BY <2>1, <1>5, Vocabulary DEF Disk!Put
  <2>3. \A s \in Sector : 0 + s - sec = s - sec
    BY SizeAssumption DEF Sector
  <2>4. media \in [Part -> [Sector -> Data]]
    BY DEF TypeOK
  <2> QED BY <2>1, <2>2, <2>3, <2>4, Layout
<1>8. ASSUME ok, kind = "read"
      PROVE  /\ UNCHANGED media
             /\ \A x \in Cell : x < n => cells'[x] = media[BOOT0][sec + x]
  <2>1. UNCHANGED media /\ cells' = Disk!Get(media, BOOT0, cells, r, n)
    BY <1>2, <1>4, <1>5, <1>8, Vocabulary DEF Disk!Finish, Disk!ReadDone
  <2>2. cells' = [x \in Cell |-> IF x - 0 \in 0 .. n - 1
                                 THEN media[BOOT0][sec + x - 0] ELSE cells[x]]
    BY <2>1, <1>5, Vocabulary DEF Disk!Get
  <2>3. \A x \in Cell : x < n => x - 0 \in 0 .. n - 1 /\ sec + x - 0 = sec + x
    BY SizeAssumption DEF Cell, Sector
  <2> QED BY <2>1, <2>2, <2>3
<1> QED BY <1>2, <1>6, <1>7, <1>8

-----------------------------------------------------------------------------
(* Types, and where in the image the operation is.                         *)

\* An image is written from its first byte on, in pieces of whole sectors.
Position ==
  /\ \E k \in Nat : idx = k * SecSize
  /\ pc = "idle" => idx = 0
  /\ idx # 0 => Chunked
  /\ pc \in {"load", "image"} => op.k \in Updates
  /\ pc = "image" => op.k = "fw" \/ op.size <= UpBytes

\* A piece fits in the buffer and in the area of its image.
LEMMA PieceFacts ==
  ASSUME op \in Op, idx \in 0 .. FwMax, idx = 0 \/ idx < op.size, op.k \in Updates,
         op.k = "fw" \/ op.size <= UpBytes, idx # 0 => Chunked,
         NEW k \in Nat, idx = k * SecSize
  PROVE  /\ idx \div SecSize = k
         /\ Piece \in Nat /\ (op.size > 0 => Piece > 0)
         /\ Sectors(Piece) \in 0 .. NumCells
         /\ Area(op.k) + k \in Sector
         /\ Area(op.k) + k + Sectors(Piece) <= (IF op.k = "ipl" THEN CfgSec ELSE NumSec)
         /\ k + Sectors(Piece) <= NumSec
<1>1. PICK S \in Nat \ {0} : S = SecSize
  BY LayoutAssumption
<1>2. idx \div SecSize = k
  BY <1>1, DivExact
<1>3. PICK size \in Nat : size = op.size
  BY OpFacts, Bytes
<1>4. PICK C \in Nat \ {0} : C = NumCells /\ UpBytes = C * S
  BY <1>1, SizeAssumption DEF UpBytes
<1>5. PICK up \in Nat \ {0} : up = UpBytes
  BY Bytes
<1>6. PICK p \in Nat : p = Piece /\ p <= up /\ idx + p <= size /\ (size > 0 => p > 0)
  <2>1. idx \in Nat /\ idx <= size
    BY <1>3, Bytes
  <2>2. idx = 0 \/ idx < size
    BY <1>3
  <2>3. PICK p : p = Piece
    OBVIOUS
  <2>4. p = IF size - idx < up THEN size - idx ELSE up
    BY <2>3, <1>3, <1>5 DEF Piece
  <2> QED BY <2>1, <2>2, <2>3, <2>4
<1>7. Sectors(Piece) \in 0 .. NumCells
  BY <1>1, <1>4, <1>5, <1>6, SectorsBound
\* The sectors of the area, in front of which the image stops.
<1>8. PICK end \in Sector \cup {NumSec}, room \in Nat :
        /\ end = (IF op.k = "ipl" THEN CfgSec ELSE NumSec)
        /\ end = Area(op.k) + room /\ room > 0 /\ room <= NumSec /\ Area(op.k) \in Sector
        /\ size <= room * S
  <2>1. CASE op.k = "ipl"
    <3>1. PICK r \in Nat : r = CfgSec - IplStart
      BY Layout, SizeAssumption DEF Sector
    <3>2. IplMax = r * S
      BY <1>1, <3>1, SizeAssumption, LayoutAssumption DEF IplMax, CfgSec
    <3>3. size <= r * S
      BY <1>3, <2>1, <3>2, OpFacts
    <3>4. CfgSec \in Sector /\ CfgSec = IplStart + r /\ r > 0 /\ r <= NumSec
      BY <3>1, Layout, SizeAssumption DEF Sector
    <3> QED BY <2>1, <3>3, <3>4, Layout DEF Area
  <2>2. CASE op.k # "ipl"
    <3>1. PICK r \in Nat : r = NumSec - FwStart
      BY Layout, SizeAssumption DEF Sector
    <3>2. FwMax = r * S
      BY <1>1, <3>1 DEF FwMax
    <3>3. op.size \in 0 .. FwMax
      BY OpFacts
    <3>4. size <= r * S
      BY <1>3, <3>2, <3>3
    <3>5. NumSec = FwStart + r /\ r > 0 /\ r <= NumSec
      BY <3>1, Layout, SizeAssumption DEF Sector
    <3> QED BY <2>2, <3>4, <3>5, Layout DEF Area
  <2> QED BY <2>1, <2>2
<1>9. PICK rs \in Nat, ks \in Nat : rs = room * S /\ ks = k * S /\ idx = ks
  BY <1>1, MulNat
<1>10. k < room
  <2>1. CASE idx = 0
    <3>1. k <= ks
      BY <1>9, MulGe
    <3> QED BY <1>8, <1>9, <2>1, <3>1
  <2>2. CASE idx # 0
    <3>1. ks < rs
      BY <1>3, <1>8, <1>9, <2>2
    <3> QED BY <1>9, <3>1, MulStrict
  <2> QED BY <2>1, <2>2
<1>11. PICK left \in Nat : left = room - k
  BY <1>10
<1>12. PICK ls \in Nat : ls = left * S /\ rs = ks + ls
  <2>1. room = k + left
    BY <1>11
  <2>2. room * S = k * S + left * S
    BY <2>1, MulDist
  <2> QED BY <1>9, <2>2, MulNat
<1>13. p <= ls
  BY <1>3, <1>6, <1>8, <1>9, <1>12
<1>14. Sectors(Piece) \in 0 .. left
  BY <1>1, <1>6, <1>12, <1>13, SectorsBound
<1>15. PICK n \in Nat : n = Sectors(Piece) /\ n <= left
  BY <1>14
<1>16. PICK a \in Nat : a = Area(op.k)
  BY <1>8, SizeAssumption DEF Sector
<1>17. a + k \in Sector /\ a + k + n <= end /\ k + n <= NumSec
  BY <1>8, <1>10, <1>11, <1>15, <1>16, SizeAssumption DEF Sector
<1> QED BY <1>2, <1>6, <1>7, <1>8, <1>15, <1>16, <1>17, <1>3

\* What is prepared in the buffer is made of sectors.
LEMMA ImageType ==
  ASSUME NEW kind \in Updates, NEW i \in 0 .. AllOnes PROVE Image(kind, i) \in Data
<1>1. 0 \in 0 .. AllOnes /\ 1 \in 0 .. AllOnes
  BY Bytes, SizeAssumption
<1>2. Mk(kind, i, 0) \in Half /\ Mk(kind, i, 1) \in Half
  BY <1>1 DEF Mk, Half, Updates
<1> QED BY <1>2, SectorAssumption DEF Image

LEMMA HalfFacts ==
  /\ None \in Half /\ RstCmd \in Half /\ DefaultCfg \in Half /\ Settings \subseteq Half
  /\ Mk("fwcmd", AllOnes, AllOnes) \in Half
  /\ \A h \in Half : CfgValid(h) <=> h \in Settings
<1>1. 0 \in 0 .. AllOnes /\ AllOnes \in 0 .. AllOnes
  BY Bytes
<1>2. None \in Half /\ RstCmd \in Half /\ Mk("fwcmd", AllOnes, AllOnes) \in Half
  BY <1>1 DEF None, RstCmd, Mk, Half
<1>3. DefaultCfg \in Settings /\ Settings \subseteq Half
  BY DEF DefaultCfg, Settings, Half
<1>4. \A h \in Settings : CfgValid(h)
  BY DEF Settings, CfgValid, Mk
<1>5. \A h \in Half : CfgValid(h) => h \in Settings
  BY DEF Half, CfgValid
<1> QED BY <1>2, <1>3, <1>4, <1>5

LEMMA LoadedType ==
  ASSUME cells \in [Cell -> Data], op.k \in Updates, NEW k \in Nat, idx \div SecSize = k,
         NEW n \in Nat, k + n <= NumSec
  PROVE  Loaded(n) \in [Cell -> Data]
<1>1. ASSUME NEW x \in Cell, x < n PROVE Image(op.k, idx \div SecSize + x) \in Data
  <2>1. k + x \in 0 .. AllOnes
    BY <1>1, Bytes, SizeAssumption DEF Cell
  <2> QED BY <2>1, ImageType
<1> QED BY <1>1 DEF Loaded

LEMMA UpdateCmdType == ASSUME op \in Op, op.k \in {"fw", "bl"} PROVE UpdateCmd \in Half
<1>1. PICK S \in Nat \ {0} : S = SecSize
  BY LayoutAssumption
<1>2. PICK ones \in Nat : ones = AllOnes /\ NumSec < ones /\ FwMax < ones
  BY Bytes
<1>3. PICK size \in Nat : size = op.size /\ size <= FwMax
  BY OpFacts, Bytes
<1>4. (S - 1) \div S = 0
  BY SMT
<1>5. PICK r \in Nat : r = NumSec - FwStart
  BY Layout, SizeAssumption DEF Sector
<1>6. size <= r * S
  BY <1>1, <1>3, <1>5 DEF FwMax
<1>7. Sectors(size) \in 0 .. r
  BY <1>1, <1>6, SectorsBound
<1>8. Sectors(size) \in 0 .. ones
  BY <1>2, <1>5, <1>7, Layout, SizeAssumption DEF Sector
<1>9. Count = size + 0 \/ Count = Sectors(size)
  BY <1>1, <1>3, <1>4 DEF Count
<1>10. Count \in 0 .. AllOnes
  BY <1>2, <1>3, <1>8, <1>9, Bytes
<1>11. FwStart \in 0 .. AllOnes
  BY <1>2, Layout, SizeAssumption DEF Sector
<1> QED BY <1>10, <1>11 DEF UpdateCmd, Mk, Half

-----------------------------------------------------------------------------
(* Every step keeps the types and the position.                            *)

LEMMA InitType == Init => TypeOK /\ Position
<1> SUFFICES ASSUME Init PROVE TypeOK /\ Position
  OBVIOUS
<1>1. media \in [Part -> [Sector -> Data]] /\ cells \in [Cell -> Data]
  BY ContentAssumption DEF Init
<1>2. last \in Result
  BY DEF Init, Pending, NoCall, Result, Request, Control, Drive
<1>3. op \in Op /\ cmd \in Half /\ got \in Half
  BY HalfFacts DEF Init, Idle, Op
<1>4. idx = 0 /\ idx \in 0 .. FwMax /\ 0 = 0 * SecSize
  BY Bytes, LayoutAssumption DEF Init
<1>5. faults \in 0 .. MaxFaults /\ ops \in 0 .. MaxOps
  BY LayoutAssumption DEF Init
<1>6. pc = "idle" /\ recovering \in BOOLEAN /\ res = "none" /\ health = "fine"
  BY DEF Init
<1>7. Position
  BY <1>4, <1>6 DEF Position
<1> QED BY <1>1, <1>2, <1>3, <1>4, <1>5, <1>6, <1>7 DEF TypeOK, Points

LEMMA PendingType == Pending \in Result
BY DEF Pending, NoCall, Result, Request, Control, Drive

\* A return, or a step of the same operation at the same position.
LEMMA ReturnPosition == ASSUME NEW ok, Return(ok) PROVE Position'
<1>1. 0 = 0 * SecSize
  BY LayoutAssumption
<1> QED BY <1>1 DEF Return, Position

LEMMA ReturnType ==
  ASSUME NEW ok, Return(ok)
  PROVE  /\ pc' = "idle" /\ res' \in {"none", "ok", "fail"}
         /\ idx' \in 0 .. FwMax /\ idx' = 0
BY Bytes DEF Return

LEMMA GotoPosition ==
  ASSUME TypeOK, Position, NEW p, Goto(p), op' = op, p \notin {"idle", "load", "image"}
  PROVE  Position'
BY DEF Goto, Position, Chunked

LEMMA StartType == ASSUME TypeOK, Position, NEW o \in Op, Start(o) PROVE TypeOK' /\ Position'
<1>1. cmd' \in Half
  BY HalfFacts DEF Start
<1>2. ops' \in 0 .. MaxOps
  BY LayoutAssumption DEF Start, TypeOK
<1>3. pc' \in Points /\ pc' \notin {"idle", "image"} /\ (pc' = "load" => op'.k \in Updates)
  BY DEF Start, Entry, Points
<1>4. idx = 0 /\ idx' = 0 /\ op' = o
  BY DEF Start, Position
<1>5. Position'
  BY <1>3, <1>4 DEF Position
<1>6. media' = media /\ cells' = cells /\ last' \in Result
  BY PendingType DEF Start, Prepare
<1> QED BY <1>1, <1>2, <1>3, <1>4, <1>5, <1>6 DEF Start, TypeOK

LEMMA LoadType == ASSUME TypeOK, Position, Load PROVE TypeOK' /\ Position'
<1>1. PICK k \in Nat : idx = k * SecSize
  BY DEF Position
<1>2. op \in Op /\ idx \in 0 .. FwMax /\ (idx = 0 \/ idx < op.size) /\ op.k \in Updates
      /\ (idx # 0 => Chunked)
  BY DEF TypeOK, Position, Load
<1>3. CASE op.k # "fw" /\ op.size > UpBytes /\ Return(FALSE) /\ UNCHANGED <<disk, recovering, health, faults>>
  BY <1>3, ReturnType, ReturnPosition DEF TypeOK, Load, disk, Points
<1>4. CASE op.k = "fw" \/ op.size <= UpBytes
  <2>1. idx \div SecSize = k /\ Sectors(Piece) \in 0 .. NumCells /\ k + Sectors(Piece) <= NumSec
    BY <1>1, <1>2, <1>4, PieceFacts
  <2>2. ASSUME NEW n \in 0 .. Sectors(Piece) PROVE Loaded(n) \in [Cell -> Data]
    <3>1. n \in Nat /\ k + n <= NumSec
      BY <2>1, SizeAssumption
    <3> QED BY <1>2, <2>1, <3>1, LoadedType DEF TypeOK
  <2>3. Sectors(Piece) \in 0 .. Sectors(Piece)
    BY <2>1
  <2>4. media' = media /\ last' \in Result /\ cells' \in [Cell -> Data]
    <3>1. op.k = "fw" \/ ~(op.size > UpBytes)
      BY <1>4, OpFacts, <1>2, Bytes
    <3>2. \E n \in 0 .. Sectors(Piece) :
            Prepare(Loaded(n)) \/ Prepare([Loaded(n) EXCEPT ![0] = Junk])
      BY <2>3, <3>1 DEF Load
    <3>3. PICK n \in 0 .. Sectors(Piece) :
            Prepare(Loaded(n)) \/ Prepare([Loaded(n) EXCEPT ![0] = Junk])
      BY <3>2
    <3>4. [Loaded(n) EXCEPT ![0] = Junk] \in [Cell -> Data]
      BY <2>2, DataAssumption
    <3>5. /\ cells' = Loaded(n) \/ cells' = [Loaded(n) EXCEPT ![0] = Junk]
          /\ media' = media /\ last' = Pending
      BY <3>3 DEF Prepare
    <3>6. Loaded(n) \in [Cell -> Data]
      BY <2>2
    <3> QED BY <3>4, <3>5, <3>6, PendingType
  <2>5. /\ health' \in {"fine", "refused", "faulty"} /\ faults' \in 0 .. MaxFaults
        /\ recovering' \in BOOLEAN
    <3>1. /\ \/ health' = health /\ faults' = faults
             \/ health' = "faulty" /\ faults' = faults + 1 /\ faults < MaxFaults
          /\ recovering' \in {recovering, TRUE}
      BY DEF Load, Recover
    <3>2. /\ health \in {"fine", "refused", "faulty"} /\ faults \in 0 .. MaxFaults
          /\ recovering \in BOOLEAN /\ MaxFaults \in Nat
      BY LayoutAssumption DEF TypeOK
    <3>3. faults' \in 0 .. MaxFaults
      BY <3>1, <3>2
    <3>4. recovering' \in BOOLEAN
      BY <3>1, <3>2
    <3> QED BY <3>1, <3>2, <3>3, <3>4
  <2>6. CASE Goto("image")
    BY <1>4, <2>4, <2>5, <2>6 DEF TypeOK, Position, Load, Goto, Points, Chunked
  <2>7. CASE Goto("rst")
    BY <2>4, <2>5, <2>7, GotoPosition DEF TypeOK, Load, Goto, Points
  <2>8. CASE Return(FALSE)
    BY <2>4, <2>5, <2>8, ReturnPosition, ReturnType DEF TypeOK, Load, Points
  <2> QED BY <2>6, <2>7, <2>8 DEF Load, Recover
<1> QED BY <1>3, <1>4 DEF Load

LEMMA WriteImageType == ASSUME TypeOK, Position, WriteImage PROVE TypeOK' /\ Position'
<1>1. PICK k \in Nat : idx = k * SecSize
  BY DEF Position
<1>2. /\ op \in Op /\ idx \in 0 .. FwMax /\ (idx = 0 \/ idx < op.size) /\ op.k \in Updates
      /\ (idx # 0 => Chunked) /\ (op.k = "fw" \/ op.size <= UpBytes)
  BY DEF TypeOK, Position, WriteImage
<1>3. /\ idx \div SecSize = k /\ Sectors(Piece) \in 0 .. NumCells
      /\ Area(op.k) + k \in Sector
      /\ Area(op.k) + k + Sectors(Piece) <= (IF op.k = "ipl" THEN CfgSec ELSE NumSec)
  BY <1>1, <1>2, PieceFacts
<1>12. Area(op.k) + k + Sectors(Piece) <= NumSec
  BY <1>3, SizeAssumption DEF CfgSec, Sector
<1>4. PICK ok \in BOOLEAN : DiskCall("write", Area(op.k) + idx \div SecSize, Sectors(Piece), ok)
  BY DEF WriteImage
<1>5. /\ media' \in [Part -> [Sector -> Data]] /\ cells' \in [Cell -> Data] /\ last' \in Result
      /\ health' \in {"fine", "refused", "faulty"} /\ faults' \in 0 .. MaxFaults
  BY <1>3, <1>4, <1>12, CallType
<1>6. op' = op /\ got' = got /\ ops' = ops
  BY DEF WriteImage
<1>7. recovering' \in BOOLEAN
  BY DEF WriteImage, Recover, TypeOK
<1>8. cmd' \in Half
  <2>1. cmd' = cmd \/ (op.k # "ipl" /\ cmd' = UpdateCmd)
    BY DEF WriteImage
  <2>2. op.k # "ipl" => UpdateCmd \in Half
    BY <1>2, UpdateCmdType DEF Updates
  <2> QED BY <2>1, <2>2 DEF TypeOK
<1>9. CASE MorePieces /\ pc' = "load" /\ idx' = NextPiece /\ res' = res
  <2>1. PICK S \in Nat \ {0} : S = SecSize
    BY LayoutAssumption
  <2>2. PICK C \in Nat \ {0} : C = NumCells
    BY SizeAssumption
  <2>3. idx' = (k + C) * S
    BY <1>1, <1>9, <2>1, <2>2, MulDist DEF NextPiece, UpBytes
  <2>4. k + C \in Nat
    OBVIOUS
  <2>5. op.size \in 0 .. FwMax
    BY <1>2, OpFacts
  <2>6. idx' \in 0 .. FwMax /\ idx' < op.size
    BY <1>2, <1>9, <2>5, Bytes DEF MorePieces, NextPiece
  <2>7. Chunked' /\ op'.k \in Updates
    BY <1>2, <1>6, <1>9 DEF MorePieces, Chunked
  <2>8. Position'
    BY <1>9, <2>1, <2>3, <2>4, <2>7 DEF Position
  <2> QED BY <1>5, <1>6, <1>7, <1>8, <1>9, <2>6, <2>8 DEF TypeOK, Points
<1>10. CASE Goto("cmd") \/ Goto("rst")
  <2>1. Position'
    BY <1>6, <1>10, GotoPosition
  <2> QED BY <1>5, <1>6, <1>7, <1>8, <1>10, <2>1 DEF TypeOK, Goto, Points
<1>11. CASE Return(TRUE)
  BY <1>5, <1>6, <1>7, <1>8, <1>11, ReturnPosition, ReturnType DEF TypeOK, Points
<1> QED BY <1>9, <1>10, <1>11 DEF WriteImage, Recover

\* The commands and the settings, a sector each.
LEMMA SectorCall ==
  ASSUME TypeOK, NEW kind \in {"read", "write"}, NEW sec \in {CmdSec, CfgSec},
         NEW ok \in BOOLEAN, DiskCall(kind, sec, 1, ok)
  PROVE  /\ media' \in [Part -> [Sector -> Data]] /\ cells' \in [Cell -> Data]
         /\ last' \in Result
         /\ health' \in {"fine", "refused", "faulty"} /\ faults' \in 0 .. MaxFaults
<1>1. sec \in Sector /\ 1 \in 0 .. NumCells /\ sec + 1 <= NumSec
  BY Layout, SizeAssumption DEF Sector
<1> QED BY <1>1, CallType

\* The patches of the sector in the buffer.
LEMMA PatchType ==
  ASSUME TypeOK, NEW h \in Half
  PROVE  /\ [cells EXCEPT ![0] = [cells[0] EXCEPT !.lo = h]] \in [Cell -> Data]
         /\ [cells EXCEPT ![0] = [cells[0] EXCEPT !.hi = h]] \in [Cell -> Data]
<1>1. cells[0] \in [lo : Half, hi : Half]
  BY SectorAssumption, Layout DEF TypeOK
<1>2. /\ [cells[0] EXCEPT !.lo = h] \in Data /\ [cells[0] EXCEPT !.hi = h] \in Data
  BY <1>1, SectorAssumption
<1> QED BY <1>2 DEF TypeOK

LEMMA CommandType ==
  ASSUME TypeOK, Position, RstBegin \/ RstRead \/ RstZero \/ RstWrite
                           \/ CmdBegin \/ CmdRead \/ CmdPatch \/ CmdWrite
  PROVE  TypeOK' /\ Position'
<1>1. op' = op /\ got' = got /\ ops' = ops /\ recovering' = recovering
  BY DEF RstBegin, RstRead, RstZero, RstWrite, CmdBegin, CmdRead, CmdPatch, CmdWrite, Step
<1>2. cmd' \in Half
  BY HalfFacts DEF RstBegin, RstRead, RstZero, RstWrite, CmdBegin, CmdRead, CmdPatch, CmdWrite,
                   Step, TypeOK
<1>3. /\ media' \in [Part -> [Sector -> Data]] /\ cells' \in [Cell -> Data] /\ last' \in Result
      /\ health' \in {"fine", "refused", "faulty"} /\ faults' \in 0 .. MaxFaults
  <2>1. CASE RstBegin \/ CmdBegin
    BY <2>1, PendingType DEF RstBegin, CmdBegin, Prepare, TypeOK
  <2>2. CASE RstRead \/ CmdRead
    BY <2>2, SectorCall DEF RstRead, CmdRead
  <2>3. CASE RstWrite \/ CmdWrite
    BY <2>3, SectorCall DEF RstWrite, CmdWrite
  <2>4. CASE RstZero \/ CmdPatch
    <3>1. PICK h \in Half : Prepare0([cells[0] EXCEPT !.lo = h])
      BY <2>4, HalfFacts DEF RstZero, CmdPatch, Patched, TypeOK
    <3>2. cells' \in [Cell -> Data] /\ media' = media /\ last' \in Result
      BY <3>1, PatchType, PendingType DEF Prepare0, Prepare
    <3> QED BY <2>4, <3>2 DEF RstZero, CmdPatch, TypeOK
  <2> QED BY <2>1, <2>2, <2>3, <2>4
<1>4. CASE \E p \in Points \ {"idle", "load", "image"} : Goto(p)
  <2>1. PICK p \in Points \ {"idle", "load", "image"} : Goto(p)
    BY <1>4
  <2>2. Position'
    BY <1>1, <2>1, GotoPosition
  <2> QED BY <1>1, <1>2, <1>3, <2>1, <2>2 DEF TypeOK, Goto
<1>5. CASE \E ok \in BOOLEAN : Return(ok)
  <2>1. PICK ok \in BOOLEAN : Return(ok)
    BY <1>5
  <2> QED BY <1>1, <1>2, <1>3, <2>1, ReturnPosition, ReturnType DEF TypeOK, Points
<1> QED BY <1>4, <1>5
        DEF RstBegin, RstRead, RstZero, RstWrite, CmdBegin, CmdRead, CmdPatch, CmdWrite, Points,
            TypeOK, Outcome

LEMMA SettingsType ==
  ASSUME TypeOK, Position, CfgRead \/ CfgPatch \/ CfgWrite
  PROVE  TypeOK' /\ Position'
<1>1. op' = op /\ ops' = ops /\ recovering' = recovering /\ cmd' = cmd
  BY DEF CfgRead, CfgPatch, CfgWrite, Step
<1>2. /\ media' \in [Part -> [Sector -> Data]] /\ cells' \in [Cell -> Data] /\ last' \in Result
      /\ health' \in {"fine", "refused", "faulty"} /\ faults' \in 0 .. MaxFaults
  <2>1. CASE CfgRead
    BY <2>1, SectorCall DEF CfgRead
  <2>2. CASE CfgWrite
    BY <2>2, SectorCall DEF CfgWrite
  <2>3. CASE CfgPatch
    <3>1. op.cfg \in Half
      BY OpFacts, HalfFacts DEF TypeOK
    <3>2. cells' \in [Cell -> Data] /\ media' = media /\ last' \in Result
      BY <2>3, <3>1, PatchType, PendingType DEF CfgPatch, Prepare0, Prepare
    <3> QED BY <2>3, <3>2 DEF CfgPatch, TypeOK
  <2> QED BY <2>1, <2>2, <2>3
<1>3. got' \in Half
  <2>1. cells'[0] \in [lo : Half, hi : Half]
    BY <1>2, SectorAssumption, Layout
  <2>2. cells'[0].hi \in Half
    BY <2>1
  <2>3. got' \in {got, cells'[0].hi}
    BY DEF CfgRead, CfgPatch, CfgWrite, Step
  <2> QED BY <2>2, <2>3 DEF TypeOK
<1>4. CASE Goto("cfg_patch") \/ Goto("cfg_write")
  BY <1>1, <1>2, <1>3, <1>4, GotoPosition DEF TypeOK, Goto, Points
<1>5. CASE \E ok \in BOOLEAN : Return(ok)
  <2>1. PICK ok \in BOOLEAN : Return(ok)
    BY <1>5
  <2> QED BY <1>1, <1>2, <1>3, <2>1, ReturnPosition, ReturnType DEF TypeOK, Points
<1> QED BY <1>4, <1>5 DEF CfgRead, CfgPatch, CfgWrite

LEMMA AppliedFacts ==
  ASSUME NEW m \in [Part -> [Sector -> Data]]
  PROVE  /\ Applied(m) \in [Part -> [Sector -> Data]]
         /\ \A s \in Sector \ {CmdSec, IplStart, CfgSec} : Applied(m)[BOOT0][s] = m[BOOT0][s]
         /\ Applied(m)[BOOT0][CmdSec].hi = m[BOOT0][CmdSec].hi
         /\ Applied(m)[BOOT0][CmdSec].lo =
              IF m[BOOT0][CmdSec].lo.k \in {"fwcmd", "blcmd", "rstcmd"}
              THEN None ELSE m[BOOT0][CmdSec].lo
<1>1. CASE m[BOOT0][CmdSec].lo.k \notin {"fwcmd", "blcmd", "rstcmd"}
  BY <1>1 DEF Applied
<1>2. CASE m[BOOT0][CmdSec].lo.k \in {"fwcmd", "blcmd", "rstcmd"}
  <2>1. PICK c : c = [m[BOOT0][CmdSec] EXCEPT !.lo = None]
    OBVIOUS
  <2>2. m[BOOT0][CmdSec] \in [lo : Half, hi : Half]
    BY SectorAssumption, Layout
  <2>3. c \in Data /\ c.lo = None /\ c.hi = m[BOOT0][CmdSec].hi
    BY <2>1, <2>2, HalfFacts, SectorAssumption
  <2>4. Applied(m) = [m EXCEPT ![BOOT0] = [m[BOOT0] EXCEPT ![CmdSec] = c,
                                  ![IplStart] = InitMedia[BOOT0][IplStart],
                                  ![CfgSec] = InitMedia[BOOT0][CfgSec]]]
    BY <1>2, <2>1, Layout DEF Applied
  <2>5. CmdSec # IplStart /\ CmdSec # CfgSec
    BY Layout, SizeAssumption DEF Sector
  <2>6. InitMedia[BOOT0][IplStart] \in Data /\ InitMedia[BOOT0][CfgSec] \in Data
    BY ContentAssumption, Layout
  <2> QED BY <1>2, <2>3, <2>4, <2>5, <2>6, Layout
<1> QED BY <1>1, <1>2

\* A write that the power cut short has written none or some of its sectors.
LEMMA TornFacts ==
  ASSUME TypeOK, NEW sec \in Sector, NEW n \in 0 .. NumCells, sec + n <= NumSec,
         NEW k \in 0 .. n
  PROVE  /\ Torn(sec, n, k) \in [Part -> [Sector -> Data]]
         /\ \A s \in Sector : Torn(sec, n, k)[BOOT0][s] =
              IF s - sec \in 0 .. k - 1 THEN cells[s - sec] ELSE media[BOOT0][s]
<1>1. PICK r : r = Write(sec, n)
  OBVIOUS
<1>2. r \in Transfer
  BY <1>1, CallRequest DEF Write
<1>3. First(r) = sec /\ r.off = 0 /\ r.n = n
  BY <1>1 DEF First, Sector, Write
<1>4. Torn(sec, n, k) = Disk!Put(media, BOOT0, cells, r, k)
  BY <1>1 DEF Torn, Write
<1>5. Torn(sec, n, k) \in [Part -> [Sector -> Data]]
  BY <1>2, <1>3, <1>4, Layout, PutType DEF TypeOK
<1>6. Torn(sec, n, k) = [media EXCEPT ![BOOT0] = [s \in Sector |->
        IF s - sec \in 0 .. k - 1 THEN cells[0 + s - sec] ELSE media[BOOT0][s]]]
  BY <1>3, <1>4, Vocabulary DEF Disk!Put
<1>7. \A s \in Sector : 0 + s - sec = s - sec
  BY SizeAssumption DEF Sector
<1>8. media \in [Part -> [Sector -> Data]]
  BY DEF TypeOK
<1> QED BY <1>5, <1>6, <1>7, <1>8, Layout

\* When the power goes, at most the write in progress has changed the card.
LEMMA PowerFacts ==
  ASSUME TypeOK, Position, NEW m \in AfterPower
  PROVE  \/ m = media
         \/ /\ pc = "image" /\ op.k \in Updates
            /\ \E j \in 0 .. Sectors(Piece) :
                 m = Torn(Area(op.k) + idx \div SecSize, Sectors(Piece), j)
         \/ pc \in {"cmd_write", "rst_write"} /\ m = Torn(CmdSec, 1, 1)
         \/ pc = "cfg_write" /\ m = Torn(CfgSec, 1, 1)
BY DEF AfterPower, Position

LEMMA PowerType ==
  ASSUME TypeOK, Position, NEW m \in AfterPower PROVE m \in [Part -> [Sector -> Data]]
<1>1. CASE m = media
  BY <1>1 DEF TypeOK
<1>2. CASE m = Torn(CmdSec, 1, 1) \/ m = Torn(CfgSec, 1, 1)
  <2>1. /\ 1 \in 0 .. NumCells /\ 1 \in 0 .. 1 /\ CmdSec \in Sector /\ CfgSec \in Sector
        /\ CmdSec + 1 <= NumSec /\ CfgSec + 1 <= NumSec
    BY Layout, SizeAssumption DEF Sector
  <2> QED BY <1>2, <2>1, TornFacts
<1>3. CASE /\ pc = "image" /\ op.k \in Updates
           /\ \E j \in 0 .. Sectors(Piece) :
                 m = Torn(Area(op.k) + idx \div SecSize, Sectors(Piece), j)
  <2>1. PICK k \in Nat : idx = k * SecSize
    BY DEF Position
  <2>2. /\ op \in Op /\ idx \in 0 .. FwMax /\ (idx = 0 \/ idx < op.size)
        /\ (idx # 0 => Chunked) /\ (op.k = "fw" \/ op.size <= UpBytes)
    BY <1>3 DEF TypeOK, Position
  <2>3. /\ idx \div SecSize = k /\ Sectors(Piece) \in 0 .. NumCells
        /\ Area(op.k) + k \in Sector
        /\ Area(op.k) + k + Sectors(Piece) <= (IF op.k = "ipl" THEN CfgSec ELSE NumSec)
    BY <1>3, <2>1, <2>2, PieceFacts
  <2>4. Area(op.k) + k + Sectors(Piece) <= NumSec
    BY <2>3, SizeAssumption DEF CfgSec, Sector
  <2> QED BY <1>3, <2>3, <2>4, TornFacts
<1> QED BY <1>1, <1>2, <1>3, PowerFacts

LEMMA RebootType == ASSUME TypeOK, Position, Reboot PROVE TypeOK' /\ Position'
<1>1. media' \in [Part -> [Sector -> Data]]
  BY PowerType, AppliedFacts DEF Reboot
<1>2. cells' \in [Cell -> Data] /\ last' \in Result
  BY ContentAssumption, PendingType DEF Reboot
<1>3. op' \in Op /\ cmd' \in Half /\ got' \in Half
  BY HalfFacts DEF Reboot, Idle, Op
<1>4. idx' = 0 /\ 0 \in 0 .. FwMax /\ 0 = 0 * SecSize /\ pc' = "idle"
  BY Bytes, LayoutAssumption DEF Reboot
<1>5. Position'
  BY <1>4 DEF Position
<1> QED BY <1>1, <1>2, <1>3, <1>4, <1>5 DEF Reboot, TypeOK, Points

LEMMA WorkType == ASSUME TypeOK, Position, Work PROVE TypeOK' /\ Position'
BY LoadType, WriteImageType, CommandType, SettingsType DEF Work

LEMMA StepType == TypeOK /\ Position /\ [Next]_mvars => TypeOK' /\ Position'
<1>1. TypeOK /\ Position /\ UNCHANGED mvars => TypeOK' /\ Position'
  BY DEF TypeOK, Position, mvars, disk, Chunked
<1> QED BY <1>1, StartType, WorkType, RebootType DEF Next

\* The card and the buffer hold sectors, the operations and their operands are
\* those of modchip.c, an image is written at the start of a sector.
THEOREM TypesHold == Spec => [](TypeOK /\ Position)
BY InitType, StepType, PTL DEF Spec

-----------------------------------------------------------------------------
(* Commands.                                                               *)

RstPoints == {"rst", "rst_read", "rst_zero", "rst_write"}
CmdPoints == {"cmd", "cmd_read", "cmd_patch", "cmd_write"}
CfgPoints == {"cfg_read", "cfg_patch", "cfg_write"}

RollbackCmd == Mk("fwcmd", AllOnes, AllOnes)

\* A command goes with the operation it is for: an update sends its own unless
\* its image failed, then a reset.
Linked ==
  /\ pc \in {"load", "image"} => ~recovering
  /\ recovering => op.k \in Updates
  /\ pc \in RstPoints => op.k = "rst" \/ recovering
  /\ pc \in CmdPoints =>
       \/ cmd = UpdateCmd /\ op.k \in {"fw", "bl"} /\ ~recovering
       \/ cmd = RollbackCmd /\ op.k = "rollback"
       \/ cmd = RstCmd /\ (op.k = "rst" \/ recovering)
  /\ pc \in CfgPoints => op.k \in {"getcfg", "setcfg", "desc"}
  /\ pc \in {"cfg_patch", "cfg_write"} => op.k = "setcfg"

\* The buffer is ready for the sector that is written next; the reset comes to
\* its write after a read that failed only.
Staged ==
  /\ pc = "cmd_write" => cells[0].lo = cmd
  /\ pc = "rst_write" => cells[0].lo = None
  /\ pc = "cfg_write" => cells[0].hi = op.cfg
  /\ health = "fine" =>
       /\ pc \notin {"rst_zero", "rst_write"}
       /\ pc \in {"cmd_patch", "cmd_write"} => cells[0].hi = InitMedia[BOOT0][CmdSec].hi

\* There is a command of modchip.c in the command sector, or none.
KnownCommand == health # "faulty" => Command.k \in {"none", "fwcmd", "blcmd", "rstcmd"}

CommandInv == Linked /\ Staged /\ KnownCommand /\ BootDataKept /\ ReportedSent

\* A call for the sector of the commands or the settings, as long as the card
\* has no fault.
LEMMA SectorWrite ==
  ASSUME TypeOK, NEW sec \in {CmdSec, CfgSec}, NEW ok \in BOOLEAN,
         DiskCall("write", sec, 1, ok), health' # "faulty"
  PROVE  /\ health # "faulty" /\ health' = (IF ok THEN health ELSE "refused")
         /\ UNCHANGED cells
         /\ ok => media'[BOOT0][sec] = cells[0]
         /\ ~ok => UNCHANGED media
         /\ \A s \in Sector \ {sec} : media'[BOOT0][s] = media[BOOT0][s]
<1>1. sec \in Sector /\ 1 \in 0 .. NumCells /\ sec + 1 <= NumSec
  BY Layout, SizeAssumption DEF Sector
<1>2. /\ health # "faulty" /\ health' = (IF ok THEN health ELSE "refused")
      /\ UNCHANGED cells
      /\ ~ok => UNCHANGED media
      /\ ok => \A s \in Sector : media'[BOOT0][s] =
                IF s - sec \in 0 .. 1 - 1 THEN cells[s - sec] ELSE media[BOOT0][s]
  BY <1>1, CallEffect
<1>3. sec - sec = 0 /\ 0 \in 0 .. 1 - 1 /\ \A s \in Sector \ {sec} : s - sec \notin 0 .. 1 - 1
  BY <1>1, SizeAssumption DEF Sector
<1> QED BY <1>1, <1>2, <1>3

LEMMA SectorRead ==
  ASSUME TypeOK, NEW sec \in {CmdSec, CfgSec}, NEW ok \in BOOLEAN,
         DiskCall("read", sec, 1, ok), health' # "faulty"
  PROVE  /\ health # "faulty" /\ health' = (IF ok THEN health ELSE "refused")
         /\ UNCHANGED media
         /\ ok => cells'[0] = media[BOOT0][sec]
<1>1. sec \in Sector /\ 1 \in 0 .. NumCells /\ sec + 1 <= NumSec /\ sec + 0 = sec /\ 0 < 1
  BY Layout, SizeAssumption DEF Sector
<1>2. /\ health # "faulty" /\ health' = (IF ok THEN health ELSE "refused")
      /\ UNCHANGED media
      /\ ok => \A x \in Cell : x < 1 => cells'[x] = media[BOOT0][sec + x]
  BY <1>1, CallEffect
<1> QED BY <1>1, <1>2, Layout

\* A piece of an image is written where it belongs, and nothing else is.
LEMMA PieceWrite ==
  ASSUME TypeOK, Position, WriteImage, health' # "faulty"
  PROVE  /\ health # "faulty" /\ UNCHANGED cells
         /\ \/ UNCHANGED media /\ Recover
            \/ /\ health' = health
               /\ \A s \in Sector : media'[BOOT0][s] =
                    IF s - (Area(op.k) + idx \div SecSize) \in 0 .. Sectors(Piece) - 1
                    THEN cells[s - (Area(op.k) + idx \div SecSize)] ELSE media[BOOT0][s]
<1>1. PICK k \in Nat : idx = k * SecSize
  BY DEF Position
<1>2. /\ op \in Op /\ idx \in 0 .. FwMax /\ (idx = 0 \/ idx < op.size) /\ op.k \in Updates
      /\ (idx # 0 => Chunked) /\ (op.k = "fw" \/ op.size <= UpBytes)
  BY DEF TypeOK, Position, WriteImage
<1>3. /\ idx \div SecSize = k /\ Sectors(Piece) \in 0 .. NumCells
      /\ Area(op.k) + k \in Sector
      /\ Area(op.k) + k + Sectors(Piece) <= (IF op.k = "ipl" THEN CfgSec ELSE NumSec)
  BY <1>1, <1>2, PieceFacts
<1>4. Area(op.k) + k + Sectors(Piece) <= NumSec
  BY <1>3, SizeAssumption DEF CfgSec, Sector
<1>5. \/ DiskCall("write", Area(op.k) + idx \div SecSize, Sectors(Piece), TRUE)
      \/ DiskCall("write", Area(op.k) + idx \div SecSize, Sectors(Piece), FALSE) /\ Recover
  BY DEF WriteImage
<1> QED BY <1>3, <1>4, <1>5, CallEffect

\* No image reaches down to the command sector.
LEMMA AreaAbove ==
  ASSUME NEW kind, NEW k \in Nat, NEW n \in Nat
  PROVE  CmdSec - (Area(kind) + k) \notin 0 .. n
BY Layout, SizeAssumption, SMT DEF Area, Sector

LEMMA CommandInit == Init => CommandInv
<1> SUFFICES ASSUME Init PROVE CommandInv
  OBVIOUS
<1>1. media[BOOT0][CmdSec].lo = None /\ pc = "idle" /\ res = "none" /\ ~recovering
  BY PowerOnAssumption DEF Init
<1>2. None.k = "none"
  BY DEF None, Mk
<1>3. Linked /\ Staged /\ KnownCommand /\ ReportedSent
  BY <1>1, <1>2 DEF Linked, Staged, KnownCommand, Command, ReportedSent, RstPoints, CmdPoints,
                    CfgPoints
<1>4. BootDataKept
  BY DEF Init, BootDataKept
<1> QED BY <1>3, <1>4 DEF CommandInv

\* A step that leaves the command sector alone keeps what is said of it.
LEMMA SameCommand ==
  ASSUME CommandInv, media'[BOOT0][CmdSec] = media[BOOT0][CmdSec],
         health' # "faulty" => health # "faulty", health' = "fine" => health = "fine"
  PROVE  KnownCommand' /\ BootDataKept'
BY DEF CommandInv, KnownCommand, BootDataKept, Command

LEMMA StartCommand ==
  ASSUME TypeOK, Position, CommandInv, NEW o \in Op, Start(o) PROVE CommandInv'
<1>1. UNCHANGED <<media, cells, health>> /\ pc' = Entry(o) /\ op' = o /\ ~recovering'
  BY DEF Start, Prepare
<1>2. KnownCommand' /\ BootDataKept'
  BY <1>1, SameCommand
<1>3. /\ o.k \in {"rst", "rollback", "getcfg", "desc", "fw", "bl", "ipl", "setcfg"}
  BY OpFacts
<1>4. Linked'
  BY <1>1, <1>3 DEF Start, Entry, Linked, RstPoints, CmdPoints, CfgPoints, RollbackCmd, Updates
<1>5. pc' \in {"load", "rst", "cmd", "cfg_read"}
  BY <1>1 DEF Entry
<1>6. Staged' /\ ReportedSent'
  BY <1>5 DEF Staged, ReportedSent
<1> QED BY <1>2, <1>4, <1>6 DEF CommandInv

LEMMA LoadCommand == ASSUME TypeOK, Position, CommandInv, Load PROVE CommandInv'
<1>1. UNCHANGED <<media, op, cmd>> /\ health' \in {health, "faulty"}
  BY DEF Load, Prepare, disk
<1>2. KnownCommand' /\ BootDataKept'
  BY <1>1, SameCommand
<1>3. pc' \in {"image", "rst", "idle"} /\ op.k \in Updates /\ ~recovering
  BY DEF Load, Goto, Return, Recover, Position, CommandInv, Linked
<1>4. pc' = "rst" => recovering'
  BY DEF Load, Goto, Return, Recover
<1>5. pc' # "rst" => ~recovering'
  BY <1>3 DEF Load, Goto, Return, Recover
<1>6. Linked'
  BY <1>1, <1>3, <1>4, <1>5 DEF Linked, RstPoints, CmdPoints, CfgPoints
<1>7. Staged'
  BY <1>3 DEF Staged
<1>8. ReportedSent'
  BY DEF ReportedSent, Load, Goto, Return, Recover
<1> QED BY <1>2, <1>6, <1>7, <1>8 DEF CommandInv

LEMMA ImageCommand == ASSUME TypeOK, Position, CommandInv, WriteImage PROVE CommandInv'
<1>1. op' = op /\ op.k \in Updates /\ ~recovering
  BY DEF WriteImage, Position, CommandInv, Linked
<1>2. KnownCommand' /\ BootDataKept'
  <2>1. CASE health' = "faulty"
    BY <2>1 DEF KnownCommand, BootDataKept
  <2>2. CASE health' # "faulty"
    <3>1. PICK k \in Nat : idx = k * SecSize
      BY DEF Position
    <3>2. /\ op \in Op /\ idx \in 0 .. FwMax /\ (idx = 0 \/ idx < op.size)
          /\ (idx # 0 => Chunked) /\ (op.k = "fw" \/ op.size <= UpBytes)
      BY DEF TypeOK, Position, WriteImage
    <3>3. idx \div SecSize = k /\ Sectors(Piece) \in 0 .. NumCells
      BY <1>1, <3>1, <3>2, PieceFacts
    <3>4. CmdSec - (Area(op.k) + k) \notin 0 .. Sectors(Piece) - 1
      <4>1. CASE Sectors(Piece) = 0
        BY <4>1, Layout, SizeAssumption DEF Area, Sector
      <4>2. CASE Sectors(Piece) # 0
        <5>1. Sectors(Piece) - 1 \in Nat
          BY <3>3, <4>2, SizeAssumption
        <5> QED BY <5>1, AreaAbove
      <4> QED BY <4>1, <4>2
    <3>5. media'[BOOT0][CmdSec] = media[BOOT0][CmdSec]
      BY <2>2, <3>3, <3>4, PieceWrite, Layout
    <3>6. health # "faulty" /\ (health' = "fine" => health = "fine")
      <4>1. health' = Worse(TRUE, TRUE) \/ health' = Worse(FALSE, TRUE)
            \/ health' = Worse(TRUE, FALSE) \/ health' = Worse(FALSE, FALSE)
        BY DEF WriteImage, DiskCall
      <4> QED BY <2>2, <4>1 DEF Worse, TypeOK
    <3> QED BY <3>5, <3>6, SameCommand
  <2> QED BY <2>1, <2>2
<1>3. \/ pc' \in {"load", "idle"} /\ ~recovering' /\ (pc' = "idle" => op.k = "ipl")
      \/ pc' = "cmd" /\ cmd' = UpdateCmd /\ op.k # "ipl" /\ ~recovering'
      \/ pc' = "rst" /\ recovering'
  BY <1>1 DEF WriteImage, Goto, Return, Recover
<1>4. UpdateCmd' = UpdateCmd
  BY <1>1 DEF UpdateCmd, Count, Chunked, Sectors, Mk
<1>5. Linked'
  BY <1>1, <1>3, <1>4 DEF Linked, RstPoints, CmdPoints, CfgPoints, Updates
<1>6. Staged' /\ ReportedSent'
  BY <1>1, <1>3 DEF Staged, ReportedSent
<1> QED BY <1>2, <1>5, <1>6 DEF CommandInv

\* A call never makes the history of the calls better.
LEMMA HealthGrows ==
  ASSUME TypeOK, NEW kind, NEW sec, NEW n, NEW ok \in BOOLEAN, DiskCall(kind, sec, n, ok)
  PROVE  /\ health' # "faulty" => health # "faulty"
         /\ health' = "fine" => health = "fine" /\ ok
BY DEF DiskCall, Worse, TypeOK

\* What the sector in the buffer is after a patch of one half.
LEMMA PatchFacts ==
  ASSUME TypeOK, NEW h \in Half
  PROVE  /\ [cells EXCEPT ![0] = [cells[0] EXCEPT !.lo = h]][0].lo = h
         /\ [cells EXCEPT ![0] = [cells[0] EXCEPT !.lo = h]][0].hi = cells[0].hi
         /\ [cells EXCEPT ![0] = [cells[0] EXCEPT !.hi = h]][0].hi = h
<1>1. cells[0] \in [lo : Half, hi : Half]
  BY SectorAssumption, Layout DEF TypeOK
<1>2. cells \in [Cell -> Data]
  BY DEF TypeOK
<1>3. /\ [cells[0] EXCEPT !.lo = h].lo = h /\ [cells[0] EXCEPT !.lo = h].hi = cells[0].hi
      /\ [cells[0] EXCEPT !.hi = h].hi = h
  BY <1>1
<1> QED BY <1>2, <1>3, Layout

LEMMA BeginCommand ==
  ASSUME TypeOK, Position, CommandInv, RstBegin \/ CmdBegin PROVE CommandInv'
<1>1. UNCHANGED <<media, cells, health, op, cmd, recovering, res>>
  BY DEF RstBegin, CmdBegin, Prepare, Goto, Step
<1>2. KnownCommand' /\ BootDataKept'
  BY <1>1, SameCommand
<1>3. (pc = "rst" /\ pc' = "rst_read") \/ (pc = "cmd" /\ pc' = "cmd_read")
  BY DEF RstBegin, CmdBegin, Goto
<1>4. UpdateCmd' = UpdateCmd
  BY <1>1 DEF UpdateCmd, Count, Chunked, Sectors, Mk
<1>5. Linked'
  BY <1>1, <1>3, <1>4 DEF CommandInv, Linked, RstPoints, CmdPoints, CfgPoints
<1>6. Staged' /\ ReportedSent'
  BY <1>3 DEF Staged, ReportedSent
<1> QED BY <1>2, <1>5, <1>6 DEF CommandInv

LEMMA ReadCommand ==
  ASSUME TypeOK, Position, CommandInv, RstRead \/ CmdRead PROVE CommandInv'
<1>1. PICK ok \in BOOLEAN : DiskCall("read", CmdSec, 1, ok) /\ (pc' # "idle" /\ pc = "cmd_read" => ok)
                            /\ (pc' # "idle" /\ pc = "rst_read" => ~ok)
  BY DEF RstRead, CmdRead, Goto, Return
<1>2. UNCHANGED <<op, cmd, recovering>>
  BY DEF RstRead, CmdRead, Step
<1>3. /\ health' # "faulty" => health # "faulty"
      /\ health' = "fine" => health = "fine" /\ ok
  BY <1>1, HealthGrows
<1>4. health' # "faulty" => UNCHANGED media /\ (ok => cells'[0] = media[BOOT0][CmdSec])
  BY <1>1, SectorRead
<1>5. KnownCommand' /\ BootDataKept'
  BY <1>3, <1>4, SameCommand DEF KnownCommand, BootDataKept
<1>6. \/ pc = "rst_read" /\ pc' = "rst_zero"
      \/ pc = "cmd_read" /\ pc' = "cmd_patch"
      \/ pc' = "idle" /\ res' = "fail"
  BY DEF RstRead, CmdRead, Goto, Return
<1>7. UpdateCmd' = UpdateCmd
  BY <1>2 DEF UpdateCmd, Count, Chunked, Sectors, Mk
<1>8. Linked'
  BY <1>2, <1>6, <1>7 DEF CommandInv, Linked, RstPoints, CmdPoints, CfgPoints
<1>9. Staged'
  <2>1. pc' = "rst_zero" => health' # "fine"
    BY <1>1, <1>3, <1>6
  <2>2. pc' = "cmd_patch" /\ health' = "fine" => cells'[0].hi = InitMedia[BOOT0][CmdSec].hi
    BY <1>1, <1>3, <1>4, <1>6 DEF CommandInv, BootDataKept
  <2> QED BY <1>6, <2>1, <2>2 DEF Staged
<1>10. ReportedSent'
  BY <1>6 DEF ReportedSent
<1> QED BY <1>5, <1>8, <1>9, <1>10 DEF CommandInv

LEMMA PatchCommand ==
  ASSUME TypeOK, Position, CommandInv, RstZero \/ CmdPatch PROVE CommandInv'
<1>1. UNCHANGED <<media, health, op, cmd, recovering, res>>
  BY DEF RstZero, CmdPatch, Prepare0, Prepare, Goto, Step
<1>2. KnownCommand' /\ BootDataKept'
  BY <1>1, SameCommand
<1>3. PICK h \in {None, cmd} :
        /\ cells' = [cells EXCEPT ![0] = [cells[0] EXCEPT !.lo = h]]
        /\ \/ pc = "rst_zero" /\ pc' = "rst_write" /\ h = None
           \/ pc = "cmd_patch" /\ pc' = "cmd_write" /\ h = cmd
  BY DEF RstZero, CmdPatch, Prepare0, Prepare, Goto, Patched
<1>4. h \in Half
  BY HalfFacts DEF TypeOK
<1>5. cells'[0].lo = h /\ cells'[0].hi = cells[0].hi
  BY <1>3, <1>4, PatchFacts
<1>6. UpdateCmd' = UpdateCmd
  BY <1>1 DEF UpdateCmd, Count, Chunked, Sectors, Mk
<1>7. Linked'
  BY <1>1, <1>3, <1>6 DEF CommandInv, Linked, RstPoints, CmdPoints, CfgPoints
<1>8. Staged'
  BY <1>1, <1>3, <1>5 DEF CommandInv, Staged
<1>9. ReportedSent'
  BY <1>3 DEF ReportedSent
<1> QED BY <1>2, <1>7, <1>8, <1>9 DEF CommandInv

\* The commands that can be in the buffer when the sector is written.
LEMMA LinkedCommand ==
  ASSUME CommandInv, pc \in CmdPoints PROVE cmd.k \in {"fwcmd", "blcmd", "rstcmd"}
BY DEF CommandInv, Linked, UpdateCmd, RollbackCmd, RstCmd, Mk

LEMMA WriteCommand ==
  ASSUME TypeOK, Position, CommandInv, RstWrite \/ CmdWrite PROVE CommandInv'
<1>1. PICK ok \in BOOLEAN :
        /\ DiskCall("write", CmdSec, 1, ok)
        /\ \/ pc = "rst_write" /\ ok /\ pc' = "idle" /\ res' = "fail" /\ cmd' = cmd
           \/ pc = "rst_write" /\ ~ok /\ pc' = "cmd" /\ cmd' = RstCmd
           \/ pc = "cmd_write" /\ pc' = "idle" /\ cmd' = cmd /\ (res' = "ok" => (ok /\ ~recovering))
  BY DEF RstWrite, CmdWrite, Goto, Return, Outcome, Step
<1>2. UNCHANGED <<op, recovering>>
  BY DEF RstWrite, CmdWrite, Step
<1>3. /\ health' # "faulty" => health # "faulty"
      /\ health' = "fine" => health = "fine" /\ ok
  BY <1>1, HealthGrows
<1>4. /\ health' # "faulty" /\ ok => media'[BOOT0][CmdSec] = cells[0]
      /\ health' # "faulty" /\ ~ok => UNCHANGED media
  BY <1>1, SectorWrite
<1>5. cells[0].lo = (IF pc = "rst_write" THEN None ELSE cmd)
  BY <1>1 DEF CommandInv, Staged
<1>6. KnownCommand'
  <2>1. None.k = "none"
    BY DEF None, Mk
  <2>2. pc = "cmd_write" => cmd.k \in {"fwcmd", "blcmd", "rstcmd"}
    BY LinkedCommand DEF CmdPoints
  <2>3. ASSUME health' # "faulty" PROVE Command'.k \in {"none", "fwcmd", "blcmd", "rstcmd"}
    <3>1. CASE ok
      <4>1. Command' = cells[0].lo
        BY <1>4, <2>3, <3>1 DEF Command
      <4>2. cells[0].lo = None \/ (pc = "cmd_write" /\ cells[0].lo = cmd)
        BY <1>1, <1>5
      <4> QED BY <2>1, <2>2, <4>1, <4>2
    <3>2. CASE ~ok
      BY <1>3, <1>4, <2>3, <3>2 DEF Command, CommandInv, KnownCommand
    <3> QED BY <3>1, <3>2
  <2> QED BY <2>3 DEF KnownCommand
<1>7. BootDataKept'
  <2>1. ASSUME health' = "fine" PROVE media'[BOOT0][CmdSec].hi = InitMedia[BOOT0][CmdSec].hi
    <3>1. ok /\ health = "fine" /\ pc = "cmd_write"
      <4>1. ok /\ health = "fine"
        BY <1>3, <2>1
      <4>2. pc # "rst_write"
        BY <4>1 DEF CommandInv, Staged
      <4> QED BY <1>1, <4>1, <4>2
    <3>2. media'[BOOT0][CmdSec] = cells[0]
      BY <1>4, <2>1, <3>1
    <3> QED BY <3>1, <3>2 DEF CommandInv, Staged
  <2> QED BY <2>1 DEF BootDataKept
<1>8. UpdateCmd' = UpdateCmd
  BY <1>2 DEF UpdateCmd, Count, Chunked, Sectors, Mk
<1>9. Linked'
  BY <1>1, <1>2, <1>8 DEF CommandInv, Linked, RstPoints, CmdPoints, CfgPoints
<1>10. Staged'
  BY <1>1 DEF Staged
<1>11. ReportedSent'
  <2>1. ASSUME pc' = "idle", res' = "ok", health' # "faulty" PROVE Command' = cmd /\ pc = "cmd_write" /\ ~recovering
    <3>1. pc = "cmd_write" /\ ok /\ ~recovering
      BY <1>1, <2>1
    <3>2. media'[BOOT0][CmdSec] = cells[0]
      BY <1>4, <2>1, <3>1
    <3> QED BY <1>5, <3>1, <3>2 DEF Command
  <2>2. ASSUME pc = "cmd_write", ~recovering
        PROVE  /\ op.k = "rst" => cmd = RstCmd
               /\ op.k = "rollback" => cmd = RollbackCmd
               /\ op.k \in {"fw", "bl"} => cmd = UpdateCmd
    BY <2>2 DEF CommandInv, Linked, CmdPoints
  <2> QED BY <1>2, <1>8, <2>1, <2>2 DEF ReportedSent, RollbackCmd
<1> QED BY <1>6, <1>7, <1>9, <1>10, <1>11 DEF CommandInv

LEMMA SettingsCommand ==
  ASSUME TypeOK, Position, CommandInv, CfgRead \/ CfgPatch \/ CfgWrite PROVE CommandInv'
<1>1. UNCHANGED <<op, cmd, recovering>> /\ op.k \in {"getcfg", "setcfg", "desc"}
  BY DEF CfgRead, CfgPatch, CfgWrite, Step, CommandInv, Linked, CfgPoints
<1>2. \/ pc' = "idle"
      \/ pc = "cfg_read" /\ pc' = "cfg_patch" /\ op.k = "setcfg"
      \/ pc = "cfg_patch" /\ pc' = "cfg_write" /\ op.k = "setcfg"
  BY DEF CfgRead, CfgPatch, CfgWrite, Goto, Return, CommandInv, Linked
<1>3. Linked'
  BY <1>1, <1>2 DEF CommandInv, Linked, RstPoints, CmdPoints, CfgPoints, Updates
<1>4. KnownCommand' /\ BootDataKept'
  <2>1. CASE CfgRead
    <3>1. PICK ok \in BOOLEAN : DiskCall("read", CfgSec, 1, ok)
      BY <2>1 DEF CfgRead
    <3>2. (health' # "faulty" => health # "faulty") /\ (health' = "fine" => health = "fine")
      BY <3>1, HealthGrows
    <3>3. health' # "faulty" => UNCHANGED media
      BY <3>1, SectorRead
    <3> QED BY <3>2, <3>3, SameCommand DEF KnownCommand, BootDataKept
  <2>2. CASE CfgPatch
    BY <2>2, SameCommand DEF CfgPatch, Prepare0, Prepare
  <2>3. CASE CfgWrite
    <3>1. PICK ok \in BOOLEAN : DiskCall("write", CfgSec, 1, ok)
      BY <2>3 DEF CfgWrite
    <3>2. (health' # "faulty" => health # "faulty") /\ (health' = "fine" => health = "fine")
      BY <3>1, HealthGrows
    <3>3. CmdSec \in Sector \ {CfgSec}
      BY Layout, SizeAssumption DEF Sector
    <3>4. health' # "faulty" => media'[BOOT0][CmdSec] = media[BOOT0][CmdSec]
      BY <3>1, <3>3, SectorWrite
    <3> QED BY <3>2, <3>4, SameCommand DEF KnownCommand, BootDataKept
  <2> QED BY <2>1, <2>2, <2>3
<1>5. Staged'
  <2>1. pc' = "cfg_write" => cells'[0].hi = op.cfg
    <3>1. CASE CfgPatch
      <4>1. op.cfg \in Half /\ op' = op
        BY <1>1, OpFacts, HalfFacts DEF TypeOK
      <4> QED BY <3>1, <4>1, PatchFacts DEF CfgPatch, Prepare0, Prepare
    <3>2. CASE ~CfgPatch
      BY <3>2 DEF CfgRead, CfgWrite, Goto, Return
    <3> QED BY <3>1, <3>2
  <2> QED BY <1>1, <1>2, <2>1 DEF Staged
<1>6. ReportedSent'
  BY <1>1 DEF ReportedSent
<1> QED BY <1>3, <1>4, <1>5, <1>6 DEF CommandInv

\* What the command sector can hold when the power comes back.
LEMMA PowerCommand ==
  ASSUME TypeOK, Position, CommandInv, NEW m \in AfterPower
  PROVE  m[BOOT0][CmdSec] \in
           {media[BOOT0][CmdSec]} \cup (IF pc \in {"cmd_write", "rst_write"} THEN {cells[0]} ELSE {})
<1>1. CASE m = media
  BY <1>1
<1>2. CASE /\ pc = "image" /\ op.k \in Updates
           /\ \E j \in 0 .. Sectors(Piece) :
                 m = Torn(Area(op.k) + idx \div SecSize, Sectors(Piece), j)
  <2>1. PICK k \in Nat : idx = k * SecSize
    BY DEF Position
  <2>2. /\ op \in Op /\ idx \in 0 .. FwMax /\ (idx = 0 \/ idx < op.size)
        /\ (idx # 0 => Chunked) /\ (op.k = "fw" \/ op.size <= UpBytes)
    BY <1>2 DEF TypeOK, Position
  <2>3. /\ idx \div SecSize = k /\ Sectors(Piece) \in 0 .. NumCells
        /\ Area(op.k) + k \in Sector
        /\ Area(op.k) + k + Sectors(Piece) <= (IF op.k = "ipl" THEN CfgSec ELSE NumSec)
    BY <1>2, <2>1, <2>2, PieceFacts
  <2>4. Area(op.k) + k + Sectors(Piece) <= NumSec
    BY <2>3, SizeAssumption DEF CfgSec, Sector
  <2>5. PICK j \in 0 .. Sectors(Piece) : m = Torn(Area(op.k) + k, Sectors(Piece), j)
    BY <1>2, <2>3
  <2>6. CmdSec - (Area(op.k) + k) \notin 0 .. j - 1
    <3>1. \A i \in 0 .. j - 1 : i \in 0 .. j
      BY <2>3, SizeAssumption
    <3> QED BY <2>3, <3>1, AreaAbove, SizeAssumption
  <2> QED BY <2>3, <2>4, <2>5, <2>6, TornFacts, Layout
<1>3. CASE pc \in {"cmd_write", "rst_write"} /\ m = Torn(CmdSec, 1, 1)
  <2>1. /\ 1 \in 0 .. NumCells /\ 1 \in 0 .. 1 /\ CmdSec + 1 <= NumSec
        /\ CmdSec - CmdSec = 0 /\ 0 \in 0 .. 1 - 1
    BY Layout, SizeAssumption DEF Sector
  <2> QED BY <1>3, <2>1, TornFacts, Layout
<1>4. CASE m = Torn(CfgSec, 1, 1)
  <2>1. /\ 1 \in 0 .. NumCells /\ 1 \in 0 .. 1 /\ CfgSec + 1 <= NumSec
        /\ CmdSec - CfgSec \notin 0 .. 1 - 1
    BY Layout, SizeAssumption DEF Sector
  <2> QED BY <1>4, <2>1, TornFacts, Layout
<1> QED BY <1>1, <1>2, <1>3, <1>4, PowerFacts

\* The modchip has cleared every command when the program starts again.
LEMMA RebootClears ==
  ASSUME TypeOK, Position, CommandInv, Reboot, health # "faulty" PROVE Command'.k = "none"
<1>1. PICK m \in AfterPower : media' = Applied(m)
  BY DEF Reboot
<1>2. /\ m[BOOT0][CmdSec] \in
           {media[BOOT0][CmdSec]} \cup (IF pc \in {"cmd_write", "rst_write"} THEN {cells[0]} ELSE {})
  BY PowerCommand
<1>3. media'[BOOT0][CmdSec].lo =
           IF m[BOOT0][CmdSec].lo.k \in {"fwcmd", "blcmd", "rstcmd"}
           THEN None ELSE m[BOOT0][CmdSec].lo
  BY <1>1, PowerType, AppliedFacts
<1>4. None.k = "none"
  BY DEF None, Mk
<1>5. m[BOOT0][CmdSec].lo.k \in {"none", "fwcmd", "blcmd", "rstcmd"}
  <2>1. CASE m[BOOT0][CmdSec] = media[BOOT0][CmdSec]
    BY <2>1 DEF CommandInv, KnownCommand, Command
  <2>2. CASE pc = "rst_write" /\ m[BOOT0][CmdSec] = cells[0]
    BY <1>4, <2>2 DEF CommandInv, Staged
  <2>3. CASE pc = "cmd_write" /\ m[BOOT0][CmdSec] = cells[0]
    BY <2>3, LinkedCommand DEF CommandInv, Staged, CmdPoints
  <2> QED BY <1>2, <2>1, <2>2, <2>3
<1> QED BY <1>3, <1>4, <1>5 DEF Command

LEMMA RebootCommand == ASSUME TypeOK, Position, CommandInv, Reboot PROVE CommandInv'
<1>1. PICK m \in AfterPower : media' = Applied(m)
  BY DEF Reboot
<1>2. /\ m[BOOT0][CmdSec] \in
           {media[BOOT0][CmdSec]} \cup (IF pc \in {"cmd_write", "rst_write"} THEN {cells[0]} ELSE {})
  BY PowerCommand
<1>3. /\ media'[BOOT0][CmdSec].hi = m[BOOT0][CmdSec].hi
      /\ media'[BOOT0][CmdSec].lo =
           IF m[BOOT0][CmdSec].lo.k \in {"fwcmd", "blcmd", "rstcmd"}
           THEN None ELSE m[BOOT0][CmdSec].lo
  BY <1>1, PowerType, AppliedFacts
<1>4. health' = health /\ pc' = "idle" /\ op' = Idle /\ ~recovering' /\ res' = "none"
  BY DEF Reboot
<1>5. None.k = "none"
  BY DEF None, Mk
<1>6. KnownCommand'
  BY <1>4, RebootClears DEF KnownCommand
<1>7. BootDataKept'
  <2>1. ASSUME health = "fine"
        PROVE  m[BOOT0][CmdSec].hi = InitMedia[BOOT0][CmdSec].hi
    <3>1. CASE m[BOOT0][CmdSec] = media[BOOT0][CmdSec]
      BY <2>1, <3>1 DEF CommandInv, BootDataKept
    <3>2. CASE pc \in {"cmd_write", "rst_write"} /\ m[BOOT0][CmdSec] = cells[0]
      BY <2>1, <3>2 DEF CommandInv, Staged
    <3> QED BY <1>2, <3>1, <3>2
  <2> QED BY <1>3, <1>4, <2>1 DEF BootDataKept
<1>8. Linked' /\ Staged' /\ ReportedSent'
  BY <1>4 DEF Linked, Staged, ReportedSent, RstPoints, CmdPoints, CfgPoints
<1> QED BY <1>6, <1>7, <1>8 DEF CommandInv

LEMMA WorkCommand == ASSUME TypeOK, Position, CommandInv, Work PROVE CommandInv'
BY LoadCommand, ImageCommand, BeginCommand, ReadCommand, PatchCommand, WriteCommand,
   SettingsCommand DEF Work

LEMMA StepCommand == TypeOK /\ Position /\ CommandInv /\ [Next]_mvars => CommandInv'
<1>1. ASSUME CommandInv, UNCHANGED mvars PROVE CommandInv'
  <2>1. UpdateCmd' = UpdateCmd
    BY <1>1 DEF mvars, UpdateCmd, Count, Chunked, Sectors, Mk
  <2> QED BY <1>1, <2>1
          DEF CommandInv, Linked, Staged, KnownCommand, Command, BootDataKept, ReportedSent,
              mvars, disk
<1> QED BY <1>1, StartCommand, WorkCommand, RebootCommand DEF Next

\* The inductive invariant the next theorems are parts of.
THEOREM CommandInvariant == Spec => [](TypeOK /\ Position /\ CommandInv)
BY InitType, StepType, CommandInit, StepCommand, PTL DEF Spec

\* As long as no disk call failed, the boot data in the sector of the commands is
\* what it was at power-on (modchip_write_cmd reads, patches and writes it).
THEOREM BootDataKeptHolds == Spec => []BootDataKept
BY CommandInvariant, PTL DEF CommandInv

\* An operation that reports success has left its own command on the card, as
\* long as the card had no fault (modchip_write_cmd, modchip_write_rst_cmd).
THEOREM ReportedSentHolds == Spec => []ReportedSent
BY CommandInvariant, PTL DEF CommandInv

-----------------------------------------------------------------------------
(* Images.                                                                 *)

\* The first n sectors of the image are where they belong.
OnCard(n) ==
  \A i \in 0 .. n - 1 : media[BOOT0][Area(op.k) + i] = Image(op.k, i)

\* The buffer holds the next piece, and the pieces before it are on the card;
\* the command follows the whole image.
Written ==
  health # "faulty" /\ op.k \in Updates =>
    /\ pc \in {"load", "image"} => OnCard(idx \div SecSize)
    /\ pc = "image" => \A x \in 0 .. Sectors(Piece) - 1 :
                         cells[x] = Image(op.k, idx \div SecSize + x)
    /\ pc \in CmdPoints /\ ~recovering => OnCard(Sectors(op.size))
    /\ pc = "idle" /\ res = "ok" => OnCard(Sectors(op.size))

\* Whole sectors in front of some bytes are counted as they are.
LEMMA SectorsShift ==
  ASSUME NEW k \in Nat, NEW b \in Nat PROVE Sectors(k * SecSize + b) = k + Sectors(b)
<1>1. PICK S \in Nat \ {0} : S = SecSize
  BY LayoutAssumption
<1>2. ASSUME NEW c \in Nat PROVE (k * S + c) \div S = k + c \div S
  BY SMT
<1>3. b + S - 1 \in Nat
  OBVIOUS
<1>4. k * S \in Nat
  BY MulNat
<1>5. k * S + b + S - 1 = k * S + (b + S - 1)
  BY <1>4
<1> QED BY <1>1, <1>2, <1>3, <1>5 DEF Sectors

LEMMA SectorsZero == Sectors(0) = 0
BY LayoutAssumption, SMT DEF Sectors

\* A piece that is not the last one fills the buffer; the last one ends the image.
LEMMA PieceSectors ==
  ASSUME op \in Op, idx \in 0 .. FwMax, idx = 0 \/ idx < op.size, op.k \in Updates,
         op.k = "fw" \/ op.size <= UpBytes, idx # 0 => Chunked,
         NEW k \in Nat, idx = k * SecSize
  PROVE  /\ MorePieces => Sectors(Piece) = NumCells /\ NextPiece = (k + NumCells) * SecSize
         /\ ~MorePieces => Sectors(op.size) = k + Sectors(Piece)
<1>1. PICK S \in Nat \ {0} : S = SecSize
  BY LayoutAssumption
<1>2. PICK C \in Nat \ {0} : C = NumCells /\ UpBytes = C * S
  BY <1>1, SizeAssumption DEF UpBytes
<1>3. PICK size \in Nat : size = op.size
  BY OpFacts, Bytes
<1>4. PICK up \in Nat \ {0} : up = UpBytes
  BY Bytes
<1>5. idx \in Nat /\ idx <= size
  BY <1>3, Bytes
<1>6. ASSUME MorePieces
      PROVE  Sectors(Piece) = NumCells /\ NextPiece = (k + NumCells) * SecSize
  <2>1. Piece = up
    BY <1>3, <1>4, <1>5, <1>6 DEF MorePieces, Piece
  <2>2. Sectors(C * S + 0) = C + Sectors(0)
    BY <1>1, SectorsShift
  <2>3. C * S + 0 = UpBytes
    BY <1>2, Bytes
  <2>4. (k + C) * S = k * S + C * S
    BY MulDist
  <2> QED BY <1>1, <1>2, <1>4, <2>1, <2>2, <2>3, <2>4, SectorsZero DEF NextPiece
<1>7. ASSUME ~MorePieces PROVE Sectors(op.size) = k + Sectors(Piece)
  <2>1. PICK p \in Nat : p = Piece /\ idx + p = size
    <3>1. PICK p : p = IF size - idx < up THEN size - idx ELSE up
      OBVIOUS
    <3>2. p = Piece
      BY <1>3, <1>4, <3>1 DEF Piece
    <3>3. CASE Chunked
      <4>1. ~(idx + up < size)
        BY <1>3, <1>4, <1>7, <3>3 DEF MorePieces
      <4> QED BY <1>5, <3>1, <3>2, <4>1
    <3>4. CASE ~Chunked
      <4>1. idx = 0 /\ size <= up
        BY <1>3, <1>4, <3>4 DEF Chunked
      <4> QED BY <1>5, <3>1, <3>2, <4>1
    <3> QED BY <3>3, <3>4
  <2> QED BY <1>3, <2>1, SectorsShift
<1> QED BY <1>6, <1>7

\* The sectors of an image do not depend on what is written below it.
LEMMA OnCardSame ==
  ASSUME NEW n \in Nat, OnCard(n), op' = op,
         \A i \in 0 .. n - 1 : media'[BOOT0][Area(op.k) + i] = media[BOOT0][Area(op.k) + i]
  PROVE  OnCard(n)'
BY DEF OnCard, Image, Mk, Area

LEMMA CountType == ASSUME op \in Op, op.k \in Updates PROVE Sectors(op.size) \in 0 .. NumSec
                          /\ \A i \in 0 .. Sectors(op.size) - 1 : Area(op.k) + i \in Sector \ {CmdSec}
<1>1. PICK S \in Nat \ {0} : S = SecSize
  BY LayoutAssumption
<1>2. PICK size \in Nat : size = op.size
  BY OpFacts, Bytes
<1>3. PICK a \in Nat : a = Area(op.k) /\ a > CmdSec /\ a < NumSec
  BY Layout, SizeAssumption DEF Area, Sector
<1>4. PICK room \in Nat : room <= NumSec - a /\ size <= room * S
  <2>1. CASE op.k = "ipl"
    <3>1. PICK r \in Nat : r = NumSec - IplStart - 1 /\ r <= NumSec - a
      BY <1>3, <2>1, Layout, SizeAssumption DEF Sector, CfgSec, Area
    <3>2. IplMax = r * S
      BY <1>1, <3>1 DEF IplMax
    <3>3. size <= r * S
      BY <1>2, <2>1, <3>2, OpFacts
    <3> QED BY <3>1, <3>3
  <2>2. CASE op.k # "ipl"
    <3>1. PICK r \in Nat : r = NumSec - FwStart /\ r <= NumSec - a
      BY <1>3, <2>2, Layout, SizeAssumption DEF Sector, Area
    <3>2. FwMax = r * S
      BY <1>1, <3>1 DEF FwMax
    <3>3. op.size \in 0 .. FwMax
      BY OpFacts
    <3>4. size <= r * S
      BY <1>2, <3>2, <3>3
    <3> QED BY <3>1, <3>4
  <2> QED BY <2>1, <2>2
<1>5. Sectors(op.size) \in 0 .. room
  BY <1>1, <1>2, <1>4, SectorsBound
<1>6. PICK n \in Nat : n = Sectors(op.size) /\ n <= room
  BY <1>5
<1> QED BY <1>3, <1>4, <1>6, Layout, SizeAssumption DEF Sector

LEMMA WrittenInit == Init => Written
BY DEF Init, Written, Idle, Updates

LEMMA StartWritten ==
  ASSUME TypeOK, Position, CommandInv, Written, NEW o \in Op, Start(o) PROVE Written'
<1>1. pc' = Entry(o) /\ idx' = 0 /\ op' = o
  BY DEF Start, Position
<1>2. 0 \div SecSize = 0
  BY LayoutAssumption, SMT
<1>3. pc' \in {"load", "rst", "cmd", "cfg_read"} /\ (pc' = "cmd" => o.k = "rollback")
  BY <1>1 DEF Entry
<1>4. OnCard(idx \div SecSize)'
  <2>1. (idx \div SecSize)' = 0 /\ 0 .. 0 - 1 = {}
    BY <1>1, <1>2
  <2> QED BY <2>1 DEF OnCard
<1> QED BY <1>1, <1>3, <1>4 DEF Written, CmdPoints, Updates

LEMMA LoadWritten ==
  ASSUME TypeOK, Position, CommandInv, Written, Load PROVE Written'
<1>1. UNCHANGED <<media, op>> /\ op.k \in Updates
  BY DEF Load, Prepare, disk, Position
<1>2. CASE pc' = "image" /\ health' # "faulty"
  <2>1. PICK k \in Nat : idx = k * SecSize
    BY DEF Position
  <2>2. /\ op \in Op /\ idx \in 0 .. FwMax /\ (idx = 0 \/ idx < op.size)
        /\ (idx # 0 => Chunked) /\ (op.k = "fw" \/ op.size <= UpBytes)
    BY <1>2 DEF TypeOK, Position, Load, Goto, Return, Recover
  <2>3. idx \div SecSize = k /\ Sectors(Piece) \in 0 .. NumCells
    BY <1>1, <2>1, <2>2, PieceFacts
  <2>4. cells' = Loaded(Sectors(Piece)) /\ idx' = idx /\ health' = health
    BY <1>2 DEF Load, Goto, Return, Recover, Prepare
  <2>5. Piece' = Piece /\ Sectors(Piece)' = Sectors(Piece)
    BY <1>1, <2>4 DEF Piece, Sectors
  <2>6. \A x \in 0 .. Sectors(Piece) - 1 : x \in Cell /\ x < Sectors(Piece)
    BY <2>3, SizeAssumption DEF Cell
  <2>7. \A x \in 0 .. Sectors(Piece) - 1 : cells'[x] = Image(op.k, idx \div SecSize + x)
    BY <2>4, <2>6 DEF Loaded
  <2>8. OnCard(idx \div SecSize)
    BY <1>1, <1>2, <2>4 DEF Written, Load
  <2>9. OnCard(idx \div SecSize)' /\ Area(op.k)' = Area(op.k)
    BY <1>1, <2>4, <2>8 DEF OnCard, Image, Mk, Area
  <2> QED BY <1>1, <1>2, <2>4, <2>5, <2>7, <2>9 DEF Written, CmdPoints, Image, Mk
<1>3. CASE pc' # "image" \/ health' = "faulty"
  <2>1. pc' \in {"image", "rst", "idle"} /\ (pc' = "idle" => res' = "fail")
    BY DEF Load, Goto, Return, Recover
  <2> QED BY <1>3, <2>1 DEF Written, CmdPoints
<1> QED BY <1>2, <1>3

\* One more piece on the card.
LEMMA PieceOnCard ==
  ASSUME TypeOK, Position, Written, WriteImage, health' # "faulty", ~Recover,
         NEW k \in Nat, idx = k * SecSize, NEW n \in Nat, n = Sectors(Piece)
  PROVE  OnCard(k + n)'
<1>1. /\ op \in Op /\ idx \in 0 .. FwMax /\ (idx = 0 \/ idx < op.size) /\ op.k \in Updates
      /\ (idx # 0 => Chunked) /\ (op.k = "fw" \/ op.size <= UpBytes) /\ op' = op
  BY DEF TypeOK, Position, WriteImage
<1>2. /\ idx \div SecSize = k /\ Sectors(Piece) \in 0 .. NumCells
      /\ Area(op.k) + k \in Sector
      /\ Area(op.k) + k + Sectors(Piece) <= (IF op.k = "ipl" THEN CfgSec ELSE NumSec)
  BY <1>1, PieceFacts
<1>4. PICK a \in Nat : a = Area(op.k) /\ a + k + n <= NumSec
  BY <1>2, Layout, SizeAssumption DEF Area, Sector, CfgSec
<1>5. /\ health # "faulty"
      /\ \A s \in Sector : media'[BOOT0][s] =
           IF s - (a + k) \in 0 .. n - 1 THEN cells[s - (a + k)] ELSE media[BOOT0][s]
  BY <1>2, <1>4, PieceWrite
<1>6. OnCard(k) /\ \A x \in 0 .. n - 1 : cells[x] = Image(op.k, k + x)
  BY <1>1, <1>2, <1>5 DEF Written, WriteImage
<1>7. ASSUME NEW i \in 0 .. (k + n) - 1
      PROVE  media'[BOOT0][a + i] = Image(op.k, i)
  <2>1. a + i \in Sector
    BY <1>4, SizeAssumption DEF Sector
  <2>2. CASE i < k
    <3>1. a + i - (a + k) \notin 0 .. n - 1 /\ i \in 0 .. k - 1
      BY <2>2
    <3> QED BY <1>4, <1>5, <1>6, <2>1, <3>1 DEF OnCard
  <2>3. CASE i >= k
    <3>1. PICK x \in 0 .. n - 1 : x = a + i - (a + k) /\ k + x = i
      BY <2>3
    <3> QED BY <1>5, <1>6, <2>1, <3>1
  <2> QED BY <2>2, <2>3
<1>8. \A i \in 0 .. (k + n) - 1 : media'[BOOT0][Area(op'.k) + i] = Image(op'.k, i)
  BY <1>1, <1>4, <1>7
<1> QED BY <1>8 DEF OnCard

LEMMA ImageWritten ==
  ASSUME TypeOK, Position, CommandInv, Written, WriteImage PROVE Written'
<1>1. PICK k \in Nat : idx = k * SecSize
  BY DEF Position
<1>2. /\ op \in Op /\ idx \in 0 .. FwMax /\ (idx = 0 \/ idx < op.size) /\ op.k \in Updates
      /\ (idx # 0 => Chunked) /\ (op.k = "fw" \/ op.size <= UpBytes) /\ op' = op
  BY DEF TypeOK, Position, WriteImage
<1>3. PICK n \in Nat : n = Sectors(Piece)
  BY <1>1, <1>2, PieceFacts, SizeAssumption
<1>4. \/ MorePieces /\ pc' = "load" /\ idx' = NextPiece
      \/ ~MorePieces /\ pc' \in {"idle", "cmd"}
      \/ Recover
  BY DEF WriteImage, Return, Goto
<1>5. CASE Recover
  BY <1>5 DEF Recover, Goto, Written, CmdPoints
<1>6. CASE MorePieces /\ pc' = "load" /\ idx' = NextPiece /\ ~Recover /\ health' # "faulty"
  <2>1. n = NumCells /\ idx' = (k + n) * SecSize
    BY <1>1, <1>2, <1>3, <1>6, PieceSectors
  <2>2. PICK j \in Nat : j = k + n
    OBVIOUS
  <2>3. idx' \div SecSize = j
    BY <2>1, <2>2, LayoutAssumption, DivExact
  <2>4. OnCard(j)'
    BY <1>1, <1>3, <1>6, <2>2, PieceOnCard
  <2>5. (OnCard(idx \div SecSize))'
    BY <2>3, <2>4 DEF OnCard
  <2> QED BY <1>6, <2>5 DEF Written, CmdPoints
<1>7. CASE ~MorePieces /\ pc' \in {"idle", "cmd"} /\ ~Recover /\ health' # "faulty"
  <2>1. PICK j \in Nat : j = k + n
    OBVIOUS
  <2>2. Sectors(op.size) = j
    BY <1>1, <1>2, <1>3, <1>7, <2>1, PieceSectors
  <2>3. OnCard(j)'
    BY <1>1, <1>3, <1>7, <2>1, PieceOnCard
  <2>4. Sectors(op'.size) = j
    BY <1>2, <2>2
  <2>5. OnCard(Sectors(op.size))'
    BY <2>3, <2>4 DEF OnCard, Sectors
  <2> QED BY <1>7, <2>5 DEF Written
<1>8. CASE health' = "faulty"
  BY <1>8 DEF Written
<1> QED BY <1>4, <1>5, <1>6, <1>7, <1>8

\* The commands are below every image.
LEMMA CommandWritten ==
  ASSUME TypeOK, Position, CommandInv, Written,
         RstBegin \/ RstRead \/ RstZero \/ RstWrite
           \/ CmdBegin \/ CmdRead \/ CmdPatch \/ CmdWrite
  PROVE  Written'
<1>1. UNCHANGED <<op, recovering>> /\ pc' \in RstPoints \cup CmdPoints \cup {"idle"}
  BY DEF RstBegin, RstRead, RstZero, RstWrite, CmdBegin, CmdRead, CmdPatch, CmdWrite, Step,
         Goto, Return, RstPoints, CmdPoints
<1>2. ASSUME health' # "faulty"
      PROVE  /\ health # "faulty"
             /\ \A s \in Sector \ {CmdSec} : media'[BOOT0][s] = media[BOOT0][s]
  <2>1. CASE RstBegin \/ RstZero \/ CmdBegin \/ CmdPatch
    BY <1>2, <2>1 DEF RstBegin, RstZero, CmdBegin, CmdPatch, Prepare0, Prepare
  <2>2. CASE RstRead \/ CmdRead
    BY <1>2, <2>2, SectorRead DEF RstRead, CmdRead
  <2>3. CASE RstWrite \/ CmdWrite
    BY <1>2, <2>3, SectorWrite DEF RstWrite, CmdWrite
  <2> QED BY <2>1, <2>2, <2>3
<1>3. ASSUME op.k \in Updates, health' # "faulty", OnCard(Sectors(op.size))
      PROVE  OnCard(Sectors(op.size))'
  <2>1. PICK n \in Nat : n = Sectors(op.size)
    BY <1>3, CountType, SizeAssumption DEF TypeOK
  <2>2. \A i \in 0 .. n - 1 : media'[BOOT0][Area(op.k) + i] = media[BOOT0][Area(op.k) + i]
    BY <1>2, <1>3, <2>1, CountType DEF TypeOK
  <2>3. OnCard(n)'
    BY <1>1, <1>3, <2>1, <2>2, OnCardSame
  <2>4. Sectors(op'.size) = n
    BY <1>1, <2>1
  <2> QED BY <2>3, <2>4 DEF OnCard, Sectors
<1>4. ASSUME op.k \in Updates, pc' \in CmdPoints, ~recovering
      PROVE  pc \in CmdPoints
  <2>1. pc \notin RstPoints
    BY <1>4 DEF CommandInv, Linked, Updates
  <2> QED BY <2>1 DEF RstBegin, RstRead, RstZero, RstWrite, CmdBegin, CmdRead, CmdPatch, CmdWrite,
             RstPoints, CmdPoints
<1>5. ASSUME op.k \in Updates, pc' = "idle", res' = "ok"
      PROVE  pc \in CmdPoints /\ ~recovering
  BY <1>5 DEF RstBegin, RstRead, RstZero, RstWrite, CmdBegin, CmdRead, CmdPatch, CmdWrite,
              Goto, Return, Outcome, CmdPoints
<1>6. ASSUME op.k \in Updates, health' # "faulty", pc' \in CmdPoints, ~recovering
      PROVE  OnCard(Sectors(op.size))'
  BY <1>2, <1>3, <1>4, <1>6 DEF Written
<1>7. ASSUME op.k \in Updates, health' # "faulty", pc' = "idle", res' = "ok"
      PROVE  OnCard(Sectors(op.size))'
  BY <1>2, <1>3, <1>5, <1>7 DEF Written
<1>8. pc' \notin {"load", "image"}
  BY <1>1 DEF RstPoints, CmdPoints
<1> QED BY <1>1, <1>6, <1>7, <1>8 DEF Written

LEMMA WorkWritten == ASSUME TypeOK, Position, CommandInv, Written, Work PROVE Written'
<1>1. CASE CfgRead \/ CfgPatch \/ CfgWrite
  <2>1. op' = op /\ op.k \in {"getcfg", "setcfg", "desc"}
    BY <1>1 DEF CfgRead, CfgPatch, CfgWrite, Step, CommandInv, Linked, CfgPoints
  <2> QED BY <2>1 DEF Written, Updates
<1> QED BY <1>1, LoadWritten, ImageWritten, CommandWritten DEF Work

LEMMA StepWritten == TypeOK /\ Position /\ CommandInv /\ Written /\ [Next]_mvars => Written'
<1>1. ASSUME Written, UNCHANGED mvars PROVE Written'
  BY <1>1 DEF mvars, disk, Written, OnCard, Sectors, Piece, Image, Mk, Area
<1>2. ASSUME Reboot PROVE Written'
  BY <1>2 DEF Reboot, Written, Idle, Updates
<1> QED BY <1>1, <1>2, StartWritten, WorkWritten DEF Next

\* An update follows its image: as long as the card has no fault, the command is
\* written when every sector of the image is on the card, and an update that is
\* reported as done has its whole image there.
THEOREM ImageBeforeCommand == Spec => []Written
BY InitType, StepType, CommandInit, StepCommand, WrittenInit, StepWritten, PTL DEF Spec
=============================================================================
