--------------------------- MODULE FalPartition ---------------------------
(***************************************************************************)
(* Flash partitions as the firmware-upgrade code sees them through FAL:    *)
(* an array of cells per partition, erased a whole sector at a time and    *)
(* programmed cell by cell.  FAL itself is RT-Thread code outside this     *)
(* repository; the flash drivers behind it (board/ports/drv_nor_flash.c,   *)
(* libraries/HAL_Drivers/drv_flash/drv_flash_f4.c) are inside.             *)
(*                                                                         *)
(* A cell stands for one programming unit.  What it holds is abstracted to *)
(* what the CRC and header checks can tell apart: CRC32 is taken to be     *)
(* free of collisions, so "the CRC matches" is "the cells are the ones of  *)
(* that package".                                                          *)
(***************************************************************************)
EXTENDS Naturals, Sequences

CONSTANTS
    Firmware,     \* the packages that exist, each given by its fw_info_t header
    PartLen,      \* PartLen[p]: length of partition p in cells
    SectorCells,  \* cells in one erase sector (blk_size)
    NorParts,     \* the partitions that lie on the parallel NOR flash
    MaxFault      \* bound on the flash operations that go wrong

VARIABLES
    part,         \* part[p][a]: what cell a of partition p holds
    faults        \* how many flash operations have gone wrong so far

PartName == {"app", "download", "factory"}

(***************************************************************************)
(* fw_info_t, reduced to the fields the code branches on.  part_name       *)
(* "other" is the name of a partition this board does not have; algo is    *)
(* FALSE for an encryption or compression the build does not support; algo2 *)
(* says whether the released code is verified by CRC; raw_crc says whether *)
(* the code the body unpacks to is the code raw_crc was computed from.     *)
(***************************************************************************)
FwInfo == [ver       : Nat,
           part_name : {"app", "other"},
           algo      : BOOLEAN,
           algo2     : {"none", "crc"},
           raw_crc   : BOOLEAN,
           pkg_size  : Nat \ {0},
           raw_size  : Nat \ {0}]

ASSUME GeometryAssumption ==
    /\ Firmware \subseteq FwInfo
    /\ PartLen \in [PartName -> Nat \ {0}]
    /\ SectorCells \in Nat \ {0}
    /\ NorParts \subseteq {"download", "factory"}
    /\ MaxFault \in Nat

Addr(p) == 0 .. PartLen[p] - 1

\* The last cell, where the header of the released package is kept.
TailCell(p) == PartLen[p] - 1

(***************************************************************************)
(* What a cell can hold: nothing, a word of zeros (the release sign), the  *)
(* header of package f, cell i of f's body, cell i of the code f's body    *)
(* unpacks to, or bytes that belong to no package.                         *)
(***************************************************************************)
Erased    == [kind |-> "erased"]
Zero      == [kind |-> "zero"]
Junk      == [kind |-> "junk"]
Hdr(f)    == [kind |-> "hdr", fw |-> f]
Pkg(f, i) == [kind |-> "pkg", fw |-> f, at |-> i]
Raw(f, i) == [kind |-> "raw", fw |-> f, at |-> i]

Cell == {Erased, Zero, Junk}
        \cup {Hdr(f) : f \in Firmware}
        \cup (UNION {{Pkg(f, i) : i \in 1 .. f.pkg_size} : f \in Firmware})
        \cup (UNION {{Raw(f, i) : i \in 0 .. f.raw_size - 1} : f \in Firmware})

PartTypeOK ==
    /\ DOMAIN part = PartName
    /\ \A p \in PartName : part[p] \in [Addr(p) -> Cell]
    /\ faults \in 0 .. MaxFault

(***************************************************************************)
(* FAL refuses an access that leaves the partition.                        *)
(***************************************************************************)
InPart(p, a, n) == a + n <= PartLen[p]

SectorOf(a) == a \div SectorCells

\* The last sector an erase of the n > 0 cells from a on reaches.
LastSector(a, n) == SectorOf(a + n - 1)

(***************************************************************************)
(* Programming can only clear bits: a cell that is not erased keeps its    *)
(* value only if it is written with the same value, and a word of zeros    *)
(* can be written over anything.                                           *)
(***************************************************************************)
Programmed(old, new) ==
    IF old = Erased \/ old = new \/ new = Zero THEN new ELSE Junk

\* Partition p with the cells of S set to c.
Filled(p, S, c) == [a \in Addr(p) |-> IF a \in S THEN c ELSE part[p][a]]

SectorCellsOf(p, s) == {a \in Addr(p) : SectorOf(a) = s}

\* Cells S of partition p are left with bytes that belong to no package.
Spoil(p, S) == part' = [part EXCEPT ![p] = Filled(p, S, Junk)]

EraseSector(p, s) ==
    part' = [part EXCEPT ![p] = Filled(p, SectorCellsOf(p, s), Erased)]

ProgramCell(p, a, c) ==
    part' = [part EXCEPT ![p] = Filled(p, {a}, Programmed(part[p][a], c))]

(***************************************************************************)
(* A flash operation that goes wrong.                                      *)
(***************************************************************************)
Fault == faults < MaxFault /\ faults' = faults + 1

(***************************************************************************)
(* The erase of one sector; ok is what the driver returns.  A failing      *)
(* erase leaves the sector as it was or with garbage, and is not always    *)
(* reported: drv_nor_flash.c logs a bad status and returns the size.       *)
(***************************************************************************)
Erase(p, s, ok) ==
    \/ EraseSector(p, s) /\ ok /\ UNCHANGED faults
    \/ Fault /\ (UNCHANGED part \/ Spoil(p, SectorCellsOf(p, s)))

(***************************************************************************)
(* The write of one cell.  Writing over cells that are not erased is       *)
(* noticed by the driver that reads back (drv_flash_f4.c) and hidden by    *)
(* the one for NOR flash, see ClobberedBy.                                 *)
(***************************************************************************)
Write(p, a, c, ok) ==
    \/ /\ ProgramCell(p, a, c)
       /\ ok \/ Programmed(part[p][a], c) # c
       /\ UNCHANGED faults
    \/ Fault /\ (UNCHANGED part \/ Spoil(p, {a}))

(***************************************************************************)
(* After a bad status the NOR driver reads the flash back, and it reads it *)
(* into the buffer it was asked to write: whoever compares the two later   *)
(* finds them equal.  Nothing shows that a status was bad.                 *)
(***************************************************************************)
ClobberedBy(p) == IF p \in NorParts THEN BOOLEAN ELSE {FALSE}

\* A NOR erase that gives up at a sector returns 0, which passes for success.
GivesUp(p) == p \in NorParts /\ faults' # faults

(***************************************************************************)
(* A read that goes wrong leaves the buffer as it was before.  The driver  *)
(* for NOR flash then returns 0 (drv_nor_flash.c:232-245), and as every    *)
(* caller looks for a negative result only, the read passes for a success. *)
(***************************************************************************)
ReadFails == Fault /\ UNCHANGED part

ReadsStale(p) == p \in NorParts /\ Fault
---------------------------------------------------------------------------
(***************************************************************************)
(* What a partition holds.                                                 *)
(***************************************************************************)

\* Partition p starts with the whole package f: header CRC and body CRC match.
Holds(p, f) ==
    /\ part[p][0] = Hdr(f)
    /\ InPart(p, 0, f.pkg_size + 1)
    /\ \A i \in 1 .. f.pkg_size : part[p][i] = Pkg(f, i)

\* What the checks see if cell a is not read, but is what the buffer held before.
HoldsBut(p, f, a) ==
    /\ a = 0 \/ part[p][0] = Hdr(f)
    /\ InPart(p, 0, f.pkg_size + 1)
    /\ \A i \in (1 .. f.pkg_size) \ {a} : part[p][i] = Pkg(f, i)

\* Partition p starts with the whole code of package f.
Runs(p, f) ==
    /\ InPart(p, 0, f.raw_size)
    /\ \A i \in 0 .. f.raw_size - 1 : part[p][i] = Raw(f, i)

\* Mutant: the header is forgotten in the sign's position.
SignOnPackage(f) == f.pkg_size

\* The release sign stands in the first cell behind the package.
SignCell(f) == f.pkg_size + 1

Signed(p, f) ==
    /\ InPart(p, SignCell(f), 1)
    /\ part[p][SignCell(f)] = Zero
=============================================================================
