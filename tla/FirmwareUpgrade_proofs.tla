----------------------- MODULE FirmwareUpgrade_proofs -----------------------
(***************************************************************************)
(* Theorems about the board of FirmwareUpgrade, for every set of packages, *)
(* every partition and sector size and any number of crashes and faults.   *)
(***************************************************************************)
EXTENDS FirmwareUpgrade, SequenceTheorems, TLAPS

(***************************************************************************)
(* Sectors.                                                                *)
(***************************************************************************)
LEMMA SectorProps ==
    ASSUME NEW a \in Nat, NEW b \in Nat, a <= b
    PROVE  /\ SectorOf(a) \in Nat
           /\ SectorOf(a) <= a
           /\ SectorOf(a) <= SectorOf(b)
BY GeometryAssumption DEF GeometryAssumption, SectorOf

(***************************************************************************)
(* Cells: the kinds are distinct, and a cell of a package names it.        *)
(***************************************************************************)
LEMMA CellTypes ==
    /\ Erased \in Cell /\ Zero \in Cell /\ Junk \in Cell
    /\ \A f \in Firmware : Hdr(f) \in Cell
    /\ \A f \in Firmware : \A i \in 1 .. f.pkg_size : Pkg(f, i) \in Cell
    /\ \A f \in Firmware : \A i \in 0 .. f.raw_size - 1 : Raw(f, i) \in Cell
BY DEF Cell

LEMMA CellsDiffer ==
    /\ Erased # Zero /\ Erased # Junk /\ Zero # Junk
    /\ \A f : Hdr(f) \notin {Erased, Zero, Junk}
    /\ \A f, i : Pkg(f, i) \notin {Erased, Zero, Junk}
    /\ \A f, i : Raw(f, i) \notin {Erased, Zero, Junk}
    /\ \A f, g : Hdr(f) = Hdr(g) => f = g
    /\ \A f, g, i : Hdr(f) # Pkg(g, i) /\ Hdr(f) # Raw(g, i)
BY DEF Erased, Zero, Junk, Hdr, Pkg, Raw

LEMMA FirmwareFields ==
    ASSUME NEW f \in Firmware
    PROVE  /\ f.pkg_size \in Nat \ {0}
           /\ f.raw_size \in Nat \ {0}
           /\ f.part_name \in {"app", "other"}
           /\ SignCell(f) = f.pkg_size + 1
BY GeometryAssumption DEF GeometryAssumption, FwInfo, SignCell

LEMMA PartLens == \A p \in PartName : PartLen[p] \in Nat \ {0} /\ TailCell(p) \in Addr(p)
BY GeometryAssumption DEF GeometryAssumption, TailCell, Addr
---------------------------------------------------------------------------
(***************************************************************************)
(* What the flash operations do to the partitions.                         *)
(***************************************************************************)
LEMMA FilledProps ==
    ASSUME PartTypeOK, NEW p \in PartName, NEW S, NEW c \in Cell,
           part' = [part EXCEPT ![p] = Filled(p, S, c)]
    PROVE  /\ DOMAIN part' = PartName
           /\ \A q \in PartName : part'[q] \in [Addr(q) -> Cell]
           /\ \A q \in PartName : q # p => part'[q] = part[q]
           /\ \A a \in Addr(p) : part'[p][a] = IF a \in S THEN c ELSE part[p][a]
<1>1. Filled(p, S, c) \in [Addr(p) -> Cell]
  BY DEF PartTypeOK, Filled
<1>2. \A a \in Addr(p) : Filled(p, S, c)[a] = IF a \in S THEN c ELSE part[p][a]
  BY DEF Filled
<1>3. DOMAIN part' = PartName /\ part'[p] = Filled(p, S, c)
      /\ \A q \in PartName : q # p => part'[q] = part[q]
  BY DEF PartTypeOK
<1> QED
  BY <1>1, <1>2, <1>3 DEF PartTypeOK

LEMMA ProgrammedProps ==
    ASSUME NEW old \in Cell, NEW new \in Cell
    PROVE  /\ Programmed(old, new) \in Cell
           /\ Programmed(old, new) \in {new, Junk}
BY CellTypes DEF Programmed

LEMMA FaultProps ==
    ASSUME PartTypeOK, Fault
    PROVE  faults' = faults + 1 /\ faults' \in 1 .. MaxFault
BY GeometryAssumption DEF GeometryAssumption, PartTypeOK, Fault

LEMMA SpoilProps ==
    ASSUME PartTypeOK, NEW p \in PartName, NEW S, Spoil(p, S)
    PROVE  /\ DOMAIN part' = PartName
           /\ \A q \in PartName : part'[q] \in [Addr(q) -> Cell]
           /\ \A q \in PartName : q # p => part'[q] = part[q]
           /\ \A a \in Addr(p) : part'[p][a] = IF a \in S THEN Junk ELSE part[p][a]
BY FilledProps, CellTypes DEF Spoil

LEMMA EraseProps ==
    ASSUME PartTypeOK, NEW p \in PartName, NEW s, NEW ok, Erase(p, s, ok)
    PROVE  /\ PartTypeOK'
           /\ \A q \in PartName : q # p => part'[q] = part[q]
           /\ \A a \in Addr(p) : part'[p][a] \in {part[p][a], Erased, Junk}
           /\ \A a \in Addr(p) : SectorOf(a) # s => part'[p][a] = part[p][a]
           /\ faults' \in {faults, faults + 1}
           /\ faults' = faults => \A a \in Addr(p) : SectorOf(a) = s => part'[p][a] = Erased
<1>1. CASE EraseSector(p, s) /\ UNCHANGED faults
  BY <1>1, FilledProps, CellTypes DEF EraseSector, PartTypeOK, SectorCellsOf
<1>2. CASE Fault /\ UNCHANGED part
  BY <1>2, FaultProps DEF PartTypeOK
<1>3. CASE Fault /\ Spoil(p, SectorCellsOf(p, s))
  BY <1>3, FaultProps, SpoilProps DEF PartTypeOK, SectorCellsOf
<1> QED
  BY <1>1, <1>2, <1>3 DEF Erase

LEMMA ProgramProps ==
    ASSUME PartTypeOK, NEW p \in PartName, NEW a \in Addr(p), NEW c \in Cell,
           ProgramCell(p, a, c)
    PROVE  /\ DOMAIN part' = PartName
           /\ \A q \in PartName : part'[q] \in [Addr(q) -> Cell]
           /\ \A q \in PartName : q # p => part'[q] = part[q]
           /\ \A b \in Addr(p) : b # a => part'[p][b] = part[p][b]
           /\ part'[p][a] = Programmed(part[p][a], c)
           /\ part'[p][a] \in {c, Junk}
<1>1. PICK d \in Cell : d = Programmed(part[p][a], c) /\ d \in {c, Junk}
  BY ProgrammedProps DEF PartTypeOK
<1>2. part' = [part EXCEPT ![p] = Filled(p, {a}, d)]
  BY <1>1 DEF ProgramCell
<1>3. /\ DOMAIN part' = PartName
      /\ \A q \in PartName : part'[q] \in [Addr(q) -> Cell]
      /\ \A q \in PartName : q # p => part'[q] = part[q]
      /\ \A b \in Addr(p) : part'[p][b] = IF b \in {a} THEN d ELSE part[p][b]
  BY <1>2, FilledProps
<1> QED
  BY <1>1, <1>3

LEMMA WriteProps ==
    ASSUME PartTypeOK, NEW p \in PartName, NEW a \in Addr(p), NEW c \in Cell, NEW ok,
           Write(p, a, c, ok)
    PROVE  /\ PartTypeOK'
           /\ \A q \in PartName : q # p => part'[q] = part[q]
           /\ \A b \in Addr(p) : b # a => part'[p][b] = part[p][b]
           /\ part'[p][a] \in {part[p][a], c, Junk}
           /\ faults' \in {faults, faults + 1}
           /\ faults' = faults => part'[p][a] = Programmed(part[p][a], c)
<1>1. CASE ProgramCell(p, a, c) /\ UNCHANGED faults
  BY <1>1, ProgramProps DEF PartTypeOK
<1>2. CASE Fault /\ UNCHANGED part
  BY <1>2, FaultProps DEF PartTypeOK
<1>3. CASE Fault /\ Spoil(p, {a})
  BY <1>3, FaultProps, SpoilProps DEF PartTypeOK
<1> QED
  BY <1>1, <1>2, <1>3 DEF Write
---------------------------------------------------------------------------
(***************************************************************************)
(* Type correctness.  The release stays inside the app partition because   *)
(* fal_partition_erase has refused a package that does not fit: BootBounds *)
(* is what makes TypeOK inductive.                                         *)
(***************************************************************************)
BootBounds ==
    /\ bpc \in {"erase", "erase_tail", "copy", "info", "verify"} => Releasable(fw_info)
    /\ bpc = "erase" => at <= LastSector(0, fw_info.raw_size)
    /\ bpc \in {"erase_tail", "copy"} => at < fw_info.raw_size
    /\ bpc # "app" => opc = "poll"
    /\ cuts <= crashes

TypeInv == TypeOK /\ BootBounds

\* The erase of a package that fits stays in the partition.
LEMMA LastSectorBound ==
    ASSUME NEW f \in Firmware, Releasable(f)
    PROVE  /\ LastSector(0, f.raw_size) \in Nat
           /\ LastSector(0, f.raw_size) < f.raw_size
           /\ f.raw_size <= PartLen["app"]
<1>1. f.raw_size \in Nat \ {0} /\ PartLen["app"] \in Nat
  BY FirmwareFields, PartLens DEF PartName
<1>2. 0 + f.raw_size - 1 \in Nat
  BY <1>1
<1>3. SectorOf(0 + f.raw_size - 1) \in Nat /\ SectorOf(0 + f.raw_size - 1) <= 0 + f.raw_size - 1
  BY <1>2, SectorProps
<1> QED
  BY <1>1, <1>3 DEF LastSector, Releasable, InPart

LEMMA RoutingType ==
    ASSUME BootTypeOK, StageFails
    PROVE  stage' \in Stage /\ bpc' \in {"reset", "check", "jump"}
BY DEF BootTypeOK, StageFails, GoOn, Goto, NextStage, Stage

LEMMA BootPartType ==
    ASSUME TypeInv, BootNext
    PROVE  PartTypeOK'
<1> USE DEF TypeInv, TypeOK
<1>1. CASE \/ Start \/ CheckPasses \/ CheckMisled \/ CheckFails \/ VerifyPasses \/ VerifyFails
           \/ StartRelease \/ Jump
  <2>1. part' = part /\ (faults' = faults \/ Fault)
    BY <1>1 DEF Start, CheckPasses, CheckMisled, CheckFails, VerifyPasses, VerifyFails,
       StartRelease, Jump, ReadFails, ReadsStale, SignUnread
  <2> QED
    BY <2>1, FaultProps DEF PartTypeOK
<1>2. CASE EraseApp
  BY <1>2, EraseProps DEF EraseApp, PartName
<1>3. CASE EraseTail
  BY <1>3, EraseProps DEF EraseTail, PartName
<1>4. CASE CopyCell \/ CopyMisled
  <2>1. fw_info \in Firmware /\ at \in Nat /\ at < fw_info.raw_size /\ Releasable(fw_info)
    BY <1>4, PartLens DEF CopyCell, CopyMisled, BootBounds, BootTypeOK, PartName
  <2>2. fw_info.raw_size \in Nat /\ PartLen["app"] \in Nat /\ fw_info.raw_size <= PartLen["app"]
    BY <2>1, FirmwareFields, LastSectorBound, PartLens DEF PartName
  <2>3. Unpacked(Source, fw_info, at) \in Cell /\ at \in Addr("app")
    BY <2>1, <2>2, CellTypes DEF Unpacked, Addr
  <2>4. CASE ReadFails
    BY <2>4, FaultProps DEF ReadFails, PartTypeOK
  <2>5. ASSUME NEW ok, Write("app", at, Unpacked(Source, fw_info, at), ok)
        PROVE  PartTypeOK'
    BY <2>1, <2>3, <2>5, WriteProps DEF PartName
  <2>6. CASE CopyMisled
    BY <2>3, <2>6, FaultProps, ProgramProps, CellTypes
       DEF CopyMisled, ReadsStale, PartName, PartTypeOK
  <2> QED
    BY <1>4, <2>4, <2>5, <2>6 DEF CopyCell
<1>5. CASE WriteInfo
  <2>1. Hdr(fw_info) \in Cell /\ TailCell("app") \in Addr("app")
    BY <1>5, CellTypes, PartLens DEF WriteInfo, BootTypeOK, PartName
  <2> QED
    BY <1>5, <2>1, WriteProps DEF WriteInfo, PartName
<1>6. CASE WriteSign
  <2>1. Source \in PartName
    BY DEF Source, PartName
  <2>2. ASSUME InPart(Source, SignCell(fw_info), 1)
        PROVE  SignCell(fw_info) \in Addr(Source)
    BY <1>6, <2>1, <2>2, FirmwareFields, PartLens DEF WriteSign, BootTypeOK, InPart, Addr
  <2> QED
    BY <1>6, <2>1, <2>2, WriteProps, CellTypes DEF WriteSign, PartTypeOK
<1> QED
  BY <1>1, <1>2, <1>3, <1>4, <1>5, <1>6 DEF BootNext

\* The bounds and the rest of the bootloader's state.
LEMMA BootStateType ==
    ASSUME TypeInv, BootNext, opc = "poll", UNCHANGED <<opc, crashes, cuts>>
    PROVE  BootTypeOK' /\ BootBounds'
<1> USE DEF TypeInv, TypeOK, BootTypeOK, BootPc, BootBounds
<1>0. PartLen["app"] \in Nat \ {0}
  BY PartLens DEF PartName
<1>1. CASE Start
  BY <1>0, <1>1 DEF Start, Stage
<1>2. CASE CheckPasses
  <2>1. StageFails => stage' \in Stage /\ bpc' \in {"reset", "check", "jump"}
    BY RoutingType
  <2> QED
    BY <1>2, <2>1 DEF CheckPasses, Accepted, SignUnread, Goto
<1>02. CASE CheckMisled
  <2>1. StageFails => stage' \in Stage /\ bpc' \in {"reset", "check", "jump"}
    BY RoutingType
  <2> QED
    BY <1>02, <2>1 DEF CheckMisled, Accepted, Goto
<1>3. CASE CheckFails
  BY <1>3, RoutingType DEF CheckFails
<1>4. CASE StartRelease
  <2>1. StageFails => stage' \in Stage /\ bpc' \in {"reset", "check", "jump"}
    BY RoutingType
  <2>2. ASSUME Releasable(fw_info), Goto("erase"), at' = 0, writer' = stage
        PROVE  BootTypeOK' /\ BootBounds'
    BY <1>0, <1>4, <2>2, LastSectorBound DEF StartRelease, Goto, Releasable
  <2>3. ASSUME StageFails, UNCHANGED <<at, writer>>
        PROVE  BootTypeOK' /\ BootBounds'
    BY <1>4, <2>1, <2>3 DEF StartRelease
  <2> QED
    BY <1>4, <2>2, <2>3 DEF StartRelease
<1>5. CASE EraseApp
  <2>1. StageFails => stage' \in Stage /\ bpc' \in {"reset", "check", "jump"}
    BY RoutingType
  <2>2. /\ fw_info \in Firmware /\ Releasable(fw_info) /\ at \in Nat
        /\ LastSector(0, fw_info.raw_size) \in Nat
        /\ LastSector(0, fw_info.raw_size) < fw_info.raw_size
        /\ fw_info.raw_size <= PartLen["app"]
        /\ fw_info.raw_size \in Nat \ {0}
    BY <1>5, <1>0, LastSectorBound, FirmwareFields DEF EraseApp
  <2>3. ASSUME StageFails, UNCHANGED at
        PROVE  BootTypeOK' /\ BootBounds'
    BY <1>5, <2>1, <2>3 DEF EraseApp
  <2>4. ASSUME at = LastSector(0, fw_info.raw_size), Goto("erase_tail"), at' = 0
        PROVE  BootTypeOK' /\ BootBounds'
    BY <1>0, <1>5, <2>2, <2>4 DEF EraseApp, Goto, Releasable
  <2>5. ASSUME at # LastSector(0, fw_info.raw_size), Goto("erase"), at' = at + 1
        PROVE  BootTypeOK' /\ BootBounds'
    BY <1>0, <1>5, <2>2, <2>5 DEF EraseApp, Goto, Releasable
  <2> QED
    BY <1>5, <2>3, <2>4, <2>5 DEF EraseApp
<1>6. CASE EraseTail
  <2>1. StageFails => stage' \in Stage /\ bpc' \in {"reset", "check", "jump"}
    BY RoutingType
  <2> QED
    BY <1>6, <2>1 DEF EraseTail, Goto, Releasable
<1>7. CASE CopyCell \/ CopyMisled
  <2>1. StageFails => stage' \in Stage /\ bpc' \in {"reset", "check", "jump"}
    BY RoutingType
  <2>2. /\ fw_info \in Firmware /\ Releasable(fw_info) /\ at \in Nat
        /\ at < fw_info.raw_size
        /\ fw_info.raw_size <= PartLen["app"]
        /\ fw_info.raw_size \in Nat \ {0}
    BY <1>7, <1>0, LastSectorBound, FirmwareFields DEF CopyCell, CopyMisled
  <2>3. ASSUME StageFails, UNCHANGED at
        PROVE  BootTypeOK' /\ BootBounds'
    BY <1>7, <2>1, <2>3 DEF CopyCell, CopyMisled
  <2>4. ASSUME at' = at + 1, Goto(IF at + 1 < fw_info.raw_size THEN "copy" ELSE "info")
        PROVE  BootTypeOK' /\ BootBounds'
    BY <1>0, <1>7, <2>2, <2>4 DEF CopyCell, CopyMisled, Goto, Releasable
  <2> QED
    BY <1>7, <2>3, <2>4 DEF CopyCell, CopyMisled
<1>8. CASE WriteInfo
  <2>1. StageFails => stage' \in Stage /\ bpc' \in {"reset", "check", "jump"}
    BY RoutingType
  <2> QED
    BY <1>8, <2>1 DEF WriteInfo, Goto, Releasable
<1>9. CASE VerifyPasses
  BY <1>9 DEF VerifyPasses, SignUnread, Goto
<1>10. CASE VerifyFails
  BY <1>10, RoutingType DEF VerifyFails
<1>11. CASE WriteSign
  BY <1>11 DEF WriteSign, Goto
<1>12. CASE Jump
  BY <1>12 DEF Jump, Goto, GoOn, NextStage, Stage
<1> QED
  BY <1>1, <1>2, <1>02, <1>3, <1>4, <1>5, <1>6, <1>7, <1>8, <1>9, <1>10, <1>11, <1>12 DEF BootNext

(***************************************************************************)
(* The update thread writes inside the partition it has chosen.            *)
(***************************************************************************)
LEMMA DestPart == Dest \in PartName /\ Dest \in {"download", "factory"}
BY DEF Dest, PartName

\* The write that runs over the partition spares the app and what is in front.
LEMMA OverrunProps ==
    ASSUME PartTypeOK, Overrun
    PROVE  /\ DOMAIN part' = PartName
           /\ \A q \in PartName : part'[q] \in [Addr(q) -> Cell]
           /\ part'["app"] = part["app"]
           /\ Dest = "factory" => part'["download"] = part["download"]
           /\ \A a \in Addr(Dest) : cur \in Nat /\ a < cur => part'[Dest][a] = part[Dest][a]
           /\ \A a \in Addr(Dest) : part'[Dest][a] # part[Dest][a] =>
                part'[Dest][a] \in {Zero, Junk}
           /\ "factory" \in NorParts /\ Dest # "factory" => part'["factory"] = part["factory"]
<1>1. PICK c \in {Zero, Junk}, reached \in {{}, {Dest}, PartName} :
         part' = [p \in PartName |-> [a \in Addr(p) |->
                    IF p = Dest /\ a = cur THEN Zero
                    ELSE IF p \in reached /\ a \in Reach(p) THEN c ELSE part[p][a]]]
  BY DEF Overrun
<1>2. c \in Cell /\ Zero \in Cell /\ Dest \in {"download", "factory"}
  BY CellTypes, DestPart
<1>3. ASSUME NEW q \in PartName
      PROVE  /\ part'[q] \in [Addr(q) -> Cell]
             /\ \A a \in Addr(q) : part'[q][a] =
                  IF q = Dest /\ a = cur THEN Zero
                  ELSE IF q \in reached /\ a \in Reach(q) THEN c ELSE part[q][a]
  BY <1>1, <1>2 DEF PartTypeOK
<1>4. ASSUME NEW q \in PartName, q # Dest, q # "factory" \/ q \in NorParts
      PROVE  part'[q] = part[q]
  BY <1>3, <1>4 DEF Reach, PartTypeOK
<1>5. \A a \in Addr(Dest) : cur \in Nat /\ a < cur => a # cur /\ a \notin Reach(Dest)
  BY PartLens, DestPart DEF Reach, Addr
<1>6. DOMAIN part' = PartName
  BY <1>1
<1> QED
  BY <1>1, <1>2, <1>3, <1>4, <1>5, <1>6 DEF PartName

LEMMA OtaPartType ==
    ASSUME TypeInv, OtaThread
    PROVE  PartTypeOK'
<1> USE DEF TypeInv, TypeOK
<1>1. CASE Poll \/ OpenFile \/ Begin \/ End
  BY <1>1 DEF Poll, OpenFile, Begin, End, PartTypeOK
<1>2. CASE EraseDest
  BY <1>2, EraseProps, DestPart DEF EraseDest
<1>3. CASE Data
  <2>1. ASSUME fd_ok, cur < Len(file[mode]), InPart(Dest, cur, 1), StoreCell(file[mode][cur + 1])
        PROVE  PartTypeOK'
    <3>1. file[mode] \in Seq(Cell) /\ cur \in Nat
      BY <2>1 DEF OtaTypeOK
    <3>2. file[mode][cur + 1] \in Cell
      BY <2>1, <3>1, ElementOfSeq, LenProperties
    <3>3. cur \in Addr(Dest)
      BY <2>1, <3>1, DestPart, PartLens DEF InPart, Addr
    <3> QED
      BY <2>1, <3>2, <3>3, DestPart, WriteProps, ProgramProps, FaultProps
         DEF StoreCell, PartTypeOK
  <2>2. ASSUME ReadError
        PROVE  PartTypeOK'
    BY <2>2, OverrunProps DEF ReadError, PartTypeOK
  <2> QED
    BY <1>3, <2>1, <2>2 DEF Data, PartTypeOK
<1> QED
  BY <1>1, <1>2, <1>3 DEF OtaThread

LEMMA NextPassType ==
    ASSUME NEW reb, mode \in Mode, NextPass(reb)
    PROVE  mode' \in Mode /\ opc' \in {"poll", "reboot", "open"}
BY DEF NextPass, Mode, UsbMode

LEMMA CloseFileType ==
    ASSUME OtaTypeOK, CloseFile
    PROVE  /\ fd_ok' = FALSE
           /\ file' \in [Mode -> Seq(Cell) \cup {NoFile}]
           /\ ~usb => \A m \in UsbMode : file'[m] = NoFile
BY DEF OtaTypeOK, CloseFile, Mode, UsbMode

LEMMA OtaStateType ==
    ASSUME OtaTypeOK, OtaThread
    PROVE  OtaTypeOK'
<1> USE DEF OtaTypeOK
<1>1. CASE Poll
  BY <1>1 DEF Poll, Mode, UsbMode
<1>2. CASE OpenFile
  <2>1. CASE file[mode] # NoFile
    BY <1>2, <2>1 DEF OpenFile
  <2>2. CASE file[mode] = NoFile
    <3>1. mode' \in Mode /\ opc' \in {"poll", "reboot", "open"}
      BY <1>2, <2>2, NextPassType DEF OpenFile
    <3> QED
      BY <1>2, <2>2, <3>1 DEF OpenFile
  <2> QED
    BY <2>1, <2>2
<1>3. CASE Begin
  <2>1. total' \in Nat
    <3>1. fd_ok => Len(file[mode]) \in Nat
      BY LenProperties
    <3>2. AnySize \subseteq Nat
      BY PartLens DEF AnySize, PartName
    <3> QED
      BY <1>3, <3>1, <3>2 DEF Begin
  <2>2. ASSUME NEW sta \in {"FileNotCheck", "FileIsSame", updatesta}, BeginFails(sta)
        PROVE  OtaTypeOK'
    BY <1>3, <2>1, <2>2, NextPassType, CloseFileType DEF Begin, BeginFails
  <2>3. ASSUME total' \in 2 .. PartLen[Dest], opc' = "erase",
               UNCHANGED <<file, fd_ok, mode, updatesta>>
        PROVE  OtaTypeOK'
    BY <1>3, <2>1, <2>3 DEF Begin, Dest
  <2> QED
    BY <1>3, <2>2, <2>3 DEF Begin
<1>4. CASE EraseDest
  <2>1. ASSUME BeginFails(updatesta), UNCHANGED sec
        PROVE  OtaTypeOK'
    BY <1>4, <2>1, NextPassType, CloseFileType DEF EraseDest, BeginFails
  <2>2. ASSUME opc' \in {"data", "erase"}, sec' \in {sec, sec + 1},
               UNCHANGED <<file, fd_ok, mode, updatesta>>
        PROVE  OtaTypeOK'
    BY <1>4, <2>2 DEF EraseDest, Dest
  <2> QED
    BY <1>4, <2>1, <2>2 DEF EraseDest
<1>5. CASE Data
  <2>1. cur' \in Nat /\ (opc' \in {"data", "end"} \/ (opc' = "reboot" /\ ~fd_ok))
    BY <1>5 DEF Data, StoreCell, ReadError
  <2> QED
    BY <1>5, <2>1 DEF Data, Dest
<1>6. CASE End
  <2>1. mode' \in Mode /\ opc' \in {"poll", "reboot", "open"} /\ is_reboot' \in BOOLEAN
    BY <1>6, NextPassType DEF End
  <2> QED
    BY <1>6, <2>1, CloseFileType DEF End
<1> QED
  BY <1>1, <1>2, <1>3, <1>4, <1>5, <1>6 DEF OtaThread

LEMMA OtaWorldType ==
    ASSUME OtaTypeOK, OtaWorld
    PROVE  OtaTypeOK' /\ UNCHANGED <<part, faults, opc>>
<1> USE DEF OtaTypeOK, otaRam
<1>1. CASE Plug
  <2>1. Images["download"] \subseteq Seq(Cell) /\ Images["factory"] \subseteq Seq(Cell)
    BY OtaAssumption DEF OtaAssumption, Mode, UsbMode
  <2>2. file' \in [Mode -> Seq(Cell) \cup {NoFile}] /\ file'["tftp"] = file["tftp"]
    BY <1>1, <2>1 DEF Plug, Mode, UsbMode
  <2>3. fd_ok => mode = "tftp"
    BY <1>1 DEF Plug, Mode
  <2>4. UNCHANGED <<part, faults, devsta, updatesta, opc, mode, fd_ok, total, sec, cur,
                    is_reboot>> /\ usb' = TRUE
    BY <1>1 DEF Plug
  <2> QED
    BY <2>2, <2>3, <2>4 DEF Dest
<1>2. CASE Unplug
  BY <1>2 DEF Unplug, Dest, Mode, UsbMode
<1>3. CASE TftpCreate
  <2>1. <<>> \in Seq(Cell) /\ <<>> # NoFile
    BY EmptySeq, OtaAssumption DEF OtaAssumption
  <2>2. /\ file' \in [Mode -> Seq(Cell) \cup {NoFile}]
        /\ file'["tftp"] # NoFile
        /\ \A m \in UsbMode : file'[m] = file[m]
    BY <1>3, <2>1 DEF TftpCreate, Mode, UsbMode
  <2>3. UNCHANGED <<part, faults, usb, devsta, updatesta, opc, mode, fd_ok, total, sec, cur,
                    is_reboot>>
    BY <1>3 DEF TftpCreate
  <2> QED
    BY <2>2, <2>3 DEF Dest, Mode
<1>4. CASE TftpWrite
  <2>1. ASSUME NEW s \in Images["tftp"], Len(s) > Len(file["tftp"])
        PROVE  SubSeq(s, 1, Len(file["tftp"]) + 1) \in Seq(Cell)
    <3>1. s \in Seq(Cell) /\ file["tftp"] \in Seq(Cell)
      BY <1>4, OtaAssumption DEF TftpWrite, OtaAssumption, Mode, UsbMode
    <3>2. Len(s) \in Nat /\ Len(file["tftp"]) \in Nat
      BY <3>1, LenProperties
    <3> QED
      BY <2>1, <3>1, <3>2, SubSeqProperties
  <2>2. /\ file' \in [Mode -> Seq(Cell) \cup {NoFile}]
        /\ file'["tftp"] # NoFile
        /\ \A m \in UsbMode : file'[m] = file[m]
    <3>1. PICK c \in Seq(Cell) : file' = [file EXCEPT !["tftp"] = c]
      BY <1>4, <2>1 DEF TftpWrite
    <3>2. c # NoFile
      BY OtaAssumption DEF OtaAssumption
    <3> QED
      BY <3>1, <3>2 DEF Mode, UsbMode
  <2>3. UNCHANGED <<part, faults, usb, devsta, updatesta, opc, mode, fd_ok, total, sec, cur,
                    is_reboot>>
    BY <1>4 DEF TftpWrite
  <2> QED
    BY <2>2, <2>3 DEF Dest, Mode
<1> QED
  BY <1>1, <1>2, <1>3, <1>4 DEF OtaWorld

---------------------------------------------------------------------------
(***************************************************************************)
(* A board fresh from the factory.                                         *)
(***************************************************************************)
LEMMA FreshType ==
    ASSUME NEW p \in PartName, NEW s, \A a \in DOMAIN s : s[a] \in Cell
    PROVE  Fresh(p, s) \in [Addr(p) -> Cell]
BY CellTypes DEF Fresh

LEMMA InitType == Init => TypeInv
<1> SUFFICES ASSUME Init PROVE TypeInv
  OBVIOUS
<1>1. PartTypeOK
  <2>0. PICK f \in Firmware : \E pkg \in {<<>>, Package(f)} :
             part = [p \in PartName |->
                       CASE p = "app"      -> Fresh(p, Image(f))
                         [] p = "factory"  -> Fresh(p, pkg)
                         [] p = "download" -> Fresh(p, <<>>)]
    BY DEF Init
  <2>1. PICK pkg \in {<<>>, Package(f)} :
             part = [p \in PartName |->
                       CASE p = "app"      -> Fresh(p, Image(f))
                         [] p = "factory"  -> Fresh(p, pkg)
                         [] p = "download" -> Fresh(p, <<>>)]
    BY <2>0
  <2>2. \A a \in DOMAIN Image(f) : Image(f)[a] \in Cell
    BY CellTypes DEF Image
  <2>3. \A a \in DOMAIN <<>> : <<>>[a] \in Cell
    OBVIOUS
  <2>4. \A a \in DOMAIN Package(f) : Package(f)[a] \in Cell
    <3>1. \A a \in 0 .. f.pkg_size : a = 0 \/ a \in 1 .. f.pkg_size
      BY FirmwareFields
    <3> QED
      BY <3>1, CellTypes DEF Package
  <2>5. /\ Fresh("app", Image(f)) \in [Addr("app") -> Cell]
        /\ Fresh("factory", pkg) \in [Addr("factory") -> Cell]
        /\ Fresh("download", <<>>) \in [Addr("download") -> Cell]
    BY <2>2, <2>3, <2>4, FreshType DEF PartName
  <2>6. /\ DOMAIN part = PartName
        /\ part["app"] = Fresh("app", Image(f))
        /\ part["factory"] = Fresh("factory", pkg)
        /\ part["download"] = Fresh("download", <<>>)
    BY <2>1 DEF PartName
  <2>7. faults \in 0 .. MaxFault
    BY GeometryAssumption DEF Init, GeometryAssumption
  <2> QED
    BY <2>5, <2>6, <2>7 DEF PartTypeOK, PartName
<1>2. BootTypeOK /\ BootBounds
  BY PartLens, CrashAssumption DEF Init, BootInit, OtaInit, BootTypeOK, BootBounds, BootPc, Stage, PartName
<1>3. OtaTypeOK
  BY DEF Init, OtaInit, OtaTypeOK, Mode, UsbMode
<1>4. spilled \in BOOLEAN
  BY DEF Init
<1> QED
  BY <1>1, <1>2, <1>3, <1>4, CrashAssumption DEF Init, TypeInv, TypeOK, MaxRelease, CrashAssumption

LEMMA ResetType ==
    ASSUME TypeInv, BootReset, OtaReset
    PROVE  /\ BootTypeOK' /\ OtaTypeOK'
           /\ bpc' = "reset" /\ opc' = "poll"
<1>1. BootTypeOK' /\ bpc' = "reset"
  BY PartLens DEF TypeInv, TypeOK, BootTypeOK, BootReset, BootPc, Stage, PartName
<1>2. OtaTypeOK' /\ opc' = "poll"
  <2>1. file' = file /\ usb' = usb /\ fd_ok' = FALSE /\ opc' = "poll" /\ mode' = "download"
    BY DEF OtaReset
  <2>2. devsta' = 0 /\ updatesta' = "ReadyToUpdate" /\ is_reboot' = FALSE
        /\ total' = 0 /\ sec' = 0 /\ cur' = 0
    BY DEF OtaReset
  <2> QED
    BY <2>1, <2>2 DEF TypeInv, TypeOK, OtaTypeOK, Mode, UsbMode
<1> QED
  BY <1>1, <1>2

LEMMA TypeStep == TypeInv /\ [Next]_vars => TypeInv'
<1> SUFFICES ASSUME TypeInv, [Next]_vars PROVE TypeInv'
  OBVIOUS
<1> USE DEF TypeInv, TypeOK
<1>0. MaxCrash \in Nat /\ MaxRelease = MaxCrash + 2
  BY CrashAssumption DEF CrashAssumption, MaxRelease
<1>1. CASE Boot
  <2>1. opc = "poll" /\ UNCHANGED <<opc, crashes, cuts>> /\ BootNext
    BY <1>1 DEF Boot, BootBounds, otaVars
  <2>2. PartTypeOK' /\ BootTypeOK' /\ BootBounds'
    BY <2>1, BootPartType, BootStateType
  <2>3. OtaTypeOK'
    BY <1>1 DEF Boot, otaVars, OtaTypeOK, Dest
  <2>4. EndsRelease => fw_info' \in Firmware
    BY DEF EndsRelease, VerifyPasses
  <2> QED
    BY <1>0, <1>1, <2>1, <2>2, <2>3, <2>4 DEF Boot
<1>2. CASE App
  <2>1. OtaThread /\ UNCHANGED <<bootVars, crashes, released>> /\ bpc = "app"
        /\ releases' \in {releases, 0} /\ cuts' \in {cuts, 0} /\ spilled' \in BOOLEAN
    BY <1>2 DEF App
  <2>2. PartTypeOK' /\ OtaTypeOK'
    BY <2>1, OtaPartType, OtaStateType
  <2>3. BootTypeOK' /\ BootBounds'
    BY <1>0, <2>1 DEF bootVars, BootTypeOK, BootBounds
  <2> QED
    BY <1>0, <2>1, <2>2, <2>3
<1>3. CASE Reboot
  BY <1>3, ResetType DEF Reboot, history, PartTypeOK, BootBounds
<1>4. CASE PowerLoss
  <2>1. PartTypeOK'
    <3>1. CASE UNCHANGED part
      BY <1>4, <3>1 DEF PowerLoss, PartTypeOK
    <3>2. CASE Spoil(InFlight[1], InFlight[2])
      <4>1. InFlight[1] \in PartName
        BY DEF InFlight, BootInFlight, OtaInFlight, Source, Dest, PartName
      <4> QED
        BY <1>4, <3>2, <4>1, SpoilProps DEF PowerLoss, PartTypeOK
    <3> QED
      BY <1>4, <3>1, <3>2 DEF PowerLoss
  <2> QED
    BY <1>0, <1>4, <2>1, ResetType DEF PowerLoss, BootBounds
<1>5. CASE World
  BY <1>5, OtaWorldType DEF World, bootVars, history, PartTypeOK, BootTypeOK, BootBounds
<1>6. CASE UNCHANGED vars
  BY <1>6 DEF vars, bootVars, otaVars, history, PartTypeOK, BootTypeOK, OtaTypeOK, BootBounds, Dest
<1> QED
  BY <1>1, <1>2, <1>3, <1>4, <1>5, <1>6 DEF Next

LEMMA TypeInvariant == Spec => []TypeInv
BY InitType, TypeStep, PTL DEF Spec

(***************************************************************************)
(* Every reachable state of the board is well typed: no handler of the     *)
(* bootloader or of the update thread ever writes outside the partition it *)
(* works on, for any packages, files, partitions, crashes and faults.      *)
(***************************************************************************)
THEOREM TypeCorrect == Spec => []TypeOK
<1>1. TypeInv => TypeOK
  BY DEF TypeInv
<1> QED
  BY <1>1, TypeInvariant, PTL
---------------------------------------------------------------------------
(***************************************************************************)
(* StoredIsRead for every set of files, however a TFTP upload grows while  *)
(* it is being stored and whatever the flash does.                         *)
(***************************************************************************)
\* Nothing has been stored yet when the erase is done.
StoredInv == StoredIsRead /\ (opc = "erase" => cur = 0)

LEMMA StoredInit == Init => StoredInv
BY DEF Init, OtaInit, StoredInv, StoredIsRead, ReadBackSees

\* A step that programs nothing, or leaves the partition being read alone.
LEMMA StoredKept ==
    ASSUME StoredInv, UNCHANGED <<part, file, opc, mode, fd_ok, cur>>
    PROVE  StoredInv'
BY DEF StoredInv, StoredIsRead, ReadBackSees, Dest

LEMMA StoredThread ==
    ASSUME TypeInv, StoredInv, OtaThread
    PROVE  StoredInv'
<1> USE DEF TypeInv, TypeOK, OtaTypeOK, StoredInv
<1>0. ASSUME opc' \notin {"erase", "data", "end"}
      PROVE  StoredInv'
  BY <1>0 DEF StoredIsRead, ReadBackSees
<1>1. CASE Poll
  BY <1>0, <1>1 DEF Poll
<1>2. CASE OpenFile
  BY <1>0, <1>2 DEF OpenFile, NextPass
<1>3. CASE Begin
  <2>1. ASSUME NEW sta, BeginFails(sta)
        PROVE  StoredInv'
    BY <1>0, <2>1 DEF BeginFails, NextPass
  <2>2. ASSUME opc' = "erase"
        PROVE  StoredInv'
    BY <1>3, <2>2 DEF Begin, StoredIsRead, ReadBackSees
  <2> QED
    BY <1>3, <2>1, <2>2 DEF Begin
<1>4. CASE EraseDest
  <2>1. ASSUME BeginFails(updatesta)
        PROVE  StoredInv'
    BY <1>0, <2>1 DEF BeginFails, NextPass
  <2>2. ASSUME opc' \in {"erase", "data"}
        PROVE  StoredInv'
    <3>1. cur' = 0
      BY <1>4 DEF EraseDest
    <3>2. file' = file /\ mode' = mode /\ (fd_ok' => file[mode] \in Seq(Cell))
      BY <1>4, <2>2 DEF EraseDest, BeginFails, NextPass
    <3>3. fd_ok' => Len(file[mode]) \in Nat
      BY <3>2, LenProperties
    <3> QED
      BY <2>2, <3>1, <3>2, <3>3 DEF StoredIsRead, ReadBackSees
  <2> QED
    BY <1>4, <2>1, <2>2 DEF EraseDest
<1>5. CASE Data
  <2>1. ASSUME fd_ok, cur < Len(file[mode]), InPart(Dest, cur, 1), StoreCell(file[mode][cur + 1])
        PROVE  StoredInv'
    <3>1. file[mode] \in Seq(Cell) /\ cur \in Nat /\ PartLen[Dest] \in Nat
      BY <2>1, DestPart, PartLens
    <3>2. file[mode][cur + 1] \in Cell /\ Len(file[mode]) \in Nat
      BY <2>1, <3>1, ElementOfSeq, LenProperties
    <3>3. cur \in Addr(Dest) /\ \A i \in 0 .. cur - 1 : i \in Addr(Dest) /\ i # cur
      BY <2>1, <3>1 DEF InPart, Addr
    <3>4. \A i \in 0 .. cur - 1 : part'[Dest][i] = part[Dest][i]
      BY <2>1, <3>2, <3>3, DestPart, WriteProps, ProgramProps DEF StoreCell
    <3>5. UNCHANGED <<file, mode, fd_ok>> /\ Dest' = Dest
      BY <1>5 DEF Data, Dest
    <3>6. CASE Dest \notin NorParts /\ cur' = cur + 1 /\ UNCHANGED opc
               /\ part'[Dest][cur] = file[mode][cur + 1]
      <4>1. \A i \in 0 .. cur' - 1 : i = cur \/ i \in 0 .. cur - 1
        BY <3>1, <3>6
      <4>2. cur <= Len(file[mode]) /\ \A i \in 0 .. cur - 1 : part[Dest][i] = file[mode][i + 1]
        BY <1>5, <2>1, <3>6 DEF StoredIsRead, ReadBackSees, Data
      <4>3. \A i \in 0 .. cur' - 1 : part'[Dest][i] = file[mode][i + 1]
        BY <3>4, <3>6, <4>1, <4>2
      <4> QED
        BY <1>5, <2>1, <3>1, <3>2, <3>5, <3>6, <4>3 DEF StoredIsRead, ReadBackSees, Data
    <3>7. CASE Dest \notin NorParts /\ opc' = "end" /\ UNCHANGED cur
      <4>1. cur <= Len(file[mode]) /\ \A i \in 0 .. cur - 1 : part[Dest][i] = file[mode][i + 1]
        BY <1>5, <2>1, <3>7 DEF StoredIsRead, ReadBackSees, Data
      <4> QED
        BY <3>4, <3>5, <3>7, <4>1 DEF StoredIsRead, ReadBackSees
    <3>8. CASE Dest \in NorParts
      <4>1. opc' # "erase"
        BY <1>5, <2>1 DEF Data, StoreCell
      <4> QED
        BY <3>5, <3>8, <4>1 DEF StoredIsRead
    <3> QED
      BY <2>1, <3>6, <3>7, <3>8 DEF StoreCell, ClobberedBy
  <2>2. ASSUME opc' = "end", UNCHANGED <<part, faults, cur>>
        PROVE  StoredInv'
    BY <1>5, <2>2 DEF Data, StoredIsRead, ReadBackSees, Dest
  <2>3. ASSUME ~fd_ok
        PROVE  StoredInv'
    BY <1>5, <2>3 DEF Data, ReadError, StoredIsRead, ReadBackSees
  <2> QED
    BY <1>5, <2>1, <2>2, <2>3 DEF Data
<1>6. CASE End
  BY <1>0, <1>6 DEF End, NextPass
<1> QED
  BY <1>1, <1>2, <1>3, <1>4, <1>5, <1>6 DEF OtaThread

\* The file being read only grows behind the cells that have been read.
LEMMA StoredWorld ==
    ASSUME TypeInv, StoredInv, OtaWorld
    PROVE  StoredInv'
<1> USE DEF TypeInv, TypeOK, OtaTypeOK, otaRam
<1>1. ASSUME UNCHANGED <<part, opc, mode, cur>>, fd_ok' => fd_ok,
             fd_ok' => file'[mode] = file[mode]
      PROVE  StoredInv'
  BY <1>1 DEF StoredInv, StoredIsRead, ReadBackSees, Dest
<1>2. CASE Plug
  <2>1. fd_ok => mode = "tftp"
    BY <1>2 DEF Plug, Mode
  <2>2. file'["tftp"] = file["tftp"]
    BY <1>2 DEF Plug, Mode, UsbMode
  <2> QED
    BY <1>1, <1>2, <2>1, <2>2 DEF Plug
<1>3. CASE Unplug
  <2>1. fd_ok' => mode = "tftp" /\ fd_ok
    BY <1>3 DEF Unplug
  <2>2. file'["tftp"] = file["tftp"]
    BY <1>3 DEF Unplug, Mode, UsbMode
  <2> QED
    BY <1>1, <1>3, <2>1, <2>2 DEF Unplug
<1>4. CASE TftpCreate
  <2>1. fd_ok => mode \in UsbMode
    BY <1>4 DEF TftpCreate, Mode
  <2>2. \A m \in UsbMode : file'[m] = file[m]
    BY <1>4 DEF TftpCreate, Mode, UsbMode
  <2> QED
    BY <1>1, <1>4, <2>1, <2>2 DEF TftpCreate
<1>5. CASE TftpWrite
  <2>1. CASE mode \in UsbMode
    <3>1. file'[mode] = file[mode]
      BY <1>5, <2>1 DEF TftpWrite, Mode, UsbMode
    <3> QED
      BY <1>1, <1>5, <3>1 DEF TftpWrite
  <2>2. CASE mode = "tftp" /\ fd_ok /\ opc \in {"data", "end"} /\ Dest \notin NorParts
    <3>1. PICK s \in Images["tftp"] :
             /\ Len(s) > Len(file["tftp"])
             /\ SubSeq(s, 1, Len(file["tftp"])) = file["tftp"]
             /\ file' = [file EXCEPT !["tftp"] = SubSeq(s, 1, Len(file["tftp"]) + 1)]
      BY <1>5 DEF TftpWrite
    <3>2. s \in Seq(Cell) /\ file["tftp"] \in Seq(Cell)
      BY <1>5, OtaAssumption DEF TftpWrite, OtaAssumption, Mode, UsbMode
    <3>3. Len(s) \in Nat /\ Len(file["tftp"]) \in Nat
      BY <3>2, LenProperties
    <3>4. file'["tftp"] = SubSeq(s, 1, Len(file["tftp"]) + 1)
      BY <3>1 DEF Mode
    <3>5. /\ Len(file'["tftp"]) = Len(file["tftp"]) + 1
          /\ \A i \in 1 .. Len(file["tftp"]) : file'["tftp"][i] = s[i]
      BY <3>1, <3>2, <3>3, <3>4, SubSeqProperties
    <3>6. \A i \in 1 .. Len(file["tftp"]) : file["tftp"][i] = s[i]
      BY <3>1, <3>2, <3>3, SubSeqProperties
    <3>7. cur \in Nat /\ cur <= Len(file["tftp"])
          /\ \A i \in 0 .. cur - 1 : part[Dest][i] = file["tftp"][i + 1]
      BY <2>2 DEF StoredInv, StoredIsRead, ReadBackSees
    <3>8. \A i \in 0 .. cur - 1 : i + 1 \in 1 .. Len(file["tftp"])
      BY <3>3, <3>7
    <3>9. \A i \in 0 .. cur - 1 : part[Dest][i] = file'["tftp"][i + 1]
      BY <3>5, <3>6, <3>7, <3>8
    <3> QED
      BY <1>5, <2>2, <3>3, <3>5, <3>7, <3>9 DEF TftpWrite, StoredInv, StoredIsRead, ReadBackSees, Dest
  <2>3. CASE ~(fd_ok /\ opc \in {"data", "end"} /\ Dest \notin NorParts)
    BY <1>5, <2>3 DEF TftpWrite, StoredInv, StoredIsRead, ReadBackSees, Dest
  <2> QED
    BY <2>1, <2>2, <2>3 DEF Mode
<1> QED
  BY <1>2, <1>3, <1>4, <1>5 DEF OtaWorld

LEMMA StoredStep == TypeInv /\ StoredInv /\ [Next]_vars => StoredInv'
<1> SUFFICES ASSUME TypeInv, StoredInv, [Next]_vars PROVE StoredInv'
  OBVIOUS
<1>1. CASE Boot
  BY <1>1 DEF Boot, otaVars, TypeInv, BootBounds, StoredInv, StoredIsRead, ReadBackSees
<1>2. CASE App
  BY <1>2, StoredThread DEF App
<1>3. CASE Reboot \/ PowerLoss
  BY <1>3 DEF Reboot, PowerLoss, OtaReset, StoredInv, StoredIsRead, ReadBackSees
<1>4. CASE World
  BY <1>4, StoredWorld DEF World
<1>5. CASE UNCHANGED vars
  BY <1>5, StoredKept DEF vars, otaVars
<1> QED
  BY <1>1, <1>2, <1>3, <1>4, <1>5 DEF Next

(***************************************************************************)
(* Up to the current position the partition holds what was read from the   *)
(* file, for every file, upload, crash and flash fault, if it is not on    *)
(* NOR flash: ota_on_data's comparison after each write is enough there.   *)
(***************************************************************************)
THEOREM StoredCorrect == Spec => []StoredIsRead
<1>1. StoredInv => StoredIsRead
  BY DEF StoredInv
<1> QED
  BY <1>1, TypeInvariant, StoredInit, StoredStep, PTL DEF Spec
---------------------------------------------------------------------------
(***************************************************************************)
(* BootKeepsPackages for every set of packages and every geometry.  The    *)
(* bootloader writes to a package partition at one place only, where it    *)
(* puts the sign, and it takes the position from a header read back from   *)
(* the app partition.  So the proof is about that header: after the erase  *)
(* of the tail it is no other package's unless one flash operation has     *)
(* gone wrong, and after the write of the header unless two have.          *)
(***************************************************************************)
PackagePart == {"download", "factory"}

\* The tail of the app partition holds the header of another package.
Stale == \E g \in Firmware : g # fw_info /\ part["app"][TailCell("app")] = Hdr(g)

\* No other package is whole in the source (nor is fw_info's, if the check was misled).
Sole == \A g \in Firmware : Holds(Source, g) => g = fw_info

KeepInv ==
    /\ bpc \in {"start", "erase", "erase_tail", "copy", "info", "verify"} => Sole
    /\ bpc \in {"start", "erase", "erase_tail", "copy", "info", "verify", "sign"}
         /\ faults = 0 => Holds(Source, fw_info)
    /\ bpc \in {"copy", "info"} /\ Stale => faults >= 1
    /\ bpc = "verify" /\ Stale => faults >= 2
    /\ bpc = "sign" /\ faults <= 1 => Sole

LEMMA KeepInit == Init => KeepInv
BY DEF Init, BootInit, KeepInv

LEMMA SourcePart == Source \in PackagePart /\ Source \in PartName /\ Source # "app"
BY DEF Source, PackagePart, PartName

\* What does not touch a partition keeps its package.
LEMMA HoldsKept ==
    ASSUME NEW p, NEW f, part'[p] = part[p]
    PROVE  Holds(p, f)' <=> Holds(p, f)
BY DEF Holds

\* A write to the app partition that goes on with the same package.
LEMMA KeepApp ==
    ASSUME KeepInv, bpc \in {"start", "erase", "erase_tail", "copy", "info", "verify"},
           part'[Source] = part[Source], UNCHANGED <<fw_info, stage>>,
           faults' = 0 => faults = 0
    PROVE  /\ Sole'
           /\ faults' = 0 => Holds(Source, fw_info)'
<1>1. Sole /\ (faults = 0 => Holds(Source, fw_info))
  BY DEF KeepInv
<1>2. Source' = Source
  BY DEF Source
<1>3. Sole'
  BY <1>1, <1>2 DEF Sole, Holds
<1>4. Holds(Source, fw_info) => Holds(Source, fw_info)'
  BY <1>2 DEF Holds
<1> QED
  BY <1>1, <1>3, <1>4

\* One cell that was not read is too little to take one package for another.
LEMMA StaleCheck ==
    ASSUME NEW f \in Firmware, FwCheckStale(Source, f), fw_info' = f, UNCHANGED <<part, stage>>
    PROVE  Sole'
<1> SUFFICES ASSUME NEW g \in Firmware, Holds(Source, g)
             PROVE  g = f
  BY DEF Sole, Holds, Source
<1>1. PICK a \in 0 .. f.pkg_size : HoldsBut(Source, f, a)
  BY DEF FwCheckStale
<1>2. CASE a # 0
  BY <1>1, <1>2, CellsDiffer DEF HoldsBut, Holds
<1>3. CASE a = 0
  <2>1. 1 \in (1 .. f.pkg_size) \ {a} /\ 1 \in 1 .. g.pkg_size
    BY <1>3, FirmwareFields
  <2>2. Pkg(f, 1) = Pkg(g, 1)
    BY <1>1, <2>1 DEF HoldsBut, Holds
  <2> QED
    BY <2>2 DEF Pkg
<1> QED
  BY <1>2, <1>3

LEMMA KeepBoot ==
    ASSUME TypeInv, KeepInv, BootNext
    PROVE  KeepInv'
<1> USE DEF TypeInv, TypeOK
<1>0. ASSUME bpc' \in {"reset", "check", "jump", "app"}
      PROVE  KeepInv'
  BY <1>0 DEF KeepInv
<1>00. StageFails => bpc' \in {"reset", "check", "jump"}
  BY RoutingType
<1>001. faults' \in {faults, faults + 1} /\ faults' = 0 => faults = 0
  BY GeometryAssumption DEF PartTypeOK, GeometryAssumption
<1>000. /\ "app" \in PartName
        /\ TailCell("app") \in Addr("app")
        /\ faults \in Nat
  BY PartLens, GeometryAssumption DEF PartName, PartTypeOK, GeometryAssumption
<1>1. CASE Start
  BY <1>0, <1>1 DEF Start
<1>2. CASE CheckPasses \/ CheckMisled
  <2>1. PICK f \in Firmware : (FwCheck(Source, f) \/ FwCheckStale(Source, f)) /\ fw_info' = f
    BY <1>2 DEF CheckPasses, CheckMisled
  <2>2. bpc' \in {"start", "reset", "check", "jump"}
    BY <1>2, <1>00 DEF CheckPasses, CheckMisled, Accepted, SignUnread, Goto
  <2>3. ASSUME bpc' = "start"
        PROVE  UNCHANGED <<part, stage>>
    BY <1>2, <1>00, <2>3 DEF CheckPasses, CheckMisled, Accepted, SignUnread, Goto
  <2>4. ASSUME bpc' = "start", FwCheck(Source, f)
        PROVE  Sole' /\ Holds(Source, fw_info)'
    BY <2>1, <2>3, <2>4, CellsDiffer DEF FwCheck, Sole, Holds, Source
  <2>5. FwCheck(Source, f) \/ faults' # 0
    BY <1>2, <1>000, <2>1 DEF CheckPasses, CheckMisled, ReadsStale, Fault
  <2> QED
    BY <1>0, <2>1, <2>2, <2>3, <2>4, <2>5, StaleCheck DEF KeepInv
<1>3. CASE CheckFails
  BY <1>0, <1>00, <1>3 DEF CheckFails
<1>4. CASE StartRelease
  <2>1. ASSUME Goto("erase")
        PROVE  KeepInv'
    BY <1>4, <2>1, KeepApp DEF StartRelease, Goto, KeepInv
  <2> QED
    BY <1>0, <1>00, <1>4, <2>1 DEF StartRelease
<1>5. CASE EraseApp
  <2>1. ASSUME bpc' \in {"erase", "erase_tail"}, UNCHANGED stage
        PROVE  KeepInv'
    <3>1. part'[Source] = part[Source] /\ faults' \in {faults, faults + 1}
      BY <1>5, <1>000, EraseProps, SourcePart DEF EraseApp
    <3>2. Sole' /\ (faults' = 0 => Holds(Source, fw_info)')
      BY <1>001, <1>5, <2>1, <3>1, KeepApp DEF EraseApp
    <3> QED
      BY <2>1, <3>2 DEF KeepInv
  <2> QED
    BY <1>0, <1>00, <1>5, <2>1 DEF EraseApp, Goto
<1>6. CASE EraseTail
  <2>1. ASSUME Goto("copy")
        PROVE  KeepInv'
    <3>1. PICK ok \in BOOLEAN : Erase("app", SectorOf(TailCell("app")), ok)
      BY <1>6 DEF EraseTail
    <3>2. /\ part'[Source] = part[Source]
          /\ faults' \in {faults, faults + 1}
          /\ faults' = faults => part'["app"][TailCell("app")] = Erased
      BY <3>1, <1>000, EraseProps, SourcePart
    <3>3. Sole' /\ (faults' = 0 => Holds(Source, fw_info)')
      BY <1>001, <1>6, <2>1, <3>2, KeepApp DEF EraseTail, Goto
    <3>4. Stale' => faults' >= 1
      BY <1>000, <3>2, CellsDiffer DEF Stale
    <3> QED
      BY <2>1, <3>3, <3>4 DEF KeepInv, Goto
  <2> QED
    BY <1>0, <1>00, <1>6, <2>1 DEF EraseTail
<1>7. CASE CopyCell \/ CopyMisled
  <2>1. ASSUME bpc' \in {"copy", "info"}, UNCHANGED stage
        PROVE  KeepInv'
    <3>2. fw_info \in Firmware /\ at \in Nat /\ at < fw_info.raw_size /\ Releasable(fw_info)
      BY <1>7, PartLens DEF CopyCell, CopyMisled, BootBounds, BootTypeOK, PartName
    <3>3. fw_info.raw_size \in Nat /\ PartLen["app"] \in Nat /\ fw_info.raw_size <= PartLen["app"]
      BY <3>2, FirmwareFields, LastSectorBound, PartLens DEF PartName
    <3>4. PICK c \in Cell : c = Unpacked(Source, fw_info, at) /\ \A g : c # Hdr(g)
      BY <3>2, <3>3, CellTypes, CellsDiffer DEF Unpacked
    <3>5. at \in Addr("app")
      BY <3>2, <3>3 DEF Addr
    <3>6. /\ part'[Source] = part[Source]
          /\ faults' \in {faults, faults + 1}
          /\ part'["app"][TailCell("app")] \in {part["app"][TailCell("app")], c, Junk}
      <4>1. CASE CopyCell
        <5>1. PICK ok \in BOOLEAN : Write("app", at, Unpacked(Source, fw_info, at), ok)
          BY <1>00, <2>1, <4>1 DEF CopyCell
        <5> QED
          BY <3>4, <3>5, <5>1, <1>000, WriteProps, SourcePart
      <4>2. CASE CopyMisled
        BY <3>5, <4>2, <1>000, ProgramProps, FaultProps, CellTypes, SourcePart
           DEF CopyMisled, ReadsStale
      <4> QED
        BY <1>7, <4>1, <4>2
    <3>8. bpc = "copy" /\ fw_info' = fw_info
      BY <1>7 DEF CopyCell, CopyMisled
    <3>7. Sole' /\ (faults' = 0 => Holds(Source, fw_info)')
      BY <1>001, <2>1, <3>6, <3>8, KeepApp
    <3>9. Stale' => Stale
      BY <3>4, <3>6, <3>8, CellsDiffer DEF Stale
    <3>10. Stale' => faults' >= 1
      BY <1>000, <3>6, <3>8, <3>9 DEF KeepInv
    <3> QED
      BY <2>1, <3>7, <3>10 DEF KeepInv
  <2> QED
    BY <1>0, <1>00, <1>7, <2>1 DEF CopyCell, CopyMisled, Goto
<1>8. CASE WriteInfo
  <2>1. ASSUME Goto("verify")
        PROVE  KeepInv'
    <3>1. PICK ok \in BOOLEAN : Write("app", TailCell("app"), Hdr(fw_info), ok)
      BY <1>8 DEF WriteInfo
    <3>2. fw_info \in Firmware
      BY <1>8 DEF WriteInfo, BootTypeOK
    <3>3. PICK c \in Cell : c = Hdr(fw_info)
      BY <3>2, CellTypes
    <3>4. /\ part'[Source] = part[Source]
          /\ faults' \in {faults, faults + 1}
          /\ part'["app"][TailCell("app")] \in {part["app"][TailCell("app")], c, Junk}
          /\ faults' = faults => part'["app"][TailCell("app")] \in {c, Junk}
      BY <3>1, <3>3, <1>000, WriteProps, ProgrammedProps, SourcePart DEF PartTypeOK
    <3>5. Sole' /\ (faults' = 0 => Holds(Source, fw_info)')
      BY <1>001, <1>8, <2>1, <3>4, KeepApp DEF WriteInfo, Goto
    <3>6. fw_info' = fw_info
      BY <1>8 DEF WriteInfo
    <3>7. Stale' => Stale /\ faults' # faults
      BY <3>3, <3>4, <3>6, CellsDiffer DEF Stale
    <3>8. Stale' => faults' >= 2
      BY <1>000, <1>8, <3>4, <3>7 DEF WriteInfo, KeepInv
    <3> QED
      BY <2>1, <3>5, <3>8 DEF KeepInv, Goto
  <2> QED
    BY <1>0, <1>00, <1>8, <2>1 DEF WriteInfo
<1>9. CASE VerifyPasses
  <2>1. PICK g \in Firmware : DestVerified(g) /\ fw_info' = g
    BY <1>9 DEF VerifyPasses
  <2>2. bpc = "verify" /\ bpc' \in {"sign", "jump"} /\ UNCHANGED <<part, stage>>
        /\ (faults' = faults \/ Fault)
    BY <1>9 DEF VerifyPasses, SignUnread, Goto
  <2>3. ASSUME faults' <= 1
        PROVE  g = fw_info
    <3>1. faults <= 1
      BY <1>000, <2>2, <2>3, FaultProps
    <3> QED
      BY <1>000, <2>1, <2>2, <3>1 DEF KeepInv, Stale, DestVerified
  <2>4. ASSUME faults' <= 1
        PROVE  Sole' /\ (faults' = 0 => Holds(Source, fw_info)')
    <3>1. UNCHANGED <<fw_info, stage>> /\ part'[Source] = part[Source]
      BY <2>1, <2>2, <2>3, <2>4
    <3>2. faults' = 0 => faults = 0
      BY <1>001, <2>2, FaultProps
    <3> QED
      BY <2>2, <3>1, <3>2, KeepApp
  <2> QED
    BY <2>2, <2>4 DEF KeepInv
<1>10. CASE VerifyFails
  BY <1>0, <1>00, <1>10 DEF VerifyFails
<1>11. CASE WriteSign
  BY <1>0, <1>11 DEF WriteSign, Goto
<1>12. CASE Jump
  BY <1>0, <1>12 DEF Jump, Goto, GoOn
<1> QED
  BY <1>1, <1>2, <1>3, <1>4, <1>5, <1>6, <1>7, <1>8, <1>9, <1>10, <1>11, <1>12 DEF BootNext

LEMMA KeepStep == TypeInv /\ KeepInv /\ [Next]_vars => KeepInv'
<1> SUFFICES ASSUME TypeInv, KeepInv, [Next]_vars PROVE KeepInv'
  OBVIOUS
<1>1. CASE Boot
  BY <1>1, KeepBoot DEF Boot
<1>2. CASE App
  BY <1>2 DEF App, bootVars, KeepInv
<1>3. CASE Reboot \/ PowerLoss
  BY <1>3 DEF Reboot, PowerLoss, BootReset, KeepInv
<1>4. CASE World
  <2>1. UNCHANGED <<part, faults, bpc, stage, fw_info>>
    BY <1>4, OtaWorldType DEF World, bootVars, TypeInv, TypeOK
  <2> QED
    BY <2>1 DEF KeepInv, Sole, Holds, Source, Stale
<1>5. CASE UNCHANGED vars
  BY <1>5 DEF vars, bootVars, KeepInv, Sole, Holds, Source, Stale
<1> QED
  BY <1>1, <1>2, <1>3, <1>4, <1>5 DEF Next
---------------------------------------------------------------------------
\* The sign's cell lies behind the package.
LEMMA BesidePackage ==
    ASSUME PartTypeOK, NEW p \in PartName, NEW f \in Firmware, Holds(p, f),
           DOMAIN part' = PartName,
           \A a \in Addr(p) : a # SignCell(f) => part'[p][a] = part[p][a]
    PROVE  Holds(p, f)'
<1>1. f.pkg_size \in Nat \ {0} /\ SignCell(f) = f.pkg_size + 1 /\ PartLen[p] \in Nat
  BY FirmwareFields, PartLens
<1>2. f.pkg_size + 1 <= PartLen[p]
  BY <1>1 DEF Holds, InPart
<1>3. \A a \in 0 .. f.pkg_size : a \in Addr(p) /\ a # SignCell(f)
  BY <1>1, <1>2 DEF Addr
<1> QED
  BY <1>1, <1>3 DEF Holds

LEMMA KeepsPackages ==
    ASSUME TypeInv, KeepInv, [Next]_vars, bpc # "app", faults' <= 1,
           NEW p \in PackagePart, NEW f \in Firmware, Holds(p, f)
    PROVE  Holds(p, f)'
<1> USE DEF TypeInv, TypeOK
<1>0. p \in PartName /\ p # "app" /\ "app" \in PartName /\ faults \in Nat
  BY GeometryAssumption DEF PackagePart, PartName, PartTypeOK, GeometryAssumption
<1>1. ASSUME part'[p] = part[p]
      PROVE  Holds(p, f)'
  BY <1>1, HoldsKept
<1>2. ASSUME bpc = "sign", faults <= 1, fw_info \in Firmware, SignCell(fw_info) \in Addr(Source),
             DOMAIN part' = PartName,
             \A q \in PartName : q # Source => part'[q] = part[q],
             \A a \in Addr(Source) : a # SignCell(fw_info) => part'[Source][a] = part[Source][a]
      PROVE  Holds(p, f)'
  <2>1. CASE p # Source
    BY <1>0, <1>1, <1>2, <2>1
  <2>2. CASE p = Source
    <3>1. fw_info = f
      BY <1>2, <2>2 DEF KeepInv, Sole
    <3> QED
      BY <1>0, <1>2, <2>2, <3>1, BesidePackage
  <2> QED
    BY <2>1, <2>2
<1>3. CASE Boot
  <2>1. BootNext
    BY <1>3 DEF Boot
  <2>2. CASE \/ Start \/ CheckPasses \/ CheckMisled \/ CheckFails \/ VerifyPasses \/ VerifyFails
             \/ StartRelease \/ Jump
    BY <1>1, <2>2 DEF Start, CheckPasses, CheckMisled, CheckFails, VerifyPasses, VerifyFails,
       StartRelease, Jump, ReadFails
  <2>3. CASE EraseApp \/ EraseTail
    BY <1>0, <1>1, <2>3, EraseProps DEF EraseApp, EraseTail
  <2>4. CASE CopyCell \/ CopyMisled
    <3>1. fw_info \in Firmware /\ at \in Nat /\ at < fw_info.raw_size /\ Releasable(fw_info)
      BY <2>4, PartLens DEF CopyCell, CopyMisled, BootBounds, BootTypeOK, PartName
    <3>2. fw_info.raw_size \in Nat /\ PartLen["app"] \in Nat /\ fw_info.raw_size <= PartLen["app"]
      BY <3>1, FirmwareFields, LastSectorBound, PartLens DEF PartName
    <3>3. Unpacked(Source, fw_info, at) \in Cell /\ at \in Addr("app")
      BY <3>1, <3>2, CellTypes DEF Unpacked, Addr
    <3> QED
      BY <1>0, <1>1, <2>4, <3>3, WriteProps, ProgramProps, CellTypes
         DEF CopyCell, CopyMisled, ReadFails
  <2>5. CASE WriteInfo
    <3>1. Hdr(fw_info) \in Cell /\ TailCell("app") \in Addr("app")
      BY <2>5, CellTypes, PartLens DEF WriteInfo, BootTypeOK, PartName
    <3> QED
      BY <1>0, <1>1, <2>5, <3>1, WriteProps DEF WriteInfo
  <2>6. CASE WriteSign
    <3>1. fw_info \in Firmware /\ SignCell(fw_info) \in Nat /\ PartLen[Source] \in Nat
      BY <2>6, FirmwareFields, PartLens, SourcePart DEF WriteSign, BootTypeOK
    <3>2. CASE ~InPart(Source, SignCell(fw_info), 1)
      BY <1>1, <2>6, <3>2 DEF WriteSign
    <3>3. CASE InPart(Source, SignCell(fw_info), 1)
      <4>1. SignCell(fw_info) \in Addr(Source)
        BY <3>1, <3>3 DEF InPart, Addr
      <4>2. PICK ok \in BOOLEAN : Write(Source, SignCell(fw_info), Zero, ok)
        BY <2>6, <3>3 DEF WriteSign
      <4>3. /\ PartTypeOK'
            /\ \A q \in PartName : q # Source => part'[q] = part[q]
            /\ \A b \in Addr(Source) : b # SignCell(fw_info) => part'[Source][b] = part[Source][b]
            /\ faults' \in {faults, faults + 1}
        BY <4>1, <4>2, WriteProps, CellTypes, SourcePart
      <4> QED
        BY <1>0, <1>2, <2>6, <3>1, <4>1, <4>3 DEF WriteSign, PartTypeOK
    <3> QED
      BY <3>2, <3>3
  <2> QED
    BY <2>1, <2>2, <2>3, <2>4, <2>5, <2>6 DEF BootNext
<1>4. CASE PowerLoss
  <2>1. CASE UNCHANGED part
    BY <1>1, <2>1
  <2>2. CASE Spoil(InFlight[1], InFlight[2]) /\ bpc # "sign"
    <3>1. InFlight[1] = "app"
      BY <2>2 DEF InFlight, BootInFlight
    <3> QED
      BY <1>0, <1>1, <2>2, <3>1, SpoilProps
  <2>3. CASE Spoil(InFlight[1], InFlight[2]) /\ bpc = "sign"
    <3>1. InFlight = <<Source, {SignCell(fw_info)}>>
      BY <2>3 DEF InFlight, BootInFlight
    <3>2. /\ DOMAIN part' = PartName
          /\ \A q \in PartName : q # Source => part'[q] = part[q]
          /\ \A a \in Addr(Source) : a # SignCell(fw_info) => part'[Source][a] = part[Source][a]
      BY <2>3, <3>1, SpoilProps, SourcePart
    <3>3. fw_info \in Firmware /\ faults' = faults
      BY <1>4, <2>3 DEF PowerLoss, BootTypeOK
    <3>4. CASE p # Source
      BY <1>0, <1>1, <3>2, <3>4
    <3>5. CASE p = Source
      <4>1. fw_info = f
        BY <2>3, <3>3, <3>5 DEF KeepInv, Sole
      <4> QED
        BY <1>0, <3>2, <3>3, <3>5, <4>1, BesidePackage
    <3> QED
      BY <3>4, <3>5
  <2> QED
    BY <1>4, <2>1, <2>2, <2>3 DEF PowerLoss
<1>5. CASE App \/ Reboot
  BY <1>5 DEF App, Reboot
<1>6. CASE World
  BY <1>1, <1>6, OtaWorldType DEF World
<1>7. CASE UNCHANGED vars
  BY <1>1, <1>7 DEF vars
<1> QED
  BY <1>3, <1>4, <1>5, <1>6, <1>7 DEF Next

(***************************************************************************)
(* As long as at most one flash operation has gone wrong, no step of the   *)
(* bootloader, and no loss of power in it, damages the package in the      *)
(* download or the factory partition.                                      *)
(***************************************************************************)
THEOREM PackagesKept == Spec => BootKeepsPackages
<1>1. TypeInv /\ KeepInv /\ [Next]_vars
        => [bpc # "app" /\ faults' <= 1 =>
              \A p \in {"download", "factory"}, f \in Firmware : Holds(p, f) => Holds(p, f)']_vars
  <2> SUFFICES ASSUME TypeInv, KeepInv, [Next]_vars, bpc # "app", faults' <= 1,
                      NEW p \in {"download", "factory"}, NEW f \in Firmware, Holds(p, f)
               PROVE  Holds(p, f)'
    OBVIOUS
  <2> QED
    BY KeepsPackages DEF PackagePart
<1>2. Spec => []KeepInv
  BY TypeInvariant, KeepInit, KeepStep, PTL DEF Spec
<1> QED
  BY <1>1, <1>2, TypeInvariant, PTL DEF Spec, BootKeepsPackages
=============================================================================
