------------------------ MODULE UpgradeService_proofs ------------------------
(***************************************************************************)
(* The board implements UpgradeService: every step of bootloader, update   *)
(* thread, uploader and power maps to a step of the service or to none,    *)
(* for every set of packages, every geometry and any number of losses of   *)
(* power, on a board without factory key whose flash does not fail and     *)
(* whose packages leave room for the header (HeaderFits).  On that board   *)
(* every boot comes to an end in the application, and it hands over to     *)
(* nothing but the package in download, unless a read failed under it.     *)
(***************************************************************************)
EXTENDS UpgradeProgress, ReleaseOutcome_proofs

Sound == HeaderFits /\ ~FactoryKey /\ MaxFault = 0

LEMMA NoFaults ==
    ASSUME Sound, TypeInv
    PROVE  faults = 0
BY DEF Sound, TypeInv, TypeOK, PartTypeOK

\* Nothing is misread.
LEMMA Undisturbed ==
    ASSUME Sound, TypeInv
    PROVE  /\ ~ReadFails /\ ~CheckMisled /\ ~CopyMisled
           /\ \A l : ~SignUnread(l)
BY NoFaults DEF Sound, Fault, ReadFails, CheckMisled, CopyMisled, ReadsStale, SignUnread

LEMMA RawDiffer == \A f, g, i, j : Raw(f, i) = Raw(g, j) => f = g
BY DEF Raw
---------------------------------------------------------------------------
(***************************************************************************)
(* The mapping.                                                            *)
(***************************************************************************)

\* Cell 0 names the package whose code is in the app.
LEMMA OneImage ==
    /\ \A f, g \in Firmware : Runs("app", f) /\ Runs("app", g) => f = g
    /\ \A f, g \in Firmware : Runs("app", f)' /\ Runs("app", g)' => f = g
<1>1. ASSUME NEW f \in Firmware
      PROVE  0 \in 0 .. f.raw_size - 1
  <2>1. f.raw_size \in Nat /\ f.raw_size # 0
    BY FirmwareFields
  <2> QED
    BY <2>1
<1> QED
  BY <1>1, RawDiffer DEF Runs

LEMMA OneOffer ==
    /\ \A f, g \in Firmware : FwCheck("download", f) /\ FwCheck("download", g) => f = g
    /\ \A f, g \in Firmware : FwCheck("download", f)' /\ FwCheck("download", g)' => f = g
BY CellsDiffer DEF FwCheck, Holds

LEMMA ImageIs ==
    ASSUME NEW f \in Firmware
    PROVE  /\ Runs("app", f) => AppImage = f
           /\ Runs("app", f)' => AppImage' = f
BY OneImage DEF AppImage, TheOne

LEMMA ImageTorn ==
    /\ AppImage = Torn \/ (AppImage \in Firmware /\ Runs("app", AppImage))
    /\ ~Intact => AppImage = Torn
    /\ ~Intact' => AppImage' = Torn
    /\ Intact => AppImage \in Firmware
BY DEF AppImage, TheOne, Intact

LEMMA OfferIs ==
    ASSUME NEW f \in Firmware, Releasable(f)
    PROVE  /\ FwCheck("download", f) => OnOffer = f
           /\ FwCheck("download", f)' => OnOffer' = f
BY OneOffer DEF OnOffer, TheOne, Releasable, InPart

LEMMA OfferNone ==
    /\ (\A f \in Firmware : FwCheck("download", f) => ~Releasable(f)) => OnOffer = NoFw
    /\ (\A f \in Firmware : FwCheck("download", f)' => ~Releasable(f)) => OnOffer' = NoFw
BY DEF OnOffer, TheOne, Releasable, InPart

\* Cells of the app that become anything but code of h take away an image, and give none but h.
LEMMA ImageChange ==
    ASSUME NEW h,
           \A a \in Addr("app") : \/ part'["app"][a] = part["app"][a]
                                  \/ \A g, i : part'["app"][a] = Raw(g, i) => g = h
    PROVE  AppImage' \in {AppImage, Torn, h}
<1>1. ASSUME NEW g \in Firmware, Runs("app", g)', g # h
      PROVE  Runs("app", g)
  <2>1. g.raw_size \in Nat /\ PartLen["app"] \in Nat /\ g.raw_size <= PartLen["app"]
    BY <1>1, FirmwareFields, PartLens DEF Runs, InPart, PartName
  <2>2. \A i \in 0 .. g.raw_size - 1 : i \in Addr("app")
    BY <2>1 DEF Addr
  <2> QED
    BY <1>1, <2>2 DEF Runs
<1>2. CASE Intact'
  <2>1. PICK g \in Firmware : Runs("app", g)'
    BY <1>2 DEF Intact
  <2> QED
    BY <1>1, <2>1, ImageIs
<1>3. CASE ~Intact'
  BY <1>3, ImageTorn
<1> QED
  BY <1>2, <1>3

LEMMA ImageKept ==
    ASSUME \A a \in Addr("app") : part'["app"][a] = part["app"][a]
    PROVE  AppImage' = AppImage
<1>1. CASE Intact
  <2>1. PICK f \in Firmware : Runs("app", f)
    BY <1>1 DEF Intact
  <2>2. f.raw_size \in Nat /\ PartLen["app"] \in Nat /\ f.raw_size <= PartLen["app"]
    BY <2>1, FirmwareFields, PartLens DEF Runs, InPart, PartName
  <2>3. \A i \in 0 .. f.raw_size - 1 : i \in Addr("app")
    BY <2>2 DEF Addr
  <2>4. Runs("app", f)'
    BY <2>1, <2>3 DEF Runs
  <2> QED
    BY <2>1, <2>4, ImageIs
<1>2. CASE ~Intact
  <2>1. AppImage' \in {AppImage, Torn}
    BY ImageChange
  <2> QED
    BY <1>2, <2>1, ImageTorn
<1> QED
  BY <1>1, <1>2

\* The same packages in download are the same offer.
LEMMA OfferKept ==
    ASSUME \A f \in Firmware : FwCheck("download", f)' <=> FwCheck("download", f)
    PROVE  OnOffer' = OnOffer
<1>1. CASE \E f \in Firmware : FwCheck("download", f) /\ Releasable(f)
  BY <1>1, OfferIs
<1>2. CASE ~ \E f \in Firmware : FwCheck("download", f) /\ Releasable(f)
  BY <1>2, OfferNone
<1> QED
  BY <1>1, <1>2

\* Where the header is not replaced by another one, the offer can only go.
LEMMA OfferGoes ==
    ASSUME part'["download"][0] \in {part["download"][0], Erased, Junk, Zero}
    PROVE  OnOffer = NoFw \/ OnOffer' \in {OnOffer, NoFw}
<1>1. CASE \E f \in Firmware : FwCheck("download", f) /\ Releasable(f)
  <2>1. PICK f \in Firmware : FwCheck("download", f) /\ Releasable(f)
    BY <1>1
  <2>2. OnOffer = f /\ part["download"][0] = Hdr(f)
    BY <2>1, OfferIs DEF FwCheck, Holds
  <2>3. \A g \in Firmware : FwCheck("download", g)' => g = f
    BY <2>2, CellsDiffer DEF FwCheck, Holds
  <2> QED
    BY <2>1, <2>2, <2>3, OfferIs, OfferNone
<1>2. CASE ~ \E f \in Firmware : FwCheck("download", f) /\ Releasable(f)
  BY <1>2, OfferNone
<1> QED
  BY <1>1, <1>2

LEMMA OfferType == OnOffer \in Firmware \cup {NoFw} /\ OnOffer' \in Firmware \cup {NoFw}
BY DEF OnOffer, TheOne
---------------------------------------------------------------------------
(***************************************************************************)
(* Without failures and without the factory key nothing but a release ever *)
(* touches the app partition.                                              *)
(***************************************************************************)
ReleaseOnly ==
    /\ stage = "release"
    /\ writer \in {"none", "release"}
    /\ writer = "none" => Intact /\ bpc \notin Releasing

LEMMA BootSparesApp ==
    ASSUME TypeInv, BootNext, bpc \notin Releasing
    PROVE  part'["app"] = part["app"]
<1> USE DEF TypeInv, TypeOK
<1>1. CASE Start \/ CheckPasses \/ CheckMisled \/ CheckFails \/ StartRelease \/ Jump
  BY <1>1 DEF Start, CheckPasses, CheckMisled, CheckFails, StartRelease, Jump, ReadFails
<1>2. CASE WriteSign
  <2>1. Source \in PartName /\ Source # "app" /\ "app" \in PartName /\ fw_info \in Firmware
    BY <1>2 DEF Source, PartName, WriteSign, BootTypeOK
  <2>2. CASE InPart(Source, SignCell(fw_info), 1)
             /\ \E ok \in BOOLEAN : Write(Source, SignCell(fw_info), Zero, ok)
    <3>1. SignCell(fw_info) \in Addr(Source)
      BY <2>1, <2>2, FirmwareFields, PartLens DEF InPart, Addr
    <3> QED
      BY <2>1, <2>2, <3>1, WriteProps, CellTypes
  <2> QED
    BY <1>2, <2>2 DEF WriteSign
<1>3. ~(EraseApp \/ EraseTail \/ CopyCell \/ CopyMisled \/ WriteInfo \/ VerifyPasses \/ VerifyFails)
  BY DEF EraseApp, EraseTail, CopyCell, CopyMisled, WriteInfo, VerifyPasses, VerifyFails, Releasing
<1> QED
  BY <1>1, <1>2, <1>3 DEF BootNext

\* A loss of power outside the release leaves the app alone.
LEMMA PowerSparesApp ==
    ASSUME TypeInv, PowerLoss, bpc \notin Releasing
    PROVE  \A a \in Addr("app") : part'["app"][a] = part["app"][a]
<1>0. PartTypeOK /\ "app" \in PartName
  BY DEF TypeInv, TypeOK, PartName
<1>1. CASE UNCHANGED part
  BY <1>1
<1>2. CASE Spoil(InFlight[1], InFlight[2]) /\ bpc \in {"app", "sign"}
  <2>1. InFlight[1] \in PartName /\ InFlight[1] # "app"
    BY <1>2 DEF InFlight, BootInFlight, OtaInFlight, Source, Dest, PartName
  <2> QED
    BY <1>0, <1>2, <2>1, SpoilProps
<1>3. CASE Spoil(InFlight[1], InFlight[2]) /\ bpc \notin {"app", "sign"}
  <2>1. InFlight = <<"app", {}>>
    BY <1>3 DEF InFlight, BootInFlight, Releasing
  <2> QED
    BY <1>0, <1>3, <2>1, SpoilProps
<1> QED
  BY <1>1, <1>2, <1>3 DEF PowerLoss

\* Before the jump the app is whole.
LEMMA JumpsIntoWhole ==
    ASSUME Sound, TypeInv, TornInv, ReleaseOnly, Jump
    PROVE  Intact /\ Goto("app")
<1>1. Intact
  BY NoFaults DEF ReleaseOnly, TornInv, OutcomeInv, Jump
<1>2. PICK f \in Firmware : Runs("app", f)
  BY <1>1 DEF Intact
<1>3. f.raw_size \in Nat /\ f.raw_size # 0
  BY FirmwareFields
<1>4. 0 \in 0 .. f.raw_size - 1
  BY <1>3
<1>5. part["app"][0] = Raw(f, 0)
  BY <1>2, <1>4 DEF Runs
<1>6. ~MayStay
  BY <1>5 DEF MayStay, Raw
<1> QED
  BY <1>1, <1>6 DEF Jump

LEMMA ReleaseOnlyInit == Init => ReleaseOnly /\ Intact
<1> SUFFICES ASSUME Init PROVE ReleaseOnly /\ Intact
  OBVIOUS
<1>1. PICK f \in Firmware : /\ Releasable(f)
                            /\ part["app"] = Fresh("app", Image(f))
  BY DEF Init, PartName
<1>2. f.raw_size \in Nat /\ f.raw_size # 0 /\ PartLen["app"] \in Nat /\ f.raw_size <= PartLen["app"]
  BY <1>1, FirmwareFields, PartLens DEF Releasable, InPart, PartName
<1>3. ASSUME NEW i \in 0 .. f.raw_size - 1
      PROVE  part["app"][i] = Raw(f, i)
  <2>1. i \in Addr("app")
    BY <1>2 DEF Addr
  <2> QED
    BY <1>1, <2>1 DEF Fresh, Image
<1>4. Intact
  BY <1>1, <1>3 DEF Intact, Runs, Releasable
<1> QED
  BY <1>4 DEF Init, BootInit, ReleaseOnly, Releasing

LEMMA ReleaseOnlyStep ==
    ASSUME Sound, TypeInv, TornInv, ReleaseOnly, [Next]_vars
    PROVE  ReleaseOnly'
<1>0. faults = 0 /\ stage = "release"
  BY NoFaults DEF ReleaseOnly
<1>1. CASE Boot
  <2>1. BootNext
    BY <1>1 DEF Boot
  <2>2. StageFails => bpc' = "jump" /\ stage' = "release"
    BY <1>0 DEF StageFails
  <2>3. stage' = "release"
    <3>1. Jump => stage' = "release"
      BY <1>0, JumpsIntoWhole DEF Goto
    <3>2. Start => stage' = "release"
      BY DEF Start, Sound
    <3> QED
      BY <1>0, <2>1, <2>2, <3>1, <3>2, Undisturbed
         DEF BootNext, CheckPasses, Accepted, CheckFails, StartRelease, EraseApp, EraseTail,
             CopyCell, WriteInfo, VerifyPasses, VerifyFails, WriteSign, Goto
  <2>4. writer' \in {"none", "release"}
    BY <1>0, <2>1, Undisturbed
       DEF ReleaseOnly, BootNext, Start, CheckPasses, Accepted, CheckFails, StartRelease,
           EraseApp, EraseTail, CopyCell, WriteInfo, VerifyPasses, VerifyFails, WriteSign, Jump
  <2>5. ASSUME writer' = "none"
        PROVE  Intact' /\ bpc' \notin Releasing
    <3>1. writer = "none" /\ ~(StartRelease /\ bpc' = "erase")
      BY <1>0, <2>1, <2>2, <2>5, Undisturbed
         DEF ReleaseOnly, BootNext, Start, CheckPasses, Accepted, CheckFails, StartRelease,
             EraseApp, EraseTail, CopyCell, WriteInfo, VerifyPasses, VerifyFails, WriteSign,
             Jump
    <3>2. Intact /\ bpc \notin Releasing
      BY <3>1 DEF ReleaseOnly
    <3>3. Intact'
      BY <2>1, <3>2, BootSparesApp, IntactKept
    <3>4. bpc' \notin Releasing
      BY <1>0, <2>1, <2>2, <3>1, <3>2, Undisturbed
         DEF Releasing, BootNext, Start, CheckPasses, Accepted, CheckFails, StartRelease,
             EraseApp, EraseTail, CopyCell, WriteInfo, VerifyPasses, VerifyFails, WriteSign,
             Jump, Goto, GoOn
    <3> QED
      BY <3>3, <3>4
  <2> QED
    BY <2>3, <2>4, <2>5 DEF ReleaseOnly
<1>2. CASE App
  BY <1>2, OtaSparesApp, IntactKept DEF App, bootVars, ReleaseOnly
<1>3. CASE Reboot
  BY <1>3 DEF Reboot, BootReset, ReleaseOnly, Intact, Runs, Releasing
<1>4. CASE PowerLoss
  <2>1. stage' = "release" /\ bpc' = "reset" /\ writer' = writer
    BY <1>4 DEF PowerLoss, BootReset
  <2> QED
    BY <1>4, <2>1, PowerSparesApp, IntactKept DEF ReleaseOnly, Releasing
<1>5. CASE World \/ UNCHANGED vars
  <2>1. UNCHANGED <<part, bootVars>>
    BY <1>5, OtaWorldType DEF World, vars, TypeInv, TypeOK
  <2> QED
    BY <2>1 DEF bootVars, ReleaseOnly, Intact, Runs
<1> QED
  BY <1>1, <1>2, <1>3, <1>4, <1>5 DEF Next

LEMMA ReleaseOnlyInvariant ==
    ASSUME Sound
    PROVE  Spec => []ReleaseOnly
<1>1. Init => ReleaseOnly
  BY ReleaseOnlyInit
<1>2. TypeInv /\ TornInv /\ ReleaseOnly /\ [Next]_vars => ReleaseOnly'
  BY ReleaseOnlyStep
<1>3. Spec => [](TypeInv /\ TornInv)
  BY TypeInvariant, TornInvariant, PTL DEF Sound
<1> QED
  BY <1>1, <1>2, <1>3, PTL DEF Spec
---------------------------------------------------------------------------
(***************************************************************************)
(* Every step is one of the service's or a stutter.                        *)
(***************************************************************************)
ServiceStep == Service!Next \/ UNCHANGED Service!vars

LEMMA TornIsNone == Torn \notin Firmware
BY TornAssumption DEF TornAssumption

\* The bootloader without a jump: the image is torn or replaced by the offer.
LEMMA Stopped ==
    ASSUME bpc # "app", bpc' # "app", OnOffer' = OnOffer,
           AppImage' \in {AppImage, Torn, OnOffer},
           AppImage' # AppImage => OnOffer # NoFw
    PROVE  ServiceStep
BY DEF ServiceStep, Service!Next, Service!Tear, Service!Install, Service!vars

\* What is released is what is on offer.
LEMMA ReleasesOffer ==
    ASSUME Sound, TypeInv, TornInv, ReleaseOnly, bpc \in Releasing
    PROVE  fw_info \in Firmware /\ OnOffer = fw_info /\ OnOffer # NoFw
<1>1. fw_info \in Firmware /\ Releasable(fw_info) /\ FwCheck("download", fw_info)
  BY NoFaults DEF TypeInv, TypeOK, BootTypeOK, BootBounds, Releasing, TornInv, ReadyInv, ReleaseOnly
<1> QED
  BY <1>1, OfferIs, QbootAssumption DEF QbootAssumption

\* The bootloader and a loss of power in it leave the offer as it is.
LEMMA BootKeepsOffer ==
    ASSUME Sound, TypeInv, KeepInv, ReleaseOnly, [Next]_vars, bpc # "app",
           UNCHANGED faults,
           bpc # "sign" => \A a \in Addr("download") : part'["download"][a] = part["download"][a],
           bpc = "sign" =>
             \A a \in Addr("download") :
               a # SignCell(fw_info) => part'["download"][a] = part["download"][a]
    PROVE  OnOffer' = OnOffer
<1>0. faults = 0 /\ faults' <= 1 /\ faults <= 1 /\ "download" \in PackagePart
  BY NoFaults DEF PackagePart
<1>1. ASSUME NEW f \in Firmware, Holds("download", f)
      PROVE  Holds("download", f)'
  BY <1>0, <1>1, KeepsPackages
<1>2. CASE bpc # "sign"
  BY <1>2, PackageKept, OfferKept
<1>3. CASE bpc = "sign"
  <2>1. Holds("download", fw_info) /\ fw_info \in Firmware
    BY <1>0, <1>3 DEF KeepInv, ReleaseOnly, Source, TypeInv, TypeOK, BootTypeOK
  <2>2. SignCell(fw_info) # 0 /\ 0 \in Addr("download")
    <3>1. fw_info.pkg_size \in Nat /\ SignCell(fw_info) = fw_info.pkg_size + 1
          /\ PartLen["download"] \in Nat /\ PartLen["download"] # 0
      BY <2>1, FirmwareFields, PartLens DEF PartName
    <3> QED
      BY <3>1 DEF Addr
  <2>3. part'["download"][0] = Hdr(fw_info)
    BY <1>3, <2>1, <2>2 DEF Holds
  <2>4. \A f \in Firmware : Holds("download", f)' => f = fw_info
    BY <2>3, CellsDiffer DEF Holds
  <2>5. \A f \in Firmware : Holds("download", f)' <=> Holds("download", f)
    BY <1>1, <2>1, <2>4
  <2> QED
    BY <2>5, OfferKept DEF FwCheck
<1> QED
  BY <1>2, <1>3

LEMMA BootImplements ==
    ASSUME Sound, TypeInv, KeepInv, TornInv, ReleaseOnly, [Next]_vars, Boot,
           PartTypeOK', faults' = 0
    PROVE  ServiceStep
<1> USE DEF TypeInv, TypeOK
<1>0. /\ BootNext /\ bpc # "app" /\ faults = 0 /\ stage = "release"
      /\ "app" \in PartName /\ "download" \in PartName
  BY NoFaults DEF Boot, ReleaseOnly, PartName
<1>1. OnOffer' = OnOffer
  <2>1. ASSUME bpc = "sign"
        PROVE  \A a \in Addr("download") :
                 a # SignCell(fw_info) => part'["download"][a] = part["download"][a]
    <3>1. WriteSign
      BY <1>0, <2>1, Undisturbed
         DEF BootNext, Start, CheckPasses, Accepted, CheckFails, StartRelease, EraseApp,
             EraseTail, CopyCell, WriteInfo, VerifyPasses, VerifyFails, Jump
    <3>2. Source = "download" /\ fw_info \in Firmware
      BY <1>0, <2>1 DEF Source, BootTypeOK
    <3>3. CASE InPart(Source, SignCell(fw_info), 1)
               /\ \E ok \in BOOLEAN : Write(Source, SignCell(fw_info), Zero, ok)
      <4>1. SignCell(fw_info) \in Addr("download")
        BY <1>0, <3>2, <3>3, FirmwareFields, PartLens DEF InPart, Addr
      <4> QED
        BY <1>0, <3>2, <3>3, <4>1, WriteProps, CellTypes
    <3> QED
      BY <3>1, <3>3 DEF WriteSign
  <2> QED
    BY <1>0, <2>1, BootSparesDownload, BootKeepsOffer
<1>2. CASE Jump
  <2>1. Intact /\ bpc' = "app" /\ part' = part
    BY <1>2, JumpsIntoWhole DEF Goto, Jump
  <2>2. AppImage # Torn /\ AppImage' = AppImage
    BY <2>1, ImageTorn, TornIsNone, ImageKept
  <2> QED
    BY <1>0, <1>1, <2>1, <2>2 DEF ServiceStep, Service!Next, Service!Run
<1>3. CASE ~Jump
  <2>1. bpc' # "app"
    BY <1>0, <1>3, RoutingType, Undisturbed
       DEF BootNext, Start, CheckPasses, Accepted, CheckFails, StartRelease, EraseApp,
           EraseTail, CopyCell, WriteInfo, VerifyPasses, VerifyFails, WriteSign, Goto
  <2>2. CASE bpc \notin Releasing
    <3>1. AppImage' = AppImage
      BY <1>0, <2>2, BootSparesApp, ImageKept
    <3> QED
      BY <1>0, <1>1, <2>1, <3>1, Stopped
  <2>3. CASE bpc \in Releasing
    <3>1. fw_info \in Firmware /\ OnOffer = fw_info /\ OnOffer # NoFw
      BY <2>3, ReleasesOffer
    <3>2. ASSUME NEW a \in Addr("app")
          PROVE  \/ part'["app"][a] = part["app"][a]
                 \/ \A g, i : part'["app"][a] = Raw(g, i) => g = fw_info
      <4>1. CASE EraseApp \/ EraseTail
        <5>1. part'["app"][a] \in {part["app"][a], Erased, Junk}
          BY <1>0, <4>1, EraseProps DEF EraseApp, EraseTail
        <5> QED
          BY <5>1, CellsDiffer
      <4>2. CASE CopyCell
        <5>1. at \in Nat /\ at < fw_info.raw_size /\ Releasable(fw_info) /\ ~ReadFails
          BY <1>0, <4>2, FaultProps, PartLens
             DEF CopyCell, BootBounds, BootTypeOK, ReadFails, PartTypeOK
        <5>2. fw_info.raw_size \in Nat /\ PartLen["app"] \in Nat /\ fw_info.raw_size <= PartLen["app"]
          BY <1>0, <3>1, <5>1, FirmwareFields, LastSectorBound, PartLens
        <5>3. PICK c \in Cell : c = Unpacked(Source, fw_info, at) /\ c \in {Raw(fw_info, at), Junk}
          BY <3>1, <5>1, <5>2, CellTypes DEF Unpacked
        <5>4. at \in Addr("app")
          BY <5>1, <5>2 DEF Addr
        <5>5. part'["app"][a] \in {part["app"][a], Raw(fw_info, at), Junk}
          BY <1>0, <4>2, <5>1, <5>3, <5>4, WriteProps DEF CopyCell
        <5> QED
          BY <5>5, CellsDiffer, RawDiffer
      <4>3. CASE WriteInfo
        <5>1. Hdr(fw_info) \in Cell /\ TailCell("app") \in Addr("app")
          BY <1>0, <3>1, CellTypes, PartLens
        <5>2. part'["app"][a] \in {part["app"][a], Hdr(fw_info), Junk}
          BY <1>0, <4>3, <5>1, WriteProps DEF WriteInfo
        <5> QED
          BY <5>2, CellsDiffer
      <4>4. CASE ~(EraseApp \/ EraseTail \/ CopyCell \/ WriteInfo)
        BY <1>0, <2>3, <4>4, Undisturbed
           DEF BootNext, Start, CheckPasses, Accepted, CheckFails, StartRelease,
               VerifyPasses, VerifyFails, WriteSign, Jump, Releasing, ReadFails
      <4> QED
        BY <4>1, <4>2, <4>3, <4>4
    <3>3. AppImage' \in {AppImage, Torn, fw_info}
      BY <3>2, ImageChange
    <3> QED
      BY <1>0, <1>1, <2>1, <3>1, <3>3, Stopped
  <2> QED
    BY <2>2, <2>3
<1> QED
  BY <1>2, <1>3

LEMMA AppImplements ==
    ASSUME Sound, TypeInv, App, faults = 0, faults' = 0
    PROVE  ServiceStep
<1>0. OtaThread /\ bpc = "app" /\ bpc' = "app" /\ PartTypeOK /\ "download" \in PartName
      /\ 0 \in Addr("download")
  BY PartLens DEF App, bootVars, TypeInv, TypeOK, PartName, Addr
<1>1. AppImage' = AppImage
  BY <1>0, OtaSparesApp, ImageKept
<1>2. CASE part'["download"][0] \in {part["download"][0], Erased, Junk, Zero}
  <2>1. OnOffer = NoFw \/ OnOffer' \in {OnOffer, NoFw}
    BY <1>2, OfferGoes
  <2> QED
    BY <1>0, <1>1, <2>1, OfferType
       DEF ServiceStep, Service!Next, Service!Withdraw, Service!Offer, Service!vars
<1>3. CASE ~(part'["download"][0] \in {part["download"][0], Erased, Junk, Zero})
  <2>0. Dest \in PartName
    BY DestPart
  <2>1. Data
    BY <1>0, <1>3, <2>0, EraseProps DEF OtaThread, Poll, OpenFile, Begin, EraseDest, End
  <2>2. fd_ok /\ cur < Len(file[mode]) /\ InPart(Dest, cur, 1) /\ StoreCell(file[mode][cur + 1])
    <3>1. ~ReadError
      BY <1>0, <1>3, OverrunProps DEF ReadError, Dest
    <3> QED
      BY <1>3, <2>1, <3>1 DEF Data
  <2>3. file[mode] \in Seq(Cell) /\ cur \in Nat
    BY <2>2 DEF TypeInv, TypeOK, OtaTypeOK
  <2>4. file[mode][cur + 1] \in Cell
    BY <2>2, <2>3, ElementOfSeq, LenProperties
  <2>5. cur \in Addr(Dest)
    BY <2>2, <2>3, DestPart, PartLens DEF InPart, Addr
  <2>6. PICK ok \in BOOLEAN : Write(Dest, cur, file[mode][cur + 1], ok)
    BY <1>0, <2>2, StoredClean
  <2>7. cur = 0 /\ Dest = "download"
        /\ part'["download"][0] = Programmed(part["download"][0], file[mode][cur + 1])
    BY <1>0, <1>3, <2>0, <2>4, <2>5, <2>6, WriteProps
  <2>8. part["download"][0] = Erased
    BY <1>3, <2>7 DEF Programmed
  <2>9. \A f \in Firmware : ~FwCheck("download", f)
    BY <2>8, CellsDiffer DEF FwCheck, Holds
  <2>10. OnOffer = NoFw
    BY <2>9, OfferNone
  <2> QED
    BY <1>0, <1>1, <2>10, OfferType
       DEF ServiceStep, Service!Next, Service!Offer, Service!vars
<1> QED
  BY <1>2, <1>3

\* A reset or a loss of power while the application runs.
LEMMA StopImplements ==
    ASSUME Sound, TypeInv, bpc = "app", Reboot \/ PowerLoss
    PROVE  ServiceStep
<1>0. /\ bpc' = "reset" /\ PartTypeOK /\ "download" \in PartName /\ Dest \in PartName
      /\ 0 \in Addr("download")
  BY DestPart, PartLens DEF Reboot, PowerLoss, BootReset, TypeInv, TypeOK, PartName, Addr
<1>1. AppImage' = AppImage
  BY PowerSparesApp, ImageKept DEF Reboot, Releasing
<1>2. \A a \in Addr("download") : part'["download"][a] \in {part["download"][a], Junk}
  <2>1. CASE UNCHANGED part
    BY <2>1
  <2>2. CASE Spoil(InFlight[1], InFlight[2])
    <3>1. InFlight[1] = Dest
      BY DEF InFlight, OtaInFlight
    <3> QED
      BY <1>0, <2>2, <3>1, SpoilProps
  <2> QED
    BY <2>1, <2>2 DEF Reboot, PowerLoss
<1>3. ASSUME NEW f \in Firmware, FwCheck("download", f)'
      PROVE  FwCheck("download", f)
  <2>1. f.pkg_size \in Nat /\ PartLen["download"] \in Nat
    BY FirmwareFields, PartLens DEF PartName
  <2>2. f.pkg_size + 1 <= PartLen["download"]
    BY <1>3, <2>1 DEF FwCheck, Holds, InPart
  <2>3. \A i \in 1 .. f.pkg_size : i \in Addr("download")
    BY <2>1, <2>2 DEF Addr
  <2> QED
    BY <1>0, <1>2, <1>3, <2>3, CellsDiffer DEF FwCheck, Holds
<1>4. OnOffer' \in {OnOffer, NoFw}
  <2>1. CASE \E f \in Firmware : FwCheck("download", f)' /\ Releasable(f)
    BY <1>3, <2>1, OfferIs
  <2>2. CASE ~ \E f \in Firmware : FwCheck("download", f)' /\ Releasable(f)
    BY <2>2, OfferNone
  <2> QED
    BY <2>1, <2>2
<1> QED
  BY <1>0, <1>1, <1>4 DEF ServiceStep, Service!Next, Service!Stop

\* A loss of power in the bootloader.
LEMMA CutImplements ==
    ASSUME Sound, TypeInv, KeepInv, TornInv, ReleaseOnly, PowerLoss, bpc # "app"
    PROVE  ServiceStep
<1>0. /\ bpc' = "reset" /\ PartTypeOK /\ "download" \in PartName /\ "app" \in PartName
      /\ UNCHANGED faults /\ [Next]_vars
      /\ UNCHANGED part \/ Spoil(InFlight[1], InFlight[2])
  BY DEF PowerLoss, BootReset, TypeInv, TypeOK, PartName, Next
<1>1. /\ bpc # "sign" => \A a \in Addr("download") : part'["download"][a] = part["download"][a]
      /\ bpc = "sign" =>
           \A a \in Addr("download") :
             a # SignCell(fw_info) => part'["download"][a] = part["download"][a]
  <2>1. CASE UNCHANGED part
    BY <2>1
  <2>2. CASE Spoil(InFlight[1], InFlight[2]) /\ bpc # "sign"
    <3>1. InFlight[1] = "app"
      BY <2>2 DEF InFlight, BootInFlight
    <3> QED
      BY <1>0, <2>2, <3>1, SpoilProps
  <2>3. CASE Spoil(InFlight[1], InFlight[2]) /\ bpc = "sign"
    <3>1. InFlight = <<"download", {SignCell(fw_info)}>>
      BY <2>3 DEF InFlight, BootInFlight, Source, ReleaseOnly
    <3> QED
      BY <1>0, <2>3, <3>1, SpoilProps
  <2> QED
    BY <1>0, <2>1, <2>2, <2>3
<1>2. OnOffer' = OnOffer
  BY <1>0, <1>1, BootKeepsOffer
<1>3. CASE bpc \notin Releasing
  <2>1. AppImage' = AppImage
    BY <1>3, PowerSparesApp, ImageKept
  <2> QED
    BY <1>0, <1>2, <2>1, Stopped
<1>4. CASE bpc \in Releasing
  <2>1. \A a \in Addr("app") : part'["app"][a] \in {part["app"][a], Junk}
    <3>1. InFlight[1] = "app"
      BY <1>4 DEF InFlight, BootInFlight, Releasing
    <3> QED
      BY <1>0, <3>1, SpoilProps
  <2>2. AppImage' \in {AppImage, Torn}
    BY <2>1, ImageChange, CellsDiffer
  <2>3. OnOffer # NoFw
    BY <1>4, ReleasesOffer
  <2> QED
    BY <1>0, <1>2, <2>2, <2>3, Stopped
<1> QED
  BY <1>3, <1>4

LEMMA StepImplements ==
    ASSUME Sound, TypeInv, KeepInv, TornInv, ReleaseOnly, [Next]_vars, TypeInv'
    PROVE  ServiceStep
<1>0. faults = 0 /\ faults' = 0 /\ PartTypeOK'
  BY NoFaults DEF Sound, TypeInv, TypeOK, PartTypeOK
<1>1. CASE Boot
  BY <1>0, <1>1, BootImplements
<1>2. CASE App
  BY <1>0, <1>2, AppImplements
<1>3. CASE Reboot
  BY <1>3, StopImplements DEF Reboot
<1>4. CASE PowerLoss
  BY <1>4, StopImplements, CutImplements
<1>5. CASE World \/ UNCHANGED vars
  <2>1. UNCHANGED <<part, bpc>>
    BY <1>5, OtaWorldType DEF World, vars, bootVars, TypeInv, TypeOK
  <2>2. AppImage' = AppImage /\ OnOffer' = OnOffer
    BY <2>1, ImageKept, OfferKept DEF FwCheck, Holds
  <2> QED
    BY <2>1, <2>2 DEF ServiceStep, Service!vars
<1> QED
  BY <1>1, <1>2, <1>3, <1>4, <1>5 DEF Next

LEMMA InitImplements == Init => Service!Init
BY ReleaseOnlyInit, ImageTorn, OfferType DEF Init, BootInit, Service!Init

(***************************************************************************)
(* With flash that does not fail, no factory key and room for the header,  *)
(* bootloader, update thread and flash are the abstract service: they give *)
(* up an image for the package on offer only, and never run a torn one.    *)
(***************************************************************************)
THEOREM BoardImplementsService ==
    ASSUME Sound
    PROVE  Spec => ImplementsService
<1>1. /\ TypeInv /\ TypeInv' /\ KeepInv /\ TornInv /\ ReleaseOnly /\ [Next]_vars
        => [Service!Next]_(Service!vars)
  BY StepImplements DEF ServiceStep
<1>2. Spec => [](TypeInv /\ TornInv)
  BY TypeInvariant, TornInvariant, PTL DEF Sound
<1>3. Spec => []KeepInv
  BY TypeInvariant, KeepInit, KeepStep, PTL DEF Spec
<1> QED
  BY <1>1, <1>2, <1>3, ReleaseOnlyInvariant, InitImplements, PTL DEF Spec, ImplementsService, Service!Spec
---------------------------------------------------------------------------
(***************************************************************************)
(* BootComesToAnEnd.  Without failures a release stage that gives up goes  *)
(* to the jump, and the jump finds a whole application: nothing leads back *)
(* to a check.                                                             *)
(***************************************************************************)
LEMMA EachStepLeads ==
    ASSUME Sound, TypeInv, TornInv, ReleaseOnly, Boot
    PROVE  StepsLeft' < StepsLeft
<1> DEFINE room == PartLen["app"]
<1>0. /\ BootNext /\ stage = "release" /\ room \in Nat \ {0}
      /\ StageFails => bpc' = "jump"
  BY PartLens DEF Boot, ReleaseOnly, PartName, StageFails
<1>1. CASE bpc = "reset"
  <2>1. bpc' = "check"
    BY <1>0, <1>1, Undisturbed
       DEF BootNext, Start, CheckPasses, Accepted, CheckFails, StartRelease, EraseApp,
           EraseTail, CopyCell, WriteInfo, VerifyPasses, VerifyFails, WriteSign, Jump
  <2> QED
    BY <1>0, <1>1, <2>1 DEF StepsLeft
<1>2. CASE bpc = "check"
  <2>1. bpc' \in {"start", "jump"}
    BY <1>0, <1>2, Undisturbed
       DEF BootNext, Start, CheckPasses, Accepted, CheckFails, StartRelease, EraseApp,
           EraseTail, CopyCell, WriteInfo, VerifyPasses, VerifyFails, WriteSign, Jump, Goto
  <2> QED
    BY <1>0, <1>2, <2>1 DEF StepsLeft
<1>3. CASE bpc = "start"
  <2>1. StartRelease /\ fw_info \in Firmware /\ fw_info' = fw_info
    BY <1>0, <1>3, Undisturbed
       DEF BootNext, Start, CheckPasses, Accepted, CheckFails, StartRelease, EraseApp,
           EraseTail, CopyCell, WriteInfo, VerifyPasses, VerifyFails, WriteSign, Jump, TypeInv,
           TypeOK, BootTypeOK
  <2>2. CASE Releasable(fw_info)
    <3>1. bpc' = "erase" /\ at' = 0
      BY <2>1, <2>2 DEF StartRelease, Goto
    <3>2. /\ LastSector(0, fw_info.raw_size) \in Nat /\ fw_info.raw_size \in Nat
          /\ LastSector(0, fw_info.raw_size) < fw_info.raw_size /\ fw_info.raw_size <= room
      BY <2>1, <2>2, LastSectorBound, FirmwareFields
    <3>3. StepsLeft = 6 + 2 * room
      BY <1>3 DEF StepsLeft
    <3>4. StepsLeft' = 6 + LastSector(0, fw_info.raw_size) - 0 + fw_info.raw_size
      BY <2>1, <3>1 DEF StepsLeft, LastSector, SectorOf
    <3> QED
      BY <1>0, <3>2, <3>3, <3>4
  <2>3. CASE ~Releasable(fw_info)
    BY <1>0, <1>3, <2>1, <2>3 DEF StartRelease, StepsLeft
  <2> QED
    BY <2>2, <2>3
<1>4. CASE bpc \in {"erase", "erase_tail", "copy"}
  <2>1. fw_info \in Firmware /\ Releasable(fw_info) /\ at \in Nat
    BY <1>0, <1>4 DEF TypeInv, TypeOK, BootTypeOK, BootBounds
  <2>2. /\ LastSector(0, fw_info.raw_size) \in Nat /\ fw_info.raw_size \in Nat \ {0}
        /\ LastSector(0, fw_info.raw_size) < fw_info.raw_size
    BY <2>1, LastSectorBound, FirmwareFields
  <2>3. CASE bpc = "erase"
    <3>1. EraseApp /\ fw_info' = fw_info /\ at <= LastSector(0, fw_info.raw_size)
      BY <1>0, <2>3, Undisturbed
         DEF BootNext, Start, CheckPasses, Accepted, CheckFails, StartRelease, EraseApp,
             EraseTail, CopyCell, WriteInfo, VerifyPasses, VerifyFails, WriteSign, Jump,
             TypeInv, BootBounds
    <3>2. \/ bpc' = "jump"
          \/ bpc' = "erase_tail"
          \/ bpc' = "erase" /\ at' = at + 1
      BY <1>0, <3>1 DEF EraseApp, Goto
    <3>3. StepsLeft = 6 + LastSector(0, fw_info.raw_size) - at + fw_info.raw_size
      BY <2>3 DEF StepsLeft
    <3>4. bpc' = "erase" =>
            StepsLeft' = 6 + LastSector(0, fw_info.raw_size) - at' + fw_info.raw_size
      BY <3>1 DEF StepsLeft, LastSector, SectorOf
    <3>5. /\ bpc' = "jump" => StepsLeft' = 1
          /\ bpc' = "erase_tail" => StepsLeft' = 5 + fw_info.raw_size
      BY <3>1 DEF StepsLeft
    <3> QED
      BY <2>1, <2>2, <3>1, <3>2, <3>3, <3>4, <3>5
  <2>4. CASE bpc = "erase_tail"
    <3>1. EraseTail /\ fw_info' = fw_info /\ at' = at
      BY <1>0, <2>4, Undisturbed
         DEF BootNext, Start, CheckPasses, Accepted, CheckFails, StartRelease, EraseApp,
             EraseTail, CopyCell, WriteInfo, VerifyPasses, VerifyFails, WriteSign, Jump
    <3>2. bpc' \in {"jump", "copy"}
      BY <1>0, <3>1 DEF EraseTail, Goto
    <3> QED
      BY <2>1, <2>2, <2>4, <3>1, <3>2 DEF StepsLeft
  <2>5. CASE bpc = "copy"
    <3>1. CopyCell /\ fw_info' = fw_info /\ at < fw_info.raw_size
      BY <1>0, <2>5, Undisturbed
         DEF BootNext, Start, CheckPasses, Accepted, CheckFails, StartRelease, EraseApp,
             EraseTail, CopyCell, WriteInfo, VerifyPasses, VerifyFails, WriteSign, Jump,
             TypeInv, BootBounds
    <3>2. bpc' = "jump" \/ (bpc' \in {"copy", "info"} /\ at' = at + 1)
      BY <1>0, <3>1 DEF CopyCell, Goto
    <3> QED
      BY <2>1, <2>2, <2>5, <3>1, <3>2 DEF StepsLeft
  <2> QED
    BY <1>4, <2>3, <2>4, <2>5
<1>5. CASE bpc \in {"info", "verify", "sign"}
  <2>1. /\ bpc = "info" => bpc' \in {"verify", "jump"}
        /\ bpc = "verify" => bpc' \in {"sign", "jump"}
        /\ bpc = "sign" => bpc' = "jump"
    BY <1>0, <1>5, Undisturbed
       DEF BootNext, Start, CheckPasses, Accepted, CheckFails, StartRelease, EraseApp,
           EraseTail, CopyCell, WriteInfo, VerifyPasses, VerifyFails, WriteSign, Jump, Goto
  <2> QED
    BY <1>5, <2>1 DEF StepsLeft
<1>6. CASE bpc = "jump"
  <2>1. Jump
    BY <1>0, <1>6, Undisturbed
       DEF BootNext, Start, CheckPasses, Accepted, CheckFails, StartRelease, EraseApp,
           EraseTail, CopyCell, WriteInfo, VerifyPasses, VerifyFails, WriteSign
  <2> QED
    BY <1>6, <2>1, JumpsIntoWhole DEF Goto, StepsLeft
<1> QED
  BY <1>1, <1>2, <1>3, <1>4, <1>5, <1>6 DEF Boot, TypeInv, TypeOK, BootTypeOK, BootPc

(***************************************************************************)
(* With flash that does not fail, no factory key and room for the header,  *)
(* each step of a boot brings it nearer to the application: it takes at    *)
(* most 8 + 2 * PartLen["app"] of them, whatever the packages are.         *)
(***************************************************************************)
THEOREM BootEnds ==
    ASSUME Sound
    PROVE  Spec => BootComesToAnEnd
<1>1. TypeInv /\ TornInv /\ ReleaseOnly /\ [Next]_vars
        => [Boot => StepsLeft' < StepsLeft]_vars
  BY EachStepLeads
<1>2. Spec => [](TypeInv /\ TornInv)
  BY TypeInvariant, TornInvariant, PTL DEF Sound
<1> QED
  BY <1>1, <1>2, ReleaseOnlyInvariant, PTL DEF Spec, BootComesToAnEnd
---------------------------------------------------------------------------
(***************************************************************************)
(* RunsWhatIsStored.  Between the release of a package and the next one    *)
(* the app partition holds it, or it has been given up for a package that  *)
(* is still unsigned; and at the jump there is nothing unsigned left.      *)
(***************************************************************************)
LastIsWhole ==
    released # NoFw =>
      \/ Runs("app", released)
      \/ bpc \notin {"sign", "jump", "app"} /\ \E f \in Firmware : Recoverable(f)

HandOverInv == (bpc = "jump" => Quiet) /\ LastIsWhole

LEMMA RunsKept ==
    ASSUME NEW f \in Firmware, Runs("app", f),
           \A a \in Addr("app") : part'["app"][a] = part["app"][a]
    PROVE  Runs("app", f)'
<1>1. f.raw_size \in Nat /\ PartLen["app"] \in Nat /\ f.raw_size <= PartLen["app"]
  BY FirmwareFields, PartLens DEF Runs, InPart, PartName
<1>2. \A i \in 0 .. f.raw_size - 1 : i \in Addr("app")
  BY <1>1 DEF Addr
<1> QED
  BY <1>2 DEF Runs

\* A release under way can be started again.
LEMMA UnderWay ==
    ASSUME Sound, TypeInv, TornInv, ReleaseOnly, bpc \in Releasing
    PROVE  fw_info \in Firmware /\ Recoverable(fw_info)
BY NoFaults DEF TypeInv, TypeOK, BootTypeOK, BootBounds, Releasing, TornInv, ReadyInv,
   ReleaseOnly, Recoverable

\* The ways to the jump.
LEMMA QuietAtJump ==
    ASSUME Sound, SignFits, TypeInv, TornInv, OnceInv, ReleaseOnly,
           BootNext, faults' = 0, bpc' = "jump"
    PROVE  Quiet'
<1> USE DEF TypeInv, TypeOK
<1>0. /\ faults = 0 /\ stage = "release" /\ Source = "download" /\ ~ReadFails
      /\ ReadyInv /\ ToSignInv
  BY NoFaults, FaultProps DEF ReleaseOnly, Source, ReadFails, Fault, Sound, PartTypeOK,
     TornInv, OnceInv
<1>1. CASE CheckFails
  <2>1. \A f \in Firmware : ~FwCheck("download", f)
    BY <1>0, <1>1 DEF CheckFails
  <2> QED
    BY <1>0, <1>1, <2>1 DEF CheckFails, Quiet, FwCheck, Holds
<1>2. CASE CheckPasses
  <2>1. PICK f \in Firmware : FwCheck("download", f) /\ Signed("download", f)
    BY <1>0, <1>2, CleanCheck DEF Accepted, Goto
  <2>2. Quiet
    BY <2>1, OnePackage DEF Quiet
  <2>3. part' = part
    BY <1>0, <1>2 DEF CheckPasses
  <2> QED
    BY <2>2, <2>3, QuietKept
<1>3. CASE StartRelease
  <2>1. FwCheck("download", fw_info) /\ ~Releasable(fw_info) /\ part' = part
    BY <1>0, <1>3 DEF StartRelease, ReadyInv, Goto
  <2>2. Quiet
    BY <2>1, OnePackage DEF Quiet
  <2> QED
    BY <2>1, <2>2, QuietKept
<1>4. CASE WriteSign
  BY <1>0, <1>4, SignQuiets
<1>5. CASE bpc \in Releasing
  <2>1. bpc' \in Releasing \cup {"sign"}
    BY <1>0, <1>5, CleanBoot, ReleaseGoesOn
  <2> QED
    BY <2>1 DEF Releasing
<1>6. CASE Start \/ Jump
  BY <1>6, JumpsIntoWhole DEF Start, Goto
<1> QED
  BY <1>1, <1>2, <1>3, <1>4, <1>5, <1>6, Undisturbed
     DEF BootNext, EraseApp, EraseTail, CopyCell, WriteInfo, VerifyPasses, VerifyFails,
         Releasing

LEMMA BootHandsOver ==
    ASSUME Sound, SignFits, TypeInv, TornInv, OnceInv, ReleaseOnly, HandOverInv,
           Boot, faults' = 0
    PROVE  HandOverInv'
<1>0. /\ BootNext /\ stage = "release" /\ bpc # "app" /\ faults = 0
      /\ released \in Firmware \cup {NoFw} /\ NoFw \notin Firmware
      /\ released' = IF EndsRelease THEN fw_info' ELSE released
  BY NoFaults, QbootAssumption DEF Boot, ReleaseOnly, TypeInv, TypeOK, QbootAssumption
<1>1. bpc' = "jump" => Quiet'
  BY <1>0, QuietAtJump
<1>2. CASE EndsRelease
  <2>1. /\ VerifyPasses /\ bpc = "verify" /\ fw_info \in Firmware /\ CopyInv
        /\ part' = part /\ released' = fw_info'
    BY <1>0, <1>2 DEF EndsRelease, VerifyPasses, TornInv, TypeInv, TypeOK, BootTypeOK
  <2>2. Runs("app", fw_info) /\ part["app"][TailCell("app")] = Hdr(fw_info)
    BY <2>1 DEF CopyInv
  <2>3. fw_info' = fw_info
    BY <2>1, <2>2, CellsDiffer DEF VerifyPasses, DestVerified
  <2>4. Runs("app", released)'
    BY <2>1, <2>2, <2>3 DEF Runs
  <2> QED
    BY <1>1, <2>4 DEF HandOverInv, LastIsWhole
<1>3. CASE ~EndsRelease /\ bpc \in Releasing
  <2>1. /\ fw_info \in Firmware /\ Recoverable(fw_info)
        /\ bpc' \in Releasing \cup {"sign"}
    BY <1>0, <1>3, UnderWay, CleanBoot, ReleaseGoesOn DEF TypeInv, TypeOK
  <2>2. bpc' # "sign"
    BY <1>0, <1>3, RoutingType, Undisturbed
       DEF EndsRelease, BootNext, Start, CheckPasses, Accepted, CheckFails, StartRelease,
           EraseApp, EraseTail, CopyCell, WriteInfo, VerifyFails, WriteSign, Jump, Goto,
           StageFails, GoOn
  <2>3. \A a \in Addr("download") : part'["download"][a] = part["download"][a]
    BY <1>0, <1>3, BootSparesDownload DEF Releasing
  <2>4. (\E f \in Firmware : Recoverable(f))'
    BY <2>1, <2>3, RecoverableKept
  <2> QED
    BY <1>1, <2>1, <2>2, <2>4 DEF HandOverInv, LastIsWhole, Releasing
<1>4. CASE bpc \notin Releasing
  <2>0. released' = released
    BY <1>0, <1>4 DEF EndsRelease, VerifyPasses, Releasing
  <2> SUFFICES ASSUME released # NoFw PROVE LastIsWhole'
    BY <1>1, <2>0 DEF HandOverInv, LastIsWhole
  <2>1. CASE Runs("app", released)
    <3>1. part'["app"] = part["app"]
      BY <1>0, <1>4, BootSparesApp
    <3>2. Runs("app", released)'
      BY <1>0, <2>0, <2>1, <3>1, RunsKept
    <3> QED
      BY <3>2 DEF LastIsWhole
  <2>2. CASE bpc \notin {"sign", "jump", "app"} /\ \E f \in Firmware : Recoverable(f)
    <3>1. \A a \in Addr("download") : part'["download"][a] = part["download"][a]
      BY <1>0, <2>2, BootSparesDownload
    <3>2. PICK f \in Firmware : Recoverable(f)'
      BY <2>2, <3>1, RecoverableKept
    <3>3. ~Quiet'
      BY <3>2 DEF Quiet, Recoverable, Releasable, InPart
    <3>4. bpc' \notin {"sign", "app"}
      BY <1>0, <1>4, <2>2, RoutingType, Undisturbed
         DEF BootNext, Start, CheckPasses, Accepted, CheckFails, StartRelease, EraseApp,
             EraseTail, CopyCell, WriteInfo, VerifyPasses, VerifyFails, WriteSign, Jump, Goto,
             StageFails, GoOn, Releasing
    <3> QED
      BY <1>1, <3>2, <3>3, <3>4 DEF LastIsWhole
  <2> QED
    BY <2>1, <2>2 DEF HandOverInv, LastIsWhole
<1> QED
  BY <1>2, <1>3, <1>4

\* Losses of power: what is given up can be taken up again.
LEMMA PowerHandsOver ==
    ASSUME Sound, TypeInv, TornInv, ReleaseOnly, HandOverInv, PowerLoss
    PROVE  HandOverInv'
<1>0. /\ bpc' = "reset" /\ released' = released /\ PartTypeOK /\ "app" \in PartName
      /\ released \in Firmware \cup {NoFw}
      /\ UNCHANGED part \/ Spoil(InFlight[1], InFlight[2])
  BY DEF PowerLoss, BootReset, TypeInv, TypeOK, PartName
<1> SUFFICES ASSUME released # NoFw PROVE LastIsWhole'
  BY <1>0 DEF HandOverInv, LastIsWhole
<1>1. CASE bpc \notin Releasing /\ Runs("app", released)
  <2>1. Runs("app", released)'
    BY <1>0, <1>1, PowerSparesApp, RunsKept
  <2> QED
    BY <2>1 DEF LastIsWhole
<1>2. CASE \/ bpc \in Releasing
           \/ bpc \notin {"sign", "jump", "app"} /\ \E f \in Firmware : Recoverable(f)
  <2>1. \E f \in Firmware : Recoverable(f)
    BY <1>2, UnderWay
  <2>2. InFlight[1] = "app"
    BY <1>2 DEF InFlight, BootInFlight, Releasing
  <2>3. \A a \in Addr("download") : part'["download"][a] = part["download"][a]
    BY <1>0, <2>2, SpoilProps DEF PartName
  <2> QED
    BY <1>0, <2>1, <2>3, RecoverableKept DEF LastIsWhole
<1> QED
  BY <1>1, <1>2 DEF HandOverInv, LastIsWhole

LEMMA HandOverInit == Init => HandOverInv
BY DEF Init, BootInit, HandOverInv, LastIsWhole

LEMMA HandOverStep ==
    ASSUME Sound, SignFits
    PROVE  TypeInv /\ TypeInv' /\ TornInv /\ OnceInv
             /\ ReleaseOnly /\ HandOverInv /\ [Next]_vars
             => HandOverInv'
<1> SUFFICES ASSUME TypeInv, TypeInv', TornInv, OnceInv, ReleaseOnly, HandOverInv, [Next]_vars
             PROVE  HandOverInv'
  OBVIOUS
<1>0. faults' = 0 /\ released \in Firmware \cup {NoFw}
  BY DEF Sound, TypeInv, TypeOK, PartTypeOK
<1>1. CASE Boot
  BY <1>0, <1>1, BootHandsOver
<1>2. CASE App
  <2>1. /\ bpc = "app" /\ bpc' = "app" /\ released' = released
        /\ part'["app"] = part["app"]
    BY <1>2, OtaSparesApp DEF App, bootVars
  <2>2. released # NoFw => Runs("app", released)'
    BY <1>0, <2>1, RunsKept DEF HandOverInv, LastIsWhole
  <2> QED
    BY <2>1, <2>2 DEF HandOverInv, LastIsWhole
<1>3. CASE Reboot
  <2>1. bpc = "app" /\ bpc' = "reset" /\ UNCHANGED <<part, released>>
    BY <1>3 DEF Reboot, BootReset, history
  <2> QED
    BY <2>1 DEF HandOverInv, LastIsWhole, Runs
<1>4. CASE PowerLoss
  BY <1>4, PowerHandsOver
<1>5. CASE World \/ UNCHANGED vars
  <2>1. UNCHANGED <<part, bpc, released>>
    BY <1>5, OtaWorldType DEF World, vars, bootVars, history, TypeInv, TypeOK
  <2> QED
    BY <2>1 DEF HandOverInv, LastIsWhole, Runs, Quiet, Recoverable, FwCheck, Holds, Signed
<1> QED
  BY <1>1, <1>2, <1>3, <1>4, <1>5 DEF Next

(***************************************************************************)
(* With flash that does not fail and packages that can be verified and     *)
(* signed, whose sign is erased with them and whose files are whole, the   *)
(* bootloader hands over to the package that is stored in download, if it  *)
(* accepts that one, and to no other, whatever losses of power there were  *)
(* and whenever the stick was pulled, so long as no failing read has       *)
(* written to download since it was erased.  Without that exception it is  *)
(* false: see pulled_stick.cfg.                                            *)
(***************************************************************************)
THEOREM StoredIsRun ==
    ASSUME Sound, SignFits, SignErased, WholeFiles
    PROVE  Spec => RunsWhatIsStored
<1>1. TypeInv /\ TypeInv' /\ TornInv /\ OnceInv /\ ReleaseOnly /\ HandOverInv /\ [Next]_vars
        => HandOverInv'
  BY HandOverStep
<1>2. ASSUME TypeInv, TornInv, ReleaseOnly, HandOverInv, SignedMeansReleased, ~spilled,
             Boot, bpc' = "app", NEW f \in Firmware,
             FwCheck("download", f), Releasable(f)
      PROVE  Runs("app", f)
  <2>1. Jump /\ bpc = "jump"
    BY <1>2, RoutingType, Undisturbed
       DEF Boot, BootNext, Start, CheckPasses, Accepted, CheckFails, StartRelease, EraseApp,
           EraseTail, CopyCell, WriteInfo, VerifyPasses, VerifyFails, WriteSign, Jump, Goto,
           StageFails, GoOn, TypeInv, TypeOK
  <2>2. Signed("download", f)
    BY <1>2, <2>1 DEF HandOverInv, Quiet
  <2>3. released = f /\ f # NoFw
    BY <1>2, <2>2, NoFaults, QbootAssumption DEF SignedMeansReleased, QbootAssumption
  <2> QED
    BY <1>2, <2>1, <2>3 DEF HandOverInv, LastIsWhole
<1>3. TypeInv /\ TornInv /\ ReleaseOnly /\ HandOverInv /\ SignedMeansReleased
        => [~spilled => HandsOver]_vars
  BY <1>2 DEF HandsOver
<1>4. Spec => [](TypeInv /\ TornInv /\ OnceInv)
  BY TypeInvariant, TornInvariant, OnceInvariant, PTL DEF Sound
<1>5. Spec => []HandOverInv
  BY <1>1, <1>4, ReleaseOnlyInvariant, HandOverInit, PTL DEF Spec
<1>6. Spec => []SignedMeansReleased
  BY SignIsHonest
<1> QED
  BY <1>3, <1>4, <1>5, <1>6, ReleaseOnlyInvariant, PTL DEF Spec, RunsWhatIsStored
=============================================================================
