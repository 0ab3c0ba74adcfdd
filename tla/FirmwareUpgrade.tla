-------------------------- MODULE FirmwareUpgrade --------------------------
(***************************************************************************)
(* The board: the bootloader (Qboot) and the update thread of the          *)
(* application (OtaFromFile) take turns on the same flash partitions.      *)
(* They never run together, but a reset or a loss of power hands control   *)
(* over at any moment, and all they can tell each other is in the flash.   *)
(***************************************************************************)
EXTENDS Qboot, OtaFromFile

CONSTANTS
    MaxCrash      \* bound on the losses of power

ASSUME CrashAssumption == MaxCrash \in Nat

VARIABLES
    crashes,      \* how often the power has been lost
    released,     \* history: the last package fully released from download
    releases,     \* history: how often the download package was unpacked
    cuts,         \* history: losses of power in the bootloader since the package was stored
    spilled       \* history: a failing read has written to download since it was erased

history == <<released, releases, cuts, spilled>>
vars == <<part, faults, bootVars, otaVars, crashes, history>>

\* releases stops counting here: enough to tell "too often" from "often".
MaxRelease == MaxCrash + 2

TypeOK ==
    /\ PartTypeOK /\ BootTypeOK /\ OtaTypeOK
    /\ crashes \in 0 .. MaxCrash
    /\ released \in Firmware \cup {NoFw}
    /\ releases \in 0 .. MaxRelease
    /\ cuts \in 0 .. MaxCrash
    /\ spilled \in BOOLEAN

\* The application partition holds the whole code of some package.
Intact == \E f \in Firmware : Runs("app", f)

Package(f) == [a \in 0 .. f.pkg_size |-> IF a = 0 THEN Hdr(f) ELSE Pkg(f, a)]

Image(f) == [a \in 0 .. f.raw_size - 1 |-> Raw(f, a)]

\* Partition p freshly erased and then programmed with s.
Fresh(p, s) == [a \in Addr(p) |-> IF a \in DOMAIN s THEN s[a] ELSE Erased]

(***************************************************************************)
(* A board as it leaves the factory: it runs some firmware, and its        *)
(* factory partition may hold the package of that firmware.                *)
(***************************************************************************)
Init ==
    /\ \E f \in Firmware :
         /\ Releasable(f)
         /\ \E pkg \in {<<>>, Package(f)} :
              part = [p \in PartName |->
                        CASE p = "app"      -> Fresh(p, Image(f))
                          [] p = "factory"  -> Fresh(p, pkg)
                          [] p = "download" -> Fresh(p, <<>>)]
    /\ faults = 0
    /\ BootInit
    /\ OtaInit
    /\ crashes = 0
    /\ released = NoFw
    /\ releases = 0
    /\ cuts = 0
    /\ spilled = FALSE

\* The release stage starts to unpack the download package, or is done with it.
StartsRelease == bpc = "start" /\ bpc' = "erase" /\ stage = "release"
EndsRelease == stage = "release" /\ VerifyPasses

Boot ==
    /\ bpc # "app"
    /\ BootNext
    /\ releases' = IF StartsRelease /\ releases < MaxRelease
                     THEN releases + 1 ELSE releases
    /\ released' = IF EndsRelease THEN fw_info' ELSE released
    /\ UNCHANGED <<otaVars, crashes, cuts, spilled>>

\* The update thread writes what it has not read.
Spills == opc = "data" /\ ~fd_ok /\ Dest = "download" /\ part' # part

\* The old download package is gone with its header.
App ==
    /\ bpc = "app"
    /\ Intact
    /\ OtaThread
    /\ IF opc = "erase" /\ sec = 0 /\ Dest = "download"
         THEN releases' = 0 /\ cuts' = 0 /\ spilled' = FALSE
         ELSE UNCHANGED <<releases, cuts>> /\ spilled' = (spilled \/ Spills)
    /\ UNCHANGED <<bootVars, crashes, released>>

\* rt_hw_cpu_reset after a package was stored.
Reboot ==
    /\ bpc = "app"
    /\ opc = "reboot"
    /\ BootReset
    /\ OtaReset
    /\ UNCHANGED <<part, faults, crashes, history>>

(***************************************************************************)
(* The power goes at any moment.  The cells being erased or programmed are *)
(* as before or garbage (done already is the loss one moment later).       *)
(***************************************************************************)
InFlight == IF bpc = "app" THEN OtaInFlight ELSE BootInFlight

PowerLoss ==
    /\ crashes < MaxCrash
    /\ bpc # "reset"
    /\ UNCHANGED part \/ Spoil(InFlight[1], InFlight[2])
    /\ crashes' = crashes + 1
    /\ cuts' = IF bpc = "app" THEN cuts ELSE cuts + 1
    /\ BootReset
    /\ OtaReset
    /\ UNCHANGED <<faults, released, releases, spilled>>

World == OtaWorld /\ UNCHANGED <<bootVars, crashes, history>>

Next == Boot \/ App \/ Reboot \/ PowerLoss \/ World

Spec == Init /\ [][Next]_vars
---------------------------------------------------------------------------
(***************************************************************************)
(* A release sign behind a valid download package means that this is the   *)
(* package that was last unpacked into the app and verified: the           *)
(* bootloader skips a package that is signed (qboot.c:1152).  (A stick     *)
(* pulled out behind the last byte leaves zeros there, which are a sign.)  *)
(***************************************************************************)
SignedMeansReleased ==
    faults = 0 /\ ~spilled =>
      \A f \in Firmware :
        FwCheck("download", f) /\ Signed("download", f) => released = f

(***************************************************************************)
(* What SignedMeansReleased rests on.  The update thread erases the        *)
(* sectors its file needs and no more, and the sign is one cell further:   *)
(* it has to lie in a sector that the package needs.  And what is stored   *)
(* has to be exactly the package the header announces: a file cut short    *)
(* or still being uploaded can be completed by what is left of an older    *)
(* package, sign included, and a longer one can bring a sign along.        *)
(***************************************************************************)
SignErased == \A f \in Firmware : SectorOf(SignCell(f)) = SectorOf(f.pkg_size)

WholeFiles ==
    /\ Images["tftp"] = {}
    /\ \A s \in Images["download"], f \in Firmware :
         s # <<>> /\ s[1] = Hdr(f) => Len(s) = f.pkg_size + 1

(***************************************************************************)
(* What the next three rest on.  The header of the released package goes   *)
(* to the end of the app partition, over the code if that reaches so far,  *)
(* and a verification that fails for it does not keep the bootloader from  *)
(* the jump (HeaderFits).  A package that leaves no room for its sign, or  *)
(* unpacks to other code than raw_crc says, is never signed (SignFits).    *)
(***************************************************************************)
HeaderFits == \A f \in Firmware : Releasable(f) => f.raw_size < PartLen["app"]

SignFits ==
    \A f \in Firmware : Releasable(f) =>
      /\ InPart("download", SignCell(f), 1)
      /\ f.algo2 = "crc" => f.raw_crc

(***************************************************************************)
(* The bootloader never starts an application that an interrupted release  *)
(* has left half written.  (A resume has no such protection: after one is  *)
(* interrupted a signed download package is not unpacked again, and the    *)
(* jump looks at two words only.)                                          *)
(***************************************************************************)
TornReleaseNeverRuns ==
    faults = 0 /\ writer = "release" /\ bpc = "app" => Intact

(***************************************************************************)
(* Whenever a release has the app partition half written, the package it   *)
(* came from is still in download, whole, unsigned and accepted: it will   *)
(* be unpacked again.                                                      *)
(***************************************************************************)
TornIsRecoverable ==
    faults = 0 /\ writer = "release" /\ ~Intact =>
      \E f \in Firmware :
        /\ FwCheck("download", f)
        /\ Releasable(f)
        /\ ~Signed("download", f)

(***************************************************************************)
(* A stored package is unpacked by the release stage at most once, and     *)
(* once more for each loss of power while the bootloader runs: a board     *)
(* that is switched off and on does not unpack it again.                   *)
(***************************************************************************)
ReleasedOnce == faults = 0 => releases <= 1 + cuts

(***************************************************************************)
(* The bootloader never damages a package it may need again: it writes     *)
(* nothing to download and factory but the sign, and that beside the       *)
(* package, whatever happens to the power and even if one flash operation  *)
(* fails.  (Two are too many: if neither the erase of the tail nor the     *)
(* header is written, the header of an older package is taken for the      *)
(* released one's, and the sign is put where that one would end.)          *)
(***************************************************************************)
BootKeepsPackages ==
    [][bpc # "app" /\ faults' <= 1 =>
         \A p \in {"download", "factory"}, f \in Firmware : Holds(p, f) => Holds(p, f)']_vars
=============================================================================
