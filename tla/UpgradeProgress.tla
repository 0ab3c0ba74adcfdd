-------------------------- MODULE UpgradeProgress --------------------------
(***************************************************************************)
(* What the board must eventually do, and the abstract service it          *)
(* implements, both over the board of FirmwareUpgrade.                     *)
(***************************************************************************)
EXTENDS FirmwareUpgrade

CONSTANT Torn     \* the abstract image of a half-written app partition

ASSUME TornAssumption == Torn \notin Firmware

\* The bootloader is a thread with nothing to wait for but its own delays.
FairSpec == Spec /\ WF_vars(Boot)

(***************************************************************************)
(* The board always gets back to a running, whole application.             *)
(***************************************************************************)
EventuallyRuns == []<>(bpc = "app" /\ Intact)

(***************************************************************************)
(* A releasable package found in download when the board resets is what    *)
(* the board runs next, however often the power fails on the way, unless   *)
(* a failing read has left zeros in it for a sign.                         *)
(***************************************************************************)
DownloadIsInstalled ==
    \A f \in Firmware :
      (bpc = "reset" /\ ~spilled /\ FwCheck("download", f) /\ Releasable(f))
        ~> (bpc = "app" /\ Runs("app", f))
---------------------------------------------------------------------------
(***************************************************************************)
(* The safety behind these two: how many steps the bootloader is from the  *)
(* application at most.  LastSector is below raw_size: the erase takes no  *)
(* more steps than the copy.                                               *)
(***************************************************************************)
StepsLeft ==
    CASE bpc = "reset"      -> 8 + 2 * PartLen["app"]
      [] bpc = "check"      -> 7 + 2 * PartLen["app"]
      [] bpc = "start"      -> 6 + 2 * PartLen["app"]
      [] bpc = "erase"      -> 6 + LastSector(0, fw_info.raw_size) - at + fw_info.raw_size
      [] bpc = "erase_tail" -> 5 + fw_info.raw_size
      [] bpc = "copy"       -> 4 + fw_info.raw_size - at
      [] bpc = "info"       -> 4
      [] bpc = "verify"     -> 3
      [] bpc = "sign"       -> 2
      [] bpc = "jump"       -> 1
      [] bpc = "app"        -> 0

(***************************************************************************)
(* A boot comes to an end in the application: each step of the bootloader  *)
(* brings it nearer, so that a boot that is not cut runs the application   *)
(* after a number of steps that only the size of the app partition bounds, *)
(* and neither reboots by itself nor goes through a resume (qboot.c:1223). *)
(***************************************************************************)
BootComesToAnEnd == [][Boot => StepsLeft' < StepsLeft]_vars

(***************************************************************************)
(* The bootloader hands over to nothing but the package in download, if    *)
(* there is one that it accepts: the jump is taken with the whole code of  *)
(* that package in the app partition, whether this boot has unpacked it or *)
(* an earlier one has signed it.                                           *)
(***************************************************************************)
HandsOver ==
    Boot /\ bpc' = "app" =>
      \A f \in Firmware : FwCheck("download", f) /\ Releasable(f) => Runs("app", f)

(***************************************************************************)
(* It does so for every package stored without a failing read, whatever    *)
(* was cut in between.                                                     *)
(***************************************************************************)
RunsWhatIsStored == [][~spilled => HandsOver]_vars

(***************************************************************************)
(* What "Download firmware to flash success" (ota_from_file.c:419) and the *)
(* restart behind it promise of every package.  It does not hold: zeros    *)
(* written by a failing read behind the last byte are a sign, and the      *)
(* bootloader runs the old code for ever.                                  *)
(***************************************************************************)
StoredIsInstalled == [][HandsOver]_vars
---------------------------------------------------------------------------
(***************************************************************************)
(* The abstract service: the image is the package whose code the app       *)
(* partition holds, the offer the one that a release would unpack.         *)
(***************************************************************************)
TheOne(S, none) == IF S = {} THEN none ELSE CHOOSE f \in S : TRUE

AppImage == TheOne({f \in Firmware : Runs("app", f)}, Torn)

OnOffer == TheOne({f \in Firmware : FwCheck("download", f) /\ Releasable(f)}, NoFw)

Service == INSTANCE UpgradeService WITH
    image   <- AppImage,
    offer   <- OnOffer,
    running <- bpc = "app"

ImplementsService == Service!Spec
=============================================================================
