----------------------------- MODULE UpdatePolicy -----------------------------
(***************************************************************************)
(* What the autoupdater promises to the owner of a node: the firmware that *)
(* is being written to the flash was named by a trusted manifest and is    *)
(* newer than the installed one (unless downgrades were allowed), one      *)
(* image at a time, and the node ends up with exactly that image's         *)
(* version.  Autoupdater.tla is shown to implement this module.            *)
(***************************************************************************)
EXTENDS Integers

CONSTANTS
  Images,          \* the firmware images that exist
  TrustedImages,         \* those named by a manifest this node trusts
  Version,         \* the version of each image
  InitVersion,     \* the version the node starts with
  AllowDowngrade,  \* may the version be ignored?
  Null             \* "no image"

VARIABLES
  flashing,        \* the image being written to the flash, or Null
  installed        \* the version of the running firmware

policyVars == <<flashing, installed>>

Init == flashing = Null /\ installed = InitVersion

\* Start writing an image.
Begin(img) ==
  /\ flashing = Null
  /\ img \in TrustedImages
  /\ AllowDowngrade \/ Version[img] > installed
  /\ flashing' = img
  /\ UNCHANGED installed

\* The image is written and the node boots it.
Boot ==
  /\ flashing # Null
  /\ installed' = Version[flashing]
  /\ flashing' = Null

\* The attempt is given up; the old firmware stays.
GiveUp ==
  /\ flashing # Null
  /\ flashing' = Null
  /\ UNCHANGED installed

Next == (\E img \in Images : Begin(img)) \/ Boot \/ GiveUp

Spec == Init /\ [][Next]_policyVars
===============================================================================
