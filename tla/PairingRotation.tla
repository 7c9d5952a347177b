-------------------------- MODULE PairingRotation ---------------------------
(***************************************************************************)
(* The key rotation of the README, `r503d --unpair`, `touch allow-pair`,   *)
(* `r503d --pair`, followed through Pairing by a history variable, on a    *)
(* small instance.                                                         *)
(***************************************************************************)
EXTENDS Pairing, TLC

VARIABLE rotation  \* history: "none", "paired", "cleared", "done"

\* --unpair reports success, by either of its two ways.
Unpaired ==
  /\ \/ DeleteKey /\ cli.flow = "tidy"
     \/ DeleteRest /\ cli.flow = "unpair"
  /\ cli' = Off

\* The rotation starts from a complete pairing.  Nothing fails but an attempt to
\* unpair, which may be repeated.
Follow ==
  rotation' =
    CASE BeginUnpair -> IF rotation = "done" THEN "paired" ELSE rotation
      [] Unpaired -> IF rotation = "none" THEN "none" ELSE "cleared"
      [] FreshState -> IF reported' = None THEN "none"
                       ELSE IF rotation = "cleared" THEN "done" ELSE "paired"
      [] cli.flow = "unpair" /\ Bail -> rotation
      [] cli.flow # "unpair" /\ Bail -> "none"
      [] Kill \/ PowerLoss \/ WipeSketch -> "none"
      [] OTHER -> rotation

RotationSpec ==
  Init /\ rotation = "none" /\ [][Next /\ Follow]_<< vars, rotation >>

\* No flow tells one key, or one value of a PCR, from another.
Symmetry == Permutations(Keys) \cup Permutations(Values)

-----------------------------------------------------------------------------
(* Property *)

\* README.md:280 "Re-pair / key rotation": `--unpair` "wipes Nano EEPROM + host
\* key", and once `--pair` has reported the new key, `systemctl start r503d`
\* finds it: the key the daemon would load is the Nano's.
RotationWorks == rotation = "done" => LoadKey(files, boot) = ee.key
=============================================================================
