--------------------------- MODULE MCFprintDevice ---------------------------
(* Instances of FprintDevice for TLC. *)
EXTENDS FprintDevice, TLC

NoLines == << >>
EnrollLines == << "place", "remove", "place" >>
VerifyLines == << "place" >>

CaptureMethods == { "Claim", "Release", "VerifyStart", "VerifyStop",
                    "EnrollStart", "EnrollStop" }
RegistryMethods == AllMethods \ { "VerifyStart", "VerifyStop" }

Symmetry == Permutations(Procs) \cup Permutations(Clients)
              \cup Permutations(Users) \cup Permutations(Fingers)
=============================================================================
