------------------------- MODULE MCArtifactProcess -------------------------
(* Small instances of ArtifactProcess for TLC. *)
EXTENDS ArtifactProcess, TLC
====
