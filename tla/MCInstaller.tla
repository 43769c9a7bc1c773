---------------------------- MODULE MCInstaller ----------------------------
(***************************************************************************)
(* Instances of Installer for TLC.                                         *)
(***************************************************************************)
EXTENDS Installer, TLC

Interchangeable == Permutations(Installers) \cup Permutations(Runtimes)
=============================================================================
