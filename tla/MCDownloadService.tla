-------------------------- MODULE MCDownloadService --------------------------
(* Instances of DownloadService for TLC. *)
EXTENDS DownloadService, TLC

PeerSymmetry == Permutations(Peers)

AllButCreate == FaultKinds \ {"create"}

AllButWrites == {"kill", "create", "remove"}
=============================================================================
