------------------------ MODULE MCContainerLifecycle ------------------------
(* Instances of ContainerLifecycle for TLC: see the .cfg files.             *)
EXTENDS ContainerLifecycle

=============================================================================
