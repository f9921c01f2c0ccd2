-------------------------- MODULE MCDiscoveryPool --------------------------
(* Five devices, and a pool of one to three slots or proxy mode.                                 *)
EXTENDS DiscoveryPool
=============================================================================
