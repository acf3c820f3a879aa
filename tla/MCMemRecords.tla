---------------------------- MODULE MCMemRecords ----------------------------
(* Four addresses: an owner with two children, one of them an owner, and   *)
(* an address for a block to move to or to be allocated at again.          *)
EXTENDS MemRecords
=============================================================================
