---------------------------- MODULE MCDynocSetup ----------------------------
(***************************************************************************)
(* Arguments for model checking DynocSetup.                                *)
(***************************************************************************)
EXTENDS DynocSetup

BothDCs   == {LOCAL_DC, REMOTE_DC}
\* The first and the last hash name, an unknown one and none.
SomeNames == {"one_at_a_time", "murmur3", "bogus", NULL}
=============================================================================
