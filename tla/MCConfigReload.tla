--------------------------- MODULE MCConfigReload ----------------------------
(* Two agents, one plain read section, two callers, two edits of which the *)
(* first cannot be applied online.                                         *)
EXTENDS ConfigReload

MCUnreloadable == {1}
=============================================================================
