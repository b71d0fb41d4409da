--------------------------- MODULE MCCapsulePanel ---------------------------
(* One ending of each way a notice can behave: none, one that goes by       *)
(* itself and asks for nothing, one that does and wants attention, and one  *)
(* that stays and wants attention.                                          *)
EXTENDS CapsulePanel

MCEndings == {Ended("completed", "paste_sent"), Ended("completed", "silent"),
              Ended("error", "generic"), Ended("error", "missing_provider")}
=============================================================================
