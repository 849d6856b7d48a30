---------------------------- MODULE MCTranslator ----------------------------
(* The instruction walk alone, on supported, odd and malformed programs.   *)
EXTENDS Translator, QirPrograms
=============================================================================
