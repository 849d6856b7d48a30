---------------------------- MODULE MCTranslated ----------------------------
(* The programs of QirPrograms run beside their translations.              *)
EXTENDS TranslatedProgram, QirPrograms

MCModules == SupportedPrograms \cup UnsupportedPrograms

\* A supported program is translated: no instruction of it is refused, its graph is
\* reduced to one list of statements and its registers are sized.
SupportedTranslated ==
  status = "rejected" \/ reduction = "panicked" => module \in UnsupportedPrograms
=============================================================================
