--------------------------- MODULE MCInstallation ---------------------------
(***************************************************************************)
(* Two versions of the checkout and three runs of the installer: enough to *)
(* fail, to update and to change the database twice.  Each database is     *)
(* given with an OpenAI model, with or without specialists of OpenRouter,  *)
(* and with any other model and a number that is none.                     *)
(***************************************************************************)
EXTENDS Installation

MCAnswers ==
  {a \in Answer : \/ a.model = "openai" /\ a.good
                  \/ a.model = "other" /\ a.spec /\ ~a.good}
=============================================================================
