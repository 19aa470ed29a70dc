------------------------ MODULE MCBackgroundSender ------------------------
(* Instances of BackgroundSender for TLC. *)
EXTENDS BackgroundSender

CONSTANTS r1, r2

(* Two data kinds and the completion of one run, and data of a second run:  *)
(* every reason why a batch must end where it does.                         *)
MCOffered    == {<<"span", r1>>, <<"op_stats", r1>>, <<"span", r2>>, <<"complete", r1>>}

(* Enough for a full batch and for a control item.                          *)
MCFewOffered == {<<"span", r1>>, <<"complete", r1>>}
=============================================================================
