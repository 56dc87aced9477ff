--------------------------- MODULE MCQuotaPoller ---------------------------
(* Small instances of QuotaPoller for TLC. *)
EXTENDS QuotaPoller

B(l, r) == [left |-> l, reset |-> r]

\* Quota left; spent until a time to come. Rows past their reset time come about by
\* the time passing.
FewAnswers == {{B(TRUE, "ahead")}, {B(FALSE, "ahead")}}

\* A spent account before its first poll, or in its cooldown.
ConsumerOnly == {{}, {B(FALSE, "ahead"), B(TRUE, "ahead")}}
=============================================================================
