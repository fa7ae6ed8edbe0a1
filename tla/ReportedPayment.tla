------------------------------ MODULE ReportedPayment ------------------------------
(***************************************************************************)
(* What a success report of the gateway is promised: it is acknowledged    *)
(* only once it is recorded, what follows from it happens at least once    *)
(* and only after it is recorded, and never again once that is noted.      *)
(***************************************************************************)
EXTENDS Naturals

VARIABLES
  recorded,      \* the payment is in the books
  acknowledged,  \* the gateway knows and stops sending
  told,          \* how often the outlet was told
  noted          \* it is noted that the outlet was told

reportVars == <<recorded, acknowledged, told, noted>>

Record == recorded' = TRUE /\ UNCHANGED <<acknowledged, told, noted>>

Acknowledge ==
  /\ recorded
  /\ acknowledged' = TRUE
  /\ UNCHANGED <<recorded, told, noted>>

Tell ==
  /\ recorded /\ ~noted
  /\ told' = told + 1
  /\ UNCHANGED <<recorded, acknowledged, noted>>

Note ==
  /\ told > 0
  /\ noted' = TRUE
  /\ UNCHANGED <<recorded, acknowledged, told>>

ReportInit == recorded = FALSE /\ acknowledged = FALSE /\ told = 0 /\ noted = FALSE

ReportNext == Record \/ Acknowledge \/ Tell \/ Note

\* However often something fails, in the end the gateway has its answer and the
\* outlet knows.
ReportSettles == <>(acknowledged /\ noted)

ReportSpec == ReportInit /\ [][ReportNext]_reportVars /\ ReportSettles
=============================================================================
