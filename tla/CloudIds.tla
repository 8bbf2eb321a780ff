------------------------------ MODULE CloudIds ------------------------------
(***************************************************************************)
(* The identifiers the components of the API server share.                 *)
(***************************************************************************)
CONSTANTS Jobs,     \* logical submissions: one (tenant, idempotency key) each
          Tasks,    \* operator-plane task ids
          Token,    \* queue claim tokens
          None      \* the empty task id, token or job

ASSUME IdsAssumption == None \notin Jobs \cup Tasks \cup Token
=============================================================================
