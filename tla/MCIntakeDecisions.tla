-------------------------- MODULE MCIntakeDecisions --------------------------
EXTENDS IntakeDecisions, TLC
CONSTANTS key, account, entity, holding

\* A source key to bind, an account, a source entity and an observed holding.
MCOperation == key :> "account_binding" @@ account :> "ownership" @@
               entity :> "asset_meaning" @@ holding :> "asset_observation"
=============================================================================
