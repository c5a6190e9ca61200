------------------------------- MODULE MCEngine -------------------------------
(***************************************************************************)
(* Small instances of EnforcementEngine for TLC.  Tier thresholds rise as  *)
(* in config/default_config.yaml; scores are the ones that separate the    *)
(* tiers: none triggered, CHALLENGE, FULL_BLOCK.                           *)
(***************************************************************************)
EXTENDS EnforcementEngine, TLC

MCTriggerViolations == <<1, 2, 3, 4>>
MCTriggerScore      == <<30, 60, 80, 95>>
MCScores            == {0, 60, 95}

Symmetry == Permutations(Tasks) \union Permutations(Proxies) \union Permutations(Clients)

===============================================================================
