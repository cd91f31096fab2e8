----------------------------- MODULE MCScenarios -----------------------------
(* An instance of Scenarios for TLC: two pools, three roles.                *)
EXTENDS Scenarios
MCRequest == 1..5
MCPool == {Pool1, Pool2}
MCUser == {Deployer, Victim, Bot}
=============================================================================
