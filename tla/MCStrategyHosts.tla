-------------------------- MODULE MCStrategyHosts --------------------------
(***************************************************************************)
(* An instance of StrategyHosts for TLC.                                   *)
(***************************************************************************)
EXTENDS StrategyHosts

\* One kind of each end a run can have.
MCCodes == {"raises", "odd", "loops", "broken"}

=============================================================================
