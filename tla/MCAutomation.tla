---------------------------- MODULE MCAutomation ----------------------------
(* Two workers, one with an environment of its own, and two stacks, one    *)
(* with a name that clashes with the other's settings file.                *)
EXTENDS Automation, TLC

CONSTANTS w1, w2, own

MCStack == {<<"dev">>, <<"dev", "config">>}
MCEnvOf == w1 :> Plain @@ w2 :> own
=============================================================================
