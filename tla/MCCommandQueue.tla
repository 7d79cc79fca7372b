--------------------------- MODULE MCCommandQueue ---------------------------
(* Instances of CommandQueue for TLC. *)
EXTENDS CommandQueue, TLC

CONSTANTS triv, plain, repl, main, worker

TrivialPlain == triv :> "trivial" @@ plain :> "plain"
Replace == repl :> "replace"

OneStage == <<main>>
TwoStages == <<main, worker>>

Sym == Permutations(Values)
=============================================================================
