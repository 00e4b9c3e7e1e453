--------------------------- MODULE MCPaperExecution ---------------------------
(* A paper account with interchangeable symbols.                            *)
EXTENDS PaperExecution, TLC
CONSTANTS btc, eth, f1
Symmetry == Permutations(Symbols)
=============================================================================
