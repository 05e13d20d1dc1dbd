------------------------------- MODULE MC_Repl -------------------------------
EXTENDS Repl
NothingAbandoned == Clean
=============================================================================
