-------------------------- MODULE MCTaskController --------------------------
EXTENDS TaskController
\* A pool that is generated, a thread of its own and the repository's server;
\* a pool given as a vector and a task controller that reports labels
MCConfig ==
  {[mode |-> "generated", threaded |-> TRUE, labels |-> "none"],
   [mode |-> "vector", threaded |-> FALSE, labels |-> "structure"],
   [mode |-> "vector", threaded |-> TRUE, labels |-> "both"]}
\* Pools 1 and 2 differ in the localization label only, 3 in both
MCStructure == <<1, 1, 2>>
MCLocalization == <<1, 2, 2>>
=============================================================================
