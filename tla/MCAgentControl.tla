--------------------------- MODULE MCAgentControl ---------------------------
EXTENDS AgentControl

\* One reload, and a second terminate signal, which forces the exit.
FewSignals == [s \in {"RELOAD", "TERMINATE"} |-> IF s = "RELOAD" THEN 1 ELSE 2]
=============================================================================
