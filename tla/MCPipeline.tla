------------------------------ MODULE MCPipeline ------------------------------
(* A service of two threads.  The agent may read the file and the guest may *)
(* do nothing.                                                              *)
EXTENDS Pipeline

CONSTANTS w1, w2, service, agent, guest, any, star, readFile, file

TwoWorkers == {w1, w2}

OneResource == {file}
TwoPatterns == {star, readFile}
CoverTable == [p \in TwoPatterns |-> OneResource]
TwoAgents == {agent, guest}
GrantTable == [p \in {agent} |-> {readFile}]

Request(requested, declared, flaws) ==
    [principal |-> agent, requested |-> requested, declared |-> declared, flaws |-> flaws]

\* One that passes the gates, one that they block, and some that raise: at the
\* token guard, at once, at the gates, and after the trifecta or in issue.
SoundRequests == {Request({file}, {file}, {}), Request({file}, {}, {})}
CountedRequests == SoundRequests \cup {Request({}, {}, {"tokens"})}
MixedRequests == CountedRequests \cup
    {Request({}, {}, {"fields"}), Request({file}, {}, {"resources"}),
     Request({}, {}, {"principal", "receipt"})}
=============================================================================
