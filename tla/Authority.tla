------------------------------ MODULE Authority ------------------------------
(***************************************************************************)
(* The two authority gates a request that names resources goes through:    *)
(* ZeroStandingPrivileges.enforce and confused_deputy_check (Gate C1),     *)
(* pure functions of the policy's grants and of the request.               *)
(*                                                                         *)
(* fnmatch is abstracted to the set of resources a pattern covers.         *)
(***************************************************************************)
CONSTANTS
    Resources,
    Patterns,
    Star,           \* the pattern "*"
    Covers,         \* the resources each pattern matches
    Agents,         \* the principals requests come from
    AnyPrincipal    \* the principal "*" of a grant table

ASSUME PatternsAssumption ==
    /\ Star \in Patterns
    /\ Covers \in [Patterns -> SUBSET Resources]
    /\ Covers[Star] = Resources
    /\ AnyPrincipal \notin Agents

Principals == Agents \cup {AnyPrincipal}

\* A grant table is a dict: some principals have a list of patterns.
GrantTables == UNION {[owners -> SUBSET Patterns] : owners \in SUBSET Principals}

\* dict.get(key, default)
Get(table, key, default) == IF key \in DOMAIN table THEN table[key] ELSE default

Matched(resource, patterns) == \E p \in patterns : resource \in Covers[p]

\* ZeroStandingPrivileges.enforce: declared, and matched by the principal's
\* patterns or else by those of the principal "*".
ZSPAllows(grants, principal, declared, requested) ==
    LET patterns == Get(grants, principal, Get(grants, AnyPrincipal, {}))
    IN  \A r \in requested : r \in declared /\ Matched(r, patterns)

\* confused_deputy_check: no fallback to the principal "*".
DeputyAllows_Some(grants, principal, requested) ==
    LET patterns == Get(grants, principal, {})
    IN  Star \in patterns \/ \E r \in requested : Matched(r, patterns)
DeputyAllows_Fallback(grants, principal, requested) ==
    LET patterns == Get(grants, principal, Get(grants, AnyPrincipal, {}))
    IN  Star \in patterns \/ \A r \in requested : Matched(r, patterns)
DeputyAllows(grants, principal, requested) ==
    LET patterns == Get(grants, principal, {})
    IN  Star \in patterns \/ \A r \in requested : Matched(r, patterns)

\* What process() makes of the two; neither runs for a request without
\* resources.
Authorized(grants, principal, declared, requested) ==
    requested # {} =>
        /\ ZSPAllows(grants, principal, declared, requested)
        /\ DeputyAllows(grants, principal, requested)
=============================================================================
