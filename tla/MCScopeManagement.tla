------------------------- MODULE MCScopeManagement -------------------------
(***************************************************************************)
(* ScopeManagement with one scope that one server is asked to search, from *)
(* a file whose scopes all lie below the narrower workspace root; edits    *)
(* take them elsewhere.                                                    *)
(***************************************************************************)
EXTENDS ScopeManagement

CONSTANTS s1, s2, a, b

MCServers == {s1, s2}
MCNames == {a, b}
MCSearched == {<<s1, a>>}

MCInit == ScopeInit /\ \A n \in Names : config.scopes[n] \subseteq {Initial("near")}

MCScopeSpec == MCInit /\ [][ScopeNext]_scopeVars
=============================================================================
