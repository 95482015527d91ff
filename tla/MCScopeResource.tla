-------------------------- MODULE MCScopeResource --------------------------
(* Small instance: two objects, three resources.                            *)
EXTENDS ScopeResource
=============================================================================
