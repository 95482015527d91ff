--------------------------- MODULE ScopeResource ---------------------------
(***************************************************************************)
(* scope_resource of kstl/scope.h: objects that own a resource and call    *)
(* their release functor on it.  The functor is called on a null resource  *)
(* too, which it must accept.  Resources are used once: a correct caller   *)
(* hands every one it acquires to at most one object.                      *)
(***************************************************************************)
EXTENDS Naturals, FiniteSets

CONSTANTS Object, Resource, Null

ASSUME NullAssumption == Null \notin Resource

VARIABLES
    m_Resource,   \* live objects: object |-> resource or Null
    unused,       \* resources not acquired yet
    kept,         \* resources release() gave back to the caller
    released      \* per resource: how often the functor was called on it

vars == <<m_Resource, unused, kept, released>>

Live == DOMAIN m_Resource

Init ==
    /\ m_Resource = [o \in {} |-> Null]
    /\ unused = Resource /\ kept = {}
    /\ released = [r \in Resource |-> 0]

Holding(o, r) == [x \in Live \cup {o} |-> IF x = o THEN r ELSE m_Resource[x]]
Functor(r) == released' = [x \in Resource |-> released[x] + (IF x = r THEN 1 ELSE 0)]

\* Mutant: the default constructor leaves m_Resource uninitialized.
ConstructRaw(o, r) ==
    /\ o \notin Live /\ r = Null
    /\ m_Resource' = Holding(o, "uninitialized")
    /\ UNCHANGED <<unused, kept, released>>

Construct(o, r) ==
    /\ o \notin Live /\ r \in unused \cup {Null}
    /\ m_Resource' = Holding(o, r)
    /\ unused' = unused \ {r}
    /\ UNCHANGED <<kept, released>>

Destroy(o) ==
    /\ o \in Live
    /\ Functor(m_Resource[o])
    /\ m_Resource' = [x \in Live \ {o} |-> m_Resource[x]]
    /\ UNCHANGED <<unused, kept>>

\* reset(r), reset() and operator=(r).
Reset(o, r) ==
    /\ o \in Live /\ r \in unused \cup {Null}
    /\ Functor(m_Resource[o])
    /\ m_Resource' = Holding(o, r)
    /\ unused' = unused \ {r}
    /\ UNCHANGED kept

\* Mutant: the object keeps the resource it hands out.
ReleaseKeeps(o) ==
    /\ o \in Live
    /\ kept' = kept \cup {m_Resource[o]}
    /\ UNCHANGED <<m_Resource, unused, released>>

Release(o) ==
    /\ o \in Live
    /\ kept' = kept \cup {m_Resource[o]}
    /\ m_Resource' = Holding(o, Null)
    /\ UNCHANGED <<unused, released>>

Swap(o, p) ==
    /\ o \in Live /\ p \in Live
    /\ m_Resource' = [m_Resource EXCEPT ![o] = m_Resource[p], ![p] = m_Resource[o]]
    /\ UNCHANGED <<unused, kept, released>>

Next ==
    \E o \in Object :
        \/ \E r \in unused \cup {Null} : Construct(o, r) \/ Reset(o, r)
        \/ Destroy(o) \/ Release(o)
        \/ \E p \in Object : Swap(o, p)

Spec == Init /\ [][Next]_vars

-----------------------------------------------------------------------------
(* Properties *)

TypeOK ==
    /\ Live \subseteq Object /\ \A o \in Live : m_Resource[o] \in Resource \cup {Null}
    /\ unused \subseteq Resource /\ kept \subseteq Resource \cup {Null}
    /\ released \in [Resource -> Nat]

\* Every resource is in exactly one place: not acquired, owned by one object,
\* given back by release(), or released once.  So none is lost by reset, swap or
\* assignment, and none is released while somebody still has it.
OnePlace ==
    \A r \in Resource :
        (IF r \in unused THEN 1 ELSE 0) + (IF r \in kept THEN 1 ELSE 0)
          + Cardinality({o \in Live : m_Resource[o] = r}) + released[r] = 1
=============================================================================
