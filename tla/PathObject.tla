----------------------------- MODULE PathObject -----------------------------
(***************************************************************************)
(* A Path object and the calls its owner makes on it, in any order.        *)
(***************************************************************************)
EXTENDS CppPath

CONSTANTS MaxSegments,   \* bound on the length of the paths given
          Start          \* directories a relative path may be followed from

ASSUME PathAssumption == MaxSegments \in Nat /\ Start \subseteq Seq(FileName)

VARIABLE path    \* the object's string

Given == UNION {[1..n -> Segment] : n \in 1..MaxSegments}
Arguments == {p \in Given : Len(p) <= 2}

Init == path \in Given

\* The bound on how far repeated append and up calls may go.
Small == Len(path) <= MaxSegments + 1

DoAppend == Small /\ \E segment \in Arguments : path' = append(path, segment)
DoRelative == Small /\ \E rel \in Arguments : path' = relative(path, rel)
DoUp == Small /\ path' = up(path)
DoAbsolute == path' = absolute(path)
DoSanitize == path' = sanitize(path)
DoDirectory == path' = directory(path)
DoTrim == path' = trim(path)

Next == \/ DoAppend \/ DoRelative \/ DoUp \/ DoAbsolute
        \/ DoSanitize \/ DoDirectory \/ DoTrim

Spec == Init /\ [][Next]_path

-----------------------------------------------------------------------------
(* Properties *)

TypeOK == path \in Path

\* sanitize() gives one spelling: no empty or "." segment inside, ".." only at
\* the start of a relative path; sanitizing again changes nothing.
SanitizeIsNormal ==
    LET s == sanitize(path)
        body == SubSeq(s, IF is_absolute(s) THEN 2 ELSE 1,
                       IF trailing_slash(s) THEN Len(s) - 1 ELSE Len(s)) IN
    /\ sanitize(s) = s
    /\ is_absolute(s) <=> is_absolute(path)
    /\ \A i \in DOMAIN body :
          /\ body[i] # "."
          /\ body[i] = Blank => Len(body) = 1
          /\ body[i] = ".." => ~is_absolute(s) /\ \A j \in 1..i : body[j] = ".."

\* sanitize() does not change where the path leads, from any directory.
SanitizeKeepsPlace == \A dir \in Start : Walk(dir, sanitize(path)) = Walk(dir, path)

\* equivalent() is only said of paths that lead to the same place from the
\* current directory, which is always the root.
EquivalentIsSound ==
    \A q \in Arguments : equivalent(path, q) => Walk(<<>>, path) = Walk(<<>>, q)

\* The name fopen gives the kernel leads where the caller's name leads from the
\* current directory, if it starts with a dot, and from the root if not.
OpensWhereMeant ==
    LET dotted == path[1] \in {".", ".."} \cup DotFile IN
    \A dir \in Start :
        Walk(<<>>, path_sanitize(CwdFor(dir, path), path))
          = Walk(IF dotted THEN dir ELSE <<>>, path)

\* up() leads to the parent directory, from any directory, however the path was
\* written and whatever calls gave it.
UpLeadsToParent ==
    [][DoUp => \A dir \in Start : Walk(dir, path') = Parent(Walk(dir, path))]_path
=============================================================================
