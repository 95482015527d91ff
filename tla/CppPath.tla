------------------------------- MODULE CppPath -------------------------------
(***************************************************************************)
(* The class apathy::Path of cpp_path/cpp_path.hpp and path_sanitize of    *)
(* cpp_path/cpp_path.cpp, on paths cut at their separators: a path is the  *)
(* nonempty sequence of what stands between the separators, so "" is       *)
(* <<"">>, "/" is <<"", "">>, "/a//b/" is <<"", a, "", b, "">>.            *)
(***************************************************************************)
EXTENDS Naturals, Sequences, SequencesExt

CONSTANTS FileName,   \* segments that are neither empty nor dots
          DotFile     \* those of them whose first character is a dot

Blank == ""   \* what stands between two separators that follow each other

ASSUME FileNameAssumption == {Blank, ".", ".."} \cap FileName = {} /\ DotFile \subseteq FileName

Segment == {Blank, ".", ".."} \cup FileName
Path == Seq(Segment) \ {<<>>}
Empty == <<Blank>>

is_absolute(p) == Len(p) > 1 /\ p[1] = Blank
trailing_slash(p) == Len(p) > 1 /\ Last(p) = Blank

\* split() gives no segment at all for "".
split(p) == IF p = Empty THEN <<>> ELSE p

\* Mutant: joining no segments gives nothing at all.
joinNothing(segments) == segments

\* join(segments) puts separators only between segments.
join(segments) == IF segments = <<>> THEN Empty ELSE segments

\* trim() erases every trailing separator, the leading one of "///" too.
trim(p) ==
    LET kept == {i \in DOMAIN p : p[i] # Blank} IN
    IF kept = {} THEN Empty ELSE SubSeq(p, 1, CHOOSE i \in kept : \A j \in kept : j <= i)

directory(p) == Append(trim(p), Blank)

\* append() adds a separator unless one ends the path, also to "".
append(p, segment) == (IF trailing_slash(p) THEN Front(p) ELSE p) \o segment

relative(p, rel) == IF is_absolute(rel) THEN rel ELSE append(p, rel)

\* Mutants: ".." takes back a ".." before it; ".." has no effect on an absolute
\* path.
PruneUpAlways(pruned, segment, is_relative) ==
    CASE segment \in {Blank, "."} -> pruned
      [] segment = ".." -> IF pruned # <<>> THEN Front(pruned)
                           ELSE IF is_relative THEN Append(pruned, "..") ELSE pruned
      [] OTHER -> Append(pruned, segment)

PruneUpRelativeOnly(pruned, segment, is_relative) ==
    CASE segment \in {Blank, "."} -> pruned
      [] segment = ".." /\ ~is_relative -> pruned
      [] segment = ".." /\ pruned # <<>> /\ Last(pruned) # ".." -> Front(pruned)
      [] OTHER -> Append(pruned, segment)

\* One turn of sanitize()'s loop.
Prune(pruned, segment, is_relative) ==
    CASE segment \in {Blank, "."} -> pruned
      [] segment = ".." ->
            IF pruned # <<>> /\ (is_relative => Last(pruned) # "..") THEN Front(pruned)
            ELSE IF is_relative THEN Append(pruned, "..")
            ELSE pruned
      [] OTHER -> Append(pruned, segment)

\* Mutant: a relative path that has become empty gets its separator back.
RebuildEmptyDirectory(pruned, is_relative, was_directory) ==
    LET path == IF is_relative THEN join(pruned) ELSE <<Blank>> \o join(pruned) IN
    IF was_directory THEN directory(path) ELSE path

\* What sanitize() makes of the segments that are left.
Rebuild(pruned, is_relative, was_directory) ==
    LET path == IF is_relative THEN join(pruned) ELSE <<Blank>> \o join(pruned) IN
    IF was_directory /\ path # Empty THEN directory(path) ELSE path

\* The loop: what is left of the segments once all of them have had their turn.
Pruned(segments, is_relative) ==
    LET pruned[pos \in 0..Len(segments)] ==
            IF pos = 0 THEN <<>> ELSE Prune(pruned[pos - 1], segments[pos], is_relative)
    IN pruned[Len(segments)]

sanitize(p) ==
    Rebuild(Pruned(split(p), ~is_absolute(p)), ~is_absolute(p), trailing_slash(p))

\* Mutant: the separator is added to an empty result too.
upAlwaysDirectory(p) ==
    IF p = Empty THEN directory(<<"..">>) ELSE directory(sanitize(append(p, <<"..">>)))

up(p) ==
    IF p = Empty THEN directory(<<"..">>)
    ELSE LET q == sanitize(append(p, <<"..">>)) IN IF q = Empty THEN q ELSE directory(q)

cwd == directory(<<Blank, Blank>>)
absolute(p) == IF is_absolute(p) THEN p ELSE append(cwd, p)
equivalent(p, q) == sanitize(absolute(p)) = sanitize(absolute(q))

\* fopen2, fopenSafe and remove2 pass the current directory as base when the
\* name starts with a dot, and "" otherwise.  The result still lacks the \??\ in
\* front; an empty one is a failure.  The buffer is taken to be long enough.
path_sanitize(base, expr) == sanitize(IF base = Empty /\ expr[1] \notin {".", ".."} \cup DotFile
                                      THEN expr ELSE base \o expr)
\* Mutant: only "." itself is relative to the current directory.
CwdForDotOnly(dir, expr) == IF expr[1] = "." THEN join(dir) ELSE Empty

CwdFor(dir, expr) == IF expr[1] \in {".", ".."} \cup DotFile THEN join(dir) ELSE Empty

-----------------------------------------------------------------------------
(* What a path means: the directory one arrives at by following it.  A      *)
(* directory is the sequence of names from the root; the root is its own    *)
(* parent.                                                                  *)

Parent(dir) == IF dir = <<>> THEN dir ELSE Front(dir)

Enter(dir, segment) ==
    CASE segment \in {Blank, "."} -> dir
      [] segment = ".." -> Parent(dir)
      [] OTHER -> Append(dir, segment)

Follow(dir, p) ==
    LET at[i \in 0..Len(p)] == IF i = 0 THEN dir ELSE Enter(at[i - 1], p[i])
    IN at[Len(p)]

Walk(start, p) == Follow(IF is_absolute(p) THEN <<>> ELSE start, p)
=============================================================================
