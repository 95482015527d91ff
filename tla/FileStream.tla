----------------------------- MODULE FileStream -----------------------------
(***************************************************************************)
(* Position, end and error of one open FILE under the stream functions of  *)
(* kcrt/kcrtfs.c: fgetc, ungetc, fread, fwrite, kfprintf, fseek, _fseeki64, *)
(* ftell, _ftelli64, feof, ferror and clearerr.  The file may be longer than what fits in a long: Word is *)
(* 2^32, long is its signed and ULONG its unsigned half of the integers.   *)
(* Every Zw call may fail; ZwReadFile at the end fails with                *)
(* STATUS_END_OF_FILE.  The caller uses the stream from one thread, while  *)
(* others may extend the file, also between the two requests of feof and   *)
(* of a seek from the end.                                                 *)
(***************************************************************************)
EXTENDS Integers

CONSTANTS Word,      \* 2^32
          MaxEnd,    \* bound on the length of the file
          Count,     \* byte counts asked for
          Offset     \* seek offsets asked for

ASSUME WordAssumption == Word \in Nat /\ Word > 1 /\ Word % 2 = 0
ASSUME ArgumentAssumption == MaxEnd \in Nat /\ Count \subseteq Nat /\ Offset \subseteq Int

EOF == -1
EIO == 5
SUCCESS == "success"
Long(n) == ((n + Word \div 2) % Word) - Word \div 2    \* (long)
ULong(n) == n % Word                                   \* (ULONG)
AtMost(n, m) == IF n < m THEN n ELSE m
AtLeast(n, m) == IF n > m THEN n ELSE m

VARIABLES
    end,    \* EndOfFile
    pos,    \* CurrentByteOffset
    err,    \* fcb->err
    asked,  \* the call that knows EndOfFile and has not used it yet
    told,   \* a result of ftell the caller kept, or EOF
    at,     \* history: the position it was taken at
    last    \* history: the last call, its result, where the stream stood before
            \* it, and for a seek the position C promises

vars == <<end, pos, err, asked, told, at, last>>

Nothing == [op |-> "none", end |-> 0, offset |-> 0]

Init == /\ end \in 0..MaxEnd /\ pos = 0 /\ err = SUCCESS
        /\ asked = Nothing /\ told = EOF /\ at = 0
        /\ last = [op |-> "fopen", ret |-> 0, from |-> 0, want |-> 0]

Returns(name, value, target) ==
    last' = [op |-> name, ret |-> value, from |-> pos, want |-> target]
Fails == err' = "error"

-----------------------------------------------------------------------------
(* ZwReadFile, ZwWriteFile and ZwSetInformationFile(FilePositionInformation) *)

\* A read of n bytes delivers `bytes' of them.
ReadFile(n, bytes) ==
    /\ UNCHANGED end
    /\ \/ Fails /\ bytes = 0 /\ UNCHANGED pos
       \/ n > 0 /\ pos >= end /\ err' = "end_of_file" /\ bytes = 0 /\ UNCHANGED pos
       \/ /\ n = 0 \/ pos < end
          /\ bytes = AtMost(n, AtLeast(end - pos, 0))
          /\ err' = SUCCESS /\ pos' = pos + bytes

WriteFile(n, bytes) ==
    \/ Fails /\ bytes = 0 /\ UNCHANGED <<pos, end>>
    \/ /\ bytes = n /\ pos + n <= MaxEnd
       /\ err' = SUCCESS /\ pos' = pos + n
       /\ end' = IF n = 0 THEN end ELSE AtLeast(end, pos + n)

SetPosition(p) ==
    \/ Fails /\ UNCHANGED pos
    \/ p \in 0..MaxEnd /\ pos' = p /\ err' = SUCCESS

-----------------------------------------------------------------------------

fgetc == \E bytes \in {0, 1} :
    /\ ReadFile(1, bytes)
    /\ Returns("fgetc", IF bytes = 1 THEN 0 ELSE EOF, pos)
    /\ UNCHANGED <<told, at>>

fread(size, count) ==
    LET n == ULong(size * count) IN
    \E bytes \in 0..n :
        ReadFile(n, bytes) /\ Returns("fread", bytes, pos) /\ UNCHANGED <<told, at>>

fwrite(size, count) ==
    LET n == ULong(size * count) IN
    \E bytes \in 0..n :
        WriteFile(n, bytes) /\ Returns("fwrite", bytes, pos) /\ UNCHANGED <<told, at>>

\* n is the length of the text, or -1 when it is longer than the buffer: then
\* fwrite is asked for (ULONG)-1 bytes.
kfprintf(n) ==
    \E bytes \in 0..ULong(n) :
        WriteFile(ULong(n), bytes) /\ Returns("kfprintf", n, pos) /\ UNCHANGED <<told, at>>

Seek(p, target) ==
    /\ SetPosition(p)
    /\ Returns("seek", IF err' = SUCCESS THEN 0 ELSE EIO, target)
    /\ UNCHANGED <<end, told, at>>

\* The end or the position cannot be asked for.
SeekFails == Fails /\ Returns("seek", EIO, pos) /\ UNCHANGED <<end, pos, told, at>>

\* Mutants: the position is only noted, not asked of the file system; the sign
\* of what ftell gave is not tested.
SeekCurNoted(offset) ==
    /\ pos' = Long(pos) + offset /\ err' = SUCCESS
    /\ Returns("seek", 0, pos + offset)
    /\ UNCHANGED <<end, told, at>>

SeekCurUntested(offset) == Seek(Long(pos) + offset, pos + offset)

\* SEEK_CUR goes through ftell and its long, which is negative from 2 GiB on.
SeekCur(offset) ==
    \/ Long(pos) >= 0 /\ Seek(Long(pos) + offset, pos + offset)
    \/ /\ Long(pos) < 0 /\ err' = SUCCESS
       /\ Returns("seek", EIO, pos) /\ UNCHANGED <<end, pos, told, at>>

\* fseek hands its long offset to _fseeki64, which takes any.
fseek(offset) == SeekCur(offset) \/ Seek(offset, offset) \/ SeekFails

\* The character is not stored: ungetc is fseek(f, -1, SEEK_CUR).
ungetc == SeekCur(-1) \/ SeekFails

Tell(position) ==
    /\ \/ err' = SUCCESS /\ told' = position /\ at' = pos
       \/ Fails /\ told' = EOF /\ UNCHANGED at
    /\ Returns("ftell", told', pos)
    /\ UNCHANGED <<end, pos>>

ftelli64 == Tell(pos)
ftell == Tell(Long(pos))

\* The caller goes back to a position it was given: SEEK_SET to told, with the
\* seek of the same width.
SeekBack == told >= 0 /\ Seek(told, at)

\* feof and a seek from the end ask for EndOfFile first.
AskEnd(name, offset) ==
    /\ asked = Nothing
    /\ err' = SUCCESS
    /\ asked' = [op |-> name, end |-> end, offset |-> offset]
    /\ UNCHANGED <<end, pos, told, at, last>>

SeekEnd ==
    /\ asked.op = "seek" /\ asked' = Nothing
    /\ Seek(asked.end + asked.offset, asked.end + asked.offset)

\* Mutant: the end is reached only behind it.
feofBehind ==
    /\ asked.op = "feof" /\ asked' = Nothing
    /\ err' = SUCCESS /\ Returns("feof", IF pos > asked.end THEN 1 ELSE 0, pos)
    /\ UNCHANGED <<end, pos, told, at>>

feof ==
    /\ asked.op = "feof" /\ asked' = Nothing
    /\ \/ err' = SUCCESS /\ Returns("feof", IF pos + 1 >= asked.end THEN 1 ELSE 0, pos)
       \/ Fails /\ Returns("feof", 1, pos)
    /\ UNCHANGED <<end, pos, told, at>>

feofFails == Fails /\ Returns("feof", 1, pos) /\ UNCHANGED <<end, pos, told, at>>

ferror ==
    Returns("ferror", IF err = SUCCESS THEN 0 ELSE 1, pos) /\ UNCHANGED <<end, pos, err, told, at>>

clearerr ==
    err' = SUCCESS /\ Returns("clearerr", 0, pos) /\ UNCHANGED <<end, pos, told, at>>

\* Another writer extends the file.
Extend == end < MaxEnd /\ end' = end + 1 /\ UNCHANGED <<pos, err, asked, told, at, last>>

Call ==
    \/ fgetc \/ ungetc \/ ftell \/ ftelli64 \/ SeekBack \/ feofFails \/ ferror \/ clearerr
    \/ \E size, count \in Count : fread(size, count) \/ fwrite(size, count)
    \/ \E n \in Count \cup {-1} : kfprintf(n)
    \/ \E offset \in Offset : fseek(offset)

Next ==
    \/ asked = Nothing /\ Call /\ UNCHANGED asked
    \/ AskEnd("feof", 0) \/ \E offset \in Offset : AskEnd("seek", offset)
    \/ feof \/ SeekEnd \/ Extend

Spec == Init /\ [][Next]_vars

-----------------------------------------------------------------------------
(* Properties *)

Calls == {"fopen", "fgetc", "fread", "fwrite", "kfprintf", "seek", "ftell", "feof", "ferror",
          "clearerr"}

TypeOK ==
    /\ end \in 0..MaxEnd /\ pos \in 0..MaxEnd
    /\ err \in {SUCCESS, "end_of_file", "error"}
    /\ asked \in [op : {"none", "feof", "seek"}, end : 0..MaxEnd, offset : Int]
    /\ told \in Int /\ at \in 0..MaxEnd
    /\ last \in [op : Calls, ret : Int, from : 0..MaxEnd, want : Int]

\* A seek that returns 0 is where C says it should be, for SEEK_CUR, ungetc and
\* a return to a position of ftell as well, as long as the positions involved
\* are below 4 GiB; one that fails has not moved.
SeekLands ==
    last.op = "seek" =>
        /\ last.ret = 0 /\ last.from < Word /\ at < Word => pos = last.want
        /\ last.ret # 0 => pos = last.from

\* If feof returns 0 the next fgetc does not run into the end of the file, even
\* if the file has grown since feof asked for its end.
NotEofMeansMore ==
    [][last.op = "feof" /\ last.ret = 0 /\ fgetc => err' # "end_of_file"]_vars
=============================================================================
