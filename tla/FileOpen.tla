------------------------------ MODULE FileOpen ------------------------------
(***************************************************************************)
(* fopen, fopen2, fopenSafe, fclose and remove2 of kcrt/kcrtfs.c, run by   *)
(* several threads at once: every way out of these functions, and what     *)
(* each of them leaves allocated, open and on the disk.                    *)
(*                                                                         *)
(* The file system is external: a request that the share access or the     *)
(* disposition forbids fails, any other one may fail.  A FILE and its      *)
(* FILE_CONTROL_BLOCK are named by the kernel handle they carry.  A mode   *)
(* string outside the table and a failed allocation of the path buffer     *)
(* return NULL before anything happened: stuttering steps.                 *)
(***************************************************************************)
EXTENDS Naturals, FiniteSets, Functions

CONSTANTS Thread, Name, Handle, NoHandle

ASSUME HandleAssumption == NoHandle \notin Handle
ASSUME ThreadAssumption == IsFiniteSet(Thread)

\* The mode table (r/rb, w/wb, rw/rwb, a+/a+b/ab+): the data access asked for
\* and the create disposition.
Modes == {"r", "w", "rw", "a+"}
AccessMask(mode) ==
    CASE mode = "r" -> {"read"} [] mode = "w" -> {"write"} [] OTHER -> {"read", "write"}
CreateDisposition(mode) ==
    CASE mode = "r" -> "OPEN" [] mode = "w" -> "SUPERSEDE" [] OTHER -> "OPEN_IF"
\* Mutants: an open file may be written, or deleted, by others.
ShareWrite == {"read", "write"}
ShareDelete == {"read", "delete"}

ShareAccess == {"read"}

VARIABLES
    file,      \* per name: "absent", "empty" or "data"
    readonly,  \* per name: FILE_ATTRIBUTE_READONLY
    handles,   \* open kernel handles: handle |-> what it was opened for
    streams,   \* handles of the FILEs the callers have
    paths,     \* path buffers in the pool
    names,     \* UNICODE_STRING buffers in the pool
    call,      \* per thread: the call under way
    crashed    \* a NULL FILE or FILE_CONTROL_BLOCK was written through

vars == <<file, readonly, handles, streams, paths, names, call, crashed>>

NoCall == [pc |-> "idle", op |-> "none", name |-> "none", mode |-> "none", hFile |-> NoHandle]

Init ==
    /\ file \in [Name -> {"absent", "empty", "data"}]
    /\ readonly \in [Name -> BOOLEAN]
    /\ handles = <<>> /\ streams = {}
    /\ paths = 0 /\ names = 0
    /\ call = [t \in Thread |-> NoCall]
    /\ crashed = FALSE

At(t, pc) == call[t].pc = pc /\ ~crashed
Goto(t, pc) == call' = [call EXCEPT ![t].pc = pc]
Return(t) == call' = [call EXCEPT ![t] = NoCall]

-----------------------------------------------------------------------------
(* The file system *)

OpenHandle(h, n, access, by) ==
    handles' = [g \in DOMAIN handles \cup {h} |->
                   IF g = h THEN [name |-> n, access |-> access, by |-> by] ELSE handles[g]]
CloseHandle(h) == handles' = Restrict(handles, DOMAIN handles \ {h})
FreeHandle == Handle \ DOMAIN handles

\* IoCheckShareAccess.  Handles opened for attributes only, and those opened
\* with IO_IGNORE_SHARE_ACCESS_CHECK, do not take part in it.
ShareAllows(n, access, share) ==
    \A h \in DOMAIN handles :
        handles[h].name = n /\ handles[h].by = "fopen" =>
            access \subseteq ShareAccess /\ handles[h].access \subseteq share

\* What a create request of this mode does to the file, when it is granted.
Grants(n, mode) ==
    /\ CreateDisposition(mode) = "OPEN" => file[n] # "absent"
    /\ file[n] # "absent" /\ readonly[n] => "write" \notin AccessMask(mode)

Created(n, mode) ==
    /\ file' = [file EXCEPT ![n] = IF CreateDisposition(mode) = "SUPERSEDE" \/ @ = "absent"
                                   THEN "empty" ELSE @]
    /\ readonly' = [readonly EXCEPT ![n] = @ /\ file[n] # "absent"]

-----------------------------------------------------------------------------
(* Start of a call: the path buffer, path_sanitize, and the unicode name *)

Begin(t, op, n, mode) ==
    /\ At(t, "idle")
    /\ paths' = paths + 1
    /\ call' = [call EXCEPT ![t] = [pc |-> "sanitize", op |-> op, name |-> n,
                                    mode |-> mode, hFile |-> NoHandle]]
    /\ UNCHANGED <<file, readonly, handles, streams, names, crashed>>

Fopen2(t, n, mode) == Begin(t, "fopen2", n, mode)
FopenSafe(t, n, mode) == Begin(t, "fopenSafe", n, mode)
Remove2(t, n) == Begin(t, "remove2", n, "none")

\* Mutants: the path is not freed; the name that was never made is freed too.
NameFailsLeaks(t) ==
    /\ At(t, "sanitize")
    /\ Return(t)
    /\ UNCHANGED <<file, readonly, handles, streams, paths, names, crashed>>

NameFailsFreesBoth(t) ==
    /\ At(t, "sanitize")
    /\ paths' = paths - 1 /\ names' = names - 1
    /\ Return(t)
    /\ UNCHANGED <<file, readonly, handles, streams, crashed>>

\* path_sanitize or RtlAnsiStringToUnicodeString fails: the path is freed.
NameFails(t) ==
    /\ At(t, "sanitize")
    /\ paths' = paths - 1
    /\ Return(t)
    /\ UNCHANGED <<file, readonly, handles, streams, names, crashed>>

NameReady(t) ==
    /\ At(t, "sanitize")
    /\ names' = names + 1
    /\ Goto(t, CASE call[t].op = "fopen2" -> "create"
                 [] call[t].op = "fopenSafe" -> "volume"
                 [] OTHER -> "remove_open")
    /\ UNCHANGED <<file, readonly, handles, streams, paths, crashed>>

\* The path buffer and the unicode buffer are freed on every later way out.
FreeNames == paths' = paths - 1 /\ names' = names - 1

-----------------------------------------------------------------------------
(* GetBaseDevByPath (fopenSafe): the volume is opened, and closed again on  *)
(* every way out.                                                           *)

OpenVolume(t) ==
    /\ At(t, "volume")
    /\ \/ \E h \in FreeHandle :
             /\ OpenHandle(h, call[t].name, {}, "volume")
             /\ call' = [call EXCEPT ![t].pc = "volume_close", ![t].hFile = h]
       \/ Goto(t, "create") /\ UNCHANGED handles
    /\ UNCHANGED <<file, readonly, streams, paths, names, crashed>>

\* Mutant: when the volume's object cannot be referenced its handle stays open.
CloseVolumeOnSuccess(t) ==
    /\ At(t, "volume_close")
    /\ \/ /\ CloseHandle(call[t].hFile)
          /\ call' = [call EXCEPT ![t].pc = "create_hint", ![t].hFile = NoHandle]
       \/ /\ call' = [call EXCEPT ![t].pc = "create", ![t].hFile = NoHandle]
          /\ UNCHANGED handles
    /\ UNCHANGED <<file, readonly, streams, paths, names, crashed>>

CloseVolume(t) ==
    /\ At(t, "volume_close")
    /\ CloseHandle(call[t].hFile)
    /\ \E next \in {"create_hint", "create"} :
          call' = [call EXCEPT ![t].pc = next, ![t].hFile = NoHandle]
    /\ UNCHANGED <<file, readonly, streams, paths, names, crashed>>

-----------------------------------------------------------------------------
(* Opening the file *)

\* The handle of a granted request, or the way on when it is refused.
Create(t, by, refused) ==
    /\ \/ /\ Grants(call[t].name, call[t].mode)
          /\ by = "fopen" => ShareAllows(call[t].name, AccessMask(call[t].mode), ShareAccess)
          /\ Created(call[t].name, call[t].mode)
          /\ \E h \in FreeHandle :
                /\ OpenHandle(h, call[t].name, AccessMask(call[t].mode), by)
                /\ call' = [call EXCEPT ![t].pc = "release", ![t].hFile = h]
       \/ Goto(t, refused) /\ UNCHANGED <<file, readonly, handles>>
    /\ UNCHANGED <<streams, paths, names, crashed>>

\* IoCreateFileSpecifyDeviceObjectHint; fopenSafe falls back on ZwCreateFile.
CreateHint(t) == At(t, "create_hint") /\ Create(t, "hint", "create")

ZwCreateFile(t) == At(t, "create") /\ Create(t, "fopen", "release")

ReleaseNames(t) ==
    /\ At(t, "release")
    /\ FreeNames
    /\ IF call[t].hFile = NoHandle THEN Return(t) ELSE Goto(t, "file")
    /\ UNCHANGED <<file, readonly, handles, streams, crashed>>

\* FILE and FILE_CONTROL_BLOCK; the results of both allocations are written
\* through without a test.
MakeFile(t) ==
    /\ At(t, "file")
    /\ \/ streams' = streams \cup {call[t].hFile} /\ Return(t) /\ UNCHANGED crashed
       \/ crashed' = TRUE /\ UNCHANGED <<streams, call>>
    /\ UNCHANGED <<file, readonly, handles, paths, names>>

Fclose(t, h) ==
    /\ At(t, "idle")
    /\ h \in streams
    /\ CloseHandle(h)
    /\ streams' = streams \ {h}
    /\ UNCHANGED <<file, readonly, paths, names, call, crashed>>

\* A caller's fwrite on a stream opened for writing.
Fwrite(t, h) ==
    /\ At(t, "idle")
    /\ h \in streams /\ "write" \in handles[h].access
    /\ file[handles[h].name] # "absent"
    /\ file' = [file EXCEPT ![handles[h].name] = "data"]
    /\ UNCHANGED <<readonly, handles, streams, paths, names, call, crashed>>

-----------------------------------------------------------------------------
(* remove2: make the file writable, close it, delete it *)

RemoveOpen(t) ==
    /\ At(t, "remove_open")
    /\ \/ /\ file[call[t].name] # "absent"
          /\ \E h \in FreeHandle :
                /\ OpenHandle(h, call[t].name, {}, "remove2")
                /\ call' = [call EXCEPT ![t].pc = "remove_set", ![t].hFile = h]
       \/ Goto(t, "remove_end") /\ UNCHANGED handles
    /\ UNCHANGED <<file, readonly, streams, paths, names, crashed>>

\* ZwQueryInformationFile and ZwSetInformationFile; either failure goes to _end.
RemoveSetAttributes(t) ==
    /\ At(t, "remove_set")
    /\ \/ readonly' = [readonly EXCEPT ![call[t].name] = FALSE] /\ Goto(t, "remove_close")
       \/ Goto(t, "remove_end") /\ UNCHANGED readonly
    /\ UNCHANGED <<file, handles, streams, paths, names, crashed>>

RemoveClose(t) ==
    /\ At(t, "remove_close")
    /\ CloseHandle(call[t].hFile)
    /\ call' = [call EXCEPT ![t].pc = "remove_delete", ![t].hFile = NoHandle]
    /\ UNCHANGED <<file, readonly, streams, paths, names, crashed>>

\* ZwDeleteFile asks for delete access, which no FILE shares.
RemoveDelete(t) ==
    /\ At(t, "remove_delete")
    /\ \/ /\ file[call[t].name] # "absent" /\ ~readonly[call[t].name]
          /\ ShareAllows(call[t].name, {"delete"}, {"read", "write", "delete"})
          /\ file' = [file EXCEPT ![call[t].name] = "absent"]
       \/ UNCHANGED file
    /\ Goto(t, "remove_end")
    /\ UNCHANGED <<readonly, handles, streams, paths, names, crashed>>

RemoveEnd(t) ==
    /\ At(t, "remove_end")
    /\ FreeNames
    /\ Return(t)
    /\ UNCHANGED <<file, readonly, handles, streams, crashed>>

-----------------------------------------------------------------------------

Step(t) ==
    \/ NameFails(t) \/ NameReady(t) \/ OpenVolume(t) \/ CloseVolume(t)
    \/ CreateHint(t) \/ ZwCreateFile(t) \/ ReleaseNames(t) \/ MakeFile(t)
    \/ RemoveOpen(t) \/ RemoveSetAttributes(t) \/ RemoveClose(t)
    \/ RemoveDelete(t) \/ RemoveEnd(t)

User(t) ==
    \/ \E n \in Name, mode \in Modes : Fopen2(t, n, mode) \/ FopenSafe(t, n, mode)
    \/ \E n \in Name : Remove2(t, n)
    \/ \E h \in streams : Fclose(t, h) \/ Fwrite(t, h)

Next == \E t \in Thread : Step(t) \/ User(t)

Spec == Init /\ [][Next]_vars

-----------------------------------------------------------------------------
(* Properties *)

Opening == {"volume", "volume_close", "create_hint", "create", "release", "file"}
Removing == {"remove_open", "remove_set", "remove_close", "remove_delete", "remove_end"}

TypeOK ==
    /\ file \in [Name -> {"absent", "empty", "data"}]
    /\ readonly \in [Name -> BOOLEAN]
    /\ DOMAIN handles \subseteq Handle
    /\ \A h \in DOMAIN handles :
          handles[h] \in [name : Name, access : SUBSET {"read", "write"},
                          by : {"fopen", "hint", "volume", "remove2"}]
    /\ streams \subseteq Handle
    /\ paths \in Nat /\ names \in Nat
    /\ call \in [Thread -> [pc : {"idle", "sanitize"} \cup Opening \cup Removing,
                            op : {"fopen2", "fopenSafe", "remove2", "none"},
                            name : Name \cup {"none"}, mode : Modes \cup {"none"},
                            hFile : Handle \cup {NoHandle}]]
    /\ crashed \in BOOLEAN

\* Every way out of fopen2, fopenSafe and remove2 has freed the path buffer and
\* the unicode name exactly once: the buffers in the pool are those of the calls
\* under way.
BuffersAccounted ==
    /\ paths = Cardinality({t \in Thread : call[t].pc \notin {"idle", "file"}})
    /\ names = Cardinality({t \in Thread : call[t].pc \notin {"idle", "sanitize", "file"}})

\* A handle opened by fopen2, fopenSafe or GetBaseDevByPath is the handle of one
\* FILE or of one call under way; none is lost, and no FILE has a closed handle.
HandlesAccounted ==
    LET held == {call[t].hFile : t \in Thread} \ {NoHandle} IN
    /\ streams \subseteq DOMAIN handles
    /\ streams \cap {h \in held : handles[h].by # "remove2"} = {}
    /\ \A h \in DOMAIN handles : handles[h].by # "remove2" => h \in streams \cup held
    /\ \A t, u \in Thread :
          call[t].hFile # NoHandle /\ call[t].hFile = call[u].hFile => t = u

Checked(n) == {h \in DOMAIN handles : handles[h].name = n /\ handles[h].by = "fopen"}

\* While a FILE opened through ZwCreateFile may write, no other FILE opened that
\* way is open on the file: nobody reads what is half written.  (fopenSafe's
\* first attempt ignores sharing on purpose.)
WriterAlone ==
    \A n \in Name : \A h, g \in Checked(n) : "write" \in handles[h].access => h = g

\* remove2 does not take a file away under a FILE opened through ZwCreateFile.
OpenFileExists == \A n \in Name : Checked(n) # {} => file[n] # "absent"

\* "When deleting, the handle must be closed" (kcrtfs.c:648): a handle remove2
\* opened does not outlive the call.
RemoveClosesHandle ==
    \A h \in DOMAIN handles :
        handles[h].by = "remove2" => \E t \in Thread : call[t].hFile = h
=============================================================================
