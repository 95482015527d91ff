-------------------------- MODULE FileOpenProofs --------------------------
(***************************************************************************)
(* Proofs about FileOpen, for any threads, files and handles: what every   *)
(* way out of the file functions leaves in the pool and open, and that the *)
(* share access keeps a writer alone and an open file on the disk.         *)
(***************************************************************************)
EXTENDS FileOpen, FiniteSetTheorems, TLAPS

USE HandleAssumption

-----------------------------------------------------------------------------
(* The inductive invariant *)

Access == SUBSET {"read", "write"}
HandleRec == [name : Name, access : Access, by : {"fopen", "hint", "volume", "remove2"}]
CallRec == [pc : {"idle", "sanitize"} \cup Opening \cup Removing,
            op : {"fopen2", "fopenSafe", "remove2", "none"},
            name : Name \cup {"none"}, mode : Modes \cup {"none"}, hFile : Handle \cup {NoHandle}]

\* TypeOK without the two counters, which are natural only because they are counts.
Shape ==
    /\ file \in [Name -> {"absent", "empty", "data"}]
    /\ readonly \in [Name -> BOOLEAN]
    /\ DOMAIN handles \subseteq Handle
    /\ \A h \in DOMAIN handles : handles[h] \in HandleRec
    /\ streams \subseteq Handle
    /\ call \in [Thread -> CallRec]
    /\ crashed \in BOOLEAN

\* At which places a call has a handle.
CallPlace(t) ==
    /\ call[t].pc \in {"volume_close", "file", "remove_set", "remove_close"} => call[t].hFile # NoHandle
    /\ call[t].pc \in {"idle", "sanitize", "volume", "create_hint", "create", "remove_open",
                       "remove_delete"} => call[t].hFile = NoHandle
    /\ call[t].pc # "idle" => call[t].name \in Name
    /\ call[t].op \in {"fopen2", "fopenSafe"} => call[t].mode \in Modes
    /\ call[t].pc \in Opening => call[t].op \in {"fopen2", "fopenSafe"}

\* What the handle of a call was opened for.
CallHandle(t) == call[t].hFile # NoHandle =>
    /\ call[t].hFile \in DOMAIN handles /\ call[t].hFile \notin streams
    /\ call[t].pc \in {"release", "file"} => handles[call[t].hFile].by \in {"fopen", "hint"}
    /\ call[t].pc = "volume_close" => handles[call[t].hFile].by = "volume"
    /\ call[t].pc \in Removing => handles[call[t].hFile].by = "remove2"

\* Who has the handles: no two calls the same one, and none of the streams.
Owned ==
    /\ streams \subseteq DOMAIN handles
    /\ \A h \in DOMAIN handles :
          handles[h].by # "remove2" => h \in streams \/ \E t \in Thread : call[t].hFile = h
    /\ \A t, u \in Thread : call[t].hFile # NoHandle /\ call[t].hFile = call[u].hFile => t = u

HInv == Shape /\ (\A t \in Thread : CallPlace(t) /\ CallHandle(t)) /\ Owned

LEMMA InitHInv == Init => HInv
<1> SUFFICES ASSUME Init PROVE HInv
  OBVIOUS
<1> USE DEF Init, NoCall
<1>1. Shape
  <2>1. DOMAIN handles = {}  OBVIOUS
  <2>2. call \in [Thread -> CallRec]  BY DEF CallRec
  <2>3. streams \subseteq Handle /\ crashed \in BOOLEAN  OBVIOUS
  <2>4. DOMAIN handles \subseteq Handle /\ \A h \in DOMAIN handles : handles[h] \in HandleRec
    BY <2>1
  <2> QED  BY <2>2, <2>3, <2>4 DEF Shape
<1>2. \A t \in Thread : CallPlace(t) /\ CallHandle(t)  BY DEF CallPlace, CallHandle, Opening
<1>3. Owned  BY DEF Owned
<1> QED  BY <1>1, <1>2, <1>3 DEF HInv

-----------------------------------------------------------------------------
(* The table of handles *)

LEMMA Opened ==
    ASSUME NEW h, NEW n, NEW access, NEW by, h \notin DOMAIN handles,
           OpenHandle(h, n, access, by)
    PROVE  /\ DOMAIN handles' = DOMAIN handles \cup {h}
           /\ handles'[h] = [name |-> n, access |-> access, by |-> by]
           /\ \A g \in DOMAIN handles : handles'[g] = handles[g]
BY DEF OpenHandle

LEMMA Closed ==
    ASSUME NEW h, CloseHandle(h)
    PROVE  /\ DOMAIN handles' = DOMAIN handles \ {h}
           /\ \A g \in DOMAIN handles \ {h} : handles'[g] = handles[g]
BY DEF CloseHandle, Restrict

-----------------------------------------------------------------------------
(* Every step keeps the invariant *)

\* It is enough to look at the thread that moves and at what it does to the handles of
\* the others.
LEMMA OneThread ==
    ASSUME NEW t \in Thread, HInv, Shape', Owned',
           \A u \in Thread \ {t} : call'[u] = call[u],
           CallPlace(t)', CallHandle(t)',
           \A u \in Thread \ {t} : call[u].hFile # NoHandle =>
               /\ call[u].hFile \in DOMAIN handles' /\ call[u].hFile \notin streams'
               /\ handles'[call[u].hFile] = handles[call[u].hFile]
    PROVE  HInv'
BY DEF HInv, CallPlace, CallHandle

\* Steps that neither open nor close.
QuietSteps(t) ==
    \/ \E n \in Name, mode \in Modes : Fopen2(t, n, mode) \/ FopenSafe(t, n, mode)
    \/ \E n \in Name : Remove2(t, n)
    \/ NameFails(t) \/ NameReady(t) \/ ReleaseNames(t)
    \/ RemoveSetAttributes(t) \/ RemoveDelete(t) \/ RemoveEnd(t)

LEMMA QuietHInv ==
    ASSUME NEW t \in Thread, HInv, QuietSteps(t)
    PROVE  HInv'
<1> USE DEF At, Goto, Return, NoCall
<1>1. UNCHANGED <<handles, streams>> /\ \A u \in Thread \ {t} : call'[u] = call[u]
  BY DEF QuietSteps, Fopen2, FopenSafe, Remove2, Begin, NameFails, NameReady, ReleaseNames,
         RemoveSetAttributes, RemoveDelete, RemoveEnd, HInv, Shape
<1>2. /\ file' \in [Name -> {"absent", "empty", "data"}] /\ readonly' \in [Name -> BOOLEAN]
      /\ crashed' \in BOOLEAN
  BY DEF QuietSteps, Fopen2, FopenSafe, Remove2, Begin, NameFails, NameReady, ReleaseNames,
         RemoveSetAttributes, RemoveDelete, RemoveEnd, HInv, Shape
<1>3. call' \in [Thread -> CallRec]
  <2> USE DEF HInv, Shape, CallRec, Opening, Removing
  <2>1. \A n \in Name, mode \in Modes :
           Fopen2(t, n, mode) \/ FopenSafe(t, n, mode) => call' \in [Thread -> CallRec]
    BY DEF Fopen2, FopenSafe, Begin
  <2>2. \A n \in Name : Remove2(t, n) => call' \in [Thread -> CallRec]
    BY DEF Remove2, Begin
  <2>3. CASE NameFails(t)  BY <2>3 DEF NameFails
  <2>4. CASE NameReady(t)  BY <2>4 DEF NameReady
  <2>5. CASE ReleaseNames(t)  BY <2>5 DEF ReleaseNames
  <2>6. CASE RemoveSetAttributes(t)  BY <2>6 DEF RemoveSetAttributes
  <2>7. CASE RemoveDelete(t)  BY <2>7 DEF RemoveDelete
  <2>8. CASE RemoveEnd(t)  BY <2>8 DEF RemoveEnd
  <2> QED  BY <2>1, <2>2, <2>3, <2>4, <2>5, <2>6, <2>7, <2>8 DEF QuietSteps
<1>4. CallPlace(t)'
  BY DEF QuietSteps, Fopen2, FopenSafe, Remove2, Begin, NameFails, NameReady, ReleaseNames,
         RemoveSetAttributes, RemoveDelete, RemoveEnd, HInv, Shape, CallRec, CallPlace, Modes,
         Opening, Removing
<1>5. call'[t].hFile = call[t].hFile \/ call'[t].hFile = NoHandle
  BY DEF QuietSteps, Fopen2, FopenSafe, Remove2, Begin, NameFails, NameReady, ReleaseNames,
         RemoveSetAttributes, RemoveDelete, RemoveEnd, HInv, Shape, CallRec
<1>6. call[t].hFile # NoHandle /\ call'[t].hFile # call[t].hFile => call[t].pc = "remove_end"
  BY DEF QuietSteps, Fopen2, FopenSafe, Remove2, Begin, NameFails, NameReady, ReleaseNames,
         RemoveSetAttributes, RemoveDelete, RemoveEnd, HInv, Shape, CallRec, CallPlace
<1>7. call'[t].hFile # NoHandle =>
          \/ call[t].pc = "release" /\ call'[t].pc = "file"
          \/ call[t].pc \in Removing /\ call'[t].pc \in Removing
  BY DEF QuietSteps, Fopen2, FopenSafe, Remove2, Begin, NameFails, NameReady, ReleaseNames,
         RemoveSetAttributes, RemoveDelete, RemoveEnd, HInv, Shape, CallRec, CallPlace, Removing
<1>8. CallHandle(t)'
  BY <1>1, <1>5, <1>7 DEF HInv, CallHandle, Removing
<1>9. Owned'
  <2>1. CallHandle(t) /\ Owned  BY DEF HInv
  <2>2. \A h \in DOMAIN handles : handles[h].by # "remove2" /\ call[t].hFile = h => call'[t].hFile = h
    BY <1>6, <2>1 DEF CallHandle, Removing, HInv, Shape
  <2> QED  BY <1>1, <1>5, <2>1, <2>2 DEF Owned
<1>10. Shape'  BY <1>1, <1>2, <1>3 DEF HInv, Shape
<1>11. \A u \in Thread \ {t} : call[u].hFile # NoHandle =>
          call[u].hFile \in DOMAIN handles /\ call[u].hFile \notin streams
  BY DEF HInv, CallHandle
<1> QED  BY <1>1, <1>4, <1>8, <1>9, <1>10, <1>11, OneThread

\* A call gets a handle that nobody has.
LEMMA OpenHInv ==
    ASSUME NEW t \in Thread, HInv, NEW h \in FreeHandle, NEW access \in Access,
           NEW by \in {"fopen", "hint", "volume", "remove2"},
           NEW pc \in {"volume_close", "release", "remove_set"},
           call[t].hFile = NoHandle, call[t].name \in Name,
           pc = "volume_close" => by = "volume" /\ call[t].op \in {"fopen2", "fopenSafe"},
           pc = "release" => by \in {"fopen", "hint"} /\ call[t].op \in {"fopen2", "fopenSafe"},
           pc = "remove_set" => by = "remove2",
           OpenHandle(h, call[t].name, access, by),
           call' = [call EXCEPT ![t].pc = pc, ![t].hFile = h],
           file' \in [Name -> {"absent", "empty", "data"}], readonly' \in [Name -> BOOLEAN],
           UNCHANGED <<streams, crashed>>
    PROVE  HInv'
<1>1. h \in Handle /\ h \notin DOMAIN handles /\ h # NoHandle  BY DEF FreeHandle
<1>2. /\ DOMAIN handles' = DOMAIN handles \cup {h}
      /\ handles'[h] = [name |-> call[t].name, access |-> access, by |-> by]
      /\ \A g \in DOMAIN handles : handles'[g] = handles[g]
  BY <1>1, Opened
<1>3. /\ \A u \in Thread \ {t} : call'[u] = call[u]
      /\ call'[t] = [call[t] EXCEPT !.pc = pc, !.hFile = h] /\ call[t] \in CallRec
  BY DEF HInv, Shape
<1>4. call'[t].pc = pc /\ call'[t].hFile = h /\ call'[t].op = call[t].op
      /\ call'[t].name = call[t].name /\ call'[t].mode = call[t].mode
  <2>1. {"pc", "hFile", "op", "name", "mode"} \subseteq DOMAIN call[t]  BY <1>3 DEF CallRec
  <2> QED  BY <1>3, <2>1, ZenonT(60)
<1>5. Shape'
  <2>1. call' \in [Thread -> CallRec]
    BY <1>1 DEF HInv, Shape, CallRec, Opening, Removing
  <2>2. \A g \in DOMAIN handles' : handles'[g] \in HandleRec
    BY <1>2 DEF HInv, Shape, HandleRec
  <2> QED  BY <1>1, <1>2, <2>1, <2>2 DEF HInv, Shape
<1>6. CallPlace(t)'  BY <1>1, <1>4 DEF HInv, CallPlace, Opening
<1>7. CallHandle(t)'  BY <1>1, <1>2, <1>4 DEF HInv, Owned, CallHandle, Removing
<1>8. \A u \in Thread : call[u].hFile # NoHandle => call[u].hFile \in DOMAIN handles /\ call[u].hFile \notin streams
  BY DEF HInv, CallHandle
<1>9. Owned'
  <2>1. \A g \in DOMAIN handles' : handles'[g].by # "remove2" =>
            g \in streams \/ \E u \in Thread : call'[u].hFile = g
    <3> SUFFICES ASSUME NEW g \in DOMAIN handles', handles'[g].by # "remove2", g \notin streams
                 PROVE  \E u \in Thread : call'[u].hFile = g
      OBVIOUS
    <3>1. CASE g = h  BY <3>1, <1>4
    <3>2. CASE g # h
      <4>1. g \in DOMAIN handles /\ handles[g].by # "remove2" /\ g # NoHandle
        BY <3>2, <1>2 DEF HInv, Shape
      <4>2. PICK u \in Thread : call[u].hFile = g  BY <4>1 DEF HInv, Owned
      <4>3. u # t  BY <4>1, <4>2
      <4> QED  BY <4>2, <4>3, <1>3
    <3> QED  BY <3>1, <3>2
  <2>2. \A u \in Thread : call[u].hFile # h  BY <1>1, <1>8
  <2>3. \A u, v \in Thread : call'[u].hFile # NoHandle /\ call'[u].hFile = call'[v].hFile => u = v
    <3> SUFFICES ASSUME NEW u \in Thread, NEW v \in Thread, call'[u].hFile # NoHandle,
                        call'[u].hFile = call'[v].hFile
                 PROVE  u = v
      OBVIOUS
    <3>1. CASE u = t \/ v = t
      <4>1. CASE u = t  BY <4>1, <2>2, <1>3, <1>4, ZenonT(60)
      <4>2. CASE v = t  BY <4>2, <2>2, <1>3, <1>4, ZenonT(60)
      <4> QED  BY <3>1, <4>1, <4>2
    <3>2. CASE u # t /\ v # t
      <4>1. call[u].hFile # NoHandle /\ call[u].hFile = call[v].hFile  BY <3>2, <1>3
      <4> QED  BY <4>1 DEF HInv, Owned
    <3> QED  BY <3>1, <3>2
  <2>4. streams' \subseteq DOMAIN handles'
    <3>1. streams \subseteq DOMAIN handles /\ streams' = streams  BY DEF HInv, Owned
    <3> QED  BY <3>1, <1>2
  <2> QED  BY <2>1, <2>3, <2>4 DEF Owned
<1> QED  BY <1>2, <1>3, <1>5, <1>6, <1>7, <1>8, <1>9, OneThread

\* A handle that a call has is closed.
LEMMA CloseHInv ==
    ASSUME NEW t \in Thread, HInv, CloseHandle(call[t].hFile), call[t].hFile # NoHandle,
           NEW pc \in {"create_hint", "create", "remove_delete"},
           call[t].name \in Name,
           pc # "remove_delete" => call[t].op \in {"fopen2", "fopenSafe"},
           call' = [call EXCEPT ![t].pc = pc, ![t].hFile = NoHandle],
           UNCHANGED <<file, readonly, streams, crashed>>
    PROVE  HInv'
<1>1. /\ DOMAIN handles' = DOMAIN handles \ {call[t].hFile}
      /\ \A g \in DOMAIN handles \ {call[t].hFile} : handles'[g] = handles[g]
  BY Closed
<1>2. /\ \A u \in Thread \ {t} : call'[u] = call[u]
      /\ call'[t] = [call[t] EXCEPT !.pc = pc, !.hFile = NoHandle] /\ call[t] \in CallRec
  BY DEF HInv, Shape
<1>3. call'[t].pc = pc /\ call'[t].hFile = NoHandle /\ call'[t].op = call[t].op
      /\ call'[t].name = call[t].name /\ call'[t].mode = call[t].mode
  <2>1. {"pc", "hFile", "op", "name", "mode"} \subseteq DOMAIN call[t]  BY <1>2 DEF CallRec
  <2> QED  BY <1>2, <2>1, ZenonT(60)
<1>4. Shape'
  <2>1. call' \in [Thread -> CallRec]
    BY DEF HInv, Shape, CallRec, Opening, Removing
  <2> QED  BY <1>1, <2>1 DEF HInv, Shape
<1>5. CallPlace(t)' /\ CallHandle(t)'
  BY <1>3 DEF HInv, CallPlace, CallHandle, Opening
<1>6. \A u \in Thread : call[u].hFile # NoHandle =>
          /\ call[u].hFile \in DOMAIN handles /\ call[u].hFile \notin streams
          /\ u # t => call[u].hFile # call[t].hFile
  BY DEF HInv, CallHandle, Owned
<1>7. Owned'
  <2>1. \A g \in DOMAIN handles' : handles'[g].by # "remove2" =>
            g \in streams \/ \E u \in Thread : call'[u].hFile = g
    <3> SUFFICES ASSUME NEW g \in DOMAIN handles', handles'[g].by # "remove2", g \notin streams
                 PROVE  \E u \in Thread : call'[u].hFile = g
      OBVIOUS
    <3>1. g \in DOMAIN handles /\ handles[g].by # "remove2" /\ g # call[t].hFile  BY <1>1
    <3>2. PICK u \in Thread : call[u].hFile = g  BY <3>1 DEF HInv, Owned
    <3> QED  BY <3>1, <3>2, <1>2
  <2>2. streams' \subseteq DOMAIN handles'
    <3>1. streams \subseteq DOMAIN handles /\ call[t].hFile \notin streams /\ streams' = streams
      BY <1>6 DEF HInv, Owned
    <3> QED  BY <3>1, <1>1
  <2>3. \A u, v \in Thread : call'[u].hFile # NoHandle /\ call'[u].hFile = call'[v].hFile => u = v
    <3> SUFFICES ASSUME NEW u \in Thread, NEW v \in Thread, call'[u].hFile # NoHandle,
                        call'[u].hFile = call'[v].hFile
                 PROVE  u = v
      OBVIOUS
    <3>1. u # t /\ v # t  BY <1>3
    <3>2. call[u].hFile # NoHandle /\ call[u].hFile = call[v].hFile  BY <3>1, <1>2
    <3> QED  BY <3>2 DEF HInv, Owned
  <2> QED  BY <2>1, <2>2, <2>3 DEF Owned
<1> QED  BY <1>1, <1>2, <1>4, <1>5, <1>6, <1>7, OneThread

LEMMA FcloseHInv ==
    ASSUME NEW t \in Thread, HInv, NEW h \in streams, Fclose(t, h)
    PROVE  HInv'
<1>1. /\ DOMAIN handles' = DOMAIN handles \ {h}
      /\ \A g \in DOMAIN handles \ {h} : handles'[g] = handles[g]
  BY Closed DEF Fclose
<1>2. Shape'  BY <1>1 DEF HInv, Shape, Fclose
<1>3. \A u \in Thread : CallPlace(u)' /\ CallHandle(u)'
  BY <1>1 DEF HInv, CallPlace, CallHandle, Fclose
<1>4. Owned'  BY <1>1 DEF HInv, Owned, Fclose
<1> QED  BY <1>2, <1>3, <1>4 DEF HInv

LEMMA FwriteHInv ==
    ASSUME NEW t \in Thread, HInv, NEW h \in streams, Fwrite(t, h)
    PROVE  HInv'
<1>1. Shape'  BY DEF HInv, Shape, Fwrite
<1> QED  BY <1>1 DEF HInv, CallPlace, CallHandle, Owned, Fwrite

\* The handle passes from the call to a FILE.
LEMMA MakeFileHInv ==
    ASSUME NEW t \in Thread, HInv, MakeFile(t)
    PROVE  HInv'
<1>1. CASE crashed' = TRUE /\ UNCHANGED <<streams, call>>
  <2>1. Shape'  BY <1>1 DEF HInv, Shape, MakeFile
  <2> QED  BY <1>1, <2>1 DEF HInv, CallPlace, CallHandle, Owned, MakeFile
<1>2. CASE streams' = streams \cup {call[t].hFile} /\ Return(t) /\ UNCHANGED crashed
  <2>1. call[t].pc = "file" /\ call[t].hFile # NoHandle /\ call[t].hFile \in DOMAIN handles
    BY DEF MakeFile, At, HInv, CallPlace, CallHandle
  <2>2. (\A u \in Thread \ {t} : call'[u] = call[u]) /\ call'[t] = NoCall
    BY <1>2 DEF Return, HInv, Shape
  <2>3. call' \in [Thread -> CallRec]
    BY <1>2 DEF HInv, Shape, Return, NoCall, CallRec
  <2>4. Shape'  BY <1>2, <2>1, <2>3 DEF HInv, Shape, MakeFile
  <2>5. CallPlace(t)' /\ CallHandle(t)'
    BY <2>2 DEF NoCall, CallPlace, CallHandle, Opening
  <2>6. \A u \in Thread \ {t} : call[u].hFile # NoHandle =>
            call[u].hFile \in DOMAIN handles /\ call[u].hFile \notin streams'
    BY <1>2, <2>1 DEF HInv, CallHandle, Owned
  <2>7. call'[t].hFile = NoHandle  BY <2>2 DEF NoCall
  <2>8. Owned'  BY <1>2, <2>1, <2>2, <2>7 DEF HInv, Owned, MakeFile
  <2>9. handles' = handles  BY DEF MakeFile
  <2> QED  BY <2>2, <2>4, <2>5, <2>6, <2>8, <2>9, OneThread
<1> QED  BY <1>1, <1>2 DEF MakeFile

\* The three steps that open a handle, or are refused one.
LEMMA OpenSteps ==
    ASSUME NEW t \in Thread, HInv,
           OpenVolume(t) \/ CreateHint(t) \/ ZwCreateFile(t) \/ RemoveOpen(t)
    PROVE  HInv'
<1>1. call[t].hFile = NoHandle /\ call[t].name \in Name
  BY DEF OpenVolume, CreateHint, ZwCreateFile, RemoveOpen, At, HInv, CallPlace
<1>2. \A next \in {"create", "release", "remove_end"} :
          /\ Goto(t, next) /\ UNCHANGED <<file, readonly, handles, streams, crashed>>
          /\ next # "remove_end" => call[t].pc \in Opening
          => HInv'
  <2> SUFFICES ASSUME NEW next \in {"create", "release", "remove_end"}, Goto(t, next),
                      UNCHANGED <<file, readonly, handles, streams, crashed>>,
                      next # "remove_end" => call[t].pc \in Opening
               PROVE  HInv'
    OBVIOUS
  <2>1. (\A u \in Thread \ {t} : call'[u] = call[u]) /\ call[t] \in CallRec
        /\ call'[t] = [call[t] EXCEPT !.pc = next]
    BY DEF Goto, HInv, Shape
  <2>2. call'[t].pc = next /\ call'[t].hFile = NoHandle /\ call'[t].op = call[t].op
        /\ call'[t].name = call[t].name /\ call'[t].mode = call[t].mode
    <3>1. {"pc", "hFile", "op", "name", "mode"} \subseteq DOMAIN call[t]  BY <2>1 DEF CallRec
    <3> QED  BY <2>1, <3>1, <1>1
  <2>3. call' \in [Thread -> CallRec]
    BY DEF Goto, HInv, Shape, CallRec, Opening, Removing
  <2>4. Shape'  BY <2>3 DEF HInv, Shape
  <2>5. CallPlace(t)' /\ CallHandle(t)'
    BY <2>2, <1>1 DEF HInv, CallPlace, CallHandle, Opening
  <2>6. Owned'
    <3>1. \A u \in Thread : call'[u].hFile = call[u].hFile  BY <2>1, <2>2, <1>1
    <3>2. Owned  BY DEF HInv
    <3> QED  BY <3>1, <3>2 DEF Owned
  <2>7. \A u \in Thread \ {t} : call[u].hFile # NoHandle =>
            call[u].hFile \in DOMAIN handles /\ call[u].hFile \notin streams
    BY DEF HInv, CallHandle
  <2> QED  BY <2>1, <2>4, <2>5, <2>6, <2>7, OneThread
<1>3. CASE OpenVolume(t)
  <2>1. call[t].pc = "volume" /\ call[t].op \in {"fopen2", "fopenSafe"}
    BY <1>3 DEF OpenVolume, At, HInv, CallPlace, Opening
  <2>2. CASE Goto(t, "create") /\ UNCHANGED handles
    BY <2>1, <2>2, <1>2, <1>3 DEF OpenVolume, Opening
  <2>3. CASE \E h \in FreeHandle :
               /\ OpenHandle(h, call[t].name, {}, "volume")
               /\ call' = [call EXCEPT ![t].pc = "volume_close", ![t].hFile = h]
    <3>1. PICK h \in FreeHandle : /\ OpenHandle(h, call[t].name, {}, "volume")
                                  /\ call' = [call EXCEPT ![t].pc = "volume_close", ![t].hFile = h]
      BY <2>3
    <3>2. UNCHANGED <<file, readonly, streams, crashed>>  BY <1>3 DEF OpenVolume
    <3>3. {} \in Access  BY DEF Access
    <3>4. file' \in [Name -> {"absent", "empty", "data"}] /\ readonly' \in [Name -> BOOLEAN]
      BY <3>2 DEF HInv, Shape
    <3> QED  BY <1>1, <2>1, <3>1, <3>2, <3>3, <3>4, OpenHInv
  <2> QED  BY <1>3, <2>2, <2>3 DEF OpenVolume
<1>4. CASE RemoveOpen(t)
  <2>1. CASE Goto(t, "remove_end") /\ UNCHANGED handles
    BY <2>1, <1>2, <1>4 DEF RemoveOpen
  <2>2. CASE \E h \in FreeHandle :
               /\ OpenHandle(h, call[t].name, {}, "remove2")
               /\ call' = [call EXCEPT ![t].pc = "remove_set", ![t].hFile = h]
    <3>1. PICK h \in FreeHandle : /\ OpenHandle(h, call[t].name, {}, "remove2")
                                  /\ call' = [call EXCEPT ![t].pc = "remove_set", ![t].hFile = h]
      BY <2>2
    <3>2. UNCHANGED <<file, readonly, streams, crashed>>  BY <1>4 DEF RemoveOpen
    <3>3. {} \in Access  BY DEF Access
    <3>4. file' \in [Name -> {"absent", "empty", "data"}] /\ readonly' \in [Name -> BOOLEAN]
      BY <3>2 DEF HInv, Shape
    <3> QED  BY <1>1, <3>1, <3>2, <3>3, <3>4, OpenHInv
  <2> QED  BY <1>4, <2>1, <2>2 DEF RemoveOpen
<1>5. ASSUME NEW by \in {"fopen", "hint"}, NEW refused \in {"create", "release"},
             call[t].pc \in {"create", "create_hint"}, Create(t, by, refused)
      PROVE  HInv'
  <2>1. call[t].op \in {"fopen2", "fopenSafe"} /\ call[t].mode \in Modes
    BY <1>5 DEF HInv, CallPlace, Opening
  <2>2. CASE Goto(t, refused) /\ UNCHANGED <<file, readonly, handles>>
    BY <2>2, <1>2, <1>5 DEF Create, Opening
  <2>3. CASE /\ Created(call[t].name, call[t].mode)
             /\ \E h \in FreeHandle :
                  /\ OpenHandle(h, call[t].name, AccessMask(call[t].mode), by)
                  /\ call' = [call EXCEPT ![t].pc = "release", ![t].hFile = h]
    <3>1. PICK h \in FreeHandle :
             /\ OpenHandle(h, call[t].name, AccessMask(call[t].mode), by)
             /\ call' = [call EXCEPT ![t].pc = "release", ![t].hFile = h]
      BY <2>3
    <3>2. UNCHANGED <<streams, crashed>>  BY <1>5 DEF Create
    <3>3. AccessMask(call[t].mode) \in Access  BY <2>1 DEF AccessMask, Access, Modes
    <3>4. file' \in [Name -> {"absent", "empty", "data"}]
      BY <2>3, <1>1, SMTT(30) DEF Created, HInv, Shape
    <3>5. readonly' \in [Name -> BOOLEAN]
      BY <2>3, <1>1 DEF Created, HInv, Shape
    <3> QED  BY <1>1, <2>1, <3>1, <3>2, <3>3, <3>4, <3>5, OpenHInv, ZenonT(60)
  <2> QED  BY <1>5, <2>2, <2>3 DEF Create
<1>6. CASE CreateHint(t)  BY <1>5, <1>6 DEF CreateHint, At
<1>7. CASE ZwCreateFile(t)  BY <1>5, <1>7 DEF ZwCreateFile, At
<1> QED  BY <1>3, <1>4, <1>6, <1>7

LEMMA CloseSteps ==
    ASSUME NEW t \in Thread, HInv, CloseVolume(t) \/ RemoveClose(t)
    PROVE  HInv'
<1>1. call[t].hFile # NoHandle /\ call[t].name \in Name
      /\ (CloseVolume(t) => call[t].op \in {"fopen2", "fopenSafe"})
  BY DEF CloseVolume, RemoveClose, At, HInv, CallPlace, Opening
<1>2. CASE CloseVolume(t)
  <2>1. PICK next \in {"create_hint", "create"} :
           call' = [call EXCEPT ![t].pc = next, ![t].hFile = NoHandle]
    BY <1>2 DEF CloseVolume
  <2> QED  BY <1>1, <1>2, <2>1, CloseHInv DEF CloseVolume
<1>3. CASE RemoveClose(t)  BY <1>1, <1>3, CloseHInv DEF RemoveClose
<1> QED  BY <1>2, <1>3

LEMMA NextHInv == HInv /\ [Next]_vars => HInv'
<1> SUFFICES ASSUME HInv, [Next]_vars PROVE HInv'
  OBVIOUS
<1>1. CASE UNCHANGED vars
  <2>1. Shape'  BY <1>1 DEF vars, HInv, Shape
  <2> QED  BY <1>1, <2>1 DEF vars, HInv, CallPlace, CallHandle, Owned
<1>2. ASSUME NEW t \in Thread, Step(t) PROVE HInv'
  BY <1>2, QuietHInv, OpenSteps, CloseSteps, MakeFileHInv DEF Step, QuietSteps
<1>3. ASSUME NEW t \in Thread, User(t) PROVE HInv'
  BY <1>3, QuietHInv, FcloseHInv, FwriteHInv DEF User, QuietSteps
<1> QED  BY <1>1, <1>2, <1>3 DEF Next

-----------------------------------------------------------------------------
(* Sharing *)

SInv == WriterAlone /\ OpenFileExists

\* A step that leaves the files on the disk and opens no handle through ZwCreateFile.
LEMMA SharingKept ==
    ASSUME SInv, NEW D, D \subseteq DOMAIN handles, \A h \in DOMAIN handles' \ D : handles'[h].by # "fopen",
           \A h \in D : h \in DOMAIN handles' /\ handles'[h] = handles[h],
           \A n \in Name : file[n] # "absent" => file'[n] # "absent"
    PROVE  SInv'
<1>1. \A n \in Name : Checked(n)' \subseteq Checked(n) \cap D  BY DEF Checked
<1>2. WriterAlone'
  <2>1. \A n \in Name : \A h \in Checked(n)' : handles'[h] = handles[h]  BY <1>1
  <2> QED  BY <1>1, <2>1 DEF SInv, WriterAlone
<1>3. OpenFileExists'  BY <1>1 DEF SInv, OpenFileExists
<1> QED  BY <1>2, <1>3 DEF SInv

LEMMA CreateSharing ==
    ASSUME NEW t \in Thread, HInv, SInv, NEW by \in {"fopen", "hint"}, NEW refused,
           call[t].pc \in {"create", "create_hint"}, Create(t, by, refused)
    PROVE  SInv'
<1>1. CASE UNCHANGED <<file, handles>>
  BY <1>1 DEF SInv, WriterAlone, OpenFileExists, Checked
<1>2. CASE /\ by = "fopen" => ShareAllows(call[t].name, AccessMask(call[t].mode), ShareAccess)
           /\ Created(call[t].name, call[t].mode)
           /\ \E h \in FreeHandle : OpenHandle(h, call[t].name, AccessMask(call[t].mode), by)
  <2>1. PICK h \in FreeHandle : OpenHandle(h, call[t].name, AccessMask(call[t].mode), by)
    BY <1>2
  <2>2. /\ DOMAIN handles' = DOMAIN handles \cup {h} /\ h \notin DOMAIN handles
        /\ handles'[h] = [name |-> call[t].name, access |-> AccessMask(call[t].mode), by |-> by]
        /\ \A g \in DOMAIN handles : handles'[g] = handles[g]
    BY <2>1, Opened DEF FreeHandle
  <2>3. call[t].name \in Name  BY DEF HInv, CallPlace
  <2>4. /\ \A n \in Name : file[n] # "absent" => file'[n] # "absent"
        /\ file'[call[t].name] # "absent"
    BY <1>2, <2>3 DEF Created, HInv, Shape
  <2>5. CASE by = "hint"
    BY <2>2, <2>4, <2>5, SharingKept
  <2>6. CASE by = "fopen"
    <3>1. \A n \in Name : Checked(n)' \subseteq Checked(n) \cup (IF n = call[t].name THEN {h} ELSE {})
      BY <2>2 DEF Checked
    <3>2. \A g \in Checked(call[t].name) :
              AccessMask(call[t].mode) \subseteq {"read"} /\ handles[g].access \subseteq {"read"}
      BY <1>2, <2>6 DEF ShareAllows, ShareAccess, Checked
    <3>3. WriterAlone'
      <4> SUFFICES ASSUME NEW n \in Name, NEW f \in Checked(n)', NEW g \in Checked(n)',
                          "write" \in handles'[f].access
                   PROVE  f = g
        BY DEF WriterAlone
      <4>1. CASE f \in Checked(n) /\ g \in Checked(n)
        BY <4>1, <2>2 DEF SInv, WriterAlone, Checked
      <4>2. CASE f = h /\ g # h
        <5>1. h \notin Checked(n) /\ n = call[t].name /\ g \in Checked(n)
          BY <4>2, <3>1, <2>2 DEF Checked
        <5> QED  BY <5>1, <4>2, <3>2, <2>2
      <4>3. CASE g = h /\ f # h
        <5>1. n = call[t].name /\ f \in Checked(n) /\ handles'[f] = handles[f]
          BY <4>3, <3>1, <2>2 DEF Checked
        <5> QED  BY <5>1, <3>2
      <4>4. CASE f = h /\ g = h  BY <4>4
      <4> QED  BY <3>1, <4>1, <4>2, <4>3, <4>4
    <3>4. OpenFileExists'  BY <3>1, <2>4 DEF SInv, OpenFileExists
    <3> QED  BY <3>3, <3>4 DEF SInv
  <2> QED  BY <2>5, <2>6
<1> QED  BY <1>1, <1>2 DEF Create

\* ZwDeleteFile wants delete access, which ShareAccess does not give.
LEMMA DeleteSharing ==
    ASSUME NEW t \in Thread, HInv, SInv, RemoveDelete(t)
    PROVE  SInv'
<1>1. UNCHANGED handles  BY DEF RemoveDelete
<1>2. WriterAlone'  BY <1>1 DEF SInv, WriterAlone, Checked
<1>3. OpenFileExists'
  <2>1. CASE UNCHANGED file  BY <1>1, <2>1 DEF SInv, OpenFileExists, Checked
  <2>2. CASE /\ ShareAllows(call[t].name, {"delete"}, {"read", "write", "delete"})
             /\ file' = [file EXCEPT ![call[t].name] = "absent"]
    <3>1. Checked(call[t].name) = {}  BY <2>2 DEF ShareAllows, ShareAccess, Checked
    <3>2. \A n \in Name : n # call[t].name => file'[n] = file[n]  BY <2>2 DEF HInv, Shape
    <3> QED  BY <1>1, <3>1, <3>2 DEF SInv, OpenFileExists, Checked
  <2> QED  BY <2>1, <2>2 DEF RemoveDelete
<1> QED  BY <1>2, <1>3 DEF SInv

LEMMA NextSInv == HInv /\ SInv /\ [Next]_vars => SInv'
<1> SUFFICES ASSUME HInv, SInv, [Next]_vars PROVE SInv'
  OBVIOUS
<1>1. CASE UNCHANGED <<file, handles>>
  BY <1>1 DEF SInv, WriterAlone, OpenFileExists, Checked
<1>2. ASSUME NEW h, CloseHandle(h), UNCHANGED file PROVE SInv'
  <2>1. /\ DOMAIN handles' = DOMAIN handles \ {h}
        /\ \A g \in DOMAIN handles \ {h} : handles'[g] = handles[g]
    BY <1>2, Closed
  <2> DEFINE D == DOMAIN handles \ {h}
  <2>2. D \subseteq DOMAIN handles /\ (\A g \in DOMAIN handles' \ D : handles'[g].by # "fopen")
        /\ \A g \in D : g \in DOMAIN handles' /\ handles'[g] = handles[g]
    BY <2>1
  <2> HIDE DEF D
  <2> QED  BY <1>2, <2>2, SharingKept
<1>3. ASSUME NEW t \in Thread, OpenVolume(t) \/ RemoveOpen(t) PROVE SInv'
  <2>1. CASE UNCHANGED handles  BY <1>1, <1>3, <2>1 DEF OpenVolume, RemoveOpen
  <2>2. CASE \E h \in FreeHandle, by \in {"volume", "remove2"} : OpenHandle(h, call[t].name, {}, by)
    <3>1. PICK h \in FreeHandle, by \in {"volume", "remove2"} : OpenHandle(h, call[t].name, {}, by)
      BY <2>2
    <3> h \notin DOMAIN handles  BY DEF FreeHandle
    <3>2. /\ DOMAIN handles' = DOMAIN handles \cup {h}
          /\ handles'[h] = [name |-> call[t].name, access |-> {}, by |-> by]
          /\ \A g \in DOMAIN handles : handles'[g] = handles[g]
      BY <3>1, Opened
    <3>3. UNCHANGED file  BY <1>3 DEF OpenVolume, RemoveOpen
    <3> DEFINE D == DOMAIN handles
    <3>4. D \subseteq DOMAIN handles /\ (\A g \in DOMAIN handles' \ D : handles'[g].by # "fopen")
          /\ \A g \in D : g \in DOMAIN handles' /\ handles'[g] = handles[g]
      BY <3>2
    <3> HIDE DEF D
    <3> QED  BY <3>3, <3>4, SharingKept
  <2> QED  BY <1>3, <2>1, <2>2 DEF OpenVolume, RemoveOpen
<1>4. ASSUME NEW t \in Thread, NEW h \in streams, Fwrite(t, h) PROVE SInv'
  <2>1. UNCHANGED handles  BY <1>4 DEF Fwrite
  <2>2. \A n \in Name : file[n] # "absent" => file'[n] # "absent"
    BY <1>4 DEF Fwrite, HInv, Shape
  <2> QED  BY <2>1, <2>2, SharingKept
<1>5. ASSUME NEW t \in Thread, Step(t) PROVE SInv'
  <2>1. CASE CreateHint(t)  BY <2>1, CreateSharing DEF CreateHint, At
  <2>2. CASE ZwCreateFile(t)  BY <2>2, CreateSharing DEF ZwCreateFile, At
  <2>3. CASE RemoveDelete(t)  BY <2>3, DeleteSharing
  <2>4. CASE CloseVolume(t) \/ RemoveClose(t)
    BY <2>4, <1>2 DEF CloseVolume, RemoveClose
  <2>5. CASE NameFails(t) \/ NameReady(t) \/ ReleaseNames(t) \/ MakeFile(t)
             \/ RemoveSetAttributes(t) \/ RemoveEnd(t)
    BY <2>5, <1>1 DEF NameFails, NameReady, ReleaseNames, MakeFile, RemoveSetAttributes, RemoveEnd
  <2> QED  BY <1>3, <1>5, <2>1, <2>2, <2>3, <2>4, <2>5 DEF Step
<1>6. ASSUME NEW t \in Thread, User(t) PROVE SInv'
  <2>1. ASSUME NEW h \in streams, Fclose(t, h) PROVE SInv'
    BY <2>1, <1>2 DEF Fclose
  <2>2. ASSUME NEW op, NEW n, NEW mode, Begin(t, op, n, mode) PROVE SInv'
    BY <2>2, <1>1 DEF Begin
  <2> QED  BY <1>4, <1>6, <2>1, <2>2 DEF User, Fopen2, FopenSafe, Remove2
<1>7. CASE UNCHANGED vars  BY <1>1, <1>7 DEF vars
<1> QED  BY <1>5, <1>6, <1>7 DEF Next

LEMMA InitSInv == Init => SInv
<1> SUFFICES ASSUME Init PROVE SInv
  OBVIOUS
<1>1. DOMAIN handles = {}
  <2>1. handles = <<>>  BY DEF Init
  <2> QED  BY <2>1
<1>2. \A n \in Name : Checked(n) = {}  BY <1>1 DEF Checked
<1> QED  BY <1>2 DEF SInv, WriterAlone, OpenFileExists

-----------------------------------------------------------------------------
(* The two kinds of buffers: as many as there are calls that have one *)

WithPath == {t \in Thread : call[t].pc \notin {"idle", "file"}}
WithName == {t \in Thread : call[t].pc \notin {"idle", "sanitize", "file"}}
BInv == paths = Cardinality(WithPath) /\ names = Cardinality(WithName)

LEMMA Counted == /\ IsFiniteSet(WithPath) /\ Cardinality(WithPath) \in Nat
                 /\ IsFiniteSet(WithName) /\ Cardinality(WithName) \in Nat
<1>1. WithPath \subseteq Thread /\ WithName \subseteq Thread  BY DEF WithPath, WithName
<1> QED  BY <1>1, ThreadAssumption, FS_Subset, FS_CardinalityType

\* A call takes its place among the others, or gives it up.
LEMMA OneMore ==
    ASSUME NEW S, IsFiniteSet(S), NEW t, t \notin S, NEW R, R = S \cup {t}
    PROVE  Cardinality(R) = Cardinality(S) + 1
BY FS_AddElement

LEMMA OneLess ==
    ASSUME NEW S, IsFiniteSet(S), NEW t \in S, NEW R, R = S \ {t}
    PROVE  Cardinality(R) = Cardinality(S) - 1
BY FS_RemoveElement

LEMMA NextBInv == HInv /\ BInv /\ [Next]_vars => BInv'
<1> SUFFICES ASSUME HInv, BInv, [Next]_vars PROVE BInv'
  OBVIOUS
<1>1. ASSUME UNCHANGED <<paths, names, call>> PROVE BInv'
  BY <1>1 DEF BInv, WithPath, WithName
\* Between NameReady and ReleaseNames, or RemoveEnd, a call keeps both buffers.
<1>2. ASSUME NEW t \in Thread, UNCHANGED <<paths, names>>, \A u \in Thread \ {t} : call'[u] = call[u],
             call[t].pc \notin {"idle", "sanitize", "file"} <=> call'[t].pc \notin {"idle", "sanitize", "file"},
             call[t].pc \notin {"idle", "file"} <=> call'[t].pc \notin {"idle", "file"}
      PROVE  BInv'
  <2>1. WithPath' = WithPath /\ WithName' = WithName  BY <1>2 DEF WithPath, WithName
  <2> QED  BY <1>2, <2>1 DEF BInv
<1>3. ASSUME NEW t \in Thread, NEW op, NEW n, NEW mode, Begin(t, op, n, mode) PROVE BInv'
  <2>1. call[t].pc = "idle" /\ call'[t].pc = "sanitize" /\ \A u \in Thread \ {t} : call'[u] = call[u]
    BY <1>3 DEF Begin, At, HInv, Shape
  <2>2. WithPath' = WithPath \cup {t} /\ t \notin WithPath /\ WithName' = WithName
    BY <2>1 DEF WithPath, WithName
  <2>3. Cardinality(WithPath') = Cardinality(WithPath) + 1  BY <2>2, Counted, OneMore
  <2> QED  BY <1>3, <2>2, <2>3 DEF BInv, Begin
<1>4. ASSUME NEW t \in Thread, NameFails(t) PROVE BInv'
  <2>1. call[t].pc = "sanitize" /\ call'[t].pc = "idle" /\ \A u \in Thread \ {t} : call'[u] = call[u]
    BY <1>4 DEF NameFails, At, Return, NoCall, HInv, Shape
  <2>2. WithPath' = WithPath \ {t} /\ t \in WithPath /\ WithName' = WithName
    BY <2>1 DEF WithPath, WithName
  <2>3. Cardinality(WithPath') = Cardinality(WithPath) - 1  BY <2>2, Counted, OneLess
  <2> QED  BY <1>4, <2>2, <2>3 DEF BInv, NameFails
<1>5. ASSUME NEW t \in Thread, NameReady(t) PROVE BInv'
  <2>1. call[t].pc = "sanitize" /\ call'[t].pc \in {"create", "volume", "remove_open"}
        /\ \A u \in Thread \ {t} : call'[u] = call[u]
    BY <1>5 DEF NameReady, At, Goto, HInv, Shape, CallRec
  <2>2. WithName' = WithName \cup {t} /\ t \notin WithName /\ WithPath' = WithPath
    BY <2>1 DEF WithPath, WithName
  <2>3. Cardinality(WithName') = Cardinality(WithName) + 1  BY <2>2, Counted, OneMore
  <2> QED  BY <1>5, <2>2, <2>3 DEF BInv, NameReady
<1>6. ASSUME NEW t \in Thread, ReleaseNames(t) \/ RemoveEnd(t) PROVE BInv'
  <2>1. call[t].pc \in {"release", "remove_end"} /\ call'[t].pc \in {"idle", "file"}
        /\ \A u \in Thread \ {t} : call'[u] = call[u]
    BY <1>6 DEF ReleaseNames, RemoveEnd, At, Goto, Return, NoCall, HInv, Shape, CallRec
  <2>2. WithPath' = WithPath \ {t} /\ t \in WithPath /\ WithName' = WithName \ {t} /\ t \in WithName
    BY <2>1 DEF WithPath, WithName
  <2>3. Cardinality(WithPath') = Cardinality(WithPath) - 1
        /\ Cardinality(WithName') = Cardinality(WithName) - 1
    BY <2>2, Counted, OneLess
  <2> QED  BY <1>6, <2>3 DEF BInv, ReleaseNames, RemoveEnd, FreeNames
<1>7. ASSUME NEW t \in Thread,
             \/ OpenVolume(t) \/ CloseVolume(t) \/ CreateHint(t) \/ ZwCreateFile(t)
             \/ RemoveOpen(t) \/ RemoveSetAttributes(t) \/ RemoveClose(t) \/ RemoveDelete(t)
      PROVE  BInv'
  <2>1. /\ call[t].pc \in Opening \cup Removing /\ call[t].pc # "file"
        /\ call'[t].pc \in Opening \cup Removing /\ call'[t].pc # "file"
        /\ \A u \in Thread \ {t} : call'[u] = call[u]
        /\ UNCHANGED <<paths, names>>
    <3> USE DEF At, Goto, HInv, Shape, CallRec, Opening, Removing
    <3>1. CASE OpenVolume(t)  BY <3>1 DEF OpenVolume
    <3>2. CASE CloseVolume(t)  BY <3>2 DEF CloseVolume
    <3>3. CASE CreateHint(t)  BY <3>3 DEF CreateHint, Create
    <3>4. CASE ZwCreateFile(t)  BY <3>4 DEF ZwCreateFile, Create
    <3>5. CASE RemoveOpen(t)  BY <3>5 DEF RemoveOpen
    <3>6. CASE RemoveSetAttributes(t)  BY <3>6 DEF RemoveSetAttributes
    <3>7. CASE RemoveClose(t)  BY <3>7 DEF RemoveClose
    <3>8. CASE RemoveDelete(t)  BY <3>8 DEF RemoveDelete
    <3> QED  BY <1>7, <3>1, <3>2, <3>3, <3>4, <3>5, <3>6, <3>7, <3>8
  <2> QED  BY <1>2, <2>1 DEF Opening, Removing
<1>8. ASSUME NEW t \in Thread, MakeFile(t) PROVE BInv'
  <2>1. CASE UNCHANGED call  BY <1>1, <1>8, <2>1 DEF MakeFile
  <2>2. CASE Return(t)
    <3>1. call[t].pc = "file" /\ call'[t].pc = "idle" /\ \A u \in Thread \ {t} : call'[u] = call[u]
      BY <1>8, <2>2 DEF MakeFile, At, Return, NoCall, HInv, Shape
    <3> QED  BY <1>2, <1>8, <3>1 DEF MakeFile
  <2> QED  BY <1>8, <2>1, <2>2 DEF MakeFile
<1>9. ASSUME NEW t \in Thread, NEW h, Fclose(t, h) \/ Fwrite(t, h) PROVE BInv'
  BY <1>1, <1>9 DEF Fclose, Fwrite
<1>10. CASE UNCHANGED vars  BY <1>1, <1>10 DEF vars
<1> QED
  BY <1>3, <1>4, <1>5, <1>6, <1>7, <1>8, <1>9, <1>10
     DEF Next, Step, User, Fopen2, FopenSafe, Remove2

LEMMA InitBInv == Init => BInv
<1> SUFFICES ASSUME Init PROVE BInv
  OBVIOUS
<1>1. WithPath = {} /\ WithName = {}  BY DEF Init, NoCall, WithPath, WithName
<1> QED  BY <1>1, FS_EmptySet DEF Init, BInv

-----------------------------------------------------------------------------
(* The theorems *)

IInv == HInv /\ SInv /\ BInv

\* The inductive invariant, for any threads, files and handles.
THEOREM Invariant == Spec => []IInv
<1>1. Init => IInv  BY InitHInv, InitSInv, InitBInv DEF IInv
<1>2. IInv /\ [Next]_vars => IInv'  BY NextHInv, NextSInv, NextBInv DEF IInv
<1> QED  BY <1>1, <1>2, PTL DEF Spec

\* Type correctness; the counters stay natural numbers because they are counts.
THEOREM TypeCorrect == Spec => []TypeOK
<1>1. IInv => TypeOK
  BY Counted DEF IInv, HInv, Shape, BInv, TypeOK, CallRec, HandleRec, Access
<1> QED  BY <1>1, Invariant, PTL

\* Every way out of fopen2, fopenSafe and remove2 (kcrtfs.c:270-668) frees both
\* buffers once.
THEOREM BuffersFreed == Spec => []BuffersAccounted
<1>1. IInv => BuffersAccounted
  BY DEF IInv, BInv, BuffersAccounted, WithPath, WithName
<1> QED  BY <1>1, Invariant, PTL

\* No handle of fopen2, fopenSafe or GetBaseDevByPath is lost, shared, or closed under a FILE.
THEOREM HandlesOwned == Spec => []HandlesAccounted
<1>1. IInv => HandlesAccounted
  <2> SUFFICES ASSUME IInv PROVE HandlesAccounted
    OBVIOUS
  <2>1. \A t \in Thread : call[t].hFile # NoHandle => call[t].hFile \notin streams
    BY DEF IInv, HInv, CallHandle
  <2> QED  BY <2>1 DEF IInv, HInv, Shape, Owned, HandlesAccounted
<1> QED  BY <1>1, Invariant, PTL

\* ShareAccess (kcrtfs.c:471, 513) keeps every writer of an open file alone, whoever opens it when.
THEOREM OneWriter == Spec => []WriterAlone
<1>1. IInv => WriterAlone  BY DEF IInv, SInv
<1> QED  BY <1>1, Invariant, PTL

\* remove2 never deletes a file that a FILE has open, although it closes its own handle
\* before ZwDeleteFile (kcrtfs.c:648-651).
THEOREM OpenFileStays == Spec => []OpenFileExists
<1>1. IInv => OpenFileExists  BY DEF IInv, SInv
<1> QED  BY <1>1, Invariant, PTL
=============================================================================
