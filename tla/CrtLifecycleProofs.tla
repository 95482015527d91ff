------------------------- MODULE CrtLifecycleProofs -------------------------
(***************************************************************************)
(* Proofs about CrtLifecycle: type correctness, the accounting of the      *)
(* atexit entries, the soundness of doexit's unlocked test, and that the   *)
(* runtime implements AtExitStack.                                         *)
(***************************************************************************)
EXTENDS CrtLifecycle, TLAPS

-----------------------------------------------------------------------------
(* Lists without duplicates: linking and unlinking at the head *)

\* Linking an entry at the head of __onexithead.
LEMMA ConsList ==
    ASSUME NEW S, NEW s \in Seq(S), NEW e \in S
    PROVE  /\ <<e>> \o s \in Seq(S)
           /\ Range(<<e>> \o s) = {e} \cup Range(s)
           /\ IsInjective(s) /\ e \notin Range(s) => IsInjective(<<e>> \o s)
<1> DEFINE c == <<e>> \o s
<1>1. /\ c \in Seq(S) /\ Len(c) = Len(s) + 1 /\ c[1] = e
      /\ \A i \in 1..Len(s) : c[i+1] = s[i]
  OBVIOUS
<1>2. \A i \in 1..Len(c) : i = 1 \/ (i - 1 \in 1..Len(s) /\ c[i] = s[i-1])
  BY <1>1
<1>3. DOMAIN c = 1..Len(c) /\ DOMAIN s = 1..Len(s)
  BY <1>1
<1> HIDE DEF c
<1>4. Range(c) = {e} \cup Range(s)
  <2>1. ASSUME NEW x \in Range(c)  PROVE x \in {e} \cup Range(s)
    <3>1. PICK i \in 1..Len(c) : x = c[i]  BY <1>3 DEF Range
    <3> QED  BY <3>1, <1>1, <1>2, <1>3 DEF Range
  <2>2. e \in Range(c)  BY <1>1, <1>3 DEF Range
  <2>3. ASSUME NEW x \in Range(s)  PROVE x \in Range(c)
    <3>1. PICK i \in 1..Len(s) : x = s[i]  BY <1>3 DEF Range
    <3>2. i + 1 \in 1..Len(c)  BY <1>1
    <3> QED  BY <3>1, <3>2, <1>1, <1>3 DEF Range
  <2> QED  BY <2>1, <2>2, <2>3
<1>5. IsInjective(s) /\ e \notin Range(s) => IsInjective(c)
  <2> SUFFICES ASSUME IsInjective(s), e \notin Range(s),
                      NEW i \in 1..Len(c), NEW j \in 1..Len(c), c[i] = c[j]
               PROVE  i = j
    BY <1>3 DEF IsInjective
  <2>1. CASE i = 1 /\ j = 1  BY <2>1
  <2>2. CASE i = 1 /\ j # 1  BY <2>2, <1>1, <1>2, <1>3 DEF Range
  <2>3. CASE i # 1 /\ j = 1  BY <2>3, <1>1, <1>2, <1>3 DEF Range
  <2>4. CASE i # 1 /\ j # 1
    <3>1. s[i-1] = s[j-1] /\ i - 1 \in DOMAIN s /\ j - 1 \in DOMAIN s
      BY <2>4, <1>2, <1>3
    <3>2. i - 1 = j - 1  BY <3>1 DEF IsInjective
    <3> QED  BY <3>2
  <2> QED  BY <2>1, <2>2, <2>3, <2>4
<1> QED  BY <1>1, <1>4, <1>5 DEF c

\* Unlinking the head of __onexithead.
LEMMA UnconsList ==
    ASSUME NEW S, NEW s \in Seq(S), s # <<>>
    PROVE  /\ Head(s) \in S /\ Tail(s) \in Seq(S)
           /\ Range(s) = {Head(s)} \cup Range(Tail(s))
           /\ IsInjective(s) => IsInjective(Tail(s)) /\ Head(s) \notin Range(Tail(s))
<1> DEFINE t == Tail(s)
<1>1. /\ t \in Seq(S) /\ Len(t) = Len(s) - 1 /\ Len(s) \in Nat \ {0} /\ Head(s) = s[1]
      /\ \A i \in 1..Len(t) : t[i] = s[i+1]
      /\ Head(s) \in S
  OBVIOUS
<1>2. \A i \in 1..Len(s) : i = 1 \/ (i - 1 \in 1..Len(t) /\ s[i] = t[i-1])
  BY <1>1
<1>3. DOMAIN t = 1..Len(t) /\ DOMAIN s = 1..Len(s)
  BY <1>1
<1> HIDE DEF t
<1>4. \A i \in 1..Len(t) : i + 1 \in 1..Len(s) /\ i + 1 # 1
  BY <1>1
<1>5. Range(s) = {Head(s)} \cup Range(t)
  <2>1. ASSUME NEW x \in Range(s)  PROVE x \in {Head(s)} \cup Range(t)
    <3>1. PICK i \in 1..Len(s) : x = s[i]  BY <1>3 DEF Range
    <3> QED  BY <3>1, <1>1, <1>2, <1>3 DEF Range
  <2>2. Head(s) \in Range(s)  BY <1>1, <1>3 DEF Range
  <2>3. ASSUME NEW x \in Range(t)  PROVE x \in Range(s)
    <3>1. PICK i \in 1..Len(t) : x = t[i]  BY <1>3 DEF Range
    <3> QED  BY <3>1, <1>1, <1>3, <1>4 DEF Range
  <2> QED  BY <2>1, <2>2, <2>3
<1>6. ASSUME IsInjective(s)  PROVE IsInjective(t) /\ Head(s) \notin Range(t)
  <2>1. ASSUME NEW i \in 1..Len(t), NEW j \in 1..Len(t), t[i] = t[j]  PROVE i = j
    <3>1. i + 1 \in DOMAIN s /\ j + 1 \in DOMAIN s /\ s[i+1] = s[j+1]  BY <2>1, <1>1, <1>3, <1>4
    <3>2. i + 1 = j + 1  BY <1>6, <3>1 DEF IsInjective
    <3> QED  BY <3>2
  <2>2. ASSUME NEW i \in 1..Len(t), t[i] = Head(s)  PROVE FALSE
    <3>1. 1 \in DOMAIN s /\ i + 1 \in DOMAIN s /\ s[i+1] = s[1]  BY <2>2, <1>1, <1>3, <1>4
    <3>2. i + 1 = 1  BY <1>6, <3>1 DEF IsInjective
    <3> QED  BY <3>2
  <2> QED  BY <2>1, <2>2, <1>3 DEF Range, IsInjective
<1> QED  BY <1>1, <1>5, <1>6 DEF t

-----------------------------------------------------------------------------
USE EntryAssumption, ThreadAssumption

(* The inductive invariant.  EntryAccounting needs to know that the list is *)
(* empty when InitializeListHead resets it, and that InitializeListHead ran *)
(* before anything is linked if _vsnprintf was found.                       *)

ListReady ==
    /\ pc \in {"init_c_api", "init_list"} => ~inited
    /\ ~inited => onexithead = <<>>
    /\ capi /\ pc \notin {"init_c_api", "init_list"} => inited

\* doexit does not get past the removal with a head that was never initialized.
CurReady == ~inited => cur = NoEntry

IInv == /\ TypeOK
        /\ EntryAccounting
        /\ RemoveFindsEntry
        /\ ListReady
        /\ CurReady
        /\ BugcheckOnlyWithoutCApi

LEMMA InitIInv == Init => IInv
<1> SUFFICES ASSUME Init PROVE IInv
  OBVIOUS
<1>1. TypeOK
  <2>1. onexithead \in Seq(Entry) /\ calls \in Seq(Slot)
    BY DEF Init
  <2>2. holding \in [Thread -> Entry \cup {NoEntry}]
    BY DEF Init
  <2>3. capi \in BOOLEAN /\ unloadSet \in BOOLEAN /\ inited \in BOOLEAN
    BY DEF Init
  <2>4. pc \in PC  BY DEF Init, PC
  <2>5. heap \in SUBSET Entry /\ ran \in SUBSET Entry /\ cur \in Entry \cup {NoEntry}
    BY DEF Init
  <2> QED  BY <2>1, <2>2, <2>3, <2>4, <2>5 DEF Init, TypeOK
<1>2. EntryAccounting
  <2>1. Held = {}  BY DEF Init, Held
  <2>2. Listed = {} /\ IsInjective(onexithead)
    BY DEF Init, Listed, Range, IsInjective
  <2> QED  BY <2>1, <2>2 DEF Init, EntryAccounting
<1>3. RemoveFindsEntry /\ ListReady /\ CurReady /\ BugcheckOnlyWithoutCApi
  BY DEF Init, RemoveFindsEntry, ListReady, CurReady, BugcheckOnlyWithoutCApi
<1> QED  BY <1>1, <1>2, <1>3 DEF IInv

-----------------------------------------------------------------------------
(* One lemma per kind of step *)

\* Steps of Main that touch no entry and no list: everything but the cursor, the
\* log and the place of Main is unchanged.
QuietSteps ==
    \/ InitCApi \/ InittermPifv \/ InittermPifvDone
    \/ InittermSkip \/ InittermCall \/ InittermReturn \/ InittermDone
    \/ DriverEntry \/ UserEntryReturns \/ UserUnloadReturns \/ Unload
    \/ DoexitTest \/ HandlerReturns

LEMMA QuietType == TypeOK /\ QuietSteps => TypeOK'
<1> SUFFICES ASSUME TypeOK, QuietSteps PROVE TypeOK'
  OBVIOUS
<1> USE DEF TypeOK, PC, Goto, StartWalk, inputs, listVars
<1>1. CASE InitCApi  BY <1>1 DEF InitCApi
<1>2. CASE InittermPifv
  <2>1. <<"xi", 1>> \in Slot  BY DEF Slot
  <2>2. Append(calls, <<"xi", 1>>) \in Seq(Slot)  BY <2>1
  <2> QED  BY <1>2, <2>2 DEF InittermPifv
<1>3. CASE InittermPifvDone  BY <1>3 DEF InittermPifvDone
<1>4. CASE InittermSkip  BY <1>4 DEF InittermSkip
<1>5. CASE InittermCall
  <2>1. <<walking, at>> \in Slot  BY DEF Slot
  <2>2. Append(calls, <<walking, at>>) \in Seq(Slot)  BY <2>1
  <2> QED  BY <1>5, <2>2 DEF InittermCall
<1>6. CASE InittermReturn  BY <1>6 DEF InittermReturn
<1>7. CASE InittermDone  BY <1>7 DEF InittermDone
<1>8. CASE DriverEntry  BY <1>8 DEF DriverEntry
<1>9. CASE UserEntryReturns  BY <1>9 DEF UserEntryReturns
<1>10. CASE UserUnloadReturns  BY <1>10 DEF UserUnloadReturns
<1>11. CASE Unload  BY <1>11 DEF Unload
<1>12. CASE DoexitTest  BY <1>12 DEF DoexitTest
<1>13. CASE HandlerReturns  BY <1>13 DEF HandlerReturns
<1> QED
  BY <1>1, <1>2, <1>3, <1>4, <1>5, <1>6, <1>7, <1>8, <1>9, <1>10, <1>11, <1>12, <1>13
     DEF QuietSteps

\* A quiet step leaves the entries where they are.
LEMMA QuietList == QuietSteps => UNCHANGED <<listVars, capi>>
BY DEF QuietSteps, InitCApi, InittermPifv, InittermPifvDone, InittermSkip,
       InittermCall, InittermReturn, InittermDone, DriverEntry, UserEntryReturns,
       UserUnloadReturns, Unload, DoexitTest, HandlerReturns, inputs

\* Where a quiet step takes Main, as far as the invariant cares.
LEMMA QuietControl ==
    TypeOK /\ QuietSteps =>
      /\ inited' = inited
      /\ (pc \in {"handler", "free"}) <=> (pc' \in {"handler", "free"})
      /\ pc' # "bugcheck" /\ pc' # "init_c_api"
      /\ pc' = "init_list" => pc = "init_c_api" /\ capi
      /\ pc = "init_c_api" /\ capi => pc' = "init_list"
      /\ pc # "init_list"
      /\ pc' = "remove" => ~(inited /\ onexithead = <<>>)
BY DEF QuietSteps, InitCApi, InittermPifv, InittermPifvDone, InittermSkip,
       InittermCall, InittermReturn, InittermDone, DriverEntry, UserEntryReturns,
       UserUnloadReturns, Unload, DoexitTest, HandlerReturns, inputs, Goto,
       StartWalk, listVars, TypeOK

LEMMA QuietIInv == IInv /\ QuietSteps => IInv'
<1> SUFFICES ASSUME IInv, QuietSteps PROVE IInv'
  OBVIOUS
<1>1. TypeOK'  BY QuietType DEF IInv
<1>2. UNCHANGED <<onexithead, heap, holding, cur, ran, capi>>
  BY QuietList DEF listVars
<1>3. EntryAccounting'
  <2>1. Held' = Held /\ Listed' = Listed  BY <1>2 DEF Held, Listed
  <2> QED  BY <1>2, <2>1, QuietControl DEF IInv, EntryAccounting
<1>4. RemoveFindsEntry' /\ ListReady' /\ CurReady' /\ BugcheckOnlyWithoutCApi'
  BY <1>2, QuietControl DEF IInv, RemoveFindsEntry, ListReady, CurReady, BugcheckOnlyWithoutCApi
<1> QED  BY <1>1, <1>3, <1>4 DEF IInv

LEMMA InitListIInv == IInv /\ InitList => IInv'
<1> SUFFICES ASSUME IInv, InitList PROVE IInv'
  OBVIOUS
<1>1. onexithead' = onexithead /\ UNCHANGED <<heap, holding, cur, ran, capi>>
  BY DEF InitList, IInv, ListReady, inputs
<1>2. Held' = Held /\ Listed' = Listed  BY <1>1 DEF Held, Listed
<1>3. TypeOK'
  BY <1>1 DEF IInv, TypeOK, PC, InitList, Goto, StartWalk, inputs
<1>4. EntryAccounting'
  BY <1>1, <1>2 DEF IInv, EntryAccounting, InitList, Goto
<1>5. RemoveFindsEntry' /\ ListReady' /\ CurReady' /\ BugcheckOnlyWithoutCApi'
  BY <1>1 DEF IInv, RemoveFindsEntry, ListReady, CurReady, BugcheckOnlyWithoutCApi, InitList, Goto
<1> QED  BY <1>3, <1>4, <1>5 DEF IInv

LEMMA MallocIInv ==
    ASSUME IInv, NEW t \in Thread, OnexitMalloc(t)
    PROVE  IInv'
<1>1. PICK e \in Entry \ (heap \cup ran) :
         heap' = heap \cup {e} /\ holding' = [holding EXCEPT ![t] = e]
  BY DEF OnexitMalloc
<1>2. UNCHANGED <<pc, walking, at, unloadSet, inited, calls, inputs, onexithead, cur, ran>>
      /\ holding[t] = NoEntry
  BY DEF OnexitMalloc
<1>3. TypeOK'
  BY <1>1, <1>2 DEF IInv, TypeOK, inputs
<1>4. e \notin Listed \cup Held \cup {cur} /\ e # NoEntry
  BY <1>1 DEF IInv, EntryAccounting
<1>5. Held' = Held \cup {e} /\ Listed' = Listed
  BY <1>1, <1>2, <1>4 DEF IInv, TypeOK, Held, Listed
<1>6. \A u, v \in Thread : holding'[u] = holding'[v] /\ holding'[u] # NoEntry => u = v
  BY <1>1, <1>4 DEF IInv, TypeOK, EntryAccounting, Held
<1>7. EntryAccounting'
  BY <1>1, <1>2, <1>4, <1>5, <1>6 DEF IInv, EntryAccounting
<1>8. RemoveFindsEntry' /\ ListReady' /\ CurReady' /\ BugcheckOnlyWithoutCApi'
  BY <1>2 DEF IInv, RemoveFindsEntry, ListReady, CurReady, BugcheckOnlyWithoutCApi, inputs
<1> QED  BY <1>3, <1>7, <1>8 DEF IInv

LEMMA InsertIInv ==
    ASSUME IInv, NEW t \in Thread, OnexitInsert(t)
    PROVE  IInv'
<1> DEFINE e == holding[t]
<1>1. e \in Held /\ e \in Entry
  BY DEF OnexitInsert, Held, IInv, TypeOK
<1>2. UNCHANGED <<walking, at, unloadSet, inited, calls, inputs, heap, cur, ran>>
  BY DEF OnexitInsert
<1>3. CASE ~inited
  <2>1. pc' = "bugcheck" /\ UNCHANGED <<onexithead, holding>>
    BY <1>3 DEF OnexitInsert, Goto
  <2>2. Held' = Held /\ Listed' = Listed  BY <2>1 DEF Held, Listed
  <2>3. ~capi /\ pc \notin {"handler", "free"}
    <3>1. pc \notin {"init_c_api", "init_list"}
      BY DEF OnexitInsert, InUserCode
    <3>2. ~capi  BY <1>3, <3>1 DEF IInv, ListReady
    <3>3. cur = NoEntry
      \* doexit cannot be past the removal with a head that was never initialized
      BY <1>3 DEF IInv, CurReady
    <3> QED  BY <3>2, <3>3 DEF IInv, EntryAccounting
  <2>4. TypeOK'  BY <1>2, <2>1 DEF IInv, TypeOK, PC, inputs
  <2>5. EntryAccounting'
    BY <1>2, <2>1, <2>2, <2>3 DEF IInv, EntryAccounting
  <2> QED
    BY <1>2, <1>3, <2>1, <2>3, <2>4, <2>5
       DEF IInv, RemoveFindsEntry, ListReady, CurReady, BugcheckOnlyWithoutCApi, inputs
<1>4. CASE inited
  <2>1. /\ onexithead' = <<e>> \o onexithead
        /\ holding' = [holding EXCEPT ![t] = NoEntry]
        /\ pc' = pc
    BY <1>4 DEF OnexitInsert
  <2>2. /\ <<e>> \o onexithead \in Seq(Entry)
        /\ Range(<<e>> \o onexithead) = {e} \cup Range(onexithead)
        /\ IsInjective(<<e>> \o onexithead)
    BY <1>1, ConsList DEF IInv, TypeOK, EntryAccounting, Listed
  <2>3. Listed' = Listed \cup {e}  BY <2>1, <2>2 DEF Listed
  <2>4. Held' = Held \ {e}
    BY <1>1, <2>1 DEF IInv, TypeOK, EntryAccounting, Held
  <2>5. TypeOK'
    BY <1>2, <2>1, <2>2 DEF IInv, TypeOK, inputs
  <2>6. \A u, v \in Thread : holding'[u] = holding'[v] /\ holding'[u] # NoEntry => u = v
    BY <2>1 DEF IInv, TypeOK, EntryAccounting
  <2>7. IsInjective(onexithead')  BY <2>1, <2>2
  <2>8. EntryAccounting'
    BY <1>1, <1>2, <2>1, <2>3, <2>4, <2>6, <2>7 DEF IInv, EntryAccounting
  <2>9. onexithead' # <<>>
    <3>1. e \in Range(onexithead')  BY <2>1, <2>2
    <3> QED  BY <3>1 DEF Range
  <2> QED
    BY <1>2, <1>4, <2>1, <2>5, <2>8, <2>9
       DEF IInv, RemoveFindsEntry, ListReady, CurReady, BugcheckOnlyWithoutCApi, inputs
<1> QED  BY <1>3, <1>4 DEF IInv, TypeOK

LEMMA RemoveIInv == IInv /\ DoexitRemove => IInv'
<1> SUFFICES ASSUME IInv, DoexitRemove PROVE IInv'
  OBVIOUS
<1>1. UNCHANGED <<walking, at, unloadSet, inited, calls, inputs, heap, holding, ran>>
      /\ pc = "remove" /\ cur = NoEntry
  BY DEF DoexitRemove, IInv, EntryAccounting
<1>2. Held' = Held  BY <1>1 DEF Held
<1>3. CASE inited
  <2>1. /\ cur' = Head(onexithead) /\ onexithead' = Tail(onexithead)
        /\ pc' = "handler" /\ onexithead # <<>>
    BY <1>1, <1>3 DEF DoexitRemove, IInv, RemoveFindsEntry, Goto
  <2>2. /\ Head(onexithead) \in Entry /\ Tail(onexithead) \in Seq(Entry)
        /\ Listed = {cur'} \cup Listed'
        /\ IsInjective(onexithead') /\ cur' \notin Listed'
    BY <2>1, UnconsList DEF IInv, TypeOK, EntryAccounting, Listed
  <2>3. TypeOK'  BY <1>1, <2>1, <2>2 DEF IInv, TypeOK, PC, inputs
  <2>4. cur' # NoEntry  BY <2>1, <2>2
  <2>5. EntryAccounting'
    BY <1>1, <1>2, <2>1, <2>2, <2>4 DEF IInv, EntryAccounting
  <2> QED
    BY <1>1, <1>3, <2>1, <2>3, <2>5
       DEF IInv, RemoveFindsEntry, ListReady, CurReady, BugcheckOnlyWithoutCApi
<1>4. CASE ~inited
  <2>1. pc' = "bugcheck" /\ UNCHANGED <<cur, onexithead>>
    BY <1>4 DEF DoexitRemove, Goto
  <2>2. Listed' = Listed  BY <2>1 DEF Listed
  <2>3. TypeOK'  BY <1>1, <2>1 DEF IInv, TypeOK, PC, inputs
  <2>4. EntryAccounting'  BY <1>1, <1>2, <2>1, <2>2 DEF IInv, EntryAccounting
  <2> QED
    BY <1>1, <1>4, <2>1, <2>3, <2>4
       DEF IInv, RemoveFindsEntry, ListReady, CurReady, BugcheckOnlyWithoutCApi, inputs
<1> QED  BY <1>3, <1>4 DEF IInv, TypeOK

LEMMA FreeIInv == IInv /\ FreeEntry => IInv'
<1> SUFFICES ASSUME IInv, FreeEntry PROVE IInv'
  OBVIOUS
<1>1. /\ UNCHANGED <<walking, at, unloadSet, inited, calls, inputs, onexithead, holding>>
      /\ heap' = heap \ {cur} /\ ran' = ran \cup {cur} /\ cur' = NoEntry
      /\ pc' = "doexit" /\ pc = "free"
  BY DEF FreeEntry, Goto
<1>2. Held' = Held /\ Listed' = Listed  BY <1>1 DEF Held, Listed
<1>3. cur \in Entry  BY <1>1 DEF IInv, EntryAccounting, TypeOK
<1>4. TypeOK'  BY <1>1, <1>3 DEF IInv, TypeOK, PC, inputs
<1>5. NoEntry \notin Listed \cup Held  BY DEF IInv, EntryAccounting, TypeOK, Held
<1>6. EntryAccounting'
  BY <1>1, <1>2, <1>3, <1>5 DEF IInv, EntryAccounting
<1> QED
  BY <1>1, <1>4, <1>6
     DEF IInv, RemoveFindsEntry, ListReady, CurReady, BugcheckOnlyWithoutCApi, inputs

-----------------------------------------------------------------------------

LEMMA Inductive == IInv /\ [Next]_vars => IInv'
<1> SUFFICES ASSUME IInv, [Next]_vars PROVE IInv'
  OBVIOUS
<1>1. CASE QuietSteps  BY <1>1, QuietIInv
<1>2. CASE InitList  BY <1>2, InitListIInv
<1>3. CASE DoexitRemove  BY <1>3, RemoveIInv
<1>4. CASE FreeEntry  BY <1>4, FreeIInv
<1>5. CASE \E t \in Thread : Atexit(t)
  BY <1>5, MallocIInv, InsertIInv DEF Atexit
<1>6. CASE UNCHANGED vars
  <2>1. Held' = Held /\ Listed' = Listed  BY <1>6 DEF vars, listVars, Held, Listed
  <2> QED
    BY <1>6, <2>1 DEF vars, listVars, inputs, IInv, TypeOK, EntryAccounting,
       RemoveFindsEntry, ListReady, CurReady, BugcheckOnlyWithoutCApi
<1> QED
  BY <1>1, <1>2, <1>3, <1>4, <1>5, <1>6 DEF Next, MainStep, QuietSteps

\* The strengthening is an invariant: the lists, the blocks and the control of
\* start-up and shutdown stay consistent in every behaviour.
THEOREM Invariant == Spec => []IInv
BY InitIInv, Inductive, PTL DEF Spec

\* No step of start-up or shutdown leaves a list, a block or a cursor outside
\* its type.
THEOREM TypeCorrect == Spec => []TypeOK
<1>1. IInv => TypeOK  BY DEF IInv
<1> QED  BY <1>1, Invariant, PTL

\* Every ON_EXIT_ENTRY is linked, in flight, being called or freed, and only one
\* of these, for any number of threads and registrations.
THEOREM EntriesAccounted == Spec => []EntryAccounting
<1>1. IInv => EntryAccounting  BY DEF IInv
<1> QED  BY <1>1, Invariant, PTL

\* doexit's unlocked IsListEmpty is enough: the removal that follows finds an
\* entry.
THEOREM RemovalFindsEntry == Spec => []RemoveFindsEntry
<1>1. IInv => RemoveFindsEntry  BY DEF IInv
<1> QED  BY <1>1, Invariant, PTL

\* Only the ignored failure of _cinit can lead to the uninitialized list.
THEOREM BugcheckNeedsFailure == Spec => []BugcheckOnlyWithoutCApi
<1>1. IInv => BugcheckOnlyWithoutCApi  BY DEF IInv
<1> QED  BY <1>1, Invariant, PTL

-----------------------------------------------------------------------------
(* The .CRT tables *)

\* The functions that have been called when Main is at pc with this cursor.
Passed ==
    CASE pc \in {"init_c_api", "init_list", "initterm_pifv"} -> {}
      [] pc = "initterm" -> {slot \in AllFilled : Before(slot, <<walking, at>>)}
      [] pc = "call" -> {slot \in AllFilled : Before(slot, <<walking, at + 1>>)}
      [] pc = "gone" -> AllFilled
      [] OTHER -> Filled("xc")

Sorted == \A i, j \in DOMAIN calls : i < j => Before(calls[i], calls[j])

\* _initterm_pifv calls nothing, because the first slot of its table is empty.
WalkInv ==
    capi => /\ Range(calls) = Passed
            /\ Sorted
            /\ pc \in {"initterm", "call"} => walking \in {"xc", "xp", "xt"}
            /\ pc = "call" => <<walking, at>> \in AllFilled

TInv == IInv /\ WalkInv

LEMMA FilledSlots ==
    /\ \A name, i : <<name, i>> \in AllFilled <=>
          name \in {"xc", "xp", "xt"} /\ i \in DOMAIN Tables[name] /\ Tables[name][i]
    /\ \A slot \in AllFilled : slot = <<slot[1], slot[2]>>
    /\ \A name \in {"xi", "xc", "xp", "xt"} :
          Tables[name] \in Seq(BOOLEAN) /\ DOMAIN Tables[name] = 1..Len(Tables[name])
    /\ ~XI[1]
BY TableAssumption DEF AllFilled, Filled, Tables

LEMMA BeforeTrans ==
    ASSUME NEW a \in Slot, NEW b \in Slot, NEW d \in Slot, Before(a, b), Before(b, d)
    PROVE  Before(a, d)
BY DEF Before, Slot, Rank

\* The cursor passes an empty slot, or one that has just been called.
LEMMA CursorMoves ==
    ASSUME TypeOK, walking \in {"xc", "xp", "xt"}
    PROVE  {slot \in AllFilled : Before(slot, <<walking, at + 1>>)}
             = {slot \in AllFilled : Before(slot, <<walking, at>>)} \cup ({<<walking, at>>} \cap AllFilled)
<1>1. ASSUME NEW slot \in AllFilled
      PROVE  Before(slot, <<walking, at + 1>>) <=> Before(slot, <<walking, at>>) \/ slot = <<walking, at>>
  <2>1. slot = <<slot[1], slot[2]>> /\ slot[1] \in {"xc", "xp", "xt"} /\ slot[2] \in Nat
    BY FilledSlots
  <2>2. at \in Nat  BY DEF TypeOK
  <2> QED  BY <2>1, <2>2 DEF Before, Rank
<1>2. Before(<<walking, at>>, <<walking, at + 1>>)  BY DEF Before, TypeOK
<1> QED  BY <1>1, <1>2

\* What lies in front of a cursor at the start or behind the end of a table.
LEMMA CursorEnds ==
    /\ {slot \in AllFilled : Before(slot, <<"xc", 1>>)} = {}
    /\ {slot \in AllFilled : Before(slot, <<"xp", 1>>)} = Filled("xc")
    /\ \A n \in Nat : n > Len(XC) =>
          {slot \in AllFilled : Before(slot, <<"xc", n>>)} = Filled("xc")
    /\ \A n \in Nat : n > Len(XP) =>
          {slot \in AllFilled : Before(slot, <<"xp", n>>)}
            = {slot \in AllFilled : Before(slot, <<"xt", 1>>)}
    /\ \A n \in Nat : n > Len(XT) => {slot \in AllFilled : Before(slot, <<"xt", n>>)} = AllFilled
<1>1. ASSUME NEW slot \in AllFilled
      PROVE  /\ slot[2] \in Nat /\ slot[2] >= 1
             /\ \/ slot[1] = "xc" /\ slot[2] <= Len(XC) /\ slot \in Filled("xc")
                \/ slot[1] = "xp" /\ slot[2] <= Len(XP) /\ slot \notin Filled("xc")
                \/ slot[1] = "xt" /\ slot[2] <= Len(XT) /\ slot \notin Filled("xc")
  BY TableAssumption DEF AllFilled, Filled, Tables
<1>2. Filled("xc") \subseteq AllFilled  BY DEF AllFilled
<1> QED  BY <1>1, <1>2 DEF Before, Rank

LEMMA InitWalkInv == Init => WalkInv
BY DEF Init, WalkInv, Passed, Sorted, Range

\* A step that calls nothing and leaves the set of passed functions as it is.
LEMMA SilentStep ==
    ASSUME WalkInv, UNCHANGED <<calls, capi>>, capi => Passed' = Passed,
           capi /\ pc' \in {"initterm", "call"} => walking' \in {"xc", "xp", "xt"},
           capi /\ pc' = "call" => <<walking', at'>> \in AllFilled
    PROVE  WalkInv'
<1>1. AllFilled' = AllFilled  BY DEF AllFilled, Filled, Tables
<1> QED  BY <1>1 DEF WalkInv, Sorted

LEMMA CallWalkInv == TInv /\ InittermCall => WalkInv'
<1> SUFFICES ASSUME TInv, InittermCall, capi PROVE WalkInv'
  BY DEF InittermCall, WalkInv, inputs
<1> DEFINE slot == <<walking, at>>
<1>1. /\ calls' = Append(calls, slot) /\ UNCHANGED <<walking, at, capi>> /\ pc' = "call"
      /\ pc = "initterm" /\ walking \in {"xc", "xp", "xt"} /\ slot \in AllFilled
  BY FilledSlots DEF InittermCall, Goto, inputs, TInv, IInv, TypeOK, WalkInv
<1>2. TypeOK /\ calls \in Seq(Slot)  BY DEF TInv, IInv, TypeOK
<1>3. /\ Range(calls) = {other \in AllFilled : Before(other, slot)}
      /\ Sorted
  BY <1>1 DEF TInv, WalkInv, Passed
<1>4. /\ DOMAIN calls = 1..Len(calls) /\ DOMAIN calls' = 1..Len(calls) + 1
      /\ calls'[Len(calls) + 1] = slot
      /\ \A i \in DOMAIN calls : calls'[i] = calls[i]
  BY <1>1, <1>2
<1>5. Range(calls') = Range(calls) \cup {slot}
  <2>1. ASSUME NEW i \in DOMAIN calls' PROVE calls'[i] \in Range(calls) \cup {slot}
    <3>1. CASE i \in DOMAIN calls  BY <1>4, <3>1 DEF Range
    <3>2. CASE i = Len(calls) + 1  BY <1>4, <3>2
    <3> QED  BY <1>2, <1>4, <3>1, <3>2
  <2>2. Len(calls) + 1 \in DOMAIN calls' /\ DOMAIN calls \subseteq DOMAIN calls'
    BY <1>2, <1>4
  <2> QED  BY <2>1, <2>2, <1>4 DEF Range
<1>6. Passed' = Range(calls')
  <2>1. Passed' = {other \in AllFilled : Before(other, <<walking, at + 1>>)}
    BY <1>1 DEF Passed, AllFilled, Filled, Tables, Before
  <2> QED  BY <1>1, <1>2, <1>3, <1>5, <2>1, CursorMoves
<1>7. Sorted'
  <2> SUFFICES ASSUME NEW i \in DOMAIN calls', NEW j \in DOMAIN calls', i < j
               PROVE  Before(calls'[i], calls'[j])
    BY DEF Sorted
  <2>1. i \in DOMAIN calls  BY <1>2, <1>4
  <2>2. CASE j \in DOMAIN calls  BY <1>3, <1>4, <2>1, <2>2 DEF Sorted
  <2>3. CASE j = Len(calls) + 1
    <3>1. calls[i] \in Range(calls)  BY <2>1 DEF Range
    <3> QED  BY <1>3, <1>4, <2>1, <2>3, <3>1
  <2> QED  BY <1>2, <1>4, <2>2, <2>3
<1> QED  BY <1>1, <1>6, <1>7 DEF WalkInv, AllFilled, Filled, Tables

LEMMA NextWalkInv == TInv /\ [Next]_vars => WalkInv'
<1> SUFFICES ASSUME TInv, [Next]_vars PROVE WalkInv'
  OBVIOUS
<1> USE DEF TInv
<1>0. TypeOK /\ at \in Nat  BY DEF IInv, TypeOK
<1>1. CASE InitCApi
  BY <1>1, SilentStep DEF InitCApi, Goto, inputs, Passed
<1>2. CASE InitList
  BY <1>2, SilentStep DEF InitList, Goto, StartWalk, inputs, Passed
<1>3. CASE InittermPifv
  <2>1. UNCHANGED calls /\ pc' = "initterm_pifv" /\ pc = "initterm_pifv" /\ UNCHANGED capi
    BY <1>3, FilledSlots DEF InittermPifv, Goto, inputs
  <2> QED  BY <2>1, SilentStep DEF Passed
<1>4. CASE InittermPifvDone
  <2>1. pc = "initterm_pifv" /\ pc' = "initterm" /\ walking' = "xc" /\ at' = 1
        /\ UNCHANGED <<calls, capi>>
    BY <1>4 DEF InittermPifvDone, Goto, StartWalk, inputs
  <2>2. Passed' = {slot \in AllFilled : Before(slot, <<"xc", 1>>)}
    BY <2>1 DEF Passed, AllFilled, Filled, Tables, Before
  <2>3. Passed' = Passed  BY <2>1, <2>2, CursorEnds DEF Passed
  <2> QED  BY <2>1, <2>3, SilentStep
<1>5. CASE InittermSkip
  <2>1. pc = "initterm" /\ UNCHANGED <<pc, walking, calls, capi>> /\ at' = at + 1
    BY <1>5 DEF InittermSkip, inputs
  <2>2. <<walking, at>> \notin AllFilled  BY <1>5, FilledSlots DEF InittermSkip
  <2>3. Passed' = {slot \in AllFilled : Before(slot, <<walking, at + 1>>)}
    BY <2>1 DEF Passed, AllFilled, Filled, Tables, Before
  <2>4. capi => Passed' = Passed  BY <1>0, <2>1, <2>2, <2>3, CursorMoves DEF Passed, WalkInv
  <2> QED  BY <2>1, <2>4, SilentStep DEF WalkInv
<1>6. CASE InittermCall  BY <1>6, CallWalkInv
<1>7. CASE InittermReturn
  <2>1. pc = "call" /\ pc' = "initterm" /\ UNCHANGED <<walking, calls, capi>> /\ at' = at + 1
    BY <1>7 DEF InittermReturn, Goto, inputs
  <2>2. Passed' = Passed  BY <2>1 DEF Passed, AllFilled, Filled, Tables, Before
  <2> QED  BY <2>1, <2>2, SilentStep DEF WalkInv
<1>8. CASE InittermDone
  <2> SUFFICES ASSUME capi PROVE WalkInv'
    BY <1>8 DEF InittermDone, WalkInv, inputs
  <2>1. pc = "initterm" /\ at > Len(Tables[walking]) /\ UNCHANGED <<calls, capi>>
    BY <1>8 DEF InittermDone, inputs
  <2>2. Passed = {slot \in AllFilled : Before(slot, <<walking, at>>)}  BY <2>1 DEF Passed
  <2>3. CASE walking = "xc" /\ pc' = "driver_entry"
    <3>1. Passed' = Filled("xc")  BY <2>3 DEF Passed, Filled, Tables
    <3>2. Passed = Filled("xc")  BY <1>0, <2>1, <2>2, <2>3, CursorEnds DEF Tables
    <3> QED  BY <2>1, <2>3, <3>1, <3>2, SilentStep
  <2>4. CASE walking = "xp" /\ walking' = "xt" /\ at' = 1 /\ UNCHANGED pc
    <3>1. Passed' = {slot \in AllFilled : Before(slot, <<"xt", 1>>)}
      BY <2>1, <2>4 DEF Passed, AllFilled, Filled, Tables, Before
    <3>2. Passed = Passed'  BY <1>0, <2>1, <2>2, <2>4, <3>1, CursorEnds DEF Tables
    <3> QED  BY <2>1, <2>4, <3>2, SilentStep
  <2>5. CASE walking = "xt" /\ pc' = "gone"
    <3>1. Passed' = AllFilled  BY <2>5 DEF Passed, AllFilled, Filled, Tables
    <3>2. Passed = AllFilled  BY <1>0, <2>1, <2>2, <2>5, CursorEnds DEF Tables
    <3> QED  BY <2>1, <2>5, <3>1, <3>2, SilentStep
  <2> QED  BY <1>8, <2>3, <2>4, <2>5 DEF InittermDone, Goto, StartWalk
<1>9. CASE DoexitTest
  <2>1. pc = "doexit" /\ UNCHANGED <<calls, capi>>
        /\ \/ pc' = "remove"
           \/ pc' = "initterm" /\ walking' = "xp" /\ at' = 1
    BY <1>9 DEF DoexitTest, Goto, StartWalk, inputs
  <2>2. CASE pc' = "remove"
    BY <2>1, <2>2, SilentStep DEF Passed, Filled, Tables
  <2>3. CASE pc' = "initterm" /\ walking' = "xp" /\ at' = 1
    <3>1. Passed' = {slot \in AllFilled : Before(slot, <<"xp", 1>>)}
      BY <2>3 DEF Passed, AllFilled, Filled, Tables, Before
    <3>2. Passed' = Passed  BY <2>1, <3>1, CursorEnds DEF Passed
    <3> QED  BY <2>1, <2>3, <3>2, SilentStep
  <2> QED  BY <2>1, <2>2, <2>3
<1>10. CASE DriverEntry \/ UserEntryReturns \/ Unload \/ UserUnloadReturns \/ HandlerReturns
            \/ FreeEntry \/ DoexitRemove
  <2>1. /\ UNCHANGED <<calls, capi>>
        /\ pc \in {"driver_entry", "user_entry", "loaded", "user_unload", "handler", "free", "remove"}
        /\ pc' \in {"refused", "user_entry", "loaded", "user_unload", "doexit", "free", "handler",
                    "bugcheck"}
    BY <1>10 DEF DriverEntry, UserEntryReturns, Unload, UserUnloadReturns, HandlerReturns, FreeEntry,
                 DoexitRemove, Goto, inputs
  <2>2. Passed' = Passed  BY <2>1 DEF Passed, Filled, Tables
  <2> QED  BY <2>1, <2>2, SilentStep
<1>11. ASSUME NEW t \in Thread, Atexit(t) PROVE WalkInv'
  <2>1. UNCHANGED <<calls, capi, walking, at>>
    BY <1>11 DEF Atexit, OnexitMalloc, OnexitInsert, inputs
  <2>2. capi => UNCHANGED pc
    BY <1>11 DEF Atexit, OnexitMalloc, OnexitInsert, InUserCode, IInv, ListReady
  <2>3. capi => Passed' = Passed
    BY <2>1, <2>2 DEF Passed, AllFilled, Filled, Tables, Before
  <2> QED  BY <2>1, <2>2, <2>3, SilentStep DEF WalkInv
<1>12. CASE UNCHANGED vars
  <2>1. UNCHANGED <<calls, capi, walking, at, pc>>  BY <1>12 DEF vars, inputs
  <2>2. Passed' = Passed  BY <2>1 DEF Passed, AllFilled, Filled, Tables, Before
  <2> QED  BY <2>1, <2>2, SilentStep DEF WalkInv
<1> QED
  BY <1>1, <1>2, <1>3, <1>4, <1>5, <1>6, <1>7, <1>8, <1>9, <1>10, <1>11, <1>12 DEF Next, MainStep

LEMMA PassedIsClosed ==
    ASSUME TInv, capi, NEW slot \in AllFilled, NEW other \in Passed, Before(slot, other)
    PROVE  slot \in Passed
<1>1. AllFilled \subseteq Slot
  BY FilledSlots, TableAssumption DEF AllFilled, Filled, Slot, Tables
<1>2. <<walking, at>> \in Slot /\ <<walking, at + 1>> \in Slot  BY DEF TInv, IInv, TypeOK, Slot
<1>3. CASE pc = "initterm"
  BY <1>1, <1>2, <1>3, BeforeTrans DEF Passed
<1>4. CASE pc = "call"
  BY <1>1, <1>2, <1>4, BeforeTrans DEF Passed
<1>5. CASE Passed = Filled("xc")
  <2>1. other[1] = "xc"  BY <1>5 DEF Filled
  <2>2. slot[1] \in {"xc", "xp", "xt"}  BY DEF AllFilled, Filled
  <2>3. slot[1] = "xc"  BY <2>1, <2>2 DEF Before, Rank
  <2> QED  BY <1>5, <2>3 DEF AllFilled, Filled
<1> QED  BY <1>3, <1>4, <1>5 DEF Passed

\* The functions of the C++ tables are called once each, in the order in which they are
\* linked, the initializers before KcpplibDriverEntry, the terminators after doexit, and
\* a complete unload has called them all, whatever the tables hold (kcrtc.c:209-300).
THEOREM TablesWalkedInOrder == Spec => []TablesInOrder
<1>1. TInv => TablesInOrder
  <2> SUFFICES ASSUME TInv, capi PROVE TablesInOrder
    BY DEF TablesInOrder
  <2>1. Range(calls) = Passed /\ Sorted  BY DEF TInv, WalkInv
  <2>2. Passed \subseteq AllFilled  BY DEF Passed, AllFilled
  <2>3. \A slot \in AllFilled, i \in DOMAIN calls : Before(slot, calls[i]) => slot \in Range(calls)
    <3>1. \A i \in DOMAIN calls : calls[i] \in Passed  BY <2>1 DEF Range
    <3> QED  BY <2>1, <3>1, PassedIsClosed
  <2>4. pc = "gone" => Passed = AllFilled  BY DEF Passed
  <2>5. pc \in {"user_entry", "loaded", "refused", "user_unload", "doexit", "remove", "handler", "free"}
        => Passed = Filled("xc")
    BY DEF Passed
  <2> QED  BY <2>1, <2>2, <2>3, <2>4, <2>5 DEF TablesInOrder, Sorted
<1>2. Init => TInv  BY InitIInv, InitWalkInv DEF TInv
<1>3. TInv /\ [Next]_vars => TInv'  BY Inductive, NextWalkInv DEF TInv
<1> QED  BY <1>1, <1>2, <1>3, PTL DEF Spec

-----------------------------------------------------------------------------
(* Refinement *)

LEMMA StackStep == IInv /\ [Next]_vars => [Stack!Next]_(Stack!stackVars)
<1> SUFFICES ASSUME IInv, [Next]_vars PROVE [Stack!Next]_(Stack!stackVars)
  OBVIOUS
<1> USE DEF Stack!Next, Stack!stackVars
<1>1. CASE QuietSteps  BY <1>1, QuietList DEF listVars
<1>2. CASE InitList  BY <1>2 DEF InitList, IInv, ListReady
<1>3. CASE DoexitRemove
  <2>1. cur = NoEntry  BY <1>3 DEF DoexitRemove, IInv, EntryAccounting
  <2> QED  BY <1>3, <2>1 DEF DoexitRemove, Stack!Start
<1>4. CASE FreeEntry
  <2>1. cur # NoEntry  BY <1>4 DEF FreeEntry, IInv, EntryAccounting
  <2> QED  BY <1>4, <2>1 DEF FreeEntry, Stack!Finish
<1>5. ASSUME NEW t \in Thread, OnexitMalloc(t)  PROVE UNCHANGED Stack!stackVars
  BY <1>5 DEF OnexitMalloc
<1>6. ASSUME NEW t \in Thread, OnexitInsert(t)
      PROVE  (\E e \in Entry : Stack!Register(e)) \/ UNCHANGED Stack!stackVars
  <2>1. holding[t] \in Entry /\ holding[t] \in Held
    BY <1>6 DEF OnexitInsert, IInv, TypeOK, Held
  <2>2. holding[t] \notin Range(onexithead) \cup {cur} \cup ran
    BY <2>1 DEF IInv, EntryAccounting, Listed
  <2>3. UNCHANGED <<cur, ran>>  BY <1>6 DEF OnexitInsert
  <2>4. CASE inited
    <3>1. onexithead' = <<holding[t]>> \o onexithead  BY <1>6, <2>4 DEF OnexitInsert
    <3> QED  BY <2>1, <2>2, <2>3, <3>1 DEF Stack!Register, Stack!Range, Range
  <2>5. CASE ~inited
    <3>1. onexithead' = onexithead  BY <1>6, <2>5 DEF OnexitInsert
    <3> QED  BY <2>3, <3>1
  <2> QED  BY <2>4, <2>5
<1>7. CASE UNCHANGED vars  BY <1>7 DEF vars, listVars
<1> QED
  BY <1>1, <1>2, <1>3, <1>4, <1>5, <1>6, <1>7 DEF Next, MainStep, QuietSteps, Atexit

\* atexit and doexit implement a stack of registrations: each is called at most
\* once, one at a time, and always the latest one not yet called.
THEOREM ImplementsStack == Spec => StackSpec
<1>1. Init => Stack!Init  BY DEF Init, Stack!Init
<1> QED  BY <1>1, StackStep, Invariant, PTL DEF Spec, StackSpec, Stack!Spec
=============================================================================
