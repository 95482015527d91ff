---------------------------- MODULE CrtLifecycle ----------------------------
(***************************************************************************)
(* The life of a driver linked with kcpplib: DriverEntry and OnUnload of   *)
(* kcpplib.cpp, and the C runtime start-up and shutdown they call in       *)
(* kcrt/kcrtc.c (_cinit, init_c_api, _initterm_pifv, _initterm, atexit,    *)
(* doexit, _cexit).                                                        *)
(*                                                                         *)
(* One thread, Main, runs DriverEntry and later OnUnload.  From the moment *)
(* KcpplibDriverEntry is called the user's own threads, Worker, may call   *)
(* atexit too (every function-local static with a destructor does, for     *)
(* instance Singleton<T>::getInstance), also while doexit is draining.     *)
(* Calls of user code (initializers, handlers, KcpplibDriverEntry) last    *)
(* several steps, in which that code may call atexit.  Each of these calls *)
(* is inside __try: a return and an exception go on at the same place, so  *)
(* one action stands for both.  A pool block is named by an Entry that is  *)
(* never handed out twice.                                                 *)
(***************************************************************************)
EXTENDS Naturals, Sequences, Functions

CONSTANTS Entry,            \* pool blocks malloc may return for ON_EXIT_ENTRY
          NoEntry,          \* NULL
          Worker,           \* user threads
          Main,             \* the thread of DriverEntry and OnUnload
          XI, XC, XP, XT    \* the .CRT tables: TRUE is a slot with a function,
                            \* FALSE a NULL slot

Thread == Worker \cup {Main}

\* Every table starts with the {0} slot the library itself allocates.
ASSUME TableAssumption ==
    \A table \in {XI, XC, XP, XT} :
        table \in Seq(BOOLEAN) /\ table # <<>> /\ table[1] = FALSE
ASSUME EntryAssumption == NoEntry \notin Entry
ASSUME ThreadAssumption == Main \notin Worker

VARIABLES
    pc,             \* where Main is
    walking, at,    \* the table _initterm is walking, and its cursor
    driverObject,   \* "null", "nosection" (DriverSection is NULL), "ok"
    registryPath,   \* "null", "minus1" or "ok"
    unloadSet,      \* driverObject->DriverUnload has been set
    capi,           \* MmGetSystemRoutineAddress finds _vsnprintf
    inited,         \* __onexithead and its lock are initialized
    onexithead,     \* the entries linked at __onexithead, head first
    heap,           \* entries allocated and not freed
    holding,        \* per thread: the entry _onexit has not linked yet
    cur,            \* doexit's Entry
    ran,            \* history: entries whose handler was called
    calls           \* history: table slots called, in order

inputs == <<driverObject, registryPath, capi>>
listVars == <<onexithead, heap, holding, cur, ran>>
vars == <<pc, walking, at, unloadSet, inited, calls, inputs, listVars>>

Tables == [xi |-> XI, xc |-> XC, xp |-> XP, xt |-> XT]

PC == {"init_c_api", "init_list", "initterm_pifv", "initterm", "call",
       "driver_entry", "user_entry", "refused", "loaded", "user_unload",
       "doexit", "remove", "handler", "free", "gone", "bugcheck"}

Init ==
    /\ pc = "init_c_api"
    /\ walking = "xi" /\ at = 1
    /\ driverObject \in {"null", "nosection", "ok"}
    /\ registryPath \in {"null", "minus1", "ok"}
    /\ capi \in BOOLEAN
    /\ unloadSet = FALSE /\ inited = FALSE
    /\ onexithead = <<>> /\ heap = {} /\ cur = NoEntry /\ ran = {}
    /\ holding = [t \in Thread |-> NoEntry]
    /\ calls = <<>>

Goto(p) == pc' = p
\* Mutant: the walk starts at the slot in front of the table.
StartWalkTooEarly(table) == walking' = table /\ at' = 0

StartWalk(table) == walking' = table /\ at' = 1

-----------------------------------------------------------------------------
(* _cinit *)

\* Mutant: the C initializers are called before the list head is initialized.
InitCApiOnly ==
    /\ pc = "init_c_api"
    /\ Goto(IF capi THEN "initterm_pifv" ELSE "driver_entry") /\ StartWalk("xi")
    /\ UNCHANGED <<unloadSet, inited, calls, inputs, listVars>>

\* DriverEntry ignores the -1 _cinit returns when init_c_api fails.
InitCApi ==
    /\ pc = "init_c_api"
    /\ Goto(IF capi THEN "init_list" ELSE "driver_entry")
    /\ UNCHANGED <<walking, at, unloadSet, inited, calls, inputs, listVars>>

InitList ==
    /\ pc = "init_list"
    /\ inited' = TRUE
    /\ onexithead' = <<>>
    /\ Goto("initterm_pifv") /\ StartWalk("xi")
    /\ UNCHANGED <<unloadSet, calls, inputs, heap, holding, cur, ran>>

\* For every slot with a function the code calls the function of the first
\* slot, `begin', not of the slot it is at.  Calling a NULL slot faults and the
\* __except goes on with the next one.  A nonzero result ends _cinit.
InittermPifv ==
    LET begin == 1
        called == XI[at] /\ XI[begin] IN
    /\ pc = "initterm_pifv"
    /\ at <= Len(XI)
    /\ calls' = IF called THEN Append(calls, <<"xi", begin>>) ELSE calls
    /\ \E result \in {0, 1} :
          Goto(IF called /\ result # 0 THEN "driver_entry" ELSE "initterm_pifv")
    /\ at' = at + 1
    /\ UNCHANGED <<walking, unloadSet, inited, inputs, listVars>>

InittermPifvDone ==
    /\ pc = "initterm_pifv"
    /\ at > Len(XI)
    /\ Goto("initterm") /\ StartWalk("xc")
    /\ UNCHANGED <<unloadSet, inited, calls, inputs, listVars>>

-----------------------------------------------------------------------------
(* _initterm, called for __xc_a by _cinit and for __xp_a, __xt_a by _cexit *)

InittermSkip ==
    /\ pc = "initterm"
    /\ at <= Len(Tables[walking])
    /\ ~Tables[walking][at]
    /\ at' = at + 1
    /\ UNCHANGED <<pc, walking, unloadSet, inited, calls, inputs, listVars>>

InittermCall ==
    /\ pc = "initterm"
    /\ at <= Len(Tables[walking])
    /\ Tables[walking][at]
    /\ calls' = Append(calls, <<walking, at>>)
    /\ Goto("call")
    /\ UNCHANGED <<walking, at, unloadSet, inited, inputs, listVars>>

InittermReturn ==
    /\ pc = "call"
    /\ holding[Main] = NoEntry
    /\ at' = at + 1
    /\ Goto("initterm")
    /\ UNCHANGED <<walking, unloadSet, inited, calls, inputs, listVars>>

InittermDone ==
    /\ pc = "initterm"
    /\ at > Len(Tables[walking])
    /\ \/ walking = "xc" /\ Goto("driver_entry") /\ UNCHANGED <<walking, at>>
       \/ walking = "xp" /\ StartWalk("xt") /\ UNCHANGED pc
       \/ walking = "xt" /\ Goto("gone") /\ UNCHANGED <<walking, at>>
    /\ UNCHANGED <<unloadSet, inited, calls, inputs, listVars>>

-----------------------------------------------------------------------------
(* DriverEntry and OnUnload *)

DriverEntry ==
    /\ pc = "driver_entry"
    /\ unloadSet' = (driverObject # "null")
    /\ Goto(IF driverObject = "nosection" \/ registryPath = "null"
            THEN "refused" ELSE "user_entry")
    /\ UNCHANGED <<walking, at, inited, calls, inputs, listVars>>

\* KcpplibDriverEntry returns; on a failure status the system discards the image
\* and never calls DriverUnload.
UserEntryReturns ==
    /\ pc = "user_entry"
    /\ holding[Main] = NoEntry
    /\ \E status \in {"loaded", "refused"} : Goto(status)
    /\ UNCHANGED <<walking, at, unloadSet, inited, calls, inputs, listVars>>

Unload ==
    /\ pc = "loaded"
    /\ unloadSet
    /\ Goto("user_unload")
    /\ UNCHANGED <<walking, at, unloadSet, inited, calls, inputs, listVars>>

\* Mutant: doexit takes an entry before it tests the list (do ... while).
UserUnloadReturnsToRemove ==
    /\ pc = "user_unload"
    /\ holding[Main] = NoEntry
    /\ Goto("remove")
    /\ UNCHANGED <<walking, at, unloadSet, inited, calls, inputs, listVars>>

UserUnloadReturns ==
    /\ pc = "user_unload"
    /\ holding[Main] = NoEntry
    /\ Goto("doexit")
    /\ UNCHANGED <<walking, at, unloadSet, inited, calls, inputs, listVars>>

-----------------------------------------------------------------------------
(* atexit.  _onexit(NULL) and a malloc that fails return without a trace:  *)
(* both are stuttering steps.                                              *)

InUserCode(t) ==
    IF t = Main
    THEN pc \in {"call", "user_entry", "user_unload", "handler"}
    ELSE \/ pc \in {"user_entry", "loaded", "user_unload",
                    "doexit", "remove", "handler", "free"}
         \/ pc \in {"initterm", "call"} /\ walking \in {"xp", "xt"}

OnexitMalloc(t) ==
    /\ InUserCode(t)
    /\ holding[t] = NoEntry
    /\ \E e \in Entry \ (heap \cup ran) :
          /\ heap' = heap \cup {e}
          /\ holding' = [holding EXCEPT ![t] = e]
    /\ UNCHANGED <<pc, walking, at, unloadSet, inited, calls, inputs,
                   onexithead, cur, ran>>

\* Mutant: the entry is linked at the tail.
OnexitInsertTail(t) ==
    /\ InUserCode(t)
    /\ holding[t] # NoEntry
    /\ inited
    /\ onexithead' = Append(onexithead, holding[t])
    /\ holding' = [holding EXCEPT ![t] = NoEntry]
    /\ UNCHANGED <<pc, walking, at, unloadSet, inited, calls, inputs, heap, cur, ran>>

\* ExInterlockedInsertHeadList: one step under the spin lock.  Before
\* InitializeListHead the head's Flink is NULL and writing through it stops the
\* system.
OnexitInsert(t) ==
    /\ InUserCode(t)
    /\ holding[t] # NoEntry
    /\ IF inited
       THEN /\ onexithead' = <<holding[t]>> \o onexithead
            /\ holding' = [holding EXCEPT ![t] = NoEntry]
            /\ UNCHANGED pc
       ELSE Goto("bugcheck") /\ UNCHANGED <<onexithead, holding>>
    /\ UNCHANGED <<walking, at, unloadSet, inited, calls, inputs, heap, cur, ran>>

-----------------------------------------------------------------------------
(* doexit, and the start of the rest of _cexit *)

\* Mutant: the terminators come first and the pre-terminators are forgotten.
DoexitTestToTerminators ==
    /\ pc = "doexit"
    /\ IF inited /\ onexithead = <<>>
       THEN Goto("initterm") /\ StartWalk("xt")
       ELSE Goto("remove") /\ UNCHANGED <<walking, at>>
    /\ UNCHANGED <<unloadSet, inited, calls, inputs, listVars>>

\* IsListEmpty, read without the lock.  A head that is still all zero is not
\* empty: its Flink is NULL, not the head.
DoexitTest ==
    /\ pc = "doexit"
    /\ IF inited /\ onexithead = <<>>
       THEN Goto("initterm") /\ StartWalk("xp")
       ELSE Goto("remove") /\ UNCHANGED <<walking, at>>
    /\ UNCHANGED <<unloadSet, inited, calls, inputs, listVars>>

\* Mutant: the entry stays linked while its handler is called.
DoexitPeek ==
    /\ pc = "remove"
    /\ inited /\ onexithead # <<>>
    /\ cur' = Head(onexithead)
    /\ Goto("handler")
    /\ UNCHANGED <<walking, at, unloadSet, inited, calls, inputs, onexithead,
                   heap, holding, ran>>

\* ExInterlockedRemoveHeadList; the loop goes round again when it returns NULL.
DoexitRemove ==
    /\ pc = "remove"
    /\ IF inited /\ onexithead # <<>>
       THEN /\ cur' = Head(onexithead)
            /\ onexithead' = Tail(onexithead)
            /\ Goto("handler")
       ELSE /\ Goto(IF inited THEN "doexit" ELSE "bugcheck")
            /\ UNCHANGED <<cur, onexithead>>
    /\ UNCHANGED <<walking, at, unloadSet, inited, calls, inputs, heap, holding, ran>>

\* Mutant: free is inside the __try, so that an exception skips it.
HandlerReturnsOrRaises ==
    /\ pc = "handler"
    /\ holding[Main] = NoEntry
    /\ Goto("free") \/ Goto("doexit")
    /\ UNCHANGED <<walking, at, unloadSet, inited, calls, inputs, listVars>>

HandlerReturns ==
    /\ pc = "handler"
    /\ holding[Main] = NoEntry
    /\ Goto("free")
    /\ UNCHANGED <<walking, at, unloadSet, inited, calls, inputs, listVars>>

\* Mutant: doexit calls one handler only (if instead of while).
FreeEntryAndLeave ==
    /\ pc = "free"
    /\ heap' = heap \ {cur}
    /\ ran' = ran \cup {cur}
    /\ cur' = NoEntry
    /\ Goto("initterm") /\ StartWalk("xp")
    /\ UNCHANGED <<unloadSet, inited, calls, inputs, onexithead, holding>>

FreeEntry ==
    /\ pc = "free"
    /\ heap' = heap \ {cur}
    /\ ran' = ran \cup {cur}
    /\ cur' = NoEntry
    /\ Goto("doexit")
    /\ UNCHANGED <<walking, at, unloadSet, inited, calls, inputs, onexithead, holding>>

-----------------------------------------------------------------------------

MainStep ==
    \/ InitCApi \/ InitList \/ InittermPifv \/ InittermPifvDone
    \/ InittermSkip \/ InittermCall \/ InittermReturn \/ InittermDone
    \/ DriverEntry \/ UserEntryReturns \/ UserUnloadReturns
    \/ DoexitTest \/ DoexitRemove \/ HandlerReturns \/ FreeEntry

Atexit(t) == OnexitMalloc(t) \/ OnexitInsert(t)

Next == MainStep \/ Unload \/ \E t \in Thread : Atexit(t)

Spec == Init /\ [][Next]_vars

\* Main is scheduled and the user code it calls returns; a thread inside atexit
\* leaves it (ExInterlockedInsertHeadList does not block for ever).  Nothing
\* obliges the system to unload the driver, or a thread to call atexit.
FairSpec ==
    /\ Spec
    /\ WF_vars(MainStep)
    /\ \A t \in Thread : WF_vars(OnexitInsert(t))

-----------------------------------------------------------------------------
(* Properties *)

Held == {holding[t] : t \in Thread} \ {NoEntry}
Listed == Range(onexithead)
Slot == {"xi", "xc", "xp", "xt"} \X (Nat \ {0})

TypeOK ==
    /\ pc \in PC
    /\ walking \in {"xi", "xc", "xp", "xt"} /\ at \in Nat \ {0}
    /\ driverObject \in {"null", "nosection", "ok"}
    /\ registryPath \in {"null", "minus1", "ok"}
    /\ capi \in BOOLEAN /\ unloadSet \in BOOLEAN /\ inited \in BOOLEAN
    /\ onexithead \in Seq(Entry)
    /\ heap \in SUBSET Entry /\ ran \in SUBSET Entry
    /\ holding \in [Thread -> Entry \cup {NoEntry}]
    /\ cur \in Entry \cup {NoEntry}
    /\ calls \in Seq(Slot)

\* Every ON_EXIT_ENTRY that malloc returned is in exactly one place: linked at
\* __onexithead, in the hands of one _onexit call, being called by doexit, or
\* freed after its handler ran.  So no entry leaks on the way, none is freed
\* twice and no handler is called through a freed entry, whatever the threads do.
EntryAccounting ==
    /\ heap = Listed \cup Held \cup ({cur} \ {NoEntry})
    /\ heap \cap ran = {}
    /\ Listed \cap Held = {}
    /\ cur \notin Listed \cup Held
    /\ IsInjective(onexithead)
    /\ \A t, u \in Thread : holding[t] = holding[u] /\ holding[t] # NoEntry => t = u
    /\ cur # NoEntry <=> pc \in {"handler", "free"}

\* IsListEmpty is read outside the lock and acted on later, but doexit is the
\* only remover: ExInterlockedRemoveHeadList never returns NULL to it.
RemoveFindsEntry == pc = "remove" /\ inited => onexithead # <<>>

\* The system is stopped only if _vsnprintf was not found, the failure of _cinit
\* that DriverEntry ignores.
BugcheckOnlyWithoutCApi == pc = "bugcheck" => ~capi

\* The slots of a table with a function, and the order in which they are to be called:
\* by table, then as linked.
Filled(name) == {<<name, i>> : i \in {k \in DOMAIN Tables[name] : Tables[name][k]}}
AllFilled == Filled("xc") \cup Filled("xp") \cup Filled("xt")
Rank == [xi |-> 0, xc |-> 1, xp |-> 2, xt |-> 3]
Before(slot, other) ==
    \/ Rank[slot[1]] < Rank[other[1]]
    \/ slot[1] = other[1] /\ slot[2] < other[2]

\* C++ initializers are called once each in link order before KcpplibDriverEntry,
\* pre-terminators and terminators only after doexit, in that order and without a gap,
\* and a complete unload has called them all.
TablesInOrder ==
    capi =>
      /\ Range(calls) \subseteq AllFilled
      /\ \A i, j \in DOMAIN calls : i < j => Before(calls[i], calls[j])
      /\ \A slot \in AllFilled, i \in DOMAIN calls :
            Before(slot, calls[i]) => slot \in Range(calls)
      /\ pc \in {"user_entry", "loaded", "refused", "user_unload",
                 "doexit", "remove", "handler", "free"} => Range(calls) = Filled("xc")
      /\ pc = "gone" => Range(calls) = AllFilled

\* atexit/doexit behave as a stack of registrations.
Stack == INSTANCE AtExitStack WITH pending <- onexithead, running <- cur, finished <- ran
StackSpec == Stack!Spec

Draining == pc \in {"user_unload", "doexit", "remove", "handler", "free"}

\* A handler that atexit linked before doexit saw an empty list is called, no
\* matter which thread linked it or what the other handlers register.
RegisteredRuns ==
    \A e \in Entry : (capi /\ Draining /\ e \in Listed) ~> e \in ran

\* OnUnload ends (the number of registrations is finite).
UnloadEnds == pc = "user_unload" ~> pc \in {"gone", "bugcheck"}

\* "C initializers" (kcrtc.c:8), "c" (kcrtc.c:259): when _cinit has succeeded
\* every function of the .CRT$XI table has been called.
CInitializersRun ==
    pc = "driver_entry" /\ capi => \A i \in DOMAIN XI : XI[i] => <<"xi", i>> \in Range(calls)
=============================================================================
