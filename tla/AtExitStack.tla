---------------------------- MODULE AtExitStack ----------------------------
(***************************************************************************)
(* What atexit() and doexit() of kcrt/kcrtc.c promise together: a          *)
(* registration is called at most once, one at a time, and always the most *)
(* recent registration that has not been called yet.  It says nothing of   *)
(* the pool block, the list, the lock or the thread a registration comes   *)
(* from; CrtLifecycle is shown to implement it.                            *)
(***************************************************************************)
EXTENDS Sequences, Functions

CONSTANTS Entry,    \* registrations
          NoEntry   \* "no handler is being called"

VARIABLES pending,   \* registrations not yet called, the latest first
          running,   \* the registration being called
          finished   \* the registrations whose call is over

stackVars == <<pending, running, finished>>

Init == pending = <<>> /\ running = NoEntry /\ finished = {}

Register(e) ==
    /\ e \notin Range(pending) \cup {running} \cup finished
    /\ pending' = <<e>> \o pending
    /\ UNCHANGED <<running, finished>>

Start ==
    /\ running = NoEntry
    /\ pending # <<>>
    /\ running' = Head(pending)
    /\ pending' = Tail(pending)
    /\ UNCHANGED finished

Finish ==
    /\ running # NoEntry
    /\ finished' = finished \cup {running}
    /\ running' = NoEntry
    /\ UNCHANGED pending

Next == (\E e \in Entry : Register(e)) \/ Start \/ Finish

Spec == Init /\ [][Next]_stackVars
=============================================================================
