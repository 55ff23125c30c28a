------------------------------ MODULE InitOnce ------------------------------
(***************************************************************************)
(* init.hpp, and the call of sodium_init in s_alloc::allocate: threads     *)
(* that initialize libsodium through the function-local static of          *)
(* ensure_init, through init() and past both of them, when sodium_init may *)
(* fail a few times before it succeeds.  What every specification has is called   *)
(* Init... here: SecureBuffer, whose allocator this is, may be extended    *)
(* beside it.                                                              *)
(***************************************************************************)
EXTENDS Naturals

CONSTANTS
    Threads,
    Nobody,
    MaxCalls,   \* bound: calls a thread makes
    MaxFailures \* bound: times sodium_init fails

ASSUME ThreadAssumption == Nobody \notin Threads \cup {"unset", "done"}
ASSUME StatusAssumption == Threads \cap {"unset", "done"} = {}
ASSUME BoundAssumption == MaxCalls \in Nat /\ MaxFailures \in Nat

VARIABLES
    pc,         \* where each thread is
    op,         \* the function it called last
    guard,      \* of the static ok_: unset, the thread that runs its initializer, or done
    lock,       \* libsodium's own, around sodium_init
    ready,      \* libsodium is initialized
    value,      \* what a thread's last init() returned, to start with nothing
    calls,      \* calls made per thread
    failures    \* failures so far

initVars == <<pc, op, guard, lock, ready, value, calls, failures>>

Functions == {"ensure_init", "init", "allocate"}

\* Where -1 and the exceptions leave a call, and where success does.
Returned == {"ok", "failed"}
InitTypeOK ==
    /\ pc \in [Threads -> {"idle", "static", "sodium_init", "locked"} \cup Returned]
    /\ op \in [Threads -> Functions]
    /\ guard \in Threads \cup {"unset", "done"}
    /\ lock \in Threads \cup {Nobody}
    /\ ready \in BOOLEAN
    /\ value \in [Threads -> {"none", "0", "-1"}]
    /\ calls \in [Threads -> 0..MaxCalls]
    /\ failures \in 0..MaxFailures

InitStart ==
    /\ pc = [t \in Threads |-> "idle"]
    /\ op = [t \in Threads |-> "init"]
    /\ guard = "unset"
    /\ lock = Nobody
    /\ ready = FALSE
    /\ value = [t \in Threads |-> "none"]
    /\ calls = [t \in Threads |-> 0]
    /\ failures = 0

Goto(t, place) == pc' = [pc EXCEPT ![t] = place]

\* allocate calls sodium_init itself, the others enter the static.
Call(t, f) ==
    /\ pc[t] = "idle"
    /\ calls[t] < MaxCalls
    /\ calls' = [calls EXCEPT ![t] = @ + 1]
    /\ op' = [op EXCEPT ![t] = f]
    /\ Goto(t, IF f = "allocate" THEN "sodium_init" ELSE "static")
    /\ UNCHANGED <<guard, lock, ready, value, failures>>

\* Mutant: an init() that does not catch.
LeaveUncaught(t, place) ==
    /\ Goto(t, place)
    /\ value' = [value EXCEPT ![t] = IF op[t] # "init" THEN @
                                     ELSE IF place = "ok" THEN "0" ELSE "SodiumInitError"]

\* The call returns; init() turns the exception into -1, and everything else
\* into 0.
Leave(t, place) ==
    /\ Goto(t, place)
    /\ value' = [value EXCEPT ![t] = IF op[t] # "init" THEN @
                                     ELSE IF place = "ok" THEN "0" ELSE "-1"]

\* The static has been initialized.
PassStatic(t) ==
    /\ pc[t] = "static"
    /\ guard = "done"
    /\ Leave(t, "ok")
    /\ UNCHANGED <<op, guard, lock, ready, calls, failures>>

\* Mutant: an ordinary flag in place of the static: who finds it unset goes on.
EnterStaticUnguarded(t) ==
    /\ pc[t] = "static"
    /\ guard # "done"
    /\ guard' = "done"
    /\ Goto(t, "sodium_init")
    /\ UNCHANGED <<op, lock, ready, value, calls, failures>>

\* The static has not, and nobody is at it; while somebody is, others wait.
EnterStatic(t) ==
    /\ pc[t] = "static"
    /\ guard = "unset"
    /\ guard' = t
    /\ Goto(t, "sodium_init")
    /\ UNCHANGED <<op, lock, ready, value, calls, failures>>

-----------------------------------------------------------------------------
\* sodium_init: one thread at a time is inside.
TakeLock(t) ==
    /\ pc[t] = "sodium_init"
    /\ lock = Nobody
    /\ lock' = t
    /\ Goto(t, "locked")
    /\ UNCHANGED <<op, guard, ready, value, calls, failures>>

\* It returns 0, or 1 when libsodium was initialized before.
Succeed(t) ==
    /\ pc[t] = "locked"
    /\ lock' = Nobody
    /\ ready' = TRUE
    /\ guard' = IF guard = t THEN "done" ELSE guard
    /\ Leave(t, "ok")
    /\ UNCHANGED <<op, calls, failures>>

\* Mutant: a failure that counts as an initialized static.
FailSticks(t) ==
    /\ pc[t] = "locked"
    /\ ~ready
    /\ failures < MaxFailures
    /\ failures' = failures + 1
    /\ lock' = Nobody
    /\ guard' = IF guard = t THEN "done" ELSE guard
    /\ Leave(t, "failed")
    /\ UNCHANGED <<op, ready, calls>>

\* Mutant: the exception leaves the static locked.
FailKeepsGuard(t) ==
    /\ pc[t] = "locked"
    /\ ~ready
    /\ failures < MaxFailures
    /\ failures' = failures + 1
    /\ lock' = Nobody
    /\ Leave(t, "failed")
    /\ UNCHANGED <<op, guard, ready, calls>>

\* It returns -1: the exception leaves the static's initializer, the static
\* stays uninitialized and the next caller, waiting or not, tries again.
Fail(t) ==
    /\ pc[t] = "locked"
    /\ ~ready
    /\ failures < MaxFailures
    /\ failures' = failures + 1
    /\ lock' = Nobody
    /\ guard' = IF guard = t THEN "unset" ELSE guard
    /\ Leave(t, "failed")
    /\ UNCHANGED <<op, ready, calls>>

Return(t) ==
    /\ pc[t] \in Returned
    /\ Goto(t, "idle")
    /\ UNCHANGED <<op, guard, lock, ready, value, calls, failures>>

Step(t) ==
    PassStatic(t) \/ EnterStatic(t) \/ TakeLock(t) \/ Succeed(t) \/ Fail(t) \/ Return(t)

InitNext == \E t \in Threads : Step(t) \/ \E f \in Functions : Call(t, f)

InitSpec == InitStart /\ [][InitNext]_initVars

\* The scheduler runs every thread that can run.
FairSpec == InitSpec /\ \A t \in Threads : WF_initVars(Step(t))

-----------------------------------------------------------------------------
(***************************************************************************)
(* Properties                                                              *)
(***************************************************************************)

\* Whoever came back without an error, or was told 0 by init() and remembers
\* it, may use libsodium, whichever way it came and whoever did the work
\* (init.hpp, ensure_init).
SuccessMeansReady == \A t \in Threads : pc[t] = "ok" \/ value[t] = "0" => ready

\* The initializer of the static runs in one thread at a time, and once it has
\* succeeded in none: of the threads inside sodium_init, at most one came
\* through the static, and it holds the guard.
OneInitializer ==
    \A t \in Threads : pc[t] \in {"sodium_init", "locked"} /\ op[t] # "allocate" => guard = t

\* A failure is not final: whoever waited for the static while another failed
\* tries by itself, so every call returns.
EveryCallReturns == \A t \in Threads : pc[t] # "idle" ~> pc[t] = "idle"

=============================================================================
