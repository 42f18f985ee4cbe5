---------------------------- MODULE NetworkGuard ----------------------------
(***************************************************************************)
(* The network guard around every call of a plugin's capability            *)
(* (plugin_system/runtime.py, CapabilityProxy in plugin_system/registry.py *)
(* and the calls of host_runner.py).                                       *)
(*                                                                         *)
(* A call of a plugin without network permission saves the two functions   *)
(* of the socket module, replaces them by one that raises, runs the plugin *)
(* and puts back what it saved.  The functions are globals of the process; *)
(* each of the six statements that read or write one is a step.  Calls     *)
(* nest: a plugin may call other capabilities through its context.  Code   *)
(* that runs in no such call is not guarded and no part of this module.    *)
(***************************************************************************)
EXTENDS Naturals, Sequences

CONSTANTS Threads,     \* threads of the process that call capabilities
          MaxDepth     \* BOUND on the nesting of calls

ASSUME GuardAssumption == MaxDepth \in Nat

Api == {"socket", "create_connection"}
Impl == {"open", "blocked"}    \* the real function, or one that raises

VARIABLES
    api,               \* socket.socket and socket.create_connection
    calls              \* [Threads -> the thread's stack of guarded calls]

vars == <<api, calls>>

\* What a denied call does, in order: network_guard(False).
Program == <<
    [op |-> "save", fn |-> "socket"],
    [op |-> "save", fn |-> "create_connection"],
    [op |-> "patch", fn |-> "socket"],
    [op |-> "patch", fn |-> "create_connection"],
    [op |-> "body", fn |-> "socket"],
    [op |-> "restore", fn |-> "socket"],
    [op |-> "restore", fn |-> "create_connection"] >>

Body == 5

Call == [allowed : BOOLEAN, step : 1..7, saved : [Api -> Impl]]

TypeOK ==
    /\ api \in [Api -> Impl]
    /\ calls \in [Threads -> Seq(Call)]

Init ==
    /\ api = [f \in Api |-> "open"]
    /\ calls = [t \in Threads |-> << >>]

----------------------------------------------------------------------------

Depth(t) == Len(calls[t])
Top(t) == calls[t][Depth(t)]
Pop(t) == calls' = [calls EXCEPT ![t] = SubSeq(@, 1, Len(@) - 1)]
SetTop(t, c) == calls' = [calls EXCEPT ![t][Depth(t)] = c]

InCall(t) == Depth(t) > 0
At(t, op) == InCall(t) /\ Program[Top(t).step].op = op
Fn(t) == Program[Top(t).step].fn

\* Mutation of FirstStep: the argument `enabled` is ignored.
FirstStepAlways(allowed) == 1
\* Where a call starts: network_guard(True) yields at once.
FirstStep(allowed) == IF allowed THEN Body ELSE 1

\* A thread calls a capability, from the kernel or from inside a plugin.
Enter(t, allowed) ==
    /\ InCall(t) => Top(t).step = Body
    /\ Depth(t) < MaxDepth
    /\ calls' = [calls EXCEPT ![t] = Append(@,
          [allowed |-> allowed, step |-> FirstStep(allowed), saved |-> [f \in Api |-> "open"]])]
    /\ UNCHANGED api

\* The call goes on to its next statement.
Stepped(c) == [c EXCEPT !.step = @ + 1]

\* original = socket.<fn>
Saving(t) == [Top(t).saved EXCEPT ![Fn(t)] = api[Fn(t)]]
Save(t) ==
    /\ At(t, "save")
    /\ SetTop(t, Stepped([Top(t) EXCEPT !.saved = Saving(t)]))
    /\ UNCHANGED api

\* socket.<fn> = _blocked
Patch(t) ==
    /\ At(t, "patch")
    /\ api' = [api EXCEPT ![Fn(t)] = "blocked"]
    /\ SetTop(t, Stepped(Top(t)))

\* Mutation of NothingToRestore: no `finally`, so that an exception skips the rest.
UnwindsAtOnce(t) == TRUE
\* network_guard(True) has nothing after its yield.
NothingToRestore(t) == Top(t).allowed

\* The plugin returns or raises; `finally` runs if the call was denied.
Return(t) ==
    /\ At(t, "body")
    /\ IF NothingToRestore(t) THEN Pop(t) ELSE SetTop(t, Stepped(Top(t)))
    /\ UNCHANGED api

\* Mutation of Restored: the guard puts back the real function.
RestoredOpen(t) == "open"
\* What `finally` assigns to the function.
Restored(t) == Top(t).saved[Fn(t)]

\* Mutation of CallOver: off by one.
CallOverLate(t) == Top(t).step > Len(Program)
CallOver(t) == Top(t).step = Len(Program)

\* socket.<fn> = original
Restore(t) ==
    /\ At(t, "restore")
    /\ api' = [api EXCEPT ![Fn(t)] = Restored(t)]
    /\ IF CallOver(t)
       THEN Pop(t)
       ELSE SetTop(t, Stepped(Top(t)))

Next == \E t \in Threads :
    \/ \E allowed \in BOOLEAN : Enter(t, allowed)
    \/ Save(t) \/ Patch(t) \/ Return(t) \/ Restore(t)

Spec == Init /\ [][Next]_vars

----------------------------------------------------------------------------
(* Properties.                                                             *)

Running(t) == InCall(t) /\ Top(t).step = Body
Denied(t) == \E i \in 1..Depth(t) : ~calls[t][i].allowed

\* A guarded call of a plugin without the permission, and every call it makes in
\* turn, finds both socket functions raising, however calls nest and end.  That
\* is narrower than "Network access is denied by default"
\* (contracts/security.md:4): what runs outside of guarded calls (the import of
\* a module, meta plugins, threads a plugin starts) finds whatever is there.
DeniedCallsAreBlocked ==
    \A t \in Threads : Running(t) /\ Denied(t) => \A f \in Api : api[f] = "blocked"

\* The egress gateway reaches the network, unless called by a plugin that may not.
AllowedCallsConnect ==
    \A t \in Threads : Running(t) /\ ~Denied(t) => \A f \in Api : api[f] = "open"

\* When no call is under way the functions are the real ones again.
RestoredAtRest ==
    (\A t \in Threads : ~InCall(t)) => \A f \in Api : api[f] = "open"

============================================================================
