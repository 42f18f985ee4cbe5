----------------------------- MODULE PluginHost -----------------------------
(***************************************************************************)
(* A plugin hosted in a child process (plugin_system/host.py) and the loop *)
(* that serves it there (plugin_system/host_runner.py).                    *)
(*                                                                         *)
(* Requests and replies are lines on the child's stdin and stdout.  The    *)
(* kernel's side writes a request and takes the next line for its reply,   *)
(* without comparing ids, without a lock and without a timeout.            *)
(***************************************************************************)
EXTENDS Naturals, Sequences

CONSTANTS Callers,     \* threads of the kernel that call the plugin
          MaxRequests, \* BOUND on the requests numbered in a behaviour
          MaxLines     \* BOUND on the lines the plugin prints

ASSUME HostAssumption == MaxRequests \in Nat /\ MaxLines \in Nat

VARIABLES
    host,              \* the kernel's SubprocessPlugin
    runner,            \* the child process
    requests,          \* ids of the request lines the runner has yet to read
    serving,           \* id of the request the runner is at, or NoRequest
    replies,           \* lines the kernel has yet to read: [id, kind]
    reqId,             \* PluginProcess._req_id
    call,              \* [Callers -> [at, id, outcome, got]]
    printed,           \* lines the plugin has printed
    strays             \* history: how many of them were taken for a reply

pipes == <<requests, serving, replies>>
counts == <<printed, strays>>
vars == <<host, runner, pipes, reqId, call, counts>>

NoRequest == 0

\* A line on the child's stdout.  id is that of the request it answers, or
\* NoRequest if the plugin printed it; kind is what _request finds in it: an
\* object with a true ok, an object without one, or no object.
Line == [id : Nat, kind : {"ok", "error", "noise"}]

\* How _request ended: with a result, PluginError of what the line says, an
\* exception of json.loads or of .get, PluginError("Plugin host closed"), or
\* before anything was written: TypeError of json.dumps, an OSError of the pipe.
Outcome == {"none", "result", "error", "garbled", "lost", "unsent", "broken"}
Call == [at : {"out", "waiting"}, id : Nat, outcome : Outcome, got : Nat]

TypeOK ==
    /\ host \in {"new", "listing", "open", "failed", "closing", "closed"}
    /\ runner \in {"loading", "ready", "serving", "dead"}
    /\ requests \in Seq(Nat)
    /\ serving \in Nat
    /\ replies \in Seq(Line)
    /\ reqId \in 0..MaxRequests
    /\ call \in [Callers -> Call]
    /\ printed \in 0..MaxLines /\ strays \in Nat

\* Popen has returned and the configuration has been written.
Init ==
    /\ host = "new"
    /\ runner = "loading"
    /\ requests = << >>
    /\ serving = NoRequest
    /\ replies = << >>
    /\ reqId = 0
    /\ call = [c \in Callers |-> [at |-> "out", id |-> 0, outcome |-> "none", got |-> 0]]
    /\ printed = 0 /\ strays = 0

----------------------------------------------------------------------------
(* The kernel's side.                                                      *)

\* Mutation of Numbered: the id is counted once by the caller, once here.
NumberedTwice == reqId + 2
\* self._req_id += 1
Numbered == reqId + 1

\* _encode looks into lists and dicts.  args is a tuple, so that a positional
\* argument of bytes reaches json.dumps as it is.
Encodable(arg) == arg = "plain"

\* Mutation of Written: the line goes out before its arguments are encoded.
WrittenFirst(arg) == TRUE
Written(arg) == Encodable(arg)

\* _request up to the flush.
Ask(c, arg) ==
    /\ call[c].at = "out"
    /\ reqId < MaxRequests
    /\ reqId' = Numbered
    /\ requests' = IF Written(arg) /\ runner # "dead" THEN Append(requests, Numbered) ELSE requests
    /\ call' = [call EXCEPT ![c] =
          [at |-> IF Encodable(arg) /\ runner # "dead" THEN "waiting" ELSE "out",
           id |-> Numbered,
           outcome |-> IF ~Encodable(arg) THEN "unsent"
                       ELSE IF runner = "dead" THEN "broken" ELSE "none",
           got |-> 0]]
    /\ UNCHANGED <<runner, serving, replies, counts>>

\* SubprocessPlugin.__init__ asks for the capabilities.
ListCapabilities(c) ==
    /\ host = "new"
    /\ Ask(c, "plain")
    /\ host' = IF runner = "dead" THEN "failed" ELSE "listing"

\* RemoteCapability's _call.
CallMethod(c, arg) ==
    /\ host = "open"
    /\ Ask(c, arg)
    /\ UNCHANGED host

\* What the constructor makes of its request's outcome.  A line the plugin printed
\* may pass for the listing, or have no result that could.
HostAfter(outcome, got) ==
    IF host # "listing" THEN {host}
    ELSE IF outcome # "result" THEN {"failed"}
    ELSE IF got # NoRequest THEN {"open"} ELSE {"open", "failed"}

Finish(c, outcome, got) ==
    /\ call' = [call EXCEPT ![c] = [@ EXCEPT !.at = "out", !.outcome = outcome, !.got = got]]
    /\ host' \in HostAfter(outcome, got)
    /\ UNCHANGED <<runner, requests, serving, reqId, printed>>

\* readline gives a line, the plugin's own or not: _request looks at ok only.
Ending(kind) ==
    CASE kind = "ok" -> "result" [] kind = "error" -> "error" [] kind = "noise" -> "garbled"

Receive(c) ==
    /\ call[c].at = "waiting"
    /\ replies # << >>
    /\ LET line == Head(replies)
       IN /\ Finish(c, Ending(line.kind), line.id)
          /\ strays' = IF line.id = NoRequest THEN strays + 1 ELSE strays
    /\ replies' = Tail(replies)

\* Mutations of EndOfFile: the read does not block; the kernel keeps the write end
\* of the pipe open.
EndOfFileEarly == replies = << >>
EndOfFileNever == FALSE
EndOfFile == runner = "dead" /\ replies = << >>

\* readline gives an empty line.
ReceiveNothing(c) ==
    /\ call[c].at = "waiting"
    /\ EndOfFile
    /\ Finish(c, "lost", NoRequest)
    /\ UNCHANGED <<replies, strays>>

\* close(), run at exit: terminate, wait two seconds ...
Close ==
    /\ host \in {"open", "failed"}
    /\ \A c \in Callers : call[c].at = "out"
    /\ host' = "closing"
    /\ UNCHANGED <<runner, pipes, reqId, call, counts>>

\* ... and kill, if it is still there; then the pipes are closed.
Reap ==
    /\ host = "closing"
    /\ host' = "closed"
    /\ runner' = "dead"
    /\ requests' = << >> /\ replies' = << >> /\ serving' = NoRequest
    /\ UNCHANGED <<reqId, call, counts>>

----------------------------------------------------------------------------
(* The runner's side.                                                      *)

\* The module is executed, the configuration read, the factory called.
Load ==
    /\ runner = "loading"
    /\ runner' = "ready"
    /\ UNCHANGED <<host, pipes, reqId, call, counts>>

Serve ==
    /\ runner = "ready"
    /\ requests # << >>
    /\ serving' = Head(requests)
    /\ requests' = Tail(requests)
    /\ runner' = "serving"
    /\ UNCHANGED <<host, replies, reqId, call, counts>>

\* Mutation of Lines: after the handler the runner goes on to the reply.
LinesTwice(kind) ==
    IF kind # "error" THEN << [id |-> serving, kind |-> kind] >>
    ELSE << [id |-> serving, kind |-> "error"], [id |-> serving, kind |-> "ok"] >>
\* What the runner writes when the method has returned or raised.
Lines(kind) == << [id |-> serving, kind |-> kind] >>

\* The listing of the capabilities (request 1) runs no method of the plugin.  What
\* the plugin printed without a newline is in front of the reply, on its line.
Answer(kind) ==
    /\ runner = "serving"
    /\ kind = "error" => serving > 1
    /\ replies' = replies \o Lines(kind)
    /\ serving' = NoRequest
    /\ runner' = "ready"
    /\ UNCHANGED <<host, requests, reqId, call, counts>>

\* The module, a method or a thread of the plugin prints a line of its own.
PrintLine(kind) ==
    /\ runner # "dead"
    /\ printed < MaxLines
    /\ printed' = printed + 1
    /\ replies' = Append(replies, [id |-> NoRequest, kind |-> kind])
    /\ UNCHANGED <<host, runner, requests, serving, reqId, call, strays>>

\* Loading raises, the result is nothing json.dumps can write (which is outside
\* the runner's try), the method exits, or the process is killed.
RunnerDies ==
    /\ runner # "dead"
    /\ runner' = "dead"
    /\ serving' = NoRequest
    /\ UNCHANGED <<host, requests, replies, reqId, call, counts>>

----------------------------------------------------------------------------

Runner == Load \/ Serve \/ \E kind \in {"ok", "error", "noise"} : Answer(kind)
Read(c) == Receive(c) \/ ReceiveNothing(c)

Next ==
    \/ \E c \in Callers :
         \/ ListCapabilities(c)
         \/ \E arg \in {"plain", "binary"} : CallMethod(c, arg)
         \/ Read(c)
    \/ Close \/ Reap
    \/ Runner \/ RunnerDies
    \/ \E kind \in {"ok", "error", "noise"} : PrintLine(kind)

Spec == Init /\ [][Next]_vars

\* The plugin's methods return, and whoever waits in readline gets the line.
FairSpec == Spec /\ WF_vars(Runner) /\ \A c \in Callers : WF_vars(Read(c))

----------------------------------------------------------------------------
(* Properties.                                                             *)

\* What a call returns or raises is the answer to that call, until a line the
\* plugin printed has been taken for a reply; and never is it the answer to a call
\* that was not made yet.
OwnReply ==
    \A c \in Callers : call[c].outcome \in {"result", "error"} =>
        /\ call[c].got <= call[c].id
        /\ call[c].got = call[c].id \/ strays > 0

\* Between calls a live runner has exactly as many lines on their way as the plugin
\* has printed, whatever the calls before ended with: nothing is left behind but by
\* printing, and what a printed line leaves behind stays for good.  The request or
\* the reply it displaced counts as much as the line itself.
OnTheirWay == Len(requests) + (IF serving = NoRequest THEN 0 ELSE 1) + Len(replies)
InSync ==
    (\A c \in Callers : call[c].at = "out") /\ runner # "dead" => OnTheirWay = printed

\* A caller that was told the plugin is gone was told the truth.
LostMeansDead ==
    \A c \in Callers : call[c].outcome \in {"lost", "broken"} => runner = "dead"

\* A call returns, though nothing in the kernel times it out: the runner answers
\* or dies, and its death ends the wait.
CallReturns == \A c \in Callers : call[c].at = "waiting" ~> call[c].at = "out"

\* `autocapture query` runs "optional on-demand extraction"
\* (contracts/user_surface.md): the frame, which is bytes, reaches the hosted
\* OCR and vision plugins.
FramesAreSent == \A c \in Callers : call[c].outcome # "unsent"

============================================================================
