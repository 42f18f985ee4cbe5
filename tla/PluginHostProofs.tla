-------------------------- MODULE PluginHostProofs --------------------------
(***************************************************************************)
(* One thread calls the hosted plugin: until a printed line is taken for a *)
(* reply, every reply is the caller's own, and what is on its way between  *)
(* two calls is one line for each one printed, for any number of calls,    *)
(* deaths and printed lines.                                               *)
(***************************************************************************)
EXTENDS PluginHost, SequenceTheorems, TLAPS

Waiting(c) == call[c].at = "waiting"

\* Where the request of c is while it waits.
RequestsAreOwn(c) ==
    /\ Waiting(c) => call[c].id # NoRequest
    /\ requests # << >> =>
        /\ serving = NoRequest
        /\ Waiting(c) => requests = << call[c].id >>
        /\ ~Waiting(c) => runner = "dead"

ServesOwn(c) ==
    /\ serving # NoRequest => runner = "serving"
    /\ runner = "serving" => Waiting(c) /\ serving = call[c].id /\ requests = << >>

\* There is one reply at most, and nothing is left to be done once it is there.
RepliesAreOwn(c) ==
    /\ \A i \in 1..Len(replies) : replies[i].id # NoRequest =>
         /\ Waiting(c) /\ replies[i].id = call[c].id
         /\ requests = << >> /\ serving = NoRequest
    /\ \A i, j \in 1..Len(replies) :
         replies[i].id # NoRequest /\ replies[j].id # NoRequest => i = j

HostFits(c) ==
    /\ host = "new" => ~Waiting(c)
    /\ Waiting(c) => host \in {"listing", "open"}

InStep(c) ==
    /\ RequestsAreOwn(c)
    /\ ServesOwn(c)
    /\ RepliesAreOwn(c)
    /\ call[c].outcome \in {"result", "error"} => call[c].got = call[c].id

\* Requests and replies, whosever they are, are counted; what waits adds one.
Counted(c) ==
    /\ HostFits(c)
    /\ \A i \in 1..Len(requests) : requests[i] \in 1..reqId
    /\ serving <= reqId
    /\ runner = "serving" <=> serving # NoRequest
    /\ \A i \in 1..Len(replies) : replies[i].id <= reqId
    /\ call[c].id <= reqId /\ (Waiting(c) => call[c].id = reqId)
    /\ call[c].outcome \in {"result", "error"} => call[c].got <= call[c].id
    /\ runner # "dead" => OnTheirWay = printed + (IF Waiting(c) THEN 1 ELSE 0)

IInv(c) ==
    /\ TypeOK
    /\ LostMeansDead
    /\ Counted(c)
    /\ strays = 0 => InStep(c)

----------------------------------------------------------------------------

\* Taking the first line: what is left are the lines after it.
LEMMA TailLines ==
    ASSUME NEW s \in Seq(Line), s # << >>
    PROVE  /\ Tail(s) \in Seq(Line)
           /\ Head(s) = s[1] /\ s[1] \in Line
           /\ Len(s) \in Nat /\ Len(s) >= 1
           /\ Len(Tail(s)) = Len(s) - 1
           /\ \A i \in 1..Len(Tail(s)) : Tail(s)[i] = s[i + 1]
           /\ Len(s) = 1 => Tail(s) = << >>
<1>1. Len(s) \in Nat /\ Len(s) # 0  BY EmptySeq, LenProperties
<1>2. /\ Tail(s) \in Seq(Line)
      /\ Head(s) = s[1] /\ s[1] \in Line
      /\ Len(Tail(s)) = Len(s) - 1
      /\ \A i \in 1..Len(Tail(s)) : Tail(s)[i] = s[i + 1]
  BY <1>1, HeadTailProperties, ElementOfSeq
<1>3. Len(s) = 1 => Tail(s) = << >>
  <2>1. Tail(s) # << >> => Len(Tail(s)) # 0  BY <1>2, EmptySeq
  <2>2. QED  BY <1>1, <1>2, <2>1
<1>4. QED  BY <1>1, <1>2, <1>3

\* Writing a line keeps those before it.
LEMMA AppendLine ==
    ASSUME NEW s \in Seq(Line), NEW line \in Line
    PROVE  /\ Append(s, line) \in Seq(Line)
           /\ s \o << line >> = Append(s, line)
           /\ Len(s) \in Nat
           /\ Len(Append(s, line)) = Len(s) + 1
           /\ \A i \in 1..Len(s) : Append(s, line)[i] = s[i]
           /\ Append(s, line)[Len(s) + 1] = line
BY AppendProperties, AppendIsConcat, LenProperties

\* Every action keeps the variables in their types.
LEMMA TypeInvariant ==
    ASSUME TypeOK, Next
    PROVE  TypeOK'
<1> USE HostAssumption
<1> SUFFICES ASSUME TypeOK, Next PROVE TypeOK'  OBVIOUS
<1>1. ASSUME NEW c \in Callers, NEW arg \in {"plain", "binary"}, Ask(c, arg)
      PROVE  /\ requests' \in Seq(Nat) /\ reqId' \in 0..MaxRequests
             /\ call' \in [Callers -> Call]
  <2>1. reqId + 1 \in 0..MaxRequests /\ Numbered = reqId + 1 /\ reqId + 1 \in Nat
    BY <1>1 DEF TypeOK, Ask, Numbered
  <2>2. Append(requests, Numbered) \in Seq(Nat)  BY <2>1, AppendProperties DEF TypeOK
  <2>3. requests' \in Seq(Nat)  BY <1>1, <2>2 DEF TypeOK, Ask
  <2> DEFINE rec == [at |-> IF Encodable(arg) /\ runner # "dead" THEN "waiting" ELSE "out",
           id |-> Numbered,
           outcome |-> IF ~Encodable(arg) THEN "unsent"
                       ELSE IF runner = "dead" THEN "broken" ELSE "none",
           got |-> 0]
  <2>4. rec \in Call  BY <2>1 DEF Call, Outcome
  <2>5. call' = [call EXCEPT ![c] = rec]  BY <1>1 DEF Ask
  <2>6. call' \in [Callers -> Call]
    <3> HIDE DEF rec
    <3> QED  BY <2>4, <2>5 DEF TypeOK
  <2>7. QED  BY <1>1, <2>1, <2>3, <2>6 DEF Ask
<1>2. ASSUME NEW c \in Callers, NEW outcome \in Outcome, NEW got \in Nat,
             Finish(c, outcome, got)
      PROVE  call' \in [Callers -> Call] /\ printed' = printed
             /\ host' \in {"new", "listing", "open", "failed", "closing", "closed"}
  BY <1>2 DEF Finish, HostAfter, TypeOK, Call
<1>3. ASSUME NEW c \in Callers, ListCapabilities(c) PROVE TypeOK'
  BY <1>3, <1>1 DEF ListCapabilities, Ask, TypeOK, counts
<1>4. ASSUME NEW c \in Callers, NEW arg \in {"plain", "binary"}, CallMethod(c, arg)
      PROVE  TypeOK'
  BY <1>4, <1>1 DEF CallMethod, Ask, TypeOK, counts
<1>5. ASSUME NEW c \in Callers, Receive(c) PROVE TypeOK'
  <2>1. replies \in Seq(Line) /\ replies # << >>  BY <1>5 DEF Receive, TypeOK
  <2>2. Head(replies) \in Line /\ Tail(replies) \in Seq(Line)  BY <2>1, TailLines
  <2>3. Ending(Head(replies).kind) \in Outcome /\ Head(replies).id \in Nat
    BY <2>2 DEF Line, Outcome, Ending
  <2>4. Finish(c, Ending(Head(replies).kind), Head(replies).id) /\ replies' = Tail(replies)
        /\ strays' \in {strays, strays + 1}
    BY <1>5 DEF Receive
  <2>5. call' \in [Callers -> Call] /\ printed' = printed
        /\ host' \in {"new", "listing", "open", "failed", "closing", "closed"}
    BY <2>3, <2>4, <1>2
  <2>6. UNCHANGED <<runner, requests, serving, reqId>>  BY <2>4 DEF Finish
  <2>7. strays' \in Nat  BY <2>4 DEF TypeOK
  <2>8. QED  BY <2>2, <2>4, <2>5, <2>6, <2>7 DEF TypeOK
<1>6. ASSUME NEW c \in Callers, ReceiveNothing(c) PROVE TypeOK'
  <2>1. Finish(c, "lost", 0) /\ UNCHANGED <<replies, strays>>
    BY <1>6 DEF ReceiveNothing, NoRequest
  <2>2. QED  BY <2>1, <1>2 DEF Finish, TypeOK, Outcome
<1>7. CASE Close  BY <1>7 DEF Close, TypeOK, pipes, counts
<1>8. CASE Reap  BY <1>8 DEF Reap, TypeOK, NoRequest, counts
<1>9. CASE Load  BY <1>9 DEF Load, TypeOK, pipes, counts
<1>10. CASE Serve
  <2>1. Head(requests) \in Nat /\ Tail(requests) \in Seq(Nat)
    BY <1>10, HeadTailProperties DEF Serve, TypeOK
  <2>2. QED  BY <1>10, <2>1 DEF Serve, TypeOK, counts
<1>11. ASSUME NEW kind \in {"ok", "error", "noise"}, Answer(kind) PROVE TypeOK'
  <2>1. [id |-> serving, kind |-> kind] \in Line  BY DEF TypeOK, Line
  <2>2. replies' \in Seq(Line)  BY <1>11, <2>1, AppendLine DEF Answer, Lines, TypeOK
  <2>3. QED  BY <1>11, <2>2 DEF Answer, TypeOK, NoRequest, counts
<1>12. ASSUME NEW kind \in {"ok", "error", "noise"}, PrintLine(kind) PROVE TypeOK'
  <2>1. [id |-> NoRequest, kind |-> kind] \in Line  BY DEF NoRequest, Line
  <2>2. replies' \in Seq(Line)  BY <1>12, <2>1, AppendLine DEF PrintLine, TypeOK
  <2>3. printed' \in 0..MaxLines
    <3>1. printed \in 0..MaxLines /\ printed < MaxLines /\ printed' = printed + 1
      BY <1>12 DEF PrintLine, TypeOK
    <3>2. QED  BY <3>1
  <2>4. UNCHANGED <<host, runner, requests, serving, reqId, call, strays>>
    BY <1>12 DEF PrintLine
  <2>5. QED  BY <2>2, <2>3, <2>4 DEF TypeOK
<1>13. CASE RunnerDies  BY <1>13 DEF RunnerDies, TypeOK, NoRequest, counts
<1>14. QED
  BY <1>3, <1>4, <1>5, <1>6, <1>7, <1>8, <1>9, <1>10, <1>11, <1>12, <1>13
     DEF Next, Read, Runner

LEMMA InitInvariant ==
    ASSUME NEW c, Callers = {c}, Init
    PROVE  IInv(c)
<1> USE HostAssumption
<1>1. Len(replies) = 0 /\ Len(requests) = 0  BY EmptySeq DEF Init
<1>2. TypeOK
  <2>1. requests \in Seq(Nat) /\ replies \in Seq(Line)  BY EmptySeq DEF Init
  <2>2. [at |-> "out", id |-> 0, outcome |-> "none", got |-> 0] \in Call  BY DEF Call, Outcome
  <2>3. call \in [Callers -> Call]  BY <2>2 DEF Init
  <2>4. /\ host \in {"new", "listing", "open", "failed", "closing", "closed"}
        /\ runner \in {"loading", "ready", "serving", "dead"}
    BY DEF Init
  <2>5. serving \in Nat /\ reqId \in 0..MaxRequests /\ printed \in 0..MaxLines /\ strays \in Nat
    <3>1. serving = 0 /\ reqId = 0 /\ printed = 0 /\ strays = 0  BY DEF Init, NoRequest
    <3>2. QED  BY <3>1
  <2>6. QED  BY <2>1, <2>3, <2>4, <2>5 DEF TypeOK
<1>3. call[c].at = "out" /\ call[c].id = 0 /\ call[c].outcome = "none"  BY DEF Init
<1>4. InStep(c)
  BY <1>1, <1>3 DEF Init, InStep, RequestsAreOwn, ServesOwn, RepliesAreOwn, Waiting, NoRequest
<1>5. Counted(c)
  BY <1>1, <1>3 DEF Init, Counted, HostFits, Waiting, NoRequest, OnTheirWay
<1>6. LostMeansDead  BY DEF Init, LostMeansDead
<1>7. QED  BY <1>2, <1>4, <1>5, <1>6 DEF IInv

\* A dead runner stays dead, and a caller hears of it only then.
LEMMA LostIsDead ==
    ASSUME TypeOK, LostMeansDead, Next
    PROVE  LostMeansDead'
<1>1. ASSUME NEW c \in Callers, NEW arg, Ask(c, arg) PROVE LostMeansDead'
  BY <1>1 DEF Ask, LostMeansDead, TypeOK
<1>2. ASSUME NEW c \in Callers, Receive(c) PROVE LostMeansDead'
  <2>1. Head(replies).kind \in {"ok", "error", "noise"}
    BY <1>2, TailLines DEF Receive, TypeOK, Line
  <2>2. Ending(Head(replies).kind) \notin {"lost", "broken"}  BY <2>1 DEF Ending
  <2>3. QED  BY <1>2, <2>2 DEF Receive, Finish, LostMeansDead, TypeOK
<1>3. ASSUME NEW c \in Callers, ReceiveNothing(c) PROVE LostMeansDead'
  BY <1>3 DEF ReceiveNothing, EndOfFile, Finish, LostMeansDead, TypeOK
<1>4. ASSUME call' = call, runner = "dead" => runner' = "dead" PROVE LostMeansDead'
  BY <1>4 DEF LostMeansDead
<1>5. QED
  BY <1>1, <1>2, <1>3, <1>4
     DEF Next, ListCapabilities, CallMethod, Read, Close, Reap, Runner, Load, Serve, Answer,
         PrintLine, RunnerDies

\* What a request does, in either place it is made.
LEMMA Asking ==
    ASSUME NEW c, Callers = {c}, IInv(c), NEW arg \in {"plain", "binary"}, Ask(c, arg),
           host \in {"new", "open"},
           host = "new" => host' = IF runner = "dead" THEN "failed" ELSE "listing",
           host = "open" => host' = host,
           host = "new" => arg = "plain"
    PROVE  Counted(c)' /\ (strays' = 0 => InStep(c)')
<1> USE DEF Waiting, NoRequest
<1>1. TypeOK /\ Counted(c)  BY DEF IInv
<1>2. /\ Len(replies) \in Nat /\ Len(requests) \in Nat /\ reqId \in Nat
      /\ call \in [Callers -> Call] /\ call[c] \in Call
      /\ requests \in Seq(Nat) /\ replies \in Seq(Line) /\ serving \in Nat
      /\ printed \in Nat
  BY <1>1, LenProperties, HostAssumption DEF TypeOK
<1>3. call[c].at = "out" /\ UNCHANGED <<runner, serving, replies, printed, strays>>
  BY DEF Ask, counts
<1>4. reqId' = reqId + 1  BY DEF Ask, Numbered
<1>5. \A i \in 1..Len(replies) : replies[i].id \in Nat
  <2> SUFFICES ASSUME NEW i \in 1..Len(replies) PROVE replies[i].id \in Nat
    OBVIOUS
  <2>1. replies[i] \in Line  BY <1>2, ElementOfSeq
  <2>2. QED  BY <2>1 DEF Line
<1>6. CASE Encodable(arg) /\ runner # "dead"
  <2>1. requests' = Append(requests, reqId + 1)
    BY <1>6 DEF Ask, Written, Numbered
  <2>2. call'[c].at = "waiting" /\ call'[c].id = reqId + 1 /\ call'[c].outcome = "none"
    BY <1>2, <1>6 DEF Ask, Numbered
  <2>3. /\ Len(requests') = Len(requests) + 1
        /\ \A i \in 1..Len(requests) : requests'[i] = requests[i]
        /\ requests'[Len(requests) + 1] = reqId + 1
    BY <1>2, <2>1
  <2>4. \A i \in 1..Len(requests') : requests'[i] \in 1..reqId'
    <3> SUFFICES ASSUME NEW i \in 1..Len(requests') PROVE requests'[i] \in 1..(reqId + 1)
      BY <1>4
    <3>1. CASE i = Len(requests) + 1  BY <1>2, <2>3, <3>1
    <3>2. CASE i \in 1..Len(requests)  BY <1>1, <1>2, <2>3, <3>2 DEF Counted
    <3>3. QED  BY <1>2, <2>3, <3>1, <3>2
  <2>5. host' \in {"listing", "open"}  BY <1>6
  <2>6. OnTheirWay' = OnTheirWay + 1
    <3> PICK m : m = Len(requests)  OBVIOUS
    <3> PICK k : k = Len(replies)  OBVIOUS
    <3>1. Len(requests') = m + 1 /\ Len(replies') = k /\ serving' = serving
      BY <1>3, <2>3
    <3>2. m \in Nat /\ k \in Nat  BY <1>2
    <3>3. QED  BY <3>1, <3>2 DEF OnTheirWay
  <2>7. OnTheirWay = printed
    <3>1. OnTheirWay = printed + 0  BY <1>1, <1>3, <1>6 DEF Counted
    <3>2. QED  BY <1>2, <3>1
  <2>8. Counted(c)'
    BY <1>1, <1>2, <1>3, <1>4, <1>5, <2>2, <2>4, <2>5, <2>6, <2>7 DEF Counted, HostFits
  <2>9. ASSUME strays = 0 PROVE InStep(c)'
    <3>1. InStep(c)  BY <2>9 DEF IInv
    <3>2. requests = << >> /\ serving = 0 /\ runner # "serving"
      BY <1>3, <1>6, <3>1 DEF InStep, RequestsAreOwn, ServesOwn
    <3>3. requests' = << reqId + 1 >>  BY <2>1, <3>2
    <3>4. \A i \in 1..Len(replies) : replies[i].id = 0
      BY <1>3, <3>1 DEF InStep, RepliesAreOwn
    <3>5. QED
      BY <1>2, <1>3, <2>2, <3>2, <3>3, <3>4 DEF InStep, RequestsAreOwn, ServesOwn, RepliesAreOwn
  <2>10. QED  BY <1>3, <2>8, <2>9
<1>7. CASE ~(Encodable(arg) /\ runner # "dead")
  <2>1. requests' = requests  BY <1>7 DEF Ask, Written
  <2>2. call'[c].at = "out" /\ call'[c].outcome \in {"unsent", "broken"}
        /\ call'[c].id = reqId + 1
    BY <1>2, <1>7 DEF Ask, Numbered
  <2>3. OnTheirWay' = OnTheirWay  BY <1>3, <2>1 DEF OnTheirWay
  <2>4. host' # "new"  BY <1>7 DEF Encodable
  <2>8. runner' # "dead" => OnTheirWay' = printed' + (IF Waiting(c)' THEN 1 ELSE 0)
    <3>1. runner # "dead" => OnTheirWay = printed + 0  BY <1>1, <1>3 DEF Counted
    <3>2. (IF Waiting(c)' THEN 1 ELSE 0) = 0  BY <2>2
    <3>3. QED  BY <1>3, <2>3, <3>1, <3>2
  <2>9. /\ \A i \in 1..Len(requests') : requests'[i] \in 1..reqId'
        /\ \A i \in 1..Len(replies') : replies'[i].id <= reqId'
        /\ serving' <= reqId'
    BY <1>1, <1>2, <1>3, <1>4, <1>5, <2>1 DEF Counted
  <2>5. Counted(c)'
    BY <1>1, <1>2, <1>3, <1>4, <2>1, <2>2, <2>4, <2>8, <2>9 DEF Counted, HostFits
  <2>6. ASSUME strays = 0 PROVE InStep(c)'
    <3>1. InStep(c)  BY <2>6 DEF IInv
    <3>2. QED
      BY <1>3, <2>1, <2>2, <3>1 DEF InStep, RequestsAreOwn, ServesOwn, RepliesAreOwn
  <2>7. QED  BY <1>3, <2>5, <2>6
<1>8. QED  BY <1>6, <1>7

\* What the end of a read does: the first line is gone, and the caller goes on.
LEMMA Reading ==
    ASSUME NEW c, Callers = {c}, IInv(c), Receive(c)
    PROVE  Counted(c)' /\ (strays' = 0 => InStep(c)')
<1> USE DEF Waiting, NoRequest
<1>1. TypeOK /\ Counted(c)  BY DEF IInv
<1>2. /\ call \in [Callers -> Call] /\ call[c] \in Call /\ Len(requests) \in Nat
      /\ requests \in Seq(Nat) /\ replies \in Seq(Line) /\ serving \in Nat /\ reqId \in Nat
      /\ printed \in Nat /\ strays \in Nat
  BY <1>1, LenProperties, HostAssumption DEF TypeOK
<1>3. replies # << >> /\ call[c].at = "waiting" /\ replies' = Tail(replies)  BY DEF Receive
<1> PICK line : line = Head(replies)  OBVIOUS
<1>4. /\ line = replies[1] /\ line \in Line
      /\ Len(replies) \in Nat /\ Len(replies) >= 1
      /\ Len(replies') = Len(replies) - 1
      /\ \A i \in 1..Len(replies') : replies'[i] = replies[i + 1]
  BY <1>2, <1>3, TailLines
<1> PICK outcome : outcome = Ending(line.kind)  OBVIOUS
<1>5. Finish(c, outcome, line.id)
  BY DEF Receive
<1>6. strays' = IF line.id = 0 THEN strays + 1 ELSE strays  BY DEF Receive
<1>7. outcome \in {"result", "error", "garbled"} /\ line.id \in Nat
  BY <1>4 DEF Line, Ending
<1>8. /\ call'[c].at = "out" /\ call'[c].got = line.id /\ call'[c].id = call[c].id
      /\ call'[c].outcome = outcome
  BY <1>2, <1>5 DEF Finish
<1>9. UNCHANGED <<runner, requests, serving, reqId, printed>> /\ host' # "new"
  BY <1>1, <1>3, <1>5 DEF Finish, HostAfter, Counted, HostFits
<1>10. line.id <= reqId /\ call[c].id = reqId
  BY <1>1, <1>3, <1>4 DEF Counted
<1>11. OnTheirWay' = OnTheirWay - 1
  BY <1>2, <1>4, <1>9 DEF OnTheirWay
<1>12. runner # "dead" => OnTheirWay = printed + 1
  BY <1>1, <1>3 DEF Counted
<1>13. OnTheirWay \in Nat
  BY <1>2, <1>4 DEF OnTheirWay
<1>14. \A i \in 1..Len(replies') : replies'[i].id <= reqId
  BY <1>1, <1>4 DEF Counted
<1>15. Counted(c)'
  BY <1>1, <1>2, <1>8, <1>9, <1>10, <1>11, <1>12, <1>13, <1>14 DEF Counted, HostFits
<1>16. ASSUME strays' = 0 PROVE InStep(c)'
  <2>1. strays = 0 /\ line.id # 0  BY <1>2, <1>6, <1>16
  <2>2. InStep(c)  BY <2>1 DEF IInv
  <2>3. line.id = call[c].id /\ requests = << >> /\ serving = 0
    BY <1>4, <2>1, <2>2 DEF InStep, RepliesAreOwn
  <2>4. \A i \in 1..Len(replies') : replies'[i].id = 0
    <3> SUFFICES ASSUME NEW i \in 1..Len(replies'), replies'[i].id # 0 PROVE FALSE
      OBVIOUS
    <3>1. i + 1 \in 1..Len(replies) /\ 1 \in 1..Len(replies) /\ i + 1 # 1
          /\ replies[i + 1].id # 0 /\ replies[1].id # 0
      BY <1>4, <2>1
    <3>2. QED  BY <2>2, <3>1 DEF InStep, RepliesAreOwn
  <2>5. runner # "serving"  BY <1>1, <2>3 DEF Counted
  <2>6. QED
    BY <1>8, <1>9, <2>3, <2>4, <2>5 DEF InStep, RequestsAreOwn, ServesOwn, RepliesAreOwn
<1>17. QED  BY <1>15, <1>16

\* A line more, a reply or a printed one.
LEMMA OneLineMore ==
    ASSUME NEW line \in Line, replies \in Seq(Line), replies' = Append(replies, line)
    PROVE  /\ Len(replies) \in Nat /\ Len(replies') = Len(replies) + 1
           /\ \A i \in 1..Len(replies') :
                replies'[i] = line \/ (i \in 1..Len(replies) /\ replies'[i] = replies[i])
           /\ \A i \in 1..Len(replies') : i # Len(replies) + 1 =>
                i \in 1..Len(replies) /\ replies'[i] = replies[i]
           /\ replies'[Len(replies) + 1] = line
<1>1. /\ Len(replies) \in Nat /\ Len(replies') = Len(replies) + 1
      /\ \A i \in 1..Len(replies) : replies'[i] = replies[i]
      /\ replies'[Len(replies) + 1] = line
  BY AppendLine
<1>2. QED  BY <1>1

\* Every action keeps the count of the lines, and the request and its reply in step
\* until a printed line is taken for one.
\* What a step of the runner, or a printed line, has to show.
LEMMA StillCounted ==
    ASSUME NEW c, Counted(c), UNCHANGED <<host, call, reqId>>,
           \A i \in 1..Len(requests') : requests'[i] \in 1..reqId,
           serving' <= reqId, runner' = "serving" <=> serving' # NoRequest,
           \A i \in 1..Len(replies') : replies'[i].id <= reqId,
           runner' # "dead" => OnTheirWay' = printed' + (IF Waiting(c) THEN 1 ELSE 0)
    PROVE  Counted(c)'
<1>1. Waiting(c)' <=> Waiting(c)  BY DEF Waiting
<1>2. HostFits(c)'  BY <1>1 DEF Counted, HostFits
<1>3. runner' # "dead" => OnTheirWay' = printed' + (IF Waiting(c)' THEN 1 ELSE 0)  BY <1>1
<1>4. QED  BY <1>1, <1>2, <1>3 DEF Counted

LEMMA StepsStayInStep ==
    ASSUME NEW c, Callers = {c}, IInv(c), Next
    PROVE  Counted(c)' /\ (strays' = 0 => InStep(c)')
<1> DEFINE Goal == Counted(c)' /\ (strays' = 0 => InStep(c)')
<1> USE DEF Waiting, NoRequest
<1>1. TypeOK /\ TypeOK' /\ Counted(c)  BY TypeInvariant DEF IInv
<1>2. /\ call \in [Callers -> Call] /\ call[c] \in Call /\ Len(requests) \in Nat
      /\ requests \in Seq(Nat) /\ replies \in Seq(Line) /\ serving \in Nat /\ reqId \in Nat
      /\ printed \in Nat /\ strays \in Nat /\ Len(replies) \in Nat
  BY <1>1, LenProperties, HostAssumption DEF TypeOK
<1>3. ASSUME UNCHANGED <<call, replies, reqId, strays, printed>>,
             UNCHANGED <<runner, requests, serving>>,
             host' # "new" \/ host' = host, call[c].at = "waiting" => host' = host
      PROVE  Goal
  <2>1. OnTheirWay' = OnTheirWay  BY <1>3 DEF OnTheirWay
  <2>2. Counted(c)'  BY <1>1, <1>3, <2>1 DEF Counted, HostFits
  <2>3. strays = 0 => InStep(c)'
    BY <1>3 DEF IInv, InStep, RequestsAreOwn, ServesOwn, RepliesAreOwn
  <2>4. QED  BY <1>3, <2>2, <2>3
<1>4. CASE ListCapabilities(c)
  <2>1. host = "new" /\ Ask(c, "plain")
        /\ host' = IF runner = "dead" THEN "failed" ELSE "listing"
    BY <1>4 DEF ListCapabilities
  <2>2. QED  BY <2>1, Asking
<1>5. ASSUME NEW arg \in {"plain", "binary"}, CallMethod(c, arg) PROVE Goal
  <2>1. host = "open" /\ Ask(c, arg) /\ host' = host  BY <1>5 DEF CallMethod
  <2>2. QED  BY <2>1, Asking
<1>6. CASE Receive(c)  BY <1>6, Reading
<1>7. CASE ReceiveNothing(c)
  <2>1. call[c].at = "waiting" /\ runner = "dead" /\ replies = << >>
        /\ UNCHANGED <<replies, strays>>
    BY <1>7 DEF ReceiveNothing, EndOfFile
  <2>2. Finish(c, "lost", 0)  BY <1>7 DEF ReceiveNothing
  <2>3. /\ call'[c].at = "out" /\ call'[c].outcome = "lost" /\ call'[c].id = call[c].id
        /\ UNCHANGED <<runner, requests, serving, reqId, printed>> /\ host' # "new"
    BY <1>1, <1>2, <2>1, <2>2 DEF Finish, HostAfter, Counted, HostFits
  <2>4. Len(replies') = 0  BY <2>1, EmptySeq
  <2>5. Counted(c)'  BY <1>1, <2>1, <2>3, <2>4 DEF Counted, HostFits
  <2>6. strays = 0 => InStep(c)'
    BY <2>1, <2>3, <2>4 DEF IInv, InStep, RequestsAreOwn, ServesOwn, RepliesAreOwn
  <2>7. QED  BY <2>1, <2>5, <2>6
<1>8. CASE Close
  <2>1. call[c].at = "out"  BY <1>8 DEF Close
  <2>2. QED  BY <1>3, <1>8, <2>1 DEF Close, pipes, counts
<1>9. CASE Reap
  <2>1. call[c].at # "waiting"  BY <1>1, <1>9 DEF Reap, Counted, HostFits
  <2>2. Len(replies') = 0 /\ Len(requests') = 0  BY <1>9, EmptySeq DEF Reap
  <2>3. /\ UNCHANGED <<reqId, call, printed, strays>> /\ serving' = 0
        /\ runner' = "dead" /\ host' = "closed" /\ requests' = << >>
    BY <1>9 DEF Reap, counts
  <2>4. Counted(c)'  BY <1>1, <1>2, <2>1, <2>2, <2>3 DEF Counted, HostFits
  <2>5. strays = 0 => InStep(c)'
    BY <2>1, <2>2, <2>3 DEF IInv, InStep, RequestsAreOwn, ServesOwn, RepliesAreOwn
  <2>6. QED  BY <2>3, <2>4, <2>5
<1>10. CASE Load
  <2>1. UNCHANGED <<host, requests, serving, replies, reqId, call, printed, strays>>
        /\ runner = "loading" /\ runner' = "ready"
    BY <1>10 DEF Load, pipes, counts
  <2>2. OnTheirWay' = OnTheirWay  BY <2>1 DEF OnTheirWay
  <2>3. Counted(c)'  BY <1>1, <2>1, <2>2 DEF Counted, HostFits
  <2>4. strays = 0 => InStep(c)'
    BY <2>1 DEF IInv, InStep, RequestsAreOwn, ServesOwn, RepliesAreOwn
  <2>5. QED  BY <2>1, <2>3, <2>4
<1>11. CASE Serve
  <2>1. /\ UNCHANGED <<host, replies, reqId, call, printed, strays>>
        /\ runner = "ready" /\ runner' = "serving" /\ requests # << >>
        /\ serving' = Head(requests) /\ requests' = Tail(requests)
    BY <1>11 DEF Serve, counts
  <2>2. /\ Len(requests) >= 1 /\ serving' = requests[1]
        /\ Len(requests') = Len(requests) - 1
        /\ \A i \in 1..Len(requests') : requests'[i] = requests[i + 1]
    BY <1>2, <2>1, HeadTailProperties, EmptySeq
  <2>3. serving = 0 /\ serving' \in 1..reqId  BY <1>1, <1>2, <2>1, <2>2 DEF Counted
  <2>4. OnTheirWay' = OnTheirWay  BY <1>2, <2>1, <2>2, <2>3 DEF OnTheirWay
  <2>5. \A i \in 1..Len(requests') : requests'[i] \in 1..reqId
    <3> SUFFICES ASSUME NEW i \in 1..Len(requests') PROVE requests'[i] \in 1..reqId
      OBVIOUS
    <3>1. i + 1 \in 1..Len(requests) /\ requests'[i] = requests[i + 1]  BY <1>2, <2>2
    <3>2. QED  BY <1>1, <3>1 DEF Counted
  <2>9. \A i \in 1..Len(replies') : replies'[i].id <= reqId  BY <1>1, <2>1 DEF Counted
  <2>10. runner' # "dead" => OnTheirWay' = printed' + (IF Waiting(c) THEN 1 ELSE 0)
    BY <1>1, <2>1, <2>4 DEF Counted
  <2>6. Counted(c)'  BY <1>1, <1>2, <2>1, <2>3, <2>5, <2>9, <2>10, StillCounted
  <2>7. ASSUME strays = 0 PROVE InStep(c)'
    <3>1. InStep(c)  BY <2>7 DEF IInv
    <3>2. call[c].at = "waiting" /\ requests = << call[c].id >>
      BY <2>1, <3>1 DEF InStep, RequestsAreOwn
    <3>3. serving' = call[c].id /\ requests' = << >>  BY <2>1, <3>2
    <3>4. \A i \in 1..Len(replies) : replies[i].id = 0
      BY <2>1, <3>1 DEF InStep, RepliesAreOwn
    <3>5. QED
      BY <2>1, <3>1, <3>2, <3>3, <3>4 DEF InStep, RequestsAreOwn, ServesOwn, RepliesAreOwn
  <2>8. QED  BY <2>1, <2>6, <2>7
<1>12. ASSUME NEW kind \in {"ok", "error", "noise"}, Answer(kind) PROVE Goal
  <2> PICK line : line = [id |-> serving, kind |-> kind]  OBVIOUS
  <2>1. line \in Line /\ line.id = serving  BY <1>2 DEF Line
  <2>2. replies' = Append(replies, line)
    BY <1>2, <1>12, <2>1, AppendLine DEF Answer, Lines
  <2>3. /\ UNCHANGED <<host, requests, reqId, call, printed, strays>>
        /\ runner = "serving" /\ runner' = "ready" /\ serving' = 0
    BY <1>12 DEF Answer, counts
  <2>4. /\ Len(replies') = Len(replies) + 1
        /\ \A i \in 1..Len(replies') :
             replies'[i] = line \/ (i \in 1..Len(replies) /\ replies'[i] = replies[i])
        /\ \A i \in 1..Len(replies') : i # Len(replies) + 1 =>
             i \in 1..Len(replies) /\ replies'[i] = replies[i]
    BY <1>2, <2>1, <2>2, OneLineMore
  <2>5. serving # 0 /\ serving <= reqId  BY <1>1, <2>3 DEF Counted
  <2>6. OnTheirWay' = OnTheirWay  BY <1>2, <2>3, <2>4, <2>5 DEF OnTheirWay
  <2>7. \A i \in 1..Len(replies') : replies'[i].id <= reqId
    BY <1>1, <2>1, <2>4, <2>5 DEF Counted
  <2>11. \A i \in 1..Len(requests') : requests'[i] \in 1..reqId  BY <1>1, <2>3 DEF Counted
  <2>12. runner' # "dead" => OnTheirWay' = printed' + (IF Waiting(c) THEN 1 ELSE 0)
    BY <1>1, <2>3, <2>6 DEF Counted
  <2>8. Counted(c)'  BY <1>1, <1>2, <2>3, <2>7, <2>11, <2>12, StillCounted
  <2>9. ASSUME strays = 0 PROVE InStep(c)'
    <3>1. InStep(c)  BY <2>9 DEF IInv
    <3>2. call[c].at = "waiting" /\ serving = call[c].id /\ requests = << >>
      BY <2>3, <3>1 DEF InStep, ServesOwn
    <3>3. \A i \in 1..Len(replies) : replies[i].id = 0
      BY <2>5, <3>1 DEF InStep, RepliesAreOwn
    <3>4. \A i \in 1..Len(replies') : replies'[i].id # 0 =>
              i = Len(replies) + 1 /\ replies'[i].id = serving
      BY <2>1, <2>4, <3>3
    <3>5. QED
      BY <2>3, <3>1, <3>2, <3>4 DEF InStep, RequestsAreOwn, ServesOwn, RepliesAreOwn
  <2>10. QED  BY <2>3, <2>8, <2>9
<1>13. ASSUME NEW kind \in {"ok", "error", "noise"}, PrintLine(kind) PROVE Goal
  <2> PICK line : line = [id |-> 0, kind |-> kind]  OBVIOUS
  <2>1. line \in Line /\ line.id = 0  BY DEF Line
  <2>2. replies' = Append(replies, line)  BY <1>13 DEF PrintLine
  <2>3. /\ UNCHANGED <<host, runner, requests, serving, reqId, call, strays>>
        /\ printed' = printed + 1
    BY <1>13 DEF PrintLine
  <2>4. /\ Len(replies') = Len(replies) + 1
        /\ \A i \in 1..Len(replies') :
             replies'[i] = line \/ (i \in 1..Len(replies) /\ replies'[i] = replies[i])
    BY <1>2, <2>1, <2>2, OneLineMore
  <2>5. OnTheirWay' = OnTheirWay + 1 /\ OnTheirWay \in Nat
    <3> PICK m : m = Len(requests)  OBVIOUS
    <3> PICK k : k = Len(replies)  OBVIOUS
    <3>1. Len(requests') = m /\ Len(replies') = k + 1 /\ serving' = serving
      BY <2>3, <2>4
    <3>2. m \in Nat /\ k \in Nat  BY <1>2
    <3>3. CASE serving = 0
      <4>1. OnTheirWay = m + 0 + k /\ OnTheirWay' = m + 0 + (k + 1)
        BY <3>1, <3>3 DEF OnTheirWay
      <4>2. QED  BY <3>2, <4>1
    <3>4. CASE serving # 0
      <4>1. OnTheirWay = m + 1 + k /\ OnTheirWay' = m + 1 + (k + 1)
        BY <3>1, <3>4 DEF OnTheirWay
      <4>2. QED  BY <3>2, <4>1
    <3>5. QED  BY <3>3, <3>4
  <2>6. \A i \in 1..Len(replies') : replies'[i].id <= reqId
    BY <1>1, <1>2, <2>1, <2>4 DEF Counted
  <2>10. runner' # "dead" => OnTheirWay' = printed' + (IF Waiting(c) THEN 1 ELSE 0)
    <3> PICK w : w = IF Waiting(c) THEN 1 ELSE 0  OBVIOUS
    <3>1. w \in Nat  OBVIOUS
    <3>2. runner # "dead" => OnTheirWay = printed + w  BY <1>1 DEF Counted
    <3>3. QED  BY <1>2, <2>3, <2>5, <3>1, <3>2
  <2>11. \A i \in 1..Len(requests') : requests'[i] \in 1..reqId  BY <1>1, <2>3 DEF Counted
  <2>12. serving' <= reqId /\ (runner' = "serving" <=> serving' # 0)  BY <1>1, <2>3 DEF Counted
  <2>7. Counted(c)'  BY <1>1, <2>3, <2>6, <2>10, <2>11, <2>12, StillCounted
  <2>8. ASSUME strays = 0 PROVE InStep(c)'
    <3>1. InStep(c)  BY <2>8 DEF IInv
    <3>2. \A i \in 1..Len(replies') : replies'[i].id # 0 =>
              i \in 1..Len(replies) /\ replies'[i] = replies[i]
      BY <2>1, <2>4
    <3>3. QED
      BY <2>3, <3>1, <3>2 DEF InStep, RequestsAreOwn, ServesOwn, RepliesAreOwn
  <2>9. QED  BY <2>3, <2>7, <2>8
<1>14. CASE RunnerDies
  <2>1. /\ UNCHANGED <<host, requests, replies, reqId, call, printed, strays>>
        /\ runner' = "dead" /\ serving' = 0
    BY <1>14 DEF RunnerDies, counts
  <2>2. Counted(c)'  BY <1>1, <1>2, <2>1 DEF Counted, HostFits
  <2>3. strays = 0 => InStep(c)'
    BY <2>1 DEF IInv, InStep, RequestsAreOwn, ServesOwn, RepliesAreOwn
  <2>4. QED  BY <2>1, <2>2, <2>3
<1>15. QED
  BY <1>4, <1>5, <1>6, <1>7, <1>8, <1>9, <1>10, <1>11, <1>12, <1>13, <1>14
     DEF Next, Read, Runner

LEMMA NextInvariant ==
    ASSUME NEW c, Callers = {c}, IInv(c), [Next]_vars
    PROVE  IInv(c)'
<1>1. CASE Next
  <2>1. TypeOK' /\ LostMeansDead'  BY <1>1, TypeInvariant, LostIsDead DEF IInv
  <2>2. Counted(c)' /\ (strays' = 0 => InStep(c)')  BY <1>1, StepsStayInStep
  <2>3. QED  BY <2>1, <2>2 DEF IInv
<1>2. CASE UNCHANGED vars
  BY <1>2 DEF vars, pipes, counts, IInv, TypeOK, LostMeansDead, Counted, OnTheirWay, InStep,
              RequestsAreOwn, ServesOwn, RepliesAreOwn, HostFits, Waiting
<1>3. QED  BY <1>1, <1>2

LEMMA InvariantHolds ==
    ASSUME NEW c, Callers = {c}
    PROVE  Spec => []IInv(c)
<1>1. Init => IInv(c)  BY InitInvariant
<1>2. IInv(c) /\ [Next]_vars => IInv(c)'  BY NextInvariant
<1>3. QED  BY <1>1, <1>2, PTL DEF Spec

\* With one calling thread, whatever the plugin raises or prints and whenever its
\* process dies: until a printed line was taken for a reply, what a call returns is
\* the answer to that call, it is never that of a later one, and a caller told that
\* the plugin is gone was told the truth.
THEOREM RepliesMatchRequests ==
    ASSUME NEW c, Callers = {c}
    PROVE  Spec => [](TypeOK /\ OwnReply /\ LostMeansDead)
<1>1. ASSUME IInv(c) PROVE OwnReply
  <2>1. call[c] \in Call /\ strays \in Nat  BY <1>1 DEF IInv, TypeOK
  <2>2. call[c].outcome \in {"result", "error"} => call[c].got <= call[c].id
    BY <1>1 DEF IInv, Counted
  <2>3. call[c].outcome \in {"result", "error"} /\ strays = 0 => call[c].got = call[c].id
    BY <1>1 DEF IInv, InStep
  <2>4. QED  BY <2>1, <2>2, <2>3 DEF OwnReply
<1>2. IInv(c) => TypeOK /\ OwnReply /\ LostMeansDead  BY <1>1 DEF IInv
<1>3. QED  BY <1>2, InvariantHolds, PTL

\* Between two calls of one thread the lines on their way are as many as the plugin
\* has printed: none if it printed none, whatever calls failed and how, and never
\* fewer again once it has.
THEOREM PipesStayInSync ==
    ASSUME NEW c, Callers = {c}
    PROVE  Spec => []InSync
<1>1. ASSUME IInv(c) PROVE InSync
  <2>1. printed \in Nat  BY <1>1, HostAssumption DEF IInv, TypeOK
  <2>2. QED  BY <1>1, <2>1 DEF IInv, InSync, Counted, Waiting
<1>2. QED  BY <1>1, InvariantHolds, PTL

============================================================================
