------------------------- MODULE NetworkGuardProofs -------------------------
(***************************************************************************)
(* With one thread, calls nest properly and the guard is correct however   *)
(* deep they nest: proofs of the three invariants of NetworkGuard.         *)
(***************************************************************************)
EXTENDS NetworkGuard, SequenceTheorems, TLAPS

\* What the socket functions are when only calls 1 .. n-1 of the stack of t are
\* under way.
Base(t, n) == IF \E i \in 1..(n - 1) : ~calls[t][i].allowed THEN "blocked" ELSE "open"

\* The functions a denied call has patched and not yet restored, before step k.
Patched(k) ==
    IF k = 4 THEN {"socket"}
    ELSE IF k \in {5, 6} THEN Api
    ELSE IF k = 7 THEN {"create_connection"}
    ELSE {}

\* What function f is, given how far the innermost call of t has got.
Expected(t, f) ==
    IF ~InCall(t) THEN "open"
    ELSE IF Top(t).step = Body THEN Base(t, Depth(t) + 1)
    ELSE IF f \in Patched(Top(t).step) THEN "blocked"
    ELSE Base(t, Depth(t))

\* The stack of t: outer calls are at their body, and a denied call has saved
\* what the calls around it had made of the functions.
WellNested(t) ==
    /\ \A i \in 1..Depth(t) : i < Depth(t) \/ calls[t][i].allowed => calls[t][i].step = Body
    /\ \A i \in 1..Depth(t) : ~calls[t][i].allowed =>
         /\ calls[t][i].step > 1 => calls[t][i].saved["socket"] = Base(t, i)
         /\ calls[t][i].step > 2 => calls[t][i].saved["create_connection"] = Base(t, i)

IInv ==
    /\ TypeOK
    /\ \A t \in Threads : WellNested(t) /\ \A f \in Api : api[f] = Expected(t, f)

LEMMA ProgramSteps ==
    /\ Len(Program) = 7
    /\ \A k \in 1..7 : /\ Program[k].op = "save" <=> k \in {1, 2}
                       /\ Program[k].op = "patch" <=> k \in {3, 4}
                       /\ Program[k].op = "body" <=> k = 5
                       /\ Program[k].op = "restore" <=> k \in {6, 7}
                       /\ Program[k].fn \in Api
                       /\ k # 5 => (Program[k].fn = "socket" <=> k \in {1, 3, 6})
BY DEF Program, Api

\* The stack of t after its innermost call is replaced by c.
LEMMA SetTopStack ==
    ASSUME TypeOK, NEW t \in Threads, InCall(t), NEW c \in Call, SetTop(t, c)
    PROVE  /\ calls' \in [Threads -> Seq(Call)]
           /\ Len(calls'[t]) = Len(calls[t])
           /\ \A i \in 1..Len(calls[t]) :
                calls'[t][i] = IF i = Len(calls[t]) THEN c ELSE calls[t][i]
<1>1. calls[t] \in Seq(Call)  BY DEF TypeOK
<1>2. Len(calls[t]) \in 1..Len(calls[t])  BY <1>1, LenProperties DEF InCall, Depth
<1>3. calls'[t] = [calls[t] EXCEPT ![Len(calls[t])] = c]  BY DEF SetTop, Depth, TypeOK
<1>4. calls'[t] \in Seq(Call)  BY <1>1, <1>2, <1>3, ExceptSeq
<1>5. calls' \in [Threads -> Seq(Call)]  BY <1>4 DEF SetTop, Depth, TypeOK
<1>6. QED  BY <1>1, <1>2, <1>3, <1>5, ExceptSeq

\* The stack of t after its innermost call has returned.
LEMMA PopStack ==
    ASSUME TypeOK, NEW t \in Threads, InCall(t), Pop(t)
    PROVE  /\ calls' \in [Threads -> Seq(Call)]
           /\ Len(calls'[t]) = Len(calls[t]) - 1
           /\ \A i \in 1..Len(calls'[t]) : calls'[t][i] = calls[t][i]
<1>1. calls[t] \in Seq(Call)  BY DEF TypeOK
<1>2. Len(calls[t]) \in Nat /\ Len(calls[t]) > 0  BY <1>1, LenProperties DEF InCall, Depth
<1>3. calls'[t] = SubSeq(calls[t], 1, Len(calls[t]) - 1)  BY DEF Pop, TypeOK
<1>4. \A i \in 1..(Len(calls[t]) - 1) : calls[t][i] \in Call  BY <1>1, <1>2, ElementOfSeq
<1>5. calls'[t] \in Seq(Call) /\ Len(calls'[t]) = Len(calls[t]) - 1
      /\ \A i \in 1..(Len(calls[t]) - 1) : calls'[t][i] = calls[t][i]
  BY <1>2, <1>3, <1>4, SubSeqProperties
<1>6. calls' \in [Threads -> Seq(Call)]  BY <1>5 DEF Pop, TypeOK
<1>7. QED  BY <1>5, <1>6

\* The stack of t after it has entered call c.
LEMMA PushStack ==
    ASSUME TypeOK, NEW t \in Threads, NEW c \in Call,
           calls' = [calls EXCEPT ![t] = Append(@, c)]
    PROVE  /\ calls' \in [Threads -> Seq(Call)]
           /\ Len(calls'[t]) = Len(calls[t]) + 1
           /\ \A i \in 1..Len(calls'[t]) :
                calls'[t][i] = IF i = Len(calls'[t]) THEN c ELSE calls[t][i]
<1>1. calls[t] \in Seq(Call)  BY DEF TypeOK
<1>2. calls'[t] = Append(calls[t], c)  BY DEF TypeOK
<1>3. calls'[t] \in Seq(Call) /\ Len(calls'[t]) = Len(calls[t]) + 1
  BY <1>1, <1>2, AppendProperties
<1>4. ASSUME NEW i \in 1..Len(calls'[t])
      PROVE  calls'[t][i] = IF i = Len(calls'[t]) THEN c ELSE calls[t][i]
  BY <1>1, <1>2, <1>3, <1>4, AppendProperties
<1>5. calls' \in [Threads -> Seq(Call)]  BY <1>3 DEF TypeOK
<1>6. QED  BY <1>3, <1>4, <1>5

----------------------------------------------------------------------------

LEMMA BaseSame ==
    ASSUME NEW t, NEW n \in Nat,
           \A i \in 1..(n - 1) : calls'[t][i].allowed = calls[t][i].allowed
    PROVE  Base(t, n)' = Base(t, n)
BY DEF Base

\* Replacing the innermost call keeps the nesting, if what it has saved is right.
LEMMA NestedSetTop ==
    ASSUME TypeOK, NEW t \in Threads, InCall(t), WellNested(t),
           NEW c \in Call, SetTop(t, c),
           c.allowed = Top(t).allowed,
           c.allowed => c.step = Body,
           ~c.allowed =>
             /\ c.step > 1 => c.saved["socket"] = Base(t, Depth(t))
             /\ c.step > 2 => c.saved["create_connection"] = Base(t, Depth(t))
    PROVE  /\ calls' \in [Threads -> Seq(Call)]
           /\ WellNested(t)'
           /\ InCall(t)' /\ Depth(t)' = Depth(t) /\ Top(t)' = c
           /\ Base(t, Depth(t))' = Base(t, Depth(t))
           /\ Base(t, Depth(t) + 1)' = Base(t, Depth(t) + 1)
<1>1. Depth(t) \in Nat /\ Depth(t) > 0
  BY LenProperties DEF TypeOK, InCall, Depth
<1>2. /\ calls' \in [Threads -> Seq(Call)]
      /\ Depth(t)' = Depth(t)
      /\ \A i \in 1..Depth(t) : calls'[t][i] = IF i = Depth(t) THEN c ELSE calls[t][i]
  BY SetTopStack DEF Depth
<1>3. InCall(t)' /\ Top(t)' = c  BY <1>1, <1>2 DEF InCall, Top
<1>4. \A i \in 1..Depth(t) : calls'[t][i].allowed = calls[t][i].allowed
  BY <1>1, <1>2 DEF Top
<1>5. \A n \in 1..(Depth(t) + 1) : Base(t, n)' = Base(t, n)
  <2>1. SUFFICES ASSUME NEW n \in 1..(Depth(t) + 1)
                 PROVE  Base(t, n)' = Base(t, n)
    OBVIOUS
  <2>2. \A i \in 1..(n - 1) : calls'[t][i].allowed = calls[t][i].allowed
    BY <1>1, <1>4
  <2>3. QED  BY <1>1, <2>2, BaseSame
<1>6. WellNested(t)'
  <2>1. ASSUME NEW i \in 1..Depth(t)
        PROVE  /\ i < Depth(t) \/ calls'[t][i].allowed => calls'[t][i].step = Body
               /\ ~calls'[t][i].allowed =>
                    /\ calls'[t][i].step > 1 => calls'[t][i].saved["socket"] = Base(t, i)'
                    /\ calls'[t][i].step > 2 =>
                         calls'[t][i].saved["create_connection"] = Base(t, i)'
    <3>1. Base(t, i)' = Base(t, i)  BY <1>1, <1>5
    <3>2. CASE i = Depth(t)  BY <1>1, <1>2, <3>1, <3>2
    <3>3. CASE i # Depth(t)  BY <1>1, <1>2, <3>1, <3>3 DEF WellNested
    <3>4. QED  BY <3>2, <3>3
  <2>2. QED  BY <1>2, <2>1 DEF WellNested
<1>7. QED  BY <1>1, <1>2, <1>3, <1>5, <1>6

----------------------------------------------------------------------------
(* One lemma per action, for the only thread t.                            *)

LEMMA StepOfTop ==
    ASSUME TypeOK, NEW t \in Threads, InCall(t)
    PROVE  /\ Depth(t) \in Nat /\ Depth(t) > 0
           /\ Depth(t) \in 1..Depth(t)
           /\ Top(t) \in Call
           /\ Top(t).step \in 1..7
           /\ calls[t][Depth(t)] = Top(t)
<1>1. calls[t] \in Seq(Call)  BY DEF TypeOK
<1>2. Len(calls[t]) \in Nat /\ Len(calls[t]) > 0  BY <1>1, LenProperties DEF InCall, Depth
<1>3. Top(t) \in Call  BY <1>1, <1>2, ElementOfSeq DEF Top, Depth
<1>4. QED  BY <1>2, <1>3 DEF Depth, Top, Call

LEMMA SteppedCall ==
    ASSUME NEW c \in Call, c.step < 7
    PROVE  /\ Stepped(c) \in Call /\ Stepped(c).allowed = c.allowed
           /\ Stepped(c).step = c.step + 1 /\ Stepped(c).saved = c.saved
BY DEF Call, Stepped

LEMMA SavedCall ==
    ASSUME NEW c \in Call, NEW m \in [Api -> Impl]
    PROVE  LET d == [c EXCEPT !.saved = m]
           IN d \in Call /\ d.allowed = c.allowed /\ d.step = c.step /\ d.saved = m
BY DEF Call

\* Base of the whole stack, from that of the calls around the innermost one.
LEMMA BaseOfTop ==
    ASSUME TypeOK, NEW t \in Threads, InCall(t)
    PROVE  Base(t, Depth(t) + 1) = IF Top(t).allowed THEN Base(t, Depth(t)) ELSE "blocked"
<1>1. Depth(t) \in Nat /\ Depth(t) > 0 /\ calls[t][Depth(t)] = Top(t)  BY StepOfTop
<1>2. (Depth(t) + 1) - 1 = Depth(t)  BY <1>1
<1>3. \A i \in 1..Depth(t) : i = Depth(t) \/ i \in 1..(Depth(t) - 1)  BY <1>1
<1>4. Depth(t) \in 1..Depth(t) /\ \A i \in 1..(Depth(t) - 1) : i \in 1..Depth(t)  BY <1>1
<1>5. QED  BY <1>1, <1>2, <1>3, <1>4, Zenon DEF Base

LEMMA SaveKeeps ==
    ASSUME IInv, NEW t, Threads = {t}, Save(t)
    PROVE  IInv'
<1>1. TypeOK /\ WellNested(t) /\ InCall(t) /\ t \in Threads  BY DEF IInv, Save, At
<1>2. Top(t) \in Call /\ Top(t).step \in {1, 2} /\ Fn(t) \in Api
      /\ (Fn(t) = "socket" <=> Top(t).step = 1)
  BY <1>1, StepOfTop, ProgramSteps DEF Save, At, Fn
<1>3. calls[t][Depth(t)] = Top(t) /\ Depth(t) \in 1..Depth(t)  BY <1>1, StepOfTop
<1>4. ~Top(t).allowed
  <2>1. Top(t).allowed => Top(t).step = 5  BY <1>1, <1>3 DEF WellNested, Body
  <2>2. QED  BY <1>2, <2>1
<1>5. api \in [Api -> Impl] /\ \A f \in Api : api[f] = Base(t, Depth(t))
  BY <1>1, <1>2 DEF IInv, Expected, Patched, Body, TypeOK
<1> DEFINE d == [Top(t) EXCEPT !.saved = Saving(t)]
           c == Stepped(d)
<1>6. c \in Call /\ c.allowed = Top(t).allowed /\ c.step = Top(t).step + 1
      /\ c.saved = [Top(t).saved EXCEPT ![Fn(t)] = api[Fn(t)]]
  <2>1. Saving(t) \in [Api -> Impl]  BY <1>2, <1>5 DEF Saving, Call
  <2>2. d \in Call /\ d.allowed = Top(t).allowed /\ d.step = Top(t).step /\ d.saved = Saving(t)
    BY <1>2, <2>1, SavedCall
  <2> HIDE DEF d
  <2>3. QED  BY <1>2, <2>2, SteppedCall DEF Saving
<1>7. ~Top(t).allowed =>
        /\ Top(t).step > 1 => Top(t).saved["socket"] = Base(t, Depth(t))
  BY <1>1, <1>3 DEF WellNested
<1>8. /\ c.step > 1 => c.saved["socket"] = Base(t, Depth(t))
      /\ c.step > 2 => c.saved["create_connection"] = Base(t, Depth(t))
  <2>1. Top(t).saved \in [Api -> Impl]  BY <1>2 DEF Call
  <2>2. QED  BY <1>2, <1>4, <1>5, <1>6, <1>7, <2>1 DEF Api
<1>9. SetTop(t, c)  BY DEF Save
<1> HIDE DEF c, d
<1>10. /\ calls' \in [Threads -> Seq(Call)]
       /\ WellNested(t)' /\ InCall(t)' /\ Top(t)' = c
       /\ Base(t, Depth(t))' = Base(t, Depth(t))
  BY <1>1, <1>4, <1>6, <1>8, <1>9, NestedSetTop
<1>11. api' = api  BY DEF Save
<1>12. \A f \in Api : (api[f] = Expected(t, f))'
  BY <1>2, <1>5, <1>6, <1>10, <1>11 DEF Expected, Patched, Body
<1>13. QED  BY <1>5, <1>10, <1>11, <1>12 DEF IInv, TypeOK

LEMMA PatchKeeps ==
    ASSUME IInv, NEW t, Threads = {t}, Patch(t)
    PROVE  IInv'
<1>1. TypeOK /\ WellNested(t) /\ InCall(t) /\ t \in Threads  BY DEF IInv, Patch, At
<1>2. Top(t) \in Call /\ Top(t).step \in {3, 4} /\ Fn(t) \in Api
      /\ (Fn(t) = "socket" <=> Top(t).step = 3)
  BY <1>1, StepOfTop, ProgramSteps DEF Patch, At, Fn
<1>3. calls[t][Depth(t)] = Top(t) /\ Depth(t) \in 1..Depth(t)  BY <1>1, StepOfTop
<1>4. ~Top(t).allowed
  <2>1. Top(t).allowed => Top(t).step = 5  BY <1>1, <1>3 DEF WellNested, Body
  <2>2. QED  BY <1>2, <2>1
<1>5. /\ api \in [Api -> Impl]
      /\ \A f \in Api : api[f] = IF Top(t).step = 4 /\ f = "socket"
                                THEN "blocked" ELSE Base(t, Depth(t))
  BY <1>1, <1>2 DEF IInv, Expected, Patched, Body, TypeOK
<1> DEFINE c == Stepped(Top(t))
<1>6. c \in Call /\ c.allowed = Top(t).allowed /\ c.step = Top(t).step + 1
      /\ c.saved = Top(t).saved
  BY <1>2, SteppedCall
<1>7. ~c.allowed =>
        /\ c.step > 1 => c.saved["socket"] = Base(t, Depth(t))
        /\ c.step > 2 => c.saved["create_connection"] = Base(t, Depth(t))
  BY <1>1, <1>2, <1>3, <1>6 DEF WellNested
<1>8. SetTop(t, c)  BY DEF Patch
<1> HIDE DEF c
<1>9. /\ calls' \in [Threads -> Seq(Call)]
      /\ WellNested(t)' /\ InCall(t)' /\ Top(t)' = c /\ Depth(t)' = Depth(t)
      /\ Base(t, Depth(t))' = Base(t, Depth(t))
      /\ Base(t, Depth(t) + 1)' = Base(t, Depth(t) + 1)
  BY <1>1, <1>4, <1>6, <1>7, <1>8, NestedSetTop
<1>10. Base(t, Depth(t) + 1) = "blocked"  BY <1>1, <1>4, BaseOfTop
<1>11. api' \in [Api -> Impl] /\ \A f \in Api : api'[f] = IF f = Fn(t) THEN "blocked" ELSE api[f]
  BY <1>2, <1>5 DEF Patch, Impl
<1>12. \A f \in Api : (api[f] = Expected(t, f))'
  <2>1. CASE Top(t).step = 3
    BY <1>2, <1>5, <1>6, <1>9, <1>11, <2>1 DEF Expected, Patched, Body, Api
  <2>2. CASE Top(t).step = 4
    BY <1>2, <1>5, <1>6, <1>9, <1>10, <1>11, <2>2 DEF Expected, Patched, Body, Api
  <2>3. QED  BY <1>2, <2>1, <2>2
<1>13. QED  BY <1>9, <1>11, <1>12 DEF IInv, TypeOK

\* A call ends with the functions as its caller had made them.
LEMMA PopKeeps ==
    ASSUME TypeOK, NEW t, Threads = {t}, WellNested(t), InCall(t), Pop(t),
           api' \in [Api -> Impl],
           \A f \in Api : api'[f] = Base(t, Depth(t))
    PROVE  IInv'
<1>1. t \in Threads /\ Depth(t) \in Nat /\ Depth(t) > 0  BY StepOfTop
<1>2. /\ calls' \in [Threads -> Seq(Call)]
      /\ Depth(t)' = Depth(t) - 1
      /\ \A i \in 1..(Depth(t) - 1) : calls'[t][i] = calls[t][i]
  BY <1>1, PopStack DEF Depth
<1>3. \A n \in 1..Depth(t) : Base(t, n)' = Base(t, n)
  <2>1. SUFFICES ASSUME NEW n \in 1..Depth(t)
                 PROVE  Base(t, n)' = Base(t, n)
    OBVIOUS
  <2>2. \A i \in 1..(n - 1) : calls'[t][i].allowed = calls[t][i].allowed  BY <1>1, <1>2
  <2>3. QED  BY <1>1, <2>2, BaseSame
<1>4. WellNested(t)'
  <2>1. ASSUME NEW i \in 1..(Depth(t) - 1)
        PROVE  /\ calls'[t][i].step = Body
               /\ ~calls'[t][i].allowed =>
                    /\ calls'[t][i].step > 1 => calls'[t][i].saved["socket"] = Base(t, i)'
                    /\ calls'[t][i].step > 2 =>
                         calls'[t][i].saved["create_connection"] = Base(t, i)'
    BY <1>1, <1>2, <1>3 DEF WellNested
  <2>2. QED  BY <1>2, <2>1 DEF WellNested
<1>5. \A f \in Api : (api[f] = Expected(t, f))'
  <2>1. CASE Depth(t) = 1
    <3>1. Base(t, 1) = "open"  BY DEF Base
    <3>2. ~InCall(t)'  BY <1>2, <2>1 DEF InCall
    <3>3. QED  BY <2>1, <3>1, <3>2 DEF Expected
  <2>2. CASE Depth(t) > 1
    <3>1. InCall(t)'  BY <1>1, <1>2, <2>2 DEF InCall
    <3>2. Top(t)' = calls[t][Depth(t) - 1]  BY <1>1, <1>2, <2>2 DEF Top
    <3>3. Top(t)'.step = Body  BY <1>1, <2>2, <3>2 DEF WellNested
    <3>4. Base(t, Depth(t) + 1)' = Base(t, Depth(t))
      <4>1. (Depth(t)' + 1) - 1 = Depth(t) - 1  BY <1>1, <1>2
      <4>2. \A i \in 1..(Depth(t) - 1) : calls'[t][i].allowed = calls[t][i].allowed
        BY <1>2
      <4>3. QED  BY <4>1, <4>2, Zenon DEF Base
    <3>5. QED  BY <3>1, <3>3, <3>4 DEF Expected
  <2>3. QED  BY <1>1, <2>1, <2>2
<1>6. QED  BY <1>2, <1>4, <1>5 DEF IInv, TypeOK

LEMMA ReturnKeeps ==
    ASSUME IInv, NEW t, Threads = {t}, Return(t)
    PROVE  IInv'
<1>1. TypeOK /\ WellNested(t) /\ InCall(t) /\ t \in Threads  BY DEF IInv, Return, At
<1>2. Top(t) \in Call /\ Top(t).step = 5  BY <1>1, StepOfTop, ProgramSteps DEF Return, At
<1>3. calls[t][Depth(t)] = Top(t) /\ Depth(t) \in 1..Depth(t)  BY <1>1, StepOfTop
<1>4. api \in [Api -> Impl] /\ \A f \in Api : api[f] = Base(t, Depth(t) + 1)
  BY <1>1, <1>2 DEF IInv, Expected, Patched, Body, TypeOK
<1>5. api' = api  BY DEF Return
<1>6. CASE Top(t).allowed
  <2>1. \A f \in Api : api'[f] = Base(t, Depth(t))  BY <1>1, <1>4, <1>5, <1>6, BaseOfTop
  <2>2. Pop(t)  BY <1>6 DEF Return, NothingToRestore
  <2>3. QED  BY <1>1, <1>4, <1>5, <2>1, <2>2, PopKeeps
<1>7. CASE ~Top(t).allowed
  <2> DEFINE c == Stepped(Top(t))
  <2>1. c \in Call /\ c.allowed = Top(t).allowed /\ c.step = 6 /\ c.saved = Top(t).saved
    BY <1>2, SteppedCall
  <2>2. /\ c.saved["socket"] = Base(t, Depth(t))
        /\ c.saved["create_connection"] = Base(t, Depth(t))
    BY <1>1, <1>2, <1>3, <1>7, <2>1 DEF WellNested
  <2>3. SetTop(t, c)  BY <1>7 DEF Return, NothingToRestore
  <2> HIDE DEF c
  <2>4. /\ calls' \in [Threads -> Seq(Call)]
        /\ WellNested(t)' /\ InCall(t)' /\ Top(t)' = c
    BY <1>1, <1>7, <2>1, <2>2, <2>3, NestedSetTop
  <2>5. \A f \in Api : api[f] = "blocked"  BY <1>1, <1>4, <1>7, BaseOfTop
  <2>6. \A f \in Api : (api[f] = Expected(t, f))'
    BY <1>5, <2>1, <2>4, <2>5 DEF Expected, Patched, Body
  <2>7. QED  BY <1>4, <1>5, <2>4, <2>6 DEF IInv, TypeOK
<1>8. QED  BY <1>6, <1>7

LEMMA RestoreKeeps ==
    ASSUME IInv, NEW t, Threads = {t}, Restore(t)
    PROVE  IInv'
<1>1. TypeOK /\ WellNested(t) /\ InCall(t) /\ t \in Threads  BY DEF IInv, Restore, At
<1>2. Top(t) \in Call /\ Top(t).step \in {6, 7} /\ Fn(t) \in Api
      /\ (Fn(t) = "socket" <=> Top(t).step = 6)
  BY <1>1, StepOfTop, ProgramSteps DEF Restore, At, Fn
<1>3. calls[t][Depth(t)] = Top(t) /\ Depth(t) \in 1..Depth(t)  BY <1>1, StepOfTop
<1>4. ~Top(t).allowed
  <2>1. Top(t).allowed => Top(t).step = 5  BY <1>1, <1>3 DEF WellNested, Body
  <2>2. QED  BY <1>2, <2>1
<1>5. /\ Top(t).saved["socket"] = Base(t, Depth(t))
      /\ Top(t).saved["create_connection"] = Base(t, Depth(t))
  BY <1>1, <1>2, <1>3, <1>4 DEF WellNested
<1>6. Restored(t) = Base(t, Depth(t))
  <2>1. Fn(t) \in {"socket", "create_connection"}  BY <1>2 DEF Api
  <2>2. QED  BY <1>5, <2>1 DEF Restored
<1>7. api \in [Api -> Impl] /\ Base(t, Depth(t)) \in Impl  BY <1>1 DEF TypeOK, Base, Impl
<1>8. /\ api' \in [Api -> Impl]
      /\ \A f \in Api : api'[f] = IF f = Fn(t) THEN Base(t, Depth(t)) ELSE api[f]
  BY <1>2, <1>6, <1>7 DEF Restore
<1>9. CASE Top(t).step = 7
  <2>1. Fn(t) = "create_connection" /\ api["socket"] = Base(t, Depth(t))
    BY <1>1, <1>2, <1>9 DEF IInv, Expected, Patched, Body, Api
  <2>2. \A f \in Api : api'[f] = Base(t, Depth(t))  BY <1>8, <2>1 DEF Api
  <2>3. Pop(t)  BY <1>9, ProgramSteps DEF Restore, CallOver
  <2>4. QED  BY <1>1, <1>8, <2>2, <2>3, PopKeeps
<1>10. CASE Top(t).step = 6
  <2> DEFINE c == Stepped(Top(t))
  <2>1. c \in Call /\ c.allowed = Top(t).allowed /\ c.step = 7 /\ c.saved = Top(t).saved
    BY <1>2, <1>10, SteppedCall
  <2>2. SetTop(t, c)  BY <1>10, ProgramSteps DEF Restore, CallOver
  <2> HIDE DEF c
  <2>3. /\ calls' \in [Threads -> Seq(Call)]
        /\ WellNested(t)' /\ InCall(t)' /\ Top(t)' = c
        /\ Base(t, Depth(t))' = Base(t, Depth(t))
    BY <1>1, <1>4, <1>5, <2>1, <2>2, NestedSetTop
  <2>4. Fn(t) = "socket" /\ api["create_connection"] = "blocked"
    BY <1>1, <1>2, <1>10 DEF IInv, Expected, Patched, Body, Api
  <2>5. \A f \in Api : (api[f] = Expected(t, f))'
    BY <1>8, <2>1, <2>3, <2>4 DEF Expected, Patched, Body, Api
  <2>6. QED  BY <1>8, <2>3, <2>5 DEF IInv, TypeOK
<1>11. QED  BY <1>2, <1>9, <1>10

LEMMA EnterKeeps ==
    ASSUME IInv, NEW t, Threads = {t}, NEW allowed \in BOOLEAN, Enter(t, allowed)
    PROVE  IInv'
<1> DEFINE c == [allowed |-> allowed, step |-> FirstStep(allowed), saved |-> [f \in Api |-> "open"]]
<1>1. TypeOK /\ WellNested(t) /\ t \in Threads  BY DEF IInv
<1>2. c \in Call /\ c.step = IF c.allowed THEN 5 ELSE 1
  BY DEF Call, FirstStep, Body, Impl
<1>3. calls' = [calls EXCEPT ![t] = Append(@, c)]  BY DEF Enter
<1>4. c.allowed = allowed  OBVIOUS
<1> HIDE DEF c
<1>5. /\ calls' \in [Threads -> Seq(Call)]
      /\ Depth(t)' = Depth(t) + 1
      /\ \A i \in 1..(Depth(t) + 1) : calls'[t][i] = IF i = Depth(t) + 1 THEN c ELSE calls[t][i]
  <2>1. c \in Call  BY <1>2
  <2>2. /\ calls' \in [Threads -> Seq(Call)]
        /\ Len(calls'[t]) = Len(calls[t]) + 1
        /\ \A i \in 1..Len(calls'[t]) :
             calls'[t][i] = IF i = Len(calls'[t]) THEN c ELSE calls[t][i]
    BY <1>1, <1>3, <2>1, PushStack, Zenon
  <2>3. QED  BY <2>2 DEF Depth
<1>6. Depth(t) \in Nat  BY <1>1, LenProperties DEF TypeOK, Depth
<1>7. InCall(t)' /\ Top(t)' = c  BY <1>5, <1>6 DEF InCall, Top
<1>8. \A n \in 1..(Depth(t) + 1) : Base(t, n)' = Base(t, n)
  <2>1. SUFFICES ASSUME NEW n \in 1..(Depth(t) + 1)
                 PROVE  Base(t, n)' = Base(t, n)
    OBVIOUS
  <2>2. \A i \in 1..(n - 1) : calls'[t][i].allowed = calls[t][i].allowed  BY <1>5, <1>6
  <2>3. QED  BY <1>6, <2>2, BaseSame
<1>9. \A f \in Api : api'[f] = Base(t, Depth(t) + 1)
  <2>1. CASE ~InCall(t)
    <3>1. Depth(t) = 0  BY <1>6, <2>1 DEF InCall
    <3>2. Base(t, Depth(t) + 1) = "open"  BY <3>1 DEF Base
    <3>3. QED  BY <1>1, <2>1, <3>2 DEF IInv, Expected, Enter
  <2>2. CASE InCall(t)
    BY <1>1, <2>2 DEF IInv, Expected, Enter
  <2>3. QED  BY <2>1, <2>2
<1>10. InCall(t) => calls[t][Depth(t)].step = Body  BY DEF Enter, Top
<1>11. WellNested(t)'
  <2>1. ASSUME NEW i \in 1..(Depth(t) + 1)
        PROVE  /\ i < Depth(t) + 1 \/ calls'[t][i].allowed => calls'[t][i].step = Body
               /\ ~calls'[t][i].allowed =>
                    /\ calls'[t][i].step > 1 => calls'[t][i].saved["socket"] = Base(t, i)'
                    /\ calls'[t][i].step > 2 =>
                         calls'[t][i].saved["create_connection"] = Base(t, i)'
    <3>1. CASE i = Depth(t) + 1  BY <1>2, <1>5, <3>1 DEF Body
    <3>2. CASE i < Depth(t)  BY <1>1, <1>5, <1>6, <1>8, <3>2 DEF WellNested
    <3>3. CASE i = Depth(t) /\ InCall(t)  BY <1>1, <1>5, <1>6, <1>8, <1>10, <3>3 DEF WellNested
    <3>4. QED  BY <1>6, <3>1, <3>2, <3>3 DEF InCall
  <2>2. QED  BY <1>5, <2>1 DEF WellNested
<1>12. \A f \in Api : (api[f] = Expected(t, f))'
  <2>1. CASE c.allowed
    <3>1. (Depth(t) + 1)' = Depth(t) + 2  BY <1>5, <1>6
    <3>2. Base(t, Depth(t) + 1)' = Base(t, Depth(t) + 1)
      <4>1. \A i \in 1..Depth(t) : calls'[t][i].allowed = calls[t][i].allowed  BY <1>5, <1>6
      <4>2. \A i \in 1..(Depth(t) + 1) : i \in 1..Depth(t) \/ calls'[t][i].allowed
        BY <1>5, <1>6, <2>1
      <4>3. \A i \in 1..Depth(t) : i \in 1..(Depth(t) + 1)  BY <1>6
      <4>4. (Depth(t)' + 1) - 1 = Depth(t) + 1 /\ (Depth(t) + 1) - 1 = Depth(t)  BY <1>5, <1>6
      <4>5. QED  BY <4>1, <4>2, <4>3, <4>4, Zenon DEF Base
    <3>3. QED  BY <1>2, <1>7, <1>9, <2>1, <3>2 DEF Expected, Body
  <2>2. CASE ~c.allowed
    <3>1. Depth(t)' = Depth(t) + 1  BY <1>5
    <3>2. Base(t, Depth(t))' = Base(t, Depth(t) + 1)
      <4>1. \A i \in 1..Depth(t) : calls'[t][i].allowed = calls[t][i].allowed  BY <1>5, <1>6
      <4>2. Depth(t)' - 1 = Depth(t) /\ (Depth(t) + 1) - 1 = Depth(t)  BY <1>5, <1>6
      <4>3. QED  BY <4>1, <4>2 DEF Base
    <3>3. QED  BY <1>2, <1>7, <1>9, <2>2, <3>2 DEF Expected, Patched, Body
  <2>3. QED  BY <2>1, <2>2
<1>13. QED  BY <1>1, <1>5, <1>11, <1>12 DEF IInv, TypeOK, Enter

----------------------------------------------------------------------------
(* The theorems.                                                           *)

THEOREM InitIInv == Init => IInv
<1> SUFFICES ASSUME Init PROVE IInv  OBVIOUS
<1>1. TypeOK  BY EmptySeq DEF Init, TypeOK, Impl
<1>2. \A t \in Threads : Depth(t) = 0  BY DEF Init, Depth
<1>3. ASSUME NEW t \in Threads
      PROVE  WellNested(t) /\ \A f \in Api : api[f] = Expected(t, f)
  <2>1. Depth(t) = 0 /\ 1..Depth(t) = {} /\ ~InCall(t)  BY <1>2 DEF InCall
  <2>2. WellNested(t)  BY <2>1 DEF WellNested
  <2>3. \A f \in Api : api[f] = Expected(t, f)  BY <2>1 DEF Init, Expected
  <2>4. QED  BY <2>2, <2>3
<1>4. QED  BY <1>1, <1>3 DEF IInv

THEOREM NextIInv ==
    ASSUME NEW t0, Threads = {t0}
    PROVE  IInv /\ [Next]_vars => IInv'
<1> SUFFICES ASSUME IInv, [Next]_vars PROVE IInv'  OBVIOUS
<1>1. ASSUME NEW t \in Threads, NEW allowed \in BOOLEAN, Enter(t, allowed) PROVE IInv'
  BY <1>1, EnterKeeps
<1>2. ASSUME NEW t \in Threads, Save(t) PROVE IInv'  BY <1>2, SaveKeeps
<1>3. ASSUME NEW t \in Threads, Patch(t) PROVE IInv'  BY <1>3, PatchKeeps
<1>4. ASSUME NEW t \in Threads, Return(t) PROVE IInv'  BY <1>4, ReturnKeeps
<1>5. ASSUME NEW t \in Threads, Restore(t) PROVE IInv'  BY <1>5, RestoreKeeps
<1>6. CASE UNCHANGED vars
  BY <1>6 DEF vars, IInv, TypeOK, WellNested, Expected, Base, InCall, Top, Depth
<1>7. QED  BY <1>1, <1>2, <1>3, <1>4, <1>5, <1>6 DEF Next

LEMMA InvariantSafe ==
    IInv => DeniedCallsAreBlocked /\ AllowedCallsConnect /\ (Threads # {} => RestoredAtRest)
<1> SUFFICES ASSUME IInv
             PROVE  DeniedCallsAreBlocked /\ AllowedCallsConnect /\ (Threads # {} => RestoredAtRest)
  OBVIOUS
<1>1. ASSUME NEW t \in Threads, Running(t), NEW f \in Api
      PROVE  api[f] = IF Denied(t) THEN "blocked" ELSE "open"
  <2>1. api[f] = Base(t, Depth(t) + 1)  BY <1>1 DEF IInv, Expected, Running
  <2>2. Depth(t) \in Nat  BY LenProperties DEF IInv, TypeOK, Depth
  <2>3. (Depth(t) + 1) - 1 = Depth(t)  BY <2>2
  <2>4. QED  BY <2>1, <2>3, Zenon DEF Base, Denied
<1>2. ASSUME NEW t \in Threads, ~InCall(t), NEW f \in Api
      PROVE  api[f] = "open"
  BY <1>2 DEF IInv, Expected
<1>3. QED
  BY <1>1, <1>2 DEF DeniedCallsAreBlocked, AllowedCallsConnect, RestoredAtRest

\* network_guard is right for one thread, at any depth of nested calls: the code
\* of a denied call finds both functions blocked, that of a permitted one finds
\* them open, and they are the real ones when no call is under way.
THEOREM GuardSafety ==
    ASSUME NEW t0, Threads = {t0}
    PROVE  Spec => [](TypeOK /\ DeniedCallsAreBlocked /\ AllowedCallsConnect /\ RestoredAtRest)
<1>1. Init => IInv  BY InitIInv
<1>2. IInv /\ [Next]_vars => IInv'  BY NextIInv
<1>3. IInv => TypeOK /\ DeniedCallsAreBlocked /\ AllowedCallsConnect /\ RestoredAtRest
  BY InvariantSafe DEF IInv
<1>4. QED  BY <1>1, <1>2, <1>3, PTL DEF Spec

\* A permitted call never finds a guard that a denied one left behind, at any
\* depth of nesting, as long as there is one thread.
THEOREM PermittedCallsConnect ==
    ASSUME NEW t0, Threads = {t0}
    PROVE  Spec => []AllowedCallsConnect
<1>1. Spec => [](TypeOK /\ DeniedCallsAreBlocked /\ AllowedCallsConnect /\ RestoredAtRest)
  BY GuardSafety
<1>2. QED  BY <1>1, PTL

=============================================================================
