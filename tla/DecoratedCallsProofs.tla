------------------------ MODULE DecoratedCallsProofs ------------------------
(***************************************************************************)
(* The decorated calls, for any tasks and threads, any depth of calls and  *)
(* any settings: the shape of the stacks, the trace ids of the records,    *)
(* what the sampling keeps, how the records nest and which frames their    *)
(* tracebacks show.                                                        *)
(***************************************************************************)
EXTENDS DecoratedCalls, SeqLemmas

PCs == {"run", "lookup", "bind", "enter", "guarded", "transparent", "unguarded"}
Frames == [kind : {"user", "wrapper"}, pc : PCs, id : Nat]

IsExc(e) == e = [head |-> e.head, links |-> e.links, hidden |-> e.hidden,
                 passed |-> e.passed, base |-> e.base]

(* The stack of a worker and its exception. Between two calls the top frame*)
(* is one of the user; a wrapper that will still call the function has room*)
(* for its frame.                                                          *)
StackOK(s, e) ==
    /\ s \in Seq(Frames)
    /\ Len(s) <= MaxDepth
    /\ \A i \in 1..Len(s) : s[i].kind = "user" <=> s[i].pc = "run"
    /\ \A i \in 1..(Len(s) - 1) : s[i].pc \in {"run", "guarded", "transparent"}
    /\ s # << >> /\ s[Len(s)].pc \in {"lookup", "bind", "enter"} => Len(s) + 1 <= MaxDepth
    /\ e # NoExc => IsExc(e) /\ s # << >> /\ e.head = Len(s)

StackInv ==
    /\ stack \in [Workers -> Seq(Frames)]
    /\ exc = [w \in Workers |-> exc[w]]
    /\ \A w \in Workers : StackOK(stack[w], exc[w])

(* What the deterministic sampling decides of a record below WARNING.      *)
Sampled(id) == sampling.rate = "one" \/ (sampling.rate = "some" /\ id \in sampling.hash)

(* A record of w, or the mark of a call it has left without one.           *)
RecordOK(w, r) ==
    /\ r.message \in Message \cup {"Abandoned"}
    /\ r.trace \in Ids
    /\ w \in Tasks => r.trace \in own[w]
    /\ sampling.deterministic /\ r.message \in {"Execution", "Result"} =>
          r.kept = Sampled(r.trace)

IsSequence(s) == \E S : s \in Seq(S)

LogOK(w, s) == IsSequence(s) /\ \A i \in 1..Len(s) : RecordOK(w, s[i])

RestOK ==
    /\ \E s \in Settings : options = s.options /\ sampling = s.sampling
    /\ factory \in {"none", "up", "closing", "gone"}
    /\ klass \in {"undefined", "plain", "wrapped"} /\ hook \in {"default", "silent"}
    /\ calls \in 0..MaxCalls /\ jobs \in 0..MaxJobs /\ sets \in 0..MaxSets
    /\ trace \in [Workers -> Ids]
    /\ own \in [Workers -> SUBSET Ids]
    /\ \A w \in Workers : trace[w] \in own[w]

LogInv ==
    /\ out = [w \in Workers |-> out[w]]
    /\ \A w \in Workers : LogOK(w, out[w])

TypeInv == StackInv /\ RestOK /\ LogInv

LEMMA BoundsFacts ==
    /\ MaxDepth \in Nat /\ MaxDepth >= 1 /\ MaxCalls \in Nat /\ MaxJobs \in Nat /\ MaxSets \in Nat
    /\ Tasks \subseteq Workers /\ Main \in Workers /\ Main \in Tasks
  BY CallsAssumption

LEMMA UserFrame == User \in Frames /\ User.kind = "user" /\ User.pc = "run"
  BY DEF User, Frame, Frames, PCs

LEMMA WrapperFrame ==
    ASSUME NEW n \in Nat
    PROVE  LET f == Frame("wrapper", "lookup", n)
           IN  f \in Frames /\ f.kind = "wrapper" /\ f.pc = "lookup" /\ f.id = n
  BY DEF Frame, Frames, PCs

(***************************************************************************)
(* The moves of a stack.                                                   *)
(***************************************************************************)
LEMMA PushOK ==
    ASSUME NEW s \in Seq(Frames), StackOK(s, NoExc), NEW f \in Frames,
           f.kind = "user" <=> f.pc = "run",
           Len(s) + 1 <= MaxDepth,
           f.pc \in {"lookup", "bind", "enter"} => Len(s) + 2 <= MaxDepth,
           s # << >> => s[Len(s)].pc \in {"run", "guarded", "transparent"}
    PROVE  StackOK(Append(s, f), NoExc)
<1> DEFINE t == Append(s, f)
<1>0. /\ t \in Seq(Frames) /\ Len(t) = Len(s) + 1 /\ Len(s) \in Nat
      /\ t[Len(s) + 1] = f
  OBVIOUS
<1>1. /\ t \in Seq(Frames) /\ Len(t) = Len(s) + 1 /\ Len(s) \in Nat /\ t # << >>
      /\ t[Len(s) + 1] = f /\ \A i \in 1..Len(s) : t[i] = s[i]
  <2>1. \A i \in 1..Len(s) : t[i] = s[i]
    OBVIOUS
  <2>2. t # << >>
    BY <1>0
  <2> QED
    BY <1>0, <2>1, <2>2
<1> HIDE DEF t
<1>2. \A i \in 1..Len(t) : t[i].kind = "user" <=> t[i].pc = "run"
  BY <1>1 DEF StackOK
<1>3. \A i \in 1..(Len(t) - 1) : t[i].pc \in {"run", "guarded", "transparent"}
  <2>1. ASSUME NEW i \in 1..Len(s)
        PROVE  s[i].pc \in {"run", "guarded", "transparent"}
    <3>1. s # << >> /\ (i = Len(s) \/ i \in 1..(Len(s) - 1))
      BY <1>1
    <3> QED
      BY <3>1 DEF StackOK
  <2> QED
    BY <1>1, <2>1
<1>4. t[Len(t)].pc \in {"lookup", "bind", "enter"} => Len(t) + 1 <= MaxDepth
  BY <1>1, BoundsFacts
<1> QED
  BY <1>1, <1>2, <1>3, <1>4 DEF StackOK, t

LEMMA PopOK ==
    ASSUME NEW s \in Seq(Frames), NEW e, StackOK(s, e), NEW n \in 1..Len(s)
    PROVE  LET t == SubSeq(s, 1, Len(s) - n)
           IN  /\ StackOK(t, NoExc) /\ Len(t) = Len(s) - n
               /\ \A i \in 1..(Len(s) - n) : t[i] = s[i]
<1> DEFINE t == SubSeq(s, 1, Len(s) - n)
<1>1. /\ t \in Seq(Frames) /\ Len(t) = Len(s) - n /\ Len(s) \in Nat /\ Len(t) \in Nat
      /\ \A i \in 1..(Len(s) - n) : t[i] = s[i]
  OBVIOUS
<1> HIDE DEF t
<1>2. /\ \A i \in 1..Len(t) : t[i].kind = "user" <=> t[i].pc = "run"
      /\ \A i \in 1..Len(t) : t[i].pc \in {"run", "guarded", "transparent"}
  <2>1. \A i \in 1..Len(t) : i \in 1..Len(s) /\ i \in 1..(Len(s) - 1) /\ i \in 1..(Len(s) - n)
    BY <1>1
  <2> QED
    BY <1>1, <2>1 DEF StackOK
<1>3. t # << >> => Len(t) \in 1..Len(t)
  BY <1>1
<1>4. Len(t) <= MaxDepth
  BY <1>1, BoundsFacts DEF StackOK
<1>5. t # << >> => t[Len(t)].pc \notin {"lookup", "bind", "enter"}
  BY <1>2, <1>3
<1>6. \A i \in 1..(Len(t) - 1) : i \in 1..Len(t)
  BY <1>1
<1>7. StackOK(t, NoExc)
  BY <1>1, <1>2, <1>4, <1>5, <1>6 DEF StackOK
<1> QED
  BY <1>1, <1>7 DEF t

(* The top frame of a wrapper comes to another point.                      *)
LEMMA SetTopOK ==
    ASSUME NEW s \in Seq(Frames), NEW e, NEW x, StackOK(s, e), s # << >>,
           s[Len(s)].kind = "wrapper", NEW pc \in PCs \ {"run"},
           pc \in {"lookup", "bind", "enter"} => s[Len(s)].pc \in {"lookup", "bind", "enter"},
           x # NoExc => IsExc(x) /\ x.head = Len(s)
    PROVE  LET t == [s EXCEPT ![Len(s)].pc = pc]
           IN  /\ StackOK(t, x) /\ Len(t) = Len(s)
               /\ t[Len(s)].pc = pc /\ t[Len(s)].id = s[Len(s)].id
               /\ t[Len(s)].kind = "wrapper"
<1> DEFINE n == Len(s)
           t == [s EXCEPT ![n].pc = pc]
<1>1. n \in Nat /\ n >= 1 /\ n \in 1..n /\ DOMAIN s = 1..n /\ s[n] \in Frames
  OBVIOUS
<1>2. /\ t[n] = [s[n] EXCEPT !.pc = pc]
      /\ \A i \in 1..n : i # n => t[i] = s[i]
      /\ DOMAIN t = 1..n
  BY <1>1
<1>3. t[n] \in Frames /\ t[n].pc = pc /\ t[n].kind = s[n].kind /\ t[n].id = s[n].id
  BY <1>1, <1>2 DEF Frames
<1>4. \A i \in 1..n : t[i] \in Frames /\ s[i] \in Frames
  BY <1>2, <1>3
<1>5. t \in Seq(Frames) /\ Len(t) = n
  <2>1. t \in [1..n -> Frames]
    <3>1. t = [i \in 1..n |-> t[i]]
      BY <1>1
    <3> QED
      BY <1>4, <3>1
  <2> QED
    BY <1>1, <2>1
<1> HIDE DEF t, n
<1>6. \A i \in 1..n : t[i].kind = "user" <=> t[i].pc = "run"
  <2>1. t[n].kind = "wrapper" /\ t[n].pc # "run"
    BY <1>3 DEF n
  <2>2. \A i \in 1..n : i # n => (t[i].kind = "user" <=> t[i].pc = "run")
    BY <1>2 DEF StackOK, n
  <2> QED
    BY <2>1, <2>2
<1>7. \A i \in 1..(n - 1) : t[i].pc \in {"run", "guarded", "transparent"}
  <2>1. \A i \in 1..(n - 1) : i \in 1..n /\ i # n
    BY <1>1
  <2> QED
    BY <1>2, <2>1 DEF StackOK, n
<1>8. t[n].pc \in {"lookup", "bind", "enter"} => n + 1 <= MaxDepth
  BY <1>3 DEF StackOK, n
<1>9. t # << >> /\ n <= MaxDepth
  BY <1>1, <1>5 DEF StackOK, n
<1>10. StackOK(t, x)
  BY <1>5, <1>6, <1>7, <1>8, <1>9 DEF StackOK, n
<1>11. t[n].pc = pc /\ t[n].id = s[n].id /\ t[n].kind = "wrapper"
  BY <1>3 DEF n
<1> QED
  BY <1>5, <1>10, <1>11 DEF t, n

LEMMA SetTopQuiet ==
    ASSUME NEW s \in Seq(Frames), StackOK(s, NoExc), s # << >>,
           s[Len(s)].kind = "wrapper", NEW pc \in PCs \ {"run"},
           pc \in {"lookup", "bind", "enter"} => s[Len(s)].pc \in {"lookup", "bind", "enter"}
    PROVE  LET t == [s EXCEPT ![Len(s)].pc = pc]
           IN  /\ StackOK(t, NoExc) /\ Len(t) = Len(s)
               /\ t[Len(s)].pc = pc /\ t[Len(s)].id = s[Len(s)].id
               /\ t[Len(s)].kind = "wrapper"
<1>1. NoExc # NoExc => IsExc(NoExc) /\ NoExc.head = Len(s)
  OBVIOUS
<1> QED
  BY <1>1, SetTopOK

LEMMA ThroughOK ==
    ASSUME NEW e, NEW n, NEW h
    PROVE  /\ IsExc(Through(e, n, h)) /\ Through(e, n, h).head = n
           /\ Through(e, n, h) # NoExc
<1>1. Through(e, n, h).head = n /\ IsExc(Through(e, n, h))
  BY DEF Through, IsExc
<1>2. DOMAIN Through(e, n, h) # DOMAIN NoExc
  <2>1. "links" \in DOMAIN Through(e, n, h) /\ "links" \notin DOMAIN NoExc
    BY DEF Through, NoExc
  <2> QED
    BY <2>1
<1> QED
  BY <1>1, <1>2
(***************************************************************************)
(* The steps of a worker.                                                  *)
(***************************************************************************)
LEMMA TopFacts ==
    ASSUME TypeInv, NEW w \in Workers
    PROVE  /\ stack[w] \in Seq(Frames) /\ StackOK(stack[w], exc[w])
           /\ Depth(w) = Len(stack[w]) /\ Depth(w) \in Nat
           /\ stack[w] # << >> => /\ Top(w) = stack[w][Len(stack[w])]
                                  /\ Len(stack[w]) \in 1..Len(stack[w])
                                  /\ Top(w) \in Frames
                                  /\ Top(w).pc = "run" <=> Top(w).kind = "user"
<1>1. stack[w] \in Seq(Frames) /\ StackOK(stack[w], exc[w])
  BY DEF TypeInv, StackInv
<1>2. Depth(w) = Len(stack[w]) /\ Depth(w) \in Nat
  BY <1>1 DEF Depth
<1>3. ASSUME stack[w] # << >>
      PROVE  /\ Top(w) = stack[w][Len(stack[w])]
             /\ Len(stack[w]) \in 1..Len(stack[w])
             /\ Top(w) \in Frames
             /\ Top(w).pc = "run" <=> Top(w).kind = "user"
  <2>1. Len(stack[w]) \in 1..Len(stack[w])
    BY <1>1, <1>3
  <2>2. Top(w) = stack[w][Len(stack[w])]
    BY DEF Top, Last
  <2> QED
    BY <1>1, <2>1, <2>2 DEF StackOK
<1> QED
  BY <1>1, <1>2, <1>3

(* What stays where only the stack, or the exception, of w changes.        *)
OnlyOf(w) ==
    /\ stack' \in [Workers -> Seq(Frames)]
    /\ exc' = [v \in Workers |-> exc'[v]]
    /\ StackOK(stack'[w], exc'[w])
    /\ \A v \in Workers : v # w => stack'[v] = stack[v] /\ exc'[v] = exc[v]

LEMMA OnlyOfIntro ==
    ASSUME TypeInv, NEW w \in Workers, NEW t, NEW x, StackOK(t, x),
           stack' = [stack EXCEPT ![w] = t], exc' = [exc EXCEPT ![w] = x]
    PROVE  OnlyOf(w) /\ stack'[w] = t /\ exc'[w] = x
<1>1. /\ stack \in [Workers -> Seq(Frames)] /\ exc = [v \in Workers |-> exc[v]]
      /\ t \in Seq(Frames)
  BY DEF TypeInv, StackInv, StackOK
<1>2. stack' \in [Workers -> Seq(Frames)] /\ stack'[w] = t
  BY <1>1
<1>3. exc' = [v \in Workers |-> exc'[v]] /\ exc'[w] = x
  BY <1>1
<1> QED
  BY <1>1, <1>2, <1>3 DEF OnlyOf

LEMMA SameStack ==
    ASSUME TypeInv, NEW w \in Workers
    PROVE  /\ UNCHANGED stack => stack' = [stack EXCEPT ![w] = stack[w]]
           /\ UNCHANGED exc => exc' = [exc EXCEPT ![w] = exc[w]]
  BY DEF TypeInv, StackInv

LEMMA CallStack ==
    ASSUME TypeInv, NEW w \in Workers, Call(w)
    PROVE  OnlyOf(w)
<1> DEFINE f == Frame("wrapper", "lookup", calls + 1)
<1>1. /\ stack[w] # << >> /\ exc[w] = NoExc /\ Top(w).kind = "user"
      /\ Len(stack[w]) + 2 <= MaxDepth /\ UNCHANGED exc
  BY TopFacts DEF Call, Running
<1>2. Top(w).pc = "run" /\ Top(w) = stack[w][Len(stack[w])]
  BY <1>1, TopFacts
<1>3. /\ f \in Frames /\ f.kind = "wrapper" /\ f.pc = "lookup"
  <2>1. calls + 1 \in Nat
    BY BoundsFacts DEF TypeInv, RestOK
  <2> QED
    BY <2>1, WrapperFrame
<1>4. Len(stack[w]) + 1 <= MaxDepth /\ stack[w] \in Seq(Frames) /\ StackOK(stack[w], NoExc)
  BY <1>1, TopFacts, BoundsFacts
<1> HIDE DEF f
<1>5. StackOK(Append(stack[w], f), NoExc)
  BY <1>1, <1>2, <1>3, <1>4, PushOK
<1>6. StackOK(Append(stack[w], User), NoExc)
  BY <1>1, <1>2, <1>4, UserFrame, PushOK
<1>7. \/ stack' = [stack EXCEPT ![w] = Append(stack[w], f)]
      \/ stack' = [stack EXCEPT ![w] = Append(stack[w], User)]
  BY DEF Call, Push, f
<1> QED
  BY <1>1, <1>5, <1>6, <1>7, SameStack, OnlyOfIntro

LEMMA LookupStack ==
    ASSUME TypeInv, NEW w \in Workers, Lookup(w) \/ Enter(w)
    PROVE  OnlyOf(w)
<1>1. /\ stack[w] # << >> /\ exc[w] = NoExc /\ Top(w).pc \in {"lookup", "enter"} /\ UNCHANGED exc
  BY DEF Lookup, Enter, At
<1>2. /\ Top(w) = stack[w][Len(stack[w])] /\ Top(w).kind = "wrapper"
      /\ Len(stack[w]) + 1 <= MaxDepth /\ stack[w] \in Seq(Frames) /\ StackOK(stack[w], NoExc)
      /\ Depth(w) = Len(stack[w])
  <2>1. Top(w) \in Frames /\ Top(w).kind # "user"
    BY <1>1, TopFacts
  <2> QED
    BY <1>1, <2>1, TopFacts DEF StackOK, Frames
<1>3. ASSUME NEW pc \in {"bind", "transparent", "guarded"}
      PROVE  LET t == Marked(w, pc)
             IN  StackOK(t, NoExc) /\ (pc # "bind" => StackOK(Append(t, User), NoExc))
  <2> DEFINE t == Marked(w, pc)
  <2>0. /\ pc \in PCs \ {"run"} /\ t = [stack[w] EXCEPT ![Len(stack[w])].pc = pc]
        /\ stack[w][Len(stack[w])].pc \in {"lookup", "bind", "enter"}
        /\ stack[w][Len(stack[w])].kind = "wrapper" /\ stack[w] # << >>
    BY <1>1, <1>2 DEF Marked, PCs
  <2>1. /\ StackOK(t, NoExc) /\ Len(t) = Len(stack[w]) /\ t[Len(stack[w])].pc = pc
    BY <1>2, <2>0, SetTopQuiet
  <2>2. t \in Seq(Frames) /\ t[Len(t)].pc = pc /\ Len(t) + 1 <= MaxDepth
    BY <1>2, <2>1 DEF StackOK
  <2> HIDE DEF t
  <2>3. ASSUME pc # "bind"
        PROVE  StackOK(Append(t, User), NoExc)
    BY <2>1, <2>2, <2>3, PushOK, UserFrame
  <2> QED
    BY <2>1, <2>3 DEF t
<1>4. \/ stack' = [stack EXCEPT ![w] = Marked(w, "bind")]
      \/ stack' = [stack EXCEPT ![w] = Append(Marked(w, "transparent"), User)]
      \/ stack' = [stack EXCEPT ![w] = Append(Marked(w, "guarded"), User)]
  BY DEF Lookup, Enter, SetTop
<1>5. exc' = [exc EXCEPT ![w] = NoExc]
  BY <1>1, SameStack
<1> QED
  BY <1>3, <1>4, <1>5, OnlyOfIntro

LEMMA BindStack ==
    ASSUME TypeInv, NEW w \in Workers, Bind(w)
    PROVE  OnlyOf(w)
<1>1. stack[w] # << >> /\ exc[w] = NoExc /\ Top(w).pc = "bind"
  BY DEF Bind, At
<1>2. /\ Top(w) = stack[w][Len(stack[w])] /\ Top(w).kind = "wrapper"
      /\ stack[w] \in Seq(Frames) /\ StackOK(stack[w], NoExc) /\ Depth(w) = Len(stack[w])
  <2>1. Top(w) \in Frames /\ Top(w).kind # "user"
    BY <1>1, TopFacts
  <2> QED
    BY <1>1, <2>1, TopFacts DEF Frames
<1> DEFINE x == Through(Through(Through(Nothing(FALSE), Depth(w) + 2, FALSE), Depth(w) + 1, TRUE),
                        Depth(w), TRUE)
<1>3. IsExc(x) /\ x.head = Len(stack[w])
  BY <1>2, ThroughOK
<1>4. \/ /\ stack' = [stack EXCEPT ![w] = Marked(w, "enter")]
         /\ exc' = [exc EXCEPT ![w] = NoExc]
      \/ /\ stack' = [stack EXCEPT ![w] = Marked(w, "unguarded")]
         /\ exc' = [exc EXCEPT ![w] = x]
  BY <1>1, SameStack DEF Bind, SetTop
<1> HIDE DEF x
<1>5. StackOK(Marked(w, "enter"), NoExc)
  BY <1>1, <1>2, SetTopQuiet DEF Marked, PCs
<1>6. StackOK(Marked(w, "unguarded"), x)
  BY <1>1, <1>2, <1>3, SetTopOK DEF Marked, PCs
<1> QED
  BY <1>4, <1>5, <1>6, OnlyOfIntro

LEMMA ReturnStack ==
    ASSUME TypeInv, NEW w \in Workers, Return(w)
    PROVE  OnlyOf(w)
<1>1. /\ stack[w] # << >> /\ exc[w] = NoExc /\ stack[w] \in Seq(Frames)
      /\ StackOK(stack[w], NoExc) /\ Depth(w) = Len(stack[w]) /\ UNCHANGED exc
  BY TopFacts DEF Return, Running
<1>2. /\ 1 \in 1..Len(stack[w]) /\ (Depth(w) > 1 => 2 \in 1..Len(stack[w]))
  BY <1>1
<1>3. PICK n \in 1..Len(stack[w]) : stack' = [stack EXCEPT ![w] = SubSeq(stack[w], 1, Len(stack[w]) - n)]
  BY <1>2 DEF Return, Pop
<1>4. StackOK(SubSeq(stack[w], 1, Len(stack[w]) - n), NoExc)
  BY <1>1, PopOK
<1>5. exc' = [exc EXCEPT ![w] = NoExc]
  BY <1>1, SameStack
<1> QED
  BY <1>3, <1>4, <1>5, OnlyOfIntro

LEMMA RaiseStack ==
    ASSUME TypeInv, NEW w \in Workers, Raise(w) \/ Catch(w)
    PROVE  OnlyOf(w)
<1>1. /\ StackOK(stack[w], exc[w]) /\ Depth(w) = Len(stack[w])
      /\ stack' = [stack EXCEPT ![w] = stack[w]]
  BY TopFacts, SameStack DEF Raise, Catch
<1>2. CASE Raise(w)
  <2>0. PICK base \in BOOLEAN :
           exc' = [exc EXCEPT ![w] = Through(Nothing(base), Depth(w), FALSE)]
    BY <1>2 DEF Raise
  <2> DEFINE x == Through(Nothing(base), Depth(w), FALSE)
  <2>1. IsExc(x) /\ x.head = Len(stack[w])
    BY <1>1, ThroughOK
  <2>2. stack[w] # << >> /\ exc' = [exc EXCEPT ![w] = x]
    BY <1>2, <2>0 DEF Raise, Running
  <2> HIDE DEF x
  <2>3. StackOK(stack[w], x)
    BY <1>1, <2>1, <2>2 DEF StackOK
  <2> QED
    BY <1>1, <2>2, <2>3, OnlyOfIntro
<1>3. CASE Catch(w)
  <2>1. StackOK(stack[w], NoExc) /\ exc' = [exc EXCEPT ![w] = NoExc]
    BY <1>1, <1>3 DEF StackOK, Catch
  <2> QED
    BY <1>1, <2>1, OnlyOfIntro
<1> QED
  BY <1>2, <1>3

LEMMA UnwindStack ==
    ASSUME TypeInv, NEW w \in Workers, Unwind(w)
    PROVE  OnlyOf(w)
<1>1. /\ exc[w] # NoExc /\ StackOK(stack[w], exc[w]) /\ Depth(w) = Len(stack[w])
      /\ stack[w] \in Seq(Frames) /\ stack[w] # << >> /\ Depth(w) \in Nat
  BY TopFacts DEF Unwind, StackOK
<1>2. 1 \in 1..Len(stack[w])
  BY <1>1
<1> DEFINE t == SubSeq(stack[w], 1, Len(stack[w]) - 1)
           x == IF Depth(w) = 1 THEN NoExc
                ELSE Through(exc[w], Depth(w) - 1, stack[w][Depth(w) - 1].kind = "wrapper")
<1>3. stack' = [stack EXCEPT ![w] = t] /\ exc' = [exc EXCEPT ![w] = x]
  BY DEF Unwind, Pop
<1>4. StackOK(t, NoExc) /\ Len(t) = Len(stack[w]) - 1
  BY <1>1, <1>2, PopOK
<1>5. x # NoExc => IsExc(x) /\ x.head = Len(stack[w]) - 1 /\ Depth(w) # 1
  BY <1>1, ThroughOK
<1> HIDE DEF t, x
<1>6. StackOK(t, x)
  <2>1. x # NoExc => t # << >>
    <3>1. Len(<< >>) = 0
      OBVIOUS
    <3>2. x # NoExc => Len(t) # 0
      BY <1>1, <1>4, <1>5
    <3> QED
      BY <3>1, <3>2
  <2> QED
    BY <1>4, <1>5, <2>1 DEF StackOK
<1> QED
  BY <1>3, <1>6, OnlyOfIntro

LEMMA ExceptStack ==
    ASSUME TypeInv, NEW w \in Workers, Except(w)
    PROVE  OnlyOf(w)
<1>1. /\ exc[w] # NoExc /\ StackOK(stack[w], exc[w]) /\ Depth(w) = Len(stack[w])
      /\ stack[w] \in Seq(Frames) /\ stack[w] # << >> /\ Top(w).pc = "guarded"
      /\ IsExc(exc[w]) /\ exc[w].head = Len(stack[w])
  BY TopFacts DEF Except, StackOK
<1>2. /\ Top(w) = stack[w][Len(stack[w])] /\ Top(w).kind = "wrapper"
  <2>1. Top(w) \in Frames /\ Top(w).kind # "user"
    BY <1>1, TopFacts
  <2> QED
    BY <1>1, <2>1, TopFacts DEF Frames
<1>3. stack' = [stack EXCEPT ![w] = Marked(w, "unguarded")]
  BY DEF Except, SetTop
<1>4. \/ exc' = [exc EXCEPT ![w] = exc[w]]
      \/ \E r : exc' = [exc EXCEPT ![w] = Rewound(exc[w], r)]
  BY DEF Except
<1>5. PICK x : /\ exc' = [exc EXCEPT ![w] = x]
               /\ x = exc[w] \/ \E r : x = Rewound(exc[w], r)
  BY <1>4
<1>6. IsExc(x) /\ x.head = exc[w].head
  <2>1. \A r : IsExc(Rewound(exc[w], r)) /\ Rewound(exc[w], r).head = exc[w].head
    BY <1>1 DEF IsExc, Rewound
  <2> QED
    BY <1>1, <1>5, <2>1
<1>7. StackOK(Marked(w, "unguarded"), x)
  BY <1>1, <1>2, <1>6, SetTopOK DEF Marked, PCs
<1>8. exc' = [exc EXCEPT ![w] = x]
  BY <1>5
<1> QED
  BY <1>3, <1>7, <1>8, OnlyOfIntro

LEMMA StepStack ==
    ASSUME TypeInv, NEW w \in Workers, Step(w)
    PROVE  OnlyOf(w)
  BY CallStack, LookupStack, BindStack, ReturnStack, RaiseStack, UnwindStack, ExceptStack
     DEF Step

LEMMA StackStep ==
    ASSUME TypeInv, [Next]_vars
    PROVE  StackInv'
<1>1. CASE UNCHANGED <<stack, exc>>
  BY <1>1 DEF TypeInv, StackInv
<1>2. ASSUME NEW w \in Workers, OnlyOf(w)
      PROVE  StackInv'
  BY <1>2 DEF OnlyOf, StackInv, TypeInv
<1>3. ASSUME NEW w \in Workers, NEW v \in Workers, StartJob(w, v)
      PROVE  OnlyOf(v)
  <2>1. /\ stack[v] = << >> /\ stack' = [stack EXCEPT ![v] = Append(stack[v], User)]
        /\ UNCHANGED exc
    BY <1>3 DEF StartJob, Push
  <2>2. StackOK(stack[v], exc[v]) /\ exc[v] = NoExc /\ Len(stack[v]) = 0 /\ stack[v] \in Seq(Frames)
    BY <2>1, TopFacts DEF StackOK
  <2>3. StackOK(Append(stack[v], User), NoExc)
    <3>1. Len(stack[v]) + 1 <= MaxDepth
      BY <2>2, BoundsFacts
    <3>2. User.pc \notin {"lookup", "bind", "enter"}
      BY UserFrame
    <3>3. StackOK(stack[v], NoExc)
      BY <2>2
    <3> QED
      BY <2>1, <2>2, <3>1, <3>2, <3>3, PushOK, UserFrame
  <2>4. exc' = [exc EXCEPT ![v] = NoExc]
    BY <2>1, <2>2, SameStack
  <2> QED
    BY <2>1, <2>3, <2>4, OnlyOfIntro
<1> QED
  BY <1>1, <1>2, <1>3, StepStack
     DEF Next, vars, FactoryStep, DefineClass, RestoreHook, SetTrace
(***************************************************************************)
(* The records.                                                            *)
(***************************************************************************)
LEMMA RecordMade ==
    ASSUME TypeInv, NEW w \in Workers, NEW id, NEW message \in Message, NEW tb, NEW path,
           NEW r \in Record(w, id, message, tb, path)
    PROVE  RecordOK(w, r) /\ r.call = id /\ r.message = message
<1>1. PICK k \in Keeps(trace[w], message) :
         r = [call |-> id, message |-> message, trace |-> trace[w], tb |-> tb, path |-> path,
              kept |-> k]
  BY DEF Record, Entry
<1>2. r.message = message /\ r.trace = trace[w] /\ r.kept = k /\ r.call = id
  BY <1>1
<1>3. trace[w] \in Ids /\ trace[w] \in own[w]
  BY DEF TypeInv, RestOK
<1>4. ASSUME sampling.deterministic, message \in {"Execution", "Result"}
      PROVE  k = Sampled(trace[w])
  <2>1. sampling.rate \in {"zero", "some", "one"}
    BY CallsAssumption DEF TypeInv, RestOK, SamplingType
  <2>2. CASE sampling.rate = "one"
    BY <1>4, <2>2 DEF Keeps, Sampled
  <2>3. CASE sampling.rate = "zero"
    BY <1>4, <2>3 DEF Keeps, Sampled
  <2>4. CASE sampling.rate = "some"
    <3>1. k = (trace[w] \in sampling.hash)
      BY <1>4, <2>4 DEF Keeps, Key
    <3>2. Sampled(trace[w]) = (trace[w] \in sampling.hash)
      BY <2>4 DEF Sampled
    <3> QED
      BY <3>1, <3>2
  <2> QED
    BY <2>1, <2>2, <2>3, <2>4
<1> QED
  BY <1>2, <1>3, <1>4 DEF RecordOK

LEMMA MarkMade ==
    ASSUME TypeInv, NEW w \in Workers, NEW id
    PROVE  LET r == Entry(w, id, "Abandoned", << >>, {}, FALSE)
           IN  RecordOK(w, r) /\ r.call = id /\ r.message = "Abandoned"
  BY DEF TypeInv, RestOK, RecordOK, Entry

LEMMA LogAppend ==
    ASSUME NEW w, NEW s, NEW r, LogOK(w, s), RecordOK(w, r)
    PROVE  LogOK(w, Append(s, r))
<1>1. PICK S : s \in Seq(S)
  BY DEF LogOK, IsSequence
<1>2. s \in Seq(S \cup {r})
  BY <1>1
<1> DEFINE t == Append(s, r)
<1>3. /\ t \in Seq(S \cup {r}) /\ Len(t) = Len(s) + 1 /\ Len(s) \in Nat
      /\ t[Len(s) + 1] = r /\ \A i \in 1..Len(s) : t[i] = s[i]
  BY <1>2
<1> HIDE DEF t
<1>4. ASSUME NEW i \in 1..Len(t)
      PROVE  RecordOK(w, t[i])
  <2>1. i = Len(s) + 1 \/ i \in 1..Len(s)
    BY <1>3
  <2> QED
    BY <1>3, <2>1 DEF LogOK
<1> QED
  BY <1>3, <1>4 DEF LogOK, IsSequence, t

(* What a step of w logs, and nobody else.                                 *)
LogsOf(w) ==
    /\ out' = [v \in Workers |-> out'[v]]
    /\ \A v \in Workers : v # w => out'[v] = out[v]
    /\ LogOK(w, out'[w])

LEMMA StepLogs ==
    ASSUME TypeInv, NEW w \in Workers, Step(w)
    PROVE  LogsOf(w) /\ UNCHANGED <<own, sampling, trace>>
<1>0. /\ UNCHANGED <<own, sampling, trace>>
      /\ out = [v \in Workers |-> out[v]] /\ LogOK(w, out[w])
  BY DEF TypeInv, LogInv, Step, Call, Lookup, Bind, Enter, Return, Raise, Catch, Unwind, Except
<1>1. ASSUME NEW t, out' = [out EXCEPT ![w] = t], LogOK(w, t)
      PROVE  LogsOf(w)
  BY <1>0, <1>1 DEF LogsOf
<1>2. ASSUME UNCHANGED out
      PROVE  LogsOf(w)
  BY <1>0, <1>2 DEF LogsOf
<1>3. ASSUME NEW id, NEW message \in Message, Log(w, id, message)
      PROVE  LogsOf(w)
  <2>1. PICK r \in Record(w, id, message, << >>, {}) : out' = [out EXCEPT ![w] = Append(out[w], r)]
    BY <1>3 DEF Log
  <2>2. LogOK(w, Append(out[w], r))
    BY <1>0, <1>3, <2>1, RecordMade, LogAppend
  <2> QED
    BY <1>1, <2>1, <2>2
<1>4. CASE Except(w)
  <2> DEFINE rewound == IF options.show_frames THEN exc[w] ELSE Rewind(exc[w])
             rendered == options.log_exceptions /\ options.render
             Visible == IF options.show_frames THEN exc[w].passed
                        ELSE exc[w].passed \ exc[w].hidden
  <2>1. PICK r \in Record(w, Top(w).id, "Error", << >>, {}),
             t \in Record(w, Top(w).id, "Traceback", Chain(rewound.head, rewound.links), Visible) :
           out' = [out EXCEPT ![w] = @ \o (IF options.log_exceptions THEN <<r>> ELSE << >>)
                                       \o (IF rendered THEN <<t>> ELSE << >>)]
    BY <1>4 DEF Except
  <2>2. RecordOK(w, r) /\ RecordOK(w, t)
    BY RecordMade DEF Message
  <2> DEFINE s == out[w]
             a == IF options.log_exceptions THEN <<r>> ELSE << >>
             b == IF rendered THEN <<t>> ELSE << >>
  <2>3. out' = [out EXCEPT ![w] = s \o a \o b]
    BY <1>0, <2>1
  <2>4. PICK S : s \in Seq(S)
    BY <1>0 DEF LogOK, IsSequence
  <2>5. s \in Seq(S \cup {r, t})
    BY <2>4
  <2>6. LogOK(w, Append(s, r)) /\ LogOK(w, Append(Append(s, r), t)) /\ LogOK(w, s)
    BY <1>0, <2>2, LogAppend
  <2>7. options.log_exceptions => a = <<r>>
    OBVIOUS
  <2>8. ~options.log_exceptions => a = << >> /\ b = << >>
    OBVIOUS
  <2>9. b = <<t>> \/ b = << >>
    OBVIOUS
  <2> HIDE DEF a, b, s, rendered
  <2>10. LogOK(w, s \o a \o b)
    <3>1. CASE a = << >> /\ b = << >>
      <4>1. s \o << >> \o << >> = s
        BY <2>5
      <4> QED
        BY <2>6, <3>1, <4>1
    <3>2. CASE a = <<r>> /\ b = << >>
      <4>1. s \o <<r>> \o << >> = Append(s, r)
        BY <2>5
      <4> QED
        BY <2>6, <3>2, <4>1
    <3>3. CASE a = <<r>> /\ b = <<t>>
      <4>1. s \o <<r>> \o <<t>> = Append(Append(s, r), t)
        BY <2>5
      <4> QED
        BY <2>6, <3>3, <4>1
    <3> QED
      BY <2>7, <2>8, <2>9, <3>1, <3>2, <3>3
  <2> QED
    BY <1>0, <1>1, <2>3, <2>10
<1>5. CASE Enter(w) \/ Return(w)
  <2>1. UNCHANGED out \/ \E id : Log(w, id, "Execution") \/ Log(w, id, "Result")
    BY <1>5 DEF Enter, Return
  <2> QED
    BY <1>0, <1>2, <1>3, <2>1 DEF Message
<1>6. CASE Unwind(w)
  <2> DEFINE mark == Entry(w, Top(w).id, "Abandoned", << >>, {}, FALSE)
  <2>1. UNCHANGED out \/ out' = [out EXCEPT ![w] = Append(out[w], mark)]
    BY <1>6 DEF Unwind
  <2>2. LogOK(w, Append(out[w], mark))
    BY <1>0, MarkMade, LogAppend
  <2> HIDE DEF mark
  <2> QED
    BY <1>0, <1>1, <1>2, <2>1, <2>2
<1> QED
  BY <1>0, <1>2, <1>4, <1>5, <1>6 DEF Step, Call, Lookup, Bind, Raise, Catch

LEMMA LogKept ==
    ASSUME NEW w \in Workers, NEW s, LogOK(w, s), out'[w] = s, sampling' = sampling,
           own[w] \subseteq own'[w] \/ w \notin Tasks \/ s = << >>
    PROVE  LogOK(w, out[w])'
<1>1. CASE own[w] \subseteq own'[w] \/ w \notin Tasks
  <2>1. \A i \in 1..Len(s) : RecordOK(w, s[i])
    BY DEF LogOK
  <2>2. ASSUME NEW i \in 1..Len(out'[w])
        PROVE  RecordOK(w, out[w][i])'
    <3>1. RecordOK(w, out'[w][i])
      BY <2>1
    <3> QED
      BY <1>1, <3>1 DEF RecordOK, Sampled
  <2> QED
    BY <2>2 DEF LogOK, IsSequence
<1>2. CASE s = << >>
  <2>1. << >> \in Seq({}) /\ 1..Len(<< >>) = {}
    OBVIOUS
  <2> QED
    BY <1>2, <2>1 DEF LogOK, IsSequence
<1> QED
  BY <1>1, <1>2

LEMMA LogStep ==
    ASSUME TypeInv, [Next]_vars
    PROVE  LogInv'
<1>0. /\ out = [w \in Workers |-> out[w]] /\ \A w \in Workers : LogOK(w, out[w])
      /\ own \in [Workers -> SUBSET Ids]
  BY DEF TypeInv, LogInv, RestOK
<1>1. CASE UNCHANGED <<out, own, sampling>>
  <2>1. \A w \in Workers : LogOK(w, out[w])'
    BY <1>0, <1>1, LogKept
  <2> QED
    BY <1>0, <1>1, <2>1 DEF LogInv
<1>2. ASSUME NEW w \in Workers, Step(w)
      PROVE  LogInv'
  <2>1. LogsOf(w) /\ UNCHANGED <<own, sampling>>
    BY <1>2, StepLogs
  <2>2. \A v \in Workers : LogOK(v, out'[v])
    BY <1>0, <2>1 DEF LogsOf
  <2>3. \A v \in Workers : LogOK(v, out[v])'
    BY <2>1, <2>2, LogKept
  <2> QED
    BY <2>1, <2>3 DEF LogInv, LogsOf
<1>3. ASSUME NEW w \in Workers, NEW id, SetTrace(w, id)
      PROVE  LogInv'
  <2>1. UNCHANGED <<out, sampling>> /\ own' = [own EXCEPT ![w] = own[w] \cup {id}]
    BY <1>3 DEF SetTrace
  <2>2. \A v \in Workers : own[v] \subseteq own'[v]
    BY <1>0, <2>1
  <2>3. \A v \in Workers : LogOK(v, out[v])'
    BY <1>0, <2>1, <2>2, LogKept
  <2> QED
    BY <1>0, <2>1, <2>3 DEF LogInv
<1>4. ASSUME NEW w \in Workers, NEW v \in Workers, StartJob(w, v)
      PROVE  LogInv'
  <2>1. UNCHANGED <<out, sampling>> /\ (v \in Tasks => out[v] = << >>)
    BY <1>4 DEF StartJob
  <2>2. \A x \in Workers : x # v \/ v \notin Tasks => own'[x] = own[x]
    BY <1>0, <1>4 DEF StartJob
  <2>3. ASSUME NEW x \in Workers
        PROVE  LogOK(x, out[x])'
    <3>1. own[x] \subseteq own'[x] \/ x \notin Tasks \/ out[x] = << >>
      BY <2>1, <2>2
    <3> QED
      BY <1>0, <2>1, <3>1, LogKept
  <2> QED
    BY <1>0, <2>1, <2>3 DEF LogInv
<1> QED
  BY <1>1, <1>2, <1>3, <1>4 DEF Next, vars, FactoryStep, DefineClass, RestoreHook
(***************************************************************************)
(* The settings, the counters and the trace ids.                           *)
(***************************************************************************)
LEMMA RestStep ==
    ASSUME TypeInv, [Next]_vars
    PROVE  RestOK'
<1>0. /\ \E s \in Settings : options = s.options /\ sampling = s.sampling
      /\ factory \in {"none", "up", "closing", "gone"}
      /\ klass \in {"undefined", "plain", "wrapped"} /\ hook \in {"default", "silent"}
      /\ calls \in 0..MaxCalls /\ jobs \in 0..MaxJobs /\ sets \in 0..MaxSets
      /\ trace \in [Workers -> Ids] /\ own \in [Workers -> SUBSET Ids]
      /\ \A w \in Workers : trace[w] \in own[w]
  BY DEF TypeInv, RestOK
<1>1. UNCHANGED <<options, sampling>>
  BY DEF Next, vars, Step, Call, Lookup, Bind, Enter, Return, Raise, Catch, Unwind, Except,
     FactoryStep, DefineClass, RestoreHook, SetTrace, StartJob
<1>2. /\ factory' \in {"none", "up", "closing", "gone"}
      /\ klass' \in {"undefined", "plain", "wrapped"} /\ hook' \in {"default", "silent"}
  <2>1. /\ factory' \in {factory, "up", "closing", "gone"}
        /\ klass' \in {klass, "plain", "wrapped"}
    BY DEF Next, vars, Step, Call, Lookup, Bind, Enter, Return, Raise, Catch, Unwind, Except,
       FactoryStep, DefineClass, RestoreHook, SetTrace, StartJob
  <2>2. hook' \in {hook, "silent", "default"}
    BY DEF Next, vars, Step, Call, Lookup, Bind, Enter, Return, Raise, Catch, Unwind, Except,
       FactoryStep, DefineClass, RestoreHook, SetTrace, StartJob
  <2> QED
    BY <1>0, <2>1, <2>2
<1>3. /\ calls' = calls \/ (calls < MaxCalls /\ calls' = calls + 1)
      /\ jobs' = jobs \/ (jobs < MaxJobs /\ jobs' = jobs + 1)
      /\ sets' = sets \/ (sets < MaxSets /\ sets' = sets + 1)
  BY DEF Next, vars, Step, Call, Lookup, Bind, Enter, Return, Raise, Catch, Unwind, Except,
     FactoryStep, DefineClass, RestoreHook, SetTrace, StartJob
<1>4. calls' \in 0..MaxCalls /\ jobs' \in 0..MaxJobs /\ sets' \in 0..MaxSets
  BY <1>0, <1>3, BoundsFacts
<1>5. ASSUME NEW w \in Workers, NEW id \in Ids, SetTrace(w, id)
      PROVE  /\ trace' \in [Workers -> Ids] /\ own' \in [Workers -> SUBSET Ids]
             /\ \A v \in Workers : trace'[v] \in own'[v]
  <2>1. trace' = [trace EXCEPT ![w] = id] /\ own' = [own EXCEPT ![w] = own[w] \cup {id}]
    BY <1>5 DEF SetTrace
  <2> QED
    BY <1>0, <2>1
<1>6. ASSUME NEW w \in Workers, NEW v \in Workers, StartJob(w, v)
      PROVE  /\ trace' \in [Workers -> Ids] /\ own' \in [Workers -> SUBSET Ids]
             /\ \A x \in Workers : trace'[x] \in own'[x]
  <2>1. \/ UNCHANGED <<trace, own>>
        \/ trace' = [trace EXCEPT ![v] = trace[w]] /\ own' = [own EXCEPT ![v] = {trace[w]}]
    BY <1>6 DEF StartJob
  <2> QED
    BY <1>0, <2>1
<1>7. \/ UNCHANGED <<trace, own>>
      \/ \E w \in Workers, id \in Ids : SetTrace(w, id)
      \/ \E w, v \in Workers : StartJob(w, v)
  BY StepLogs DEF Next, vars, FactoryStep, DefineClass, RestoreHook, Ids
<1>8. /\ trace' \in [Workers -> Ids] /\ own' \in [Workers -> SUBSET Ids]
      /\ \A w \in Workers : trace'[w] \in own'[w]
  BY <1>0, <1>5, <1>6, <1>7
<1> QED
  BY <1>0, <1>1, <1>2, <1>4, <1>8 DEF RestOK

LEMMA TypeInit == CallsInit => TypeInv
<1> SUFFICES ASSUME CallsInit PROVE TypeInv
  OBVIOUS
<1>1. RestOK
  <2>1. trace \in [Workers -> Ids] /\ own \in [Workers -> SUBSET Ids]
        /\ \A w \in Workers : trace[w] \in own[w]
    BY DEF CallsInit, Ids
  <2>2. calls \in 0..MaxCalls /\ jobs \in 0..MaxJobs /\ sets \in 0..MaxSets
    BY BoundsFacts DEF CallsInit
  <2> QED
    BY <2>1, <2>2 DEF CallsInit, RestOK
<1>2. LogInv
  <2>1. << >> \in Seq({}) /\ 1..Len(<< >>) = {}
    OBVIOUS
  <2>2. out = [w \in Workers |-> << >>]
    BY DEF CallsInit
  <2> QED
    BY <2>1, <2>2 DEF LogInv, LogOK, IsSequence
<1>3. StackInv
  <2>1. << >> \in Seq(Frames) /\ Len(<< >>) = 0 /\ 1..0 = {} /\ 1..(0 - 1) = {}
    OBVIOUS
  <2>2. StackOK(<< >>, NoExc)
    BY <2>1, BoundsFacts DEF StackOK
  <2>3. StackOK(<<User>>, NoExc)
    <3>1. <<User>> \in Seq(Frames) /\ Len(<<User>>) = 1 /\ \A i \in 1..1 : <<User>>[i] = User
      BY UserFrame
    <3>2. 1..(1 - 1) = {} /\ 1 \in 1..1
      OBVIOUS
    <3> QED
      BY <3>1, <3>2, UserFrame, BoundsFacts DEF StackOK
  <2>4. /\ stack = [w \in Workers |-> IF w = Main THEN <<User>> ELSE << >>]
        /\ exc = [w \in Workers |-> NoExc]
    BY DEF CallsInit
  <2>5. <<User>> \in Seq(Frames)
    BY UserFrame
  <2>6. \A w \in Workers : StackOK(stack[w], exc[w]) /\ stack[w] \in Seq(Frames)
    BY <2>1, <2>2, <2>3, <2>4, <2>5
  <2> QED
    BY <2>4, <2>6 DEF StackInv
<1> QED
  BY <1>1, <1>2, <1>3 DEF TypeInv

(* The inductive invariant of the stacks, the records and the trace ids.   *)
THEOREM TypeInvariance == Spec => []TypeInv
<1>1. TypeInv /\ [Next]_vars => TypeInv'
  BY StackStep, RestStep, LogStep DEF TypeInv
<1> QED
  BY <1>1, TypeInit, PTL DEF Spec

(* Type correctness; the frames never go beyond the depth allowed, and an  *)
(* exception is where the stack it unwinds is (the wrappers).              *)
THEOREM TypeCorrect == Spec => []TypeOK
<1>1. ASSUME TypeInv
      PROVE  TypeOK
  <2>1. ASSUME NEW w \in Workers
        PROVE  /\ Depth(w) <= MaxDepth
               /\ trace[w] \in own[w] /\ own[w] \subseteq Ids
               /\ exc[w] # NoExc => stack[w] # << >> /\ exc[w].head = Depth(w)
               /\ \A i \in DOMAIN out[w] :
                     /\ out[w][i].message \in Message \cup {"Abandoned"}
                     /\ out[w][i].trace \in Ids
    <3>1. StackOK(stack[w], exc[w]) /\ Depth(w) = Len(stack[w])
      BY <1>1, TopFacts
    <3>2. LogOK(w, out[w]) /\ DOMAIN out[w] = 1..Len(out[w])
      BY <1>1 DEF TypeInv, LogInv, LogOK, IsSequence
    <3>3. trace[w] \in own[w] /\ own[w] \subseteq Ids
      BY <1>1 DEF TypeInv, RestOK
    <3> QED
      BY <3>1, <3>2, <3>3 DEF StackOK, LogOK, RecordOK
  <2> QED
    BY <1>1, <2>1 DEF TypeOK, TypeInv, RestOK
<1> QED
  BY <1>1, TypeInvariance, PTL

(* A record carries an id that its own task was started with or has set,   *)
(* whatever the tasks beside it set (core/context.py, BoundLogger).        *)
THEOREM TasksKeepTheirTraces == Spec => []TaskTraces
<1>1. ASSUME TypeInv
      PROVE  TaskTraces
  <2> SUFFICES ASSUME NEW w \in Tasks, NEW i \in DOMAIN out[w]
               PROVE  out[w][i].trace \in own[w]
    BY DEF TaskTraces
  <2>1. w \in Workers
    BY BoundsFacts
  <2>2. LogOK(w, out[w]) /\ DOMAIN out[w] = 1..Len(out[w])
    BY <1>1, <2>1 DEF TypeInv, LogInv, LogOK, IsSequence
  <2> QED
    BY <2>2 DEF LogOK, RecordOK
<1> QED
  BY <1>1, TypeInvariance, PTL

(* Deterministic sampling keeps or drops what is below WARNING of a trace  *)
(* as a whole, whoever logs it and when (core/filters/sampling.py); it     *)
(* says nothing of records without a trace.                                *)
THEOREM TracesAreSampledWhole == Spec => []SampledWhole
<1>1. ASSUME TypeInv
      PROVE  SampledWhole
  <2> SUFFICES ASSUME sampling.deterministic, NEW v \in Workers, NEW w \in Workers,
                      NEW i \in DOMAIN out[v], NEW j \in DOMAIN out[w],
                      {out[v][i].message, out[w][j].message} \subseteq {"Execution", "Result"},
                      out[v][i].trace = out[w][j].trace, out[v][i].trace # NoTrace
               PROVE  out[v][i].kept = out[w][j].kept
    BY DEF SampledWhole
  <2>1. /\ LogOK(v, out[v]) /\ DOMAIN out[v] = 1..Len(out[v])
        /\ LogOK(w, out[w]) /\ DOMAIN out[w] = 1..Len(out[w])
    BY <1>1 DEF TypeInv, LogInv, LogOK, IsSequence
  <2>2. /\ out[v][i].kept = Sampled(out[v][i].trace)
        /\ out[w][j].kept = Sampled(out[w][j].trace)
    BY <2>1 DEF LogOK, RecordOK
  <2> QED
    BY <2>2
<1> QED
  BY <1>1, TypeInvariance, PTL
(***************************************************************************)
(* What the records of a worker leave open, and the guarded calls on its   *)
(* stack: both are computed from the front, so the last record or frame    *)
(* decides what is added to the rest.                                      *)
(***************************************************************************)
LeftOpen(records) == Opened(records)[Len(records)]
Pending(frames) == Guarded(frames)[Len(frames)]

Parseable(s) == IsSequence(s) /\ \A i \in 1..Len(s) : s[i].call \in Nat

LEMMA ParseType ==
    ASSUME NEW open \in Seq(Nat), NEW r, r.call \in Nat
    PROVE  ParseRecord(open, r) \in Seq(Nat)
<1>1. Append(open, r.call) \in Seq(Nat) /\ <<0>> \in Seq(Nat)
  OBVIOUS
<1>2. open # << >> => Front(open) \in Seq(Nat)
  BY DEF Front
<1> QED
  BY <1>1, <1>2 DEF ParseRecord

LEMMA OpenedFacts ==
    ASSUME NEW s, Parseable(s)
    PROVE  /\ Opened(s) \in [0..Len(s) -> Seq(Nat)] /\ Opened(s)[0] = << >>
           /\ \A i \in 1..Len(s) : Opened(s)[i] = ParseRecord(Opened(s)[i - 1], s[i])
<1>1. Len(s) \in Nat /\ << >> \in Seq(Nat)
  BY DEF Parseable, IsSequence
<1> DEFINE step == [i \in 1..Len(s) |-> [a \in Seq(Nat) |-> ParseRecord(a, s[i])]]
<1>2. step \in [1..Len(s) -> [Seq(Nat) -> Seq(Nat)]]
  BY ParseType DEF Parseable
<1> DEFINE S == Seq(Nat)
           n == Len(s)
<1>3. PICK f \in [0..n -> S] : f[0] = << >> /\ \A i \in 1..n : f[i] = step[i][f[i - 1]]
  <2>1. << >> \in S /\ n \in Nat /\ step \in [1..n -> [S -> S]]
    BY <1>1, <1>2
  <2> HIDE DEF step, S, n
  <2> QED
    BY <2>1, RecursionExists
<1>4. \A i \in 1..n : i - 1 \in 0..n /\ f[i - 1] \in S
  <2>1. \A i \in 1..n : i - 1 \in 0..n
    BY <1>1
  <2> HIDE DEF S
  <2> QED
    BY <2>1
<1>5. \A i \in 1..n : f[i] = ParseRecord(f[i - 1], s[i])
  BY <1>3, <1>4
<1>6. f = [i \in 0..n |-> IF i = 0 THEN << >> ELSE ParseRecord(f[i - 1], s[i])]
  BY <1>1, <1>3, <1>5
<1> DEFINE open == Opened(s)
<1>7. open = [i \in 0..n |-> IF i = 0 THEN << >> ELSE ParseRecord(open[i - 1], s[i])]
  BY <1>6 DEF Opened
<1> HIDE DEF open
<1>8. open[0] = << >> /\ \A i \in 1..n : open[i] = ParseRecord(open[i - 1], s[i])
  BY <1>1, <1>7
<1>9. \A i \in 0..n : open[i] = f[i]
  <2>1. open[0] = f[0] /\ \A i \in 1..n : open[i - 1] = f[i - 1] => open[i] = f[i]
    BY <1>3, <1>5, <1>8
  <2>2. n \in Nat
    BY <1>1
  <2> HIDE DEF n
  <2> QED
    BY <2>1, <2>2, SameByRecursion
<1>10. open \in [0..n -> S]
  <2>1. \A i \in 0..n : open[i] \in S
    <3> HIDE DEF S
    <3> QED
      BY <1>9
  <2>2. open = [i \in 0..n |-> open[i]]
    BY <1>7
  <2> HIDE DEF S, n
  <2> QED
    BY <2>1, <2>2
<1> QED
  BY <1>8, <1>10 DEF open

LEMMA LeftOpenAppend ==
    ASSUME NEW s, Parseable(s), NEW r, r.call \in Nat
    PROVE  /\ Parseable(Append(s, r)) /\ LeftOpen(s) \in Seq(Nat)
           /\ LeftOpen(Append(s, r)) = ParseRecord(LeftOpen(s), r)
<1>1. PICK S : s \in Seq(S)
  BY DEF Parseable, IsSequence
<1>2. s \in Seq(S \cup {r})
  BY <1>1
<1> DEFINE t == Append(s, r)
           n == Len(s)
<1>3. /\ t \in Seq(S \cup {r}) /\ Len(t) = n + 1 /\ n \in Nat
      /\ t[n + 1] = r /\ \A i \in 1..n : t[i] = s[i]
  BY <1>2
<1> HIDE DEF t
<1>4. Parseable(t)
  <2>1. ASSUME NEW i \in 1..Len(t)
        PROVE  t[i].call \in Nat
    <3>1. i = n + 1 \/ i \in 1..n
      BY <1>3
    <3> QED
      BY <1>3, <3>1 DEF Parseable
  <2> QED
    BY <1>3, <2>1 DEF Parseable, IsSequence
<1>5. /\ Opened(s)[0] = << >> /\ Opened(t)[0] = << >>
      /\ \A i \in 1..n : Opened(s)[i] = ParseRecord(Opened(s)[i - 1], s[i])
      /\ \A i \in 1..(n + 1) : Opened(t)[i] = ParseRecord(Opened(t)[i - 1], t[i])
      /\ Opened(s)[n] \in Seq(Nat)
  <2>1. Parseable(s) /\ Parseable(t) /\ Len(t) = n + 1 /\ n \in 0..n
    BY <1>3, <1>4
  <2>2. /\ Opened(t)[0] = << >>
        /\ \A i \in 1..Len(t) : Opened(t)[i] = ParseRecord(Opened(t)[i - 1], t[i])
    BY <2>1, OpenedFacts
  <2>3. /\ Opened(s)[0] = << >> /\ Opened(s) \in [0..n -> Seq(Nat)]
        /\ \A i \in 1..n : Opened(s)[i] = ParseRecord(Opened(s)[i - 1], s[i])
    BY <2>1, OpenedFacts
  <2>4. Opened(s)[n] \in Seq(Nat)
    BY <2>1, <2>3
  <2> QED
    BY <2>1, <2>2, <2>3, <2>4
<1>6. \A i \in 1..n : Opened(s)[i - 1] = Opened(t)[i - 1] => Opened(s)[i] = Opened(t)[i]
  <2>1. \A i \in 1..n : i \in 1..(n + 1)
    BY <1>3
  <2> QED
    BY <1>3, <1>5, <2>1
<1> DEFINE f == Opened(s)
           g == Opened(t)
<1>7. f[0] = g[0] /\ \A i \in 1..n : f[i - 1] = g[i - 1] => f[i] = g[i]
  BY <1>5, <1>6
<1>8. f[n] = g[n]
  <2>1. n \in Nat /\ n \in 0..n
    BY <1>3
  <2> HIDE DEF f, g, n
  <2>2. \A i \in 0..n : f[i] = g[i]
    BY <1>7, <2>1, SameByRecursion
  <2> QED
    BY <2>1, <2>2
<1>9. Opened(t)[n + 1] = ParseRecord(Opened(t)[n], r)
  <2>1. n + 1 \in 1..(n + 1) /\ (n + 1) - 1 = n
    BY <1>3
  <2> QED
    BY <1>3, <1>5, <2>1
<1> QED
  BY <1>3, <1>4, <1>5, <1>8, <1>9 DEF LeftOpen, t

LEMMA GuardedFacts ==
    ASSUME NEW s \in Seq(Frames)
    PROVE  /\ Guarded(s) \in [0..Len(s) -> Seq(Nat)] /\ Guarded(s)[0] = << >>
           /\ \A i \in 1..Len(s) : Guarded(s)[i] = GuardFrame(Guarded(s)[i - 1], s[i])
<1>1. Len(s) \in Nat /\ << >> \in Seq(Nat)
  OBVIOUS
<1> DEFINE step == [i \in 1..Len(s) |-> [a \in Seq(Nat) |-> GuardFrame(a, s[i])]]
<1>2. step \in [1..Len(s) -> [Seq(Nat) -> Seq(Nat)]]
  <2>1. ASSUME NEW i \in 1..Len(s), NEW a \in Seq(Nat)
        PROVE  GuardFrame(a, s[i]) \in Seq(Nat)
    <3>1. s[i] \in Frames
      OBVIOUS
    <3>2. s[i].id \in Nat
      BY <3>1 DEF Frames
    <3> QED
      BY <3>2, AppendProperties DEF GuardFrame
  <2> QED
    BY <2>1
<1> DEFINE S == Seq(Nat)
           n == Len(s)
<1>3. PICK f \in [0..n -> S] : f[0] = << >> /\ \A i \in 1..n : f[i] = step[i][f[i - 1]]
  <2>1. << >> \in S /\ n \in Nat /\ step \in [1..n -> [S -> S]]
    BY <1>1, <1>2
  <2> DEFINE base == << >>
  <2>2. base \in S /\ n \in Nat /\ step \in [1..n -> [S -> S]]
    BY <2>1
  <2> HIDE DEF step, S, n, base
  <2>3. \E f \in [0..n -> S] : f[0] = base /\ \A i \in 1..n : f[i] = step[i][f[i - 1]]
    BY <2>2, RecursionExists
  <2> QED
    BY <2>3 DEF base
<1>4. \A i \in 1..n : i - 1 \in 0..n /\ f[i - 1] \in S
  <2>1. \A i \in 1..n : i - 1 \in 0..n
    BY <1>1
  <2> HIDE DEF S
  <2> QED
    BY <2>1
<1>5. \A i \in 1..n : f[i] = GuardFrame(f[i - 1], s[i])
  BY <1>3, <1>4
<1>6. f = [i \in 0..n |-> IF i = 0 THEN << >> ELSE GuardFrame(f[i - 1], s[i])]
  BY <1>1, <1>3, <1>5
<1> DEFINE ids == Guarded(s)
<1>7. ids = [i \in 0..n |-> IF i = 0 THEN << >> ELSE GuardFrame(ids[i - 1], s[i])]
  BY <1>6 DEF Guarded
<1> HIDE DEF ids
<1>8. ids[0] = << >> /\ \A i \in 1..n : ids[i] = GuardFrame(ids[i - 1], s[i])
  BY <1>1, <1>7
<1>9. \A i \in 0..n : ids[i] = f[i]
  <2>1. ids[0] = f[0] /\ \A i \in 1..n : ids[i - 1] = f[i - 1] => ids[i] = f[i]
    BY <1>3, <1>5, <1>8
  <2>2. n \in Nat
    BY <1>1
  <2> HIDE DEF n
  <2> QED
    BY <2>1, <2>2, SameByRecursion
<1>10. ids \in [0..n -> S]
  <2>1. \A i \in 0..n : ids[i] \in S
    <3> HIDE DEF S
    <3> QED
      BY <1>9
  <2>2. ids = [i \in 0..n |-> ids[i]]
    BY <1>7
  <2> HIDE DEF S, n
  <2> QED
    BY <2>1, <2>2
<1> QED
  BY <1>8, <1>10 DEF ids

(* The first k frames decide which of their calls are guarded.             *)
Agree(s, t, k) == \A i \in 1..k : s[i] = t[i]

LEMMA SamePrefix ==
    ASSUME NEW s \in Seq(Frames), NEW t \in Seq(Frames), NEW k \in Nat,
           k <= Len(s), k <= Len(t), Agree(s, t, k)
    PROVE  Guarded(s)[k] = Guarded(t)[k]
<1> DEFINE f == Guarded(s)
           g == Guarded(t)
<1>1. /\ f[0] = << >> /\ \A i \in 1..Len(s) : f[i] = GuardFrame(f[i - 1], s[i])
      /\ g[0] = << >> /\ \A i \in 1..Len(t) : g[i] = GuardFrame(g[i - 1], t[i])
  BY GuardedFacts
<1>2. \A i \in 1..k : i \in 1..Len(s) /\ i \in 1..Len(t)
  OBVIOUS
<1> HIDE DEF f, g
<1>3. f[0] = g[0] /\ \A i \in 1..k : f[i - 1] = g[i - 1] => f[i] = g[i]
  BY <1>1, <1>2 DEF Agree
<1>4. \A i \in 0..k : f[i] = g[i]
  BY <1>3, SameByRecursion
<1> QED
  BY <1>4 DEF f, g

LEMMA PendingTop ==
    ASSUME NEW s \in Seq(Frames), s # << >>
    PROVE  /\ Pending(s) = GuardFrame(Guarded(s)[Len(s) - 1], s[Len(s)])
           /\ Guarded(s)[Len(s) - 1] \in Seq(Nat)
<1>1. Len(s) \in 1..Len(s) /\ Len(s) - 1 \in 0..Len(s)
  OBVIOUS
<1> QED
  BY <1>1, GuardedFacts DEF Pending

LEMMA PendingPush ==
    ASSUME NEW s \in Seq(Frames), NEW f \in Frames
    PROVE  Pending(Append(s, f)) = GuardFrame(Pending(s), f)
<1> DEFINE t == Append(s, f)
<1>1. /\ t \in Seq(Frames) /\ Len(t) = Len(s) + 1 /\ Len(s) \in Nat
      /\ t[Len(s) + 1] = f
  OBVIOUS
<1>2. \A i \in 1..Len(s) : s[i] = t[i]
  OBVIOUS
<1>3. t # << >>
  BY <1>1
<1> HIDE DEF t
<1>4. Pending(t) = GuardFrame(Guarded(t)[Len(s)], f)
  BY <1>1, <1>3, PendingTop
<1>5. Guarded(s)[Len(s)] = Guarded(t)[Len(s)]
  <2>1. Len(s) \in 0..Len(s) /\ Len(s) <= Len(t)
    BY <1>1
  <2> QED
    BY <1>1, <1>2, <2>1, SamePrefix DEF Agree
<1> QED
  BY <1>4, <1>5 DEF Pending, t

LEMMA PendingMark ==
    ASSUME NEW s \in Seq(Frames), NEW t \in Seq(Frames), s # << >>, Len(t) = Len(s),
           \A i \in 1..(Len(s) - 1) : t[i] = s[i]
    PROVE  Pending(t) = GuardFrame(Guarded(s)[Len(s) - 1], t[Len(s)])
<1>1. t # << >> /\ Len(s) - 1 \in 0..Len(s) /\ Len(s) - 1 <= Len(t)
  <2>1. Len(s) # 0 /\ Len(s) \in Nat /\ Len(<< >>) = 0
    OBVIOUS
  <2> QED
    BY <2>1
<1>2. Guarded(s)[Len(s) - 1] = Guarded(t)[Len(s) - 1]
  BY <1>1, SamePrefix DEF Agree
<1> QED
  BY <1>1, <1>2, PendingTop

LEMMA PendingPop ==
    ASSUME NEW s \in Seq(Frames), NEW n \in 0..Len(s)
    PROVE  Pending(SubSeq(s, 1, Len(s) - n)) = Guarded(s)[Len(s) - n]
<1> DEFINE t == SubSeq(s, 1, Len(s) - n)
<1>1. /\ t \in Seq(Frames) /\ Len(t) = Len(s) - n /\ Len(s) - n \in 0..Len(s)
      /\ \A i \in 1..(Len(s) - n) : s[i] = t[i]
  OBVIOUS
<1> HIDE DEF t
<1>2. Guarded(s)[Len(s) - n] = Guarded(t)[Len(s) - n]
  <2>1. Len(s) - n <= Len(t)
    BY <1>1
  <2> QED
    BY <1>1, <2>1, SamePrefix DEF Agree
<1> QED
  BY <1>1, <1>2 DEF Pending, t

LEMMA NothingOpen ==
    Pending(<< >>) = << >> /\ Parseable(<< >>) /\ LeftOpen(<< >>) = << >>
<1>1. << >> \in Seq(Frames) /\ << >> \in Seq({}) /\ Len(<< >>) = 0 /\ 1..0 = {}
  OBVIOUS
<1>2. Parseable(<< >>)
  BY <1>1 DEF Parseable, IsSequence
<1> QED
  BY <1>1, <1>2, GuardedFacts, OpenedFacts DEF Pending, LeftOpen
(***************************************************************************)
(* The records nest like the calls.                                        *)
(***************************************************************************)
NestOK(s, o) == Parseable(o) /\ LeftOpen(o) = Pending(s)

NestInv == options.log_exceptions => \A w \in Workers : NestOK(stack[w], out[w])

\* What stays where only the stack and the records of w change.
NestStays(w) ==
    /\ \A v \in Workers : v # w => stack'[v] = stack[v] /\ out'[v] = out[v]
    /\ NestOK(stack'[w], out'[w])

LEMMA FrameKept ==
    ASSUME NEW ids, NEW f, f.pc # "guarded"
    PROVE  GuardFrame(ids, f) = ids
  BY DEF GuardFrame

LEMMA MarkedFacts ==
    ASSUME TypeInv, NEW w \in Workers, stack[w] # << >>, Top(w).kind = "wrapper",
           NEW pc \in PCs
    PROVE  LET t == Marked(w, pc)
               n == Len(stack[w])
           IN  /\ t \in Seq(Frames) /\ Len(t) = n
               /\ t[n].pc = pc /\ t[n].id = Top(w).id /\ Top(w).id \in Nat
               /\ \A i \in 1..(n - 1) : t[i] = stack[w][i]
               /\ Pending(t) = GuardFrame(Guarded(stack[w])[n - 1], t[n])
<1> DEFINE s == stack[w]
           n == Len(s)
           t == [s EXCEPT ![n].pc = pc]
<1>1. /\ s \in Seq(Frames) /\ n \in Nat /\ n \in 1..n /\ DOMAIN s = 1..n
      /\ s[n] \in Frames /\ Top(w) = s[n] /\ s # << >> /\ t = Marked(w, pc)
  BY TopFacts DEF Marked
<1> HIDE DEF s
<1>2. /\ t[n] = [s[n] EXCEPT !.pc = pc] /\ \A i \in 1..n : i # n => t[i] = s[i]
      /\ t = [i \in 1..n |-> t[i]]
  BY <1>1
<1>3. t[n] \in Frames /\ t[n].pc = pc /\ t[n].id = s[n].id /\ s[n].id \in Nat
  BY <1>1, <1>2 DEF Frames
<1> HIDE DEF t
<1>4. \A i \in 1..n : t[i] \in Frames
  BY <1>1, <1>2, <1>3
<1>5. t \in Seq(Frames) /\ Len(t) = n
  <2>1. t \in [1..n -> Frames]
    BY <1>2, <1>4
  <2> QED
    BY <1>1, <2>1
<1>6. \A i \in 1..(n - 1) : t[i] = s[i]
  <2>1. n \in Nat
    BY <1>1
  <2> HIDE DEF n
  <2>2. \A i \in 1..(n - 1) : i \in 1..n /\ i # n
    BY <2>1
  <2> QED
    BY <1>2, <2>2
<1>7. Pending(t) = GuardFrame(Guarded(s)[n - 1], t[n])
  BY <1>1, <1>5, <1>6, PendingMark
<1> QED
  BY <1>1, <1>3, <1>5, <1>6, <1>7 DEF s

LEMMA NestCall ==
    ASSUME TypeInv, NEW w \in Workers, NestOK(stack[w], out[w]), Call(w)
    PROVE  NestOK(stack'[w], out'[w])
<1>1. stack[w] \in Seq(Frames) /\ stack \in [Workers -> Seq(Frames)] /\ out' = out
  BY DEF TypeInv, StackInv, Call
<1>2. PICK f \in Frames : stack'[w] = Append(stack[w], f) /\ f.pc # "guarded"
  <2>1. calls + 1 \in Nat
    BY BoundsFacts DEF TypeInv, RestOK
  <2>2. \/ stack'[w] = Append(stack[w], Frame("wrapper", "lookup", calls + 1))
        \/ stack'[w] = Append(stack[w], User)
    BY <1>1 DEF Call, Push
  <2> QED
    BY <2>1, <2>2, WrapperFrame, UserFrame
<1>3. Pending(stack'[w]) = Pending(stack[w])
  BY <1>1, <1>2, PendingPush, FrameKept
<1> QED
  BY <1>1, <1>3 DEF NestOK

\* The steps of a wrapper before the call of the function, except Enter.
LEMMA NestLookup ==
    ASSUME TypeInv, NEW w \in Workers, NestOK(stack[w], out[w]), Lookup(w) \/ Bind(w)
    PROVE  NestOK(stack'[w], out'[w])
<1> DEFINE n == Len(stack[w])
           p == Guarded(stack[w])[n - 1]
<1>1. /\ stack[w] \in Seq(Frames) /\ stack \in [Workers -> Seq(Frames)] /\ out' = out
      /\ stack[w] # << >> /\ Top(w).pc \in {"lookup", "bind"} /\ Top(w) = stack[w][n]
      /\ Top(w).kind = "wrapper"
  <2>1. /\ stack[w] # << >> /\ Top(w).pc \in {"lookup", "bind"} /\ out' = out
    BY DEF Lookup, Bind, At
  <2>2. Top(w).kind = "wrapper"
    BY <2>1, TopFacts DEF Frames
  <2> QED
    BY <2>1, <2>2, TopFacts DEF TypeInv, StackInv
<1>2. Pending(stack[w]) = p
  BY <1>1, PendingTop, FrameKept
<1>3. \A pc \in {"bind", "enter", "unguarded", "transparent"} :
         Marked(w, pc) \in Seq(Frames) /\ Pending(Marked(w, pc)) = p
  BY <1>1, MarkedFacts, FrameKept DEF PCs
<1>4. \/ \E pc \in {"bind", "enter", "unguarded"} : stack'[w] = Marked(w, pc)
      \/ stack'[w] = Append(Marked(w, "transparent"), User)
  BY <1>1 DEF Lookup, Bind, SetTop
<1>5. Pending(stack'[w]) = p
  BY <1>3, <1>4, PendingPush, FrameKept, UserFrame
<1> QED
  BY <1>1, <1>2, <1>5 DEF NestOK
LEMMA Closes ==
    ASSUME NEW open \in Seq(Nat), NEW r, r.call \in Nat,
           r.message \in {"Result", "Error", "Abandoned"}
    PROVE  ParseRecord(Append(open, r.call), r) = open
<1> DEFINE s == Append(open, r.call)
<1>1. /\ s \in Seq(Nat) /\ Len(s) = Len(open) + 1 /\ Len(open) \in Nat
      /\ s[Len(s)] = r.call /\ s # << >>
  <2>1. s \in Seq(Nat) /\ Len(s) = Len(open) + 1 /\ Len(open) \in Nat
    OBVIOUS
  <2>2. s[Len(open) + 1] = r.call /\ Len(<< >>) = 0
    OBVIOUS
  <2> QED
    BY <2>1, <2>2
<1>2. SubSeq(s, 1, Len(s) - 1) = open
  OBVIOUS
<1> HIDE DEF s
<1>3. ParseRecord(s, r) = open
  BY <1>1, <1>2 DEF ParseRecord, Front, Last
<1> QED
  BY <1>3 DEF s

(* What a step of w that logs one record leaves open.                      *)
LEMMA Logged ==
    ASSUME TypeInv, NEW w \in Workers, NestOK(stack[w], out[w]),
           NEW id \in Nat, NEW message \in Message, Log(w, id, message)
    PROVE  \E r : /\ r.call = id /\ r.message = message /\ Parseable(out'[w])
                  /\ LeftOpen(out'[w]) = ParseRecord(Pending(stack[w]), r)
<1>1. out = [v \in Workers |-> out[v]]
  BY DEF TypeInv, LogInv
<1>2. PICK r \in Record(w, id, message, << >>, {}) : out' = [out EXCEPT ![w] = Append(out[w], r)]
  BY DEF Log
<1>3. out'[w] = Append(out[w], r)
  BY <1>1, <1>2
<1>4. r.call = id /\ r.message = message
  BY RecordMade
<1> QED
  BY <1>3, <1>4, LeftOpenAppend DEF NestOK

LEMMA NestEnter ==
    ASSUME TypeInv, NEW w \in Workers, NestOK(stack[w], out[w]), Enter(w)
    PROVE  NestOK(stack'[w], out'[w])
<1> DEFINE n == Len(stack[w])
           p == Guarded(stack[w])[n - 1]
           id == Top(w).id
<1>1. /\ stack[w] \in Seq(Frames) /\ stack \in [Workers -> Seq(Frames)]
      /\ stack[w] # << >> /\ Top(w).pc = "enter" /\ Top(w) = stack[w][n]
      /\ Top(w).kind = "wrapper"
  <2>1. stack[w] # << >> /\ Top(w).pc = "enter"
    BY DEF Enter, At
  <2>2. Top(w).kind = "wrapper"
    BY <2>1, TopFacts DEF Frames
  <2> QED
    BY <2>1, <2>2, TopFacts DEF TypeInv, StackInv
<1>2. Pending(stack[w]) = p /\ p \in Seq(Nat)
  BY <1>1, PendingTop, FrameKept
<1>3. /\ Marked(w, "guarded") \in Seq(Frames) /\ id \in Nat
      /\ Pending(Marked(w, "guarded")) = Append(p, id)
  BY <1>1, MarkedFacts DEF PCs, GuardFrame
<1>4. stack'[w] = Append(Marked(w, "guarded"), User)
  BY <1>1 DEF Enter
<1>5. Pending(stack'[w]) = Append(p, id)
  BY <1>3, <1>4, PendingPush, FrameKept, UserFrame
<1>6. PICK r : /\ r.call = id /\ r.message = "Execution" /\ Parseable(out'[w])
               /\ LeftOpen(out'[w]) = ParseRecord(Pending(stack[w]), r)
  BY <1>3, Logged DEF Enter, Message
<1> QED
  BY <1>2, <1>5, <1>6 DEF NestOK, ParseRecord

LEMMA NestReturn ==
    ASSUME TypeInv, NEW w \in Workers, NestOK(stack[w], out[w]), Return(w)
    PROVE  NestOK(stack'[w], out'[w])
<1> DEFINE s == stack[w]
           n == Len(s)
<1>1. /\ s \in Seq(Frames) /\ stack \in [Workers -> Seq(Frames)] /\ s # << >>
      /\ n \in Nat /\ n \in 1..n /\ Depth(w) = n /\ Top(w) = s[n] /\ Top(w).pc = "run"
  BY TopFacts DEF Return, Running, TypeInv, StackInv
<1>2. Pending(s) = Guarded(s)[n - 1]
  BY <1>1, PendingTop, FrameKept
<1>3. CASE n > 1 /\ s[n - 1].kind = "wrapper"
  <2> DEFINE q == Guarded(s)[n - 2]
  <2>1. stack'[w] = SubSeq(s, 1, n - 2) /\ 2 \in 0..n
    BY <1>1, <1>3 DEF Return, Pop
  <2>2. Pending(stack'[w]) = q
    BY <1>1, <2>1, PendingPop
  <2>3. /\ Guarded(s)[n - 1] = GuardFrame(q, s[n - 1]) /\ q \in Seq(Nat)
        /\ s[n - 1].id \in Nat
    <3>1. n - 1 \in 1..n /\ (n - 1) - 1 = n - 2 /\ n - 2 \in 0..n
      BY <1>1, <1>3
    <3>2. s[n - 1] \in Frames
      BY <1>1, <3>1
    <3> QED
      BY <1>1, <3>1, <3>2, GuardedFacts DEF Frames
  <2>4. CASE s[n - 1].pc = "guarded"
    <3>1. Log(w, s[n - 1].id, "Result")
      BY <1>1, <1>3, <2>4 DEF Return
    <3>2. PICK r : /\ r.call = s[n - 1].id /\ r.message = "Result" /\ Parseable(out'[w])
                   /\ LeftOpen(out'[w]) = ParseRecord(Pending(s), r)
      BY <2>3, <3>1, Logged DEF Message
    <3>3. Pending(s) = Append(q, r.call)
      BY <1>2, <2>3, <2>4, <3>2 DEF GuardFrame
    <3>4. LeftOpen(out'[w]) = q
      BY <2>3, <3>2, <3>3, Closes
    <3> QED
      BY <2>2, <3>2, <3>4 DEF NestOK
  <2>5. CASE s[n - 1].pc # "guarded"
    <3>1. out' = out
      BY <1>1, <1>3, <2>5 DEF Return
    <3>2. Pending(s) = q
      BY <1>2, <2>3, <2>5, FrameKept
    <3> QED
      BY <2>2, <3>1, <3>2 DEF NestOK
  <2> QED
    BY <2>4, <2>5
<1>4. CASE ~(n > 1 /\ s[n - 1].kind = "wrapper")
  <2>1. stack'[w] = SubSeq(s, 1, n - 1) /\ 1 \in 0..n /\ out' = out
    BY <1>1, <1>4 DEF Return, Pop
  <2>2. Pending(stack'[w]) = Guarded(s)[n - 1]
    BY <1>1, <2>1, PendingPop
  <2> QED
    BY <1>2, <2>1, <2>2 DEF NestOK
<1> QED
  BY <1>3, <1>4

(* The exception leaves a frame; where its call was guarded, the mark      *)
(* closes that call.                                                       *)
LEMMA NestUnwind ==
    ASSUME TypeInv, NEW w \in Workers, NestOK(stack[w], out[w]), Unwind(w)
    PROVE  NestOK(stack'[w], out'[w])
<1> DEFINE s == stack[w]
           n == Len(s)
           p == Guarded(s)[n - 1]
<1>1. /\ s \in Seq(Frames) /\ stack \in [Workers -> Seq(Frames)] /\ s # << >>
      /\ n \in Nat /\ n \in 1..n /\ Top(w) = s[n] /\ Top(w).id \in Nat
      /\ out = [v \in Workers |-> out[v]]
  <2>1. s # << >>
    BY TopFacts DEF Unwind, StackOK
  <2>2. Top(w).id \in Nat
    BY <2>1, TopFacts DEF Frames
  <2> QED
    BY <2>1, <2>2, TopFacts DEF TypeInv, StackInv, LogInv
<1>2. Pending(s) = GuardFrame(p, s[n]) /\ p \in Seq(Nat)
  BY <1>1, PendingTop
<1>3. stack'[w] = SubSeq(s, 1, n - 1) /\ 1 \in 0..n
  BY <1>1 DEF Unwind, Pop
<1>4. Pending(stack'[w]) = p
  BY <1>1, <1>3, PendingPop
<1>5. CASE Top(w).pc # "guarded"
  <2>1. out' = out /\ Pending(s) = p
    BY <1>1, <1>2, <1>5, FrameKept DEF Unwind
  <2> QED
    BY <1>4, <2>1 DEF NestOK
<1>6. CASE Top(w).pc = "guarded"
  <2> DEFINE mark == Entry(w, Top(w).id, "Abandoned", << >>, {}, FALSE)
  <2>1. out' = [out EXCEPT ![w] = Append(out[w], mark)]
    BY <1>6 DEF Unwind
  <2>2. mark.call = Top(w).id /\ mark.message = "Abandoned"
    BY MarkMade
  <2> HIDE DEF mark
  <2>3. out'[w] = Append(out[w], mark)
    BY <1>1, <2>1
  <2>4. Pending(s) = Append(p, mark.call)
    BY <1>1, <1>2, <1>6, <2>2 DEF GuardFrame
  <2>5. /\ Parseable(out'[w])
        /\ LeftOpen(out'[w]) = ParseRecord(Append(p, mark.call), mark)
    BY <1>1, <2>2, <2>3, <2>4, LeftOpenAppend DEF NestOK
  <2>6. LeftOpen(out'[w]) = p
    BY <1>1, <1>2, <2>2, <2>5, Closes
  <2> QED
    BY <1>4, <2>5, <2>6 DEF NestOK
<1> QED
  BY <1>5, <1>6
(* The error closes its call; a traceback after it changes nothing.        *)
LEMMA NestExcept ==
    ASSUME TypeInv, NEW w \in Workers, NestOK(stack[w], out[w]), Except(w),
           options.log_exceptions
    PROVE  NestOK(stack'[w], out'[w])
<1> DEFINE n == Len(stack[w])
           p == Guarded(stack[w])[n - 1]
           id == Top(w).id
           s == out[w]
<1>1. /\ stack[w] \in Seq(Frames) /\ stack \in [Workers -> Seq(Frames)]
      /\ stack[w] # << >> /\ Top(w).pc = "guarded" /\ Top(w) = stack[w][n]
      /\ Top(w).kind = "wrapper"
  <2>1. stack[w] # << >> /\ Top(w).pc = "guarded"
    BY TopFacts DEF Except, StackOK
  <2>2. Top(w).kind = "wrapper"
    BY <2>1, TopFacts DEF Frames
  <2> QED
    BY <2>1, <2>2, TopFacts DEF TypeInv, StackInv
<1>2. Pending(stack[w]) = Append(p, id) /\ p \in Seq(Nat)
  BY <1>1, PendingTop DEF GuardFrame
<1>3. id \in Nat /\ Pending(Marked(w, "unguarded")) = p
  BY <1>1, MarkedFacts, FrameKept DEF PCs
<1>4. stack'[w] = Marked(w, "unguarded")
  BY <1>1 DEF Except, SetTop
<1> DEFINE rewound == IF options.show_frames THEN exc[w] ELSE Rewind(exc[w])
           rendered == options.log_exceptions /\ options.render
           Visible == IF options.show_frames THEN exc[w].passed
                      ELSE exc[w].passed \ exc[w].hidden
<1>5. PICK r \in Record(w, id, "Error", << >>, {}),
           t \in Record(w, id, "Traceback", Chain(rewound.head, rewound.links), Visible) :
         out' = [out EXCEPT ![w] = @ \o (IF options.log_exceptions THEN <<r>> ELSE << >>)
                                     \o (IF rendered THEN <<t>> ELSE << >>)]
  BY DEF Except
<1>6. /\ r.call = id /\ r.message = "Error" /\ t.call = id /\ t.message = "Traceback"
  BY RecordMade DEF Message
<1>7. LeftOpen(Append(s, r)) = p /\ Parseable(Append(s, r))
  <2>1. /\ Parseable(Append(s, r)) /\ LeftOpen(Append(s, r)) = ParseRecord(Append(p, r.call), r)
    BY <1>2, <1>3, <1>6, LeftOpenAppend DEF NestOK
  <2> QED
    BY <1>2, <1>3, <1>6, <2>1, Closes
<1>8. LeftOpen(Append(Append(s, r), t)) = p /\ Parseable(Append(Append(s, r), t))
  <2>1. /\ Parseable(Append(Append(s, r), t))
        /\ LeftOpen(Append(Append(s, r), t)) = ParseRecord(p, t)
    BY <1>3, <1>6, <1>7, LeftOpenAppend
  <2> QED
    BY <1>6, <2>1 DEF ParseRecord
<1>9. out'[w] = Append(s, r) \/ out'[w] = Append(Append(s, r), t)
  <2>1. PICK S : s \in Seq(S)
    BY DEF NestOK, Parseable, IsSequence
  <2>2. s \in Seq(S \cup {r, t})
    BY <2>1
  <2>3. /\ s \o <<r>> \o << >> = Append(s, r)
        /\ s \o <<r>> \o <<t>> = Append(Append(s, r), t)
    BY <2>2
  <2>4. out = [v \in Workers |-> out[v]]
    BY DEF TypeInv, LogInv
  <2>5. \E b \in {<<t>>, << >>} : out' = [out EXCEPT ![w] = s \o <<r>> \o b]
    BY <1>5
  <2>6. \E b \in {<<t>>, << >>} : out'[w] = s \o <<r>> \o b
    BY <2>4, <2>5
  <2> QED
    BY <2>3, <2>6
<1> QED
  BY <1>3, <1>4, <1>7, <1>8, <1>9 DEF NestOK

LEMMA NestStep ==
    ASSUME TypeInv, NestInv, [Next]_vars
    PROVE  NestInv'
<1>1. options' = options
  BY DEF Next, vars, Step, Call, Lookup, Bind, Enter, Return, Raise, Catch, Unwind, Except,
     FactoryStep, DefineClass, RestoreHook, SetTrace, StartJob
<1> SUFFICES ASSUME options.log_exceptions
             PROVE  \A v \in Workers : NestOK(stack'[v], out'[v])
  BY <1>1 DEF NestInv
<1>2. \A v \in Workers : NestOK(stack[v], out[v])
  BY DEF NestInv
<1>3. CASE UNCHANGED <<stack, out>>
  BY <1>2, <1>3
<1>4. ASSUME NEW w \in Workers, Step(w)
      PROVE  \A v \in Workers : NestOK(stack'[v], out'[v])
  <2>1. \A v \in Workers : v # w => stack'[v] = stack[v] /\ out'[v] = out[v]
    BY <1>4, StepStack, StepLogs DEF OnlyOf, LogsOf
  <2>2. NestOK(stack'[w], out'[w])
    <3>1. CASE Raise(w) \/ Catch(w)
      BY <1>2, <3>1 DEF Raise, Catch
    <3> QED
      BY <1>2, <1>4, <3>1, NestCall, NestLookup, NestEnter, NestReturn, NestUnwind,
         NestExcept DEF Step
  <2> QED
    BY <1>2, <2>1, <2>2
<1>5. ASSUME NEW w \in Workers, NEW v \in Workers, StartJob(w, v)
      PROVE  \A x \in Workers : NestOK(stack'[x], out'[x])
  <2>1. /\ stack \in [Workers -> Seq(Frames)] /\ stack[v] = << >> /\ out' = out
        /\ stack' = [stack EXCEPT ![v] = Append(stack[v], User)]
    BY <1>5 DEF StartJob, Push, TypeInv, StackInv
  <2>2. /\ stack'[v] = Append(stack[v], User) /\ stack[v] \in Seq(Frames)
        /\ \A x \in Workers : x # v => stack'[x] = stack[x]
    BY <2>1
  <2>3. Pending(stack'[v]) = Pending(stack[v])
    BY <2>2, PendingPush, FrameKept, UserFrame
  <2> QED
    BY <1>2, <2>1, <2>2, <2>3 DEF NestOK
<1> QED
  BY <1>3, <1>4, <1>5 DEF Next, vars, FactoryStep, DefineClass, RestoreHook, SetTrace

LEMMA NestInit == CallsInit => NestInv
<1> SUFFICES ASSUME CallsInit, NEW w \in Workers
             PROVE  NestOK(stack[w], out[w])
  BY DEF NestInv
<1>1. out[w] = << >> /\ stack[w] \in {<<User>>, << >>}
  BY DEF CallsInit
<1>2. Pending(<<User>>) = << >>
  <2>1. << >> \in Seq(Frames) /\ Append(<< >>, User) = <<User>>
    OBVIOUS
  <2>2. Pending(Append(<< >>, User)) = Pending(<< >>)
    BY <2>1, PendingPush, FrameKept, UserFrame
  <2> QED
    BY <2>1, <2>2, NothingOpen
<1> QED
  BY <1>1, <1>2, NothingOpen DEF NestOK

(* What a worker's records leave open are the guarded calls on its stack,  *)
(* in every step: also where the factory closes between a call and its end.*)
THEOREM NestInvariance == Spec => []NestInv
<1>1. TypeInv /\ NestInv /\ [Next]_vars => NestInv'
  BY NestStep
<1> QED
  BY <1>1, NestInit, TypeInvariance, PTL DEF Spec

(* Each "Execution" record of the wrappers (decorators/functions.py) is    *)
(* closed by one result or one error of the same call, innermost first,    *)
(* unless the call was left by an exception that is no Exception, which    *)
(* the wrapper does not catch; and the calls not yet closed are those      *)
(* under way on the stack.                                                 *)
THEOREM RecordsNestLikeCalls == Spec => []RecordsNest
<1>1. TypeInv /\ NestInv => RecordsNest
  BY TopFacts DEF NestInv, NestOK, RecordsNest, LeftOpen, Pending
<1> QED
  BY <1>1, NestInvariance, TypeInvariance, PTL

----------------------------------------------------------------------------
(***************************************************************************)
(* Tracebacks.  A node links to a deeper one, or to none; the nodes from   *)
(* one of them on are read off its links.                                  *)
(***************************************************************************)
Linked(l) == /\ l \in [Nodes -> Nat]
             /\ \A n \in Nodes : l[n] = 0 \/ (l[n] \in Nodes /\ l[n] > n)

LEMMA NodesFacts ==
    /\ MaxDepth + 2 \in Nat /\ Nodes = 1..(MaxDepth + 2)
    /\ 0..(MaxDepth + 2) = {0} \cup Nodes
    /\ \A n \in Nodes : n \in Nat /\ n # 0 /\ n <= MaxDepth + 2 /\ n \in 0..(MaxDepth + 2)
<1>1. MaxDepth \in Nat
  BY CallsAssumption
<1> QED
  BY <1>1 DEF Nodes

(* What holds of a node when it holds of all deeper ones holds of each.    *)
LEMMA Deepest ==
    ASSUME NEW T \in SUBSET Nodes, T # {}
    PROVE  \E n \in T : \A m \in Nodes : m > n => m \notin T
<1> DEFINE N == MaxDepth + 2
           U == {i \in 0..N : N - i \in T}
<1>0. N \in Nat /\ \A n \in Nodes : n \in Nat /\ n <= N /\ n >= 1
  BY NodesFacts
<1> HIDE DEF N
<1>1. U \in SUBSET Nat
  OBVIOUS
<1>2. U # {}
  <2>1. PICK n \in T : TRUE
    OBVIOUS
  <2>2. N - n \in 0..N /\ N - (N - n) = n
    BY <1>0, <2>1
  <2>3. N - n \in U
    BY <2>1, <2>2
  <2> QED
    BY <2>3
<1>3. PICK i \in U : \A j \in U : i <= j
  <2> HIDE DEF U
  <2> QED
    BY <1>1, <1>2, SmallestOf
<1>4. i \in 0..N /\ N - i \in T
  BY <1>3
<1>5. ASSUME NEW m \in Nodes, m > N - i, m \in T
      PROVE  FALSE
  <2>1. N - m \in 0..N /\ N - (N - m) = m /\ N - m < i
    BY <1>0, <1>4, <1>5
  <2>2. N - m \in U
    BY <1>5, <2>1
  <2> QED
    BY <1>3, <1>4, <2>1, <2>2
<1> QED
  BY <1>4, <1>5

(* The recursive function of Chain exists when the links go down.          *)
LEMMA ChainExists ==
    ASSUME NEW l, Linked(l)
    PROVE  \E f : f = [n \in 0..(MaxDepth + 2) |-> IF n = 0 THEN << >> ELSE <<n>> \o f[l[n]]]
<1> DEFINE N == MaxDepth + 2
<1>0. /\ N \in Nat /\ Nodes = 1..N
      /\ \A n \in 1..N : l[n] = 0 \/ (l[n] \in 1..N /\ l[n] > n)
  BY NodesFacts DEF Linked
<1> HIDE DEF N
<1> DEFINE Dom(f) == f = [n \in 0..N |-> f[n]]
           Solves(f, k) == f[0] = << >> /\ \A n \in k..N : f[n] = <<n>> \o f[l[n]]
           T == {k \in 1..(N + 1) : \E f : Dom(f) /\ Solves(f, k)}
<1>1. T \in SUBSET Nat
  BY <1>0
<1>2. N + 1 \in T
  <2> DEFINE f == [n \in 0..N |-> << >>]
  <2>1. Dom(f) /\ Solves(f, N + 1)
    BY <1>0
  <2> HIDE DEF f
  <2> QED
    BY <1>0, <2>1
<1>3. PICK k \in T : \A j \in T : k <= j
  <2> HIDE DEF T
  <2> QED
    BY <1>1, <1>2, SmallestOf
<1>4. PICK f : Dom(f) /\ Solves(f, k)
  BY <1>3
<1>5. ASSUME k # 1
      PROVE  FALSE
  <2>1. k \in 2..(N + 1)
    BY <1>3, <1>5
  <2>2. PICK j \in 1..N : j + 1 = k
    <3>1. k - 1 \in 1..N
      BY <1>0, <2>1
    <3> QED
      BY <2>1, <3>1
  <2>3. j \in 1..(N + 1) /\ j < k /\ 0 \in 0..N /\ j \in 0..N
    BY <1>0, <2>2
  <2> DEFINE g == [n \in 0..N |-> IF n = j THEN <<j>> \o f[l[j]] ELSE f[n]]
  <2>4. Dom(g) /\ g[0] = << >> /\ g[j] = <<j>> \o f[l[j]]
    BY <1>0, <1>4, <2>3
  <2>5. \A n \in 0..N : n # j => g[n] = f[n]
    BY <1>0, <1>4, <2>3
  <2>6. ASSUME NEW n \in j..N
        PROVE  g[n] = <<n>> \o g[l[n]]
    <3>1. n \in 1..N /\ (n = j \/ n \in k..N)
      BY <1>0, <2>2
    <3>2. l[n] \in 0..N /\ l[n] # j
      BY <1>0, <2>2, <3>1
    <3>3. g[l[n]] = f[l[n]]
      BY <2>5, <3>2
    <3>4. CASE n = j
      BY <2>4, <3>3, <3>4
    <3>5. CASE n # j
      <4>1. g[n] = f[n] /\ n \in k..N
        BY <2>2, <2>5, <3>1, <3>5
      <4> QED
        BY <1>4, <3>3, <4>1
    <3> QED
      BY <3>4, <3>5
  <2> HIDE DEF g
  <2>7. Solves(g, j)
    BY <2>4, <2>6
  <2>8. j \in T
    BY <2>3, <2>4, <2>7
  <2> HIDE DEF T
  <2> QED
    BY <1>3, <2>3, <2>8, <1>1
<1>6. \A n \in 0..N : f[n] = IF n = 0 THEN << >> ELSE <<n>> \o f[l[n]]
  <2>1. \A n \in 1..N : f[n] = <<n>> \o f[l[n]]
    BY <1>4, <1>5
  <2>2. \A n \in 0..N : n = 0 \/ n \in 1..N
    BY <1>0
  <2> QED
    BY <1>4, <2>1, <2>2
<1>7. f = [n \in 0..N |-> IF n = 0 THEN << >> ELSE <<n>> \o f[l[n]]]
  BY <1>4, <1>6
<1> QED
  BY <1>7 DEF N

(* A chain is its first node and the chain of the next one.                *)
LEMMA ChainFacts ==
    ASSUME NEW l, Linked(l)
    PROVE  /\ Chain(0, l) = << >>
           /\ \A n \in Nodes : Chain(n, l) = <<n>> \o Chain(l[n], l)
<1> DEFINE G(f) == [n \in 0..(MaxDepth + 2) |-> IF n = 0 THEN << >> ELSE <<n>> \o f[l[n]]]
           c == CHOOSE f : f = G(f)
<1>1. \E f : f = G(f)
  BY ChainExists
<1>2. c = G(c)
  <2> HIDE DEF G
  <2> QED
    BY <1>1
<1>3. \A n : Chain(n, l) = c[n]
  BY DEF Chain
<1>4. \A n \in 0..(MaxDepth + 2) : c[n] = IF n = 0 THEN << >> ELSE <<n>> \o c[l[n]]
  <2> HIDE DEF c
  <2>1. \A n \in 0..(MaxDepth + 2) : G(c)[n] = IF n = 0 THEN << >> ELSE <<n>> \o c[l[n]]
    OBVIOUS
  <2> HIDE DEF G
  <2> QED
    BY <1>2, <2>1
<1>5. 0 \in 0..(MaxDepth + 2)
  BY NodesFacts
<1> HIDE DEF c
<1> QED
  BY <1>3, <1>4, <1>5, NodesFacts

Rising(s, n) == /\ s \in Seq(Nodes)
                /\ \A i \in 1..Len(s) : s[i] >= n
                /\ \A j \in 2..Len(s) : s[j - 1] < s[j]

LEMMA ConsRising ==
    ASSUME NEW s, NEW n \in Nodes, NEW m, Rising(s, m), s = << >> \/ (m \in Nat /\ m > n)
    PROVE  /\ Rising(<<n>> \o s, n)
           /\ ToSet(<<n>> \o s) = {n} \cup ToSet(s)
<1> DEFINE t == <<n>> \o s
<1>1. /\ s \in Seq(Nodes) /\ Len(s) \in Nat /\ n \in Nat
      /\ \A i \in 1..Len(s) : s[i] \in Nat /\ s[i] > n
  <2>1. s \in Seq(Nodes) /\ Len(s) \in Nat /\ n \in Nat /\ Len(<< >>) = 0
    BY NodesFacts DEF Rising
  <2>2. \A i \in 1..Len(s) : s[i] \in Nat /\ s[i] >= m
    BY <2>1, NodesFacts DEF Rising
  <2>3. CASE s = << >>
    BY <2>1, <2>3
  <2>4. CASE m \in Nat /\ m > n
    BY <2>1, <2>2, <2>4
  <2> QED
    BY <2>1, <2>3, <2>4
<1>2. /\ t \in Seq(Nodes) /\ Len(t) = Len(s) + 1 /\ t[1] = n
      /\ \A i \in 1..Len(s) : t[i + 1] = s[i]
  BY <1>1
<1> HIDE DEF t
<1>3. \A i \in 2..Len(t) : i - 1 \in 1..Len(s) /\ t[i] = s[i - 1]
  BY <1>1, <1>2
<1>4. \A i \in 1..Len(t) : t[i] >= n
  <2>1. ASSUME NEW i \in 2..Len(t)
        PROVE  t[i] >= n
    <3>1. i - 1 \in 1..Len(s) /\ t[i] = s[i - 1]
      BY <1>3
    <3>2. s[i - 1] \in Nat /\ s[i - 1] > n
      BY <1>1, <3>1
    <3> QED
      BY <1>1, <3>1, <3>2
  <2>2. \A i \in 1..Len(t) : i = 1 \/ i \in 2..Len(t)
    BY <1>1, <1>2
  <2>3. t[1] >= n
    BY <1>1, <1>2
  <2> QED
    BY <2>1, <2>2, <2>3
<1>5. ASSUME NEW j \in 2..Len(t)
      PROVE  t[j - 1] < t[j]
  <2>1. CASE j = 2
    <3>1. j - 1 = 1 /\ 1 \in 1..Len(s) /\ t[j] = s[1]
      BY <1>3, <2>1
    <3> QED
      BY <1>1, <1>2, <3>1
  <2>2. CASE j # 2
    <3>1. j - 1 \in 2..Len(t) /\ j - 1 \in 2..Len(s) /\ (j - 1) - 1 \in 1..Len(s)
      BY <1>1, <1>2, <2>2
    <3>2. t[j] = s[j - 1] /\ t[j - 1] = s[(j - 1) - 1]
      BY <1>3, <3>1
    <3>3. s[(j - 1) - 1] < s[j - 1]
      BY <3>1 DEF Rising
    <3> QED
      BY <3>2, <3>3
  <2> QED
    BY <2>1, <2>2
<1>6. Rising(t, n)
  BY <1>2, <1>4, <1>5 DEF Rising
<1>7. ToSet(t) = {n} \cup ToSet(s)
  <2>1. \A x : x \in ToSet(t) <=> \E i \in 1..Len(t) : t[i] = x
    BY <1>2, ToSetFacts
  <2>2. \A x : x \in ToSet(s) <=> \E i \in 1..Len(s) : s[i] = x
    BY <1>1, ToSetFacts
  <2>3. \A i \in 1..Len(t) : i = 1 \/ (i - 1 \in 1..Len(s) /\ t[i] = s[i - 1])
    <3>1. \A i \in 1..Len(t) : i = 1 \/ i \in 2..Len(t)
      BY <1>1, <1>2
    <3> QED
      BY <1>3, <3>1
  <2>4. 1 \in 1..Len(t) /\ \A i \in 1..Len(s) : i + 1 \in 1..Len(t)
    BY <1>1, <1>2
  <2>5. \A x : x \in ToSet(t) => x = n \/ x \in ToSet(s)
    BY <1>2, <2>1, <2>2, <2>3
  <2>6. \A x : x = n \/ x \in ToSet(s) => x \in ToSet(t)
    BY <1>2, <2>1, <2>2, <2>4
  <2> QED
    BY <2>5, <2>6
<1> QED
  BY <1>6, <1>7 DEF t

On(n, l) == ToSet(Chain(n, l))

LEMMA NoNodes == << >> \in Seq(Nodes) /\ ToSet(<< >>) = {} /\ \A n : Rising(<< >>, n)
<1>1. << >> \in Seq(Nodes) /\ Len(<< >>) = 0
  OBVIOUS
<1>2. \A n : Rising(<< >>, n)
  BY <1>1 DEF Rising
<1>3. ASSUME NEW x
      PROVE  x \notin ToSet(<< >>)
  <2>1. x \in ToSet(<< >>) <=> \E i \in 1..Len(<< >>) : << >>[i] = x
    BY <1>1, ToSetFacts
  <2> QED
    BY <1>1, <2>1
<1> QED
  BY <1>1, <1>2, <1>3

LEMMA ChainRising ==
    ASSUME NEW l, Linked(l)
    PROVE  \A n \in Nodes : Rising(Chain(n, l), n)
<1> DEFINE T == {n \in Nodes : ~Rising(Chain(n, l), n)}
<1>1. ASSUME T # {}
      PROVE  FALSE
  <2>1. T \in SUBSET Nodes
    OBVIOUS
  <2>2. PICK n \in T : \A m \in Nodes : m > n => m \notin T
    <3> HIDE DEF T
    <3> QED
      BY <1>1, <2>1, Deepest
  <2>3. n \in Nodes /\ ~Rising(Chain(n, l), n)
    BY <2>2
  <2>4. Chain(n, l) = <<n>> \o Chain(l[n], l) /\ Chain(0, l) = << >>
    BY <2>3, ChainFacts
  <2>5. CASE l[n] = 0
    BY <2>3, <2>4, <2>5, ConsRising, NoNodes
  <2>6. CASE l[n] # 0
    <3>1. l[n] \in Nodes /\ l[n] > n /\ l[n] \in Nat
      BY <2>3, <2>6, NodesFacts DEF Linked
    <3>2. Rising(Chain(l[n], l), l[n])
      BY <2>2, <3>1
    <3> QED
      BY <2>3, <2>4, <3>1, <3>2, ConsRising
  <2> QED
    BY <2>5, <2>6
<1> QED
  BY <1>1

LEMMA OnFacts ==
    ASSUME NEW l, Linked(l)
    PROVE  /\ On(0, l) = {}
           /\ \A n \in Nodes : /\ On(n, l) = {n} \cup On(l[n], l)
                               /\ \A m \in On(n, l) : m \in Nodes /\ m >= n
<1>1. On(0, l) = {}
  BY ChainFacts, NoNodes DEF On
<1>2. ASSUME NEW n \in Nodes
      PROVE  On(n, l) = {n} \cup On(l[n], l)
  <2>1. Chain(n, l) = <<n>> \o Chain(l[n], l) /\ Chain(0, l) = << >>
    BY ChainFacts
  <2>2. CASE l[n] = 0
    BY <2>1, <2>2, NoNodes, ConsRising DEF On
  <2>3. CASE l[n] # 0
    <3>1. l[n] \in Nodes /\ l[n] > n /\ l[n] \in Nat /\ Rising(Chain(l[n], l), l[n])
      BY <2>3, ChainRising, NodesFacts DEF Linked
    <3> QED
      BY <2>1, <3>1, ConsRising DEF On
  <2> QED
    BY <2>2, <2>3
<1>3. ASSUME NEW n \in Nodes, NEW m \in On(n, l)
      PROVE  m \in Nodes /\ m >= n
  <2>1. Rising(Chain(n, l), n)
    BY ChainRising
  <2>2. Chain(n, l) \in Seq(Nodes) /\ \E i \in 1..Len(Chain(n, l)) : Chain(n, l)[i] = m
    BY <1>3, <2>1, ToSetFacts DEF Rising, On
  <2> QED
    BY <2>1, <2>2 DEF Rising
<1> QED
  BY <1>1, <1>2, <1>3

(* The nodes from n on depend on the links of n and of deeper nodes.       *)
LEMMA SameAbove ==
    ASSUME NEW l, Linked(l), NEW k, Linked(k), NEW p \in Nat,
           \A n \in Nodes : n > p => k[n] = l[n]
    PROVE  \A n \in Nodes : n > p => On(n, k) = On(n, l)
<1> DEFINE T == {n \in Nodes : n > p /\ On(n, k) # On(n, l)}
<1>1. ASSUME T # {}
      PROVE  FALSE
  <2>1. T \in SUBSET Nodes
    OBVIOUS
  <2>2. PICK n \in T : \A m \in Nodes : m > n => m \notin T
    <3> HIDE DEF T
    <3> QED
      BY <1>1, <2>1, Deepest
  <2>3. n \in Nodes /\ n > p /\ On(n, k) # On(n, l)
    BY <2>2
  <2>4. /\ On(n, l) = {n} \cup On(l[n], l) /\ On(n, k) = {n} \cup On(k[n], k)
        /\ On(0, l) = On(0, k) /\ k[n] = l[n]
    BY <2>3, OnFacts
  <2>5. CASE l[n] = 0
    BY <2>3, <2>4, <2>5
  <2>6. CASE l[n] # 0
    <3>1. l[n] \in Nodes /\ l[n] > n
      BY <2>3, <2>6 DEF Linked
    <3>2. l[n] > p
      BY <2>3, <3>1, NodesFacts
    <3> QED
      BY <2>2, <2>3, <2>4, <3>1, <3>2
  <2> QED
    BY <2>5, <2>6
<1> QED
  BY <1>1

(* A node is unlinked: the chains lose it, and nothing else.               *)
LEMMA Unlink ==
    ASSUME NEW l, Linked(l), NEW p \in Nodes, NEW c \in Nodes, l[p] = c,
           NEW k, k = [l EXCEPT ![p] = l[c]]
    PROVE  /\ Linked(k)
           /\ \A n \in Nodes : On(n, k) = IF p \in On(n, l) THEN On(n, l) \ {c} ELSE On(n, l)
<1>1. /\ l \in [Nodes -> Nat] /\ p < c /\ p \in Nat /\ c \in Nat /\ l[c] \in Nat
      /\ l[c] = 0 \/ (l[c] \in Nodes /\ l[c] > c)
  BY NodesFacts DEF Linked
<1>2. k \in [Nodes -> Nat] /\ k[p] = l[c] /\ \A n \in Nodes : n # p => k[n] = l[n]
  BY <1>1
<1>3. k[p] = 0 \/ (k[p] \in Nodes /\ k[p] > p)
  BY <1>1, <1>2
<1>4. Linked(k)
  BY <1>2, <1>3 DEF Linked
<1>5. \A n \in Nodes : n > p => On(n, k) = On(n, l) /\ p \notin On(n, l)
  <2>1. \A n \in Nodes : n > p => k[n] = l[n]
    BY <1>1, <1>2, NodesFacts
  <2>2. \A n \in Nodes : n > p => On(n, k) = On(n, l)
    BY <1>1, <1>4, <2>1, SameAbove
  <2>3. ASSUME NEW n \in Nodes, n > p, p \in On(n, l)
        PROVE  FALSE
    <3>1. p >= n /\ n \in Nat
      BY <2>3, OnFacts, NodesFacts
    <3> QED
      BY <1>1, <2>3, <3>1
  <2> QED
    BY <2>2, <2>3
<1>6. On(p, k) = On(p, l) \ {c} /\ p \in On(p, l)
  <2>1. /\ On(p, l) = {p} \cup On(c, l) /\ On(c, l) = {c} \cup On(l[c], l)
        /\ On(p, k) = {p} \cup On(k[p], k) /\ On(0, l) = {} /\ On(0, k) = {}
    BY <1>4, OnFacts
  <2>2. On(l[c], k) = On(l[c], l)
    <3>1. CASE l[c] = 0
      BY <2>1, <3>1
    <3>2. CASE l[c] # 0
      <4>1. l[c] \in Nodes /\ l[c] > p
        BY <1>1, <3>2
      <4> QED
        BY <1>5, <4>1
    <3> QED
      BY <3>1, <3>2
  <2>3. c \notin On(l[c], l)
    <3>1. CASE l[c] = 0
      BY <2>1, <3>1
    <3>2. CASE l[c] # 0
      <4>1. l[c] \in Nodes /\ l[c] > c
        BY <1>1, <3>2
      <4>2. c \in On(l[c], l) => c >= l[c]
        BY <4>1, OnFacts
      <4> QED
        BY <1>1, <4>1, <4>2
    <3> QED
      BY <3>1, <3>2
  <2>4. p # c
    BY <1>1
  <2>5. On(p, k) = {p} \cup On(l[c], l) /\ On(p, l) = {p} \cup ({c} \cup On(l[c], l))
    BY <1>2, <2>1, <2>2
  <2> QED
    BY <2>3, <2>4, <2>5
<1> DEFINE Kept(n) == IF p \in On(n, l) THEN On(n, l) \ {c} ELSE On(n, l)
           T == {n \in Nodes : On(n, k) # Kept(n)}
<1>7. ASSUME T # {}
      PROVE  FALSE
  <2>1. T \in SUBSET Nodes
    OBVIOUS
  <2>2. PICK n \in T : \A m \in Nodes : m > n => m \notin T
    <3> HIDE DEF T
    <3> QED
      BY <1>7, <2>1, Deepest
  <2>3. n \in Nodes /\ On(n, k) # Kept(n) /\ n \in Nat
    BY <2>2, NodesFacts
  <2>4. n < p
    <3>1. n # p
      BY <1>6, <2>3
    <3>2. ~(n > p)
      BY <1>5, <2>3
    <3> QED
      BY <1>1, <2>3, <3>1, <3>2
  <2>5. /\ On(n, l) = {n} \cup On(l[n], l) /\ On(n, k) = {n} \cup On(k[n], k)
        /\ On(0, l) = {} /\ On(0, k) = {} /\ k[n] = l[n] /\ n # p /\ n # c
    <3>1. n # p /\ n # c
      BY <1>1, <2>3, <2>4
    <3> QED
      BY <1>2, <1>4, <2>3, <3>1, OnFacts
  <2>6. CASE l[n] = 0
    BY <2>3, <2>5, <2>6
  <2>7. CASE l[n] # 0
    <3>1. l[n] \in Nodes /\ l[n] > n
      BY <2>3, <2>7 DEF Linked
    <3>2. On(l[n], k) = Kept(l[n])
      BY <2>2, <3>1
    <3> QED
      BY <2>3, <2>5, <3>2
  <2> QED
    BY <2>6, <2>7
<1>8. \A n \in Nodes : On(n, k) = Kept(n)
  <2> HIDE DEF Kept
  <2> QED
    BY <1>7
<1> QED
  BY <1>4, <1>8

(***************************************************************************)
(* The walk of _rewind_decorator_frames.  cur moves on to a deeper node in *)
(* every turn; what lies behind it holds the nodes of the user and no      *)
(* other, what lies before it is as it was.                                *)
(***************************************************************************)
Walk(e, i, a) ==
    LET all == On(e.head, e.links)
    IN  /\ a = [head |-> a.head, prev |-> a.prev, cur |-> a.cur, links |-> a.links]
        /\ Linked(a.links)
        /\ a.cur = 0 \/ (a.cur \in Nodes /\ a.cur > i /\ a.cur > a.prev)
        /\ a.prev = 0 \/ (a.prev \in Nodes /\ a.head \in Nodes)
        /\ \A m \in Nodes : m > a.prev => a.links[m] = e.links[m]
        /\ a.prev = 0 => a.head = a.cur
        /\ a.prev # 0 => a.prev \in On(a.head, a.links) /\ a.links[a.prev] = a.cur
        /\ On(a.cur, e.links) \subseteq all
        /\ On(a.head, a.links) = (all \ e.hidden) \cup On(a.cur, e.links)
        /\ all \ e.hidden \subseteq On(e.head, a.links)
        /\ On(e.head, a.links) \subseteq all

Shape(e) == Linked(e.links) /\ e.head \in Nodes

LEMMA WalkStarts ==
    ASSUME NEW e, Shape(e)
    PROVE  Walk(e, 0, [head |-> e.head, prev |-> 0, cur |-> e.head, links |-> e.links])
<1> DEFINE a == [head |-> e.head, prev |-> 0, cur |-> e.head, links |-> e.links]
<1>1. /\ a = [head |-> a.head, prev |-> a.prev, cur |-> a.cur, links |-> a.links]
      /\ a.head = e.head /\ a.prev = 0 /\ a.cur = e.head /\ a.links = e.links
  OBVIOUS
<1>2. e.head \in Nodes /\ e.head > 0 /\ Linked(e.links)
  BY NodesFacts DEF Shape
<1> HIDE DEF a
<1>3. Walk(e, 0, a)
  BY <1>1, <1>2 DEF Walk
<1> QED
  BY <1>3 DEF a

LEMMA WalkGoesOn ==
    ASSUME NEW e, Shape(e), NEW i \in Nat, NEW a, Walk(e, i, a)
    PROVE  Walk(e, i + 1, RewindStep(e.hidden, a))
<1> DEFINE all == On(e.head, e.links)
           nxt == a.links[a.cur]
           b == RewindStep(e.hidden, a)
<1>1. /\ a = [head |-> a.head, prev |-> a.prev, cur |-> a.cur, links |-> a.links]
      /\ Linked(a.links) /\ Linked(e.links) /\ e.head \in Nodes
      /\ a.cur = 0 \/ (a.cur \in Nodes /\ a.cur > i /\ a.cur > a.prev)
      /\ a.prev = 0 \/ (a.prev \in Nodes /\ a.head \in Nodes)
      /\ \A m \in Nodes : m > a.prev => a.links[m] = e.links[m]
      /\ a.prev = 0 => a.head = a.cur
      /\ a.prev # 0 => a.prev \in On(a.head, a.links) /\ a.links[a.prev] = a.cur
      /\ On(a.cur, e.links) \subseteq all
      /\ On(a.head, a.links) = (all \ e.hidden) \cup On(a.cur, e.links)
      /\ all \ e.hidden \subseteq On(e.head, a.links)
      /\ On(e.head, a.links) \subseteq all
  BY DEF Walk, Shape
<1>2. CASE a.cur = 0
  <2>1. b = a
    BY <1>2 DEF RewindStep
  <2>2. Walk(e, i + 1, a)
    BY <1>1, <1>2 DEF Walk
  <2> QED
    BY <2>1, <2>2
<1>3. ASSUME a.cur # 0
      PROVE  Walk(e, i + 1, b)
  <2>1. a.cur \in Nodes /\ a.cur \in Nat /\ a.cur > i /\ a.cur > a.prev
    BY <1>1, <1>3, NodesFacts
  <2>2. nxt = e.links[a.cur] /\ (nxt = 0 \/ (nxt \in Nodes /\ nxt > a.cur))
    BY <1>1, <2>1 DEF Linked
  <2>3. nxt = 0 \/ (nxt \in Nodes /\ nxt \in Nat /\ nxt > i + 1 /\ nxt > a.prev /\ nxt > a.cur)
    <3>1. a.prev \in Nat
      BY <1>1, NodesFacts
    <3> QED
      BY <2>1, <2>2, <3>1, NodesFacts
  <2>4. /\ On(a.cur, e.links) = {a.cur} \cup On(nxt, e.links)
        /\ a.cur \notin On(nxt, e.links) /\ a.cur \in all /\ On(nxt, e.links) \subseteq all
    <3>1. On(a.cur, e.links) = {a.cur} \cup On(nxt, e.links)
      BY <1>1, <2>1, <2>2, OnFacts
    <3>2. a.cur \notin On(nxt, e.links)
      <4>1. CASE nxt = 0
        BY <1>1, <4>1, OnFacts
      <4>2. CASE nxt # 0
        <5>1. a.cur \in On(nxt, e.links) => a.cur >= nxt
          BY <1>1, <2>3, <4>2, OnFacts
        <5> QED
          BY <2>1, <2>3, <4>2, <5>1
      <4> QED
        BY <4>1, <4>2
    <3> QED
      BY <1>1, <3>1, <3>2
  <2>5. CASE a.cur \notin e.hidden
    <3>1. b = [a EXCEPT !.prev = a.cur, !.cur = nxt]
      BY <1>3, <2>5 DEF RewindStep
    <3>2. /\ b.head = a.head /\ b.prev = a.cur /\ b.cur = nxt /\ b.links = a.links
          /\ b = [head |-> b.head, prev |-> b.prev, cur |-> b.cur, links |-> b.links]
      BY <1>1, <3>1
    <3> HIDE DEF b, nxt, all
    <3>3. a.head \in Nodes
      BY <1>1, <2>1
    <3>4. a.cur \in On(a.head, a.links)
      BY <1>1, <2>4
    <3>5. \A m \in Nodes : m > a.cur => a.links[m] = e.links[m]
      <4>1. a.prev \in Nat
        BY <1>1, NodesFacts
      <4>2. \A m \in Nodes : m > a.cur => m > a.prev
        BY <2>1, <4>1, NodesFacts
      <4> QED
        BY <1>1, <4>2
    <3>6. On(a.head, a.links) = (all \ e.hidden) \cup On(nxt, e.links)
      BY <1>1, <2>4, <2>5
    <3>7. a.links[a.cur] = nxt
      BY DEF nxt
    <3> QED
      BY <1>1, <1>3, <2>1, <2>3, <2>4, <3>2, <3>3, <3>4, <3>5, <3>6, <3>7 DEF Walk, all
  <2>6. CASE a.cur \in e.hidden /\ a.prev = 0
    <3>1. b = [a EXCEPT !.head = nxt, !.cur = nxt]
      BY <1>3, <2>6 DEF RewindStep
    <3>2. /\ b.head = nxt /\ b.prev = 0 /\ b.cur = nxt /\ b.links = a.links
          /\ b = [head |-> b.head, prev |-> b.prev, cur |-> b.cur, links |-> b.links]
      BY <1>1, <2>6, <3>1
    <3> HIDE DEF b, nxt, all
    <3>3. On(nxt, a.links) = On(nxt, e.links)
      <4>1. \A m \in Nodes : m > 0 => a.links[m] = e.links[m]
        BY <1>1, <2>6
      <4>2. \A m \in Nodes : m > 0 => On(m, a.links) = On(m, e.links)
        BY <1>1, <4>1, SameAbove
      <4>3. On(0, a.links) = {} /\ On(0, e.links) = {}
        BY <1>1, OnFacts
      <4>4. nxt # 0 => nxt > 0 /\ nxt \in Nodes
        BY <2>3, NodesFacts
      <4>5. CASE nxt = 0
        BY <4>3, <4>5
      <4>6. CASE nxt # 0
        BY <4>2, <4>4, <4>6
      <4> QED
        BY <4>5, <4>6
    <3>4. On(a.cur, a.links) = {a.cur} \cup On(nxt, a.links)
      BY <1>1, <2>1, OnFacts DEF nxt
    <3>5. all \ e.hidden \subseteq On(nxt, e.links)
      <4>1. all \ e.hidden \subseteq On(a.cur, a.links)
        BY <1>1, <2>6
      <4> QED
        BY <2>6, <3>3, <3>4, <4>1
    <3> QED
      BY <1>1, <2>3, <2>4, <2>6, <3>2, <3>3, <3>5 DEF Walk, all
  <2>7. CASE a.cur \in e.hidden /\ a.prev # 0
    <3>1. b = [a EXCEPT !.links[a.prev] = nxt, !.cur = nxt]
      BY <1>3, <2>7 DEF RewindStep
    <3> DEFINE k == [a.links EXCEPT ![a.prev] = nxt]
    <3>2. /\ b.head = a.head /\ b.prev = a.prev /\ b.cur = nxt /\ b.links = k
          /\ b = [head |-> b.head, prev |-> b.prev, cur |-> b.cur, links |-> b.links]
      BY <1>1, <3>1
    <3>3. /\ a.prev \in Nodes /\ a.prev \in Nat /\ a.head \in Nodes
          /\ a.prev \in On(a.head, a.links) /\ a.links[a.prev] = a.cur
      BY <1>1, <2>7, NodesFacts
    <3>4. /\ Linked(k)
          /\ \A n \in Nodes : On(n, k) = IF a.prev \in On(n, a.links)
                                         THEN On(n, a.links) \ {a.cur} ELSE On(n, a.links)
      BY <1>1, <2>1, <3>3, Unlink
    <3>5. k[a.prev] = nxt /\ \A m \in Nodes : m # a.prev => k[m] = a.links[m]
      BY <1>1, <3>3 DEF Linked
    <3>6. \A m \in Nodes : m > a.prev => k[m] = e.links[m]
      BY <1>1, <3>3, <3>5, NodesFacts
    <3> HIDE DEF b, nxt, all, k
    <3>7. On(a.head, k) = (all \ e.hidden) \cup On(nxt, e.links) /\ a.prev \in On(a.head, k)
      <4>1. On(a.head, k) = On(a.head, a.links) \ {a.cur} /\ a.prev # a.cur
        BY <2>1, <3>3, <3>4
      <4> QED
        BY <1>1, <2>4, <2>7, <3>3, <4>1
    <3>8. all \ e.hidden \subseteq On(e.head, k) /\ On(e.head, k) \subseteq all
      BY <1>1, <2>7, <3>4
    <3> QED
      BY <2>3, <2>4, <2>7, <3>2, <3>3, <3>4, <3>5, <3>6, <3>7, <3>8 DEF Walk, all
  <2> QED
    BY <2>5, <2>6, <2>7
<1> QED
  BY <1>2, <1>3

(* _rewind_decorator_frames returns a traceback of the user's frames only, *)
(* and takes none of them from the one that goes on.                       *)
LEMMA RewindFacts ==
    ASSUME NEW e, Shape(e)
    PROVE  LET r == Rewind(e)
           IN  /\ Linked(r.links) /\ r.head \in Nodes \cup {0}
               /\ On(r.head, r.links) = On(e.head, e.links) \ e.hidden
               /\ On(e.head, e.links) \ e.hidden \subseteq On(e.head, r.links)
               /\ On(e.head, r.links) \subseteq On(e.head, e.links)
<1> DEFINE N == MaxDepth + 2
           first == [head |-> e.head, prev |-> 0, cur |-> e.head, links |-> e.links]
           G(f) == [i \in 0..N |-> IF i = 0 THEN first ELSE RewindStep(e.hidden, f[i - 1])]
           c == CHOOSE f : f = G(f)
           States == {a \in [head : Nat, prev : Nat, cur : Nat, links : [Nodes -> Nat]] :
                          \E i \in Nat : Walk(e, i, a)}
<1>0. N \in Nat /\ Rewind(e) = c[N]
  BY NodesFacts DEF Rewind
<1>1. ASSUME NEW i \in Nat, NEW a, Walk(e, i, a)
      PROVE  a \in States
  <2>1. /\ a = [head |-> a.head, prev |-> a.prev, cur |-> a.cur, links |-> a.links]
        /\ a.head \in Nat /\ a.prev \in Nat /\ a.cur \in Nat /\ a.links \in [Nodes -> Nat]
    BY <1>1, NodesFacts DEF Walk, Linked
  <2>2. a \in [head : Nat, prev : Nat, cur : Nat, links : [Nodes -> Nat]]
    BY <2>1
  <2> QED
    BY <1>1, <2>2
<1>2. Walk(e, 0, first)
  BY WalkStarts
<1> DEFINE step == [i \in 1..N |-> [a \in States |-> RewindStep(e.hidden, a)]]
<1>3. step \in [1..N -> [States -> States]]
  <2>1. ASSUME NEW a \in States
        PROVE  RewindStep(e.hidden, a) \in States
    <3>1. PICK i \in Nat : Walk(e, i, a)
      OBVIOUS
    <3>2. Walk(e, i + 1, RewindStep(e.hidden, a)) /\ i + 1 \in Nat
      BY <3>1, WalkGoesOn
    <3> HIDE DEF States
    <3> QED
      BY <1>1, <3>2
  <2> HIDE DEF States
  <2> QED
    BY <2>1
<1>4. first \in States
  <2> HIDE DEF States, first
  <2> QED
    BY <1>1, <1>2
<1>5. PICK f \in [0..N -> States] : f[0] = first /\ \A i \in 1..N : f[i] = step[i][f[i - 1]]
  <2>1. N \in Nat
    BY <1>0
  <2> HIDE DEF States, first, step, N, G, c
  <2> QED
    BY <1>3, <1>4, <2>1, RecursionExists
<1>6. f = G(f)
  <2> HIDE DEF States, first, N
  <2>1. ASSUME NEW i \in 0..N
        PROVE  f[i] = IF i = 0 THEN first ELSE RewindStep(e.hidden, f[i - 1])
    <3>1. CASE i = 0
      BY <1>5, <3>1
    <3>2. CASE i # 0
      <4>1. i \in 1..N /\ i - 1 \in 0..N
        BY <1>0, <3>2
      <4>2. f[i - 1] \in States /\ f[i] = step[i][f[i - 1]]
        BY <1>5, <4>1
      <4>3. step[i] = [a \in States |-> RewindStep(e.hidden, a)]
        BY <4>1
      <4> QED
        BY <3>2, <4>2, <4>3
    <3> QED
      BY <3>1, <3>2
  <2> HIDE DEF step
  <2> QED
    BY <1>5, <2>1
<1>7. c = G(c)
  <2> HIDE DEF G
  <2> QED
    BY <1>6
<1>8. \A i \in 0..N : c[i] = IF i = 0 THEN first ELSE RewindStep(e.hidden, c[i - 1])
  <2> HIDE DEF c, first, N
  <2>1. \A i \in 0..N : G(c)[i] = IF i = 0 THEN first ELSE RewindStep(e.hidden, c[i - 1])
    OBVIOUS
  <2> HIDE DEF G
  <2> QED
    BY <1>7, <2>1
<1> DEFINE T == {i \in 0..N : ~Walk(e, i, c[i])}
<1> HIDE DEF c, first, N, States, step
<1>9. ASSUME T # {}
      PROVE  FALSE
  <2>1. T \in SUBSET Nat
    OBVIOUS
  <2>2. PICK i \in T : \A j \in T : i <= j
    <3> HIDE DEF T
    <3> QED
      BY <1>9, <2>1, SmallestOf
  <2>3. i \in 0..N /\ ~Walk(e, i, c[i])
    BY <2>2
  <2>4. i # 0
    BY <1>2, <1>8, <2>3
  <2>5. i - 1 \in 0..N /\ i - 1 \notin T /\ i - 1 \in Nat /\ (i - 1) + 1 = i
    BY <1>0, <2>2, <2>3, <2>4
  <2>6. Walk(e, i - 1, c[i - 1])
    BY <2>5
  <2>7. Walk(e, (i - 1) + 1, RewindStep(e.hidden, c[i - 1]))
    BY <2>5, <2>6, WalkGoesOn
  <2> QED
    BY <1>8, <2>3, <2>4, <2>5, <2>7
<1>10. N \in 0..N
  BY <1>0
<1>11. Walk(e, N, c[N])
  BY <1>9, <1>10
<1> DEFINE r == c[N]
<1>12. r.cur = 0
  <2>1. r.cur = 0 \/ (r.cur \in Nodes /\ r.cur > N)
    BY <1>11 DEF Walk
  <2>2. \A n \in Nodes : ~(n > N)
    BY <1>0, NodesFacts DEF N
  <2> QED
    BY <2>1, <2>2
<1>13. On(r.cur, e.links) = {}
  BY <1>12, OnFacts DEF Shape
<1> HIDE DEF r
<1>14. r.head \in Nodes \cup {0}
  BY <1>11, <1>12 DEF Walk, r
<1> QED
  BY <1>0, <1>11, <1>13, <1>14 DEF Walk, r

(***************************************************************************)
(* The exception of a worker, and the tracebacks in its records.           *)
(***************************************************************************)
Held(e, whole) ==
    LET all == On(e.head, e.links)
    IN  /\ Linked(e.links) /\ e.head \in Nodes \cup {0}
        /\ e.passed \ e.hidden \subseteq all /\ all \subseteq e.passed
        /\ whole => all = e.passed

LEMMA HeldNothing ==
    ASSUME NEW base, NEW whole
    PROVE  Held(Nothing(base), whole) /\ Nothing(base).head = 0
<1> DEFINE e == Nothing(base)
<1>1. /\ e.head = 0 /\ e.links = [n \in Nodes |-> 0]
      /\ e.passed = {} /\ e.hidden = {}
  BY DEF Nothing
<1> HIDE DEF e
<1>2. Linked(e.links)
  BY <1>1 DEF Linked
<1>3. On(e.head, e.links) = {}
  BY <1>1, <1>2, OnFacts
<1>4. Held(e, whole)
  BY <1>1, <1>2, <1>3 DEF Held
<1> QED
  BY <1>1, <1>4 DEF e

LEMMA HeldThrough ==
    ASSUME NEW e, NEW whole, Held(e, whole), NEW n \in Nodes, NEW h \in BOOLEAN,
           e.head = 0 \/ n < e.head
    PROVE  LET t == Through(e, n, h) IN Held(t, whole) /\ t.head = n
<1> DEFINE t == Through(e, n, h)
<1>1. /\ t.head = n /\ t.links = [e.links EXCEPT ![n] = e.head]
      /\ t.passed = e.passed \cup {n} /\ e.hidden \subseteq t.hidden
      /\ t.hidden \subseteq e.hidden \cup {n}
  BY DEF Through
<1> HIDE DEF t
<1>2. /\ Linked(e.links) /\ e.links \in [Nodes -> Nat] /\ n \in Nat
      /\ e.head = 0 \/ (e.head \in Nodes /\ e.head \in Nat /\ e.head > n)
  BY NodesFacts DEF Held, Linked
<1>3. /\ t.links \in [Nodes -> Nat] /\ t.links[n] = e.head
      /\ \A m \in Nodes : m # n => t.links[m] = e.links[m]
  BY <1>1, <1>2
<1>4. Linked(t.links)
  BY <1>2, <1>3 DEF Linked
<1>5. On(e.head, t.links) = On(e.head, e.links)
  <2>1. \A m \in Nodes : m > n => t.links[m] = e.links[m]
    BY <1>2, <1>3, NodesFacts
  <2>2. \A m \in Nodes : m > n => On(m, t.links) = On(m, e.links)
    BY <1>2, <1>4, <2>1, SameAbove
  <2>3. On(0, t.links) = {} /\ On(0, e.links) = {}
    BY <1>2, <1>4, OnFacts
  <2>4. CASE e.head = 0
    BY <2>3, <2>4
  <2>5. CASE e.head # 0
    BY <1>2, <2>2, <2>5
  <2> QED
    BY <2>4, <2>5
<1>6. On(t.head, t.links) = {n} \cup On(e.head, e.links)
  BY <1>1, <1>3, <1>4, <1>5, OnFacts
<1>7. Held(t, whole)
  BY <1>1, <1>4, <1>6 DEF Held
<1> QED
  BY <1>1, <1>7 DEF t

LEMMA HeldRewind ==
    ASSUME NEW e, Held(e, FALSE), e.head \in Nodes
    PROVE  LET r == Rewind(e)
           IN  /\ IsExc(e) => Held(Rewound(e, r), FALSE)
               /\ Linked(r.links) /\ r.head \in Nodes \cup {0}
               /\ On(r.head, r.links) = e.passed \ e.hidden
<1> DEFINE r == Rewind(e)
           all == On(e.head, e.links)
           f == Rewound(e, r)
<1>1. /\ Shape(e) /\ e.passed \ e.hidden \subseteq all /\ all \subseteq e.passed
  BY DEF Held, Shape
<1>2. /\ Linked(r.links) /\ r.head \in Nodes \cup {0}
      /\ On(r.head, r.links) = all \ e.hidden
      /\ all \ e.hidden \subseteq On(e.head, r.links)
      /\ On(e.head, r.links) \subseteq all
  BY <1>1, RewindFacts
<1>3. IsExc(e) => /\ f.head = e.head /\ f.links = r.links
                  /\ f.hidden = e.hidden /\ f.passed = e.passed
  BY DEF IsExc, Rewound
<1> HIDE DEF r, all, f
<1>4. On(r.head, r.links) = e.passed \ e.hidden
  BY <1>1, <1>2
<1>5. IsExc(e) => Held(f, FALSE)
  BY <1>1, <1>2, <1>3 DEF Held
<1> QED
  BY <1>2, <1>4, <1>5 DEF r, f

ExcHeld(e, whole) == e # NoExc => Held(e, whole)

ExcInv == \A w \in Workers : ExcHeld(exc[w], options.show_frames)

LEMMA ExcOf ==
    ASSUME TypeInv, ExcInv, NEW w \in Workers, exc[w] # NoExc
    PROVE  /\ Held(exc[w], options.show_frames) /\ IsExc(exc[w])
           /\ exc[w].head = Depth(w) /\ Depth(w) \in Nodes
<1>1. /\ IsExc(exc[w]) /\ stack[w] # << >> /\ exc[w].head = Len(stack[w])
      /\ Depth(w) = Len(stack[w]) /\ Len(stack[w]) \in 1..Len(stack[w])
      /\ Len(stack[w]) <= MaxDepth
  BY TopFacts DEF StackOK
<1>2. Len(stack[w]) \in Nodes
  BY <1>1, BoundsFacts DEF Nodes
<1> QED
  BY <1>1, <1>2 DEF ExcInv, ExcHeld

LEMMA BindHeld ==
    ASSUME TypeInv, ExcInv, NEW w \in Workers, Bind(w)
    PROVE  ExcHeld(exc'[w], options.show_frames)
<1> DEFINE d == Depth(w)
           x == Through(Nothing(FALSE), d + 2, FALSE)
           y == Through(x, d + 1, TRUE)
           z == Through(y, d, TRUE)
<1>1. /\ d \in Nodes /\ d + 1 \in Nodes /\ d + 2 \in Nodes /\ d \in Nat
  <2>1. stack[w] # << >>
    BY DEF Bind, At
  <2>2. d \in Nat /\ d \in 1..d /\ d <= MaxDepth
    BY <2>1, TopFacts DEF StackOK
  <2> HIDE DEF d
  <2> QED
    BY <2>2, BoundsFacts DEF Nodes
<1>2. exc'[w] = exc[w] \/ exc'[w] = z
  BY DEF Bind, TypeInv, StackInv
<1>3. Nothing(FALSE).head = 0
  BY HeldNothing
<1> HIDE DEF d
<1>4. Held(x, options.show_frames) /\ x.head = d + 2
  BY <1>1, <1>3, HeldNothing, HeldThrough
<1>5. d + 1 < d + 2 /\ d < d + 1
  BY <1>1
<1> HIDE DEF x
<1>6. Held(y, options.show_frames) /\ y.head = d + 1
  BY <1>1, <1>4, <1>5, HeldThrough
<1> HIDE DEF y
<1>7. Held(z, options.show_frames)
  BY <1>1, <1>5, <1>6, HeldThrough
<1> QED
  BY <1>2, <1>7 DEF ExcInv, ExcHeld

LEMMA RaiseHeld ==
    ASSUME TypeInv, ExcInv, NEW w \in Workers, Raise(w) \/ Catch(w)
    PROVE  ExcHeld(exc'[w], options.show_frames)
<1>1. CASE Raise(w)
  <2>1. stack[w] # << >>
    BY <1>1 DEF Raise, Running
  <2>2. Depth(w) \in Nat /\ Depth(w) \in 1..Depth(w) /\ Depth(w) <= MaxDepth
    BY <2>1, TopFacts DEF StackOK
  <2>3. Depth(w) \in Nodes
    BY <2>2, BoundsFacts DEF Nodes
  <2>4. PICK base \in BOOLEAN :
           exc' = [exc EXCEPT ![w] = Through(Nothing(base), Depth(w), FALSE)]
    BY <1>1 DEF Raise
  <2>5. exc'[w] = Through(Nothing(base), Depth(w), FALSE)
    BY <2>4 DEF TypeInv, StackInv
  <2>6. Held(Nothing(base), options.show_frames) /\ Nothing(base).head = 0
    BY HeldNothing
  <2>7. Held(Through(Nothing(base), Depth(w), FALSE), options.show_frames)
    BY <2>3, <2>6, HeldThrough
  <2> QED
    BY <2>5, <2>7 DEF ExcHeld
<1>2. CASE Catch(w)
  BY <1>2 DEF Catch, TypeInv, StackInv, ExcHeld
<1> QED
  BY <1>1, <1>2

LEMMA UnwindHeld ==
    ASSUME TypeInv, ExcInv, NEW w \in Workers, Unwind(w)
    PROVE  ExcHeld(exc'[w], options.show_frames)
<1> DEFINE d == Depth(w)
           h == stack[w][d - 1].kind = "wrapper"
<1>1. Held(exc[w], options.show_frames) /\ exc[w].head = d /\ d \in Nodes
  BY ExcOf DEF Unwind
<1>2. exc'[w] = IF d = 1 THEN NoExc ELSE Through(exc[w], d - 1, h)
  BY DEF Unwind, TypeInv, StackInv
<1> HIDE DEF d, h
<1>3. CASE d = 1
  BY <1>2, <1>3 DEF ExcHeld
<1>4. CASE d # 1
  <2>1. d - 1 \in Nodes /\ d - 1 < d
    BY <1>1, <1>4, BoundsFacts DEF Nodes
  <2>2. h \in BOOLEAN
    BY DEF h
  <2>3. Held(Through(exc[w], d - 1, h), options.show_frames)
    BY <1>1, <2>1, <2>2, HeldThrough
  <2> QED
    BY <1>2, <1>4, <2>3 DEF ExcHeld
<1> QED
  BY <1>3, <1>4

(* What a wrapper renders in its except clause, and what it leaves behind. *)
LEMMA ExceptHeld ==
    ASSUME TypeInv, ExcInv, NEW w \in Workers, Except(w)
    PROVE  LET rewound == IF options.show_frames THEN exc[w] ELSE Rewind(exc[w])
               shown == IF options.show_frames THEN exc[w].passed
                        ELSE exc[w].passed \ exc[w].hidden
           IN  /\ ExcHeld(exc'[w], options.show_frames)
               /\ On(rewound.head, rewound.links) = shown
               /\ Linked(rewound.links) /\ rewound.head \in Nodes \cup {0}
<1> DEFINE e == exc[w]
           sf == options.show_frames
           rewound == IF sf THEN e ELSE Rewind(e)
           shown == IF sf THEN e.passed ELSE e.passed \ e.hidden
<1>1. Held(e, sf) /\ IsExc(e) /\ e.head \in Nodes
  BY ExcOf DEF Except
<1>2. exc' = [exc EXCEPT ![w] = IF options.log_exceptions /\ options.render
                                THEN Rewound(e, rewound) ELSE e]
  BY DEF Except
<1>3. exc = [v \in Workers |-> exc[v]]
  BY DEF TypeInv, StackInv
<1>4. exc'[w] = Rewound(e, rewound) \/ exc'[w] = e
  <2> HIDE DEF rewound, e
  <2> QED
    BY <1>2, <1>3
<1>5. Rewound(e, e) = e
  BY <1>1 DEF IsExc, Rewound
<1> HIDE DEF e
<1>6. CASE sf
  <2>1. rewound = e /\ shown = e.passed
    BY <1>6
  <2> HIDE DEF rewound, shown
  <2>2. exc'[w] = e
    BY <1>4, <1>5, <2>1
  <2>3. /\ On(rewound.head, rewound.links) = shown
        /\ Linked(rewound.links) /\ rewound.head \in Nodes \cup {0}
    BY <1>1, <1>6, <2>1 DEF Held
  <2> QED
    BY <1>1, <2>2, <2>3 DEF ExcHeld, rewound, shown, e
<1>7. CASE ~sf
  <2>1. rewound = Rewind(e) /\ shown = e.passed \ e.hidden
    BY <1>7
  <2> HIDE DEF rewound, shown
  <2>2. Held(e, FALSE)
    BY <1>1 DEF Held
  <2>3. /\ Held(Rewound(e, rewound), FALSE)
        /\ Linked(rewound.links) /\ rewound.head \in Nodes \cup {0}
        /\ On(rewound.head, rewound.links) = shown
    BY <1>1, <2>1, <2>2, HeldRewind
  <2>4. Held(exc'[w], FALSE)
    BY <1>4, <2>2, <2>3
  <2>5. Held(exc'[w], sf)
    BY <1>7, <2>4 DEF Held
  <2> QED
    BY <2>3, <2>5 DEF ExcHeld, rewound, shown, e
<1> QED
  BY <1>6, <1>7

LEMMA ExcInit == CallsInit => ExcInv
  BY DEF CallsInit, ExcInv, ExcHeld

LEMMA ExcStep ==
    ASSUME TypeInv, ExcInv, [Next]_vars
    PROVE  ExcInv'
<1>1. options' = options
  BY DEF Next, vars, Step, Call, Lookup, Bind, Enter, Return, Raise, Catch, Unwind, Except,
     FactoryStep, DefineClass, RestoreHook, SetTrace, StartJob
<1>2. \A v \in Workers : ExcHeld(exc[v], options.show_frames)
  BY DEF ExcInv
<1>3. CASE UNCHANGED exc
  BY <1>1, <1>2, <1>3 DEF ExcInv
<1>4. ASSUME NEW w \in Workers, Step(w)
      PROVE  ExcInv'
  <2>1. \A v \in Workers : v # w => exc'[v] = exc[v]
    BY <1>4, StepStack DEF OnlyOf
  <2>2. ExcHeld(exc'[w], options.show_frames)
    <3>1. CASE Call(w) \/ Lookup(w) \/ Enter(w) \/ Return(w)
      BY <1>2, <3>1 DEF Call, Lookup, Enter, Return
    <3> QED
      BY <1>4, <3>1, BindHeld, RaiseHeld, UnwindHeld, ExceptHeld DEF Step
  <2>3. \A v \in Workers : ExcHeld(exc'[v], options.show_frames)
    BY <1>2, <2>1, <2>2
  <2> QED
    BY <1>1, <2>3 DEF ExcInv
<1> QED
  BY <1>3, <1>4 DEF Next, vars, FactoryStep, DefineClass, RestoreHook, SetTrace, StartJob

(* The traceback of a record.                                              *)
TbOK(r) == r.message = "Traceback" => /\ ToSet(r.tb) = r.path
                                      /\ \A j \in 2..Len(r.tb) : r.tb[j - 1] < r.tb[j]

TbsOK(s) == IsSequence(s) /\ \A i \in 1..Len(s) : TbOK(s[i])

TracebackInv == \A w \in Workers : TbsOK(out[w])

LEMMA TbsAppend ==
    ASSUME NEW s, NEW r, TbsOK(s), TbOK(r)
    PROVE  TbsOK(Append(s, r))
<1>1. PICK S : s \in Seq(S)
  BY DEF TbsOK, IsSequence
<1>2. s \in Seq(S \cup {r})
  BY <1>1
<1> DEFINE t == Append(s, r)
<1>3. /\ t \in Seq(S \cup {r}) /\ Len(t) = Len(s) + 1 /\ Len(s) \in Nat
      /\ t[Len(s) + 1] = r /\ \A i \in 1..Len(s) : t[i] = s[i]
  BY <1>2
<1> HIDE DEF t
<1>4. ASSUME NEW i \in 1..Len(t)
      PROVE  TbOK(t[i])
  <2>1. i = Len(s) + 1 \/ i \in 1..Len(s)
    BY <1>3
  <2> QED
    BY <1>3, <2>1 DEF TbsOK
<1> QED
  BY <1>3, <1>4 DEF TbsOK, IsSequence, t

LEMMA QuietRecord ==
    ASSUME TypeInv, NEW w \in Workers, TbsOK(out[w]), NEW id,
           NEW message \in {"Execution", "Result"}, Log(w, id, message)
    PROVE  TbsOK(out'[w])
<1>1. PICK r \in Record(w, id, message, << >>, {}) : out' = [out EXCEPT ![w] = Append(out[w], r)]
  BY DEF Log
<1>2. r.message # "Traceback"
  BY RecordMade DEF Message
<1>3. out'[w] = Append(out[w], r)
  BY <1>1 DEF TypeInv, LogInv
<1> QED
  BY <1>2, <1>3, TbsAppend DEF TbOK

LEMMA ExceptRecords ==
    ASSUME TypeInv, ExcInv, NEW w \in Workers, TbsOK(out[w]), Except(w)
    PROVE  TbsOK(out'[w])
<1> DEFINE rewound == IF options.show_frames THEN exc[w] ELSE Rewind(exc[w])
           rendered == options.log_exceptions /\ options.render
           Visible == IF options.show_frames THEN exc[w].passed
                      ELSE exc[w].passed \ exc[w].hidden
           tb == Chain(rewound.head, rewound.links)
           s == out[w]
<1>1. PICK r \in Record(w, Top(w).id, "Error", << >>, {}),
           t \in Record(w, Top(w).id, "Traceback", tb, Visible) :
         out' = [out EXCEPT ![w] = @ \o (IF options.log_exceptions THEN <<r>> ELSE << >>)
                                     \o (IF rendered THEN <<t>> ELSE << >>)]
  BY DEF Except
<1>2. /\ On(rewound.head, rewound.links) = Visible
      /\ Linked(rewound.links) /\ rewound.head \in Nodes \cup {0}
  BY ExceptHeld
<1>3. t.tb = tb /\ t.path = Visible
  <2> HIDE DEF tb, Visible
  <2> QED
    BY <1>1 DEF Record, Entry
<1>4. TbOK(r)
  <2>1. "Error" \in Message
    BY DEF Message
  <2>2. r.message = "Error"
    BY <1>1, <2>1, RecordMade
  <2> QED
    BY <2>2 DEF TbOK
<1> HIDE DEF rewound, Visible
<1>5. ToSet(tb) = Visible
  BY <1>2 DEF On
<1>6. \A j \in 2..Len(tb) : tb[j - 1] < tb[j]
  <2>1. \E n : Rising(tb, n)
    BY <1>2, ChainFacts, ChainRising, NoNodes
  <2> QED
    BY <2>1 DEF Rising
<1> HIDE DEF tb
<1>7. TbOK(t)
  BY <1>3, <1>5, <1>6 DEF TbOK
<1>8. TbsOK(Append(s, r)) /\ TbsOK(Append(Append(s, r), t))
  BY <1>4, <1>7, TbsAppend
<1>9. out'[w] = s \/ out'[w] = Append(s, r) \/ out'[w] = Append(Append(s, r), t)
  <2>1. PICK S : s \in Seq(S)
    BY DEF TbsOK, IsSequence
  <2>2. s \in Seq(S \cup {r, t})
    BY <2>1
  <2>3. /\ s \o <<r>> \o << >> = Append(s, r) /\ s \o << >> \o << >> = s
        /\ s \o <<r>> \o <<t>> = Append(Append(s, r), t)
    BY <2>2
  <2>4. out = [v \in Workers |-> out[v]]
    BY DEF TypeInv, LogInv
  <2>5. \/ out' = [out EXCEPT ![w] = s \o << >> \o << >>]
        \/ out' = [out EXCEPT ![w] = s \o <<r>> \o << >>]
        \/ out' = [out EXCEPT ![w] = s \o <<r>> \o <<t>>]
    BY <1>1
  <2>6. \/ out'[w] = s \o << >> \o << >>
        \/ out'[w] = s \o <<r>> \o << >>
        \/ out'[w] = s \o <<r>> \o <<t>>
    BY <2>4, <2>5
  <2> QED
    BY <2>3, <2>6
<1> QED
  BY <1>8, <1>9

LEMMA TracebackInit == CallsInit => TracebackInv
<1> SUFFICES ASSUME CallsInit, NEW w \in Workers
             PROVE  TbsOK(out[w])
  BY DEF TracebackInv
<1>1. out[w] = << >> /\ << >> \in Seq({}) /\ 1..Len(<< >>) = {}
  BY DEF CallsInit
<1> QED
  BY <1>1 DEF TbsOK, IsSequence

LEMMA TracebackStep ==
    ASSUME TypeInv, ExcInv, TracebackInv, [Next]_vars
    PROVE  TracebackInv'
<1>1. \A v \in Workers : TbsOK(out[v])
  BY DEF TracebackInv
<1>2. CASE UNCHANGED out
  BY <1>1, <1>2 DEF TracebackInv
<1>3. ASSUME NEW w \in Workers, Step(w)
      PROVE  \A v \in Workers : TbsOK(out'[v])
  <2>1. \A v \in Workers : v # w => out'[v] = out[v]
    BY <1>3, StepLogs DEF LogsOf
  <2>2. TbsOK(out'[w])
    <3>1. CASE Enter(w) \/ Return(w)
      <4>1. UNCHANGED out \/ \E id : Log(w, id, "Execution") \/ Log(w, id, "Result")
        BY <3>1 DEF Enter, Return
      <4> QED
        BY <1>1, <4>1, QuietRecord
    <3>2. CASE Except(w)
      BY <1>1, <3>2, ExceptRecords
    <3>3. CASE UNCHANGED out
      BY <1>1, <3>3
    <3>4. CASE Unwind(w)
      <4> DEFINE mark == Entry(w, Top(w).id, "Abandoned", << >>, {}, FALSE)
      <4>1. out = [v \in Workers |-> out[v]]
        BY DEF TypeInv, LogInv
      <4>2. UNCHANGED out \/ out' = [out EXCEPT ![w] = Append(out[w], mark)]
        BY <3>4 DEF Unwind
      <4>3. TbOK(mark)
        BY MarkMade DEF TbOK
      <4> HIDE DEF mark
      <4>4. out'[w] = out[w] \/ out'[w] = Append(out[w], mark)
        BY <4>1, <4>2
      <4> QED
        BY <1>1, <4>3, <4>4, TbsAppend
    <3> QED
      BY <1>3, <3>1, <3>2, <3>3, <3>4 DEF Step, Call, Lookup, Bind, Raise, Catch
  <2> QED
    BY <1>1, <2>1, <2>2
<1> QED
  BY <1>2, <1>3 DEF Next, vars, FactoryStep, DefineClass, RestoreHook, SetTrace, StartJob,
     TracebackInv

(* The nodes an exception links together, from the frame it has come to:   *)
(* all of the user's frames it has passed, none it has not, and all of     *)
(* them where nothing is hidden; and every traceback in a record is whole. *)
THEOREM TracebackInvariance == Spec => [](ExcInv /\ TracebackInv)
<1>1. TypeInv /\ ExcInv /\ TracebackInv /\ [Next]_vars => (ExcInv /\ TracebackInv)'
  BY ExcStep, TracebackStep
<1>2. CallsInit => ExcInv /\ TracebackInv
  BY ExcInit, TracebackInit
<1> QED
  BY <1>1, <1>2, TypeInvariance, PTL DEF Spec

(* The re-linking in _rewind_decorator_frames (decorators/functions.py):   *)
(* each traceback a wrapper logs shows the frames of the user between the  *)
(* call and the raise, outermost first, and none of the decorators; and    *)
(* the exception that goes on to the caller still has each of them.        *)
THEOREM TracebacksRenderUserFrames == Spec => []RendersUserFrames
<1>1. ASSUME TypeInv, ExcInv, TracebackInv
      PROVE  RendersUserFrames
  <2> SUFFICES ASSUME NEW w \in Workers
               PROVE  /\ \A i \in DOMAIN out[w] : TbOK(out[w][i])
                      /\ exc[w] # NoExc => exc[w].passed \ exc[w].hidden
                                              \subseteq On(exc[w].head, exc[w].links)
    BY DEF RendersUserFrames, TbOK, On
  <2>1. TbsOK(out[w]) /\ ExcHeld(exc[w], options.show_frames)
    BY <1>1 DEF TracebackInv, ExcInv
  <2>2. DOMAIN out[w] = 1..Len(out[w])
    BY <2>1 DEF TbsOK, IsSequence
  <2> QED
    BY <2>1, <2>2 DEF TbsOK, ExcHeld, Held
<1> QED
  BY <1>1, TracebackInvariance, TypeInvariance, PTL
=============================================================================
