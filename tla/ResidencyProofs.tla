--------------------------- MODULE ResidencyProofs ---------------------------
(***************************************************************************)
(* The rebuildable values of Residency, for any threads, values, needs and  *)
(* budgets, with rebuilds that fail or panic: a value is rebuilt by one     *)
(* thread at a time, and the cache's entries and the values' slots agree.   *)
(*                                                                         *)
(* A call is looked at where it is: a spot is a thread and a depth in its   *)
(* stack.  A call owns its flight from the claim to the answer; the         *)
(* invariant says what an owner may rely on.                               *)
(***************************************************************************)
EXTENDS Residency, StackLemmas

Spots == UNION {{<<t, i>> : i \in 1 .. Len(stack[t])} : t \in Threads}
Here(t) == <<t, Len(stack[t])>>
CallAt(p) == stack[p[1]][p[2]]
Pc(p) == CallAt(p).pc
Val(p) == CallAt(p).value
Fl(p) == CallAt(p).flight

\* A prefetch of v under flight f waits for a loader.
JobRef(v, f) == \E i \in 1 .. Len(jobs) : jobs[i].value = v /\ jobs[i].flight = f

\* Where a call has not installed its value, where the value knows its flight,
\* where the flight is not answered, and where there must be one.
EarlyPcs == {"rebuild", "rebuilt", "install"}
KnownPcs == {"rebuild", "rebuilt", "install", "insert", "installed", "failed", "panicked"}
OwnPcs == {"rebuild", "rebuilt", "install", "insert", "installed", "failed", "panicked",
           "landing", "failing", "panicking"}
FlightPcs == {"claim", "send", "rebuild", "rebuilt", "installed", "failed", "panicked",
              "landing", "failing", "panicking", "wait"}
InstallPcs == {"install", "insert"}
Pcs == OwnPcs \union FlightPcs \union {"touch", "join", "prefetch", "prefetched"}

CallType == [pc : Pcs, value : Values, flight : Flights \union {NoFlight}]
JobType == [pc : {"claim"}, value : Values, flight : Flights]

ResTypeOK ==
  /\ order \in Seq(Values) /\ resident \subseteq Values
  /\ handle \in [Values -> {"held", "dropping", "none"}]
  /\ current \in [Values -> Flights \union {NoFlight}]
  /\ flight \in [Flights -> {"Queued", "Running", "Ok", "Err"}]
  /\ jobs \in Seq(JobType)
  /\ stack \in [Threads -> Seq(CallType)]

Early(p) == Pc(p) \in EarlyPcs /\ Fl(p) # NoFlight
Known(p) == Pc(p) \in KnownPcs /\ Fl(p) # NoFlight
Own(p) == Pc(p) \in OwnPcs /\ Fl(p) # NoFlight
Installing(p) == Pc(p) \in InstallPcs /\ Fl(p) = NoFlight

\* A call that is not innermost waits for what its rebuild gets.
Nested == \A p \in Spots : p # Here(p[1]) => Pc(p) = "rebuilt"

\* An owner's flight runs, and is nobody else's.
OwnersRun == \A p \in Spots : Own(p) => flight[Fl(p)] = "Running"
OwnersAlone == \A p, q \in Spots : Own(p) /\ Own(q) /\ Fl(p) = Fl(q) => p = q

\* The value knows the flight of its owner until it is cleared, and is not in its
\* slot until the owner puts it there.
OwnersKnown == \A p \in Spots : Known(p) => current[Val(p)] = Fl(p)
OwnersEarly == \A p \in Spots : Early(p) => Val(p) \notin resident

\* A flight that nobody has claimed is for a value that is not there, and is the
\* one that the value knows.
QueuedEmpty == \A v \in Values : current[v] # NoFlight /\ flight[current[v]] = "Queued" => v \notin resident
QueuedKnown ==
  \A f \in Flights : flight[f] = "Queued" =>
    /\ \A p \in Spots : Fl(p) = f => current[Val(p)] = f
    /\ \A v \in Values : JobRef(v, f) => current[v] = f

\* A call beyond the claim has a flight, unless it is with_value's.
Tagged ==
  \A p \in Spots : /\ Pc(p) \in FlightPcs => Fl(p) # NoFlight
                   /\ Installing(p) => handle[Val(p)] = "none"

\* A value nobody holds: with_value's caller alone may be making it.
Unmade ==
  \A v \in Values : handle[v] = "none" =>
    /\ current[v] = NoFlight /\ v \notin Entries
    /\ \A f \in Flights : ~JobRef(v, f)
    /\ \A p \in Spots : Val(p) = v => Installing(p)
    /\ \A p, q \in Spots : Val(p) = v /\ Val(q) = v => p = q

\* A value being dropped is out of everybody's reach.
Leaving ==
  \A v \in Values : handle[v] = "dropping" =>
    /\ current[v] = NoFlight
    /\ \A f \in Flights : ~JobRef(v, f)
    /\ \A p \in Spots : Val(p) # v

\* A value is in its slot and has no entry exactly between the two steps of its
\* install, or while it is dropped.
Inserting == \A p \in Spots : Pc(p) = "insert" => Val(p) \in resident /\ Val(p) \notin Entries
Inserted ==
  \A v \in resident : \/ v \in Entries \/ handle[v] = "dropping"
                      \/ \E p \in Spots : Pc(p) = "insert" /\ Val(p) = v

ResInv ==
  /\ ResTypeOK
  /\ Nested /\ OwnersRun /\ OwnersAlone /\ OwnersKnown /\ OwnersEarly
  /\ QueuedEmpty /\ QueuedKnown /\ Tagged /\ Unmade /\ Leaving
  /\ Inserting /\ Inserted /\ Entries \subseteq resident /\ IsInjective(order)

-----------------------------------------------------------------------------
(* What a change of one thread's stack does to the calls *)

StacksTyped == stack \in [Threads -> Seq(CallType)]

Same(p) == Pc(p)' = Pc(p) /\ Val(p)' = Val(p) /\ Fl(p)' = Fl(p)

LEMMA SpotsMean ==
  \A p : p \in Spots <=> \E t \in Threads : \E i \in 1 .. Len(stack[t]) : p = <<t, i>>
  BY DEF Spots

LEMMA SpotTyped ==
  ASSUME StacksTyped, NEW p \in Spots
  PROVE  /\ p[1] \in Threads /\ CallAt(p) \in CallType
         /\ Pc(p) \in Pcs /\ Val(p) \in Values /\ Fl(p) \in Flights \union {NoFlight}
  <1>1. PICK t \in Threads : \E i \in 1 .. Len(stack[t]) : p = <<t, i>>
    BY DEF Spots
  <1>2. PICK i \in 1 .. Len(stack[t]) : p = <<t, i>>
    BY <1>1
  <1>3. stack[t][i] \in CallType
    <2>1. stack[t] \in Seq(CallType)
      BY DEF StacksTyped
    <2> QED BY <1>2, <2>1, LenProperties
  <1>4. CallAt(p) \in CallType
    BY <1>2, <1>3 DEF CallAt
  <1>5. Pc(p) \in Pcs /\ Val(p) \in Values /\ Fl(p) \in Flights \union {NoFlight}
    BY <1>4 DEF Pc, Val, Fl, CallType
  <1> QED BY <1>2, <1>4, <1>5

\* A thread's innermost call is the one at its last spot.
LEMMA TopIs ==
  ASSUME StacksTyped, NEW t \in Threads, stack[t] # << >>
  PROVE  /\ Here(t) \in Spots /\ Here(t)[1] = t
         /\ Top(t) \in CallType /\ CallAt(Here(t)) = Top(t)
         /\ Top(t).pc = Pc(Here(t)) /\ Top(t).value = Val(Here(t)) /\ Top(t).flight = Fl(Here(t))
  <1>1. stack[t] \in Seq(CallType)
    BY DEF StacksTyped
  <1>2. Len(stack[t]) \in Nat \ {0} /\ Last(stack[t]) = stack[t][Len(stack[t])]
    BY <1>1, FrontLast
  <1>3. Len(stack[t]) \in 1 .. Len(stack[t])
    BY <1>2
  <1>4. Here(t) \in Spots
    BY <1>3 DEF Here, Spots
  <1>5. CallAt(Here(t)) = Top(t)
    BY <1>2 DEF CallAt, Here, Top
  <1>6. Top(t) \in CallType
    BY <1>4, <1>5, SpotTyped
  <1> QED BY <1>4, <1>5, <1>6 DEF Here, Pc, Val, Fl

\* Only the spots of thread t change, to those of its new stack.
LEMMA StackSet ==
  ASSUME StacksTyped, NEW t \in Threads, NEW s \in Seq(CallType), stack' = [stack EXCEPT ![t] = s]
  PROVE  /\ StacksTyped'
         /\ \A i : <<t, i>> \in Spots' <=> i \in 1 .. Len(s)
         /\ \A p : p[1] # t => (p \in Spots' <=> p \in Spots)
         /\ \A p \in Spots' : p[1] = t => p = <<t, p[2]>>
         /\ \A i : CallAt(<<t, i>>)' = s[i]
         /\ \A p \in Spots : p[1] # t => CallAt(p)' = CallAt(p)
         /\ Here(t)' = <<t, Len(s)>>
         /\ \A u \in Threads \ {t} : Here(u)' = Here(u)
  <1>1. /\ stack' \in [Threads -> Seq(CallType)] /\ stack'[t] = s
        /\ \A u \in Threads \ {t} : stack'[u] = stack[u]
    BY DEF StacksTyped
  <1>2. \A p : p \in Spots' <=> \E u \in Threads : \E i \in 1 .. Len(stack'[u]) : p = <<u, i>>
    BY DEF Spots
  <1>3. \A i : <<t, i>> \in Spots' <=> i \in 1 .. Len(s)
    BY <1>1, <1>2
  <1>4. \A p : p[1] # t => (p \in Spots' <=> p \in Spots)
    BY <1>1, <1>2, SpotsMean
  <1>5. \A p \in Spots' : p[1] = t => p = <<t, p[2]>>
    BY <1>2
  <1>6. \A i : CallAt(<<t, i>>)' = s[i]
    BY <1>1 DEF CallAt
  <1>7. \A p \in Spots : p[1] # t => CallAt(p)' = CallAt(p)
    <2> TAKE p \in Spots
    <2> HAVE p[1] # t
    <2>1. p[1] \in Threads \ {t}
      BY SpotTyped
    <2> QED BY <1>1, <2>1 DEF CallAt
  <1>8. Here(t)' = <<t, Len(s)>> /\ \A u \in Threads \ {t} : Here(u)' = Here(u)
    BY <1>1 DEF Here
  <1> QED BY <1>1, <1>3, <1>4, <1>5, <1>6, <1>7, <1>8 DEF StacksTyped

\* A call's fields stay when the call does.
LEMMA SameCall ==
  ASSUME NEW p, CallAt(p)' = CallAt(p)
  PROVE  Same(p)
  BY DEF Same, Pc, Val, Fl

\* A thread that is idle begins a call.
LEMMA BeginView ==
  ASSUME StacksTyped, Nested, NEW t \in Threads, stack[t] = << >>,
         NEW call \in CallType, Begin(t, call)
  PROVE  /\ StacksTyped' /\ Nested'
         /\ \E n : /\ n \notin Spots /\ Spots' = Spots \union {n}
                   /\ Pc(n)' = call.pc /\ Val(n)' = call.value /\ Fl(n)' = call.flight
                   /\ \A q \in Spots : Same(q)
  <1> DEFINE s == <<call>>
             n == <<t, 1>>
  <1>1. s \in Seq(CallType) /\ Len(s) = 1 /\ s[1] = call
    OBVIOUS
  <1>2. stack' = [stack EXCEPT ![t] = s]
    BY DEF Begin
  <1> HIDE DEF s
  <1>3. /\ StacksTyped'
        /\ \A i : <<t, i>> \in Spots' <=> i \in 1 .. Len(s)
        /\ \A p : p[1] # t => (p \in Spots' <=> p \in Spots)
        /\ \A p \in Spots' : p[1] = t => p = <<t, p[2]>>
        /\ \A i : CallAt(<<t, i>>)' = s[i]
        /\ \A p \in Spots : p[1] # t => CallAt(p)' = CallAt(p)
        /\ Here(t)' = <<t, Len(s)>>
        /\ \A u \in Threads \ {t} : Here(u)' = Here(u)
    BY <1>1, <1>2, StackSet
  <1>4. \A p \in Spots : p[1] # t
    <2> SUFFICES ASSUME NEW p \in Spots, p[1] = t PROVE FALSE
      OBVIOUS
    <2>1. PICK u \in Threads : \E i \in 1 .. Len(stack[u]) : p = <<u, i>>
      BY SpotsMean
    <2>2. u = t /\ Len(stack[t]) = 0
      BY <2>1, EmptySeq
    <2> QED BY <2>1, <2>2
  <1>5. n[1] = t /\ n \in Spots' /\ CallAt(n)' = call /\ Here(t)' = n
    BY <1>1, <1>3
  <1>6. \A p \in Spots' : p[1] = t => p = n
    <2> TAKE p \in Spots'
    <2> HAVE p[1] = t
    <2>1. p = <<t, p[2]>> /\ p[2] \in 1 .. 1
      BY <1>1, <1>3
    <2> QED BY <2>1
  <1> HIDE DEF n
  <1>7. n \notin Spots /\ Spots' = Spots \union {n}
    BY <1>3, <1>4, <1>5, <1>6
  <1>8. \A q \in Spots : Same(q)
    BY <1>3, <1>4, SameCall
  <1>9. Pc(n)' = call.pc /\ Val(n)' = call.value /\ Fl(n)' = call.flight
    BY <1>5 DEF Pc, Val, Fl
  <1>10. Nested'
    <2> SUFFICES ASSUME NEW p \in Spots', p # Here(p[1])' PROVE Pc(p)' = "rebuilt"
      BY DEF Nested
    <2>1. p \in Spots /\ p[1] # t /\ p[1] \in Threads
      BY <1>3, <1>5, <1>6, <1>7, SpotTyped
    <2>2. p # Here(p[1])
      BY <1>3, <2>1
    <2> QED BY <1>8, <2>1, <2>2 DEF Nested, Same
  <1> QED BY <1>3, <1>7, <1>8, <1>9, <1>10

\* A thread's innermost call goes on as another one.
LEMMA BecomeView ==
  ASSUME StacksTyped, Nested, NEW t \in Threads, stack[t] # << >>,
         NEW call \in CallType, Become(t, call)
  PROVE  /\ StacksTyped' /\ Nested'
         /\ Spots' = Spots
         /\ \E h : /\ h = Here(t) /\ h \in Spots
                   /\ Pc(h)' = call.pc /\ Val(h)' = call.value /\ Fl(h)' = call.flight
                   /\ \A q \in Spots \ {h} : Same(q)
  <1> DEFINE s == Append(Front(stack[t]), call)
             m == Len(stack[t])
  <1>h. PICK h : h = Here(t)
    OBVIOUS
  <1>0. stack[t] \in Seq(CallType)
    BY DEF StacksTyped
  <1>1. /\ s \in Seq(CallType) /\ Len(s) = m /\ s[m] = call /\ m \in Nat \ {0}
        /\ \A i \in 1 .. m - 1 : s[i] = stack[t][i]
    <2>1. /\ Front(stack[t]) \in Seq(CallType) /\ Len(Front(stack[t])) = m - 1 /\ m \in Nat \ {0}
          /\ \A i \in 1 .. m - 1 : Front(stack[t])[i] = stack[t][i]
      BY <1>0, FrontLast
    <2> HIDE DEF m
    <2> QED BY <2>1, AppendProperties
  <1>2. stack' = [stack EXCEPT ![t] = s]
    BY DEF Become
  <1> HIDE DEF s
  <1>3. /\ StacksTyped'
        /\ \A i : <<t, i>> \in Spots' <=> i \in 1 .. Len(s)
        /\ \A p : p[1] # t => (p \in Spots' <=> p \in Spots)
        /\ \A p \in Spots' : p[1] = t => p = <<t, p[2]>>
        /\ \A i : CallAt(<<t, i>>)' = s[i]
        /\ \A p \in Spots : p[1] # t => CallAt(p)' = CallAt(p)
        /\ Here(t)' = <<t, Len(s)>>
        /\ \A u \in Threads \ {t} : Here(u)' = Here(u)
    BY <1>1, <1>2, StackSet
  <1>4. h = <<t, m>> /\ h \in Spots /\ h[1] = t /\ Here(t)' = h /\ CallAt(h)' = call
    <2>1. h = <<t, m>> /\ h \in Spots
      BY <1>h, TopIs DEF Here
    <2>2. PICK i : i = m
      OBVIOUS
    <2>3. CallAt(<<t, i>>)' = s[i] /\ h = <<t, i>>
      BY <1>3, <2>1, <2>2
    <2> QED BY <1>1, <1>3, <2>1, <2>2, <2>3
  <1>5. \A p \in Spots : p[1] = t => p = <<t, p[2]>> /\ p[2] \in 1 .. m
    BY SpotsMean
  <1>6. Spots' = Spots
    <2>1. \A i : <<t, i>> \in Spots <=> i \in 1 .. m
      BY SpotsMean
    <2>2. \A p : p[1] = t => (p \in Spots' <=> p \in Spots)
      BY <1>1, <1>3, <1>5, <2>1
    <2> QED BY <1>3, <2>2
  <1>7. \A q \in Spots \ {h} : Same(q)
    <2> TAKE q \in Spots \ {h}
    <2>1. CASE q[1] # t
      BY <1>3, <2>1, SameCall
    <2>2. CASE q[1] = t
      <3>1. PICK i : i = q[2]
        OBVIOUS
      <3>2. q = <<t, i>> /\ i \in 1 .. m /\ i # m
        BY <1>4, <1>5, <2>2, <3>1
      <3>3. i \in 1 .. m - 1
        BY <1>1, <3>2
      <3>4. CallAt(q)' = stack[t][i] /\ CallAt(q) = stack[t][i]
        BY <1>1, <1>3, <3>2, <3>3 DEF CallAt
      <3> QED BY <3>4, SameCall
    <2> QED BY <2>1, <2>2
  <1>8. Pc(h)' = call.pc /\ Val(h)' = call.value /\ Fl(h)' = call.flight
    BY <1>4 DEF Pc, Val, Fl
  <1>9. Nested'
    <2> SUFFICES ASSUME NEW p \in Spots', p # Here(p[1])' PROVE Pc(p)' = "rebuilt"
      BY DEF Nested
    <2>1. p \in Spots /\ p[1] \in Threads /\ p # h
      BY <1>4, <1>6, SpotTyped
    <2>2. p # Here(p[1])
      BY <1>3, <1>4, <1>h, <2>1
    <2> QED BY <1>7, <2>1, <2>2 DEF Nested, Same
  <1> QED BY <1>3, <1>4, <1>6, <1>7, <1>8, <1>9, <1>h

\* A thread's innermost call returns.
LEMMA ReturnView ==
  ASSUME StacksTyped, Nested, NEW t \in Threads, stack[t] # << >>, Return(t)
  PROVE  /\ StacksTyped' /\ Nested'
         /\ Here(t) \in Spots /\ Spots' = Spots \ {Here(t)}
         /\ \A q \in Spots' : Same(q)
  <1> DEFINE s == Front(stack[t])
             m == Len(stack[t])
             h == Here(t)
  <1>0. stack[t] \in Seq(CallType)
    BY DEF StacksTyped
  <1>1. /\ s \in Seq(CallType) /\ Len(s) = m - 1 /\ m \in Nat \ {0}
        /\ \A i \in 1 .. m - 1 : s[i] = stack[t][i]
    BY <1>0, FrontLast
  <1>2. stack' = [stack EXCEPT ![t] = s]
    BY DEF Return
  <1> HIDE DEF s
  <1>3. /\ StacksTyped'
        /\ \A i : <<t, i>> \in Spots' <=> i \in 1 .. Len(s)
        /\ \A p : p[1] # t => (p \in Spots' <=> p \in Spots)
        /\ \A p \in Spots' : p[1] = t => p = <<t, p[2]>>
        /\ \A i : CallAt(<<t, i>>)' = s[i]
        /\ \A p \in Spots : p[1] # t => CallAt(p)' = CallAt(p)
        /\ Here(t)' = <<t, Len(s)>>
        /\ \A u \in Threads \ {t} : Here(u)' = Here(u)
    BY <1>1, <1>2, StackSet
  <1>4. h = <<t, m>> /\ h \in Spots /\ h[1] = t
    BY <1>1, TopIs DEF Here
  <1>5. /\ \A p \in Spots : p[1] = t => p = <<t, p[2]>> /\ p[2] \in 1 .. m
        /\ \A i : <<t, i>> \in Spots <=> i \in 1 .. m
    BY SpotsMean
  <1>6. \A p : p[1] = t => (p \in Spots' <=> p \in Spots \ {h})
    <2>1. \A i : i \in 1 .. m - 1 <=> (i \in 1 .. m /\ i # m)
      BY <1>1
    <2>2. \A i : <<t, i>> \in Spots' <=> (<<t, i>> \in Spots /\ i # m)
      BY <1>1, <1>3, <1>5, <2>1
    <2>3. \A i : i # m <=> <<t, i>> # h
      BY <1>4
    <2> QED BY <1>3, <1>5, <2>2, <2>3
  <1>7. Spots' = Spots \ {h}
    BY <1>3, <1>4, <1>6
  <1>8. \A q \in Spots' : Same(q)
    <2> TAKE q \in Spots'
    <2>1. CASE q[1] # t
      BY <1>3, <2>1, SameCall
    <2>2. CASE q[1] = t
      <3>1. PICK i : i = q[2]
        OBVIOUS
      <3>2. q = <<t, i>>
        BY <1>3, <2>2, <3>1
      <3>3. i \in 1 .. m - 1
        BY <1>1, <1>3, <3>2
      <3>4. CallAt(q)' = stack[t][i] /\ CallAt(q) = stack[t][i]
        BY <1>1, <1>3, <3>2, <3>3 DEF CallAt
      <3> QED BY <3>4, SameCall
    <2> QED BY <2>1, <2>2
  <1> HIDE DEF h
  <1>9. Nested'
    <2> SUFFICES ASSUME NEW p \in Spots', p # Here(p[1])' PROVE Pc(p)' = "rebuilt"
      BY DEF Nested
    <2>1. p \in Spots /\ p[1] \in Threads /\ p # h
      BY <1>7, SpotTyped
    <2>2. p # Here(p[1])
      BY <1>3, <1>4, <2>1 DEF h
    <2> QED BY <1>8, <2>1, <2>2 DEF Nested, Same
  <1> QED BY <1>3, <1>4, <1>7, <1>8, <1>9 DEF h

\* The innermost call, a rebuild, begins a get.
LEMMA PushView ==
  ASSUME StacksTyped, Nested, NEW t \in Threads, stack[t] # << >>,
         NEW outer \in CallType, NEW inner \in CallType, outer.pc = "rebuilt",
         stack' = [stack EXCEPT ![t] = Front(@) \o <<outer, inner>>]
  PROVE  /\ StacksTyped' /\ Nested'
         /\ \E h, n : /\ h = Here(t) /\ h \in Spots /\ n \notin Spots /\ Spots' = Spots \union {n}
                      /\ Pc(h)' = outer.pc /\ Val(h)' = outer.value /\ Fl(h)' = outer.flight
                      /\ Pc(n)' = inner.pc /\ Val(n)' = inner.value /\ Fl(n)' = inner.flight
                      /\ \A q \in Spots \ {h} : Same(q)
  <1> DEFINE s == Front(stack[t]) \o <<outer, inner>>
             m == Len(stack[t])
  <1>h. PICK h : h = Here(t)
    OBVIOUS
  <1>n. PICK n : n = <<t, m + 1>>
    OBVIOUS
  <1>0. stack[t] \in Seq(CallType)
    BY DEF StacksTyped
  <1>1. /\ s \in Seq(CallType) /\ Len(s) = m + 1 /\ m \in Nat \ {0}
        /\ s[m] = outer /\ s[m + 1] = inner
        /\ \A i \in 1 .. m - 1 : s[i] = stack[t][i]
    <2>1. /\ Front(stack[t]) \in Seq(CallType) /\ Len(Front(stack[t])) = m - 1 /\ m \in Nat \ {0}
          /\ \A i \in 1 .. m - 1 : Front(stack[t])[i] = stack[t][i]
      BY <1>0, FrontLast
    <2>2. PICK f : f = Front(stack[t])
      OBVIOUS
    <2>3. PICK two : two = <<outer, inner>>
      OBVIOUS
    <2>4. two \in Seq(CallType) /\ Len(two) = 2 /\ two[1] = outer /\ two[2] = inner
      BY <2>3
    <2>5. s = f \o two
      BY <2>2, <2>3
    <2> HIDE DEF m, s
    <2>6. f \in Seq(CallType) /\ Len(f) = m - 1 /\ \A i \in 1 .. m - 1 : f[i] = stack[t][i]
      BY <2>1, <2>2
    <2>7. /\ f \o two \in Seq(CallType) /\ Len(f \o two) = Len(f) + Len(two)
          /\ \A i \in 1 .. Len(f) + Len(two) : (f \o two)[i] =
               IF i <= Len(f) THEN f[i] ELSE two[i - Len(f)]
      BY <2>4, <2>6, ConcatProperties
    <2>8. Len(f) + Len(two) = m + 1 /\ m \in 1 .. m + 1 /\ m + 1 \in 1 .. m + 1
      BY <2>1, <2>4, <2>6
    <2>9. s[m] = two[1] /\ s[m + 1] = two[2]
      BY <2>1, <2>5, <2>6, <2>7, <2>8
    <2>10. \A i \in 1 .. m - 1 : s[i] = f[i]
      BY <2>1, <2>5, <2>6, <2>7, <2>8
    <2> QED BY <2>1, <2>4, <2>5, <2>6, <2>7, <2>8, <2>9, <2>10
  <1>2. stack' = [stack EXCEPT ![t] = s]
    OBVIOUS
  <1> HIDE DEF s
  <1>3. /\ StacksTyped'
        /\ \A i : <<t, i>> \in Spots' <=> i \in 1 .. Len(s)
        /\ \A p : p[1] # t => (p \in Spots' <=> p \in Spots)
        /\ \A p \in Spots' : p[1] = t => p = <<t, p[2]>>
        /\ \A i : CallAt(<<t, i>>)' = s[i]
        /\ \A p \in Spots : p[1] # t => CallAt(p)' = CallAt(p)
        /\ Here(t)' = <<t, Len(s)>>
        /\ \A u \in Threads \ {t} : Here(u)' = Here(u)
    BY <1>1, <1>2, StackSet
  <1>4. h = <<t, m>> /\ h \in Spots /\ h[1] = t /\ CallAt(h)' = outer
    <2>1. h = <<t, m>> /\ h \in Spots
      BY <1>h, TopIs DEF Here
    <2>2. PICK i : i = m
      OBVIOUS
    <2>3. CallAt(<<t, i>>)' = s[i] /\ h = <<t, i>>
      BY <1>3, <2>1, <2>2
    <2> QED BY <1>1, <2>1, <2>2, <2>3
  <1>5. /\ \A p \in Spots : p[1] = t => p = <<t, p[2]>> /\ p[2] \in 1 .. m
        /\ \A i : <<t, i>> \in Spots <=> i \in 1 .. m
    BY SpotsMean
  <1>6. n \notin Spots /\ n \in Spots' /\ n[1] = t /\ CallAt(n)' = inner /\ Here(t)' = n
    <2>1. m + 1 \notin 1 .. m /\ m + 1 \in 1 .. m + 1
      BY <1>1
    <2>2. PICK i : i = m + 1
      OBVIOUS
    <2>3. CallAt(<<t, i>>)' = s[i] /\ n = <<t, i>>
      BY <1>3, <1>n, <2>2
    <2>4. n \notin Spots /\ n \in Spots'
      BY <1>1, <1>3, <1>5, <2>1, <2>2, <2>3
    <2> QED BY <1>1, <1>3, <1>n, <2>2, <2>3, <2>4
  <1>7. \A p : p[1] = t => (p \in Spots' <=> p \in Spots \union {n})
    <2>1. \A i : i \in 1 .. m + 1 <=> (i \in 1 .. m \/ i = m + 1)
      BY <1>1
    <2>2. \A i : <<t, i>> \in Spots' <=> (<<t, i>> \in Spots \/ i = m + 1)
      BY <1>1, <1>3, <1>5, <2>1
    <2> QED BY <1>3, <1>5, <1>6, <2>2
  <1>8. Spots' = Spots \union {n}
    BY <1>3, <1>6, <1>7
  <1>9. \A q \in Spots \ {h} : Same(q)
    <2> TAKE q \in Spots \ {h}
    <2>1. CASE q[1] # t
      BY <1>3, <2>1, SameCall
    <2>2. CASE q[1] = t
      <3>1. PICK i : i = q[2]
        OBVIOUS
      <3>2. q = <<t, i>> /\ i \in 1 .. m /\ i # m
        BY <1>4, <1>5, <2>2, <3>1
      <3>3. i \in 1 .. m - 1
        BY <1>1, <3>2
      <3>4. CallAt(q)' = stack[t][i] /\ CallAt(q) = stack[t][i]
        BY <1>1, <1>3, <3>2, <3>3 DEF CallAt
      <3> QED BY <3>4, SameCall
    <2> QED BY <2>1, <2>2
  <1>10. /\ Pc(h)' = outer.pc /\ Val(h)' = outer.value /\ Fl(h)' = outer.flight
         /\ Pc(n)' = inner.pc /\ Val(n)' = inner.value /\ Fl(n)' = inner.flight
    BY <1>4, <1>6 DEF Pc, Val, Fl
  <1>11. Nested'
    <2> SUFFICES ASSUME NEW p \in Spots', p # Here(p[1])' PROVE Pc(p)' = "rebuilt"
      BY DEF Nested
    <2>1. p \in Spots /\ p[1] \in Threads
      BY <1>6, <1>8, SpotTyped
    <2>2. CASE p = h
      BY <1>10, <2>2
    <2>3. CASE p # h
      <3>1. p # Here(p[1])
        BY <1>3, <1>h, <1>4, <2>1, <2>3
      <3> QED BY <1>9, <2>1, <2>3, <3>1 DEF Nested, Same
    <2> QED BY <2>2, <2>3
  <1> QED BY <1>3, <1>4, <1>6, <1>8, <1>9, <1>10, <1>11, <1>h

\* A panic ends the innermost call, and panics the rebuild it was made for.
LEMMA UnwindView ==
  ASSUME StacksTyped, Nested, NEW t \in Threads, stack[t] # << >>, Len(stack[t]) # 1,
         stack' = [stack EXCEPT ![t] =
                     Append(Front(Front(@)), [Last(Front(@)) EXCEPT !.pc = "panicked"])]
  PROVE  /\ StacksTyped' /\ Nested'
         /\ Here(t) \in Spots /\ Spots' = Spots \ {Here(t)}
         /\ \E g \in Spots' : /\ Pc(g) = "rebuilt" /\ Pc(g)' = "panicked"
                              /\ Val(g)' = Val(g) /\ Fl(g)' = Fl(g)
                              /\ \A q \in Spots' \ {g} : Same(q)
  <1> DEFINE f == Front(stack[t])
             call == [Last(f) EXCEPT !.pc = "panicked"]
             s == Append(Front(f), call)
             m == Len(stack[t])
  <1>h. PICK h : h = Here(t)
    OBVIOUS
  <1>g. PICK g : g = <<t, m - 1>>
    OBVIOUS
  <1>0. stack[t] \in Seq(CallType)
    BY DEF StacksTyped
  <1>1. /\ m \in Nat /\ m >= 2 /\ f \in Seq(CallType) /\ Len(f) = m - 1
        /\ \A i \in 1 .. m - 1 : f[i] = stack[t][i]
    <2>1. /\ m \in Nat \ {0} /\ f \in Seq(CallType) /\ Len(f) = m - 1
          /\ \A i \in 1 .. m - 1 : f[i] = stack[t][i]
      BY <1>0, FrontLast
    <2>2. m # 1
      OBVIOUS
    <2> HIDE DEF m, f
    <2>3. m >= 2
      BY <2>1, <2>2
    <2> QED BY <2>1, <2>3
  <1>2. /\ Front(f) \in Seq(CallType) /\ Len(Front(f)) = m - 2
        /\ \A i \in 1 .. m - 2 : Front(f)[i] = f[i]
        /\ Last(f) = stack[t][m - 1] /\ Last(f) \in CallType
    <2> HIDE DEF f, m
    <2>1. f # << >>
      BY <1>1, EmptySeq
    <2>2. /\ Front(f) \in Seq(CallType) /\ Len(Front(f)) = Len(f) - 1
          /\ \A i \in 1 .. Len(f) - 1 : Front(f)[i] = f[i]
          /\ Last(f) \in CallType /\ Last(f) = f[Len(f)]
      BY <1>1, <2>1, FrontLast
    <2>3. m - 1 \in 1 .. m - 1 /\ Len(f) - 1 = m - 2
      BY <1>1
    <2> QED BY <1>1, <2>2, <2>3
  <1>c. /\ call \in CallType /\ call.pc = "panicked"
        /\ call.value = Last(f).value /\ call.flight = Last(f).flight
    <2> HIDE DEF f
    <2> QED BY <1>2 DEF CallType, Pcs, OwnPcs
  <1> HIDE DEF call
  <1>4. /\ s \in Seq(CallType) /\ Len(s) = m - 1 /\ s[m - 1] = call
        /\ \A i \in 1 .. m - 2 : s[i] = stack[t][i]
    <2>1. PICK r : r = Front(f)
      OBVIOUS
    <2>2. s = Append(r, call)
      BY <2>1
    <2> HIDE DEF f, m, s
    <2>3. /\ r \in Seq(CallType) /\ Len(r) = m - 2 /\ \A i \in 1 .. m - 2 : r[i] = f[i]
      BY <1>2, <2>1
    <2>4. /\ s \in Seq(CallType) /\ Len(s) = Len(r) + 1 /\ s[Len(r) + 1] = call
          /\ \A i \in 1 .. Len(r) : s[i] = r[i]
      BY <1>c, <2>2, <2>3, AppendProperties
    <2>5. Len(r) + 1 = m - 1
      BY <1>1, <2>3
    <2>6. \A i \in 1 .. m - 2 : i \in 1 .. m - 1
      BY <1>1
    <2> QED BY <1>1, <2>3, <2>4, <2>5, <2>6
  <1>5. stack' = [stack EXCEPT ![t] = s]
    BY DEF call
  <1> HIDE DEF s, f
  <1>6. /\ StacksTyped'
        /\ \A i : <<t, i>> \in Spots' <=> i \in 1 .. Len(s)
        /\ \A p : p[1] # t => (p \in Spots' <=> p \in Spots)
        /\ \A p \in Spots' : p[1] = t => p = <<t, p[2]>>
        /\ \A i : CallAt(<<t, i>>)' = s[i]
        /\ \A p \in Spots : p[1] # t => CallAt(p)' = CallAt(p)
        /\ Here(t)' = <<t, Len(s)>>
        /\ \A u \in Threads \ {t} : Here(u)' = Here(u)
    BY <1>4, <1>5, StackSet
  <1>7. h = <<t, m>> /\ h \in Spots /\ h[1] = t
    BY TopIs, <1>h DEF Here
  <1>8. /\ \A p \in Spots : p[1] = t => p = <<t, p[2]>> /\ p[2] \in 1 .. m
        /\ \A i : <<t, i>> \in Spots <=> i \in 1 .. m
    BY SpotsMean
  <1>9. /\ g \in Spots /\ g \in Spots' /\ g[1] = t /\ CallAt(g)' = call /\ CallAt(g) = Last(f)
        /\ Here(t)' = g /\ g # h
    <2>1. m - 1 \in 1 .. m - 1 /\ m - 1 \in 1 .. m /\ m - 1 # m
      BY <1>1
    <2>2. CallAt(g) = Last(f)
      BY <1>2, <1>g DEF CallAt
    <2>3. PICK i : i = m - 1
      OBVIOUS
    <2>4. CallAt(<<t, i>>)' = s[i] /\ g = <<t, i>>
      BY <1>6, <1>g, <2>3
    <2>5. CallAt(g)' = call /\ Here(t)' = g
      BY <1>4, <1>6, <2>3, <2>4
    <2>6. g \in Spots /\ g \in Spots' /\ g[1] = t /\ g # h
      BY <1>4, <1>6, <1>7, <1>8, <2>1, <2>3, <2>4
    <2> QED BY <2>2, <2>5, <2>6
  <1>10. \A p : p[1] = t => (p \in Spots' <=> p \in Spots \ {h})
    <2>1. \A i : i \in 1 .. m - 1 <=> (i \in 1 .. m /\ i # m)
      BY <1>1
    <2>2. \A i : <<t, i>> \in Spots' <=> (<<t, i>> \in Spots /\ i # m)
      BY <1>4, <1>6, <1>8, <2>1
    <2>3. \A i : i # m <=> <<t, i>> # h
      BY <1>7
    <2> QED BY <1>6, <1>8, <2>2, <2>3
  <1>11. Spots' = Spots \ {h}
    BY <1>6, <1>7, <1>10
  <1>12. \A q \in Spots' \ {g} : Same(q)
    <2> TAKE q \in Spots' \ {g}
    <2>1. CASE q[1] # t
      BY <1>6, <2>1, SameCall
    <2>2. CASE q[1] = t
      <3>1. PICK i : i = q[2]
        OBVIOUS
      <3>2. q = <<t, i>> /\ i \in 1 .. m - 1 /\ i # m - 1
        BY <1>4, <1>6, <1>g, <2>2, <3>1
      <3>3. i \in 1 .. m - 2
        BY <1>1, <3>2
      <3>4. CallAt(q)' = stack[t][i] /\ CallAt(q) = stack[t][i]
        BY <1>4, <1>6, <3>2, <3>3 DEF CallAt
      <3> QED BY <3>4, SameCall
    <2> QED BY <2>1, <2>2
  <1>13. Pc(g) = "rebuilt"
    <2>1. Here(g[1]) = h
      BY <1>9, <1>h
    <2> QED BY <1>9, <2>1 DEF Nested
  <1>14. Pc(g)' = "panicked" /\ Val(g)' = Val(g) /\ Fl(g)' = Fl(g)
    BY <1>c, <1>9 DEF Pc, Val, Fl
  <1>15. Nested'
    <2> SUFFICES ASSUME NEW p \in Spots', p # Here(p[1])' PROVE Pc(p)' = "rebuilt"
      BY DEF Nested
    <2>1. p \in Spots /\ p[1] \in Threads /\ p # h /\ p # g
      BY <1>9, <1>11, SpotTyped
    <2>2. p # Here(p[1])
      BY <1>6, <1>7, <1>h, <2>1
    <2> QED BY <1>12, <2>1, <2>2 DEF Nested, Same
  <1> QED BY <1>6, <1>7, <1>9, <1>11, <1>12, <1>13, <1>14, <1>15, <1>h

-----------------------------------------------------------------------------
(* Steps that change nothing but calls: no value is given or loses a flight, *)
(* a slot or an entry                                                       *)

\* Nobody refers to flight f.
Unused(f) ==
  /\ \A v \in Values : current[v] # f /\ ~JobRef(v, f)
  /\ \A p \in Spots : Fl(p) # f

\* A call stays where it was, or goes to where less is asked of it.
GoesOn(p) ==
  /\ p \in Spots
  /\ Val(p)' = Val(p) /\ Fl(p)' = Fl(p)
  /\ Own(p)' => Own(p)
  /\ Known(p)' => Known(p)
  /\ Early(p)' => Early(p)
  /\ Installing(p)' <=> Installing(p)
  /\ Pc(p)' = "insert" <=> Pc(p) = "insert"
  /\ Pc(p)' \in FlightPcs => Fl(p)' # NoFlight

\* A call that begins, or that finds the flight of its value.
Fresh(p) ==
  /\ p \in Spots => Pc(p) # "insert"
  /\ handle[Val(p)'] = "held"
  /\ Pc(p)' \notin OwnPcs \union InstallPcs
  /\ Pc(p)' \in FlightPcs => Fl(p)' # NoFlight
  /\ Fl(p)' \in Flights => current[Val(p)'] = Fl(p)' \/ JobRef(Val(p)', Fl(p)')

\* A flight stays as it is, is freed, or is answered.
QuietFlight(f) ==
  \/ flight'[f] = flight[f]
  \/ flight'[f] = "Queued" /\ Unused(f)'
  \/ flight'[f] # "Queued" /\ \A p \in Spots' : Own(p)' => Fl(p)' # f

Quiet ==
  /\ ResTypeOK' /\ Nested'
  /\ current' = current /\ resident' = resident /\ handle' = handle
  /\ Entries' = Entries /\ IsInjective(order)'
  /\ \A p \in Spots' : GoesOn(p) \/ Fresh(p)
  /\ \A p \in Spots : Pc(p) = "insert" => p \in Spots'
  /\ \A v \in Values, f \in Flights :
       JobRef(v, f)' => JobRef(v, f) \/ \E p \in Spots : Val(p) = v /\ Fl(p) = f
  /\ \A f \in Flights : QuietFlight(f)

Ranged == \A p \in Spots : Val(p) \in Values /\ Fl(p) \in Flights \union {NoFlight}

\* The calls' values and flights, in a state and in the next one.
LEMMA RangedIs == StacksTyped => Ranged
  BY SpotTyped DEF Ranged

LEMMA RangedBoth ==
  ASSUME StacksTyped, StacksTyped' PROVE Ranged /\ Ranged'
  <1>1. (StacksTyped => Ranged)'
    BY RangedIs, PTL
  <1> QED BY <1>1, RangedIs

\* A value that a call or a prefetch is about is held, but for with_value's.
LEMMA CallsHeld ==
  ASSUME ResInv
  PROVE  /\ \A p \in Spots : Installing(p) \/ handle[Val(p)] = "held"
         /\ \A v \in Values, f \in Flights : JobRef(v, f) => handle[v] = "held"
  <1>0. StacksTyped
    BY DEF ResInv, ResTypeOK, StacksTyped
  <1>1. \A v \in Values : handle[v] \in {"held", "dropping", "none"}
    BY DEF ResInv, ResTypeOK
  <1>2. \A p \in Spots : Val(p) \in Values
    BY <1>0, SpotTyped
  <1> QED BY <1>1, <1>2, Zenon DEF ResInv, Unmade, Leaving

LEMMA QuietStep ==
  ASSUME ResInv, Quiet, ResidencyAssumption
  PROVE  ResInv'
  <1>0. StacksTyped /\ StacksTyped' /\ NoFlight \notin Flights
    BY DEF ResInv, Quiet, ResTypeOK, StacksTyped, ResidencyAssumption, Flights
  <1>1. Ranged /\ Ranged'
    BY <1>0, RangedBoth
  <1>2. /\ \A p \in Spots' : Own(p)' => GoesOn(p) /\ Own(p)
        /\ \A p \in Spots' : Known(p)' => GoesOn(p) /\ Known(p)
        /\ \A p \in Spots' : Early(p)' => GoesOn(p) /\ Early(p)
        /\ \A p \in Spots' : Installing(p)' => GoesOn(p) /\ Installing(p)
        /\ \A p \in Spots' : Pc(p)' = "insert" => GoesOn(p) /\ Pc(p) = "insert"
    <2>1. \A p \in Spots' : GoesOn(p) \/ Fresh(p)
      BY DEF Quiet
    <2>2. \A p : GoesOn(p) => /\ Own(p)' => Own(p)
                              /\ Known(p)' => Known(p)
                              /\ Early(p)' => Early(p)
                              /\ Installing(p)' => Installing(p)
                              /\ Pc(p)' = "insert" => Pc(p) = "insert"
      BY DEF GoesOn
    <2>3. \A p : Fresh(p) => /\ ~Own(p)' /\ ~Known(p)' /\ ~Early(p)' /\ ~Installing(p)'
                             /\ Pc(p)' # "insert"
      BY DEF Fresh, Own, Known, Early, Installing, OwnPcs, KnownPcs, EarlyPcs, InstallPcs
    <2> QED BY <2>1, <2>2, <2>3, Zenon
  <1>3. \A p : GoesOn(p) => p \in Spots /\ Val(p)' = Val(p) /\ Fl(p)' = Fl(p)
    BY DEF GoesOn
  <1>4. \A f \in Flights : flight'[f] = "Queued" => Unused(f)' \/ flight[f] = "Queued"
    BY DEF Quiet, QuietFlight
  <1>5. OwnersRun'
    <2> SUFFICES ASSUME NEW p \in Spots', Own(p)' PROVE flight'[Fl(p)'] = "Running"
      BY DEF OwnersRun
    <2>1. p \in Spots /\ Own(p) /\ Fl(p)' = Fl(p)
      BY <1>2, <1>3
    <2>2. flight[Fl(p)] = "Running" /\ Fl(p) \in Flights
      BY <1>1, <2>1 DEF ResInv, OwnersRun, Ranged, Own
    <2>3. QuietFlight(Fl(p))
      BY <2>2 DEF Quiet
    <2>4. ~Unused(Fl(p))'
      BY <2>1 DEF Unused
    <2> QED BY <2>1, <2>2, <2>3, <2>4 DEF QuietFlight
  <1>6. OwnersAlone'
    BY <1>2, <1>3, Zenon DEF ResInv, OwnersAlone
  <1>7. OwnersKnown'
    <2> SUFFICES ASSUME NEW p \in Spots', Known(p)' PROVE current'[Val(p)'] = Fl(p)'
      BY DEF OwnersKnown
    <2>1. p \in Spots /\ Known(p) /\ Fl(p)' = Fl(p) /\ Val(p)' = Val(p)
      BY <1>2, <1>3
    <2> QED BY <2>1 DEF ResInv, OwnersKnown, Quiet
  <1>8. OwnersEarly'
    <2> SUFFICES ASSUME NEW p \in Spots', Early(p)' PROVE Val(p)' \notin resident'
      BY DEF OwnersEarly
    <2>1. p \in Spots /\ Early(p) /\ Val(p)' = Val(p)
      BY <1>2, <1>3
    <2> QED BY <2>1 DEF ResInv, OwnersEarly, Quiet
  <1>9. QueuedEmpty'
    <2> SUFFICES ASSUME NEW v \in Values, current'[v] # NoFlight, flight'[current'[v]] = "Queued"
                 PROVE  v \notin resident'
      BY DEF QueuedEmpty
    <2>1. current'[v] = current[v] /\ current[v] \in Flights
      BY DEF Quiet, ResInv, ResTypeOK
    <2>2. ~Unused(current[v])'
      BY <2>1 DEF Unused
    <2>3. flight[current[v]] = "Queued"
      BY <1>4, <2>1, <2>2
    <2> QED BY <2>1, <2>3 DEF ResInv, QueuedEmpty, Quiet
  <1>10. QueuedKnown'
    <2> SUFFICES ASSUME NEW f \in Flights, flight'[f] = "Queued"
                 PROVE  /\ \A p \in Spots' : Fl(p)' = f => current'[Val(p)'] = f
                        /\ \A v \in Values : JobRef(v, f)' => current'[v] = f
      BY DEF QueuedKnown
    <2>1. CASE Unused(f)'
      BY <2>1 DEF Unused
    <2>2. CASE flight[f] = "Queued"
      <3>1. \A p \in Spots : Fl(p) = f => current[Val(p)] = f
        BY <2>2 DEF ResInv, QueuedKnown
      <3>2. \A v \in Values : JobRef(v, f) => current[v] = f
        BY <2>2 DEF ResInv, QueuedKnown
      <3>3. current' = current
        BY DEF Quiet
      <3>4. \A p \in Spots' : Fl(p)' = f => current[Val(p)'] = f
        <4> SUFFICES ASSUME NEW p \in Spots', Fl(p)' = f PROVE current[Val(p)'] = f
          OBVIOUS
        <4>1. CASE GoesOn(p)
          BY <1>3, <3>1, <4>1
        <4>2. CASE Fresh(p)
          <5>1. Val(p)' \in Values
            BY <1>1 DEF Ranged
          <5>2. current[Val(p)'] = f \/ JobRef(Val(p)', f)
            BY <4>2 DEF Fresh
          <5> QED BY <3>2, <5>1, <5>2
        <4> QED BY <4>1, <4>2 DEF Quiet
      <3>5. \A v \in Values : JobRef(v, f)' => current[v] = f
        <4> SUFFICES ASSUME NEW v \in Values, JobRef(v, f)' PROVE current[v] = f
          OBVIOUS
        <4>1. JobRef(v, f) \/ \E p \in Spots : Val(p) = v /\ Fl(p) = f
          BY DEF Quiet
        <4> QED BY <3>1, <3>2, <4>1
      <3> QED BY <3>3, <3>4, <3>5
    <2> QED BY <1>4, <2>1, <2>2
  <1>11. Tagged'
    <2> SUFFICES ASSUME NEW p \in Spots'
                 PROVE  /\ Pc(p)' \in FlightPcs => Fl(p)' # NoFlight
                        /\ Installing(p)' => handle'[Val(p)'] = "none"
      BY DEF Tagged
    <2>1. Pc(p)' \in FlightPcs => Fl(p)' # NoFlight
      BY DEF Quiet, GoesOn, Fresh
    <2>2. ASSUME Installing(p)' PROVE handle'[Val(p)'] = "none"
      <3>1. p \in Spots /\ Val(p)' = Val(p) /\ Installing(p)
        BY <1>2, <1>3, <2>2
      <3> QED BY <3>1 DEF ResInv, Tagged, Quiet
    <2> QED BY <2>1, <2>2
  <1>12. Unmade'
    <2> SUFFICES ASSUME NEW v \in Values, handle'[v] = "none"
                 PROVE  /\ current'[v] = NoFlight /\ v \notin Entries'
                        /\ \A f \in Flights : ~JobRef(v, f)'
                        /\ \A p \in Spots' : Val(p)' = v => Installing(p)'
                        /\ \A p, q \in Spots' : Val(p)' = v /\ Val(q)' = v => p = q
      BY DEF Unmade
    <2>1. handle[v] = "none" /\ current' = current /\ Entries' = Entries
      BY DEF Quiet
    <2>2. /\ current[v] = NoFlight /\ v \notin Entries
          /\ \A f \in Flights : ~JobRef(v, f)
          /\ \A p \in Spots : Val(p) = v => Installing(p)
          /\ \A p, q \in Spots : Val(p) = v /\ Val(q) = v => p = q
      BY <2>1 DEF ResInv, Unmade
    <2>3. \A p \in Spots' : Val(p)' = v => GoesOn(p)
      BY <2>1 DEF Quiet, Fresh
    <2>4. \A p \in Spots' : Val(p)' = v => p \in Spots /\ Val(p) = v /\ Installing(p)'
      BY <1>3, <2>2, <2>3 DEF GoesOn
    <2>5. \A f \in Flights : ~JobRef(v, f)'
      <3> SUFFICES ASSUME NEW f \in Flights, JobRef(v, f)' PROVE FALSE
        OBVIOUS
      <3>1. PICK p \in Spots : Val(p) = v /\ Fl(p) = f
        BY <2>2 DEF Quiet
      <3> QED BY <1>0, <2>2, <3>1 DEF Installing
    <2> QED BY <2>1, <2>2, <2>4, <2>5
  <1>13. Leaving'
    <2> SUFFICES ASSUME NEW v \in Values, handle'[v] = "dropping"
                 PROVE  /\ current'[v] = NoFlight
                        /\ \A f \in Flights : ~JobRef(v, f)'
                        /\ \A p \in Spots' : Val(p)' # v
      BY DEF Leaving
    <2>1. handle[v] = "dropping" /\ current' = current
      BY DEF Quiet
    <2>2. /\ current[v] = NoFlight
          /\ \A f \in Flights : ~JobRef(v, f)
          /\ \A p \in Spots : Val(p) # v
      BY <2>1 DEF ResInv, Leaving
    <2>3. \A p \in Spots' : Val(p)' # v
      BY <1>3, <2>1, <2>2 DEF Quiet, Fresh
    <2>4. \A f \in Flights : ~JobRef(v, f)'
      BY <2>2 DEF Quiet
    <2> QED BY <2>1, <2>2, <2>3, <2>4
  <1>14. Inserting'
    <2> SUFFICES ASSUME NEW p \in Spots', Pc(p)' = "insert"
                 PROVE  Val(p)' \in resident' /\ Val(p)' \notin Entries'
      BY DEF Inserting
    <2>1. p \in Spots /\ Val(p)' = Val(p) /\ Pc(p) = "insert"
      BY <1>2, <1>3
    <2> QED BY <2>1 DEF ResInv, Inserting, Quiet
  <1>15. Inserted'
    <2> SUFFICES ASSUME NEW v \in resident', v \notin Entries', handle'[v] # "dropping"
                 PROVE  \E p \in Spots' : Pc(p)' = "insert" /\ Val(p)' = v
      BY DEF Inserted
    <2>1. PICK p \in Spots : Pc(p) = "insert" /\ Val(p) = v
      BY DEF ResInv, Inserted, Quiet
    <2>2. p \in Spots' /\ ~Fresh(p)
      BY <2>1 DEF Quiet, Fresh
    <2>3. GoesOn(p)
      BY <2>2 DEF Quiet
    <2> QED BY <2>1, <2>2, <2>3 DEF GoesOn
  <1>16. Entries' \subseteq resident' /\ IsInjective(order)' /\ ResTypeOK' /\ Nested'
    BY DEF ResInv, Quiet
  <1> QED BY <1>5, <1>6, <1>7, <1>8, <1>9, <1>10, <1>11, <1>12, <1>13, <1>14, <1>15, <1>16 DEF ResInv

\* A spot's call is one of the calls.
LEMMA CallsAre ==
  \A p \in Spots : CallAt(p) \in Calls
  <1> TAKE p \in Spots
  <1>1. PICK t \in Threads : \E i \in 1 .. Len(stack[t]) : p = <<t, i>>
    BY SpotsMean
  <1>2. PICK i \in 1 .. Len(stack[t]) : p = <<t, i>>
    BY <1>1
  <1>3. CallAt(p) = stack[t][i]
    BY <1>2 DEF CallAt
  <1>4. CallAt(p) \in CallsOf(t)
    BY <1>3 DEF CallsOf
  <1> QED BY <1>4 DEF Calls

\* A flight that no call, prefetch or value refers to.
LEMMA UnusedIs ==
  \A f : f \notin UsedFlights => Unused(f)
  <1> SUFFICES ASSUME NEW f, f \notin UsedFlights PROVE Unused(f)
    OBVIOUS
  <1>1. \A v \in Values : current[v] # f
    BY DEF UsedFlights
  <1>2. \A c \in Calls \union Jobs : c.flight # f
    BY DEF UsedFlights
  <1>3. \A p \in Spots : CallAt(p) \in Calls
    BY CallsAre
  <1>4. \A i \in 1 .. Len(jobs) : jobs[i] \in Jobs
    BY DEF Jobs
  <1>5. \A p \in Spots : Fl(p) # f
    BY <1>2, <1>3 DEF Fl
  <1>6. \A v \in Values : ~JobRef(v, f)
    BY <1>2, <1>4 DEF JobRef
  <1> QED BY <1>1, <1>5, <1>6 DEF Unused

FlightStates == {"Queued", "Running", "Ok", "Err"}

\* What Freed leaves of the flights.
LEMMA FreedIs ==
  ASSUME NEW next
  PROVE  /\ next \in [Flights -> FlightStates] => Freed(next) \in [Flights -> FlightStates]
         /\ \A f \in Flights : \/ Freed(next)[f] = next[f]
                               \/ Freed(next)[f] = "Queued" /\ Unused(f)'
  <1>1. (\A f : f \notin UsedFlights => Unused(f))'
    BY UnusedIs, PTL
  <1>2. \A f \in Flights : f \in UsedFlights' \/ Unused(f)'
    BY <1>1
  <1> QED BY <1>2 DEF Freed, FlightStates

\* What a quiet step does to the values, the flights and the prefetches: the
\* innermost call of t may queue its own.
Still == UNCHANGED <<order, resident, handle, current>>
FlightsQuiet == flight' \in [Flights -> FlightStates] /\ \A f \in Flights : QuietFlight(f)
JobsKept == jobs' \in Seq(JobType) /\ \A v \in Values, f \in Flights : JobRef(v, f)' => JobRef(v, f)
JobsFrom(t) ==
  /\ jobs' \in Seq(JobType)
  /\ \A v \in Values, f \in Flights :
       JobRef(v, f)' => JobRef(v, f) \/ (v = Top(t).value /\ f = Top(t).flight)

\* A call that stays the same.
LEMMA SameGoesOn ==
  ASSUME Tagged, NEW p \in Spots, Same(p)
  PROVE  GoesOn(p)
  BY DEF Tagged, Same, GoesOn, Own, Known, Early, Installing

FreshCall(c) ==
  /\ handle[c.value] = "held"
  /\ c.pc \notin OwnPcs \union InstallPcs
  /\ c.pc \in FlightPcs => c.flight # NoFlight
  /\ c.flight \in Flights => current[c.value] = c.flight \/ JobRef(c.value, c.flight)

GoesTo(old, new) ==
  /\ new.value = old.value /\ new.flight = old.flight
  /\ new.pc \in OwnPcs => old.pc \in OwnPcs
  /\ new.pc \in KnownPcs => old.pc \in KnownPcs
  /\ new.pc \in EarlyPcs => old.pc \in EarlyPcs
  /\ new.flight = NoFlight => (new.pc \in InstallPcs <=> old.pc \in InstallPcs)
  /\ new.pc = "insert" <=> old.pc = "insert"
  /\ new.pc \in FlightPcs => new.flight # NoFlight

\* A call that begins changes nothing else.
LEMMA BeginQuiet ==
  ASSUME ResInv, NEW t \in Threads, stack[t] = << >>, NEW call \in CallType,
         Begin(t, call), FreshCall(call), Still, flight' = flight, JobsKept
  PROVE  Quiet
  <1>1. StacksTyped /\ Nested /\ Tagged
    BY DEF ResInv, ResTypeOK, StacksTyped
  <1>2. StacksTyped' /\ Nested'
    BY <1>1, BeginView
  <1>3. PICK n : /\ n \notin Spots /\ Spots' = Spots \union {n}
                 /\ Pc(n)' = call.pc /\ Val(n)' = call.value /\ Fl(n)' = call.flight
                 /\ \A q \in Spots : Same(q)
    BY <1>1, BeginView
  <1>4. Fresh(n)
    BY <1>3 DEF FreshCall, Fresh
  <1>5. \A p \in Spots' : GoesOn(p) \/ Fresh(p)
    BY <1>1, <1>3, <1>4, SameGoesOn
  <1>6. ResTypeOK'
    BY <1>2 DEF ResInv, ResTypeOK, StacksTyped, Still, JobsKept
  <1>7. Entries' = Entries /\ IsInjective(order)'
    BY DEF ResInv, Entries, IsInjective, Still
  <1> QED BY <1>2, <1>3, <1>5, <1>6, <1>7 DEF Quiet, QuietFlight, Still, JobsKept

\* The innermost call goes on, or joins a flight, and its flight may be answered.
LEMMA BecomeQuiet ==
  ASSUME ResInv, NEW t \in Threads, stack[t] # << >>, NEW call \in CallType,
         Become(t, call), GoesTo(Top(t), call) \/ (FreshCall(call) /\ Top(t).pc # "insert"),
         Still, FlightsQuiet, JobsFrom(t)
  PROVE  Quiet
  <1>1. StacksTyped /\ Nested /\ Tagged
    BY DEF ResInv, ResTypeOK, StacksTyped
  <1>2. StacksTyped' /\ Nested' /\ Spots' = Spots
    BY <1>1, BecomeView
  <1>3. PICK h : /\ h = Here(t) /\ h \in Spots
                 /\ Pc(h)' = call.pc /\ Val(h)' = call.value /\ Fl(h)' = call.flight
                 /\ \A q \in Spots \ {h} : Same(q)
    BY <1>1, BecomeView
  <1>4. Top(t).pc = Pc(h) /\ Top(t).value = Val(h) /\ Top(t).flight = Fl(h)
    BY <1>1, <1>3, TopIs
  <1>5. GoesOn(h) \/ Fresh(h)
    <2>1. CASE GoesTo(Top(t), call)
      BY <1>3, <1>4, <2>1 DEF GoesTo, GoesOn, Own, Known, Early, Installing
    <2>2. CASE FreshCall(call) /\ Top(t).pc # "insert"
      BY <1>3, <1>4, <2>2 DEF FreshCall, Fresh
    <2> QED BY <2>1, <2>2
  <1>6. \A p \in Spots' : GoesOn(p) \/ Fresh(p)
    BY <1>1, <1>2, <1>3, <1>5, SameGoesOn
  <1>7. ResTypeOK'
    BY <1>2 DEF ResInv, ResTypeOK, StacksTyped, FlightStates, Still, FlightsQuiet, JobsFrom
  <1>8. Entries' = Entries /\ IsInjective(order)'
    BY DEF ResInv, Entries, IsInjective, Still
  <1> QED BY <1>2, <1>3, <1>4, <1>6, <1>7, <1>8 DEF Quiet, Still, FlightsQuiet, JobsFrom

\* The innermost call returns, and flights may be freed.
LEMMA ReturnQuiet ==
  ASSUME ResInv, NEW t \in Threads, stack[t] # << >>, Return(t), Top(t).pc # "insert",
         UNCHANGED <<resident, handle, current>>, JobsKept,
         order' \in Seq(Values), Entries' = Entries, IsInjective(order)', FlightsQuiet
  PROVE  Quiet
  <1>1. StacksTyped /\ Nested /\ Tagged
    BY DEF ResInv, ResTypeOK, StacksTyped
  <1>2. PICK h : h = Here(t)
    OBVIOUS
  <1>3. StacksTyped' /\ Nested' /\ h \in Spots /\ Spots' = Spots \ {h} /\ \A q \in Spots' : Same(q)
    BY <1>1, <1>2, ReturnView
  <1>4. Pc(h) # "insert"
    BY <1>1, <1>2, TopIs
  <1>5. \A p \in Spots' : GoesOn(p) \/ Fresh(p)
    BY <1>1, <1>3, SameGoesOn
  <1>6. ResTypeOK'
    BY <1>3 DEF ResInv, ResTypeOK, StacksTyped, FlightStates, FlightsQuiet, JobsKept
  <1> QED BY <1>3, <1>4, <1>5, <1>6 DEF Quiet, FlightsQuiet, JobsKept

-----------------------------------------------------------------------------
(* The quiet steps *)

\* What the invariant says of the innermost call.
LEMMA TopHeld ==
  ASSUME ResInv, NEW t \in Threads, stack[t] # << >>
  PROVE  /\ Top(t) \in CallType
         /\ (Top(t).pc \in InstallPcs /\ Top(t).flight = NoFlight) \/ handle[Top(t).value] = "held"
         /\ Top(t).pc \in FlightPcs => Top(t).flight # NoFlight
  <1>1. StacksTyped
    BY DEF ResInv, ResTypeOK, StacksTyped
  <1>2. PICK h : h = Here(t)
    OBVIOUS
  <1>3. /\ h \in Spots /\ Top(t) \in CallType
        /\ Top(t).pc = Pc(h) /\ Top(t).value = Val(h) /\ Top(t).flight = Fl(h)
    BY <1>1, <1>2, TopIs
  <1>4. Installing(h) \/ handle[Val(h)] = "held"
    BY <1>3, CallsHeld
  <1> QED BY <1>3, <1>4 DEF ResInv, Tagged, Installing

\* The innermost call at another place.
LEMMA GotoIs ==
  ASSUME NEW t, NEW where \in Pcs, Top(t) \in CallType
  PROVE  /\ [Top(t) EXCEPT !.pc = where] \in CallType
         /\ [Top(t) EXCEPT !.pc = where].pc = where
         /\ [Top(t) EXCEPT !.pc = where].value = Top(t).value
         /\ [Top(t) EXCEPT !.pc = where].flight = Top(t).flight
  BY DEF CallType

LEMMA GotoQuiet ==
  ASSUME ResInv, NEW t \in Threads, stack[t] # << >>, NEW where \in Pcs, Goto(t, where),
         where \in OwnPcs => Top(t).pc \in OwnPcs,
         where \in KnownPcs => Top(t).pc \in KnownPcs,
         where \in EarlyPcs => Top(t).pc \in EarlyPcs,
         Top(t).flight = NoFlight => (where \in InstallPcs <=> Top(t).pc \in InstallPcs),
         where = "insert" <=> Top(t).pc = "insert",
         where \in FlightPcs => Top(t).flight # NoFlight,
         Still, FlightsQuiet, JobsFrom(t)
  PROVE  Quiet
  <1>1. PICK call : call = [Top(t) EXCEPT !.pc = where]
    OBVIOUS
  <1>2. Top(t) \in CallType
    BY TopHeld
  <1>3. /\ call \in CallType /\ call.pc = where
        /\ call.value = Top(t).value /\ call.flight = Top(t).flight
    BY <1>1, <1>2, GotoIs
  <1>4. Become(t, call)
    BY <1>1 DEF Goto
  <1>5. GoesTo(Top(t), call)
    BY <1>3 DEF GoesTo
  <1>6. call \in CallType
    BY <1>3
  <1> QED BY <1>4, <1>5, <1>6, BecomeQuiet

\* The flights stay.
LEMMA StillFlights ==
  ASSUME ResInv, flight' = flight
  PROVE  FlightsQuiet
  BY DEF ResInv, ResTypeOK, FlightStates, FlightsQuiet, QuietFlight

\* The flights stay, but for those that go with their last reference.
LEMMA FreedFlights ==
  ASSUME ResInv, flight' = Freed(flight)
  PROVE  FlightsQuiet
  <1>1. PICK next : next = flight
    OBVIOUS
  <1>2. next \in [Flights -> FlightStates] /\ flight' = Freed(next)
    BY <1>1 DEF ResInv, ResTypeOK, FlightStates
  <1>3. \A f \in Flights : flight'[f] = flight[f] \/ (flight'[f] = "Queued" /\ Unused(f)')
    <2>1. \A f \in Flights : Freed(next)[f] = next[f] \/ (Freed(next)[f] = "Queued" /\ Unused(f)')
      BY FreedIs
    <2> QED BY <1>1, <1>2, <2>1
  <1>4. flight' \in [Flights -> FlightStates]
    BY <1>2, FreedIs
  <1> QED BY <1>3, <1>4 DEF FlightsQuiet, QuietFlight

\* The prefetches stay.
LEMMA StillJobs ==
  ASSUME ResInv, jobs' = jobs
  PROVE  JobsKept /\ \A t : JobsFrom(t)
  <1>1. jobs' \in Seq(JobType)
    BY DEF ResInv, ResTypeOK
  <1>2. \A v, f : JobRef(v, f)' => JobRef(v, f)
    BY DEF JobRef
  <1>3. JobsKept
    BY <1>1, <1>2 DEF JobsKept
  <1>4. \A t : JobsFrom(t)
    BY <1>1, <1>2 DEF JobsFrom
  <1> QED BY <1>3, <1>4

LEMMA GetCallIs ==
  ASSUME NEW v \in Values, handle[v] = "held"
  PROVE  GetCall(v) \in CallType /\ (NoFlight \notin Flights => FreshCall(GetCall(v)))
  BY DEF GetCall, Call, CallType, FreshCall, Pcs, OwnPcs, FlightPcs, InstallPcs

LEMMA GetQuiet ==
  ASSUME ResInv, ResidencyAssumption, NEW t \in Callers, NEW v \in Values, Get(t, v)
  PROVE  Quiet
  <1>1. t \in Threads /\ stack[t] = << >> /\ handle[v] = "held" /\ Begin(t, GetCall(v))
    BY DEF Get, Threads
  <1>2. Still /\ UNCHANGED <<flight, jobs>>
    BY DEF Get, cacheVars, valueVars, flightVars, Still
  <1>3. PICK call : call = GetCall(v)
    OBVIOUS
  <1>4. call \in CallType /\ FreshCall(call)
    BY <1>1, <1>3, GetCallIs DEF ResidencyAssumption, Flights
  <1> QED BY <1>1, <1>2, <1>3, <1>4, BeginQuiet, StillJobs

LEMMA PrefetchQuiet ==
  ASSUME ResInv, ResidencyAssumption, NEW t \in Callers, NEW v \in Values, Prefetch(t, v)
  PROVE  Quiet
  <1>1. PICK call : call = Call(IF v \in resident THEN "prefetched" ELSE "prefetch", v, NoFlight)
    OBVIOUS
  <1>2. t \in Threads /\ stack[t] = << >> /\ handle[v] = "held" /\ Begin(t, call)
    BY <1>1 DEF Prefetch, Threads
  <1>3. Still /\ UNCHANGED <<flight, jobs>>
    BY DEF Prefetch, cacheVars, valueVars, flightVars, Still
  <1>4. call \in CallType /\ FreshCall(call)
    BY <1>1, <1>2 DEF ResidencyAssumption, Flights, Call, CallType, FreshCall,
                      Pcs, OwnPcs, FlightPcs, InstallPcs
  <1> QED BY <1>2, <1>3, <1>4, BeginQuiet, StillJobs

\* Moving a value to the end of the order, or putting it there.
LEMMA Moved ==
  ASSUME NEW s \in Seq(Values), NEW v \in Values, IsInjective(s)
  PROVE  /\ Append(Without(s, v), v) \in Seq(Values)
         /\ IsInjective(Append(Without(s, v), v))
         /\ ToSet(Append(Without(s, v), v)) = ToSet(s) \union {v}
  <1>1. PICK r : r = Without(s, v)
    OBVIOUS
  <1>2. r \in Seq(Values) /\ IsInjective(r) /\ ToSet(r) = ToSet(s) \ {v}
    BY <1>1, WithoutOthers
  <1>3. Append(r, v) \in Seq(Values)
    BY <1>2, AppendProperties
  <1>4. v \notin ToSet(r)
    BY <1>2
  <1>5. IsInjective(Append(r, v)) /\ ToSet(Append(r, v)) = ToSet(r) \union {v}
    BY <1>2, <1>4, PushDistinct
  <1>6. ToSet(r) \union {v} = ToSet(s) \union {v}
    BY <1>2
  <1> QED BY <1>1, <1>3, <1>5, <1>6

LEMMA EntriesAre ==
  ASSUME order \in Seq(Values) PROVE Entries = ToSet(order)
  BY LenProperties DEF Entries, ToSet

LEMMA TouchQuiet ==
  ASSUME ResInv, NEW t \in Threads, Touch(t)
  PROVE  Quiet
  <1>1. stack[t] # << >> /\ Top(t).pc = "touch" /\ order' = Touched(Top(t).value) /\ Return(t)
    BY DEF Touch, At
  <1>2. UNCHANGED <<resident, handle, current, jobs, flight>>
    BY DEF Touch, valueVars, flightVars
  <1>3. PICK v : v = Top(t).value
    OBVIOUS
  <1>4. v \in Values
    BY <1>1, <1>3, TopHeld DEF CallType
  <1>5. order \in Seq(Values) /\ IsInjective(order) /\ Entries = ToSet(order)
    BY EntriesAre DEF ResInv, ResTypeOK
  <1>6. order' \in Seq(Values) /\ IsInjective(order') /\ ToSet(order') = ToSet(order)
    <2>1. CASE v \in Entries
      <3>1. order' = Append(Without(order, v), v)
        BY <1>1, <1>3, <2>1 DEF Touched
      <3>2. /\ order' \in Seq(Values) /\ IsInjective(order')
            /\ ToSet(order') = ToSet(order) \union {v}
        BY <1>4, <1>5, <3>1, Moved
      <3>3. v \in ToSet(order)
        BY <1>5, <2>1
      <3> QED BY <3>2, <3>3
    <2>2. CASE v \notin Entries
      BY <1>1, <1>3, <1>5, <2>2 DEF Touched
    <2> QED BY <2>1, <2>2
  <1>7. Entries' = Entries
    <2>1. (order \in Seq(Values) => Entries = ToSet(order))'
      BY EntriesAre, PTL
    <2>2. Entries' = ToSet(order')
      BY <1>6, <2>1
    <2> QED BY <1>5, <1>6, <2>2
  <1>8. IsInjective(order)'
    BY <1>6
  <1>9. FlightsQuiet
    BY <1>2, StillFlights
  <1>10. Top(t).pc # "insert"
    BY <1>1
  <1> QED BY <1>1, <1>2, <1>6, <1>7, <1>8, <1>9, <1>10, ReturnQuiet, StillJobs

\* join finds the flight, or the value.
LEMMA JoinQuiet ==
  ASSUME ResInv, ResidencyAssumption, NEW t \in Threads,
         GetJoin(t) \/ PrefetchJoin(t),
         current[Top(t).value] # NoFlight \/ Top(t).value \in resident
  PROVE  Quiet
  <1>1. PICK existing \in {"claim", "prefetched"}, present \in {"touch", "prefetched"},
             created \in {"claim", "send"} : Join(t, existing, present, created)
    BY DEF GetJoin, PrefetchJoin
  <1>2. stack[t] # << >> /\ Top(t).pc \in {"join", "prefetch"}
    BY DEF GetJoin, PrefetchJoin, At
  <1>3. UNCHANGED <<order, resident, handle, jobs>>
    BY DEF GetJoin, PrefetchJoin, cacheVars, valueVars
  <1>4. /\ Top(t) \in CallType /\ Top(t).value \in Values /\ handle[Top(t).value] = "held"
    BY <1>2, TopHeld DEF CallType, InstallPcs
  <1>5. JobsFrom(t)
    BY <1>3, StillJobs
  <1>6. CASE current[Top(t).value] # NoFlight
    <2>1. PICK v : v = Top(t).value
      OBVIOUS
    <2>2. PICK call : call = Call(existing, v, current[v])
      OBVIOUS
    <2>3. Become(t, call) /\ UNCHANGED <<current, flight>>
      BY <1>1, <1>6, <2>1, <2>2 DEF Join, flightVars
    <2>4. current[v] \in Flights
      BY <1>4, <1>6, <2>1 DEF ResInv, ResTypeOK
    <2>5. call \in CallType
      BY <1>4, <2>1, <2>2, <2>4 DEF Call, CallType, Pcs, FlightPcs
    <2>6. FreshCall(call)
      BY <1>4, <1>6, <2>1, <2>2 DEF Call, FreshCall, OwnPcs, InstallPcs
    <2>7. Still /\ FlightsQuiet
      BY <1>3, <2>3, StillFlights DEF Still
    <2>8. Top(t).pc # "insert"
      BY <1>2
    <2> QED BY <1>2, <1>5, <2>3, <2>5, <2>6, <2>7, <2>8, BecomeQuiet
  <1>7. CASE current[Top(t).value] = NoFlight /\ Top(t).value \in resident
    <2>1. Goto(t, present) /\ UNCHANGED <<current, flight>>
      BY <1>1, <1>7 DEF Join, flightVars
    <2>2. Still /\ FlightsQuiet
      BY <1>3, <2>1, StillFlights DEF Still
    <2>3. /\ present \in Pcs /\ present \notin OwnPcs \union FlightPcs \union InstallPcs
          /\ present \notin KnownPcs /\ present \notin EarlyPcs /\ present # "insert"
          /\ Top(t).pc \notin InstallPcs /\ Top(t).pc # "insert"
      BY <1>2 DEF Pcs, OwnPcs, FlightPcs, InstallPcs, KnownPcs, EarlyPcs
    <2> QED BY <1>2, <1>5, <2>1, <2>2, <2>3, GotoQuiet
  <1> QED BY <1>6, <1>7

LEMMA SendQuiet ==
  ASSUME ResInv, ResidencyAssumption, NEW t \in Threads, Send(t)
  PROVE  Quiet
  <1>1. stack[t] # << >> /\ Top(t).pc = "send"
    BY DEF Send, At
  <1>2. UNCHANGED <<order, resident, handle, current, flight>>
    BY DEF Send, cacheVars, valueVars, flightVars
  <1>3. FlightsQuiet /\ Still
    BY <1>2, StillFlights DEF Still
  <1>4. CASE Loaders = dead
    <2>1. Return(t) /\ jobs' = jobs
      BY <1>4 DEF Send
    <2>2. order' \in Seq(Values) /\ Entries' = Entries /\ IsInjective(order)' /\ Top(t).pc # "insert"
      BY <1>1, <1>2 DEF ResInv, ResTypeOK, Entries, IsInjective
    <2> QED BY <1>1, <1>2, <1>3, <2>1, <2>2, ReturnQuiet, StillJobs
  <1>5. CASE Loaders # dead
    <2>1. Goto(t, "prefetched") /\ jobs' = Append(jobs, Call("claim", Top(t).value, Top(t).flight))
      BY <1>5 DEF Send
    <2>2. PICK job : job = Call("claim", Top(t).value, Top(t).flight)
      OBVIOUS
    <2>3. Top(t) \in CallType /\ Top(t).flight # NoFlight
      BY <1>1, TopHeld DEF FlightPcs
    <2>4. job \in JobType /\ job.value = Top(t).value /\ job.flight = Top(t).flight
      BY <2>2, <2>3 DEF Call, CallType, JobType
    <2>5. jobs \in Seq(JobType) /\ jobs' = Append(jobs, job)
      BY <2>1, <2>2 DEF ResInv, ResTypeOK
    <2>6. /\ jobs' \in Seq(JobType) /\ Len(jobs') = Len(jobs) + 1 /\ jobs'[Len(jobs) + 1] = job
          /\ \A i \in 1 .. Len(jobs) : jobs'[i] = jobs[i]
      BY <2>4, <2>5, AppendProperties
    <2>7. Len(jobs) \in Nat
      BY <2>5, LenProperties
    <2>8. \A v, f : JobRef(v, f)' => JobRef(v, f) \/ (v = Top(t).value /\ f = Top(t).flight)
      <3> SUFFICES ASSUME NEW v, NEW f, JobRef(v, f)',
                          ~(v = Top(t).value /\ f = Top(t).flight)
                   PROVE  JobRef(v, f)
        OBVIOUS
      <3>1. PICK i \in 1 .. Len(jobs') : jobs'[i].value = v /\ jobs'[i].flight = f
        BY DEF JobRef
      <3>2. i # Len(jobs) + 1
        BY <2>4, <2>6, <3>1
      <3>3. i \in 1 .. Len(jobs)
        BY <2>6, <2>7, <3>1, <3>2
      <3> QED BY <2>6, <3>1, <3>3 DEF JobRef
    <2>9. JobsFrom(t)
      BY <2>6, <2>8 DEF JobsFrom
    <2>10. /\ "prefetched" \in Pcs /\ "prefetched" \notin OwnPcs \union FlightPcs \union InstallPcs
           /\ "prefetched" \notin KnownPcs /\ "prefetched" \notin EarlyPcs /\ "prefetched" # "insert"
           /\ Top(t).pc \notin InstallPcs /\ Top(t).pc # "insert"
      BY <1>1 DEF Pcs, OwnPcs, FlightPcs, InstallPcs, KnownPcs, EarlyPcs
    <2> QED BY <1>1, <1>3, <2>1, <2>9, <2>10, GotoQuiet
  <1> QED BY <1>4, <1>5

LEMMA PrefetchWaitQuiet ==
  ASSUME ResInv, ResidencyAssumption, NEW t \in Threads, PrefetchWait(t)
  PROVE  Quiet
  <1>1. stack[t] # << >> /\ Top(t).pc = "prefetched"
    BY DEF PrefetchWait, At
  <1>2. Still /\ UNCHANGED <<flight, jobs>>
    BY DEF PrefetchWait, cacheVars, valueVars, flightVars, Still
  <1>3. FlightsQuiet /\ JobsFrom(t)
    BY <1>2, StillFlights, StillJobs
  <1>4. CASE Top(t).flight # NoFlight
    <2>1. Goto(t, "claim")
      BY <1>4 DEF PrefetchWait
    <2>2. /\ "claim" \in Pcs /\ "claim" \notin OwnPcs \union InstallPcs
          /\ "claim" \notin KnownPcs /\ "claim" \notin EarlyPcs /\ "claim" # "insert"
          /\ Top(t).pc # "insert"
      BY <1>1 DEF Pcs, OwnPcs, FlightPcs, InstallPcs, KnownPcs, EarlyPcs
    <2> QED BY <1>1, <1>2, <1>3, <1>4, <2>1, <2>2, GotoQuiet
  <1>5. CASE Top(t).flight = NoFlight
    <2>1. PICK call : call = GetCall(Top(t).value)
      OBVIOUS
    <2>2. Become(t, call)
      BY <1>5, <2>1 DEF PrefetchWait
    <2>3. handle[Top(t).value] = "held" /\ Top(t).value \in Values
      BY <1>1, TopHeld DEF CallType, InstallPcs
    <2>4. call \in CallType /\ FreshCall(call)
      BY <2>1, <2>3, GetCallIs DEF ResidencyAssumption, Flights
    <2>5. Top(t).pc # "insert"
      BY <1>1
    <2> QED BY <1>1, <1>2, <1>3, <2>2, <2>4, <2>5, BecomeQuiet
  <1> QED BY <1>4, <1>5

\* The answer is there, or nobody waits for it.
LEMMA LeaveQuiet ==
  ASSUME ResInv, NEW t \in Threads, PrefetchDrop(t) \/ Wait(t)
  PROVE  Quiet
  <1>1. stack[t] # << >> /\ Top(t).pc # "insert" /\ Return(t) /\ flight' = Freed(flight)
    BY DEF PrefetchDrop, Wait, At
  <1>2. UNCHANGED <<order, resident, handle, current, jobs>>
    BY DEF PrefetchDrop, Wait, cacheVars, valueVars
  <1>3. FlightsQuiet
    BY <1>1, FreedFlights
  <1>4. order' \in Seq(Values) /\ Entries' = Entries /\ IsInjective(order)'
    BY <1>2 DEF ResInv, ResTypeOK, Entries, IsInjective
  <1> QED BY <1>1, <1>2, <1>3, <1>4, ReturnQuiet, StillJobs

LEMMA LoaderTakeQuiet ==
  ASSUME ResInv, ResidencyAssumption, NEW t \in Threads, LoaderTake(t)
  PROVE  Quiet
  <1>1. PICK call : call = Head(jobs)
    OBVIOUS
  <1>2. stack[t] = << >> /\ jobs # << >> /\ jobs' = Tail(jobs) /\ Begin(t, call)
    BY <1>1 DEF LoaderTake
  <1>3. Still /\ flight' = flight
    BY DEF LoaderTake, cacheVars, valueVars, flightVars, Still
  <1>4. jobs \in Seq(JobType)
    BY DEF ResInv, ResTypeOK
  <1>5. /\ jobs' \in Seq(JobType) /\ call = jobs[1] /\ call \in JobType
        /\ Len(jobs) \in Nat \ {0} /\ Len(jobs') = Len(jobs) - 1
        /\ \A i \in 1 .. Len(jobs) - 1 : jobs'[i] = jobs[i + 1]
    <2>1. Head(jobs) = jobs[1] /\ Head(jobs) \in JobType
      BY <1>2, <1>4, EmptySeq, HeadTailProperties, LenProperties
    <2>2. /\ Tail(jobs) \in Seq(JobType) /\ Len(Tail(jobs)) = Len(jobs) - 1
          /\ \A i \in 1 .. Len(Tail(jobs)) : Tail(jobs)[i] = jobs[i + 1]
      BY <1>2, <1>4, HeadTailProperties
    <2>3. Len(jobs) \in Nat \ {0}
      BY <1>2, <1>4, LenProperties, EmptySeq
    <2> QED BY <1>1, <1>2, <2>1, <2>2, <2>3
  <1>6. \A v, f : JobRef(v, f)' => JobRef(v, f)
    <2> SUFFICES ASSUME NEW v, NEW f, JobRef(v, f)' PROVE JobRef(v, f)
      OBVIOUS
    <2>1. PICK i \in 1 .. Len(jobs') : jobs'[i].value = v /\ jobs'[i].flight = f
      BY DEF JobRef
    <2>2. i \in 1 .. Len(jobs) - 1 /\ i + 1 \in 1 .. Len(jobs)
      BY <1>5, <2>1
    <2> QED BY <1>5, <2>1, <2>2 DEF JobRef
  <1>7. call \in CallType /\ call.pc = "claim" /\ call.value \in Values /\ call.flight \in Flights
    BY <1>5 DEF JobType, CallType, Pcs, FlightPcs
  <1>8. JobRef(call.value, call.flight)
    <2>1. 1 \in 1 .. Len(jobs)
      BY <1>5
    <2> QED BY <1>5, <2>1 DEF JobRef
  <1>9. handle[call.value] = "held"
    BY <1>7, <1>8, CallsHeld
  <1>10. FreshCall(call)
    BY <1>7, <1>8, <1>9 DEF FreshCall, OwnPcs, InstallPcs, ResidencyAssumption, Flights
  <1>11. JobsKept
    BY <1>5, <1>6 DEF JobsKept
  <1> QED BY <1>2, <1>3, <1>7, <1>10, <1>11, BeginQuiet

\* Somebody has run the flight.
LEMMA ClaimedQuiet ==
  ASSUME ResInv, NEW t \in Threads, Claim(t), flight[Top(t).flight] # "Queued"
  PROVE  Quiet
  <1>1. stack[t] # << >> /\ Top(t).pc = "claim" /\ flight' = Freed(flight)
    BY DEF Claim, At
  <1>2. UNCHANGED <<order, resident, handle, current, jobs>>
    BY DEF Claim, cacheVars, valueVars
  <1>3. FlightsQuiet /\ Still /\ JobsFrom(t)
    BY <1>1, <1>2, FreedFlights, StillJobs DEF Still
  <1>4. CASE Return(t)
    <2>1. order' \in Seq(Values) /\ Entries' = Entries /\ IsInjective(order)' /\ Top(t).pc # "insert"
      BY <1>1, <1>2 DEF ResInv, ResTypeOK, Entries, IsInjective
    <2> QED BY <1>1, <1>2, <1>3, <1>4, <2>1, ReturnQuiet, StillJobs
  <1>5. CASE Goto(t, "wait")
    <2>1. /\ "wait" \in Pcs /\ "wait" \notin OwnPcs \union InstallPcs
          /\ "wait" \notin KnownPcs /\ "wait" \notin EarlyPcs /\ "wait" # "insert"
          /\ Top(t).pc # "insert"
      BY <1>1 DEF Pcs, OwnPcs, FlightPcs, InstallPcs, KnownPcs, EarlyPcs
    <2>2. Top(t).flight # NoFlight
      BY <1>1, TopHeld DEF FlightPcs
    <2> QED BY <1>1, <1>3, <1>5, <2>1, <2>2, GotoQuiet
  <1> QED BY <1>4, <1>5 DEF Claim

LEMMA RebuildQuiet ==
  ASSUME ResInv, ResidencyAssumption, NEW t \in Threads, Rebuild(t)
  PROVE  Quiet
  <1>1. stack[t] # << >> /\ Top(t).pc = "rebuild"
    BY DEF Rebuild, At
  <1>2. StacksTyped /\ Nested /\ Tagged
    BY DEF ResInv, ResTypeOK, StacksTyped
  <1>3. PICK v \in Needs[Top(t).value] :
          /\ handle[v] = "held"
          /\ stack' = [stack EXCEPT ![t] =
               Front(@) \o <<[Last(@) EXCEPT !.pc = "rebuilt"], GetCall(v)>>]
    BY DEF Rebuild
  <1>4. UNCHANGED <<order, resident, handle, current, flight, jobs>>
    BY DEF Rebuild, cacheVars, valueVars, flightVars
  <1>5. Top(t) \in CallType /\ Top(t).value \in Values /\ Top(t).flight # NoFlight
    BY <1>1, TopHeld DEF CallType, FlightPcs
  <1>6. v \in Values
    BY <1>3, <1>5 DEF ResidencyAssumption
  <1>7. PICK outer : outer = [Top(t) EXCEPT !.pc = "rebuilt"]
    OBVIOUS
  <1>8. PICK inner : inner = GetCall(v)
    OBVIOUS
  <1>9. /\ outer \in CallType /\ outer.pc = "rebuilt"
        /\ outer.value = Top(t).value /\ outer.flight = Top(t).flight
    <2>1. "rebuilt" \in Pcs
      BY DEF Pcs, OwnPcs
    <2> QED BY <1>5, <1>7, <2>1, GotoIs
  <1>10. inner \in CallType /\ FreshCall(inner)
    BY <1>3, <1>6, <1>8, GetCallIs DEF ResidencyAssumption, Flights
  <1>11. stack' = [stack EXCEPT ![t] = Front(@) \o <<outer, inner>>]
    BY <1>3, <1>7, <1>8 DEF Top
  <1>12. StacksTyped' /\ Nested'
    BY <1>1, <1>2, <1>9, <1>10, <1>11, PushView
  <1>13. PICK h, n : /\ h = Here(t) /\ h \in Spots /\ n \notin Spots /\ Spots' = Spots \union {n}
                     /\ Pc(h)' = outer.pc /\ Val(h)' = outer.value /\ Fl(h)' = outer.flight
                     /\ Pc(n)' = inner.pc /\ Val(n)' = inner.value /\ Fl(n)' = inner.flight
                     /\ \A q \in Spots \ {h} : Same(q)
    BY <1>1, <1>2, <1>9, <1>10, <1>11, PushView
  <1>14. Top(t).pc = Pc(h) /\ Top(t).value = Val(h) /\ Top(t).flight = Fl(h)
    BY <1>1, <1>2, <1>13, TopIs
  <1>15. GoesOn(h)
    BY <1>1, <1>5, <1>9, <1>13, <1>14
       DEF GoesOn, Own, Known, Early, Installing, OwnPcs, KnownPcs, EarlyPcs, InstallPcs
  <1>16. Fresh(n)
    BY <1>10, <1>13 DEF FreshCall, Fresh
  <1>17. \A p \in Spots' : GoesOn(p) \/ Fresh(p)
    BY <1>2, <1>13, <1>15, <1>16, SameGoesOn
  <1>18. FlightsQuiet /\ JobsKept
    BY <1>4, StillFlights, StillJobs
  <1>19. ResTypeOK'
    BY <1>4, <1>12 DEF ResInv, ResTypeOK, StacksTyped
  <1>20. Entries' = Entries /\ IsInjective(order)'
    BY <1>4 DEF ResInv, Entries, IsInjective
  <1> QED BY <1>4, <1>12, <1>13, <1>17, <1>18, <1>19, <1>20 DEF Quiet, FlightsQuiet, JobsKept

LEMMA RebuildEndsQuiet ==
  ASSUME ResInv, NEW t \in Threads, RebuildEnds(t)
  PROVE  Quiet
  <1>1. stack[t] # << >> /\ Top(t).pc \in {"rebuilt", "rebuild"}
    BY DEF RebuildEnds, At
  <1>2. Still /\ UNCHANGED <<flight, jobs>>
    BY DEF RebuildEnds, cacheVars, valueVars, flightVars, Still
  <1>3. PICK next \in {"install", "failed", "panicked"} : Goto(t, next)
    BY DEF RebuildEnds
  <1>4. Top(t).flight # NoFlight
    BY <1>1, TopHeld DEF FlightPcs
  <1>5. /\ next \in Pcs /\ next # "insert" /\ Top(t).pc # "insert"
        /\ Top(t).pc \in OwnPcs /\ Top(t).pc \in KnownPcs /\ Top(t).pc \in EarlyPcs
    BY <1>1 DEF Pcs, OwnPcs, KnownPcs, EarlyPcs
  <1>6. FlightsQuiet /\ JobsFrom(t)
    BY <1>2, StillFlights, StillJobs
  <1> QED BY <1>1, <1>2, <1>3, <1>4, <1>5, <1>6, GotoQuiet

\* The owner answers its flight, which is nobody else's.
LEMMA PublishQuiet ==
  ASSUME ResInv, NEW t \in Threads, Publish(t)
  PROVE  Quiet
  <1>1. PICK answer \in {"Ok", "Err"} : flight' = [flight EXCEPT ![Top(t).flight] = answer]
    BY DEF Publish, Answered
  <1>2. stack[t] # << >> /\ Top(t).pc \in {"landing", "failing"} /\ Goto(t, "wait")
    BY DEF Publish, At
  <1>3. UNCHANGED <<order, resident, handle, current, jobs>>
    BY DEF Publish, cacheVars, valueVars
  <1>4. Top(t) \in CallType /\ Top(t).flight # NoFlight
    BY <1>2, TopHeld DEF FlightPcs
  <1>5. PICK f : f = Top(t).flight
    OBVIOUS
  <1>6. f \in Flights
    BY <1>4, <1>5 DEF CallType
  <1>7. StacksTyped /\ Nested
    BY DEF ResInv, ResTypeOK, StacksTyped
  <1>8. PICK call : call = [Top(t) EXCEPT !.pc = "wait"]
    OBVIOUS
  <1>9. call \in CallType /\ call.pc = "wait" /\ Become(t, call)
    <2>1. "wait" \in Pcs
      BY DEF Pcs, FlightPcs
    <2>2. Become(t, call)
      BY <1>2, <1>8 DEF Goto
    <2> QED BY <1>4, <1>8, <2>1, <2>2, GotoIs
  <1>10. Spots' = Spots
    BY <1>2, <1>7, <1>9, BecomeView
  <1>11. PICK h : /\ h = Here(t) /\ h \in Spots
                  /\ Pc(h)' = call.pc /\ Val(h)' = call.value /\ Fl(h)' = call.flight
                  /\ \A q \in Spots \ {h} : Same(q)
    BY <1>2, <1>7, <1>9, BecomeView
  <1>12. Own(h) /\ Fl(h) = f
    <2>1. Top(t).pc = Pc(h) /\ Top(t).flight = Fl(h)
      BY <1>2, <1>7, <1>11, TopIs
    <2> QED BY <1>2, <1>4, <1>5, <2>1 DEF Own, OwnPcs
  <1>13. \A p \in Spots' : Own(p)' => Fl(p)' # f
    <2> SUFFICES ASSUME NEW p \in Spots, Own(p)', Fl(p)' = f PROVE FALSE
      BY <1>10
    <2>1. p # h
      BY <1>9, <1>11 DEF Own, OwnPcs
    <2>2. Own(p) /\ Fl(p) = f
      BY <1>11, <2>1 DEF Same, Own
    <2> QED BY <1>11, <1>12, <2>1, <2>2 DEF ResInv, OwnersAlone
  <1>14. FlightsQuiet
    <2>1. flight \in [Flights -> FlightStates]
      BY DEF ResInv, ResTypeOK, FlightStates
    <2>2. /\ flight' \in [Flights -> FlightStates] /\ flight'[f] # "Queued"
          /\ \A g \in Flights \ {f} : flight'[g] = flight[g]
      BY <1>1, <1>5, <1>6, <2>1 DEF FlightStates
    <2>3. \A g \in Flights : QuietFlight(g)
      BY <1>13, <2>2 DEF QuietFlight
    <2> QED BY <2>2, <2>3 DEF FlightsQuiet
  <1>15. /\ "wait" \in Pcs /\ "wait" \notin OwnPcs \union InstallPcs
         /\ "wait" \notin KnownPcs /\ "wait" \notin EarlyPcs /\ "wait" # "insert"
         /\ Top(t).pc # "insert"
    BY <1>2 DEF Pcs, OwnPcs, FlightPcs, InstallPcs, KnownPcs, EarlyPcs
  <1>16. Still /\ JobsFrom(t)
    BY <1>3, StillJobs DEF Still
  <1> QED BY <1>2, <1>4, <1>14, <1>15, <1>16, GotoQuiet

\* A panic answers the flight and ends the call, and the rebuild around it panics.
LEMMA UnwindQuiet ==
  ASSUME ResInv, NEW t \in Threads, Unwind(t)
  PROVE  Quiet
  <1>1. stack[t] # << >> /\ Top(t).pc = "panicking"
    BY DEF Unwind, At
  <1>2. UNCHANGED <<order, resident, handle, current>>
    BY DEF Unwind, cacheVars, valueVars
  <1>3. Top(t) \in CallType /\ Top(t).flight # NoFlight
    BY <1>1, TopHeld DEF FlightPcs
  <1>4. PICK f : f = Top(t).flight
    OBVIOUS
  <1>5. f \in Flights
    BY <1>3, <1>4 DEF CallType
  <1>6. StacksTyped /\ Nested /\ Tagged
    BY DEF ResInv, ResTypeOK, StacksTyped
  <1>7. PICK h : h = Here(t)
    OBVIOUS
  <1>8. /\ h \in Spots /\ Own(h) /\ Fl(h) = f /\ Pc(h) = "panicking"
    BY <1>1, <1>3, <1>4, <1>6, <1>7, TopIs DEF Own, OwnPcs
  <1>9. /\ StacksTyped' /\ Nested' /\ Spots' = Spots \ {h}
        /\ \A p \in Spots' : GoesOn(p)
    <2>1. CASE Len(stack[t]) = 1
      <3>1. stack[t] \in Seq(CallType)
        BY <1>6 DEF StacksTyped
      <3>2. Front(stack[t]) = << >>
        <4>1. Front(stack[t]) \in Seq(CallType) /\ Len(Front(stack[t])) = 0
          BY <1>1, <2>1, <3>1, FrontLast
        <4> QED BY <4>1, EmptySeq
      <3>3. stack' = [stack EXCEPT ![t] = << >>]
        BY <2>1 DEF Unwind
      <3>4. Return(t)
        BY <3>2, <3>3 DEF Return
      <3>5. StacksTyped' /\ Nested' /\ Spots' = Spots \ {h} /\ \A q \in Spots' : Same(q)
        BY <1>1, <1>6, <1>7, <3>4, ReturnView
      <3> QED BY <1>6, <3>5, SameGoesOn
    <2>2. CASE Len(stack[t]) # 1
      <3>1. stack' = [stack EXCEPT ![t] =
                        Append(Front(Front(@)), [Last(Front(@)) EXCEPT !.pc = "panicked"])]
        BY <2>2 DEF Unwind
      <3>2. StacksTyped' /\ Nested' /\ Spots' = Spots \ {h}
        BY <1>1, <1>6, <1>7, <2>2, <3>1, UnwindView
      <3>3. PICK g \in Spots' : /\ Pc(g) = "rebuilt" /\ Pc(g)' = "panicked"
                                /\ Val(g)' = Val(g) /\ Fl(g)' = Fl(g)
                                /\ \A q \in Spots' \ {g} : Same(q)
        BY <1>1, <1>6, <2>2, <3>1, UnwindView
      <3>4. GoesOn(g)
        <4>1. g \in Spots /\ Fl(g) # NoFlight
          BY <1>6, <3>2, <3>3 DEF Tagged, FlightPcs
        <4> QED BY <3>3, <4>1
            DEF GoesOn, Own, Known, Early, Installing, OwnPcs, KnownPcs, EarlyPcs, InstallPcs
      <3> QED BY <1>6, <3>2, <3>3, <3>4, SameGoesOn
    <2> QED BY <2>1, <2>2
  <1>10. \A p \in Spots' : Own(p)' => Fl(p)' # f
    <2> SUFFICES ASSUME NEW p \in Spots', Own(p)', Fl(p)' = f PROVE FALSE
      OBVIOUS
    <2>1. p \in Spots /\ p # h /\ Own(p) /\ Fl(p) = f
      BY <1>9 DEF GoesOn
    <2> QED BY <1>8, <2>1 DEF ResInv, OwnersAlone
  <1>11. FlightsQuiet
    <2>1. PICK next : next = [flight EXCEPT ![f] = "Err"]
      OBVIOUS
    <2>2. flight \in [Flights -> FlightStates]
      BY DEF ResInv, ResTypeOK, FlightStates
    <2>3. /\ next \in [Flights -> FlightStates] /\ next[f] = "Err"
          /\ \A g \in Flights \ {f} : next[g] = flight[g]
      BY <1>5, <2>1, <2>2 DEF FlightStates
    <2>4. flight' = Freed(next)
      BY <1>4, <2>1 DEF Unwind, Answered
    <2>5. \A g \in Flights : flight'[g] = next[g] \/ (flight'[g] = "Queued" /\ Unused(g)')
      <3>1. \A g \in Flights : Freed(next)[g] = next[g] \/ (Freed(next)[g] = "Queued" /\ Unused(g)')
        BY FreedIs
      <3> QED BY <2>4, <3>1
    <2>6. flight' \in [Flights -> FlightStates]
      BY <2>3, <2>4, FreedIs
    <2>7. \A g \in Flights : QuietFlight(g)
      BY <1>10, <2>3, <2>5 DEF QuietFlight
    <2> QED BY <2>6, <2>7 DEF FlightsQuiet
  <1>12. jobs' \in Seq(JobType) /\ \A v, g : JobRef(v, g)' => JobRef(v, g)
    <2>1. jobs' = jobs \/ jobs' = << >>
      BY DEF Unwind
    <2>2. CASE jobs' = jobs
      BY <2>2 DEF ResInv, ResTypeOK, JobRef
    <2>3. CASE jobs' = << >>
      <3>1. jobs' \in Seq(JobType) /\ Len(jobs') = 0
        BY <2>3
      <3> QED BY <3>1 DEF JobRef
    <2> QED BY <2>1, <2>2, <2>3
  <1>13. ResTypeOK'
    BY <1>2, <1>9, <1>11, <1>12 DEF ResInv, ResTypeOK, StacksTyped, FlightStates, FlightsQuiet
  <1>14. Entries' = Entries /\ IsInjective(order)'
    BY <1>2 DEF ResInv, Entries, IsInjective
  <1>15. \A p \in Spots : Pc(p) = "insert" => p \in Spots'
    BY <1>8, <1>9
  <1> QED BY <1>2, <1>9, <1>11, <1>12, <1>13, <1>14, <1>15 DEF Quiet, FlightsQuiet

-----------------------------------------------------------------------------
(* The steps that make, drop, claim, install and evict values *)

\* What a call that stays is, stays.
LEMMA SameMeans ==
  ASSUME NEW q, Same(q)
  PROVE  /\ Pc(q)' = Pc(q) /\ Val(q)' = Val(q) /\ Fl(q)' = Fl(q)
         /\ Own(q)' = Own(q) /\ Known(q)' = Known(q)
         /\ Early(q)' = Early(q) /\ Installing(q)' = Installing(q)
  BY DEF Same, Own, Known, Early, Installing

\* The calls stay.
LEMMA StackStill ==
  ASSUME stack' = stack, Nested
  PROVE  Spots' = Spots /\ Nested' /\ \A q : Same(q)
  <1>1. Spots' = Spots /\ (\A t : Here(t)' = Here(t)) /\ \A q : CallAt(q)' = CallAt(q)
    BY DEF Spots, Here, CallAt
  <1>2. \A q : Same(q)
    BY <1>1, SameCall
  <1>3. Nested'
    BY <1>1, <1>2 DEF Nested, Same
  <1> QED BY <1>1, <1>2, <1>3

LEMMA LazyStep ==
  ASSUME ResInv, NEW v \in Values, Lazy(v)
  PROVE  ResInv'
  <1>1. /\ handle[v] = "none" /\ handle' = [handle EXCEPT ![v] = "held"]
        /\ \A c \in Calls : c.value # v
    BY DEF Lazy
  <1>2. UNCHANGED <<order, resident, current, flight, jobs, stack>>
    BY DEF Lazy, cacheVars, flightVars
  <1>3. Spots' = Spots /\ Nested' /\ \A q : Same(q)
    BY <1>2, StackStill DEF ResInv
  <1>4. /\ \A q : Pc(q)' = Pc(q) /\ Val(q)' = Val(q) /\ Fl(q)' = Fl(q)
        /\ \A q : Own(q)' = Own(q) /\ Known(q)' = Known(q)
        /\ \A q : Early(q)' = Early(q) /\ Installing(q)' = Installing(q)
    BY <1>3, SameMeans
  <1>5. \A p \in Spots : Val(p) # v
    BY <1>1, CallsAre DEF Val
  <1>6. /\ handle' \in [Values -> {"held", "dropping", "none"}] /\ handle'[v] = "held"
        /\ \A w \in Values : w # v => handle'[w] = handle[w]
    BY <1>1 DEF ResInv, ResTypeOK
  <1>7. Entries' = Entries /\ IsInjective(order)' /\ \A w, f : JobRef(w, f)' = JobRef(w, f)
    BY <1>2 DEF ResInv, Entries, JobRef, IsInjective
  <1>8. ResTypeOK'
    BY <1>2, <1>6 DEF ResInv, ResTypeOK
  <1>9. OwnersRun' /\ OwnersAlone' /\ OwnersKnown' /\ OwnersEarly'
    BY <1>2, <1>3, <1>4 DEF ResInv, OwnersRun, OwnersAlone, OwnersKnown, OwnersEarly
  <1>10. QueuedEmpty' /\ QueuedKnown'
    BY <1>2, <1>3, <1>4, <1>7 DEF ResInv, QueuedEmpty, QueuedKnown
  <1>11. \A p \in Spots : Val(p) \in Values
    BY SpotTyped DEF ResInv, ResTypeOK, StacksTyped
  <1>12. Tagged'
    BY <1>3, <1>4, <1>5, <1>6, <1>11 DEF ResInv, Tagged
  <1>13. Unmade' /\ Leaving'
    <2>1. \A w \in Values : handle'[w] \in {"none", "dropping"} => handle[w] = handle'[w]
      BY <1>6
    <2>2. Unmade'
      BY <1>2, <1>3, <1>4, <1>7, <2>1 DEF ResInv, Unmade
    <2>3. Leaving'
      BY <1>2, <1>3, <1>4, <1>7, <2>1 DEF ResInv, Leaving
    <2> QED BY <2>2, <2>3
  <1>14. Inserting'
    BY <1>2, <1>3, <1>4, <1>7 DEF ResInv, Inserting
  <1>15. Inserted'
    <2>1. \A w \in resident : w \in Values /\ (handle[w] = "dropping" => handle'[w] = "dropping")
      BY <1>1, <1>6 DEF ResInv, ResTypeOK
    <2> QED BY <1>2, <1>3, <1>4, <1>7, <2>1 DEF ResInv, Inserted
  <1> QED BY <1>2, <1>3, <1>7, <1>8, <1>9, <1>10, <1>12, <1>13, <1>14, <1>15 DEF ResInv

LEMMA WithValueStep ==
  ASSUME ResInv, ResidencyAssumption, NEW t \in Callers, NEW v \in Values, WithValue(t, v)
  PROVE  ResInv'
  <1>1. PICK call : call = Call("install", v, NoFlight)
    OBVIOUS
  <1>2. /\ handle[v] = "none" /\ \A c \in Calls : c.value # v
        /\ t \in Threads /\ stack[t] = << >> /\ Begin(t, call)
    BY <1>1 DEF WithValue, Threads
  <1>3. UNCHANGED <<order, resident, handle, current, flight, jobs>>
    BY DEF WithValue, cacheVars, valueVars, flightVars
  <1>4. call \in CallType /\ call.pc = "install" /\ call.value = v /\ call.flight = NoFlight
    BY <1>1 DEF Call, CallType, Pcs, OwnPcs
  <1>5. StacksTyped
    BY DEF ResInv, ResTypeOK, StacksTyped
  <1>6. StacksTyped' /\ Nested'
    BY <1>2, <1>4, <1>5, BeginView DEF ResInv
  <1>7. PICK n : /\ n \notin Spots /\ Spots' = Spots \union {n}
                 /\ Pc(n)' = call.pc /\ Val(n)' = call.value /\ Fl(n)' = call.flight
                 /\ \A q \in Spots : Same(q)
    BY <1>2, <1>4, <1>5, BeginView DEF ResInv
  <1>8. /\ \A q \in Spots : Pc(q)' = Pc(q) /\ Val(q)' = Val(q) /\ Fl(q)' = Fl(q)
        /\ \A q \in Spots : Own(q)' = Own(q) /\ Known(q)' = Known(q)
        /\ \A q \in Spots : Early(q)' = Early(q) /\ Installing(q)' = Installing(q)
    BY <1>7, SameMeans
  <1>9. /\ ~Own(n)' /\ ~Known(n)' /\ ~Early(n)' /\ Installing(n)'
        /\ Pc(n)' = "install" /\ Val(n)' = v /\ Fl(n)' = NoFlight
    BY <1>4, <1>7 DEF Own, Known, Early, Installing, InstallPcs
  <1>10. \A p \in Spots : Val(p) # v
    BY <1>2, CallsAre DEF Val
  <1>11. Entries' = Entries /\ IsInjective(order)' /\ \A w, f : JobRef(w, f)' = JobRef(w, f)
    BY <1>3 DEF ResInv, Entries, JobRef, IsInjective
  <1>12. ResTypeOK'
    BY <1>3, <1>6 DEF ResInv, ResTypeOK, StacksTyped
  <1>13. OwnersRun' /\ OwnersAlone'
    BY <1>3, <1>7, <1>8, <1>9 DEF ResInv, OwnersRun, OwnersAlone
  <1>14. OwnersKnown' /\ OwnersEarly'
    BY <1>3, <1>7, <1>8, <1>9 DEF ResInv, OwnersKnown, OwnersEarly
  <1>15. QueuedEmpty' /\ QueuedKnown'
    <2>1. NoFlight \notin Flights
      BY DEF ResidencyAssumption, Flights
    <2>2. QueuedEmpty'
      BY <1>3 DEF ResInv, QueuedEmpty
    <2>3. QueuedKnown'
      BY <1>3, <1>7, <1>8, <1>9, <1>11, <2>1 DEF ResInv, QueuedKnown
    <2> QED BY <2>2, <2>3
  <1>16. Tagged'
    <2>1. "install" \notin FlightPcs
      BY DEF FlightPcs
    <2> QED BY <1>2, <1>3, <1>7, <1>8, <1>9, <2>1 DEF ResInv, Tagged
  <1>17. Unmade'
    BY <1>3, <1>7, <1>8, <1>9, <1>10, <1>11 DEF ResInv, Unmade
  <1>18. Leaving'
    BY <1>2, <1>3, <1>7, <1>8, <1>9, <1>11 DEF ResInv, Leaving
  <1>19. Inserting'
    BY <1>3, <1>7, <1>8, <1>9, <1>11 DEF ResInv, Inserting
  <1>20. Inserted'
    BY <1>3, <1>7, <1>8, <1>11 DEF ResInv, Inserted
  <1> QED BY <1>3, <1>6, <1>11, <1>12, <1>13, <1>14, <1>15, <1>16, <1>17, <1>18, <1>19, <1>20 DEF ResInv

LEMMA DropBeginStep ==
  ASSUME ResInv, ResidencyAssumption, NEW v \in Values, DropBegin(v)
  PROVE  ResInv'
  <1>1. /\ handle[v] = "held" /\ handle' = [handle EXCEPT ![v] = "dropping"]
        /\ current' = [current EXCEPT ![v] = NoFlight] /\ flight' = Freed(flight)
        /\ \A c \in Calls \union Jobs : c.value # v
    BY DEF DropBegin
  <1>2. UNCHANGED <<order, resident, jobs, stack>>
    BY DEF DropBegin, cacheVars
  <1>3. Spots' = Spots /\ Nested' /\ \A q : Same(q)
    BY <1>2, StackStill DEF ResInv
  <1>4. /\ \A q : Pc(q)' = Pc(q) /\ Val(q)' = Val(q) /\ Fl(q)' = Fl(q)
        /\ \A q : Own(q)' = Own(q) /\ Known(q)' = Known(q)
        /\ \A q : Early(q)' = Early(q) /\ Installing(q)' = Installing(q)
    BY <1>3, SameMeans
  <1>5. \A p \in Spots : Val(p) # v
    BY <1>1, CallsAre DEF Val
  <1>6. \A f : ~JobRef(v, f)
    BY <1>1 DEF JobRef, Jobs
  <1>7. /\ handle' \in [Values -> {"held", "dropping", "none"}] /\ handle'[v] = "dropping"
        /\ \A w \in Values : w # v => handle'[w] = handle[w]
        /\ current' \in [Values -> Flights \union {NoFlight}] /\ current'[v] = NoFlight
        /\ \A w \in Values : w # v => current'[w] = current[w]
    BY <1>1 DEF ResInv, ResTypeOK
  <1>8. Entries' = Entries /\ IsInjective(order)' /\ \A w, f : JobRef(w, f)' = JobRef(w, f)
    BY <1>2 DEF ResInv, Entries, JobRef, IsInjective
  <1>9. /\ flight' \in [Flights -> FlightStates]
        /\ \A f \in Flights : flight'[f] = flight[f] \/ (flight'[f] = "Queued" /\ Unused(f)')
    <2>1. PICK next : next = flight
      OBVIOUS
    <2>2. next \in [Flights -> FlightStates] /\ flight' = Freed(next)
      BY <1>1, <2>1 DEF ResInv, ResTypeOK, FlightStates
    <2>3. flight' \in [Flights -> FlightStates]
      BY <2>2, FreedIs
    <2>4. \A f \in Flights : Freed(next)[f] = next[f] \/ (Freed(next)[f] = "Queued" /\ Unused(f)')
      BY FreedIs
    <2> QED BY <2>1, <2>2, <2>3, <2>4
  <1>10. /\ \A p \in Spots : Fl(p) \in Flights => flight'[Fl(p)] = flight[Fl(p)]
         /\ \A w \in Values : current'[w] \in Flights => flight'[current'[w]] = flight[current'[w]]
         /\ \A w \in Values, f \in Flights : JobRef(w, f) => flight'[f] = flight[f]
    BY <1>3, <1>4, <1>8, <1>9 DEF Unused
  <1>11. Ranged /\ NoFlight \notin Flights
    BY RangedIs DEF ResInv, ResTypeOK, StacksTyped, ResidencyAssumption, Flights
  <1>12. ResTypeOK'
    BY <1>2, <1>7, <1>9 DEF ResInv, ResTypeOK, FlightStates
  <1>13. OwnersRun'
    <2> SUFFICES ASSUME NEW p \in Spots, Own(p) PROVE flight'[Fl(p)] = "Running"
      BY <1>3, <1>4 DEF OwnersRun
    <2>1. Fl(p) \in Flights
      BY <1>11 DEF Ranged, Own
    <2> QED BY <1>10, <2>1 DEF ResInv, OwnersRun
  <1>14. OwnersAlone' /\ OwnersEarly'
    BY <1>2, <1>3, <1>4 DEF ResInv, OwnersAlone, OwnersEarly
  <1>15. OwnersKnown'
    BY <1>3, <1>4, <1>5, <1>7, <1>11 DEF ResInv, OwnersKnown, Ranged
  <1>16. QueuedEmpty'
    <2> SUFFICES ASSUME NEW w \in Values, current'[w] # NoFlight, flight'[current'[w]] = "Queued"
                 PROVE  w \notin resident
      BY <1>2 DEF QueuedEmpty
    <2>1. w # v /\ current'[w] = current[w] /\ current'[w] \in Flights
      BY <1>7
    <2>2. flight[current[w]] = "Queued"
      BY <1>10, <2>1
    <2> QED BY <2>1, <2>2 DEF ResInv, QueuedEmpty
  <1>17. QueuedKnown'
    <2> SUFFICES ASSUME NEW f \in Flights, flight'[f] = "Queued"
                 PROVE  /\ \A p \in Spots : Fl(p) = f => current'[Val(p)] = f
                        /\ \A w \in Values : JobRef(w, f) => current'[w] = f
      BY <1>3, <1>4, <1>8 DEF QueuedKnown
    <2>1. ASSUME NEW p \in Spots, Fl(p) = f PROVE current'[Val(p)] = f
      <3>1. flight[f] = "Queued"
        BY <1>10, <2>1
      <3>2. current[Val(p)] = f
        BY <2>1, <3>1 DEF ResInv, QueuedKnown
      <3> QED BY <1>5, <1>7, <1>11, <3>2 DEF Ranged
    <2>2. ASSUME NEW w \in Values, JobRef(w, f) PROVE current'[w] = f
      <3>1. flight[f] = "Queued" /\ w # v
        BY <1>6, <1>10, <2>2
      <3>2. current[w] = f
        BY <2>2, <3>1 DEF ResInv, QueuedKnown
      <3> QED BY <1>7, <3>1, <3>2
    <2> QED BY <2>1, <2>2
  <1>18. Tagged'
    BY <1>3, <1>4, <1>5, <1>7, <1>11 DEF ResInv, Tagged, Ranged
  <1>19. Unmade'
    <2>1. \A w \in Values : handle'[w] = "none" => handle[w] = "none" /\ current'[w] = current[w]
      BY <1>7
    <2> QED BY <1>3, <1>4, <1>8, <2>1 DEF ResInv, Unmade
  <1>20. Leaving'
    <2> SUFFICES ASSUME NEW w \in Values, handle'[w] = "dropping"
                 PROVE  /\ current'[w] = NoFlight
                        /\ \A f \in Flights : ~JobRef(w, f)
                        /\ \A p \in Spots : Val(p) # w
      BY <1>3, <1>4, <1>8 DEF Leaving
    <2>1. CASE w = v
      BY <1>5, <1>6, <1>7, <2>1
    <2>2. CASE w # v
      BY <1>7, <2>2 DEF ResInv, Leaving
    <2> QED BY <2>1, <2>2
  <1>21. Inserting'
    BY <1>2, <1>3, <1>4, <1>8 DEF ResInv, Inserting
  <1>22. Inserted'
    <2>1. \A w \in resident : w \in Values /\ (handle[w] = "dropping" => handle'[w] = "dropping")
      BY <1>7 DEF ResInv, ResTypeOK
    <2> QED BY <1>2, <1>3, <1>4, <1>8, <2>1 DEF ResInv, Inserted
  <1>23. Entries' \subseteq resident'
    BY <1>2, <1>8 DEF ResInv
  <1> QED BY <1>3, <1>8, <1>12, <1>13, <1>14, <1>15, <1>16, <1>17, <1>18, <1>19, <1>20, <1>21,
             <1>22, <1>23 DEF ResInv

LEMMA DropEndStep ==
  ASSUME ResInv, NEW v \in Values, DropEnd(v)
  PROVE  ResInv'
  <1>1. /\ handle[v] = "dropping" /\ handle' = [handle EXCEPT ![v] = "none"]
        /\ order' = Without(order, v) /\ resident' = resident \ {v}
    BY DEF DropEnd
  <1>2. UNCHANGED <<current, flight, jobs, stack>>
    BY DEF DropEnd, flightVars
  <1>3. Spots' = Spots /\ Nested' /\ \A q : Same(q)
    BY <1>2, StackStill DEF ResInv
  <1>4. /\ \A q : Pc(q)' = Pc(q) /\ Val(q)' = Val(q) /\ Fl(q)' = Fl(q)
        /\ \A q : Own(q)' = Own(q) /\ Known(q)' = Known(q)
        /\ \A q : Early(q)' = Early(q) /\ Installing(q)' = Installing(q)
    BY <1>3, SameMeans
  <1>5. /\ current[v] = NoFlight
        /\ \A f \in Flights : ~JobRef(v, f)
        /\ \A p \in Spots : Val(p) # v
    BY <1>1 DEF ResInv, Leaving
  <1>6. /\ handle' \in [Values -> {"held", "dropping", "none"}] /\ handle'[v] = "none"
        /\ \A w \in Values : w # v => handle'[w] = handle[w]
    BY <1>1 DEF ResInv, ResTypeOK
  <1>7. order' \in Seq(Values) /\ IsInjective(order') /\ Entries' = Entries \ {v}
    <2>1. order \in Seq(Values) /\ IsInjective(order) /\ Entries = ToSet(order)
      BY EntriesAre DEF ResInv, ResTypeOK
    <2>2. order' \in Seq(Values) /\ IsInjective(order') /\ ToSet(order') = ToSet(order) \ {v}
      BY <1>1, <2>1, WithoutOthers
    <2>3. (order \in Seq(Values) => Entries = ToSet(order))'
      BY EntriesAre, PTL
    <2> QED BY <2>1, <2>2, <2>3
  <1>8. \A w, f : JobRef(w, f)' = JobRef(w, f)
    BY <1>2 DEF JobRef
  <1>9. Ranged
    BY RangedIs DEF ResInv, ResTypeOK, StacksTyped
  <1>10. ResTypeOK'
    <2>1. resident' \subseteq Values
      BY <1>1 DEF ResInv, ResTypeOK
    <2> QED BY <1>2, <1>6, <1>7, <2>1 DEF ResInv, ResTypeOK
  <1>11. OwnersRun' /\ OwnersAlone' /\ OwnersKnown'
    BY <1>2, <1>3, <1>4 DEF ResInv, OwnersRun, OwnersAlone, OwnersKnown
  <1>12. OwnersEarly' /\ QueuedEmpty'
    BY <1>1, <1>2, <1>3, <1>4 DEF ResInv, OwnersEarly, QueuedEmpty
  <1>13. QueuedKnown'
    BY <1>2, <1>3, <1>4, <1>8 DEF ResInv, QueuedKnown
  <1>14. Tagged'
    BY <1>3, <1>4, <1>5, <1>6, <1>9 DEF ResInv, Tagged, Ranged
  <1>15. Unmade'
    <2> SUFFICES ASSUME NEW w \in Values, handle'[w] = "none"
                 PROVE  /\ current[w] = NoFlight /\ w \notin Entries'
                        /\ \A f \in Flights : ~JobRef(w, f)
                        /\ \A p \in Spots : Val(p) = w => Installing(p)
                        /\ \A p, q \in Spots : Val(p) = w /\ Val(q) = w => p = q
      BY <1>2, <1>3, <1>4, <1>8 DEF Unmade
    <2>1. CASE w = v
      BY <1>5, <1>7, <2>1
    <2>2. CASE w # v
      BY <1>6, <1>7, <2>2 DEF ResInv, Unmade
    <2> QED BY <2>1, <2>2
  <1>16. Leaving'
    <2>1. \A w \in Values : handle'[w] = "dropping" => handle[w] = "dropping"
      BY <1>6
    <2> QED BY <1>2, <1>3, <1>4, <1>8, <2>1 DEF ResInv, Leaving
  <1>17. Inserting'
    BY <1>1, <1>3, <1>4, <1>5, <1>7 DEF ResInv, Inserting
  <1>18. Inserted'
    <2>1. \A w \in resident' : w \in resident /\ w \in Values /\ w # v /\ handle'[w] = handle[w]
      BY <1>1, <1>6 DEF ResInv, ResTypeOK
    <2> QED BY <1>3, <1>4, <1>7, <2>1 DEF ResInv, Inserted
  <1>19. Entries' \subseteq resident' /\ IsInjective(order)'
    BY <1>1, <1>7 DEF ResInv
  <1> QED BY <1>3, <1>10, <1>11, <1>12, <1>13, <1>14, <1>15, <1>16, <1>17, <1>18, <1>19 DEF ResInv

\* The innermost call goes elsewhere, and the others stay.
LEMMA GotoView ==
  ASSUME StacksTyped, Nested, NEW t \in Threads, stack[t] # << >>, NEW where \in Pcs, Goto(t, where)
  PROVE  /\ StacksTyped' /\ Nested' /\ Spots' = Spots
         /\ \E h \in Spots :
              /\ Pc(h) = Top(t).pc /\ Val(h) = Top(t).value /\ Fl(h) = Top(t).flight
              /\ Pc(h)' = where /\ Val(h)' = Val(h) /\ Fl(h)' = Fl(h)
              /\ \A q \in Spots \ {h} : Same(q)
  <1>1. PICK call : call = [Top(t) EXCEPT !.pc = where]
    OBVIOUS
  <1>2. Top(t) \in CallType
    BY TopIs
  <1>3. /\ call \in CallType /\ call.pc = where
        /\ call.value = Top(t).value /\ call.flight = Top(t).flight
    BY <1>1, <1>2, GotoIs
  <1>4. Become(t, call)
    BY <1>1 DEF Goto
  <1>5. StacksTyped' /\ Nested' /\ Spots' = Spots
    BY <1>3, <1>4, BecomeView
  <1>6. PICK h : /\ h = Here(t) /\ h \in Spots
                 /\ Pc(h)' = call.pc /\ Val(h)' = call.value /\ Fl(h)' = call.flight
                 /\ \A q \in Spots \ {h} : Same(q)
    BY <1>3, <1>4, BecomeView
  <1>7. Top(t).pc = Pc(h) /\ Top(t).value = Val(h) /\ Top(t).flight = Fl(h)
    BY <1>6, TopIs
  <1> QED BY <1>3, <1>5, <1>6, <1>7

\* join makes a flight that nobody refers to yet.
LEMMA JoinCreateStep ==
  ASSUME ResInv, ResidencyAssumption, NEW t \in Threads,
         GetJoin(t) \/ PrefetchJoin(t),
         current[Top(t).value] = NoFlight, Top(t).value \notin resident
  PROVE  ResInv'
  <1>1. PICK existing \in {"claim", "prefetched"}, present \in {"touch", "prefetched"},
             created \in {"claim", "send"} : Join(t, existing, present, created)
    BY DEF GetJoin, PrefetchJoin
  <1>2. stack[t] # << >> /\ Top(t).pc \in {"join", "prefetch"}
    BY DEF GetJoin, PrefetchJoin, At
  <1>3. UNCHANGED <<order, resident, handle, jobs>>
    BY DEF GetJoin, PrefetchJoin, cacheVars, valueVars
  <1>4. PICK v : v = Top(t).value
    OBVIOUS
  <1>5. v \in Values /\ handle[v] = "held" /\ current[v] = NoFlight /\ v \notin resident
    BY <1>2, <1>4, TopHeld DEF CallType, InstallPcs
  <1>6. PICK f : f = Min(Flights \ UsedFlights)
    OBVIOUS
  <1>7. PICK call : call = Call(created, v, f)
    OBVIOUS
  <1>8. /\ Flights \ UsedFlights # {}
        /\ current' = [current EXCEPT ![v] = f] /\ flight' = [flight EXCEPT ![f] = "Queued"]
        /\ Become(t, call)
    BY <1>1, <1>4, <1>5, <1>6, <1>7 DEF Join
  <1>9. f \in Flights /\ Unused(f)
    <2>1. Flights \ UsedFlights \in SUBSET Nat
      BY DEF Flights, ResidencyAssumption
    <2>2. f \in Flights \ UsedFlights
      BY <1>6, <1>8, <2>1, LeastIsIn
    <2> QED BY <2>2, UnusedIs
  <1>10. call \in CallType /\ call.pc = created /\ call.value = v /\ call.flight = f
    BY <1>5, <1>7, <1>9 DEF Call, CallType, Pcs, FlightPcs
  <1>11. StacksTyped
    BY DEF ResInv, ResTypeOK, StacksTyped
  <1>12. StacksTyped' /\ Nested' /\ Spots' = Spots
    BY <1>2, <1>8, <1>10, <1>11, BecomeView DEF ResInv
  <1>13. PICK h : /\ h = Here(t) /\ h \in Spots
                  /\ Pc(h)' = call.pc /\ Val(h)' = call.value /\ Fl(h)' = call.flight
                  /\ \A q \in Spots \ {h} : Same(q)
    BY <1>2, <1>8, <1>10, <1>11, BecomeView DEF ResInv
  <1>14. Pc(h) \in {"join", "prefetch"} /\ Val(h) = v
    BY <1>2, <1>4, <1>11, <1>13, TopIs
  <1>15. /\ \A q \in Spots \ {h} : Pc(q)' = Pc(q) /\ Val(q)' = Val(q) /\ Fl(q)' = Fl(q)
         /\ \A q \in Spots \ {h} : Own(q)' = Own(q) /\ Known(q)' = Known(q)
         /\ \A q \in Spots \ {h} : Early(q)' = Early(q) /\ Installing(q)' = Installing(q)
    BY <1>13, SameMeans
  <1>16. /\ Val(h)' = v /\ Fl(h)' = f /\ Pc(h)' # "insert" /\ Pc(h) # "insert"
         /\ ~Own(h)' /\ ~Known(h)' /\ ~Early(h)' /\ ~Installing(h)' /\ ~Installing(h)
    BY <1>10, <1>13, <1>14
       DEF Own, Known, Early, Installing, OwnPcs, KnownPcs, EarlyPcs, InstallPcs
  <1>17. /\ \A w \in Values : current[w] # f /\ ~JobRef(w, f)
         /\ \A p \in Spots : Fl(p) # f
    BY <1>9 DEF Unused
  <1>18. /\ current' \in [Values -> Flights \union {NoFlight}] /\ current'[v] = f
         /\ \A w \in Values : w # v => current'[w] = current[w]
         /\ flight' \in [Flights -> FlightStates] /\ flight'[f] = "Queued"
         /\ \A g \in Flights : g # f => flight'[g] = flight[g]
    BY <1>5, <1>8, <1>9 DEF ResInv, ResTypeOK, FlightStates
  <1>19. Entries' = Entries /\ IsInjective(order)' /\ \A w, g : JobRef(w, g)' = JobRef(w, g)
    BY <1>3 DEF ResInv, Entries, JobRef, IsInjective
  <1>20. Ranged /\ NoFlight \notin Flights
    BY <1>11, RangedIs DEF ResidencyAssumption, Flights
  <1>21. ResTypeOK'
    BY <1>3, <1>12, <1>18 DEF ResInv, ResTypeOK, StacksTyped, FlightStates
  <1>22. OwnersRun'
    <2> SUFFICES ASSUME NEW p \in Spots, Own(p)' PROVE flight'[Fl(p)'] = "Running"
      BY <1>12 DEF OwnersRun
    <2>1. p # h /\ Own(p) /\ Fl(p)' = Fl(p) /\ Fl(p) # f
      BY <1>15, <1>16, <1>17
    <2>2. Fl(p) \in Flights /\ flight[Fl(p)] = "Running"
      BY <1>20, <2>1 DEF Ranged, Own, ResInv, OwnersRun
    <2> QED BY <1>18, <2>1, <2>2
  <1>23. OwnersAlone'
    BY <1>12, <1>15, <1>16 DEF ResInv, OwnersAlone
  <1>24. OwnersKnown'
    <2> SUFFICES ASSUME NEW p \in Spots, Known(p)' PROVE current'[Val(p)'] = Fl(p)'
      BY <1>12 DEF OwnersKnown
    <2>1. p # h /\ Known(p) /\ Fl(p)' = Fl(p) /\ Val(p)' = Val(p) /\ Val(p) \in Values
      BY <1>15, <1>16, <1>20 DEF Ranged
    <2>2. current[Val(p)] = Fl(p) /\ Fl(p) # NoFlight
      BY <2>1 DEF ResInv, OwnersKnown, Known
    <2> QED BY <1>5, <1>18, <2>1, <2>2
  <1>25. OwnersEarly'
    BY <1>3, <1>12, <1>15, <1>16 DEF ResInv, OwnersEarly
  <1>26. QueuedEmpty'
    <2> SUFFICES ASSUME NEW w \in Values, current'[w] # NoFlight, flight'[current'[w]] = "Queued"
                 PROVE  w \notin resident
      BY <1>3 DEF QueuedEmpty
    <2>1. CASE w = v
      BY <1>5, <2>1
    <2>2. CASE w # v
      <3>1. current'[w] = current[w] /\ current[w] \in Flights /\ current[w] # f
        BY <1>17, <1>18, <2>2
      <3> QED BY <1>18, <3>1 DEF ResInv, QueuedEmpty
    <2> QED BY <2>1, <2>2
  <1>27. QueuedKnown'
    <2> SUFFICES ASSUME NEW g \in Flights, flight'[g] = "Queued"
                 PROVE  /\ \A p \in Spots : Fl(p)' = g => current'[Val(p)'] = g
                        /\ \A w \in Values : JobRef(w, g) => current'[w] = g
      BY <1>12, <1>19 DEF QueuedKnown
    <2>1. CASE g = f
      BY <1>15, <1>16, <1>17, <1>18, <2>1
    <2>2. CASE g # f
      <3>1. flight[g] = "Queued"
        BY <1>18, <2>2
      <3>2. /\ \A p \in Spots : Fl(p) = g => current[Val(p)] = g
            /\ \A w \in Values : JobRef(w, g) => current[w] = g
        BY <3>1 DEF ResInv, QueuedKnown
      <3>3. \A w \in Values : current[w] = g => current'[w] = g
        BY <1>5, <1>18, <1>20
      <3> QED BY <1>15, <1>16, <1>20, <2>2, <3>2, <3>3 DEF Ranged
    <2> QED BY <2>1, <2>2
  <1>28. Tagged'
    BY <1>3, <1>9, <1>12, <1>15, <1>16, <1>20 DEF ResInv, Tagged
  <1>29. Unmade'
    <2> SUFFICES ASSUME NEW w \in Values, handle[w] = "none"
                 PROVE  /\ current'[w] = NoFlight /\ w \notin Entries
                        /\ \A g \in Flights : ~JobRef(w, g)
                        /\ \A p \in Spots : Val(p)' = w => Installing(p)'
                        /\ \A p, q \in Spots : Val(p)' = w /\ Val(q)' = w => p = q
      BY <1>3, <1>12, <1>19 DEF Unmade
    <2>1. w # v
      BY <1>5
    <2> QED BY <1>15, <1>16, <1>18, <2>1 DEF ResInv, Unmade
  <1>30. Leaving'
    <2> SUFFICES ASSUME NEW w \in Values, handle[w] = "dropping"
                 PROVE  /\ current'[w] = NoFlight
                        /\ \A g \in Flights : ~JobRef(w, g)
                        /\ \A p \in Spots : Val(p)' # w
      BY <1>3, <1>12, <1>19 DEF Leaving
    <2>1. w # v
      BY <1>5
    <2> QED BY <1>15, <1>16, <1>18, <2>1 DEF ResInv, Leaving
  <1>31. Inserting' /\ Inserted'
    <2>1. Inserting'
      BY <1>3, <1>12, <1>15, <1>16, <1>19 DEF ResInv, Inserting
    <2>2. Inserted'
      BY <1>3, <1>12, <1>15, <1>16, <1>19 DEF ResInv, Inserted
    <2> QED BY <2>1, <2>2
  <1>32. Entries' \subseteq resident'
    BY <1>3, <1>19 DEF ResInv
  <1> QED BY <1>12, <1>19, <1>21, <1>22, <1>23, <1>24, <1>25, <1>26, <1>27, <1>28, <1>29, <1>30,
             <1>31, <1>32 DEF ResInv

\* The flight is claimed: its value is not there, and knows the flight.
LEMMA ClaimStep ==
  ASSUME ResInv, ResidencyAssumption, NEW t \in Threads, Claim(t), flight[Top(t).flight] = "Queued"
  PROVE  ResInv'
  <1>1. /\ stack[t] # << >> /\ Top(t).pc = "claim" /\ Goto(t, "rebuild")
        /\ flight' = [flight EXCEPT ![Top(t).flight] = "Running"]
    BY DEF Claim, At
  <1>2. UNCHANGED <<order, resident, handle, current, jobs>>
    BY DEF Claim, cacheVars, valueVars
  <1>3. StacksTyped /\ "rebuild" \in Pcs
    BY DEF ResInv, ResTypeOK, StacksTyped, Pcs, OwnPcs
  <1>4. StacksTyped' /\ Nested' /\ Spots' = Spots
    BY <1>1, <1>3, GotoView DEF ResInv
  <1>5. PICK h \in Spots : /\ Pc(h) = Top(t).pc /\ Val(h) = Top(t).value /\ Fl(h) = Top(t).flight
                           /\ Pc(h)' = "rebuild" /\ Val(h)' = Val(h) /\ Fl(h)' = Fl(h)
                           /\ \A q \in Spots \ {h} : Same(q)
    BY <1>1, <1>3, GotoView DEF ResInv
  <1>6. /\ \A q \in Spots \ {h} : Pc(q)' = Pc(q) /\ Own(q)' = Own(q) /\ Known(q)' = Known(q)
        /\ \A q \in Spots \ {h} : Early(q)' = Early(q) /\ Installing(q)' = Installing(q)
        /\ \A q \in Spots : Val(q)' = Val(q) /\ Fl(q)' = Fl(q)
    BY <1>5, SameMeans
  <1>7. PICK f : f = Fl(h)
    OBVIOUS
  <1>8. Ranged /\ NoFlight \notin Flights
    BY <1>3, RangedIs DEF ResidencyAssumption, Flights
  <1>9. f \in Flights /\ f # NoFlight /\ flight[f] = "Queued" /\ Pc(h) = "claim"
    <2>1. Top(t).flight # NoFlight
      BY <1>1, TopHeld DEF FlightPcs
    <2> QED BY <1>1, <1>5, <1>7, <1>8, <2>1 DEF Ranged
  <1>10. /\ flight' \in [Flights -> FlightStates] /\ flight'[f] = "Running"
         /\ \A g \in Flights : g # f => flight'[g] = flight[g]
    BY <1>1, <1>5, <1>7, <1>9 DEF ResInv, ResTypeOK, FlightStates
  <1>11. /\ ~Installing(h)' /\ ~Installing(h)
         /\ Pc(h)' # "insert" /\ Pc(h) # "insert"
    BY <1>5, <1>9 DEF Installing, InstallPcs
  <1>12. current[Val(h)] = f /\ Val(h) \in Values /\ Val(h) \notin resident
    <2>1. current[Val(h)] = f /\ Val(h) \in Values
      BY <1>7, <1>8, <1>9 DEF ResInv, QueuedKnown, Ranged
    <2> QED BY <1>9, <2>1 DEF ResInv, QueuedEmpty
  <1>13. \A q \in Spots : Own(q) => Fl(q) # f
    BY <1>9 DEF ResInv, OwnersRun
  <1>14. Entries' = Entries /\ IsInjective(order)' /\ \A w, g : JobRef(w, g)' = JobRef(w, g)
    BY <1>2 DEF ResInv, Entries, JobRef, IsInjective
  <1>15. ResTypeOK'
    BY <1>2, <1>4, <1>10 DEF ResInv, ResTypeOK, StacksTyped, FlightStates
  <1>16. OwnersRun'
    <2> SUFFICES ASSUME NEW p \in Spots, Own(p)' PROVE flight'[Fl(p)] = "Running"
      BY <1>4, <1>6 DEF OwnersRun
    <2>1. CASE p = h
      BY <1>7, <1>10, <2>1
    <2>2. CASE p # h
      <3>1. Own(p) /\ Fl(p) \in Flights /\ Fl(p) # f
        BY <1>6, <1>8, <1>13, <2>2 DEF Ranged, Own
      <3> QED BY <1>10, <3>1 DEF ResInv, OwnersRun
    <2> QED BY <2>1, <2>2
  <1>17. OwnersAlone'
    <2> SUFFICES ASSUME NEW p \in Spots, NEW q \in Spots, Own(p)', Own(q)', Fl(p) = Fl(q)
                 PROVE  p = q
      BY <1>4, <1>6 DEF OwnersAlone
    <2>1. CASE p # h /\ q # h
      BY <1>6, <2>1 DEF ResInv, OwnersAlone
    <2>2. CASE p = h \/ q = h
      BY <1>6, <1>7, <1>13, <2>2
    <2> QED BY <2>1, <2>2
  <1>18. OwnersKnown'
    <2> SUFFICES ASSUME NEW p \in Spots, Known(p)' PROVE current[Val(p)] = Fl(p)
      BY <1>2, <1>4, <1>6 DEF OwnersKnown
    <2>1. CASE p = h
      BY <1>7, <1>12, <2>1
    <2>2. CASE p # h
      BY <1>6, <2>2 DEF ResInv, OwnersKnown
    <2> QED BY <2>1, <2>2
  <1>19. OwnersEarly'
    <2> SUFFICES ASSUME NEW p \in Spots, Early(p)' PROVE Val(p) \notin resident
      BY <1>2, <1>4, <1>6 DEF OwnersEarly
    <2>1. CASE p = h
      BY <1>12, <2>1
    <2>2. CASE p # h
      BY <1>6, <2>2 DEF ResInv, OwnersEarly
    <2> QED BY <2>1, <2>2
  <1>20. \A g \in Flights : flight'[g] = "Queued" => flight[g] = "Queued"
    BY <1>10
  <1>21. QueuedEmpty'
    <2>1. \A w \in Values : current[w] # NoFlight => current[w] \in Flights
      BY DEF ResInv, ResTypeOK
    <2> QED BY <1>2, <1>20, <2>1 DEF ResInv, QueuedEmpty
  <1>22. QueuedKnown'
    BY <1>2, <1>4, <1>6, <1>14, <1>20 DEF ResInv, QueuedKnown
  <1>23. Tagged'
    BY <1>2, <1>4, <1>6, <1>7, <1>9, <1>11 DEF ResInv, Tagged
  <1>24. Unmade'
    <2>1. \A p \in Spots : Installing(p) => Installing(p)'
      BY <1>6, <1>11
    <2> QED BY <1>2, <1>4, <1>6, <1>14, <2>1 DEF ResInv, Unmade
  <1>25. Leaving'
    BY <1>2, <1>4, <1>6, <1>14 DEF ResInv, Leaving
  <1>26. Inserting'
    BY <1>2, <1>4, <1>6, <1>11, <1>14 DEF ResInv, Inserting
  <1>27. Inserted'
    BY <1>2, <1>4, <1>6, <1>11, <1>14 DEF ResInv, Inserted
  <1>28. Entries' \subseteq resident'
    BY <1>2, <1>14 DEF ResInv
  <1> QED BY <1>4, <1>14, <1>15, <1>16, <1>17, <1>18, <1>19, <1>21, <1>22, <1>23, <1>24, <1>25, <1>26,
             <1>27, <1>28 DEF ResInv

\* The value goes to its slot, on behalf of the only call that installs it.
LEMMA InstallSlotStep ==
  ASSUME ResInv, ResidencyAssumption, NEW t \in Threads, InstallSlot(t)
  PROVE  ResInv'
  <1>1. /\ stack[t] # << >> /\ Top(t).pc = "install" /\ Goto(t, "insert")
        /\ resident' = resident \union {Top(t).value}
    BY DEF InstallSlot, At
  <1>2. UNCHANGED <<order, handle, current, flight, jobs>>
    BY DEF InstallSlot, cacheVars, flightVars
  <1>3. StacksTyped /\ "insert" \in Pcs
    BY DEF ResInv, ResTypeOK, StacksTyped, Pcs, OwnPcs
  <1>4. StacksTyped' /\ Nested' /\ Spots' = Spots
    BY <1>1, <1>3, GotoView DEF ResInv
  <1>5. PICK h \in Spots : /\ Pc(h) = Top(t).pc /\ Val(h) = Top(t).value /\ Fl(h) = Top(t).flight
                           /\ Pc(h)' = "insert" /\ Val(h)' = Val(h) /\ Fl(h)' = Fl(h)
                           /\ \A q \in Spots \ {h} : Same(q)
    BY <1>1, <1>3, GotoView DEF ResInv
  <1>6. PICK v : v = Val(h)
    OBVIOUS
  <1>7. Ranged
    BY <1>3, RangedIs
  <1>8. v \in Values /\ resident' = resident \union {v} /\ Pc(h) = "install"
    BY <1>1, <1>5, <1>6, <1>7 DEF Ranged
  <1>9. /\ Own(h)' = Own(h) /\ Known(h)' = Known(h) /\ Installing(h)' = Installing(h) /\ ~Early(h)'
        /\ Own(h) <=> Fl(h) # NoFlight
        /\ Known(h) <=> Fl(h) # NoFlight
        /\ Early(h) <=> Fl(h) # NoFlight
        /\ Installing(h) <=> Fl(h) = NoFlight
    BY <1>5, <1>8 DEF Own, Known, Early, Installing, OwnPcs, KnownPcs, EarlyPcs, InstallPcs
  <1>10. /\ \A q \in Spots \ {h} : Pc(q)' = Pc(q) /\ Early(q)' = Early(q)
         /\ \A q \in Spots : Own(q)' = Own(q) /\ Known(q)' = Known(q) /\ Installing(q)' = Installing(q)
         /\ \A q \in Spots : Val(q)' = Val(q) /\ Fl(q)' = Fl(q)
    BY <1>5, <1>9, SameMeans
  <1>11. \/ Fl(h) # NoFlight /\ current[v] = Fl(h) /\ flight[Fl(h)] = "Running" /\ v \notin resident
         \/ Fl(h) = NoFlight /\ current[v] = NoFlight /\ v \notin Entries /\ handle[v] = "none"
    <2>1. CASE Fl(h) # NoFlight
      BY <1>6, <1>9, <2>1 DEF ResInv, OwnersKnown, OwnersRun, OwnersEarly
    <2>2. CASE Fl(h) = NoFlight
      <3>1. handle[v] = "none"
        BY <1>6, <1>9, <2>2 DEF ResInv, Tagged
      <3> QED BY <1>8, <2>2, <3>1 DEF ResInv, Unmade
    <2> QED BY <2>1, <2>2
  <1>12. v \notin Entries
    BY <1>11 DEF ResInv
  <1>13. Entries' = Entries /\ IsInjective(order)' /\ \A w, g : JobRef(w, g)' = JobRef(w, g)
    BY <1>2 DEF ResInv, Entries, JobRef, IsInjective
  <1>14. ResTypeOK'
    <2>1. resident' \subseteq Values
      BY <1>8 DEF ResInv, ResTypeOK
    <2> QED BY <1>2, <1>4, <2>1 DEF ResInv, ResTypeOK, StacksTyped
  <1>15. OwnersRun' /\ OwnersAlone' /\ OwnersKnown'
    BY <1>2, <1>4, <1>10 DEF ResInv, OwnersRun, OwnersAlone, OwnersKnown
  <1>16. OwnersEarly'
    <2> SUFFICES ASSUME NEW p \in Spots, Early(p)' PROVE Val(p) \notin resident'
      BY <1>4, <1>10 DEF OwnersEarly
    <2>1. p # h /\ Early(p) /\ Val(p) \notin resident
      BY <1>9, <1>10 DEF ResInv, OwnersEarly
    <2>2. ASSUME Val(p) = v PROVE FALSE
      <3>1. Known(p) /\ Own(p) /\ Fl(p) # NoFlight
        BY <2>1 DEF Early, Known, Own, EarlyPcs, KnownPcs, OwnPcs
      <3>2. current[v] = Fl(p)
        BY <2>2, <3>1 DEF ResInv, OwnersKnown
      <3>3. Fl(h) = Fl(p) /\ Own(h)
        BY <1>9, <1>11, <3>1, <3>2
      <3> QED BY <2>1, <3>1, <3>3 DEF ResInv, OwnersAlone
    <2> QED BY <1>8, <2>1, <2>2
  <1>17. QueuedEmpty'
    <2> SUFFICES ASSUME NEW w \in Values, current[w] # NoFlight, flight[current[w]] = "Queued"
                 PROVE  w \notin resident'
      BY <1>2 DEF QueuedEmpty
    <2>1. w \notin resident
      BY DEF ResInv, QueuedEmpty
    <2>2. w # v
      BY <1>11
    <2> QED BY <1>8, <2>1, <2>2
  <1>18. QueuedKnown'
    BY <1>2, <1>4, <1>10, <1>13 DEF ResInv, QueuedKnown
  <1>19. Tagged'
    <2>1. \A p \in Spots : Pc(p)' \in FlightPcs => Fl(p) # NoFlight
      BY <1>5, <1>10 DEF ResInv, Tagged, FlightPcs
    <2> QED BY <1>2, <1>4, <1>10, <2>1 DEF ResInv, Tagged
  <1>20. Unmade'
    BY <1>2, <1>4, <1>10, <1>13 DEF ResInv, Unmade
  <1>21. Leaving'
    BY <1>2, <1>4, <1>10, <1>13 DEF ResInv, Leaving
  <1>22. Inserting'
    <2> SUFFICES ASSUME NEW p \in Spots, Pc(p)' = "insert" PROVE Val(p) \in resident' /\ Val(p) \notin Entries
      BY <1>4, <1>10, <1>13 DEF Inserting
    <2>1. CASE p = h
      BY <1>6, <1>8, <1>12, <2>1
    <2>2. CASE p # h
      BY <1>8, <1>10, <2>2 DEF ResInv, Inserting
    <2> QED BY <2>1, <2>2
  <1>23. Inserted'
    <2> SUFFICES ASSUME NEW w \in resident', w \notin Entries, handle[w] # "dropping"
                 PROVE  \E p \in Spots : Pc(p)' = "insert" /\ Val(p) = w
      BY <1>2, <1>4, <1>10, <1>13 DEF Inserted
    <2>1. CASE w = v
      BY <1>5, <1>6, <2>1
    <2>2. CASE w # v
      <3>1. PICK p \in Spots : Pc(p) = "insert" /\ Val(p) = w
        BY <1>8, <2>2 DEF ResInv, Inserted
      <3>2. Pc(p)' = "insert"
        BY <1>6, <1>10, <2>2, <3>1
      <3> QED BY <3>1, <3>2
    <2> QED BY <2>1, <2>2
  <1>24. Entries' \subseteq resident'
    BY <1>8, <1>13 DEF ResInv
  <1> QED BY <1>4, <1>13, <1>14, <1>15, <1>16, <1>17, <1>18, <1>19, <1>20, <1>21, <1>22, <1>23, <1>24
          DEF ResInv

\* The value forgets the flight of its owner.
LEMMA ClearStep ==
  ASSUME ResInv, ResidencyAssumption, NEW t \in Threads, Clear(t)
  PROVE  ResInv'
  <1>1. PICK next \in {"landing", "failing", "panicking"} : Goto(t, next)
    BY DEF Clear
  <1>2. /\ stack[t] # << >> /\ Top(t).pc \in {"installed", "failed", "panicked"}
        /\ current' = [current EXCEPT ![Top(t).value] = NoFlight]
    BY DEF Clear, At
  <1>3. UNCHANGED <<order, resident, handle, flight, jobs>>
    BY DEF Clear, cacheVars, valueVars
  <1>4. StacksTyped /\ next \in Pcs
    BY DEF ResInv, ResTypeOK, StacksTyped, Pcs, OwnPcs
  <1>5. StacksTyped' /\ Nested' /\ Spots' = Spots
    BY <1>1, <1>2, <1>4, GotoView DEF ResInv
  <1>6. PICK h \in Spots : /\ Pc(h) = Top(t).pc /\ Val(h) = Top(t).value /\ Fl(h) = Top(t).flight
                           /\ Pc(h)' = next /\ Val(h)' = Val(h) /\ Fl(h)' = Fl(h)
                           /\ \A q \in Spots \ {h} : Same(q)
    BY <1>1, <1>2, <1>4, GotoView DEF ResInv
  <1>7. PICK v : v = Val(h)
    OBVIOUS
  <1>8. PICK f : f = Fl(h)
    OBVIOUS
  <1>9. Ranged /\ NoFlight \notin Flights
    BY <1>4, RangedIs DEF ResidencyAssumption, Flights
  <1>10. /\ v \in Values /\ f \in Flights /\ f # NoFlight
         /\ Own(h) /\ Known(h) /\ Own(h)' /\ ~Known(h)' /\ ~Early(h)' /\ ~Early(h)
         /\ ~Installing(h) /\ ~Installing(h)' /\ Pc(h) # "insert" /\ Pc(h)' # "insert"
    <2>1. Fl(h) # NoFlight
      BY <1>2, <1>6, TopHeld DEF FlightPcs
    <2> QED BY <1>2, <1>6, <1>7, <1>8, <1>9, <2>1
        DEF Ranged, Own, Known, Early, Installing, OwnPcs, KnownPcs, EarlyPcs, InstallPcs
  <1>11. /\ \A q \in Spots \ {h} : Pc(q)' = Pc(q) /\ Own(q)' = Own(q) /\ Known(q)' = Known(q)
         /\ \A q \in Spots \ {h} : Early(q)' = Early(q) /\ Installing(q)' = Installing(q)
         /\ \A q \in Spots : Val(q)' = Val(q) /\ Fl(q)' = Fl(q)
    BY <1>6, SameMeans
  <1>12. current[v] = f /\ flight[f] = "Running"
    BY <1>7, <1>8, <1>10 DEF ResInv, OwnersKnown, OwnersRun
  <1>13. /\ current' \in [Values -> Flights \union {NoFlight}] /\ current'[v] = NoFlight
         /\ \A w \in Values : w # v => current'[w] = current[w]
    BY <1>2, <1>6, <1>7, <1>10 DEF ResInv, ResTypeOK
  <1>14. Entries' = Entries /\ IsInjective(order)' /\ \A w, g : JobRef(w, g)' = JobRef(w, g)
    BY <1>3 DEF ResInv, Entries, JobRef, IsInjective
  <1>15. ResTypeOK'
    BY <1>3, <1>5, <1>13 DEF ResInv, ResTypeOK, StacksTyped
  <1>16. OwnersRun' /\ OwnersAlone'
    <2>1. \A p \in Spots : Own(p)' => Own(p)
      BY <1>10, <1>11
    <2> QED BY <1>3, <1>5, <1>11, <2>1 DEF ResInv, OwnersRun, OwnersAlone
  <1>17. OwnersKnown'
    <2> SUFFICES ASSUME NEW p \in Spots, Known(p)' PROVE current'[Val(p)] = Fl(p)
      BY <1>5, <1>11 DEF OwnersKnown
    <2>1. p # h /\ Known(p) /\ Val(p) \in Values
      BY <1>9, <1>10, <1>11 DEF Ranged
    <2>2. current[Val(p)] = Fl(p) /\ Own(p)
      BY <2>1 DEF ResInv, OwnersKnown, Known, Own, KnownPcs, OwnPcs
    <2>3. Val(p) # v
      BY <1>8, <1>10, <1>12, <2>1, <2>2 DEF ResInv, OwnersAlone
    <2> QED BY <1>13, <2>1, <2>2, <2>3
  <1>18. OwnersEarly'
    <2>1. \A p \in Spots : Early(p)' => Early(p)
      BY <1>10, <1>11
    <2> QED BY <1>3, <1>5, <1>11, <2>1 DEF ResInv, OwnersEarly
  <1>19. QueuedEmpty'
    <2> SUFFICES ASSUME NEW w \in Values, current'[w] # NoFlight, flight[current'[w]] = "Queued"
                 PROVE  w \notin resident
      BY <1>3 DEF QueuedEmpty
    <2>1. current'[w] = current[w]
      BY <1>13
    <2> QED BY <2>1 DEF ResInv, QueuedEmpty
  <1>20. QueuedKnown'
    <2> SUFFICES ASSUME NEW g \in Flights, flight[g] = "Queued"
                 PROVE  /\ \A p \in Spots : Fl(p) = g => current'[Val(p)] = g
                        /\ \A w \in Values : JobRef(w, g) => current'[w] = g
      BY <1>3, <1>5, <1>11, <1>14 DEF QueuedKnown
    <2>1. /\ \A p \in Spots : Fl(p) = g => current[Val(p)] = g
          /\ \A w \in Values : JobRef(w, g) => current[w] = g
      BY DEF ResInv, QueuedKnown
    <2>2. \A w \in Values : current[w] = g => current'[w] = g
      BY <1>12, <1>13
    <2> QED BY <1>9, <2>1, <2>2 DEF Ranged
  <1>21. Tagged'
    <2> SUFFICES ASSUME NEW p \in Spots
                 PROVE  /\ Pc(p)' \in FlightPcs => Fl(p) # NoFlight
                        /\ Installing(p)' => handle[Val(p)] = "none"
      BY <1>3, <1>5, <1>11 DEF Tagged
    <2>1. CASE p = h
      BY <1>8, <1>10, <2>1
    <2>2. CASE p # h
      BY <1>11, <2>2 DEF ResInv, Tagged
    <2> QED BY <2>1, <2>2
  <1>22. \A w \in Values : current[w] = NoFlight => current'[w] = NoFlight
    BY <1>13
  <1>23. Unmade'
    <2>1. \A p \in Spots : Installing(p) => Installing(p)'
      BY <1>10, <1>11
    <2> QED BY <1>3, <1>5, <1>11, <1>14, <1>22, <2>1 DEF ResInv, Unmade
  <1>24. Leaving'
    BY <1>3, <1>5, <1>11, <1>14, <1>22 DEF ResInv, Leaving
  <1>25. Inserting'
    BY <1>3, <1>5, <1>10, <1>11, <1>14 DEF ResInv, Inserting
  <1>26. Inserted'
    BY <1>3, <1>5, <1>10, <1>11, <1>14 DEF ResInv, Inserted
  <1>27. Entries' \subseteq resident'
    BY <1>3, <1>14 DEF ResInv
  <1> QED BY <1>5, <1>14, <1>15, <1>16, <1>17, <1>18, <1>19, <1>20, <1>21, <1>23, <1>24, <1>25,
             <1>26, <1>27 DEF ResInv

\* What is left of a sequence without repetitions when its beginning goes.
LEMMA TailLeft ==
  ASSUME NEW S, NEW s \in Seq(S), IsInjective(s), NEW first \in 1 .. Len(s)
  PROVE  /\ SubSeq(s, first, Len(s)) \in Seq(S)
         /\ IsInjective(SubSeq(s, first, Len(s)))
         /\ ToSet(SubSeq(s, first, Len(s))) = ToSet(s) \ {s[i] : i \in 1 .. first - 1}
         /\ s[Len(s)] \in ToSet(SubSeq(s, first, Len(s)))
  <1>1. PICK n : n = Len(s)
    OBVIOUS
  <1>2. PICK r : r = SubSeq(s, first, n)
    OBVIOUS
  <1>3. /\ n \in Nat /\ first \in 1 .. n /\ DOMAIN s = 1 .. n
        /\ \A i \in 1 .. n : s[i] \in S
        /\ \A i, j \in 1 .. n : s[i] = s[j] => i = j
    BY <1>1, LenProperties DEF IsInjective
  <1>4. \A i \in first .. n : s[i] \in S
    BY <1>3
  <1>5. PICK k : k = n - first + 1
    OBVIOUS
  <1>6. r \in Seq(S) /\ Len(r) = k /\ k \in Nat /\ k >= 1 /\ \A i \in 1 .. k : r[i] = s[first + i - 1]
    <2>1. /\ r \in Seq(S) /\ Len(r) = IF first <= n THEN n - first + 1 ELSE 0
          /\ \A i \in 1 .. n - first + 1 : r[i] = s[first + i - 1]
      BY <1>2, <1>3, <1>4, SubSeqProperties
    <2> QED BY <1>3, <1>5, <2>1
  <1>7. DOMAIN r = 1 .. k
    BY <1>6, LenProperties
  <1>8. \A i \in 1 .. k : first + i - 1 \in 1 .. n
    BY <1>3, <1>5
  <1>9. IsInjective(r)
    <2> SUFFICES ASSUME NEW i \in 1 .. k, NEW j \in 1 .. k, r[i] = r[j] PROVE i = j
      BY <1>7 DEF IsInjective
    <2>1. s[first + i - 1] = s[first + j - 1]
      BY <1>6
    <2>2. first + i - 1 = first + j - 1
      BY <1>3, <1>8, <2>1
    <2> QED BY <1>3, <2>2
  <1>10. ToSet(r) = ToSet(s) \ {s[i] : i \in 1 .. first - 1}
    <2>1. ASSUME NEW x \in ToSet(r) PROVE x \in ToSet(s) /\ x \notin {s[i] : i \in 1 .. first - 1}
      <3>1. PICK i \in 1 .. k : x = r[i]
        BY <1>7 DEF ToSet
      <3>2. PICK j \in 1 .. n : j = first + i - 1
        BY <1>8
      <3>3. x = s[j] /\ j >= first
        BY <1>3, <1>6, <3>1, <3>2
      <3>4. \A m \in 1 .. first - 1 : m \in 1 .. n /\ m # j
        BY <1>3, <3>2, <3>3
      <3> QED BY <1>3, <3>2, <3>3, <3>4 DEF ToSet
    <2>2. ASSUME NEW x \in ToSet(s), x \notin {s[i] : i \in 1 .. first - 1} PROVE x \in ToSet(r)
      <3>1. PICK j \in 1 .. n : x = s[j]
        BY <1>3 DEF ToSet
      <3>2. j \notin 1 .. first - 1
        BY <2>2, <3>1
      <3>3. PICK i : i = j - first + 1
        OBVIOUS
      <3>4. i \in 1 .. k /\ first + i - 1 = j
        BY <1>3, <1>5, <3>1, <3>2, <3>3
      <3>5. r[i] = x
        BY <1>6, <3>1, <3>4
      <3> QED BY <1>7, <3>4, <3>5 DEF ToSet
    <2> QED BY <2>1, <2>2
  <1>11. s[n] \in ToSet(r)
    <2>1. k \in 1 .. k /\ first + k - 1 = n
      BY <1>3, <1>5, <1>6
    <2>2. r[k] = s[n]
      BY <1>6, <2>1
    <2> QED BY <1>7, <2>1, <2>2 DEF ToSet
  <1> QED BY <1>1, <1>2, <1>6, <1>9, <1>10, <1>11

\* The entry of the value that was installed, and the eviction of the least recent
\* ones.
LEMMA InsertOrder ==
  ASSUME ResInv, NEW t \in Threads, Insert(t), NEW v \in Values, v = Top(t).value
  PROVE  /\ order' \in Seq(Values) /\ IsInjective(order')
         /\ v \in Entries'
         /\ \E gone \in SUBSET (Entries \union {v}) :
              /\ Entries' = (Entries \union {v}) \ gone
              /\ resident' = resident \ {w \in gone : handle[w] # "dropping"}
              /\ residentBytes' = (residentBytes + (IF v \in Entries THEN 0 ELSE Size[v])) - Bytes(gone)
         /\ residentBytes' <= budget \/ Len(order') = 1
  <1>1. PICK all : all = Append(Without(order, v), v)
    OBVIOUS
  <1>2. PICK n : n = Len(all)
    OBVIOUS
  <1>3. order \in Seq(Values) /\ IsInjective(order) /\ Entries = ToSet(order)
    BY EntriesAre DEF ResInv, ResTypeOK
  <1>4. all \in Seq(Values) /\ IsInjective(all) /\ ToSet(all) = Entries \union {v}
    BY <1>1, <1>3, Moved
  <1>5. n \in Nat /\ n >= 1 /\ all[n] = v
    <2>1. PICK r : r = Without(order, v)
      OBVIOUS
    <2>2. r \in Seq(Values)
      BY <1>3, <2>1, WithoutOthers
    <2>3. Len(r) \in Nat /\ Len(all) = Len(r) + 1 /\ all[Len(r) + 1] = v
      BY <1>1, <2>1, <2>2, AppendProperties, LenProperties
    <2> QED BY <1>2, <2>3
  <1> DEFINE bytes == residentBytes + IF v \in Entries THEN 0 ELSE Size[v]
             before(i) == bytes - Bytes({all[j] : j \in 1 .. i - 1})
             fitting == {i \in 1 .. n : i = n \/ before(i) <= budget}
             gone == {all[i] : i \in 1 .. Min(fitting) - 1}
  <1>6. /\ order' = SubSeq(all, Min(fitting), n)
        /\ resident' = resident \ {w \in gone : handle[w] # "dropping"}
        /\ residentBytes' = before(Min(fitting))
    BY <1>1, <1>2 DEF Insert
  <1> HIDE DEF bytes, before
  <1>7. fitting \in SUBSET Nat /\ n \in fitting
    BY <1>5
  <1> HIDE DEF fitting
  <1>8. Min(fitting) \in fitting
    BY <1>7, LeastIsIn
  <1>9. Min(fitting) \in 1 .. n
    BY <1>8 DEF fitting
  <1>10. PICK first \in 1 .. n : first = Min(fitting)
    BY <1>9
  <1>11. PICK out : out = {all[i] : i \in 1 .. first - 1}
    OBVIOUS
  <1>12. order' = SubSeq(all, first, Len(all)) /\ resident' = resident \ {w \in out : handle[w] # "dropping"}
    BY <1>2, <1>6, <1>10, <1>11
  <1>13. /\ order' \in Seq(Values) /\ IsInjective(order')
         /\ ToSet(order') = ToSet(all) \ out /\ v \in ToSet(order')
    <2>1. PICK r : r = SubSeq(all, first, Len(all))
      OBVIOUS
    <2>2. first \in 1 .. Len(all)
      BY <1>2, <1>10
    <2>3. /\ r \in Seq(Values) /\ IsInjective(r)
          /\ ToSet(r) = ToSet(all) \ {all[i] : i \in 1 .. first - 1}
          /\ all[Len(all)] \in ToSet(r)
      BY <1>4, <2>1, <2>2, TailLeft
    <2>4. order' = r
      BY <1>12, <2>1
    <2> QED BY <1>2, <1>5, <1>11, <2>3, <2>4
  <1>14. out \subseteq ToSet(all)
    <2>1. DOMAIN all = 1 .. n
      BY <1>2, <1>4, LenProperties
    <2>2. \A i \in 1 .. first - 1 : i \in 1 .. n
      BY <1>5, <1>10
    <2> QED BY <1>11, <2>1, <2>2 DEF ToSet
  <1>15. Entries' = ToSet(order')
    <2>1. (order \in Seq(Values) => Entries = ToSet(order))'
      BY EntriesAre, PTL
    <2> QED BY <1>13, <2>1
  <1>16. out \in SUBSET (Entries \union {v}) /\ Entries' = (Entries \union {v}) \ out /\ v \in Entries'
    BY <1>4, <1>13, <1>14, <1>15
  <1>17. residentBytes' = bytes - Bytes(out)
    BY <1>6, <1>10, <1>11 DEF before
  <1>18. residentBytes' <= budget \/ Len(order') = 1
    <2>1. first = n \/ before(first) <= budget
      BY <1>8, <1>10 DEF fitting
    <2>2. CASE first = n
      <3>1. order' = SubSeq(all, n, n)
        BY <1>2, <1>12, <2>2
      <3>2. \A i \in n .. n : all[i] \in Values
        BY <1>2, <1>4, <1>5, LenProperties
      <3>3. Len(SubSeq(all, n, n)) = IF n <= n THEN n - n + 1 ELSE 0
        BY <1>5, <3>2, SubSeqProperties
      <3> QED BY <1>5, <3>1, <3>3
    <2> QED BY <1>6, <1>10, <2>1, <2>2
  <1>19. residentBytes' = (residentBytes + (IF v \in Entries THEN 0 ELSE Size[v])) - Bytes(out)
    BY <1>17 DEF bytes
  <1> HIDE DEF gone
  <1> QED BY <1>12, <1>13, <1>16, <1>18, <1>19

LEMMA InsertStep ==
  ASSUME ResInv, ResidencyAssumption, NEW t \in Threads, Insert(t)
  PROVE  ResInv'
  <1>1. stack[t] # << >> /\ Top(t).pc = "insert"
    BY DEF Insert, At
  <1>2. UNCHANGED <<current, flight, jobs>>
    BY DEF Insert, flightVars
  <1>3. PICK v : v = Top(t).value
    OBVIOUS
  <1>4. StacksTyped
    BY DEF ResInv, ResTypeOK, StacksTyped
  <1>5. PICK h : h = Here(t)
    OBVIOUS
  <1>6. /\ h \in Spots /\ Top(t) \in CallType
        /\ Pc(h) = "insert" /\ Val(h) = v /\ Fl(h) = Top(t).flight
    BY <1>1, <1>3, <1>4, <1>5, TopIs
  <1>7. Ranged
    BY <1>4, RangedIs
  <1>8. v \in Values /\ v \in resident /\ v \notin Entries
    BY <1>6, <1>7 DEF Ranged, ResInv, Inserting
  <1>9. order' \in Seq(Values) /\ IsInjective(order') /\ v \in Entries'
    BY <1>3, <1>8, InsertOrder
  <1>10. PICK gone \in SUBSET (Entries \union {v}) :
           /\ Entries' = (Entries \union {v}) \ gone
           /\ resident' = resident \ {w \in gone : handle[w] # "dropping"}
    BY <1>3, <1>8, InsertOrder
  <1>11. \/ Fl(h) = NoFlight /\ Return(t) /\ handle' = [handle EXCEPT ![v] = "held"]
         \/ Fl(h) # NoFlight /\ Goto(t, "installed") /\ handle' = handle
    BY <1>3, <1>6 DEF Insert
  \* h is the only call that makes or rebuilds v.
  <1>12. \/ Fl(h) # NoFlight /\ Known(h) /\ Own(h) /\ current[v] = Fl(h) /\ handle[v] = "held"
         \/ Fl(h) = NoFlight /\ Installing(h) /\ handle[v] = "none"
    <2>1. CASE Fl(h) # NoFlight
      <3>1. Known(h) /\ Own(h) /\ ~Installing(h)
        BY <1>6, <2>1 DEF Known, Own, Installing, KnownPcs, OwnPcs
      <3>2. current[v] = Fl(h)
        BY <1>6, <3>1 DEF ResInv, OwnersKnown
      <3>3. handle[v] = "held"
        BY <1>6, <3>1, CallsHeld
      <3> QED BY <2>1, <3>1, <3>2, <3>3
    <2>2. CASE Fl(h) = NoFlight
      <3>1. Installing(h)
        BY <1>6, <2>2 DEF Installing, InstallPcs
      <3> QED BY <1>6, <2>2, <3>1 DEF ResInv, Tagged
    <2> QED BY <2>1, <2>2
  <1>13. \A p \in Spots : Pc(p) = "insert" /\ Val(p) = v => p = h
    <2> SUFFICES ASSUME NEW p \in Spots, Pc(p) = "insert", Val(p) = v PROVE p = h
      OBVIOUS
    <2>1. CASE handle[v] = "none"
      BY <1>6, <1>8, <2>1 DEF ResInv, Unmade
    <2>2. CASE handle[v] # "none"
      <3>1. Fl(p) # NoFlight
        <4>1. ~Installing(p)
          BY <2>2 DEF ResInv, Tagged
        <4> QED BY <4>1 DEF Installing, InstallPcs
      <3>2. Known(p) /\ Own(p)
        BY <3>1 DEF Known, Own, KnownPcs, OwnPcs
      <3>3. current[v] = Fl(p)
        BY <3>2 DEF ResInv, OwnersKnown
      <3> QED BY <1>6, <1>12, <2>2, <3>2, <3>3 DEF ResInv, OwnersAlone
    <2> QED BY <2>1, <2>2
  <1>14. /\ StacksTyped' /\ Nested' /\ Spots' \subseteq Spots
         /\ \A q \in Spots \ {h} : q \in Spots' /\ Same(q)
         /\ h \in Spots' => /\ Pc(h)' = "installed" /\ Val(h)' = Val(h) /\ Fl(h)' = Fl(h)
                            /\ Fl(h) # NoFlight
    <2>1. CASE Fl(h) = NoFlight
      <3>1. Return(t)
        BY <1>11, <2>1
      <3>2. StacksTyped' /\ Nested' /\ Spots' = Spots \ {h} /\ \A q \in Spots' : Same(q)
        BY <1>1, <1>4, <1>5, <3>1, ReturnView DEF ResInv
      <3> QED BY <3>2
    <2>2. CASE Fl(h) # NoFlight
      <3>1. Goto(t, "installed")
        BY <1>11, <2>2
      <3>2. PICK call : call = [Top(t) EXCEPT !.pc = "installed"]
        OBVIOUS
      <3>3. "installed" \in Pcs
        BY DEF Pcs, OwnPcs
      <3>4. /\ call \in CallType /\ call.pc = "installed"
            /\ call.value = Top(t).value /\ call.flight = Top(t).flight
        BY <1>6, <3>2, <3>3, GotoIs
      <3>5. Become(t, call)
        BY <3>1, <3>2 DEF Goto
      <3>6. StacksTyped' /\ Nested' /\ Spots' = Spots
        BY <1>1, <1>4, <3>4, <3>5, BecomeView DEF ResInv
      <3>7. PICK g : /\ g = Here(t) /\ g \in Spots
                     /\ Pc(g)' = call.pc /\ Val(g)' = call.value /\ Fl(g)' = call.flight
                     /\ \A q \in Spots \ {g} : Same(q)
        BY <1>1, <1>4, <3>4, <3>5, BecomeView DEF ResInv
      <3>8. g = h
        BY <1>5, <3>7
      <3> QED BY <1>3, <1>6, <2>2, <3>4, <3>6, <3>7, <3>8
    <2> QED BY <2>1, <2>2
  <1>15. /\ \A q \in Spots \ {h} : Pc(q)' = Pc(q) /\ Own(q)' = Own(q) /\ Known(q)' = Known(q)
         /\ \A q \in Spots \ {h} : Early(q)' = Early(q) /\ Installing(q)' = Installing(q)
         /\ \A q \in Spots' : q \in Spots /\ Val(q)' = Val(q) /\ Fl(q)' = Fl(q)
    BY <1>14, SameMeans
  <1>16. h \in Spots' => ~Early(h)' /\ ~Installing(h)' /\ Pc(h)' # "insert" /\ Fl(h) # NoFlight
    BY <1>14 DEF Early, Installing, EarlyPcs, InstallPcs
  <1>17. /\ \A q \in Spots' : Own(q)' => Own(q)
         /\ \A q \in Spots' : Known(q)' => Known(q)
         /\ \A q \in Spots' : Early(q)' => Early(q)
         /\ \A q \in Spots' : Installing(q)' => Installing(q) /\ q # h
         /\ \A q \in Spots' : Pc(q)' = "insert" => Pc(q) = "insert" /\ q # h
    <2>1. h \in Spots' => Own(h) /\ Known(h)
      BY <1>12, <1>16
    <2> QED BY <1>15, <1>16, <2>1
  <1>18. \A w, g : JobRef(w, g)' = JobRef(w, g)
    BY <1>2 DEF JobRef
  <1>19. /\ handle' \in [Values -> {"held", "dropping", "none"}]
         /\ \A w \in Values : w # v => handle'[w] = handle[w]
         /\ handle'[v] = "held"
    BY <1>8, <1>11, <1>12 DEF ResInv, ResTypeOK
  <1>20. ResTypeOK'
    <2>1. resident' \subseteq Values
      BY <1>10 DEF ResInv, ResTypeOK
    <2> QED BY <1>2, <1>9, <1>14, <1>19, <2>1 DEF ResInv, ResTypeOK, StacksTyped
  <1>21. OwnersRun' /\ OwnersAlone' /\ OwnersKnown'
    BY <1>2, <1>15, <1>17 DEF ResInv, OwnersRun, OwnersAlone, OwnersKnown
  <1>22. OwnersEarly' /\ QueuedEmpty'
    BY <1>2, <1>10, <1>15, <1>17 DEF ResInv, OwnersEarly, QueuedEmpty
  <1>23. QueuedKnown'
    BY <1>2, <1>15, <1>18 DEF ResInv, QueuedKnown
  <1>24. Tagged'
    <2> SUFFICES ASSUME NEW p \in Spots'
                 PROVE  /\ Pc(p)' \in FlightPcs => Fl(p) # NoFlight
                        /\ Installing(p)' => handle'[Val(p)] = "none"
      BY <1>15 DEF Tagged
    <2>1. Pc(p)' \in FlightPcs => Fl(p) # NoFlight
      BY <1>15, <1>16 DEF ResInv, Tagged
    <2>2. ASSUME Installing(p)' PROVE handle'[Val(p)] = "none"
      <3>1. Installing(p) /\ p # h /\ p \in Spots /\ Val(p) \in Values
        BY <1>7, <1>15, <1>17, <2>2 DEF Ranged
      <3>2. handle[Val(p)] = "none"
        BY <3>1 DEF ResInv, Tagged
      <3>3. Val(p) # v
        BY <1>6, <1>8, <3>1, <3>2 DEF ResInv, Unmade
      <3> QED BY <1>19, <3>1, <3>2, <3>3
    <2> QED BY <2>1, <2>2
  <1>25. Unmade'
    <2> SUFFICES ASSUME NEW w \in Values, handle'[w] = "none"
                 PROVE  /\ current[w] = NoFlight /\ w \notin Entries'
                        /\ \A g \in Flights : ~JobRef(w, g)
                        /\ \A p \in Spots' : Val(p) = w => Installing(p)'
                        /\ \A p, q \in Spots' : Val(p) = w /\ Val(q) = w => p = q
      BY <1>2, <1>15, <1>18 DEF Unmade
    <2>1. w # v /\ handle[w] = "none"
      BY <1>19
    <2>2. /\ current[w] = NoFlight /\ w \notin Entries
          /\ \A g \in Flights : ~JobRef(w, g)
          /\ \A p \in Spots : Val(p) = w => Installing(p)
          /\ \A p, q \in Spots : Val(p) = w /\ Val(q) = w => p = q
      BY <2>1 DEF ResInv, Unmade
    <2>3. w \notin Entries'
      BY <1>10, <2>1, <2>2
    <2>4. \A p \in Spots' : Val(p) = w => Installing(p)'
      BY <1>6, <1>15, <2>1, <2>2
    <2> QED BY <1>15, <2>2, <2>3, <2>4
  <1>26. Leaving'
    <2>1. \A w \in Values : handle'[w] = "dropping" => handle[w] = "dropping"
      BY <1>19
    <2> QED BY <1>2, <1>15, <1>18, <2>1 DEF ResInv, Leaving
  <1>27. Inserting'
    <2> SUFFICES ASSUME NEW p \in Spots', Pc(p)' = "insert"
                 PROVE  Val(p) \in resident' /\ Val(p) \notin Entries'
      BY <1>15 DEF Inserting
    <2>1. Pc(p) = "insert" /\ p # h /\ p \in Spots
      BY <1>15, <1>17
    <2>2. Val(p) # v /\ Val(p) \in resident /\ Val(p) \notin Entries
      BY <1>13, <2>1 DEF ResInv, Inserting
    <2> QED BY <1>10, <2>2
  <1>28. Inserted'
    <2> SUFFICES ASSUME NEW w \in resident', w \notin Entries', handle'[w] # "dropping"
                 PROVE  \E p \in Spots' : Pc(p)' = "insert" /\ Val(p) = w
      BY <1>15 DEF Inserted
    <2>1. w # v /\ w \in resident /\ w \in Values
      BY <1>9, <1>10 DEF ResInv, ResTypeOK
    <2>2. handle[w] # "dropping"
      BY <1>19, <2>1
    <2>3. w \notin gone
      BY <1>10, <2>2
    <2>4. w \notin Entries
      BY <1>10, <2>3
    <2>5. PICK p \in Spots : Pc(p) = "insert" /\ Val(p) = w
      BY <2>1, <2>2, <2>4 DEF ResInv, Inserted
    <2>6. p # h
      BY <1>6, <2>1, <2>5
    <2> QED BY <1>14, <1>15, <2>5, <2>6
  <1>29. Entries' \subseteq resident'
    <2>1. Entries \subseteq resident
      BY DEF ResInv
    <2> QED BY <1>8, <1>10, <2>1
  <1> QED BY <1>9, <1>14, <1>20, <1>21, <1>22, <1>23, <1>24, <1>25, <1>26, <1>27, <1>28, <1>29 DEF ResInv

-----------------------------------------------------------------------------
(* The theorems *)

LEMMA InitResInv ==
  ASSUME ResidencyAssumption, Init
  PROVE  ResInv
  <1>1. /\ order = << >> /\ resident = {} /\ jobs = << >>
        /\ handle = [v \in Values |-> IF v \in Droppable THEN "none" ELSE "held"]
        /\ current = [v \in Values |-> NoFlight]
        /\ flight = [f \in Flights |-> "Queued"]
        /\ stack = [t \in Threads |-> << >>]
    BY DEF Init
  <1>2. Spots = {}
    <2> SUFFICES ASSUME NEW p \in Spots PROVE FALSE
      OBVIOUS
    <2>1. PICK t \in Threads : \E i \in 1 .. Len(stack[t]) : p = <<t, i>>
      BY SpotsMean
    <2>2. stack[t] = << >>
      BY <1>1
    <2> QED BY <2>1, <2>2
  <1>3. \A v, f : ~JobRef(v, f)
    BY <1>1 DEF JobRef
  <1>4. Entries = {}
    BY <1>1 DEF Entries
  <1>5. ResTypeOK
    <2>1. order \in Seq(Values) /\ jobs \in Seq(JobType) /\ resident \subseteq Values
      BY <1>1
    <2>2. stack \in [Threads -> Seq(CallType)]
      <3>1. << >> \in Seq(CallType)
        OBVIOUS
      <3> QED BY <1>1, <3>1
    <2>3. /\ handle \in [Values -> {"held", "dropping", "none"}]
          /\ current \in [Values -> Flights \union {NoFlight}]
          /\ flight \in [Flights -> {"Queued", "Running", "Ok", "Err"}]
      BY <1>1
    <2> QED BY <2>1, <2>2, <2>3 DEF ResTypeOK
  <1>6. Nested /\ OwnersRun /\ OwnersAlone /\ OwnersKnown /\ OwnersEarly
    BY <1>2 DEF Nested, OwnersRun, OwnersAlone, OwnersKnown, OwnersEarly
  <1>7. QueuedEmpty /\ QueuedKnown /\ Tagged
    BY <1>1, <1>2, <1>3 DEF QueuedEmpty, QueuedKnown, Tagged
  <1>8. Unmade /\ Leaving
    BY <1>1, <1>2, <1>3, <1>4 DEF Unmade, Leaving
  <1>9. Inserting /\ Inserted /\ Entries \subseteq resident
    BY <1>1, <1>2, <1>4 DEF Inserting, Inserted
  <1>10. IsInjective(order)
    BY <1>1 DEF IsInjective
  <1> QED BY <1>5, <1>6, <1>7, <1>8, <1>9, <1>10 DEF ResInv

\* Nothing that the invariant is about changes.
LEMMA NoStep ==
  ASSUME ResInv, ResidencyAssumption, UNCHANGED <<order, valueVars, flightVars, jobs, stack>>
  PROVE  ResInv'
  <1>1. /\ Still /\ UNCHANGED <<resident, handle, current, flight, jobs, stack, order>>
    BY DEF Still, valueVars, flightVars
  <1>2. Spots' = Spots /\ Nested' /\ \A q : Same(q)
    BY <1>1, StackStill DEF ResInv
  <1>3. \A p \in Spots' : GoesOn(p)
    BY <1>2, SameGoesOn DEF ResInv
  <1>4. FlightsQuiet /\ JobsKept
    BY <1>1, StillFlights, StillJobs
  <1>5. ResTypeOK' /\ Entries' = Entries /\ IsInjective(order)'
    BY <1>1 DEF ResInv, ResTypeOK, Entries, IsInjective
  <1>6. Quiet
    BY <1>1, <1>2, <1>3, <1>4, <1>5 DEF Quiet, FlightsQuiet, JobsKept
  <1> QED BY <1>6, QuietStep

LEMMA RunningStep ==
  ASSUME ResInv, ResidencyAssumption, NEW t \in Threads, Running(t)
  PROVE  ResInv'
  <1>1. CASE Touch(t)
    BY <1>1, TouchQuiet, QuietStep
  <1>2. CASE GetJoin(t) \/ PrefetchJoin(t)
    <2>1. CASE current[Top(t).value] # NoFlight \/ Top(t).value \in resident
      BY <1>2, <2>1, JoinQuiet, QuietStep
    <2>2. CASE current[Top(t).value] = NoFlight /\ Top(t).value \notin resident
      BY <1>2, <2>2, JoinCreateStep
    <2> QED BY <2>1, <2>2
  <1>3. CASE Send(t)
    BY <1>3, SendQuiet, QuietStep
  <1>4. CASE LoaderTake(t)
    BY <1>4, LoaderTakeQuiet, QuietStep
  <1>5. CASE Claim(t)
    <2>1. CASE flight[Top(t).flight] = "Queued"
      BY <1>5, <2>1, ClaimStep
    <2>2. CASE flight[Top(t).flight] # "Queued"
      BY <1>5, <2>2, ClaimedQuiet, QuietStep
    <2> QED BY <2>1, <2>2
  <1>6. CASE Rebuild(t)
    BY <1>6, RebuildQuiet, QuietStep
  <1>7. CASE RebuildEnds(t)
    BY <1>7, RebuildEndsQuiet, QuietStep
  <1>8. CASE InstallSlot(t)
    BY <1>8, InstallSlotStep
  <1>9. CASE Insert(t)
    BY <1>9, InsertStep
  <1>10. CASE Clear(t)
    BY <1>10, ClearStep
  <1>11. CASE Publish(t)
    BY <1>11, PublishQuiet, QuietStep
  <1>12. CASE Unwind(t)
    BY <1>12, UnwindQuiet, QuietStep
  <1>13. CASE Wait(t)
    BY <1>13, LeaveQuiet, QuietStep
  <1> QED BY <1>1, <1>2, <1>3, <1>4, <1>5, <1>6, <1>7, <1>8, <1>9, <1>10, <1>11, <1>12, <1>13 DEF Running

LEMMA NextResInv ==
  ASSUME ResInv, ResidencyAssumption, [Next]_vars
  PROVE  ResInv'
  <1>1. CASE UNCHANGED vars
    BY <1>1, NoStep DEF vars, cacheVars
  <1>2. ASSUME NEW v \in Values, Lazy(v) \/ DropBegin(v) \/ DropEnd(v) PROVE ResInv'
    BY <1>2, LazyStep, DropBeginStep, DropEndStep
  <1>3. ASSUME NEW v \in Values, NEW t \in Callers, WithValue(t, v) \/ Get(t, v) \/ Prefetch(t, v)
        PROVE  ResInv'
    BY <1>3, WithValueStep, GetQuiet, PrefetchQuiet, QuietStep
  <1>4. ASSUME NEW b \in Budgets, SetBudget(b) PROVE ResInv'
    BY <1>4, NoStep DEF SetBudget
  <1>5. ASSUME NEW t \in Callers, PrefetchWait(t) \/ PrefetchDrop(t) PROVE ResInv'
    <2>1. t \in Threads
      BY DEF Threads
    <2> QED BY <1>5, <2>1, PrefetchWaitQuiet, LeaveQuiet, QuietStep
  <1>6. ASSUME NEW t \in Threads, Running(t) PROVE ResInv'
    BY <1>6, RunningStep
  <1> QED BY <1>1, <1>2, <1>3, <1>4, <1>5, <1>6 DEF Next

\* The rebuildable values keep the invariant, whoever gets, prefetches, makes and
\* drops them, and however their rebuilds end.
THEOREM ResidencyInvariant == Spec => []ResInv
  <1>1. Init => ResInv
    BY InitResInv, ResidencyAssumption
  <1>2. ResInv /\ [Next]_vars => ResInv'
    BY NextResInv, ResidencyAssumption
  <1> QED BY <1>1, <1>2, PTL DEF Spec

\* A thread's call has a spot.
LEMMA SpotOf ==
  ASSUME NEW t \in Threads, NEW c \in CallsOf(t)
  PROVE  \E p \in Spots : p[1] = t /\ CallAt(p) = c
  <1>1. PICK i \in 1 .. Len(stack[t]) : c = stack[t][i]
    BY DEF CallsOf
  <1>2. PICK p : p = <<t, i>>
    OBVIOUS
  <1>3. p \in Spots
    BY <1>1, <1>2, SpotsMean
  <1> QED BY <1>1, <1>2, <1>3 DEF CallAt

\* A rebuild is an owner's, under the flight that its value knows.
LEMMA RebuildingIs ==
  ASSUME ResInv, NEW v \in Values, NEW t \in Rebuilding(v)
  PROVE  \E p \in Spots : /\ p[1] = t /\ Val(p) = v /\ Own(p) /\ Early(p)
                          /\ current[v] = Fl(p) /\ flight[Fl(p)] = "Running" /\ v \notin resident
                          /\ CallAt(p) \in CallsOf(t)
  <1>1. t \in Threads
    BY DEF Rebuilding
  <1>2. PICK c \in CallsOf(t) : /\ c.value = v /\ c.pc \in {"rebuild", "rebuilt", "install"}
                                /\ c.flight # NoFlight
    BY DEF Rebuilding
  <1>3. PICK p \in Spots : p[1] = t /\ CallAt(p) = c
    BY <1>1, SpotOf
  <1>4. Val(p) = v /\ Own(p) /\ Early(p) /\ Known(p)
    BY <1>2, <1>3 DEF Val, Own, Early, Known, Pc, Fl, OwnPcs, EarlyPcs, KnownPcs
  <1> QED BY <1>3, <1>4 DEF ResInv, OwnersRun, OwnersKnown, OwnersEarly

\* A value is rebuilt by one thread at a time, never while it is in its slot, and
\* under the flight that everybody else finds.
THEOREM OneRebuildAtATime == Spec => []SingleFlight
  <1>1. ResInv => SingleFlight
    <2> SUFFICES ASSUME ResInv, NEW v \in Values
                 PROVE  /\ Cardinality(Rebuilding(v)) <= 1
                        /\ Rebuilding(v) # {} => v \notin resident
                        /\ \A t \in Rebuilding(v) : \E c \in CallsOf(t) :
                             c.value = v /\ c.flight = current[v] /\ flight[c.flight] = "Running"
      BY DEF SingleFlight
    <2>1. \A t, u \in Rebuilding(v) : t = u
      <3> SUFFICES ASSUME NEW t \in Rebuilding(v), NEW u \in Rebuilding(v) PROVE t = u
        OBVIOUS
      <3>1. PICK p \in Spots : p[1] = t /\ Own(p) /\ current[v] = Fl(p)
        BY RebuildingIs
      <3>2. PICK q \in Spots : q[1] = u /\ Own(q) /\ current[v] = Fl(q)
        BY RebuildingIs
      <3>3. p = q
        BY <3>1, <3>2 DEF ResInv, OwnersAlone
      <3> QED BY <3>1, <3>2, <3>3
    <2>2. Cardinality(Rebuilding(v)) <= 1
      <3>1. CASE Rebuilding(v) = {}
        BY <3>1, FS_EmptySet
      <3>2. CASE Rebuilding(v) # {}
        <4>1. PICK t \in Rebuilding(v) : TRUE
          BY <3>2
        <4>2. Rebuilding(v) = {t}
          BY <2>1, <4>1
        <4> QED BY <4>2, FS_Singleton
      <3> QED BY <3>1, <3>2
    <2>3. Rebuilding(v) # {} => v \notin resident
      BY RebuildingIs
    <2>4. \A t \in Rebuilding(v) : \E c \in CallsOf(t) :
            c.value = v /\ c.flight = current[v] /\ flight[c.flight] = "Running"
      <3> TAKE t \in Rebuilding(v)
      <3>1. PICK p \in Spots : /\ Val(p) = v /\ current[v] = Fl(p) /\ flight[Fl(p)] = "Running"
                               /\ CallAt(p) \in CallsOf(t)
        BY RebuildingIs
      <3> QED BY <3>1 DEF Val, Fl
    <2> QED BY <2>2, <2>3, <2>4
  <1> QED BY <1>1, ResidencyInvariant, PTL

\* The cache's entries and the values' slots agree: an entry's value is there, and a
\* value that is there has its entry unless an install or a drop is half done.
THEOREM EntriesAreBacked == Spec => []Backed
  <1>1. ResInv => Backed
    <2> SUFFICES ASSUME ResInv
                 PROVE  \A v \in resident \ Entries :
                          \/ handle[v] = "dropping"
                          \/ \E c \in Calls : c.value = v /\ c.pc = "insert"
      BY DEF Backed, ResInv
    <2> SUFFICES ASSUME NEW v \in resident \ Entries, handle[v] # "dropping"
                 PROVE  \E c \in Calls : c.value = v /\ c.pc = "insert"
      OBVIOUS
    <2>1. PICK p \in Spots : Pc(p) = "insert" /\ Val(p) = v
      BY DEF ResInv, Inserted
    <2>2. CallAt(p) \in Calls
      BY CallsAre
    <2> QED BY <2>1, <2>2 DEF Pc, Val
  <1> QED BY <1>1, ResidencyInvariant, PTL

\* What resident_bytes says, besides the invariant.
BooksInv ==
  /\ ResInv /\ budget \in Nat /\ residentBytes = Bytes(Entries)

\* There are finitely many entries, and their sizes can be added.
LEMMA EntriesCounted ==
  ASSUME ResidencyAssumption, order \in Seq(Values)
  PROVE  /\ IsFiniteSet(Entries) /\ Entries \subseteq Values
         /\ \A v \in Values : Size[v] \in Nat
  <1>1. PICK n \in Nat : n = Len(order) /\ \A i \in 1 .. n : order[i] \in Values
    BY LenProperties
  <1>2. Entries = {order[i] : i \in 1 .. n}
    BY <1>1 DEF Entries
  <1> DEFINE f == [i \in 1 .. n |-> order[i]]
  <1>3. f \in Surjection(1 .. n, Entries)
    BY <1>2 DEF Surjection
  <1>4. IsFiniteSet(1 .. n)
    BY FS_Interval
  <1>5. IsFiniteSet(Entries)
    <2> HIDE DEF f
    <2> QED BY <1>3, <1>4, FS_Surjection
  <1> QED BY <1>1, <1>2, <1>5 DEF ResidencyAssumption

\* touch moves an entry, and none comes or goes.
LEMMA TouchKeepsEntries ==
  ASSUME ResInv, NEW t \in Threads, Touch(t)
  PROVE  Entries' = Entries
  <1>1. Quiet
    BY TouchQuiet
  <1> QED BY <1>1 DEF Quiet

\* DropEnd: the entry goes with its bytes.
LEMMA DropEndBooks ==
  ASSUME BooksInv, ResidencyAssumption, NEW v \in Values, DropEnd(v), Entries' = Entries \ {v}
  PROVE  /\ residentBytes' = Bytes(Entries')
         /\ residentBytes' <= residentBytes
  <1>1. /\ IsFiniteSet(Entries) /\ \A w \in Entries : Size[w] \in Nat
        /\ Size[v] \in Nat
    BY EntriesCounted DEF BooksInv, ResInv, ResTypeOK
  <1>2. residentBytes = SumOver(Size, Entries) /\ residentBytes \in Nat
    BY <1>1, SumTyped DEF BooksInv, Bytes
  <1>3. CASE v \in Entries
    <2>1. {v} \in SUBSET Entries
      BY <1>3
    <2>2. SumOver(Size, Entries \ {v}) = SumOver(Size, Entries) - SumOver(Size, {v})
      BY <1>1, <2>1, SumOfFewer
    <2>3. SumOver(Size, {v}) = Size[v]
      BY <1>1, SumOfOne
    <2>4. residentBytes' = residentBytes - Size[v]
      BY <1>3 DEF DropEnd
    <2> QED BY <1>1, <1>2, <2>2, <2>3, <2>4 DEF Bytes
  <1>4. CASE v \notin Entries
    <2>1. Entries' = Entries /\ residentBytes' = residentBytes
      BY <1>4 DEF DropEnd
    <2> QED BY <1>2, <2>1 DEF Bytes
  <1> QED BY <1>3, <1>4

\* Insert: the new entry's bytes come, and those of the evicted go.
LEMMA InsertBooks ==
  ASSUME BooksInv, ResidencyAssumption, NEW t \in Threads, Insert(t)
  PROVE  /\ residentBytes' = Bytes(Entries')
         /\ residentBytes' <= budget \/ Len(order') = 1
  <1>1. PICK v : v = Top(t).value
    OBVIOUS
  <1>2. v \in Values /\ v \notin Entries
    <2>1. stack[t] # << >> /\ Top(t).pc = "insert"
      BY DEF Insert, At
    <2>2. StacksTyped
      BY DEF BooksInv, ResInv, ResTypeOK, StacksTyped
    <2>3. PICK h : h = Here(t)
      OBVIOUS
    <2>4. h \in Spots /\ Pc(h) = "insert" /\ Val(h) = v
      BY <1>1, <2>1, <2>2, <2>3, TopIs
    <2>5. Ranged
      BY <2>2, RangedIs
    <2> QED BY <2>4, <2>5 DEF Ranged, BooksInv, ResInv, Inserting
  <1>3. ResInv
    BY DEF BooksInv
  <1>4. residentBytes' <= budget \/ Len(order') = 1
    BY <1>1, <1>2, <1>3, InsertOrder
  <1>5. PICK gone \in SUBSET (Entries \union {v}) :
          /\ Entries' = (Entries \union {v}) \ gone
          /\ residentBytes' = (residentBytes + (IF v \in Entries THEN 0 ELSE Size[v])) - Bytes(gone)
    BY <1>1, <1>2, <1>3, InsertOrder
  <1>6. /\ IsFiniteSet(Entries) /\ IsFiniteSet({v}) /\ Entries \cap {v} = {}
        /\ \A w \in Entries \cup {v} : Size[w] \in Nat
    <2>1. /\ IsFiniteSet(Entries) /\ Entries \subseteq Values
          /\ \A w \in Values : Size[w] \in Nat
      BY EntriesCounted DEF BooksInv, ResInv, ResTypeOK
    <2>2. IsFiniteSet({v})
      BY FS_Singleton
    <2> QED BY <1>2, <2>1, <2>2
  <1>7. IsFiniteSet(Entries \cup {v})
    BY <1>6, FS_Union
  <1>8. SumOver(Size, Entries \cup {v}) = SumOver(Size, Entries) + SumOver(Size, {v})
    BY <1>6, SumParts
  <1>9. SumOver(Size, {v}) = Size[v]
    BY <1>6, SumOfOne
  <1>10. SumOver(Size, (Entries \cup {v}) \ gone) = SumOver(Size, Entries \cup {v}) - SumOver(Size, gone)
    BY <1>6, <1>7, SumOfFewer
  <1>11. residentBytes' = (residentBytes + Size[v]) - SumOver(Size, gone)
    BY <1>2, <1>5 DEF Bytes
  <1>12. residentBytes = SumOver(Size, Entries)
    BY DEF BooksInv, Bytes
  <1>13. residentBytes' = SumOver(Size, Entries')
    <2>1. SumOver(Size, Entries) \in Nat /\ SumOver(Size, gone) \in Nat /\ Size[v] \in Nat
      BY <1>6, <1>7, SumTyped, SumOfFewer
    <2>2. SumOver(Size, Entries') = SumOver(Size, (Entries \cup {v}) \ gone)
      BY <1>5, Zenon
    <2> QED BY <1>8, <1>9, <1>10, <1>11, <1>12, <2>1, <2>2
  <1> QED BY <1>4, <1>13 DEF Bytes

\* No other step changes the bytes, or what they are the bytes of.
LEMMA BooksStep ==
  ASSUME BooksInv, ResidencyAssumption, [Next]_vars
  PROVE  /\ budget' \in Nat /\ residentBytes' = Bytes(Entries')
         /\ residentBytes' > residentBytes => residentBytes' <= budget \/ Len(order') = 1
  <1> DEFINE Kept == /\ budget' \in Nat /\ residentBytes' = Bytes(Entries')
                     /\ residentBytes' > residentBytes => residentBytes' <= budget \/ Len(order') = 1
  <1>1. /\ IsFiniteSet(Entries) /\ \A w \in Entries : Size[w] \in Nat
        /\ budget \in Nat /\ residentBytes = Bytes(Entries) /\ ResInv
    BY EntriesCounted DEF BooksInv, ResInv, ResTypeOK
  <1>2. residentBytes \in Nat
    BY <1>1, SumTyped DEF Bytes
  <1>3. ASSUME Entries' = Entries, residentBytes' = residentBytes,
               budget' = budget \/ budget' \in Budgets
        PROVE  Kept
    <2>1. residentBytes' = Bytes(Entries')
      BY <1>1, <1>3, Zenon DEF Bytes
    <2>2. budget' \in Nat
      BY <1>1, <1>3 DEF ResidencyAssumption
    <2> QED BY <1>2, <1>3, <2>1, <2>2
  <1>4. ASSUME UNCHANGED cacheVars PROVE Kept
    <2>1. Entries' = Entries /\ residentBytes' = residentBytes /\ budget' = budget
      BY <1>4 DEF cacheVars, Entries
    <2> QED BY <1>3, <2>1
  <1>5. CASE UNCHANGED vars
    BY <1>4, <1>5 DEF vars
  <1>6. ASSUME NEW v \in Values, Lazy(v) \/ DropBegin(v) PROVE Kept
    BY <1>4, <1>6 DEF Lazy, DropBegin
  <1>7. ASSUME NEW v \in Values, DropEnd(v) PROVE Kept
    <2>1. Entries' = Entries \ {v}
      <3>1. order \in Seq(Values) /\ order' = Without(order, v)
        BY <1>1, <1>7 DEF DropEnd, ResInv, ResTypeOK
      <3>2. order' \in Seq(Values) /\ ToSet(order') = ToSet(order) \ {v}
        BY <3>1, WithoutOthers
      <3>3. Entries = ToSet(order)
        BY <3>1, EntriesAre
      <3>4. (order \in Seq(Values) => Entries = ToSet(order))'
        BY EntriesAre, PTL
      <3> QED BY <3>2, <3>3, <3>4
    <2>2. residentBytes' = Bytes(Entries') /\ residentBytes' <= residentBytes
      BY <1>7, <2>1, DropEndBooks
    <2>3. budget' = budget
      BY <1>7 DEF DropEnd
    <2>4. residentBytes' \in Nat
      <3>1. IsFiniteSet(Entries') /\ \A w \in Entries' : Size[w] \in Nat
        BY <1>1, <2>1, FS_RemoveElement
      <3> QED BY <2>2, <3>1, SumTyped DEF Bytes
    <2> QED BY <1>1, <1>2, <2>2, <2>3, <2>4
  <1>8. ASSUME NEW v \in Values, NEW t \in Callers, WithValue(t, v) \/ Get(t, v) \/ Prefetch(t, v)
        PROVE  Kept
    BY <1>4, <1>8 DEF WithValue, Get, Prefetch
  <1>9. ASSUME NEW b \in Budgets, SetBudget(b) PROVE Kept
    <2>1. Entries' = Entries
      BY <1>9 DEF SetBudget, Entries
    <2> QED BY <1>3, <1>9, <2>1 DEF SetBudget
  <1>10. ASSUME NEW t \in Callers, PrefetchWait(t) \/ PrefetchDrop(t) PROVE Kept
    BY <1>4, <1>10 DEF PrefetchWait, PrefetchDrop
  <1>11. ASSUME NEW t \in Threads, Running(t) PROVE Kept
    <2>1. CASE Touch(t)
      <3>1. Entries' = Entries
        BY <1>1, <2>1, TouchKeepsEntries
      <3> QED BY <1>3, <2>1, <3>1 DEF Touch
    <2>2. CASE Insert(t)
      <3>1. budget' = budget
        BY <2>2 DEF Insert
      <3> QED BY <1>1, <2>2, <3>1, InsertBooks
    <2>3. CASE GetJoin(t) \/ PrefetchJoin(t) \/ Send(t) \/ LoaderTake(t)
      BY <1>4, <2>3 DEF GetJoin, PrefetchJoin, Join, Send, LoaderTake
    <2>4. CASE Claim(t) \/ Rebuild(t) \/ RebuildEnds(t) \/ InstallSlot(t)
      BY <1>4, <2>4 DEF Claim, Rebuild, RebuildEnds, InstallSlot
    <2>5. CASE Clear(t) \/ Publish(t) \/ Unwind(t) \/ Wait(t)
      BY <1>4, <2>5 DEF Clear, Publish, Unwind, Wait
    <2> QED BY <1>11, <2>1, <2>2, <2>3, <2>4, <2>5 DEF Running
  <1> QED BY <1>5, <1>6, <1>7, <1>8, <1>9, <1>10, <1>11 DEF Next

\* The books start empty and stay right.
THEOREM BooksInvariant == Spec => []BooksInv
  <1>1. Init => BooksInv
    <2> SUFFICES ASSUME Init PROVE BooksInv
      OBVIOUS
    <2>1. ResInv
      BY InitResInv, ResidencyAssumption
    <2>2. Entries = {} /\ residentBytes = 0 /\ budget \in Nat
      BY ResidencyAssumption DEF Init, Entries, ResidencyAssumption
    <2> QED BY <2>1, <2>2, SumOfNone DEF BooksInv, Bytes
  <1>2. BooksInv /\ [Next]_vars => BooksInv'
    <2> SUFFICES ASSUME BooksInv, [Next]_vars PROVE BooksInv'
      OBVIOUS
    <2>1. ResInv'
      BY NextResInv, ResidencyAssumption DEF BooksInv
    <2>2. budget' \in Nat /\ residentBytes' = Bytes(Entries')
      BY BooksStep, ResidencyAssumption
    <2> QED BY <2>1, <2>2 DEF BooksInv, Bytes
  <1> QED BY <1>1, <1>2, PTL DEF Spec

\* resident_bytes is the size of the entries, after any inserts, evictions and
\* drops, half-done ones included, and entries and slots agree (State::insert,
\* Inner::drop).
THEOREM BooksStayAccounted == Spec => []Accounted
  <1>1. BooksInv => residentBytes = Bytes(Entries)
    BY DEF BooksInv
  <1> QED BY <1>1, BooksInvariant, EntriesAreBacked, PTL DEF Accounted

\* The cache never grows past its budget but to keep the one value that just came
\* in, whatever budgets are set meanwhile (State::insert's eviction loop).
THEOREM BudgetStaysKept == Spec => BudgetKept
  <1> DEFINE Grows == residentBytes' > residentBytes
                        => residentBytes' <= budget \/ Len(order') = 1
  <1>1. BooksInv /\ [Next]_vars => [Grows]_vars
    BY BooksStep, ResidencyAssumption
  <1> QED BY <1>1, BooksInvariant, PTL DEF Spec, BudgetKept

==============================================================================
