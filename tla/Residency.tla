------------------------------ MODULE Residency ------------------------------
(***************************************************************************)
(* Residency (residency.rs): values that can be rebuilt, kept in a         *)
(* byte-budgeted least-recently-used cache shared by every thread.         *)
(* Concurrent callers share one rebuild, a "flight"; a prefetch leaves its *)
(* flight to the asset loader threads (assets.rs run_load) unless a caller *)
(* that needs the value claims it first.  A rebuild may get another value. *)
(*                                                                         *)
(* A step of a thread is one critical section: of the cache's lock, of a   *)
(* value's slot, or of a flight.  The cache's entries and their recency    *)
(* order are one sequence, least recently used first: the tick counter     *)
(* serves only to order them.  Flights are shared by Arc; an id is used    *)
(* again when nobody refers to it.                                         *)
(***************************************************************************)
EXTENDS Integers, FiniteSets, SequencesExt, FiniteSetsExt, Vectors

CONSTANTS
  Callers,     \* threads that call get and prefetch
  Loaders,     \* asset loader threads
  Values,      \* rebuildable values (one Residency each)
  Size,        \* bytes of each value
  Needs,       \* the values that the rebuild of a value gets
  Droppable,   \* values made and dropped in the run; the others are held throughout
  Budgets,     \* budgets that set_residency_budget may set
  NumFlights,  \* flight ids, more than are ever referred to at once
  MaxJobs,     \* bound on the prefetches waiting for a loader
  NoFlight

Threads == Callers \union Loaders
Flights == 1 .. NumFlights

ASSUME ResidencyAssumption ==
  /\ Callers \intersect Loaders = {}
  /\ Size \in [Values -> Nat \ {0}]
  /\ Needs \in [Values -> SUBSET Values]
  /\ Droppable \subseteq Values
  /\ Budgets \subseteq Nat /\ Budgets # {}
  /\ NumFlights \in Nat /\ MaxJobs \in Nat
  /\ NoFlight \notin Nat

VARIABLES
  budget,        \* State::budget
  residentBytes, \* State::resident_bytes
  order,         \* State::entries and State::order
  resident,      \* values whose slot (Inner::value) holds one
  handle,        \* "held" by its users, "dropping" in Inner::drop, or "none"
  current,       \* Inner::flight
  flight,        \* FlightState, Done(Ok) and Done(Err) apart
  jobs,          \* prefetches queued to the loaders
  stack,         \* each thread's calls, the innermost last
  dead           \* loader threads that a panicking rebuild has ended

cacheVars == <<budget, residentBytes, order>>
valueVars == <<resident, handle>>
flightVars == <<current, flight>>
vars == <<cacheVars, valueVars, flightVars, jobs, stack, dead>>

Init ==
  /\ budget \in Budgets
  /\ residentBytes = 0
  /\ order = << >>
  /\ resident = {}
  /\ handle = [v \in Values |-> IF v \in Droppable THEN "none" ELSE "held"]
  /\ current = [v \in Values |-> NoFlight]
  /\ flight = [f \in Flights |-> "Queued"]
  /\ jobs = << >>
  /\ stack = [t \in Threads |-> << >>]
  /\ dead = {}

------------------------------------------------------------------------------
\* A call in progress: where it is, its value, the flight it has in hand.
Call(where, v, f) == [pc |-> where, value |-> v, flight |-> f]

Top(t) == Last(stack[t])
At(t, where) == stack[t] # << >> /\ Top(t).pc = where

Begin(t, call) == stack' = [stack EXCEPT ![t] = Append(@, call)]
Become(t, call) == stack' = [stack EXCEPT ![t] = Append(Front(@), call)]
Goto(t, where) == Become(t, [Top(t) EXCEPT !.pc = where])
Return(t) == stack' = [stack EXCEPT ![t] = Front(@)]

CallsOf(t) == {stack[t][i] : i \in 1 .. Len(stack[t])}
Calls == UNION {CallsOf(t) : t \in Threads}
Jobs == {jobs[i] : i \in 1 .. Len(jobs)}

UsedFlights == {current[v] : v \in Values} \union {c.flight : c \in Calls \union Jobs}

\* The state of a flight is gone with the last reference to it.
Freed(next) == [f \in Flights |-> IF f \in UsedFlights' THEN next[f] ELSE "Queued"]

Entries == {order[i] : i \in 1 .. Len(order)}

\* State::touch does nothing for a value that has no entry.
Touched(v) == IF v \in Entries THEN Append(Without(order, v), v) ELSE order

------------------------------------------------------------------------------
\* Residency::lazy makes an empty value; with_value installs one before
\* anybody else can see it.
Lazy(v) ==
  /\ handle[v] = "none"
  /\ \A c \in Calls : c.value # v
  /\ \A w \in Needs[v] : handle[w] = "held"
  /\ handle' = [handle EXCEPT ![v] = "held"]
  /\ UNCHANGED <<cacheVars, resident, flightVars, jobs, stack, dead>>

WithValue(t, v) ==
  /\ t \in Callers /\ stack[t] = << >>
  /\ handle[v] = "none"
  /\ \A c \in Calls : c.value # v
  /\ \A w \in Needs[v] : handle[w] = "held"
  /\ Begin(t, Call("install", v, NoFlight))
  /\ UNCHANGED <<cacheVars, valueVars, flightVars, jobs, dead>>

\* The last Arc goes; Inner::drop then takes the cache's lock.  The rebuild
\* closure of a value keeps what it needs.
DropBegin(v) ==
  /\ v \in Droppable
  /\ handle[v] = "held"
  /\ \A w \in Values : v \in Needs[w] => handle[w] = "none"
  /\ \A c \in Calls \union Jobs : c.value # v
  /\ handle' = [handle EXCEPT ![v] = "dropping"]
  /\ current' = [current EXCEPT ![v] = NoFlight]
  /\ UNCHANGED <<cacheVars, resident, jobs, stack, dead>>
  /\ flight' = Freed(flight)

\* The bytes go with the value, not with the entry.
DropEndMutant(v) ==
  /\ handle[v] = "dropping"
  /\ handle' = [handle EXCEPT ![v] = "none"]
  /\ order' = Without(order, v)
  /\ residentBytes' = IF v \in resident THEN residentBytes - Size[v] ELSE residentBytes
  /\ resident' = resident \ {v}
  /\ UNCHANGED <<budget, flightVars, jobs, stack, dead>>

DropEnd(v) ==
  /\ handle[v] = "dropping"
  /\ handle' = [handle EXCEPT ![v] = "none"]
  /\ order' = Without(order, v)
  /\ residentBytes' = IF v \in Entries THEN residentBytes - Size[v] ELSE residentBytes
  /\ resident' = resident \ {v}
  /\ UNCHANGED <<budget, flightVars, jobs, stack, dead>>

SetBudget(b) ==
  /\ budget' = b
  /\ UNCHANGED <<residentBytes, order, valueVars, flightVars, jobs, stack, dead>>

------------------------------------------------------------------------------
\* get and prefetch look at the slot first.
GetCall(v) == Call(IF v \in resident THEN "touch" ELSE "join", v, NoFlight)

Get(t, v) ==
  /\ t \in Callers /\ stack[t] = << >>
  /\ handle[v] = "held"
  /\ Begin(t, GetCall(v))
  /\ UNCHANGED <<cacheVars, valueVars, flightVars, jobs, dead>>

Queueing == {c \in Calls : c.pc \in {"prefetch", "send"}}

\* A value already resident needs no flight: the handle's wait is a get.
Prefetch(t, v) ==
  /\ Len(jobs) + Cardinality(Queueing) < MaxJobs
  /\ t \in Callers /\ stack[t] = << >>
  /\ handle[v] = "held"
  /\ Begin(t, Call(IF v \in resident THEN "prefetched" ELSE "prefetch", v, NoFlight))
  /\ UNCHANGED <<cacheVars, valueVars, flightVars, jobs, dead>>

Touch(t) ==
  /\ At(t, "touch")
  /\ order' = Touched(Top(t).value)
  /\ Return(t)
  /\ UNCHANGED <<budget, residentBytes, valueVars, flightVars, jobs, dead>>

\* The value's slot is not looked at again under the flight lock.
JoinMutant(t, existing, absent, created) ==
  LET v == Top(t).value
      unused == Flights \ UsedFlights
  IN
  \/ /\ current[v] # NoFlight
     /\ Become(t, Call(existing, v, current[v]))
     /\ UNCHANGED flightVars
  \/ /\ current[v] = NoFlight
     /\ unused # {}
     /\ current' = [current EXCEPT ![v] = Min(unused)]
     /\ flight' = [flight EXCEPT ![Min(unused)] = "Queued"]
     /\ Become(t, Call(created, v, Min(unused)))

\* join, under the value's flight lock: the flight that exists, else the
\* value if it was installed meanwhile, else a new flight.
Join(t, existing, present, created) ==
  LET v == Top(t).value
      unused == Flights \ UsedFlights
  IN
  \/ /\ current[v] # NoFlight
     /\ Become(t, Call(existing, v, current[v]))
     /\ UNCHANGED flightVars
  \/ /\ current[v] = NoFlight
     /\ v \in resident
     /\ Goto(t, present)
     /\ UNCHANGED flightVars
  \/ /\ current[v] = NoFlight
     /\ v \notin resident
     /\ unused # {}
     /\ current' = [current EXCEPT ![v] = Min(unused)]
     /\ flight' = [flight EXCEPT ![Min(unused)] = "Queued"]
     /\ Become(t, Call(created, v, Min(unused)))

GetJoin(t) ==
  /\ At(t, "join")
  /\ Join(t, "claim", "touch", "claim")
  /\ UNCHANGED <<cacheVars, valueVars, jobs, dead>>

PrefetchJoin(t) ==
  /\ At(t, "prefetch")
  /\ Join(t, "prefetched", "prefetched", "send")
  /\ UNCHANGED <<cacheVars, valueVars, jobs, dead>>

\* The creator of the flight queues it.  run_load panics when every loader
\* thread is dead: the call unwinds, and the flight stays for a get to claim.
Send(t) ==
  /\ At(t, "send")
  /\ IF Loaders = dead
       THEN /\ Return(t)
            /\ UNCHANGED jobs
       ELSE /\ jobs' = Append(jobs, Call("claim", Top(t).value, Top(t).flight))
            /\ Goto(t, "prefetched")
  /\ UNCHANGED <<cacheVars, valueVars, flightVars, dead>>

\* Prefetch::wait runs the flight if nobody has; without a flight it is get.
PrefetchWait(t) ==
  /\ At(t, "prefetched")
  /\ IF Top(t).flight # NoFlight THEN Goto(t, "claim")
                                 ELSE Become(t, GetCall(Top(t).value))
  /\ UNCHANGED <<cacheVars, valueVars, flightVars, jobs, dead>>

PrefetchDrop(t) ==
  /\ At(t, "prefetched")
  /\ Return(t)
  /\ UNCHANGED <<cacheVars, valueVars, current, jobs, dead>>
  /\ flight' = Freed(flight)

LoaderTake(t) ==
  /\ t \in Loaders \ dead /\ stack[t] = << >>
  /\ jobs # << >>
  /\ jobs' = Tail(jobs)
  /\ Begin(t, Head(jobs))
  /\ UNCHANGED <<cacheVars, valueVars, flightVars, dead>>

------------------------------------------------------------------------------
\* A loader's job is run_flight alone: it does not wait for the answer.
Loading(t) == t \in Loaders /\ Len(stack[t]) = 1

\* A flight that was prefetched is left to the loader thread.
ClaimMutant(t) ==
  LET f == Top(t).flight IN
  /\ At(t, "claim")
  /\ UNCHANGED <<cacheVars, valueVars, current, jobs, dead>>
  /\ IF flight[f] = "Queued" /\ \A job \in Jobs : job.flight # f
       THEN /\ Goto(t, "rebuild")
            /\ flight' = [flight EXCEPT ![f] = "Running"]
       ELSE /\ IF Loading(t) THEN Return(t) ELSE Goto(t, "wait")
            /\ flight' = Freed(flight)

\* run_flight runs the flight unless somebody has; a get or a prefetch's wait
\* then waits for the answer.
Claim(t) ==
  LET f == Top(t).flight IN
  /\ At(t, "claim")
  /\ UNCHANGED <<cacheVars, valueVars, current, jobs, dead>>
  /\ IF flight[f] = "Queued"
       THEN /\ Goto(t, "rebuild")
            /\ flight' = [flight EXCEPT ![f] = "Running"]
       ELSE /\ IF Loading(t) THEN Return(t) ELSE Goto(t, "wait")
            /\ flight' = Freed(flight)

\* The owner's rebuild closure gets what it needs, then ends one way or
\* another; its panic is caught by FlightGuard::drop.
Rebuild(t) ==
  /\ At(t, "rebuild")
  /\ \E v \in Needs[Top(t).value] :
       /\ handle[v] = "held"
       /\ stack' = [stack EXCEPT ![t] =
            Front(@) \o <<[Last(@) EXCEPT !.pc = "rebuilt"], GetCall(v)>>]
  /\ UNCHANGED <<cacheVars, valueVars, flightVars, jobs, dead>>

RebuildEnds(t) ==
  /\ \/ At(t, "rebuilt")
     \/ At(t, "rebuild") /\ Needs[Top(t).value] = {}
  /\ \E next \in {"install", "failed", "panicked"} : Goto(t, next)
  /\ UNCHANGED <<cacheVars, valueVars, flightVars, jobs, dead>>

\* install, the slot first ...
InstallSlot(t) ==
  /\ At(t, "install")
  /\ resident' = resident \union {Top(t).value}
  /\ Goto(t, "insert")
  /\ UNCHANGED <<cacheVars, handle, flightVars, jobs, dead>>

Bytes(entries) == SumOver(Size, entries)

\* The value that comes in is not counted against the budget.
InsertMutant(t) ==
  LET v == Top(t).value
      all == Append(Without(order, v), v)
      bytes == residentBytes + IF v \in Entries THEN 0 ELSE Size[v]
      before(i) == bytes - Bytes({all[j] : j \in 1 .. i - 1})
      first == Min({i \in 1 .. Len(all) : i = Len(all) \/ before(i) - Size[v] <= budget})
  IN
  /\ At(t, "insert")
  /\ order' = SubSeq(all, first, Len(all))
  /\ residentBytes' = before(first)
  /\ resident' = resident \ {w \in {all[i] : i \in 1 .. first - 1} : handle[w] # "dropping"}
  /\ IF Top(t).flight = NoFlight
       THEN Return(t) /\ handle' = [handle EXCEPT ![v] = "held"]
       ELSE Goto(t, "installed") /\ UNCHANGED handle
  /\ UNCHANGED <<budget, flightVars, jobs, dead>>

\* ... then, under the cache's lock, the entry: the value is the most recent
\* one, and the least recent others are evicted, their slots emptied, until
\* the budget is met or it alone is left.  A value being dropped has no slot
\* to upgrade to.  with_value is done here, a flight is published.
Insert(t) ==
  LET v == Top(t).value
      all == Append(Without(order, v), v)
      bytes == residentBytes + IF v \in Entries THEN 0 ELSE Size[v]
      before(i) == bytes - Bytes({all[j] : j \in 1 .. i - 1})
      first == Min({i \in 1 .. Len(all) : i = Len(all) \/ before(i) <= budget})
  IN
  /\ At(t, "insert")
  /\ order' = SubSeq(all, first, Len(all))
  /\ residentBytes' = before(first)
  /\ resident' = resident \ {w \in {all[i] : i \in 1 .. first - 1} : handle[w] # "dropping"}
  /\ IF Top(t).flight = NoFlight
       THEN Return(t) /\ handle' = [handle EXCEPT ![v] = "held"]
       ELSE Goto(t, "installed") /\ UNCHANGED handle
  /\ UNCHANGED <<budget, flightVars, jobs, dead>>

------------------------------------------------------------------------------
\* FlightGuard::publish: first the value forgets the flight ...
Clear(t) ==
  /\ \/ At(t, "installed") /\ Goto(t, "landing")
     \/ At(t, "failed")    /\ Goto(t, "failing")
     \/ At(t, "panicked")  /\ Goto(t, "panicking")
  /\ current' = [current EXCEPT ![Top(t).value] = NoFlight]
  /\ UNCHANGED <<cacheVars, valueVars, flight, jobs, dead>>

Answered(t, answer) == [flight EXCEPT ![Top(t).flight] = answer]

\* ... then the flight is Done and those who wait for it are woken.
Publish(t) ==
  /\ \/ At(t, "landing") /\ flight' = Answered(t, "Ok")
     \/ At(t, "failing") /\ flight' = Answered(t, "Err")
  /\ Goto(t, "wait")
  /\ UNCHANGED <<cacheVars, valueVars, current, jobs, dead>>

\* A panic goes through the calls around it, up to the thread.  A loader
\* thread ends, and with the last one the queue and the jobs in it.
Unwind(t) ==
  LET ended == IF Loading(t) THEN dead \union {t} ELSE dead IN
  /\ At(t, "panicking")
  /\ UNCHANGED <<cacheVars, valueVars, current>>
  /\ stack' = [stack EXCEPT ![t] =
       IF Len(@) = 1 THEN << >>
       ELSE Append(Front(Front(@)), [Last(Front(@)) EXCEPT !.pc = "panicked"])]
  /\ dead' = ended
  /\ jobs' = IF Loaders \subseteq ended THEN << >> ELSE jobs
  /\ flight' = Freed(Answered(t, "Err"))

Done(f) == flight[f] \in {"Ok", "Err"}

\* Flight::wait.
Wait(t) ==
  /\ At(t, "wait")
  /\ Done(Top(t).flight)
  /\ Return(t)
  /\ UNCHANGED <<cacheVars, valueVars, current, jobs, dead>>
  /\ flight' = Freed(flight)

------------------------------------------------------------------------------
\* Steps inside a call; a thread decides freely to begin one, and to wait for
\* a prefetch or drop it.
Running(t) ==
  \/ Touch(t)
  \/ GetJoin(t)
  \/ PrefetchJoin(t)
  \/ Send(t)
  \/ LoaderTake(t)
  \/ Claim(t)
  \/ Rebuild(t)
  \/ RebuildEnds(t)
  \/ InstallSlot(t)
  \/ Insert(t)
  \/ Clear(t)
  \/ Publish(t)
  \/ Unwind(t)
  \/ Wait(t)

Next ==
  \/ \E v \in Values :
       \/ Lazy(v)
       \/ DropBegin(v)
       \/ DropEnd(v)
       \/ \E t \in Callers : WithValue(t, v) \/ Get(t, v) \/ Prefetch(t, v)
  \/ \E b \in Budgets : SetBudget(b)
  \/ \E t \in Callers : PrefetchWait(t) \/ PrefetchDrop(t)
  \/ \E t \in Threads : Running(t)

Spec == Init /\ [][Next]_vars

\* Threads are scheduled, and a rebuild closure returns or panics.
FairSpec == Spec /\ \A t \in Threads : WF_vars(Running(t))

------------------------------------------------------------------------------
\* No value has two entries, an entry's value is in its slot, and a value in its
\* slot has an entry unless its install is between the two or it is being dropped.
Backed ==
  /\ IsInjective(order)
  /\ Entries \subseteq resident
  /\ \A v \in resident \ Entries :
       \/ handle[v] = "dropping"
       \/ \E c \in Calls : c.value = v /\ c.pc = "insert"

\* The cache's books agree with the values: besides, resident_bytes is the size of
\* the entries.
Accounted == Backed /\ residentBytes = Bytes(Entries)

\* Single flight: a value is rebuilt by one thread at a time, never while it
\* is resident, and under the flight that everybody else finds.
Rebuilding(v) ==
  {t \in Threads : \E c \in CallsOf(t) :
     c.value = v /\ c.pc \in {"rebuild", "rebuilt", "install"} /\ c.flight # NoFlight}

SingleFlight ==
  \A v \in Values :
    /\ Cardinality(Rebuilding(v)) <= 1
    /\ Rebuilding(v) # {} => v \notin resident
    /\ \A t \in Rebuilding(v) : \E c \in CallsOf(t) :
         c.value = v /\ c.flight = current[v] /\ flight[c.flight] = "Running"

\* The cache grows past its budget by nothing but one value, kept alone.
BudgetKept ==
  [][residentBytes' > residentBytes
       => residentBytes' <= budget \/ Len(order') = 1]_vars

\* Every get returns, whoever runs the rebuild: a flight still queued when the
\* loaders are busy or dead is claimed by the one that needs it, a failed or
\* panicking rebuild answers its waiters, and no wake-up is lost.
InCall(t) == stack[t] # << >> /\ Top(t).pc # "prefetched"

GetsReturn == \A t \in Callers : InCall(t) ~> ~InCall(t)

==============================================================================
