---------------------------- MODULE ChangeJournal ----------------------------
(***************************************************************************)
(* change_journal.rs: one bounded ring of changes per component type, read  *)
(* by any number of readers that each hold a cursor of their own.           *)
(*                                                                         *)
(* A reader is the client the module documentation prescribes: it opens a   *)
(* cursor, scans the component once, and from then on looks again at every  *)
(* entity a read names; it rescans when a read reports an overflow.  Its    *)
(* picture is what it then believes the component's rows to be.             *)
(*                                                                         *)
(* Positions are kept relative to the end of the ring, unread being         *)
(* end - next of a cursor, so that they stay bounded; unread = Capacity + 1 *)
(* stands for every position the ring no longer holds, one that belongs to  *)
(* the journals of another World included.                                  *)
(***************************************************************************)
EXTENDS Integers, SequencesExt

CONSTANTS Components,
          Readers,
          Capacity    \* entries a ring holds (DEFAULT_JOURNAL_CAPACITY)

ASSUME CapacityAssumption == Capacity \in Nat \ {0}

VARIABLES journals,   \* [Components -> [open, entries]]
          readers     \* [Readers -> [component, unread, phase, picture]]

journalVars == <<journals, readers>>

Nothing == [x \in {} |-> x]
Least(a, b) == IF a < b THEN a ELSE b

\* A ChangeCursor and what its owner made of the reads so far.
Reader(component, unread, phase, picture) ==
  [component |-> component, unread |-> unread, phase |-> phase, picture |-> picture]

\* Every reader starts with a cursor it opened on some other World.
JournalInit(watch) ==
  /\ journals = [c \in Components |-> [open |-> FALSE, entries |-> <<>>]]
  /\ readers = [r \in Readers |-> Reader(watch[r], Capacity + 1, "follow", Nothing)]

PushedLongMutant(entries, e) ==
  IF Len(entries) > Capacity THEN Append(Tail(entries), e) ELSE Append(entries, e)

\* Journal::push: the oldest entry makes room.
Pushed(entries, e) ==
  IF Len(entries) = Capacity THEN Append(Tail(entries), e) ELSE Append(entries, e)

\* record(e, c, _) for every c in cs, in the journals that exist: what they and
\* the readers' distances from their ends become.
Recorded(js, e, cs) ==
  [c \in Components |->
     IF c \in cs /\ js[c].open THEN [js[c] EXCEPT !.entries = Pushed(@, e)] ELSE js[c]]

Outrun(rs, cs) ==
  [r \in Readers |->
     IF rs[r].component \in cs /\ journals[rs[r].component].open
     THEN [rs[r] EXCEPT !.unread = Least(@ + 1, Capacity + 1)]
     ELSE rs[r]]

Record(e, cs) ==
  /\ journals' = Recorded(journals, e, cs)
  /\ readers' = Outrun(readers, cs)

\* open: the cursor stands after every change made so far.
Open(r, c) ==
  /\ journals' = [journals EXCEPT ![c].open = TRUE]
  /\ readers' = [readers EXCEPT ![r] = Reader(c, 0, "scan", Nothing)]

\* The full scan after an open or an overflow; rows is the component's table.
Scan(r, rows) ==
  /\ readers[r].phase = "scan"
  /\ readers' = [readers EXCEPT ![r] = Reader(@.component, @.unread, "follow", rows)]
  /\ UNCHANGED journals

\* next < first, or a cursor of another World's journals.
Behind(r) == readers[r].unread > Len(journals[readers[r].component].entries)

UnreadOf(r) ==
  LET entries == journals[readers[r].component].entries
  IN ToSet(SubSeq(entries, Len(entries) - readers[r].unread + 1, Len(entries)))

ReadOverflowedMutant(r) ==
  /\ readers[r].phase = "follow"
  /\ Behind(r)
  /\ journals' = [journals EXCEPT ![readers[r].component].open = TRUE]
  /\ readers' = [readers EXCEPT ![r].unread = 0]

\* read, Overflowed: the cursor jumps to the end and the reader must rescan.
ReadOverflowed(r) ==
  /\ readers[r].phase = "follow"
  /\ Behind(r)
  /\ journals' = [journals EXCEPT ![readers[r].component].open = TRUE]
  /\ readers' = [readers EXCEPT ![r] = Reader(@.component, 0, "scan", @.picture)]

\* read, Complete: the reader looks up every entity it is told of.
ReadComplete(r, rows) ==
  /\ readers[r].phase = "follow"
  /\ ~Behind(r)
  /\ LET named == UnreadOf(r)
         picture == readers[r].picture
         lookedUp == [e \in (DOMAIN picture \ named) \union (DOMAIN rows \intersect named) |->
                        IF e \in named THEN rows[e] ELSE picture[e]]
     IN readers' = [readers EXCEPT ![r] = Reader(@.component, 0, "follow", lookedUp)]
  /\ UNCHANGED journals

==============================================================================
