---------------------------- MODULE DerivedCache ----------------------------
(***************************************************************************)
(* The disk cache of derived data (derived.rs): a request is answered from *)
(* a file keyed by the source's stamp (length and modification time) and   *)
(* its settings, or built and written for the next one.                    *)
(*                                                                         *)
(* Callers are threads and processes sharing one directory; each step of   *)
(* derive_cached that touches the file system is an action, and a caller   *)
(* may die between any two.  The file system is external: a rename is      *)
(* atomic, a write of a temporary file is not.                             *)
(***************************************************************************)
EXTENDS Integers, FiniteSets, Sequences, SequencesExt, Vectors

CONSTANTS
  Callers,
  Settings,      \* what else the result depends on; a change makes a new key
  Originals,     \* the contents the source may have
  Unwritable,    \* the settings whose folder cannot be written
  NoCall,
  MaxStamp       \* bound on the changes of the source

ASSUME DerivedAssumption == Originals # {}

VARIABLES
  original,    \* the source: [content, stamp]; every change has a new stamp
  call,        \* [Callers -> the step a request is at, or NoCall]
  answer,      \* [Callers -> the last answer, until the next call]
  file,        \* a function from the keys with a file to its payload
  recency,     \* the keys of the files, by when they were used last
  temps        \* temporary files of callers that died

derivedVars == <<original, call, answer, file, recency, temps>>

\* What a build of the source's content would return.
Build(content, settings) == <<content, settings>>

\* key_of: the settings and the stamp of the source.
Key(settings, stamp) == <<settings, stamp>>

KeyOf(c) == Key(call[c].settings, call[c].stamp)
Meanwhile(c) == call[c].meanwhile
At(c, step) == call[c] # NoCall /\ call[c].step = step
Used(k) == Append(Without(recency, k), k)
Goto(c, step) == call' = [call EXCEPT ![c].step = step]

Return(c, payload) ==
  /\ call' = [call EXCEPT ![c] = NoCall]
  /\ answer' = [answer EXCEPT ![c] = [payload |-> payload, settings |-> call[c].settings,
                                      contents |-> Meanwhile(c)]]

\* source_stamp, before anything is read.
Stat(c, settings) ==
  /\ call[c] = NoCall
  /\ call' = [call EXCEPT ![c] = [step |-> "lookup", settings |-> settings,
                                  stamp |-> original.stamp, payload |-> NoCall,
                                  meanwhile |-> {original.content}]]
  /\ answer' = [answer EXCEPT ![c] = NoCall]
  /\ UNCHANGED <<original, file, recency, temps>>

\* read_cached accepts the file: the answer, and the file was used just now.
Hit(c) ==
  /\ At(c, "lookup") /\ KeyOf(c) \in DOMAIN file
  /\ recency' = Used(KeyOf(c))
  /\ Return(c, file[KeyOf(c)])
  /\ UNCHANGED <<original, file, temps>>

Miss(c) ==
  /\ At(c, "lookup") /\ KeyOf(c) \notin DOMAIN file
  /\ Goto(c, "build")
  /\ UNCHANGED <<original, answer, file, recency, temps>>

\* build reads the source as it is by now.
RunBuild(c) ==
  /\ At(c, "build")
  /\ call' = [call EXCEPT ![c].step = "write",
                          ![c].payload = Build(original.content, call[c].settings)]
  /\ UNCHANGED <<original, answer, file, recency, temps>>

\* write_cached: the temporary file under a name of its own, then the rename.
WriteTemp(c) ==
  /\ At(c, "write") /\ call[c].settings \notin Unwritable
  /\ Goto(c, "rename")
  /\ UNCHANGED <<original, answer, file, recency, temps>>

Rename(c) ==
  /\ At(c, "rename")
  /\ recency' = Used(KeyOf(c))
  /\ file' = [k \in DOMAIN file \cup {KeyOf(c)} |->
                IF k = KeyOf(c) THEN call[c].payload ELSE file[k]]
  /\ Return(c, call[c].payload)
  /\ UNCHANGED <<original, temps>>

\* A file that cannot be written is counted; the request still succeeds.
WriteFails(c) ==
  /\ At(c, "write") /\ call[c].settings \in Unwritable
  /\ Return(c, call[c].payload)
  /\ UNCHANGED <<original, file, recency, temps>>

\* The caller dies between two steps.  A written temporary file stays.
Crash(c) ==
  /\ call[c] # NoCall
  /\ temps' = IF call[c].step = "rename" THEN temps \cup {c} ELSE temps
  /\ call' = [call EXCEPT ![c] = NoCall]
  /\ UNCHANGED <<original, answer, file, recency>>

\* prune_derived_cache: the files used longest ago, until `kept` are left; a
\* temporary file does not have the cache's extension.
Prune(kept) ==
  /\ Cardinality(DOMAIN file) > kept
  /\ recency' = SubSeq(recency, Len(recency) - kept + 1, Len(recency))
  /\ file' = [k \in ToSet(recency') |-> file[k]]
  /\ UNCHANGED <<original, call, answer, temps>>

Forget(settings) ==
  /\ Key(settings, original.stamp) \in DOMAIN file
  /\ recency' = Without(recency, Key(settings, original.stamp))
  /\ file' = [k \in DOMAIN file \ {Key(settings, original.stamp)} |-> file[k]]
  /\ UNCHANGED <<original, call, answer, temps>>

\* External: the source changes, with a stamp it never had.
ChangeOriginal(content) ==
  /\ original.stamp < MaxStamp /\ content # original.content
  /\ original' = [content |-> content, stamp |-> original.stamp + 1]
  /\ call' = [c \in Callers |-> IF call[c] = NoCall THEN NoCall
                                ELSE [call[c] EXCEPT !.meanwhile = @ \cup {content}]]
  /\ UNCHANGED <<answer, file, recency, temps>>

DerivedInit ==
  /\ original = [content |-> CHOOSE o \in Originals : TRUE, stamp |-> 0]
  /\ call = [c \in Callers |-> NoCall] /\ answer = [c \in Callers |-> NoCall]
  /\ file = [k \in {} |-> NoCall] /\ recency = <<>> /\ temps = {}

DerivedNext ==
  \/ \E c \in Callers, s \in Settings : Stat(c, s)
  \/ \E c \in Callers : Hit(c) \/ Miss(c) \/ RunBuild(c) \/ WriteTemp(c) \/ Rename(c)
                        \/ WriteFails(c) \/ Crash(c)
  \/ \E kept \in 0 .. 1 : Prune(kept)
  \/ \E s \in Settings : Forget(s)
  \/ \E content \in Originals : ChangeOriginal(content)

\* An answer is what a build with the request's settings returns for a content
\* the source had between the request's start and its end, whoever else was
\* building, pruning, forgetting or dying, and the files are those listed by
\* recency.  (A stamp that comes back with an old content is not promised.)
AnswersFresh ==
  /\ \A c \in Callers : answer[c] # NoCall =>
       \E content \in answer[c].contents :
         answer[c].payload = Build(content, answer[c].settings)
  /\ ToSet(recency) = DOMAIN file
=============================================================================
