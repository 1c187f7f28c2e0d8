--------------------------------- MODULE Wire ---------------------------------
(***************************************************************************)
(* The byte formats of replication.rs, from the values of fields up to      *)
(* deltas, handshakes and snapshots of cells, and DeltaCompressor, which     *)
(* sends a value as its difference from the one before.                     *)
(*                                                                         *)
(* A format is a sequence of parts.  What writes a message and what reads  *)
(* it are separate functions in the code and separate formats here.        *)
(* Numbers are little-endian in bytes that count to Base.                  *)
(***************************************************************************)
EXTENDS Integers, SequencesExt, Bitwise, TLC

CONSTANTS
  Base,             \* a byte has Base values, a power of two (256 in the code)
  Width32, Width64, \* the bytes of a u32 and a u64 (4 and 8)
  Messages,         \* what peers send: [kind, value]
  CellSchemas,      \* the encodings of a column's fields
  CellRows,         \* rows of a cell: sequences of [live, bytes]
  Rooms,            \* rows the cell restored into has free
  Keys,             \* DeltaCompressor: (entity, component, field)
  Scalars,          \* and their values, of one width of at most Width64 bytes
  MaxCompressed     \* bound: compressed values under way

VARIABLES
  exchange,   \* a message, the bytes that came of it, and what was read
  restored,   \* a cell's rows, and what a snapshot of them restored
  cache,      \* [side -> DeltaCompressor.last]
  underway,   \* the channel: what was sent, and (history) what it stood for
  gap,        \* history: keys of which something was lost at the channel's end
  shown       \* [key -> what the receiver decoded, what was meant, in step?]

wireVars == <<exchange, restored>>
compressVars == <<cache, underway, gap, shown>>

-----------------------------------------------------------------------------
(* Parts *)

LE(n, width) == [i \in 1 .. width |-> (n \div Base^(i - 1)) % Base]
FromLE(bytes) == FoldRight(LAMBDA b, n : b + Base * n, bytes, 0)

Byte == <<"code", Base>>
Code(n) == <<"code", n>>     \* a byte that must be less than n
U32 == <<"int", Width32>>
U64 == <<"int", Width64>>
Blob == <<"blob">>           \* u32 length, bytes
ListOf(parts) == <<"list", parts>>   \* u32 count, items
Optional(parts) == <<"option", parts>>
Need(n) == <<"need", n>>     \* that many bytes must be left

RECURSIVE WriteAll(_, _), Read(_, _, _)

Write(part, v) ==
  CASE part[1] = "int"    -> LE(v, part[2])
    [] part[1] = "code"   -> <<v>>
    [] part[1] = "blob"   -> LE(Len(v), Width32) \o v
    [] part[1] = "list"   ->
         LE(Len(v), Width32) \o FlattenSeq([i \in DOMAIN v |-> WriteAll(part[2], v[i])])
    [] part[1] = "option" -> IF v = <<>> THEN <<0>> ELSE <<1>> \o WriteAll(part[2], v[1])

WriteAll(parts, vs) == FlattenSeq([i \in DOMAIN parts |-> Write(parts[i], vs[i])])

\* Reading from an offset gives the values so far and the next offset, until a
\* read goes past the end or meets a byte that means nothing.
At(n) == [at |-> n, got |-> <<>>, ok |-> TRUE]
Refused == [at |-> 0, got |-> <<>>, ok |-> FALSE]

ReadAll(bytes, from, parts) ==
  FoldLeft(LAMBDA s, part :
    LET r == IF s.ok THEN Read(bytes, s.at, part) ELSE Refused
    IN IF r.ok THEN [r EXCEPT !.got = s.got \o @] ELSE Refused, from, parts)

\* The items of a list; every one takes a byte at least.
ReadList(bytes, at, count, parts) ==
  LET step(s, i) ==
        LET r == IF s.ok THEN ReadAll(bytes, At(s.at), parts) ELSE Refused
        IN IF r.ok THEN [r EXCEPT !.got = Append(s.got, @)] ELSE Refused
      enough == IF count <= Len(bytes) THEN count ELSE Len(bytes) + 1
      items == FoldLeft(step, At(at), [i \in 1 .. enough |-> i])
  IN IF items.ok THEN [items EXCEPT !.got = <<@>>] ELSE Refused

Read(bytes, at, part) ==
  LET taken(n) == SubSeq(bytes, at + 1, at + n)
      has(n) == at + n <= Len(bytes)
      then(n, v) == [at |-> at + n, got |-> <<v>>, ok |-> TRUE]
      count == FromLE(taken(Width32))
  IN CASE part[1] = "int"  ->
            IF has(part[2]) THEN then(part[2], FromLE(taken(part[2]))) ELSE Refused
       [] part[1] = "code" ->
            IF has(1) /\ bytes[at + 1] < part[2] THEN then(1, bytes[at + 1]) ELSE Refused
       [] part[1] = "need" -> IF has(part[2]) THEN At(at) ELSE Refused
       [] part[1] = "blob" ->
            IF has(Width32) /\ has(Width32 + count)
            THEN then(Width32 + count, SubSeq(bytes, at + Width32 + 1, at + Width32 + count))
            ELSE Refused
       [] part[1] = "list" ->
            IF has(Width32) THEN ReadList(bytes, at + Width32, count, part[2]) ELSE Refused
       [] part[1] = "option" ->
            IF ~has(1) THEN Refused
            ELSE IF bytes[at + 1] = 0 THEN then(1, <<>>)
            ELSE LET r == ReadAll(bytes, At(at + 1), part[2])
                 IN IF r.ok THEN [r EXCEPT !.got = <<<<@>>>>] ELSE Refused

-----------------------------------------------------------------------------
(* Formats *)

\* Delta: frames, spawned (entity, blob), despawned, component deltas, events
\* (entity, component, field, payload, channel, target).
DeltaWritten ==
  <<U64, U64, ListOf(<<U64, Blob>>), ListOf(<<U64>>), ListOf(<<U64, U32, ListOf(<<Blob>>)>>),
    ListOf(<<U64, U32, U32, Blob, Byte, Optional(<<U64>>)>>)>>
DeltaRead ==
  <<U64, U64, ListOf(<<U64, Blob>>), ListOf(<<U64>>), ListOf(<<U64, U32, ListOf(<<Blob>>)>>),
    ListOf(<<U64, U32, U32, Blob, Byte, Optional(<<U64>>)>>)>>

\* ReplicationRegistry: component, fields (index, encoding, condition, channel).
HandshakeWritten == <<ListOf(<<U32, ListOf(<<U32, Byte, Byte, Byte>>)>>)>>

\* The check that once asked for more bytes than a field has.
HandshakeReadMutant ==
  <<ListOf(<<Need(2 * Width32), U32,
             ListOf(<<Need(Width32 + 6), U32, Code(6), Code(11), Code(3)>>)>>)>>

HandshakeRead ==
  <<ListOf(<<Need(2 * Width32), U32,
             ListOf(<<Need(Width32 + 3), U32, Code(6), Code(11), Code(3)>>)>>)>>

\* encode_archetype_key, decode_archetype_key; ChangeTracker::drain writes a
\* frame number in its place.
ArchetypeWritten == <<ListOf(<<U32>>)>>
ArchetypeRead == <<ListOf(<<U32>>)>>
PlaceholderWritten == <<U64>>

\* Replicable for Vec<String> and Option<Pod>.
TextsWritten == <<ListOf(<<Blob>>)>>
TextsRead == <<ListOf(<<Blob>>)>>
OptionWritten == <<Optional(<<U32>>)>>
OptionRead == <<Optional(<<U32>>)>>

WrittenAs ==
  [delta |-> DeltaWritten, handshake |-> HandshakeWritten, archetype |-> ArchetypeWritten,
   placeholder |-> PlaceholderWritten, texts |-> TextsWritten, option |-> OptionWritten]
ReadAs ==
  [delta |-> DeltaRead, handshake |-> HandshakeRead, archetype |-> ArchetypeRead,
   placeholder |-> ArchetypeRead, texts |-> TextsRead, option |-> OptionRead]

\* These refuse bytes they have no use for.
WholeOnly == {"archetype", "placeholder", "option"}

-----------------------------------------------------------------------------
(* Scalars *)

\* leb128_encode: digits of half a byte's values, the other half for all but
\* the last.
Half == Base \div 2
LebOf[n \in Nat] == IF n < Half THEN <<n>> ELSE <<Half + (n % Half)>> \o LebOf[n \div Half]

\* leb128_decode: up to the first byte that ends it, if there is one.
LebRead(bytes) ==
  LET last == SelectInSeq(bytes, LAMBDA b : b < Half)
  IN IF last = 0 THEN Refused
     ELSE [at |-> last, ok |-> TRUE,
           got |-> FoldRight(LAMBDA b, n : (b % Half) + Half * n, SubSeq(bytes, 1, last), 0)]

\* bytes_to_u64_lossy, xor_bytes, and a shorter number with zeros.
Padded(bytes, width) == [i \in 1 .. width |-> IF i \in DOMAIN bytes THEN bytes[i] ELSE 0]
Lossy(bytes) == FromLE(Padded(bytes, Width64))
Longest(a, b) == IF Len(a) >= Len(b) THEN Len(a) ELSE Len(b)
XorBytes(a, b) ==
  LET n == Longest(a, b)
  IN [i \in 1 .. n |-> Padded(a, n)[i] ^^ Padded(b, n)[i]]

\* encode_field_value and decode_field_value of a compressed field.
ScalarRead(bytes, width) ==
  LET r == LebRead(bytes)
  IN IF r.ok THEN [r EXCEPT !.got = SubSeq(LE(@, Width64), 1, width)] ELSE Refused

-----------------------------------------------------------------------------
(* Messages *)

BytesOf(m) ==
  IF m.kind = "scalar" THEN LebOf[Lossy(m.value)] ELSE WriteAll(WrittenAs[m.kind], m.value)

ReadFrom(m, bytes) ==
  IF m.kind = "scalar" THEN ScalarRead(bytes, Len(m.value))
  ELSE LET r == ReadAll(bytes, At(0), ReadAs[m.kind])
       IN IF m.kind \in WholeOnly /\ r.at # Len(bytes) THEN Refused ELSE r

\* What came of the message: a part of it, all of it, or more.
Exchange(m) ==
  \E n \in 0 .. Len(BytesOf(m)), more \in {<<>>, <<0>>} :
    LET bytes == SubSeq(BytesOf(m), 1, n) \o more
    IN /\ more # <<>> => n = Len(BytesOf(m))
       /\ exchange' = [sent |-> m, came |-> bytes, read |-> ReadFrom(m, bytes)]

-----------------------------------------------------------------------------
(* Cells *)

\* capture_cells: every field of a row encodes all of the column's bytes.
CapturedCells(schema, bytes) ==
  [i \in DOMAIN schema |->
     CASE schema[i] = "Pod" -> bytes
       [] schema[i] = "DeltaCompressed" -> LebOf[Lossy(bytes)]
       [] schema[i] = "Event" -> <<>>]

FirstOf(s, n) == SubSeq(s, 1, IF n <= Len(s) THEN n ELSE Len(s))

\* restore_to_cells: fields fill the row one after another.
Refilled(schema, fields, size) ==
  LET left(s) == size - Len(s)
      fill(s, i) ==
        s \o (IF schema[i] = "DeltaCompressed"
              THEN FirstOf(ScalarRead(fields[i], Width64).got, left(s))
              ELSE FirstOf(fields[i], left(s)))
      full == FoldLeft(LAMBDA s, i : IF left(s) > 0 THEN fill(s, i) ELSE s, <<>>,
                       [i \in DOMAIN schema |-> i])
  IN Padded(full, size)

LiveOf(rows) == SelectSeq(rows, LAMBDA r : r.live)

\* Dead rows are skipped; the first row there is no room for ends it.
RestoreCells(schema, rows, room) ==
  LET kept == LiveOf(rows)
      n == IF Len(kept) <= room THEN Len(kept) ELSE room
  IN restored' = [schema |-> schema, from |-> rows, room |-> room, ok |-> Len(kept) <= room,
                  rows |-> [i \in 1 .. n |->
                    LET b == kept[i].bytes IN Refilled(schema, CapturedCells(schema, b), Len(b))]]

-----------------------------------------------------------------------------
NoExchange == <<>>
WireInit == exchange = NoExchange /\ restored = NoExchange
WireNext ==
  /\ exchange = NoExchange /\ restored = NoExchange
  /\ \/ (\E m \in Messages : Exchange(m)) /\ UNCHANGED restored
     \/ /\ \E schema \in CellSchemas, rows \in CellRows, room \in Rooms :
             RestoreCells(schema, rows, room)
        /\ UNCHANGED exchange

-----------------------------------------------------------------------------
(* Compression *)

Sides == {"sender", "receiver"}
LastOf(side, k) == IF k \in DOMAIN cache[side] THEN cache[side][k] ELSE <<>>
Remembers(side, k, v) == cache' = [cache EXCEPT ![side] = (k :> v) @@ @]

Put(k, what, bytes, v) ==
  /\ Len(underway) < MaxCompressed
  /\ underway' = Append(underway, [key |-> k, what |-> what, bytes |-> bytes, meant |-> v,
                                   gap |-> k \in gap])
  /\ gap' = gap \ {k}
  /\ UNCHANGED shown

Encode(k, v) ==
  /\ Put(k, "diff", LebOf[Lossy(XorBytes(v, LastOf("sender", k)))], v)
  /\ Remembers("sender", k, v)

\* A snapshot's value: the sender acknowledges it, the receiver when it comes.
Resync(k, v) == Put(k, "value", v, v) /\ Remembers("sender", k, v)

\* The entity is despawned, and its key may be used again.
Forget(k) ==
  /\ k \in DOMAIN cache.sender
  /\ Put(k, "forget", <<>>, <<>>)
  /\ cache' = [cache EXCEPT !.sender = [j \in DOMAIN @ \ {k} |-> @[j]]]

\* Something is lost: what follows it was encoded against it.
Lose(i) ==
  LET k == underway[i].key
      later == {j \in i + 1 .. Len(underway) : underway[j].key = k}
      next == CHOOSE j \in later : \A l \in later : j <= l
  IN /\ underway' = RemoveAt(IF later = {} THEN underway
                             ELSE [underway EXCEPT ![next].gap = TRUE], i)
     /\ gap' = IF later = {} THEN gap \union {k} ELSE gap
     /\ UNCHANGED <<cache, shown>>

Decoded(m, width) ==
  LET diff == SubSeq(LE(LebRead(m.bytes).got, Width64), 1, width)
  IN Padded(SubSeq(XorBytes(diff, LastOf("receiver", m.key)), 1, width), width)

Deliver ==
  LET m == Head(underway)
      v == IF m.what = "diff" THEN Decoded(m, Len(m.meant)) ELSE m.meant
      inStep == IF m.what = "diff" THEN shown[m.key].inStep /\ ~m.gap ELSE TRUE
  IN /\ underway # <<>> /\ underway' = Tail(underway)
     /\ IF m.what = "forget"
        THEN cache' = [cache EXCEPT !.receiver = [j \in DOMAIN @ \ {m.key} |-> @[j]]]
        ELSE Remembers("receiver", m.key, v)
     /\ shown' = [shown EXCEPT ![m.key] = [value |-> v, meant |-> m.meant, inStep |-> inStep]]
     /\ UNCHANGED gap

CompressInit ==
  /\ cache = [side \in Sides |-> <<>>] /\ underway = <<>> /\ gap = {}
  /\ shown = [k \in Keys |-> [value |-> <<>>, meant |-> <<>>, inStep |-> TRUE]]

CompressNext ==
  \/ \E k \in Keys, v \in Scalars : Encode(k, v) \/ Resync(k, v)
  \/ \E k \in Keys : Forget(k)
  \/ \E i \in DOMAIN underway : Lose(i)
  \/ Deliver

-----------------------------------------------------------------------------
\* What is read is what was written, and only when all of it came: a message
\* cut anywhere is refused, one with bytes to spare is read all the same or, by
\* the exact formats, refused.  A frame number in an archetype's place is no
\* archetype, unless its low word is 1, which reads as a count of one.
MessagesExact ==
  exchange # NoExchange =>
    LET m == exchange.sent
        whole == Len(exchange.came) = Len(BytesOf(m))
        over == Len(exchange.came) > Len(BytesOf(m)) /\ m.kind \notin WholeOnly
    IN IF m.kind = "placeholder"
       THEN whole /\ m.value[1] % Base^Width32 # 1 => ~exchange.read.ok
       ELSE /\ exchange.read.ok = (whole \/ over)
            /\ exchange.read.ok => exchange.read.got = m.value

\* The live rows of a cell come back as they were and in order, as many as there
\* is room for, if the column's first state field carries all of a row.
CellsRestored ==
  restored # NoExchange =>
    LET state == SelectSeq(restored.schema, LAMBDA enc : enc # "Event")
        kept == LiveOf(restored.from)
        carries == \A r \in ToSet(kept) :
          state # <<>> /\ (Head(state) = "Pod" \/ Len(r.bytes) <= Width64)
    IN /\ restored.ok = (Len(kept) <= restored.room)
       /\ carries => restored.rows = [i \in DOMAIN restored.rows |-> kept[i].bytes]

\* A receiver shows the value the sender meant for as long as nothing of its key
\* was lost since a snapshot's value or the key's end came through, whatever was
\* lost before (replication.rs "Symmetry requirement").
ValuesInStep == \A k \in Keys : shown[k].inStep => shown[k].value = shown[k].meant

=============================================================================
