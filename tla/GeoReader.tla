------------------------------ MODULE GeoReader ------------------------------
(***************************************************************************)
(* Reading a geolocation database (edge/src/geo.mjs): the encodings whose  *)
(* arithmetic has boundaries, the walk of the search tree, the merge of    *)
(* several databases, the reserved ranges, and the archive a database is   *)
(* taken from.  Each is compared with what the format's writer lays out.   *)
(* `datum` is one input, chosen at the start.                              *)
(***************************************************************************)
EXTENDS Integers, Sequences, FiniteSets

VARIABLE datum

-----------------------------------------------------------------------------
(* Numbers.                                                                *)

\* decodeValue, pointers: three bits of the control byte above 1, 2 or 3 bytes,
\* or 4 bytes alone; each width starts where the one below it ends.
PointerBase == <<0, 2048, 526336, 0>>
Pointer(width, low, tail) ==
    IF width = 3 THEN tail ELSE low * 256^(width + 1) + tail + PointerBase[width + 1]

\* (mutant: the third range starts one too early)
SizeShifted(short, tail) ==
    CASE short < 29 -> short
      [] short = 29 -> 29 + tail
      [] short = 30 -> 284 + tail
      [] short = 31 -> 65821 + tail

\* decodeValue, sizes: 29, 30 and 31 announce one, two and three more bytes.
Size(short, tail) ==
    CASE short < 29 -> short
      [] short = 29 -> 29 + tail
      [] short = 30 -> 285 + tail
      [] short = 31 -> 65821 + tail

\* record, 28 bits: the middle byte's high nibble is the left record's.
ReadRecord(bytes, bit) ==
    LET three(i) == bytes[i] * 65536 + bytes[i + 1] * 256 + bytes[i + 2]
    IN  IF bit = 0 THEN (bytes[4] \div 16) * 2^24 + three(1)
                   ELSE (bytes[4] % 16) * 2^24 + three(5)

\* What a writer lays out for a pair of records.
Bytes(left, right) ==
    LET at(n, i) == (n \div 256^(2 - i)) % 256
    IN  <<at(left, 0), at(left, 1), at(left, 2), (left \div 2^24) * 16 + right \div 2^24,
          at(right, 0), at(right, 1), at(right, 2)>>

-----------------------------------------------------------------------------
(* The search tree.                                                        *)

\* get: from node 0, a bit at a time, until a record that is not a node; the
\* node count itself, or anything below it, is "no data".
Get(tree, count, address) ==
    LET walk[i \in 0..Len(address)] ==
            IF i = 0 THEN 0
            ELSE LET node == walk[i - 1]
                 IN  IF node < count THEN tree[node][address[i]] ELSE node
        end == walk[Len(address)]
    IN  IF end <= count THEN "none" ELSE end - count

\* The tree of three-bit addresses a writer makes of a table: nodes numbered
\* from the root, and a record of its own for a prefix with one answer.
Node(prefix) == IF prefix = <<>> THEN 0 ELSE IF Len(prefix) = 1 THEN 1 + prefix[1]
                                        ELSE 3 + 2 * prefix[1] + prefix[2]
Bits(n) == [1..n -> {0, 1}]
Beneath(prefix) == {a \in Bits(3) : SubSeq(a, 1, Len(prefix)) = prefix}
TreeOf(answers) ==
    LET count == 7
        under(prefix) == {answers[a] : a \in Beneath(prefix)}
        record(prefix) == IF Cardinality(under(prefix)) = 1
                            THEN count + CHOOSE v \in under(prefix) : TRUE
                            ELSE Node(prefix)
        prefixOf(n) == CHOOSE p \in Bits(0) \cup Bits(1) \cup Bits(2) : Node(p) = n
    IN  [n \in 0..6 |-> [b \in {0, 1} |-> record(Append(prefixOf(n), b))]]

-----------------------------------------------------------------------------
(* Addresses.                                                              *)

\* isReserved, of the first three bytes of an IPv4 address.
IsReserved(a, b, c) ==
    \/ a \in {0, 10, 127} \/ a >= 224
    \/ a = 172 /\ b \in 16..31
    \/ a = 192 /\ b = 168
    \/ a = 169 /\ b = 254
    \/ a = 100 /\ b \in 64..127
    \/ a = 192 /\ b = 0 /\ c = 2
    \/ a = 198 /\ b \in {18, 19}
    \/ a = 198 /\ b = 51 /\ c = 100
    \/ a = 203 /\ b = 0 /\ c = 113

\* The blocks, as their registries write them: an address and a prefix length.
Blocks == {<<0,0,0,8>>, <<10,0,0,8>>, <<127,0,0,8>>, <<172,16,0,12>>, <<192,168,0,16>>,
           <<169,254,0,16>>, <<100,64,0,10>>, <<224,0,0,3>>, <<192,0,2,24>>,
           <<198,18,0,15>>, <<198,51,100,24>>, <<203,0,113,24>>}
In(block, a, b, c) ==
    LET net(x, y, z) == (x * 65536 + y * 256 + z) \div 2^(24 - block[4])
    IN  net(a, b, c) = net(block[1], block[2], block[3])

-----------------------------------------------------------------------------
(* Several databases, and the archive.                                     *)

\* lookup: each field from the first database that has it; one that throws is
\* passed over.
Merge(answers) ==
    [field \in {"country", "asn"} |->
        LET has == {i \in DOMAIN answers : ~answers[i].throws /\ field \in answers[i].has}
        IN  IF has = {} THEN 0 ELSE CHOOSE i \in has : \A j \in has : i <= j]

\* extractDatabase: headers of one block, each file padded to whole blocks.  An
\* archive is what stands at each of its header's offsets.
Block == 512
Padded(size) == ((size + Block - 1) \div Block) * Block
Extract(archive, length) ==
    LET step[n \in 0..Cardinality(DOMAIN archive)] ==
            IF n = 0 THEN [at |-> 0, found |-> -1]
            ELSE LET was == step[n - 1] IN
                 IF was.found # -1 \/ was.at \notin DOMAIN archive \/ was.at + Block > length THEN was
                 ELSE LET file == archive[was.at] IN
                      IF file.database /\ was.at + Block + file.size <= length
                        THEN [was EXCEPT !.found = was.at + Block]
                        ELSE IF file.database THEN [was EXCEPT !.found = -2]
                        ELSE [was EXCEPT !.at = was.at + Block + Padded(file.size)]
    IN  step[Cardinality(DOMAIN archive)].found

\* Where tar puts the n-th of a list of files.
Offset(files, n) ==
    LET sum[i \in 0..Len(files)] ==
            IF i = 0 THEN 0
            ELSE sum[i - 1] + Block * (1 + (files[i].size \div Block)
                                         + (IF files[i].size % Block = 0 THEN 0 ELSE 1))
    IN  sum[n - 1]
Archive(files) == [at \in {Offset(files, n) : n \in DOMAIN files} |->
                      files[CHOOSE n \in DOMAIN files : Offset(files, n) = at]]

-----------------------------------------------------------------------------
(* Inputs and properties.                                                  *)

Edges28 == {0, 1, 255, 2^24 - 1, 2^24, 90000000, 2^28 - 1}
Files == [size: {0, 1, 511, 512, 513}, database: BOOLEAN]

GeoInputs ==
    [of: {"pointer"}, width: 0..2, low: 0..7, tail: {"first", "last"}] \cup
    [of: {"size"}, short: 0..30] \cup
    [of: {"record"}, left: Edges28, right: Edges28] \cup
    [of: {"tree"}, answers: [Bits(3) -> 0..1]] \cup
    [of: {"address"}, a: {0, 1, 10, 11, 100, 126, 127, 128, 169, 172, 192, 198, 203, 223, 224, 255}, b: {0, 15, 16, 17, 18, 19, 20, 31, 32, 51, 63, 64, 127, 128, 168, 254},
     c: {0, 1, 2, 3, 100, 113}] \cup
    [of: {"merge"}, answers: [1..2 -> [throws: BOOLEAN, has: SUBSET {"country", "asn"}]]] \cup
    [of: {"archive"}, files: [1..3 -> Files], cut: {0, 1, 513}]

GeoReaderInit == datum \in GeoInputs

\* Pointers of neighbouring widths leave no gap and no overlap, so that every
\* offset of a database is reached by exactly one shortest encoding.
TailOf(width, tail) == IF tail = "first" THEN 0 ELSE 256^(width + 1) - 1
PointersMeet ==
    datum.of = "pointer" =>
        LET here == Pointer(datum.width, datum.low, TailOf(datum.width, datum.tail))
            next == IF datum.tail = "first" THEN Pointer(datum.width, datum.low, 1)
                    ELSE IF datum.low < 7 THEN Pointer(datum.width, datum.low + 1, 0)
                    ELSE IF datum.width < 2 THEN Pointer(datum.width + 1, 0, 0) ELSE here + 1
        IN  next = here + 1

\* So do sizes: the largest of one form is followed by the smallest of the next.
SizesMeet ==
    datum.of = "size" =>
        LET last(short) == IF short < 29 THEN 0 ELSE IF short = 29 THEN 255 ELSE 65535
        IN  Size(datum.short + 1, 0) = Size(datum.short, last(datum.short)) + 1

\* A record reads back as it was written, in either half.
RecordsReadBack ==
    datum.of = "record" =>
        /\ ReadRecord(Bytes(datum.left, datum.right), 0) = datum.left
        /\ ReadRecord(Bytes(datum.left, datum.right), 1) = datum.right

\* Every address finds what the table it was written from says of it, whatever
\* prefixes the writer chose; a range without data finds nothing.
WalkFindsPrefix ==
    datum.of = "tree" =>
        \A a \in Bits(3) : LET got == Get(TreeOf(datum.answers), 7, a)
                           IN  got = (IF datum.answers[a] = 0 THEN "none" ELSE datum.answers[a])

\* What is refused a lookup is exactly the blocks the comment names.
ReservedAreTheBlocks ==
    datum.of = "address" =>
        (IsReserved(datum.a, datum.b, datum.c) <=> \E block \in Blocks : In(block, datum.a, datum.b, datum.c))

\* A database that throws costs no field that another one has.
DamageIsContained ==
    datum.of = "merge" =>
        \A field \in {"country", "asn"} :
            Merge(datum.answers)[field] = 0 <=>
                \A i \in 1..2 : datum.answers[i].throws \/ field \notin datum.answers[i].has

\* The database taken from an archive is its first, from its first byte, and
\* only whole; sizes that fill their blocks exactly included.
ArchiveFindsFirst ==
    datum.of = "archive" =>
        LET files == datum.files
            length == Offset(files, 3) + Block + Padded(files[3].size) - datum.cut
            first == {n \in 1..3 : files[n].database /\ \A m \in 1..(n - 1) : ~files[m].database}
            got == Extract(Archive(files), length)
        IN  \A n \in first :
                got = Offset(files, n) + Block <=>
                    Offset(files, n) + Block + files[n].size <= length

\* All of it.
GeoReadsWhatIsWritten ==
    /\ PointersMeet /\ SizesMeet /\ RecordsReadBack
    /\ WalkFindsPrefix
    /\ ReservedAreTheBlocks
    /\ DamageIsContained
    /\ ArchiveFindsFirst
=============================================================================
