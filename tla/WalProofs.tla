------------------------------- MODULE WalProofs -------------------------------
(***************************************************************************)
(* Theorems about module Wal, for every size of files and entries.         *)
(***************************************************************************)
EXTENDS Wal, SequenceTheorems, FiniteSetTheorems, TLAPS

------------------------------------------------------------------------------
(***************************************************************************)
(* Induction, and the recursive functions that are defined by it.          *)
(***************************************************************************)

\* A set that holds 0 and with each number the next holds them all.
LEMMA AllNumbers ==
    ASSUME NEW S, 0 \in S, \A n \in Nat : n \in S => n + 1 \in S
    PROVE  \A n \in Nat : n \in S
<1> DEFINE T == {n \in Nat : n \notin S}
           R == OpToRel(<, Nat)
<1> SUFFICES ASSUME T # {} PROVE FALSE
  OBVIOUS
<1>1. IsWellFoundedOn(R, Nat)
  BY NatLessThanWellFounded
<1>2. PICK x \in T : \A y \in T : ~(<<y, x>> \in R)
  <2> HIDE DEF T, R
  <2>1. T \subseteq Nat
    BY DEF T
  <2> QED BY <1>1, <2>1, WFMin
<1>3. x - 1 \in Nat /\ (x - 1) + 1 = x
  OBVIOUS
<1>4. x - 1 \notin S
  BY <1>3
<1>5. <<x - 1, x>> \in R
  BY <1>3 DEF OpToRel
<1> QED BY <1>2, <1>3, <1>4, <1>5

------------------------------------------------------------------------------
(***************************************************************************)
(* Reading a file.                                                         *)
(***************************************************************************)

Cell == {Zero} \cup {c \in [id : 1 .. MaxEntries, part : Nat, tag : Kinds] :
                         c.part < EntrySize[c.tag]}
Memory == [Offsets -> Cell]

\* The cells of entries are not zeros, and their messages have sizes.
LEMMA CellParts ==
    ASSUME NEW cell \in Cell, cell # Zero
    PROVE  /\ cell.id \in 1 .. MaxEntries /\ cell.tag \in Kinds /\ cell.part \in Nat
           /\ EntrySize[cell.tag] \in Nat /\ EntrySize[cell.tag] > TagSize
           /\ cell.part < EntrySize[cell.tag]
           /\ cell = [id |-> cell.id, part |-> cell.part, tag |-> cell.tag]
BY SizesAssumption DEF Cell

LEMMA EntriesAreNotZero ==
    ASSUME NEW e \in Entry, NEW n
    PROVE  Part(e, n) # Zero
BY DEF Part, Entry, Zero

\* The body of ReadFrom's function.
ReadStep(mem, read, cursor) ==
    IF cursor < FileSize /\ EntryBegins(mem, cursor)
    THEN LET rest == read[cursor + EntrySize[mem[cursor].tag]]
         IN  [entries |-> <<EntryAt(mem, cursor)>> \o rest.entries,
              end |-> rest.end, ok |-> rest.ok]
    ELSE [entries |-> <<>>, end |-> cursor,
          ok |-> \/ cursor = FileSize
                 \/ cursor + TagSize <= FileSize /\ mem[cursor] = Zero]

\* It looks further on only.
LEMMA ReadsOn ==
    ASSUME NEW mem \in Memory, NEW c \in 0 .. FileSize, NEW f, NEW g,
           \A d \in c + 1 .. FileSize : f[d] = g[d]
    PROVE  ReadStep(mem, f, c) = ReadStep(mem, g, c)
<1>1. CASE c < FileSize /\ EntryBegins(mem, c)
  <2> DEFINE d == c + EntrySize[mem[c].tag]
  <2>1. mem[c] \in Cell /\ mem[c] # Zero /\ d <= FileSize
    BY <1>1, SizesAssumption DEF EntryBegins, Memory, Offsets
  <2>2. d \in c + 1 .. FileSize
    BY <2>1, CellParts, SizesAssumption
  <2> QED BY <1>1, <2>2 DEF ReadStep
<1> QED BY <1>1 DEF ReadStep

LEMMA ReadFromExists ==
    ASSUME NEW mem \in Memory
    PROVE  \E f : f = [c \in 0 .. FileSize |-> ReadStep(mem, f, c)]
<1> DEFINE Reads(f, k) == f = [c \in FileSize - k .. FileSize |-> ReadStep(mem, f, c)]
           S == {k \in Nat : k <= FileSize => \E f : Reads(f, k)}
<1>1. FileSize \in Nat
  BY SizesAssumption
<1>2. 0 \in S
  <2> DEFINE f == [c \in FileSize .. FileSize |-> ReadStep(mem, <<>>, c)]
  <2>1. \A c \in FileSize .. FileSize : ReadStep(mem, <<>>, c) = ReadStep(mem, f, c)
    BY <1>1, ReadsOn
  <2>2. FileSize - 0 = FileSize
    BY <1>1
  <2>3. Reads(f, 0)
    BY <2>1, <2>2
  <2> QED BY <2>3
<1>3. ASSUME NEW k \in Nat, k \in S PROVE k + 1 \in S
  <2> SUFFICES ASSUME k + 1 <= FileSize PROVE \E g : Reads(g, k + 1)
    OBVIOUS
  <2>1. PICK f : Reads(f, k)
    BY <1>1, <1>3
  <2> DEFINE first == FileSize - (k + 1)
             g == [c \in first .. FileSize |-> IF c = first THEN ReadStep(mem, f, c) ELSE f[c]]
  <2>2. first \in 0 .. FileSize /\ FileSize - k = first + 1
    BY <1>1
  <2>3. \A d \in first + 1 .. FileSize : g[d] = f[d]
    BY <2>2
  <2>4. ASSUME NEW c \in first .. FileSize PROVE g[c] = ReadStep(mem, g, c)
    <3>1. ReadStep(mem, f, c) = ReadStep(mem, g, c)
      <4>1. c \in 0 .. FileSize /\ \A d \in c + 1 .. FileSize : f[d] = g[d]
        BY <1>1, <2>2, <2>3
      <4> HIDE DEF g
      <4> QED BY <4>1, ReadsOn
    <3>2. c # first => c \in FileSize - k .. FileSize
      BY <1>1, <2>2
    <3>3. c # first => f[c] = ReadStep(mem, f, c)
      <4> HIDE DEF first
      <4> QED BY <2>1, <3>2
    <3> QED BY <3>1, <3>3
  <2>5. g = [c \in first .. FileSize |-> ReadStep(mem, g, c)]
    <3>1. g = [c \in first .. FileSize |-> g[c]]
      OBVIOUS
    <3> HIDE DEF g
    <3> QED BY <2>4, <3>1
  <2> QED BY <2>5
<1>4. FileSize \in S
  <2> HIDE DEF S
  <2> QED BY <1>1, <1>2, <1>3, AllNumbers
<1>5. PICK f : Reads(f, FileSize)
  BY <1>1, <1>4
<1>6. FileSize - FileSize = 0
  BY <1>1
<1> QED BY <1>5, <1>6

LEMMA ReadFromDef ==
    ASSUME NEW mem \in Memory
    PROVE  ReadFrom(mem) = [c \in 0 .. FileSize |-> ReadStep(mem, ReadFrom(mem), c)]
<1> DEFINE P(f) == f = [c \in 0 .. FileSize |-> ReadStep(mem, f, c)]
<1>1. ReadFrom(mem) = CHOOSE f : P(f)
  BY DEF ReadFrom, ReadStep
<1>2. \E f : P(f)
  BY ReadFromExists
<1>3. P(CHOOSE f : P(f))
  <2> HIDE DEF P
  <2> QED BY <1>2
<1> QED BY <1>1, <1>3

\* From the end of the file to its front.
LEMMA Downward ==
    ASSUME NEW S,
           \A c \in 0 .. FileSize : (\A d \in c + 1 .. FileSize : d \in S) => c \in S
    PROVE  \A c \in 0 .. FileSize : c \in S
<1> DEFINE T == {k \in Nat : \A d \in 0 .. FileSize : d >= FileSize - k => d \in S}
<1>1. FileSize \in Nat
  BY SizesAssumption
<1>2. 0 \in T
  <2>1. FileSize \in S
    <3>1. FileSize \in 0 .. FileSize /\ FileSize + 1 .. FileSize = {}
      BY <1>1
    <3> QED BY <3>1
  <2> QED BY <1>1, <2>1
<1>3. ASSUME NEW k \in Nat, k \in T PROVE k + 1 \in T
  <2> SUFFICES ASSUME NEW d \in 0 .. FileSize, d >= FileSize - (k + 1) PROVE d \in S
    BY <1>3
  <2>1. \A b \in d + 1 .. FileSize : b \in S
    BY <1>1, <1>3
  <2> QED BY <2>1
<1>4. FileSize \in T
  <2> HIDE DEF T
  <2> QED BY <1>1, <1>2, <1>3, AllNumbers
<1> QED BY <1>1, <1>4

\* One step, where an entry begins and where none does.
LEMMA ReadEntry ==
    ASSUME NEW mem \in Memory, NEW c \in 0 .. FileSize - 1, EntryBegins(mem, c)
    PROVE  LET size == EntrySize[mem[c].tag]
               rest == ReadFrom(mem)[c + size]
           IN  /\ mem[c] \in Cell /\ mem[c] # Zero /\ mem[c].tag \in Kinds
               /\ size \in Nat /\ size > 0 /\ c + size \in c + 1 .. FileSize
               /\ ReadFrom(mem)[c] = [entries |-> <<EntryAt(mem, c)>> \o rest.entries,
                                      end |-> rest.end, ok |-> rest.ok]
<1>1. mem[c] \in Cell /\ mem[c] # Zero /\ c + EntrySize[mem[c].tag] <= FileSize
  BY SizesAssumption DEF EntryBegins, Memory, Offsets
<1>2. /\ mem[c].tag \in Kinds /\ EntrySize[mem[c].tag] \in Nat
      /\ EntrySize[mem[c].tag] > 0
  BY <1>1, CellParts, SizesAssumption
<1>3. c \in 0 .. FileSize /\ c < FileSize
  BY SizesAssumption
<1>4. ReadFrom(mem)[c] = ReadStep(mem, ReadFrom(mem), c)
  BY <1>3, ReadFromDef
<1>5. ReadStep(mem, ReadFrom(mem), c) =
        LET rest == ReadFrom(mem)[c + EntrySize[mem[c].tag]]
        IN  [entries |-> <<EntryAt(mem, c)>> \o rest.entries,
             end |-> rest.end, ok |-> rest.ok]
  BY <1>3 DEF ReadStep
<1>6. c + EntrySize[mem[c].tag] \in c + 1 .. FileSize
  BY <1>1, <1>2, SizesAssumption
<1> QED BY <1>1, <1>2, <1>4, <1>5, <1>6

LEMMA ReadEnd ==
    ASSUME NEW mem \in Memory, NEW c \in 0 .. FileSize,
           ~(c < FileSize /\ EntryBegins(mem, c))
    PROVE  ReadFrom(mem)[c] = [entries |-> <<>>, end |-> c,
                               ok |-> \/ c = FileSize
                                      \/ c + TagSize <= FileSize /\ mem[c] = Zero]
<1>1. ReadFrom(mem)[c] = ReadStep(mem, ReadFrom(mem), c)
  BY ReadFromDef
<1> QED BY <1>1 DEF ReadStep

LEMMA EntryAtType ==
    ASSUME NEW mem, NEW c, mem[c] \in Cell, mem[c] # Zero
    PROVE  EntryAt(mem, c) \in Entry \cup Torn
<1>1. mem[c].id \in 1 .. MaxEntries /\ mem[c].tag \in Kinds
  BY CellParts
<1> DEFINE id == EntryAt(mem, c).id
<1>2. EntryAt(mem, c) = [id |-> id, kind |-> mem[c].tag] /\ id \in {mem[c].id, 0, -1}
  BY DEF EntryAt
<1> QED BY <1>1, <1>2 DEF Entry, Torn

Result == [entries : Seq(Entry \cup Torn), end : 0 .. FileSize, ok : BOOLEAN]

LEMMA ReadFromType ==
    ASSUME NEW mem \in Memory
    PROVE  \A c \in 0 .. FileSize :
              ReadFrom(mem)[c] \in Result /\ ReadFrom(mem)[c].end >= c
<1> DEFINE R == ReadFrom(mem)
           S == {c \in 0 .. FileSize : R[c] \in Result /\ R[c].end >= c}
<1>1. ASSUME NEW c \in 0 .. FileSize, \A d \in c + 1 .. FileSize : d \in S
      PROVE  c \in S
  <2>1. CASE c < FileSize /\ EntryBegins(mem, c)
    <3> DEFINE rest == R[c + EntrySize[mem[c].tag]]
    <3>1. c \in 0 .. FileSize - 1
      BY <2>1, SizesAssumption
    <3>2. /\ mem[c] \in Cell /\ mem[c] # Zero
          /\ c + EntrySize[mem[c].tag] \in c + 1 .. FileSize
          /\ R[c] = [entries |-> <<EntryAt(mem, c)>> \o rest.entries,
                     end |-> rest.end, ok |-> rest.ok]
      BY <2>1, <3>1, ReadEntry
    <3>3. rest \in Result /\ rest.end >= c
      <4> DEFINE d == c + EntrySize[mem[c].tag]
      <4>1. d \in c + 1 .. FileSize /\ d \in Int
        BY <3>2, SizesAssumption
      <4>2. d \in S
        BY <1>1, <4>1
      <4>3. R[d] \in Result /\ R[d].end >= d
        BY <4>2
      <4>4. R[d].end \in Nat
        <5> HIDE DEF R, d
        <5> QED BY <4>3, SizesAssumption DEF Result
      <4>5. R[d].end >= c
        <5> HIDE DEF R, d
        <5> QED BY <4>1, <4>3, <4>4
      <4> QED BY <4>3, <4>5
    <3>4. EntryAt(mem, c) \in Entry \cup Torn
      BY <3>2, EntryAtType
    <3> HIDE DEF rest, R
    <3>5. <<EntryAt(mem, c)>> \o rest.entries \in Seq(Entry \cup Torn)
      BY <3>3, <3>4 DEF Result
    <3>6. R[c] \in Result
      BY <3>2, <3>3, <3>5 DEF Result
    <3>7. R[c].end >= c
      BY <3>2, <3>3
    <3> QED BY <3>6, <3>7
  <2>2. CASE ~(c < FileSize /\ EntryBegins(mem, c))
    <3> DEFINE ok == \/ c = FileSize
                     \/ c + TagSize <= FileSize /\ mem[c] = Zero
    <3>1. R[c] = [entries |-> <<>>, end |-> c, ok |-> ok]
      BY <2>2, ReadEnd
    <3>2. ok \in BOOLEAN
      OBVIOUS
    <3>3. <<>> \in Seq(Entry \cup Torn)
      OBVIOUS
    <3> HIDE DEF ok, R
    <3>4. R[c] \in Result
      BY <3>1, <3>2, <3>3 DEF Result
    <3>5. R[c].end >= c
      BY <3>1
    <3> QED BY <3>4, <3>5
  <2> QED BY <2>1, <2>2
<1>2. \A c \in 0 .. FileSize : c \in S
  <2> HIDE DEF S
  <2> QED BY <1>1, Downward
<1> QED BY <1>2

------------------------------------------------------------------------------
(***************************************************************************)
(* Sizes are multiples of the tag's: a rest that begins at one has room    *)
(* for a tag.                                                              *)
(***************************************************************************)

LEMMA Multiples ==
    ASSUME NEW T \in Nat \ {0}, NEW a \in Nat, NEW b \in Nat, a % T = 0, b % T = 0
    PROVE  (a + b) % T = 0 /\ (a < b => a + T <= b)
<1>1. PICK p \in Int : a = T * p
  BY SMT
<1>2. PICK q \in Int : b = T * q
  BY SMT
<1>3. a + b = T * (p + q)
  BY <1>1, <1>2
<1>4. a < b => p < q
  BY <1>1, <1>2
<1>5. a < b => T * (p + 1) <= T * q
  BY <1>4
<1>6. T * (p + 1) = T * p + T
  OBVIOUS
<1>7. (T * (p + q)) % T = 0
  BY SMT
<1> QED BY <1>1, <1>2, <1>3, <1>5, <1>6, <1>7

------------------------------------------------------------------------------
(***************************************************************************)
(* Writing behind the last entry of a file.                                *)
(***************************************************************************)

\* What a file of full length holds: entries up to a multiple of the tag's size,
\* and nothing but zeros from there on.
Written == {mem \in Memory :
              LET end == ReadFrom(mem)[0].end
              IN  /\ ReadFrom(mem)[0].ok
                  /\ end % TagSize = 0
                  /\ \A o \in end .. FileSize - 1 : mem[o] = Zero}

\* What n cells of entry e read as.
Copied(e, n) == [id |-> IF n = EntrySize[e.kind] THEN e.id
                        ELSE IF n >= SymbolEnd[e.kind] THEN 0 ELSE -1,
                 kind |-> e.kind]

LEMMA CopiedType ==
    ASSUME NEW e \in Entry, NEW n
    PROVE  Copied(e, n) \in Entry \cup Torn
BY DEF Copied, Entry, Torn

\* An entry of a size that a file has room for, behind aligned entries, ends on
\* a multiple of the tag's size.
LEMMA Aligned ==
    ASSUME NEW e \in Entry, NEW z \in 0 .. FileSize, z % TagSize = 0,
           z + EntrySize[e.kind] <= FileSize
    PROVE  LET size == EntrySize[e.kind]
           IN  /\ size \in Nat /\ size > 0 /\ z < FileSize
               /\ z + size \in 0 .. FileSize
               /\ (z + size) % TagSize = 0
               /\ z + size < FileSize => z + size + TagSize <= FileSize
<1> DEFINE size == EntrySize[e.kind]
<1>1. e.kind \in Kinds
  BY DEF Entry
<1>2. size \in Nat /\ size > TagSize /\ size % TagSize = 0
  BY <1>1, SizesAssumption
<1>3. FileSize \in Nat /\ FileSize % TagSize = 0 /\ TagSize \in Nat \ {0}
  BY SizesAssumption
<1> HIDE DEF size
<1>4. z \in Nat /\ z + size \in Nat
  BY <1>2
<1>5. (z + size) % TagSize = 0
  BY <1>2, <1>3, <1>4, Multiples
<1>6. z + size < FileSize => z + size + TagSize <= FileSize
  BY <1>3, <1>4, <1>5, Multiples
<1>7. size > 0 /\ z < FileSize /\ z + size \in 0 .. FileSize
  BY <1>2, <1>3, <1>4 DEF size
<1> QED BY <1>2, <1>5, <1>6, <1>7 DEF size

LEMMA WriteType ==
    ASSUME NEW mem \in Memory, NEW z \in 0 .. FileSize, NEW e \in Entry,
           NEW n \in 1 .. EntrySize[e.kind]
    PROVE  /\ Write(mem, z, e, n) \in Memory
           /\ \A o \in Offsets : (o < z \/ o >= z + n) => Write(mem, z, e, n)[o] = mem[o]
           /\ \A k \in 0 .. n - 1 : z + k < FileSize => Write(mem, z, e, n)[z + k] = Part(e, k)
<1>1. e.kind \in Kinds /\ e.id \in 1 .. MaxEntries /\ EntrySize[e.kind] \in Nat
  BY SizesAssumption DEF Entry
<1>2. ASSUME NEW o \in Offsets, o \in z .. z + n - 1
      PROVE  Part(e, o - z) \in Cell
  <2>1. o - z \in Nat /\ o - z < EntrySize[e.kind]
    BY <1>1, <1>2
  <2> QED BY <1>1, <2>1 DEF Cell, Part
<1>3. Write(mem, z, e, n) \in Memory
  BY <1>2 DEF Write, Memory
<1>4. ASSUME NEW o \in Offsets, o < z \/ o >= z + n PROVE Write(mem, z, e, n)[o] = mem[o]
  BY <1>1, <1>4, SizesAssumption DEF Write, Offsets
<1>5. ASSUME NEW k \in 0 .. n - 1, z + k < FileSize
      PROVE  Write(mem, z, e, n)[z + k] = Part(e, k)
  <2>1. z + k \in Offsets /\ z + k \in z .. z + n - 1 /\ (z + k) - z = k
    BY <1>1, <1>5, SizesAssumption DEF Offsets
  <2> QED BY <2>1 DEF Write
<1> QED BY <1>3, <1>4, <1>5

\* What is written at the end of a file reads as one more entry.
LEMMA ReadWritten ==
    ASSUME NEW mem \in Written, NEW e \in Entry, NEW n \in 1 .. EntrySize[e.kind],
           ReadFrom(mem)[0].end + EntrySize[e.kind] <= FileSize
    PROVE  LET z   == ReadFrom(mem)[0].end
               new == Write(mem, z, e, n)
           IN  /\ new \in Written
               /\ ReadFrom(new)[0] =
                     [entries |-> Append(ReadFrom(mem)[0].entries, Copied(e, n)),
                      end |-> z + EntrySize[e.kind], ok |-> TRUE]
<1> DEFINE z    == ReadFrom(mem)[0].end
           size == EntrySize[e.kind]
           new  == Write(mem, z, e, n)
           R    == ReadFrom(mem)
           N    == ReadFrom(new)
<1>1. mem \in Memory /\ z % TagSize = 0 /\ \A o \in z .. FileSize - 1 : mem[o] = Zero
  BY DEF Written
<1>2. 0 \in 0 .. FileSize /\ FileSize \in Nat /\ TagSize \in Nat
  BY SizesAssumption
<1>3. z \in 0 .. FileSize /\ R[0].entries \in Seq(Entry \cup Torn)
  BY <1>1, <1>2, ReadFromType DEF Result
<1>4. /\ size \in Nat /\ size > 0 /\ z < FileSize /\ z + size \in 0 .. FileSize
      /\ (z + size) % TagSize = 0
      /\ z + size < FileSize => z + size + TagSize <= FileSize
  <2> HIDE DEF z
  <2> QED BY <1>1, <1>3, Aligned DEF z
<1>5. /\ new \in Memory
      /\ \A o \in Offsets : (o < z \/ o >= z + n) => new[o] = mem[o]
      /\ \A k \in 0 .. n - 1 : z + k < FileSize => new[z + k] = Part(e, k)
  <2> HIDE DEF z
  <2> QED BY <1>1, <1>3, WriteType
<1>6. n \in Nat /\ n <= size /\ 0 < n
  BY <1>4
<1> HIDE DEF z, size, new
<1>7. \A o \in z + n .. FileSize - 1 : new[o] = Zero
  <2> SUFFICES ASSUME NEW o \in z + n .. FileSize - 1 PROVE new[o] = Zero
    OBVIOUS
  <2>1. o \in Offsets /\ o >= z + n /\ o \in z .. FileSize - 1
    BY <1>2, <1>3, <1>6 DEF Offsets
  <2> QED BY <1>1, <1>5, <2>1
\* Where the reader of the old file stopped.
<1>8. N[z] = [entries |-> <<Copied(e, n)>>, end |-> z + size, ok |-> TRUE]
  <2>1. new[z] = Part(e, 0)
    <3>1. 0 \in 0 .. n - 1 /\ z + 0 = z /\ z + 0 < FileSize
      BY <1>3, <1>4, <1>6
    <3>2. new[z + 0] = Part(e, 0)
      BY <1>5, <3>1
    <3> QED BY <3>1, <3>2
  <2>2. EntryBegins(new, z) /\ z \in 0 .. FileSize - 1
    BY <1>2, <1>3, <1>4, <2>1, EntriesAreNotZero DEF EntryBegins, Part, size
  <2>3. EntrySize[new[z].tag] = size
    BY <2>1 DEF Part, size
  <2>4. EntryAt(new, z) = Copied(e, n)
    <3> DEFINE symbol == SymbolEnd[e.kind]
               There(m) == \A k \in 0 .. m - 1 :
                              new[z + k] = [id |-> e.id, part |-> k, tag |-> e.kind]
    <3>1. new[z].id = e.id /\ new[z].tag = e.kind
      BY <2>1 DEF Part
    <3>2. symbol \in Nat /\ symbol <= size
      BY SizesAssumption DEF Entry, size
    <3> HIDE DEF symbol
    <3>3. ASSUME NEW m \in Nat, m <= size PROVE There(m) <=> m <= n
      <4>1. CASE m <= n
        <5>1. \A k \in 0 .. m - 1 : k \in 0 .. n - 1 /\ z + k < FileSize
          BY <1>2, <1>3, <1>4, <1>6, <3>3, <4>1
        <5> QED BY <1>5, <4>1, <5>1 DEF Part
      <4>2. CASE ~(m <= n)
        <5>1. n \in 0 .. m - 1
          BY <1>6, <4>2
        <5>2. new[z + n] = Zero
          BY <1>2, <1>3, <1>4, <1>6, <1>7, <3>3, <4>2
        <5>3. new[z + n] # [id |-> e.id, part |-> n, tag |-> e.kind]
          BY <5>2, EntriesAreNotZero DEF Part
        <5> QED BY <4>2, <5>1, <5>3
      <4> QED BY <4>1, <4>2
    <3>4. EntryAt(new, z) = [id |-> IF There(size) THEN e.id
                                    ELSE IF There(symbol) THEN 0 ELSE -1,
                             kind |-> e.kind]
      BY <2>3, <3>1 DEF EntryAt, symbol
    <3>5. (There(size) <=> n = size) /\ (There(symbol) <=> n >= symbol)
      <4>1. There(size) <=> size <= n
        BY <1>4, <3>3
      <4>2. There(symbol) <=> symbol <= n
        BY <3>2, <3>3
      <4> HIDE DEF There
      <4> QED BY <1>4, <1>6, <3>2, <4>1, <4>2
    <3> HIDE DEF There
    <3> QED BY <3>4, <3>5 DEF Copied, size, symbol
  <2>5. N[z + size] = [entries |-> <<>>, end |-> z + size, ok |-> TRUE]
    <3>1. z + size < FileSize => new[z + size] = Zero
      BY <1>2, <1>3, <1>4, <1>6, <1>7
    <3>2. ~(z + size < FileSize /\ EntryBegins(new, z + size))
      BY <3>1 DEF EntryBegins
    <3>3. z + size = FileSize \/ (z + size + TagSize <= FileSize /\ new[z + size] = Zero)
      BY <1>2, <1>3, <1>4, <3>1
    <3>4. N[z + size] = [entries |-> <<>>, end |-> z + size,
                         ok |-> \/ z + size = FileSize
                                \/ z + size + TagSize <= FileSize /\ new[z + size] = Zero]
      BY <1>4, <1>5, <3>2, ReadEnd
    <3> QED BY <3>3, <3>4
  <2>6. N[z] = [entries |-> <<EntryAt(new, z)>> \o N[z + size].entries,
                end |-> N[z + size].end, ok |-> N[z + size].ok]
    BY <1>5, <2>2, <2>3, ReadEntry
  <2> QED BY <2>4, <2>5, <2>6
\* And from every cursor from which it got there.
<1> DEFINE S == {c \in 0 .. FileSize : R[c].end = z =>
                    N[c] = [entries |-> Append(R[c].entries, Copied(e, n)),
                            end |-> z + size, ok |-> TRUE]}
<1>9. ASSUME NEW c \in 0 .. FileSize, \A d \in c + 1 .. FileSize : d \in S
      PROVE  c \in S
  <2> SUFFICES ASSUME R[c].end = z
               PROVE  N[c] = [entries |-> Append(R[c].entries, Copied(e, n)),
                              end |-> z + size, ok |-> TRUE]
    OBVIOUS
  <2>1. CASE c < FileSize /\ EntryBegins(mem, c)
    <3> DEFINE d == c + EntrySize[mem[c].tag]
    <3>1. c \in 0 .. FileSize - 1
      BY <1>2, <2>1
    <3>2. /\ mem[c] \in Cell /\ mem[c] # Zero /\ EntrySize[mem[c].tag] \in Nat
          /\ EntrySize[mem[c].tag] > 0 /\ d \in c + 1 .. FileSize
          /\ R[c] = [entries |-> <<EntryAt(mem, c)>> \o R[d].entries,
                     end |-> R[d].end, ok |-> R[d].ok]
      BY <1>1, <2>1, <3>1, ReadEntry
    <3> HIDE DEF R, N
    <3>3. R[d].end = z
      BY <3>2
    <3>4. d \in 0 .. FileSize
      BY <3>2
    <3>5. d <= z /\ R[d].entries \in Seq(Entry \cup Torn)
      BY <1>1, <3>3, <3>4, ReadFromType DEF Result, R
    <3>6. N[d] = [entries |-> Append(R[d].entries, Copied(e, n)),
                  end |-> z + size, ok |-> TRUE]
      <4> HIDE DEF d
      <4> QED BY <1>9, <3>2, <3>3
    <3>7. \A k \in 0 .. EntrySize[mem[c].tag] - 1 : new[c + k] = mem[c + k]
      <4> SUFFICES ASSUME NEW k \in 0 .. EntrySize[mem[c].tag] - 1
                   PROVE  new[c + k] = mem[c + k]
        OBVIOUS
      <4>1. c + k \in Offsets /\ c + k < z
        BY <1>2, <1>3, <3>2, <3>5 DEF Offsets
      <4> QED BY <1>5, <4>1
    <3>8. new[c] = mem[c]
      <4>1. 0 \in 0 .. EntrySize[mem[c].tag] - 1 /\ c + 0 = c
        BY <3>2
      <4> QED BY <3>7, <4>1
    <3>9. EntryBegins(new, c) /\ EntryAt(new, c) = EntryAt(mem, c)
      <4>1. /\ mem[c].tag \in Kinds
            /\ \A k \in 0 .. SymbolEnd[mem[c].tag] - 1 : k \in 0 .. EntrySize[mem[c].tag] - 1
        BY <3>2, CellParts, SizesAssumption
      <4> QED BY <2>1, <3>7, <3>8, <4>1 DEF EntryBegins, EntryAt
    <3>10. N[c] = [entries |-> <<EntryAt(new, c)>> \o N[d].entries,
                   end |-> N[d].end, ok |-> N[d].ok]
      BY <1>5, <3>1, <3>8, <3>9, ReadEntry DEF N
    <3>11. EntryAt(mem, c) \in Entry \cup Torn /\ Copied(e, n) \in Entry \cup Torn
      BY <3>2, EntryAtType, CopiedType
    <3> DEFINE first == EntryAt(mem, c)
               rest  == R[d].entries
               last  == Copied(e, n)
    <3>12. <<first>> \o Append(rest, last) = Append(<<first>> \o rest, last)
      <4>1. rest \in Seq(Entry \cup Torn) /\ first \in Entry \cup Torn
            /\ last \in Entry \cup Torn
        BY <3>5, <3>11
      <4> HIDE DEF first, rest, last
      <4> QED BY <4>1
    <3> DEFINE old == <<first>> \o rest
               all == <<first>> \o Append(rest, last)
    <3>13. R[c] = [entries |-> old, end |-> R[d].end, ok |-> R[d].ok]
      BY <3>2
    <3>14. N[c] = [entries |-> all, end |-> N[d].end, ok |-> N[d].ok]
      <4>1. N[d].entries = Append(rest, last)
        <5> DEFINE longer == Append(rest, last)
        <5>1. N[d] = [entries |-> longer, end |-> z + size, ok |-> TRUE]
          BY <3>6
        <5> HIDE DEF longer, d, rest, last
        <5>2. N[d].entries = longer
          BY <5>1
        <5> QED BY <5>2 DEF longer
      <4> QED BY <3>9, <3>10, <4>1
    <3> HIDE DEF d
    <3>15. N[d].end = z + size /\ N[d].ok = TRUE
      BY <3>6
    <3>16. all = Append(old, last)
      BY <3>12
    <3> HIDE DEF old, all, first, rest, last
    <3>17. R[c].entries = old
      BY <3>13
    <3>18. N[c] = [entries |-> Append(R[c].entries, last), end |-> z + size, ok |-> TRUE]
      BY <3>14, <3>15, <3>16, <3>17
    <3> QED BY <3>18 DEF last
  <2>2. CASE ~(c < FileSize /\ EntryBegins(mem, c))
    <3>1. R[c].entries = <<>> /\ R[c].end = c
      <4>1. R[c] = [entries |-> <<>>, end |-> c,
                    ok |-> \/ c = FileSize
                           \/ c + TagSize <= FileSize /\ mem[c] = Zero]
        BY <1>1, <2>2, ReadEnd
      <4> HIDE DEF R
      <4> QED BY <4>1
    <3>2. c = z
      BY <3>1
    <3> QED BY <1>8, <3>1, <3>2
  <2> QED BY <2>1, <2>2
<1>10. \A c \in 0 .. FileSize : c \in S
  <2> HIDE DEF S
  <2> QED BY <1>9, Downward
<1>11. N[0] = [entries |-> Append(R[0].entries, Copied(e, n)), end |-> z + size, ok |-> TRUE]
  BY <1>2, <1>10 DEF z
<1>12. new \in Written
  <2>1. \A o \in z + size .. FileSize - 1 : new[o] = Zero
    BY <1>3, <1>4, <1>6, <1>7
  <2> QED BY <1>4, <1>5, <1>11, <2>1 DEF Written
<1> QED BY <1>11, <1>12 DEF z, size, new

\* A new file reads as empty.
LEMMA ReadNewFile ==
    LET mem == NewFile.mem
    IN  mem \in Written /\ ReadFrom(mem)[0] = [entries |-> <<>>, end |-> 0, ok |-> TRUE]
<1> DEFINE mem == NewFile.mem
<1>1. mem \in Memory /\ \A o \in Offsets : mem[o] = Zero
  BY DEF NewFile, Memory, Cell
<1>2. 0 \in 0 .. FileSize /\ 0 \in Offsets /\ 0 < FileSize
  BY SizesAssumption DEF Offsets
<1>3. ~EntryBegins(mem, 0)
  BY <1>1, <1>2 DEF EntryBegins
<1>4. 0 % TagSize = 0 /\ 0 + TagSize <= FileSize
  <2>1. 0 % TagSize = 0
    BY SizesAssumption
  <2>2. FileSize \in Nat \ {0} /\ TagSize \in Nat \ {0} /\ FileSize % TagSize = 0
    BY SizesAssumption
  <2> QED BY <2>1, <2>2, Multiples
<1> HIDE DEF mem
<1>5. ReadFrom(mem)[0] = [entries |-> <<>>, end |-> 0,
                          ok |-> \/ 0 = FileSize
                                 \/ 0 + TagSize <= FileSize /\ mem[0] = Zero]
  BY <1>1, <1>2, <1>3, ReadEnd
<1>6. ReadFrom(mem)[0] = [entries |-> <<>>, end |-> 0, ok |-> TRUE]
  BY <1>1, <1>2, <1>4, <1>5
<1> QED BY <1>1, <1>4, <1>6, SizesAssumption DEF Written, Offsets, mem

------------------------------------------------------------------------------
(***************************************************************************)
(* One sequence after the other.                                           *)
(***************************************************************************)

\* The body of FlattenSeq's function.
Joined(seqs, flatten, i) == IF i = 1 THEN seqs[i] ELSE flatten[i - 1] \o seqs[i]

LEMMA FlattenExists ==
    ASSUME NEW seqs, NEW k \in Nat
    PROVE  \E f : f = [i \in 1 .. k |-> Joined(seqs, f, i)]
<1> DEFINE P(f, m) == f = [i \in 1 .. m |-> Joined(seqs, f, i)]
           S == {m \in Nat : \E f : P(f, m)}
<1>1. 0 \in S
  <2> DEFINE f == [i \in 1 .. 0 |-> Joined(seqs, <<>>, i)]
  <2>1. P(f, 0)
    <3>1. \A i \in 1 .. 0 : Joined(seqs, <<>>, i) = Joined(seqs, f, i)
      OBVIOUS
    <3> QED BY <3>1
  <2> QED BY <2>1
<1>2. ASSUME NEW m \in Nat, m \in S PROVE m + 1 \in S
  <2>1. PICK f : P(f, m)
    BY <1>2
  <2> DEFINE g == [i \in 1 .. m + 1 |-> IF i = m + 1 THEN Joined(seqs, f, i) ELSE f[i]]
  <2>2. ASSUME NEW i \in 1 .. m + 1 PROVE g[i] = Joined(seqs, g, i)
    <3>1. i # 1 => i - 1 \in 1 .. m /\ i - 1 \in 1 .. m + 1 /\ i - 1 # m + 1
      OBVIOUS
    <3>2. i # 1 => g[i - 1] = f[i - 1]
      BY <3>1
    <3>3. Joined(seqs, f, i) = Joined(seqs, g, i)
      <4> HIDE DEF g
      <4> QED BY <3>2 DEF Joined
    <3>4. i # m + 1 => f[i] = Joined(seqs, f, i)
      <4>1. i # m + 1 => i \in 1 .. m
        OBVIOUS
      <4> QED BY <2>1, <4>1
    <3>5. g[i] = Joined(seqs, f, i)
      BY <3>4
    <3> QED BY <3>3, <3>5
  <2>3. g = [i \in 1 .. m + 1 |-> g[i]]
    OBVIOUS
  <2> HIDE DEF g
  <2>4. P(g, m + 1)
    BY <2>2, <2>3
  <2> QED BY <2>4
<1>3. k \in S
  <2> HIDE DEF S
  <2> QED BY <1>1, <1>2, AllNumbers
<1> QED BY <1>3

LEMMA FlattenDef ==
    ASSUME NEW N \in Nat \ {0}, NEW seqs, Len(seqs) = N
    PROVE  \E f : /\ FlattenSeq(seqs) = f[N]
                  /\ \A i \in 1 .. N : f[i] = Joined(seqs, f, i)
<1> DEFINE P(f) == f = [i \in 1 .. N |-> Joined(seqs, f, i)]
           flatten == CHOOSE f : P(f)
<1>1. FlattenSeq(seqs) = flatten[N]
  BY DEF FlattenSeq, Joined
<1>2. \E f : P(f)
  BY FlattenExists
<1>3. P(flatten)
  <2> HIDE DEF P
  <2> QED BY <1>2
<1> HIDE DEF flatten
<1>4. \A i \in 1 .. N : flatten[i] = Joined(seqs, flatten, i)
  BY <1>3
<1> QED BY <1>1, <1>4

LEMMA FlattenType ==
    ASSUME NEW T, NEW N \in Nat \ {0}, NEW seqs, Len(seqs) = N,
           \A i \in 1 .. N : seqs[i] \in Seq(T)
    PROVE  FlattenSeq(seqs) \in Seq(T)
<1>1. PICK f : /\ FlattenSeq(seqs) = f[N]
               /\ \A i \in 1 .. N : f[i] = Joined(seqs, f, i)
  BY FlattenDef
<1> DEFINE S == {i \in Nat : i + 1 <= N => f[i + 1] \in Seq(T)}
<1>2. 0 \in S
  BY <1>1 DEF Joined
<1>3. ASSUME NEW i \in Nat, i \in S PROVE i + 1 \in S
  <2> SUFFICES ASSUME i + 1 + 1 <= N PROVE f[i + 1 + 1] \in Seq(T)
    OBVIOUS
  <2> DEFINE j == i + 1 + 1
  <2>1. j \in 1 .. N /\ j # 1 /\ j - 1 = i + 1
    OBVIOUS
  <2>2. f[i + 1] \in Seq(T)
    BY <1>3
  <2> HIDE DEF j
  <2>3. f[j] = f[i + 1] \o seqs[j]
    BY <1>1, <2>1 DEF Joined
  <2>4. f[j] \in Seq(T)
    BY <2>1, <2>2, <2>3
  <2> QED BY <2>4 DEF j
<1>4. N - 1 \in S
  <2>1. N - 1 \in Nat
    OBVIOUS
  <2> HIDE DEF S
  <2> QED BY <1>2, <1>3, <2>1, AllNumbers
<1>5. (N - 1) + 1 = N
  OBVIOUS
<1> QED BY <1>1, <1>4, <1>5

\* Nothing in any of them.
LEMMA FlattenEmpty ==
    ASSUME NEW N \in Nat \ {0}, NEW seqs, Len(seqs) = N,
           \A i \in 1 .. N : seqs[i] = <<>>
    PROVE  FlattenSeq(seqs) = <<>>
<1> DEFINE T == {}
<1> HIDE DEF T
<1>1. \A i \in 1 .. N : seqs[i] \in Seq(T)
  <2>1. <<>> \in Seq(T)
    OBVIOUS
  <2> QED BY <2>1, Zenon
<1>2. FlattenSeq(seqs) \in Seq(T)
  BY <1>1, FlattenType
<1>3. FlattenSeq(seqs) # <<>> => FlattenSeq(seqs)[1] \in T
  BY <1>2
<1> QED BY <1>2, <1>3 DEF T

\* What is appended to one of them, with nothing in those behind it, is appended
\* to the whole.
AppendedAt(T, N, s, t, k, w) ==
    /\ N \in Nat \ {0} /\ Len(s) = N /\ Len(t) = N
    /\ \A i \in 1 .. N : s[i] \in Seq(T)
    /\ k \in 1 .. N /\ w \in T
    /\ t[k] = Append(s[k], w)
    /\ \A i \in 1 .. N : i # k => t[i] = s[i]
    /\ \A i \in k + 1 .. N : s[i] = <<>>

LEMMA FlattenAppended ==
    ASSUME NEW T, NEW N, NEW s, NEW t, NEW k, NEW w, AppendedAt(T, N, s, t, k, w)
    PROVE  FlattenSeq(t) = Append(FlattenSeq(s), w)
<1> USE DEF AppendedAt
<1>1. PICK f : /\ FlattenSeq(s) = f[N]
               /\ \A i \in 1 .. N : f[i] = Joined(s, f, i)
  BY FlattenDef
<1>2. PICK g : /\ FlattenSeq(t) = g[N]
               /\ \A i \in 1 .. N : g[i] = Joined(t, g, i)
  BY FlattenDef
<1> DEFINE Longer(i) == /\ f[i] \in Seq(T)
                        /\ g[i] = IF i < k THEN f[i] ELSE Append(f[i], w)
           S == {i \in Nat : i + 1 <= N => Longer(i + 1)}
<1>3. 0 \in S
  <2>1. 1 \in 1 .. N /\ 0 + 1 = 1
    OBVIOUS
  <2>2. f[1] = s[1] /\ g[1] = t[1]
    BY <1>1, <1>2, <2>1 DEF Joined
  <2>3. Longer(1)
    BY <2>1, <2>2
  <2> QED BY <2>1, <2>3
<1>4. ASSUME NEW i \in Nat, i \in S PROVE i + 1 \in S
  <2> SUFFICES ASSUME i + 1 + 1 <= N PROVE Longer(i + 1 + 1)
    OBVIOUS
  <2> DEFINE j == i + 1 + 1
             h == i + 1
  <2>1. j \in 1 .. N /\ h \in 1 .. N /\ j # 1 /\ j - 1 = h /\ h < j /\ j = h + 1
    OBVIOUS
  <2>2. Longer(h)
    BY <1>4
  <2> HIDE DEF j, h
  <2>3. f[j] = f[h] \o s[j] /\ g[j] = g[h] \o t[j]
    BY <1>1, <1>2, <2>1 DEF Joined
  <2>4. f[h] \in Seq(T) /\ s[j] \in Seq(T) /\ f[j] \in Seq(T)
    BY <2>1, <2>2, <2>3
  <2>5. CASE j < k
    <3>1. h < k /\ j # k
      BY <2>1, <2>5
    <3>2. g[h] = f[h] /\ t[j] = s[j]
      BY <2>1, <2>2, <3>1
    <3> QED BY <2>3, <2>4, <2>5, <3>2 DEF j
  <2>6. CASE j = k
    <3>1. h < k
      BY <2>1, <2>6
    <3>2. g[h] = f[h] /\ t[j] = Append(s[j], w)
      BY <2>2, <2>6, <3>1
    <3>3. f[h] \o Append(s[j], w) = Append(f[h] \o s[j], w)
      <4> DEFINE a == f[h]
                 b == s[j]
      <4>1. a \in Seq(T) /\ b \in Seq(T)
        BY <2>4
      <4> HIDE DEF a, b
      <4>2. a \o Append(b, w) = Append(a \o b, w)
        BY <4>1
      <4> QED BY <4>2 DEF a, b
    <3>4. g[j] = Append(f[j], w)
      BY <2>3, <3>2, <3>3
    <3> QED BY <2>4, <2>6, <3>4 DEF j
  <2>7. CASE j > k
    <3>1. ~(h < k) /\ j # k /\ j \in k + 1 .. N /\ ~(j < k)
      BY <2>1, <2>7
    <3>2. g[h] = Append(f[h], w) /\ t[j] = <<>> /\ s[j] = <<>>
      BY <2>1, <2>2, <3>1
    <3>3. Append(f[h], w) \o <<>> = Append(f[h], w) /\ f[h] \o <<>> = f[h]
      BY <2>4
    <3> QED BY <2>3, <2>4, <3>1, <3>2, <3>3 DEF j
  <2> QED BY <2>1, <2>5, <2>6, <2>7
<1>5. N - 1 \in S
  <2>1. N - 1 \in Nat
    OBVIOUS
  <2> HIDE DEF S
  <2> QED BY <1>3, <1>4, <2>1, AllNumbers
<1>6. (N - 1) + 1 = N /\ ~(N < k)
  OBVIOUS
<1> QED BY <1>1, <1>2, <1>5, <1>6

------------------------------------------------------------------------------
(***************************************************************************)
(* The inductive invariant.                                                *)
(***************************************************************************)

Sized(mem) == [len |-> FileSize, mem |-> mem]

\* A file is as written, or was left without its length.
File == {Absent, Unsized} \cup {Sized(mem) : mem \in Written}
FilesWritten == files \in [Indexes -> File]

\* The numbers of the files have no gap.
Contiguous == \E k \in 0 .. LastIndex + 1 : Existing = 0 .. k - 1

HistoryTyped ==
    /\ running \in BOOLEAN /\ failed \in BOOLEAN
    /\ submitted \in 0 .. MaxEntries
    /\ acked \in Seq(Entry)

\* The open file is the last, and the writer stands where its reader stops.
WalOpen ==
    \/ /\ ~running
       /\ wal = Closed
    \/ /\ running
       /\ Existing # {}
       /\ \A i \in Existing : Openable(files[i])
       /\ wal \in [file : Indexes, cursor : 0 .. FileSize, index : 0 .. LastIndex + 1]
       /\ wal.file = LastFile
       /\ wal.cursor = Read(files[LastFile]).end
       /\ wal.index \in {LastFile, LastFile + 1}

\* No entry has a number that was not yet submitted.
LogSubmitted == \A n \in DOMAIN Log : Log[n].id <= submitted

Entries(f) == IF f # Absent THEN Read(f).entries ELSE <<>>

\* A start finds nothing in the file that it refuses.
Clear(f) == Openable(f) /\ \A n \in DOMAIN Entries(f) : Routable(Entries(f)[n])
ClearToLast(f) ==
    \A n \in DOMAIN Entries(f) : n # Len(Entries(f)) => Routable(Entries(f)[n])

\* Nothing but the last file, when the server is down, and its last entry.
OnlyLastBlocks == \A i \in Existing :
    /\ (running \/ i # LastFile) => Clear(files[i])
    /\ ClearToLast(files[i])

IInv == FilesWritten /\ Contiguous /\ HistoryTyped /\ WalOpen /\ LogSubmitted
            /\ OnlyLastBlocks

------------------------------------------------------------------------------
(***************************************************************************)
(* What the files hold together.                                           *)
(***************************************************************************)

Contents(fs) == [n \in 1 .. LastIndex + 1 |-> Entries(fs[n - 1])]

LEMMA FileKinds ==
    ASSUME NEW f \in File
    PROVE  /\ Entries(f) \in Seq(Entry \cup Torn)
           /\ Read(f) \in Result
           /\ f # Absent => /\ f.len \in {0, FileSize}
                            /\ f.mem \in Memory
                            /\ Openable(f) => /\ f.mem \in Written /\ f = Sized(f.mem)
                                              /\ Read(f) = ReadFrom(f.mem)[0]
                            /\ Read(f).ok <=> Openable(f)
<1>1. 0 \in 0 .. FileSize
  BY SizesAssumption
<1>2. CASE f = Absent
  <2>1. ~Openable(f)
    BY <1>2 DEF Openable, Absent
  <2>2. Read(f) \in Result
    BY <1>1, <2>1 DEF Read, Result
  <2> QED BY <1>2, <2>2 DEF Entries
<1>3. CASE f = Unsized
  <2>1. ~Openable(f) /\ f.len = 0 /\ f # Absent
    BY <1>3 DEF Openable, Unsized, Absent
  <2>2. Read(f) \in Result /\ Read(f).entries = <<>> /\ Read(f).ok = FALSE
    BY <1>1, <2>1 DEF Read, Result
  <2>3. f.mem \in Memory
    BY <1>3 DEF Unsized, Memory, Cell
  <2> QED BY <2>1, <2>2, <2>3 DEF Entries
<1>4. CASE f \in {Sized(mem) : mem \in Written}
  <2>1. PICK mem \in Written : f = Sized(mem)
    BY <1>4
  <2>2. f.len = FileSize /\ f.mem = mem /\ Openable(f)
    BY <2>1, SizesAssumption DEF Sized, Openable
  <2>3. f # Absent
    BY <2>2, SizesAssumption DEF Absent
  <2>4. mem \in Memory /\ ReadFrom(mem)[0].ok
    BY DEF Written
  <2>5. ReadFrom(mem)[0] \in Result
    BY <1>1, <2>4, ReadFromType
  <2>6. Read(f) = ReadFrom(mem)[0]
    BY <2>2 DEF Read
  <2>7. Entries(f) \in Seq(Entry \cup Torn)
    BY <2>3, <2>5, <2>6 DEF Entries, Result
  <2> QED BY <2>1, <2>2, <2>4, <2>5, <2>6, <2>7
<1> QED BY <1>2, <1>3, <1>4 DEF File

LEMMA NewFiles ==
    /\ NewFile \in File /\ NewFile # Absent /\ Openable(NewFile)
    /\ Entries(NewFile) = <<>> /\ Read(NewFile).end = 0
    /\ Unsized \in File /\ Unsized # Absent /\ Entries(Unsized) = <<>>
<1>1. NewFile = Sized(NewFile.mem)
  BY DEF NewFile, Sized
<1>2. /\ NewFile.mem \in Written
      /\ ReadFrom(NewFile.mem)[0] = [entries |-> <<>>, end |-> 0, ok |-> TRUE]
  BY ReadNewFile
<1>3. NewFile \in File
  BY <1>1, <1>2 DEF File
<1>4. NewFile # Absent /\ Openable(NewFile)
  BY SizesAssumption DEF NewFile, Absent, Openable
<1>5. Read(NewFile) = ReadFrom(NewFile.mem)[0]
  BY <1>4 DEF Read
<1>6. Entries(NewFile) = <<>> /\ Read(NewFile).end = 0
  BY <1>2, <1>4, <1>5 DEF Entries
<1>7. Unsized \in File /\ Unsized # Absent
  BY DEF File, Unsized, Absent
<1>8. Entries(Unsized) = <<>>
  BY DEF Entries, Read, Openable, Unsized
<1> QED BY <1>3, <1>4, <1>6, <1>7, <1>8

LEMMA LogContents ==
    /\ Log = FlattenSeq(Contents(files))
    /\ Log' = FlattenSeq(Contents(files'))
<1>1. ASSUME NEW n \in 1 .. LastIndex + 1 PROVE n - 1 \in Indexes
  BY SizesAssumption DEF Indexes
<1>2. \A n \in 1 .. LastIndex + 1 :
        (IF n - 1 \in Existing THEN Read(files[n - 1]).entries ELSE <<>>)
          = Entries(files[n - 1])
  BY <1>1 DEF Existing, Entries
<1>3. \A n \in 1 .. LastIndex + 1 :
        (IF n - 1 \in Existing' THEN Read(files'[n - 1]).entries ELSE <<>>)
          = Entries(files'[n - 1])
  BY <1>1 DEF Existing, Entries
<1> QED BY <1>2, <1>3 DEF Log, Contents

LEMMA LogType ==
    ASSUME NEW fs \in [Indexes -> File]
    PROVE  FlattenSeq(Contents(fs)) \in Seq(Entry \cup Torn)
<1> DEFINE N == LastIndex + 1
<1>1. N \in Nat \ {0} /\ Len(Contents(fs)) = N
  BY SizesAssumption DEF Contents
<1>2. \A n \in 1 .. N : Contents(fs)[n] \in Seq(Entry \cup Torn)
  <2> SUFFICES ASSUME NEW n \in 1 .. N PROVE Entries(fs[n - 1]) \in Seq(Entry \cup Torn)
    BY DEF Contents
  <2>1. n - 1 \in Indexes
    BY SizesAssumption DEF Indexes
  <2>2. fs[n - 1] \in File
    BY <2>1
  <2> QED BY <2>2, FileKinds
<1> HIDE DEF N
<1> QED BY <1>1, <1>2, FlattenType

LEMMA LogSame ==
    ASSUME NEW fs, NEW gs, \A i \in Indexes : Entries(gs[i]) = Entries(fs[i])
    PROVE  FlattenSeq(Contents(gs)) = FlattenSeq(Contents(fs))
<1>1. \A n \in 1 .. LastIndex + 1 : n - 1 \in Indexes
  BY SizesAssumption DEF Indexes
<1>2. \A n \in 1 .. LastIndex + 1 : Entries(gs[n - 1]) = Entries(fs[n - 1])
  BY <1>1
<1>3. Contents(gs) = Contents(fs)
  BY <1>2 DEF Contents
<1> QED BY <1>3

\* An entry that is appended to the last file is appended to the log.
LEMMA LogAppended ==
    ASSUME NEW fs \in [Indexes -> File], NEW gs, NEW k \in Indexes, NEW w \in Entry \cup Torn,
           \A i \in Indexes : i # k => gs[i] = fs[i],
           \A i \in Indexes : i > k => fs[i] = Absent,
           Entries(gs[k]) = Append(Entries(fs[k]), w)
    PROVE  FlattenSeq(Contents(gs)) = Append(FlattenSeq(Contents(fs)), w)
<1> DEFINE N == LastIndex + 1
           s == Contents(fs)
           t == Contents(gs)
           h == k + 1
           T == Entry \cup Torn
<1>1. N \in Nat \ {0} /\ Len(s) = N /\ Len(t) = N
  BY SizesAssumption DEF Contents
<1>2. h \in 1 .. N /\ h - 1 = k
  BY SizesAssumption DEF Indexes
<1>3. ASSUME NEW i \in 1 .. N
      PROVE  /\ i - 1 \in Indexes
             /\ s[i] = Entries(fs[i - 1])
             /\ t[i] = Entries(gs[i - 1])
  BY SizesAssumption DEF Indexes, Contents
<1>4. \A i \in 1 .. N : s[i] \in Seq(T)
  BY <1>3, FileKinds
<1>5. t[h] = Append(s[h], w)
  BY <1>2, <1>3
<1>6. \A i \in 1 .. N : i # h => t[i] = s[i]
  <2> SUFFICES ASSUME NEW i \in 1 .. N, i # h PROVE t[i] = s[i]
    OBVIOUS
  <2>1. i - 1 # k
    BY <1>2 DEF Indexes
  <2> QED BY <1>3, <2>1
<1>7. \A i \in h + 1 .. N : s[i] = <<>>
  <2> SUFFICES ASSUME NEW i \in h + 1 .. N PROVE s[i] = <<>>
    OBVIOUS
  <2>1. i \in 1 .. N /\ i - 1 > k
    BY <1>1, <1>2 DEF Indexes
  <2>2. fs[i - 1] = Absent
    BY <1>3, <2>1
  <2> QED BY <1>3, <2>1, <2>2 DEF Entries
<1>9. w \in T
  OBVIOUS
<1> HIDE DEF N, s, t, h, T
<1>8. FlattenSeq(t) = Append(FlattenSeq(s), w)
  <2>1. AppendedAt(T, N, s, t, h, w)
    BY <1>1, <1>2, <1>4, <1>5, <1>6, <1>7, <1>9 DEF AppendedAt
  <2> QED BY <2>1, FlattenAppended
<1> QED BY <1>8 DEF s, t

------------------------------------------------------------------------------
(***************************************************************************)
(* The numbers of the files.                                               *)
(***************************************************************************)

LEMMA LastOfThem ==
    ASSUME NEW k \in 1 .. LastIndex + 1, Existing = 0 .. k - 1
    PROVE  LastFile = k - 1
<1>1. k - 1 \in Existing /\ \A j \in Existing : j <= k - 1
  BY SizesAssumption
<1>2. \A i \in Existing : (\A j \in Existing : j <= i) => i = k - 1
  BY <1>1, SizesAssumption
<1> QED BY <1>1, <1>2 DEF LastFile

LEMMA NextOfThem ==
    ASSUME NEW k \in 0 .. LastIndex + 1, Existing = 0 .. k - 1,
           NEW start \in 0 .. k, CanCreate(start)
    PROVE  k \in Indexes /\ NextIndex(start) = k
<1>1. k \in Indexes
  BY SizesAssumption DEF CanCreate, Indexes
<1> DEFINE P(i) == /\ i >= start /\ i \notin Existing
                   /\ \A j \in start .. i - 1 : j \in Existing
<1>2. P(k)
  BY SizesAssumption
<1>3. \A i \in Indexes : P(i) => i = k
  <2> SUFFICES ASSUME NEW i \in Indexes, P(i), i # k PROVE FALSE
    OBVIOUS
  <2>1. i > k
    BY SizesAssumption DEF Indexes
  <2>2. k \in start .. i - 1 /\ k \notin Existing
    BY <2>1, SizesAssumption DEF Indexes
  <2> QED BY <2>2
<1>4. NextIndex(start) = CHOOSE i \in Indexes : P(i)
  BY DEF NextIndex
<1> HIDE DEF P
<1>5. (CHOOSE i \in Indexes : P(i)) = k
  BY <1>1, <1>2, <1>3
<1> QED BY <1>1, <1>4, <1>5

\* A step that changes the last file, or creates the next.
LEMMA OneFile ==
    ASSUME FilesWritten, NEW k \in 0 .. LastIndex + 1, Existing = 0 .. k - 1,
           NEW i \in Indexes, i = k \/ i = k - 1,
           NEW f \in File, f # Absent, files' = [files EXCEPT ![i] = f]
    PROVE  /\ FilesWritten' /\ Contiguous'
           /\ Existing' = Existing \cup {i} /\ LastFile' = i /\ files'[i] = f
           /\ Entries(f) = Entries(files[i]) => Log' = Log
           /\ \A w \in Entry \cup Torn :
                Entries(f) = Append(Entries(files[i]), w) => Log' = Append(Log, w)
<1>1. files \in [Indexes -> File]
  BY DEF FilesWritten, File
<1>2. FilesWritten'
  BY <1>1 DEF FilesWritten, File
<1>3. files'[i] = f /\ \A j \in Indexes : j # i => files'[j] = files[j]
  BY <1>1
<1>4. Existing' = Existing \cup {i}
  BY <1>3 DEF Existing
<1>5. i + 1 \in 1 .. LastIndex + 1 /\ Existing' = 0 .. (i + 1) - 1
  BY <1>4, SizesAssumption DEF Indexes
<1>6. Contiguous'
  <2>1. i + 1 \in 0 .. LastIndex + 1
    BY <1>5, SizesAssumption
  <2> QED BY <1>5, <2>1 DEF Contiguous
<1>7. LastFile' = i
  <2>1. i \in Existing' /\ \A j \in Existing' : j <= i
    BY <1>5, SizesAssumption DEF Indexes
  <2>2. \A m \in Existing' : (\A j \in Existing' : j <= m) => m = i
    BY <1>5, <2>1, SizesAssumption DEF Indexes
  <2> QED BY <2>1, <2>2 DEF LastFile
<1>8. Entries(f) = Entries(files[i]) => Log' = Log
  BY <1>3, LogSame, LogContents
<1>9. ASSUME NEW w \in Entry \cup Torn, Entries(f) = Append(Entries(files[i]), w)
      PROVE  Log' = Append(Log, w)
  <2>1. \A j \in Indexes : j > i => files[j] = Absent
    <3> SUFFICES ASSUME NEW j \in Indexes, j > i PROVE j \notin Existing
      BY DEF Existing
    <3> QED BY SizesAssumption DEF Indexes
  <2>2. Entries(files'[i]) = Append(Entries(files[i]), w)
    BY <1>3, <1>9
  <2> DEFINE fs == files
             gs == files'
  <2>3. fs \in [Indexes -> File] /\ \A j \in Indexes : j # i => gs[j] = fs[j]
    BY <1>1, <1>3
  <2>4. /\ \A j \in Indexes : j > i => fs[j] = Absent
        /\ Entries(gs[i]) = Append(Entries(fs[i]), w)
    BY <2>1, <2>2
  <2> HIDE DEF File, fs, gs
  <2>5. FlattenSeq(Contents(gs)) = Append(FlattenSeq(Contents(fs)), w)
    BY ONLY <2>3, <2>4, i \in Indexes, w \in Entry \cup Torn, LogAppended
  <2> QED BY <2>5, LogContents DEF fs, gs
<1> QED BY <1>2, <1>3, <1>4, <1>6, <1>7, <1>8, <1>9

\* A step that does so when no file blocks a start.
LEMMA OneFileBlocks ==
    ASSUME FilesWritten, \A j \in Existing : Clear(files[j]),
           NEW i \in Indexes, NEW f, files' = [files EXCEPT ![i] = f],
           Existing' = Existing \cup {i}, LastFile' = i,
           ClearToLast(f), running' => Clear(f)
    PROVE  OnlyLastBlocks'
<1> SUFFICES ASSUME NEW j \in Existing'
             PROVE  /\ (running' \/ j # LastFile') => Clear(files'[j])
                    /\ ClearToLast(files'[j])
  BY DEF OnlyLastBlocks, Clear, ClearToLast, Openable, Entries, Read, Routable
<1>1. CASE j = i
  <2>1. files'[j] = f
    BY <1>1 DEF FilesWritten
  <2> QED BY <1>1, <2>1
<1>2. CASE j # i
  <2>1. j \in Existing /\ files'[j] = files[j]
    BY <1>2 DEF FilesWritten, Existing
  <2> QED BY <2>1 DEF Clear, ClearToLast
<1> QED BY <1>1, <1>2

LEMMA EmptyIsClear ==
    ASSUME NEW f, Entries(f) = <<>>
    PROVE  ClearToLast(f) /\ (Openable(f) => Clear(f))
BY DEF ClearToLast, Clear

\* A file with one entry more.
LEMMA AppendIsClear ==
    ASSUME NEW s \in Seq(Entry \cup Torn), \A n \in DOMAIN s : Routable(s[n]),
           NEW w \in Entry \cup Torn, NEW g, Entries(g) = Append(s, w)
    PROVE  ClearToLast(g) /\ (Openable(g) /\ Routable(w) => Clear(g))
<1> DEFINE new == Append(s, w)
<1>1. /\ DOMAIN new = 1 .. Len(s) + 1 /\ Len(new) = Len(s) + 1
      /\ DOMAIN s = 1 .. Len(s) /\ Len(s) \in Nat
      /\ new[Len(s) + 1] = w /\ \A n \in DOMAIN s : new[n] = s[n]
  OBVIOUS
<1> HIDE DEF new
<1>2. \A n \in DOMAIN new : (n = Len(new) /\ new[n] = w) \/ Routable(new[n])
  BY <1>1
<1>3. Entries(g) = new
  BY DEF new
<1> QED BY <1>2, <1>3 DEF ClearToLast, Clear

LEMMA EntriesAreRoutable ==
    ASSUME NEW e \in Entry
    PROVE  Routable(e)
BY SizesAssumption DEF Entry, Routable

\* Cells of an entry, copied into a file behind what it holds.
LEMMA WriteFile ==
    ASSUME NEW f \in File, f # Absent, Openable(f),
           NEW e \in Entry, NEW n \in 1 .. EntrySize[e.kind],
           Read(f).end + EntrySize[e.kind] <= FileSize
    PROVE  LET g == [f EXCEPT !.mem = Write(f.mem, Read(f).end, e, n)]
           IN  /\ g \in File /\ g # Absent /\ Openable(g)
               /\ Entries(g) = Append(Entries(f), Copied(e, n))
               /\ Read(g).end = Read(f).end + EntrySize[e.kind]
<1> DEFINE z   == Read(f).end
           new == Write(f.mem, z, e, n)
           g   == [f EXCEPT !.mem = new]
<1>1. f = Sized(f.mem) /\ f.mem \in Written /\ Read(f) = ReadFrom(f.mem)[0]
  BY FileKinds
<1>2. /\ new \in Written
      /\ ReadFrom(new)[0] = [entries |-> Append(ReadFrom(f.mem)[0].entries, Copied(e, n)),
                             end |-> z + EntrySize[e.kind], ok |-> TRUE]
  BY <1>1, ReadWritten
<1> HIDE DEF new, z
<1>3. g = Sized(new)
  BY <1>1 DEF Sized
<1>4. g \in File
  BY <1>2, <1>3 DEF File
<1>5. Openable(g) /\ g # Absent /\ g.mem = new
  BY <1>3, SizesAssumption DEF Sized, Openable, Absent
<1> HIDE DEF g
<1>6. Read(g) = ReadFrom(new)[0]
  BY <1>5 DEF Read
<1> DEFINE longer == Append(ReadFrom(f.mem)[0].entries, Copied(e, n))
<1>7. Read(g) = [entries |-> longer, end |-> z + EntrySize[e.kind], ok |-> TRUE]
  BY <1>2, <1>6
<1>8. longer = Append(Entries(f), Copied(e, n))
  BY <1>1 DEF Entries
<1> HIDE DEF longer
<1>9. Entries(g) = longer /\ Read(g).end = z + EntrySize[e.kind]
  BY <1>5, <1>7 DEF Entries
<1> QED BY <1>4, <1>5, <1>8, <1>9 DEF g, new, z

------------------------------------------------------------------------------
(***************************************************************************)
(* Every step preserves the invariant, and is a step of DurableLog or      *)
(* changes nothing that is seen of the log.                                *)
(***************************************************************************)

LogStep == DurableLog!Next \/ (Log' = Log /\ acked' = acked)

LEMMA LogIsTyped ==
    ASSUME FilesWritten
    PROVE  Log \in Seq(Entry \cup Torn)
<1>1. files \in [Indexes -> File]
  BY DEF FilesWritten, File
<1> HIDE DEF File
<1> QED BY <1>1, LogType, LogContents

\* The number of an entry is that of the message it was submitted as.
LEMMA AppendSubmitted ==
    ASSUME FilesWritten, HistoryTyped, LogSubmitted,
           NEW w \in Entry \cup Torn, Log' = Append(Log, w),
           submitted' = submitted + 1, w.id <= submitted'
    PROVE  LogSubmitted'
<1>1. Log \in Seq(Entry \cup Torn)
  BY LogIsTyped
<1>2. \A n \in DOMAIN Log : Log[n].id \in Int
  BY <1>1, SizesAssumption DEF Entry, Torn
<1> DEFINE old == Log
           new == Append(Log, w)
<1>3. \A n \in DOMAIN old : old[n].id <= submitted /\ old[n].id \in Int
  BY <1>2 DEF LogSubmitted
<1>4. old \in Seq(Entry \cup Torn)
  BY <1>1
<1>5. new = Append(old, w)
  OBVIOUS
<1>6. Log' = new
  OBVIOUS
<1> HIDE DEF old, new
<1>7. \A n \in DOMAIN new : new[n].id <= submitted'
  <2> SUFFICES ASSUME NEW n \in DOMAIN new PROVE new[n].id <= submitted'
    OBVIOUS
  <2>1. CASE n \in DOMAIN old
    <3>1. new[n] = old[n]
      BY <1>4, <1>5, <2>1
    <3> QED BY <1>3, <2>1, <3>1 DEF HistoryTyped
  <2>2. CASE n \notin DOMAIN old
    <3>1. new[n] = w
      BY <1>4, <1>5, <2>2
    <3> QED BY <3>1
  <2> QED BY <2>1, <2>2
<1> QED BY <1>6, <1>7 DEF LogSubmitted

LEMMA InTurnOfNext ==
    ASSUME FilesWritten, HistoryTyped, LogSubmitted, NEW e \in Entry, e.id = submitted + 1
    PROVE  DurableLog!InTurn(e)
<1>1. \A n \in DOMAIN Log : Log[n].id \in Int
  <2>1. Log \in Seq(Entry \cup Torn)
    BY LogIsTyped
  <2> QED BY <2>1, SizesAssumption DEF Entry, Torn
<1> QED BY <1>1, SizesAssumption DEF LogSubmitted, HistoryTyped, DurableLog!InTurn

LEMMA NextEntryType ==
    ASSUME HistoryTyped, submitted < MaxEntries, NEW kind \in Kinds
    PROVE  /\ NextEntry(kind) \in Entry
           /\ NextEntry(kind).id = submitted + 1 /\ NextEntry(kind).kind = kind
           /\ EntrySize[kind] \in Nat /\ EntrySize[kind] \in 1 .. EntrySize[kind]
           /\ Copied(NextEntry(kind), EntrySize[kind]) = NextEntry(kind)
           /\ submitted + 1 \in 0 .. MaxEntries
<1>1. EntrySize[kind] \in Nat /\ EntrySize[kind] > 0
  BY SizesAssumption
<1>2. submitted + 1 \in 1 .. MaxEntries
  BY SizesAssumption DEF HistoryTyped
<1> QED BY <1>1, <1>2, SizesAssumption DEF NextEntry, Entry, Copied

\* The writer's file, as WalOpen has it.
LEMMA OpenFile ==
    ASSUME IInv, running
    PROVE  \E k \in 1 .. LastIndex + 1 :
              LET i == k - 1
              IN  /\ Existing = 0 .. k - 1 /\ k \in 0 .. LastIndex + 1 /\ i \in Indexes
                  /\ LastFile = i /\ wal.file = i
                  /\ files[i] \in File /\ files[i] # Absent /\ Openable(files[i])
                  /\ wal.cursor = Read(files[i]).end /\ wal.cursor \in 0 .. FileSize
                  /\ wal.index \in 0 .. k
<1>1. PICK k \in 0 .. LastIndex + 1 : Existing = 0 .. k - 1
  BY DEF IInv, Contiguous
<1>2. /\ Existing # {} /\ \A i \in Existing : Openable(files[i])
      /\ wal \in [file : Indexes, cursor : 0 .. FileSize, index : 0 .. LastIndex + 1]
      /\ wal.file = LastFile /\ wal.cursor = Read(files[LastFile]).end
      /\ wal.index \in {LastFile, LastFile + 1}
  BY DEF IInv, WalOpen
<1>3. k \in 1 .. LastIndex + 1 /\ k - 1 \in Indexes /\ k - 1 \in Existing
  BY <1>1, <1>2, SizesAssumption DEF Indexes
<1>4. LastFile = k - 1
  BY <1>1, <1>3, LastOfThem
<1>5. files[k - 1] \in File /\ files[k - 1] # Absent
  BY <1>3 DEF IInv, FilesWritten, File, Existing
<1>6. wal.index \in 0 .. k /\ wal.cursor \in 0 .. FileSize
  BY <1>2, <1>3, <1>4, SizesAssumption
<1> QED BY <1>1, <1>2, <1>3, <1>4, <1>5, <1>6

LEMMA LogStartsEmpty == Init => Log = <<>>
<1> SUFFICES ASSUME Init PROVE Log = <<>>
  OBVIOUS
<1> DEFINE N == LastIndex + 1
           s == Contents(files)
<1>1. N \in Nat \ {0} /\ Len(s) = N
  BY SizesAssumption DEF Contents
<1>2. \A n \in 1 .. N : s[n] = <<>>
  BY SizesAssumption DEF Init, Contents, Entries, Indexes
<1> HIDE DEF N, s
<1>3. FlattenSeq(s) = <<>>
  BY <1>1, <1>2, FlattenEmpty
<1> QED BY <1>3, LogContents DEF s

LEMMA InitIInv == Init => IInv
<1> SUFFICES ASSUME Init PROVE IInv
  OBVIOUS
<1>1. FilesWritten
  BY DEF Init, FilesWritten, File
<1>2. Existing = {}
  BY DEF Init, Existing
<1>3. Contiguous
  <2>1. 0 \in 0 .. LastIndex + 1 /\ Existing = 0 .. 0 - 1
    BY <1>2, SizesAssumption
  <2> QED BY <2>1 DEF Contiguous
<1>4. HistoryTyped /\ WalOpen
  <2>1. HistoryTyped
    <3>1. <<>> \in Seq(Entry) /\ 0 \in 0 .. MaxEntries
      BY SizesAssumption
    <3> QED BY <3>1, Zenon DEF Init, HistoryTyped
  <2>2. WalOpen
    BY DEF Init, WalOpen
  <2> QED BY <2>1, <2>2
<1>5. Log = <<>>
  BY LogStartsEmpty
<1>6. LogSubmitted
  BY <1>5 DEF LogSubmitted
<1>7. OnlyLastBlocks
  BY <1>2 DEF OnlyLastBlocks
<1> QED BY <1>1, <1>3, <1>4, <1>6, <1>7 DEF IInv

LEMMA StartStep ==
    ASSUME IInv, Start
    PROVE  IInv' /\ LogStep
<1>1. CASE Existing # {}
  <2>1. UNCHANGED <<files, failed, submitted, acked>> /\ running'
    BY <1>1 DEF Start
  <2>2. Existing' = Existing /\ LastFile' = LastFile /\ Log' = Log
    BY <2>1 DEF Existing, LastFile, Log
  <2>3. FilesWritten' /\ Contiguous' /\ HistoryTyped' /\ LogSubmitted'
    BY <2>1, <2>2 DEF IInv, FilesWritten, Contiguous, HistoryTyped, LogSubmitted, Start
  <2>4. PICK k \in 0 .. LastIndex + 1 : Existing = 0 .. k - 1
    BY DEF IInv, Contiguous
  <2>5. k \in 1 .. LastIndex + 1 /\ LastFile = k - 1
    <3>1. k \in 1 .. LastIndex + 1
      BY <1>1, <2>4, SizesAssumption
    <3> QED BY <2>4, <3>1, LastOfThem
  <2>6. LastFile \in Indexes /\ LastFile \in 0 .. LastIndex + 1
    BY <2>5, SizesAssumption DEF Indexes
  <2>7. \A i \in Existing : files[i] \in File
    BY DEF IInv, FilesWritten, File, Existing
  <2>8. \A i \in Existing : Openable(files[i])
    BY <2>7, FileKinds DEF Start, Replayable, Existing
  <2>9. Read(files[LastFile]).end \in 0 .. FileSize
    <3>1. files[LastFile] \in File
      BY <2>6 DEF IInv, FilesWritten, File
    <3> QED BY <3>1, FileKinds DEF Result
  <2>10. wal' = [file |-> LastFile, cursor |-> Read(files[LastFile]).end, index |-> LastFile]
    BY <1>1 DEF Start
  <2>11. WalOpen'
    <3>1. Read(files[LastFile])' = Read(files[LastFile])
      BY <2>1, <2>2
    <3> QED BY <1>1, <2>1, <2>2, <2>6, <2>8, <2>9, <2>10, <3>1 DEF WalOpen
  <2>12. OnlyLastBlocks'
    <3>1. ASSUME NEW i \in Existing PROVE Clear(files[i])
      <4>1. Entries(files[i]) = Read(files[i]).entries
        BY DEF Entries, Existing
      <4> QED BY <2>8, <4>1 DEF Clear, Start, Replayable
    <3> QED BY <2>1, <2>2, <3>1 DEF OnlyLastBlocks, Clear, ClearToLast
  <2> QED BY <2>1, <2>2, <2>3, <2>11, <2>12 DEF IInv, LogStep
<1>2. CASE Existing = {}
  <2>1. /\ files' = [files EXCEPT ![0] = NewFile]
        /\ wal' = [file |-> 0, cursor |-> 0, index |-> 1]
        /\ running' /\ UNCHANGED <<failed, submitted, acked>>
    BY <1>2 DEF Start
  <2>2. FilesWritten /\ 0 \in 0 .. LastIndex + 1 /\ Existing = 0 .. 0 - 1 /\ 0 \in Indexes
    BY <1>2, SizesAssumption DEF IInv, Indexes
  <2>3. Entries(files[0]) = <<>>
    BY <1>2, <2>2 DEF Entries, Existing
  <2> HIDE DEF File
  <2>4. /\ FilesWritten' /\ Contiguous' /\ Existing' = Existing \cup {0} /\ LastFile' = 0
        /\ files'[0] = NewFile /\ Log' = Log
    BY <2>1, <2>2, <2>3, NewFiles, OneFile
  <2>5. WalOpen'
    <3>1. Existing' = {0}
      BY <1>2, <2>4
    <3>2. wal' \in [file : Indexes, cursor : 0 .. FileSize, index : 0 .. LastIndex + 1]
      BY <2>1, <2>2, SizesAssumption
    <3>3. Read(files[LastFile])' = Read(NewFile)
      BY <2>4
    <3> QED BY <2>1, <2>4, <3>1, <3>2, <3>3, NewFiles DEF WalOpen
  <2>6. HistoryTyped' /\ LogSubmitted'
    BY <2>1, <2>4 DEF IInv, HistoryTyped, LogSubmitted
  <2>7. OnlyLastBlocks'
    <3>1. ClearToLast(NewFile) /\ Clear(NewFile)
      BY NewFiles, EmptyIsClear
    <3> QED BY <1>2, <2>1, <2>2, <2>4, <3>1, OneFileBlocks
  <2> QED BY <2>1, <2>4, <2>5, <2>6, <2>7 DEF IInv, LogStep
<1> QED BY <1>1, <1>2

\* Steps that leave the files as they are.
LEMMA SameFiles ==
    ASSUME IInv, UNCHANGED <<files, submitted, acked>>, failed' \in BOOLEAN,
           (UNCHANGED <<wal, running>>) \/ (running' = FALSE /\ wal' = Closed)
    PROVE  IInv' /\ LogStep
<1>1. Existing' = Existing /\ LastFile' = LastFile /\ Log' = Log
  BY DEF Existing, LastFile, Log
<1>2. FilesWritten' /\ Contiguous' /\ HistoryTyped' /\ LogSubmitted'
  BY <1>1 DEF IInv, FilesWritten, Contiguous, HistoryTyped, LogSubmitted
<1>3. WalOpen'
  BY <1>1 DEF IInv, WalOpen
<1>4. OnlyLastBlocks'
  BY <1>1 DEF IInv, OnlyLastBlocks, Clear, ClearToLast
<1> QED BY <1>1, <1>2, <1>3, <1>4 DEF IInv, LogStep

LEMMA WriteEntryStep ==
    ASSUME IInv, NEW kind \in Kinds, WriteEntry(kind)
    PROVE  IInv' /\ LogStep
<1> DEFINE e    == NextEntry(kind)
           size == EntrySize[kind]
<1>1. running /\ submitted < MaxEntries /\ Fits(e)
  BY DEF WriteEntry
<1>2. /\ e \in Entry /\ e.id = submitted + 1 /\ e.kind = kind
      /\ size \in Nat /\ size \in 1 .. size /\ Copied(e, size) = e
      /\ submitted + 1 \in 0 .. MaxEntries
  BY <1>1, NextEntryType DEF IInv
<1>3. PICK k \in 1 .. LastIndex + 1 :
        LET i == k - 1
        IN  /\ Existing = 0 .. k - 1 /\ k \in 0 .. LastIndex + 1 /\ i \in Indexes
            /\ LastFile = i /\ wal.file = i
            /\ files[i] \in File /\ files[i] # Absent /\ Openable(files[i])
            /\ wal.cursor = Read(files[i]).end /\ wal.cursor \in 0 .. FileSize
            /\ wal.index \in 0 .. k
  BY <1>1, OpenFile
<1> DEFINE i == k - 1
           g == [files[i] EXCEPT !.mem = Write(files[i].mem, Read(files[i]).end, e, size)]
<1>4. Read(files[i]).end + EntrySize[e.kind] <= FileSize
  BY <1>1, <1>2, <1>3, SizesAssumption DEF Fits
<1> HIDE DEF e, size, i
<1>5. /\ g \in File /\ g # Absent /\ Openable(g)
      /\ Entries(g) = Append(Entries(files[i]), Copied(e, size))
      /\ Read(g).end = Read(files[i]).end + EntrySize[e.kind]
  <2>1. files[i] \in File /\ files[i] # Absent /\ Openable(files[i])
    BY <1>3 DEF i
  <2>2. size \in 1 .. EntrySize[e.kind]
    BY <1>2 DEF size
  <2> HIDE DEF File
  <2> QED BY <1>2, <1>4, <2>1, <2>2, WriteFile
<1>6. files' = [files EXCEPT ![i] = g]
  BY <1>3 DEF WriteEntry, e, size, i
<1> HIDE DEF g, File
<1>7. /\ FilesWritten' /\ Contiguous' /\ Existing' = Existing \cup {i}
      /\ LastFile' = i /\ files'[i] = g /\ Log' = Append(Log, e)
  <2>1. FilesWritten /\ i \in Indexes /\ i = k - 1 /\ k \in 0 .. LastIndex + 1
        /\ Existing = 0 .. k - 1
    BY <1>3 DEF IInv, i
  <2>2. Entries(g) = Append(Entries(files[i]), e) /\ e \in Entry \cup Torn
    BY <1>2, <1>5
  <2> QED BY <1>5, <1>6, <2>1, <2>2, OneFile
<1>8. /\ wal' = [wal EXCEPT !.cursor = @ + size] /\ submitted' = submitted + 1
      /\ acked' = Append(acked, e) /\ UNCHANGED <<running, failed>>
  BY DEF WriteEntry, e, size
<1>9. HistoryTyped'
  BY <1>2, <1>8 DEF IInv, HistoryTyped
<1>10. LogSubmitted'
  <2>1. FilesWritten /\ HistoryTyped /\ LogSubmitted /\ e \in Entry \cup Torn
    BY <1>2 DEF IInv
  <2>2. e.id <= submitted'
    BY <1>2, <1>8
  <2> QED BY <1>7, <1>8, <2>1, <2>2, AppendSubmitted
<1>11. WalOpen'
  <2>1. wal \in [file : Indexes, cursor : 0 .. FileSize, index : 0 .. LastIndex + 1]
        /\ wal.index \in {LastFile, LastFile + 1}
        /\ \A j \in Existing : Openable(files[j])
    BY <1>1 DEF IInv, WalOpen
  <2>2. wal'.cursor = Read(g).end /\ wal'.file = i /\ wal'.index = wal.index
    BY <1>2, <1>3, <1>5, <1>8, <2>1 DEF i, size
  <2>3. Read(g).end \in 0 .. FileSize
    BY <1>5, FileKinds DEF Result
  <2>4. wal' \in [file : Indexes, cursor : 0 .. FileSize, index : 0 .. LastIndex + 1]
    BY <1>8, <2>1, <2>2, <2>3
  <2>5. \A j \in Existing' : Openable(files'[j])
    BY <1>3, <1>5, <1>6, <1>7, <2>1 DEF IInv, FilesWritten, Existing, i
  <2>6. Read(files[LastFile])' = Read(g)
    BY <1>7
  <2>7. LastFile = LastFile'
    BY <1>3, <1>7 DEF i
  <2> QED BY <1>1, <1>7, <1>8, <2>1, <2>2, <2>4, <2>5, <2>6, <2>7 DEF WalOpen
<1>12. DurableLog!Next
  <2>1. DurableLog!InTurn(e)
    BY <1>2, InTurnOfNext DEF IInv
  <2>2. DurableLog!WriteAnswered
    BY <1>2, <1>7, <1>8, <2>1 DEF DurableLog!WriteAnswered
  <2> QED BY <2>2 DEF DurableLog!Next
<1>13. OnlyLastBlocks'
  <2>1. \A j \in Existing : Clear(files[j])
    BY <1>1 DEF IInv, OnlyLastBlocks
  <2>2. FilesWritten /\ i \in Indexes /\ i \in Existing
    BY <1>3, SizesAssumption DEF IInv, i
  <2>3. Entries(files[i]) \in Seq(Entry \cup Torn)
    BY <1>3, FileKinds DEF i
  <2>4. ClearToLast(g) /\ Clear(g)
    <3> DEFINE entries == Entries(files[i])
    <3>1. entries \in Seq(Entry \cup Torn) /\ \A n \in DOMAIN entries : Routable(entries[n])
      BY <2>1, <2>2, <2>3 DEF Clear
    <3>2. Entries(g) = Append(entries, e) /\ e \in Entry \cup Torn
      BY <1>2, <1>5
    <3> HIDE DEF entries
    <3> QED BY <1>2, <1>5, <3>1, <3>2, AppendIsClear, EntriesAreRoutable
  <2> QED BY <1>6, <1>7, <2>1, <2>2, <2>4, OneFileBlocks
<1> QED BY <1>7, <1>9, <1>10, <1>11, <1>12, <1>13 DEF IInv, LogStep

LEMMA RotateStep ==
    ASSUME IInv, NEW kind \in Kinds, RotateAndWrite(kind)
    PROVE  IInv' /\ LogStep
<1> DEFINE e    == NextEntry(kind)
           size == EntrySize[kind]
           g    == [NewFile EXCEPT !.mem = Write(NewFile.mem, 0, e, size)]
<1>1. running /\ submitted < MaxEntries /\ CanCreate(wal.index)
  BY DEF RotateAndWrite
<1>2. /\ e \in Entry /\ e.id = submitted + 1 /\ e.kind = kind
      /\ size \in Nat /\ size \in 1 .. size /\ Copied(e, size) = e
      /\ submitted + 1 \in 0 .. MaxEntries
  BY <1>1, NextEntryType DEF IInv
<1>3. PICK k \in 1 .. LastIndex + 1 :
        LET i == k - 1
        IN  /\ Existing = 0 .. k - 1 /\ k \in 0 .. LastIndex + 1 /\ i \in Indexes
            /\ LastFile = i /\ wal.file = i
            /\ files[i] \in File /\ files[i] # Absent /\ Openable(files[i])
            /\ wal.cursor = Read(files[i]).end /\ wal.cursor \in 0 .. FileSize
            /\ wal.index \in 0 .. k
  BY <1>1, OpenFile
<1>4. k \in Indexes /\ NextIndex(wal.index) = k
  BY <1>1, <1>3, NextOfThem
<1>5. /\ files' = [files EXCEPT ![k] = g]
      /\ wal' = [file |-> k, cursor |-> size, index |-> k + 1]
      /\ submitted' = submitted + 1
      /\ acked' = Append(acked, e) /\ UNCHANGED <<running, failed>>
  BY <1>4 DEF RotateAndWrite
<1>6. NewFile \in File /\ NewFile # Absent /\ Openable(NewFile)
      /\ Entries(NewFile) = <<>> /\ Read(NewFile).end = 0
  BY NewFiles
<1>7. Entries(files[k]) = <<>>
  <2>1. k \notin Existing
    BY <1>3, SizesAssumption
  <2> QED BY <1>4, <2>1 DEF Entries, Existing
<1>8. 0 + EntrySize[e.kind] <= FileSize /\ size = EntrySize[e.kind]
  BY <1>2, SizesAssumption
<1> HIDE DEF e, size, File
<1>9. /\ g \in File /\ g # Absent /\ Openable(g)
      /\ Entries(g) = Append(Entries(files[k]), e)
      /\ Read(g).end = size
  <2>1. /\ g \in File /\ g # Absent /\ Openable(g)
        /\ Entries(g) = Append(Entries(NewFile), Copied(e, size))
        /\ Read(g).end = Read(NewFile).end + EntrySize[e.kind]
    <3>1. g = [NewFile EXCEPT !.mem = Write(NewFile.mem, Read(NewFile).end, e, size)]
      BY <1>6
    <3>2. size \in 1 .. EntrySize[e.kind] /\ Read(NewFile).end + EntrySize[e.kind] <= FileSize
      BY <1>2, <1>6, <1>8
    <3> QED BY <1>2, <1>6, <3>1, <3>2, WriteFile
  <2> HIDE DEF g
  <2> QED BY <1>2, <1>6, <1>7, <1>8, <2>1
<1> HIDE DEF g
<1>10. /\ FilesWritten' /\ Contiguous' /\ Existing' = Existing \cup {k}
       /\ LastFile' = k /\ files'[k] = g /\ Log' = Append(Log, e)
  <2>1. FilesWritten /\ e \in Entry \cup Torn
    BY <1>2 DEF IInv
  <2>2. k \in 0 .. LastIndex + 1 /\ Existing = 0 .. k - 1 /\ k \in Indexes
    BY <1>3, <1>4
  <2>3. files' = [files EXCEPT ![k] = g]
    BY <1>5
  <2> QED BY <1>9, <2>1, <2>2, <2>3, OneFile
<1>11. HistoryTyped'
  BY <1>2, <1>5 DEF IInv, HistoryTyped
<1>12. LogSubmitted'
  <2>1. FilesWritten /\ HistoryTyped /\ LogSubmitted /\ e \in Entry \cup Torn
    BY <1>2 DEF IInv
  <2>2. e.id <= submitted'
    BY <1>2, <1>5
  <2> QED BY <1>5, <1>10, <2>1, <2>2, AppendSubmitted
<1>13. WalOpen'
  <2>1. \A j \in Existing : Openable(files[j])
    BY <1>1 DEF IInv, WalOpen
  <2>2. \A j \in Existing' : Openable(files'[j])
    BY <1>4, <1>5, <1>9, <1>10, <2>1 DEF IInv, FilesWritten, Existing
  <2>3. size \in 0 .. FileSize
    BY <1>9, FileKinds DEF Result
  <2>4. wal' \in [file : Indexes, cursor : 0 .. FileSize, index : 0 .. LastIndex + 1]
    BY <1>4, <1>5, <2>3, SizesAssumption DEF Indexes
  <2>5. Read(files[LastFile])' = Read(g)
    BY <1>10
  <2> QED BY <1>1, <1>5, <1>9, <1>10, <2>2, <2>4, <2>5 DEF WalOpen
<1>14. DurableLog!Next
  <2>1. DurableLog!InTurn(e)
    BY <1>2, InTurnOfNext DEF IInv
  <2>2. DurableLog!WriteAnswered
    BY <1>2, <1>5, <1>10, <2>1 DEF DurableLog!WriteAnswered
  <2> QED BY <2>2 DEF DurableLog!Next
<1>15. OnlyLastBlocks'
  <2>1. \A j \in Existing : Clear(files[j])
    BY <1>1 DEF IInv, OnlyLastBlocks
  <2>2. ClearToLast(g) /\ Clear(g)
    <3> DEFINE none == <<>>
    <3>1. none \in Seq(Entry \cup Torn) /\ \A n \in DOMAIN none : Routable(none[n])
      OBVIOUS
    <3>2. Entries(g) = Append(none, e) /\ e \in Entry \cup Torn
      BY <1>2, <1>7, <1>9
    <3> HIDE DEF none
    <3>3. Routable(e) /\ Openable(g)
      BY <1>2, <1>9, EntriesAreRoutable
    <3> QED BY <3>1, <3>2, <3>3, AppendIsClear
  <2>3. FilesWritten /\ files' = [files EXCEPT ![k] = g]
    BY <1>5 DEF IInv
  <2> QED BY <1>4, <1>10, <2>1, <2>2, <2>3, OneFileBlocks
<1> QED BY <1>10, <1>11, <1>12, <1>13, <1>14, <1>15 DEF IInv, LogStep

LEMMA CrashInWriteStep ==
    ASSUME IInv, NEW kind \in Kinds, CrashInWrite(kind)
    PROVE  IInv' /\ LogStep
<1> DEFINE e == NextEntry(kind)
<1>1. running /\ submitted < MaxEntries /\ Fits(e)
  BY DEF CrashInWrite
<1>2. /\ e \in Entry /\ e.id = submitted + 1 /\ e.kind = kind
      /\ EntrySize[kind] \in Nat /\ submitted + 1 \in 0 .. MaxEntries
  BY <1>1, NextEntryType DEF IInv
<1>3. PICK k \in 1 .. LastIndex + 1 :
        LET i == k - 1
        IN  /\ Existing = 0 .. k - 1 /\ k \in 0 .. LastIndex + 1 /\ i \in Indexes
            /\ LastFile = i /\ wal.file = i
            /\ files[i] \in File /\ files[i] # Absent /\ Openable(files[i])
            /\ wal.cursor = Read(files[i]).end /\ wal.cursor \in 0 .. FileSize
            /\ wal.index \in 0 .. k
  BY <1>1, OpenFile
<1>4. PICK n \in 1 .. EntrySize[kind] :
        files' = [files EXCEPT ![wal.file].mem = Write(@, wal.cursor, e, n)]
  BY DEF CrashInWrite
<1> DEFINE i == k - 1
           w == Copied(e, n)
           g == [files[i] EXCEPT !.mem = Write(files[i].mem, Read(files[i]).end, e, n)]
<1>5. Read(files[i]).end + EntrySize[e.kind] <= FileSize
  BY <1>1, <1>2, <1>3, SizesAssumption DEF Fits
<1>6. w \in Entry \cup Torn /\ (w = e \/ w \in Torn) /\ w.id <= submitted + 1
  BY <1>2, SizesAssumption DEF Copied, Entry, Torn, IInv, HistoryTyped
<1> HIDE DEF e, i, w, File
<1>7. /\ g \in File /\ g # Absent /\ Entries(g) = Append(Entries(files[i]), w)
  <2>1. files[i] \in File /\ files[i] # Absent /\ Openable(files[i])
    BY <1>3 DEF i
  <2>2. n \in 1 .. EntrySize[e.kind]
    BY <1>2
  <2> QED BY <1>2, <1>5, <2>1, <2>2, WriteFile DEF w
<1>8. files' = [files EXCEPT ![i] = g]
  BY <1>3, <1>4 DEF i
<1> HIDE DEF g
<1>9. /\ FilesWritten' /\ Contiguous' /\ Log' = Append(Log, w)
      /\ Existing' = Existing \cup {i} /\ LastFile' = i
  <2>1. FilesWritten /\ i \in Indexes /\ i = k - 1 /\ k \in 0 .. LastIndex + 1
        /\ Existing = 0 .. k - 1
    BY <1>3 DEF IInv, i
  <2> QED BY <1>6, <1>7, <1>8, <2>1, OneFile
<1>10. /\ submitted' = submitted + 1 /\ running' = FALSE /\ wal' = Closed
       /\ UNCHANGED <<failed, acked>>
  BY DEF CrashInWrite
<1>11. HistoryTyped' /\ WalOpen'
  BY <1>2, <1>10 DEF IInv, HistoryTyped, WalOpen
<1>12. LogSubmitted'
  <2>1. FilesWritten /\ HistoryTyped /\ LogSubmitted
    BY DEF IInv
  <2> QED BY <1>6, <1>9, <1>10, <2>1, AppendSubmitted
<1>13. DurableLog!Next
  <2>1. CASE w = e
    <3>1. DurableLog!InTurn(e)
      BY <1>2, InTurnOfNext DEF IInv
    <3>2. DurableLog!WriteUnanswered
      BY <1>2, <1>9, <1>10, <2>1, <3>1 DEF DurableLog!WriteUnanswered
    <3> QED BY <3>2 DEF DurableLog!Next
  <2>2. CASE w \in Torn
    <3>1. DurableLog!WriteTorn
      BY <1>9, <1>10, <2>2 DEF DurableLog!WriteTorn
    <3> QED BY <3>1 DEF DurableLog!Next
  <2> QED BY <1>6, <2>1, <2>2
<1>14. OnlyLastBlocks'
  <2>1. \A j \in Existing : Clear(files[j])
    BY <1>1 DEF IInv, OnlyLastBlocks
  <2>2. FilesWritten /\ i \in Indexes /\ i \in Existing
    BY <1>3, SizesAssumption DEF IInv, i
  <2>3. Entries(files[i]) \in Seq(Entry \cup Torn)
    BY <1>3, FileKinds DEF i
  <2>4. ClearToLast(g)
    <3> DEFINE entries == Entries(files[i])
    <3>1. entries \in Seq(Entry \cup Torn) /\ \A m \in DOMAIN entries : Routable(entries[m])
      BY <2>1, <2>2, <2>3 DEF Clear
    <3>2. Entries(g) = Append(entries, w)
      BY <1>7
    <3> HIDE DEF entries
    <3> QED BY <1>6, <3>1, <3>2, AppendIsClear
  <2> QED BY <1>8, <1>9, <1>10, <2>1, <2>2, <2>4, OneFileBlocks
<1> QED BY <1>9, <1>11, <1>12, <1>13, <1>14 DEF IInv, LogStep

LEMMA CrashInCreateStep ==
    ASSUME IInv, CrashInCreate
    PROVE  IInv' /\ LogStep
<1> DEFINE start == IF running THEN wal.index ELSE 0
<1>1. PICK k \in 0 .. LastIndex + 1 : Existing = 0 .. k - 1 /\ start \in 0 .. k
  <2>1. CASE running
    BY <2>1, OpenFile
  <2>2. CASE ~running
    <3>1. PICK k \in 0 .. LastIndex + 1 : Existing = 0 .. k - 1
      BY DEF IInv, Contiguous
    <3> QED BY <2>2, <3>1, SizesAssumption
  <2> QED BY <2>1, <2>2
<1>2. CanCreate(start)
  BY DEF CrashInCreate
<1> HIDE DEF start
<1>3. k \in Indexes /\ NextIndex(start) = k
  BY <1>1, <1>2, NextOfThem
<1>4. PICK f \in {Unsized, NewFile} : files' = [files EXCEPT ![k] = f]
  BY <1>3 DEF CrashInCreate, start
<1>5. f \in File /\ f # Absent /\ Entries(f) = <<>>
  BY <1>4, NewFiles
<1>6. Entries(files[k]) = <<>>
  <2>1. k \notin Existing
    BY <1>1, SizesAssumption
  <2> QED BY <1>3, <2>1 DEF Entries, Existing
<1> HIDE DEF File
<1>7. /\ FilesWritten' /\ Contiguous' /\ Log' = Log
      /\ Existing' = Existing \cup {k} /\ LastFile' = k
  <2>1. FilesWritten
    BY DEF IInv
  <2> QED BY <1>1, <1>3, <1>4, <1>5, <1>6, <2>1, OneFile
<1>8. running' = FALSE /\ wal' = Closed /\ UNCHANGED <<failed, submitted, acked>>
  BY DEF CrashInCreate
<1>9. HistoryTyped' /\ WalOpen' /\ LogSubmitted'
  BY <1>7, <1>8 DEF IInv, HistoryTyped, WalOpen, LogSubmitted
<1>10. OnlyLastBlocks'
  <2>1. \A j \in Existing : Clear(files[j])
    BY DEF CrashInCreate, IInv, OnlyLastBlocks
  <2>2. ClearToLast(f)
    BY <1>5, EmptyIsClear
  <2>3. FilesWritten
    BY DEF IInv
  <2> QED BY <1>3, <1>4, <1>7, <1>8, <2>1, <2>2, <2>3, OneFileBlocks
<1> QED BY <1>7, <1>8, <1>9, <1>10 DEF IInv, LogStep

LEMMA NextIInv ==
    ASSUME IInv, [Next]_vars
    PROVE  IInv' /\ LogStep
<1>1. CASE Start
  BY <1>1, StartStep
<1>2. CASE FailedStart
  BY <1>2, SameFiles DEF FailedStart
<1>3. CASE Crash
  BY <1>3, SameFiles DEF Crash, IInv, HistoryTyped
<1>4. CASE CrashInCreate
  BY <1>4, CrashInCreateStep
<1>5. ASSUME NEW kind \in Kinds, WriteEntry(kind) PROVE IInv' /\ LogStep
  BY <1>5, WriteEntryStep
<1>6. ASSUME NEW kind \in Kinds, RotateAndWrite(kind) PROVE IInv' /\ LogStep
  BY <1>6, RotateStep
<1>7. ASSUME NEW kind \in Kinds, CrashInWrite(kind) PROVE IInv' /\ LogStep
  BY <1>7, CrashInWriteStep
<1>8. CASE UNCHANGED vars
  BY <1>8, SameFiles DEF vars, IInv, HistoryTyped
<1> QED BY <1>1, <1>2, <1>3, <1>4, <1>5, <1>6, <1>7, <1>8 DEF Next

THEOREM WalInvariant == Spec => []IInv
<1>1. Init => IInv
  BY InitIInv
<1>2. IInv /\ [Next]_vars => IInv'
  BY NextIInv
<1> QED BY <1>1, <1>2, PTL DEF Spec

------------------------------------------------------------------------------
(***************************************************************************)
(* The properties.                                                         *)
(***************************************************************************)

\* The directory holds files of their full length, or such that were left without
\* it, and their cells are zeros and parts of entries; the writer's cursor and the
\* numbers of the files stay within their bounds.
THEOREM WalTypes == Spec => []TypeOK
<1>1. ASSUME IInv PROVE TypeOK
  <2>1. ASSUME NEW i \in Existing
        PROVE  /\ files[i].len \in {0, FileSize}
               /\ \A o \in Offsets : files[i].mem[o] = Zero
                     \/ \E e \in Entry : \E n \in 0 .. EntrySize[e.kind] - 1 :
                           files[i].mem[o] = Part(e, n)
    <3>1. files[i] \in File /\ files[i] # Absent
      BY <1>1 DEF IInv, FilesWritten, File, Existing
    <3>2. files[i].len \in {0, FileSize} /\ files[i].mem \in Memory
      BY <3>1, FileKinds
    <3>3. ASSUME NEW o \in Offsets, files[i].mem[o] # Zero
          PROVE  \E e \in Entry : \E n \in 0 .. EntrySize[e.kind] - 1 :
                    files[i].mem[o] = Part(e, n)
      <4> DEFINE c == files[i].mem[o]
                 e == [id |-> c.id, kind |-> c.tag]
      <4>1. c \in Cell /\ c # Zero
        BY <3>2, <3>3 DEF Memory
      <4> HIDE DEF c
      <4>2. /\ c.id \in 1 .. MaxEntries /\ c.tag \in Kinds /\ c.part \in Nat
            /\ EntrySize[c.tag] \in Nat /\ c.part < EntrySize[c.tag]
            /\ c = [id |-> c.id, part |-> c.part, tag |-> c.tag]
        BY <4>1, CellParts
      <4>3. e \in Entry /\ c.part \in 0 .. EntrySize[e.kind] - 1 /\ c = Part(e, c.part)
        BY <4>2 DEF Entry, Part
      <4> QED BY <4>3 DEF c
    <3> QED BY <3>2, <3>3
  <2>2. wal \in [file : Indexes \cup {-1}, cursor : 0 .. FileSize, index : 0 .. LastIndex + 1]
    BY <1>1, SizesAssumption DEF IInv, WalOpen, Closed
  <2> QED BY <1>1, <2>1, <2>2 DEF IInv, HistoryTyped, TypeOK
<1> QED BY <1>1, WalInvariant, PTL

\* What init_wal may refuse is the last file's last entry or missing length, and a
\* crash left it: whatever writes, rotations and crashes came before, all that lies
\* in front of it reads without an error and is routed.
THEOREM OnlyTheEndBlocks == Spec => []BlockedAtEnd
<1>1. ASSUME IInv PROVE BlockedAtEnd
  <2> SUFFICES ASSUME NEW i \in Existing
               PROVE  LET read == Read(files[i])
                      IN  /\ IF Openable(files[i]) THEN read.ok ELSE ~running /\ i = LastFile
                          /\ \A n \in DOMAIN read.entries :
                                ~Routable(read.entries[n]) =>
                                   ~running /\ i = LastFile /\ n = Len(read.entries)
    BY DEF BlockedAtEnd
  <2>1. files[i] \in File /\ files[i] # Absent
    BY <1>1 DEF IInv, FilesWritten, File, Existing
  <2>2. Openable(files[i]) => Read(files[i]).ok
    <3> HIDE DEF File
    <3> QED BY <2>1, FileKinds
  <2>3. Entries(files[i]) = Read(files[i]).entries
    BY <2>1 DEF Entries
  <2>4. /\ (running \/ i # LastFile) => Clear(files[i])
        /\ ClearToLast(files[i])
    BY <1>1 DEF IInv, OnlyLastBlocks
  <2> QED BY <1>1, <2>2, <2>3, <2>4 DEF Clear, ClearToLast, IInv, HistoryTyped
<1> QED BY <1>1, WalInvariant, PTL

\* Wal::new and open_impl leave the cursor where a reader would stop, and every
\* write_entry moves it there again.
THEOREM WriterAppends == Spec => []WriterAtEnd
<1>1. ASSUME IInv PROVE WriterAtEnd
  <2> SUFFICES ASSUME running PROVE WriterAtEnd
    BY DEF WriterAtEnd
  <2>1. PICK k \in 1 .. LastIndex + 1 :
          LET i == k - 1
          IN  /\ Existing = 0 .. k - 1 /\ k \in 0 .. LastIndex + 1 /\ i \in Indexes
              /\ LastFile = i /\ wal.file = i
              /\ files[i] \in File /\ files[i] # Absent /\ Openable(files[i])
              /\ wal.cursor = Read(files[i]).end /\ wal.cursor \in 0 .. FileSize
              /\ wal.index \in 0 .. k
    BY <1>1, OpenFile
  <2>2. files[k - 1].mem \in Written /\ Read(files[k - 1]) = ReadFrom(files[k - 1].mem)[0]
    BY <2>1, FileKinds
  <2>3. \A o \in wal.cursor .. FileSize - 1 : files[k - 1].mem[o] = Zero
    BY <2>1, <2>2 DEF Written
  <2> QED BY <2>1, <2>3 DEF WriterAtEnd
<1> QED BY <1>1, WalInvariant, PTL

\* Every step of write_entry, of a start and of a crash is one of an append-only
\* log, or invisible in it.
THEOREM WalImplementsLog == Spec => ImplementsLog
<1>1. Init => DurableLog!Init
  <2> SUFFICES ASSUME Init PROVE Log = <<>> /\ acked = <<>>
    BY DEF DurableLog!Init
  <2> QED BY LogStartsEmpty DEF Init
<1>2. IInv /\ [Next]_vars => [DurableLog!Next]_DurableLog!vars
  BY NextIInv DEF LogStep, DurableLog!vars
<1> QED BY <1>1, <1>2, WalInvariant, PTL DEF Spec, ImplementsLog, DurableLog!Spec

------------------------------------------------------------------------------
(***************************************************************************)
(* What was answered for is in the log.                                    *)
(***************************************************************************)

\* The answered entries are at these places of the log, and nowhere else.
FoundAt(log, answered, at) ==
    /\ at \in [DOMAIN answered -> DOMAIN log]
    /\ \A m, n \in DOMAIN answered : m < n => at[m] < at[n]
    /\ \A n \in DOMAIN answered : log[at[n]] = answered[n]
    /\ \A i \in DOMAIN log :
          log[i] \in ToSet(answered) => \E n \in DOMAIN answered : at[n] = i

LEMMA FoundInLonger ==
    ASSUME NEW log \in Seq(Entry \cup Torn), NEW answered \in Seq(Entry), NEW at,
           FoundAt(log, answered, at), NEW w \in Entry \cup Torn,
           w \in Torn \/ \A n \in DOMAIN log : log[n].id < w.id
    PROVE  /\ FoundAt(Append(log, w), answered, at)
           /\ w \notin ToSet(answered)
<1> DEFINE new == Append(log, w)
<1>1. /\ DOMAIN log = 1 .. Len(log) /\ Len(log) \in Nat
      /\ DOMAIN new = 1 .. Len(log) + 1 /\ new[Len(log) + 1] = w
      /\ \A i \in DOMAIN log : new[i] = log[i] /\ i # Len(log) + 1
  OBVIOUS
<1>2. w \notin ToSet(answered)
  <2> SUFFICES ASSUME NEW n \in DOMAIN answered, w = answered[n] PROVE FALSE
    BY DEF ToSet
  <2>1. w \in Entry
    OBVIOUS
  <2>2. log[at[n]] = w /\ at[n] \in DOMAIN log
    BY DEF FoundAt
  <2>3. w \notin Torn /\ w.id \in Int
    BY <2>1, SizesAssumption DEF Entry, Torn
  <2> QED BY <2>2, <2>3
<1> HIDE DEF new
<1>3. DOMAIN log \subseteq DOMAIN new
  BY <1>1
<1>4. at \in [DOMAIN answered -> DOMAIN new]
  BY <1>3 DEF FoundAt
<1>5. \A n \in DOMAIN answered : new[at[n]] = answered[n]
  BY <1>1 DEF FoundAt
<1>6. ASSUME NEW i \in DOMAIN new, new[i] \in ToSet(answered)
      PROVE  \E n \in DOMAIN answered : at[n] = i
  <2>1. i \in DOMAIN log
    BY <1>1, <1>2, <1>6
  <2> QED BY <1>1, <1>6, <2>1 DEF FoundAt
<1>7. FoundAt(new, answered, at)
  BY <1>4, <1>5, <1>6 DEF FoundAt
<1> QED BY <1>2, <1>7 DEF new

LEMMA FoundAnswered ==
    ASSUME NEW log \in Seq(Entry \cup Torn), NEW answered \in Seq(Entry), NEW at,
           FoundAt(log, answered, at), NEW e \in Entry,
           \A n \in DOMAIN log : log[n].id < e.id
    PROVE  \E to : FoundAt(Append(log, e), Append(answered, e), to)
<1> DEFINE new  == Append(log, e)
           more == Append(answered, e)
           last == Len(log) + 1
           next == Len(answered) + 1
           to   == [n \in DOMAIN more |-> IF n = next THEN last ELSE at[n]]
<1>1. FoundAt(new, answered, at) /\ e \notin ToSet(answered)
  BY FoundInLonger
<1>2. /\ DOMAIN log = 1 .. Len(log) /\ Len(log) \in Nat
      /\ DOMAIN new = 1 .. last /\ new[last] = e
      /\ \A i \in DOMAIN log : new[i] = log[i]
  OBVIOUS
<1>3. /\ DOMAIN answered = 1 .. Len(answered) /\ Len(answered) \in Nat
      /\ DOMAIN more = 1 .. next /\ more[next] = e
      /\ \A n \in DOMAIN answered : more[n] = answered[n]
  OBVIOUS
<1>4. to[next] = last /\ \A n \in DOMAIN answered : to[n] = at[n] /\ n # next /\ n \in DOMAIN more
  BY <1>3
<1>5. \A n \in DOMAIN more : n = next \/ n \in DOMAIN answered
  BY <1>3
<1>6. \A n \in DOMAIN answered : at[n] \in DOMAIN log /\ at[n] < last
  BY <1>2 DEF FoundAt
<1>7. to \in [DOMAIN more -> DOMAIN new]
  BY <1>2, <1>3, <1>5, <1>6
<1> HIDE DEF to, new, more
<1>8. ASSUME NEW m \in DOMAIN more, NEW n \in DOMAIN more, m < n
      PROVE  to[m] < to[n]
  <2>1. m \in DOMAIN answered
    BY <1>3, <1>8
  <2>2. CASE n = next
    BY <1>4, <1>6, <2>1, <2>2
  <2>3. CASE n \in DOMAIN answered
    BY <1>4, <1>8, <2>1, <2>3 DEF FoundAt
  <2> QED BY <1>5, <2>2, <2>3
<1>9. ASSUME NEW n \in DOMAIN more PROVE new[to[n]] = more[n]
  <2>1. CASE n = next
    BY <1>2, <1>3, <1>4, <2>1
  <2>2. CASE n \in DOMAIN answered
    BY <1>1, <1>3, <1>4, <2>2 DEF FoundAt
  <2> QED BY <1>5, <2>1, <2>2
<1>10. ASSUME NEW i \in DOMAIN new, new[i] \in ToSet(more)
       PROVE  \E n \in DOMAIN more : to[n] = i
  <2>1. CASE i = last
    BY <1>3, <1>4, <2>1
  <2>2. CASE i # last
    <3>1. i \in DOMAIN log /\ new[i] = log[i]
      BY <1>2, <2>2
    <3>2. new[i] # e
      BY <3>1, SizesAssumption DEF Entry
    <3>3. new[i] \in ToSet(answered)
      BY <1>3, <1>5, <1>10, <3>2 DEF ToSet
    <3>4. PICK n \in DOMAIN answered : at[n] = i
      BY <1>1, <3>3 DEF FoundAt
    <3> QED BY <1>4, <3>4
  <2> QED BY <2>1, <2>2
<1>11. FoundAt(new, more, to)
  BY <1>7, <1>8, <1>9, <1>10 DEF FoundAt
<1> QED BY <1>11 DEF new, more

\* What write_entry has answered Ok for is found in the files by every start that
\* follows, once and in that order, whatever crashes lie between.
THEOREM AnsweredSurvive == Spec => []AckedSurvive
<1> DEFINE Found == \E at : FoundAt(Log, acked, at)
<1>1. Init => Found
  <2> SUFFICES ASSUME Init PROVE Found
    OBVIOUS
  <2>1. Log = <<>> /\ acked = <<>>
    BY LogStartsEmpty DEF Init
  <2>2. FoundAt(<<>>, <<>>, <<>>)
    BY DEF FoundAt, ToSet
  <2> QED BY <2>1, <2>2
<1>2. IInv /\ Found /\ [Next]_vars => Found'
  <2> SUFFICES ASSUME IInv, Found, [Next]_vars PROVE Found'
    OBVIOUS
  <2>1. LogStep
    BY NextIInv
  <2>2. PICK at : FoundAt(Log, acked, at)
    OBVIOUS
  <2>3. Log \in Seq(Entry \cup Torn) /\ acked \in Seq(Entry)
    BY LogIsTyped DEF IInv, HistoryTyped
  <2> SUFFICES \E to : FoundAt(Log', acked', to)
    OBVIOUS
  <2>4. CASE Log' = Log /\ acked' = acked
    BY <2>2, <2>4
  <2>5. CASE DurableLog!WriteAnswered
    <3>1. PICK e \in Entry : /\ \A n \in DOMAIN Log : Log[n].id < e.id
                            /\ Log' = Append(Log, e) /\ acked' = Append(acked, e)
      BY <2>5 DEF DurableLog!WriteAnswered, DurableLog!InTurn
    <3> QED BY <2>2, <2>3, <3>1, FoundAnswered
  <2>6. CASE DurableLog!WriteUnanswered
    <3>1. PICK e \in Entry : /\ \A n \in DOMAIN Log : Log[n].id < e.id
                            /\ Log' = Append(Log, e) /\ acked' = acked
      BY <2>6 DEF DurableLog!WriteUnanswered, DurableLog!InTurn
    <3> QED BY <2>2, <2>3, <3>1, FoundInLonger
  <2>7. CASE DurableLog!WriteTorn
    <3>1. PICK e \in Torn : Log' = Append(Log, e) /\ acked' = acked
      BY <2>7 DEF DurableLog!WriteTorn
    <3> QED BY <2>2, <2>3, <3>1, FoundInLonger
  <2> QED BY <2>1, <2>4, <2>5, <2>6, <2>7 DEF LogStep, DurableLog!Next
<1>3. Found => AckedSurvive
  BY DEF FoundAt, AckedSurvive
<1> QED BY <1>1, <1>2, <1>3, WalInvariant, PTL DEF Spec

===============================================================================
