---------------------------- MODULE DbStoreProofs -----------------------------
(***************************************************************************)
(* Theorems about the write path, for every set of clients and rows, every *)
(* choice of versioned models and databases, and every bound.              *)
(***************************************************************************)
EXTENDS DbStore, FiniteSetTheorems, SequenceTheorems, TLAPS

-----------------------------------------------------------------------------
(* What makes the properties inductive, part by part.                      *)

\* The types of TypeOK, and the locks: a database without a writer has nothing
\* pending, and what a writer sees differently is what it has written.
RowInv(k, r) == r # Absent => 1 <= r.epoch /\ r.epoch <= r.wid /\ r.wid <= writes[k]

RowsInv == \A k \in Keys : RowInv(k, disk[k]) /\ RowInv(k, draft[k])

LockInv ==
    /\ \A d \in Databases : writer[d] = Nobody => pending[d] = {}
    /\ \A k \in Keys : writer[Url[k]] = Nobody => draft[k] = disk[k]
    /\ \A k \in Keys :
          draft[k] \in {disk[k], Absent} \/ <<k, draft[k].wid>> \in pending[Url[k]]

\* Pending writes are newer than what is committed, and none was rolled back.
PendingInv ==
    \A d \in Databases : \A k \in Keys, w \in Nat : <<k, w>> \in pending[d] =>
        /\ Url[k] = d /\ disk[k].wid < w /\ w <= writes[k]
        /\ <<k, w>> \notin undone

\* Nobody sees a row of a write that was rolled back.
UndoneInv ==
    \A k \in Keys, w \in Nat : <<k, w>> \in undone =>
        /\ 1 <= w /\ w <= writes[k]
        /\ w # disk[k].wid /\ w # draft[k].wid

\* How the row of an open transaction may differ from the committed one: while
\* the versions count from the same write only delete_where keeps the version.
Follows(r, old) ==
    \/ r = old \/ r = Absent
    \/ r.epoch > old.wid
    \/ /\ old # Absent /\ r.epoch = old.epoch /\ r.wid > old.wid
       /\ r.ver > old.ver \/ (r.ver = old.ver /\ r.by = "delete_where")

OrderInv == \A k \in Versioned : Follows(draft[k], disk[k])

\* What the version of an instance tells of a row, if it is of a write since the
\* one from which the row's versions count.
Agrees(i, r) ==
    r # Absent /\ i.wid >= r.epoch =>
        \/ i.wid = r.wid /\ i.ver = r.ver
        \/ i.wid # r.wid /\ (i.ver < r.ver \/ (i.ver = r.ver /\ r.by = "delete_where"))

\* An instance knows a pending write only if its client is the writer; and it
\* agrees with the rows unless its write was, or may yet be, rolled back.
Knows(c, k, i) ==
    /\ i.wid <= writes[k]
    /\ <<k, i.wid>> \in pending[Url[k]] => writer[Url[k]] = c
    /\ <<k, i.wid>> \in undone \/ Agrees(i, draft[k])
    /\ <<k, i.wid>> \in undone \cup pending[Url[k]] \/ Agrees(i, disk[k])

InstanceInv == \A c \in Clients, k \in Versioned : Knows(c, k, inst[c][k])

\* While no block of its outermost block has ended on its own, what a client
\* has written in it is pending, and then all committed or all rolled back.
Pendings(c) == UNION {pending[d] : d \in {x \in Databases : writer[x] = c}}

\* The block of a client is whole: all of its unit may still be committed, or
\* its outermost block is being left with all of it rolled back.
Whole(c) ==
    \/ /\ unit[c] \cap undone = {}
       /\ call[c] # Exiting \/ Len(scopes[c]) > 1 => unit[c] \subseteq Pendings(c)
    \/ /\ Len(scopes[c]) = 1 /\ Closed(c) /\ call[c] = Exiting
       /\ unit[c] \subseteq undone

Unit(c) ==
    /\ \A k \in Keys, w \in Nat : <<k, w>> \in unit[c] => w <= writes[k]
    /\ \A d \in Databases : writer[d] # c => unit[c] \cap pending[d] = {}
    /\ scopes[c] = <<>> => unit[c] = {} /\ ~torn[c]
    /\ scopes[c] # <<>> /\ ~torn[c] => Whole(c)

UnitInv == \A c \in Clients : Unit(c)

\* A key whose row somebody may see deleted, or that is gone from the table, has
\* been deleted; and so has one that a lookup was told of and does not find.
DeletedInv ==
    \A k \in Keys :
        /\ disk[k].deleted => k \in gone
        /\ draft[k].deleted => k \in gone
        /\ \A c \in Clients : inst[c][k].deleted => k \in gone
        /\ draft[k] = Absent /\ disk[k] # Absent => k \in gone

RequireInv ==
    \A c \in Clients : call[c].op = "require" =>
        \A k \in call[c].keys : View(c, k) # Absent \/ k \in gone

\* A claim that was not rolled back is alone, and keeps its row in the table.
ClaimInv ==
    \A k \in Keys : \A x \in claims[k] \ undone :
        /\ \A y \in claims[k] \ undone : y = x
        /\ draft[k] # Absent
        /\ x \in pending[Url[k]] \/ disk[k] # Absent

\* A call that exits or fails does so in a block; only the exit has no call.
CallInv ==
    \A c \in Clients :
        /\ call[c].op \in {"exit", "bulk_create", "bulk_upsert"} => scopes[c] # <<>>
        /\ call[c].op = "exit" => call[c] = Exiting

IInv ==
    /\ TypeOK
    /\ RowsInv /\ LockInv /\ PendingInv /\ UndoneInv /\ OrderInv /\ InstanceInv
    /\ CallInv /\ UnitInv /\ DeletedInv /\ RequireInv /\ ClaimInv

-----------------------------------------------------------------------------
(* The blocks of a client and the databases they have opened.              *)

LEMMA OpenFacts ==
    ASSUME TypeOK, NEW c \in Clients
    PROVE  /\ scopes[c] \in Seq(Blocks)
           /\ \A d : d \in Open(c) <=>
                 \E i \in 1 .. Len(scopes[c]) : \E j \in DOMAIN scopes[c][i] : scopes[c][i][j] = d
<1>1. scopes[c] \in Seq(Blocks)
  BY DEF TypeOK
<1>2. QED
  BY <1>1 DEF Open, Range

\* The innermost block, when there is one.
LEMMA TopFacts ==
    ASSUME TypeOK, NEW c \in Clients, scopes[c] # <<>>
    PROVE  /\ Len(scopes[c]) \in Nat \ {0}
           /\ Top(c) \in Blocks /\ DOMAIN Top(c) \subseteq 1 .. Len(Managers)
           /\ \A j \in DOMAIN Top(c) : Top(c)[j] \in Databases /\ Top(c)[j] \in Open(c)
<1>1. scopes[c] \in Seq(Blocks) /\ Len(scopes[c]) \in Nat \ {0}
  BY EmptySeq DEF TypeOK
<1>2. Top(c) \in Blocks
  BY <1>1 DEF Top
<1>3. PICK places \in SUBSET (1 .. Len(Managers)) : Top(c) \in [places -> Databases]
  BY <1>2 DEF Blocks
<1>4. DOMAIN Top(c) = places /\ \A j \in DOMAIN Top(c) : Top(c)[j] \in Databases
  BY <1>3
<1>5. \A j \in DOMAIN Top(c) : Top(c)[j] \in Open(c)
  BY <1>1, OpenFacts DEF Top
<1>6. QED
  BY <1>1, <1>2, <1>4, <1>5

\* A block holds some of the urls it is entered with, by their places.
LEMMA BlockFacts ==
    ASSUME NEW places \in SUBSET (1 .. Len(Managers)), NEW b \in [places -> Databases]
    PROVE  b \in Blocks
BY DEF Blocks

LEMMA EmptyBlock == <<>> \in Blocks /\ DOMAIN <<>> = {} /\ Range(<<>>) = {}
<1>1. <<>> \in [{} -> Databases]
  OBVIOUS
<1>2. QED
  BY <1>1, BlockFacts DEF Range

LEMMA OpeningFacts ==
    ASSUME StoreAssumption, NEW c \in Clients,
           NEW urls \in {Managers} \cup {<<d>> : d \in Databases}
    PROVE  Opening(c, urls) \in Blocks
<1>1. urls \in Seq(Databases) /\ Len(urls) <= Len(Managers)
  <2>1. CASE urls = Managers
    BY <2>1 DEF StoreAssumption
  <2>2. CASE \E d \in Databases : urls = <<d>>
    <3>1. Len(Managers) \in Nat /\ Len(Managers) > 0
      BY <2>2 DEF StoreAssumption, Databases
    <3>2. QED
      BY <2>2, <3>1
  <2>3. QED
    BY <2>1, <2>2
<1> DEFINE places == {j \in 1 .. Len(urls) : urls[j] \notin Open(c)}
<1>2. places \in SUBSET (1 .. Len(Managers))
  BY <1>1 DEF StoreAssumption
<1>3. Opening(c, urls) \in [places -> Databases]
  BY <1>1 DEF Opening
<1>4. QED
  BY <1>2, <1>3, BlockFacts

\* Entering a block keeps the databases open, and opens those of the block.
LEMMA EnterScopes ==
    ASSUME TypeOK, NEW c \in Clients, NEW b \in Blocks,
           scopes' = [scopes EXCEPT ![c] = Append(@, b)]
    PROVE  /\ scopes' \in [Clients -> Seq(Blocks)]
           /\ scopes'[c] # <<>> /\ \A x \in Clients \ {c} : scopes'[x] = scopes[x]
           /\ \A x \in Clients : Open(x) \subseteq Open(x)'
           /\ \A x \in Clients : x # c => Open(x)' = Open(x)
<1>1. scopes \in [Clients -> Seq(Blocks)] /\ scopes[c] \in Seq(Blocks)
  BY DEF TypeOK
<1>2. scopes'[c] = Append(scopes[c], b) /\ \A x \in Clients \ {c} : scopes'[x] = scopes[x]
  BY <1>1
<1>3. scopes' \in [Clients -> Seq(Blocks)] /\ scopes'[c] # <<>>
  BY <1>1, <1>2
<1>4. \A x \in Clients : x # c => Open(x)' = Open(x)
  BY <1>2 DEF Open
<1>5. Open(c) \subseteq Open(c)'
  <2>1. \A i \in 1 .. Len(scopes[c]) : i \in 1 .. Len(scopes'[c]) /\ scopes'[c][i] = scopes[c][i]
    BY <1>1, <1>2
  <2>2. QED
    BY <2>1 DEF Open
<1>6. QED
  BY <1>2, <1>3, <1>4, <1>5

\* Leaving a block that has nothing open keeps the databases open.
LEMMA LeaveScopes ==
    ASSUME TypeOK, NEW c \in Clients, scopes[c] # <<>>, Closed(c),
           scopes' = [scopes EXCEPT ![c] = Front(@)]
    PROVE  /\ scopes' \in [Clients -> Seq(Blocks)]
           /\ \A x \in Clients \ {c} : scopes'[x] = scopes[x]
           /\ Len(scopes'[c]) = Len(scopes[c]) - 1
           /\ \A x \in Clients : Open(x) \subseteq Open(x)'
<1>1. scopes \in [Clients -> Seq(Blocks)] /\ scopes[c] \in Seq(Blocks)
  BY DEF TypeOK
<1>2. Len(scopes[c]) \in Nat \ {0}
  BY TopFacts
<1>3. /\ Front(scopes[c]) \in Seq(Blocks) /\ Len(Front(scopes[c])) = Len(scopes[c]) - 1
      /\ \A i \in 1 .. Len(scopes[c]) - 1 : Front(scopes[c])[i] = scopes[c][i]
  <2>1. \A i \in 1 .. Len(scopes[c]) - 1 : scopes[c][i] \in Blocks
    BY <1>1, <1>2
  <2>2. Len(scopes[c]) - 1 \in Int /\ 1 \in Int
    BY <1>2
  <2>3. QED
    BY <1>2, <2>1, <2>2, SubSeqProperties DEF Front
<1>4. /\ scopes' \in [Clients -> Seq(Blocks)] /\ scopes'[c] = Front(scopes[c])
      /\ \A x \in Clients \ {c} : scopes'[x] = scopes[x]
  BY <1>1, <1>3
<1>5. Open(c) \subseteq Open(c)'
  <2>1. SUFFICES ASSUME NEW i \in 1 .. Len(scopes[c]), NEW j \in DOMAIN scopes[c][i]
                 PROVE  scopes[c][i][j] \in Open(c)'
    BY OpenFacts
  <2>2. i \in 1 .. Len(scopes[c]) - 1
    BY <1>2 DEF Closed, Top
  <2>3. i \in 1 .. Len(scopes'[c]) /\ scopes'[c][i] = scopes[c][i]
    BY <1>2, <1>3, <1>4, <2>2
  <2>4. QED
    BY <2>3 DEF Open, Range
<1>6. \A x \in Clients : x # c => Open(x)' = Open(x)
  BY <1>4 DEF Open
<1>7. QED
  BY <1>3, <1>4, <1>5, <1>6

\* Giving up what the innermost block has open keeps the other databases open.
LEMMA SetTopScopes ==
    ASSUME TypeOK, NEW c \in Clients, scopes[c] # <<>>, NEW b \in Blocks, SetTop(c, b)
    PROVE  /\ scopes' \in [Clients -> Seq(Blocks)]
           /\ \A x \in Clients \ {c} : scopes'[x] = scopes[x]
           /\ Len(scopes'[c]) = Len(scopes[c]) /\ Top(c)' = b
           /\ \A x \in Clients : x # c => Open(x)' = Open(x)
           /\ \A d \in Open(c) : d \in Open(c)' \/ d \in Range(Top(c)) \ Range(b)
<1>1. scopes \in [Clients -> Seq(Blocks)] /\ scopes[c] \in Seq(Blocks)
  BY DEF TypeOK
<1>2. Len(scopes[c]) \in Nat \ {0}
  BY TopFacts
<1>3. /\ scopes'[c] = [scopes[c] EXCEPT ![Len(scopes[c])] = b]
      /\ \A x \in Clients \ {c} : scopes'[x] = scopes[x]
      /\ scopes' = [scopes EXCEPT ![c] = [scopes[c] EXCEPT ![Len(scopes[c])] = b]]
  BY <1>1 DEF SetTop
<1>4. /\ scopes'[c] \in Seq(Blocks) /\ Len(scopes'[c]) = Len(scopes[c])
      /\ \A i \in 1 .. Len(scopes[c]) : scopes'[c][i] = IF i = Len(scopes[c]) THEN b ELSE scopes[c][i]
  BY <1>1, <1>2, <1>3, ExceptSeq
<1>5. scopes' \in [Clients -> Seq(Blocks)] /\ Top(c)' = b
  BY <1>1, <1>2, <1>3, <1>4 DEF Top
<1>6. \A x \in Clients : x # c => Open(x)' = Open(x)
  BY <1>3 DEF Open
<1>7. ASSUME NEW d \in Open(c)
      PROVE  d \in Open(c)' \/ d \in Range(Top(c)) \ Range(b)
  <2>1. PICK i \in 1 .. Len(scopes[c]) : \E j \in DOMAIN scopes[c][i] : scopes[c][i][j] = d
    BY OpenFacts
  <2>2. CASE i = Len(scopes[c])
    <3>1. d \in Range(Top(c))
      BY <2>1, <2>2 DEF Range, Top
    <3>2. Range(b) \subseteq Open(c)'
      BY <1>2, <1>4 DEF Open
    <3>3. QED
      BY <3>1, <3>2
  <2>3. CASE i # Len(scopes[c])
    <3>1. i \in 1 .. Len(scopes'[c]) /\ scopes'[c][i] = scopes[c][i]
      BY <1>2, <1>4, <2>3
    <3>2. QED
      BY <2>1, <3>1 DEF Open, Range
  <2>4. QED
    BY <2>2, <2>3
<1>8. QED
  BY <1>3, <1>4, <1>5, <1>6, <1>7

-----------------------------------------------------------------------------
(* Types.                                                                  *)

TablesOK ==
    /\ disk \in [Keys -> RowType] /\ draft \in [Keys -> RowType]
    /\ writer \in [Databases -> Clients \cup {Nobody}] /\ pending \in [Databases -> SUBSET WriteIds]
    /\ \A k \in Keys : draft[k] # disk[k] => writer[Url[k]] # Nobody

WritesOK ==
    /\ unit \in [Clients -> SUBSET WriteIds]
    /\ writes \in [Keys -> Nat] /\ \A k \in Keys : writes[k] <= MaxWrites[k]

ScopesOK ==
    /\ scopes \in [Clients -> Seq(Blocks)]
    /\ \A d \in Databases : writer[d] # Nobody => d \in Open(writer[d])

InstType == [wid : Nat, ver : Nat, deleted : BOOLEAN]
CallType == [op : Ops, keys : SUBSET Keys]

HeldOK == inst \in [Clients -> [Keys -> InstType]] /\ call \in [Clients -> CallType]

HistoryOK ==
    /\ claims \in [Keys -> SUBSET WriteIds] /\ undone \subseteq WriteIds /\ gone \subseteq Keys
    /\ torn \in [Clients -> BOOLEAN]
    /\ blocks \in 0 .. MaxBlocks /\ faults \in 0 .. MaxFaults

LEMMA TypeParts == TypeOK <=> TablesOK /\ WritesOK /\ ScopesOK /\ HeldOK /\ HistoryOK
BY DEF TypeOK, TablesOK, WritesOK, ScopesOK, HeldOK, HistoryOK, InstType, CallType

LEMMA TypePartsNext == TypeOK' <=> TablesOK' /\ WritesOK' /\ ScopesOK' /\ HeldOK' /\ HistoryOK'
BY TypeParts, PTL

LEMMA Constants ==
    /\ Url \in [Keys -> Databases] /\ MaxWrites \in [Keys -> Nat]
    /\ Versioned \subseteq Keys /\ Existing \subseteq Keys
    /\ Nobody \notin Clients /\ NoKey \notin Keys
    /\ MaxBlocks \in Nat /\ MaxFaults \in Nat
BY StoreAssumption DEF StoreAssumption

\* The only row that counts no write is the one that is not there.
LEMMA AbsentType == Absent \in RowType
BY DEF Absent, RowType

Operations == {"create", "update", "save", "delete", "delete_where", "restore"}

LEMMA RowFacts ==
    ASSUME TypeOK, NEW k \in Keys, NEW ver \in Nat, NEW deleted \in BOOLEAN,
           NEW by \in Operations, NEW epoch \in Nat
    PROVE  /\ Row(k, ver, deleted, by, epoch) \in RowType
           /\ Row(k, ver, deleted, by, epoch) # Absent
           /\ Row(k, ver, deleted, by, epoch).wid = writes[k] + 1
           /\ Row(k, ver, deleted, by, epoch).deleted = deleted
           /\ Row(k, ver, deleted, by, epoch).by = by
           /\ Row(k, ver, deleted, by, epoch).epoch = epoch
           /\ k \in Versioned => Row(k, ver, deleted, by, epoch).ver = ver
BY DEF Row, RowType, Fresh, Absent, Operations, TypeOK

LEMMA ViewType ==
    ASSUME TypeOK, NEW c \in Clients, NEW k \in Keys
    PROVE  View(c, k) \in RowType
BY DEF TypeOK, View

\* A statement that writes: inside a transaction of its database it adds to what
\* that has pending, otherwise it commits on its own.
Joins(c, k, row) ==
    /\ Url[k] \in Open(c) /\ disk' = disk
    /\ writer' = [writer EXCEPT ![Url[k]] = c]
    /\ pending' = [pending EXCEPT ![Url[k]] = @ \cup {<<k, Fresh(k)>>}]
    /\ unit' = [unit EXCEPT ![c] = @ \cup {<<k, Fresh(k)>>}]

CommitsAlone(c, k, row) ==
    /\ Url[k] \notin Open(c) /\ writer[Url[k]] = Nobody
    /\ disk' = [disk EXCEPT ![k] = row]
    /\ UNCHANGED <<writer, pending, unit>>

LEMMA WriteFacts ==
    ASSUME TypeOK, NEW c \in Clients, NEW k \in Keys, NEW row \in RowType, Write(c, k, row)
    PROVE  /\ Url[k] \in Databases /\ writer[Url[k]] \in {Nobody, c}
           /\ View(c, k) = draft[k]
           /\ writes' = [writes EXCEPT ![k] = @ + 1] /\ writes[k] < MaxWrites[k]
           /\ draft' = [draft EXCEPT ![k] = row]
           /\ Joins(c, k, row) \/ CommitsAlone(c, k, row)
<1>1. Url[k] \in Databases /\ writer[Url[k]] \in {Nobody, c}
  BY Constants DEF Write
<1>2. View(c, k) = draft[k]
  BY <1>1, Constants DEF View, TypeOK
<1>3. ASSUME Url[k] \notin Open(c)
      PROVE  writer[Url[k]] = Nobody
  BY <1>1, <1>3 DEF TypeOK
<1>4. Joins(c, k, row) \/ CommitsAlone(c, k, row)
  <2>1. CASE Url[k] \in Open(c)
    BY <2>1 DEF Write, Joins, Fresh
  <2>2. CASE Url[k] \notin Open(c)
    BY <1>3, <2>2 DEF Write, CommitsAlone
  <2>3. QED
    BY <2>1, <2>2
<1>5. QED
  BY <1>1, <1>2, <1>4 DEF Write

LEMMA WriteTypes ==
    ASSUME TypeOK, NEW c \in Clients, NEW k \in Keys, NEW row \in RowType, Write(c, k, row),
           scopes' = scopes
    PROVE  TablesOK' /\ WritesOK' /\ ScopesOK'
<1>1. TablesOK /\ WritesOK /\ ScopesOK
  BY TypeParts
<1>2. Url[k] \in Databases /\ <<k, Fresh(k)>> \in WriteIds
  BY <1>1, WriteFacts DEF Fresh, WriteIds, WritesOK
<1>3. writes' \in [Keys -> Nat] /\ \A x \in Keys : writes'[x] <= MaxWrites[x]
  BY <1>1, WriteFacts, Constants DEF WritesOK
<1>4. draft' \in [Keys -> RowType] /\ \A x \in Keys : x # k => draft'[x] = draft[x]
  BY <1>1, WriteFacts DEF TablesOK
<1>5. Open(c)' = Open(c) /\ \A x \in Clients : Open(x)' = Open(x)
  BY DEF Open
<1>6. CASE Joins(c, k, row)
  <2>1. /\ writer' \in [Databases -> Clients \cup {Nobody}] /\ writer'[Url[k]] = c
        /\ \A d \in Databases : d # Url[k] => writer'[d] = writer[d]
    BY <1>1, <1>2, <1>6 DEF Joins, TablesOK
  <2>2. pending' \in [Databases -> SUBSET WriteIds] /\ unit' \in [Clients -> SUBSET WriteIds]
    BY <1>1, <1>2, <1>6 DEF Joins, TablesOK, WritesOK
  <2>3. \A x \in Keys : draft'[x] # disk'[x] => writer'[Url[x]] # Nobody
    BY <1>1, <1>4, <1>6, <2>1, Constants DEF Joins, TablesOK
  <2>4. \A d \in Databases : writer'[d] # Nobody => d \in Open(writer[d])'
    <3>1. TAKE d \in Databases
    <3>2. CASE d = Url[k]
      BY <1>5, <1>6, <2>1, <3>2 DEF Joins, Open
    <3>3. CASE d # Url[k]
      BY <1>1, <1>5, <2>1, <3>3 DEF ScopesOK, TablesOK, Open
    <3>4. QED
      BY <3>2, <3>3
  <2>5. QED
    BY <1>1, <1>3, <1>4, <1>6, <2>1, <2>2, <2>3, <2>4 DEF Joins, TablesOK, WritesOK, ScopesOK
<1>7. CASE CommitsAlone(c, k, row)
  <2>1. disk' \in [Keys -> RowType] /\ \A x \in Keys : draft'[x] # disk'[x] => draft[x] # disk[x]
    BY <1>1, <1>4, <1>7, WriteFacts DEF CommitsAlone, TablesOK
  <2>2. QED
    BY <1>1, <1>3, <1>4, <1>7, <2>1 DEF CommitsAlone, TablesOK, WritesOK, ScopesOK, Open
<1>8. QED
  BY <1>6, <1>7, WriteFacts

LEMMA WritingFacts ==
    ASSUME TypeOK, NEW k \in Keys
    PROVE  Fresh(k) \in Nat /\ Fresh(k) = writes[k] + 1 /\ <<k, Fresh(k)>> \in WriteIds
BY DEF TypeOK, Fresh, WriteIds

LEMMA StampType ==
    ASSUME TypeOK, NEW c \in Clients, NEW k \in Keys, NEW row \in RowType, Stamp(c, k, row)
    PROVE  inst' \in [Clients -> [Keys -> InstType]]
<1>1. Hydrated(k, row) \in InstType
  BY DEF Hydrated, RowType, InstType
<1>2. inst \in [Clients -> [Keys -> InstType]]
  BY TypeParts DEF HeldOK
<1>3. QED
  BY <1>1, <1>2 DEF Stamp

LEMMA SameTables ==
    ASSUME TypeOK, UNCHANGED <<tables, scopes>>
    PROVE  TablesOK' /\ ScopesOK'
BY TypeParts DEF tables, TablesOK, ScopesOK, Open

LEMMA SameWrites == TypeOK /\ UNCHANGED <<unit, writes>> => WritesOK'
BY TypeParts DEF WritesOK

LEMMA SameHistory == TypeOK /\ UNCHANGED <<history, undone, torn, blocks, faults>> => HistoryOK'
BY TypeParts DEF HistoryOK, history

LEMMA SameHeld == TypeOK /\ UNCHANGED <<inst, call>> => HeldOK'
BY TypeParts DEF HeldOK

\* What the innermost block opened is committed or rolled back.
LEMMA ReleaseTypes ==
    ASSUME TypeOK, NEW mine \in SUBSET Databases, Release(mine),
           NEW from \in [Keys -> RowType], from \in {disk, draft},
           \/ /\ disk' = [k \in Keys |-> IF Url[k] \in mine THEN draft[k] ELSE disk[k]]
              /\ draft' = draft
           \/ /\ draft' = [k \in Keys |-> IF Url[k] \in mine THEN disk[k] ELSE draft[k]]
              /\ disk' = disk
    PROVE  /\ TablesOK'
           /\ \A d \in Databases : writer'[d] = IF d \in mine THEN Nobody ELSE writer[d]
           /\ \A d \in Databases : pending'[d] = IF d \in mine THEN {} ELSE pending[d]
<1>1. TablesOK
  BY TypeParts
<1>2. /\ \A d \in Databases : writer'[d] = IF d \in mine THEN Nobody ELSE writer[d]
      /\ \A d \in Databases : pending'[d] = IF d \in mine THEN {} ELSE pending[d]
  BY DEF Release
<1>3. writer' \in [Databases -> Clients \cup {Nobody}] /\ pending' \in [Databases -> SUBSET WriteIds]
  BY <1>1 DEF Release, TablesOK
<1>4. disk' \in [Keys -> RowType] /\ draft' \in [Keys -> RowType]
  BY <1>1 DEF TablesOK
<1>5. \A k \in Keys : draft'[k] # disk'[k] => draft[k] # disk[k] /\ Url[k] \notin mine
  BY <1>1 DEF TablesOK
<1>6. \A k \in Keys : draft'[k] # disk'[k] => writer'[Url[k]] # Nobody
  BY <1>1, <1>2, <1>5, Constants DEF TablesOK
<1>7. QED
  BY <1>2, <1>3, <1>4, <1>6 DEF TablesOK

LEMMA EnterType ==
    ASSUME TypeOK, NEW c \in Clients, NEW urls \in {Managers} \cup {<<d>> : d \in Databases},
           blocks < MaxBlocks, blocks' = blocks + 1,
           scopes' = [scopes EXCEPT ![c] = Append(@, Opening(c, urls))],
           UNCHANGED <<tables, history, undone, torn, faults>>
    PROVE  TablesOK' /\ ScopesOK' /\ HistoryOK'
<1>1. TablesOK /\ ScopesOK /\ HistoryOK
  BY TypeParts
<1>2. /\ scopes' \in [Clients -> Seq(Blocks)]
      /\ \A x \in Clients : Open(x) \subseteq Open(x)'
  BY EnterScopes, OpeningFacts, StoreAssumption
<1>3. ScopesOK'
  BY <1>1, <1>2 DEF ScopesOK, TablesOK, tables
<1>4. blocks' \in 0 .. MaxBlocks
  BY <1>1, Constants DEF HistoryOK
<1>5. QED
  BY <1>1, <1>3, <1>4 DEF TablesOK, HistoryOK, tables, history

\* A block without the url it commits first.
LEMMA CommitRest ==
    ASSUME TypeOK, NEW c \in Clients, scopes[c] # <<>>, NEW last \in DOMAIN Top(c)
    PROVE  LET rest == Restrict(Top(c), DOMAIN Top(c) \ {last}) IN
           rest \in Blocks /\ Range(Top(c)) \ Range(rest) \subseteq {Top(c)[last]}
<1> DEFINE rest == Restrict(Top(c), DOMAIN Top(c) \ {last})
<1>1. DOMAIN Top(c) \in SUBSET (1 .. Len(Managers)) /\ \A j \in DOMAIN Top(c) : Top(c)[j] \in Databases
  BY TopFacts
<1>2. rest \in [DOMAIN Top(c) \ {last} -> Databases]
  BY <1>1 DEF Restrict
<1>3. rest \in Blocks
  BY <1>1, <1>2, BlockFacts
<1>4. \A j \in DOMAIN Top(c) \ {last} : rest[j] = Top(c)[j]
  BY DEF Restrict
<1>5. Range(Top(c)) \ Range(rest) \subseteq {Top(c)[last]}
  BY <1>2, <1>4 DEF Range
<1>6. QED
  BY <1>3, <1>5

LEMMA CommitType ==
    ASSUME TypeOK, NEW c \in Clients, Commit(c)
    PROVE  TypeOK'
<1>1. PICK last \in DOMAIN Top(c) :
        LET mine == {d \in {Top(c)[last]} : writer[d] = c} IN
        /\ Release(mine)
        /\ disk' = [k \in Keys |-> IF Url[k] \in mine THEN draft[k] ELSE disk[k]]
        /\ SetTop(c, Restrict(Top(c), DOMAIN Top(c) \ {last}))
  BY DEF Commit
<1> DEFINE mine == {d \in {Top(c)[last]} : writer[d] = c}
           rest == Restrict(Top(c), DOMAIN Top(c) \ {last})
<1>2. scopes[c] # <<>> /\ Top(c)[last] \in Databases
  BY TopFacts DEF Commit
<1>3. TablesOK /\ WritesOK /\ ScopesOK /\ HeldOK /\ HistoryOK
  BY TypeParts
<1>4. /\ TablesOK'
      /\ \A d \in Databases : writer'[d] = IF d \in mine THEN Nobody ELSE writer[d]
  <2>1. mine \in SUBSET Databases
    BY <1>2
  <2>2. draft \in [Keys -> RowType] /\ draft' = draft
    BY <1>3 DEF TablesOK, Commit
  <2>3. QED
    BY <1>1, <2>1, <2>2, ReleaseTypes
<1>5. rest \in Blocks /\ Range(Top(c)) \ Range(rest) \subseteq {Top(c)[last]}
  BY <1>2, CommitRest
<1>6. /\ scopes' \in [Clients -> Seq(Blocks)]
      /\ \A x \in Clients : x # c => Open(x)' = Open(x)
      /\ \A d \in Open(c) : d \in Open(c)' \/ d = Top(c)[last]
  BY <1>1, <1>2, <1>5, SetTopScopes
<1>7. ScopesOK'
  <2>1. SUFFICES ASSUME NEW d \in Databases, writer'[d] # Nobody
                 PROVE  d \in Open(writer[d])'
    BY <1>6 DEF ScopesOK
  <2>2. d \notin mine /\ writer'[d] = writer[d] /\ d \in Open(writer[d])
    BY <1>3, <1>4, <2>1 DEF ScopesOK
  <2>3. writer[d] \in Clients
    BY <1>3, <2>1, <2>2 DEF TablesOK
  <2>4. d \in Open(writer[d])'
    <3>1. CASE writer[d] = c
      <4>1. d \in Open(c) /\ d # Top(c)[last]
        BY <2>2, <3>1
      <4>2. QED
        BY <1>6, <2>2, <3>1, <4>1
    <3>2. CASE writer[d] # c
      <4>1. d \in {e \in Databases : e \in Open(writer[d])}
        BY <2>2
      <4>2. scopes'[writer[d]] = scopes[writer[d]]
        BY <1>1, <1>2, <1>5, <2>3, <3>2, SetTopScopes
      <4>3. QED
        BY <2>2, <4>2 DEF Open
    <3>3. QED
      BY <3>1, <3>2
  <2>5. QED
    BY <2>4
<1>8. HeldOK' /\ HistoryOK' /\ WritesOK'
  BY <1>3 DEF HeldOK, HistoryOK, WritesOK, Commit, history, CallType, Ops, Exiting
<1>9. QED
  BY <1>4, <1>7, <1>8, TypePartsNext

\* Rolling back what the innermost block has opened, and giving it up.
LEMMA RollbackType ==
    ASSUME TypeOK, NEW c \in Clients, scopes[c] # <<>>, Rollback(c), SetTop(c, <<>>)
    PROVE  /\ TablesOK' /\ ScopesOK' /\ undone' \subseteq WriteIds
           /\ scopes'[c] # <<>> /\ \A x \in Clients \ {c} : scopes'[x] = scopes[x]
           /\ Len(scopes'[c]) = Len(scopes[c]) /\ DOMAIN Top(c)' = {}
           /\ \A x \in Clients : x # c => Open(x)' = Open(x)
<1> DEFINE mine == {d \in Range(Top(c)) : writer[d] = c}
<1>1. TablesOK /\ ScopesOK /\ HistoryOK
  BY TypeParts
<1>2. mine \in SUBSET Databases
  BY TopFacts DEF Range
<1>3. /\ TablesOK'
      /\ \A d \in Databases : writer'[d] = IF d \in mine THEN Nobody ELSE writer[d]
  <2>1. disk \in [Keys -> RowType]
    BY <1>1 DEF TablesOK
  <2>2. QED
    BY <1>2, <2>1, ReleaseTypes DEF Rollback
<1>4. undone' \subseteq WriteIds
  BY <1>1, <1>2 DEF Rollback, TablesOK, HistoryOK
<1>5. <<>> \in Blocks /\ DOMAIN <<>> = {} /\ Range(<<>>) = {}
  BY EmptyBlock
<1>6. /\ scopes' \in [Clients -> Seq(Blocks)] /\ Len(scopes'[c]) = Len(scopes[c])
      /\ \A x \in Clients \ {c} : scopes'[x] = scopes[x]
      /\ Top(c)' = <<>>
      /\ \A x \in Clients : x # c => Open(x)' = Open(x)
      /\ \A d \in Open(c) : d \in Open(c)' \/ d \in Range(Top(c))
  BY <1>5, SetTopScopes
<1>7. scopes'[c] # <<>>
  BY <1>6, TopFacts, EmptySeq
<1>8. ScopesOK'
  <2>1. SUFFICES ASSUME NEW d \in Databases, writer'[d] # Nobody
                 PROVE  d \in Open(writer[d])'
    BY <1>6 DEF ScopesOK
  <2>2. d \notin mine /\ writer'[d] = writer[d] /\ d \in Open(writer[d])
    BY <1>1, <1>3, <2>1 DEF ScopesOK
  <2>3. writer[d] \in Clients
    BY <1>1, <2>1, <2>2 DEF TablesOK
  <2>4. CASE writer[d] = c
    <3>1. d \in Open(c) /\ d \notin Range(Top(c))
      BY <2>2, <2>4
    <3>2. QED
      BY <1>6, <2>2, <2>4, <3>1
  <2>5. CASE writer[d] # c
    <3>1. scopes'[writer[d]] = scopes[writer[d]]
      BY <1>6, <2>3, <2>5
    <3>2. QED
      BY <2>2, <3>1 DEF Open
  <2>6. QED
    BY <2>4, <2>5
<1>9. QED
  BY <1>3, <1>4, <1>5, <1>6, <1>7, <1>8

LEMMA CallTypes ==
    /\ Idle \in CallType /\ Exiting \in CallType
    /\ \A k \in Keys : [op |-> "lookup", keys |-> {k}] \in CallType
                       /\ [op |-> "require", keys |-> {k}] \in CallType
    /\ \A keys \in SUBSET Keys :
          /\ [op |-> "purge", keys |-> keys] \in CallType
          /\ Batch(TRUE, keys) \in CallType /\ Batch(FALSE, keys) \in CallType
BY DEF Idle, Exiting, CallType, Ops, Batch

\* A call that goes on with one key less, or ends.
LEMMA CallShrinks ==
    ASSUME TypeOK, NEW c \in Clients, NEW k, NEW end \in CallType, Proceed(c, k, end)
    PROVE  /\ call' \in [Clients -> CallType]
           /\ \A x \in Clients \ {c} : call'[x] = call[x]
           /\ call'[c] = end \/ call'[c].op = call[c].op
<1>1. call \in [Clients -> CallType]
  BY TypeParts DEF HeldOK
<1>2. [op |-> call[c].op, keys |-> call[c].keys \ {k}] \in CallType
  BY <1>1 DEF CallType
<1>3. QED
  BY <1>1, <1>2 DEF Proceed, Start

\* Steps of one call: a statement that writes one row, with what it tells of.
LEMMA ForgetType ==
    ASSUME TypeOK, NEW k \in Keys, Forget(k)
    PROVE  claims' \in [Keys -> SUBSET WriteIds] /\ gone' \subseteq Keys
BY DEF TypeOK, Forget

LEMMA WriteStepType ==
    ASSUME TypeOK, NEW c \in Clients, NEW k \in Keys, NEW row \in RowType, Write(c, k, row), Quiet,
           claims' \in [Keys -> SUBSET WriteIds], gone' \subseteq Keys,
           inst' = inst \/ Stamp(c, k, row),
           call' \in [Clients -> CallType]
    PROVE  TypeOK'
<1>1. TablesOK' /\ WritesOK' /\ ScopesOK'
  BY WriteTypes DEF Quiet
<1>2. inst' \in [Clients -> [Keys -> InstType]]
  BY StampType, TypeParts DEF HeldOK
<1>3. HistoryOK'
  BY TypeParts DEF HistoryOK, Quiet
<1>4. QED
  BY <1>1, <1>2, <1>3, TypePartsNext DEF HeldOK

\* The row each operation writes.
LEMMA Continued ==
    ASSUME TypeOK, NEW c \in Clients, NEW k \in Keys
    PROVE  /\ View(c, k).ver \in Nat /\ View(c, k).ver + 1 \in Nat
           /\ View(c, k).epoch \in Nat /\ inst[c][k].ver + 1 \in Nat
           /\ inst[c][k].deleted \in BOOLEAN /\ inst[c][k].wid \in Nat
           /\ {"create", "update", "save", "delete", "delete_where", "restore"} \subseteq Operations
<1>1. View(c, k) \in RowType
  BY ViewType
<1>2. inst[c][k] \in InstType
  BY TypeParts DEF HeldOK
<1>3. QED
  BY <1>1, <1>2 DEF RowType, InstType, Operations

LEMMA FirstVersionFacts == StoreAssumption => FirstVersions \subseteq Nat
BY DEF StoreAssumption, FirstVersions

-----------------------------------------------------------------------------
(* The kinds of step.  Every action is a step of one of them.              *)

\* The row a statement writes is gone, is new, or continues the one there was.
Continues(k, row) ==
    row # Absent =>
        /\ row.wid = Fresh(k)
        /\ \/ row.epoch = Fresh(k)
           \/ /\ draft[k] # Absent /\ row.epoch = draft[k].epoch
              /\ k \in Versioned =>
                    row.ver > draft[k].ver \/ (row.ver = draft[k].ver /\ row.by = "delete_where")

\* One statement that writes the row of k.
WriteStep(c, k, row) ==
    /\ row \in RowType /\ Write(c, k, row) /\ Continues(k, row) /\ Quiet
    /\ inst' = inst \/ (row # Absent /\ Stamp(c, k, row))
    /\ row = Absent \/ row.deleted => k \in gone'
    /\ gone \subseteq gone' /\ gone' \subseteq Keys
    /\ claims' \in [Keys -> SUBSET WriteIds] /\ \A x \in Keys \ {k} : claims'[x] = claims[x]
    /\ \/ claims'[k] = {}
       \/ row # Absent /\ claims'[k] = claims[k]
       \/ row # Absent /\ draft[k] = Absent /\ claims'[k] = claims[k] \cup {<<k, Fresh(k)>>}
    /\ call' \in [Clients -> CallType] /\ \A x \in Clients \ {c} : call'[x] = call[x]
    /\ call[c].op # "exit" /\ call'[c].op # "require"
    /\ call'[c] = Exiting => Batching(c)
    /\ call'[c].op = call[c].op \/ call'[c] \in {Idle, Exiting}

\* A statement that reads, and what it keeps of it.
ReadStep(c) ==
    /\ UNCHANGED <<tables, scopes, history, undone, unit, torn, writes, blocks, faults>>
    /\ \/ inst' = inst
       \/ \E k \in Keys : View(c, k) # Absent /\ Stamp(c, k, View(c, k))
    /\ call' \in [Clients -> CallType] /\ \A x \in Clients \ {c} : call'[x] = call[x]
    /\ call[c].op # "exit"
    /\ call'[c].op \in {call[c].op, "none", "purge", "lookup", "require"}
    /\ call'[c].op = "require" => \A k \in call'[c].keys : View(c, k) # Absent

\* A block is entered, by transaction() or by a bulk call.
EnterStep(c) ==
    /\ call[c] = Idle /\ blocks < MaxBlocks /\ blocks' = blocks + 1
    /\ \E urls \in {Managers} \cup {<<d>> : d \in Databases} :
          scopes' = [scopes EXCEPT ![c] = Append(@, Opening(c, urls))]
    /\ call' \in [Clients -> CallType] /\ \A x \in Clients \ {c} : call'[x] = call[x]
    /\ call'[c].op \in {"none", "bulk_create", "bulk_upsert"}
    /\ UNCHANGED <<tables, inst, history, undone, unit, torn, writes, faults>>

\* What the innermost block has opened is rolled back.
RollbackStep(c) ==
    /\ scopes[c] # <<>> /\ Rollback(c) /\ SetTop(c, <<>>)
    /\ call' = [call EXCEPT ![c] = Exiting]
    /\ torn' = [torn EXCEPT ![c] = @ \/ call[c] = Exiting \/ Len(scopes[c]) > 1]
    /\ faults' \in 0 .. MaxFaults
    /\ UNCHANGED <<inst, history, unit, writes, blocks>>

\* Steps that write one row.

LEMMA UpdateStep ==
    ASSUME IInv, NEW c \in Clients, NEW k \in Keys, NEW ver \in Nat, NEW by \in Operations,
           NEW deleted \in BOOLEAN, deleted => View(c, k).deleted,
           NEW epoch \in {View(c, k).epoch, Fresh(k)},
           View(c, k) # Absent, Update(c, k, Row(k, ver, deleted, by, epoch)),
           ver > View(c, k).ver \/ epoch = Fresh(k)
    PROVE  \E row \in RowType : WriteStep(c, k, row)
<1> DEFINE row == Row(k, ver, deleted, by, epoch)
<1>1. TypeOK /\ DeletedInv
  BY DEF IInv
<1>2. epoch \in Nat
  BY <1>1, Continued, WritingFacts
<1>3. /\ row \in RowType /\ row # Absent /\ row.deleted = deleted /\ row.by = by
      /\ row.wid = Fresh(k) /\ row.epoch = epoch
      /\ k \in Versioned => row.ver = ver
  <2>1. Fresh(k) = writes[k] + 1
    BY DEF Fresh
  <2>2. QED
    BY SMTT(60), <1>1, <1>2, <2>1 DEF Row, RowType, Absent, Operations, TypeOK
<1>4. Write(c, k, row) /\ call[c] = Idle /\ Quiet /\ UNCHANGED <<inst, call, claims, gone>>
  BY DEF Update, history
<1> HIDE DEF row
<1>5. View(c, k) = draft[k]
  BY <1>1, <1>3, <1>4, WriteFacts
<1>6. Continues(k, row)
  BY <1>3, <1>5 DEF Continues
<1>7. call \in [Clients -> CallType] /\ claims \in [Keys -> SUBSET WriteIds] /\ gone \subseteq Keys
  BY <1>1, TypeParts DEF HeldOK, HistoryOK
<1>8. row.deleted => k \in gone
  BY <1>1, <1>3, <1>5 DEF DeletedInv
<1>9. WriteStep(c, k, row)
  BY <1>3, <1>4, <1>6, <1>7, <1>8 DEF WriteStep, Idle, Exiting
<1>10. QED
  BY <1>3, <1>9

LEMMA DeleteStep ==
    ASSUME IInv, NEW c \in Clients, NEW k \in Keys, Delete(c, k) \/ DeleteWhere(c, k)
    PROVE  \E row \in RowType : WriteStep(c, k, row)
<1>1. TypeOK /\ call[c] = Idle /\ View(c, k) # Absent /\ Forget(k) /\ Quiet /\ UNCHANGED <<inst, call>>
  BY DEF IInv, Delete, DeleteWhere, Live
<1>2. PICK ver \in Nat, by \in {"delete", "delete_where"} :
        /\ ver > View(c, k).ver \/ (ver = View(c, k).ver /\ by = "delete_where")
        /\ Write(c, k, Row(k, ver, TRUE, by, View(c, k).epoch))
  <2>1. View(c, k).ver \in Nat /\ View(c, k).ver + 1 \in Nat
    BY <1>1, Continued
  <2>2. CASE Delete(c, k)
    <3>1. View(c, k).ver + 1 > View(c, k).ver
      BY <2>1
    <3>2. Write(c, k, Row(k, View(c, k).ver + 1, TRUE, "delete", View(c, k).epoch))
      BY <2>2 DEF Delete
    <3>3. QED
      BY <2>1, <3>1, <3>2
  <2>3. CASE DeleteWhere(c, k)
    <3>1. Write(c, k, Row(k, View(c, k).ver, TRUE, "delete_where", View(c, k).epoch))
      BY <2>3 DEF DeleteWhere
    <3>2. QED
      BY <2>1, <3>1
  <2>4. QED
    BY <2>2, <2>3
<1> DEFINE row == Row(k, ver, TRUE, by, View(c, k).epoch)
<1>3. /\ row \in RowType /\ row # Absent /\ row.by = by
      /\ row.wid = Fresh(k) /\ row.epoch = View(c, k).epoch
      /\ k \in Versioned => row.ver = ver
  <2>1. Fresh(k) = writes[k] + 1 /\ View(c, k).epoch \in Nat /\ TRUE \in BOOLEAN /\ by \in Operations
    BY <1>1, Continued DEF Fresh, Operations
  <2>2. QED
    BY SMTT(60), <1>1, <2>1 DEF Row, RowType, Absent, Operations, TypeOK
<1>4. Write(c, k, row)
  BY <1>2
<1> HIDE DEF row
<1>5. View(c, k) = draft[k]
  BY <1>1, <1>3, <1>4, WriteFacts
<1>6. Continues(k, row)
  BY <1>1, <1>2, <1>3, <1>5 DEF Continues
<1>7. call \in [Clients -> CallType] /\ claims' \in [Keys -> SUBSET WriteIds] /\ gone' \subseteq Keys
  BY <1>1, TypeParts, ForgetType DEF HeldOK
<1>8. /\ k \in gone' /\ gone \subseteq gone'
      /\ claims'[k] = {} /\ \A x \in Keys \ {k} : claims'[x] = claims[x]
  BY <1>1 DEF Forget, TypeOK
<1>9. WriteStep(c, k, row)
  BY <1>1, <1>3, <1>4, <1>6, <1>7, <1>8 DEF WriteStep, Idle, Exiting
<1>10. QED
  BY <1>3, <1>9

\* A row leaves the table, by hard_delete or by purge_deleted.
LEMMA EraseStep ==
    ASSUME IInv, NEW c \in Clients, NEW k \in Keys, Erase(c, k),
           \/ call[c] = Idle /\ call' = call
           \/ call[c].op = "purge" /\ Proceed(c, k, Idle)
    PROVE  WriteStep(c, k, Absent)
<1>1. TypeOK /\ Write(c, k, Absent) /\ Forget(k) /\ Quiet /\ UNCHANGED inst
  BY DEF IInv, Erase
<1>2. call \in [Clients -> CallType] /\ claims' \in [Keys -> SUBSET WriteIds] /\ gone' \subseteq Keys
  BY <1>1, TypeParts, ForgetType DEF HeldOK
<1>3. /\ k \in gone' /\ gone \subseteq gone'
      /\ claims'[k] = {} /\ \A x \in Keys \ {k} : claims'[x] = claims[x]
  BY <1>1 DEF Forget, TypeOK
<1>4. /\ call' \in [Clients -> CallType] /\ \A x \in Clients \ {c} : call'[x] = call[x]
      /\ call[c].op \in {"none", "purge"} /\ (call'[c] = Idle \/ call'[c].op = call[c].op)
  BY <1>1, <1>2, CallTypes, CallShrinks DEF Idle
<1>5. call'[c] # Exiting /\ call'[c].op # "require" /\ call[c].op # "exit"
  BY <1>4 DEF Idle, Exiting
<1>6. QED
  BY <1>1, <1>2, <1>3, <1>4, <1>5, AbsentType DEF WriteStep, Continues

\* A new row: Create, the create of a lookup, a record of bulk_create.
LEMMA InsertedRow ==
    ASSUME TypeOK, NEW k \in Keys, NEW ver \in FirstVersions
    PROVE  LET row == Created(k, ver) IN
           /\ row \in RowType /\ row # Absent /\ row.deleted = FALSE
           /\ row.wid = Fresh(k) /\ Continues(k, row)
<1>1. ver \in Nat
  BY StoreAssumption, FirstVersionFacts
<1>2. QED
  BY <1>1, WritingFacts DEF Created, Row, RowType, Absent, Operations, TypeOK, Continues

LEMMA CreateStep ==
    ASSUME IInv, NEW c \in Clients, NEW k \in Keys, Create(c, k)
    PROVE  \E row \in RowType : WriteStep(c, k, row)
<1>1. TypeOK
  BY DEF IInv
<1>0. PICK ver \in FirstVersions : Write(c, k, Created(k, ver)) /\ Stamp(c, k, Created(k, ver))
  BY DEF Create, Insert
<1> DEFINE row == Created(k, ver)
<1>2. row \in RowType /\ row # Absent /\ row.deleted = FALSE /\ Continues(k, row)
  BY <1>1, InsertedRow
<1>3. /\ call[c] = Idle /\ Write(c, k, row) /\ Stamp(c, k, row) /\ Quiet
      /\ UNCHANGED <<call, claims, gone>>
  BY <1>0 DEF Create, history
<1> HIDE DEF row
<1>4. call \in [Clients -> CallType] /\ claims \in [Keys -> SUBSET WriteIds] /\ gone \subseteq Keys
  BY <1>1, TypeParts DEF HeldOK, HistoryOK
<1>5. WriteStep(c, k, row)
  BY <1>2, <1>3, <1>4 DEF WriteStep, Idle, Exiting
<1>6. QED
  BY <1>2, <1>5

LEMMA LookupCreatesStep ==
    ASSUME IInv, NEW c \in Clients, LookupCreates(c)
    PROVE  \E k \in Keys, row \in RowType : WriteStep(c, k, row)
<1>1. TypeOK
  BY DEF IInv
<1>2. call \in [Clients -> CallType] /\ claims \in [Keys -> SUBSET WriteIds] /\ gone \subseteq Keys
  BY <1>1, TypeParts DEF HeldOK, HistoryOK
<1>3. PICK k \in call[c].keys :
        Insert(c, k) /\ claims' = [claims EXCEPT ![k] = @ \cup {<<k, Fresh(k)>>}]
  BY DEF LookupCreates
<1>4. k \in Keys /\ call[c].op = "lookup" /\ call' = [call EXCEPT ![c] = Idle] /\ Quiet /\ gone' = gone
  BY <1>2 DEF LookupCreates, CallType
<1>0. PICK ver \in FirstVersions : Write(c, k, Created(k, ver)) /\ Stamp(c, k, Created(k, ver))
  BY <1>3 DEF Insert
<1> DEFINE row == Created(k, ver)
<1>5. row \in RowType /\ row # Absent /\ row.deleted = FALSE /\ Continues(k, row)
  BY <1>1, <1>4, InsertedRow
<1>6. View(c, k) = Absent /\ Write(c, k, row) /\ Stamp(c, k, row)
  BY <1>0, <1>3 DEF Insert
<1> HIDE DEF row
<1>7. draft[k] = Absent
  BY <1>1, <1>4, <1>5, <1>6, WriteFacts
<1>8. <<k, Fresh(k)>> \in WriteIds
  BY <1>1, <1>4, WritingFacts
<1>9. /\ claims' \in [Keys -> SUBSET WriteIds] /\ \A x \in Keys \ {k} : claims'[x] = claims[x]
      /\ claims'[k] = claims[k] \cup {<<k, Fresh(k)>>}
  BY <1>2, <1>3, <1>4, <1>8
<1>10. /\ call' \in [Clients -> CallType] /\ \A x \in Clients \ {c} : call'[x] = call[x]
       /\ call'[c] = Idle
  BY <1>2, <1>4, CallTypes
<1>11. WriteStep(c, k, row)
  BY <1>2, <1>4, <1>5, <1>6, <1>7, <1>9, <1>10 DEF WriteStep, Idle, Exiting
<1>12. QED
  BY <1>4, <1>5, <1>11

\* A save continues the row it matches, one version up.
SavedRow(c, k) == Row(k, inst[c][k].ver + 1, inst[c][k].deleted, "save", View(c, k).epoch)

LEMMA SavedRowFacts ==
    ASSUME TypeOK, NEW c \in Clients, NEW k \in Versioned, Matches(View(c, k), inst[c][k])
    PROVE  /\ SavedRow(c, k) \in RowType /\ SavedRow(c, k) # Absent
           /\ SavedRow(c, k).deleted = inst[c][k].deleted
           /\ SavedRow(c, k).wid = Fresh(k) /\ SavedRow(c, k).epoch = View(c, k).epoch
           /\ SavedRow(c, k).ver > View(c, k).ver
           /\ View(c, k) # Absent /\ View(c, k).ver = inst[c][k].ver
<1>1. k \in Keys
  BY Constants
<1>2. inst[c][k].ver + 1 \in Nat /\ View(c, k).ver \in Nat /\ View(c, k).epoch \in Nat
      /\ inst[c][k].deleted \in BOOLEAN
  BY <1>1, Continued
<1>3. View(c, k) # Absent /\ View(c, k).ver = inst[c][k].ver
  BY DEF Matches
<1>4. QED
  BY <1>1, <1>2, <1>3 DEF SavedRow, Row, RowType, Absent, Operations, TypeOK, Fresh

LEMMA SaveStep ==
    ASSUME IInv, NEW c \in Clients, NEW k \in Keys, Save(c, k)
    PROVE  \E row \in RowType : WriteStep(c, k, row)
<1> DEFINE row == SavedRow(c, k)
<1>1. TypeOK /\ DeletedInv /\ k \in Versioned /\ Matches(View(c, k), inst[c][k])
  BY DEF IInv, Save
<1>2. /\ row \in RowType /\ row # Absent /\ row.deleted = inst[c][k].deleted
      /\ row.wid = Fresh(k) /\ row.epoch = View(c, k).epoch /\ row.ver > View(c, k).ver
      /\ View(c, k) # Absent
  BY <1>1, SavedRowFacts
<1>3. /\ call[c] = Idle /\ Write(c, k, row) /\ Stamp(c, k, row) /\ Quiet
      /\ UNCHANGED <<call, claims, gone>>
  BY DEF Save, SavedRow, history
<1> HIDE DEF row
<1>4. Continues(k, row)
  <2>1. View(c, k) = draft[k]
    BY <1>1, <1>2, <1>3, WriteFacts
  <2>2. QED
    BY <1>2, <2>1 DEF Continues
<1>5. row.deleted => k \in gone
  BY <1>1, <1>2 DEF DeletedInv
<1>6. call \in [Clients -> CallType] /\ claims \in [Keys -> SUBSET WriteIds] /\ gone \subseteq Keys
  BY <1>1, TypeParts DEF HeldOK, HistoryOK
<1>7. WriteStep(c, k, row)
  BY <1>2, <1>3, <1>4, <1>5, <1>6 DEF WriteStep, Idle, Exiting
<1>8. QED
  BY <1>2, <1>7

\* An upsert of an unversioned row replaces it, or creates it.
LEMMA UpsertedRow ==
    ASSUME TypeOK, NEW c \in Clients, NEW k \in Keys \ Versioned, NEW deleted \in BOOLEAN,
           Write(c, k, Upserted(c, k, deleted))
    PROVE  LET row == Upserted(c, k, deleted) IN
           /\ row \in RowType /\ row # Absent /\ row.deleted = deleted
           /\ row.wid = Fresh(k) /\ Continues(k, row)
<1> DEFINE row == Upserted(c, k, deleted)
           epoch == IF View(c, k) = Absent THEN Fresh(k) ELSE View(c, k).epoch
<1>1. View(c, k).epoch \in Nat /\ Fresh(k) \in Nat \ {0}
  <2>1. View(c, k).epoch \in Nat
    BY Continued
  <2>2. writes[k] \in Nat
    BY DEF TypeOK
  <2>3. QED
    BY <2>1, <2>2 DEF Fresh
<1>2. epoch \in Nat
  BY <1>1
<1>3. /\ row.wid = Fresh(k) /\ row.epoch = epoch /\ row # Absent
      /\ row.deleted = deleted /\ row \in RowType
  BY <1>1, <1>2 DEF Upserted, Row, RowType, Absent
<1>4. View(c, k) = draft[k]
  BY <1>3, WriteFacts
<1> HIDE DEF row
<1>5. Continues(k, row)
  BY <1>1, <1>3, <1>4 DEF Continues
<1>6. QED
  BY <1>3, <1>5 DEF row

LEMMA UpsertStep ==
    ASSUME IInv, NEW c \in Clients, NEW k \in Keys, Upsert(c, k)
    PROVE  \E row \in RowType : WriteStep(c, k, row)
<1> DEFINE row == Upserted(c, k, inst[c][k].deleted)
<1>1. TypeOK /\ DeletedInv /\ k \in Keys \ Versioned
  BY DEF IInv, Upsert
<1>2. /\ call[c] = Idle /\ Write(c, k, row) /\ Stamp(c, k, row) /\ Quiet
      /\ UNCHANGED <<call, claims, gone>>
  BY DEF Upsert, history
<1>3. inst[c][k].deleted \in BOOLEAN
  BY <1>1, Continued
<1>4. row \in RowType /\ row # Absent /\ row.deleted = inst[c][k].deleted /\ Continues(k, row)
  BY <1>1, <1>2, <1>3, UpsertedRow
<1> HIDE DEF row
<1>5. row.deleted => k \in gone
  BY <1>1, <1>4 DEF DeletedInv
<1>6. call \in [Clients -> CallType] /\ claims \in [Keys -> SUBSET WriteIds] /\ gone \subseteq Keys
  BY <1>1, TypeParts DEF HeldOK, HistoryOK
<1>7. WriteStep(c, k, row)
  BY <1>2, <1>4, <1>5, <1>6 DEF WriteStep, Idle, Exiting
<1>8. QED
  BY <1>4, <1>7

LEMMA BulkOneStep ==
    ASSUME IInv, NEW c \in Clients, BulkOne(c)
    PROVE  \E k \in Keys, row \in RowType : WriteStep(c, k, row)
<1>1. TypeOK
  BY DEF IInv
<1>2. call \in [Clients -> CallType] /\ claims \in [Keys -> SUBSET WriteIds] /\ gone \subseteq Keys
  BY <1>1, TypeParts DEF HeldOK, HistoryOK
<1>3. PICK k \in call[c].keys :
        /\ \/ Inserts(c, k) /\ \E ver \in FirstVersions : Write(c, k, Created(k, ver))
           \/ ~Inserts(c, k) /\ Write(c, k, Upserted(c, k, FALSE))
        /\ Proceed(c, k, Exiting)
  BY DEF BulkOne
<1>4. k \in Keys /\ Batching(c) /\ Quiet /\ UNCHANGED <<inst, claims, gone>>
  BY <1>2 DEF BulkOne, CallType, history
<1>5. PICK row \in RowType : row # Absent /\ row.deleted = FALSE /\ Continues(k, row) /\ Write(c, k, row)
  <2>1. CASE Inserts(c, k)
    <3>1. PICK ver \in FirstVersions : Write(c, k, Created(k, ver))
      BY <1>3, <2>1
    <3>2. QED
      BY <1>1, <1>4, <3>1, InsertedRow
  <2>2. CASE ~Inserts(c, k)
    <3>1. Write(c, k, Upserted(c, k, FALSE)) /\ k \in Keys \ Versioned /\ FALSE \in BOOLEAN
      BY <1>3, <1>4, <2>2 DEF Inserts
    <3>2. QED
      BY <1>1, <3>1, UpsertedRow
  <2>3. QED
    BY <2>1, <2>2
<1>6. /\ call' \in [Clients -> CallType] /\ \A x \in Clients \ {c} : call'[x] = call[x]
      /\ call'[c] = Exiting \/ call'[c].op = call[c].op
  BY <1>1, <1>3, CallTypes, CallShrinks
<1>7. call[c].op # "exit" /\ call'[c].op # "require"
  BY <1>4, <1>6 DEF Batching, Exiting
<1>8. WriteStep(c, k, row)
  BY <1>2, <1>4, <1>5, <1>6, <1>7 DEF WriteStep
<1>9. QED
  BY <1>4, <1>8

\* Steps that read, and keep what they read on an instance.

LEMMA ReadSteps ==
    ASSUME IInv, NEW c \in Clients,
           \/ \E k \in Keys, includeDeleted \in BOOLEAN : Load(c, k, includeDeleted)
           \/ \E k \in Keys : StaleData(c, k) \/ Lookup(c, k)
           \/ Purge(c) \/ LookupLoses(c) \/ Require(c)
    PROVE  ReadStep(c)
<1>1. call \in [Clients -> CallType]
  BY TypeParts DEF IInv, HeldOK
<1>2. ASSUME NEW k \in Keys, NEW includeDeleted \in BOOLEAN, Load(c, k, includeDeleted)
      PROVE  ReadStep(c)
  <2>1. View(c, k) # Absent /\ Stamp(c, k, View(c, k)) /\ call[c] = Idle /\ call' = call
    BY <1>2 DEF Load, Finds
  <2>2. QED
    BY <1>1, <1>2, <2>1 DEF Load, ReadStep, Idle
<1>3. ASSUME NEW k \in Keys, StaleData(c, k)
      PROVE  ReadStep(c)
  BY <1>1, <1>3 DEF StaleData, ReadStep, Idle
<1>4. ASSUME NEW k \in Keys, Lookup(c, k)
      PROVE  ReadStep(c)
  <2>1. /\ call[c].op = "none" /\ inst' = inst
        /\ call' = [call EXCEPT ![c] = [op |-> "lookup", keys |-> {k}]]
    BY <1>4 DEF Lookup, Start, Idle
  <2>2. /\ call' \in [Clients -> CallType] /\ \A x \in Clients \ {c} : call'[x] = call[x]
        /\ call'[c].op = "lookup"
    BY <1>1, <2>1, CallTypes
  <2>3. QED
    BY <1>4, <2>1, <2>2 DEF Lookup, ReadStep
<1>5. CASE Purge(c)
  <2>1. PICK keys \in SUBSET Keys : Start(c, "purge", keys)
    BY <1>5 DEF Purge
  <2>2. /\ call' \in [Clients -> CallType] /\ \A x \in Clients \ {c} : call'[x] = call[x]
        /\ call'[c].op = "purge" /\ call[c].op = "none"
    <3>1. [op |-> "purge", keys |-> keys] \in CallType
      BY DEF CallType, Ops
    <3>2. QED
      BY <1>1, <1>5, <2>1, <3>1 DEF Start, Purge, Idle
  <2>3. QED
    BY <1>5, <2>2 DEF Purge, ReadStep
<1>6. CASE LookupLoses(c)
  <2>1. PICK k \in call[c].keys :
          /\ View(c, k) # Absent
          /\ \/ call' = [call EXCEPT ![c] = Idle]
             \/ Start(c, "require", {k})
    BY <1>6 DEF LookupLoses
  <2>2. k \in Keys /\ call[c].op = "lookup"
    BY <1>1, <1>6 DEF CallType, LookupLoses
  <2>3. /\ call' \in [Clients -> CallType] /\ \A x \in Clients \ {c} : call'[x] = call[x]
        /\ call'[c] = Idle \/ (call'[c].op = "require" /\ call'[c].keys = {k})
    <3>1. /\ [op |-> "require", keys |-> {k}] \in CallType
          /\ Idle \in CallType
      BY <2>2 DEF CallType, Ops, Idle
    <3>2. QED
      BY <1>1, <2>1, <3>1 DEF Start
  <2>4. /\ call'[c].op \in {"none", "require"}
        /\ call'[c].op = "require" => \A x \in call'[c].keys : View(c, x) # Absent
    BY <2>1, <2>3 DEF Idle
  <2>5. QED
    BY <1>6, <2>2, <2>3, <2>4 DEF LookupLoses, ReadStep
<1>7. CASE Require(c)
  <2>1. PICK k \in call[c].keys :
          \/ View(c, k) # Absent /\ Stamp(c, k, View(c, k))
          \/ inst' = inst
    BY <1>7 DEF Require, Finds
  <2>2. k \in Keys /\ call[c].op = "require"
    BY <1>1, <1>7 DEF CallType, Require
  <2>3. /\ call' \in [Clients -> CallType] /\ \A x \in Clients \ {c} : call'[x] = call[x]
        /\ call'[c] = Idle
    BY <1>1, <1>7, CallTypes DEF Require
  <2>4. QED
    BY <1>7, <2>1, <2>2, <2>3 DEF Require, ReadStep, Idle
<1>8. QED
  BY <1>2, <1>3, <1>4, <1>5, <1>6, <1>7

LEMMA PurgeOneStep ==
    ASSUME IInv, NEW c \in Clients, PurgeOne(c)
    PROVE  ReadStep(c) \/ \E k \in Keys : WriteStep(c, k, Absent)
<1>1. call \in [Clients -> CallType] /\ TypeOK /\ call[c].op = "purge"
  BY TypeParts DEF IInv, HeldOK, PurgeOne
<1>2. PICK k \in call[c].keys :
        /\ Proceed(c, k, Idle)
        /\ \/ Quiet /\ UNCHANGED <<tables, inst, history, unit, writes>>
           \/ Erase(c, k)
  BY DEF PurgeOne
<1>3. k \in Keys
  BY <1>1 DEF CallType
<1>4. /\ call' \in [Clients -> CallType] /\ \A x \in Clients \ {c} : call'[x] = call[x]
      /\ call'[c] = Idle \/ call'[c].op = call[c].op
  BY <1>1, <1>2, CallTypes, CallShrinks
<1>5. CASE Quiet /\ UNCHANGED <<tables, inst, history, unit, writes>>
  <2>1. call'[c].op \in {"none", "purge"}
    BY <1>1, <1>4 DEF Idle
  <2>2. QED
    BY <1>1, <1>4, <1>5, <2>1 DEF ReadStep, Quiet
<1>6. CASE Erase(c, k)
  BY <1>1, <1>2, <1>3, <1>6, EraseStep
<1>7. QED
  BY <1>2, <1>5, <1>6

LEMMA EnterSteps ==
    ASSUME IInv, NEW c \in Clients,
           \/ \E urls \in {Managers} \cup {<<d>> : d \in Databases} : Enter(c, urls)
           \/ \E insert \in BOOLEAN, d \in Databases : Bulk(c, insert, d)
    PROVE  EnterStep(c)
<1>1. call \in [Clients -> CallType]
  BY TypeParts DEF IInv, HeldOK
<1>2. ASSUME NEW urls \in {Managers} \cup {<<d>> : d \in Databases}, Enter(c, urls)
      PROVE  EnterStep(c)
  <2>1. call[c].op = "none" /\ call' = call
    BY <1>2 DEF Enter, Idle
  <2>2. QED
    BY <1>1, <1>2, <2>1 DEF Enter, EnterStep
<1>3. ASSUME NEW insert \in BOOLEAN, NEW d \in Databases, Bulk(c, insert, d)
      PROVE  EnterStep(c)
  <2> DEFINE keys == {k \in Keys : Url[k] = d}
  <2>1. Batch(insert, keys) \in CallType /\ Batch(insert, keys).op \in {"bulk_create", "bulk_upsert"}
    BY DEF Batch, CallType, Ops
  <2>2. call' = [call EXCEPT ![c] = Batch(insert, keys)]
    BY <1>3 DEF Bulk
  <2> HIDE DEF keys
  <2>3. /\ call' \in [Clients -> CallType] /\ \A x \in Clients \ {c} : call'[x] = call[x]
        /\ call'[c].op \in {"bulk_create", "bulk_upsert"}
    BY <1>1, <2>1, <2>2
  <2>4. QED
    BY <1>3, <2>3 DEF Bulk, EnterStep
<1>4. QED
  BY <1>2, <1>3

LEMMA RollbackSteps ==
    ASSUME IInv, NEW c \in Clients, Raise(c) \/ BulkFails(c)
    PROVE  RollbackStep(c)
<1>1. faults \in 0 .. MaxFaults
  BY TypeParts DEF IInv, HistoryOK
<1>2. CASE Raise(c)
  <2>1. faults' \in 0 .. MaxFaults
    BY <1>1, <1>2, Constants DEF Raise
  <2>2. QED
    BY <1>2, <2>1 DEF Raise, RollbackStep
<1>3. CASE BulkFails(c)
  <2>1. faults' \in 0 .. MaxFaults
    BY <1>1, <1>3, Constants DEF BulkFails
  <2>2. scopes[c] # <<>> /\ call[c] # Exiting
    BY <1>3 DEF BulkFails, Batching, IInv, CallInv, Exiting
  <2>3. torn' = [torn EXCEPT ![c] = @ \/ call[c] = Exiting \/ Len(scopes[c]) > 1]
    BY <1>3, <2>2 DEF BulkFails
  <2>4. QED
    BY <1>3, <2>1, <2>2, <2>3 DEF BulkFails, RollbackStep
<1>4. QED
  BY <1>2, <1>3

\* Every step of a client is of one of seven kinds.
LEMMA Kinds ==
    ASSUME IInv, Next
    PROVE  \E c \in Clients :
              \/ \E k \in Keys, row \in RowType : WriteStep(c, k, row)
              \/ ReadStep(c) \/ \E k \in Keys : SaveFails(c, k)
              \/ EnterStep(c) \/ Leave(c) \/ Commit(c) \/ RollbackStep(c)
<1>1. PICK c \in Clients :
       \/ \E urls \in {Managers} \cup {<<d>> : d \in Databases} : Enter(c, urls)
       \/ \E insert \in BOOLEAN, d \in Databases : Bulk(c, insert, d)
       \/ Leave(c) \/ Commit(c) \/ Raise(c) \/ BulkFails(c)
       \/ BulkOne(c) \/ PurgeOne(c) \/ LookupCreates(c)
       \/ \E k \in Keys, includeDeleted \in BOOLEAN : Load(c, k, includeDeleted)
       \/ \E k \in Keys : StaleData(c, k) \/ Lookup(c, k)
       \/ Purge(c) \/ LookupLoses(c) \/ Require(c)
       \/ \E k \in Keys :
             \/ \E ver \in GivenVersions : UpdateVersion(c, k, ver)
             \/ Create(c, k) \/ UpdateWhere(c, k) \/ Restore(c, k)
             \/ Delete(c, k) \/ DeleteWhere(c, k) \/ HardDelete(c, k)
             \/ Save(c, k) \/ SaveFails(c, k) \/ Upsert(c, k)
  BY Zenon DEF Next
<1>2. ASSUME NEW k \in Keys, UpdateWhere(c, k) \/ Restore(c, k)
      PROVE  \E row \in RowType : WriteStep(c, k, row)
  <2>1. View(c, k) # Absent
    BY <1>2 DEF UpdateWhere, Restore, Live, Finds
  <2>2. View(c, k).ver \in Nat /\ View(c, k).ver + 1 \in Nat /\ View(c, k).ver + 1 > View(c, k).ver
    BY Continued DEF IInv
  <2>3. \/ Update(c, k, Row(k, View(c, k).ver + 1, View(c, k).deleted, "update", View(c, k).epoch))
        \/ Update(c, k, Row(k, View(c, k).ver + 1, FALSE, "restore", View(c, k).epoch))
    BY <1>2 DEF UpdateWhere, Restore
  <2>4. "update" \in Operations /\ "restore" \in Operations /\ View(c, k).deleted \in BOOLEAN
    BY ViewType DEF IInv, Operations, RowType
  <2>5. QED
    BY <2>1, <2>2, <2>3, <2>4, UpdateStep
<1>3. ASSUME NEW k \in Keys, HardDelete(c, k)
      PROVE  WriteStep(c, k, Absent)
  BY <1>3, EraseStep DEF HardDelete
<1>4. Absent \in RowType
  BY AbsentType
<1>5. ASSUME NEW k \in Keys, NEW ver \in GivenVersions, UpdateVersion(c, k, ver)
      PROVE  \E row \in RowType : WriteStep(c, k, row)
  <2>1. View(c, k) # Absent /\ ver \in Nat
    BY <1>5, StoreAssumption DEF UpdateVersion, Finds, StoreAssumption
  <2>2. Update(c, k, Row(k, ver, View(c, k).deleted, "update", Fresh(k)))
    BY <1>5 DEF UpdateVersion
  <2>3. "update" \in Operations /\ View(c, k).deleted \in BOOLEAN
    BY ViewType DEF IInv, Operations, RowType
  <2>4. QED
    BY <2>1, <2>2, <2>3, UpdateStep
<1>6. QED
  BY <1>1, <1>2, <1>3, <1>4, <1>5, EnterSteps, RollbackSteps, BulkOneStep, PurgeOneStep, LookupCreatesStep,
     ReadSteps, CreateStep, DeleteStep, SaveStep, UpsertStep

-----------------------------------------------------------------------------
(* Type correctness.                                                       *)

\* What a save that fails leaves: a stamp of a write that counts as undone.
LEMMA SaveFailsFacts ==
    ASSUME TypeOK, NEW c \in Clients, NEW k \in Keys, SaveFails(c, k)
    PROVE  /\ k \in Versioned /\ Matches(View(c, k), inst[c][k])
           /\ Stamp(c, k, SavedRow(c, k))
           /\ writes' = [writes EXCEPT ![k] = @ + 1] /\ writes[k] < MaxWrites[k]
           /\ undone' = undone \cup {<<k, Fresh(k)>>}
           /\ call[c] = Idle /\ faults < MaxFaults /\ faults' = faults + 1
           /\ UNCHANGED <<tables, scopes, call, claims, gone, unit, torn, blocks>>
<1>1. SavedRow(c, k).wid = Fresh(k)
  BY SavedRowFacts DEF SaveFails
<1>2. QED
  BY <1>1 DEF SaveFails, SavedRow, history

LEMMA TypeStep ==
    ASSUME IInv, Next
    PROVE  TypeOK'
<1>1. TypeOK /\ TablesOK /\ WritesOK /\ ScopesOK /\ HeldOK /\ HistoryOK
  BY TypeParts DEF IInv
<1>2. ASSUME NEW c \in Clients, NEW k \in Keys, NEW row \in RowType, WriteStep(c, k, row)
      PROVE  TypeOK'
  BY <1>1, <1>2, WriteStepType DEF WriteStep
<1>3. ASSUME NEW c \in Clients, ReadStep(c)
      PROVE  TypeOK'
  <2>1. inst' \in [Clients -> [Keys -> InstType]]
    <3>1. ASSUME NEW k \in Keys, Stamp(c, k, View(c, k))
          PROVE  inst' \in [Clients -> [Keys -> InstType]]
      <4>1. View(c, k) \in RowType
        BY <1>1, ViewType
      <4>2. QED
        BY <1>1, <3>1, <4>1, StampType
    <3>2. QED
      BY <1>1, <1>3, <3>1 DEF ReadStep, HeldOK
  <2>2. TablesOK' /\ ScopesOK'
    BY <1>1, <1>3, SameTables DEF ReadStep
  <2>3. WritesOK' /\ HistoryOK'
    BY <1>1, <1>3, SameWrites, SameHistory DEF ReadStep
  <2>4. HeldOK'
    BY <1>3, <2>1 DEF ReadStep, HeldOK
  <2>5. QED
    BY <2>2, <2>3, <2>4, TypePartsNext
<1>4. ASSUME NEW c \in Clients, NEW k \in Keys, SaveFails(c, k)
      PROVE  TypeOK'
  <2>1. TablesOK' /\ ScopesOK'
    BY <1>1, <1>4, SaveFailsFacts, SameTables
  <2>2. WritesOK'
    <3>1. writes[k] + 1 \in Nat /\ writes[k] + 1 <= MaxWrites[k]
      BY <1>1, <1>4, SaveFailsFacts, Constants DEF WritesOK
    <3>2. QED
      BY <1>1, <1>4, <3>1, SaveFailsFacts DEF WritesOK
  <2>3. HeldOK'
    <3>1. SavedRow(c, k) \in RowType
      BY <1>1, <1>4, SaveFailsFacts, SavedRowFacts
    <3>2. inst' \in [Clients -> [Keys -> InstType]]
      BY <1>1, <1>4, <3>1, SaveFailsFacts, StampType
    <3>3. QED
      BY <1>1, <1>4, <3>2, SaveFailsFacts DEF HeldOK
  <2>4. HistoryOK'
    <3>1. <<k, Fresh(k)>> \in WriteIds
      BY <1>1, WritingFacts
    <3>2. faults + 1 \in 0 .. MaxFaults
      BY <1>1, <1>4, SaveFailsFacts, Constants DEF HistoryOK
    <3>3. QED
      BY <1>1, <1>4, <3>1, <3>2, SaveFailsFacts DEF HistoryOK
  <2>5. QED
    BY <2>1, <2>2, <2>3, <2>4, TypePartsNext
<1>5. ASSUME NEW c \in Clients, EnterStep(c)
      PROVE  TypeOK'
  <2>1. TablesOK' /\ ScopesOK' /\ HistoryOK'
    BY <1>1, <1>5, EnterType DEF EnterStep
  <2>2. WritesOK'
    BY <1>1, <1>5, SameWrites DEF EnterStep
  <2>3. HeldOK'
    BY <1>1, <1>5 DEF EnterStep, HeldOK
  <2>4. QED
    BY <2>1, <2>2, <2>3, TypePartsNext
<1>6. ASSUME NEW c \in Clients, Leave(c)
      PROVE  TypeOK'
  <2>1. scopes' \in [Clients -> Seq(Blocks)] /\ \A x \in Clients : Open(x) \subseteq Open(x)'
    BY <1>1, <1>6, LeaveScopes DEF Leave
  <2>2. UNCHANGED <<tables, inst, history, undone, writes, blocks, faults>>
    BY <1>6 DEF Leave
  <2>3. TablesOK' /\ ScopesOK'
    BY <1>1, <2>1, <2>2 DEF TablesOK, ScopesOK, tables
  <2>4. call' \in [Clients -> CallType]
    BY <1>1, <1>6, CallTypes DEF Leave, HeldOK
  <2>5. unit' \in [Clients -> SUBSET WriteIds] /\ torn' \in [Clients -> BOOLEAN]
    <3>1. CASE Len(scopes[c]) = 1
      BY <1>1, <1>6, <3>1 DEF Leave, WritesOK, HistoryOK
    <3>2. CASE Len(scopes[c]) # 1
      BY <1>1, <1>6, <3>2 DEF Leave, WritesOK, HistoryOK
    <3>3. QED
      BY <3>1, <3>2
  <2>6. QED
    BY <1>1, <2>2, <2>3, <2>4, <2>5, TypePartsNext DEF HeldOK, WritesOK, HistoryOK, history
<1>7. ASSUME NEW c \in Clients, RollbackStep(c)
      PROVE  TypeOK'
  <2>1. TablesOK' /\ ScopesOK' /\ undone' \subseteq WriteIds
    BY <1>1, <1>7, RollbackType DEF RollbackStep
  <2>2. HeldOK' /\ WritesOK'
    BY <1>1, <1>7, CallTypes DEF RollbackStep, HeldOK, WritesOK
  <2>3. HistoryOK'
    <3>1. torn' \in [Clients -> BOOLEAN]
      BY <1>1, <1>7 DEF RollbackStep, HistoryOK
    <3>2. QED
      BY <1>1, <1>7, <2>1, <3>1 DEF RollbackStep, HistoryOK, history
  <2>4. QED
    BY <2>1, <2>2, <2>3, TypePartsNext
<1>8. QED
  BY <1>1, <1>2, <1>3, <1>4, <1>5, <1>6, <1>7, CommitType, Kinds

LEMMA TypeInit == Init => TypeOK
<1> SUFFICES ASSUME Init PROVE TypeOK
  OBVIOUS
<1>1. writes \in [Keys -> Nat] /\ \A k \in Keys : writes[k] <= MaxWrites[k]
  BY StoreAssumption DEF Init, StoreAssumption
<1>2. disk \in [Keys -> RowType] /\ draft \in [Keys -> RowType] /\ draft = disk
  BY DEF Init, Row, Fresh, RowType, Absent
<1>3. scopes \in [Clients -> Seq(Blocks)]
  BY EmptySeq DEF Init
<1>4. /\ inst \in [Clients -> [Keys -> [wid : Nat, ver : Nat, deleted : BOOLEAN]]]
      /\ call \in [Clients -> [op : Ops, keys : SUBSET Keys]]
  BY CallTypes DEF Init, Unloaded, CallType
<1>5. blocks \in 0 .. MaxBlocks /\ faults \in 0 .. MaxFaults
  BY Constants DEF Init
<1>6. /\ writer \in [Databases -> Clients \cup {Nobody}] /\ \A d \in Databases : writer[d] = Nobody
      /\ pending \in [Databases -> SUBSET WriteIds]
  BY DEF Init
<1>7. QED
  BY <1>1, <1>2, <1>3, <1>4, <1>5, <1>6 DEF Init, TypeOK

-----------------------------------------------------------------------------
(* What a writing statement does to the rows, row by row.                  *)

Effect(c, k, row) ==
    /\ writes[k] \in Nat /\ Fresh(k) = writes[k] + 1
    /\ \A x \in Keys : writes'[x] = IF x = k THEN Fresh(k) ELSE writes[x]
    /\ \A x \in Keys : draft'[x] = IF x = k THEN row ELSE draft[x]
    /\ Url[k] \in Databases /\ writer[Url[k]] \in {Nobody, c}
    /\ UNCHANGED <<undone, scopes, torn>>

Joined(c, k) ==
    /\ disk' = disk /\ Url[k] \in Open(c)
    /\ \A d \in Databases : writer'[d] = IF d = Url[k] THEN c ELSE writer[d]
    /\ \A d \in Databases :
          pending'[d] = IF d = Url[k] THEN pending[d] \cup {<<k, Fresh(k)>>} ELSE pending[d]
    /\ unit'[c] = unit[c] \cup {<<k, Fresh(k)>>}
    /\ \A x \in Clients \ {c} : unit'[x] = unit[x]

Alone(k, row) ==
    /\ \A x \in Keys : disk'[x] = IF x = k THEN row ELSE disk[x]
    /\ UNCHANGED <<writer, pending, unit>>
    /\ writer[Url[k]] = Nobody /\ pending[Url[k]] = {} /\ draft[k] = disk[k]

LEMMA WriteEffect ==
    ASSUME IInv, NEW c \in Clients, NEW k \in Keys, NEW row \in RowType, WriteStep(c, k, row)
    PROVE  Effect(c, k, row) /\ (Joined(c, k) \/ Alone(k, row))
<1>1. TypeOK /\ Write(c, k, row) /\ Quiet
  BY DEF IInv, WriteStep
<1>2. /\ Url[k] \in Databases /\ writer[Url[k]] \in {Nobody, c}
      /\ writes' = [writes EXCEPT ![k] = @ + 1]
      /\ draft' = [draft EXCEPT ![k] = row]
      /\ Joins(c, k, row) \/ CommitsAlone(c, k, row)
  BY <1>1, WriteFacts
<1>3. Effect(c, k, row)
  BY <1>1, <1>2 DEF TypeOK, Fresh, Quiet, Effect
<1>4. CASE Joins(c, k, row)
  BY <1>1, <1>3, <1>4 DEF Joins, TypeOK, Joined
<1>5. CASE CommitsAlone(c, k, row)
  <2>1. \A x \in Keys : disk'[x] = IF x = k THEN row ELSE disk[x]
    BY <1>1, <1>5 DEF CommitsAlone, TypeOK
  <2>2. writer[Url[k]] = Nobody /\ pending[Url[k]] = {} /\ draft[k] = disk[k]
    BY <1>2, <1>5 DEF CommitsAlone, IInv, LockInv
  <2>3. QED
    BY <1>3, <1>5, <2>1, <2>2 DEF CommitsAlone, Alone
<1>6. QED
  BY <1>2, <1>4, <1>5, <1>3

\* The types of the rows, and of the ids of writes.
LEMMA RowTypes ==
    ASSUME TypeOK
    PROVE  /\ \A k \in Keys :
                 /\ disk[k] \in RowType /\ draft[k] \in RowType
                 /\ disk[k].wid \in Nat /\ disk[k].ver \in Nat /\ disk[k].epoch \in Nat
                 /\ draft[k].wid \in Nat /\ draft[k].ver \in Nat /\ draft[k].epoch \in Nat
                 /\ writes[k] \in Nat /\ Url[k] \in Databases
           /\ Absent.wid = 0 /\ Absent.epoch = 0 /\ Absent.ver = 0 /\ Absent.deleted = FALSE
BY Constants DEF TypeOK, RowType, Absent

\* No row is newer than the writes of its key.
LEMMA RowBounds ==
    ASSUME TypeOK, RowsInv
    PROVE  \A k \in Keys : disk[k].wid <= writes[k] /\ draft[k].wid <= writes[k]
<1>1. TAKE k \in Keys
<1>2. RowInv(k, disk[k]) /\ RowInv(k, draft[k])
  BY DEF RowsInv
<1>3. QED
  BY <1>2, RowTypes DEF RowInv

LEMMA WriteRows ==
    ASSUME IInv, NEW c \in Clients, NEW k \in Keys, NEW row \in RowType, WriteStep(c, k, row)
    PROVE  RowsInv'
<1>1. TypeOK /\ RowsInv /\ Continues(k, row)
  BY DEF IInv, WriteStep
<1>2. Effect(c, k, row) /\ \A x \in Keys : disk'[x] = disk[x] \/ (x = k /\ disk'[x] = row)
  BY WriteEffect DEF Joined, Alone
<1>3. /\ row.wid \in Nat /\ row.epoch \in Nat
      /\ writes[k] \in Nat /\ Fresh(k) = writes[k] + 1
      /\ draft[k].wid \in Nat /\ draft[k].epoch \in Nat
  BY <1>1, <1>2, RowTypes DEF RowType, Effect
<1>4. ASSUME NEW x \in Keys, NEW r, RowInv(x, r), r.wid \in Nat, r.epoch \in Nat
      PROVE  r # Absent => 1 <= r.epoch /\ r.epoch <= r.wid /\ r.wid <= writes'[x]
  <2>1. writes[x] \in Nat /\ (writes'[x] = writes[x] \/ writes'[x] = writes[x] + 1)
    BY <1>1, <1>2, <1>3, RowTypes DEF Effect
  <2>2. QED
    BY <1>4, <2>1 DEF RowInv
<1>5. row # Absent => 1 <= row.epoch /\ row.epoch <= row.wid /\ row.wid <= writes'[k]
  <2>1. RowInv(k, draft[k])
    BY <1>1 DEF RowsInv
  <2>2. writes'[k] = Fresh(k)
    BY <1>2 DEF Effect
  <2>3. QED
    BY <1>1, <1>3, <2>1, <2>2 DEF Continues, RowInv
<1>6. ASSUME NEW x \in Keys
      PROVE  RowInv(x, disk[x])' /\ RowInv(x, draft[x])'
  <2>1. RowInv(x, disk[x]) /\ RowInv(x, draft[x])
    BY <1>1 DEF RowsInv
  <2>2. draft'[x] = draft[x] \/ (x = k /\ draft'[x] = row)
    BY <1>2 DEF Effect
  <2>3. /\ disk[x].wid \in Nat /\ disk[x].epoch \in Nat
        /\ draft[x].wid \in Nat /\ draft[x].epoch \in Nat
    BY <1>1, RowTypes
  <2>4. QED
    BY <1>2, <1>4, <1>5, <2>1, <2>2, <2>3 DEF RowInv
<1>7. QED
  BY <1>6 DEF RowsInv

LEMMA WriteLocks ==
    ASSUME IInv, NEW c \in Clients, NEW k \in Keys, NEW row \in RowType, WriteStep(c, k, row)
    PROVE  LockInv'
<1>1. TypeOK /\ LockInv /\ Continues(k, row)
  BY DEF IInv, WriteStep
<1>2. Effect(c, k, row) /\ c # Nobody /\ \A x \in Keys : Url[x] \in Databases
  BY WriteEffect, Constants
<1>3. CASE Joined(c, k)
  <2>1. \A d \in Databases : writer'[d] = Nobody => pending'[d] = {}
    BY <1>1, <1>2, <1>3 DEF LockInv, Joined
  <2>2. \A x \in Keys : writer'[Url[x]] = Nobody => draft'[x] = disk'[x]
    BY <1>1, <1>2, <1>3 DEF LockInv, Joined, Effect
  <2>3. ASSUME NEW x \in Keys
        PROVE  draft'[x] \in {disk'[x], Absent} \/ <<x, draft'[x].wid>> \in pending'[Url[x]]
    <3>1. CASE x # k
      <4>1. draft'[x] = draft[x] /\ disk'[x] = disk[x]
        BY <1>2, <1>3, <3>1 DEF Joined, Effect
      <4>2. \A p : p \in pending[Url[x]] => p \in pending'[Url[x]]
        BY <1>2, <1>3 DEF Joined
      <4>3. QED
        BY <1>1, <4>1, <4>2 DEF LockInv
    <3>2. CASE x = k
      BY ZenonT(60), <1>1, <1>2, <1>3, <3>2 DEF Continues, Joined, Effect
    <3>3. QED
      BY <3>1, <3>2
  <2>4. QED
    BY <2>1, <2>2, <2>3 DEF LockInv
<1>4. CASE Alone(k, row)
  <2>1. \A d \in Databases : writer'[d] = Nobody => pending'[d] = {}
    BY <1>1, <1>4 DEF LockInv, Alone
  <2>2. \A x \in Keys : writer'[Url[x]] = Nobody => draft'[x] = disk'[x]
    BY <1>1, <1>2, <1>4 DEF LockInv, Alone, Effect
  <2>3. \A x \in Keys : draft'[x] \in {disk'[x], Absent} \/ <<x, draft'[x].wid>> \in pending'[Url[x]]
    BY <1>1, <1>2, <1>4 DEF LockInv, Alone, Effect
  <2>4. QED
    BY <2>1, <2>2, <2>3 DEF LockInv
<1>5. QED
  BY <1>3, <1>4, WriteEffect

LEMMA WriteOrder ==
    ASSUME IInv, NEW c \in Clients, NEW k \in Keys, NEW row \in RowType, WriteStep(c, k, row)
    PROVE  OrderInv'
<1>1. TypeOK /\ RowsInv /\ OrderInv /\ Continues(k, row)
  BY DEF IInv, WriteStep
<1>2. Effect(c, k, row)
  BY WriteEffect
<1>3. ASSUME NEW x \in Versioned
      PROVE  Follows(draft'[x], disk'[x])
  <2>1. x \in Keys /\ Follows(draft[x], disk[x])
    BY <1>1, Constants DEF OrderInv
  <2>2. CASE x # k
    <3>1. draft'[x] = draft[x] /\ disk'[x] = disk[x]
      BY <1>2, <2>1, <2>2, WriteEffect DEF Effect, Joined, Alone
    <3>2. QED
      BY <2>1, <3>1
  <2>3. CASE x = k /\ Alone(k, row)
    <3>1. draft'[x] = disk'[x]
      BY <1>2, <2>1, <2>3 DEF Effect, Alone
    <3>2. QED
      BY <3>1 DEF Follows
  <2>4. CASE x = k /\ Joined(c, k)
    <3>1. draft'[x] = row /\ disk'[x] = disk[k]
      BY <1>2, <2>1, <2>4 DEF Effect, Joined
    <3>2. /\ disk[k].wid <= writes[k] /\ draft[k].wid <= writes[k]
          /\ writes[k] \in Nat /\ Fresh(k) = writes[k] + 1
      BY <1>1, <1>2, RowBounds DEF Effect
    <3>3. /\ row.wid \in Nat /\ row.ver \in Nat /\ row.epoch \in Nat
          /\ disk[k].wid \in Nat /\ disk[k].ver \in Nat /\ disk[k].epoch \in Nat
          /\ draft[k].wid \in Nat /\ draft[k].ver \in Nat /\ draft[k].epoch \in Nat
          /\ Absent.wid = 0
      BY <1>1, RowTypes DEF RowType
    <3>4. Follows(row, disk[k])
      BY <1>1, <2>1, <2>4, <3>2, <3>3 DEF Follows, Continues
    <3>5. QED
      BY <3>1, <3>4
  <2>5. QED
    BY <2>2, <2>3, <2>4, WriteEffect
<1>4. QED
  BY <1>3 DEF OrderInv

LEMMA WriteIdsInv ==
    ASSUME IInv, NEW c \in Clients, NEW k \in Keys, NEW row \in RowType, WriteStep(c, k, row)
    PROVE  PendingInv' /\ UndoneInv'
<1>1. TypeOK /\ RowsInv /\ PendingInv /\ UndoneInv /\ Continues(k, row)
  BY DEF IInv, WriteStep
<1>2. Effect(c, k, row)
  BY WriteEffect
<1>3. /\ writes[k] \in Nat /\ Fresh(k) = writes[k] + 1 /\ undone' = undone
      /\ \A x \in Keys : writes[x] \in Nat /\ disk[x].wid \in Nat
  BY <1>1, <1>2, RowTypes DEF Effect
<1>4. disk[k].wid <= writes[k] /\ row.wid \in {0, Fresh(k)}
  BY <1>1, RowBounds, RowTypes DEF Continues
<1>5. <<k, Fresh(k)>> \notin undone
  BY <1>1, <1>3 DEF UndoneInv
<1>6. PendingInv'
  <2>1. SUFFICES ASSUME NEW d \in Databases, NEW x \in Keys, NEW w \in Nat, <<x, w>> \in pending'[d]
                 PROVE  Url[x] = d /\ disk'[x].wid < w /\ w <= writes'[x] /\ <<x, w>> \notin undone'
    BY DEF PendingInv
  <2>2. CASE <<x, w>> \in pending[d]
    <3>1. Url[x] = d /\ disk[x].wid < w /\ w <= writes[x] /\ <<x, w>> \notin undone
      BY <1>1, <2>2 DEF PendingInv
    <3>2. disk'[x] = disk[x]
      BY <2>2, <3>1, WriteEffect DEF Joined, Alone
    <3>3. writes'[x] = writes[x] \/ writes'[x] = writes[x] + 1
      BY <1>2 DEF Effect
    <3>4. QED
      BY <1>3, <3>1, <3>2, <3>3
  <2>3. CASE <<x, w>> \notin pending[d]
    <3>1. d = Url[k] /\ x = k /\ w = Fresh(k) /\ disk' = disk
      <4>1. CASE Joined(c, k)
        <5>1. d = Url[k] /\ pending'[d] = pending[d] \cup {<<k, Fresh(k)>>}
          BY <2>1, <2>3, <4>1 DEF Joined
        <5>2. <<x, w>> = <<k, Fresh(k)>>
          BY <2>1, <2>3, <5>1
        <5>3. QED
          BY <4>1, <5>1, <5>2 DEF Joined
      <4>2. CASE Alone(k, row)
        BY <2>1, <2>3, <4>2 DEF Alone
      <4>3. QED
        BY <4>1, <4>2, WriteEffect
    <3>2. writes'[k] = Fresh(k)
      BY <1>2 DEF Effect
    <3>3. QED
      BY <1>3, <1>4, <1>5, <3>1, <3>2
  <2>4. QED
    BY <2>2, <2>3
<1>7. UndoneInv'
  <2>1. SUFFICES ASSUME NEW x \in Keys, NEW w \in Nat, <<x, w>> \in undone
                 PROVE  1 <= w /\ w <= writes'[x] /\ w # disk'[x].wid /\ w # draft'[x].wid
    BY <1>3 DEF UndoneInv
  <2>2. 1 <= w /\ w <= writes[x] /\ w # disk[x].wid /\ w # draft[x].wid
    BY <1>1, <2>1 DEF UndoneInv
  <2>3. writes'[x] = writes[x] \/ writes'[x] = writes[x] + 1
    BY <1>2 DEF Effect
  <2>4. CASE x # k
    <3>1. disk'[x] = disk[x] /\ draft'[x] = draft[x]
      BY <1>2, <2>4, WriteEffect DEF Effect, Joined, Alone
    <3>2. QED
      BY <1>3, <2>2, <2>3, <3>1
  <2>5. CASE x = k
    <3>1. w # row.wid
      BY <1>3, <1>4, <2>2, <2>5
    <3>2. draft'[k] = row /\ (disk'[k] = disk[k] \/ disk'[k] = row)
      BY <1>2, WriteEffect DEF Effect, Joined, Alone
    <3>3. QED
      BY <1>3, <2>2, <2>3, <2>5, <3>1, <3>2
  <2>6. QED
    BY <2>4, <2>5
<1>8. QED
  BY <1>6, <1>7

\* The instances of the clients: what a step leaves of them and of the rows.

KnowsNext(c, k, i) ==
    /\ i.wid <= writes'[k]
    /\ <<k, i.wid>> \in pending'[Url[k]] => writer'[Url[k]] = c
    /\ <<k, i.wid>> \in undone' \/ Agrees(i, draft'[k])
    /\ <<k, i.wid>> \in undone' \cup pending'[Url[k]] \/ Agrees(i, disk'[k])

LEMMA InstanceNext ==
    ASSUME \A c \in Clients, k \in Versioned : KnowsNext(c, k, inst'[c][k])
    PROVE  InstanceInv'
BY DEF InstanceInv, Knows, KnowsNext

LEMMA InstTypes ==
    ASSUME TypeOK
    PROVE  \A c \in Clients, k \in Keys :
              inst[c][k] \in InstType /\ inst[c][k].wid \in Nat /\ inst[c][k].ver \in Nat
BY DEF TypeOK, InstType

LEMMA StampEffect ==
    ASSUME TypeOK, NEW c \in Clients, NEW k \in Keys, NEW row \in RowType, Stamp(c, k, row)
    PROVE  /\ \A x \in Clients, y \in Keys :
                 inst'[x][y] = IF x = c /\ y = k THEN Hydrated(k, row) ELSE inst[x][y]
           /\ Hydrated(k, row) \in InstType
           /\ k \in Versioned => Hydrated(k, row).wid = row.wid /\ Hydrated(k, row).ver = row.ver
           /\ Hydrated(k, row).deleted = row.deleted
BY DEF TypeOK, Stamp, Hydrated, InstType, RowType

\* An instance of a row that is written keeps to the row, by its version.
LEMMA AgreesOn ==
    ASSUME TypeOK, NEW k \in Versioned, NEW row \in RowType, Continues(k, row),
           NEW i \in InstType, i.wid <= writes[k], Agrees(i, draft[k])
    PROVE  Agrees(i, row)
<1>1. k \in Keys
  BY Constants
<1>2. /\ i.wid \in Nat /\ i.ver \in Nat /\ row.wid \in Nat /\ row.ver \in Nat /\ row.epoch \in Nat
      /\ draft[k].wid \in Nat /\ draft[k].ver \in Nat /\ draft[k].epoch \in Nat /\ writes[k] \in Nat
  BY <1>1, RowTypes DEF InstType, RowType
<1>3. SUFFICES ASSUME row # Absent, i.wid >= row.epoch
               PROVE  i.wid # row.wid /\ (i.ver < row.ver \/ (i.ver = row.ver /\ row.by = "delete_where"))
  BY DEF Agrees
<1>4. row.wid = writes[k] + 1 /\ i.wid # row.wid
  BY <1>2, <1>3 DEF Continues, Fresh
<1>5. /\ draft[k] # Absent /\ row.epoch = draft[k].epoch
      /\ row.ver > draft[k].ver \/ (row.ver = draft[k].ver /\ row.by = "delete_where")
  BY <1>2, <1>3 DEF Continues, Fresh
<1>6. i.ver <= draft[k].ver
  BY <1>2, <1>3, <1>5 DEF Agrees
<1>7. QED
  BY <1>2, <1>4, <1>5, <1>6

LEMMA WriteInstances ==
    ASSUME IInv, NEW c \in Clients, NEW k \in Keys, NEW row \in RowType, WriteStep(c, k, row)
    PROVE  InstanceInv'
<1>1. TypeOK /\ LockInv /\ InstanceInv /\ PendingInv /\ Continues(k, row)
  BY DEF IInv, WriteStep
<1>2. Effect(c, k, row)
  BY WriteEffect
<1>3. /\ writes[k] \in Nat /\ Fresh(k) = writes[k] + 1 /\ undone' = undone
      /\ \A x \in Keys : writes[x] \in Nat /\ Url[x] \in Databases
  BY <1>1, <1>2, RowTypes DEF Effect
<1>4. \A x \in Keys : writes'[x] = writes[x] \/ writes'[x] = writes[x] + 1
  BY <1>2 DEF Effect
<1>5. ASSUME NEW x \in Clients, NEW y \in Versioned
      PROVE  KnowsNext(x, y, inst[x][y])
  <2> DEFINE i == inst[x][y]
  <2>1. y \in Keys /\ i \in InstType /\ i.wid \in Nat
    BY <1>1, Constants, InstTypes
  <2>2. Knows(x, y, i)
    BY <1>1 DEF InstanceInv
  <2> HIDE DEF i
  <2>3. i.wid <= writes'[y]
    BY <1>3, <1>4, <2>1, <2>2 DEF Knows
  <2>4. i.wid # Fresh(y)
    BY <1>3, <2>1, <2>2 DEF Knows, Fresh
  <2>5. <<y, i.wid>> \in pending'[Url[y]] <=> <<y, i.wid>> \in pending[Url[y]]
    <3>1. CASE Joined(c, k)
      <4>1. <<y, i.wid>> # <<k, Fresh(k)>>
        BY <2>4
      <4>2. QED
        BY ZenonT(60), <1>3, <2>1, <3>1, <4>1 DEF Joined
    <3>2. CASE Alone(k, row)
      BY <3>2 DEF Alone
    <3>3. QED
      BY <3>1, <3>2, WriteEffect
  <2>6. <<y, i.wid>> \in pending'[Url[y]] => writer'[Url[y]] = x
    <3>1. SUFFICES ASSUME <<y, i.wid>> \in pending[Url[y]] PROVE writer'[Url[y]] = x
      BY <2>5
    <3>2. writer[Url[y]] = x
      BY <2>2, <3>1 DEF Knows
    <3>3. x # Nobody
      BY Constants
    <3>4. CASE Joined(c, k)
      BY <1>2, <1>3, <2>1, <3>2, <3>3, <3>4 DEF Joined, Effect
    <3>5. CASE Alone(k, row)
      BY <3>2, <3>5 DEF Alone
    <3>6. QED
      BY <3>4, <3>5, WriteEffect
  <2>7. <<y, i.wid>> \in undone \/ Agrees(i, draft'[y])
    <3>1. CASE y # k
      BY <1>2, <2>1, <2>2, <3>1 DEF Knows, Effect
    <3>2. CASE y = k
      <4>1. <<y, i.wid>> \in undone \/ Agrees(i, row)
        BY <1>1, <2>1, <2>2, <3>2, AgreesOn DEF Knows
      <4>2. QED
        BY <1>2, <3>2, <4>1 DEF Effect
    <3>3. QED
      BY <3>1, <3>2
  <2>8. <<y, i.wid>> \in undone \cup pending'[Url[y]] \/ Agrees(i, disk'[y])
    <3>1. CASE disk'[y] = disk[y]
      BY <2>2, <2>5, <3>1 DEF Knows
    <3>2. CASE disk'[y] = draft'[y]
      BY <2>7, <3>2
    <3>3. QED
      BY <1>2, <2>1, <3>1, <3>2, WriteEffect DEF Joined, Alone, Effect
  <2>9. QED
    BY <1>3, <2>3, <2>6, <2>7, <2>8 DEF KnowsNext, i
<1>6. ASSUME k \in Versioned, row # Absent, NEW i \in InstType, i.wid = row.wid, i.ver = row.ver
      PROVE  KnowsNext(c, k, i)
  <2>1. i.wid = Fresh(k) /\ writes'[k] = Fresh(k) /\ draft'[k] = row
    BY <1>1, <1>2, <1>6 DEF Continues, Effect
  <2>2. Agrees(i, row)
    BY <1>6 DEF Agrees
  <2>3. <<k, Fresh(k)>> \notin pending[Url[k]]
    BY <1>1, <1>3 DEF PendingInv
  <2>4. CASE Joined(c, k)
    <3>1. <<k, i.wid>> \in pending'[Url[k]] /\ writer'[Url[k]] = c
      BY <1>3, <2>1, <2>4 DEF Joined
    <3>2. i.wid <= writes'[k]
      BY <1>3, <2>1
    <3>3. QED
      BY <2>1, <2>2, <3>1, <3>2 DEF KnowsNext
  <2>5. CASE Alone(k, row)
    <3>1. <<k, i.wid>> \notin pending'[Url[k]] /\ disk'[k] = row
      BY <2>1, <2>3, <2>5 DEF Alone
    <3>2. i.wid <= writes'[k]
      BY <1>3, <2>1
    <3>3. QED
      BY <2>1, <2>2, <3>1, <3>2 DEF KnowsNext
  <2>6. QED
    BY <2>4, <2>5, WriteEffect
<1>7. ASSUME NEW x \in Clients, NEW y \in Versioned
      PROVE  KnowsNext(x, y, inst'[x][y])
  <2>1. CASE inst'[x][y] = inst[x][y]
    BY <1>5, <2>1
  <2>2. CASE inst'[x][y] # inst[x][y]
    <3>1. row # Absent /\ Stamp(c, k, row)
      BY <2>2 DEF WriteStep
    <3>2. x = c /\ y = k /\ inst'[x][y] = Hydrated(k, row)
      BY <1>1, <2>2, <3>1, StampEffect, Constants
    <3>3. /\ Hydrated(k, row) \in InstType
          /\ Hydrated(k, row).wid = row.wid /\ Hydrated(k, row).ver = row.ver
      BY <1>1, <3>1, <3>2, StampEffect
    <3>4. KnowsNext(c, k, Hydrated(k, row))
      BY <1>6, <3>1, <3>2, <3>3
    <3>5. QED
      BY <3>2, <3>4
  <2>3. QED
    BY <2>1, <2>2
<1>8. QED
  BY <1>7, InstanceNext

\* The rows and what clients know of them: everything but blocks and history.
StoreInv == RowsInv /\ LockInv /\ PendingInv /\ UndoneInv /\ OrderInv /\ InstanceInv

LEMMA SameStore ==
    ASSUME StoreInv, UNCHANGED <<tables, inst, undone, writes>>
    PROVE  StoreInv'
BY DEF StoreInv, tables, RowsInv, RowInv, LockInv, PendingInv, UndoneInv, OrderInv, InstanceInv, Knows

\* What a client sees of a row agrees with the row as its writer sees it, and
\* with the committed one unless it is a pending write of its own.
LEMMA SeenAgrees ==
    ASSUME IInv, NEW c \in Clients, NEW k \in Versioned, View(c, k) # Absent,
           NEW i \in InstType, i.wid = View(c, k).wid, i.ver = View(c, k).ver
    PROVE  Knows(c, k, i)
<1>1. TypeOK /\ RowsInv /\ LockInv /\ PendingInv /\ OrderInv /\ k \in Keys
  BY Constants DEF IInv
<1>2. /\ disk[k].wid \in Nat /\ disk[k].ver \in Nat /\ disk[k].epoch \in Nat
      /\ draft[k].wid \in Nat /\ draft[k].ver \in Nat /\ draft[k].epoch \in Nat
      /\ writes[k] \in Nat /\ Url[k] \in Databases /\ Absent.wid = 0
      /\ disk[k].wid <= writes[k] /\ draft[k].wid <= writes[k]
  BY <1>1, RowTypes, RowBounds
<1>3. <<k, disk[k].wid>> \notin pending[Url[k]]
  BY <1>1, <1>2 DEF PendingInv
<1>4. CASE writer[Url[k]] = c
  <2>1. View(c, k) = draft[k]
    BY <1>4 DEF View
  <2>2. Agrees(i, draft[k])
    BY <2>1 DEF Agrees
  <2>3. draft[k] = disk[k] \/ <<k, i.wid>> \in pending[Url[k]]
    BY <1>1, <2>1 DEF LockInv
  <2>4. QED
    BY <1>2, <1>4, <2>1, <2>2, <2>3 DEF Knows
<1>5. CASE writer[Url[k]] # c
  <2>1. View(c, k) = disk[k]
    BY <1>5 DEF View
  <2>2. Agrees(i, disk[k])
    BY <2>1 DEF Agrees
  <2>3. Agrees(i, draft[k])
    <3>1. Follows(draft[k], disk[k])
      BY <1>1 DEF OrderInv
    <3>2. QED
      BY <1>2, <2>1, <2>2, <3>1 DEF Follows, Agrees
  <2>4. QED
    BY <1>2, <1>3, <2>1, <2>2, <2>3 DEF Knows
<1>6. QED
  BY <1>4, <1>5

LEMMA ReadStore ==
    ASSUME IInv, NEW c \in Clients, ReadStep(c)
    PROVE  StoreInv'
<1>1. TypeOK /\ StoreInv
  BY DEF IInv, StoreInv
<1>2. CASE inst' = inst
  BY <1>1, <1>2, SameStore DEF ReadStep
<1>3. ASSUME NEW k \in Keys, View(c, k) # Absent, Stamp(c, k, View(c, k))
      PROVE  StoreInv'
  <2>1. UNCHANGED <<disk, draft, writer, pending, undone, writes>>
    BY DEF ReadStep, tables
  <2>2. RowsInv' /\ LockInv' /\ PendingInv' /\ UndoneInv' /\ OrderInv'
    BY <1>1, <2>1 DEF StoreInv, RowsInv, RowInv, LockInv, PendingInv, UndoneInv, OrderInv
  <2>3. View(c, k) \in RowType
    BY <1>1, ViewType
  <2>4. ASSUME NEW x \in Clients, NEW y \in Versioned
        PROVE  Knows(x, y, inst'[x][y])
    <3>1. CASE inst'[x][y] = inst[x][y]
      BY <1>1, <3>1 DEF StoreInv, InstanceInv
    <3>2. CASE inst'[x][y] # inst[x][y]
      <4>1. x = c /\ y = k /\ inst'[x][y] = Hydrated(k, View(c, k))
        BY <1>1, <1>3, <2>3, <3>2, StampEffect, Constants
      <4>2. /\ Hydrated(k, View(c, k)) \in InstType
            /\ Hydrated(k, View(c, k)).wid = View(c, k).wid
            /\ Hydrated(k, View(c, k)).ver = View(c, k).ver
        BY <1>1, <1>3, <2>3, <4>1, StampEffect
      <4>3. Knows(c, k, Hydrated(k, View(c, k)))
        BY <1>3, <4>1, <4>2, SeenAgrees
      <4>4. QED
        BY <4>1, <4>3
    <3>3. QED
      BY <3>1, <3>2
  <2>5. ASSUME NEW x \in Clients, NEW y \in Versioned
        PROVE  KnowsNext(x, y, inst'[x][y])
    BY <2>1, <2>4 DEF Knows, KnowsNext
  <2>6. InstanceInv'
    BY <2>5, InstanceNext
  <2>7. QED
    BY <2>2, <2>6 DEF StoreInv
<1>4. QED
  BY <1>2, <1>3 DEF ReadStep

\* The stamp that a failed save leaves is of a write that counts as undone.
LEMMA FailedStore ==
    ASSUME IInv, NEW c \in Clients, NEW k \in Keys, SaveFails(c, k)
    PROVE  StoreInv'
<1>1. TypeOK /\ StoreInv
  BY DEF IInv, StoreInv
<1>2. /\ k \in Versioned /\ Matches(View(c, k), inst[c][k]) /\ Stamp(c, k, SavedRow(c, k))
      /\ writes' = [writes EXCEPT ![k] = @ + 1] /\ undone' = undone \cup {<<k, Fresh(k)>>}
      /\ UNCHANGED <<disk, draft, writer, pending>>
  BY <1>1, SaveFailsFacts DEF tables
<1>3. SavedRow(c, k) \in RowType /\ SavedRow(c, k).wid = Fresh(k)
  BY <1>1, <1>2, SavedRowFacts
<1>4. /\ Fresh(k) = writes[k] + 1
      /\ \A x \in Keys : /\ writes[x] \in Nat /\ writes'[x] = IF x = k THEN Fresh(k) ELSE writes[x]
                         /\ disk[x].wid \in Nat /\ draft[x].wid \in Nat
                         /\ disk[x].wid <= writes[x] /\ draft[x].wid <= writes[x]
                         /\ Url[x] \in Databases
  BY <1>1, <1>2, RowTypes, RowBounds DEF Fresh, TypeOK, StoreInv
<1>5. RowsInv'
  <2>1. ASSUME NEW x \in Keys
        PROVE  RowInv(x, disk[x])' /\ RowInv(x, draft[x])'
    <3>1. RowInv(x, disk[x]) /\ RowInv(x, draft[x])
      BY <1>1 DEF StoreInv, RowsInv
    <3>2. QED
      BY <1>2, <1>4, <3>1 DEF RowInv
  <2>2. QED
    BY <2>1 DEF RowsInv
<1>6. LockInv' /\ OrderInv'
  BY <1>1, <1>2 DEF StoreInv, LockInv, OrderInv
<1>7. \A d \in Databases : <<k, Fresh(k)>> \notin pending[d]
  BY <1>1, <1>4 DEF StoreInv, PendingInv
<1>8. PendingInv'
  <2>1. SUFFICES ASSUME NEW d \in Databases, NEW x \in Keys, NEW w \in Nat, <<x, w>> \in pending[d]
                 PROVE  Url[x] = d /\ disk[x].wid < w /\ w <= writes'[x] /\ <<x, w>> \notin undone'
    BY <1>2 DEF PendingInv
  <2>2. Url[x] = d /\ disk[x].wid < w /\ w <= writes[x] /\ <<x, w>> \notin undone
    BY <1>1, <2>1 DEF StoreInv, PendingInv
  <2>3. <<x, w>> # <<k, Fresh(k)>>
    BY <1>7, <2>1
  <2>4. w <= writes'[x]
    BY <1>4, <2>2
  <2>5. QED
    BY <1>2, <2>2, <2>3, <2>4
<1>9. UndoneInv'
  <2>1. SUFFICES ASSUME NEW x \in Keys, NEW w \in Nat, <<x, w>> \in undone'
                 PROVE  1 <= w /\ w <= writes'[x] /\ w # disk[x].wid /\ w # draft[x].wid
    BY <1>2 DEF UndoneInv
  <2>2. CASE <<x, w>> \in undone
    <3>1. 1 <= w /\ w <= writes[x] /\ w # disk[x].wid /\ w # draft[x].wid
      BY <1>1, <2>2 DEF StoreInv, UndoneInv
    <3>2. QED
      BY <1>4, <3>1
  <2>3. CASE <<x, w>> = <<k, Fresh(k)>>
    BY <1>4, <2>3
  <2>4. QED
    BY <1>2, <2>1, <2>2, <2>3
<1>10. ASSUME NEW x \in Clients, NEW y \in Versioned
       PROVE  KnowsNext(x, y, inst'[x][y])
  <2>1. CASE inst'[x][y] = inst[x][y]
    <3> DEFINE i == inst[x][y]
    <3>1. y \in Keys /\ i.wid \in Nat /\ Knows(x, y, i)
      BY <1>1, Constants, InstTypes DEF StoreInv, InstanceInv
    <3> HIDE DEF i
    <3>2. i.wid <= writes'[y]
      BY <1>4, <3>1 DEF Knows
    <3>3. KnowsNext(x, y, i)
      BY <1>2, <3>1, <3>2 DEF Knows, KnowsNext
    <3>4. QED
      BY <2>1, <3>3 DEF i
  <2>2. CASE inst'[x][y] # inst[x][y]
    <3>1. x = c /\ y = k /\ inst'[x][y] = Hydrated(k, SavedRow(c, k))
      BY <1>1, <1>2, <1>3, <2>2, StampEffect, Constants
    <3>2. inst'[x][y].wid = Fresh(k)
      BY <1>1, <1>2, <1>3, <3>1, StampEffect
    <3>3. <<k, Fresh(k)>> \notin pending'[Url[k]] /\ <<k, Fresh(k)>> \in undone'
      BY <1>2, <1>4, <1>7
    <3>4. Fresh(k) <= writes'[k]
      BY <1>4
    <3>5. QED
      BY <3>1, <3>2, <3>3, <3>4 DEF KnowsNext
  <2>3. QED
    BY <2>1, <2>2
<1>11. InstanceInv'
  BY <1>10, InstanceNext
<1>12. QED
  BY <1>5, <1>6, <1>8, <1>9, <1>11 DEF StoreInv

\* What a commit makes of the rows of the databases it releases.
Commits(c, mine) ==
    /\ \A d \in mine : writer[d] = c
    /\ \A d \in Databases : writer'[d] = IF d \in mine THEN Nobody ELSE writer[d]
    /\ \A d \in Databases : pending'[d] = IF d \in mine THEN {} ELSE pending[d]
    /\ \A k \in Keys : disk'[k] = IF Url[k] \in mine THEN draft[k] ELSE disk[k]
    /\ UNCHANGED <<draft, undone, inst, writes>>

LEMMA CommitEffect ==
    ASSUME TypeOK, NEW c \in Clients, Commit(c)
    PROVE  \E mine \in SUBSET Databases : Commits(c, mine)
<1>1. PICK last \in DOMAIN Top(c) :
        LET mine == {d \in {Top(c)[last]} : writer[d] = c} IN
        /\ Release(mine)
        /\ disk' = [k \in Keys |-> IF Url[k] \in mine THEN draft[k] ELSE disk[k]]
  BY DEF Commit
<1> DEFINE mine == {d \in {Top(c)[last]} : writer[d] = c}
<1>2. Top(c)[last] \in Databases
  BY TopFacts DEF Commit
<1>3. mine \in SUBSET Databases /\ \A d \in mine : writer[d] = c
  BY <1>2
<1>4. UNCHANGED <<draft, undone, inst, writes>>
  BY DEF Commit
<1>5. Release(mine) /\ disk' = [k \in Keys |-> IF Url[k] \in mine THEN draft[k] ELSE disk[k]]
  BY <1>1
<1> HIDE DEF mine
<1>6. Commits(c, mine)
  BY <1>3, <1>4, <1>5 DEF Commits, Release
<1>7. QED
  BY <1>3, <1>6

LEMMA CommitStore ==
    ASSUME IInv, NEW c \in Clients, NEW mine \in SUBSET Databases, Commits(c, mine)
    PROVE  StoreInv'
<1>1. TypeOK /\ StoreInv
  BY DEF IInv, StoreInv
<1>2. \A k \in Keys : /\ writes[k] \in Nat /\ Url[k] \in Databases
                      /\ disk[k].wid \in Nat /\ draft[k].wid \in Nat
  BY <1>1, RowTypes
<1>3. RowsInv'
  BY <1>1 DEF Commits, StoreInv, RowsInv, RowInv
<1>4. LockInv'
  <2>1. \A d \in Databases : writer'[d] = Nobody => pending'[d] = {}
    BY <1>1 DEF Commits, StoreInv, LockInv
  <2>2. \A k \in Keys : writer'[Url[k]] = Nobody => draft'[k] = disk'[k]
    BY <1>1, <1>2 DEF Commits, StoreInv, LockInv
  <2>3. \A k \in Keys : draft'[k] \in {disk'[k], Absent} \/ <<k, draft'[k].wid>> \in pending'[Url[k]]
    BY <1>1, <1>2 DEF Commits, StoreInv, LockInv
  <2>4. QED
    BY <2>1, <2>2, <2>3 DEF LockInv
<1>5. PendingInv'
  <2>1. SUFFICES ASSUME NEW d \in Databases, NEW k \in Keys, NEW w \in Nat, <<k, w>> \in pending'[d]
                 PROVE  Url[k] = d /\ disk'[k].wid < w /\ w <= writes[k] /\ <<k, w>> \notin undone
    BY DEF PendingInv, Commits
  <2>2. d \notin mine /\ <<k, w>> \in pending[d]
    BY <2>1 DEF Commits
  <2>3. Url[k] = d /\ disk[k].wid < w /\ w <= writes[k] /\ <<k, w>> \notin undone
    BY <1>1, <2>2 DEF StoreInv, PendingInv
  <2>4. QED
    BY <2>2, <2>3 DEF Commits
<1>6. UndoneInv'
  <2>1. SUFFICES ASSUME NEW k \in Keys, NEW w \in Nat, <<k, w>> \in undone
                 PROVE  1 <= w /\ w <= writes[k] /\ w # disk'[k].wid /\ w # draft[k].wid
    BY DEF UndoneInv, Commits
  <2>2. 1 <= w /\ w <= writes[k] /\ w # disk[k].wid /\ w # draft[k].wid
    BY <1>1, <2>1 DEF StoreInv, UndoneInv
  <2>3. QED
    BY <2>2 DEF Commits
<1>7. OrderInv'
  <2>1. ASSUME NEW k \in Versioned
        PROVE  Follows(draft'[k], disk'[k])
    <3>1. k \in Keys /\ Follows(draft[k], disk[k])
      BY <1>1, Constants DEF StoreInv, OrderInv
    <3>2. Follows(draft[k], draft[k])
      BY DEF Follows
    <3>3. QED
      BY <3>1, <3>2 DEF Commits
  <2>2. QED
    BY <2>1 DEF OrderInv
<1>8. ASSUME NEW x \in Clients, NEW k \in Versioned
      PROVE  KnowsNext(x, k, inst'[x][k])
  <2> DEFINE i == inst[x][k]
  <2>1. k \in Keys /\ Knows(x, k, i) /\ inst'[x][k] = i
    BY <1>1, Constants DEF StoreInv, InstanceInv, Commits
  <2> HIDE DEF i
  <2>2. CASE Url[k] \in mine
    <3>1. pending'[Url[k]] = {} /\ disk'[k] = draft[k]
      BY <1>2, <2>1, <2>2 DEF Commits
    <3>2. QED
      BY <2>1, <3>1 DEF Commits, Knows, KnowsNext
  <2>3. CASE Url[k] \notin mine
    <3>1. pending'[Url[k]] = pending[Url[k]] /\ writer'[Url[k]] = writer[Url[k]] /\ disk'[k] = disk[k]
      BY <1>2, <2>1, <2>3 DEF Commits
    <3>2. QED
      BY <2>1, <3>1 DEF Commits, Knows, KnowsNext
  <2>4. QED
    BY <2>2, <2>3
<1>9. QED
  BY <1>3, <1>4, <1>5, <1>6, <1>7, <1>8, InstanceNext DEF StoreInv

\* What a rollback makes of them.
Reverts(c, mine) ==
    /\ \A d \in mine : writer[d] = c
    /\ \A d \in Databases : writer'[d] = IF d \in mine THEN Nobody ELSE writer[d]
    /\ \A d \in Databases : pending'[d] = IF d \in mine THEN {} ELSE pending[d]
    /\ \A k \in Keys : draft'[k] = IF Url[k] \in mine THEN disk[k] ELSE draft[k]
    /\ \A p : p \in undone' <=> p \in undone \/ \E d \in mine : p \in pending[d]
    /\ UNCHANGED <<disk, inst, writes>>

LEMMA RollbackEffect ==
    ASSUME TypeOK, NEW c \in Clients, RollbackStep(c)
    PROVE  LET mine == {d \in Range(Top(c)) : writer[d] = c} IN
           mine \in SUBSET Databases /\ Reverts(c, mine)
<1> DEFINE mine == {d \in Range(Top(c)) : writer[d] = c}
<1>1. mine \in SUBSET Databases /\ \A d \in mine : writer[d] = c
  BY TopFacts DEF RollbackStep, Range
<1>2. /\ Release(mine)
      /\ draft' = [k \in Keys |-> IF Url[k] \in mine THEN disk[k] ELSE draft[k]]
      /\ undone' = undone \cup UNION {pending[d] : d \in mine}
      /\ UNCHANGED <<disk, inst, writes>>
  BY DEF RollbackStep, Rollback
<1> HIDE DEF mine
<1>3. \A p : p \in undone' <=> p \in undone \/ \E d \in mine : p \in pending[d]
  BY <1>2
<1>4. Reverts(c, mine)
  BY <1>1, <1>2, <1>3 DEF Reverts, Release
<1>5. QED
  BY <1>1, <1>4 DEF mine

LEMMA RollbackStore ==
    ASSUME IInv, NEW c \in Clients, NEW mine \in SUBSET Databases, Reverts(c, mine)
    PROVE  StoreInv'
<1>1. TypeOK /\ StoreInv
  BY DEF IInv, StoreInv
<1>2. \A k \in Keys : /\ writes[k] \in Nat /\ Url[k] \in Databases
                      /\ disk[k].wid \in Nat /\ draft[k].wid \in Nat
  BY <1>1, RowTypes
<1>3. RowsInv'
  BY <1>1 DEF Reverts, StoreInv, RowsInv, RowInv
<1>4. LockInv'
  <2>1. \A d \in Databases : writer'[d] = Nobody => pending'[d] = {}
    BY <1>1 DEF Reverts, StoreInv, LockInv
  <2>2. \A k \in Keys : writer'[Url[k]] = Nobody => draft'[k] = disk'[k]
    BY <1>1, <1>2 DEF Reverts, StoreInv, LockInv
  <2>3. \A k \in Keys : draft'[k] \in {disk'[k], Absent} \/ <<k, draft'[k].wid>> \in pending'[Url[k]]
    BY <1>1, <1>2 DEF Reverts, StoreInv, LockInv
  <2>4. QED
    BY <2>1, <2>2, <2>3 DEF LockInv
<1>5. PendingInv'
  <2>1. SUFFICES ASSUME NEW d \in Databases, NEW k \in Keys, NEW w \in Nat, <<k, w>> \in pending'[d]
                 PROVE  Url[k] = d /\ disk[k].wid < w /\ w <= writes[k] /\ <<k, w>> \notin undone'
    BY DEF PendingInv, Reverts
  <2>2. d \notin mine /\ <<k, w>> \in pending[d]
    BY <2>1 DEF Reverts
  <2>3. Url[k] = d /\ disk[k].wid < w /\ w <= writes[k] /\ <<k, w>> \notin undone
    BY <1>1, <2>2 DEF StoreInv, PendingInv
  <2>4. ASSUME NEW e \in mine, <<k, w>> \in pending[e]
        PROVE  FALSE
    BY <1>1, <2>2, <2>3, <2>4 DEF StoreInv, PendingInv
  <2>5. QED
    BY <2>3, <2>4 DEF Reverts
<1>6. UndoneInv'
  <2>1. SUFFICES ASSUME NEW k \in Keys, NEW w \in Nat, <<k, w>> \in undone'
                 PROVE  1 <= w /\ w <= writes[k] /\ w # disk[k].wid /\ w # draft'[k].wid
    BY DEF UndoneInv, Reverts
  <2>2. CASE <<k, w>> \in undone
    <3>1. 1 <= w /\ w <= writes[k] /\ w # disk[k].wid /\ w # draft[k].wid
      BY <1>1, <2>2 DEF StoreInv, UndoneInv
    <3>2. QED
      BY <3>1 DEF Reverts
  <2>3. CASE \E d \in mine : <<k, w>> \in pending[d]
    <3>1. PICK d \in mine : <<k, w>> \in pending[d]
      BY <2>3
    <3>2. Url[k] = d /\ disk[k].wid < w /\ w <= writes[k]
      BY <1>1, <3>1 DEF StoreInv, PendingInv
    <3>3. draft'[k] = disk[k]
      BY <3>1, <3>2 DEF Reverts
    <3>4. QED
      BY <1>2, <3>2, <3>3
  <2>4. QED
    BY <2>1, <2>2, <2>3 DEF Reverts
<1>7. OrderInv'
  <2>1. ASSUME NEW k \in Versioned
        PROVE  Follows(draft'[k], disk'[k])
    <3>1. k \in Keys /\ Follows(draft[k], disk[k])
      BY <1>1, Constants DEF StoreInv, OrderInv
    <3>2. Follows(disk[k], disk[k])
      BY DEF Follows
    <3>3. QED
      BY <3>1, <3>2 DEF Reverts
  <2>2. QED
    BY <2>1 DEF OrderInv
<1>8. ASSUME NEW x \in Clients, NEW k \in Versioned
      PROVE  KnowsNext(x, k, inst'[x][k])
  <2> DEFINE i == inst[x][k]
  <2>1. k \in Keys /\ Knows(x, k, i) /\ inst'[x][k] = i
    BY <1>1, Constants DEF StoreInv, InstanceInv, Reverts
  <2> HIDE DEF i
  <2>2. CASE Url[k] \in mine
    <3>1. pending'[Url[k]] = {} /\ draft'[k] = disk[k] /\ disk' = disk
      BY <1>2, <2>1, <2>2 DEF Reverts
    <3>2. <<k, i.wid>> \in undone \cup pending[Url[k]] => <<k, i.wid>> \in undone'
      BY <2>2 DEF Reverts
    <3>3. QED
      BY <2>1, <3>1, <3>2 DEF Reverts, Knows, KnowsNext
  <2>3. CASE Url[k] \notin mine
    <3>1. /\ pending'[Url[k]] = pending[Url[k]] /\ writer'[Url[k]] = writer[Url[k]]
          /\ draft'[k] = draft[k] /\ disk' = disk
      BY <1>2, <2>1, <2>3 DEF Reverts
    <3>2. <<k, i.wid>> \in undone => <<k, i.wid>> \in undone'
      BY DEF Reverts
    <3>3. QED
      BY <2>1, <3>1, <3>2 DEF Reverts, Knows, KnowsNext
  <2>4. QED
    BY <2>2, <2>3
<1>9. QED
  BY <1>3, <1>4, <1>5, <1>6, <1>7, <1>8, InstanceNext DEF StoreInv

LEMMA StoreStep ==
    ASSUME IInv, Next
    PROVE  StoreInv'
<1>1. StoreInv /\ TypeOK
  BY DEF IInv, StoreInv
<1>2. ASSUME NEW c \in Clients, NEW k \in Keys, NEW row \in RowType, WriteStep(c, k, row)
      PROVE  StoreInv'
  BY <1>2, WriteRows, WriteLocks, WriteOrder, WriteIdsInv, WriteInstances DEF StoreInv
<1>3. ASSUME NEW c \in Clients, EnterStep(c) \/ Leave(c)
      PROVE  StoreInv'
  BY <1>1, <1>3, SameStore DEF EnterStep, Leave
<1>4. ASSUME NEW c \in Clients, RollbackStep(c)
      PROVE  StoreInv'
  BY <1>1, <1>4, RollbackEffect, RollbackStore
<1>5. ASSUME NEW c \in Clients, Commit(c)
      PROVE  StoreInv'
  BY <1>1, <1>5, CommitEffect, CommitStore
<1>6. QED
  BY <1>2, <1>3, <1>4, <1>5, Kinds, ReadStore, FailedStore

-----------------------------------------------------------------------------
(* The calls and the units of work.                                        *)

LEMMA CommitScopes ==
    ASSUME TypeOK, NEW c \in Clients, Commit(c)
    PROVE  /\ scopes[c] # <<>> /\ scopes'[c] # <<>> /\ Len(scopes'[c]) = Len(scopes[c])
           /\ Len(scopes[c]) \in Nat \ {0}
           /\ \A x \in Clients \ {c} : scopes'[x] = scopes[x]
<1>1. PICK last \in DOMAIN Top(c) : SetTop(c, Restrict(Top(c), DOMAIN Top(c) \ {last}))
  BY DEF Commit
<1> DEFINE rest == Restrict(Top(c), DOMAIN Top(c) \ {last})
<1>2. scopes[c] # <<>> /\ rest \in Blocks
  BY CommitRest DEF Commit
<1>3. /\ Len(scopes'[c]) = Len(scopes[c]) /\ scopes' \in [Clients -> Seq(Blocks)]
      /\ \A x \in Clients \ {c} : scopes'[x] = scopes[x]
  BY <1>1, <1>2, SetTopScopes
<1>4. Len(scopes[c]) \in Nat \ {0}
  BY <1>2, TopFacts
<1>5. scopes'[c] # <<>>
  BY <1>3, <1>4, EmptySeq
<1>6. QED
  BY <1>2, <1>3, <1>4, <1>5

LEMMA CallStep ==
    ASSUME IInv, Next
    PROVE  CallInv'
<1>1. TypeOK /\ CallInv /\ call \in [Clients -> CallType]
  BY TypeParts DEF IInv, HeldOK
<1>2. ASSUME NEW c \in Clients, NEW k \in Keys, NEW row \in RowType, WriteStep(c, k, row)
      PROVE  CallInv'
  BY <1>1, <1>2 DEF WriteStep, CallInv, Batching, Idle, Exiting, Quiet
<1>3. ASSUME NEW c \in Clients, ReadStep(c)
      PROVE  CallInv'
  BY <1>1, <1>3 DEF ReadStep, CallInv
<1>4. ASSUME NEW c \in Clients, NEW k \in Keys, SaveFails(c, k)
      PROVE  CallInv'
  BY <1>1, <1>4 DEF SaveFails, CallInv, Exiting
<1>5. ASSUME NEW c \in Clients, EnterStep(c)
      PROVE  CallInv'
  <2>1. scopes'[c] # <<>> /\ \A x \in Clients \ {c} : scopes'[x] = scopes[x]
    BY <1>1, <1>5, EnterScopes, OpeningFacts, StoreAssumption DEF EnterStep
  <2>2. QED
    BY <1>1, <1>5, <2>1 DEF EnterStep, CallInv, Exiting
<1>6. ASSUME NEW c \in Clients, Leave(c)
      PROVE  CallInv'
  <2>1. /\ \A x \in Clients \ {c} : scopes'[x] = scopes[x] /\ call'[x] = call[x]
        /\ call'[c] = Idle
    BY <1>1, <1>6, LeaveScopes DEF Leave
  <2>2. QED
    <3>1. SUFFICES ASSUME NEW x \in Clients
                   PROVE  /\ call'[x].op \in {"exit", "bulk_create", "bulk_upsert"} => scopes'[x] # <<>>
                          /\ call'[x].op = "exit" => call'[x] = Exiting
      BY DEF CallInv, Exiting
    <3>2. CASE x = c
      BY <2>1, <3>2 DEF Idle
    <3>3. CASE x # c
      BY <1>1, <2>1, <3>3 DEF CallInv
    <3>4. QED
      BY <3>2, <3>3
<1>7. ASSUME NEW c \in Clients, Commit(c) \/ RollbackStep(c)
      PROVE  CallInv'
  <2>1. scopes'[c] # <<>> /\ \A x \in Clients \ {c} : scopes'[x] = scopes[x]
    BY <1>1, <1>7, CommitScopes, RollbackType DEF RollbackStep
  <2>2. call'[c] = Exiting /\ \A x \in Clients \ {c} : call'[x] = call[x]
    BY <1>1, <1>7 DEF Commit, RollbackStep
  <2>3. QED
    BY <1>1, <2>1, <2>2 DEF CallInv, Exiting
<1>8. QED
  BY <1>2, <1>3, <1>4, <1>5, <1>6, <1>7, Kinds

\* Ids as the units hold them.
LEMMA IdFacts ==
    ASSUME TypeOK, NEW c \in Clients
    PROVE  /\ unit[c] \subseteq WriteIds /\ undone \subseteq WriteIds
           /\ \A p \in WriteIds : \E k \in Keys, w \in Nat : p = <<k, w>>
BY DEF TypeOK, WriteIds

LEMMA WriteUnits ==
    ASSUME IInv, NEW c \in Clients, NEW k \in Keys, NEW row \in RowType, WriteStep(c, k, row)
    PROVE  UnitInv'
<1>1. TypeOK /\ PendingInv /\ UndoneInv /\ UnitInv
  BY DEF IInv
<1>2. Effect(c, k, row)
  BY WriteEffect
<1>3. /\ writes[k] \in Nat /\ Fresh(k) = writes[k] + 1 /\ Fresh(k) \in Nat
      /\ UNCHANGED <<undone, scopes, torn>>
      /\ \A x \in Keys : writes[x] \in Nat /\ (writes'[x] = writes[x] \/ writes'[x] = writes[x] + 1)
  BY <1>1, <1>2, RowTypes DEF Effect
<1>4. /\ <<k, Fresh(k)>> \notin undone /\ \A d \in Databases : <<k, Fresh(k)>> \notin pending[d]
      /\ \A x \in Clients : <<k, Fresh(k)>> \notin unit[x]
  BY <1>1, <1>3 DEF UndoneInv, PendingInv, UnitInv, Unit
<1>5. call[c] # Exiting /\ call' \in [Clients -> CallType] /\ \A x \in Clients \ {c} : call'[x] = call[x]
  BY DEF WriteStep, Exiting
<1>6. \A x \in Clients : \A p \in unit[x] : p \in unit'[x]
  BY WriteEffect DEF Joined, Alone
<1>7. ASSUME NEW x \in Clients, NEW y \in Keys, NEW w \in Nat, <<y, w>> \in unit'[x]
      PROVE  w <= writes'[y]
  <2>1. CASE <<y, w>> \in unit[x]
    <3>1. w <= writes[y]
      BY <1>1, <2>1 DEF UnitInv, Unit
    <3>2. QED
      BY <1>3, <3>1
  <2>2. CASE <<y, w>> \notin unit[x]
    <3>1. y = k /\ w = Fresh(k)
      BY <1>7, <2>2, WriteEffect DEF Joined, Alone
    <3>2. QED
      BY <1>2, <1>3, <3>1 DEF Effect
  <2>3. QED
    BY <2>1, <2>2
<1>8. CASE Joined(c, k)
  <2>1. ASSUME NEW x \in Clients, NEW d \in Databases, writer'[d] # x
        PROVE  unit'[x] \cap pending'[d] = {}
    <3>1. CASE x = c
      <4>1. d # Url[k] /\ pending'[d] = pending[d] /\ writer[d] # c
        BY <1>8, <2>1, <3>1 DEF Joined
      <4>2. unit[c] \cap pending[d] = {} /\ unit'[c] = unit[c] \cup {<<k, Fresh(k)>>}
        BY <1>1, <1>8, <4>1 DEF Joined, UnitInv, Unit
      <4>3. QED
        BY <1>4, <3>1, <4>1, <4>2
    <3>2. CASE x # c
      <4>1. unit'[x] = unit[x] /\ writer[d] # x
        <5>1. unit'[x] = unit[x]
          BY <1>8, <3>2 DEF Joined
        <5>2. writer[d] # x
          <6>1. x # Nobody
            BY Constants
          <6>2. QED
            BY <1>2, <1>8, <2>1, <3>2, <6>1 DEF Joined, Effect
        <5>3. QED
          BY <5>1, <5>2
      <4>2. unit[x] \cap pending[d] = {}
        BY <1>1, <4>1 DEF UnitInv, Unit
      <4>3. pending'[d] \subseteq pending[d] \cup {<<k, Fresh(k)>>}
        BY <1>8 DEF Joined
      <4>4. QED
        BY <1>4, <4>1, <4>2, <4>3
    <3>3. QED
      BY <3>1, <3>2
  <2>2. ASSUME NEW x \in Clients, scopes[x] = <<>>
        PROVE  unit'[x] = {} /\ ~torn[x]
    <3>1. unit[x] = {} /\ ~torn[x]
      BY <1>1, <2>2 DEF UnitInv, Unit
    <3>2. x # c
      <4>1. Url[k] \in Open(c)
        BY <1>8 DEF Joined
      <4>2. QED
        BY <1>1, <2>2, <4>1, OpenFacts, EmptySeq
    <3>3. QED
      BY <1>8, <3>1, <3>2 DEF Joined
  <2>3. ASSUME NEW x \in Clients, scopes[x] # <<>>, ~torn[x]
        PROVE  Whole(x)'
    <3>1. Whole(x)
      BY <1>1, <2>3 DEF UnitInv, Unit
    <3>2. CASE x = c
      <4>1. unit[c] \cap undone = {} /\ unit[c] \subseteq Pendings(c)
        BY <1>5, <3>1, <3>2 DEF Whole
      <4>2. unit'[c] = unit[c] \cup {<<k, Fresh(k)>>}
        BY <1>8 DEF Joined
      <4>3. unit'[c] \cap undone' = {}
        BY <1>3, <1>4, <4>1, <4>2
      <4>4. \A p \in Pendings(c) : p \in Pendings(c)'
        <5>1. \A d \in Databases : writer[d] = c => writer'[d] = c /\ pending[d] \subseteq pending'[d]
          BY <1>8 DEF Joined
        <5>2. QED
          BY <5>1 DEF Pendings
      <4>5. <<k, Fresh(k)>> \in Pendings(c)'
        BY <1>2, <1>8 DEF Joined, Pendings, Effect
      <4>6. unit'[c] \subseteq Pendings(c)'
        BY <4>1, <4>2, <4>4, <4>5
      <4>7. QED
        BY <3>2, <4>3, <4>6 DEF Whole
    <3>3. CASE x # c
      <4>1. unit'[x] = unit[x] /\ call'[x] = call[x] /\ scopes'[x] = scopes[x] /\ undone' = undone
        BY <1>3, <1>5, <1>8, <3>3 DEF Joined
      <4>2. \A d \in Databases : writer[d] = x => writer'[d] = x /\ pending'[d] = pending[d]
        <5>1. x # Nobody
          BY Constants
        <5>2. QED
          BY <1>2, <1>8, <3>3, <5>1 DEF Joined, Effect
      <4>3. \A p \in Pendings(x) : p \in Pendings(x)'
        BY <4>2 DEF Pendings
      <4>4. Closed(x)' = Closed(x)
        BY <4>1 DEF Closed, Top
      <4>5. QED
        BY <3>1, <4>1, <4>3, <4>4 DEF Whole
    <3>4. QED
      BY <3>2, <3>3
  <2>4. QED
    BY <1>3, <1>7, <2>1, <2>2, <2>3 DEF UnitInv, Unit
<1>9. CASE Alone(k, row)
  <2>1. UNCHANGED <<writer, pending, unit, undone, scopes, torn>>
    BY <1>3, <1>9 DEF Alone
  <2>2. ASSUME NEW x \in Clients, Whole(x)
        PROVE  Whole(x)'
    <3>1. CASE x = c
      <4>1. unit[c] \cap undone = {} /\ unit[c] \subseteq Pendings(c)
        BY <1>5, <2>2, <3>1 DEF Whole
      <4>2. QED
        BY <2>1, <3>1, <4>1 DEF Whole, Pendings
    <3>2. CASE x # c
      BY <1>5, <2>1, <2>2, <3>2 DEF Whole, Pendings, Closed, Top
    <3>3. QED
      BY <3>1, <3>2
  <2>3. QED
    BY <1>1, <1>7, <2>1, <2>2 DEF UnitInv, Unit
<1>10. QED
  BY <1>8, <1>9, WriteEffect

\* A step that leaves the units, the tables and the blocks alone.
LEMMA SameUnits ==
    ASSUME TypeOK, UnitInv, NEW c \in Clients,
           UNCHANGED <<scopes, unit, torn, tables, undone, writes>>,
           call[c].op # "exit", \A x \in Clients \ {c} : call'[x] = call[x]
    PROVE  UnitInv'
<1>1. UNCHANGED <<writer, pending>> /\ call[c] # Exiting
  BY DEF tables, Exiting
<1>2. ASSUME NEW x \in Clients, Whole(x)
      PROVE  Whole(x)'
  <2>1. CASE x = c
    <3>1. unit[c] \cap undone = {} /\ unit[c] \subseteq Pendings(c)
      BY <1>1, <1>2, <2>1 DEF Whole
    <3>2. QED
      BY <1>1, <2>1, <3>1 DEF Whole, Pendings
  <2>2. CASE x # c
    BY <1>1, <1>2, <2>2 DEF Whole, Pendings, Closed, Top
  <2>3. QED
    BY <2>1, <2>2
<1>3. QED
  BY <1>1, <1>2 DEF UnitInv, Unit

LEMMA EnterUnits ==
    ASSUME IInv, NEW c \in Clients, EnterStep(c)
    PROVE  UnitInv'
<1>1. TypeOK /\ UnitInv /\ call[c] = Idle
  BY DEF IInv, EnterStep
<1>2. scopes'[c] # <<>> /\ \A x \in Clients \ {c} : scopes'[x] = scopes[x] /\ call'[x] = call[x]
  BY <1>1, EnterScopes, OpeningFacts, StoreAssumption DEF EnterStep
<1>3. UNCHANGED <<writer, pending, undone, unit, torn, writes>>
  BY DEF EnterStep, tables
<1>4. ASSUME ~torn[c]
      PROVE  Whole(c)'
  <2>1. unit[c] \cap undone = {} /\ unit[c] \subseteq Pendings(c)
    <3>1. CASE scopes[c] = <<>>
      BY <1>1, <3>1 DEF UnitInv, Unit
    <3>2. CASE scopes[c] # <<>>
      <4>1. Whole(c) /\ call[c] # Exiting
        BY <1>1, <1>4, <3>2 DEF UnitInv, Unit, Idle, Exiting
      <4>2. QED
        BY <4>1 DEF Whole
    <3>3. QED
      BY <3>1, <3>2
  <2>2. QED
    BY <1>3, <2>1 DEF Whole, Pendings
<1>5. ASSUME NEW x \in Clients \ {c}, Whole(x)
      PROVE  Whole(x)'
  BY <1>2, <1>3, <1>5 DEF Whole, Pendings, Closed, Top
<1>6. QED
  BY <1>1, <1>2, <1>3, <1>4, <1>5 DEF UnitInv, Unit

LEMMA LeaveUnits ==
    ASSUME IInv, NEW c \in Clients, Leave(c)
    PROVE  UnitInv'
<1>1. TypeOK /\ UnitInv /\ scopes[c] # <<>> /\ Closed(c)
  BY DEF IInv, Leave
<1>2. /\ scopes' \in [Clients -> Seq(Blocks)] /\ Len(scopes'[c]) = Len(scopes[c]) - 1
      /\ \A x \in Clients \ {c} : scopes'[x] = scopes[x] /\ call'[x] = call[x]
      /\ call'[c] = Idle /\ Len(scopes[c]) \in Nat \ {0}
  BY <1>1, LeaveScopes, TopFacts DEF Leave, TypeOK
<1>3. UNCHANGED <<writer, pending, undone, writes>>
  BY DEF Leave, tables
<1>4. \A x \in Clients \ {c} : unit'[x] = unit[x] /\ torn'[x] = torn[x]
  BY <1>1 DEF Leave, TypeOK
<1>5. CASE Len(scopes[c]) = 1
  <2>1. unit'[c] = {} /\ torn'[c] = FALSE
    BY <1>1, <1>5 DEF Leave, TypeOK
  <2>2. scopes'[c] = <<>>
    BY <1>2, <1>5, EmptySeq
  <2>3. Unit(c)'
    BY <2>1, <2>2 DEF Unit
  <2>4. \A x \in Clients \ {c} : Unit(x)'
    BY <1>1, <1>2, <1>3, <1>4 DEF UnitInv, Unit, Whole, Pendings, Closed, Top
  <2>5. QED
    BY <2>3, <2>4 DEF UnitInv
<1>6. CASE Len(scopes[c]) # 1
  <2>1. unit' = unit /\ torn' = torn
    BY <1>6 DEF Leave
  <2>2. scopes'[c] # <<>> /\ Len(scopes[c]) > 1
    <3>1. Len(scopes[c]) > 1 /\ Len(scopes'[c]) # 0
      <4> DEFINE n == Len(scopes[c])
      <4>1. n \in Nat \ {0} /\ Len(scopes'[c]) = n - 1 /\ n # 1
        BY <1>2, <1>6
      <4> HIDE DEF n
      <4>2. n > 1 /\ Len(scopes'[c]) # 0
        BY <4>1
      <4>3. QED
        BY <4>2 DEF n
    <3>2. QED
      BY <3>1
  <2>3. Unit(c)'
    <3>1. ASSUME ~torn[c]
          PROVE  Whole(c)'
      <4>1. unit[c] \cap undone = {} /\ unit[c] \subseteq Pendings(c)
        <5>1. Whole(c)
          BY <1>1, <3>1 DEF UnitInv, Unit
        <5>2. Len(scopes[c]) # 1
          BY <1>6
        <5>3. QED
          BY <2>2, <5>1, <5>2 DEF Whole
      <4>2. QED
        BY <1>3, <2>1, <4>1 DEF Whole, Pendings
    <3>2. QED
      BY <1>1, <1>3, <2>1, <2>2, <3>1 DEF UnitInv, Unit
  <2>4. \A x \in Clients \ {c} : Unit(x)'
    BY <1>1, <1>2, <1>3, <1>4 DEF UnitInv, Unit, Whole, Pendings, Closed, Top
  <2>5. QED
    BY <2>3, <2>4 DEF UnitInv
<1>7. QED
  BY <1>5, <1>6

LEMMA CommitUnits ==
    ASSUME IInv, NEW c \in Clients, Commit(c)
    PROVE  UnitInv'
<1>1. TypeOK /\ UnitInv
  BY DEF IInv
<1>2. PICK mine \in SUBSET Databases : Commits(c, mine)
  BY <1>1, CommitEffect
<1>3. /\ scopes[c] # <<>> /\ scopes'[c] # <<>> /\ Len(scopes'[c]) = Len(scopes[c])
      /\ Len(scopes[c]) \in Nat \ {0}
      /\ \A x \in Clients \ {c} : scopes'[x] = scopes[x]
  BY <1>1, CommitScopes
<1>4. /\ call'[c] = Exiting /\ \A x \in Clients \ {c} : call'[x] = call[x]
      /\ torn'[c] = (torn[c] \/ Len(scopes[c]) > 1)
      /\ \A x \in Clients \ {c} : torn'[x] = torn[x]
      /\ unit' = unit /\ ~Closed(c)
  BY <1>1 DEF Commit, TypeOK
<1>5. ASSUME NEW x \in Clients, NEW d \in Databases, writer'[d] # x
      PROVE  unit[x] \cap pending'[d] = {}
  <2>1. CASE d \in mine
    BY <1>2, <2>1 DEF Commits
  <2>2. CASE d \notin mine
    BY <1>1, <1>2, <1>5, <2>2 DEF Commits, UnitInv, Unit
  <2>3. QED
    BY <2>1, <2>2
<1>6. ASSUME ~torn'[c]
      PROVE  Whole(c)'
  <2>1. ~torn[c] /\ ~(Len(scopes[c]) > 1)
    BY <1>4, <1>6
  <2>2. unit[c] \cap undone = {}
    BY <1>1, <1>3, <1>4, <2>1 DEF UnitInv, Unit, Whole
  <2>3. unit'[c] \cap undone' = {} /\ call'[c] = Exiting /\ ~(Len(scopes'[c]) > 1)
    BY <1>2, <1>3, <1>4, <2>1, <2>2 DEF Commits
  <2>4. QED
    BY <2>3 DEF Whole, Exiting
<1>7. ASSUME NEW x \in Clients \ {c}, Whole(x)
      PROVE  Whole(x)'
  <2>1. \A d \in Databases : writer[d] = x => writer'[d] = x /\ pending'[d] = pending[d]
    BY <1>2 DEF Commits
  <2>2. \A p \in Pendings(x) : p \in Pendings(x)'
    BY <2>1 DEF Pendings
  <2>3. unit'[x] = unit[x] /\ scopes'[x] = scopes[x] /\ call'[x] = call[x] /\ undone' = undone
    BY <1>2, <1>3, <1>4 DEF Commits
  <2>4. Closed(x)' = Closed(x)
    BY <2>3 DEF Closed, Top
  <2>5. QED
    BY <1>7, <2>2, <2>3, <2>4 DEF Whole
<1>8. ASSUME NEW x \in Clients
      PROVE  Unit(x)'
  <2>1. writes' = writes
    BY <1>2 DEF Commits
  <2>2. CASE x = c
    BY <1>1, <1>3, <1>4, <1>5, <1>6, <2>1, <2>2 DEF UnitInv, Unit
  <2>3. CASE x # c
    BY <1>1, <1>3, <1>4, <1>5, <1>7, <2>1, <2>3 DEF UnitInv, Unit
  <2>4. QED
    BY <2>2, <2>3
<1>9. QED
  BY <1>8 DEF UnitInv

LEMMA RollbackUnits ==
    ASSUME IInv, NEW c \in Clients, RollbackStep(c)
    PROVE  UnitInv'
<1> DEFINE mine == {d \in Range(Top(c)) : writer[d] = c}
<1>1. TypeOK /\ UnitInv
  BY DEF IInv
<1>2. mine \in SUBSET Databases /\ Reverts(c, mine)
  BY <1>1, RollbackEffect
<1>3. /\ scopes[c] # <<>> /\ scopes'[c] # <<>> /\ Len(scopes'[c]) = Len(scopes[c])
      /\ \A x \in Clients \ {c} : scopes'[x] = scopes[x]
      /\ Closed(c)'
  BY <1>1, RollbackType DEF RollbackStep, Closed
<1>4. /\ call'[c] = Exiting /\ \A x \in Clients \ {c} : call'[x] = call[x]
      /\ torn'[c] = (torn[c] \/ call[c] = Exiting \/ Len(scopes[c]) > 1)
      /\ \A x \in Clients \ {c} : torn'[x] = torn[x]
      /\ unit' = unit
  BY <1>1 DEF RollbackStep, TypeOK
<1>5. Len(scopes[c]) \in Nat \ {0}
  BY <1>1, <1>3, TopFacts
<1>6. ASSUME ~torn'[c]
      PROVE  Whole(c)'
  <2>1. ~torn[c] /\ call[c] # Exiting /\ Len(scopes[c]) = 1
    <3>1. ~torn[c] /\ call[c] # Exiting /\ ~(Len(scopes[c]) > 1)
      BY <1>4, <1>6, Zenon
    <3>2. Len(scopes[c]) = 1
      <4> DEFINE n == Len(scopes[c])
      <4>1. n \in Nat \ {0} /\ ~(n > 1)
        BY <1>5, <3>1
      <4> HIDE DEF n
      <4>2. n = 1
        BY <4>1
      <4>3. QED
        BY <4>2 DEF n
    <3>3. QED
      BY <3>1, <3>2, Zenon
  <2>2. unit[c] \subseteq Pendings(c)
    BY <1>1, <1>3, <2>1 DEF UnitInv, Unit, Whole
  <2>3. ASSUME NEW d \in Databases, writer[d] = c
        PROVE  d \in mine
    <3>1. d \in Open(c)
      BY <1>1, <2>3, Constants DEF TypeOK
    <3>2. d \in Range(Top(c))
      BY <2>1, <3>1 DEF Open, Top
    <3>3. QED
      BY <2>3, <3>2
  <2>4. unit[c] \subseteq undone'
    BY <1>2, <2>2, <2>3 DEF Reverts, Pendings
  <2>5. QED
    BY <1>3, <1>4, <2>1, <2>4 DEF Whole, Exiting
<1> HIDE DEF mine
<1>7. ASSUME NEW x \in Clients, NEW d \in Databases, writer'[d] # x
      PROVE  unit[x] \cap pending'[d] = {}
  <2>1. CASE d \in mine
    BY <1>2, <2>1 DEF Reverts
  <2>2. CASE d \notin mine
    BY <1>1, <1>2, <1>7, <2>2 DEF Reverts, UnitInv, Unit
  <2>3. QED
    BY <2>1, <2>2
<1>8. ASSUME NEW x \in Clients \ {c}, Whole(x)
      PROVE  Whole(x)'
  <2>1. \A d \in Databases : writer[d] = x => writer'[d] = x /\ pending'[d] = pending[d]
    BY <1>2 DEF Reverts
  <2>2. \A p \in Pendings(x) : p \in Pendings(x)'
    BY <2>1 DEF Pendings
  <2>3. unit'[x] = unit[x] /\ scopes'[x] = scopes[x] /\ call'[x] = call[x]
    BY <1>3, <1>4
  <2>4. Closed(x)' = Closed(x)
    BY <2>3 DEF Closed, Top
  <2>5. ASSUME NEW d \in mine
        PROVE  unit[x] \cap pending[d] = {}
    BY <1>1, <1>2 DEF UnitInv, Unit, Reverts
  <2>6. ASSUME NEW p \in unit[x], p \in undone'
        PROVE  p \in undone
    BY <1>2, <2>5, <2>6 DEF Reverts
  <2>7. undone \subseteq undone'
    BY <1>2 DEF Reverts
  <2>8. QED
    BY <1>8, <2>2, <2>3, <2>4, <2>6, <2>7 DEF Whole
<1>9. ASSUME NEW x \in Clients
      PROVE  Unit(x)'
  <2>1. writes' = writes
    BY <1>2 DEF Reverts
  <2>2. CASE x = c
    BY <1>1, <1>3, <1>4, <1>6, <1>7, <2>1, <2>2 DEF UnitInv, Unit
  <2>3. CASE x # c
    BY <1>1, <1>3, <1>4, <1>7, <1>8, <2>1, <2>3 DEF UnitInv, Unit
  <2>4. QED
    BY <2>2, <2>3
<1>10. QED
  BY <1>9 DEF UnitInv

\* A failed save undoes a write that no unit holds.
LEMMA FailedUnits ==
    ASSUME IInv, NEW c \in Clients, NEW k \in Keys, SaveFails(c, k)
    PROVE  UnitInv'
<1>1. TypeOK /\ UnitInv /\ call[c] # Exiting
  BY DEF IInv, SaveFails, Idle, Exiting
<1>2. /\ undone' = undone \cup {<<k, Fresh(k)>>} /\ writes' = [writes EXCEPT ![k] = @ + 1]
      /\ UNCHANGED <<writer, pending, scopes, call, unit, torn>>
  BY <1>1, SaveFailsFacts DEF tables
<1>3. Fresh(k) \in Nat /\ Fresh(k) = writes[k] + 1 /\ \A x \in Keys : writes[x] \in Nat
  BY <1>1, RowTypes, WritingFacts
<1>4. \A x \in Clients : <<k, Fresh(k)>> \notin unit[x]
  BY <1>1, <1>3 DEF UnitInv, Unit
<1>5. \A x \in Keys : writes'[x] = writes[x] \/ writes'[x] = writes[x] + 1
  BY <1>1, <1>2 DEF TypeOK
<1>6. ASSUME NEW x \in Clients, Whole(x)
      PROVE  Whole(x)'
  <2>1. unit[x] \cap undone = {} => unit[x] \cap undone' = {}
    BY <1>2, <1>4
  <2>2. QED
    BY <1>2, <1>6, <2>1 DEF Whole, Pendings, Closed, Top
<1>7. ASSUME NEW x \in Clients, NEW y \in Keys, NEW w \in Nat, <<y, w>> \in unit[x]
      PROVE  w <= writes'[y]
  <2>1. w <= writes[y]
    BY <1>1, <1>7 DEF UnitInv, Unit
  <2>2. QED
    BY <1>3, <1>5, <2>1
<1>8. QED
  BY <1>1, <1>2, <1>6, <1>7 DEF UnitInv, Unit

LEMMA UnitStep ==
    ASSUME IInv, Next
    PROVE  UnitInv'
<1>1. TypeOK /\ UnitInv
  BY DEF IInv
<1>2. ASSUME NEW c \in Clients, ReadStep(c)
      PROVE  UnitInv'
  BY <1>1, <1>2, SameUnits DEF ReadStep
<1>3. QED
  BY <1>2, Kinds, WriteUnits, FailedUnits, EnterUnits, LeaveUnits, CommitUnits, RollbackUnits

-----------------------------------------------------------------------------
(* Deleted rows and the claims of get_or_create.                           *)

LEMMA DeletedNext ==
    ASSUME gone \subseteq gone',
           \A k \in Keys :
              /\ disk'[k].deleted => k \in gone'
              /\ draft'[k].deleted => k \in gone'
              /\ \A c \in Clients : inst'[c][k].deleted => k \in gone'
              /\ draft'[k] = Absent /\ disk'[k] # Absent => k \in gone'
    PROVE  DeletedInv'
BY DEF DeletedInv

LEMMA WriteDeleted ==
    ASSUME IInv, NEW c \in Clients, NEW k \in Keys, NEW row \in RowType, WriteStep(c, k, row)
    PROVE  DeletedInv'
<1>1. TypeOK /\ DeletedInv
  BY DEF IInv
<1>2. Effect(c, k, row) /\ \A x \in Keys : disk'[x] = disk[x] \/ (x = k /\ disk'[x] = row)
  BY WriteEffect DEF Joined, Alone
<1>3. gone \subseteq gone' /\ (row = Absent \/ row.deleted => k \in gone')
  BY DEF WriteStep
<1>4. ASSUME NEW x \in Keys
      PROVE  /\ disk'[x].deleted => x \in gone'
             /\ draft'[x].deleted => x \in gone'
             /\ draft'[x] = Absent /\ disk'[x] # Absent => x \in gone'
  <2>1. CASE x = k
    <3>1. draft'[x] = row
      BY <1>2, <2>1 DEF Effect
    <3>2. QED
      BY <1>1, <1>2, <1>3, <2>1, <3>1 DEF DeletedInv
  <2>2. CASE x # k
    <3>1. draft'[x] = draft[x] /\ disk'[x] = disk[x]
      BY <1>2, <2>2 DEF Effect
    <3>2. QED
      BY <1>1, <1>3, <3>1 DEF DeletedInv
  <2>3. QED
    BY <2>1, <2>2
<1>5. ASSUME NEW x \in Keys, NEW y \in Clients, inst'[y][x].deleted
      PROVE  x \in gone'
  <2>1. CASE inst'[y][x] = inst[y][x]
    BY <1>1, <1>3, <1>5, <2>1 DEF DeletedInv
  <2>2. CASE inst'[y][x] # inst[y][x]
    <3>1. Stamp(c, k, row)
      BY <2>2 DEF WriteStep
    <3>2. x = k /\ inst'[y][x] = Hydrated(k, row) /\ Hydrated(k, row).deleted = row.deleted
      BY <1>1, <2>2, <3>1, StampEffect
    <3>3. QED
      BY <1>3, <1>5, <3>2
  <2>3. QED
    BY <2>1, <2>2
<1>6. QED
  BY <1>3, <1>4, <1>5, DeletedNext

LEMMA StampDeleted ==
    ASSUME TypeOK, DeletedInv, UNCHANGED <<disk, draft, gone>>,
           NEW c \in Clients, NEW k \in Keys, NEW row \in RowType, Stamp(c, k, row),
           row.deleted => k \in gone
    PROVE  DeletedInv'
<1>1. ASSUME NEW x \in Keys, NEW y \in Clients, inst'[y][x].deleted
      PROVE  x \in gone'
  <2>1. CASE inst'[y][x] = inst[y][x]
    BY <1>1, <2>1 DEF DeletedInv
  <2>2. CASE inst'[y][x] # inst[y][x]
    <3>1. x = k /\ inst'[y][x] = Hydrated(k, row) /\ Hydrated(k, row).deleted = row.deleted
      BY <2>2, StampEffect
    <3>2. QED
      BY <1>1, <3>1
  <2>3. QED
    BY <2>1, <2>2
<1>2. QED
  BY <1>1, DeletedNext DEF DeletedInv

LEMMA DeletedStep ==
    ASSUME IInv, Next
    PROVE  DeletedInv'
<1>1. TypeOK /\ DeletedInv
  BY DEF IInv
<1>2. ASSUME NEW c \in Clients, ReadStep(c)
      PROVE  DeletedInv'
  <2>1. UNCHANGED <<disk, draft, gone>>
    BY <1>2 DEF ReadStep, tables, history
  <2>2. CASE inst' = inst
    BY <1>1, <2>1, <2>2 DEF DeletedInv
  <2>3. ASSUME NEW k \in Keys, Stamp(c, k, View(c, k))
        PROVE  DeletedInv'
    <3>1. View(c, k).deleted => k \in gone
      BY <1>1 DEF DeletedInv, View
    <3>2. View(c, k) \in RowType
      BY <1>1, ViewType
    <3>3. QED
      BY <1>1, <2>1, <2>3, <3>1, <3>2, StampDeleted
  <2>4. QED
    BY <1>2, <2>2, <2>3 DEF ReadStep
<1>3. ASSUME NEW c \in Clients, NEW k \in Keys, SaveFails(c, k)
      PROVE  DeletedInv'
  <2>1. /\ k \in Versioned /\ Matches(View(c, k), inst[c][k]) /\ Stamp(c, k, SavedRow(c, k))
        /\ UNCHANGED <<disk, draft, gone>>
    BY <1>1, <1>3, SaveFailsFacts DEF tables
  <2>2. SavedRow(c, k) \in RowType /\ SavedRow(c, k).deleted = inst[c][k].deleted
    BY <1>1, <2>1, SavedRowFacts
  <2>3. SavedRow(c, k).deleted => k \in gone
    BY <1>1, <2>2 DEF DeletedInv
  <2>4. QED
    BY <1>1, <2>1, <2>2, <2>3, StampDeleted
<1>4. ASSUME NEW c \in Clients, EnterStep(c) \/ Leave(c)
      PROVE  DeletedInv'
  <2>1. UNCHANGED <<disk, draft, inst, gone>>
    BY <1>4 DEF EnterStep, Leave, tables, history
  <2>2. QED
    BY <1>1, <2>1 DEF DeletedInv
<1>5. ASSUME NEW c \in Clients, Commit(c)
      PROVE  DeletedInv'
  <2>1. PICK mine \in SUBSET Databases : Commits(c, mine)
    BY <1>1, <1>5, CommitEffect
  <2>2. gone' = gone
    BY <1>5 DEF Commit, history
  <2>3. QED
    BY <1>1, <2>1, <2>2 DEF Commits, DeletedInv
<1>6. ASSUME NEW c \in Clients, RollbackStep(c)
      PROVE  DeletedInv'
  <2>1. \E mine \in SUBSET Databases : Reverts(c, mine)
    BY <1>1, <1>6, RollbackEffect
  <2>2. gone' = gone
    BY <1>6 DEF RollbackStep, history
  <2>3. QED
    BY <1>1, <2>1, <2>2 DEF Reverts, DeletedInv
<1>7. QED
  BY <1>2, <1>3, <1>4, <1>5, <1>6, Kinds, WriteDeleted

\* What another client does leaves what a client sees of a row, or the row is
\* deleted meanwhile.
LEMMA RequireStep ==
    ASSUME IInv, Next
    PROVE  RequireInv'
<1>1. TypeOK /\ DeletedInv /\ RequireInv /\ call \in [Clients -> CallType]
  BY TypeParts DEF IInv, HeldOK
<1>2. \A x \in Clients : x # Nobody /\ call[x].keys \subseteq Keys
  BY <1>1, Constants DEF CallType
<1>3. \A y \in Keys : Url[y] \in Databases
  BY Constants
<1>4. ASSUME NEW c \in Clients, call'[c].op # "require", \A x \in Clients \ {c} : call'[x] = call[x],
             \A x \in Clients \ {c}, y \in Keys :
                View(x, y) # Absent \/ y \in gone => View(x, y)' # Absent \/ y \in gone'
      PROVE  RequireInv'
  <2>1. SUFFICES ASSUME NEW x \in Clients, call'[x].op = "require", NEW y \in call'[x].keys
                 PROVE  View(x, y)' # Absent \/ y \in gone'
    BY DEF RequireInv
  <2>2. x # c /\ call'[x] = call[x] /\ y \in Keys
    BY <1>2, <1>4, <2>1
  <2>3. View(x, y) # Absent \/ y \in gone
    BY <1>1, <2>1, <2>2 DEF RequireInv
  <2>4. QED
    BY <1>4, <2>2, <2>3
<1>5. ASSUME NEW c \in Clients, NEW k \in Keys, NEW row \in RowType, WriteStep(c, k, row)
      PROVE  RequireInv'
  <2>1. Effect(c, k, row) /\ (Joined(c, k) \/ Alone(k, row))
    BY <1>5, WriteEffect
  <2>2. /\ gone \subseteq gone' /\ (row = Absent => k \in gone')
        /\ call'[c].op # "require" /\ \A x \in Clients \ {c} : call'[x] = call[x]
    BY <1>5 DEF WriteStep
  <2>3. ASSUME NEW x \in Clients \ {c}, NEW y \in Keys, View(x, y) # Absent \/ y \in gone
        PROVE  View(x, y)' # Absent \/ y \in gone'
    <3>1. CASE Joined(c, k)
      <4>1. writer'[Url[y]] = x <=> writer[Url[y]] = x
        BY <1>2, <1>3, <2>1, <3>1 DEF Joined, Effect
      <4>2. writer[Url[y]] = x => y # k
        BY <1>2, <2>1 DEF Effect
      <4>3. View(x, y)' = View(x, y)
        BY <2>1, <3>1, <4>1, <4>2 DEF View, Joined, Effect
      <4>4. QED
        BY <2>2, <2>3, <4>3
    <3>2. CASE Alone(k, row)
      <4>1. writer' = writer /\ (y # k => draft'[y] = draft[y] /\ disk'[y] = disk[y])
        BY <2>1, <3>2 DEF Alone, Effect
      <4>2. y # k => View(x, y)' = View(x, y)
        BY <4>1 DEF View
      <4>3. y = k => View(x, y)' = row
        BY <2>1, <3>2 DEF View, Alone, Effect
      <4>4. QED
        BY <2>2, <2>3, <4>2, <4>3
    <3>3. QED
      BY <2>1, <3>1, <3>2
  <2>4. QED
    BY <1>4, <2>2, <2>3
<1>6. ASSUME NEW c \in Clients, ReadStep(c)
      PROVE  RequireInv'
  <2>1. UNCHANGED <<disk, draft, writer, gone>>
    BY <1>6 DEF ReadStep, tables, history
  <2>2. \A x \in Clients, y \in Keys : View(x, y)' = View(x, y)
    BY <2>1 DEF View
  <2>3. SUFFICES ASSUME NEW x \in Clients, call'[x].op = "require", NEW y \in call'[x].keys
                 PROVE  View(x, y)' # Absent \/ y \in gone'
    BY DEF RequireInv
  <2>4. y \in Keys
    BY <1>6, <2>3 DEF ReadStep, CallType
  <2>5. CASE x = c
    BY <1>6, <2>2, <2>3, <2>4, <2>5 DEF ReadStep
  <2>6. CASE x # c
    <3>1. call'[x] = call[x]
      BY <1>6, <2>6 DEF ReadStep
    <3>2. QED
      BY <1>1, <2>1, <2>2, <2>3, <2>4, <3>1 DEF RequireInv
  <2>7. QED
    BY <2>5, <2>6
<1>7. ASSUME NEW c \in Clients, \/ \E k \in Keys : SaveFails(c, k)
                                \/ EnterStep(c) \/ Leave(c)
      PROVE  RequireInv'
  <2>1. /\ UNCHANGED <<disk, draft, writer, gone>>
        /\ \A x \in Clients \ {c} : call'[x] = call[x]
    BY <1>1, <1>7 DEF SaveFails, EnterStep, Leave, tables, history
  <2>2. call'[c].op # "require"
    <3>1. CASE \E k \in Keys : SaveFails(c, k)
      BY <3>1 DEF SaveFails, Idle
    <3>2. CASE EnterStep(c)
      BY <3>2 DEF EnterStep
    <3>3. CASE Leave(c)
      BY <1>1, <3>3 DEF Leave, Idle
    <3>4. QED
      BY <1>7, <3>1, <3>2, <3>3
  <2>3. \A x \in Clients, y \in Keys : View(x, y)' = View(x, y)
    BY <2>1 DEF View
  <2>4. QED
    BY <1>4, <2>1, <2>2, <2>3
<1>8. ASSUME NEW c \in Clients, Commit(c) \/ RollbackStep(c)
      PROVE  RequireInv'
  <2>1. /\ call'[c].op # "require" /\ \A x \in Clients \ {c} : call'[x] = call[x]
        /\ gone' = gone
    BY <1>1, <1>8 DEF Commit, RollbackStep, Exiting, history
  <2>2. ASSUME NEW x \in Clients \ {c}, NEW y \in Keys, View(x, y) # Absent \/ y \in gone
        PROVE  View(x, y)' # Absent \/ y \in gone'
    <3>1. CASE Commit(c)
      <4>1. PICK mine \in SUBSET Databases : Commits(c, mine)
        BY <1>1, <3>1, CommitEffect
      <4>2. writer'[Url[y]] = x <=> writer[Url[y]] = x
        BY <1>2, <1>3, <4>1 DEF Commits
      <4>3. View(x, y)' = View(x, y) \/ (View(x, y) = disk[y] /\ View(x, y)' = draft[y])
        BY <4>1, <4>2 DEF View, Commits
      <4>4. QED
        BY <1>1, <2>1, <2>2, <4>3 DEF DeletedInv
    <3>2. CASE RollbackStep(c)
      <4>1. PICK mine \in SUBSET Databases : Reverts(c, mine)
        BY <1>1, <3>2, RollbackEffect
      <4>2. writer'[Url[y]] = x <=> writer[Url[y]] = x
        BY <1>2, <1>3, <4>1 DEF Reverts
      <4>3. writer[Url[y]] = x => Url[y] \notin mine
        BY <4>1 DEF Reverts
      <4>4. View(x, y)' = View(x, y)
        BY <4>1, <4>2, <4>3 DEF View, Reverts
      <4>5. QED
        BY <2>1, <2>2, <4>4
    <3>3. QED
      BY <1>8, <3>1, <3>2
  <2>3. QED
    BY <1>4, <2>1, <2>2
<1>9. QED
  BY <1>5, <1>6, <1>7, <1>8, Kinds

LEMMA WriteClaims ==
    ASSUME IInv, NEW c \in Clients, NEW k \in Keys, NEW row \in RowType, WriteStep(c, k, row)
    PROVE  ClaimInv'
<1>1. TypeOK /\ ClaimInv /\ UndoneInv
  BY DEF IInv
<1>2. Effect(c, k, row) /\ (Joined(c, k) \/ Alone(k, row)) /\ undone' = undone
  BY WriteEffect DEF Effect
<1>3. \A x \in Keys \ {k} : claims'[x] = claims[x]
  BY DEF WriteStep
<1>4. \A x \in Keys : Url[x] \in Databases
  BY Constants
<1>5. ASSUME NEW x \in Keys, x # k, NEW p \in claims'[x] \ undone
      PROVE  /\ \A q \in claims'[x] \ undone : q = p
             /\ draft'[x] # Absent
             /\ p \in pending'[Url[x]] \/ disk'[x] # Absent
  <2>1. claims'[x] = claims[x] /\ draft'[x] = draft[x] /\ disk'[x] = disk[x]
    BY <1>2, <1>3, <1>5 DEF Effect, Joined, Alone
  <2>2. p \in pending[Url[x]] => p \in pending'[Url[x]]
    BY <1>2, <1>4 DEF Joined, Alone
  <2>3. QED
    BY <1>1, <1>5, <2>1, <2>2 DEF ClaimInv
<1>6. ASSUME NEW p \in claims'[k] \ undone
      PROVE  /\ \A q \in claims'[k] \ undone : q = p
             /\ draft'[k] # Absent
             /\ p \in pending'[Url[k]] \/ disk'[k] # Absent
  <2>1. draft'[k] = row /\ (Alone(k, row) => disk'[k] = row)
    BY <1>2 DEF Effect, Alone
  <2>2. CASE row # Absent /\ claims'[k] = claims[k]
    <3>1. /\ \A q \in claims[k] \ undone : q = p
          /\ p \in pending[Url[k]] \/ disk[k] # Absent
      BY <1>1, <1>6, <2>2 DEF ClaimInv
    <3>2. CASE Joined(c, k)
      <4>1. p \in pending[Url[k]] => p \in pending'[Url[k]]
        BY <1>4, <3>2 DEF Joined
      <4>2. disk'[k] = disk[k]
        BY <3>2 DEF Joined
      <4>3. QED
        BY <2>1, <2>2, <3>1, <4>1, <4>2
    <3>3. CASE Alone(k, row)
      BY <2>1, <2>2, <3>1, <3>3
    <3>4. QED
      BY <1>2, <3>2, <3>3
  <2>3. CASE row # Absent /\ draft[k] = Absent /\ claims'[k] = claims[k] \cup {<<k, Fresh(k)>>}
    <3>1. claims[k] \ undone = {}
      BY <1>1, <2>3 DEF ClaimInv
    <3>2. p = <<k, Fresh(k)>> /\ \A q \in claims'[k] \ undone : q = p
      BY <1>6, <2>3, <3>1
    <3>3. CASE Joined(c, k)
      <4>1. p \in pending'[Url[k]]
        BY <1>4, <3>2, <3>3 DEF Joined
      <4>2. QED
        BY <2>1, <2>3, <3>2, <4>1
    <3>4. CASE Alone(k, row)
      BY <2>1, <2>3, <3>2, <3>4
    <3>5. QED
      BY <1>2, <3>3, <3>4
  <2>4. claims'[k] # {}
    BY <1>6
  <2>5. QED
    BY <2>2, <2>3, <2>4 DEF WriteStep
<1>7. QED
  BY <1>2, <1>5, <1>6 DEF ClaimInv

LEMMA ClaimStep ==
    ASSUME IInv, Next
    PROVE  ClaimInv'
<1>1. TypeOK /\ ClaimInv /\ \A x \in Keys : Url[x] \in Databases
  BY Constants DEF IInv
<1>2. ASSUME NEW c \in Clients, \/ ReadStep(c) \/ EnterStep(c) \/ Leave(c)
                                \/ \E k \in Keys : SaveFails(c, k)
      PROVE  ClaimInv'
  <2>1. UNCHANGED <<disk, draft, pending, claims>>
    BY <1>2 DEF ReadStep, EnterStep, Leave, SaveFails, tables, history
  <2>2. \A p : p \in undone => p \in undone'
    <3>1. CASE \E k \in Keys : SaveFails(c, k)
      BY <3>1 DEF SaveFails
    <3>2. CASE ReadStep(c) \/ EnterStep(c) \/ Leave(c)
      BY <3>2 DEF ReadStep, EnterStep, Leave
    <3>3. QED
      BY <1>2, <3>1, <3>2
  <2>3. QED
    BY <1>1, <2>1, <2>2 DEF ClaimInv
<1>3. ASSUME NEW c \in Clients, Commit(c)
      PROVE  ClaimInv'
  <2>1. PICK mine \in SUBSET Databases : Commits(c, mine)
    BY <1>1, <1>3, CommitEffect
  <2>2. claims' = claims
    BY <1>3 DEF Commit, history
  <2>3. ASSUME NEW k \in Keys, NEW p \in claims[k] \ undone
        PROVE  p \in pending'[Url[k]] \/ disk'[k] # Absent
    BY <1>1, <2>1, <2>3 DEF Commits, ClaimInv
  <2>4. QED
    BY <1>1, <2>1, <2>2, <2>3 DEF Commits, ClaimInv
<1>4. ASSUME NEW c \in Clients, RollbackStep(c)
      PROVE  ClaimInv'
  <2>1. PICK mine \in SUBSET Databases : Reverts(c, mine)
    BY <1>1, <1>4, RollbackEffect
  <2>2. claims' = claims
    BY <1>4 DEF RollbackStep, history
  <2>3. ASSUME NEW k \in Keys, NEW p \in claims[k] \ undone'
        PROVE  /\ p \in claims[k] \ undone
               /\ draft'[k] # Absent
               /\ p \in pending'[Url[k]] \/ disk'[k] # Absent
    <3>1. p \in claims[k] \ undone /\ (Url[k] \in mine => p \notin pending[Url[k]])
      BY <2>1, <2>3 DEF Reverts
    <3>2. draft[k] # Absent /\ (p \in pending[Url[k]] \/ disk[k] # Absent)
      BY <1>1, <3>1 DEF ClaimInv
    <3>3. CASE Url[k] \in mine
      BY <1>1, <2>1, <3>1, <3>2, <3>3 DEF Reverts
    <3>4. CASE Url[k] \notin mine
      BY <1>1, <2>1, <3>1, <3>2, <3>4 DEF Reverts
    <3>5. QED
      BY <3>3, <3>4
  <2>4. QED
    BY <1>1, <2>2, <2>3 DEF ClaimInv
<1>5. QED
  BY <1>2, <1>3, <1>4, Kinds, WriteClaims

-----------------------------------------------------------------------------
(* The inductive invariant.                                                *)

LEMMA InvInit == Init => IInv
<1> SUFFICES ASSUME Init PROVE IInv
  OBVIOUS
<1>1. TypeOK
  BY TypeInit
<1>2. /\ \A k \in Keys : disk[k] = draft[k] /\ disk[k].deleted = FALSE /\ disk[k].wid = writes[k]
                         /\ (disk[k] # Absent => disk[k].epoch = 1 /\ disk[k].wid = 1)
      /\ \A d \in Databases : writer[d] = Nobody /\ pending[d] = {}
      /\ undone = {}
  BY DEF Init, Row, Absent, Fresh
<1>3. /\ \A c \in Clients : scopes[c] = <<>> /\ unit[c] = {} /\ torn[c] = FALSE /\ call[c] = Idle
      /\ \A c \in Clients, k \in Keys : inst[c][k] = Unloaded
      /\ \A k \in Keys : claims[k] = {}
  BY DEF Init
<1>4. RowsInv /\ LockInv /\ PendingInv /\ UndoneInv
  BY <1>1, <1>2, RowTypes DEF RowsInv, RowInv, LockInv, PendingInv, UndoneInv
<1>5. OrderInv
  BY <1>2, Constants DEF OrderInv, Follows
<1>6. InstanceInv
  <2>1. ASSUME NEW c \in Clients, NEW k \in Versioned
        PROVE  Knows(c, k, inst[c][k])
    <3>1. k \in Keys /\ inst[c][k].wid = 0 /\ pending[Url[k]] = {} /\ writes[k] \in Nat
      BY <1>1, <1>2, <1>3, Constants, RowTypes DEF Unloaded
    <3>2. Agrees(inst[c][k], disk[k]) /\ Agrees(inst[c][k], draft[k])
      BY <1>2, <3>1 DEF Agrees
    <3>3. QED
      BY <3>1, <3>2 DEF Knows
  <2>2. QED
    BY <2>1 DEF InstanceInv
<1>7. CallInv /\ UnitInv /\ RequireInv /\ ClaimInv
  BY <1>2, <1>3 DEF CallInv, UnitInv, Unit, RequireInv, ClaimInv, Idle
<1>8. DeletedInv
  BY <1>2, <1>3 DEF DeletedInv, Unloaded
<1>9. QED
  BY <1>1, <1>4, <1>5, <1>6, <1>7, <1>8 DEF IInv

LEMMA InvStep == IInv /\ [Next]_vars => IInv'
<1>1. ASSUME IInv, Next
      PROVE  IInv'
  <2>1. TypeOK' /\ StoreInv' /\ CallInv' /\ UnitInv'
    BY <1>1, TypeStep, StoreStep, CallStep, UnitStep
  <2>2. DeletedInv' /\ RequireInv' /\ ClaimInv'
    BY <1>1, DeletedStep, RequireStep, ClaimStep
  <2>3. QED
    BY <2>1, <2>2 DEF IInv, StoreInv
<1>2. ASSUME IInv, UNCHANGED vars
      PROVE  IInv'
  <2>1. UNCHANGED <<disk, draft, writer, pending, scopes, inst, call, event, claims, undone, gone,
                    unit, torn, writes, blocks, faults>>
    BY <1>2 DEF vars, tables, history
  <2>2. TypeOK'
    BY <1>2, <2>1 DEF IInv, TypeOK, Open
  <2>3. StoreInv'
    BY <1>2, <2>1, SameStore DEF IInv, StoreInv, tables
  <2>4. CallInv' /\ DeletedInv' /\ RequireInv' /\ ClaimInv'
    BY <1>2, <2>1 DEF IInv, CallInv, DeletedInv, RequireInv, ClaimInv, View
  <2>5. UnitInv'
    BY <1>2, <2>1 DEF IInv, UnitInv, Unit, Whole, Pendings, Closed, Top
  <2>6. QED
    BY <2>2, <2>3, <2>4, <2>5 DEF IInv, StoreInv
<1>3. QED
  BY <1>1, <1>2

\* The locks, the rows, the instances and the units of work of the write path
\* keep the parts of IInv.
THEOREM Inductive == Spec => []IInv
<1>1. Init => IInv
  BY InvInit
<1>2. IInv /\ [Next]_vars => IInv'
  BY InvStep
<1>3. QED
  BY <1>1, <1>2, PTL DEF Spec

-----------------------------------------------------------------------------
(* The properties.                                                         *)

\* Every value keeps its type, and a row that the writer of its database sees
\* differently belongs to an open transaction of that database.
THEOREM TypeCorrect == Spec => []TypeOK
<1>1. IInv => TypeOK
  BY DEF IInv
<1>2. QED
  BY <1>1, Inductive, PTL

LEMMA SaysFacts ==
    ASSUME NEW k, NEW says, NEW met, NEW basis, Says(k, says, met, basis)
    PROVE  event'.key = k /\ event'.says = says /\ event'.met = met /\ event'.basis = basis
BY DEF Says

\* The answers of a step that are not silence.
LEMMA Answers ==
    ASSUME Next
    PROVE  \/ event' = Silence
           \/ \E c \in Clients, k \in Keys : Save(c, k)
           \/ \E c \in Clients, k \in Keys :
                 StaleData(c, k) /\ event'.says \in {"row_deleted", "version_conflict"}
           \/ event'.says = "duplicate"
           \/ \E c \in Clients : Require(c) /\ event'.says = "not found"
<1>1. PICK c \in Clients :
       \/ \E urls \in {Managers} \cup {<<d>> : d \in Databases} : Enter(c, urls)
       \/ Leave(c) \/ Commit(c) \/ Raise(c)
       \/ \E insert \in BOOLEAN, d \in Databases : Bulk(c, insert, d)
       \/ BulkOne(c) \/ BulkFails(c)
       \/ Purge(c) \/ PurgeOne(c)
       \/ LookupCreates(c) \/ LookupLoses(c) \/ Require(c)
       \/ \E k \in Keys :
             \/ \E includeDeleted \in BOOLEAN : Load(c, k, includeDeleted)
             \/ \E ver \in GivenVersions : UpdateVersion(c, k, ver)
             \/ Create(c, k) \/ UpdateWhere(c, k) \/ Delete(c, k) \/ Restore(c, k)
             \/ HardDelete(c, k) \/ DeleteWhere(c, k)
             \/ Save(c, k) \/ StaleData(c, k) \/ SaveFails(c, k) \/ Upsert(c, k)
             \/ Lookup(c, k)
  BY DEF Next
<1>2. CASE \/ \E urls \in {Managers} \cup {<<d>> : d \in Databases} : Enter(c, urls)
           \/ Leave(c) \/ Commit(c) \/ Raise(c)
           \/ \E insert \in BOOLEAN, d \in Databases : Bulk(c, insert, d)
           \/ BulkOne(c) \/ BulkFails(c) \/ Purge(c) \/ PurgeOne(c) \/ LookupCreates(c)
  BY <1>2 DEF Enter, Leave, Commit, Raise, Bulk, BulkOne, BulkFails, Purge, PurgeOne, LookupCreates,
              Silent, Erase
<1>3. CASE \E k \in Keys :
             \/ \E includeDeleted \in BOOLEAN : Load(c, k, includeDeleted)
             \/ \E ver \in GivenVersions : UpdateVersion(c, k, ver)
             \/ Create(c, k) \/ UpdateWhere(c, k) \/ Delete(c, k) \/ Restore(c, k)
             \/ HardDelete(c, k) \/ DeleteWhere(c, k)
             \/ SaveFails(c, k) \/ Upsert(c, k) \/ Lookup(c, k)
  BY <1>3 DEF Load, Create, UpdateWhere, UpdateVersion, Delete, Restore, HardDelete, DeleteWhere, SaveFails,
              Upsert, Lookup, Update, Erase, Silent
<1>4. CASE LookupLoses(c)
  <2>1. PICK k \in call[c].keys : event' = Silence \/ Says(k, "duplicate", View(c, k), 0)
    BY <1>4 DEF LookupLoses, Silent
  <2>2. QED
    BY <2>1, SaysFacts
<1>5. CASE Require(c)
  <2>1. PICK k \in call[c].keys : event' = Silence \/ Says(k, "not found", View(c, k), 0)
    BY <1>5 DEF Require, Silent
  <2>2. QED
    BY <1>5, <2>1, SaysFacts
<1>6. ASSUME NEW k \in Keys, StaleData(c, k)
      PROVE  event'.says \in {"row_deleted", "version_conflict"}
  BY <1>6 DEF StaleData, Says
<1>7. QED
  BY <1>1, <1>2, <1>3, <1>4, <1>5, <1>6

LEMMA AnswersInit ==
    /\ Silence.says = "none"
    /\ Init => event = Silence
BY DEF Silence, Init

\* A save that succeeds has matched the row by its version alone; what that
\* version tells is what InstanceInv says of the instance.
LEMMA SaveMeets ==
    ASSUME IInv, NEW c \in Clients, NEW k \in Keys, Save(c, k)
    PROVE  SaveSeesLatest'
<1> DEFINE i == inst[c][k]
           r == draft[k]
<1>1. TypeOK /\ InstanceInv /\ k \in Versioned /\ Matches(View(c, k), i)
  BY DEF IInv, Save
<1>2. View(c, k) = r
  <2>1. writer[Url[k]] \in {Nobody, c}
    BY DEF Save, Write
  <2>2. CASE writer[Url[k]] = c
    BY <2>2 DEF View
  <2>3. CASE writer[Url[k]] = Nobody
    BY <1>1, <2>3 DEF View, TypeOK
  <2>4. QED
    BY <2>1, <2>2, <2>3
<1>3. event' = [key |-> k, says |-> "saved", met |-> r, basis |-> i.wid] /\ undone' = undone
  BY <1>2 DEF Save, Says, Quiet
<1>4. r # Absent /\ r.ver = i.ver
  BY <1>1, <1>2 DEF Matches
<1>5. /\ i.wid \in Nat /\ i.ver \in Nat
      /\ r.wid \in Nat /\ r.ver \in Nat /\ r.epoch \in Nat
  BY <1>1, InstTypes, RowTypes
<1>6. <<k, i.wid>> \in undone \/ Agrees(i, r)
  BY <1>1 DEF InstanceInv, Knows
<1> HIDE DEF i, r
<1>7. r.wid = i.wid \/ r.by = "delete_where" \/ <<k, i.wid>> \in undone \/ i.wid < r.epoch
  BY <1>4, <1>5, <1>6 DEF Agrees
<1>8. QED
  BY <1>3, <1>7 DEF SaveSeesLatest

\* A versioned save that succeeds replaces the values its instance was loaded
\* with or last wrote, but for the cases that a version cannot tell:
\* delete_where, a save that was rolled back, and a version started anew, by a
\* row created again or an update_where whose caller gives the version.
THEOREM SavesSeeLatest == Spec => []SaveSeesLatest
<1>1. Init => SaveSeesLatest
  BY AnswersInit DEF SaveSeesLatest
<1>2. ASSUME IInv, SaveSeesLatest, [Next]_vars
      PROVE  SaveSeesLatest'
  <2>1. CASE UNCHANGED vars
    BY <1>2, <2>1 DEF SaveSeesLatest, vars
  <2>2. CASE Next
    <3>1. CASE \E c \in Clients, k \in Keys : Save(c, k)
      BY <1>2, <3>1, SaveMeets
    <3>2. CASE event'.says # "saved"
      BY <3>2 DEF SaveSeesLatest
    <3>3. QED
      BY <2>2, <3>1, <3>2, Answers, AnswersInit
  <2>3. QED
    BY <1>2, <2>1, <2>2
<1>3. QED
  BY <1>1, <1>2, Inductive, PTL DEF Spec

LEMMA RefusalMeets ==
    ASSUME IInv, NEW c \in Clients, NEW k \in Keys, StaleData(c, k)
    PROVE  RefusalIsJustified'
<1> DEFINE i == inst[c][k]
           r == draft[k]
<1>1. TypeOK /\ RowsInv /\ InstanceInv /\ k \in Versioned /\ ~Matches(View(c, k), i)
  BY DEF IInv, StaleData
<1>2. View(c, k) = r
  <2>1. writer[Url[k]] \in {Nobody, c}
    BY DEF StaleData
  <2>2. CASE writer[Url[k]] = c
    BY <2>2 DEF View
  <2>3. CASE writer[Url[k]] = Nobody
    BY <1>1, <2>3 DEF View, TypeOK
  <2>4. QED
    BY <2>1, <2>2, <2>3
<1>3. /\ event' = [key |-> k, says |-> IF r = Absent THEN "row_deleted" ELSE "version_conflict",
                   met |-> r, basis |-> i.wid]
      /\ undone' = undone
  BY <1>2 DEF StaleData, Says
<1>4. r = Absent \/ r.ver # i.ver
  BY <1>1, <1>2 DEF Matches
<1>5. r # Absent => r.epoch <= r.wid
  BY <1>1 DEF RowsInv, RowInv
<1>6. <<k, i.wid>> \in undone \/ Agrees(i, r)
  BY <1>1 DEF InstanceInv, Knows
<1> HIDE DEF i, r
<1>7. r = Absent \/ r.wid # i.wid \/ <<k, i.wid>> \in undone
  BY <1>4, <1>5, <1>6 DEF Agrees
<1>8. QED
  BY <1>3, <1>7 DEF RefusalIsJustified

\* StaleDataError is raised only of a row that has been written since the
\* instance was loaded or saved, unless that save was rolled back.
THEOREM RefusalsAreJustified == Spec => []RefusalIsJustified
<1>1. Init => RefusalIsJustified
  BY AnswersInit DEF RefusalIsJustified
<1>2. ASSUME IInv, RefusalIsJustified, [Next]_vars
      PROVE  RefusalIsJustified'
  <2>1. CASE UNCHANGED vars
    BY <1>2, <2>1 DEF RefusalIsJustified, vars
  <2>2. CASE Next
    <3>1. CASE \E c \in Clients, k \in Keys : StaleData(c, k)
      BY <1>2, <3>1, RefusalMeets
    <3>2. CASE event'.says # "version_conflict"
      BY <3>2 DEF RefusalIsJustified
    <3>3. CASE \E c \in Clients, k \in Keys : Save(c, k)
      BY <3>3 DEF Save, Says, RefusalIsJustified
    <3>4. QED
      BY <2>2, <3>1, <3>2, <3>3, Answers, AnswersInit
  <2>3. QED
    BY <1>2, <2>1, <2>2
<1>3. QED
  BY <1>1, <1>2, Inductive, PTL DEF Spec

\* What an invariant says of the blocks and of the claims.
LEMMA UnitsAgree ==
    ASSUME IInv
    PROVE  AllOrNothing
<1>1. TypeOK /\ UnitInv /\ UndoneInv
  BY DEF IInv
<1>2. ASSUME NEW c \in Clients, Len(scopes[c]) = 1, Closed(c), ~torn[c]
      PROVE  unit[c] \subseteq undone \/ unit[c] \cap undone = {}
  <2>1. scopes[c] # <<>>
    BY <1>2
  <2>2. QED
    BY <1>1, <1>2, <2>1 DEF UnitInv, Unit, Whole
<1>3. \A k \in Keys : <<k, disk[k].wid>> \notin undone
  BY <1>1, RowTypes DEF UndoneInv
<1>4. QED
  BY <1>2, <1>3 DEF AllOrNothing

\* The writes of an outermost transaction block are all kept or all rolled back,
\* unless one of its commits fails after another or an inner block has ended on
\* its own; and no committed row is of a write that was rolled back.
THEOREM AllOrNothingHolds == Spec => []AllOrNothing
<1>1. IInv => AllOrNothing
  BY UnitsAgree
<1>2. QED
  BY <1>1, Inductive, PTL

LEMMA ClaimsAgree ==
    ASSUME IInv
    PROVE  \A k \in Keys : Cardinality(claims[k] \ undone) <= 1
<1>1. TAKE k \in Keys
<1>2. CASE claims[k] \ undone = {}
  BY <1>2, FS_EmptySet
<1>3. CASE claims[k] \ undone # {}
  <2>1. PICK x \in claims[k] \ undone : claims[k] \ undone = {x}
    BY <1>3 DEF IInv, ClaimInv
  <2>2. QED
    <3>1. Cardinality({x}) = 1
      BY FS_Singleton
    <3>2. QED
      BY <2>1, <3>1
<1>4. QED
  BY <1>2, <1>3

LEMMA ClaimsAgreeNext == IInv' => \A k \in Keys : Cardinality(claims'[k] \ undone') <= 1
<1>1. IInv => \A k \in Keys : Cardinality(claims[k] \ undone) <= 1
  BY ClaimsAgree
<1>2. (IInv => \A k \in Keys : Cardinality(claims[k] \ undone) <= 1)'
  BY <1>1, PTL
<1>3. QED
  BY <1>2

LEMMA RequireMeets ==
    ASSUME IInv, NEW c \in Clients, Require(c)
    PROVE  event'.says = "not found" => event'.key \in gone'
<1>1. RequireInv /\ DeletedInv /\ call \in [Clients -> CallType] /\ call[c].op = "require"
  BY TypeParts DEF IInv, HeldOK, Require
<1>2. PICK k \in call[c].keys :
        \/ event' = Silence
        \/ ~Finds(View(c, k), FALSE) /\ event'.key = k
  <2>1. PICK k \in call[c].keys :
          \/ event' = Silence
          \/ ~Finds(View(c, k), FALSE) /\ Says(k, "not found", View(c, k), 0)
    BY DEF Require, Silent
  <2>2. QED
    BY <2>1, SaysFacts
<1>3. k \in Keys /\ gone' = gone
  BY <1>1 DEF CallType, Require, history
<1>4. ~Finds(View(c, k), FALSE) => k \in gone
  <2>1. View(c, k) # Absent \/ k \in gone
    BY <1>1 DEF RequireInv
  <2>2. View(c, k).deleted => k \in gone
    BY <1>1, <1>3 DEF DeletedInv, View
  <2>3. QED
    BY <2>1, <2>2 DEF Finds
<1>5. QED
  BY <1>2, <1>3, <1>4, AnswersInit

\* One of several get_or_create calls creates a row, and the others find it
\* unless it has been deleted.
THEOREM LookupsAgreeHolds == Spec => []LookupsAgree
<1>1. Init => LookupsAgree
  <2>1. ASSUME Init
        PROVE  event.says # "not found" /\ \A k \in Keys : claims[k] \ undone = {}
    BY <2>1, AnswersInit DEF Init
  <2>2. QED
    <3>1. Cardinality({}) = 0
      BY FS_EmptySet
    <3>2. ASSUME Init, NEW k \in Keys
          PROVE  Cardinality(claims[k] \ undone) <= 1
      <4>1. claims[k] \ undone = {}
        BY <2>1, <3>2
      <4>2. QED
        BY <3>1, <4>1
    <3>3. QED
      BY <2>1, <3>2 DEF LookupsAgree
<1>2. ASSUME IInv, IInv', LookupsAgree, [Next]_vars
      PROVE  LookupsAgree'
  <2>1. \A k \in Keys : Cardinality(claims'[k] \ undone') <= 1
    BY <1>2, ClaimsAgreeNext
  <2>2. event'.says = "not found" => event'.key \in gone'
    <3>1. CASE UNCHANGED vars
      BY <1>2, <3>1 DEF LookupsAgree, vars, history
    <3>2. CASE Next
      <4>1. CASE \E c \in Clients : Require(c)
        BY <1>2, <4>1, RequireMeets
      <4>2. CASE \E c \in Clients, k \in Keys : Save(c, k)
        BY <4>2 DEF Save, Says
      <4>3. QED
        BY <3>2, <4>1, <4>2, Answers, AnswersInit
    <3>3. QED
      BY <1>2, <3>1, <3>2
  <2>3. QED
    BY <2>1, <2>2 DEF LookupsAgree
<1>3. QED
  BY <1>1, <1>2, Inductive, PTL DEF Spec

\* Only a commit, or a statement outside transactions, changes committed rows.
LEMMA CommittedChange ==
    ASSUME IInv, Next, NEW k \in Versioned, disk'[k] # disk[k]
    PROVE  \/ disk'[k] = draft[k]
           \/ draft[k] = disk[k] /\ disk'[k] \in RowType /\ Continues(k, disk'[k])
<1>1. TypeOK /\ k \in Keys
  BY Constants DEF IInv
<1>2. ASSUME NEW c \in Clients, NEW x \in Keys, NEW row \in RowType, WriteStep(c, x, row)
      PROVE  draft[k] = disk[k] /\ disk'[k] \in RowType /\ Continues(k, disk'[k])
  <2>1. CASE Joined(c, x)
    BY <2>1 DEF Joined
  <2>2. CASE Alone(x, row)
    <3>1. k = x /\ disk'[k] = row /\ draft[k] = disk[k]
      BY <1>1, <2>2 DEF Alone
    <3>2. QED
      BY <1>2, <3>1 DEF WriteStep
  <2>3. QED
    BY <1>2, <2>1, <2>2, WriteEffect
<1>3. ASSUME NEW c \in Clients, Commit(c)
      PROVE  disk'[k] = draft[k]
  <2>1. PICK mine \in SUBSET Databases : Commits(c, mine)
    BY <1>1, <1>3, CommitEffect
  <2>2. QED
    BY <1>1, <2>1 DEF Commits
<1>4. ASSUME NEW c \in Clients, \/ ReadStep(c) \/ EnterStep(c) \/ Leave(c) \/ RollbackStep(c)
                                \/ \E x \in Keys : SaveFails(c, x)
      PROVE  FALSE
  BY <1>4 DEF ReadStep, EnterStep, Leave, RollbackStep, Rollback, SaveFails, tables
<1>5. QED
  BY <1>2, <1>3, <1>4, Kinds

LEMMA CommittedMoves ==
    ASSUME IInv, Next, NEW k \in Versioned, disk'[k] # disk[k],
           disk'[k].epoch = disk[k].epoch, disk'[k].by # "delete_where"
    PROVE  disk'[k].ver > disk[k].ver
<1> DEFINE old == disk[k]
           r == disk'[k]
<1>1. TypeOK /\ RowsInv /\ OrderInv /\ k \in Keys
  BY Constants DEF IInv
<1>2. /\ old.wid \in Nat /\ old.ver \in Nat /\ old.epoch \in Nat /\ writes[k] \in Nat
      /\ old.wid <= writes[k] /\ (old # Absent => 1 <= old.epoch /\ old.epoch <= old.wid)
      /\ Absent.epoch = 0 /\ Absent.wid = 0
  BY <1>1, RowTypes, RowBounds DEF RowsInv, RowInv
<1>3. CASE r = draft[k]
  <2>1. Follows(r, old) /\ r.epoch \in Nat /\ r.wid \in Nat
    BY <1>1, <1>3, RowTypes DEF OrderInv
  <2> HIDE DEF old, r
  <2>2. r # old /\ r.epoch = old.epoch /\ r.by # "delete_where"
    BY DEF old, r
  <2>3. r # Absent
    BY <1>2, <2>2
  <2>4. ~(r.epoch > old.wid)
    BY <1>2, <2>1, <2>2, <2>3
  <2>5. r.ver > old.ver
    BY <2>1, <2>2, <2>3, <2>4 DEF Follows
  <2>6. QED
    BY <2>5 DEF old, r
<1>4. CASE draft[k] = old /\ r \in RowType /\ Continues(k, r)
  <2> HIDE DEF old, r
  <2>1. r # old /\ r.epoch = old.epoch /\ r.by # "delete_where"
    BY DEF old, r
  <2>2. r # Absent
    BY <1>2, <2>1
  <2>3. r.epoch # Fresh(k)
    BY <1>2, <2>1, <2>2 DEF Fresh
  <2>4. r.ver > old.ver
    BY <1>4, <2>1, <2>2, <2>3 DEF Continues
  <2>5. QED
    BY <2>4 DEF old, r
<1>5. QED
  BY <1>3, <1>4, CommittedChange

\* While the versions of a row count from the same write, every change of it but
\* a delete_where moves its version: those who hold it are refused.
THEOREM VersionsMoveHolds == Spec => VersionsMove
<1>1. ASSUME IInv, Next
      PROVE  \A k \in Versioned :
                disk'[k] # disk[k] /\ disk'[k].epoch = disk[k].epoch /\ disk'[k].by # "delete_where"
                => disk'[k].ver > disk[k].ver
  BY <1>1, CommittedMoves
<1>2. IInv /\ [Next]_vars =>
        [\A k \in Versioned :
            disk'[k] # disk[k] /\ disk'[k].epoch = disk[k].epoch /\ disk'[k].by # "delete_where"
            => disk'[k].ver > disk[k].ver]_vars
  BY <1>1
<1>3. QED
  BY <1>2, Inductive, PTL DEF Spec, VersionsMove

=============================================================================
