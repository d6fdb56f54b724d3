------------------------ MODULE TableVersionsProofs ------------------------
(***************************************************************************)
(* Proofs about the versions of rows: the shortcuts of a vector's version  *)
(* info agree with the marks of its rows, the variables keep their types,  *)
(* and between commits a new transaction and the index have the committed  *)
(* rows, whatever conflicts, failures, rollbacks and restarts have done.   *)
(***************************************************************************)
EXTENDS TableVersions, SequenceTheorems, InductionLemmas

-----------------------------------------------------------------------------
(* The version info of one vector.                                         *)

ConstantInfos == [type : {"constant"}, insert_id : Nat, delete_id : Nat]
VectorInfos   == [type : {"vector"}, insert_id : Nat, same_inserted_id : BOOLEAN,
                  any_deleted : BOOLEAN, inserted : [Slot -> Nat], deleted : [Slot -> Nat]]
Infos         == {NoInfo} \cup ConstantInfos \cup VectorInfos

\* The insert mark of slot i, which same_inserted_id and insert_id stand for.
MarkAt(info, i) ==
  CASE info.type = "none" -> 0 [] info.type = "constant" -> info.insert_id
    [] info.type = "vector" -> info.inserted[i]

\* One mark for all rows of the vector.
OneMark(info) == info.type = "constant" \/ (info.type = "vector" /\ info.same_inserted_id)

\* same_inserted_id and any_deleted say what the marks say, for the rows below total.
Shortcuts(info, v, total) ==
  info.type = "vector" =>
    /\ info.same_inserted_id =>
          \A i \in Slot : RowAt(v, i) < total => info.inserted[i] = info.insert_id
    /\ ~ info.any_deleted => \A i \in Slot : info.deleted[i] = NOT_DELETED_ID
-----------------------------------------------------------------------------
(* The invariant.                                                          *)

\* The hypothesis: the counters have not reached the marks above them.
InRange ==
  /\ current_start_timestamp <= TRANSACTION_ID_START
  /\ current_transaction_id <= NOT_DELETED_ID

IsUndo(s) == s \in Seq(Range(s))

Types ==
  /\ phase \in [Txn -> {"idle", "active", "invalid", "committing", "rolling_back", "ended"}]
  /\ start_time \in [Txn -> Nat] /\ transaction_id \in [Txn -> Nat] /\ commit_id \in [Txn -> Nat]
  /\ current_start_timestamp \in Nat /\ current_transaction_id \in Nat
  /\ transaction_lock \in Txn \cup {NoTxn}
  /\ \A t \in Txn : phase[t] \in {"committing", "rolling_back"} <=> transaction_lock = t
  /\ total_rows \in Nat /\ local \in [Txn -> Nat]
  /\ vector_info \in [Vector -> Infos]
  /\ recently_committed \in Seq({t \in Txn : phase[t] = "ended"})
  /\ DOMAIN undo = Txn /\ \A t \in Txn : IsUndo(undo[t])
  /\ transaction_lock # NoTxn => at \in 0..Len(undo[transaction_lock])

\* The clock is ahead of all transactions, their ids differ, and the commit in
\* progress is newer than every running transaction.
Clocks ==
  /\ TRANSACTION_ID_START <= current_transaction_id
  /\ 0 < current_start_timestamp
  /\ \A t \in Running : /\ start_time[t] < current_start_timestamp
                        /\ TRANSACTION_ID_START <= transaction_id[t]
                        /\ transaction_id[t] < current_transaction_id
  /\ \A t, u \in Running : transaction_id[t] = transaction_id[u] => t = u
  /\ \A t \in Txn : phase[t] = "committing" =>
        /\ commit_id[t] < current_start_timestamp
        /\ \A u \in Running : start_time[u] < commit_id[t]

\* An undo buffer has an append only at its end, and only at the end of its
\* transaction.
Undos ==
  \A t \in Txn :
    /\ phase[t] = "idle" => undo[t] = <<>>
    /\ \A n \in DOMAIN undo[t] : LET e == undo[t][n] IN
         /\ e.kind \in {"append", "delete", "update"}
         /\ e.kind = "append" => /\ n = Len(undo[t]) /\ e.start_row \in Nat /\ e.count \in Nat
                                 /\ phase[t] \in {"committing", "rolling_back", "ended"}
         /\ e.kind = "delete" => e.vector_idx \in Vector

\* The transaction that commits or rolls back has flushed rows, from this one on.
HasFlushed ==
  /\ transaction_lock # NoTxn /\ undo[transaction_lock] # <<>>
  /\ undo[transaction_lock][Len(undo[transaction_lock])].kind = "append"
Flush   == undo[transaction_lock][Len(undo[transaction_lock])]
BaseRow == IF HasFlushed THEN Flush.start_row ELSE total_rows

\* What its rows are marked with.
FlushMark ==
  IF phase[transaction_lock] = "committing" /\ at = Len(undo[transaction_lock])
  THEN commit_id[transaction_lock] ELSE transaction_id[transaction_lock]

\* The rows of the flush have its mark, and a vector that it entered in the
\* middle has one mark per row.
FlushedAs(infos, total, mark) ==
  \A v \in Vector, i \in Slot : RowAt(v, i) \in BaseRow..total - 1 =>
    /\ infos[v].type # "none"
    /\ OneMark(infos[v]) => BaseRow <= v * STANDARD_VECTOR_SIZE
    /\ MarkAt(infos[v], i) = mark
Flushed(infos, total) == FlushedAs(infos, total, FlushMark)

\* The vectors that running transactions have deleted from say so, and none of
\* them goes away if the flush is taken back.
DeletesMarked(infos) ==
  \A t \in Running : \A n \in DOMAIN undo[t] : undo[t][n].kind = "delete" =>
    LET v == undo[t][n].vector_idx IN
    /\ v * STANDARD_VECTOR_SIZE < BaseRow
    /\ infos[v].type = "vector" /\ infos[v].any_deleted

\* The id that stands for the rows of a vector is nobody's who may still append.
InsertIds(infos) ==
  \A v \in Vector : infos[v].type # "none" =>
    /\ \/ infos[v].insert_id < current_start_timestamp
       \/ infos[v].insert_id \in TRANSACTION_ID_START..current_transaction_id - 1
       \/ infos[v].insert_id = NOT_DELETED_ID
    /\ \A t \in Txn : phase[t] = "active" => infos[v].insert_id # transaction_id[t]

VersionsSane(infos, total) ==
  /\ infos \in [Vector -> Infos] /\ total \in Nat /\ BaseRow <= total
  /\ \A v \in Vector : Shortcuts(infos[v], v, total)
  /\ DeletesMarked(infos)
  /\ InsertIds(infos)

\* The commit in progress has all its rows in the table.
FlushWhole ==
  HasFlushed /\ phase[transaction_lock] = "committing" => total_rows = Flush.start_row + Flush.count

VInv ==
  /\ Types /\ Clocks /\ Undos /\ FlushWhole
  /\ VersionsSane(vector_info, total_rows) /\ Flushed(vector_info, total_rows)
-----------------------------------------------------------------------------
(* Rows and their places.                                                  *)

\* Slot i of vector v is a row that does not come before the vector begins.
LEMMA RowPlaces ==
  ASSUME NEW v \in Vector, NEW i \in Slot
  PROVE  /\ v \in Nat /\ i \in Nat /\ 0 \in Slot
         /\ v * STANDARD_VECTOR_SIZE \in Nat /\ RowAt(v, i) \in Nat
         /\ v * STANDARD_VECTOR_SIZE <= RowAt(v, i)
         /\ RowAt(v, 0) = v * STANDARD_VECTOR_SIZE
<1> DEFINE S == STANDARD_VECTOR_SIZE
<1>1. S \in Nat \ {0} /\ v \in Nat /\ i \in Nat /\ 0 \in Slot
  BY VersionConstants DEF Vector, Slot
<1> HIDE DEF S
<1>2. v * S \in Nat
  BY <1>1
<1>3. v * S <= v * S + i /\ v * S + i \in Nat /\ v * S + 0 = v * S
  BY <1>1, <1>2
<1> QED
  BY <1>1, <1>2, <1>3 DEF RowAt, S

\* Every row has a vector and a slot.
LEMMA PlaceOfRow ==
  ASSUME NEW r \in Row
  PROVE  /\ r \in Nat /\ VectorOf(r) \in Vector /\ SlotOf(r) \in Slot
         /\ RowAt(VectorOf(r), SlotOf(r)) = r
<1> DEFINE S == STANDARD_VECTOR_SIZE
           m == MaxRows - 1
           q == m \div S
           p == r \div S
<1>1. S \in Nat \ {0} /\ r \in Nat /\ m \in Nat /\ r <= m
  BY VersionConstants, TableConstants DEF Row
<1>d. \A x \in Nat, s \in Nat \ {0} : /\ x \div s \in Nat /\ x % s \in 0..s - 1
                                     /\ x = (x \div s) * s + (x % s)
  <2>1. \A x \in Nat, s \in Nat \ {0} : x \div s \in Nat
    OBVIOUS
  <2>2. \A x \in Nat, s \in Nat \ {0} : x % s \in 0..s - 1
    OBVIOUS
  <2>3. \A x \in Nat, s \in Nat \ {0} : x = (x \div s) * s + (x % s)
    OBVIOUS
  <2> QED
    BY <2>1, <2>2, <2>3
<1>2. /\ q \in Nat /\ p \in Nat /\ r = p * S + (r % S) /\ r % S \in 0..S - 1
      /\ m = q * S + (m % S) /\ m % S \in 0..S - 1
  BY <1>1, <1>d
<1>3. p <= q
  <2> HIDE DEF S, m, q, p
  <2> SUFFICES ASSUME q < p PROVE FALSE
    BY <1>2
  <2>1. p - q - 1 \in Nat /\ (p - q - 1) * S \in Nat
    BY <1>1, <1>2
  <2>2. p * S = q * S + S + (p - q - 1) * S
    BY <1>1, <1>2
  <2>3. q * S \in Nat /\ p * S \in Nat
    BY <1>1, <1>2
  <2> QED
    BY <1>1, <1>2, <2>1, <2>2, <2>3
<1> QED
  BY <1>1, <1>2, <1>3 DEF VectorOf, SlotOf, RowAt, Vector, Slot
-----------------------------------------------------------------------------
(* What the operations do to the info of a vector.                         *)

\* RowVersionManager::GetVectorInfo keeps the marks.
LEMMA VectorInfoOf ==
  ASSUME NEW info \in Infos, NEW v, NEW total, Shortcuts(info, v, total),
         NEW g, g = GetVectorInfo(info)
  PROVE  /\ g \in VectorInfos /\ Shortcuts(g, v, total)
         /\ \A i \in Slot : g.inserted[i] = MarkAt(info, i)
         /\ info.type # "none" => g.insert_id = info.insert_id
         /\ info.type = "none" => g.insert_id = 0
         /\ info.type # "none" /\ g.same_inserted_id => OneMark(info)
<1>0. NOT_DELETED_ID \in Nat
  BY VersionConstants
<1>1. CASE info = NoInfo
  <2>1. info.type = "none" /\ g = NewVectorInfo
    BY <1>1 DEF GetVectorInfo, NoInfo
  <2> QED
    BY <1>0, <2>1 DEF VectorInfos, Shortcuts, MarkAt, NewVectorInfo
<1>2. CASE info \in ConstantInfos
  <2>0. info.type = "constant" /\ info.insert_id \in Nat
    BY <1>2 DEF ConstantInfos
  <2>1. g = [NewVectorInfo EXCEPT !.insert_id = info.insert_id, !.inserted = [i \in Slot |-> info.insert_id]]
    BY <2>0 DEF GetVectorInfo
  <2>2. NewVectorInfo \in VectorInfos /\ NewVectorInfo.deleted = [i \in Slot |-> NOT_DELETED_ID]
    BY <1>0 DEF NewVectorInfo, VectorInfos
  <2> DEFINE f == [i \in Slot |-> info.insert_id]
  <2>a. f \in [Slot -> Nat]
    BY <2>0
  <2>b. g = [NewVectorInfo EXCEPT !.insert_id = info.insert_id, !.inserted = f]
    BY <2>1
  <2> HIDE DEF f
  <2>c. /\ g \in VectorInfos /\ g.insert_id = info.insert_id
        /\ g.inserted = f /\ g.deleted = NewVectorInfo.deleted
    BY <2>0, <2>a, <2>b, <2>2 DEF VectorInfos
  <2>3. /\ g \in VectorInfos /\ g.insert_id = info.insert_id
        /\ \A i \in Slot : g.inserted[i] = info.insert_id /\ g.deleted[i] = NOT_DELETED_ID
    BY <2>2, <2>c DEF f
  <2> QED
    BY <2>0, <2>3 DEF Shortcuts, MarkAt, OneMark
<1>3. CASE info \in VectorInfos
  <2>1. info.type = "vector"
    BY <1>3 DEF VectorInfos
  <2>2. g = info
    BY <2>1 DEF GetVectorInfo
  <2> QED
    BY <1>3, <2>1, <2>2 DEF MarkAt, OneMark
<1> QED
  BY <1>1, <1>2, <1>3 DEF Infos

\* A vector from which rows are deleted, or whose deletes are committed or taken
\* back: one mark per row from then on, and the insert marks stay.
Remarked(info, D) == [GetVectorInfo(info) EXCEPT !.any_deleted = TRUE, !.deleted = D]

\* The shortcuts stay true to the marks.
LEMMA RemarkedInfo ==
  ASSUME NEW info \in Infos, NEW D \in [Slot -> Nat], NEW v, NEW total,
         Shortcuts(info, v, total), NEW new, new = Remarked(info, D)
  PROVE  /\ new \in VectorInfos /\ new.type = "vector" /\ new.any_deleted
         /\ Shortcuts(new, v, total)
         /\ \A i \in Slot : MarkAt(new, i) = MarkAt(info, i)
         /\ info.type # "none" => new.insert_id = info.insert_id
         /\ info.type = "none" => new.insert_id = 0
         /\ info.type # "none" /\ OneMark(new) => OneMark(info)
<1> DEFINE g == GetVectorInfo(info)
<1>1. /\ g \in VectorInfos /\ Shortcuts(g, v, total)
      /\ \A i \in Slot : g.inserted[i] = MarkAt(info, i)
      /\ info.type # "none" => g.insert_id = info.insert_id
      /\ info.type = "none" => g.insert_id = 0
      /\ info.type # "none" /\ g.same_inserted_id => OneMark(info)
  BY VectorInfoOf
<1>2. new = [g EXCEPT !.any_deleted = TRUE, !.deleted = D]
  BY DEF Remarked
<1> HIDE DEF g
<1>3. /\ new \in VectorInfos /\ new.type = "vector" /\ new.any_deleted
      /\ new.insert_id = g.insert_id /\ new.inserted = g.inserted
      /\ new.same_inserted_id = g.same_inserted_id
  BY <1>1, <1>2 DEF VectorInfos
<1>4. g.type = "vector"
  BY <1>1 DEF VectorInfos
<1>5. Shortcuts(new, v, total)
  BY <1>1, <1>3, <1>4 DEF Shortcuts
<1>6. \A i \in Slot : MarkAt(new, i) = MarkAt(info, i)
  BY <1>1, <1>3 DEF MarkAt
<1>7. info.type # "none" /\ OneMark(new) => OneMark(info)
  BY <1>1, <1>3 DEF OneMark
<1> QED
  BY <1>1, <1>3, <1>5, <1>6, <1>7

\* ChunkVectorInfo::Append to the info of a vector: rows that another append has
\* not begun at the first slot make it one mark per row.
LEMMA AppendedVector ==
  ASSUME NEW info \in VectorInfos, NEW slots \in SUBSET Slot, NEW id \in Nat, info.insert_id # id,
         NEW new, new = AppendToVector(info, slots, id)
  PROVE  /\ new \in VectorInfos /\ new.type = "vector"
         /\ new.insert_id = IF 0 \in slots THEN id ELSE NOT_DELETED_ID
         /\ new.same_inserted_id <=> info.same_inserted_id /\ 0 \in slots
         /\ new.any_deleted = info.any_deleted /\ new.deleted = info.deleted
         /\ \A i \in Slot : new.inserted[i] = IF i \in slots THEN id ELSE info.inserted[i]
<1> DEFINE other == 0 \notin slots /\ info.insert_id # id
           a == IF 0 \in slots THEN id ELSE IF other THEN NOT_DELETED_ID ELSE info.insert_id
           b == info.same_inserted_id /\ ~ other
           f == [i \in Slot |-> IF i \in slots THEN id ELSE info.inserted[i]]
<1>1. new = [info EXCEPT !.insert_id = a, !.same_inserted_id = b, !.inserted = f]
  BY Zenon DEF AppendToVector
<1>2. a \in Nat /\ b \in BOOLEAN /\ f \in [Slot -> Nat]
  BY VersionConstants DEF VectorInfos
<1> HIDE DEF a, b, f
<1>3. /\ new \in VectorInfos /\ new.type = "vector" /\ new.insert_id = a
      /\ new.inserted = f /\ new.any_deleted = info.any_deleted /\ new.deleted = info.deleted
  BY <1>1, <1>2 DEF VectorInfos
<1>4. new.same_inserted_id = b
  BY <1>1, <1>2 DEF VectorInfos
<1> QED
  BY <1>3, <1>4 DEF a, b, f

\* RowVersionManager::AppendVersionInfo of the rows from..to-1 at the end of the
\* table: they get the mark, and the shortcuts hold for the longer table.
LEMMA AppendedInfo ==
  ASSUME NEW infos \in [Vector -> Infos], NEW from \in Nat, NEW to \in Nat,
         NEW id \in Nat, id # 0, ~ AppendVersionError(infos, from, to), NEW v \in Vector,
         Shortcuts(infos[v], v, from), infos[v].type # "none" => infos[v].insert_id # id
  PROVE  LET new == AppendVersionInfo(infos, from, to, id)[v] IN
         /\ new \in Infos /\ Shortcuts(new, v, to)
         /\ \A i \in Slot : RowAt(v, i) \in from..to - 1 =>
               /\ new.type # "none" /\ (OneMark(new) => from <= v * STANDARD_VECTOR_SIZE)
               /\ MarkAt(new, i) = id
         /\ v * STANDARD_VECTOR_SIZE < from /\ infos[v].type = "vector" =>
               new.type = "vector" /\ new.any_deleted = infos[v].any_deleted
         /\ new.type # "none" => \/ new.insert_id \in {id, NOT_DELETED_ID}
                                 \/ infos[v].type # "none" /\ new.insert_id = infos[v].insert_id
<1> DEFINE slots == Covered(v, from, to)
           info  == infos[v]
           old   == IF info.type = "none" THEN NewVectorInfo ELSE info
           new   == AppendVersionInfo(infos, from, to, id)[v]
<1>1. /\ slots \in SUBSET Slot /\ 0 \in Slot
      /\ \A i \in Slot : /\ i \in slots <=> RowAt(v, i) \in from..to - 1
                         /\ RowAt(v, i) \in Nat /\ v * STANDARD_VECTOR_SIZE <= RowAt(v, i)
      /\ v * STANDARD_VECTOR_SIZE \in Nat /\ RowAt(v, 0) = v * STANDARD_VECTOR_SIZE
  <2>1. \A i \in Slot : i \in slots <=> RowAt(v, i) \in from..to - 1
    BY DEF Covered, RowAt
  <2>2. slots \in SUBSET Slot
    BY DEF Covered
  <2>3. 0 \in Slot
    BY VersionConstants DEF Slot
  <2> QED
    BY <2>1, <2>2, <2>3, RowPlaces
<1>2. new = CASE slots = {} -> info [] slots = Slot -> ConstantInfo(id, NOT_DELETED_ID)
              [] OTHER -> AppendToVector(old, slots, id)
  BY DEF AppendVersionInfo
<1>3. info \in Infos /\ NOT_DELETED_ID \in Nat
  BY VersionConstants
<1> HIDE DEF slots, new, info
<1>4. CASE slots = {}
  <2>1. new = info
    BY <1>1, <1>2, <1>4
  <2>2. \A i \in Slot : ~ (RowAt(v, i) \in from..to - 1) /\ (RowAt(v, i) < to => RowAt(v, i) < from)
    BY <1>1, <1>4
  <2>3. Shortcuts(new, v, to)
    BY <2>1, <2>2 DEF Shortcuts, info
  <2> QED
    BY <1>3, <2>1, <2>2, <2>3 DEF info, new
<1>5. CASE slots = Slot
  <2>1. new = ConstantInfo(id, NOT_DELETED_ID)
    BY <1>1, <1>2, <1>5
  <2>2. new \in ConstantInfos /\ new.type = "constant" /\ new.insert_id = id
    BY <1>3, <2>1 DEF ConstantInfo, ConstantInfos
  <2>3. from <= v * STANDARD_VECTOR_SIZE
    BY <1>1, <1>5
  <2>4. \A i \in Slot : MarkAt(new, i) = id
    BY <2>2 DEF MarkAt
  <2>5. Shortcuts(new, v, to) /\ new \in Infos
    BY <2>2 DEF Shortcuts, Infos
  <2> QED
    BY <1>1, <2>2, <2>3, <2>4, <2>5 DEF new
<1>6. CASE slots # {} /\ slots # Slot
  <2>1. new = AppendToVector(old, slots, id)
    BY <1>2, <1>6
  <2>2. info.type # "constant"
    <3>1. ~ (Covered(v, from, to) \notin {{}, Slot} /\ infos[v].type = "constant")
      BY DEF AppendVersionError
    <3> QED
      BY <1>6, <3>1 DEF slots, info
  <2>3. /\ old \in VectorInfos /\ Shortcuts(old, v, from)
        /\ old.insert_id # id /\ old.type = "vector"
        /\ info.type = "vector" => old = info
        /\ info.type = "vector" \/ old.insert_id = 0
    <3>1. CASE info = NoInfo
      <4>1. old = NewVectorInfo /\ info.type = "none"
        BY <3>1 DEF NoInfo
      <4> QED
        BY <1>3, <4>1 DEF NewVectorInfo, VectorInfos, Shortcuts
    <3>2. CASE info \in VectorInfos
      <4>1. info.type = "vector" /\ old = info
        BY <3>2 DEF VectorInfos
      <4> QED
        BY <3>2, <4>1 DEF info
    <3>3. CASE info \in ConstantInfos
      BY <2>2, <3>3 DEF ConstantInfos
    <3> QED
      BY <1>3, <3>1, <3>2, <3>3 DEF Infos
  <2> HIDE DEF old
  <2>4. /\ new \in VectorInfos /\ new.type = "vector"
        /\ new.insert_id = IF 0 \in slots THEN id ELSE NOT_DELETED_ID
        /\ new.same_inserted_id <=> old.same_inserted_id /\ 0 \in slots
        /\ new.any_deleted = old.any_deleted /\ new.deleted = old.deleted
        /\ \A i \in Slot : new.inserted[i] = IF i \in slots THEN id ELSE old.inserted[i]
    BY <1>1, <2>1, <2>3, AppendedVector
  <2>5. 0 \in slots => from <= v * STANDARD_VECTOR_SIZE
    BY <1>1
  <2>6. Shortcuts(new, v, to)
    <3>1. ASSUME new.same_inserted_id, NEW i \in Slot, RowAt(v, i) < to
          PROVE  new.inserted[i] = new.insert_id
      <4>1. i \in slots
        BY <1>1, <2>4, <2>5, <3>1
      <4> QED
        BY <2>4, <3>1, <4>1
    <3>2. ~ new.any_deleted => \A i \in Slot : new.deleted[i] = NOT_DELETED_ID
      BY <2>3, <2>4 DEF Shortcuts
    <3> QED
      BY <3>1, <3>2 DEF Shortcuts
  <2>7. \A i \in Slot : RowAt(v, i) \in from..to - 1 => MarkAt(new, i) = id
    BY <1>1, <2>4 DEF MarkAt
  <2>8. OneMark(new) => from <= v * STANDARD_VECTOR_SIZE
    BY <2>4, <2>5 DEF OneMark
  <2>9. new \in Infos
    BY <2>4 DEF Infos
  <2> QED
    BY <2>3, <2>4, <2>6, <2>7, <2>8, <2>9 DEF new, info
<1> QED
  BY <1>4, <1>5, <1>6

\* A vector that has rows of from..to-1 knows them, and if it has one mark for all
\* its rows, then it begins with them.
Entered(info, v, from, to) ==
  \A i \in Slot : RowAt(v, i) \in from..to - 1 =>
    info.type # "none" /\ (OneMark(info) => from <= v * STANDARD_VECTOR_SIZE)

\* RowVersionManager::CommitAppend: one mark may stand for all rows of a vector
\* only if all are of this append.
LEMMA CommittedInfo ==
  ASSUME NEW infos \in [Vector -> Infos], NEW from \in Nat, NEW to \in Nat, NEW id \in Nat,
         NEW v \in Vector, Shortcuts(infos[v], v, to), Entered(infos[v], v, from, to),
         NEW new, new = CommitAppend(infos, from, to, id)[v]
  PROVE  /\ new \in Infos /\ Shortcuts(new, v, to) /\ new.type = infos[v].type
         /\ new.type = "vector" => new.any_deleted = infos[v].any_deleted
         /\ \A i \in Slot : RowAt(v, i) \in from..to - 1 => MarkAt(new, i) = id
         /\ OneMark(new) => OneMark(infos[v])
         /\ new.type # "none" => new.insert_id \in {id, infos[v].insert_id}
<1> DEFINE slots == Covered(v, from, to)
           info  == infos[v]
<1>1. /\ \A i \in Slot : /\ i \in slots <=> RowAt(v, i) \in from..to - 1
                         /\ RowAt(v, i) \in Nat /\ v * STANDARD_VECTOR_SIZE <= RowAt(v, i)
      /\ v * STANDARD_VECTOR_SIZE \in Nat /\ slots \in SUBSET Slot
  <2>1. \A i \in Slot : i \in slots <=> RowAt(v, i) \in from..to - 1
    BY DEF Covered, RowAt
  <2>2. slots \in SUBSET Slot
    BY DEF Covered
  <2>3. 0 \in Slot
    BY VersionConstants DEF Slot
  <2> QED
    BY <2>1, <2>2, <2>3, RowPlaces
<1>2. new = IF slots = {} THEN info
            ELSE IF info.type = "constant" THEN [info EXCEPT !.insert_id = id]
            ELSE [info EXCEPT !.insert_id = IF info.same_inserted_id THEN id ELSE @,
                              !.inserted = [i \in Slot |-> IF i \in slots THEN id ELSE @[i]]]
  BY DEF CommitAppend
<1>3. info \in Infos
  OBVIOUS
<1>4. /\ Shortcuts(info, v, to)
      /\ slots # {} => info.type # "none" /\ (OneMark(info) => from <= v * STANDARD_VECTOR_SIZE)
  BY <1>1 DEF Entered
<1> HIDE DEF slots, info
<1>5. CASE slots = {}
  <2>1. new = info
    BY <1>2, <1>5
  <2> QED
    BY <1>1, <1>3, <1>4, <1>5, <2>1 DEF info
<1>6. CASE slots # {} /\ info \in ConstantInfos
  <2>1. info.type = "constant"
    BY <1>6 DEF ConstantInfos
  <2>2. new = [info EXCEPT !.insert_id = id]
    BY <1>2, <1>6, <2>1
  <2>3. new \in ConstantInfos /\ new.type = "constant" /\ new.insert_id = id
    BY <1>6, <2>2 DEF ConstantInfos
  <2> QED
    BY <2>1, <2>3 DEF Infos, Shortcuts, MarkAt, OneMark, info
<1>7. CASE slots # {} /\ info \in VectorInfos
  <2> DEFINE a == IF info.same_inserted_id THEN id ELSE info.insert_id
             f == [i \in Slot |-> IF i \in slots THEN id ELSE info.inserted[i]]
  <2>1. info.type = "vector"
    BY <1>7 DEF VectorInfos
  <2>2. new = [info EXCEPT !.insert_id = a, !.inserted = f]
    BY <1>2, <1>7, <2>1
  <2>3. a \in Nat /\ f \in [Slot -> Nat]
    BY <1>7 DEF VectorInfos
  <2> HIDE DEF a, f
  <2>4. /\ new \in VectorInfos /\ new.type = "vector" /\ new.insert_id = a /\ new.inserted = f
        /\ new.any_deleted = info.any_deleted /\ new.same_inserted_id = info.same_inserted_id
        /\ new.deleted = info.deleted
    BY <1>7, <2>2, <2>3 DEF VectorInfos
  <2>5. \A i \in slots : new.inserted[i] = id
    BY <1>1, <2>4 DEF f
  <2>6. Shortcuts(new, v, to)
    <3>1. ASSUME new.same_inserted_id, NEW i \in Slot, RowAt(v, i) < to
          PROVE  new.inserted[i] = new.insert_id
      <4>1. from <= v * STANDARD_VECTOR_SIZE
        BY <1>4, <1>7, <2>1, <2>4, <3>1 DEF OneMark
      <4>2. i \in slots
        BY <1>1, <3>1, <4>1
      <4> QED
        BY <2>4, <2>5, <3>1, <4>2 DEF a
    <3>2. ~ new.any_deleted => \A i \in Slot : new.deleted[i] = NOT_DELETED_ID
      BY <1>4, <2>1, <2>4 DEF Shortcuts
    <3> QED
      BY <3>1, <3>2 DEF Shortcuts
  <2>7. \A i \in Slot : RowAt(v, i) \in from..to - 1 => MarkAt(new, i) = id
    BY <1>1, <2>4, <2>5 DEF MarkAt
  <2>8. OneMark(new) => OneMark(info)
    BY <2>1, <2>4 DEF OneMark
  <2>9. new.insert_id \in {id, info.insert_id}
    BY <2>4 DEF a
  <2> QED
    BY <2>1, <2>4, <2>6, <2>7, <2>8, <2>9 DEF Infos, info
<1>8. CASE slots # {} /\ info = NoInfo
  BY <1>4, <1>8 DEF NoInfo
<1> QED
  BY <1>3, <1>5, <1>6, <1>7, <1>8 DEF Infos

\* What a checkpoint keeps of a vector.
LEMMA KeptInfo ==
  ASSUME NEW info \in Infos, NEW v, NEW total, NEW new, new = WriteAndRead(info)
  PROVE  /\ new \in Infos /\ Shortcuts(new, v, total)
         /\ new.type # "none" => new.insert_id = 0
<1> DEFINE visible == GetSelVector(info, AllCommitted)
           f == [i \in Slot |-> IF i \in visible THEN NOT_DELETED_ID ELSE 0]
<1>0. NOT_DELETED_ID \in Nat /\ f \in [Slot -> Nat]
  BY VersionConstants
<1>1. \/ new = NoInfo \/ new = ConstantInfo(0, 0)
      \/ new = [NewVectorInfo EXCEPT !.any_deleted = TRUE,
                                     !.deleted = [i \in Slot |-> IF i \in visible THEN @[i] ELSE 0]]
  BY DEF WriteAndRead
<1>2. CASE new = NoInfo
  BY <1>2 DEF NoInfo, Infos, Shortcuts
<1>3. CASE new = ConstantInfo(0, 0)
  <2>1. new \in ConstantInfos /\ new.type = "constant" /\ new.insert_id = 0
    BY <1>3 DEF ConstantInfo, ConstantInfos
  <2> QED
    BY <2>1 DEF Infos, Shortcuts
<1>4. CASE new = [NewVectorInfo EXCEPT !.any_deleted = TRUE,
                                       !.deleted = [i \in Slot |-> IF i \in visible THEN @[i] ELSE 0]]
  <2> HIDE DEF visible
  <2>1. [i \in Slot |-> IF i \in visible THEN NewVectorInfo.deleted[i] ELSE 0] = f
    BY DEF NewVectorInfo
  <2>2. new = [NewVectorInfo EXCEPT !.any_deleted = TRUE, !.deleted = f]
    BY <1>4, <2>1
  <2>3. NewVectorInfo \in VectorInfos /\ NewVectorInfo.insert_id = 0
        /\ NewVectorInfo.inserted = [i \in Slot |-> 0]
    BY <1>0 DEF NewVectorInfo, VectorInfos
  <2> HIDE DEF f
  <2>4. /\ new \in VectorInfos /\ new.insert_id = 0 /\ new.any_deleted
        /\ new.inserted = NewVectorInfo.inserted
    BY <1>0, <2>2, <2>3 DEF VectorInfos
  <2>5. \A i \in Slot : new.inserted[i] = 0
    BY <2>3, <2>4
  <2> QED
    BY <2>4, <2>5 DEF Infos, Shortcuts
<1> QED
  BY <1>1, <1>2, <1>3, <1>4
-----------------------------------------------------------------------------
(* Undo buffers, and what is flushed.                                      *)

\* An entry that is appended to an undo buffer.
LEMMA Grown ==
  ASSUME NEW s, IsUndo(s), NEW e
  PROVE  /\ Len(s) \in Nat /\ DOMAIN s = 1..Len(s)
         /\ IsUndo(Append(s, e)) /\ Append(s, e) # <<>>
         /\ Len(Append(s, e)) = Len(s) + 1 /\ DOMAIN Append(s, e) = 1..Len(s) + 1
         /\ \A n \in 1..Len(s) : Append(s, e)[n] = s[n]
         /\ Append(s, e)[Len(s) + 1] = e
<1> DEFINE R == Range(s) \cup {e}
           new == Append(s, e)
<1>1. s \in Seq(Range(s)) /\ Len(s) \in Nat /\ DOMAIN s = 1..Len(s)
  BY DEF IsUndo
<1>2. s \in Seq(R)
  <2>1. \A n \in 1..Len(s) : s[n] \in R
    BY <1>1
  <2> QED
    BY <1>1, <2>1
<1>3. e \in R
  OBVIOUS
<1> HIDE DEF R
<1>4. /\ new \in Seq(R) /\ Len(new) = Len(s) + 1 /\ DOMAIN new = 1..Len(s) + 1
      /\ \A n \in 1..Len(s) : new[n] = s[n]
      /\ new[Len(s) + 1] = e
  BY <1>1, <1>2, <1>3
<1> HIDE DEF new
<1>5. new \in Seq(Range(new))
  <2>1. \A n \in 1..Len(new) : new[n] \in Range(new)
    BY <1>1, <1>4 DEF Range
  <2> QED
    BY <1>1, <1>4, <2>1
<1>6. new # <<>>
  BY <1>1, <1>4
<1> QED
  BY <1>1, <1>4, <1>5, <1>6 DEF IsUndo, new

\* Without a transaction that commits or rolls back nothing is flushed, and what
\* is flushed begins in the table.
LEMMA FlushFacts ==
  ASSUME Types, Undos, transaction_lock = NoTxn \/ HasFlushed
  PROVE  /\ transaction_lock = NoTxn => ~ HasFlushed /\ BaseRow = total_rows
         /\ HasFlushed => /\ transaction_lock \in Txn /\ BaseRow = Flush.start_row
                          /\ Flush.start_row \in Nat /\ Flush.count \in Nat
                          /\ Len(undo[transaction_lock]) \in DOMAIN undo[transaction_lock]
<1>1. CASE transaction_lock = NoTxn
  BY <1>1 DEF HasFlushed, BaseRow
<1>2. CASE HasFlushed
  <2> DEFINE u == transaction_lock
             s == undo[u]
  <2>1. u \in Txn /\ s # <<>> /\ Flush = s[Len(s)] /\ Flush.kind = "append"
    BY <1>2 DEF HasFlushed, Types, Flush
  <2>2. Len(s) \in DOMAIN s
    <3>1. IsUndo(s)
      BY <2>1 DEF Types
    <3>2. s \in Seq(Range(s))
      BY <3>1 DEF IsUndo
    <3> HIDE DEF s
    <3> QED
      BY <2>1, <3>2
  <2> QED
    BY <1>2, <2>1, <2>2 DEF Undos, BaseRow, HasFlushed
<1> QED
  BY <1>1, <1>2
-----------------------------------------------------------------------------
(* The steps.                                                              *)

\* A statement of an active transaction changes nothing of the others'.
LEMMA QuietStep ==
  ASSUME VInv, NEW t \in Txn, phase[t] = "active",
         UNCHANGED <<clocks, commit_id, transaction_lock, at, total_rows, recently_committed>>,
         local' \in [Txn -> Nat], vector_info' \in [Vector -> Infos],
         phase' = phase \/ phase' = [phase EXCEPT ![t] = "invalid"],
         NEW e, e.kind \in {"delete", "update"}, e.kind = "delete" => e.vector_idx \in Vector,
         undo' = undo \/ undo' = [undo EXCEPT ![t] = Append(@, e)]
  PROVE  /\ Types' /\ Clocks' /\ Undos' /\ FlushWhole'
         /\ BaseRow' = BaseRow /\ (transaction_lock # NoTxn => FlushMark' = FlushMark)
         /\ Running' = Running
         /\ \A u \in Running : \A n \in DOMAIN undo'[u] :
               \/ n \in DOMAIN undo[u] /\ undo'[u][n] = undo[u][n]
               \/ u = t /\ undo'[u][n] = e /\ undo' # undo
         /\ \A u \in Txn : phase'[u] = "active" => phase[u] = "active"
<1> USE DEF VInv
<1>1. t # transaction_lock /\ t # NoTxn
  BY TableConstants DEF Types
<1>2. /\ phase' \in [Txn -> {"idle", "active", "invalid", "committing", "rolling_back", "ended"}]
      /\ \A u \in Txn \ {t} : phase'[u] = phase[u]
      /\ phase'[t] \in {"active", "invalid"}
  BY DEF Types
<1>3. /\ DOMAIN undo' = Txn /\ \A u \in Txn \ {t} : undo'[u] = undo[u]
      /\ undo'[t] = undo[t] \/ (undo' # undo /\ undo'[t] = Append(undo[t], e))
  BY DEF Types
<1>4. /\ IsUndo(undo[t]) /\ Len(undo[t]) \in Nat /\ DOMAIN undo[t] = 1..Len(undo[t])
      /\ IsUndo(Append(undo[t], e))
      /\ Len(Append(undo[t], e)) = Len(undo[t]) + 1
      /\ DOMAIN Append(undo[t], e) = 1..Len(undo[t]) + 1
      /\ \A n \in 1..Len(undo[t]) : Append(undo[t], e)[n] = undo[t][n]
      /\ Append(undo[t], e)[Len(undo[t]) + 1] = e
  BY Grown DEF Types
<1>5. \A u \in Txn : IsUndo(undo'[u])
  BY <1>3, <1>4 DEF Types
<1>6. transaction_lock # NoTxn => transaction_lock \in Txn \ {t}
  BY <1>1 DEF Types
<1>7. \A u \in Txn : phase'[u] \in {"committing", "rolling_back"} <=> transaction_lock' = u
  BY <1>2 DEF Types
<1>8. {u \in Txn : phase'[u] = "ended"} = {u \in Txn : phase[u] = "ended"}
  BY <1>2
<1>9. Running' = Running
  BY <1>2 DEF Running
<1>10. transaction_lock' # NoTxn => at' \in 0..Len(undo'[transaction_lock'])
  BY <1>3, <1>6 DEF Types
<1>11. Types'
  BY <1>2, <1>3, <1>5, <1>7, <1>8, <1>10 DEF Types, clocks
<1>12. Clocks'
  BY <1>2, <1>9 DEF Clocks, clocks, Types
<1>13. \A u \in Txn : \A n \in DOMAIN undo'[u] :
         \/ n \in DOMAIN undo[u] /\ undo'[u][n] = undo[u][n]
         \/ u = t /\ undo'[u][n] = e /\ undo' # undo
  <2>1. ASSUME undo'[t] = Append(undo[t], e), undo' # undo, NEW n \in DOMAIN undo'[t]
        PROVE  \/ n \in DOMAIN undo[t] /\ undo'[t][n] = undo[t][n]
               \/ undo'[t][n] = e
    <3>1. n \in 1..Len(undo[t]) \/ n = Len(undo[t]) + 1
      BY <1>4, <2>1
    <3> QED
      BY <1>4, <2>1, <3>1
  <2> QED
    BY <1>3, <2>1
<1>14. Undos'
  <2> SUFFICES ASSUME NEW u \in Txn
               PROVE  /\ phase'[u] = "idle" => undo'[u] = <<>>
                      /\ \A n \in DOMAIN undo'[u] :
                           /\ undo'[u][n].kind \in {"append", "delete", "update"}
                           /\ undo'[u][n].kind = "append" =>
                                 /\ n = Len(undo'[u]) /\ undo'[u][n].start_row \in Nat
                                 /\ undo'[u][n].count \in Nat
                                 /\ phase'[u] \in {"committing", "rolling_back", "ended"}
                           /\ undo'[u][n].kind = "delete" => undo'[u][n].vector_idx \in Vector
    BY DEF Undos
  <2>1. CASE u # t
    BY <1>2, <1>3, <2>1 DEF Undos
  <2>2. CASE u = t
    BY <1>2, <1>13, <2>2 DEF Undos
  <2> QED
    BY <2>1, <2>2
<1>15. HasFlushed' = HasFlushed /\ (HasFlushed => Flush' = Flush)
  BY <1>3, <1>6 DEF HasFlushed, Flush
<1>16. BaseRow' = BaseRow
  BY <1>15 DEF BaseRow
<1>17. transaction_lock # NoTxn => FlushMark' = FlushMark
  BY <1>2, <1>3, <1>6 DEF FlushMark, clocks
<1>18. FlushWhole'
  <2>1. CASE HasFlushed
    <3>1. transaction_lock \in Txn \ {t}
      BY <1>6, <2>1 DEF HasFlushed
    <3> QED
      BY <1>2, <1>15, <2>1, <3>1 DEF FlushWhole
  <2> QED
    BY <1>15, <2>1 DEF FlushWhole
<1> QED
  BY <1>2, <1>9, <1>11, <1>12, <1>13, <1>14, <1>16, <1>17, <1>18 DEF Running

\* The versions are untouched and so is what the invariant compares them with.
LEMMA VersionsStay ==
  ASSUME VersionsSane(vector_info, total_rows), Flushed(vector_info, total_rows), Types, Undos,
         UNCHANGED <<vector_info, total_rows, current_transaction_id, transaction_id>>,
         current_start_timestamp' \in {current_start_timestamp, current_start_timestamp + 1},
         BaseRow' = BaseRow, HasFlushed => FlushMark' = FlushMark,
         Running' = Running, \A u \in Txn : phase'[u] = "active" => phase[u] = "active",
         \A u \in Running : \A n \in DOMAIN undo'[u] :
               \/ n \in DOMAIN undo[u] /\ undo'[u][n] = undo[u][n]
               \/ undo'[u][n].kind # "delete"
  PROVE  VersionsSane(vector_info, total_rows)' /\ Flushed(vector_info, total_rows)'
<1>1. DeletesMarked(vector_info)'
  BY DEF DeletesMarked, VersionsSane
<1>2. InsertIds(vector_info)'
  <2>1. \A v \in Vector : vector_info[v].type # "none" => vector_info[v].insert_id \in Nat
    BY DEF Types, Infos, NoInfo, ConstantInfos, VectorInfos
  <2>2. \A k \in Nat : k < current_start_timestamp => k < current_start_timestamp'
    BY DEF Types
  <2> QED
    BY <2>1, <2>2 DEF InsertIds, VersionsSane
<1>3. \A v \in Vector : Shortcuts(vector_info'[v], v, total_rows')
  BY DEF VersionsSane
<1>4. VersionsSane(vector_info, total_rows)'
  BY <1>1, <1>2, <1>3 DEF VersionsSane
<1>5. Flushed(vector_info, total_rows)'
  <2> SUFFICES ASSUME NEW v \in Vector, NEW i \in Slot, RowAt(v, i) \in BaseRow..total_rows - 1
               PROVE  /\ vector_info[v].type # "none"
                      /\ OneMark(vector_info[v]) => BaseRow <= v * STANDARD_VECTOR_SIZE
                      /\ MarkAt(vector_info[v], i) = FlushMark'
    BY DEF Flushed, FlushedAs
  <2>1. HasFlushed
    <3> SUFFICES ASSUME ~ HasFlushed PROVE FALSE
      OBVIOUS
    <3>1. BaseRow = total_rows /\ total_rows \in Nat
      BY DEF BaseRow, Types
    <3> QED
      BY <3>1
  <2> QED
    BY <2>1 DEF Flushed, FlushedAs
<1> QED
  BY <1>4, <1>5

\* An INSERT goes to the local storage and leaves the table alone.
LEMMA LocalAppendStep ==
  ASSUME VInv, NEW t \in Txn, NEW n \in AppendCounts, LocalAppend(t, n)
  PROVE  VInv'
<1>1. /\ phase[t] = "active" /\ local' = [local EXCEPT ![t] = @ + n]
      /\ UNCHANGED <<phase, clocks, commit_id, transaction_lock, undo, at, total_rows, vector_info,
                     recently_committed>>
  <2>1. /\ phase[t] = "active" /\ local' = [local EXCEPT ![t] = @ + n]
        /\ UNCHANGED <<phase, clocks, commit_id, transaction_lock, undo, at, table,
                       recently_committed, faults, live>>
    BY Zenon DEF LocalAppend
  <2> QED
    BY <2>1 DEF table
<1>2. local' \in [Txn -> Nat]
  BY <1>1, TableConstants DEF VInv, Types
<1> DEFINE e == [kind |-> "update"]
<1>3. e.kind \in {"delete", "update"} /\ ~ (e.kind = "delete")
  OBVIOUS
<1>4. vector_info' \in [Vector -> Infos]
  BY <1>1 DEF VInv, Types
<1> HIDE DEF e
<1>5. /\ Types' /\ Clocks' /\ Undos' /\ FlushWhole' /\ Running' = Running
      /\ BaseRow' = BaseRow /\ (transaction_lock # NoTxn => FlushMark' = FlushMark)
  BY <1>1, <1>2, <1>3, <1>4, QuietStep
<1>6. VersionsSane(vector_info, total_rows)' /\ Flushed(vector_info, total_rows)'
  BY <1>1, <1>5, VersionsStay DEF VInv, clocks, HasFlushed
<1> QED
  BY <1>5, <1>6 DEF VInv

\* An UPDATE adds an entry to its undo buffer and no mark to a row.
LEMMA UpdateStep ==
  ASSUME VInv, NEW t \in Txn, NEW v \in Vector, NEW p, Update(t, v, p)
  PROVE  VInv'
<1> DEFINE e == [kind |-> "update", vector_idx |-> v]
<1>1. /\ phase[t] = "active"
      /\ UNCHANGED <<clocks, commit_id, transaction_lock, local, at, total_rows, vector_info,
                     recently_committed>>
      /\ phase' = phase \/ phase' = [phase EXCEPT ![t] = "invalid"]
      /\ undo' = undo \/ undo' = [undo EXCEPT ![t] = Append(@, e)]
  BY DEF Update
<1>2. local' \in [Txn -> Nat] /\ vector_info' \in [Vector -> Infos]
  BY <1>1 DEF VInv, Types
<1>3. e.kind = "update"
  OBVIOUS
<1> HIDE DEF e
<1>5. /\ Types' /\ Clocks' /\ Undos' /\ FlushWhole' /\ Running' = Running
      /\ BaseRow' = BaseRow /\ (transaction_lock # NoTxn => FlushMark' = FlushMark)
      /\ \A u \in Running : \A n \in DOMAIN undo'[u] :
            \/ n \in DOMAIN undo[u] /\ undo'[u][n] = undo[u][n]
            \/ u = t /\ undo'[u][n] = e /\ undo' # undo
      /\ \A u \in Txn : phase'[u] = "active" => phase[u] = "active"
  BY <1>1, <1>2, <1>3, QuietStep
<1>6. VersionsSane(vector_info, total_rows)' /\ Flushed(vector_info, total_rows)'
  <2>1. \A u \in Running : \A n \in DOMAIN undo'[u] :
            \/ n \in DOMAIN undo[u] /\ undo'[u][n] = undo[u][n]
            \/ undo'[u][n].kind # "delete"
    BY <1>3, <1>5
  <2> QED
    BY <1>1, <1>5, <2>1, VersionsStay DEF VInv, clocks, HasFlushed
<1> QED
  BY <1>5, <1>6 DEF VInv

\* Deletes put a mark on rows and change no insert mark.
LEMMA DeletedInfo ==
  ASSUME NEW info \in Infos, NEW v, NEW total, Shortcuts(info, v, total), NEW rows, NEW id \in Nat
  PROVE  \E D \in [Slot -> Nat] : DeleteRows(info, rows, id).info = Remarked(info, D)
<1> DEFINE g == GetVectorInfo(info)
           marked == DeleteRows(info, rows, id).rows
           D == [i \in Slot |-> IF i \in marked THEN id ELSE g.deleted[i]]
<1>1. g \in VectorInfos
  BY VectorInfoOf
<1>2. D \in [Slot -> Nat]
  BY <1>1 DEF VectorInfos
<1>3. DeleteRows(info, rows, id).info = [g EXCEPT !.any_deleted = TRUE, !.deleted = D]
  BY Zenon DEF DeleteRows
<1> QED
  BY <1>2, <1>3 DEF Remarked

\* The infos with the vector v remarked.
RemarkedAt(infos, v, D) == [infos EXCEPT ![v] = Remarked(infos[v], D)]

\* Whatever is deleted from, or taken back in, the vector v of infos that the
\* invariant holds of, it still holds of them.
LEMMA RemarkedVersions ==
  ASSUME NEW infos, NEW total, VersionsSane(infos, total), NEW v \in Vector, NEW D \in [Slot -> Nat],
         NEW new, new = RemarkedAt(infos, v, D), Clocks, Types, Undos
  PROVE  /\ VersionsSane(new, total) /\ new[v].type = "vector" /\ new[v].any_deleted
         /\ Flushed(infos, total) => Flushed(new, total)
<1>1. /\ infos \in [Vector -> Infos] /\ infos[v] \in Infos /\ total \in Nat /\ BaseRow <= total
      /\ \A w \in Vector : Shortcuts(infos[w], w, total)
  BY DEF VersionsSane
<1>2. /\ new[v] = Remarked(infos[v], D) /\ \A w \in Vector \ {v} : new[w] = infos[w]
      /\ DOMAIN new = Vector /\ new = [w \in Vector |-> new[w]]
  BY <1>1 DEF RemarkedAt
<1>3. /\ new[v] \in VectorInfos /\ new[v].type = "vector" /\ new[v].any_deleted
      /\ Shortcuts(new[v], v, total)
      /\ \A i \in Slot : MarkAt(new[v], i) = MarkAt(infos[v], i)
      /\ infos[v].type # "none" => new[v].insert_id = infos[v].insert_id
      /\ infos[v].type = "none" => new[v].insert_id = 0
      /\ infos[v].type # "none" /\ OneMark(new[v]) => OneMark(infos[v])
  BY <1>1, <1>2, RemarkedInfo
<1> HIDE DEF Remarked
<1>4. new \in [Vector -> Infos]
  <2>1. \A w \in Vector : new[w] \in Infos
    BY <1>1, <1>2, <1>3 DEF Infos
  <2> QED
    BY <1>2, <2>1
<1>5. DeletesMarked(new)
  <2> SUFFICES ASSUME NEW t \in Running, NEW n \in DOMAIN undo[t], undo[t][n].kind = "delete"
               PROVE  /\ undo[t][n].vector_idx * STANDARD_VECTOR_SIZE < BaseRow
                      /\ new[undo[t][n].vector_idx].type = "vector"
                      /\ new[undo[t][n].vector_idx].any_deleted
    BY DEF DeletesMarked
  <2>1. undo[t][n].vector_idx \in Vector
    BY DEF Undos, Running
  <2> QED
    BY <1>2, <1>3, <2>1 DEF DeletesMarked, VersionsSane
<1>6. InsertIds(new)
  <2>1. ASSUME NEW t \in Txn, phase[t] = "active" PROVE transaction_id[t] # 0
    <3>1. t \in Running /\ transaction_id[t] \in Nat
      BY <2>1 DEF Running, Types
    <3>2. TRANSACTION_ID_START <= transaction_id[t]
      BY <3>1 DEF Clocks
    <3> QED
      BY <3>1, <3>2, VersionConstants
  <2>2. 0 < current_start_timestamp
    BY DEF Clocks
  <2>3. ASSUME infos[v].type = "none"
        PROVE  /\ new[v].insert_id < current_start_timestamp
               /\ \A t \in Txn : phase[t] = "active" => new[v].insert_id # transaction_id[t]
    BY <1>3, <2>1, <2>2, <2>3
  <2> QED
    BY <1>2, <1>3, <2>3 DEF InsertIds, VersionsSane
<1>7. \A w \in Vector : Shortcuts(new[w], w, total)
  BY <1>1, <1>2, <1>3
<1>8. ASSUME Flushed(infos, total) PROVE Flushed(new, total)
  BY <1>2, <1>3, <1>8 DEF Flushed, FlushedAs
<1> QED
  BY <1>1, <1>3, <1>4, <1>5, <1>6, <1>7, <1>8 DEF VersionsSane

\* A DELETE finds rows that it sees, none of which a commit in progress has put
\* into the table.
LEMMA DeleteStep ==
  ASSUME VInv, InRange, NEW t \in Txn, NEW v \in Vector, NEW p, Delete(t, v, p)
  PROVE  VInv'
<1> DEFINE id     == transaction_id[t]
           rows   == Matching(t, v, p)
           result == DeleteRows(vector_info[v], rows, id)
           e      == DeleteInfo(v, result.rows)
<1>1. /\ phase[t] = "active" /\ rows # {}
      /\ vector_info' = [vector_info EXCEPT ![v] = result.info]
      /\ UNCHANGED <<clocks, commit_id, transaction_lock, local, at, total_rows, recently_committed>>
      /\ phase' = phase \/ phase' = [phase EXCEPT ![t] = "invalid"]
      /\ undo' = undo \/ undo' = [undo EXCEPT ![t] = Append(@, e)]
  BY DEF Delete
<1>2. e.kind = "delete" /\ e.vector_idx = v
  BY DEF DeleteInfo
<1>3. /\ VersionsSane(vector_info, total_rows) /\ Flushed(vector_info, total_rows)
      /\ Types /\ Undos /\ Clocks
  BY DEF VInv
<1>4. id \in Nat /\ vector_info[v] \in Infos /\ Shortcuts(vector_info[v], v, total_rows)
      /\ total_rows \in Nat
  BY <1>3 DEF Types, VersionsSane
<1>5. PICK D \in [Slot -> Nat] : result.info = Remarked(vector_info[v], D)
  BY <1>4, DeletedInfo
<1> DEFINE new == RemarkedAt(vector_info, v, D)
<1> HIDE DEF result, rows, e, id
<1>6. vector_info' = new
  BY <1>1, <1>5 DEF RemarkedAt
<1>7. VersionsSane(new, total_rows) /\ new[v].type = "vector" /\ new[v].any_deleted
      /\ Flushed(new, total_rows)
  BY <1>3, <1>5, RemarkedVersions
<1> HIDE DEF new
<1>8. /\ local' \in [Txn -> Nat] /\ new \in [Vector -> Infos] /\ vector_info' \in [Vector -> Infos]
      /\ e.kind \in {"delete", "update"} /\ e.vector_idx \in Vector
  BY <1>1, <1>2, <1>3, <1>6, <1>7 DEF Types, VersionsSane
<1>9. /\ Types' /\ Clocks' /\ Undos' /\ FlushWhole' /\ Running' = Running
      /\ BaseRow' = BaseRow /\ (transaction_lock # NoTxn => FlushMark' = FlushMark)
      /\ \A u \in Running : \A n \in DOMAIN undo'[u] :
            \/ n \in DOMAIN undo[u] /\ undo'[u][n] = undo[u][n]
            \/ u = t /\ undo'[u][n] = e /\ undo' # undo
      /\ \A u \in Txn : phase'[u] = "active" => phase[u] = "active"
  BY <1>1, <1>2, <1>6, <1>8, QuietStep
<1>10. v * STANDARD_VECTOR_SIZE < BaseRow
  <2>1. PICK i \in rows : TRUE
    BY <1>1
  <2>2. i \in GetSelVector(vector_info[v], Data(t)) /\ RowAt(v, i) < total_rows
    BY <2>1 DEF rows, Matching, Scan
  <2>3. i \in Slot
    <3>1. vector_info[v].type \in {"none", "constant", "vector"}
      BY <1>4 DEF Infos, NoInfo, ConstantInfos, VectorInfos
    <3> QED
      BY <2>2, <3>1 DEF GetSelVector
  <2>4. RowAt(v, i) \in Nat /\ v * STANDARD_VECTOR_SIZE \in Nat
        /\ v * STANDARD_VECTOR_SIZE <= RowAt(v, i)
    BY <2>3, RowPlaces
  <2>5. UseInsertedVersion(Data(t), MarkAt(vector_info[v], i))
        \/ vector_info[v].type = "none"
    <3>1. CASE vector_info[v] \in ConstantInfos
      <4>1. vector_info[v].type = "constant"
        BY <3>1 DEF ConstantInfos
      <4> QED
        BY <2>2, <4>1 DEF GetSelVector, MarkAt
    <3>2. CASE vector_info[v] \in VectorInfos
      <4>1. vector_info[v].type = "vector"
        BY <3>2 DEF VectorInfos
      <4>2. UseInsertedVersion(Data(t), InsertMark(vector_info[v], i))
        BY <2>2, <4>1 DEF GetSelVector
      <4>3. InsertMark(vector_info[v], i) = MarkAt(vector_info[v], i)
        BY <1>4, <2>2, <2>3, <4>1 DEF InsertMark, MarkAt, Shortcuts
      <4> QED
        BY <4>2, <4>3
    <3>3. CASE vector_info[v] = NoInfo
      BY <3>3 DEF NoInfo
    <3> QED
      BY <1>4, <3>1, <3>2, <3>3 DEF Infos
  <2>6. BaseRow \in Nat
    BY <1>4, <1>3, FlushFacts DEF BaseRow
  <2> SUFFICES ASSUME BaseRow <= RowAt(v, i) PROVE FALSE
    BY <2>4, <2>6
  <2>7. /\ vector_info[v].type # "none" /\ MarkAt(vector_info[v], i) = FlushMark
    BY <1>3, <1>4, <2>2, <2>3, <2>4, <2>6 DEF Flushed, FlushedAs
  <2>8. HasFlushed /\ transaction_lock \in Txn
    <3>1. BaseRow # total_rows
      BY <1>4, <2>2, <2>4, <2>6
    <3>2. HasFlushed
      BY <3>1 DEF BaseRow
    <3> QED
      BY <1>3, <3>2, FlushFacts
  <2> DEFINE u == transaction_lock
  <2>9. u # t /\ phase[u] \in {"committing", "rolling_back"} /\ u \in Running /\ t \in Running
    BY <1>1, <1>3, <2>8 DEF Types, Running
  <2>10. ~ UseInsertedVersion(Data(t), transaction_id[u])
    <3>1. /\ transaction_id[u] # transaction_id[t] /\ start_time[t] < current_start_timestamp
          /\ TRANSACTION_ID_START <= transaction_id[u]
      BY <1>3, <2>9 DEF Clocks
    <3>2. /\ start_time[t] \in Nat /\ transaction_id[u] \in Nat /\ current_start_timestamp \in Nat
          /\ TRANSACTION_ID_START \in Nat /\ current_start_timestamp <= TRANSACTION_ID_START
      BY <1>3, <2>9, VersionConstants DEF Types, InRange, Running
    <3> HIDE DEF u
    <3>3. ~ (transaction_id[u] < start_time[t])
      BY <3>1, <3>2
    <3> QED
      BY <3>1, <3>3 DEF UseInsertedVersion, Data
  <2>11. phase[u] = "committing" => ~ UseInsertedVersion(Data(t), commit_id[u])
    <3> SUFFICES ASSUME phase[u] = "committing" PROVE ~ UseInsertedVersion(Data(t), commit_id[u])
      OBVIOUS
    <3>1. /\ commit_id[u] < current_start_timestamp /\ start_time[t] < commit_id[u]
          /\ TRANSACTION_ID_START <= transaction_id[t]
      BY <1>3, <2>8, <2>9 DEF Clocks
    <3>2. /\ start_time[t] \in Nat /\ commit_id[u] \in Nat /\ current_start_timestamp \in Nat
          /\ transaction_id[t] \in Nat
          /\ TRANSACTION_ID_START \in Nat /\ current_start_timestamp <= TRANSACTION_ID_START
      BY <1>3, <2>9, VersionConstants DEF Types, InRange, Running
    <3> HIDE DEF u
    <3>3. ~ (commit_id[u] < start_time[t]) /\ commit_id[u] # transaction_id[t]
      BY <3>1, <3>2
    <3> QED
      BY <3>3 DEF UseInsertedVersion, Data
  <2> QED
    BY <2>5, <2>7, <2>10, <2>11 DEF FlushMark
<1>11. DeletesMarked(vector_info)'
  <2> SUFFICES ASSUME NEW u \in Running, NEW n \in DOMAIN undo'[u], undo'[u][n].kind = "delete"
               PROVE  /\ undo'[u][n].vector_idx * STANDARD_VECTOR_SIZE < BaseRow
                      /\ new[undo'[u][n].vector_idx].type = "vector"
                      /\ new[undo'[u][n].vector_idx].any_deleted
    BY <1>6, <1>9 DEF DeletesMarked
  <2>1. CASE n \in DOMAIN undo[u] /\ undo'[u][n] = undo[u][n]
    BY <1>7, <2>1 DEF VersionsSane, DeletesMarked
  <2>2. CASE undo'[u][n] = e
    BY <1>2, <1>7, <1>10, <2>2
  <2> QED
    BY <1>9, <2>1, <2>2
<1>12. InsertIds(vector_info)'
  BY <1>1, <1>6, <1>7, <1>9 DEF InsertIds, VersionsSane, clocks
<1>13. VersionsSane(vector_info, total_rows)'
  BY <1>1, <1>6, <1>7, <1>9, <1>11, <1>12 DEF VersionsSane
<1>14. Flushed(vector_info, total_rows)'
  <2> SUFFICES ASSUME NEW w \in Vector, NEW i \in Slot, RowAt(w, i) \in BaseRow..total_rows - 1
               PROVE  /\ new[w].type # "none"
                      /\ OneMark(new[w]) => BaseRow <= w * STANDARD_VECTOR_SIZE
                      /\ MarkAt(new[w], i) = FlushMark'
    BY <1>1, <1>6, <1>9 DEF Flushed, FlushedAs
  <2>1. transaction_lock # NoTxn
    <3> SUFFICES ASSUME transaction_lock = NoTxn PROVE FALSE
      OBVIOUS
    <3>1. BaseRow = total_rows
      BY <1>3, FlushFacts
    <3> QED
      BY <1>4, <3>1
  <2> QED
    BY <1>7, <1>9, <2>1 DEF Flushed, FlushedAs
<1> QED
  BY <1>9, <1>13, <1>14 DEF VInv

\* A transaction begins with ids that no row has yet.
LEMMA StartStep ==
  ASSUME VInv, InRange, InRange', NEW t \in Txn, StartTransaction(t)
  PROVE  VInv'
<1>1. /\ phase[t] = "idle" /\ transaction_lock = NoTxn
      /\ phase' = [phase EXCEPT ![t] = "active"]
      /\ start_time' = [start_time EXCEPT ![t] = current_start_timestamp]
      /\ transaction_id' = [transaction_id EXCEPT ![t] = current_transaction_id]
      /\ current_start_timestamp' = current_start_timestamp + 1
      /\ current_transaction_id' = current_transaction_id + 1
      /\ UNCHANGED <<commit_id, transaction_lock, local, undo, at, total_rows, vector_info,
                     recently_committed>>
  BY DEF StartTransaction, table
<1>2. /\ VersionsSane(vector_info, total_rows) /\ Flushed(vector_info, total_rows)
      /\ Types /\ Undos /\ Clocks
  BY DEF VInv
<1>3. /\ phase' \in [Txn -> {"idle", "active", "invalid", "committing", "rolling_back", "ended"}]
      /\ \A u \in Txn \ {t} : phase'[u] = phase[u]
      /\ phase'[t] = "active"
      /\ \A u \in Txn \ {t} : start_time'[u] = start_time[u] /\ transaction_id'[u] = transaction_id[u]
      /\ start_time'[t] = current_start_timestamp /\ transaction_id'[t] = current_transaction_id
      /\ start_time' \in [Txn -> Nat] /\ transaction_id' \in [Txn -> Nat]
      /\ current_start_timestamp \in Nat /\ current_transaction_id \in Nat
  BY <1>1, <1>2 DEF Types
<1>4. \A u \in Txn : phase'[u] \notin {"committing", "rolling_back"}
  BY <1>1, <1>2, <1>3, TableConstants DEF Types
<1>5. Running' = Running \cup {t} /\ t \notin Running /\ undo[t] = <<>>
  BY <1>1, <1>2, <1>3 DEF Running, Undos
<1>6. Types'
  <2>1. {u \in Txn : phase'[u] = "ended"} = {u \in Txn : phase[u] = "ended"}
    BY <1>1, <1>3
  <2>2. \A u \in Txn : phase'[u] \in {"committing", "rolling_back"} <=> transaction_lock' = u
    BY <1>1, <1>4, TableConstants
  <2>3. current_start_timestamp' \in Nat /\ current_transaction_id' \in Nat
    BY <1>1, <1>3
  <2> QED
    BY <1>1, <1>2, <1>3, <2>1, <2>2, <2>3 DEF Types
<1>7. Clocks'
  <2>1. \A u \in Running' : /\ start_time'[u] < current_start_timestamp'
                            /\ TRANSACTION_ID_START <= transaction_id'[u]
                            /\ transaction_id'[u] < current_transaction_id'
    <3> SUFFICES ASSUME NEW u \in Running'
                 PROVE  /\ start_time'[u] < current_start_timestamp'
                        /\ TRANSACTION_ID_START <= transaction_id'[u]
                        /\ transaction_id'[u] < current_transaction_id'
      OBVIOUS
    <3>1. CASE u = t
      BY <1>1, <1>2, <1>3, <3>1 DEF Clocks
    <3>2. CASE u \in Running
      <4>1. u \in Txn \ {t} /\ start_time[u] \in Nat /\ transaction_id[u] \in Nat
        BY <1>2, <1>5, <3>2 DEF Running, Types
      <4>2. start_time[u] < current_start_timestamp /\ TRANSACTION_ID_START <= transaction_id[u]
            /\ transaction_id[u] < current_transaction_id
        BY <1>2, <3>2 DEF Clocks
      <4> QED
        BY <1>1, <1>3, <4>1, <4>2
    <3> QED
      BY <1>5, <3>1, <3>2
  <2>2. ASSUME NEW u \in Running', NEW w \in Running', transaction_id'[u] = transaction_id'[w]
        PROVE  u = w
    <3>1. \A x \in Running : x \in Txn \ {t} /\ transaction_id'[x] = transaction_id[x]
                             /\ transaction_id[x] # current_transaction_id
      <4> SUFFICES ASSUME NEW x \in Running
                   PROVE  x \in Txn \ {t} /\ transaction_id'[x] = transaction_id[x]
                          /\ transaction_id[x] # current_transaction_id
        OBVIOUS
      <4>1. x \in Txn \ {t}
        BY <1>5 DEF Running
      <4>2. transaction_id[x] \in Nat /\ transaction_id[x] < current_transaction_id
        BY <1>2, <4>1 DEF Clocks, Types
      <4> QED
        BY <1>3, <4>1, <4>2
    <3>2. CASE u \in Running /\ w \in Running
      BY <1>2, <2>2, <3>1, <3>2 DEF Clocks
    <3> QED
      BY <1>3, <1>5, <2>2, <3>1, <3>2
  <2>3. TRANSACTION_ID_START <= current_transaction_id' /\ 0 < current_start_timestamp'
    BY <1>1, <1>2, <1>3, VersionConstants DEF Clocks
  <2> QED
    BY <1>4, <2>1, <2>2, <2>3 DEF Clocks
<1>8. Undos'
  BY <1>1, <1>2, <1>3, <1>5 DEF Undos
<1>9. /\ FlushWhole' /\ BaseRow' = total_rows /\ BaseRow = total_rows
  BY <1>1 DEF FlushWhole, HasFlushed, BaseRow
<1>10. DeletesMarked(vector_info)'
  BY <1>1, <1>2, <1>5, <1>9 DEF VersionsSane, DeletesMarked
<1>11. InsertIds(vector_info)'
  <2> SUFFICES ASSUME NEW v \in Vector, vector_info[v].type # "none"
               PROVE  /\ \/ vector_info[v].insert_id < current_start_timestamp'
                         \/ vector_info[v].insert_id \in TRANSACTION_ID_START..current_transaction_id' - 1
                         \/ vector_info[v].insert_id = NOT_DELETED_ID
                      /\ \A u \in Txn : phase'[u] = "active" => vector_info[v].insert_id # transaction_id'[u]
    BY <1>1 DEF InsertIds
  <2> DEFINE k == vector_info[v].insert_id
  <2>1. /\ \/ k < current_start_timestamp
           \/ k \in TRANSACTION_ID_START..current_transaction_id - 1
           \/ k = NOT_DELETED_ID
        /\ \A u \in Txn : phase[u] = "active" => k # transaction_id[u]
    BY <1>2 DEF VersionsSane, InsertIds
  <2>2. k \in Nat
    BY <1>2 DEF Types, Infos, NoInfo, ConstantInfos, VectorInfos
  <2> HIDE DEF k
  <2>3. k # current_transaction_id
    BY <1>1, <1>2, <1>3, <2>1, <2>2, VersionConstants DEF Clocks, InRange
  <2>4. \/ k < current_start_timestamp'
        \/ k \in TRANSACTION_ID_START..current_transaction_id' - 1
        \/ k = NOT_DELETED_ID
    BY <1>1, <1>3, <2>1, <2>2, VersionConstants
  <2> QED
    BY <1>3, <2>1, <2>3, <2>4 DEF k
<1>12. VersionsSane(vector_info, total_rows)'
  BY <1>1, <1>2, <1>9, <1>10, <1>11 DEF VersionsSane, Types
<1>13. Flushed(vector_info, total_rows)'
  <2> SUFFICES ASSUME NEW v \in Vector, NEW i \in Slot, RowAt(v, i) \in total_rows..total_rows - 1
               PROVE  FALSE
    BY <1>1, <1>9 DEF Flushed, FlushedAs
  <2> QED
    BY <1>2 DEF Types
<1> QED
  BY <1>6, <1>7, <1>8, <1>9, <1>12, <1>13 DEF VInv

\* Whoever takes the lock to commit or to roll back, with or without a flush.
LEMMA LockTaken ==
  ASSUME VInv, NEW t \in Txn, phase[t] \in {"active", "invalid"}, transaction_lock = NoTxn,
         transaction_lock' = t, NEW p \in {"committing", "rolling_back"},
         phase' = [phase EXCEPT ![t] = p], local' = [local EXCEPT ![t] = 0],
         UNCHANGED <<start_time, transaction_id, current_transaction_id, recently_committed>>,
         current_start_timestamp' \in {current_start_timestamp, current_start_timestamp + 1},
         \/ p = "rolling_back" /\ commit_id' = commit_id
         \/ /\ commit_id' = [commit_id EXCEPT ![t] = current_start_timestamp]
            /\ current_start_timestamp' = current_start_timestamp + 1,
         vector_info' \in [Vector -> Infos], total_rows' \in Nat,
         \/ undo' = undo /\ total_rows' = total_rows
         \/ undo' = [undo EXCEPT ![t] = Append(@, AppendEntry(t))],
         at' \in 0..Len(undo'[t])
  PROVE  /\ Types' /\ Clocks' /\ Undos'
         /\ BaseRow = total_rows /\ BaseRow' = total_rows /\ ~ HasFlushed
         /\ HasFlushed' => Flush' = AppendEntry(t) /\ undo' = [undo EXCEPT ![t] = Append(@, AppendEntry(t))]
         /\ Running' = Running
         /\ \A u \in Running : \A n \in DOMAIN undo'[u] :
               \/ n \in DOMAIN undo[u] /\ undo'[u][n] = undo[u][n]
               \/ undo'[u][n].kind # "delete"
         /\ \A u \in Txn : phase'[u] = "active" => phase[u] = "active" /\ u # t
<1> DEFINE e == AppendEntry(t)
<1>1. Types /\ Undos /\ Clocks /\ t # NoTxn
  BY TableConstants DEF VInv
<1>2. /\ phase' \in [Txn -> {"idle", "active", "invalid", "committing", "rolling_back", "ended"}]
      /\ \A u \in Txn \ {t} : phase'[u] = phase[u]
      /\ phase'[t] = p
  BY <1>1 DEF Types
<1>3. /\ DOMAIN undo' = Txn /\ \A u \in Txn \ {t} : undo'[u] = undo[u]
      /\ (undo' = undo /\ undo'[t] = undo[t]) \/ undo'[t] = Append(undo[t], e)
  BY <1>1 DEF Types
<1>4. e.kind = "append" /\ e.start_row = total_rows /\ e.count = local[t]
      /\ total_rows \in Nat /\ local[t] \in Nat
  BY <1>1 DEF AppendEntry, Types
<1> HIDE DEF e
<1>5. /\ IsUndo(undo[t]) /\ Len(undo[t]) \in Nat /\ DOMAIN undo[t] = 1..Len(undo[t])
      /\ IsUndo(Append(undo[t], e))
      /\ Len(Append(undo[t], e)) = Len(undo[t]) + 1
      /\ DOMAIN Append(undo[t], e) = 1..Len(undo[t]) + 1
      /\ \A n \in 1..Len(undo[t]) : Append(undo[t], e)[n] = undo[t][n]
      /\ Append(undo[t], e)[Len(undo[t]) + 1] = e
  BY <1>1, Grown DEF Types
<1>6. \A u \in Txn : IsUndo(undo'[u])
  BY <1>1, <1>3, <1>5 DEF Types
<1>7. Running' = Running
  BY <1>2 DEF Running
<1>8. \A u \in Txn \ {t} : phase'[u] \notin {"committing", "rolling_back"}
  BY <1>1, <1>2, TableConstants DEF Types
<1>9. Types'
  <2>1. {u \in Txn : phase'[u] = "ended"} = {u \in Txn : phase[u] = "ended"}
    BY <1>2
  <2>2. \A u \in Txn : phase'[u] \in {"committing", "rolling_back"} <=> transaction_lock' = u
    BY <1>2, <1>8
  <2>3. current_start_timestamp' \in Nat /\ commit_id' \in [Txn -> Nat] /\ local' \in [Txn -> Nat]
    <3>1. current_start_timestamp \in Nat /\ commit_id \in [Txn -> Nat] /\ local \in [Txn -> Nat]
      BY <1>1 DEF Types
    <3>2. commit_id' \in [Txn -> Nat]
      BY <3>1
    <3>3. local' \in [Txn -> Nat]
      BY <3>1
    <3> QED
      BY <3>1, <3>2, <3>3
  <2> QED
    BY <1>1, <1>2, <1>3, <1>6, <2>1, <2>2, <2>3 DEF Types
<1>10. Clocks'
  <2>1. \A u \in Running : /\ start_time[u] < current_start_timestamp'
                           /\ TRANSACTION_ID_START <= transaction_id[u]
                           /\ transaction_id[u] < current_transaction_id
    <3> SUFFICES ASSUME NEW u \in Running
                 PROVE  /\ start_time[u] < current_start_timestamp'
                        /\ TRANSACTION_ID_START <= transaction_id[u]
                        /\ transaction_id[u] < current_transaction_id
      OBVIOUS
    <3>1. u \in Txn /\ start_time[u] \in Nat /\ current_start_timestamp \in Nat
      BY <1>1 DEF Running, Types
    <3> QED
      BY <1>1, <3>1 DEF Clocks
  <2>2. 0 < current_start_timestamp'
    BY <1>1 DEF Types, Clocks
  <2>3. ASSUME NEW u \in Txn, phase'[u] = "committing"
        PROVE  /\ commit_id'[u] < current_start_timestamp'
               /\ \A w \in Running : start_time[w] < commit_id'[u]
    <3>1. u = t /\ p = "committing"
      BY <1>2, <1>8, <2>3
    <3>2. commit_id'[t] = current_start_timestamp /\ current_start_timestamp \in Nat
          /\ current_start_timestamp' = current_start_timestamp + 1
      BY <1>1, <3>1 DEF Types
    <3> QED
      BY <1>1, <3>1, <3>2 DEF Clocks
  <2> QED
    BY <1>1, <1>7, <2>1, <2>2, <2>3 DEF Clocks
<1>11. \A n \in DOMAIN undo[t] : undo[t][n].kind # "append"
  BY <1>1 DEF Undos
<1>12. \A n \in DOMAIN undo'[t] :
         \/ n \in DOMAIN undo[t] /\ undo'[t][n] = undo[t][n]
         \/ n = Len(undo'[t]) /\ undo'[t][n] = e
  <2>1. ASSUME undo'[t] = Append(undo[t], e), NEW n \in DOMAIN undo'[t]
        PROVE  \/ n \in DOMAIN undo[t] /\ undo'[t][n] = undo[t][n]
               \/ n = Len(undo'[t]) /\ undo'[t][n] = e
    <3>1. n \in 1..Len(undo[t]) \/ n = Len(undo[t]) + 1
      BY <1>5, <2>1
    <3> QED
      BY <1>5, <2>1, <3>1
  <2> QED
    BY <1>3, <2>1
<1>13. Undos'
  <2> SUFFICES ASSUME NEW u \in Txn
               PROVE  /\ phase'[u] = "idle" => undo'[u] = <<>>
                      /\ \A n \in DOMAIN undo'[u] :
                           /\ undo'[u][n].kind \in {"append", "delete", "update"}
                           /\ undo'[u][n].kind = "append" =>
                                 /\ n = Len(undo'[u]) /\ undo'[u][n].start_row \in Nat
                                 /\ undo'[u][n].count \in Nat
                                 /\ phase'[u] \in {"committing", "rolling_back", "ended"}
                           /\ undo'[u][n].kind = "delete" => undo'[u][n].vector_idx \in Vector
    BY DEF Undos
  <2>1. CASE u # t
    BY <1>1, <1>2, <1>3, <2>1 DEF Undos
  <2>2. CASE u = t
    <3>1. phase'[t] \in {"committing", "rolling_back"}
      BY <1>2
    <3>2. \A n \in DOMAIN undo[t] :
             /\ undo[t][n].kind \in {"append", "delete", "update"}
             /\ undo[t][n].kind = "delete" => undo[t][n].vector_idx \in Vector
      BY <1>1 DEF Undos
    <3> QED
      BY <1>4, <1>11, <1>12, <2>2, <3>1, <3>2
  <2> QED
    BY <2>1, <2>2
<1>14. ~ HasFlushed /\ BaseRow = total_rows
  BY DEF HasFlushed, BaseRow
<1>15. HasFlushed' => undo'[t] = Append(undo[t], e) /\ Flush' = e
  <2> SUFFICES ASSUME HasFlushed' PROVE undo'[t] = Append(undo[t], e) /\ Flush' = e
    OBVIOUS
  <2>1. undo'[t] # <<>> /\ undo'[t][Len(undo'[t])].kind = "append" /\ Flush' = undo'[t][Len(undo'[t])]
    BY DEF HasFlushed, Flush
  <2>2. CASE undo'[t] = undo[t]
    <3>1. undo[t] \in Seq(Range(undo[t])) /\ undo[t] # <<>>
      BY <1>5, <2>1, <2>2 DEF IsUndo
    <3>2. Len(undo[t]) \in DOMAIN undo[t]
      BY <3>1
    <3> QED
      BY <1>11, <2>1, <2>2, <3>2
  <2>3. CASE undo'[t] = Append(undo[t], e)
    BY <1>5, <2>1, <2>3
  <2> QED
    BY <1>3, <2>2, <2>3
<1>16. undo'[t] = Append(undo[t], e) => HasFlushed'
  <2> SUFFICES ASSUME undo'[t] = Append(undo[t], e) PROVE HasFlushed'
    OBVIOUS
  <2>1. Len(undo'[t]) = Len(undo[t]) + 1 /\ undo'[t][Len(undo'[t])] = e
    BY <1>5
  <2>2. ASSUME undo'[t] = <<>> PROVE FALSE
    <3>1. Len(undo'[t]) = 0
      BY <2>2
    <3> QED
      BY <1>5, <2>1, <3>1
  <2> QED
    BY <1>1, <1>4, <2>1, <2>2 DEF HasFlushed
<1>17. BaseRow' = total_rows
  <2>1. CASE HasFlushed'
    <3>1. Flush'.start_row = total_rows
      BY <1>4, <1>15, <2>1
    <3> QED
      BY <2>1, <3>1 DEF BaseRow
  <2>2. CASE ~ HasFlushed'
    <3>1. undo' # [undo EXCEPT ![t] = Append(@, e)]
      BY <1>1, <1>16, <2>2 DEF Types
    <3>2. total_rows' = total_rows
      BY <3>1 DEF e
    <3> QED
      BY <2>2, <3>2 DEF BaseRow
  <2> QED
    BY <2>1, <2>2
<1>18. HasFlushed' => undo' = [undo EXCEPT ![t] = Append(@, e)]
  <2> SUFFICES ASSUME HasFlushed', undo' = undo PROVE FALSE
    BY DEF e
  <2>1. undo[t] = Append(undo[t], e)
    BY <1>15
  <2>2. Len(undo[t]) = Len(undo[t]) + 1
    BY <1>5, <2>1
  <2> QED
    BY <1>5, <2>2
<1>19. \A u \in Running : \A n \in DOMAIN undo'[u] :
         \/ n \in DOMAIN undo[u] /\ undo'[u][n] = undo[u][n]
         \/ undo'[u][n].kind # "delete"
  <2> SUFFICES ASSUME NEW u \in Running, NEW n \in DOMAIN undo'[u]
               PROVE  \/ n \in DOMAIN undo[u] /\ undo'[u][n] = undo[u][n]
                      \/ undo'[u][n].kind # "delete"
    OBVIOUS
  <2>1. u \in Txn
    BY DEF Running
  <2> QED
    BY <1>3, <1>4, <1>12, <2>1
<1> QED
  BY <1>2, <1>7, <1>9, <1>10, <1>13, <1>14, <1>15, <1>17, <1>18, <1>19 DEF e

\* A commit takes a timestamp and flushes its rows at the end of the table.
LEMMA BeginCommitStep ==
  ASSUME VInv, InRange, NEW t \in Txn, BeginCommit(t)
  PROVE  VInv'
<1> DEFINE to  == total_rows + local[t]
           id  == transaction_id[t]
           new == AppendVersionInfo(vector_info, total_rows, to, id)
<1>1. /\ phase[t] = "active" /\ transaction_lock = NoTxn /\ transaction_lock' = t
      /\ phase' = [phase EXCEPT ![t] = "committing"]
      /\ commit_id' = [commit_id EXCEPT ![t] = current_start_timestamp]
      /\ current_start_timestamp' = current_start_timestamp + 1
      /\ at' = 0 /\ local' = [local EXCEPT ![t] = 0]
      /\ UNCHANGED <<start_time, transaction_id, current_transaction_id, recently_committed>>
      /\ \/ UNCHANGED <<undo, total_rows, vector_info>>
         \/ /\ ~ AppendVersionError(vector_info, total_rows, to)
            /\ undo' = [undo EXCEPT ![t] = Append(@, AppendEntry(t))]
            /\ vector_info' = new /\ total_rows' = to
  BY DEF BeginCommit, table
<1>2. /\ VersionsSane(vector_info, total_rows) /\ Flushed(vector_info, total_rows)
      /\ Types /\ Undos /\ Clocks
  BY DEF VInv
<1>3. /\ total_rows \in Nat /\ local[t] \in Nat /\ id \in Nat /\ to \in Nat
      /\ vector_info \in [Vector -> Infos] /\ t \in Running
  BY <1>1, <1>2 DEF Types, Running
<1>4. /\ TRANSACTION_ID_START <= id /\ id < current_transaction_id /\ id # 0
      /\ TRANSACTION_ID_START \in Nat
  BY <1>2, <1>3, VersionConstants DEF Clocks
<1>5. 0 \in 0..Len(undo'[t])
  <2>1. Len(undo[t]) \in Nat /\ Len(Append(undo[t], AppendEntry(t))) = Len(undo[t]) + 1
    BY <1>2, Grown DEF Types
  <2>2. undo'[t] = undo[t] \/ undo'[t] = Append(undo[t], AppendEntry(t))
    BY <1>1, <1>2 DEF Types
  <2> QED
    BY <2>1, <2>2
<1>6. CASE UNCHANGED <<undo, total_rows, vector_info>>
  <2>1. /\ Types' /\ Clocks' /\ Undos'
        /\ BaseRow = total_rows /\ BaseRow' = total_rows /\ ~ HasFlushed
        /\ HasFlushed' => Flush' = AppendEntry(t) /\ undo' = [undo EXCEPT ![t] = Append(@, AppendEntry(t))]
        /\ Running' = Running
        /\ \A u \in Running : \A n \in DOMAIN undo'[u] :
              \/ n \in DOMAIN undo[u] /\ undo'[u][n] = undo[u][n]
              \/ undo'[u][n].kind # "delete"
        /\ \A u \in Txn : phase'[u] = "active" => phase[u] = "active" /\ u # t
    BY <1>1, <1>3, <1>5, <1>6, LockTaken
  <2>2. ~ HasFlushed'
    <3> SUFFICES ASSUME HasFlushed' PROVE FALSE
      OBVIOUS
    <3>1. undo[t] = Append(undo[t], AppendEntry(t))
      BY <1>2, <1>6, <2>1 DEF Types
    <3>2. Len(undo[t]) \in Nat /\ Len(Append(undo[t], AppendEntry(t))) = Len(undo[t]) + 1
      BY <1>2, Grown DEF Types
    <3> QED
      BY <3>1, <3>2
  <2>3. FlushWhole'
    BY <2>2 DEF FlushWhole
  <2>4. VersionsSane(vector_info, total_rows)' /\ Flushed(vector_info, total_rows)'
    BY <1>1, <1>2, <1>6, <2>1, VersionsStay
  <2> QED
    BY <2>1, <2>3, <2>4 DEF VInv
<1>7. CASE /\ ~ AppendVersionError(vector_info, total_rows, to)
           /\ undo' = [undo EXCEPT ![t] = Append(@, AppendEntry(t))]
           /\ vector_info' = new /\ total_rows' = to
  <2>1. ASSUME NEW v \in Vector
        PROVE  /\ new[v] \in Infos /\ Shortcuts(new[v], v, to)
               /\ \A i \in Slot : RowAt(v, i) \in total_rows..to - 1 =>
                     /\ new[v].type # "none"
                     /\ OneMark(new[v]) => total_rows <= v * STANDARD_VECTOR_SIZE
                     /\ MarkAt(new[v], i) = id
               /\ v * STANDARD_VECTOR_SIZE < total_rows /\ vector_info[v].type = "vector" =>
                     new[v].type = "vector" /\ new[v].any_deleted = vector_info[v].any_deleted
               /\ new[v].type # "none" =>
                     \/ new[v].insert_id \in {id, NOT_DELETED_ID}
                     \/ vector_info[v].type # "none" /\ new[v].insert_id = vector_info[v].insert_id
    <3>1. Shortcuts(vector_info[v], v, total_rows)
      BY <1>2 DEF VersionsSane
    <3>2. vector_info[v].type # "none" => vector_info[v].insert_id # id
      BY <1>1, <1>2 DEF VersionsSane, InsertIds
    <3> HIDE DEF id, to
    <3> QED
      BY <1>3, <1>4, <1>7, <3>1, <3>2, AppendedInfo DEF new
  <2>2. DOMAIN new = Vector /\ new = [v \in Vector |-> new[v]]
    BY <1>3 DEF AppendVersionInfo
  <2> HIDE DEF new
  <2>3. new \in [Vector -> Infos]
    BY <2>1, <2>2
  <2>4. /\ Types' /\ Clocks' /\ Undos'
        /\ BaseRow = total_rows /\ BaseRow' = total_rows /\ ~ HasFlushed
        /\ HasFlushed' => Flush' = AppendEntry(t) /\ undo' = [undo EXCEPT ![t] = Append(@, AppendEntry(t))]
        /\ Running' = Running
        /\ \A u \in Running : \A n \in DOMAIN undo'[u] :
              \/ n \in DOMAIN undo[u] /\ undo'[u][n] = undo[u][n]
              \/ undo'[u][n].kind # "delete"
        /\ \A u \in Txn : phase'[u] = "active" => phase[u] = "active" /\ u # t
    BY <1>1, <1>3, <1>5, <1>7, <2>3, LockTaken
  <2>5. FlushWhole'
    <3>1. HasFlushed' => total_rows' = Flush'.start_row + Flush'.count
      BY <1>7, <2>4 DEF AppendEntry
    <3> QED
      BY <3>1 DEF FlushWhole
  <2>6. FlushMark' = id
    <3>1. Len(undo[t]) \in Nat /\ Len(Append(undo[t], AppendEntry(t))) = Len(undo[t]) + 1
      BY <1>2, Grown DEF Types
    <3>2. undo'[t] = Append(undo[t], AppendEntry(t))
      BY <1>2, <1>7 DEF Types
    <3>3. at' # Len(undo'[t])
      BY <1>1, <3>1, <3>2
    <3> QED
      BY <1>1, <3>3 DEF FlushMark
  <2>7. DeletesMarked(vector_info)'
    <3> SUFFICES ASSUME NEW u \in Running, NEW n \in DOMAIN undo'[u], undo'[u][n].kind = "delete"
                 PROVE  /\ undo'[u][n].vector_idx * STANDARD_VECTOR_SIZE < total_rows
                        /\ new[undo'[u][n].vector_idx].type = "vector"
                        /\ new[undo'[u][n].vector_idx].any_deleted
      BY <1>7, <2>4 DEF DeletesMarked
    <3>1. n \in DOMAIN undo[u] /\ undo'[u][n] = undo[u][n]
      BY <2>4
    <3>2. undo[u][n].vector_idx \in Vector
      BY <1>2, <3>1 DEF Undos, Running
    <3>3. /\ undo[u][n].vector_idx * STANDARD_VECTOR_SIZE < total_rows
          /\ vector_info[undo[u][n].vector_idx].type = "vector"
          /\ vector_info[undo[u][n].vector_idx].any_deleted
      BY <1>2, <2>4, <3>1 DEF VersionsSane, DeletesMarked
    <3> QED
      BY <2>1, <3>1, <3>2, <3>3
  <2>8. InsertIds(vector_info)'
    <3> SUFFICES ASSUME NEW v \in Vector, new[v].type # "none"
                 PROVE  /\ \/ new[v].insert_id < current_start_timestamp'
                           \/ new[v].insert_id \in TRANSACTION_ID_START..current_transaction_id - 1
                           \/ new[v].insert_id = NOT_DELETED_ID
                        /\ \A u \in Txn : phase'[u] = "active" => new[v].insert_id # transaction_id[u]
      BY <1>1, <1>7 DEF InsertIds
    <3>1. ASSUME NEW u \in Txn, phase'[u] = "active"
          PROVE  id # transaction_id[u] /\ NOT_DELETED_ID # transaction_id[u] /\ phase[u] = "active"
      <4>1. u \in Running /\ u # t /\ phase[u] = "active" /\ transaction_id[u] \in Nat
        BY <1>2, <2>4, <3>1 DEF Running, Types
      <4>2. transaction_id[u] < current_transaction_id /\ transaction_id[u] # id
        BY <1>2, <1>3, <4>1 DEF Clocks
      <4>3. transaction_id[u] # NOT_DELETED_ID
        BY <1>2, <4>1, <4>2, VersionConstants DEF InRange, Types
      <4> QED
        BY <4>1, <4>2, <4>3
    <3>2. CASE new[v].insert_id = id
      <4>1. id \in TRANSACTION_ID_START..current_transaction_id - 1
        BY <1>2, <1>3, <1>4 DEF Types
      <4> QED
        BY <3>1, <3>2, <4>1
    <3>3. CASE new[v].insert_id = NOT_DELETED_ID
      BY <3>1, <3>3
    <3>4. CASE vector_info[v].type # "none" /\ new[v].insert_id = vector_info[v].insert_id
      <4>1. vector_info[v].insert_id \in Nat
        BY <1>3, <3>4 DEF Infos, NoInfo, ConstantInfos, VectorInfos
      <4>2. \/ vector_info[v].insert_id < current_start_timestamp
            \/ vector_info[v].insert_id \in TRANSACTION_ID_START..current_transaction_id - 1
            \/ vector_info[v].insert_id = NOT_DELETED_ID
        BY <1>2, <3>4 DEF VersionsSane, InsertIds
      <4>3. \A u \in Txn : phase[u] = "active" => vector_info[v].insert_id # transaction_id[u]
        BY <1>2, <3>4 DEF VersionsSane, InsertIds
      <4>4. vector_info[v].insert_id < current_start_timestamp =>
               vector_info[v].insert_id < current_start_timestamp'
        BY <1>1, <1>2, <4>1 DEF Types
      <4> QED
        BY <3>1, <3>4, <4>2, <4>3, <4>4
    <3> QED
      BY <2>1, <3>2, <3>3, <3>4
  <2>9. VersionsSane(vector_info, total_rows)'
    <3>1. \A v \in Vector : Shortcuts(vector_info'[v], v, total_rows')
      BY <1>7, <2>1
    <3>2. BaseRow' <= total_rows' /\ total_rows' \in Nat
      BY <1>3, <1>7, <2>4
    <3> QED
      BY <1>7, <2>3, <2>7, <2>8, <3>1, <3>2 DEF VersionsSane
  <2>10. Flushed(vector_info, total_rows)'
    BY <1>7, <2>1, <2>4, <2>6 DEF Flushed, FlushedAs
  <2> QED
    BY <2>4, <2>5, <2>9, <2>10 DEF VInv
<1> QED
  BY <1>1, <1>6, <1>7

\* A flush that fails leaves an entry for rows that the table does not have.
LEMMA FlushFailsStep ==
  ASSUME VInv, NEW t \in Txn, FlushFails(t)
  PROVE  VInv'
<1>1. /\ phase[t] = "active" /\ transaction_lock = NoTxn /\ transaction_lock' = t
      /\ phase' = [phase EXCEPT ![t] = "rolling_back"]
      /\ current_start_timestamp' = current_start_timestamp + 1
      /\ local' = [local EXCEPT ![t] = 0]
      /\ undo' = [undo EXCEPT ![t] = Append(@, AppendEntry(t))]
      /\ at' = Len(undo'[t])
      /\ UNCHANGED <<start_time, transaction_id, commit_id, current_transaction_id, total_rows,
                     vector_info, recently_committed>>
  BY DEF FlushFails
<1>2. /\ VersionsSane(vector_info, total_rows) /\ Flushed(vector_info, total_rows)
      /\ Types /\ Undos /\ Clocks
  BY DEF VInv
<1>3. at' \in 0..Len(undo'[t])
  <2>1. Len(undo[t]) \in Nat /\ Len(Append(undo[t], AppendEntry(t))) = Len(undo[t]) + 1
    BY <1>2, Grown DEF Types
  <2>2. undo'[t] = Append(undo[t], AppendEntry(t))
    BY <1>1, <1>2 DEF Types
  <2> QED
    BY <1>1, <2>1, <2>2
<1>4. vector_info' \in [Vector -> Infos] /\ total_rows' \in Nat
  BY <1>1, <1>2 DEF Types
<1>5. /\ Types' /\ Clocks' /\ Undos'
      /\ BaseRow = total_rows /\ BaseRow' = total_rows /\ ~ HasFlushed
      /\ Running' = Running
      /\ \A u \in Running : \A n \in DOMAIN undo'[u] :
            \/ n \in DOMAIN undo[u] /\ undo'[u][n] = undo[u][n]
            \/ undo'[u][n].kind # "delete"
      /\ \A u \in Txn : phase'[u] = "active" => phase[u] = "active" /\ u # t
  BY <1>1, <1>3, <1>4, LockTaken
<1>6. FlushWhole'
  BY <1>1, <1>2 DEF FlushWhole, Types
<1>7. VersionsSane(vector_info, total_rows)' /\ Flushed(vector_info, total_rows)'
  BY <1>1, <1>2, <1>5, VersionsStay
<1> QED
  BY <1>5, <1>6, <1>7 DEF VInv

\* A rollback begins.
LEMMA RollbackTransactionStep ==
  ASSUME VInv, NEW t \in Txn, RollbackTransaction(t)
  PROVE  VInv'
<1>1. /\ phase[t] \in {"active", "invalid"} /\ transaction_lock = NoTxn /\ transaction_lock' = t
      /\ phase' = [phase EXCEPT ![t] = "rolling_back"]
      /\ local' = [local EXCEPT ![t] = 0] /\ at' = Len(undo[t])
      /\ UNCHANGED <<clocks, undo, commit_id, total_rows, vector_info, recently_committed>>
  BY DEF RollbackTransaction, table
<1>2. /\ VersionsSane(vector_info, total_rows) /\ Flushed(vector_info, total_rows)
      /\ Types /\ Undos /\ Clocks
  BY DEF VInv
<1>3. at' \in 0..Len(undo'[t])
  <2>1. Len(undo[t]) \in Nat
    BY <1>2 DEF Types, IsUndo
  <2> QED
    BY <1>1, <2>1
<1>4. vector_info' \in [Vector -> Infos] /\ total_rows' \in Nat
  BY <1>1, <1>2 DEF Types
<1>5. /\ Types' /\ Clocks' /\ Undos'
      /\ BaseRow = total_rows /\ BaseRow' = total_rows /\ ~ HasFlushed
      /\ Running' = Running
      /\ \A u \in Running : \A n \in DOMAIN undo'[u] :
            \/ n \in DOMAIN undo[u] /\ undo'[u][n] = undo[u][n]
            \/ undo'[u][n].kind # "delete"
      /\ \A u \in Txn : phase'[u] = "active" => phase[u] = "active" /\ u # t
  BY <1>1, <1>3, <1>4, LockTaken DEF clocks
<1>6. FlushWhole'
  BY <1>1, <1>2 DEF FlushWhole, Types
<1>7. VersionsSane(vector_info, total_rows)' /\ Flushed(vector_info, total_rows)'
  BY <1>1, <1>2, <1>5, VersionsStay DEF clocks
<1> QED
  BY <1>5, <1>6, <1>7 DEF VInv

\* Deletes of a running transaction are committed or taken back: its vectors have
\* one mark per row already.
LEMMA DeletesRemarked ==
  ASSUME NEW infos, NEW total, VersionsSane(infos, total), Types, Clocks, Undos,
         NEW t \in Running, NEW n \in DOMAIN undo[t], undo[t][n].kind = "delete",
         NEW id \in Nat, NEW new, new = CommitDelete(infos, undo[t][n], id)
  PROVE  VersionsSane(new, total) /\ (Flushed(infos, total) => Flushed(new, total))
<1> DEFINE e == undo[t][n]
           v == e.vector_idx
           g == infos[v]
           D == [i \in Slot |-> IF i \in DeletedSlots(e) THEN id ELSE g.deleted[i]]
<1>1. v \in Vector /\ infos \in [Vector -> Infos]
  BY DEF Undos, Running, VersionsSane
<1>2. g.type = "vector" /\ g.any_deleted
  BY DEF VersionsSane, DeletesMarked
<1>3. g \in VectorInfos
  BY <1>1, <1>2 DEF Infos, NoInfo, ConstantInfos
<1>4. D \in [Slot -> Nat]
  BY <1>3 DEF VectorInfos
<1>5. GetVectorInfo(g) = g
  BY <1>2 DEF GetVectorInfo
<1>6. [g EXCEPT !.any_deleted = TRUE] = g
  BY <1>2, <1>3 DEF VectorInfos
<1>7. Remarked(g, D) = [g EXCEPT !.deleted = D]
  <2> HIDE DEF D, g
  <2> QED
    BY <1>5, <1>6 DEF Remarked
<1>8. new = [infos EXCEPT ![v] = [GetVectorInfo(g) EXCEPT !.deleted =
                                     [i \in Slot |-> IF i \in DeletedSlots(e) THEN id
                                                     ELSE GetVectorInfo(g).deleted[i]]]]
  BY Zenon DEF CommitDelete
<1>9. new = [infos EXCEPT ![v] = [g EXCEPT !.deleted = D]]
  BY <1>5, <1>8
<1> HIDE DEF D, g
<1>10. new = RemarkedAt(infos, v, D)
  BY <1>7, <1>9 DEF RemarkedAt, g
<1> HIDE DEF v, e
<1> QED
  BY <1>1, <1>4, <1>10, RemarkedVersions

\* The flushed rows are taken back (RowVersionManager::RevertAppend).
LEMMA AppendReverted ==
  ASSUME NEW infos, NEW total, VersionsSane(infos, total), Types, Undos, HasFlushed,
         NEW new, new = RevertAppend(infos, BaseRow)
  PROVE  VersionsSane(new, BaseRow) /\ Flushed(new, BaseRow)
<1>1. BaseRow \in Nat /\ total \in Nat /\ BaseRow <= total /\ infos \in [Vector -> Infos]
  BY FlushFacts DEF VersionsSane
<1>2. /\ DOMAIN new = Vector /\ new = [v \in Vector |-> new[v]]
      /\ \A v \in Vector : IF v * STANDARD_VECTOR_SIZE >= BaseRow THEN new[v] = NoInfo ELSE new[v] = infos[v]
  BY <1>1 DEF RevertAppend
<1>3. NoInfo \in Infos /\ NoInfo.type = "none"
  BY DEF Infos, NoInfo
<1>4. new \in [Vector -> Infos]
  BY <1>1, <1>2, <1>3
<1>5. \A v \in Vector : Shortcuts(new[v], v, BaseRow)
  <2> SUFFICES ASSUME NEW v \in Vector PROVE Shortcuts(new[v], v, BaseRow)
    OBVIOUS
  <2>1. CASE new[v] = NoInfo
    BY <1>3, <2>1 DEF Shortcuts
  <2>2. CASE new[v] = infos[v]
    <3>1. Shortcuts(infos[v], v, total)
      BY DEF VersionsSane
    <3>2. \A i \in Slot : RowAt(v, i) \in Nat
      BY RowPlaces
    <3>3. \A i \in Slot : RowAt(v, i) < BaseRow => RowAt(v, i) < total
      BY <1>1, <3>2
    <3> QED
      BY <2>2, <3>1, <3>3 DEF Shortcuts
  <2> QED
    BY <1>2, <2>1, <2>2
<1>6. DeletesMarked(new)
  <2> SUFFICES ASSUME NEW t \in Running, NEW n \in DOMAIN undo[t], undo[t][n].kind = "delete"
               PROVE  /\ undo[t][n].vector_idx * STANDARD_VECTOR_SIZE < BaseRow
                      /\ new[undo[t][n].vector_idx].type = "vector"
                      /\ new[undo[t][n].vector_idx].any_deleted
    BY DEF DeletesMarked
  <2>1. undo[t][n].vector_idx \in Vector
    BY DEF Undos, Running
  <2>2. /\ undo[t][n].vector_idx * STANDARD_VECTOR_SIZE < BaseRow
        /\ infos[undo[t][n].vector_idx].type = "vector"
        /\ infos[undo[t][n].vector_idx].any_deleted
    BY DEF DeletesMarked, VersionsSane
  <2>3. undo[t][n].vector_idx * STANDARD_VECTOR_SIZE \in Nat
    BY <2>1, VersionConstants DEF Vector
  <2>4. ~ (undo[t][n].vector_idx * STANDARD_VECTOR_SIZE >= BaseRow)
    BY <1>1, <2>2, <2>3
  <2> QED
    BY <1>2, <2>1, <2>2, <2>4
<1>7. InsertIds(new)
  BY <1>2, <1>3 DEF VersionsSane, InsertIds
<1>8. Flushed(new, BaseRow)
  <2> SUFFICES ASSUME NEW v \in Vector, NEW i \in Slot, RowAt(v, i) \in BaseRow..BaseRow - 1
               PROVE  FALSE
    BY DEF Flushed, FlushedAs
  <2> QED
    BY <1>1
<1> QED
  BY <1>1, <1>4, <1>5, <1>6, <1>7, <1>8 DEF VersionsSane

\* What the transaction that commits or rolls back may do to the table in a step,
\* or in the steps of RevertCommit.
LEMMA EntryDone ==
  ASSUME VInv, NEW t \in Txn, transaction_lock = t,
         UNCHANGED <<clocks, transaction_lock, local, undo, recently_committed>>,
         \/ phase' = phase /\ commit_id' = commit_id
         \/ /\ phase' = [phase EXCEPT ![t] = "rolling_back"]
            /\ commit_id' = [commit_id EXCEPT ![t] = 0],
         at' \in 0..Len(undo[t]),
         NEW infos, NEW total, vector_info' = infos, total_rows' = total,
         VersionsSane(infos, total), FlushedAs(infos, total, FlushMark'),
         HasFlushed \/ total = total_rows,
         phase'[t] = "committing" => total = total_rows
  PROVE  VInv'
<1>1. Types /\ Undos /\ Clocks /\ t # NoTxn
  BY TableConstants DEF VInv
<1>2. /\ phase' \in [Txn -> {"idle", "active", "invalid", "committing", "rolling_back", "ended"}]
      /\ \A u \in Txn \ {t} : phase'[u] = phase[u]
      /\ phase[t] \in {"committing", "rolling_back"} /\ phase'[t] \in {phase[t], "rolling_back"}
      /\ commit_id' \in [Txn -> Nat]
      /\ phase'[t] = "committing" => phase' = phase /\ commit_id' = commit_id
  <2>1. /\ phase[t] \in {"committing", "rolling_back"}
        /\ phase \in [Txn -> {"idle", "active", "invalid", "committing", "rolling_back", "ended"}]
        /\ commit_id \in [Txn -> Nat]
    BY <1>1 DEF Types
  <2>2. CASE phase' = phase /\ commit_id' = commit_id
    BY <2>1, <2>2
  <2>3. CASE /\ phase' = [phase EXCEPT ![t] = "rolling_back"]
             /\ commit_id' = [commit_id EXCEPT ![t] = 0]
    <3>1. commit_id' \in [Txn -> Nat]
      BY <2>1, <2>3
    <3> QED
      BY <2>1, <2>3, <3>1
  <2> QED
    BY <2>2, <2>3
<1>3. infos \in [Vector -> Infos] /\ total \in Nat
  BY DEF VersionsSane
<1>4. Types'
  <2>1. {u \in Txn : phase'[u] = "ended"} = {u \in Txn : phase[u] = "ended"}
    BY <1>2
  <2>2. \A u \in Txn : phase'[u] \in {"committing", "rolling_back"} <=> transaction_lock' = u
    BY <1>1, <1>2 DEF Types
  <2> QED
    BY <1>1, <1>2, <1>3, <2>1, <2>2 DEF Types, clocks
<1>5. Running' = Running /\ \A u \in Txn : phase'[u] = "active" <=> phase[u] = "active"
  BY <1>2 DEF Running
<1>6. Clocks'
  <2>1. ASSUME NEW u \in Txn, phase'[u] = "committing"
        PROVE  commit_id'[u] = commit_id[u] /\ phase[u] = "committing"
    <3>1. u = t
      BY <1>1, <1>2, <2>1 DEF Types
    <3> QED
      BY <1>2, <2>1, <3>1
  <2> QED
    BY <1>1, <1>5, <2>1 DEF Clocks, clocks
<1>7. Undos'
  BY <1>1, <1>2 DEF Undos
<1>8. HasFlushed' = HasFlushed /\ Flush' = Flush
  BY DEF HasFlushed, Flush
<1>9. BaseRow' = BaseRow
  BY <1>8 DEF BaseRow
<1>10. FlushWhole'
  <2> SUFFICES ASSUME HasFlushed, phase'[t] = "committing"
               PROVE  total_rows' = Flush.start_row + Flush.count
    BY <1>8 DEF FlushWhole
  <2> QED
    BY <1>2 DEF FlushWhole, VInv
<1>11. DeletesMarked(vector_info)'
  BY <1>5, <1>9 DEF VersionsSane, DeletesMarked
<1>12. InsertIds(vector_info)'
  BY <1>5 DEF VersionsSane, InsertIds, clocks
<1>13. VersionsSane(vector_info, total_rows)'
  BY <1>9, <1>11, <1>12 DEF VersionsSane
<1>14. Flushed(vector_info, total_rows)'
  BY <1>9 DEF Flushed, FlushedAs
<1> QED
  BY <1>4, <1>6, <1>7, <1>10, <1>13, <1>14 DEF VInv

\* The marks on the flushed rows are as they were.
LEMMA MarksStay ==
  ASSUME NEW infos, NEW total \in Nat, Flushed(infos, total), NEW mark,
         total = BaseRow \/ mark = FlushMark
  PROVE  FlushedAs(infos, total, mark)
<1>1. CASE mark = FlushMark
  BY <1>1 DEF Flushed
<1>2. CASE total = BaseRow
  <2> SUFFICES ASSUME NEW v \in Vector, NEW i \in Slot, RowAt(v, i) \in total..total - 1
               PROVE  FALSE
    BY <1>2 DEF FlushedAs
  <2> QED
    OBVIOUS
<1> QED
  BY <1>1, <1>2

\* The undo buffer of the transaction that commits or rolls back.
LEMMA EntryFacts ==
  ASSUME Types, Undos, NEW t \in Txn, transaction_lock = t, NEW n \in 1..Len(undo[t])
  PROVE  /\ n \in DOMAIN undo[t] /\ Len(undo[t]) \in Nat
         /\ undo[t][n].kind = "append" => n = Len(undo[t]) /\ HasFlushed /\ Flush = undo[t][n]
         /\ HasFlushed /\ n = Len(undo[t]) => undo[t][n].kind = "append"
<1>1. undo[t] \in Seq(Range(undo[t])) /\ t # NoTxn
  BY TableConstants DEF Types, IsUndo
<1>2. n \in DOMAIN undo[t] /\ Len(undo[t]) \in Nat /\ undo[t] # <<>>
  BY <1>1
<1>3. undo[t][n].kind = "append" => n = Len(undo[t])
  BY <1>2 DEF Undos
<1> QED
  BY <1>1, <1>2, <1>3 DEF HasFlushed, Flush

\* CommitState::CommitEntry: the rows of the flush get the commit's mark at the
\* last entry.
LEMMA CommitEntryStep ==
  ASSUME VInv, InRange, NEW t \in Txn, CommitEntry(t)
  PROVE  VInv'
<1> DEFINE n == at + 1
           e == undo[t][n]
           id == commit_id[t]
<1>1. /\ phase[t] = "committing" /\ at < Len(undo[t]) /\ at' = n
      /\ UNCHANGED <<phase, clocks, commit_id, transaction_lock, local, undo, total_rows,
                     recently_committed>>
  BY DEF CommitEntry
<1>2. /\ VersionsSane(vector_info, total_rows) /\ Flushed(vector_info, total_rows)
      /\ Types /\ Undos /\ Clocks /\ FlushWhole
  BY DEF VInv
<1>3. transaction_lock = t /\ t # NoTxn /\ t \in Running
  BY <1>1, <1>2, TableConstants DEF Types, Running
<1>4. at \in Nat /\ Len(undo[t]) \in Nat /\ n \in 1..Len(undo[t]) /\ n \in 0..Len(undo[t])
      /\ total_rows \in Nat /\ id \in Nat /\ n # at /\ at # Len(undo[t])
  <2>1. at \in 0..Len(undo[t]) /\ Len(undo[t]) \in Nat
    BY <1>2, <1>3 DEF Types, IsUndo
  <2> QED
    BY <1>1, <1>2, <2>1 DEF Types
<1>5. /\ n \in DOMAIN undo[t]
      /\ e.kind = "append" => n = Len(undo[t]) /\ HasFlushed /\ Flush = e
      /\ HasFlushed /\ n = Len(undo[t]) => e.kind = "append"
  BY <1>2, <1>3, <1>4, EntryFacts
<1>6. /\ FlushMark = transaction_id[t]
      /\ FlushMark' = IF n = Len(undo[t]) THEN id ELSE transaction_id[t]
  BY <1>1, <1>3, <1>4 DEF FlushMark, clocks
<1>7. \/ /\ e.kind = "append"
         /\ vector_info' = CommitAppend(vector_info, e.start_row, e.start_row + e.count, id)
      \/ e.kind = "delete" /\ vector_info' = CommitDelete(vector_info, e, id)
      \/ e.kind = "update" /\ vector_info' = vector_info
  BY DEF CommitEntry
<1>8. ASSUME NEW infos, vector_info' = infos, VersionsSane(infos, total_rows),
             FlushedAs(infos, total_rows, FlushMark')
      PROVE  VInv'
  <2> HIDE DEF n
  <2> QED
    BY <1>1, <1>3, <1>4, <1>8, EntryDone
<1>9. ASSUME e.kind # "append" PROVE total_rows = BaseRow \/ FlushMark' = FlushMark
  <2>1. CASE HasFlushed
    BY <1>5, <1>6, <1>9, <2>1
  <2>2. CASE ~ HasFlushed
    BY <2>2 DEF BaseRow
  <2> QED
    BY <2>1, <2>2
<1> HIDE DEF n, id
<1>10. CASE e.kind = "update" /\ vector_info' = vector_info
  <2>1. FlushedAs(vector_info, total_rows, FlushMark')
    BY <1>2, <1>4, <1>9, <1>10, MarksStay
  <2> QED
    BY <1>2, <1>8, <1>10, <2>1
<1>11. CASE e.kind = "delete" /\ vector_info' = CommitDelete(vector_info, e, id)
  <2> DEFINE new == CommitDelete(vector_info, e, id)
  <2>1. VersionsSane(new, total_rows) /\ Flushed(new, total_rows)
    BY <1>2, <1>3, <1>4, <1>5, <1>11, DeletesRemarked
  <2> HIDE DEF new
  <2>2. FlushedAs(new, total_rows, FlushMark')
    BY <1>4, <1>9, <1>11, <2>1, MarksStay
  <2> QED
    BY <1>8, <1>11, <2>1, <2>2 DEF new
<1>12. CASE /\ e.kind = "append"
            /\ vector_info' = CommitAppend(vector_info, e.start_row, e.start_row + e.count, id)
  <2> DEFINE new == CommitAppend(vector_info, BaseRow, total_rows, id)
  <2>1. /\ HasFlushed /\ Flush = e /\ BaseRow = e.start_row /\ BaseRow \in Nat
        /\ total_rows = e.start_row + e.count /\ FlushMark' = id
    BY <1>1, <1>2, <1>3, <1>5, <1>6, <1>12, FlushFacts DEF FlushWhole
  <2>2. vector_info' = new
    BY <1>12, <2>1
  <2>3. vector_info \in [Vector -> Infos] /\ BaseRow <= total_rows
    BY <1>2 DEF VersionsSane
  <2>4. ASSUME NEW v \in Vector
        PROVE  /\ new[v] \in Infos /\ Shortcuts(new[v], v, total_rows) /\ new[v].type = vector_info[v].type
               /\ new[v].type = "vector" => new[v].any_deleted = vector_info[v].any_deleted
               /\ \A i \in Slot : RowAt(v, i) \in BaseRow..total_rows - 1 => MarkAt(new[v], i) = id
               /\ OneMark(new[v]) => OneMark(vector_info[v])
               /\ new[v].type # "none" => new[v].insert_id \in {id, vector_info[v].insert_id}
    <3>1. Shortcuts(vector_info[v], v, total_rows)
      BY <1>2 DEF VersionsSane
    <3>2. Entered(vector_info[v], v, BaseRow, total_rows)
      BY <1>2 DEF Entered, Flushed, FlushedAs
    <3> DEFINE x == new[v]
    <3>3. x = CommitAppend(vector_info, BaseRow, total_rows, id)[v]
      OBVIOUS
    <3> HIDE DEF new
    <3> HIDE DEF x
    <3>4. /\ x \in Infos /\ Shortcuts(x, v, total_rows) /\ x.type = vector_info[v].type
          /\ x.type = "vector" => x.any_deleted = vector_info[v].any_deleted
          /\ \A i \in Slot : RowAt(v, i) \in BaseRow..total_rows - 1 => MarkAt(x, i) = id
          /\ OneMark(x) => OneMark(vector_info[v])
          /\ x.type # "none" => x.insert_id \in {id, vector_info[v].insert_id}
      <4>1. total_rows \in Nat /\ id \in Nat /\ BaseRow \in Nat /\ vector_info \in [Vector -> Infos]
        BY <1>4, <2>1, <2>3
      <4> QED
        BY <3>1, <3>2, <3>3, <4>1, CommittedInfo
    <3> QED
      BY <3>4 DEF x
  <2>5. DOMAIN new = Vector /\ new = [v \in Vector |-> new[v]]
    BY <2>3 DEF CommitAppend
  <2> HIDE DEF new
  <2>6. new \in [Vector -> Infos]
    BY <2>4, <2>5
  <2>7. DeletesMarked(new)
    <3> SUFFICES ASSUME NEW u \in Running, NEW m \in DOMAIN undo[u], undo[u][m].kind = "delete"
                 PROVE  /\ undo[u][m].vector_idx * STANDARD_VECTOR_SIZE < BaseRow
                        /\ new[undo[u][m].vector_idx].type = "vector"
                        /\ new[undo[u][m].vector_idx].any_deleted
      BY DEF DeletesMarked
    <3>1. undo[u][m].vector_idx \in Vector
      BY <1>2 DEF Undos, Running
    <3>2. /\ undo[u][m].vector_idx * STANDARD_VECTOR_SIZE < BaseRow
          /\ vector_info[undo[u][m].vector_idx].type = "vector"
          /\ vector_info[undo[u][m].vector_idx].any_deleted
      BY <1>2 DEF VersionsSane, DeletesMarked
    <3> QED
      BY <2>4, <3>1, <3>2
  <2>8. InsertIds(new)
    <3> SUFFICES ASSUME NEW v \in Vector, new[v].type # "none"
                 PROVE  /\ \/ new[v].insert_id < current_start_timestamp
                           \/ new[v].insert_id \in TRANSACTION_ID_START..current_transaction_id - 1
                           \/ new[v].insert_id = NOT_DELETED_ID
                        /\ \A u \in Txn : phase[u] = "active" => new[v].insert_id # transaction_id[u]
      BY DEF InsertIds
    <3>1. id < current_start_timestamp
      BY <1>1, <1>2 DEF Clocks, id
    <3>2. ASSUME NEW u \in Txn, phase[u] = "active" PROVE id # transaction_id[u]
      <4>1. TRANSACTION_ID_START <= transaction_id[u] /\ transaction_id[u] \in Nat
        BY <1>2, <3>2 DEF Clocks, Running, Types
      <4> QED
        BY <1>2, <1>4, <3>1, <4>1, VersionConstants DEF InRange, Types
    <3>3. CASE new[v].insert_id = id
      BY <3>1, <3>2, <3>3
    <3>4. CASE new[v].insert_id = vector_info[v].insert_id
      <4>1. vector_info[v].type # "none"
        BY <2>4
      <4> QED
        BY <1>2, <3>4, <4>1 DEF VersionsSane, InsertIds
    <3> QED
      BY <2>4, <3>3, <3>4
  <2>9. VersionsSane(new, total_rows)
    BY <1>4, <2>3, <2>4, <2>6, <2>7, <2>8 DEF VersionsSane
  <2>10. FlushedAs(new, total_rows, FlushMark')
    <3> SUFFICES ASSUME NEW v \in Vector, NEW i \in Slot, RowAt(v, i) \in BaseRow..total_rows - 1
                 PROVE  /\ new[v].type # "none"
                        /\ OneMark(new[v]) => BaseRow <= v * STANDARD_VECTOR_SIZE
                        /\ MarkAt(new[v], i) = id
      BY <2>1 DEF FlushedAs
    <3>1. /\ vector_info[v].type # "none"
          /\ OneMark(vector_info[v]) => BaseRow <= v * STANDARD_VECTOR_SIZE
      BY <1>2 DEF Flushed, FlushedAs
    <3> QED
      BY <2>4, <3>1
  <2> QED
    BY <1>8, <2>2, <2>9, <2>10
<1> QED
  BY <1>7, <1>10, <1>11, <1>12

Fields == {"total_rows", "vector_info", "updates", "index"}

\* Everything the proof needs of a table while its entries are taken back.
TableSane(tab) ==
  /\ DOMAIN tab = Fields
  /\ VersionsSane(tab.vector_info, tab.total_rows) /\ Flushed(tab.vector_info, tab.total_rows)

\* RevertCommit or Rollback of one entry of the transaction that has the lock.
LEMMA EntryReverted ==
  ASSUME Types, Clocks, Undos, NEW t \in Txn, transaction_lock = t, NEW n \in 1..Len(undo[t]),
         NEW tab, TableSane(tab), NEW r,
         \/ r = RevertCommitEntry(tab, undo[t][n], t)
         \/ r = RollbackEntryOf(tab, undo[t][n], t)
  PROVE  /\ TableSane(r)
         /\ IF undo[t][n].kind = "append" THEN HasFlushed /\ n = Len(undo[t]) /\ r.total_rows = BaseRow
                                          ELSE r.total_rows = tab.total_rows
<1> DEFINE e == undo[t][n]
           infos == tab.vector_info
<1>1. t \in Running /\ t # NoTxn /\ transaction_id[t] \in Nat /\ NOT_DELETED_ID \in Nat
  BY TableConstants, VersionConstants DEF Types, Running
<1>2. /\ n \in DOMAIN undo[t]
      /\ e.kind = "append" => n = Len(undo[t]) /\ HasFlushed /\ Flush = e
  BY EntryFacts
<1>3. e.kind \in {"append", "delete", "update"}
  BY <1>2 DEF Undos
<1>4. CASE e.kind = "append"
  <2>1. HasFlushed /\ BaseRow = e.start_row /\ n = Len(undo[t])
    BY <1>2, <1>4 DEF BaseRow
  <2> DEFINE c == tab.index \ (e.start_row..Min({e.start_row + e.count, tab.total_rows}) - 1)
             b == RevertAppend(infos, BaseRow)
  <2>2. r = RevertAppendEntry(tab, e)
    BY <1>4 DEF RevertCommitEntry, RollbackEntryOf
  <2>3. r = [tab EXCEPT !.total_rows = BaseRow, !.vector_info = b, !.index = c]
    BY <2>1, <2>2, Zenon DEF RevertAppendEntry
  <2> HIDE DEF c, b
  <2>4. DOMAIN r = Fields /\ r.total_rows = BaseRow /\ r.vector_info = b
    BY <2>3 DEF TableSane, Fields
  <2>5. VersionsSane(b, BaseRow) /\ Flushed(b, BaseRow)
    BY <2>1, AppendReverted DEF TableSane, b
  <2> QED
    BY <1>4, <2>1, <2>4, <2>5 DEF TableSane
<1>5. CASE e.kind = "delete"
  <2>1. PICK id \in Nat : r = [tab EXCEPT !.vector_info = CommitDelete(infos, e, id)]
    BY <1>1, <1>5 DEF RevertCommitEntry, RollbackEntryOf
  <2> DEFINE d == CommitDelete(infos, e, id)
  <2>2. r = [tab EXCEPT !.vector_info = d] /\ id \in Nat
    BY <2>1
  <2>3. VersionsSane(d, tab.total_rows) /\ Flushed(d, tab.total_rows)
    BY <1>1, <1>2, <1>5, <2>2, DeletesRemarked DEF TableSane
  <2> HIDE DEF d
  <2>4. DOMAIN r = Fields /\ r.total_rows = tab.total_rows /\ r.vector_info = d
    BY <2>2 DEF TableSane, Fields
  <2> QED
    BY <1>5, <2>3, <2>4 DEF TableSane
<1>6. CASE e.kind = "update"
  <2>1. \/ r = [tab EXCEPT !.updates[e.vector_idx] = SetVersion(@, t, transaction_id[t])]
        \/ r = [tab EXCEPT !.updates[e.vector_idx] = RollbackUpdate(@, t)]
    BY <1>6 DEF RevertCommitEntry, RollbackEntryOf
  <2>2. DOMAIN r = Fields /\ r.total_rows = tab.total_rows /\ r.vector_info = infos
    BY <2>1 DEF TableSane, Fields
  <2> QED
    BY <1>6, <2>2 DEF TableSane
<1> QED
  BY <1>3, <1>4, <1>5, <1>6

\* UndoBuffer::Rollback, the last entry first.
LEMMA RollbackEntryStep ==
  ASSUME VInv, NEW t \in Txn, RollbackEntry(t)
  PROVE  VInv'
<1> DEFINE r == RollbackEntryOf(Table, undo[t][at], t)
<1>1. /\ phase[t] = "rolling_back" /\ at > 0 /\ at' = at - 1
      /\ total_rows' = r.total_rows /\ vector_info' = r.vector_info
      /\ UNCHANGED <<phase, clocks, commit_id, transaction_lock, local, undo, recently_committed>>
  BY DEF RollbackEntry, TableBecomes
<1>2. /\ VersionsSane(vector_info, total_rows) /\ Flushed(vector_info, total_rows)
      /\ Types /\ Undos /\ Clocks
  BY DEF VInv
<1>3. transaction_lock = t /\ t # NoTxn
  BY <1>1, <1>2, TableConstants DEF Types
<1>4. at \in 1..Len(undo[t]) /\ at - 1 \in 0..Len(undo[t])
  <2>1. at \in 0..Len(undo[t]) /\ Len(undo[t]) \in Nat
    BY <1>2, <1>3 DEF Types, IsUndo
  <2> QED
    BY <1>1, <2>1
<1>5. TableSane(Table) /\ Table.total_rows = total_rows
  BY <1>2 DEF TableSane, Table, Fields
<1>6. /\ TableSane(r)
      /\ IF undo[t][at].kind = "append" THEN HasFlushed /\ r.total_rows = BaseRow
                                        ELSE r.total_rows = Table.total_rows
  BY <1>2, <1>3, <1>4, <1>5, EntryReverted
<1> HIDE DEF r
<1>7. r.total_rows \in Nat /\ FlushMark' = FlushMark
  BY <1>1, <1>3, <1>6 DEF TableSane, VersionsSane, FlushMark, clocks
<1>8. FlushedAs(r.vector_info, r.total_rows, FlushMark')
  BY <1>6, <1>7, MarksStay DEF TableSane
<1>9. HasFlushed \/ r.total_rows = total_rows
  BY <1>5, <1>6
<1> QED
  BY <1>1, <1>3, <1>4, <1>6, <1>8, <1>9, EntryDone DEF TableSane

\* The tables that UndoBuffer::RevertCommit goes through: w[n] after n entries.
Reverts(w, t, len) ==
  w = [n \in 0..len |-> IF n = 0 THEN Table ELSE RevertCommitEntry(w[n - 1], undo[t][n], t)]

\* There is such a sequence of tables.
LEMMA RevertsExist ==
  ASSUME NEW t, NEW len \in Nat
  PROVE  \E w : Reverts(w, t, len)
<1> DEFINE Has == {k \in 0..len : \E w : Reverts(w, t, k)}
<1>1. 0 \in Has
  <2> DEFINE w == [n \in 0..0 |-> Table]
  <2>1. \A n \in 0..0 : n = 0
    OBVIOUS
  <2>2. w = [n \in 0..0 |-> IF n = 0 THEN Table ELSE RevertCommitEntry(w[n - 1], undo[t][n], t)]
    BY <2>1
  <2> HIDE DEF w
  <2>3. Reverts(w, t, 0)
    BY <2>2 DEF Reverts
  <2> QED
    BY <2>3
<1>2. ASSUME NEW k \in 0..len - 1, k \in Has PROVE k + 1 \in Has
  <2>1. PICK v : Reverts(v, t, k)
    BY <1>2
  <2> DEFINE j == k + 1
             w == [n \in 0..j |-> IF n = j THEN RevertCommitEntry(v[k], undo[t][j], t) ELSE v[n]]
             rhs == [n \in 0..j |-> IF n = 0 THEN Table ELSE RevertCommitEntry(w[n - 1], undo[t][n], t)]
  <2>2. \A n \in 0..k : v[n] = IF n = 0 THEN Table ELSE RevertCommitEntry(v[n - 1], undo[t][n], t)
    BY <2>1 DEF Reverts
  <2>3. ASSUME NEW n \in 0..j PROVE w[n] = rhs[n]
    <3>1. n = j \/ n \in 0..k
      OBVIOUS
    <3>2. CASE n = j
      <4>1. n - 1 = k /\ n # 0 /\ k \in 0..j /\ k # j
        BY <3>2
      <4>2. w[n - 1] = v[k] /\ w[n] = RevertCommitEntry(v[k], undo[t][j], t)
        BY <3>2, <4>1
      <4> QED
        BY <3>2, <4>1, <4>2
    <3>3. CASE n \in 0..k
      <4>1. n # j /\ w[n] = v[n]
        BY <3>3
      <4>2. n # 0 => n - 1 \in 0..j /\ n - 1 # j /\ w[n - 1] = v[n - 1]
        BY <3>3
      <4> QED
        BY <2>2, <3>3, <4>1, <4>2
    <3> QED
      BY <3>1, <3>2, <3>3
  <2>4. w = [n \in 0..j |-> w[n]] /\ rhs = [n \in 0..j |-> rhs[n]]
    OBVIOUS
  <2>5. w = rhs
    <3> HIDE DEF w, rhs
    <3> QED
      BY <2>3, <2>4, Zenon
  <2>6. Reverts(w, t, j)
    <3> HIDE DEF w
    <3> QED
      BY <2>5 DEF Reverts
  <2>7. j \in 0..len
    OBVIOUS
  <2> HIDE DEF w, j
  <2> QED
    BY <2>6, <2>7 DEF j
<1> HIDE DEF Has
<1>3. len \in Has
  BY <1>1, <1>2, CountingUp
<1> QED
  BY <1>3 DEF Has

\* What a commit that fails has done: it has gone through the entries up to m, the one
\* that failed included, and the rows of the flush are gone if it has come to them.
Reverted(w, m, t) ==
  /\ m \in 1..Len(undo[t]) /\ (IF at = Len(undo[t]) THEN m = Len(undo[t]) ELSE m = at + 1)
  /\ TableBecomes(w[m])
  /\ w[0] = Table /\ \A n \in 1..Len(undo[t]) : w[n] = RevertCommitEntry(w[n - 1], undo[t][n], t)
  /\ \A n \in 0..Len(undo[t]) : /\ TableSane(w[n])
                                /\ n < Len(undo[t]) \/ ~ HasFlushed => w[n].total_rows = total_rows
                                /\ n = Len(undo[t]) /\ HasFlushed => w[n].total_rows = BaseRow

\* There is such a way through the undo buffer.
LEMMA CommitReverted ==
  ASSUME VInv, NEW t \in Txn, CommitFails(t)
  PROVE  \E w, m : Reverted(w, m, t)
<1> DEFINE len == Len(undo[t])
           w   == CHOOSE f : Reverts(f, t, len)
           m   == Min({at + 1, len})
           r   == w[m]
<1>1. phase[t] = "committing" /\ undo[t] # <<>>
  BY DEF CommitFails
<1>2. TableBecomes(r)
  BY Zenon DEF CommitFails, Reverts
<1>4. /\ VersionsSane(vector_info, total_rows) /\ Flushed(vector_info, total_rows)
      /\ Types /\ Undos /\ Clocks
  BY DEF VInv
<1>5. transaction_lock = t /\ t # NoTxn
  BY <1>1, <1>4, TableConstants DEF Types
<1>6. /\ at \in 0..len /\ len \in Nat \ {0} /\ m \in 1..len
      /\ IF at = len THEN m = len ELSE m = at + 1
  <2>1. at \in 0..len /\ undo[t] \in Seq(Range(undo[t]))
    BY <1>4, <1>5 DEF Types, IsUndo
  <2>2. len \in Nat \ {0}
    BY <1>1, <2>1
  <2> HIDE DEF len
  <2>3. {at + 1, len} \in SUBSET Nat /\ {at + 1, len} # {}
    BY <2>1, <2>2
  <2>4. m \in {at + 1, len} /\ m <= at + 1 /\ m <= len
    BY <2>3, MinIsLeast
  <2> QED
    BY <2>1, <2>2, <2>4
<1> HIDE DEF len, w, m
<1>7. Reverts(w, t, len)
  BY <1>6, RevertsExist DEF w
<1>8. /\ w[0] = Table
      /\ \A n \in 1..len : n \in 0..len /\ w[n] = RevertCommitEntry(w[n - 1], undo[t][n], t)
  <2>1. \A n \in 1..len : n \in 0..len /\ n # 0
    BY <1>6
  <2>2. 0 \in 0..len
    BY <1>6
  <2> QED
    BY <1>7, <2>1, <2>2 DEF Reverts
<1>9. TableSane(Table) /\ Table.total_rows = total_rows
  BY <1>4 DEF TableSane, Table, Fields
<1> DEFINE Sane == {n \in 0..len : /\ TableSane(w[n])
                                   /\ n < len \/ ~ HasFlushed => w[n].total_rows = total_rows
                                   /\ n = len /\ HasFlushed => w[n].total_rows = BaseRow}
<1>10. 0 \in Sane
  BY <1>6, <1>8, <1>9
<1>11. ASSUME NEW k \in 0..len - 1, k \in Sane PROVE k + 1 \in Sane
  <2> DEFINE j == k + 1
             q == w[j]
             p == w[k]
  <2>1. j \in 1..len /\ j - 1 = k /\ j \in 0..len /\ k < len
    BY <1>6
  <2>2. q = RevertCommitEntry(p, undo[t][j], t)
    BY <1>8, <2>1
  <2>3. TableSane(p) /\ p.total_rows = total_rows
    BY <1>11, <2>1
  <2> HIDE DEF j, p, q
  <2>4. j \in 1..Len(undo[t])
    BY <2>1 DEF len
  <2>5. /\ TableSane(q)
        /\ IF undo[t][j].kind = "append"
           THEN HasFlushed /\ j = Len(undo[t]) /\ q.total_rows = BaseRow
           ELSE q.total_rows = p.total_rows
    BY <1>4, <1>5, <2>2, <2>3, <2>4, EntryReverted
  <2>6. HasFlushed /\ j = len => undo[t][j].kind = "append"
    BY <1>4, <1>5, <2>4, EntryFacts DEF len
  <2>7. /\ j < len \/ ~ HasFlushed => q.total_rows = total_rows
        /\ j = len /\ HasFlushed => q.total_rows = BaseRow
    BY <1>6, <2>1, <2>3, <2>5, <2>6 DEF len
  <2>8. j \in Sane
    BY <2>1, <2>5, <2>7 DEF q
  <2> QED
    BY <2>8 DEF j
<1> HIDE DEF Sane
<1>12. \A k \in 0..len : k \in Sane
  BY <1>6, <1>10, <1>11, CountingUp
<1>13. \A n \in 0..Len(undo[t]) : /\ TableSane(w[n])
                                  /\ n < Len(undo[t]) \/ ~ HasFlushed => w[n].total_rows = total_rows
                                  /\ n = Len(undo[t]) /\ HasFlushed => w[n].total_rows = BaseRow
  BY <1>12 DEF Sane, len
<1>14. \A n \in 1..Len(undo[t]) : w[n] = RevertCommitEntry(w[n - 1], undo[t][n], t)
  BY <1>8 DEF len
<1>15. m \in 1..Len(undo[t]) /\ (IF at = Len(undo[t]) THEN m = Len(undo[t]) ELSE m = at + 1)
  BY <1>6 DEF len
<1>16. Reverted(w, m, t)
  BY <1>2, <1>8, <1>13, <1>14, <1>15 DEF Reverted
<1> QED
  BY <1>16

\* A commit that fails reverts what it has done: all its rows if it had come to them.
LEMMA CommitFailsStep ==
  ASSUME VInv, NEW t \in Txn, CommitFails(t)
  PROVE  VInv'
<1> DEFINE len == Len(undo[t])
<1>1. /\ phase[t] = "committing" /\ undo[t] # <<>>
      /\ phase' = [phase EXCEPT ![t] = "rolling_back"]
      /\ commit_id' = [commit_id EXCEPT ![t] = 0] /\ at' = len
      /\ UNCHANGED <<clocks, transaction_lock, local, undo, recently_committed>>
  BY DEF CommitFails
<1>2. PICK w, m : Reverted(w, m, t)
  BY CommitReverted
<1> DEFINE r == w[m]
<1>3. total_rows' = r.total_rows /\ vector_info' = r.vector_info
  BY <1>2, Zenon DEF Reverted, TableBecomes
<1>4. /\ VersionsSane(vector_info, total_rows) /\ Flushed(vector_info, total_rows)
      /\ Types /\ Undos /\ Clocks
  BY DEF VInv
<1>5. transaction_lock = t /\ t # NoTxn
  BY <1>1, <1>4, TableConstants DEF Types
<1>6. /\ at \in 0..len /\ len \in Nat /\ m \in 1..len /\ m \in 0..len
      /\ (IF at = len THEN m = len ELSE m = at + 1)
  <2>1. at \in 0..len /\ undo[t] \in Seq(Range(undo[t]))
    BY <1>4, <1>5 DEF Types, IsUndo
  <2>2. len \in Nat
    BY <2>1
  <2>3. m \in 1..len /\ (IF at = len THEN m = len ELSE m = at + 1)
    BY <1>2 DEF Reverted
  <2> QED
    BY <2>1, <2>2, <2>3
<1>14. /\ TableSane(r)
       /\ m < len \/ ~ HasFlushed => r.total_rows = total_rows
       /\ m = len /\ HasFlushed => r.total_rows = BaseRow
  <2>1. \A n \in 0..len : /\ TableSane(w[n])
                          /\ n < len \/ ~ HasFlushed => w[n].total_rows = total_rows
                          /\ n = len /\ HasFlushed => w[n].total_rows = BaseRow
    BY <1>2, Zenon DEF Reverted
  <2>2. m \in 0..len
    BY <1>6
  <2> HIDE DEF len
  <2> QED
    BY <2>1, <2>2
<1> HIDE DEF len
<1> HIDE DEF r
<1>15. r.total_rows \in Nat /\ (HasFlushed \/ r.total_rows = total_rows)
  BY <1>14 DEF TableSane, VersionsSane
<1>16. r.total_rows = BaseRow \/ FlushMark' = FlushMark
  <2>1. CASE ~ HasFlushed
    BY <1>14, <2>1 DEF BaseRow
  <2>2. CASE m = len /\ HasFlushed
    BY <1>14, <2>2
  <2>3. CASE m # len
    <3>1. at # Len(undo[t])
      BY <1>6, <2>3 DEF len
    <3>2. phase'[t] = "rolling_back"
      BY <1>1, <1>4 DEF Types
    <3> QED
      BY <1>1, <1>5, <3>1, <3>2 DEF FlushMark, clocks
  <2> QED
    BY <2>1, <2>2, <2>3
<1>17. FlushedAs(r.vector_info, r.total_rows, FlushMark')
  BY <1>14, <1>15, <1>16, MarksStay DEF TableSane
<1>18. at' \in 0..Len(undo[t]) /\ phase'[t] # "committing"
  BY <1>1, <1>4, <1>6 DEF Types, len
<1> QED
  BY <1>1, <1>3, <1>5, <1>14, <1>15, <1>17, <1>18, EntryDone DEF TableSane

\* RemoveTransaction: whose undo buffer and ids are forgotten has ended, and all
\* rows of the table count as old.
LEMMA TransactionRemoved ==
  ASSUME VInv, NEW t \in Txn, transaction_lock = t, NEW committed \in BOOLEAN,
         RemoveTransaction(t, committed)
  PROVE  VInv'
<1> DEFINE store  == committed /\ Kind(t, "update") # {}
           recent == IF store THEN Append(recently_committed, t) ELSE recently_committed
           n      == Cleanable(recent, LowestStart(t))
           done   == ToSet(SubSeq(recent, 1, n)) \cup (IF store THEN {} ELSE {t})
           Ended  == {u \in Txn : phase'[u] = "ended"}
<1>1. /\ recently_committed' = SubSeq(recent, n + 1, Len(recent))
      /\ phase' = [phase EXCEPT ![t] = "ended"]
      /\ transaction_lock' = NoTxn /\ at' = 0
      /\ undo' = [u \in Txn |-> IF u \in done THEN <<>> ELSE undo[u]]
      /\ start_time' = [u \in Txn |-> IF u \in done THEN 0 ELSE start_time[u]]
      /\ transaction_id' = [u \in Txn |-> IF u \in done THEN 0 ELSE transaction_id[u]]
      /\ commit_id' = [u \in Txn |-> IF u \in done THEN 0 ELSE commit_id[u]]
      /\ UNCHANGED <<current_start_timestamp, current_transaction_id, local, total_rows, vector_info>>
  BY Zenon DEF RemoveTransaction, Forget
<1>2. /\ VersionsSane(vector_info, total_rows) /\ Types /\ Undos /\ Clocks
  BY DEF VInv
<1>3. /\ phase' \in [Txn -> {"idle", "active", "invalid", "committing", "rolling_back", "ended"}]
      /\ \A u \in Txn \ {t} : phase'[u] = phase[u]
      /\ phase'[t] = "ended" /\ phase[t] \in {"committing", "rolling_back"} /\ t # NoTxn
  BY <1>1, <1>2, TableConstants DEF Types
<1>4. recent \in Seq(Ended)
  <2>1. recently_committed \in Seq(Ended)
    <3>1. recently_committed \in Seq({u \in Txn : phase[u] = "ended"})
      BY <1>2 DEF Types
    <3>2. \A i \in 1..Len(recently_committed) : recently_committed[i] \in Ended
      BY <1>3, <3>1
    <3> HIDE DEF Ended
    <3> QED
      BY <3>1, <3>2
  <2>2. t \in Ended
    BY <1>3
  <2> HIDE DEF Ended, store
  <2> QED
    BY <2>1, <2>2
<1> HIDE DEF recent
<1>5. n \in 0..Len(recent) /\ Len(recent) \in Nat
  <2> DEFINE S == {k \in DOMAIN recent : commit_id[recent[k]] >= LowestStart(t)} \cup {Len(recent) + 1}
  <2>1. Len(recent) \in Nat /\ DOMAIN recent = 1..Len(recent)
    BY <1>4
  <2>2. S \in SUBSET (1..Len(recent) + 1) /\ S # {}
    BY <2>1
  <2>3. n = Min(S) - 1
    BY DEF Cleanable
  <2> HIDE DEF S, n
  <2>4. Min(S) \in S
    <3>1. S \in SUBSET Nat
      BY <2>1, <2>2
    <3> QED
      BY <2>2, <3>1, MinIsLeast
  <2>5. Min(S) \in 1..Len(recent) + 1
    BY <2>2, <2>4
  <2> QED
    BY <2>1, <2>3, <2>5
<1> HIDE DEF n, Ended
<1>6. recently_committed' \in Seq(Ended)
  <2>1. SubSeq(recent, n + 1, Len(recent)) \in Seq(Ended)
    BY <1>4, <1>5
  <2> QED
    BY <1>1, <2>1
<1>7. done \subseteq Ended
  <2>1. SubSeq(recent, 1, n) \in Seq(Ended)
    BY <1>4, <1>5
  <2> DEFINE s == SubSeq(recent, 1, n)
  <2> HIDE DEF s
  <2>2. \A i \in DOMAIN s : s[i] \in Ended
    BY <2>1 DEF s
  <2>3. ToSet(s) \subseteq Ended
    BY <2>2 DEF ToSet
  <2>4. t \in Ended
    BY <1>3 DEF Ended
  <2> QED
    BY <2>3, <2>4 DEF s
<1> HIDE DEF done
<1>8. Running' = Running \ {t} /\ \A u \in Running' : u \in Txn \ {t} /\ u \notin done /\ u \in Running
  BY <1>3, <1>7 DEF Running, Ended
<1>9. \A u \in Txn : phase'[u] \notin {"committing", "rolling_back"}
  BY <1>2, <1>3 DEF Types
<1>10. Types'
  <2>1. \A u \in Txn : phase'[u] \in {"committing", "rolling_back"} <=> transaction_lock' = u
    BY <1>1, <1>9, TableConstants
  <2>2. start_time' \in [Txn -> Nat] /\ transaction_id' \in [Txn -> Nat] /\ commit_id' \in [Txn -> Nat]
    BY <1>1, <1>2 DEF Types
  <2>3. \A u \in Txn : IsUndo(undo'[u])
    <3>1. IsUndo(<<>>)
      BY DEF IsUndo
    <3> QED
      BY <1>1, <1>2, <3>1 DEF Types
  <2>4. DOMAIN undo' = Txn
    BY <1>1
  <2> QED
    BY <1>1, <1>2, <1>3, <1>6, <2>1, <2>2, <2>3, <2>4 DEF Types, Ended
<1>11. Clocks'
  <2>1. \A u \in Running' : /\ start_time'[u] = start_time[u] /\ transaction_id'[u] = transaction_id[u]
                            /\ u \in Running
    BY <1>1, <1>8
  <2>2. \A u \in Running' : /\ start_time'[u] < current_start_timestamp'
                            /\ TRANSACTION_ID_START <= transaction_id'[u]
                            /\ transaction_id'[u] < current_transaction_id'
    BY <1>1, <1>2, <2>1 DEF Clocks
  <2>3. \A u, w \in Running' : transaction_id'[u] = transaction_id'[w] => u = w
    BY <1>2, <2>1 DEF Clocks
  <2>4. \A u \in Txn : phase'[u] # "committing"
    BY <1>9
  <2>5. TRANSACTION_ID_START <= current_transaction_id' /\ 0 < current_start_timestamp'
    BY <1>1, <1>2 DEF Clocks
  <2> QED
    BY <2>2, <2>3, <2>4, <2>5 DEF Clocks
<1>12. Undos'
  <2> SUFFICES ASSUME NEW u \in Txn
               PROVE  /\ phase'[u] = "idle" => undo'[u] = <<>>
                      /\ \A k \in DOMAIN undo'[u] :
                           /\ undo'[u][k].kind \in {"append", "delete", "update"}
                           /\ undo'[u][k].kind = "append" =>
                                 /\ k = Len(undo'[u]) /\ undo'[u][k].start_row \in Nat
                                 /\ undo'[u][k].count \in Nat
                                 /\ phase'[u] \in {"committing", "rolling_back", "ended"}
                           /\ undo'[u][k].kind = "delete" => undo'[u][k].vector_idx \in Vector
    BY DEF Undos
  <2>1. CASE u \in done
    BY <1>1, <2>1
  <2>2. CASE u \notin done
    BY <1>1, <1>2, <1>3, <2>2 DEF Undos
  <2> QED
    BY <2>1, <2>2
<1>13. FlushWhole' /\ BaseRow' = total_rows
  BY <1>1 DEF FlushWhole, HasFlushed, BaseRow
<1>14. DeletesMarked(vector_info)'
  <2> SUFFICES ASSUME NEW u \in Running', NEW k \in DOMAIN undo'[u], undo'[u][k].kind = "delete"
               PROVE  /\ undo'[u][k].vector_idx * STANDARD_VECTOR_SIZE < total_rows
                      /\ vector_info[undo'[u][k].vector_idx].type = "vector"
                      /\ vector_info[undo'[u][k].vector_idx].any_deleted
    BY <1>1, <1>13 DEF DeletesMarked
  <2>1. undo'[u] = undo[u] /\ u \in Running /\ u \in Txn
    BY <1>1, <1>8
  <2>2. /\ undo[u][k].vector_idx * STANDARD_VECTOR_SIZE < BaseRow
        /\ vector_info[undo[u][k].vector_idx].type = "vector"
        /\ vector_info[undo[u][k].vector_idx].any_deleted
    BY <1>2, <2>1 DEF VersionsSane, DeletesMarked
  <2>3. undo[u][k].vector_idx * STANDARD_VECTOR_SIZE \in Nat
    <3>1. undo[u][k].vector_idx \in Vector
      BY <1>2, <2>1 DEF Undos
    <3> QED
      BY <3>1, VersionConstants DEF Vector
  <2>4. BaseRow \in Nat /\ BaseRow <= total_rows /\ total_rows \in Nat
    BY <1>2, FlushFacts DEF VersionsSane, BaseRow
  <2> QED
    BY <2>1, <2>2, <2>3, <2>4
<1>15. InsertIds(vector_info)'
  <2>1. \A u \in Txn : phase'[u] = "active" => phase[u] = "active" /\ transaction_id'[u] = transaction_id[u]
    BY <1>1, <1>3, <1>7 DEF Ended
  <2> QED
    BY <1>1, <1>2, <2>1 DEF VersionsSane, InsertIds
<1>16. VersionsSane(vector_info, total_rows)'
  BY <1>1, <1>2, <1>13, <1>14, <1>15 DEF VersionsSane
<1>17. Flushed(vector_info, total_rows)'
  <2> SUFFICES ASSUME NEW v \in Vector, NEW i \in Slot, RowAt(v, i) \in total_rows..total_rows - 1
               PROVE  FALSE
    BY <1>1, <1>13 DEF Flushed, FlushedAs
  <2> QED
    BY <1>2 DEF Types
<1> QED
  BY <1>10, <1>11, <1>12, <1>13, <1>16, <1>17 DEF VInv

\* A checkpoint without transactions keeps no mark but that of deleted rows.
LEMMA RestartStep ==
  ASSUME VInv, Restart
  PROVE  VInv'
<1>1. /\ Running = {}
      /\ vector_info' = [v \in Vector |-> WriteAndRead(vector_info[v])]
      /\ current_start_timestamp' = 2 /\ current_transaction_id' = TRANSACTION_ID_START
      /\ UNCHANGED <<phase, start_time, transaction_id, commit_id, transaction_lock, local, undo, at,
                     total_rows, recently_committed>>
  BY DEF Restart
<1>2. /\ VersionsSane(vector_info, total_rows) /\ Types /\ Undos /\ Clocks
  BY DEF VInv
<1>3. transaction_lock = NoTxn /\ \A t \in Txn : phase[t] \in {"idle", "ended"}
  <2>1. \A t \in Txn : phase[t] \in {"idle", "ended"}
    BY <1>1 DEF Running
  <2> QED
    BY <1>2, <2>1 DEF Types
<1>4. ASSUME NEW v \in Vector
      PROVE  /\ vector_info'[v] \in Infos /\ Shortcuts(vector_info'[v], v, total_rows)
             /\ vector_info'[v].type # "none" => vector_info'[v].insert_id = 0
  <2>1. vector_info[v] \in Infos /\ vector_info'[v] = WriteAndRead(vector_info[v])
    BY <1>1, <1>2 DEF Types
  <2> QED
    BY <2>1, KeptInfo
<1>5. vector_info' \in [Vector -> Infos]
  <2>1. DOMAIN vector_info' = Vector /\ vector_info' = [v \in Vector |-> vector_info'[v]]
    BY <1>1
  <2> QED
    BY <1>4, <2>1
<1>6. Types'
  BY <1>1, <1>2, <1>5, VersionConstants DEF Types
<1>7. Running' = {} /\ \A t \in Txn : phase'[t] \in {"idle", "ended"}
  BY <1>1, <1>3 DEF Running
<1>8. Clocks'
  BY <1>1, <1>7, VersionConstants DEF Clocks
<1>9. Undos'
  BY <1>1, <1>2 DEF Undos
<1>10. FlushWhole' /\ BaseRow' = total_rows
  BY <1>1, <1>3 DEF FlushWhole, HasFlushed, BaseRow
<1>11. DeletesMarked(vector_info)'
  BY <1>7 DEF DeletesMarked
<1>12. InsertIds(vector_info)'
  BY <1>1, <1>4, <1>7 DEF InsertIds
<1>13. VersionsSane(vector_info, total_rows)'
  <2>1. total_rows' = total_rows /\ total_rows \in Nat
    BY <1>1, <1>2 DEF Types
  <2> QED
    BY <1>4, <1>5, <1>10, <1>11, <1>12, <2>1 DEF VersionsSane
<1>14. Flushed(vector_info, total_rows)'
  <2> SUFFICES ASSUME NEW v \in Vector, NEW i \in Slot, RowAt(v, i) \in total_rows..total_rows - 1
               PROVE  FALSE
    BY <1>1, <1>10 DEF Flushed, FlushedAs
  <2> QED
    BY <1>2 DEF Types
<1> QED
  BY <1>6, <1>8, <1>9, <1>10, <1>13, <1>14 DEF VInv

\* At first no row has a mark.
LEMMA InitVersions == Init => VInv
<1> SUFFICES ASSUME Init PROVE VInv
  OBVIOUS
<1> USE DEF Init
<1>1. NoInfo \in Infos /\ NoInfo.type = "none"
  BY DEF Infos, NoInfo
<1>2. InitialRows \in Nat /\ TRANSACTION_ID_START \in Nat
  BY TableConstants, VersionConstants
<1>3. \A t \in Txn : phase[t] = "idle" /\ undo[t] = <<>>
  OBVIOUS
<1>4. Types
  <2>1. \A t \in Txn : IsUndo(undo[t])
    BY <1>3 DEF IsUndo
  <2>2. vector_info \in [Vector -> Infos]
    BY <1>1
  <2> QED
    BY <1>2, <1>3, <2>1, <2>2, TableConstants DEF Types
<1>5. Running = {}
  BY <1>3 DEF Running
<1>6. Clocks
  BY <1>2, <1>3, <1>5 DEF Clocks
<1>7. Undos
  BY <1>3 DEF Undos
<1>8. FlushWhole /\ BaseRow = total_rows
  BY DEF FlushWhole, HasFlushed, BaseRow
<1>9. DeletesMarked(vector_info)
  BY <1>5 DEF DeletesMarked
<1>10. \A v \in Vector : vector_info[v].type = "none"
  BY <1>1
<1>11. VersionsSane(vector_info, total_rows)
  BY <1>2, <1>4, <1>8, <1>9, <1>10 DEF VersionsSane, InsertIds, Shortcuts, Types
<1>12. Flushed(vector_info, total_rows)
  <2> SUFFICES ASSUME NEW v \in Vector, NEW i \in Slot, RowAt(v, i) \in total_rows..total_rows - 1
               PROVE  FALSE
    BY <1>8 DEF Flushed, FlushedAs
  <2> QED
    BY <1>2
<1> QED
  BY <1>4, <1>6, <1>7, <1>8, <1>11, <1>12 DEF VInv

\* Every step keeps the invariant.
LEMMA VersionsStep ==
  ASSUME VInv, InRange, InRange', [Next]_vars
  PROVE  VInv'
<1>1. CASE UNCHANGED vars
  <2>1. /\ UNCHANGED <<phase, start_time, transaction_id, commit_id, current_start_timestamp>>
        /\ UNCHANGED <<current_transaction_id, transaction_lock, local, undo, at>>
        /\ UNCHANGED <<total_rows, vector_info, recently_committed>>
    BY <1>1 DEF vars
  <2>2. Types' /\ Undos' /\ Running' = Running
    BY <2>1 DEF VInv, Types, Undos, Running
  <2>3. Clocks'
    BY <2>1, <2>2 DEF VInv, Clocks
  <2>4. HasFlushed' = HasFlushed /\ Flush' = Flush
    BY <2>1 DEF HasFlushed, Flush
  <2>5. BaseRow' = BaseRow /\ FlushMark' = FlushMark
    BY <2>1, <2>4 DEF BaseRow, FlushMark
  <2>6. FlushWhole'
    BY <2>1, <2>4 DEF VInv, FlushWhole
  <2>7. VersionsSane(vector_info, total_rows)' /\ Flushed(vector_info, total_rows)'
    BY <2>1, <2>2, <2>5, VersionsStay DEF VInv
  <2> QED
    BY <2>2, <2>3, <2>6, <2>7 DEF VInv
<1>2. CASE Next
  <2>1. CASE Restart
    BY <2>1, RestartStep
  <2>2. ASSUME NEW t \in Txn,
               \/ StartTransaction(t) \/ BeginCommit(t) \/ FlushFails(t) \/ CommitEntry(t)
               \/ CommitFails(t) \/ RollbackTransaction(t) \/ RollbackEntry(t)
        PROVE  VInv'
    BY <2>2, StartStep, BeginCommitStep, FlushFailsStep, CommitEntryStep, CommitFailsStep,
       RollbackTransactionStep, RollbackEntryStep
  <2>3. ASSUME NEW t \in Txn, NEW n \in AppendCounts, LocalAppend(t, n) PROVE VInv'
    BY <2>3, LocalAppendStep
  <2>4. ASSUME NEW t \in Txn, NEW v \in Vector, NEW p \in RowSets, Delete(t, v, p) \/ Update(t, v, p)
        PROVE  VInv'
    BY <2>4, DeleteStep, UpdateStep
  <2>5. ASSUME NEW t \in Txn, FinishCommit(t) \/ EndRollback(t) PROVE VInv'
    <3>1. /\ phase[t] \in {"committing", "rolling_back"}
          /\ RemoveTransaction(t, TRUE) \/ RemoveTransaction(t, FALSE)
      BY <2>5, Zenon DEF FinishCommit, EndRollback
    <3>2. transaction_lock = t
      BY <3>1 DEF VInv, Types
    <3> QED
      BY <3>1, <3>2, TransactionRemoved
  <2> QED
    BY <1>2, <2>1, <2>2, <2>3, <2>4, <2>5, Zenon DEF Next
<1> QED
  BY <1>1, <1>2

\* NOT_DELETED_ID is above all that a transaction sees, and the shortcuts say what
\* the marks say, so the two ways of reading agree.
LEMMA FetchAgrees == VInv /\ InRange => FetchAgreesWithScan
<1> SUFFICES ASSUME VInv, InRange, NEW t \in Reading, NEW r \in Row, r < total_rows
             PROVE  Fetch(vector_info[VectorOf(r)], Data(t), SlotOf(r))
                      <=> SlotOf(r) \in GetSelVector(vector_info[VectorOf(r)], Data(t))
  BY DEF FetchAgreesWithScan
<1> DEFINE v == VectorOf(r)
           i == SlotOf(r)
           info == vector_info[v]
           txn == Data(t)
<1>1. v \in Vector /\ i \in Slot /\ RowAt(v, i) = r
  BY PlaceOfRow
<1>2. info \in Infos /\ Shortcuts(info, v, total_rows)
  BY <1>1 DEF VInv, Types, VersionsSane
<1>3. ~ UseInsertedVersion(txn, NOT_DELETED_ID)
  <2>1. /\ start_time[t] < current_start_timestamp /\ transaction_id[t] < current_transaction_id
        /\ start_time[t] \in Nat /\ transaction_id[t] \in Nat
        /\ current_start_timestamp \in Nat /\ current_transaction_id \in Nat
    BY DEF VInv, Types, Clocks, Reading, Running
  <2>2. ~ (NOT_DELETED_ID < start_time[t]) /\ NOT_DELETED_ID # transaction_id[t]
    BY <2>1, VersionConstants DEF InRange
  <2> QED
    BY <2>2 DEF UseInsertedVersion, Data
<1> HIDE DEF v, i, info, txn
<1>4. CASE info = NoInfo
  <2>1. info.type = "none"
    BY <1>4 DEF NoInfo
  <2> QED
    BY <1>1, <2>1 DEF Fetch, GetSelVector, v, i, info
<1>5. CASE info \in ConstantInfos
  <2>1. info.type = "constant"
    BY <1>5 DEF ConstantInfos
  <2>2. Fetch(info, txn, i) <=> i \in GetSelVector(info, txn)
    BY <1>1, <2>1 DEF Fetch, GetSelVector, UseDeletedVersion
  <2> QED
    BY <2>2 DEF v, i, info, txn
<1>6. CASE info \in VectorInfos
  <2>1. info.type = "vector"
    BY <1>6 DEF VectorInfos
  <2>2. InsertMark(info, i) = info.inserted[i]
    BY <1>1, <1>2, <2>1 DEF Shortcuts, InsertMark
  <2>3. ~ info.any_deleted => ~ UseInsertedVersion(txn, info.deleted[i])
    BY <1>1, <1>2, <1>3, <2>1 DEF Shortcuts
  <2>4. Fetch(info, txn, i) <=> UseInsertedVersion(txn, info.inserted[i])
                                /\ ~ UseInsertedVersion(txn, info.deleted[i])
    BY <2>1 DEF Fetch
  <2>5. i \in GetSelVector(info, txn) <=>
           /\ UseInsertedVersion(txn, InsertMark(info, i))
           /\ info.any_deleted => ~ UseInsertedVersion(txn, info.deleted[i])
    BY <1>1, <2>1 DEF GetSelVector, UseDeletedVersion
  <2>6. Fetch(info, txn, i) <=> i \in GetSelVector(info, txn)
    BY <2>2, <2>3, <2>4, <2>5
  <2> QED
    BY <2>6 DEF v, i, info, txn
<1> QED
  BY <1>2, <1>4, <1>5, <1>6 DEF Infos

\* As long as the counters stay in their ranges, a row found through the index is
\* visible exactly if a scan returns it, for any table, any size of its vectors and
\* any number of transactions: ChunkVectorInfo's same_inserted_id and any_deleted
\* stay true to the marks of the rows through appends, deletes, commits, failed
\* commits, rollbacks and restarts.
THEOREM FetchesAgreeWithScans == Spec /\ []InRange => []FetchAgreesWithScan
<1>1. Init => VInv
  BY InitVersions
<1>2. VInv /\ InRange /\ InRange' /\ [Next]_vars => VInv'
  BY VersionsStep
<1>3. VInv /\ InRange => FetchAgreesWithScan
  BY FetchAgrees
<1> QED
  BY <1>1, <1>2, <1>3, PTL DEF Spec
-----------------------------------------------------------------------------
(* The invariants of the insert marks and of the rows.                     *)

\* The marks of commits and of transactions.
KnownMarks == (0..current_start_timestamp - 1) \cup (TRANSACTION_ID_START..current_transaction_id - 1)

\* Every insert mark is one of these, those past the end of the table included.
MarksKnown(infos) == \A v \in Vector, i \in Slot : MarkAt(infos[v], i) \in KnownMarks

\* The rows of the table and of the local storages fit.
LocalRows(f) == FoldFunction(+, 0, f)
RowsFit == total_rows + LocalRows(local) <= MaxRows

MInv == MarksKnown(vector_info) /\ RowsFit

\* The hypothesis: a restart finds no mark of a failed commit behind the last row, which
\* it would take for that of a deleted row, and no timestamp that it takes for an id.
CleanRestart ==
  Restart => /\ current_start_timestamp < TRANSACTION_ID_START
             /\ \A v \in Vector, i \in Slot :
                   RowAt(v, i) >= total_rows => MarkAt(vector_info[v], i) < TRANSACTION_ID_START - 1

\* The deletes of running transactions that are not taken back yet: where they are and
\* what they are marked with.
UndoUpTo(t) == IF phase[t] = "rolling_back" THEN at ELSE Len(undo[t])
DeleteIds == {p \in Txn \X Nat : /\ p[1] \in Running /\ p[2] \in 1..UndoUpTo(p[1])
                                 /\ undo[p[1]][p[2]].kind = "delete"}
StampOf(p) == IF phase[p[1]] = "committing" /\ p[2] <= at THEN commit_id[p[1]] ELSE transaction_id[p[1]]
Deletes == [p \in DeleteIds |-> [vector |-> undo[p[1]][p[2]].vector_idx,
                                 slots  |-> DeletedSlots(undo[p[1]][p[2]]),
                                 stamp  |-> StampOf(p)]]

\* The timestamp of the commit in progress; without one, no mark at all.
InProgress == IF \E t \in Txn : phase[t] = "committing" THEN commit_id[transaction_lock] ELSE NOT_DELETED_ID + 1

\* The deletes D are marked, each row for one of them, and rows that are marked with c
\* are among them; all these rows are below base.
DeletesOK(infos, D, base, c) ==
  /\ \A p \in DOMAIN D : /\ D[p].vector \in Vector /\ D[p].slots \subseteq Slot
                         /\ \A i \in D[p].slots : /\ RowAt(D[p].vector, i) < base
                                                  /\ DeleteMark(infos[D[p].vector], i) = D[p].stamp
  /\ \A p, q \in DOMAIN D : p # q /\ D[p].vector = D[q].vector => D[p].slots \cap D[q].slots = {}
  /\ \A v \in Vector, i \in Slot : DeleteMark(infos[v], i) = c =>
        \E p \in DOMAIN D : D[p].vector = v /\ i \in D[p].slots
  /\ \A v \in Vector, i \in Slot : RowAt(v, i) >= base => DeleteMark(infos[v], i) = NOT_DELETED_ID

\* The rows below base are committed; those in L, and no others, are not deleted by a
\* commit but c.
RowsOK(infos, base, clock, ids, c, L) ==
  /\ \A v \in Vector, i \in Slot :
        /\ DeleteMark(infos[v], i) \in (0..clock - 1) \cup (TRANSACTION_ID_START..ids - 1) \cup {NOT_DELETED_ID}
        /\ RowAt(v, i) < base =>
              /\ MarkAt(infos[v], i) < clock
              /\ RowAt(v, i) \in L <=> (clock <= DeleteMark(infos[v], i) \/ DeleteMark(infos[v], i) = c)
  /\ L \subseteq 0..base - 1

\* A vector has an info only if it has rows, and one mark for all of them only if it is
\* filled, and all deleted or not at all.
ConstantsFull(infos, total) ==
  \A v \in Vector :
    /\ infos[v].type # "none" => v * STANDARD_VECTOR_SIZE < total
    /\ infos[v].type = "constant" => /\ infos[v].delete_id \in {0, NOT_DELETED_ID}
                                     /\ \A i \in Slot : RowAt(v, i) < total

\* The index has the rows in L and the flushed ones, and else at most some that are deleted.
IndexOK(idx, total, base, L, G) ==
  /\ L \cup (base..total - 1) \subseteq idx
  /\ idx \subseteq L \cup (base..total - 1) \cup G
  /\ G \cap L = {} /\ G \subseteq 0..base - 1

\* The rows that the commits which await their cleanup have deleted.
AwaitingDeleted == UNION {Deleted(u) : u \in ToSet(recently_committed)}

\* A flush is in the table as a whole or not at all, and gone once it is rolled back.
FlushExtent(total) == HasFlushed => total \in {Flush.start_row, Flush.start_row + Flush.count}
RollbackExtent ==
  HasFlushed /\ phase[transaction_lock] = "rolling_back" /\ at < Len(undo[transaction_lock])
    => total_rows = BaseRow

\* Running transactions have begun after the deletes that a checkpoint has read.
Begun == \A t \in Running : 0 < start_time[t]

\* The commits that await their cleanup are different ones, in the past, and there is none
\* without a running transaction.
RecentOK ==
  /\ \A i, j \in DOMAIN recently_committed : recently_committed[i] = recently_committed[j] => i = j
  /\ \A i \in DOMAIN recently_committed : commit_id[recently_committed[i]] < current_start_timestamp
  /\ Running = {} => recently_committed = <<>>

RInv ==
  /\ DeletesOK(vector_info, Deletes, BaseRow, InProgress)
  /\ RowsOK(vector_info, BaseRow, current_start_timestamp, current_transaction_id, InProgress, live)
  /\ ConstantsFull(vector_info, total_rows)
  /\ IndexOK(index, total_rows, BaseRow, live, AwaitingDeleted)
  /\ FlushExtent(total_rows) /\ RollbackExtent /\ RecentOK /\ Begun
-----------------------------------------------------------------------------
(* What the operations do to the marks.                                    *)

\* The delete marks by the type of the info.
LEMMA MarksByType ==
  ASSUME NEW info \in Infos, NEW i \in Slot
  PROVE  /\ info.type \in {"none", "constant", "vector"}
         /\ info.type = "none" => info = NoInfo /\ MarkAt(info, i) = 0 /\ DeleteMark(info, i) = NOT_DELETED_ID
         /\ info.type = "constant" => /\ info \in ConstantInfos /\ MarkAt(info, i) = info.insert_id
                                      /\ DeleteMark(info, i) = info.delete_id
         /\ info.type = "vector" => /\ info \in VectorInfos /\ MarkAt(info, i) = info.inserted[i]
                                    /\ DeleteMark(info, i) = info.deleted[i]
         /\ MarkAt(info, i) \in Nat /\ DeleteMark(info, i) \in Nat
<1>0. NOT_DELETED_ID \in Nat
  BY VersionConstants
<1>1. CASE info = NoInfo
  BY <1>0, <1>1 DEF NoInfo, MarkAt, DeleteMark
<1>2. CASE info \in ConstantInfos
  BY <1>2 DEF ConstantInfos, MarkAt, DeleteMark
<1>3. CASE info \in VectorInfos
  BY <1>3 DEF VectorInfos, MarkAt, DeleteMark
<1> QED
  BY <1>1, <1>2, <1>3 DEF Infos

\* One mark per row from now on: the same marks, unless the vector was deleted as a
\* whole, which GetVectorInfo forgets.
LEMMA PerRowMarks ==
  ASSUME NEW info \in Infos, NEW g, g = GetVectorInfo(info),
         info.type = "constant" => info.delete_id = NOT_DELETED_ID
  PROVE  /\ g \in VectorInfos
         /\ \A i \in Slot : g.inserted[i] = MarkAt(info, i) /\ g.deleted[i] = DeleteMark(info, i)
<1>0. NOT_DELETED_ID \in Nat
  BY VersionConstants
<1>1. CASE info = NoInfo
  <2>1. g = NewVectorInfo
    BY <1>1 DEF GetVectorInfo, NoInfo
  <2>2. \A i \in Slot : MarkAt(info, i) = 0 /\ DeleteMark(info, i) = NOT_DELETED_ID
    BY <1>1 DEF NoInfo, MarkAt, DeleteMark
  <2> QED
    BY <1>0, <2>1, <2>2 DEF NewVectorInfo, VectorInfos
<1>2. CASE info \in ConstantInfos
  <2>1. info.type = "constant" /\ info.insert_id \in Nat
    BY <1>2 DEF ConstantInfos
  <2>2. g = [NewVectorInfo EXCEPT !.insert_id = info.insert_id, !.inserted = [i \in Slot |-> info.insert_id]]
    BY <2>1 DEF GetVectorInfo
  <2>3. g = [type |-> "vector", insert_id |-> info.insert_id, same_inserted_id |-> TRUE, any_deleted |-> FALSE,
             inserted |-> [i \in Slot |-> info.insert_id], deleted |-> [i \in Slot |-> NOT_DELETED_ID]]
    BY <2>2 DEF NewVectorInfo
  <2>4. g \in VectorInfos /\ \A i \in Slot : g.inserted[i] = info.insert_id /\ g.deleted[i] = NOT_DELETED_ID
    BY <1>0, <2>1, <2>3 DEF VectorInfos
  <2>5. \A i \in Slot : MarkAt(info, i) = info.insert_id /\ DeleteMark(info, i) = info.delete_id
    BY <2>1 DEF MarkAt, DeleteMark
  <2> QED
    BY <2>1, <2>4, <2>5
<1>3. CASE info \in VectorInfos
  <2>1. info.type = "vector"
    BY <1>3 DEF VectorInfos
  <2>2. g = info
    BY <2>1 DEF GetVectorInfo
  <2> QED
    BY <1>3, <2>1, <2>2 DEF MarkAt, DeleteMark
<1> QED
  BY <1>1, <1>2, <1>3 DEF Infos

\* ChunkVectorInfo::Delete marks rows that were not marked.
RowsDeleted(info, rows, id, result) ==
  /\ result.info \in VectorInfos /\ result.info.type = "vector" /\ result.rows \in SUBSET rows
  /\ \A i \in result.rows : DeleteMark(info, i) = NOT_DELETED_ID
  /\ \A i \in Slot : /\ MarkAt(result.info, i) = MarkAt(info, i)
                      /\ DeleteMark(result.info, i) = IF i \in result.rows THEN id ELSE DeleteMark(info, i)

\* And it marks nothing else.
LEMMA DeletedMarks ==
  ASSUME NEW info \in Infos, NEW rows, rows \in SUBSET Slot, NEW id \in Nat,
         info.type = "constant" => info.delete_id = NOT_DELETED_ID
  PROVE  RowsDeleted(info, rows, id, DeleteRows(info, rows, id))
<1> DEFINE result == DeleteRows(info, rows, id)
<1> DEFINE g == GetVectorInfo(info)
           stop == FirstConflict(g, rows, id)
           marked == {i \in rows : i < stop /\ g.deleted[i] = NOT_DELETED_ID}
           D == [i \in Slot |-> IF i \in marked THEN id ELSE g.deleted[i]]
<1>1. /\ g \in VectorInfos
      /\ \A i \in Slot : g.inserted[i] = MarkAt(info, i) /\ g.deleted[i] = DeleteMark(info, i)
  BY PerRowMarks
<1>2. /\ result.info = [g EXCEPT !.any_deleted = TRUE, !.deleted = D]
      /\ result.rows = marked
  <2>1. result = [info |-> [g EXCEPT !.any_deleted = TRUE, !.deleted = D], rows |-> marked,
                  conflict |-> stop \in rows]
    BY Zenon DEF DeleteRows
  <2> HIDE DEF g, stop, marked, D
  <2> QED
    BY <2>1
<1> HIDE DEF g, stop, result
<1>3. D \in [Slot -> Nat]
  BY <1>1 DEF VectorInfos
<1> HIDE DEF D
<1>4. /\ result.info \in VectorInfos /\ result.info.type = "vector"
      /\ result.info.inserted = g.inserted /\ result.info.deleted = D
  BY <1>1, <1>2, <1>3 DEF VectorInfos
<1>5. \A i \in Slot : MarkAt(result.info, i) = g.inserted[i] /\ DeleteMark(result.info, i) = D[i]
  BY <1>4 DEF MarkAt, DeleteMark
<1>6. RowsDeleted(info, rows, id, result)
  BY <1>1, <1>2, <1>4, <1>5 DEF D, RowsDeleted
<1> QED
  BY <1>6 DEF result

\* RowVersionManager::CommitDelete marks the rows of the entry.
LEMMA CommittedDelete ==
  ASSUME NEW infos \in [Vector -> Infos], NEW d, d.vector_idx \in Vector, NEW id \in Nat,
         NEW new, new = CommitDelete(infos, d, id), infos[d.vector_idx].type = "vector"
  PROVE  /\ new \in [Vector -> Infos] /\ new[d.vector_idx].type = "vector"
         /\ \A v \in Vector, i \in Slot :
               /\ MarkAt(new[v], i) = MarkAt(infos[v], i)
               /\ DeleteMark(new[v], i) = IF v = d.vector_idx /\ i \in DeletedSlots(d) THEN id
                                          ELSE DeleteMark(infos[v], i)
         /\ \A v \in Vector : v # d.vector_idx => new[v] = infos[v]
<1> DEFINE w == d.vector_idx
           g == GetVectorInfo(infos[w])
           D == [i \in Slot |-> IF i \in DeletedSlots(d) THEN id ELSE g.deleted[i]]
           n == [g EXCEPT !.deleted = D]
<1>1. /\ g \in VectorInfos
      /\ \A i \in Slot : g.inserted[i] = MarkAt(infos[w], i) /\ g.deleted[i] = DeleteMark(infos[w], i)
  BY PerRowMarks
<1>2. new = [infos EXCEPT ![w] = n]
  BY Zenon DEF CommitDelete
<1> HIDE DEF g
<1>3. D \in [Slot -> Nat]
  BY <1>1 DEF VectorInfos
<1>4. n \in VectorInfos /\ n.type = "vector" /\ n.inserted = g.inserted /\ n.deleted = D
  <2> HIDE DEF D
  <2> QED
    BY <1>1, <1>3 DEF VectorInfos
<1>5. \A i \in Slot : MarkAt(n, i) = g.inserted[i] /\ DeleteMark(n, i) = D[i]
  <2> HIDE DEF D, n
  <2> QED
    BY <1>4 DEF MarkAt, DeleteMark
<1>6. \A i \in Slot : /\ MarkAt(n, i) = MarkAt(infos[w], i)
                      /\ DeleteMark(n, i) = IF i \in DeletedSlots(d) THEN id ELSE DeleteMark(infos[w], i)
  BY <1>1, <1>5
<1> HIDE DEF n, D
<1>7. new[w] = n /\ (\A v \in Vector : v # w => new[v] = infos[v]) /\ new \in [Vector -> Infos]
  <2>1. n \in Infos
    BY <1>4 DEF Infos
  <2> QED
    BY <1>2, <2>1
<1> QED
  BY <1>4, <1>6, <1>7

\* RowVersionManager::AppendVersionInfo marks the rows, and no other.
LEMMA AppendedMarks ==
  ASSUME NEW infos \in [Vector -> Infos], NEW from \in Nat, NEW to \in Nat, NEW id \in Nat,
         ~ AppendVersionError(infos, from, to), NEW v \in Vector,
         NEW new, new = AppendVersionInfo(infos, from, to, id)[v]
  PROVE  /\ \A i \in Slot :
               /\ MarkAt(new, i) = IF RowAt(v, i) \in from..to - 1 THEN id ELSE MarkAt(infos[v], i)
               /\ \/ DeleteMark(new, i) = DeleteMark(infos[v], i)
                  \/ RowAt(v, i) \in from..to - 1 /\ DeleteMark(new, i) = NOT_DELETED_ID
         /\ \/ new.type # "constant"
            \/ infos[v].type = "constant" /\ new = infos[v]
            \/ new.delete_id = NOT_DELETED_ID /\ \A i \in Slot : RowAt(v, i) \in from..to - 1
         /\ new = infos[v] \/ \E i \in Slot : RowAt(v, i) \in from..to - 1
<1> DEFINE slots == Covered(v, from, to)
           info  == infos[v]
           base  == IF info.type = "none" THEN NewVectorInfo ELSE info
<1>0. NOT_DELETED_ID \in Nat
  BY VersionConstants
<1>1. slots \in SUBSET Slot /\ \A i \in Slot : i \in slots <=> RowAt(v, i) \in from..to - 1
  BY DEF Covered, RowAt
<1>2. /\ new = CASE slots = {}   -> info
                 [] slots = Slot -> ConstantInfo(id, NOT_DELETED_ID)
                 [] OTHER -> AppendToVector(base, slots, id)
      /\ info.type = "constant" => slots \in {{}, Slot}
  <2>1. DOMAIN infos = Vector
    OBVIOUS
  <2>2. new = CASE slots = {}   -> info
                 [] slots = Slot -> ConstantInfo(id, NOT_DELETED_ID)
                 [] OTHER -> AppendToVector(base, slots, id)
    BY <2>1 DEF AppendVersionInfo
  <2>3. info.type = "constant" => slots \in {{}, Slot}
    BY <2>1 DEF AppendVersionError
  <2> QED
    BY <2>2, <2>3
<1> HIDE DEF slots
<1> DEFINE Goal ==
             /\ \A i \in Slot :
                   /\ MarkAt(new, i) = IF RowAt(v, i) \in from..to - 1 THEN id ELSE MarkAt(infos[v], i)
                   /\ \/ DeleteMark(new, i) = DeleteMark(infos[v], i)
                      \/ RowAt(v, i) \in from..to - 1 /\ DeleteMark(new, i) = NOT_DELETED_ID
             /\ \/ new.type # "constant"
                \/ infos[v].type = "constant" /\ new = infos[v]
                \/ new.delete_id = NOT_DELETED_ID /\ \A i \in Slot : RowAt(v, i) \in from..to - 1
<1>3. ASSUME slots = {} PROVE Goal
  <2>0. Slot # {}
    BY VersionConstants DEF Slot
  <2>1. new = info
    BY <1>2, <1>3, <2>0
  <2>2. \A i \in Slot : RowAt(v, i) \notin from..to - 1
    BY <1>1, <1>3
  <2> HIDE DEF info
  <2>3. \A i \in Slot : MarkAt(new, i) = MarkAt(info, i) /\ DeleteMark(new, i) = DeleteMark(info, i)
    BY <2>1
  <2>4. new.type # "constant" \/ (info.type = "constant" /\ new = info)
    BY <2>1
  <2> QED
    BY <2>2, <2>3, <2>4 DEF info
<1>4. ASSUME slots = Slot, slots # {} PROVE Goal
  <2>1. new = [type |-> "constant", insert_id |-> id, delete_id |-> NOT_DELETED_ID]
    BY <1>2, <1>4 DEF ConstantInfo
  <2>2. \A i \in Slot : MarkAt(new, i) = id /\ DeleteMark(new, i) = NOT_DELETED_ID
    BY <2>1 DEF MarkAt, DeleteMark
  <2> QED
    BY <1>1, <1>4, <2>1, <2>2
<1>5. ASSUME slots # {}, slots # Slot PROVE Goal
  <2>1. new = AppendToVector(base, slots, id) /\ info.type # "constant"
    BY <1>2, <1>5
  <2>2. /\ base \in VectorInfos
        /\ \A i \in Slot : base.inserted[i] = MarkAt(info, i) /\ base.deleted[i] = DeleteMark(info, i)
    <3>1. info \in Infos
      OBVIOUS
    <3>2. CASE info.type = "none"
      <4>1. base = NewVectorInfo /\ \A i \in Slot : MarkAt(info, i) = 0 /\ DeleteMark(info, i) = NOT_DELETED_ID
        BY <3>1, <3>2, MarksByType
      <4> HIDE DEF base, info
      <4>2. NewVectorInfo \in VectorInfos
        BY <1>0 DEF NewVectorInfo, VectorInfos
      <4>3. \A i \in Slot : NewVectorInfo.inserted[i] = 0 /\ NewVectorInfo.deleted[i] = NOT_DELETED_ID
        BY DEF NewVectorInfo
      <4> QED
        BY <4>1, <4>2, <4>3
    <3>3. CASE info.type # "none"
      <4>1. base = info /\ info \in VectorInfos /\ info.type = "vector"
        BY <2>1, <3>1, <3>3 DEF Infos, NoInfo, ConstantInfos, VectorInfos
      <4> QED
        BY <4>1 DEF MarkAt, DeleteMark
    <3> QED
      BY <3>2, <3>3
  <2> HIDE DEF base
  <2> DEFINE f == [i \in Slot |-> IF i \in slots THEN id ELSE base.inserted[i]]
             other == 0 \notin slots /\ base.insert_id # id
             a == IF 0 \in slots THEN id ELSE IF other THEN NOT_DELETED_ID ELSE base.insert_id
             b == base.same_inserted_id /\ ~ other
  <2>3. new = [base EXCEPT !.insert_id = a, !.same_inserted_id = b, !.inserted = f]
    BY <2>1, Zenon DEF AppendToVector
  <2> HIDE DEF a, b, f, other
  <2>4. new.type = "vector" /\ new.inserted = f /\ new.deleted = base.deleted
    BY <2>2, <2>3 DEF VectorInfos
  <2>5. \A i \in Slot : MarkAt(new, i) = f[i] /\ DeleteMark(new, i) = base.deleted[i]
    BY <2>4 DEF MarkAt, DeleteMark
  <2> QED
    BY <1>1, <2>2, <2>4, <2>5 DEF f
<1>6. slots # {} => \E i \in Slot : RowAt(v, i) \in from..to - 1
  BY <1>1
<1>7. slots = {} => new = infos[v]
  <2>1. Slot # {}
    BY VersionConstants DEF Slot
  <2> QED
    BY <1>2, <2>1
<1>8. new = infos[v] \/ \E i \in Slot : RowAt(v, i) \in from..to - 1
  BY <1>6, <1>7
<1>9. \/ new.type # "constant"
      \/ infos[v].type = "constant" /\ new = infos[v]
      \/ new.delete_id = NOT_DELETED_ID /\ \A i \in Slot : RowAt(v, i) \in from..to - 1
  BY <1>3, <1>4, <1>5
<1>10. \A i \in Slot :
          /\ MarkAt(new, i) = IF RowAt(v, i) \in from..to - 1 THEN id ELSE MarkAt(infos[v], i)
          /\ \/ DeleteMark(new, i) = DeleteMark(infos[v], i)
             \/ RowAt(v, i) \in from..to - 1 /\ DeleteMark(new, i) = NOT_DELETED_ID
  BY <1>3, <1>4, <1>5
<1> QED
  BY <1>8, <1>9, <1>10

\* RowVersionManager::CommitAppend changes the insert marks of the append, and those only.
LEMMA CommittedMarks ==
  ASSUME NEW infos \in [Vector -> Infos], NEW from \in Nat, NEW to \in Nat, NEW id \in Nat,
         NEW v \in Vector, Entered(infos[v], v, from, to),
         NEW new, new = CommitAppend(infos, from, to, id)[v]
  PROVE  /\ new.type = infos[v].type
         /\ new.type = "constant" => new.delete_id = infos[v].delete_id
         /\ \A i \in Slot :
               /\ DeleteMark(new, i) = DeleteMark(infos[v], i)
               /\ MarkAt(new, i) \in {id, MarkAt(infos[v], i)}
               /\ RowAt(v, i) < from => MarkAt(new, i) = MarkAt(infos[v], i)
<1> DEFINE slots == Covered(v, from, to)
           info  == infos[v]
<1>1. slots \in SUBSET Slot /\ \A i \in Slot : /\ i \in slots <=> RowAt(v, i) \in from..to - 1
                                                /\ RowAt(v, i) \in Nat /\ v * STANDARD_VECTOR_SIZE <= RowAt(v, i)
                                                /\ v * STANDARD_VECTOR_SIZE \in Nat
  BY RowPlaces DEF Covered, RowAt
<1> DEFINE f == [i \in Slot |-> IF i \in slots THEN id ELSE info.inserted[i]]
           a == IF info.same_inserted_id THEN id ELSE info.insert_id
<1>2. new = IF slots = {} THEN info
            ELSE IF info.type = "constant" THEN [info EXCEPT !.insert_id = id]
            ELSE [info EXCEPT !.insert_id = a, !.inserted = f]
  <2>1. DOMAIN infos = Vector
    OBVIOUS
  <2> QED
    BY <2>1, Zenon DEF CommitAppend
<1> HIDE DEF slots, f, a
<1>3. CASE slots = {}
  BY <1>2, <1>3
<1>4. CASE slots # {} /\ info.type = "constant"
  <2>1. info \in ConstantInfos
    BY <1>4 DEF Infos, NoInfo, VectorInfos
  <2>2. new = [info EXCEPT !.insert_id = id]
    BY <1>2, <1>4
  <2>3. new.type = "constant" /\ new.insert_id = id /\ new.delete_id = info.delete_id
    BY <2>1, <2>2 DEF ConstantInfos
  <2>4. \A i \in Slot : MarkAt(new, i) = id /\ DeleteMark(new, i) = DeleteMark(info, i)
    BY <1>4, <2>3 DEF MarkAt, DeleteMark
  <2>5. from <= v * STANDARD_VECTOR_SIZE
    BY <1>1, <1>4 DEF Entered, OneMark
  <2>6. ASSUME NEW i \in Slot PROVE ~ RowAt(v, i) < from
    <3>1. \A a1, b, c \in Nat : a1 <= b /\ b <= c => ~ c < a1
      OBVIOUS
    <3> DEFINE x == RowAt(v, i)
               y == v * STANDARD_VECTOR_SIZE
    <3>2. x \in Nat /\ y \in Nat /\ y <= x
      BY RowPlaces
    <3>3. from <= y
      BY <2>5
    <3> HIDE DEF x, y
    <3>4. ~ x < from
      BY <3>1, <3>2, <3>3
    <3> QED
      BY <3>4 DEF x
  <2> QED
    BY <1>4, <2>3, <2>4, <2>6
<1>5. CASE slots # {} /\ info.type # "constant"
  <2>1. info.type # "none"
    BY <1>1, <1>5 DEF Entered
  <2>2. info \in VectorInfos /\ info.type = "vector"
    BY <1>5, <2>1 DEF Infos, NoInfo, ConstantInfos, VectorInfos
  <2>3. new = [info EXCEPT !.insert_id = a, !.inserted = f]
    BY <1>2, <1>5
  <2>4. new.type = "vector" /\ new.inserted = f /\ new.deleted = info.deleted
    BY <2>2, <2>3 DEF VectorInfos
  <2>5. \A i \in Slot : /\ MarkAt(new, i) = f[i] /\ DeleteMark(new, i) = info.deleted[i]
                        /\ MarkAt(info, i) = info.inserted[i] /\ DeleteMark(info, i) = info.deleted[i]
    BY <2>2, <2>4 DEF MarkAt, DeleteMark
  <2>6. \A i \in Slot : f[i] = IF i \in slots THEN id ELSE info.inserted[i]
    BY DEF f
  <2>7. ASSUME NEW i \in Slot, RowAt(v, i) < from PROVE i \notin slots
    BY <1>1, <2>7
  <2> QED
    BY <2>2, <2>4, <2>5, <2>6, <2>7
<1> QED
  BY <1>3, <1>4, <1>5

\* RowVersionManager::RevertAppend forgets the marks of the vectors behind the row.
LEMMA RevertedMarks ==
  ASSUME NEW infos \in [Vector -> Infos], NEW from \in Nat, NEW v \in Vector, NEW i \in Slot,
         NEW new, new = RevertAppend(infos, from)[v]
  PROVE  /\ v * STANDARD_VECTOR_SIZE < from => new = infos[v]
         /\ ~ (v * STANDARD_VECTOR_SIZE < from) => /\ new = NoInfo /\ MarkAt(new, i) = 0
                                                   /\ DeleteMark(new, i) = NOT_DELETED_ID
         /\ RowAt(v, i) < from => v * STANDARD_VECTOR_SIZE < from
<1>1. DOMAIN infos = Vector
  OBVIOUS
<1>2. new = IF v * STANDARD_VECTOR_SIZE >= from THEN NoInfo ELSE infos[v]
  BY <1>1 DEF RevertAppend
<1>3. MarkAt(NoInfo, i) = 0 /\ DeleteMark(NoInfo, i) = NOT_DELETED_ID
  BY DEF NoInfo, MarkAt, DeleteMark
<1> DEFINE x == RowAt(v, i)
           y == v * STANDARD_VECTOR_SIZE
<1>4. x \in Nat /\ y \in Nat /\ y <= x
  BY RowPlaces
<1> HIDE DEF x, y
<1>5. y < from <=> ~ (y >= from)
  BY <1>4
<1>6. x < from => y < from
  BY <1>4
<1> QED
  BY <1>2, <1>3, <1>5, <1>6 DEF x, y

\* After a checkpoint no row has an insert mark.
LEMMA KeptInserts ==
  ASSUME NEW info \in Infos, NEW i \in Slot
  PROVE  MarkAt(WriteAndRead(info), i) = 0
<1> DEFINE new == WriteAndRead(info)
           visible == GetSelVector(info, AllCommitted)
           f == [j \in Slot |-> IF j \in visible THEN NewVectorInfo.deleted[j] ELSE 0]
<1>1. \/ new = NoInfo \/ new = ConstantInfo(0, 0)
      \/ new = [NewVectorInfo EXCEPT !.any_deleted = TRUE, !.deleted = f]
  BY DEF WriteAndRead
<1> HIDE DEF new, f
<1>2. CASE new = NoInfo
  BY <1>2 DEF NoInfo, MarkAt, new
<1>3. CASE new = ConstantInfo(0, 0)
  BY <1>3 DEF ConstantInfo, MarkAt, new
<1>4. CASE new = [NewVectorInfo EXCEPT !.any_deleted = TRUE, !.deleted = f]
  <2>1. new.type = "vector" /\ new.inserted = [j \in Slot |-> 0]
    BY <1>4 DEF NewVectorInfo
  <2> QED
    BY <2>1 DEF MarkAt, new
<1> QED
  BY <1>1, <1>2, <1>3, <1>4
-----------------------------------------------------------------------------
(* The marks and the bounds of the rows.                                   *)

\* RevertCommit or Rollback of one entry gives no row a new insert mark.
LEMMA EntryMarks ==
  ASSUME Types, Clocks, Undos, NEW t \in Txn, transaction_lock = t, NEW n \in 1..Len(undo[t]),
         NEW tab, TableSane(tab), NEW r,
         \/ r = RevertCommitEntry(tab, undo[t][n], t)
         \/ r = RollbackEntryOf(tab, undo[t][n], t),
         NEW v \in Vector, NEW i \in Slot
  PROVE  MarkAt(r.vector_info[v], i) \in {0, MarkAt(tab.vector_info[v], i)}
<1> DEFINE e == undo[t][n]
           infos == tab.vector_info
<1>1. t \in Running /\ t # NoTxn /\ transaction_id[t] \in Nat /\ NOT_DELETED_ID \in Nat
  BY TableConstants, VersionConstants DEF Types, Running
<1>2. /\ n \in DOMAIN undo[t]
      /\ e.kind = "append" => n = Len(undo[t]) /\ HasFlushed /\ Flush = e
  BY EntryFacts
<1>3. e.kind \in {"append", "delete", "update"} /\ infos \in [Vector -> Infos] /\ DOMAIN tab = Fields
  BY <1>2 DEF Undos, TableSane, VersionsSane
<1>4. CASE e.kind = "append"
  <2>1. e.start_row \in Nat
    BY <1>2, <1>4 DEF Undos
  <2> DEFINE c == tab.index \ (e.start_row..Min({e.start_row + e.count, tab.total_rows}) - 1)
             b == RevertAppend(infos, e.start_row)
  <2>2. r = RevertAppendEntry(tab, e)
    BY <1>4 DEF RevertCommitEntry, RollbackEntryOf
  <2>3. r = [tab EXCEPT !.total_rows = e.start_row, !.vector_info = b, !.index = c]
    BY <2>2, Zenon DEF RevertAppendEntry
  <2> HIDE DEF c, b
  <2>4. r.vector_info = b
    BY <1>3, <2>3 DEF Fields
  <2> HIDE DEF e, infos
  <2>5. b[v] = infos[v] \/ MarkAt(b[v], i) = 0
    BY <1>3, <2>1, RevertedMarks DEF b
  <2> QED
    BY <2>4, <2>5 DEF infos
<1>5. CASE e.kind = "delete"
  <2>1. PICK id \in Nat : r = [tab EXCEPT !.vector_info = CommitDelete(infos, e, id)]
    BY <1>1, <1>5 DEF RevertCommitEntry, RollbackEntryOf
  <2> DEFINE d == CommitDelete(infos, e, id)
  <2>2. r = [tab EXCEPT !.vector_info = d] /\ id \in Nat
    BY <2>1
  <2>3. e.vector_idx \in Vector /\ infos[e.vector_idx].type = "vector"
    BY <1>1, <1>2, <1>5 DEF Undos, TableSane, VersionsSane, DeletesMarked
  <2> HIDE DEF e, infos
  <2>4. MarkAt(d[v], i) = MarkAt(infos[v], i)
    BY <1>3, <2>2, <2>3, CommittedDelete
  <2> HIDE DEF d
  <2>5. r.vector_info = d
    BY <1>3, <2>2 DEF Fields
  <2> QED
    BY <2>4, <2>5 DEF infos
<1>6. CASE e.kind = "update"
  <2>1. \/ r = [tab EXCEPT !.updates[e.vector_idx] = SetVersion(@, t, transaction_id[t])]
        \/ r = [tab EXCEPT !.updates[e.vector_idx] = RollbackUpdate(@, t)]
    BY <1>6 DEF RevertCommitEntry, RollbackEntryOf
  <2>2. r.vector_info = infos
    BY <1>3, <2>1 DEF Fields
  <2> QED
    BY <2>2
<1> QED
  BY <1>3, <1>4, <1>5, <1>6

\* Marks that are those of before, or 0, or that of a transaction or commit, are known.
LEMMA MarksKnownStay ==
  ASSUME Types, Clocks, MarksKnown(vector_info),
         current_start_timestamp' \in Nat, current_start_timestamp <= current_start_timestamp',
         current_transaction_id' \in Nat, current_transaction_id <= current_transaction_id',
         NEW m, m \in KnownMarks,
         \A v \in Vector, i \in Slot : MarkAt(vector_info'[v], i) \in {0, m, MarkAt(vector_info[v], i)}
  PROVE  MarksKnown(vector_info)'
<1>1. 0 \in KnownMarks
  BY DEF KnownMarks, Types, Clocks
<1>2. ASSUME NEW k \in KnownMarks PROVE k \in KnownMarks'
  <2>1. \A a, b, c \in Nat : a <= b /\ k \in c..a - 1 => k \in c..b - 1
    OBVIOUS
  <2>2. /\ current_start_timestamp \in Nat /\ current_transaction_id \in Nat
        /\ TRANSACTION_ID_START \in Nat /\ 0 \in Nat
    BY VersionConstants DEF Types
  <2>3. k \in 0..current_start_timestamp - 1 \/ k \in TRANSACTION_ID_START..current_transaction_id - 1
    BY DEF KnownMarks
  <2>4. k \in 0..current_start_timestamp' - 1 \/ k \in TRANSACTION_ID_START..current_transaction_id' - 1
    BY <2>1, <2>2, <2>3
  <2> QED
    BY <2>4 DEF KnownMarks
<1> QED
  BY <1>1, <1>2 DEF MarksKnown

\* A running transaction's id, and the timestamp of a commit, are known marks.
LEMMA OwnMarks ==
  ASSUME Types, Clocks, NEW t \in Running
  PROVE  /\ transaction_id[t] \in KnownMarks /\ transaction_id[t] \in Nat
         /\ phase[t] = "committing" => commit_id[t] \in KnownMarks /\ commit_id[t] \in Nat
<1>1. /\ transaction_id[t] \in Nat /\ commit_id[t] \in Nat /\ t \in Txn
      /\ current_start_timestamp \in Nat /\ current_transaction_id \in Nat /\ TRANSACTION_ID_START \in Nat
  BY VersionConstants DEF Types, Running
<1>2. TRANSACTION_ID_START <= transaction_id[t] /\ transaction_id[t] < current_transaction_id
  BY DEF Clocks
<1>3. phase[t] = "committing" => commit_id[t] < current_start_timestamp
  BY <1>1 DEF Clocks
<1>4. \A a, b, c \in Nat : a <= b /\ b < c => b \in a..c - 1
  OBVIOUS
<1>5. \A b, c \in Nat : b < c => b \in 0..c - 1
  OBVIOUS
<1> QED
  BY <1>1, <1>2, <1>3, <1>4, <1>5 DEF KnownMarks

\* Every insert mark stays one of a commit or of a transaction.
LEMMA MarksStep ==
  ASSUME VInv, InRange, MarksKnown(vector_info), [Next]_vars
  PROVE  MarksKnown(vector_info)'
<1>1. Types /\ Clocks /\ Undos /\ FlushWhole /\ VersionsSane(vector_info, total_rows)
      /\ Flushed(vector_info, total_rows) /\ vector_info \in [Vector -> Infos]
  BY DEF VInv, Types
<1>2. current_start_timestamp \in Nat /\ current_transaction_id \in Nat /\ 0 \in KnownMarks
  BY <1>1 DEF Types, Clocks, KnownMarks
<1>3. ASSUME UNCHANGED vector_info,
             current_start_timestamp' \in {current_start_timestamp, current_start_timestamp + 1},
             current_transaction_id' \in {current_transaction_id, current_transaction_id + 1}
      PROVE  MarksKnown(vector_info)'
  BY <1>1, <1>2, <1>3, MarksKnownStay
<1>4. ASSUME UNCHANGED <<current_start_timestamp, current_transaction_id>>,
             NEW m \in KnownMarks,
             \A v \in Vector, i \in Slot : MarkAt(vector_info'[v], i) \in {0, m, MarkAt(vector_info[v], i)}
      PROVE  MarksKnown(vector_info)'
  BY <1>1, <1>2, <1>4, MarksKnownStay
<1>5. CASE UNCHANGED vars
  BY <1>3, <1>5 DEF vars
<1>6. CASE Restart
  <2>1. vector_info' = [v \in Vector |-> WriteAndRead(vector_info[v])] /\ current_start_timestamp' = 2
    BY <1>6 DEF Restart
  <2>2. 0 \in KnownMarks'
    BY <2>1 DEF KnownMarks
  <2>3. ASSUME NEW v \in Vector, NEW i \in Slot PROVE MarkAt(vector_info'[v], i) = 0
    <3>1. vector_info[v] \in Infos /\ vector_info'[v] = WriteAndRead(vector_info[v])
      BY <1>1, <2>1
    <3> QED
      BY <3>1, KeptInserts
  <2> QED
    BY <2>2, <2>3 DEF MarksKnown
<1>7. ASSUME NEW t \in Txn,
             \/ StartTransaction(t) \/ FlushFails(t) \/ RollbackTransaction(t)
             \/ \E n \in AppendCounts : LocalAppend(t, n)
             \/ \E v \in Vector, p \in RowSets : Update(t, v, p)
      PROVE  MarksKnown(vector_info)'
  <2>1. CASE StartTransaction(t)
    BY <1>3, <2>1 DEF StartTransaction, table
  <2>2. CASE FlushFails(t)
    BY <1>3, <2>2 DEF FlushFails
  <2>3. CASE RollbackTransaction(t)
    BY <1>3, <2>3 DEF RollbackTransaction, table, clocks
  <2>4. CASE \E n \in AppendCounts : LocalAppend(t, n)
    BY <1>3, <2>4 DEF LocalAppend, table, clocks
  <2>5. CASE \E v \in Vector, p \in RowSets : Update(t, v, p)
    BY <1>3, <2>5 DEF Update, clocks
  <2> QED
    BY <1>7, <2>1, <2>2, <2>3, <2>4, <2>5
<1>8. ASSUME NEW t \in Txn, FinishCommit(t) \/ EndRollback(t) PROVE MarksKnown(vector_info)'
  <2>1. RemoveTransaction(t, TRUE) \/ RemoveTransaction(t, FALSE)
    BY <1>8, Zenon DEF FinishCommit, EndRollback
  <2>2. UNCHANGED <<current_start_timestamp, current_transaction_id, vector_info>>
    BY <2>1, Zenon DEF RemoveTransaction
  <2> QED
    BY <1>3, <2>2
<1>9. ASSUME NEW t \in Txn, NEW v \in Vector, NEW p \in RowSets, Delete(t, v, p)
      PROVE  MarksKnown(vector_info)'
  <2> DEFINE new == DeleteRows(vector_info[v], Matching(t, v, p), transaction_id[t]).info
  <2>1. /\ vector_info' = [vector_info EXCEPT ![v] = new]
        /\ UNCHANGED <<current_start_timestamp, current_transaction_id>>
    BY <1>9 DEF Delete, clocks
  <2>2. vector_info[v] \in Infos /\ Shortcuts(vector_info[v], v, total_rows) /\ transaction_id[t] \in Nat
    BY <1>1 DEF VersionsSane, Types
  <2>3. PICK D \in [Slot -> Nat] : new = Remarked(vector_info[v], D)
    BY <2>2, DeletedInfo
  <2> HIDE DEF new
  <2>4. \A i \in Slot : MarkAt(new, i) = MarkAt(vector_info[v], i)
    BY <2>2, <2>3, RemarkedInfo
  <2>5. \A u \in Vector, i \in Slot : MarkAt(vector_info'[u], i) = MarkAt(vector_info[u], i)
    BY <1>1, <2>1, <2>4
  <2> QED
    BY <1>2, <1>4, <2>1, <2>5
<1>10. ASSUME NEW t \in Txn, BeginCommit(t) PROVE MarksKnown(vector_info)'
  <2> DEFINE to == total_rows + local[t]
             new == AppendVersionInfo(vector_info, total_rows, to, transaction_id[t])
  <2>1. /\ phase[t] = "active" /\ current_start_timestamp' = current_start_timestamp + 1
        /\ UNCHANGED current_transaction_id
        /\ \/ UNCHANGED vector_info
           \/ ~ AppendVersionError(vector_info, total_rows, to) /\ vector_info' = new
    BY <1>10 DEF BeginCommit, table
  <2>2. transaction_id[t] \in KnownMarks /\ transaction_id[t] \in Nat
    BY <1>1, <2>1, OwnMarks DEF Running
  <2>3. CASE UNCHANGED vector_info
    BY <1>3, <2>1, <2>3
  <2>4. CASE ~ AppendVersionError(vector_info, total_rows, to) /\ vector_info' = new
    <3>1. total_rows \in Nat /\ to \in Nat
      BY <1>1 DEF Types
    <3> HIDE DEF to
    <3>2. ASSUME NEW v \in Vector, NEW i \in Slot
          PROVE  MarkAt(vector_info'[v], i) \in {0, transaction_id[t], MarkAt(vector_info[v], i)}
      <4>1. \A j \in Slot : MarkAt(new[v], j) =
               IF RowAt(v, j) \in total_rows..to - 1 THEN transaction_id[t] ELSE MarkAt(vector_info[v], j)
        BY <1>1, <2>2, <2>4, <3>1, AppendedMarks
      <4> HIDE DEF new
      <4> QED
        BY <2>4, <4>1
    <3> QED
      BY <1>1, <1>2, <2>1, <2>2, <3>2, MarksKnownStay
  <2> QED
    BY <2>1, <2>3, <2>4
<1>11. ASSUME NEW t \in Txn, CommitEntry(t) PROVE MarksKnown(vector_info)'
  <2> DEFINE n == at + 1
             e == undo[t][n]
             id == commit_id[t]
  <2>1. /\ phase[t] = "committing" /\ at < Len(undo[t])
        /\ UNCHANGED <<current_start_timestamp, current_transaction_id>>
        /\ \/ /\ e.kind = "append"
              /\ vector_info' = CommitAppend(vector_info, e.start_row, e.start_row + e.count, id)
           \/ e.kind = "delete" /\ vector_info' = CommitDelete(vector_info, e, id)
           \/ e.kind = "update" /\ vector_info' = vector_info
    BY <1>11 DEF CommitEntry, clocks
  <2>2. transaction_lock = t /\ t # NoTxn /\ t \in Running
    BY <1>1, <2>1, TableConstants DEF Types, Running
  <2>3. n \in 1..Len(undo[t])
    <3>1. at \in 0..Len(undo[t]) /\ Len(undo[t]) \in Nat
      BY <1>1, <2>2 DEF Types, IsUndo
    <3> QED
      BY <2>1, <3>1
  <2>4. id \in KnownMarks /\ id \in Nat
    BY <1>1, <2>1, <2>2, OwnMarks
  <2>5. /\ n \in DOMAIN undo[t]
        /\ e.kind = "append" => n = Len(undo[t]) /\ HasFlushed /\ Flush = e
    BY <1>1, <2>2, <2>3, EntryFacts
  <2>6. ASSUME NEW v \in Vector, NEW i \in Slot
        PROVE  MarkAt(vector_info'[v], i) \in {0, id, MarkAt(vector_info[v], i)}
    <3>1. CASE e.kind = "append" /\ vector_info' = CommitAppend(vector_info, e.start_row, e.start_row + e.count, id)
      <4>1. /\ BaseRow = e.start_row /\ total_rows = e.start_row + e.count
            /\ BaseRow \in Nat /\ total_rows \in Nat
        <5>1. BaseRow = e.start_row /\ total_rows = e.start_row + e.count
          BY <1>1, <2>1, <2>2, <2>5, <3>1 DEF FlushWhole, BaseRow
        <5>2. e.start_row \in Nat /\ total_rows \in Nat
          BY <1>1, <2>5, <3>1 DEF Undos, Types
        <5> QED
          BY <5>1, <5>2
      <4>2. Entered(vector_info[v], v, BaseRow, total_rows)
        BY <1>1 DEF Entered, Flushed, FlushedAs
      <4>3. vector_info' = CommitAppend(vector_info, BaseRow, total_rows, id)
        BY <3>1, <4>1
      <4> DEFINE x == vector_info'[v]
      <4>4. x = CommitAppend(vector_info, BaseRow, total_rows, id)[v]
        BY <4>3
      <4> HIDE DEF x, id, e
      <4>5. \A j \in Slot : MarkAt(x, j) \in {id, MarkAt(vector_info[v], j)}
        BY <1>1, <2>4, <4>1, <4>2, <4>4, CommittedMarks
      <4> QED
        BY <4>5 DEF x
    <3>2. CASE e.kind = "delete" /\ vector_info' = CommitDelete(vector_info, e, id)
      <4>1. e.vector_idx \in Vector /\ vector_info[e.vector_idx].type = "vector"
        BY <1>1, <2>2, <2>5, <3>2 DEF Undos, VersionsSane, DeletesMarked
      <4> HIDE DEF e, id
      <4>2. MarkAt(vector_info'[v], i) = MarkAt(vector_info[v], i)
        BY <1>1, <2>4, <3>2, <4>1, CommittedDelete
      <4> QED
        BY <4>2
    <3>3. CASE vector_info' = vector_info
      BY <3>3
    <3> QED
      BY <2>1, <3>1, <3>2, <3>3
  <2> HIDE DEF id
  <2> QED
    BY <1>4, <2>1, <2>4, <2>6
<1>12. ASSUME NEW t \in Txn, CommitFails(t) PROVE MarksKnown(vector_info)'
  <2>1. phase[t] = "committing" /\ UNCHANGED <<current_start_timestamp, current_transaction_id>>
    BY <1>12 DEF CommitFails, clocks
  <2>2. transaction_lock = t
    BY <1>1, <2>1 DEF Types
  <2>3. PICK w, m : Reverted(w, m, t)
    BY <1>12, CommitReverted
  <2> DEFINE len == Len(undo[t])
             Kept == {k \in 0..len : \A v \in Vector, i \in Slot :
                         MarkAt(w[k].vector_info[v], i) \in {0, MarkAt(vector_info[v], i)}}
  <2>4. /\ m \in 1..len /\ len \in Nat /\ w[0] = Table /\ vector_info' = w[m].vector_info
        /\ \A n \in 1..len : w[n] = RevertCommitEntry(w[n - 1], undo[t][n], t)
        /\ \A n \in 0..len : TableSane(w[n])
    <3>1. len \in Nat
      BY <1>1 DEF Types, IsUndo
    <3> QED
      BY <2>3, <3>1 DEF Reverted, TableBecomes
  <2>5. 0 \in Kept
    <3>1. Table.vector_info = vector_info
      BY DEF Table
    <3> QED
      BY <2>4, <3>1
  <2>6. ASSUME NEW k \in 0..len - 1, k \in Kept PROVE k + 1 \in Kept
    <3> DEFINE j == k + 1
               q == w[j]
               p == w[k]
    <3>1. j \in 1..len /\ j - 1 = k /\ j \in 0..len /\ k \in 0..len
      BY <2>4
    <3>2. q = RevertCommitEntry(p, undo[t][j], t) /\ TableSane(p)
      BY <2>4, <3>1
    <3>3. \A v \in Vector, i \in Slot : MarkAt(p.vector_info[v], i) \in {0, MarkAt(vector_info[v], i)}
      BY <2>6
    <3>4. j \in 1..Len(undo[t])
      BY <3>1
    <3> HIDE DEF j, p, q
    <3>5. \A v \in Vector, i \in Slot : MarkAt(q.vector_info[v], i) \in {0, MarkAt(p.vector_info[v], i)}
      BY <1>1, <2>2, <3>2, <3>4, EntryMarks
    <3>6. \A v \in Vector, i \in Slot : MarkAt(q.vector_info[v], i) \in {0, MarkAt(vector_info[v], i)}
      BY <3>3, <3>5
    <3>7. j \in Kept
      BY <3>1, <3>6 DEF q
    <3> QED
      BY <3>7 DEF j
  <2> HIDE DEF Kept
  <2>7. \A k \in 0..len : k \in Kept
    BY <2>4, <2>5, <2>6, CountingUp
  <2>8. m \in 0..len
    BY <2>4
  <2>9. \A v \in Vector, i \in Slot : MarkAt(vector_info'[v], i) \in {0, MarkAt(vector_info[v], i)}
    BY <2>4, <2>7, <2>8 DEF Kept
  <2> QED
    BY <1>2, <1>4, <2>1, <2>9
<1>13. ASSUME NEW t \in Txn, RollbackEntry(t) PROVE MarksKnown(vector_info)'
  <2> DEFINE r == RollbackEntryOf(Table, undo[t][at], t)
  <2>1. /\ phase[t] = "rolling_back" /\ at > 0 /\ vector_info' = r.vector_info
        /\ UNCHANGED <<current_start_timestamp, current_transaction_id>>
    BY <1>13 DEF RollbackEntry, TableBecomes, clocks
  <2>2. transaction_lock = t /\ t # NoTxn
    BY <1>1, <2>1, TableConstants DEF Types
  <2>3. at \in 1..Len(undo[t])
    <3>1. at \in 0..Len(undo[t]) /\ Len(undo[t]) \in Nat
      BY <1>1, <2>2 DEF Types, IsUndo
    <3> QED
      BY <2>1, <3>1
  <2>4. TableSane(Table) /\ Table.vector_info = vector_info
    BY <1>1 DEF TableSane, Table, Fields
  <2>5. \A v \in Vector, i \in Slot : MarkAt(r.vector_info[v], i) \in {0, MarkAt(Table.vector_info[v], i)}
    BY <1>1, <2>2, <2>3, <2>4, EntryMarks
  <2> HIDE DEF r
  <2> QED
    BY <1>2, <1>4, <2>1, <2>4, <2>5
<1> QED
  BY <1>5, <1>6, <1>7, <1>8, <1>9, <1>10, <1>11, <1>12, <1>13, Zenon DEF Next

\* All local rows together, when one transaction's change.
LEMMA LocalRowsChanged ==
  ASSUME NEW f \in [Txn -> Nat], NEW t \in Txn, NEW n \in Nat
  PROVE  /\ LocalRows(f) \in Nat /\ f[t] \in Nat /\ f[t] <= LocalRows(f)
         /\ LocalRows([f EXCEPT ![t] = n]) = LocalRows(f) - f[t] + n
<1>1. f[t] \in Nat
  OBVIOUS
<1>2. IsFiniteSet(Txn)
  BY TableConstants
<1> QED
  BY <1>1, <1>2, SumChanged, Zenon DEF LocalRows

\* A flush moves rows from the local storage into the table, and an INSERT looks at both.
LEMMA FitStep ==
  ASSUME VInv, VInv', RowsFit, [Next]_vars
  PROVE  RowsFit'
<1> DEFINE sum == LocalRows(local)
<1>1. Types /\ Undos /\ VersionsSane(vector_info, total_rows) /\ total_rows \in Nat /\ local \in [Txn -> Nat]
  BY DEF VInv, Types
<1>2. MaxRows \in Nat /\ AppendCounts \subseteq Nat
  BY TableConstants
<1>3. ASSUME UNCHANGED <<total_rows, local>> PROVE RowsFit'
  BY <1>3 DEF RowsFit
<1>4. ASSUME NEW t \in Txn PROVE sum \in Nat /\ local[t] \in Nat /\ local[t] <= sum
  BY <1>1, LocalRowsChanged
<1>5. ASSUME NEW t \in Txn, local' = [local EXCEPT ![t] = 0], total_rows' \in {total_rows, total_rows + local[t]}
      PROVE  RowsFit'
  <2>1. LocalRows([local EXCEPT ![t] = 0]) = sum - local[t] + 0
    BY <1>1, LocalRowsChanged
  <2> DEFINE new == LocalRows(local')
  <2>2. new = sum - local[t] + 0
    BY <1>5, <2>1
  <2>3. total_rows + sum <= MaxRows
    BY DEF RowsFit
  <2> HIDE DEF new, sum
  <2>4. total_rows' + new <= MaxRows
    BY <1>1, <1>2, <1>4, <1>5, <2>2, <2>3
  <2> QED
    BY <2>4 DEF RowsFit, new
<1>6. ASSUME NEW t \in Txn, UNCHANGED local, total_rows' \in Nat, total_rows' <= total_rows PROVE RowsFit'
  <2>1. total_rows + sum <= MaxRows /\ sum \in Nat
    BY <1>4 DEF RowsFit
  <2> HIDE DEF sum
  <2>2. total_rows' + sum <= MaxRows
    <3>1. \A a, b, c, d \in Nat : a <= b /\ b + c <= d => a + c <= d
      OBVIOUS
    <3>2. total_rows' \in Nat /\ total_rows' <= total_rows
      BY <1>6
    <3> QED
      BY <1>1, <1>2, <2>1, <3>1, <3>2
  <2> QED
    BY <1>6, <2>2 DEF RowsFit, sum
<1>7. CASE UNCHANGED vars
  BY <1>3, <1>7 DEF vars
<1>8. CASE Restart
  BY <1>3, <1>8 DEF Restart
<1>9. ASSUME NEW t \in Txn, NEW n \in AppendCounts, LocalAppend(t, n) PROVE RowsFit'
  <2>1. local[t] = 0 /\ total_rows + n + FoldFunction(+, 0, local) <= MaxRows
        /\ local' = [local EXCEPT ![t] = @ + n] /\ total_rows' = total_rows
    BY <1>9, Zenon DEF LocalAppend, table
  <2>2. local[t] = 0 /\ n \in Nat /\ local[t] + n = n /\ local' = [local EXCEPT ![t] = local[t] + n]
    <3>1. local[t] = 0 /\ n \in Nat
      BY <1>2, <2>1, Zenon
    <3>2. local[t] + n = n
      BY <3>1
    <3> QED
      BY <2>1, <3>1, <3>2, Zenon
  <2>3. total_rows + n + sum <= MaxRows
    BY <2>1, Zenon DEF LocalRows
  <2>4. LocalRows([local EXCEPT ![t] = n]) = sum - local[t] + n
    BY <1>1, <2>2, LocalRowsChanged
  <2> DEFINE new == LocalRows(local')
  <2>5. new = sum + n
    <3>1. new = sum - local[t] + n
      BY <2>2, <2>4
    <3>2. sum \in Nat
      BY <1>4
    <3> HIDE DEF sum, new
    <3> QED
      BY <2>2, <3>1, <3>2
  <2>6. sum \in Nat /\ total_rows' = total_rows
    BY <1>4, <2>1, Zenon
  <2> HIDE DEF new, sum
  <2>7. total_rows' + new <= MaxRows
    BY <1>1, <1>2, <2>2, <2>3, <2>5, <2>6
  <2> QED
    BY <2>7 DEF RowsFit, new
<1>10. ASSUME NEW t \in Txn, FlushFails(t) \/ RollbackTransaction(t) PROVE RowsFit'
  BY <1>5, <1>10 DEF FlushFails, RollbackTransaction, table
<1>11. ASSUME NEW t \in Txn, BeginCommit(t) PROVE RowsFit'
  BY <1>5, <1>11 DEF BeginCommit, table
<1>12. ASSUME NEW t \in Txn, StartTransaction(t) \/ CommitEntry(t) PROVE RowsFit'
  BY <1>3, <1>12 DEF StartTransaction, CommitEntry, table
<1>13. ASSUME NEW t \in Txn, NEW v \in Vector, NEW p \in RowSets, Delete(t, v, p) \/ Update(t, v, p)
       PROVE  RowsFit'
  BY <1>3, <1>13 DEF Delete, Update
<1>14. ASSUME NEW t \in Txn, FinishCommit(t) \/ EndRollback(t) PROVE RowsFit'
  <2>1. RemoveTransaction(t, TRUE) \/ RemoveTransaction(t, FALSE)
    BY <1>14, Zenon DEF FinishCommit, EndRollback
  <2>2. UNCHANGED <<total_rows, local>>
    BY <2>1, Zenon DEF RemoveTransaction
  <2> QED
    BY <1>3, <2>2
<1>15. ASSUME NEW t \in Txn, CommitFails(t) \/ RollbackEntry(t) PROVE RowsFit'
  <2>1. UNCHANGED local /\ phase[t] \in {"committing", "rolling_back"}
    BY <1>15, Zenon DEF CommitFails, RollbackEntry
  <2>2. transaction_lock = t /\ total_rows' \in Nat
    BY <1>1, <2>1 DEF Types, VInv
  <2>3. BaseRow <= total_rows
    BY <1>1 DEF VersionsSane
  <2>4. total_rows' = total_rows \/ total_rows' = BaseRow
    <3>1. CASE CommitFails(t)
      <4>1. PICK w, m : Reverted(w, m, t)
        BY <3>1, CommitReverted
      <4>2. /\ m \in 1..Len(undo[t]) /\ total_rows' = w[m].total_rows /\ Len(undo[t]) \in Nat
            /\ \A n \in 0..Len(undo[t]) :
                  /\ n < Len(undo[t]) \/ ~ HasFlushed => w[n].total_rows = total_rows
                  /\ n = Len(undo[t]) /\ HasFlushed => w[n].total_rows = BaseRow
        BY <1>1, <4>1 DEF Reverted, TableBecomes, Types, IsUndo
      <4>3. m \in 0..Len(undo[t]) /\ (m < Len(undo[t]) \/ m = Len(undo[t]))
        BY <4>2
      <4> QED
        BY <4>2, <4>3
    <3>2. CASE RollbackEntry(t)
      <4> DEFINE r == RollbackEntryOf(Table, undo[t][at], t)
      <4>1. at > 0 /\ total_rows' = r.total_rows
        BY <3>2 DEF RollbackEntry, TableBecomes
      <4>2. at \in 1..Len(undo[t])
        <5>1. at \in 0..Len(undo[t]) /\ Len(undo[t]) \in Nat
          BY <1>1, <2>2, TableConstants DEF Types, IsUndo
        <5> QED
          BY <4>1, <5>1
      <4>3. TableSane(Table) /\ Table.total_rows = total_rows
        BY DEF TableSane, Table, Fields, VInv
      <4>4. Clocks
        BY DEF VInv
      <4>5. r.total_rows \in {BaseRow, Table.total_rows}
        BY <1>1, <2>2, <4>2, <4>3, <4>4, EntryReverted
      <4> HIDE DEF r
      <4> QED
        BY <4>1, <4>3, <4>5
    <3> QED
      BY <1>15, <3>1, <3>2
  <2>5. total_rows' <= total_rows
    BY <1>1, <2>3, <2>4
  <2> QED
    BY <1>6, <2>1, <2>2, <2>5
<1> QED
  BY <1>7, <1>8, <1>9, <1>10, <1>11, <1>12, <1>13, <1>14, <1>15, Zenon DEF Next

\* At first there are no marks and no local rows.
LEMMA InitMarks == Init => MInv
<1> SUFFICES ASSUME Init PROVE MInv
  OBVIOUS
<1>1. /\ current_start_timestamp = 2 /\ vector_info = [v \in Vector |-> NoInfo]
      /\ local = [t \in Txn |-> 0] /\ total_rows = InitialRows
  BY DEF Init
<1>2. MarksKnown(vector_info)
  <2>1. \A v \in Vector, i \in Slot : MarkAt(vector_info[v], i) = 0
    BY <1>1 DEF MarkAt, NoInfo
  <2>2. 0 \in KnownMarks
    BY <1>1 DEF KnownMarks
  <2> QED
    BY <2>1, <2>2 DEF MarksKnown
<1>3. LocalRows(local) = 0
  <2>1. IsFiniteSet(Txn) /\ local \in [Txn -> Nat] /\ \A t \in Txn : local[t] = 0
    BY <1>1, TableConstants
  <2> QED
    BY <2>1, SumOfZeros, Zenon DEF LocalRows
<1> HIDE DEF Init
<1>4. RowsFit
  BY <1>1, <1>3, TableConstants DEF RowsFit
<1> QED
  BY <1>2, <1>4 DEF MInv

\* The parts of the invariant that say what the type invariant says.
LEMMA TableTypes == VInv /\ MInv => TypeOK
<1> SUFFICES ASSUME VInv, MInv PROVE TypeOK
  OBVIOUS
<1>1. /\ Types /\ MarksKnown(vector_info) /\ RowsFit /\ InsertIds(vector_info)
      /\ vector_info \in [Vector -> Infos] /\ current_start_timestamp \in Nat /\ current_transaction_id \in Nat
  BY DEF VInv, MInv, VersionsSane, Types
<1>2. MaxRows \in Nat /\ TRANSACTION_ID_START \in Nat /\ total_rows \in Nat /\ local \in [Txn -> Nat]
  BY <1>1, TableConstants, VersionConstants DEF Types
<1>3. ASSUME NEW t \in Txn PROVE local[t] \in 0..MaxRows /\ total_rows \in 0..MaxRows
  <2> DEFINE sum == LocalRows(local)
  <2>1. sum \in Nat /\ local[t] \in Nat /\ local[t] <= sum
    BY <1>2, LocalRowsChanged
  <2>2. total_rows + sum <= MaxRows
    BY <1>1 DEF RowsFit
  <2> HIDE DEF sum
  <2> QED
    BY <1>2, <2>1, <2>2
<1>4. ASSUME NEW k \in KnownMarks PROVE k \in Marks
  BY <1>1, <1>2 DEF KnownMarks, Marks
<1>5. ASSUME NEW v \in Vector, NEW i \in Slot PROVE Inserted(vector_info[v], i) \in Marks
  <2> DEFINE info == vector_info[v]
  <2>1. info \in Infos /\ MarkAt(info, i) \in Marks
    BY <1>1, <1>4 DEF MarksKnown
  <2>2. info.type # "none" => info.insert_id \in Marks
    <3> SUFFICES ASSUME info.type # "none" PROVE info.insert_id \in Marks
      OBVIOUS
    <3>1. \/ info.insert_id < current_start_timestamp
          \/ info.insert_id \in TRANSACTION_ID_START..current_transaction_id - 1
          \/ info.insert_id = NOT_DELETED_ID
      BY <1>1 DEF InsertIds
    <3>2. info.insert_id \in Nat
      BY <2>1 DEF Infos, ConstantInfos, VectorInfos, NoInfo
    <3> QED
      BY <1>1, <1>2, <3>1, <3>2 DEF Marks
  <2> HIDE DEF info
  <2>3. /\ info.type \in {"none", "constant", "vector"}
        /\ info.type = "none" => MarkAt(info, i) = 0
        /\ info.type = "vector" => MarkAt(info, i) = info.inserted[i]
    BY <2>1, MarksByType
  <2>4. Inserted(info, i) \in Marks
    BY <2>1, <2>2, <2>3 DEF Inserted, InsertMark
  <2> QED
    BY <2>4 DEF info
<1>6. total_rows \in 0..MaxRows
  <2>1. CASE Txn = {}
    <3>1. LocalRows(local) = 0
      BY <1>2, <2>1, TableConstants, SumOfZeros, Zenon DEF LocalRows
    <3> QED
      BY <1>1, <1>2, <3>1 DEF RowsFit
  <2> QED
    BY <1>3, <2>1
<1>7. local \in [Txn -> 0..MaxRows]
  BY <1>2, <1>3
<1> QED
  BY <1>1, <1>5, <1>6, <1>7 DEF TypeOK, Types

\* As long as the counters stay in their ranges, every variable keeps its type: one
\* transaction commits or rolls back at a time, the table and the local storages never
\* exceed the bound, and a row's insert mark is that of a commit or of a transaction.
THEOREM TableTypesCorrect == Spec /\ []InRange => []TypeOK
<1>1. Init => VInv /\ MInv
  BY InitVersions, InitMarks
<1>2. VInv /\ MInv /\ InRange /\ InRange' /\ [Next]_vars => (VInv /\ MInv)'
  BY VersionsStep, MarksStep, FitStep DEF MInv
<1>3. VInv /\ MInv => TypeOK
  BY TableTypes
<1> QED
  BY <1>1, <1>2, <1>3, PTL DEF Spec
-----------------------------------------------------------------------------
(* Deletes, stamps and the clock.                                          *)

\* Which deletes count: those in the undo buffers, as far as they are not rolled back.
LEMMA DeleteIdFacts ==
  ASSUME Types, NEW u, NEW n
  PROVE  /\ <<u, n>> \in DeleteIds <=> /\ u \in Running /\ n \in 1..UndoUpTo(u)
                                       /\ undo[u][n].kind = "delete"
         /\ u \in Running /\ n \in 1..UndoUpTo(u) => /\ u \in Txn /\ UndoUpTo(u) \in 0..Len(undo[u])
                                                     /\ Len(undo[u]) \in Nat /\ n \in DOMAIN undo[u]
<1>1. ASSUME u \in Running
      PROVE  u \in Txn /\ Len(undo[u]) \in Nat /\ UndoUpTo(u) \in 0..Len(undo[u]) /\ DOMAIN undo[u] = 1..Len(undo[u])
  <2>1. u \in Txn /\ undo[u] \in Seq(Range(undo[u]))
    BY <1>1 DEF Running, Types, IsUndo
  <2>2. Len(undo[u]) \in Nat /\ DOMAIN undo[u] = 1..Len(undo[u])
    BY <2>1
  <2>3. CASE phase[u] = "rolling_back"
    <3>1. transaction_lock = u /\ u # NoTxn
      BY <2>1, <2>3, TableConstants DEF Types
    <3>2. at \in 0..Len(undo[u])
      BY <3>1 DEF Types
    <3> QED
      BY <2>1, <2>2, <2>3, <3>2 DEF UndoUpTo
  <2>4. CASE phase[u] # "rolling_back"
    BY <2>1, <2>2, <2>4 DEF UndoUpTo
  <2> QED
    BY <2>1, <2>2, <2>3, <2>4
<1>2. ASSUME u \in Running, n \in 1..UndoUpTo(u)
      PROVE  u \in Txn /\ UndoUpTo(u) \in 0..Len(undo[u]) /\ Len(undo[u]) \in Nat /\ n \in DOMAIN undo[u] /\ n \in Nat
  BY <1>1, <1>2
<1>3. <<u, n>> \in DeleteIds <=> /\ u \in Running /\ n \in 1..UndoUpTo(u)
                                 /\ undo[u][n].kind = "delete" /\ u \in Txn /\ n \in Nat
  BY DEF DeleteIds
<1> QED
  BY <1>2, <1>3

\* Every delete is the n-th entry of some undo buffer.
LEMMA DeleteIdPairs ==
  ASSUME Types, NEW p \in DeleteIds
  PROVE  \E u \in Txn, n \in Nat : /\ p = <<u, n>> /\ p[1] = u /\ p[2] = n /\ u \in Running
                                   /\ n \in 1..UndoUpTo(u) /\ n \in DOMAIN undo[u] /\ undo[u][n].kind = "delete"
<1>1. PICK u \in Txn, n \in Nat : p = <<u, n>>
  BY DEF DeleteIds
<1>2. u \in Running /\ n \in 1..UndoUpTo(u) /\ undo[u][n].kind = "delete" /\ n \in DOMAIN undo[u]
  BY <1>1, DeleteIdFacts
<1> QED
  BY <1>1, <1>2

\* The clock, the commit in progress and the marks of deletes.
LEMMA TimeFacts ==
  ASSUME Types, Clocks, InRange
  PROVE  /\ current_start_timestamp \in Nat /\ current_transaction_id \in Nat
         /\ TRANSACTION_ID_START \in Nat /\ NOT_DELETED_ID \in Nat
         /\ current_start_timestamp <= TRANSACTION_ID_START /\ TRANSACTION_ID_START <= current_transaction_id
         /\ current_transaction_id <= NOT_DELETED_ID /\ TRANSACTION_ID_START < NOT_DELETED_ID
         /\ InProgress \in Nat /\ (InProgress < current_start_timestamp \/ InProgress = NOT_DELETED_ID + 1)
         /\ transaction_lock = NoTxn => InProgress = NOT_DELETED_ID + 1
         /\ \A t \in Txn : phase[t] = "committing" => InProgress = commit_id[t]
         /\ \A t \in Txn : phase[t] = "rolling_back" => InProgress = NOT_DELETED_ID + 1
         /\ \A t \in Running : /\ transaction_id[t] \in Nat /\ TRANSACTION_ID_START <= transaction_id[t]
                               /\ transaction_id[t] < current_transaction_id /\ transaction_id[t] # InProgress
<1>1. /\ current_start_timestamp \in Nat /\ current_transaction_id \in Nat
      /\ TRANSACTION_ID_START \in Nat /\ NOT_DELETED_ID \in Nat
      /\ current_start_timestamp <= TRANSACTION_ID_START /\ TRANSACTION_ID_START <= current_transaction_id
      /\ current_transaction_id <= NOT_DELETED_ID /\ TRANSACTION_ID_START < NOT_DELETED_ID
  BY VersionConstants DEF Types, Clocks, InRange
<1>2. \A t \in Txn : phase[t] = "committing" =>
         InProgress = commit_id[t] /\ commit_id[t] \in Nat /\ commit_id[t] < current_start_timestamp
  <2> SUFFICES ASSUME NEW t \in Txn, phase[t] = "committing"
               PROVE  InProgress = commit_id[t] /\ commit_id[t] \in Nat /\ commit_id[t] < current_start_timestamp
    OBVIOUS
  <2>1. transaction_lock = t
    BY DEF Types
  <2>2. InProgress = commit_id[t]
    BY <2>1 DEF InProgress
  <2> QED
    BY <2>2 DEF Types, Clocks
<1>3. (\A t \in Txn : phase[t] # "committing") => InProgress = NOT_DELETED_ID + 1
  BY DEF InProgress
<1>4. InProgress \in Nat /\ (InProgress < current_start_timestamp \/ InProgress = NOT_DELETED_ID + 1)
  <2>1. CASE \A t \in Txn : phase[t] # "committing"
    BY <1>1, <1>3, <2>1
  <2>2. CASE \E t \in Txn : phase[t] = "committing"
    BY <1>2, <2>2
  <2> QED
    BY <2>1, <2>2
<1>5. transaction_lock = NoTxn => InProgress = NOT_DELETED_ID + 1
  <2>1. transaction_lock = NoTxn => \A t \in Txn : phase[t] # "committing"
    BY TableConstants DEF Types
  <2> QED
    BY <1>3, <2>1
<1>6. \A t \in Txn : phase[t] = "rolling_back" => InProgress = NOT_DELETED_ID + 1
  <2>1. \A t, u \in Txn : phase[t] = "rolling_back" => phase[u] # "committing"
    BY DEF Types
  <2> QED
    BY <1>3, <2>1
<1>7. ASSUME NEW t \in Running
      PROVE  /\ transaction_id[t] \in Nat /\ TRANSACTION_ID_START <= transaction_id[t]
             /\ transaction_id[t] < current_transaction_id /\ transaction_id[t] # InProgress
  <2>1. transaction_id[t] \in Nat /\ TRANSACTION_ID_START <= transaction_id[t]
        /\ transaction_id[t] < current_transaction_id
    BY DEF Types, Clocks, Running
  <2> QED
    BY <1>1, <1>4, <2>1
<1> QED
  BY <1>1, <1>2, <1>4, <1>5, <1>6, <1>7

\* The mark of a delete is that of its transaction, or of its commit if that has come to it.
LEMMA StampFacts ==
  ASSUME Types, Clocks, InRange, NEW p \in DeleteIds
  PROVE  /\ StampOf(p) \in Nat /\ StampOf(p) < NOT_DELETED_ID
         /\ StampOf(p) = InProgress <=> phase[p[1]] = "committing" /\ p[2] <= at
         /\ StampOf(p) # InProgress => /\ StampOf(p) = transaction_id[p[1]]
                                       /\ current_start_timestamp <= StampOf(p)
                                       /\ StampOf(p) \in TRANSACTION_ID_START..current_transaction_id - 1
<1>1. PICK u \in Txn, n \in Nat : p = <<u, n>> /\ p[1] = u /\ p[2] = n /\ u \in Running
  BY DeleteIdPairs
<1>2. /\ current_start_timestamp \in Nat /\ current_transaction_id \in Nat
      /\ TRANSACTION_ID_START \in Nat /\ NOT_DELETED_ID \in Nat
      /\ current_start_timestamp <= TRANSACTION_ID_START
      /\ current_transaction_id <= NOT_DELETED_ID /\ TRANSACTION_ID_START < NOT_DELETED_ID
      /\ InProgress \in Nat /\ (InProgress < current_start_timestamp \/ InProgress = NOT_DELETED_ID + 1)
      /\ phase[u] = "committing" => InProgress = commit_id[u]
      /\ transaction_id[u] \in Nat /\ TRANSACTION_ID_START <= transaction_id[u]
      /\ transaction_id[u] < current_transaction_id /\ transaction_id[u] # InProgress
  BY <1>1, TimeFacts
<1>3. CASE phase[u] = "committing" /\ n <= at
  <2>1. StampOf(p) = commit_id[u]
    BY <1>1, <1>3 DEF StampOf
  <2>2. StampOf(p) = InProgress /\ InProgress < current_start_timestamp
    <3>1. commit_id[u] < current_start_timestamp
      BY <1>3 DEF Clocks
    <3> QED
      BY <1>2, <1>3, <2>1, <3>1
  <2>3. InProgress < NOT_DELETED_ID
    BY <1>2, <2>2
  <2> QED
    BY <1>1, <1>2, <1>3, <2>2, <2>3
<1>4. CASE ~ (phase[u] = "committing" /\ n <= at)
  <2>1. StampOf(p) = transaction_id[u]
    BY <1>1, <1>4 DEF StampOf
  <2>2. /\ transaction_id[u] < NOT_DELETED_ID /\ current_start_timestamp <= transaction_id[u]
        /\ transaction_id[u] \in TRANSACTION_ID_START..current_transaction_id - 1
    BY <1>2
  <2> QED
    BY <1>1, <1>2, <1>4, <2>1, <2>2
<1> QED
  BY <1>3, <1>4

\* When the deletes and their marks stay.
LEMMA DeletesSame ==
  ASSUME DeleteIds' = DeleteIds,
         \A p \in DeleteIds : undo'[p[1]][p[2]] = undo[p[1]][p[2]] /\ StampOf(p)' = StampOf(p)
  PROVE  Deletes' = Deletes
<1>1. Deletes' = [p \in DeleteIds' |-> [vector |-> undo'[p[1]][p[2]].vector_idx,
                                        slots  |-> DeletedSlots(undo'[p[1]][p[2]]),
                                        stamp  |-> StampOf(p)']]
  BY Zenon DEF Deletes
<1>2. Deletes = [p \in DeleteIds |-> [vector |-> undo[p[1]][p[2]].vector_idx,
                                      slots  |-> DeletedSlots(undo[p[1]][p[2]]),
                                      stamp  |-> StampOf(p)]]
  BY Zenon DEF Deletes
<1> QED
  BY <1>1, <1>2, Zenon

\* The deletes as a function of where they are.
LEMMA DeletesAt ==
  ASSUME NEW p \in DeleteIds
  PROVE  /\ DOMAIN Deletes = DeleteIds /\ Deletes[p].vector = undo[p[1]][p[2]].vector_idx
         /\ Deletes[p].slots = DeletedSlots(undo[p[1]][p[2]]) /\ Deletes[p].stamp = StampOf(p)
BY DEF Deletes

\* The clock goes on, and a commit may begin with its timestamp: no row has that yet.
ClockStep(clock, ids, c, clock2, ids2, c2) ==
  /\ clock \in Nat /\ ids \in Nat /\ TRANSACTION_ID_START <= ids
  /\ clock2 \in {clock, clock + 1} /\ ids2 \in {ids, ids + 1} /\ clock2 <= TRANSACTION_ID_START
  /\ c2 = c \/ (c = NOT_DELETED_ID + 1 /\ c2 = clock /\ clock2 = clock + 1)

\* So the rows and the deletes are as they were.
LEMMA ClockMoves ==
  ASSUME NEW infos, NEW D, NEW base, NEW L, NEW clock, NEW ids, NEW c, NEW clock2, NEW ids2, NEW c2,
         ClockStep(clock, ids, c, clock2, ids2, c2),
         \A v \in Vector, i \in Slot : MarkAt(infos[v], i) \in Nat,
         DeletesOK(infos, D, base, c), RowsOK(infos, base, clock, ids, c, L)
  PROVE  DeletesOK(infos, D, base, c2) /\ RowsOK(infos, base, clock2, ids2, c2, L)
<1> USE DEF ClockStep
<1>0. TRANSACTION_ID_START \in Nat /\ NOT_DELETED_ID \in Nat /\ TRANSACTION_ID_START < NOT_DELETED_ID
  BY VersionConstants
<1>1. ASSUME NEW v \in Vector, NEW i \in Slot
      PROVE  LET d == DeleteMark(infos[v], i) IN
             /\ d \in (0..clock2 - 1) \cup (TRANSACTION_ID_START..ids2 - 1) \cup {NOT_DELETED_ID}
             /\ (clock <= d \/ d = c) <=> (clock2 <= d \/ d = c2)
             /\ d = c2 => d = c
  <2> DEFINE d == DeleteMark(infos[v], i)
  <2>1. d \in (0..clock - 1) \cup (TRANSACTION_ID_START..ids - 1) \cup {NOT_DELETED_ID}
    BY DEF RowsOK
  <2> HIDE DEF d
  <2>3. d \in (0..clock2 - 1) \cup (TRANSACTION_ID_START..ids2 - 1) \cup {NOT_DELETED_ID}
    BY <1>0, <2>1
  <2>4. CASE clock2 = clock
    BY <2>3, <2>4 DEF d
  <2>5. CASE clock2 = clock + 1
    <3>1. d # clock
      BY <1>0, <2>1, <2>5
    <3>2. clock <= d <=> clock2 <= d
      BY <1>0, <2>1, <2>5
    <3>3. CASE c2 = c
      BY <2>3, <3>2, <3>3 DEF d
    <3>4. CASE c = NOT_DELETED_ID + 1 /\ c2 = clock
      <4>1. d # c2
        BY <3>1, <3>4
      <4>2. d = c => clock2 <= d
        BY <1>0, <2>5, <3>4
      <4> QED
        BY <2>3, <3>2, <4>1, <4>2 DEF d
    <3> QED
      BY <3>3, <3>4
  <2> QED
    BY <2>4, <2>5
<1>2. DeletesOK(infos, D, base, c2)
  BY <1>1 DEF DeletesOK
<1>3. ASSUME NEW v \in Vector, NEW i \in Slot, RowAt(v, i) < base
      PROVE  /\ MarkAt(infos[v], i) < clock2
             /\ RowAt(v, i) \in L <=> (clock2 <= DeleteMark(infos[v], i) \/ DeleteMark(infos[v], i) = c2)
  <2>1. MarkAt(infos[v], i) < clock /\ MarkAt(infos[v], i) \in Nat
    BY <1>3 DEF RowsOK
  <2>2. RowAt(v, i) \in L <=> (clock <= DeleteMark(infos[v], i) \/ DeleteMark(infos[v], i) = c)
    BY <1>3 DEF RowsOK
  <2>3. MarkAt(infos[v], i) < clock2
    BY <2>1
  <2> QED
    BY <1>1, <2>2, <2>3
<1>4. L \subseteq 0..base - 1
  BY DEF RowsOK
<1> QED
  BY <1>1, <1>2, <1>3, <1>4 DEF RowsOK

\* Other infos with the same delete marks, and the same insert marks below base.
LEMMA MarksKept ==
  ASSUME NEW infos, NEW D, NEW base, NEW L, NEW clock, NEW ids, NEW c, NEW new,
         DeletesOK(infos, D, base, c), RowsOK(infos, base, clock, ids, c, L),
         \A v \in Vector, i \in Slot : /\ DeleteMark(new[v], i) = DeleteMark(infos[v], i)
                                       /\ RowAt(v, i) < base => MarkAt(new[v], i) = MarkAt(infos[v], i)
  PROVE  DeletesOK(new, D, base, c) /\ RowsOK(new, base, clock, ids, c, L)
<1>1. DeletesOK(new, D, base, c)
  BY DEF DeletesOK
<1>2. RowsOK(new, base, clock, ids, c, L)
  BY DEF RowsOK
<1> QED
  BY <1>1, <1>2

\* The parts of the invariant about rows, deletes and the index.
TableOK ==
  /\ DeletesOK(vector_info, Deletes, BaseRow, InProgress)
  /\ RowsOK(vector_info, BaseRow, current_start_timestamp, current_transaction_id, InProgress, live)
  /\ ConstantsFull(vector_info, total_rows)
  /\ IndexOK(index, total_rows, BaseRow, live, AwaitingDeleted)

\* What the commits that await their cleanup have deleted.
LEMMA AwaitingSame ==
  ASSUME Types, UNCHANGED recently_committed,
         \A u \in Txn : phase[u] = "ended" => undo'[u] = undo[u] /\ commit_id'[u] = commit_id[u]
  PROVE  /\ AwaitingDeleted' = AwaitingDeleted
         /\ \A i \in DOMAIN recently_committed : /\ recently_committed[i] \in Txn
                                                 /\ phase[recently_committed[i]] = "ended"
                                                 /\ commit_id'[recently_committed[i]] = commit_id[recently_committed[i]]
<1>1. \A i \in DOMAIN recently_committed : recently_committed[i] \in Txn /\ phase[recently_committed[i]] = "ended"
  BY DEF Types
<1>2. \A u \in ToSet(recently_committed) : u \in Txn /\ phase[u] = "ended"
  BY <1>1 DEF ToSet
<1>3. ASSUME NEW u \in ToSet(recently_committed) PROVE Deleted(u)' = Deleted(u)
  <2>1. undo'[u] = undo[u]
    BY <1>2
  <2>2. Kind(u, "delete")' = Kind(u, "delete")
    BY <2>1, Zenon DEF Kind
  <2> QED
    BY <2>2, Zenon DEF Deleted
<1>4. ToSet(recently_committed)' = ToSet(recently_committed)
  BY DEF ToSet
<1>5. AwaitingDeleted' = AwaitingDeleted
  <2>1. AwaitingDeleted' = UNION {Deleted(u)' : u \in ToSet(recently_committed)'}
    BY Zenon DEF AwaitingDeleted
  <2> QED
    BY <1>3, <1>4, <2>1, Zenon DEF AwaitingDeleted
<1> QED
  BY <1>1, <1>5

\* A step that leaves the table and the deletes as they are.
LEMMA TableSteady ==
  ASSUME VInv, InRange, InRange', TableOK, UNCHANGED <<vector_info, index, live, recently_committed, total_rows>>,
         Deletes' = Deletes, BaseRow' = BaseRow,
         \A u \in Txn : phase[u] = "ended" => undo'[u] = undo[u] /\ commit_id'[u] = commit_id[u],
         current_start_timestamp' \in {current_start_timestamp, current_start_timestamp + 1},
         current_transaction_id' \in {current_transaction_id, current_transaction_id + 1},
         \/ InProgress' = InProgress
         \/ /\ InProgress = NOT_DELETED_ID + 1 /\ InProgress' = current_start_timestamp
            /\ current_start_timestamp' = current_start_timestamp + 1
  PROVE  TableOK'
<1>1. Types /\ Clocks
  BY DEF VInv
<1>2. AwaitingDeleted' = AwaitingDeleted
  BY <1>1, AwaitingSame
<1>3. /\ current_start_timestamp \in Nat /\ current_transaction_id \in Nat
      /\ TRANSACTION_ID_START <= current_transaction_id
  BY <1>1 DEF Types, Clocks
<1>4. \A v \in Vector, i \in Slot : MarkAt(vector_info[v], i) \in Nat
  BY <1>1, MarksByType DEF Types
<1>5. current_start_timestamp' <= TRANSACTION_ID_START
  BY DEF InRange
<1>a. ClockStep(current_start_timestamp, current_transaction_id, InProgress,
                current_start_timestamp', current_transaction_id', InProgress')
  BY <1>3, <1>5 DEF ClockStep
<1>6. /\ DeletesOK(vector_info, Deletes, BaseRow, InProgress')
      /\ RowsOK(vector_info, BaseRow, current_start_timestamp', current_transaction_id', InProgress', live)
  BY <1>4, <1>a, ClockMoves DEF TableOK
<1>7. ConstantsFull(vector_info, total_rows) /\ IndexOK(index, total_rows, BaseRow, live, AwaitingDeleted)
  BY DEF TableOK
<1> QED
  BY <1>2, <1>6, <1>7 DEF TableOK

\* Transaction t begins, runs on or takes the lock; its undo buffer gets no delete.
LEMMA QuietDeletes ==
  ASSUME Types, NEW t \in Txn,
         \A u \in Txn \ {t} : phase'[u] = phase[u] /\ undo'[u] = undo[u] /\ commit_id'[u] = commit_id[u],
         at' = at \/ transaction_lock = NoTxn,
         phase[t] \in {"idle", "active", "invalid"},
         \/ phase'[t] \in {"active", "invalid"}
         \/ phase'[t] = "committing" /\ at' = 0
         \/ phase'[t] = "rolling_back" /\ at' = Len(undo'[t]),
         phase[t] = "idle" => undo[t] = <<>>,
         NEW e, e.kind # "delete",
         undo'[t] = undo[t] \/ (phase[t] # "idle" /\ undo'[t] = Append(undo[t], e)),
         \A u \in Running : transaction_id'[u] = transaction_id[u]
  PROVE  Deletes' = Deletes
<1>1. IsUndo(undo[t])
  BY DEF Types
<1>2. /\ Len(undo[t]) \in Nat /\ DOMAIN undo[t] = 1..Len(undo[t])
      /\ \A n \in 1..Len(undo[t]) : undo'[t][n] = undo[t][n]
      /\ Len(undo'[t]) \in Nat /\ Len(undo[t]) <= Len(undo'[t])
      /\ \A n \in 1..Len(undo'[t]) : n \in 1..Len(undo[t]) \/ undo'[t][n].kind # "delete"
  <2>1. /\ Len(undo[t]) \in Nat /\ DOMAIN undo[t] = 1..Len(undo[t])
        /\ Len(Append(undo[t], e)) = Len(undo[t]) + 1
        /\ \A n \in 1..Len(undo[t]) : Append(undo[t], e)[n] = undo[t][n]
        /\ Append(undo[t], e)[Len(undo[t]) + 1] = e
    BY <1>1, Grown
  <2>2. CASE undo'[t] = undo[t]
    BY <2>1, <2>2
  <2>3. CASE undo'[t] = Append(undo[t], e)
    <3> DEFINE len == Len(undo[t])
               new == Append(undo[t], e)
    <3>1. \A n \in 1..len + 1 : n \in 1..len \/ n = len + 1
      BY <2>1
    <3> HIDE DEF len
    <3> QED
      BY <2>1, <2>3, <3>1 DEF len
  <2> QED
    BY <2>2, <2>3
<1>3. UndoUpTo(t) = Len(undo[t]) /\ UndoUpTo(t)' = Len(undo'[t])
  BY DEF UndoUpTo
<1>4. ASSUME NEW u \in Txn \ {t} PROVE UndoUpTo(u)' = UndoUpTo(u)
  <2>1. CASE at' = at
    BY <2>1 DEF UndoUpTo
  <2>2. CASE transaction_lock = NoTxn
    <3>1. phase[u] # "rolling_back"
      BY <2>2, TableConstants DEF Types
    <3> QED
      BY <3>1 DEF UndoUpTo
  <2> QED
    BY <2>1, <2>2
<1>5. ASSUME NEW u \in Txn \ {t} PROVE u \in Running' <=> u \in Running
  BY DEF Running
<1>6. t \in Running' /\ (t \in Running \/ undo[t] = <<>>)
  BY DEF Running
<1> DEFINE In(u, n) == u \in Running /\ n \in 1..UndoUpTo(u) /\ undo[u][n].kind = "delete"
           InNext(u, n) == u \in Running' /\ n \in 1..UndoUpTo(u)' /\ undo'[u][n].kind = "delete"
<1>7. ASSUME NEW u \in Txn, NEW n \in Nat PROVE InNext(u, n) <=> In(u, n)
  <2>1. CASE u # t
    BY <1>4, <1>5, <2>1
  <2>2. CASE u = t /\ t \notin Running
    <3>1. undo[t] = <<>> /\ undo'[t] = <<>>
      BY <1>6, <2>2 DEF Running
    <3>2. Len(undo'[t]) = 0
      BY <3>1
    <3>3. n \notin 1..UndoUpTo(t)'
      BY <1>3, <3>2
    <3> QED
      BY <2>2, <3>3
  <2>3. CASE u = t /\ t \in Running
    <3>1. n \in 1..Len(undo'[t]) /\ undo'[t][n].kind = "delete" <=> n \in 1..Len(undo[t]) /\ undo[t][n].kind = "delete"
      <4>1. n \in 1..Len(undo[t]) => n \in 1..Len(undo'[t])
        BY <1>2
      <4> QED
        BY <1>2, <4>1
    <3> QED
      BY <1>3, <1>6, <2>3, <3>1
  <2> QED
    BY <2>1, <2>2, <2>3
<1>8. DeleteIds' = DeleteIds
  <2>1. DeleteIds = {p \in Txn \X Nat : In(p[1], p[2])}
    BY Zenon DEF DeleteIds
  <2>2. DeleteIds' = {p \in Txn \X Nat : InNext(p[1], p[2])}
    BY Zenon DEF DeleteIds
  <2> HIDE DEF In, InNext
  <2>3. \A p \in Txn \X Nat : p[1] \in Txn /\ p[2] \in Nat
    OBVIOUS
  <2>4. \A p \in Txn \X Nat : In(p[1], p[2]) <=> InNext(p[1], p[2])
    BY <1>7, <2>3
  <2> QED
    BY <2>1, <2>2, <2>4
<1>9. ASSUME NEW p \in DeleteIds
      PROVE  undo'[p[1]][p[2]] = undo[p[1]][p[2]] /\ StampOf(p)' = StampOf(p)
  <2>1. PICK u \in Txn, n \in Nat : /\ p = <<u, n>> /\ p[1] = u /\ p[2] = n /\ u \in Running
                                    /\ n \in 1..UndoUpTo(u) /\ n \in DOMAIN undo[u] /\ undo[u][n].kind = "delete"
    BY DeleteIdPairs
  <2>2. undo'[u][n] = undo[u][n]
    <3>1. CASE u = t
      BY <1>2, <1>3, <2>1, <3>1
    <3>2. CASE u # t
      BY <3>2
    <3> QED
      BY <3>1, <3>2
  <2>3. transaction_id'[u] = transaction_id[u]
    BY <2>1
  <2>4. StampOf(p)' = StampOf(p)
    <3>1. CASE u = t
      <4>1. n # 0 /\ ~ (n <= 0)
        BY <2>1
      <4>2. phase'[t] = "committing" => ~ (n <= at')
        BY <4>1
      <4>3. StampOf(p)' = transaction_id'[u]
        BY <2>1, <3>1, <4>2 DEF StampOf
      <4>4. StampOf(p) = transaction_id[u]
        BY <2>1, <3>1 DEF StampOf
      <4> QED
        BY <2>3, <4>3, <4>4
    <3>2. CASE u # t
      <4>1. phase'[u] = phase[u] /\ commit_id'[u] = commit_id[u]
        BY <3>2
      <4>2. CASE at' = at
        BY <2>1, <2>3, <4>1, <4>2 DEF StampOf
      <4>3. CASE transaction_lock = NoTxn
        <5>1. phase[u] # "committing"
          BY <4>3, TableConstants DEF Types
        <5> QED
          BY <2>1, <2>3, <4>1, <5>1 DEF StampOf
      <4> QED
        BY <4>2, <4>3
    <3> QED
      BY <3>1, <3>2
  <2> QED
    BY <2>1, <2>2, <2>4
<1> QED
  BY <1>8, <1>9, DeletesSame
-----------------------------------------------------------------------------
(* Steps that delete nothing.                                              *)

\* What the rows of the flush are, as long as the same transaction has the lock.
LEMMA FlushSame ==
  ASSUME UNCHANGED <<transaction_lock, total_rows>>,
         transaction_lock # NoTxn => undo'[transaction_lock] = undo[transaction_lock]
  PROVE  /\ HasFlushed' = HasFlushed /\ BaseRow' = BaseRow
         /\ HasFlushed => Flush' = Flush
<1>1. HasFlushed' = HasFlushed /\ (HasFlushed => Flush' = Flush)
  BY DEF HasFlushed, Flush
<1> QED
  BY <1>1 DEF BaseRow

\* The commit in progress, if a step neither begins nor ends one.
LEMMA InProgressSame ==
  ASSUME UNCHANGED <<transaction_lock, commit_id>>,
         \A u \in Txn : phase'[u] = "committing" <=> phase[u] = "committing"
  PROVE  InProgress' = InProgress
BY DEF InProgress

\* Transaction t begins or runs on, and its undo buffer gets no delete.
LEMMA QuietRows ==
  ASSUME VInv, InRange, InRange', RInv, NEW t \in Txn,
         \A u \in Txn \ {t} : phase'[u] = phase[u] /\ undo'[u] = undo[u],
         phase[t] \in {"idle", "active", "invalid"}, phase'[t] \in {"active", "invalid"},
         UNCHANGED <<vector_info, index, live, recently_committed, total_rows, transaction_lock, at, commit_id>>,
         NEW e, e.kind # "delete",
         undo'[t] = undo[t] \/ (phase[t] # "idle" /\ undo'[t] = Append(undo[t], e)),
         current_start_timestamp' \in {current_start_timestamp, current_start_timestamp + 1},
         current_transaction_id' \in {current_transaction_id, current_transaction_id + 1},
         \A u \in Running : transaction_id'[u] = transaction_id[u] /\ start_time'[u] = start_time[u],
         t \in Running \/ 0 < start_time'[t]
  PROVE  RInv'
<1>1. Types /\ Undos /\ Clocks
  BY DEF VInv
<1>2. TableOK /\ FlushExtent(total_rows) /\ RollbackExtent /\ RecentOK /\ Begun
  BY DEF RInv, TableOK
<1>3. t # transaction_lock /\ transaction_lock \in Txn \cup {NoTxn}
  BY <1>1 DEF Types
<1>4. transaction_lock # NoTxn => undo'[transaction_lock] = undo[transaction_lock]
                                  /\ phase'[transaction_lock] = phase[transaction_lock]
  BY <1>3
<1>5. HasFlushed' = HasFlushed /\ BaseRow' = BaseRow /\ (HasFlushed => Flush' = Flush)
  BY <1>4, FlushSame
<1>6. InProgress' = InProgress
  BY InProgressSame
<1>7. Deletes' = Deletes
  <2>1. phase[t] = "idle" => undo[t] = <<>>
    BY <1>1 DEF Undos
  <2>2. \A u \in Txn \ {t} : phase'[u] = phase[u] /\ undo'[u] = undo[u] /\ commit_id'[u] = commit_id[u]
    OBVIOUS
  <2> QED
    BY <1>1, <2>1, <2>2, QuietDeletes
<1>8. \A u \in Txn : phase[u] = "ended" => undo'[u] = undo[u] /\ commit_id'[u] = commit_id[u]
  OBVIOUS
<1>9. TableOK'
  BY <1>2, <1>5, <1>6, <1>7, <1>8, TableSteady
<1>10. FlushExtent(total_rows)'
  BY <1>2, <1>5 DEF FlushExtent
<1>11. RollbackExtent'
  <2>1. HasFlushed => transaction_lock # NoTxn
    BY DEF HasFlushed
  <2> QED
    BY <1>2, <1>4, <1>5, <2>1 DEF RollbackExtent
<1>12. \A u \in Txn : u \in Running' <=> u \in Running \/ u = t
  BY DEF Running
<1>13. RecentOK'
  <2>1. Running' # {}
    BY <1>12
  <2>2. \A i \in DOMAIN recently_committed :
           commit_id[recently_committed[i]] < current_start_timestamp /\ commit_id[recently_committed[i]] \in Nat
    <3>1. \A i \in DOMAIN recently_committed : recently_committed[i] \in Txn
      BY <1>1, AwaitingSame, <1>8
    <3> QED
      BY <1>1, <1>2, <3>1 DEF RecentOK, Types
  <2>3. \A i \in DOMAIN recently_committed : commit_id[recently_committed[i]] < current_start_timestamp'
    <3>1. current_start_timestamp \in Nat
      BY <1>1 DEF Types
    <3> QED
      BY <2>2, <3>1
  <2> QED
    BY <1>2, <2>1, <2>3 DEF RecentOK
<1>14. Begun'
  <2> SUFFICES ASSUME NEW u \in Running' PROVE 0 < start_time'[u]
    BY DEF Begun
  <2>1. u \in Txn /\ (u \in Running \/ u = t)
    BY <1>12 DEF Running
  <2> QED
    BY <1>2, <2>1 DEF Begun
<1> QED
  BY <1>9, <1>10, <1>11, <1>13, <1>14 DEF RInv, TableOK

\* StartTransaction.
LEMMA StartRows ==
  ASSUME VInv, InRange, InRange', RInv, NEW t \in Txn, StartTransaction(t)
  PROVE  RInv'
<1>1. Types /\ Clocks
  BY DEF VInv
<1>2. /\ phase[t] = "idle" /\ phase' = [phase EXCEPT ![t] = "active"]
      /\ start_time' = [start_time EXCEPT ![t] = current_start_timestamp]
      /\ transaction_id' = [transaction_id EXCEPT ![t] = current_transaction_id]
      /\ current_start_timestamp' = current_start_timestamp + 1
      /\ current_transaction_id' = current_transaction_id + 1
      /\ UNCHANGED <<commit_id, transaction_lock, undo, at, total_rows, vector_info, index, recently_committed, live>>
  BY DEF StartTransaction, table
<1>3. /\ \A u \in Txn \ {t} : phase'[u] = phase[u] /\ undo'[u] = undo[u]
      /\ phase'[t] = "active" /\ 0 < start_time'[t]
      /\ t \notin Running
  BY <1>1, <1>2 DEF Types, Clocks, Running
<1>4. \A u \in Running : transaction_id'[u] = transaction_id[u] /\ start_time'[u] = start_time[u]
  BY <1>1, <1>2, <1>3 DEF Types, Running
<1> DEFINE e == [kind |-> "update"]
<1>5. e.kind # "delete"
  OBVIOUS
<1> HIDE DEF e
<1> QED
  BY <1>2, <1>3, <1>4, <1>5, QuietRows

\* INSERT and UPDATE.
LEMMA StatementRows ==
  ASSUME VInv, InRange, InRange', RInv, NEW t \in Txn,
         \/ \E n \in AppendCounts : LocalAppend(t, n)
         \/ \E v \in Vector, p \in RowSets : Update(t, v, p)
  PROVE  RInv'
<1>1. Types /\ Clocks
  BY DEF VInv
<1>2. PICK v \in Vector \cup {NoTxn} :
      /\ phase[t] = "active" /\ phase' \in {phase, [phase EXCEPT ![t] = "invalid"]}
      /\ undo' \in {undo, [undo EXCEPT ![t] = Append(@, [kind |-> "update", vector_idx |-> v])]}
      /\ UNCHANGED <<clocks, commit_id, transaction_lock, at, total_rows, vector_info, index, recently_committed, live>>
  BY DEF LocalAppend, Update, table
<1> DEFINE e == [kind |-> "update", vector_idx |-> v]
<1>3. e.kind # "delete"
  OBVIOUS
<1>4. undo' \in {undo, [undo EXCEPT ![t] = Append(@, e)]}
  BY <1>2
<1> HIDE DEF e
<1>5. /\ \A u \in Txn \ {t} : phase'[u] = phase[u] /\ undo'[u] = undo[u]
      /\ phase'[t] \in {"active", "invalid"} /\ undo'[t] \in {undo[t], Append(undo[t], e)}
      /\ t \in Running
  BY <1>1, <1>2, <1>4 DEF Types, Running
<1>6. UNCHANGED <<start_time, transaction_id, current_start_timestamp, current_transaction_id>>
  BY <1>2 DEF clocks
<1> QED
  BY <1>2, <1>3, <1>5, <1>6, QuietRows

\* Whoever takes the lock, to commit or to roll back, changes no delete mark and no mark
\* of the rows that are there.
LEMMA LockRows ==
  ASSUME VInv, InRange, InRange', RInv, NEW t \in Txn, phase[t] \in {"active", "invalid"},
         transaction_lock = NoTxn, transaction_lock' = t,
         \/ phase' = [phase EXCEPT ![t] = "rolling_back"] /\ commit_id' = commit_id /\ at' = Len(undo'[t])
         \/ /\ phase' = [phase EXCEPT ![t] = "committing"] /\ at' = 0
            /\ commit_id' = [commit_id EXCEPT ![t] = current_start_timestamp]
            /\ current_start_timestamp' = current_start_timestamp + 1,
         UNCHANGED <<start_time, transaction_id, current_transaction_id, recently_committed, live>>,
         current_start_timestamp' \in {current_start_timestamp, current_start_timestamp + 1},
         undo' = undo \/ undo' = [undo EXCEPT ![t] = Append(@, AppendEntry(t))],
         BaseRow = total_rows, BaseRow' = total_rows,
         \A v \in Vector, i \in Slot :
            /\ DeleteMark(vector_info'[v], i) = DeleteMark(vector_info[v], i)
            /\ RowAt(v, i) < total_rows => MarkAt(vector_info'[v], i) = MarkAt(vector_info[v], i),
         ConstantsFull(vector_info', total_rows'),
         IndexOK(index', total_rows', total_rows, live, AwaitingDeleted),
         FlushExtent(total_rows)'
  PROVE  RInv'
<1>1. Types /\ Undos /\ Clocks
  BY DEF VInv
<1>2. /\ DeletesOK(vector_info, Deletes, total_rows, InProgress)
      /\ RowsOK(vector_info, total_rows, current_start_timestamp, current_transaction_id, InProgress, live)
      /\ RecentOK /\ Begun
  BY DEF RInv
<1>3. /\ \A u \in Txn \ {t} : phase'[u] = phase[u] /\ undo'[u] = undo[u] /\ commit_id'[u] = commit_id[u]
      /\ \/ phase'[t] = "rolling_back" /\ commit_id'[t] = commit_id[t] /\ at' = Len(undo'[t])
         \/ phase'[t] = "committing" /\ commit_id'[t] = current_start_timestamp /\ at' = 0
                /\ current_start_timestamp' = current_start_timestamp + 1
      /\ undo'[t] = undo[t] \/ undo'[t] = Append(undo[t], AppendEntry(t))
      /\ t \in Running /\ phase[t] # "idle"
  BY <1>1 DEF Types, Running
<1>4. AppendEntry(t).kind # "delete"
  BY DEF AppendEntry
<1>5. Deletes' = Deletes
  <2> DEFINE e == AppendEntry(t)
  <2>1. e.kind # "delete" /\ (undo'[t] = undo[t] \/ undo'[t] = Append(undo[t], e))
    BY <1>3, <1>4
  <2>2. \A u \in Running : transaction_id'[u] = transaction_id[u]
    OBVIOUS
  <2> HIDE DEF e
  <2> QED
    BY <1>1, <1>3, <2>1, <2>2, QuietDeletes
<1>6. InProgress = NOT_DELETED_ID + 1
  BY <1>1, TimeFacts
<1>7. \/ InProgress' = InProgress
      \/ InProgress' = current_start_timestamp /\ current_start_timestamp' = current_start_timestamp + 1
  <2>0. \A u \in Txn : phase[u] # "committing"
    BY <1>1, TableConstants DEF Types
  <2>1. CASE phase'[t] = "rolling_back"
    <3>1. \A u \in Txn : phase'[u] # "committing"
      BY <1>3, <2>0, <2>1
    <3>2. InProgress' = NOT_DELETED_ID + 1
      BY <3>1 DEF InProgress
    <3> QED
      BY <1>6, <3>2
  <2>2. CASE phase'[t] = "committing"
    <3>1. InProgress' = commit_id'[t]
      BY <2>2 DEF InProgress
    <3> QED
      BY <1>3, <2>2, <3>1
  <2> QED
    BY <1>3, <2>1, <2>2
<1>8. /\ current_start_timestamp \in Nat /\ current_transaction_id \in Nat
      /\ TRANSACTION_ID_START <= current_transaction_id
  BY <1>1 DEF Types, Clocks
<1>9. current_start_timestamp' <= TRANSACTION_ID_START
  BY DEF InRange
<1>10. ClockStep(current_start_timestamp, current_transaction_id, InProgress,
                 current_start_timestamp', current_transaction_id', InProgress')
  BY <1>6, <1>7, <1>8, <1>9 DEF ClockStep
<1>11. \A v \in Vector, i \in Slot : MarkAt(vector_info[v], i) \in Nat
  BY <1>1, MarksByType DEF Types
<1>12. /\ DeletesOK(vector_info, Deletes, total_rows, InProgress')
       /\ RowsOK(vector_info, total_rows, current_start_timestamp', current_transaction_id', InProgress', live)
  BY <1>2, <1>10, <1>11, ClockMoves
<1>13. /\ DeletesOK(vector_info', Deletes, total_rows, InProgress')
       /\ RowsOK(vector_info', total_rows, current_start_timestamp', current_transaction_id', InProgress', live)
  BY <1>12, MarksKept
<1>14. /\ AwaitingDeleted' = AwaitingDeleted
       /\ \A i \in DOMAIN recently_committed :
             /\ recently_committed[i] \in Txn
             /\ commit_id'[recently_committed[i]] = commit_id[recently_committed[i]]
  <2>1. \A u \in Txn : phase[u] = "ended" => undo'[u] = undo[u] /\ commit_id'[u] = commit_id[u]
    BY <1>3
  <2> QED
    BY <1>1, <2>1, AwaitingSame
<1>15. RollbackExtent'
  <2> SUFFICES ASSUME HasFlushed', phase'[t] = "rolling_back", at' < Len(undo'[t])
               PROVE  FALSE
    BY DEF RollbackExtent
  <2>1. at' = Len(undo'[t]) /\ Len(undo'[t]) \in Nat
    <3>1. IsUndo(undo[t])
      BY <1>1 DEF Types
    <3>2. Len(undo[t]) \in Nat /\ Len(Append(undo[t], AppendEntry(t))) = Len(undo[t]) + 1
      BY <3>1, Grown
    <3> QED
      BY <1>3, <3>2
  <2> QED
    BY <2>1
<1>16. Running' = Running
  BY <1>3 DEF Running
<1>17. RecentOK'
  <2>2. \A i \in DOMAIN recently_committed :
           commit_id[recently_committed[i]] < current_start_timestamp /\ commit_id[recently_committed[i]] \in Nat
    BY <1>1, <1>2, <1>14 DEF RecentOK, Types
  <2>3. \A i \in DOMAIN recently_committed : commit_id[recently_committed[i]] < current_start_timestamp'
    BY <1>8, <2>2
  <2>4. Running' # {}
    BY <1>3, <1>16
  <2> QED
    BY <1>2, <1>14, <2>3, <2>4 DEF RecentOK
<1>18. Begun'
  BY <1>2, <1>16 DEF Begun
<1> QED
  BY <1>5, <1>13, <1>14, <1>15, <1>17, <1>18 DEF RInv

\* An append never meets a vector with one mark for all rows: AppendVersionInfo does not throw.
LEMMA NoAppendError ==
  ASSUME Types, ConstantsFull(vector_info, total_rows), NEW to \in Nat
  PROVE  ~ AppendVersionError(vector_info, total_rows, to)
<1> SUFFICES ASSUME NEW v \in Vector, Covered(v, total_rows, to) \notin {{}, Slot}, vector_info[v].type = "constant"
             PROVE  FALSE
  <2>1. DOMAIN vector_info = Vector
    BY DEF Types
  <2> QED
    BY <2>1 DEF AppendVersionError
<1>1. PICK i \in Slot : RowAt(v, i) \in total_rows..to - 1
  BY DEF Covered, RowAt
<1>2. RowAt(v, i) < total_rows /\ RowAt(v, i) \in Nat /\ total_rows \in Nat
  BY RowPlaces DEF ConstantsFull, Types
<1> QED
  BY <1>1, <1>2

\* A rollback begins.
LEMMA RollbackTransactionRows ==
  ASSUME VInv, InRange, InRange', RInv, NEW t \in Txn, RollbackTransaction(t)
  PROVE  RInv'
<1>1. /\ phase[t] \in {"active", "invalid"} /\ transaction_lock = NoTxn /\ transaction_lock' = t
      /\ phase' = [phase EXCEPT ![t] = "rolling_back"] /\ local' = [local EXCEPT ![t] = 0] /\ at' = Len(undo[t])
      /\ UNCHANGED <<undo, commit_id, total_rows, vector_info, recently_committed, index, live>>
      /\ UNCHANGED <<start_time, transaction_id, current_start_timestamp, current_transaction_id>>
  BY DEF RollbackTransaction, table, clocks
<1>2. Types /\ Undos
  BY DEF VInv
<1>3. BaseRow = total_rows
  BY <1>1, <1>2, FlushFacts
<1>4. ~ HasFlushed'
  <2> SUFFICES ASSUME undo[t] # <<>>, undo[t][Len(undo[t])].kind = "append" PROVE FALSE
    BY <1>1 DEF HasFlushed
  <2>1. undo[t] \in Seq(Range(undo[t]))
    BY <1>2 DEF Types, IsUndo
  <2>2. Len(undo[t]) \in DOMAIN undo[t]
    BY <2>1
  <2> QED
    BY <1>1, <1>2, <2>2 DEF Undos
<1>5. BaseRow' = total_rows /\ FlushExtent(total_rows)'
  BY <1>1, <1>4 DEF BaseRow, FlushExtent
<1>6. ConstantsFull(vector_info, total_rows) /\ IndexOK(index, total_rows, total_rows, live, AwaitingDeleted)
  BY <1>3 DEF RInv
<1> QED
  BY <1>1, <1>3, <1>5, <1>6, LockRows

\* The flush fails, and takes back what it has put into the table and the index.
LEMMA FlushFailsRows ==
  ASSUME VInv, InRange, InRange', RInv, NEW t \in Txn, FlushFails(t)
  PROVE  RInv'
<1>1. Types /\ Undos /\ ConstantsFull(vector_info, total_rows)
  BY DEF VInv, RInv
<1>2. ~ AppendVersionError(vector_info, total_rows, total_rows + local[t])
  <2>1. total_rows + local[t] \in Nat
    BY <1>1 DEF Types
  <2> QED
    BY <1>1, <2>1, NoAppendError
<1>3. /\ phase[t] = "active" /\ transaction_lock = NoTxn /\ transaction_lock' = t
      /\ phase' = [phase EXCEPT ![t] = "rolling_back"]
      /\ current_start_timestamp' = current_start_timestamp + 1
      /\ local' = [local EXCEPT ![t] = 0]
      /\ undo' = [undo EXCEPT ![t] = Append(@, AppendEntry(t))]
      /\ at' = Len(undo'[t]) /\ index' = index
      /\ UNCHANGED <<start_time, transaction_id, commit_id, current_transaction_id, total_rows,
                     vector_info, recently_committed, live>>
  BY <1>2, Zenon DEF FlushFails
<1>4. at' \in 0..Len(undo'[t])
  <2>1. Len(undo[t]) \in Nat /\ Len(Append(undo[t], AppendEntry(t))) = Len(undo[t]) + 1
    BY <1>1, Grown DEF Types
  <2>2. undo'[t] = Append(undo[t], AppendEntry(t))
    BY <1>1, <1>3 DEF Types
  <2> QED
    BY <1>3, <2>1, <2>2
<1>5. vector_info' \in [Vector -> Infos] /\ total_rows' \in Nat
  BY <1>1, <1>3 DEF Types
<1>6. BaseRow = total_rows /\ BaseRow' = total_rows /\ (HasFlushed' => Flush' = AppendEntry(t))
  BY <1>3, <1>4, <1>5, LockTaken
<1>7. FlushExtent(total_rows)'
  BY <1>3, <1>6 DEF FlushExtent, AppendEntry
<1>8. IndexOK(index, total_rows, total_rows, live, AwaitingDeleted)
  BY <1>6 DEF RInv
<1> QED
  BY <1>1, <1>3, <1>6, <1>7, <1>8, LockRows

\* A commit begins, and flushes the rows of the local storage behind the last row.
LEMMA BeginCommitRows ==
  ASSUME VInv, InRange, InRange', RInv, NEW t \in Txn, BeginCommit(t)
  PROVE  RInv'
<1> DEFINE to  == total_rows + local[t]
           id  == transaction_id[t]
           new == AppendVersionInfo(vector_info, total_rows, to, id)
<1>1. Types /\ Undos /\ ConstantsFull(vector_info, total_rows)
  BY DEF VInv, RInv
<1>2. /\ phase[t] = "active" /\ transaction_lock = NoTxn /\ transaction_lock' = t
      /\ phase' = [phase EXCEPT ![t] = "committing"]
      /\ commit_id' = [commit_id EXCEPT ![t] = current_start_timestamp]
      /\ current_start_timestamp' = current_start_timestamp + 1
      /\ at' = 0 /\ local' = [local EXCEPT ![t] = 0]
      /\ UNCHANGED <<start_time, transaction_id, current_transaction_id, recently_committed, live>>
      /\ \/ UNCHANGED <<undo, total_rows, vector_info, index>>
         \/ /\ ~ AppendVersionError(vector_info, total_rows, to)
            /\ undo' = [undo EXCEPT ![t] = Append(@, AppendEntry(t))]
            /\ vector_info' = new /\ total_rows' = to /\ index' = index \cup (total_rows..to - 1)
  BY DEF BeginCommit, table
<1>3. total_rows \in Nat /\ local[t] \in Nat /\ to \in Nat /\ id \in Nat /\ vector_info \in [Vector -> Infos]
  BY <1>1 DEF Types
<1>4. 0 \in 0..Len(undo'[t])
  <2>1. Len(undo[t]) \in Nat /\ Len(Append(undo[t], AppendEntry(t))) = Len(undo[t]) + 1
    BY <1>1, Grown DEF Types
  <2>2. undo'[t] = undo[t] \/ undo'[t] = Append(undo[t], AppendEntry(t))
    BY <1>1, <1>2 DEF Types
  <2> QED
    BY <2>1, <2>2
<1>5. BaseRow = total_rows
  BY <1>1, <1>2, FlushFacts
<1>6. IndexOK(index, total_rows, total_rows, live, AwaitingDeleted)
      /\ DeletesOK(vector_info, Deletes, total_rows, InProgress)
  BY <1>5 DEF RInv
<1>7. CASE UNCHANGED <<undo, total_rows, vector_info, index>>
  <2>1. vector_info' \in [Vector -> Infos] /\ total_rows' \in Nat
    BY <1>3, <1>7
  <2>2. BaseRow' = total_rows /\ (HasFlushed' => undo' = [undo EXCEPT ![t] = Append(@, AppendEntry(t))])
    BY <1>2, <1>4, <1>7, <2>1, LockTaken
  <2>3. ~ HasFlushed'
    <3> SUFFICES ASSUME HasFlushed' PROVE FALSE
      OBVIOUS
    <3>1. undo[t] = Append(undo[t], AppendEntry(t))
      BY <1>1, <1>7, <2>2 DEF Types
    <3>2. Len(undo[t]) \in Nat /\ Len(Append(undo[t], AppendEntry(t))) = Len(undo[t]) + 1
      BY <1>1, Grown DEF Types
    <3> QED
      BY <3>1, <3>2
  <2>4. FlushExtent(total_rows)'
    BY <2>3 DEF FlushExtent
  <2> QED
    BY <1>1, <1>2, <1>5, <1>6, <1>7, <2>2, <2>4, LockRows
<1>8. CASE /\ ~ AppendVersionError(vector_info, total_rows, to)
           /\ undo' = [undo EXCEPT ![t] = Append(@, AppendEntry(t))]
           /\ vector_info' = new /\ total_rows' = to /\ index' = index \cup (total_rows..to - 1)
  <2>0. total_rows <= to
    BY <1>3
  <2> HIDE DEF to
  <2>1. ASSUME NEW v \in Vector
        PROVE  /\ \A i \in Slot :
                     /\ MarkAt(new[v], i) = IF RowAt(v, i) \in total_rows..to - 1 THEN id ELSE MarkAt(vector_info[v], i)
                     /\ \/ DeleteMark(new[v], i) = DeleteMark(vector_info[v], i)
                        \/ RowAt(v, i) \in total_rows..to - 1 /\ DeleteMark(new[v], i) = NOT_DELETED_ID
               /\ \/ new[v].type # "constant"
                  \/ vector_info[v].type = "constant" /\ new[v] = vector_info[v]
                  \/ new[v].delete_id = NOT_DELETED_ID /\ \A i \in Slot : RowAt(v, i) \in total_rows..to - 1
               /\ new[v] = vector_info[v] \/ \E i \in Slot : RowAt(v, i) \in total_rows..to - 1
    BY <1>3, <1>8, AppendedMarks
  <2>2. vector_info' \in [Vector -> Infos] /\ total_rows' \in Nat
    <3>1. Types' 
      BY BeginCommitStep DEF VInv
    <3> QED
      BY <3>1 DEF Types
  <2> HIDE DEF new
  <2>3. BaseRow' = total_rows /\ (HasFlushed' => Flush' = AppendEntry(t))
    BY <1>2, <1>4, <1>8, <2>2, LockTaken
  <2>4. FlushExtent(total_rows)'
    BY <1>8, <2>3 DEF FlushExtent, AppendEntry, to
  <2>5. ASSUME NEW v \in Vector, NEW i \in Slot
        PROVE  /\ DeleteMark(vector_info'[v], i) = DeleteMark(vector_info[v], i)
               /\ RowAt(v, i) < total_rows => MarkAt(vector_info'[v], i) = MarkAt(vector_info[v], i)
    <3>1. RowAt(v, i) \in total_rows..to - 1 => RowAt(v, i) >= total_rows /\ ~ (RowAt(v, i) < total_rows)
      BY <1>3
    <3>2. RowAt(v, i) >= total_rows => DeleteMark(vector_info[v], i) = NOT_DELETED_ID
      BY <1>6 DEF DeletesOK
    <3> QED
      BY <1>8, <2>1, <3>1, <3>2
  <2>6. ConstantsFull(vector_info', total_rows')
    <3> SUFFICES ASSUME NEW v \in Vector
                 PROVE  /\ new[v].type # "none" => v * STANDARD_VECTOR_SIZE < to
                        /\ new[v].type = "constant" => /\ new[v].delete_id \in {0, NOT_DELETED_ID}
                                                       /\ \A i \in Slot : RowAt(v, i) < to
      BY <1>8 DEF ConstantsFull
    <3>1. \A i \in Slot : /\ RowAt(v, i) \in total_rows..to - 1 => RowAt(v, i) < to
                          /\ RowAt(v, i) < total_rows => RowAt(v, i) < to
                          /\ RowAt(v, i) < to => v * STANDARD_VECTOR_SIZE < to
      <4> SUFFICES ASSUME NEW i \in Slot
                   PROVE  /\ RowAt(v, i) \in total_rows..to - 1 => RowAt(v, i) < to
                          /\ RowAt(v, i) < total_rows => RowAt(v, i) < to
                          /\ RowAt(v, i) < to => v * STANDARD_VECTOR_SIZE < to
        OBVIOUS
      <4> DEFINE x == RowAt(v, i)
                 y == v * STANDARD_VECTOR_SIZE
      <4>1. x \in Nat /\ y \in Nat /\ y <= x
        BY RowPlaces
      <4> HIDE DEF x, y
      <4>2. (x \in total_rows..to - 1 => x < to) /\ (x < total_rows => x < to) /\ (x < to => y < to)
        BY <1>3, <2>0, <4>1
      <4> QED
        BY <4>2 DEF x, y
    <3>2. v * STANDARD_VECTOR_SIZE < total_rows => v * STANDARD_VECTOR_SIZE < to
      <4> DEFINE y == v * STANDARD_VECTOR_SIZE
      <4>1. y \in Nat
        BY VersionConstants DEF Vector
      <4> HIDE DEF y
      <4>2. y < total_rows => y < to
        BY <1>3, <2>0, <4>1
      <4> QED
        BY <4>2 DEF y
    <3>3. new[v].type # "none" => v * STANDARD_VECTOR_SIZE < to
      BY <1>1, <2>1, <3>1, <3>2 DEF ConstantsFull
    <3>4. new[v].type = "constant" => /\ new[v].delete_id \in {0, NOT_DELETED_ID}
                                      /\ \A i \in Slot : RowAt(v, i) < to
      BY <1>1, <2>1, <3>1 DEF ConstantsFull
    <3> QED
      BY <3>3, <3>4
  <2>7. IndexOK(index', total_rows', total_rows, live, AwaitingDeleted)
    <3>1. total_rows..total_rows - 1 = {}
      BY <1>3
    <3> QED
      BY <1>6, <1>8, <3>1 DEF IndexOK
  <2> QED
    BY <1>2, <1>5, <1>8, <2>3, <2>4, <2>5, <2>6, <2>7, LockRows
<1> QED
  BY <1>2, <1>7, <1>8
-----------------------------------------------------------------------------
(* DELETE.                                                                 *)

\* A statement finds rows of the table that no commit in progress has flushed, and none in
\* a vector that a checkpoint has read as deleted.
LEMMA MatchingRows ==
  ASSUME VInv, InRange, Begun, NEW t \in Txn, phase[t] = "active", NEW v \in Vector, NEW p,
         NEW i \in Matching(t, v, p)
  PROVE  /\ i \in Slot /\ RowAt(v, i) < total_rows /\ RowAt(v, i) < BaseRow
         /\ vector_info[v].type = "constant" => vector_info[v].delete_id # 0
<1> DEFINE info == vector_info[v]
           txn == Data(t)
<1>1. /\ Types /\ Clocks /\ Undos /\ Shortcuts(info, v, total_rows) /\ Flushed(vector_info, total_rows)
      /\ BaseRow <= total_rows /\ info \in Infos /\ t \in Running
  BY DEF VInv, VersionsSane, Types, Running
<1>2. i \in GetSelVector(info, txn) /\ RowAt(v, i) < total_rows
  BY DEF Matching, Scan
<1>3. /\ txn.start_time = start_time[t] /\ txn.transaction_id = transaction_id[t]
      /\ start_time[t] \in Nat /\ transaction_id[t] \in Nat /\ 0 < start_time[t]
      /\ start_time[t] < current_start_timestamp /\ TRANSACTION_ID_START <= transaction_id[t]
      /\ current_start_timestamp \in Nat /\ current_start_timestamp <= TRANSACTION_ID_START
      /\ TRANSACTION_ID_START \in Nat
  BY <1>1, VersionConstants DEF Data, Types, Clocks, Begun, InRange
<1>4. CASE info = NoInfo
  <2>1. info.type = "none"
    BY <1>4 DEF NoInfo
  <2>2. i \in Slot /\ MarkAt(info, i) = 0
    BY <1>2, <2>1 DEF GetSelVector, MarkAt
  <2>3. ~ (RowAt(v, i) \in BaseRow..total_rows - 1)
    BY <1>1, <2>1, <2>2 DEF Flushed, FlushedAs
  <2>4. BaseRow \in Nat /\ total_rows \in Nat /\ RowAt(v, i) \in Nat
    <3>1. total_rows \in Nat /\ (HasFlushed => BaseRow \in Nat)
      BY <1>1, FlushFacts DEF Types
    <3>2. BaseRow \in Nat
      BY <3>1 DEF BaseRow
    <3> QED
      BY <2>2, <3>1, <3>2, RowPlaces
  <2> QED
    BY <1>2, <2>1, <2>2, <2>3, <2>4
<1>5. CASE info # NoInfo
  <2>1. info.type \in {"constant", "vector"}
    BY <1>1, <1>5 DEF Infos, ConstantInfos, VectorInfos
  <2>2. /\ i \in Slot /\ UseInsertedVersion(txn, MarkAt(info, i))
        /\ info.type = "constant" => UseDeletedVersion(txn, info.delete_id)
    <3>1. CASE info.type = "constant"
      BY <1>2, <3>1 DEF GetSelVector, MarkAt
    <3>2. CASE info.type = "vector"
      <4>1. i \in Slot /\ UseInsertedVersion(txn, InsertMark(info, i))
        BY <1>2, <3>2 DEF GetSelVector
      <4>2. InsertMark(info, i) = info.inserted[i]
        BY <1>1, <1>2, <3>2, <4>1 DEF Shortcuts, InsertMark
      <4> QED
        BY <3>2, <4>1, <4>2 DEF MarkAt
    <3> QED
      BY <2>1, <3>1, <3>2
  <2>3. info.type = "constant" => info.delete_id # 0
    BY <1>3, <2>2 DEF UseDeletedVersion, UseInsertedVersion
  <2>4. BaseRow \in Nat /\ total_rows \in Nat /\ RowAt(v, i) \in Nat
    <3>1. total_rows \in Nat /\ (HasFlushed => BaseRow \in Nat)
      BY <1>1, FlushFacts DEF Types
    <3>2. BaseRow \in Nat
      BY <3>1 DEF BaseRow
    <3> QED
      BY <2>2, <3>1, <3>2, RowPlaces
  <2>5. RowAt(v, i) < BaseRow
    <3> SUFFICES ASSUME RowAt(v, i) \in BaseRow..total_rows - 1 PROVE FALSE
      BY <1>2, <2>4
    <3>1. MarkAt(info, i) = FlushMark
      BY <1>1, <2>2 DEF Flushed, FlushedAs
    <3>2. HasFlushed
      <4> SUFFICES ASSUME ~ HasFlushed PROVE FALSE
        OBVIOUS
      <4>1. BaseRow = total_rows
        BY DEF BaseRow
      <4> QED
        BY <2>4, <4>1
    <3> DEFINE u == transaction_lock
    <3>3. u \in Txn /\ u # t /\ phase[u] \in {"committing", "rolling_back"} /\ u \in Running
      <4>1. u \in Txn
        BY <1>1, <3>2, FlushFacts
      <4> QED
        BY <1>1, <4>1 DEF Types, Running
    <3>4. /\ transaction_id[u] \in Nat /\ TRANSACTION_ID_START <= transaction_id[u] /\ transaction_id[u] # transaction_id[t]
          /\ phase[u] = "committing" => /\ commit_id[u] \in Nat /\ start_time[t] < commit_id[u]
                                        /\ commit_id[u] < current_start_timestamp
      BY <1>1, <3>3 DEF Types, Clocks
    <3>5. FlushMark = transaction_id[u] \/ (phase[u] = "committing" /\ FlushMark = commit_id[u])
      BY DEF FlushMark
    <3> HIDE DEF u
    <3>6. ~ (FlushMark < start_time[t]) /\ FlushMark # transaction_id[t]
      <4>1. CASE FlushMark = transaction_id[u]
        BY <1>3, <3>4, <4>1
      <4>2. CASE phase[u] = "committing" /\ FlushMark = commit_id[u]
        BY <1>3, <3>4, <4>2
      <4> QED
        BY <3>5, <4>1, <4>2
    <3> QED
      BY <1>3, <2>2, <3>1, <3>6 DEF UseInsertedVersion
  <2> QED
    BY <1>2, <2>2, <2>3, <2>5
<1> QED
  BY <1>4, <1>5

\* Rows that no delete has marked get the mark of one.
Marking(infos, D, base, L, clock, ids, c, new, w, marked, id) ==
  /\ DeletesOK(infos, D, base, c) /\ RowsOK(infos, base, clock, ids, c, L)
  /\ w \in Vector /\ marked \in SUBSET Slot /\ id \in TRANSACTION_ID_START..ids - 1
  /\ base \in Nat /\ clock \in Nat /\ clock <= id /\ clock <= NOT_DELETED_ID /\ id # c /\ NOT_DELETED_ID # c
  /\ \A p \in DOMAIN D : D[p].stamp # NOT_DELETED_ID
  /\ \A i \in marked : RowAt(w, i) < base /\ RowAt(w, i) \in Nat /\ DeleteMark(infos[w], i) = NOT_DELETED_ID
  /\ \A v \in Vector, i \in Slot :
        /\ MarkAt(new[v], i) = MarkAt(infos[v], i)
        /\ DeleteMark(new[v], i) = IF v = w /\ i \in marked THEN id ELSE DeleteMark(infos[v], i)

\* The new marks are one more delete, and commits have deleted no other rows.
LEMMA RowsMarked ==
  ASSUME NEW infos, NEW D, NEW base, NEW L, NEW clock, NEW ids, NEW c, NEW new, NEW w, NEW marked, NEW id,
         Marking(infos, D, base, L, clock, ids, c, new, w, marked, id)
  PROVE  /\ DeletesOK(new, D, base, c) /\ RowsOK(new, base, clock, ids, c, L)
         /\ \A q, D2 : /\ q \notin DOMAIN D /\ DOMAIN D2 = DOMAIN D \cup {q} /\ \A p \in DOMAIN D : D2[p] = D[p]
                       /\ D2[q] = [vector |-> w, slots |-> marked, stamp |-> id]
                       => DeletesOK(new, D2, base, c)
<1> USE DEF Marking
<1>1. ASSUME NEW p \in DOMAIN D
      PROVE  /\ D[p].vector \in Vector /\ D[p].slots \subseteq Slot
             /\ \A i \in D[p].slots : /\ RowAt(D[p].vector, i) < base
                                      /\ DeleteMark(infos[D[p].vector], i) = D[p].stamp
                                      /\ ~ (D[p].vector = w /\ i \in marked)
                                      /\ DeleteMark(new[D[p].vector], i) = D[p].stamp
             /\ D[p].vector = w => D[p].slots \cap marked = {}
  <2>1. /\ D[p].vector \in Vector /\ D[p].slots \subseteq Slot
        /\ \A i \in D[p].slots : /\ RowAt(D[p].vector, i) < base
                                 /\ DeleteMark(infos[D[p].vector], i) = D[p].stamp
    BY DEF DeletesOK
  <2>2. \A i \in D[p].slots : ~ (D[p].vector = w /\ i \in marked)
    BY <2>1
  <2> QED
    BY <2>1, <2>2
<1>2. ASSUME NEW v \in Vector, NEW i \in Slot
      PROVE  /\ DeleteMark(new[v], i) = c =>
                   DeleteMark(infos[v], i) = c
             /\ RowAt(v, i) >= base => DeleteMark(new[v], i) = NOT_DELETED_ID
  <2>1. RowAt(v, i) >= base => DeleteMark(infos[v], i) = NOT_DELETED_ID
    BY DEF DeletesOK
  <2>2. v = w /\ i \in marked => ~ (RowAt(v, i) >= base)
    BY <1>1
  <2> QED
    BY <2>1, <2>2
<1>3. \A p, q \in DOMAIN D : p # q /\ D[p].vector = D[q].vector => D[p].slots \cap D[q].slots = {}
  BY DEF DeletesOK
<1>4. \A v \in Vector, i \in Slot : DeleteMark(new[v], i) = c =>
        \E p \in DOMAIN D : D[p].vector = v /\ i \in D[p].slots
  BY <1>2 DEF DeletesOK
<1>5. DeletesOK(new, D, base, c)
  BY <1>1, <1>2, <1>3, <1>4 DEF DeletesOK
<1>6. RowsOK(new, base, clock, ids, c, L)
  <2>1. ASSUME NEW v \in Vector, NEW i \in Slot
        PROVE  /\ DeleteMark(new[v], i) \in (0..clock - 1) \cup (TRANSACTION_ID_START..ids - 1) \cup {NOT_DELETED_ID}
               /\ RowAt(v, i) < base =>
                     /\ MarkAt(new[v], i) < clock
                     /\ RowAt(v, i) \in L <=> (clock <= DeleteMark(new[v], i) \/ DeleteMark(new[v], i) = c)
    <3>1. /\ DeleteMark(infos[v], i) \in (0..clock - 1) \cup (TRANSACTION_ID_START..ids - 1) \cup {NOT_DELETED_ID}
          /\ RowAt(v, i) < base =>
                /\ MarkAt(infos[v], i) < clock
                /\ RowAt(v, i) \in L <=> (clock <= DeleteMark(infos[v], i) \/ DeleteMark(infos[v], i) = c)
      BY DEF RowsOK
    <3>2. CASE v = w /\ i \in marked
      BY <3>1, <3>2
    <3>3. CASE ~ (v = w /\ i \in marked)
      BY <3>1, <3>3
    <3> QED
      BY <3>2, <3>3
  <2>2. L \subseteq 0..base - 1
    BY DEF RowsOK
  <2> QED
    BY <2>1, <2>2 DEF RowsOK
<1>7. ASSUME NEW q, NEW D2, q \notin DOMAIN D, DOMAIN D2 = DOMAIN D \cup {q}, \A p \in DOMAIN D : D2[p] = D[p],
             D2[q] = [vector |-> w, slots |-> marked, stamp |-> id]
      PROVE  DeletesOK(new, D2, base, c)
  <2>1. D2[q].vector = w /\ D2[q].slots = marked /\ D2[q].stamp = id
    BY <1>7
  <2>2. ASSUME NEW p \in DOMAIN D2
        PROVE  /\ D2[p].vector \in Vector /\ D2[p].slots \subseteq Slot
               /\ \A i \in D2[p].slots : /\ RowAt(D2[p].vector, i) < base
                                         /\ DeleteMark(new[D2[p].vector], i) = D2[p].stamp
    <3>1. CASE p = q
      BY <2>1, <3>1
    <3>2. CASE p \in DOMAIN D
      BY <1>1, <1>7, <3>2
    <3> QED
      BY <1>7, <3>1, <3>2
  <2>3. ASSUME NEW p \in DOMAIN D2, NEW r \in DOMAIN D2, p # r, D2[p].vector = D2[r].vector
        PROVE  D2[p].slots \cap D2[r].slots = {}
    <3>1. CASE p \in DOMAIN D /\ r \in DOMAIN D
      BY <1>3, <1>7, <2>3, <3>1
    <3>2. CASE p = q /\ r \in DOMAIN D
      BY <1>1, <1>7, <2>1, <2>3, <3>2
    <3>3. CASE r = q /\ p \in DOMAIN D
      BY <1>1, <1>7, <2>1, <2>3, <3>3
    <3> QED
      BY <1>7, <2>3, <3>1, <3>2, <3>3
  <2>4. \A v \in Vector, i \in Slot : DeleteMark(new[v], i) = c =>
          \E p \in DOMAIN D2 : D2[p].vector = v /\ i \in D2[p].slots
    BY <1>4, <1>7
  <2> QED
    BY <1>2, <2>2, <2>3, <2>4 DEF DeletesOK
<1> QED
  BY <1>5, <1>6, <1>7

\* An entry keeps the rows it was made for.
LEMMA DeleteEntry ==
  ASSUME NEW v, NEW rows
  PROVE  /\ DeleteInfo(v, rows).kind = "delete" /\ DeleteInfo(v, rows).vector_idx = v
         /\ DeletedSlots(DeleteInfo(v, rows)) = rows
<1> DEFINE n == Cardinality(rows)
           run == rows = 0..n - 1
<1>1. DeleteInfo(v, rows) = [kind |-> "delete", vector_idx |-> v, count |-> n, is_consecutive |-> run,
                             rows |-> IF run THEN {} ELSE rows]
  BY Zenon DEF DeleteInfo
<1>2. run => rows = 0..n - 1
  OBVIOUS
<1> HIDE DEF n, run
<1>3. /\ DeleteInfo(v, rows).kind = "delete" /\ DeleteInfo(v, rows).vector_idx = v
      /\ DeleteInfo(v, rows).count = n /\ DeleteInfo(v, rows).is_consecutive = run
      /\ DeleteInfo(v, rows).rows = IF run THEN {} ELSE rows
  BY <1>1
<1> QED
  BY <1>2, <1>3 DEF DeletedSlots

\* A delete of an active transaction is one more, with the mark of the transaction.
LEMMA DeleteGrown ==
  ASSUME Types, NEW t \in Txn, phase[t] = "active", UNCHANGED <<phase, transaction_id, commit_id, at>>,
         NEW e, e.kind = "delete", undo' = [undo EXCEPT ![t] = Append(@, e)],
         NEW q, q = <<t, Len(undo[t]) + 1>>
  PROVE  /\ q \notin DOMAIN Deletes /\ DOMAIN Deletes' = DOMAIN Deletes \cup {q}
         /\ \A p \in DOMAIN Deletes : Deletes'[p] = Deletes[p]
         /\ Deletes'[q] = [vector |-> e.vector_idx, slots |-> DeletedSlots(e), stamp |-> transaction_id[t]]
<1> DEFINE len == Len(undo[t])
<1>1. IsUndo(undo[t])
  BY DEF Types
<1>2. /\ len \in Nat /\ Len(undo'[t]) = len + 1
      /\ \A n \in 1..len : undo'[t][n] = undo[t][n]
      /\ undo'[t][len + 1] = e
      /\ \A u \in Txn \ {t} : undo'[u] = undo[u]
  <2>1. undo'[t] = Append(undo[t], e) /\ \A u \in Txn \ {t} : undo'[u] = undo[u]
    BY DEF Types
  <2> QED
    BY <1>1, <2>1, Grown
<1>3. t \in Running /\ Running' = Running /\ UndoUpTo(t) = len /\ UndoUpTo(t)' = len + 1
  BY <1>2 DEF Running, UndoUpTo
<1>4. \A u \in Txn \ {t} : UndoUpTo(u)' = UndoUpTo(u)
  BY <1>2 DEF UndoUpTo
<1> HIDE DEF len
<1>5. q = <<t, len + 1>> /\ q[1] = t /\ q[2] = len + 1 /\ q \in Txn \X Nat
  BY <1>2 DEF len
<1>6. q \notin DeleteIds
  <2>1. ~ (len + 1 \in 1..len)
    BY <1>2
  <2> QED
    BY <1>3, <1>5, <2>1 DEF DeleteIds
<1> DEFINE In(u, n) == u \in Running /\ n \in 1..UndoUpTo(u) /\ undo[u][n].kind = "delete"
           InNext(u, n) == u \in Running' /\ n \in 1..UndoUpTo(u)' /\ undo'[u][n].kind = "delete"
<1>7. ASSUME NEW u \in Txn, NEW n \in Nat
      PROVE  InNext(u, n) <=> In(u, n) \/ (u = t /\ n = len + 1)
  <2>1. CASE u # t
    BY <1>2, <1>3, <1>4, <2>1
  <2>2. CASE u = t
    <3>1. n \in 1..len + 1 <=> n \in 1..len \/ n = len + 1
      BY <1>2
    <3>2. n \in 1..len => n # len + 1
      BY <1>2
    <3> QED
      BY <1>2, <1>3, <2>2, <3>1, <3>2
  <2> QED
    BY <2>1, <2>2
<1>8. DeleteIds' = DeleteIds \cup {q}
  <2>1. DeleteIds = {p \in Txn \X Nat : In(p[1], p[2])}
    BY Zenon DEF DeleteIds
  <2>2. DeleteIds' = {p \in Txn \X Nat : InNext(p[1], p[2])}
    BY Zenon DEF DeleteIds
  <2> HIDE DEF In, InNext
  <2>3. \A p \in Txn \X Nat : p[1] \in Txn /\ p[2] \in Nat /\ p = <<p[1], p[2]>>
    OBVIOUS
  <2>4. \A p \in Txn \X Nat : InNext(p[1], p[2]) <=> In(p[1], p[2]) \/ p = q
    BY <1>5, <1>7, <2>3
  <2> QED
    BY <1>5, <2>1, <2>2, <2>4
<1>9. DOMAIN Deletes = DeleteIds /\ DOMAIN Deletes' = DeleteIds'
  <2>1. DOMAIN Deletes = DeleteIds
    BY DEF Deletes
  <2>2. DOMAIN Deletes' = DeleteIds'
    BY DEF Deletes
  <2> QED
    BY <2>1, <2>2
<1>10. ASSUME NEW p \in DeleteIds'
       PROVE  Deletes'[p] = [vector |-> undo'[p[1]][p[2]].vector_idx, slots |-> DeletedSlots(undo'[p[1]][p[2]]),
                             stamp |-> StampOf(p)']
  BY <1>10 DEF Deletes
<1>11. ASSUME NEW p \in DeleteIds PROVE Deletes'[p] = Deletes[p]
  <2>1. PICK u \in Txn, n \in Nat : /\ p = <<u, n>> /\ p[1] = u /\ p[2] = n /\ u \in Running
                                    /\ n \in 1..UndoUpTo(u)
    BY DeleteIdPairs
  <2>2. undo'[u][n] = undo[u][n]
    BY <1>2, <1>3, <2>1
  <2>3. StampOf(p)' = StampOf(p)
    BY <2>1 DEF StampOf
  <2>4. Deletes[p] = [vector |-> undo[p[1]][p[2]].vector_idx, slots |-> DeletedSlots(undo[p[1]][p[2]]),
                      stamp |-> StampOf(p)]
    BY DEF Deletes
  <2>5. p \in DeleteIds'
    BY <1>8
  <2> QED
    BY <1>10, <2>1, <2>2, <2>3, <2>4, <2>5
<1>12. Deletes'[q] = [vector |-> e.vector_idx, slots |-> DeletedSlots(e), stamp |-> transaction_id[t]]
  <2>1. q \in DeleteIds'
    BY <1>8
  <2>2. StampOf(q)' = transaction_id[t]
    BY <1>5 DEF StampOf
  <2>3. undo'[q[1]][q[2]] = e
    BY <1>2, <1>5
  <2> QED
    BY <1>10, <2>1, <2>2, <2>3
<1> QED
  BY <1>6, <1>8, <1>9, <1>11, <1>12

\* DELETE marks rows that are committed and not deleted; with a conflict the rows that it
\* has marked belong to no delete.
LEMMA DeleteRowsStep ==
  ASSUME VInv, InRange, InRange', RInv, NEW t \in Txn, NEW v \in Vector, NEW p \in RowSets, Delete(t, v, p)
  PROVE  RInv'
<1> DEFINE rows == Matching(t, v, p)
           id == transaction_id[t]
           info == vector_info[v]
           result == DeleteRows(info, rows, id)
           marked == result.rows
           e == DeleteInfo(v, marked)
           q == <<t, Len(undo[t]) + 1>>
<1>1. /\ phase[t] = "active" /\ rows # {}
      /\ vector_info' = [vector_info EXCEPT ![v] = result.info]
      /\ \/ phase' = [phase EXCEPT ![t] = "invalid"] /\ undo' = undo
         \/ phase' = phase /\ undo' = undo
         \/ phase' = phase /\ undo' = [undo EXCEPT ![t] = Append(@, e)]
      /\ UNCHANGED <<clocks, commit_id, transaction_lock, at, total_rows, index, recently_committed, live>>
  BY DEF Delete
<1>2. /\ Types /\ Clocks /\ Undos /\ Begun /\ ConstantsFull(vector_info, total_rows)
      /\ VersionsSane(vector_info, total_rows)
  BY DEF VInv, RInv
<1>3. /\ info \in Infos /\ id \in Nat /\ t \in Running /\ total_rows \in Nat /\ vector_info \in [Vector -> Infos]
  BY <1>1, <1>2 DEF Types, Running
<1>4. \A i \in rows : /\ i \in Slot /\ RowAt(v, i) < total_rows /\ RowAt(v, i) < BaseRow
                      /\ info.type = "constant" => info.delete_id # 0
  BY <1>1, <1>2, MatchingRows
<1>5. info.type = "constant" => info.delete_id = NOT_DELETED_ID
  BY <1>1, <1>2, <1>4 DEF ConstantsFull
<1> HIDE DEF rows, id
<1>6. /\ result.info \in VectorInfos /\ result.info.type = "vector" /\ marked \in SUBSET rows
      /\ \A i \in marked : DeleteMark(info, i) = NOT_DELETED_ID
      /\ \A i \in Slot : /\ MarkAt(result.info, i) = MarkAt(info, i)
                          /\ DeleteMark(result.info, i) = IF i \in marked THEN id ELSE DeleteMark(info, i)
  <2>1. rows \in SUBSET Slot
    BY <1>4
  <2>2. result = DeleteRows(info, rows, id)
    OBVIOUS
  <2> HIDE DEF result, info
  <2>3. info \in Infos /\ id \in Nat /\ (info.type = "constant" => info.delete_id = NOT_DELETED_ID)
    BY <1>3, <1>5
  <2>4. /\ result.info \in VectorInfos /\ result.info.type = "vector" /\ result.rows \in SUBSET rows
        /\ \A i \in result.rows : DeleteMark(info, i) = NOT_DELETED_ID
        /\ \A i \in Slot : /\ MarkAt(result.info, i) = MarkAt(info, i)
                            /\ DeleteMark(result.info, i) = IF i \in result.rows THEN id ELSE DeleteMark(info, i)
    <3>1. RowsDeleted(info, rows, id, result)
      BY <2>1, <2>2, <2>3, DeletedMarks
    <3> QED
      BY <3>1 DEF RowsDeleted
  <2> QED
    BY <2>4, Zenon
<1>7. e.kind = "delete" /\ e.vector_idx = v /\ DeletedSlots(e) = marked
  BY DeleteEntry
<1> HIDE DEF result, e
<1>8. \A w \in Vector, i \in Slot :
         /\ MarkAt(vector_info'[w], i) = MarkAt(vector_info[w], i)
         /\ DeleteMark(vector_info'[w], i) = IF w = v /\ i \in marked THEN id ELSE DeleteMark(vector_info[w], i)
  BY <1>1, <1>3, <1>6
<1>9. t # transaction_lock /\ transaction_lock \in Txn \cup {NoTxn}
  BY <1>1, <1>2 DEF Types
<1>10. /\ \A u \in Txn \ {t} : phase'[u] = phase[u] /\ undo'[u] = undo[u]
       /\ phase'[t] \in {"active", "invalid"}
       /\ undo' = undo \/ (phase' = phase /\ undo' = [undo EXCEPT ![t] = Append(@, e)])
  BY <1>1, <1>2 DEF Types
<1>11. transaction_lock # NoTxn => undo'[transaction_lock] = undo[transaction_lock]
                                   /\ phase'[transaction_lock] = phase[transaction_lock]
  BY <1>9, <1>10
<1>12. HasFlushed' = HasFlushed /\ BaseRow' = BaseRow /\ (HasFlushed => Flush' = Flush)
  BY <1>1, <1>11, FlushSame
<1>13. InProgress' = InProgress
  <2>1. \A u \in Txn : phase'[u] = "committing" <=> phase[u] = "committing"
    BY <1>1, <1>10
  <2> QED
    BY <1>1, <2>1, InProgressSame
<1>14. UNCHANGED <<start_time, transaction_id, current_start_timestamp, current_transaction_id>>
  BY <1>1 DEF clocks
<1>15. /\ current_start_timestamp \in Nat /\ current_transaction_id \in Nat
       /\ TRANSACTION_ID_START \in Nat /\ NOT_DELETED_ID \in Nat
       /\ current_start_timestamp <= TRANSACTION_ID_START /\ TRANSACTION_ID_START < NOT_DELETED_ID
       /\ InProgress \in Nat /\ (InProgress < current_start_timestamp \/ InProgress = NOT_DELETED_ID + 1)
       /\ TRANSACTION_ID_START <= id /\ id < current_transaction_id /\ id # InProgress
  BY <1>2, <1>3, TimeFacts DEF id
<1>16. /\ id \in TRANSACTION_ID_START..current_transaction_id - 1 /\ current_start_timestamp <= id
       /\ current_start_timestamp <= NOT_DELETED_ID /\ NOT_DELETED_ID # InProgress
  BY <1>3, <1>15
<1>17. \A r \in DOMAIN Deletes : Deletes[r].stamp # NOT_DELETED_ID
  <2> SUFFICES ASSUME NEW r \in DOMAIN Deletes PROVE Deletes[r].stamp # NOT_DELETED_ID
    OBVIOUS
  <2>1. r \in DeleteIds
    BY DEF Deletes
  <2>2. Deletes[r].stamp = StampOf(r) /\ StampOf(r) \in Nat /\ StampOf(r) < NOT_DELETED_ID
    BY <1>2, <2>1, DeletesAt, StampFacts
  <2> QED
    BY <1>15, <2>2
<1>18. BaseRow \in Nat
  <2>1. HasFlushed => BaseRow \in Nat
    BY <1>2, FlushFacts
  <2> QED
    BY <1>3, <2>1 DEF BaseRow
<1>19. /\ marked \in SUBSET Slot
       /\ \A i \in marked : RowAt(v, i) < BaseRow /\ RowAt(v, i) \in Nat /\ DeleteMark(vector_info[v], i) = NOT_DELETED_ID
  BY <1>4, <1>6, RowPlaces
<1>20. /\ DeletesOK(vector_info, Deletes, BaseRow, InProgress)
       /\ RowsOK(vector_info, BaseRow, current_start_timestamp, current_transaction_id, InProgress, live)
       /\ IndexOK(index, total_rows, BaseRow, live, AwaitingDeleted)
       /\ FlushExtent(total_rows) /\ RollbackExtent /\ RecentOK
  BY DEF RInv
<1> HIDE DEF info, marked
<1>21. /\ DeletesOK(vector_info', Deletes, BaseRow, InProgress)
       /\ RowsOK(vector_info', BaseRow, current_start_timestamp, current_transaction_id, InProgress, live)
       /\ \A r, D2 : /\ r \notin DOMAIN Deletes /\ DOMAIN D2 = DOMAIN Deletes \cup {r}
                     /\ \A s \in DOMAIN Deletes : D2[s] = Deletes[s]
                     /\ D2[r] = [vector |-> v, slots |-> marked, stamp |-> id]
                     => DeletesOK(vector_info', D2, BaseRow, InProgress)
  <2>1. Marking(vector_info, Deletes, BaseRow, live, current_start_timestamp, current_transaction_id, InProgress,
                vector_info', v, marked, id)
    BY <1>8, <1>15, <1>16, <1>17, <1>18, <1>19, <1>20 DEF Marking
  <2> QED
    BY <2>1, RowsMarked
<1>22. DeletesOK(vector_info', Deletes', BaseRow, InProgress)
  <2>1. CASE undo' = undo
    <3> DEFINE f == [kind |-> "update"]
    <3>1. f.kind # "delete" /\ undo'[t] = undo[t]
      BY <2>1
    <3> HIDE DEF f
    <3>2. \A u \in Txn \ {t} : phase'[u] = phase[u] /\ undo'[u] = undo[u] /\ commit_id'[u] = commit_id[u]
      BY <1>1, <1>10
    <3>3. Deletes' = Deletes
      BY <1>1, <1>2, <1>10, <1>14, <3>1, <3>2, QuietDeletes
    <3> QED
      BY <1>21, <3>3
  <2>2. CASE phase' = phase /\ undo' = [undo EXCEPT ![t] = Append(@, e)]
    <3>1. /\ q \notin DOMAIN Deletes /\ DOMAIN Deletes' = DOMAIN Deletes \cup {q}
          /\ \A s \in DOMAIN Deletes : Deletes'[s] = Deletes[s]
          /\ Deletes'[q] = [vector |-> e.vector_idx, slots |-> DeletedSlots(e), stamp |-> transaction_id[t]]
      BY <1>1, <1>2, <1>7, <1>14, <2>2, DeleteGrown
    <3>2. Deletes'[q] = [vector |-> v, slots |-> marked, stamp |-> id]
      BY <1>7, <3>1 DEF id, marked
    <3> HIDE DEF q
    <3> QED
      BY <1>21, <3>1, <3>2
  <2> QED
    BY <1>10, <2>1, <2>2
<1>23. ConstantsFull(vector_info, total_rows)'
  <2>1. vector_info'[v] = result.info /\ \A w \in Vector \ {v} : vector_info'[w] = vector_info[w]
    BY <1>1, <1>3
  <2>2. v * STANDARD_VECTOR_SIZE < total_rows
    <3>1. PICK i \in rows : TRUE
      BY <1>1 DEF rows
    <3> DEFINE x == RowAt(v, i)
               y == v * STANDARD_VECTOR_SIZE
    <3>2. x \in Nat /\ y \in Nat /\ y <= x /\ x < total_rows
      BY <1>4, RowPlaces
    <3> HIDE DEF x, y
    <3>3. y < total_rows
      BY <1>3, <3>2
    <3> QED
      BY <3>3 DEF y
  <2> QED
    BY <1>1, <1>2, <1>6, <2>1, <2>2 DEF ConstantsFull
<1>24. AwaitingDeleted' = AwaitingDeleted
  <2>1. \A u \in Txn : phase[u] = "ended" => undo'[u] = undo[u] /\ commit_id'[u] = commit_id[u]
    BY <1>1, <1>10
  <2> QED
    BY <1>1, <1>2, <2>1, AwaitingSame
<1>25. FlushExtent(total_rows)'
  BY <1>1, <1>12, <1>20 DEF FlushExtent
<1>26. RollbackExtent'
  <2>1. HasFlushed => transaction_lock # NoTxn
    BY DEF HasFlushed
  <2> QED
    BY <1>1, <1>11, <1>12, <1>20, <2>1 DEF RollbackExtent
<1>27. Running' = Running
  BY <1>1, <1>10 DEF Running
<1>28. RecentOK' /\ Begun'
  BY <1>1, <1>2, <1>14, <1>20, <1>27 DEF RecentOK, Begun
<1> QED
  BY <1>1, <1>12, <1>13, <1>14, <1>20, <1>21, <1>22, <1>23, <1>24, <1>25, <1>26, <1>28 DEF RInv
-----------------------------------------------------------------------------
(* Entries that are committed, reverted and rolled back.                   *)

\* The rows of delete q get the mark id; q may be over with that.
Restamping(infos, D, base, L, clock, ids, c, new, q, id, D2) ==
  /\ DeletesOK(infos, D, base, c) /\ RowsOK(infos, base, clock, ids, c, L)
  /\ q \in DOMAIN D /\ base \in Nat /\ clock \in Nat
  /\ id \in (0..clock - 1) \cup (TRANSACTION_ID_START..ids - 1) \cup {NOT_DELETED_ID}
  /\ clock <= id \/ id = c
  /\ clock <= D[q].stamp \/ D[q].stamp = c
  /\ DOMAIN D2 \subseteq DOMAIN D /\ DOMAIN D \subseteq DOMAIN D2 \cup {q}
  /\ \A p \in DOMAIN D2 \ {q} : D2[p] = D[p]
  /\ q \in DOMAIN D2 => D2[q].vector = D[q].vector /\ D2[q].slots = D[q].slots /\ D2[q].stamp = id
  /\ id = c => q \in DOMAIN D2
  /\ \A v \in Vector, i \in Slot :
        /\ MarkAt(new[v], i) = MarkAt(infos[v], i)
        /\ DeleteMark(new[v], i) = IF v = D[q].vector /\ i \in D[q].slots THEN id ELSE DeleteMark(infos[v], i)

\* The invariant holds with the new mark.
LEMMA Restamped ==
  ASSUME NEW infos, NEW D, NEW base, NEW L, NEW clock, NEW ids, NEW c, NEW new, NEW q, NEW id, NEW D2,
         Restamping(infos, D, base, L, clock, ids, c, new, q, id, D2)
  PROVE  DeletesOK(new, D2, base, c) /\ RowsOK(new, base, clock, ids, c, L)
<1> USE DEF Restamping
<1>1. /\ \A p \in DOMAIN D : /\ D[p].vector \in Vector /\ D[p].slots \subseteq Slot
                             /\ \A i \in D[p].slots : /\ RowAt(D[p].vector, i) < base
                                                      /\ DeleteMark(infos[D[p].vector], i) = D[p].stamp
      /\ \A p, r \in DOMAIN D : p # r /\ D[p].vector = D[r].vector => D[p].slots \cap D[r].slots = {}
  BY DEF DeletesOK
<1>2. \A p \in DOMAIN D2 : p \in DOMAIN D /\ D2[p].vector = D[p].vector /\ D2[p].slots = D[p].slots
  OBVIOUS
<1>3. ASSUME NEW p \in DOMAIN D2, NEW i \in D2[p].slots
      PROVE  RowAt(D2[p].vector, i) < base /\ DeleteMark(new[D2[p].vector], i) = D2[p].stamp
  <2>1. CASE p = q
    BY <1>1, <1>2, <2>1
  <2>2. CASE p # q
    <3>1. ~ (D[p].vector = D[q].vector /\ i \in D[q].slots)
      BY <1>1, <1>2, <2>2
    <3> QED
      BY <1>1, <1>2, <2>2, <3>1
  <2> QED
    BY <2>1, <2>2
<1>4. ASSUME NEW p \in DOMAIN D2, NEW r \in DOMAIN D2, p # r, D2[p].vector = D2[r].vector
      PROVE  D2[p].slots \cap D2[r].slots = {}
  BY <1>1, <1>2, <1>4
<1>5. ASSUME NEW v \in Vector, NEW i \in Slot, DeleteMark(new[v], i) = c
      PROVE  \E p \in DOMAIN D2 : D2[p].vector = v /\ i \in D2[p].slots
  <2>1. CASE v = D[q].vector /\ i \in D[q].slots
    <3>1. id = c
      BY <1>5, <2>1
    <3> QED
      BY <2>1, <3>1
  <2>2. CASE ~ (v = D[q].vector /\ i \in D[q].slots)
    <3>1. DeleteMark(infos[v], i) = c
      BY <1>5, <2>2
    <3>2. PICK p \in DOMAIN D : D[p].vector = v /\ i \in D[p].slots
      BY <3>1 DEF DeletesOK
    <3>3. p # q
      BY <2>2, <3>2
    <3> QED
      BY <1>2, <3>2, <3>3
  <2> QED
    BY <2>1, <2>2
<1>6. ASSUME NEW v \in Vector, NEW i \in Slot, RowAt(v, i) >= base PROVE DeleteMark(new[v], i) = NOT_DELETED_ID
  <2>1. DeleteMark(infos[v], i) = NOT_DELETED_ID
    BY <1>6 DEF DeletesOK
  <2>2. RowAt(v, i) \in Nat
    BY RowPlaces
  <2>3. ~ (RowAt(v, i) < base)
    BY <1>6, <2>2
  <2>4. ~ (v = D[q].vector /\ i \in D[q].slots)
    BY <1>1, <2>3
  <2> QED
    BY <2>1, <2>4
<1>7. DeletesOK(new, D2, base, c)
  BY <1>1, <1>2, <1>3, <1>4, <1>5, <1>6 DEF DeletesOK
<1>8. ASSUME NEW v \in Vector, NEW i \in Slot
      PROVE  /\ DeleteMark(new[v], i) \in (0..clock - 1) \cup (TRANSACTION_ID_START..ids - 1) \cup {NOT_DELETED_ID}
             /\ RowAt(v, i) < base =>
                   /\ MarkAt(new[v], i) < clock
                   /\ RowAt(v, i) \in L <=> (clock <= DeleteMark(new[v], i) \/ DeleteMark(new[v], i) = c)
  <2>1. /\ DeleteMark(infos[v], i) \in (0..clock - 1) \cup (TRANSACTION_ID_START..ids - 1) \cup {NOT_DELETED_ID}
        /\ RowAt(v, i) < base =>
              /\ MarkAt(infos[v], i) < clock
              /\ RowAt(v, i) \in L <=> (clock <= DeleteMark(infos[v], i) \/ DeleteMark(infos[v], i) = c)
    BY DEF RowsOK
  <2>2. CASE v = D[q].vector /\ i \in D[q].slots
    <3>1. DeleteMark(infos[v], i) = D[q].stamp /\ DeleteMark(new[v], i) = id
      BY <1>1, <2>2
    <3> QED
      BY <2>1, <3>1
  <2>3. CASE ~ (v = D[q].vector /\ i \in D[q].slots)
    <3>1. DeleteMark(new[v], i) = DeleteMark(infos[v], i)
      BY <2>3
    <3> QED
      BY <2>1, <3>1
  <2> QED
    BY <2>2, <2>3
<1>9. L \subseteq 0..base - 1
  BY DEF RowsOK
<1>10. RowsOK(new, base, clock, ids, c, L)
  BY <1>8, <1>9 DEF RowsOK
<1> QED
  BY <1>7, <1>10

\* The invariant of a table while entries are committed or taken back.
TabOK(tab, D, c) ==
  /\ DeletesOK(tab.vector_info, D, BaseRow, c)
  /\ RowsOK(tab.vector_info, BaseRow, current_start_timestamp, current_transaction_id, c, live)
  /\ ConstantsFull(tab.vector_info, tab.total_rows)
  /\ IndexOK(tab.index, tab.total_rows, BaseRow, live, AwaitingDeleted)

\* DataTable::RevertAppend takes the rows of the flush out of the table and of the index.
LEMMA AppendTaken ==
  ASSUME Types, Undos, HasFlushed, NEW tab, TableSane(tab), NEW D, NEW c, TabOK(tab, D, c),
         FlushExtent(tab.total_rows), NEW r, r = RevertAppendEntry(tab, Flush)
  PROVE  TabOK(r, D, c) /\ r.total_rows = BaseRow
<1> DEFINE infos == tab.vector_info
           total == tab.total_rows
           hi == Min({Flush.start_row + Flush.count, total})
           b == RevertAppend(infos, BaseRow)
           x == tab.index \ (BaseRow..hi - 1)
<1>1. /\ BaseRow = Flush.start_row /\ BaseRow \in Nat /\ Flush.count \in Nat /\ total \in Nat /\ BaseRow <= total
      /\ DOMAIN tab = Fields /\ infos \in [Vector -> Infos] /\ Flushed(infos, total)
  BY FlushFacts DEF TableSane, VersionsSane
<1>2. hi = total
  <2>1. total \in {BaseRow, BaseRow + Flush.count}
    BY <1>1 DEF FlushExtent
  <2> DEFINE S == {BaseRow + Flush.count, total}
  <2>2. S \in SUBSET Nat /\ S # {} /\ hi = Min(S)
    BY <1>1
  <2>3. hi \in S /\ \A s \in S : hi <= s
    <3> HIDE DEF S, hi
    <3> QED
      BY <2>2, MinIsLeast
  <2> QED
    BY <1>1, <2>1, <2>3
<1>3. r.total_rows = BaseRow /\ r.vector_info = b /\ r.index = x
  <2>1. r = [tab EXCEPT !.total_rows = BaseRow, !.vector_info = b, !.index = x]
    BY <1>1, Zenon DEF RevertAppendEntry
  <2> HIDE DEF b, x
  <2> QED
    BY <1>1, <2>1 DEF Fields
<1>4. ASSUME NEW v \in Vector, NEW i \in Slot
      PROVE  /\ v * STANDARD_VECTOR_SIZE < BaseRow => b[v] = infos[v]
             /\ ~ (v * STANDARD_VECTOR_SIZE < BaseRow) => b[v] = NoInfo
             /\ DeleteMark(b[v], i) = DeleteMark(infos[v], i)
             /\ RowAt(v, i) < BaseRow => MarkAt(b[v], i) = MarkAt(infos[v], i)
  <2>1. /\ v * STANDARD_VECTOR_SIZE < BaseRow => b[v] = infos[v]
        /\ ~ (v * STANDARD_VECTOR_SIZE < BaseRow) => /\ b[v] = NoInfo /\ MarkAt(b[v], i) = 0
                                                     /\ DeleteMark(b[v], i) = NOT_DELETED_ID
        /\ RowAt(v, i) < BaseRow => v * STANDARD_VECTOR_SIZE < BaseRow
    BY <1>1, RevertedMarks
  <2>2. RowAt(v, i) >= BaseRow => DeleteMark(infos[v], i) = NOT_DELETED_ID
    BY DEF TabOK, DeletesOK
  <2>3. RowAt(v, i) \in Nat
    BY RowPlaces
  <2>4. RowAt(v, i) >= BaseRow \/ RowAt(v, i) < BaseRow
    BY <1>1, <2>3
  <2> HIDE DEF b, infos
  <2> QED
    BY <2>1, <2>2, <2>4
<1> HIDE DEF b, x, hi
<1>5. /\ DeletesOK(b, D, BaseRow, c)
      /\ RowsOK(b, BaseRow, current_start_timestamp, current_transaction_id, c, live)
  BY <1>4, MarksKept DEF TabOK
<1>6. ConstantsFull(b, BaseRow)
  <2> SUFFICES ASSUME NEW v \in Vector
               PROVE  /\ b[v].type # "none" => v * STANDARD_VECTOR_SIZE < BaseRow
                      /\ b[v].type = "constant" => /\ b[v].delete_id \in {0, NOT_DELETED_ID}
                                                   /\ \A i \in Slot : RowAt(v, i) < BaseRow
    BY DEF ConstantsFull
  <2>0. 0 \in Slot
    BY RowPlaces, VersionConstants DEF Slot
  <2>1. CASE ~ (v * STANDARD_VECTOR_SIZE < BaseRow)
    <3>1. b[v] = NoInfo
      BY <1>4, <2>0, <2>1
    <3> QED
      BY <3>1 DEF NoInfo
  <2>2. CASE v * STANDARD_VECTOR_SIZE < BaseRow
    <3>1. b[v] = infos[v]
      BY <1>4, <2>0, <2>2
    <3>2. ASSUME infos[v].type = "constant", NEW i \in Slot PROVE RowAt(v, i) < BaseRow
      <4>1. RowAt(v, i) < total
        BY <3>2 DEF TabOK, ConstantsFull
      <4>2. RowAt(v, i) \in BaseRow..total - 1 => BaseRow <= v * STANDARD_VECTOR_SIZE
        BY <1>1, <3>2 DEF Flushed, FlushedAs, OneMark
      <4> DEFINE y == v * STANDARD_VECTOR_SIZE
                 z == RowAt(v, i)
      <4>3. y \in Nat /\ z \in Nat
        BY RowPlaces
      <4>4. y < BaseRow /\ z < total /\ (z \in BaseRow..total - 1 => BaseRow <= y)
        BY <2>2, <4>1, <4>2
      <4> HIDE DEF y, z
      <4>5. z < BaseRow
        BY <1>1, <4>3, <4>4
      <4> QED
        BY <4>5 DEF z
    <3>3. infos[v].type = "constant" => infos[v].delete_id \in {0, NOT_DELETED_ID}
      BY DEF TabOK, ConstantsFull
    <3> QED
      BY <2>2, <3>1, <3>2, <3>3
  <2> QED
    BY <2>1, <2>2
<1>7. IndexOK(x, BaseRow, BaseRow, live, AwaitingDeleted)
  <2>1. IndexOK(tab.index, total, BaseRow, live, AwaitingDeleted) /\ live \subseteq 0..BaseRow - 1
    BY DEF TabOK, RowsOK
  <2>2. BaseRow..BaseRow - 1 = {} /\ \A k \in 0..BaseRow - 1 : k \notin BaseRow..total - 1
    BY <1>1
  <2>3. x = tab.index \ (BaseRow..total - 1)
    BY <1>2 DEF x
  <2> QED
    BY <2>1, <2>2, <2>3 DEF IndexOK
<1> QED
  BY <1>3, <1>5, <1>6, <1>7 DEF TabOK

\* The rows of an entry of the transaction that commits or rolls back get another mark.
LEMMA DeleteRestamped ==
  ASSUME Types, Clocks, Undos, NEW t \in Txn, transaction_lock = t, NEW n \in 1..Len(undo[t]), undo[t][n].kind = "delete",
         NEW tab, TableSane(tab), NEW D, NEW c, TabOK(tab, D, c),
         NEW id \in Nat, NEW new, new = CommitDelete(tab.vector_info, undo[t][n], id),
         NEW q \in DOMAIN D, D[q].vector = undo[t][n].vector_idx, D[q].slots = DeletedSlots(undo[t][n]),
         \/ id \in TRANSACTION_ID_START..current_transaction_id - 1
         \/ id = NOT_DELETED_ID \/ (id < current_start_timestamp /\ id = c),
         current_start_timestamp <= id \/ id = c,
         current_start_timestamp <= D[q].stamp \/ D[q].stamp = c,
         NEW D2, DOMAIN D2 \subseteq DOMAIN D, DOMAIN D \subseteq DOMAIN D2 \cup {q},
         \A p \in DOMAIN D2 \ {q} : D2[p] = D[p],
         q \in DOMAIN D2 => D2[q].vector = D[q].vector /\ D2[q].slots = D[q].slots /\ D2[q].stamp = id,
         id = c => q \in DOMAIN D2
  PROVE  /\ DeletesOK(new, D2, BaseRow, c)
         /\ RowsOK(new, BaseRow, current_start_timestamp, current_transaction_id, c, live)
         /\ ConstantsFull(new, tab.total_rows)
<1> DEFINE infos == tab.vector_info
           e == undo[t][n]
<1>1. t \in Running /\ n \in DOMAIN undo[t] /\ infos \in [Vector -> Infos] /\ e.vector_idx \in Vector
  <2>1. t \in Running
    BY TableConstants DEF Types, Running
  <2>2. n \in DOMAIN undo[t]
    BY EntryFacts
  <2> QED
    BY <2>1, <2>2 DEF Undos, TableSane, VersionsSane
<1>2. infos[e.vector_idx].type = "vector" /\ e.vector_idx * STANDARD_VECTOR_SIZE < BaseRow /\ BaseRow <= tab.total_rows
  BY <1>1 DEF TableSane, VersionsSane, DeletesMarked
<1> HIDE DEF infos, e
<1>3. /\ new[e.vector_idx].type = "vector"
      /\ \A v \in Vector, i \in Slot :
            /\ MarkAt(new[v], i) = MarkAt(infos[v], i)
            /\ DeleteMark(new[v], i) = IF v = e.vector_idx /\ i \in DeletedSlots(e) THEN id
                                       ELSE DeleteMark(infos[v], i)
      /\ \A v \in Vector : v # e.vector_idx => new[v] = infos[v]
  <2>1. new = CommitDelete(infos, e, id)
    BY DEF infos, e
  <2> QED
    BY <1>1, <1>2, <2>1, CommittedDelete
<1>4. BaseRow \in Nat /\ current_start_timestamp \in Nat /\ TRANSACTION_ID_START \in Nat
  <2>1. total_rows \in Nat /\ (HasFlushed => BaseRow \in Nat)
    BY FlushFacts DEF Types
  <2> QED
    BY <2>1, VersionConstants DEF BaseRow, Types
<1>5. id \in (0..current_start_timestamp - 1) \cup (TRANSACTION_ID_START..current_transaction_id - 1) \cup {NOT_DELETED_ID}
  BY <1>4
<1>6. /\ DeletesOK(infos, D, BaseRow, c)
      /\ RowsOK(infos, BaseRow, current_start_timestamp, current_transaction_id, c, live)
      /\ ConstantsFull(infos, tab.total_rows)
  BY DEF TabOK, infos
<1>7. D[q].vector = e.vector_idx /\ D[q].slots = DeletedSlots(e)
  BY DEF e
<1>8. Restamping(infos, D, BaseRow, live, current_start_timestamp, current_transaction_id, c, new, q, id, D2)
  BY <1>3, <1>4, <1>5, <1>6, <1>7 DEF Restamping
<1>9. ConstantsFull(new, tab.total_rows)
  <2> SUFFICES ASSUME NEW v \in Vector
               PROVE  /\ new[v].type # "none" => v * STANDARD_VECTOR_SIZE < tab.total_rows
                      /\ new[v].type = "constant" => /\ new[v].delete_id \in {0, NOT_DELETED_ID}
                                                     /\ \A i \in Slot : RowAt(v, i) < tab.total_rows
    BY DEF ConstantsFull
  <2>1. CASE v = e.vector_idx
    <3>1. infos[v].type # "none"
      BY <1>2, <2>1
    <3> QED
      BY <1>3, <1>6, <2>1, <3>1 DEF ConstantsFull
  <2>2. CASE v # e.vector_idx
    BY <1>3, <1>6, <2>2 DEF ConstantsFull
  <2> QED
    BY <2>1, <2>2
<1> QED
  BY <1>8, <1>9, Restamped

\* The deletes of the undo buffers, when a step goes through an entry of t.
LEMMA DeletesKept ==
  ASSUME Types, UNCHANGED undo, Running' = Running, NEW t, NEW n,
         \A u \in Running \ {t} : UndoUpTo(u)' = UndoUpTo(u),
         \/ UndoUpTo(t)' = UndoUpTo(t)
         \/ n \in Nat \ {0} /\ UndoUpTo(t) = n /\ UndoUpTo(t)' = n - 1,
         NEW q, q = <<t, n>>
  PROVE  /\ DOMAIN Deletes = DeleteIds /\ DOMAIN Deletes' = DeleteIds'
         /\ UndoUpTo(t)' = UndoUpTo(t) => DeleteIds' = DeleteIds
         /\ UndoUpTo(t)' = n - 1 /\ UndoUpTo(t) = n /\ n \in Nat \ {0} => DeleteIds' = DeleteIds \ {q}
         /\ \A p \in DeleteIds' : /\ p \in DeleteIds
                                  /\ Deletes'[p].vector = Deletes[p].vector
                                  /\ Deletes'[p].slots = Deletes[p].slots
                                  /\ Deletes'[p].stamp = StampOf(p)' /\ Deletes[p].stamp = StampOf(p)
                                  /\ StampOf(p)' = StampOf(p) => Deletes'[p] = Deletes[p]
<1>1. DOMAIN Deletes = DeleteIds
  BY DEF Deletes
<1>2. DOMAIN Deletes' = DeleteIds'
  BY DEF Deletes
<1> DEFINE In(u, k) == u \in Running /\ k \in 1..UndoUpTo(u) /\ undo[u][k].kind = "delete"
           InNext(u, k) == u \in Running' /\ k \in 1..UndoUpTo(u)' /\ undo'[u][k].kind = "delete"
<1>3. DeleteIds = {p \in Txn \X Nat : In(p[1], p[2])}
  BY Zenon DEF DeleteIds
<1>4. DeleteIds' = {p \in Txn \X Nat : InNext(p[1], p[2])}
  BY Zenon DEF DeleteIds
<1>p. \A p \in Txn \X Nat : p[1] \in Txn /\ p[2] \in Nat /\ p = <<p[1], p[2]>>
  OBVIOUS
<1>q. q[1] = t /\ q[2] = n
  OBVIOUS
<1>5. UndoUpTo(t)' = UndoUpTo(t) => DeleteIds' = DeleteIds
  <2> SUFFICES ASSUME UndoUpTo(t)' = UndoUpTo(t) PROVE DeleteIds' = DeleteIds
    OBVIOUS
  <2>1. \A u, k : InNext(u, k) <=> In(u, k)
    OBVIOUS
  <2> HIDE DEF In, InNext
  <2> QED
    BY <1>3, <1>4, <2>1
<1>6. ASSUME UndoUpTo(t)' = n - 1, UndoUpTo(t) = n, n \in Nat \ {0} PROVE DeleteIds' = DeleteIds \ {q}
  <2>1. \A k \in Nat : k \in 1..n - 1 <=> k \in 1..n /\ k # n
    BY <1>6
  <2>2. ASSUME NEW u, NEW k \in Nat PROVE InNext(u, k) <=> In(u, k) /\ ~ (u = t /\ k = n)
    <3>1. CASE u = t
      BY <1>6, <2>1, <3>1
    <3>2. CASE u # t
      BY <3>2
    <3> QED
      BY <3>1, <3>2
  <2> HIDE DEF In, InNext
  <2>3. \A p \in Txn \X Nat : InNext(p[1], p[2]) <=> In(p[1], p[2]) /\ p # q
    BY <1>p, <1>q, <2>2
  <2> QED
    BY <1>3, <1>4, <2>3
<1> HIDE DEF In, InNext
<1>7. ASSUME NEW p \in DeleteIds'
      PROVE  /\ p \in DeleteIds
             /\ Deletes'[p].vector = Deletes[p].vector
             /\ Deletes'[p].slots = Deletes[p].slots
             /\ Deletes'[p].stamp = StampOf(p)' /\ Deletes[p].stamp = StampOf(p)
             /\ StampOf(p)' = StampOf(p) => Deletes'[p] = Deletes[p]
  <2>1. p \in DeleteIds
    BY <1>5, <1>6
  <2>2. Deletes'[p] = [vector |-> undo[p[1]][p[2]].vector_idx, slots |-> DeletedSlots(undo[p[1]][p[2]]),
                       stamp |-> StampOf(p)']
    BY <1>7 DEF Deletes
  <2>3. Deletes[p] = [vector |-> undo[p[1]][p[2]].vector_idx, slots |-> DeletedSlots(undo[p[1]][p[2]]),
                      stamp |-> StampOf(p)]
    BY <2>1 DEF Deletes
  <2> QED
    BY <2>1, <2>2, <2>3
<1> QED
  BY <1>1, <1>2, <1>5, <1>6, <1>7

\* A step that goes through entries of the transaction that has the lock.
LEMMA EntryRowsDone ==
  ASSUME VInv, RInv, NEW t \in Txn, transaction_lock = t,
         UNCHANGED <<clocks, transaction_lock, undo, recently_committed, live>>,
         \A u \in Txn \ {t} : phase'[u] = phase[u] /\ commit_id'[u] = commit_id[u],
         phase'[t] \in {"committing", "rolling_back"},
         HasFlushed \/ total_rows' = total_rows, total_rows' \in {total_rows, BaseRow},
         DeletesOK(vector_info', Deletes', BaseRow, InProgress'),
         RowsOK(vector_info', BaseRow, current_start_timestamp, current_transaction_id, InProgress', live),
         ConstantsFull(vector_info', total_rows'),
         IndexOK(index', total_rows', BaseRow, live, AwaitingDeleted),
         RollbackExtent'
  PROVE  RInv'
<1>1. Types /\ Undos
  BY DEF VInv
<1>2. FlushExtent(total_rows) /\ RecentOK /\ Begun
  BY DEF RInv
<1>3. HasFlushed' = HasFlushed /\ Flush' = Flush
  BY DEF HasFlushed, Flush
<1>4. BaseRow' = BaseRow
  BY <1>3 DEF BaseRow
<1>5. FlushExtent(total_rows)'
  <2>1. HasFlushed => BaseRow = Flush.start_row
    BY DEF BaseRow
  <2> QED
    BY <1>2, <1>3, <2>1 DEF FlushExtent
<1>6. phase[t] \in {"committing", "rolling_back"}
  BY <1>1 DEF Types
<1>7. Running' = Running /\ t \in Running
  BY <1>6 DEF Running
<1>8. /\ AwaitingDeleted' = AwaitingDeleted
      /\ \A i \in DOMAIN recently_committed :
            /\ recently_committed[i] \in Txn
            /\ commit_id'[recently_committed[i]] = commit_id[recently_committed[i]]
  <2>1. \A u \in Txn : phase[u] = "ended" => undo'[u] = undo[u] /\ commit_id'[u] = commit_id[u]
    BY <1>6
  <2> QED
    BY <1>1, <2>1, AwaitingSame
<1>9. UNCHANGED <<start_time, current_start_timestamp, current_transaction_id>>
  BY DEF clocks
<1>10. RecentOK' /\ Begun'
  BY <1>2, <1>7, <1>8, <1>9 DEF RecentOK, Begun
<1> QED
  BY <1>4, <1>5, <1>8, <1>9, <1>10 DEF RInv

\* CommitState::CommitEntry.
LEMMA CommitEntryRows ==
  ASSUME VInv, InRange, RInv, NEW t \in Txn, CommitEntry(t)
  PROVE  RInv'
<1>0. PICK n : n = at + 1
  OBVIOUS
<1> DEFINE e == undo[t][n]
           id == commit_id[t]
           q == <<t, n>>
<1>1. /\ phase[t] = "committing" /\ at < Len(undo[t]) /\ at' = n
      /\ UNCHANGED <<phase, clocks, commit_id, transaction_lock, undo, total_rows, index, recently_committed, live>>
  BY <1>0 DEF CommitEntry
<1>2. /\ VersionsSane(vector_info, total_rows) /\ Flushed(vector_info, total_rows)
      /\ Types /\ Undos /\ Clocks /\ FlushWhole
  BY DEF VInv
<1>3. transaction_lock = t /\ t # NoTxn /\ t \in Running
  BY <1>1, <1>2, TableConstants DEF Types, Running
<1>4. at \in Nat /\ Len(undo[t]) \in Nat /\ n \in 1..Len(undo[t]) /\ n \in Nat \ {0}
      /\ total_rows \in Nat /\ id \in Nat
  <2>1. at \in 0..Len(undo[t]) /\ Len(undo[t]) \in Nat
    BY <1>2, <1>3 DEF Types, IsUndo
  <2> QED
    BY <1>0, <1>1, <1>2, <2>1 DEF Types
<1>5. /\ n \in DOMAIN undo[t]
      /\ e.kind = "append" => n = Len(undo[t]) /\ HasFlushed /\ Flush = e
  BY <1>2, <1>3, <1>4, EntryFacts
<1>6. \/ /\ e.kind = "append"
         /\ vector_info' = CommitAppend(vector_info, e.start_row, e.start_row + e.count, id)
      \/ e.kind = "delete" /\ vector_info' = CommitDelete(vector_info, e, id)
      \/ e.kind = "update" /\ vector_info' = vector_info
  BY <1>0 DEF CommitEntry
<1>7. TableSane(Table) /\ Table.vector_info = vector_info /\ Table.total_rows = total_rows /\ Table.index = index
  BY <1>2 DEF TableSane, Table, Fields
<1>8. TabOK(Table, Deletes, InProgress) /\ IndexOK(index, total_rows, BaseRow, live, AwaitingDeleted)
  BY <1>7 DEF TabOK, RInv
<1>9. InProgress' = InProgress /\ InProgress = id /\ id < current_start_timestamp
  <2>1. InProgress' = InProgress
    BY <1>1 DEF InProgress
  <2>2. InProgress = id
    BY <1>1, <1>2, TimeFacts
  <2> QED
    BY <1>1, <1>2, <2>1, <2>2 DEF Clocks
<1>10. RollbackExtent'
  BY <1>1, <1>3 DEF RollbackExtent
<1>11. ASSUME DeletesOK(vector_info', Deletes', BaseRow, id),
              RowsOK(vector_info', BaseRow, current_start_timestamp, current_transaction_id, id, live),
              ConstantsFull(vector_info', total_rows)
       PROVE  RInv'
  BY <1>1, <1>3, <1>8, <1>9, <1>10, <1>11, EntryRowsDone
<1> HIDE DEF e, id
<1>12. \A u \in Running : UndoUpTo(u)' = UndoUpTo(u)
  <2>1. \A u \in Txn : phase[u] # "rolling_back"
    BY <1>1, <1>2, <1>3 DEF Types
  <2> QED
    BY <1>1, <2>1 DEF UndoUpTo, Running
<1>13. Running' = Running
  BY <1>1 DEF Running
<1>14. /\ DOMAIN Deletes = DeleteIds /\ DOMAIN Deletes' = DeleteIds /\ DeleteIds' = DeleteIds
       /\ \A p \in DeleteIds : /\ Deletes'[p].vector = Deletes[p].vector
                               /\ Deletes'[p].slots = Deletes[p].slots
                               /\ Deletes'[p].stamp = StampOf(p)' /\ Deletes[p].stamp = StampOf(p)
                               /\ StampOf(p)' = StampOf(p) => Deletes'[p] = Deletes[p]
  <2>1. UndoUpTo(t)' = UndoUpTo(t) /\ \A u \in Running \ {t} : UndoUpTo(u)' = UndoUpTo(u)
    BY <1>3, <1>12
  <2>2. UNCHANGED undo
    BY <1>1
  <2> QED
    BY <1>2, <1>13, <2>1, <2>2, DeletesKept
<1>15. ASSUME NEW p \in DeleteIds, p # q PROVE StampOf(p)' = StampOf(p)
  <2>1. PICK u \in Txn, k \in Nat : p = <<u, k>> /\ p[1] = u /\ p[2] = k
    BY <1>2, DeleteIdPairs
  <2>2. CASE u = t
    <3>1. k # n
      BY <1>15, <2>1, <2>2
    <3>2. k <= at' <=> k <= at
      BY <1>0, <1>1, <1>4, <3>1
    <3> QED
      BY <1>1, <2>1, <3>2, Zenon DEF StampOf, clocks
  <2>3. CASE u # t
    <3>1. phase[u] # "committing"
      BY <1>2, <1>3, <2>3 DEF Types
    <3> QED
      BY <1>1, <2>1, <3>1 DEF StampOf, clocks
  <2> QED
    BY <2>2, <2>3
<1>16. ASSUME e.kind # "delete" PROVE Deletes' = Deletes
  <2>1. q \notin DeleteIds
    <3>1. q[1] = t /\ q[2] = n
      OBVIOUS
    <3> QED
      BY <1>16, <3>1 DEF DeleteIds, e
  <2>2. \A p \in DeleteIds : Deletes'[p] = Deletes[p]
    BY <1>14, <1>15, <2>1
  <2>3. Deletes = [p \in DeleteIds |-> Deletes[p]] /\ Deletes' = [p \in DeleteIds |-> Deletes'[p]]
    <3>1. Deletes = [p \in DeleteIds |-> Deletes[p]]
      BY DEF Deletes
    <3>2. Deletes' = [p \in DeleteIds' |-> Deletes'[p]]
      BY DEF Deletes
    <3> QED
      BY <1>14, <3>1, <3>2
  <2> QED
    BY <2>2, <2>3, Zenon
<1>17. CASE e.kind = "update" /\ vector_info' = vector_info
  BY <1>7, <1>8, <1>9, <1>11, <1>16, <1>17 DEF TabOK
<1>18. CASE e.kind = "delete" /\ vector_info' = CommitDelete(vector_info, e, id)
  <2>1. q \in DeleteIds
    <3>1. UndoUpTo(t) = Len(undo[t])
      BY <1>1 DEF UndoUpTo
    <3> QED
      BY <1>2, <1>3, <1>4, <1>18, <3>1, DeleteIdFacts DEF e
  <2>2. q[1] = t /\ q[2] = n
    OBVIOUS
  <2>3. StampOf(q)' = id
    <3>1. n <= at'
      BY <1>0, <1>1, <1>4
    <3>2. commit_id'[t] = id /\ phase'[t] = "committing"
      BY <1>1 DEF id
    <3> HIDE DEF q
    <3> QED
      BY <2>2, <3>1, <3>2 DEF StampOf
  <2>4. /\ Deletes[q].vector = e.vector_idx /\ Deletes[q].slots = DeletedSlots(e)
        /\ Deletes[q].stamp = StampOf(q)
    BY <2>1, <2>2, DeletesAt DEF e
  <2>5. current_start_timestamp <= Deletes[q].stamp \/ Deletes[q].stamp = id
    BY <1>2, <1>9, <2>1, <2>4, StampFacts
  <2>6. /\ \A p \in DOMAIN Deletes' \ {q} : Deletes'[p] = Deletes[p]
        /\ Deletes'[q].vector = Deletes[q].vector /\ Deletes'[q].slots = Deletes[q].slots /\ Deletes'[q].stamp = id
        /\ q \in DOMAIN Deletes /\ q \in DOMAIN Deletes'
        /\ DOMAIN Deletes' \subseteq DOMAIN Deletes /\ DOMAIN Deletes \subseteq DOMAIN Deletes' \cup {q}
    <3>1. \A p \in DeleteIds : p # q => Deletes'[p] = Deletes[p]
      BY <1>14, <1>15
    <3> HIDE DEF q
    <3>2. Deletes'[q].vector = Deletes[q].vector /\ Deletes'[q].slots = Deletes[q].slots /\ Deletes'[q].stamp = id
      BY <1>14, <2>1, <2>3
    <3>3. DOMAIN Deletes = DeleteIds /\ DOMAIN Deletes' = DeleteIds
      BY <1>14
    <3> QED
      BY <2>1, <3>1, <3>2, <3>3, Zenon
  <2> DEFINE new == CommitDelete(vector_info, e, id)
             D2 == Deletes'
  <2>7. new = CommitDelete(Table.vector_info, undo[t][n], id)
    BY <1>7 DEF e
  <2> HIDE DEF new, D2, q
  <2>8. undo[t][n].kind = "delete" /\ Deletes[q].vector = undo[t][n].vector_idx /\ Deletes[q].slots = DeletedSlots(undo[t][n])
    BY <1>18, <2>4 DEF e
  <2>9. TabOK(Table, Deletes, id)
    BY <1>8, <1>9
  <2>10. /\ \A p \in DOMAIN D2 \ {q} : D2[p] = Deletes[p]
         /\ D2[q].vector = Deletes[q].vector /\ D2[q].slots = Deletes[q].slots /\ D2[q].stamp = id
         /\ q \in DOMAIN Deletes /\ q \in DOMAIN D2
         /\ DOMAIN D2 \subseteq DOMAIN Deletes /\ DOMAIN Deletes \subseteq DOMAIN D2 \cup {q}
    BY <2>6 DEF D2
  <2>11. /\ DeletesOK(new, D2, BaseRow, id)
         /\ RowsOK(new, BaseRow, current_start_timestamp, current_transaction_id, id, live)
         /\ ConstantsFull(new, Table.total_rows)
    BY <1>2, <1>3, <1>4, <1>7, <1>9, <2>5, <2>7, <2>8, <2>9, <2>10, DeleteRestamped
  <2> QED
    BY <1>7, <1>11, <1>18, <2>11 DEF new, D2
<1>19. CASE /\ e.kind = "append"
            /\ vector_info' = CommitAppend(vector_info, e.start_row, e.start_row + e.count, id)
  <2>1. /\ HasFlushed /\ Flush = e /\ BaseRow = e.start_row /\ BaseRow \in Nat
        /\ total_rows = e.start_row + e.count
    BY <1>1, <1>2, <1>3, <1>5, <1>19, FlushFacts DEF FlushWhole
  <2> DEFINE new == CommitAppend(vector_info, BaseRow, total_rows, id)
  <2>2. vector_info' = new
    BY <1>19, <2>1
  <2>3. ASSUME NEW v \in Vector
        PROVE  /\ new[v].type = vector_info[v].type
               /\ new[v].type = "constant" => new[v].delete_id = vector_info[v].delete_id
               /\ \A i \in Slot :
                     /\ DeleteMark(new[v], i) = DeleteMark(vector_info[v], i)
                     /\ RowAt(v, i) < BaseRow => MarkAt(new[v], i) = MarkAt(vector_info[v], i)
    <3>1. Entered(vector_info[v], v, BaseRow, total_rows)
      BY <1>2 DEF Entered, Flushed, FlushedAs
    <3>2. vector_info \in [Vector -> Infos]
      BY <1>2 DEF Types
    <3>3. PICK x : x = new[v]
      OBVIOUS
    <3>4. PICK infos, from, to : infos = vector_info /\ from = BaseRow /\ to = total_rows
      OBVIOUS
    <3>5. x = CommitAppend(infos, from, to, id)[v]
      BY <3>3, <3>4
    <3>6. infos \in [Vector -> Infos] /\ from \in Nat /\ to \in Nat /\ id \in Nat /\ Entered(infos[v], v, from, to)
      BY <1>2, <1>4, <2>1, <3>1, <3>2, <3>4 DEF Types
    <3> HIDE DEF new
    <3>7. /\ x.type = infos[v].type
          /\ x.type = "constant" => x.delete_id = infos[v].delete_id
          /\ \A i \in Slot :
                /\ DeleteMark(x, i) = DeleteMark(infos[v], i)
                /\ MarkAt(x, i) \in {id, MarkAt(infos[v], i)}
                /\ RowAt(v, i) < from => MarkAt(x, i) = MarkAt(infos[v], i)
      BY <3>5, <3>6, CommittedMarks
    <3> QED
      BY <3>3, <3>4, <3>7
  <2> HIDE DEF new
  <2>4. /\ DeletesOK(vector_info, Deletes, BaseRow, id)
        /\ RowsOK(vector_info, BaseRow, current_start_timestamp, current_transaction_id, id, live)
        /\ ConstantsFull(vector_info, total_rows)
    BY <1>7, <1>8, <1>9 DEF TabOK
  <2>5. /\ DeletesOK(new, Deletes, BaseRow, id)
        /\ RowsOK(new, BaseRow, current_start_timestamp, current_transaction_id, id, live)
    BY <2>3, <2>4, MarksKept
  <2>6. ConstantsFull(new, total_rows)
    BY <2>3, <2>4 DEF ConstantsFull
  <2> QED
    BY <1>11, <1>16, <1>19, <2>2, <2>5, <2>6
<1> QED
  BY <1>6, <1>17, <1>18, <1>19 DEF e, id

\* What taking back entry e does to the deletes: q, if it is one, gets the mark id, or goes.
TakenBack(D, D2, q, e, id, c) ==
  /\ q \in DOMAIN D /\ D[q].vector = e.vector_idx /\ D[q].slots = DeletedSlots(e)
  /\ current_start_timestamp <= D[q].stamp \/ D[q].stamp = c
  /\ DOMAIN D2 \subseteq DOMAIN D /\ DOMAIN D \subseteq DOMAIN D2 \cup {q}
  /\ \A p \in DOMAIN D2 \ {q} : D2[p] = D[p]
  /\ q \in DOMAIN D2 => D2[q].vector = D[q].vector /\ D2[q].slots = D[q].slots /\ D2[q].stamp = id
  /\ id = c => q \in DOMAIN D2

\* RevertCommit or Rollback of entry n of t makes table r of tab.
TakesBack(t, n, tab, D, c, r, D2, q, id) ==
  /\ transaction_lock = t /\ n \in 1..Len(undo[t])
  /\ TableSane(tab) /\ TabOK(tab, D, c) /\ FlushExtent(tab.total_rows)
  /\ \/ r = RevertCommitEntry(tab, undo[t][n], t) /\ id = transaction_id[t]
     \/ r = RollbackEntryOf(tab, undo[t][n], t) /\ id = NOT_DELETED_ID
  /\ undo[t][n].kind = "delete" => TakenBack(D, D2, q, undo[t][n], id, c)
  /\ undo[t][n].kind # "delete" => D2 = D

\* It keeps the rows.
LEMMA EntryTaken ==
  ASSUME Types, Clocks, Undos, InRange, NEW t \in Txn, NEW n, NEW tab, NEW D, NEW c, NEW id, NEW r,
         NEW D2, NEW q, TakesBack(t, n, tab, D, c, r, D2, q, id)
  PROVE  /\ TabOK(r, D2, c)
         /\ undo[t][n].kind = "append" => HasFlushed /\ r.total_rows = BaseRow
         /\ undo[t][n].kind # "append" => r.total_rows = tab.total_rows
<1>0. /\ transaction_lock = t /\ n \in 1..Len(undo[t])
      /\ TableSane(tab) /\ TabOK(tab, D, c) /\ FlushExtent(tab.total_rows)
      /\ \/ r = RevertCommitEntry(tab, undo[t][n], t) /\ id = transaction_id[t]
         \/ r = RollbackEntryOf(tab, undo[t][n], t) /\ id = NOT_DELETED_ID
      /\ undo[t][n].kind = "delete" => TakenBack(D, D2, q, undo[t][n], id, c)
      /\ undo[t][n].kind # "delete" => D2 = D
  BY DEF TakesBack
<1> USE <1>0
<1> DEFINE e == undo[t][n]
           infos == tab.vector_info
<1>1. t \in Running /\ t # NoTxn
  BY TableConstants DEF Types, Running
<1>2. /\ n \in DOMAIN undo[t]
      /\ e.kind = "append" => n = Len(undo[t]) /\ HasFlushed /\ Flush = e
  BY EntryFacts
<1>3. e.kind \in {"append", "delete", "update"}
  BY <1>2 DEF Undos
<1>4. CASE e.kind = "append"
  <2>1. r = RevertAppendEntry(tab, e) /\ D2 = D
    BY <1>4 DEF RevertCommitEntry, RollbackEntryOf
  <2>2. HasFlushed /\ r = RevertAppendEntry(tab, Flush)
    BY <1>2, <1>4, <2>1
  <2> QED
    BY <1>4, <2>1, <2>2, AppendTaken
<1>5. CASE e.kind = "delete"
  <2>1. r = [tab EXCEPT !.vector_info = CommitDelete(infos, e, id)]
    BY <1>5 DEF RevertCommitEntry, RollbackEntryOf
  <2> DEFINE d == CommitDelete(infos, e, id)
  <2>2. d = CommitDelete(tab.vector_info, undo[t][n], id)
    OBVIOUS
  <2> HIDE DEF d
  <2>3. r.total_rows = tab.total_rows /\ r.vector_info = d /\ r.index = tab.index
    BY <2>1 DEF TableSane, Fields, d
  <2>4. /\ id \in Nat /\ current_start_timestamp <= id
        /\ id \in TRANSACTION_ID_START..current_transaction_id - 1 \/ id = NOT_DELETED_ID
    BY <1>1, TimeFacts
  <2>5. TakenBack(D, D2, q, undo[t][n], id, c)
    BY <1>5
  <2>6. /\ q \in DOMAIN D /\ D[q].vector = undo[t][n].vector_idx /\ D[q].slots = DeletedSlots(undo[t][n])
        /\ current_start_timestamp <= D[q].stamp \/ D[q].stamp = c
        /\ DOMAIN D2 \subseteq DOMAIN D /\ DOMAIN D \subseteq DOMAIN D2 \cup {q}
        /\ \A p \in DOMAIN D2 \ {q} : D2[p] = D[p]
        /\ q \in DOMAIN D2 => D2[q].vector = D[q].vector /\ D2[q].slots = D[q].slots /\ D2[q].stamp = id
        /\ id = c => q \in DOMAIN D2
    BY <2>5 DEF TakenBack
  <2>7. /\ DeletesOK(d, D2, BaseRow, c)
        /\ RowsOK(d, BaseRow, current_start_timestamp, current_transaction_id, c, live)
        /\ ConstantsFull(d, tab.total_rows)
    <3>1. undo[t][n].kind = "delete"
      BY <1>5
    <3> HIDE DEF e, infos
    <3> QED
      BY <2>2, <2>4, <2>6, <3>1, DeleteRestamped
  <2> QED
    BY <1>5, <2>3, <2>7 DEF TabOK
<1>6. CASE e.kind = "update"
  <2>1. \/ r = [tab EXCEPT !.updates[e.vector_idx] = SetVersion(@, t, transaction_id[t])]
        \/ r = [tab EXCEPT !.updates[e.vector_idx] = RollbackUpdate(@, t)]
    BY <1>6 DEF RevertCommitEntry, RollbackEntryOf
  <2>2. r.total_rows = tab.total_rows /\ r.vector_info = infos /\ r.index = tab.index /\ D2 = D
    BY <1>6, <2>1 DEF TableSane, Fields
  <2> QED
    BY <1>6, <2>2 DEF TabOK
<1> QED
  BY <1>3, <1>4, <1>5, <1>6

\* Once no delete has the mark of the commit in progress, no row has.
LEMMA CommitGone ==
  ASSUME NEW infos, NEW D, NEW base, NEW L, NEW clock \in Nat, NEW ids \in Nat, NEW c,
         ids <= NOT_DELETED_ID, clock <= TRANSACTION_ID_START,
         DeletesOK(infos, D, base, c), RowsOK(infos, base, clock, ids, c, L),
         \A p \in DOMAIN D : D[p].stamp # c
  PROVE  /\ DeletesOK(infos, D, base, NOT_DELETED_ID + 1)
         /\ RowsOK(infos, base, clock, ids, NOT_DELETED_ID + 1, L)
<1>0. NOT_DELETED_ID \in Nat /\ TRANSACTION_ID_START \in Nat /\ TRANSACTION_ID_START < NOT_DELETED_ID
  BY VersionConstants
<1>1. ASSUME NEW v \in Vector, NEW i \in Slot
      PROVE  DeleteMark(infos[v], i) # c /\ DeleteMark(infos[v], i) # NOT_DELETED_ID + 1
  <2>1. DeleteMark(infos[v], i) \in (0..clock - 1) \cup (TRANSACTION_ID_START..ids - 1) \cup {NOT_DELETED_ID}
    BY DEF RowsOK
  <2>2. DeleteMark(infos[v], i) # NOT_DELETED_ID + 1
    BY <1>0, <2>1
  <2>3. ASSUME DeleteMark(infos[v], i) = c PROVE FALSE
    <3>1. PICK p \in DOMAIN D : D[p].vector = v /\ i \in D[p].slots
      BY <2>3 DEF DeletesOK
    <3>2. DeleteMark(infos[D[p].vector], i) = D[p].stamp
      BY <3>1 DEF DeletesOK
    <3> QED
      BY <2>3, <3>1, <3>2
  <2> QED
    BY <2>2, <2>3
<1>2. DeletesOK(infos, D, base, NOT_DELETED_ID + 1)
  BY <1>1 DEF DeletesOK
<1>3. RowsOK(infos, base, clock, ids, NOT_DELETED_ID + 1, L)
  BY <1>1 DEF RowsOK
<1> QED
  BY <1>2, <1>3

\* The deletes after RevertCommit has gone through n entries of t.
RevertedDeletes(t, n) ==
  [p \in DeleteIds |-> [vector |-> Deletes[p].vector, slots |-> Deletes[p].slots,
                        stamp |-> IF p[1] = t /\ p[2] <= n THEN transaction_id[t] ELSE Deletes[p].stamp]]

\* Going through one more entry gives its rows the mark of the transaction again.
LEMMA RevertedDelete ==
  ASSUME Types, Clocks, InRange, NEW t \in Txn, phase[t] = "committing", transaction_lock = t,
         NEW k \in Nat, NEW j, j = k + 1, j \in 1..Len(undo[t]), NEW q, q = <<t, j>>
  PROVE  /\ undo[t][j].kind = "delete" =>
              TakenBack(RevertedDeletes(t, k), RevertedDeletes(t, j), q, undo[t][j], transaction_id[t], InProgress)
         /\ undo[t][j].kind # "delete" => RevertedDeletes(t, j) = RevertedDeletes(t, k)
<1> DEFINE D  == RevertedDeletes(t, k)
           D2 == RevertedDeletes(t, j)
           S(p, n) == IF p[1] = t /\ p[2] <= n THEN transaction_id[t] ELSE Deletes[p].stamp
<1>1. t \in Running /\ UndoUpTo(t) = Len(undo[t])
  BY DEF Running, UndoUpTo
<1>2. q \in DeleteIds <=> undo[t][j].kind = "delete"
  BY <1>1, DeleteIdFacts
<1>q. q[1] = t /\ q[2] = j
  OBVIOUS
<1>3. ASSUME NEW p \in DeleteIds, p # q PROVE p[1] = t /\ p[2] <= j <=> p[1] = t /\ p[2] <= k
  <2>1. PICK u \in Txn, n \in Nat : p = <<u, n>> /\ p[1] = u /\ p[2] = n
    BY DeleteIdPairs
  <2>2. u = t => n # j
    BY <1>3, <2>1
  <2> QED
    BY <2>1, <2>2
<1>4. \A p \in DeleteIds : /\ D[p] = [vector |-> Deletes[p].vector, slots |-> Deletes[p].slots, stamp |-> S(p, k)]
                           /\ D2[p] = [vector |-> Deletes[p].vector, slots |-> Deletes[p].slots, stamp |-> S(p, j)]
  BY DEF RevertedDeletes
<1>5. DOMAIN D = DeleteIds /\ DOMAIN D2 = DeleteIds
  BY DEF RevertedDeletes
<1>6. \A p \in DeleteIds : p # q => S(p, j) = S(p, k)
  BY <1>3
<1>7. ~ (j <= k) /\ j <= j
  OBVIOUS
<1>8. S(q, k) = Deletes[q].stamp /\ S(q, j) = transaction_id[t]
  BY <1>q, <1>7
<1>d. D = [p \in DeleteIds |-> D[p]] /\ D2 = [p \in DeleteIds |-> D2[p]]
  BY DEF RevertedDeletes
<1>f. ASSUME NEW p \in DeleteIds
      PROVE  /\ D[p].vector = Deletes[p].vector /\ D[p].slots = Deletes[p].slots /\ D[p].stamp = S(p, k)
             /\ D2[p].vector = Deletes[p].vector /\ D2[p].slots = Deletes[p].slots /\ D2[p].stamp = S(p, j)
  <2> DEFINE x == Deletes[p].vector
             y == Deletes[p].slots
             a == S(p, k)
             b == S(p, j)
             d == D[p]
             f == D2[p]
  <2>1. d = [vector |-> x, slots |-> y, stamp |-> a] /\ f = [vector |-> x, slots |-> y, stamp |-> b]
    BY <1>4
  <2> HIDE DEF x, y, a, b, d, f
  <2>2. /\ d.vector = x /\ d.slots = y /\ d.stamp = a /\ f.vector = x /\ f.slots = y /\ f.stamp = b
    BY <2>1
  <2> QED
    BY <2>2 DEF x, y, a, b, d, f
<1> HIDE DEF D, D2, S
<1>9. \A p \in DeleteIds : p # q => D2[p] = D[p]
  BY <1>4, <1>6
<1>10. ASSUME undo[t][j].kind # "delete" PROVE D2 = D
  <2>1. \A p \in DeleteIds : D2[p] = D[p]
    BY <1>2, <1>9, <1>10
  <2> QED
    BY <1>d, <2>1, Zenon
<1>11. ASSUME undo[t][j].kind = "delete" PROVE TakenBack(D, D2, q, undo[t][j], transaction_id[t], InProgress)
  <2>1. q \in DeleteIds
    BY <1>2, <1>11
  <2>2. /\ Deletes[q].vector = undo[t][j].vector_idx /\ Deletes[q].slots = DeletedSlots(undo[t][j])
        /\ Deletes[q].stamp = StampOf(q)
    BY <1>q, <2>1, DeletesAt
  <2>3. current_start_timestamp <= StampOf(q) \/ StampOf(q) = InProgress
    BY <2>1, StampFacts
  <2>4. D[q].vector = Deletes[q].vector /\ D[q].slots = Deletes[q].slots /\ D[q].stamp = Deletes[q].stamp
    BY <1>f, <1>8, <2>1, Zenon
  <2>5. D2[q].vector = Deletes[q].vector /\ D2[q].slots = Deletes[q].slots /\ D2[q].stamp = transaction_id[t]
    BY <1>f, <1>8, <2>1, Zenon
  <2> QED
    BY <1>5, <1>9, <2>1, <2>2, <2>3, <2>4, <2>5 DEF TakenBack
<1> QED
  BY <1>10, <1>11 DEF D, D2

\* CommitState::RevertCommit takes the marks of the commit back.
LEMMA CommitFailsRows ==
  ASSUME VInv, InRange, RInv, NEW t \in Txn, CommitFails(t)
  PROVE  RInv'
<1> DEFINE len == Len(undo[t])
           D(n) == RevertedDeletes(t, n)
           c == InProgress
<1>1. /\ phase[t] = "committing" /\ at' = len
      /\ phase' = [phase EXCEPT ![t] = "rolling_back"] /\ commit_id' = [commit_id EXCEPT ![t] = 0]
      /\ UNCHANGED <<clocks, transaction_lock, undo, recently_committed, live>>
  BY DEF CommitFails
<1>2. PICK w, m : Reverted(w, m, t)
  BY CommitReverted
<1>3. /\ Types /\ Undos /\ Clocks /\ VersionsSane(vector_info, total_rows) /\ Flushed(vector_info, total_rows)
  BY DEF VInv
<1>4. transaction_lock = t /\ t # NoTxn /\ t \in Running
  BY <1>1, <1>3, TableConstants DEF Types, Running
<1>5. /\ at \in 0..len /\ len \in Nat /\ m \in 1..len /\ m \in 0..len
      /\ (IF at = len THEN m = len ELSE m = at + 1)
  <2>1. at \in 0..len /\ len \in Nat
    BY <1>3, <1>4 DEF Types, IsUndo
  <2>2. m \in 1..len /\ (IF at = len THEN m = len ELSE m = at + 1)
    BY <1>2 DEF Reverted
  <2> QED
    BY <2>1, <2>2
<1>6. /\ w[0] = Table /\ \A n \in 1..len : w[n] = RevertCommitEntry(w[n - 1], undo[t][n], t)
      /\ \A n \in 0..len : /\ TableSane(w[n]) /\ w[n].total_rows \in {total_rows, BaseRow}
                           /\ HasFlushed \/ w[n].total_rows = total_rows
  <2>1. w[0] = Table /\ \A n \in 1..len : w[n] = RevertCommitEntry(w[n - 1], undo[t][n], t)
    BY <1>2, Zenon DEF Reverted
  <2>2. \A n \in 0..len : /\ TableSane(w[n])
                          /\ n < len \/ ~ HasFlushed => w[n].total_rows = total_rows
                          /\ n = len /\ HasFlushed => w[n].total_rows = BaseRow
    BY <1>2, Zenon DEF Reverted
  <2>3. \A n \in 0..len : n < len \/ n = len
    BY <1>5
  <2> HIDE DEF len
  <2> QED
    BY <2>1, <2>2, <2>3
<1>7. FlushExtent(total_rows) /\ FlushExtent(BaseRow)
  BY DEF RInv, FlushExtent, BaseRow
<1>8. \A n \in 0..len : FlushExtent(w[n].total_rows)
  BY <1>6, <1>7
<1>9. TabOK(Table, Deletes, c)
  <2>1. Table.vector_info = vector_info /\ Table.total_rows = total_rows /\ Table.index = index
    BY DEF Table
  <2> QED
    BY <2>1 DEF TabOK, RInv
<1>10. D(0) = Deletes
  <2>1. \A p \in DeleteIds : ~ (p[2] <= 0)
    <3> SUFFICES ASSUME NEW p \in DeleteIds PROVE ~ (p[2] <= 0)
      OBVIOUS
    <3>1. PICK u \in Txn, n \in Nat : p = <<u, n>> /\ p[2] = n /\ n \in 1..UndoUpTo(u) /\ u \in Running
      BY <1>3, DeleteIdPairs
    <3>2. UndoUpTo(u) \in 0..Len(undo[u]) /\ Len(undo[u]) \in Nat
      BY <1>3, <3>1, DeleteIdFacts
    <3> QED
      BY <3>1, <3>2
  <2>2. D(0) = [p \in DeleteIds |-> [vector |-> Deletes[p].vector, slots |-> Deletes[p].slots,
                                     stamp |-> Deletes[p].stamp]]
    BY <2>1 DEF RevertedDeletes
  <2>3. \A p \in DeleteIds : Deletes[p] = [vector |-> Deletes[p].vector, slots |-> Deletes[p].slots,
                                          stamp |-> Deletes[p].stamp]
    BY DEF Deletes
  <2>4. Deletes = [p \in DeleteIds |-> Deletes[p]]
    BY DEF Deletes
  <2> QED
    BY <2>2, <2>3, <2>4, Zenon
<1> DEFINE Good == {n \in 0..len : TabOK(w[n], D(n), c)}
<1>11. 0 \in Good
  BY <1>5, <1>6, <1>9, <1>10
<1>12. ASSUME NEW k \in 0..len - 1, k \in Good PROVE k + 1 \in Good
  <2>0. PICK j : j = k + 1
    OBVIOUS
  <2>1. j \in 1..len /\ j - 1 = k /\ j \in 0..len /\ k \in Nat /\ k \in 0..len
    BY <1>5, <2>0
  <2> DEFINE tab == w[k]
             r == w[j]
             q == <<t, j>>
             E == D(k)
             F == D(j)
  <2>2. r = RevertCommitEntry(tab, undo[t][j], t)
    BY <1>6, <2>1
  <2>3. TableSane(tab) /\ FlushExtent(tab.total_rows) /\ TabOK(tab, E, c)
    BY <1>6, <1>8, <1>12, <2>1
  <2>4. /\ undo[t][j].kind = "delete" => TakenBack(E, F, q, undo[t][j], transaction_id[t], c)
        /\ undo[t][j].kind # "delete" => F = E
    BY <1>1, <1>3, <1>4, <2>0, <2>1, RevertedDelete
  <2> HIDE DEF tab, r, q, E, F, c
  <2>t. TakesBack(t, j, tab, E, c, r, F, q, transaction_id[t])
    BY <1>4, <2>1, <2>2, <2>3, <2>4 DEF TakesBack
  <2>5. TabOK(r, F, c)
    BY <1>3, <2>t, EntryTaken
  <2> QED
    BY <2>0, <2>1, <2>5 DEF r, F
<1> HIDE DEF Good
<1>13. \A k \in 0..len : k \in Good
  BY <1>5, <1>11, <1>12, CountingUp
<1>14. TabOK(w[m], D(m), c)
  BY <1>5, <1>13 DEF Good
<1>15. Running' = Running /\ (\A u \in Running : UndoUpTo(u)' = UndoUpTo(u)) /\ phase'[t] = "rolling_back"
       /\ \A u \in Txn : u # t => phase[u] \notin {"committing", "rolling_back"} /\ phase'[u] = phase[u]
  <2>1. phase'[t] = "rolling_back" /\ \A u \in Txn : u # t => phase'[u] = phase[u]
    BY <1>1, <1>3 DEF Types
  <2>2. Running' = Running
    BY <1>1, <2>1 DEF Running
  <2>3. \A u \in Txn : u # t => phase[u] \notin {"committing", "rolling_back"}
    BY <1>3, <1>4 DEF Types
  <2>4. \A u \in Running : UndoUpTo(u)' = UndoUpTo(u)
    BY <1>1, <2>1, <2>3 DEF Running, UndoUpTo
  <2> QED
    BY <2>1, <2>2, <2>3, <2>4
<1>16. ASSUME NEW p \in DeleteIds PROVE StampOf(p)' = D(m)[p].stamp /\ StampOf(p)' = transaction_id[p[1]]
  <2>1. PICK u \in Txn, k \in Nat : p = <<u, k>> /\ p[1] = u /\ p[2] = k
    BY <1>3, DeleteIdPairs
  <2>2. D(m)[p].stamp = IF u = t /\ k <= m THEN transaction_id[t] ELSE StampOf(p)
    BY <2>1, DeletesAt DEF RevertedDeletes
  <2>3. StampOf(p)' = transaction_id[u]
    <3>1. phase'[u] # "committing"
      BY <1>15
    <3> QED
      BY <1>1, <2>1, <3>1 DEF StampOf, clocks
  <2>4. ASSUME ~ (u = t /\ k <= m) PROVE StampOf(p) = transaction_id[u]
    <3>1. ~ (phase[u] = "committing" /\ k <= at)
      <4>1. u = t => ~ (k <= at)
        BY <1>5, <2>4
      <4> QED
        BY <1>15, <4>1
    <3> QED
      BY <2>1, <3>1 DEF StampOf
  <2> QED
    BY <2>1, <2>2, <2>3, <2>4
<1>17. Deletes' = D(m)
  <2>1. PICK n : n = len
    OBVIOUS
  <2>2. /\ DOMAIN Deletes' = DeleteIds /\ DeleteIds' = DeleteIds
        /\ \A p \in DeleteIds : /\ Deletes'[p].vector = Deletes[p].vector
                                /\ Deletes'[p].slots = Deletes[p].slots
                                /\ Deletes'[p].stamp = StampOf(p)'
    <3>1. UndoUpTo(t)' = UndoUpTo(t) /\ (\A u \in Running \ {t} : UndoUpTo(u)' = UndoUpTo(u)) /\ UNCHANGED undo
      BY <1>1, <1>4, <1>15
    <3> QED
      BY <1>3, <1>15, <3>1, DeletesKept
  <2>3. \A p \in DeleteIds' : Deletes'[p] = [vector |-> Deletes'[p].vector, slots |-> Deletes'[p].slots,
                                             stamp |-> Deletes'[p].stamp]
    BY DEF Deletes
  <2>4. Deletes' = [p \in DeleteIds' |-> Deletes'[p]]
    BY DEF Deletes
  <2>5. D(m) = [p \in DeleteIds |-> D(m)[p]] /\
        \A p \in DeleteIds : D(m)[p] = [vector |-> Deletes[p].vector, slots |-> Deletes[p].slots, stamp |-> D(m)[p].stamp]
    BY DEF RevertedDeletes
  <2> HIDE DEF D
  <2>6. \A p \in DeleteIds : Deletes'[p] = D(m)[p]
    BY <1>16, <2>2, <2>3, <2>5
  <2> QED
    BY <2>2, <2>4, <2>5, <2>6, Zenon
<1>18. InProgress' = NOT_DELETED_ID + 1
  <2>1. \A u \in Txn : phase'[u] # "committing"
    BY <1>15
  <2> QED
    BY <2>1 DEF InProgress
<1>19. \A p \in DOMAIN D(m) : D(m)[p].stamp # c
  <2>1. DOMAIN D(m) = DeleteIds
    BY DEF RevertedDeletes
  <2>2. ASSUME NEW p \in DeleteIds PROVE transaction_id[p[1]] # c
    <3>1. PICK u \in Txn, k \in Nat : p = <<u, k>> /\ p[1] = u /\ u \in Running
      BY <1>3, DeleteIdPairs
    <3> QED
      BY <1>3, <3>1, TimeFacts
  <2> QED
    BY <1>16, <2>1, <2>2
<1> DEFINE r == w[m]
<1>20. total_rows' = r.total_rows /\ vector_info' = r.vector_info /\ index' = r.index
  BY <1>2, Zenon DEF Reverted, TableBecomes
<1>21. /\ current_start_timestamp \in Nat /\ current_transaction_id \in Nat
       /\ current_transaction_id <= NOT_DELETED_ID /\ current_start_timestamp <= TRANSACTION_ID_START
  BY <1>3 DEF Types, InRange
<1>22. r.total_rows \in {total_rows, BaseRow} /\ (HasFlushed \/ r.total_rows = total_rows)
  BY <1>5, <1>6
<1> HIDE DEF r, D, c
<1>23. /\ DeletesOK(r.vector_info, D(m), BaseRow, c)
       /\ RowsOK(r.vector_info, BaseRow, current_start_timestamp, current_transaction_id, c, live)
       /\ ConstantsFull(r.vector_info, r.total_rows)
       /\ IndexOK(r.index, r.total_rows, BaseRow, live, AwaitingDeleted)
  BY <1>14 DEF TabOK, r
<1>24. /\ DeletesOK(r.vector_info, D(m), BaseRow, NOT_DELETED_ID + 1)
       /\ RowsOK(r.vector_info, BaseRow, current_start_timestamp, current_transaction_id, NOT_DELETED_ID + 1, live)
  BY <1>19, <1>21, <1>23, CommitGone
<1>25. RollbackExtent'
  <2>1. at' = Len(undo'[t]) /\ transaction_lock' = t /\ Len(undo'[t]) \in Nat
    BY <1>1, <1>4, <1>5
  <2>2. ~ (at' < Len(undo'[t]))
    BY <2>1
  <2> QED
    BY <2>1, <2>2 DEF RollbackExtent
<1>26. \A u \in Txn \ {t} : phase'[u] = phase[u] /\ commit_id'[u] = commit_id[u]
  BY <1>1, <1>3 DEF Types
<1> QED
  BY <1>1, <1>4, <1>15, <1>17, <1>18, <1>20, <1>22, <1>23, <1>24, <1>25, <1>26, EntryRowsDone

\* UndoBuffer::Rollback takes one entry back.
LEMMA RollbackEntryRows ==
  ASSUME VInv, InRange, RInv, NEW t \in Txn, RollbackEntry(t)
  PROVE  RInv'
<1>0. PICK n : n = at
  OBVIOUS
<1> DEFINE r == RollbackEntryOf(Table, undo[t][n], t)
           q == <<t, n>>
           c == InProgress
           D == Deletes
           D2 == Deletes'
<1>1. /\ phase[t] = "rolling_back" /\ at > 0 /\ at' = n - 1
      /\ total_rows' = r.total_rows /\ vector_info' = r.vector_info /\ index' = r.index
      /\ UNCHANGED <<phase, clocks, commit_id, transaction_lock, undo, recently_committed, live>>
  BY <1>0, Zenon DEF RollbackEntry, TableBecomes
<1>2. /\ VersionsSane(vector_info, total_rows) /\ Flushed(vector_info, total_rows)
      /\ Types /\ Undos /\ Clocks
  BY DEF VInv
<1>3. transaction_lock = t /\ t # NoTxn /\ t \in Running
  BY <1>1, <1>2, TableConstants DEF Types, Running
<1>4. n \in 1..Len(undo[t]) /\ n \in Nat \ {0} /\ Len(undo[t]) \in Nat
  <2>1. at \in 0..Len(undo[t]) /\ Len(undo[t]) \in Nat
    BY <1>2, <1>3 DEF Types, IsUndo
  <2> QED
    BY <1>0, <1>1, <2>1
<1>5. TableSane(Table) /\ Table.vector_info = vector_info /\ Table.total_rows = total_rows /\ Table.index = index
  BY <1>2 DEF TableSane, Table, Fields
<1>6. TabOK(Table, D, c) /\ FlushExtent(Table.total_rows)
  BY <1>5 DEF TabOK, RInv
<1>7. c = NOT_DELETED_ID + 1 /\ InProgress' = c
  <2>1. c = NOT_DELETED_ID + 1
    BY <1>1, <1>2, TimeFacts
  <2>2. InProgress' = InProgress
    BY <1>1 DEF InProgress
  <2> QED
    BY <2>1, <2>2
<1>8. /\ Running' = Running /\ UndoUpTo(t) = n /\ UndoUpTo(t)' = n - 1
      /\ \A u \in Running \ {t} : UndoUpTo(u)' = UndoUpTo(u)
      /\ \A u \in Txn : phase[u] # "committing" /\ phase'[u] # "committing"
  <2>1. \A u \in Txn : phase[u] # "committing" /\ (phase[u] = "rolling_back" => u = t)
    BY <1>1, <1>2, <1>3 DEF Types
  <2>2. Running' = Running
    BY <1>1 DEF Running
  <2>3. UndoUpTo(t) = n /\ UndoUpTo(t)' = n - 1
    BY <1>0, <1>1 DEF UndoUpTo
  <2>4. \A u \in Running \ {t} : UndoUpTo(u)' = UndoUpTo(u)
    BY <1>1, <2>1 DEF UndoUpTo, Running
  <2> QED
    BY <1>1, <2>1, <2>2, <2>3, <2>4
<1>q. q[1] = t /\ q[2] = n
  OBVIOUS
<1>9. /\ DOMAIN D = DeleteIds /\ DOMAIN D2 = DeleteIds' /\ DeleteIds' = DeleteIds \ {q}
      /\ \A p \in DeleteIds' : p \in DeleteIds /\ (StampOf(p)' = StampOf(p) => D2[p] = D[p])
  <2>1. UNCHANGED undo
    BY <1>1
  <2> QED
    BY <1>2, <1>4, <1>8, <2>1, DeletesKept
<1>10. \A p \in DeleteIds' : D2[p] = D[p]
  <2> SUFFICES ASSUME NEW p \in DeleteIds' PROVE StampOf(p)' = StampOf(p)
    BY <1>9
  <2>1. PICK u \in Txn, k \in Nat : p = <<u, k>> /\ p[1] = u
    BY <1>2, <1>9, DeleteIdPairs
  <2>2. phase[u] # "committing" /\ phase'[u] # "committing" /\ transaction_id'[u] = transaction_id[u]
    BY <1>1, <1>8 DEF clocks
  <2> QED
    BY <2>1, <2>2 DEF StampOf
<1>11. q \in DeleteIds <=> undo[t][n].kind = "delete"
  BY <1>2, <1>3, <1>4, <1>8, DeleteIdFacts
<1>12. ASSUME undo[t][n].kind # "delete" PROVE D2 = D
  <2>1. DeleteIds' = DeleteIds
    BY <1>9, <1>11, <1>12
  <2>2. D = [p \in DeleteIds |-> D[p]] /\ D2 = [p \in DeleteIds' |-> D2[p]]
    <3>1. D = [p \in DeleteIds |-> D[p]]
      BY DEF Deletes
    <3>2. D2 = [p \in DeleteIds' |-> D2[p]]
      BY DEF Deletes
    <3> QED
      BY <3>1, <3>2
  <2> QED
    BY <1>10, <2>1, <2>2, Zenon
<1>13. ASSUME undo[t][n].kind = "delete" PROVE TakenBack(D, D2, q, undo[t][n], NOT_DELETED_ID, c)
  <2>1. q \in DeleteIds
    BY <1>11, <1>13
  <2>2. /\ Deletes[q].vector = undo[t][n].vector_idx /\ Deletes[q].slots = DeletedSlots(undo[t][n])
        /\ Deletes[q].stamp = StampOf(q)
    BY <1>q, <2>1, DeletesAt
  <2>3. current_start_timestamp <= StampOf(q) \/ StampOf(q) = c
    BY <1>2, <2>1, StampFacts
  <2>4. NOT_DELETED_ID # c
    BY <1>7, VersionConstants
  <2> HIDE DEF q, c
  <2> QED
    BY <1>9, <1>10, <2>1, <2>2, <2>3, <2>4 DEF TakenBack
<1> HIDE DEF q, D, D2, c
<1>14. /\ TabOK(r, D2, c)
       /\ undo[t][n].kind = "append" => HasFlushed /\ r.total_rows = BaseRow
       /\ undo[t][n].kind # "append" => r.total_rows = total_rows
  <2>1. PICK s : s = r
    OBVIOUS
  <2> HIDE DEF r
  <2>2. s = RollbackEntryOf(Table, undo[t][n], t)
    BY <2>1 DEF r
  <2>3. /\ TabOK(s, D2, c)
        /\ undo[t][n].kind = "append" => HasFlushed /\ s.total_rows = BaseRow
        /\ undo[t][n].kind # "append" => s.total_rows = Table.total_rows
    <3>1. /\ undo[t][n].kind = "delete" => TakenBack(D, D2, q, undo[t][n], NOT_DELETED_ID, c)
          /\ undo[t][n].kind # "delete" => D2 = D
      BY <1>12, <1>13
    <3>2. TakesBack(t, n, Table, D, c, s, D2, q, NOT_DELETED_ID)
      BY <1>3, <1>4, <1>5, <1>6, <2>2, <3>1 DEF TakesBack
    <3> QED
      BY <1>2, <3>2, EntryTaken
  <2> QED
    BY <1>5, <2>1, <2>3
<1> HIDE DEF r
<1>15. RollbackExtent'
  <2> SUFFICES ASSUME HasFlushed' PROVE total_rows' = BaseRow'
    BY DEF RollbackExtent
  <2>1. HasFlushed /\ BaseRow' = BaseRow
    BY <1>1 DEF HasFlushed, BaseRow, Flush
  <2>2. CASE undo[t][n].kind = "append"
    BY <1>1, <1>14, <2>1, <2>2
  <2>3. CASE undo[t][n].kind # "append"
    <3>1. n # Len(undo[t])
      BY <1>2, <1>3, <1>4, <2>1, <2>3, EntryFacts
    <3>2. at < Len(undo[t])
      BY <1>0, <1>4, <3>1
    <3>3. total_rows = BaseRow
      BY <1>1, <1>3, <2>1, <3>2 DEF RInv, RollbackExtent
    <3> QED
      BY <1>1, <1>14, <2>1, <2>3, <3>3
  <2> QED
    BY <2>2, <2>3
<1>16. /\ total_rows' \in {total_rows, BaseRow} /\ (HasFlushed \/ total_rows' = total_rows)
       /\ DeletesOK(vector_info', Deletes', BaseRow, InProgress')
       /\ RowsOK(vector_info', BaseRow, current_start_timestamp, current_transaction_id, InProgress', live)
       /\ ConstantsFull(vector_info', total_rows')
       /\ IndexOK(index', total_rows', BaseRow, live, AwaitingDeleted)
  BY <1>1, <1>7, <1>14 DEF TabOK, D2
<1>17. /\ \A u \in Txn \ {t} : phase'[u] = phase[u] /\ commit_id'[u] = commit_id[u]
       /\ phase'[t] \in {"committing", "rolling_back"}
       /\ UNCHANGED <<clocks, transaction_lock, undo, recently_committed, live>>
  BY <1>1
<1> QED
  BY <1>3, <1>15, <1>16, <1>17, EntryRowsDone
-----------------------------------------------------------------------------
(* The end of a commit or rollback, and the cleanup.                       *)

\* No two places are the same row.
LEMMA RowAtOnce ==
  ASSUME NEW v \in Vector, NEW w \in Vector, NEW i \in Slot, NEW j \in Slot, RowAt(v, i) = RowAt(w, j)
  PROVE  v = w /\ i = j
<1> DEFINE S == STANDARD_VECTOR_SIZE
<1>1. S \in Nat \ {0} /\ v \in Nat /\ w \in Nat /\ i \in 0..S - 1 /\ j \in 0..S - 1 /\ v * S + i = w * S + j
  BY VersionConstants DEF Vector, Slot, RowAt
<1> HIDE DEF S
<1>2. ASSUME NEW a \in Nat, NEW b \in Nat, NEW x \in 0..S - 1, NEW y \in 0..S - 1, a * S + x = b * S + y, a < b
      PROVE  FALSE
  <2>1. b - a - 1 \in Nat /\ (b - a - 1) * S \in Nat
    BY <1>1, <1>2
  <2>2. b * S = a * S + S + (b - a - 1) * S
    BY <1>1, <1>2
  <2>3. a * S \in Nat /\ b * S \in Nat
    BY <1>1
  <2> QED
    BY <1>1, <1>2, <2>1, <2>2, <2>3
<1>3. ~ (v < w) /\ ~ (w < v)
  BY <1>1, <1>2
<1>4. v = w
  BY <1>1, <1>3
<1>5. w * S \in Nat
  BY <1>1
<1> QED
  BY <1>1, <1>4, <1>5

\* A commit or a rollback is over: the rows in del are deleted with it, and those from
\* base on are in the table.
Settling(infos, D, base, clock, ids, c, L, total, del, D2) ==
  /\ DeletesOK(infos, D, base, c) /\ RowsOK(infos, base, clock, ids, c, L)
  /\ base \in Nat /\ total \in Nat /\ base <= total
  /\ clock \in Nat /\ ids \in Nat /\ clock <= TRANSACTION_ID_START /\ ids <= NOT_DELETED_ID
  /\ c \in Nat /\ (c < clock \/ c = NOT_DELETED_ID + 1)
  /\ \A v \in Vector, i \in Slot :
        /\ RowAt(v, i) < base => (RowAt(v, i) \in del <=> DeleteMark(infos[v], i) = c)
        /\ RowAt(v, i) \in base..total - 1 => MarkAt(infos[v], i) < clock
  /\ del \subseteq 0..base - 1
  /\ DOMAIN D2 \subseteq DOMAIN D /\ \A p \in DOMAIN D2 : D2[p] = D[p]

\* The rows and the deletes that remain satisfy the invariant without a commit in progress.
LEMMA RowsSettled ==
  ASSUME NEW infos, NEW D, NEW base, NEW clock, NEW ids, NEW c, NEW L, NEW total, NEW del, NEW D2,
         Settling(infos, D, base, clock, ids, c, L, total, del, D2)
  PROVE  /\ DeletesOK(infos, D2, total, NOT_DELETED_ID + 1)
         /\ RowsOK(infos, total, clock, ids, NOT_DELETED_ID + 1, (L \cup (base..total - 1)) \ del)
<1> USE DEF Settling
<1> DEFINE L2 == (L \cup (base..total - 1)) \ del
<1>0. NOT_DELETED_ID \in Nat /\ TRANSACTION_ID_START \in Nat /\ TRANSACTION_ID_START < NOT_DELETED_ID
  BY VersionConstants
<1>1. /\ \A p \in DOMAIN D : /\ D[p].vector \in Vector /\ D[p].slots \subseteq Slot
                             /\ \A i \in D[p].slots : /\ RowAt(D[p].vector, i) < base
                                                      /\ DeleteMark(infos[D[p].vector], i) = D[p].stamp
      /\ \A p, q \in DOMAIN D : p # q /\ D[p].vector = D[q].vector => D[p].slots \cap D[q].slots = {}
      /\ \A v \in Vector, i \in Slot : RowAt(v, i) >= base => DeleteMark(infos[v], i) = NOT_DELETED_ID
  BY DEF DeletesOK
<1>2. ASSUME NEW v \in Vector, NEW i \in Slot
      PROVE  /\ DeleteMark(infos[v], i) \in (0..clock - 1) \cup (TRANSACTION_ID_START..ids - 1) \cup {NOT_DELETED_ID}
             /\ DeleteMark(infos[v], i) # NOT_DELETED_ID + 1
             /\ RowAt(v, i) < base =>
                   /\ MarkAt(infos[v], i) < clock
                   /\ RowAt(v, i) \in L <=> (clock <= DeleteMark(infos[v], i) \/ DeleteMark(infos[v], i) = c)
  <2>1. /\ DeleteMark(infos[v], i) \in (0..clock - 1) \cup (TRANSACTION_ID_START..ids - 1) \cup {NOT_DELETED_ID}
        /\ RowAt(v, i) < base =>
              /\ MarkAt(infos[v], i) < clock
              /\ RowAt(v, i) \in L <=> (clock <= DeleteMark(infos[v], i) \/ DeleteMark(infos[v], i) = c)
    BY DEF RowsOK
  <2>2. DeleteMark(infos[v], i) # NOT_DELETED_ID + 1
    BY <1>0, <2>1
  <2> QED
    BY <2>1, <2>2
<1>3. \A v \in Vector, i \in Slot : RowAt(v, i) \in Nat
  BY RowPlaces
<1>4. \A x \in Nat : (x < base => x < total) /\ (x >= total => x >= base)
                     /\ (x < base \/ x >= base) /\ (x >= base /\ x < total => x \in base..total - 1)
  OBVIOUS
<1>5. DeletesOK(infos, D2, total, NOT_DELETED_ID + 1)
  <2>1. ASSUME NEW p \in DOMAIN D2
        PROVE  /\ D2[p].vector \in Vector /\ D2[p].slots \subseteq Slot
               /\ \A i \in D2[p].slots : /\ RowAt(D2[p].vector, i) < total
                                         /\ DeleteMark(infos[D2[p].vector], i) = D2[p].stamp
    BY <1>1, <1>3, <1>4
  <2>2. \A p, q \in DOMAIN D2 : p # q /\ D2[p].vector = D2[q].vector => D2[p].slots \cap D2[q].slots = {}
    BY <1>1
  <2>3. \A v \in Vector, i \in Slot : RowAt(v, i) >= total => DeleteMark(infos[v], i) = NOT_DELETED_ID
    BY <1>1, <1>3, <1>4
  <2> QED
    BY <1>2, <2>1, <2>2, <2>3 DEF DeletesOK
<1>6. ASSUME NEW v \in Vector, NEW i \in Slot, RowAt(v, i) < total
      PROVE  /\ MarkAt(infos[v], i) < clock
             /\ RowAt(v, i) \in L2 <=>
                  (clock <= DeleteMark(infos[v], i) \/ DeleteMark(infos[v], i) = NOT_DELETED_ID + 1)
  <2> DEFINE x == RowAt(v, i)
             d == DeleteMark(infos[v], i)
  <2>1. CASE x < base
    <3>1. x \notin base..total - 1
      BY <1>3, <2>1
    <3>2. MarkAt(infos[v], i) < clock /\ (x \in L <=> (clock <= d \/ d = c)) /\ (x \in del <=> d = c)
      BY <1>2, <2>1
    <3>3. d = c => ~ (clock <= d)
      <4>1. d # NOT_DELETED_ID + 1
        BY <1>2
      <4> HIDE DEF d
      <4> QED
        BY <4>1
    <3> QED
      BY <1>2, <3>1, <3>2, <3>3
  <2>2. CASE x >= base
    <3>1. x \in base..total - 1 /\ d = NOT_DELETED_ID
      BY <1>1, <1>3, <1>4, <1>6, <2>2
    <3>2. x \notin del
      <4>1. ~ (x \in 0..base - 1)
        BY <1>3, <2>2
      <4> QED
        BY <4>1
    <3>3. clock <= NOT_DELETED_ID
      BY <1>0
    <3> QED
      BY <3>1, <3>2, <3>3
  <2> QED
    BY <1>3, <1>4, <2>1, <2>2
<1>7. L2 \subseteq 0..total - 1
  <2>1. L \subseteq 0..base - 1
    BY DEF RowsOK
  <2> QED
    BY <2>1
<1>8. RowsOK(infos, total, clock, ids, NOT_DELETED_ID + 1, L2)
  <2> HIDE DEF L2
  <2> QED
    BY <1>2, <1>6, <1>7 DEF RowsOK
<1> QED
  BY <1>5, <1>8

\* The index after the cleanup: what is deleted is out of it, or awaits its cleanup.
LEMMA IndexSettled ==
  ASSUME NEW idx, NEW total \in Nat, NEW base \in Nat, base <= total, NEW L, NEW G, NEW del, NEW G2, NEW C,
         IndexOK(idx, total, base, L, G), L \subseteq 0..base - 1, del \subseteq L, C \cup G2 = G \cup del
  PROVE  IndexOK(idx \ C, total, total, (L \cup (base..total - 1)) \ del, G2)
<1> DEFINE L2 == (L \cup (base..total - 1)) \ del
<1>1. /\ L \cup (base..total - 1) \subseteq idx
      /\ idx \subseteq L \cup (base..total - 1) \cup G
      /\ G \cap L = {} /\ G \subseteq 0..base - 1
  BY DEF IndexOK
<1>2. (0..base - 1) \cap (base..total - 1) = {} /\ 0..base - 1 \subseteq 0..total - 1 /\ total..total - 1 = {}
  OBVIOUS
<1>3. C \subseteq G \cup del /\ G2 \subseteq G \cup del /\ \A x \in G \cup del : x \in C \/ x \in G2
  OBVIOUS
<1>4. L2 \cap (G \cup del) = {}
  BY <1>1, <1>2
<1>5. L2 \subseteq idx \ C
  BY <1>1, <1>3, <1>4
<1>6. idx \ C \subseteq L2 \cup G2
  BY <1>1, <1>3
<1>7. G2 \cap L2 = {} /\ G2 \subseteq 0..total - 1
  <2>1. del \subseteq 0..base - 1
    OBVIOUS
  <2> QED
    BY <1>1, <1>2, <1>3, <1>4, <2>1
<1> QED
  BY <1>2, <1>5, <1>6, <1>7 DEF IndexOK

\* No element comes twice.
Once(s) == \A i, j \in DOMAIN s : s[i] = s[j] => i = j

\* The two parts of a sequence.
Parts(s, n, a, b) ==
  /\ Len(a) = n /\ DOMAIN a = 1..n /\ Len(b) = Len(s) - n /\ DOMAIN b = 1..Len(s) - n
  /\ \A i \in 1..n : a[i] = s[i]
  /\ \A i \in 1..Len(s) - n : b[i] = s[n + i]

\* SubSeq cuts a sequence into its parts.
LEMMA SequenceParts ==
  ASSUME NEW S, NEW s \in Seq(S), NEW n \in 0..Len(s)
  PROVE  Parts(s, n, SubSeq(s, 1, n), SubSeq(s, n + 1, Len(s)))
<1>0. Len(s) \in Nat /\ n \in Nat /\ n <= Len(s) /\ \A i \in 1..Len(s) : s[i] \in S
  OBVIOUS
<1>1. /\ SubSeq(s, 1, n) \in Seq(S)
      /\ Len(SubSeq(s, 1, n)) = IF 1 <= n THEN n - 1 + 1 ELSE 0
      /\ \A i \in 1..n - 1 + 1 : SubSeq(s, 1, n)[i] = s[1 + i - 1]
  <2>1. \A i \in 1..n : s[i] \in S
    BY <1>0
  <2> QED
    BY <1>0, <2>1, SubSeqProperties
<1>2. /\ SubSeq(s, n + 1, Len(s)) \in Seq(S)
      /\ Len(SubSeq(s, n + 1, Len(s))) = IF n + 1 <= Len(s) THEN Len(s) - (n + 1) + 1 ELSE 0
      /\ \A i \in 1..Len(s) - (n + 1) + 1 : SubSeq(s, n + 1, Len(s))[i] = s[(n + 1) + i - 1]
  <2>1. \A i \in n + 1..Len(s) : s[i] \in S
    BY <1>0
  <2> QED
    BY <1>0, <2>1, SubSeqProperties
<1> DEFINE a == SubSeq(s, 1, n)
           b == SubSeq(s, n + 1, Len(s))
           k == Len(s)
<1> HIDE DEF a, b, k
<1>3. a \in Seq(S) /\ b \in Seq(S) /\ Len(a) = n /\ Len(b) = k - n
  BY <1>0, <1>1, <1>2 DEF a, b, k
<1>4. DOMAIN a = 1..n /\ DOMAIN b = 1..k - n
  BY <1>3
<1>5. \A i \in 1..n : a[i] = s[i]
  <2>1. \A i \in 1..n : i \in 1..n - 1 + 1 /\ 1 + i - 1 = i
    BY <1>0
  <2> QED
    BY <1>1, <2>1 DEF a
<1>6. \A i \in 1..k - n : b[i] = s[n + i]
  <2>1. \A i \in 1..k - n : i \in 1..k - (n + 1) + 1 /\ (n + 1) + i - 1 = n + i
    BY <1>0 DEF k
  <2> QED
    BY <1>2, <2>1 DEF b, k
<1> QED
  BY <1>3, <1>4, <1>5, <1>6 DEF Parts, a, b, k

\* They have its elements, and none twice.
LEMMA PartsOf ==
  ASSUME NEW S, NEW s \in Seq(S), NEW n \in 0..Len(s), NEW a, NEW b \in Seq(S), Parts(s, n, a, b)
  PROVE  /\ ToSet(a) \cup ToSet(b) = ToSet(s)
         /\ Once(s) => ToSet(a) \cap ToSet(b) = {} /\ Once(b)
         /\ n = Len(s) => b = <<>>
<1> DEFINE k == Len(s)
<1>0. k \in Nat /\ n \in Nat /\ n <= k /\ DOMAIN s = 1..k
  OBVIOUS
<1>1. /\ Len(a) = n /\ DOMAIN a = 1..n /\ Len(b) = k - n /\ DOMAIN b = 1..k - n
      /\ \A i \in 1..n : a[i] = s[i]
      /\ \A i \in 1..k - n : b[i] = s[n + i]
  BY DEF Parts
<1> HIDE DEF k
<1>2. /\ \A i \in 1..k - n : n + i \in 1..k /\ n + i \notin 1..n /\ i \in Nat
      /\ \A j \in 1..k : j \notin 1..n => j - n \in 1..k - n /\ n + (j - n) = j
      /\ \A j \in 1..n : j \in 1..k
  BY <1>0
<1>3. \A x : x \in ToSet(a) <=> \E i \in 1..n : x = s[i]
  BY <1>1 DEF ToSet
<1>4. \A x : x \in ToSet(b) <=> \E i \in 1..k - n : x = s[n + i]
  BY <1>1 DEF ToSet
<1>5. \A x : x \in ToSet(s) <=> \E i \in 1..k : x = s[i]
  BY <1>0 DEF ToSet
<1>6. ASSUME NEW x PROVE x \in ToSet(a) \cup ToSet(b) <=> x \in ToSet(s)
  <2>1. ASSUME x \in ToSet(s) PROVE x \in ToSet(a) \cup ToSet(b)
    <3>1. PICK j \in 1..k : x = s[j]
      BY <1>5, <2>1
    <3>2. CASE j \in 1..n
      BY <1>3, <3>1, <3>2
    <3>3. CASE j \notin 1..n
      <4>1. j - n \in 1..k - n /\ n + (j - n) = j
        BY <1>2, <3>3
      <4> QED
        BY <1>4, <3>1, <4>1
    <3> QED
      BY <3>2, <3>3
  <2> QED
    BY <1>2, <1>3, <1>4, <1>5, <2>1
<1>7. ASSUME Once(s) PROVE ToSet(a) \cap ToSet(b) = {} /\ Once(b)
  <2>1. ASSUME NEW i \in 1..n, NEW j \in 1..k - n, s[i] = s[n + j] PROVE FALSE
    <3>1. i \in DOMAIN s /\ n + j \in DOMAIN s /\ i # n + j
      BY <1>0, <1>2
    <3> QED
      BY <1>7, <2>1, <3>1 DEF Once
  <2>2. ToSet(a) \cap ToSet(b) = {}
    BY <1>3, <1>4, <2>1
  <2>3. ASSUME NEW i \in DOMAIN b, NEW j \in DOMAIN b, b[i] = b[j] PROVE i = j
    <3>1. i \in Nat /\ j \in Nat /\ n + i \in DOMAIN s /\ n + j \in DOMAIN s
      BY <1>0, <1>1, <1>2
    <3>2. s[n + i] = s[n + j]
      BY <1>1, <2>3
    <3>3. n + i = n + j
      BY <1>7, <3>1, <3>2 DEF Once
    <3> QED
      BY <1>0, <3>1, <3>3
  <2> QED
    BY <2>2, <2>3 DEF Once
<1>8. n = k => b = <<>>
  BY <1>0, <1>1
<1> QED
  BY <1>6, <1>7, <1>8 DEF k

\* A transaction at the end of the sequence.
LEMMA SequenceGrown ==
  ASSUME NEW S, NEW s \in Seq(S), NEW t, t \notin S, Once(s)
  PROVE  Append(s, t) \in Seq(S \cup {t}) /\ Once(Append(s, t)) /\ ToSet(Append(s, t)) = ToSet(s) \cup {t}
<1>0. PICK r : r = Append(s, t)
  OBVIOUS
<1>1. Len(s) \in Nat /\ DOMAIN s = 1..Len(s) /\ \A i \in 1..Len(s) : s[i] \in S
  OBVIOUS
<1>2. /\ r \in Seq(S \cup {t}) /\ Len(r) = Len(s) + 1 /\ r[Len(s) + 1] = t
      /\ \A i \in 1..Len(s) : r[i] = s[i]
  <2>1. s \in Seq(S \cup {t})
    OBVIOUS
  <2> QED
    BY <1>0, <2>1
<1>3. DOMAIN r = 1..Len(s) + 1
  BY <1>1, <1>2
<1>4. \A i \in 1..Len(s) + 1 : i \in 1..Len(s) \/ i = Len(s) + 1
  BY <1>1
<1>5. \A i \in 1..Len(s) : i \in 1..Len(s) + 1
  BY <1>1
<1>6. Len(s) + 1 \in 1..Len(s) + 1
  BY <1>1
<1>7. ToSet(r) = ToSet(s) \cup {t}
  BY <1>1, <1>2, <1>3, <1>4, <1>5, <1>6 DEF ToSet
<1>8. Once(r)
  BY <1>1, <1>2, <1>3, <1>4 DEF Once
<1> QED
  BY <1>0, <1>2, <1>7, <1>8

\* What RemoveTransaction does: the undo buffers of done are gone, and all others that
\* have committed await their cleanup.
Removed(t, committed, done) ==
  /\ Running' = Running \ {t} /\ (\A u \in Running \ {t} : u \notin done)
  /\ done \cup ToSet(recently_committed') = ToSet(recently_committed) \cup {t}
  /\ done \cap ToSet(recently_committed') = {}
  /\ t \notin ToSet(recently_committed) /\ (~ committed => t \in done)
  /\ undo' = [u \in Txn |-> IF u \in done THEN <<>> ELSE undo[u]]
  /\ start_time' = [u \in Txn |-> IF u \in done THEN 0 ELSE start_time[u]]
  /\ transaction_id' = [u \in Txn |-> IF u \in done THEN 0 ELSE transaction_id[u]]
  /\ index' = index \ UNION {Deleted(u) : u \in IF committed THEN done ELSE done \ {t}}
  /\ \A u \in Txn \ {t} : phase'[u] = phase[u]
  /\ transaction_lock' = NoTxn /\ phase'[t] = "ended"
  /\ UNCHANGED <<current_start_timestamp, current_transaction_id, total_rows, vector_info>>

\* RemoveTransaction does what Removed says.
LEMMA RemovedFacts ==
  ASSUME VInv, InRange, RecentOK, NEW t \in Txn, NEW committed \in BOOLEAN,
         phase[t] = IF committed THEN "committing" ELSE "rolling_back", RemoveTransaction(t, committed)
  PROVE  RecentOK' /\ \E done : Removed(t, committed, done)
<1> DEFINE store  == committed /\ Kind(t, "update") # {}
           recent == IF store THEN Append(recently_committed, t) ELSE recently_committed
           low    == LowestStart(t)
           n      == Cleanable(recent, low)
           first  == SubSeq(recent, 1, n)
           rest   == SubSeq(recent, n + 1, Len(recent))
           done   == ToSet(first) \cup (IF store THEN {} ELSE {t})
           Ended  == {u \in Txn : phase[u] = "ended"}
           Old    == Ended \cup {t}
<1>1. /\ recently_committed' = rest
      /\ phase' = [phase EXCEPT ![t] = "ended"]
      /\ transaction_lock' = NoTxn
      /\ undo' = [u \in Txn |-> IF u \in done THEN <<>> ELSE undo[u]]
      /\ start_time' = [u \in Txn |-> IF u \in done THEN 0 ELSE start_time[u]]
      /\ transaction_id' = [u \in Txn |-> IF u \in done THEN 0 ELSE transaction_id[u]]
      /\ commit_id' = [u \in Txn |-> IF u \in done THEN 0 ELSE commit_id[u]]
      /\ UNCHANGED <<current_start_timestamp, current_transaction_id, total_rows, vector_info>>
  BY Zenon DEF RemoveTransaction, Forget
<1>2. index' = index \ UNION {Deleted(u) : u \in IF committed THEN done ELSE done \ {t}}
  BY Zenon DEF RemoveTransaction, Cleanup
<1>3. /\ VersionsSane(vector_info, total_rows) /\ Types /\ Undos /\ Clocks
  BY DEF VInv
<1>4. /\ \A u \in Txn \ {t} : phase'[u] = phase[u]
      /\ phase'[t] = "ended" /\ t \notin Ended /\ t \in Running
  BY <1>1, <1>3 DEF Types, Running
<1>5. Running' = Running \ {t}
  BY <1>4 DEF Running
<1>6. recently_committed \in Seq(Ended) /\ Once(recently_committed)
      /\ \A i \in DOMAIN recently_committed : commit_id[recently_committed[i]] < current_start_timestamp
  BY <1>3 DEF Types, RecentOK, Once
<1>7. committed => commit_id[t] < current_start_timestamp
  BY <1>3 DEF Clocks
<1>8. \A u \in ToSet(recently_committed) : u \in Ended /\ commit_id[u] < current_start_timestamp
  BY <1>6 DEF ToSet
<1> HIDE DEF Ended
<1>9. /\ recent \in Seq(Old) /\ Once(recent)
      /\ ToSet(recent) = ToSet(recently_committed) \cup (IF store THEN {t} ELSE {})
  <2>1. CASE store
    <3>1. recent = Append(recently_committed, t)
      BY <2>1
    <3> HIDE DEF recent, store, Old
    <3>2. recent \in Seq(Ended \cup {t}) /\ Once(recent) /\ ToSet(recent) = ToSet(recently_committed) \cup {t}
      <4>1. PICK s, E : s = recently_committed /\ E = Ended
        OBVIOUS
      <4>2. s \in Seq(E) /\ Once(s) /\ t \notin E /\ recent = Append(s, t)
        BY <1>4, <1>6, <3>1, <4>1
      <4>3. recent \in Seq(E \cup {t}) /\ Once(recent) /\ ToSet(recent) = ToSet(s) \cup {t}
        BY <4>2, SequenceGrown
      <4> QED
        BY <4>1, <4>3
    <3> QED
      BY <2>1, <3>2 DEF Old
  <2>2. CASE ~ store
    <3>1. recent = recently_committed
      BY <2>2
    <3>2. recently_committed \in Seq(Old)
      BY <1>6
    <3> HIDE DEF recent, store
    <3> QED
      BY <1>6, <2>2, <3>1, <3>2
  <2> QED
    BY <2>1, <2>2
<1>10. \A u \in ToSet(recent) : u \in Old /\ u \in Txn /\ commit_id[u] < current_start_timestamp
  <2>1. \A u \in ToSet(recent) : u \in ToSet(recently_committed) \/ (u = t /\ committed)
    BY <1>9
  <2> HIDE DEF recent
  <2> QED
    BY <1>7, <1>8, <2>1 DEF Ended
<1> HIDE DEF recent, Old
<1>11. Len(recent) \in Nat /\ DOMAIN recent = 1..Len(recent)
  BY <1>9
<1>12. n \in 0..Len(recent) /\ (Running \ {t} = {} => n = Len(recent))
  <2> DEFINE kept == {k \in DOMAIN recent : commit_id[recent[k]] >= low}
             S == kept \cup {Len(recent) + 1}
  <2>2. S \in SUBSET (1..Len(recent) + 1) /\ S # {}
    BY <1>11
  <2>3. n = Min(S) - 1
    BY DEF Cleanable
  <2>4. Running \ {t} = {} => kept = {}
    <3> SUFFICES ASSUME Running \ {t} = {}, NEW k \in DOMAIN recent PROVE ~ (commit_id[recent[k]] >= low)
      OBVIOUS
    <3>1. {start_time[u] : u \in Running \ {t}} \cup {TRANSACTION_ID_START} = {TRANSACTION_ID_START}
      OBVIOUS
    <3>2. low = TRANSACTION_ID_START
      <4>1. low = Min({TRANSACTION_ID_START})
        BY <3>1 DEF LowestStart
      <4>2. {TRANSACTION_ID_START} \in SUBSET Nat /\ {TRANSACTION_ID_START} # {}
        BY VersionConstants
      <4>3. Min({TRANSACTION_ID_START}) \in {TRANSACTION_ID_START}
        BY <4>2, MinIsLeast
      <4> QED
        BY <4>1, <4>3
    <3>3. recent[k] \in ToSet(recent)
      BY DEF ToSet
    <3>4. commit_id[recent[k]] \in Nat /\ commit_id[recent[k]] < current_start_timestamp
      BY <1>3, <1>10, <3>3 DEF Types
    <3> QED
      BY <1>3, <3>2, <3>4, VersionConstants DEF InRange, Types
  <2> HIDE DEF S, n, kept
  <2>5. Min(S) \in S
    <3>1. S \in SUBSET Nat
      BY <1>11, <2>2
    <3> QED
      BY <2>2, <3>1, MinIsLeast
  <2>6. Min(S) \in 1..Len(recent) + 1
    BY <2>2, <2>5
  <2>7. ASSUME Running \ {t} = {} PROVE Min(S) = Len(recent) + 1
    BY <2>4, <2>5, <2>7 DEF S
  <2> QED
    BY <1>11, <2>3, <2>6, <2>7
<1> HIDE DEF n
<1>13. /\ ToSet(first) \cup ToSet(rest) = ToSet(recent) 
       /\ ToSet(first) \cap ToSet(rest) = {} /\ Once(rest)
       /\ n = Len(recent) => rest = <<>>
  <2>1. Parts(recent, n, first, rest)
    BY <1>9, <1>12, SequenceParts
  <2>2. SubSeq(recent, n + 1, Len(recent)) \in Seq(Old)
    BY <1>9, <1>12
  <2>3. rest \in Seq(Old)
    BY <2>2
  <2> HIDE DEF first, rest
  <2> QED
    BY <1>9, <1>12, <2>1, <2>3, PartsOf
<1> HIDE DEF first, rest
<1>14. t \notin ToSet(recently_committed)
  BY <1>4, <1>8
<1>15. /\ done \cup ToSet(rest) = ToSet(recently_committed) \cup {t}
       /\ done \cap ToSet(rest) = {}
       /\ ~ committed => t \in done
  <2>1. CASE store
    <3>1. committed /\ done = ToSet(first)
      BY <2>1
    <3>2. ToSet(recent) = ToSet(recently_committed) \cup {t}
      BY <1>9, <2>1
    <3> HIDE DEF done, store
    <3> QED
      BY <1>13, <3>1, <3>2
  <2>2. CASE ~ store
    <3>1. done = ToSet(first) \cup {t}
      BY <2>2
    <3>2. ToSet(recent) = ToSet(recently_committed)
      BY <1>9, <2>2
    <3> HIDE DEF done, store
    <3> QED
      BY <1>13, <1>14, <3>1, <3>2
  <2> QED
    BY <2>1, <2>2
<1> HIDE DEF done, store
<1>16. \A u \in Running \ {t} : u \notin done
  <2>1. \A u \in done : u \in Ended \/ u = t
    BY <1>8, <1>15
  <2> QED
    BY <2>1 DEF Ended, Running
<1>17. RecentOK'
  <2>1. Once(recently_committed')
    BY <1>1, <1>13
  <2>2. ASSUME NEW i \in DOMAIN recently_committed'
        PROVE  commit_id'[recently_committed'[i]] < current_start_timestamp'
    <3>1. recently_committed'[i] \in ToSet(recent)
      <4>1. rest[i] \in ToSet(rest)
        BY <1>1, <2>2 DEF ToSet
      <4> QED
        BY <1>1, <1>13, <4>1
    <3>2. /\ recently_committed'[i] \in Txn /\ commit_id[recently_committed'[i]] < current_start_timestamp
      BY <1>10, <3>1
    <3>3. 0 < current_start_timestamp
      BY <1>3 DEF Clocks
    <3> QED
      BY <1>1, <3>2, <3>3
  <2>3. Running' = {} => recently_committed' = <<>>
    BY <1>1, <1>5, <1>12, <1>13
  <2> QED
    BY <2>1, <2>2, <2>3 DEF RecentOK, Once
<1>18. Removed(t, committed, done)
  BY <1>1, <1>2, <1>4, <1>5, <1>14, <1>15, <1>16 DEF Removed
<1> QED
  BY <1>17, <1>18

\* The deletes of the other transactions are as they were.
LEMMA RemovedDeletes ==
  ASSUME Types, NEW t \in Txn, transaction_lock = t, NEW committed, NEW done, Removed(t, committed, done)
  PROVE  DOMAIN Deletes' \subseteq DOMAIN Deletes /\ \A p \in DOMAIN Deletes' : Deletes'[p] = Deletes[p]
<1>0. /\ Running' = Running \ {t} /\ (\A u \in Running \ {t} : u \notin done)
      /\ undo' = [u \in Txn |-> IF u \in done THEN <<>> ELSE undo[u]]
      /\ transaction_id' = [u \in Txn |-> IF u \in done THEN 0 ELSE transaction_id[u]]
      /\ \A u \in Txn \ {t} : phase'[u] = phase[u]
  BY Zenon DEF Removed
<1>1. ASSUME NEW u \in Running'
      PROVE  /\ u \in Running /\ u \in Txn \ {t} /\ undo'[u] = undo[u] /\ transaction_id'[u] = transaction_id[u]
             /\ phase'[u] = phase[u] /\ phase[u] \notin {"committing", "rolling_back"}
  <2>1. u \in Running /\ u \in Txn \ {t} /\ u \notin done
    BY <1>0 DEF Running
  <2>2. phase[u] \notin {"committing", "rolling_back"}
    BY <2>1 DEF Types
  <2> QED
    BY <1>0, <2>1, <2>2
<1>2. \A u \in Running' : UndoUpTo(u)' = UndoUpTo(u)
  BY <1>1 DEF UndoUpTo
<1>3. ASSUME NEW p \in DeleteIds'
      PROVE  p \in DeleteIds /\ Deletes'[p] = Deletes[p]
  <2>1. /\ p \in Txn \X Nat /\ p[1] \in Running' /\ p[2] \in 1..UndoUpTo(p[1])'
        /\ undo'[p[1]][p[2]].kind = "delete"
    BY <1>3 DEF DeleteIds
  <2>2. PICK u : u = p[1]
    OBVIOUS
  <2>3. /\ u \in Running /\ undo'[u] = undo[u] /\ transaction_id'[u] = transaction_id[u]
        /\ phase'[u] = phase[u] /\ phase[u] \notin {"committing", "rolling_back"}
        /\ UndoUpTo(u)' = UndoUpTo(u)
    BY <1>1, <1>2, <2>1, <2>2
  <2>4. p \in DeleteIds
    BY <2>1, <2>2, <2>3 DEF DeleteIds
  <2>5. StampOf(p)' = StampOf(p)
    BY <2>2, <2>3 DEF StampOf
  <2>6. Deletes'[p] = [vector |-> undo'[p[1]][p[2]].vector_idx, slots |-> DeletedSlots(undo'[p[1]][p[2]]),
                       stamp |-> StampOf(p)']
    BY <1>3 DEF Deletes
  <2>7. Deletes[p] = [vector |-> undo[p[1]][p[2]].vector_idx, slots |-> DeletedSlots(undo[p[1]][p[2]]),
                      stamp |-> StampOf(p)]
    BY <2>4 DEF Deletes
  <2>8. undo'[p[1]] = undo[p[1]]
    BY <2>2, <2>3
  <2> QED
    BY <2>4, <2>5, <2>6, <2>7, <2>8
<1>4. DOMAIN Deletes = DeleteIds
  BY DEF Deletes
<1>5. DOMAIN Deletes' = DeleteIds'
  BY DEF Deletes
<1> QED
  BY <1>3, <1>4, <1>5

\* The rows that the transaction deletes for good, and those that the cleanup takes out of the index.
DeletedBy(t, committed) == IF committed THEN Deleted(t) ELSE {}
CleanedUp(t, committed, done) == UNION {Deleted(u) : u \in IF committed THEN done ELSE done \ {t}}

\* What is deleted is cleaned up, or will be.
LEMMA RemovedAwaiting ==
  ASSUME Types, NEW t \in Txn, NEW committed \in BOOLEAN, NEW done, Removed(t, committed, done)
  PROVE  CleanedUp(t, committed, done) \cup AwaitingDeleted' = AwaitingDeleted \cup DeletedBy(t, committed)
<1> DEFINE del == DeletedBy(t, committed)
           R == ToSet(recently_committed)
           R2 == ToSet(recently_committed')
           X == IF committed THEN done ELSE done \ {t}
           T == IF committed THEN {t} ELSE {}
<1>0. /\ done \cup R2 = R \cup {t} /\ done \cap R2 = {} /\ t \notin R /\ (~ committed => t \in done)
      /\ undo' = [u \in Txn |-> IF u \in done THEN <<>> ELSE undo[u]]
  BY Zenon DEF Removed
<1>1. R \subseteq Txn
  <2>1. \A i \in DOMAIN recently_committed : recently_committed[i] \in Txn
    BY DEF Types
  <2> QED
    BY <2>1 DEF ToSet
<1> HIDE DEF R, R2
<1>2. X \cup R2 = R \cup T
  BY <1>0
<1>3. ASSUME NEW u \in R2 PROVE Deleted(u)' = Deleted(u)
  <2>1. u \in Txn /\ u \notin done
    BY <1>0, <1>1
  <2>2. undo'[u] = undo[u]
    BY <1>0, <2>1
  <2>3. Kind(u, "delete")' = Kind(u, "delete")
    BY <2>2, Zenon DEF Kind
  <2> QED
    BY <2>3, Zenon DEF Deleted
<1>4. AwaitingDeleted' = UNION {Deleted(u)' : u \in R2}
  BY Zenon DEF AwaitingDeleted, R2
<1>5. AwaitingDeleted' = UNION {Deleted(u) : u \in R2}
  BY <1>3, <1>4, Zenon
<1>6. AwaitingDeleted = UNION {Deleted(u) : u \in R}
  BY Zenon DEF AwaitingDeleted, R
<1>7. \A x : x \in del <=> \E u \in T : x \in Deleted(u)
  BY DEF DeletedBy
<1> HIDE DEF X, T, del
<1>8. (UNION {Deleted(u) : u \in X}) \cup AwaitingDeleted' = AwaitingDeleted \cup del
  <2>1. \A x : x \in AwaitingDeleted' <=> \E u \in R2 : x \in Deleted(u)
    BY <1>5
  <2>2. \A x : x \in AwaitingDeleted <=> \E u \in R : x \in Deleted(u)
    BY <1>6
  <2>3. \A x : x \in UNION {Deleted(u) : u \in X} <=> \E u \in X : x \in Deleted(u)
    OBVIOUS
  <2>4. ASSUME NEW x PROVE (\E u \in X : x \in Deleted(u)) \/ (\E u \in R2 : x \in Deleted(u))
                           <=> (\E u \in R : x \in Deleted(u)) \/ (\E u \in T : x \in Deleted(u))
    BY <1>2, Zenon
  <2> QED
    BY <1>7, <2>1, <2>2, <2>3, <2>4
<1> QED
  BY <1>8 DEF X, del, CleanedUp

\* A transaction that ends leaves its rows, and deletes those in del.
LEMMA RemovedRows ==
  ASSUME VInv, InRange, RInv, NEW t \in Txn, transaction_lock = t, NEW committed \in BOOLEAN, NEW done,
         Removed(t, committed, done), RecentOK', NEW del, del = DeletedBy(t, committed), del \subseteq live,
         \A v \in Vector, i \in Slot :
            /\ RowAt(v, i) < BaseRow => (RowAt(v, i) \in del <=> DeleteMark(vector_info[v], i) = InProgress)
            /\ RowAt(v, i) \in BaseRow..total_rows - 1 => MarkAt(vector_info[v], i) < current_start_timestamp,
         live' = (live \cup (BaseRow..total_rows - 1)) \ del
  PROVE  RInv'
<1>1. /\ VersionsSane(vector_info, total_rows) /\ Types /\ Undos /\ Clocks
  BY DEF VInv
<1>2. /\ Running' = Running \ {t} /\ (\A u \in Running \ {t} : u \notin done)
      /\ start_time' = [u \in Txn |-> IF u \in done THEN 0 ELSE start_time[u]]
      /\ index' = index \ UNION {Deleted(u) : u \in IF committed THEN done ELSE done \ {t}}
      /\ \A u \in Txn \ {t} : phase'[u] = phase[u]
      /\ transaction_lock' = NoTxn /\ phase'[t] = "ended"
      /\ UNCHANGED <<current_start_timestamp, current_transaction_id, total_rows, vector_info>>
  BY Zenon DEF Removed
<1>3. ~ HasFlushed' /\ BaseRow' = total_rows
  BY <1>2 DEF HasFlushed, BaseRow
<1>4. BaseRow \in Nat /\ total_rows \in Nat /\ BaseRow <= total_rows
  BY <1>1, FlushFacts DEF VersionsSane, BaseRow
<1>5. InProgress' = NOT_DELETED_ID + 1
  <2>1. \A u \in Txn : phase'[u] # "committing"
    BY <1>1, <1>2 DEF Types
  <2> QED
    BY <2>1 DEF InProgress
<1>6. DOMAIN Deletes' \subseteq DOMAIN Deletes /\ \A p \in DOMAIN Deletes' : Deletes'[p] = Deletes[p]
  BY <1>1, RemovedDeletes
<1>7. /\ current_start_timestamp \in Nat /\ current_transaction_id \in Nat
      /\ current_start_timestamp <= TRANSACTION_ID_START /\ current_transaction_id <= NOT_DELETED_ID
      /\ InProgress \in Nat /\ (InProgress < current_start_timestamp \/ InProgress = NOT_DELETED_ID + 1)
  BY <1>1, TimeFacts
<1>8. /\ DeletesOK(vector_info, Deletes, BaseRow, InProgress)
      /\ RowsOK(vector_info, BaseRow, current_start_timestamp, current_transaction_id, InProgress, live)
      /\ ConstantsFull(vector_info, total_rows)
      /\ IndexOK(index, total_rows, BaseRow, live, AwaitingDeleted) /\ Begun
  BY DEF RInv
<1>9. live \subseteq 0..BaseRow - 1
  BY <1>8 DEF RowsOK
<1> DEFINE D2 == Deletes'
<1>10. Settling(vector_info, Deletes, BaseRow, current_start_timestamp, current_transaction_id, InProgress, live,
                total_rows, del, D2)
  BY <1>4, <1>6, <1>7, <1>8, <1>9 DEF Settling
<1> HIDE DEF D2
<1>11. /\ DeletesOK(vector_info, D2, total_rows, NOT_DELETED_ID + 1)
       /\ RowsOK(vector_info, total_rows, current_start_timestamp, current_transaction_id, NOT_DELETED_ID + 1, live')
  BY <1>10, RowsSettled
<1> DEFINE C == CleanedUp(t, committed, done)
           G2 == AwaitingDeleted'
<1>12. C \cup G2 = AwaitingDeleted \cup del /\ index' = index \ C
  <2>1. C \cup G2 = AwaitingDeleted \cup DeletedBy(t, committed)
    BY <1>1, RemovedAwaiting
  <2>2. index' = index \ C
    BY <1>2, Zenon DEF CleanedUp
  <2> HIDE DEF C, G2
  <2> QED
    BY <2>1, <2>2
<1> HIDE DEF C, G2
<1>13. IndexOK(index', total_rows, total_rows, live', G2)
  BY <1>4, <1>8, <1>9, <1>12, IndexSettled
<1>14. FlushExtent(total_rows)' /\ RollbackExtent'
  BY <1>3 DEF FlushExtent, RollbackExtent
<1>15. Begun'
  <2>1. \A u \in Running' : u \in Running /\ u \in Txn /\ start_time'[u] = start_time[u]
    BY <1>2 DEF Running
  <2> QED
    BY <1>8, <2>1 DEF Begun
<1> QED
  BY <1>2, <1>3, <1>5, <1>8, <1>11, <1>13, <1>14, <1>15 DEF RInv, D2, G2

\* The rows that a commit has appended are those from the base row on.
LEMMA AppendedByCommit ==
  ASSUME Types, Undos, FlushWhole, NEW t \in Txn, transaction_lock = t, phase[t] = "committing"
  PROVE  Appended(t) = BaseRow..total_rows - 1
<1>1. IsUndo(undo[t]) /\ t # NoTxn
  BY TableConstants DEF Types
<1>2. DOMAIN undo[t] = 1..Len(undo[t]) /\ Len(undo[t]) \in Nat
  BY <1>1 DEF IsUndo
<1>3. \A n \in DOMAIN undo[t] : undo[t][n].kind = "append" => HasFlushed /\ undo[t][n] = Flush
  BY <1>2, EntryFacts
<1>4. \A x : x \in Appended(t) <=> \E n \in DOMAIN undo[t] : undo[t][n].kind = "append" /\ x \in AppendedRows(undo[t][n])
  BY DEF Appended, Kind
<1>5. CASE HasFlushed
  <2>1. \E n \in DOMAIN undo[t] : undo[t][n].kind = "append"
    <3>1. undo[t] # <<>> /\ undo[t][Len(undo[t])].kind = "append"
      BY <1>5 DEF HasFlushed
    <3>2. Len(undo[t]) \in DOMAIN undo[t]
      BY <1>1, <1>2, <3>1 DEF IsUndo
    <3> QED
      BY <3>1, <3>2
  <2>2. \A x : x \in Appended(t) <=> x \in AppendedRows(Flush)
    BY <1>3, <1>4, <2>1
  <2>3. AppendedRows(Flush) = BaseRow..total_rows - 1
    <3>1. total_rows = Flush.start_row + Flush.count
      BY <1>5 DEF FlushWhole
    <3>2. BaseRow = Flush.start_row
      BY <1>5 DEF BaseRow
    <3>3. AppendedRows(Flush) = Flush.start_row..(Flush.start_row + Flush.count - 1)
      BY DEF AppendedRows
    <3>4. \A a, b, c \in Nat : c = a + b => a..(a + b - 1) = a..c - 1
      OBVIOUS
    <3>t. Flush.start_row \in Nat /\ Flush.count \in Nat /\ total_rows \in Nat
      BY <1>5, FlushFacts DEF Types
    <3>5. Flush.start_row..(Flush.start_row + Flush.count - 1) = Flush.start_row..total_rows - 1
      BY <3>1, <3>4, <3>t, Zenon
    <3> QED
      BY <3>2, <3>3, <3>5, Zenon
  <2> QED
    BY <2>2, <2>3
<1>6. CASE ~ HasFlushed
  <2>1. \A x : x \notin Appended(t)
    BY <1>3, <1>4, <1>6
  <2>2. BaseRow = total_rows /\ total_rows \in Nat
    BY <1>6 DEF BaseRow, Types
  <2>3. BaseRow..total_rows - 1 = {}
    BY <2>2
  <2> QED
    BY <2>1, <2>3
<1> QED
  BY <1>5, <1>6

\* Which rows a transaction has deleted.
LEMMA DeletedFacts ==
  ASSUME NEW t, NEW x
  PROVE  x \in Deleted(t) <=> \E n \in DOMAIN undo[t] : /\ undo[t][n].kind = "delete"
                                                        /\ \E i \in DeletedSlots(undo[t][n]) : x = RowAt(undo[t][n].vector_idx, i)
<1>1. x \in Deleted(t) <=> \E n \in DOMAIN undo[t] : undo[t][n].kind = "delete" /\ x \in DeletedRows(undo[t][n])
  BY DEF Deleted, Kind
<1> QED
  BY <1>1 DEF DeletedRows

\* A commit that has come to its end has marked the rows it deletes, and no other row has its mark.
LEMMA DeletedByCommit ==
  ASSUME VInv, InRange, RInv, NEW t \in Txn, transaction_lock = t, phase[t] = "committing", at = Len(undo[t])
  PROVE  /\ Deleted(t) \subseteq live
         /\ \A v \in Vector, i \in Slot :
               RowAt(v, i) < BaseRow => (RowAt(v, i) \in Deleted(t) <=> DeleteMark(vector_info[v], i) = InProgress)
<1>1. Types /\ Clocks /\ Undos
  BY DEF VInv
<1>2. /\ DeletesOK(vector_info, Deletes, BaseRow, InProgress)
      /\ RowsOK(vector_info, BaseRow, current_start_timestamp, current_transaction_id, InProgress, live)
  BY DEF RInv
<1>3. t \in Running /\ UndoUpTo(t) = Len(undo[t]) /\ DOMAIN undo[t] = 1..Len(undo[t]) /\ Len(undo[t]) \in Nat
  <2>1. IsUndo(undo[t])
    BY <1>1 DEF Types
  <2> QED
    BY <2>1 DEF Running, UndoUpTo, IsUndo
<1>4. ASSUME NEW x \in Deleted(t)
      PROVE  \E w \in Vector, j \in Slot : /\ x = RowAt(w, j) /\ x < BaseRow
                                           /\ DeleteMark(vector_info[w], j) = InProgress
  <2>1. PICK n \in DOMAIN undo[t] : undo[t][n].kind = "delete"
                                    /\ \E i \in DeletedSlots(undo[t][n]) : x = RowAt(undo[t][n].vector_idx, i)
    BY <1>4, DeletedFacts
  <2>2. PICK j \in DeletedSlots(undo[t][n]) : x = RowAt(undo[t][n].vector_idx, j)
    BY <2>1
  <2>3. PICK p : p = <<t, n>>
    OBVIOUS
  <2>4. p[1] = t /\ p[2] = n /\ n <= at
    BY <1>3, <2>3
  <2>5. p \in DeleteIds
    BY <1>1, <1>3, <2>1, <2>3, DeleteIdFacts
  <2>6. DOMAIN Deletes = DeleteIds /\ Deletes[p].vector = undo[t][n].vector_idx
        /\ Deletes[p].slots = DeletedSlots(undo[t][n]) /\ Deletes[p].stamp = StampOf(p)
    BY <2>4, <2>5, DeletesAt
  <2>7. StampOf(p) = InProgress
    BY <1>1, <2>4, <2>5, StampFacts
  <2>8. /\ Deletes[p].vector \in Vector /\ Deletes[p].slots \subseteq Slot
        /\ \A i \in Deletes[p].slots : /\ RowAt(Deletes[p].vector, i) < BaseRow
                                       /\ DeleteMark(vector_info[Deletes[p].vector], i) = Deletes[p].stamp
    BY <1>2, <2>5, <2>6 DEF DeletesOK
  <2> QED
    BY <2>2, <2>6, <2>7, <2>8
<1>5. ASSUME NEW x \in Deleted(t) PROVE x \in live
  <2>1. PICK w \in Vector, j \in Slot : x = RowAt(w, j) /\ x < BaseRow /\ DeleteMark(vector_info[w], j) = InProgress
    BY <1>4, <1>5
  <2> QED
    BY <1>2, <2>1 DEF RowsOK
<1>6. ASSUME NEW v \in Vector, NEW i \in Slot, RowAt(v, i) \in Deleted(t)
      PROVE  DeleteMark(vector_info[v], i) = InProgress
  <2>1. PICK w \in Vector, j \in Slot : RowAt(v, i) = RowAt(w, j) /\ DeleteMark(vector_info[w], j) = InProgress
    BY <1>4, <1>6
  <2>2. v = w /\ i = j
    BY <2>1, RowAtOnce
  <2> QED
    BY <2>1, <2>2
<1>7. ASSUME NEW v \in Vector, NEW i \in Slot, DeleteMark(vector_info[v], i) = InProgress
      PROVE  RowAt(v, i) \in Deleted(t)
  <2>1. PICK p \in DOMAIN Deletes : Deletes[p].vector = v /\ i \in Deletes[p].slots
    BY <1>2, <1>7 DEF DeletesOK
  <2>2. p \in DeleteIds
    BY <2>1 DEF Deletes
  <2>3. Deletes[p].vector = undo[p[1]][p[2]].vector_idx
        /\ Deletes[p].slots = DeletedSlots(undo[p[1]][p[2]]) /\ Deletes[p].stamp = StampOf(p)
    BY <2>2, DeletesAt
  <2>4. DeleteMark(vector_info[v], i) = Deletes[p].stamp
    BY <1>2, <2>1 DEF DeletesOK
  <2>5. phase[p[1]] = "committing"
    BY <1>1, <1>7, <2>2, <2>3, <2>4, StampFacts
  <2>6. PICK u \in Txn, n \in Nat : p[1] = u /\ p[2] = n /\ n \in DOMAIN undo[u] /\ undo[u][n].kind = "delete"
    BY <1>1, <2>2, DeleteIdPairs
  <2>7. u = t
    BY <1>1, <2>5, <2>6 DEF Types
  <2> QED
    BY <2>1, <2>3, <2>6, <2>7, DeletedFacts
<1> QED
  BY <1>5, <1>6, <1>7

\* CommitTransaction comes to its end.
LEMMA FinishCommitRows ==
  ASSUME VInv, InRange, RInv, NEW t \in Txn, FinishCommit(t)
  PROVE  RInv'
<1>1. /\ phase[t] = "committing" /\ at = Len(undo[t]) /\ RemoveTransaction(t, TRUE)
      /\ live' = (live \cup Appended(t)) \ Deleted(t)
  BY Zenon DEF FinishCommit
<1>2. Types /\ Undos /\ Clocks /\ FlushWhole /\ Flushed(vector_info, total_rows)
  BY DEF VInv
<1>3. transaction_lock = t
  BY <1>1, <1>2 DEF Types
<1>4. RecentOK' /\ \E done : Removed(t, TRUE, done)
  <2>1. RecentOK
    BY DEF RInv
  <2> QED
    BY <1>1, <2>1, RemovedFacts
<1>5. PICK done : Removed(t, TRUE, done)
  BY <1>4
<1>6. /\ Deleted(t) \subseteq live
      /\ \A v \in Vector, i \in Slot :
            RowAt(v, i) < BaseRow => (RowAt(v, i) \in Deleted(t) <=> DeleteMark(vector_info[v], i) = InProgress)
  BY <1>1, <1>3, DeletedByCommit
<1>7. ASSUME NEW v \in Vector, NEW i \in Slot, RowAt(v, i) \in BaseRow..total_rows - 1
      PROVE  MarkAt(vector_info[v], i) < current_start_timestamp
  <2>1. FlushMark = commit_id[t]
    BY <1>1, <1>3 DEF FlushMark
  <2>2. commit_id[t] < current_start_timestamp
    BY <1>1, <1>2 DEF Clocks
  <2> QED
    BY <1>2, <1>7, <2>1, <2>2 DEF Flushed, FlushedAs
<1>8. live' = (live \cup (BaseRow..total_rows - 1)) \ Deleted(t)
  BY <1>1, <1>2, <1>3, AppendedByCommit
<1>9. Deleted(t) = DeletedBy(t, TRUE)
  BY DEF DeletedBy
<1> DEFINE del == Deleted(t)
<1> HIDE DEF del
<1>10. /\ del = DeletedBy(t, TRUE) /\ del \subseteq live /\ live' = (live \cup (BaseRow..total_rows - 1)) \ del
       /\ \A v \in Vector, i \in Slot :
             /\ RowAt(v, i) < BaseRow => (RowAt(v, i) \in del <=> DeleteMark(vector_info[v], i) = InProgress)
             /\ RowAt(v, i) \in BaseRow..total_rows - 1 => MarkAt(vector_info[v], i) < current_start_timestamp
  BY <1>6, <1>7, <1>8, <1>9 DEF del
<1> QED
  BY <1>3, <1>4, <1>5, <1>10, RemovedRows

\* RollbackTransaction comes to its end.
LEMMA EndRollbackRows ==
  ASSUME VInv, InRange, RInv, NEW t \in Txn, EndRollback(t)
  PROVE  RInv'
<1>1. phase[t] = "rolling_back" /\ at = 0 /\ RemoveTransaction(t, FALSE) /\ live' = live
  BY Zenon DEF EndRollback
<1>2. Types /\ Undos /\ Clocks
  BY DEF VInv
<1>3. transaction_lock = t
  BY <1>1, <1>2 DEF Types
<1>4. RecentOK' /\ \E done : Removed(t, FALSE, done)
  <2>1. RecentOK
    BY DEF RInv
  <2> QED
    BY <1>1, <2>1, RemovedFacts
<1>5. PICK done : Removed(t, FALSE, done)
  BY <1>4
<1>6. total_rows = BaseRow /\ total_rows \in Nat
  <2>1. CASE HasFlushed
    <3>1. undo[t] # <<>> /\ IsUndo(undo[t])
      BY <1>2, <1>3, <2>1 DEF HasFlushed, Types
    <3>2. at < Len(undo[t])
      BY <1>1, <3>1 DEF IsUndo
    <3> QED
      BY <1>1, <1>2, <1>3, <2>1, <3>2 DEF RInv, RollbackExtent, Types
  <2>2. CASE ~ HasFlushed
    BY <1>2, <2>2 DEF BaseRow, Types
  <2> QED
    BY <2>1, <2>2
<1>7. InProgress = NOT_DELETED_ID + 1
  BY <1>1, <1>2, TimeFacts
<1>8. ASSUME NEW v \in Vector, NEW i \in Slot PROVE DeleteMark(vector_info[v], i) # InProgress
  <2>1. /\ current_start_timestamp \in Nat /\ current_transaction_id \in Nat /\ NOT_DELETED_ID \in Nat
        /\ TRANSACTION_ID_START \in Nat /\ current_start_timestamp <= TRANSACTION_ID_START
        /\ current_transaction_id <= NOT_DELETED_ID /\ TRANSACTION_ID_START < NOT_DELETED_ID
    BY <1>2, TimeFacts
  <2>2. DeleteMark(vector_info[v], i) \in (0..current_start_timestamp - 1)
           \cup (TRANSACTION_ID_START..current_transaction_id - 1) \cup {NOT_DELETED_ID}
    BY DEF RInv, RowsOK
  <2> QED
    BY <1>7, <2>1, <2>2
<1>9. PICK del : del = {}
  OBVIOUS
<1>10. BaseRow..total_rows - 1 = {}
  BY <1>6
<1>11. /\ del = DeletedBy(t, FALSE) /\ del \subseteq live /\ live' = (live \cup (BaseRow..total_rows - 1)) \ del
       /\ \A v \in Vector, i \in Slot :
             /\ RowAt(v, i) < BaseRow => (RowAt(v, i) \in del <=> DeleteMark(vector_info[v], i) = InProgress)
             /\ RowAt(v, i) \in BaseRow..total_rows - 1 => MarkAt(vector_info[v], i) < current_start_timestamp
  BY <1>1, <1>8, <1>9, <1>10 DEF DeletedBy
<1> QED
  BY <1>3, <1>4, <1>5, <1>11, RemovedRows
-----------------------------------------------------------------------------
(* Restart.                                                                *)

\* ChunkInfo::Write and ChunkInfo::Read keep the committed deletes, if every row of the
\* vector counts as committed, and the vector goes or gets one mark only if its rows do.
LEMMA KeptMarks ==
  ASSUME NEW info \in Infos,
         info.type = "constant" => info.insert_id < TRANSACTION_ID_START /\ info.delete_id \in {0, NOT_DELETED_ID},
         info.type = "vector" => /\ ~ info.any_deleted => \A i \in Slot : info.deleted[i] = NOT_DELETED_ID
                                 /\ \A i \in Slot : InsertMark(info, i) < TRANSACTION_ID_START - 1,
         \A i \in Slot : DeleteMark(info, i) # NOT_DELETED_ID + 1,
         NEW new, new = WriteAndRead(info)
  PROVE  /\ \A i \in Slot : DeleteMark(new, i) = IF DeleteMark(info, i) < TRANSACTION_ID_START - 1
                                                 THEN 0 ELSE NOT_DELETED_ID
         /\ info.type = "none" => new.type = "none"
         /\ new.type = "constant" => /\ new.delete_id = 0
                                     /\ info.type = "constant" \/ \A i \in Slot : DeleteMark(new, i) = 0
<1> DEFINE visible == GetSelVector(info, AllCommitted)
           ND == NOT_DELETED_ID
           S == TRANSACTION_ID_START
           f == [i \in Slot |-> IF i \in visible THEN NewVectorInfo.deleted[i] ELSE 0]
<1>0. ND \in Nat /\ S \in Nat /\ 2 < S /\ S < ND
  BY VersionConstants
<1>1. /\ \A i \in Slot : DeleteMark(NoInfo, i) = ND /\ DeleteMark(ConstantInfo(0, 0), i) = 0
      /\ NoInfo.type = "none" /\ ConstantInfo(0, 0).type = "constant" /\ ConstantInfo(0, 0).delete_id = 0
  BY DEF NoInfo, ConstantInfo, DeleteMark
<1>2. ~ (ND < S - 1) /\ 0 < S - 1
  BY <1>0
<1>3. CASE info.type = "none"
  <2>1. ~ HasDeletes(info)
    BY <1>3 DEF HasDeletes
  <2>2. new = NoInfo
    BY <2>1 DEF WriteAndRead
  <2>3. \A i \in Slot : DeleteMark(info, i) = ND
    BY <1>3 DEF DeleteMark
  <2> QED
    BY <1>1, <1>2, <2>2, <2>3
<1>4. CASE info.type = "constant"
  <2>1. HasDeletes(info) <=> info.insert_id >= S \/ info.delete_id < S
    BY <1>4 DEF HasDeletes
  <2>2. info.insert_id \in Nat /\ info.delete_id \in Nat
    BY <1>4 DEF Infos, NoInfo, ConstantInfos, VectorInfos
  <2>3. HasDeletes(info) <=> info.delete_id = 0
    BY <1>0, <1>4, <2>1, <2>2
  <2>4. \A i \in Slot : DeleteMark(info, i) = info.delete_id
    BY <1>4 DEF DeleteMark
  <2>5. CASE info.delete_id = 0
    <3>1. new = ConstantInfo(0, 0)
      BY <1>4, <2>3, <2>5 DEF WriteAndRead
    <3> QED
      BY <1>1, <1>2, <1>4, <2>4, <2>5, <3>1
  <2>6. CASE info.delete_id = ND
    <3>1. info.delete_id # 0
      BY <1>0, <2>6
    <3>2. new = NoInfo
      BY <2>3, <3>1 DEF WriteAndRead
    <3> QED
      BY <1>1, <1>2, <1>4, <2>4, <2>6, <3>2
  <2> QED
    BY <1>4, <2>5, <2>6
<1>5. CASE info.type = "vector"
  <2>1. info.deleted \in [Slot -> Nat] /\ info.any_deleted \in BOOLEAN
    BY <1>5 DEF Infos, NoInfo, ConstantInfos, VectorInfos
  <2>2. \A i \in Slot : DeleteMark(info, i) = info.deleted[i]
    BY <1>5 DEF DeleteMark
  <2>3. HasDeletes(info) <=> info.any_deleted
    BY <1>5 DEF HasDeletes
  <2>4. CASE ~ info.any_deleted
    <3>1. new = NoInfo
      BY <2>3, <2>4 DEF WriteAndRead
    <3> QED
      BY <1>1, <1>2, <1>5, <2>2, <2>4, <3>1
  <2>5. CASE info.any_deleted
    <3>1. visible = {i \in Slot : /\ UseInsertedVersion(AllCommitted, InsertMark(info, i))
                                  /\ UseDeletedVersion(AllCommitted, info.deleted[i])}
      BY <1>5, <2>5 DEF GetSelVector
    <3>2. \A x : UseInsertedVersion(AllCommitted, x) <=> x < S - 1 \/ x = ND + 1
      BY DEF UseInsertedVersion, AllCommitted
    <3>3. \A i \in Slot : i \in visible <=> ~ (info.deleted[i] < S - 1)
      BY <1>5, <2>2, <3>1, <3>2 DEF UseDeletedVersion
    <3>4. visible \in SUBSET Slot /\ 0 \in Slot
      BY <3>1, VersionConstants DEF Slot
    <3>5. new = CASE visible = Slot -> NoInfo
                  [] visible = {}   -> ConstantInfo(0, 0)
                  [] OTHER -> [NewVectorInfo EXCEPT !.any_deleted = TRUE, !.deleted = f]
      BY <1>5, <2>3, <2>5 DEF WriteAndRead
    <3> HIDE DEF visible
    <3>6. CASE visible = Slot
      <4>1. new = NoInfo
        BY <3>4, <3>5, <3>6
      <4> QED
        BY <1>1, <1>2, <1>5, <2>2, <3>3, <3>6, <4>1
    <3>7. CASE visible = {}
      <4>1. new = ConstantInfo(0, 0)
        BY <3>4, <3>5, <3>7
      <4> QED
        BY <1>1, <1>2, <1>5, <2>2, <3>3, <3>7, <4>1
    <3>8. CASE visible # {} /\ visible # Slot
      <4>1. new = [NewVectorInfo EXCEPT !.any_deleted = TRUE, !.deleted = f]
        BY <3>5, <3>8
      <4>2. f = [i \in Slot |-> IF i \in visible THEN ND ELSE 0]
        BY DEF NewVectorInfo
      <4>3. new.type = "vector" /\ new.deleted = f
        <5> HIDE DEF f
        <5> QED
          BY <4>1 DEF NewVectorInfo
      <4> HIDE DEF f
      <4>4. \A i \in Slot : DeleteMark(new, i) = IF i \in visible THEN ND ELSE 0
        BY <4>2, <4>3 DEF DeleteMark
      <4>5. new.type # "constant" /\ info.type # "none"
        BY <1>5, <4>3
      <4>6. \A i \in Slot : DeleteMark(new, i) = IF DeleteMark(info, i) < S - 1 THEN 0 ELSE ND
        BY <2>2, <3>3, <4>4
      <4> QED
        BY <4>5, <4>6
    <3> QED
      BY <3>6, <3>7, <3>8
  <2> QED
    BY <2>4, <2>5
<1> QED
  BY <1>3, <1>4, <1>5 DEF Infos, NoInfo, ConstantInfos, VectorInfos

\* What a checkpoint without transactions relies on: every row counts as committed.
LEMMA RestartMarks ==
  ASSUME VInv, InRange, RInv, Running = {}, current_start_timestamp < TRANSACTION_ID_START,
         \A v \in Vector, i \in Slot :
            RowAt(v, i) >= total_rows => MarkAt(vector_info[v], i) < TRANSACTION_ID_START - 1,
         NEW v \in Vector
  PROVE  LET info == vector_info[v] IN
         /\ info \in Infos
         /\ info.type = "constant" => info.insert_id < TRANSACTION_ID_START /\ info.delete_id \in {0, NOT_DELETED_ID}
         /\ info.type = "vector" => /\ ~ info.any_deleted => \A i \in Slot : info.deleted[i] = NOT_DELETED_ID
                                    /\ \A i \in Slot : InsertMark(info, i) < TRANSACTION_ID_START - 1
         /\ \A i \in Slot : DeleteMark(info, i) # NOT_DELETED_ID + 1
<1> DEFINE info == vector_info[v]
           clock == current_start_timestamp
           S == TRANSACTION_ID_START
<1>1. Types /\ Clocks /\ VersionsSane(vector_info, total_rows)
  BY DEF VInv
<1>2. /\ clock \in Nat /\ S \in Nat /\ NOT_DELETED_ID \in Nat /\ S < NOT_DELETED_ID
      /\ current_transaction_id \in Nat /\ current_transaction_id <= NOT_DELETED_ID /\ total_rows \in Nat
  BY <1>1, TimeFacts DEF Types
<1>3. transaction_lock = NoTxn /\ BaseRow = total_rows
  <2>1. \A t \in Txn : phase[t] \in {"idle", "ended"}
    BY DEF Running
  <2>2. transaction_lock = NoTxn
    BY <1>1, <2>1 DEF Types
  <2> QED
    BY <2>2 DEF BaseRow, HasFlushed
<1>4. info \in Infos /\ Shortcuts(info, v, total_rows)
  BY <1>1 DEF Types, VersionsSane
<1>5. \A i \in Slot : RowAt(v, i) < total_rows => MarkAt(info, i) < clock
  BY <1>3 DEF RInv, RowsOK
<1>6. 0 \in Slot /\ RowAt(v, 0) = v * STANDARD_VECTOR_SIZE /\ \A i \in Slot : RowAt(v, i) \in Nat
  BY RowPlaces, VersionConstants DEF Slot
<1>7. \A i \in Slot : MarkAt(info, i) \in Nat
  BY <1>4, MarksByType
<1>8. /\ info.type # "none" => v * STANDARD_VECTOR_SIZE < total_rows
      /\ info.type = "constant" => /\ info.delete_id \in {0, NOT_DELETED_ID}
                                   /\ \A i \in Slot : RowAt(v, i) < total_rows
  BY DEF RInv, ConstantsFull
<1>9. \A x \in Nat : x < clock => x < S /\ x < S - 1
  BY <1>2
<1>10. \A i \in Slot : DeleteMark(info, i) # NOT_DELETED_ID + 1
  <2> SUFFICES ASSUME NEW i \in Slot PROVE DeleteMark(info, i) # NOT_DELETED_ID + 1
    OBVIOUS
  <2>1. DeleteMark(info, i) \in (0..clock - 1) \cup (S..current_transaction_id - 1) \cup {NOT_DELETED_ID}
    BY DEF RInv, RowsOK
  <2> HIDE DEF info, clock, S
  <2> QED
    BY <1>2, <2>1 DEF clock, S
<1> HIDE DEF info, clock
<1>11. CASE info.type = "none"
  BY <1>4, <1>10, <1>11 DEF info
<1>12. CASE info.type = "constant"
  <2>1. MarkAt(info, 0) = info.insert_id /\ MarkAt(info, 0) < clock
    BY <1>5, <1>6, <1>8, <1>12 DEF MarkAt
  <2> QED
    BY <1>4, <1>6, <1>7, <1>8, <1>9, <1>10, <1>12, <2>1 DEF info
<1>13. CASE info.type = "vector"
  <2>1. \A i \in Slot : MarkAt(info, i) = info.inserted[i]
    BY <1>13 DEF MarkAt
  <2>2. ~ info.any_deleted => \A i \in Slot : info.deleted[i] = NOT_DELETED_ID
    BY <1>4, <1>13 DEF Shortcuts
  <2>3. CASE info.same_inserted_id
    <3>1. info.inserted[0] = info.insert_id
      BY <1>4, <1>6, <1>8, <1>13, <2>3 DEF Shortcuts
    <3>2. info.inserted[0] < clock /\ info.inserted[0] \in Nat
      BY <1>5, <1>6, <1>7, <1>8, <1>13, <2>1
    <3>3. \A i \in Slot : InsertMark(info, i) = info.insert_id
      BY <2>3 DEF InsertMark
    <3>4. \A i \in Slot : InsertMark(info, i) < S - 1
      BY <1>9, <3>1, <3>2, <3>3
    <3> QED
      BY <1>4, <1>10, <1>13, <2>2, <3>4 DEF info
  <2>4. CASE ~ info.same_inserted_id
    <3>1. ASSUME NEW i \in Slot PROVE InsertMark(info, i) < S - 1
      <4>1. InsertMark(info, i) = MarkAt(info, i)
        BY <2>1, <2>4 DEF InsertMark
      <4>2. CASE RowAt(v, i) < total_rows
        BY <1>5, <1>7, <1>9, <4>1, <4>2
      <4>3. CASE RowAt(v, i) >= total_rows
        BY <4>1, <4>3 DEF info
      <4> QED
        BY <1>2, <1>6, <4>2, <4>3
    <3> QED
      BY <1>4, <1>10, <1>13, <2>2, <3>1 DEF info
  <2> QED
    BY <2>3, <2>4
<1> QED
  BY <1>4, <1>6, <1>11, <1>12, <1>13, MarksByType

\* The checkpoint keeps what RInv says of the marks, with the clock set back.
LEMMA MarksRewritten ==
  ASSUME NEW infos, NEW new, NEW total \in Nat, NEW clock \in Nat, NEW ids \in Nat, NEW D, NEW L,
         clock < TRANSACTION_ID_START, ids <= NOT_DELETED_ID,
         DeletesOK(infos, D, total, NOT_DELETED_ID + 1),
         RowsOK(infos, total, clock, ids, NOT_DELETED_ID + 1, L),
         ConstantsFull(infos, total),
         \A v \in Vector :
            /\ \A i \in Slot : /\ MarkAt(new[v], i) = 0
                               /\ DeleteMark(new[v], i) = IF DeleteMark(infos[v], i) < TRANSACTION_ID_START - 1
                                                          THEN 0 ELSE NOT_DELETED_ID
            /\ infos[v].type = "none" => new[v].type = "none"
            /\ new[v].type = "constant" => /\ new[v].delete_id = 0
                                           /\ infos[v].type = "constant" \/ \A i \in Slot : DeleteMark(new[v], i) = 0,
         NEW D2, DOMAIN D2 = {}
  PROVE  /\ DeletesOK(new, D2, total, NOT_DELETED_ID + 1)
         /\ RowsOK(new, total, 2, TRANSACTION_ID_START, NOT_DELETED_ID + 1, L)
         /\ ConstantsFull(new, total)
<1> DEFINE S == TRANSACTION_ID_START
           ND == NOT_DELETED_ID
<1>0. S \in Nat /\ ND \in Nat /\ 2 < S /\ S < ND
  BY VersionConstants
<1>1. ASSUME NEW v \in Vector, NEW i \in Slot
      PROVE  /\ DeleteMark(new[v], i) \in {0, ND}
             /\ DeleteMark(new[v], i) = ND <=> clock <= DeleteMark(infos[v], i)
             /\ DeleteMark(infos[v], i) # ND + 1
             /\ DeleteMark(infos[v], i) = ND => DeleteMark(new[v], i) = ND
  <2> DEFINE d == DeleteMark(infos[v], i)
  <2>1. d \in (0..clock - 1) \cup (S..ids - 1) \cup {ND}
    BY DEF RowsOK
  <2>2. DeleteMark(new[v], i) = IF d < S - 1 THEN 0 ELSE ND
    OBVIOUS
  <2> HIDE DEF d
  <2>3. d < S - 1 <=> ~ (clock <= d)
    BY <1>0, <2>1
  <2>4. d # ND + 1 /\ (d = ND => ~ (d < S - 1))
    BY <1>0, <2>1
  <2> QED
    BY <1>0, <2>2, <2>3, <2>4 DEF d
<1>2. \A v \in Vector, i \in Slot : RowAt(v, i) >= total => DeleteMark(new[v], i) = ND
  BY <1>1 DEF DeletesOK
<1>3. DeletesOK(new, D2, total, ND + 1)
  <2>1. ND + 1 \notin {0, ND}
    BY <1>0
  <2>2. \A v \in Vector, i \in Slot : DeleteMark(new[v], i) # ND + 1
    BY <1>1, <2>1
  <2> QED
    BY <1>2, <2>2 DEF DeletesOK
<1>4. RowsOK(new, total, 2, S, ND + 1, L)
  <2>1. L \subseteq 0..total - 1
    BY DEF RowsOK
  <2>2. ASSUME NEW v \in Vector, NEW i \in Slot
        PROVE  /\ DeleteMark(new[v], i) \in (0..2 - 1) \cup (S..S - 1) \cup {ND}
               /\ RowAt(v, i) < total =>
                     /\ MarkAt(new[v], i) < 2
                     /\ RowAt(v, i) \in L <=> (2 <= DeleteMark(new[v], i) \/ DeleteMark(new[v], i) = ND + 1)
    <3>1. DeleteMark(new[v], i) \in {0, ND} /\ MarkAt(new[v], i) = 0
      BY <1>1
    <3>2. RowAt(v, i) < total => (RowAt(v, i) \in L <=> clock <= DeleteMark(infos[v], i))
      BY <1>1 DEF RowsOK
    <3>3. (2 <= DeleteMark(new[v], i) \/ DeleteMark(new[v], i) = ND + 1) <=> DeleteMark(new[v], i) = ND
      BY <1>0, <3>1
    <3>4. DeleteMark(new[v], i) \in (0..2 - 1) \cup (S..S - 1) \cup {ND}
      BY <3>1
    <3> QED
      BY <1>1, <3>1, <3>2, <3>3, <3>4
  <2> QED
    BY <2>1, <2>2 DEF RowsOK
<1>5. ConstantsFull(new, total)
  <2> SUFFICES ASSUME NEW v \in Vector
               PROVE  /\ new[v].type # "none" => v * STANDARD_VECTOR_SIZE < total
                      /\ new[v].type = "constant" => /\ new[v].delete_id \in {0, ND}
                                                     /\ \A i \in Slot : RowAt(v, i) < total
    BY DEF ConstantsFull
  <2>1. /\ infos[v].type # "none" => v * STANDARD_VECTOR_SIZE < total
        /\ infos[v].type = "constant" => \A i \in Slot : RowAt(v, i) < total
    BY DEF ConstantsFull
  <2>2. ASSUME \A i \in Slot : DeleteMark(new[v], i) = 0, NEW i \in Slot PROVE RowAt(v, i) < total
    <3>1. ~ (RowAt(v, i) >= total)
      BY <1>0, <1>2, <2>2
    <3> QED
      BY <3>1, RowPlaces
  <2> QED
    BY <2>1, <2>2
<1> QED
  BY <1>3, <1>4, <1>5

\* A checkpoint without transactions and a restart keep every row.
LEMMA RestartRows ==
  ASSUME VInv, InRange, RInv, CleanRestart, Restart
  PROVE  RInv'
<1>1. /\ Running = {}
      /\ vector_info' = [v \in Vector |-> WriteAndRead(vector_info[v])]
      /\ current_start_timestamp' = 2 /\ current_transaction_id' = TRANSACTION_ID_START
      /\ UNCHANGED <<phase, start_time, commit_id, transaction_lock, undo, at>>
      /\ UNCHANGED <<total_rows, index, recently_committed, live>>
  BY DEF Restart
<1>2. Types /\ Clocks
  BY DEF VInv
<1>3. /\ transaction_lock = NoTxn /\ BaseRow = total_rows /\ BaseRow' = total_rows /\ ~ HasFlushed'
      /\ \A t \in Txn : phase[t] \in {"idle", "ended"}
  <2>1. \A t \in Txn : phase[t] \in {"idle", "ended"}
    BY <1>1 DEF Running
  <2>2. transaction_lock = NoTxn
    BY <1>2, <2>1 DEF Types
  <2> QED
    BY <1>1, <2>1, <2>2 DEF BaseRow, HasFlushed
<1>4. InProgress = NOT_DELETED_ID + 1 /\ InProgress' = NOT_DELETED_ID + 1
  BY <1>1, <1>3 DEF InProgress
<1>5. /\ current_start_timestamp \in Nat /\ current_transaction_id \in Nat /\ total_rows \in Nat
      /\ current_transaction_id <= NOT_DELETED_ID
  BY <1>2 DEF Types, InRange
<1>6. /\ current_start_timestamp < TRANSACTION_ID_START
      /\ \A v \in Vector, i \in Slot :
            RowAt(v, i) >= total_rows => MarkAt(vector_info[v], i) < TRANSACTION_ID_START - 1
  BY DEF CleanRestart
<1>7. Running' = {} /\ DeleteIds' = {}
  BY <1>1 DEF Running, DeleteIds
<1>8. PICK D2 : D2 = Deletes'
  OBVIOUS
<1>9. DOMAIN D2 = {}
  BY <1>7, <1>8 DEF Deletes
<1>10. ASSUME NEW v \in Vector
       PROVE  /\ \A i \in Slot : /\ MarkAt(vector_info'[v], i) = 0
                                 /\ DeleteMark(vector_info'[v], i) =
                                      IF DeleteMark(vector_info[v], i) < TRANSACTION_ID_START - 1
                                      THEN 0 ELSE NOT_DELETED_ID
              /\ vector_info[v].type = "none" => vector_info'[v].type = "none"
              /\ vector_info'[v].type = "constant" =>
                    /\ vector_info'[v].delete_id = 0
                    /\ vector_info[v].type = "constant" \/ \A i \in Slot : DeleteMark(vector_info'[v], i) = 0
  <2>1. PICK info : info = vector_info[v]
    OBVIOUS
  <2>2. PICK new : new = vector_info'[v]
    OBVIOUS
  <2>3. new = WriteAndRead(info)
    BY <1>1, <2>1, <2>2
  <2>4. /\ info \in Infos
        /\ info.type = "constant" => info.insert_id < TRANSACTION_ID_START /\ info.delete_id \in {0, NOT_DELETED_ID}
        /\ info.type = "vector" => /\ ~ info.any_deleted => \A i \in Slot : info.deleted[i] = NOT_DELETED_ID
                                   /\ \A i \in Slot : InsertMark(info, i) < TRANSACTION_ID_START - 1
        /\ \A i \in Slot : DeleteMark(info, i) # NOT_DELETED_ID + 1
    BY <1>1, <1>6, <2>1, RestartMarks
  <2>5. \A i \in Slot : MarkAt(new, i) = 0
    BY <2>3, <2>4, KeptInserts
  <2>6. /\ \A i \in Slot : DeleteMark(new, i) = IF DeleteMark(info, i) < TRANSACTION_ID_START - 1
                                                 THEN 0 ELSE NOT_DELETED_ID
        /\ info.type = "none" => new.type = "none"
        /\ new.type = "constant" => /\ new.delete_id = 0
                                    /\ info.type = "constant" \/ \A i \in Slot : DeleteMark(new, i) = 0
    BY <2>3, <2>4, KeptMarks
  <2> QED
    BY <2>1, <2>2, <2>5, <2>6
<1>11. /\ DeletesOK(vector_info, Deletes, total_rows, NOT_DELETED_ID + 1)
       /\ RowsOK(vector_info, total_rows, current_start_timestamp, current_transaction_id, NOT_DELETED_ID + 1, live)
       /\ ConstantsFull(vector_info, total_rows)
       /\ IndexOK(index, total_rows, total_rows, live, AwaitingDeleted)
       /\ RecentOK
  BY <1>3, <1>4 DEF RInv
<1>12. /\ DeletesOK(vector_info', D2, total_rows, NOT_DELETED_ID + 1)
       /\ RowsOK(vector_info', total_rows, 2, TRANSACTION_ID_START, NOT_DELETED_ID + 1, live)
       /\ ConstantsFull(vector_info', total_rows)
  <2>1. PICK new : new = vector_info'
    OBVIOUS
  <2> QED
    BY <1>5, <1>6, <1>9, <1>10, <1>11, <2>1, MarksRewritten
<1>13. AwaitingDeleted' = AwaitingDeleted
  BY <1>1, <1>2, AwaitingSame
<1>14. RecentOK'
  <2>1. recently_committed = <<>> /\ recently_committed' = <<>>
    BY <1>1, <1>11 DEF RecentOK
  <2> QED
    BY <2>1 DEF RecentOK
<1>15. Begun' /\ FlushExtent(total_rows)' /\ RollbackExtent'
  BY <1>3, <1>7 DEF Begun, FlushExtent, RollbackExtent
<1>16. /\ DeletesOK(vector_info, Deletes, BaseRow, InProgress)'
       /\ RowsOK(vector_info, BaseRow, current_start_timestamp, current_transaction_id, InProgress, live)'
       /\ ConstantsFull(vector_info, total_rows)'
       /\ IndexOK(index, total_rows, BaseRow, live, AwaitingDeleted)'
  <2>1. IndexOK(index, total_rows, BaseRow, live, AwaitingDeleted)'
    BY <1>1, <1>3, <1>11, <1>13
  <2> QED
    BY <1>1, <1>3, <1>4, <1>8, <1>12, <2>1
<1> QED
  BY <1>14, <1>15, <1>16 DEF RInv
-----------------------------------------------------------------------------
(* The invariant of the rows, all steps together.                          *)

\* At first the table has the rows of the file.
LEMMA InitRows == Init => RInv
<1> SUFFICES ASSUME Init PROVE RInv
  OBVIOUS
<1>1. /\ total_rows = InitialRows /\ live = 0..InitialRows - 1 /\ index = 0..InitialRows - 1
      /\ current_start_timestamp = 2 /\ current_transaction_id = TRANSACTION_ID_START
      /\ transaction_lock = NoTxn /\ recently_committed = <<>>
      /\ \A t \in Txn : phase[t] = "idle"
  BY DEF Init
<1>2. \A v \in Vector : vector_info[v] = NoInfo /\ vector_info[v].type = "none"
  BY DEF Init, NoInfo
<1>3. \A v \in Vector, i \in Slot : MarkAt(vector_info[v], i) = 0 /\ DeleteMark(vector_info[v], i) = NOT_DELETED_ID
  BY <1>2 DEF MarkAt, DeleteMark
<1>4. InitialRows \in Nat /\ TRANSACTION_ID_START \in Nat /\ NOT_DELETED_ID \in Nat /\ 2 < NOT_DELETED_ID
  BY TableConstants, VersionConstants
<1>5. Running = {} /\ DeleteIds = {} /\ DOMAIN Deletes = {}
  <2>1. Running = {}
    BY <1>1 DEF Running
  <2>2. DeleteIds = {}
    BY <2>1 DEF DeleteIds
  <2> QED
    BY <2>1, <2>2 DEF Deletes
<1>6. ~ HasFlushed /\ BaseRow = InitialRows /\ InProgress = NOT_DELETED_ID + 1
  BY <1>1 DEF HasFlushed, BaseRow, InProgress
<1>7. DeletesOK(vector_info, Deletes, BaseRow, InProgress)
  <2>1. NOT_DELETED_ID # NOT_DELETED_ID + 1
    BY <1>4
  <2> QED
    BY <1>3, <1>5, <1>6, <2>1 DEF DeletesOK
<1>8. RowsOK(vector_info, BaseRow, current_start_timestamp, current_transaction_id, InProgress, live)
  <2>1. \A v \in Vector, i \in Slot : RowAt(v, i) \in Nat
    BY RowPlaces
  <2>2. \A x \in Nat : x < InitialRows => x \in 0..InitialRows - 1
    BY <1>4
  <2> QED
    BY <1>1, <1>3, <1>4, <1>6, <2>1, <2>2 DEF RowsOK
<1>9. ConstantsFull(vector_info, total_rows)
  BY <1>2 DEF ConstantsFull
<1>10. IndexOK(index, total_rows, BaseRow, live, AwaitingDeleted)
  <2>1. AwaitingDeleted = {}
    BY <1>1 DEF AwaitingDeleted, ToSet
  <2>2. BaseRow..total_rows - 1 = {}
    BY <1>1, <1>4, <1>6
  <2> QED
    BY <1>1, <1>6, <2>1, <2>2 DEF IndexOK
<1>11. RecentOK /\ Begun /\ FlushExtent(total_rows) /\ RollbackExtent
  <2>1. DOMAIN recently_committed = {}
    BY <1>1
  <2> QED
    BY <1>1, <1>5, <1>6, <2>1 DEF RecentOK, Begun, FlushExtent, RollbackExtent
<1> QED
  BY <1>7, <1>8, <1>9, <1>10, <1>11 DEF RInv

\* A step that changes nothing.
LEMMA SameRows ==
  ASSUME VInv, InRange, InRange', RInv, UNCHANGED vars
  PROVE  RInv'
<1>1. /\ UNCHANGED <<phase, start_time, transaction_id, commit_id, current_start_timestamp>>
      /\ UNCHANGED <<current_transaction_id, transaction_lock, undo, at>>
      /\ UNCHANGED <<total_rows, vector_info, index, recently_committed, live>>
  BY DEF vars
<1>2. /\ Running' = Running /\ HasFlushed' = HasFlushed /\ BaseRow' = BaseRow
      /\ HasFlushed => Flush' = Flush
  BY <1>1, FlushSame DEF Running
<1>3. InProgress' = InProgress
  BY <1>1, InProgressSame
<1>4. Deletes' = Deletes
  <2>1. DeleteIds' = DeleteIds
    <3>1. \A u : UndoUpTo(u)' = UndoUpTo(u)
      BY <1>1 DEF UndoUpTo
    <3> QED
      BY <1>1, <1>2, <3>1, Zenon DEF DeleteIds
  <2>2. \A p \in DeleteIds : undo'[p[1]][p[2]] = undo[p[1]][p[2]] /\ StampOf(p)' = StampOf(p)
    BY <1>1 DEF StampOf
  <2> QED
    BY <2>1, <2>2, DeletesSame
<1>5. TableOK'
  <2>1. TableOK
    BY DEF RInv, TableOK
  <2> QED
    BY <1>1, <1>2, <1>3, <1>4, <2>1, TableSteady
<1>6. FlushExtent(total_rows)' /\ RollbackExtent'
  BY <1>1, <1>2 DEF RInv, FlushExtent, RollbackExtent
<1>7. RecentOK' /\ Begun'
  BY <1>1, <1>2 DEF RInv, RecentOK, Begun
<1> QED
  BY <1>5, <1>6, <1>7 DEF RInv, TableOK

\* Every step keeps the invariant.
LEMMA RowsStep ==
  ASSUME VInv, InRange, InRange', RInv, [CleanRestart]_vars, [Next]_vars
  PROVE  RInv'
<1>1. CASE UNCHANGED vars
  BY <1>1, SameRows
<1>2. CASE Next /\ CleanRestart
  <2>1. CASE Restart
    BY <1>2, <2>1, RestartRows
  <2>2. ASSUME NEW t \in Txn,
               \/ StartTransaction(t) \/ BeginCommit(t) \/ FlushFails(t) \/ CommitEntry(t)
               \/ CommitFails(t) \/ RollbackTransaction(t) \/ RollbackEntry(t)
        PROVE  RInv'
    BY <2>2, StartRows, BeginCommitRows, FlushFailsRows, CommitEntryRows, CommitFailsRows,
       RollbackTransactionRows, RollbackEntryRows
  <2>3. ASSUME NEW t \in Txn, NEW n \in AppendCounts, LocalAppend(t, n) PROVE RInv'
    BY <2>3, StatementRows
  <2>4. ASSUME NEW t \in Txn, NEW v \in Vector, NEW p \in RowSets, Delete(t, v, p) \/ Update(t, v, p)
        PROVE  RInv'
    BY <2>4, DeleteRowsStep, StatementRows
  <2>5. ASSUME NEW t \in Txn, FinishCommit(t) \/ EndRollback(t) PROVE RInv'
    BY <2>5, FinishCommitRows, EndRollbackRows
  <2> QED
    BY <1>2, <2>1, <2>2, <2>3, <2>4, <2>5, Zenon DEF Next
<1> QED
  BY <1>1, <1>2
-----------------------------------------------------------------------------
(* The rows that a new transaction sees, and the index.                    *)

\* A new transaction selects the slots of the rows in L.
LEMMA SelectedRows ==
  ASSUME VInv, InRange, RInv, transaction_lock = NoTxn, NEW v \in Vector, NEW i \in Slot, RowAt(v, i) < total_rows
  PROVE  i \in GetSelVector(vector_info[v], NewTransaction) <=> RowAt(v, i) \in live
<1> DEFINE info == vector_info[v]
           clock == current_start_timestamp
           d == DeleteMark(info, i)
<1>1. Types /\ Clocks /\ VersionsSane(vector_info, total_rows)
  BY DEF VInv
<1>2. /\ clock \in Nat /\ current_transaction_id \in Nat /\ TRANSACTION_ID_START \in Nat /\ NOT_DELETED_ID \in Nat
      /\ clock <= TRANSACTION_ID_START /\ current_transaction_id <= NOT_DELETED_ID
      /\ TRANSACTION_ID_START < NOT_DELETED_ID /\ InProgress = NOT_DELETED_ID + 1
  BY <1>1, TimeFacts
<1>3. BaseRow = total_rows
  BY DEF BaseRow, HasFlushed
<1>4. /\ d \in (0..clock - 1) \cup (TRANSACTION_ID_START..current_transaction_id - 1) \cup {NOT_DELETED_ID}
      /\ MarkAt(info, i) < clock
      /\ RowAt(v, i) \in live <=> (clock <= d \/ d = NOT_DELETED_ID + 1)
  BY <1>2, <1>3 DEF RInv, RowsOK
<1>5. info \in Infos /\ Shortcuts(info, v, total_rows)
  BY <1>1 DEF Types, VersionsSane
<1> HIDE DEF info
<1>6. UseDeletedVersion(NewTransaction, d) <=> RowAt(v, i) \in live
  <2> HIDE DEF d, clock
  <2>1. UseDeletedVersion(NewTransaction, d) <=> ~ (d < clock \/ d = NOT_DELETED_ID + 1)
    BY DEF UseDeletedVersion, UseInsertedVersion, NewTransaction, clock
  <2>2. d # NOT_DELETED_ID + 1 /\ (d < clock <=> ~ (clock <= d))
    BY <1>2, <1>4
  <2> QED
    BY <1>4, <2>1, <2>2
<1>7. UseInsertedVersion(NewTransaction, MarkAt(info, i))
  BY <1>4 DEF UseInsertedVersion, NewTransaction
<1>8. UseDeletedVersion(NewTransaction, NOT_DELETED_ID)
  <2>1. ~ (NOT_DELETED_ID < clock) /\ NOT_DELETED_ID # NOT_DELETED_ID + 1
    BY <1>2
  <2> QED
    BY <2>1 DEF UseDeletedVersion, UseInsertedVersion, NewTransaction
<1>9. /\ info.type \in {"none", "constant", "vector"}
      /\ info.type = "none" => d = NOT_DELETED_ID
      /\ info.type = "constant" => MarkAt(info, i) = info.insert_id /\ d = info.delete_id
      /\ info.type = "vector" => MarkAt(info, i) = info.inserted[i] /\ d = info.deleted[i]
  BY <1>5, MarksByType
<1> HIDE DEF d
<1>10. CASE info.type = "none"
  BY <1>6, <1>8, <1>9, <1>10 DEF GetSelVector, info
<1>11. CASE info.type = "constant"
  BY <1>6, <1>7, <1>9, <1>11 DEF GetSelVector, info
<1>12. CASE info.type = "vector"
  <2>1. InsertMark(info, i) = info.inserted[i]
    BY <1>5, <1>12 DEF Shortcuts, InsertMark
  <2>2. ~ info.any_deleted => d = NOT_DELETED_ID
    BY <1>5, <1>9, <1>12 DEF Shortcuts
  <2>3. i \in GetSelVector(info, NewTransaction) <=>
           /\ UseInsertedVersion(NewTransaction, InsertMark(info, i))
           /\ info.any_deleted => UseDeletedVersion(NewTransaction, info.deleted[i])
    BY <1>12 DEF GetSelVector
  <2> QED
    BY <1>6, <1>7, <1>8, <1>9, <1>12, <2>1, <2>2, <2>3 DEF info
<1> QED
  BY <1>9, <1>10, <1>11, <1>12

\* No commit is in progress and a new transaction reads: it finds the live rows.
LEMMA LiveRowsVisible == VInv /\ MInv /\ InRange /\ RInv => CommittedRowsVisible
<1> SUFFICES ASSUME VInv, MInv, InRange, RInv, transaction_lock = NoTxn
             PROVE  {r \in Row : Reads(NewTransaction)[<<r, "row">>]} = live
  BY DEF CommittedRowsVisible
<1> DEFINE Sel(v) == GetSelVector(vector_info[v], NewTransaction)
           rows == UNION {{RowAt(v, i) : i \in Sel(v)} : v \in Vector}
<1>1. \A info : PendingInfo(info) = info
  <2>1. ~ Committing
    BY TableConstants DEF Committing, Reading
  <2> QED
    BY <2>1 DEF PendingInfo
<1>2. \A v \in Vector : Sel(v) \in SUBSET Slot
  <2> SUFFICES ASSUME NEW v \in Vector PROVE Sel(v) \in SUBSET Slot
    OBVIOUS
  <2>1. vector_info[v] \in Infos /\ 0 \in Slot
    BY VersionConstants DEF VInv, Types, Slot
  <2>2. vector_info[v].type \in {"none", "constant", "vector"}
    BY <2>1, MarksByType
  <2> QED
    BY <2>2 DEF GetSelVector
<1>3. ASSUME NEW r \in Row
      PROVE  Reads(NewTransaction)[<<r, "row">>] <=> r < total_rows /\ r \in rows
  <2>1. <<r, "row">> \in Key
    BY DEF Key
  <2>2. rows = UNION {{RowAt(v, i) : i \in GetSelVector(PendingInfo(vector_info[v]), NewTransaction)} : v \in Vector}
    BY <1>1
  <2> HIDE DEF rows
  <2> QED
    BY <2>1, <2>2 DEF Reads
<1>4. ASSUME NEW r \in Row
      PROVE  /\ VectorOf(r) \in Vector /\ SlotOf(r) \in Slot /\ RowAt(VectorOf(r), SlotOf(r)) = r
             /\ r \in rows <=> SlotOf(r) \in Sel(VectorOf(r))
  <2>1. VectorOf(r) \in Vector /\ SlotOf(r) \in Slot /\ RowAt(VectorOf(r), SlotOf(r)) = r
    BY PlaceOfRow
  <2>2. ASSUME NEW v \in Vector, NEW i \in Sel(v), r = RowAt(v, i) PROVE SlotOf(r) \in Sel(VectorOf(r))
    <3>1. i \in Slot
      BY <1>2
    <3>2. v = VectorOf(r) /\ i = SlotOf(r)
      BY <2>1, <2>2, <3>1, RowAtOnce
    <3> QED
      BY <3>2
  <2>3. r \in rows <=> \E v \in Vector : \E i \in Sel(v) : r = RowAt(v, i)
    <3> DEFINE R(v) == {RowAt(v, i) : i \in Sel(v)}
    <3>1. \A v : r \in R(v) <=> \E i \in Sel(v) : r = RowAt(v, i)
      OBVIOUS
    <3>2. rows = UNION {R(v) : v \in Vector}
      OBVIOUS
    <3> HIDE DEF R, rows
    <3>3. r \in rows <=> \E v \in Vector : r \in R(v)
      BY <3>2
    <3> HIDE DEF Sel
    <3> QED
      BY <3>1, <3>3
  <2> HIDE DEF Sel, rows
  <2> QED
    BY <2>1, <2>2, <2>3
<1>5. ASSUME NEW r \in Row, r < total_rows PROVE SlotOf(r) \in Sel(VectorOf(r)) <=> r \in live
  BY <1>4, <1>5, SelectedRows
<1>6. live \subseteq Row /\ \A r \in live : r < total_rows
  <2>1. live \subseteq 0..total_rows - 1
    <3>1. BaseRow = total_rows
      BY DEF BaseRow, HasFlushed
    <3> QED
      BY <3>1 DEF RInv, RowsOK
  <2>2. total_rows \in 0..MaxRows
    BY TableTypes DEF TypeOK
  <2> QED
    BY <2>1, <2>2, TableConstants DEF Row
<1> HIDE DEF rows, Sel
<1>7. \A r \in Row : Reads(NewTransaction)[<<r, "row">>] <=> r \in live
  BY <1>3, <1>4, <1>5, <1>6
<1> QED
  BY <1>6, <1>7

\* Between commits the index has the live rows, and deleted ones only while they await
\* their cleanup.
LEMMA IndexHasLiveRows == VInv /\ RInv => IndexConsistent
<1> SUFFICES ASSUME VInv, RInv, transaction_lock = NoTxn
             PROVE  /\ live \subseteq index /\ index \subseteq 0..total_rows - 1
                    /\ Running = {} => index = live
  BY DEF IndexConsistent
<1>1. BaseRow = total_rows /\ total_rows \in Nat
  BY DEF BaseRow, HasFlushed, VInv, Types
<1>2. total_rows..total_rows - 1 = {}
  BY <1>1
<1>3. /\ live \subseteq index /\ index \subseteq live \cup AwaitingDeleted
      /\ live \subseteq 0..total_rows - 1 /\ AwaitingDeleted \subseteq 0..total_rows - 1
  BY <1>1, <1>2 DEF RInv, IndexOK, RowsOK
<1>4. Running = {} => AwaitingDeleted = {}
  <2>1. Running = {} => recently_committed = <<>>
    BY DEF RInv, RecentOK
  <2>2. recently_committed = <<>> => AwaitingDeleted = {}
    BY DEF AwaitingDeleted, ToSet
  <2> QED
    BY <2>1, <2>2
<1> QED
  BY <1>3, <1>4

\* As long as the counters stay in their ranges and a restart finds no mark of a failed
\* commit behind the last row, a new transaction sees exactly the rows that commits have
\* added and not deleted: through conflicts, failed flushes and commits, rollbacks, cleanups
\* and restarts, for any table and any number of transactions.
THEOREM CommittedRowsAreVisible ==
  Spec /\ []InRange /\ [][CleanRestart]_vars => []CommittedRowsVisible
<1> DEFINE Inv == VInv /\ MInv /\ RInv
<1>1. Init => Inv
  BY InitVersions, InitMarks, InitRows
<1>2. Inv /\ InRange /\ InRange' /\ [CleanRestart]_vars /\ [Next]_vars => Inv'
  BY VersionsStep, MarksStep, FitStep, RowsStep DEF MInv
<1>3. Inv /\ InRange => CommittedRowsVisible
  BY LiveRowsVisible
<1> QED
  BY <1>1, <1>2, <1>3, PTL DEF Spec

\* Under the same hypotheses the index holds every row of a new transaction and none past
\* the end of the table, and no deleted row once all transactions have ended: RevertAppend
\* and UndoBuffer::Cleanup take out what they must and no more.
THEOREM IndexIsConsistent ==
  Spec /\ []InRange /\ [][CleanRestart]_vars => []IndexConsistent
<1> DEFINE Inv == VInv /\ RInv
<1>1. Init => Inv
  BY InitVersions, InitRows
<1>2. Inv /\ InRange /\ InRange' /\ [CleanRestart]_vars /\ [Next]_vars => Inv'
  BY VersionsStep, RowsStep
<1>3. Inv /\ InRange => IndexConsistent
  BY IndexHasLiveRows
<1> QED
  BY <1>1, <1>2, <1>3, PTL DEF Spec
=============================================================================
