-------------------------- MODULE UpdatableServer ---------------------------
(***************************************************************************)
(* The updatable server (updatable/pir_updatable_server.go): a map from    *)
(* keys to rows, the log of the operations that built it, and the rows of  *)
(* the log in one flat database.                                           *)
(*                                                                         *)
(* Operations are numbered by timestamps: the operation at place i of the  *)
(* log (from 1) has timestamp initialTimestamp + i - 1.  A client asks for *)
(* the operations from its next timestamp on.  When the log is long for    *)
(* the keys it holds, DeleteRows defragments its first half: only the      *)
(* additions that still count are kept, pushed up against the second half, *)
(* so that operations after defragTimestamp keep their timestamps.         *)
(*                                                                         *)
(* A server is a record and an operation maps servers to servers, because  *)
(* a client has two of them (module Updatable).  The order of the keys in  *)
(* the ordered map is left out: only enumerations for tests use it.        *)
(***************************************************************************)
EXTENDS Integers, Sequences, FiniteSets, FiniteSetsExt, Places

CONSTANTS
  Keys,        \* the keys in use
  NoRow,       \* a nil row
  DefragRatio  \* Server.defragRatio

ASSUME UpdatableServerAssumption ==
  /\ Keys \subseteq Nat
  /\ DefragRatio \in Nat

AddOp(k, row) == [Key |-> k, Delete |-> FALSE, data |-> row]
DelOp(k)      == [Key |-> k, Delete |-> TRUE, data |-> NoRow]

EmptyMap == [k \in {} |-> NoRow]

NewUpdatableServer ==
  [ops |-> <<>>, kv |-> EmptyMap, flatDb |-> <<>>,
   initialTimestamp |-> 0, defragTimestamp |-> 0]

\* The timestamp of the server's next operation.
ServerTimestamp(s) == s.initialTimestamp + Len(s.ops)

\* The place of the last operation on key k among the first n; 0 if none.
LastOn(ops, n, k) == Max({0} \cup {i \in 1..n : ops[i].Key = k})

\* The map after the operations new, each a kv.Set or a kv.Delete.
Replayed(kv, new) ==
  LET touched == {new[i].Key : i \in 1..Len(new)}
      last(k) == new[LastOn(new, Len(new), k)]
  IN  [k \in (DOMAIN kv \ touched) \cup {t \in touched : ~last(t).Delete} |->
         IF k \in touched THEN last(k).data ELSE kv[k]]

\* Mutant: rows of deletions are stored as well.
AllOpsToRows(ops) == [i \in 1..Len(ops) |-> ops[i].data]

\* The rows of the additions of a log, in its order.
opsToRows(ops) ==
  LET adds == Picked(ops, {i \in 1..Len(ops) : ~ops[i].Delete})
  IN  [i \in 1..Len(adds) |-> adds[i].data]

\* sort.Slice by key; operations on the same key keep their order, as in
\* every batch of at most twelve.
SortedByKey(ops) ==
  LET n     == Len(ops)
      place == [i \in 1..n |->
                  Cardinality({j \in 1..n : \/ ops[j].Key < ops[i].Key
                                            \/ ops[j].Key = ops[i].Key /\ j <= i})]
  IN  [p \in 1..n |-> ops[CHOOSE i \in 1..n : place[i] = p]]

AddRows(s, batch) ==
  LET ops == SortedByKey(batch)
  IN  [s EXCEPT !.ops    = @ \o ops,
                !.kv     = Replayed(@, ops),
                !.flatDb = @ \o opsToRows(ops)]

-----------------------------------------------------------------------------
\* Mutant: a deletion does not undo the additions before it.
CountsUnlessReplaced(ops, endDefrag, i) ==
  /\ ~ops[i].Delete
  /\ \A j \in i+1..endDefrag : ops[j].Key = ops[i].Key => ops[j].Delete

\* Does the first loop of defrag leave keyToPos[key] at place i?
Counts(ops, endDefrag, i) ==
  ~ops[i].Delete /\ LastOn(ops, endDefrag, ops[i].Key) = i

\* defrag: the first loop finds, for every key, the addition that counts, and
\* how many operations go; the second pushes the additions that count up
\* against the rest.
Defrag(ops, endDefrag) ==
  LET prevExists(i) == LET l == LastOn(ops, i - 1, ops[i].Key)
                       IN  l # 0 /\ ~ops[l].Delete
      freed  == Cardinality({i \in 1..endDefrag : prevExists(i)})
                  + Cardinality({i \in 1..endDefrag : ops[i].Delete})
      kept   == {i \in 1..endDefrag : Counts(ops, endDefrag, i)}
      pushed == Picked(ops, kept) \o SubSeq(ops, endDefrag + 1, Len(ops))
  IN  SubSeq(pushed, 1, Len(ops) - freed)

\* Mutant: the timestamps of the second half move.
DefraggedServerNoShift(s) ==
  LET endDefrag == Len(s.ops) \div 2
      newOps    == Defrag(s.ops, endDefrag)
  IN  [s EXCEPT !.defragTimestamp = s.initialTimestamp + endDefrag,
                !.ops    = newOps,
                !.flatDb = opsToRows(newOps)]

\* The end of DeleteRows, when the log has grown too long.
DefraggedServer(s) ==
  LET endDefrag == Len(s.ops) \div 2
      newOps    == Defrag(s.ops, endDefrag)
  IN  [s EXCEPT !.defragTimestamp  = s.initialTimestamp + endDefrag,
                !.initialTimestamp = @ + (Len(s.ops) - Len(newOps)),
                !.ops    = newOps,
                !.flatDb = opsToRows(newOps)]

DeleteRows(s, keys) ==
  LET ops == [i \in 1..Len(keys) |-> DelOp(keys[i])]
      t   == [s EXCEPT !.ops = @ \o ops, !.kv = Replayed(@, ops)]
  IN  IF Len(t.ops) > DefragRatio * Cardinality(DOMAIN t.kv)
      THEN DefraggedServer(t) ELSE t

-----------------------------------------------------------------------------
\* What goes over the wire of an operation.
KeyOf(op) == [Key |-> op.Key, Delete |-> op.Delete]

\* KeyUpdates.  An answer without operations carries no InitialTimestamp.
KeyUpdates(s, reqTimestamp) ==
  LET old      == reqTimestamp < s.defragTimestamp
      next     == IF old THEN s.initialTimestamp ELSE reqTimestamp
      firstPos == IF next >= s.initialTimestamp
                  THEN next - s.initialTimestamp ELSE 0
      count    == Len(s.ops) - firstPos
  IN  [ShouldDeleteHistory |-> old,
       DefragTimestamp     |-> s.defragTimestamp,
       InitialTimestamp    |-> IF count = 0 THEN 0
                               ELSE s.initialTimestamp + firstPos,
       ops |-> [i \in 1..count |-> KeyOf(s.ops[firstPos + i])]]
=============================================================================
