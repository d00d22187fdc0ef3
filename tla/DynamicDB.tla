----------------------------- MODULE DynamicDB -----------------------------
(***************************************************************************)
(* The updatable server of SinglePass (pir/dynamic_db.go over              *)
(* pir/static_db.go): a flat array of rows, a log of every row written,    *)
(* and the two mutating calls EditRows and AppendRows.                     *)
(*                                                                         *)
(* A mutating call is a loop over its rows; each iteration is one step     *)
(* (EditStep), so the version counter that the code advances only after    *)
(* the loop lags the log while a call runs.  The module constrains only    *)
(* its own variables; SinglePass composes it with a reader.                *)
(***************************************************************************)
EXTENDS XorRows, Sequences

CONSTANTS
  N,            \* rows given to DynamicDBFromRows
  FirstRows,    \* those rows, [0..N-1 -> Row]
  NewRows,      \* the rows a caller may write
  Editable,     \* the indices a caller rewrites with EditRows
  EditsPastEnd, \* may a caller rewrite a row that the database does not have?
  Appends,      \* does a caller use AppendRows?
  EmptyOnFull,  \* may a caller append no rows to a full database?
  MaxBatch,     \* bound: rows in one EditRows or AppendRows call
  MaxOps        \* bound: rows written in a behaviour

\* What DynamicDBFromRows needs: at least one row, all of one length.
ASSUME DynamicDBAssumption ==
  /\ N \in Nat \ {0}
  /\ FirstRows \in [0..N-1 -> Row]
  /\ NewRows \subseteq Row
  /\ Editable \subseteq Nat
  /\ EditsPastEnd \in BOOLEAN
  /\ Appends \in BOOLEAN
  /\ EmptyOnFull \in BOOLEAN
  /\ MaxBatch \in Nat
  /\ MaxOps \in Nat

VARIABLES
  flatDb,      \* StaticDB.FlatDb, row by row
  numRows,     \* StaticDB.NumRows, the capacity
  dbVersion,   \* StaticDB.Version, rows written in place
  ops,         \* DynamicDB.ops
  currVersion, \* DynamicDB.currVersion
  realSizeDB,  \* DynamicDB.realSizeDB, rows in use
  call,        \* the mutating call in progress
  batch,       \* the rows it writes
  editIdx      \* iterations of its loop done so far

dbVars == <<flatDb, numRows, dbVersion, ops, currVersion, realSizeDB,
            call, batch, editIdx>>

Op    == [Index : Nat, Old : Row, New : Row]
Write == [Index : Nat, New : Row]

\* int(math.Sqrt(float64(n)))
ISqrt(n) == CHOOSE r \in 0..n : r * r <= n /\ n < (r + 1) * (r + 1)

\* Mutant: the extension follows the current capacity.
ExtendSizeRecomputed == numRows \div ISqrt(numRows)

\* Rows added by one extension; fixed when the database is built.
ExtendSize == N \div ISqrt(N)

\* ddb.opInitVersion: never assigned, checkUpdateState being empty.
OpInitVersion == 0

Quiet == call = "none"

DbInit ==
  /\ flatDb = FirstRows
  /\ numRows = N
  /\ dbVersion = 0
  /\ ops = <<>>
  /\ currVersion = 0
  /\ realSizeDB = N
  /\ call = "none"
  /\ batch = <<>>
  /\ editIdx = 0

\* Mutant: NumRows grows and FlatDb does not.
ExtendedNotAtAll(db, from, k) == db

\* db.ExtendDb(k): k zero rows at the end.
Extended(db, from, k) ==
  [i \in 0..(from + k - 1) |-> IF i < from THEN db[i] ELSE ZeroRow]

\* Mutant: the batch is left out of the test.
NeedsExtensionWhenFull(k) == realSizeDB >= numRows

\* The test of AppendRows before it extends.
NeedsExtension(k) == realSizeDB + k >= numRows

\* The indices of EditRows, which looks at none of them.
Edited == IF EditsPastEnd THEN Editable ELSE Editable \cap 0..(numRows - 1)

\* EditRows(updateIndices, updatedRows) is entered, perhaps with no rows.  Slices of
\* different lengths are an error that changes nothing.
BeginEditRows ==
  /\ Quiet
  /\ \E k \in 0..MaxBatch :
       /\ Len(ops) + k <= MaxOps
       /\ batch' \in [1..k -> [Index : Edited, New : NewRows]]
  /\ call' = "edit"
  /\ editIdx' = 0
  /\ UNCHANGED <<flatDb, numRows, dbVersion, ops, currVersion, realSizeDB>>

\* AppendRows(newRows) up to its call of EditRows: the static database is
\* extended once, and the rows go to the indices after the last used one.  No rows
\* are a batch like any other: a full database is extended for them.
BeginAppendRows ==
  /\ Quiet
  /\ Appends
  /\ \E k \in 0..MaxBatch : \E rows \in [1..k -> NewRows] :
       /\ Len(ops) + k <= MaxOps
       /\ k = 0 => EmptyOnFull \/ realSizeDB < numRows
       /\ batch' = [m \in 1..k |->
                      [Index |-> realSizeDB + m - 1, New |-> rows[m]]]
       /\ IF NeedsExtension(k)
          THEN /\ flatDb' = Extended(flatDb, numRows, ExtendSize)
               /\ numRows' = numRows + ExtendSize
          ELSE UNCHANGED <<flatDb, numRows>>
  /\ call' = "append"
  /\ editIdx' = 0
  /\ UNCHANGED <<dbVersion, ops, currVersion, realSizeDB>>

\* One iteration of EditRows: log the old and the new row, then UpdateRow,
\* which drops a row whose index is out of range.
EditStep ==
  /\ ~Quiet
  /\ editIdx < Len(batch)
  /\ LET w == batch[editIdx + 1]
         inRange == w.Index < numRows
         old == IF inRange THEN flatDb[w.Index] ELSE ZeroRow
     IN /\ ops' = Append(ops, [Index |-> w.Index, Old |-> old, New |-> w.New])
        /\ IF inRange
           THEN /\ flatDb' = [flatDb EXCEPT ![w.Index] = w.New]
                /\ dbVersion' = dbVersion + 1
           ELSE UNCHANGED <<flatDb, dbVersion>>
  /\ editIdx' = editIdx + 1
  /\ UNCHANGED <<numRows, currVersion, realSizeDB, call, batch>>

\* EditRows returns, and AppendRows after it.
EndEdit ==
  /\ ~Quiet
  /\ editIdx = Len(batch)
  /\ currVersion' = currVersion + Len(batch)
  /\ realSizeDB' = IF call = "append" THEN realSizeDB + Len(batch)
                                      ELSE realSizeDB
  /\ call' = "none"
  /\ batch' = <<>>
  /\ editIdx' = 0
  /\ UNCHANGED <<flatDb, numRows, dbVersion, ops>>

DbNext == BeginEditRows \/ BeginAppendRows \/ EditStep \/ EndEdit

-----------------------------------------------------------------------------
DbTypeOK ==
  /\ numRows \in Nat \ {0}
  /\ flatDb \in [0..numRows-1 -> Row]
  /\ dbVersion \in Nat
  /\ ops \in Seq(Op)
  /\ currVersion \in Nat
  /\ realSizeDB \in Nat
  /\ call \in {"none", "edit", "append"}
  /\ batch \in Seq(Write)
  /\ editIdx \in 0..Len(batch)
=============================================================================
