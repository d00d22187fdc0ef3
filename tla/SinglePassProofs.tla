-------------------------- MODULE SinglePassProofs --------------------------
(***************************************************************************)
(* What holds of SinglePass, in five parts.                                *)
(*                                                                         *)
(* 1. The types of the server's variables, for every database, every batch *)
(*    and every number of calls.                                           *)
(* 2. The laws of the row algebra of XorRows, for every set of bit         *)
(*    positions and every finite family of rows.                           *)
(* 3. For every database, every set size and every caller: the types of    *)
(*    the variables, and that the two position maps of a block are         *)
(*    permutations inverse to each other.                                  *)
(* 4. The invariant under which a disciplined caller reads the right rows. *)
(* 5. The theorems about a disciplined caller: the steps that change the   *)
(*    hints (reconstruct, and the loop of updateState) preserve that       *)
(*    invariant too, which is therefore true of every behaviour, and the   *)
(*    reader implements PIRStore.                                          *)
(***************************************************************************)
EXTENDS SinglePass, CommonLemmas, FiniteSetTheorems, FunctionTheorems, SequenceTheorems, TLAPS

-----------------------------------------------------------------------------
\* The integer square root of a positive number is positive and not above it.
LEMMA ISqrtType ==
  ASSUME NEW n \in Nat \ {0}
  PROVE  /\ ISqrt(n) \in 1..n
         /\ ISqrt(n) * ISqrt(n) <= n
  <1> DEFINE T == {x \in Nat : n < (x + 1) * (x + 1)}
  <1>1. PICK r \in T : \A y \in T : r <= y
    <2>1. n < (n + 1) * (n + 1)
      OBVIOUS
    <2>2. n \in T
      BY <2>1
    <2> QED BY <2>2, LeastNatural
  <1>2. r # 0
    BY <1>1
  <1>3. r * r <= n
    <2>1. r - 1 \in Nat /\ r - 1 \notin T
      BY <1>1, <1>2
    <2>2. ~(n < ((r - 1) + 1) * ((r - 1) + 1))
      BY <2>1
    <2>3. (r - 1) + 1 = r
      BY <1>1
    <2>4. r \in Int /\ r * r \in Int
      BY <1>1
    <2> QED BY <2>2, <2>3, <2>4
  <1>4. r <= n
    <2>1. r * r >= r
      BY <1>1, <1>2
    <2>2. r \in Nat /\ r * r \in Nat
      BY <1>1
    <2> QED BY <1>3, <2>1, <2>2
  <1>5. r \in 0..n /\ r * r <= n /\ n < (r + 1) * (r + 1)
    BY <1>1, <1>3, <1>4
  <1>6. /\ ISqrt(n) \in 0..n
        /\ ISqrt(n) * ISqrt(n) <= n
        /\ n < (ISqrt(n) + 1) * (ISqrt(n) + 1)
    BY <1>5 DEF ISqrt
  <1>7. ISqrt(n) # 0
    BY <1>6
  <1> QED BY <1>6, <1>7

\* An extension adds at least one row.
LEMMA ExtendSizeType == ExtendSize \in Nat \ {0}
  <1>1. N \in Nat \ {0}
    BY DynamicDBAssumption
  <1>2. ISqrt(N) \in Nat /\ 0 < ISqrt(N) /\ ISqrt(N) <= N
    BY <1>1, ISqrtType
  <1> DEFINE s == ISqrt(N)
             q == N \div s
  <1> HIDE DEF s
  <1>3. q \in Int /\ N % s \in 0..s-1 /\ N = s * q + (N % s)
    BY <1>1, <1>2, DivMod DEF s
  <1>4. q > 0
    <2>1. CASE q <= 0
      <3>1. s * q <= 0
        BY <1>2, <1>3, <2>1 DEF s
      <3>2. s * q \in Int
        BY <1>2, <1>3 DEF s
      <3> QED BY <1>1, <1>2, <1>3, <3>1, <3>2 DEF s
    <2> QED BY <1>3, <2>1
  <1> QED BY <1>3, <1>4 DEF ExtendSize, s

LEMMA DbTypeInit == DbInit => DbTypeOK
  BY DynamicDBAssumption, EmptySeq DEF DbInit, DbTypeOK

\* The extended array of rows.
LEMMA ExtendedType ==
  ASSUME NEW k \in Nat, NEW e \in Nat, NEW f \in [0..k-1 -> Row]
  PROVE  /\ Extended(f, k, e) \in [0..(k + e - 1) -> Row]
         /\ \A i \in 0..k-1 : Extended(f, k, e)[i] = f[i]
         /\ \A i \in k..(k + e - 1) : Extended(f, k, e)[i] = ZeroRow
  BY DEF Extended, Row, ZeroRow

\* The row the next iteration of EditRows writes, and the one it logs as old.
NextWrite == batch[editIdx + 1]

NextLogged ==
  [Index |-> NextWrite.Index,
   Old   |-> IF NextWrite.Index < numRows THEN flatDb[NextWrite.Index] ELSE ZeroRow,
   New   |-> NextWrite.New]

LEMMA NextWriteType ==
  ASSUME DbTypeOK, editIdx < Len(batch)
  PROVE  NextWrite \in Write /\ NextLogged \in Op
  <1>1. editIdx + 1 \in 1..Len(batch) /\ batch \in Seq(Write)
    BY DEF DbTypeOK
  <1>2. NextWrite \in Write
    BY <1>1, ElementOfSeq DEF NextWrite
  <1> QED BY <1>2 DEF NextLogged, DbTypeOK, Write, Op, Row, ZeroRow

LEMMA EditStepIs ==
  ASSUME EditStep
  PROVE  /\ ops' = Append(ops, NextLogged)
         /\ flatDb' = IF NextWrite.Index < numRows
                      THEN [flatDb EXCEPT ![NextWrite.Index] = NextWrite.New]
                      ELSE flatDb
         /\ dbVersion' = IF NextWrite.Index < numRows
                         THEN dbVersion + 1 ELSE dbVersion
  BY DEF EditStep, NextLogged, NextWrite

\* The types of the server's variables are preserved by every step.
LEMMA DbTypeStep ==
  ASSUME DbTypeOK, [DbNext]_dbVars
  PROVE  DbTypeOK'
  <1> USE DEF DbTypeOK
  <1>1. CASE BeginEditRows
    <2>1. PICK k \in 0..MaxBatch : batch' \in [1..k -> [Index : Edited, New : NewRows]]
      BY <1>1 DEF BeginEditRows
    <2>2. [Index : Edited, New : NewRows] \subseteq Write
      BY DynamicDBAssumption DEF Write, Edited
    <2>3. batch' \in [1..k -> Write] /\ k \in Nat
      BY <2>1, <2>2, DynamicDBAssumption
    <2>4. batch' \in Seq(Write) /\ Len(batch') = k
      BY <2>3
    <2> QED BY <1>1, <2>3, <2>4 DEF BeginEditRows
  <1>2. CASE BeginAppendRows
    <2>0. PICK k \in 0..MaxBatch : \E rows \in [1..k -> NewRows] :
            /\ batch' = [m \in 1..k |->
                           [Index |-> realSizeDB + m - 1, New |-> rows[m]]]
            /\ IF NeedsExtension(k)
               THEN /\ flatDb' = Extended(flatDb, numRows, ExtendSize)
                    /\ numRows' = numRows + ExtendSize
               ELSE UNCHANGED <<flatDb, numRows>>
      BY <1>2 DEF BeginAppendRows
    <2>1. PICK rows \in [1..k -> NewRows] :
            /\ batch' = [m \in 1..k |->
                           [Index |-> realSizeDB + m - 1, New |-> rows[m]]]
            /\ IF NeedsExtension(k)
               THEN /\ flatDb' = Extended(flatDb, numRows, ExtendSize)
                    /\ numRows' = numRows + ExtendSize
               ELSE UNCHANGED <<flatDb, numRows>>
      BY <2>0
    <2>2. \A m \in 1..k :
            [Index |-> realSizeDB + m - 1, New |-> rows[m]] \in Write
      BY DynamicDBAssumption DEF Write
    <2>3. batch' \in Seq(Write) /\ Len(batch') = k
      <3>1. batch' \in [1..k -> Write] /\ k \in Nat
        BY <2>1, <2>2, DynamicDBAssumption
      <3> QED BY <3>1
    <2>4. numRows' \in Nat \ {0} /\ flatDb' \in [0..numRows'-1 -> Row]
      <3>1. CASE NeedsExtension(k)
        <4>1. numRows' = numRows + ExtendSize /\ ExtendSize \in Nat \ {0}
          BY <2>1, <3>1, ExtendSizeType
        <4>2. flatDb' \in [0..(numRows + ExtendSize - 1) -> Row]
          BY <2>1, <3>1, ExtendSizeType, ExtendedType
        <4> QED BY <4>1, <4>2
      <3>2. CASE ~NeedsExtension(k)
        BY <2>1, <3>2
      <3> QED BY <3>1, <3>2
    <2>5. editIdx' \in 0..Len(batch')
      BY <1>2, <2>3, DynamicDBAssumption DEF BeginAppendRows
    <2> QED BY <1>2, <2>3, <2>4, <2>5 DEF BeginAppendRows
  <1>3. CASE EditStep
    <2>1. NextWrite \in Write /\ NextLogged \in Op
      BY <1>3, NextWriteType DEF EditStep
    <2>2. ops' \in Seq(Op)
      <3>1. ops' = Append(ops, NextLogged)
        BY <1>3, EditStepIs
      <3>2. ops \in Seq(Op)
        OBVIOUS
      <3> HIDE DEF DbTypeOK
      <3>3. Append(ops, NextLogged) \in Seq(Op)
        BY <2>1, <3>2, AppendProperties
      <3> QED BY <3>1, <3>3
    <2>3. flatDb' \in [0..numRows'-1 -> Row] /\ dbVersion' \in Nat
      <3>1. numRows' = numRows
        BY <1>3 DEF EditStep
      <3>2. NextWrite.Index \in Nat /\ NextWrite.New \in Row
        BY <2>1 DEF Write
      <3>3. CASE NextWrite.Index < numRows
        <4>1. flatDb' = [flatDb EXCEPT ![NextWrite.Index] = NextWrite.New]
          BY <1>3, <3>3, EditStepIs
        <4>2. dbVersion' = dbVersion + 1
          BY <1>3, <3>3, EditStepIs
        <4> QED BY <3>1, <3>2, <4>1, <4>2
      <3>4. CASE ~(NextWrite.Index < numRows)
        <4>1. flatDb' = flatDb /\ dbVersion' = dbVersion
          BY <1>3, <3>4, EditStepIs
        <4> QED BY <3>1, <4>1
      <3> QED BY <3>3, <3>4
    <2>4. editIdx' \in 0..Len(batch')
      BY <1>3, LenProperties DEF EditStep
    <2> QED BY <1>3, <2>2, <2>3, <2>4 DEF EditStep
  <1>4. CASE EndEdit
    <2>1. Len(batch) \in Nat
      BY LenProperties
    <2>2. batch' \in Seq(Write) /\ Len(batch') = 0
      BY <1>4, EmptySeq DEF EndEdit
    <2> QED BY <1>4, <2>1, <2>2 DEF EndEdit
  <1>5. CASE UNCHANGED dbVars
    BY <1>5 DEF dbVars
  <1> QED BY <1>1, <1>2, <1>3, <1>4, <1>5 DEF DbNext

-----------------------------------------------------------------------------
(***************************************************************************)
(* The invariant of the server, for extensions of n rows.                  *)
(***************************************************************************)

\* Rows in use once the call in progress has returned, and those in use by
\* the iterations it has done.
Filled == realSizeDB + (IF call = "append" THEN Len(batch) ELSE 0)
Stored == realSizeDB + (IF call = "append" THEN editIdx ELSE 0)

\* Every operation is counted, stored, and about a row that exists.
LogInv ==
  /\ Len(ops) = currVersion + editIdx
  /\ dbVersion = Len(ops)
  /\ \A k \in 1..Len(ops) : ops[k].Index < numRows
  /\ call = "none" => Len(batch) = 0
  /\ \A m \in 1..Len(batch) :
       /\ batch[m].Index < numRows
       /\ call = "append" => batch[m].Index = realSizeDB + m - 1

\* The capacity is a number of blocks, at most one of them not yet used.
SpaceInv(n) ==
  /\ N <= realSizeDB
  /\ Filled <= numRows
  /\ numRows <= Filled + n
  /\ \E m \in 1..numRows : numRows = m * n
  /\ numRows > N => Filled > N
  /\ ~Appends => numRows = N

\* Every appended row is in the log, and the log reaches the rows of a
\* block only after rows of the block before it.
AppendsLogged ==
  \A i \in N..(Stored - 1) : \E k \in 1..Len(ops) : ops[k].Index = i

NoBlockSkipped(n) ==
  \A k \in 1..Len(ops) :
    N <= ops[k].Index - n =>
      \E l \in 1..(k - 1) : ops[l].Index = ops[k].Index - n

DbInv(n) == LogInv /\ SpaceInv(n) /\ AppendsLogged /\ NoBlockSkipped(n)

\* What the extensions add up to, how large a batch may be, and that every
\* extension and every operation of the log is about rows that exist.
ExtensionsOf(n) ==
  /\ n \in Nat \ {0}
  /\ ~EditsPastEnd
  /\ Appends => ExtendSize = n /\ MaxBatch <= n /\ ~EmptyOnFull

LEMMA DbInvInit ==
  ASSUME NEW n \in Nat \ {0}, NEW s \in Nat, N = s * n, DbInit
  PROVE  DbInv(n)
  <1>1. N \in Nat \ {0} /\ s >= 1 /\ s <= N
    <2>1. N \in Nat \ {0}
      BY DynamicDBAssumption
    <2>2. s # 0
      BY <2>1
    <2>3. s * n >= s
      BY <2>2
    <2> QED BY <2>1, <2>2, <2>3
  <1>2. LogInv
    BY DEF DbInit, LogInv
  <1>3. SpaceInv(n)
    BY <1>1 DEF DbInit, SpaceInv, Filled
  <1>4. AppendsLogged
    BY <1>1 DEF DbInit, AppendsLogged, Stored
  <1>5. NoBlockSkipped(n)
    BY DEF DbInit, NoBlockSkipped
  <1> QED BY <1>2, <1>3, <1>4, <1>5 DEF DbInv

LEMMA DbInvBeginEditRows ==
  ASSUME NEW n, ExtensionsOf(n), DbTypeOK, DbInv(n), BeginEditRows
  PROVE  DbInv(n)'
  <1>1. PICK k \in 0..MaxBatch : batch' \in [1..k -> [Index : Edited, New : NewRows]]
    BY DEF BeginEditRows
  <1>2. k \in Nat /\ Len(batch') = k
    BY <1>1, DynamicDBAssumption
  <1>3. call = "none" /\ call' = "edit" /\ editIdx' = 0
        /\ UNCHANGED <<flatDb, numRows, dbVersion, ops, currVersion, realSizeDB>>
    BY DEF BeginEditRows, Quiet
  <1>4. editIdx = 0 /\ Len(batch) = 0
    BY <1>3 DEF DbInv, LogInv, DbTypeOK
  <1>5. LogInv'
    <2>1. Edited \subseteq 0..(numRows - 1)
      BY DEF Edited, ExtensionsOf
    <2>2. ASSUME NEW m \in 1..Len(batch') PROVE batch'[m].Index < numRows
      <3>1. batch'[m].Index \in Edited
        BY <1>1, <1>2
      <3>2. numRows \in Nat /\ batch'[m].Index \in 0..(numRows - 1)
        BY <2>1, <3>1 DEF DbTypeOK
      <3> QED BY <3>2
    <2> QED BY <1>3, <1>4, <2>2 DEF DbInv, LogInv
  <1>6. Filled' = Filled /\ Stored' = Stored
    BY <1>3, <1>4 DEF Filled, Stored
  <1>7. SpaceInv(n)'
    BY <1>3, <1>6 DEF DbInv, SpaceInv
  <1>8. AppendsLogged' /\ NoBlockSkipped(n)'
    BY <1>3, <1>6 DEF DbInv, AppendsLogged, NoBlockSkipped
  <1> QED BY <1>5, <1>7, <1>8 DEF DbInv

\* AppendRows extends by one block, and then writes rows, or not at all.
LEMMA BeginAppendRowsIs ==
  ASSUME NEW n, ExtensionsOf(n), DbTypeOK, DbInv(n), BeginAppendRows
  PROVE  /\ call = "none" /\ call' = "append" /\ editIdx = 0 /\ editIdx' = 0
         /\ UNCHANGED <<dbVersion, ops, currVersion, realSizeDB>>
         /\ Len(batch) = 0 /\ Len(batch') \in 0..n
         /\ Len(batch') = 0 => realSizeDB < numRows
         /\ \A m \in 1..Len(batch') : batch'[m].Index = realSizeDB + m - 1
         /\ numRows' = IF NeedsExtension(Len(batch')) THEN numRows + n ELSE numRows
         /\ \A i \in 0..(numRows - 1) : flatDb'[i] = flatDb[i]
         /\ \A i \in numRows..(numRows' - 1) : flatDb'[i] = ZeroRow
         /\ Appends
  <1>1. PICK k \in 0..MaxBatch : \E rows \in [1..k -> NewRows] :
          /\ k = 0 => EmptyOnFull \/ realSizeDB < numRows
          /\ batch' = [m \in 1..k |->
                         [Index |-> realSizeDB + m - 1, New |-> rows[m]]]
          /\ IF NeedsExtension(k)
             THEN /\ flatDb' = Extended(flatDb, numRows, ExtendSize)
                  /\ numRows' = numRows + ExtendSize
             ELSE UNCHANGED <<flatDb, numRows>>
    BY DEF BeginAppendRows
  <1>2. /\ call = "none" /\ call' = "append" /\ editIdx' = 0 /\ Appends
        /\ UNCHANGED <<dbVersion, ops, currVersion, realSizeDB>>
    BY DEF BeginAppendRows, Quiet
  <1>3. editIdx = 0 /\ Len(batch) = 0
    BY <1>2 DEF DbInv, LogInv, DbTypeOK
  <1>4. n \in Nat \ {0} /\ ExtendSize = n /\ MaxBatch <= n /\ ~EmptyOnFull
    BY <1>2 DEF ExtensionsOf
  <1>5. k \in 0..n /\ Len(batch') = k /\ (k = 0 => realSizeDB < numRows)
    BY <1>1, <1>4, DynamicDBAssumption
  <1>6. \A m \in 1..Len(batch') : batch'[m].Index = realSizeDB + m - 1
    BY <1>1, <1>5
  <1>7. CASE NeedsExtension(k)
    <2>1. flatDb' = Extended(flatDb, numRows, n) /\ numRows' = numRows + n
      BY <1>1, <1>4, <1>7
    <2>2. numRows \in Nat /\ flatDb \in [0..numRows-1 -> Row]
      BY DEF DbTypeOK
    <2>3. /\ \A i \in 0..(numRows - 1) : flatDb'[i] = flatDb[i]
          /\ \A i \in numRows..(numRows' - 1) : flatDb'[i] = ZeroRow
      BY <1>4, <2>1, <2>2, ExtendedType
    <2> QED BY <1>2, <1>3, <1>5, <1>6, <1>7, <2>1, <2>3
  <1>8. CASE ~NeedsExtension(k)
    <2>1. flatDb' = flatDb /\ numRows' = numRows /\ numRows \in Nat
      BY <1>1, <1>8 DEF DbTypeOK
    <2> QED BY <1>2, <1>3, <1>5, <1>6, <1>8, <2>1
  <1> QED BY <1>7, <1>8

\* The operations of the log.
LEMMA OpsType ==
  ASSUME DbTypeOK
  PROVE  /\ Len(ops) \in Nat
         /\ \A k \in 1..Len(ops) :
              /\ ops[k] \in Op
              /\ ops[k].Index \in Nat /\ ops[k].Old \in Row /\ ops[k].New \in Row
  <1>1. ops \in Seq(Op)
    BY DEF DbTypeOK
  <1>2. \A k \in 1..Len(ops) : ops[k] \in Op
    BY <1>1, ElementOfSeq
  <1>3. Len(ops) \in Nat
    BY <1>1, LenProperties
  <1> QED BY <1>2, <1>3 DEF Op

LEMMA DbInvBeginAppendRows ==
  ASSUME NEW n, ExtensionsOf(n), DbTypeOK, DbInv(n), BeginAppendRows
  PROVE  DbInv(n)'
  <1> DEFINE k == Len(batch')
  <1>1. /\ call = "none" /\ call' = "append" /\ editIdx = 0 /\ editIdx' = 0
        /\ UNCHANGED <<dbVersion, ops, currVersion, realSizeDB>>
        /\ Len(batch) = 0 /\ k \in 0..n /\ (k = 0 => realSizeDB < numRows)
        /\ \A m \in 1..k : batch'[m].Index = realSizeDB + m - 1
        /\ numRows' = IF NeedsExtension(k) THEN numRows + n ELSE numRows
        /\ Appends
    BY BeginAppendRowsIs
  <1>2. n \in Nat \ {0} /\ N \in Nat /\ numRows \in Nat /\ realSizeDB \in Nat
    BY DynamicDBAssumption DEF ExtensionsOf, DbTypeOK
  <1>3. Filled = realSizeDB /\ Stored = realSizeDB /\ Stored' = realSizeDB
        /\ Filled' = realSizeDB + k
    BY <1>1, <1>2 DEF Filled, Stored
  <1>4. N <= realSizeDB /\ realSizeDB <= numRows /\ numRows <= realSizeDB + n
    BY <1>3 DEF DbInv, SpaceInv
  <1>5. Filled' <= numRows' /\ numRows' <= Filled' + n /\ numRows <= numRows'
        /\ numRows' \in Nat /\ (numRows' > N => Filled' > N)
    <2>1. CASE k = 0
      <3>1. numRows' = numRows /\ Filled' = Filled
        BY <1>1, <1>2, <1>3, <2>1 DEF NeedsExtension
      <3>2. numRows > N => Filled > N
        BY DEF DbInv, SpaceInv
      <3> QED BY <1>2, <1>3, <1>4, <3>1, <3>2
    <2>2. CASE k # 0
      BY <1>1, <1>2, <1>3, <1>4, <2>2 DEF NeedsExtension
    <2> QED BY <2>1, <2>2
  <1>6. LogInv'
    <2>1. ASSUME NEW m \in 1..k PROVE batch'[m].Index < numRows'
      <3>1. batch'[m].Index = realSizeDB + m - 1 /\ realSizeDB + k <= numRows'
        BY <1>1, <1>3, <1>5
      <3> HIDE DEF k
      <3>2. k \in Nat
        BY <1>1, <1>2
      <3> QED BY <1>2, <1>5, <3>1, <3>2
    <2>2. \A i \in 1..Len(ops) : ops[i].Index < numRows'
      <3>1. \A i \in 1..Len(ops) : ops[i].Index < numRows /\ ops[i].Index \in Nat
        BY OpsType DEF DbInv, LogInv
      <3> QED BY <1>2, <1>5, <3>1
    <2>3. Len(ops') = currVersion' + editIdx' /\ dbVersion' = Len(ops')
      BY <1>1 DEF DbInv, LogInv
    <2>4. \A i \in 1..Len(ops') : ops'[i].Index < numRows'
      BY <1>1, <2>2
    <2> QED BY <1>1, <2>1, <2>3, <2>4 DEF LogInv
  <1>7. SpaceInv(n)'
    <2>1. PICK m \in 1..numRows : numRows = m * n
      BY DEF DbInv, SpaceInv
    <2>2. \E m1 \in 1..numRows' : numRows' = m1 * n
      <3>1. CASE numRows' = numRows
        BY <2>1, <3>1
      <3>2. CASE numRows' = numRows + n
        <4>1. numRows' = (m + 1) * n
          BY <1>2, <2>1, <3>2
        <4>2. m + 1 \in 1..numRows'
          BY <1>2, <2>1, <3>2
        <4> QED BY <4>1, <4>2
      <3> QED BY <1>1, <3>1, <3>2
    <2> QED BY <1>1, <1>4, <1>5, <2>2 DEF SpaceInv
  <1>8. AppendsLogged' /\ NoBlockSkipped(n)'
    BY <1>1, <1>3 DEF DbInv, AppendsLogged, NoBlockSkipped
  <1> QED BY <1>6, <1>7, <1>8 DEF DbInv

\* What an iteration of EditRows does when the row exists.
LEMMA EditStepInRange ==
  ASSUME NEW n, DbTypeOK, DbInv(n), EditStep
  PROVE  LET i == NextWrite.Index
         IN  /\ i \in 0..(numRows - 1)
             /\ NextWrite.New \in Row
             /\ flatDb' = [flatDb EXCEPT ![i] = NextWrite.New]
             /\ dbVersion' = dbVersion + 1
             /\ Len(ops') = Len(ops) + 1
             /\ \A k \in 1..Len(ops) : ops'[k] = ops[k]
             /\ ops'[Len(ops) + 1]
                  = [Index |-> i, Old |-> flatDb[i], New |-> NextWrite.New]
  <1>1. editIdx < Len(batch)
    BY DEF EditStep
  <1>2. NextWrite \in Write /\ NextLogged \in Op
    BY <1>1, NextWriteType
  <1>3. NextWrite.Index \in Nat /\ NextWrite.New \in Row
    BY <1>2 DEF Write
  <1>4. NextWrite.Index < numRows
    <2>1. editIdx + 1 \in 1..Len(batch)
      BY <1>1 DEF DbTypeOK
    <2> QED BY <2>1 DEF DbInv, LogInv, NextWrite
  <1>5. NextWrite.Index \in 0..(numRows - 1)
    BY <1>3, <1>4 DEF DbTypeOK
  <1>6. flatDb' = [flatDb EXCEPT ![NextWrite.Index] = NextWrite.New]
        /\ dbVersion' = dbVersion + 1
    BY <1>4, EditStepIs
  <1>7. NextLogged = [Index |-> NextWrite.Index, Old |-> flatDb[NextWrite.Index],
                      New |-> NextWrite.New]
    BY <1>4 DEF NextLogged
  <1>8. ops \in Seq(Op) /\ ops' = Append(ops, NextLogged)
    BY EditStepIs DEF DbTypeOK
  <1>9. /\ Len(ops') = Len(ops) + 1
        /\ \A k \in 1..Len(ops) : ops'[k] = ops[k]
        /\ ops'[Len(ops) + 1] = NextLogged
    BY <1>2, <1>8, AppendProperties
  <1> QED BY <1>3, <1>5, <1>6, <1>7, <1>9

LEMMA DbInvEditStep ==
  ASSUME NEW n \in Nat \ {0}, DbTypeOK, DbInv(n), EditStep
  PROVE  DbInv(n)'
  <1> DEFINE w == NextWrite.Index
             L == Len(ops)
  <1>1. /\ w \in 0..(numRows - 1)
        /\ dbVersion' = dbVersion + 1
        /\ Len(ops') = L + 1
        /\ \A k \in 1..L : ops'[k] = ops[k]
        /\ ops'[L + 1].Index = w
    BY EditStepInRange
  <1>2. /\ call \in {"edit", "append"} /\ editIdx < Len(batch)
        /\ editIdx' = editIdx + 1
        /\ UNCHANGED <<numRows, currVersion, realSizeDB, call, batch>>
    BY DEF EditStep, Quiet, DbTypeOK
  <1>3. /\ L \in Nat /\ editIdx \in Nat /\ Len(batch) \in Nat /\ numRows \in Nat
        /\ realSizeDB \in Nat /\ currVersion \in Nat /\ N \in Nat
    BY OpsType, LenProperties, DynamicDBAssumption DEF DbTypeOK
  <1>4. call = "append" => w = realSizeDB + editIdx
    <2>1. editIdx + 1 \in 1..Len(batch)
      BY <1>2, <1>3
    <2> QED BY <1>3, <2>1 DEF DbInv, LogInv, NextWrite
  <1>5. /\ L = currVersion + editIdx /\ dbVersion = L
        /\ \A k \in 1..L : ops[k].Index < numRows
        /\ \A m \in 1..Len(batch) :
             /\ batch[m].Index < numRows
             /\ call = "append" => batch[m].Index = realSizeDB + m - 1
        /\ N <= realSizeDB /\ numRows <= Filled + n
        /\ \A i \in N..(Stored - 1) : \E k \in 1..L : ops[k].Index = i
        /\ \A k \in 1..L : N <= ops[k].Index - n =>
             \E l \in 1..(k - 1) : ops[l].Index = ops[k].Index - n
    BY DEF DbInv, LogInv, SpaceInv, AppendsLogged, NoBlockSkipped
  <1> HIDE DEF w, L
  <1>6. LogInv'
    <2>1. ASSUME NEW k \in 1..(L + 1) PROVE ops'[k].Index < numRows
      <3>1. CASE k \in 1..L
        BY <1>1, <1>5, <3>1
      <3>2. CASE k = L + 1
        BY <1>1, <1>3, <3>2
      <3> QED BY <1>3, <3>1, <3>2
    <2>2. Len(ops') = currVersion' + editIdx' /\ dbVersion' = Len(ops')
      BY <1>1, <1>2, <1>3, <1>5
    <2> QED BY <1>1, <1>2, <1>5, <2>1, <2>2 DEF LogInv
  <1>7. SpaceInv(n)'
    BY <1>2 DEF DbInv, SpaceInv, Filled
  <1>8. AppendsLogged'
    <2>1. ASSUME NEW i \in N..(Stored' - 1)
          PROVE  \E k \in 1..(L + 1) : ops'[k].Index = i
      <3>1. CASE i < Stored
        <4>1. Stored \in Int /\ i \in N..(Stored - 1)
          BY <1>3, <3>1 DEF Stored
        <4>2. PICK k \in 1..L : ops[k].Index = i
          BY <1>5, <4>1
        <4>3. k \in 1..(L + 1) /\ ops'[k].Index = i
          BY <1>1, <1>3, <4>2
        <4> QED BY <4>3
      <3>2. CASE ~(i < Stored)
        <4>1. call = "append" /\ i = realSizeDB + editIdx
          BY <1>2, <1>3, <3>2 DEF Stored
        <4>2. L + 1 \in 1..(L + 1)
          BY <1>3
        <4>3. ops'[L + 1].Index = i
          BY <1>1, <1>4, <4>1
        <4> QED BY <4>2, <4>3
      <3> QED BY <3>1, <3>2
    <2>2. N..(Stored' - 1) = (N..(Stored - 1))'
      OBVIOUS
    <2> QED BY <1>1, <2>1 DEF AppendsLogged
  <1>9. NoBlockSkipped(n)'
    <2>1. ASSUME NEW k \in 1..(L + 1), N <= ops'[k].Index - n
          PROVE  \E l \in 1..(k - 1) : ops'[l].Index = ops'[k].Index - n
      <3>1. CASE k \in 1..L
        <4>1. ops'[k] = ops[k]
          BY <1>1, <3>1
        <4>2. PICK l \in 1..(k - 1) : ops[l].Index = ops[k].Index - n
          BY <1>5, <2>1, <3>1, <4>1
        <4>3. l \in 1..L
          BY <1>3, <3>1
        <4> QED BY <1>1, <4>1, <4>2, <4>3
      <3>2. CASE k = L + 1
        <4>1. w - n \in N..(Stored - 1)
          <5>1. N <= w - n /\ w < numRows /\ w \in Int
            BY <1>1, <1>3, <2>1, <3>2
          <5>2. CASE call = "append"
            BY <1>3, <1>4, <5>1, <5>2 DEF Stored
          <5>3. CASE call = "edit"
            <6>1. Filled = realSizeDB /\ Stored = realSizeDB
              BY <1>3, <5>3 DEF Stored, Filled
            <6>2. numRows <= realSizeDB + n
              BY <1>5, <6>1
            <6>3. w - n \in Int /\ w - n < realSizeDB
              BY <1>3, <5>1, <6>2
            <6> QED BY <1>3, <5>1, <6>1, <6>3
          <5> QED BY <1>2, <5>2, <5>3
        <4>2. PICK l \in 1..L : ops[l].Index = w - n
          BY <1>5, <4>1
        <4>3. L = k - 1
          BY <1>3, <3>2
        <4>4. l \in 1..(k - 1)
          BY <4>2, <4>3
        <4>5. ops'[l].Index = ops'[k].Index - n
          BY <1>1, <3>2, <4>2
        <4> QED BY <4>4, <4>5
      <3> QED BY <1>3, <3>1, <3>2
    <2> QED BY <1>1, <2>1 DEF NoBlockSkipped
  <1> QED BY <1>6, <1>7, <1>8, <1>9 DEF DbInv

LEMMA DbInvEndEdit ==
  ASSUME NEW n \in Nat \ {0}, DbTypeOK, DbInv(n), EndEdit
  PROVE  DbInv(n)'
  <1>1. /\ editIdx = Len(batch) /\ call' = "none" /\ editIdx' = 0
        /\ Len(batch') = 0
        /\ currVersion' = currVersion + Len(batch)
        /\ realSizeDB' = Filled
        /\ UNCHANGED <<flatDb, numRows, dbVersion, ops>>
    BY DEF EndEdit, Filled, DbTypeOK
  <1>2. /\ Len(batch) \in Nat /\ realSizeDB \in Nat /\ currVersion \in Nat
        /\ N \in Nat /\ Len(ops) \in Nat
    BY LenProperties, OpsType, DynamicDBAssumption DEF DbTypeOK
  <1>3. Filled' = Filled /\ Stored' = Filled /\ Stored = Filled /\ Filled \in Nat
        /\ realSizeDB <= Filled
    BY <1>1, <1>2 DEF Filled, Stored
  <1>4. LogInv'
    BY <1>1, <1>2 DEF DbInv, LogInv
  <1>5. SpaceInv(n)'
    BY <1>1, <1>2, <1>3 DEF DbInv, SpaceInv
  <1>6. AppendsLogged' /\ NoBlockSkipped(n)'
    BY <1>1, <1>3 DEF DbInv, AppendsLogged, NoBlockSkipped
  <1> QED BY <1>4, <1>5, <1>6 DEF DbInv

\* The invariant of the server is preserved by every step.
LEMMA DbInvStep ==
  ASSUME NEW n, ExtensionsOf(n), DbTypeOK, DbInv(n), [DbNext]_dbVars
  PROVE  DbInv(n)'
  <1>1. n \in Nat \ {0}
    BY DEF ExtensionsOf
  <1>2. CASE UNCHANGED dbVars
    BY <1>2 DEF dbVars, DbInv, LogInv, SpaceInv, AppendsLogged, NoBlockSkipped,
                Filled, Stored
  <1> QED BY <1>1, <1>2, DbInvBeginEditRows, DbInvBeginAppendRows, DbInvEditStep,
             DbInvEndEdit DEF DbNext

-----------------------------------------------------------------------------
\* Xor of two rows is a row.
LEMMA XorType ==
  ASSUME NEW a \in Row, NEW b \in Row
  PROVE  Xor(a, b) \in Row
  BY DEF Row, Xor

\* The XOR of a family is a row.
LEMMA XorAllType ==
  ASSUME NEW J, NEW f
  PROVE  XorAll(J, f) \in Row
  BY DEF Row, XorAll

\* The laws of XOR.
LEMMA XorLaws ==
  ASSUME NEW a \in Row, NEW b \in Row, NEW c \in Row
  PROVE  /\ Xor(a, b) = Xor(b, a)
         /\ Xor(Xor(a, b), c) = Xor(a, Xor(b, c))
         /\ Xor(a, a) = ZeroRow
         /\ Xor(a, ZeroRow) = a
         /\ Xor(b, Xor(c, Xor(a, b))) = Xor(a, c)
  BY DEF Row, Xor, ZeroRow

LEMMA ZeroRowType == ZeroRow \in Row
  BY DEF Row, ZeroRow

\* Two families that agree have the same XOR.
LEMMA XorAllAgree ==
  ASSUME NEW J, NEW f, NEW g, \A j \in J : f[j] = g[j]
  PROVE  XorAll(J, f) = XorAll(J, g)
  <1>1. \A b : {j \in J : b \in f[j]} = {j \in J : b \in g[j]}
    OBVIOUS
  <1> QED BY <1>1 DEF XorAll

\* Parity of a sum that counts c twice too often.
LEMMA ParityOfDifference ==
  ASSUME NEW s \in Nat, NEW t \in Nat, NEW c \in Nat, NEW u \in Nat,
         u = s + t - 2 * c
  PROVE  u % 2 = 1 <=> (s % 2 = 1 <=> ~(t % 2 = 1))
  <1>1. PICK k \in Nat, x \in 0..1 : s = 2 * k + x /\ s % 2 = x
    <2>1. s = 2 * (s \div 2) + (s % 2) /\ s \div 2 \in Nat /\ s % 2 \in 0..1
      OBVIOUS
    <2> QED BY <2>1
  <1>2. PICK l \in Nat, y \in 0..1 : t = 2 * l + y /\ t % 2 = y
    <2>1. t = 2 * (t \div 2) + (t % 2) /\ t \div 2 \in Nat /\ t % 2 \in 0..1
      OBVIOUS
    <2> QED BY <2>1
  <1>3. u = 2 * (k + l - c) + x + y
    BY <1>1, <1>2
  <1>4. CASE x + y = 1
    <2>1. u % 2 = 1
      BY <1>3, <1>4
    <2> QED BY <1>1, <1>2, <1>4, <2>1
  <1>5. CASE x + y # 1
    <2>1. x = y
      BY <1>5
    <2>2. u = 2 * (k + l - c + x)
      BY <1>3, <2>1
    <2>3. u % 2 = 0
      BY <2>2
    <2> QED BY <1>1, <1>2, <2>1, <2>3
  <1> QED BY <1>4, <1>5

\* A set and its symmetric difference with another: parities add up.
LEMMA OddSymmetricDifference ==
  ASSUME NEW S, NEW T, IsFiniteSet(S), IsFiniteSet(T)
  PROVE  Odd((S \ T) \cup (T \ S)) <=> (Odd(S) <=> ~Odd(T))
  <1> DEFINE A == S \ T
             B == T \ S
             C == S \cap T
  <1>1. /\ IsFiniteSet(A) /\ IsFiniteSet(B) /\ IsFiniteSet(C)
        /\ IsFiniteSet(A \cup B)
    BY FS_Difference, FS_Intersection, FS_Union
  <1>2. /\ Cardinality(A) \in Nat /\ Cardinality(B) \in Nat
        /\ Cardinality(C) \in Nat /\ Cardinality(S) \in Nat
        /\ Cardinality(T) \in Nat
    BY <1>1, FS_CardinalityType
  <1>3. Cardinality(A) = Cardinality(S) - Cardinality(C)
    BY FS_Difference
  <1>4. Cardinality(B) = Cardinality(T) - Cardinality(C)
    <2>1. T \cap S = C
      OBVIOUS
    <2>2. Cardinality(T \ S) = Cardinality(T) - Cardinality(T \cap S)
      BY FS_Difference
    <2> QED BY <2>1, <2>2
  <1>5. Cardinality(A \cup B) = Cardinality(A) + Cardinality(B)
    <2>1. A \cap B = {}
      OBVIOUS
    <2> HIDE DEF A, B
    <2>2. Cardinality(A \cup B)
            = Cardinality(A) + Cardinality(B) - Cardinality(A \cap B)
      BY <1>1, FS_Union
    <2>3. Cardinality(A \cap B) = 0
      BY <2>1, FS_EmptySet
    <2> QED BY <2>2, <2>3, <1>2
  <1> HIDE DEF A, B, C
  <1>6. Odd(A \cup B) <=> (Odd(S) <=> ~Odd(T))
    <2>1. Cardinality(A \cup B) \in Nat
      BY <1>1, FS_CardinalityType
    <2>2. Cardinality(A \cup B)
            = Cardinality(S) + Cardinality(T) - 2 * Cardinality(C)
      BY <1>2, <1>3, <1>4, <1>5
    <2> QED BY <1>2, <2>1, <2>2, ParityOfDifference DEF Odd
  <1> QED BY <1>6 DEF A, B

\* XOR distributes over the XOR of two families.
LEMMA XorAllXor ==
  ASSUME NEW J, IsFiniteSet(J), NEW f, NEW g, NEW h,
         \A j \in J : h[j] = Xor(f[j], g[j])
  PROVE  XorAll(J, h) = Xor(XorAll(J, f), XorAll(J, g))
  <1> DEFINE F(b) == {j \in J : b \in f[j]}
             G(b) == {j \in J : b \in g[j]}
             H(b) == {j \in J : b \in h[j]}
  <1>1. ASSUME NEW b \in Bits
        PROVE  Odd(H(b)) <=> (Odd(F(b)) <=> ~Odd(G(b)))
    <2>1. H(b) = (F(b) \ G(b)) \cup (G(b) \ F(b))
      BY DEF Xor
    <2>2. IsFiniteSet(F(b)) /\ IsFiniteSet(G(b))
      BY FS_Subset
    <2> HIDE DEF F, G, H
    <2> QED BY <2>1, <2>2, OddSymmetricDifference
  <1> QED BY <1>1 DEF XorAll, Xor

\* The XOR of no rows is zero, and so is the XOR of zero rows.
LEMMA XorAllZero ==
  ASSUME NEW J, NEW f, \A j \in J : f[j] = ZeroRow
  PROVE  XorAll(J, f) = ZeroRow
  <1>1. \A b : {j \in J : b \in f[j]} = {}
    BY DEF ZeroRow
  <1>2. ~Odd({})
    BY FS_EmptySet DEF Odd
  <1> QED BY <1>1, <1>2 DEF XorAll, ZeroRow

\* One more row in the family.
LEMMA XorAllAdd ==
  ASSUME NEW J, IsFiniteSet(J), NEW k, k \notin J, NEW f, f[k] \in Row
  PROVE  XorAll(J \cup {k}, f) = Xor(XorAll(J, f), f[k])
  <1> DEFINE F(b) == {j \in J : b \in f[j]}
             K(b) == {j \in J \cup {k} : b \in f[j]}
  <1>1. ASSUME NEW b \in Bits
        PROVE  Odd(K(b)) <=> (Odd(F(b)) <=> b \notin f[k])
    <2>1. IsFiniteSet(F(b)) /\ Cardinality(F(b)) \in Nat
      BY FS_Subset, FS_CardinalityType
    <2>2. k \notin F(b)
      OBVIOUS
    <2>3. CASE b \in f[k]
      <3>1. K(b) = F(b) \cup {k}
        BY <2>3
      <3>2. Cardinality(K(b)) = Cardinality(F(b)) + 1
        BY <2>1, <2>2, <3>1, FS_AddElement
      <3> QED BY <2>1, <2>3, <3>2 DEF Odd
    <2>4. CASE b \notin f[k]
      <3>1. K(b) = F(b)
        BY <2>4
      <3> QED BY <2>4, <3>1
    <2> QED BY <2>3, <2>4
  <1> QED BY <1>1 DEF XorAll, Xor, Row

\* One row of the family replaced.
LEMMA XorAllChange ==
  ASSUME NEW J, IsFiniteSet(J), NEW k \in J, NEW f, NEW g,
         f[k] \in Row, g[k] \in Row, \A j \in J \ {k} : g[j] = f[j]
  PROVE  XorAll(J, g) = Xor(Xor(XorAll(J, f), f[k]), g[k])
  <1> DEFINE R == J \ {k}
  <1>1. IsFiniteSet(R) /\ k \notin R /\ J = R \cup {k}
    BY FS_RemoveElement
  <1>2. XorAll(R, g) = XorAll(R, f)
    BY XorAllAgree
  <1> HIDE DEF R
  <1>3. XorAll(R \cup {k}, f) = Xor(XorAll(R, f), f[k])
    BY <1>1, XorAllAdd
  <1>4. XorAll(R \cup {k}, g) = Xor(XorAll(R, g), g[k])
    BY <1>1, XorAllAdd
  <1>5. XorAll(R, f) \in Row
    BY XorAllType
  <1> QED BY <1>1, <1>2, <1>3, <1>4, <1>5 DEF Xor, Row

\* A subfamily is the family with the other rows zero.
LEMMA XorAllSubfamily ==
  ASSUME NEW J, NEW K \in SUBSET J, NEW f, NEW g,
         \A j \in J : g[j] = IF j \in K THEN f[j] ELSE ZeroRow
  PROVE  XorAll(K, f) = XorAll(J, g)
  <1>1. \A b : {j \in K : b \in f[j]} = {j \in J : b \in g[j]}
    BY DEF ZeroRow
  <1> QED BY <1>1 DEF XorAll

-----------------------------------------------------------------------------
\* Inverted is the inverse of a permutation.
LEMMA InvertedIsInverse ==
  ASSUME NEW n \in Nat, NEW p \in Perms(n)
  PROVE  /\ Inverted(p) \in [0..n-1 -> 0..n-1]
         /\ \A h \in 0..n-1 : /\ Inverted(p)[p[h]] = h
                              /\ p[Inverted(p)[h]] = h
  <1> DEFINE D == 0..n-1
  <1>1. p \in [D -> D] /\ \A a, b \in D : p[a] = p[b] => a = b
    BY DEF Perms
  <1>2. IsFiniteSet(D)
    BY FS_Interval
  <1>3. p \in Injection(D, D)
    BY <1>1 DEF Injection, IsInjective
  <1>4. p \in Surjection(D, D)
    BY <1>2, <1>3, FS_Injection
  <1>5. \A v \in D : \E h \in D : p[h] = v
    BY <1>4 DEF Surjection
  <1> HIDE DEF D
  <1>6. ASSUME NEW v \in D
        PROVE  Inverted(p)[v] \in D /\ p[Inverted(p)[v]] = v
    BY <1>1, <1>5 DEF Inverted
  <1>7. Inverted(p) \in [D -> D]
    BY <1>1, <1>6 DEF Inverted
  <1>8. \A h \in D : Inverted(p)[p[h]] = h
    BY <1>1, <1>6
  <1> QED BY <1>6, <1>7, <1>8 DEF D

\* The types and the inverse maps together are inductive.
TypeInv == TypeOK /\ PermsInverse

\* The client's part of the two.
ClientShape ==
  /\ nRows \in Nat /\ setSize \in Nat /\ nHints \in Nat /\ cliVersion \in Nat
  /\ HasClient =>
       /\ setSize > 0 /\ nHints > 0 /\ nRows = setSize * nHints
       /\ hints \in [Positions -> Row]
       /\ idxToSetIdx \in [Blocks -> [Positions -> Positions]]
       /\ setIdxToIdx \in [Blocks -> [Positions -> Positions]]
       /\ PermsInverse

\* The part of a read and of an update.
CallShape ==
  /\ rd \in {"new", "idle", "asked", "left", "answered", "updating", "panicked"}
  /\ Reading => query \in QueryType
  /\ rd \in {"left", "answered"} => resp0 \in [Blocks -> Row]
  /\ rd = "answered" => resp1 \in [Blocks -> Row]
  /\ response \in [newVersion : Nat, updates : Seq(Op)]
  /\ updIdx \in 0..Len(response.updates)
  /\ result \in [idx : Int, row : Row]

LEMMA TypeInvSplit == TypeInv <=> DbTypeOK /\ ClientShape /\ CallShape
  <1>1. TypeInv => DbTypeOK /\ ClientShape /\ CallShape
    BY DEF TypeInv, TypeOK, ClientShape, CallShape
  <1>2. DbTypeOK /\ ClientShape /\ CallShape => TypeInv
    BY DEF TypeInv, TypeOK, ClientShape, CallShape, PermsInverse
  <1> QED BY <1>1, <1>2

\* A client is there in every state of the reader but two.
LEMMA ClientStates ==
  ASSUME rd \in {"idle", "asked", "left", "answered", "updating"}
  PROVE  HasClient
  BY DEF HasClient

\* A row of the client lies in a block, at a position of a hint.
LEMMA PosOfType ==
  ASSUME ClientShape, HasClient, NEW i \in 0..nRows-1
  PROVE  /\ BlockOf(i) \in Blocks
         /\ OffsetOf(i) \in Positions
         /\ PosOf(i) \in Positions
         /\ i = BlockOf(i) * nHints + OffsetOf(i)
         /\ idxToSetIdx[BlockOf(i)][PosOf(i)] = OffsetOf(i)
  <1>1. /\ setSize \in Nat /\ nHints \in Nat /\ nHints > 0
        /\ i \in 0..(setSize * nHints - 1)
    BY DEF ClientShape
  <1>2. BlockOf(i) \in Blocks /\ OffsetOf(i) \in Positions
    BY <1>1, BlockOfRow DEF BlockOf, OffsetOf, Blocks, Positions
  <1>3. PosOf(i) \in Positions
    BY <1>2 DEF PosOf, ClientShape
  <1>4. idxToSetIdx[BlockOf(i)][PosOf(i)] = OffsetOf(i)
    BY <1>2 DEF PosOf, ClientShape, PermsInverse
  <1>5. i = BlockOf(i) * nHints + OffsetOf(i)
    <2>1. BlockOf(i) \in Int /\ nHints \in Int /\ i \in Int
      BY <1>1, <1>2 DEF Blocks
    <2>2. BlockOf(i) * nHints \in Int
      BY <2>1
    <2> QED BY <2>1, <2>2 DEF OffsetOf
  <1> QED BY <1>2, <1>3, <1>4, <1>5

LEMMA TypeInvInit == Init => TypeInv
  <1> SUFFICES ASSUME Init PROVE DbTypeOK /\ ClientShape /\ CallShape
    BY TypeInvSplit
  <1>1. DbTypeOK
    BY DbTypeInit DEF Init
  <1>2. ClientShape
    BY DEF Init, ClientShape, HasClient
  <1>3. CallShape
    BY EmptySeq
       DEF Init, CallShape, HasClient, Reading, NoResponse, NoResult, Row, ZeroRow
  <1> QED BY <1>1, <1>2, <1>3

\* A step that leaves the client's state alone keeps its shape.
LEMMA ClientKept ==
  ASSUME ClientShape, UNCHANGED cliVars, HasClient' => HasClient
  PROVE  ClientShape'
  BY DEF ClientShape, cliVars, PermsInverse, Blocks, Positions

LEMMA HintSetSizeType ==
  ASSUME DbTypeOK
  PROVE  HintSetSize \in 1..N \cup 1..numRows
  <1>1. N \in Nat \ {0} /\ numRows \in Nat \ {0} /\ SetSizeReq \in 0..N
    BY DynamicDBAssumption, SinglePassAssumption DEF DbTypeOK
  <1>2. ISqrt(numRows) \in 1..numRows
    BY <1>1, ISqrtType
  <1> QED BY <1>1, <1>2 DEF HintSetSize

LEMMA TypeInitReader ==
  ASSUME DbTypeOK, ClientShape, CallShape, InitReader
  PROVE  ClientShape' /\ CallShape'
  <1> DEFINE s == HintSetSize
             n == numRows \div s
  <1>1. s \in Nat /\ s > 0 /\ numRows \in Nat /\ numRows > 0
    <2>1. N \in Nat /\ numRows \in Nat /\ numRows > 0
      BY DynamicDBAssumption DEF DbTypeOK
    <2> QED BY <2>1, HintSetSizeType
  <1>2. CallShape'
    BY DEF InitReader, CallShape, Reading, updVars, NoResult, Row, ZeroRow
  <1> HIDE DEF s
  <1>3. CASE s * n # numRows
    <2>1. rd' = "panicked" /\ UNCHANGED cliVars
      BY <1>3 DEF InitReader, s
    <2> QED BY <2>1, <1>2, ClientKept DEF HasClient
  <1>4. CASE s * n = numRows
    <2>0. n \in Nat /\ n > 0
      <3>1. n \in Int /\ numRows % s \in 0..s-1 /\ numRows = s * n + (numRows % s)
        BY <1>1, DivMod
      <3> HIDE DEF n
      <3>2. ~(n <= 0)
        <4>1. n <= 0 => s * n <= 0
          BY <1>1, <3>1
        <4> QED BY <1>1, <1>4, <4>1
      <3> QED BY <3>1, <3>2
    <2>1. PICK p \in [0..s-1 -> Perms(n)] :
            /\ nRows' = numRows /\ setSize' = s /\ nHints' = n
            /\ hints' = HintsOf(flatDb, s, n, p)
            /\ idxToSetIdx' = p
            /\ setIdxToIdx' = [j \in 0..s-1 |-> Inverted(p[j])]
            /\ cliVersion' = dbVersion
      BY <1>4 DEF InitReader, s
    <2> HIDE DEF n
    <2>2. Blocks' = 0..s-1 /\ Positions' = 0..n-1
      BY <2>1 DEF Blocks, Positions
    <2>3. /\ nRows' \in Nat /\ setSize' \in Nat /\ nHints' \in Nat
          /\ cliVersion' \in Nat
          /\ setSize' > 0 /\ nHints' > 0 /\ nRows' = setSize' * nHints'
      BY <1>1, <1>4, <2>0, <2>1 DEF DbTypeOK
    <2>4. hints' \in [Positions' -> Row]
      BY <2>1, <2>2, XorAllType DEF HintsOf
    <2>5. idxToSetIdx' \in [Blocks' -> [Positions' -> Positions']]
      BY <2>1, <2>2 DEF Perms
    <2>6. \A j \in 0..s-1 :
            /\ Inverted(p[j]) \in [0..n-1 -> 0..n-1]
            /\ \A h \in 0..n-1 : /\ Inverted(p[j])[p[j][h]] = h
                                 /\ p[j][Inverted(p[j])[h]] = h
      BY <2>0, InvertedIsInverse
    <2>7. setIdxToIdx' \in [Blocks' -> [Positions' -> Positions']]
      BY <2>1, <2>2, <2>6
    <2>8. PermsInverse'
      BY <2>1, <2>2, <2>6 DEF PermsInverse
    <2>9. ClientShape'
      BY <2>3, <2>4, <2>5, <2>7, <2>8 DEF ClientShape
    <2> QED BY <1>2, <2>9
  <1> QED BY <1>3, <1>4

LEMMA TypeQuery ==
  ASSUME ClientShape, CallShape, NEW i \in Int, Query(i)
  PROVE  ClientShape' /\ CallShape' /\ HasClient
  <1>1. rd = "idle" /\ rd' = "asked" /\ UNCHANGED cliVars
    BY DEF Query
  <1>2. HasClient
    BY <1>1, ClientStates
  <1>3. ClientShape'
    BY <1>1, <1>2, ClientKept
  <1>4. Blocks' = Blocks /\ Positions' = Positions /\ nRows' = nRows
        /\ setSize' = setSize
    BY <1>1 DEF cliVars, Blocks, Positions
  <1>5. i % nRows \in 0..nRows-1
    <2>1. nRows \in Nat /\ nRows > 0
      <3>1. setSize \in Nat /\ nHints \in Nat /\ setSize > 0 /\ nHints > 0
            /\ nRows = setSize * nHints
        BY <1>2 DEF ClientShape
      <3> QED BY <3>1
    <2> QED BY <2>1, DivMod
  <1> DEFINE idx == i % nRows
             i0  == BlockOf(idx)
             pos == PosOf(idx)
  <1>6. i0 \in Blocks /\ pos \in Positions
    BY <1>2, <1>5, PosOfType
  <1>7. PICK r \in [Blocks -> Positions] :
          query' = [idx |-> idx, index0 |-> i0, pos |-> pos, size |-> setSize,
                    randSwaps |-> r,
                    offline |-> [j \in Blocks |-> idxToSetIdx[j][r[j]]],
                    online  |-> [j \in Blocks |->
                      idxToSetIdx[j][IF j = i0 THEN r[j] ELSE pos]]]
    BY DEF Query
  <1>8. idxToSetIdx \in [Blocks -> [Positions -> Positions]]
    BY <1>2 DEF ClientShape
  <1> HIDE DEF idx, i0, pos
  <1>9. [j \in Blocks |-> idxToSetIdx[j][r[j]]] \in [Blocks -> Positions]
    BY <1>8
  <1>10. [j \in Blocks |-> idxToSetIdx[j][IF j = i0 THEN r[j] ELSE pos]]
           \in [Blocks -> Positions]
    BY <1>6, <1>8
  <1>11. query' \in QueryType'
    BY <1>4, <1>5, <1>6, <1>7, <1>9, <1>10 DEF QueryType, idx
  <1>12. CallShape'
    BY <1>1, <1>11
       DEF Query, CallShape, Reading, updVars, NoResult, Row, ZeroRow
  <1> QED BY <1>2, <1>3, <1>12

\* What an Answer returns, when its indices are in bounds.
LEMMA AnswerType ==
  ASSUME DbTypeOK, ClientShape, HasClient, query \in QueryType,
         NEW set \in [Blocks -> Positions], InBounds(set)
  PROVE  /\ Answer(set) \in [Blocks -> Row]
         /\ \A j \in Blocks : AnswerIndex(set, j) \in 0..numRows-1
  <1>1. query.size = setSize /\ setSize \in Nat /\ setSize > 0
        /\ numRows \in Nat
    BY DEF QueryType, ClientShape, DbTypeOK
  <1>2. numRows \div setSize \in Nat
    <2> DEFINE q == numRows \div setSize
    <2>1. q \in Int /\ numRows % setSize \in 0..setSize-1
          /\ numRows = setSize * q + (numRows % setSize)
      BY <1>1, DivMod
    <2> HIDE DEF q
    <2>2. ~(q < 0)
      <3>1. q < 0 => q * setSize + setSize <= 0 * setSize
        BY <1>1, <2>1, BlocksApart
      <3>2. q * setSize = setSize * q
        BY <1>1, <2>1
      <3> QED BY <1>1, <2>1, <3>1, <3>2
    <2> QED BY <2>1, <2>2 DEF q
  <1>3. ASSUME NEW j \in Blocks
        PROVE  AnswerIndex(set, j) \in 0..numRows-1
    <2>1. j \in Nat /\ j \in 0..query.size-1
      BY <1>1 DEF Blocks
    <2>2. set[j] \in Nat
      BY DEF Positions
    <2>3. (numRows \div setSize) * j \in Nat
      BY <1>2, <2>1
    <2>4. AnswerIndex(set, j) \in Nat
      BY <1>1, <2>2, <2>3 DEF AnswerIndex
    <2> QED BY <1>1, <2>1, <2>4 DEF InBounds
  <1>4. Answer(set) = [j \in Blocks |-> flatDb[AnswerIndex(set, j)]]
    BY <1>1 DEF Answer, Blocks
  <1> QED BY <1>3, <1>4 DEF DbTypeOK

LEMMA TypeAnswerLeft ==
  ASSUME DbTypeOK, ClientShape, CallShape, AnswerLeft
  PROVE  ClientShape' /\ CallShape'
  <1>1. rd = "asked" /\ UNCHANGED <<cliVars, query, updVars, result>>
    BY DEF AnswerLeft
  <1>2. HasClient
    BY <1>1, ClientStates
  <1>3. ClientShape'
    BY <1>1, <1>2, ClientKept
  <1>4. QueryType' = QueryType /\ Blocks' = Blocks
    BY <1>1 DEF QueryType, Blocks, Positions, cliVars
  <1>5. query \in QueryType
    BY <1>1 DEF CallShape, Reading
  <1>6. CASE InBounds(query.offline)
    <2>1. Answer(query.offline) \in [Blocks -> Row]
      BY <1>2, <1>5, <1>6, AnswerType DEF QueryType
    <2>2. resp0' \in [Blocks' -> Row] /\ rd' = "left"
      BY <1>4, <1>6, <2>1 DEF AnswerLeft
    <2> QED BY <1>1, <1>3, <1>4, <1>5, <2>2 DEF CallShape, Reading, updVars
  <1>7. CASE ~InBounds(query.offline)
    <2>1. rd' = "panicked"
      BY <1>7 DEF AnswerLeft
    <2> QED BY <1>1, <1>3, <2>1 DEF CallShape, Reading, updVars
  <1> QED BY <1>6, <1>7

LEMMA TypeAnswerRight ==
  ASSUME DbTypeOK, ClientShape, CallShape, AnswerRight
  PROVE  ClientShape' /\ CallShape'
  <1>1. rd = "left" /\ UNCHANGED <<cliVars, query, resp0, updVars, result>>
    BY DEF AnswerRight
  <1>2. HasClient
    BY <1>1, ClientStates
  <1>3. ClientShape'
    BY <1>1, <1>2, ClientKept
  <1>4. QueryType' = QueryType /\ Blocks' = Blocks
    BY <1>1 DEF QueryType, Blocks, Positions, cliVars
  <1>5. query \in QueryType /\ resp0 \in [Blocks -> Row]
    BY <1>1 DEF CallShape, Reading
  <1>6. CASE InBounds(query.online)
    <2>1. Answer(query.online) \in [Blocks -> Row]
      BY <1>2, <1>5, <1>6, AnswerType DEF QueryType
    <2>2. resp1' \in [Blocks' -> Row] /\ rd' = "answered"
      BY <1>4, <1>6, <2>1 DEF AnswerRight
    <2> QED BY <1>1, <1>3, <1>4, <1>5, <2>2 DEF CallShape, Reading, updVars
  <1>7. CASE ~InBounds(query.online)
    <2>1. rd' = "panicked"
      BY <1>7 DEF AnswerRight
    <2> QED BY <1>1, <1>3, <2>1 DEF CallShape, Reading, updVars
  <1> QED BY <1>6, <1>7

LEMMA TypeReadFails ==
  ASSUME ClientShape, CallShape, ReadFails
  PROVE  ClientShape' /\ CallShape'
  <1>1. rd \in {"asked", "left"} /\ rd' = "idle"
        /\ UNCHANGED <<cliVars, updVars, result>>
    BY DEF ReadFails, ReadDone
  <1>2. HasClient
    BY <1>1, ClientStates
  <1>3. ClientShape'
    BY <1>1, <1>2, ClientKept
  <1> QED BY <1>1, <1>3 DEF CallShape, Reading, updVars

LEMMA ReconstructedRowType ==
  ASSUME ClientShape, CallShape, rd = "answered"
  PROVE  ReconstructedRow \in Row
  <1>1. HasClient
    BY ClientStates
  <1>2. /\ resp1 \in [Blocks -> Row] /\ hints \in [Positions -> Row]
        /\ query.pos \in Positions /\ query.index0 \in Blocks
    BY <1>1 DEF ClientShape, CallShape, Reading, QueryType
  <1>3. XorAll(Blocks, resp1) \in Row
    BY XorAllType
  <1> QED BY <1>2, <1>3, XorType DEF ReconstructedRow

\* The swaps of reconstruct, block by block.
LEMMA SwappedShape ==
  ASSUME ClientShape, HasClient,
         NEW r \in [Blocks -> Positions], NEW pos \in Positions
  PROVE  /\ SwappedPerms(r, pos) \in [Blocks -> [Positions -> Positions]]
         /\ SwappedInverses(r, pos) \in [Blocks -> [Positions -> Positions]]
         /\ \A j \in Blocks : \A h \in Positions :
              /\ SwappedInverses(r, pos)[j][SwappedPerms(r, pos)[j][h]] = h
              /\ SwappedPerms(r, pos)[j][SwappedInverses(r, pos)[j][h]] = h
         /\ \A j \in Blocks :
              /\ SwappedPerms(r, pos)[j][r[j]] = idxToSetIdx[j][pos]
              /\ SwappedPerms(r, pos)[j][pos] = idxToSetIdx[j][r[j]]
              /\ \A h \in Positions \ {pos, r[j]} :
                   SwappedPerms(r, pos)[j][h] = idxToSetIdx[j][h]
  <1> DEFINE P == SwappedPerms(r, pos)
             Q == SwappedInverses(r, pos)
  <1>1. P = [j \in Blocks |->
               [idxToSetIdx[j] EXCEPT ![pos]  = idxToSetIdx[j][r[j]],
                                      ![r[j]] = idxToSetIdx[j][pos]]]
    BY DEF SwappedPerms
  <1>2. Q = [j \in Blocks |->
               [setIdxToIdx[j] EXCEPT ![idxToSetIdx[j][pos]]  = r[j],
                                      ![idxToSetIdx[j][r[j]]] = pos]]
    BY DEF SwappedInverses
  <1> HIDE DEF P, Q
  <1>3. ASSUME NEW j \in Blocks
        PROVE  /\ P[j] \in [Positions -> Positions]
               /\ Q[j] \in [Positions -> Positions]
               /\ \A h \in Positions : Q[j][P[j][h]] = h /\ P[j][Q[j][h]] = h
               /\ P[j][r[j]] = idxToSetIdx[j][pos]
               /\ P[j][pos] = idxToSetIdx[j][r[j]]
               /\ \A h \in Positions \ {pos, r[j]} : P[j][h] = idxToSetIdx[j][h]
    <2> DEFINE p == idxToSetIdx[j]
               q == setIdxToIdx[j]
               b == r[j]
    <2>1. /\ p \in [Positions -> Positions] /\ q \in [Positions -> Positions]
          /\ \A h \in Positions : q[p[h]] = h /\ p[q[h]] = h
          /\ b \in Positions
      BY DEF ClientShape, PermsInverse
    <2>2. /\ P[j] = [p EXCEPT ![pos] = p[b], ![b] = p[pos]]
          /\ Q[j] = [q EXCEPT ![p[pos]] = b, ![p[b]] = pos]
      BY <1>1, <1>2
    <2> HIDE DEF p, q, b
    <2>3. P[j] \in [Positions -> Positions] /\ Q[j] \in [Positions -> Positions]
      BY <2>1, <2>2
    <2>4. \A h \in Positions :
            P[j][h] = IF h = b THEN p[pos] ELSE IF h = pos THEN p[b] ELSE p[h]
      BY <2>1, <2>2
    <2>5. \A v \in Positions :
            Q[j][v] = IF v = p[b] THEN pos ELSE IF v = p[pos] THEN b ELSE q[v]
      BY <2>1, <2>2
    <2>6. \A h \in Positions : Q[j][P[j][h]] = h /\ P[j][Q[j][h]] = h
      BY <2>1, <2>3, <2>4, <2>5
    <2>7. P[j][b] = p[pos] /\ P[j][pos] = p[b]
      BY <2>1, <2>4
    <2>8. \A h \in Positions \ {pos, b} : P[j][h] = p[h]
      BY <2>4
    <2> QED BY <2>3, <2>6, <2>7, <2>8 DEF p, q, b
  <1>4. P \in [Blocks -> [Positions -> Positions]]
        /\ Q \in [Blocks -> [Positions -> Positions]]
    BY <1>1, <1>2, <1>3
  <1> QED BY <1>3, <1>4 DEF P, Q

LEMMA TypeReconstruct ==
  ASSUME ClientShape, CallShape, Reconstruct
  PROVE  ClientShape' /\ CallShape'
  <1>1. /\ rd = "answered" /\ rd' = "idle"
        /\ UNCHANGED <<nRows, setSize, nHints, cliVersion, updVars>>
        /\ hints' = RefreshedHints(query.randSwaps, query.pos, query.index0,
                                   ReconstructedRow)
        /\ idxToSetIdx' = SwappedPerms(query.randSwaps, query.pos)
        /\ setIdxToIdx' = SwappedInverses(query.randSwaps, query.pos)
        /\ result' = [idx |-> query.idx, row |-> ReconstructedRow]
    BY DEF Reconstruct, ReadDone
  <1>2. HasClient
    BY <1>1, ClientStates
  <1>3. Blocks' = Blocks /\ Positions' = Positions
    BY <1>1 DEF Blocks, Positions
  <1>4. /\ query \in QueryType
        /\ resp0 \in [Blocks -> Row] /\ resp1 \in [Blocks -> Row]
        /\ query.randSwaps \in [Blocks -> Positions]
        /\ query.pos \in Positions /\ query.index0 \in Blocks
        /\ query.idx \in 0..nRows-1
    BY <1>1 DEF CallShape, Reading, QueryType
  <1>5. ReconstructedRow \in Row
    BY <1>1, ReconstructedRowType
  <1>6. hints' \in [Positions' -> Row]
    <2>1. \A J, f : XorAll(J, f) \in Row
      BY XorAllType
    <2>2. \A a, b \in Row : Xor(a, b) \in Row
      BY XorType
    <2>3. \A h \in Positions : hints[h] \in Row
      BY <1>2 DEF ClientShape
    <2>4. ASSUME NEW h \in Positions
          PROVE  hints'[h] \in Row
      <3> DEFINE base  == IF h = query.pos THEN XorAll(Blocks, resp0) ELSE hints[h]
                 moved == XorAll({j \in Blocks : query.randSwaps[j] = h},
                                 [j \in Blocks |-> Xor(resp0[j], resp1[j])])
                 fix   == IF h = query.randSwaps[query.index0]
                          THEN Xor(resp1[query.index0], ReconstructedRow)
                          ELSE ZeroRow
      <3>1. hints'[h] = Xor(Xor(base, moved), fix)
        BY <1>1 DEF RefreshedHints
      <3>2. base \in Row
        BY <2>1, <2>3
      <3>3. moved \in Row
        BY <2>1
      <3>4. fix \in Row
        BY <1>4, <1>5, <2>2, ZeroRowType
      <3> HIDE DEF base, moved, fix
      <3> QED BY <2>2, <3>1, <3>2, <3>3, <3>4
    <2>5. hints' = [h \in Positions |-> hints'[h]]
      BY <1>1 DEF RefreshedHints
    <2> QED BY <1>3, <2>4, <2>5
  <1>7. /\ idxToSetIdx' \in [Blocks' -> [Positions' -> Positions']]
        /\ setIdxToIdx' \in [Blocks' -> [Positions' -> Positions']]
        /\ PermsInverse'
    <2> DEFINE r == query.randSwaps
               pos == query.pos
               P == SwappedPerms(r, pos)
               Q == SwappedInverses(r, pos)
    <2>1. idxToSetIdx' = P /\ setIdxToIdx' = Q
      BY <1>1
    <2>2. /\ P \in [Blocks -> [Positions -> Positions]]
          /\ Q \in [Blocks -> [Positions -> Positions]]
          /\ \A j \in Blocks : \A h \in Positions :
               Q[j][P[j][h]] = h /\ P[j][Q[j][h]] = h
      <3>1. /\ r \in [Blocks -> Positions] /\ pos \in Positions
            /\ ClientShape /\ HasClient
        BY <1>2, <1>4
      <3> HIDE DEF r, pos
      <3> QED BY <3>1, SwappedShape
    <2> HIDE DEF P, Q
    <2>3. PermsInverse'
      BY <1>3, <2>1, <2>2 DEF PermsInverse
    <2> QED BY <1>3, <2>1, <2>2, <2>3
  <1>8. ClientShape'
    BY <1>1, <1>2, <1>6, <1>7 DEF ClientShape
  <1>9. CallShape'
    BY <1>1, <1>4, <1>5 DEF CallShape, Reading, updVars
  <1> QED BY <1>8, <1>9

LEMMA TypeBeginUpdate ==
  ASSUME DbTypeOK, ClientShape, CallShape, BeginUpdate
  PROVE  ClientShape' /\ CallShape'
  <1>1. rd = "idle" /\ rd' \in {"updating", "panicked"} /\ updIdx' = 0
        /\ UNCHANGED <<cliVars, readVars>> /\ result' = NoResult
    BY DEF BeginUpdate
  <1>2. HasClient
    BY <1>1, ClientStates
  <1>3. ClientShape'
    BY <1>1, <1>2, ClientKept
  <1>4. OpsSince(cliVersion) \in Seq(Op)
    <2>1. ops \in Seq(Op) /\ cliVersion \in Nat
      BY DEF DbTypeOK, ClientShape
    <2>2. cliVersion - OpInitVersion + 1 \in 1..(cliVersion + 1)
      BY <2>1 DEF OpInitVersion
    <2>3. \A k \in (cliVersion - OpInitVersion + 1)..Len(ops) : ops[k] \in Op
      BY <2>1, <2>2, ElementOfSeq
    <2> QED BY <2>1, <2>2, <2>3, SubSeqProperties, LenProperties DEF OpsSince
  <1>5. response' \in [newVersion : Nat, updates : Seq(Op)]
    BY <1>4 DEF BeginUpdate, CallShape, DbTypeOK
  <1>6. updIdx' \in 0..Len(response'.updates)
    BY <1>1, <1>5, LenProperties
  <1> QED BY <1>1, <1>3, <1>5, <1>6
          DEF CallShape, Reading, NoResult, Row, ZeroRow

LEMMA NextOpType ==
  ASSUME CallShape, updIdx < Len(response.updates)
  PROVE  NextOp \in Op /\ updIdx + 1 \in 0..Len(response.updates)
  <1>1. response.updates \in Seq(Op) /\ updIdx \in 0..Len(response.updates)
    BY DEF CallShape
  <1>2. updIdx + 1 \in 1..Len(response.updates)
    BY <1>1, LenProperties
  <1> QED BY <1>1, <1>2, ElementOfSeq DEF NextOp

LEMMA PatchedType ==
  ASSUME ClientShape, HasClient, NEW op \in Op, NEW h \in Positions
  PROVE  /\ Patched(op, h) \in [Positions -> Row]
         /\ Patched(op, h)[h] = Xor(Xor(hints[h], op.Old), op.New)
         /\ \A g \in Positions \ {h} : Patched(op, h)[g] = hints[g]
  <1>1. hints \in [Positions -> Row] /\ op.Old \in Row /\ op.New \in Row
    BY DEF ClientShape, Op
  <1>2. Xor(Xor(hints[h], op.Old), op.New) \in Row
    BY <1>1, XorType
  <1> QED BY <1>1, <1>2 DEF Patched

LEMMA TypeApplyOp ==
  ASSUME ClientShape, CallShape, ApplyOp
  PROVE  ClientShape' /\ CallShape'
  <1>1. /\ rd = "updating" /\ updIdx < Len(response.updates)
        /\ NextOp.Index < nRows
        /\ hints' = Patched(NextOp, PosOf(NextOp.Index))
        /\ updIdx' = updIdx + 1
        /\ UNCHANGED <<rd, nRows, setSize, nHints, idxToSetIdx, setIdxToIdx,
                       cliVersion, readVars, response, result>>
    BY DEF ApplyOp
  <1>2. HasClient
    BY <1>1, ClientStates
  <1>3. NextOp \in Op /\ updIdx' \in 0..Len(response.updates)
    BY <1>1, NextOpType
  <1>4. NextOp.Index \in 0..nRows-1
    BY <1>1, <1>3 DEF Op, ClientShape
  <1>5. hints' \in [Positions -> Row]
    BY <1>1, <1>2, <1>3, <1>4, PosOfType, PatchedType
  <1>6. Blocks' = Blocks /\ Positions' = Positions /\ PermsInverse'
    <2>1. Blocks' = Blocks /\ Positions' = Positions
      BY <1>1 DEF Blocks, Positions
    <2>2. PermsInverse
      BY <1>2 DEF ClientShape
    <2> QED BY <1>1, <1>2, <2>1, <2>2 DEF PermsInverse
  <1>7. ClientShape'
    BY <1>1, <1>2, <1>5, <1>6 DEF ClientShape
  <1> QED BY <1>1, <1>3, <1>7 DEF CallShape, Reading

\* The position maps after a growth: one more block, the others unchanged.
LEMMA GrowShape ==
  ASSUME ClientShape, CallShape, GrowAndApplyOp
  PROVE  /\ HasClient
         /\ nRows' = nRows + nHints /\ setSize' = setSize + 1
         /\ Positions' = Positions /\ Blocks' = Blocks \cup {setSize}
         /\ setSize \notin Blocks
         /\ nRows' = setSize' * nHints' /\ nRows' \in Nat /\ setSize' \in Nat
         /\ idxToSetIdx' \in [Blocks' -> [Positions' -> Positions']]
         /\ setIdxToIdx' \in [Blocks' -> [Positions' -> Positions']]
         /\ \A j \in Blocks : idxToSetIdx'[j] = idxToSetIdx[j]
         /\ \A j \in Blocks' : \A h \in Positions :
              /\ setIdxToIdx'[j][idxToSetIdx'[j][h]] = h
              /\ idxToSetIdx'[j][setIdxToIdx'[j][h]] = h
  <1>1. PICK p \in Perms(nHints) :
          /\ nRows' = nRows + nHints
          /\ setSize' = setSize + 1
          /\ idxToSetIdx' = [j \in 0..setSize |->
                               IF j = setSize THEN p ELSE idxToSetIdx[j]]
          /\ setIdxToIdx' = [j \in 0..setSize |->
                               IF j = setSize THEN Inverted(p) ELSE setIdxToIdx[j]]
    BY DEF GrowAndApplyOp
  <1>2. rd = "updating" /\ nHints' = nHints
    BY DEF GrowAndApplyOp
  <1>3. HasClient
    BY <1>2, ClientStates
  <1>4. nHints \in Nat /\ setSize \in Nat /\ nRows = setSize * nHints
    BY <1>3 DEF ClientShape
  <1>5. /\ Positions' = Positions /\ Blocks' = 0..setSize
        /\ Blocks' = Blocks \cup {setSize} /\ setSize \notin Blocks
    BY <1>1, <1>2, <1>4 DEF Positions, Blocks
  <1>6. nRows' = setSize' * nHints' /\ nRows' \in Nat /\ setSize' \in Nat
    BY <1>1, <1>2, <1>4
  <1>7. /\ p \in [Positions -> Positions]
        /\ Inverted(p) \in [Positions -> Positions]
        /\ \A h \in Positions : Inverted(p)[p[h]] = h /\ p[Inverted(p)[h]] = h
    BY <1>4, InvertedIsInverse DEF Positions, Perms
  <1>8. /\ idxToSetIdx \in [Blocks -> [Positions -> Positions]]
        /\ setIdxToIdx \in [Blocks -> [Positions -> Positions]]
        /\ \A j \in Blocks : \A h \in Positions :
             /\ setIdxToIdx[j][idxToSetIdx[j][h]] = h
             /\ idxToSetIdx[j][setIdxToIdx[j][h]] = h
    BY <1>3 DEF ClientShape, PermsInverse
  <1>9. /\ \A j \in Blocks : idxToSetIdx'[j] = idxToSetIdx[j]
        /\ \A j \in Blocks : setIdxToIdx'[j] = setIdxToIdx[j]
        /\ idxToSetIdx'[setSize] = p /\ setIdxToIdx'[setSize] = Inverted(p)
    BY <1>1, <1>5
  <1>10. idxToSetIdx' \in [Blocks' -> [Positions' -> Positions']]
    BY <1>1, <1>5, <1>7, <1>8
  <1>11. setIdxToIdx' \in [Blocks' -> [Positions' -> Positions']]
    BY <1>1, <1>5, <1>7, <1>8
  <1>12. ASSUME NEW j \in Blocks', NEW h \in Positions
         PROVE  /\ setIdxToIdx'[j][idxToSetIdx'[j][h]] = h
                /\ idxToSetIdx'[j][setIdxToIdx'[j][h]] = h
    <2>1. CASE j = setSize
      BY <1>7, <1>9, <2>1
    <2>2. CASE j \in Blocks
      BY <1>8, <1>9, <2>2
    <2>3. j \in Blocks \cup {setSize}
      BY <1>5
    <2> QED BY <2>1, <2>2, <2>3
  <1>13. nRows' = nRows + nHints /\ setSize' = setSize + 1
    BY <1>1
  <1>14. /\ Positions' = Positions /\ Blocks' = Blocks \cup {setSize}
         /\ setSize \notin Blocks
    BY <1>5
  <1>15. \A j \in Blocks : idxToSetIdx'[j] = idxToSetIdx[j]
    BY <1>9
  <1> QED BY <1>3, <1>6, <1>10, <1>11, <1>12, <1>13, <1>14, <1>15

\* A row of the new block.
LEMMA NewBlockPos ==
  ASSUME ClientShape, CallShape, GrowAndApplyOp,
         NEW i \in Nat, nRows <= i, i < nRows'
  PROVE  BlockOf(i) = setSize /\ OffsetOf(i) \in Positions
  <1>1. /\ setSize \in Nat /\ nHints \in Nat /\ nHints > 0
        /\ nRows = setSize * nHints /\ nRows' = nRows + nHints /\ nRows \in Nat
    BY GrowShape DEF ClientShape
  <1>2. i - nRows \in 0..nHints-1
    BY <1>1
  <1>3. i = setSize * nHints + (i - nRows)
    BY <1>1
  <1>4. i \div nHints = setSize
    BY <1>1, <1>2, <1>3, DivUnique
  <1>5. i - setSize * nHints = i - nRows
    BY <1>1
  <1> QED BY <1>2, <1>4, <1>5 DEF BlockOf, OffsetOf, Positions

LEMMA TypeGrowAndApplyOp ==
  ASSUME ClientShape, CallShape, GrowAndApplyOp
  PROVE  ClientShape' /\ CallShape'
  <1>1. /\ rd = "updating" /\ updIdx < Len(response.updates)
        /\ rd' \in {"updating", "panicked"}
        /\ NextOp.Index >= nRows
        /\ updIdx' = updIdx + 1
        /\ UNCHANGED <<nHints, cliVersion, readVars, response, result>>
    BY DEF GrowAndApplyOp
  <1>2. NextOp \in Op /\ updIdx' \in 0..Len(response.updates)
    BY <1>1, NextOpType
  <1>3. HasClient
    BY GrowShape
  <1>4. hints' \in [Positions' -> Row]
    <2>1. CASE NextOp.Index < nRows'
      <3>1. NextOp.Index \in Nat /\ nRows <= NextOp.Index
        BY <1>1, <1>2, <1>3 DEF Op, ClientShape
      <3>2. BlockOf(NextOp.Index) = setSize /\ OffsetOf(NextOp.Index) \in Positions
        BY <2>1, <3>1, NewBlockPos
      <3> DEFINE h == (setIdxToIdx'[BlockOf(NextOp.Index)])[OffsetOf(NextOp.Index)]
      <3>3. hints' = Patched(NextOp, h)
        BY <2>1 DEF GrowAndApplyOp
      <3>4. h \in Positions
        BY <3>2, GrowShape
      <3> HIDE DEF h
      <3> QED BY <1>2, <1>3, <3>3, <3>4, GrowShape, PatchedType
    <2>2. CASE ~(NextOp.Index < nRows')
      <3>1. hints' = hints
        BY <2>2 DEF GrowAndApplyOp
      <3> QED BY <1>3, <3>1, GrowShape DEF ClientShape
    <2> QED BY <2>1, <2>2
  <1>5. PermsInverse'
    BY GrowShape DEF PermsInverse
  <1>6. ClientShape'
    BY <1>1, <1>3, <1>4, <1>5, GrowShape DEF ClientShape
  <1> QED BY <1>1, <1>2, <1>6 DEF CallShape, Reading

LEMMA TypeEndUpdate ==
  ASSUME ClientShape, CallShape, EndUpdate
  PROVE  ClientShape' /\ CallShape'
  <1>1. /\ rd = "updating" /\ rd' = "idle"
        /\ cliVersion' = response.newVersion
        /\ response' = NoResponse /\ updIdx' = 0
        /\ UNCHANGED <<nRows, setSize, nHints, hints, idxToSetIdx, setIdxToIdx,
                       readVars, result>>
    BY DEF EndUpdate
  <1>2. HasClient /\ cliVersion' \in Nat
    BY <1>1, ClientStates DEF CallShape
  <1>3. Blocks' = Blocks /\ Positions' = Positions
    BY <1>1 DEF Blocks, Positions
  <1>4. ClientShape'
    BY <1>1, <1>2, <1>3 DEF ClientShape, PermsInverse
  <1>5. NoResponse \in [newVersion : Nat, updates : Seq(Op)]
        /\ 0 \in 0..Len(NoResponse.updates)
    BY EmptySeq DEF NoResponse
  <1> QED BY <1>1, <1>4, <1>5 DEF CallShape, Reading

\* Every step preserves the types and keeps the maps inverse.
LEMMA TypeInvStep ==
  ASSUME TypeInv, [Next]_vars
  PROVE  TypeInv'
  <1>1. DbTypeOK /\ ClientShape /\ CallShape
    BY TypeInvSplit
  <1> SUFFICES DbTypeOK' /\ ClientShape' /\ CallShape'
    BY DEF TypeInv, TypeOK, ClientShape, CallShape, PermsInverse
  <1>2. CASE WriterStep
    <2>1. rd \in {"new", "idle"} /\ DbNext
          /\ UNCHANGED <<rd, cliVars, readVars, updVars>> /\ result' = NoResult
      BY <1>2 DEF WriterStep
    <2>2. ClientShape'
      BY <1>1, <2>1, ClientKept DEF HasClient
    <2>3. CallShape'
      BY <1>1, <2>1 DEF CallShape, Reading, updVars, NoResult, Row, ZeroRow
    <2> QED BY <1>1, <2>1, <2>2, <2>3, DbTypeStep
  <1>3. CASE UNCHANGED dbVars
    <2>1. DbTypeOK'
      BY <1>1, <1>3, DbTypeStep
    <2>2. CASE InitReader
      BY <1>1, <2>1, <2>2, TypeInitReader
    <2>3. CASE ReadStep
      <3>1. CASE \E i \in -1..nRows : Query(i)
        <4>1. PICK i \in -1..nRows : Query(i)
          BY <3>1
        <4>2. i \in Int
          OBVIOUS
        <4> QED BY <1>1, <2>1, <4>1, <4>2, TypeQuery
      <3> QED BY <1>1, <2>1, <2>3, <3>1, TypeAnswerLeft, TypeAnswerRight,
                 TypeReadFails, TypeReconstruct DEF ReadStep
    <2>4. CASE UpdateStep
      BY <1>1, <2>1, <2>4, TypeBeginUpdate, TypeApplyOp, TypeGrowAndApplyOp,
         TypeEndUpdate DEF UpdateStep
    <2>5. CASE UNCHANGED vars
      <3>1. ClientShape'
        BY <1>1, <2>5, ClientKept DEF vars, HasClient
      <3>2. CallShape'
        <4>1. QueryType' = QueryType /\ Blocks' = Blocks
          BY <2>5 DEF vars, cliVars, QueryType, Blocks, Positions
        <4> QED BY <1>1, <2>5, <4>1
                DEF vars, readVars, updVars, CallShape, Reading
      <3> QED BY <2>1, <3>1, <3>2
    <2> QED BY <2>2, <2>3, <2>4, <2>5, <1>2 DEF Next
  <1>4. WriterStep \/ UNCHANGED dbVars
    BY DEF Next, ReadStep, UpdateStep, vars, InitReader, Query, AnswerLeft,
           AnswerRight, ReadFails, Reconstruct, BeginUpdate, ApplyOp,
           GrowAndApplyOp, EndUpdate
  <1> QED BY <1>2, <1>3, <1>4

\* The types of all variables, and the shapes of hints, position maps,
\* requests and answers, through every sequence of calls of the reader
\* (pir_reader.go) and of the database (dynamic_db.go).
THEOREM TypeCorrect == Spec => []TypeOK
  <1>1. Init => TypeInv
    BY TypeInvInit
  <1>2. TypeInv /\ [Next]_vars => TypeInv'
    BY TypeInvStep
  <1>3. TypeInv => TypeOK
    BY DEF TypeInv
  <1> QED BY <1>1, <1>2, <1>3, PTL DEF Spec

\* findIndex looks a row up in a true inverse of the permutation the query
\* is built from, whatever was swapped (reconstruct) or added (updateState).
THEOREM PositionMapsInverse == Spec => []PermsInverse
  <1>1. Init => TypeInv
    BY TypeInvInit
  <1>2. TypeInv /\ [Next]_vars => TypeInv'
    BY TypeInvStep
  <1>3. TypeInv => PermsInverse
    BY DEF TypeInv
  <1> QED BY <1>1, <1>2, <1>3, PTL DEF Spec

-----------------------------------------------------------------------------
(***************************************************************************)
(* A disciplined caller.                                                   *)
(*                                                                         *)
(* Of the caller and the database it is assumed that the first set size    *)
(* divides the database and that no row past its end is rewritten; and, if *)
(* rows are appended, that the set size is the square root of the number   *)
(* of rows, that no append is larger than it, that none is empty while the *)
(* database is full, and that the reader is not initialised again after a  *)
(* growth.  The runs ExactFitAppend, BigBatch and EmptyAppend show what    *)
(* goes wrong without three of them.                                       *)
(***************************************************************************)
FirstSetSize == IF SetSizeReq # 0 THEN SetSizeReq ELSE ISqrt(N)

\* Rows in a block of the client and of the server: nHints.
BlockRows == N \div FirstSetSize

Discipline ==
  /\ ~StaleReads
  /\ ~EditsPastEnd
  /\ FirstSetSize * BlockRows = N
  /\ Appends => /\ FirstSetSize = ISqrt(N)
                /\ ISqrt(N) * ISqrt(N) = N
                /\ MaxBatch <= ISqrt(N)
                /\ ~EmptyOnFull
                /\ ~InitAfterGrowth

\* How far in the log the client is.
LogPos == cliVersion + updIdx

\* Rows the client has not grown to yet are zero as of its place in the log.
UnknownRowsZero == \A i \in nRows..(numRows - 1) : ClientRows[i] = ZeroRow

\* The client's geometry and place in the log.
ClientFollows ==
  /\ nHints = BlockRows
  /\ FirstSetSize <= setSize
  /\ nRows <= numRows
  /\ LogPos <= Len(ops)
  /\ \A k \in 1..LogPos : ops[k].Index < nRows
  /\ UnknownRowsZero
  /\ HintParity

ClientInv ==
  /\ rd # "panicked"
  /\ rd \notin {"new", "idle"} => Quiet
  /\ rd # "updating" => updIdx = 0
  /\ HasClient => ClientFollows
  /\ rd = "updating" =>
       /\ response.updates = OpsSince(cliVersion)
       /\ response.newVersion = Len(ops)

\* The row of block j at position h of its permutation.
RowAt(j, h) == flatDb[j * nHints + idxToSetIdx[j][h]]

\* What a read in progress knows of the client and the database.
ReadInv ==
  /\ Reading =>
       /\ CaughtUp
       /\ query.index0 = BlockOf(query.idx)
       /\ query.pos = PosOf(query.idx)
       /\ \A j \in Blocks :
            /\ query.offline[j] = idxToSetIdx[j][query.randSwaps[j]]
            /\ query.online[j] =
                 idxToSetIdx[j][IF j = query.index0 THEN query.randSwaps[j]
                                                    ELSE query.pos]
  /\ rd \in {"left", "answered"} =>
       \A j \in Blocks : resp0[j] = RowAt(j, query.randSwaps[j])
  /\ rd = "answered" =>
       \A j \in Blocks :
         resp1[j] = RowAt(j, IF j = query.index0 THEN query.randSwaps[j]
                                                 ELSE query.pos)

SystemInv == TypeInv /\ DbInv(BlockRows) /\ ClientInv /\ ReadInv

\* The geometry the discipline gives.
LEMMA Geometry ==
  ASSUME Discipline
  PROVE  /\ FirstSetSize \in Nat \ {0} /\ BlockRows \in Nat \ {0}
         /\ N = FirstSetSize * BlockRows
         /\ ExtensionsOf(BlockRows)
         /\ Appends => FirstSetSize = BlockRows /\ ~InitAfterGrowth
  <1>1. N \in Nat \ {0} /\ SetSizeReq \in 0..N /\ MaxBatch \in Nat
    BY DynamicDBAssumption, SinglePassAssumption
  <1>2. ISqrt(N) \in 1..N
    BY <1>1, ISqrtType
  <1>3. FirstSetSize \in Nat \ {0}
    BY <1>1, <1>2 DEF FirstSetSize
  <1>4. BlockRows \in Int /\ N = FirstSetSize * BlockRows
    BY <1>1, <1>3, DivMod DEF BlockRows, Discipline
  <1>5. BlockRows \in Nat \ {0}
    <2>1. ~(BlockRows <= 0)
      <3>1. BlockRows <= 0 => FirstSetSize * BlockRows <= 0
        BY <1>3, <1>4
      <3> QED BY <1>1, <1>4, <3>1
    <2> QED BY <1>4, <2>1
  <1>6. ASSUME Appends
        PROVE  /\ ExtendSize = BlockRows /\ MaxBatch <= BlockRows /\ ~EmptyOnFull
               /\ FirstSetSize = BlockRows /\ ~InitAfterGrowth
    <2>1. /\ FirstSetSize = ISqrt(N) /\ ISqrt(N) * ISqrt(N) = N
          /\ MaxBatch <= ISqrt(N) /\ ~EmptyOnFull /\ ~InitAfterGrowth
      BY <1>6 DEF Discipline
    <2>2. BlockRows = ExtendSize
      BY <2>1 DEF BlockRows, ExtendSize
    <2>3. N \div ISqrt(N) = ISqrt(N)
      BY <1>2, <2>1, ExactDiv
    <2> QED BY <2>1, <2>2, <2>3 DEF ExtendSize
  <1>7. ~EditsPastEnd
    BY DEF Discipline
  <1> QED BY <1>3, <1>4, <1>5, <1>6, <1>7 DEF ExtensionsOf

-----------------------------------------------------------------------------
(***************************************************************************)
(* The rows as the client knows them.                                      *)
(***************************************************************************)
LEMMA PendingFinite ==
  ASSUME DbTypeOK, NEW i
  PROVE  IsFiniteSet(Pending(i))
  <1>1. IsFiniteSet(1..Len(ops))
    BY OpsType, FS_Interval
  <1>2. Pending(i) \subseteq 1..Len(ops)
    BY DEF Pending
  <1> QED BY <1>1, <1>2, FS_Subset

LEMMA ClientRowType ==
  ASSUME DbTypeOK, NEW i \in 0..(numRows - 1)
  PROVE  ClientRow(i) \in Row
  BY XorAllType, XorType DEF ClientRow, DbTypeOK

\* A client at the end of the log knows the rows of the database.
LEMMA ClientRowCaughtUp ==
  ASSUME DbTypeOK, cliVersion \in Nat, updIdx \in Nat, LogPos = Len(ops),
         NEW i \in 0..(numRows - 1)
  PROVE  ClientRow(i) = flatDb[i]
  <1>1. Pending(i) = {}
    BY OpsType DEF Pending, LogPos
  <1>2. XorAll(Pending(i), [k \in Pending(i) |-> Xor(ops[k].Old, ops[k].New)])
          = ZeroRow
    BY <1>1, XorAllZero
  <1>3. flatDb[i] \in Row
    BY DEF DbTypeOK
  <1> QED BY <1>2, <1>3 DEF ClientRow, Xor, ZeroRow, Row

\* A write to the database leaves them as they are.
LEMMA ClientRowEdited ==
  ASSUME NEW n, DbTypeOK, DbInv(n), EditStep, UNCHANGED <<cliVersion, updIdx>>,
         cliVersion \in Nat, updIdx \in Nat, LogPos <= Len(ops),
         NEW i \in 0..(numRows - 1)
  PROVE  ClientRow(i)' = ClientRow(i)
  <1> DEFINE w  == NextWrite.Index
             L  == Len(ops)
             P  == Pending(i)
             f  == [k \in P |-> Xor(ops[k].Old, ops[k].New)]
             PP == Pending(i)'
             ff == [k \in PP |-> Xor(ops'[k].Old, ops'[k].New)]
             v  == NextWrite.New
  <1>1. /\ w \in 0..(numRows - 1) /\ v \in Row
        /\ flatDb' = [flatDb EXCEPT ![w] = v]
        /\ Len(ops') = L + 1
        /\ \A k \in 1..L : ops'[k] = ops[k]
        /\ ops'[L + 1] = [Index |-> w, Old |-> flatDb[w], New |-> v]
    BY EditStepInRange
  <1>2. L \in Nat /\ flatDb \in [0..(numRows - 1) -> Row]
    BY OpsType DEF DbTypeOK
  <1>3. ClientRow(i) = Xor(flatDb[i], XorAll(P, f))
    BY DEF ClientRow
  <1>10. ClientRow(i)' = Xor(flatDb'[i], XorAll(PP, ff))
    BY DEF ClientRow, Xor, XorAll
  <1>4. PP = IF w = i THEN P \cup {L + 1} ELSE P
    <2>1. P = {k \in 1..L : k > LogPos /\ ops[k].Index = i}
      BY DEF Pending, LogPos
    <2>2. PP = {k \in 1..(L + 1) : k > LogPos /\ ops'[k].Index = i}
      BY <1>1 DEF Pending, LogPos
    <2>3. LogPos \in Nat /\ L + 1 > LogPos
      BY <1>2 DEF LogPos
    <2> HIDE DEF w, L, P, PP
    <2> QED BY <1>1, <1>2, <2>1, <2>2, <2>3
  <1>5. P \subseteq 1..L /\ IsFiniteSet(P) /\ L + 1 \notin P
    <2>1. IsFiniteSet(P)
      BY PendingFinite
    <2>2. P \subseteq 1..L
      BY DEF Pending
    <2> HIDE DEF P, L
    <2> QED BY <1>2, <2>1, <2>2
  <1>6. XorAll(P, ff) = XorAll(P, f)
    <2>1. \A k \in P : ff[k] = f[k]
      BY <1>1, <1>4, <1>5
    <2> QED BY <2>1, XorAllAgree
  <1>7. XorAll(P, f) \in Row
    BY XorAllType
  <1>8. CASE w = i
    <2>1. ff[L + 1] = Xor(flatDb[i], v)
      BY <1>1, <1>4, <1>8
    <2>2. flatDb[i] \in Row /\ v \in Row /\ flatDb'[i] = v
      BY <1>1, <1>2, <1>8
    <2>3. ff[L + 1] \in Row
      BY <2>1, <2>2, XorType
    <2> HIDE DEF P, f, PP, ff, L, v, w
    <2>4. XorAll(PP, ff) = Xor(XorAll(P, f), Xor(flatDb[i], v))
      <3> DEFINE m == L + 1
      <3>1. PP = P \cup {m} /\ m \notin P /\ IsFiniteSet(P) /\ ff[m] \in Row
        BY <1>4, <1>5, <1>8, <2>3
      <3>2. ff[m] = Xor(flatDb[i], v)
        BY <2>1
      <3> HIDE DEF m
      <3>3. XorAll(P \cup {m}, ff) = Xor(XorAll(P, ff), ff[m])
        BY <3>1, XorAllAdd
      <3> QED BY <1>6, <3>1, <3>2, <3>3
    <2>5. ClientRow(i)' = Xor(v, Xor(XorAll(P, f), Xor(flatDb[i], v)))
      BY <1>10, <2>2, <2>4
    <2>6. Xor(v, Xor(XorAll(P, f), Xor(flatDb[i], v))) = Xor(flatDb[i], XorAll(P, f))
      BY <1>7, <2>2, XorLaws
    <2> QED BY <1>3, <2>5, <2>6
  <1>9. CASE w # i
    <2>1. flatDb'[i] = flatDb[i]
      BY <1>1, <1>2, <1>9
    <2> HIDE DEF P, f, PP, ff, L, v, w
    <2> QED BY <1>3, <1>10, <1>4, <1>6, <1>9, <2>1
  <1> QED BY <1>8, <1>9

LEMMA ClientRowSame ==
  ASSUME UNCHANGED <<ops, cliVersion, updIdx>>, NEW i, flatDb'[i] = flatDb[i]
  PROVE  ClientRow(i)' = ClientRow(i)
  <1>1. Pending(i)' = Pending(i)
    BY DEF Pending
  <1>2. [k \in Pending(i) |-> Xor(ops[k].Old, ops[k].New)]'
          = [k \in Pending(i) |-> Xor(ops[k].Old, ops[k].New)]
    BY <1>1
  <1> QED BY <1>1, <1>2 DEF ClientRow, XorAll, Xor

\* The same as one function of the row.
LEMMA ClientRowsAre ==
  ASSUME DbTypeOK
  PROVE  /\ ClientRows \in [0..(numRows - 1) -> Row]
         /\ \A i \in 0..(numRows - 1) : ClientRows[i] = ClientRow(i)
  <1>1. DOMAIN flatDb = 0..(numRows - 1)
    BY DEF DbTypeOK
  <1> QED BY <1>1, ClientRowType DEF ClientRows

LEMMA NextClientRowsAre ==
  ASSUME DbTypeOK'
  PROVE  \A i \in 0..(numRows' - 1) : ClientRows'[i] = ClientRow(i)'
  <1>1. DOMAIN flatDb' = 0..(numRows' - 1)
    BY DEF DbTypeOK
  <1>2. ClientRows' = [i \in DOMAIN flatDb' |-> ClientRow(i)']
    BY DEF ClientRows
  <1> QED BY <1>1, <1>2

\* A client at the end of the log knows the database.
LEMMA ClientRowsCaughtUp ==
  ASSUME DbTypeOK, cliVersion \in Nat, updIdx \in Nat, LogPos = Len(ops)
  PROVE  \A i \in 0..(numRows - 1) : ClientRows[i] = flatDb[i]
  BY ClientRowCaughtUp, ClientRowsAre

\* A step that writes no row and applies no operation.
LEMMA ClientRowsKept ==
  ASSUME DbTypeOK, UNCHANGED <<flatDb, numRows, ops, cliVersion, updIdx>>
  PROVE  ClientRows' = ClientRows
  <1>1. \A i \in DOMAIN flatDb : ClientRow(i)' = ClientRow(i)
    BY ClientRowSame
  <1>2. ClientRows' = [i \in DOMAIN flatDb |-> ClientRow(i)']
    BY DEF ClientRows
  <1> QED BY <1>1, <1>2 DEF ClientRows

LEMMA RangeGrows ==
  ASSUME NEW a \in Nat, NEW b \in Nat, a <= b
  PROVE  /\ \A i \in 0..(a - 1) : i \in 0..(b - 1)
         /\ \A i \in a..(b - 1) : i \in 0..(b - 1)
  OBVIOUS

LEMMA RangeSplits ==
  ASSUME NEW a \in Nat, NEW b \in Nat, NEW c \in Nat
  PROVE  \A i \in a..(c - 1) : i \in a..(b - 1) \/ i \in b..(c - 1)
  OBVIOUS

\* What the steps of the writer do to them.
LEMMA ClientRowsWritten ==
  ASSUME NEW n, ExtensionsOf(n), DbTypeOK, DbInv(n), DbNext,
         UNCHANGED <<cliVersion, updIdx>>,
         cliVersion \in Nat, updIdx \in Nat, LogPos <= Len(ops)
  PROVE  /\ numRows <= numRows'
         /\ \A i \in 0..(numRows - 1) : ClientRows'[i] = ClientRows[i]
         /\ \A i \in numRows..(numRows' - 1) : ClientRows'[i] = ZeroRow
  <1>1. DbTypeOK' /\ numRows \in Nat /\ numRows' \in Nat
    BY DbTypeStep DEF DbTypeOK
  <1>5. numRows \in Nat /\ numRows' \in Nat
    BY <1>1
  <1>2. CASE EditStep
    <2>1. numRows' = numRows
      BY <1>2 DEF EditStep
    <2>2. \A i \in 0..(numRows - 1) : ClientRow(i)' = ClientRow(i)
      BY <1>2, ClientRowEdited
    <2> QED BY <1>1, <2>1, <2>2, ClientRowsAre, NextClientRowsAre
  <1>3. CASE BeginEditRows \/ EndEdit
    <2>1. UNCHANGED <<flatDb, numRows, ops>>
      BY <1>3 DEF BeginEditRows, EndEdit
    <2>2. ClientRows' = ClientRows
      BY <2>1, ClientRowsKept
    <2> QED BY <1>1, <2>1, <2>2
  <1>4. CASE BeginAppendRows
    <2>1. /\ UNCHANGED ops
          /\ numRows' = IF NeedsExtension(Len(batch')) THEN numRows + n ELSE numRows
          /\ \A i \in 0..(numRows - 1) : flatDb'[i] = flatDb[i]
          /\ \A i \in numRows..(numRows' - 1) : flatDb'[i] = ZeroRow
      BY <1>4, BeginAppendRowsIs
    <2>2. n \in Nat
      BY DEF ExtensionsOf
    <2>3. numRows <= numRows'
      BY <1>1, <2>1, <2>2
    <2>4. \A i \in 0..(numRows - 1) : ClientRows'[i] = ClientRows[i]
      <3>1. \A i \in 0..(numRows - 1) : ClientRow(i)' = ClientRow(i)
        BY <2>1, ClientRowSame
      <3>2. \A i \in 0..(numRows - 1) : i \in 0..(numRows' - 1)
        BY <1>5, <2>3, RangeGrows
      <3> QED BY <1>1, <3>1, <3>2, ClientRowsAre, NextClientRowsAre
    <2>5. ASSUME NEW i \in numRows..(numRows' - 1)
          PROVE  ClientRows'[i] = ZeroRow
      <3>1. Pending(i)' = {}
        <4>1. \A k \in 1..Len(ops) : ops[k].Index < numRows /\ ops[k].Index \in Nat
          BY OpsType DEF DbInv, LogInv
        <4>2. i \in Int /\ numRows <= i
          BY <1>1
        <4>3. \A k \in 1..Len(ops) : ops[k].Index # i
          BY <1>1, <4>1, <4>2
        <4> QED BY <2>1, <4>3 DEF Pending
      <3>2. flatDb'[i] = ZeroRow
        BY <2>1
      <3>3. ClientRow(i)' = Xor(flatDb'[i], XorAll(Pending(i)',
                 [k \in Pending(i)' |-> Xor(ops'[k].Old, ops'[k].New)]))
        BY DEF ClientRow, Xor, XorAll
      <3>4. XorAll(Pending(i)',
                   [k \in Pending(i)' |-> Xor(ops'[k].Old, ops'[k].New)]) = ZeroRow
        BY <3>1, XorAllZero
      <3>5. ClientRow(i)' = ZeroRow
        BY <3>2, <3>3, <3>4 DEF Xor, ZeroRow
      <3>6. i \in 0..(numRows' - 1)
        BY <1>5, <2>3, RangeGrows
      <3> QED BY <1>1, <3>5, <3>6, NextClientRowsAre
    <2> QED BY <2>3, <2>4, <2>5
  <1> QED BY <1>2, <1>3, <1>4 DEF DbNext

\* A row at a position of a block is one of the client's rows.
LEMMA RowIndexType ==
  ASSUME ClientShape, HasClient, NEW j \in Blocks, NEW h \in Positions
  PROVE  j * nHints + idxToSetIdx[j][h] \in 0..(nRows - 1)
  <1>1. /\ setSize \in Nat /\ nHints \in Nat /\ nRows = setSize * nHints
        /\ idxToSetIdx[j][h] \in 0..(nHints - 1) /\ j \in 0..(setSize - 1)
    BY DEF ClientShape, Blocks, Positions
  <1> QED BY <1>1, RowOfBlock

\* The hints stay right as long as the client and its rows stay.
LEMMA HintParityKept ==
  ASSUME ClientShape, HasClient, HintParity, UNCHANGED cliVars,
         \A i \in 0..(nRows - 1) : ClientRows'[i] = ClientRows[i]
  PROVE  HintParity'
  <1>1. /\ Blocks' = Blocks /\ Positions' = Positions /\ hints' = hints
        /\ nHints' = nHints /\ idxToSetIdx' = idxToSetIdx
    BY DEF cliVars, Blocks, Positions
  <1>2. ASSUME NEW h \in Positions
        PROVE  hints'[h] = XorAll(Blocks',
                 [j \in Blocks' |-> ClientRows'[j * nHints' + idxToSetIdx'[j][h]]])
    <2> DEFINE f == [j \in Blocks |-> ClientRows[j * nHints + idxToSetIdx[j][h]]]
               g == [j \in Blocks |-> ClientRows'[j * nHints + idxToSetIdx[j][h]]]
    <2>1. hints[h] = XorAll(Blocks, f)
      BY <1>2 DEF HintParity
    <2>2. \A j \in Blocks : g[j] = f[j]
      BY <1>2, RowIndexType
    <2>3. XorAll(Blocks, f) = XorAll(Blocks, g)
      BY <2>2, XorAllAgree
    <2> HIDE DEF f
    <2>4. hints'[h] = XorAll(Blocks, g)
      BY <1>1, <2>1, <2>3
    <2> QED BY <1>1, <2>4
  <1>3. HintParity' = (HasClient' => \A h \in Positions' :
          hints'[h] = XorAll(Blocks',
                 [j \in Blocks' |-> ClientRows'[j * nHints' + idxToSetIdx'[j][h]]]))
    BY DEF HintParity, XorAll
  <1> QED BY <1>1, <1>2, <1>3

-----------------------------------------------------------------------------
(***************************************************************************)
(* The invariant, call by call.                                            *)
(***************************************************************************)

\* The state after a call in which the client is at the end of the log.
LEMMA NextClientRowsCaughtUp ==
  ASSUME DbTypeOK', cliVersion' \in Nat, updIdx' \in Nat,
         cliVersion' + updIdx' = Len(ops')
  PROVE  \A i \in 0..(numRows' - 1) : ClientRows'[i] = flatDb'[i]
  <1> SUFFICES ASSUME NEW i \in 0..(numRows' - 1)
               PROVE  ClientRows'[i] = flatDb'[i]
    OBVIOUS
  <1>1. Pending(i)' = {k \in 1..Len(ops') : k > cliVersion' + updIdx' /\ ops'[k].Index = i}
    BY DEF Pending
  <1>2. Pending(i)' = {}
    <2>1. Len(ops') \in Nat
      BY LenProperties DEF DbTypeOK
    <2>2. Pending(i)' = {k \in 1..Len(ops') : k > Len(ops') /\ ops'[k].Index = i}
      BY <1>1
    <2> QED BY <2>1, <2>2
  <1>3. XorAll(Pending(i)',
               [k \in Pending(i)' |-> Xor(ops'[k].Old, ops'[k].New)]) = ZeroRow
    BY <1>2, XorAllZero
  <1>4. ClientRow(i)' = Xor(flatDb'[i], XorAll(Pending(i)',
             [k \in Pending(i)' |-> Xor(ops'[k].Old, ops'[k].New)]))
    BY DEF ClientRow, Xor, XorAll
  <1>5. flatDb'[i] \in Row
    BY DEF DbTypeOK
  <1>6. Xor(flatDb'[i], ZeroRow) = flatDb'[i]
    BY <1>5 DEF Xor, ZeroRow
  <1> QED BY <1>3, <1>4, <1>6, NextClientRowsAre

\* Between mutating calls the version counters agree with the log.
LEMMA QuietVersions ==
  ASSUME NEW n, DbTypeOK, DbInv(n), Quiet
  PROVE  /\ Len(ops) \in Nat /\ currVersion = Len(ops) /\ dbVersion = Len(ops)
         /\ Filled = realSizeDB /\ Stored = realSizeDB
  <1>1. /\ Len(ops) = currVersion + editIdx /\ dbVersion = Len(ops)
        /\ Len(batch) = 0 /\ call = "none"
    BY DEF DbInv, LogInv, Quiet
  <1>2. editIdx = 0 /\ currVersion \in Nat /\ Len(ops) \in Nat /\ realSizeDB \in Nat
    BY <1>1, OpsType DEF DbTypeOK
  <1> QED BY <1>1, <1>2 DEF Filled, Stored

\* Init splits the database into blocks of BlockRows rows.
LEMMA FirstGeometry ==
  ASSUME Discipline, DbInv(BlockRows), InitReader
  PROVE  /\ HintSetSize = FirstSetSize /\ numRows = N
         /\ numRows \div HintSetSize = BlockRows
         /\ HintSetSize * (numRows \div HintSetSize) = numRows
  <1>1. numRows = N
    <2>1. CASE Appends
      BY <2>1, Geometry DEF InitReader
    <2>2. CASE ~Appends
      BY <2>2 DEF DbInv, SpaceInv
    <2> QED BY <2>1, <2>2
  <1>2. HintSetSize = FirstSetSize
    BY <1>1 DEF HintSetSize, FirstSetSize
  <1> QED BY <1>1, <1>2, Geometry DEF BlockRows

LEMMA InvInitReader ==
  ASSUME Discipline, SystemInv, InitReader, TypeInv'
  PROVE  ClientInv' /\ ReadInv'
  <1> DEFINE s == FirstSetSize
             n == BlockRows
  <1>1. DbTypeOK /\ DbInv(n) /\ ClientInv
    BY TypeInvSplit DEF SystemInv
  <1>2. /\ Quiet /\ rd \in {"new", "idle"}
        /\ UNCHANGED <<dbVars, readVars, updVars>>
    BY DEF InitReader
  <1>3. PICK p \in [0..s-1 -> Perms(n)] :
          /\ nRows' = numRows /\ setSize' = s /\ nHints' = n
          /\ hints' = HintsOf(flatDb, s, n, p)
          /\ idxToSetIdx' = p
          /\ cliVersion' = dbVersion
          /\ rd' = "idle"
    <2>1. HintSetSize = s /\ numRows \div s = n /\ s * n = numRows
      BY <1>1, FirstGeometry
    <2> QED BY <2>1 DEF InitReader
  <1>4. numRows = N /\ s \in Nat \ {0} /\ n \in Nat \ {0} /\ N = s * n
    BY <1>1, FirstGeometry, Geometry
  <1>5. updIdx' = 0
    BY <1>1, <1>2 DEF ClientInv, updVars
  <1>6. /\ UNCHANGED <<flatDb, numRows, ops, call>>
        /\ cliVersion' = Len(ops) /\ Len(ops) \in Nat
    BY <1>1, <1>2, <1>3, QuietVersions DEF dbVars
  <1>7. DbTypeOK'
    BY DEF TypeInv, TypeOK
  <1>8. \A i \in 0..(numRows - 1) : ClientRows'[i] = flatDb[i]
    BY <1>5, <1>6, <1>7, NextClientRowsCaughtUp
  <1> HIDE DEF s, n
  <1>9. Blocks' = 0..s-1 /\ Positions' = 0..n-1
    BY <1>3 DEF Blocks, Positions
  <1>10. HintParity'
    <2>1. ASSUME NEW h \in 0..n-1
          PROVE  hints'[h] = XorAll(0..s-1,
                   [j \in 0..s-1 |-> ClientRows'[j * n + p[j][h]]])
      <3> DEFINE f == [j \in 0..s-1 |-> flatDb[j * n + p[j][h]]]
                 g == [j \in 0..s-1 |-> ClientRows'[j * n + p[j][h]]]
      <3>1. hints'[h] = XorAll(0..s-1, f)
        BY <1>3 DEF HintsOf
      <3>2. ASSUME NEW j \in 0..s-1 PROVE g[j] = f[j]
        <4>1. p[j][h] \in 0..n-1
          BY DEF Perms
        <4>2. j * n + p[j][h] \in 0..(s * n - 1)
          BY <1>4, <4>1, RowOfBlock
        <4> QED BY <1>4, <1>8, <4>2
      <3> HIDE DEF f, g
      <3> QED BY <3>1, <3>2, XorAllAgree DEF g
    <2>2. HintParity' = (HasClient' => \A h \in Positions' :
            hints'[h] = XorAll(Blocks',
                   [j \in Blocks' |-> ClientRows'[j * nHints' + idxToSetIdx'[j][h]]]))
      BY DEF HintParity, XorAll
    <2> QED BY <1>3, <1>9, <2>1, <2>2
  <1>11. UnknownRowsZero'
    BY <1>3, <1>4, <1>6 DEF UnknownRowsZero
  <1>12. \A k \in 1..Len(ops) : ops[k].Index < numRows
    BY <1>1 DEF DbInv, LogInv
  <1>13. LogPos' = Len(ops')
    BY <1>5, <1>6 DEF LogPos
  <1>14. ClientFollows'
    <2>1. nHints' = BlockRows /\ FirstSetSize <= setSize' /\ nRows' <= numRows'
      BY <1>3, <1>4, <1>6 DEF s, n
    <2>2. LogPos' <= Len(ops')
      BY <1>6, <1>13
    <2>3. \A k \in 1..LogPos' : ops'[k].Index < nRows'
      BY <1>3, <1>6, <1>12, <1>13
    <2> QED BY <1>10, <1>11, <2>1, <2>2, <2>3 DEF ClientFollows, BlockRows, FirstSetSize
  <1>15. ClientInv'
    BY <1>3, <1>5, <1>14 DEF ClientInv
  <1>16. ReadInv'
    BY <1>3 DEF ReadInv, Reading
  <1> QED BY <1>15, <1>16

\* What the invariant says in parts.
LEMMA InvParts ==
  ASSUME SystemInv
  PROVE  /\ DbTypeOK /\ ClientShape /\ CallShape
         /\ DbInv(BlockRows) /\ ClientInv /\ ReadInv
         /\ cliVersion \in Nat /\ updIdx \in Nat /\ Len(ops) \in Nat
         /\ numRows \in Nat /\ nRows \in Nat
  <1>1. DbTypeOK /\ ClientShape /\ CallShape
    BY TypeInvSplit DEF SystemInv
  <1>2. cliVersion \in Nat /\ nRows \in Nat /\ updIdx \in Nat /\ numRows \in Nat
    BY <1>1, LenProperties DEF ClientShape, CallShape, DbTypeOK
  <1>3. Len(ops) \in Nat
    BY <1>1, OpsType
  <1> QED BY <1>1, <1>2, <1>3 DEF SystemInv

\* A client keeps up with steps that leave it and the rows it has alone.
LEMMA FollowsKept ==
  ASSUME SystemInv, HasClient, UNCHANGED <<cliVars, updIdx>>,
         numRows' \in Nat, numRows <= numRows',
         \A i \in 0..(numRows - 1) : ClientRows'[i] = ClientRows[i],
         \A i \in numRows..(numRows' - 1) : ClientRows'[i] = ZeroRow,
         Len(ops') \in Nat, Len(ops) <= Len(ops'),
         \A k \in 1..Len(ops) : ops'[k] = ops[k]
  PROVE  ClientFollows'
  <1>1. ClientFollows /\ ClientShape
    BY InvParts DEF ClientInv
  <1>2. /\ LogPos \in Nat /\ LogPos <= Len(ops) /\ Len(ops) \in Nat
        /\ numRows \in Nat /\ nRows \in Nat /\ nRows <= numRows
    BY <1>1, InvParts DEF ClientFollows, LogPos
  <1>3. /\ nRows' = nRows /\ setSize' = setSize /\ nHints' = nHints
        /\ LogPos' = LogPos
    BY DEF cliVars, LogPos
  <1>4. HintParity'
    <2>1. HintParity
      BY <1>1 DEF ClientFollows
    <2>2. \A i \in 0..(nRows - 1) : ClientRows'[i] = ClientRows[i]
      BY <1>2, RangeGrows
    <2> QED BY <1>1, <2>1, <2>2, HintParityKept
  <1>5. UnknownRowsZero'
    <2>1. ASSUME NEW i \in nRows..(numRows' - 1)
          PROVE  ClientRows'[i] = ZeroRow
      <3>1. i \in nRows..(numRows - 1) \/ i \in numRows..(numRows' - 1)
        BY <1>2, RangeSplits
      <3>2. CASE i \in nRows..(numRows - 1)
        <4>1. i \in 0..(numRows - 1)
          BY <1>2, <3>2, RangeGrows
        <4>2. ClientRows[i] = ZeroRow
          BY <1>1, <3>2 DEF ClientFollows, UnknownRowsZero
        <4> QED BY <4>1, <4>2
      <3> QED BY <3>1, <3>2
    <2> QED BY <1>3, <2>1 DEF UnknownRowsZero
  <1>6. nRows' <= numRows' /\ LogPos' <= Len(ops')
    BY <1>2, <1>3
  <1>7. \A k \in 1..LogPos' : ops'[k].Index < nRows'
    <2>1. \A k \in 1..LogPos : k \in 1..Len(ops)
      BY <1>2
    <2>2. \A k \in 1..LogPos : ops[k].Index < nRows
      BY <1>1 DEF ClientFollows
    <2> QED BY <1>3, <2>1, <2>2
  <1>8. nHints' = BlockRows /\ FirstSetSize <= setSize'
    BY <1>1, <1>3 DEF ClientFollows
  <1> QED BY <1>4, <1>5, <1>6, <1>7, <1>8 DEF ClientFollows, BlockRows, FirstSetSize

LEMMA InvWriterStep ==
  ASSUME Discipline, SystemInv, WriterStep
  PROVE  ClientInv' /\ ReadInv'
  <1>1. /\ rd \in {"new", "idle"} /\ rd' = rd /\ DbNext
        /\ UNCHANGED <<cliVars, readVars, updVars>>
    BY DEF WriterStep
  <1>2. /\ DbTypeOK /\ DbInv(BlockRows) /\ ClientInv
        /\ cliVersion \in Nat /\ updIdx \in Nat /\ Len(ops) \in Nat
        /\ updIdx = 0
    BY <1>1, InvParts DEF ClientInv
  <1>3. UNCHANGED <<cliVersion, updIdx>>
    BY <1>1 DEF cliVars, updVars
  <1>4. CASE HasClient
    <2>1. LogPos <= Len(ops)
      BY <1>2, <1>4 DEF ClientInv, ClientFollows
    <2>2. /\ numRows <= numRows'
          /\ \A i \in 0..(numRows - 1) : ClientRows'[i] = ClientRows[i]
          /\ \A i \in numRows..(numRows' - 1) : ClientRows'[i] = ZeroRow
      BY <1>1, <1>2, <1>3, <2>1, Geometry, ClientRowsWritten
    <2>3. numRows' \in Nat
      BY <1>1, <1>2, DbTypeStep DEF DbTypeOK
    <2>4. /\ Len(ops') \in Nat /\ Len(ops) <= Len(ops')
          /\ \A k \in 1..Len(ops) : ops'[k] = ops[k]
      <3>1. CASE EditStep
        <4>1. /\ Len(ops') = Len(ops) + 1
              /\ \A k \in 1..Len(ops) : ops'[k] = ops[k]
          BY <1>2, <3>1, EditStepInRange
        <4> QED BY <1>2, <4>1
      <3>2. CASE ~EditStep
        <4>1. ops' = ops
          BY <1>1, <3>2 DEF DbNext, BeginEditRows, BeginAppendRows, EndEdit
        <4> QED BY <1>2, <4>1
      <3> QED BY <3>1, <3>2
    <2>5. ClientFollows'
      BY <1>1, <1>3, <1>4, <2>2, <2>3, <2>4, FollowsKept
    <2> QED BY <1>1, <1>2, <1>3, <2>5 DEF ClientInv, ReadInv, Reading
  <1>5. CASE ~HasClient
    BY <1>1, <1>2, <1>3, <1>5 DEF ClientInv, ReadInv, Reading, HasClient
  <1> QED BY <1>4, <1>5

\* The server is not called to write, and the log position stays.
LEMMA FollowsQuiet ==
  ASSUME SystemInv, HasClient, UNCHANGED <<dbVars, cliVars, updIdx>>
  PROVE  ClientFollows'
  <1>1. DbTypeOK /\ numRows \in Nat /\ Len(ops) \in Nat
    BY InvParts
  <1>2. UNCHANGED <<flatDb, numRows, ops, cliVersion, updIdx>>
    BY DEF dbVars, cliVars
  <1>3. ClientRows' = ClientRows
    BY <1>1, <1>2, ClientRowsKept
  <1>4. numRows <= numRows' /\ Len(ops) <= Len(ops')
    BY <1>1, <1>2
  <1>5. \A i \in numRows..(numRows' - 1) : ClientRows'[i] = ZeroRow
    BY <1>1, <1>2
  <1> QED BY <1>1, <1>2, <1>3, <1>4, <1>5, FollowsKept

LEMMA InvQuery ==
  ASSUME Discipline, SystemInv, NEW i \in Int, Query(i)
  PROVE  ClientInv' /\ ReadInv'
  <1>1. /\ Quiet /\ rd = "idle" /\ rd' = "asked" /\ CaughtUp
        /\ UNCHANGED <<dbVars, cliVars, resp0, resp1, updVars>>
    BY DEF Query, Discipline
  <1>2. HasClient /\ updIdx = 0 /\ UNCHANGED updIdx /\ UNCHANGED call
    BY <1>1, ClientStates, InvParts DEF ClientInv, updVars, dbVars
  <1>3. ClientFollows'
    BY <1>1, <1>2, FollowsQuiet
  <1>4. ClientInv'
    BY <1>1, <1>2, <1>3 DEF ClientInv, Quiet
  <1>5. PICK r \in [Blocks -> Positions] :
          query' = [idx |-> i % nRows, index0 |-> BlockOf(i % nRows),
                    pos |-> PosOf(i % nRows), size |-> setSize,
                    randSwaps |-> r,
                    offline |-> [j \in Blocks |-> idxToSetIdx[j][r[j]]],
                    online  |-> [j \in Blocks |->
                      idxToSetIdx[j][IF j = BlockOf(i % nRows) THEN r[j]
                                     ELSE PosOf(i % nRows)]]]
    BY DEF Query
  <1>6. /\ Blocks' = Blocks /\ idxToSetIdx' = idxToSetIdx
        /\ setIdxToIdx' = setIdxToIdx /\ nHints' = nHints
        /\ cliVersion' = cliVersion /\ ops' = ops
    BY <1>1 DEF cliVars, dbVars, Blocks
  <1>7. query'.index0 = BlockOf(query'.idx) /\ query'.pos = PosOf(query'.idx)
    BY <1>5
  <1>8. BlockOf(query.idx)' = BlockOf(query'.idx) /\ PosOf(query.idx)' = PosOf(query'.idx)
    BY <1>6 DEF BlockOf, PosOf, OffsetOf
  <1>9. \A j \in Blocks :
          /\ query'.offline[j] = idxToSetIdx[j][query'.randSwaps[j]]
          /\ query'.online[j] =
               idxToSetIdx[j][IF j = query'.index0 THEN query'.randSwaps[j]
                                                   ELSE query'.pos]
    BY <1>5
  <1>10. CaughtUp'
    BY <1>1, <1>6 DEF CaughtUp
  <1>11. ReadInv'
    BY <1>1, <1>6, <1>7, <1>8, <1>9, <1>10 DEF ReadInv, Reading
  <1> QED BY <1>4, <1>11

\* The client never has fewer rows than the database had at first.
LEMMA FirstRowsCovered ==
  ASSUME Discipline, SystemInv, HasClient
  PROVE  N <= nRows
  <1> DEFINE n  == BlockRows
             s0 == FirstSetSize
  <1>1. s0 \in Nat \ {0} /\ n \in Nat \ {0} /\ N = s0 * n /\ N \in Nat
    BY Geometry, DynamicDBAssumption
  <1>2. /\ setSize \in Nat /\ s0 <= setSize /\ nRows = setSize * n /\ nRows \in Nat
    BY InvParts DEF ClientShape, ClientInv, ClientFollows
  <1> HIDE DEF s0, n
  <1>3. CASE s0 = setSize
    BY <1>1, <1>2, <1>3
  <1>4. CASE s0 # setSize
    <2>1. s0 * n + n <= setSize * n
      BY <1>1, <1>2, <1>4, BlocksApart
    <2> QED BY <1>1, <1>2, <2>1
  <1> QED BY <1>3, <1>4

\* A client at the end of the log reaches every row in use and splits the
\* database as the server does, which has at most one block more.
LEMMA CaughtUpGeometry ==
  ASSUME Discipline, SystemInv, HasClient, Quiet, CaughtUp
  PROVE  /\ realSizeDB <= nRows
         /\ numRows \div setSize = nHints
         /\ \A i \in 0..(numRows - 1) : ClientRows[i] = flatDb[i]
  <1> DEFINE n  == BlockRows
             s0 == FirstSetSize
  <1>1. /\ DbTypeOK /\ DbInv(n) /\ ClientShape /\ ClientFollows
        /\ cliVersion \in Nat /\ updIdx \in Nat /\ Len(ops) \in Nat
        /\ numRows \in Nat /\ nRows \in Nat
    BY InvParts DEF ClientInv
  <1>2. LogPos = Len(ops)
    <2>1. cliVersion = Len(ops) /\ cliVersion + updIdx <= Len(ops)
      BY <1>1 DEF CaughtUp, ClientFollows, LogPos
    <2>2. updIdx = 0
      BY <1>1, <2>1
    <2> QED BY <1>1, <2>1, <2>2 DEF LogPos
  <1>3. Filled = realSizeDB /\ Stored = realSizeDB /\ realSizeDB \in Nat
    BY <1>1, QuietVersions DEF DbTypeOK
  <1>4. s0 \in Nat \ {0} /\ n \in Nat \ {0} /\ N = s0 * n /\ (Appends => s0 = n)
        /\ N \in Nat
    BY Geometry, DynamicDBAssumption
  <1>5. /\ setSize \in Nat /\ s0 <= setSize /\ nHints = n /\ nRows = setSize * n
        /\ setSize > 0 /\ nRows <= numRows
    BY <1>1 DEF ClientShape, ClientFollows
  <1>6. N <= nRows
    BY FirstRowsCovered
  <1>7. realSizeDB <= nRows
    <2>1. CASE realSizeDB <= N
      BY <1>1, <1>3, <1>4, <1>6, <2>1
    <2>2. CASE realSizeDB > N
      <3>1. realSizeDB - 1 \in N..(Stored - 1)
        BY <1>3, <1>4, <2>2
      <3>2. PICK k \in 1..Len(ops) : ops[k].Index = realSizeDB - 1
        BY <1>1, <3>1 DEF DbInv, AppendsLogged
      <3>3. ops[k].Index < nRows
        BY <1>1, <1>2 DEF ClientFollows
      <3> QED BY <1>1, <1>3, <3>2, <3>3
    <2> QED BY <1>3, <1>4, <2>1, <2>2
  <1>8. numRows <= nRows + n
    <2>1. numRows <= realSizeDB + n
      BY <1>1, <1>3 DEF DbInv, SpaceInv
    <2> HIDE DEF n
    <2> QED BY <1>1, <1>3, <1>4, <1>7, <2>1
  <1>9. PICK m \in Nat : numRows = m * n
    BY <1>1 DEF DbInv, SpaceInv
  <1>10. m = setSize \/ m = setSize + 1
    <2> HIDE DEF n, s0
    <2>1. ~(m < setSize)
      <3>1. m < setSize => m * n + n <= setSize * n
        BY <1>4, <1>5, BlocksApart
      <3> QED BY <1>1, <1>4, <1>5, <1>9, <3>1
    <2>2. ~(setSize + 1 < m)
      <3>1. setSize + 1 < m => (setSize + 1) * n + n <= m * n
        BY <1>4, <1>5, BlocksApart
      <3>2. (setSize + 1) * n = nRows + n
        BY <1>4, <1>5
      <3> QED BY <1>1, <1>4, <1>8, <1>9, <3>1, <3>2
    <2> QED BY <1>5, <2>1, <2>2
  <1>11. numRows \div setSize = nHints
    <2>1. CASE m = setSize
      <3>1. (setSize * n) \div setSize = n
        BY <1>4, <1>5, ExactDiv
      <3> QED BY <1>5, <1>9, <2>1, <3>1
    <2>2. CASE m = setSize + 1
      <3>1. numRows = nRows + n
        BY <1>4, <1>5, <1>9, <2>2
      <3>2. numRows > N
        BY <1>1, <1>4, <1>6, <3>1
      <3>3. Appends /\ realSizeDB > N
        BY <1>1, <1>3, <3>2 DEF DbInv, SpaceInv
      <3>4. s0 = n
        BY <1>4, <3>3
      <3>5. setSize # s0
        BY <1>1, <1>3, <1>4, <1>5, <1>7, <3>3
      <3> HIDE DEF n, s0
      <3>6. n \in 0..(setSize - 1)
        BY <1>4, <1>5, <3>4, <3>5
      <3>7. numRows = n * setSize + n
        BY <1>4, <1>5, <3>1
      <3>8. (n * setSize + n) \div setSize = n
        BY <1>4, <1>5, <3>6, DivUnique
      <3> QED BY <1>5, <3>7, <3>8
    <2> QED BY <1>10, <2>1, <2>2
  <1>12. \A i \in 0..(numRows - 1) : ClientRows[i] = flatDb[i]
    BY <1>1, <1>2, ClientRowsCaughtUp
  <1> QED BY <1>7, <1>11, <1>12

\* The indices a server computes are rows of the client's blocks.
LEMMA AnswersAreRows ==
  ASSUME Discipline, SystemInv, Reading, NEW set \in [Blocks -> Positions]
  PROVE  /\ InBounds(set)
         /\ \A j \in Blocks : Answer(set)[j] = flatDb[j * nHints + set[j]]
  <1>1. HasClient /\ Quiet /\ CaughtUp
    BY InvParts DEF Reading, HasClient, ClientInv, ReadInv
  <1>2. numRows \div setSize = nHints
    BY <1>1, CaughtUpGeometry
  <1>3. query.size = setSize
    BY InvParts DEF CallShape, QueryType
  <1>4. /\ setSize \in Nat /\ nHints \in Nat /\ nRows = setSize * nHints
        /\ nRows <= numRows /\ numRows \in Nat /\ nRows \in Nat
    BY <1>1, InvParts DEF ClientShape, ClientInv, ClientFollows
  <1>5. 0..query.size-1 = Blocks
    BY <1>3 DEF Blocks
  <1>6. ASSUME NEW j \in Blocks
        PROVE  /\ AnswerIndex(set, j) = j * nHints + set[j]
               /\ AnswerIndex(set, j) < numRows
    <2>1. j \in 0..(setSize - 1) /\ set[j] \in 0..(nHints - 1)
      BY DEF Blocks, Positions
    <2>2. AnswerIndex(set, j) = nHints * j + set[j]
      BY <1>2, <1>3 DEF AnswerIndex
    <2>3. nHints * j = j * nHints
      BY <1>4, <2>1
    <2>4. j * nHints + set[j] \in 0..(setSize * nHints - 1)
      BY <1>4, <2>1, RowOfBlock
    <2> QED BY <1>4, <2>2, <2>3, <2>4
  <1>7. InBounds(set)
    BY <1>5, <1>6 DEF InBounds
  <1> QED BY <1>5, <1>6, <1>7 DEF Answer

\* A step inside a read that changes neither the client nor the database.
LEMMA InvInsideRead ==
  ASSUME SystemInv, Reading, rd' \in {"left", "answered", "idle"},
         UNCHANGED <<dbVars, cliVars, updVars>>
  PROVE  ClientInv'
  <1>1. HasClient /\ Quiet /\ updIdx = 0 /\ ClientInv
    BY InvParts DEF Reading, HasClient, ClientInv
  <1>2. UNCHANGED <<updIdx, call>>
    BY DEF updVars, dbVars
  <1>3. ClientFollows'
    BY <1>1, <1>2, FollowsQuiet
  <1> QED BY <1>1, <1>2, <1>3 DEF ClientInv, Quiet

\* What a read knows stays as long as the client, the database and the
\* query do.
LEMMA ReadKept ==
  ASSUME UNCHANGED <<dbVars, cliVars, query>>
  PROVE  /\ Blocks' = Blocks /\ CaughtUp' = CaughtUp
         /\ idxToSetIdx' = idxToSetIdx
         /\ BlockOf(query.idx)' = BlockOf(query.idx)
         /\ PosOf(query.idx)' = PosOf(query.idx)
         /\ flatDb' = flatDb /\ nHints' = nHints
  BY DEF dbVars, cliVars, Blocks, CaughtUp, BlockOf, PosOf, OffsetOf

LEMMA InvAnswerLeft ==
  ASSUME Discipline, SystemInv, AnswerLeft
  PROVE  ClientInv' /\ ReadInv'
  <1>1. rd = "asked" /\ UNCHANGED <<dbVars, cliVars, query, resp1, updVars>>
    BY DEF AnswerLeft
  <1>2. Reading /\ query \in QueryType /\ ReadInv
    BY <1>1, InvParts DEF Reading, CallShape
  <1>3. query.offline \in [Blocks -> Positions]
    BY <1>2 DEF QueryType
  <1>4. /\ InBounds(query.offline)
        /\ \A j \in Blocks :
             Answer(query.offline)[j] = flatDb[j * nHints + query.offline[j]]
    BY <1>2, <1>3, AnswersAreRows
  <1>5. rd' = "left" /\ resp0' = Answer(query.offline)
    BY <1>4 DEF AnswerLeft
  <1>6. ClientInv'
    BY <1>1, <1>2, <1>5, InvInsideRead
  <1>7. \A j \in Blocks : resp0'[j] = flatDb[j * nHints + idxToSetIdx[j][query.randSwaps[j]]]
    BY <1>2, <1>4, <1>5 DEF ReadInv
  <1>8. ReadInv'
    BY <1>1, <1>2, <1>5, <1>7, ReadKept DEF ReadInv, Reading, RowAt
  <1> QED BY <1>6, <1>8

LEMMA InvAnswerRight ==
  ASSUME Discipline, SystemInv, AnswerRight
  PROVE  ClientInv' /\ ReadInv'
  <1>1. rd = "left" /\ UNCHANGED <<dbVars, cliVars, query, resp0, updVars>>
    BY DEF AnswerRight
  <1>2. Reading /\ query \in QueryType /\ ReadInv
    BY <1>1, InvParts DEF Reading, CallShape
  <1>3. query.online \in [Blocks -> Positions]
    BY <1>2 DEF QueryType
  <1>4. /\ InBounds(query.online)
        /\ \A j \in Blocks :
             Answer(query.online)[j] = flatDb[j * nHints + query.online[j]]
    BY <1>2, <1>3, AnswersAreRows
  <1>5. rd' = "answered" /\ resp1' = Answer(query.online)
    BY <1>4 DEF AnswerRight
  <1>6. ClientInv'
    BY <1>1, <1>2, <1>5, InvInsideRead
  <1>7. \A j \in Blocks :
          resp1'[j] = flatDb[j * nHints
            + idxToSetIdx[j][IF j = query.index0 THEN query.randSwaps[j]
                                                 ELSE query.pos]]
    BY <1>2, <1>4, <1>5 DEF ReadInv
  <1>8. \A j \in Blocks :
          resp0'[j] = flatDb[j * nHints + idxToSetIdx[j][query.randSwaps[j]]]
    BY <1>1, <1>2 DEF ReadInv, RowAt
  <1>9. ReadInv'
    BY <1>1, <1>2, <1>5, <1>7, <1>8, ReadKept DEF ReadInv, Reading, RowAt
  <1> QED BY <1>6, <1>9

LEMMA InvReadFails ==
  ASSUME SystemInv, ReadFails
  PROVE  ClientInv' /\ ReadInv'
  <1>1. /\ rd \in {"asked", "left"} /\ rd' = "idle"
        /\ UNCHANGED <<dbVars, cliVars, updVars>>
    BY DEF ReadFails, ReadDone
  <1>2. ClientInv'
    BY <1>1, InvInsideRead DEF Reading
  <1> QED BY <1>1, <1>2 DEF ReadInv, Reading

\* The hint and the answers of a read that is about to be reconstructed.
LEMMA Answered ==
  ASSUME Discipline, SystemInv, rd = "answered"
  PROVE  /\ HasClient /\ ClientShape /\ IsFiniteSet(Blocks)
         /\ query.randSwaps \in [Blocks -> Positions]
         /\ query.pos \in Positions /\ query.index0 \in Blocks
         /\ query.idx \in 0..(nRows - 1) /\ query.idx \in DOMAIN flatDb
         /\ resp0 \in [Blocks -> Row] /\ resp1 \in [Blocks -> Row]
         /\ \A j \in Blocks : \A h \in Positions : RowAt(j, h) \in Row
         /\ \A j \in Blocks : resp0[j] = RowAt(j, query.randSwaps[j])
         /\ \A j \in Blocks \ {query.index0} : resp1[j] = RowAt(j, query.pos)
         /\ resp1[query.index0]
              = RowAt(query.index0, query.randSwaps[query.index0])
         /\ \A h \in Positions :
              hints[h] = XorAll(Blocks, [j \in Blocks |-> RowAt(j, h)])
         /\ RowAt(query.index0, query.pos) = flatDb[query.idx]
  <1>1. HasClient /\ Quiet /\ CaughtUp /\ Reading
    BY InvParts DEF Reading, HasClient, ClientInv, ReadInv
  <1>2. /\ DbTypeOK /\ ClientShape /\ CallShape /\ ClientFollows /\ ReadInv
        /\ numRows \in Nat /\ nRows \in Nat
    BY <1>1, InvParts DEF ClientInv
  <1>3. /\ query \in QueryType
        /\ resp0 \in [Blocks -> Row] /\ resp1 \in [Blocks -> Row]
    BY <1>1, <1>2 DEF CallShape
  <1>4. /\ query.randSwaps \in [Blocks -> Positions]
        /\ query.pos \in Positions /\ query.index0 \in Blocks
        /\ query.idx \in 0..(nRows - 1)
    BY <1>3 DEF QueryType
  <1>5. IsFiniteSet(Blocks)
    BY <1>1, <1>2, FS_Interval DEF Blocks, ClientShape
  <1>6. ASSUME NEW j \in Blocks, NEW h \in Positions
        PROVE  /\ j * nHints + idxToSetIdx[j][h] \in 0..(numRows - 1)
               /\ RowAt(j, h) \in Row
               /\ ClientRows[j * nHints + idxToSetIdx[j][h]] = RowAt(j, h)
    <2> DEFINE x == j * nHints + idxToSetIdx[j][h]
    <2>1. x \in 0..(nRows - 1)
      BY <1>1, <1>2, RowIndexType
    <2>2. nRows <= numRows
      BY <1>2 DEF ClientFollows
    <2> HIDE DEF x
    <2>3. x \in 0..(numRows - 1)
      BY <1>2, <2>1, <2>2, RangeGrows
    <2>4. flatDb[x] \in Row
      BY <1>2, <2>3 DEF DbTypeOK
    <2>5. ClientRows[x] = flatDb[x]
      BY <1>1, <2>3, CaughtUpGeometry
    <2> QED BY <2>3, <2>4, <2>5 DEF x, RowAt
  <1>7. ASSUME NEW h \in Positions
        PROVE  hints[h] = XorAll(Blocks, [j \in Blocks |-> RowAt(j, h)])
    <2> DEFINE f == [j \in Blocks |-> ClientRows[j * nHints + idxToSetIdx[j][h]]]
               g == [j \in Blocks |-> RowAt(j, h)]
    <2>1. hints[h] = XorAll(Blocks, f)
      BY <1>1, <1>2 DEF ClientFollows, HintParity
    <2>2. \A j \in Blocks : f[j] = g[j]
      BY <1>6
    <2> HIDE DEF f, g
    <2>3. XorAll(Blocks, f) = XorAll(Blocks, g)
      BY <2>2, XorAllAgree
    <2> QED BY <2>1, <2>3 DEF g
  <1>8. \A j \in Blocks : resp0[j] = RowAt(j, query.randSwaps[j])
    BY <1>2 DEF ReadInv
  <1>9. \A j \in Blocks :
          resp1[j] = RowAt(j, IF j = query.index0 THEN query.randSwaps[j]
                                                  ELSE query.pos)
    BY <1>2 DEF ReadInv
  <1>10. RowAt(query.index0, query.pos) = flatDb[query.idx]
    <2>1. query.index0 = BlockOf(query.idx) /\ query.pos = PosOf(query.idx)
      BY <1>1, <1>2 DEF ReadInv
    <2>2. query.idx = BlockOf(query.idx) * nHints + OffsetOf(query.idx)
          /\ idxToSetIdx[BlockOf(query.idx)][PosOf(query.idx)] = OffsetOf(query.idx)
      BY <1>1, <1>2, <1>4, PosOfType
    <2> QED BY <2>1, <2>2 DEF RowAt
  <1>11. query.idx \in DOMAIN flatDb
    <2>1. nRows <= numRows /\ DOMAIN flatDb = 0..(numRows - 1)
      BY <1>2 DEF ClientFollows, DbTypeOK
    <2> QED BY <1>2, <1>4, <2>1, RangeGrows
  <1> QED BY <1>1, <1>2, <1>3, <1>4, <1>5, <1>6, <1>7, <1>8, <1>9, <1>10, <1>11

\* The XOR of the online answers, the hint, and the decoy is the wanted row.
LEMMA ReconstructedRowIs ==
  ASSUME Discipline, SystemInv, rd = "answered"
  PROVE  /\ ReconstructedRow = RowAt(query.index0, query.pos)
         /\ ReconstructedRow = flatDb[query.idx]
  <1> DEFINE i0 == query.index0
             g  == [j \in Blocks |-> RowAt(j, query.pos)]
  <1>1. /\ IsFiniteSet(Blocks) /\ i0 \in Blocks /\ query.pos \in Positions
        /\ resp1 \in [Blocks -> Row]
        /\ \A j \in Blocks : g[j] \in Row
        /\ \A j \in Blocks \ {i0} : g[j] = resp1[j]
        /\ hints[query.pos] = XorAll(Blocks, g)
        /\ g[i0] = flatDb[query.idx]
        /\ g[i0] = RowAt(i0, query.pos)
    BY Answered
  <1> HIDE DEF g, i0
  <1>2. hints[query.pos]
          = Xor(Xor(XorAll(Blocks, resp1), resp1[i0]), g[i0])
    <2>1. resp1[i0] \in Row /\ g[i0] \in Row
      BY <1>1
    <2> QED BY <1>1, <2>1, XorAllChange
  <1>3. /\ XorAll(Blocks, resp1) \in Row /\ resp1[i0] \in Row /\ g[i0] \in Row
    BY <1>1, XorAllType
  <1>4. \A a, b, c \in Row : Xor(Xor(a, Xor(Xor(a, b), c)), b) = c
    BY DEF Xor, Row
  <1>5. ReconstructedRow = g[i0]
    BY <1>2, <1>3, <1>4 DEF ReconstructedRow, i0
  <1> QED BY <1>1, <1>5 DEF i0

\* After the swaps every hint is again the XOR of the rows at its position.
LEMMA RefreshedHintsRight ==
  ASSUME Discipline, SystemInv, rd = "answered", NEW h \in Positions
  PROVE  RefreshedHints(query.randSwaps, query.pos, query.index0,
                        ReconstructedRow)[h]
           = XorAll(Blocks,
               [j \in Blocks |->
                  flatDb[j * nHints
                         + SwappedPerms(query.randSwaps, query.pos)[j][h]]])
  <1> DEFINE r     == query.randSwaps
             pos   == query.pos
             i0    == query.index0
             out   == ReconstructedRow
             P     == SwappedPerms(r, pos)
             new   == [j \in Blocks |-> flatDb[j * nHints + P[j][h]]]
             old   == [j \in Blocks |-> RowAt(j, h)]
             K     == {j \in Blocks : r[j] = h}
             d     == [j \in Blocks |-> Xor(resp0[j], resp1[j])]
             base  == IF h = pos THEN XorAll(Blocks, resp0) ELSE hints[h]
             moved == XorAll(K, d)
             fix   == IF h = r[i0] THEN Xor(resp1[i0], out) ELSE ZeroRow
  <1>1. /\ HasClient /\ ClientShape /\ IsFiniteSet(Blocks)
        /\ r \in [Blocks -> Positions] /\ pos \in Positions /\ i0 \in Blocks
        /\ resp0 \in [Blocks -> Row] /\ resp1 \in [Blocks -> Row]
        /\ \A j \in Blocks : \A g \in Positions : RowAt(j, g) \in Row
        /\ \A j \in Blocks : resp0[j] = RowAt(j, r[j])
        /\ \A j \in Blocks \ {i0} : resp1[j] = RowAt(j, pos)
        /\ resp1[i0] = RowAt(i0, r[i0])
        /\ \A g \in Positions :
             hints[g] = XorAll(Blocks, [j \in Blocks |-> RowAt(j, g)])
    BY Answered
  <1>2. out = RowAt(i0, pos)
    BY ReconstructedRowIs
  <1>3. \A j \in Blocks :
          new[j] = IF h = r[j] THEN RowAt(j, pos)
                   ELSE IF h = pos THEN RowAt(j, r[j]) ELSE RowAt(j, h)
    <2>1. \A j \in Blocks :
            P[j][h] = IF h = r[j] THEN idxToSetIdx[j][pos]
                      ELSE IF h = pos THEN idxToSetIdx[j][r[j]]
                      ELSE idxToSetIdx[j][h]
      <3>1. \A j \in Blocks :
              /\ P[j][r[j]] = idxToSetIdx[j][pos]
              /\ P[j][pos] = idxToSetIdx[j][r[j]]
              /\ \A g \in Positions \ {pos, r[j]} : P[j][g] = idxToSetIdx[j][g]
        <4>1. r \in [Blocks -> Positions] /\ pos \in Positions
              /\ ClientShape /\ HasClient
          BY <1>1
        <4> HIDE DEF r, pos
        <4> QED BY <4>1, SwappedShape
      <3> HIDE DEF P, r, pos
      <3> SUFFICES ASSUME NEW j \in Blocks
                   PROVE  P[j][h] = IF h = r[j] THEN idxToSetIdx[j][pos]
                                    ELSE IF h = pos THEN idxToSetIdx[j][r[j]]
                                    ELSE idxToSetIdx[j][h]
        OBVIOUS
      <3>2. CASE h = r[j]
        BY <3>1, <3>2
      <3>3. CASE h # r[j] /\ h = pos
        BY <3>1, <3>3
      <3>4. CASE h # r[j] /\ h # pos
        <4>1. h \in Positions \ {pos, r[j]}
          BY <3>4
        <4>2. P[j][h] = idxToSetIdx[j][h]
          BY <3>1, <4>1
        <4> QED BY <3>4, <4>2
      <3> QED BY <3>2, <3>3, <3>4
    <2> HIDE DEF P
    <2> QED BY <2>1 DEF RowAt
  <1>4. RefreshedHints(r, pos, i0, out)[h] = Xor(Xor(base, moved), fix)
    BY DEF RefreshedHints
  <1>5. \A j \in Blocks : d[j] = Xor(resp0[j], resp1[j]) /\ d[j] \in Row
    BY <1>1, XorType
  <1>6. XorAll(Blocks, resp0) \in Row /\ XorAll(Blocks, old) \in Row
    BY XorAllType
  <1>7. hints[h] = XorAll(Blocks, old)
    BY <1>1
  <1>8. i0 \in K <=> h = r[i0]
    BY <1>1
  <1>9. K \subseteq Blocks /\ \A j \in Blocks : j \in K <=> h = r[j]
    OBVIOUS
  <1>10. \A j \in Blocks : old[j] = RowAt(j, h) /\ old[j] \in Row /\ new[j] \in Row
    BY <1>1, <1>3
  <1> HIDE DEF r, pos, i0, out, P, new, old, K, d, base, moved, fix
  <1>11. CASE h = pos
    <2>1. \A j \in K : d[j] = ZeroRow
      <3>1. \A a \in Row : Xor(a, a) = ZeroRow
        BY DEF Xor, ZeroRow
      <3>2. \A j \in K : resp0[j] = resp1[j] /\ resp0[j] \in Row
        BY <1>1, <1>9, <1>11
      <3> QED BY <1>5, <1>9, <3>1, <3>2
    <2>2. moved = ZeroRow
      BY <2>1, XorAllZero DEF moved
    <2>3. fix = ZeroRow
      <3>1. CASE h = r[i0]
        <4>1. resp1[i0] = out /\ out \in Row
          BY <1>1, <1>2, <1>11, <3>1
        <4> QED BY <3>1, <4>1 DEF fix, Xor, ZeroRow
      <3> QED BY <3>1 DEF fix
    <2>4. \A j \in Blocks : resp0[j] = new[j]
      BY <1>1, <1>3, <1>11
    <2>5. XorAll(Blocks, resp0) = XorAll(Blocks, new)
      BY <2>4, XorAllAgree
    <2>6. Xor(Xor(base, moved), fix) = XorAll(Blocks, resp0)
      BY <1>6, <1>11, <2>2, <2>3, XorLaws DEF base, Xor, ZeroRow
    <2> QED BY <1>4, <2>5, <2>6 DEF r, pos, i0, out, P, new
  <1>12. CASE h # pos
    <2> DEFINE e  == [j \in Blocks |-> IF j \in K THEN d[j] ELSE ZeroRow]
               ch == [j \in Blocks |-> Xor(old[j], new[j])]
    <2>1. moved = XorAll(Blocks, e)
      <3>1. \A j \in Blocks : e[j] = IF j \in K THEN d[j] ELSE ZeroRow
        OBVIOUS
      <3> HIDE DEF e
      <3>2. K \in SUBSET Blocks
        BY <1>9
      <3> QED BY <3>1, <3>2, XorAllSubfamily DEF moved
    <2>2. \A j \in Blocks \ {i0} : ch[j] = e[j]
      <3> SUFFICES ASSUME NEW j \in Blocks \ {i0} PROVE ch[j] = e[j]
        OBVIOUS
      <3>1. CASE j \in K
        <4>1. resp0[j] = old[j] /\ resp1[j] = new[j]
          BY <1>1, <1>3, <1>9, <1>10, <3>1
        <4> QED BY <1>5, <3>1, <4>1
      <3>2. CASE j \notin K
        <4>1. old[j] = new[j] /\ old[j] \in Row
          BY <1>3, <1>9, <1>10, <1>12, <3>2
        <4> QED BY <3>2, <4>1 DEF Xor, ZeroRow
      <3> QED BY <3>1, <3>2
    <2>3. e[i0] = ZeroRow
      <3>1. CASE i0 \in K
        <4>1. resp0[i0] = resp1[i0]
          BY <1>1
        <4> QED BY <1>1, <1>5, <3>1, <4>1 DEF Xor, ZeroRow
      <3> QED BY <1>1, <3>1
    <2>4. ch[i0] = fix
      <3>1. CASE h = r[i0]
        <4>1. old[i0] = resp1[i0] /\ new[i0] = out
          BY <1>1, <1>2, <1>3, <1>10, <3>1
        <4> QED BY <1>1, <3>1, <4>1 DEF fix
      <3>2. CASE h # r[i0]
        <4>1. old[i0] = new[i0]
          BY <1>1, <1>3, <1>10, <1>12, <3>2
        <4> QED BY <1>1, <3>2, <4>1 DEF fix, Xor, ZeroRow
      <3> QED BY <3>1, <3>2
    <2>5. ch[i0] \in Row /\ e[i0] \in Row /\ ZeroRow \in Row
      BY <1>1, <1>10, <2>3, XorType, ZeroRowType
    <2>6. \A j \in Blocks : ch[j] = Xor(old[j], new[j])
      OBVIOUS
    <2> HIDE DEF e, ch
    <2>7. XorAll(Blocks, ch) = Xor(Xor(XorAll(Blocks, e), e[i0]), ch[i0])
      BY <1>1, <2>2, <2>5, XorAllChange
    <2>8. XorAll(Blocks, ch) = Xor(XorAll(Blocks, old), XorAll(Blocks, new))
      BY <1>1, <2>6, XorAllXor
    <2>9. /\ XorAll(Blocks, e) \in Row /\ XorAll(Blocks, new) \in Row
          /\ XorAll(Blocks, old) \in Row
      BY XorAllType
    <2>10. Xor(XorAll(Blocks, old), XorAll(Blocks, new)) = Xor(moved, fix)
      <3>1. Xor(XorAll(Blocks, e), e[i0]) = XorAll(Blocks, e)
        BY <2>3, <2>9 DEF Xor, ZeroRow
      <3> QED BY <2>1, <2>4, <2>7, <2>8, <3>1
    <2>11. base = XorAll(Blocks, old)
      BY <1>7, <1>12 DEF base
    <2>12. \A a, b, m, f \in Row : Xor(a, b) = Xor(m, f) => Xor(Xor(a, m), f) = b
      BY DEF Xor, Row
    <2>13. moved \in Row /\ fix \in Row
      BY <2>1, <2>4, <2>5, <2>9
    <2>14. Xor(Xor(base, moved), fix) = XorAll(Blocks, new)
      BY <2>9, <2>10, <2>11, <2>12, <2>13
    <2> QED BY <1>4, <2>14 DEF r, pos, i0, out, P, new
  <1> QED BY <1>11, <1>12

-----------------------------------------------------------------------------
\* A read that completes leaves hints that are right for the new maps.
LEMMA InvReconstruct ==
  ASSUME Discipline, SystemInv, Reconstruct
  PROVE  ClientInv' /\ ReadInv'
  <1> DEFINE P == SwappedPerms(query.randSwaps, query.pos)
             H == RefreshedHints(query.randSwaps, query.pos, query.index0,
                                 ReconstructedRow)
  <1>1. /\ rd = "answered" /\ rd' = "idle"
        /\ hints' = H /\ idxToSetIdx' = P
        /\ UNCHANGED <<dbVars, nRows, setSize, nHints, cliVersion, updVars>>
    BY DEF Reconstruct, ReadDone
  <1>2. UNCHANGED <<flatDb, numRows, ops, call, updIdx>>
    BY <1>1 DEF dbVars, updVars
  <1>3. /\ HasClient /\ ClientShape /\ Quiet /\ updIdx = 0 /\ ClientFollows
        /\ CaughtUp /\ DbTypeOK /\ numRows \in Nat /\ nRows \in Nat
    BY <1>1, InvParts, Answered DEF ClientInv, ReadInv, Reading
  <1>4. ClientRows' = ClientRows
    BY <1>1, <1>2, <1>3, ClientRowsKept
  <1>5. Blocks' = Blocks /\ Positions' = Positions
    BY <1>1 DEF Blocks, Positions
  <1>6. P \in [Blocks -> [Positions -> Positions]]
    BY <1>1, <1>3, Answered, SwappedShape
  <1>7. ASSUME NEW h \in Positions
        PROVE  H[h] = XorAll(Blocks, [j \in Blocks |-> ClientRows[j * nHints + P[j][h]]])
    <2> DEFINE f == [j \in Blocks |-> flatDb[j * nHints + P[j][h]]]
               g == [j \in Blocks |-> ClientRows[j * nHints + P[j][h]]]
    <2>1. H[h] = XorAll(Blocks, f)
      BY <1>1, RefreshedHintsRight
    <2> HIDE DEF P, H
    <2>2. ASSUME NEW j \in Blocks PROVE f[j] = g[j]
      <3>1. P[j][h] \in Positions
        BY <1>6
      <3>2. j * nHints + P[j][h] \in 0..(nRows - 1)
        BY <1>3, <3>1, RowOfBlock DEF ClientShape, Blocks, Positions
      <3>3. nRows <= numRows
        BY <1>3 DEF ClientFollows
      <3>4. j * nHints + P[j][h] \in 0..(numRows - 1)
        BY <1>3, <3>2, <3>3, RangeGrows
      <3>5. ClientRows[j * nHints + P[j][h]] = flatDb[j * nHints + P[j][h]]
        BY <1>3, <3>4, CaughtUpGeometry
      <3> QED BY <3>5
    <2> HIDE DEF f, g
    <2>3. XorAll(Blocks, f) = XorAll(Blocks, g)
      BY <2>2, XorAllAgree
    <2> QED BY <2>1, <2>3 DEF g
  <1> HIDE DEF P, H
  <1>8. HintParity'
    <2>1. HintParity' = (HasClient' => \A h \in Positions' :
            hints'[h] = XorAll(Blocks',
                   [j \in Blocks' |-> ClientRows'[j * nHints' + idxToSetIdx'[j][h]]]))
      BY DEF HintParity, XorAll
    <2> QED BY <1>1, <1>4, <1>5, <1>7, <2>1
  <1>9. ClientFollows'
    <2>1. LogPos' = LogPos /\ UnknownRowsZero'
      BY <1>1, <1>2, <1>3, <1>4 DEF LogPos, ClientFollows, UnknownRowsZero
    <2>2. nHints' = nHints /\ setSize' = setSize /\ nRows' = nRows
          /\ numRows' = numRows /\ ops' = ops
      BY <1>1, <1>2
    <2> QED BY <1>3, <1>8, <2>1, <2>2 DEF ClientFollows, BlockRows, FirstSetSize
  <1>10. ClientInv'
    BY <1>1, <1>2, <1>3, <1>9 DEF ClientInv, Quiet
  <1> QED BY <1>1, <1>10 DEF ReadInv, Reading

-----------------------------------------------------------------------------
(***************************************************************************)
(* Update.                                                                 *)
(***************************************************************************)

LEMMA InvBeginUpdate ==
  ASSUME Discipline, SystemInv, BeginUpdate
  PROVE  ClientInv' /\ ReadInv'
  <1>1. /\ Quiet /\ rd = "idle" /\ updIdx' = 0
        /\ UNCHANGED <<dbVars, cliVars, readVars>>
    BY DEF BeginUpdate
  <1>2. /\ HasClient /\ ClientInv /\ updIdx = 0 /\ ClientFollows
        /\ cliVersion \in Nat /\ Len(ops) \in Nat
    BY <1>1, ClientStates, InvParts DEF ClientInv
  <1>3. cliVersion - OpInitVersion <= Len(ops)
    BY <1>2 DEF ClientFollows, LogPos, OpInitVersion
  <1>4. /\ rd' = "updating"
        /\ response' = [newVersion |-> currVersion, updates |-> OpsSince(cliVersion)]
    BY <1>3 DEF BeginUpdate
  <1>5. ClientFollows'
    BY <1>1, <1>2, FollowsQuiet
  <1>6. currVersion = Len(ops)
    BY <1>1, InvParts, QuietVersions
  <1>7. OpsSince(cliVersion') = OpsSince(cliVersion) /\ ops' = ops /\ Quiet'
    BY <1>1 DEF cliVars, dbVars, Quiet, OpsSince
  <1>8. OpsSince(cliVersion)' = OpsSince(cliVersion')
    BY <1>7 DEF OpsSince, OpInitVersion
  <1>9. ClientInv'
    <2>1. response'.updates = OpsSince(cliVersion) /\ response'.newVersion = Len(ops)
      BY <1>4, <1>6
    <2>2. updIdx' # 0 => rd' = "updating"
      BY <1>1
    <2> HIDE DEF ClientFollows
    <2>3. HasClient' => ClientFollows'
      BY <1>5
    <2> QED BY <1>1, <1>4, <1>7, <1>8, <2>1, <2>3 DEF ClientInv
  <1> QED BY <1>4, <1>9 DEF ReadInv, Reading

\* The operation the loop of updateState is at is the next one of the log.
LEMMA NextOpIs ==
  ASSUME SystemInv, rd = "updating", updIdx < Len(response.updates)
  PROVE  /\ LogPos + 1 \in 1..Len(ops)
         /\ NextOp = ops[LogPos + 1]
         /\ NextOp \in Op /\ NextOp.Index \in Nat
         /\ NextOp.Old \in Row /\ NextOp.New \in Row
  <1>1. /\ DbTypeOK /\ CallShape /\ cliVersion \in Nat /\ updIdx \in Nat
        /\ Len(ops) \in Nat /\ ops \in Seq(Op)
        /\ response.updates = SubSeq(ops, cliVersion + 1, Len(ops))
    <2>1. cliVersion \in Nat /\ ClientInv /\ DbTypeOK
      BY InvParts
    <2>2. response.updates = SubSeq(ops, cliVersion - 0 + 1, Len(ops))
      BY <2>1 DEF ClientInv, OpsSince, OpInitVersion
    <2>3. cliVersion - 0 + 1 = cliVersion + 1
      BY <2>1
    <2> QED BY <2>1, <2>2, <2>3, InvParts DEF DbTypeOK
  <1>2. /\ cliVersion + 1 \in Int /\ Len(ops) \in Int
        /\ \A i \in (cliVersion + 1)..Len(ops) : ops[i] \in Op
    BY <1>1, OpsType
  <1>3. Len(response.updates) = IF cliVersion + 1 <= Len(ops)
                                THEN Len(ops) - cliVersion ELSE 0
    <2>1. Len(response.updates) = IF cliVersion + 1 <= Len(ops)
                                  THEN Len(ops) - (cliVersion + 1) + 1 ELSE 0
      BY <1>1, <1>2, SubSeqProperties
    <2> QED BY <1>1, <2>1
  <1>4. cliVersion + 1 <= Len(ops) /\ updIdx + 1 \in 1..(Len(ops) - cliVersion)
    BY <1>1, <1>3
  <1>5. NextOp = ops[cliVersion + 1 + (updIdx + 1) - 1]
    <2>1. updIdx + 1 \in 1..(Len(ops) - (cliVersion + 1) + 1)
      BY <1>1, <1>4
    <2> QED BY <1>1, <1>2, <2>1, SubSeqProperties DEF NextOp
  <1>6. cliVersion + 1 + (updIdx + 1) - 1 = LogPos + 1 /\ LogPos + 1 \in 1..Len(ops)
    BY <1>1, <1>4 DEF LogPos
  <1> QED BY <1>1, <1>5, <1>6, OpsType

\* Applying it moves the client's view of that row, and of no other, past
\* the operation.
LEMMA ClientRowsApplied ==
  ASSUME SystemInv, rd = "updating", updIdx < Len(response.updates),
         UNCHANGED <<dbVars, cliVersion>>, updIdx' = updIdx + 1
  PROVE  /\ NextOp.Index \in 0..(numRows - 1)
         /\ \A i \in 0..(numRows - 1) :
              /\ ClientRows[i] \in Row
              /\ ClientRows'[i] = IF i = NextOp.Index
                                  THEN Xor(Xor(ClientRows[i], NextOp.Old), NextOp.New)
                                  ELSE ClientRows[i]
  <1> DEFINE t == LogPos + 1
             a == NextOp.Old
             b == NextOp.New
             w == NextOp.Index
  <1>1. /\ t \in 1..Len(ops) /\ NextOp = ops[t]
        /\ w \in Nat /\ a \in Row /\ b \in Row
    BY NextOpIs
  <1>2. /\ DbTypeOK /\ cliVersion \in Nat /\ updIdx \in Nat /\ Len(ops) \in Nat
        /\ numRows \in Nat /\ LogInv
    BY InvParts DEF DbInv
  <1>3. w \in 0..(numRows - 1)
    BY <1>1, <1>2 DEF LogInv
  <1>4. /\ UNCHANGED <<flatDb, numRows, ops>> /\ DbTypeOK'
    BY <1>2 DEF dbVars, DbTypeOK
  <1>5. LogPos \in Nat /\ LogPos' = LogPos + 1
    BY <1>2 DEF LogPos
  <1>6. ASSUME NEW i \in 0..(numRows - 1)
        PROVE  /\ ClientRow(i) \in Row
               /\ ClientRow(i)' = IF i = w THEN Xor(Xor(ClientRow(i), a), b)
                                           ELSE ClientRow(i)
    <2> DEFINE P  == Pending(i)
               PP == Pending(i)'
               f  == [k \in P |-> Xor(ops[k].Old, ops[k].New)]
               ff == [k \in PP |-> Xor(ops'[k].Old, ops'[k].New)]
               v  == flatDb[i]
    <2>1. P = {k \in 1..Len(ops) : k > LogPos /\ ops[k].Index = i}
      BY DEF Pending, LogPos
    <2>2. PP = {k \in 1..Len(ops) : k > LogPos + 1 /\ ops[k].Index = i}
      BY <1>4, <1>5 DEF Pending, LogPos
    <2>3. ClientRow(i) = Xor(v, XorAll(P, f))
      BY DEF ClientRow
    <2>4. ClientRow(i)' = Xor(flatDb'[i], XorAll(PP, ff))
      BY DEF ClientRow, Xor, XorAll
    <2>5. v \in Row /\ IsFiniteSet(P)
      BY <1>2, PendingFinite DEF DbTypeOK
    <2>6. ClientRow(i) \in Row
      BY <1>2, ClientRowType
    <2>7. t \notin PP /\ PP \subseteq P /\ P = IF i = w THEN PP \cup {t} ELSE PP
      <3>1. \A k \in 1..Len(ops) : k > LogPos <=> (k > LogPos + 1 \/ k = t)
        BY <1>5, <1>2
      <3>2. ~(t > LogPos + 1)
        BY <1>5
      <3>3. ops[t].Index = w
        BY <1>1
      <3> HIDE DEF P, PP, t, w
      <3> QED BY <1>1, <2>1, <2>2, <3>1, <3>2, <3>3
    <2>8. XorAll(PP, ff) = XorAll(PP, f)
      <3>1. \A k \in PP : ff[k] = f[k]
        BY <1>4, <2>7
      <3> QED BY <3>1, XorAllAgree
    <2>9. XorAll(PP, f) \in Row
      BY XorAllType
    <2>10. CASE i = w
      <3>1. f[t] = Xor(a, b)
        BY <1>1, <2>7, <2>10
      <3>2. f[t] \in Row /\ IsFiniteSet(PP)
        BY <1>1, <2>5, <2>7, <3>1, XorType, FS_Subset
      <3> HIDE DEF P, PP, t, w, f, ff, a, b, v
      <3>3. XorAll(PP \cup {t}, f) = Xor(XorAll(PP, f), f[t])
        BY <2>7, <3>2, XorAllAdd
      <3>4. ClientRow(i) = Xor(v, Xor(XorAll(PP, f), Xor(a, b)))
        BY <2>3, <2>7, <2>10, <3>1, <3>3
      <3>5. ClientRow(i)' = Xor(v, XorAll(PP, f))
        BY <1>4, <2>4, <2>8 DEF v
      <3>6. \A x \in Row : Xor(Xor(Xor(v, Xor(x, Xor(a, b))), a), b) = Xor(v, x)
        BY <1>1, <2>5 DEF Xor, Row
      <3> QED BY <2>6, <2>9, <2>10, <3>4, <3>5, <3>6
    <2>11. CASE i # w
      <3> HIDE DEF P, PP, t, w, f, ff
      <3> QED BY <1>4, <2>3, <2>4, <2>6, <2>7, <2>8, <2>11
    <2> QED BY <2>10, <2>11
  <1> HIDE DEF t, a, b, w
  <1>7. \A i \in 0..(numRows - 1) : ClientRows[i] = ClientRow(i) /\ ClientRows'[i] = ClientRow(i)'
    BY <1>2, <1>4, ClientRowsAre, NextClientRowsAre
  <1> QED BY <1>3, <1>6, <1>7 DEF a, b, w

\* p and q map positions to offsets and back, in s blocks of n rows.
Maps(s, n, p) == p \in [0..s-1 -> [0..n-1 -> 0..n-1]]

Undoes(s, n, p, q) == \A j \in 0..s-1 : \A h \in 0..n-1 : q[j][p[j][h]] = h

InverseMaps(s, n, p, q) ==
  Maps(s, n, p) /\ Maps(s, n, q) /\ Undoes(s, n, p, q) /\ Undoes(s, n, q, p)

RowsOf(s, n) == 0..(s * n - 1)

\* The hint that findIndex returns for row w.
HintOf(n, q, w) == q[w \div n][w - (w \div n) * n]

\* Row w is at one position of one block: in the hint findIndex returns.
LEMMA CoveringHint ==
  ASSUME NEW s \in Nat, NEW n \in Nat, n > 0, NEW p, NEW q,
         InverseMaps(s, n, p, q), NEW w \in RowsOf(s, n)
  PROVE  /\ w \div n \in 0..s-1
         /\ HintOf(n, q, w) \in 0..n-1
         /\ \A j \in 0..s-1 : \A h \in 0..n-1 :
              /\ j * n + p[j][h] \in RowsOf(s, n)
              /\ j * n + p[j][h] = w <=> j = w \div n /\ h = HintOf(n, q, w)
  <1> DEFINE d == w \div n
             o == w - d * n
             hw == HintOf(n, q, w)
  <1>1. d \in 0..s-1 /\ o \in 0..n-1
    BY BlockOfRow DEF RowsOf
  <1>2. d * n \in Int /\ d \in Int /\ o \in Int /\ w \in Int
    BY <1>1 DEF RowsOf
  <1>3. d * n + o = w
    BY <1>1, <1>2
  <1>4. hw = q[d][o]
    BY DEF HintOf
  <1> HIDE DEF o, hw
  <1>5. hw \in 0..n-1 /\ p[d][hw] = o
    <2>1. Maps(s, n, q) /\ Undoes(s, n, q, p)
      BY DEF InverseMaps
    <2>2. q[d][o] \in 0..n-1
      BY <1>1, <2>1 DEF Maps
    <2>3. p[d][q[d][o]] = o
      BY <1>1, <2>1 DEF Undoes
    <2> QED BY <1>4, <2>2, <2>3
  <1>6. ASSUME NEW j \in 0..s-1, NEW h \in 0..n-1
        PROVE  /\ j * n + p[j][h] \in RowsOf(s, n)
               /\ j * n + p[j][h] = w <=> j = d /\ h = hw
    <2>1. p[j][h] \in 0..n-1
      <3>1. Maps(s, n, p)
        BY DEF InverseMaps
      <3> QED BY <3>1 DEF Maps
    <2>2. j * n + p[j][h] \in RowsOf(s, n)
      BY <2>1, RowOfBlock DEF RowsOf
    <2>3. (j * n + p[j][h]) \div n = j
      BY <2>1, DivUnique
    <2>4. j * n + p[j][h] = w => j = d
      BY <2>3
    <2> HIDE DEF d
    <2>5. j * n + p[j][h] = w => p[d][h] = o
      BY <1>2, <1>3, <2>1, <2>4
    <2>6. q[d][p[d][h]] = h
      BY <1>1 DEF InverseMaps, Undoes
    <2>7. j = d /\ h = hw => j * n + p[j][h] = w
      BY <1>3, <1>5
    <2> QED BY <1>4, <2>2, <2>4, <2>5, <2>6, <2>7
  <1> QED BY <1>1, <1>5, <1>6 DEF hw

\* R and RR differ in row w, by the two values a and b.
RowChanged(rows, w, a, b, R, RR) ==
  \A i \in rows :
    R[i] \in Row /\ RR[i] = IF i = w THEN Xor(Xor(R[i], a), b) ELSE R[i]

\* The parity of the rows that hint h covers in the database R.
ParityOf(s, n, p, R, h) ==
  XorAll(0..s-1, [j \in 0..s-1 |-> R[j * n + p[j][h]]])

\* Patching that hint makes up for a change of the row.
LEMMA PatchedHintsRight ==
  ASSUME NEW s \in Nat, NEW n \in Nat, n > 0, NEW p, NEW q,
         InverseMaps(s, n, p, q), NEW w \in RowsOf(s, n),
         NEW a \in Row, NEW b \in Row, NEW R, NEW RR,
         RowChanged(RowsOf(s, n), w, a, b, R, RR),
         NEW h \in 0..n-1, NEW old, NEW new,
         old = ParityOf(s, n, p, R, h),
         new = IF h = HintOf(n, q, w) THEN Xor(Xor(old, a), b) ELSE old
  PROVE  new = ParityOf(s, n, p, RR, h)
  <1> DEFINE J  == 0..s-1
             j0 == w \div n
             h0 == HintOf(n, q, w)
  <1>1. j0 \in J
    BY CoveringHint
  <1>2. \A j \in J : /\ j * n + p[j][h] \in RowsOf(s, n)
                     /\ j * n + p[j][h] = w <=> j = j0 /\ h = h0
    <2>1. \A j \in 0..s-1 : \A g \in 0..n-1 :
            /\ j * n + p[j][g] \in RowsOf(s, n)
            /\ j * n + p[j][g] = w <=> j = w \div n /\ g = HintOf(n, q, w)
      BY CoveringHint
    <2> QED BY <2>1
  <1> DEFINE f  == [j \in J |-> R[j * n + p[j][h]]]
             g  == [j \in J |-> RR[j * n + p[j][h]]]
  <1>3. IsFiniteSet(J)
    <2>1. 0 \in Int /\ s - 1 \in Int
      OBVIOUS
    <2> QED BY <2>1, FS_Interval
  <1>4. old = XorAll(J, f)
    BY DEF ParityOf
  <1>5. \A j \in J :
          /\ f[j] \in Row
          /\ g[j] = IF j = j0 /\ h = h0 THEN Xor(Xor(f[j], a), b) ELSE f[j]
    <2> SUFFICES ASSUME NEW j \in J
                 PROVE  /\ f[j] \in Row
                        /\ g[j] = IF j = j0 /\ h = h0
                                  THEN Xor(Xor(f[j], a), b) ELSE f[j]
      OBVIOUS
    <2> DEFINE x == j * n + p[j][h]
    <2>1. f[j] = R[x] /\ g[j] = RR[x]
      OBVIOUS
    <2>2. x \in RowsOf(s, n) /\ (x = w <=> j = j0 /\ h = h0)
      BY <1>2
    <2> HIDE DEF x, f, g, j0, h0, J
    <2> QED BY <2>1, <2>2 DEF RowChanged
  <1> HIDE DEF f, g, j0, J
  <1>6. CASE h = h0
    <2>1. f[j0] \in Row /\ g[j0] = Xor(Xor(f[j0], a), b)
      BY <1>1, <1>5, <1>6
    <2>2. g[j0] \in Row
      BY <2>1, XorType
    <2>3. \A j \in J \ {j0} : g[j] = f[j]
      BY <1>5
    <2>4. XorAll(J, g) = Xor(Xor(XorAll(J, f), f[j0]), g[j0])
      BY <1>1, <1>3, <2>1, <2>2, <2>3, XorAllChange
    <2>5. XorAll(J, f) \in Row
      BY XorAllType
    <2>6. \A y, z \in Row : Xor(Xor(y, z), Xor(Xor(z, a), b)) = Xor(Xor(y, a), b)
      BY DEF Xor, Row
    <2>7. XorAll(J, g) = new
      BY <1>4, <1>6, <2>1, <2>4, <2>5, <2>6
    <2> QED BY <2>7 DEF ParityOf, g, J
  <1>7. CASE h # h0
    <2>1. \A j \in J : g[j] = f[j]
      BY <1>5, <1>7
    <2>2. XorAll(J, g) = XorAll(J, f)
      BY <2>1, XorAllAgree
    <2> QED BY <1>4, <1>7, <2>2 DEF ParityOf, g, J
  <1> QED BY <1>6, <1>7

\* The client's maps are inverse to each other.
LEMMA ClientMaps ==
  ASSUME ClientShape, HasClient
  PROVE  /\ InverseMaps(setSize, nHints, idxToSetIdx, setIdxToIdx)
         /\ RowsOf(setSize, nHints) = 0..(nRows - 1)
         /\ setSize \in Nat /\ nHints \in Nat /\ nHints > 0
  <1>1. /\ setSize \in Nat /\ nHints \in Nat /\ nHints > 0
        /\ nRows = setSize * nHints
        /\ idxToSetIdx \in [Blocks -> [Positions -> Positions]]
        /\ setIdxToIdx \in [Blocks -> [Positions -> Positions]]
        /\ PermsInverse
    BY DEF ClientShape
  <1>2. Undoes(setSize, nHints, idxToSetIdx, setIdxToIdx)
    BY <1>1 DEF PermsInverse, Undoes, Blocks, Positions
  <1>3. Undoes(setSize, nHints, setIdxToIdx, idxToSetIdx)
    BY <1>1 DEF PermsInverse, Undoes, Blocks, Positions
  <1>4. /\ Maps(setSize, nHints, idxToSetIdx)
        /\ Maps(setSize, nHints, setIdxToIdx)
    BY <1>1 DEF Maps, Blocks, Positions
  <1> QED BY <1>1, <1>2, <1>3, <1>4 DEF InverseMaps, RowsOf

LEMMA InvApplyOp ==
  ASSUME Discipline, SystemInv, ApplyOp
  PROVE  ClientInv' /\ ReadInv'
  <1> DEFINE w == NextOp.Index
             a == NextOp.Old
             b == NextOp.New
  <1>1. /\ rd = "updating" /\ rd' = "updating"
        /\ updIdx < Len(response.updates) /\ w < nRows
        /\ hints' = Patched(NextOp, PosOf(w))
        /\ updIdx' = updIdx + 1
        /\ UNCHANGED <<dbVars, nRows, setSize, nHints, idxToSetIdx,
                       setIdxToIdx, cliVersion, response>>
    BY DEF ApplyOp
  <1>2. /\ HasClient /\ ClientShape /\ ClientFollows /\ Quiet /\ ClientInv
        /\ numRows \in Nat /\ nRows \in Nat /\ nRows <= numRows /\ LogPos \in Nat
    BY <1>1, ClientStates, InvParts DEF ClientInv, ClientFollows, LogPos
  <1>3. UNCHANGED <<flatDb, numRows, ops, call>> /\ LogPos' = LogPos + 1
    <2>1. cliVersion \in Nat /\ updIdx \in Nat
      BY InvParts
    <2> QED BY <1>1, <2>1 DEF dbVars, LogPos
  <1>4. /\ LogPos + 1 \in 1..Len(ops) /\ NextOp = ops[LogPos + 1]
        /\ NextOp \in Op /\ w \in Nat /\ a \in Row /\ b \in Row
    BY <1>1, NextOpIs
  <1>5. /\ w \in 0..(numRows - 1)
        /\ \A i \in 0..(numRows - 1) :
             /\ ClientRows[i] \in Row
             /\ ClientRows'[i] = IF i = w THEN Xor(Xor(ClientRows[i], a), b)
                                          ELSE ClientRows[i]
    BY <1>1, ClientRowsApplied
  <1>6. RowChanged(RowsOf(setSize, nHints), w, a, b, ClientRows, ClientRows')
    <2>1. RowsOf(setSize, nHints) = 0..(nRows - 1)
      BY <1>2, ClientMaps
    <2>2. \A i \in 0..(nRows - 1) : i \in 0..(numRows - 1)
      BY <1>2, RangeGrows
    <2> HIDE DEF w, a, b
    <2> QED BY <1>5, <2>1, <2>2 DEF RowChanged
  <1>7. /\ InverseMaps(setSize, nHints, idxToSetIdx, setIdxToIdx)
        /\ setSize \in Nat /\ nHints \in Nat /\ nHints > 0
        /\ w \in RowsOf(setSize, nHints)
    <2>1. w \in 0..(nRows - 1)
      BY <1>1, <1>2, <1>4
    <2> QED BY <1>2, <2>1, ClientMaps
  <1>8. PosOf(w) = HintOf(nHints, setIdxToIdx, w) /\ PosOf(w) \in Positions
    <2>1. PosOf(w) = HintOf(nHints, setIdxToIdx, w)
      BY DEF PosOf, BlockOf, OffsetOf, HintOf
    <2> HIDE DEF w
    <2>2. HintOf(nHints, setIdxToIdx, w) \in 0..nHints-1
      BY <1>7, CoveringHint
    <2> QED BY <2>1, <2>2 DEF Positions
  <1>9. \A h \in Positions :
          hints'[h] = IF h = HintOf(nHints, setIdxToIdx, w)
                      THEN Xor(Xor(hints[h], a), b) ELSE hints[h]
    BY <1>1, <1>2, <1>4, <1>8, PatchedType
  <1> HIDE DEF w, a, b
  <1>10. \A h \in Positions :
           hints'[h] = XorAll(Blocks,
             [j \in Blocks |-> ClientRows'[j * nHints + idxToSetIdx[j][h]]])
    <2> SUFFICES ASSUME NEW h \in Positions
                 PROVE  hints'[h] = XorAll(Blocks,
                   [j \in Blocks |-> ClientRows'[j * nHints + idxToSetIdx[j][h]]])
      OBVIOUS
    <2>1. hints[h] = XorAll(Blocks,
            [j \in Blocks |-> ClientRows[j * nHints + idxToSetIdx[j][h]]])
      BY <1>2 DEF ClientFollows, HintParity
    <2>2. hints'[h] = IF h = HintOf(nHints, setIdxToIdx, w)
                      THEN Xor(Xor(hints[h], a), b) ELSE hints[h]
      BY <1>9
    <2> DEFINE new == hints'[h]
               old == hints[h]
               RR  == ClientRows'
               R   == ClientRows
    <2>3. old = ParityOf(setSize, nHints, idxToSetIdx, R, h)
      BY <2>1 DEF Blocks, ParityOf
    <2>4. a \in Row /\ b \in Row /\ h \in 0..nHints-1
      BY <1>4 DEF Positions, a, b
    <2>5. new = IF h = HintOf(nHints, setIdxToIdx, w)
                THEN Xor(Xor(old, a), b) ELSE old
      BY <2>2
    <2>6. RowChanged(RowsOf(setSize, nHints), w, a, b, R, RR)
      BY <1>6
    <2> HIDE DEF new, old, R, RR
    <2>7. new = ParityOf(setSize, nHints, idxToSetIdx, RR, h)
      BY <1>7, <2>3, <2>4, <2>5, <2>6, PatchedHintsRight
    <2> QED BY <2>7 DEF new, RR, Blocks, ParityOf
  <1>11. HintParity'
    <2>1. HintParity' = (HasClient' => \A h \in Positions' :
            hints'[h] = XorAll(Blocks',
                   [j \in Blocks' |-> ClientRows'[j * nHints' + idxToSetIdx'[j][h]]]))
      BY DEF HintParity, XorAll
    <2>2. Blocks' = Blocks /\ Positions' = Positions
      BY <1>1 DEF Blocks, Positions
    <2> QED BY <1>1, <1>10, <2>1, <2>2
  <1>12. UnknownRowsZero'
    <2>1. \A i \in nRows..(numRows - 1) : i \in 0..(numRows - 1) /\ i # w
      BY <1>1, <1>2, <1>4, RangeGrows DEF w
    <2>2. \A i \in nRows..(numRows - 1) : ClientRows[i] = ZeroRow
      BY <1>2 DEF ClientFollows, UnknownRowsZero
    <2> QED BY <1>1, <1>3, <1>5, <2>1, <2>2 DEF UnknownRowsZero
  <1>13. \A k \in 1..LogPos' : ops'[k].Index < nRows'
    <2>1. \A k \in 1..(LogPos + 1) : k \in 1..LogPos \/ k = LogPos + 1
      BY <1>2
    <2>2. \A k \in 1..LogPos : ops[k].Index < nRows
      BY <1>2 DEF ClientFollows
    <2>3. ops[LogPos + 1].Index < nRows
      BY <1>1, <1>4 DEF w
    <2> QED BY <1>1, <1>3, <2>1, <2>2, <2>3
  <1>14. ClientFollows'
    <2>1. LogPos' <= Len(ops')
      BY <1>3, <1>4
    <2>2. nHints' = BlockRows /\ FirstSetSize <= setSize' /\ nRows' <= numRows'
      BY <1>1, <1>2, <1>3 DEF ClientFollows
    <2> QED BY <1>11, <1>12, <1>13, <2>1, <2>2 DEF ClientFollows, BlockRows, FirstSetSize
  <1>15. response'.updates = OpsSince(cliVersion)' /\ response'.newVersion = Len(ops')
    BY <1>1, <1>2, <1>3 DEF ClientInv, OpsSince, OpInitVersion
  <1>16. Quiet'
    BY <1>2, <1>3 DEF Quiet
  <1>17. ClientInv'
    <2> HIDE DEF ClientFollows
    <2>1. rd' = "updating"
      BY <1>1
    <2> QED BY <1>14, <1>15, <1>16, <2>1 DEF ClientInv
  <1> QED BY <1>1, <1>17 DEF ReadInv, Reading

\* An operation past the client's rows lies in the very next block, which
\* the server has: one growth is enough.
LEMMA NextOpInNextBlock ==
  ASSUME Discipline, SystemInv, GrowAndApplyOp
  PROVE  nRows + nHints <= numRows /\ NextOp.Index < nRows + nHints
  <1> DEFINE w == NextOp.Index
             n == BlockRows
  <1>1. /\ rd = "updating" /\ updIdx < Len(response.updates) /\ w >= nRows
    BY DEF GrowAndApplyOp
  <1>2. /\ HasClient /\ ClientShape /\ ClientFollows /\ DbInv(n)
        /\ numRows \in Nat /\ nRows \in Nat /\ LogPos \in Nat /\ Len(ops) \in Nat
    BY <1>1, ClientStates, InvParts DEF ClientInv, LogPos
  <1>3. /\ LogPos + 1 \in 1..Len(ops) /\ NextOp = ops[LogPos + 1] /\ w \in Nat
    BY <1>1, NextOpIs
  <1>4. w < numRows
    BY <1>2, <1>3 DEF DbInv, LogInv
  <1>5. n \in Nat \ {0} /\ nHints = n /\ setSize \in Nat /\ nRows = setSize * n
    BY <1>2, Geometry DEF ClientFollows, ClientShape
  <1>6. PICK m \in Nat : numRows = m * n
    BY <1>2 DEF DbInv, SpaceInv
  <1> HIDE DEF n, w
  <1>7. setSize < m
    <2>1. m < setSize => m * n + n <= setSize * n
      BY <1>5, BlocksApart
    <2>2. m = setSize => m * n = setSize * n
      OBVIOUS
    <2> QED BY <1>1, <1>2, <1>3, <1>4, <1>5, <1>6, <2>1, <2>2
  <1>8. nRows + n <= numRows
    <2>1. setSize * n + n <= m * n
      BY <1>5, <1>7, BlocksApart
    <2> QED BY <1>5, <1>6, <2>1
  <1>9. w < nRows + n
    <2>1. CASE N <= w - n
      <3>0. NoBlockSkipped(n)
        BY <1>2 DEF DbInv
      <3> DEFINE k == LogPos + 1
      <3>1. PICK l \in 1..(k - 1) : ops[l].Index = w - n
        <4>1. ops[k].Index = w /\ k \in 1..Len(ops)
          BY <1>3 DEF w
        <4> HIDE DEF NextOp, k
        <4> QED BY <2>1, <3>0, <4>1 DEF NoBlockSkipped
      <3>2. ops[l].Index < nRows
        <4>1. l \in 1..LogPos
          BY <1>2
        <4> QED BY <1>2, <4>1 DEF ClientFollows
      <3> QED BY <1>2, <1>3, <1>5, <3>1, <3>2
    <2>2. CASE ~(N <= w - n)
      BY <1>2, <1>3, <1>5, <2>2, FirstRowsCovered, DynamicDBAssumption
    <2> QED BY <2>1, <2>2
  <1> QED BY <1>5, <1>8, <1>9 DEF w

\* The new block holds rows that are zero as far as the client knows, so
\* the hints are right for the larger database as they are.
LEMMA GrownHints ==
  ASSUME Discipline, SystemInv, GrowAndApplyOp, NEW h \in Positions
  PROVE  hints[h] = XorAll(0..setSize'-1,
           [j \in 0..setSize'-1 |-> ClientRows[j * nHints + idxToSetIdx'[j][h]]])
  <1> DEFINE S == setSize
             J == Blocks \cup {S}
             f == [j \in Blocks |-> ClientRows[j * nHints + idxToSetIdx[j][h]]]
             F == [j \in J |-> ClientRows[j * nHints + idxToSetIdx'[j][h]]]
  <1>1. /\ HasClient /\ ClientShape /\ ClientFollows /\ CallShape
        /\ numRows \in Nat /\ nRows \in Nat
    BY ClientStates, InvParts DEF ClientInv, GrowAndApplyOp
  <1>2. /\ setSize' = S + 1 /\ S \in Nat /\ nHints \in Nat /\ nHints > 0
        /\ nRows = S * nHints
        /\ Blocks' = J /\ S \notin Blocks /\ Positions' = Positions
        /\ idxToSetIdx' \in [Blocks' -> [Positions' -> Positions']]
        /\ \A j \in Blocks : idxToSetIdx'[j] = idxToSetIdx[j]
    BY <1>1, GrowShape DEF ClientShape
  <1>3. 0..setSize'-1 = J
    BY <1>2 DEF Blocks
  <1>4. IsFiniteSet(Blocks)
    BY <1>2, FS_Interval DEF Blocks
  <1>5. hints[h] = XorAll(Blocks, f)
    BY <1>1 DEF ClientFollows, HintParity
  <1>6. F[S] = ZeroRow
    <2> DEFINE o == idxToSetIdx'[S][h]
    <2>1. o \in 0..nHints-1
      <3>1. idxToSetIdx'[S][h] \in Positions
        BY <1>2
      <3> QED BY <3>1 DEF Positions
    <2>2. nRows + nHints <= numRows
      BY NextOpInNextBlock
    <2>3. S * nHints + o = nRows + o
      BY <1>2
    <2> HIDE DEF o
    <2>4. S * nHints + o \in nRows..(numRows - 1)
      BY <1>1, <1>2, <2>1, <2>2, <2>3
    <2>5. ClientRows[S * nHints + o] = ZeroRow
      BY <1>1, <2>4 DEF ClientFollows, UnknownRowsZero
    <2> QED BY <2>5 DEF o
  <1>7. \A j \in Blocks : f[j] = F[j]
    BY <1>2
  <1> HIDE DEF f, F, J, S
  <1>8. XorAll(Blocks, f) = XorAll(Blocks, F) /\ XorAll(Blocks, F) \in Row
    BY <1>7, XorAllAgree, XorAllType
  <1>9. XorAll(Blocks \cup {S}, F) = Xor(XorAll(Blocks, F), F[S])
    BY <1>2, <1>4, <1>6, ZeroRowType, XorAllAdd
  <1>10. XorAll(J, F) = XorAll(Blocks, F)
    BY <1>6, <1>8, <1>9 DEF J, Xor, ZeroRow
  <1> QED BY <1>3, <1>5, <1>8, <1>10 DEF F

LEMMA InvGrowAndApplyOp ==
  ASSUME Discipline, SystemInv, GrowAndApplyOp
  PROVE  ClientInv' /\ ReadInv'
  <1> DEFINE w == NextOp.Index
             a == NextOp.Old
             b == NextOp.New
             S == setSize'
  <1>1. /\ rd = "updating" /\ updIdx < Len(response.updates) /\ w >= nRows
        /\ nRows' = nRows + nHints /\ S = setSize + 1
        /\ updIdx' = updIdx + 1
        /\ UNCHANGED <<dbVars, nHints, cliVersion, response>>
    BY DEF GrowAndApplyOp
  <1>2. /\ HasClient /\ ClientShape /\ ClientFollows /\ Quiet /\ ClientInv
        /\ CallShape /\ numRows \in Nat /\ nRows \in Nat /\ LogPos \in Nat
        /\ setSize \in Nat /\ nHints \in Nat /\ nHints > 0
        /\ nRows = setSize * nHints
    <2>1. HasClient /\ ClientShape /\ ClientInv /\ CallShape
          /\ numRows \in Nat /\ nRows \in Nat /\ cliVersion \in Nat
          /\ updIdx \in Nat
      BY <1>1, ClientStates, InvParts
    <2>2. ClientFollows /\ Quiet
      BY <1>1, <2>1 DEF ClientInv
    <2>3. LogPos \in Nat
      BY <2>1 DEF LogPos
    <2>4. /\ setSize \in Nat /\ nHints \in Nat /\ nHints > 0
          /\ nRows = setSize * nHints
      BY <2>1 DEF ClientShape
    <2> QED BY <2>1, <2>2, <2>3, <2>4
  <1>3. UNCHANGED <<flatDb, numRows, ops, call>> /\ LogPos' = LogPos + 1
    <2>1. cliVersion \in Nat /\ updIdx \in Nat
      BY InvParts
    <2> QED BY <1>1, <2>1 DEF dbVars, LogPos
  <1>4. /\ LogPos + 1 \in 1..Len(ops) /\ NextOp = ops[LogPos + 1]
        /\ NextOp \in Op /\ w \in Nat /\ a \in Row /\ b \in Row
    BY <1>1, NextOpIs
  <1>5. nRows' <= numRows /\ w < nRows' /\ nRows' \in Nat
    BY <1>1, <1>2, NextOpInNextBlock
  <1>6. /\ rd' = "updating"
        /\ hints' = Patched(NextOp, HintOf(nHints, setIdxToIdx', w))
    BY <1>5 DEF GrowAndApplyOp, HintOf, BlockOf, OffsetOf
  <1>7. /\ InverseMaps(S, nHints, idxToSetIdx', setIdxToIdx')
        /\ Blocks' = 0..S-1 /\ Positions' = Positions /\ Positions = 0..nHints-1
        /\ RowsOf(S, nHints) = 0..(nRows' - 1)
        /\ S \in Nat
    <2>1. /\ Blocks' = 0..S-1 /\ Positions' = Positions /\ Positions = 0..nHints-1
          /\ S \in Nat
          /\ idxToSetIdx' \in [Blocks' -> [Positions' -> Positions']]
          /\ setIdxToIdx' \in [Blocks' -> [Positions' -> Positions']]
          /\ \A j \in Blocks' : \A h \in Positions :
               /\ setIdxToIdx'[j][idxToSetIdx'[j][h]] = h
               /\ idxToSetIdx'[j][setIdxToIdx'[j][h]] = h
          /\ nRows' = S * nHints
      BY <1>1, <1>2, GrowShape DEF Blocks, Positions
    <2> HIDE DEF S
    <2>2. Undoes(S, nHints, idxToSetIdx', setIdxToIdx')
      BY <2>1 DEF Undoes
    <2>3. Undoes(S, nHints, setIdxToIdx', idxToSetIdx')
      BY <2>1 DEF Undoes
    <2>4. Maps(S, nHints, idxToSetIdx') /\ Maps(S, nHints, setIdxToIdx')
      BY <2>1 DEF Maps
    <2> QED BY <2>1, <2>2, <2>3, <2>4 DEF InverseMaps, RowsOf
  <1>8. w \in RowsOf(S, nHints)
    BY <1>4, <1>5, <1>7
  <1>9. HintOf(nHints, setIdxToIdx', w) \in Positions
    <2> HIDE DEF w, S
    <2>1. HintOf(nHints, setIdxToIdx', w) \in 0..nHints-1
      BY <1>2, <1>7, <1>8, CoveringHint
    <2> QED BY <1>7, <2>1
  <1>10. \A h \in Positions :
           hints'[h] = IF h = HintOf(nHints, setIdxToIdx', w)
                       THEN Xor(Xor(hints[h], a), b) ELSE hints[h]
    BY <1>2, <1>4, <1>6, <1>9, PatchedType
  <1>11. /\ w \in 0..(numRows - 1)
         /\ \A i \in 0..(numRows - 1) :
              /\ ClientRows[i] \in Row
              /\ ClientRows'[i] = IF i = w THEN Xor(Xor(ClientRows[i], a), b)
                                           ELSE ClientRows[i]
    BY <1>1, ClientRowsApplied
  <1> HIDE DEF w, a, b, S
  <1>12. RowChanged(RowsOf(S, nHints), w, a, b, ClientRows, ClientRows')
    <2>1. \A i \in 0..(nRows' - 1) : i \in 0..(numRows - 1)
      BY <1>2, <1>5, RangeGrows
    <2> QED BY <1>7, <1>11, <2>1 DEF RowChanged
  <1>13. HintParity'
    <2>1. ASSUME NEW h \in Positions
          PROVE  hints'[h] = XorAll(0..S-1,
                   [j \in 0..S-1 |-> ClientRows'[j * nHints + idxToSetIdx'[j][h]]])
      <3> DEFINE new == hints'[h]
                 old == hints[h]
                 RR  == ClientRows'
                 R   == ClientRows
                 p   == idxToSetIdx'
                 q   == setIdxToIdx'
      <3>1. old = ParityOf(S, nHints, p, R, h)
        BY GrownHints DEF S, ParityOf
      <3>2. new = IF h = HintOf(nHints, q, w) THEN Xor(Xor(old, a), b) ELSE old
        BY <1>10
      <3>3. RowChanged(RowsOf(S, nHints), w, a, b, R, RR) /\ InverseMaps(S, nHints, p, q)
        BY <1>7, <1>12
      <3>4. a \in Row /\ b \in Row /\ h \in 0..nHints-1
        BY <1>4, <1>7, <2>1 DEF a, b
      <3>5. S \in Nat /\ nHints \in Nat /\ nHints > 0 /\ w \in RowsOf(S, nHints)
        BY <1>2, <1>7, <1>8
      <3> HIDE DEF new, old, RR, R, p, q
      <3>6. new = ParityOf(S, nHints, p, RR, h)
        <4> DEFINE n == nHints
        <4>1. /\ RowChanged(RowsOf(S, n), w, a, b, R, RR)
              /\ InverseMaps(S, n, p, q)
          BY <3>3
        <4>2. S \in Nat /\ n \in Nat /\ n > 0 /\ w \in RowsOf(S, n)
          BY <3>5
        <4>3. h \in 0..n-1
          BY <3>4
        <4>4. old = ParityOf(S, n, p, R, h)
          BY <3>1
        <4>5. new = IF h = HintOf(n, q, w) THEN Xor(Xor(old, a), b) ELSE old
          BY <3>2
        <4> HIDE DEF n, S
        <4>6. new = ParityOf(S, n, p, RR, h)
          BY <3>4, <4>1, <4>2, <4>3, <4>4, <4>5, PatchedHintsRight
        <4> QED BY <4>6 DEF n
      <3> QED BY <3>6 DEF new, RR, p, ParityOf
    <2>2. HintParity' = (HasClient' => \A h \in Positions' :
            hints'[h] = XorAll(Blocks',
                   [j \in Blocks' |-> ClientRows'[j * nHints' + idxToSetIdx'[j][h]]]))
      BY DEF HintParity, XorAll
    <2> QED BY <1>1, <1>7, <2>1, <2>2
  <1>14. UnknownRowsZero'
    <2>1. \A i \in nRows'..(numRows - 1) :
            i \in 0..(numRows - 1) /\ i # w /\ i \in nRows..(numRows - 1)
      <3> DEFINE to == nRows'
      <3>1. /\ to \in Nat /\ nRows \in Nat /\ numRows \in Nat
            /\ nRows <= to /\ w < to /\ w \in Nat
        BY <1>1, <1>2, <1>4, <1>5 DEF w
      <3> HIDE DEF to
      <3>2. \A i \in to..(numRows - 1) :
              i \in 0..(numRows - 1) /\ i # w /\ i \in nRows..(numRows - 1)
        BY <3>1
      <3> QED BY <3>2 DEF to
    <2>2. \A i \in nRows..(numRows - 1) : ClientRows[i] = ZeroRow
      BY <1>2 DEF ClientFollows, UnknownRowsZero
    <2> QED BY <1>3, <1>11, <2>1, <2>2 DEF UnknownRowsZero
  <1>15. \A k \in 1..LogPos' : ops'[k].Index < nRows'
    <2>1. \A k \in 1..(LogPos + 1) : k \in 1..LogPos \/ k = LogPos + 1
      BY <1>2
    <2>2. ASSUME NEW k \in 1..LogPos PROVE ops[k].Index < nRows'
      <3>1. ops[k].Index < nRows
        BY <1>2 DEF ClientFollows
      <3>2. k \in 1..Len(ops)
        BY <1>2, InvParts DEF ClientFollows
      <3>3. ops[k].Index \in Nat
        BY <3>2, InvParts, OpsType
      <3> QED BY <1>1, <1>2, <3>1, <3>3
    <2>3. ops[LogPos + 1].Index < nRows'
      BY <1>4, <1>5 DEF w
    <2> QED BY <1>3, <2>1, <2>2, <2>3
  <1>16. ClientFollows'
    <2>1. LogPos' <= Len(ops')
      BY <1>3, <1>4
    <2>2. nHints' = BlockRows /\ nRows' <= numRows'
      BY <1>1, <1>2, <1>3, <1>5 DEF ClientFollows
    <2>3. FirstSetSize <= setSize'
      <3>1. FirstSetSize \in Nat /\ FirstSetSize <= setSize
        BY <1>2, Geometry DEF ClientFollows
      <3> QED BY <1>1, <1>2, <3>1 DEF S
    <2> QED BY <1>13, <1>14, <1>15, <2>1, <2>2, <2>3 DEF ClientFollows, BlockRows, FirstSetSize
  <1>17. response'.updates = OpsSince(cliVersion)' /\ response'.newVersion = Len(ops')
    BY <1>1, <1>2, <1>3 DEF ClientInv, OpsSince, OpInitVersion
  <1>18. Quiet'
    BY <1>2, <1>3 DEF Quiet
  <1>19. ClientInv'
    <2> HIDE DEF ClientFollows
    <2> QED BY <1>6, <1>16, <1>17, <1>18 DEF ClientInv
  <1> QED BY <1>6, <1>19 DEF ReadInv, Reading

\* After the loop the client is at the end of the log it was sent.
LEMMA InvEndUpdate ==
  ASSUME Discipline, SystemInv, EndUpdate
  PROVE  ClientInv' /\ ReadInv'
  <1>1. /\ rd = "updating" /\ rd' = "idle" /\ updIdx = Len(response.updates)
        /\ cliVersion' = response.newVersion /\ updIdx' = 0
        /\ UNCHANGED <<dbVars, nRows, setSize, nHints, hints, idxToSetIdx,
                       setIdxToIdx>>
    BY DEF EndUpdate
  <1>2. /\ HasClient /\ ClientShape /\ ClientFollows /\ Quiet /\ ClientInv
        /\ DbTypeOK /\ CallShape /\ numRows \in Nat /\ nRows \in Nat
        /\ nRows <= numRows
        /\ cliVersion \in Nat /\ updIdx \in Nat /\ Len(ops) \in Nat
        /\ ops \in Seq(Op)
    BY <1>1, ClientStates, InvParts DEF ClientInv, ClientFollows, DbTypeOK
  <1>3. UNCHANGED <<flatDb, numRows, ops, call>>
    BY <1>1 DEF dbVars
  <1>4. cliVersion' = Len(ops)
    BY <1>1, <1>2 DEF ClientInv
  <1>5. LogPos = Len(ops)
    <2>1. response.updates = SubSeq(ops, cliVersion + 1, Len(ops))
      <3>1. response.updates = SubSeq(ops, cliVersion - 0 + 1, Len(ops))
        BY <1>1, <1>2 DEF ClientInv, OpsSince, OpInitVersion
      <3>2. cliVersion - 0 + 1 = cliVersion + 1
        BY <1>2
      <3> QED BY <3>1, <3>2
    <2>2. Len(response.updates) = IF cliVersion + 1 <= Len(ops)
                                  THEN Len(ops) - (cliVersion + 1) + 1 ELSE 0
      <3>1. /\ cliVersion + 1 \in Int /\ Len(ops) \in Int
            /\ \A i \in (cliVersion + 1)..Len(ops) : ops[i] \in Op
        BY <1>2, OpsType
      <3> QED BY <2>1, <3>1, SubSeqProperties
    <2>3. cliVersion + updIdx <= Len(ops)
      BY <1>2 DEF ClientFollows, LogPos
    <2>4. cliVersion + updIdx = Len(ops)
      BY <1>1, <1>2, <2>2, <2>3
    <2> QED BY <2>4 DEF LogPos
  <1>6. LogPos' = Len(ops)
    BY <1>1, <1>2, <1>4 DEF LogPos
  <1>7. \A i \in 0..(numRows - 1) : ClientRows'[i] = ClientRows[i]
    <2>1. \A i \in 0..(numRows - 1) : ClientRows[i] = flatDb[i]
      BY <1>2, <1>5, ClientRowsCaughtUp
    <2>2. DbTypeOK' /\ cliVersion' \in Nat /\ updIdx' \in Nat
          /\ cliVersion' + updIdx' = Len(ops')
      BY <1>1, <1>2, <1>3, <1>4 DEF dbVars, DbTypeOK
    <2>3. \A i \in 0..(numRows' - 1) : ClientRows'[i] = flatDb'[i]
      BY <2>2, NextClientRowsCaughtUp
    <2> QED BY <1>3, <2>1, <2>3
  <1>8. \A i \in 0..(nRows - 1) : i \in 0..(numRows - 1)
    BY <1>2, RangeGrows
  <1>9. HintParity'
    <2>1. /\ Blocks' = Blocks /\ Positions' = Positions /\ hints' = hints
          /\ nHints' = nHints /\ idxToSetIdx' = idxToSetIdx
      BY <1>1 DEF Blocks, Positions
    <2>2. ASSUME NEW h \in Positions
          PROVE  hints'[h] = XorAll(Blocks',
                   [j \in Blocks' |-> ClientRows'[j * nHints' + idxToSetIdx'[j][h]]])
      <3> DEFINE f == [j \in Blocks |-> ClientRows[j * nHints + idxToSetIdx[j][h]]]
                 g == [j \in Blocks |-> ClientRows'[j * nHints + idxToSetIdx[j][h]]]
      <3>1. hints[h] = XorAll(Blocks, f)
        BY <1>2, <2>2 DEF ClientFollows, HintParity
      <3>2. \A j \in Blocks : g[j] = f[j]
        BY <1>2, <1>7, <1>8, <2>2, RowIndexType
      <3>3. XorAll(Blocks, f) = XorAll(Blocks, g)
        BY <3>2, XorAllAgree
      <3> HIDE DEF f
      <3>4. hints'[h] = XorAll(Blocks, g)
        BY <2>1, <3>1, <3>3
      <3> QED BY <2>1, <3>4
    <2>3. HintParity' = (HasClient' => \A h \in Positions' :
            hints'[h] = XorAll(Blocks',
                   [j \in Blocks' |-> ClientRows'[j * nHints' + idxToSetIdx'[j][h]]]))
      BY DEF HintParity, XorAll
    <2> QED BY <2>1, <2>2, <2>3
  <1>10. UnknownRowsZero'
    <2>1. \A i \in nRows..(numRows - 1) : i \in 0..(numRows - 1)
      BY <1>2, RangeGrows
    <2>2. \A i \in nRows..(numRows - 1) : ClientRows[i] = ZeroRow
      BY <1>2 DEF ClientFollows, UnknownRowsZero
    <2> QED BY <1>1, <1>3, <1>7, <2>1, <2>2 DEF UnknownRowsZero
  <1>11. ClientFollows'
    <2>1. LogPos' = LogPos /\ LogPos' <= Len(ops')
      BY <1>2, <1>3, <1>5, <1>6
    <2>2. \A k \in 1..LogPos' : ops'[k].Index < nRows'
      BY <1>1, <1>2, <1>3, <2>1 DEF ClientFollows
    <2>3. nHints' = BlockRows /\ FirstSetSize <= setSize' /\ nRows' <= numRows'
      BY <1>1, <1>2, <1>3 DEF ClientFollows
    <2> QED BY <1>9, <1>10, <2>1, <2>2, <2>3 DEF ClientFollows, BlockRows, FirstSetSize
  <1>12. ClientInv'
    <2> HIDE DEF ClientFollows
    <2> QED BY <1>1, <1>11 DEF ClientInv
  <1> QED BY <1>1, <1>12 DEF ReadInv, Reading

-----------------------------------------------------------------------------
(***************************************************************************)
(* The invariant is inductive.                                             *)
(***************************************************************************)
LEMMA SystemInvInit ==
  ASSUME Discipline, Init
  PROVE  SystemInv
  <1>1. DbInit /\ rd = "new" /\ updIdx = 0
    BY DEF Init
  <1>2. /\ FirstSetSize \in Nat /\ BlockRows \in Nat \ {0}
        /\ N = FirstSetSize * BlockRows
    BY Geometry
  <1>3. DbInv(BlockRows)
    BY <1>1, <1>2, DbInvInit
  <1>4. ClientInv /\ ReadInv
    BY <1>1 DEF ClientInv, ReadInv, HasClient, Reading
  <1> QED BY <1>3, <1>4, TypeInvInit DEF SystemInv

LEMMA InvUnchanged ==
  ASSUME SystemInv, UNCHANGED vars
  PROVE  ClientInv' /\ ReadInv'
  <1>1. UNCHANGED <<dbVars, cliVars, readVars, updVars, rd>>
    BY DEF vars
  <1>2. UNCHANGED <<updIdx, response, call, ops, cliVersion, query, resp0, resp1>>
    BY <1>1 DEF updVars, dbVars, cliVars, readVars
  <1>3. HasClient => ClientFollows'
    BY <1>1, <1>2, FollowsQuiet
  <1>4. ClientInv'
    <2>1. ClientInv
      BY InvParts
    <2> HIDE DEF ClientFollows
    <2> QED BY <1>1, <1>2, <1>3, <2>1
            DEF ClientInv, HasClient, Quiet, OpsSince, OpInitVersion
  <1>5. ReadInv'
    BY <1>1, <1>2, InvParts, ReadKept DEF ReadInv, Reading, RowAt
  <1> QED BY <1>4, <1>5

LEMMA SystemInvStep ==
  ASSUME Discipline, SystemInv, [Next]_vars
  PROVE  SystemInv'
  <1>1. TypeInv'
    BY TypeInvStep DEF SystemInv
  <1>2. DbInv(BlockRows)'
    <2>1. [DbNext]_dbVars
      BY DEF Next, ReadStep, UpdateStep, vars, WriterStep, InitReader, Query,
             AnswerLeft, AnswerRight, ReadFails, Reconstruct, BeginUpdate,
             ApplyOp, GrowAndApplyOp, EndUpdate
    <2> QED BY <2>1, InvParts, Geometry, DbInvStep
  <1>3. ClientInv' /\ ReadInv'
    <2>1. CASE ReadStep
      <3>1. CASE \E i \in -1..nRows : Query(i)
        <4>1. PICK i \in -1..nRows : Query(i)
          BY <3>1
        <4>2. i \in Int
          OBVIOUS
        <4> QED BY <4>1, <4>2, InvQuery
      <3> QED BY <2>1, <3>1, InvAnswerLeft, InvAnswerRight, InvReadFails,
                 InvReconstruct DEF ReadStep
    <2>2. CASE UpdateStep
      BY <2>2, InvBeginUpdate, InvApplyOp, InvGrowAndApplyOp, InvEndUpdate
         DEF UpdateStep
    <2> QED BY <1>1, <2>1, <2>2, InvWriterStep, InvInitReader, InvUnchanged DEF Next
  <1> QED BY <1>1, <1>2, <1>3 DEF SystemInv

LEMMA SystemInvHolds ==
  ASSUME Discipline
  PROVE  Spec => []SystemInv
  <1>1. Init => SystemInv
    BY SystemInvInit
  <1>2. SystemInv /\ [Next]_vars => SystemInv'
    BY SystemInvStep
  <1> QED BY <1>1, <1>2, PTL DEF Spec

-----------------------------------------------------------------------------
(***************************************************************************)
(* What follows for a disciplined caller.                                  *)
(***************************************************************************)

\* Every hint is the XOR of the rows its permutation points at, as of the
\* client's place in the log: through swaps (reconstruct), writes not yet
\* fetched, and updates half way through their loop (updateState).
THEOREM HintsStayRight ==
  ASSUME Discipline
  PROVE  Spec => []HintParity
  <1>1. SystemInv => HintParity
    BY InvParts DEF ClientInv, ClientFollows, HintParity
  <1> QED BY <1>1, SystemInvHolds, PTL

\* Every read that gets both answers returns the row asked for, a row that is there
\* (Read of pir_reader.go, reconstruct of pir_single_pass.go).
THEOREM ReadsAreCorrect ==
  ASSUME Discipline
  PROVE  Spec => []ReadCorrect
  <1>1. SystemInv => ReadCorrect
    BY ReconstructedRowIs, Answered DEF ReadCorrect
  <1> QED BY <1>1, SystemInvHolds, PTL

\* No index of Process, findIndex, initState or updateState leaves its slice.
THEOREM NothingPanics ==
  ASSUME Discipline
  PROVE  Spec => []NeverPanics
  <1>1. SystemInv => NeverPanics
    BY InvParts DEF ClientInv, NeverPanics
  <1> QED BY <1>1, SystemInvHolds, PTL

\* The block size Process derives from the server's capacity is the one the
\* client was built with, however often the database has been extended.
THEOREM OffsetsAgree ==
  ASSUME Discipline
  PROVE  Spec => []OffsetAgrees
  <1>1. SystemInv => OffsetAgrees
    BY CaughtUpGeometry DEF OffsetAgrees
  <1> QED BY <1>1, SystemInvHolds, PTL

\* After an update the client reaches every row AppendRows has stored: the
\* loop of updateState, growing one block at a time, never falls behind.
THEOREM RowsAreCovered ==
  ASSUME Discipline
  PROVE  Spec => []EveryRowCovered
  <1>1. SystemInv => EveryRowCovered
    BY CaughtUpGeometry DEF EveryRowCovered
  <1> QED BY <1>1, SystemInvHolds, PTL

\* currVersion, which only EditRows advances, and Version, which UpdateRow
\* advances row by row, agree with the log between mutating calls.
THEOREM VersionsStayEqual ==
  ASSUME Discipline
  PROVE  Spec => []VersionsAgree
  <1>1. SystemInv => VersionsAgree
    BY InvParts, QuietVersions DEF VersionsAgree
  <1> QED BY <1>1, SystemInvHolds, PTL

\* The rows AppendRows counts as used exist in the flat database.
THEOREM AppendedRowsExist ==
  ASSUME Discipline
  PROVE  Spec => []RowsInUseExist
  <1>1. SystemInv => RowsInUseExist
    <2>1. ASSUME SystemInv, Quiet PROVE realSizeDB <= numRows
      <3>1. Filled = realSizeDB /\ DbInv(BlockRows)
        BY <2>1, InvParts, QuietVersions
      <3> QED BY <3>1 DEF DbInv, SpaceInv
    <2> QED BY <2>1 DEF RowsInUseExist
  <1> QED BY <1>1, SystemInvHolds, PTL

-----------------------------------------------------------------------------
(***************************************************************************)
(* The reader and its database implement the array of PIRStore.            *)
(***************************************************************************)

\* The index being read, as the refinement mapping has it.
Asked == IF Reading THEN query.idx ELSE -1

\* A step of the writer writes one row, extends the array, or neither.
LEMMA WriterImplements ==
  ASSUME Discipline, SystemInv, WriterStep
  PROVE  Store!Next
  <1>1. /\ DbNext /\ rd \in {"new", "idle"} /\ rd' = rd /\ result' = NoResult
        /\ DbTypeOK /\ DbTypeOK' /\ DbInv(BlockRows) /\ ExtensionsOf(BlockRows)
    BY InvParts, DbTypeStep, Geometry DEF WriterStep
  <1>2. Asked = -1 /\ Asked' = -1
    BY <1>1 DEF Asked, Reading
  <1>3. CASE EditStep
    <2>1. /\ NextWrite.Index \in 0..(numRows - 1) /\ NextWrite.New \in Row
          /\ flatDb' = [flatDb EXCEPT ![NextWrite.Index] = NextWrite.New]
      BY <1>1, <1>3, EditStepInRange
    <2>2. NextWrite.Index \in DOMAIN flatDb
      BY <1>1, <2>1 DEF DbTypeOK
    <2>3. Store!WriteRow
      BY <1>1, <1>2, <2>1, <2>2
         DEF Store!WriteRow, Store!NotAsked, Store!NoResult, NoResult, Asked
    <2> QED BY <2>3 DEF Store!Next
  <1>4. CASE BeginEditRows \/ EndEdit
    <2>1. flatDb' = flatDb
      BY <1>4 DEF BeginEditRows, EndEdit
    <2>2. Store!Forget
      BY <1>1, <1>2, <2>1
         DEF Store!Forget, Store!NotAsked, Store!NoResult, NoResult, Asked
    <2> QED BY <2>2 DEF Store!Next
  <1>5. CASE BeginAppendRows
    <2>1. /\ numRows' = IF NeedsExtension(Len(batch')) THEN numRows + BlockRows
                                                       ELSE numRows
          /\ \A i \in 0..(numRows - 1) : flatDb'[i] = flatDb[i]
          /\ \A i \in numRows..(numRows' - 1) : flatDb'[i] = ZeroRow
      BY <1>1, <1>5, BeginAppendRowsIs
    <2>2. /\ DOMAIN flatDb = 0..(numRows - 1) /\ DOMAIN flatDb' = 0..(numRows' - 1)
          /\ numRows \in Nat /\ numRows' \in Nat
      BY <1>1 DEF DbTypeOK
    <2>3. numRows <= numRows'
      BY <2>1, <2>2, Geometry
    <2>4. DOMAIN flatDb \subseteq DOMAIN flatDb'
      BY <2>2, <2>3, RangeGrows
    <2>5. \A i \in DOMAIN flatDb' :
            flatDb'[i] = IF i \in DOMAIN flatDb THEN flatDb[i] ELSE ZeroRow
      <3>1. \A i \in 0..(numRows' - 1) :
              i \in 0..(numRows - 1) \/ i \in numRows..(numRows' - 1)
        BY <2>2, RangeSplits
      <3>2. \A i \in 0..(numRows - 1) : ~(i \in numRows..(numRows' - 1))
        <4> DEFINE to == numRows'
        <4>1. to \in Nat /\ numRows \in Nat
          BY <2>2
        <4> HIDE DEF to
        <4>2. \A i \in 0..(numRows - 1) : ~(i \in numRows..(to - 1))
          BY <4>1
        <4> QED BY <4>2 DEF to
      <3> QED BY <2>1, <2>2, <3>1, <3>2
    <2>6. Store!Extend
      BY <1>1, <1>2, <2>4, <2>5
         DEF Store!Extend, Store!NotAsked, Store!NoResult, NoResult, Asked
    <2> QED BY <2>6 DEF Store!Next
  <1> QED BY <1>1, <1>3, <1>4, <1>5 DEF DbNext

\* The steps of a read ask, deliver what is there, abandon, or stutter.
LEMMA ReadImplements ==
  ASSUME Discipline, SystemInv, ReadStep
  PROVE  Store!Next \/ UNCHANGED Store!vars
  <1>1. CASE \E i \in -1..nRows : Query(i)
    <2>1. PICK i \in -1..nRows : Query(i)
      BY <1>1
    <2>2. /\ rd = "idle" /\ rd' = "asked" /\ query'.idx = i % nRows
          /\ result' = NoResult /\ flatDb' = flatDb
      BY <2>1 DEF Query, dbVars
    <2>3. /\ ClientShape /\ HasClient /\ DbTypeOK /\ ClientFollows
          /\ numRows \in Nat /\ nRows \in Nat
      BY <2>2, ClientStates, InvParts DEF ClientInv
    <2>4. i % nRows \in 0..(nRows - 1)
      <3>1. nRows > 0
        <4>1. N \in Nat \ {0} /\ N <= nRows
          BY <2>3, FirstRowsCovered, DynamicDBAssumption
        <4> QED BY <2>3, <4>1
      <3>2. i \in Int
        OBVIOUS
      <3> QED BY <2>3, <3>1, <3>2, DivMod
    <2>5. i % nRows \in DOMAIN flatDb
      <3>1. nRows <= numRows
        BY <2>3 DEF ClientFollows
      <3>2. DOMAIN flatDb = 0..(numRows - 1)
        BY <2>3 DEF DbTypeOK
      <3> QED BY <2>3, <2>4, <3>1, <3>2, RangeGrows
    <2>6. Asked = -1 /\ Asked' = i % nRows
      BY <2>2 DEF Asked, Reading
    <2>7. Store!Ask
      BY <2>2, <2>5, <2>6
         DEF Store!Ask, Store!NotAsked, Store!NoResult, NoResult, Asked
    <2> QED BY <2>7 DEF Store!Next
  <1>2. CASE AnswerLeft \/ AnswerRight
    <2>1. ClientInv'
      BY <1>2, InvAnswerLeft, InvAnswerRight
    <2>2. /\ Reading /\ Reading' /\ UNCHANGED <<query, flatDb, result>>
      BY <1>2, <2>1 DEF AnswerLeft, AnswerRight, ClientInv, Reading, dbVars
    <2> QED BY <2>2 DEF Store!vars, Asked, Reading
  <1>3. CASE ReadFails
    <2>1. /\ Reading /\ rd' = "idle" /\ UNCHANGED <<flatDb, result>>
      BY <1>3 DEF ReadFails, ReadDone, Reading, dbVars
    <2>2. query.idx # -1
      BY <2>1, InvParts DEF CallShape, QueryType
    <2>3. Asked = query.idx /\ Asked' = -1
      BY <2>1 DEF Asked, Reading
    <2>4. Store!Abandon
      BY <2>1, <2>2, <2>3 DEF Store!Abandon, Store!NotAsked, Asked
    <2> QED BY <2>4 DEF Store!Next
  <1>4. CASE Reconstruct
    <2>1. /\ rd = "answered" /\ rd' = "idle" /\ flatDb' = flatDb
          /\ result' = [idx |-> query.idx, row |-> ReconstructedRow]
      BY <1>4 DEF Reconstruct, ReadDone, dbVars
    <2>2. ReconstructedRow = flatDb[query.idx]
      BY <2>1, ReconstructedRowIs
    <2>3. query.idx # -1
      BY <2>1, InvParts DEF CallShape, QueryType, Reading
    <2>4. Asked = query.idx /\ Asked' = -1
      BY <2>1 DEF Asked, Reading
    <2>5. Store!Deliver
      BY <2>1, <2>2, <2>3, <2>4 DEF Store!Deliver, Store!NotAsked, Asked
    <2> QED BY <2>5 DEF Store!Next
  <1> QED BY <1>1, <1>2, <1>3, <1>4 DEF ReadStep

LEMMA StepImplements ==
  ASSUME Discipline, SystemInv, [Next]_vars
  PROVE  Store!Next \/ UNCHANGED Store!vars
  <1>1. CASE InitReader \/ BeginUpdate
    <2>1. /\ ~Reading /\ ~Reading' /\ flatDb' = flatDb /\ result' = NoResult
      BY <1>1 DEF InitReader, BeginUpdate, Reading, dbVars
    <2>2. Asked = -1 /\ Asked' = -1
      BY <2>1 DEF Asked
    <2>3. Store!Forget
      BY <2>1, <2>2
         DEF Store!Forget, Store!NotAsked, Store!NoResult, NoResult, Asked
    <2> QED BY <2>3 DEF Store!Next
  <1>2. CASE ApplyOp \/ GrowAndApplyOp \/ EndUpdate
    <2>1. /\ ~Reading /\ ~Reading' /\ UNCHANGED <<flatDb, result>>
      BY <1>2 DEF ApplyOp, GrowAndApplyOp, EndUpdate, Reading, dbVars
    <2> QED BY <2>1 DEF Store!vars, Asked
  <1>3. CASE UNCHANGED vars
    BY <1>3 DEF vars, dbVars, readVars, Store!vars, Reading
  <1> QED BY <1>1, <1>2, <1>3, WriterImplements, ReadImplements DEF Next, UpdateStep

\* The whole system, read by read and write by write, is an array of rows:
\* a completed Read of pir_reader.go delivers the row that is in it, a
\* failed one leaves no trace, and EditRows and AppendRows of dynamic_db.go
\* write and extend it.
THEOREM StoreImplemented ==
  ASSUME Discipline
  PROVE  Spec => ImplementsStore
  <1>1. Init => Store!Init
    <2>1. Init => flatDb = FirstRows /\ ~Reading /\ result = NoResult
      BY DEF Init, DbInit, Reading
    <2>2. FirstRows \in [0..N-1 -> Row]
      BY DynamicDBAssumption
    <2> QED BY <2>1, <2>2
            DEF Store!Init, Store!NotAsked, Store!NoResult, NoResult
  <1>2. SystemInv /\ [Next]_vars => [Store!Next]_(Store!vars)
    BY StepImplements
  <1> QED BY <1>1, <1>2, SystemInvHolds, PTL DEF Spec, ImplementsStore, Store!Spec
=============================================================================
