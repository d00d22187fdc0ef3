----------------------------- MODULE SinglePass -----------------------------
(***************************************************************************)
(* A PIR reader (pir/pir_reader.go) with a SinglePass client               *)
(* (pir/pir_single_pass.go) over one DynamicDB that serves as its left and *)
(* its right server, as the updatable tests and benchmarks set it up.      *)
(*                                                                         *)
(* The client splits the database into setSize blocks of nHints rows.  For *)
(* every block it keeps a permutation (idxToSetIdx) and its inverse        *)
(* (setIdxToIdx), and hint h is the XOR over the blocks of the row that    *)
(* the block's permutation puts at h.  A read consumes the hint of the row *)
(* it wants and refreshes it by swapping positions in every block; an      *)
(* update replays the server's log on the hints.                           *)
(*                                                                         *)
(* Callers are sequential: no mutating call of the database overlaps a     *)
(* call of the reader, and a read is made only when the reader has seen    *)
(* every write (StaleReads lifts this).  The steps inside a call are       *)
(* separate, because an Answer may fail and abandon the read half way.     *)
(***************************************************************************)
EXTENDS DynamicDB

CONSTANTS
  SetSizeReq,      \* setSize given to NewPIRReaderSetSize; 0: the default
  StaleReads,      \* may a caller read before it has fetched the writes?
  InitAfterGrowth  \* may a caller call Init once the database has grown?

ASSUME SinglePassAssumption ==
  /\ SetSizeReq \in 0..N
  /\ StaleReads \in BOOLEAN
  /\ InitAfterGrowth \in BOOLEAN

VARIABLES
  rd,          \* where the reader is in its current call
  nRows, setSize, nHints, hints, idxToSetIdx, setIdxToIdx,
  cliVersion,  \* SinglePassClient.currVersion
  query,       \* what the query closure captured, and the two requests
  resp0, resp1,\* the answers of the left and the right server
  response,    \* SinglePassUpdateResp of the update in progress
  updIdx,      \* iterations of the updateState loop done so far
  result       \* the index and row the last call returned, if it was a Read

cliVars  == <<nRows, setSize, nHints, hints, idxToSetIdx, setIdxToIdx,
              cliVersion>>
readVars == <<query, resp0, resp1>>
updVars  == <<response, updIdx>>
vars     == <<dbVars, rd, cliVars, readVars, updVars, result>>

NoQuery    == [idx |-> -1, index0 |-> 0, pos |-> 0, size |-> 0,
               randSwaps |-> <<>>, offline |-> <<>>, online |-> <<>>]
NoResponse == [newVersion |-> 0, updates |-> <<>>]
NoResult   == [idx |-> -1, row |-> ZeroRow]

Perms(n) == {p \in [0..n-1 -> 0..n-1] : \A a, b \in 0..n-1 : p[a] = p[b] => a = b}

\* invert_permutation
Inverted(p) == [v \in DOMAIN p |-> CHOOSE h \in DOMAIN p : p[h] = v]

Blocks    == 0..setSize-1
Positions == 0..nHints-1

\* The hints of answer_single_pass: hint h of permutations p over the rows.
HintsOf(db, s, n, p) ==
  [h \in 0..n-1 |-> XorAll(0..s-1, [j \in 0..s-1 |-> db[j * n + p[j][h]]])]

\* findIndex, for an index below nRows.
BlockOf(i)  == i \div nHints
OffsetOf(i) == i - BlockOf(i) * nHints
PosOf(i)    == setIdxToIdx[BlockOf(i)][OffsetOf(i)]

-----------------------------------------------------------------------------
(***************************************************************************)
(* Init: Hint.Process at the left server, then InitClient and initState.   *)
(***************************************************************************)
HintSetSize == IF SetSizeReq # 0 THEN SetSizeReq ELSE ISqrt(numRows)

InitReader ==
  /\ Quiet
  /\ rd \in {"new", "idle"}
  /\ InitAfterGrowth \/ numRows = N
  /\ LET s == HintSetSize
         n == numRows \div s
     IN IF s * n # numRows
        THEN \* initState walks past its s permutations
             /\ rd' = "panicked"
             /\ UNCHANGED cliVars
        ELSE \E p \in [0..s-1 -> Perms(n)] :
               /\ nRows' = numRows
               /\ setSize' = s
               /\ nHints' = n
               /\ hints' = HintsOf(flatDb, s, n, p)
               /\ idxToSetIdx' = p
               /\ setIdxToIdx' = [j \in 0..s-1 |-> Inverted(p[j])]
               /\ cliVersion' = dbVersion
               /\ rd' = "idle"
  /\ result' = NoResult
  /\ UNCHANGED <<dbVars, readVars, updVars>>

(***************************************************************************)
(* Read: Query, the left Answer, the right Answer, reconstruct.            *)
(***************************************************************************)
CaughtUp == cliVersion = Len(ops)

\* Query(i): i is reduced modulo nRows, every block draws a swap position.
\* The right server gets the set of the wanted row with that row replaced.
Query(i) ==
  /\ Quiet
  /\ rd = "idle"
  /\ StaleReads \/ CaughtUp
  /\ LET idx == i % nRows
         i0  == BlockOf(idx)
         pos == PosOf(idx)
     IN \E r \in [Blocks -> Positions] :
          query' = [idx |-> idx, index0 |-> i0, pos |-> pos, size |-> setSize,
                    randSwaps |-> r,
                    offline |-> [j \in Blocks |-> idxToSetIdx[j][r[j]]],
                    online  |-> [j \in Blocks |->
                      idxToSetIdx[j][IF j = i0 THEN r[j] ELSE pos]]]
  /\ rd' = "asked"
  /\ result' = NoResult
  /\ UNCHANGED <<dbVars, cliVars, resp0, resp1, updVars>>

\* Mutant: blocks counted from one.
AnswerIndexFromOne(set, j) == (numRows \div query.size) * (j + 1) + set[j]

\* SinglePassQueryReq.Process: one row per block; the block size is derived
\* from the server's own capacity and the set size in the request.
AnswerIndex(set, j) == (numRows \div query.size) * j + set[j]

InBounds(set) == \A j \in 0..query.size-1 : AnswerIndex(set, j) < numRows

Answer(set) == [j \in 0..query.size-1 |-> flatDb[AnswerIndex(set, j)]]

AnswerLeft ==
  /\ Quiet
  /\ rd = "asked"
  /\ IF InBounds(query.offline)
     THEN resp0' = Answer(query.offline) /\ rd' = "left"
     ELSE resp0' = resp0 /\ rd' = "panicked"  \* CopyIn indexes past FlatDb
  /\ UNCHANGED <<dbVars, cliVars, query, resp1, updVars, result>>

AnswerRight ==
  /\ Quiet
  /\ rd = "left"
  /\ IF InBounds(query.online)
     THEN resp1' = Answer(query.online) /\ rd' = "answered"
     ELSE resp1' = resp1 /\ rd' = "panicked"
  /\ UNCHANGED <<dbVars, cliVars, query, resp0, updVars, result>>

ReadDone ==
  /\ rd' = "idle"
  /\ query' = NoQuery
  /\ resp0' = <<>>
  /\ resp1' = <<>>

\* An Answer returns an error: Read returns it and drops the closure.
ReadFails ==
  /\ Quiet
  /\ rd \in {"asked", "left"}
  /\ ReadDone
  /\ UNCHANGED <<dbVars, cliVars, updVars, result>>

\* Mutant: the decoy is not taken out.
ReconstructedRowWithDecoy == Xor(XorAll(Blocks, resp1), hints[query.pos])

\* The row reconstruct returns.
ReconstructedRow ==
  Xor(Xor(XorAll(Blocks, resp1), hints[query.pos]), resp1[query.index0])

\* Mutant: the swap overwrites a position before it has read it.
SwappedPermsNoTemp(r, pos) ==
  [j \in Blocks |-> [idxToSetIdx[j] EXCEPT ![pos] = idxToSetIdx[j][r[j]]]]

\* Mutant: the inverse follows one of the two moved rows only.
SwappedInversesOneWay(r, pos) ==
  [j \in Blocks |-> [setIdxToIdx[j] EXCEPT ![idxToSetIdx[j][pos]] = r[j]]]

\* Positions pos and r[j] trade places in every block.
SwappedPerms(r, pos) ==
  [j \in Blocks |-> [idxToSetIdx[j] EXCEPT ![pos]  = idxToSetIdx[j][r[j]],
                                           ![r[j]] = idxToSetIdx[j][pos]]]
SwappedInverses(r, pos) ==
  [j \in Blocks |-> [setIdxToIdx[j] EXCEPT ![idxToSetIdx[j][pos]]  = r[j],
                                           ![idxToSetIdx[j][r[j]]] = pos]]

\* Mutant: hint r[index0] keeps the decoy.
RefreshedHintsWithDecoy(r, pos, i0, out) ==
  [h \in Positions |->
     LET base  == IF h = pos THEN XorAll(Blocks, resp0) ELSE hints[h]
         moved == XorAll({j \in Blocks : r[j] = h},
                         [j \in Blocks |-> Xor(resp0[j], resp1[j])])
     IN Xor(base, moved)]

\* Hint pos becomes the offline set; each swapped row moves to hint r[j].
\* The online answer of block index0 is a decoy, so hint r[index0] is then
\* corrected with the row just reconstructed.
RefreshedHints(r, pos, i0, out) ==
  [h \in Positions |->
     LET base  == IF h = pos THEN XorAll(Blocks, resp0) ELSE hints[h]
         moved == XorAll({j \in Blocks : r[j] = h},
                         [j \in Blocks |-> Xor(resp0[j], resp1[j])])
         fix   == IF h = r[i0] THEN Xor(resp1[i0], out) ELSE ZeroRow
     IN Xor(Xor(base, moved), fix)]

Reconstruct ==
  /\ Quiet
  /\ rd = "answered"
  /\ hints' = RefreshedHints(query.randSwaps, query.pos, query.index0,
                             ReconstructedRow)
  /\ idxToSetIdx' = SwappedPerms(query.randSwaps, query.pos)
  /\ setIdxToIdx' = SwappedInverses(query.randSwaps, query.pos)
  /\ result' = [idx |-> query.idx, row |-> ReconstructedRow]
  /\ ReadDone
  /\ UNCHANGED <<dbVars, nRows, setSize, nHints, cliVersion, updVars>>

(***************************************************************************)
(* Update: GetUpdates at the left server, then updateState, a loop over    *)
(* the operations of the response.                                         *)
(***************************************************************************)

\* Mutant: the slice starts one operation late.
OpsAfterNext(v) == SubSeq(ops, v - OpInitVersion + 2, Len(ops))

OpsSince(v) == SubSeq(ops, v - OpInitVersion + 1, Len(ops))

\* With an empty log the response has a type the client rejects and the
\* reader ignores the error: nothing changes, so no action stands for it.
BeginUpdate ==
  /\ Quiet
  /\ rd = "idle"
  /\ cliVersion >= OpInitVersion
  /\ ops # <<>>
  /\ IF cliVersion - OpInitVersion <= Len(ops)
     THEN /\ rd' = "updating"
          /\ response' = [newVersion |-> currVersion,
                          updates |-> OpsSince(cliVersion)]
     ELSE /\ rd' = "panicked"  \* ops sliced past its end
          /\ UNCHANGED response
  /\ updIdx' = 0
  /\ result' = NoResult
  /\ UNCHANGED <<dbVars, cliVars, readVars>>

NextOp == response.updates[updIdx + 1]

\* The row of op changes in the hint that covers it.
Patched(op, h) == [hints EXCEPT ![h] = Xor(Xor(@, op.Old), op.New)]

\* An operation on a row the client has.
ApplyOp ==
  /\ rd = "updating"
  /\ updIdx < Len(response.updates)
  /\ NextOp.Index < nRows
  /\ hints' = Patched(NextOp, PosOf(NextOp.Index))
  /\ updIdx' = updIdx + 1
  /\ UNCHANGED <<dbVars, rd, nRows, setSize, nHints, idxToSetIdx, setIdxToIdx,
                 cliVersion, readVars, response, result>>

\* An operation past the last row: grow by one block with a fresh
\* permutation p, and no more than one, then apply it.
GrowAndApplyOp ==
  /\ rd = "updating"
  /\ updIdx < Len(response.updates)
  /\ NextOp.Index >= nRows
  /\ \E p \in Perms(nHints) :
       /\ nRows' = nRows + nHints
       /\ setSize' = setSize + 1
       /\ idxToSetIdx' = [j \in 0..setSize |->
                            IF j = setSize THEN p ELSE idxToSetIdx[j]]
       /\ setIdxToIdx' = [j \in 0..setSize |->
                            IF j = setSize THEN Inverted(p) ELSE setIdxToIdx[j]]
  /\ IF NextOp.Index < nRows'
     THEN /\ hints' = Patched(NextOp,
                              (setIdxToIdx'[BlockOf(NextOp.Index)])
                                           [OffsetOf(NextOp.Index)])
          /\ rd' = "updating"
     ELSE /\ hints' = hints  \* findIndex returns -1, hints[-1]
          /\ rd' = "panicked"
  /\ updIdx' = updIdx + 1
  /\ UNCHANGED <<dbVars, nHints, cliVersion, readVars, response, result>>

EndUpdate ==
  /\ rd = "updating"
  /\ updIdx = Len(response.updates)
  /\ cliVersion' = response.newVersion
  /\ rd' = "idle"
  /\ response' = NoResponse
  /\ updIdx' = 0
  /\ UNCHANGED <<dbVars, nRows, setSize, nHints, hints, idxToSetIdx,
                 setIdxToIdx, readVars, result>>

-----------------------------------------------------------------------------
Init ==
  /\ DbInit
  /\ rd = "new"
  /\ nRows = 0 /\ setSize = 0 /\ nHints = 0
  /\ hints = <<>> /\ idxToSetIdx = <<>> /\ setIdxToIdx = <<>>
  /\ cliVersion = 0
  /\ query = NoQuery /\ resp0 = <<>> /\ resp1 = <<>>
  /\ response = NoResponse /\ updIdx = 0
  /\ result = NoResult

\* Writers call the database only between calls of the reader.
WriterStep ==
  /\ rd \in {"new", "idle"}
  /\ DbNext
  /\ result' = NoResult
  /\ UNCHANGED <<rd, cliVars, readVars, updVars>>

ReadStep ==
  \/ \E i \in -1..nRows : Query(i)
  \/ AnswerLeft
  \/ AnswerRight
  \/ ReadFails
  \/ Reconstruct

UpdateStep == BeginUpdate \/ ApplyOp \/ GrowAndApplyOp \/ EndUpdate

Next == WriterStep \/ InitReader \/ ReadStep \/ UpdateStep

Spec == Init /\ [][Next]_vars

-----------------------------------------------------------------------------
(***************************************************************************)
(* Properties.                                                             *)
(***************************************************************************)
HasClient == rd \notin {"new", "panicked"}

Reading == rd \in {"asked", "left", "answered"}

QueryType ==
  [idx : 0..nRows-1, index0 : Blocks, pos : Positions, size : {setSize},
   randSwaps : [Blocks -> Positions],
   offline : [Blocks -> Positions], online : [Blocks -> Positions]]

\* Every variable has its type; the shapes of the hints, the permutations,
\* the requests and the answers agree with the client's geometry.
TypeOK ==
  /\ DbTypeOK
  /\ rd \in {"new", "idle", "asked", "left", "answered", "updating", "panicked"}
  /\ nRows \in Nat /\ setSize \in Nat /\ nHints \in Nat /\ cliVersion \in Nat
  /\ HasClient =>
       /\ setSize > 0 /\ nHints > 0 /\ nRows = setSize * nHints
       /\ hints \in [Positions -> Row]
       /\ idxToSetIdx \in [Blocks -> [Positions -> Positions]]
       /\ setIdxToIdx \in [Blocks -> [Positions -> Positions]]
  /\ Reading => query \in QueryType
  /\ rd \in {"left", "answered"} => resp0 \in [Blocks -> Row]
  /\ rd = "answered" => resp1 \in [Blocks -> Row]
  /\ response \in [newVersion : Nat, updates : Seq(Op)]
  /\ updIdx \in 0..Len(response.updates)
  /\ result \in [idx : Int, row : Row]

\* In every block the two position maps are permutations and inverse to each
\* other, through any sequence of swaps (reconstruct) and growths
\* (updateState): findIndex really finds the hint that covers a row.
PermsInverse ==
  HasClient =>
    \A j \in Blocks : \A h \in Positions :
      /\ setIdxToIdx[j][idxToSetIdx[j][h]] = h
      /\ idxToSetIdx[j][setIdxToIdx[j][h]] = h

\* Row i as of the last operation of the log the client has applied: the
\* server's row with the changes of the later operations undone.
Pending(i) == {k \in 1..Len(ops) : k > cliVersion + updIdx /\ ops[k].Index = i}

ClientRow(i) ==
  Xor(flatDb[i],
      XorAll(Pending(i), [k \in Pending(i) |-> Xor(ops[k].Old, ops[k].New)]))

ClientRows == [i \in DOMAIN flatDb |-> ClientRow(i)]

\* Hint h is the XOR over the blocks of the rows at position h, each row as
\* of the client's place in the log.  It holds at every point: while writes
\* the client has not fetched pile up, half way through an update, and
\* after reads that were completed or abandoned.
HintParity ==
  HasClient =>
    \A h \in Positions :
      hints[h] = XorAll(Blocks,
                   [j \in Blocks |-> ClientRows[j * nHints + idxToSetIdx[j][h]]])

\* What reconstruct returns is the row at the index asked for, and there is one.
ReadCorrect ==
  rd = "answered" =>
    query.idx \in DOMAIN flatDb /\ ReconstructedRow = flatDb[query.idx]

\* A reader that has every update splits the database as the server does:
\* the block size Process derives from its capacity is the client's nHints.
OffsetAgrees ==
  HasClient /\ Quiet /\ CaughtUp => numRows \div setSize = nHints

\* A reader that has every update reaches every row in use.
EveryRowCovered ==
  HasClient /\ Quiet /\ CaughtUp => realSizeDB <= nRows

\* No index of a hint, a permutation, the log or the flat database is ever
\* out of range.
NeverPanics == rd # "panicked"

\* Between calls every logged operation is in the database and counted, so
\* the version in a hint and the version of an update mean the same.
VersionsAgree ==
  Quiet => currVersion = Len(ops) /\ dbVersion = Len(ops)

\* AppendRows returned without an error, so the rows it counts are stored.
RowsInUseExist == Quiet => realSizeDB <= numRows

\* The reader and its database implement an array of rows.
Store == INSTANCE PIRStore WITH
           rows   <- flatDb,
           asked  <- IF Reading THEN query.idx ELSE -1,
           result <- result

ImplementsStore == Store!Spec
=============================================================================
