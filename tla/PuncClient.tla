----------------------------- MODULE PuncClient -----------------------------
(***************************************************************************)
(* The puncturable-set client of pir/pir_punc.go with the set generator of *)
(* pir/pset.go, and the two servers as the rows that they XOR.  A query    *)
(* replaces a set at once, and its hint follows when the answers arrive:   *)
(* between the two, an answer may fail, and in the proxy other handlers    *)
(* read through the same client without a lock.                            *)
(*                                                                         *)
(* A row is known by its index, and a XOR of rows by the set of those in   *)
(* it an odd number of times.  A key of a set stands for its elements: the *)
(* ids of the two generators do not overlap, so eval and setGenForSet find *)
(* the generator a key is from.                                            *)
(***************************************************************************)
EXTENDS Integers, Sequences, FiniteSets, FiniteSetsExt, Functions

CONSTANTS
  NRows,      \* c.nRows
  SetSize,    \* c.setSize
  NumHints,   \* len(c.hints)
  BaseSets,   \* sets a generator draws before they are shifted
  Readers,    \* callers of Query at the same time
  MaxReads    \* bound on the number of reads

\* Sets are those the distinct filter passes: no element but 0 occurs twice.
PuncAssumption ==
  /\ NRows \in Nat /\ SetSize \in 1..NRows /\ NumHints \in Nat \ {0} /\ MaxReads \in Nat
  /\ \A b \in BaseSets :
       /\ b \in [1..SetSize -> 0..NRows - 1]
       /\ \A p, q \in 1..SetSize : b[p] = b[q] => p = q \/ b[p] = 0

VARIABLES
  sets,         \* c.sets
  hints,        \* c.hints
  idxToSetIdx,  \* c.idxToSetIdx
  rd,           \* state of each reader
  lost,         \* history: hints of which an update was dropped or overtaken by a later one
  reads         \* reads begun

vars == <<sets, hints, idxToSetIdx, rd, lost, reads>>

Rows  == 0..NRows - 1
Index == 0..NumHints - 1

\* Rows in a sequence an odd number of times.
Parity(elems) == {x \in Range(elems) : Cardinality({p \in DOMAIN elems : elems[p] = x}) % 2 = 1}

Xor(a, b) == (a \cup b) \ (a \cap b)

-----------------------------------------------------------------------------
Shifted(b, shift) == [p \in 1..SetSize |-> (b[p] + shift) % NRows]

\* What Gen may return.
Gen == {Shifted(b, shift) : b \in BaseSets, shift \in 0..SetSize - 1}

\* What GenWith may return: shifted so that val is at a random position.
GenWith(val) == {Shifted(b, (val - b[pos]) % NRows) : b \in BaseSets, pos \in 1..SetSize}

FirstAt(elems, idx) == Min({p \in 1..SetSize : elems[p] = idx})

\* Mutant: the element after it is left out.
PuncAfter(elems, idx) == [p \in 1..SetSize - 1 |-> elems[IF p <= FirstAt(elems, idx) THEN p ELSE p + 1]]

\* The elements of the set punctured at the first position of idx.
Punc(elems, idx) == [p \in 1..SetSize - 1 |-> elems[IF p < FirstAt(elems, idx) THEN p ELSE p + 1]]

\* Mutant: the last position is never drawn.
membersExceptOfFirst(elems, idx) == Range(SubSeq(elems, 1, SetSize - 1)) \ {idx}

\* What randomMemberExcept may return; it draws for ever if there is nothing else.
membersExcept(elems, idx) == Range(elems) \ {idx}

-----------------------------------------------------------------------------
Idle == [pc |-> "idle"]

\* initSets: the last set with an element.
Init ==
  /\ sets \in [Index -> Gen]
  /\ hints = [j \in Index |-> Parity(sets[j])]
  /\ idxToSetIdx = [v \in Rows |-> Max({-1} \cup {j \in Index : v \in Range(sets[j])})]
  /\ rd = [r \in Readers |-> Idle]
  /\ lost = {}
  /\ reads = 0

\* The index that findIndex scans for, -1 if no set has it.
scannedIndex(i) == Min({NumHints} \cup {j \in Index : i \in Range(sets[j])})

\* findIndex overwrites the pointers of all elements it passes.
findIndex(i) ==
  IF i >= NRows THEN [setIdx |-> -1, pointers |-> idxToSetIdx]
  ELSE IF idxToSetIdx[i] >= 0 THEN [setIdx |-> idxToSetIdx[i], pointers |-> idxToSetIdx]
  ELSE LET found == scannedIndex(i)
           Passed(v, j) == \E p \in 1..SetSize : sets[j][p] = v /\ (j = found => p < FirstAt(sets[j], i))
       IN  [setIdx |-> IF found = NumHints THEN -1 ELSE found,
            pointers |-> [v \in Rows |->
              LET js == {j \in Index : j <= found /\ Passed(v, j)}
              IN  IF js = {} THEN idxToSetIdx[v] ELSE Max(js)]]

\* Cases that sample can return: of NRows coins SetSize - 1 are case 1, as many case 2.
Cases == {c \in 0..2 : IF c = 0 THEN 2 * (SetSize - 1) < NRows ELSE SetSize > 1}

\* Mutant: pointers to the set that goes are kept.
pointersKept(pointers, setIdx, newSet) ==
  [v \in Rows |-> IF v \in Range(newSet) THEN setIdx ELSE pointers[v]]

\* The pointers after replaceSet.
replacedPointers(pointers, setIdx, newSet) ==
  [v \in Rows |->
     IF v \in Range(newSet) THEN setIdx
     ELSE IF v \in Range(sets[setIdx]) /\ pointers[v] = setIdx THEN -1
     ELSE pointers[v]]

\* A request: rows of the punctured set and the extra element, or Spin if there is
\* no element to draw.
Spin == [punctured |-> <<>>, extra |-> -1]

\* What Query may send to the left and the right server.
Requests(case, i, pset, newSet) ==
  LET Others(elems, idx) == IF membersExcept(elems, idx) = {} THEN {-1} ELSE membersExcept(elems, idx)
      Request(elems, hole, extra) ==
        IF -1 \in {hole, extra} THEN Spin ELSE [punctured |-> Punc(elems, hole), extra |-> extra]
  IN  IF case = 0
      THEN {<<Request(newSet, i, l), Request(pset, i, r)>> : l \in Others(newSet, i), r \in Others(pset, i)}
      ELSE LET Near == UNION {{<<Request(newSet, x, y), Request(newSet, i, x)>> : y \in Others(newSet, x)} :
                                  x \in membersExcept(newSet, i)}
               Stuck == IF membersExcept(newSet, i) = {} THEN {<<Spin, Spin>>} ELSE {}
           IN  Stuck \cup (IF case = 1 THEN Near ELSE {<<q[2], q[1]>> : q \in Near})

\* A query for an index that no set has, or past the rows, changes pointers only.
QueryFails(r, i) ==
  /\ rd[r] = Idle /\ reads < MaxReads
  /\ findIndex(i).setIdx = -1
  /\ idxToSetIdx' = findIndex(i).pointers
  /\ reads' = reads + 1
  /\ UNCHANGED <<sets, hints, rd, lost>>

Query(r, i) ==
  LET at == findIndex(i).setIdx
      pointers == findIndex(i).pointers
  IN
  /\ rd[r] = Idle /\ reads < MaxReads
  /\ at >= 0
  /\ reads' = reads + 1
  /\ \E case \in Cases, newSet \in GenWith(i) : \E q \in Requests(case, i, sets[at], newSet) :
       LET spins == Spin \in Range(q)
           renews == case = 0 /\ ~spins
       IN  /\ rd' = [rd EXCEPT ![r] = [pc |-> IF spins THEN "spins" ELSE "sent", case |-> case, setIdx |-> at,
                                       i |-> i, req |-> q, old |-> sets[at], new |-> newSet, no |-> reads]]
           /\ sets' = IF renews THEN [sets EXCEPT ![at] = newSet] ELSE sets
           /\ idxToSetIdx' = IF renews THEN replacedPointers(pointers, at, newSet) ELSE pointers
  /\ UNCHANGED <<hints, lost>>

-----------------------------------------------------------------------------
\* PuncQueryReq.Process.
Answer(req) == [answer |-> Parity(req.punctured), extra |-> {req.extra}]

\* Readers whose query replaced set j and whose answers are still to come.
Renewing(j) == {r \in Readers : rd[r].pc = "sent" /\ rd[r].case = 0 /\ rd[r].setIdx = j}

Overtakes(r) == \E o \in Renewing(rd[r].setIdx) : rd[o].no < rd[r].no

\* Mutant: the hint keeps the row that was read out of the new set.
renewedHintPunctured(left, out) == left

renewedHint(left, out) == Xor(left, out)

\* Both servers answer and the row is reconstructed.
reconstruct(r) ==
  LET d     == rd[r]
      left  == Answer(d.req[1])
      right == Answer(d.req[2])
      out   == CASE d.case = 0 -> Xor(hints[d.setIdx], right.answer)
                 [] d.case = 1 -> Xor(Xor(left.answer, right.answer), right.extra)
                 [] d.case = 2 -> Xor(Xor(left.answer, right.answer), left.extra)
  IN
  /\ d.pc = "sent"
  /\ rd' = [rd EXCEPT ![r] = [pc |-> "read", i |-> d.i, out |-> out, case |-> d.case, setIdx |-> d.setIdx]]
  /\ hints' = IF d.case = 0 THEN [hints EXCEPT ![d.setIdx] = renewedHint(left.answer, out)] ELSE hints
  /\ lost' = IF d.case = 0 /\ Overtakes(r) THEN lost \cup {d.setIdx} ELSE lost
  /\ UNCHANGED <<sets, idxToSetIdx, reads>>

\* An answer is an error, and the caller gives up.
AnswerFails(r) ==
  /\ rd[r].pc = "sent"
  /\ rd' = [rd EXCEPT ![r] = Idle]
  /\ lost' = IF rd[r].case = 0 THEN lost \cup {rd[r].setIdx} ELSE lost
  /\ UNCHANGED <<sets, hints, idxToSetIdx, reads>>

Return(r) == rd[r].pc = "read" /\ rd' = [rd EXCEPT ![r] = Idle] /\ UNCHANGED <<sets, hints, idxToSetIdx, lost, reads>>

Next ==
  \E r \in Readers :
    \/ \E i \in 0..NRows : QueryFails(r, i) \/ Query(r, i)
    \/ reconstruct(r) \/ AnswerFails(r) \/ Return(r)

Spec == Init /\ [][Next]_vars

-----------------------------------------------------------------------------
\* A pointer leads to a set that has the element, whatever scans and replacements
\* have done to it (findIndex, replaceSet).
PointersRight ==
  \A v \in Rows : idxToSetIdx[v] = -1 \/ (idxToSetIdx[v] \in Index /\ v \in Range(sets[idxToSetIdx[v]]))

\* A hint is the parity of its set or, with queries in flight, of the set that the oldest
\* of them has replaced; only a hint of which an update was dropped or overtaken by a
\* later one is not (Query, reconstruct).
HintsFollow ==
  \A j \in Index \ lost :
    hints[j] = Parity(IF Renewing(j) = {} THEN sets[j]
                      ELSE rd[CHOOSE r \in Renewing(j) : ~Overtakes(r)].old)

\* A read returns the row it is for, unless it used such a hint: a lost update spoils
\* one hint and never the others, and reads that need no hint stay right (reconstruct).
WrongOnlyIfLost ==
  \A r \in Readers :
    rd[r].pc = "read" => rd[r].out = {rd[r].i} \/ (rd[r].case = 0 /\ rd[r].setIdx \in lost)

\* Hints follow the sets that queries replace, and a read is wrong only if it used a hint
\* of which an update was dropped or overtaken (Query, reconstruct).
ReadsRight == HintsFollow /\ WrongOnlyIfLost

\* A draw never ends only for a set that has one element, be it of size one or all of
\* it the element 0 of which the filter sees no repetition (randomMemberExcept).
SpinsOnOneElement ==
  \A r \in Readers :
    rd[r].pc = "spins" => Cardinality(Range(rd[r].old)) = 1 \/ Cardinality(Range(rd[r].new)) = 1
=============================================================================
