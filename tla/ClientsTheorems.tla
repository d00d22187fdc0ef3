--------------------------- MODULE ClientsTheorems ---------------------------
(***************************************************************************)
(* What the parts of the client (module Clients) keep, for every value of  *)
(* their constants: the two further Punc clients, of which PuncProofs is   *)
(* cited, and the RPC client, whose proof is here.                         *)
(***************************************************************************)
EXTENDS Clients, TLAPS

OtherProofs == INSTANCE PuncProofs WITH
  NRows <- OtherRows, SetSize <- OtherSetSize, NumHints <- OtherHints, BaseSets <- OtherBases,
  Readers <- OtherReaders, MaxReads <- OtherReads,
  sets <- v1, hints <- v2, idxToSetIdx <- v3, rd <- v4, lost <- v5, reads <- v6

SingleProofs == INSTANCE PuncProofs WITH
  NRows <- UnitRows, SetSize <- 1, NumHints <- UnitHints, BaseSets <- UnitBases,
  Readers <- UnitReaders, MaxReads <- UnitReads,
  sets <- v1, hints <- v2, idxToSetIdx <- v3, rd <- v4, lost <- v5, reads <- v6

-----------------------------------------------------------------------------
\* What the larger sets draws, looks for and sends.
LEMMA SameOtherOperators ==
  /\ Other!Gen = OtherProofs!Gen
  /\ \A p : Other!GenWith(p) = OtherProofs!GenWith(p)
  /\ \A p, q : Other!Punc(p, q) = OtherProofs!Punc(p, q)
  /\ \A p, q : Other!membersExcept(p, q) = OtherProofs!membersExcept(p, q)
  /\ Other!Spin = OtherProofs!Spin
  /\ \A p, q, r, s : Other!Requests(p, q, r, s) = OtherProofs!Requests(p, q, r, s)
  /\ \A p : Other!findIndex(p) = OtherProofs!findIndex(p)
  /\ \A p, q, r : Other!replacedPointers(p, q, r) = OtherProofs!replacedPointers(p, q, r)
  /\ Other!Cases = OtherProofs!Cases
  <1>1. Other!Gen = OtherProofs!Gen
    BY SMT DEF
      Other!Gen, Other!Shifted, OtherProofs!Gen, OtherProofs!Shifted
  <1>2. \A p : Other!GenWith(p) = OtherProofs!GenWith(p)
    BY SMT DEF
      Other!GenWith, Other!Shifted, OtherProofs!GenWith, OtherProofs!Shifted
  <1>3. \A p, q : Other!Punc(p, q) = OtherProofs!Punc(p, q)
    BY Zenon DEF
      Other!Punc, Other!FirstAt, Other!Min, OtherProofs!Punc, OtherProofs!FirstAt,
      OtherProofs!Min
  <1>4. \A p, q : Other!membersExcept(p, q) = OtherProofs!membersExcept(p, q)
    BY Zenon DEF
      Other!membersExcept, Other!Range, OtherProofs!membersExcept, OtherProofs!Range
  <1>5. Other!Spin = OtherProofs!Spin
    BY Zenon DEF
      Other!Spin, OtherProofs!Spin
  <1>6. \A p, q, r, s : Other!Requests(p, q, r, s) = OtherProofs!Requests(p, q, r, s)
    <2> SUFFICES ASSUME NEW p, NEW q, NEW r, NEW s
                 PROVE  Other!Requests(p, q, r, s) = OtherProofs!Requests(p, q, r, s)
      OBVIOUS
    <2>1. CASE p = 0
      BY <1>3, <1>4, <1>5, <2>1, SMT DEF Other!Requests, OtherProofs!Requests
    <2>2. CASE p = 1
      BY <1>3, <1>4, <1>5, <2>2, SMT DEF Other!Requests, OtherProofs!Requests
    <2>3. CASE p # 0 /\ p # 1
      BY <1>3, <1>4, <1>5, <2>3, SMT DEF Other!Requests, OtherProofs!Requests
    <2>. QED BY <2>1, <2>2, <2>3
  <1>7. \A p : Other!findIndex(p) = OtherProofs!findIndex(p)
    BY Zenon DEF
      Other!findIndex, Other!scannedIndex, Other!Min, Other!Index, Other!Range,
      Other!FirstAt, Other!Rows, Other!Max, OtherProofs!findIndex,
      OtherProofs!scannedIndex, OtherProofs!Min, OtherProofs!Index, OtherProofs!Range,
      OtherProofs!FirstAt, OtherProofs!Rows, OtherProofs!Max
  <1>8. \A p, q, r : Other!replacedPointers(p, q, r) = OtherProofs!replacedPointers(p, q, r)
    BY Zenon DEF
      Other!replacedPointers, Other!Rows, Other!Range, OtherProofs!replacedPointers,
      OtherProofs!Rows, OtherProofs!Range
  <1>9. Other!Cases = OtherProofs!Cases
    BY Zenon DEF
      Other!Cases, OtherProofs!Cases
  <1>. QED
    BY <1>1, <1>2, <1>3, <1>4, <1>5, <1>6, <1>7, <1>8, <1>9

\* Their actions.
LEMMA SameOtherSteps == Other!Next <=> OtherProofs!Next
  <1>1. \A r, i : Other!QueryFails(r, i) <=> OtherProofs!QueryFails(r, i)
    BY SameOtherOperators, Zenon DEF
      Other!QueryFails, Other!Idle, Other!findIndex, Other!scannedIndex, Other!Min,
      Other!Index, Other!Range, Other!FirstAt, Other!Rows, Other!Max,
      OtherProofs!QueryFails, OtherProofs!Idle, OtherProofs!findIndex,
      OtherProofs!scannedIndex, OtherProofs!Min, OtherProofs!Index, OtherProofs!Range,
      OtherProofs!FirstAt, OtherProofs!Rows, OtherProofs!Max
  <1>2. \A r, i : Other!Query(r, i) <=> OtherProofs!Query(r, i)
    BY SameOtherOperators, SMT DEF
      Other!Query, Other!Idle, Other!Range, OtherProofs!Query, OtherProofs!Idle,
      OtherProofs!Range
  <1>3. \A r : Other!reconstruct(r) <=> OtherProofs!reconstruct(r)
    BY ZenonT(60) DEF
      Other!reconstruct, Other!Answer, Other!Parity, Other!Range, Other!Cardinality,
      Other!IsFiniteSet, Other!Xor, Other!renewedHint, Other!Overtakes,
      Other!Renewing, OtherProofs!reconstruct, OtherProofs!Answer, OtherProofs!Parity,
      OtherProofs!Range, OtherProofs!Cardinality, OtherProofs!IsFiniteSet,
      OtherProofs!Xor, OtherProofs!renewedHint, OtherProofs!Overtakes,
      OtherProofs!Renewing
  <1>4. \A r : Other!AnswerFails(r) <=> OtherProofs!AnswerFails(r)
    BY SameOtherOperators, Zenon DEF
      Other!AnswerFails, Other!Idle, OtherProofs!AnswerFails, OtherProofs!Idle
  <1>5. \A r : Other!Return(r) <=> OtherProofs!Return(r)
    BY SameOtherOperators, Zenon DEF
      Other!Return, Other!Idle, OtherProofs!Return, OtherProofs!Idle
  <1>. QED
    BY <1>1, <1>2, <1>3, <1>4, <1>5 DEF Other!Next, OtherProofs!Next

LEMMA SameOther ==
  /\ Other!Init <=> OtherProofs!Init
  /\ Other!Next <=> OtherProofs!Next
  /\ UNCHANGED Other!vars <=> UNCHANGED OtherProofs!vars
  /\ Other!PuncAssumption <=> OtherProofs!PuncAssumption
  /\ Other!PointersRight <=> OtherProofs!PointersRight
  /\ Other!ReadsRight <=> OtherProofs!ReadsRight
  /\ Other!SpinsOnOneElement <=> OtherProofs!SpinsOnOneElement
  <1>1. Other!Init <=> OtherProofs!Init
    BY SameOtherOperators, Zenon DEF
      Other!Init, Other!Index, Other!Parity, Other!Range, Other!Cardinality,
      Other!IsFiniteSet, Other!Rows, Other!Max, Other!Idle, OtherProofs!Init,
      OtherProofs!Index, OtherProofs!Parity, OtherProofs!Range,
      OtherProofs!Cardinality, OtherProofs!IsFiniteSet, OtherProofs!Rows,
      OtherProofs!Max, OtherProofs!Idle
  <1>2. Other!Next <=> OtherProofs!Next
    BY SameOtherSteps
  <1>3. UNCHANGED Other!vars <=> UNCHANGED OtherProofs!vars
    BY Zenon DEF
      Other!vars, OtherProofs!vars
  <1>4. Other!PuncAssumption <=> OtherProofs!PuncAssumption
    BY Zenon DEF
      Other!PuncAssumption, OtherProofs!PuncAssumption
  <1>5. Other!PointersRight <=> OtherProofs!PointersRight
    BY Zenon DEF
      Other!PointersRight, Other!Rows, Other!Index, Other!Range,
      OtherProofs!PointersRight, OtherProofs!Rows, OtherProofs!Index,
      OtherProofs!Range
  <1>6. Other!ReadsRight <=> OtherProofs!ReadsRight
    BY Zenon DEF
      Other!ReadsRight, Other!HintsFollow, Other!Index, Other!Parity, Other!Range,
      Other!Cardinality, Other!IsFiniteSet, Other!Renewing, Other!Overtakes,
      Other!WrongOnlyIfLost, OtherProofs!ReadsRight, OtherProofs!HintsFollow,
      OtherProofs!Index, OtherProofs!Parity, OtherProofs!Range,
      OtherProofs!Cardinality, OtherProofs!IsFiniteSet, OtherProofs!Renewing,
      OtherProofs!Overtakes, OtherProofs!WrongOnlyIfLost
  <1>7. Other!SpinsOnOneElement <=> OtherProofs!SpinsOnOneElement
    BY Zenon DEF
      Other!SpinsOnOneElement, Other!Cardinality, Other!IsFiniteSet, Other!Range,
      OtherProofs!SpinsOnOneElement, OtherProofs!Cardinality, OtherProofs!IsFiniteSet,
      OtherProofs!Range
  <1>. QED
    BY <1>1, <1>2, <1>3, <1>4, <1>5, <1>6, <1>7

\* What sets of one element draws, looks for and sends.
LEMMA SameSingleOperators ==
  /\ Single!Gen = SingleProofs!Gen
  /\ \A p : Single!GenWith(p) = SingleProofs!GenWith(p)
  /\ \A p, q : Single!Punc(p, q) = SingleProofs!Punc(p, q)
  /\ \A p, q : Single!membersExcept(p, q) = SingleProofs!membersExcept(p, q)
  /\ Single!Spin = SingleProofs!Spin
  /\ \A p, q, r, s : Single!Requests(p, q, r, s) = SingleProofs!Requests(p, q, r, s)
  /\ \A p : Single!findIndex(p) = SingleProofs!findIndex(p)
  /\ \A p, q, r : Single!replacedPointers(p, q, r) = SingleProofs!replacedPointers(p, q, r)
  /\ Single!Cases = SingleProofs!Cases
  <1>1. Single!Gen = SingleProofs!Gen
    BY SMT DEF
      Single!Gen, Single!Shifted, SingleProofs!Gen, SingleProofs!Shifted
  <1>2. \A p : Single!GenWith(p) = SingleProofs!GenWith(p)
    BY SMT DEF
      Single!GenWith, Single!Shifted, SingleProofs!GenWith, SingleProofs!Shifted
  <1>3. \A p, q : Single!Punc(p, q) = SingleProofs!Punc(p, q)
    BY Zenon DEF
      Single!Punc, Single!FirstAt, Single!Min, SingleProofs!Punc,
      SingleProofs!FirstAt, SingleProofs!Min
  <1>4. \A p, q : Single!membersExcept(p, q) = SingleProofs!membersExcept(p, q)
    BY Zenon DEF
      Single!membersExcept, Single!Range, SingleProofs!membersExcept,
      SingleProofs!Range
  <1>5. Single!Spin = SingleProofs!Spin
    BY Zenon DEF
      Single!Spin, SingleProofs!Spin
  <1>6. \A p, q, r, s : Single!Requests(p, q, r, s) = SingleProofs!Requests(p, q, r, s)
    <2> SUFFICES ASSUME NEW p, NEW q, NEW r, NEW s
                 PROVE  Single!Requests(p, q, r, s) = SingleProofs!Requests(p, q, r, s)
      OBVIOUS
    <2>1. CASE p = 0
      BY <1>3, <1>4, <1>5, <2>1, SMT DEF Single!Requests, SingleProofs!Requests
    <2>2. CASE p = 1
      BY <1>3, <1>4, <1>5, <2>2, SMT DEF Single!Requests, SingleProofs!Requests
    <2>3. CASE p # 0 /\ p # 1
      BY <1>3, <1>4, <1>5, <2>3, SMT DEF Single!Requests, SingleProofs!Requests
    <2>. QED BY <2>1, <2>2, <2>3
  <1>7. \A p : Single!findIndex(p) = SingleProofs!findIndex(p)
    BY Zenon DEF
      Single!findIndex, Single!scannedIndex, Single!Min, Single!Index, Single!Range,
      Single!FirstAt, Single!Rows, Single!Max, SingleProofs!findIndex,
      SingleProofs!scannedIndex, SingleProofs!Min, SingleProofs!Index,
      SingleProofs!Range, SingleProofs!FirstAt, SingleProofs!Rows, SingleProofs!Max
  <1>8. \A p, q, r : Single!replacedPointers(p, q, r) = SingleProofs!replacedPointers(p, q, r)
    BY Zenon DEF
      Single!replacedPointers, Single!Rows, Single!Range,
      SingleProofs!replacedPointers, SingleProofs!Rows, SingleProofs!Range
  <1>9. Single!Cases = SingleProofs!Cases
    BY Zenon DEF
      Single!Cases, SingleProofs!Cases
  <1>. QED
    BY <1>1, <1>2, <1>3, <1>4, <1>5, <1>6, <1>7, <1>8, <1>9

\* Their actions.
LEMMA SameSingleSteps == Single!Next <=> SingleProofs!Next
  <1>1. \A r, i : Single!QueryFails(r, i) <=> SingleProofs!QueryFails(r, i)
    BY SameSingleOperators, Zenon DEF
      Single!QueryFails, Single!Idle, Single!findIndex, Single!scannedIndex,
      Single!Min, Single!Index, Single!Range, Single!FirstAt, Single!Rows, Single!Max,
      SingleProofs!QueryFails, SingleProofs!Idle, SingleProofs!findIndex,
      SingleProofs!scannedIndex, SingleProofs!Min, SingleProofs!Index,
      SingleProofs!Range, SingleProofs!FirstAt, SingleProofs!Rows, SingleProofs!Max
  <1>2. \A r, i : Single!Query(r, i) <=> SingleProofs!Query(r, i)
    BY SameSingleOperators, SMT DEF
      Single!Query, Single!Idle, Single!Range, SingleProofs!Query, SingleProofs!Idle,
      SingleProofs!Range
  <1>3. \A r : Single!reconstruct(r) <=> SingleProofs!reconstruct(r)
    BY ZenonT(60) DEF
      Single!reconstruct, Single!Answer, Single!Parity, Single!Range,
      Single!Cardinality, Single!IsFiniteSet, Single!Xor, Single!renewedHint,
      Single!Overtakes, Single!Renewing, SingleProofs!reconstruct,
      SingleProofs!Answer, SingleProofs!Parity, SingleProofs!Range,
      SingleProofs!Cardinality, SingleProofs!IsFiniteSet, SingleProofs!Xor,
      SingleProofs!renewedHint, SingleProofs!Overtakes, SingleProofs!Renewing
  <1>4. \A r : Single!AnswerFails(r) <=> SingleProofs!AnswerFails(r)
    BY SameSingleOperators, Zenon DEF
      Single!AnswerFails, Single!Idle, SingleProofs!AnswerFails, SingleProofs!Idle
  <1>5. \A r : Single!Return(r) <=> SingleProofs!Return(r)
    BY SameSingleOperators, Zenon DEF
      Single!Return, Single!Idle, SingleProofs!Return, SingleProofs!Idle
  <1>. QED
    BY <1>1, <1>2, <1>3, <1>4, <1>5 DEF Single!Next, SingleProofs!Next

LEMMA SameSingle ==
  /\ Single!Init <=> SingleProofs!Init
  /\ Single!Next <=> SingleProofs!Next
  /\ UNCHANGED Single!vars <=> UNCHANGED SingleProofs!vars
  /\ Single!PuncAssumption <=> SingleProofs!PuncAssumption
  /\ Single!PointersRight <=> SingleProofs!PointersRight
  /\ Single!ReadsRight <=> SingleProofs!ReadsRight
  /\ Single!SpinsOnOneElement <=> SingleProofs!SpinsOnOneElement
  <1>1. Single!Init <=> SingleProofs!Init
    BY SameSingleOperators, Zenon DEF
      Single!Init, Single!Index, Single!Parity, Single!Range, Single!Cardinality,
      Single!IsFiniteSet, Single!Rows, Single!Max, Single!Idle, SingleProofs!Init,
      SingleProofs!Index, SingleProofs!Parity, SingleProofs!Range,
      SingleProofs!Cardinality, SingleProofs!IsFiniteSet, SingleProofs!Rows,
      SingleProofs!Max, SingleProofs!Idle
  <1>2. Single!Next <=> SingleProofs!Next
    BY SameSingleSteps
  <1>3. UNCHANGED Single!vars <=> UNCHANGED SingleProofs!vars
    BY Zenon DEF
      Single!vars, SingleProofs!vars
  <1>4. Single!PuncAssumption <=> SingleProofs!PuncAssumption
    BY Zenon DEF
      Single!PuncAssumption, SingleProofs!PuncAssumption
  <1>5. Single!PointersRight <=> SingleProofs!PointersRight
    BY Zenon DEF
      Single!PointersRight, Single!Rows, Single!Index, Single!Range,
      SingleProofs!PointersRight, SingleProofs!Rows, SingleProofs!Index,
      SingleProofs!Range
  <1>6. Single!ReadsRight <=> SingleProofs!ReadsRight
    BY Zenon DEF
      Single!ReadsRight, Single!HintsFollow, Single!Index, Single!Parity,
      Single!Range, Single!Cardinality, Single!IsFiniteSet, Single!Renewing,
      Single!Overtakes, Single!WrongOnlyIfLost, SingleProofs!ReadsRight,
      SingleProofs!HintsFollow, SingleProofs!Index, SingleProofs!Parity,
      SingleProofs!Range, SingleProofs!Cardinality, SingleProofs!IsFiniteSet,
      SingleProofs!Renewing, SingleProofs!Overtakes, SingleProofs!WrongOnlyIfLost
  <1>7. Single!SpinsOnOneElement <=> SingleProofs!SpinsOnOneElement
    BY Zenon DEF
      Single!SpinsOnOneElement, Single!Cardinality, Single!IsFiniteSet, Single!Range,
      SingleProofs!SpinsOnOneElement, SingleProofs!Cardinality,
      SingleProofs!IsFiniteSet, SingleProofs!Range
  <1>. QED
    BY <1>1, <1>2, <1>3, <1>4, <1>5, <1>6, <1>7

-----------------------------------------------------------------------------
(***************************************************************************)
(* The RPC client: v1 to v6 are pc, reqMutex, pending, input, shut and     *)
(* calls of HttpPostCodec.                                                 *)
(***************************************************************************)

CodecTypes ==
  /\ v1 \in [RpcCallers -> {"idle", "lock", "post", "hand", "wait", "done", "failed"}]
  /\ v2 \in RpcCallers \cup {"nobody"}
  /\ v3 \in SUBSET RpcCallers
  /\ v4 \in [at : {"receive", "header", "body", "ended", "done"}, of : RpcCallers \cup {"nobody"}]
  /\ v5 \in [shutdown : BOOLEAN, closing : BOOLEAN]

\* Who has the lock; whose response the goroutine has; who is pending.
LockInv == \A c \in RpcCallers : v2 = c <=> v1[c] \in {"post", "hand"}

InputInv ==
  /\ v4.at \in {"header", "body"} <=> v4.of # "nobody"
  /\ \A c \in RpcCallers : v4.of = c => v1[c] = "wait"

PendingInv ==
  \A c \in RpcCallers :
    c \in v3 <=> v1[c] \in {"post", "hand"} \/ (v1[c] = "wait" /\ ~(v4.at = "body" /\ v4.of = c))

\* Whoever waits does so for the goroutine, and nobody does once it is done.
WaitInv ==
  /\ \A c \in RpcCallers : v1[c] = "wait" => v4.of = c \/ v4.at = "ended"
  /\ v4.at = "done" => v5.shutdown /\ \A c \in RpcCallers : v1[c] \notin {"post", "hand", "wait"}

CodecInv == CodecTypes /\ LockInv /\ InputInv /\ PendingInv /\ WaitInv

LEMMA NobodyCalls == "nobody" \notin RpcCallers
  BY ClientsAssumption DEF Rpc!CodecAssumption

LEMMA CodecInit == Rpc!Init => CodecInv
  BY ClientsAssumption DEF Rpc!Init, Rpc!Receiving, Rpc!CodecAssumption, CodecInv, CodecTypes,
     LockInv, InputInv, PendingInv, WaitInv

LEMMA sendKeeps ==
  ASSUME CodecInv, NEW c \in RpcCallers, Rpc!send(c)
  PROVE  CodecInv'
  <1>1. "nobody" \notin RpcCallers
    BY NobodyCalls
  <1>2. CodecTypes'
    BY <1>1 DEF CodecInv, CodecTypes, LockInv, InputInv, PendingInv, WaitInv, Rpc!send
  <1>3. LockInv'
    BY <1>1 DEF CodecInv, CodecTypes, LockInv, InputInv, PendingInv, WaitInv, Rpc!send
  <1>4. InputInv'
    BY <1>1 DEF CodecInv, CodecTypes, LockInv, InputInv, PendingInv, WaitInv, Rpc!send
  <1>5. PendingInv'
    BY <1>1 DEF CodecInv, CodecTypes, LockInv, InputInv, PendingInv, WaitInv, Rpc!send
  <1>6. WaitInv'
    BY <1>1 DEF CodecInv, CodecTypes, LockInv, InputInv, PendingInv, WaitInv, Rpc!send
  <1>. QED BY <1>2, <1>3, <1>4, <1>5, <1>6 DEF CodecInv

LEMMA PostFailsKeeps ==
  ASSUME CodecInv, NEW c \in RpcCallers, Rpc!PostFails(c)
  PROVE  CodecInv'
  <1>1. "nobody" \notin RpcCallers
    BY NobodyCalls
  <1>2. CodecTypes'
    BY <1>1 DEF CodecInv, CodecTypes, LockInv, InputInv, PendingInv, WaitInv, Rpc!PostFails
  <1>3. LockInv'
    BY <1>1 DEF CodecInv, CodecTypes, LockInv, InputInv, PendingInv, WaitInv, Rpc!PostFails
  <1>4. InputInv'
    BY <1>1 DEF CodecInv, CodecTypes, LockInv, InputInv, PendingInv, WaitInv, Rpc!PostFails
  <1>5. PendingInv'
    BY <1>1 DEF CodecInv, CodecTypes, LockInv, InputInv, PendingInv, WaitInv, Rpc!PostFails
  <1>6. WaitInv'
    BY <1>1 DEF CodecInv, CodecTypes, LockInv, InputInv, PendingInv, WaitInv, Rpc!PostFails
  <1>. QED BY <1>2, <1>3, <1>4, <1>5, <1>6 DEF CodecInv

LEMMA PostKeeps ==
  ASSUME CodecInv, NEW c \in RpcCallers, Rpc!Post(c)
  PROVE  CodecInv'
  <1>1. "nobody" \notin RpcCallers
    BY NobodyCalls
  <1>2. CodecTypes'
    BY <1>1 DEF CodecInv, CodecTypes, LockInv, InputInv, PendingInv, WaitInv, Rpc!Post
  <1>3. LockInv'
    BY <1>1 DEF CodecInv, CodecTypes, LockInv, InputInv, PendingInv, WaitInv, Rpc!Post
  <1>4. InputInv'
    BY <1>1 DEF CodecInv, CodecTypes, LockInv, InputInv, PendingInv, WaitInv, Rpc!Post
  <1>5. PendingInv'
    BY <1>1 DEF CodecInv, CodecTypes, LockInv, InputInv, PendingInv, WaitInv, Rpc!Post
  <1>6. WaitInv'
    BY <1>1 DEF CodecInv, CodecTypes, LockInv, InputInv, PendingInv, WaitInv, Rpc!Post
  <1>. QED BY <1>2, <1>3, <1>4, <1>5, <1>6 DEF CodecInv

LEMMA HandOverKeeps ==
  ASSUME CodecInv, NEW c \in RpcCallers, Rpc!HandOver(c)
  PROVE  CodecInv'
  <1>1. "nobody" \notin RpcCallers
    BY NobodyCalls
  <1>2. CodecTypes'
    BY <1>1 DEF CodecInv, CodecTypes, LockInv, InputInv, PendingInv, WaitInv, Rpc!HandOver,
       Rpc!Receiving
  <1>3. LockInv'
    BY <1>1 DEF CodecInv, CodecTypes, LockInv, InputInv, PendingInv, WaitInv, Rpc!HandOver,
       Rpc!Receiving
  <1>4. InputInv'
    BY <1>1 DEF CodecInv, CodecTypes, LockInv, InputInv, PendingInv, WaitInv, Rpc!HandOver,
       Rpc!Receiving
  <1>5. PendingInv'
    BY <1>1 DEF CodecInv, CodecTypes, LockInv, InputInv, PendingInv, WaitInv, Rpc!HandOver,
       Rpc!Receiving
  <1>6. WaitInv'
    BY <1>1 DEF CodecInv, CodecTypes, LockInv, InputInv, PendingInv, WaitInv, Rpc!HandOver,
       Rpc!Receiving
  <1>. QED BY <1>2, <1>3, <1>4, <1>5, <1>6 DEF CodecInv

LEMMA ReturnKeeps ==
  ASSUME CodecInv, NEW c \in RpcCallers, Rpc!Return(c)
  PROVE  CodecInv'
  <1>1. "nobody" \notin RpcCallers
    BY NobodyCalls
  <1>2. CodecTypes'
    BY <1>1 DEF CodecInv, CodecTypes, LockInv, InputInv, PendingInv, WaitInv, Rpc!Return
  <1>3. LockInv'
    BY <1>1 DEF CodecInv, CodecTypes, LockInv, InputInv, PendingInv, WaitInv, Rpc!Return
  <1>4. InputInv'
    BY <1>1 DEF CodecInv, CodecTypes, LockInv, InputInv, PendingInv, WaitInv, Rpc!Return
  <1>5. PendingInv'
    BY <1>1 DEF CodecInv, CodecTypes, LockInv, InputInv, PendingInv, WaitInv, Rpc!Return
  <1>6. WaitInv'
    BY <1>1 DEF CodecInv, CodecTypes, LockInv, InputInv, PendingInv, WaitInv, Rpc!Return
  <1>. QED BY <1>2, <1>3, <1>4, <1>5, <1>6 DEF CodecInv

LEMMA CallKeeps ==
  ASSUME CodecInv, NEW c \in RpcCallers, Rpc!Call(c)
  PROVE  CodecInv'
  <1>1. "nobody" \notin RpcCallers
    BY NobodyCalls
  <1>2. CodecTypes'
    BY <1>1 DEF CodecInv, CodecTypes, LockInv, InputInv, PendingInv, WaitInv, Rpc!Call
  <1>3. LockInv'
    BY <1>1 DEF CodecInv, CodecTypes, LockInv, InputInv, PendingInv, WaitInv, Rpc!Call
  <1>4. InputInv'
    BY <1>1 DEF CodecInv, CodecTypes, LockInv, InputInv, PendingInv, WaitInv, Rpc!Call
  <1>5. PendingInv'
    BY <1>1 DEF CodecInv, CodecTypes, LockInv, InputInv, PendingInv, WaitInv, Rpc!Call
  <1>6. WaitInv'
    BY <1>1 DEF CodecInv, CodecTypes, LockInv, InputInv, PendingInv, WaitInv, Rpc!Call
  <1>. QED BY <1>2, <1>3, <1>4, <1>5, <1>6 DEF CodecInv

LEMMA ReadResponseHeaderKeeps ==
  ASSUME CodecInv, Rpc!ReadResponseHeader
  PROVE  CodecInv'
  <1>1. "nobody" \notin RpcCallers
    BY NobodyCalls
  <1>2. CodecTypes'
    BY <1>1 DEF CodecInv, CodecTypes, LockInv, InputInv, PendingInv, WaitInv,
       Rpc!ReadResponseHeader, Rpc!Stop
  <1>3. LockInv'
    BY <1>1 DEF CodecInv, CodecTypes, LockInv, InputInv, PendingInv, WaitInv,
       Rpc!ReadResponseHeader, Rpc!Stop
  <1>4. InputInv'
    BY <1>1 DEF CodecInv, CodecTypes, LockInv, InputInv, PendingInv, WaitInv,
       Rpc!ReadResponseHeader, Rpc!Stop
  <1>5. PendingInv'
    BY <1>1 DEF CodecInv, CodecTypes, LockInv, InputInv, PendingInv, WaitInv,
       Rpc!ReadResponseHeader, Rpc!Stop
  <1>6. WaitInv'
    BY <1>1 DEF CodecInv, CodecTypes, LockInv, InputInv, PendingInv, WaitInv,
       Rpc!ReadResponseHeader, Rpc!Stop
  <1>. QED BY <1>2, <1>3, <1>4, <1>5, <1>6 DEF CodecInv

LEMMA ReadResponseBodyKeeps ==
  ASSUME CodecInv, Rpc!ReadResponseBody
  PROVE  CodecInv'
  <1>1. "nobody" \notin RpcCallers
    BY NobodyCalls
  <1>2. CodecTypes'
    BY <1>1 DEF CodecInv, CodecTypes, LockInv, InputInv, PendingInv, WaitInv,
       Rpc!ReadResponseBody, Rpc!Stop, Rpc!Receiving
  <1>3. LockInv'
    BY <1>1 DEF CodecInv, CodecTypes, LockInv, InputInv, PendingInv, WaitInv,
       Rpc!ReadResponseBody, Rpc!Stop, Rpc!Receiving
  <1>4. InputInv'
    BY <1>1 DEF CodecInv, CodecTypes, LockInv, InputInv, PendingInv, WaitInv,
       Rpc!ReadResponseBody, Rpc!Stop, Rpc!Receiving
  <1>5. PendingInv'
    BY <1>1 DEF CodecInv, CodecTypes, LockInv, InputInv, PendingInv, WaitInv,
       Rpc!ReadResponseBody, Rpc!Stop, Rpc!Receiving
  <1>6. WaitInv'
    BY <1>1 DEF CodecInv, CodecTypes, LockInv, InputInv, PendingInv, WaitInv,
       Rpc!ReadResponseBody, Rpc!Stop, Rpc!Receiving
  <1>. QED BY <1>2, <1>3, <1>4, <1>5, <1>6 DEF CodecInv

LEMMA FailPendingKeeps ==
  ASSUME CodecInv, Rpc!FailPending
  PROVE  CodecInv'
  <1>1. "nobody" \notin RpcCallers
    BY NobodyCalls
  <1>2. CodecTypes'
    BY <1>1 DEF CodecInv, CodecTypes, LockInv, InputInv, PendingInv, WaitInv, Rpc!FailPending
  <1>3. LockInv'
    BY <1>1 DEF CodecInv, CodecTypes, LockInv, InputInv, PendingInv, WaitInv, Rpc!FailPending
  <1>4. InputInv'
    BY <1>1 DEF CodecInv, CodecTypes, LockInv, InputInv, PendingInv, WaitInv, Rpc!FailPending
  <1>5. PendingInv'
    BY <1>1 DEF CodecInv, CodecTypes, LockInv, InputInv, PendingInv, WaitInv, Rpc!FailPending
  <1>6. WaitInv'
    BY <1>1 DEF CodecInv, CodecTypes, LockInv, InputInv, PendingInv, WaitInv, Rpc!FailPending
  <1>. QED BY <1>2, <1>3, <1>4, <1>5, <1>6 DEF CodecInv

LEMMA CloseKeeps ==
  ASSUME CodecInv, Rpc!Close
  PROVE  CodecInv'
  <1>1. "nobody" \notin RpcCallers
    BY NobodyCalls
  <1>2. CodecTypes'
    BY <1>1 DEF CodecInv, CodecTypes, LockInv, InputInv, PendingInv, WaitInv, Rpc!Close
  <1>3. LockInv'
    BY <1>1 DEF CodecInv, CodecTypes, LockInv, InputInv, PendingInv, WaitInv, Rpc!Close
  <1>4. InputInv'
    BY <1>1 DEF CodecInv, CodecTypes, LockInv, InputInv, PendingInv, WaitInv, Rpc!Close
  <1>5. PendingInv'
    BY <1>1 DEF CodecInv, CodecTypes, LockInv, InputInv, PendingInv, WaitInv, Rpc!Close
  <1>6. WaitInv'
    BY <1>1 DEF CodecInv, CodecTypes, LockInv, InputInv, PendingInv, WaitInv, Rpc!Close
  <1>. QED BY <1>2, <1>3, <1>4, <1>5, <1>6 DEF CodecInv

LEMMA CodecStutters ==
  ASSUME CodecInv, UNCHANGED Rpc!vars
  PROVE  CodecInv'
  BY DEF CodecInv, CodecTypes, LockInv, InputInv, PendingInv, WaitInv, Rpc!vars

\* CodecInv is inductive.
LEMMA CodecStays ==
  ASSUME CodecInv, Rpc!Next
  PROVE  CodecInv'
  <1>1. CASE \E c \in RpcCallers :
               Rpc!send(c) \/ Rpc!PostFails(c) \/ Rpc!Post(c) \/ Rpc!HandOver(c) \/ Rpc!Return(c)
    BY <1>1, sendKeeps, PostFailsKeeps, PostKeeps, HandOverKeeps, ReturnKeeps
  <1>2. CASE \E c \in RpcCallers : Rpc!Call(c)
    BY <1>2, CallKeeps
  <1>3. CASE Rpc!ReadResponseHeader \/ Rpc!ReadResponseBody \/ Rpc!FailPending \/ Rpc!Close
    BY <1>3, ReadResponseHeaderKeeps, ReadResponseBodyKeeps, FailPendingKeeps, CloseKeeps
  <1>. QED BY <1>1, <1>2, <1>3 DEF Rpc!Next, Rpc!Steps

LEMMA NobodyForgotten == CodecInv => Rpc!NoCallForgotten
  BY DEF CodecInv, CodecTypes, InputInv, PendingInv, Rpc!NoCallForgotten

\* Who waits does so for the goroutine; it waits for the lock only if a caller has it, and
\* that caller posts or is stuck.
LEMMA SomeoneGoes == CodecInv => Rpc!SomeoneCanGo
  <1> SUFFICES ASSUME CodecInv, NEW c \in RpcCallers, v1[c] # "idle", ~Rpc!Stuck
               PROVE  Rpc!SomeoneCanGo
    BY DEF Rpc!SomeoneCanGo
  <1>1. ASSUME NEW d \in RpcCallers, v2 = d PROVE Rpc!SomeoneCanGo
    <2>1. v1[d] \in {"post", "hand"}
      BY <1>1 DEF CodecInv, LockInv
    <2>2. CASE v1[d] = "post"
      BY <2>2 DEF Rpc!SomeoneCanGo
    <2>3. CASE v1[d] = "hand"
      <3>1. v4.at # "done" /\ v4.at # "ended"
        BY <1>1, <2>3 DEF CodecInv, WaitInv, Rpc!Stuck
      <3>2. v4.at = "receive" => v4 = Rpc!Receiving
        BY DEF CodecInv, CodecTypes, InputInv, Rpc!Receiving
      <3>. QED BY <2>3, <3>1, <3>2 DEF Rpc!SomeoneCanGo, CodecInv, CodecTypes
    <2>. QED BY <2>1, <2>2, <2>3
  <1>2. CASE v2 = "nobody"
    <2>1. v1[c] \notin {"post", "hand"}
      <3>1. v2 # c
        BY <1>2, NobodyCalls
      <3>. QED BY <3>1 DEF CodecInv, LockInv
    <2>2. CASE v1[c] = "wait"
      <3>1. v4.of = c \/ v4.at = "ended"
        BY <2>2 DEF CodecInv, WaitInv
      <3>2. v4.of = c => v4.at \in {"header", "body"}
        BY NobodyCalls DEF CodecInv, InputInv
      <3>. QED BY <1>2, <3>1, <3>2 DEF Rpc!SomeoneCanGo
    <2>3. v1[c] \in {"lock", "post", "hand", "wait", "done", "failed"}
      BY DEF CodecInv, CodecTypes
    <2>. QED BY <1>2, <2>1, <2>2, <2>3 DEF Rpc!SomeoneCanGo
  <1>. QED BY <1>1, <1>2 DEF CodecInv, CodecTypes

\* The goroutine has ended and its lock is held by a caller whom nobody takes a body from.
LEMMA StuckStays ==
  ASSUME CodecInv, Rpc!Stuck, Rpc!Next \/ UNCHANGED Rpc!vars
  PROVE  Rpc!Stuck'
  <1>1. PICK c \in RpcCallers : v2 = c /\ v1[c] = "hand" /\ v4.at = "ended"
    BY DEF Rpc!Stuck
  <1>2. "nobody" \notin RpcCallers
    BY NobodyCalls
  <1>3. v2' = v2 /\ v4' = v4 /\ v1'[c] = v1[c]
    <2>1. CASE UNCHANGED Rpc!vars
      BY <2>1 DEF Rpc!vars
    <2>2. ASSUME NEW d \in RpcCallers,
                 Rpc!send(d) \/ Rpc!PostFails(d) \/ Rpc!Post(d) \/ Rpc!HandOver(d) \/ Rpc!Return(d)
                   \/ Rpc!Call(d)
          PROVE  v2' = v2 /\ v4' = v4 /\ v1'[c] = v1[c]
      BY <1>1, <1>2, <2>2 DEF CodecInv, CodecTypes, LockInv, Rpc!send, Rpc!PostFails, Rpc!Post,
         Rpc!HandOver, Rpc!Return, Rpc!Call, Rpc!Receiving
    <2>3. CASE Rpc!ReadResponseHeader \/ Rpc!ReadResponseBody \/ Rpc!FailPending \/ Rpc!Close
      BY <1>1, <1>2, <2>3 DEF Rpc!ReadResponseHeader, Rpc!ReadResponseBody, Rpc!FailPending,
         Rpc!Close
    <2>. QED BY <2>1, <2>2, <2>3 DEF Rpc!Next, Rpc!Steps
  <1>. QED BY <1>1, <1>3 DEF Rpc!Stuck

-----------------------------------------------------------------------------
(***************************************************************************)
(* The clients as components of Clients.                                   *)
(***************************************************************************)

OtherInv  == unit = "other" => OtherProofs!IInv /\ OtherProofs!SpinsOnOneElement
SingleInv == unit = "single" => SingleProofs!IInv /\ SingleProofs!SpinsOnOneElement
RpcInv    == unit = "rpc" => CodecInv

LEMMA StepOf ==
  ASSUME [ClientsNext]_allVars
  PROVE  /\ unit' = unit
         /\ unit = "other" => Other!Next \/ UNCHANGED Other!vars
         /\ unit = "single" => Single!Next \/ UNCHANGED Single!vars
         /\ unit = "rpc" => Rpc!Next \/ UNCHANGED Rpc!vars
  BY DEF ClientsNext, allVars, others, Other!vars, Single!vars, Rpc!vars

LEMMA OtherStays == OtherInv /\ [ClientsNext]_allVars => OtherInv'
  <1>1. OtherProofs!PuncAssumption
    BY ClientsAssumption, SameOther
  <1> SUFFICES ASSUME OtherInv, [ClientsNext]_allVars, unit = "other" PROVE OtherInv'
    BY StepOf DEF OtherInv
  <1>2. OtherProofs!Next \/ UNCHANGED OtherProofs!vars
    BY StepOf, SameOther
  <1>3. OtherProofs!IInv'
    BY <1>1, <1>2, OtherProofs!StepKeeps, OtherProofs!StutterKeeps DEF OtherInv
  <1>4. OtherProofs!SpinsOnOneElement'
    BY <1>1, <1>2, OtherProofs!SpinsKept DEF OtherInv
  <1>. QED BY <1>3, <1>4 DEF OtherInv

LEMMA SingleStays == SingleInv /\ [ClientsNext]_allVars => SingleInv'
  <1>1. SingleProofs!PuncAssumption
    BY ClientsAssumption, SameSingle
  <1> SUFFICES ASSUME SingleInv, [ClientsNext]_allVars, unit = "single" PROVE SingleInv'
    BY StepOf DEF SingleInv
  <1>2. SingleProofs!Next \/ UNCHANGED SingleProofs!vars
    BY StepOf, SameSingle
  <1>3. SingleProofs!IInv'
    BY <1>1, <1>2, SingleProofs!StepKeeps, SingleProofs!StutterKeeps DEF SingleInv
  <1>4. SingleProofs!SpinsOnOneElement'
    BY <1>1, <1>2, SingleProofs!SpinsKept DEF SingleInv
  <1>. QED BY <1>3, <1>4 DEF SingleInv

LEMMA RpcStays == RpcInv /\ [ClientsNext]_allVars => RpcInv'
  BY StepOf, CodecStays, CodecStutters DEF RpcInv

\* The Punc client is right with sets of any size, sets of one element among them: its
\* pointers, hints, reads and draws, through all that overlapping queries may do.
THEOREM OtherSizesRightAlways == ClientsSpec => []OtherSizesRight
  <1>1. ClientsInit => OtherInv /\ SingleInv
    <2>1. OtherProofs!PuncAssumption /\ SingleProofs!PuncAssumption
      BY ClientsAssumption, SameOther, SameSingle
    <2>2. ClientsInit /\ unit = "other" => OtherProofs!Init
      BY SameOther DEF ClientsInit
    <2>3. ClientsInit /\ unit = "single" => SingleProofs!Init
      BY SameSingle DEF ClientsInit
    <2>. QED BY <2>1, <2>2, <2>3, OtherProofs!InitInv, OtherProofs!SpinsInit,
                SingleProofs!InitInv, SingleProofs!SpinsInit DEF OtherInv, SingleInv
  <1>2. OtherInv /\ SingleInv => OtherSizesRight
    <2>1. OtherInv /\ unit = "other" => OtherProofs!PointersRight /\ OtherProofs!ReadsRight
      BY OtherProofs!PointersLead, OtherProofs!HintsAreOfOldest DEF OtherInv
    <2>2. SingleInv /\ unit = "single" => SingleProofs!PointersRight /\ SingleProofs!ReadsRight
      BY SingleProofs!PointersLead, SingleProofs!HintsAreOfOldest DEF SingleInv
    <2>. QED BY <2>1, <2>2, SameOther, SameSingle DEF OtherInv, SingleInv, OtherSizesRight
  <1>. QED BY <1>1, <1>2, OtherStays, SingleStays, PTL DEF ClientsSpec

\* However many goroutines call and wherever posts and responses fail: no RPC call is
\* forgotten, callers and the goroutine that reads responses wait for each other in
\* one state only, and that state is for ever.
THEOREM RpcSafeAlways == ClientsSpec => RpcSafe
  <1>1. ClientsInit => RpcInv
    BY CodecInit DEF ClientsInit, RpcInv
  <1>2. RpcInv => (unit = "rpc" => Rpc!NoCallForgotten /\ Rpc!SomeoneCanGo)
    BY NobodyForgotten, SomeoneGoes DEF RpcInv
  <1>3. RpcInv /\ [ClientsNext]_allVars => [unit = "rpc" /\ Rpc!Stuck => Rpc!Stuck']_allVars
    BY StepOf, StuckStays DEF RpcInv
  <1>. QED BY <1>1, <1>2, <1>3, RpcStays, PTL DEF ClientsSpec, RpcSafe
=============================================================================
