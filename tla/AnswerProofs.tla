----------------------------- MODULE AnswerProofs -----------------------------
(***************************************************************************)
(* Proofs about hint requests (module SinglePassAnswer), for every number  *)
(* of threads, rows and blocks and every width of a draw: what the         *)
(* requests make of the random bytes, their own or another thread's.       *)
(***************************************************************************)
EXTENDS SinglePassAnswer, CommonLemmas

-----------------------------------------------------------------------------
Array == [Cells -> Cells]

IsPermutation(p) ==
  /\ p \in Array
  /\ Bijective(p)
  /\ \A x, y \in Cells : p[x] = p[y] => x = y

Request ==
  [pc: {"permute", "draw", "swap", "invert", "xor", "done"}, blk: 0..SetSize, i: Int, js: Seq(Int),
   perm: [Blocks -> Array], inv: [Blocks -> Array], par: [Cells -> SUBSET Int]]

Inverts(q, p) == \A c \in Cells : q[p[c]] = c

\* Rows whose sum is parity c after the first n blocks.
RowsAt(perm, n, c) == {b * perm_size + perm[b][c] : b \in 0..n - 1}

RequestInv(s) ==
  /\ s \in Request
  /\ \A b \in Blocks : IsPermutation(s.perm[b])
  /\ s.pc \in {"draw", "swap"} => s.i \in 1..perm_size - 1
  /\ s.pc = "done" <=> s.blk = SetSize
  /\ \A b \in Blocks : b < s.blk => Inverts(s.inv[b], s.perm[b])
  /\ s.pc = "xor" => Inverts(s.inv[s.blk], s.perm[s.blk])
  /\ \A c \in Cells : s.par[c] = RowsAt(s.perm, s.blk, c)

AnswerInv ==
  /\ buf \in Draws
  /\ th = [t \in Threads |-> th[t]]
  /\ \A t \in Threads : RequestInv(th[t])

-----------------------------------------------------------------------------
\* Blocks are not empty.
LEMMA PermSize ==
  ASSUME AnswerAssumption
  PROVE  /\ perm_size \in Nat /\ perm_size > 0
         /\ SetSize \in Nat /\ SetSize > 0
         /\ DrawValues \in Nat /\ DrawValues > 0
         /\ perm_size <= DrawValues
  <1>. DEFINE q == NumRows \div SetSize
  <1>1. /\ NumRows \in Nat /\ SetSize \in Nat /\ SetSize > 0 /\ NumRows >= SetSize
        /\ DrawValues \in Nat /\ DrawValues > 0 /\ q <= DrawValues
    BY DEF AnswerAssumption
  <1>2. q \in Int /\ NumRows % SetSize \in 0..SetSize - 1 /\ NumRows = SetSize * q + (NumRows % SetSize)
    BY <1>1, DivMod
  <1>3. q > 0
    <2>. HIDE DEF q
    <2>1. q < 1 => q * SetSize + SetSize <= 1 * SetSize
      BY <1>1, <1>2, BlocksApart
    <2>2. q * SetSize = SetSize * q /\ SetSize * q \in Int
      BY <1>1, <1>2
    <2>. QED
      BY <1>1, <1>2, <2>1, <2>2
  <1>. QED
    BY <1>1, <1>2, <1>3 DEF perm_size

\* A draw is reduced below its bound.
LEMMA FastModBelow ==
  ASSUME AnswerAssumption, NEW x \in Draws, NEW N \in Nat, N > 0
  PROVE  fastMod(x, N) \in 0..N - 1
  <1>. DEFINE W == DrawValues
              q == (x * N) \div W
  <1>1. W \in Nat /\ W > 0 /\ x \in 0..W - 1
    BY PermSize DEF Draws
  <1>. HIDE DEF W
  <1>2. x * N \in Int /\ x * N >= 0 /\ N * W \in Int
    BY <1>1
  <1>3. q \in Int /\ (x * N) % W \in 0..W - 1 /\ x * N = W * q + ((x * N) % W)
    BY <1>1, <1>2, DivMod
  <1>4. x * N < N * W
    <2>1. x * N + N <= W * N
      BY <1>1, BlocksApart
    <2>. QED BY <2>1, <1>1, <1>2
  <1>. HIDE DEF q
  <1>5. W * q = q * W /\ q * W \in Int
    BY <1>1, <1>3
  <1>6. ~(q < 0)
    <2>1. q < 0 => q * W + W <= 0 * W
      BY <1>1, <1>3, BlocksApart
    <2>. QED BY <2>1, <1>1, <1>2, <1>3, <1>5
  <1>7. ~(N < q)
    <2>1. N < q => N * W + W <= q * W
      BY <1>1, <1>3, BlocksApart
    <2>. QED BY <2>1, <1>1, <1>2, <1>3, <1>4, <1>5
  <1>8. q # N
    BY <1>1, <1>2, <1>3, <1>4, <1>5
  <1>. QED
    BY <1>3, <1>6, <1>7, <1>8 DEF fastMod, q, W

\* Two cells exchanged leave a permutation one.
LEMMA SwapKeeps ==
  ASSUME NEW p, IsPermutation(p), NEW x \in Cells, NEW y \in Cells
  PROVE  IsPermutation(Swapped(p, x, y))
  <1>. DEFINE r == Swapped(p, x, y)
  <1>1. p \in Array /\ p = [c \in Cells |-> p[c]] /\ \A c \in Cells : p[c] \in Cells
    BY DEF IsPermutation, Array
  <1>2. r = [c \in Cells |-> IF c = y THEN p[x] ELSE IF c = x THEN p[y] ELSE p[c]]
    BY <1>1 DEF Swapped
  <1>. HIDE DEF r
  <1>3. r \in Array
    BY <1>1, <1>2 DEF Array
  <1>4. \A c \in Cells : r[c] = IF c = y THEN p[x] ELSE IF c = x THEN p[y] ELSE p[c]
    BY <1>2
  <1>5. Bijective(r)
    <2>1. \A v \in Cells : \E c \in Cells : p[c] = v
      BY DEF IsPermutation, Bijective
    <2>2. ASSUME NEW v \in Cells PROVE \E c \in Cells : r[c] = v
      <3>1. PICK c \in Cells : p[c] = v
        BY <2>1
      <3>2. CASE c = x
        BY <3>1, <3>2, <1>4
      <3>3. CASE c = y
        BY <3>1, <3>3, <1>4
      <3>4. CASE c # x /\ c # y
        BY <3>1, <3>4, <1>4
      <3>. QED BY <3>2, <3>3, <3>4
    <2>3. \A c \in Cells : r[c] \in Cells
      BY <1>3 DEF Array
    <2>. QED BY <2>2, <2>3 DEF Bijective
  <1>6. ASSUME NEW a \in Cells, NEW b \in Cells, r[a] = r[b] PROVE a = b
    <2>1. \A u, v \in Cells : p[u] = p[v] => u = v
      BY DEF IsPermutation
    <2>. QED BY <2>1, <1>4, <1>6
  <1>. QED
    BY <1>3, <1>5, <1>6 DEF IsPermutation, r

LEMMA IdentityIs == IsPermutation(Identity)
  BY DEF IsPermutation, Identity, Array, Bijective

-----------------------------------------------------------------------------
\* Only request t goes on.
Moves(t) ==
  /\ th' = [x \in Threads |-> th'[x]]
  /\ \A x \in Threads \ {t} : th'[x] = th[x]

LEMMA OneRequest ==
  ASSUME AnswerInv, NEW t \in Threads, Moves(t), RequestInv(th'[t]), buf' \in Draws
  PROVE  AnswerInv'
  <1>1. ASSUME NEW x \in Threads PROVE RequestInv(th'[x])
    BY DEF Moves, AnswerInv
  <1>2. buf' \in Draws'
    BY DEF Draws
  <1>. QED
    BY <1>1, <1>2, Zenon DEF AnswerInv, Moves

\* The array of the block in work changes, and what was answered before stays.
LEMMA ArrayChanges ==
  ASSUME AnswerAssumption, NEW s, RequestInv(s), NEW r \in Request, NEW p, IsPermutation(p),
         s.blk \in Blocks, r.perm = [s.perm EXCEPT ![s.blk] = p],
         r.blk = s.blk, r.inv = s.inv, r.par = s.par,
         r.pc \in {"draw", "swap", "invert"}, r.pc # "invert" => r.i \in 1..perm_size - 1
  PROVE  RequestInv(r)
  <1>. DEFINE blk == s.blk
              Q   == r.perm
              P   == s.perm
  <1>1. blk \in Int /\ P \in [Blocks -> Array] /\ s \in Request
    BY DEF RequestInv, Request, Blocks
  <1>2. \A b \in Blocks : Q[b] = IF b = blk THEN p ELSE P[b]
    BY <1>1
  <1>. HIDE DEF Q, P, blk
  <1>3. \A b \in Blocks : IsPermutation(Q[b])
    BY <1>2 DEF RequestInv, P
  <1>4. \A b \in Blocks : b < blk => Inverts(r.inv[b], Q[b])
    BY <1>1, <1>2 DEF RequestInv, P, blk
  <1>5. ASSUME NEW c \in Cells PROVE r.par[c] = RowsAt(Q, blk, c)
    <2>1. s.par[c] = RowsAt(P, blk, c)
      BY DEF RequestInv, P, blk
    <2>2. ASSUME NEW b \in 0..blk - 1 PROVE Q[b] = P[b]
      BY <1>1, <1>2, PermSize DEF blk, Blocks
    <2>3. RowsAt(Q, blk, c) = RowsAt(P, blk, c)
      BY <2>2 DEF RowsAt
    <2>. QED BY <2>1, <2>3
  <1>6. r.pc # "done" /\ r.pc # "xor" /\ r.blk # SetSize
    BY PermSize DEF Blocks
  <1>7. r.pc \in {"draw", "swap"} => r.i \in 1..perm_size - 1
    OBVIOUS
  <1>. QED
    BY <1>3, <1>4, <1>5, <1>6, <1>7 DEF RequestInv, Q, blk

\* How the draws js made the array p, up to cell i: A has the array before each swap.
Drawn(A, js, p, i) ==
  /\ A[perm_size - 1] = Identity /\ A[i] = p
  /\ Len(js) = perm_size - 1 - i
  /\ \A c \in i..perm_size - 1 : IsPermutation(A[c])
  /\ \A c \in i + 1..perm_size - 1 :
       /\ js[perm_size - c] \in 0..c
       /\ A[c - 1] = Swapped(A[c], c, js[perm_size - c])
       /\ p[c] = A[c][js[perm_size - c]]

History(s) ==
  s.pc \in {"draw", "swap", "invert"} =>
    /\ s.i \in 0..perm_size - 1
    /\ s.pc = "invert" => s.i = 0
    /\ \E A : A = [c \in s.i..perm_size - 1 |-> A[c]] /\ Drawn(A, s.js, s.perm[s.blk], s.i)

LEMMA HistoryStarts ==
  ASSUME AnswerAssumption
  PROVE  \E A : /\ A = [c \in perm_size - 1..perm_size - 1 |-> A[c]]
                /\ Drawn(A, <<>>, Identity, perm_size - 1)
  <1>. DEFINE m == perm_size
              A == [c \in m - 1..m - 1 |-> Identity]
  <1>1. m \in Nat /\ m > 0
    BY PermSize
  <1>. HIDE DEF m
  <1>2. A[m - 1] = Identity /\ m - 1..m - 1 = {m - 1} /\ m - 1 + 1..m - 1 = {} /\ m - 1 - (m - 1) = 0
    BY <1>1
  <1>3. A = [c \in m - 1..m - 1 |-> A[c]]
    OBVIOUS
  <1>4. Drawn(A, <<>>, Identity, m - 1)
    <2>. HIDE DEF A
    <2>. QED BY <1>2, IdentityIs DEF Drawn, m
  <1>. QED BY <1>3, <1>4 DEF m

LEMMA HistoryGrows ==
  ASSUME AnswerAssumption, NEW i \in 1..perm_size - 1, NEW js \in Seq(Int), NEW p, NEW j \in 0..i,
         NEW A, A = [c \in i..perm_size - 1 |-> A[c]], Drawn(A, js, p, i)
  PROVE  \E B : /\ B = [c \in i - 1..perm_size - 1 |-> B[c]]
                /\ Drawn(B, Append(js, j), Swapped(p, i, j), i - 1)
  <1>. DEFINE m  == perm_size
              q  == Swapped(p, i, j)
              ds == Append(js, j)
              B  == [c \in i - 1..m - 1 |-> IF c = i - 1 THEN q ELSE A[c]]
  <1>1. m \in Nat /\ i \in Nat /\ i - 1 \in 0..m - 1 /\ i \in i..m - 1 /\ m - 1 \in i..m - 1 /\ i \in Cells
    BY PermSize DEF Cells
  <1>2. B = [c \in i - 1..m - 1 |-> B[c]]
    OBVIOUS
  <1>3. B[i - 1] = q /\ \A c \in i..m - 1 : B[c] = A[c]
    BY <1>1
  <1>4. Len(js) = m - 1 - i /\ Len(ds) = m - 1 - (i - 1) /\ ds[m - i] = j
        /\ \A k \in 1..m - 1 - i : ds[k] = js[k]
    <2>1. Len(js) = m - 1 - i
      BY DEF Drawn
    <2>. HIDE DEF m
    <2>. QED BY <2>1, <1>1
  <1>5. IsPermutation(p) /\ IsPermutation(q) /\ A[i] = p
    <2>1. A[i] = p /\ IsPermutation(A[i])
      BY <1>1 DEF Drawn
    <2>2. j \in Cells
      BY <1>1 DEF Cells
    <2>. QED BY <2>1, <2>2, <1>1, SwapKeeps
  <1>6. \A c \in i - 1..m - 1 : IsPermutation(B[c])
    <2>1. \A c \in i - 1..m - 1 : c = i - 1 \/ c \in i..m - 1
      BY <1>1
    <2>2. \A c \in i..m - 1 : IsPermutation(A[c])
      BY DEF Drawn
    <2>. HIDE DEF B, q, m
    <2>. QED BY <2>1, <2>2, <1>3, <1>5
  \* The swap moves no cell that is fixed.
  <1>7. q[i] = p[j] /\ \A c \in Cells : c > i => q[c] = p[c]
    <2>1. p = [c \in Cells |-> p[c]] /\ j \in Cells /\ i \in Cells
      BY <1>1, <1>5 DEF IsPermutation, Array, Cells
    <2>2. q = [c \in Cells |-> IF c = j THEN p[i] ELSE IF c = i THEN p[j] ELSE p[c]]
      BY <2>1 DEF Swapped
    <2>. HIDE DEF q
    <2>. QED BY <2>1, <2>2, <1>1
  <1>8. ASSUME NEW c \in i..m - 1
        PROVE  ds[m - c] \in 0..c /\ B[c - 1] = Swapped(B[c], c, ds[m - c]) /\ q[c] = B[c][ds[m - c]]
    <2>1. CASE c = i
      BY <2>1, <1>1, <1>3, <1>4, <1>5, <1>7
    <2>2. CASE c # i
      <3>1. c \in i + 1..m - 1 /\ m - c \in 1..m - 1 - i /\ c - 1 \in i..m - 1 /\ c \in Cells /\ c > i
        BY <2>2, <1>1 DEF Cells
      <3>2. js[m - c] \in 0..c /\ A[c - 1] = Swapped(A[c], c, js[m - c]) /\ p[c] = A[c][js[m - c]]
        BY <3>1 DEF Drawn
      <3>3. ds[m - c] = js[m - c]
        BY <3>1, <1>4
      <3>4. B[c - 1] = A[c - 1] /\ B[c] = A[c] /\ q[c] = p[c]
        BY <3>1, <1>3, <1>7
      <3>. HIDE DEF B, ds, q, m
      <3>. QED BY <3>2, <3>3, <3>4
    <2>. QED BY <2>1, <2>2
  <1>9. B[m - 1] = Identity
    BY <1>1, <1>3 DEF Drawn
  <1>. HIDE DEF B, ds, q
  <1>10. Drawn(B, ds, q, i - 1)
    <2>1. i - 1 + 1 = i
      BY <1>1
    <2>. QED BY <2>1, <1>3, <1>4, <1>6, <1>8, <1>9 DEF Drawn
  <1>. QED
    BY <1>2, <1>10 DEF ds, q

LEMMA PermuteStep ==
  ASSUME AnswerInv, AnswerAssumption, NEW t \in Threads, permute(t), History(th[t])
  PROVE  AnswerInv' /\ Moves(t) /\ History(th'[t])
  <1>. DEFINE s == th[t]
              r == th'[t]
  <1>1. /\ s \in Request /\ th \in [Threads -> Request] /\ th = [x \in Threads |-> th[x]]
        /\ s.pc = "permute" /\ s.blk \in Blocks /\ RequestInv(s)
    <2>1. RequestInv(s) /\ th = [x \in Threads |-> th[x]] /\ s.pc = "permute"
      BY DEF AnswerInv, permute
    <2>2. s \in Request /\ th \in [Threads -> Request]
      BY <2>1 DEF AnswerInv, RequestInv
    <2>3. s.blk \in 0..SetSize /\ s.blk # SetSize
      BY <2>1, <2>2 DEF RequestInv, Request
    <2>. QED BY <2>1, <2>2, <2>3, PermSize DEF Blocks
  <1>2. /\ r.perm = [s.perm EXCEPT ![s.blk] = Identity]
        /\ r.i = perm_size - 1 /\ r.js = <<>> /\ r.pc = LoopAt(perm_size - 1)
        /\ r.blk = s.blk /\ r.inv = s.inv /\ r.par = s.par
        /\ Moves(t) /\ buf' = buf
    BY <1>1 DEF permute, Moves, Request
  <1>3. r.perm \in [Blocks -> Array]
    BY <1>1, <1>2, IdentityIs DEF Request, IsPermutation
  <1>4. r \in Request
    <2>1. [s.perm EXCEPT ![s.blk] = Identity] \in [Blocks -> Array]
      BY <1>2, <1>3
    <2>2. perm_size - 1 \in Int /\ LoopAt(perm_size - 1) \in {"draw", "invert"}
      BY PermSize DEF LoopAt
    <2>. DEFINE none == <<>>
                at   == LoopAt(perm_size - 1)
    <2>3. none \in Seq(Int) /\ at \in {"permute", "draw", "swap", "invert", "xor", "done"}
      BY <2>2
    <2>4. th' = [th EXCEPT ![t].perm[s.blk] = Identity, ![t].i = perm_size - 1, ![t].js = none, ![t].pc = at]
      BY DEF permute
    <2>. HIDE DEF none, at
    <2>. QED
      BY <1>1, <2>1, <2>2, <2>3, <2>4 DEF Request
  <1>5. RequestInv(r)
    <2>1. r.pc \in {"draw", "swap", "invert"} /\ (r.pc # "invert" => r.i \in 1..perm_size - 1)
      BY <1>2, PermSize DEF LoopAt
    <2>. HIDE DEF r, s
    <2>. QED BY <1>1, <1>2, <1>4, <2>1, IdentityIs, ArrayChanges
  <1>6. History(r)
    <2>1. r.perm[s.blk] = Identity
      BY <1>1, <1>2 DEF Request
    <2>2. r.i \in 0..perm_size - 1 /\ (r.pc = "invert" => r.i = 0)
      BY <1>2, PermSize DEF LoopAt
    <2>. HIDE DEF r, s
    <2>. QED BY <1>2, <2>1, <2>2, HistoryStarts, Zenon DEF History
  <1>. QED
    BY <1>2, <1>5, <1>6, OneRequest DEF AnswerInv

\* A request before its answer.
LEMMA AtWork ==
  ASSUME AnswerInv, AnswerAssumption, NEW t \in Threads, th[t].pc # "done"
  PROVE  /\ th[t] \in Request /\ th \in [Threads -> Request] /\ th = [x \in Threads |-> th[x]]
         /\ th[t].blk \in Blocks /\ th[t].blk \in Int /\ RequestInv(th[t])
         /\ th[t].perm \in [Blocks -> Array] /\ th[t].inv \in [Blocks -> Array]
         /\ th[t].par \in [Cells -> SUBSET Int]
         /\ IsPermutation(th[t].perm[th[t].blk]) /\ SetSize \in Nat
  <1>1. RequestInv(th[t]) /\ th = [x \in Threads |-> th[x]]
    BY DEF AnswerInv
  <1>2. th[t] \in Request /\ th \in [Threads -> Request]
    BY <1>1 DEF AnswerInv, RequestInv
  <1>3. th[t].blk \in 0..SetSize /\ th[t].blk # SetSize
    BY <1>1, <1>2 DEF RequestInv, Request
  <1>4. th[t].blk \in Blocks /\ th[t].blk \in Int /\ SetSize \in Nat
    BY <1>3, PermSize DEF Blocks
  <1>. QED
    BY <1>1, <1>2, <1>4 DEF RequestInv, Request

LEMMA RandBytesStep ==
  ASSUME AnswerInv, AnswerAssumption, NEW t \in Threads, RandBytes(t), History(th[t])
  PROVE  AnswerInv' /\ Moves(t) /\ History(th'[t])
  <1>. DEFINE s == th[t]
              r == th'[t]
  <1>1. s \in Request /\ th \in [Threads -> Request] /\ RequestInv(s) /\ s.pc = "draw"
    BY AtWork DEF RandBytes
  <1>2. /\ r.perm = s.perm /\ r.i = s.i /\ r.pc = "swap" /\ r.blk = s.blk /\ r.inv = s.inv /\ r.par = s.par
        /\ Moves(t) /\ buf' \in Draws /\ r \in Request
    BY <1>1 DEF RandBytes, Moves, Request
  <1>3. RequestInv(r)
    BY <1>1, <1>2 DEF RequestInv
  <1>4. r.js = s.js
    BY <1>1 DEF RandBytes, Request
  <1>5. History(r)
    <2>1. /\ s.i \in 0..perm_size - 1
          /\ \E A : A = [c \in s.i..perm_size - 1 |-> A[c]] /\ Drawn(A, s.js, s.perm[s.blk], s.i)
      BY <1>1, Zenon DEF History
    <2>2. r.i = s.i /\ r.js = s.js /\ r.perm = s.perm /\ r.blk = s.blk /\ r.pc = "swap"
      BY <1>2, <1>4
    <2>. HIDE DEF r, s
    <2>3. \E A : A = [c \in r.i..perm_size - 1 |-> A[c]] /\ Drawn(A, r.js, r.perm[r.blk], r.i)
      BY <2>1, <2>2
    <2>. QED BY <2>1, <2>2, <2>3, Zenon DEF History
  <1>. QED
    BY <1>2, <1>3, <1>5, OneRequest

LEMMA SwapStep ==
  ASSUME AnswerInv, AnswerAssumption, NEW t \in Threads, Swap(t), History(th[t])
  PROVE  AnswerInv' /\ Moves(t) /\ History(th'[t])
  <1>. DEFINE s == th[t]
              r == th'[t]
              j == fastMod(buf, Bound(s.i))
              p == Swapped(s.perm[s.blk], s.i, j)
  <1>1. /\ s \in Request /\ th \in [Threads -> Request] /\ RequestInv(s) /\ s.pc = "swap"
        /\ s.blk \in Blocks /\ IsPermutation(s.perm[s.blk]) /\ s.perm \in [Blocks -> Array]
    BY AtWork DEF Swap
  <1>2. s.i \in 1..perm_size - 1 /\ s.i \in Cells
    BY <1>1, PermSize DEF RequestInv, Cells
  <1>3. j \in 0..s.i /\ j \in Cells /\ j \in Int
    <2>1. buf \in Draws /\ Bound(s.i) \in Nat /\ Bound(s.i) > 0
      BY <1>2 DEF AnswerInv, Bound
    <2>2. j \in 0..Bound(s.i) - 1
      BY <2>1, FastModBelow
    <2>. HIDE DEF j
    <2>. QED BY <1>2, <2>2, PermSize DEF Cells, Bound
  <1>4. IsPermutation(p) /\ p \in Array
    BY <1>1, <1>2, <1>3, SwapKeeps DEF IsPermutation
  <1>5. /\ r.perm = [s.perm EXCEPT ![s.blk] = p]
        /\ r.i = s.i - 1 /\ r.pc = LoopAt(s.i - 1) /\ r.blk = s.blk /\ r.inv = s.inv /\ r.par = s.par
        /\ Moves(t) /\ buf' = buf
    <2>. HIDE DEF j
    <2>. DEFINE at == LoopAt(s.i - 1)
                ds == Append(s.js, j)
    <2>1. th' = [th EXCEPT ![t].perm[s.blk] = p, ![t].js = ds, ![t].i = s.i - 1, ![t].pc = at]
      BY Zenon DEF Swap, j
    <2>2. buf' = buf
      BY DEF Swap
    <2>. HIDE DEF p, at, ds
    <2>3. r.perm = [s.perm EXCEPT ![s.blk] = p] /\ r.i = s.i - 1 /\ r.pc = at
      BY <1>1, <2>1 DEF Request
    <2>4. r.blk = s.blk /\ r.inv = s.inv /\ r.par = s.par
      BY <1>1, <2>1 DEF Request
    <2>5. Moves(t)
      BY <1>1, <2>1 DEF Moves
    <2>. QED BY <2>2, <2>3, <2>4, <2>5 DEF at
  <1>6. r \in Request
    <2>. DEFINE P  == [s.perm EXCEPT ![s.blk] = p]
                at == LoopAt(s.i - 1)
                ds == Append(s.js, j)
    <2>1. P \in [Blocks -> Array]
      <3>. HIDE DEF p
      <3>. QED BY <1>1, <1>4
    <2>2. ds \in Seq(Int) /\ at \in {"permute", "draw", "swap", "invert", "xor", "done"} /\ s.i - 1 \in Int
      BY <1>1, <1>2, <1>3 DEF LoopAt, Request
    <2>3. th' = [th EXCEPT ![t].perm[s.blk] = p, ![t].js = ds, ![t].i = s.i - 1, ![t].pc = at]
      BY Zenon DEF Swap
    <2>. HIDE DEF ds, at, p
    <2>. QED BY <1>1, <2>1, <2>2, <2>3 DEF Request
  <1>7. RequestInv(r)
    <2>1. r.pc \in {"draw", "swap", "invert"} /\ (r.pc # "invert" => r.i \in 1..perm_size - 1)
      BY <1>2, <1>5, PermSize DEF LoopAt
    <2>. HIDE DEF r, s, p
    <2>. QED BY <1>1, <1>4, <1>5, <1>6, <2>1, ArrayChanges
  <1>9. r.js = Append(s.js, j)
    <2>. HIDE DEF j
    <2>. DEFINE at == LoopAt(s.i - 1)
                ds == Append(s.js, j)
    <2>1. th' = [th EXCEPT ![t].perm[s.blk] = p, ![t].js = ds, ![t].i = s.i - 1, ![t].pc = at]
      BY Zenon DEF Swap, j
    <2>. HIDE DEF p, at, ds
    <2>2. r.js = ds
      BY <1>1, <2>1 DEF Request
    <2>. QED BY <2>2 DEF ds
  <1>10. History(r)
    <2>. DEFINE q == s.perm[s.blk]
    <2>1. PICK A : A = [c \in s.i..perm_size - 1 |-> A[c]] /\ Drawn(A, s.js, q, s.i)
      BY <1>1, Zenon DEF History
    <2>2. s.js \in Seq(Int)
      BY <1>1 DEF Request
    <2>3. r.perm[r.blk] = p /\ r.i = s.i - 1
      BY <1>1, <1>5
    <2>4. r.i \in 0..perm_size - 1 /\ (r.pc = "invert" => r.i = 0)
      BY <1>2, <1>5, PermSize DEF LoopAt
    <2>. HIDE DEF s, j, q
    <2>5. \E B : B = [c \in s.i - 1..perm_size - 1 |-> B[c]] /\ Drawn(B, Append(s.js, j), Swapped(q, s.i, j), s.i - 1)
      BY <2>1, <2>2, <1>2, <1>3, HistoryGrows
    <2>. HIDE DEF r, p
    <2>6. p = Swapped(q, s.i, j)
      BY DEF p, q
    <2>. QED BY <2>3, <2>4, <2>5, <2>6, <1>9, Zenon DEF History
  <1>. QED
    BY <1>5, <1>7, <1>10, OneRequest DEF AnswerInv

LEMMA InvertStep ==
  ASSUME AnswerInv, AnswerAssumption, NEW t \in Threads, invert_permutation(t), History(th[t])
  PROVE  AnswerInv' /\ Moves(t) /\ History(th'[t])
  <1>. DEFINE s == th[t]
              r == th'[t]
              p == s.perm[s.blk]
              q == [c \in Cells |-> CHOOSE i \in Cells : p[i] = c]
  <1>1. /\ s \in Request /\ th \in [Threads -> Request] /\ RequestInv(s) /\ s.pc = "invert"
        /\ s.blk \in Blocks /\ s.blk \in Int /\ IsPermutation(p) /\ s.inv \in [Blocks -> Array]
    BY AtWork DEF invert_permutation
  <1>. HIDE DEF p
  <1>2. \A c \in Cells : q[c] \in Cells /\ p[q[c]] = c
    BY <1>1 DEF IsPermutation, Bijective
  <1>3. q \in Array
    BY <1>2 DEF Array
  <1>4. Inverts(q, p)
    <2>1. \A c \in Cells : p[c] \in Cells
      BY <1>1 DEF IsPermutation, Array
    <2>. HIDE DEF q
    <2>. QED BY <1>1, <1>2, <2>1 DEF Inverts, IsPermutation
  <1>5. th' = [th EXCEPT ![t].inv[s.blk] = q, ![t].pc = "xor"] /\ buf' = buf
    BY Zenon DEF invert_permutation, p
  <1>. HIDE DEF q
  <1>6. /\ r.inv = [s.inv EXCEPT ![s.blk] = q]
        /\ r.pc = "xor" /\ r.blk = s.blk /\ r.perm = s.perm /\ r.par = s.par
        /\ Moves(t)
    BY <1>1, <1>5 DEF Moves, Request
  <1>7. [s.inv EXCEPT ![s.blk] = q] \in [Blocks -> Array]
    BY <1>1, <1>3
  <1>8. r \in Request
    BY <1>1, <1>5, <1>7 DEF Request
  <1>9. r.inv[s.blk] = q /\ \A b \in Blocks : b < s.blk => r.inv[b] = s.inv[b]
    BY <1>1, <1>6
  <1>10. RequestInv(r)
    BY <1>1, <1>4, <1>6, <1>8, <1>9 DEF RequestInv, p
  <1>. QED
    BY <1>5, <1>6, <1>10, OneRequest DEF AnswerInv, History

LEMMA FreshIs ==
  ASSUME AnswerAssumption
  PROVE  RequestInv(Fresh)
  <1>1. Fresh \in Request
    <2>. DEFINE none == <<>>
    <2>1. none \in Seq(Int)
      OBVIOUS
    <2>2. [b \in Blocks |-> Identity] \in [Blocks -> Array] /\ [c \in Cells |-> {}] \in [Cells -> SUBSET Int]
      BY IdentityIs DEF IsPermutation
    <2>3. 0 \in 0..SetSize
      BY PermSize
    <2>4. Fresh = [pc |-> "permute", blk |-> 0, i |-> 0, js |-> none,
   perm |-> [b \in Blocks |-> Identity], inv |-> [b \in Blocks |-> Identity],
   par |-> [c \in Cells |-> {}]]
      BY DEF Fresh
    <2>. HIDE DEF none
    <2>. QED BY <2>1, <2>2, <2>3, <2>4 DEF Request
  <1>2. \A c \in Cells : Fresh.par[c] = RowsAt(Fresh.perm, Fresh.blk, c)
    <2>1. Fresh.blk = 0 /\ \A c \in Cells : Fresh.par[c] = {}
      BY DEF Fresh
    <2>2. \A c \in Cells : RowsAt(Fresh.perm, 0, c) = {}
      BY DEF RowsAt
    <2>. QED BY <2>1, <2>2
  <1>3. \A b \in Blocks : IsPermutation(Fresh.perm[b]) /\ ~(b < Fresh.blk)
    BY IdentityIs, PermSize DEF Fresh, Blocks
  <1>4. Fresh.pc = "permute" /\ Fresh.blk # SetSize
    BY PermSize DEF Fresh
  <1>. QED
    BY <1>1, <1>2, <1>3, <1>4 DEF RequestInv

LEMMA AnsweredStep ==
  ASSUME AnswerInv, AnswerAssumption, NEW t \in Threads, Answered(t), History(th[t])
  PROVE  AnswerInv' /\ Moves(t) /\ History(th'[t])
  <1>1. Moves(t) /\ th'[t] = Fresh /\ buf' = buf
    BY DEF Answered, Moves, AnswerInv
  <1>. QED
    BY <1>1, FreshIs, OneRequest DEF AnswerInv, History, Fresh

\* The one row of a block that its inverse sends to a cell.
LEMMA RowAtCell ==
  ASSUME NEW p, IsPermutation(p), NEW q \in Array, Inverts(q, p), NEW c \in Cells
  PROVE  {r \in Cells : q[r] = c} = {p[c]}
  <1>1. \A x \in Cells : p[x] \in Cells
    BY DEF IsPermutation, Array
  <1>2. p[c] \in Cells /\ q[p[c]] = c
    BY <1>1 DEF Inverts
  <1>3. ASSUME NEW r \in Cells, q[r] = c PROVE r = p[c]
    <2>1. PICK x \in Cells : p[x] = r
      BY DEF IsPermutation, Bijective
    <2>. QED BY <1>3, <2>1 DEF Inverts
  <1>. QED BY <1>2, <1>3

\* A row of a block is none of the rows of the blocks before it.
LEMMA RowIsNew ==
  ASSUME AnswerAssumption, NEW P \in [Blocks -> Array], NEW n \in Blocks, NEW c \in Cells
  PROVE  /\ RowsAt(P, n + 1, c) = Xor(RowsAt(P, n, c), {RowAt(n, P[n][c])})
         /\ RowsAt(P, n + 1, c) \in SUBSET Int
  <1>. DEFINE Row(b) == b * perm_size + P[b][c]
  <1>1. n \in Nat /\ SetSize \in Nat /\ n <= SetSize - 1 /\ perm_size \in Nat
    BY PermSize DEF Blocks
  <1>2. ASSUME NEW b \in 0..n PROVE P[b][c] \in 0..perm_size - 1 /\ Row(b) \in Int
    <2>1. b \in Blocks
      BY <1>1 DEF Blocks
    <2>2. P[b][c] \in Cells
      BY <2>1 DEF Array
    <2>3. P[b][c] \in 0..perm_size - 1
      BY <2>2 DEF Cells
    <2>4. b * perm_size \in Int
      BY <1>1
    <2>. QED BY <2>3, <2>4, <1>1
  <1>3. ASSUME NEW b \in 0..n - 1 PROVE Row(b) # Row(n)
    <2>1. b * perm_size + perm_size <= n * perm_size
      BY <1>1, BlocksApart
    <2>2. b * perm_size \in Int /\ n * perm_size \in Int
      BY <1>1
    <2>3. P[b][c] \in 0..perm_size - 1 /\ P[n][c] \in 0..perm_size - 1
      BY <1>1, <1>2
    <2>. QED BY <1>1, <2>1, <2>2, <2>3
  <1>4. \A k : RowsAt(P, k, c) = {Row(b) : b \in 0..k - 1}
    BY DEF RowsAt
  <1>5. RowsAt(P, n + 1, c) = {Row(b) : b \in 0..n}
    <2>. DEFINE k == n + 1
    <2>1. 0..k - 1 = 0..n
      BY <1>1
    <2>. HIDE DEF k, Row
    <2>2. RowsAt(P, k, c) = {Row(b) : b \in 0..k - 1}
      BY <1>4
    <2>3. RowsAt(P, k, c) = {Row(b) : b \in 0..n}
      BY <2>1, <2>2
    <2>. QED BY <2>3 DEF k
  <1>6. RowAt(n, P[n][c]) = Row(n)
    BY DEF RowAt
  <1>. HIDE DEF Row
  <1>7. 0..n = (0..n - 1) \cup {n}
    BY <1>1
  <1>8. {Row(b) : b \in 0..n} = {Row(b) : b \in 0..n - 1} \cup {Row(n)}
    BY <1>7
  <1>9. Row(n) \notin {Row(b) : b \in 0..n - 1}
    BY <1>3
  <1>10. RowsAt(P, n + 1, c) \in SUBSET Int
    BY <1>2, <1>5
  <1>. QED
    BY <1>4, <1>5, <1>6, <1>8, <1>9, <1>10 DEF Xor

LEMMA XorStep ==
  ASSUME AnswerInv, AnswerAssumption, NEW t \in Threads, xor_single_pass(t), History(th[t])
  PROVE  AnswerInv' /\ Moves(t) /\ History(th'[t])
  <1>. DEFINE s == th[t]
              r == th'[t]
              n == s.blk
              A == [c \in Cells |->
                     Xor(s.par[c], {RowAt(n, i) : i \in {x \in Cells : s.inv[n][x] = c}})]
              at == IF n + 1 = SetSize THEN "done" ELSE "permute"
  <1>1. /\ s \in Request /\ th \in [Threads -> Request] /\ RequestInv(s) /\ s.pc = "xor"
        /\ n \in Blocks /\ n \in Int /\ IsPermutation(s.perm[n]) /\ s.inv \in [Blocks -> Array]
        /\ s.perm \in [Blocks -> Array]
    BY AtWork DEF xor_single_pass
  <1>2. th' = [th EXCEPT ![t].par = A, ![t].blk = n + 1, ![t].pc = at] /\ buf' = buf
    BY Zenon DEF xor_single_pass
  <1>3. ASSUME NEW c \in Cells
        PROVE  A[c] = RowsAt(s.perm, n + 1, c) /\ RowsAt(s.perm, n + 1, c) \in SUBSET Int
    <2>. DEFINE X == {x \in Cells : s.inv[n][x] = c}
                pc == s.perm[n][c]
    <2>1. X = {pc}
      BY <1>1, RowAtCell DEF RequestInv
    <2>2. A[c] = Xor(s.par[c], {RowAt(n, i) : i \in X})
      BY Zenon
    <2>3. s.par[c] = RowsAt(s.perm, n, c)
      BY <1>1 DEF RequestInv
    <2>. HIDE DEF X, A, pc
    <2>4. {RowAt(n, i) : i \in X} = {RowAt(n, pc)}
      BY <2>1
    <2>. DEFINE P == s.perm
    <2>5. P \in [Blocks -> Array] /\ n \in Blocks
      BY <1>1
    <2>. HIDE DEF P, n
    <2>6. /\ RowsAt(P, n + 1, c) = Xor(RowsAt(P, n, c), {RowAt(n, P[n][c])})
          /\ RowsAt(P, n + 1, c) \in SUBSET Int
      BY <2>5, RowIsNew
    <2>7. P[n][c] = pc /\ s.par[c] = RowsAt(P, n, c)
      BY <2>3 DEF P, pc
    <2>8. A[c] = RowsAt(P, n + 1, c)
      BY <2>2, <2>4, <2>6, <2>7
    <2>. QED BY <2>6, <2>8 DEF P
  <1>4. A \in [Cells -> SUBSET Int]
    BY <1>3
  <1>5. n + 1 \in 0..SetSize /\ at \in {"permute", "draw", "swap", "invert", "xor", "done"}
    BY <1>1, PermSize DEF Blocks
  <1>. DEFINE m == n + 1
  <1>6. m = n + 1
    OBVIOUS
  <1>. HIDE DEF A, at, m
  <1>7. /\ r.par = A /\ r.blk = m /\ r.pc = at /\ r.perm = s.perm /\ r.inv = s.inv
        /\ Moves(t) /\ r \in Request
    BY <1>1, <1>2, <1>4, <1>5, <1>6 DEF Request, Moves
  <1>8. \A b \in Blocks : b < m => Inverts(s.inv[b], s.perm[b])
    <2>1. \A b \in Blocks : b < m => b < n \/ b = n
      BY <1>1, <1>6 DEF Blocks
    <2>. QED BY <2>1, <1>1 DEF RequestInv
  <1>9. (at = "done" <=> m = SetSize) /\ at \in {"done", "permute"}
    BY <1>6 DEF at
  <1>10. RequestInv(r)
    BY <1>1, <1>3, <1>6, <1>7, <1>8, <1>9 DEF RequestInv
  <1>. QED
    BY <1>2, <1>7, <1>9, <1>10, OneRequest DEF AnswerInv, History

\* Every array in work has come of the draws recorded.
DrawsInv == \A t \in Threads : History(th[t])

LEMMA AnswerInit ==
  ASSUME Init, AnswerAssumption
  PROVE  AnswerInv /\ DrawsInv
  <1>1. th = [t \in Threads |-> Fresh]
    BY DEF Init
  <1>2. \A t \in Threads : RequestInv(th[t])
    BY <1>1, FreshIs
  <1>3. th = [t \in Threads |-> th[t]] /\ buf \in Draws
    BY <1>1 DEF Init
  <1>. QED
    BY <1>1, <1>2, <1>3 DEF AnswerInv, DrawsInv, History, Fresh

LEMMA AnswerStep ==
  ASSUME AnswerInv, DrawsInv, AnswerAssumption, Next
  PROVE  AnswerInv' /\ DrawsInv'
  <1>1. PICK t \in Threads : Step(t)
    BY DEF Next
  <1>. SUFFICES AnswerInv' /\ Moves(t) /\ History(th'[t])
    BY DEF DrawsInv, Moves
  <1>h. History(th[t])
    BY DEF DrawsInv
  <1>2. CASE permute(t)
    BY <1>2, <1>h, PermuteStep
  <1>3. CASE RandBytes(t)
    BY <1>3, <1>h, RandBytesStep
  <1>4. CASE Swap(t)
    BY <1>4, <1>h, SwapStep
  <1>5. CASE invert_permutation(t)
    BY <1>5, <1>h, InvertStep
  <1>6. CASE xor_single_pass(t)
    BY <1>6, <1>h, XorStep
  <1>7. CASE Answered(t)
    BY <1>7, <1>h, AnsweredStep
  <1>. QED
    BY <1>1, <1>2, <1>3, <1>4, <1>5, <1>6, <1>7 DEF Step

LEMMA AnswerStutter ==
  ASSUME AnswerInv, DrawsInv, UNCHANGED vars
  PROVE  AnswerInv' /\ DrawsInv'
  <1>1. th' = th /\ buf' = buf
    BY DEF vars
  <1>2. buf' \in Draws'
    BY <1>1 DEF AnswerInv, Draws
  <1>3. th' = [t \in Threads |-> th'[t]] /\ \A t \in Threads : RequestInv(th'[t])
    BY <1>1 DEF AnswerInv
  <1>. QED
    BY <1>1, <1>2, <1>3, Zenon DEF AnswerInv, DrawsInv

\* What the invariant says of the arrays and of the answer.
LEMMA AnswerRight ==
  ASSUME AnswerInv, AnswerAssumption
  PROVE  ArraysArePermutations /\ HintsAreParities
  <1>1. ArraysArePermutations
    <2>. SUFFICES ASSUME NEW t \in Threads, NEW b \in Blocks
                  PROVE  /\ Bijective(th[t].perm[b])
                         /\ b < th[t].blk => \A c \in Cells : th[t].inv[b][th[t].perm[b][c]] = c
      BY Zenon DEF ArraysArePermutations
    <2>1. RequestInv(th[t])
      BY DEF AnswerInv
    <2>. QED BY <2>1 DEF RequestInv, IsPermutation, Inverts
  <1>2. HintsAreParities
    <2>. SUFFICES ASSUME NEW t \in Threads, th[t].pc = "done", NEW c \in Cells
                  PROVE  th[t].par[c] = {b * perm_size + th[t].perm[b][c] : b \in Blocks}
      BY Zenon DEF HintsAreParities
    <2>1. RequestInv(th[t])
      BY DEF AnswerInv
    <2>2. th[t].par[c] = RowsAt(th[t].perm, SetSize, c)
      BY <2>1 DEF RequestInv
    <2>. QED BY <2>2, Zenon DEF RowsAt, Blocks
  <1>. QED
    BY <1>1, <1>2

-----------------------------------------------------------------------------
\* Multiples of n reach every number within n - 1.
LEMMA Multiple ==
  ASSUME NEW a \in Nat, NEW n \in Nat, n > 0
  PROVE  \E c \in Nat : a <= c * n /\ c * n <= a + n - 1
  <1>. DEFINE x == a + n - 1
              c == x \div n
  <1>1. x \in Int /\ x >= 0
    OBVIOUS
  <1>2. c \in Int /\ x % n \in 0..n - 1 /\ x = n * c + (x % n)
    <2>. HIDE DEF x
    <2>. QED BY <1>1, DivMod
  <1>. HIDE DEF c
  <1>3. n * c = c * n /\ c * n \in Int
    BY <1>2
  <1>4. ~(c < 0)
    <2>1. c < 0 => c * n + n <= 0 * n
      BY <1>2, BlocksApart
    <2>. QED BY <2>1, <1>1, <1>2, <1>3
  <1>5. a <= c * n /\ c * n <= a + n - 1
    BY <1>2, <1>3
  <1>. QED
    BY <1>2, <1>4, <1>5

\* The first draw that is reduced to j or more.
FirstDraw(x, N, j) == j * DrawValues <= x * N /\ x * N <= j * DrawValues + N - 1

\* The draws that are reduced to j are the numbers from one to another.
LEMMA DrawsOfValue ==
  ASSUME AnswerAssumption, NEW N \in Nat, N > 0, NEW j \in 0..N - 1,
         NEW lo \in Nat, FirstDraw(lo, N, j), NEW hi \in Nat, FirstDraw(hi, N, j + 1)
  PROVE  {x \in Draws : fastMod(x, N) = j} = lo..hi - 1
  <1>. DEFINE W == DrawValues
              jW == j * W
              kW == (j + 1) * W
  <1>1. W \in Nat /\ W > 0 /\ Draws = 0..W - 1
    BY PermSize DEF Draws
  <1>2. jW \in Nat /\ kW \in Nat /\ kW = jW + W /\ kW <= N * W /\ N * W \in Nat
    <2>1. kW = jW + W /\ jW \in Nat /\ kW \in Nat /\ N * W \in Nat
      BY <1>1
    <2>2. j * W + W <= N * W
      BY <1>1, BlocksApart
    <2>. QED BY <2>1, <2>2
  <1>3. jW <= lo * N /\ lo * N <= jW + N - 1 /\ kW <= hi * N /\ hi * N <= kW + N - 1
    BY DEF FirstDraw
  <1>4. W * j = jW /\ lo * N \in Nat /\ hi * N \in Nat
    BY <1>1
  <1>. HIDE DEF W, kW
  <1>5. ASSUME NEW x \in 0..W - 1, fastMod(x, N) = j PROVE x \in lo..hi - 1
    <2>1. x * N \in Int /\ x \in Int
      BY <1>1
    <2>2. (x * N) \div W = j
      BY <1>5 DEF fastMod, W
    <2>3. (x * N) % W \in 0..W - 1 /\ x * N = W * j + ((x * N) % W)
      BY <2>1, <2>2, <1>1, DivMod
    <2>. DEFINE xN == x * N
    <2>4. jW <= xN /\ xN < kW
      <3>. HIDE DEF jW
      <3>. QED BY <2>1, <2>3, <1>1, <1>2, <1>4
    <2>5. x < lo => xN + N <= lo * N
      BY <2>1, BlocksApart
    <2>6. hi < x => hi * N + N <= xN
      BY <2>1, BlocksApart
    <2>7. hi = x => hi * N = xN
      OBVIOUS
    <2>8. xN \in Int
      BY <2>1
    <2>. HIDE DEF xN, jW
    <2>. QED BY <2>1, <2>4, <2>5, <2>6, <2>7, <2>8, <1>2, <1>3, <1>4
  <1>6. ASSUME NEW x \in lo..hi - 1 PROVE x \in 0..W - 1 /\ fastMod(x, N) = j
    <2>. DEFINE xN == x * N
                p  == xN - jW
    <2>1. x \in Nat /\ xN \in Nat
      OBVIOUS
    <2>2. xN + N <= hi * N
      BY <2>1, BlocksApart
    <2>3. lo < x => lo * N + N <= xN
      BY <2>1, BlocksApart
    <2>4. lo = x => lo * N = xN
      OBVIOUS
    <2>5. W < x => W * N + N <= xN
      BY <2>1, <1>1, BlocksApart
    <2>6. W = x => W * N = xN
      OBVIOUS
    <2>7. W * N = N * W
      BY <1>1
    <2>. HIDE DEF jW, xN
    <2>8. jW <= xN /\ xN < kW
      BY <2>1, <2>2, <2>3, <2>4, <1>2, <1>3, <1>4
    <2>9. x < W
      BY <2>1, <2>5, <2>6, <2>7, <2>8, <1>1, <1>2
    <2>10. p \in 0..W - 1 /\ xN = jW + p
      BY <2>1, <2>8, <1>1, <1>2
    <2>. HIDE DEF p
    <2>11. (j * W + p) \div W = j
      BY <2>10, <1>1, DivUnique
    <2>. QED BY <2>1, <2>9, <2>10, <2>11, <1>1 DEF fastMod, jW, xN, W
  <1>. QED
    BY <1>1, <1>5, <1>6

\* Of N values each is drawn as often as another, up to one draw.
LEMMA FairValues ==
  ASSUME AnswerAssumption, NEW N \in Nat, N > 0, N <= DrawValues, NEW j \in 0..N - 1
  PROVE  LET n == Cardinality({x \in Draws : fastMod(x, N) = j}) IN
           n \in Nat /\ DrawValues - (N - 1) <= n * N /\ n * N <= DrawValues + (N - 1)
  <1>. DEFINE W == DrawValues
  <1>1. W \in Nat /\ W > 0 /\ j * W \in Nat /\ (j + 1) * W \in Nat /\ (j + 1) * W = j * W + W
    BY PermSize
  <1>2. PICK lo \in Nat : j * W <= lo * N /\ lo * N <= j * W + N - 1
    BY <1>1, Multiple
  <1>3. PICK hi \in Nat : (j + 1) * W <= hi * N /\ hi * N <= (j + 1) * W + N - 1
    BY <1>1, Multiple
  <1>4. {x \in Draws : fastMod(x, N) = j} = lo..hi - 1
    <2>1. FirstDraw(lo, N, j) /\ FirstDraw(hi, N, j + 1)
      BY <1>2, <1>3, Zenon DEF FirstDraw
    <2>. QED BY <2>1, DrawsOfValue
  <1>. DEFINE jW == j * W
              l  == lo * N
              h  == hi * N
              n  == hi - lo
  <1>5. n * N = h - l /\ l \in Nat /\ h \in Nat
    OBVIOUS
  <1>6. hi < lo => h + N <= l
    BY BlocksApart
  <1>7. jW <= l /\ l <= jW + N - 1 /\ jW + W <= h /\ h <= jW + W + N - 1 /\ jW \in Nat
    BY <1>1, <1>2, <1>3
  <1>8. N \in Nat /\ W \in Nat /\ N <= W /\ N > 0
    BY <1>1
  <1>. HIDE DEF jW, l, h, W
  <1>9. n \in Nat /\ W - (N - 1) <= h - l /\ h - l <= W + (N - 1)
    BY <1>5, <1>6, <1>7, <1>8
  <1>10. Cardinality(lo..hi - 1) = n
    <2>. DEFINE e == hi - 1
    <2>1. e \in Int /\ lo \in Int /\ (lo > e => n = 0) /\ e - lo + 1 = n
      BY <1>9
    <2>. HIDE DEF e, n
    <2>2. Cardinality(lo..e) = n
      BY <2>1, FS_Interval
    <2>. QED BY <2>2 DEF e
  <1>. QED
    BY <1>4, <1>5, <1>9, <1>10 DEF W

LEMMA ValuesClose ==
  ASSUME NEW N \in Nat, N > 0, NEW W \in Nat, N <= W, NEW m \in Nat, NEW n \in Nat,
         W - (N - 1) <= n * N, n * N <= W + (N - 1), W - (N - 1) <= m * N, m * N <= W + (N - 1)
  PROVE  n > 0 /\ n - m \in -1..1
  <1>. DEFINE a == n * N
              b == m * N
  <1>1. a \in Int /\ b \in Int /\ n * N = a /\ (n = 0 => a = 0)
    OBVIOUS
  <1>2. m + 1 < n => (m + 1) * N + N <= a
    BY BlocksApart
  <1>3. n + 1 < m => (n + 1) * N + N <= b
    BY BlocksApart
  <1>4. (m + 1) * N = b + N /\ (n + 1) * N = a + N
    OBVIOUS
  <1>5. W - (N - 1) <= a /\ a <= W + (N - 1) /\ W - (N - 1) <= b /\ b <= W + (N - 1)
    OBVIOUS
  <1>. HIDE DEF a, b
  <1>. QED
    BY <1>1, <1>2, <1>3, <1>4, <1>5

LEMMA FairDraws ==
  ASSUME AnswerInv, AnswerAssumption
  PROVE  DrawsAreFair
  <1>. SUFFICES ASSUME NEW t \in Threads, th[t].pc = "swap"
                PROVE  /\ \A j, k \in 0..th[t].i :
                            LET Of(v) == Cardinality({x \in Draws : fastMod(x, Bound(th[t].i)) = v})
                            IN  Of(j) > 0 /\ Of(j) - Of(k) \in -1..1
                       /\ \A x \in Draws : fastMod(x, Bound(th[t].i)) \in 0..th[t].i
    BY Zenon DEF DrawsAreFair
  <1>. DEFINE i == th[t].i
              N == Bound(i)
              Of(v) == Cardinality({x \in Draws : fastMod(x, N) = v})
  <1>1. i \in 1..perm_size - 1
    BY DEF AnswerInv, RequestInv
  <1>2. i \in Nat /\ N \in Nat /\ N > 0 /\ N <= DrawValues /\ N - 1 = i /\ DrawValues \in Nat
    BY <1>1, PermSize DEF Bound
  <1>3. ASSUME NEW j \in 0..i, NEW k \in 0..i PROVE Of(j) > 0 /\ Of(j) - Of(k) \in -1..1
    <2>. HIDE DEF i, N
    <2>1. j \in 0..N - 1 /\ k \in 0..N - 1
      BY <1>2
    <2>2. Of(j) \in Nat /\ DrawValues - (N - 1) <= Of(j) * N /\ Of(j) * N <= DrawValues + (N - 1)
      BY <2>1, <1>2, FairValues
    <2>3. Of(k) \in Nat /\ DrawValues - (N - 1) <= Of(k) * N /\ Of(k) * N <= DrawValues + (N - 1)
      BY <2>1, <1>2, FairValues
    <2>. HIDE DEF Of
    <2>. QED BY <2>2, <2>3, <1>2, ValuesClose
  <1>4. ASSUME NEW x \in Draws PROVE fastMod(x, N) \in 0..i
    <2>. HIDE DEF i, N
    <2>. QED BY <1>2, FastModBelow
  <1>. QED
    BY <1>3, <1>4, Zenon

-----------------------------------------------------------------------------
\* The arrays before each swap, told from the permutation that came out: what the
\* recursive function of DrawsOf is.
ArraysOf(F, p) ==
  F = [i \in Cells |->
         IF i = perm_size - 1 THEN Identity
         ELSE Swapped(F[i + 1], i + 1, CHOOSE c \in Cells : F[i + 1][c] = p[i + 1])]

LEMMA ArraysTold ==
  ASSUME AnswerAssumption, NEW js, NEW p, NEW A, A = [c \in Cells |-> A[c]], Drawn(A, js, p, 0)
  PROVE  /\ ArraysOf(A, p)
         /\ \A c \in 1..perm_size - 1 : (CHOOSE x \in Cells : A[c][x] = p[c]) = js[perm_size - c]
  <1>. DEFINE m == perm_size
  <1>1. m \in Nat /\ m > 0 /\ Cells = 0..m - 1
    BY PermSize DEF Cells
  <1>2. ASSUME NEW c \in 1..m - 1 PROVE (CHOOSE x \in Cells : A[c][x] = p[c]) = js[m - c]
    <2>. DEFINE j == js[m - c]
    <2>1. c \in 0 + 1..m - 1 /\ c \in 0..m - 1
      BY <1>1
    <2>2. j \in 0..c /\ p[c] = A[c][j] /\ IsPermutation(A[c])
      BY <2>1 DEF Drawn
    <2>3. j \in Cells
      BY <2>2, <1>1
    <2>. HIDE DEF j
    <2>4. \A x \in Cells : A[c][x] = p[c] <=> x = j
      BY <2>2, <2>3 DEF IsPermutation
    <2>5. (CHOOSE x \in Cells : A[c][x] = p[c]) = j
      BY <2>3, <2>4
    <2>. QED BY <2>5 DEF j
  <1>3. ASSUME NEW i \in Cells, i # m - 1
        PROVE  A[i] = Swapped(A[i + 1], i + 1, CHOOSE c \in Cells : A[i + 1][c] = p[i + 1])
    <2>. DEFINE k == i + 1
    <2>1. k \in 1..m - 1 /\ k - 1 = i
      BY <1>1, <1>3
    <2>2. k \in 0 + 1..m - 1
      BY <2>1
    <2>. HIDE DEF k
    <2>3. A[k - 1] = Swapped(A[k], k, js[m - k])
      BY <2>2 DEF Drawn
    <2>. HIDE DEF m
    <2>4. A[i] = Swapped(A[k], k, CHOOSE c \in Cells : A[k][c] = p[k])
      BY <2>1, <2>3, <1>2
    <2>. QED BY <2>4 DEF k
  <1>4. A[m - 1] = Identity
    BY DEF Drawn
  <1>5. ArraysOf(A, p)
    <2>1. A = [i \in Cells |-> IF i = m - 1 THEN Identity
                ELSE Swapped(A[i + 1], i + 1, CHOOSE c \in Cells : A[i + 1][c] = p[i + 1])]
      BY <1>3, <1>4, Zenon
    <2>. QED BY <2>1, Zenon DEF ArraysOf
  <1>. QED
    BY <1>2, <1>5

\* They are the only ones: from the last cell down each is told by the one before.
LEMMA ArraysUnique ==
  ASSUME AnswerAssumption, NEW p, NEW A, ArraysOf(A, p), NEW F, ArraysOf(F, p)
  PROVE  F = A
  <1>. DEFINE m == perm_size
              T == {k \in Nat : k <= m - 1 => F[m - 1 - k] = A[m - 1 - k]}
  <1>1. m \in Nat /\ m > 0 /\ Cells = 0..m - 1
    BY PermSize DEF Cells
  <1>2. \A i \in Cells : A[i] = IF i = m - 1 THEN Identity
                ELSE Swapped(A[i + 1], i + 1, CHOOSE c \in Cells : A[i + 1][c] = p[i + 1])
    BY Zenon DEF ArraysOf
  <1>3. \A i \in Cells : F[i] = IF i = m - 1 THEN Identity
                ELSE Swapped(F[i + 1], i + 1, CHOOSE c \in Cells : F[i + 1][c] = p[i + 1])
    BY Zenon DEF ArraysOf
  <1>. HIDE DEF m
  <1>4. F[m - 1] = A[m - 1]
    BY <1>1, <1>2, <1>3
  <1>5. 0 \in T
    BY <1>1, <1>4
  <1>6. ASSUME NEW k \in Nat, k \in T PROVE k + 1 \in T
    <2>. SUFFICES ASSUME k + 1 <= m - 1 PROVE F[m - 1 - (k + 1)] = A[m - 1 - (k + 1)]
      OBVIOUS
    <2>. DEFINE i == m - 1 - (k + 1)
                n == i + 1
    <2>1. i \in Cells /\ i # m - 1 /\ n = m - 1 - k /\ k <= m - 1
      BY <1>1
    <2>2. F[n] = A[n]
      BY <2>1, <1>6
    <2>3. A[i] = Swapped(A[n], n, CHOOSE c \in Cells : A[n][c] = p[n])
      BY <2>1, <1>2
    <2>4. F[i] = Swapped(F[n], n, CHOOSE c \in Cells : F[n][c] = p[n])
      BY <2>1, <1>3
    <2>. QED BY <2>2, <2>3, <2>4
  <1>7. \A k \in Nat : k \in T
    <2>. HIDE DEF T
    <2>. QED BY <1>5, <1>6, NaturalsInSet
  <1>8. ASSUME NEW i \in Cells PROVE F[i] = A[i]
    <2>1. m - 1 - i \in Nat /\ m - 1 - (m - 1 - i) = i /\ m - 1 - i <= m - 1
      BY <1>1
    <2>. QED BY <2>1, <1>7
  <1>9. A = [i \in Cells |-> A[i]] /\ F = [i \in Cells |-> F[i]]
    BY Zenon DEF ArraysOf
  <1>. QED
    BY <1>8, <1>9

LEMMA DrawsTold ==
  ASSUME AnswerAssumption, NEW p, NEW A, ArraysOf(A, p)
  PROVE  DrawsOf(p) = [k \in 1..perm_size - 1 |->
                         CHOOSE c \in Cells : A[perm_size - k][c] = p[perm_size - k]]
  <1>1. \A F : ArraysOf(F, p) => F = A
    BY ArraysUnique
  <1>2. A = CHOOSE F : ArraysOf(F, p)
    BY <1>1
  <1>3. A = CHOOSE F : F = [i \in Cells |->
         IF i = perm_size - 1 THEN Identity
         ELSE Swapped(F[i + 1], i + 1, CHOOSE c \in Cells : F[i + 1][c] = p[i + 1])]
    BY <1>2 DEF ArraysOf
  <1>. QED
    BY <1>3 DEF DrawsOf

LEMMA OneWay ==
  ASSUME AnswerInv, DrawsInv, AnswerAssumption
  PROVE  OneWayToEach
  <1>. SUFFICES ASSUME NEW t \in Threads, th[t].pc = "invert"
                PROVE  /\ th[t].js = DrawsOf(th[t].perm[th[t].blk])
                       /\ \A k \in DOMAIN th[t].js : th[t].js[k] \in 0..perm_size - k
    BY Zenon DEF OneWayToEach
  <1>. DEFINE js == th[t].js
              p  == th[t].perm[th[t].blk]
              m  == perm_size
  <1>1. m \in Nat /\ m > 0 /\ Cells = 0..m - 1
    BY PermSize DEF Cells
  <1>2. js \in Seq(Int)
    BY AtWork DEF Request
  <1>3. PICK A : A = [c \in Cells |-> A[c]] /\ Drawn(A, js, p, 0)
    <2>1. th[t].i = 0 /\ \E A : A = [c \in th[t].i..m - 1 |-> A[c]] /\ Drawn(A, js, p, th[t].i)
      BY Zenon DEF DrawsInv, History
    <2>. QED BY <2>1, <1>1
  <1>. HIDE DEF js, p
  <1>4. Len(js) = m - 1 /\ \A c \in 1..m - 1 : js[m - c] \in 0..c
    <2>1. Len(js) = m - 1 - 0 /\ \A c \in 0 + 1..m - 1 : js[m - c] \in 0..c
      BY <1>3 DEF Drawn
    <2>. QED BY <2>1, <1>1
  <1>5. /\ ArraysOf(A, p)
        /\ \A c \in 1..m - 1 : (CHOOSE x \in Cells : A[c][x] = p[c]) = js[m - c]
    BY <1>3, ArraysTold
  <1>6. DrawsOf(p) = [k \in 1..m - 1 |-> CHOOSE c \in Cells : A[m - k][c] = p[m - k]]
    BY <1>5, DrawsTold
  <1>. HIDE DEF m
  <1>7. ASSUME NEW k \in 1..m - 1
        PROVE  (CHOOSE c \in Cells : A[m - k][c] = p[m - k]) = js[k] /\ js[k] \in 0..m - k
    <2>. DEFINE c == m - k
    <2>1. c \in 1..m - 1 /\ m - c = k
      BY <1>1
    <2>. HIDE DEF c
    <2>2. (CHOOSE x \in Cells : A[c][x] = p[c]) = js[k] /\ js[k] \in 0..c
      BY <2>1, <1>4, <1>5
    <2>. QED BY <2>2 DEF c
  <1>8. js = [k \in 1..m - 1 |-> js[k]] /\ DOMAIN js = 1..m - 1
    BY <1>1, <1>2, <1>4
  <1>9. DrawsOf(p) = js
    <2>1. DrawsOf(p) = [k \in 1..m - 1 |-> js[k]]
      BY <1>6, <1>7, Zenon
    <2>. QED BY <2>1, <1>8
  <1>. QED
    BY <1>7, <1>8, <1>9 DEF js, p, m

LEMMA AnswerAlways ==
  ASSUME AnswerAssumption
  PROVE  Spec => [](AnswerInv /\ DrawsInv)
  <1>1. Init => AnswerInv /\ DrawsInv
    BY AnswerInit
  <1>2. (AnswerInv /\ DrawsInv) /\ [Next]_vars => (AnswerInv /\ DrawsInv)'
    BY AnswerStep, AnswerStutter
  <1>. QED
    BY <1>1, <1>2, PTL DEF Spec
=============================================================================
