------------------------------ MODULE Waterfall -----------------------------
(***************************************************************************)
(* The waterfall client (updatable/pir_waterfall.go): the rows of a growing *)
(* database are cut into layers, large ones first, each with a PIR client  *)
(* of its own.  New rows go to the smallest layer that can take them with  *)
(* the rows of the layers below it, so that most updates need the hint of  *)
(* a small layer only.                                                     *)
(*                                                                         *)
(* What a layer's PIR client is matters here only so far: one that works   *)
(* from hints was made from the rows the server hashed into them (hint).   *)
(* Module SinglePass is about such a client.                               *)
(***************************************************************************)
EXTENDS Integers, Sequences, FiniteSetsExt, Places

CONSTANTS
  PirType,           \* the scheme of all layers but, possibly, the last
  SmallestLayerSize  \* smallestLayerSize: a layer that small is the last

ASSUME WaterfallAssumption ==
  /\ PirType \in {"Punc", "SinglePass", "DPF", "Matrix", "NonPrivate"}
  /\ SmallestLayerSize \in Nat \ {0}

\* Schemes whose clients start from hints; they are the layered ones.
HintSchemes == {"Punc", "SinglePass"}

NewWaterfallClient == [numRows |-> 0, layers |-> <<>>]

EmptyLayer(max) ==
  [maxSize |-> max, firstRow |-> 0, numRows |-> 0, pirType |-> "None",
   pir |-> FALSE, hint |-> <<>>]

LayersMaxSize(nRows) ==
  IF PirType \notin HintSchemes THEN <<nRows>>
  ELSE LET halvings == Min({k \in 0..nRows : nRows \div 2^k <= SmallestLayerSize})
       IN  [i \in 1..halvings + 1 |-> nRows \div 2^(i - 1)]

freshLayers(nRows) ==
  LET maxSizes == LayersMaxSize(nRows)
  IN  [i \in 1..Len(maxSizes) |-> EmptyLayer(maxSizes[i])]

\* The number of rows in layers from..to.
RowsIn(layers, from, to) ==
  Cardinality(UNION {{i} \X (1..layers[i].numRows) : i \in from..to})

\* Mutant: the rows of the layers below are not taken along.
TakenRowsOfOne(layers, i, n) == n + RowsIn(layers, i, Min({i, Len(layers)}))

\* What layer i holds once it has taken n new rows.
TakenRows(layers, i, n) == n + RowsIn(layers, i, Len(layers))

\* The layer that takes n new rows and all rows below it, 0 if the largest
\* layer is reached and the layers are made afresh.
LayerFor(layers, n) ==
  Max({0} \cup {i \in 2..Len(layers) :
                  TakenRows(layers, i, n) <= layers[i].maxSize})

\* HintUpdateReq and updateLayers.  A scheme without hints gets its client at
\* once, from the number of rows alone.
updateLayers(w, n) ==
  LET at     == LayerFor(w.layers, n)
      i      == IF at = 0 THEN 1 ELSE at
      rows   == TakenRows(w.layers, i, n)
      base   == IF at = 0 THEN freshLayers(rows)
                ELSE [j \in 1..Len(w.layers) |->
                        IF j > at THEN EmptyLayer(w.layers[j].maxSize) ELSE w.layers[j]]
      type   == IF i = Len(base) /\ PirType \in HintSchemes THEN "DPF" ELSE PirType
  IN  [numRows |-> w.numRows + n,
       layers  |-> [base EXCEPT ![i] =
         [maxSize |-> base[i].maxSize, firstRow |-> w.numRows + n - rows,
          numRows |-> rows, pirType |-> type,
          pir |-> type \notin HintSchemes, hint |-> <<>>]]]

\* The last layer with rows: the one HintUpdateReq has filled.
LastFilled(layers) == Max({0} \cup {i \in 1..Len(layers) : layers[i].numRows # 0})

\* Mutant: every hint goes to the largest layer.
InitHintLargest(w, rows) ==
  [w EXCEPT !.layers[1].pir = TRUE, !.layers[1].hint = rows]

\* InitHint, with the rows the server made the hint from.
InitHint(w, rows) ==
  [w EXCEPT !.layers[LastFilled(w.layers)].pir  = TRUE,
            !.layers[LastFilled(w.layers)].hint = rows]

-----------------------------------------------------------------------------
\* Mutant: layerEnd is not advanced.
LayerEndStuck(active, m) == 0

\* layerEnd when Query comes to the m-th layer with a client.
LayerEnd(active, m) == RowsIn(active, 1, m - 1)

\* Query: one request per layer that has a client, for the row at pos in the
\* layer that seems to hold it and a dummy (idx -1) in the others.  first and
\* last are UpdatableQueryReq.FirstRow[l] and FirstRow[l+1].
WaterfallQuery(w, pos) ==
  LET a == Picked(w.layers, {i \in 1..Len(w.layers) : w.layers[i].pir})
  IN  [m \in 1..Len(a) |->
         [first   |-> a[m].firstRow,
          last    |-> IF m = Len(a) THEN LayerEnd(a, m + 1) ELSE a[m + 1].firstRow,
          pirType |-> a[m].pirType, numRows |-> a[m].numRows,
          hint    |-> a[m].hint,
          idx     |-> IF /\ LayerEnd(a, m) <= pos
                         /\ pos < LayerEnd(a, m) + a[m].numRows
                      THEN pos - LayerEnd(a, m) ELSE -1]]
=============================================================================
