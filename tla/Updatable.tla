------------------------------ MODULE Updatable -----------------------------
(***************************************************************************)
(* An updatable client (updatable/pir_updatable.go) with its waterfall of  *)
(* PIR clients, over a left and a right updatable server.                  *)
(*                                                                         *)
(* Update asks the left server for the operations since the client's last  *)
(* one (KeyUpdates), replays them on the map from keys to positions,       *)
(* defragmenting its own log when the server has defragmented, and fetches *)
(* a hint for the layer that took the new rows.  Read turns a key into a   *)
(* position and queries all layers at both servers.                        *)
(*                                                                         *)
(* The calls to the servers are separate steps: writers get between them,  *)
(* and each may fail.  A write goes to the left server and then to the     *)
(* right one, and no read begins while the two differ.                     *)
(***************************************************************************)
EXTENDS UpdatableServer, Waterfall

CONSTANTS
  RowAdded,  \* the row a caller adds at a timestamp
  ReadKeys,  \* the keys a caller reads
  Garbage,   \* what a client reconstructs from answers that do not fit
  AddSizes, DeleteSizes,  \* bounds: how many keys a call of AddRows or
                          \* DeleteRows is given
  MaxTime                 \* bound on the timestamps

ASSUME UpdatableAssumption ==
  /\ AddSizes \subseteq Nat \ {0} /\ DeleteSizes \subseteq Nat
  /\ MaxTime \in Nat
  /\ MaxTime > 0 => DOMAIN RowAdded = 0..(MaxTime - 1)
  /\ NoRow # Garbage
  /\ ReadKeys \subseteq Keys

VARIABLES
  srv,     \* the two servers
  todo,    \* the write the right server has not had yet
  cli,     \* Client, without its waterfall
  wf,      \* Client.waterfall
  phase,   \* where the client is in its current call
  query,   \* the request for a hint or, of a read, for rows
  answer,  \* what the servers have answered to the read
  result,  \* what the last Read returned
  updated, \* did the last Update return without an error?
  synced   \* history: the left server's map at the client's last KeyUpdates

cliVars  == <<cli, wf, updated, synced>>
readVars == <<query, answer, result>>
vars     == <<srv, todo, cliVars, phase, readVars>>

Sides == {"Left", "Right"}

NoWrite   == [add |-> FALSE, rows |-> <<>>, pending |-> FALSE]
NoQuery   == [key |-> -1, parts |-> <<>>]
NoAnswer  == [st |-> "none", rows |-> <<>>]
NoAnswers == [s \in Sides |-> NoAnswer]
NoResult  == [key |-> -1, row |-> NoRow, err |-> FALSE]

NewClient ==
  [initialTimestamp |-> 0, defragTimestamp |-> 0, numRows |-> 0,
   ops |-> <<>>, keyToPos |-> EmptyMap]

Init ==
  /\ srv = [s \in Sides |-> NewUpdatableServer]
  /\ todo = NoWrite
  /\ cli = NewClient /\ wf = NewWaterfallClient
  /\ phase = "idle"
  /\ query = NoQuery /\ answer = NoAnswers /\ result = NoResult
  /\ updated = FALSE /\ synced = EmptyMap

-----------------------------------------------------------------------------
\* The caller's writes.
Applied(s, write) ==
  IF write.add THEN AddRows(s, write.rows) ELSE DeleteRows(s, write.rows)

WriteLeft(write) ==
  /\ ~todo.pending
  /\ srv' = [srv EXCEPT !["Left"] = Applied(@, write)]
  /\ todo' = write
  /\ UNCHANGED <<cliVars, phase, readVars>>

\* AddRows returns at once when it is given nothing.
AddLeft ==
  \E n \in AddSizes : \E keys \in [1..n -> Keys] :
    LET t == ServerTimestamp(srv["Left"])
    IN  /\ t + n <= MaxTime
        /\ WriteLeft([add |-> TRUE, pending |-> TRUE,
                      rows |-> [i \in 1..n |-> AddOp(keys[i], RowAdded[t + i - 1])]])

DeleteLeft ==
  \E n \in DeleteSizes : \E keys \in [1..n -> Keys] :
    /\ ServerTimestamp(srv["Left"]) + n <= MaxTime
    /\ WriteLeft([add |-> FALSE, pending |-> TRUE, rows |-> keys])

WriteRight ==
  /\ todo.pending
  /\ srv' = [srv EXCEPT !["Right"] = Applied(@, todo)]
  /\ todo' = NoWrite
  /\ UNCHANGED <<cliVars, phase, readVars>>

-----------------------------------------------------------------------------
\* Update.
nextTimestamp == cli.initialTimestamp + Len(cli.ops)

\* updatePositionMap over the operations new.
updatePositionMap(c, new) ==
  LET touched == {new[i].Key : i \in 1..Len(new)}
      last(k) == LastOn(new, Len(new), k)
      row(i)  == c.numRows + Cardinality({j \in 1..i-1 : ~new[j].Delete})
  IN  [c EXCEPT
        !.numRows  = row(Len(new) + 1),
        !.keyToPos =
          [k \in (DOMAIN @ \ touched) \cup {t \in touched : ~new[last(t)].Delete} |->
             IF k \in touched THEN row(last(k)) ELSE @[k]]]

\* Mutant: the positions outlive the history they belong to.
ForgetfulButOfKeys(resp) ==
  [NewClient EXCEPT !.initialTimestamp = resp.InitialTimestamp,
                    !.defragTimestamp  = resp.DefragTimestamp,
                    !.keyToPos         = cli.keyToPos]

\* The client after a response that tells it to delete its history.
Forgetful(resp) ==
  [NewClient EXCEPT !.initialTimestamp = resp.InitialTimestamp,
                    !.defragTimestamp  = resp.DefragTimestamp]

\* Mutant: the client defragments its log but keeps its first timestamp.
DefraggedClientNoShift(c, resp) ==
  [NewClient EXCEPT !.initialTimestamp = c.initialTimestamp,
                    !.defragTimestamp  = resp.DefragTimestamp,
                    !.ops = Defrag(c.ops, resp.DefragTimestamp - c.initialTimestamp)]

\* The client that follows a defragmentation of the server: its positions are
\* assigned anew.
DefraggedClient(c, resp) ==
  LET kept == Defrag(c.ops, resp.DefragTimestamp - c.initialTimestamp)
  IN  [NewClient EXCEPT
        !.initialTimestamp = c.initialTimestamp + (Len(c.ops) - Len(kept)),
        !.defragTimestamp  = resp.DefragTimestamp,
        !.ops              = kept]

\* Mutant: the layers outlive the positions they were made for.
WaterfallKept(reset) == wf

\* waterfall.reset()
WaterfallAfter(reset) == IF reset THEN NewWaterfallClient ELSE wf

\* processKeyUpdate: the client after a response, the operations its position
\* map has to take in, and whether the waterfall is reset.
processKeyUpdate(c, resp) ==
  LET c0        == IF resp.ShouldDeleteHistory THEN Forgetful(resp) ELSE c
      defragged == resp.DefragTimestamp > c0.defragTimestamp
      c1        == IF defragged THEN DefraggedClient(c0, resp) ELSE c0
      ops       == c1.ops \o resp.ops
      recent    == IF defragged THEN ops ELSE resp.ops
  IN  [cli     |-> updatePositionMap([c1 EXCEPT !.ops = ops], recent),
       newRows |-> Cardinality({i \in 1..Len(recent) : ~recent[i].Delete}),
       reset   |-> resp.ShouldDeleteHistory \/ defragged]

\* Update up to the Hint call.  It ends here when there is no new row
\* (HintUpdateReq is not called) or no hint to ask for.
UpdateKeys ==
  \E resp \in {KeyUpdates(srv["Left"], nextTimestamp)} :
  \E new \in {processKeyUpdate(cli, resp)} :
  \E w \in {IF new.newRows = 0 THEN WaterfallAfter(new.reset)
            ELSE updateLayers(WaterfallAfter(new.reset), new.newRows)} :
    LET asks == new.newRows # 0 /\ ~w.layers[LastFilled(w.layers)].pir
    IN  /\ phase = "idle"
        /\ cli' = new.cli /\ wf' = w
        /\ synced' = srv["Left"].kv
        /\ phase' = IF asks THEN "hinting" ELSE "idle"
        /\ updated' = ~asks
        /\ result' = NoResult
        /\ UNCHANGED <<srv, todo, query, answer>>

\* The rows first..last-1 of a server.  Past the end of the slice Go panics,
\* or gives what lies in its capacity.
Slice(s, first, last) ==
  [i \in 1..(last - first) |->
     IF first + i <= Len(s.flatDb) THEN s.flatDb[first + i] ELSE Garbage]

Overruns(s, last) == last > Len(s.flatDb)

Panic ==
  /\ phase' = "panicked"
  /\ UNCHANGED <<srv, todo, cliVars, readVars>>

\* The Hint call of Update, and InitHint.
Hint ==
  LET layer == wf.layers[LastFilled(wf.layers)]
      last  == layer.firstRow + layer.numRows
  IN  /\ phase = "hinting"
      /\ phase' = "idle"
      /\ wf' = InitHint(wf, Slice(srv["Left"], layer.firstRow, last))
      /\ updated' = TRUE
      /\ UNCHANGED <<srv, todo, cli, synced, readVars>>

HintPanics ==
  LET layer == wf.layers[LastFilled(wf.layers)]
  IN  /\ phase = "hinting"
      /\ Overruns(srv["Left"], layer.firstRow + layer.numRows)
      /\ Panic

HintFails ==
  /\ phase = "hinting"
  /\ phase' = "idle"
  /\ UNCHANGED <<srv, todo, cliVars, readVars>>

-----------------------------------------------------------------------------
\* Read.  A key without a position is an error and changes nothing.
Read(key) ==
  /\ phase = "idle" /\ ~todo.pending
  /\ key \in DOMAIN cli.keyToPos
  /\ phase' = "reading"
  /\ query' = [key |-> key, parts |-> WaterfallQuery(wf, cli.keyToPos[key])]
  /\ answer' = NoAnswers /\ result' = NoResult
  /\ UNCHANGED <<srv, todo, cliVars>>

\* The request meant for the row, 0 if no layer seemed to hold it.
Matching == Max({0} \cup {m \in 1..Len(query.parts) : query.parts[m].idx # -1})

\* Requests on which a server surely panics: a slice that ends before it
\* begins, and a SinglePass dummy, which makes it divide by a set size of 0.
Poisonous(part) ==
  \/ part.last < part.first
  \/ part.pirType = "SinglePass" /\ part.idx = -1

Awaits(side) == phase = "reading" /\ answer[side].st = "none"

\* UpdatableQueryReq.Process.  Without a matching layer the client looks at
\* the answer of the first request.
Answer(side) ==
  /\ Awaits(side)
  /\ \A m \in 1..Len(query.parts) : ~Poisonous(query.parts[m])
  /\ answer' = [answer EXCEPT ![side] =
       [st   |-> "ok",
        rows |-> IF Matching = 0 THEN <<>>
                 ELSE Slice(srv[side], query.parts[Matching].first,
                                       query.parts[Matching].last)]]
  /\ UNCHANGED <<srv, todo, cliVars, phase, query, result>>

AnswerPanics(side) ==
  /\ Awaits(side)
  /\ \E m \in 1..Len(query.parts) :
       Poisonous(query.parts[m]) \/ Overruns(srv[side], query.parts[m].last)
  /\ Panic

AnswerFails(side) ==
  /\ Awaits(side)
  /\ answer' = [answer EXCEPT ![side] = [st |-> "failed", rows |-> <<>>]]
  /\ UNCHANGED <<srv, todo, cliVars, phase, query, result>>

\* What the layer's client makes of the answers: the row, if both servers and
\* the hint are about the same rows.
Reconstructed ==
  LET part == query.parts[Matching]
      rows == answer["Left"].rows
      fits == /\ rows = answer["Right"].rows
              /\ Len(rows) = part.numRows
              /\ part.pirType \in HintSchemes => part.hint = rows
  IN  IF fits THEN rows[part.idx + 1] ELSE Garbage

Answered == phase = "reading" /\ \A s \in Sides : answer[s].st # "none"

\* The end of Read.  When only the right server failed, it returns the left
\* server's error, which is nil.
ReadReturns ==
  LET failed == \E s \in Sides : answer[s].st = "failed"
  IN  /\ Answered
      /\ failed \/ Matching # 0
      /\ phase' = "idle"
      /\ result' = [key |-> query.key,
                    row |-> IF failed THEN NoRow ELSE Reconstructed,
                    err |-> answer["Left"].st = "failed"]
      /\ query' = NoQuery /\ answer' = NoAnswers
      /\ UNCHANGED <<srv, todo, cliVars>>

\* The layers' reconstruct function is nil when no layer held the position.
ReconstructPanics ==
  /\ Answered /\ \A s \in Sides : answer[s].st = "ok"
  /\ Matching = 0
  /\ Panic

-----------------------------------------------------------------------------
Writes  == AddLeft \/ DeleteLeft \/ WriteRight
Updates == UpdateKeys \/ Hint \/ HintPanics \/ HintFails
Reads ==
  \/ \E key \in ReadKeys : Read(key)
  \/ \E side \in Sides : Answer(side) \/ AnswerPanics(side) \/ AnswerFails(side)
  \/ ReadReturns
  \/ ReconstructPanics

Next == Writes \/ Updates \/ Reads
Spec == Init /\ [][Next]_vars

-----------------------------------------------------------------------------
(***************************************************************************)
(* Properties.                                                             *)
(***************************************************************************)
Left == srv["Left"]

\* The client and both servers have the same view of what was defragmented.
SameDefrag == \A s \in Sides : srv[s].defragTimestamp = cli.defragTimestamp

\* A hint was asked for and never came.
HintLost ==
  /\ phase # "hinting"
  /\ \E i \in 1..Len(wf.layers) : wf.layers[i].numRows # 0 /\ ~wf.layers[i].pir

Timestamps == 0..MaxTime

\* The rows in a server, and those a client may be given.
Data   == {NoRow} \cup {RowAdded[t] : t \in 0..(MaxTime - 1)}
Stored == Data \cup {Garbage}

\* Operations, maps and servers with rows in D.
Op(D)   == [Key : Keys, Delete : BOOLEAN, data : D]
Maps(D) == UNION {[K -> D] : K \in SUBSET Keys}

Servers(D) == [ops : Seq(Op(D)), kv : Maps(D), flatDb : Seq(D),
               initialTimestamp : Nat, defragTimestamp : Nat]

\* What the client's log holds.
KeyOps == [Key : Keys, Delete : BOOLEAN]

Schemes == {"None", "DPF", PirType}

\* Layers with hints from rows in D.
Layer(D) == [maxSize : Nat, firstRow : Nat, numRows : Nat, pirType : Schemes,
             pir : BOOLEAN, hint : Seq(D)]

\* Requests for one of numRows rows, or for none (idx -1).
Request ==
  {r \in [first : Nat, last : Nat, pirType : Schemes, numRows : Nat,
          hint : Seq(Stored), idx : Nat \cup {-1}] : r.idx < r.numRows}

\* The types of the variables: the servers and the write between them, the
\* client with its layers, and the call it is in.
TypeOK ==
  /\ srv \in [Sides -> Servers(Data)]
  /\ \A s \in Sides : /\ srv[s].initialTimestamp \in Timestamps
                      /\ srv[s].defragTimestamp \in Timestamps
  /\ todo \in [add : {TRUE}, rows : Seq(Op(Data)), pending : BOOLEAN]
              \cup [add : {FALSE}, rows : Seq(Keys), pending : BOOLEAN]
  /\ cli \in [initialTimestamp : Timestamps, defragTimestamp : Timestamps,
              numRows : Timestamps, ops : Seq(KeyOps), keyToPos : Maps(Timestamps)]
  /\ \A k \in DOMAIN cli.keyToPos : cli.keyToPos[k] < cli.numRows
  /\ wf \in [numRows : Nat, layers : Seq(Layer(Stored))]
  /\ phase \in {"idle", "hinting", "reading", "panicked"}
  /\ query \in [key : Keys \cup {-1}, parts : Seq(Request)]
  /\ answer \in [Sides -> [st : {"none", "ok", "failed"}, rows : Seq(Stored)]]
  /\ result \in [key : Keys \cup {-1}, row : Stored, err : BOOLEAN]
  /\ updated \in BOOLEAN
  /\ synced \in Maps(Data)

\* However often a server has defragmented, its log still says what its map
\* says, and its flat database holds the rows of its log in order
\* (AddRows, DeleteRows, defrag).
LogSaysTheMap ==
  \A s \in Sides : /\ Replayed(EmptyMap, srv[s].ops) = srv[s].kv
                   /\ opsToRows(srv[s].ops) = srv[s].flatDb

\* A timestamp stands for one operation for ever: a write takes as many new
\* ones as it has operations, with or without a defragmentation, and
\* defragTimestamp, by which clients are told that they have missed one, never
\* goes back (AddRows, DeleteRows).
TimestampsAdvance ==
  [][\A s \in Sides :
       /\ \/ srv'[s] = srv[s]
          \/ ServerTimestamp(srv'[s])
               = ServerTimestamp(srv[s])
                   + IF s = "Left" THEN Len(todo'.rows) ELSE Len(todo.rows)
       /\ srv'[s].defragTimestamp >= srv[s].defragTimestamp]_srv

\* One defragmentation of the client's log, up to the server's latest
\* defragTimestamp, gives the beginning of the server's log, however many
\* defragmentations the client has missed; the next operation it will be sent
\* is the one that follows (KeyUpdates, processKeyUpdate).
ClientLogIsPrefix ==
  nextTimestamp >= Left.defragTimestamp =>
    LET newer == Left.defragTimestamp > cli.defragTimestamp
        log   == IF newer
                 THEN Defrag(cli.ops, Left.defragTimestamp - cli.initialTimestamp)
                 ELSE cli.ops
    IN  /\ Len(log) = nextTimestamp - Left.initialTimestamp
        /\ Len(log) <= Len(Left.ops)
        /\ \A i \in 1..Len(log) : log[i] = KeyOf(Left.ops[i])

\* As long as the left server has not defragmented since, the client's
\* positions point at the rows the keys had at its last update, and it knows
\* exactly the keys there were then (updatePositionMap against AddRows).
PositionsRight ==
  Left.defragTimestamp = cli.defragTimestamp =>
    /\ DOMAIN cli.keyToPos = DOMAIN synced
    /\ \A k \in DOMAIN synced : Left.flatDb[cli.keyToPos[k] + 1] = synced[k]

\* The filled layers cut the client's rows into consecutive pieces, from the
\* largest layer down, none above its size (updateLayers).
LayersTile ==
  /\ wf.numRows = cli.numRows
  /\ wf.numRows = RowsIn(wf.layers, 1, Len(wf.layers))
  /\ \A i \in 1..Len(wf.layers) : LET l == wf.layers[i] IN
       l.numRows # 0 => /\ l.numRows <= l.maxSize
                        /\ l.firstRow = RowsIn(wf.layers, 1, i - 1)

\* The hint of a layer is about the rows the layer stands for, also when
\* writes came between KeyUpdates and Hint, unless the server has defragmented
\* and the next update starts afresh (Update, InitHint).
HintsFit ==
  Left.defragTimestamp = cli.defragTimestamp =>
    \A i \in 1..Len(wf.layers) : LET l == wf.layers[i] IN
      l.pir /\ l.pirType \in HintSchemes =>
        l.hint = Slice(Left, l.firstRow, l.firstRow + l.numRows)

\* A read that is answered returns the row its key had at the client's last
\* update, whatever has been added or deleted since, unless a server has
\* defragmented or a hint was lost (Read, Query).
ReadsSnapshot ==
  /\ result.key # -1 /\ ~result.err /\ result.row # NoRow
  /\ SameDefrag /\ ~HintLost
  => result.row = synced[result.key]

\* Neither client nor server panics unless a server has defragmented since
\* the client's last update or a hint was lost.
OnlyStaleCallsPanic == phase = "panicked" => ~SameDefrag \/ HintLost

-----------------------------------------------------------------------------
(***************************************************************************)
(* What the repository says and the code does not do.                      *)
(***************************************************************************)
\* A read that returns no error returns a row (pir_updatable_test.go:18).
NilErrorMeansRow == result.key # -1 /\ ~result.err => result.row # NoRow

\* After an Update that returned no error a read finds its row, unless a
\* server has defragmented since (pir_updatable_test.go:170).
UpdateSuffices == updated /\ SameDefrag => phase # "panicked"

\* DummyQuery of the SinglePass client is "not needed/used"
\* (pir_single_pass.go:470): no query holds one.
DummyUnused ==
  \A m \in 1..Len(query.parts) :
    ~(query.parts[m].pirType = "SinglePass" /\ query.parts[m].idx = -1)
=============================================================================
