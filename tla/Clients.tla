------------------------------ MODULE Clients ------------------------------
(***************************************************************************)
(* The parts of the client that a PIR scheme or a connection needs, one    *)
(* component per behaviour: unit says which.  The Punc client with the     *)
(* constants of this module has the variables of PuncClient, the others    *)
(* have v1 to v6.  The components have no state in common.                 *)
(***************************************************************************)
EXTENDS PuncClient

CONSTANTS
  OtherRows, OtherSetSize, OtherHints,        \* of a second Punc client
  OtherBases, OtherReaders, OtherReads,
  UnitRows, UnitHints, UnitBases,             \* of one with sets of one element
  UnitReaders, UnitReads,
  KeyWidth, KeyLengths,                       \* of Rice
  RpcCallers, RpcMaxCalls                     \* of HttpPostCodec

VARIABLES unit, v1, v2, v3, v4, v5, v6

others == <<v1, v2, v3, v4, v5, v6>>

allVars == <<unit, vars, others>>

Other == INSTANCE PuncClient WITH
  NRows <- OtherRows, SetSize <- OtherSetSize, NumHints <- OtherHints, BaseSets <- OtherBases,
  Readers <- OtherReaders, MaxReads <- OtherReads,
  sets <- v1, hints <- v2, idxToSetIdx <- v3, rd <- v4, lost <- v5, reads <- v6

Single == INSTANCE PuncClient WITH
  NRows <- UnitRows, SetSize <- 1, NumHints <- UnitHints, BaseSets <- UnitBases,
  Readers <- UnitReaders, MaxReads <- UnitReads,
  sets <- v1, hints <- v2, idxToSetIdx <- v3, rd <- v4, lost <- v5, reads <- v6

Coder == INSTANCE Rice WITH
  Width <- KeyWidth, Lengths <- KeyLengths, keys <- v1, buf <- v2, out <- v3, pc <- v4

Rpc == INSTANCE HttpPostCodec WITH
  Callers <- RpcCallers, MaxCalls <- RpcMaxCalls,
  pc <- v1, reqMutex <- v2, pending <- v3, input <- v4, shut <- v5, calls <- v6

ASSUME ClientsAssumption ==
  /\ PuncAssumption /\ Other!PuncAssumption /\ Single!PuncAssumption
  /\ Coder!RiceAssumption /\ Rpc!CodecAssumption

-----------------------------------------------------------------------------
\* The client of the proxy, where the behaviour is another component's.
Unused == Init /\ sets = CHOOSE s \in [Index -> Gen] : TRUE

ClientsInit ==
  \/ unit = "punc" /\ Init /\ v1 = 0 /\ v2 = 0 /\ v3 = 0 /\ v4 = 0 /\ v5 = 0 /\ v6 = 0
  \/ unit = "other" /\ Other!Init /\ Unused
  \/ unit = "single" /\ Single!Init /\ Unused
  \/ unit = "rice" /\ Coder!Init /\ v5 = 0 /\ v6 = 0 /\ Unused
  \/ unit = "rpc" /\ Rpc!Init /\ Unused

ClientsNext ==
  /\ UNCHANGED unit
  /\ \/ unit = "punc" /\ Next /\ UNCHANGED others
     \/ unit = "other" /\ Other!Next /\ UNCHANGED vars
     \/ unit = "single" /\ Single!Next /\ UNCHANGED vars
     \/ unit = "rice" /\ Coder!Next /\ UNCHANGED <<v5, v6, vars>>
     \/ unit = "rpc" /\ Rpc!Next /\ UNCHANGED vars

ClientsSpec ==
  /\ ClientsInit /\ [][ClientsNext]_allVars
  /\ WF_allVars(unit = "rpc" /\ Rpc!Steps /\ UNCHANGED <<unit, vars>>)

-----------------------------------------------------------------------------
\* Pointers, hints, reads and draws are right also with larger sets, where a scan passes
\* elements before the one it looks for, and with sets of one element (findIndex,
\* replaceSet, reconstruct, randomMemberExcept).
OtherSizesRight ==
  /\ unit = "other" => Other!PointersRight /\ Other!ReadsRight /\ Other!SpinsOnOneElement
  /\ unit = "single" => Single!PointersRight /\ Single!ReadsRight /\ Single!SpinsOnOneElement

\* Keys come back from the coder exactly if its parameter is not negative and no quotient
\* is longer than a word (EncodeRiceIntegers, DecodeRiceIntegers).
RoundTrips == unit = "rice" => Coder!RoundTrips /\ Coder!ReadsPrefix

\* Every RPC call returns, unless the goroutine that reads responses ended while a caller
\* has a body for it (WriteRequest, ReadResponseHeader).
RpcCallsReturn ==
  \A c \in RpcCallers :
    (unit = "rpc" /\ v1[c] # "idle") ~> (unit = "rpc" /\ (v1[c] = "idle" \/ Rpc!Stuck))

\* No RPC call is forgotten or failed by another's response, and callers and the goroutine
\* never all wait for each other but in that one state, which nothing ends
\* (WriteRequest, ReadResponseHeader, ReadResponseBody).
RpcSafe ==
  /\ [](unit = "rpc" => Rpc!NoCallForgotten /\ Rpc!SomeoneCanGo)
  /\ [][unit = "rpc" /\ Rpc!Stuck => Rpc!Stuck']_allVars
=============================================================================
