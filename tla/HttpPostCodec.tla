---------------------------- MODULE HttpPostCodec ----------------------------
(***************************************************************************)
(* A persistent RPC client over HTTPS: the net/rpc client, which the code  *)
(* does not define, on the codec of rpc/client.go.  A caller keeps the     *)
(* lock on requests while it posts and until the goroutine that reads      *)
(* responses has taken the body from it; that goroutine ends at the first  *)
(* response it cannot decode, and then needs the lock to fail the pending  *)
(* calls.                                                                  *)
(***************************************************************************)
EXTENDS Naturals, FiniteSets

CONSTANTS
  Callers,    \* goroutines that call
  MaxCalls    \* bound on the number of calls

CodecAssumption == MaxCalls \in Nat /\ {"input", "nobody"} \cap Callers = {}

VARIABLES
  pc,        \* where each caller is
  reqMutex,  \* who holds client.reqMutex
  pending,   \* callers in client.pending
  input,     \* the goroutine input: where it is and whose body it has
  shut,      \* client.shutdown, client.closing
  calls      \* calls made

vars == <<pc, reqMutex, pending, input, shut, calls>>

Receiving == [at |-> "receive", of |-> "nobody"]

Init ==
  /\ pc = [c \in Callers |-> "idle"]
  /\ reqMutex = "nobody"
  /\ pending = {}
  /\ input = Receiving
  /\ shut = [shutdown |-> FALSE, closing |-> FALSE]
  /\ calls = 0

Call(c) ==
  /\ pc[c] = "idle" /\ calls < MaxCalls
  /\ pc' = [pc EXCEPT ![c] = "lock"]
  /\ calls' = calls + 1
  /\ UNCHANGED <<reqMutex, pending, input, shut>>

\* send takes the lock, and gives up if the client is shut down or closed.
send(c) ==
  /\ pc[c] = "lock" /\ reqMutex = "nobody"
  /\ IF shut.shutdown \/ shut.closing
     THEN pc' = [pc EXCEPT ![c] = "failed"] /\ UNCHANGED <<reqMutex, pending>>
     ELSE pc' = [pc EXCEPT ![c] = "post"] /\ reqMutex' = c /\ pending' = pending \cup {c}
  /\ UNCHANGED <<input, shut, calls>>

\* Mutant: the call stays pending, though nobody waits for it.
PostFailsPending(c) ==
  /\ pc[c] = "post"
  /\ pc' = [pc EXCEPT ![c] = "failed"]
  /\ reqMutex' = "nobody"
  /\ UNCHANGED <<pending, input, shut, calls>>

\* Mutant: the error of the POST is not returned, and the call waits for a response.
PostFailsSilently(c) ==
  /\ pc[c] = "post"
  /\ pc' = [pc EXCEPT ![c] = "wait"]
  /\ reqMutex' = "nobody"
  /\ UNCHANGED <<pending, input, shut, calls>>

\* The POST fails, or the arguments cannot be encoded.
PostFails(c) ==
  /\ pc[c] = "post"
  /\ pc' = [pc EXCEPT ![c] = "failed"]
  /\ pending' = pending \ {c}
  /\ reqMutex' = "nobody"
  /\ UNCHANGED <<input, shut, calls>>

\* It succeeds, and a body is there to be handed over.
Post(c) ==
  /\ pc[c] = "post"
  /\ pc' = [pc EXCEPT ![c] = "hand"]
  /\ UNCHANGED <<reqMutex, pending, input, shut, calls>>

\* The body passes through the channel bodyReader, which has no buffer.
HandOver(c) ==
  /\ pc[c] = "hand" /\ input = Receiving
  /\ pc' = [pc EXCEPT ![c] = "wait"]
  /\ input' = [at |-> "header", of |-> c]
  /\ reqMutex' = "nobody"
  /\ UNCHANGED <<pending, shut, calls>>

Stop == [at |-> "ended", of |-> "nobody"]

\* ReadResponseHeader: a body that is cut off ends the loop.
ReadResponseHeader ==
  /\ input.at = "header"
  /\ \/ input' = Stop /\ UNCHANGED pending
     \/ input' = [input EXCEPT !.at = "body"] /\ pending' = pending \ {input.of}
  /\ UNCHANGED <<pc, reqMutex, shut, calls>>

\* ReadResponseBody: the call is done, with its reply or an error; the loop goes on if
\* the body could be decoded, be it to nothing as after an error of the server.
ReadResponseBody ==
  /\ input.at = "body"
  /\ \/ pc' = [pc EXCEPT ![input.of] = "done"] /\ input' = Receiving
     \/ pc' = [pc EXCEPT ![input.of] = "failed"] /\ input' \in {Receiving, Stop}
  /\ UNCHANGED <<reqMutex, pending, shut, calls>>

\* After the loop: take the lock and fail the calls that are pending.
FailPending ==
  /\ input.at = "ended" /\ reqMutex = "nobody"
  /\ shut' = [shut EXCEPT !.shutdown = TRUE]
  /\ pc' = [c \in Callers |-> IF c \in pending THEN "failed" ELSE pc[c]]
  /\ pending' = {}
  /\ input' = [input EXCEPT !.at = "done"]
  /\ UNCHANGED <<reqMutex, calls>>

Return(c) ==
  /\ pc[c] \in {"done", "failed"}
  /\ pc' = [pc EXCEPT ![c] = "idle"]
  /\ UNCHANGED <<reqMutex, pending, input, shut, calls>>

\* ClientProxy.Close: the codec closes idle connections only, so the goroutine goes on.
Close ==
  /\ ~shut.closing
  /\ shut' = [shut EXCEPT !.closing = TRUE]
  /\ UNCHANGED <<pc, reqMutex, pending, input, calls>>

\* Steps that goroutines take by themselves.
Steps ==
  \/ \E c \in Callers : send(c) \/ PostFails(c) \/ Post(c) \/ HandOver(c) \/ Return(c)
  \/ ReadResponseHeader \/ ReadResponseBody \/ FailPending

Next == Steps \/ (\E c \in Callers : Call(c)) \/ Close

\* A POST ends in some way, and the number of calls is bounded, so that one of the
\* callers cannot have the lock from the others for ever.
Spec == Init /\ [][Next]_vars /\ WF_vars(Steps)

-----------------------------------------------------------------------------
\* The loop has ended while a caller has a body to hand over under the lock it needs.
Stuck == input.at = "ended" /\ \E c \in Callers : reqMutex = c /\ pc[c] = "hand"

\* Every call returns, unless a response that could not be decoded ended the loop before
\* the next caller handed over its body: then that caller and all others wait for
\* ever (WriteRequest, ReadResponseHeader).
CallsReturn ==
  /\ \A c \in Callers : (pc[c] # "idle") ~> (pc[c] = "idle" \/ Stuck)
  /\ [][Stuck => Stuck']_vars

\* A call that waits for its response is pending or in the hands of the goroutine, and
\* nobody else is (send, input).
NoCallForgotten ==
  \A c \in Callers :
    (c \in pending \/ (input.at = "body" /\ input.of = c)) <=> pc[c] \in {"post", "hand", "wait"}

\* Callers and the goroutine never all wait for each other, but in the state Stuck: while
\* a call is unfinished, some goroutine can go on (send, input, ReadResponseHeader).
SomeoneCanGo ==
  \/ Stuck \/ \A c \in Callers : pc[c] = "idle"
  \/ \E c \in Callers :
       \/ pc[c] \in {"post", "done", "failed"}
       \/ pc[c] = "lock" /\ reqMutex = "nobody"
       \/ pc[c] = "hand" /\ input = Receiving
  \/ input.at \in {"header", "body"}
  \/ input.at = "ended" /\ reqMutex = "nobody"
=============================================================================
