------------------------ MODULE MeshChannels_proofs ------------------------
(***************************************************************************)
(* The table of channels and the operations on it, for every number of     *)
(* peers, every list of requests and all bounds.                           *)
(*                                                                         *)
(* The invariant behind SentOnce: frames in a stream carry the numbers of  *)
(* calls so far, that of the call in progress only where its task has      *)
(* ended (InCallOrder), and a task that has ended in a stream that is not  *)
(* torn has written its frame (Delivered).                                 *)
(*                                                                         *)
(* The invariant behind GivenInOrder: of each peer, the objects given, in  *)
(* hand and unread stand in this order (GivenOrdered, HandInOrder,         *)
(* FramesInOrder), and none is missing while its channel is in the table   *)
(* or will come back and its stream is not torn (Readable, NoneMissing).   *)
(* A receive reads from such streams only (Reading), so that what it gives *)
(* follows on what was given before (NoGap).  CountsHonoured rests on what *)
(* a request takes of a frame (Cuts), for which the sums of the counts are *)
(* shown to grow (SumsGrow).                                               *)
(***************************************************************************)
EXTENDS MeshChannels, SequenceTheorems, WellFoundedInduction, TLAPS

Singles == {"recv", "recv_any", "send", "broadcast"}
Kinds == Batches \cup Singles \cup {"none"}

CallOK ==
  /\ call = [kind |-> call.kind, requests |-> call.requests, begun |-> call.begun,
             done |-> call.done, data |-> call.data]
  /\ call.kind \in Kinds
  /\ call.done \subseteq call.begun
  /\ call.begun \subseteq Peers \cap Targets(call.requests)
  /\ Batched => Targets(call.requests) \subseteq Peers /\ channels \cap Targets(call.requests) = {}
  /\ Idle => call = None
StreamsOK ==
  /\ channels \subseteq Peers /\ gone \subseteq Peers
  /\ torn \subseteq Peers \X {"in", "out"}
  /\ calls \in 0..MaxCalls
PeersOK ==
  /\ frames \in [Peers -> 0..MaxFrames]
  /\ made \in [Peers -> Nat]
  /\ \A q \in Peers : made[q] <= frames[q] * MaxObjects

Typed == CallOK /\ StreamsOK /\ PeersOK

-----------------------------------------------------------------------------
(* Types.                                                                  *)

LEMMA ConstantsOK == MaxFrames \in Nat /\ MaxObjects \in Nat /\ MaxCalls \in Nat /\ Peers \subseteq Nat /\ 0 \notin Peers
  BY MeshChannelsAssumption DEF Peers

LEMMA Multiples ==
  ASSUME NEW a \in Nat, NEW b \in Nat, a <= b
  PROVE  a * MaxObjects <= b * MaxObjects /\ (a + 1) * MaxObjects = a * MaxObjects + MaxObjects
         /\ a * MaxObjects \in Nat
<1>1. MaxObjects \in Nat
  BY ConstantsOK
<1>2. (b - a) * MaxObjects >= 0
  BY <1>1
<1>3. (b - a) * MaxObjects = b * MaxObjects - a * MaxObjects
  BY <1>1
<1>4. a * MaxObjects \in Nat /\ b * MaxObjects \in Nat
  BY <1>1
<1> QED
  BY <1>1, <1>2, <1>3, <1>4

LEMMA TypedImplies == Typed => TypeOK
<1> SUFFICES ASSUME Typed PROVE TypeOK
  OBVIOUS
<1>1. \A q \in Peers : made[q] \in 0..(MaxFrames * MaxObjects)
  <2> SUFFICES ASSUME NEW q \in Peers PROVE made[q] \in 0..(MaxFrames * MaxObjects)
    OBVIOUS
  <2>1. frames[q] \in Nat /\ MaxFrames \in Nat /\ frames[q] <= MaxFrames
    BY ConstantsOK DEF Typed, PeersOK
  <2>2. frames[q] * MaxObjects <= MaxFrames * MaxObjects /\ MaxFrames * MaxObjects \in Nat
    BY <2>1, Multiples
  <2>3. made[q] \in Nat /\ made[q] <= frames[q] * MaxObjects
    BY DEF Typed, PeersOK
  <2>4. frames[q] * MaxObjects \in Nat
    BY <2>1, Multiples
  <2> QED
    BY <2>2, <2>3, <2>4
<1>2. Batched => 0 \notin Targets(call.requests)
  BY ConstantsOK DEF Typed, CallOK
<1> QED
  BY <1>1, <1>2 DEF Typed, CallOK, StreamsOK, PeersOK, TypeOK, Kinds, Batches, Singles, Receiving

\* A call begins with nothing begun.
LEMMA BeginOK ==
  ASSUME NEW kind \in Batches \cup Singles, NEW requests, Begin(kind, requests),
         kind \in Batches => Targets(requests) \subseteq Peers /\ channels' \cap Targets(requests) = {}
  PROVE  CallOK'
  BY DEF Begin, CallOK, Batched, Idle, Kinds, Batches, Singles

LEMMA CallFrame == CallOK /\ UNCHANGED call /\ channels' \subseteq channels => CallOK'
  BY DEF CallOK, Batched, Idle
LEMMA StreamsFrame == StreamsOK /\ channels' \subseteq channels /\ UNCHANGED <<gone, torn, calls>> => StreamsOK'
  BY DEF StreamsOK
LEMMA PeersFrame == PeersOK /\ UNCHANGED <<frames, made>> => PeersOK'
  BY DEF PeersOK

LEMMA NoneOK == call' = None => CallOK'
  BY DEF None, CallOK, Batched, Idle, Batches, Kinds, Targets

LEMMA InitTyped == Init => Typed
<1> SUFFICES ASSUME Init PROVE Typed
  OBVIOUS
<1>1. CallOK
  BY DEF Init, None, CallOK, Batched, Idle, Batches, Kinds, Targets
<1>2. StreamsOK
  BY ConstantsOK DEF Init, StreamsOK
<1>3. \A q \in Peers : made[q] <= frames[q] * MaxObjects
  BY ConstantsOK DEF Init
<1>4. PeersOK
  BY <1>3, ConstantsOK DEF Init, PeersOK
<1> QED
  BY <1>1, <1>2, <1>4 DEF Typed

LEMMA BatchTyped ==
  ASSUME Typed, NEW kind \in Batches, NEW requests, Batch(kind, requests)
  PROVE  Typed'
<1>1. channels' \subseteq channels /\ PeersOK'
  BY PeersFrame DEF Batch, peers, Typed
<1>2. StreamsOK'
  BY <1>1, ConstantsOK DEF Batch, peers, Typed, StreamsOK
<1>3. CallOK'
  <2>1. CASE Targets(requests) \subseteq channels /\ channels' = channels \ Targets(requests) /\ Begin(kind, requests)
    BY <2>1, BeginOK DEF Typed, StreamsOK
  <2>2. CASE UNCHANGED call
    BY <2>2, <1>1, CallFrame DEF Typed
  <2> QED
    BY <2>1, <2>2 DEF Batch
<1> QED
  BY <1>1, <1>2, <1>3 DEF Typed

LEMMA SingleTyped ==
  ASSUME Typed, NEW kind \in Singles, NEW requests, Single(kind, requests)
  PROVE  Typed'
<1>1. CallOK'
  <2>1. Begin(kind, requests) /\ kind \notin Batches
    BY DEF Single, Singles, Batches
  <2> QED
    BY <2>1, BeginOK
<1>2. StreamsOK'
  BY ConstantsOK DEF Single, Typed, StreamsOK, peers
<1> QED
  BY <1>1, <1>2, PeersFrame DEF Typed, Single, peers

LEMMA StartTyped ==
  ASSUME Typed, NEW q \in Peers, StartReading(q) \/ StartWriting(q)
  PROVE  Typed'
<1>1. /\ q \in Pending /\ call' = [call EXCEPT !.begun = @ \cup {q}]
      /\ UNCHANGED <<channels, calls, torn, frames, made, gone>>
  BY DEF StartReading, StartWriting, Turn, peers
<1>2. q \in Targets(call.requests) /\ call # None
  BY <1>1 DEF Pending, None, Targets
<1>3. /\ call' = [kind |-> call.kind, requests |-> call.requests, begun |-> call.begun \cup {q},
                  done |-> call.done, data |-> call.data]
      /\ call.kind # "none"
  BY <1>1, <1>2 DEF Typed, CallOK, Idle
<1>4. CallOK'
  BY <1>1, <1>2, <1>3 DEF Typed, CallOK, Batched, Idle
<1> QED
  BY <1>1, <1>4, StreamsFrame, PeersFrame DEF Typed

LEMMA TakeTyped ==
  ASSUME Typed, NEW q \in Peers, Take(q)
  PROVE  Typed'
<1>1. PICK data : call' = [call EXCEPT !.done = @ \cup {q}, !.data = data]
  BY DEF Typed, CallOK, Take
<1>2. /\ call' = [kind |-> call.kind, requests |-> call.requests, begun |-> call.begun,
                  done |-> call.done \cup {q}, data |-> data]
      /\ q \in call.begun /\ call.kind # "none" /\ channels' = channels
  BY <1>1 DEF Typed, CallOK, Take, Receiving
<1>3. CallOK'
  BY <1>2 DEF Typed, CallOK, Batched, Idle
<1> QED
  BY <1>3, StreamsFrame, PeersFrame DEF Typed, Take

LEMMA WrittenTyped ==
  ASSUME Typed, NEW q \in Peers, Written(q)
  PROVE  Typed'
<1>1. /\ call' = [kind |-> call.kind, requests |-> call.requests, begun |-> call.begun,
                  done |-> call.done \cup {q}, data |-> call.data]
      /\ q \in call.begun /\ q \in Pending /\ channels' = channels
  BY DEF Typed, CallOK, Written, Turn
<1>2. call.kind # "none"
  BY <1>1 DEF Typed, CallOK, Idle, None
<1>3. CallOK'
  BY <1>1, <1>2 DEF Typed, CallOK, Batched, Idle
<1> QED
  BY <1>3, StreamsFrame, PeersFrame DEF Typed, Written, peers

LEMMA RefuseTyped ==
  ASSUME Typed, NEW q \in Peers, Refuse(q)
  PROVE  Typed'
<1>1. CallOK'
  BY NoneOK DEF Refuse
<1>2. StreamsOK'
  BY DEF Typed, CallOK, StreamsOK, Refuse
<1> QED
  BY <1>1, <1>2, PeersFrame DEF Typed, Refuse

LEMMA FailTyped ==
  ASSUME Typed, Fail
  PROVE  Typed'
<1>1. CallOK'
  BY NoneOK DEF Fail, Drop
<1>2. StreamsOK'
  BY DEF Typed, CallOK, StreamsOK, Fail, Drop, Direction
<1> QED
  BY <1>1, <1>2, PeersFrame DEF Typed, Fail

LEMMA FinishTyped ==
  ASSUME Typed, Finish
  PROVE  Typed'
<1>1. CallOK'
  BY NoneOK DEF Finish
<1>2. StreamsOK'
  BY DEF Typed, CallOK, StreamsOK, Finish, peers
<1> QED
  BY <1>1, <1>2, PeersFrame DEF Typed, Finish, peers

LEMMA PeerSendsTyped ==
  ASSUME Typed, NEW q \in Peers, NEW n \in 0..MaxObjects, PeerSends(q, n)
  PROVE  Typed'
<1>1. CallOK' /\ StreamsOK'
  BY CallFrame, StreamsFrame DEF Typed, PeerSends
<1>2. frames[q] \in Nat /\ frames[q] < MaxFrames /\ made[q] \in Nat /\ made[q] <= frames[q] * MaxObjects
  BY ConstantsOK DEF Typed, PeersOK, PeerSends
<1>3. made[q] + n <= (frames[q] + 1) * MaxObjects
  BY <1>2, ConstantsOK, Multiples
<1>4. frames' \in [Peers -> 0..MaxFrames] /\ made' \in [Peers -> Nat]
  BY <1>2, ConstantsOK DEF Typed, PeersOK, PeerSends
<1>5. \A r \in Peers : made'[r] <= frames'[r] * MaxObjects
  BY <1>3 DEF Typed, PeersOK, PeerSends
<1> QED
  BY <1>1, <1>4, <1>5 DEF Typed, PeersOK

LEMMA PeerLeavesTyped ==
  ASSUME Typed, NEW q \in Peers, PeerLeaves(q)
  PROVE  Typed'
<1>1. StreamsOK'
  BY DEF Typed, StreamsOK, PeerLeaves
<1> QED
  BY <1>1, CallFrame, PeersFrame DEF Typed, PeerLeaves

\* A call begins.
CallBegins ==
  \/ \E kind \in Batches : \E requests :
       (kind = "recv_many" => requests \in Receives) /\ Batch(kind, requests)
  \/ \E kind \in Singles : \E requests : Single(kind, requests)

\* Every step is a call that begins or ends, or a step of a task or of a peer.
LEMMA StepCases ==
  ASSUME Next
  PROVE  \/ CallBegins \/ Finish \/ Fail
         \/ \E q \in Peers : \/ StartReading(q) \/ StartWriting(q) \/ Take(q) \/ Refuse(q) \/ Written(q)
                             \/ PeerLeaves(q) \/ \E n \in 0..MaxObjects : PeerSends(q, n)
<1>1. \A requests \in Receives : RecvMany(requests) => CallBegins
  BY DEF RecvMany, Batches, CallBegins
<1>2. \A recipients \in Sends : SendMany(recipients) => CallBegins
  BY DEF SendMany, Batches, CallBegins
<1>3. Broadcast => CallBegins
  BY DEF Broadcast, Singles, CallBegins
<1>4. \A q \in Peers : Recv(q) => CallBegins
  BY DEF Recv, Singles, CallBegins
<1>5. \A q \in Peers : Send(q) => CallBegins
  BY DEF Send, Singles, CallBegins
<1>6. \A q \in Peers, count \in SingleCounts : RecvObjects(q, count) => CallBegins
  BY DEF RecvObjects, Singles, CallBegins
<1>7. \A q \in Peers : TaskFails(q) => Fail
  BY DEF TaskFails
<1>8. Cancel => Fail
  BY DEF Cancel
<1> QED
  BY <1>1, <1>2, <1>3, <1>4, <1>5, <1>6, <1>7, <1>8 DEF Next

LEMMA StutterTyped == Typed /\ UNCHANGED vars => Typed'
  BY CallFrame, StreamsFrame, PeersFrame DEF Typed, vars, peers

LEMMA StepTyped == Typed /\ [Next]_vars => Typed'
<1> SUFFICES ASSUME Typed, Next PROVE Typed'
  BY StutterTyped
<1>1. CASE CallBegins
  BY <1>1, BatchTyped, SingleTyped DEF CallBegins
<1>2. CASE Finish \/ Fail
  BY <1>2, FinishTyped, FailTyped
<1>3. ASSUME NEW q \in Peers, StartReading(q) \/ StartWriting(q) \/ Take(q) \/ Refuse(q) \/ Written(q) \/ PeerLeaves(q)
      PROVE  Typed'
  BY <1>3, StartTyped, TakeTyped, RefuseTyped, WrittenTyped, PeerLeavesTyped
<1>4. ASSUME NEW q \in Peers, NEW n \in 0..MaxObjects, PeerSends(q, n) PROVE Typed'
  BY <1>4, PeerSendsTyped
<1> QED
  BY <1>1, <1>2, <1>3, <1>4, StepCases

\* Every variable of the table of channels has its type, and a channel is
\* never in the table and in a batch at once.
THEOREM TypeCorrect == Spec => []TypeOK
<1>1. Spec => []Typed
  BY InitTyped, StepTyped, PTL DEF Spec
<1> QED
  BY <1>1, TypedImplies, PTL

-----------------------------------------------------------------------------
(* What is written to a peer.                                              *)

Sequence(s) == s \in Seq(Range(s))

LEMMA AppendIs ==
  ASSUME NEW s, Sequence(s), NEW e
  PROVE  /\ Sequence(Append(s, e))
         /\ Len(s) \in Nat /\ DOMAIN s = 1..Len(s) /\ DOMAIN Append(s, e) = 1..(Len(s) + 1)
         /\ \A i \in 1..Len(s) : Append(s, e)[i] = s[i]
         /\ Append(s, e)[Len(s) + 1] = e
         /\ Range(Append(s, e)) = Range(s) \cup {e}
<1>1. PICK S : S = Range(s)
  OBVIOUS
<1>2. s \in Seq(S) /\ s \in Seq(S \cup {e}) /\ e \in S \cup {e}
  BY <1>1 DEF Sequence
<1>3. Append(s, e) \in Seq(S \cup {e})
  BY <1>2
<1>4. /\ Len(s) \in Nat /\ DOMAIN s = 1..Len(s) /\ DOMAIN Append(s, e) = 1..(Len(s) + 1)
      /\ \A i \in 1..Len(s) : Append(s, e)[i] = s[i]
      /\ Append(s, e)[Len(s) + 1] = e
  BY <1>2
<1>5. Range(Append(s, e)) = Range(s) \cup {e}
  <2>1. \A i \in 1..(Len(s) + 1) : i \in 1..Len(s) \/ i = Len(s) + 1
    BY <1>4
  <2>2. \A x \in Range(s) : x \in Range(Append(s, e))
    BY <1>4 DEF Range
  <2>3. e \in Range(Append(s, e))
    BY <1>4 DEF Range
  <2> QED
    BY <1>4, <2>1, <2>2, <2>3 DEF Range
<1> QED
  BY <1>1, <1>3, <1>4, <1>5 DEF Sequence

StreamInOrder(q) ==
  /\ Sequence(wire[q])
  /\ \A i \in DOMAIN wire[q] :
       /\ wire[q][i][1] \in Nat /\ wire[q][i][1] <= calls
       /\ q \in Pending => wire[q][i][1] < calls
  /\ \A i, j \in DOMAIN wire[q] : i < j => wire[q][i][1] < wire[q][j][1]
InCallOrder ==
  /\ wire = [q \in Peers |-> wire[q]]
  /\ \A q \in Peers : StreamInOrder(q)

\* A call's frame to a peer is in its stream, if that is not torn.
Stands(q, number, requests) ==
  <<q, "out">> \in torn \/ <<number, IndicesOf(requests, q)>> \in Range(wire[q])
Delivered == call.kind \notin Receiving => \A q \in call.done : Stands(q, calls, call.requests)
Returned ==
  /\ Sequence(sent)
  /\ \A i \in DOMAIN sent : /\ Targets(sent[i].requests) \subseteq Peers
                            /\ \A q \in Targets(sent[i].requests) : Stands(q, sent[i].call, sent[i].requests)

SentInv == Typed /\ InCallOrder /\ Delivered /\ Returned

LEMMA SentImplies == SentInv => SentOnce
  BY DEF SentInv, InCallOrder, StreamInOrder, Returned, Stands, SentOnce

LEMMA InitSent == Init => SentInv
<1> SUFFICES ASSUME Init PROVE SentInv
  OBVIOUS
<1>1. Sequence(<< >>)
  BY DEF Sequence
<1>2. InCallOrder
  BY <1>1 DEF Init, InCallOrder, StreamInOrder
<1>3. Delivered /\ Returned
  BY <1>1 DEF Init, None, Delivered, Returned
<1> QED
  BY <1>2, <1>3, InitTyped DEF SentInv

\* Streams that grow no worse than torn keep the frames that stand in them.
LEMMA StandsFrame ==
  ASSUME torn \subseteq torn', UNCHANGED wire, NEW q, NEW number, NEW requests, Stands(q, number, requests)
  PROVE  Stands(q, number, requests)'
  BY DEF Stands

LEMMA ReturnedFrame ==
  ASSUME Returned, torn \subseteq torn', UNCHANGED <<wire, sent>>
  PROVE  Returned'
  BY StandsFrame DEF Returned

LEMMA OrderFrame ==
  ASSUME InCallOrder, UNCHANGED <<wire, calls>>, Pending' \subseteq Pending
  PROVE  InCallOrder'
  BY DEF InCallOrder, StreamInOrder

\* A new call has a number above those of all frames.
LEMMA OrderBegins ==
  ASSUME InCallOrder, calls \in Nat, calls' = calls + 1, UNCHANGED wire
  PROVE  InCallOrder'
  BY DEF InCallOrder, StreamInOrder

\* No call is in progress, or none of its tasks has begun.
LEMMA NothingDone ==
  ASSUME call'.done = {}
  PROVE  Delivered'
  BY DEF Delivered

LEMMA BeginsSent ==
  ASSUME SentInv, CallBegins
  PROVE  SentInv'
<1>1. Typed'
  BY BatchTyped, SingleTyped DEF CallBegins, SentInv
<1>2. /\ UNCHANGED <<torn, wire, sent>> /\ calls' = calls + 1 /\ Idle
      /\ call' = call \/ \E kind, requests : Begin(kind, requests)
  BY DEF CallBegins, Batch, Single, results
<1>3. InCallOrder'
  BY <1>2, OrderBegins, ConstantsOK DEF SentInv, Typed, StreamsOK
<1>4. call.done = {}
  BY <1>2 DEF SentInv, Typed, CallOK, Idle, None
<1>5. Delivered'
  BY <1>2, <1>4, NothingDone DEF Begin
<1> QED
  BY <1>1, <1>2, <1>3, <1>5, ReturnedFrame DEF SentInv

LEMMA StartSent ==
  ASSUME SentInv, NEW q \in Peers, StartReading(q) \/ StartWriting(q)
  PROVE  SentInv'
<1>1. /\ call' = [call EXCEPT !.begun = @ \cup {q}]
      /\ UNCHANGED <<calls, torn, wire, sent>>
  BY DEF StartReading, StartWriting, results
<1>2. call'.done = call.done /\ call'.kind = call.kind /\ call'.requests = call.requests
  BY <1>1 DEF SentInv, Typed, CallOK
<1>3. InCallOrder'
  BY <1>1, <1>2, OrderFrame DEF SentInv, Pending
<1>4. Delivered'
  BY <1>1, <1>2, StandsFrame DEF SentInv, Delivered
<1> QED
  BY <1>1, <1>3, <1>4, StartTyped, ReturnedFrame DEF SentInv

LEMMA TakeSent ==
  ASSUME SentInv, NEW q \in Peers, Take(q)
  PROVE  SentInv'
<1>1. UNCHANGED <<calls, torn, wire, sent>> /\ call.kind \in Receiving
  BY DEF Take, results
<1>2. call'.done = call.done \cup {q} /\ call'.kind = call.kind /\ call'.requests = call.requests
  BY DEF SentInv, Typed, CallOK, Take
<1>3. InCallOrder'
  BY <1>1, <1>2, OrderFrame DEF SentInv, Pending
<1>4. Delivered'
  BY <1>1, <1>2 DEF Delivered
<1> QED
  BY <1>1, <1>3, <1>4, TakeTyped, ReturnedFrame DEF SentInv

\* The call ends: nothing of it is pending any more.
LEMMA EndsSent ==
  ASSUME SentInv, call' = None, torn \subseteq torn', UNCHANGED <<calls, wire, sent>>
  PROVE  InCallOrder' /\ Delivered' /\ Returned'
<1>1. call'.done = {} /\ Pending' = {}
  BY DEF None, Pending, Targets
<1> QED
  BY <1>1, OrderFrame, NothingDone, ReturnedFrame DEF SentInv

LEMMA RefuseSent ==
  ASSUME SentInv, NEW q \in Peers, Refuse(q)
  PROVE  SentInv'
  BY EndsSent, RefuseTyped DEF Refuse, SentInv

LEMMA FailSent ==
  ASSUME SentInv, Fail
  PROVE  SentInv'
  BY EndsSent, FailTyped DEF Fail, Drop, SentInv, results

\* A frame goes behind those of earlier calls.
LEMMA WrittenSent ==
  ASSUME SentInv, NEW q \in Peers, Written(q)
  PROVE  SentInv'
<1>1. UNCHANGED <<calls, torn, sent>> /\ call.kind \notin Receiving /\ q \in Pending
  BY DEF Written, results, Turn
<1>2. call'.done = call.done \cup {q} /\ call'.kind = call.kind /\ call'.requests = call.requests
  BY DEF SentInv, Typed, CallOK, Written
<1>3. PICK frame : frame = <<calls, IndicesOf(call.requests, q)>>
  OBVIOUS
<1>4. frame[1] = calls /\ calls \in Nat
  BY <1>3 DEF SentInv, Typed, StreamsOK
<1>5. wire' = IF <<q, "out">> \in torn THEN wire ELSE [wire EXCEPT ![q] = Append(wire[q], frame)]
  BY <1>3 DEF Written
<1>6. Sequence(wire[q]) /\ wire = [r \in Peers |-> wire[r]]
  BY DEF SentInv, InCallOrder, StreamInOrder
<1>7. \A r \in Peers : Range(wire[r]) \subseteq Range(wire'[r])
  BY <1>5, <1>6, AppendIs
<1>8. \A r \in Peers : \A number, requests : Stands(r, number, requests) => Stands(r, number, requests)'
  BY <1>1, <1>7 DEF Stands
<1>9. InCallOrder'
  <2>1. q \notin Pending' /\ Pending' \subseteq Pending
    BY <1>2 DEF Pending
  <2>2. CASE <<q, "out">> \in torn
    BY <2>2, <2>1, <1>1, <1>5, OrderFrame DEF SentInv
  <2>3. CASE <<q, "out">> \notin torn
    <3>1. wire' = [r \in Peers |-> wire'[r]] /\ wire'[q] = Append(wire[q], frame)
          /\ \A r \in Peers \ {q} : wire'[r] = wire[r]
      BY <2>3, <1>5, <1>6
    <3>2. PICK n \in Nat : n = Len(wire[q])
      BY <1>6, AppendIs
    <3>3. /\ Sequence(wire'[q]) /\ DOMAIN wire[q] = 1..n /\ DOMAIN (wire'[q]) = 1..(n + 1)
          /\ \A i \in 1..n : wire'[q][i] = wire[q][i]
          /\ wire'[q][n + 1] = frame
      BY <3>1, <3>2, <1>6, AppendIs
    <3>4. \A i \in 1..n : wire[q][i][1] \in Nat /\ wire[q][i][1] < calls
      BY <3>3, <1>1 DEF SentInv, InCallOrder, StreamInOrder
    <3>5. \A i \in 1..(n + 1) : i \in 1..n \/ i = n + 1
      BY <3>2
    <3>6. \A i \in 1..(n + 1) : wire'[q][i][1] \in Nat /\ wire'[q][i][1] <= calls
      <4> SUFFICES ASSUME NEW i \in 1..(n + 1) PROVE wire'[q][i][1] \in Nat /\ wire'[q][i][1] <= calls
        OBVIOUS
      <4>1. CASE i \in 1..n
        <5>1. wire'[q][i] = wire[q][i]
          BY <4>1, <3>3
        <5> QED
          BY <5>1, <4>1, <3>4, <1>4
      <4>2. CASE i = n + 1
        BY <4>2, <3>3, <1>4
      <4> QED
        BY <4>1, <4>2, <3>5
    <3>7. \A i, j \in 1..n : i < j => wire[q][i][1] < wire[q][j][1]
      BY <3>3 DEF SentInv, InCallOrder, StreamInOrder
    <3>8. \A i, j \in 1..(n + 1) : i < j => i \in 1..n
      BY <3>2
    <3>9. \A i, j \in 1..(n + 1) : i < j => wire'[q][i][1] < wire'[q][j][1]
      BY <3>3, <3>4, <3>5, <3>7, <3>8, <1>4
    <3>10. StreamInOrder(q)'
      BY ONLY <3>3, <3>6, <3>9, <2>1, <1>1 DEF StreamInOrder
    <3>11. ASSUME NEW r \in Peers \ {q} PROVE StreamInOrder(r)'
      <4>1. StreamInOrder(r) /\ wire'[r] = wire[r]
        BY <3>1 DEF SentInv, InCallOrder
      <4> QED
        BY ONLY <4>1, <2>1, <1>1 DEF StreamInOrder
    <3>12. \A r \in Peers : StreamInOrder(r)'
      BY <3>10, <3>11
    <3> QED
      BY ONLY <3>1, <3>12 DEF InCallOrder
  <2> QED
    BY <2>2, <2>3
<1>10. Stands(q, calls, call.requests)'
  <2>1. CASE <<q, "out">> \in torn
    BY <2>1, <1>1 DEF Stands
  <2>2. CASE <<q, "out">> \notin torn
    <3>1. wire'[q] = Append(wire[q], frame)
      BY <2>2, <1>5, <1>6
    <3>2. frame \in Range(wire'[q])
      BY <3>1, <1>6, AppendIs
    <3> QED
      BY <3>2, <1>1, <1>2, <1>3 DEF Stands
  <2> QED
    BY <2>1, <2>2
<1>11. Delivered'
  <2>1. \A r \in call.done : r \in Peers /\ Stands(r, calls, call.requests)
    BY <1>1 DEF SentInv, Delivered, Typed, CallOK
  <2>2. \A r \in call.done : Stands(r, calls, call.requests)'
    BY <2>1, <1>1, <1>2, <1>8 DEF Stands
  <2> QED
    BY <2>2, <1>2, <1>10 DEF Delivered
<1>12. Returned'
  BY <1>1, <1>8 DEF SentInv, Returned, Stands
<1> QED
  BY <1>9, <1>11, <1>12, WrittenTyped DEF SentInv

\* A call that returns well has no task left.
LEMMA FinishSent ==
  ASSUME SentInv, Finish
  PROVE  SentInv'
<1>1. UNCHANGED <<calls, torn, wire>> /\ call' = None /\ Pending = {}
  BY DEF Finish
<1>2. InCallOrder' /\ Delivered'
  <2>1. call'.done = {} /\ Pending' = {}
    BY <1>1 DEF None, Pending, Targets
  <2> QED
    BY <2>1, <1>1, OrderFrame, NothingDone DEF SentInv
<1>3. Returned'
  <2>1. CASE UNCHANGED sent
    BY <2>1, <1>1, ReturnedFrame DEF SentInv
  <2>2. CASE call.kind \notin Receiving /\ sent' = Append(sent, [call |-> calls, requests |-> call.requests])
    <3>1. PICK s : s = [call |-> calls, requests |-> call.requests]
      OBVIOUS
    <3>2. Targets(call.requests) \subseteq call.done
      BY <1>1 DEF Pending
    <3>3. Targets(s.requests) \subseteq Peers
      BY <3>1, <3>2 DEF SentInv, Typed, CallOK
    <3>4. \A q \in Targets(s.requests) : Stands(q, s.call, s.requests)
      BY <3>1, <3>2, <2>2 DEF SentInv, Delivered
    <3>5. Sequence(sent)
      BY DEF SentInv, Returned
    <3>6. PICK n \in Nat : n = Len(sent)
      BY <3>5, AppendIs
    <3>7. /\ Sequence(sent') /\ DOMAIN sent = 1..n /\ DOMAIN sent' = 1..(n + 1)
          /\ \A i \in 1..n : sent'[i] = sent[i]
          /\ sent'[n + 1] = s
      BY <3>1, <3>5, <3>6, <2>2, AppendIs
    <3>8. \A i \in 1..(n + 1) : i \in 1..n \/ i = n + 1
      BY <3>6
    <3>9. \A i \in DOMAIN sent' :
             Targets(sent'[i].requests) \subseteq Peers
             /\ \A q \in Targets(sent'[i].requests) : Stands(q, sent'[i].call, sent'[i].requests)
      BY <3>3, <3>4, <3>7, <3>8 DEF SentInv, Returned
    <3> QED
      BY <3>7, <3>9, <1>1 DEF Returned, Stands
  <2> QED
    BY <2>1, <2>2 DEF Finish
<1> QED
  BY <1>2, <1>3, FinishTyped DEF SentInv

LEMMA PeerSent ==
  ASSUME SentInv, NEW q \in Peers, PeerLeaves(q) \/ \E n \in 0..MaxObjects : PeerSends(q, n)
  PROVE  SentInv'
<1>1. UNCHANGED <<call, calls, torn, wire, sent>>
  BY DEF PeerLeaves, PeerSends, results
<1>2. InCallOrder' /\ Delivered' /\ Returned'
  BY <1>1, OrderFrame, ReturnedFrame DEF SentInv, Pending, Delivered, Stands
<1> QED
  BY <1>2, PeerSendsTyped, PeerLeavesTyped DEF SentInv

LEMMA StepSent == SentInv /\ [Next]_vars => SentInv'
<1>1. ASSUME SentInv, UNCHANGED vars PROVE SentInv'
  <2>1. UNCHANGED <<call, calls, torn, wire, sent>>
    BY <1>1 DEF vars, results
  <2>2. InCallOrder' /\ Delivered' /\ Returned'
    BY <2>1, <1>1, OrderFrame, ReturnedFrame DEF SentInv, Pending, Delivered, Stands
  <2> QED
    BY <2>2, <1>1, StutterTyped DEF SentInv
<1> SUFFICES ASSUME SentInv, Next PROVE SentInv'
  BY <1>1
<1>2. CASE CallBegins \/ Finish \/ Fail
  BY <1>2, BeginsSent, FinishSent, FailSent
<1>3. ASSUME NEW q \in Peers, StartReading(q) \/ StartWriting(q) \/ Take(q) \/ Refuse(q) \/ Written(q)
      PROVE  SentInv'
  BY <1>3, StartSent, TakeSent, RefuseSent, WrittenSent
<1>4. ASSUME NEW q \in Peers, PeerLeaves(q) \/ \E n \in 0..MaxObjects : PeerSends(q, n) PROVE SentInv'
  BY <1>4, PeerSent
<1> QED
  BY <1>2, <1>3, <1>4, StepCases

\* A send that returns well has put its one frame in the stream of every
\* recipient that is not torn, and the frames of a stream stand in call order.
THEOREM FramesSentOnce == Spec => []SentOnce
<1>1. Spec => []SentInv
  BY InitSent, StepSent, PTL DEF Spec
<1> QED
  BY <1>1, SentImplies, PTL
-----------------------------------------------------------------------------
(* The objects that the first requests of a call take.                     *)

Smaller == {pair \in Nat \X Nat : pair[1] < pair[2]}

LEMMA LeastOf ==
  ASSUME NEW S, S \subseteq Nat, S # {}
  PROVE  \E m \in S : \A n \in S : m <= n
<1>1. IsWellFoundedOn(Smaller, Nat)
  BY NatLessThanWellFounded DEF Smaller, OpToRel
<1>2. PICK m \in S : \A n \in S : ~(<<n, m>> \in Smaller)
  BY <1>1, WFMin
<1>3. \A n \in S : ~(n < m)
  BY <1>2 DEF Smaller
<1> QED
  BY <1>3

LEMMA Induction ==
  ASSUME NEW S, 0 \in S, \A n \in Nat : n \in S => n + 1 \in S
  PROVE  Nat \subseteq S
<1> SUFFICES ASSUME Nat \ S # {} PROVE FALSE
  OBVIOUS
<1>1. PICK m \in Nat \ S : \A n \in Nat \ S : m <= n
  BY LeastOf
<1>2. m # 0 /\ m - 1 \in Nat /\ m - 1 \in S /\ (m - 1) + 1 = m
  BY <1>1
<1> QED
  BY <1>1, <1>2

\* Running sums of a list of numbers.
Sums(f, counts, n) == f = [k \in 0..n |-> IF k = 0 THEN 0 ELSE f[k - 1] + counts[k]]

LEMMA SumsExist == ASSUME NEW counts, NEW n \in Nat PROVE \E f : Sums(f, counts, n)
<1> DEFINE Good == {k \in Nat : \E f : Sums(f, counts, k)}
<1>1. 0 \in Good
  <2>1. PICK f : f = [k \in 0..0 |-> 0]
    OBVIOUS
  <2>2. \A k \in 0..0 : k = 0
    OBVIOUS
  <2> QED BY <2>1, <2>2 DEF Sums
<1>2. ASSUME NEW k \in Nat, k \in Good PROVE k + 1 \in Good
  <2>1. PICK f : Sums(f, counts, k)
    BY <1>2
  <2>2. PICK g : g = [j \in 0 .. k + 1 |-> IF j = k + 1 THEN f[k] + counts[k + 1] ELSE f[j]]
    OBVIOUS
  <2>3. ASSUME NEW j \in 0 .. k + 1 PROVE g[j] = IF j = 0 THEN 0 ELSE g[j - 1] + counts[j]
    <3>1. CASE j = k + 1
      <4>1. g[j] = f[k] + counts[k + 1] /\ k \in 0 .. k + 1 /\ k # k + 1 /\ j - 1 = k
        BY <2>2, <3>1
      <4>2. g[k] = f[k]
        BY <2>2, <4>1
      <4> QED BY <3>1, <4>1, <4>2
    <3>2. CASE j # k + 1 /\ j # 0
      <4>1. j \in 0..k /\ j - 1 \in 0 .. k + 1 /\ j - 1 # k + 1
        BY <3>2
      <4>2. g[j] = f[j] /\ g[j - 1] = f[j - 1]
        BY <2>2, <3>2, <4>1
      <4> QED BY <2>1, <3>2, <4>1, <4>2 DEF Sums
    <3>3. CASE j = 0 /\ j # k + 1
      <4>1. 0 \in 0..k
        OBVIOUS
      <4> QED BY <2>1, <2>2, <3>3, <4>1 DEF Sums
    <3> QED BY <3>1, <3>2, <3>3
  <2>4. g = [j \in 0 .. k + 1 |-> g[j]]
    BY <2>2
  <2>5. Sums(g, counts, k + 1)
    BY <2>3, <2>4 DEF Sums
  <2> QED BY <2>5
<1> HIDE DEF Good
<1>3. Nat \subseteq Good
  BY <1>1, <1>2, Induction
<1> QED BY <1>3 DEF Good

\* Running sums of natural numbers grow, and their steps cover all up to the last.
LEMMA SumsGrow ==
  ASSUME NEW f, NEW counts, NEW n \in Nat, Sums(f, counts, n), \A k \in 1..n : counts[k] \in Nat
  PROVE  /\ \A k \in 0..n : f[k] \in Nat
         /\ f[0] = 0 /\ \A k \in 1..n : f[k] = f[k - 1] + counts[k]
         /\ \A j, k \in 0..n : j <= k => f[j] <= f[k]
         /\ \A m \in 1..f[n] : \E k \in 1..n : f[k - 1] < m /\ m <= f[k]
<1>1. f[0] = 0 /\ \A k \in 1..n : f[k] = f[k - 1] + counts[k]
  <2>1. \A k \in 0..n : f[k] = IF k = 0 THEN 0 ELSE f[k - 1] + counts[k]
    BY DEF Sums
  <2>2. 0 \in 0..n /\ \A k \in 1..n : k \in 0..n /\ k # 0
    OBVIOUS
  <2> QED BY <2>1, <2>2
<1>2. \A k \in 0..n : f[k] \in Nat
  <2> DEFINE Good == {k \in Nat : k <= n => f[k] \in Nat}
  <2>1. 0 \in Good
    BY <1>1
  <2>2. ASSUME NEW k \in Nat, k \in Good PROVE k + 1 \in Good
    <3> SUFFICES ASSUME k + 1 <= n PROVE f[k + 1] \in Nat
      OBVIOUS
    <3>1. f[k + 1] = f[(k + 1) - 1] + counts[k + 1] /\ counts[k + 1] \in Nat /\ (k + 1) - 1 = k
      BY <1>1
    <3>2. f[k] \in Nat
      BY <2>2
    <3> QED BY <3>1, <3>2
  <2> HIDE DEF Good
  <2>3. Nat \subseteq Good
    BY <2>1, <2>2, Induction
  <2> QED BY <2>3 DEF Good
<1>3. \A j, k \in 0..n : j <= k => f[j] <= f[k]
  <2> SUFFICES ASSUME NEW j \in 0..n PROVE \A k \in 0..n : j <= k => f[j] <= f[k]
    OBVIOUS
  <2> DEFINE Good == {d \in Nat : j + d <= n => f[j] <= f[j + d]}
  <2>1. 0 \in Good
    BY <1>2
  <2>2. ASSUME NEW d \in Nat, d \in Good PROVE d + 1 \in Good
    <3> SUFFICES ASSUME j + (d + 1) <= n PROVE f[j] <= f[j + (d + 1)]
      OBVIOUS
    <3>1. j + (d + 1) \in 1..n /\ (j + (d + 1)) - 1 = j + d /\ j + d \in 0..n
      OBVIOUS
    <3>2. f[j + (d + 1)] = f[j + d] + counts[j + (d + 1)] /\ counts[j + (d + 1)] \in Nat
      BY <1>1, <3>1
    <3>3. f[j] <= f[j + d]
      BY <2>2
    <3> QED BY <1>2, <3>1, <3>2, <3>3
  <2> HIDE DEF Good
  <2>3. Nat \subseteq Good
    BY <2>1, <2>2, Induction
  <2>4. ASSUME NEW k \in 0..n, j <= k PROVE f[j] <= f[k]
    <3>1. k - j \in Nat /\ j + (k - j) = k
      BY <2>4
    <3> QED BY <2>3, <3>1 DEF Good
  <2> QED BY <2>4
<1>4. ASSUME NEW m \in 1..f[n] PROVE \E k \in 1..n : f[k - 1] < m /\ m <= f[k]
  <2> DEFINE Up == {k \in 0..n : m <= f[k]}
  <2>1. n \in Up /\ Up \subseteq Nat
    BY <1>2
  <2>2. PICK k \in Up : \A j \in Up : k <= j
    BY <2>1, LeastOf
  <2>3. k # 0
    BY <1>1, <2>2
  <2>4. k \in 1..n /\ k - 1 \in 0..n /\ k - 1 \notin Up
    BY <2>2, <2>3
  <2>5. f[k - 1] < m
    BY <1>2, <2>4
  <2> QED BY <2>2, <2>4, <2>5
<1> QED BY <1>1, <1>2, <1>3, <1>4

\* How many objects of q each request takes.
TakenBy(q) == [k \in 1 .. Len(call.requests) |->
                 IF call.requests[k].peer = q THEN Expected(call.requests[k].count) ELSE 0]

LEMMA TakenSums == ASSUME NEW q, Len(call.requests) \in Nat PROVE Sums(Taken(q), TakenBy(q), Len(call.requests))
<1> DEFINE n == Len(call.requests)
           Steps(f) == f = [k \in 0..n |-> IF k = 0 THEN 0
                              ELSE f[k - 1] + IF call.requests[k].peer = q THEN Expected(call.requests[k].count) ELSE 0]
<1>1. \A f : Sums(f, TakenBy(q), n) <=> Steps(f)
  <2> SUFFICES ASSUME NEW f PROVE Sums(f, TakenBy(q), n) <=> Steps(f)
    OBVIOUS
  <2>1. \A k \in 0..n : k # 0 => k \in 1..n
    OBVIOUS
  <2>2. [k \in 0..n |-> IF k = 0 THEN 0 ELSE f[k - 1] + TakenBy(q)[k]]
         = [k \in 0..n |-> IF k = 0 THEN 0
              ELSE f[k - 1] + IF call.requests[k].peer = q THEN Expected(call.requests[k].count) ELSE 0]
    BY <2>1 DEF TakenBy
  <2> QED BY <2>2 DEF Sums
<1>2. \E f : Steps(f)
  BY <1>1, SumsExist
<1>3. Taken(q) = CHOOSE f : Steps(f)
  BY DEF Taken
<1>4. Steps(Taken(q))
  BY <1>2, <1>3
<1> QED BY <1>1, <1>4
-----------------------------------------------------------------------------
(* What the caller is given.                                               *)

Requests == [peer : Nat, count : Nat]
Objs == Peers \X Nat

\* The frame of q that the call in hand has read and not yet returned.
InHand(q) == IF call.kind \in Receiving /\ q \in call.done THEN call.data[q] ELSE << >>

\* The types behind the objects: frames, requests and results are sequences.
Asking ==
  /\ call.kind \in Receiving => call.requests \in Seq(Requests)
  /\ call.kind \in {"recv", "recv_any"} => Len(call.requests) = 1
ObjectsTyped ==
  /\ inbox \in [Peers -> Seq(Seq(Objs))]
  /\ call.kind \in Receiving => call.data \in [Peers -> Seq(Objs)]
  /\ Sequence(got)
  /\ \A i \in DOMAIN got : /\ got[i].requests \in Seq(Requests)
                           /\ got[i].results \in [DOMAIN got[i].requests -> Seq(Objs)]

\* Peers whose channel is there, or will be put back, and whose frames can be read.
Mine == channels \cup IF Batched THEN Targets(call.requests) ELSE {}
Readable == {q \in Mine : <<q, "in">> \notin torn}

\* A receive reads from channels of its own and from streams that are not torn, and
\* what it is reading is there.
Reading ==
  call.kind \in Receiving =>
    /\ Targets(call.requests) \subseteq Mine
    /\ \A q \in call.begun : <<q, "in">> \notin torn
    /\ \A q \in call.begun \ call.done : inbox[q] # << >>

\* The objects of q stand in order: those given, those in hand, those unread.
Numbered(q) == {q} \X (1..made[q])
FramesInOrder(q) ==
  /\ Unread(q) \subseteq Numbered(q)
  /\ \A i \in DOMAIN inbox[q] : /\ Ascending(inbox[q][i])
                                /\ \A j \in DOMAIN inbox[q] : i < j => Before(Range(inbox[q][i]), Range(inbox[q][j]))
HandInOrder(q) ==
  /\ Range(InHand(q)) \subseteq Numbered(q)
  /\ Ascending(InHand(q)) /\ Before(Range(InHand(q)), Unread(q))
  /\ call.kind \in Receiving /\ q \in call.done => Fits(q, call.data[q])
ResultsOrdered(gs, q) ==
  /\ \A i \in DOMAIN gs : \A k \in Lots(gs[i], q) :
       /\ Ascending(gs[i].results[k])
       /\ \A l \in Lots(gs[i], q) : k < l => Before(Range(gs[i].results[k]), Range(gs[i].results[l]))
  /\ \A i, j \in DOMAIN gs : i < j => Before(GivenBy(gs[i], q), GivenBy(gs[j], q))
GivenOrdered(q) ==
  /\ Given(q) \subseteq Numbered(q)
  /\ Before(Given(q), Range(InHand(q)) \cup Unread(q))
  /\ ResultsOrdered(got, q)

\* Nothing is missing of a peer that can be read from, and nothing before what was given.
NoneMissing(q) ==
  q \in Readable => Numbered(q) \subseteq Given(q) \cup refused \cup Range(InHand(q)) \cup Unread(q)
NoGap(q) == \A object \in Given(q) : {q} \X (1..object[2]) \subseteq Given(q) \cup refused

GivenInv ==
  /\ Typed /\ Asking /\ Reading /\ ObjectsTyped
  /\ \A q \in Peers : FramesInOrder(q) /\ HandInOrder(q) /\ GivenOrdered(q) /\ NoneMissing(q) /\ NoGap(q)

LEMMA GivenImplies == GivenInv => GivenInOrder
<1> SUFFICES ASSUME GivenInv, NEW q \in Peers, Idle, q \in channels, <<q, "in">> \notin torn
             PROVE  {q} \X (1..made[q]) \subseteq Given(q) \cup refused \cup Unread(q)
  BY DEF GivenInv, GivenOrdered, ResultsOrdered, NoGap, Numbered, GivenInOrder
<1>1. InHand(q) = << >> /\ Range(<< >>) = {}
  BY DEF InHand, Idle, Receiving, Range
<1> QED BY <1>1 DEF GivenInv, NoneMissing, Readable, Mine, Numbered

LEMMA InitGiven == Init => GivenInv
<1> SUFFICES ASSUME Init PROVE GivenInv
  OBVIOUS
<1>1. /\ call.kind = "none" /\ got = << >> /\ DOMAIN got = {} /\ Sequence(got)
      /\ inbox = [q \in Peers |-> << >>] /\ \A q \in Peers : made[q] = 0
  BY DEF Init, None, Sequence
<1>2. Asking
  BY <1>1 DEF Asking, Receiving
<1>3. << >> \in Seq(Seq(Objs))
  OBVIOUS
<1>4. ObjectsTyped
  BY <1>1, <1>3 DEF ObjectsTyped, Receiving
<1>5. \A q \in Peers : InHand(q) = << >> /\ Unread(q) = {} /\ Given(q) = {} /\ Numbered(q) = {} /\ Range(<< >>) = {}
  BY <1>1 DEF InHand, Receiving, Unread, Given, Numbered, Range
<1> QED BY <1>1, <1>2, <1>4, <1>5, InitTyped
  DEF GivenInv, Reading, FramesInOrder, HandInOrder, GivenOrdered, ResultsOrdered, NoneMissing, NoGap, Before, Ascending, Receiving

\* Whatever leaves the objects where they are keeps them in order.
LEMMA GivenFrame ==
  ASSUME GivenInv, Typed', Asking', Reading', UNCHANGED <<inbox, made, got, refused>>,
         call'.kind \in Receiving => call'.data \in [Peers -> Seq(Objs)],
         \A q \in Peers : /\ InHand(q)' = InHand(q)
                          /\ (call.kind \in Receiving /\ q \in call.done => Fits(q, call.data[q]))'
                          /\ q \in Readable' => q \in Readable
  PROVE  GivenInv'
<1>1. ObjectsTyped'
  BY DEF GivenInv, ObjectsTyped
<1>2. ASSUME NEW q \in Peers PROVE Unread(q)' = Unread(q) /\ Given(q)' = Given(q) /\ Numbered(q)' = Numbered(q)
  BY DEF Unread, Given, Numbered, GivenBy, Lots
<1>3. ASSUME NEW q \in Peers
      PROVE  FramesInOrder(q)' /\ HandInOrder(q)' /\ GivenOrdered(q)' /\ NoneMissing(q)' /\ NoGap(q)'
  <2>1. FramesInOrder(q) /\ HandInOrder(q) /\ GivenOrdered(q) /\ NoneMissing(q) /\ NoGap(q)
    BY DEF GivenInv
  <2>2. FramesInOrder(q)'
    BY <1>2, <2>1 DEF FramesInOrder
  <2>3. HandInOrder(q)'
    BY <1>2, <2>1 DEF HandInOrder
  <2>4. GivenOrdered(q)'
    BY <1>2, <2>1 DEF GivenOrdered
  <2>5. NoneMissing(q)' /\ NoGap(q)'
    BY <1>2, <2>1 DEF NoneMissing, NoGap
  <2> QED BY <2>2, <2>3, <2>4, <2>5
<1> QED BY <1>1, <1>3 DEF GivenInv

\* A call begins with nothing in hand.
LEMMA IdleHand == ASSUME call.done = {} \/ call.kind \notin Receiving, NEW q PROVE InHand(q) = << >>
  BY DEF InHand

\* What a call that begins asks for.
GivenBegins ==
  \/ \E kind \in Batches : \E requests : (kind = "recv_many" => requests \in Receives) /\ Batch(kind, requests)
  \/ \E kind \in Singles : \E requests :
       /\ kind \in {"recv", "recv_any"} =>
            requests \in Seq(Requests) /\ Len(requests) = 1 /\ Targets(requests) \subseteq channels
       /\ Single(kind, requests)

LEMMA BeginsGiven == ASSUME GivenInv, GivenBegins PROVE GivenInv'
<1>1. CallBegins
  BY DEF GivenBegins, CallBegins
<1>2. Typed' /\ Typed
  BY <1>1, BatchTyped, SingleTyped DEF CallBegins, GivenInv
<1>3. Idle /\ call.kind \notin Receiving /\ UNCHANGED <<torn, inbox, made, got, refused>>
  BY DEF GivenBegins, Batch, Single, results, peers, Idle, Receiving
<1>4. \A q \in Peers : InHand(q) = << >>
  BY <1>3, IdleHand
<1>5. CASE UNCHANGED call
  <2>1. channels' \subseteq channels
    BY <1>1 DEF CallBegins, Batch, Single
  <2>2. \A q \in Peers : InHand(q)' = InHand(q) /\ (q \in Readable' => q \in Readable)
    BY <1>3, <1>5, <2>1 DEF InHand, Readable, Mine, Batched
  <2>3. Asking' /\ Reading'
    BY <1>3, <1>5 DEF GivenInv, Asking, Reading
  <2> QED BY <1>2, <1>3, <1>5, <2>2, <2>3, GivenFrame
<1>6. ASSUME NEW kind \in Kinds, NEW requests, Begin(kind, requests),
             kind \in Receiving => requests \in Seq(Requests),
             kind \in {"recv", "recv_any"} => Len(requests) = 1,
             channels' \subseteq channels, kind \in Batches => Targets(requests) \subseteq channels,
             kind \in {"recv", "recv_any"} => Targets(requests) \subseteq channels'
      PROVE  GivenInv'
  <2>1. /\ call'.kind = kind /\ call'.requests = requests /\ call'.done = {} /\ call'.begun = {}
        /\ call'.data = [q \in Peers |-> << >>]
    BY <1>6 DEF Begin
  <2>2. Asking'
    BY <1>6, <2>1 DEF Asking
  <2>6. Reading'
    BY <1>6, <2>1 DEF Reading, Mine, Batched, Batches, Receiving
  <2>3. \A q \in Peers : InHand(q)' = InHand(q)
    BY <1>4, <2>1 DEF InHand
  <2>4. \A q \in Peers : q \in Readable' => q \in Readable
    BY <1>3, <1>6, <2>1 DEF Readable, Mine, Batched
  <2>5. [q \in Peers |-> << >>] \in [Peers -> Seq(Objs)]
    OBVIOUS
  <2> QED BY <1>2, <1>3, <2>1, <2>2, <2>3, <2>4, <2>5, <2>6, GivenFrame
<1>7. CASE \E kind \in Batches : \E requests : (kind = "recv_many" => requests \in Receives) /\ Batch(kind, requests)
  <2>0. PICK kind \in Batches : \E requests : (kind = "recv_many" => requests \in Receives) /\ Batch(kind, requests)
    BY <1>7
  <2>1. PICK requests : (kind = "recv_many" => requests \in Receives) /\ Batch(kind, requests)
    BY <2>0
  <2>2. /\ kind \in Kinds /\ kind \notin {"recv", "recv_any"}
        /\ kind \in Receiving => kind = "recv_many"
    BY DEF Batches, Kinds, Receiving
  <2>3. requests \in Receives => requests \in Seq(Requests)
    BY MeshChannelsAssumption DEF Requests
  <2> QED BY <1>5, <1>6, <2>1, <2>2, <2>3 DEF Batch
<1>8. CASE \E kind \in Singles : \E requests :
             /\ kind \in {"recv", "recv_any"} =>
                  requests \in Seq(Requests) /\ Len(requests) = 1 /\ Targets(requests) \subseteq channels
             /\ Single(kind, requests)
  <2>0. PICK kind \in Singles : \E requests :
               /\ kind \in {"recv", "recv_any"} =>
                    requests \in Seq(Requests) /\ Len(requests) = 1 /\ Targets(requests) \subseteq channels
               /\ Single(kind, requests)
    BY <1>8
  <2>1. PICK requests :
               /\ kind \in {"recv", "recv_any"} =>
                    requests \in Seq(Requests) /\ Len(requests) = 1 /\ Targets(requests) \subseteq channels
               /\ Single(kind, requests)
    BY <2>0
  <2>2. /\ kind \in Kinds /\ kind \notin Batches
        /\ kind \in Receiving => kind \in {"recv", "recv_any"}
    BY DEF Singles, Kinds, Batches, Receiving
  <2> QED BY <1>6, <2>1, <2>2 DEF Single
<1> QED BY <1>7, <1>8 DEF GivenBegins

LEMMA StartGiven == ASSUME GivenInv, NEW q \in Peers, StartReading(q) \/ StartWriting(q) PROVE GivenInv'
<1>1. /\ call' = [call EXCEPT !.begun = @ \cup {q}] /\ channels' = channels
      /\ UNCHANGED <<torn, inbox, made, got, refused>>
  BY DEF StartReading, StartWriting, results, peers
<1>2. /\ call'.done = call.done /\ call'.kind = call.kind /\ call'.requests = call.requests /\ call'.data = call.data
  BY <1>1 DEF GivenInv, Typed, CallOK
<1>3. Asking' /\ \A r \in Peers : InHand(r)' = InHand(r)
  BY <1>2 DEF GivenInv, Asking, InHand
<1>4. Mine' = Mine /\ Readable' = Readable
  BY <1>1, <1>2 DEF Readable, Mine, Batched
<1>9. Reading'
  <2>1. call'.begun = call.begun \cup {q}
    BY <1>1 DEF GivenInv, Typed, CallOK
  <2>2. call.kind \in Receiving => inbox[q] # << >> /\ <<q, "in">> \notin torn
    BY DEF StartReading, StartWriting
  <2> QED BY <1>1, <1>2, <1>4, <2>1, <2>2 DEF GivenInv, Reading
<1>5. \A r, objects : Fits(r, objects)' <=> Fits(r, objects)
  BY <1>2 DEF Fits, Taken, Expected
<1>6. \A r \in Peers : (call.kind \in Receiving /\ r \in call.done => Fits(r, call.data[r]))'
  BY <1>2, <1>5 DEF GivenInv, HandInOrder
<1>7. Typed'
  BY StartTyped DEF GivenInv
<1>8. call'.kind \in Receiving => call'.data \in [Peers -> Seq(Objs)]
  BY <1>2 DEF GivenInv, ObjectsTyped
<1> QED BY <1>1, <1>3, <1>4, <1>6, <1>7, <1>8, <1>9, GivenFrame

LEMMA WrittenGiven == ASSUME GivenInv, NEW q \in Peers, Written(q) PROVE GivenInv'
<1>1. UNCHANGED <<torn, inbox, made, got, refused, channels>> /\ call.kind \notin Receiving
  BY DEF Written, results, peers
<1>2. call'.kind = call.kind /\ call'.requests = call.requests
  BY DEF Written, GivenInv, Typed, CallOK
<1>3. Asking' /\ Reading' /\ \A r \in Peers : InHand(r)' = InHand(r)
  BY <1>1, <1>2 DEF GivenInv, Asking, Reading, InHand
<1>4. Readable' = Readable
  BY <1>1, <1>2 DEF Readable, Mine, Batched
<1>5. Typed'
  BY WrittenTyped DEF GivenInv
<1> QED BY <1>1, <1>2, <1>3, <1>4, <1>5, GivenFrame

LEMMA NoHand ==
  ASSUME GivenInv, Pending # {}, NEW q \in channels
  PROVE  InHand(q) = << >>
<1> SUFFICES ASSUME call.kind \in Receiving, q \in call.done PROVE FALSE
  BY DEF InHand
<1>1. q \in Targets(call.requests) /\ ~Batched
  BY DEF GivenInv, Typed, CallOK
<1>2. call.requests \in Seq(Requests) /\ Len(call.requests) = 1
  BY <1>1 DEF GivenInv, Asking, Receiving, Batches, Batched
<1>3. Targets(call.requests) = {q}
  BY <1>1, <1>2 DEF Targets
<1> QED BY <1>3 DEF Pending

\* Reading a frame takes the first of those unread.
LEMMA Pop ==
  ASSUME GivenInv, NEW q \in Peers, inbox[q] # << >>, inbox'[q] = Tail(inbox[q]), UNCHANGED made
  PROVE  /\ Tail(inbox[q]) \in Seq(Seq(Objs)) /\ Head(inbox[q]) \in Seq(Objs) /\ Ascending(Head(inbox[q]))
         /\ Unread(q) = Range(Head(inbox[q])) \cup Unread(q)' /\ Before(Range(Head(inbox[q])), Unread(q)')
         /\ FramesInOrder(q)' /\ Numbered(q)' = Numbered(q)
<1> DEFINE s == inbox[q]
           n == Len(s)
<1>1. /\ s \in Seq(Seq(Objs)) /\ s # << >> /\ n \in Nat /\ n >= 1 /\ DOMAIN s = 1..n
      /\ Head(s) = s[1] /\ Head(s) \in Seq(Objs)
      /\ Tail(s) \in Seq(Seq(Objs)) /\ Len(Tail(s)) = n - 1 /\ DOMAIN Tail(s) = 1 .. n - 1
      /\ \A i \in 1 .. n - 1 : Tail(s)[i] = s[i + 1]
  BY HeadTailProperties DEF GivenInv, ObjectsTyped
<1>2. inbox'[q] = Tail(s)
  OBVIOUS
<1>3. FramesInOrder(q)
  BY DEF GivenInv
<1>4. 1 \in 1..n /\ \A i \in 1 .. n - 1 : i + 1 \in 1..n /\ 1 < i + 1
  BY <1>1
<1>5. Unread(q)' = UNION {Range(s[i + 1]) : i \in 1 .. n - 1}
  BY <1>1, <1>2 DEF Unread
<1>6. Unread(q) = Range(Head(s)) \cup Unread(q)'
  <2>1. \A i \in 1..n : i = 1 \/ (i - 1 \in 1 .. n - 1 /\ (i - 1) + 1 = i)
    BY <1>1
  <2>2. Unread(q) = UNION {Range(s[i]) : i \in 1..n}
    BY <1>1 DEF Unread
  <2>3. ASSUME NEW x \in Unread(q) PROVE x \in Range(Head(s)) \cup Unread(q)'
    <3>1. PICK i \in 1..n : x \in Range(s[i])
      BY <2>2, <2>3
    <3>2. CASE i = 1
      BY <1>1, <3>1, <3>2
    <3>3. CASE i - 1 \in 1 .. n - 1 /\ (i - 1) + 1 = i
      <4>1. PICK j \in 1 .. n - 1 : j + 1 = i
        BY <3>3
      <4>2. x \in Range(s[j + 1])
        BY <3>1, <4>1
      <4> QED BY <1>5, <4>1, <4>2
    <3> QED BY <2>1, <3>2, <3>3
  <2>4. ASSUME NEW x \in Range(Head(s)) \cup Unread(q)' PROVE x \in Unread(q)
    BY <1>1, <1>4, <1>5, <2>2, <2>4
  <2> QED BY <2>3, <2>4
<1>7. Ascending(Head(s)) /\ \A i \in 1 .. n - 1 : Before(Range(Head(s)), Range(s[i + 1]))
  BY <1>1, <1>3, <1>4 DEF FramesInOrder
<1>8. Before(Range(Head(s)), Unread(q)')
  BY <1>5, <1>7 DEF Before
<1>9. Numbered(q)' = Numbered(q)
  BY DEF Numbered
<1>10. FramesInOrder(q)'
  <2>1. Unread(q)' \subseteq Numbered(q)'
    BY <1>3, <1>6, <1>9 DEF FramesInOrder
  <2>2. ASSUME NEW i \in 1 .. n - 1
        PROVE  /\ Ascending(s[i + 1])
               /\ \A j \in 1 .. n - 1 : i < j => Before(Range(s[i + 1]), Range(s[j + 1]))
    <3>1. i + 1 \in DOMAIN s /\ \A j \in 1 .. n - 1 : j + 1 \in DOMAIN s /\ (i < j => i + 1 < j + 1)
      BY <1>1, <1>4
    <3> QED BY <1>3, <3>1 DEF FramesInOrder
  <2>3. \A i \in DOMAIN inbox'[q] : i \in 1 .. n - 1 /\ inbox'[q][i] = s[i + 1]
    BY <1>1, <1>2
  <2> HIDE DEF s, n
  <2> QED BY ONLY <2>1, <2>2, <2>3 DEF FramesInOrder
<1> QED BY <1>1, <1>6, <1>7, <1>8, <1>9, <1>10

\* A stream from which nothing is read.
LEMMA Stays ==
  ASSUME GivenInv, NEW q \in Peers, inbox'[q] = inbox[q], UNCHANGED made
  PROVE  FramesInOrder(q)' /\ Numbered(q)' = Numbered(q) /\ Unread(q)' = Unread(q)
<1>1. Unread(q)' = Unread(q) /\ Numbered(q)' = Numbered(q)
  BY DEF Unread, Numbered
<1> QED BY <1>1 DEF GivenInv, FramesInOrder

\* A call that ends without a result loses the frames that it has half read.
LEMMA HalvesLost ==
  ASSUME GivenInv, UNCHANGED made,
         inbox' = [q \in Peers |-> IF HalfRead(q) THEN Tail(inbox[q]) ELSE inbox[q]]
  PROVE  /\ inbox' \in [Peers -> Seq(Seq(Objs))]
         /\ \A q \in Peers : /\ FramesInOrder(q)' /\ Numbered(q)' = Numbered(q)
                             /\ Unread(q)' \subseteq Unread(q)
                             /\ HalfRead(q) => Unread(q) = Range(Head(inbox[q])) \cup Unread(q)'
                             /\ ~HalfRead(q) => Unread(q)' = Unread(q)
<1>1. ASSUME NEW q \in Peers, HalfRead(q)
      PROVE  /\ inbox'[q] \in Seq(Seq(Objs)) /\ FramesInOrder(q)' /\ Numbered(q)' = Numbered(q)
             /\ Unread(q) = Range(Head(inbox[q])) \cup Unread(q)'
  <2>1. inbox[q] # << >> /\ inbox'[q] = Tail(inbox[q])
    BY <1>1 DEF HalfRead, GivenInv, Reading
  <2> QED BY <2>1, Pop
<1>2. ASSUME NEW q \in Peers, ~HalfRead(q)
      PROVE  /\ inbox'[q] \in Seq(Seq(Objs)) /\ FramesInOrder(q)' /\ Numbered(q)' = Numbered(q)
             /\ Unread(q)' = Unread(q)
  <2>1. inbox'[q] = inbox[q] /\ inbox[q] \in Seq(Seq(Objs))
    BY <1>2 DEF GivenInv, ObjectsTyped
  <2> QED BY <2>1, Stays
<1>3. \A q \in Peers : inbox'[q] \in Seq(Seq(Objs))
  BY <1>1, <1>2
<1>4. inbox' \in [Peers -> Seq(Seq(Objs))]
  BY <1>3
<1> QED BY <1>1, <1>2, <1>4

\* It loses what it has in hand with the channels, where it is a batch; a single
\* call has nothing in hand.
LEMMA FailGiven == ASSUME GivenInv, Fail, Pending # {} PROVE GivenInv'
<1>1. /\ call' = None /\ UNCHANGED <<made, got, refused, channels>>
      /\ inbox' = [q \in Peers |-> IF HalfRead(q) THEN Tail(inbox[q]) ELSE inbox[q]]
      /\ torn' = torn \cup {<<q, Direction>> : q \in call.begun \ call.done}
  BY DEF Fail, Drop, results
<1>2. Asking' /\ Reading' /\ call'.kind \notin Receiving /\ call'.kind \notin Batches
  BY <1>1 DEF None, Asking, Reading, Receiving, Batches
<1>3. Typed' /\ Typed
  BY FailTyped DEF GivenInv
<1>4. /\ inbox' \in [Peers -> Seq(Seq(Objs))]
      /\ \A q \in Peers : /\ FramesInOrder(q)' /\ Numbered(q)' = Numbered(q)
                          /\ Unread(q)' \subseteq Unread(q)
                          /\ ~HalfRead(q) => Unread(q)' = Unread(q)
  BY <1>1, HalvesLost
<1>5. ObjectsTyped'
  BY <1>1, <1>2, <1>4 DEF GivenInv, ObjectsTyped
<1>6. ASSUME NEW q \in Peers PROVE HandInOrder(q)' /\ GivenOrdered(q)' /\ NoneMissing(q)' /\ NoGap(q)'
  <2>1. Given(q)' = Given(q)
    BY <1>1 DEF Given, GivenBy, Lots
  <2>2. InHand(q)' = << >> /\ Range(<< >>) = {}
    BY <1>2 DEF InHand, Range
  <2>3. GivenOrdered(q) /\ NoneMissing(q) /\ NoGap(q)
    BY DEF GivenInv
  <2>4. HandInOrder(q)'
    BY <1>2, <2>2 DEF HandInOrder, Before, Ascending
  <2>5. GivenOrdered(q)'
    <3>1. Before(Given(q), Range(<< >>) \cup Unread(q)')
      BY <1>4, <2>2, <2>3 DEF GivenOrdered, Before
    <3> QED BY <1>1, <1>4, <2>1, <2>2, <2>3, <3>1 DEF GivenOrdered
  <2>6. NoneMissing(q)'
    <3> SUFFICES ASSUME q \in Readable' PROVE Numbered(q)' \subseteq (Given(q) \cup refused \cup Unread(q))'
      BY DEF NoneMissing
    <3>1. q \in channels /\ <<q, "in">> \notin torn'
      BY <1>1, <1>2 DEF Readable, Mine, Batched
    <3>2. q \in Readable /\ ~HalfRead(q)
      BY <1>1, <3>1 DEF Readable, Mine, HalfRead, Direction
    <3>3. InHand(q) = << >>
      BY <3>1, NoHand
    <3> QED BY <1>1, <1>4, <2>1, <2>2, <2>3, <3>2, <3>3 DEF NoneMissing
  <2>7. NoGap(q)'
    BY <1>1, <2>1, <2>3 DEF NoGap
  <2> QED BY <2>4, <2>5, <2>6, <2>7
<1> QED BY <1>2, <1>3, <1>4, <1>5, <1>6 DEF GivenInv

LEMMA TakeGiven == ASSUME GivenInv, NEW q \in Peers, Take(q) PROVE GivenInv'
<1> DEFINE frame == Head(inbox[q])
<1>1. /\ call.kind \in Receiving /\ q \in Pending /\ q \in call.begun /\ Fits(q, frame)
      /\ inbox' = [inbox EXCEPT ![q] = Tail(@)] /\ UNCHANGED <<channels, torn, made, got, refused>>
  BY DEF Take, Turn, results
<1>2. /\ call'.kind = call.kind /\ call'.requests = call.requests /\ call'.begun = call.begun
      /\ call'.done = call.done \cup {q} /\ call'.data = [call.data EXCEPT ![q] = frame]
      /\ q \notin call.done /\ call.data \in [Peers -> Seq(Objs)] /\ Typed'
  BY <1>1, TakeTyped DEF Take, GivenInv, Typed, CallOK, ObjectsTyped, Pending
<1>3. inbox[q] # << >>
  BY <1>1, <1>2 DEF GivenInv, Reading
<1>4. /\ inbox' \in [Peers -> Seq(Seq(Objs))] /\ \A r \in Peers : r # q => inbox'[r] = inbox[r]
      /\ frame \in Seq(Objs) /\ Ascending(frame)
      /\ Unread(q) = Range(frame) \cup Unread(q)' /\ Before(Range(frame), Unread(q)')
      /\ \A r \in Peers : FramesInOrder(r)' /\ Numbered(r)' = Numbered(r)
      /\ \A r \in Peers : r # q => Unread(r)' = Unread(r)
  <2>1. inbox'[q] = Tail(inbox[q]) /\ \A r \in Peers : r # q => inbox'[r] = inbox[r]
    BY <1>1 DEF GivenInv, ObjectsTyped
  <2>2. \A r \in Peers : r # q => FramesInOrder(r)' /\ Numbered(r)' = Numbered(r) /\ Unread(r)' = Unread(r)
    BY <1>1, <2>1, Stays
  <2>3. /\ Tail(inbox[q]) \in Seq(Seq(Objs)) /\ frame \in Seq(Objs) /\ Ascending(frame)
        /\ Unread(q) = Range(frame) \cup Unread(q)' /\ Before(Range(frame), Unread(q)')
        /\ FramesInOrder(q)' /\ Numbered(q)' = Numbered(q)
    BY <1>1, <1>3, <2>1, Pop
  <2>4. inbox' \in [Peers -> Seq(Seq(Objs))]
    BY <1>1, <2>3 DEF GivenInv, ObjectsTyped
  <2> QED BY <2>1, <2>2, <2>3, <2>4
<1>5. call'.data \in [Peers -> Seq(Objs)] /\ call'.data[q] = frame /\ \A r \in Peers : r # q => call'.data[r] = call.data[r]
  BY <1>2, <1>4
<1>10. Mine' = Mine /\ Readable' = Readable
  BY <1>1, <1>2 DEF Readable, Mine, Batched
<1>6. Asking' /\ Reading' /\ ObjectsTyped'
  BY <1>1, <1>2, <1>4, <1>5, <1>10 DEF GivenInv, Asking, Reading, ObjectsTyped
<1>7. InHand(q)' = frame /\ InHand(q) = << >> /\ Range(<< >>) = {}
  BY <1>1, <1>2, <1>5 DEF InHand, Range
<1>8. \A r \in Peers : r # q => InHand(r)' = InHand(r)
  BY <1>2, <1>5 DEF InHand
<1>9. \A r : Given(r)' = Given(r)
  BY <1>1 DEF Given, GivenBy, Lots
<1>11. \A r \in Peers : Range(InHand(r)') \cup Unread(r)' = Range(InHand(r)) \cup Unread(r)
  BY <1>4, <1>7, <1>8
<1>12. ASSUME NEW r \in Peers PROVE HandInOrder(r)' /\ GivenOrdered(r)' /\ NoneMissing(r)' /\ NoGap(r)'
  <2>1. FramesInOrder(r) /\ HandInOrder(r) /\ GivenOrdered(r) /\ NoneMissing(r) /\ NoGap(r)
    BY DEF GivenInv
  <2>2. (call.kind \in Receiving /\ r \in call.done => Fits(r, call.data[r]))'
    <3>2. \A objects : (call.kind = "recv_any" \/ Taken(r)[Len(call.requests)] = Len(objects))'
                        <=> (call.kind = "recv_any" \/ Taken(r)[Len(call.requests)] = Len(objects))
      BY <1>2 DEF Taken, Expected
    <3> QED BY <1>1, <1>2, <1>5, <2>1, <3>2 DEF HandInOrder, Fits
  <2>3. HandInOrder(r)'
    BY <1>4, <1>7, <1>8, <2>1, <2>2 DEF HandInOrder, FramesInOrder
  <2>4. GivenOrdered(r)'
    BY <1>1, <1>4, <1>9, <1>11, <2>1 DEF GivenOrdered
  <2>5. NoneMissing(r)' /\ NoGap(r)'
    BY <1>1, <1>4, <1>9, <1>10, <1>11, <2>1 DEF NoneMissing, NoGap
  <2> QED BY <2>3, <2>4, <2>5
<1> QED BY <1>2, <1>4, <1>6, <1>12 DEF GivenInv

LEMMA RefuseGiven == ASSUME GivenInv, NEW q \in Peers, Refuse(q) PROVE GivenInv'
<1> DEFINE frame == Head(inbox[q])
<1>1. /\ call.kind \in Receiving /\ q \in Pending /\ q \in call.begun /\ call' = None
      /\ inbox' = [p \in Peers |-> IF HalfRead(p) THEN Tail(inbox[p]) ELSE inbox[p]]
      /\ UNCHANGED <<channels, made, got>>
      /\ refused' = refused \cup Range(frame)
      /\ torn' = torn \cup {<<p, "in">> : p \in call.begun \ (call.done \cup {q})}
  BY DEF Refuse, Turn
<1>2. Typed'
  BY RefuseTyped DEF GivenInv
<1>3. Asking' /\ Reading' /\ call'.kind \notin Receiving /\ call'.kind \notin Batches
  BY <1>1 DEF None, Asking, Reading, Receiving, Batches
<1>4. /\ inbox' \in [Peers -> Seq(Seq(Objs))]
      /\ \A r \in Peers : /\ FramesInOrder(r)' /\ Numbered(r)' = Numbered(r)
                          /\ Unread(r)' \subseteq Unread(r)
                          /\ HalfRead(r) => Unread(r) = Range(Head(inbox[r])) \cup Unread(r)'
                          /\ ~HalfRead(r) => Unread(r)' = Unread(r)
  BY <1>1, HalvesLost
<1>5. ObjectsTyped'
  BY <1>1, <1>3, <1>4 DEF GivenInv, ObjectsTyped
<1>6. \A r : Given(r)' = Given(r)
  BY <1>1 DEF Given, GivenBy, Lots
<1>7. ASSUME NEW r \in Peers PROVE HandInOrder(r)' /\ GivenOrdered(r)' /\ NoneMissing(r)' /\ NoGap(r)'
  <2>1. GivenOrdered(r) /\ NoneMissing(r) /\ NoGap(r)
    BY DEF GivenInv
  <2>2. InHand(r)' = << >> /\ Range(<< >>) = {}
    BY <1>3 DEF InHand, Range
  <2>3. HandInOrder(r)'
    BY <1>3, <2>2 DEF HandInOrder, Before, Ascending
  <2>4. GivenOrdered(r)'
    <3>1. Before(Given(r), Range(<< >>) \cup Unread(r)')
      BY <1>4, <2>1, <2>2 DEF GivenOrdered, Before
    <3> QED BY <1>1, <1>4, <1>6, <2>1, <2>2, <3>1 DEF GivenOrdered
  <2>5. NoneMissing(r)'
    <3> SUFFICES ASSUME r \in Readable' PROVE Numbered(r)' \subseteq (Given(r) \cup refused \cup Unread(r))'
      BY DEF NoneMissing
    <3>1. r \in channels /\ <<r, "in">> \notin torn'
      BY <1>1, <1>3 DEF Readable, Mine, Batched
    <3>2. r \in Readable /\ (HalfRead(r) => r = q)
      BY <1>1, <3>1 DEF Readable, Mine, HalfRead
    <3>3. Unread(r) \subseteq Unread(r)' \cup refused'
      BY <1>1, <1>4, <3>2
    <3>4. InHand(r) = << >>
      BY <1>1, <3>1, NoHand
    <3> QED BY <1>1, <1>4, <1>6, <2>1, <2>2, <3>2, <3>3, <3>4 DEF NoneMissing
  <2>6. NoGap(r)'
    BY <1>1, <1>6, <2>1 DEF NoGap
  <2> QED BY <2>3, <2>4, <2>5, <2>6
<1> QED BY <1>2, <1>3, <1>4, <1>5, <1>7 DEF GivenInv

LEMMA PeerSendsGiven == ASSUME GivenInv, NEW q \in Peers, NEW n \in 0..MaxObjects, PeerSends(q, n) PROVE GivenInv'
<1> DEFINE frame == Objects(q, made[q], n)
           s == inbox[q]
           New == {q} \X (made[q] + 1 .. made[q] + n)
<1>0. n \in Nat /\ Typed' /\ Typed
  BY ConstantsOK, PeerSendsTyped DEF GivenInv
<1>1. /\ UNCHANGED <<channels, call, torn, got, refused>> /\ made' = [made EXCEPT ![q] = @ + n]
      /\ inbox' = [inbox EXCEPT ![q] = Append(@, frame)]
  BY DEF PeerSends, results
<1>2. made \in [Peers -> Nat] /\ q \in Nat /\ Peers \subseteq Nat
  BY <1>0, ConstantsOK DEF Typed, PeersOK
<1>3. /\ frame \in Seq(Objs) /\ DOMAIN frame = 1..n /\ \A i \in 1..n : frame[i] = <<q, made[q] + i>>
  <2>1. \A i \in 1..n : <<q, made[q] + i>> \in Objs
    BY <1>0, <1>2 DEF Objs
  <2>2. frame = [i \in 1..n |-> <<q, made[q] + i>>]
    BY DEF Objects
  <2>3. frame \in [1..n -> Objs]
    BY <2>1, <2>2
  <2> QED BY <1>0, <2>2, <2>3, SeqDef
<1>4. Ascending(frame)
  BY <1>0, <1>2, <1>3 DEF Ascending
<1>5. Range(frame) = New
  <2>1. \A i \in 1..n : made[q] + i \in made[q] + 1 .. made[q] + n
    BY <1>0, <1>2
  <2>2. \A k \in made[q] + 1 .. made[q] + n : k - made[q] \in 1..n /\ made[q] + (k - made[q]) = k
    BY <1>0, <1>2
  <2>3. ASSUME NEW x \in New PROVE x \in Range(frame)
    <3>1. PICK k \in made[q] + 1 .. made[q] + n : x = <<q, k>>
      OBVIOUS
    <3>2. PICK i \in 1..n : made[q] + i = k
      BY <2>2
    <3>3. x = frame[i]
      BY <1>3, <3>1, <3>2
    <3> QED BY <1>3, <3>3 DEF Range
  <2>4. ASSUME NEW x \in Range(frame) PROVE x \in New
    <3>1. PICK i \in 1..n : x = <<q, made[q] + i>>
      BY <1>3, <2>4 DEF Range
    <3> QED BY <2>1, <3>1
  <2> QED BY <2>3, <2>4
<1>6. Numbered(q)' = Numbered(q) \cup New /\ Before(Numbered(q), New)
  <2>1. 1 .. made[q] + n = (1..made[q]) \cup (made[q] + 1 .. made[q] + n)
    BY <1>0, <1>2
  <2>2. made'[q] = made[q] + n
    BY <1>1, <1>2
  <2>3. \A i \in 1..made[q], j \in made[q] + 1 .. made[q] + n : i < j
    BY <1>0, <1>2
  <2> QED BY <2>1, <2>2, <2>3 DEF Numbered, Before
<1>7. /\ s \in Seq(Seq(Objs)) /\ Len(s) \in Nat /\ DOMAIN s = 1..Len(s)
      /\ inbox'[q] = Append(s, frame) /\ inbox' \in [Peers -> Seq(Seq(Objs))]
      /\ \A r \in Peers : r # q => inbox'[r] = inbox[r]
      /\ DOMAIN Append(s, frame) = 1 .. Len(s) + 1 /\ Append(s, frame)[Len(s) + 1] = frame
      /\ \A i \in 1..Len(s) : Append(s, frame)[i] = s[i]
  BY <1>1, <1>3 DEF GivenInv, ObjectsTyped
<1>8. Unread(q)' = Unread(q) \cup New
  <2>1. 1 .. Len(s) + 1 = (1..Len(s)) \cup {Len(s) + 1}
    BY <1>7
  <2>2. Unread(q)' = UNION {Range(Append(s, frame)[i]) : i \in 1 .. Len(s) + 1}
    BY <1>7 DEF Unread
  <2>3. Unread(q) = UNION {Range(s[i]) : i \in 1..Len(s)}
    BY <1>7 DEF Unread
  <2>4. UNION {Range(Append(s, frame)[i]) : i \in 1 .. Len(s) + 1}
          = (UNION {Range(s[i]) : i \in 1..Len(s)}) \cup Range(frame)
    <3>1. \A i \in 1 .. Len(s) : Range(Append(s, frame)[i]) = Range(s[i])
      BY <1>7
    <3>2. Range(Append(s, frame)[Len(s) + 1]) = Range(frame)
      BY <1>7
    <3> HIDE DEF frame, s
    <3> QED BY <2>1, <3>1, <3>2
  <2> QED BY <1>5, <2>2, <2>3, <2>4
<1>9. Asking' /\ ObjectsTyped'
  BY <1>1, <1>7 DEF GivenInv, Asking, ObjectsTyped
<1>12. Mine' = Mine /\ Readable' = Readable
  BY <1>1 DEF Readable, Mine, Batched
<1>10. Reading'
  <2>1. inbox'[q] # << >>
    BY <1>7
  <2> QED BY <1>1, <1>7, <1>12, <2>1, <1>0 DEF GivenInv, Reading, Typed, CallOK
<1>11. \A r : Given(r)' = Given(r) /\ InHand(r)' = InHand(r)
  BY <1>1 DEF Given, GivenBy, Lots, InHand
<1>13. FramesInOrder(q)'
  <2>1. FramesInOrder(q)
    BY DEF GivenInv
  <2>2. Unread(q)' \subseteq Numbered(q)'
    BY <1>6, <1>8, <2>1 DEF FramesInOrder
  <2>3. \A i \in 1..Len(s) : Before(Range(s[i]), Range(frame))
    <3>1. \A i \in 1..Len(s) : Range(s[i]) \subseteq Numbered(q)
      BY <1>7, <2>1 DEF FramesInOrder, Unread
    <3> QED BY <1>5, <1>6, <3>1 DEF Before
  <2>4. ASSUME NEW i \in 1 .. Len(s) + 1, NEW j \in 1 .. Len(s) + 1
        PROVE  /\ Ascending(inbox'[q][i])
               /\ i < j => Before(Range(inbox'[q][i]), Range(inbox'[q][j]))
    <3>1. CASE i \in 1..Len(s) /\ j \in 1..Len(s)
      <4>1. inbox'[q][i] = s[i] /\ inbox'[q][j] = s[j]
        BY <1>7, <3>1
      <4> QED BY <1>7, <2>1, <3>1, <4>1 DEF FramesInOrder
    <3>2. CASE i \in 1..Len(s) /\ j = Len(s) + 1
      <4>1. inbox'[q][i] = s[i] /\ inbox'[q][j] = frame
        BY <1>7, <3>2
      <4>2. Ascending(s[i])
        BY <1>7, <2>1, <3>2 DEF FramesInOrder
      <4> QED BY <2>3, <3>2, <4>1, <4>2
    <3>3. CASE i = Len(s) + 1
      <4>1. inbox'[q][i] = frame /\ ~(i < j)
        BY <1>7, <3>3
      <4> QED BY <1>4, <4>1
    <3>4. \A k \in 1 .. Len(s) + 1 : k \in 1..Len(s) \/ k = Len(s) + 1
      BY <1>7
    <3> QED BY <3>1, <3>2, <3>3, <3>4
  <2> QED BY <1>7, <2>2, <2>4 DEF FramesInOrder
<1>14. HandInOrder(q)' /\ GivenOrdered(q)' /\ NoneMissing(q)' /\ NoGap(q)'
  <2>1. HandInOrder(q) /\ GivenOrdered(q) /\ NoneMissing(q) /\ NoGap(q)
    BY DEF GivenInv
  <2>2. (call.kind \in Receiving /\ q \in call.done => Fits(q, call.data[q]))'
    BY <1>1, <2>1 DEF HandInOrder, Fits, Taken, Expected
  <2>3. HandInOrder(q)'
    BY <1>6, <1>8, <1>11, <2>1, <2>2 DEF HandInOrder, Before
  <2>4. GivenOrdered(q)'
    <3>1. Before(Given(q), Range(InHand(q)) \cup Unread(q)')
      BY <1>6, <1>8, <2>1 DEF GivenOrdered, Before
    <3> QED BY <1>1, <1>6, <1>11, <2>1, <3>1 DEF GivenOrdered
  <2>5. NoneMissing(q)' /\ NoGap(q)'
    BY <1>1, <1>6, <1>8, <1>11, <1>12, <2>1 DEF NoneMissing, NoGap
  <2> QED BY <2>3, <2>4, <2>5
<1>15. ASSUME NEW r \in Peers, r # q
       PROVE  FramesInOrder(r)' /\ HandInOrder(r)' /\ GivenOrdered(r)' /\ NoneMissing(r)' /\ NoGap(r)'
  <2>1. FramesInOrder(r) /\ HandInOrder(r) /\ GivenOrdered(r) /\ NoneMissing(r) /\ NoGap(r)
    BY DEF GivenInv
  <2>2. Unread(r)' = Unread(r) /\ Numbered(r)' = Numbered(r)
    BY <1>1, <1>2, <1>7, <1>15 DEF Unread, Numbered
  <2>3. FramesInOrder(r)'
    BY <1>7, <1>15, <2>1, <2>2 DEF FramesInOrder
  <2>4. HandInOrder(r)'
    <3>1. (call.kind \in Receiving /\ r \in call.done => Fits(r, call.data[r]))'
      BY <1>1, <2>1 DEF HandInOrder, Fits, Taken, Expected
    <3> QED BY <1>11, <2>1, <2>2, <3>1 DEF HandInOrder
  <2>5. GivenOrdered(r)' /\ NoneMissing(r)' /\ NoGap(r)'
    BY <1>1, <1>11, <1>12, <2>1, <2>2 DEF GivenOrdered, NoneMissing, NoGap
  <2> QED BY <2>3, <2>4, <2>5
<1> QED BY <1>0, <1>9, <1>10, <1>13, <1>14, <1>15 DEF GivenInv

\* The part of its peer's frame that each request of a receive gets: from the
\* object after low to the object high.
Cuts(q, low, high) ==
  LET data == call.data[q]
      lots == {k \in DOMAIN call.requests : call.requests[k].peer = q}
  IN /\ \A k \in lots : /\ low[k] \in Nat /\ high[k] \in Nat /\ low[k] <= high[k] /\ high[k] <= Len(data)
                        /\ Chunk(k) = SubSeq(data, low[k] + 1, high[k])
                        /\ call.kind # "recv_any" => high[k] - low[k] = Expected(call.requests[k].count)
     /\ \A k, l \in lots : k < l => high[k] <= low[l]
     /\ \A m \in 1..Len(data) : \E k \in lots : low[k] < m /\ m <= high[k]

LEMMA RequestTypes ==
  ASSUME Asking, call.kind \in Receiving
  PROVE  /\ Len(call.requests) \in Nat /\ DOMAIN call.requests = 1..Len(call.requests)
         /\ \A k \in DOMAIN call.requests : /\ call.requests[k].peer \in Nat /\ call.requests[k].count \in Nat
                                            /\ Expected(call.requests[k].count) \in Nat
<1>1. call.requests \in Seq(Requests)
  BY DEF Asking
<1>2. \A k \in DOMAIN call.requests : call.requests[k] \in Requests
  BY <1>1
<1>3. \A k \in DOMAIN call.requests : call.requests[k].peer \in Nat /\ call.requests[k].count \in Nat
  BY <1>2 DEF Requests
<1> QED BY <1>1, <1>3 DEF Expected

LEMMA CutsExist ==
  ASSUME GivenInv, call.kind \in Receiving, NEW q \in Peers, q \in call.done
  PROVE  \E low, high : Cuts(q, low, high)
<1> DEFINE data == call.data[q]
           n == Len(call.requests)
<1>1. /\ n \in Nat /\ DOMAIN call.requests = 1..n
      /\ \A k \in 1..n : Expected(call.requests[k].count) \in Nat
  BY RequestTypes DEF GivenInv
<1>2. data \in Seq(Objs) /\ Len(data) \in Nat /\ Fits(q, data)
  BY DEF GivenInv, ObjectsTyped, HandInOrder
<1>3. CASE call.kind = "recv_any"
  <2>0. n = 1
    BY <1>3 DEF GivenInv, Asking
  <2>1. n = 1 /\ 1..n = {1}
    BY <2>0
  <2>2. q \in Targets(call.requests)
    BY DEF GivenInv, Typed, CallOK
  <2>3. call.requests[1].peer = q
    BY <1>1, <2>1, <2>2 DEF Targets
  <2>4. PICK low, high : low = [k \in {1} |-> 0] /\ high = [k \in {1} |-> Len(data)]
    OBVIOUS
  <2>5. SubSeq(data, 1, Len(data)) = data
    BY <1>2, SubSeqFull
  <2>6. Chunk(1) = data
    BY <1>3, <2>3 DEF Chunk
  <2>7. low[1] = 0 /\ high[1] = Len(data) /\ low[1] + 1 = 1
    BY <2>4
  <2>8. \A m \in 1..Len(data) : low[1] < m /\ m <= high[1]
    BY <1>2, <2>7
  <2>9. {k \in DOMAIN call.requests : call.requests[k].peer = q} = {1}
    BY <1>1, <2>1, <2>3
  <2>10. low[1] \in Nat /\ high[1] \in Nat /\ low[1] <= high[1] /\ high[1] <= Len(data)
    BY <1>2, <2>7
  <2> HIDE DEF data, n
  <2>11. Cuts(q, low, high)
    BY <1>3, <2>5, <2>6, <2>7, <2>8, <2>9, <2>10 DEF Cuts, data
  <2> QED BY <2>11
<1>4. CASE call.kind # "recv_any"
  <2> DEFINE f == Taken(q)
             counts == TakenBy(q)
  <2>1. Sums(f, counts, n)
    BY <1>1, TakenSums
  <2>2. \A k \in 1..n : counts[k] = IF call.requests[k].peer = q THEN Expected(call.requests[k].count) ELSE 0
    BY DEF TakenBy
  <2>3. \A k \in 1..n : counts[k] \in Nat
    BY <1>1, <2>2
  <2> HIDE DEF f, counts
  <2>4. /\ \A k \in 0..n : f[k] \in Nat
        /\ f[0] = 0 /\ \A k \in 1..n : f[k] = f[k - 1] + counts[k]
        /\ \A j, k \in 0..n : j <= k => f[j] <= f[k]
        /\ \A m \in 1..f[n] : \E k \in 1..n : f[k - 1] < m /\ m <= f[k]
    BY <1>1, <2>1, <2>3, SumsGrow
  <2>5. f[n] = Len(data)
    BY <1>2, <1>4 DEF Fits, f
  <2>6. PICK low : low = [k \in 1..n |-> f[k - 1]]
    OBVIOUS
  <2>7. PICK high : high = [k \in 1..n |-> f[k]]
    OBVIOUS
  <2>8. \A k \in 1..n : low[k] = f[k - 1] /\ high[k] = f[k]
    BY <2>6, <2>7
  <2>9. \A k \in 1..n : k \in 0..n /\ k - 1 \in 0..n /\ k - 1 <= k /\ k <= n /\ n \in 0..n
    BY <1>1
  <2>10. ASSUME NEW k \in DOMAIN call.requests, call.requests[k].peer = q
         PROVE  /\ low[k] \in Nat /\ high[k] \in Nat /\ low[k] <= high[k] /\ high[k] <= Len(data)
                /\ Chunk(k) = SubSeq(data, low[k] + 1, high[k])
                /\ high[k] - low[k] = Expected(call.requests[k].count)
    <3>1. low[k] \in Nat /\ high[k] \in Nat /\ low[k] <= high[k] /\ high[k] <= Len(data)
      BY <1>1, <2>4, <2>5, <2>8, <2>9
    <3>2. Chunk(k) = SubSeq(data, low[k] + 1, high[k])
      BY <1>1, <1>4, <2>8, <2>10 DEF Chunk, f
    <3>3. high[k] = low[k] + counts[k] /\ counts[k] = Expected(call.requests[k].count) /\ counts[k] \in Nat
      BY <1>1, <2>2, <2>3, <2>4, <2>8, <2>10
    <3> QED BY <3>1, <3>2, <3>3
  <2>11. \A k, l \in 1..n : k < l => high[k] <= low[l]
    <3> SUFFICES ASSUME NEW k \in 1..n, NEW l \in 1..n, k < l PROVE f[k] <= f[l - 1]
      BY <2>8
    <3>1. k <= l - 1 /\ k \in 0..n /\ l - 1 \in 0..n
      BY <1>1
    <3> QED BY <2>4, <3>1
  <2>12. ASSUME NEW m \in 1..Len(data)
         PROVE  \E k \in {j \in DOMAIN call.requests : call.requests[j].peer = q} : low[k] < m /\ m <= high[k]
    <3>1. PICK k \in 1..n : f[k - 1] < m /\ m <= f[k]
      BY <2>4, <2>5
    <3>2. f[k] = f[k - 1] + counts[k] /\ f[k - 1] \in Nat /\ f[k] \in Nat
      BY <2>4, <2>9
    <3>3. counts[k] # 0
      BY <1>2, <3>1, <3>2
    <3>4. call.requests[k].peer = q
      BY <2>2, <3>3
    <3> QED BY <1>1, <2>8, <3>1, <3>4
  <2> HIDE DEF data, n
  <2>13. Cuts(q, low, high)
    BY <1>1, <2>10, <2>11, <2>12 DEF Cuts, data
  <2> QED BY <2>13
<1> QED BY <1>3, <1>4

\* What the requests of a peer get is its frame, cut in pieces, in order.
LEMMA ResultsCut ==
  ASSUME GivenInv, call.kind \in Receiving, NEW q \in Peers, q \in call.done
  PROVE  LET data == call.data[q]
             lots == {k \in DOMAIN call.requests : call.requests[k].peer = q}
         IN /\ \A k \in lots : /\ Chunk(k) \in Seq(Objs) /\ Ascending(Chunk(k))
                               /\ Range(Chunk(k)) \subseteq Range(data)
                               /\ call.kind # "recv_any" => Len(Chunk(k)) = Expected(call.requests[k].count)
            /\ \A k, l \in lots : k < l => Before(Range(Chunk(k)), Range(Chunk(l)))
            /\ Range(data) \subseteq UNION {Range(Chunk(k)) : k \in lots}
<1> DEFINE data == call.data[q]
           lots == {k \in DOMAIN call.requests : call.requests[k].peer = q}
<1>1. PICK low, high : Cuts(q, low, high)
  BY CutsExist
<1>2. /\ data \in Seq(Objs) /\ Len(data) \in Nat /\ DOMAIN data = 1..Len(data)
      /\ \A i \in 1..Len(data) : data[i] \in Objs
  BY DEF GivenInv, ObjectsTyped
<1>3. Ascending(data)
  BY DEF GivenInv, HandInOrder, InHand
<1>4. /\ \A k \in lots : /\ low[k] \in Nat /\ high[k] \in Nat /\ low[k] <= high[k] /\ high[k] <= Len(data)
                         /\ Chunk(k) = SubSeq(data, low[k] + 1, high[k])
                         /\ call.kind # "recv_any" => high[k] - low[k] = Expected(call.requests[k].count)
      /\ \A k, l \in lots : k < l => high[k] <= low[l]
      /\ \A m \in 1..Len(data) : \E k \in lots : low[k] < m /\ m <= high[k]
  BY <1>1 DEF Cuts
<1> HIDE DEF data, lots
<1>5. ASSUME NEW k \in lots
      PROVE  /\ Chunk(k) \in Seq(Objs) /\ Len(Chunk(k)) = high[k] - low[k]
             /\ DOMAIN Chunk(k) = 1 .. high[k] - low[k]
             /\ \A i \in 1 .. high[k] - low[k] : Chunk(k)[i] = data[low[k] + i] /\ low[k] + i \in 1..Len(data)
  <2>1. low[k] \in Nat /\ high[k] \in Nat /\ low[k] <= high[k] /\ high[k] <= Len(data)
    BY <1>4
  <2>2. low[k] + 1 \in Int /\ high[k] \in Int /\ \A i \in low[k] + 1 .. high[k] : data[i] \in Objs
    BY <1>2, <2>1
  <2>3. PICK s : s = SubSeq(data, low[k] + 1, high[k])
    OBVIOUS
  <2>4. /\ s \in Seq(Objs)
        /\ Len(s) = IF low[k] + 1 <= high[k] THEN high[k] - (low[k] + 1) + 1 ELSE 0
        /\ \A i \in 1 .. high[k] - (low[k] + 1) + 1 : s[i] = data[(low[k] + 1) + i - 1]
    BY <2>2, <2>3, SubSeqProperties
  <2>5. high[k] - (low[k] + 1) + 1 = high[k] - low[k]
    BY <2>1
  <2>6. Len(s) = high[k] - low[k] /\ DOMAIN s = 1..Len(s)
    BY <2>1, <2>4
  <2>7. \A i \in 1 .. high[k] - low[k] : (low[k] + 1) + i - 1 = low[k] + i /\ low[k] + i \in 1..Len(data)
    BY <1>2, <2>1
  <2>8. Chunk(k) = s
    BY <1>4, <2>3
  <2> QED BY <2>4, <2>5, <2>6, <2>7, <2>8
<1>6. ASSUME NEW k \in lots PROVE Ascending(Chunk(k)) /\ Range(Chunk(k)) \subseteq Range(data)
  <2>1. low[k] \in Nat /\ high[k] \in Nat
    BY <1>4
  <2>2. \A i, j \in 1 .. high[k] - low[k] : i < j => low[k] + i < low[k] + j
    BY <2>1
  <2>3. ASSUME NEW i \in 1 .. high[k] - low[k], NEW j \in 1 .. high[k] - low[k], i < j
        PROVE  Chunk(k)[i][2] < Chunk(k)[j][2]
    <3>1. PICK u \in DOMAIN data : u = low[k] + i /\ Chunk(k)[i] = data[u]
      BY <1>2, <1>5
    <3>2. PICK v \in DOMAIN data : v = low[k] + j /\ Chunk(k)[j] = data[v]
      BY <1>2, <1>5
    <3>3. u < v
      BY <2>2, <2>3, <3>1, <3>2
    <3> QED BY <1>3, <3>1, <3>2, <3>3 DEF Ascending
  <2>4. \A i \in 1 .. high[k] - low[k] : Chunk(k)[i] \in Range(data)
    BY <1>2, <1>5 DEF Range
  <2> QED BY <1>5, <2>3, <2>4 DEF Ascending, Range
<1>7. ASSUME NEW k \in lots, NEW l \in lots, k < l PROVE Before(Range(Chunk(k)), Range(Chunk(l)))
  <2>1. low[k] \in Nat /\ high[k] \in Nat /\ low[l] \in Nat /\ high[l] \in Nat /\ high[k] <= low[l]
    BY <1>4, <1>7
  <2>2. \A i \in 1 .. high[k] - low[k], j \in 1 .. high[l] - low[l] : low[k] + i < low[l] + j
    BY <2>1
  <2>3. ASSUME NEW i \in 1 .. high[k] - low[k], NEW j \in 1 .. high[l] - low[l]
        PROVE  Chunk(k)[i][2] < Chunk(l)[j][2]
    <3>1. PICK u \in DOMAIN data : u = low[k] + i /\ Chunk(k)[i] = data[u]
      BY <1>2, <1>5
    <3>2. PICK v \in DOMAIN data : v = low[l] + j /\ Chunk(l)[j] = data[v]
      BY <1>2, <1>5
    <3>3. u < v
      BY <2>2, <3>1, <3>2
    <3> QED BY <1>3, <3>1, <3>2, <3>3 DEF Ascending
  <2>4. \A x \in Range(Chunk(k)) : \E i \in 1 .. high[k] - low[k] : x = Chunk(k)[i]
    BY <1>5 DEF Range
  <2>5. \A x \in Range(Chunk(l)) : \E j \in 1 .. high[l] - low[l] : x = Chunk(l)[j]
    BY <1>5 DEF Range
  <2> QED BY <2>3, <2>4, <2>5 DEF Before
<1>8. ASSUME NEW x \in Range(data) PROVE \E k \in lots : x \in Range(Chunk(k))
  <2>1. PICK m \in 1..Len(data) : x = data[m]
    BY <1>2, <1>8 DEF Range
  <2>2. PICK k \in lots : low[k] < m /\ m <= high[k]
    BY <1>4
  <2>3. low[k] \in Nat /\ high[k] \in Nat
    BY <1>4
  <2>4. PICK i \in 1 .. high[k] - low[k] : low[k] + i = m
    <3>1. m - low[k] \in 1 .. high[k] - low[k] /\ low[k] + (m - low[k]) = m
      BY <1>2, <2>2, <2>3
    <3> QED BY <3>1
  <2>5. x = Chunk(k)[i] /\ i \in DOMAIN Chunk(k)
    BY <1>5, <2>1, <2>4
  <2> QED BY <2>5 DEF Range
<1> QED BY <1>4, <1>5, <1>6, <1>7, <1>8 DEF data, lots

\* A receive that returns gives all it has in hand.
LEMMA ReceiveGiven ==
  ASSUME GivenInv, Finish, call.kind \in Receiving
  PROVE  GivenInv'
<1> DEFINE g == [kind |-> call.kind, requests |-> call.requests, results |-> Results]
           n == Len(got)
           lots(q) == {k \in DOMAIN call.requests : call.requests[k].peer = q}
<1>1. /\ Pending = {} /\ call' = None /\ got' = Append(got, g)
      /\ channels' = (IF Batched THEN channels \cup Targets(call.requests) ELSE channels)
      /\ UNCHANGED <<torn, inbox, made, refused>>
  BY DEF Finish, peers
<1>2. Typed' /\ Typed
  BY FinishTyped DEF GivenInv
<1>3. Asking' /\ Reading' /\ call'.kind \notin Receiving /\ call'.kind \notin Batches
  BY <1>1 DEF None, Asking, Reading, Receiving, Batches
<1>4. call.done = Targets(call.requests) /\ Targets(call.requests) \subseteq Peers
  BY <1>1, <1>2 DEF Pending, Typed, CallOK
<1>5. call.requests \in Seq(Requests) /\ \A k \in DOMAIN call.requests : call.requests[k].peer \in call.done
  BY <1>4 DEF GivenInv, Asking, Targets
<1>6. ASSUME NEW q \in Peers, q \in call.done
      PROVE  /\ \A k \in lots(q) : Chunk(k) \in Seq(Objs) /\ Ascending(Chunk(k)) /\ Range(Chunk(k)) \subseteq Range(call.data[q])
             /\ \A k, l \in lots(q) : k < l => Before(Range(Chunk(k)), Range(Chunk(l)))
             /\ Range(call.data[q]) \subseteq UNION {Range(Chunk(k)) : k \in lots(q)}
  BY <1>6, ResultsCut
<1>7. /\ Sequence(got) /\ n \in Nat /\ DOMAIN got = 1..n /\ Sequence(got') /\ DOMAIN got' = 1 .. n + 1
      /\ \A i \in 1..n : got'[i] = got[i]
      /\ got'[n + 1] = g
  BY <1>1, AppendIs DEF GivenInv, ObjectsTyped
<1>8. \A i \in 1 .. n + 1 : i \in 1..n \/ i = n + 1
  BY <1>7
<1>9. \A k \in DOMAIN call.requests : Results[k] = Chunk(k) /\ Chunk(k) \in Seq(Objs)
  BY <1>4, <1>5, <1>6 DEF Results
<1>10. Results \in [DOMAIN call.requests -> Seq(Objs)]
  BY <1>9 DEF Results
<1>11. g.requests = call.requests /\ g.results = Results
  OBVIOUS
<1> HIDE DEF g, n
<1>12. ObjectsTyped'
  <2>1. \A i \in 1 .. n + 1 : got'[i].requests \in Seq(Requests) /\ got'[i].results \in [DOMAIN got'[i].requests -> Seq(Objs)]
    BY <1>5, <1>7, <1>8, <1>10, <1>11 DEF GivenInv, ObjectsTyped
  <2> QED BY <1>1, <1>3, <1>7, <2>1 DEF GivenInv, ObjectsTyped
<1>13. ASSUME NEW q \in Peers
       PROVE FramesInOrder(q)' /\ HandInOrder(q)' /\ GivenOrdered(q)' /\ NoneMissing(q)' /\ NoGap(q)'
  <2>1. FramesInOrder(q) /\ HandInOrder(q) /\ GivenOrdered(q) /\ NoneMissing(q) /\ NoGap(q)
    BY DEF GivenInv
  <2>2. Unread(q)' = Unread(q) /\ Numbered(q)' = Numbered(q)
    BY <1>1 DEF Unread, Numbered
  <2>3. InHand(q)' = << >> /\ Range(<< >>) = {}
    BY <1>3 DEF InHand, Range
  <2>4. Lots(g, q) = lots(q) /\ GivenBy(g, q) = UNION {Range(Chunk(k)) : k \in lots(q)}
    <3>1. Lots(g, q) = lots(q)
      BY <1>11 DEF Lots
    <3>2. \A k \in lots(q) : g.results[k] = Chunk(k)
      BY <1>9, <1>11
    <3> QED BY <3>1, <3>2 DEF GivenBy
  <2>5. GivenBy(g, q) = Range(InHand(q))
    <3>1. CASE q \in call.done
      <4>1. InHand(q) = call.data[q]
        BY <3>1 DEF InHand
      <4>2. \A k \in lots(q) : Range(Chunk(k)) \subseteq Range(call.data[q])
        BY <1>6, <3>1
      <4>3. Range(call.data[q]) \subseteq UNION {Range(Chunk(k)) : k \in lots(q)}
        BY <1>6, <3>1
      <4> HIDE DEF lots
      <4>4. Range(call.data[q]) = UNION {Range(Chunk(k)) : k \in lots(q)}
        BY <4>2, <4>3
      <4> QED BY <2>4, <4>1, <4>4
    <3>2. CASE q \notin call.done
      <4>1. lots(q) = {}
        BY <1>5, <3>2
      <4>2. InHand(q) = << >>
        BY <3>2 DEF InHand
      <4> QED BY <2>3, <2>4, <4>1, <4>2
    <3> QED BY <3>1, <3>2
  <2>6. Given(q)' = Given(q) \cup Range(InHand(q))
    <3>1. Given(q)' = UNION {GivenBy(got'[i], q) : i \in 1 .. n + 1}
      BY <1>7 DEF Given
    <3>2. Given(q) = UNION {GivenBy(got[i], q) : i \in 1..n}
      BY <1>7 DEF Given
    <3>3. /\ \A i \in 1..n : i \in 1 .. n + 1 /\ GivenBy(got'[i], q) = GivenBy(got[i], q)
          /\ n + 1 \in 1 .. n + 1 /\ GivenBy(got'[n + 1], q) = Range(InHand(q))
      BY <1>7, <2>5
    <3>4. 1 .. n + 1 = (1..n) \cup {n + 1}
      BY <1>7
    <3> QED BY <3>1, <3>2, <3>3, <3>4
  <2>7. HandInOrder(q)'
    BY <1>3, <2>3 DEF HandInOrder, Before, Ascending
  <2>8. ResultsOrdered(got', q)
    <3>1. ASSUME NEW i \in 1 .. n + 1, NEW k \in Lots(got'[i], q)
          PROVE  /\ Ascending(got'[i].results[k])
                 /\ \A l \in Lots(got'[i], q) : k < l => Before(Range(got'[i].results[k]), Range(got'[i].results[l]))
      <4>1. CASE i \in 1..n
        <5>1. got'[i] = got[i] /\ i \in DOMAIN got
          BY <1>7, <4>1
        <5> QED BY <2>1, <3>1, <5>1 DEF GivenOrdered, ResultsOrdered
      <4>2. CASE i = n + 1
        <5>1. got'[i] = g /\ k \in lots(q) /\ \A l \in lots(q) : g.results[l] = Chunk(l)
          BY <1>7, <1>9, <1>11, <2>4, <3>1, <4>2
        <5>2. q \in call.done
          BY <1>5, <5>1
        <5> QED BY <1>6, <2>4, <5>1, <5>2
      <4> QED BY <1>8, <4>1, <4>2
    <3>2. ASSUME NEW i \in 1 .. n + 1, NEW j \in 1 .. n + 1, i < j
          PROVE  Before(GivenBy(got'[i], q), GivenBy(got'[j], q))
      <4>1. i \in 1..n /\ got'[i] = got[i] /\ i \in DOMAIN got
        BY <1>7, <3>2
      <4>2. CASE j \in 1..n
        <5>1. got'[j] = got[j] /\ j \in DOMAIN got
          BY <1>7, <4>2
        <5> QED BY <2>1, <3>2, <4>1, <5>1 DEF GivenOrdered, ResultsOrdered
      <4>3. CASE j = n + 1
        <5>1. GivenBy(got'[j], q) = Range(InHand(q))
          BY <1>7, <2>5, <4>3
        <5>2. GivenBy(got[i], q) \subseteq Given(q)
          BY <4>1 DEF Given
        <5> QED BY <2>1, <4>1, <5>1, <5>2 DEF GivenOrdered, Before
      <4> QED BY <1>8, <4>2, <4>3
    <3> QED BY <1>7, <3>1, <3>2 DEF ResultsOrdered
  <2>9. GivenOrdered(q)'
    <3>1. Before(Given(q) \cup Range(InHand(q)), Range(<< >>) \cup Unread(q))
      BY <2>1, <2>3 DEF GivenOrdered, HandInOrder, Before
    <3> QED BY <2>1, <2>2, <2>3, <2>6, <2>8, <3>1 DEF GivenOrdered, HandInOrder
  <2>10. NoneMissing(q)'
    <3>1. Readable' = Readable
      BY <1>1, <1>3 DEF Readable, Mine, Batched
    <3> QED BY <1>1, <2>1, <2>2, <2>3, <2>6, <3>1 DEF NoneMissing
  <2>11. FramesInOrder(q)'
    BY <1>1, <2>1, <2>2 DEF FramesInOrder
  <2>12. NoGap(q)'
    <3>1. ASSUME NEW object \in Range(InHand(q))
          PROVE  {q} \X (1..object[2]) \subseteq Given(q) \cup refused \cup Range(InHand(q))
      <4>1. q \in call.done
        BY <2>3, <3>1 DEF InHand
      <4>2. q \in Readable
        BY <1>2, <1>4, <4>1 DEF GivenInv, Reading, Readable, Typed, CallOK
      <4>3. object[2] \in 1..made[q] /\ made[q] \in Nat
        BY <1>2, <2>1, <3>1 DEF HandInOrder, Numbered, Typed, PeersOK
      <4>4. ASSUME NEW k \in 1..object[2] PROVE <<q, k>> \notin Unread(q) /\ <<q, k>> \in Numbered(q)
        <5>1. <<q, k>> \in Unread(q) => object[2] < k
          BY <2>1, <3>1 DEF HandInOrder, Before
        <5> QED BY <4>3, <4>4, <5>1 DEF Numbered
      <4> QED BY <2>1, <4>2, <4>4 DEF NoneMissing
    <3> QED BY <1>1, <2>1, <2>6, <3>1 DEF NoGap
  <2> QED BY <2>7, <2>9, <2>10, <2>11, <2>12
<1> QED BY <1>2, <1>3, <1>12, <1>13 DEF GivenInv

LEMMA FinishGiven == ASSUME GivenInv, Finish PROVE GivenInv'
<1>1. CASE call.kind \notin Receiving
  <2>1. /\ call' = None /\ UNCHANGED <<torn, inbox, made, got, refused>>
        /\ channels' = (IF Batched THEN channels \cup Targets(call.requests) ELSE channels)
    BY <1>1 DEF Finish, peers
  <2>2. Asking' /\ Reading' /\ call'.kind \notin Receiving /\ call'.kind \notin Batches
    BY <2>1 DEF None, Asking, Reading, Receiving, Batches
  <2>3. \A q \in Peers : InHand(q)' = InHand(q)
    BY <1>1, <2>2 DEF InHand
  <2>4. Readable' = Readable
    BY <2>1, <2>2 DEF Readable, Mine, Batched
  <2>5. Typed'
    BY FinishTyped DEF GivenInv
  <2> QED BY <2>1, <2>2, <2>3, <2>4, <2>5, GivenFrame
<1> QED BY <1>1, ReceiveGiven

\* Every step again, with what a call that begins asks for and that a call that
\* fails has a task left.
LEMMA GivenCases ==
  ASSUME Next
  PROVE  \/ GivenBegins \/ Finish \/ (Fail /\ Pending # {})
         \/ \E q \in Peers : \/ StartReading(q) \/ StartWriting(q) \/ Take(q) \/ Refuse(q) \/ Written(q)
                             \/ PeerLeaves(q) \/ \E n \in 0..MaxObjects : PeerSends(q, n)
<1>1. \A requests \in Receives : RecvMany(requests) => GivenBegins
  BY DEF RecvMany, Batches, GivenBegins
<1>2. \A recipients \in Sends : SendMany(recipients) => GivenBegins
  BY DEF SendMany, Batches, GivenBegins
<1>3. Broadcast => GivenBegins
  BY DEF Broadcast, Singles, GivenBegins
<1>4. \A q \in Peers, count \in Nat : /\ <<[peer |-> q, count |-> count]>> \in Seq(Requests)
                                     /\ Len(<<[peer |-> q, count |-> count]>>) = 1
                                     /\ Targets(<<[peer |-> q, count |-> count]>>) = {q}
  <2> SUFFICES ASSUME NEW q \in Peers, NEW count \in Nat
               PROVE  /\ <<[peer |-> q, count |-> count]>> \in Seq(Requests)
                      /\ Len(<<[peer |-> q, count |-> count]>>) = 1
                      /\ Targets(<<[peer |-> q, count |-> count]>>) = {q}
    OBVIOUS
  <2>1. [peer |-> q, count |-> count] \in Requests
    BY ConstantsOK DEF Requests
  <2> QED BY <2>1 DEF Targets
<1>10. ASSUME NEW q \in Peers, NEW count \in Nat, NEW kind \in {"recv", "recv_any"},
              q \in channels, Single(kind, <<[peer |-> q, count |-> count]>>)
       PROVE  GivenBegins
  <2> DEFINE requests == <<[peer |-> q, count |-> count]>>
  <2>1. kind \in Singles
    BY DEF Singles
  <2>2. requests \in Seq(Requests) /\ Len(requests) = 1 /\ Targets(requests) \subseteq channels
    BY <1>4, <1>10
  <2>3. Single(kind, requests)
    BY <1>10
  <2> HIDE DEF requests
  <2> QED BY <2>1, <2>2, <2>3 DEF GivenBegins
<1>5. \A q \in Peers : Recv(q) => GivenBegins
  BY <1>10 DEF Recv
<1>6. \A q \in Peers : Send(q) => GivenBegins
  BY DEF Send, Singles, GivenBegins
<1>7. \A q \in Peers, count \in SingleCounts : RecvObjects(q, count) => GivenBegins
  BY <1>10, MeshChannelsAssumption DEF RecvObjects
<1>8. \A q \in Peers : TaskFails(q) => Fail /\ Pending # {}
  BY DEF TaskFails, Turn
<1>9. Cancel => Fail /\ Pending # {}
  BY DEF Cancel
<1> QED BY <1>1, <1>2, <1>3, <1>5, <1>6, <1>7, <1>8, <1>9 DEF Next

LEMMA StillGiven ==
  ASSUME GivenInv, UNCHANGED <<call, channels, torn, inbox, made, got, refused>>, Typed'
  PROVE  GivenInv'
<1>2. Mine' = Mine /\ \A q \in Peers : InHand(q)' = InHand(q) /\ (q \in Readable' => q \in Readable)
  BY DEF InHand, Readable, Mine, Batched
<1>1. Asking' /\ Reading'
  BY <1>2 DEF GivenInv, Asking, Reading
<1>3. \A q \in Peers : (call.kind \in Receiving /\ q \in call.done => Fits(q, call.data[q]))'
  <2>1. ASSUME NEW q \in Peers PROVE Fits(q, call.data[q])' <=> Fits(q, call.data[q])
    BY DEF Fits, Taken, Expected
  <2>2. \A q \in Peers : HandInOrder(q)
    BY DEF GivenInv
  <2> QED BY <2>1, <2>2 DEF HandInOrder
<1>4. call'.kind \in Receiving => call'.data \in [Peers -> Seq(Objs)]
  BY DEF GivenInv, ObjectsTyped
<1> QED BY <1>1, <1>2, <1>3, <1>4, GivenFrame

LEMMA NextGiven == GivenInv /\ [Next]_vars => GivenInv'
<1>1. ASSUME GivenInv, UNCHANGED vars PROVE GivenInv'
  <2>1. Typed' /\ UNCHANGED <<call, channels, torn, inbox, made, got, refused>>
    BY <1>1, StutterTyped DEF vars, peers, results, GivenInv
  <2> QED BY <1>1, <2>1, StillGiven
<1>2. ASSUME GivenInv, NEW q \in Peers, PeerLeaves(q) PROVE GivenInv'
  <2>1. Typed' /\ UNCHANGED <<call, channels, torn, inbox, made, got, refused>>
    BY <1>2, PeerLeavesTyped DEF PeerLeaves, results, GivenInv
  <2> QED BY <1>2, <2>1, StillGiven
<1> SUFFICES ASSUME GivenInv, Next PROVE GivenInv'
  BY <1>1
<1> QED BY <1>2, GivenCases, BeginsGiven, FinishGiven, FailGiven, StartGiven, TakeGiven, RefuseGiven, WrittenGiven,
           PeerSendsGiven

LEMMA GivenInvariant == Spec => []GivenInv
BY InitGiven, NextGiven, PTL DEF Spec

\* The caller is given the objects of a peer in order and each at most once,
\* whatever calls fail, are dropped or overlap; none is left out before one that is
\* given, but for those of frames refused; and none is missing while the table has
\* the channel and no receive was dropped in the middle of a frame of it.
THEOREM ObjectsGivenInOrder == Spec => []GivenInOrder
BY GivenInvariant, GivenImplies, PTL

-----------------------------------------------------------------------------
(* How much it is given.                                                   *)

\* Every request asks for something.
NonZero(requests) == \A k \in DOMAIN requests : requests[k].count # 0

CountInv ==
  /\ GivenInv /\ CountsHonoured
  /\ call.kind = "recv_many" => NonZero(call.requests)

LEMMA CountStays ==
  ASSUME CountInv, UNCHANGED got, GivenInv',
         (call'.kind = call.kind /\ call'.requests = call.requests) \/ call' = None
  PROVE  CountInv'
BY DEF CountInv, CountsHonoured, None

LEMMA FinishCounts == ASSUME CountInv, Finish PROVE CountInv'
<1>1. GivenInv' /\ GivenInv /\ call' = None
  BY FinishGiven DEF CountInv, Finish
<1>2. CASE call.kind \notin Receiving
  BY <1>1, <1>2, CountStays DEF Finish
<1>3. CASE call.kind \in Receiving
  <2> DEFINE g == [kind |-> call.kind, requests |-> call.requests, results |-> Results]
             n == Len(got)
  <2>1. Pending = {} /\ got' = Append(got, g)
    BY <1>3 DEF Finish
  <2>2. /\ n \in Nat /\ DOMAIN got = 1..n /\ DOMAIN got' = 1 .. n + 1
        /\ \A i \in 1..n : got'[i] = got[i]
        /\ got'[n + 1] = g
    BY <1>1, <2>1, AppendIs DEF GivenInv, ObjectsTyped
  <2>3. ASSUME call.kind # "recv_any", NEW k \in DOMAIN call.requests
        PROVE  Len(Results[k]) = call.requests[k].count
    <3>1. call.requests[k].peer \in call.done /\ call.requests[k].peer \in Peers
      BY <1>1, <2>1 DEF Pending, Targets, GivenInv, Typed, CallOK
    <3>2. Len(Chunk(k)) = Expected(call.requests[k].count)
      BY <1>1, <1>3, <2>3, <3>1, ResultsCut
    <3>3. Expected(call.requests[k].count) = call.requests[k].count
      BY DEF CountInv, NonZero, Expected
    <3> QED BY <3>2, <3>3 DEF Results
  <2>4. g.kind = call.kind /\ g.requests = call.requests /\ g.results = Results
    OBVIOUS
  <2> HIDE DEF g, n
  <2>5. ASSUME NEW i \in 1 .. n + 1, got'[i].kind # "recv_any", NEW k \in DOMAIN got'[i].requests
        PROVE  Len(got'[i].results[k]) = got'[i].requests[k].count
    <3>1. CASE i \in 1..n
      BY <2>2, <2>5, <3>1 DEF CountInv, CountsHonoured
    <3>2. CASE i = n + 1
      BY <2>2, <2>3, <2>4, <2>5, <3>2
    <3> QED BY <2>2, <3>1, <3>2
  <2>6. CountsHonoured'
    BY <2>2, <2>5 DEF CountsHonoured
  <2> QED BY <1>1, <2>6 DEF CountInv, None
<1> QED BY <1>2, <1>3

LEMMA NextCounts ==
  ASSUME \A requests \in Receives : NonZero(requests)
  PROVE  CountInv /\ [Next]_vars => CountInv'
<1> SUFFICES ASSUME CountInv, [Next]_vars PROVE CountInv'
  OBVIOUS
<1>1. GivenInv' /\ GivenInv
  BY NextGiven DEF CountInv
<1>2. CASE UNCHANGED vars
  BY <1>1, <1>2, CountStays DEF vars, results
<1>3. ASSUME NEW kind, NEW requests, kind = "recv_many" => requests \in Receives,
             Batch(kind, requests) \/ (kind # "recv_many" /\ Single(kind, requests))
      PROVE  CountInv'
  <2>1. UNCHANGED got /\ (call' = call \/ (call'.kind = kind /\ call'.requests = requests))
    BY <1>3 DEF Batch, Single, Begin, results
  <2> QED BY <1>1, <1>3, <2>1 DEF CountInv, CountsHonoured
<1>4. CASE GivenBegins
  BY <1>3, <1>4 DEF GivenBegins, Singles
<1>5. CASE Finish
  BY <1>5, FinishCounts
<1>6. CASE Fail
  BY <1>1, <1>6, CountStays DEF Fail, Drop, results
<1>7. ASSUME NEW q \in Peers,
             \/ StartReading(q) \/ StartWriting(q) \/ Take(q) \/ Refuse(q) \/ Written(q)
             \/ PeerLeaves(q) \/ \E n \in 0..MaxObjects : PeerSends(q, n)
      PROVE  CountInv'
  <2>1. UNCHANGED got
    BY <1>7 DEF StartReading, StartWriting, Take, Refuse, Written, PeerLeaves, PeerSends, results
  <2>2. (call'.kind = call.kind /\ call'.requests = call.requests) \/ call' = None
    BY <1>1, <1>7 DEF StartReading, StartWriting, Take, Refuse, Written, PeerLeaves, PeerSends, GivenInv, Typed, CallOK
  <2> QED BY <1>1, <2>1, <2>2, CountStays
<1> QED BY <1>2, <1>4, <1>5, <1>6, <1>7, GivenCases

\* A receive returns as many objects for every request as it asks for, if none
\* asks for none (mesh_network.rs:114 reads that as one).
THEOREM CountsAsAsked ==
  ASSUME \A requests \in Receives : NonZero(requests)
  PROVE  Spec => []CountsHonoured
<1>1. Init => CountInv
  <2> SUFFICES ASSUME Init PROVE CountInv
    OBVIOUS
  <2>1. GivenInv /\ got = << >> /\ call.kind = "none"
    BY InitGiven DEF Init, None
  <2> QED BY <2>1 DEF CountInv, CountsHonoured
<1>2. CountInv => CountsHonoured
  BY DEF CountInv
<1> QED BY <1>1, <1>2, NextCounts, PTL DEF Spec
=============================================================================
