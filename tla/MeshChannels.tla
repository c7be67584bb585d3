---------------------------- MODULE MeshChannels ----------------------------
(***************************************************************************)
(* The network of one party in a running session: MeshNetwork's table of   *)
(* channels and its operations (src/src/networking/secure_mesh/            *)
(* mesh_network.rs), with the typed ones of the trait Network              *)
(* (src/src/networking/network.rs).                                        *)
(*                                                                         *)
(* A batch (send_objects_many, recv_objects_many) takes the channels it    *)
(* needs out of the table when it is called and puts them back when all of *)
(* its tasks have ended well; every other end drops them.  A single        *)
(* operation (send, recv, broadcast and what is built on them) uses the    *)
(* channel where it is, so that it is there afterwards, in whatever state. *)
(*                                                                         *)
(* The objects of a peer are numbered.  Zero stands for the party itself,  *)
(* and for any other id without a channel.                                 *)
(***************************************************************************)
EXTENDS Naturals, Sequences, FiniteSets, SequencesExt

CONSTANTS
  NPeers,       \* number of other parties
  Receives,     \* request lists of recv_objects_many: from and count
  SingleCounts, \* counts that recv_objects is asked for
  Sends,        \* request lists of send_objects_many: the recipients
  MaxCalls,     \* bound on the calls made
  MaxFrames,    \* bound on the frames a peer sends
  MaxObjects    \* bound on the objects in a frame

ASSUME MeshChannelsAssumption ==
  /\ NPeers \in Nat \ {0} /\ MaxCalls \in Nat /\ MaxFrames \in Nat /\ MaxObjects \in Nat
  /\ \A requests \in Receives : requests \in Seq([peer : Nat, count : Nat])
  /\ SingleCounts \subseteq Nat

Peers == 1 .. NPeers

VARIABLES
  channels,  \* peers whose channel is in the table
  call,      \* the call in progress
  calls,     \* number of calls so far
  torn,      \* streams left inside a frame, per peer and direction
  inbox,     \* frames of a peer that have not been read
  frames,    \* number of frames it has sent
  made,      \* number of objects it has sent
  gone,      \* peers that have closed their ends
  wire,      \* frames written to a peer, with the number of their call
  got,       \* what receives have returned, request by request
  refused,   \* objects of frames that a receive has refused
  sent       \* recipients of the sends that have returned well, by call

peers == <<inbox, frames, made, gone>>
results == <<got, refused, sent>>
vars == <<channels, call, calls, torn, peers, wire, results>>

Batches == {"recv_many", "send_many"}
Receiving == {"recv_many", "recv", "recv_any"}
None == [kind |-> "none", requests |-> << >>, begun |-> {}, done |-> {}, data |-> << >>]
Idle == call.kind = "none"
Batched == call.kind \in Batches
Targets(requests) == {requests[i].peer : i \in DOMAIN requests}
Pending == Targets(call.requests) \ call.done
Objects(q, first, n) == [i \in 1..n |-> <<q, first + i>>]

\* The numbers of the requests made of a peer, in order.
IndicesOf(requests, q) ==
  SelectSeq([i \in DOMAIN requests |-> i], LAMBDA i : requests[i].peer = q)

Init ==
  /\ channels = Peers
  /\ call = None /\ calls = 0
  /\ torn = {}
  /\ inbox = [q \in Peers |-> << >>]
  /\ frames = [q \in Peers |-> 0] /\ made = [q \in Peers |-> 0]
  /\ gone = {}
  /\ wire = [q \in Peers |-> << >>]
  /\ got = << >> /\ refused = {} /\ sent = << >>

-----------------------------------------------------------------------------
(* A call begins.                                                          *)

Begin(kind, requests) ==
  call' = [kind |-> kind, requests |-> requests,
           begun |-> {}, done |-> {}, data |-> [q \in Peers |-> << >>]]

\* A plausible slip: the channels that are not there are left out of the batch.
Batch_TakesWhatIsThere(kind, requests) ==
  /\ Idle /\ calls < MaxCalls
  /\ calls' = calls + 1
  /\ channels' = channels \ Targets(requests)
  /\ Begin(kind, requests)
  /\ UNCHANGED <<torn, peers, wire, results>>

\* The requests are grouped by peer in a hash map, and their channels taken in
\* its order up to the first that is not there: then what was taken is lost.
Batch(kind, requests) ==
  /\ Idle /\ calls < MaxCalls
  /\ calls' = calls + 1
  /\ \/ /\ Targets(requests) \subseteq channels
        /\ channels' = channels \ Targets(requests)
        /\ Begin(kind, requests)
     \/ /\ ~(Targets(requests) \subseteq channels)
        /\ \E taken \in SUBSET (Targets(requests) \cap channels) : channels' = channels \ taken
        /\ UNCHANGED call
  /\ UNCHANGED <<torn, peers, wire, results>>

RecvMany(requests) == Batch("recv_many", requests)
SendMany(recipients) ==
  Batch("send_many", [i \in DOMAIN recipients |-> [peer |-> recipients[i], count |-> 1]])

\* A single call for which there is no channel is an error that changes nothing.
Single(kind, requests) ==
  /\ Idle /\ calls < MaxCalls
  /\ calls' = calls + 1
  /\ Begin(kind, requests)
  /\ UNCHANGED <<channels, torn, peers, wire, results>>

Recv(from) ==
  from \in channels /\ Single("recv_any", <<[peer |-> from, count |-> 1]>>)
RecvObjects(from, count) ==
  from \in channels /\ Single("recv", <<[peer |-> from, count |-> count]>>)
Send(to) ==
  to \in channels /\ Single("send", <<[peer |-> to, count |-> 1]>>)
Broadcast == Single("broadcast", [q \in Peers |-> [peer |-> q, count |-> 1]])

-----------------------------------------------------------------------------
(* The tasks of a call.                                                    *)

\* The tasks of a batch run side by side; a broadcast goes from peer to peer.
Turn(q) == q \in Pending /\ (call.kind = "broadcast" => \A p \in Pending : q <= p)
Usable(q) == Batched \/ q \in channels

Direction == IF call.kind \in Receiving THEN "in" ELSE "out"
HalfRead(q) == call.kind \in Receiving /\ q \in call.begun \ call.done

\* A plausible slip: the rest of the frame is skipped by the next receive.
Drop_SkipsFrame ==
  /\ call' = None
  /\ UNCHANGED torn
  /\ inbox' = [q \in Peers |-> IF HalfRead(q) THEN Tail(inbox[q]) ELSE inbox[q]]

\* Where the call is in the middle of a frame, the stream is left there.  The bytes
\* read so far were the future's own: the frame is lost with it, and what follows
\* is never again read from the beginning of a frame.
Drop ==
  /\ call' = None
  /\ torn' = torn \cup {<<q, Direction>> : q \in call.begun \ call.done}
  /\ inbox' = [q \in Peers |-> IF HalfRead(q) THEN Tail(inbox[q]) ELSE inbox[q]]

\* A plausible slip: a batch that fails puts its channels back.
Fail_PutsBack ==
  /\ Drop
  /\ channels' = IF Batched THEN channels \cup Targets(call.requests) ELSE channels
  /\ UNCHANGED <<calls, frames, made, gone, wire, results>>

\* The call returns an error or is dropped, and with it the channels of a batch.
Fail ==
  /\ Drop
  /\ UNCHANGED <<channels, calls, frames, made, gone, wire, results>>

\* A plausible slip: a request of a batch is always for one object.
Expected_One(count) == IF call.kind = "recv_many" THEN 1 ELSE count

\* A request keeps its count as an Option<NonZero>, and takes none for one.
Expected(count) == IF call.kind = "recv_many" /\ count = 0 THEN 1 ELSE count

\* How many objects of q the first k requests take, for every k.
Taken(q) ==
  LET taken[k \in 0 .. Len(call.requests)] ==
        IF k = 0 THEN 0
        ELSE taken[k - 1] + IF call.requests[k].peer = q THEN Expected(call.requests[k].count) ELSE 0
  IN taken

\* The frame holds what the requests of its peer ask for, and no more.
Fits(q, objects) ==
  call.kind = "recv_any" \/ Taken(q)[Len(call.requests)] = Len(objects)

\* The chunk of its peer's frame that belongs to the i-th request.
Chunk(i) ==
  LET q == call.requests[i].peer
  IN IF call.kind = "recv_any" THEN call.data[q]
     ELSE SubSeq(call.data[q], Taken(q)[i - 1] + 1, Taken(q)[i])

StartReading(q) ==
  /\ call.kind \in Receiving /\ Turn(q) /\ q \notin call.begun
  /\ <<q, "in">> \notin torn /\ inbox[q] # << >>
  /\ call' = [call EXCEPT !.begun = @ \cup {q}]
  /\ UNCHANGED <<channels, calls, torn, peers, wire, results>>

\* The frame is complete, and its task ends well if it fits.
Take(q) ==
  /\ call.kind \in Receiving /\ Turn(q) /\ q \in call.begun
  /\ Fits(q, Head(inbox[q]))
  /\ call' = [call EXCEPT !.done = @ \cup {q}, !.data[q] = Head(inbox[q])]
  /\ inbox' = [inbox EXCEPT ![q] = Tail(@)]
  /\ UNCHANGED <<channels, calls, torn, frames, made, gone, wire, results>>

\* A frame that does not fit is lost, as are those that others of the batch have
\* half read, and ends the call.
Refuse(q) ==
  /\ call.kind \in Receiving /\ Turn(q) /\ q \in call.begun
  /\ ~Fits(q, Head(inbox[q]))
  /\ call' = None
  /\ torn' = torn \cup {<<p, "in">> : p \in call.begun \ (call.done \cup {q})}
  /\ refused' = refused \cup Range(Head(inbox[q]))
  /\ inbox' = [p \in Peers |-> IF HalfRead(p) THEN Tail(inbox[p]) ELSE inbox[p]]
  /\ UNCHANGED <<channels, calls, frames, made, gone, wire, got, sent>>

StartWriting(q) ==
  /\ call.kind \notin Receiving /\ Turn(q) /\ Usable(q) /\ q \notin call.begun
  /\ call' = [call EXCEPT !.begun = @ \cup {q}]
  /\ UNCHANGED <<channels, calls, torn, peers, wire, results>>

\* A plausible slip: a batch writes a frame for every payload.
Written_Singly(q) ==
  /\ call.kind \notin Receiving /\ Turn(q) /\ q \in call.begun
  /\ wire' = IF <<q, "out">> \in torn THEN wire
             ELSE [wire EXCEPT ![q] =
                     @ \o [k \in DOMAIN IndicesOf(call.requests, q) |->
                             <<calls, <<IndicesOf(call.requests, q)[k]>> >>]]
  /\ call' = [call EXCEPT !.done = @ \cup {q}]
  /\ UNCHANGED <<channels, calls, torn, peers, results>>

\* All payloads of a call for one peer go in one frame, in request order; where
\* the stream is torn it is written, but arrives as part of another frame.
Written(q) ==
  /\ call.kind \notin Receiving /\ Turn(q) /\ q \in call.begun
  /\ wire' = IF <<q, "out">> \in torn THEN wire
             ELSE [wire EXCEPT ![q] = Append(@, <<calls, IndicesOf(call.requests, q)>>)]
  /\ call' = [call EXCEPT !.done = @ \cup {q}]
  /\ UNCHANGED <<channels, calls, torn, peers, results>>

\* The peer has gone, the bytes are no frame or, in a broadcast, the channel is
\* not there.
TaskFails(q) ==
  /\ Turn(q)
  /\ \/ q \in gone /\ (call.kind \in Receiving => inbox[q] = << >>)
     \/ call.kind \in Receiving /\ <<q, "in">> \in torn
     \/ ~Usable(q)
  /\ Fail

\* The chunks of all frames, each in the place of its request.
Results == [i \in DOMAIN call.requests |-> Chunk(i)]

Finish ==
  /\ ~Idle /\ Pending = {}
  /\ channels' = IF Batched THEN channels \cup Targets(call.requests) ELSE channels
  /\ \/ /\ call.kind \in Receiving
        /\ got' = Append(got, [kind |-> call.kind, requests |-> call.requests, results |-> Results])
        /\ UNCHANGED sent
     \/ /\ call.kind \notin Receiving
        /\ sent' = Append(sent, [call |-> calls, requests |-> call.requests])
        /\ UNCHANGED got
  /\ call' = None
  /\ UNCHANGED <<calls, torn, peers, wire, refused>>

\* The caller drops the future, wherever its tasks stand; but the last one to
\* end and the return of the call are one poll.
Cancel == Pending # {} /\ Fail

-----------------------------------------------------------------------------
(* The peers.                                                              *)

PeerSends(q, n) ==
  /\ q \notin gone /\ frames[q] < MaxFrames
  /\ frames' = [frames EXCEPT ![q] = @ + 1]
  /\ made' = [made EXCEPT ![q] = @ + n]
  /\ inbox' = [inbox EXCEPT ![q] = Append(@, Objects(q, made[q], n))]
  /\ UNCHANGED <<channels, call, calls, torn, gone, wire, results>>

PeerLeaves(q) ==
  /\ q \notin gone
  /\ gone' = gone \cup {q}
  /\ UNCHANGED <<channels, call, calls, torn, inbox, frames, made, wire, results>>

Next ==
  \/ \E requests \in Receives : RecvMany(requests)
  \/ \E recipients \in Sends : SendMany(recipients)
  \/ Broadcast \/ Finish \/ Cancel
  \/ \E q \in Peers :
       \/ Recv(q) \/ Send(q) \/ \E count \in SingleCounts : RecvObjects(q, count)
       \/ StartReading(q) \/ Take(q) \/ Refuse(q) \/ StartWriting(q) \/ Written(q) \/ TaskFails(q)
       \/ PeerLeaves(q) \/ \E n \in 0..MaxObjects : PeerSends(q, n)

Spec == Init /\ [][Next]_vars

-----------------------------------------------------------------------------
(* Properties                                                              *)

\* Every variable has its type; a channel is in the table or in one batch.
TypeOK ==
  /\ channels \subseteq Peers
  /\ call.kind \in Batches \cup Receiving \cup {"none", "send", "broadcast"}
  /\ Batched => channels \cap Targets(call.requests) = {} /\ 0 \notin Targets(call.requests)
  /\ call.done \subseteq call.begun /\ call.begun \subseteq Targets(call.requests)
  /\ calls \in 0..MaxCalls /\ frames \in [Peers -> 0..MaxFrames]
  /\ torn \subseteq Peers \X {"in", "out"} /\ gone \subseteq Peers
  /\ \A q \in Peers : made[q] \in 0..(MaxFrames * MaxObjects)

\* What the caller has been given of a peer's objects: in the order of its
\* requests (Lots) and, call by call, in all.
Lots(g, q) == {k \in DOMAIN g.requests : g.requests[k].peer = q}
GivenBy(g, q) == UNION {Range(g.results[k]) : k \in Lots(g, q)}
Given(q) == UNION {GivenBy(got[i], q) : i \in DOMAIN got}
Unread(q) == UNION {Range(inbox[q][i]) : i \in DOMAIN inbox[q]}

Ascending(objects) == \A i, j \in DOMAIN objects : i < j => objects[i][2] < objects[j][2]
Before(S, T) == \A x \in S, y \in T : x[2] < y[2]

\* The caller gets the objects of a peer in the order they were sent and each at
\* most once, whatever calls fail, are dropped or overlap.  None is left out in
\* between: before an object is given, so is every earlier one, unless a receive
\* has refused its frame for its size; so that after a receive was dropped within a
\* frame, which loses that frame, nothing more is given.  And as long as the table
\* has the peer's channel and no receive was dropped within a frame of it, all that
\* is neither given nor refused is still to be read.
GivenInOrder ==
  \A q \in Peers :
    /\ \A i \in DOMAIN got : \A k \in Lots(got[i], q) :
         /\ Ascending(got[i].results[k])
         /\ \A l \in Lots(got[i], q) : k < l => Before(Range(got[i].results[k]), Range(got[i].results[l]))
    /\ \A i, j \in DOMAIN got : i < j => Before(GivenBy(got[i], q), GivenBy(got[j], q))
    /\ Given(q) \subseteq {q} \X (1..made[q])
    /\ \A object \in Given(q) : {q} \X (1..object[2]) \subseteq Given(q) \cup refused
    /\ Idle /\ q \in channels /\ <<q, "in">> \notin torn =>
         {q} \X (1..made[q]) \subseteq Given(q) \cup refused \cup Unread(q)

\* A receive returns as many objects for every request as it asks for.
CountsHonoured ==
  \A i \in DOMAIN got : got[i].kind # "recv_any" =>
    \A k \in DOMAIN got[i].requests : Len(got[i].results[k]) = got[i].requests[k].count

\* A send that returns well has put one frame in the stream of each recipient,
\* with its payloads in the order of the requests, unless the stream was torn;
\* one that fails has put no more than one; and frames stand in call order.
SentOnce ==
  /\ \A i \in DOMAIN sent : \A q \in Targets(sent[i].requests) :
       \/ <<q, "out">> \in torn
       \/ <<sent[i].call, IndicesOf(sent[i].requests, q)>> \in Range(wire[q])
  /\ \A q \in Peers : \A i, j \in DOMAIN wire[q] : i < j => wire[q][i][1] < wire[q][j][1]
=============================================================================
