-------------------------- MODULE Execution_proofs --------------------------
(***************************************************************************)
(* For any number of parties, circuits, crashes and retries: a party is    *)
(* past the handshake only if all parties have the same circuit; every     *)
(* variable keeps its type; and no share made up for an input reaches the  *)
(* network.  Where a failed call is not made again, the parties keep in    *)
(* step, every share gets to the operation it is for, and whoever finishes *)
(* leaves nothing unread.                                                  *)
(***************************************************************************)
EXTENDS Execution, FiniteSetTheorems, FunctionTheorems, SequenceTheorems, TLAPS

\* A frame is honest for a sender when, if it is a hash, it is the sender's.
Honest(frame, from) == \A r \in Parties : frame = HashFrame(plan[r]) => plan[r] = plan[from]

IsSeq(s) == s \in Seq(Range(s))

Domains ==
  /\ DOMAIN execution_state = Parties /\ DOMAIN call = Parties /\ DOMAIN step = Parties
  /\ DOMAIN outbox = Parties /\ DOMAIN awaiting = Parties /\ DOMAIN inbox = Parties
  /\ DOMAIN in_flight = Links

\* Hashes in flight, about to be sent, and received are those of their sender.
LinksHonest ==
  \A l \in Links : IsSeq(in_flight[l]) /\ \A f \in Range(in_flight[l]) : Honest(f, l[1])
OutboxHonest == \A p \in Parties : \A q \in DOMAIN outbox[p] : Honest(outbox[p][q], p)
InboxHonest == \A p \in Parties : \A q \in DOMAIN inbox[p] : Honest(inbox[p][q], q)

Phases == {"do_offline", "do_online"}

\* A handshake that has nothing left to await has a frame of every peer, and a
\* phase runs only after a handshake.
AwaitsAll ==
  \A p \in Parties : /\ step[p] \in {"send", "round"} => call[p] \in Phases
                     /\ call[p] \in Phases => execution_state[p] # "NewBorn"
                     /\ call[p] = "handshake" /\ step[p] = "recv" =>
                          Peers(p) \subseteq awaiting[p] \cup DOMAIN inbox[p]

AgreeInv == Domains /\ LinksHonest /\ OutboxHonest /\ InboxHonest /\ AwaitsAll /\ PlanAgreement

-----------------------------------------------------------------------------
(* Queues of frames.                                                       *)

LEMMA AppendRange ==
  ASSUME NEW s, IsSeq(s), NEW e
  PROVE  IsSeq(Append(s, e)) /\ Range(Append(s, e)) = Range(s) \cup {e}
<1> DEFINE S == Range(s) \cup {e}
<1>1. s \in Seq(S)
  BY SeqMonotonic DEF IsSeq
<1>2. /\ Append(s, e) \in Seq(S) /\ Len(Append(s, e)) = Len(s) + 1
      /\ \A m \in 1..Len(s) : Append(s, e)[m] = s[m]
      /\ Append(s, e)[Len(s) + 1] = e
  BY <1>1, AppendProperties
<1>3. Len(s) \in Nat /\ DOMAIN s = 1..Len(s) /\ DOMAIN Append(s, e) = 1..(Len(s) + 1)
  BY <1>1, <1>2, LenProperties
<1>4. \A m \in 1..(Len(s) + 1) : m \in 1..Len(s) \/ m = Len(s) + 1
  BY <1>3
<1>5. Range(Append(s, e)) = S
  BY <1>2, <1>3, <1>4 DEF Range
<1> QED BY <1>2, <1>5 DEF IsSeq

LEMMA TailRange ==
  ASSUME NEW s, IsSeq(s), s # << >>
  PROVE  /\ Head(s) \in Range(s)
         /\ IsSeq(Tail(s)) /\ Range(Tail(s)) \subseteq Range(s)
<1> DEFINE S == Range(s)
<1>1. /\ Head(s) = s[1] /\ Tail(s) \in Seq(S) /\ Len(Tail(s)) = Len(s) - 1
      /\ \A m \in 1..(Len(s) - 1) : Tail(s)[m] = s[m + 1]
  BY HeadTailProperties DEF IsSeq
<1>2. Len(s) \in Nat /\ Len(s) >= 1 /\ DOMAIN s = 1..Len(s) /\ DOMAIN Tail(s) = 1..(Len(s) - 1)
  BY <1>1, LenProperties, EmptySeq DEF IsSeq
<1>3. Head(s) \in Range(s) /\ Range(Tail(s)) \subseteq Range(s)
  BY <1>1, <1>2 DEF Range
<1>4. Tail(s) \in Seq(Range(Tail(s)))
  BY <1>1, RangeOfSeq, SeqOfRange
<1> QED BY <1>3, <1>4 DEF IsSeq

LEMMA PrefixRange ==
  ASSUME NEW s, IsSeq(s), NEW n \in 0..Len(s)
  PROVE  IsSeq(SubSeq(s, 1, n)) /\ Range(SubSeq(s, 1, n)) \subseteq Range(s)
<1> DEFINE S == Range(s)
<1>1. s \in Seq(S) /\ Len(s) \in Nat /\ DOMAIN s = 1..Len(s)
  BY LenProperties DEF IsSeq
<1>2. /\ SubSeq(s, 1, n) \in Seq(S) /\ Len(SubSeq(s, 1, n)) = n
      /\ \A m \in 1..n : SubSeq(s, 1, n)[m] = s[m]
  BY <1>1
<1>3. DOMAIN SubSeq(s, 1, n) = 1..n
  BY <1>2, LenProperties
<1>4. Range(SubSeq(s, 1, n)) \subseteq Range(s)
  BY <1>1, <1>2, <1>3 DEF Range
<1>5. SubSeq(s, 1, n) \in Seq(Range(SubSeq(s, 1, n)))
  BY <1>2, SeqOfRange
<1> QED BY <1>4, <1>5 DEF IsSeq

-----------------------------------------------------------------------------
(* The network steps keep links honest.                                    *)

LEMMA CloseRange ==
  ASSUME \A l \in Links : IsSeq(in_flight[l]), NEW p \in Parties, NEW lost, NEW abrupt,
         Close(p, lost, abrupt)
  PROVE  /\ DOMAIN in_flight' = Links
         /\ \A l \in Links : IsSeq(in_flight'[l]) /\ Range(in_flight'[l]) \subseteq Range(in_flight[l])
<1>1. PICK kept \in [lost -> 0..Capacity] :
        /\ \A q \in lost : kept[q] = Len(in_flight[<<p, q>>]) \/ kept[q] < Len(in_flight[<<p, q>>])
        /\ in_flight' = [l \in Links |->
                           IF l[1] = p /\ l[2] \in lost THEN SubSeq(in_flight[l], 1, kept[l[2]])
                           ELSE IF l[2] = p /\ l[1] \in lost THEN << >>
                           ELSE in_flight[l]]
  BY DEF Close
<1>2. ASSUME NEW l \in Links
      PROVE  IsSeq(in_flight'[l]) /\ Range(in_flight'[l]) \subseteq Range(in_flight[l])
  <2>1. IsSeq(in_flight[l]) /\ l = <<l[1], l[2]>>
    BY DEF Links
  <2>2. CASE l[1] = p /\ l[2] \in lost
    <3>1. Len(in_flight[l]) \in Nat
      BY <2>1, LenProperties DEF IsSeq
    <3>2. kept[l[2]] \in Nat /\ (kept[l[2]] = Len(in_flight[l]) \/ kept[l[2]] < Len(in_flight[l]))
      BY <1>1, <2>1, <2>2, ExecutionAssumption
    <3>3. kept[l[2]] \in 0..Len(in_flight[l])
      BY <3>1, <3>2
    <3>4. in_flight'[l] = SubSeq(in_flight[l], 1, kept[l[2]])
      BY <1>1, <2>2
    <3> QED BY <2>1, <3>3, <3>4, PrefixRange
  <2>3. CASE ~(l[1] = p /\ l[2] \in lost) /\ l[2] = p /\ l[1] \in lost
    <3>1. in_flight'[l] = << >>
      BY <1>1, <2>3
    <3> QED BY <3>1, EmptySeq DEF IsSeq, Range
  <2>4. CASE ~(l[1] = p /\ l[2] \in lost) /\ ~(l[2] = p /\ l[1] \in lost)
    <3>1. in_flight'[l] = in_flight[l]
      BY <1>1, <2>4
    <3> QED BY <3>1, <2>1
  <2> QED BY <2>2, <2>3, <2>4
<1> QED BY <1>1, <1>2

LEMMA CloseHonest ==
  ASSUME Domains, LinksHonest, plan' = plan, NEW p \in Parties, NEW lost, NEW abrupt,
         Close(p, lost, abrupt)
  PROVE  LinksHonest' /\ DOMAIN in_flight' = Links
<1>1. /\ DOMAIN in_flight' = Links
      /\ \A l \in Links : IsSeq(in_flight'[l]) /\ Range(in_flight'[l]) \subseteq Range(in_flight[l])
  BY CloseRange DEF LinksHonest
<1>2. \A f, q : Honest(f, q)' = Honest(f, q)
  BY DEF Honest
<1> QED BY <1>1, <1>2 DEF LinksHonest, IsSeq

LEMMA WriteRange ==
  ASSUME DOMAIN in_flight = Links, \A l \in Links : IsSeq(in_flight[l]),
         NEW p \in Parties, NEW q \in Peers(p), NEW frame, Write(p, q, frame)
  PROVE  /\ DOMAIN in_flight' = Links
         /\ \A l \in Links : IsSeq(in_flight'[l])
         /\ \A l \in Links : l # <<p, q>> => Range(in_flight'[l]) \subseteq Range(in_flight[l])
         /\ Range(in_flight'[<<p, q>>]) \subseteq Range(in_flight[<<p, q>>]) \cup {frame}
<1>1. <<p, q>> \in Links /\ <<q, p>> \in Links /\ <<p, q>> # <<q, p>>
  BY DEF Links, Peers
<1>2. CASE in_flight' = [in_flight EXCEPT ![<<p, q>>] = Append(@, frame)]
  <2>1. /\ IsSeq(Append(in_flight[<<p, q>>], frame))
        /\ Range(Append(in_flight[<<p, q>>], frame)) = Range(in_flight[<<p, q>>]) \cup {frame}
    BY <1>1, AppendRange
  <2>2. /\ in_flight'[<<p, q>>] = Append(in_flight[<<p, q>>], frame) /\ DOMAIN in_flight' = Links
        /\ \A l \in Links : l # <<p, q>> => in_flight'[l] = in_flight[l]
    BY <1>1, <1>2
  <2> QED BY <2>1, <2>2
<1>3. CASE \E n \in 0..Len(in_flight[<<q, p>>]) :
             in_flight' = [in_flight EXCEPT ![<<q, p>>] = SubSeq(@, 1, n)]
  <2>1. PICK n \in 0..Len(in_flight[<<q, p>>]) :
          in_flight' = [in_flight EXCEPT ![<<q, p>>] = SubSeq(@, 1, n)]
    BY <1>3
  <2>2. /\ IsSeq(SubSeq(in_flight[<<q, p>>], 1, n))
        /\ Range(SubSeq(in_flight[<<q, p>>], 1, n)) \subseteq Range(in_flight[<<q, p>>])
    BY <1>1, PrefixRange
  <2>3. /\ in_flight'[<<q, p>>] = SubSeq(in_flight[<<q, p>>], 1, n) /\ DOMAIN in_flight' = Links
        /\ \A l \in Links : l # <<q, p>> => in_flight'[l] = in_flight[l]
    BY <1>1, <2>1
  <2> QED BY <1>1, <2>2, <2>3
<1> QED BY <1>2, <1>3 DEF Write

LEMMA WriteHonest ==
  ASSUME Domains, LinksHonest, plan' = plan, NEW p \in Parties, NEW q \in Peers(p), NEW frame,
         Honest(frame, p), Write(p, q, frame)
  PROVE  LinksHonest' /\ DOMAIN in_flight' = Links
<1>1. \A f, r : Honest(f, r)' = Honest(f, r)
  BY DEF Honest
<1>2. /\ DOMAIN in_flight' = Links
      /\ \A l \in Links : IsSeq(in_flight'[l])
      /\ \A l \in Links : l # <<p, q>> => Range(in_flight'[l]) \subseteq Range(in_flight[l])
      /\ Range(in_flight'[<<p, q>>]) \subseteq Range(in_flight[<<p, q>>]) \cup {frame}
  BY WriteRange DEF Domains, LinksHonest
<1>3. ASSUME NEW l \in Links, NEW f \in Range(in_flight'[l]) PROVE Honest(f, l[1])
  <2>1. CASE l = <<p, q>>
    <3>1. l[1] = p /\ \A g \in Range(in_flight[l]) : Honest(g, p)
      BY <2>1 DEF LinksHonest
    <3> QED BY <1>2, <1>3, <2>1, <3>1
  <2>2. CASE l # <<p, q>>
    BY <1>2, <1>3, <2>2 DEF LinksHonest
  <2> QED BY <2>1, <2>2
<1> QED BY <1>1, <1>2, <1>3 DEF LinksHonest, IsSeq

-----------------------------------------------------------------------------
(* Steps that end a call, whatever the reason.                             *)

\* The part of the invariant that is not about links.
Calls == /\ OutboxHonest /\ InboxHonest /\ AwaitsAll /\ PlanAgreement
         /\ DOMAIN execution_state = Parties /\ DOMAIN call = Parties /\ DOMAIN step = Parties
         /\ DOMAIN outbox = Parties /\ DOMAIN awaiting = Parties /\ DOMAIN inbox = Parties

LEMMA SplitInv == AgreeInv <=> Calls /\ LinksHonest /\ DOMAIN in_flight = Links
BY DEF AgreeInv, Calls, Domains

LEMMA EndCallKeeps ==
  ASSUME Calls, NEW p \in Parties, plan' = plan, execution_state' = execution_state, EndCall(p)
  PROVE  Calls'
<1>1. /\ call' = [call EXCEPT ![p] = "none"] /\ step' = [step EXCEPT ![p] = "idle"]
      /\ outbox' = [outbox EXCEPT ![p] = << >>] /\ inbox' = [inbox EXCEPT ![p] = << >>]
      /\ awaiting' = [awaiting EXCEPT ![p] = {}]
  BY DEF EndCall, ClearBatch
<1>2. DOMAIN << >> = {}
  OBVIOUS
<1>3. OutboxHonest' /\ InboxHonest'
  BY <1>1, <1>2 DEF Calls, OutboxHonest, InboxHonest, Honest
<1>4. AwaitsAll'
  BY <1>1 DEF Calls, AwaitsAll, Phases
<1>5. PlanAgreement'
  BY DEF Calls, PlanAgreement
<1> QED BY <1>1, <1>3, <1>4, <1>5 DEF Calls

LEMMA FailureKeeps ==
  ASSUME AgreeInv, NEW p \in Parties, NEW dropped, NetworkFailure(p, dropped)
  PROVE  AgreeInv'
<1>1. plan' = plan /\ execution_state' = execution_state /\ EndCall(p) /\ Close(p, dropped, FALSE)
  BY DEF NetworkFailure
<1>2. Calls'
  BY <1>1, SplitInv, EndCallKeeps
<1>3. LinksHonest' /\ DOMAIN in_flight' = Links
  BY <1>1, CloseHonest DEF AgreeInv
<1> QED BY <1>2, <1>3 DEF AgreeInv, Calls, Domains

LEMMA LeaveKeeps ==
  ASSUME AgreeInv, NEW p \in Parties, NEW how, Leave(p, how)
  PROVE  AgreeInv'
<1>1. plan' = plan /\ execution_state' = execution_state /\ EndCall(p)
      /\ Close(p, channels[p], how = "crashed")
  BY DEF Leave, program
<1>2. Calls'
  BY <1>1, SplitInv, EndCallKeeps
<1>3. LinksHonest' /\ DOMAIN in_flight' = Links
  BY <1>1, CloseHonest DEF AgreeInv
<1> QED BY <1>2, <1>3 DEF AgreeInv, Calls, Domains

-----------------------------------------------------------------------------
(* One lemma per action.                                                   *)

\* What is left to show of a step that leaves the links alone.
LEMMA SameLinks ==
  ASSUME AgreeInv, plan' = plan, in_flight' = in_flight
  PROVE  LinksHonest' /\ DOMAIN in_flight' = Links
BY DEF AgreeInv, Domains, LinksHonest, Honest, IsSeq

LEMMA InitAgree == Init => AgreeInv
<1> SUFFICES ASSUME Init PROVE AgreeInv
  OBVIOUS
<1>1. DOMAIN << >> = {} /\ IsSeq(<< >>) /\ Range(<< >>) = {}
  BY EmptySeq DEF IsSeq, Range
<1>2. Domains
  BY DEF Init, InitContexts, Domains
<1>3. LinksHonest
  BY <1>1 DEF Init, InitContexts, LinksHonest
<1>4. OutboxHonest /\ InboxHonest /\ AwaitsAll /\ PlanAgreement
  BY <1>1 DEF Init, InitContexts, OutboxHonest, InboxHonest, AwaitsAll, Phases, PlanAgreement
<1> QED BY <1>2, <1>3, <1>4 DEF AgreeInv

LEMMA CallHandshakeAgree == \A p \in Parties : AgreeInv /\ CallHandshake(p) => AgreeInv'
<1> SUFFICES ASSUME NEW p \in Parties, AgreeInv, CallHandshake(p) PROVE AgreeInv'
  OBVIOUS
<1>1. /\ plan' = plan /\ execution_state' = execution_state /\ in_flight' = in_flight
      /\ call' = [call EXCEPT ![p] = "handshake"] /\ step' = [step EXCEPT ![p] = "broadcast"]
      /\ outbox' = [outbox EXCEPT ![p] = [q \in Peers(p) |-> HashFrame(plan[p])]]
      /\ inbox' = inbox /\ awaiting' = awaiting
  BY DEF CallHandshake, Enter, program, net
<1>2. \A r \in Parties : HashFrame(plan[p]) = HashFrame(plan[r]) => plan[r] = plan[p]
  BY DEF HashFrame
<1>3. OutboxHonest' /\ InboxHonest'
  BY <1>1, <1>2 DEF AgreeInv, Domains, OutboxHonest, InboxHonest, Honest
<1>4. AwaitsAll' /\ PlanAgreement'
  BY <1>1 DEF AgreeInv, Domains, AwaitsAll, Phases, PlanAgreement
<1> QED BY <1>1, <1>3, <1>4, SameLinks DEF AgreeInv, Domains

LEMMA CallPhaseAgree == \A p \in Parties : AgreeInv /\ (CallOffline(p) \/ CallOnline(p)) => AgreeInv'
<1> SUFFICES ASSUME NEW p \in Parties, AgreeInv, CallOffline(p) \/ CallOnline(p) PROVE AgreeInv'
  OBVIOUS
<1>1. /\ plan' = plan /\ execution_state' = execution_state /\ in_flight' = in_flight
      /\ execution_state[p] # "NewBorn"
      /\ \E phase \in Phases : call' = [call EXCEPT ![p] = phase]
      /\ step' = [step EXCEPT ![p] = "round"]
      /\ outbox' = outbox /\ inbox' = inbox /\ awaiting' = awaiting
  BY DEF CallOffline, CallOnline, Enter, Phases, program, net, batch
<1>2. OutboxHonest' /\ InboxHonest'
  BY <1>1 DEF AgreeInv, OutboxHonest, InboxHonest, Honest
<1>3. AwaitsAll' /\ PlanAgreement'
  BY <1>1 DEF AgreeInv, Domains, AwaitsAll, Phases, PlanAgreement
<1> QED BY <1>1, <1>2, <1>3, SameLinks DEF AgreeInv, Domains

LEMMA BroadcastAgree ==
  \A p \in Parties : \A q \in Peers(p) : AgreeInv /\ BroadcastFrame(p, q) => AgreeInv'
<1> SUFFICES ASSUME NEW p \in Parties, NEW q \in Peers(p), AgreeInv, BroadcastFrame(p, q)
             PROVE  AgreeInv'
  OBVIOUS
<1>1. CASE NetworkFailure(p, {})
  BY <1>1, FailureKeeps
<1>2. CASE /\ Write(p, q, outbox[p][q])
           /\ outbox' = [outbox EXCEPT ![p] = [r \in DOMAIN @ \ {q} |-> @[r]]]
           /\ UNCHANGED <<program, position, awaiting, inbox, held, channels, outcome, status, retries>>
  <2>1. /\ plan' = plan /\ execution_state' = execution_state /\ call' = call /\ step' = step
        /\ inbox' = inbox /\ awaiting' = awaiting /\ q \in DOMAIN outbox[p]
    BY <1>2 DEF program, position, BroadcastFrame
  <2>2. LinksHonest' /\ DOMAIN in_flight' = Links
    BY <1>2, <2>1, WriteHonest DEF AgreeInv, OutboxHonest
  <2>3. OutboxHonest' /\ InboxHonest'
    BY <1>2, <2>1 DEF AgreeInv, Domains, OutboxHonest, InboxHonest, Honest
  <2>4. AwaitsAll' /\ PlanAgreement'
    BY <2>1 DEF AgreeInv, AwaitsAll, PlanAgreement
  <2> QED BY <1>2, <2>1, <2>2, <2>3, <2>4 DEF AgreeInv, Domains
<1> QED BY <1>1, <1>2 DEF BroadcastFrame

LEMMA SendAgree ==
  \A p \in Parties : \A q \in Peers(p) : AgreeInv /\ SendFrame(p, q) => AgreeInv'
<1> SUFFICES ASSUME NEW p \in Parties, NEW q \in Peers(p), AgreeInv, SendFrame(p, q)
             PROVE  AgreeInv'
  OBVIOUS
<1>1. CASE NetworkFailure(p, held[p])
  BY <1>1, FailureKeeps
<1>2. CASE /\ Write(p, q, outbox[p][q])
           /\ outbox' = [outbox EXCEPT ![p] = [r \in DOMAIN @ \ {q} |-> @[r]]]
           /\ UNCHANGED <<program, position, awaiting, inbox, held, channels, outcome, status, retries>>
  <2>1. /\ plan' = plan /\ execution_state' = execution_state /\ call' = call /\ step' = step
        /\ inbox' = inbox /\ awaiting' = awaiting /\ q \in DOMAIN outbox[p]
    BY <1>2 DEF program, position, SendFrame
  <2>2. LinksHonest' /\ DOMAIN in_flight' = Links
    BY <1>2, <2>1, WriteHonest DEF AgreeInv, OutboxHonest
  <2>3. OutboxHonest' /\ InboxHonest'
    BY <1>2, <2>1 DEF AgreeInv, Domains, OutboxHonest, InboxHonest, Honest
  <2>4. AwaitsAll' /\ PlanAgreement'
    BY <2>1 DEF AgreeInv, AwaitsAll, PlanAgreement
  <2> QED BY <1>2, <2>1, <2>2, <2>3, <2>4 DEF AgreeInv, Domains
<1> QED BY <1>1, <1>2 DEF SendFrame

\* Await, when it is not a handshake's or awaits all peers.
LEMMA AwaitAgree ==
  ASSUME AgreeInv, NEW p \in Parties, NEW wanted, Await(p, wanted),
         call[p] = "handshake" => Peers(p) \subseteq wanted
  PROVE  AgreeInv'
<1>1. CASE ExtractionFails(p, wanted)
  <2>1. PICK taken : NetworkFailure(p, taken)
    BY <1>1 DEF ExtractionFails
  <2> QED BY <2>1, FailureKeeps
<1>2. CASE /\ step' = [step EXCEPT ![p] = "recv"]
           /\ awaiting' = [awaiting EXCEPT ![p] = wanted]
           /\ UNCHANGED <<program, call, outbox, inbox, net>>
  <2>1. /\ plan' = plan /\ execution_state' = execution_state /\ call' = call
        /\ outbox' = outbox /\ inbox' = inbox /\ in_flight' = in_flight
    BY <1>2 DEF program, net
  <2>2. OutboxHonest' /\ InboxHonest'
    BY <2>1 DEF AgreeInv, OutboxHonest, InboxHonest, Honest
  <2>3. AwaitsAll' /\ PlanAgreement'
    BY <1>2, <2>1 DEF AgreeInv, Domains, AwaitsAll, Phases, PlanAgreement
  <2> QED BY <1>2, <2>1, <2>2, <2>3, SameLinks DEF AgreeInv, Domains
<1> QED BY <1>1, <1>2 DEF Await

LEMMA AwaitHashesAgree == \A p \in Parties : AgreeInv /\ AwaitHashes(p) => AgreeInv'
BY AwaitAgree DEF AwaitHashes

LEMMA AwaitSharesAgree == \A p \in Parties : AgreeInv /\ AwaitShares(p) => AgreeInv'
BY AwaitAgree DEF AwaitShares, AgreeInv, AwaitsAll, Phases

LEMMA ReceiveAgree ==
  \A p \in Parties : \A q \in Peers(p) : AgreeInv /\ ReceiveFrame(p, q) => AgreeInv'
<1> SUFFICES ASSUME NEW p \in Parties, NEW q \in Peers(p), AgreeInv, ReceiveFrame(p, q)
             PROVE  AgreeInv'
  OBVIOUS
<1> DEFINE frame == Head(in_flight[<<q, p>>])
<1>1. CASE NetworkFailure(p, held[p])
  BY <1>1, FailureKeeps
<1>2. CASE /\ in_flight' = [in_flight EXCEPT ![<<q, p>>] = Tail(@)]
           /\ awaiting' = [awaiting EXCEPT ![p] = @ \ {q}]
           /\ inbox' = [inbox EXCEPT ![p] = [r \in DOMAIN @ \cup {q} |-> IF r = q THEN frame ELSE @[r]]]
           /\ UNCHANGED <<program, position, outbox>>
  <2>1. /\ plan' = plan /\ execution_state' = execution_state /\ call' = call /\ step' = step
        /\ outbox' = outbox /\ in_flight[<<q, p>>] # << >>
    BY <1>2 DEF program, position, ReceiveFrame
  <2>2. <<q, p>> \in Links /\ DOMAIN in_flight = Links
    BY DEF Links, Peers, AgreeInv, Domains
  <2>3. IsSeq(in_flight[<<q, p>>]) /\ \A f \in Range(in_flight[<<q, p>>]) : Honest(f, q)
    BY <2>2 DEF AgreeInv, LinksHonest
  <2>4. /\ frame \in Range(in_flight[<<q, p>>])
        /\ IsSeq(Tail(in_flight[<<q, p>>]))
        /\ Range(Tail(in_flight[<<q, p>>])) \subseteq Range(in_flight[<<q, p>>])
    BY <2>1, <2>3, TailRange
  <2>5. Honest(frame, q)
    BY <2>3, <2>4
  <2> HIDE DEF frame
  <2>6. LinksHonest' /\ DOMAIN in_flight' = Links
    <3>1. /\ in_flight'[<<q, p>>] = Tail(in_flight[<<q, p>>]) /\ DOMAIN in_flight' = Links
          /\ \A l \in Links : l # <<q, p>> => in_flight'[l] = in_flight[l]
      BY <1>2, <2>2
    <3>2. \A l \in Links : IsSeq(in_flight'[l]) /\ Range(in_flight'[l]) \subseteq Range(in_flight[l])
      BY <3>1, <2>4 DEF AgreeInv, LinksHonest
    <3> QED BY <3>1, <3>2, <2>1, ZenonT(40) DEF AgreeInv, LinksHonest, Honest, IsSeq
  <2>7. InboxHonest'
    <3>1. SUFFICES ASSUME NEW s \in Parties, NEW r \in DOMAIN inbox'[s]
                   PROVE  Honest(inbox'[s][r], r)
      BY <2>1 DEF InboxHonest, Honest
    <3>2. CASE s = p /\ r = q
      BY <1>2, <2>5, <3>2 DEF AgreeInv, Domains
    <3>3. CASE s = p /\ r # q
      BY <1>2, <3>1, <3>3 DEF AgreeInv, Domains, InboxHonest
    <3>4. CASE s # p
      BY <1>2, <3>1, <3>4 DEF AgreeInv, Domains, InboxHonest
    <3> QED BY <3>2, <3>3, <3>4
  <2>8. OutboxHonest' /\ PlanAgreement'
    BY <2>1 DEF AgreeInv, OutboxHonest, PlanAgreement, Honest
  <2>9. AwaitsAll'
    BY <1>2, <2>1 DEF AgreeInv, Domains, AwaitsAll
  <2> QED BY <1>2, <2>1, <2>6, <2>7, <2>8, <2>9 DEF AgreeInv, Domains
<1> QED BY <1>1, <1>2 DEF ReceiveFrame

LEMMA ReceiveEndAgree ==
  \A p \in Parties : \A q \in Peers(p) : AgreeInv /\ ReceiveEnd(p, q) => AgreeInv'
BY FailureKeeps DEF ReceiveEnd

\* The heart of the matter: the hashes compared are those of all the peers.
LEMMA CompareAgree == \A p \in Parties : AgreeInv /\ CompareHashes(p) => AgreeInv'
<1> SUFFICES ASSUME NEW p \in Parties, AgreeInv, CompareHashes(p) PROVE AgreeInv'
  OBVIOUS
<1>1. plan' = plan /\ in_flight' = in_flight /\ EndCall(p)
  BY DEF CompareHashes, net
<1>2. CASE execution_state' = execution_state
  BY <1>1, <1>2, EndCallKeeps, SplitInv, SameLinks DEF AgreeInv, Calls, Domains
<1>3. CASE /\ \A q \in Peers(p) : inbox[p][q] = HashFrame(plan[p])
           /\ execution_state' = [execution_state EXCEPT ![p] = "Handshaked"]
  <2>1. \A q \in Peers(p) : q \in DOMAIN inbox[p]
    BY DEF CompareHashes, AgreeInv, AwaitsAll
  <2>2. ASSUME NEW q \in Parties PROVE plan[p] = plan[q]
    <3>1. CASE q = p
      BY <3>1
    <3>2. CASE q \in Peers(p)
      <4>1. Honest(inbox[p][q], q) /\ inbox[p][q] = HashFrame(plan[p])
        BY <1>3, <2>1, <3>2 DEF AgreeInv, InboxHonest
      <4> QED BY <4>1 DEF Honest
    <3> QED BY <3>1, <3>2 DEF Peers
  <2>3. PlanAgreement'
    BY <1>1, <1>3, <2>2 DEF AgreeInv, Domains, PlanAgreement
  <2>4. /\ call' = [call EXCEPT ![p] = "none"] /\ step' = [step EXCEPT ![p] = "idle"]
        /\ outbox' = [outbox EXCEPT ![p] = << >>] /\ inbox' = [inbox EXCEPT ![p] = << >>]
        /\ awaiting' = [awaiting EXCEPT ![p] = {}] /\ DOMAIN << >> = {}
    BY <1>1 DEF EndCall, ClearBatch
  <2>5. OutboxHonest' /\ InboxHonest'
    BY <1>1, <2>4 DEF AgreeInv, Domains, OutboxHonest, InboxHonest, Honest
  <2>6. AwaitsAll'
    BY <1>3, <2>4 DEF AgreeInv, Domains, AwaitsAll, Phases
  <2> QED BY <1>1, <1>3, <2>3, <2>4, <2>5, <2>6, SameLinks DEF AgreeInv, Domains
<1> QED BY <1>2, <1>3 DEF CompareHashes

LEMMA PrepareAgree ==
  \A p \in Parties : \A given \in InputLists : AgreeInv /\ PrepareInput(p, given) => AgreeInv'
<1> SUFFICES ASSUME NEW p \in Parties, NEW given \in InputLists, AgreeInv, PrepareInput(p, given)
             PROVE  AgreeInv'
  OBVIOUS
<1>1. /\ plan' = plan /\ in_flight' = in_flight /\ call' = call /\ step' = step
      /\ outbox' = outbox /\ inbox' = inbox /\ awaiting' = awaiting
      /\ execution_state[p] = "FinishedOffline"
      /\ \/ execution_state' = [execution_state EXCEPT ![p] = "ReadyOnline"]
         \/ execution_state' = execution_state
  BY DEF PrepareInput, net, batch, position
<1>2. OutboxHonest' /\ InboxHonest'
  BY <1>1 DEF AgreeInv, OutboxHonest, InboxHonest, Honest
<1>3. AwaitsAll' /\ PlanAgreement'
  BY <1>1 DEF AgreeInv, Domains, AwaitsAll, PlanAgreement
<1> QED BY <1>1, <1>2, <1>3, SameLinks DEF AgreeInv, Domains

LEMMA BeginRoundAgree == \A p \in Parties : AgreeInv /\ BeginRound(p) => AgreeInv'
<1> SUFFICES ASSUME NEW p \in Parties, AgreeInv, BeginRound(p) PROVE AgreeInv'
  OBVIOUS
<1>1. CASE Leave(p, "panicked")
  BY <1>1, LeaveKeeps
<1>2. CASE /\ step' = [step EXCEPT ![p] = "send"]
           /\ outbox' = [outbox EXCEPT ![p] = [q \in Receivers(p) |-> DataFrame(Batch(p, q))]]
           /\ UNCHANGED <<plan, execution_state, call, round, awaiting, inbox, net, outcome,
                          status, retries>>
  <2>1. /\ plan' = plan /\ execution_state' = execution_state /\ call' = call
        /\ awaiting' = awaiting /\ inbox' = inbox /\ in_flight' = in_flight
        /\ step[p] = "round"
    BY <1>2 DEF net, BeginRound
  <2>2. \A shares : Honest(DataFrame(shares), p)
    BY DEF Honest, DataFrame, HashFrame
  <2>3. OutboxHonest' /\ InboxHonest'
    BY <1>2, <2>1, <2>2 DEF AgreeInv, Domains, OutboxHonest, InboxHonest, Honest
  <2>4. AwaitsAll' /\ PlanAgreement'
    BY <1>2, <2>1 DEF AgreeInv, Domains, AwaitsAll, Phases, PlanAgreement
  <2> QED BY <1>2, <2>1, <2>3, <2>4, SameLinks DEF AgreeInv, Domains
<1>3. CASE \E taken \in SUBSET (Receivers(p) \cap channels[p]) :
             /\ outcome' = [outcome EXCEPT ![p] = "SchemeError"]
             /\ EndCall(p)
             /\ Close(p, taken, FALSE)
             /\ UNCHANGED <<plan, execution_state>>
  <2>1. PICK taken : EndCall(p) /\ Close(p, taken, FALSE) /\ UNCHANGED <<plan, execution_state>>
    BY <1>3
  <2>2. Calls'
    BY <2>1, SplitInv, EndCallKeeps
  <2>3. LinksHonest' /\ DOMAIN in_flight' = Links
    BY <2>1, CloseHonest DEF AgreeInv
  <2> QED BY <2>2, <2>3 DEF AgreeInv, Calls, Domains
<1> QED BY <1>1, <1>2, <1>3 DEF BeginRound

LEMMA FinishRoundAgree == \A p \in Parties : AgreeInv /\ FinishRound(p) => AgreeInv'
<1> SUFFICES ASSUME NEW p \in Parties, AgreeInv, FinishRound(p) PROVE AgreeInv'
  OBVIOUS
<1>1. /\ plan' = plan /\ execution_state' = execution_state /\ call' = call
      /\ in_flight' = in_flight /\ call[p] \in Phases
      /\ step' = [step EXCEPT ![p] = "round"]
      /\ outbox' = [outbox EXCEPT ![p] = << >>] /\ inbox' = [inbox EXCEPT ![p] = << >>]
      /\ awaiting' = [awaiting EXCEPT ![p] = {}] /\ DOMAIN << >> = {}
  BY DEF FinishRound, ClearBatch, Phases, net
<1>2. OutboxHonest' /\ InboxHonest'
  BY <1>1 DEF AgreeInv, Domains, OutboxHonest, InboxHonest, Honest
<1>3. AwaitsAll' /\ PlanAgreement'
  BY <1>1 DEF AgreeInv, Domains, AwaitsAll, Phases, PlanAgreement
<1> QED BY <1>1, <1>2, <1>3, SameLinks DEF AgreeInv, Domains

LEMMA FinishCallAgree == \A p \in Parties : AgreeInv /\ FinishCall(p) => AgreeInv'
<1> SUFFICES ASSUME NEW p \in Parties, AgreeInv, FinishCall(p) PROVE AgreeInv'
  OBVIOUS
<1>1. /\ plan' = plan /\ in_flight' = in_flight /\ EndCall(p)
      /\ \E s \in {"FinishedOffline", "Finished"} :
           execution_state' = [execution_state EXCEPT ![p] = s]
  BY DEF FinishCall, net
<1>2. execution_state[p] # "NewBorn"
  BY DEF FinishCall, AgreeInv, AwaitsAll
<1>3. /\ call' = [call EXCEPT ![p] = "none"] /\ step' = [step EXCEPT ![p] = "idle"]
      /\ outbox' = [outbox EXCEPT ![p] = << >>] /\ inbox' = [inbox EXCEPT ![p] = << >>]
      /\ awaiting' = [awaiting EXCEPT ![p] = {}] /\ DOMAIN << >> = {}
  BY <1>1 DEF EndCall, ClearBatch
<1>4. OutboxHonest' /\ InboxHonest'
  BY <1>1, <1>3 DEF AgreeInv, Domains, OutboxHonest, InboxHonest, Honest
<1>5. AwaitsAll' /\ PlanAgreement'
  BY <1>1, <1>2, <1>3 DEF AgreeInv, Domains, AwaitsAll, Phases, PlanAgreement
<1> QED BY <1>1, <1>3, <1>4, <1>5, SameLinks DEF AgreeInv, Domains

LEMMA NextAgree == AgreeInv /\ [Next]_vars => AgreeInv'
<1> SUFFICES ASSUME AgreeInv, [Next]_vars PROVE AgreeInv'
  OBVIOUS
<1>1. ASSUME NEW p \in Parties, Work(p) PROVE AgreeInv'
  <2>1. CASE CallHandshake(p)
    BY <2>1, CallHandshakeAgree
  <2>2. CASE CallOffline(p) \/ CallOnline(p)
    BY <2>2, CallPhaseAgree
  <2>3. CASE AwaitHashes(p) \/ AwaitShares(p)
    BY <2>3, AwaitHashesAgree, AwaitSharesAgree
  <2>4. CASE CompareHashes(p)
    BY <2>4, CompareAgree
  <2>5. CASE BeginRound(p)
    BY <2>5, BeginRoundAgree
  <2>6. CASE FinishRound(p) \/ FinishCall(p)
    BY <2>6, FinishRoundAgree, FinishCallAgree
  <2>7. CASE \E q \in Peers(p) : BroadcastFrame(p, q) \/ SendFrame(p, q)
    BY <2>7, BroadcastAgree, SendAgree
  <2>8. CASE \E q \in Peers(p) : ReceiveFrame(p, q) \/ ReceiveEnd(p, q)
    BY <2>8, ReceiveAgree, ReceiveEndAgree
  <2>9. CASE Drop(p)
    BY <2>9, LeaveKeeps DEF Drop
  <2> QED BY <1>1, <2>1, <2>2, <2>3, <2>4, <2>5, <2>6, <2>7, <2>8, <2>9 DEF Work
<1>2. ASSUME NEW p \in Parties, NEW given \in InputLists, PrepareInput(p, given) PROVE AgreeInv'
  BY <1>2, PrepareAgree
<1>3. ASSUME NEW p \in Parties, Crash(p) PROVE AgreeInv'
  BY <1>3, LeaveKeeps DEF Crash
<1>4. CASE UNCHANGED vars
  BY <1>4 DEF vars, program, position, batch, net, AgreeInv, Domains, LinksHonest, OutboxHonest,
              InboxHonest, AwaitsAll, PlanAgreement, Honest, IsSeq
<1> QED BY <1>1, <1>2, <1>3, <1>4 DEF Next

\* A party is past the handshake only if every party has its circuit, for any
\* number of parties, whatever crashes and however often a handshake is tried
\* again (execution.rs, handshake).
THEOREM HandshakeAgreement == Spec => []PlanAgreement
<1>1. Init => AgreeInv
  BY InitAgree
<1>2. AgreeInv /\ [Next]_vars => AgreeInv'
  BY NextAgree
<1>3. AgreeInv => PlanAgreement
  BY DEF AgreeInv
<1> QED BY <1>1, <1>2, <1>3, PTL DEF Spec

-----------------------------------------------------------------------------
(* Places in a list, and their numbers.                                    *)

Rank(places, k) == Cardinality({j \in places : j <= k})

\* Later places have higher numbers.
LEMMA RanksGrow ==
  ASSUME NEW n \in Nat, NEW places \in SUBSET (1..n)
  PROVE  /\ IsFiniteSet(places) /\ Cardinality(places) \in Nat
         /\ \A k \in places : Rank(places, k) \in 1..Cardinality(places)
         /\ \A j, k \in places : j < k => Rank(places, j) < Rank(places, k)
<1>1. IsFiniteSet(places)
  <2>1. IsFiniteSet(1..n)
    BY FS_Interval
  <2> QED BY <2>1, FS_Subset
<1>2. Cardinality(places) \in Nat
  BY <1>1, FS_CardinalityType
<1>3. ASSUME NEW k \in places PROVE Rank(places, k) \in 1..Cardinality(places)
  <2>1. {j \in places : j <= k} \subseteq places /\ k \in {j \in places : j <= k}
    OBVIOUS
  <2>2. /\ IsFiniteSet({j \in places : j <= k})
        /\ Cardinality({j \in places : j <= k}) <= Cardinality(places)
    BY <1>1, <2>1, FS_Subset
  <2>3. Cardinality({j \in places : j <= k}) \in Nat /\ Cardinality({j \in places : j <= k}) # 0
    BY <2>1, <2>2, FS_CardinalityType, FS_EmptySet
  <2> QED BY <1>2, <2>2, <2>3 DEF Rank
<1>4. ASSUME NEW j \in places, NEW k \in places, j < k PROVE Rank(places, j) < Rank(places, k)
  <2> DEFINE A == {i \in places : i <= j}
             B == {i \in places : i <= k}
  <2>1. A \subseteq B /\ k \in B /\ k \notin A
    <3>1. \A i \in places : i \in Int
      OBVIOUS
    <3>2. j \in Int /\ k \in Int /\ j < k
      BY <1>4, <3>1
    <3>3. k \in B /\ k \notin A
      BY <3>2
    <3>4. ASSUME NEW i \in A PROVE i \in B
      <4>1. i \in places /\ i <= j /\ i \in Int
        BY <3>1
      <4>2. i <= k
        BY <3>2, <4>1
      <4> QED BY <4>1, <4>2
    <3> QED BY <3>3, <3>4
  <2>2. IsFiniteSet(B) /\ Cardinality(A) <= Cardinality(B) /\ (Cardinality(A) = Cardinality(B) => A = B)
    BY <1>1, <2>1, FS_Subset
  <2>3. Cardinality(A) \in Nat /\ Cardinality(B) \in Nat
    BY <2>1, <2>2, FS_Subset, FS_CardinalityType
  <2> QED BY <2>1, <2>2, <2>3 DEF Rank
<1> QED BY <1>1, <1>2, <1>3, <1>4

LEMMA NthOf ==
  ASSUME NEW n \in Nat, NEW places \in SUBSET (1..n)
  PROVE  /\ \A k \in places : Nth(places, Rank(places, k)) = k
         /\ \A m \in 1..Cardinality(places) : Nth(places, m) \in places
<1>1. \A j, k \in places : Rank(places, j) = Rank(places, k) => j = k
  <2> SUFFICES ASSUME NEW j \in places, NEW k \in places, Rank(places, j) = Rank(places, k), j # k PROVE FALSE
    OBVIOUS
  <2>1. Rank(places, j) \in Nat /\ Rank(places, k) \in Nat
    BY RanksGrow
  <2>2. j < k \/ k < j
    OBVIOUS
  <2>3. Rank(places, j) < Rank(places, k) \/ Rank(places, k) < Rank(places, j)
    BY <2>2, RanksGrow
  <2> QED BY <2>1, <2>3
<1>2. ASSUME NEW k \in places PROVE Nth(places, Rank(places, k)) = k
  BY <1>1 DEF Nth, Rank
<1>3. ASSUME NEW m \in 1..Cardinality(places) PROVE Nth(places, m) \in places
  <2>1. PICK f : f = [k \in places |-> Rank(places, k)]
    OBVIOUS
  <2>2. f \in Injection(places, 1..Cardinality(places))
    BY <1>1, <2>1, RanksGrow DEF Injection, IsInjective
  <2>3. IsFiniteSet(1..Cardinality(places)) /\ Cardinality(1..Cardinality(places)) = Cardinality(places)
    <3>1. Cardinality(places) \in Nat
      BY RanksGrow
    <3> QED BY <3>1, FS_Interval
  <2>4. f \in Surjection(places, 1..Cardinality(places))
    BY <2>2, <2>3, FS_Injection
  <2>5. PICK k \in places : f[k] = m
    BY <2>4 DEF Surjection
  <2> QED BY <1>2, <2>1, <2>5
<1> QED BY <1>2, <1>3

-----------------------------------------------------------------------------
(* What a step does to the party that takes it and to the links.  The other *)
(* parties stay as they are.                                                *)

AllDomains ==
  /\ DOMAIN plan = Parties /\ DOMAIN execution_state = Parties
  /\ DOMAIN wire_contents = Parties /\ DOMAIN user_inputs = Parties
  /\ DOMAIN call = Parties /\ DOMAIN step = Parties /\ DOMAIN round = Parties
  /\ DOMAIN outbox = Parties /\ DOMAIN awaiting = Parties
  /\ DOMAIN inbox = Parties /\ DOMAIN held = Parties
  /\ DOMAIN channels = Parties /\ DOMAIN in_flight = Links
  /\ DOMAIN outcome = Parties /\ DOMAIN status = Parties /\ DOMAIN retries = Parties

SamePlan(r) == plan'[r] = plan[r] /\ execution_state'[r] = execution_state[r]
SameData(r) == wire_contents'[r] = wire_contents[r] /\ user_inputs'[r] = user_inputs[r]
SamePosition(r) == call'[r] = call[r] /\ step'[r] = step[r] /\ round'[r] = round[r]
SameReads(r) == awaiting'[r] = awaiting[r] /\ inbox'[r] = inbox[r]
SameBatch(r) == outbox'[r] = outbox[r] /\ SameReads(r) /\ held'[r] = held[r]
SameEnds(r) == channels'[r] = channels[r] /\ status'[r] = status[r]
SameResult(r) == outcome'[r] = outcome[r] /\ retries'[r] = retries[r]
Same(r) == /\ SamePlan(r) /\ SameData(r) /\ SamePosition(r) /\ SameBatch(r)
           /\ SameEnds(r) /\ SameResult(r)
Alone(p) == AllDomains' /\ \A r \in Parties \ {p} : Same(r)

MayEnter(p) ==
  /\ Up(p) /\ call[p] = "none"
  /\ Failed(p) => retries[p] < MaxRetries
  /\ retries'[p] = IF Failed(p) THEN retries[p] + 1 ELSE retries[p]
  /\ outcome'[p] = "none"
  /\ SamePlan(p) /\ SameData(p) /\ SameReads(p) /\ held'[p] = held[p] /\ SameEnds(p)
  /\ in_flight' = in_flight

EntersHandshake(p) ==
  /\ MayEnter(p) /\ execution_state[p] = "NewBorn"
  /\ call'[p] = "handshake" /\ step'[p] = "broadcast" /\ round'[p] = round[p]
  /\ outbox'[p] = [q \in Peers(p) |-> HashFrame(plan[p])]

EntersPhase(p) ==
  /\ MayEnter(p)
  /\ \/ execution_state[p] = "Handshaked" /\ call'[p] = "do_offline"
     \/ execution_state[p] = "ReadyOnline" /\ call'[p] = "do_online"
  /\ step'[p] = "round" /\ round'[p] = 1 /\ outbox'[p] = outbox[p]

Prepares(p, given) ==
  /\ Up(p) /\ call[p] = "none" /\ execution_state[p] = "FinishedOffline"
  /\ outcome'[p] = PrepareVerdict(p, given)
  /\ \/ /\ PrepareVerdict(p, given) = "Ok"
        /\ user_inputs'[p] = user_inputs[p] \cup Range(given) /\ execution_state'[p] = "ReadyOnline"
     \/ /\ PrepareVerdict(p, given) # "Ok"
        /\ user_inputs'[p] = user_inputs[p] /\ execution_state'[p] = execution_state[p]
  /\ plan'[p] = plan[p] /\ wire_contents'[p] = wire_contents[p]
  /\ SamePosition(p) /\ SameBatch(p) /\ SameEnds(p) /\ retries'[p] = retries[p]
  /\ in_flight' = in_flight

\* One frame of a batch goes out.
SendsFrame(p, q) ==
  /\ Up(p) /\ step[p] \in {"broadcast", "send"} /\ q \in DOMAIN outbox[p]
  /\ Write(p, q, outbox[p][q])
  /\ outbox'[p] = [r \in DOMAIN outbox[p] \ {q} |-> outbox[p][r]]
  /\ SamePlan(p) /\ SameData(p) /\ SamePosition(p) /\ SameReads(p) /\ held'[p] = held[p]
  /\ SameEnds(p) /\ SameResult(p)

BatchCleared(p) == outbox'[p] = << >> /\ awaiting'[p] = {} /\ inbox'[p] = << >> /\ held'[p] = {}

\* A call ends with an error, or the context goes away.
Stops(p, lost, abrupt) ==
  /\ Up(p) /\ Close(p, lost, abrupt) /\ channels'[p] = channels[p] \ lost
  /\ plan'[p] = plan[p] /\ execution_state'[p] = execution_state[p]
  /\ call'[p] = "none" /\ step'[p] = "idle" /\ round'[p] = round[p] /\ BatchCleared(p)
  /\ retries'[p] = retries[p]
  /\ \/ /\ outcome'[p] = "SchemeError" /\ status'[p] = status[p] /\ call[p] # "none"
        /\ channels'[p] # Peers(p) \/ call[p] = "handshake"
     \/ /\ outcome'[p] = outcome[p] /\ status'[p] \in {"crashed", "panicked", "dropped"}
        /\ lost = channels[p]
        /\ status'[p] = "panicked" => step[p] = "round" /\ round[p] <= Len(Rounds(p)) /\ (LocalPanics(p) \/ NetworkPanics(p))
  /\ \/ SameData(p)
     \/ /\ step[p] = "round" /\ round[p] <= Len(Rounds(p)) /\ ~LocalPanics(p) /\ ~NetworkPanics(p)
        /\ outcome'[p] = "SchemeError"
        /\ wire_contents'[p] = AfterLocal(p)
        /\ user_inputs'[p] = user_inputs[p] \ {op.output : op \in Range(NetworkOps(p))}

Wanted(p) == IF call[p] = "handshake" THEN Peers(p) ELSE Senders(p)

\* A batch has been sent, and its answers are awaited.
StartsReading(p) ==
  /\ Up(p) /\ step[p] \in {"broadcast", "send"} /\ DOMAIN outbox[p] = {}
  /\ Wanted(p) \subseteq channels[p]
  /\ step'[p] = "recv" /\ awaiting'[p] = Wanted(p) /\ held'[p] = Wanted(p)
  /\ call'[p] = call[p] /\ round'[p] = round[p] /\ outbox'[p] = outbox[p] /\ inbox'[p] = inbox[p]
  /\ SamePlan(p) /\ SameData(p) /\ SameEnds(p) /\ SameResult(p)
  /\ in_flight' = in_flight

ReadsFrame(p, q) ==
  /\ Up(p) /\ step[p] = "recv" /\ q \in awaiting[p] /\ in_flight[<<q, p>>] # << >>
  /\ Objects(Head(in_flight[<<q, p>>])) = Expected(p, q)
  /\ in_flight' = [in_flight EXCEPT ![<<q, p>>] = Tail(@)]
  /\ awaiting'[p] = awaiting[p] \ {q}
  /\ DOMAIN inbox'[p] = DOMAIN inbox[p] \cup {q}
  /\ \A r \in DOMAIN inbox'[p] : inbox'[p][r] = IF r = q THEN Head(in_flight[<<q, p>>]) ELSE inbox[p][r]
  /\ SamePlan(p) /\ SameData(p) /\ SamePosition(p) /\ outbox'[p] = outbox[p] /\ held'[p] = held[p]
  /\ SameEnds(p) /\ SameResult(p)

\* The hashes have come: they are equal or not.
Compares(p) ==
  /\ Up(p) /\ call[p] = "handshake" /\ step[p] = "recv" /\ awaiting[p] = {}
  /\ call'[p] = "none" /\ step'[p] = "idle" /\ round'[p] = round[p] /\ BatchCleared(p)
  /\ plan'[p] = plan[p] /\ wire_contents'[p] = wire_contents[p]
  /\ SameEnds(p) /\ retries'[p] = retries[p] /\ in_flight' = in_flight
  /\ \/ /\ \A q \in Peers(p) : inbox[p][q] = HashFrame(plan[p])
        /\ execution_state'[p] = "Handshaked" /\ user_inputs'[p] = {} /\ outcome'[p] = "Ok"
     \/ /\ execution_state'[p] = execution_state[p] /\ user_inputs'[p] = user_inputs[p]
        /\ outcome'[p] = "PlanNotAgreed"

StartsSending(p) ==
  /\ Up(p) /\ step[p] = "round" /\ round[p] <= Len(Rounds(p))
  /\ ~LocalPanics(p) /\ ~NetworkPanics(p) /\ Receivers(p) \subseteq channels[p]
  /\ wire_contents'[p] = AfterLocal(p)
  /\ user_inputs'[p] = user_inputs[p] \ {op.output : op \in Range(NetworkOps(p))}
  /\ step'[p] = "send" /\ outbox'[p] = [q \in Receivers(p) |-> DataFrame(Batch(p, q))]
  /\ held'[p] = Receivers(p)
  /\ SamePlan(p) /\ call'[p] = call[p] /\ round'[p] = round[p] /\ SameReads(p)
  /\ SameEnds(p) /\ SameResult(p) /\ in_flight' = in_flight

Outputs(p) == {op.output : op \in Range(NetworkOps(p))}
Writer(p, w) == CHOOSE k \in DOMAIN NetworkOps(p) : NetworkOps(p)[k].output = w

EndsRound(p) ==
  /\ Up(p) /\ call[p] \in Phases /\ step[p] = "recv" /\ awaiting[p] = {}
  /\ DOMAIN wire_contents'[p] = DOMAIN wire_contents[p] \cup Outputs(p)
  /\ \A w \in DOMAIN wire_contents'[p] :
       wire_contents'[p][w] = IF w \in Outputs(p) THEN Given(p, Writer(p, w)) ELSE wire_contents[p][w]
  /\ step'[p] = "round" /\ round'[p] = round[p] + 1 /\ BatchCleared(p)
  /\ SamePlan(p) /\ user_inputs'[p] = user_inputs[p] /\ call'[p] = call[p]
  /\ SameEnds(p) /\ SameResult(p) /\ in_flight' = in_flight

EndsPhase(p) ==
  /\ Up(p) /\ step[p] = "round" /\ round[p] > Len(Rounds(p))
  /\ execution_state'[p] = IF call[p] = "do_offline" THEN "FinishedOffline" ELSE "Finished"
  /\ outcome'[p] = "Ok"
  /\ call'[p] = "none" /\ step'[p] = "idle" /\ round'[p] = round[p] /\ BatchCleared(p)
  /\ plan'[p] = plan[p] /\ SameData(p) /\ SameEnds(p) /\ retries'[p] = retries[p]
  /\ in_flight' = in_flight

PartyMoves(p) ==
  \/ EntersHandshake(p) \/ EntersPhase(p) \/ \E given \in InputLists : Prepares(p, given)
  \/ \E q \in Peers(p) : SendsFrame(p, q) \/ ReadsFrame(p, q)
  \/ \E lost \in SUBSET channels[p] : \E abrupt \in BOOLEAN : Stops(p, lost, abrupt)
  \/ StartsReading(p) \/ Compares(p) \/ StartsSending(p) \/ EndsRound(p) \/ EndsPhase(p)

PartyTypes(p) ==
  /\ execution_state[p] \in {"NewBorn", "Handshaked", "FinishedOffline", "ReadyOnline", "Finished"}
  /\ call[p] \in {"none", "handshake", "do_offline", "do_online"}
  /\ step[p] \in {"idle", "broadcast", "send", "recv", "round"}
  /\ round[p] \in Nat \ {0}
  /\ awaiting[p] \subseteq held[p] /\ held[p] \subseteq channels[p] /\ channels[p] \subseteq Peers(p)
  /\ DOMAIN outbox[p] \subseteq Peers(p) /\ Range(outbox[p]) \subseteq Frame
  /\ DOMAIN inbox[p] \subseteq Peers(p) /\ Range(inbox[p]) \subseteq Frame
  /\ \A w \in DOMAIN wire_contents[p] : wire_contents[p][w] \subseteq Element
  /\ outcome[p] \in {"none", "Ok", "SchemeError", "PlanNotAgreed", "DuplicateInput",
                     "InvalidInputWire", "NotEnoughInputs"}
  /\ status[p] \in {"up", "dropped", "panicked", "crashed"}
  /\ retries[p] \in 0..MaxRetries

\* Where a call stands, and what its batch holds there.
PartyStands(p) ==
  /\ step[p] = "idle" <=> call[p] = "none"
  /\ step[p] = "broadcast" => call[p] = "handshake"
  /\ step[p] \in {"send", "round"} => call[p] \in Phases
  /\ call[p] \in Phases /\ step[p] \in {"send", "recv"} => round[p] <= Len(Rounds(p))
  /\ call[p] \in Phases => round[p] <= Len(Rounds(p)) + 1
  /\ call[p] = "handshake" => execution_state[p] = "NewBorn"
  /\ call[p] = "do_offline" => execution_state[p] = "Handshaked"
  /\ call[p] = "do_online" => execution_state[p] = "ReadyOnline"
  /\ call[p] # "none" => Up(p) /\ outcome[p] = "none"
  /\ execution_state[p] \in {"Handshaked", "ReadyOnline"} /\ call[p] = "none" /\ Up(p) =>
       outcome[p] = "Ok" \/ Failed(p)
  /\ execution_state[p] = "Finished" => outcome[p] = "Ok"
  /\ step[p] \notin {"broadcast", "send"} => DOMAIN outbox[p] = {}
  /\ step[p] = "send" => DOMAIN outbox[p] \subseteq held[p]
  /\ step[p] # "recv" => awaiting[p] = {} /\ DOMAIN inbox[p] = {}
  /\ step[p] = "recv" => awaiting[p] \cup DOMAIN inbox[p] = Wanted(p)
  /\ step[p] = "recv" => awaiting[p] \cap DOMAIN inbox[p] = {}
  /\ \A q \in DOMAIN inbox[p] : Objects(inbox[p][q]) = Expected(p, q)

LinksTyped == \A l \in Links : in_flight[l] \in Seq(Frame) /\ Len(in_flight[l]) <= Capacity

TypeInv ==
  /\ AllDomains /\ LinksTyped
  /\ \A p \in Parties : plan[p] \in Plans /\ PartyTypes(p) /\ PartyStands(p)

LEMMA CloseDomain ==
  ASSUME AllDomains, NEW p \in Parties, NEW lost, NEW abrupt, Close(p, lost, abrupt)
  PROVE  /\ DOMAIN in_flight' = Links /\ DOMAIN channels' = Parties
         /\ channels'[p] = channels[p] \ lost
         /\ \A r \in Parties : r # p => channels'[r] = channels[r]
<1>1. channels' = [channels EXCEPT ![p] = channels[p] \ lost]
  BY DEF Close
<1>2. DOMAIN in_flight' = Links
  BY DEF Close
<1> QED BY <1>1, <1>2 DEF AllDomains

LEMMA WriteDomain ==
  ASSUME AllDomains, NEW p, NEW q, NEW frame, Write(p, q, frame)
  PROVE  DOMAIN in_flight' = Links
BY DEF Write, AllDomains

LEMMA EndDomains ==
  ASSUME AllDomains, NEW p \in Parties, EndCall(p)
  PROVE  /\ DOMAIN call' = Parties /\ DOMAIN step' = Parties /\ DOMAIN round' = Parties
         /\ DOMAIN outbox' = Parties /\ DOMAIN awaiting' = Parties
         /\ DOMAIN inbox' = Parties /\ DOMAIN held' = Parties
         /\ call'[p] = "none" /\ step'[p] = "idle" /\ round'[p] = round[p] /\ BatchCleared(p)
         /\ \A r \in Parties : r # p => SamePosition(r) /\ SameBatch(r)
BY DEF EndCall, ClearBatch, AllDomains, BatchCleared, SamePosition, SameBatch, SameReads

LEMMA EnterMoves ==
  ASSUME AllDomains, NEW p \in Parties, CallHandshake(p) \/ CallOffline(p) \/ CallOnline(p)
  PROVE  Alone(p) /\ (EntersHandshake(p) \/ EntersPhase(p))
<1>1. \A method, required, first : Enter(p, method, required, first) =>
        /\ Up(p) /\ call[p] = "none" /\ execution_state[p] = required
        /\ (Failed(p) => retries[p] < MaxRetries)
        /\ retries' = [retries EXCEPT ![p] = IF Failed(p) THEN retries[p] + 1 ELSE retries[p]]
        /\ call' = [call EXCEPT ![p] = method]
        /\ step' = [step EXCEPT ![p] = first]
        /\ outcome' = [outcome EXCEPT ![p] = "none"]
  BY DEF Enter, Idle
<1>2. CASE CallHandshake(p)
  BY <1>1, <1>2 DEF CallHandshake, AllDomains, Alone, Same, SamePlan, SameData, SamePosition,
     SameReads, SameBatch, SameEnds, SameResult, EntersHandshake, MayEnter, program, net
<1>3. CASE CallOffline(p)
  BY <1>1, <1>3 DEF CallOffline, AllDomains, Alone, Same, SamePlan, SameData, SamePosition,
     SameReads, SameBatch, SameEnds, SameResult, EntersPhase, MayEnter, program, net, batch
<1>4. CASE CallOnline(p)
  BY <1>1, <1>4 DEF CallOnline, AllDomains, Alone, Same, SamePlan, SameData, SamePosition,
     SameReads, SameBatch, SameEnds, SameResult, EntersPhase, MayEnter, program, net, batch
<1> QED BY <1>2, <1>3, <1>4

LEMMA PrepareMoves ==
  ASSUME AllDomains, NEW p \in Parties, NEW given, PrepareInput(p, given)
  PROVE  Alone(p) /\ Prepares(p, given)
BY DEF PrepareInput, Idle, AllDomains, Alone, Same, SamePlan, SameData, SamePosition, SameReads,
   SameBatch, SameEnds, SameResult, Prepares, position, batch, net

LEMMA FailureMoves ==
  ASSUME TypeInv, NEW p \in Parties, NEW lost, NetworkFailure(p, lost), UNCHANGED user_inputs,
         Up(p), step[p] # "idle", call[p] = "handshake" \/ channels[p] \ lost # Peers(p)
  PROVE  Alone(p) /\ Stops(p, lost, FALSE)
<1>1. /\ outcome' = [outcome EXCEPT ![p] = "SchemeError"] /\ EndCall(p) /\ Close(p, lost, FALSE)
      /\ UNCHANGED <<plan, execution_state, wire_contents, status, retries>>
  BY DEF NetworkFailure
<1>2. AllDomains
  BY DEF TypeInv
<1>3. call[p] # "none"
  BY DEF TypeInv, PartyStands
<1>4. /\ DOMAIN call' = Parties /\ DOMAIN step' = Parties /\ DOMAIN round' = Parties
      /\ DOMAIN outbox' = Parties /\ DOMAIN awaiting' = Parties
      /\ DOMAIN inbox' = Parties /\ DOMAIN held' = Parties
      /\ call'[p] = "none" /\ step'[p] = "idle" /\ round'[p] = round[p] /\ BatchCleared(p)
      /\ \A r \in Parties : r # p => SamePosition(r) /\ SameBatch(r)
  BY <1>1, <1>2, EndDomains
<1>5. /\ DOMAIN in_flight' = Links /\ DOMAIN channels' = Parties
      /\ channels'[p] = channels[p] \ lost
      /\ \A r \in Parties : r # p => channels'[r] = channels[r]
  BY <1>1, <1>2, CloseDomain
<1>6. Alone(p)
  BY <1>1, <1>2, <1>4, <1>5 DEF AllDomains, Alone, Same, SamePlan, SameData, SameEnds, SameResult
<1>7. outcome'[p] = "SchemeError"
  BY <1>1, <1>2 DEF AllDomains
<1>8. Stops(p, lost, FALSE)
  BY <1>1, <1>3, <1>4, <1>5, <1>7 DEF Stops, SameData
<1> QED BY <1>6, <1>8

LEMMA LeaveMoves ==
  ASSUME TypeInv, NEW p \in Parties, NEW how \in {"crashed", "panicked", "dropped"}, Leave(p, how), Up(p),
         how = "panicked" => step[p] = "round" /\ round[p] <= Len(Rounds(p)) /\ (LocalPanics(p) \/ NetworkPanics(p))
  PROVE  Alone(p) /\ Stops(p, channels[p], how = "crashed")
<1>1. /\ status' = [status EXCEPT ![p] = how] /\ EndCall(p) /\ Close(p, channels[p], how = "crashed")
      /\ UNCHANGED <<plan, execution_state, wire_contents, user_inputs, outcome, retries>>
  BY DEF Leave, program
<1>2. AllDomains
  BY DEF TypeInv
<1>4. /\ DOMAIN call' = Parties /\ DOMAIN step' = Parties /\ DOMAIN round' = Parties
      /\ DOMAIN outbox' = Parties /\ DOMAIN awaiting' = Parties
      /\ DOMAIN inbox' = Parties /\ DOMAIN held' = Parties
      /\ call'[p] = "none" /\ step'[p] = "idle" /\ round'[p] = round[p] /\ BatchCleared(p)
      /\ \A r \in Parties : r # p => SamePosition(r) /\ SameBatch(r)
  BY <1>1, <1>2, EndDomains
<1>5. /\ DOMAIN in_flight' = Links /\ DOMAIN channels' = Parties
      /\ channels'[p] = channels[p] \ channels[p]
      /\ \A r \in Parties : r # p => channels'[r] = channels[r]
  BY <1>1, <1>2, CloseDomain
<1>6. Alone(p)
  BY <1>1, <1>2, <1>4, <1>5 DEF AllDomains, Alone, Same, SamePlan, SameData, SameEnds, SameResult
<1>7. status'[p] = how
  BY <1>1, <1>2 DEF AllDomains
<1>8. Stops(p, channels[p], how = "crashed")
  BY <1>1, <1>4, <1>5, <1>7 DEF Stops, SameData
<1> QED BY <1>6, <1>8

\* A batch that fails in a phase loses a channel, or had lost one before.
LEMMA MissingChannel ==
  ASSUME TypeInv, NEW p \in Parties, NEW wanted \in SUBSET Peers(p), ~(wanted \subseteq channels[p]), NEW lost
  PROVE  channels[p] \ lost # Peers(p)
  BY DEF TypeInv, PartyTypes

LEMMA LostChannel ==
  ASSUME TypeInv, NEW p \in Parties, NEW q \in held[p]
  PROVE  channels[p] \ held[p] # Peers(p)
  BY DEF TypeInv, PartyTypes

LEMMA BroadcastMoves ==
  ASSUME TypeInv, NEW p \in Parties, NEW q \in Peers(p), BroadcastFrame(p, q)
  PROVE  /\ Alone(p)
         /\ SendsFrame(p, q) \/ \E lost \in SUBSET channels[p] : Stops(p, lost, FALSE)
<1>1. Up(p) /\ step[p] = "broadcast" /\ q \in DOMAIN outbox[p]
  BY DEF BroadcastFrame
<1>2. CASE NetworkFailure(p, {}) /\ UNCHANGED user_inputs
  <2>1. call[p] = "handshake"
    BY <1>1 DEF TypeInv, PartyStands
  <2>2. Alone(p) /\ Stops(p, {}, FALSE)
    BY <1>1, <1>2, <2>1, FailureMoves
  <2> QED BY <2>2
<1>3. CASE /\ Write(p, q, outbox[p][q])
           /\ outbox' = [outbox EXCEPT ![p] = [r \in DOMAIN @ \ {q} |-> @[r]]]
           /\ UNCHANGED <<program, position, awaiting, inbox, held, channels, outcome, status, retries>>
  <2>1. AllDomains /\ DOMAIN in_flight' = Links
    BY <1>3, WriteDomain DEF TypeInv
  <2>2. Alone(p)
    BY <1>3, <2>1 DEF AllDomains, Alone, Same, SamePlan, SameData, SamePosition, SameReads, SameBatch,
       SameEnds, SameResult, program, position
  <2>3. outbox'[p] = [r \in DOMAIN outbox[p] \ {q} |-> outbox[p][r]]
    BY <1>3, <2>1 DEF AllDomains
  <2>4. SendsFrame(p, q)
    BY <1>1, <1>3, <2>3 DEF SendsFrame, SamePlan, SameData, SamePosition, SameReads, SameEnds, SameResult,
       program, position
  <2> QED BY <2>2, <2>4
<1> QED BY <1>2, <1>3 DEF BroadcastFrame

LEMMA SendMoves ==
  ASSUME TypeInv, NEW p \in Parties, NEW q \in Peers(p), SendFrame(p, q)
  PROVE  /\ Alone(p)
         /\ SendsFrame(p, q) \/ \E lost \in SUBSET channels[p] : Stops(p, lost, FALSE)
<1>1. Up(p) /\ step[p] = "send" /\ q \in DOMAIN outbox[p]
  BY DEF SendFrame
<1>2. CASE NetworkFailure(p, held[p]) /\ UNCHANGED user_inputs
  <2>1. q \in held[p] /\ held[p] \subseteq channels[p]
    BY <1>1 DEF TypeInv, PartyStands, PartyTypes
  <2>2. channels[p] \ held[p] # Peers(p)
    BY <2>1, LostChannel
  <2>3. Alone(p) /\ Stops(p, held[p], FALSE)
    BY <1>1, <1>2, <2>2, FailureMoves
  <2> QED BY <2>1, <2>3
<1>3. CASE /\ Write(p, q, outbox[p][q])
           /\ outbox' = [outbox EXCEPT ![p] = [r \in DOMAIN @ \ {q} |-> @[r]]]
           /\ UNCHANGED <<program, position, awaiting, inbox, held, channels, outcome, status, retries>>
  <2>1. AllDomains /\ DOMAIN in_flight' = Links
    BY <1>3, WriteDomain DEF TypeInv
  <2>2. Alone(p)
    BY <1>3, <2>1 DEF AllDomains, Alone, Same, SamePlan, SameData, SamePosition, SameReads, SameBatch,
       SameEnds, SameResult, program, position
  <2>3. outbox'[p] = [r \in DOMAIN outbox[p] \ {q} |-> outbox[p][r]]
    BY <1>3, <2>1 DEF AllDomains
  <2>4. SendsFrame(p, q)
    BY <1>1, <1>3, <2>3 DEF SendsFrame, SamePlan, SameData, SamePosition, SameReads, SameEnds, SameResult,
       program, position
  <2> QED BY <2>2, <2>4
<1> QED BY <1>2, <1>3 DEF SendFrame

LEMMA AwaitMoves ==
  ASSUME TypeInv, NEW p \in Parties, Up(p), step[p] \in {"broadcast", "send"}, DOMAIN outbox[p] = {},
         Await(p, Wanted(p))
  PROVE  /\ Alone(p)
         /\ StartsReading(p) \/ \E lost \in SUBSET channels[p] : Stops(p, lost, FALSE)
<1>1. Wanted(p) \subseteq Peers(p)
  BY DEF Wanted, Senders
<1>2. CASE ExtractionFails(p, Wanted(p)) /\ UNCHANGED user_inputs
  <2>1. PICK taken \in SUBSET (Wanted(p) \cap channels[p]) : NetworkFailure(p, taken)
    BY <1>2 DEF ExtractionFails
  <2>2. channels[p] \ taken # Peers(p)
    BY <1>1, <1>2, MissingChannel DEF ExtractionFails
  <2>3. Alone(p) /\ Stops(p, taken, FALSE)
    BY <1>2, <2>1, <2>2, FailureMoves
  <2> QED BY <2>1, <2>3
<1>3. CASE /\ Wanted(p) \subseteq channels[p]
           /\ step' = [step EXCEPT ![p] = "recv"]
           /\ awaiting' = [awaiting EXCEPT ![p] = Wanted(p)]
           /\ held' = [held EXCEPT ![p] = Wanted(p)]
           /\ UNCHANGED <<program, call, round, outbox, inbox, net, outcome, status, retries>>
  <2>1. AllDomains
    BY DEF TypeInv
  <2>2. Alone(p)
    BY <1>3, <2>1 DEF AllDomains, Alone, Same, SamePlan, SameData, SamePosition, SameReads, SameBatch,
       SameEnds, SameResult, program, net
  <2>3. StartsReading(p)
    BY <1>3, <2>1 DEF AllDomains, StartsReading, SamePlan, SameData, SameEnds, SameResult, program, net
  <2> QED BY <2>2, <2>3
<1> QED BY <1>2, <1>3 DEF Await

LEMMA AwaitsMove ==
  ASSUME TypeInv, NEW p \in Parties, AwaitHashes(p) \/ AwaitShares(p)
  PROVE  /\ Alone(p)
         /\ StartsReading(p) \/ \E lost \in SUBSET channels[p] : Stops(p, lost, FALSE)
<1>1. CASE AwaitHashes(p)
  <2>1. call[p] = "handshake"
    BY <1>1 DEF AwaitHashes, TypeInv, PartyStands
  <2> QED BY <1>1, <2>1, AwaitMoves DEF AwaitHashes, Wanted
<1>2. CASE AwaitShares(p)
  <2>1. call[p] # "handshake"
    BY <1>2 DEF AwaitShares, TypeInv, PartyStands, Phases
  <2> QED BY <1>2, <2>1, AwaitMoves DEF AwaitShares, Wanted
<1> QED BY <1>1, <1>2

LEMMA CompareMoves ==
  ASSUME TypeInv, NEW p \in Parties, CompareHashes(p)
  PROVE  Alone(p) /\ Compares(p)
<1>1. AllDomains /\ EndCall(p)
  BY DEF CompareHashes, TypeInv
<1>2. /\ DOMAIN call' = Parties /\ DOMAIN step' = Parties /\ DOMAIN round' = Parties
      /\ DOMAIN outbox' = Parties /\ DOMAIN awaiting' = Parties
      /\ DOMAIN inbox' = Parties /\ DOMAIN held' = Parties
      /\ call'[p] = "none" /\ step'[p] = "idle" /\ round'[p] = round[p] /\ BatchCleared(p)
      /\ \A r \in Parties : r # p => SamePosition(r) /\ SameBatch(r)
  BY <1>1, EndDomains
<1>3. Alone(p)
  BY <1>1, <1>2 DEF CompareHashes, AllDomains, Alone, Same, SamePlan, SameData, SameEnds, SameResult, net
<1>4. Compares(p)
  BY <1>1, <1>2 DEF CompareHashes, AllDomains, Compares, SameEnds, net
<1> QED BY <1>3, <1>4

LEMMA BeginMoves ==
  ASSUME TypeInv, NEW p \in Parties, BeginRound(p)
  PROVE  /\ Alone(p)
         /\ \/ StartsSending(p)
            \/ \E lost \in SUBSET channels[p] : \E abrupt \in BOOLEAN : Stops(p, lost, abrupt)
<1>1. AllDomains /\ Up(p) /\ step[p] = "round" /\ round[p] <= Len(Rounds(p)) /\ call[p] # "none"
  BY DEF BeginRound, TypeInv, PartyStands
<1>2. CASE (LocalPanics(p) \/ NetworkPanics(p)) /\ Leave(p, "panicked")
  <2>1. Alone(p) /\ Stops(p, channels[p], "panicked" = "crashed")
    BY <1>1, <1>2, LeaveMoves
  <2> QED BY <2>1
<1>3. CASE /\ ~LocalPanics(p) /\ ~NetworkPanics(p)
           /\ wire_contents' = [wire_contents EXCEPT ![p] = AfterLocal(p)]
           /\ user_inputs' = [user_inputs EXCEPT ![p] = @ \ {op.output : op \in Range(NetworkOps(p))}]
           /\ Receivers(p) \subseteq channels[p]
           /\ step' = [step EXCEPT ![p] = "send"]
           /\ outbox' = [outbox EXCEPT ![p] = [q \in Receivers(p) |-> DataFrame(Batch(p, q))]]
           /\ held' = [held EXCEPT ![p] = Receivers(p)]
           /\ UNCHANGED <<plan, execution_state, call, round, awaiting, inbox, net, outcome, status, retries>>
  <2>1. Alone(p)
    BY <1>1, <1>3 DEF AllDomains, Alone, Same, SamePlan, SameData, SamePosition, SameReads, SameBatch,
       SameEnds, SameResult, net
  <2>2. StartsSending(p)
    BY <1>1, <1>3 DEF AllDomains, StartsSending, SamePlan, SameReads, SameEnds, SameResult, net
  <2> QED BY <2>1, <2>2
<1>4. CASE /\ ~LocalPanics(p) /\ ~NetworkPanics(p)
           /\ wire_contents' = [wire_contents EXCEPT ![p] = AfterLocal(p)]
           /\ user_inputs' = [user_inputs EXCEPT ![p] = @ \ {op.output : op \in Range(NetworkOps(p))}]
           /\ ~(Receivers(p) \subseteq channels[p])
           /\ \E taken \in SUBSET (Receivers(p) \cap channels[p]) :
                /\ outcome' = [outcome EXCEPT ![p] = "SchemeError"]
                /\ EndCall(p)
                /\ Close(p, taken, FALSE)
           /\ UNCHANGED <<plan, execution_state, status, retries>>
  <2>1. PICK taken \in SUBSET (Receivers(p) \cap channels[p]) :
           /\ outcome' = [outcome EXCEPT ![p] = "SchemeError"]
           /\ EndCall(p)
           /\ Close(p, taken, FALSE)
    BY <1>4
  <2>2. Receivers(p) \subseteq Peers(p)
    BY DEF Receivers
  <2>3. channels[p] \ taken # Peers(p)
    BY <1>4, <2>2, MissingChannel
  <2>4. /\ DOMAIN call' = Parties /\ DOMAIN step' = Parties /\ DOMAIN round' = Parties
        /\ DOMAIN outbox' = Parties /\ DOMAIN awaiting' = Parties
        /\ DOMAIN inbox' = Parties /\ DOMAIN held' = Parties
        /\ call'[p] = "none" /\ step'[p] = "idle" /\ round'[p] = round[p] /\ BatchCleared(p)
        /\ \A r \in Parties : r # p => SamePosition(r) /\ SameBatch(r)
    BY <1>1, <2>1, EndDomains
  <2>5. /\ DOMAIN in_flight' = Links /\ DOMAIN channels' = Parties
        /\ channels'[p] = channels[p] \ taken
        /\ \A r \in Parties : r # p => channels'[r] = channels[r]
    BY <1>1, <2>1, CloseDomain
  <2>6. Alone(p)
    BY <1>1, <1>4, <2>1, <2>4, <2>5 DEF AllDomains, Alone, Same, SamePlan, SameData, SameEnds, SameResult
  <2>7. /\ outcome'[p] = "SchemeError" /\ wire_contents'[p] = AfterLocal(p)
        /\ user_inputs'[p] = user_inputs[p] \ {op.output : op \in Range(NetworkOps(p))}
    BY <1>1, <1>4, <2>1 DEF AllDomains
  <2>8. Stops(p, taken, FALSE)
    BY <1>1, <1>4, <2>1, <2>3, <2>4, <2>5, <2>7 DEF Stops
  <2> QED BY <2>1, <2>6, <2>8
<1> QED BY <1>2, <1>3, <1>4 DEF BeginRound

LEMMA ReceiveMoves ==
  ASSUME TypeInv, NEW p \in Parties, NEW q \in Peers(p), ReceiveFrame(p, q) \/ ReceiveEnd(p, q)
  PROVE  /\ Alone(p)
         /\ ReadsFrame(p, q) \/ \E lost \in SUBSET channels[p] : Stops(p, lost, FALSE)
<1>1. AllDomains /\ Up(p) /\ step[p] = "recv" /\ q \in awaiting[p]
  BY DEF ReceiveFrame, ReceiveEnd, TypeInv
<1>2. CASE NetworkFailure(p, held[p]) /\ UNCHANGED user_inputs
  <2>1. q \in held[p] /\ held[p] \subseteq channels[p]
    BY <1>1 DEF TypeInv, PartyTypes
  <2>2. channels[p] \ held[p] # Peers(p)
    BY <2>1, LostChannel
  <2>3. Alone(p) /\ Stops(p, held[p], FALSE)
    BY <1>1, <1>2, <2>2, FailureMoves
  <2> QED BY <2>1, <2>3
<1>3. CASE /\ in_flight[<<q, p>>] # << >>
           /\ Objects(Head(in_flight[<<q, p>>])) = Expected(p, q)
           /\ in_flight' = [in_flight EXCEPT ![<<q, p>>] = Tail(@)]
           /\ awaiting' = [awaiting EXCEPT ![p] = @ \ {q}]
           /\ inbox' = [inbox EXCEPT ![p] = [r \in DOMAIN @ \cup {q} |->
                                                IF r = q THEN Head(in_flight[<<q, p>>]) ELSE @[r]]]
           /\ UNCHANGED <<program, position, outbox, held, channels, outcome, status, retries>>
  <2>1. Alone(p)
    BY <1>1, <1>3 DEF AllDomains, Alone, Same, SamePlan, SameData, SamePosition, SameReads, SameBatch,
       SameEnds, SameResult, program, position
  <2>2. inbox'[p] = [r \in DOMAIN inbox[p] \cup {q} |->
                       IF r = q THEN Head(in_flight[<<q, p>>]) ELSE inbox[p][r]]
    BY <1>1, <1>3 DEF AllDomains
  <2>3. ReadsFrame(p, q)
    BY <1>1, <1>3, <2>2 DEF AllDomains, ReadsFrame, SamePlan, SameData, SamePosition, SameEnds, SameResult,
       program, position
  <2> QED BY <2>1, <2>3
<1> QED BY <1>2, <1>3 DEF ReceiveFrame, ReceiveEnd

LEMMA FinishMoves ==
  ASSUME TypeInv, NEW p \in Parties, FinishRound(p) \/ FinishCall(p)
  PROVE  Alone(p) /\ (EndsRound(p) \/ EndsPhase(p))
<1>1. AllDomains
  BY DEF TypeInv
<1>2. CASE FinishRound(p)
  <2> DEFINE writer == [w \in Outputs(p) |-> Writer(p, w)]
             new == [w \in DOMAIN wire_contents[p] \cup Outputs(p) |->
                       IF w \in Outputs(p) THEN Given(p, writer[w]) ELSE wire_contents[p][w]]
  <2>1. wire_contents' = [wire_contents EXCEPT ![p] = new]
    BY <1>2 DEF FinishRound, Outputs, Writer
  <2>2. /\ DOMAIN wire_contents'[p] = DOMAIN wire_contents[p] \cup Outputs(p)
        /\ \A w \in DOMAIN wire_contents'[p] :
             wire_contents'[p][w] = IF w \in Outputs(p) THEN Given(p, Writer(p, w)) ELSE wire_contents[p][w]
    <3>1. wire_contents'[p] = new
      BY <1>1, <2>1 DEF AllDomains
    <3>2. \A w \in Outputs(p) : writer[w] = Writer(p, w)
      OBVIOUS
    <3> QED BY <3>1, <3>2
  <2>3. /\ Up(p) /\ call[p] \in Phases /\ step[p] = "recv" /\ awaiting[p] = {}
        /\ step' = [step EXCEPT ![p] = "round"] /\ round' = [round EXCEPT ![p] = round[p] + 1]
        /\ ClearBatch(p)
        /\ UNCHANGED <<plan, execution_state, user_inputs, call, net, outcome, status, retries>>
    BY <1>2 DEF FinishRound, Phases
  <2> HIDE DEF new
  <2>4. Alone(p)
    BY <1>1, <2>1, <2>3 DEF AllDomains, Alone, Same, SamePlan, SameData, SamePosition, SameReads, SameBatch,
       SameEnds, SameResult, net, ClearBatch
  <2>5. BatchCleared(p) /\ step'[p] = "round" /\ round'[p] = round[p] + 1
    BY <1>1, <2>3 DEF AllDomains, BatchCleared, ClearBatch
  <2>6. EndsRound(p)
    BY <2>2, <2>3, <2>5 DEF EndsRound, SamePlan, SameEnds, SameResult, net
  <2> QED BY <2>4, <2>6
<1>3. CASE FinishCall(p)
  <2>1. EndCall(p)
    BY <1>3 DEF FinishCall
  <2>2. /\ DOMAIN call' = Parties /\ DOMAIN step' = Parties /\ DOMAIN round' = Parties
        /\ DOMAIN outbox' = Parties /\ DOMAIN awaiting' = Parties
        /\ DOMAIN inbox' = Parties /\ DOMAIN held' = Parties
        /\ call'[p] = "none" /\ step'[p] = "idle" /\ round'[p] = round[p] /\ BatchCleared(p)
        /\ \A r \in Parties : r # p => SamePosition(r) /\ SameBatch(r)
    BY <1>1, <2>1, EndDomains
  <2>3. Alone(p)
    BY <1>1, <1>3, <2>2 DEF FinishCall, AllDomains, Alone, Same, SamePlan, SameData, SameEnds, SameResult, net
  <2>4. EndsPhase(p)
    BY <1>1, <1>3, <2>2 DEF FinishCall, AllDomains, EndsPhase, SameData, SameEnds, net
  <2> QED BY <2>3, <2>4
<1> QED BY <1>2, <1>3

\* Every step is one of these moves of one party.
LEMMA Moves ==
  ASSUME TypeInv, Next
  PROVE  \E p \in Parties : Alone(p) /\ PartyMoves(p)
<1>1. PICK p \in Parties : \/ Work(p)
                           \/ \E given \in InputLists : PrepareInput(p, given)
                           \/ Crash(p)
  BY DEF Next
<1>2. AllDomains
  BY DEF TypeInv
<1>3. CASE CallHandshake(p) \/ CallOffline(p) \/ CallOnline(p)
  BY <1>2, <1>3, EnterMoves DEF PartyMoves
<1>4. CASE \E given \in InputLists : PrepareInput(p, given)
  BY <1>2, <1>4, PrepareMoves DEF PartyMoves
<1>5. CASE AwaitHashes(p) \/ AwaitShares(p)
  BY <1>5, AwaitsMove DEF PartyMoves
<1>6. CASE CompareHashes(p)
  BY <1>6, CompareMoves DEF PartyMoves
<1>7. CASE BeginRound(p)
  BY <1>7, BeginMoves DEF PartyMoves
<1>8. CASE FinishRound(p) \/ FinishCall(p)
  BY <1>8, FinishMoves DEF PartyMoves
<1>9. CASE \E q \in Peers(p) : BroadcastFrame(p, q) \/ SendFrame(p, q)
  BY <1>9, BroadcastMoves, SendMoves DEF PartyMoves
<1>10. CASE \E q \in Peers(p) : ReceiveFrame(p, q) \/ ReceiveEnd(p, q)
  BY <1>10, ReceiveMoves DEF PartyMoves
<1>11. CASE Drop(p) \/ Crash(p)
  <2>1. PICK how \in {"crashed", "dropped"} : Leave(p, how) /\ Up(p)
    BY <1>11 DEF Drop, Crash, Idle
  <2>2. Alone(p) /\ Stops(p, channels[p], how = "crashed")
    BY <2>1, LeaveMoves
  <2> QED BY <2>2 DEF PartyMoves
<1> QED BY <1>1, <1>3, <1>4, <1>5, <1>6, <1>7, <1>8, <1>9, <1>10, <1>11 DEF Work

-----------------------------------------------------------------------------
(* Types.                                                                  *)

LEMMA CurrentRound ==
  ASSUME NEW p \in Parties, plan[p] \in Plans, round[p] \in Nat \ {0}, round[p] <= Len(Rounds(p))
  PROVE  /\ Current(p) \in RoundsOf(plan[p])
         /\ Current(p) = Rounds(p)[round[p]] /\ round[p] \in DOMAIN Rounds(p)
         /\ Len(NetworkOps(p)) \in Nat /\ DOMAIN NetworkOps(p) = 1..Len(NetworkOps(p))
         /\ Len(LocalOps(p)) \in Nat /\ DOMAIN LocalOps(p) = 1..Len(LocalOps(p))
         /\ \A k \in DOMAIN NetworkOps(p) : NetworkOps(p)[k] \in PlanOps(plan[p])
         /\ \A k \in DOMAIN NetworkOps(p) : ~IsOperationLocal(NetworkOps(p)[k])
         /\ \A k \in DOMAIN LocalOps(p) : LocalOps(p)[k] \in PlanOps(plan[p])
<1>1. PICK S : Rounds(p) \in Seq(S)
  BY PlansAssumption DEF Rounds
<1>2. Len(Rounds(p)) \in Nat /\ DOMAIN Rounds(p) = 1..Len(Rounds(p))
  BY <1>1, LenProperties
<1>3. round[p] \in DOMAIN Rounds(p)
  BY <1>2
<1>4. Current(p) \in RoundsOf(plan[p])
  BY <1>3 DEF Current, Rounds, RoundsOf, Range
<1>5. /\ LocalOps(p) \in Seq(Range(LocalOps(p))) /\ NetworkOps(p) \in Seq(Range(NetworkOps(p)))
      /\ \A op \in Range(NetworkOps(p)) : ~IsOperationLocal(op)
  BY <1>4, PlansAssumption DEF LocalOps, NetworkOps
<1>6. /\ Len(NetworkOps(p)) \in Nat /\ DOMAIN NetworkOps(p) = 1..Len(NetworkOps(p))
      /\ Len(LocalOps(p)) \in Nat /\ DOMAIN LocalOps(p) = 1..Len(LocalOps(p))
  BY <1>5, LenProperties
<1>7. /\ \A k \in DOMAIN NetworkOps(p) : NetworkOps(p)[k] \in Range(NetworkOps(p))
      /\ \A k \in DOMAIN LocalOps(p) : LocalOps(p)[k] \in Range(LocalOps(p))
  BY DEF Range
<1>8. Range(NetworkOps(p)) \cup Range(LocalOps(p)) \subseteq PlanOps(plan[p])
  BY <1>4 DEF PlanOps, RoundOps, NetworkOps, LocalOps
<1> QED BY <1>3, <1>4, <1>5, <1>6, <1>7, <1>8 DEF Current

\* Names that depend only on a party's circuit, its call and its round.
LEMMA SamePlace ==
  ASSUME NEW r, plan'[r] = plan[r], call'[r] = call[r], round'[r] = round[r]
  PROVE  /\ Rounds(r)' = Rounds(r) /\ Current(r)' = Current(r)
         /\ NetworkOps(r)' = NetworkOps(r) /\ LocalOps(r)' = LocalOps(r)
         /\ Senders(r)' = Senders(r) /\ Receivers(r)' = Receivers(r) /\ Wanted(r)' = Wanted(r)
         /\ \A q : Expected(r, q)' = Expected(r, q)
<1>1. Rounds(r)' = Rounds(r)
  BY DEF Rounds
<1>2. Current(r)' = Current(r)
  BY <1>1 DEF Current
<1>3. NetworkOps(r)' = NetworkOps(r) /\ LocalOps(r)' = LocalOps(r)
  BY <1>2 DEF NetworkOps, LocalOps
<1>4. Senders(r)' = Senders(r) /\ Receivers(r)' = Receivers(r)
  BY <1>3 DEF Senders, Receivers
<1>5. Wanted(r)' = Wanted(r)
  BY <1>4 DEF Wanted
<1>6. \A q : Expected(r, q)' = Expected(r, q)
  BY <1>3 DEF Expected
<1> QED BY <1>1, <1>2, <1>3, <1>4, <1>5, <1>6

LEMMA SameStands ==
  ASSUME NEW r, Same(r), PartyTypes(r), PartyStands(r)
  PROVE  PartyTypes(r)' /\ PartyStands(r)'
<1>1. /\ plan'[r] = plan[r] /\ call'[r] = call[r] /\ round'[r] = round[r]
      /\ execution_state'[r] = execution_state[r] /\ wire_contents'[r] = wire_contents[r]
      /\ step'[r] = step[r] /\ awaiting'[r] = awaiting[r] /\ inbox'[r] = inbox[r]
      /\ outbox'[r] = outbox[r] /\ held'[r] = held[r] /\ channels'[r] = channels[r]
      /\ status'[r] = status[r] /\ outcome'[r] = outcome[r] /\ retries'[r] = retries[r]
  BY DEF Same, SamePlan, SameData, SamePosition, SameReads, SameBatch, SameEnds, SameResult
<1>2. /\ Rounds(r)' = Rounds(r) /\ Wanted(r)' = Wanted(r)
      /\ \A q : Expected(r, q)' = Expected(r, q)
  BY <1>1, SamePlace
<1>3. PartyTypes(r)'
  BY <1>1 DEF PartyTypes
<1>4. PartyStands(r)'
  BY <1>1, <1>2 DEF PartyStands, Up, Failed
<1> QED BY <1>3, <1>4

LEMMA ShareTyped ==
  ASSUME NEW w, w \in {op.output : op \in UNION {PlanOps(pl) : pl \in Plans}} \cup {HashLength},
         NEW q \in Parties, NEW p \in Parties, NEW d \in BOOLEAN
  PROVE  Share(w, q, p, d) \in Element
BY DEF Share, Element

LEMMA FrameTyped ==
  ASSUME NEW f \in Frame
  PROVE  /\ f \in HashFrames => f.kind = "hash" /\ Objects(f) = 1
         /\ f \in DataFrames => f.kind = "data" /\ f.shares \in Seq(Element) /\ Objects(f) = Len(f.shares)
BY DEF Frame, HashFrames, DataFrames, HashFrame, Objects

LEMMA BatchTyped ==
  ASSUME NEW p \in Parties, NEW q \in Parties, plan[p] \in Plans, round[p] \in Nat \ {0},
         round[p] <= Len(Rounds(p))
  PROVE  Batch(p, q) \in Seq(Element) /\ DataFrame(Batch(p, q)) \in Frame
<1> DEFINE sending == {k \in DOMAIN NetworkOps(p) : Sends(NetworkOps(p)[k], p)}
<1>1. PICK n \in Nat : n = Len(NetworkOps(p)) /\ DOMAIN NetworkOps(p) = 1..n
  BY CurrentRound
<1>2. sending \subseteq 1..n
  BY <1>1
<1>3. /\ Cardinality(sending) \in Nat
      /\ \A m \in 1..Cardinality(sending) : Nth(sending, m) \in sending
  BY <1>2, RanksGrow, NthOf
<1>4. ASSUME NEW m \in 1..Cardinality(sending)
      PROVE  LET op == NetworkOps(p)[Nth(sending, m)]
             IN Share(op.output, p, q, IsInputOf(op, p) /\ op.output \notin user_inputs[p]) \in Element
  <2>1. PICK op : op = NetworkOps(p)[Nth(sending, m)] /\ op \in PlanOps(plan[p])
    BY <1>3, CurrentRound
  <2>2. op.output \in {o.output : o \in UNION {PlanOps(pl) : pl \in Plans}} \cup {HashLength}
    BY <2>1
  <2>3. (IsInputOf(op, p) /\ op.output \notin user_inputs[p]) \in BOOLEAN
    OBVIOUS
  <2> QED BY <2>1, <2>2, <2>3, ShareTyped
<1>5. Batch(p, q) \in [1..Cardinality(sending) -> Element]
  BY <1>4 DEF Batch
<1>6. Batch(p, q) \in Seq(Element)
  BY <1>3, <1>5, SeqDef
<1> QED BY <1>6 DEF DataFrame, Frame, DataFrames

\* An operation's place among those that read from a sender is within the
\* frame that this sender's shares came in.
LEMMA PlaceFits ==
  ASSUME NEW p \in Parties, plan[p] \in Plans, call[p] \in Phases, round[p] \in Nat \ {0},
         round[p] <= Len(Rounds(p)), NEW k \in DOMAIN NetworkOps(p),
         NEW q, Receives(NetworkOps(p)[k], p, q), Objects(inbox[p][q]) = Expected(p, q)
  PROVE  /\ PlaceOf(p, q, k) \in 1..Objects(inbox[p][q])
         /\ Objects(inbox[p][q]) = 1 => PlaceOf(p, q, k) = 1
<1> DEFINE places == {j \in DOMAIN NetworkOps(p) : Receives(NetworkOps(p)[j], p, q)}
<1>1. PICK n \in Nat : n = Len(NetworkOps(p)) /\ DOMAIN NetworkOps(p) = 1..n
  BY CurrentRound
<1>2. places \in SUBSET (1..n) /\ k \in places
  BY <1>1
<1>3. PlaceOf(p, q, k) = Rank(places, k)
  <2>1. {j \in 1..k : Receives(NetworkOps(p)[j], p, q)} = {j \in places : j <= k}
    BY <1>1
  <2> QED BY <2>1 DEF PlaceOf, Rank
<1>4. Rank(places, k) \in 1..Cardinality(places) /\ Cardinality(places) \in Nat
  BY <1>2, RanksGrow
<1>5. Expected(p, q) = Cardinality(places)
  BY DEF Expected, Phases
<1> HIDE DEF places
<1> QED BY <1>3, <1>4, <1>5

\* The share handed to an operation is one of those received.
LEMMA GivenTyped ==
  ASSUME NEW p \in Parties, plan[p] \in Plans, call[p] \in Phases, round[p] \in Nat \ {0},
         round[p] <= Len(Rounds(p)), NEW k \in DOMAIN NetworkOps(p),
         DOMAIN inbox[p] \subseteq Peers(p), Range(inbox[p]) \subseteq Frame,
         \A q \in DOMAIN inbox[p] : Objects(inbox[p][q]) = Expected(p, q)
  PROVE  Given(p, k) \subseteq Element
<1> SUFFICES ASSUME NEW q \in DOMAIN inbox[p], Receives(NetworkOps(p)[k], p, q)
             PROVE  SharesOf(inbox[p][q], q, p)[PlaceOf(p, q, k)] \in Element
  BY DEF Given
<1>0. /\ inbox[p][q] \in Frame /\ q \in Parties
      /\ PlaceOf(p, q, k) \in 1..Objects(inbox[p][q])
      /\ Objects(inbox[p][q]) = 1 => PlaceOf(p, q, k) = 1
  BY PlaceFits DEF Range, Peers
<1>7. CASE inbox[p][q] \in HashFrames
  <2>1. inbox[p][q].kind = "hash" /\ PlaceOf(p, q, k) = 1
    BY <1>0, <1>7, FrameTyped
  <2>3. SharesOf(inbox[p][q], q, p) = <<Share(HashLength, q, p, FALSE)>>
    BY <2>1 DEF SharesOf
  <2>4. Share(HashLength, q, p, FALSE) \in Element
    BY <1>0, ShareTyped
  <2>5. \A e : <<e>>[1] = e
    OBVIOUS
  <2> QED BY <2>1, <2>3, <2>4, <2>5
<1>8. CASE inbox[p][q] \in DataFrames
  <2>1. PICK s \in Seq(Element) : s = SharesOf(inbox[p][q], q, p) /\ Len(s) = Objects(inbox[p][q])
    BY <1>0, <1>8, FrameTyped DEF SharesOf
  <2>2. s[PlaceOf(p, q, k)] \in Element
    BY <1>0, <2>1, ElementOfSeq
  <2> QED BY <2>1, <2>2
<1> QED BY <1>0, <1>7, <1>8 DEF Frame

LEMMA CloseTyped ==
  ASSUME TypeInv, NEW p \in Parties, NEW lost \in SUBSET Peers(p), NEW abrupt, Close(p, lost, abrupt)
  PROVE  LinksTyped'
<1>1. PICK kept \in [lost -> 0..Capacity] :
        /\ \A q \in lost : kept[q] <= Len(in_flight[<<p, q>>])
        /\ in_flight' = [l \in Links |->
                          IF l[1] = p /\ l[2] \in lost THEN SubSeq(in_flight[l], 1, kept[l[2]])
                          ELSE IF l[2] = p /\ l[1] \in lost THEN << >>
                          ELSE in_flight[l]]
  <2>1. PICK kept \in [lost -> 0..Capacity] :
          /\ \A q \in lost : \/ kept[q] = Len(in_flight[<<p, q>>])
                             \/ kept[q] < Len(in_flight[<<p, q>>])
          /\ in_flight' = [l \in Links |->
                          IF l[1] = p /\ l[2] \in lost THEN SubSeq(in_flight[l], 1, kept[l[2]])
                          ELSE IF l[2] = p /\ l[1] \in lost THEN << >>
                          ELSE in_flight[l]]
    BY DEF Close
  <2>2. ASSUME NEW q \in lost PROVE kept[q] <= Len(in_flight[<<p, q>>])
    <3>1. <<p, q>> \in Links
      BY DEF Links, Peers
    <3>2. Len(in_flight[<<p, q>>]) \in Nat
      BY <3>1, LenProperties DEF TypeInv, LinksTyped
    <3>3. kept[q] \in Nat
      BY ExecutionAssumption
    <3> QED BY <2>1, <3>2, <3>3
  <2> QED BY <2>1, <2>2
<1> SUFFICES ASSUME NEW l \in Links PROVE in_flight'[l] \in Seq(Frame) /\ Len(in_flight'[l]) <= Capacity
  BY DEF LinksTyped
<1>2. in_flight[l] \in Seq(Frame) /\ Len(in_flight[l]) <= Capacity /\ Len(in_flight[l]) \in Nat
  BY LenProperties DEF TypeInv, LinksTyped
<1>3. CASE l[1] = p /\ l[2] \in lost
  <2>1. PICK k \in Nat : k = kept[l[2]] /\ k <= Len(in_flight[l])
    <3>1. l = <<p, l[2]>>
      BY <1>3 DEF Links
    <3>2. kept[l[2]] \in Nat
      BY <1>3, ExecutionAssumption
    <3> QED BY <1>1, <1>3, <3>1, <3>2
  <2>2. in_flight'[l] = SubSeq(in_flight[l], 1, k)
    BY <1>1, <1>3, <2>1
  <2>3. SubSeq(in_flight[l], 1, k) \in Seq(Frame) /\ Len(SubSeq(in_flight[l], 1, k)) <= k
    <3>1. \A i \in 1..k : i \in 1..Len(in_flight[l])
      BY <1>2, <2>1
    <3>2. \A i \in 1..k : in_flight[l][i] \in Frame
      BY <1>2, <3>1, ElementOfSeq
    <3> QED BY <3>1, <3>2, <1>2, SubSeqProperties
  <2> QED BY <1>2, <2>1, <2>2, <2>3, ExecutionAssumption, LenProperties
<1>4. CASE ~(l[1] = p /\ l[2] \in lost) /\ l[2] = p /\ l[1] \in lost
  <2>1. in_flight'[l] = << >>
    BY <1>1, <1>4
  <2> QED BY <2>1, ExecutionAssumption, EmptySeq
<1>5. CASE ~(l[1] = p /\ l[2] \in lost) /\ ~(l[2] = p /\ l[1] \in lost)
  BY <1>1, <1>2, <1>5
<1> QED BY <1>3, <1>4, <1>5

LEMMA WriteTyped ==
  ASSUME TypeInv, NEW p \in Parties, NEW q \in Peers(p), NEW frame \in Frame, Write(p, q, frame)
  PROVE  LinksTyped'
<1>1. <<p, q>> \in Links /\ <<q, p>> \in Links /\ DOMAIN in_flight = Links
  BY DEF Links, Peers, TypeInv, AllDomains
<1>2. \A l \in Links : in_flight[l] \in Seq(Frame) /\ Len(in_flight[l]) <= Capacity /\ Len(in_flight[l]) \in Nat
  BY LenProperties DEF TypeInv, LinksTyped
<1>3. CASE /\ Len(in_flight[<<p, q>>]) < Capacity
           /\ in_flight' = [in_flight EXCEPT ![<<p, q>>] = Append(@, frame)]
  <2>1. PICK s \in Seq(Frame) : s = in_flight[<<p, q>>] /\ Len(s) \in Nat
    BY <1>1, <1>2
  <2>2. Append(s, frame) \in Seq(Frame) /\ Len(Append(s, frame)) = Len(s) + 1
    BY AppendProperties
  <2>3. Len(Append(s, frame)) <= Capacity
    BY <1>3, <2>1, <2>2, ExecutionAssumption
  <2>4. /\ in_flight'[<<p, q>>] = Append(s, frame)
        /\ \A l \in Links : l # <<p, q>> => in_flight'[l] = in_flight[l]
    BY <1>1, <1>3, <2>1
  <2> QED BY <1>2, <2>2, <2>3, <2>4 DEF LinksTyped
<1>4. CASE \E n \in 0..Len(in_flight[<<q, p>>]) : in_flight' = [in_flight EXCEPT ![<<q, p>>] = SubSeq(@, 1, n)]
  <2>1. PICK s \in Seq(Frame) : s = in_flight[<<q, p>>] /\ Len(s) \in Nat /\ Len(s) <= Capacity
    BY <1>1, <1>2
  <2>2. PICK n \in 0..Len(s) : in_flight' = [in_flight EXCEPT ![<<q, p>>] = SubSeq(s, 1, n)]
    BY <1>4, <2>1
  <2>3. SubSeq(s, 1, n) \in Seq(Frame) /\ Len(SubSeq(s, 1, n)) <= Capacity
    <3>1. n \in Nat /\ n <= Len(s) /\ \A i \in 1..n : i \in 1..Len(s)
      BY <2>1
    <3>2. \A i \in 1..n : s[i] \in Frame
      BY <3>1, ElementOfSeq
    <3>3. SubSeq(s, 1, n) \in Seq(Frame) /\ Len(SubSeq(s, 1, n)) = (IF 1 <= n THEN n - 1 + 1 ELSE 0)
      BY <3>1, <3>2, <2>1, SubSeqProperties
    <3> QED BY <2>1, <3>1, <3>3, ExecutionAssumption
  <2>4. /\ in_flight'[<<q, p>>] = SubSeq(s, 1, n)
        /\ \A l \in Links : l # <<q, p>> => in_flight'[l] = in_flight[l]
    BY <1>1, <2>2
  <2> QED BY <1>2, <2>3, <2>4 DEF LinksTyped
<1> QED BY <1>3, <1>4 DEF Write

\* The variables that a step changes at one party are functions on the parties.
Table(f) == f = [p \in Parties |-> f[p]]
Tables == /\ Table(plan) /\ Table(execution_state) /\ Table(call) /\ Table(step) /\ Table(round)
          /\ Table(outcome) /\ Table(status) /\ Table(retries)

LEMMA EntersHandshakeTypes ==
  ASSUME TypeInv, NEW p \in Parties, EntersHandshake(p)
  PROVE  PartyTypes(p)' /\ PartyStands(p)' /\ LinksTyped'
<1>1. PartyTypes(p) /\ PartyStands(p) /\ plan[p] \in Plans /\ LinksTyped
  BY DEF TypeInv
<1>2. PartyTypes(p)'
  <2>1. HashFrame(plan[p]) \in Frame
    BY <1>1 DEF Frame, HashFrames
  <2>2. DOMAIN outbox'[p] = Peers(p) /\ Range(outbox'[p]) \subseteq Frame
    BY <2>1 DEF EntersHandshake, Range
  <2>3. retries'[p] \in 0..MaxRetries
    BY <1>1, ExecutionAssumption DEF EntersHandshake, MayEnter, PartyTypes
  <2> QED BY <1>1, <2>2, <2>3 DEF EntersHandshake, MayEnter, PartyTypes, SamePlan, SameData, SameReads, SameEnds
<1>3. PartyStands(p)'
  BY <1>1 DEF EntersHandshake, MayEnter, PartyStands, SamePlan, SameReads, SameEnds, Phases, Up
<1> QED BY <1>1, <1>2, <1>3 DEF EntersHandshake, MayEnter, LinksTyped

LEMMA EntersPhaseTypes ==
  ASSUME TypeInv, NEW p \in Parties, EntersPhase(p)
  PROVE  PartyTypes(p)' /\ PartyStands(p)' /\ LinksTyped'
<1>1. PartyTypes(p) /\ PartyStands(p) /\ plan[p] \in Plans /\ LinksTyped
  BY DEF TypeInv
<1>2. PartyTypes(p)'
  <2>1. retries'[p] \in 0..MaxRetries
    BY <1>1, ExecutionAssumption DEF EntersPhase, MayEnter, PartyTypes
  <2> QED BY <1>1, <2>1 DEF EntersPhase, MayEnter, PartyTypes, SamePlan, SameData, SameReads, SameEnds
<1>3. PartyStands(p)'
  <2>1. PICK n \in Nat : n = Len(Rounds(p))'
    <3>1. plan'[p] \in Plans
      BY <1>1 DEF EntersPhase, MayEnter, SamePlan
    <3>2. PICK S : Rounds(p)' \in Seq(S)
      BY <3>1, PlansAssumption DEF Rounds
    <3> QED BY <3>2, LenProperties
  <2>2. round'[p] <= Len(Rounds(p))' + 1
    BY <2>1 DEF EntersPhase
  <2> QED BY <1>1, <2>2 DEF EntersPhase, MayEnter, PartyStands, SamePlan, SameReads, SameEnds, Phases, Up
<1> QED BY <1>1, <1>2, <1>3 DEF EntersPhase, MayEnter, LinksTyped

LEMMA PreparesTypes ==
  ASSUME TypeInv, NEW p \in Parties, NEW given, Prepares(p, given)
  PROVE  PartyTypes(p)' /\ PartyStands(p)' /\ LinksTyped'
<1>1. PartyTypes(p) /\ PartyStands(p) /\ plan[p] \in Plans /\ LinksTyped
  BY DEF TypeInv
<1>2. /\ plan'[p] = plan[p] /\ wire_contents'[p] = wire_contents[p]
      /\ call'[p] = call[p] /\ step'[p] = step[p] /\ round'[p] = round[p]
      /\ outbox'[p] = outbox[p] /\ awaiting'[p] = awaiting[p] /\ inbox'[p] = inbox[p] /\ held'[p] = held[p]
      /\ channels'[p] = channels[p] /\ status'[p] = status[p] /\ retries'[p] = retries[p]
  BY DEF Prepares, SamePosition, SameBatch, SameReads, SameEnds
<1>3. outcome'[p] \in {"Ok", "DuplicateInput", "InvalidInputWire", "NotEnoughInputs"}
  BY DEF Prepares, PrepareVerdict
<1>4. /\ execution_state[p] = "FinishedOffline" /\ call[p] = "none"
      /\ \/ execution_state'[p] = "FinishedOffline"
         \/ execution_state'[p] = "ReadyOnline" /\ outcome'[p] = "Ok"
  BY DEF Prepares
<1>5. PartyTypes(p)'
  BY <1>1, <1>2, <1>3, <1>4 DEF PartyTypes
<1>6. Wanted(p)' = Wanted(p) /\ \A q : Expected(p, q)' = Expected(p, q)
  BY <1>2, SamePlace
<1>7. PartyStands(p)'
  BY <1>1, <1>2, <1>4, <1>6 DEF PartyStands, Phases, Up
<1> QED BY <1>1, <1>5, <1>7 DEF Prepares, LinksTyped

LEMMA SendsTypes ==
  ASSUME TypeInv, NEW p \in Parties, NEW q \in Peers(p), SendsFrame(p, q)
  PROVE  PartyTypes(p)' /\ PartyStands(p)' /\ LinksTyped'
<1>1. PartyTypes(p) /\ PartyStands(p) /\ plan[p] \in Plans /\ LinksTyped
  BY DEF TypeInv
<1>2. /\ plan'[p] = plan[p] /\ execution_state'[p] = execution_state[p] /\ wire_contents'[p] = wire_contents[p]
      /\ call'[p] = call[p] /\ step'[p] = step[p] /\ round'[p] = round[p]
      /\ awaiting'[p] = awaiting[p] /\ inbox'[p] = inbox[p] /\ held'[p] = held[p]
      /\ channels'[p] = channels[p] /\ status'[p] = status[p] /\ retries'[p] = retries[p]
      /\ outcome'[p] = outcome[p] /\ step[p] \in {"broadcast", "send"}
  BY DEF SendsFrame, SamePlan, SameData, SamePosition, SameReads, SameEnds, SameResult
<1>3. DOMAIN outbox'[p] \subseteq DOMAIN outbox[p] /\ Range(outbox'[p]) \subseteq Range(outbox[p])
  BY DEF SendsFrame, Range
<1>4. LinksTyped'
  <2>1. outbox[p][q] \in Frame
    BY <1>1 DEF SendsFrame, PartyTypes, Range
  <2> QED BY <2>1, WriteTyped DEF SendsFrame
<1>5. PartyTypes(p)'
  BY <1>1, <1>2, <1>3 DEF PartyTypes
<1>6. /\ Rounds(p)' = Rounds(p) /\ Wanted(p)' = Wanted(p) /\ \A r : Expected(p, r)' = Expected(p, r)
  BY <1>2, SamePlace
<1>7. PartyStands(p)'
  BY <1>1, <1>2, <1>3, <1>6 DEF PartyStands, Up, Failed
<1> QED BY <1>4, <1>5, <1>7

LEMMA StopsTypes ==
  ASSUME TypeInv, NEW p \in Parties, NEW lost \in SUBSET channels[p], NEW abrupt \in BOOLEAN,
         Stops(p, lost, abrupt)
  PROVE  PartyTypes(p)' /\ PartyStands(p)' /\ LinksTyped'
<1>1. PartyTypes(p) /\ PartyStands(p) /\ plan[p] \in Plans /\ LinksTyped
  BY DEF TypeInv
<1>2. LinksTyped'
  <2>1. lost \subseteq Peers(p) /\ Close(p, lost, abrupt)
    BY <1>1 DEF PartyTypes, Stops
  <2> QED BY <2>1, CloseTyped
<1>3. /\ call'[p] = "none" /\ step'[p] = "idle" /\ DOMAIN outbox'[p] = {} /\ awaiting'[p] = {}
      /\ DOMAIN inbox'[p] = {} /\ held'[p] = {}
      /\ Range(outbox'[p]) = {} /\ Range(inbox'[p]) = {}
      /\ channels'[p] = channels[p] \ lost /\ round'[p] = round[p] /\ retries'[p] = retries[p]
      /\ execution_state'[p] = execution_state[p] /\ plan'[p] = plan[p]
  BY DEF Stops, BatchCleared, Range
<1>4. \A w \in DOMAIN wire_contents'[p] : wire_contents'[p][w] \subseteq Element
  <2>1. wire_contents'[p] = wire_contents[p] \/ wire_contents'[p] = AfterLocal(p)
    BY DEF Stops, SameData
  <2>2. \A w \in DOMAIN AfterLocal(p) : AfterLocal(p)[w] \subseteq Element
    BY <1>1 DEF AfterLocal, PartyTypes
  <2> QED BY <1>1, <2>1, <2>2 DEF PartyTypes
<1>5. \/ outcome'[p] = "SchemeError" /\ status'[p] = status[p] /\ Up(p) /\ call[p] # "none"
      \/ outcome'[p] = outcome[p] /\ status'[p] \in {"crashed", "panicked", "dropped"}
  BY DEF Stops
<1>6. PartyTypes(p)'
  BY <1>1, <1>3, <1>4, <1>5 DEF PartyTypes, Up
<1>7. PartyStands(p)'
  <2>1. execution_state'[p] = "Finished" => outcome'[p] = "Ok"
    BY <1>1, <1>3, <1>5 DEF PartyStands, PartyTypes
  <2>2. Up(p)' => outcome'[p] = "SchemeError"
    BY <1>5 DEF Up
  <2>3. /\ call'[p] \notin Phases /\ call'[p] # "handshake" /\ call'[p] = "none" /\ step'[p] = "idle"
        /\ DOMAIN outbox'[p] = {} /\ awaiting'[p] = {} /\ DOMAIN inbox'[p] = {}
    BY <1>3 DEF Phases
  <2>4. /\ execution_state'[p] \in {"Handshaked", "ReadyOnline"} /\ call'[p] = "none" /\ Up(p)' =>
             outcome'[p] = "Ok" \/ Failed(p)'
    BY <2>2 DEF Failed
  <2> QED BY <2>1, <2>3, <2>4 DEF PartyStands, Phases
<1> QED BY <1>2, <1>6, <1>7

LEMMA StartsReadingTypes ==
  ASSUME TypeInv, NEW p \in Parties, StartsReading(p)
  PROVE  PartyTypes(p)' /\ PartyStands(p)' /\ LinksTyped'
<1>1. PartyTypes(p) /\ PartyStands(p) /\ plan[p] \in Plans /\ LinksTyped
  BY DEF TypeInv
<1>2. /\ plan'[p] = plan[p] /\ execution_state'[p] = execution_state[p] /\ wire_contents'[p] = wire_contents[p]
      /\ call'[p] = call[p] /\ step'[p] = "recv" /\ round'[p] = round[p]
      /\ awaiting'[p] = Wanted(p) /\ inbox'[p] = inbox[p] /\ held'[p] = Wanted(p)
      /\ channels'[p] = channels[p] /\ status'[p] = status[p] /\ retries'[p] = retries[p]
      /\ outcome'[p] = outcome[p] /\ step[p] \in {"broadcast", "send"} /\ outbox'[p] = outbox[p]
      /\ Wanted(p) \subseteq channels[p] /\ DOMAIN outbox[p] = {}
  BY DEF StartsReading, SamePlan, SameData, SameEnds, SameResult
<1>3. PartyTypes(p)'
  BY <1>1, <1>2 DEF PartyTypes
<1>4. /\ Rounds(p)' = Rounds(p) /\ Wanted(p)' = Wanted(p) /\ \A r : Expected(p, r)' = Expected(p, r)
  BY <1>2, SamePlace
<1>5. /\ DOMAIN inbox[p] = {} /\ call[p] # "none"
      /\ call[p] \in Phases => round[p] <= Len(Rounds(p)) /\ round[p] <= Len(Rounds(p)) + 1
  BY <1>1, <1>2 DEF PartyStands, Phases
<1>6. PartyStands(p)'
  <2>1. /\ call[p] = "handshake" => execution_state[p] = "NewBorn"
        /\ call[p] = "do_offline" => execution_state[p] = "Handshaked"
        /\ call[p] = "do_online" => execution_state[p] = "ReadyOnline"
        /\ Up(p) /\ outcome[p] = "none"
        /\ execution_state[p] = "Finished" => outcome[p] = "Ok"
    BY <1>1, <1>5 DEF PartyStands
  <2> QED BY <1>2, <1>4, <1>5, <2>1 DEF PartyStands, Up
<1> QED BY <1>1, <1>3, <1>6 DEF StartsReading, LinksTyped

LEMMA ReadsTypes ==
  ASSUME TypeInv, NEW p \in Parties, NEW q \in Peers(p), ReadsFrame(p, q)
  PROVE  PartyTypes(p)' /\ PartyStands(p)' /\ LinksTyped'
<1>1. PartyTypes(p) /\ PartyStands(p) /\ plan[p] \in Plans /\ LinksTyped /\ DOMAIN in_flight = Links
  BY DEF TypeInv, AllDomains
<1>2. /\ plan'[p] = plan[p] /\ execution_state'[p] = execution_state[p] /\ wire_contents'[p] = wire_contents[p]
      /\ call'[p] = call[p] /\ step'[p] = step[p] /\ round'[p] = round[p]
      /\ awaiting'[p] = awaiting[p] \ {q} /\ held'[p] = held[p]
      /\ channels'[p] = channels[p] /\ status'[p] = status[p] /\ retries'[p] = retries[p]
      /\ outcome'[p] = outcome[p] /\ step[p] = "recv" /\ outbox'[p] = outbox[p]
      /\ DOMAIN inbox'[p] = DOMAIN inbox[p] \cup {q} /\ q \in awaiting[p]
  BY DEF ReadsFrame, SamePlan, SameData, SamePosition, SameEnds, SameResult
<1>3. PICK s \in Seq(Frame) : s = in_flight[<<q, p>>] /\ s # << >> /\ Len(s) \in Nat /\ Len(s) <= Capacity
  <2>1. <<q, p>> \in Links
    BY DEF Links, Peers
  <2> QED BY <1>1, <2>1, LenProperties DEF LinksTyped, ReadsFrame
<1>4. Head(s) \in Frame /\ Tail(s) \in Seq(Frame) /\ Len(Tail(s)) <= Capacity
  BY <1>3, HeadTailProperties, ExecutionAssumption
<1>5. LinksTyped'
  <2>1. /\ in_flight'[<<q, p>>] = Tail(s)
        /\ \A l \in Links : l # <<q, p>> => in_flight'[l] = in_flight[l]
    <3>1. <<q, p>> \in Links
      BY DEF Links, Peers
    <3> QED BY <1>1, <1>3, <3>1 DEF ReadsFrame
  <2> QED BY <1>1, <1>4, <2>1 DEF LinksTyped
<1>6. \A r \in DOMAIN inbox'[p] : inbox'[p][r] = IF r = q THEN Head(s) ELSE inbox[p][r]
  BY <1>3 DEF ReadsFrame
<1>7. Range(inbox'[p]) \subseteq Frame
  <2>1. ASSUME NEW r \in DOMAIN inbox'[p] PROVE inbox'[p][r] \in Frame
    BY <1>1, <1>2, <1>4, <1>6 DEF PartyTypes, Range
  <2> QED BY <2>1 DEF Range
<1>8. PartyTypes(p)'
  BY <1>1, <1>2, <1>7 DEF PartyTypes
<1>9. /\ Rounds(p)' = Rounds(p) /\ Wanted(p)' = Wanted(p) /\ \A r : Expected(p, r)' = Expected(p, r)
  BY <1>2, SamePlace
<1>10. \A r \in DOMAIN inbox'[p] : Objects(inbox'[p][r]) = Expected(p, r)'
  <2>1. Objects(Head(s)) = Expected(p, q)
    BY <1>3 DEF ReadsFrame
  <2> QED BY <1>1, <1>2, <1>6, <1>9, <2>1 DEF PartyStands
<1>11. PartyStands(p)'
  BY <1>1, <1>2, <1>9, <1>10 DEF PartyStands, Up, Failed
<1> QED BY <1>5, <1>8, <1>11

LEMMA ComparesTypes ==
  ASSUME TypeInv, NEW p \in Parties, Compares(p)
  PROVE  PartyTypes(p)' /\ PartyStands(p)' /\ LinksTyped'
<1>1. PartyTypes(p) /\ PartyStands(p) /\ plan[p] \in Plans /\ LinksTyped
  BY DEF TypeInv
<1>2. /\ call'[p] = "none" /\ step'[p] = "idle" /\ DOMAIN outbox'[p] = {} /\ awaiting'[p] = {}
      /\ DOMAIN inbox'[p] = {} /\ held'[p] = {}
      /\ Range(outbox'[p]) = {} /\ Range(inbox'[p]) = {}
      /\ channels'[p] = channels[p] /\ round'[p] = round[p] /\ retries'[p] = retries[p]
      /\ status'[p] = status[p] /\ wire_contents'[p] = wire_contents[p]
  BY DEF Compares, BatchCleared, Range, SameEnds
<1>3. \/ execution_state'[p] = "Handshaked" /\ outcome'[p] = "Ok"
      \/ execution_state'[p] = execution_state[p] /\ outcome'[p] = "PlanNotAgreed"
  BY DEF Compares
<1>4. execution_state[p] = "NewBorn"
  BY <1>1 DEF Compares, PartyStands
<1>5. PartyTypes(p)'
  BY <1>1, <1>2, <1>3 DEF PartyTypes
<1>6. PartyStands(p)'
  BY <1>1, <1>2, <1>3, <1>4 DEF PartyStands, Phases, Failed
<1> QED BY <1>1, <1>5, <1>6 DEF Compares, LinksTyped

LEMMA StartsSendingTypes ==
  ASSUME TypeInv, NEW p \in Parties, StartsSending(p)
  PROVE  PartyTypes(p)' /\ PartyStands(p)' /\ LinksTyped'
<1>1. PartyTypes(p) /\ PartyStands(p) /\ plan[p] \in Plans /\ LinksTyped
  BY DEF TypeInv
<1>2. /\ plan'[p] = plan[p] /\ execution_state'[p] = execution_state[p] /\ wire_contents'[p] = AfterLocal(p)
      /\ call'[p] = call[p] /\ step'[p] = "send" /\ round'[p] = round[p]
      /\ awaiting'[p] = awaiting[p] /\ inbox'[p] = inbox[p] /\ held'[p] = Receivers(p)
      /\ channels'[p] = channels[p] /\ status'[p] = status[p] /\ retries'[p] = retries[p]
      /\ outcome'[p] = outcome[p] /\ step[p] = "round" /\ round[p] <= Len(Rounds(p))
      /\ outbox'[p] = [q \in Receivers(p) |-> DataFrame(Batch(p, q))]
      /\ Receivers(p) \subseteq channels[p]
  BY DEF StartsSending, SamePlan, SameReads, SameEnds, SameResult
<1>3. Range(outbox'[p]) \subseteq Frame /\ DOMAIN outbox'[p] = Receivers(p)
  <2>1. ASSUME NEW q \in Receivers(p) PROVE DataFrame(Batch(p, q)) \in Frame
    <3>1. q \in Parties
      BY <1>1, <1>2 DEF PartyTypes, Peers
    <3> QED BY <1>1, <1>2, <3>1, BatchTyped DEF PartyTypes
  <2> QED BY <1>2, <2>1 DEF Range
<1>4. \A w \in DOMAIN AfterLocal(p) : AfterLocal(p)[w] \subseteq Element
  BY <1>1 DEF AfterLocal, PartyTypes
<1>5. PartyTypes(p)'
  BY <1>1, <1>2, <1>3, <1>4 DEF PartyTypes, PartyStands
<1>6. /\ Rounds(p)' = Rounds(p) /\ Wanted(p)' = Wanted(p) /\ \A r : Expected(p, r)' = Expected(p, r)
  BY <1>2, SamePlace
<1>7. PartyStands(p)'
  BY <1>1, <1>2, <1>3, <1>6 DEF PartyStands, Up, Failed
<1> QED BY <1>1, <1>5, <1>7 DEF StartsSending, LinksTyped

LEMMA EndsRoundTypes ==
  ASSUME TypeInv, NEW p \in Parties, EndsRound(p)
  PROVE  PartyTypes(p)' /\ PartyStands(p)' /\ LinksTyped'
<1>1. PartyTypes(p) /\ PartyStands(p) /\ plan[p] \in Plans /\ LinksTyped
  BY DEF TypeInv
<1>2. /\ plan'[p] = plan[p] /\ execution_state'[p] = execution_state[p]
      /\ call'[p] = call[p] /\ step'[p] = "round" /\ round'[p] = round[p] + 1
      /\ DOMAIN outbox'[p] = {} /\ awaiting'[p] = {} /\ DOMAIN inbox'[p] = {} /\ held'[p] = {}
      /\ Range(outbox'[p]) = {} /\ Range(inbox'[p]) = {}
      /\ channels'[p] = channels[p] /\ status'[p] = status[p] /\ retries'[p] = retries[p]
      /\ outcome'[p] = outcome[p] /\ step[p] = "recv" /\ call[p] \in Phases
  BY DEF EndsRound, SamePlan, BatchCleared, SameEnds, SameResult, Range
<1>3. round[p] \in Nat \ {0} /\ round[p] <= Len(Rounds(p)) /\ Rounds(p)' = Rounds(p)
  BY <1>1, <1>2 DEF PartyTypes, PartyStands, Rounds
<1>4. Len(Rounds(p)) \in Nat
  <2>1. PICK S : Rounds(p) \in Seq(S)
    BY <1>1, PlansAssumption DEF Rounds
  <2> QED BY <2>1, LenProperties
<1>5. \A w \in DOMAIN wire_contents'[p] : wire_contents'[p][w] \subseteq Element
  <2>1. SUFFICES ASSUME NEW w \in Outputs(p) PROVE Given(p, Writer(p, w)) \subseteq Element
    BY <1>1 DEF EndsRound, PartyTypes
  <2>2. Writer(p, w) \in DOMAIN NetworkOps(p)
    <3>1. \E k \in DOMAIN NetworkOps(p) : NetworkOps(p)[k].output = w
      BY <2>1 DEF Outputs, Range
    <3> QED BY <3>1 DEF Writer
  <2>3. /\ DOMAIN inbox[p] \subseteq Peers(p) /\ Range(inbox[p]) \subseteq Frame
        /\ \A q \in DOMAIN inbox[p] : Objects(inbox[p][q]) = Expected(p, q)
    BY <1>1 DEF PartyTypes, PartyStands
  <2> QED BY <1>1, <1>2, <1>3, <2>2, <2>3, GivenTyped
<1>6. PartyTypes(p)'
  BY <1>1, <1>2, <1>3, <1>5 DEF PartyTypes
<1>7. PartyStands(p)'
  <2>1. round'[p] <= Len(Rounds(p))' + 1
    BY <1>2, <1>3, <1>4
  <2> QED BY <1>1, <1>2, <2>1 DEF PartyStands, Up, Failed, Phases
<1> QED BY <1>1, <1>6, <1>7 DEF EndsRound, LinksTyped

LEMMA EndsPhaseTypes ==
  ASSUME TypeInv, NEW p \in Parties, EndsPhase(p)
  PROVE  PartyTypes(p)' /\ PartyStands(p)' /\ LinksTyped'
<1>1. PartyTypes(p) /\ PartyStands(p) /\ plan[p] \in Plans /\ LinksTyped
  BY DEF TypeInv
<1>2. /\ call'[p] = "none" /\ step'[p] = "idle" /\ DOMAIN outbox'[p] = {} /\ awaiting'[p] = {}
      /\ DOMAIN inbox'[p] = {} /\ held'[p] = {}
      /\ Range(outbox'[p]) = {} /\ Range(inbox'[p]) = {}
      /\ channels'[p] = channels[p] /\ round'[p] = round[p] /\ retries'[p] = retries[p]
      /\ status'[p] = status[p] /\ wire_contents'[p] = wire_contents[p]
      /\ outcome'[p] = "Ok" /\ execution_state'[p] \in {"FinishedOffline", "Finished"}
  BY DEF EndsPhase, BatchCleared, Range, SameEnds, SameData
<1>3. PartyTypes(p)'
  BY <1>1, <1>2 DEF PartyTypes
<1>4. PartyStands(p)'
  BY <1>1, <1>2 DEF PartyStands, Phases, Up
<1> QED BY <1>1, <1>3, <1>4 DEF EndsPhase, LinksTyped

LEMMA TableExcept == \A f : Table(f) => \A p, e : Table([f EXCEPT ![p] = e])
  BY DEF Table
LEMMA TableChanges == \A f, g : Table(f) /\ (g = f \/ \E p, e : g = [f EXCEPT ![p] = e]) => Table(g)
  BY TableExcept

LEMMA EndCallTables == ASSUME Tables, NEW p, EndCall(p) PROVE Table(call)' /\ Table(step)' /\ Table(round)'
BY TableExcept DEF Tables, EndCall

LEMMA FailureTables == ASSUME Tables, NEW p, NEW lost, NetworkFailure(p, lost) PROVE Tables'
<1>1. Table(call)' /\ Table(step)' /\ Table(round)'
  BY EndCallTables DEF NetworkFailure
<1> QED BY <1>1, TableExcept DEF Tables, NetworkFailure

LEMMA LeaveTables == ASSUME Tables, NEW p, NEW how, Leave(p, how) PROVE Tables'
<1>1. Table(call)' /\ Table(step)' /\ Table(round)'
  BY EndCallTables DEF Leave
<1> QED BY <1>1, TableExcept DEF Tables, Leave, program

LEMMA NextTables == Tables /\ [Next]_vars => Tables'
<1> SUFFICES ASSUME Tables, [Next]_vars PROVE Tables'
  OBVIOUS
<1>1. CASE UNCHANGED vars
  BY <1>1 DEF vars, program, position, batch, net, Tables
<1>2. CASE Next
  <2>1. PICK p \in Parties : \/ Work(p)
                             \/ \E given \in InputLists : PrepareInput(p, given)
                             \/ Crash(p)
    BY <1>2 DEF Next
  <2>2. CASE CallHandshake(p) \/ CallOffline(p) \/ CallOnline(p)
    <3>1. /\ UNCHANGED <<program, status>>
          /\ \E m : call' = [call EXCEPT ![p] = m]
          /\ \E s : step' = [step EXCEPT ![p] = s]
          /\ \E n : retries' = [retries EXCEPT ![p] = n]
          /\ \E o : outcome' = [outcome EXCEPT ![p] = o]
          /\ round' = round \/ \E k : round' = [round EXCEPT ![p] = k]
      BY <2>2 DEF CallHandshake, CallOffline, CallOnline, Enter
    <3>2. Table(call)' /\ Table(step)' /\ Table(retries)' /\ Table(outcome)' /\ Table(round)'
      BY <3>1, TableChanges DEF Tables
    <3> QED BY <3>1, <3>2 DEF Tables, program
  <2>3. CASE \E given \in InputLists : PrepareInput(p, given)
    <3>1. /\ UNCHANGED <<plan, position, status, retries>>
          /\ \E o : outcome' = [outcome EXCEPT ![p] = o]
          /\ execution_state' = execution_state \/ \E s : execution_state' = [execution_state EXCEPT ![p] = s]
      BY <2>3 DEF PrepareInput
    <3>2. Table(outcome)' /\ Table(execution_state)'
      BY <3>1, TableChanges DEF Tables
    <3> QED BY <3>1, <3>2 DEF Tables, position
  <2>4. CASE \E q \in Peers(p) : BroadcastFrame(p, q) \/ SendFrame(p, q) \/ ReceiveFrame(p, q) \/ ReceiveEnd(p, q)
    <3>1. PICK q \in Peers(p) : BroadcastFrame(p, q) \/ SendFrame(p, q) \/ ReceiveFrame(p, q) \/ ReceiveEnd(p, q)
      BY <2>4
    <3>2. CASE \E lost : NetworkFailure(p, lost)
      BY <3>2, FailureTables
    <3>3. CASE UNCHANGED <<program, position, outcome, status, retries>>
      BY <3>3 DEF Tables, program, position
    <3> QED BY <3>1, <3>2, <3>3 DEF BroadcastFrame, SendFrame, ReceiveFrame, ReceiveEnd
  <2>5. CASE AwaitHashes(p) \/ AwaitShares(p)
    <3>1. PICK wanted : Await(p, wanted)
      BY <2>5 DEF AwaitHashes, AwaitShares
    <3>2. CASE \E lost : NetworkFailure(p, lost)
      BY <3>2, FailureTables
    <3>3. CASE /\ step' = [step EXCEPT ![p] = "recv"]
               /\ UNCHANGED <<program, call, round, outcome, status, retries>>
      BY <3>3, TableExcept DEF Tables, program
    <3> QED BY <3>1, <3>2, <3>3 DEF Await, ExtractionFails
  <2>6. CASE CompareHashes(p)
    <3>1. Table(call)' /\ Table(step)' /\ Table(round)'
      BY <2>6, EndCallTables DEF CompareHashes
    <3>2. /\ UNCHANGED <<plan, status, retries>>
          /\ \E o : outcome' = [outcome EXCEPT ![p] = o]
          /\ execution_state' = execution_state \/ \E s : execution_state' = [execution_state EXCEPT ![p] = s]
      BY <2>6 DEF CompareHashes
    <3>3. Table(outcome)' /\ Table(execution_state)'
      BY <3>2, TableChanges DEF Tables
    <3> QED BY <3>1, <3>2, <3>3 DEF Tables
  <2>7. CASE BeginRound(p)
    <3>1. CASE Leave(p, "panicked")
      BY <3>1, LeaveTables
    <3>2. CASE /\ step' = [step EXCEPT ![p] = "send"]
               /\ UNCHANGED <<plan, execution_state, call, round, outcome, status, retries>>
      BY <3>2, TableExcept DEF Tables
    <3>3. CASE /\ outcome' = [outcome EXCEPT ![p] = "SchemeError"] /\ EndCall(p)
               /\ UNCHANGED <<plan, execution_state, status, retries>>
      BY <3>3, TableExcept, EndCallTables DEF Tables
    <3> QED BY <2>7, <3>1, <3>2, <3>3 DEF BeginRound
  <2>8. CASE FinishRound(p)
    BY <2>8, TableExcept DEF FinishRound, Tables
  <2>9. CASE FinishCall(p)
    <3>1. Table(call)' /\ Table(step)' /\ Table(round)'
      BY <2>9, EndCallTables DEF FinishCall
    <3> QED BY <2>9, <3>1, TableExcept DEF FinishCall, Tables
  <2>10. CASE Drop(p) \/ Crash(p)
    BY <2>10, LeaveTables DEF Drop, Crash
  <2> QED BY <2>1, <2>2, <2>3, <2>4, <2>5, <2>6, <2>7, <2>8, <2>9, <2>10 DEF Work
<1> QED BY <1>1, <1>2

LEMMA InitTypes == Init => TypeInv
<1> SUFFICES ASSUME Init PROVE TypeInv
  OBVIOUS
<1>1. AllDomains
  BY DEF Init, InitContexts, AllDomains
<1>2. LinksTyped
  BY EmptySeq, ExecutionAssumption DEF Init, InitContexts, LinksTyped
<1>3. ASSUME NEW p \in Parties PROVE plan[p] \in Plans /\ PartyTypes(p) /\ PartyStands(p)
  <2>1. plan[p] \in Plans
    BY DEF Init
  <2>2. PartyTypes(p)
    BY ExecutionAssumption DEF Init, InitContexts, PartyTypes, Range
  <2>3. PartyStands(p)
    BY DEF Init, InitContexts, PartyStands, Phases
  <2> QED BY <2>1, <2>2, <2>3
<1> QED BY <1>1, <1>2, <1>3 DEF TypeInv

LEMMA MoveTypes ==
  ASSUME TypeInv, NEW p \in Parties, PartyMoves(p)
  PROVE  PartyTypes(p)' /\ PartyStands(p)' /\ LinksTyped' /\ plan'[p] = plan[p]
<1>1. CASE EntersHandshake(p)
  BY <1>1, EntersHandshakeTypes DEF EntersHandshake, MayEnter, SamePlan
<1>2. CASE EntersPhase(p)
  BY <1>2, EntersPhaseTypes DEF EntersPhase, MayEnter, SamePlan
<1>3. CASE \E given \in InputLists : Prepares(p, given)
  BY <1>3, PreparesTypes DEF Prepares
<1>4. CASE \E q \in Peers(p) : SendsFrame(p, q)
  BY <1>4, SendsTypes DEF SendsFrame, SamePlan
<1>5. CASE \E q \in Peers(p) : ReadsFrame(p, q)
  BY <1>5, ReadsTypes DEF ReadsFrame, SamePlan
<1>6. CASE \E lost \in SUBSET channels[p] : \E abrupt \in BOOLEAN : Stops(p, lost, abrupt)
  BY <1>6, StopsTypes DEF Stops
<1>7. CASE StartsReading(p)
  BY <1>7, StartsReadingTypes DEF StartsReading, SamePlan
<1>8. CASE Compares(p)
  BY <1>8, ComparesTypes DEF Compares
<1>9. CASE StartsSending(p)
  BY <1>9, StartsSendingTypes DEF StartsSending, SamePlan
<1>10. CASE EndsRound(p)
  BY <1>10, EndsRoundTypes DEF EndsRound, SamePlan
<1>11. CASE EndsPhase(p)
  BY <1>11, EndsPhaseTypes DEF EndsPhase
<1> QED BY <1>1, <1>2, <1>3, <1>4, <1>5, <1>6, <1>7, <1>8, <1>9, <1>10, <1>11 DEF PartyMoves

LEMMA NextTypes == TypeInv /\ [Next]_vars => TypeInv'
<1>1. CASE TypeInv /\ Next
  <2>1. PICK p \in Parties : Alone(p) /\ PartyMoves(p)
    BY <1>1, Moves
  <2>2. PartyTypes(p)' /\ PartyStands(p)' /\ LinksTyped' /\ plan'[p] = plan[p]
    BY <1>1, <2>1, MoveTypes
  <2>3. ASSUME NEW r \in Parties, r # p
        PROVE  plan'[r] = plan[r] /\ PartyTypes(r)' /\ PartyStands(r)'
    <3>1. Same(r)
      BY <2>1, <2>3 DEF Alone
    <3> QED BY <1>1, <3>1, SameStands DEF TypeInv, Same, SamePlan
  <2> QED BY <1>1, <2>1, <2>2, <2>3 DEF TypeInv, Alone
<1>2. CASE TypeInv /\ UNCHANGED vars
  <2>1. ASSUME NEW r \in Parties
        PROVE  plan'[r] = plan[r] /\ PartyTypes(r)' /\ PartyStands(r)'
    <3>1. Same(r)
      BY <1>2 DEF vars, program, position, batch, net, Same, SamePlan, SameData, SamePosition, SameReads,
         SameBatch, SameEnds, SameResult
    <3> QED BY <1>2, <3>1, SameStands DEF TypeInv, Same, SamePlan
  <2>2. AllDomains' /\ LinksTyped'
    BY <1>2 DEF vars, program, position, batch, net, AllDomains, TypeInv, LinksTyped
  <2> QED BY <1>2, <2>1, <2>2 DEF TypeInv
<1> QED BY <1>1, <1>2

LEMMA TypesAlways == Spec => [](TypeInv /\ Tables)
<1>1. Init => Tables
  BY DEF Init, InitContexts, Tables, Table
<1> QED BY <1>1, InitTypes, NextTypes, NextTables, PTL DEF Spec

\* Every variable keeps its type, and no link ever holds more frames than the
\* buffers of its sockets, however often calls are tried again.
THEOREM TypeCorrect == Spec => []TypeOK
<1>1. TypeInv /\ Tables => TypeOK
  <2> SUFFICES ASSUME TypeInv, Tables PROVE TypeOK
    OBVIOUS
  <2>1. \A f, T : Table(f) /\ (\A p \in Parties : f[p] \in T) => f \in [Parties -> T]
    BY DEF Table
  <2>2. /\ plan \in [Parties -> Plans]
        /\ execution_state \in [Parties -> {"NewBorn", "Handshaked", "FinishedOffline", "ReadyOnline", "Finished"}]
        /\ call \in [Parties -> {"none", "handshake", "do_offline", "do_online"}]
        /\ step \in [Parties -> {"idle", "broadcast", "send", "recv", "round"}]
    BY <2>1 DEF TypeInv, Tables, PartyTypes
  <2>3. /\ round \in [Parties -> Nat]
        /\ outcome \in [Parties -> {"none", "Ok", "SchemeError", "PlanNotAgreed", "DuplicateInput",
                                    "InvalidInputWire", "NotEnoughInputs"}]
        /\ status \in [Parties -> {"up", "dropped", "panicked", "crashed"}]
        /\ retries \in [Parties -> 0..MaxRetries]
    <3>1. \A p \in Parties : round[p] \in Nat
      BY DEF TypeInv, PartyTypes
    <3> QED BY <2>1, <3>1 DEF TypeInv, Tables, PartyTypes
  <2>4. \A p \in Parties : PartyTypes(p)
    BY DEF TypeInv
  <2> QED BY <2>2, <2>3, <2>4 DEF TypeOK, TypeInv, LinksTyped, PartyTypes
<1> QED BY <1>1, TypesAlways, PTL

-----------------------------------------------------------------------------
(* What a user prepares, and the shares of inputs.                         *)

LEMMA FiniteRange ==
  ASSUME NEW f, IsFiniteSet(DOMAIN f)
  PROVE  IsFiniteSet(Range(f)) /\ Cardinality(Range(f)) <= Cardinality(DOMAIN f)
<1>1. [x \in DOMAIN f |-> f[x]] \in Surjection(DOMAIN f, Range(f))
  BY DEF Surjection, Range
<1> QED BY <1>1, FS_Surjection

LEMMA FiniteList ==
  ASSUME NEW s, s \in Seq(Range(s))
  PROVE  IsFiniteSet(Range(s))
<1>1. DOMAIN s = 1..Len(s) /\ Len(s) \in Nat
  BY LenProperties
<1>2. IsFiniteSet(DOMAIN s)
  BY <1>1, FS_Interval
<1> QED BY <1>2, FiniteRange

LEMMA InputsFinite ==
  ASSUME NEW p, plan[p] \in Plans
  PROVE  IsFiniteSet(InputWires(p))
<1> DEFINE rounds == plan[p].online_rounds
           lists == [k \in DOMAIN rounds |-> Range(rounds[k].network_operations)]
           ops == UNION Range(lists)
           outputs == [op \in ops |-> op.output]
<1>1. rounds \in Seq(Range(rounds)) /\ Range(rounds) \subseteq RoundsOf(plan[p])
  BY PlansAssumption DEF RoundsOf
<1>2. IsFiniteSet(DOMAIN rounds)
  <2>1. DOMAIN rounds = 1..Len(rounds) /\ Len(rounds) \in Nat
    BY <1>1, LenProperties
  <2> QED BY <2>1, FS_Interval
<1>3. IsFiniteSet(Range(lists))
  BY <1>2, FiniteRange
<1>4. \A T \in Range(lists) : IsFiniteSet(T)
  <2> SUFFICES ASSUME NEW k \in DOMAIN rounds PROVE IsFiniteSet(Range(rounds[k].network_operations))
    BY DEF Range
  <2>1. rounds[k] \in RoundsOf(plan[p])
    BY <1>1 DEF Range
  <2>2. rounds[k].network_operations \in Seq(Range(rounds[k].network_operations))
    BY <2>1, PlansAssumption
  <2> QED BY <2>2, FiniteList
<1>5. IsFiniteSet(ops)
  BY <1>3, <1>4, FS_UNION
<1>6. IsFiniteSet(Range(outputs))
  BY <1>5, FiniteRange
<1>7. InputWires(p) \subseteq Range(outputs)
  <2> SUFFICES ASSUME NEW r \in Range(rounds), NEW op \in Range(r.network_operations)
               PROVE  op.output \in Range(outputs)
    BY DEF InputWires
  <2>1. op \in ops
    BY DEF Range
  <2> QED BY <2>1 DEF Range
<1> QED BY <1>6, <1>7, FS_Subset

\* A list that prepare_input accepts names every input wire of the party.
LEMMA AllPrepared ==
  ASSUME NEW p, plan[p] \in Plans, NEW given \in InputLists, PrepareVerdict(p, given) = "Ok"
  PROVE  InputWires(p) \subseteq Range(given)
<1>1. given \in Seq(Range(given))
  BY ExecutionAssumption
<1>2. PICK n \in Nat : n = Len(given) /\ DOMAIN given = 1..n
  BY <1>1, LenProperties
<1>3. /\ \A k \in DOMAIN given : ~Offending(p, given, k)
      /\ ~(Len(given) < Cardinality(InputWires(p)))
  BY DEF PrepareVerdict
<1>4. IsFiniteSet(InputWires(p)) /\ Cardinality(InputWires(p)) \in Nat
  BY InputsFinite, FS_CardinalityType
<1>5. \A k \in 1..n : given[k] \in InputWires(p) /\ \A j \in 1..k - 1 : given[j] # given[k]
  BY <1>2, <1>3 DEF Offending
<1>6. \A j, k \in 1..n : given[j] = given[k] => j = k
  <2> SUFFICES ASSUME NEW j \in 1..n, NEW k \in 1..n, j # k PROVE given[j] # given[k]
    OBVIOUS
  <2>1. j \in 1..k - 1 \/ k \in 1..j - 1
    OBVIOUS
  <2> QED BY <1>5, <2>1
<1> DEFINE f == [k \in 1..n |-> given[k]]
<1>7. f \in Injection(1..n, InputWires(p))
  BY <1>5, <1>6 DEF Injection, IsInjective
<1>8. Cardinality(1..n) = n
  BY FS_Interval
<1>9. f \in Surjection(1..n, InputWires(p))
  <2>1. Cardinality(1..n) <= Cardinality(InputWires(p))
    BY <1>4, <1>7, FS_Injection
  <2>2. Cardinality(1..n) = Cardinality(InputWires(p))
    BY <1>2, <1>3, <1>4, <1>8, <2>1
  <2> QED BY <1>4, <1>7, <2>2, FS_Injection
<1>10. ASSUME NEW w \in InputWires(p) PROVE w \in Range(given)
  <2>1. PICK k \in 1..n : f[k] = w
    BY <1>9 DEF Surjection
  <2> QED BY <1>2, <2>1 DEF Range
<1> QED BY <1>10

\* Different rounds of the online phase write different wires.
LEMMA RoundsApart ==
  ASSUME NEW pl \in Plans, NEW j \in DOMAIN pl.online_rounds, NEW k \in DOMAIN pl.online_rounds, j # k,
         NEW op \in Range(pl.online_rounds[j].network_operations),
         NEW other \in Range(pl.online_rounds[k].network_operations)
  PROVE  op.output # other.output
<1> DEFINE rounds == RoundsInOrder(pl)
<1>1. PICK n \in Nat : n = Len(pl.offline_rounds)
  BY PlansAssumption, LenProperties
<1>2. pl.offline_rounds \in Seq(RoundsOf(pl)) /\ pl.online_rounds \in Seq(RoundsOf(pl))
  BY PlansAssumption, SeqMonotonic DEF RoundsOf
<1>3. \A i \in DOMAIN pl.online_rounds : /\ i \in Nat
                                         /\ n + i \in DOMAIN rounds /\ rounds[n + i] = pl.online_rounds[i]
                                         /\ pl.online_rounds[i] \in RoundsOf(pl)
  <2>1. PICK m \in Nat : m = Len(pl.online_rounds) /\ DOMAIN pl.online_rounds = 1..m
    BY <1>2, LenProperties
  <2>2. /\ rounds \in Seq(RoundsOf(pl)) /\ Len(rounds) = n + m
        /\ \A i \in 1..n + m : rounds[i] = IF i <= n THEN pl.offline_rounds[i] ELSE pl.online_rounds[i - n]
    BY <1>1, <1>2, <2>1, ConcatProperties DEF RoundsInOrder
  <2>3. DOMAIN rounds = 1..n + m
    BY <2>2, LenProperties
  <2>4. ASSUME NEW i \in 1..m
        PROVE  n + i \in 1..n + m /\ ~(n + i <= n) /\ (n + i) - n = i
    OBVIOUS
  <2> SUFFICES ASSUME NEW i \in 1..m
               PROVE  /\ i \in Nat /\ n + i \in DOMAIN rounds /\ rounds[n + i] = pl.online_rounds[i]
                      /\ pl.online_rounds[i] \in RoundsOf(pl)
    BY <2>1
  <2>5. n + i \in DOMAIN rounds
    BY <2>3, <2>4
  <2>6. rounds[n + i] = pl.online_rounds[i]
    <3>1. rounds[n + i] = IF n + i <= n THEN pl.offline_rounds[n + i] ELSE pl.online_rounds[(n + i) - n]
      BY <2>2, <2>4
    <3> QED BY <3>1, <2>4
  <2>7. pl.online_rounds[i] \in RoundsOf(pl)
    BY <1>2, <2>1, ElementOfSeq
  <2> QED BY <2>5, <2>6, <2>7
<1>4. ASSUME NEW i \in DOMAIN pl.online_rounds, NEW o \in Range(pl.online_rounds[i].network_operations)
      PROVE  \E m \in DOMAIN OpsInOrder(rounds[n + i]) : OpsInOrder(rounds[n + i])[m] = o
  <2> DEFINE r == pl.online_rounds[i]
             S == RoundOps(r)
  <2>1. r.local_operations \in Seq(S) /\ r.network_operations \in Seq(S)
    <3>1. /\ r.local_operations \in Seq(Range(r.local_operations)) /\ Range(r.local_operations) \subseteq S
          /\ r.network_operations \in Seq(Range(r.network_operations)) /\ Range(r.network_operations) \subseteq S
      BY <1>3, PlansAssumption DEF RoundOps
    <3> QED BY <3>1, SeqMonotonic
  <2>2. PICK m \in DOMAIN r.network_operations : r.network_operations[m] = o
    BY <1>4 DEF Range
  <2>3. PICK a, b \in Nat : a = Len(r.local_operations) /\ b = Len(r.network_operations)
    BY <2>1, LenProperties
  <2>4. m \in 1..b
    BY <2>1, <2>2, <2>3, LenProperties
  <2>5. /\ OpsInOrder(r) \in Seq(S) /\ Len(OpsInOrder(r)) = a + b
        /\ \A x \in 1..a + b : OpsInOrder(r)[x] = IF x <= a THEN r.local_operations[x] ELSE r.network_operations[x - a]
    BY <2>1, <2>3, ConcatProperties DEF OpsInOrder
  <2>6. a + m \in 1..a + b /\ ~(a + m <= a) /\ (a + m) - a = m
    BY <2>4
  <2>7. a + m \in DOMAIN OpsInOrder(r) /\ OpsInOrder(r)[a + m] = o
    BY <2>2, <2>5, <2>6, LenProperties
  <2> QED BY <1>3, <2>7
<1>5. PICK m \in DOMAIN OpsInOrder(rounds[n + j]) : OpsInOrder(rounds[n + j])[m] = op
  BY <1>4
<1>6. PICK o \in DOMAIN OpsInOrder(rounds[n + k]) : OpsInOrder(rounds[n + k])[o] = other
  BY <1>4
<1>7. n + j # n + k /\ n + j \in DOMAIN rounds /\ n + k \in DOMAIN rounds
  BY <1>3
<1> QED BY <1>5, <1>6, <1>7, PlansAssumption

Clean(f) == f.kind = "data" => \A s \in Range(f.shares) : ~s.default
LinksClean == \A l \in Links : \A f \in Range(in_flight[l]) : Clean(f)
OutboxClean(p) == \A q \in DOMAIN outbox[p] : Clean(outbox[p][q])

\* Online rounds whose input the party has still to take from its context.
ToBegin(p) ==
  {k \in DOMAIN plan[p].online_rounds :
     call[p] = "do_online" => k > round[p] \/ (k = round[p] /\ step[p] = "round")}

\* A context ready for the online phase, none of whose channels was lost, has
\* the inputs of the rounds to come.  A call that is tried again after it took
\* inputs lacks a channel, and its party sends nothing any more.
InputsKept(p) ==
  execution_state[p] = "ReadyOnline" /\ Up(p) /\ channels[p] = Peers(p) =>
    \A k \in ToBegin(p) : \A op \in Range(plan[p].online_rounds[k].network_operations) :
      IsInputOf(op, p) => op.output \in user_inputs[p]

InputInv == TypeInv /\ LinksClean /\ \A p \in Parties : OutboxClean(p) /\ InputsKept(p)

LEMMA BatchClean ==
  ASSUME TypeInv, NEW p \in Parties, InputsKept(p), StartsSending(p), NEW q \in Receivers(p)
  PROVE  Clean(DataFrame(Batch(p, q)))
<1> DEFINE sending == {k \in DOMAIN NetworkOps(p) : Sends(NetworkOps(p)[k], p)}
<1>1. /\ plan[p] \in Plans /\ PartyTypes(p) /\ PartyStands(p) /\ Up(p)
      /\ step[p] = "round" /\ round[p] <= Len(Rounds(p)) /\ call[p] \in Phases
  BY DEF TypeInv, PartyStands, StartsSending
<1>2. channels[p] = Peers(p)
  BY <1>1 DEF Receivers, StartsSending, PartyTypes
<1>3. PICK n \in Nat : n = Len(NetworkOps(p)) /\ DOMAIN NetworkOps(p) = 1..n
  BY <1>1, CurrentRound DEF PartyTypes
<1>4. sending \in SUBSET (1..n)
  BY <1>3
<1>5. Cardinality(sending) \in Nat
  BY <1>4, RanksGrow
<1> SUFFICES ASSUME NEW m \in 1..Cardinality(sending) PROVE ~Batch(p, q)[m].default
  <2>1. \A s \in Range(Batch(p, q)) : \E m \in 1..Cardinality(sending) : s = Batch(p, q)[m]
    BY DEF Batch, Range
  <2> QED BY <2>1 DEF Clean, DataFrame
<1>6. PICK op : op = NetworkOps(p)[Nth(sending, m)]
  OBVIOUS
<1>7. op \in Range(NetworkOps(p))
  <2>1. Nth(sending, m) \in DOMAIN NetworkOps(p)
    BY <1>3, <1>4, NthOf
  <2> QED BY <1>6, <2>1 DEF Range
<1>8. Batch(p, q)[m].default = (IsInputOf(op, p) /\ op.output \notin user_inputs[p])
  BY <1>6 DEF Batch, Share
<1>9. CASE call[p] = "do_offline"
  <2>1. Current(p) \in Range(plan[p].offline_rounds)
    BY <1>1, <1>9, CurrentRound DEF Rounds, PartyTypes, Range
  <2>2. op.kind # "Input"
    BY <1>1, <1>7, <2>1, PlansAssumption DEF NetworkOps
  <2> QED BY <1>8, <2>2 DEF IsInputOf
<1>10. CASE call[p] = "do_online"
  <2>1. /\ Rounds(p) = plan[p].online_rounds /\ round[p] \in DOMAIN plan[p].online_rounds
        /\ NetworkOps(p) = plan[p].online_rounds[round[p]].network_operations
    BY <1>1, <1>10, CurrentRound DEF Rounds, PartyTypes, NetworkOps
  <2>2. round[p] \in ToBegin(p)
    BY <1>1, <2>1 DEF ToBegin
  <2>3. execution_state[p] = "ReadyOnline"
    BY <1>1, <1>10 DEF PartyStands
  <2>4. IsInputOf(op, p) => op.output \in user_inputs[p]
    BY <1>1, <1>2, <1>7, <2>1, <2>2, <2>3 DEF InputsKept
  <2> QED BY <1>8, <2>4
<1> QED BY <1>1, <1>9, <1>10 DEF Phases

LEMMA SameKept ==
  ASSUME NEW r, Same(r), InputsKept(r), OutboxClean(r)
  PROVE  InputsKept(r)' /\ OutboxClean(r)'
<1>1. /\ plan'[r] = plan[r] /\ call'[r] = call[r] /\ round'[r] = round[r] /\ step'[r] = step[r]
      /\ execution_state'[r] = execution_state[r] /\ user_inputs'[r] = user_inputs[r]
      /\ outbox'[r] = outbox[r] /\ channels'[r] = channels[r] /\ status'[r] = status[r]
  BY DEF Same, SamePlan, SameData, SamePosition, SameBatch, SameEnds
<1>2. ToBegin(r)' = ToBegin(r)
  BY <1>1 DEF ToBegin
<1> QED BY <1>1, <1>2 DEF InputsKept, OutboxClean, Up

\* Inputs stay until their round begins.
LEMMA KeepsInputs ==
  ASSUME InputInv, NEW p \in Parties, PartyMoves(p)
  PROVE  InputsKept(p)'
<1>0. InputsKept(p) /\ PartyTypes(p) /\ PartyStands(p) /\ plan[p] \in Plans /\ plan'[p] = plan[p]
  BY MoveTypes DEF InputInv, TypeInv
<1>1. CASE EntersHandshake(p) \/ Compares(p) \/ EndsPhase(p)
  <2>1. execution_state'[p] # "ReadyOnline"
    BY <1>0, <1>1 DEF EntersHandshake, MayEnter, SamePlan, Compares, EndsPhase, PartyStands
  <2> QED BY <2>1 DEF InputsKept
<1>2. CASE EntersPhase(p)
  <2>1. /\ execution_state'[p] = execution_state[p] /\ status'[p] = status[p] /\ channels'[p] = channels[p]
        /\ user_inputs'[p] = user_inputs[p] /\ call[p] = "none"
    BY <1>2 DEF EntersPhase, MayEnter, SamePlan, SameEnds, SameData
  <2>2. ToBegin(p)' \subseteq ToBegin(p)
    BY <1>0, <2>1 DEF ToBegin
  <2> QED BY <1>0, <2>1, <2>2 DEF InputsKept, Up
<1>3. CASE \E given \in InputLists : Prepares(p, given)
  <2>1. PICK given \in InputLists : Prepares(p, given)
    BY <1>3
  <2>2. CASE execution_state'[p] = execution_state[p]
    BY <2>1, <2>2 DEF Prepares, InputsKept
  <2>3. CASE PrepareVerdict(p, given) = "Ok" /\ user_inputs'[p] = user_inputs[p] \cup Range(given)
    <3>1. InputWires(p) \subseteq user_inputs'[p]
      BY <1>0, <2>3, AllPrepared
    <3>2. ASSUME NEW k \in DOMAIN plan[p].online_rounds, NEW op \in Range(plan[p].online_rounds[k].network_operations),
                 IsInputOf(op, p)
          PROVE  op.output \in InputWires(p)
      <4>1. plan[p].online_rounds[k] \in Range(plan[p].online_rounds)
        BY DEF Range
      <4> QED BY <3>2, <4>1 DEF InputWires
    <3> QED BY <1>0, <3>1, <3>2 DEF InputsKept, ToBegin
  <2> QED BY <2>1, <2>2, <2>3 DEF Prepares
<1>4. CASE \/ \E q \in Peers(p) : SendsFrame(p, q) \/ ReadsFrame(p, q)
           \/ StartsReading(p)
  <2>1. /\ execution_state'[p] = execution_state[p] /\ status'[p] = status[p] /\ channels'[p] = channels[p]
        /\ user_inputs'[p] = user_inputs[p] /\ call'[p] = call[p] /\ round'[p] = round[p]
        /\ step[p] # "round" /\ step'[p] # "round"
    BY <1>4 DEF SendsFrame, ReadsFrame, StartsReading, SamePlan, SameEnds, SameData, SamePosition
  <2>2. ToBegin(p)' = ToBegin(p)
    BY <1>0, <2>1 DEF ToBegin
  <2> QED BY <1>0, <2>1, <2>2 DEF InputsKept, Up
<1>5. CASE \E lost \in SUBSET channels[p] : \E abrupt \in BOOLEAN : Stops(p, lost, abrupt)
  <2>1. \/ ~Up(p)' \/ channels'[p] # Peers(p)
        \/ call[p] = "handshake" /\ execution_state'[p] = execution_state[p]
    BY <1>5 DEF Stops, Up
  <2>2. call[p] = "handshake" => execution_state[p] = "NewBorn"
    BY <1>0 DEF PartyStands
  <2> QED BY <2>1, <2>2 DEF InputsKept
<1>6. CASE StartsSending(p)
  <2>1. /\ execution_state'[p] = execution_state[p] /\ status'[p] = status[p] /\ channels'[p] = channels[p]
        /\ user_inputs'[p] = user_inputs[p] \ {op.output : op \in Range(NetworkOps(p))}
        /\ call'[p] = call[p] /\ round'[p] = round[p] /\ step[p] = "round" /\ step'[p] = "send"
        /\ round[p] <= Len(Rounds(p)) /\ call[p] \in Phases
    BY <1>0, <1>6 DEF StartsSending, SamePlan, SameEnds, PartyStands
  <2> SUFFICES ASSUME execution_state[p] = "ReadyOnline", Up(p), channels[p] = Peers(p),
                      NEW k \in ToBegin(p)', NEW op \in Range(plan[p].online_rounds[k].network_operations),
                      IsInputOf(op, p)
               PROVE  op.output \in user_inputs'[p]
    BY <1>0, <2>1 DEF InputsKept, Up
  <2>2. call[p] = "do_online"
    BY <1>0, <2>1 DEF PartyStands, Phases
  <2>3. /\ k \in DOMAIN plan[p].online_rounds /\ k > round[p] /\ k \in ToBegin(p)
    BY <1>0, <2>1, <2>2 DEF ToBegin
  <2>4. op.output \in user_inputs[p]
    BY <1>0, <2>3 DEF InputsKept
  <2>5. /\ round[p] \in DOMAIN plan[p].online_rounds
        /\ NetworkOps(p) = plan[p].online_rounds[round[p]].network_operations
    BY <1>0, <2>1, <2>2, CurrentRound DEF Rounds, PartyTypes, NetworkOps
  <2>6. k # round[p]
    BY <1>0, <2>3 DEF PartyTypes
  <2>7. \A other \in Range(NetworkOps(p)) : op.output # other.output
    BY <1>0, <2>3, <2>5, <2>6, RoundsApart
  <2> QED BY <2>1, <2>4, <2>7
<1>7. CASE EndsRound(p)
  <2>1. /\ execution_state'[p] = execution_state[p] /\ status'[p] = status[p] /\ channels'[p] = channels[p]
        /\ user_inputs'[p] = user_inputs[p] /\ call'[p] = call[p] /\ round'[p] = round[p] + 1
        /\ step[p] = "recv" /\ step'[p] = "round"
    BY <1>7 DEF EndsRound, SamePlan, SameEnds, SameResult
  <2>2. ToBegin(p)' \subseteq ToBegin(p)
    <3>1. round[p] \in Nat
      BY <1>0 DEF PartyTypes
    <3>2. \A k \in DOMAIN plan[p].online_rounds : k \in Nat
      <4>1. PICK S : plan[p].online_rounds \in Seq(S)
        BY <1>0, PlansAssumption
      <4>2. DOMAIN plan[p].online_rounds = 1..Len(plan[p].online_rounds) /\ Len(plan[p].online_rounds) \in Nat
        BY <4>1, LenProperties
      <4> QED BY <4>2
    <3> QED BY <1>0, <2>1, <3>1, <3>2 DEF ToBegin
  <2> QED BY <1>0, <2>1, <2>2 DEF InputsKept, Up
<1> QED BY <1>1, <1>2, <1>3, <1>4, <1>5, <1>6, <1>7 DEF PartyMoves

\* No step puts a share made up for an input in an outbox or on a link.
LEMMA KeepsClean ==
  ASSUME InputInv, NEW p \in Parties, PartyMoves(p)
  PROVE  LinksClean' /\ OutboxClean(p)'
<1>0. InputsKept(p) /\ OutboxClean(p) /\ LinksClean /\ TypeInv /\ DOMAIN in_flight = Links
  BY DEF InputInv, TypeInv, AllDomains
<1>00. \A l \in Links : IsSeq(in_flight[l])
  BY <1>0, SeqOfRange DEF TypeInv, LinksTyped, IsSeq
<1>1. CASE EntersHandshake(p)
  <2>1. \A q \in DOMAIN outbox'[p] : outbox'[p][q] = HashFrame(plan[p])
    BY <1>1 DEF EntersHandshake
  <2>2. Clean(HashFrame(plan[p]))
    BY DEF Clean, HashFrame
  <2> QED BY <1>0, <1>1, <2>1, <2>2 DEF EntersHandshake, MayEnter, LinksClean, OutboxClean
<1>2. CASE EntersPhase(p)
  BY <1>0, <1>2 DEF EntersPhase, MayEnter, LinksClean, OutboxClean
<1>3. CASE \E given \in InputLists : Prepares(p, given)
  BY <1>0, <1>3 DEF Prepares, SameBatch, LinksClean, OutboxClean
<1>4. CASE \E q \in Peers(p) : SendsFrame(p, q)
  <2>1. PICK q \in Peers(p) : SendsFrame(p, q)
    BY <1>4
  <2>2. /\ q \in DOMAIN outbox[p] /\ Write(p, q, outbox[p][q])
        /\ outbox'[p] = [r \in DOMAIN outbox[p] \ {q} |-> outbox[p][r]]
    BY <2>1 DEF SendsFrame
  <2>3. OutboxClean(p)'
    BY <1>0, <2>2 DEF OutboxClean
  <2>4. \A l \in Links : Range(in_flight'[l]) \subseteq Range(in_flight[l]) \cup {outbox[p][q]}
    BY <1>0, <1>00, <2>2, WriteRange
  <2>5. Clean(outbox[p][q])
    BY <1>0, <2>2 DEF OutboxClean
  <2> QED BY <1>0, <2>3, <2>4, <2>5 DEF LinksClean
<1>5. CASE \E q \in Peers(p) : ReadsFrame(p, q)
  <2>1. PICK q \in Peers(p) : ReadsFrame(p, q)
    BY <1>5
  <2>2. <<q, p>> \in Links
    BY DEF Links, Peers
  <2>3. Range(Tail(in_flight[<<q, p>>])) \subseteq Range(in_flight[<<q, p>>])
    BY <1>00, <2>1, <2>2, TailRange DEF ReadsFrame
  <2>4. \A l \in Links : Range(in_flight'[l]) \subseteq Range(in_flight[l])
    BY <1>0, <2>1, <2>2, <2>3 DEF ReadsFrame
  <2>5. outbox'[p] = outbox[p]
    BY <2>1 DEF ReadsFrame
  <2> QED BY <1>0, <2>4, <2>5 DEF LinksClean, OutboxClean
<1>6. CASE \E lost \in SUBSET channels[p] : \E abrupt \in BOOLEAN : Stops(p, lost, abrupt)
  <2>1. PICK lost \in SUBSET channels[p], abrupt \in BOOLEAN : Stops(p, lost, abrupt)
    BY <1>6
  <2>2. \A l \in Links : Range(in_flight'[l]) \subseteq Range(in_flight[l])
    BY <1>00, <2>1, CloseRange DEF Stops
  <2>3. DOMAIN outbox'[p] = {}
    BY <2>1 DEF Stops, BatchCleared
  <2> QED BY <1>0, <2>2, <2>3 DEF LinksClean, OutboxClean
<1>7. CASE StartsReading(p)
  BY <1>0, <1>7 DEF StartsReading, LinksClean, OutboxClean
<1>8. CASE Compares(p)
  BY <1>0, <1>8 DEF Compares, BatchCleared, LinksClean, OutboxClean
<1>9. CASE StartsSending(p)
  <2>1. \A q \in Receivers(p) : Clean(DataFrame(Batch(p, q)))
    BY <1>0, <1>9, BatchClean
  <2> QED BY <1>0, <1>9, <2>1 DEF StartsSending, LinksClean, OutboxClean
<1>10. CASE EndsRound(p)
  BY <1>0, <1>10 DEF EndsRound, BatchCleared, LinksClean, OutboxClean
<1>11. CASE EndsPhase(p)
  BY <1>0, <1>11 DEF EndsPhase, BatchCleared, LinksClean, OutboxClean
<1> QED BY <1>1, <1>2, <1>3, <1>4, <1>5, <1>6, <1>7, <1>8, <1>9, <1>10, <1>11 DEF PartyMoves

LEMMA NextInputs == InputInv /\ [Next]_vars => InputInv'
<1>1. CASE InputInv /\ Next
  <2>1. PICK p \in Parties : Alone(p) /\ PartyMoves(p)
    BY <1>1, Moves DEF InputInv
  <2>2. TypeInv'
    BY <1>1, NextTypes DEF InputInv
  <2>3. LinksClean' /\ OutboxClean(p)' /\ InputsKept(p)'
    BY <1>1, <2>1, KeepsInputs, KeepsClean
  <2>4. \A r \in Parties : r # p => InputsKept(r)' /\ OutboxClean(r)'
    BY <1>1, <2>1, SameKept DEF InputInv, Alone
  <2> QED BY <2>2, <2>3, <2>4 DEF InputInv
<1>2. CASE InputInv /\ UNCHANGED vars
  <2>1. \A r \in Parties : Same(r)
    BY <1>2 DEF vars, program, position, batch, net, Same, SamePlan, SameData, SamePosition, SameReads,
       SameBatch, SameEnds, SameResult
  <2>2. TypeInv'
    BY <1>2, NextTypes DEF InputInv
  <2>3. \A r \in Parties : InputsKept(r)' /\ OutboxClean(r)'
    BY <1>2, <2>1, SameKept DEF InputInv
  <2>4. LinksClean'
    BY <1>2 DEF vars, net, InputInv, LinksClean
  <2> QED BY <2>2, <2>3, <2>4 DEF InputInv
<1> QED BY <1>1, <1>2

\* The share that do_network_phase makes up for an input that its context no
\* longer holds never reaches the network, however often calls are tried again.
THEOREM NoShareMadeUp == Spec => []DefaultShareNeverSent
<1>1. Init => InputInv
  <2>1. Init => LinksClean /\ \A p \in Parties : OutboxClean(p) /\ InputsKept(p)
    BY DEF Init, InitContexts, LinksClean, OutboxClean, InputsKept, Range
  <2> QED BY <2>1, InitTypes DEF InputInv
<1>2. InputInv => DefaultShareNeverSent
  BY DEF InputInv, LinksClean, Clean, DefaultShareNeverSent
<1> QED BY <1>1, <1>2, NextInputs, PTL DEF Spec

-----------------------------------------------------------------------------
(* The exchanges of a circuit: the handshake is number 0, a round the       *)
(* number of its place in the circuit.                                      *)

LEMMA RoundsTyped ==
  ASSUME NEW pl \in Plans
  PROVE  /\ Len(pl.offline_rounds) \in Nat /\ Len(pl.online_rounds) \in Nat
         /\ Len(RoundsInOrder(pl)) = Len(pl.offline_rounds) + Len(pl.online_rounds)
         /\ DOMAIN RoundsInOrder(pl) = 1..Len(RoundsInOrder(pl))
         /\ \A k \in 1..Len(pl.offline_rounds) : RoundsInOrder(pl)[k] = pl.offline_rounds[k]
         /\ \A k \in 1..Len(pl.online_rounds) :
              RoundsInOrder(pl)[Len(pl.offline_rounds) + k] = pl.online_rounds[k]
         /\ \A k \in DOMAIN RoundsInOrder(pl) : RoundsInOrder(pl)[k] \in RoundsOf(pl)
<1> DEFINE rounds == RoundsInOrder(pl)
<1>1. PICK n, m \in Nat : n = Len(pl.offline_rounds) /\ m = Len(pl.online_rounds)
  BY PlansAssumption, LenProperties
<1>2. pl.offline_rounds \in Seq(RoundsOf(pl)) /\ pl.online_rounds \in Seq(RoundsOf(pl))
  BY PlansAssumption, SeqMonotonic DEF RoundsOf
<1>3. /\ rounds \in Seq(RoundsOf(pl)) /\ Len(rounds) = n + m
      /\ \A i \in 1..n + m : rounds[i] = IF i <= n THEN pl.offline_rounds[i] ELSE pl.online_rounds[i - n]
  BY <1>1, <1>2, ConcatProperties DEF RoundsInOrder
<1>4. DOMAIN rounds = 1..n + m
  BY <1>3, LenProperties
<1>5. ASSUME NEW k \in 1..n PROVE rounds[k] = pl.offline_rounds[k]
  BY <1>3
<1>6. ASSUME NEW k \in 1..m PROVE rounds[n + k] = pl.online_rounds[k]
  <2>1. n + k \in 1..n + m /\ ~(n + k <= n) /\ (n + k) - n = k
    OBVIOUS
  <2>2. rounds[n + k] = IF n + k <= n THEN pl.offline_rounds[n + k] ELSE pl.online_rounds[(n + k) - n]
    BY <1>3, <2>1
  <2> QED BY <2>1, <2>2
<1>7. \A k \in DOMAIN rounds : rounds[k] \in RoundsOf(pl)
  BY <1>3, <1>4, ElementOfSeq
<1> QED BY <1>1, <1>3, <1>4, <1>5, <1>6, <1>7

OpsAt(q, j) == RoundsInOrder(plan[q])[j].network_operations
Sending(q, j) == {n \in DOMAIN OpsAt(q, j) : Sends(OpsAt(q, j)[n], q)}

\* The exchanges in which a party has a frame for the others, and the frame.
Turns(q) == {j \in 0..Len(RoundsInOrder(plan[q])) : j = 0 \/ Sending(q, j) # {}}
FrameOf(q, p, j) ==
  IF j = 0 THEN HashFrame(plan[q])
  ELSE DataFrame([n \in 1..Cardinality(Sending(q, j)) |->
                    Share(OpsAt(q, j)[Nth(Sending(q, j), n)].output, q, p, FALSE)])

\* A party that is not over goes on; with no retries, the others do not.
Over(p) == ~Up(p) \/ Failed(p)

ProgressRight(p) ==
  /\ execution_state[p] = "NewBorn" => Progress(p) = 0
  /\ execution_state[p] = "Handshaked" => Progress(p) = 1 + InPhase(p)
  /\ execution_state[p] = "FinishedOffline" => Progress(p) = 1 + Len(plan[p].offline_rounds)
  /\ execution_state[p] = "ReadyOnline" => Progress(p) = 1 + Len(plan[p].offline_rounds) + InPhase(p)
  /\ execution_state[p] = "Finished" =>
       Progress(p) = 1 + Len(plan[p].offline_rounds) + Len(plan[p].online_rounds)

LEMMA ProgressIs == ASSUME NEW p PROVE ProgressRight(p) /\ ProgressRight(p)'
<1>1. ProgressRight(p)
  BY Zenon DEF Progress, ProgressRight
<1>2. ProgressRight(p)'
  BY Zenon DEF Progress, ProgressRight
<1> QED BY <1>1, <1>2

\* The number of completed exchanges is that of the exchange in hand.
LEMMA ProgressStands ==
  ASSUME NEW p \in Parties, plan[p] \in Plans, PartyTypes(p), PartyStands(p)
  PROVE  /\ Progress(p) \in Nat
         /\ execution_state[p] = "NewBorn" <=> Progress(p) = 0
         /\ execution_state[p] = "Finished" => Progress(p) = Len(RoundsInOrder(plan[p])) + 1
         /\ call[p] = "handshake" => Progress(p) = 0
         /\ call[p] \in Phases /\ round[p] <= Len(Rounds(p)) =>
              /\ Progress(p) \in 1..Len(RoundsInOrder(plan[p]))
              /\ RoundsInOrder(plan[p])[Progress(p)] = Current(p)
<1>1. PICK n, m \in Nat : /\ n = Len(plan[p].offline_rounds) /\ m = Len(plan[p].online_rounds)
                          /\ Len(RoundsInOrder(plan[p])) = n + m
  BY RoundsTyped
<1>2. round[p] \in Nat \ {0} /\ InPhase(p) \in Nat
  BY DEF PartyTypes, InPhase
<1>0. ProgressRight(p)
  BY ProgressIs
<1>r. /\ execution_state[p] = "NewBorn" => Progress(p) = 0
      /\ execution_state[p] = "Handshaked" => Progress(p) = 1 + InPhase(p)
      /\ execution_state[p] = "FinishedOffline" => Progress(p) = 1 + n
      /\ execution_state[p] = "ReadyOnline" => Progress(p) = 1 + n + InPhase(p)
      /\ execution_state[p] = "Finished" => Progress(p) = 1 + n + m
  BY <1>0, <1>1 DEF ProgressRight
<1>3. Progress(p) \in Nat /\ (execution_state[p] = "NewBorn" <=> Progress(p) = 0)
  BY <1>r, <1>2 DEF PartyTypes
<1>l. Len(RoundsInOrder(plan[p])) = n + m
  BY <1>1
<1>4. execution_state[p] = "Finished" => Progress(p) = Len(RoundsInOrder(plan[p])) + 1
  BY <1>l, <1>r
<1>5. call[p] = "handshake" => Progress(p) = 0
  BY <1>3 DEF PartyStands
<1>6. ASSUME call[p] \in Phases, round[p] <= Len(Rounds(p))
      PROVE  /\ Progress(p) \in 1..Len(RoundsInOrder(plan[p]))
             /\ RoundsInOrder(plan[p])[Progress(p)] = Current(p)
  <2>1. InPhase(p) = round[p] - 1
    BY <1>6 DEF InPhase, PartyStands, Phases
  <2>2. CASE call[p] = "do_offline"
    <3>1. Progress(p) = round[p] /\ Rounds(p) = plan[p].offline_rounds
      BY <1>2, <2>1, <2>2, <1>r DEF PartyStands, Rounds
    <3>2. round[p] \in 1..n
      BY <1>1, <1>2, <1>6, <3>1
    <3>3. RoundsInOrder(plan[p])[round[p]] = plan[p].offline_rounds[round[p]]
      BY <1>1, <3>2, RoundsTyped
    <3>4. Progress(p) \in 1..(n + m)
      BY <3>1, <3>2
    <3> QED BY <1>l, <3>1, <3>3, <3>4 DEF Current
  <2>3. CASE call[p] = "do_online"
    <3>1. Progress(p) = n + round[p] /\ Rounds(p) = plan[p].online_rounds
      BY <1>2, <2>1, <2>3, <1>r DEF PartyStands, Rounds
    <3>2. round[p] \in 1..m
      BY <1>1, <1>2, <1>6, <3>1
    <3>3. RoundsInOrder(plan[p])[n + round[p]] = plan[p].online_rounds[round[p]]
      BY <1>1, <3>2, RoundsTyped
    <3>4. Progress(p) \in 1..(n + m)
      BY <3>1, <3>2
    <3> QED BY <1>l, <3>1, <3>3, <3>4 DEF Current
  <2> QED BY <1>6, <2>2, <2>3 DEF Phases
<1> QED BY <1>3, <1>4, <1>5, <1>6

\* A round brings a party on by one, and the comparison of equal hashes.
LEMMA ProgressMoves ==
  ASSUME TypeInv, MaxRetries = 0, NEW p \in Parties, PartyMoves(p)
  PROVE  IF EndsRound(p) \/ (Compares(p) /\ execution_state'[p] = "Handshaked")
           THEN Progress(p)' = Progress(p) + 1 ELSE Progress(p)' = Progress(p)
<1>1. /\ plan[p] \in Plans /\ PartyTypes(p) /\ PartyStands(p) /\ ProgressRight(p) /\ ProgressRight(p)'
      /\ plan'[p] = plan[p]
  BY MoveTypes, ProgressIs DEF TypeInv
<1>2. PICK n, m \in Nat : n = Len(plan[p].offline_rounds) /\ m = Len(plan[p].online_rounds)
  BY <1>1, RoundsTyped
<1>3. /\ Len(plan'[p].offline_rounds) = n /\ Len(plan'[p].online_rounds) = m
      /\ round[p] \in Nat \ {0}
  BY <1>1, <1>2 DEF PartyTypes
<1>4. InPhase(p) = (IF outcome[p] = "Ok" THEN 0 ELSE round[p] - 1)
  BY DEF InPhase
<1>5. InPhase(p)' = (IF outcome'[p] = "Ok" THEN 0 ELSE round'[p] - 1)
  BY DEF InPhase
<1>r. /\ execution_state[p] = "NewBorn" => Progress(p) = 0
      /\ execution_state[p] = "Handshaked" => Progress(p) = 1 + InPhase(p)
      /\ execution_state[p] = "FinishedOffline" => Progress(p) = 1 + n
      /\ execution_state[p] = "ReadyOnline" => Progress(p) = 1 + n + InPhase(p)
      /\ execution_state[p] = "Finished" => Progress(p) = 1 + n + m
  BY <1>1, <1>2 DEF ProgressRight
<1>s. /\ execution_state'[p] = "NewBorn" => Progress(p)' = 0
      /\ execution_state'[p] = "Handshaked" => Progress(p)' = 1 + InPhase(p)'
      /\ execution_state'[p] = "FinishedOffline" => Progress(p)' = 1 + n
      /\ execution_state'[p] = "ReadyOnline" => Progress(p)' = 1 + n + InPhase(p)'
      /\ execution_state'[p] = "Finished" => Progress(p)' = 1 + n + m
  BY <1>1, <1>3 DEF ProgressRight
<1>6. CASE EntersHandshake(p)
  <2>1. execution_state[p] = "NewBorn" /\ execution_state'[p] = "NewBorn"
    BY <1>6 DEF EntersHandshake, MayEnter, SamePlan
  <2>2. ~EndsRound(p) /\ ~Compares(p)
    BY <1>1, <1>6 DEF EntersHandshake, MayEnter, EndsRound, Compares, Phases
  <2> QED BY <1>r, <1>s, <1>1, <2>1, <2>2
<1>7. CASE EntersPhase(p)
  <2>1. /\ execution_state[p] \in {"Handshaked", "ReadyOnline"} /\ execution_state'[p] = execution_state[p]
        /\ outcome'[p] = "none" /\ round'[p] = 1 /\ outcome[p] = "Ok"
    BY <1>1, <1>7 DEF EntersPhase, MayEnter, SamePlan, PartyStands, PartyTypes
  <2>2. ~EndsRound(p) /\ ~Compares(p)
    BY <1>1, <1>7 DEF EntersPhase, MayEnter, EndsRound, Compares, Phases
  <2> QED BY <1>r, <1>s, <1>1, <1>2, <1>3, <1>4, <1>5, <2>1, <2>2
<1>8. CASE \E given \in InputLists : Prepares(p, given)
  <2>1. /\ execution_state[p] = "FinishedOffline"
        /\ execution_state'[p] = "FinishedOffline" \/ (execution_state'[p] = "ReadyOnline" /\ outcome'[p] = "Ok")
    BY <1>8 DEF Prepares
  <2>2. ~EndsRound(p) /\ ~Compares(p)
    BY <1>8 DEF Prepares, EndsRound, Compares, Phases
  <2> QED BY <1>r, <1>s, <1>1, <1>2, <1>3, <1>5, <2>1, <2>2
<1>9. CASE /\ execution_state'[p] = execution_state[p] /\ outcome'[p] = outcome[p] /\ round'[p] = round[p]
  <2>1. ~EndsRound(p) /\ ~(Compares(p) /\ execution_state'[p] = "Handshaked")
    BY <1>1, <1>3, <1>9 DEF EndsRound, Compares, PartyStands
  <2>2. InPhase(p)' = InPhase(p)
    BY <1>4, <1>5, <1>9
  <2> QED BY <1>r, <1>s, <1>1, <1>2, <1>3, <1>9, <2>1, <2>2 DEF PartyTypes
<1>10. CASE \E q \in Peers(p) : SendsFrame(p, q) \/ ReadsFrame(p, q)
  BY <1>9, <1>10 DEF SendsFrame, ReadsFrame, SamePlan, SamePosition, SameResult
<1>11. CASE \E lost \in SUBSET channels[p] : \E abrupt \in BOOLEAN : Stops(p, lost, abrupt)
  <2>1. PICK lost, abrupt : Stops(p, lost, abrupt)
    BY <1>11
  <2>2. execution_state'[p] = execution_state[p] /\ round'[p] = round[p]
    BY <2>1 DEF Stops
  <2>3. outcome'[p] = outcome[p] \/ (outcome'[p] = "SchemeError" /\ outcome[p] = "none")
    BY <1>1, <2>1 DEF Stops, PartyStands
  <2>4. InPhase(p)' = InPhase(p)
    BY <1>4, <1>5, <2>2, <2>3
  <2>5. ~EndsRound(p) /\ ~(Compares(p) /\ execution_state'[p] = "Handshaked")
    BY <1>1, <1>3, <2>1, <2>2 DEF Stops, EndsRound, Compares, PartyStands
  <2> QED BY <1>r, <1>s, <1>1, <1>2, <1>3, <2>2, <2>4, <2>5 DEF PartyTypes
<1>12. CASE StartsReading(p) \/ StartsSending(p)
  BY <1>9, <1>12 DEF StartsReading, StartsSending, SamePlan, SameResult
<1>13. CASE Compares(p)
  <2>1. /\ execution_state[p] = "NewBorn" /\ ~EndsRound(p)
        /\ (execution_state'[p] = "NewBorn" \/ (execution_state'[p] = "Handshaked" /\ outcome'[p] = "Ok"))
    BY <1>1, <1>13 DEF Compares, EndsRound, PartyStands, Phases
  <2> QED BY <1>r, <1>s, <1>1, <1>5, <1>13, <2>1
<1>14. CASE EndsRound(p)
  <2>1. /\ execution_state[p] \in {"Handshaked", "ReadyOnline"} /\ execution_state'[p] = execution_state[p]
        /\ outcome'[p] = "none" /\ outcome[p] = "none" /\ round'[p] = round[p] + 1
    BY <1>1, <1>14 DEF EndsRound, SamePlan, SameResult, PartyStands, Phases
  <2>2. InPhase(p) \in Nat /\ InPhase(p)' = InPhase(p) + 1
    BY <1>3, <1>4, <1>5, <2>1
  <2>3. Progress(p)' = Progress(p) + 1
    BY <1>r, <1>s, <2>1, <2>2
  <2> QED BY <1>14, <2>3
<1>15. CASE EndsPhase(p)
  <2>1. ~EndsRound(p) /\ ~Compares(p)
    BY <1>1, <1>15 DEF EndsPhase, EndsRound, Compares
  <2>2. /\ outcome[p] = "none" /\ call[p] \in Phases /\ round[p] > Len(Rounds(p)) /\ round[p] <= Len(Rounds(p)) + 1
    BY <1>1, <1>15 DEF EndsPhase, PartyStands, Phases
  <2>3. CASE call[p] = "do_offline"
    <3>1. execution_state[p] = "Handshaked" /\ execution_state'[p] = "FinishedOffline" /\ Len(Rounds(p)) = n
      BY <1>1, <1>2, <1>15, <2>3 DEF EndsPhase, PartyStands, Rounds
    <3>2. round[p] = n + 1
      BY <1>2, <1>3, <2>2, <3>1
    <3>3. InPhase(p) = n
      BY <1>4, <2>2, <3>2
    <3> QED BY <1>r, <1>s, <2>1, <3>1, <3>3
  <2>4. CASE call[p] = "do_online"
    <3>1. execution_state[p] = "ReadyOnline" /\ execution_state'[p] = "Finished" /\ Len(Rounds(p)) = m
      BY <1>1, <1>2, <1>15, <2>4 DEF EndsPhase, PartyStands, Rounds
    <3>2. round[p] = m + 1
      BY <1>2, <1>3, <2>2, <3>1
    <3>3. InPhase(p) = m
      BY <1>4, <2>2, <3>2
    <3> QED BY <1>r, <1>s, <2>1, <3>1, <3>3
  <2> QED BY <2>2, <2>3, <2>4 DEF Phases
<1> QED BY <1>6, <1>7, <1>8, <1>10, <1>11, <1>12, <1>13, <1>14, <1>15 DEF PartyMoves

-----------------------------------------------------------------------------
(* What is written and read of each exchange.                              *)

\* A frame of q for p in an exchange is written, or will never be.
Wrote(q, p, j) ==
  \/ j < Progress(q)
  \/ /\ j = Progress(q)
     /\ \/ Over(q) \/ step[q] = "recv"
        \/ step[q] \in {"broadcast", "send"} /\ p \notin DOMAIN outbox[q]
HasRead(p, q, j) ==
  j < Progress(p) \/ (j = Progress(p) /\ step[p] = "recv" /\ q \notin awaiting[p])

\* Nobody reads what has not been written; and what p has not read of q is in the
\* stream, in order, up to where q gave up.
Unread(q, p) == {j \in Turns(q) : Wrote(q, p, j) /\ ~HasRead(p, q, j)}
NoGap(q, p) == \A j \in Turns(q) : HasRead(p, q, j) => Wrote(q, p, j)
Numbers(ks, q, p) ==
  /\ \A i, j \in DOMAIN ks : i < j => ks[i] < ks[j]
  /\ \A i \in DOMAIN ks : in_flight[<<q, p>>][i] = FrameOf(q, p, ks[i])
  /\ \A i \in DOMAIN ks : \A m \in Unread(q, p) : m < ks[i] => \E j \in DOMAIN ks : m = ks[j]
  /\ ~Over(q) => \A m \in Unread(q, p) : \E j \in DOMAIN ks : m = ks[j]
Stream(q, p) == \E ks \in [DOMAIN in_flight[<<q, p>>] -> Unread(q, p)] : Numbers(ks, q, p)

Ends(p) ==
  /\ execution_state[p] = "FinishedOffline" => ~Failed(p)
  /\ ~Over(p) => channels[p] = Peers(p)
  /\ ~Up(p) => channels[p] = {}
  /\ \A q \in Peers(p) : q \notin channels[p] => in_flight[<<q, p>>] = << >>
Batches(p) ==
  /\ \A q \in DOMAIN outbox[p] : Progress(p) \in Turns(p) /\ outbox[p][q] = FrameOf(p, q, Progress(p))
  /\ \A q \in DOMAIN inbox[p] : inbox[p][q] = FrameOf(q, p, Progress(p))

StreamInv == \A p \in Parties : /\ Ends(p) /\ Batches(p)
                                /\ \A q \in Peers(p) : NoGap(q, p) /\ (~Over(p) => Stream(q, p))
RunInv == AgreeInv /\ InputInv /\ StreamInv

\* Who has a frame in the round in hand.
LEMMA RoundTurns ==
  ASSUME NEW p \in Parties, NEW q \in Peers(p), plan[p] \in Plans, PartyTypes(p), PartyStands(p),
         call[p] \in Phases, round[p] <= Len(Rounds(p)), plan[q] = plan[p]
  PROVE  /\ Progress(p) \in Nat \ {0}
         /\ OpsAt(p, Progress(p)) = NetworkOps(p) /\ OpsAt(q, Progress(p)) = NetworkOps(p)
         /\ q \in Senders(p) <=> Progress(p) \in Turns(q)
         /\ q \in Receivers(p) <=> Progress(p) \in Turns(p)
<1>1. /\ Progress(p) \in 1..Len(RoundsInOrder(plan[p])) /\ Len(RoundsInOrder(plan[p])) \in Nat
      /\ RoundsInOrder(plan[p])[Progress(p)] = Current(p)
  BY ProgressStands, RoundsTyped
<1>2. OpsAt(p, Progress(p)) = NetworkOps(p) /\ OpsAt(q, Progress(p)) = NetworkOps(p)
  BY <1>1 DEF OpsAt, NetworkOps
<1>3. Progress(p) \in Nat \ {0} /\ Progress(p) \in 0..Len(RoundsInOrder(plan[p])) /\ Progress(p) # 0
  BY <1>1
<1>4. \A r \in {p, q} : Progress(p) \in Turns(r) <=> \E op \in Range(NetworkOps(p)) : Sends(op, r)
  <2>1. \A r \in {p, q} : Progress(p) \in Turns(r) <=> Sending(r, Progress(p)) # {}
    BY <1>3 DEF Turns
  <2>2. \A r \in {p, q} : Sending(r, Progress(p)) # {} <=> \E op \in Range(NetworkOps(p)) : Sends(op, r)
    BY <1>2 DEF Sending, Range
  <2> QED BY <2>1, <2>2
<1>5. \A op : Receives(op, p, q) <=> Sends(op, q)
  BY DEF Peers, Receives, Sends
<1>6. q \in Senders(p) <=> Progress(p) \in Turns(q)
  BY <1>4, <1>5 DEF Senders
<1>7. q \in Receivers(p) <=> Progress(p) \in Turns(p)
  BY <1>4 DEF Receivers
<1> QED BY <1>2, <1>3, <1>6, <1>7

\* A party that is over only closes.
LEMMA OverMoves ==
  ASSUME TypeInv, MaxRetries = 0, NEW p \in Parties, Ends(p), PartyMoves(p)
  PROVE  /\ Over(p) => Over(p)' /\ step[p] = "idle"
         /\ Over(p)' => \/ \E lost \in SUBSET channels[p] : \E abrupt \in BOOLEAN : Stops(p, lost, abrupt)
                        \/ Compares(p) /\ execution_state'[p] # "Handshaked" /\ outcome'[p] = "PlanNotAgreed"
         /\ (\E lost \in SUBSET channels[p] : \E abrupt \in BOOLEAN : Stops(p, lost, abrupt)) => Over(p)'
<1>1. PartyTypes(p) /\ PartyStands(p)
  BY DEF TypeInv
<1>2. step[p] # "idle" => ~Over(p)
  BY <1>1 DEF PartyStands, Over, Failed, Up
<1>3. ASSUME NEW lost, NEW abrupt, Stops(p, lost, abrupt) PROVE Over(p)'
  BY <1>3 DEF Stops, Over, Failed, Up
<1>4. CASE EntersHandshake(p) \/ EntersPhase(p)
  <2>1. MayEnter(p)
    BY <1>4 DEF EntersHandshake, EntersPhase
  <2>2. Up(p) /\ outcome'[p] = "none" /\ status'[p] = status[p]
    BY <2>1 DEF MayEnter, SameEnds
  <2>3. ~Failed(p)
    BY <1>1, <2>1 DEF MayEnter, PartyTypes
  <2> QED BY <1>3, <2>2, <2>3 DEF Over, Failed, Up
<1>5. CASE \E given \in InputLists : Prepares(p, given)
  <2>1. PICK given \in InputLists : Prepares(p, given)
    BY <1>5
  <2>2. Up(p) /\ ~Failed(p) /\ status'[p] = status[p]
    BY <2>1 DEF Prepares, Ends, SameEnds
  <2>3. PrepareVerdict(p, given) \in {"Ok", "DuplicateInput", "InvalidInputWire", "NotEnoughInputs"}
    BY DEF PrepareVerdict
  <2>4. outcome'[p] \notin {"SchemeError", "PlanNotAgreed"}
    BY <2>1, <2>3 DEF Prepares
  <2> QED BY <1>3, <2>2, <2>4 DEF Over, Failed, Up
<1>6. CASE \/ \E q \in Peers(p) : SendsFrame(p, q) \/ ReadsFrame(p, q)
           \/ StartsReading(p) \/ StartsSending(p) \/ EndsRound(p)
  <2>1. step[p] # "idle" /\ status'[p] = status[p] /\ outcome'[p] = outcome[p]
    BY <1>1, <1>6 DEF SendsFrame, ReadsFrame, StartsReading, StartsSending, EndsRound, SameEnds, SameResult
  <2> QED BY <1>2, <1>3, <2>1 DEF Over, Failed, Up
<1>7. CASE EndsPhase(p)
  <2>1. step[p] # "idle" /\ status'[p] = status[p] /\ outcome'[p] = "Ok"
    BY <1>7 DEF EndsPhase, SameEnds
  <2> QED BY <1>2, <1>3, <2>1 DEF Over, Failed, Up
<1>8. CASE Compares(p)
  <2>1. step[p] # "idle" /\ status'[p] = status[p]
    BY <1>8 DEF Compares, SameEnds
  <2>2. outcome'[p] = "Ok" \/ (execution_state'[p] # "Handshaked" /\ outcome'[p] = "PlanNotAgreed")
    BY <1>1, <1>8 DEF Compares, PartyStands
  <2> QED BY <1>2, <1>3, <1>8, <2>1, <2>2 DEF Over, Failed, Up
<1>9. CASE \E lost \in SUBSET channels[p] : \E abrupt \in BOOLEAN : Stops(p, lost, abrupt)
  <2>1. Over(p)'
    BY <1>3, <1>9
  <2> QED BY <1>2, <1>9, <2>1
<1> QED BY <1>4, <1>5, <1>6, <1>7, <1>8, <1>9 DEF PartyMoves

LEMMA SameFrames ==
  ASSUME NEW q, NEW p, NEW j, plan'[q] = plan[q]
  PROVE  /\ Turns(q)' = Turns(q) /\ Sending(q, j)' = Sending(q, j) /\ OpsAt(q, j)' = OpsAt(q, j)
         /\ FrameOf(q, p, j)' = FrameOf(q, p, j)
<1>1. \A k : OpsAt(q, k)' = OpsAt(q, k)
  BY DEF OpsAt
<1>2. \A k : Sending(q, k)' = Sending(q, k)
  BY <1>1 DEF Sending
<1>3. Turns(q)' = Turns(q)
  BY <1>2 DEF Turns
<1>4. FrameOf(q, p, j)' = FrameOf(q, p, j)
  <2>1. Sending(q, j)' = Sending(q, j) /\ OpsAt(q, j)' = OpsAt(q, j)
    BY <1>1, <1>2
  <2>2. HashFrame(plan[q])' = HashFrame(plan[q])
    BY DEF HashFrame
  <2> DEFINE shares(sending, ops) ==
        [n \in 1..Cardinality(sending) |-> Share(ops[Nth(sending, n)].output, q, p, FALSE)]
  <2>3. FrameOf(q, p, j) = IF j = 0 THEN HashFrame(plan[q]) ELSE DataFrame(shares(Sending(q, j), OpsAt(q, j)))
    BY DEF FrameOf
  <2>4. FrameOf(q, p, j)' = IF j = 0 THEN HashFrame(plan[q])' ELSE DataFrame(shares(Sending(q, j)', OpsAt(q, j)'))
    BY DEF FrameOf
  <2> HIDE DEF shares
  <2> QED BY <2>1, <2>2, <2>3, <2>4
<1> QED BY <1>1, <1>2, <1>3, <1>4

\* A step of a party that goes on reads a frame that it awaits, or none.
LEMMA MoveReads ==
  ASSUME TypeInv, PlanAgreement, MaxRetries = 0, NEW p \in Parties, Ends(p), PartyMoves(p), ~Over(p)',
         NEW q \in Peers(p), NEW j \in Turns(q)
  PROVE  HasRead(p, q, j)' <=> HasRead(p, q, j) \/ (ReadsFrame(p, q) /\ j = Progress(p))
<1>1. /\ plan[p] \in Plans /\ PartyTypes(p) /\ PartyStands(p)
  BY DEF TypeInv
<1>2. PICK g \in Nat : g = Progress(p)
  BY <1>1, ProgressStands
<1>3. j \in Int
  <2>1. q \in Parties /\ plan[q] \in Plans
    BY DEF TypeInv, Peers
  <2> QED BY <2>1, RoundsTyped DEF Turns
<1>4. Progress(p)' = IF EndsRound(p) \/ (Compares(p) /\ execution_state'[p] = "Handshaked") THEN g + 1 ELSE g
  BY <1>2, ProgressMoves
<1>5. HasRead(p, q, j) <=> j < g \/ (j = g /\ step[p] = "recv" /\ q \notin awaiting[p])
  BY <1>2 DEF HasRead
<1>6. HasRead(p, q, j)' <=> j < Progress(p)' \/ (j = Progress(p)' /\ step'[p] = "recv" /\ q \notin awaiting'[p])
  BY DEF HasRead
<1>7. CASE EndsRound(p) \/ Compares(p)
  <2>1. step[p] = "recv" /\ step'[p] # "recv" /\ awaiting[p] = {} /\ ~ReadsFrame(p, q)
    BY <1>7 DEF EndsRound, Compares, ReadsFrame
  <2>2. EndsRound(p) \/ (Compares(p) /\ execution_state'[p] = "Handshaked")
    <3>1. CASE Compares(p)
      BY <3>1 DEF Compares, Over, Failed
    <3> QED BY <1>7, <3>1
  <2>3. Progress(p)' = g + 1
    BY <1>4, <2>2
  <2> QED BY <1>3, <1>5, <1>6, <2>1, <2>3
<1>8. CASE ~EndsRound(p) /\ ~Compares(p) /\ step'[p] # "recv"
  <2>1. step[p] # "recv" /\ ~ReadsFrame(p, q)
    <3>1. \A lost, abrupt : ~Stops(p, lost, abrupt)
      BY DEF Stops, Over, Failed, Up
    <3> QED BY <1>1, <1>8, <3>1 DEF PartyMoves, EntersHandshake, EntersPhase, MayEnter, Prepares,
               SendsFrame, ReadsFrame, StartsReading, StartsSending, EndsPhase, SamePosition, PartyStands
  <2>2. Progress(p)' = g
    BY <1>4, <1>8
  <2> QED BY <1>3, <1>5, <1>6, <1>8, <2>1, <2>2
<1>9. CASE StartsReading(p)
  <2>1. step[p] \in {"broadcast", "send"} /\ step'[p] = "recv" /\ awaiting'[p] = Wanted(p)
    BY <1>9 DEF StartsReading
  <2>2. ~EndsRound(p) /\ ~Compares(p) /\ ~ReadsFrame(p, q) /\ Progress(p)' = g
    BY <1>4, <2>1 DEF EndsRound, Compares, ReadsFrame
  <2>3. ASSUME j = g PROVE q \in Wanted(p)
    <3>1. CASE call[p] = "handshake"
      BY <3>1 DEF Wanted
    <3>2. CASE call[p] # "handshake"
      <4>1. call[p] \in Phases /\ step[p] = "send" /\ round[p] <= Len(Rounds(p))
        BY <1>1, <2>1, <3>2 DEF PartyStands
      <4>2. plan[q] = plan[p]
        BY <1>1, <4>1 DEF PlanAgreement, PartyStands, Peers, Phases
      <4>3. q \in Senders(p)
        BY <1>1, <1>2, <2>3, <4>1, <4>2, RoundTurns
      <4> QED BY <3>2, <4>3 DEF Wanted
    <3> QED BY <3>1, <3>2
  <2> QED BY <1>5, <1>6, <2>1, <2>2, <2>3
<1>10. CASE \E r \in Peers(p) : ReadsFrame(p, r)
  <2>1. PICK r \in Peers(p) : ReadsFrame(p, r)
    BY <1>10
  <2>2. /\ step[p] = "recv" /\ step'[p] = "recv" /\ r \in awaiting[p] /\ awaiting'[p] = awaiting[p] \ {r}
        /\ execution_state'[p] = execution_state[p] /\ call'[p] = call[p]
    BY <2>1 DEF ReadsFrame, SamePosition, SamePlan
  <2>3. ~EndsRound(p) /\ ~Compares(p) /\ Progress(p)' = g
    BY <1>4, <2>2 DEF EndsRound, Compares
  <2>4. ReadsFrame(p, q) <=> q = r
    <3>1. ASSUME ReadsFrame(p, q) PROVE q = r
      BY <2>2, <3>1 DEF ReadsFrame
    <3> QED BY <2>1, <3>1
  <2> QED BY <1>2, <1>5, <1>6, <2>2, <2>3, <2>4
<1>11. CASE \E r \in Peers(p) : SendsFrame(p, r)
  <2>1. step[p] # "recv" /\ step'[p] # "recv"
    BY <1>11 DEF SendsFrame, SamePosition
  <2>2. ~EndsRound(p) /\ ~Compares(p)
    BY <2>1 DEF EndsRound, Compares
  <2> QED BY <1>8, <2>1, <2>2
<1>12. ASSUME step'[p] = "recv" PROVE \/ EndsRound(p) \/ Compares(p) \/ StartsReading(p)
                                      \/ \E r \in Peers(p) : SendsFrame(p, r) \/ ReadsFrame(p, r)
  BY <1>1, <1>12 DEF PartyMoves, EntersHandshake, EntersPhase, MayEnter, Prepares, Stops,
       StartsSending, EndsPhase, SamePosition, PartyStands
<1> QED BY <1>7, <1>8, <1>9, <1>10, <1>11, <1>12

\* A step of a party writes a frame that it has ready, or none, or gives up.
LEMMA MoveWrites ==
  ASSUME TypeInv, PlanAgreement, MaxRetries = 0, NEW q \in Parties, Ends(q), PartyMoves(q),
         NEW p \in Peers(q), NEW j \in Turns(q)
  PROVE  Wrote(q, p, j)' <=> \/ Wrote(q, p, j)
                             \/ j = Progress(q) /\ (SendsFrame(q, p) \/ Over(q)')
<1>1. plan[q] \in Plans /\ PartyTypes(q) /\ PartyStands(q)
  BY DEF TypeInv
<1>2. PICK g \in Nat : g = Progress(q)
  BY <1>1, ProgressStands
<1>3. j \in Int
  BY <1>1, RoundsTyped DEF Turns
<1>4. Progress(q)' = IF EndsRound(q) \/ (Compares(q) /\ execution_state'[q] = "Handshaked") THEN g + 1 ELSE g
  BY <1>2, ProgressMoves
<1>5. Wrote(q, p, j) <=> \/ j < g
                         \/ j = g /\ \/ Over(q) \/ step[q] = "recv"
                                     \/ step[q] \in {"broadcast", "send"} /\ p \notin DOMAIN outbox[q]
  BY <1>2 DEF Wrote
<1>6. Wrote(q, p, j)' <=> \/ j < Progress(q)'
                          \/ j = Progress(q)' /\ \/ Over(q)' \/ step'[q] = "recv"
                                                 \/ step'[q] \in {"broadcast", "send"} /\ p \notin DOMAIN outbox'[q]
  BY DEF Wrote
<1>7. CASE Over(q)'
  <2>1. ~EndsRound(q) /\ ~(Compares(q) /\ execution_state'[q] = "Handshaked")
    <3>1. PICK o : o = outcome'[q]
      OBVIOUS
    <3>2. CASE \E lost, abrupt : Stops(q, lost, abrupt)
      <4>1. call'[q] = "none" /\ execution_state'[q] = execution_state[q]
        BY <3>2 DEF Stops
      <4> QED BY <1>1, <4>1 DEF EndsRound, Compares, PartyStands, Phases
    <3>3. CASE Compares(q) /\ execution_state'[q] # "Handshaked"
      BY <3>3 DEF EndsRound, Compares, Phases
    <3> QED BY <1>7, <3>2, <3>3, OverMoves
  <2> QED BY <1>2, <1>3, <1>4, <1>5, <1>6, <1>7, <2>1
<1> SUFFICES ASSUME ~Over(q)' PROVE Wrote(q, p, j)' <=> Wrote(q, p, j) \/ (j = g /\ SendsFrame(q, p))
  BY <1>2, <1>7
<1>8. ~Over(q) /\ \A lost, abrupt : ~Stops(q, lost, abrupt)
  <2>1. \A lost, abrupt : ~Stops(q, lost, abrupt)
    BY DEF Stops, Over, Failed, Up
  <2> QED BY <2>1, OverMoves
<1>9. CASE EndsRound(q) \/ Compares(q)
  <2>1. step[q] = "recv" /\ step'[q] \in {"round", "idle"} /\ ~SendsFrame(q, p)
    BY <1>9 DEF EndsRound, Compares, SendsFrame
  <2>2. EndsRound(q) \/ (Compares(q) /\ execution_state'[q] = "Handshaked")
    <3>1. CASE Compares(q)
      BY <3>1 DEF Compares, Over, Failed
    <3> QED BY <1>9, <3>1
  <2>3. Progress(q)' = g + 1
    BY <1>4, <2>2
  <2> QED BY <1>3, <1>5, <1>6, <1>8, <2>1, <2>3
<1>10. CASE StartsReading(q)
  <2>1. step[q] \in {"broadcast", "send"} /\ DOMAIN outbox[q] = {} /\ step'[q] = "recv"
    BY <1>10 DEF StartsReading
  <2>2. ~EndsRound(q) /\ ~Compares(q) /\ ~SendsFrame(q, p)
    BY <2>1 DEF EndsRound, Compares, SendsFrame
  <2>3. Progress(q)' = g
    BY <1>4, <2>2
  <2> QED BY <1>5, <1>6, <2>1, <2>2, <2>3
<1>11. CASE \E r \in Peers(q) : ReadsFrame(q, r)
  <2>1. step[q] = "recv" /\ step'[q] = "recv" /\ call'[q] = call[q]
    BY <1>11 DEF ReadsFrame, SamePosition
  <2>2. ~EndsRound(q) /\ ~Compares(q) /\ ~SendsFrame(q, p)
    BY <2>1 DEF EndsRound, Compares, SendsFrame
  <2>3. Progress(q)' = g
    BY <1>4, <2>2
  <2> QED BY <1>5, <1>6, <2>1, <2>2, <2>3
<1>12. CASE \E r \in Peers(q) : SendsFrame(q, r)
  <2>1. PICK r \in Peers(q) : SendsFrame(q, r)
    BY <1>12
  <2>2. /\ step[q] \in {"broadcast", "send"} /\ step'[q] = step[q] /\ r \in DOMAIN outbox[q]
        /\ DOMAIN outbox'[q] = DOMAIN outbox[q] \ {r}
    BY <2>1 DEF SendsFrame, SamePosition
  <2>3. ~EndsRound(q) /\ ~Compares(q) /\ Progress(q)' = g
    BY <1>4, <2>2 DEF EndsRound, Compares
  <2>4. SendsFrame(q, p) <=> p = r
    <3>1. ASSUME SendsFrame(q, p), p # r PROVE FALSE
      <4>1. DOMAIN outbox'[q] = DOMAIN outbox[q] \ {p}
        BY <3>1 DEF SendsFrame
      <4> QED BY <2>2, <3>1, <4>1
    <3> QED BY <2>1, <3>1
  <2> QED BY <1>5, <1>6, <1>8, <2>2, <2>3, <2>4
<1>13. CASE StartsSending(q)
  <2>1. /\ step[q] = "round" /\ step'[q] = "send" /\ DOMAIN outbox'[q] = Receivers(q)
        /\ round[q] <= Len(Rounds(q))
    BY <1>13 DEF StartsSending
  <2>2. ~EndsRound(q) /\ ~Compares(q) /\ ~SendsFrame(q, p) /\ Progress(q)' = g
    BY <1>4, <2>1 DEF EndsRound, Compares, SendsFrame
  <2>3. ASSUME j = g PROVE p \in DOMAIN outbox'[q]
    <3>1. call[q] \in Phases
      BY <1>1, <2>1 DEF PartyStands
    <3>2. plan[p] = plan[q]
      BY <1>1, <3>1 DEF PlanAgreement, PartyStands, Peers, Phases
    <3>3. p \in Receivers(q)
      BY <1>1, <1>2, <2>1, <2>3, <3>1, <3>2, RoundTurns
    <3> QED BY <2>1, <3>3
  <2> QED BY <1>5, <1>6, <1>8, <2>1, <2>2, <2>3
<1>14. CASE EntersHandshake(q)
  <2>1. /\ step[q] = "idle" /\ step'[q] = "broadcast" /\ DOMAIN outbox'[q] = Peers(q)
    BY <1>1, <1>14 DEF EntersHandshake, MayEnter, PartyStands
  <2>2. ~EndsRound(q) /\ ~Compares(q) /\ ~SendsFrame(q, p) /\ Progress(q)' = g
    BY <1>4, <2>1 DEF EndsRound, Compares, SendsFrame
  <2> QED BY <1>5, <1>6, <1>8, <2>1, <2>2
<1>15. CASE EntersPhase(q) \/ (\E given \in InputLists : Prepares(q, given)) \/ EndsPhase(q)
  <2>1. step[q] \in {"idle", "round"} /\ step'[q] \in {"idle", "round"}
    BY <1>1, <1>15 DEF EntersPhase, MayEnter, Prepares, EndsPhase, SamePosition, PartyStands
  <2>2. ~EndsRound(q) /\ ~Compares(q) /\ ~SendsFrame(q, p) /\ Progress(q)' = g
    BY <1>4, <2>1 DEF EndsRound, Compares, SendsFrame
  <2> QED BY <1>5, <1>6, <1>8, <2>1, <2>2
<1> QED BY <1>8, <1>9, <1>10, <1>11, <1>12, <1>13, <1>14, <1>15 DEF PartyMoves

-----------------------------------------------------------------------------
(* What a step does to a stream.                                           *)

\* What is left of a stream that was cut.
Cut(s, t) == \E n \in 0..Len(t) : s = SubSeq(t, 1, n)

LEMMA CutOf ==
  ASSUME NEW S, NEW t \in Seq(S), NEW s, Cut(s, t)
  PROVE  DOMAIN s \subseteq DOMAIN t /\ \A i \in DOMAIN s : s[i] = t[i] /\ \A j \in DOMAIN t : j < i => j \in DOMAIN s
<1>1. PICK n \in 0..Len(t) : s = SubSeq(t, 1, n)
  BY DEF Cut
<1>2. Len(t) \in Nat /\ DOMAIN t = 1..Len(t)
  BY LenProperties
<1>3. \A i \in 1..n : i \in 1..Len(t) /\ t[i] \in S
  BY <1>2, ElementOfSeq
<1>4. s \in Seq(S) /\ Len(s) = n /\ \A i \in 1..n : s[i] = t[i]
  BY <1>1, <1>2, <1>3, SubSeqProperties
<1>5. DOMAIN s = 1..n
  BY <1>4, LenProperties
<1> QED BY <1>2, <1>3, <1>4, <1>5

LEMMA CutOfSelf == ASSUME NEW S, NEW t \in Seq(S) PROVE Cut(t, t)
<1>1. Len(t) \in Nat /\ \A i \in 1..Len(t) : t[i] \in S
  BY LenProperties, ElementOfSeq
<1>2. SubSeq(t, 1, Len(t)) = t
  BY <1>1
<1>3. Len(t) \in 0..Len(t)
  BY <1>1
<1> QED BY <1>2, <1>3, Zenon DEF Cut

\* A write appends to its stream, or cuts the one of a peer that has closed.
LEMMA WriteLinks ==
  ASSUME TypeInv, NEW p \in Parties, NEW q \in Peers(p), NEW frame, Write(p, q, frame)
  PROVE  \/ /\ p \in channels[q] /\ in_flight'[<<p, q>>] = Append(in_flight[<<p, q>>], frame)
            /\ \A l \in Links : l # <<p, q>> => in_flight'[l] = in_flight[l]
         \/ /\ p \notin channels[q] /\ Cut(in_flight'[<<q, p>>], in_flight[<<q, p>>])
            /\ \A l \in Links : l # <<q, p>> => in_flight'[l] = in_flight[l]
<1>1. <<p, q>> \in Links /\ <<q, p>> \in Links /\ DOMAIN in_flight = Links
  BY DEF Links, Peers, TypeInv, AllDomains
<1> QED BY <1>1 DEF Write, Cut

LEMMA CloseLinks ==
  ASSUME TypeInv, NEW p \in Parties, NEW lost \in SUBSET Peers(p), NEW abrupt, Close(p, lost, abrupt)
  PROVE  /\ \A r \in Peers(p) : Cut(in_flight'[<<p, r>>], in_flight[<<p, r>>])
         /\ \A r \in Peers(p) : in_flight'[<<r, p>>] = IF r \in lost THEN << >> ELSE in_flight[<<r, p>>]
         /\ \A l \in Links : l[1] # p /\ l[2] # p => in_flight'[l] = in_flight[l]
<1>1. PICK kept \in [lost -> 0..Capacity] :
        /\ \A q \in lost : kept[q] = Len(in_flight[<<p, q>>]) \/ kept[q] < Len(in_flight[<<p, q>>])
        /\ in_flight' = [l \in Links |->
                           IF l[1] = p /\ l[2] \in lost THEN SubSeq(in_flight[l], 1, kept[l[2]])
                           ELSE IF l[2] = p /\ l[1] \in lost THEN << >>
                           ELSE in_flight[l]]
  BY DEF Close
<1>2. ASSUME NEW r \in Peers(p) PROVE Cut(in_flight'[<<p, r>>], in_flight[<<p, r>>])
  <2>1. <<p, r>> \in Links /\ in_flight[<<p, r>>] \in Seq(Frame) /\ r # p
    BY DEF Links, Peers, TypeInv, LinksTyped
  <2>2. Len(in_flight[<<p, r>>]) \in Nat
    BY <2>1, LenProperties
  <2>3. CASE r \in lost
    <3>1. in_flight'[<<p, r>>] = SubSeq(in_flight[<<p, r>>], 1, kept[r])
      BY <1>1, <2>1, <2>3
    <3>2. kept[r] \in Nat /\ (kept[r] = Len(in_flight[<<p, r>>]) \/ kept[r] < Len(in_flight[<<p, r>>]))
      BY <1>1, <2>3, ExecutionAssumption
    <3> QED BY <2>2, <3>1, <3>2 DEF Cut
  <2>4. CASE r \notin lost
    <3>1. in_flight'[<<p, r>>] = in_flight[<<p, r>>]
      BY <1>1, <2>1, <2>4
    <3> QED BY <2>1, <3>1, CutOfSelf
  <2> QED BY <2>3, <2>4
<1>3. ASSUME NEW r \in Peers(p)
      PROVE  in_flight'[<<r, p>>] = IF r \in lost THEN << >> ELSE in_flight[<<r, p>>]
  <2>1. <<r, p>> \in Links /\ r # p
    BY DEF Links, Peers
  <2> QED BY <1>1, <2>1
<1>4. \A l \in Links : l[1] # p /\ l[2] # p => in_flight'[l] = in_flight[l]
  BY <1>1
<1> QED BY <1>2, <1>3, <1>4

LEMMA TurnsTyped ==
  ASSUME TypeInv, NEW q \in Parties
  PROVE  Turns(q) \subseteq Nat /\ \A p : Unread(q, p) \subseteq Nat
<1>1. Turns(q) \subseteq Nat
  BY RoundsTyped DEF Turns, TypeInv
<1> QED BY <1>1 DEF Unread

\* A stream that is cut, or stays, is still numbered if what can be missing is
\* after all that was there.
LEMMA StreamCut ==
  ASSUME TypeInv, NEW q \in Parties, NEW p \in Peers(q), Stream(q, p), plan'[q] = plan[q],
         Cut(in_flight'[<<q, p>>], in_flight[<<q, p>>]),
         (in_flight'[<<q, p>>] = in_flight[<<q, p>>] /\ Unread(q, p)' = Unread(q, p) /\ ~Over(q)) \/ Over(q)',
         Unread(q, p) \subseteq Unread(q, p)',
         \A m \in Unread(q, p)' : \A k \in Unread(q, p) : m < k => m \in Unread(q, p)
  PROVE  Stream(q, p)'
<1> DEFINE s == in_flight[<<q, p>>]
           t == in_flight'[<<q, p>>]
<1>1. s \in Seq(Frame)
  BY DEF TypeInv, LinksTyped, Links, Peers
<1>2. /\ DOMAIN t \subseteq DOMAIN s
      /\ \A i \in DOMAIN t : t[i] = s[i] /\ \A j \in DOMAIN s : j < i => j \in DOMAIN t
  BY <1>1, CutOf
<1>3. PICK ks \in [DOMAIN s -> Unread(q, p)] : Numbers(ks, q, p)
  BY DEF Stream
<1>4. \A j : FrameOf(q, p, j)' = FrameOf(q, p, j)
  BY SameFrames
<1>5. PICK ls : ls = [i \in DOMAIN t |-> ks[i]]
  OBVIOUS
<1>6. ls \in [DOMAIN t -> Unread(q, p)']
  BY <1>2, <1>3, <1>5
<1>7. /\ \A i, j \in DOMAIN ls : i < j => ls[i] < ls[j]
      /\ \A i \in DOMAIN ls : t[i] = FrameOf(q, p, ls[i])'
  BY <1>2, <1>3, <1>4, <1>5 DEF Numbers
<1>8. ASSUME NEW i \in DOMAIN ls, NEW m \in Unread(q, p)', m < ls[i]
      PROVE  \E j \in DOMAIN ls : m = ls[j]
  <2>1. i \in DOMAIN s /\ ls[i] = ks[i] /\ ks[i] \in Unread(q, p)
    BY <1>2, <1>3, <1>5
  <2>2. m \in Unread(q, p)
    BY <1>8, <2>1
  <2>3. PICK j \in DOMAIN s : m = ks[j]
    BY <1>3, <1>8, <2>1, <2>2 DEF Numbers
  <2>4. i \in Int /\ j \in Int
    BY <1>1, <2>1, LenProperties
  <2>5. j < i
    <3>1. ks[i] \in Int /\ ks[j] \in Int
      BY <1>3, <2>1, <2>3, TurnsTyped
    <3>2. ~(i < j) /\ i # j
      BY <1>3, <1>8, <2>1, <2>3, <3>1 DEF Numbers
    <3> QED BY <2>4, <3>2
  <2>6. j \in DOMAIN t
    BY <1>2, <1>8, <1>5, <2>5
  <2> QED BY <1>5, <2>3, <2>6
<1>9. ~Over(q)' => \A m \in Unread(q, p)' : \E j \in DOMAIN ls : m = ls[j]
  BY <1>3, <1>5 DEF Numbers
<1>10. Numbers(ls, q, p)'
  BY <1>7, <1>8, <1>9 DEF Numbers
<1> QED BY <1>6, <1>10 DEF Stream

\* The frame that comes next is appended.
LEMMA StreamAppend ==
  ASSUME TypeInv, NEW q \in Parties, NEW p \in Peers(q), Stream(q, p), plan'[q] = plan[q],
         ~Over(q), NEW g \in Nat, in_flight'[<<q, p>>] = Append(in_flight[<<q, p>>], FrameOf(q, p, g)),
         Unread(q, p)' = Unread(q, p) \cup {g}, \A m \in Unread(q, p) : m < g
  PROVE  Stream(q, p)'
<1> DEFINE s == in_flight[<<q, p>>]
           t == in_flight'[<<q, p>>]
<1>1. s \in Seq(Frame)
  BY DEF TypeInv, LinksTyped, Links, Peers
<1>2. PICK n \in Nat : n = Len(s) /\ DOMAIN s = 1..n
  BY <1>1, LenProperties
<1>3. /\ DOMAIN t = 1..(n + 1) /\ t[n + 1] = FrameOf(q, p, g)
      /\ \A i \in 1..n : t[i] = s[i]
  <2> DEFINE S == Frame \cup {FrameOf(q, p, g)}
  <2>1. s \in Seq(S) /\ FrameOf(q, p, g) \in S
    BY <1>1, SeqMonotonic
  <2>2. /\ t \in Seq(S) /\ Len(t) = n + 1 /\ t[n + 1] = FrameOf(q, p, g)
        /\ \A i \in 1..n : t[i] = s[i]
    <3>1. PICK e \in S : e = FrameOf(q, p, g) /\ t = Append(s, e)
      BY <2>1
    <3>2. /\ Append(s, e) \in Seq(S) /\ Len(Append(s, e)) = Len(s) + 1
          /\ \A i \in 1..Len(s) : Append(s, e)[i] = s[i]
          /\ Append(s, e)[Len(s) + 1] = e
      BY <2>1, AppendProperties
    <3>3. /\ Append(s, e) \in Seq(S) /\ Len(Append(s, e)) = n + 1
          /\ \A i \in 1..n : Append(s, e)[i] = s[i]
          /\ Append(s, e)[n + 1] = e
      BY <1>2, <3>2
    <3> QED BY <3>1, <3>3
  <2> QED BY <2>2, LenProperties
<1>4. PICK ks \in [1..n -> Unread(q, p)] : Numbers(ks, q, p)
  BY <1>2 DEF Stream
<1>5. \A j : FrameOf(q, p, j)' = FrameOf(q, p, j)
  BY SameFrames
<1>6. PICK ls : ls = [i \in 1..(n + 1) |-> IF i = n + 1 THEN g ELSE ks[i]]
  OBVIOUS
<1>7. /\ DOMAIN ls = 1..(n + 1) /\ ls[n + 1] = g
      /\ \A i \in 1..n : ls[i] = ks[i] /\ ks[i] \in Unread(q, p) /\ i \in 1..(n + 1)
      /\ \A i \in 1..(n + 1) : i = n + 1 \/ i \in 1..n
  BY <1>4, <1>6
<1>8. ls \in [DOMAIN t -> Unread(q, p)']
  BY <1>3, <1>6, <1>7
<1>9. ASSUME NEW i \in 1..(n + 1), NEW j \in 1..(n + 1), i < j PROVE ls[i] < ls[j]
  <2>1. i \in 1..n
    BY <1>9
  <2> QED BY <1>4, <1>7, <1>9, <2>1 DEF Numbers
<1>10. \A i \in 1..(n + 1) : t[i] = FrameOf(q, p, ls[i])'
  BY <1>3, <1>4, <1>5, <1>7 DEF Numbers
<1>11. \A m \in Unread(q, p)' : \E j \in 1..(n + 1) : m = ls[j]
  BY <1>4, <1>7 DEF Numbers
<1>12. Numbers(ls, q, p)'
  BY <1>7, <1>9, <1>10, <1>11 DEF Numbers
<1> QED BY <1>8, <1>12 DEF Stream

\* The first frame is that of the first exchange not read.
LEMMA StreamHead ==
  ASSUME TypeInv, NEW q \in Parties, NEW p \in Peers(q), Stream(q, p), in_flight[<<q, p>>] # << >>,
         NEW g \in Nat, \A m \in Unread(q, p) : g \in Unread(q, p) /\ g <= m
  PROVE  /\ g \in Unread(q, p) /\ Head(in_flight[<<q, p>>]) = FrameOf(q, p, g)
         /\ /\ plan'[q] = plan[q] /\ in_flight'[<<q, p>>] = Tail(in_flight[<<q, p>>])
            /\ Unread(q, p)' = Unread(q, p) \ {g} /\ (~Over(q)' => ~Over(q))
            => Stream(q, p)'
<1> DEFINE s == in_flight[<<q, p>>]
           t == Tail(s)
<1>1. s \in Seq(Frame)
  BY DEF TypeInv, LinksTyped, Links, Peers
<1>2. PICK n \in Nat : Len(s) = n + 1 /\ DOMAIN s = 1..(n + 1)
  <2>1. Len(s) \in Nat /\ Len(s) # 0 /\ DOMAIN s = 1..Len(s)
    BY <1>1, LenProperties, EmptySeq
  <2>2. Len(s) - 1 \in Nat /\ Len(s) = (Len(s) - 1) + 1
    BY <2>1
  <2> QED BY <2>1, <2>2
<1>3. /\ Head(s) = s[1] /\ DOMAIN t = 1..n /\ \A i \in 1..n : t[i] = s[i + 1]
  <2>1. /\ Head(s) = s[1] /\ t \in Seq(Frame) /\ Len(t) = Len(s) - 1
        /\ \A m \in 1..(Len(s) - 1) : t[m] = s[m + 1]
    BY <1>1, HeadTailProperties
  <2>2. Len(s) - 1 = n
    BY <1>2
  <2> QED BY <2>1, <2>2, LenProperties
<1>4. PICK ks \in [1..(n + 1) -> Unread(q, p)] : Numbers(ks, q, p)
  BY <1>2 DEF Stream
<1>5. 1 \in 1..(n + 1) /\ Unread(q, p) \subseteq Nat
  BY TurnsTyped
<1>6. g \in Unread(q, p) /\ ks[1] = g
  <2>1. ks[1] \in Unread(q, p) /\ g \in Unread(q, p) /\ g <= ks[1] /\ ks[1] \in Nat
    BY <1>4, <1>5
  <2>2. ASSUME g < ks[1] PROVE FALSE
    <3>1. PICK j \in 1..(n + 1) : g = ks[j]
      BY <1>4, <1>5, <2>1, <2>2 DEF Numbers
    <3>2. j = 1 \/ 1 < j
      OBVIOUS
    <3>3. ks[1] <= ks[j]
      BY <1>4, <1>5, <2>1, <3>2 DEF Numbers
    <3> QED BY <2>1, <2>2, <3>1, <3>3
  <2> QED BY <2>1, <2>2
<1>7. Head(s) = FrameOf(q, p, g)
  BY <1>3, <1>4, <1>5, <1>6 DEF Numbers
<1>8. ASSUME plan'[q] = plan[q], in_flight'[<<q, p>>] = Tail(in_flight[<<q, p>>]),
             Unread(q, p)' = Unread(q, p) \ {g}, ~Over(q)' => ~Over(q)
      PROVE  Stream(q, p)'
  <2>1. \A j : FrameOf(q, p, j)' = FrameOf(q, p, j)
    BY <1>8, SameFrames
  <2>2. PICK ls : ls = [i \in 1..n |-> ks[i + 1]]
    OBVIOUS
  <2>3. \A i \in 1..n : i + 1 \in 1..(n + 1) /\ 1 < i + 1
    OBVIOUS
  <2>4. DOMAIN ls = 1..n /\ \A i \in 1..n : ls[i] = ks[i + 1]
    BY <2>2
  <2>5. ls \in [DOMAIN in_flight'[<<q, p>>] -> Unread(q, p)']
    <3>1. ASSUME NEW i \in 1..n PROVE ks[i + 1] \in Unread(q, p)'
      <4>1. ks[i + 1] \in Unread(q, p) /\ ks[1] < ks[i + 1]
        BY <1>4, <1>5, <2>3 DEF Numbers
      <4> QED BY <1>5, <1>6, <1>8, <4>1
    <3> QED BY <1>3, <1>8, <2>2, <3>1
  <2>6. \A i, j \in 1..n : i < j => ls[i] < ls[j]
    <3>1. ASSUME NEW i \in 1..n, NEW j \in 1..n, i < j PROVE ls[i] < ls[j]
      <4>1. i + 1 \in 1..(n + 1) /\ j + 1 \in 1..(n + 1) /\ i + 1 < j + 1
        BY <3>1
      <4>2. ks[i + 1] < ks[j + 1]
        BY <1>4, <4>1 DEF Numbers
      <4> QED BY <2>4, <4>2
    <3> QED BY <3>1
  <2>7. \A i \in 1..n : in_flight'[<<q, p>>][i] = FrameOf(q, p, ls[i])'
    <3>1. ASSUME NEW i \in 1..n PROVE in_flight'[<<q, p>>][i] = FrameOf(q, p, ls[i])'
      <4>1. i + 1 \in 1..(n + 1) /\ ls[i] = ks[i + 1]
        BY <2>4
      <4>2. in_flight'[<<q, p>>][i] = s[i + 1]
        BY <1>3, <1>8
      <4>3. s[i + 1] = FrameOf(q, p, ks[i + 1])
        BY <1>4, <4>1 DEF Numbers
      <4>4. FrameOf(q, p, ls[i])' = FrameOf(q, p, ls[i])
        BY <2>1
      <4> QED BY <4>1, <4>2, <4>3, <4>4
    <3> QED BY <3>1
  <2>8. ASSUME NEW m \in Unread(q, p)', NEW j \in 1..(n + 1), m = ks[j] PROVE \E i \in 1..n : m = ls[i]
    <3>1. j # 1
      BY <1>6, <1>8, <2>8
    <3>2. j - 1 \in 1..n /\ (j - 1) + 1 = j
      BY <3>1
    <3> QED BY <2>4, <2>8, <3>2
  <2>9. ASSUME NEW i \in 1..n, NEW m \in Unread(q, p)', m < ls[i] PROVE \E j \in 1..n : m = ls[j]
    <3>1. m \in Unread(q, p) /\ i + 1 \in 1..(n + 1) /\ m < ks[i + 1]
      BY <1>8, <2>3, <2>4, <2>9
    <3>2. PICK j \in 1..(n + 1) : m = ks[j]
      BY <1>4, <3>1 DEF Numbers
    <3> QED BY <2>8, <3>2
  <2>10. ~Over(q)' => \A m \in Unread(q, p)' : \E j \in 1..n : m = ls[j]
    <3>1. ASSUME ~Over(q)', NEW m \in Unread(q, p)' PROVE \E j \in 1..(n + 1) : m = ks[j]
      BY <1>4, <1>8, <3>1 DEF Numbers
    <3> QED BY <2>8, <3>1
  <2>11. Numbers(ls, q, p)'
    BY <2>4, <2>6, <2>7, <2>9, <2>10 DEF Numbers
  <2> QED BY <2>5, <2>11 DEF Stream
<1> QED BY <1>6, <1>7, <1>8

GivesUp(p) == \E lost \in SUBSET channels[p] : \E abrupt \in BOOLEAN : Stops(p, lost, abrupt)

LEMMA CutOfEmpty == ASSUME NEW s, Cut(s, << >>) PROVE s = << >>
<1>1. << >> \in Seq({}) /\ Len(<< >>) = 0
  BY EmptySeq
<1>2. PICK n \in 0..0 : s = SubSeq(<< >>, 1, n)
  BY <1>1 DEF Cut
<1>3. s = SubSeq(<< >>, 1, 0)
  BY <1>2
<1>4. SubSeq(<< >>, 1, 0) \in Seq({}) /\ Len(SubSeq(<< >>, 1, 0)) = 0
  BY <1>1, SubSeqProperties
<1> QED BY <1>3, <1>4, EmptySeq

LEMMA LinkMoves ==
  ASSUME TypeInv, NEW p \in Parties, PartyMoves(p)
  PROVE  /\ \A l \in Links : l[1] # p /\ l[2] # p => in_flight'[l] = in_flight[l]
         /\ \A r \in Peers(p) : \/ in_flight'[<<p, r>>] = in_flight[<<p, r>>]
                                \/ /\ SendsFrame(p, r) /\ p \in channels[r]
                                   /\ in_flight'[<<p, r>>] = Append(in_flight[<<p, r>>], outbox[p][r])
                                \/ GivesUp(p) /\ Cut(in_flight'[<<p, r>>], in_flight[<<p, r>>])
         /\ \A r \in Peers(p) : \/ in_flight'[<<r, p>>] = in_flight[<<r, p>>]
                                \/ ReadsFrame(p, r) /\ in_flight'[<<r, p>>] = Tail(in_flight[<<r, p>>])
                                \/ /\ SendsFrame(p, r) /\ p \notin channels[r]
                                   /\ Cut(in_flight'[<<r, p>>], in_flight[<<r, p>>])
                                \/ GivesUp(p) /\ in_flight'[<<r, p>>] = << >>
         /\ \A r \in Peers(p) : r \in channels[p] /\ r \notin channels'[p] =>
              GivesUp(p) /\ in_flight'[<<r, p>>] = << >>
         /\ ~GivesUp(p) => channels'[p] = channels[p] /\ status'[p] = status[p]
         /\ channels'[p] \subseteq channels[p]
<1>1. /\ DOMAIN in_flight = Links
      /\ \A r \in Peers(p) : <<p, r>> \in Links /\ <<r, p>> \in Links /\ r \in Parties /\ r # p
  BY DEF TypeInv, AllDomains, Links, Peers
<1>2. CASE GivesUp(p)
  <2>1. PICK lost \in SUBSET channels[p], abrupt \in BOOLEAN : Stops(p, lost, abrupt)
    BY <1>2 DEF GivesUp
  <2>2. lost \in SUBSET Peers(p) /\ Close(p, lost, abrupt) /\ channels'[p] = channels[p] \ lost
    BY <2>1 DEF Stops, TypeInv, PartyTypes
  <2> QED BY <1>2, <2>2, CloseLinks
<1>3. CASE \E q \in Peers(p) : SendsFrame(p, q)
  <2>1. PICK q \in Peers(p) : SendsFrame(p, q)
    BY <1>3
  <2>2. Write(p, q, outbox[p][q]) /\ channels'[p] = channels[p] /\ status'[p] = status[p]
    BY <2>1 DEF SendsFrame, SameEnds
  <2>3. CASE /\ p \in channels[q] /\ in_flight'[<<p, q>>] = Append(in_flight[<<p, q>>], outbox[p][q])
             /\ \A l \in Links : l # <<p, q>> => in_flight'[l] = in_flight[l]
    <3>1. \A r \in Peers(p) : <<r, p>> # <<p, q>> /\ (r # q => <<p, r>> # <<p, q>>)
      BY <1>1
    <3>2. \A l \in Links : l[1] # p => l # <<p, q>>
      OBVIOUS
    <3>3. \A r \in Peers(p) : /\ in_flight'[<<r, p>>] = in_flight[<<r, p>>]
                              /\ r # q => in_flight'[<<p, r>>] = in_flight[<<p, r>>]
      BY <1>1, <2>3, <3>1
    <3>4. \A l \in Links : l[1] # p => in_flight'[l] = in_flight[l]
      BY <2>3, <3>2
    <3> QED BY <2>1, <2>2, <2>3, <3>3, <3>4
  <2>4. CASE /\ p \notin channels[q] /\ Cut(in_flight'[<<q, p>>], in_flight[<<q, p>>])
             /\ \A l \in Links : l # <<q, p>> => in_flight'[l] = in_flight[l]
    <3>1. \A r \in Peers(p) : <<p, r>> # <<q, p>> /\ (r # q => <<r, p>> # <<q, p>>)
      BY <1>1
    <3>2. \A l \in Links : l[2] # p => l # <<q, p>>
      OBVIOUS
    <3>3. \A r \in Peers(p) : /\ in_flight'[<<p, r>>] = in_flight[<<p, r>>]
                              /\ r # q => in_flight'[<<r, p>>] = in_flight[<<r, p>>]
      BY <1>1, <2>4, <3>1
    <3>4. \A l \in Links : l[2] # p => in_flight'[l] = in_flight[l]
      BY <2>4, <3>2
    <3> QED BY <2>1, <2>2, <2>4, <3>3, <3>4
  <2> QED BY <2>2, <2>3, <2>4, WriteLinks
<1>4. CASE \E q \in Peers(p) : ReadsFrame(p, q)
  <2>1. PICK q \in Peers(p) : ReadsFrame(p, q)
    BY <1>4
  <2>2. /\ in_flight' = [in_flight EXCEPT ![<<q, p>>] = Tail(in_flight[<<q, p>>])]
        /\ channels'[p] = channels[p] /\ status'[p] = status[p]
    BY <2>1 DEF ReadsFrame, SameEnds
  <2>3. /\ in_flight'[<<q, p>>] = Tail(in_flight[<<q, p>>])
        /\ \A l \in Links : l # <<q, p>> => in_flight'[l] = in_flight[l]
    BY <1>1, <2>1, <2>2
  <2> QED BY <1>1, <2>1, <2>2, <2>3
<1>5. CASE in_flight' = in_flight /\ channels'[p] = channels[p] /\ status'[p] = status[p]
  BY <1>1, <1>5
<1> QED BY <1>2, <1>3, <1>4, <1>5 DEF PartyMoves, GivesUp, EntersHandshake, EntersPhase, MayEnter, Prepares,
       StartsReading, Compares, StartsSending, EndsRound, EndsPhase, SameEnds

\* The ends of the party that moves, and of the others.
LEMMA MoveEnds ==
  ASSUME TypeInv, MaxRetries = 0, NEW p \in Parties, Alone(p), PartyMoves(p), \A r \in Parties : Ends(r)
  PROVE  \A r \in Parties : Ends(r)'
<1>1. PartyTypes(p) /\ PartyStands(p) /\ Up(p)
  BY DEF TypeInv, PartyMoves, EntersHandshake, EntersPhase, MayEnter, Prepares, SendsFrame, ReadsFrame,
     Stops, StartsReading, Compares, StartsSending, EndsRound, EndsPhase
<1>2. ASSUME execution_state'[p] = "FinishedOffline" PROVE ~Failed(p)'
  <2>1. CASE \E given \in InputLists : Prepares(p, given)
    <3>1. PICK given \in InputLists : Prepares(p, given)
      BY <2>1
    <3>2. PrepareVerdict(p, given) \in {"Ok", "DuplicateInput", "InvalidInputWire", "NotEnoughInputs"}
      BY DEF PrepareVerdict
    <3> QED BY <3>1, <3>2 DEF Prepares, Failed
  <2>2. CASE GivesUp(p)
    <3>1. PICK lost, abrupt : Stops(p, lost, abrupt)
      BY <2>2 DEF GivesUp
    <3>2. execution_state[p] = "FinishedOffline" /\ call[p] = "none"
      BY <1>1, <1>2, <3>1 DEF Stops, PartyStands, PartyTypes
    <3>3. outcome'[p] = outcome[p]
      BY <3>1, <3>2 DEF Stops
    <3> QED BY <3>2, <3>3 DEF Ends, Failed
  <2>3. CASE EndsPhase(p)
    BY <2>3 DEF EndsPhase, Failed
  <2>4. CASE \/ EntersHandshake(p) \/ EntersPhase(p) \/ StartsReading(p) \/ StartsSending(p) \/ EndsRound(p)
             \/ \E q \in Peers(p) : SendsFrame(p, q) \/ ReadsFrame(p, q)
    <3>1. execution_state'[p] = execution_state[p] /\ (outcome'[p] = outcome[p] \/ outcome'[p] = "none")
      BY <2>4 DEF EntersHandshake, EntersPhase, MayEnter, SendsFrame, ReadsFrame, StartsReading,
         StartsSending, EndsRound, SamePlan, SameResult
    <3> QED BY <1>2, <3>1 DEF Ends, Failed
  <2>5. CASE Compares(p)
    BY <1>1, <1>2, <2>5 DEF Compares, PartyStands
  <2> QED BY <2>1, <2>2, <2>3, <2>4, <2>5 DEF PartyMoves, GivesUp
<1>3. ASSUME ~Over(p)' PROVE channels'[p] = Peers(p)
  <2>1. ~Over(p) /\ ~GivesUp(p)
    BY <1>3, OverMoves DEF GivesUp
  <2> QED BY <2>1, LinkMoves DEF Ends
<1>4. ASSUME ~Up(p)' PROVE channels'[p] = {}
  <2>1. GivesUp(p)
    BY <1>1, <1>4, LinkMoves DEF Up
  <2>2. PICK lost, abrupt : Stops(p, lost, abrupt)
    BY <2>1 DEF GivesUp
  <2> QED BY <1>1, <1>4, <2>2 DEF Stops, Up
<1>5. ASSUME NEW q \in Peers(p), q \notin channels'[p] PROVE in_flight'[<<q, p>>] = << >>
  <2>1. CASE q \in channels[p]
    BY <1>5, <2>1, LinkMoves
  <2>2. CASE q \notin channels[p]
    <3>1. in_flight[<<q, p>>] = << >> /\ ~ReadsFrame(p, q)
      BY <2>2 DEF Ends, ReadsFrame
    <3> QED BY <3>1, LinkMoves, CutOfEmpty
  <2> QED BY <2>1, <2>2
<1>6. ASSUME NEW r \in Parties, r # p PROVE Ends(r)'
  <2>1. /\ execution_state'[r] = execution_state[r] /\ channels'[r] = channels[r]
        /\ status'[r] = status[r] /\ outcome'[r] = outcome[r]
    BY <1>6 DEF Alone, Same, SamePlan, SameEnds, SameResult
  <2>2. ASSUME NEW q \in Peers(r), q \notin channels[r] PROVE in_flight'[<<q, r>>] = << >>
    <3>1. in_flight[<<q, r>>] = << >> /\ q \in Parties /\ q # r /\ <<q, r>> \in Links
      BY <2>2 DEF Ends, Peers, Links
    <3>2. CASE q = p
      <4>1. r \in Peers(p)
        BY <1>6 DEF Peers
      <4> QED BY <2>2, <3>1, <3>2, <4>1, LinkMoves, CutOfEmpty
    <3>3. CASE q # p
      BY <1>6, <3>1, <3>3, LinkMoves
    <3> QED BY <3>2, <3>3
  <2> QED BY <2>1, <2>2 DEF Ends, Over, Up, Failed
<1>7. Ends(p)'
  BY <1>2, <1>3, <1>4, <1>5 DEF Ends
<1> QED BY <1>6, <1>7

\* What the parties that do not move have written and read.
LEMMA SameProgress ==
  ASSUME TypeInv, NEW r \in Parties, Same(r)
  PROVE  /\ Progress(r)' = Progress(r) /\ Over(r)' = Over(r)
         /\ \A p, j : Wrote(r, p, j)' = Wrote(r, p, j)
         /\ \A q, j : HasRead(r, q, j)' = HasRead(r, q, j)
<1>1. /\ plan'[r] = plan[r] /\ call'[r] = call[r] /\ round'[r] = round[r] /\ step'[r] = step[r]
      /\ execution_state'[r] = execution_state[r] /\ awaiting'[r] = awaiting[r]
      /\ outbox'[r] = outbox[r] /\ status'[r] = status[r] /\ outcome'[r] = outcome[r]
  BY DEF Same, SamePlan, SamePosition, SameReads, SameBatch, SameEnds, SameResult
<1>2. Progress(r)' = Progress(r)
  <2>1. InPhase(r)' = InPhase(r)
    BY <1>1 DEF InPhase
  <2>2. PartyTypes(r) /\ ProgressRight(r) /\ ProgressRight(r)'
    BY ProgressIs DEF TypeInv
  <2> QED BY <1>1, <2>1, <2>2 DEF ProgressRight, PartyTypes
<1>3. Over(r)' = Over(r)
  BY <1>1 DEF Over, Up, Failed
<1>4. \A p, j : Wrote(r, p, j)' = Wrote(r, p, j)
  BY <1>1, <1>2, <1>3 DEF Wrote
<1>5. \A q, j : HasRead(r, q, j)' = HasRead(r, q, j)
  BY <1>1, <1>2 DEF HasRead
<1> QED BY <1>2, <1>3, <1>4, <1>5

\* The frame that a party reads is that of the exchange in hand.
LEMMA ReadsRight ==
  ASSUME RunInv, NEW p \in Parties, NEW q \in Peers(p), ReadsFrame(p, q)
  PROVE  /\ Progress(p) \in Unread(q, p) /\ \A m \in Unread(q, p) : Progress(p) <= m
         /\ Head(in_flight[<<q, p>>]) = FrameOf(q, p, Progress(p))
         /\ Stream(q, p) /\ in_flight[<<q, p>>] # << >> /\ q \in Parties /\ p \in Peers(q)
<1>1. /\ TypeInv /\ PlanAgreement /\ plan[p] \in Plans /\ PartyTypes(p) /\ PartyStands(p)
      /\ q \in Parties /\ p \in Peers(q) /\ q # p
  BY DEF RunInv, AgreeInv, InputInv, TypeInv, Peers
<1>2. /\ step[p] = "recv" /\ q \in awaiting[p] /\ in_flight[<<q, p>>] # << >> /\ q \in Wanted(p)
      /\ ~Over(p)
  BY <1>1 DEF ReadsFrame, PartyStands, Over, Failed, Up
<1>3. Stream(q, p)
  BY <1>2 DEF RunInv, StreamInv
<1>4. PICK g \in Nat : g = Progress(p)
  BY <1>1, ProgressStands
<1>5. g \in Turns(q)
  <2>1. CASE call[p] = "handshake"
    <3>1. plan[q] \in Plans
      BY <1>1 DEF TypeInv
    <3>2. 0 \in 0..Len(RoundsInOrder(plan[q]))
      BY <3>1, RoundsTyped
    <3> QED BY <1>1, <1>4, <2>1, <3>2, ProgressStands DEF Turns
  <2>2. CASE call[p] # "handshake"
    <3>1. call[p] \in Phases /\ round[p] <= Len(Rounds(p))
      BY <1>1, <1>2, <2>2 DEF PartyStands, PartyTypes, Phases
    <3>2. plan[q] = plan[p]
      BY <1>1, <3>1 DEF PlanAgreement, PartyStands, Phases
    <3>3. q \in Senders(p)
      BY <1>2, <2>2 DEF Wanted
    <3> QED BY <1>1, <1>4, <3>1, <3>2, <3>3, RoundTurns
  <2> QED BY <2>1, <2>2
<1>6. ~HasRead(p, q, g)
  BY <1>2, <1>4 DEF HasRead
<1>7. ASSUME NEW m \in Unread(q, p) PROVE g \in Unread(q, p) /\ g <= m
  <2>1. m \in Nat /\ Wrote(q, p, m) /\ ~HasRead(p, q, m)
    BY <1>1, TurnsTyped DEF Unread
  <2>2. g <= m
    BY <1>4, <2>1 DEF HasRead
  <2>3. PICK h \in Nat : h = Progress(q)
    BY <1>1, ProgressStands DEF TypeInv
  <2>4. Wrote(q, p, g)
    <3>1. m <= h
      BY <2>1, <2>3 DEF Wrote
    <3>2. g = m \/ g < h
      BY <2>1, <2>2, <3>1
    <3> QED BY <2>1, <2>3, <3>2 DEF Wrote
  <2> QED BY <1>5, <1>6, <2>2, <2>4 DEF Unread
<1>8. g \in Unread(q, p) /\ Head(in_flight[<<q, p>>]) = FrameOf(q, p, g)
  BY <1>1, <1>2, <1>3, <1>7, StreamHead
<1> QED BY <1>1, <1>2, <1>3, <1>4, <1>7, <1>8

\* A step of the reader.
LEMMA ReaderKeeps ==
  ASSUME RunInv, MaxRetries = 0, NEW p \in Parties, Alone(p), PartyMoves(p), NEW q \in Peers(p)
  PROVE  NoGap(q, p)' /\ (~Over(p)' => Stream(q, p)')
<1>1. /\ TypeInv /\ PlanAgreement /\ plan[p] \in Plans /\ PartyTypes(p) /\ PartyStands(p) /\ Ends(p) /\ Ends(q)
      /\ q \in Parties /\ p \in Peers(q) /\ q # p /\ NoGap(q, p)
      /\ Turns(q) \subseteq Nat /\ Unread(q, p) \subseteq Nat
  BY TurnsTyped DEF RunInv, AgreeInv, InputInv, TypeInv, Peers, StreamInv
<1>2. /\ plan'[q] = plan[q] /\ Over(q)' = Over(q)
      /\ \A j : Wrote(q, p, j)' = Wrote(q, p, j)
  BY <1>1, SameProgress DEF Alone, Same, SamePlan
<1>3. Turns(q)' = Turns(q)
  BY <1>2, SameFrames
<1>4. CASE Over(p)'
  <2>1. Progress(p)' = Progress(p) /\ step'[p] # "recv"
    <3>1. CASE GivesUp(p)
      <4>1. PICK lost, abrupt : Stops(p, lost, abrupt)
        BY <3>1 DEF GivesUp
      <4>2. call'[p] = "none" /\ step'[p] = "idle" /\ execution_state'[p] = execution_state[p]
        BY <4>1 DEF Stops
      <4>3. ~EndsRound(p) /\ ~(Compares(p) /\ execution_state'[p] = "Handshaked")
        BY <1>1, <4>2 DEF EndsRound, Compares, PartyStands, Phases
      <4> QED BY <1>1, <4>2, <4>3, ProgressMoves
    <3>2. CASE Compares(p) /\ execution_state'[p] # "Handshaked"
      <4>1. ~EndsRound(p) /\ step'[p] = "idle"
        BY <3>2 DEF EndsRound, Compares, Phases
      <4> QED BY <1>1, <3>2, <4>1, ProgressMoves
    <3> QED BY <1>1, <1>4, <3>1, <3>2, OverMoves DEF GivesUp
  <2>2. \A j \in Turns(q) : HasRead(p, q, j)' => HasRead(p, q, j)
    BY <2>1 DEF HasRead
  <2> QED BY <1>1, <1>2, <1>3, <1>4, <2>2 DEF NoGap
<1>5. CASE ~Over(p)' /\ ReadsFrame(p, q)
  <2>1. PICK g \in Nat : g = Progress(p)
    BY <1>1, ProgressStands
  <2>2. /\ g \in Unread(q, p) /\ \A m \in Unread(q, p) : g \in Unread(q, p) /\ g <= m
        /\ Stream(q, p) /\ in_flight[<<q, p>>] # << >>
    BY <2>1, <1>5, ReadsRight
  <2>3. \A j \in Turns(q) : HasRead(p, q, j)' <=> HasRead(p, q, j) \/ j = g
    BY <1>1, <1>5, <2>1, MoveReads
  <2>4. NoGap(q, p)'
    BY <1>1, <1>2, <1>3, <2>2, <2>3 DEF NoGap, Unread
  <2>5. Unread(q, p)' = Unread(q, p) \ {g}
    BY <1>2, <1>3, <2>3 DEF Unread
  <2>6. in_flight'[<<q, p>>] = Tail(in_flight[<<q, p>>])
    <3>1. <<q, p>> \in DOMAIN in_flight
      BY <1>1 DEF TypeInv, AllDomains, Links
    <3> QED BY <1>5, <3>1 DEF ReadsFrame
  <2>7. Stream(q, p)'
    BY <1>1, <1>2, <2>2, <2>5, <2>6, StreamHead
  <2> QED BY <2>4, <2>7
<1>6. CASE ~Over(p)' /\ ~ReadsFrame(p, q)
  <2>1. \A j \in Turns(q) : HasRead(p, q, j)' <=> HasRead(p, q, j)
    BY <1>1, <1>6, MoveReads
  <2>2. NoGap(q, p)' /\ Unread(q, p)' = Unread(q, p)
    BY <1>1, <1>2, <1>3, <2>1 DEF NoGap, Unread
  <2>3. ~Over(p) /\ ~GivesUp(p)
    BY <1>1, <1>6, OverMoves DEF GivesUp
  <2>4. Stream(q, p)
    BY <1>1, <2>3 DEF RunInv, StreamInv
  <2>5. \/ in_flight'[<<q, p>>] = in_flight[<<q, p>>]
        \/ p \notin channels[q] /\ Cut(in_flight'[<<q, p>>], in_flight[<<q, p>>])
    BY <1>1, <1>6, <2>3, LinkMoves
  <2>6. p \notin channels[q] => Over(q)
    BY <1>1 DEF Ends
  <2>7. in_flight[<<q, p>>] \in Seq(Frame)
    BY <1>1 DEF TypeInv, LinksTyped, Links
  <2>8. Cut(in_flight'[<<q, p>>], in_flight[<<q, p>>])
    BY <2>5, <2>7, CutOfSelf
  <2>9. Stream(q, p)'
    BY <1>1, <1>2, <2>2, <2>4, <2>5, <2>6, <2>8, StreamCut
  <2> QED BY <2>2, <2>9
<1> QED BY <1>4, <1>5, <1>6

\* A step of the writer.
LEMMA WriterKeeps ==
  ASSUME RunInv, MaxRetries = 0, NEW q \in Parties, Alone(q), PartyMoves(q), NEW p \in Peers(q)
  PROVE  NoGap(q, p)' /\ (~Over(p)' => Stream(q, p)')
<1>1. /\ TypeInv /\ PlanAgreement /\ plan[q] \in Plans /\ PartyTypes(q) /\ PartyStands(q) /\ Ends(p) /\ Ends(q)
      /\ Batches(q)
      /\ p \in Parties /\ q \in Peers(p) /\ q # p /\ NoGap(q, p)
      /\ Turns(q) \subseteq Nat /\ Unread(q, p) \subseteq Nat
  BY TurnsTyped DEF RunInv, AgreeInv, InputInv, TypeInv, Peers, StreamInv
<1>2. plan'[q] = plan[q]
  BY <1>1, MoveTypes
<1>3. /\ Over(p)' = Over(p)
      /\ \A j : HasRead(p, q, j)' = HasRead(p, q, j)
  BY <1>1, SameProgress DEF Alone
<1>4. Turns(q)' = Turns(q)
  BY <1>2, SameFrames
<1>5. PICK g \in Nat : g = Progress(q)
  BY <1>1, ProgressStands
<1>6. \A j \in Turns(q) : Wrote(q, p, j)' <=> (Wrote(q, p, j) \/ (j = g /\ (SendsFrame(q, p) \/ Over(q)')))
  BY <1>1, <1>5, MoveWrites
<1>7. NoGap(q, p)'
  BY <1>1, <1>3, <1>4, <1>6 DEF NoGap
<1> SUFFICES ASSUME ~Over(p)' PROVE Stream(q, p)'
  BY <1>7
<1>8. ~Over(p) /\ Stream(q, p) /\ channels[p] = Peers(p) /\ q \in channels[p]
  BY <1>1, <1>3 DEF RunInv, StreamInv, Ends
<1>9. \A m \in Unread(q, p) : m <= g
  BY <1>1, <1>5 DEF Unread, Wrote
<1>10. in_flight[<<q, p>>] \in Seq(Frame)
  BY <1>1 DEF TypeInv, LinksTyped, Links
<1>11. CASE SendsFrame(q, p)
  <2>1. step[q] \in {"broadcast", "send"} /\ p \in DOMAIN outbox[q]
    BY <1>11 DEF SendsFrame
  <2>2. ~Over(q)
    BY <1>1, <2>1, OverMoves
  <2>3. outbox[q][p] = FrameOf(q, p, g) /\ g \in Turns(q)
    BY <1>1, <1>5, <2>1 DEF Batches
  <2>4. in_flight'[<<q, p>>] = Append(in_flight[<<q, p>>], FrameOf(q, p, g))
    <3>1. Write(q, p, outbox[q][p])
      BY <1>11 DEF SendsFrame
    <3> QED BY <1>1, <1>8, <2>3, <3>1, WriteLinks
  <2>5. ~Wrote(q, p, g)
    BY <1>5, <2>1, <2>2 DEF Wrote
  <2>6. ~HasRead(p, q, g)
    BY <1>1, <2>3, <2>5 DEF NoGap
  <2>7. Unread(q, p)' = Unread(q, p) \cup {g}
    <3>1. \A j \in Turns(q) : Wrote(q, p, j)' <=> Wrote(q, p, j) \/ j = g
      <4>1. ~Over(q)'
        BY <1>1, <1>11, <2>1, <2>2 DEF SendsFrame, SameEnds, SameResult, Over, Up, Failed
      <4> QED BY <1>6, <1>11, <4>1
    <3> QED BY <1>3, <1>4, <2>3, <2>6, <3>1 DEF Unread
  <2>8. \A m \in Unread(q, p) : m < g
    <3>1. \A m \in Unread(q, p) : m # g
      BY <2>5 DEF Unread
    <3> QED BY <1>1, <1>9, <3>1
  <2> QED BY <1>1, <1>2, <1>8, <2>2, <2>4, <2>7, <2>8, StreamAppend
<1>12. CASE ~SendsFrame(q, p)
  <2>1. \/ in_flight'[<<q, p>>] = in_flight[<<q, p>>]
        \/ GivesUp(q) /\ Cut(in_flight'[<<q, p>>], in_flight[<<q, p>>])
    BY <1>1, <1>12, LinkMoves
  <2>2. Cut(in_flight'[<<q, p>>], in_flight[<<q, p>>])
    BY <1>10, <2>1, CutOfSelf
  <2>3. GivesUp(q) => Over(q)'
    BY <1>1, OverMoves DEF GivesUp
  <2>4. ~Over(q)' => ~Over(q) /\ Unread(q, p)' = Unread(q, p)
    BY <1>1, <1>3, <1>4, <1>6, <1>12, OverMoves DEF Unread
  <2>5. Unread(q, p) \subseteq Unread(q, p)'
    BY <1>3, <1>4, <1>6 DEF Unread
  <2>6. ASSUME NEW m \in Unread(q, p)', NEW k \in Unread(q, p), m < k PROVE m \in Unread(q, p)
    <3>1. m # g
      BY <1>1, <1>9, <2>6
    <3> QED BY <1>3, <1>4, <1>6, <3>1 DEF Unread
  <2> QED BY <1>1, <1>2, <1>8, <2>1, <2>2, <2>3, <2>4, <2>5, <2>6, StreamCut
<1> QED BY <1>11, <1>12

\* A step of a third party.
LEMMA OthersKeep ==
  ASSUME RunInv, NEW r \in Parties, Alone(r), PartyMoves(r),
         NEW p \in Parties, NEW q \in Peers(p), p # r, q # r
  PROVE  NoGap(q, p)' /\ (~Over(p)' => Stream(q, p)')
<1>1. /\ TypeInv /\ q \in Parties /\ p \in Peers(q) /\ q # p /\ NoGap(q, p)
  BY DEF RunInv, InputInv, Peers, StreamInv
<1>2. /\ plan'[q] = plan[q] /\ Over(p)' = Over(p) /\ Over(q)' = Over(q)
      /\ \A j : HasRead(p, q, j)' = HasRead(p, q, j)
      /\ \A j : Wrote(q, p, j)' = Wrote(q, p, j)
  BY <1>1, SameProgress DEF Alone, Same, SamePlan
<1>3. Turns(q)' = Turns(q)
  BY <1>2, SameFrames
<1>4. Unread(q, p)' = Unread(q, p) /\ NoGap(q, p)'
  BY <1>1, <1>2, <1>3 DEF Unread, NoGap
<1>5. in_flight'[<<q, p>>] = in_flight[<<q, p>>] /\ in_flight[<<q, p>>] \in Seq(Frame)
  <2>1. <<q, p>> \in Links
    BY <1>1 DEF Links
  <2> QED BY <1>1, <2>1, LinkMoves DEF TypeInv, LinksTyped
<1>6. ASSUME ~Over(p)' PROVE Stream(q, p)'
  <2>1. Stream(q, p)
    BY <1>2, <1>6 DEF RunInv, StreamInv
  <2>2. Cut(in_flight'[<<q, p>>], in_flight[<<q, p>>])
    BY <1>5, CutOfSelf
  <2> QED BY <1>1, <1>2, <1>4, <1>5, <2>1, <2>2, StreamCut
<1> QED BY <1>4, <1>6

\* What a batch holds, with the exchange in hand given.
LEMMA BatchesAt ==
  ASSUME NEW p, NEW g, g = Progress(p)'
  PROVE  /\ \A q \in DOMAIN outbox'[p] : g \in Turns(p)' /\ outbox'[p][q] = FrameOf(p, q, g)'
         /\ \A q \in DOMAIN inbox'[p] : inbox'[p][q] = FrameOf(q, p, g)'
         => Batches(p)'
BY DEF Batches

\* The frames that StartsSending gets ready are those of the exchange in hand.
LEMMA SendsRight ==
  ASSUME InputInv, NEW p \in Parties, StartsSending(p), NEW q \in Receivers(p), NEW g \in Nat, g = Progress(p)
  PROVE  g \in Turns(p) /\ DataFrame(Batch(p, q)) = FrameOf(p, q, g)
<1> DEFINE ops == NetworkOps(p)
           sending == {k \in DOMAIN ops : Sends(ops[k], p)}
<1>1. /\ TypeInv /\ InputsKept(p) /\ plan[p] \in Plans /\ PartyTypes(p) /\ PartyStands(p)
      /\ call[p] \in Phases /\ round[p] <= Len(Rounds(p)) /\ q \in Peers(p)
  BY DEF InputInv, TypeInv, PartyStands, StartsSending, Receivers
<1>2. /\ g \in 1..Len(RoundsInOrder(plan[p])) /\ RoundsInOrder(plan[p])[g] = Current(p)
  BY <1>1, ProgressStands
<1>3. OpsAt(p, g) = ops /\ Sending(p, g) = sending
  BY <1>2 DEF OpsAt, NetworkOps, Sending
<1>4. g \in Turns(p)
  <2>1. \E op \in Range(ops) : Sends(op, p)
    BY DEF Receivers
  <2>2. sending # {}
    BY <2>1 DEF Range
  <2>3. g \in 0..Len(RoundsInOrder(plan[p]))
    BY <1>2, RoundsTyped, <1>1
  <2> QED BY <1>3, <2>2, <2>3 DEF Turns
<1>5. Clean(DataFrame(Batch(p, q)))
  BY <1>1, BatchClean
<1>6. \A n \in 1..Cardinality(sending) : ~Batch(p, q)[n].default
  <2>1. DOMAIN Batch(p, q) = 1..Cardinality(sending)
    BY DEF Batch
  <2>2. \A s \in Range(Batch(p, q)) : ~s.default
    BY <1>5 DEF Clean, DataFrame
  <2> QED BY <2>1, <2>2 DEF Range
<1>7. ASSUME NEW n \in 1..Cardinality(sending)
      PROVE  Batch(p, q)[n] = Share(ops[Nth(sending, n)].output, p, q, FALSE)
  <2>1. PICK op : op = ops[Nth(sending, n)]
    OBVIOUS
  <2>2. PICK d \in BOOLEAN : d = (IsInputOf(op, p) /\ op.output \notin user_inputs[p])
    OBVIOUS
  <2>3. Batch(p, q)[n] = Share(op.output, p, q, d)
    BY <2>1, <2>2 DEF Batch
  <2>4. ~d
    BY <1>6, <2>3 DEF Share
  <2> QED BY <2>1, <2>3, <2>4
<1>8. Batch(p, q) = [n \in 1..Cardinality(sending) |-> Batch(p, q)[n]]
  BY DEF Batch
<1>9. Batch(p, q) = [n \in 1..Cardinality(sending) |-> Share(ops[Nth(sending, n)].output, p, q, FALSE)]
  BY <1>7, <1>8
<1>10. g # 0
  BY <1>2
<1> QED BY <1>3, <1>4, <1>9, <1>10 DEF FrameOf

LEMMA BatchesKeep ==
  ASSUME RunInv, MaxRetries = 0, NEW p \in Parties, Alone(p), PartyMoves(p)
  PROVE  \A r \in Parties : Batches(r)'
<1>1. /\ TypeInv /\ InputInv /\ plan[p] \in Plans /\ PartyTypes(p) /\ PartyStands(p)
      /\ \A r \in Parties : Batches(r) /\ plan'[r] = plan[r]
  BY MoveTypes DEF RunInv, AgreeInv, InputInv, TypeInv, StreamInv, Alone, Same, SamePlan
<1>2. ASSUME NEW r \in Parties, NEW g
      PROVE  Turns(r)' = Turns(r) /\ \A q : FrameOf(r, q, g)' = FrameOf(r, q, g)
  BY <1>1, SameFrames
<1>3. ASSUME NEW r \in Parties, r # p PROVE Batches(r)'
  <2>1. outbox'[r] = outbox[r] /\ inbox'[r] = inbox[r] /\ Same(r)
    BY <1>3 DEF Alone, Same, SameBatch, SameReads
  <2>2. PICK g \in Nat : g = Progress(r)
    BY <1>1, ProgressStands DEF TypeInv
  <2>3. g = Progress(r)'
    BY <1>1, <2>1, <2>2, SameProgress
  <2>4. /\ \A q \in DOMAIN outbox[r] : g \in Turns(r) /\ outbox[r][q] = FrameOf(r, q, g)
        /\ \A q \in DOMAIN inbox[r] : q \in Parties /\ inbox[r][q] = FrameOf(q, r, g)
    BY <1>1, <2>2 DEF Batches, TypeInv, PartyTypes, Peers
  <2> QED BY <1>2, <2>1, <2>3, <2>4, BatchesAt
<1>4. PICK g \in Nat : g = Progress(p)
  BY <1>1, ProgressStands
<1>5. /\ \A q \in DOMAIN outbox[p] : g \in Turns(p) /\ outbox[p][q] = FrameOf(p, q, g)
      /\ \A q \in DOMAIN inbox[p] : q \in Parties /\ inbox[p][q] = FrameOf(q, p, g)
  BY <1>1, <1>4 DEF Batches, PartyTypes, Peers
<1> SUFFICES Batches(p)'
  BY <1>3
<1>6. CASE DOMAIN outbox'[p] = {} /\ DOMAIN inbox'[p] = {}
  BY <1>6 DEF Batches
<1>7. CASE EntersHandshake(p)
  <2>1. /\ step[p] = "idle" /\ execution_state[p] = "NewBorn" /\ inbox'[p] = inbox[p]
        /\ outbox'[p] = [q \in Peers(p) |-> HashFrame(plan[p])]
    BY <1>1, <1>7 DEF EntersHandshake, MayEnter, SameReads, PartyStands
  <2>2. ~EndsRound(p) /\ ~Compares(p) /\ g = 0 /\ DOMAIN inbox[p] = {}
    BY <1>1, <1>4, <2>1, ProgressStands DEF EndsRound, Compares, PartyStands
  <2>3. g = Progress(p)'
    BY <1>1, <1>4, <2>2, ProgressMoves
  <2>4. 0 \in Turns(p) /\ \A q : FrameOf(p, q, 0) = HashFrame(plan[p])
    <3>1. 0 \in 0..Len(RoundsInOrder(plan[p]))
      BY <1>1, RoundsTyped
    <3> QED BY <3>1 DEF Turns, FrameOf
  <2> QED BY <1>2, <2>1, <2>2, <2>3, <2>4, BatchesAt
<1>8. CASE \E q \in Peers(p) : SendsFrame(p, q)
  <2>1. PICK q \in Peers(p) : SendsFrame(p, q)
    BY <1>8
  <2>2. /\ inbox'[p] = inbox[p] /\ outbox'[p] = [r \in DOMAIN outbox[p] \ {q} |-> outbox[p][r]]
        /\ step[p] # "recv"
    BY <2>1 DEF SendsFrame, SameReads
  <2>3. ~EndsRound(p) /\ ~Compares(p)
    BY <2>2 DEF EndsRound, Compares
  <2>4. g = Progress(p)'
    BY <1>1, <1>4, <1>8, <2>3, ProgressMoves
  <2> QED BY <1>2, <1>5, <2>2, <2>4, BatchesAt
<1>9. CASE \E q \in Peers(p) : ReadsFrame(p, q)
  <2>1. PICK q \in Peers(p) : ReadsFrame(p, q)
    BY <1>9
  <2>2. /\ outbox'[p] = outbox[p] /\ DOMAIN inbox'[p] = DOMAIN inbox[p] \cup {q}
        /\ \A r \in DOMAIN inbox'[p] :
             inbox'[p][r] = IF r = q THEN Head(in_flight[<<q, p>>]) ELSE inbox[p][r]
        /\ step[p] = "recv" /\ awaiting[p] # {}
    BY <2>1 DEF ReadsFrame
  <2>3. ~EndsRound(p) /\ ~Compares(p)
    BY <2>2 DEF EndsRound, Compares
  <2>4. g = Progress(p)'
    BY <1>1, <1>4, <1>9, <2>3, ProgressMoves
  <2>5. Head(in_flight[<<q, p>>]) = FrameOf(q, p, g) /\ q \in Parties
    BY <1>4, <2>1, ReadsRight
  <2> QED BY <1>2, <1>5, <2>2, <2>4, <2>5, BatchesAt
<1>10. CASE StartsSending(p)
  <2>1. /\ inbox'[p] = inbox[p] /\ outbox'[p] = [q \in Receivers(p) |-> DataFrame(Batch(p, q))]
        /\ step[p] = "round"
    BY <1>10 DEF StartsSending, SameReads
  <2>2. ~EndsRound(p) /\ ~Compares(p) /\ DOMAIN inbox[p] = {}
    BY <1>1, <2>1 DEF EndsRound, Compares, PartyStands
  <2>3. g = Progress(p)'
    BY <1>1, <1>4, <1>10, <2>2, ProgressMoves
  <2>4. \A q \in Receivers(p) : g \in Turns(p) /\ DataFrame(Batch(p, q)) = FrameOf(p, q, g)
    BY <1>1, <1>4, <1>10, SendsRight
  <2> QED BY <1>2, <2>1, <2>2, <2>3, <2>4, BatchesAt
<1>11. CASE \/ EntersPhase(p) \/ (\E given \in InputLists : Prepares(p, given)) \/ StartsReading(p)
            \/ Compares(p) \/ EndsRound(p) \/ EndsPhase(p)
            \/ \E lost \in SUBSET channels[p] : \E abrupt \in BOOLEAN : Stops(p, lost, abrupt)
  <2>1. \/ outbox'[p] = << >> /\ inbox'[p] = << >>
        \/ /\ outbox'[p] = outbox[p] /\ inbox'[p] = inbox[p]
           /\ step[p] = "idle" \/ (step[p] # "recv" /\ DOMAIN outbox[p] = {})
    BY <1>1, <1>11 DEF EntersPhase, MayEnter, Prepares, StartsReading, Compares, EndsRound, EndsPhase,
       Stops, BatchCleared, SameBatch, SameReads, PartyStands
  <2> QED BY <1>1, <1>6, <2>1 DEF PartyStands
<1> QED BY <1>1, <1>7, <1>8, <1>9, <1>10, <1>11 DEF PartyMoves

LEMMA InitRun == Init => RunInv
<1> SUFFICES ASSUME Init PROVE RunInv
  OBVIOUS
<1>1. AgreeInv /\ InputInv
  <2>1. LinksClean /\ \A p \in Parties : OutboxClean(p) /\ InputsKept(p)
    BY DEF Init, InitContexts, LinksClean, OutboxClean, InputsKept, Range
  <2> QED BY <2>1, InitTypes, InitAgree DEF InputInv
<1>2. ASSUME NEW p \in Parties PROVE Progress(p) = 0 /\ ~Over(p) /\ Ends(p) /\ Batches(p)
  <2>1. PartyTypes(p) /\ PartyStands(p) /\ plan[p] \in Plans
    BY <1>1 DEF InputInv, TypeInv
  <2>2. execution_state[p] = "NewBorn"
    BY DEF Init, InitContexts
  <2>3. ~Over(p)
    BY DEF Init, InitContexts, Over, Up, Failed
  <2>4. Ends(p)
    BY <2>2, <2>3 DEF Init, InitContexts, Ends, Over
  <2>5. Batches(p)
    BY DEF Init, InitContexts, Batches
  <2> QED BY <2>1, <2>2, <2>3, <2>4, <2>5, ProgressStands
<1>3. ASSUME NEW p \in Parties, NEW q \in Peers(p) PROVE NoGap(q, p) /\ Stream(q, p)
  <2>1. q \in Parties /\ <<q, p>> \in Links /\ Turns(q) \subseteq Nat
    BY <1>1, TurnsTyped DEF Peers, Links, InputInv
  <2>2. step[p] = "idle" /\ step[q] = "idle" /\ in_flight[<<q, p>>] = << >>
    BY <2>1 DEF Init, InitContexts
  <2>3. \A j \in Turns(q) : ~HasRead(p, q, j) /\ ~Wrote(q, p, j)
    BY <1>2, <2>1, <2>2 DEF HasRead, Wrote
  <2>4. NoGap(q, p) /\ Unread(q, p) = {}
    BY <2>3 DEF NoGap, Unread
  <2>5. Numbers(<< >>, q, p) /\ << >> \in [DOMAIN in_flight[<<q, p>>] -> Unread(q, p)]
    BY <2>2, <2>4 DEF Numbers
  <2> QED BY <2>4, <2>5 DEF Stream
<1> QED BY <1>1, <1>2, <1>3 DEF RunInv, StreamInv

\* What all steps keep, the parties being unable to try a failed call again.
LEMMA NextRun == ASSUME MaxRetries = 0 PROVE RunInv /\ [Next]_vars => RunInv'
<1>1. ASSUME RunInv, Next PROVE RunInv'
  <2>1. PICK r \in Parties : Alone(r) /\ PartyMoves(r)
    BY <1>1, Moves DEF RunInv, InputInv
  <2>2. AgreeInv' /\ InputInv'
    BY <1>1, NextAgree, NextInputs DEF RunInv
  <2>3. \A p \in Parties : Ends(p)' /\ Batches(p)'
    BY <1>1, <2>1, MoveEnds, BatchesKeep DEF RunInv, InputInv, StreamInv
  <2>4. ASSUME NEW p \in Parties, NEW q \in Peers(p) PROVE NoGap(q, p)' /\ (~Over(p)' => Stream(q, p)')
    <3>1. CASE r = p
      BY <1>1, <2>1, <3>1, ReaderKeeps
    <3>2. CASE r = q
      <4>1. p \in Peers(q)
        BY DEF Peers
      <4> QED BY <1>1, <2>1, <3>2, <4>1, WriterKeeps
    <3>3. CASE r # p /\ r # q
      BY <1>1, <2>1, <3>3, OthersKeep
    <3> QED BY <3>1, <3>2, <3>3
  <2> QED BY <2>2, <2>3, <2>4 DEF RunInv, StreamInv
<1>2. ASSUME RunInv, UNCHANGED vars PROVE RunInv'
  <2>1. /\ \A r \in Parties : Same(r)
        /\ in_flight' = in_flight /\ plan' = plan
    BY <1>2 DEF vars, program, position, batch, net, Same, SamePlan, SameData, SamePosition, SameReads,
       SameBatch, SameEnds, SameResult
  <2>2. AgreeInv' /\ InputInv' /\ TypeInv
    BY <1>2, NextAgree, NextInputs DEF RunInv, InputInv
  <2>3. ASSUME NEW p \in Parties
        PROVE /\ Progress(p)' = Progress(p) /\ Over(p)' = Over(p)
              /\ \A r, j : Wrote(p, r, j)' = Wrote(p, r, j)
              /\ \A r, j : HasRead(p, r, j)' = HasRead(p, r, j)
    BY <2>1, <2>2, SameProgress
  <2>4. ASSUME NEW r \in Parties, NEW g
        PROVE  Turns(r)' = Turns(r) /\ \A q : FrameOf(r, q, g)' = FrameOf(r, q, g)
    BY <2>1, SameFrames
  <2>5. ASSUME NEW p \in Parties PROVE Ends(p)'
    <3>1. Ends(p) /\ channels'[p] = channels[p] /\ status'[p] = status[p]
          /\ execution_state'[p] = execution_state[p] /\ outcome'[p] = outcome[p]
      BY <1>2, <2>1 DEF RunInv, StreamInv, Same, SameEnds, SamePlan, SameResult
    <3> QED BY <2>1, <2>3, <3>1 DEF Ends, Failed, Up
  <2>6. ASSUME NEW p \in Parties PROVE Batches(p)'
    <3>1. PICK g \in Nat : g = Progress(p)
      BY <2>2, ProgressStands DEF TypeInv
    <3>2. outbox'[p] = outbox[p] /\ inbox'[p] = inbox[p] /\ DOMAIN inbox[p] \subseteq Peers(p)
      BY <2>1, <2>2 DEF Same, SameBatch, SameReads, TypeInv, PartyTypes
    <3>3. /\ \A q \in DOMAIN outbox[p] : g \in Turns(p) /\ outbox[p][q] = FrameOf(p, q, g)
          /\ \A q \in DOMAIN inbox[p] : q \in Parties /\ inbox[p][q] = FrameOf(q, p, g)
      BY <1>2, <3>1, <3>2 DEF RunInv, StreamInv, Batches, Peers
    <3> QED BY <2>3, <2>4, <3>1, <3>2, <3>3, BatchesAt
  <2>7. ASSUME NEW p \in Parties, NEW q \in Peers(p) PROVE NoGap(q, p)' /\ (~Over(p)' => Stream(q, p)')
    <3>1. q \in Parties /\ p \in Peers(q) /\ <<q, p>> \in Links /\ plan'[q] = plan[q]
      BY <2>1 DEF Peers, Links
    <3>2. /\ Turns(q)' = Turns(q) /\ Unread(q, p)' = Unread(q, p)
          /\ NoGap(q, p)' = NoGap(q, p)
      BY <2>3, <2>4, <3>1 DEF Unread, NoGap
    <3>3. Cut(in_flight'[<<q, p>>], in_flight[<<q, p>>])
      BY <2>1, <2>2, <3>1, CutOfSelf DEF TypeInv, LinksTyped
    <3>4. NoGap(q, p) /\ (~Over(p) => Stream(q, p))
      BY <1>2 DEF RunInv, StreamInv
    <3>5. ASSUME Stream(q, p) PROVE Stream(q, p)'
      BY <2>1, <2>2, <2>3, <3>1, <3>2, <3>3, <3>5, StreamCut
    <3> QED BY <2>3, <3>2, <3>4, <3>5
  <2> QED BY <2>2, <2>5, <2>6, <2>7 DEF RunInv, StreamInv
<1> QED BY <1>1, <1>2

LEMMA RunInvariant == ASSUME MaxRetries = 0 PROVE Spec => []RunInv
<1>1. RunInv /\ [Next]_vars => RunInv'
  BY NextRun
<1> QED BY <1>1, InitRun, PTL DEF Spec

\* A party that finishes leaves nothing unread, and nobody has anything for it:
\* its context can be dropped without cutting off what others still have to read.
THEOREM ClosesCleanly == ASSUME MaxRetries = 0 PROVE Spec => []CleanClose
<1>1. ASSUME RunInv, NEW p \in Parties, execution_state[p] = "Finished", NEW q \in Peers(p)
      PROVE  in_flight[<<q, p>>] = << >> /\ p \notin DOMAIN outbox[q]
  <2>1. /\ TypeInv /\ PlanAgreement /\ PartyTypes(p) /\ PartyStands(p) /\ PartyStands(q) /\ PartyTypes(q)
        /\ plan[p] \in Plans /\ plan[q] \in Plans /\ q \in Parties /\ p \in Peers(q) /\ <<q, p>> \in Links
        /\ Ends(p) /\ Batches(q) /\ NoGap(q, p) /\ (~Over(p) => Stream(q, p))
    BY <1>1 DEF RunInv, AgreeInv, InputInv, TypeInv, StreamInv, Peers, Links
  <2>2. plan[q] = plan[p]
    BY <1>1, <2>1 DEF PlanAgreement
  <2>3. \A j \in Turns(q) : HasRead(p, q, j)
    <3>1. PICK n \in Nat : n = Len(RoundsInOrder(plan[p]))
      BY <2>1, RoundsTyped
    <3>2. Progress(p) = n + 1
      BY <1>1, <2>1, <3>1, ProgressStands
    <3>3. \A j \in Turns(q) : j \in 0..n
      BY <2>2, <3>1 DEF Turns
    <3> QED BY <3>2, <3>3 DEF HasRead
  <2>4. in_flight[<<q, p>>] = << >>
    <3>1. CASE ~Up(p)
      BY <2>1, <3>1 DEF Ends
    <3>2. CASE Up(p)
      <4>1. ~Over(p)
        BY <1>1, <2>1, <3>2 DEF PartyStands, Over, Failed
      <4>2. Unread(q, p) = {}
        BY <2>3 DEF Unread
      <4>3. PICK ks : ks \in [DOMAIN in_flight[<<q, p>>] -> {}]
        BY <2>1, <4>1, <4>2 DEF Stream
      <4>4. DOMAIN in_flight[<<q, p>>] = {}
        BY <4>3
      <4>5. in_flight[<<q, p>>] \in Seq(Frame)
        BY <2>1 DEF TypeInv, LinksTyped
      <4>6. Len(in_flight[<<q, p>>]) = 0
        <5>1. PICK n \in Nat : n = Len(in_flight[<<q, p>>]) /\ DOMAIN in_flight[<<q, p>>] = 1..n
          BY <4>5, LenProperties
        <5>2. 1..n = {}
          BY <4>4, <5>1
        <5>3. n = 0
          BY <5>2
        <5> QED BY <5>1, <5>3
      <4> QED BY <4>5, <4>6, EmptySeq
    <3> QED BY <3>1, <3>2
  <2>5. ASSUME p \in DOMAIN outbox[q] PROVE FALSE
    <3>1. Progress(q) \in Turns(q) /\ Progress(q) \in Nat
      BY <2>1, <2>5, ProgressStands DEF Batches
    <3>2. Wrote(q, p, Progress(q))
      BY <2>1, <2>3, <3>1 DEF NoGap
    <3>3. step[q] \in {"broadcast", "send"} /\ ~Over(q)
      BY <2>1, <2>5 DEF PartyStands, PartyTypes, Over, Failed, Up
    <3> QED BY <2>5, <3>1, <3>2, <3>3 DEF Wrote
  <2> QED BY <2>4, <2>5
<1>2. RunInv => CleanClose
  BY <1>1 DEF CleanClose
<1> QED BY <1>2, RunInvariant, PTL

\* What a party waited for in a round has been begun by those it waited for.
LEMMA Awaited ==
  ASSUME RunInv, NEW p \in Parties, EndsRound(p)
  PROVE  /\ Progress(p) \in DOMAIN Exchanges(plan[p], p)
         /\ \A q \in Exchanges(plan[p], p)[Progress(p)] : q \in Parties /\ Progress(q) >= Progress(p)
<1>1. /\ TypeInv /\ PlanAgreement /\ PartyTypes(p) /\ PartyStands(p) /\ plan[p] \in Plans
      /\ step[p] = "recv" /\ call[p] \in Phases /\ awaiting[p] = {} /\ round[p] <= Len(Rounds(p))
  BY DEF RunInv, AgreeInv, InputInv, TypeInv, PartyStands, EndsRound
<1>2. PICK g \in Nat : g = Progress(p)
  BY <1>1, ProgressStands
<1>3. g \in DOMAIN RoundsInOrder(plan[p]) /\ RoundsInOrder(plan[p])[g] = Current(p)
  BY <1>1, <1>2, ProgressStands, RoundsTyped
<1>4. Exchanges(plan[p], p)[g] = Senders(p) /\ g \in DOMAIN Exchanges(plan[p], p)
  BY <1>3 DEF Exchanges, Senders, NetworkOps
<1>5. ASSUME NEW q \in Senders(p) PROVE q \in Parties /\ Progress(q) >= g
  <2>1. q \in Peers(p) /\ q \in Parties /\ plan[q] = plan[p]
    BY <1>1 DEF Senders, Peers, PlanAgreement, PartyStands, Phases
  <2>2. g \in Turns(q)
    BY <1>1, <1>2, <1>5, <2>1, RoundTurns
  <2>3. HasRead(p, q, g)
    BY <1>1, <1>2 DEF HasRead
  <2>4. Wrote(q, p, g)
    BY <2>1, <2>2, <2>3 DEF RunInv, StreamInv, NoGap
  <2>5. Progress(q) \in Nat
    BY <1>1, <2>1, ProgressStands DEF TypeInv
  <2> QED BY <1>2, <2>1, <2>4, <2>5 DEF Wrote
<1> QED BY <1>2, <1>4, <1>5

LEMMA LockstepInit == Init => Steps!Init
<1> SUFFICES ASSUME Init PROVE Steps!Init
  OBVIOUS
<1>1. ASSUME NEW p \in Parties PROVE Progress(p) = 0
  <2>1. plan[p] \in Plans /\ PartyTypes(p) /\ PartyStands(p) /\ execution_state[p] = "NewBorn"
    BY InitTypes DEF TypeInv, Init, InitContexts
  <2> QED BY <2>1, ProgressStands
<1> QED BY <1>1 DEF Init, Steps!Init

LEMMA CircuitsStay == Next => plan' = plan
<1> SUFFICES ASSUME NEW p \in Parties, Work(p) \/ (\E given \in InputLists : PrepareInput(p, given)) \/ Crash(p)
             PROVE  plan' = plan
  BY DEF Next
<1>1. \A dropped : NetworkFailure(p, dropped) => plan' = plan
  BY DEF NetworkFailure
<1>2. \A how : Leave(p, how) => plan' = plan
  BY DEF Leave, program
<1>3. \A wanted : Await(p, wanted) => plan' = plan
  BY <1>1 DEF Await, ExtractionFails, program
<1>4. CASE CallHandshake(p) \/ CallOffline(p) \/ CallOnline(p) \/ CompareHashes(p) \/ FinishRound(p) \/ FinishCall(p)
  BY <1>4 DEF CallHandshake, CallOffline, CallOnline, CompareHashes, FinishRound, FinishCall, program
<1>5. CASE AwaitHashes(p) \/ AwaitShares(p)
  BY <1>3, <1>5 DEF AwaitHashes, AwaitShares
<1>6. CASE BeginRound(p)
  BY <1>2, <1>6 DEF BeginRound
<1>7. CASE \E q \in Peers(p) : \/ BroadcastFrame(p, q) \/ SendFrame(p, q)
                               \/ ReceiveFrame(p, q) \/ ReceiveEnd(p, q)
  <2>1. PICK q \in Peers(p) : \/ BroadcastFrame(p, q) \/ SendFrame(p, q)
                              \/ ReceiveFrame(p, q) \/ ReceiveEnd(p, q)
    BY <1>7
  <2> QED BY <1>1, <2>1 DEF BroadcastFrame, SendFrame, ReceiveFrame, ReceiveEnd, program
<1>8. CASE Drop(p) \/ Crash(p) \/ \E given \in InputLists : PrepareInput(p, given)
  BY <1>2, <1>8 DEF Drop, Crash, PrepareInput
<1> QED BY <1>4, <1>5, <1>6, <1>7, <1>8 DEF Work

LEMMA LockstepNext ==
  ASSUME RunInv, MaxRetries = 0, [Next]_vars
  PROVE  [Steps!Next]_Steps!vars
<1> DEFINE progress == [p \in Parties |-> Progress(p)]
<1>0. TypeInv /\ RunInv'
  BY NextRun DEF RunInv, InputInv
<1>1. CASE UNCHANGED vars
  <2>1. \A r \in Parties : Same(r) 
    BY <1>1 DEF vars, program, position, batch, net, Same, SamePlan, SameData, SamePosition, SameReads,
       SameBatch, SameEnds, SameResult
  <2>2. \A r \in Parties : Progress(r)' = Progress(r)
    BY <1>0, <2>1, SameProgress
  <2>3. plan' = plan /\ progress' = progress
    BY <1>1, <2>2 DEF vars, program
  <2> QED BY <2>3 DEF Steps!vars
<1>2. CASE Next
  <2>1. PICK p \in Parties : Alone(p) /\ PartyMoves(p)
    BY <1>0, <1>2, Moves
  <2>2. plan' = plan
    BY <1>2, CircuitsStay
  <2>3. \A r \in Parties : r # p => Progress(r)' = Progress(r)
    BY <1>0, <2>1, SameProgress DEF Alone
  <2>4. CASE EndsRound(p)
    <3>1. Progress(p)' = Progress(p) + 1
      BY <1>0, <2>1, <2>4, ProgressMoves
    <3>2. progress' = [progress EXCEPT ![p] = @ + 1]
      BY <2>3, <3>1
    <3>3. /\ progress[p] \in DOMAIN Exchanges(plan[p], p)
          /\ \A q \in Exchanges(plan[p], p)[progress[p]] : progress[q] >= progress[p]
      BY <2>4, Awaited
    <3>4. Steps!Exchange(p)
      BY <2>2, <3>2, <3>3 DEF Steps!Exchange, Steps!Complete
    <3> QED BY <3>4 DEF Steps!Next
  <2>5. CASE Compares(p) /\ execution_state'[p] = "Handshaked"
    <3>1. Progress(p)' = Progress(p) + 1
      BY <1>0, <2>1, <2>5, ProgressMoves
    <3>2. progress' = [progress EXCEPT ![p] = @ + 1]
      BY <2>3, <3>1
    <3>3. progress[p] = 0
      BY <1>0, <2>5, ProgressStands DEF TypeInv, PartyStands, Compares
    <3>4. \A q \in Parties : plan[q] = plan[p]
      BY <1>0, <2>2, <2>5 DEF RunInv, AgreeInv, PlanAgreement
    <3>5. Steps!Agree(p)
      BY <2>2, <3>2, <3>3, <3>4 DEF Steps!Agree, Steps!Complete
    <3> QED BY <3>5 DEF Steps!Next
  <2>6. CASE ~EndsRound(p) /\ ~(Compares(p) /\ execution_state'[p] = "Handshaked")
    <3>1. Progress(p)' = Progress(p)
      BY <1>0, <2>1, <2>6, ProgressMoves
    <3>2. progress' = progress
      BY <2>3, <3>1
    <3> QED BY <2>2, <3>2 DEF Steps!vars
  <2> QED BY <2>4, <2>5, <2>6
<1> QED BY <1>1, <1>2

\* The parties keep in step: whatever crashes, every await of theirs is an exchange
\* of Lockstep or no step at all.
THEOREM KeepsLockstep == ASSUME MaxRetries = 0 PROVE Spec => ImplementsLockstep
<1>1. RunInv /\ [Next]_vars => [Steps!Next]_Steps!vars
  BY LockstepNext
<1> QED BY <1>1, LockstepInit, RunInvariant, PTL DEF Spec, ImplementsLockstep, Steps!Spec

-----------------------------------------------------------------------------
(* Which wires are computed, and from which shares.                        *)

LEMMA RoundPlaces ==
  ASSUME NEW pl \in Plans, NEW r \in RoundsOf(pl)
  PROVE  \E a, b \in Nat :
           /\ a = Len(r.local_operations) /\ b = Len(r.network_operations)
           /\ DOMAIN r.local_operations = 1..a /\ DOMAIN r.network_operations = 1..b
           /\ DOMAIN OpsInOrder(r) = 1..a + b
           /\ \A m \in 1..a : OpsInOrder(r)[m] = r.local_operations[m]
           /\ \A m \in 1..b : OpsInOrder(r)[a + m] = r.network_operations[m]
<1> DEFINE S == RoundOps(r)
<1>1. r.local_operations \in Seq(S) /\ r.network_operations \in Seq(S)
  <2>1. /\ r.local_operations \in Seq(Range(r.local_operations)) /\ Range(r.local_operations) \subseteq S
        /\ r.network_operations \in Seq(Range(r.network_operations)) /\ Range(r.network_operations) \subseteq S
    BY PlansAssumption DEF RoundOps
  <2> QED BY <2>1, SeqMonotonic
<1>2. PICK a, b \in Nat : /\ a = Len(r.local_operations) /\ b = Len(r.network_operations)
                          /\ DOMAIN r.local_operations = 1..a /\ DOMAIN r.network_operations = 1..b
  BY <1>1, LenProperties
<1>3. /\ OpsInOrder(r) \in Seq(S) /\ Len(OpsInOrder(r)) = a + b
      /\ \A x \in 1..a + b : OpsInOrder(r)[x] = IF x <= a THEN r.local_operations[x] ELSE r.network_operations[x - a]
  BY <1>1, <1>2, ConcatProperties DEF OpsInOrder
<1>4. DOMAIN OpsInOrder(r) = 1..a + b
  BY <1>3, LenProperties
<1>5. \A m \in 1..a : OpsInOrder(r)[m] = r.local_operations[m]
  BY <1>3
<1>6. ASSUME NEW m \in 1..b PROVE OpsInOrder(r)[a + m] = r.network_operations[m]
  <2>1. a + m \in 1..a + b /\ ~(a + m <= a) /\ (a + m) - a = m
    OBVIOUS
  <2>2. OpsInOrder(r)[a + m] = IF a + m <= a THEN r.local_operations[a + m] ELSE r.network_operations[(a + m) - a]
    BY <1>3, <2>1
  <2> QED BY <2>1, <2>2
<1> QED BY <1>2, <1>4, <1>5, <1>6

\* A wire has one writer.
LEMMA OneWriter ==
  ASSUME NEW pl \in Plans, NEW j \in DOMAIN RoundsInOrder(pl), NEW k \in DOMAIN RoundsInOrder(pl)
  PROVE  LET r == RoundsInOrder(pl)[j]
             s == RoundsInOrder(pl)[k]
         IN /\ \A m \in DOMAIN r.local_operations, n \in DOMAIN s.local_operations :
                 r.local_operations[m].output = s.local_operations[n].output => j = k /\ m = n
            /\ \A m \in DOMAIN r.network_operations, n \in DOMAIN s.network_operations :
                 r.network_operations[m].output = s.network_operations[n].output => j = k /\ m = n
            /\ \A m \in DOMAIN r.local_operations, n \in DOMAIN s.network_operations :
                 r.local_operations[m].output # s.network_operations[n].output
<1> DEFINE r == RoundsInOrder(pl)[j]
           s == RoundsInOrder(pl)[k]
<1>1. r \in RoundsOf(pl) /\ s \in RoundsOf(pl)
  BY RoundsTyped
<1>2. PICK a, b \in Nat :
           /\ a = Len(r.local_operations) /\ b = Len(r.network_operations)
           /\ DOMAIN r.local_operations = 1..a /\ DOMAIN r.network_operations = 1..b
           /\ DOMAIN OpsInOrder(r) = 1..a + b
           /\ \A m \in 1..a : OpsInOrder(r)[m] = r.local_operations[m]
           /\ \A m \in 1..b : OpsInOrder(r)[a + m] = r.network_operations[m]
  BY <1>1, RoundPlaces
<1>3. PICK c, d \in Nat :
           /\ c = Len(s.local_operations) /\ d = Len(s.network_operations)
           /\ DOMAIN s.local_operations = 1..c /\ DOMAIN s.network_operations = 1..d
           /\ DOMAIN OpsInOrder(s) = 1..c + d
           /\ \A m \in 1..c : OpsInOrder(s)[m] = s.local_operations[m]
           /\ \A m \in 1..d : OpsInOrder(s)[c + m] = s.network_operations[m]
  BY <1>1, RoundPlaces
<1>4. \A m \in DOMAIN OpsInOrder(r), n \in DOMAIN OpsInOrder(s) :
        OpsInOrder(r)[m].output = OpsInOrder(s)[n].output => j = k /\ m = n
  BY PlansAssumption
<1>0. j = k => a = c
  BY <1>2, <1>3
<1> HIDE DEF r, s
<1>5. ASSUME NEW m \in 1..a, NEW n \in 1..c, r.local_operations[m].output = s.local_operations[n].output
      PROVE  j = k /\ m = n
  <2>1. m \in 1..a + b /\ n \in 1..c + d
    OBVIOUS
  <2>2. m \in DOMAIN OpsInOrder(r) /\ OpsInOrder(r)[m] = r.local_operations[m]
    BY <1>2, <2>1
  <2>3. n \in DOMAIN OpsInOrder(s) /\ OpsInOrder(s)[n] = s.local_operations[n]
    BY <1>3, <2>1
  <2> QED BY <1>4, <1>5, <2>2, <2>3
<1>6. ASSUME NEW m \in 1..b, NEW n \in 1..d, r.network_operations[m].output = s.network_operations[n].output
      PROVE  j = k /\ m = n
  <2>1. a + m \in 1..a + b /\ c + n \in 1..c + d
    OBVIOUS
  <2>2. PICK x, y : x = a + m /\ y = c + n
    OBVIOUS
  <2>3. x \in DOMAIN OpsInOrder(r) /\ OpsInOrder(r)[x] = r.network_operations[m]
    BY <1>2, <2>1, <2>2
  <2>4. y \in DOMAIN OpsInOrder(s) /\ OpsInOrder(s)[y] = s.network_operations[n]
    BY <1>3, <2>1, <2>2
  <2>5. j = k /\ x = y
    BY <1>4, <1>6, <2>3, <2>4
  <2> QED BY <1>0, <2>2, <2>5
<1>7. ASSUME NEW m \in 1..a, NEW n \in 1..d, r.local_operations[m].output = s.network_operations[n].output
      PROVE  FALSE
  <2>1. m \in 1..a + b /\ c + n \in 1..c + d
    OBVIOUS
  <2>2. PICK y : y = c + n
    OBVIOUS
  <2>3. m \in DOMAIN OpsInOrder(r) /\ OpsInOrder(r)[m] = r.local_operations[m]
    BY <1>2, <2>1
  <2>4. y \in DOMAIN OpsInOrder(s) /\ OpsInOrder(s)[y] = s.network_operations[n]
    BY <1>3, <2>1, <2>2
  <2>5. j = k /\ m = y
    BY <1>4, <1>7, <2>3, <2>4
  <2> QED BY <1>0, <2>2, <2>5
<1> QED BY <1>2, <1>3, <1>5, <1>6, <1>7 DEF r, s

\* Every operation is in a round.
LEMMA OpsPlaced ==
  ASSUME NEW pl \in Plans
  PROVE  /\ PlanOps(pl) = UNION {RoundOps(RoundsInOrder(pl)[j]) : j \in DOMAIN RoundsInOrder(pl)}
         /\ \A op, other \in PlanOps(pl) : op.output = other.output => op = other
<1> DEFINE rounds == RoundsInOrder(pl)
<1>1. ASSUME NEW r \in RoundsOf(pl) PROVE \E j \in DOMAIN rounds : rounds[j] = r
  <2>1. PICK n, m \in Nat : n = Len(pl.offline_rounds) /\ m = Len(pl.online_rounds) /\ Len(rounds) = n + m
    BY RoundsTyped
  <2>2. DOMAIN pl.offline_rounds = 1..n /\ DOMAIN pl.online_rounds = 1..m
    BY <2>1, PlansAssumption, LenProperties
  <2>3. DOMAIN rounds = 1..n + m
    BY <2>1, RoundsTyped
  <2>4. CASE r \in Range(pl.offline_rounds)
    <3>1. PICK k \in 1..n : pl.offline_rounds[k] = r
      BY <2>2, <2>4 DEF Range
    <3>2. k \in 1..n + m
      OBVIOUS
    <3> QED BY <2>1, <2>3, <3>1, <3>2, RoundsTyped
  <2>5. CASE r \in Range(pl.online_rounds)
    <3>1. PICK k \in 1..m : pl.online_rounds[k] = r
      BY <2>2, <2>5 DEF Range
    <3>2. n + k \in 1..n + m
      OBVIOUS
    <3> QED BY <2>1, <2>3, <3>1, <3>2, RoundsTyped
  <2> QED BY <2>4, <2>5 DEF RoundsOf
<1>2. PlanOps(pl) = UNION {RoundOps(rounds[j]) : j \in DOMAIN rounds}
  <2>1. \A j \in DOMAIN rounds : rounds[j] \in RoundsOf(pl)
    BY RoundsTyped
  <2> HIDE DEF rounds
  <2> QED BY <1>1, <2>1 DEF PlanOps
<1>3. ASSUME NEW op \in PlanOps(pl)
      PROVE  \E j \in DOMAIN rounds :
               \/ \E m \in DOMAIN rounds[j].local_operations : rounds[j].local_operations[m] = op
               \/ \E m \in DOMAIN rounds[j].network_operations : rounds[j].network_operations[m] = op
  BY <1>2 DEF RoundOps, Range
<1>4. ASSUME NEW op \in PlanOps(pl), NEW other \in PlanOps(pl), op.output = other.output PROVE op = other
  <2>1. PICK j \in DOMAIN rounds :
               \/ \E m \in DOMAIN rounds[j].local_operations : rounds[j].local_operations[m] = op
               \/ \E m \in DOMAIN rounds[j].network_operations : rounds[j].network_operations[m] = op
    BY <1>3
  <2>2. PICK k \in DOMAIN rounds :
               \/ \E m \in DOMAIN rounds[k].local_operations : rounds[k].local_operations[m] = other
               \/ \E m \in DOMAIN rounds[k].network_operations : rounds[k].network_operations[m] = other
    BY <1>3
  <2> QED BY <1>4, <2>1, <2>2, OneWriter
<1> QED BY <1>2, <1>4

\* The operations of the rounds before one, and those that a party has done.
Before(pl, g) ==
  UNION {RoundOps(RoundsInOrder(pl)[j]) : j \in {i \in DOMAIN RoundsInOrder(pl) : i < g}}
DoneOps(p) ==
  Before(plan[p], Progress(p))
  \cup IF call[p] \in Phases /\ step[p] \in {"send", "recv"} THEN Range(LocalOps(p)) ELSE {}
Filled(p) ==
  ~Over(p) \/ execution_state[p] = "Finished" =>
    DOMAIN wire_contents[p] = {op.output : op \in DoneOps(p)}
Values(p) ==
  \A op \in PlanOps(plan[p]) :
    op.output \in DOMAIN wire_contents[p] => wire_contents[p][op.output] = Due(p, op)
WireInv == RunInv /\ \A p \in Parties : Filled(p) /\ Values(p)

\* The shares handed to an operation of the round are those it is due.
LEMMA GivenIsDue ==
  ASSUME RunInv, NEW p \in Parties, EndsRound(p), NEW k \in DOMAIN NetworkOps(p)
  PROVE  Given(p, k) = Due(p, NetworkOps(p)[k])
<1> DEFINE ops == NetworkOps(p)
<1>1. /\ TypeInv /\ PlanAgreement /\ PartyTypes(p) /\ PartyStands(p) /\ plan[p] \in Plans
      /\ step[p] = "recv" /\ call[p] \in Phases /\ awaiting[p] = {} /\ round[p] <= Len(Rounds(p))
      /\ Batches(p)
  BY DEF RunInv, AgreeInv, InputInv, TypeInv, PartyStands, EndsRound, StreamInv
<1>2. PICK g \in Nat : g = Progress(p)
  BY <1>1, ProgressStands
<1>3. PICK n \in Nat : n = Len(ops) /\ DOMAIN ops = 1..n
  BY <1>1, CurrentRound DEF PartyTypes
<1>4. DOMAIN inbox[p] = Senders(p)
  BY <1>1 DEF PartyStands, Wanted, Phases
<1>5. {r \in DOMAIN inbox[p] : Receives(ops[k], p, r)} = {r \in Peers(p) : Receives(ops[k], p, r)}
  <2>1. ops[k] \in Range(ops)
    BY DEF Range
  <2> QED BY <1>4, <2>1 DEF Senders
<1>6. ASSUME NEW q \in Peers(p), Receives(ops[k], p, q)
      PROVE  SharesOf(inbox[p][q], q, p)[PlaceOf(p, q, k)] = Share(ops[k].output, q, p, FALSE)
  <2>1. q \in DOMAIN inbox[p] /\ q \in Parties /\ q # p
    BY <1>5, <1>6 DEF Peers
  <2>2. inbox[p][q] = FrameOf(q, p, g)
    BY <1>1, <1>2, <2>1 DEF Batches
  <2>3. plan[q] = plan[p]
    BY <1>1, <2>1 DEF PlanAgreement, PartyStands, Phases
  <2>4. g # 0 /\ OpsAt(q, g) = ops
    BY <1>1, <1>2, <2>3, RoundTurns
  <2> DEFINE sending == {j \in DOMAIN ops : Sends(ops[j], q)}
  <2>5. Sending(q, g) = sending
    BY <2>4 DEF Sending
  <2>6. sending \in SUBSET (1..n) /\ k \in sending /\ k \in 1..n
    BY <1>3, <1>6 DEF Receives, Sends
  <2>7. inbox[p][q] = DataFrame([m \in 1..Cardinality(sending) |-> Share(ops[Nth(sending, m)].output, q, p, FALSE)])
    BY <2>2, <2>4, <2>5 DEF FrameOf
  <2>8. SharesOf(inbox[p][q], q, p) =
          [m \in 1..Cardinality(sending) |-> Share(ops[Nth(sending, m)].output, q, p, FALSE)]
    BY <2>7 DEF SharesOf, DataFrame
  <2>9. PlaceOf(p, q, k) = Rank(sending, k)
    <3>1. {j \in 1..k : Receives(ops[j], p, q)} = {j \in sending : j <= k}
      BY <1>3, <2>1, <2>6 DEF Receives, Sends
    <3> QED BY <3>1 DEF PlaceOf, Rank
  <2>10. Rank(sending, k) \in 1..Cardinality(sending) /\ Nth(sending, Rank(sending, k)) = k
    BY <2>6, RanksGrow, NthOf
  <2> QED BY <2>8, <2>9, <2>10
<1>7. Given(p, k) = {SharesOf(inbox[p][q], q, p)[PlaceOf(p, q, k)] : q \in {r \in Peers(p) : Receives(ops[k], p, r)}}
  BY <1>5 DEF Given
<1> QED BY <1>6, <1>7 DEF Due

LEMMA ValuesKeep ==
  ASSUME WireInv, MaxRetries = 0, NEW p \in Parties, PartyMoves(p)
  PROVE  Values(p)'
<1>1. /\ TypeInv /\ PartyTypes(p) /\ PartyStands(p) /\ plan[p] \in Plans /\ plan'[p] = plan[p]
      /\ RunInv /\ Values(p)
  BY MoveTypes DEF WireInv, RunInv, InputInv, TypeInv
<1>2. \A op : Due(p, op)' = Due(p, op)
  BY DEF Due
<1>3. CASE wire_contents'[p] = wire_contents[p]
  BY <1>1, <1>2, <1>3 DEF Values
<1>4. ASSUME round[p] <= Len(Rounds(p)), wire_contents'[p] = AfterLocal(p) PROVE Values(p)'
  <2>1. ASSUME NEW op \in PlanOps(plan[p]), op.output \in DOMAIN AfterLocal(p)
        PROVE  AfterLocal(p)[op.output] = Due(p, op)
    <3>1. CASE op.output \in DOMAIN wire_contents[p]
      BY <1>1, <2>1, <3>1 DEF AfterLocal, Values
    <3>2. CASE op.output \notin DOMAIN wire_contents[p]
      <4>1. AfterLocal(p)[op.output] = {} /\ op.output \in Computed(p, Len(LocalOps(p)) + 1)
        BY <2>1, <3>2 DEF AfterLocal
      <4>2. PICK m \in 1..(Len(LocalOps(p)) + 1) - 1 : op.output = LocalOps(p)[m].output
        BY <3>2, <4>1 DEF Computed
      <4>3. m \in DOMAIN LocalOps(p) /\ LocalOps(p)[m] \in PlanOps(plan[p])
        BY <1>1, <1>4, <4>2, CurrentRound DEF PartyTypes
      <4>4. op = LocalOps(p)[m]
        BY <1>1, <4>2, <4>3, OpsPlaced
      <4>5. IsOperationLocal(op)
        <5>1. Current(p) \in RoundsOf(plan[p])
          BY <1>1, <1>4, CurrentRound DEF PartyTypes
        <5>2. op \in Range(Current(p).local_operations)
          BY <4>3, <4>4 DEF LocalOps, Range
        <5> QED BY <1>1, <5>1, <5>2, PlansAssumption
      <4>6. \A q : ~Receives(op, p, q)
        BY <4>5 DEF IsOperationLocal, Receives, IsInputOf
      <4> QED BY <4>1, <4>6 DEF Due
    <3> QED BY <3>1, <3>2
  <2> QED BY <1>1, <1>2, <1>4, <2>1 DEF Values
<1>5. CASE EndsRound(p)
  <2>1. /\ DOMAIN wire_contents'[p] = DOMAIN wire_contents[p] \cup Outputs(p)
        /\ \A w \in DOMAIN wire_contents'[p] :
             wire_contents'[p][w] = IF w \in Outputs(p) THEN Given(p, Writer(p, w)) ELSE wire_contents[p][w]
        /\ call[p] \in Phases /\ step[p] = "recv"
    BY <1>5 DEF EndsRound
  <2>2. round[p] <= Len(Rounds(p))
    BY <1>1, <2>1 DEF PartyStands
  <2>3. ASSUME NEW op \in PlanOps(plan[p]), op.output \in DOMAIN wire_contents'[p]
        PROVE  wire_contents'[p][op.output] = Due(p, op)
    <3>1. CASE op.output \in Outputs(p)
      <4>1. \E k \in DOMAIN NetworkOps(p) : NetworkOps(p)[k].output = op.output
        BY <3>1 DEF Outputs, Range
      <4>2. PICK k : k = Writer(p, op.output)
        OBVIOUS
      <4>3. k \in DOMAIN NetworkOps(p) /\ NetworkOps(p)[k].output = op.output
        BY <4>1, <4>2 DEF Writer
      <4>4. NetworkOps(p)[k] \in PlanOps(plan[p])
        BY <1>1, <2>2, <4>3, CurrentRound DEF PartyTypes
      <4>5. NetworkOps(p)[k] = op
        BY <1>1, <4>3, <4>4, OpsPlaced
      <4> QED BY <1>1, <1>5, <2>1, <2>3, <3>1, <4>2, <4>3, <4>5, GivenIsDue
    <3>2. CASE op.output \notin Outputs(p)
      BY <1>1, <2>1, <2>3, <3>2 DEF Values
    <3> QED BY <3>1, <3>2
  <2> QED BY <1>1, <1>2, <2>3 DEF Values
<1>6. CASE \E lost \in SUBSET channels[p] : \E abrupt \in BOOLEAN : Stops(p, lost, abrupt)
  BY <1>3, <1>4, <1>6 DEF Stops, SameData
<1>7. CASE StartsSending(p)
  BY <1>4, <1>7 DEF StartsSending
<1>8. CASE \/ EntersHandshake(p) \/ EntersPhase(p) \/ (\E given \in InputLists : Prepares(p, given))
           \/ \E q \in Peers(p) : SendsFrame(p, q) \/ ReadsFrame(p, q)
           \/ StartsReading(p) \/ Compares(p) \/ EndsPhase(p)
  BY <1>3, <1>8 DEF EntersHandshake, EntersPhase, MayEnter, Prepares, SendsFrame, ReadsFrame, StartsReading,
     Compares, EndsPhase, SameData
<1> QED BY <1>5, <1>6, <1>7, <1>8 DEF PartyMoves

LEMMA RoundNumbers ==
  ASSUME NEW pl \in Plans
  PROVE  \E n \in Nat : n = Len(RoundsInOrder(pl)) /\ DOMAIN RoundsInOrder(pl) = 1..n
<1>1. PICK a, b \in Nat : Len(RoundsInOrder(pl)) = a + b
  BY RoundsTyped
<1>2. a + b \in Nat /\ DOMAIN RoundsInOrder(pl) = 1..a + b
  BY <1>1, RoundsTyped
<1> QED BY <1>1, <1>2

OutputsOf(ops) == {op.output : op \in ops}

\* The round in hand writes wires that no round before it has written.
LEMMA NewOutputs ==
  ASSUME NEW pl \in Plans, NEW g \in DOMAIN RoundsInOrder(pl)
  PROVE  LET r == RoundsInOrder(pl)[g]
         IN /\ \A op \in Range(r.local_operations) : op.output \notin OutputsOf(Before(pl, g))
            /\ \A op \in Range(r.network_operations) :
                 op.output \notin OutputsOf(Before(pl, g)) \cup OutputsOf(Range(r.local_operations))
            /\ \A m, n \in DOMAIN r.local_operations :
                 r.local_operations[m].output = r.local_operations[n].output => m = n
<1> DEFINE r == RoundsInOrder(pl)[g]
<1>1. ASSUME NEW op \in RoundOps(r) PROVE op.output \notin OutputsOf(Before(pl, g))
  <2> SUFFICES ASSUME NEW j \in DOMAIN RoundsInOrder(pl), j < g,
                      NEW other \in RoundOps(RoundsInOrder(pl)[j]), op.output = other.output
               PROVE  FALSE
    BY DEF OutputsOf, Before
  <2>1. g \in Nat /\ j \in Nat
    BY RoundsTyped
  <2>2. g # j
    BY <2>1
  <2> QED BY <2>2, OneWriter DEF RoundOps, Range
<1>2. \A op \in Range(r.network_operations) : op.output \notin OutputsOf(Range(r.local_operations))
  BY OneWriter DEF OutputsOf, Range
<1>3. \A m, n \in DOMAIN r.local_operations :
        r.local_operations[m].output = r.local_operations[n].output => m = n
  BY OneWriter
<1> QED BY <1>1, <1>2, <1>3 DEF RoundOps

\* The round in hand, by its number.
LEMMA InHand ==
  ASSUME WireInv, NEW p \in Parties, call[p] \in Phases, round[p] <= Len(Rounds(p))
  PROVE  /\ Progress(p) \in DOMAIN RoundsInOrder(plan[p]) /\ Progress(p) \in Nat
         /\ RoundsInOrder(plan[p])[Progress(p)] = Current(p)
         /\ LocalOps(p) = Current(p).local_operations /\ NetworkOps(p) = Current(p).network_operations
         /\ DOMAIN LocalOps(p) = 1..Len(LocalOps(p)) /\ Len(LocalOps(p)) \in Nat
         /\ plan[p] \in Plans /\ ~Over(p)
         /\ DOMAIN wire_contents[p] = OutputsOf(DoneOps(p))
<1>1. PartyTypes(p) /\ PartyStands(p) /\ plan[p] \in Plans
  BY DEF WireInv, RunInv, InputInv, TypeInv
<1>2. call[p] # "none" /\ ~Over(p)
  BY <1>1 DEF Phases, PartyStands, Over, Failed
<1>3. DOMAIN wire_contents[p] = OutputsOf(DoneOps(p))
  BY <1>2 DEF WireInv, Filled, OutputsOf
<1>4. Progress(p) \in 1..Len(RoundsInOrder(plan[p])) /\ Progress(p) \in Nat
  BY <1>1, ProgressStands
<1> QED BY <1>1, <1>2, <1>3, <1>4, ProgressStands, RoundsTyped, CurrentRound DEF PartyTypes, LocalOps, NetworkOps

LEMMA ComputedIs ==
  ASSUME NEW p, Len(LocalOps(p)) \in Nat, DOMAIN LocalOps(p) = 1..Len(LocalOps(p))
  PROVE  DOMAIN AfterLocal(p) = DOMAIN wire_contents[p] \cup OutputsOf(Range(LocalOps(p)))
<1>1. (Len(LocalOps(p)) + 1) - 1 = Len(LocalOps(p))
  OBVIOUS
<1>2. {LocalOps(p)[j].output : j \in 1..Len(LocalOps(p))} = OutputsOf(Range(LocalOps(p)))
  BY DEF OutputsOf, Range
<1>3. Computed(p, Len(LocalOps(p)) + 1) = DOMAIN wire_contents[p] \cup OutputsOf(Range(LocalOps(p)))
  BY <1>1, <1>2 DEF Computed
<1> QED BY <1>3 DEF AfterLocal

\* Wires are filled round by round.
LEMMA FilledKeeps ==
  ASSUME WireInv, MaxRetries = 0, NEW p \in Parties, PartyMoves(p)
  PROVE  Filled(p)'
<1>1. /\ TypeInv /\ PartyTypes(p) /\ PartyStands(p) /\ plan[p] \in Plans /\ plan'[p] = plan[p] /\ Ends(p)
      /\ RunInv /\ Filled(p)
  BY MoveTypes DEF WireInv, RunInv, InputInv, TypeInv, StreamInv
<1> SUFFICES ASSUME ~Over(p)' \/ execution_state'[p] = "Finished"
             PROVE  DOMAIN wire_contents'[p] = OutputsOf(DoneOps(p)')
  BY DEF Filled, OutputsOf
<1> DEFINE stops == \E lost \in SUBSET channels[p] : \E abrupt \in BOOLEAN : Stops(p, lost, abrupt)
<1>2. stops => Over(p)' /\ execution_state[p] = "Finished" /\ call[p] = "none" /\ step[p] = "idle"
  BY <1>1, OverMoves DEF Stops, PartyStands
<1>3. ~Over(p) \/ execution_state[p] = "Finished"
  <2>1. Compares(p) /\ execution_state'[p] # "Handshaked" => execution_state'[p] # "Finished"
    BY <1>1 DEF Compares, PartyStands
  <2> QED BY <1>1, <1>2, <2>1, OverMoves
<1>4. DOMAIN wire_contents[p] = OutputsOf(DoneOps(p))
  BY <1>1, <1>3 DEF Filled, OutputsOf
<1>5. PICK g \in Nat : g = Progress(p)
  BY <1>1, ProgressStands
<1> DEFINE local == IF call[p] \in Phases /\ step[p] \in {"send", "recv"} THEN Range(LocalOps(p)) ELSE {}
<1>6. DoneOps(p) = Before(plan[p], g) \cup local
  BY <1>5 DEF DoneOps
<1>7. ASSUME wire_contents'[p] = wire_contents[p], ~EndsRound(p), ~Compares(p),
             \/ /\ call'[p] = call[p] /\ round'[p] = round[p]
                /\ step[p] \in {"send", "recv"} <=> step'[p] \in {"send", "recv"}
             \/ ~(call[p] \in Phases /\ step[p] \in {"send", "recv"})
                /\ ~(call'[p] \in Phases /\ step'[p] \in {"send", "recv"})
      PROVE  DOMAIN wire_contents'[p] = OutputsOf(DoneOps(p)')
  <2>1. g = Progress(p)'
    BY <1>1, <1>5, <1>7, ProgressMoves
  <2>2. (IF call'[p] \in Phases /\ step'[p] \in {"send", "recv"} THEN Range(LocalOps(p)') ELSE {}) = local
    BY <1>1, <1>7, SamePlace
  <2>3. DoneOps(p)' = Before(plan[p], g) \cup local
    BY <1>1, <2>1, <2>2 DEF DoneOps
  <2> QED BY <1>4, <1>6, <1>7, <2>3
<1>8. CASE stops
  BY <1>1, <1>2, <1>7, <1>8 DEF Stops, EndsRound, Compares, Phases, SameData
<1>9. CASE EntersHandshake(p) \/ EntersPhase(p)
  BY <1>1, <1>7, <1>9 DEF EntersHandshake, EntersPhase, MayEnter, SameData, EndsRound, Compares, Phases
<1>10. CASE (\E given \in InputLists : Prepares(p, given))
  BY <1>1, <1>7, <1>10 DEF Prepares, SamePosition, EndsRound, Compares, Phases
<1>11. CASE \E q \in Peers(p) : SendsFrame(p, q) \/ ReadsFrame(p, q)
  BY <1>1, <1>7, <1>11 DEF SendsFrame, ReadsFrame, SameData, SamePosition, EndsRound, Compares, Phases
<1>12. CASE StartsReading(p) \/ EndsPhase(p)
  <2>1. ~EndsRound(p) /\ ~Compares(p) /\ wire_contents'[p] = wire_contents[p]
    BY <1>12 DEF StartsReading, EndsPhase, SameData, EndsRound, Compares
  <2>2. CASE StartsReading(p)
    BY <1>1, <1>7, <2>1, <2>2 DEF StartsReading, PartyStands, Phases
  <2>3. CASE EndsPhase(p)
    BY <1>7, <2>1, <2>3 DEF EndsPhase, Phases
  <2> QED BY <1>12, <2>2, <2>3
<1>13. CASE Compares(p)
  <2>1. /\ wire_contents'[p] = wire_contents[p] /\ g = 0 /\ ~EndsRound(p) /\ call[p] = "handshake"
        /\ call'[p] = "none"
    BY <1>1, <1>5, <1>13, ProgressStands DEF Compares, EndsRound, Phases
  <2>2. Progress(p)' \in {0, 1}
    <3>1. Progress(p)' = g + 1 \/ Progress(p)' = g
      BY <1>1, <1>5, <1>13, ProgressMoves
    <3> QED BY <2>1, <3>1
  <2>3. Before(plan[p], g) = {} /\ Before(plan[p], Progress(p)') = {}
    <3>1. \A i \in DOMAIN RoundsInOrder(plan[p]) : ~(i < 0) /\ ~(i < 1)
      BY <1>1, RoundNumbers
    <3>2. Before(plan[p], 0) = {} /\ Before(plan[p], 1) = {}
      BY <3>1 DEF Before
    <3> QED BY <2>1, <2>2, <3>2
  <2>4. DoneOps(p) = {} /\ DoneOps(p)' = {}
    <3>1. DoneOps(p)' = Before(plan[p], Progress(p)')
      BY <1>1, <2>1 DEF DoneOps, Phases
    <3> QED BY <1>6, <2>1, <2>3, <3>1 DEF Phases
  <2> QED BY <1>4, <2>1, <2>4
<1>14. CASE StartsSending(p)
  <2>1. /\ wire_contents'[p] = AfterLocal(p) /\ call'[p] = call[p] /\ round'[p] = round[p]
        /\ step[p] = "round" /\ step'[p] = "send" /\ round[p] <= Len(Rounds(p)) /\ call[p] \in Phases
        /\ ~EndsRound(p) /\ ~Compares(p)
    BY <1>1, <1>14 DEF StartsSending, PartyStands, EndsRound, Compares
  <2>2. g = Progress(p)' /\ LocalOps(p)' = LocalOps(p)
    BY <1>1, <1>5, <2>1, SamePlace, ProgressMoves
  <2>3. DoneOps(p)' = Before(plan[p], g) \cup Range(LocalOps(p))
    BY <1>1, <2>1, <2>2 DEF DoneOps
  <2>4. DOMAIN AfterLocal(p) = DOMAIN wire_contents[p] \cup OutputsOf(Range(LocalOps(p)))
    BY <2>1, InHand, ComputedIs
  <2>5. DOMAIN wire_contents[p] = OutputsOf(Before(plan[p], g))
    BY <1>4, <1>6, <2>1
  <2> QED BY <2>1, <2>3, <2>4, <2>5 DEF OutputsOf
<1>15. CASE EndsRound(p)
  <2>1. /\ DOMAIN wire_contents'[p] = DOMAIN wire_contents[p] \cup Outputs(p)
        /\ call[p] \in Phases /\ step[p] = "recv" /\ step'[p] = "round" /\ round[p] <= Len(Rounds(p))
    BY <1>1, <1>15 DEF EndsRound, PartyStands
  <2>2. Progress(p)' = g + 1
    BY <1>1, <1>5, <1>15, ProgressMoves
  <2>3. DoneOps(p)' = Before(plan[p], g + 1)
    BY <1>1, <2>1, <2>2 DEF DoneOps
  <2>4. /\ g \in DOMAIN RoundsInOrder(plan[p]) /\ RoundsInOrder(plan[p])[g] = Current(p)
        /\ LocalOps(p) = Current(p).local_operations /\ NetworkOps(p) = Current(p).network_operations
    BY <1>5, <2>1, InHand
  <2>5. Before(plan[p], g + 1) = Before(plan[p], g) \cup RoundOps(Current(p))
    <3>1. \A i \in DOMAIN RoundsInOrder(plan[p]) : i < g + 1 <=> i < g \/ i = g
      BY <1>1, RoundNumbers
    <3> QED BY <2>4, <3>1 DEF Before
  <2>6. Outputs(p) = OutputsOf(Range(NetworkOps(p)))
    BY DEF Outputs, OutputsOf
  <2> QED BY <1>4, <1>6, <2>1, <2>3, <2>4, <2>5, <2>6 DEF OutputsOf, RoundOps
<1> QED BY <1>8, <1>9, <1>10, <1>11, <1>12, <1>13, <1>14, <1>15 DEF PartyMoves

LEMMA SameWires ==
  ASSUME TypeInv, NEW r \in Parties, Same(r), Filled(r), Values(r)
  PROVE  Filled(r)' /\ Values(r)' /\ status'[r] = status[r]
<1>1. /\ plan'[r] = plan[r] /\ call'[r] = call[r] /\ round'[r] = round[r] /\ step'[r] = step[r]
      /\ execution_state'[r] = execution_state[r] /\ wire_contents'[r] = wire_contents[r]
      /\ status'[r] = status[r]
  BY DEF Same, SamePlan, SameData, SamePosition, SameEnds
<1>2. Progress(r)' = Progress(r) /\ Over(r)' = Over(r) /\ LocalOps(r)' = LocalOps(r)
  BY <1>1, SameProgress, SamePlace
<1>3. DoneOps(r)' = DoneOps(r)
  BY <1>1, <1>2 DEF DoneOps
<1>4. \A op : Due(r, op)' = Due(r, op)
  BY DEF Due
<1> QED BY <1>1, <1>2, <1>3, <1>4 DEF Filled, Values

LEMMA NextWires == ASSUME MaxRetries = 0 PROVE WireInv /\ [Next]_vars => WireInv'
<1>1. ASSUME WireInv, Next PROVE WireInv'
  <2>1. PICK p \in Parties : Alone(p) /\ PartyMoves(p)
    BY <1>1, Moves DEF WireInv, RunInv, InputInv
  <2>2. RunInv'
    BY <1>1, NextRun DEF WireInv
  <2>3. Filled(p)' /\ Values(p)'
    BY <1>1, <2>1, FilledKeeps, ValuesKeep
  <2>4. \A r \in Parties : r # p => Filled(r)' /\ Values(r)'
    BY <1>1, <2>1, SameWires DEF WireInv, RunInv, InputInv, Alone
  <2> QED BY <2>2, <2>3, <2>4 DEF WireInv
<1>2. ASSUME WireInv, UNCHANGED vars PROVE WireInv'
  <2>1. \A r \in Parties : Same(r)
    BY <1>2 DEF vars, program, position, batch, net, Same, SamePlan, SameData, SamePosition, SameReads,
       SameBatch, SameEnds, SameResult
  <2>2. RunInv'
    BY <1>2, NextRun DEF WireInv
  <2>3. \A r \in Parties : Filled(r)' /\ Values(r)'
    BY <1>2, <2>1, SameWires DEF WireInv, RunInv, InputInv
  <2> QED BY <2>2, <2>3 DEF WireInv
<1> QED BY <1>1, <1>2

LEMMA InitWires == Init => WireInv
<1> SUFFICES ASSUME Init, NEW p \in Parties PROVE Filled(p) /\ Values(p)
  BY InitRun DEF WireInv
<1>1. /\ wire_contents[p] = << >> /\ call[p] = "none" /\ execution_state[p] = "NewBorn"
      /\ plan[p] \in Plans /\ PartyTypes(p) /\ PartyStands(p)
  BY InitTypes DEF Init, InitContexts, TypeInv
<1>2. Progress(p) = 0
  BY <1>1, ProgressStands
<1>3. \A i \in DOMAIN RoundsInOrder(plan[p]) : ~(i < 0)
  BY <1>1, RoundNumbers
<1>4. DoneOps(p) = {}
  BY <1>1, <1>2, <1>3 DEF DoneOps, Before, Phases
<1> QED BY <1>1, <1>4 DEF Filled, Values

LEMMA WireInvariant == ASSUME MaxRetries = 0 PROVE Spec => []WireInv
<1>1. WireInv /\ [Next]_vars => WireInv'
  BY NextWires
<1> QED BY <1>1, InitWires, PTL DEF Spec

LEMMA WiresRouted == WireInv => RoutingCorrect
<1>1. ASSUME WireInv, NEW p \in Parties, execution_state[p] = "Finished"
      PROVE  DOMAIN wire_contents[p] = {op.output : op \in PlanOps(plan[p])}
  <2>1. PartyTypes(p) /\ PartyStands(p) /\ plan[p] \in Plans /\ Filled(p)
    BY <1>1 DEF WireInv, RunInv, InputInv, TypeInv
  <2>2. call[p] \notin Phases
    BY <1>1, <2>1 DEF PartyStands, Phases
  <2>3. PICK n \in Nat : n = Len(RoundsInOrder(plan[p])) /\ DOMAIN RoundsInOrder(plan[p]) = 1..n
    BY <2>1, RoundNumbers
  <2>4. Progress(p) = n + 1
    BY <1>1, <2>1, <2>3, ProgressStands
  <2>5. {i \in 1..n : i < n + 1} = 1..n
    OBVIOUS
  <2>6. Before(plan[p], n + 1) = PlanOps(plan[p])
    BY <2>1, <2>3, <2>5, OpsPlaced DEF Before
  <2>7. DoneOps(p) = PlanOps(plan[p])
    BY <2>2, <2>4, <2>6 DEF DoneOps
  <2> QED BY <1>1, <2>1, <2>7 DEF Filled
<1> QED BY <1>1 DEF WireInv, Values, RoutingCorrect

\* Every wire is made from the shares that its own operation is due: no share
\* goes to another operation, round or party, whatever crashes.
THEOREM SharesWellRouted == ASSUME MaxRetries = 0 PROVE Spec => []RoutingCorrect
BY WiresRouted, WireInvariant, PTL

\* A circuit whose operations read only wires of earlier rounds, or of earlier
\* local operations of their own round: all that MpcCircuit::new returns, but for
\* the exception of Circuit's EarlyOnlyIfMixed.
InOrder(pl) ==
  \A g \in DOMAIN RoundsInOrder(pl) :
    LET r == RoundsInOrder(pl)[g]
        before == OutputsOf(Before(pl, g))
    IN /\ \A k \in DOMAIN r.local_operations :
            Range(r.local_operations[k].inputs) \subseteq before \cup {r.local_operations[j].output : j \in 1 .. k - 1}
       /\ \A op \in Range(r.network_operations) :
            Range(op.inputs) \subseteq before \cup OutputsOf(Range(r.local_operations))

\* The wires that a round finds computed.
LEMMA RoundFinds ==
  ASSUME WireInv, NEW p \in Parties, call[p] \in Phases, round[p] <= Len(Rounds(p))
  PROVE  DOMAIN wire_contents[p] =
           OutputsOf(Before(plan[p], Progress(p)))
             \cup IF step[p] \in {"send", "recv"} THEN OutputsOf(Range(LocalOps(p))) ELSE {}
BY InHand DEF DoneOps, OutputsOf

LEMMA NoPanic ==
  ASSUME WireInv, NEW p \in Parties, InOrder(plan[p]), step[p] = "round", round[p] <= Len(Rounds(p))
  PROVE  ~LocalPanics(p) /\ ~NetworkPanics(p)
<1>1. PartyStands(p) /\ call[p] \in Phases
  BY DEF WireInv, RunInv, InputInv, TypeInv, PartyStands
<1>2. PICK g \in Nat : g = Progress(p)
  BY <1>1, InHand
<1> DEFINE r == RoundsInOrder(plan[p])[g]
           before == OutputsOf(Before(plan[p], g))
<1>3. /\ g \in DOMAIN RoundsInOrder(plan[p]) /\ plan[p] \in Plans
      /\ LocalOps(p) = r.local_operations /\ NetworkOps(p) = r.network_operations
      /\ DOMAIN LocalOps(p) = 1..Len(LocalOps(p)) /\ Len(LocalOps(p)) \in Nat
  BY <1>1, <1>2, InHand
<1>4. DOMAIN wire_contents[p] = before
  BY <1>1, <1>2, RoundFinds
<1>5. /\ \A k \in DOMAIN LocalOps(p) :
           Range(LocalOps(p)[k].inputs) \subseteq before \cup {LocalOps(p)[j].output : j \in 1 .. k - 1}
      /\ \A op \in Range(NetworkOps(p)) : Range(op.inputs) \subseteq before \cup OutputsOf(Range(LocalOps(p)))
  BY <1>3 DEF InOrder
<1>6. /\ \A op \in Range(LocalOps(p)) : op.output \notin before
      /\ \A m, n \in DOMAIN LocalOps(p) : LocalOps(p)[m].output = LocalOps(p)[n].output => m = n
  BY <1>3, NewOutputs
<1>7. ASSUME NEW k \in DOMAIN LocalOps(p)
      PROVE  Runnable(LocalOps(p)[k], Computed(p, k)) /\ LocalOps(p)[k].output \notin Computed(p, k)
  <2>1. Computed(p, k) = before \cup {LocalOps(p)[j].output : j \in 1 .. k - 1}
    BY <1>4 DEF Computed
  <2>2. LocalOps(p)[k].output \notin before
    BY <1>6 DEF Range
  <2>3. \A j \in 1 .. k - 1 : j \in DOMAIN LocalOps(p) /\ j # k
    BY <1>3
  <2> QED BY <1>5, <1>6, <2>1, <2>2, <2>3 DEF Runnable
<1>8. ASSUME NEW k \in DOMAIN NetworkOps(p) PROVE Runnable(NetworkOps(p)[k], DOMAIN AfterLocal(p))
  <2>1. DOMAIN AfterLocal(p) = before \cup OutputsOf(Range(LocalOps(p)))
    BY <1>3, <1>4, ComputedIs
  <2>2. NetworkOps(p)[k] \in Range(NetworkOps(p))
    BY DEF Range
  <2> QED BY <1>5, <2>1, <2>2 DEF Runnable
<1> QED BY <1>7, <1>8 DEF LocalPanics, NetworkPanics

\* Nobody has panicked: nobody does whose circuit is in order.
Calm == \A p \in Parties : status[p] # "panicked"

LEMMA CalmStays ==
  ASSUME WireInv, Calm, \A p \in Parties : InOrder(plan[p]), [Next]_vars
  PROVE  Calm'
<1>1. ASSUME Next PROVE Calm'
  <2>1. PICK p \in Parties : Alone(p) /\ PartyMoves(p)
    BY <1>1, Moves DEF WireInv, RunInv, InputInv
  <2>2. ASSUME NEW lost, NEW abrupt, Stops(p, lost, abrupt) PROVE status'[p] # "panicked"
    BY <2>2, NoPanic DEF Stops, Calm
  <2>3. status'[p] # "panicked"
    BY <2>1, <2>2 DEF PartyMoves, EntersHandshake, EntersPhase, MayEnter, Prepares, SendsFrame, ReadsFrame,
       StartsReading, Compares, StartsSending, EndsRound, EndsPhase, SameEnds, Calm
  <2> QED BY <2>1, <2>3 DEF Alone, Same, SameEnds, Calm
<1>2. ASSUME UNCHANGED vars PROVE Calm'
  BY <1>2 DEF vars, Calm
<1> QED BY <1>1, <1>2

\* With circuits in order no assertion and no unwrap of a round fails: no output is
\* inserted twice, and nobody panics.
THEOREM AssertionsHold ==
  ASSUME MaxRetries = 0, \A pl \in Plans : InOrder(pl)
  PROVE  Spec => []OutputsNew
<1>1. Init => Calm
  BY DEF Init, InitContexts, Calm
<1>2. WireInv /\ Calm /\ [Next]_vars => Calm'
  BY CalmStays DEF WireInv, RunInv, InputInv, TypeInv
<1>3. ASSUME WireInv, NEW p \in Parties, call[p] \in {"do_offline", "do_online"}, step[p] = "recv",
             NEW op \in Range(NetworkOps(p))
      PROVE  op.output \notin DOMAIN wire_contents[p]
  <2>1. call[p] \in Phases /\ round[p] <= Len(Rounds(p))
    BY <1>3 DEF Phases, WireInv, RunInv, InputInv, TypeInv, PartyStands
  <2>2. PICK g \in Nat : g = Progress(p)
    BY <1>3, <2>1, InHand
  <2>3. /\ g \in DOMAIN RoundsInOrder(plan[p]) /\ plan[p] \in Plans
        /\ LocalOps(p) = RoundsInOrder(plan[p])[g].local_operations
        /\ NetworkOps(p) = RoundsInOrder(plan[p])[g].network_operations
    BY <1>3, <2>1, <2>2, InHand
  <2>4. DOMAIN wire_contents[p] = OutputsOf(Before(plan[p], g)) \cup OutputsOf(Range(LocalOps(p)))
    BY <1>3, <2>1, <2>2, RoundFinds
  <2> QED BY <2>3, <2>4, NewOutputs
<1>4. WireInv /\ Calm => OutputsNew
  BY <1>3 DEF OutputsNew, Calm
<1> QED BY <1>1, <1>2, <1>4, WireInvariant, PTL DEF Spec

-----------------------------------------------------------------------------
(* What Lockstep promises.                                                 *)

\* InStep of circuits c and of numbers f of exchanges completed.
InStepBy(c, f) ==
  \A p \in Parties :
    /\ f[p] <= Len(Exchanges(c[p], p)) + 1
    /\ f[p] > 0 => \A q \in Parties : c[q] = c[p]
    /\ \A k \in 1 .. f[p] - 1 : \A q \in Exchanges(c[p], p)[k] : f[q] >= k

\* The exchanges of a circuit name parties.
LEMMA ExchangesTyped ==
  ASSUME NEW pl \in Plans, NEW p \in Parties
  PROVE  Exchanges(pl, p) \in Seq(SUBSET Parties)
<1>1. PICK n \in Nat : n = Len(RoundsInOrder(pl)) /\ DOMAIN RoundsInOrder(pl) = 1..n
  BY RoundNumbers
<1>2. Exchanges(pl, p) \in [1..n -> SUBSET Parties]
  BY <1>1 DEF Exchanges, Peers
<1> QED BY <1>1, <1>2, SeqDef

\* One party completes one exchange more, having waited as Lockstep asks.
Completed(f, p) == [f EXCEPT ![p] = @ + 1]
MayComplete(c, f, p) ==
  \/ f[p] = 0 /\ \A q \in Parties : c[q] = c[p]
  \/ /\ f[p] \in DOMAIN Exchanges(c[p], p)
     /\ \A q \in Exchanges(c[p], p)[f[p]] : f[q] >= f[p]
Counted(c, f) == c \in [Parties -> Plans] /\ f \in [Parties -> Nat] /\ InStepBy(c, f)

LEMMA OneMore ==
  ASSUME NEW c, NEW f, NEW p \in Parties, Counted(c, f), MayComplete(c, f, p)
  PROVE  Counted(c, Completed(f, p))
<1> DEFINE g == Completed(f, p)
<1>0. c \in [Parties -> Plans] /\ f \in [Parties -> Nat] /\ InStepBy(c, f)
  BY DEF Counted
<1>1. /\ g \in [Parties -> Nat] /\ g[p] = f[p] + 1
      /\ \A r \in Parties : g[r] >= f[r] /\ (r # p => g[r] = f[r])
  BY <1>0 DEF Completed
<1>m. \/ f[p] = 0 /\ \A q \in Parties : c[q] = c[p]
      \/ /\ f[p] \in DOMAIN Exchanges(c[p], p)
         /\ \A q \in Exchanges(c[p], p)[f[p]] : f[q] >= f[p]
  BY DEF MayComplete
<1> HIDE DEF g
<1>2. ASSUME NEW r \in Parties
      PROVE  /\ Exchanges(c[r], r) \in Seq(SUBSET Parties) /\ Len(Exchanges(c[r], r)) \in Nat
             /\ \A k \in 1 .. f[r] - 1 : k \in DOMAIN Exchanges(c[r], r)
             /\ \A k \in DOMAIN Exchanges(c[r], r) : Exchanges(c[r], r)[k] \subseteq Parties
  <2>1. Exchanges(c[r], r) \in Seq(SUBSET Parties)
    BY <1>0, ExchangesTyped
  <2> QED BY <1>0, <2>1 DEF InStepBy
<1>3. ASSUME NEW r \in Parties
      PROVE  g[r] <= Len(Exchanges(c[r], r)) + 1 /\ (g[r] > 0 => \A q \in Parties : c[q] = c[r])
  <2>1. Len(Exchanges(c[r], r)) \in Nat /\ DOMAIN Exchanges(c[r], r) = 1..Len(Exchanges(c[r], r))
    BY <1>2
  <2> QED BY <1>0, <1>1, <1>m, <2>1 DEF InStepBy
<1>4. ASSUME NEW r \in Parties, NEW k \in 1 .. g[r] - 1, NEW q \in Exchanges(c[r], r)[k] PROVE g[q] >= k
  <2>1. k \in 1 .. f[r] - 1 \/ (r = p /\ k = f[p] /\ f[p] > 0)
    BY <1>0, <1>1
  <2>2. CASE k \in 1 .. f[r] - 1
    <3>1. q \in Parties /\ f[q] >= k
      BY <1>0, <1>2, <2>2 DEF InStepBy
    <3> QED BY <1>0, <1>1, <2>2, <3>1
  <2>3. CASE r = p /\ k = f[p] /\ f[p] > 0
    <3>1. q \in Parties /\ f[q] >= k
      BY <1>0, <1>m, <1>2, <2>3
    <3> QED BY <1>0, <1>1, <2>3, <3>1
  <2> QED BY <2>1, <2>2, <2>3
<1> QED BY <1>0, <1>1, <1>3, <1>4 DEF InStepBy, Counted, g

\* What Lockstep allows keeps the parties in step: nobody completes an exchange
\* before all that it waits for have completed the one before.
THEOREM LockstepInStep == Steps!Spec => []Steps!InStep
<1> DEFINE f == [p \in Parties |-> Progress(p)]
           Inv == Counted(plan, f)
<1>1. Steps!Init => Inv
  <2> SUFFICES ASSUME Steps!Init PROVE Inv
    OBVIOUS
  <2>1. plan \in [Parties -> Plans] /\ f = [p \in Parties |-> 0]
    BY DEF Steps!Init
  <2>2. \A p \in Parties : Len(Exchanges(plan[p], p)) \in Nat
    BY <2>1, ExchangesTyped
  <2> HIDE DEF f
  <2> QED BY <2>1, <2>2 DEF Counted, InStepBy
<1>2. Inv /\ [Steps!Next]_Steps!vars => Inv'
  <2>1. ASSUME Inv, NEW p \in Parties, Steps!Agree(p) \/ Steps!Exchange(p) PROVE Inv'
    <3>1. f' = Completed(f, p) /\ plan' = plan
      BY <2>1 DEF Steps!Agree, Steps!Exchange, Steps!Complete, Completed
    <3>2. MayComplete(plan, f, p)
      BY <2>1 DEF Steps!Agree, Steps!Exchange, MayComplete
    <3> HIDE DEF f
    <3>3. Counted(plan, Completed(f, p))
      BY <2>1, <3>2, OneMore
    <3>4. Counted(plan', f')
      BY <3>1, <3>3
    <3> QED BY <3>4 DEF Counted, InStepBy
  <2>2. ASSUME Inv, UNCHANGED Steps!vars PROVE Inv'
    BY <2>2 DEF Steps!vars, Counted, InStepBy
  <2> QED BY <2>1, <2>2 DEF Steps!Next
<1>3. Inv => Steps!InStep
  BY DEF Counted, InStepBy, Steps!InStep
<1> HIDE DEF Inv
<1> QED BY <1>1, <1>2, <1>3, PTL DEF Steps!Spec

\* The same of the engine, by refinement.
THEOREM PartiesInStep == ASSUME MaxRetries = 0 PROVE Spec => []Steps!InStep
<1>1. Spec => Steps!Spec
  BY KeepsLockstep DEF ImplementsLockstep
<1> QED BY <1>1, LockstepInStep, PTL
=============================================================================
