-------------------------- MODULE MeshSetup_proofs --------------------------
(***************************************************************************)
(* The calls of from_identities that return connect the parties pairwise,  *)
(* for any number of parties, resets, deaths and new starts.               *)
(*                                                                         *)
(* The connections of a pair are taken in the order they were made.  An    *)
(* initiator keeps only its newest one, and makes no other while it has    *)
(* it.  A listener that has kept one has touched no newer one of the pair, *)
(* unless it is in the middle of it or its loop has ended in an error.     *)
(***************************************************************************)
EXTENDS MeshSetup, SequenceTheorems, FiniteSetTheorems, TLAPS

-----------------------------------------------------------------------------
(* Connections, in any state of the list of them.                          *)

IdsOf(cs) == UNION {{<<pair[1], pair[2], k>> : k \in DOMAIN cs[pair]} : pair \in Pairs}
At(cs, c) == cs[<<c[1], c[2]>>][c[3]]
Lists == [Pairs -> Seq(Phases)]

LEMMA InIds ==
  ASSUME NEW cs \in Lists, NEW c
  PROVE  c \in IdsOf(cs) <=> \E pair \in Pairs : \E k \in 1 .. Len(cs[pair]) : c = <<pair[1], pair[2], k>>
<1>1. \A pair \in Pairs : DOMAIN cs[pair] = 1 .. Len(cs[pair])
  BY LenProperties DEF Lists
<1> QED BY <1>1 DEF IdsOf

LEMMA IdsNumbered ==
  \A cs \in Lists : \A c \in IdsOf(cs) :
    \E pair \in Pairs : \E k \in 1 .. Len(cs[pair]) : c = <<pair[1], pair[2], k>>
BY InIds

LEMMA PairFacts ==
  ASSUME NEW pair \in Pairs
  PROVE  /\ pair[1] \in Parties /\ pair[2] \in Parties /\ pair[1] > pair[2]
         /\ pair = <<pair[1], pair[2]>> /\ pair[2] \in Below(pair[1]) /\ pair[1] \in Above(pair[2])
BY DEF Pairs, Below, Above, Parties

LEMMA IdFacts ==
  ASSUME NEW cs \in Lists, NEW c \in IdsOf(cs)
  PROVE  /\ <<c[1], c[2]>> \in Pairs /\ c[3] \in 1 .. Len(cs[<<c[1], c[2]>>]) /\ c[3] \in Nat
         /\ c = <<c[1], c[2], c[3]>> /\ At(cs, c) \in Phases
         /\ c[1] \in Parties /\ c[2] \in Parties /\ c[1] \in Above(c[2]) /\ c[2] \in Below(c[1])
<1>0. PICK pair \in Pairs : \E k \in 1 .. Len(cs[pair]) : c = <<pair[1], pair[2], k>>
  BY InIds
<1>1. PICK k \in 1 .. Len(cs[pair]) : c = <<pair[1], pair[2], k>>
  BY <1>0
<1>2. c[1] = pair[1] /\ c[2] = pair[2] /\ c[3] = k /\ pair = <<pair[1], pair[2]>>
  BY <1>1, PairFacts
<1>3. <<c[1], c[2]>> = pair
  BY <1>2
<1>4. cs[pair] \in Seq(Phases)
  BY DEF Lists
<1>5. cs[pair][k] \in Phases
  BY <1>4, ElementOfSeq
<1> QED BY <1>1, <1>2, <1>3, <1>5, PairFacts DEF At

LEMMA IdMade ==
  ASSUME NEW cs \in Lists, NEW pair \in Pairs, NEW k \in 1 .. Len(cs[pair])
  PROVE  <<pair[1], pair[2], k>> \in IdsOf(cs)
BY InIds

LEMMA SameIds ==
  ASSUME NEW cs \in Lists, NEW ncs \in Lists, \A pair \in Pairs : Len(ncs[pair]) = Len(cs[pair])
  PROVE  IdsOf(ncs) = IdsOf(cs)
<1>1. ASSUME NEW c PROVE c \in IdsOf(ncs) <=> c \in IdsOf(cs)
  <2>1. c \in IdsOf(cs) <=> \E pair \in Pairs : \E k \in 1 .. Len(cs[pair]) : c = <<pair[1], pair[2], k>>
    BY InIds
  <2>2. c \in IdsOf(ncs) <=> \E pair \in Pairs : \E k \in 1 .. Len(ncs[pair]) : c = <<pair[1], pair[2], k>>
    BY InIds
  <2> QED BY <2>1, <2>2
<1> QED BY <1>1

\* A connection changes and no other.
Replaced(cs, c, new) ==
  [cs EXCEPT ![<<c[1], c[2]>>] = [cs[<<c[1], c[2]>>] EXCEPT ![c[3]] = new]]

LEMMA OneChanged ==
  ASSUME NEW cs \in Lists, NEW c \in IdsOf(cs), NEW new \in Phases, NEW ncs,
         ncs = Replaced(cs, c, new)
  PROVE  /\ ncs \in Lists /\ IdsOf(ncs) = IdsOf(cs) /\ \A pair \in Pairs : Len(ncs[pair]) = Len(cs[pair])
         /\ At(ncs, c) = new
         /\ \A d \in IdsOf(cs) : d # c => At(ncs, d) = At(cs, d)
<1> DEFINE p == <<c[1], c[2]>>
<1>1. p \in Pairs /\ c[3] \in 1 .. Len(cs[p]) /\ c = <<c[1], c[2], c[3]>>
  BY IdFacts
<1>2. PICK s \in Seq(Phases) : s = cs[p]
  BY <1>1 DEF Lists
<1>3. PICK t \in Seq(Phases) : t = [s EXCEPT ![c[3]] = new]
  BY <1>1, <1>2, ExceptSeq, ZenonT(40)
<1>4. /\ Len(t) = Len(s) /\ \A j \in 1 .. Len(s) : t[j] = IF j = c[3] THEN new ELSE s[j]
  BY <1>1, <1>2, <1>3, ExceptSeq
<1>5. ncs = [cs EXCEPT ![p] = t]
  BY <1>2, <1>3 DEF Replaced
<1>6. ncs \in Lists /\ ncs[p] = t /\ \A pair \in Pairs : pair # p => ncs[pair] = cs[pair]
  BY <1>1, <1>5 DEF Lists
<1>7. \A pair \in Pairs : Len(ncs[pair]) = Len(cs[pair])
  BY <1>2, <1>4, <1>6
<1>8. IdsOf(ncs) = IdsOf(cs)
  BY <1>6, <1>7, SameIds
<1>9. At(ncs, c) = new
  BY <1>1, <1>2, <1>4, <1>6 DEF At
<1>10. ASSUME NEW d \in IdsOf(cs), d # c PROVE At(ncs, d) = At(cs, d)
  <2>1. <<d[1], d[2]>> \in Pairs /\ d[3] \in 1 .. Len(cs[<<d[1], d[2]>>]) /\ d = <<d[1], d[2], d[3]>>
    BY IdFacts
  <2>2. CASE <<d[1], d[2]>> = p
    <3>1. d[3] # c[3]
      BY <1>1, <1>10, <2>1, <2>2
    <3> QED BY <1>2, <1>4, <1>6, <2>1, <2>2, <3>1 DEF At
  <2>3. CASE <<d[1], d[2]>> # p
    BY <1>6, <2>1, <2>3 DEF At
  <2> QED BY <2>2, <2>3
<1> QED BY <1>6, <1>7, <1>8, <1>9, <1>10

\* Closing changes no phase.
LEMMA PhasesKept ==
  ASSUME NEW cs \in Lists, NEW p, NEW lost, NEW hard \in BOOLEAN, NEW ncs, ncs = Closed(cs, p, lost, hard)
  PROVE  /\ ncs \in Lists /\ IdsOf(ncs) = IdsOf(cs) /\ \A pair \in Pairs : Len(ncs[pair]) = Len(cs[pair])
         /\ \A c \in IdsOf(cs) : /\ At(ncs, c).listener = At(cs, c).listener
                                 /\ At(ncs, c).initiator = At(cs, c).initiator
<1>1. ASSUME NEW pair \in Pairs
      PROVE  /\ ncs[pair] \in Seq(Phases) /\ Len(ncs[pair]) = Len(cs[pair])
             /\ \A k \in 1 .. Len(cs[pair]) : /\ ncs[pair][k].listener = cs[pair][k].listener
                                              /\ ncs[pair][k].initiator = cs[pair][k].initiator
  <2>1. PICK s \in Seq(Phases) : s = cs[pair]
    BY DEF Lists
  <2>2. PICK n \in Nat : n = Len(s) /\ DOMAIN s = 1 .. n
    BY LenProperties
  <2> DEFINE New(k) ==
        IF <<pair[1], pair[2], k>> \notin lost THEN s[k]
        ELSE IF pair[1] = p THEN [s[k] EXCEPT !.initiator_open = FALSE, !.reset = @ \/ hard]
        ELSE [s[k] EXCEPT !.listener_open = FALSE, !.reset = @ \/ hard \/ s[k].listener = "queued"]
  <2>3. ncs[pair] = [k \in 1 .. n |-> New(k)]
    BY <2>1, <2>2 DEF Closed
  <2>4. ASSUME NEW k \in 1 .. n
        PROVE  New(k) \in Phases /\ New(k).listener = s[k].listener /\ New(k).initiator = s[k].initiator
    <3>1. s[k] \in Phases
      BY <2>2, ElementOfSeq
    <3> QED BY <3>1 DEF Phases
  <2> HIDE DEF New
  <2>5. ncs[pair] \in Seq(Phases) /\ Len(ncs[pair]) = n
    <3>1. ncs[pair] \in [1 .. n -> Phases]
      BY <2>3, <2>4
    <3>2. ncs[pair] \in Seq(Phases)
      BY <3>1
    <3>3. Len(ncs[pair]) \in Nat /\ DOMAIN ncs[pair] = 1 .. Len(ncs[pair])
      BY <3>2, LenProperties
    <3> QED BY <3>1, <3>2, <3>3
  <2> QED BY <2>1, <2>2, <2>3, <2>4, <2>5
<1>2. ncs \in Lists
  <2>1. DOMAIN ncs = Pairs /\ ncs = [pair \in Pairs |-> ncs[pair]]
    BY DEF Closed
  <2> QED BY <1>1, <2>1 DEF Lists
<1>3. IdsOf(ncs) = IdsOf(cs)
  BY <1>1, <1>2, SameIds
<1>4. ASSUME NEW c \in IdsOf(cs)
      PROVE  /\ At(ncs, c).listener = At(cs, c).listener
             /\ At(ncs, c).initiator = At(cs, c).initiator
  <2>1. <<c[1], c[2]>> \in Pairs /\ c[3] \in 1 .. Len(cs[<<c[1], c[2]>>])
    BY IdFacts
  <2> QED BY <1>1, <2>1 DEF At
<1> QED BY <1>1, <1>2, <1>3, <1>4

\* A connection is made.
Extended(cs, pair) == [cs EXCEPT ![pair] = Append(cs[pair], Fresh)]

LEMMA OneMade ==
  ASSUME NEW cs \in Lists, NEW pair \in Pairs, NEW ncs, ncs = Extended(cs, pair),
         NEW c, c = <<pair[1], pair[2], Len(cs[pair]) + 1>>
  PROVE  /\ ncs \in Lists /\ IdsOf(ncs) = IdsOf(cs) \cup {c} /\ c \notin IdsOf(cs)
         /\ Len(ncs[pair]) = Len(cs[pair]) + 1 /\ Len(cs[pair]) \in Nat
         /\ \A other \in Pairs : other # pair => Len(ncs[other]) = Len(cs[other])
         /\ At(ncs, c) = Fresh
         /\ \A d \in IdsOf(cs) : At(ncs, d) = At(cs, d)
         /\ \A d \in IdsOf(cs) : d[1] = c[1] /\ d[2] = c[2] => d[3] < c[3]
<1>1. PICK s \in Seq(Phases) : s = cs[pair]
  BY DEF Lists
<1>2. PICK n \in Nat : n = Len(s)
  BY LenProperties
<1>3. Fresh \in Phases
  BY DEF Fresh, Phases
<1>4. PICK t \in Seq(Phases) : /\ t = Append(s, Fresh) /\ Len(t) = n + 1 /\ t[n + 1] = Fresh
                               /\ \A k \in 1 .. n : t[k] = s[k]
  <2>1. /\ Append(s, Fresh) \in Seq(Phases) /\ Len(Append(s, Fresh)) = n + 1
        /\ Append(s, Fresh)[n + 1] = Fresh /\ \A k \in 1 .. n : Append(s, Fresh)[k] = s[k]
    BY <1>2, <1>3, AppendProperties
  <2> QED BY <2>1
<1>5. ncs \in Lists /\ ncs[pair] = t /\ \A other \in Pairs : other # pair => ncs[other] = cs[other]
  BY <1>1, <1>4 DEF Lists, Extended
<1>6. pair = <<pair[1], pair[2]>> /\ c[1] = pair[1] /\ c[2] = pair[2] /\ c[3] = n + 1
  BY <1>1, <1>2, PairFacts
<1>7. <<c[1], c[2]>> = pair
  BY <1>6
<1>8. \A d \in IdsOf(cs) : d[1] = c[1] /\ d[2] = c[2] => d[3] < c[3]
  <2>1. SUFFICES ASSUME NEW d \in IdsOf(cs), d[1] = c[1], d[2] = c[2] PROVE d[3] < c[3]
    OBVIOUS
  <2>2. d[3] \in 1 .. n
    BY <1>1, <1>2, <1>7, <2>1, IdFacts
  <2> QED BY <1>6, <2>2
<1>9. c \notin IdsOf(cs)
  <2>1. ~(c[3] < c[3])
    BY <1>6
  <2> QED BY <1>8, <2>1
<1>10. IdsOf(ncs) = IdsOf(cs) \cup {c}
  <2>1. ASSUME NEW d \in IdsOf(ncs) PROVE d \in IdsOf(cs) \cup {c}
    <3>0. PICK q \in Pairs : \E k \in 1 .. Len(ncs[q]) : d = <<q[1], q[2], k>>
      <4>1. ncs \in Lists /\ d \in IdsOf(ncs)
        BY <1>5, <2>1
      <4> QED BY <4>1, IdsNumbered, Zenon
    <3>1. PICK k \in 1 .. Len(ncs[q]) : d = <<q[1], q[2], k>>
      BY <3>0
    <3>2. CASE q # pair
      BY <1>5, <3>1, <3>2, InIds
    <3>3. CASE q = pair
      <4>1. k \in 1 .. n \/ k = n + 1
        BY <1>4, <1>5, <3>1, <3>3
      <4>2. CASE k \in 1 .. n
        BY <1>1, <1>2, <3>1, <3>3, <4>2, InIds
      <4>3. CASE k = n + 1
        BY <1>1, <1>2, <3>1, <3>3, <4>3
      <4> QED BY <4>1, <4>2, <4>3
    <3> QED BY <3>2, <3>3
  <2>2. ASSUME NEW d \in IdsOf(cs) PROVE d \in IdsOf(ncs)
    <3>0. PICK q \in Pairs : \E k \in 1 .. Len(cs[q]) : d = <<q[1], q[2], k>>
      BY InIds
    <3>1. PICK k \in 1 .. Len(cs[q]) : d = <<q[1], q[2], k>>
      BY <3>0
    <3>2. k \in 1 .. Len(ncs[q])
      <4>1. CASE q = pair
        BY <1>1, <1>2, <1>4, <1>5, <3>1, <4>1
      <4>2. CASE q # pair
        BY <1>5, <3>1, <4>2
      <4> QED BY <4>1, <4>2
    <3> QED BY <1>5, <3>1, <3>2, InIds
  <2>3. c \in IdsOf(ncs)
    <3>1. n + 1 \in 1 .. Len(ncs[pair])
      BY <1>4, <1>5
    <3> QED BY <1>1, <1>2, <1>5, <3>1, IdMade
  <2> QED BY <2>1, <2>2, <2>3
<1>11. At(ncs, c) = Fresh
  BY <1>4, <1>5, <1>6, <1>7 DEF At
<1>12. ASSUME NEW d \in IdsOf(cs) PROVE At(ncs, d) = At(cs, d)
  <2>1. <<d[1], d[2]>> \in Pairs /\ d[3] \in 1 .. Len(cs[<<d[1], d[2]>>])
    BY IdFacts
  <2>2. CASE <<d[1], d[2]>> = pair
    <3>1. d[3] \in 1 .. n
      BY <1>1, <1>2, <2>1, <2>2
    <3>2. t[d[3]] = s[d[3]]
      BY <1>4, <3>1
    <3> QED BY <1>1, <1>5, <2>2, <3>2 DEF At
  <2>3. CASE <<d[1], d[2]>> # pair
    BY <1>5, <2>1, <2>3 DEF At
  <2> QED BY <2>2, <2>3
<1>13. /\ Len(ncs[pair]) = Len(cs[pair]) + 1 /\ Len(cs[pair]) \in Nat
       /\ \A other \in Pairs : other # pair => Len(ncs[other]) = Len(cs[other])
  BY <1>1, <1>2, <1>4, <1>5
<1> QED BY <1>5, <1>8, <1>9, <1>10, <1>11, <1>12, <1>13

-----------------------------------------------------------------------------
(* The invariant.                                                          *)

Queued(cs, c) == At(cs, c).listener = "queued"
Later(cs, c) == {d \in IdsOf(cs) : d[1] = c[1] /\ d[2] = c[2] /\ d[3] > c[3]}
Newest(cs, p, q) == <<p, q, Len(cs[<<p, q>>])>>

Typed ==
  /\ status \in [Parties -> {"down", "running", "ok", "err"}]
  /\ conns \in Lists
  /\ backlog \in [Parties -> Seq(Ids)]
  /\ accepting \in [Parties -> {"off", "on", "ok", "err"}]
  /\ DOMAIN handling = Parties /\ DOMAIN accepted = Parties
  /\ DOMAIN trying = Parties /\ DOMAIN made = Parties
  /\ faults \in 0 .. MaxFaults

\* What a party has as a listener.
Listening ==
  \A p \in Parties :
    /\ handling[p] \subseteq Ids /\ \A c, d \in handling[p] : c = d
    /\ \A c \in handling[p] : c[2] = p
    /\ \A i \in 1 .. Len(backlog[p]) : backlog[p][i][2] = p
    /\ DOMAIN accepted[p] \subseteq Above(p)
    /\ \A q \in DOMAIN accepted[p] :
         accepted[p][q] \in Ids /\ accepted[p][q][1] = q /\ accepted[p][q][2] = p
    /\ accepting[p] # "on" => handling[p] = {} /\ backlog[p] = << >>
    /\ accepting[p] = "ok" => DOMAIN accepted[p] = Above(p)

\* What it has as an initiator.
Connecting ==
  \A p \in Parties :
    /\ DOMAIN trying[p] \subseteq Below(p) /\ DOMAIN made[p] \subseteq Below(p)
    /\ DOMAIN trying[p] \cap DOMAIN made[p] = {}
    /\ \A q \in DOMAIN trying[p] : trying[p][q] = Newest(conns, p, q) /\ trying[p][q] \in Ids
    /\ \A q \in DOMAIN made[p] : /\ made[p][q] = Newest(conns, p, q) /\ made[p][q] \in Ids
                                 /\ ~Queued(conns, made[p][q])

CallsStand ==
  \A p \in Parties :
    /\ status[p] = "down" => /\ accepting[p] = "off" /\ DOMAIN accepted[p] = {}
                             /\ DOMAIN trying[p] = {} /\ DOMAIN made[p] = {}
    /\ status[p] = "ok" => accepting[p] = "ok" /\ DOMAIN made[p] = Below(p)

\* The connections of a pair are taken from the backlog in order.
Ordered ==
  \A p \in Parties :
    /\ \A i \in 1 .. Len(backlog[p]) :
         /\ Queued(conns, backlog[p][i])
         /\ \A d \in Later(conns, backlog[p][i]) : Queued(conns, d)
    /\ \A i, j \in 1 .. Len(backlog[p]) :
         i < j /\ backlog[p][i][1] = backlog[p][j][1] => backlog[p][i][3] < backlog[p][j][3]
    /\ \A c \in handling[p] : \A d \in Later(conns, c) : Queued(conns, d)
    /\ \A q \in DOMAIN accepted[p] : \A d \in Later(conns, accepted[p][q]) :
         Queued(conns, d) \/ d \in handling[p] \/ accepting[p] = "err"

SetupInv == Typed /\ Listening /\ Connecting /\ CallsStand /\ Ordered

LEMMA IdsAre == Ids = IdsOf(conns)
BY DEF Ids, IdsOf

LEMMA InitSetup == Init => SetupInv
<1> SUFFICES ASSUME Init PROVE SetupInv
  OBVIOUS
<1>1. DOMAIN << >> = {} /\ Len(<< >>) = 0 /\ 1 .. 0 = {} /\ \A S : << >> \in Seq(S)
  BY EmptySeq
<1>2. conns \in Lists
  BY <1>1 DEF Init, Lists
<1>3. 0 \in 0 .. MaxFaults
  BY MeshSetupAssumption
<1>4. Typed
  BY <1>1, <1>2, <1>3 DEF Init, Typed
<1>5. Listening
  BY <1>1 DEF Init, Listening
<1>6. Connecting /\ CallsStand /\ Ordered
  BY <1>1 DEF Init, Connecting, CallsStand, Ordered
<1> QED BY <1>4, <1>5, <1>6 DEF SetupInv

\* A step that leaves the connections of every pair at their numbers, and takes
\* none back that has been accepted.
SamePairs(cs, ncs) ==
  /\ ncs \in Lists /\ IdsOf(ncs) = IdsOf(cs) /\ \A pair \in Pairs : Len(ncs[pair]) = Len(cs[pair])
  /\ \A c \in IdsOf(cs) : ~Queued(cs, c) => ~Queued(ncs, c)

LEMMA SameNewest ==
  ASSUME NEW cs, NEW ncs, SamePairs(cs, ncs), NEW p \in Parties, NEW q \in Below(p)
  PROVE  Newest(ncs, p, q) = Newest(cs, p, q)
<1>1. <<p, q>> \in Pairs
  BY DEF Pairs, Below, Parties
<1> QED BY <1>1 DEF SamePairs, Newest

LEMMA SameConnecting ==
  ASSUME Typed, Connecting, SamePairs(conns, conns'), UNCHANGED connecting
  PROVE  Connecting'
<1>1. trying' = trying /\ made' = made /\ Ids' = IdsOf(conns') /\ IdsOf(conns') = Ids
  BY IdsAre DEF connecting, SamePairs, Ids, IdsOf
<1>2. SUFFICES ASSUME NEW p \in Parties
      PROVE  /\ DOMAIN trying[p] \subseteq Below(p) /\ DOMAIN made[p] \subseteq Below(p)
             /\ DOMAIN trying[p] \cap DOMAIN made[p] = {}
             /\ \A q \in DOMAIN trying[p] : trying[p][q] = Newest(conns', p, q) /\ trying[p][q] \in Ids
             /\ \A q \in DOMAIN made[p] : /\ made[p][q] = Newest(conns', p, q) /\ made[p][q] \in Ids
                                          /\ ~Queued(conns', made[p][q])
  BY <1>1 DEF Connecting
<1>3. /\ DOMAIN trying[p] \subseteq Below(p) /\ DOMAIN made[p] \subseteq Below(p)
      /\ DOMAIN trying[p] \cap DOMAIN made[p] = {}
      /\ \A q \in DOMAIN trying[p] : trying[p][q] = Newest(conns, p, q) /\ trying[p][q] \in Ids
      /\ \A q \in DOMAIN made[p] : /\ made[p][q] = Newest(conns, p, q) /\ made[p][q] \in Ids
                                   /\ ~Queued(conns, made[p][q])
  BY DEF Connecting
<1>4. \A q \in Below(p) : Newest(conns', p, q) = Newest(conns, p, q)
  BY SameNewest
<1>5. \A c \in Ids : ~Queued(conns, c) => ~Queued(conns', c)
  BY IdsAre DEF SamePairs
<1> QED BY <1>3, <1>4, <1>5

\* A step that changes nothing of a listener but phases after "queued".
SameQueue(cs, ncs) == SamePairs(cs, ncs) /\ \A c \in IdsOf(cs) : Queued(cs, c) => Queued(ncs, c)

LEMMA SameLater ==
  ASSUME NEW cs, NEW ncs, IdsOf(ncs) = IdsOf(cs), NEW c
  PROVE  Later(ncs, c) = Later(cs, c) /\ Later(cs, c) \subseteq IdsOf(cs)
BY DEF Later

LEMMA BacklogIds ==
  ASSUME Typed, NEW p \in Parties
  PROVE  /\ backlog[p] \in Seq(Ids) /\ Len(backlog[p]) \in Nat
         /\ \A i \in 1 .. Len(backlog[p]) : backlog[p][i] \in Ids
<1>1. backlog[p] \in Seq(Ids)
  BY DEF Typed
<1> QED BY <1>1, LenProperties, ElementOfSeq

LEMMA SameListening ==
  ASSUME Typed, Listening, Ordered, SameQueue(conns, conns'), UNCHANGED listening
  PROVE  Listening' /\ Ordered'
<1>1. /\ backlog' = backlog /\ accepting' = accepting /\ handling' = handling /\ accepted' = accepted
      /\ Ids' = Ids /\ IdsOf(conns') = Ids /\ IdsOf(conns) = Ids
  BY IdsAre DEF listening, SameQueue, SamePairs, Ids, IdsOf
<1>2. Listening'
  BY <1>1 DEF Listening
<1>3. \A c : Later(conns', c) = Later(conns, c) /\ Later(conns, c) \subseteq Ids
  BY <1>1, SameLater
<1>4. \A c \in Ids : Queued(conns, c) <=> Queued(conns', c)
  BY <1>1 DEF SameQueue, SamePairs
<1>5. Ordered'
  <2> SUFFICES ASSUME NEW p \in Parties
      PROVE  /\ \A i \in 1 .. Len(backlog[p]) :
                  /\ Queued(conns', backlog[p][i])
                  /\ \A d \in Later(conns', backlog[p][i]) : Queued(conns', d)
             /\ \A c \in handling[p] : \A d \in Later(conns', c) : Queued(conns', d)
             /\ \A q \in DOMAIN accepted[p] : \A d \in Later(conns', accepted[p][q]) :
                  Queued(conns', d) \/ d \in handling[p] \/ accepting[p] = "err"
    BY <1>1 DEF Ordered
  <2> QED BY <1>3, <1>4, BacklogIds DEF Ordered
<1> QED BY <1>2, <1>5

\* A step of phases only.
LEMMA PhasesOnly ==
  ASSUME SetupInv, SameQueue(conns, conns'), UNCHANGED <<status, listening, connecting>>, faults' \in 0 .. MaxFaults
  PROVE  SetupInv'
<1>1. Typed'
  BY IdsAre DEF SetupInv, Typed, listening, connecting, SameQueue, SamePairs, Ids, IdsOf
<1>2. CallsStand'
  BY DEF SetupInv, CallsStand, listening, connecting
<1> QED BY <1>1, <1>2, SameListening, SameConnecting DEF SetupInv, SameQueue

-----------------------------------------------------------------------------
(* The steps.                                                              *)

LEMMA StartSetup == \A p \in Parties : SetupInv /\ Start(p) => SetupInv'
<1> SUFFICES ASSUME NEW p \in Parties, SetupInv, Start(p) PROVE SetupInv'
  OBVIOUS
<1>1. /\ status[p] = "down" /\ accepting[p] = "off" /\ DOMAIN accepted[p] = {}
      /\ DOMAIN trying[p] = {} /\ DOMAIN made[p] = {} /\ handling[p] = {} /\ backlog[p] = << >>
  BY DEF Start, SetupInv, CallsStand, Listening
<1>2. PICK verdict \in {"on", "ok"} :
        accepting' = [accepting EXCEPT ![p] = verdict] /\ (verdict = "ok" => Above(p) = {})
  BY DEF Start
<1>3. /\ status' = [status EXCEPT ![p] = "running"]
      /\ UNCHANGED <<conns, backlog, handling, accepted, trying, made, faults>>
  BY DEF Start, connecting
<1>4. Ids' = Ids
  BY <1>3 DEF Ids
<1>6. /\ accepting' \in [Parties -> {"off", "on", "ok", "err"}]
      /\ accepting'[p] = verdict /\ \A x \in Parties : x # p => accepting'[x] = accepting[x]
  <2>1. accepting \in [Parties -> {"off", "on", "ok", "err"}]
    BY DEF SetupInv, Typed
  <2> QED BY <1>2, <2>1
<1>5. Typed'
  <2>1. status' \in [Parties -> {"down", "running", "ok", "err"}]
    BY <1>3 DEF SetupInv, Typed
  <2> QED BY <1>3, <1>4, <1>6, <2>1 DEF SetupInv, Typed
<1>7. Listening'
  <2> SUFFICES ASSUME NEW x \in Parties
      PROVE  /\ accepting'[x] # "on" => handling[x] = {} /\ backlog[x] = << >>
             /\ accepting'[x] = "ok" => DOMAIN accepted[x] = Above(x)
    BY <1>3, <1>4 DEF SetupInv, Listening
  <2> QED BY <1>1, <1>2, <1>6 DEF SetupInv, Listening
<1>8. Connecting'
  BY <1>3, <1>4 DEF SetupInv, Connecting
<1>9. CallsStand'
  BY <1>1, <1>3, <1>6 DEF SetupInv, Typed, CallsStand
<1>10. Ordered'
  BY <1>1, <1>3, <1>6 DEF SetupInv, Ordered
<1> QED BY <1>5, <1>7, <1>8, <1>9, <1>10 DEF SetupInv

\* A change of phase, whichever side's.
LEMMA AdvanceFacts ==
  ASSUME conns \in Lists, NEW c \in Ids, NEW side, NEW phase, Advance(c, side, phase),
         \/ side = "initiator" /\ phase \in {"hello", "signed", "done"}
         \/ side = "listener" /\ phase \in {"accepted", "keyed", "signed", "done"}
  PROVE  /\ SamePairs(conns, conns')
         /\ side = "initiator" => At(conns', c).listener = At(conns, c).listener
         /\ side = "listener" => At(conns', c).listener = phase
         /\ \A d \in Ids : d # c => At(conns', d) = At(conns, d)
<1>1. /\ c \in IdsOf(conns) /\ At(conns, c) \in Phases /\ <<c[1], c[2]>> \in Pairs
  BY IdsAre, IdFacts
<1>2. PICK new : new = IF side = "initiator" THEN [At(conns, c) EXCEPT !.initiator = phase]
                                           ELSE [At(conns, c) EXCEPT !.listener = phase]
  OBVIOUS
<1>3. /\ new \in Phases
      /\ side = "initiator" => new.listener = At(conns, c).listener
      /\ side = "listener" => new.listener = phase
  BY <1>1, <1>2 DEF Phases
<1>4. conns' = Replaced(conns, c, new)
  BY <1>1, <1>2 DEF Advance, At, Replaced
<1>5. /\ conns' \in Lists /\ IdsOf(conns') = IdsOf(conns)
      /\ \A pair \in Pairs : Len(conns'[pair]) = Len(conns[pair])
      /\ At(conns', c) = new
      /\ \A d \in IdsOf(conns) : d # c => At(conns', d) = At(conns, d)
  BY <1>1, <1>3, <1>4, OneChanged
<1>6. SamePairs(conns, conns')
  BY <1>3, <1>5 DEF SamePairs, Queued
<1> QED BY <1>3, <1>5, <1>6, IdsAre

LEMMA AcceptSetup == \A p \in Parties : SetupInv /\ Accept(p) => SetupInv'
<1> SUFFICES ASSUME NEW p \in Parties, SetupInv, Accept(p) PROVE SetupInv'
  OBVIOUS
<1>1. PICK s \in Seq(Ids) : s = backlog[p] /\ s # << >>
  BY DEF SetupInv, Typed, Accept
<1>2. PICK c \in Ids : c = Head(s) /\ c = s[1]
  BY <1>1, HeadTailProperties, EmptySeq
<1>3. PICK n \in Nat : n = Len(s) - 1 /\ Len(s) = n + 1
  BY <1>1, EmptySeq, SMTT(30)
<1>4. PICK r \in Seq(Ids) : r = Tail(s) /\ Len(r) = n /\ \A k \in 1 .. n : r[k] = s[k + 1]
  <2>1. PICK r \in Seq(Ids) : r = Tail(s)
    BY <1>1, HeadTailProperties
  <2>2. Len(Tail(s)) = Len(s) - 1 /\ \A k \in 1 .. Len(Tail(s)) : Tail(s)[k] = s[k + 1]
    BY <1>1, HeadTailProperties
  <2>3. Len(r) = n /\ \A k \in 1 .. n : r[k] = s[k + 1]
    BY <1>3, <2>1, <2>2
  <2> QED BY <2>1, <2>3
<1>5. /\ accepting[p] = "on" /\ handling[p] = {}
      /\ handling' = [handling EXCEPT ![p] = {c}] /\ backlog' = [backlog EXCEPT ![p] = r]
      /\ Advance(c, "listener", "accepted")
      /\ UNCHANGED <<status, accepting, accepted, connecting, faults>>
  BY <1>1, <1>2, <1>4 DEF Accept
<1>6. /\ SamePairs(conns, conns') /\ At(conns', c).listener = "accepted"
      /\ \A d \in Ids : d # c => At(conns', d) = At(conns, d)
  BY <1>5, AdvanceFacts DEF SetupInv, Typed
<1>7. /\ Ids' = Ids /\ \A d : Later(conns', d) = Later(conns, d) /\ Later(conns, d) \subseteq Ids
      /\ \A d \in Ids : d # c => (Queued(conns', d) <=> Queued(conns, d))
  <2>1. Ids' = IdsOf(conns') /\ IdsOf(conns') = IdsOf(conns) /\ Ids = IdsOf(conns)
    BY <1>6 DEF SamePairs, Ids, IdsOf
  <2> QED BY <1>6, <2>1, SameLater DEF Queued
<1>8. /\ handling'[p] = {c} /\ backlog'[p] = r
      /\ \A x \in Parties : x # p => handling'[x] = handling[x] /\ backlog'[x] = backlog[x]
  BY <1>5 DEF SetupInv, Typed
<1>9. /\ \A k \in 1 .. n + 1 : /\ s[k] \in Ids /\ s[k][2] = p /\ Queued(conns, s[k])
                               /\ \A d \in Later(conns, s[k]) : Queued(conns, d)
      /\ \A j, k \in 1 .. n + 1 : j < k /\ s[j][1] = s[k][1] => s[j][3] < s[k][3]
  BY <1>1, <1>3, BacklogIds DEF SetupInv, Listening, Ordered
<1>10. c[2] = p /\ \A d \in Later(conns, c) : Queued(conns, d)
  <2>1. 1 \in 1 .. n + 1
    OBVIOUS
  <2> QED BY <1>2, <1>9, <2>1
<1>11. c \notin Later(conns, c) /\ \A x : x[2] # p => c \notin Later(conns, x)
  <2>1. c[3] \in Nat
    BY IdsAre, IdFacts DEF SetupInv, Typed
  <2> QED BY <1>10, <2>1 DEF Later
<1>12. \A k \in 1 .. n : r[k] # c /\ c \notin Later(conns, r[k])
  <2> SUFFICES ASSUME NEW k \in 1 .. n PROVE r[k] # c /\ c \notin Later(conns, r[k])
    OBVIOUS
  <2>1. 1 \in 1 .. n + 1 /\ k + 1 \in 1 .. n + 1 /\ 1 < k + 1 /\ r[k] = s[k + 1]
    BY <1>4
  <2>2. s[1][1] = s[k + 1][1] => s[1][3] < s[k + 1][3]
    BY <1>9, <2>1
  <2>3. c[3] \in Nat /\ r[k][3] \in Nat
    BY <1>9, <2>1, IdsAre, IdFacts DEF SetupInv, Typed
  <2>4. c[1] = r[k][1] => c[3] < r[k][3]
    BY <1>2, <2>1, <2>2
  <2>5. c # r[k]
    BY <2>3, <2>4
  <2>6. c \in Later(conns, r[k]) => c[1] = r[k][1] /\ c[3] > r[k][3]
    BY DEF Later
  <2> QED BY <2>3, <2>4, <2>5, <2>6
<1>13. Typed'
  BY <1>5, <1>6, <1>7, <1>8 DEF SetupInv, Typed, SamePairs, connecting
<1>14. Listening'
  <2> SUFFICES ASSUME NEW x \in Parties
      PROVE  /\ handling'[x] \subseteq Ids /\ \A d, e \in handling'[x] : d = e
             /\ \A d \in handling'[x] : d[2] = x
             /\ \A i \in 1 .. Len(backlog'[x]) : backlog'[x][i][2] = x
             /\ accepting[x] # "on" => handling'[x] = {} /\ backlog'[x] = << >>
    BY <1>5, <1>7 DEF SetupInv, Listening
  <2>1. CASE x = p
    <3>1. \A i \in 1 .. Len(r) : r[i][2] = p
      <4>1. \A i \in 1 .. n : i + 1 \in 1 .. n + 1
        OBVIOUS
      <4> QED BY <1>4, <1>9, <4>1
    <3> QED BY <2>1, <3>1, <1>5, <1>8, <1>10
  <2>2. CASE x # p
    BY <2>2, <1>8 DEF SetupInv, Listening
  <2> QED BY <2>1, <2>2
<1>15. Connecting'
  BY <1>5, <1>6, SameConnecting DEF SetupInv
<1>16. CallsStand'
  BY <1>5 DEF SetupInv, CallsStand, connecting
<1>17. Ordered'
  <2> SUFFICES ASSUME NEW x \in Parties
      PROVE  /\ \A i \in 1 .. Len(backlog'[x]) :
                  /\ Queued(conns', backlog'[x][i])
                  /\ \A d \in Later(conns, backlog'[x][i]) : Queued(conns', d)
             /\ \A i, j \in 1 .. Len(backlog'[x]) :
                  i < j /\ backlog'[x][i][1] = backlog'[x][j][1] => backlog'[x][i][3] < backlog'[x][j][3]
             /\ \A e \in handling'[x] : \A d \in Later(conns, e) : Queued(conns', d)
             /\ \A q \in DOMAIN accepted[x] : \A d \in Later(conns, accepted[x][q]) :
                  Queued(conns', d) \/ d \in handling'[x] \/ accepting[x] = "err"
    BY <1>5, <1>7 DEF Ordered
  <2>1. CASE x = p
    <3>1. \A i \in 1 .. n : /\ Queued(conns', r[i])
                            /\ \A d \in Later(conns, r[i]) : Queued(conns', d)
      <4> SUFFICES ASSUME NEW i \in 1 .. n
                   PROVE  Queued(conns', r[i]) /\ \A d \in Later(conns, r[i]) : Queued(conns', d)
        OBVIOUS
      <4>1. i + 1 \in 1 .. n + 1 /\ r[i] = s[i + 1]
        BY <1>4
      <4>2. r[i] \in Ids /\ Queued(conns, r[i]) /\ \A d \in Later(conns, r[i]) : Queued(conns, d)
        BY <1>9, <4>1
      <4> QED BY <4>2, <1>7, <1>12
    <3>2. \A i, j \in 1 .. n : i < j /\ r[i][1] = r[j][1] => r[i][3] < r[j][3]
      <4> SUFFICES ASSUME NEW i \in 1 .. n, NEW j \in 1 .. n, i < j, r[i][1] = r[j][1]
                   PROVE  r[i][3] < r[j][3]
        OBVIOUS
      <4>1. i + 1 \in 1 .. n + 1 /\ j + 1 \in 1 .. n + 1 /\ i + 1 < j + 1
        OBVIOUS
      <4>2. r[i] = s[i + 1] /\ r[j] = s[j + 1]
        BY <1>4
      <4> QED BY <1>9, <4>1, <4>2
    <3>3. \A d \in Later(conns, c) : Queued(conns', d)
      BY <1>7, <1>10, <1>11
    <3>4. \A q \in DOMAIN accepted[p] : \A d \in Later(conns, accepted[p][q]) :
            Queued(conns', d) \/ d = c
      BY <1>5, <1>7 DEF SetupInv, Ordered
    <3> QED BY <2>1, <3>1, <3>2, <3>3, <3>4, <1>4, <1>8
  <2>2. CASE x # p
    <3>1. handling'[x] = handling[x] /\ backlog'[x] = backlog[x]
      BY <1>8, <2>2
    <3>2. \A i \in 1 .. Len(backlog[x]) : backlog[x][i] \in Ids /\ backlog[x][i][2] = x
      BY BacklogIds DEF SetupInv, Listening
    <3>3. \A i \in 1 .. Len(backlog[x]) : backlog[x][i] # c /\ c \notin Later(conns, backlog[x][i])
      BY <3>2, <2>2, <1>10, <1>11
    <3>4. \A e \in handling[x] : c \notin Later(conns, e)
      BY <2>2, <1>11 DEF SetupInv, Listening
    <3>5. \A q \in DOMAIN accepted[x] : c \notin Later(conns, accepted[x][q])
      BY <2>2, <1>11 DEF SetupInv, Listening
    <3> QED BY <3>1, <3>2, <3>3, <3>4, <3>5, <1>7 DEF SetupInv, Ordered
  <2> QED BY <2>1, <2>2
<1> QED BY <1>13, <1>14, <1>15, <1>16, <1>17 DEF SetupInv

LEMMA ListenerReadsSetup ==
  \A p \in Parties : \A c \in handling[p] : SetupInv /\ ListenerReads(p, c) => SetupInv'
<1> SUFFICES ASSUME NEW p \in Parties, NEW c \in handling[p], SetupInv, ListenerReads(p, c)
             PROVE  SetupInv'
  OBVIOUS
<1>1. c \in Ids /\ UNCHANGED <<status, listening, connecting, faults>>
  BY DEF SetupInv, Listening, ListenerReads
<1>2. PICK phase \in {"keyed", "signed"} :
        Advance(c, "listener", phase) /\ At(conns, c).listener \in {"accepted", "keyed"}
  BY DEF ListenerReads, Read, Conn, At
<1>3. /\ SamePairs(conns, conns') /\ At(conns', c).listener = phase
      /\ \A d \in Ids : d # c => At(conns', d) = At(conns, d)
  BY <1>1, <1>2, AdvanceFacts DEF SetupInv, Typed
<1>4. SameQueue(conns, conns')
  BY <1>2, <1>3, IdsAre DEF SameQueue, Queued
<1> QED BY <1>1, <1>4, PhasesOnly DEF SetupInv, Typed

\* The end of an iteration of the accept loop, and perhaps of the loop: "on"
\* means that it goes on.
IterationEnds(p, verdict) ==
  /\ SameQueue(conns, conns') /\ UNCHANGED <<status, connecting, faults>>
  /\ accepting' = [accepting EXCEPT ![p] = verdict] /\ handling' = [handling EXCEPT ![p] = {}]
  /\ (verdict = "on" /\ backlog' = backlog) \/ backlog' = [backlog EXCEPT ![p] = << >>]
  /\ DOMAIN accepted' = Parties /\ \A x \in Parties : x # p => accepted'[x] = accepted[x]
  /\ DOMAIN accepted'[p] \subseteq Above(p)
  /\ \A q \in DOMAIN accepted'[p] :
       accepted'[p][q] \in Ids /\ accepted'[p][q][1] = q /\ accepted'[p][q][2] = p
  /\ verdict # "err" =>
       \A q \in DOMAIN accepted'[p] : \A d \in Later(conns, accepted'[p][q]) : Queued(conns, d)
  /\ verdict = "ok" => DOMAIN accepted'[p] = Above(p)

LEMMA IterationEndsSetup ==
  ASSUME SetupInv, NEW p \in Parties, accepting[p] = "on", NEW verdict \in {"on", "ok", "err"},
         IterationEnds(p, verdict)
  PROVE  SetupInv'
<1>0. /\ SameQueue(conns, conns') /\ UNCHANGED <<status, connecting, faults>>
      /\ accepting' = [accepting EXCEPT ![p] = verdict] /\ handling' = [handling EXCEPT ![p] = {}]
      /\ (verdict = "on" /\ backlog' = backlog) \/ backlog' = [backlog EXCEPT ![p] = << >>]
      /\ DOMAIN accepted' = Parties /\ \A x \in Parties : x # p => accepted'[x] = accepted[x]
      /\ DOMAIN accepted'[p] \subseteq Above(p)
      /\ \A q \in DOMAIN accepted'[p] :
           accepted'[p][q] \in Ids /\ accepted'[p][q][1] = q /\ accepted'[p][q][2] = p
      /\ verdict # "err" =>
           \A q \in DOMAIN accepted'[p] : \A d \in Later(conns, accepted'[p][q]) : Queued(conns, d)
      /\ verdict = "ok" => DOMAIN accepted'[p] = Above(p)
  BY DEF IterationEnds
<1>1. /\ Ids' = Ids /\ \A d : Later(conns', d) = Later(conns, d) /\ Later(conns, d) \subseteq Ids
      /\ \A d \in Ids : Queued(conns', d) <=> Queued(conns, d)
  <2>1. Ids' = IdsOf(conns') /\ IdsOf(conns') = IdsOf(conns) /\ Ids = IdsOf(conns)
    BY <1>0 DEF SameQueue, SamePairs, Ids, IdsOf
  <2> QED BY <1>0, <2>1, SameLater DEF SameQueue, SamePairs
<1>2. /\ accepting' \in [Parties -> {"off", "on", "ok", "err"}] /\ accepting'[p] = verdict
      /\ DOMAIN handling' = Parties /\ handling'[p] = {} /\ backlog' \in [Parties -> Seq(Ids)]
      /\ backlog'[p] = << >> \/ (backlog'[p] = backlog[p] /\ verdict = "on")
      /\ \A x \in Parties : x # p => /\ accepting'[x] = accepting[x] /\ handling'[x] = handling[x]
                                     /\ backlog'[x] = backlog[x]
  <2>1. /\ accepting \in [Parties -> {"off", "on", "ok", "err"}] /\ DOMAIN handling = Parties
        /\ backlog \in [Parties -> Seq(Ids)] /\ << >> \in Seq(Ids)
    BY EmptySeq DEF SetupInv, Typed
  <2>2. /\ accepting' \in [Parties -> {"off", "on", "ok", "err"}] /\ accepting'[p] = verdict
        /\ \A x \in Parties : x # p => accepting'[x] = accepting[x]
    BY <1>0, <2>1
  <2>3. /\ DOMAIN handling' = Parties /\ handling'[p] = {}
        /\ \A x \in Parties : x # p => handling'[x] = handling[x]
    BY <1>0, <2>1
  <2>4. /\ backlog' \in [Parties -> Seq(Ids)]
        /\ backlog'[p] = << >> \/ (backlog'[p] = backlog[p] /\ verdict = "on")
        /\ \A x \in Parties : x # p => backlog'[x] = backlog[x]
    <3>1. CASE verdict = "on" /\ backlog' = backlog
      BY <2>1, <3>1
    <3>2. CASE backlog' = [backlog EXCEPT ![p] = << >>]
      BY <2>1, <3>2
    <3> QED BY <1>0, <3>1, <3>2
  <2> QED BY <2>2, <2>3, <2>4
<1>3. Typed'
  BY <1>0, <1>1, <1>2 DEF SetupInv, Typed, SameQueue, SamePairs, connecting
<1>4. Len(<< >>) = 0 /\ 1 .. 0 = {}
  BY EmptySeq
<1>5. Listening'
  <2> SUFFICES ASSUME NEW x \in Parties
      PROVE  /\ handling'[x] \subseteq Ids /\ \A c, d \in handling'[x] : c = d
             /\ \A c \in handling'[x] : c[2] = x
             /\ \A i \in 1 .. Len(backlog'[x]) : backlog'[x][i][2] = x
             /\ DOMAIN accepted'[x] \subseteq Above(x)
             /\ \A q \in DOMAIN accepted'[x] :
                  accepted'[x][q] \in Ids /\ accepted'[x][q][1] = q /\ accepted'[x][q][2] = x
             /\ accepting'[x] # "on" => handling'[x] = {} /\ backlog'[x] = << >>
             /\ accepting'[x] = "ok" => DOMAIN accepted'[x] = Above(x)
    BY <1>1 DEF Listening
  <2>1. CASE x = p
    <3>0. \A i \in 1 .. Len(backlog[p]) : backlog[p][i][2] = p
      BY DEF SetupInv, Listening
    <3>1. \A i \in 1 .. Len(backlog'[p]) : backlog'[p][i][2] = p
      <4>1. CASE backlog'[p] = << >>
        BY <1>4, <4>1
      <4>2. CASE backlog'[p] = backlog[p]
        BY <3>0, <4>2
      <4> QED BY <1>2, <4>1, <4>2
    <3>2. accepting'[p] # "on" => backlog'[p] = << >>
      BY <1>2
    <3>3. accepting'[p] = "ok" => DOMAIN accepted'[p] = Above(p)
      BY <1>0, <1>2
    <3>4. handling'[p] = {}
      BY <1>2
    <3> QED BY <2>1, <3>1, <3>2, <3>3, <3>4, <1>0
  <2>2. CASE x # p
    <3>1. /\ accepting'[x] = accepting[x] /\ handling'[x] = handling[x] /\ backlog'[x] = backlog[x]
          /\ accepted'[x] = accepted[x]
      BY <1>0, <1>2, <2>2
    <3> QED BY <3>1 DEF SetupInv, Listening
  <2> QED BY <2>1, <2>2
<1>6. Connecting'
  BY <1>0, SameConnecting DEF SetupInv, SameQueue
<1>7. CallsStand'
  <2>1. status[p] # "down" /\ status[p] # "ok"
    BY DEF SetupInv, CallsStand
  <2>2. status' = status /\ trying' = trying /\ made' = made
    BY <1>0 DEF connecting
  <2> SUFFICES ASSUME NEW x \in Parties
      PROVE  /\ status[x] = "down" => /\ accepting'[x] = "off" /\ DOMAIN accepted'[x] = {}
                                      /\ DOMAIN trying[x] = {} /\ DOMAIN made[x] = {}
             /\ status[x] = "ok" => accepting'[x] = "ok" /\ DOMAIN made[x] = Below(x)
    BY <2>2 DEF CallsStand
  <2>3. x # p => accepting'[x] = accepting[x] /\ accepted'[x] = accepted[x]
    BY <1>0, <1>2
  <2> QED BY <2>1, <2>3 DEF SetupInv, CallsStand
<1>8. Ordered'
  <2> SUFFICES ASSUME NEW x \in Parties
      PROVE  /\ \A i \in 1 .. Len(backlog'[x]) :
                  /\ Queued(conns', backlog'[x][i])
                  /\ \A d \in Later(conns, backlog'[x][i]) : Queued(conns', d)
             /\ \A i, j \in 1 .. Len(backlog'[x]) :
                  i < j /\ backlog'[x][i][1] = backlog'[x][j][1] => backlog'[x][i][3] < backlog'[x][j][3]
             /\ \A e \in handling'[x] : \A d \in Later(conns, e) : Queued(conns', d)
             /\ \A q \in DOMAIN accepted'[x] : \A d \in Later(conns, accepted'[x][q]) :
                  Queued(conns', d) \/ d \in handling'[x] \/ accepting'[x] = "err"
    BY <1>1 DEF Ordered
  <2>1. /\ \A i \in 1 .. Len(backlog[x]) :
             /\ Queued(conns', backlog[x][i])
             /\ \A d \in Later(conns, backlog[x][i]) : Queued(conns', d)
        /\ \A i, j \in 1 .. Len(backlog[x]) :
             i < j /\ backlog[x][i][1] = backlog[x][j][1] => backlog[x][i][3] < backlog[x][j][3]
    BY <1>1, BacklogIds DEF SetupInv, Ordered
  <2>2. CASE x = p
    <3>1. /\ \A i \in 1 .. Len(backlog'[p]) :
               /\ Queued(conns', backlog'[p][i])
               /\ \A d \in Later(conns, backlog'[p][i]) : Queued(conns', d)
          /\ \A i, j \in 1 .. Len(backlog'[p]) :
               i < j /\ backlog'[p][i][1] = backlog'[p][j][1] => backlog'[p][i][3] < backlog'[p][j][3]
      <4>1. CASE backlog'[p] = << >>
        BY <1>4, <4>1
      <4>2. CASE backlog'[p] = backlog[p]
        BY <2>1, <2>2, <4>2
      <4> QED BY <1>2, <4>1, <4>2
    <3>2. \A q \in DOMAIN accepted'[p] : \A d \in Later(conns, accepted'[p][q]) :
            Queued(conns', d) \/ verdict = "err"
      <4>1. \A q \in DOMAIN accepted'[p] : Later(conns', accepted'[p][q]) \subseteq Ids
        BY <1>1
      <4> QED BY <1>0, <1>1, <4>1
    <3> QED BY <2>2, <3>1, <3>2, <1>2
  <2>3. CASE x # p
    <3>1. /\ backlog'[x] = backlog[x] /\ handling'[x] = handling[x] /\ accepting'[x] = accepting[x]
          /\ accepted'[x] = accepted[x]
      BY <1>0, <1>2, <2>3
    <3>2. \A e \in handling[x] : \A d \in Later(conns, e) : Queued(conns', d)
      BY <1>1 DEF SetupInv, Ordered
    <3>3. \A q \in DOMAIN accepted[x] : \A d \in Later(conns, accepted[x][q]) :
            Queued(conns', d) \/ d \in handling[x] \/ accepting[x] = "err"
      BY <1>1 DEF SetupInv, Ordered
    <3> QED BY <2>1, <3>1, <3>2, <3>3
  <2> QED BY <2>2, <2>3
<1> QED BY <1>3, <1>5, <1>6, <1>7, <1>8 DEF SetupInv

\* Closing some connections besides.
LEMMA ClosedBesides ==
  ASSUME NEW cs \in Lists, NEW old, SameQueue(cs, old), NEW p, NEW lost, NEW hard \in BOOLEAN,
         NEW ncs, ncs = Closed(old, p, lost, hard)
  PROVE  SameQueue(cs, ncs)
<1>1. old \in Lists /\ IdsOf(old) = IdsOf(cs)
  BY DEF SameQueue, SamePairs
<1>2. /\ ncs \in Lists /\ IdsOf(ncs) = IdsOf(old) /\ \A pair \in Pairs : Len(ncs[pair]) = Len(old[pair])
      /\ \A c \in IdsOf(old) : At(ncs, c).listener = At(old, c).listener
  BY <1>1, PhasesKept
<1> QED BY <1>1, <1>2 DEF SameQueue, SamePairs, Queued

LEMMA SameItself == ASSUME NEW cs \in Lists PROVE SameQueue(cs, cs)
BY DEF SameQueue, SamePairs

LEMMA ListenerFailsSetup ==
  \A p \in Parties : \A c \in handling[p] : SetupInv /\ ListenerFails(p, c) => SetupInv'
<1> SUFFICES ASSUME NEW p \in Parties, NEW c \in handling[p], SetupInv, ListenerFails(p, c)
             PROVE  SetupInv'
  OBVIOUS
<1>1. accepting[p] = "on" /\ conns \in Lists
  BY DEF SetupInv, Listening, Typed
<1>2. PICK hard \in BOOLEAN : EndLoop(p, "err", conns, hard)
  BY DEF ListenerFails
<1>3. SameQueue(conns, conns')
  BY <1>1, <1>2, SameItself, ClosedBesides DEF EndLoop
<1>4. /\ accepting' = [accepting EXCEPT ![p] = "err"] /\ handling' = [handling EXCEPT ![p] = {}]
      /\ backlog' = [backlog EXCEPT ![p] = << >>] /\ UNCHANGED <<status, accepted, connecting, faults>>
  BY <1>2 DEF EndLoop, ListenerFails
<1>5. /\ DOMAIN accepted' = Parties /\ DOMAIN accepted'[p] \subseteq Above(p)
      /\ \A q \in DOMAIN accepted'[p] :
           accepted'[p][q] \in Ids /\ accepted'[p][q][1] = q /\ accepted'[p][q][2] = p
  BY <1>4 DEF SetupInv, Typed, Listening
<1>6. IterationEnds(p, "err")
  BY <1>3, <1>4, <1>5 DEF IterationEnds
<1> QED BY <1>1, <1>6, IterationEndsSetup

\* A listener that has as many peers as are above it has all of them.
LEMMA AllAbove ==
  ASSUME NEW p \in Parties, NEW peers, peers \subseteq Above(p), NEW q \in Above(p), q \notin peers,
         Cardinality(peers) + 1 = Cardinality(Above(p))
  PROVE  peers \cup {q} = Above(p)
<1>1. IsFiniteSet(Above(p))
  <2>1. IsFiniteSet(0 .. N - 1)
    BY FS_Interval, MeshSetupAssumption
  <2>2. Above(p) \in SUBSET (0 .. N - 1)
    BY DEF Above, Parties
  <2> QED BY <2>1, <2>2, FS_Subset
<1>2. IsFiniteSet(peers)
  BY <1>1, FS_Subset
<1>3. Cardinality(peers \cup {q}) = Cardinality(peers) + 1
  BY <1>2, FS_AddElement
<1> QED BY <1>1, <1>3, FS_Subset

LEMMA SecuredSetup ==
  \A p \in Parties : \A c \in handling[p] : SetupInv /\ Secured(p, c) => SetupInv'
<1> SUFFICES ASSUME NEW p \in Parties, NEW c \in handling[p], SetupInv, Secured(p, c)
             PROVE  SetupInv'
  OBVIOUS
<1>1. /\ accepting[p] = "on" /\ conns \in Lists /\ c \in Ids /\ c[2] = p /\ handling[p] = {c}
      /\ Conn(c).listener = "signed" /\ UNCHANGED <<status, connecting, faults>>
  BY DEF SetupInv, Listening, Typed, Secured
<1>2. PICK old : old = [conns EXCEPT ![<<c[1], c[2]>>][c[3]].listener = "done"]
  OBVIOUS
<1>3. SameQueue(conns, old)
  <2>1. PICK new : new = [At(conns, c) EXCEPT !.listener = "done"]
    OBVIOUS
  <2>2. At(conns, c) \in Phases /\ c \in IdsOf(conns)
    BY <1>1, IdsAre, IdFacts
  <2>3. new \in Phases /\ new.listener = "done"
    BY <2>1, <2>2 DEF Phases
  <2>4. old = Replaced(conns, c, new)
    BY <1>2, <2>1 DEF Replaced, At
  <2>5. /\ old \in Lists /\ IdsOf(old) = IdsOf(conns)
        /\ \A pair \in Pairs : Len(old[pair]) = Len(conns[pair])
        /\ At(old, c) = new
        /\ \A d \in IdsOf(conns) : d # c => At(old, d) = At(conns, d)
    BY <1>1, <2>2, <2>3, <2>4, OneChanged
  <2>6. ~Queued(conns, c) /\ ~Queued(old, c)
    BY <1>1, <2>3, <2>5 DEF Queued, Conn, At
  <2> QED BY <2>5, <2>6 DEF SameQueue, SamePairs, Queued
<1>4. /\ DOMAIN accepted = Parties /\ DOMAIN accepted[p] \subseteq Above(p) /\ c[1] \in Above(p)
      /\ \A q \in DOMAIN accepted[p] :
           accepted[p][q] \in Ids /\ accepted[p][q][1] = q /\ accepted[p][q][2] = p
  <2>1. c[1] \in Above(c[2])
    BY <1>1, IdsAre, IdFacts
  <2> QED BY <1>1, <2>1 DEF SetupInv, Typed, Listening
<1>5. CASE c[1] \in DOMAIN accepted[p]
  <2>1. PICK hard \in BOOLEAN : EndLoop(p, "err", old, hard) /\ accepted' = accepted
    BY <1>2, <1>5 DEF Secured
  <2>2. SameQueue(conns, conns')
    BY <1>1, <1>3, <2>1, ClosedBesides DEF EndLoop
  <2>3. /\ accepting' = [accepting EXCEPT ![p] = "err"] /\ handling' = [handling EXCEPT ![p] = {}]
        /\ backlog' = [backlog EXCEPT ![p] = << >>]
    BY <2>1 DEF EndLoop
  <2>4. IterationEnds(p, "err")
    BY <1>1, <1>4, <2>1, <2>2, <2>3 DEF IterationEnds
  <2> QED BY <1>1, <2>4, IterationEndsSetup
<1>6. CASE c[1] \notin DOMAIN accepted[p]
  <2>1. /\ accepted' = [accepted EXCEPT ![p] = Put(accepted[p], c[1], c)]
        /\ \/ /\ Cardinality(DOMAIN accepted[p]) + 1 = Cardinality(Above(p))
              /\ EndLoop(p, "ok", old, FALSE)
           \/ /\ Cardinality(DOMAIN accepted[p]) + 1 # Cardinality(Above(p))
              /\ handling' = [handling EXCEPT ![p] = {}]
              /\ conns' = old
              /\ UNCHANGED <<backlog, accepting>>
    BY <1>2, <1>6 DEF Secured
  <2>2. /\ DOMAIN accepted'[p] = DOMAIN accepted[p] \cup {c[1]} /\ accepted'[p][c[1]] = c
        /\ \A q \in DOMAIN accepted[p] : accepted'[p][q] = accepted[p][q]
        /\ DOMAIN accepted' = Parties /\ \A x \in Parties : x # p => accepted'[x] = accepted[x]
    BY <1>4, <1>6, <2>1 DEF Put
  <2>3. \A q \in DOMAIN accepted'[p] : \A d \in Later(conns, accepted'[p][q]) : Queued(conns, d)
    <3> SUFFICES ASSUME NEW q \in DOMAIN accepted'[p], NEW d \in Later(conns, accepted'[p][q])
                 PROVE  Queued(conns, d)
      OBVIOUS
    <3>1. CASE q = c[1]
      BY <1>1, <2>2, <3>1 DEF SetupInv, Ordered
    <3>2. CASE q \in DOMAIN accepted[p]
      <4>1. d # c
        BY <1>4, <1>6, <2>2, <3>2 DEF Later
      <4> QED BY <1>1, <2>2, <3>2, <4>1 DEF SetupInv, Ordered
    <3> QED BY <2>2, <3>1, <3>2
  <2>4. /\ DOMAIN accepted'[p] \subseteq Above(p)
        /\ \A q \in DOMAIN accepted'[p] :
             accepted'[p][q] \in Ids /\ accepted'[p][q][1] = q /\ accepted'[p][q][2] = p
    BY <1>1, <1>4, <2>2
  <2>5. CASE /\ Cardinality(DOMAIN accepted[p]) + 1 = Cardinality(Above(p))
             /\ EndLoop(p, "ok", old, FALSE)
    <3>1. SameQueue(conns, conns')
      BY <1>1, <1>3, <2>5, ClosedBesides DEF EndLoop
    <3>2. /\ accepting' = [accepting EXCEPT ![p] = "ok"] /\ handling' = [handling EXCEPT ![p] = {}]
          /\ backlog' = [backlog EXCEPT ![p] = << >>]
      BY <2>5 DEF EndLoop
    <3>3. DOMAIN accepted'[p] = Above(p)
      BY <1>4, <1>6, <2>2, <2>5, AllAbove
    <3>4. IterationEnds(p, "ok")
      BY <1>1, <2>2, <2>3, <2>4, <3>1, <3>2, <3>3 DEF IterationEnds
    <3> QED BY <1>1, <3>4, IterationEndsSetup
  <2>6. CASE /\ handling' = [handling EXCEPT ![p] = {}]
             /\ conns' = old
             /\ UNCHANGED <<backlog, accepting>>
    <3>1. accepting' = [accepting EXCEPT ![p] = "on"]
      BY <1>1, <2>6 DEF SetupInv, Typed
    <3>2. IterationEnds(p, "on")
      BY <1>1, <1>3, <2>2, <2>3, <2>4, <2>6, <3>1 DEF IterationEnds
    <3> QED BY <1>1, <3>2, IterationEndsSetup
  <2> QED BY <2>1, <2>5, <2>6
<1> QED BY <1>5, <1>6

LEMMA ConnectSetup ==
  \A p \in Parties : \A target \in Below(p) : SetupInv /\ Connect(p, target) => SetupInv'
<1> SUFFICES ASSUME NEW p \in Parties, NEW target \in Below(p), SetupInv, Connect(p, target)
             PROVE  SetupInv'
  OBVIOUS
<1>0. PICK pair \in Pairs : pair = <<p, target>>
  BY DEF Pairs, Below, Parties
<1>1. /\ pair[1] = p /\ pair[2] = target /\ target \in Parties
      /\ conns \in Lists /\ Ids = IdsOf(conns)
  BY <1>0, IdsAre DEF Below, SetupInv, Typed
<1>2. PICK new : new = <<p, target, Len(conns[pair]) + 1>>
  OBVIOUS
<1>3. /\ status[p] = "running" /\ accepting[target] = "on"
      /\ target \notin DOMAIN trying[p] /\ target \notin DOMAIN made[p]
      /\ conns' = Extended(conns, pair)
      /\ backlog' = [backlog EXCEPT ![target] = Append(backlog[target], new)]
      /\ trying' = [trying EXCEPT ![p] = Put(trying[p], target, new)]
      /\ UNCHANGED <<status, accepting, handling, accepted, made, faults>>
  BY <1>0, <1>1, <1>2 DEF Connect, Running, Extended
<1>4. /\ conns' \in Lists /\ IdsOf(conns') = IdsOf(conns) \cup {new} /\ new \notin IdsOf(conns)
      /\ Len(conns'[pair]) = Len(conns[pair]) + 1 /\ Len(conns[pair]) \in Nat
      /\ \A other \in Pairs : other # pair => Len(conns'[other]) = Len(conns[other])
      /\ At(conns', new) = Fresh
      /\ \A d \in IdsOf(conns) : At(conns', d) = At(conns, d)
      /\ \A d \in IdsOf(conns) : d[1] = new[1] /\ d[2] = new[2] => d[3] < new[3]
  <2>1. new = <<pair[1], pair[2], Len(conns[pair]) + 1>>
    BY <1>1, <1>2
  <2> QED BY <1>1, <1>3, <2>1, OneMade
<1>5. /\ Ids' = Ids \cup {new} /\ new \notin Ids /\ new[1] = p /\ new[2] = target
      /\ Queued(conns', new) /\ \A d \in Ids : Queued(conns', d) <=> Queued(conns, d)
  <2>1. Ids' = IdsOf(conns')
    BY DEF Ids, IdsOf
  <2> QED BY <1>1, <1>2, <1>4, <2>1 DEF Queued, Fresh
<1>6. ASSUME NEW e, NEW d \in Later(conns', e) PROVE d = new \/ d \in Later(conns, e)
  BY <1>4 DEF Later
<1>7. Later(conns', new) = {}
  <2>1. ASSUME NEW d \in Later(conns', new) PROVE FALSE
    <3>1. d = new \/ (d \in IdsOf(conns) /\ d[1] = new[1] /\ d[2] = new[2])
      BY <1>4 DEF Later
    <3>2. d[3] > new[3] /\ new[3] \in Nat
      BY <1>2, <1>4 DEF Later
    <3>3. d = new \/ (d[3] \in Nat /\ d[3] < new[3])
      BY <1>1, <1>4, <3>1, IdFacts
    <3> QED BY <3>2, <3>3
  <2> QED BY <2>1
<1>8. PICK s \in Seq(Ids) : s = backlog[target]
  BY <1>1 DEF SetupInv, Typed
<1>9. PICK n \in Nat : n = Len(s)
  BY LenProperties
<1>10. PICK t \in Seq(Ids') : /\ t = Append(s, new) /\ Len(t) = n + 1 /\ t[n + 1] = new
                              /\ \A k \in 1 .. n : t[k] = s[k]
  <2>1. s \in Seq(Ids') /\ new \in Ids'
    BY <1>5, SeqMonotonic
  <2>2. /\ Append(s, new) \in Seq(Ids') /\ Len(Append(s, new)) = n + 1
        /\ Append(s, new)[n + 1] = new /\ \A k \in 1 .. n : Append(s, new)[k] = s[k]
    BY <1>9, <2>1, AppendProperties
  <2> QED BY <2>2
<1>11. /\ backlog' \in [Parties -> Seq(Ids')] /\ backlog'[target] = t
       /\ \A x \in Parties : x # target => backlog'[x] = backlog[x]
  <2>1. backlog \in [Parties -> Seq(Ids')]
    <3>1. \A x \in Parties : backlog[x] \in Seq(Ids')
      BY <1>5, SeqMonotonic DEF SetupInv, Typed
    <3> QED BY <3>1 DEF SetupInv, Typed
  <2> QED BY <1>1, <1>3, <1>8, <1>10, <2>1
<1>12. /\ DOMAIN trying' = Parties /\ DOMAIN trying'[p] = DOMAIN trying[p] \cup {target}
       /\ trying'[p][target] = new /\ \A q \in DOMAIN trying[p] : trying'[p][q] = trying[p][q]
       /\ \A x \in Parties : x # p => trying'[x] = trying[x]
  <2>1. DOMAIN trying = Parties
    BY DEF SetupInv, Typed
  <2> QED BY <1>3, <2>1 DEF Put
<1>13. Typed'
  BY <1>3, <1>4, <1>11, <1>12 DEF SetupInv, Typed
<1>14. \A k \in 1 .. n : /\ s[k] \in Ids /\ s[k][2] = target /\ Queued(conns, s[k])
                         /\ \A d \in Later(conns, s[k]) : Queued(conns, d)
  <2>1. SetupInv /\ target \in Parties
    BY <1>1
  <2> QED BY <1>8, <1>9, <2>1, BacklogIds DEF SetupInv, Listening, Ordered
<1>15. Listening'
  <2>1. SUFFICES ASSUME NEW x \in Parties
      PROVE  /\ \A i \in 1 .. Len(backlog'[x]) : backlog'[x][i][2] = x
             /\ accepting[x] # "on" => backlog'[x] = << >>
    BY <1>3, <1>5 DEF SetupInv, Listening
  <2>2. CASE x = target
    <3>1. \A i \in 1 .. n + 1 : t[i][2] = target
      <4> SUFFICES ASSUME NEW i \in 1 .. n + 1 PROVE t[i][2] = target
        OBVIOUS
      <4>1. i \in 1 .. n \/ i = n + 1
        OBVIOUS
      <4> QED BY <4>1, <1>5, <1>10, <1>14
    <3> QED BY <1>3, <1>10, <1>11, <2>2, <3>1
  <2>3. CASE x # target
    BY <1>11, <2>3, ZenonT(40) DEF SetupInv, Listening
  <2> QED BY <2>2, <2>3
<1>16. ASSUME NEW x \in Parties, NEW q \in Below(x), <<x, q>> # pair
       PROVE  Newest(conns', x, q) = Newest(conns, x, q)
  <2>1. <<x, q>> \in Pairs
    BY DEF Pairs, Below, Parties
  <2> QED BY <1>4, <1>16, <2>1 DEF Newest
<1>17. Connecting'
  <2> SUFFICES ASSUME NEW x \in Parties
      PROVE  /\ DOMAIN trying'[x] \subseteq Below(x) /\ DOMAIN made[x] \subseteq Below(x)
             /\ DOMAIN trying'[x] \cap DOMAIN made[x] = {}
             /\ \A q \in DOMAIN trying'[x] : trying'[x][q] = Newest(conns', x, q) /\ trying'[x][q] \in Ids'
             /\ \A q \in DOMAIN made[x] : /\ made[x][q] = Newest(conns', x, q) /\ made[x][q] \in Ids'
                                          /\ ~Queued(conns', made[x][q])
    BY <1>3 DEF Connecting
  <2>1. /\ DOMAIN trying[x] \subseteq Below(x) /\ DOMAIN made[x] \subseteq Below(x)
        /\ DOMAIN trying[x] \cap DOMAIN made[x] = {}
        /\ \A q \in DOMAIN trying[x] : trying[x][q] = Newest(conns, x, q) /\ trying[x][q] \in Ids
        /\ \A q \in DOMAIN made[x] : /\ made[x][q] = Newest(conns, x, q) /\ made[x][q] \in Ids
                                     /\ ~Queued(conns, made[x][q])
    BY DEF SetupInv, Connecting
  <2>2. \A q \in DOMAIN made[x] : <<x, q>> # pair
    BY <1>0, <1>3
  <2>3. \A q \in DOMAIN made[x] : /\ made[x][q] = Newest(conns', x, q) /\ made[x][q] \in Ids'
                                  /\ ~Queued(conns', made[x][q])
    BY <1>5, <1>16, <2>1, <2>2
  <2>4. \A q \in DOMAIN trying[x] : trying[x][q] = Newest(conns', x, q) /\ trying[x][q] \in Ids'
    <3>1. \A q \in DOMAIN trying[x] : <<x, q>> # pair
      BY <1>0, <1>3
    <3> QED BY <1>5, <1>16, <2>1, <3>1
  <2>5. CASE x = p
    <3>1. new = Newest(conns', p, target) /\ new \in Ids'
      BY <1>0, <1>2, <1>4, <1>5 DEF Newest
    <3>2. DOMAIN trying'[p] \subseteq Below(p) /\ DOMAIN trying'[p] \cap DOMAIN made[p] = {}
      BY <1>3, <1>12, <2>1, <2>5
    <3>3. \A q \in DOMAIN trying'[p] : trying'[p][q] = Newest(conns', p, q) /\ trying'[p][q] \in Ids'
      BY <1>12, <2>4, <2>5, <3>1
    <3> QED BY <2>1, <2>3, <2>5, <3>2, <3>3
  <2>6. CASE x # p
    BY <1>12, <2>1, <2>3, <2>4, <2>6
  <2> QED BY <2>5, <2>6
<1>18. CallsStand'
  BY <1>3, <1>12 DEF SetupInv, CallsStand
<1>19. Ordered'
  <2> SUFFICES ASSUME NEW x \in Parties
      PROVE  /\ \A i \in 1 .. Len(backlog'[x]) :
                  /\ Queued(conns', backlog'[x][i])
                  /\ \A d \in Later(conns', backlog'[x][i]) : Queued(conns', d)
             /\ \A i, j \in 1 .. Len(backlog'[x]) :
                  i < j /\ backlog'[x][i][1] = backlog'[x][j][1] => backlog'[x][i][3] < backlog'[x][j][3]
             /\ \A e \in handling[x] : \A d \in Later(conns', e) : Queued(conns', d)
             /\ \A q \in DOMAIN accepted[x] : \A d \in Later(conns', accepted[x][q]) :
                  Queued(conns', d) \/ d \in handling[x] \/ accepting[x] = "err"
    BY <1>3 DEF Ordered
  <2>0. \A e : Later(conns, e) \subseteq Ids
    BY <1>1 DEF Later
  <2>1. \A e \in handling[x] : \A d \in Later(conns', e) : Queued(conns', d)
    BY <1>5, <1>6, <2>0 DEF SetupInv, Ordered
  <2>2. \A q \in DOMAIN accepted[x] : \A d \in Later(conns', accepted[x][q]) :
          Queued(conns', d) \/ d \in handling[x] \/ accepting[x] = "err"
    BY <1>5, <1>6, <2>0 DEF SetupInv, Ordered
  <2>3. /\ \A i \in 1 .. Len(backlog[x]) :
             /\ Queued(conns', backlog[x][i])
             /\ \A d \in Later(conns', backlog[x][i]) : Queued(conns', d)
        /\ \A i, j \in 1 .. Len(backlog[x]) :
             i < j /\ backlog[x][i][1] = backlog[x][j][1] => backlog[x][i][3] < backlog[x][j][3]
    BY <1>5, <1>6, <2>0, BacklogIds DEF SetupInv, Ordered
  <2>4. CASE x = target
    <3>1. \A i \in 1 .. n + 1 : i \in 1 .. n \/ i = n + 1
      OBVIOUS
    <3>2. \A i \in 1 .. n + 1 : Queued(conns', t[i]) /\ \A d \in Later(conns', t[i]) : Queued(conns', d)
      BY <3>1, <2>3, <2>4, <1>5, <1>7, <1>8, <1>9, <1>10
    <3>3. \A i, j \in 1 .. n + 1 : i < j /\ t[i][1] = t[j][1] => t[i][3] < t[j][3]
      <4> SUFFICES ASSUME NEW i \in 1 .. n + 1, NEW j \in 1 .. n + 1, i < j, t[i][1] = t[j][1]
                   PROVE  t[i][3] < t[j][3]
        OBVIOUS
      <4>1. i \in 1 .. n /\ t[i] = s[i]
        BY <1>10
      <4>2. CASE j \in 1 .. n
        BY <4>1, <4>2, <2>3, <2>4, <1>8, <1>9, <1>10
      <4>3. CASE j = n + 1
        <5>1. t[j] = new /\ s[i] \in IdsOf(conns) /\ s[i][1] = new[1] /\ s[i][2] = new[2]
          BY <4>1, <4>3, <1>1, <1>5, <1>10, <1>14
        <5> QED BY <4>1, <5>1, <1>4
      <4> QED BY <3>1, <4>2, <4>3
    <3>4. backlog'[x] = t /\ Len(backlog'[x]) = n + 1
      BY <2>4, <1>10, <1>11
    <3> QED BY <2>1, <2>2, <3>2, <3>3, <3>4
  <2>5. CASE x # target
    BY <2>1, <2>2, <2>3, <2>5, <1>11
  <2> QED BY <2>4, <2>5
<1> QED BY <1>13, <1>15, <1>17, <1>18, <1>19 DEF SetupInv

\* A connector of p goes on: it ends an attempt, and keeps the connection or not.
ConnectorGoesOn(p) ==
  /\ status[p] = "running" /\ SameQueue(conns, conns') /\ UNCHANGED <<status, listening, faults>>
  /\ DOMAIN trying' = Parties /\ DOMAIN made' = Parties
  /\ \A x \in Parties : x # p => trying'[x] = trying[x] /\ made'[x] = made[x]
  /\ DOMAIN trying'[p] \subseteq DOMAIN trying[p] /\ DOMAIN trying'[p] \cap DOMAIN made'[p] = {}
  /\ \A q \in DOMAIN trying'[p] : trying'[p][q] = trying[p][q]
  /\ \A q \in DOMAIN made'[p] : /\ q \in Below(p) /\ made'[p][q] = Newest(conns, p, q)
                                /\ made'[p][q] \in Ids /\ ~Queued(conns, made'[p][q])

LEMMA ConnectorSetup ==
  ASSUME SetupInv, NEW p \in Parties, ConnectorGoesOn(p)
  PROVE  SetupInv'
<1>1. /\ status[p] = "running" /\ SameQueue(conns, conns') /\ UNCHANGED <<status, listening, faults>>
      /\ DOMAIN trying' = Parties /\ DOMAIN made' = Parties
      /\ \A x \in Parties : x # p => trying'[x] = trying[x] /\ made'[x] = made[x]
      /\ DOMAIN trying'[p] \subseteq DOMAIN trying[p] /\ DOMAIN trying'[p] \cap DOMAIN made'[p] = {}
      /\ \A q \in DOMAIN trying'[p] : trying'[p][q] = trying[p][q]
      /\ \A q \in DOMAIN made'[p] : /\ q \in Below(p) /\ made'[p][q] = Newest(conns, p, q)
                                    /\ made'[p][q] \in Ids /\ ~Queued(conns, made'[p][q])
  BY DEF ConnectorGoesOn
<1>2. /\ Ids' = Ids /\ \A c \in Ids : Queued(conns', c) <=> Queued(conns, c)
      /\ SamePairs(conns, conns')
  BY <1>1, IdsAre DEF SameQueue, SamePairs, Ids, IdsOf
<1>3. Typed'
  BY <1>1, <1>2 DEF SetupInv, Typed, listening, SamePairs
<1>4. Listening' /\ Ordered'
  BY <1>1, SameListening DEF SetupInv
<1>5. CallsStand'
  BY <1>1 DEF SetupInv, CallsStand, listening
<1>6. \A x \in Parties : \A q \in Below(x) : Newest(conns', x, q) = Newest(conns, x, q)
  BY <1>2, SameNewest
<1>7. Connecting'
  <2> SUFFICES ASSUME NEW x \in Parties
      PROVE  /\ DOMAIN trying'[x] \subseteq Below(x) /\ DOMAIN made'[x] \subseteq Below(x)
             /\ DOMAIN trying'[x] \cap DOMAIN made'[x] = {}
             /\ \A q \in DOMAIN trying'[x] : trying'[x][q] = Newest(conns', x, q) /\ trying'[x][q] \in Ids
             /\ \A q \in DOMAIN made'[x] : /\ made'[x][q] = Newest(conns', x, q) /\ made'[x][q] \in Ids
                                           /\ ~Queued(conns', made'[x][q])
    BY <1>2 DEF Connecting
  <2>1. /\ DOMAIN trying[x] \subseteq Below(x) /\ DOMAIN made[x] \subseteq Below(x)
        /\ DOMAIN trying[x] \cap DOMAIN made[x] = {}
        /\ \A q \in DOMAIN trying[x] : trying[x][q] = Newest(conns, x, q) /\ trying[x][q] \in Ids
        /\ \A q \in DOMAIN made[x] : /\ made[x][q] = Newest(conns, x, q) /\ made[x][q] \in Ids
                                     /\ ~Queued(conns, made[x][q])
    BY DEF SetupInv, Connecting
  <2>2. CASE x = p
    <3>1. DOMAIN trying'[p] \subseteq Below(p) /\ DOMAIN made'[p] \subseteq Below(p)
      BY <1>1, <2>1, <2>2
    <3>2. \A q \in DOMAIN trying'[p] : trying'[p][q] = Newest(conns', p, q) /\ trying'[p][q] \in Ids
      BY <1>1, <1>6, <2>1, <2>2
    <3>3. \A q \in DOMAIN made'[p] : /\ made'[p][q] = Newest(conns', p, q) /\ made'[p][q] \in Ids
                                     /\ ~Queued(conns', made'[p][q])
      BY <1>1, <1>2, <1>6
    <3> QED BY <1>1, <2>2, <3>1, <3>2, <3>3
  <2>3. CASE x # p
    BY <1>1, <1>2, <1>6, <2>1, <2>3
  <2> QED BY <2>2, <2>3
<1> QED BY <1>3, <1>4, <1>5, <1>7 DEF SetupInv

\* What a connector is in the middle of.
LEMMA Trying ==
  ASSUME SetupInv, NEW p \in Parties, NEW target \in DOMAIN trying[p]
  PROVE  /\ trying[p][target] \in Ids /\ trying[p][target] = Newest(conns, p, target)
         /\ target \in Below(p) /\ target \notin DOMAIN made[p]
BY DEF SetupInv, Connecting

LEMMA Forgotten ==
  ASSUME SetupInv, NEW p \in Parties, NEW target, Forget(p, target)
  PROVE  /\ DOMAIN trying' = Parties /\ \A x \in Parties : x # p => trying'[x] = trying[x]
         /\ DOMAIN trying'[p] = DOMAIN trying[p] \ {target}
         /\ \A q \in DOMAIN trying'[p] : trying'[p][q] = trying[p][q]
BY DEF SetupInv, Typed, Forget, Restrict

LEMMA InitiatorReadsSetup ==
  \A p \in Parties : \A target \in Below(p) : SetupInv /\ InitiatorReads(p, target) => SetupInv'
<1> SUFFICES ASSUME NEW p \in Parties, NEW target \in Below(p), SetupInv, InitiatorReads(p, target)
             PROVE  SetupInv'
  OBVIOUS
<1>1. PICK c : c = trying[p][target]
  OBVIOUS
<1>2. /\ status[p] = "running" /\ target \in DOMAIN trying[p] /\ SentToInitiator(c)
      /\ UNCHANGED <<status, listening, faults>>
      /\ \/ Conn(c).initiator = "hello" /\ Advance(c, "initiator", "signed") /\ UNCHANGED connecting
         \/ /\ Conn(c).initiator = "signed" /\ Advance(c, "initiator", "done") /\ Forget(p, target)
            /\ made' = [made EXCEPT ![p] = Put(made[p], target, c)]
  BY <1>1 DEF InitiatorReads, Running
<1>3. c \in Ids /\ c = Newest(conns, p, target) /\ target \notin DOMAIN made[p]
  BY <1>1, <1>2, Trying
<1>4. PICK phase \in {"signed", "done"} : Advance(c, "initiator", phase)
  BY <1>2
<1>5. /\ SamePairs(conns, conns') /\ At(conns', c).listener = At(conns, c).listener
      /\ \A d \in Ids : d # c => At(conns', d) = At(conns, d)
  BY <1>3, <1>4, AdvanceFacts DEF SetupInv, Typed
<1>6. SameQueue(conns, conns')
  BY <1>5, IdsAre DEF SameQueue, Queued
<1>7. CASE UNCHANGED connecting
  BY <1>2, <1>6, <1>7, PhasesOnly DEF SetupInv, Typed
<1>8. CASE /\ Forget(p, target) /\ Conn(c).initiator = "signed"
           /\ made' = [made EXCEPT ![p] = Put(made[p], target, c)]
  <2>1. ~Queued(conns, c)
    BY <1>2, <1>8 DEF SentToInitiator, Queued, Conn, At
  <2>2. /\ DOMAIN trying' = Parties /\ \A x \in Parties : x # p => trying'[x] = trying[x]
        /\ DOMAIN trying'[p] = DOMAIN trying[p] \ {target}
        /\ \A q \in DOMAIN trying'[p] : trying'[p][q] = trying[p][q]
    BY <1>8, Forgotten
  <2>3. /\ DOMAIN made' = Parties /\ \A x \in Parties : x # p => made'[x] = made[x]
        /\ DOMAIN made'[p] = DOMAIN made[p] \cup {target} /\ made'[p][target] = c
        /\ \A q \in DOMAIN made[p] : made'[p][q] = made[p][q]
    BY <1>3, <1>8 DEF SetupInv, Typed, Put
  <2>4. /\ DOMAIN trying[p] \cap DOMAIN made[p] = {}
        /\ \A q \in DOMAIN made[p] : /\ q \in Below(p) /\ made[p][q] = Newest(conns, p, q)
                                     /\ made[p][q] \in Ids /\ ~Queued(conns, made[p][q])
    BY DEF SetupInv, Connecting
  <2>5. \A q \in DOMAIN made'[p] : /\ q \in Below(p) /\ made'[p][q] = Newest(conns, p, q)
                                   /\ made'[p][q] \in Ids /\ ~Queued(conns, made'[p][q])
    BY <1>3, <2>1, <2>3, <2>4
  <2>6. DOMAIN trying'[p] \subseteq DOMAIN trying[p] /\ DOMAIN trying'[p] \cap DOMAIN made'[p] = {}
    BY <2>2, <2>3, <2>4
  <2>7. ConnectorGoesOn(p)
    BY <1>2, <1>6, <2>2, <2>3, <2>5, <2>6 DEF ConnectorGoesOn
  <2> QED BY <2>7, ConnectorSetup
<1> QED BY <1>2, <1>7, <1>8

LEMMA InitiatorFailsSetup ==
  \A p \in Parties : \A target \in Below(p) : SetupInv /\ InitiatorFails(p, target) => SetupInv'
<1> SUFFICES ASSUME NEW p \in Parties, NEW target \in Below(p), SetupInv, InitiatorFails(p, target)
             PROVE  SetupInv'
  OBVIOUS
<1>1. PICK hard \in BOOLEAN : \E c : conns' = Closed(conns, p, {c}, hard)
  BY DEF InitiatorFails
<1>2. /\ status[p] = "running" /\ Forget(p, target) /\ UNCHANGED <<status, listening, made, faults>>
  BY DEF InitiatorFails, Running
<1>3. conns \in Lists /\ DOMAIN made = Parties
  BY DEF SetupInv, Typed
<1>4. SameQueue(conns, conns')
  <2>1. PICK c : conns' = Closed(conns, p, {c}, hard)
    BY <1>1
  <2> QED BY <2>1, <1>3, SameItself, ClosedBesides
<1>5. /\ DOMAIN trying' = Parties /\ \A x \in Parties : x # p => trying'[x] = trying[x]
      /\ DOMAIN trying'[p] = DOMAIN trying[p] \ {target}
      /\ \A q \in DOMAIN trying'[p] : trying'[p][q] = trying[p][q]
  BY <1>2, Forgotten
<1>6. /\ DOMAIN trying[p] \cap DOMAIN made[p] = {}
      /\ \A q \in DOMAIN made[p] : /\ q \in Below(p) /\ made[p][q] = Newest(conns, p, q)
                                   /\ made[p][q] \in Ids /\ ~Queued(conns, made[p][q])
  BY DEF SetupInv, Connecting
<1>7. ConnectorGoesOn(p)
  BY <1>2, <1>3, <1>4, <1>5, <1>6 DEF ConnectorGoesOn
<1> QED BY <1>7, ConnectorSetup

LEMMA ReturnSetup == \A p \in Parties : SetupInv /\ Return(p) => SetupInv'
<1> SUFFICES ASSUME NEW p \in Parties, SetupInv, Return(p) PROVE SetupInv'
  OBVIOUS
<1>1. /\ status[p] = "running" /\ accepting[p] \in {"ok", "err"} /\ Below(p) = DOMAIN made[p]
      /\ status' = [status EXCEPT ![p] = accepting[p]]
      /\ UNCHANGED <<listening, connecting, faults>> /\ conns \in Lists
  BY DEF Return, Running, SetupInv, Typed
<1>2. SameQueue(conns, conns')
  <2>1. CASE UNCHANGED conns
    BY <1>1, <2>1, SameItself
  <2>2. CASE \E hard \in BOOLEAN : conns' = Closed(conns, p, Range(made[p]), hard)
    <3>1. PICK hard \in BOOLEAN : conns' = Closed(conns, p, Range(made[p]), hard)
      BY <2>2
    <3> QED BY <1>1, <3>1, SameItself, ClosedBesides
  <2> QED BY <2>1, <2>2 DEF Return
<1>3. Listening' /\ Ordered' /\ Connecting'
  BY <1>1, <1>2, SameListening, SameConnecting DEF SetupInv, SameQueue
<1>4. /\ status' \in [Parties -> {"down", "running", "ok", "err"}] /\ status'[p] = accepting[p]
      /\ \A x \in Parties : x # p => status'[x] = status[x]
  BY <1>1 DEF SetupInv, Typed
<1>5. Ids' = Ids /\ conns' \in Lists
  BY <1>2, IdsAre DEF SameQueue, SamePairs, Ids, IdsOf
<1>6. Typed'
  BY <1>1, <1>4, <1>5 DEF SetupInv, Typed, listening, connecting
<1>7. CallsStand'
  BY <1>1, <1>4 DEF SetupInv, CallsStand, listening, connecting
<1> QED BY <1>3, <1>6, <1>7 DEF SetupInv

LEMMA CrashSetup == \A p \in Parties : SetupInv /\ Crash(p) => SetupInv'
<1> SUFFICES ASSUME NEW p \in Parties, SetupInv, Crash(p) PROVE SetupInv'
  OBVIOUS
<1>1. /\ faults < MaxFaults /\ faults' = faults + 1
      /\ status' = [status EXCEPT ![p] = "down"] /\ accepting' = [accepting EXCEPT ![p] = "off"]
      /\ backlog' = [backlog EXCEPT ![p] = << >>] /\ handling' = [handling EXCEPT ![p] = {}]
      /\ accepted' = [accepted EXCEPT ![p] = << >>] /\ trying' = [trying EXCEPT ![p] = << >>]
      /\ made' = [made EXCEPT ![p] = << >>]
  BY DEF Crash
<1>2. conns \in Lists
  BY DEF SetupInv, Typed
<1>3. SameQueue(conns, conns')
  <2>1. conns' = Closed(conns, p, {c \in Ids : p \in {c[1], c[2]}}, TRUE)
    BY DEF Crash
  <2> QED BY <1>2, <2>1, SameItself, ClosedBesides
<1>4. /\ Ids' = Ids /\ \A d : Later(conns', d) = Later(conns, d) /\ Later(conns, d) \subseteq Ids
      /\ \A d \in Ids : Queued(conns', d) <=> Queued(conns, d)
  <2>1. Ids' = IdsOf(conns') /\ IdsOf(conns') = IdsOf(conns) /\ Ids = IdsOf(conns)
    BY <1>3 DEF SameQueue, SamePairs, Ids, IdsOf
  <2> QED BY <1>3, <2>1, SameLater DEF SameQueue, SamePairs
<1>5. /\ DOMAIN << >> = {} /\ Len(<< >>) = 0 /\ 1 .. 0 = {} /\ << >> \in Seq(Ids)
  BY EmptySeq
<1>6. /\ status' \in [Parties -> {"down", "running", "ok", "err"}]
      /\ accepting' \in [Parties -> {"off", "on", "ok", "err"}]
      /\ status'[p] = "down" /\ accepting'[p] = "off"
      /\ \A x \in Parties : x # p => status'[x] = status[x] /\ accepting'[x] = accepting[x]
  BY <1>1 DEF SetupInv, Typed
<1>7. /\ DOMAIN handling' = Parties /\ DOMAIN accepted' = Parties /\ DOMAIN trying' = Parties
      /\ DOMAIN made' = Parties /\ handling'[p] = {}
      /\ DOMAIN accepted'[p] = {} /\ DOMAIN trying'[p] = {} /\ DOMAIN made'[p] = {}
      /\ \A x \in Parties : x # p => /\ handling'[x] = handling[x] /\ accepted'[x] = accepted[x]
                                     /\ trying'[x] = trying[x] /\ made'[x] = made[x]
  BY <1>1, <1>5 DEF SetupInv, Typed
<1>8. /\ backlog' \in [Parties -> Seq(Ids)] /\ backlog'[p] = << >> /\ Len(backlog'[p]) = 0
      /\ \A x \in Parties : x # p => backlog'[x] = backlog[x]
  BY <1>1, <1>5 DEF SetupInv, Typed
<1>9. Typed'
  <2>1. faults' \in 0 .. MaxFaults
    BY <1>1, MeshSetupAssumption DEF SetupInv, Typed
  <2>2. conns' \in Lists
    BY <1>3 DEF SameQueue, SamePairs
  <2> QED BY <2>1, <2>2, <1>4, <1>6, <1>7, <1>8 DEF Typed
<1>10. CallsStand'
  BY <1>6, <1>7 DEF SetupInv, CallsStand
<1>11. ASSUME NEW x \in Parties, x # p
       PROVE  /\ accepting'[x] = accepting[x] /\ handling'[x] = handling[x] /\ backlog'[x] = backlog[x]
              /\ accepted'[x] = accepted[x] /\ trying'[x] = trying[x] /\ made'[x] = made[x]
  BY <1>6, <1>7, <1>8, <1>11
<1>12. Listening'
  <2> SUFFICES ASSUME NEW x \in Parties
      PROVE  /\ handling'[x] \subseteq Ids /\ \A c, d \in handling'[x] : c = d
             /\ \A c \in handling'[x] : c[2] = x
             /\ \A i \in 1 .. Len(backlog'[x]) : backlog'[x][i][2] = x
             /\ DOMAIN accepted'[x] \subseteq Above(x)
             /\ \A q \in DOMAIN accepted'[x] :
                  accepted'[x][q] \in Ids /\ accepted'[x][q][1] = q /\ accepted'[x][q][2] = x
             /\ accepting'[x] # "on" => handling'[x] = {} /\ backlog'[x] = << >>
             /\ accepting'[x] = "ok" => DOMAIN accepted'[x] = Above(x)
    BY <1>4 DEF Listening
  <2>1. CASE x = p
    BY <1>5, <1>6, <1>7, <1>8, <2>1
  <2>2. CASE x # p
    BY <1>11, <2>2 DEF SetupInv, Listening
  <2> QED BY <2>1, <2>2
<1>13. Connecting'
  <2> SUFFICES ASSUME NEW x \in Parties
      PROVE  /\ DOMAIN trying'[x] \subseteq Below(x) /\ DOMAIN made'[x] \subseteq Below(x)
             /\ DOMAIN trying'[x] \cap DOMAIN made'[x] = {}
             /\ \A q \in DOMAIN trying'[x] : trying'[x][q] = Newest(conns', x, q) /\ trying'[x][q] \in Ids
             /\ \A q \in DOMAIN made'[x] : /\ made'[x][q] = Newest(conns', x, q) /\ made'[x][q] \in Ids
                                           /\ ~Queued(conns', made'[x][q])
    BY <1>4 DEF Connecting
  <2>1. CASE x = p
    BY <1>7, <2>1
  <2>2. CASE x # p
    <3>1. \A q \in Below(x) : Newest(conns', x, q) = Newest(conns, x, q)
      BY <1>3, SameNewest DEF SameQueue
    <3> QED BY <1>4, <1>11, <2>2, <3>1 DEF SetupInv, Connecting
  <2> QED BY <2>1, <2>2
<1>14. Ordered'
  <2> SUFFICES ASSUME NEW x \in Parties
      PROVE  /\ \A i \in 1 .. Len(backlog'[x]) :
                  /\ Queued(conns', backlog'[x][i])
                  /\ \A d \in Later(conns', backlog'[x][i]) : Queued(conns', d)
             /\ \A i, j \in 1 .. Len(backlog'[x]) :
                  i < j /\ backlog'[x][i][1] = backlog'[x][j][1] => backlog'[x][i][3] < backlog'[x][j][3]
             /\ \A e \in handling'[x] : \A d \in Later(conns', e) : Queued(conns', d)
             /\ \A q \in DOMAIN accepted'[x] : \A d \in Later(conns', accepted'[x][q]) :
                  Queued(conns', d) \/ d \in handling'[x] \/ accepting'[x] = "err"
    BY DEF Ordered
  <2>1. CASE x = p
    BY <1>5, <1>7, <1>8, <2>1
  <2>2. CASE x # p
    BY <1>4, <1>11, <2>2, BacklogIds DEF SetupInv, Ordered
  <2> QED BY <2>1, <2>2
<1> QED BY <1>9, <1>10, <1>12, <1>13, <1>14 DEF SetupInv

LEMMA BreakSetup == \A c \in Ids : SetupInv /\ Break(c) => SetupInv'
<1> SUFFICES ASSUME NEW c \in Ids, SetupInv, Break(c) PROVE SetupInv'
  OBVIOUS
<1>1. /\ conns \in Lists /\ c \in IdsOf(conns) /\ At(conns, c) \in Phases
  BY IdsAre, IdFacts DEF SetupInv, Typed
<1>2. PICK new : new = [At(conns, c) EXCEPT !.reset = TRUE]
  OBVIOUS
<1>3. new \in Phases /\ new.listener = At(conns, c).listener
  BY <1>1, <1>2 DEF Phases
<1>4. conns' = Replaced(conns, c, new)
  BY <1>2 DEF Break, Replaced, At
<1>5. /\ conns' \in Lists /\ IdsOf(conns') = IdsOf(conns)
      /\ \A pair \in Pairs : Len(conns'[pair]) = Len(conns[pair])
      /\ At(conns', c) = new
      /\ \A d \in IdsOf(conns) : d # c => At(conns', d) = At(conns, d)
  BY <1>1, <1>3, <1>4, OneChanged
<1>6. SameQueue(conns, conns')
  BY <1>3, <1>5 DEF SameQueue, SamePairs, Queued
<1>7. faults' \in 0 .. MaxFaults /\ UNCHANGED <<status, listening, connecting>>
  BY MeshSetupAssumption DEF Break, SetupInv, Typed
<1> QED BY <1>6, <1>7, PhasesOnly

LEMMA NextSetup == SetupInv /\ [Next]_vars => SetupInv'
<1> SUFFICES ASSUME SetupInv, [Next]_vars PROVE SetupInv'
  OBVIOUS
<1>1. CASE UNCHANGED vars
  <2>1. UNCHANGED <<status, conns, listening, connecting, faults>>
    BY <1>1 DEF vars
  <2>2. conns \in Lists /\ faults \in 0 .. MaxFaults
    BY DEF SetupInv, Typed
  <2> QED BY <2>1, <2>2, SameItself, PhasesOnly
<1>2. CASE Next
  BY <1>2, StartSetup, AcceptSetup, ListenerReadsSetup, SecuredSetup, ListenerFailsSetup, ConnectSetup,
     InitiatorReadsSetup, InitiatorFailsSetup, ReturnSetup, CrashSetup, BreakSetup
  DEF Next, Listen, Reach
<1> QED BY <1>1, <1>2

LEMMA SetupInvariance == Spec => []SetupInv
BY InitSetup, NextSetup, PTL DEF Spec

-----------------------------------------------------------------------------
(* The properties.                                                         *)

LEMMA InvTypeOK == SetupInv => TypeOK
<1> SUFFICES ASSUME SetupInv PROVE TypeOK
  OBVIOUS
<1>1. \A pair \in Pairs : Range(conns[pair]) \subseteq Phases
  <2> SUFFICES ASSUME NEW pair \in Pairs PROVE Range(conns[pair]) \subseteq Phases
    OBVIOUS
  <2>1. PICK s \in Seq(Phases) : s = conns[pair]
    BY DEF SetupInv, Typed, Lists
  <2>2. \A k \in DOMAIN s : s[k] \in Phases
    BY <2>1, LenProperties, ElementOfSeq
  <2> QED BY <2>1, <2>2 DEF Range
<1>2. ASSUME NEW p \in Parties
      PROVE  /\ Cardinality(handling[p]) <= 1
             /\ \A c \in handling[p] \cup Range(backlog[p]) \cup Range(accepted[p]) : c \in Ids /\ c[2] = p
             /\ \A q \in DOMAIN accepted[p] : q \in Above(p) /\ accepted[p][q][1] = q
             /\ DOMAIN trying[p] \cup DOMAIN made[p] \subseteq Below(p)
             /\ DOMAIN trying[p] \cap DOMAIN made[p] = {}
  <2>1. Cardinality(handling[p]) <= 1
    <3>1. \A c, d \in handling[p] : c = d
      BY DEF SetupInv, Listening
    <3>2. handling[p] = {} \/ \E c : handling[p] = {c}
      BY <3>1
    <3>3. CASE handling[p] = {}
      <4>1. Cardinality({}) = 0
        BY FS_EmptySet
      <4> QED BY <3>3, <4>1
    <3>4. CASE \E c : handling[p] = {c}
      <4>1. PICK c : handling[p] = {c}
        BY <3>4
      <4>2. Cardinality({c}) = 1
        BY FS_Singleton
      <4> QED BY <4>1, <4>2
    <3> QED BY <3>2, <3>3, <3>4
  <2>2. \A c \in Range(backlog[p]) : c \in Ids /\ c[2] = p
    <3>1. DOMAIN backlog[p] = 1 .. Len(backlog[p])
      BY BacklogIds, LenProperties DEF SetupInv
    <3>2. \A i \in 1 .. Len(backlog[p]) : backlog[p][i] \in Ids /\ backlog[p][i][2] = p
      BY BacklogIds DEF SetupInv, Listening
    <3> QED BY <3>1, <3>2 DEF Range
  <2>3. \A c \in Range(accepted[p]) : c \in Ids /\ c[2] = p
    BY DEF Range, SetupInv, Listening
  <2> QED BY <2>1, <2>2, <2>3 DEF SetupInv, Listening, Connecting
<1> QED BY <1>1, <1>2 DEF TypeOK, SetupInv, Typed

LEMMA InvOneConnection == SetupInv => OneConnection
<1> SUFFICES ASSUME SetupInv, NEW p \in Parties, status[p] = "ok"
             PROVE  /\ DOMAIN accepted[p] = Above(p) /\ DOMAIN made[p] = Below(p)
                    /\ \A q \in Below(p) : status[q] = "ok" => accepted[q][p] = made[p][q]
  BY DEF OneConnection
<1>1. ASSUME NEW x \in Parties, status[x] = "ok"
      PROVE  accepting[x] = "ok" /\ DOMAIN accepted[x] = Above(x) /\ DOMAIN made[x] = Below(x)
  BY <1>1 DEF SetupInv, CallsStand, Listening
<1>2. ASSUME NEW q \in Below(p), status[q] = "ok" PROVE accepted[q][p] = made[p][q]
  <2>1. q \in Parties /\ p \in Above(q)
    BY DEF Below, Above, Parties
  <2>2. /\ accepting[q] = "ok" /\ p \in DOMAIN accepted[q] /\ q \in DOMAIN made[p] /\ handling[q] = {}
    BY <1>1, <1>2, <2>1 DEF SetupInv, Listening
  <2>3. PICK c : c = accepted[q][p]
    OBVIOUS
  <2>4. PICK m : m = made[p][q]
    OBVIOUS
  <2>5. /\ c \in Ids /\ c[1] = p /\ c[2] = q
        /\ \A d \in Later(conns, c) : Queued(conns, d) \/ d \in handling[q] \/ accepting[q] = "err"
    BY <2>1, <2>2, <2>3 DEF SetupInv, Listening, Ordered
  <2>6. m = Newest(conns, p, q) /\ m \in Ids /\ ~Queued(conns, m)
    BY <2>2, <2>4 DEF SetupInv, Connecting
  <2>7. PICK n \in Nat : n = Len(conns[<<p, q>>])
    <3>1. <<p, q>> \in Pairs
      BY <2>1 DEF Pairs, Below
    <3>2. conns[<<p, q>>] \in Seq(Phases)
      BY <3>1 DEF SetupInv, Typed, Lists
    <3> QED BY <3>2, LenProperties
  <2>8. m = <<p, q, n>>
    BY <2>6, <2>7 DEF Newest
  <2>9. c = <<p, q, c[3]>> /\ c[3] \in 1 .. n
    BY <2>5, <2>7, IdsAre, IdFacts DEF SetupInv, Typed
  <2>10. m \notin Later(conns, c)
    BY <2>2, <2>5, <2>6
  <2>11. ~(n > c[3])
    BY <2>5, <2>6, <2>8, <2>10, IdsAre DEF Later
  <2> QED BY <2>3, <2>4, <2>8, <2>9, <2>11
<1> QED BY <1>1, <1>2

\* Every variable keeps its type, whatever is reset or dies: the accept loop of
\* from_identities is in the middle of one connection at most, what it has taken
\* or waits to be taken are connections to its party, and a connector that has
\* its connection tries no other.
THEOREM TypeCorrect == Spec => []TypeOK
BY SetupInvariance, InvTypeOK, PTL

\* What from_identities returns connects the parties pairwise: a network has a
\* channel to every other party, and two that have been returned have one
\* connection between them, not two that each of them holds one end of, after
\* any number of failed handshakes, retries, resets and new starts.
THEOREM PairwiseConnected == Spec => []OneConnection
BY SetupInvariance, InvOneConnection, PTL

=============================================================================
