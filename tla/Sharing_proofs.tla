--------------------------- MODULE Sharing_proofs ---------------------------
(***************************************************************************)
(* The arithmetic of the additive scheme for every number of parties,      *)
(* modulus, word and circuit.                                              *)
(*                                                                         *)
(* Shares stay residues, and where two residues of the modulus add up to   *)
(* less than a word holds, no build panics: the invariant needs, besides   *)
(* the types, that the shares a loop over the other parties is still to    *)
(* add up have come (SumReady).                                            *)
(*                                                                         *)
(* Reveals give the value of the circuit in the clear, and the parties     *)
(* implement its evaluation: the invariant (ValueInv) says of every        *)
(* operation by itself what its shares are, wherever they are (Right), so  *)
(* that a step has to be looked at for the operation it is about alone;    *)
(* what shares stand for then follows by induction over the list.  The     *)
(* folds of the model (sums over the parties, values along the list) are   *)
(* unfolded by induction over the natural numbers, which is proved from    *)
(* the well-foundedness of their order.                                    *)
(***************************************************************************)
EXTENDS Sharing, FiniteSetTheorems, WellFoundedInduction, TLAPS

Table(f) == f = [p \in Parties |-> f[p]] /\ \A p \in Parties : Shares(f[p])

CircuitOK == ops \in Circuits /\ given \in [InputWires(ops) -> Values] /\ next \in [Parties -> Nat]
StatusOK ==
  /\ status \in [Parties -> {"up", "panicked"}]
  /\ 2 * M <= Word => NeverPanics
TablesOK == Table(user_inputs) /\ Table(pending) /\ Table(wires)
LoopsOK ==
  /\ loop \in [Parties -> {NoLoop} \cup DealLoops \cup SumLoops]
  /\ \A p \in Parties : loop[p] # NoLoop => loop[p].left \subseteq Peers(p)
TransitOK ==
  /\ in_transit = [l \in Links |-> in_transit[l]]
  /\ \A l \in Links : Shares(in_transit[l])
SumReady ==
  \A p \in Parties : loop[p].doing = "sum" =>
    \A q \in loop[p].left : loop[p].output \in DOMAIN in_transit[<<q, p>>]

IInv == CircuitOK /\ StatusOK /\ TablesOK /\ LoopsOK /\ TransitOK /\ SumReady

-----------------------------------------------------------------------------
(* Words and residues.                                                     *)

LEMMA ConstantsOK == N \in Nat /\ M \in Nat /\ M > 0 /\ Word \in Nat /\ M < Word /\ 0 \in Residues
  BY SharingAssumption DEF Residues

\* Whatever a sum comes to in a word, it is reduced to a residue.
LEMMA ReducedOK == \A x \in Int : Reduced(x) \in Residues
<1>1. \A x \in Int : x % Word \in Int
  BY ConstantsOK
<1>2. \A y \in Int : y % M \in 0 .. M - 1
  BY ConstantsOK
<1> QED
  BY <1>1, <1>2 DEF Reduced, Residues

\* Nothing overflows below twice the modulus when that is a word.
LEMMA Fits ==
  ASSUME 2 * M <= Word, NEW x \in 0 .. 2 * M - 1
  PROVE  ~Overflows(x)
  BY ConstantsOK DEF Overflows

LEMMA SharesPut ==
  ASSUME NEW f, Shares(f), NEW w \in Outputs, NEW v \in Residues
  PROVE  Shares(Put(f, w, v))
  BY DEF Shares, Put

LEMMA SharesRestrict ==
  ASSUME NEW f, Shares(f), NEW S
  PROVE  Shares(Restrict(f, DOMAIN f \ S))
  BY DEF Shares, Restrict

LEMMA TableUpdate ==
  ASSUME NEW f, Table(f), NEW p \in Parties, NEW g, Shares(g)
  PROVE  Table([f EXCEPT ![p] = g])
<1>1. [f EXCEPT ![p] = g] = [q \in Parties |-> IF q = p THEN g ELSE f[q]]
  BY DEF Table
<1> QED
  BY <1>1 DEF Table

\* The output of an operation of the circuit.
LEMMA OutputOK ==
  ASSUME CircuitOK, NEW op \in Range(ops)
  PROVE  op.output \in Outputs
  BY DEF CircuitOK, Outputs

\* The operation that a party starts, and the shares it reads.
LEMMA StartsOK ==
  ASSUME CircuitOK, TablesOK, NEW p \in Parties, NEW op, Starts(p, op)
  PROVE  /\ op \in Range(ops) /\ op.output \in Outputs
         /\ status[p] = "up" /\ loop[p] = NoLoop
         /\ \A i \in DOMAIN op.inputs : wires[p][op.inputs[i]] \in Residues
<1>1. op \in Range(ops)
  BY DEF Starts, Range
<1>2. \A i \in DOMAIN op.inputs : op.inputs[i] \in DOMAIN wires[p]
  BY DEF Starts, Range
<1>3. wires[p] \in [DOMAIN wires[p] -> Residues]
  BY DEF TablesOK, Table, Shares
<1> QED
  BY <1>1, <1>2, <1>3, OutputOK DEF Starts, Up

LEMMA AdvanceOK ==
  ASSUME CircuitOK, NEW p \in Parties, Advance(p), UNCHANGED <<ops, given>>
  PROVE  CircuitOK'
  BY DEF CircuitOK, Advance

LEMMA CircuitFrame == CircuitOK /\ UNCHANGED <<ops, given, next>> => CircuitOK'
  BY DEF CircuitOK
LEMMA StatusFrame == StatusOK /\ UNCHANGED status => StatusOK'
  BY DEF StatusOK, NeverPanics
LEMMA LoopsFrame == LoopsOK /\ UNCHANGED loop => LoopsOK'
  BY DEF LoopsOK
LEMMA TransitFrame == TransitOK /\ UNCHANGED in_transit => TransitOK'
  BY DEF TransitOK
LEMMA SumFrame == SumReady /\ UNCHANGED <<loop, in_transit>> => SumReady'
  BY DEF SumReady

\* A party may panic only where twice the modulus does not fit a word.
LEMMA PanicOK ==
  ASSUME IInv, NEW p \in Parties, Panic(p), ~(2 * M <= Word)
  PROVE  IInv'
<1>1. StatusOK'
  BY DEF IInv, StatusOK, Panic
<1> QED
  BY <1>1, CircuitFrame, LoopsFrame, TransitFrame, SumFrame DEF IInv, Panic, TablesOK, Table

LEMMA InitOK == Init => IInv
<1> SUFFICES ASSUME Init PROVE IInv
  OBVIOUS
<1>1. Shares(<< >>)
  BY DEF Shares
<1>2. TablesOK /\ TransitOK
  BY <1>1 DEF Init, TablesOK, Table, TransitOK
<1>3. CircuitOK /\ StatusOK
  BY DEF Init, CircuitOK, StatusOK, NeverPanics
<1>4. LoopsOK /\ SumReady
  BY DEF Init, LoopsOK, SumReady, NoLoop
<1> QED
  BY <1>2, <1>3, <1>4 DEF IInv

\* A loop begins, goes on or ends.
LEMMA LoopUpdate ==
  ASSUME LoopsOK, NEW p \in Parties, NEW g \in {NoLoop} \cup DealLoops \cup SumLoops,
         g # NoLoop => g.left \subseteq Peers(p), loop' = [loop EXCEPT ![p] = g]
  PROVE  LoopsOK'
  BY DEF LoopsOK

\* Whose shares a party is adding up.
LEMMA Summing ==
  ASSUME LoopsOK, NEW p \in Parties, loop[p].doing = "sum"
  PROVE  loop[p] \in SumLoops /\ \A q \in loop[p].left : q \in Parties /\ <<q, p>> \in Links
<1>1. loop[p] # NoLoop /\ loop[p] \in SumLoops
  BY DEF LoopsOK, NoLoop, DealLoops
<1> QED
  BY <1>1 DEF LoopsOK, Peers, Links

\* Sends only add to what is in transit.
LEMMA SumGrows ==
  ASSUME LoopsOK, SumReady, NEW p \in Parties, NEW g, g.doing # "sum",
         loop' = loop \/ loop' = [loop EXCEPT ![p] = g],
         \A l \in Links : DOMAIN in_transit[l] \subseteq DOMAIN (in_transit'[l])
  PROVE  SumReady'
<1> SUFFICES ASSUME NEW r \in Parties, loop'[r].doing = "sum", NEW q \in loop'[r].left
             PROVE  loop'[r].output \in DOMAIN (in_transit'[<<q, r>>])
  BY DEF SumReady
<1>1. loop'[r] = loop[r]
  BY DEF LoopsOK
<1>2. <<q, r>> \in Links /\ loop[r].output \in DOMAIN in_transit[<<q, r>>]
  BY <1>1, Summing DEF SumReady
<1> QED
  BY <1>1, <1>2

-----------------------------------------------------------------------------
(* The actions.                                                            *)

LEMMA PrepareOK ==
  ASSUME IInv, NEW p \in Parties, PrepareUserInput(p)
  PROVE  IInv'
<1> DEFINE inputs == [w \in Mine(p) |-> given[w] % M]
<1>1. CircuitOK'
  BY DEF IInv, CircuitOK, PrepareUserInput
<1>2. Shares(inputs)
  <2>1. \A w \in Mine(p) : w \in InputWires(ops) /\ w \in Outputs
    BY DEF Mine, InputWires, IsInputOf, IInv, CircuitOK, Outputs
  <2>2. \A w \in Mine(p) : given[w] \in Nat
    BY <2>1, SharingAssumption DEF IInv, CircuitOK
  <2>3. \A w \in Mine(p) : given[w] % M \in Residues
    BY <2>2, ConstantsOK DEF Residues
  <2> QED
    BY <2>1, <2>3 DEF Shares
<1>3. Table([user_inputs EXCEPT ![p] = inputs])
  BY <1>2, TableUpdate DEF IInv, TablesOK
<1>4. TablesOK'
  BY <1>3 DEF IInv, TablesOK, PrepareUserInput, Table
<1> QED
  BY <1>1, <1>4, StatusFrame, LoopsFrame, TransitFrame, SumFrame DEF IInv, PrepareUserInput

LEMMA DealInputOK ==
  ASSUME IInv, NEW p \in Parties, NEW op, DealInput(p, op)
  PROVE  IInv'
<1> DEFINE input == IF op.output \in DOMAIN user_inputs[p] THEN user_inputs[p][op.output] % M ELSE 0
           deal == [doing |-> "deal", output |-> op.output, left |-> Peers(p), total |-> 0, input |-> input]
<1>1. op.output \in Outputs /\ loop[p] = NoLoop
  BY StartsOK DEF DealInput, IInv
<1>2. input \in Residues
  <2>1. ASSUME op.output \in DOMAIN user_inputs[p] PROVE user_inputs[p][op.output] \in Residues
    BY <2>1 DEF IInv, TablesOK, Table, Shares
  <2> QED
    BY <2>1, ConstantsOK DEF Residues
<1>3. deal \in DealLoops
  BY <1>1, <1>2, ConstantsOK DEF DealLoops, Peers
<1>4. LoopsOK'
  BY <1>3, LoopUpdate DEF IInv, DealInput
<1>5. SumReady'
  BY SumGrows, deal.doing # "sum" DEF IInv, DealInput
<1>6. TablesOK'
  <2>1. Shares(Restrict(user_inputs[p], DOMAIN user_inputs[p] \ {op.output}))
    BY SharesRestrict DEF IInv, TablesOK, Table
  <2>2. Table([user_inputs EXCEPT ![p] = Restrict(user_inputs[p], DOMAIN user_inputs[p] \ {op.output})])
    BY <2>1, TableUpdate DEF IInv, TablesOK
  <2> QED
    BY <2>2 DEF IInv, TablesOK, DealInput, Table
<1> QED
  BY <1>4, <1>5, <1>6, AdvanceOK, StatusFrame, TransitFrame DEF IInv, DealInput

\* The dealer that a party is.
LEMMA Dealing ==
  ASSUME LoopsOK, NEW p \in Parties, loop[p].doing = "deal"
  PROVE  /\ loop[p] \in DealLoops /\ loop[p].left \subseteq Peers(p)
         /\ loop[p].total \in Residues /\ loop[p].input \in Residues /\ loop[p].output \in Outputs
<1>1. loop[p] # NoLoop /\ loop[p] \in DealLoops
  BY DEF LoopsOK, NoLoop, SumLoops
<1> QED
  BY <1>1 DEF LoopsOK, DealLoops

LEMMA TwoResidues ==
  ASSUME NEW x \in Residues, NEW y \in Residues
  PROVE  /\ x + y \in Int /\ x + M \in Int /\ (x + M) - y \in Int
         /\ x + y \in 0 .. 2 * M - 1 /\ x + M \in 0 .. 2 * M - 1 /\ (x + M) - y \in 0 .. 2 * M - 1
  BY ConstantsOK DEF Residues

LEMMA DealShareOK ==
  ASSUME IInv, NEW p \in Parties, NEW q \in Peers(p), DealShare(p, q)
  PROVE  IInv'
<1>1. PICK share \in Residues :
        \/ Overflows(loop[p].total + share) /\ Panic(p)
        \/ /\ ~Overflows(loop[p].total + share)
           /\ loop' = [loop EXCEPT ![p].left = @ \ {q},
                                   ![p].total = Reduced(loop[p].total + share)]
           /\ in_transit' = [in_transit EXCEPT ![<<p, q>>] = Put(@, loop[p].output, share)]
           /\ UNCHANGED <<ops, given, user_inputs, next, pending, wires, status>>
  BY DEF DealShare
<1>2. /\ loop[p] \in DealLoops /\ loop[p].left \subseteq Peers(p)
      /\ loop[p].total \in Residues /\ loop[p].output \in Outputs
  BY Dealing DEF DealShare, IInv
<1>3. CASE Overflows(loop[p].total + share) /\ Panic(p)
  BY <1>2, <1>3, TwoResidues, Fits, PanicOK
<1>4. CASE /\ loop' = [loop EXCEPT ![p].left = @ \ {q},
                                   ![p].total = Reduced(loop[p].total + share)]
           /\ in_transit' = [in_transit EXCEPT ![<<p, q>>] = Put(@, loop[p].output, share)]
           /\ UNCHANGED <<ops, given, user_inputs, next, pending, wires, status>>
  <2> DEFINE deal == [loop[p] EXCEPT !.left = @ \ {q}, !.total = Reduced(loop[p].total + share)]
  <2>1. Reduced(loop[p].total + share) \in Residues
    BY <1>2, ReducedOK, TwoResidues
  <2>2. deal \in DealLoops /\ deal.left \subseteq Peers(p) /\ deal.doing # "sum"
    BY <1>2, <2>1 DEF DealLoops
  <2>3. loop' = [loop EXCEPT ![p] = deal]
    BY <1>4, <1>2 DEF IInv, LoopsOK
  <2>4. LoopsOK'
    BY <2>2, <2>3, LoopUpdate DEF IInv
  <2>5. Shares(Put(in_transit[<<p, q>>], loop[p].output, share)) /\ <<p, q>> \in Links
    BY <1>2, SharesPut DEF IInv, TransitOK, Links, Peers
  <2>6. TransitOK'
    BY <1>4, <2>5 DEF IInv, TransitOK
  <2>7. \A l \in Links : DOMAIN in_transit[l] \subseteq DOMAIN (in_transit'[l])
    BY <1>4, <2>5 DEF IInv, TransitOK, Put
  <2>8. SumReady'
    BY <2>2, <2>3, <2>7, SumGrows DEF IInv
  <2> QED
    BY <1>4, <2>4, <2>6, <2>8, CircuitFrame, StatusFrame DEF IInv, TablesOK, Table
<1> QED
  BY <1>1, <1>3, <1>4

LEMMA KeepShareOK ==
  ASSUME IInv, NEW p \in Parties, KeepShare(p)
  PROVE  IInv'
<1> DEFINE sum == loop[p].input + M
           rest == sum - loop[p].total
<1>1. loop[p].total \in Residues /\ loop[p].input \in Residues /\ loop[p].output \in Outputs
  BY Dealing DEF KeepShare, IInv
<1>2. sum \in 0 .. 2 * M - 1 /\ rest \in 0 .. 2 * M - 1 /\ rest \in Int
  BY <1>1, TwoResidues
<1>3. CASE (Overflows(sum) \/ Overflows(rest)) /\ Panic(p)
  BY <1>2, <1>3, Fits, PanicOK
<1>4. CASE /\ pending' = [pending EXCEPT ![p] = Put(@, loop[p].output, Reduced(rest))]
           /\ loop' = [loop EXCEPT ![p] = NoLoop]
           /\ UNCHANGED <<ops, given, user_inputs, next, in_transit, wires, status>>
  <2>1. Shares(Put(pending[p], loop[p].output, Reduced(rest)))
    BY <1>1, <1>2, ReducedOK, SharesPut DEF IInv, TablesOK, Table
  <2>2. Table([pending EXCEPT ![p] = Put(pending[p], loop[p].output, Reduced(rest))])
    BY <2>1, TableUpdate DEF IInv, TablesOK
  <2>3. TablesOK'
    BY <1>4, <2>2 DEF IInv, TablesOK, Table
  <2>4. LoopsOK' /\ SumReady'
    BY <1>4, LoopUpdate, SumGrows, NoLoop.doing # "sum" DEF IInv, NoLoop
  <2> QED
    BY <1>4, <2>3, <2>4, CircuitFrame, StatusFrame, TransitFrame DEF IInv
<1> QED
  BY <1>3, <1>4 DEF KeepShare

LEMMA AwaitInputOK ==
  ASSUME IInv, NEW p \in Parties, NEW op, AwaitInput(p, op)
  PROVE  IInv'
<1>1. op.output \in Outputs
  BY StartsOK DEF AwaitInput, IInv
<1>2. Shares(Put(pending[p], op.output, 0))
  BY <1>1, ConstantsOK, SharesPut DEF IInv, TablesOK, Table
<1>3. Table([pending EXCEPT ![p] = Put(pending[p], op.output, 0)])
  BY <1>2, TableUpdate DEF IInv, TablesOK
<1>4. TablesOK'
  BY <1>3 DEF IInv, TablesOK, Table, AwaitInput
<1> QED
  BY <1>4, AdvanceOK, StatusFrame, LoopsFrame, TransitFrame, SumFrame DEF IInv, AwaitInput

\* A party that gets a share of a wire.
LEMMA WireOK ==
  ASSUME TablesOK, NEW p \in Parties, NEW w \in Outputs, NEW v \in Residues,
         wires' = [wires EXCEPT ![p] = Put(@, w, v)],
         pending' = pending, user_inputs' = user_inputs
  PROVE  TablesOK'
<1>1. Table([wires EXCEPT ![p] = Put(wires[p], w, v)])
  BY SharesPut, TableUpdate DEF TablesOK, Table
<1> QED
  BY <1>1 DEF TablesOK, Table

LEMMA GenerateRandomOK ==
  ASSUME IInv, NEW p \in Parties, NEW op, GenerateRandom(p, op)
  PROVE  IInv'
<1>1. PICK my_share \in Residues : wires' = [wires EXCEPT ![p] = Put(@, op.output, my_share)]
  BY DEF GenerateRandom
<1>2. op.output \in Outputs
  BY StartsOK DEF GenerateRandom, IInv
<1>3. TablesOK'
  BY <1>1, <1>2, WireOK DEF IInv, GenerateRandom
<1> QED
  BY <1>3, AdvanceOK, StatusFrame, LoopsFrame, TransitFrame, SumFrame DEF IInv, GenerateRandom

LEMMA AddSharesOK ==
  ASSUME IInv, NEW p \in Parties, NEW op, AddShares(p, op)
  PROVE  IInv'
<1> DEFINE sum == wires[p][op.inputs[1]] + wires[p][op.inputs[2]]
<1>1. op \in Range(ops) /\ op.output \in Outputs
  BY StartsOK DEF AddShares, IInv
<1>2. {1, 2} \subseteq DOMAIN op.inputs
  BY <1>1, CircuitsAssumption DEF AddShares, IInv, CircuitOK
<1>3. wires[p][op.inputs[1]] \in Residues /\ wires[p][op.inputs[2]] \in Residues
  BY <1>2, StartsOK DEF AddShares, IInv
<1>4. sum \in 0 .. 2 * M - 1 /\ Reduced(sum) \in Residues
  BY <1>3, TwoResidues, ReducedOK
<1>5. CASE Overflows(sum) /\ Panic(p)
  BY <1>4, <1>5, Fits, PanicOK
<1>6. CASE /\ wires' = [wires EXCEPT ![p] = Put(@, op.output, Reduced(sum))]
           /\ Advance(p)
           /\ UNCHANGED <<ops, given, user_inputs, loop, pending, in_transit, status>>
  <2>1. TablesOK'
    BY <1>1, <1>4, <1>6, WireOK DEF IInv
  <2> QED
    BY <1>6, <2>1, AdvanceOK, StatusFrame, LoopsFrame, TransitFrame, SumFrame DEF IInv
<1> QED
  BY <1>5, <1>6 DEF AddShares

LEMMA OpenShareOK ==
  ASSUME IInv, NEW p \in Parties, NEW op, OpenShare(p, op)
  PROVE  IInv'
<1> DEFINE my_share == wires[p][op.inputs[1]]
<1>1. op \in Range(ops) /\ op.output \in Outputs
  BY StartsOK DEF OpenShare, IInv
<1>2. my_share \in Residues
  BY <1>1, StartsOK, CircuitsAssumption DEF OpenShare, IInv, CircuitOK
<1>3. Table([pending EXCEPT ![p] = Put(pending[p], op.output, my_share)])
  BY <1>1, <1>2, SharesPut, TableUpdate DEF IInv, TablesOK, Table
<1>4. TablesOK'
  BY <1>3 DEF IInv, TablesOK, Table, OpenShare
<1>5. \A l \in Links : Shares(Put(in_transit[l], op.output, my_share))
  BY <1>1, <1>2, SharesPut DEF IInv, TransitOK
<1>6. TransitOK'
  BY <1>5 DEF IInv, TransitOK, OpenShare
<1>7. \A l \in Links : DOMAIN in_transit[l] \subseteq DOMAIN (in_transit'[l])
  BY DEF OpenShare, Put
<1>8. SumReady'
  BY <1>7, SumGrows, NoLoop.doing # "sum" DEF IInv, OpenShare, NoLoop
<1> QED
  BY <1>4, <1>6, <1>8, AdvanceOK, StatusFrame, LoopsFrame DEF IInv, OpenShare

\* What a party takes off the links to it leaves its own sum alone, since it
\* is in none, and every other party's.
LEMMA SumShrinks ==
  ASSUME LoopsOK, SumReady, NEW p \in Parties, loop[p] = NoLoop, loop' = loop,
         \A l \in Links : l[2] # p => in_transit'[l] = in_transit[l]
  PROVE  SumReady'
<1> SUFFICES ASSUME NEW r \in Parties, loop[r].doing = "sum", NEW q \in loop[r].left
             PROVE  loop[r].output \in DOMAIN (in_transit'[<<q, r>>])
  BY DEF SumReady
<1>1. <<q, r>> \in Links /\ r # p
  BY Summing DEF NoLoop
<1> QED
  BY <1>1 DEF SumReady

LEMMA FinalizeInputOK ==
  ASSUME IInv, NEW p \in Parties, NEW op \in Range(ops), FinalizeInput(p, op)
  PROVE  IInv'
<1> DEFINE link == <<op.party_id, p>>
           share == IF IsInputOf(op, p) THEN pending[p][op.output] ELSE in_transit[link][op.output] % M
<1>1. op.output \in Outputs /\ op.kind = "Input" /\ loop[p] = NoLoop /\ op.output \in DOMAIN pending[p]
  BY OutputOK DEF FinalizeInput, Finalizes, IInv
<1>2. share \in Residues
  <2>1. CASE IsInputOf(op, p)
    BY <1>1, <2>1 DEF IInv, TablesOK, Table, Shares
  <2>2. CASE ~IsInputOf(op, p)
    <3>1. op.party_id \in Peers(p)
      BY <1>1, <2>2, CircuitsAssumption DEF IInv, CircuitOK, IsInputOf, Peers
    <3>2. link \in Links /\ op.output \in DOMAIN in_transit[link]
      BY <1>1, <3>1 DEF FinalizeInput, Finalizes, Receives, IsInputOf, Links, Peers
    <3>3. in_transit[link][op.output] \in Residues
      BY <3>2 DEF IInv, TransitOK, Shares
    <3> QED
      BY <2>2, <3>3, ConstantsOK DEF Residues
  <2> QED
    BY <2>1, <2>2
<1>3. Table([wires EXCEPT ![p] = Put(wires[p], op.output, share)])
  BY <1>1, <1>2, SharesPut, TableUpdate DEF IInv, TablesOK, Table
<1>4. Shares(NoLonger(pending[p], op)) /\ \A l \in Links : Shares(NoLonger(in_transit[l], op))
  BY SharesRestrict DEF NoLonger, IInv, TablesOK, Table, TransitOK
<1>5. Table([pending EXCEPT ![p] = NoLonger(pending[p], op)])
  BY <1>4, TableUpdate DEF IInv, TablesOK
<1>6. TablesOK'
  BY <1>3, <1>5 DEF IInv, TablesOK, Table, FinalizeInput
<1>7. TransitOK'
  BY <1>4 DEF IInv, TransitOK, FinalizeInput
<1>8. \A l \in Links : l[2] # p => in_transit'[l] = in_transit[l]
  BY DEF FinalizeInput
<1>9. SumReady'
  BY <1>1, <1>8, SumShrinks DEF IInv, FinalizeInput
<1> QED
  BY <1>6, <1>7, <1>9, CircuitFrame, StatusFrame, LoopsFrame DEF IInv, FinalizeInput

LEMMA FinalizeRevealOK ==
  ASSUME IInv, NEW p \in Parties, NEW op \in Range(ops), FinalizeReveal(p, op)
  PROVE  IInv'
<1> DEFINE adding == [doing |-> "sum", output |-> op.output, left |-> Peers(p),
                      total |-> pending[p][op.output]]
<1>1. op.output \in Outputs /\ op.kind = "Reveal" /\ op.output \in DOMAIN pending[p]
  BY OutputOK DEF FinalizeReveal, Finalizes, IInv
<1>2. pending[p][op.output] \in Residues
  BY <1>1 DEF IInv, TablesOK, Table, Shares
<1>3. adding \in SumLoops
  BY <1>1, <1>2 DEF SumLoops, Peers
<1>4. LoopsOK'
  BY <1>3, LoopUpdate DEF IInv, FinalizeReveal
<1>5. Shares(NoLonger(pending[p], op))
  BY SharesRestrict DEF NoLonger, IInv, TablesOK, Table
<1>6. Table([pending EXCEPT ![p] = NoLonger(pending[p], op)])
  BY <1>5, TableUpdate DEF IInv, TablesOK
<1>7. TablesOK'
  BY <1>6 DEF IInv, TablesOK, Table, FinalizeReveal
<1>8. \A q \in Peers(p) : op.output \in DOMAIN in_transit[<<q, p>>]
  BY <1>1 DEF FinalizeReveal, Finalizes, Receives, Peers
<1>9. SumReady'
  <2>1. loop' = [loop EXCEPT ![p] = adding] /\ in_transit' = in_transit
    BY DEF FinalizeReveal
  <2>2. ASSUME NEW r \in Parties, r # p PROVE loop'[r] = loop[r]
    BY <2>1, <2>2 DEF IInv, LoopsOK
  <2>3. loop'[p] = adding
    BY <2>1 DEF IInv, LoopsOK
  <2> QED
    BY <1>8, <2>1, <2>2, <2>3 DEF IInv, SumReady
<1> QED
  BY <1>4, <1>7, <1>9, CircuitFrame, StatusFrame, TransitFrame DEF IInv, FinalizeReveal

LEMMA AddReceivedOK ==
  ASSUME IInv, NEW p \in Parties, NEW q \in Peers(p), AddReceived(p, q)
  PROVE  IInv'
<1> DEFINE output == loop[p].output
           sum == loop[p].total + in_transit[<<q, p>>][output]
           adding == [loop[p] EXCEPT !.left = @ \ {q}, !.total = Reduced(sum)]
<1>1. /\ loop[p].doing = "sum" /\ loop[p] \in SumLoops /\ loop[p] # NoLoop
      /\ q \in loop[p].left /\ <<q, p>> \in Links /\ loop[p].left \subseteq Peers(p)
  BY Summing DEF AddReceived, Turn, IInv, LoopsOK, SumLoops, NoLoop
<1>2. loop[p].total \in Residues /\ in_transit[<<q, p>>][output] \in Residues
  BY <1>1 DEF IInv, SumReady, TransitOK, Shares, SumLoops
<1>3. sum \in 0 .. 2 * M - 1 /\ Reduced(sum) \in Residues
  BY <1>2, TwoResidues, ReducedOK
<1>4. CASE Overflows(sum) /\ Panic(p)
  BY <1>3, <1>4, Fits, PanicOK
<1>5. CASE /\ loop' = [loop EXCEPT ![p].left = @ \ {q}, ![p].total = Reduced(sum)]
           /\ in_transit' = [in_transit EXCEPT ![<<q, p>>] = Restrict(@, DOMAIN @ \ {output})]
           /\ UNCHANGED <<ops, given, user_inputs, next, pending, wires, status>>
  <2>1. loop' = [loop EXCEPT ![p] = adding]
    BY <1>1, <1>5 DEF IInv, LoopsOK
  <2>2. adding \in SumLoops /\ adding.left = loop[p].left \ {q} /\ adding.output = output
    BY <1>1, <1>3 DEF SumLoops
  <2>3. LoopsOK'
    BY <1>1, <2>1, <2>2, LoopUpdate DEF IInv
  <2>4. Shares(Restrict(in_transit[<<q, p>>], DOMAIN in_transit[<<q, p>>] \ {output}))
    BY <1>1, SharesRestrict DEF IInv, TransitOK
  <2>5. TransitOK'
    BY <1>5, <2>4 DEF IInv, TransitOK
  <2>6. SumReady'
    <3> SUFFICES ASSUME NEW r \in Parties, loop'[r].doing = "sum", NEW s \in loop'[r].left
                 PROVE  loop'[r].output \in DOMAIN (in_transit'[<<s, r>>])
      BY DEF SumReady
    <3>1. s \in loop[r].left /\ loop'[r].output = loop[r].output /\ loop[r].doing = "sum" /\ <<s, r>> # <<q, p>>
      BY <1>1, <2>1, <2>2 DEF IInv, LoopsOK
    <3>2. <<s, r>> \in Links /\ loop[r].output \in DOMAIN in_transit[<<s, r>>]
      BY <3>1, Summing DEF IInv, SumReady
    <3> QED
      BY <1>5, <3>1, <3>2 DEF IInv, TransitOK
  <2> QED
    BY <1>5, <2>3, <2>5, <2>6, CircuitFrame, StatusFrame DEF IInv, TablesOK, Table
<1> QED
  BY <1>4, <1>5 DEF AddReceived

LEMMA FinishRevealOK ==
  ASSUME IInv, NEW p \in Parties, FinishReveal(p)
  PROVE  IInv'
<1>1. loop[p].output \in Outputs /\ loop[p].total \in Residues
  BY Summing DEF IInv, FinishReveal, SumLoops
<1>2. TablesOK'
  BY <1>1, WireOK DEF IInv, FinishReveal
<1>3. LoopsOK' /\ SumReady'
  BY LoopUpdate, SumGrows, NoLoop.doing # "sum" DEF IInv, FinishReveal, NoLoop
<1> QED
  BY <1>2, <1>3, CircuitFrame, StatusFrame, TransitFrame DEF IInv, FinishReveal

LEMMA NextOK == IInv /\ [Next]_vars => IInv'
<1> SUFFICES ASSUME IInv, [Next]_vars PROVE IInv'
  OBVIOUS
<1>1. ASSUME NEW p \in Parties, PrepareUserInput(p) PROVE IInv'
  BY <1>1, PrepareOK
<1>2. ASSUME NEW p \in Parties, NEW op \in Range(ops), NetworkPhase(p, op) PROVE IInv'
  BY <1>2, DealInputOK, AwaitInputOK, GenerateRandomOK, AddSharesOK, OpenShareOK DEF NetworkPhase
<1>3. ASSUME NEW p \in Parties, NEW op \in Range(ops), FinalizePhase(p, op) PROVE IInv'
  BY <1>3, FinalizeInputOK, FinalizeRevealOK DEF FinalizePhase
<1>4. ASSUME NEW p \in Parties, NEW q \in Peers(p), DealShare(p, q) \/ AddReceived(p, q) PROVE IInv'
  BY <1>4, DealShareOK, AddReceivedOK
<1>5. ASSUME NEW p \in Parties, KeepShare(p) \/ FinishReveal(p) PROVE IInv'
  BY <1>5, KeepShareOK, FinishRevealOK
<1>6. CASE UNCHANGED vars
  BY <1>6, CircuitFrame, StatusFrame, LoopsFrame, TransitFrame, SumFrame DEF vars, IInv, TablesOK, Table
<1> QED
  BY <1>1, <1>2, <1>3, <1>4, <1>5, <1>6 DEF Next

-----------------------------------------------------------------------------
(* The theorems.                                                           *)

\* Whatever the modulus and the word, checked or not, all shares that parties
\* hold, send and add up are residues (do_network_phase and do_finalize_phase).
THEOREM SharingTypes == Spec => []TypeOK
<1>1. IInv => TypeOK
  BY DEF IInv, TypeOK, CircuitOK, StatusOK, TablesOK, Table, LoopsOK, TransitOK
<1> QED
  BY <1>1, InitOK, NextOK, PTL DEF Spec

\* No sum of the scheme overflows when twice the modulus fits a word, which is
\* M <= 2^63 for u64: then no party panics in a build with overflow checks, for
\* any number of parties, circuit and inputs.
THEOREM SharingNeverPanics == 2 * M <= Word => (Spec => []NeverPanics)
<1> SUFFICES ASSUME 2 * M <= Word PROVE Spec => []NeverPanics
  OBVIOUS
<1>1. IInv => NeverPanics
  BY DEF IInv, StatusOK
<1> QED
  BY <1>1, InitOK, NextOK, PTL DEF Spec

-----------------------------------------------------------------------------
(* Induction over the natural numbers, and congruence modulo M.            *)

Smaller == {pair \in Nat \X Nat : pair[1] < pair[2]}

LEMMA SmallerIsWellFounded == IsWellFoundedOn(Smaller, Nat)
  BY NatLessThanWellFounded DEF Smaller, OpToRel

LEMMA LeastOf ==
  ASSUME NEW S, S \subseteq Nat, S # {}
  PROVE  \E m \in S : \A n \in S : m <= n
<1>1. PICK m \in S : \A n \in S : ~(<<n, m>> \in Smaller)
  BY SmallerIsWellFounded, WFMin
<1>2. \A n \in S : ~(n < m)
  BY <1>1 DEF Smaller
<1> QED
  BY <1>2

LEMMA Induction ==
  ASSUME NEW S, 0 \in S, \A n \in Nat : n \in S => n + 1 \in S
  PROVE  Nat \subseteq S
<1> SUFFICES ASSUME Nat \ S # {} PROVE FALSE
  OBVIOUS
<1>1. PICK m \in Nat \ S : \A n \in Nat \ S : m <= n
  BY LeastOf
<1>2. m # 0 /\ m - 1 \in Nat /\ m - 1 \in S /\ (m - 1) + 1 = m
  BY <1>1
<1> QED
  BY <1>1, <1>2

\* Multiples of M, so that congruence is a sum.
LEMMA Division ==
  ASSUME NEW a \in Int
  PROVE  \E k \in Int : a = k * M + (a % M) /\ a % M \in Residues
<1>1. M \in Nat \ {0}
  BY ConstantsOK
<1>2. a = M * (a \div M) + (a % M) /\ a \div M \in Int /\ a % M \in 0 .. M - 1
  BY <1>1
<1>3. M * (a \div M) = (a \div M) * M
  BY <1>1, <1>2
<1> QED
  BY <1>2, <1>3 DEF Residues

LEMMA OneResidue ==
  ASSUME NEW k \in Int, NEW r \in Residues, NEW s \in Residues, r = k * M + s
  PROVE  r = s
<1>1. M \in Nat /\ M > 0 /\ r \in Int /\ s \in Int /\ r - s < M /\ s - r < M
  BY ConstantsOK DEF Residues
<1>2. k * M < M /\ -M < k * M
  BY <1>1
<1>3. k < 1 /\ k > -1
  BY <1>1, <1>2
<1>4. k = 0
  BY <1>3
<1> QED
  BY <1>1, <1>4

LEMMA ResidueOf ==
  ASSUME NEW a \in Int, NEW k \in Int, NEW r \in Residues, a = k * M + r
  PROVE  a % M = r
<1>1. PICK l \in Int : a = l * M + (a % M) /\ a % M \in Residues
  BY Division
<1>2. M \in Int /\ r \in Int /\ a % M \in Int
  BY <1>1, ConstantsOK DEF Residues
<1>3. r = (l - k) * M + (a % M)
  <2>1. (l - k) * M = l * M - k * M
    BY <1>2
  <2>2. PICK x \in Int, y \in Int : x = l * M /\ y = k * M
    BY <1>2
  <2>3. PICK z \in Int : z = a % M
    BY <1>2
  <2>4. y + r = x + z
    BY <1>1, <2>2, <2>3
  <2>5. r = (x - y) + z
    BY <1>2, <2>4
  <2> QED
    BY <2>1, <2>2, <2>3, <2>5
<1>4. PICK m \in Int : m = l - k
  OBVIOUS
<1> QED
  BY <1>1, <1>3, <1>4, OneResidue

LEMMA Reduce ==
  ASSUME NEW r \in Residues
  PROVE  r % M = r
<1>1. r \in Int /\ r = 0 * M + r
  BY ConstantsOK DEF Residues
<1> QED
  BY <1>1, ResidueOf

\* Integers with the same residue differ by a multiple of M.
LEMMA SameResidue ==
  ASSUME NEW a \in Int, NEW b \in Int
  PROVE  /\ a % M = b % M => \E k \in Int : a = b + k * M
         /\ \A k \in Int : a = b + k * M => a % M = b % M
<1>1. PICK i \in Int : a = i * M + (a % M) /\ a % M \in Residues
  BY Division
<1>2. PICK j \in Int : b = j * M + (b % M) /\ b % M \in Residues
  BY Division
<1>3. M \in Int /\ a % M \in Int /\ b % M \in Int
  BY <1>1, <1>2, ConstantsOK DEF Residues
<1>4. ASSUME a % M = b % M PROVE \E k \in Int : a = b + k * M
  <2>1. (i - j) * M = i * M - j * M /\ i * M \in Int /\ j * M \in Int
    BY <1>3
  <2>2. a = b + (i - j) * M /\ i - j \in Int
    BY <1>1, <1>2, <1>3, <1>4, <2>1
  <2> QED
    BY <2>2
<1>5. ASSUME NEW k \in Int, a = b + k * M PROVE a % M = b % M
  <2>1. (j + k) * M = j * M + k * M /\ k * M \in Int /\ j * M \in Int
    BY <1>3
  <2>2. a = (j + k) * M + (b % M) /\ j + k \in Int
    BY <1>2, <1>3, <1>5, <2>1
  <2> QED
    BY <1>2, <2>2, ResidueOf
<1> QED
  BY <1>4, <1>5

LEMMA Congruence ==
  ASSUME NEW a \in Int, NEW b \in Int, NEW c \in Int, NEW d \in Int,
         a % M = c % M, b % M = d % M
  PROVE  (a + b) % M = (c + d) % M /\ (a - b) % M = (c - d) % M
<1>1. PICK i \in Int : a = c + i * M
  BY SameResidue
<1>2. PICK j \in Int : b = d + j * M
  BY SameResidue
<1>3. M \in Int /\ i * M \in Int /\ j * M \in Int /\ (i + j) * M = i * M + j * M /\ (i - j) * M = i * M - j * M
  BY ConstantsOK
<1>4. a + b = (c + d) + (i + j) * M /\ a - b = (c - d) + (i - j) * M
  BY <1>1, <1>2, <1>3
<1>5. i + j \in Int /\ i - j \in Int /\ a + b \in Int /\ a - b \in Int /\ c + d \in Int /\ c - d \in Int
  OBVIOUS
<1> QED
  BY <1>4, <1>5, SameResidue

LEMMA ResidueType == \A a \in Int : a % M \in Residues /\ (a % M) % M = a % M /\ a % M \in Int
<1>1. \A a \in Int : a % M \in Residues
  BY Division
<1>2. \A r \in Residues : r \in Int
  BY ConstantsOK DEF Residues
<1> QED
  BY <1>1, <1>2, Reduce

-----------------------------------------------------------------------------
(* Sums over the parties.                                                  *)

LEMMA PartiesFinite == IsFiniteSet(Parties)
  BY FS_Interval, ConstantsOK DEF Parties

Total(f) == FoldFunctionOnSet(LAMBDA s, total : s + total, 0, f, Parties)
First(s) == CHOOSE x \in s : TRUE

\* The sums that the fold makes on its way, for sets of at most n parties.
Small(n) == {s \in SUBSET Parties : Cardinality(s) <= n}
Sums(f, S, g) == g = [s \in S |-> IF s = {} THEN 0 ELSE f[First(s)] + g[s \ {First(s)}]]

LEMMA FirstOut ==
  ASSUME NEW s \in SUBSET Parties, s # {}
  PROVE  First(s) \in s /\ s \ {First(s)} \in SUBSET Parties
         /\ Cardinality(s) \in Nat /\ Cardinality(s \ {First(s)}) = Cardinality(s) - 1
<1>1. First(s) \in s
  BY DEF First
<1>2. IsFiniteSet(s)
  BY PartiesFinite, FS_Subset
<1> QED
  BY <1>1, <1>2, FS_CardinalityType, FS_RemoveElement

LEMMA SumsExist ==
  ASSUME NEW f
  PROVE  \E g : Sums(f, SUBSET Parties, g)
<1> DEFINE Good == {n \in Nat : \E g : Sums(f, Small(n), g)}
<1>1. 0 \in Good
  <2>1. \A s \in Small(0) : s = {}
    <3> SUFFICES ASSUME NEW s \in Small(0), s # {} PROVE FALSE
      OBVIOUS
    <3>1. Cardinality(s) \in Nat /\ Cardinality(s \ {First(s)}) = Cardinality(s) - 1 /\ Cardinality(s) <= 0
          /\ IsFiniteSet(s \ {First(s)})
      BY FirstOut, PartiesFinite, FS_Subset DEF Small
    <3>2. Cardinality(s \ {First(s)}) \in Nat
      BY <3>1, FS_CardinalityType
    <3> QED
      BY <3>1, <3>2
  <2>2. PICK g : g = [s \in Small(0) |-> 0]
    OBVIOUS
  <2>3. Sums(f, Small(0), g)
    BY <2>1, <2>2 DEF Sums
  <2> QED
    BY <2>3
<1>2. ASSUME NEW n \in Nat, n \in Good PROVE n + 1 \in Good
  <2>1. PICK g : Sums(f, Small(n), g)
    BY <1>2
  <2>2. PICK h : h = [s \in Small(n + 1) |-> IF s = {} THEN 0 ELSE f[First(s)] + g[s \ {First(s)}]]
    OBVIOUS
  <2>3. \A s \in Small(n + 1) : s # {} => s \ {First(s)} \in Small(n) /\ s \ {First(s)} \in Small(n + 1)
    BY FirstOut DEF Small
  <2>4. \A s \in Small(n) : s \in Small(n + 1)
    <3>1. \A s \in SUBSET Parties : Cardinality(s) \in Nat
      BY PartiesFinite, FS_Subset, FS_CardinalityType
    <3> QED
      BY <3>1 DEF Small
  <2>5. \A s \in Small(n) : h[s] = g[s]
    BY <2>1, <2>2, <2>4 DEF Sums
  <2>6. Sums(f, Small(n + 1), h)
    BY <2>2, <2>3, <2>5 DEF Sums
  <2> QED
    BY <2>6
<1>3. Nat \subseteq Good
  BY <1>1, <1>2, Induction
<1>4. PICK n \in Nat : n = Cardinality(Parties)
  BY PartiesFinite, FS_CardinalityType
<1>5. Small(n) = SUBSET Parties
  BY <1>4, PartiesFinite, FS_Subset DEF Small
<1> QED
  BY <1>3, <1>4, <1>5

LEMMA TotalIs ==
  ASSUME NEW f
  PROVE  \E g : Sums(f, SUBSET Parties, g) /\ Total(f) = g[Parties]
<1>1. PICK it : it = CHOOSE g : Sums(f, SUBSET Parties, g)
  OBVIOUS
<1>2. Sums(f, SUBSET Parties, it)
  BY <1>1, SumsExist
<1>3. Total(f) = it[Parties]
  BY <1>1 DEF Total, FoldFunctionOnSet, MapThenFoldSet, Sums, First
<1> QED
  BY <1>2, <1>3

\* A property of sums holds for all parties if it goes from a set without its
\* first party to the set.
LEMMA SetInduction ==
  ASSUME NEW G, {} \in G, \A s \in SUBSET Parties : s # {} /\ s \ {First(s)} \in G => s \in G
  PROVE  Parties \in G
<1> DEFINE Good == {n \in Nat : Small(n) \subseteq G}
<1>1. \A s \in SUBSET Parties : Cardinality(s) \in Nat
  BY PartiesFinite, FS_Subset, FS_CardinalityType
<1>2. 0 \in Good
  <2>1. ASSUME NEW s \in Small(0), s # {} PROVE FALSE
    <3>1. Cardinality(s \ {First(s)}) \in Nat /\ Cardinality(s) \in Nat
      BY <2>1, <1>1, FirstOut DEF Small
    <3> QED
      BY <3>1, <2>1, FirstOut DEF Small
  <2> QED
    BY <2>1
<1>3. ASSUME NEW n \in Nat, n \in Good PROVE n + 1 \in Good
  <2>1. ASSUME NEW s \in Small(n + 1), s # {} PROVE s \in G
    <3>1. s \in SUBSET Parties /\ s \ {First(s)} \in Small(n)
      BY <2>1, FirstOut DEF Small
    <3>2. s \ {First(s)} \in G
      BY <3>1, <1>3
    <3> QED
      BY <3>1, <3>2, <2>1
  <2>2. Small(n + 1) \subseteq G
    BY <2>1
  <2> QED
    BY <2>2
<1>4. Nat \subseteq Good
  BY <1>2, <1>3, Induction
<1>5. Cardinality(Parties) \in Nat /\ Parties \in Small(Cardinality(Parties))
  BY <1>1 DEF Small
<1> QED
  BY <1>4, <1>5

\* A total takes its terms in one order, from nothing to all of them.
LEMMA TotalSteps ==
  ASSUME NEW f \in [Parties -> Int]
  PROVE  \E g : /\ g[{}] = 0 /\ Total(f) = g[Parties]
                /\ \A s \in SUBSET Parties : s # {} => g[s] = f[First(s)] + g[s \ {First(s)}]
<1>1. PICK g : Sums(f, SUBSET Parties, g) /\ Total(f) = g[Parties]
  BY TotalIs
<1>2. g[{}] = 0 /\ \A s \in SUBSET Parties : s # {} => g[s] = f[First(s)] + g[s \ {First(s)}]
  BY <1>1 DEF Sums
<1> QED
  BY <1>1, <1>2

LEMMA TotalInt ==
  ASSUME NEW f \in [Parties -> Int]
  PROVE  Total(f) \in Int
<1>1. PICK g : /\ g[{}] = 0 /\ Total(f) = g[Parties]
               /\ \A s \in SUBSET Parties : s # {} => g[s] = f[First(s)] + g[s \ {First(s)}]
  BY TotalSteps
<1> DEFINE G == {s \in SUBSET Parties : g[s] \in Int}
<1>2. {} \in G
  BY <1>1
<1>3. \A s \in SUBSET Parties : s # {} /\ s \ {First(s)} \in G => s \in G
  BY <1>1, FirstOut
<1> HIDE DEF G
<1>4. Parties \in G
  BY <1>2, <1>3, SetInduction
<1> QED
  BY <1>1, <1>4 DEF G

\* The total of a function that is zero but for one party.
LEMMA TotalOfOne ==
  ASSUME NEW f \in [Parties -> Int], NEW q \in Parties, \A p \in Parties : p # q => f[p] = 0
  PROVE  Total(f) = f[q]
<1>1. PICK g : /\ g[{}] = 0 /\ Total(f) = g[Parties]
               /\ \A s \in SUBSET Parties : s # {} => g[s] = f[First(s)] + g[s \ {First(s)}]
  BY TotalSteps
<1> DEFINE G == {s \in SUBSET Parties : g[s] = IF q \in s THEN f[q] ELSE 0}
<1>2. {} \in G
  BY <1>1
<1>3. ASSUME NEW s \in SUBSET Parties, s # {}, s \ {First(s)} \in G PROVE s \in G
  <2>1. First(s) \in s /\ First(s) \in Parties /\ g[s] = f[First(s)] + g[s \ {First(s)}]
    BY <1>1, <1>3, FirstOut
  <2>2. CASE First(s) = q
    BY <2>1, <2>2, <1>3
  <2>3. CASE First(s) # q
    BY <2>1, <2>3, <1>3
  <2> QED
    BY <2>2, <2>3
<1> HIDE DEF G
<1>4. Parties \in G
  BY <1>2, <1>3, SetInduction
<1> QED
  BY <1>1, <1>4 DEF G

LEMMA TotalOfNone ==
  ASSUME NEW f \in [Parties -> Int], \A p \in Parties : f[p] = 0
  PROVE  Total(f) = 0
<1>1. 0 \in Parties
  BY SharingAssumption DEF Parties
<1> QED
  BY <1>1, TotalOfOne

\* Totals add up modulo M where their terms do.
LEMMA TotalAdds ==
  ASSUME NEW f \in [Parties -> Int], NEW g \in [Parties -> Int], NEW h \in [Parties -> Int],
         \A p \in Parties : h[p] % M = (f[p] + g[p]) % M
  PROVE  Total(h) % M = (Total(f) + Total(g)) % M
<1>1. PICK F : /\ F[{}] = 0 /\ Total(f) = F[Parties]
               /\ \A s \in SUBSET Parties : s # {} => F[s] = f[First(s)] + F[s \ {First(s)}]
  BY TotalSteps
<1>2. PICK G : /\ G[{}] = 0 /\ Total(g) = G[Parties]
               /\ \A s \in SUBSET Parties : s # {} => G[s] = g[First(s)] + G[s \ {First(s)}]
  BY TotalSteps
<1>3. PICK H : /\ H[{}] = 0 /\ Total(h) = H[Parties]
               /\ \A s \in SUBSET Parties : s # {} => H[s] = h[First(s)] + H[s \ {First(s)}]
  BY TotalSteps
<1> DEFINE Good == {s \in SUBSET Parties : /\ F[s] \in Int /\ G[s] \in Int /\ H[s] \in Int
                                           /\ H[s] % M = (F[s] + G[s]) % M}
<1>4. {} \in Good
  BY <1>1, <1>2, <1>3
<1>5. ASSUME NEW s \in SUBSET Parties, s # {}, s \ {First(s)} \in Good PROVE s \in Good
  <2>1. First(s) \in Parties /\ s \ {First(s)} \in SUBSET Parties
    BY <1>5, FirstOut
  <2>2. PICK a \in Int, b \in Int, c \in Int :
          a = F[s \ {First(s)}] /\ b = G[s \ {First(s)}] /\ c = H[s \ {First(s)}] /\ c % M = (a + b) % M
    BY <1>5
  <2>3. PICK x \in Int, y \in Int, z \in Int :
          x = f[First(s)] /\ y = g[First(s)] /\ z = h[First(s)] /\ z % M = (x + y) % M
    BY <2>1
  <2>4. F[s] = x + a /\ G[s] = y + b /\ H[s] = z + c
    BY <1>1, <1>2, <1>3, <1>5, <2>2, <2>3
  <2>5. (z + c) % M = ((x + y) + (a + b)) % M
    <3>1. PICK m \in Int, n \in Int : m = x + y /\ n = a + b
      OBVIOUS
    <3>2. z % M = m % M /\ c % M = n % M
      BY <2>2, <2>3, <3>1
    <3>3. (z + c) % M = (m + n) % M
      BY ONLY <3>2, z \in Int, c \in Int, m \in Int, n \in Int, Congruence
    <3> QED
      BY <3>1, <3>3
  <2>6. (x + y) + (a + b) = (x + a) + (y + b)
    OBVIOUS
  <2> QED
    BY <2>4, <2>5, <2>6
<1> HIDE DEF Good
<1>6. Parties \in Good
  BY <1>4, <1>5, SetInduction
<1> QED
  BY <1>1, <1>2, <1>3, <1>6 DEF Good

\* A term more.
LEMMA TotalWith ==
  ASSUME NEW f \in [Parties -> Int], NEW q \in Parties, f[q] = 0, NEW v \in Int,
         NEW h \in [Parties -> Int], h[q] = v, \A p \in Parties : p # q => h[p] = f[p]
  PROVE  Total(h) % M = (Total(f) + v) % M
<1>1. PICK g \in [Parties -> Int] : g = [p \in Parties |-> IF p = q THEN v ELSE 0]
  OBVIOUS
<1>2. Total(g) = v
  BY <1>1, TotalOfOne
<1>3. \A p \in Parties : h[p] = f[p] + g[p]
  BY <1>1
<1> QED
  BY <1>2, <1>3, TotalAdds

-----------------------------------------------------------------------------
(* The circuit in the clear, operation by operation.                       *)

\* Each output has one operation, and what it reads comes earlier in the list.
Ordered(circuit) ==
  /\ circuit \in Seq(Range(circuit))
  /\ \A op \in Range(circuit) : op.kind \in {"Input", "GenRandom", "Add", "Reveal"}
  /\ \A i, j \in DOMAIN circuit : circuit[i].output = circuit[j].output => i = j
  /\ \A k \in DOMAIN circuit : \A w \in Range(circuit[k].inputs) :
       \E j \in DOMAIN circuit : j < k /\ circuit[j].output = w
CircuitsOrdered == \A circuit \in Circuits : Ordered(circuit)

Out(k) == ops[k].output
Result(value, op) ==
  CASE op.kind = "Input"     -> given[op.output] % M
    [] op.kind = "GenRandom" -> SumOfShares(op.output)
    [] op.kind = "Add"       -> (value[op.inputs[1]] + value[op.inputs[2]]) % M
    [] op.kind = "Reveal"    -> value[op.inputs[1]]
Extend(value, op) == Put(value, op.output, Result(value, op))

Folds(n, g) ==
  g = [s \in SUBSET (1..n) |-> IF s = {} THEN << >> ELSE Extend(g[s \ {Max(s)}], ops[Max(s)])]

LEMMA MaxOf ==
  ASSUME NEW n \in Nat, NEW s \in SUBSET (1..n), n \in s
  PROVE  Max(s) = n
<1>1. \A x \in s : n >= x
  OBVIOUS
<1>2. \A x \in s : (\A y \in s : x >= y) => x = n
  BY <1>1
<1> QED
  BY <1>1, <1>2 DEF Max

LEMMA FoldsExist == \A n \in Nat : \E g : Folds(n, g)
<1> DEFINE Good == {n \in Nat : \E g : Folds(n, g)}
<1>1. 0 \in Good
  <2>1. PICK g : g = [s \in SUBSET (1..0) |-> << >>]
    OBVIOUS
  <2>2. \A s \in SUBSET (1..0) : s = {}
    OBVIOUS
  <2>3. Folds(0, g)
    BY <2>1, <2>2 DEF Folds
  <2> QED
    BY <2>3
<1>2. ASSUME NEW n \in Nat, n \in Good PROVE n + 1 \in Good
  <2>1. PICK g : Folds(n, g)
    BY <1>2
  <2>2. PICK h : h = [s \in SUBSET (1..(n + 1)) |->
                        IF n + 1 \in s THEN Extend(g[s \ {n + 1}], ops[n + 1]) ELSE g[s]]
    OBVIOUS
  <2>3. \A s \in SUBSET (1..(n + 1)) : n + 1 \notin s => s \in SUBSET (1..n)
    OBVIOUS
  <2>4. \A s \in SUBSET (1..n) : s \in SUBSET (1..(n + 1)) /\ n + 1 \notin s
    OBVIOUS
  <2>5. \A s \in SUBSET (1..n) : h[s] = g[s]
    BY <2>2, <2>4
  <2>6. ASSUME NEW s \in SUBSET (1..(n + 1))
        PROVE  h[s] = IF s = {} THEN << >> ELSE Extend(h[s \ {Max(s)}], ops[Max(s)])
    <3>1. CASE n + 1 \in s
      <4>1. Max(s) = n + 1
        BY <3>1, MaxOf
      <4>2. s \ {n + 1} \in SUBSET (1..n)
        OBVIOUS
      <4> QED
        BY <2>2, <2>5, <3>1, <4>1, <4>2
    <3>2. CASE n + 1 \notin s
      <4>1. s \in SUBSET (1..n) /\ s \ {Max(s)} \in SUBSET (1..n)
        BY <3>2, <2>3
      <4>2. g[s] = IF s = {} THEN << >> ELSE Extend(g[s \ {Max(s)}], ops[Max(s)])
        BY <2>1, <4>1 DEF Folds
      <4> QED
        BY <2>5, <4>1, <4>2
    <3> QED
      BY <3>1, <3>2
  <2>7. DOMAIN h = SUBSET (1..(n + 1)) /\ h = [s \in DOMAIN h |-> h[s]]
    BY <2>2
  <2>8. Folds(n + 1, h)
    BY <2>6, <2>7 DEF Folds
  <2> QED
    BY <2>8
<1>3. Nat \subseteq Good
  BY <1>1, <1>2, Induction
<1> QED
  BY <1>3

\* The fold passes through the values of each prefix of the list.
LEMMA PlainSteps ==
  ASSUME NEW n \in Nat, DOMAIN ops = 1..n
  PROVE  \E F : F[0] = << >> /\ Plain = F[n] /\ \A k \in 1..n : F[k] = Extend(F[k - 1], ops[k])
<1>1. PICK it : it = CHOOSE g : Folds(n, g)
  OBVIOUS
<1>2. Folds(n, it)
  BY <1>1, FoldsExist
<1>3. Plain = it[1..n]
  BY <1>1 DEF Plain, FoldLeft, MapThenFoldSet, Folds, Extend, Result
<1>4. PICK F : F = [k \in 0..n |-> it[1..k]]
  OBVIOUS
<1>5. F[0] = << >>
  <2>1. 1..0 = {} /\ 0 \in 0..n
    OBVIOUS
  <2> QED
    BY <2>1, <1>2, <1>4 DEF Folds
<1>6. ASSUME NEW k \in 1..n PROVE F[k] = Extend(F[k - 1], ops[k])
  <2>1. k \in 1..k /\ (1..k) \ {k} = 1..(k - 1) /\ 1..k # {} /\ 1..k \in SUBSET (1..n)
    OBVIOUS
  <2>2. Max(1..k) = k
    BY <2>1, MaxOf
  <2>3. it[1..k] = Extend(it[1..(k - 1)], ops[k])
    BY <1>2, <2>1, <2>2 DEF Folds
  <2> QED
    BY <1>4, <2>3
<1>7. Plain = F[n]
  <2>1. n \in 0..n
    OBVIOUS
  <2> QED
    BY <2>1, <1>3, <1>4
<1> QED
  BY <1>5, <1>6, <1>7

LEMMA Lists ==
  ASSUME NEW circuit, Ordered(circuit)
  PROVE  \E n \in Nat : DOMAIN circuit = 1..n /\ n = Len(circuit)
  BY DEF Ordered

\* Put changes one place.
LEMMA PutIs ==
  ASSUME NEW f, NEW w, NEW v
  PROVE  /\ DOMAIN Put(f, w, v) = DOMAIN f \cup {w} /\ Put(f, w, v)[w] = v
         /\ \A x \in DOMAIN f : x # w => Put(f, w, v)[x] = f[x]
  BY DEF Put

\* Every wire of the circuit in the clear is what its operation makes of the
\* wires it reads.
LEMMA PlainIs ==
  ASSUME Ordered(ops), NEW k \in DOMAIN ops
  PROVE  LET op == ops[k] IN
         /\ op.kind = "Input" => Plain[Out(k)] = given[Out(k)] % M
         /\ op.kind = "GenRandom" => Plain[Out(k)] = SumOfShares(Out(k))
         /\ op.kind = "Add" /\ {1, 2} \subseteq DOMAIN op.inputs =>
              Plain[Out(k)] = (Plain[op.inputs[1]] + Plain[op.inputs[2]]) % M
         /\ op.kind = "Reveal" /\ 1 \in DOMAIN op.inputs => Plain[Out(k)] = Plain[op.inputs[1]]
<1>1. PICK n \in Nat : DOMAIN ops = 1..n
  BY Lists
<1>2. PICK F : F[0] = << >> /\ Plain = F[n] /\ \A i \in 1..n : F[i] = Extend(F[i - 1], ops[i])
  BY <1>1, PlainSteps
<1>3. \A i, j \in 1..n : Out(i) = Out(j) => i = j
  BY <1>1 DEF Ordered, Out
<1>4. \A i \in 1..n : /\ DOMAIN F[i] = DOMAIN F[i - 1] \cup {Out(i)}
                      /\ F[i][Out(i)] = Result(F[i - 1], ops[i])
                      /\ \A x \in DOMAIN F[i - 1] : x # Out(i) => F[i][x] = F[i - 1][x]
  <2> SUFFICES ASSUME NEW i \in 1..n
               PROVE  /\ DOMAIN F[i] = DOMAIN F[i - 1] \cup {Out(i)}
                      /\ F[i][Out(i)] = Result(F[i - 1], ops[i])
                      /\ \A x \in DOMAIN F[i - 1] : x # Out(i) => F[i][x] = F[i - 1][x]
    OBVIOUS
  <2>1. PICK f, w, v : f = F[i - 1] /\ w = Out(i) /\ v = Result(f, ops[i])
    OBVIOUS
  <2>2. F[i] = Put(f, w, v)
    BY <1>2, <2>1 DEF Extend, Out
  <2>3. /\ DOMAIN F[i] = DOMAIN f \cup {w} /\ F[i][w] = v
        /\ \A x \in DOMAIN f : x # w => F[i][x] = f[x]
    BY <2>2 DEF Put
  <2> QED
    BY <2>1, <2>3
<1> DEFINE Good == {i \in Nat : i <= n => \A j \in 1..i : Out(j) \in DOMAIN F[i] /\ F[i][Out(j)] = F[j][Out(j)]}
<1>5. 0 \in Good
  OBVIOUS
<1>6. ASSUME NEW i \in Nat, i \in Good PROVE i + 1 \in Good
  <2> SUFFICES ASSUME i + 1 <= n, NEW j \in 1..(i + 1)
               PROVE  Out(j) \in DOMAIN F[i + 1] /\ F[i + 1][Out(j)] = F[j][Out(j)]
    OBVIOUS
  <2>1. i + 1 \in 1..n /\ j \in 1..n /\ (i + 1) - 1 = i /\ i <= n
    OBVIOUS
  <2>2. CASE j = i + 1
    BY <2>1, <2>2, <1>4
  <2>3. CASE j # i + 1
    <3>1. j \in 1..i /\ Out(j) \in DOMAIN F[i] /\ F[i][Out(j)] = F[j][Out(j)]
      BY <2>1, <2>3, <1>6
    <3>2. Out(j) # Out(i + 1)
      BY <1>3, <2>1, <2>3
    <3> QED
      BY <3>1, <3>2, <2>1, <1>4
  <2> QED
    BY <2>2, <2>3
<1>7. Nat \subseteq Good
  BY <1>5, <1>6, Induction
<1>8. \A i \in 0..n : \A j \in 1..i : F[i][Out(j)] = Plain[Out(j)]
  <2> SUFFICES ASSUME NEW i \in 0..n, NEW j \in 1..i PROVE F[i][Out(j)] = Plain[Out(j)]
    OBVIOUS
  <2>1. i \in Good /\ n \in Good /\ i <= n /\ j \in 1..n
    BY <1>7
  <2> QED
    BY <2>1, <1>2
<1>9. k \in 1..n /\ k - 1 \in 0..n /\ k \in 1..k /\ k \in 0..n
  BY <1>1
<1>10. Plain[Out(k)] = Result(F[k - 1], ops[k])
  BY <1>4, <1>8, <1>9
<1>11. \A i \in DOMAIN ops[k].inputs : F[k - 1][ops[k].inputs[i]] = Plain[ops[k].inputs[i]]
  <2> SUFFICES ASSUME NEW i \in DOMAIN ops[k].inputs
               PROVE  F[k - 1][ops[k].inputs[i]] = Plain[ops[k].inputs[i]]
    OBVIOUS
  <2>1. PICK j \in DOMAIN ops : j < k /\ Out(j) = ops[k].inputs[i]
    <3>1. ops[k].inputs[i] \in Range(ops[k].inputs)
      BY DEF Range
    <3> QED
      BY <3>1 DEF Ordered, Out
  <2>2. j \in 1..(k - 1)
    BY <2>1, <1>1
  <2> QED
    BY <2>1, <2>2, <1>8, <1>9
<1> QED
  BY <1>10, <1>11 DEF Result, Out

-----------------------------------------------------------------------------
(* What shares stand for.                                                  *)

In(k) == ops[k].inputs[1]
HasShare(p, k) == Out(k) \in DOMAIN wires[p]
Waits(p, k) == Out(k) \in DOMAIN pending[p]
Sent(p, q, k) == Out(k) \in DOMAIN in_transit[<<p, q>>]
Looping(p, k) == loop[p] # NoLoop /\ loop[p].output = Out(k)
ShareOf(p, w) == IF w \in DOMAIN wires[p] THEN wires[p][w] ELSE 0

\* A party has an operation in one place, and none it has not come to.
Staged(k) ==
  \A p \in Parties :
    /\ HasShare(p, k) => ~Waits(p, k) /\ ~Looping(p, k)
    /\ Waits(p, k) => ~Looping(p, k)
    /\ HasShare(p, k) \/ Waits(p, k) \/ Looping(p, k) \/ (\E q \in Peers(p) : Sent(p, q, k)) => k < next[p]

\* A party that has come past an operation has the wires it reads.
Fed(k) == \A p \in Parties : k < next[p] => Range(ops[k].inputs) \subseteq DOMAIN wires[p]

InLoop(k) ==
  \A p \in Parties : Looping(p, k) =>
    /\ loop[p].doing = "deal" => IsInputOf(ops[k], p)
    /\ loop[p].doing = "sum" => ops[k].kind = "Reveal"

Adds(k) ==
  ops[k].kind = "Add" => \A p \in Parties : HasShare(p, k) =>
    wires[p][Out(k)] = (wires[p][ops[k].inputs[1]] + wires[p][ops[k].inputs[2]]) % M

\* What a party sends, and keeps, for a Reveal is its share of the wire.
Shown(k) ==
  ops[k].kind = "Reveal" => \A p \in Parties :
    /\ Waits(p, k) => pending[p][Out(k)] = ShareOf(p, In(k))
    /\ \A q \in Peers(p) : Sent(p, q, k) => in_transit[<<p, q>>][Out(k)] = ShareOf(p, In(k))

Summands(p, k) == [q \in Parties |-> IF q \in loop[p].left THEN 0 ELSE ShareOf(q, In(k))]
Summed(k) ==
  ops[k].kind = "Reveal" => \A p \in Parties : Looping(p, k) =>
    /\ \A q \in Parties \ loop[p].left : In(k) \in DOMAIN wires[q]
    /\ loop[p].total = Total(Summands(p, k)) % M
Opens(k) ==
  ops[k].kind = "Reveal" => \A p \in Parties : HasShare(p, k) =>
    /\ \A q \in Parties : In(k) \in DOMAIN wires[q]
    /\ wires[p][Out(k)] = SumOfShares(In(k))

\* The shares dealt of an input, wherever they are.
DealtTo(q, k) ==
  LET d == ops[k].party_id IN
  IF HasShare(q, k) THEN wires[q][Out(k)]
  ELSE IF q = d THEN IF Waits(q, k) THEN pending[q][Out(k)] ELSE 0
  ELSE IF Sent(d, q, k) THEN in_transit[<<d, q>>][Out(k)] ELSE 0
Dealt(k) == [q \in Parties |-> DealtTo(q, k)]
Deals(k) ==
  ops[k].kind = "Input" =>
    LET d == ops[k].party_id IN
    /\ ~(k < next[d]) => \A q \in Parties : ~HasShare(q, k)
    /\ Looping(d, k) =>
         /\ loop[d].input = given[Out(k)] % M
         /\ loop[d].total = Total(Dealt(k)) % M
         /\ \A q \in loop[d].left : ~HasShare(q, k) /\ ~Sent(d, q, k)
    /\ k < next[d] /\ ~Looping(d, k) => Total(Dealt(k)) % M = given[Out(k)] % M

Right(k) ==
  /\ Staged(k) /\ Fed(k) /\ InLoop(k)
  /\ Adds(k) /\ Shown(k) /\ Summed(k) /\ Opens(k) /\ Deals(k)

InputsKept ==
  \A p \in Parties : \A k \in DOMAIN ops :
    next[p] >= 1 /\ k >= next[p] /\ IsInputOf(ops[k], p) =>
      Out(k) \in DOMAIN user_inputs[p] /\ user_inputs[p][Out(k)] = given[Out(k)] % M
LoopsKnown == \A p \in Parties : loop[p] # NoLoop => \E k \in DOMAIN ops : loop[p].output = Out(k)

ValueInv == IInv /\ Ordered(ops) /\ InputsKept /\ LoopsKnown /\ \A k \in DOMAIN ops : Right(k)

-----------------------------------------------------------------------------
(* What a step leaves alone.                                               *)

SameAt(f, g, w) == (w \in DOMAIN f <=> w \in DOMAIN g) /\ (w \in DOMAIN f => g[w] = f[w])

\* Shares of wires that are there stay.
Grows ==
  \A p \in Parties : \A w \in DOMAIN wires[p] : w \in DOMAIN (wires'[p]) /\ wires'[p][w] = wires[p][w]

Untouched(k) ==
  \A p \in Parties :
    /\ SameAt(wires[p], wires'[p], Out(k)) /\ SameAt(pending[p], pending'[p], Out(k))
    /\ \A q \in Peers(p) : SameAt(in_transit[<<p, q>>], in_transit'[<<p, q>>], Out(k))
    /\ k < next[p] <=> k < next'[p]
    /\ Looping(p, k) => loop'[p] = loop[p]
    /\ ~Looping(p, k) => loop'[p] = NoLoop \/ loop'[p].output # Out(k)

LEMMA UntouchedFacts ==
  ASSUME NEW k, Untouched(k), UNCHANGED ops, NEW p \in Parties
  PROVE  /\ Out(k)' = Out(k) /\ In(k)' = In(k)
         /\ HasShare(p, k)' <=> HasShare(p, k)
         /\ HasShare(p, k) => wires'[p][Out(k)] = wires[p][Out(k)]
         /\ Waits(p, k)' <=> Waits(p, k)
         /\ Waits(p, k) => pending'[p][Out(k)] = pending[p][Out(k)]
         /\ \A q \in Peers(p) : /\ Sent(p, q, k)' <=> Sent(p, q, k)
                                /\ Sent(p, q, k) => in_transit'[<<p, q>>][Out(k)] = in_transit[<<p, q>>][Out(k)]
         /\ k < next[p] <=> k < next'[p]
         /\ Looping(p, k)' <=> Looping(p, k)
         /\ Looping(p, k) => loop'[p] = loop[p]
  BY DEF Untouched, SameAt, Out, In, HasShare, Waits, Sent, Looping

LEMMA ShareStays ==
  ASSUME Grows, NEW p \in Parties, NEW w \in DOMAIN wires[p]
  PROVE  w \in DOMAIN (wires'[p]) /\ ShareOf(p, w)' = ShareOf(p, w)
  BY DEF Grows, ShareOf

\* Where all parties hold a share, the sum stays.
LEMMA SumStays ==
  ASSUME Grows, NEW w, \A p \in Parties : w \in DOMAIN wires[p]
  PROVE  SumOfShares(w)' = SumOfShares(w)
<1>1. \A p \in Parties : w \in DOMAIN wires[p] /\ w \in DOMAIN (wires'[p]) /\ wires'[p][w] = wires[p][w]
  BY DEF Grows
<1>2. [p \in Parties |-> ShareOf(p, w)] = [p \in Parties |-> ShareOf(p, w)']
  BY <1>1 DEF ShareOf
<1>3. SumOfShares(w) = Total([p \in Parties |-> ShareOf(p, w)]) % M
  BY DEF SumOfShares, Total, ShareOf
<1>4. SumOfShares(w)' = Total([p \in Parties |-> ShareOf(p, w)']) % M
  BY DEF SumOfShares, Total, ShareOf, FoldFunctionOnSet, MapThenFoldSet
<1> QED
  BY <1>2, <1>3, <1>4

LEMMA Reads ==
  ASSUME CircuitOK, NEW k \in DOMAIN ops
  PROVE  /\ ops[k] \in Range(ops) /\ Out(k) \in Outputs
         /\ ops[k].kind = "Add" => /\ ops[k].inputs[1] \in Range(ops[k].inputs)
                                   /\ ops[k].inputs[2] \in Range(ops[k].inputs)
         /\ ops[k].kind = "Reveal" => In(k) \in Range(ops[k].inputs)
         /\ ops[k].kind = "Input" => ops[k].party_id \in Parties
<1>1. ops[k] \in Range(ops)
  BY DEF Range
<1>2. /\ ops[k].kind = "Add" => {1, 2} \subseteq DOMAIN ops[k].inputs
      /\ ops[k].kind = "Reveal" => 1 \in DOMAIN ops[k].inputs
      /\ ops[k].kind = "Input" => ops[k].party_id \in Parties
  BY <1>1, CircuitsAssumption DEF CircuitOK
<1> QED
  BY <1>1, <1>2, OutputOK DEF Out, In, Range

\* An operation that a step leaves alone stays right.
LEMMA StaysRight ==
  ASSUME CircuitOK, LoopsOK, NEW k \in DOMAIN ops, Right(k), Untouched(k), Grows, UNCHANGED <<ops, given>>
  PROVE  Right(k)'
<1>1. \A p \in Parties :
         /\ HasShare(p, k)' <=> HasShare(p, k)
         /\ HasShare(p, k) => wires'[p][Out(k)] = wires[p][Out(k)]
         /\ Waits(p, k)' <=> Waits(p, k)
         /\ Waits(p, k) => pending'[p][Out(k)] = pending[p][Out(k)]
         /\ \A q \in Peers(p) : /\ Sent(p, q, k)' <=> Sent(p, q, k)
                                /\ Sent(p, q, k) => in_transit'[<<p, q>>][Out(k)] = in_transit[<<p, q>>][Out(k)]
         /\ k < next[p] <=> k < next'[p]
         /\ Looping(p, k)' <=> Looping(p, k)
         /\ Looping(p, k) => loop'[p] = loop[p]
  BY UntouchedFacts
<1>2. Out(k)' = Out(k) /\ In(k)' = In(k) /\ ops' = ops /\ given' = given
  BY DEF Out, In
<1>3. \A p \in Parties : k < next[p] => \A w \in Range(ops[k].inputs) :
         w \in DOMAIN wires[p] /\ w \in DOMAIN (wires'[p]) /\ wires'[p][w] = wires[p][w]
         /\ ShareOf(p, w)' = ShareOf(p, w)
  BY ShareStays DEF Right, Fed, Grows
<1>4. Staged(k)'
  BY <1>1 DEF Right, Staged
<1>5. Fed(k)'
  BY <1>1, <1>2, <1>3 DEF Fed
<1>6. InLoop(k)'
  BY <1>1, <1>2 DEF Right, InLoop
<1>7. Adds(k)'
  <2> SUFFICES ASSUME ops[k].kind = "Add", NEW p \in Parties, HasShare(p, k)
               PROVE  wires'[p][Out(k)] = (wires'[p][ops[k].inputs[1]] + wires'[p][ops[k].inputs[2]]) % M
    BY <1>1, <1>2 DEF Adds
  <2>1. k < next[p]
    BY DEF Right, Staged
  <2>2. wires'[p][ops[k].inputs[1]] = wires[p][ops[k].inputs[1]] /\ wires'[p][ops[k].inputs[2]] = wires[p][ops[k].inputs[2]]
    BY <2>1, <1>3, Reads
  <2> QED
    BY <2>2, <1>1 DEF Right, Adds
<1>8. Shown(k)'
  <2> SUFFICES ASSUME ops[k].kind = "Reveal", NEW p \in Parties
               PROVE  /\ Waits(p, k) => pending'[p][Out(k)] = ShareOf(p, In(k))'
                      /\ \A q \in Peers(p) : Sent(p, q, k) => in_transit'[<<p, q>>][Out(k)] = ShareOf(p, In(k))'
    BY <1>1, <1>2 DEF Shown
  <2>1. Waits(p, k) \/ (\E q \in Peers(p) : Sent(p, q, k)) => ShareOf(p, In(k))' = ShareOf(p, In(k))
    <3>1. Waits(p, k) \/ (\E q \in Peers(p) : Sent(p, q, k)) => k < next[p]
      BY DEF Right, Staged
    <3>2. In(k) \in Range(ops[k].inputs)
      BY Reads
    <3>3. PICK w : w = In(k)
      OBVIOUS
    <3> QED
      BY <3>1, <3>2, <3>3, <1>2, <1>3 DEF ShareOf
  <2> QED
    BY <2>1, <1>1 DEF Right, Shown
<1>9. Opens(k)'
  <2> SUFFICES ASSUME ops[k].kind = "Reveal", NEW p \in Parties, HasShare(p, k)
               PROVE  /\ \A q \in Parties : In(k) \in DOMAIN (wires'[q])
                      /\ wires'[p][Out(k)] = SumOfShares(In(k))'
    BY <1>1, <1>2 DEF Opens
  <2>1. PICK w : w = In(k)
    OBVIOUS
  <2>2. \A q \in Parties : w \in DOMAIN wires[q]
    BY <2>1 DEF Right, Opens
  <2>3. SumOfShares(w)' = SumOfShares(w)
    BY <2>2, SumStays
  <2>4. SumOfShares(In(k))' = SumOfShares(w)'
    BY <2>1, <1>2 DEF SumOfShares
  <2> QED
    BY <2>1, <2>2, <2>3, <2>4, <1>1 DEF Right, Opens, Grows
<1>10. Summed(k)'
  <2> SUFFICES ASSUME ops[k].kind = "Reveal", NEW p \in Parties, Looping(p, k)
               PROVE  /\ \A q \in Parties \ loop[p].left : In(k) \in DOMAIN (wires'[q])
                      /\ loop[p].total = Total(Summands(p, k)') % M
    BY <1>1, <1>2 DEF Summed
  <2>1. PICK w : w = In(k)
    OBVIOUS
  <2>2. \A q \in Parties \ loop[p].left : w \in DOMAIN wires[q] /\ w \in DOMAIN (wires'[q]) /\ wires'[q][w] = wires[q][w]
    BY <2>1 DEF Right, Summed, Grows
  <2>3. Summands(p, k)' = [q \in Parties |-> IF q \in loop[p].left THEN 0
                                             ELSE IF w \in DOMAIN (wires'[q]) THEN wires'[q][w] ELSE 0]
    BY <2>1, <1>1, <1>2 DEF Summands, ShareOf
  <2>4. Summands(p, k) = [q \in Parties |-> IF q \in loop[p].left THEN 0
                                            ELSE IF w \in DOMAIN wires[q] THEN wires[q][w] ELSE 0]
    BY <2>1 DEF Summands, ShareOf
  <2>5. Summands(p, k)' = Summands(p, k)
    BY <2>2, <2>3, <2>4
  <2> QED
    BY <2>1, <2>2, <2>5 DEF Right, Summed
<1>11. Deals(k)'
  <2> SUFFICES ASSUME ops[k].kind = "Input" PROVE Deals(k)'
    BY <1>2 DEF Deals
  <2>1. PICK d \in Parties : d = ops[k].party_id
    BY Reads
  <2>2. \A q \in Parties : DealtTo(q, k)' = DealtTo(q, k)
    <3> SUFFICES ASSUME NEW q \in Parties PROVE DealtTo(q, k)' = DealtTo(q, k)
      OBVIOUS
    <3>1. q # d => q \in Peers(d)
      BY DEF Peers
    <3> QED
      BY <3>1, <2>1, <1>1, <1>2 DEF DealtTo
  <2>3. Dealt(k)' = Dealt(k)
    BY <2>2 DEF Dealt
  <2>4. /\ ~(k < next[d]) => \A q \in Parties : ~HasShare(q, k)
        /\ Looping(d, k) =>
             /\ loop[d].input = given[Out(k)] % M
             /\ loop[d].total = Total(Dealt(k)) % M
             /\ \A q \in loop[d].left : ~HasShare(q, k) /\ ~Sent(d, q, k)
        /\ k < next[d] /\ ~Looping(d, k) => Total(Dealt(k)) % M = given[Out(k)] % M
    BY <2>1 DEF Right, Deals
  <2>5. Looping(d, k) => \A q \in loop[d].left : ~HasShare(q, k)' /\ ~Sent(d, q, k)'
    BY <2>4, <1>1 DEF LoopsOK, Looping, Peers
  <2> QED
    BY <2>1, <2>3, <2>4, <2>5, <1>1, <1>2 DEF Deals
<1> QED
  BY <1>4, <1>5, <1>6, <1>7, <1>8, <1>9, <1>10, <1>11 DEF Right

-----------------------------------------------------------------------------
(* Steps on one operation.                                                 *)

LEMMA PutSame ==
  ASSUME NEW f, NEW w, NEW v
  PROVE  /\ w \in DOMAIN Put(f, w, v) /\ Put(f, w, v)[w] = v
         /\ DOMAIN Put(f, w, v) = (DOMAIN f) \cup {w}
         /\ \A x : x # w => SameAt(f, Put(f, w, v), x)
  BY DEF Put, SameAt

LEMMA RestrictSame ==
  ASSUME NEW f, NEW w
  PROVE  /\ w \notin DOMAIN Restrict(f, (DOMAIN f) \ {w})
         /\ \A x : x # w => SameAt(f, Restrict(f, (DOMAIN f) \ {w}), x)
  BY DEF Restrict, SameAt

LEMMA PutElsewhere ==
  ASSUME NEW f, NEW g, NEW w, g = f \/ \E v : g = Put(f, w, v), NEW x, x # w
  PROVE  SameAt(f, g, x)
  BY DEF Put, SameAt

LEMMA SameSame == \A f, x : SameAt(f, f, x)
  BY DEF SameAt

\* A step of operation j, at one party or more, and of no other.
Touches(j) ==
  /\ UNCHANGED <<ops, given>>
  /\ \A p \in Parties :
       /\ \A x : x # Out(j) => SameAt(wires[p], wires'[p], x) /\ SameAt(pending[p], pending'[p], x)
       /\ \A q \in Peers(p) : \A x : x # Out(j) => SameAt(in_transit[<<p, q>>], in_transit'[<<p, q>>], x)
       /\ next'[p] = next[p] \/ (next[p] = j /\ next'[p] = j + 1)
       /\ \/ user_inputs'[p] = user_inputs[p]
          \/ next'[p] = j + 1 /\ \A x : x # Out(j) => SameAt(user_inputs[p], user_inputs'[p], x)
       /\ \/ loop'[p] = loop[p]
          \/ /\ loop[p] = NoLoop \/ loop[p].output = Out(j)
             /\ loop'[p] = NoLoop \/ loop'[p].output = Out(j)

LEMMA OthersUntouched ==
  ASSUME Ordered(ops), IInv, NEW j \in DOMAIN ops, Touches(j), NEW k \in DOMAIN ops, k # j
  PROVE  Untouched(k)
<1>1. Out(k) # Out(j)
  BY DEF Ordered, Out
<1>2. k \in Nat /\ j \in Nat
  BY Lists
<1> SUFFICES ASSUME NEW p \in Parties
             PROVE  /\ SameAt(wires[p], wires'[p], Out(k)) /\ SameAt(pending[p], pending'[p], Out(k))
                    /\ \A q \in Peers(p) : SameAt(in_transit[<<p, q>>], in_transit'[<<p, q>>], Out(k))
                    /\ k < next[p] <=> k < next'[p]
                    /\ Looping(p, k) => loop'[p] = loop[p]
                    /\ ~Looping(p, k) => loop'[p] = NoLoop \/ loop'[p].output # Out(k)
  BY DEF Untouched
<1>3. /\ SameAt(wires[p], wires'[p], Out(k)) /\ SameAt(pending[p], pending'[p], Out(k))
      /\ \A q \in Peers(p) : SameAt(in_transit[<<p, q>>], in_transit'[<<p, q>>], Out(k))
  BY <1>1 DEF Touches
<1>4. k < next[p] <=> k < next'[p]
  <2>1. next[p] \in Nat /\ (next'[p] = next[p] \/ (next[p] = j /\ next'[p] = j + 1))
    BY DEF Touches, IInv, CircuitOK
  <2> QED
    BY <2>1, <1>2
<1>5. /\ Looping(p, k) => loop'[p] = loop[p]
      /\ ~Looping(p, k) => loop'[p] = NoLoop \/ loop'[p].output # Out(k)
  BY <1>1 DEF Touches, Looping
<1> QED
  BY <1>3, <1>4, <1>5

\* A step of one operation keeps the invariant if it keeps the operation right.
LEMMA StepOn ==
  ASSUME ValueInv, IInv', NEW j \in DOMAIN ops, Touches(j), Grows, Right(j)'
  PROVE  ValueInv'
<1>1. UNCHANGED <<ops, given>> /\ Ordered(ops)'
  BY DEF Touches, ValueInv
<1>2. \A k \in DOMAIN ops : Right(k)'
  <2> SUFFICES ASSUME NEW k \in DOMAIN ops, k # j PROVE Right(k)'
    OBVIOUS
  <2>1. Untouched(k)
    BY OthersUntouched DEF ValueInv
  <2> QED
    BY <2>1, <1>1, StaysRight DEF ValueInv, IInv
<1>3. InputsKept'
  <2> SUFFICES ASSUME NEW p \in Parties, NEW k \in DOMAIN ops, next'[p] >= 1, k >= next'[p], IsInputOf(ops[k], p)
               PROVE  Out(k) \in DOMAIN (user_inputs'[p]) /\ user_inputs'[p][Out(k)] = given[Out(k)] % M
    BY <1>1 DEF InputsKept, Out
  <2>1. k \in Nat /\ j \in Nat /\ j >= 1 /\ next[p] \in Nat
    BY Lists DEF ValueInv, IInv, CircuitOK
  <2>2. next'[p] = next[p] \/ (next[p] = j /\ next'[p] = j + 1)
    BY DEF Touches
  <2>3. next[p] >= 1 /\ k >= next[p]
    BY <2>1, <2>2
  <2>4. Out(k) \in DOMAIN user_inputs[p] /\ user_inputs[p][Out(k)] = given[Out(k)] % M
    BY <2>3 DEF ValueInv, InputsKept
  <2>5. CASE user_inputs'[p] = user_inputs[p]
    BY <2>4, <2>5
  <2>6. CASE next'[p] = j + 1 /\ \A x : x # Out(j) => SameAt(user_inputs[p], user_inputs'[p], x)
    <3>1. k # j
      BY <2>1, <2>6
    <3>2. Out(k) # Out(j)
      BY <3>1 DEF ValueInv, Ordered, Out
    <3> QED
      BY <2>4, <2>6, <3>2 DEF SameAt
  <2> QED
    BY <2>5, <2>6 DEF Touches
<1>4. LoopsKnown'
  <2> SUFFICES ASSUME NEW p \in Parties, loop'[p] # NoLoop
               PROVE  \E k \in DOMAIN ops : loop'[p].output = Out(k)
    BY <1>1 DEF LoopsKnown, Out
  <2> QED
    BY DEF Touches, ValueInv, LoopsKnown
<1> QED
  BY <1>1, <1>2, <1>3, <1>4 DEF ValueInv

\* A wire that nobody had before is all that wires gain.
LEMMA GrowsOn ==
  ASSUME NEW j, Touches(j), \A p \in Parties : wires'[p] = wires[p] \/ Out(j) \notin DOMAIN wires[p]
  PROVE  Grows
  BY DEF Touches, SameAt, Grows

\* Which operation a party starts.
LEMMA StartsAt ==
  ASSUME ValueInv, NEW p \in Parties, NEW op, Starts(p, op)
  PROVE  \E j \in DOMAIN ops : /\ op = ops[j] /\ next[p] = j /\ op.output = Out(j)
                               /\ ~HasShare(p, j) /\ ~Waits(p, j) /\ loop[p] = NoLoop /\ ~Looping(p, j)
                               /\ \A q \in Peers(p) : ~Sent(p, q, j)
                               /\ \A i \in DOMAIN op.inputs : op.inputs[i] \in DOMAIN wires[p]
<1>1. PICK j \in DOMAIN ops : op = ops[j] /\ next[p] = j /\ op.output = Out(j) /\ loop[p] = NoLoop
  BY DEF Starts, Out
<1>2. j \in Nat /\ ~(j < j)
  BY Lists DEF ValueInv
<1>3. \A i \in DOMAIN op.inputs : op.inputs[i] \in DOMAIN wires[p]
  BY DEF Starts, Range
<1>4. Staged(j)
  BY DEF ValueInv, Right
<1> QED
  BY <1>1, <1>2, <1>3, <1>4 DEF Staged, Looping

-----------------------------------------------------------------------------
(* The network phase keeps the values right.                               *)

\* A party begins operation j: it puts shares of it in place, and goes on.
Begins(p, j) ==
  /\ UNCHANGED <<ops, given>> /\ Advance(p)
  /\ \A q \in Parties :
       /\ wires'[q] = wires[q] \/ (q = p /\ \E v : wires'[q] = Put(wires[q], Out(j), v))
       /\ pending'[q] = pending[q] \/ (q = p /\ \E v : pending'[q] = Put(pending[q], Out(j), v))
       /\ \A r \in Peers(q) : \/ in_transit'[<<q, r>>] = in_transit[<<q, r>>]
                              \/ q = p /\ \E v : in_transit'[<<q, r>>] = Put(in_transit[<<q, r>>], Out(j), v)
       /\ loop'[q] = loop[q] \/ (q = p /\ loop'[q].output = Out(j))
       /\ \/ user_inputs'[q] = user_inputs[q]
          \/ q = p /\ user_inputs'[q] = Restrict(user_inputs[q], (DOMAIN user_inputs[q]) \ {Out(j)})

LEMMA BeginsOn ==
  ASSUME ValueInv, NEW p \in Parties, NEW op, Starts(p, op), NEW j \in DOMAIN ops, op = ops[j], next[p] = j,
         Begins(p, j)
  PROVE  /\ Touches(j) /\ Grows /\ Fed(j)'
         /\ next'[p] = j + 1 /\ j < next'[p] /\ \A q \in Parties : q # p => next'[q] = next[q]
<1>1. j \in Nat /\ j < j + 1 /\ next \in [Parties -> Nat]
  BY Lists DEF ValueInv, IInv, CircuitOK
<1>2. next'[p] = j + 1 /\ \A q \in Parties : q # p => next'[q] = next[q]
  BY <1>1 DEF Begins, Advance
<1>3. loop[p] = NoLoop /\ ~HasShare(p, j) /\ \A i \in DOMAIN op.inputs : op.inputs[i] \in DOMAIN wires[p]
  <2>1. Staged(j) /\ ~(j < j)
    BY <1>1 DEF ValueInv, Right
  <2> QED
    BY <2>1 DEF Starts, Staged, Range
<1>4. Touches(j)
  <2> SUFFICES ASSUME NEW q \in Parties
      PROVE /\ \A x : x # Out(j) => SameAt(wires[q], wires'[q], x) /\ SameAt(pending[q], pending'[q], x)
            /\ \A r \in Peers(q) : \A x : x # Out(j) => SameAt(in_transit[<<q, r>>], in_transit'[<<q, r>>], x)
            /\ next'[q] = next[q] \/ (next[q] = j /\ next'[q] = j + 1)
            /\ \/ user_inputs'[q] = user_inputs[q]
               \/ next'[q] = j + 1 /\ \A x : x # Out(j) => SameAt(user_inputs[q], user_inputs'[q], x)
            /\ \/ loop'[q] = loop[q]
               \/ /\ loop[q] = NoLoop \/ loop[q].output = Out(j)
                  /\ loop'[q] = NoLoop \/ loop'[q].output = Out(j)
    BY DEF Touches, Begins
  <2>1. \A x : x # Out(j) => SameAt(wires[q], wires'[q], x) /\ SameAt(pending[q], pending'[q], x)
    <3>1. /\ wires'[q] = wires[q] \/ \E v : wires'[q] = Put(wires[q], Out(j), v)
          /\ pending'[q] = pending[q] \/ \E v : pending'[q] = Put(pending[q], Out(j), v)
      BY DEF Begins
    <3> QED
      BY <3>1, PutElsewhere
  <2>2. \A r \in Peers(q) : \A x : x # Out(j) => SameAt(in_transit[<<q, r>>], in_transit'[<<q, r>>], x)
    <3> SUFFICES ASSUME NEW r \in Peers(q), NEW x, x # Out(j)
                 PROVE  SameAt(in_transit[<<q, r>>], in_transit'[<<q, r>>], x)
      OBVIOUS
    <3>1. in_transit'[<<q, r>>] = in_transit[<<q, r>>] \/ \E v : in_transit'[<<q, r>>] = Put(in_transit[<<q, r>>], Out(j), v)
      BY DEF Begins
    <3> QED
      BY <3>1, PutElsewhere
  <2>3. \/ user_inputs'[q] = user_inputs[q]
        \/ q = p /\ \A x : x # Out(j) => SameAt(user_inputs[q], user_inputs'[q], x)
    BY ZenonT(40) DEF Begins, Restrict, SameAt
  <2> QED
    BY <2>1, <2>2, <2>3, <1>2, <1>3 DEF Begins
<1>5. Grows
  BY <1>3, <1>4, GrowsOn DEF Begins, HasShare
<1>6. Fed(j)'
  <2> SUFFICES ASSUME NEW q \in Parties, j < next'[q], NEW w \in Range(ops[j].inputs)
               PROVE  w \in DOMAIN (wires'[q])
    BY DEF Fed, Begins
  <2>1. w \in DOMAIN wires[q]
    <3>1. CASE q = p
      BY <3>1, <1>3 DEF Range
    <3>2. CASE q # p
      BY <3>2, <1>2 DEF ValueInv, Right, Fed
    <3> QED
      BY <3>1, <3>2
  <2> QED
    BY <2>1, <1>5 DEF Grows
<1> QED
  BY <1>1, <1>2, <1>4, <1>5, <1>6

\* An operation of another kind.
LEMMA OtherKinds ==
  ASSUME NEW k, UNCHANGED ops
  PROVE  /\ ops[k].kind # "Add" => Adds(k)'
         /\ ops[k].kind # "Reveal" => Shown(k)' /\ Summed(k)' /\ Opens(k)'
         /\ ops[k].kind # "Input" => Deals(k)'
  BY DEF Adds, Shown, Summed, Opens, Deals

LEMMA DealInputRight ==
  ASSUME ValueInv, IInv', NEW p \in Parties, NEW op, DealInput(p, op)
  PROVE  ValueInv'
<1>1. PICK j \in DOMAIN ops :
        /\ op = ops[j] /\ next[p] = j /\ op.output = Out(j)
        /\ ~HasShare(p, j) /\ ~Waits(p, j) /\ loop[p] = NoLoop /\ ~Looping(p, j)
        /\ \A q \in Peers(p) : ~Sent(p, q, j)
        /\ \A i \in DOMAIN op.inputs : op.inputs[i] \in DOMAIN wires[p]
  BY StartsAt DEF DealInput
<1>2. PICK deal :
        deal = [doing |-> "deal", output |-> op.output, left |-> Peers(p), total |-> 0,
                input |-> IF op.output \in DOMAIN user_inputs[p] THEN user_inputs[p][op.output] % M ELSE 0]
  OBVIOUS
<1>3. /\ loop' = [loop EXCEPT ![p] = deal] /\ UNCHANGED <<ops, given, pending, in_transit, wires>>
      /\ user_inputs' = [user_inputs EXCEPT ![p] = Restrict(@, (DOMAIN @) \ {Out(j)})] /\ Advance(p)
  BY <1>1, <1>2 DEF DealInput
<1>4. loop'[p] = deal /\ \A q \in Parties : q # p => loop'[q] = loop[q]
  BY <1>3 DEF ValueInv, IInv, LoopsOK
<1>5. /\ user_inputs'[p] = Restrict(user_inputs[p], (DOMAIN user_inputs[p]) \ {Out(j)})
      /\ \A q \in Parties : q # p => user_inputs'[q] = user_inputs[q]
  BY <1>3 DEF ValueInv, IInv, TablesOK, Table
<1>6. deal # NoLoop /\ deal.doing = "deal" /\ deal.output = Out(j) /\ deal.left = Peers(p) /\ deal.total = 0
  BY <1>1, <1>2 DEF NoLoop
<1>7. Begins(p, j)
  BY <1>3, <1>4, <1>5, <1>6 DEF Begins
<1>8. /\ Touches(j) /\ Grows /\ Fed(j)' /\ next'[p] = j + 1 /\ j < next'[p]
      /\ \A q \in Parties : q # p => next'[q] = next[q]
  BY <1>1, <1>7, BeginsOn DEF DealInput
<1>9. j \in Nat /\ ops[j].kind = "Input" /\ ops[j].party_id = p /\ Right(j)
  BY <1>1, Lists DEF DealInput, IsInputOf, ValueInv
<1>10. Staged(j)'
  BY <1>1, <1>3, <1>4, <1>6, <1>8, <1>9 DEF Right, Staged, HasShare, Waits, Looping, Sent, Out
<1>11. InLoop(j)'
  BY <1>3, <1>4, <1>6, <1>9 DEF Right, InLoop, Looping, Out, IsInputOf
<1>12. \A q \in Parties : ~HasShare(q, j)
  BY <1>1, <1>9 DEF Right, Deals
<1>13. deal.input = given[Out(j)] % M
  <2>1. j >= 1 /\ next[p] >= 1 /\ j >= next[p]
    BY <1>1, Lists DEF ValueInv
  <2>2. Out(j) \in DOMAIN user_inputs[p] /\ user_inputs[p][Out(j)] = given[Out(j)] % M
    BY <2>1, <1>9 DEF ValueInv, InputsKept, IsInputOf
  <2>3. user_inputs[p][Out(j)] \in Residues
    BY <2>2 DEF ValueInv, IInv, TablesOK, Table, Shares
  <2> QED
    BY <2>2, <2>3, <1>1, <1>2, Reduce
<1>14. Deals(j)'
  <2>1. \A q \in Parties : DealtTo(q, j)' = 0
    BY <1>1, <1>3, <1>9, <1>12 DEF DealtTo, HasShare, Waits, Sent, Out, Peers
  <2>2. PICK f : f = [q \in Parties |-> 0]
    OBVIOUS
  <2>3. Dealt(j)' = f
    BY <2>1, <2>2 DEF Dealt
  <2>4. Total(f) = 0 /\ 0 % M = 0
    <3>1. f \in [Parties -> Int] /\ \A q \in Parties : f[q] = 0
      BY <2>2
    <3> QED
      BY <3>1, TotalOfNone, Reduce, ConstantsOK
  <2>5. \A q \in deal.left : ~HasShare(q, j)' /\ ~Sent(p, q, j)'
    BY <1>1, <1>3, <1>6, <1>12 DEF HasShare, Sent, Out, Peers
  <2>6. Looping(p, j)' /\ Out(j)' = Out(j)
    BY <1>3, <1>4, <1>6 DEF Looping, Out
  <2> QED
    BY <2>3, <2>4, <2>5, <2>6, <1>3, <1>4, <1>6, <1>8, <1>9, <1>13 DEF Deals
<1> QED
  BY <1>3, <1>8, <1>9, <1>10, <1>11, <1>14, OtherKinds, StepOn DEF Right

LEMMA AwaitInputRight ==
  ASSUME ValueInv, IInv', NEW p \in Parties, NEW op, AwaitInput(p, op)
  PROVE  ValueInv'
<1>1. PICK j \in DOMAIN ops :
        /\ op = ops[j] /\ next[p] = j /\ op.output = Out(j)
        /\ ~HasShare(p, j) /\ ~Waits(p, j) /\ loop[p] = NoLoop /\ ~Looping(p, j)
        /\ \A q \in Peers(p) : ~Sent(p, q, j)
        /\ \A i \in DOMAIN op.inputs : op.inputs[i] \in DOMAIN wires[p]
  BY StartsAt DEF AwaitInput
<1>2. /\ pending'[p] = Put(pending[p], Out(j), 0) /\ \A q \in Parties : q # p => pending'[q] = pending[q]
      /\ UNCHANGED <<ops, given, user_inputs, loop, in_transit, wires>> /\ Advance(p)
  BY <1>1 DEF AwaitInput, ValueInv, IInv, TablesOK, Table
<1>3. Begins(p, j)
  BY <1>2 DEF Begins
<1>4. /\ Touches(j) /\ Grows /\ Fed(j)' /\ next'[p] = j + 1 /\ j < next'[p]
      /\ \A q \in Parties : q # p => next'[q] = next[q]
  BY <1>1, <1>3, BeginsOn DEF AwaitInput
<1>5. ops[j].kind = "Input" /\ ops[j].party_id # p /\ Right(j)
  BY <1>1 DEF AwaitInput, IsInputOf, ValueInv
<1>6. /\ \A q \in Parties : /\ HasShare(q, j)' <=> HasShare(q, j)
                            /\ Looping(q, j)' <=> Looping(q, j)
                            /\ \A r \in Peers(q) : Sent(q, r, j)' <=> Sent(q, r, j)
                            /\ q # p => (Waits(q, j)' <=> Waits(q, j))
      /\ Waits(p, j)' /\ Out(j)' = Out(j)
  BY <1>2 DEF HasShare, Waits, Looping, Sent, Out, Put
<1>7. Staged(j)'
  BY <1>1, <1>4, <1>5, <1>6 DEF Right, Staged
<1>8. InLoop(j)'
  BY <1>2, <1>5, <1>6 DEF Right, InLoop
<1>9. Deals(j)'
  <2>1. PICK d \in Parties : d = ops[j].party_id /\ d # p
    BY <1>5, Reads DEF ValueInv, IInv
  <2>2. \A q \in Parties : DealtTo(q, j)' = DealtTo(q, j)
    BY <1>2, <1>6, <2>1 DEF DealtTo, Peers
  <2>3. Dealt(j)' = Dealt(j)
    BY <2>2 DEF Dealt
  <2>4. loop[d].left \subseteq Peers(d) \/ loop[d] = NoLoop
    BY DEF ValueInv, IInv, LoopsOK
  <2>5. Looping(d, j) => \A q \in loop[d].left : q \in Parties /\ q \in Peers(d)
    BY <2>4 DEF Looping, Peers
  <2> QED
    BY <2>1, <2>3, <2>5, <1>2, <1>4, <1>5, <1>6 DEF Right, Deals
<1> QED
  BY <1>2, <1>4, <1>5, <1>7, <1>8, <1>9, OtherKinds, StepOn DEF Right

\* A local operation puts a share in place and nothing else.
LEMMA LocalRight ==
  ASSUME ValueInv, IInv', NEW p \in Parties, NEW op, Starts(p, op), op.kind \in {"GenRandom", "Add"},
         NEW v, wires' = [wires EXCEPT ![p] = Put(@, op.output, v)], Advance(p),
         op.kind = "Add" => v = (wires[p][op.inputs[1]] + wires[p][op.inputs[2]]) % M,
         UNCHANGED <<ops, given, user_inputs, loop, pending, in_transit>>
  PROVE  ValueInv'
<1>1. PICK j \in DOMAIN ops :
        /\ op = ops[j] /\ next[p] = j /\ op.output = Out(j)
        /\ ~HasShare(p, j) /\ ~Waits(p, j) /\ loop[p] = NoLoop /\ ~Looping(p, j)
        /\ \A q \in Peers(p) : ~Sent(p, q, j)
        /\ \A i \in DOMAIN op.inputs : op.inputs[i] \in DOMAIN wires[p]
  BY StartsAt
<1>2. /\ wires'[p] = Put(wires[p], Out(j), v) /\ \A q \in Parties : q # p => wires'[q] = wires[q]
  BY <1>1 DEF ValueInv, IInv, TablesOK, Table
<1>3. Begins(p, j)
  BY <1>2 DEF Begins
<1>4. /\ Touches(j) /\ Grows /\ Fed(j)' /\ next'[p] = j + 1 /\ j < next'[p]
      /\ \A q \in Parties : q # p => next'[q] = next[q]
  BY <1>1, <1>3, BeginsOn
<1>5. Right(j) /\ Out(j)' = Out(j)
  BY <1>1 DEF ValueInv, Out
<1>6. /\ \A q \in Parties : /\ Waits(q, j)' <=> Waits(q, j)
                            /\ Looping(q, j)' <=> Looping(q, j)
                            /\ \A r \in Peers(q) : Sent(q, r, j)' <=> Sent(q, r, j)
                            /\ q # p => (HasShare(q, j)' <=> HasShare(q, j))
  BY <1>2, <1>5 DEF HasShare, Waits, Looping, Sent
<1>7. Out(j) \in DOMAIN (wires'[p]) /\ wires'[p][Out(j)] = v
  BY <1>2 DEF Put
<1>8. Staged(j)'
  BY <1>1, <1>4, <1>5, <1>6 DEF Right, Staged
<1>9. InLoop(j)'
  BY <1>5, <1>6 DEF Right, InLoop
<1>10. Adds(j)'
  <2> SUFFICES ASSUME ops[j].kind = "Add", NEW q \in Parties, HasShare(q, j)'
               PROVE  wires'[q][Out(j)] = (wires'[q][ops[j].inputs[1]] + wires'[q][ops[j].inputs[2]]) % M
    BY <1>5 DEF Adds
  <2>1. CASE q = p
    <3>1. {1, 2} \subseteq DOMAIN op.inputs
      BY <1>1, CircuitsAssumption DEF ValueInv, IInv, CircuitOK, Range
    <3>2. wires'[p][op.inputs[1]] = wires[p][op.inputs[1]] /\ wires'[p][op.inputs[2]] = wires[p][op.inputs[2]]
      BY <3>1, <1>1, <1>4 DEF Grows
    <3> QED
      BY <2>1, <3>2, <1>1, <1>7
  <2>2. CASE q # p
    BY <2>2, <1>2, <1>5, <1>6 DEF Right, Adds
  <2> QED
    BY <2>1, <2>2
<1>11. ops[j].kind # "Reveal" /\ ops[j].kind # "Input"
  BY <1>1
<1> QED
  BY <1>4, <1>8, <1>9, <1>10, <1>11, OtherKinds, StepOn DEF Right

LEMMA GenerateRandomRight ==
  ASSUME ValueInv, IInv', NEW p \in Parties, NEW op, GenerateRandom(p, op)
  PROVE  ValueInv'
<1>1. PICK my_share \in Residues : wires' = [wires EXCEPT ![p] = Put(@, op.output, my_share)]
  BY DEF GenerateRandom
<1>2. /\ Starts(p, op) /\ op.kind = "GenRandom" /\ Advance(p)
      /\ UNCHANGED <<ops, given, user_inputs, loop, pending, in_transit>>
  BY DEF GenerateRandom
<1> QED
  BY <1>1, <1>2, LocalRight

\* A build in which a sum of two residues comes out modulo M, or panics.
Words == OverflowChecks \/ 2 * M <= Word

LEMMA ReducedIs ==
  ASSUME Words, NEW x \in 0 .. 2 * M - 1, ~Overflows(x)
  PROVE  Reduced(x) = x % M
<1>1. x \in 0 .. Word - 1
  BY ConstantsOK, SharingAssumption DEF Words, Overflows
<1>2. x % Word = x
  BY <1>1, ConstantsOK
<1> QED
  BY <1>2 DEF Reduced

LEMMA PanicRight ==
  ASSUME ValueInv, IInv', UNCHANGED <<ops, given, user_inputs, next, loop, pending, in_transit, wires>>
  PROVE  ValueInv'
<1>1. Grows
  BY DEF Grows
<1>2. \A k \in DOMAIN ops : Untouched(k)
  BY DEF Untouched, SameAt, Looping
<1>3. \A k \in DOMAIN ops : Right(k)'
  BY <1>1, <1>2, StaysRight DEF ValueInv, IInv
<1> QED
  BY <1>3 DEF ValueInv, InputsKept, LoopsKnown, Out

LEMMA AddSharesRight ==
  ASSUME ValueInv, IInv', Words, NEW p \in Parties, NEW op, AddShares(p, op)
  PROVE  ValueInv'
<1>1. PICK sum : sum = wires[p][op.inputs[1]] + wires[p][op.inputs[2]]
  OBVIOUS
<1>2. CASE Overflows(sum) /\ Panic(p)
  BY <1>2, PanicRight DEF Panic
<1>3. CASE /\ ~Overflows(sum)
           /\ wires' = [wires EXCEPT ![p] = Put(@, op.output, Reduced(sum))]
           /\ Advance(p)
           /\ UNCHANGED <<ops, given, user_inputs, loop, pending, in_transit, status>>
  <2>1. Starts(p, op) /\ op.kind = "Add"
    BY DEF AddShares
  <2>2. op \in Range(ops)
    BY <2>1, StartsOK DEF ValueInv, IInv
  <2>3. {1, 2} \subseteq DOMAIN op.inputs
    BY <2>1, <2>2, CircuitsAssumption DEF ValueInv, IInv, CircuitOK
  <2>4. wires[p][op.inputs[1]] \in Residues /\ wires[p][op.inputs[2]] \in Residues
    BY <2>1, <2>3, StartsOK DEF ValueInv, IInv
  <2>5. sum \in 0 .. 2 * M - 1
    BY <2>4, <1>1, TwoResidues
  <2>6. Reduced(sum) = sum % M
    BY <2>5, <1>3, ReducedIs
  <2> QED
    BY <2>1, <2>6, <1>1, <1>3, LocalRight
<1> QED
  BY <1>1, <1>2, <1>3 DEF AddShares

\* Where wires are as they were, so are the values of revealed ones.
LEMMA OpensFrame ==
  ASSUME NEW k, Opens(k), UNCHANGED <<ops, wires>>
  PROVE  Opens(k)'
<1> SUFFICES ASSUME ops[k].kind = "Reveal", NEW p \in Parties, HasShare(p, k)
             PROVE  /\ \A q \in Parties : In(k) \in DOMAIN wires[q]
                    /\ wires[p][Out(k)] = SumOfShares(In(k))'
  BY DEF Opens, In, Out, HasShare
<1>1. PICK w : w = In(k)
  OBVIOUS
<1>2. Grows
  BY DEF Grows
<1>3. \A q \in Parties : w \in DOMAIN wires[q]
  BY <1>1 DEF Opens
<1>4. SumOfShares(w)' = SumOfShares(w)
  BY <1>2, <1>3, SumStays
<1>5. SumOfShares(In(k))' = SumOfShares(w)'
  BY <1>1 DEF SumOfShares, In
<1> QED
  BY <1>1, <1>3, <1>4, <1>5 DEF Opens

LEMMA FedFrame ==
  ASSUME NEW k, Fed(k), UNCHANGED <<ops, next>>, Grows
  PROVE  Fed(k)'
  BY DEF Fed, Grows

LEMMA OpenShareRight ==
  ASSUME ValueInv, IInv', NEW p \in Parties, NEW op, OpenShare(p, op)
  PROVE  ValueInv'
<1>1. PICK j \in DOMAIN ops :
        /\ op = ops[j] /\ next[p] = j /\ op.output = Out(j)
        /\ ~HasShare(p, j) /\ ~Waits(p, j) /\ loop[p] = NoLoop /\ ~Looping(p, j)
        /\ \A q \in Peers(p) : ~Sent(p, q, j)
        /\ \A i \in DOMAIN op.inputs : op.inputs[i] \in DOMAIN wires[p]
  BY StartsAt DEF OpenShare
<1>2. PICK my_share : my_share = wires[p][op.inputs[1]]
  OBVIOUS
<1>3. /\ pending' = [pending EXCEPT ![p] = Put(@, op.output, my_share)]
      /\ in_transit' = [l \in Links |-> IF l[1] = p THEN Put(in_transit[l], op.output, my_share)
                                                    ELSE in_transit[l]]
      /\ UNCHANGED <<ops, given, user_inputs, loop, wires>> /\ Advance(p) /\ op.kind = "Reveal"
  BY <1>2 DEF OpenShare
<1>4. /\ pending'[p] = Put(pending[p], Out(j), my_share)
      /\ \A q \in Parties : q # p => pending'[q] = pending[q]
  BY <1>1, <1>3 DEF ValueInv, IInv, TablesOK, Table
<1>5. \A q \in Parties : \A r \in Peers(q) :
        /\ q = p => in_transit'[<<q, r>>] = Put(in_transit[<<q, r>>], Out(j), my_share)
        /\ q # p => in_transit'[<<q, r>>] = in_transit[<<q, r>>]
  <2>1. \A q \in Parties : \A r \in Peers(q) : <<q, r>> \in Links /\ <<q, r>>[1] = q
    BY DEF Peers, Links
  <2> QED
    BY <2>1, <1>1, <1>3
<1>6. Begins(p, j)
  BY <1>3, <1>4, <1>5 DEF Begins
<1>7. /\ Touches(j) /\ Grows /\ Fed(j)' /\ next'[p] = j + 1 /\ j < next'[p]
      /\ \A q \in Parties : q # p => next'[q] = next[q]
  BY <1>1, <1>6, BeginsOn DEF OpenShare
<1>8. Right(j) /\ Out(j)' = Out(j) /\ In(j)' = In(j) /\ ops[j].kind = "Reveal"
  BY <1>1, <1>3 DEF ValueInv, Out, In
<1>9. /\ \A q \in Parties : /\ HasShare(q, j)' <=> HasShare(q, j)
                            /\ Looping(q, j)' <=> Looping(q, j)
                            /\ q # p => /\ Waits(q, j)' <=> Waits(q, j)
                                        /\ \A r \in Peers(q) : Sent(q, r, j)' <=> Sent(q, r, j)
                            /\ ShareOf(q, In(j))' = ShareOf(q, In(j))
  BY <1>3, <1>4, <1>5, <1>8 DEF HasShare, Waits, Looping, Sent, ShareOf
<1>10. Staged(j)'
  BY <1>1, <1>7, <1>8, <1>9 DEF Right, Staged
<1>11. InLoop(j)'
  BY <1>3, <1>8, <1>9 DEF Right, InLoop
<1>12. Shown(j)'
  <2>1. my_share = ShareOf(p, In(j))
    <3>1. 1 \in DOMAIN op.inputs
      BY <1>1, <1>3, CircuitsAssumption DEF ValueInv, IInv, CircuitOK, Range
    <3> QED
      BY <3>1, <1>1, <1>2 DEF ShareOf, In
  <2>2. pending'[p][Out(j)] = my_share /\ \A r \in Peers(p) : in_transit'[<<p, r>>][Out(j)] = my_share
    BY <1>4, <1>5 DEF Put
  <2> SUFFICES ASSUME NEW q \in Parties
               PROVE  /\ Waits(q, j)' => pending'[q][Out(j)] = ShareOf(q, In(j))
                      /\ \A r \in Peers(q) : Sent(q, r, j)' => in_transit'[<<q, r>>][Out(j)] = ShareOf(q, In(j))
    BY <1>8, <1>9 DEF Shown
  <2>3. CASE q = p
    BY <2>1, <2>2, <2>3
  <2>4. CASE q # p
    BY <2>4, <1>4, <1>5, <1>8, <1>9 DEF Right, Shown
  <2> QED
    BY <2>3, <2>4
<1>13. Summed(j)'
  <2>1. \A q \in Parties : Summands(q, j)' = Summands(q, j)
    BY <1>3, <1>9 DEF Summands
  <2> QED
    BY <2>1, <1>3, <1>8, <1>9 DEF Right, Summed
<1>14. Opens(j)'
  BY <1>3, <1>8, OpensFrame DEF Right
<1> QED
  BY <1>3, <1>7, <1>8, <1>10, <1>11, <1>12, <1>13, <1>14, OtherKinds, StepOn DEF Right

-----------------------------------------------------------------------------
(* The loops keep the values right.                                        *)

\* The operation that a loop is about.
LEMMA LoopAt ==
  ASSUME ValueInv, NEW p \in Parties, loop[p] # NoLoop
  PROVE  \E j \in DOMAIN ops : /\ loop[p].output = Out(j) /\ Looping(p, j) /\ Right(j)
                               /\ ~HasShare(p, j) /\ ~Waits(p, j) /\ j < next[p]
                               /\ loop[p].doing = "deal" => IsInputOf(ops[j], p)
                               /\ loop[p].doing = "sum" => ops[j].kind = "Reveal"
<1>1. PICK j \in DOMAIN ops : loop[p].output = Out(j)
  BY DEF ValueInv, LoopsKnown
<1>2. Looping(p, j) /\ Right(j)
  BY <1>1 DEF Looping, ValueInv
<1> QED
  BY <1>1, <1>2 DEF Right, Staged, InLoop

LEMMA DealtType ==
  ASSUME IInv, NEW k \in DOMAIN ops, ops[k].kind = "Input"
  PROVE  Dealt(k) \in [Parties -> Int] /\ \A q \in Parties : Dealt(k)[q] = DealtTo(q, k) /\ DealtTo(q, k) \in Residues
<1>1. PICK d \in Parties : d = ops[k].party_id
  BY Reads DEF IInv
<1>2. ASSUME NEW q \in Parties PROVE DealtTo(q, k) \in Residues
  <2>1. HasShare(q, k) => wires[q][Out(k)] \in Residues
    BY DEF HasShare, IInv, TablesOK, Table, Shares
  <2>2. Waits(q, k) => pending[q][Out(k)] \in Residues
    BY DEF Waits, IInv, TablesOK, Table, Shares
  <2>3. q # d /\ Sent(d, q, k) => in_transit[<<d, q>>][Out(k)] \in Residues
    <3>1. q # d => <<d, q>> \in Links
      BY DEF Links
    <3> QED
      BY <3>1 DEF Sent, IInv, TransitOK, Shares
  <2> QED
    BY <1>1, <2>1, <2>2, <2>3, ConstantsOK DEF DealtTo
<1>3. Residues \subseteq Int
  BY ConstantsOK DEF Residues
<1> QED
  BY <1>2, <1>3 DEF Dealt

LEMMA DealShareRight ==
  ASSUME ValueInv, IInv', Words, NEW p \in Parties, NEW q \in Peers(p), DealShare(p, q)
  PROVE  ValueInv'
<1>1. PICK share \in Residues :
        \/ Overflows(loop[p].total + share) /\ Panic(p)
        \/ /\ ~Overflows(loop[p].total + share)
           /\ loop' = [loop EXCEPT ![p].left = @ \ {q},
                                   ![p].total = Reduced(loop[p].total + share)]
           /\ in_transit' = [in_transit EXCEPT ![<<p, q>>] = Put(@, loop[p].output, share)]
           /\ UNCHANGED <<ops, given, user_inputs, next, pending, wires, status>>
  BY DEF DealShare
<1>2. CASE Overflows(loop[p].total + share) /\ Panic(p)
  BY <1>2, PanicRight DEF Panic
<1>3. CASE /\ ~Overflows(loop[p].total + share)
           /\ loop' = [loop EXCEPT ![p].left = @ \ {q},
                                   ![p].total = Reduced(loop[p].total + share)]
           /\ in_transit' = [in_transit EXCEPT ![<<p, q>>] = Put(@, loop[p].output, share)]
           /\ UNCHANGED <<ops, given, user_inputs, next, pending, wires, status>>
  <2>1. /\ loop[p].doing = "deal" /\ loop[p] # NoLoop /\ q \in loop[p].left /\ loop[p] \in DealLoops
        /\ loop[p].left \subseteq Peers(p) /\ loop[p].total \in Residues
    BY Dealing DEF DealShare, Turn, NoLoop, ValueInv, IInv
  <2>2. PICK j \in DOMAIN ops :
          /\ loop[p].output = Out(j) /\ Looping(p, j) /\ Right(j)
          /\ ~HasShare(p, j) /\ ~Waits(p, j) /\ j < next[p] /\ IsInputOf(ops[j], p)
    BY <2>1, LoopAt
  <2>3. ops[j].kind = "Input" /\ ops[j].party_id = p
    BY <2>2 DEF IsInputOf
  <2>4. Reduced(loop[p].total + share) = (loop[p].total + share) % M
    BY <1>3, <2>1, TwoResidues, ReducedIs
  <2>5. /\ loop'[p] = [loop[p] EXCEPT !.left = @ \ {q}, !.total = (loop[p].total + share) % M]
        /\ \A r \in Parties : r # p => loop'[r] = loop[r]
    BY <1>3, <2>4 DEF ValueInv, IInv, LoopsOK
  <2>6. /\ loop'[p].left = loop[p].left \ {q} /\ loop'[p].total = (loop[p].total + share) % M
        /\ loop'[p].output = Out(j) /\ loop'[p].doing = "deal" /\ loop'[p].input = loop[p].input
        /\ loop'[p] # NoLoop
    BY <2>1, <2>2, <2>5 DEF DealLoops, NoLoop
  <2>7. /\ in_transit'[<<p, q>>] = Put(in_transit[<<p, q>>], Out(j), share)
        /\ \A l \in Links : l # <<p, q>> => in_transit'[l] = in_transit[l]
        /\ <<p, q>> \in Links
    BY <1>3, <2>2 DEF ValueInv, IInv, TransitOK, Links, Peers
  <2>8. \A r \in Parties : \A s \in Peers(r) : <<r, s>> \in Links
    BY DEF Links, Peers
  <2>9. Touches(j) /\ Grows
    <3>1. \A r \in Parties : \A s \in Peers(r) : \A x : x # Out(j) => SameAt(in_transit[<<r, s>>], in_transit'[<<r, s>>], x)
      <4> SUFFICES ASSUME NEW r \in Parties, NEW s \in Peers(r), NEW x, x # Out(j)
                   PROVE  SameAt(in_transit[<<r, s>>], in_transit'[<<r, s>>], x)
        OBVIOUS
      <4>1. in_transit'[<<r, s>>] = in_transit[<<r, s>>] \/ \E v : in_transit'[<<r, s>>] = Put(in_transit[<<r, s>>], Out(j), v)
        BY <2>7, <2>8
      <4>2. PICK f, g, w : /\ f = in_transit[<<r, s>>] /\ g = in_transit'[<<r, s>>] /\ w = Out(j)
                          /\ x # w /\ (g = f \/ \E v : g = Put(f, w, v))
        BY <4>1
      <4>3. SameAt(f, g, x)
        BY ONLY <4>2, PutElsewhere
      <4> QED
        BY <4>2, <4>3
    <3>2. Touches(j)
      BY <3>1, <1>3, <2>2, <2>5, <2>6, SameSame DEF Touches
    <3> QED
      BY <3>2, <1>3 DEF Grows
  <2>10. Out(j)' = Out(j)
    BY <1>3 DEF Out
  <2>11. /\ \A r \in Parties : /\ HasShare(r, j)' <=> HasShare(r, j)
                               /\ Waits(r, j)' <=> Waits(r, j)
                               /\ Looping(r, j)' <=> Looping(r, j)
                               /\ r # p => \A s \in Peers(r) : Sent(r, s, j)' <=> Sent(r, s, j)
         /\ \A s \in Peers(p) : s # q => (Sent(p, s, j)' <=> Sent(p, s, j))
         /\ Sent(p, q, j)'
    BY <1>3, <2>2, <2>5, <2>6, <2>7, <2>8, <2>10 DEF HasShare, Waits, Looping, Sent, Put
  <2>12. Staged(j)'
    BY <1>3, <2>2, <2>11 DEF Right, Staged
  <2>13. Fed(j)'
    BY <1>3, <2>2, <2>9, FedFrame DEF Right
  <2>14. InLoop(j)'
    BY <1>3, <2>2, <2>5, <2>6, <2>11 DEF Right, InLoop
  <2>15. Deals(j)'
    <3>1. ~HasShare(q, j) /\ ~Sent(p, q, j) /\ q # p /\ q \in Parties
      BY <2>1, <2>2, <2>3 DEF Right, Deals, Peers
    <3>2. DealtTo(q, j) = 0 /\ DealtTo(q, j)' = share
      <4>1. in_transit'[<<p, q>>][Out(j)] = share
        BY <2>7 DEF Put
      <4> QED
        BY <3>1, <4>1, <1>3, <2>3, <2>10, <2>11 DEF DealtTo
    <3>3. ASSUME NEW r \in Parties, r # q PROVE DealtTo(r, j)' = DealtTo(r, j)
      <4>1. r # p => r \in Peers(p) /\ in_transit'[<<p, r>>] = in_transit[<<p, r>>]
        BY <2>7, <2>8, <3>3 DEF Peers
      <4> QED
        BY <4>1, <3>3, <1>3, <2>3, <2>10, <2>11 DEF DealtTo
    <3>4. /\ Dealt(j) \in [Parties -> Int] /\ \A r \in Parties : Dealt(j)[r] = DealtTo(r, j)
          /\ share \in Int /\ loop[p].total \in Int
      BY <2>1, <2>3, DealtType, ConstantsOK DEF ValueInv, Residues
    <3>5. PICK h : h = Dealt(j)'
      OBVIOUS
    <3>6. h \in [Parties -> Int] /\ h[q] = share /\ \A r \in Parties : r # q => h[r] = Dealt(j)[r]
      <4>1. h = [r \in Parties |-> IF r = q THEN share ELSE Dealt(j)[r]]
        BY <3>2, <3>3, <3>4, <3>5 DEF Dealt
      <4> QED
        BY <4>1, <3>1, <3>4
    <3>7. Total(h) % M = (Total(Dealt(j)) + share) % M
      BY <3>1, <3>2, <3>4, <3>6, TotalWith
    <3>8. loop[p].total = Total(Dealt(j)) % M /\ Total(Dealt(j)) \in Int
      BY <2>2, <2>3, <3>4, TotalInt DEF Right, Deals
    <3>9. loop[p].total % M = Total(Dealt(j)) % M
      BY <2>1, <3>8, Reduce
    <3>10. (loop[p].total + share) % M = (Total(Dealt(j)) + share) % M
      BY <3>4, <3>8, <3>9, Congruence
    <3>11. \A s \in loop'[p].left : ~HasShare(s, j)' /\ ~Sent(p, s, j)'
      BY <2>1, <2>2, <2>3, <2>6, <2>11 DEF Right, Deals, Peers
    <3>12. loop[p].input = given[Out(j)] % M
      BY <2>2, <2>3 DEF Right, Deals
    <3> QED
      BY <1>3, <2>2, <2>3, <2>6, <2>10, <2>11, <3>5, <3>7, <3>10, <3>11, <3>12 DEF Deals
  <2> QED
    BY <1>3, <2>3, <2>9, <2>12, <2>13, <2>14, <2>15, OtherKinds, StepOn DEF Right
<1> QED
  BY <1>1, <1>2, <1>3

LEMMA KeepShareRight ==
  ASSUME ValueInv, IInv', Words, NEW p \in Parties, KeepShare(p)
  PROVE  ValueInv'
<1>1. PICK sum : sum = loop[p].input + M
  OBVIOUS
<1>2. PICK rest : rest = sum - loop[p].total
  OBVIOUS
<1>3. CASE (Overflows(sum) \/ Overflows(rest)) /\ Panic(p)
  BY <1>3, PanicRight DEF Panic
<1>4. CASE /\ ~Overflows(sum) /\ ~Overflows(rest)
           /\ pending' = [pending EXCEPT ![p] = Put(@, loop[p].output, Reduced(rest))]
           /\ loop' = [loop EXCEPT ![p] = NoLoop]
           /\ UNCHANGED <<ops, given, user_inputs, next, in_transit, wires, status>>
  <2>1. /\ loop[p].doing = "deal" /\ loop[p] # NoLoop /\ loop[p].left = {}
        /\ loop[p].total \in Residues /\ loop[p].input \in Residues
    BY Dealing DEF KeepShare, NoLoop, ValueInv, IInv
  <2>2. PICK j \in DOMAIN ops :
          /\ loop[p].output = Out(j) /\ Looping(p, j) /\ Right(j)
          /\ ~HasShare(p, j) /\ ~Waits(p, j) /\ j < next[p] /\ IsInputOf(ops[j], p)
    BY <2>1, LoopAt
  <2>3. ops[j].kind = "Input" /\ ops[j].party_id = p
    BY <2>2 DEF IsInputOf
  <2>4. rest \in 0 .. 2 * M - 1 /\ rest \in Int /\ sum \in Int
    BY <1>1, <1>2, <2>1, TwoResidues
  <2>5. Reduced(rest) = rest % M
    BY <1>4, <2>4, ReducedIs
  <2>6. /\ loop'[p] = NoLoop /\ \A r \in Parties : r # p => loop'[r] = loop[r]
        /\ pending'[p] = Put(pending[p], Out(j), rest % M) /\ \A r \in Parties : r # p => pending'[r] = pending[r]
    BY <1>4, <2>2, <2>5 DEF ValueInv, IInv, LoopsOK, TablesOK, Table
  <2>7. Touches(j) /\ Grows
    <3>1. \A r \in Parties : \A x : x # Out(j) => SameAt(pending[r], pending'[r], x)
      BY <2>6, PutElsewhere, SameSame
    <3>2. Touches(j)
      BY <3>1, <1>4, <2>2, <2>6, SameSame DEF Touches
    <3> QED
      BY <3>2, <1>4 DEF Grows
  <2>8. Out(j)' = Out(j)
    BY <1>4 DEF Out
  <2>9. /\ \A r \in Parties : /\ HasShare(r, j)' <=> HasShare(r, j)
                              /\ r # p => (Waits(r, j)' <=> Waits(r, j)) /\ (Looping(r, j)' <=> Looping(r, j))
                              /\ \A s \in Peers(r) : Sent(r, s, j)' <=> Sent(r, s, j)
        /\ Waits(p, j)' /\ ~Looping(p, j)' /\ pending'[p][Out(j)] = rest % M
    BY <1>4, <2>6, <2>8 DEF HasShare, Waits, Looping, Sent, Put
  <2>10. Staged(j)'
    BY <1>4, <2>2, <2>9 DEF Right, Staged
  <2>11. Fed(j)'
    BY <1>4, <2>2, <2>7, FedFrame DEF Right
  <2>12. InLoop(j)'
    BY <1>4, <2>2, <2>6, <2>9 DEF Right, InLoop
  <2>13. Deals(j)'
    <3>1. DealtTo(p, j) = 0 /\ DealtTo(p, j)' = rest % M
      BY <1>4, <2>2, <2>3, <2>8, <2>9 DEF DealtTo
    <3>2. ASSUME NEW r \in Parties, r # p PROVE DealtTo(r, j)' = DealtTo(r, j)
      <4>1. r \in Peers(p)
        BY <3>2 DEF Peers
      <4> QED
        BY <4>1, <3>2, <1>4, <2>3, <2>6, <2>8, <2>9 DEF DealtTo
    <3>3. /\ Dealt(j) \in [Parties -> Int] /\ \A r \in Parties : Dealt(j)[r] = DealtTo(r, j)
      BY <2>3, DealtType DEF ValueInv
    <3>4. rest % M \in Int /\ (rest % M) % M = rest % M
      BY <2>4, ResidueType
    <3>5. PICK h : h = Dealt(j)'
      OBVIOUS
    <3>6. h \in [Parties -> Int] /\ h[p] = rest % M /\ \A r \in Parties : r # p => h[r] = Dealt(j)[r]
      <4>1. h = [r \in Parties |-> IF r = p THEN rest % M ELSE Dealt(j)[r]]
        BY <3>1, <3>2, <3>3, <3>5 DEF Dealt
      <4> QED
        BY <4>1, <3>3, <3>4
    <3>7. Total(h) % M = (Total(Dealt(j)) + (rest % M)) % M
      BY <3>1, <3>3, <3>4, <3>6, TotalWith
    <3>8. PICK total \in Int : total = Total(Dealt(j)) /\ loop[p].total = total % M
      BY <2>2, <2>3, <3>3, TotalInt DEF Right, Deals
    <3>9. total % M = loop[p].total % M
      BY <2>1, <3>8, Reduce
    <3>10. loop[p].total \in Int /\ loop[p].input \in Int /\ M \in Int
      BY <2>1, ConstantsOK DEF Residues
    <3>11. (total + (rest % M)) % M = (loop[p].total + rest) % M
      <4>1. PICK b \in Int, c \in Int, d \in Int :
              b = rest % M /\ c = loop[p].total /\ d = rest /\ b % M = d % M /\ total % M = c % M
        BY <2>4, <3>4, <3>9, <3>10
      <4>2. total % M = c % M /\ b % M = d % M
        BY <4>1
      <4>3. (total + b) % M = (c + d) % M
        BY ONLY <4>2, total \in Int, b \in Int, c \in Int, d \in Int, Congruence
      <4> QED
        BY <4>1, <4>3
    <3>12. loop[p].total + rest = loop[p].input + 1 * M
      BY <1>1, <1>2, <3>10
    <3>13. (loop[p].input + 1 * M) % M = loop[p].input % M
      BY <3>10, SameResidue
    <3>14. loop[p].input = given[Out(j)] % M /\ loop[p].input % M = loop[p].input
      BY <2>1, <2>2, <2>3, Reduce DEF Right, Deals
    <3>15. Total(h) % M = given[Out(j)] % M
      BY <3>7, <3>8, <3>11, <3>12, <3>13, <3>14
    <3> QED
      BY <1>4, <2>2, <2>3, <2>8, <2>9, <3>5, <3>15 DEF Deals
  <2> QED
    BY <1>4, <2>3, <2>7, <2>10, <2>11, <2>12, <2>13, OtherKinds, StepOn DEF Right
<1> QED
  BY <1>1, <1>2, <1>3, <1>4 DEF KeepShare

\* The operation that a party finalizes.
LEMMA FinalizesAt ==
  ASSUME ValueInv, NEW p \in Parties, NEW op \in Range(ops), Finalizes(p, op)
  PROVE  \E j \in DOMAIN ops : /\ op = ops[j] /\ op.output = Out(j) /\ Right(j) /\ loop[p] = NoLoop
                               /\ Waits(p, j) /\ ~HasShare(p, j) /\ ~Looping(p, j) /\ j < next[p]
                               /\ \A q \in Peers(p) : Receives(op, p, q) => Sent(q, p, j)
<1>1. PICK j \in DOMAIN ops : op = ops[j]
  BY DEF Range
<1>2. Right(j) /\ op.output = Out(j)
  BY <1>1 DEF ValueInv, Out
<1>3. Waits(p, j) /\ loop[p] = NoLoop /\ \A q \in Peers(p) : Receives(op, p, q) => Sent(q, p, j)
  BY <1>2 DEF Finalizes, Waits, Sent
<1> QED
  BY <1>1, <1>2, <1>3 DEF Right, Staged, Looping

LEMMA Elsewhere ==
  ASSUME NEW f, NEW g, NEW w, g = f \/ g = Restrict(f, (DOMAIN f) \ {w}), NEW x, x # w
  PROVE  SameAt(f, g, x)
  BY DEF Restrict, SameAt

LEMMA FinalizeInputRight ==
  ASSUME ValueInv, IInv', NEW p \in Parties, NEW op \in Range(ops), FinalizeInput(p, op)
  PROVE  ValueInv'
<1>1. PICK j \in DOMAIN ops :
        /\ op = ops[j] /\ op.output = Out(j) /\ Right(j) /\ loop[p] = NoLoop
        /\ Waits(p, j) /\ ~HasShare(p, j) /\ ~Looping(p, j) /\ j < next[p]
        /\ \A q \in Peers(p) : Receives(op, p, q) => Sent(q, p, j)
  BY FinalizesAt DEF FinalizeInput
<1>2. PICK share : share = IF IsInputOf(op, p) THEN pending[p][op.output]
                           ELSE in_transit[<<op.party_id, p>>][op.output] % M
  OBVIOUS
<1>3. /\ wires' = [wires EXCEPT ![p] = Put(@, op.output, share)]
      /\ pending' = [pending EXCEPT ![p] = NoLonger(@, op)]
      /\ in_transit' = [l \in Links |-> IF l = <<op.party_id, p>> THEN NoLonger(in_transit[l], op)
                                                                  ELSE in_transit[l]]
      /\ UNCHANGED <<ops, given, user_inputs, next, loop, status>> /\ op.kind = "Input"
  BY <1>2 DEF FinalizeInput
<1>4. PICK d \in Parties : d = ops[j].party_id /\ d = op.party_id
  BY <1>1, <1>3, Reads DEF ValueInv, IInv
<1>5. /\ wires'[p] = Put(wires[p], Out(j), share) /\ \A r \in Parties : r # p => wires'[r] = wires[r]
      /\ pending'[p] = Restrict(pending[p], (DOMAIN pending[p]) \ {Out(j)})
      /\ \A r \in Parties : r # p => pending'[r] = pending[r]
  BY <1>1, <1>3 DEF ValueInv, IInv, TablesOK, Table, NoLonger
<1>6. \A r \in Parties : \A s \in Peers(r) :
        /\ <<r, s>> # <<d, p>> => in_transit'[<<r, s>>] = in_transit[<<r, s>>]
        /\ <<r, s>> = <<d, p>> => in_transit'[<<r, s>>] = Restrict(in_transit[<<r, s>>], (DOMAIN in_transit[<<r, s>>]) \ {Out(j)})
  <2>1. \A r \in Parties : \A s \in Peers(r) : <<r, s>> \in Links
    BY DEF Peers, Links
  <2> QED
    BY <2>1, <1>1, <1>3, <1>4 DEF NoLonger
<1>7. Touches(j) /\ Grows
  <2>1. \A r \in Parties : \A x : x # Out(j) => SameAt(wires[r], wires'[r], x)
    <3> SUFFICES ASSUME NEW r \in Parties, NEW x, x # Out(j) PROVE SameAt(wires[r], wires'[r], x)
      OBVIOUS
    <3> QED
      BY <1>5 DEF Put, SameAt
  <2>2. \A r \in Parties : \A x : x # Out(j) => SameAt(pending[r], pending'[r], x)
    <3> SUFFICES ASSUME NEW r \in Parties, NEW x, x # Out(j) PROVE SameAt(pending[r], pending'[r], x)
      OBVIOUS
    <3> QED
      BY <1>5 DEF Restrict, SameAt
  <2>3. \A r \in Parties : \A s \in Peers(r) : \A x : x # Out(j) => SameAt(in_transit[<<r, s>>], in_transit'[<<r, s>>], x)
    <3> SUFFICES ASSUME NEW r \in Parties, NEW s \in Peers(r), NEW x, x # Out(j)
                 PROVE  SameAt(in_transit[<<r, s>>], in_transit'[<<r, s>>], x)
      OBVIOUS
    <3>1. PICK f, g, w : /\ f = in_transit[<<r, s>>] /\ g = in_transit'[<<r, s>>] /\ w = Out(j) /\ x # w
                         /\ g = f \/ g = Restrict(f, (DOMAIN f) \ {w})
      BY <1>6
    <3>2. SameAt(f, g, x)
      BY ONLY <3>1, Elsewhere
    <3> QED
      BY <3>1, <3>2
  <2>4. Touches(j)
    BY <1>3, <2>1, <2>2, <2>3 DEF Touches
  <2> QED
    BY <2>4, <1>1, <1>5, GrowsOn DEF HasShare
<1>8. Out(j)' = Out(j)
  BY <1>3 DEF Out
<1>9. /\ \A r \in Parties : /\ r # p => (HasShare(r, j)' <=> HasShare(r, j)) /\ (Waits(r, j)' <=> Waits(r, j))
                            /\ Looping(r, j)' <=> Looping(r, j)
                            /\ \A s \in Peers(r) : /\ Sent(r, s, j)' => Sent(r, s, j)
                                                   /\ <<r, s>> # <<d, p>> => (Sent(r, s, j)' <=> Sent(r, s, j))
      /\ HasShare(p, j)' /\ ~Waits(p, j)' /\ wires'[p][Out(j)] = share
  <2>1. \A r \in Parties : \A s \in Peers(r) : /\ Sent(r, s, j)' => Sent(r, s, j)
                                               /\ <<r, s>> # <<d, p>> => (Sent(r, s, j)' <=> Sent(r, s, j))
    BY <1>6, <1>8 DEF Sent, Restrict
  <2>2. HasShare(p, j)' /\ ~Waits(p, j)' /\ wires'[p][Out(j)] = share
    BY <1>5, <1>8 DEF HasShare, Waits, Put, Restrict
  <2>3. \A r \in Parties : /\ r # p => (HasShare(r, j)' <=> HasShare(r, j)) /\ (Waits(r, j)' <=> Waits(r, j))
                           /\ Looping(r, j)' <=> Looping(r, j)
    BY <1>3, <1>5, <1>8 DEF HasShare, Waits, Looping
  <2> QED
    BY <2>1, <2>2, <2>3
<1>10. Staged(j)'
  BY <1>1, <1>3, <1>9 DEF Right, Staged
<1>11. Fed(j)'
  BY <1>1, <1>3, <1>7, FedFrame DEF Right
<1>12. InLoop(j)'
  BY <1>1, <1>3, <1>9 DEF Right, InLoop
<1>13. p # d => Sent(d, p, j)
  <2>1. p # d => d \in Peers(p) /\ Receives(op, p, d)
    BY <1>3, <1>4 DEF Peers, Receives, IsInputOf
  <2> QED
    BY <2>1, <1>1
<1>14. j < next[d]
  <2>1. p # d => p \in Peers(d)
    BY DEF Peers
  <2> QED
    BY <2>1, <1>1, <1>13 DEF Right, Staged
<1>15. \A r \in Parties : DealtTo(r, j)' = DealtTo(r, j)
  <2>1. DealtTo(p, j)' = share
    BY <1>8, <1>9 DEF DealtTo
  <2>2. DealtTo(p, j) = share
    <3>1. CASE p = d
      BY <3>1, <1>1, <1>2, <1>3, <1>4 DEF DealtTo, IsInputOf
    <3>2. CASE p # d
      <4>1. ~IsInputOf(op, p)
        BY <3>2, <1>4 DEF IsInputOf
      <4>2. DealtTo(p, j) = in_transit[<<d, p>>][Out(j)] /\ share = in_transit[<<d, p>>][Out(j)] % M
        BY <3>2, <4>1, <1>1, <1>2, <1>4, <1>13 DEF DealtTo
      <4>3. DealtTo(p, j) \in Residues
        BY <1>1, <1>3, DealtType DEF ValueInv
      <4> QED
        BY <4>2, <4>3, Reduce
    <3> QED
      BY <3>1, <3>2
  <2>3. ASSUME NEW r \in Parties, r # p PROVE DealtTo(r, j)' = DealtTo(r, j)
    <3>1. r # d => r \in Peers(d) /\ <<d, r>> # <<d, p>> /\ in_transit'[<<d, r>>] = in_transit[<<d, r>>]
      BY <1>6, <2>3 DEF Peers
    <3> QED
      BY <2>3, <3>1, <1>3, <1>4, <1>5, <1>8, <1>9 DEF DealtTo
  <2> QED
    BY <2>1, <2>2, <2>3
<1>16. Deals(j)'
  <2>1. PICK f : f = Dealt(j) /\ f = Dealt(j)'
    BY <1>15 DEF Dealt
  <2>2. Looping(d, j) => \A q \in loop[d].left : ~HasShare(q, j)' /\ ~Sent(d, q, j)'
    <3> SUFFICES ASSUME Looping(d, j), NEW q \in loop[d].left PROVE ~HasShare(q, j)' /\ ~Sent(d, q, j)'
      OBVIOUS
    <3>1. ~HasShare(q, j) /\ ~Sent(d, q, j) /\ d # p
      BY <1>1, <1>3, <1>4 DEF Right, Deals
    <3>2. q \in Peers(d) /\ q \in Parties /\ q # p
      BY <3>1, <1>13 DEF ValueInv, IInv, LoopsOK, Looping, Peers
    <3> QED
      BY <3>1, <3>2, <1>9
  <2>3. /\ Looping(d, j) => loop[d].input = given[Out(j)] % M /\ loop[d].total = Total(f) % M
        /\ ~Looping(d, j) => Total(f) % M = given[Out(j)] % M
    BY <2>1, <1>1, <1>3, <1>4, <1>14 DEF Right, Deals
  <2>4. Looping(d, j)' <=> Looping(d, j)
    BY <1>9
  <2> QED
    BY <2>1, <2>2, <2>3, <2>4, <1>3, <1>4, <1>8, <1>14 DEF Deals
<1> QED
  BY <1>1, <1>3, <1>7, <1>10, <1>11, <1>12, <1>16, OtherKinds, StepOn DEF Right

LEMMA ShareType ==
  ASSUME IInv, NEW p \in Parties, NEW w
  PROVE  ShareOf(p, w) \in Residues /\ ShareOf(p, w) \in Int
<1>1. ShareOf(p, w) \in Residues
  BY ConstantsOK DEF ShareOf, IInv, TablesOK, Table, Shares
<1> QED
  BY <1>1, ConstantsOK DEF Residues

LEMMA FinalizeRevealRight ==
  ASSUME ValueInv, IInv', NEW p \in Parties, NEW op \in Range(ops), FinalizeReveal(p, op)
  PROVE  ValueInv'
<1>1. PICK j \in DOMAIN ops :
        /\ op = ops[j] /\ op.output = Out(j) /\ Right(j) /\ loop[p] = NoLoop
        /\ Waits(p, j) /\ ~HasShare(p, j) /\ ~Looping(p, j) /\ j < next[p]
  BY FinalizesAt DEF FinalizeReveal
<1>2. PICK adding : adding = [doing |-> "sum", output |-> op.output, left |-> Peers(p),
                              total |-> pending[p][op.output]]
  OBVIOUS
<1>3. /\ loop' = [loop EXCEPT ![p] = adding]
      /\ pending' = [pending EXCEPT ![p] = NoLonger(@, op)]
      /\ UNCHANGED <<ops, given, user_inputs, next, in_transit, wires, status>> /\ op.kind = "Reveal"
  BY <1>2 DEF FinalizeReveal
<1>4. /\ loop'[p] = adding /\ \A r \in Parties : r # p => loop'[r] = loop[r]
      /\ pending'[p] = Restrict(pending[p], (DOMAIN pending[p]) \ {Out(j)})
      /\ \A r \in Parties : r # p => pending'[r] = pending[r]
  BY <1>1, <1>3 DEF ValueInv, IInv, LoopsOK, TablesOK, Table, NoLonger
<1>5. adding # NoLoop /\ adding.doing = "sum" /\ adding.output = Out(j) /\ adding.left = Peers(p)
      /\ adding.total = pending[p][Out(j)]
  BY <1>1, <1>2 DEF NoLoop
<1>6. Touches(j) /\ Grows
  <2>1. \A r \in Parties : \A x : x # Out(j) => SameAt(pending[r], pending'[r], x)
    <3> SUFFICES ASSUME NEW r \in Parties, NEW x, x # Out(j) PROVE SameAt(pending[r], pending'[r], x)
      OBVIOUS
    <3> QED
      BY <1>4 DEF Restrict, SameAt
  <2>2. Touches(j)
    BY <2>1, <1>1, <1>3, <1>4, <1>5, SameSame DEF Touches
  <2> QED
    BY <2>2, <1>3 DEF Grows
<1>7. Out(j)' = Out(j) /\ In(j)' = In(j)
  BY <1>3 DEF Out, In
<1>8. /\ \A r \in Parties : /\ HasShare(r, j)' <=> HasShare(r, j)
                            /\ r # p => (Waits(r, j)' <=> Waits(r, j)) /\ (Looping(r, j)' <=> Looping(r, j))
                            /\ \A s \in Peers(r) : Sent(r, s, j)' <=> Sent(r, s, j)
      /\ ~Waits(p, j)' /\ Looping(p, j)'
  BY <1>3, <1>4, <1>5, <1>7 DEF HasShare, Waits, Looping, Sent, Restrict
<1>9. \A r \in Parties : ShareOf(r, In(j))' = ShareOf(r, In(j))
  BY <1>3, <1>7 DEF ShareOf
<1>10. Staged(j)'
  BY <1>1, <1>3, <1>8 DEF Right, Staged
<1>11. Fed(j)'
  BY <1>1, <1>3, <1>6, FedFrame DEF Right
<1>12. InLoop(j)'
  BY <1>1, <1>3, <1>4, <1>5, <1>8 DEF Right, InLoop
<1>13. Shown(j)'
  BY <1>1, <1>3, <1>4, <1>7, <1>8, <1>9 DEF Right, Shown
<1>14. Opens(j)'
  BY <1>1, <1>3, OpensFrame DEF Right
<1>15. Summed(j)'
  <2>1. In(j) \in DOMAIN wires[p]
    BY <1>1, <1>3, Reads DEF Right, Fed, ValueInv, IInv
  <2>2. adding.total = ShareOf(p, In(j))
    BY <1>1, <1>3, <1>5 DEF Right, Shown
  <2>3. PICK f : f = Summands(p, j)'
    OBVIOUS
  <2>4. f = [q \in Parties |-> IF q \in adding.left THEN 0 ELSE ShareOf(q, In(j))]
    BY <2>3, <1>4, <1>9 DEF Summands
  <2>5. /\ f \in [Parties -> Int] /\ f[p] = ShareOf(p, In(j)) /\ \A q \in Parties : q # p => f[q] = 0
    BY <2>4, <1>5, ShareType DEF Peers, ValueInv
  <2>6. Total(f) = ShareOf(p, In(j))
    BY <2>5, TotalOfOne
  <2>7. adding.total = Total(f) % M
    BY <2>2, <2>6, ShareType, Reduce DEF ValueInv
  <2>8. ASSUME NEW r \in Parties, r # p, Looping(r, j)
        PROVE  /\ \A q \in Parties \ loop[r].left : In(j) \in DOMAIN wires[q]
               /\ loop[r].total = Total(Summands(r, j)) % M /\ Summands(r, j)' = Summands(r, j)
    <3>1. Summands(r, j)' = Summands(r, j)
      BY <1>4, <1>9, <2>8 DEF Summands
    <3> QED
      BY <3>1, <1>1, <1>3, <2>8 DEF Right, Summed
  <2> SUFFICES ASSUME NEW r \in Parties, Looping(r, j)'
               PROVE  /\ \A q \in Parties \ loop'[r].left : In(j) \in DOMAIN wires[q]
                      /\ loop'[r].total = Total(Summands(r, j)') % M
    BY <1>3, <1>7 DEF Summed
  <2>9. CASE r = p
    BY <2>1, <2>3, <2>7, <2>9, <1>4, <1>5 DEF Peers
  <2>10. CASE r # p
    BY <2>8, <2>10, <1>4, <1>8
  <2> QED
    BY <2>9, <2>10
<1> QED
  BY <1>1, <1>3, <1>6, <1>10, <1>11, <1>12, <1>13, <1>14, <1>15, OtherKinds, StepOn DEF Right

LEMMA AddReceivedRight ==
  ASSUME ValueInv, IInv', Words, NEW p \in Parties, NEW q \in Peers(p), AddReceived(p, q)
  PROVE  ValueInv'
<1>1. PICK share : share = in_transit[<<q, p>>][loop[p].output]
  OBVIOUS
<1>2. PICK sum : sum = loop[p].total + share
  OBVIOUS
<1>3. CASE Overflows(sum) /\ Panic(p)
  BY <1>3, PanicRight DEF Panic
<1>4. CASE /\ ~Overflows(sum)
           /\ loop' = [loop EXCEPT ![p].left = @ \ {q}, ![p].total = Reduced(sum)]
           /\ in_transit' = [in_transit EXCEPT ![<<q, p>>] = Restrict(@, (DOMAIN @) \ {loop[p].output})]
           /\ UNCHANGED <<ops, given, user_inputs, next, pending, wires, status>>
  <2>1. /\ loop[p].doing = "sum" /\ loop[p] # NoLoop /\ loop[p] \in SumLoops
        /\ q \in loop[p].left /\ q \in Parties /\ q # p /\ p \in Peers(q) /\ <<q, p>> \in Links
        /\ loop[p].output \in DOMAIN in_transit[<<q, p>>] /\ loop[p].total \in Residues
    BY Summing DEF AddReceived, Turn, NoLoop, ValueInv, IInv, SumReady, Peers, SumLoops
  <2>2. PICK j \in DOMAIN ops :
          /\ loop[p].output = Out(j) /\ Looping(p, j) /\ Right(j)
          /\ ~HasShare(p, j) /\ ~Waits(p, j) /\ j < next[p] /\ ops[j].kind = "Reveal"
    BY <2>1, LoopAt
  <2>3. Sent(q, p, j) /\ j < next[q] /\ share = ShareOf(q, In(j)) /\ In(j) \in DOMAIN wires[q]
    <3>1. Sent(q, p, j)
      BY <2>1, <2>2 DEF Sent
    <3>2. j < next[q] /\ share = ShareOf(q, In(j))
      BY <3>1, <1>1, <2>1, <2>2 DEF Right, Staged, Shown
    <3> QED
      BY <3>1, <3>2, <2>1, <2>2, Reads DEF Right, Fed, ValueInv, IInv
  <2>4. share \in Residues /\ share \in Int /\ loop[p].total \in Int
    BY <2>1, <2>3, ShareType, ConstantsOK DEF ValueInv, Residues
  <2>5. Reduced(sum) = (loop[p].total + share) % M
    BY <1>2, <1>4, <2>1, <2>4, TwoResidues, ReducedIs
  <2>6. /\ loop'[p] = [loop[p] EXCEPT !.left = @ \ {q}, !.total = (loop[p].total + share) % M]
        /\ \A r \in Parties : r # p => loop'[r] = loop[r]
    BY <1>4, <2>5 DEF ValueInv, IInv, LoopsOK
  <2>7. /\ loop'[p].left = loop[p].left \ {q} /\ loop'[p].total = (loop[p].total + share) % M
        /\ loop'[p].output = Out(j) /\ loop'[p].doing = "sum" /\ loop'[p] # NoLoop
    BY <2>1, <2>2, <2>6 DEF SumLoops, NoLoop
  <2>8. \A r \in Parties : \A s \in Peers(r) :
          /\ <<r, s>> # <<q, p>> => in_transit'[<<r, s>>] = in_transit[<<r, s>>]
          /\ <<r, s>> = <<q, p>> => in_transit'[<<r, s>>] = Restrict(in_transit[<<r, s>>], (DOMAIN in_transit[<<r, s>>]) \ {Out(j)})
    <3>1. \A r \in Parties : \A s \in Peers(r) : <<r, s>> \in Links
      BY DEF Peers, Links
    <3> QED
      BY <3>1, <1>4, <2>1, <2>2 DEF ValueInv, IInv, TransitOK
  <2>9. Touches(j) /\ Grows
    <3>1. \A r \in Parties : \A s \in Peers(r) : \A x : x # Out(j) => SameAt(in_transit[<<r, s>>], in_transit'[<<r, s>>], x)
      <4> SUFFICES ASSUME NEW r \in Parties, NEW s \in Peers(r), NEW x, x # Out(j)
                   PROVE  SameAt(in_transit[<<r, s>>], in_transit'[<<r, s>>], x)
        OBVIOUS
      <4>1. PICK f, g, w : /\ f = in_transit[<<r, s>>] /\ g = in_transit'[<<r, s>>] /\ w = Out(j) /\ x # w
                           /\ g = f \/ g = Restrict(f, (DOMAIN f) \ {w})
        BY <2>8
      <4>2. SameAt(f, g, x)
        BY ONLY <4>1, Elsewhere
      <4> QED
        BY <4>1, <4>2
    <3>2. Touches(j)
      BY <3>1, <1>4, <2>2, <2>6, <2>7, SameSame DEF Touches
    <3> QED
      BY <3>2, <1>4 DEF Grows
  <2>10. Out(j)' = Out(j) /\ In(j)' = In(j)
    BY <1>4 DEF Out, In
  <2>11. \A r \in Parties :
           /\ HasShare(r, j)' <=> HasShare(r, j)
           /\ Waits(r, j)' <=> Waits(r, j)
           /\ Looping(r, j)' <=> Looping(r, j)
           /\ ShareOf(r, In(j))' = ShareOf(r, In(j))
           /\ \A s \in Peers(r) : Sent(r, s, j)' => Sent(r, s, j) /\ in_transit'[<<r, s>>][Out(j)] = in_transit[<<r, s>>][Out(j)]
    <3>1. \A r \in Parties : \A s \in Peers(r) :
            Sent(r, s, j)' => Sent(r, s, j) /\ in_transit'[<<r, s>>][Out(j)] = in_transit[<<r, s>>][Out(j)]
      <4> SUFFICES ASSUME NEW r \in Parties, NEW s \in Peers(r), Out(j) \in DOMAIN (in_transit'[<<r, s>>])
                   PROVE  /\ Out(j) \in DOMAIN in_transit[<<r, s>>]
                          /\ in_transit'[<<r, s>>][Out(j)] = in_transit[<<r, s>>][Out(j)]
        BY <2>10 DEF Sent
      <4>1. PICK f, g, w : /\ f = in_transit[<<r, s>>] /\ g = in_transit'[<<r, s>>] /\ w = Out(j)
                           /\ g = f \/ g = Restrict(f, (DOMAIN f) \ {w})
        BY <2>8
      <4>2. w \in DOMAIN g => w \in DOMAIN f /\ g[w] = f[w]
        BY ONLY <4>1 DEF Restrict
      <4> QED
        BY <4>1, <4>2
    <3>2. \A r \in Parties : Looping(r, j)' <=> Looping(r, j)
      BY <2>2, <2>6, <2>7, <2>10 DEF Looping
    <3> QED
      BY <3>1, <3>2, <1>4, <2>10 DEF HasShare, Waits, ShareOf
  <2>12. Staged(j)'
    BY <1>4, <2>2, <2>11 DEF Right, Staged
  <2>13. Fed(j)'
    BY <1>4, <2>2, <2>9, FedFrame DEF Right
  <2>14. InLoop(j)'
    BY <1>4, <2>2, <2>6, <2>7, <2>11 DEF Right, InLoop
  <2>15. Shown(j)'
    BY <1>4, <2>2, <2>10, <2>11, ZenonT(40) DEF Right, Shown
  <2>16. Opens(j)'
    BY <1>4, <2>2, OpensFrame DEF Right
  <2>17. Summed(j)'
    <3>1. PICK f, h : f = Summands(p, j) /\ h = Summands(p, j)'
      OBVIOUS
    <3>2. f = [r \in Parties |-> IF r \in loop[p].left THEN 0 ELSE ShareOf(r, In(j))]
      BY <3>1 DEF Summands
    <3>3. h = [r \in Parties |-> IF r \in loop'[p].left THEN 0 ELSE ShareOf(r, In(j))]
      BY <3>1, <2>11 DEF Summands
    <3>4. /\ f \in [Parties -> Int] /\ h \in [Parties -> Int] /\ f[q] = 0 /\ h[q] = share
          /\ \A r \in Parties : r # q => h[r] = f[r]
      <4>1. \A r \in Parties : ShareOf(r, In(j)) \in Int
        BY ShareType DEF ValueInv
      <4> QED
        BY <3>2, <3>3, <4>1, <2>1, <2>3, <2>7
    <3>5. Total(h) % M = (Total(f) + share) % M
      BY <3>4, <2>1, <2>4, TotalWith
    <3>6. PICK total \in Int : total = Total(f) /\ loop[p].total = total % M
      BY <3>1, <3>4, <2>2, TotalInt DEF Right, Summed
    <3>7. (loop[p].total + share) % M = (total + share) % M
      <4>1. PICK c \in Int : c = loop[p].total /\ c % M = total % M
        BY <3>6, <2>1, <2>4, Reduce
      <4>2. (c + share) % M = (total + share) % M
        BY <4>1, <2>4, Congruence
      <4> QED
        BY <4>1, <4>2
    <3>8. loop'[p].total = Total(h) % M
      BY <2>7, <3>5, <3>6, <3>7
    <3>9. \A r \in Parties \ loop'[p].left : In(j) \in DOMAIN wires[r]
      BY <2>2, <2>3, <2>7 DEF Right, Summed
    <3> SUFFICES ASSUME NEW r \in Parties, Looping(r, j)'
                 PROVE  /\ \A s \in Parties \ loop'[r].left : In(j) \in DOMAIN wires[s]
                        /\ loop'[r].total = Total(Summands(r, j)') % M
      BY <1>4, <2>10 DEF Summed
    <3>10. CASE r = p
      BY <3>1, <3>8, <3>9, <3>10
    <3>11. CASE r # p
      <4>1. Summands(r, j)' = Summands(r, j)
        BY <2>6, <2>11, <3>11 DEF Summands
      <4> QED
        BY <4>1, <3>11, <2>2, <2>6, <2>11 DEF Right, Summed
    <3> QED
      BY <3>10, <3>11
  <2> QED
    BY <1>4, <2>2, <2>9, <2>12, <2>13, <2>14, <2>15, <2>16, <2>17, OtherKinds, StepOn DEF Right
<1> QED
  BY <1>1, <1>2, <1>3, <1>4 DEF AddReceived

LEMMA FinishRevealRight ==
  ASSUME ValueInv, IInv', NEW p \in Parties, FinishReveal(p)
  PROVE  ValueInv'
<1>1. /\ loop[p].doing = "sum" /\ loop[p] # NoLoop /\ loop[p].left = {} /\ loop[p].total \in Residues
      /\ UNCHANGED <<ops, given, user_inputs, next, pending, in_transit, status>>
  BY Summing DEF FinishReveal, NoLoop, ValueInv, IInv, SumLoops
<1>2. PICK j \in DOMAIN ops :
        /\ loop[p].output = Out(j) /\ Looping(p, j) /\ Right(j)
        /\ ~HasShare(p, j) /\ ~Waits(p, j) /\ j < next[p] /\ ops[j].kind = "Reveal"
  BY <1>1, LoopAt
<1>3. /\ wires'[p] = Put(wires[p], Out(j), loop[p].total) /\ \A r \in Parties : r # p => wires'[r] = wires[r]
      /\ loop'[p] = NoLoop /\ \A r \in Parties : r # p => loop'[r] = loop[r]
  BY <1>2 DEF FinishReveal, ValueInv, IInv, TablesOK, Table, LoopsOK
<1>4. Out(j)' = Out(j) /\ In(j)' = In(j)
  BY <1>1 DEF Out, In
<1>5. Touches(j) /\ Grows
  <2>1. \A r \in Parties : \A x : x # Out(j) => SameAt(wires[r], wires'[r], x)
    <3> SUFFICES ASSUME NEW r \in Parties, NEW x, x # Out(j) PROVE SameAt(wires[r], wires'[r], x)
      OBVIOUS
    <3> QED
      BY <1>3 DEF Put, SameAt
  <2>2. Touches(j)
    BY <2>1, <1>1, <1>2, <1>3, SameSame DEF Touches
  <2> QED
    BY <2>2, <1>2, <1>3, GrowsOn DEF HasShare
<1>6. /\ \A r \in Parties : /\ r # p => (HasShare(r, j)' <=> HasShare(r, j)) /\ (Looping(r, j)' <=> Looping(r, j))
                            /\ Waits(r, j)' <=> Waits(r, j)
                            /\ \A s \in Peers(r) : Sent(r, s, j)' <=> Sent(r, s, j)
      /\ HasShare(p, j)' /\ ~Looping(p, j)' /\ wires'[p][Out(j)] = loop[p].total
  <2>1. HasShare(p, j)' /\ ~Looping(p, j)' /\ wires'[p][Out(j)] = loop[p].total
    BY <1>3, <1>4 DEF HasShare, Looping, Put
  <2> QED
    BY <2>1, <1>1, <1>3, <1>4 DEF HasShare, Waits, Looping, Sent
\* All parties have the wire by now.
<1>7. PICK w : w = In(j) /\ w = In(j)'
  BY <1>4
<1>8. \A r \in Parties : w \in DOMAIN wires[r] /\ w \in DOMAIN (wires'[r])
  BY <1>1, <1>2, <1>5, <1>7 DEF Right, Summed, Grows
<1>9. \A r \in Parties : ShareOf(r, w)' = ShareOf(r, w)
  BY <1>5, <1>8, ShareStays
<1>10. \A r \in Parties : ShareOf(r, In(j))' = ShareOf(r, In(j))
  BY <1>7, <1>9 DEF ShareOf
<1>11. SumOfShares(w)' = SumOfShares(w)
  BY <1>5, <1>8, SumStays
<1>12. SumOfShares(In(j))' = SumOfShares(In(j))
  BY <1>7, <1>11 DEF SumOfShares
<1>13. loop[p].total = SumOfShares(In(j))
  <2>1. PICK f : f = Summands(p, j) /\ loop[p].total = Total(f) % M
    BY <1>2 DEF Right, Summed
  <2>2. f = [r \in Parties |-> ShareOf(r, In(j))]
    BY <2>1, <1>1 DEF Summands
  <2>3. SumOfShares(In(j)) = Total([r \in Parties |-> ShareOf(r, In(j))]) % M
    BY DEF SumOfShares, Total, ShareOf
  <2> QED
    BY <2>1, <2>2, <2>3
<1>14. Staged(j)'
  BY <1>1, <1>2, <1>6 DEF Right, Staged
<1>15. Fed(j)'
  BY <1>1, <1>2, <1>5, FedFrame DEF Right
<1>16. InLoop(j)'
  BY <1>1, <1>2, <1>3, <1>6 DEF Right, InLoop
<1>17. Shown(j)'
  BY <1>1, <1>2, <1>4, <1>6, <1>10 DEF Right, Shown
<1>18. Opens(j)'
  <2> SUFFICES ASSUME NEW r \in Parties, HasShare(r, j)'
               PROVE  /\ \A s \in Parties : In(j) \in DOMAIN (wires'[s])
                      /\ wires'[r][Out(j)] = SumOfShares(In(j))
    BY <1>4, <1>12 DEF Opens
  <2>1. \A s \in Parties : In(j) \in DOMAIN (wires'[s])
    BY <1>7, <1>8
  <2>2. CASE r = p
    BY <2>1, <2>2, <1>6, <1>13
  <2>3. CASE r # p
    BY <2>1, <2>3, <1>2, <1>3, <1>6 DEF Right, Opens
  <2> QED
    BY <2>2, <2>3
<1>19. Summed(j)'
  <2> SUFFICES ASSUME NEW r \in Parties, Looping(r, j)'
               PROVE  /\ \A s \in Parties \ loop'[r].left : In(j) \in DOMAIN (wires'[s])
                      /\ loop'[r].total = Total(Summands(r, j)') % M
    BY <1>4 DEF Summed
  <2>1. r # p /\ loop'[r] = loop[r] /\ Looping(r, j)
    BY <1>3, <1>6
  <2>2. Summands(r, j)' = Summands(r, j)
    BY <2>1, <1>10 DEF Summands
  <2> QED
    BY <2>1, <2>2, <1>2, <1>7, <1>8 DEF Right, Summed
<1> QED
  BY <1>1, <1>2, <1>5, <1>14, <1>15, <1>16, <1>17, <1>18, <1>19, OtherKinds, StepOn DEF Right

LEMMA PrepareRight ==
  ASSUME ValueInv, IInv', NEW p \in Parties, PrepareUserInput(p)
  PROVE  ValueInv'
<1>1. /\ next[p] = 0 /\ next'[p] = 1 /\ \A q \in Parties : q # p => next'[q] = next[q]
      /\ user_inputs'[p] = [w \in Mine(p) |-> given[w] % M]
      /\ \A q \in Parties : q # p => user_inputs'[q] = user_inputs[q]
      /\ UNCHANGED <<ops, given, loop, pending, in_transit, wires, status>>
  BY DEF PrepareUserInput, ValueInv, IInv, CircuitOK, TablesOK, Table
<1>2. \A k \in DOMAIN ops : k \in Nat /\ k >= 1
  BY Lists DEF ValueInv
<1>3. \A q \in Parties : \A k \in DOMAIN ops : k < next[q] <=> k < next'[q]
  BY <1>1, <1>2
<1>4. \A k \in DOMAIN ops : Untouched(k)
  BY <1>1, <1>3 DEF Untouched, SameAt, Looping
<1>5. Grows
  BY <1>1 DEF Grows
<1>6. \A k \in DOMAIN ops : Right(k)'
  BY <1>1, <1>4, <1>5, StaysRight DEF ValueInv, IInv
<1>7. InputsKept'
  <2> SUFFICES ASSUME NEW q \in Parties, NEW k \in DOMAIN ops, next'[q] >= 1, k >= next'[q], IsInputOf(ops[k], q)
               PROVE  Out(k) \in DOMAIN (user_inputs'[q]) /\ user_inputs'[q][Out(k)] = given[Out(k)] % M
    BY <1>1 DEF InputsKept, Out
  <2>1. CASE q = p
    <3>1. Out(k) \in Mine(p)
      BY <2>1 DEF Mine, Range, Out
    <3> QED
      BY <2>1, <3>1, <1>1
  <2>2. CASE q # p
    BY <2>2, <1>1 DEF ValueInv, InputsKept
  <2> QED
    BY <2>1, <2>2
<1>8. LoopsKnown'
  BY <1>1 DEF ValueInv, LoopsKnown, Out
<1> QED
  BY <1>1, <1>6, <1>7, <1>8 DEF ValueInv

LEMMA InitRight == CircuitsOrdered /\ Init => ValueInv
<1> SUFFICES ASSUME CircuitsOrdered, Init PROVE ValueInv
  OBVIOUS
<1>1. IInv /\ Ordered(ops)
  BY InitOK DEF Init, CircuitsOrdered
<1>2. InputsKept /\ LoopsKnown
  BY DEF Init, InputsKept, LoopsKnown
<1>3. ASSUME NEW k \in DOMAIN ops PROVE Right(k)
  <2>1. \A p \in Parties : /\ ~HasShare(p, k) /\ ~Waits(p, k) /\ ~Looping(p, k) /\ ~(k < next[p])
                           /\ \A q \in Peers(p) : ~Sent(p, q, k)
    <3>1. \A p \in Parties : \A q \in Peers(p) : <<p, q>> \in Links
      BY DEF Peers, Links
    <3>2. k \in Nat /\ ~(k < 0)
      BY <1>1, Lists
    <3> QED
      BY <3>1, <3>2 DEF Init, HasShare, Waits, Looping, Sent
  <2>2. ops[k].kind = "Input" => ops[k].party_id \in Parties
    BY <1>1, Reads DEF IInv
  <2>3. Staged(k) /\ Fed(k) /\ InLoop(k)
    BY <2>1 DEF Staged, Fed, InLoop
  <2>4. Adds(k) /\ Shown(k) /\ Summed(k) /\ Opens(k)
    BY <2>1 DEF Adds, Shown, Summed, Opens
  <2>5. Deals(k)
    BY <2>1, <2>2 DEF Deals
  <2> QED
    BY <2>3, <2>4, <2>5 DEF Right
<1> QED
  BY <1>1, <1>2, <1>3 DEF ValueInv

LEMMA NextRight == Words /\ ValueInv /\ [Next]_vars => ValueInv'
<1> SUFFICES ASSUME Words, ValueInv, [Next]_vars PROVE ValueInv'
  OBVIOUS
<1>1. IInv'
  BY NextOK DEF ValueInv
<1>2. ASSUME NEW p \in Parties, PrepareUserInput(p) PROVE ValueInv'
  BY <1>1, <1>2, PrepareRight
<1>3. ASSUME NEW p \in Parties, NEW op \in Range(ops), NetworkPhase(p, op) PROVE ValueInv'
  BY <1>1, <1>3, DealInputRight, AwaitInputRight, GenerateRandomRight, AddSharesRight, OpenShareRight DEF NetworkPhase
<1>4. ASSUME NEW p \in Parties, NEW op \in Range(ops), FinalizePhase(p, op) PROVE ValueInv'
  BY <1>1, <1>4, FinalizeInputRight, FinalizeRevealRight DEF FinalizePhase
<1>5. ASSUME NEW p \in Parties, NEW q \in Peers(p), DealShare(p, q) \/ AddReceived(p, q) PROVE ValueInv'
  BY <1>1, <1>5, DealShareRight, AddReceivedRight
<1>6. ASSUME NEW p \in Parties, KeepShare(p) \/ FinishReveal(p) PROVE ValueInv'
  BY <1>1, <1>6, KeepShareRight, FinishRevealRight
<1>7. CASE UNCHANGED vars
  BY <1>1, <1>7, PanicRight DEF vars
<1> QED
  BY <1>2, <1>3, <1>4, <1>5, <1>6, <1>7 DEF Next

-----------------------------------------------------------------------------
(* The circuit in the clear and the parties' shares.                       *)

\* The wires of a circuit that all parties know are told from those they share:
\* only shared wires are revealed, and no Add mixes the two.
Types(circuit, public) ==
  \A op \in Range(circuit) :
    /\ op.kind \in {"Input", "GenRandom"} => op.output \notin public
    /\ op.kind = "Add" => \A w \in Range(op.inputs) : w \in public <=> op.output \in public
    /\ op.kind = "Reveal" => op.output \in public /\ \A w \in Range(op.inputs) : w \notin public
Unmixed(circuit) ==
  \E public \in SUBSET {op.output : op \in Range(circuit)} : Types(circuit, public)
CircuitsUnmixed == \A circuit \in Circuits : Unmixed(circuit)

Meant(k, public) ==
  /\ Out(k) \notin public /\ (\A p \in Parties : HasShare(p, k)) => SumOfShares(Out(k)) = Plain[Out(k)]
  /\ Out(k) \in public => \A p \in Parties : HasShare(p, k) => wires[p][Out(k)] = Plain[Out(k)]

LEMMA SumIs ==
  ASSUME NEW w
  PROVE  SumOfShares(w) = Total([p \in Parties |-> ShareOf(p, w)]) % M
  BY DEF SumOfShares, Total, ShareOf

\* Sums modulo M of shares that add up to those of another wire.
LEMMA SumsAdd ==
  ASSUME IInv, NEW u, NEW v, NEW w,
         \A p \in Parties : ShareOf(p, w) = (ShareOf(p, u) + ShareOf(p, v)) % M
  PROVE  SumOfShares(w) = (SumOfShares(u) + SumOfShares(v)) % M
<1>1. \A p \in Parties : ShareOf(p, u) \in Int /\ ShareOf(p, v) \in Int /\ ShareOf(p, w) \in Int /\ ShareOf(p, w) \in Residues
  BY ShareType
<1>2. PICK f, g, h : /\ f = [p \in Parties |-> ShareOf(p, u)] /\ g = [p \in Parties |-> ShareOf(p, v)]
                     /\ h = [p \in Parties |-> ShareOf(p, w)]
  OBVIOUS
<1>3. f \in [Parties -> Int] /\ g \in [Parties -> Int] /\ h \in [Parties -> Int]
  BY <1>1, <1>2
<1>4. \A p \in Parties : h[p] % M = (f[p] + g[p]) % M
  BY <1>1, <1>2, Reduce
<1>5. Total(h) % M = (Total(f) + Total(g)) % M
  BY <1>3, <1>4, TotalAdds
<1>6. PICK a \in Int, b \in Int, c \in Int, d \in Int :
        a = Total(f) /\ b = Total(g) /\ c = Total(f) % M /\ d = Total(g) % M
  BY <1>3, TotalInt, ResidueType
<1>7. a % M = c % M /\ b % M = d % M
  BY <1>6, ResidueType
<1>8. (a + b) % M = (c + d) % M
  BY ONLY <1>7, a \in Int, b \in Int, c \in Int, d \in Int, Congruence
<1>9. SumOfShares(u) = c /\ SumOfShares(v) = d /\ SumOfShares(w) = Total(h) % M
  BY <1>2, <1>6, SumIs
<1> QED
  BY <1>5, <1>6, <1>8, <1>9

LEMMA MeantAt ==
  ASSUME ValueInv, NEW public, Types(ops, public), NEW k \in DOMAIN ops,
         \A j \in DOMAIN ops : j < k => Meant(j, public)
  PROVE  Meant(k, public)
<1>1. Right(k) /\ ops[k] \in Range(ops) /\ Ordered(ops) /\ CircuitOK
  BY DEF ValueInv, IInv, Range
<1>2. \A p \in Parties : HasShare(p, k) => \A w \in Range(ops[k].inputs) : w \in DOMAIN wires[p]
  BY <1>1 DEF Right, Staged, Fed
<1>3. \A w \in Range(ops[k].inputs) :
        /\ w \notin public /\ (\A p \in Parties : w \in DOMAIN wires[p]) => SumOfShares(w) = Plain[w]
        /\ w \in public => \A p \in Parties : w \in DOMAIN wires[p] => wires[p][w] = Plain[w]
  <2> SUFFICES ASSUME NEW w \in Range(ops[k].inputs)
               PROVE  /\ w \notin public /\ (\A p \in Parties : w \in DOMAIN wires[p]) => SumOfShares(w) = Plain[w]
                      /\ w \in public => \A p \in Parties : w \in DOMAIN wires[p] => wires[p][w] = Plain[w]
    OBVIOUS
  <2>1. PICK j \in DOMAIN ops : j < k /\ Out(j) = w
    BY <1>1 DEF Ordered, Out
  <2>2. Meant(j, public)
    BY <2>1
  <2> QED
    BY <2>1, <2>2 DEF Meant, HasShare
<1>4. CASE ops[k].kind = "Input"
  <2>1. Out(k) \notin public /\ Plain[Out(k)] = given[Out(k)] % M
    BY <1>1, <1>4, PlainIs DEF Types, Out
  <2>2. ASSUME \A p \in Parties : HasShare(p, k) PROVE SumOfShares(Out(k)) = Plain[Out(k)]
    <3>1. PICK d \in Parties : d = ops[k].party_id
      BY <1>1, <1>4, Reads
    <3>2. k < next[d] /\ ~Looping(d, k)
      BY <1>1, <2>2 DEF Right, Staged
    <3>3. Dealt(k) = [p \in Parties |-> ShareOf(p, Out(k))]
      BY <2>2 DEF Dealt, DealtTo, ShareOf, HasShare
    <3>4. Total(Dealt(k)) % M = given[Out(k)] % M
      BY <1>1, <1>4, <3>1, <3>2 DEF Right, Deals
    <3> QED
      BY <2>1, <3>3, <3>4, SumIs
  <2> QED
    BY <2>1, <2>2 DEF Meant
<1>5. CASE ops[k].kind = "GenRandom"
  BY <1>1, <1>5, PlainIs DEF Types, Out, Meant
<1>6. CASE ops[k].kind = "Add"
  <2>1. PICK u, v : /\ u = ops[k].inputs[1] /\ v = ops[k].inputs[2]
                    /\ u \in Range(ops[k].inputs) /\ v \in Range(ops[k].inputs)
    BY <1>1, <1>6, Reads
  <2>2. Plain[Out(k)] = (Plain[u] + Plain[v]) % M
    <3>1. {1, 2} \subseteq DOMAIN ops[k].inputs
      BY <1>1, <1>6, CircuitsAssumption DEF CircuitOK
    <3> QED
      BY <3>1, <1>1, <1>6, <2>1, PlainIs
  <2>3. (u \in public <=> Out(k) \in public) /\ (v \in public <=> Out(k) \in public)
    BY <1>1, <1>6, <2>1 DEF Types, Out
  <2>4. \A p \in Parties : HasShare(p, k) => wires[p][Out(k)] = (wires[p][u] + wires[p][v]) % M
    BY <1>1, <1>6, <2>1 DEF Right, Adds
  <2>5. ASSUME Out(k) \notin public, \A p \in Parties : HasShare(p, k) PROVE SumOfShares(Out(k)) = Plain[Out(k)]
    <3>1. \A p \in Parties : u \in DOMAIN wires[p] /\ v \in DOMAIN wires[p]
      BY <2>5, <1>2, <2>1
    <3>2. SumOfShares(u) = Plain[u] /\ SumOfShares(v) = Plain[v]
      BY <3>1, <1>3, <2>1, <2>3, <2>5
    <3>3. \A p \in Parties : ShareOf(p, Out(k)) = (ShareOf(p, u) + ShareOf(p, v)) % M
      BY <3>1, <2>4, <2>5 DEF ShareOf, HasShare
    <3>4. SumOfShares(Out(k)) = (SumOfShares(u) + SumOfShares(v)) % M
      <4>1. PICK w : w = Out(k) /\ \A p \in Parties : ShareOf(p, w) = (ShareOf(p, u) + ShareOf(p, v)) % M
        BY <3>3
      <4>2. SumOfShares(w) = (SumOfShares(u) + SumOfShares(v)) % M
        BY <4>1, SumsAdd DEF ValueInv
      <4> QED
        BY <4>1, <4>2
    <3> QED
      BY <3>2, <3>4, <2>2
  <2>6. ASSUME Out(k) \in public, NEW p \in Parties, HasShare(p, k) PROVE wires[p][Out(k)] = Plain[Out(k)]
    <3>1. wires[p][u] = Plain[u] /\ wires[p][v] = Plain[v]
      BY <1>2, <1>3, <2>1, <2>3, <2>6
    <3> QED
      BY <3>1, <2>2, <2>4, <2>6
  <2> QED
    BY <2>5, <2>6 DEF Meant
<1>7. CASE ops[k].kind = "Reveal"
  <2>1. Out(k) \in public /\ In(k) \notin public /\ In(k) \in Range(ops[k].inputs)
    BY <1>1, <1>7, Reads DEF Types, Out, In
  <2>2. Plain[Out(k)] = Plain[In(k)]
    <3>1. 1 \in DOMAIN ops[k].inputs
      BY <1>1, <1>7, CircuitsAssumption DEF CircuitOK
    <3> QED
      BY <3>1, <1>1, <1>7, PlainIs DEF In
  <2>3. ASSUME NEW p \in Parties, HasShare(p, k) PROVE wires[p][Out(k)] = Plain[Out(k)]
    <3>1. wires[p][Out(k)] = SumOfShares(In(k)) /\ \A q \in Parties : In(k) \in DOMAIN wires[q]
      BY <1>1, <1>7, <2>3 DEF Right, Opens
    <3> QED
      BY <3>1, <2>1, <2>2, <1>3
  <2> QED
    BY <2>1, <2>3 DEF Meant
<1> QED
  BY <1>1, <1>4, <1>5, <1>6, <1>7 DEF Ordered

LEMMA AllMeant ==
  ASSUME ValueInv, NEW public, Types(ops, public)
  PROVE  \A k \in DOMAIN ops : Meant(k, public)
<1> DEFINE Wrong == {k \in DOMAIN ops : ~Meant(k, public)}
<1> SUFFICES ASSUME Wrong # {} PROVE FALSE
  OBVIOUS
<1>1. Wrong \subseteq Nat
  BY Lists DEF ValueInv
<1>2. PICK k \in Wrong : \A j \in Wrong : k <= j
  BY <1>1, LeastOf
<1>3. \A j \in DOMAIN ops : j < k => Meant(j, public)
  <2>1. \A j \in DOMAIN ops : j \in Nat
    BY Lists DEF ValueInv
  <2> QED
    BY <1>1, <1>2, <2>1
<1> QED
  BY <1>2, <1>3, MeantAt

\* A party that holds the output of a Reveal holds the value of the circuit in
\* the clear, whoever else is done: for every number of parties, modulus, inputs
\* and order of the parties' steps, and every circuit whose operations come after
\* their producers, write one wire each and add no public wire to a shared one, in
\* a build that panics on overflow or where twice the modulus fits a word
\* (do_network_phase and do_finalize_phase).
THEOREM RevealedValues ==
  ASSUME Words, CircuitsOrdered, CircuitsUnmixed
  PROVE  Spec => []RevealsCorrect
<1>1. ValueInv => RevealsCorrect
  <2> SUFFICES ASSUME ValueInv, NEW p \in Parties, NEW k \in DOMAIN ops, ops[k].kind = "Reveal", HasShare(p, k)
               PROVE  wires[p][Out(k)] = Plain[Out(k)]
    BY DEF RevealsCorrect, HasShare, Out
  <2>1. PICK public : Types(ops, public)
    BY DEF ValueInv, IInv, CircuitOK, CircuitsUnmixed, Unmixed
  <2>2. Meant(k, public)
    BY <2>1, AllMeant
  <2>3. Out(k) \in public
    BY <2>1 DEF Types, Out, Range
  <2> QED
    BY <2>2, <2>3 DEF Meant
<1> QED
  BY <1>1, InitRight, NextRight, PTL DEF Spec

-----------------------------------------------------------------------------
(* The parties evaluate the circuit as one evaluator would.                *)

Knows(known, op) ==
  IF op.kind = "Reveal" \/ (op.kind = "Add" /\ Range(op.inputs) \subseteq known)
  THEN known \cup {op.output} ELSE known

Learns(n, g) ==
  g = [s \in SUBSET (1..n) |-> IF s = {} THEN {} ELSE Knows(g[s \ {Max(s)}], ops[Max(s)])]

LEMMA LearnsExist == \A n \in Nat : \E g : Learns(n, g)
<1> DEFINE Good == {n \in Nat : \E g : Learns(n, g)}
<1>1. 0 \in Good
  <2>1. PICK g : g = [s \in SUBSET (1..0) |-> {}]
    OBVIOUS
  <2>2. \A s \in SUBSET (1..0) : s = {}
    OBVIOUS
  <2>3. Learns(0, g)
    BY <2>1, <2>2 DEF Learns
  <2> QED
    BY <2>3
<1>2. ASSUME NEW n \in Nat, n \in Good PROVE n + 1 \in Good
  <2>1. PICK g : Learns(n, g)
    BY <1>2
  <2>2. PICK h : h = [s \in SUBSET (1..(n + 1)) |->
                        IF n + 1 \in s THEN Knows(g[s \ {n + 1}], ops[n + 1]) ELSE g[s]]
    OBVIOUS
  <2>3. \A s \in SUBSET (1..(n + 1)) : n + 1 \notin s => s \in SUBSET (1..n)
    OBVIOUS
  <2>4. \A s \in SUBSET (1..n) : s \in SUBSET (1..(n + 1)) /\ n + 1 \notin s
    OBVIOUS
  <2>5. \A s \in SUBSET (1..n) : h[s] = g[s]
    BY <2>2, <2>4
  <2>6. ASSUME NEW s \in SUBSET (1..(n + 1))
        PROVE  h[s] = IF s = {} THEN {} ELSE Knows(h[s \ {Max(s)}], ops[Max(s)])
    <3>1. CASE n + 1 \in s
      <4>1. Max(s) = n + 1
        BY <3>1, MaxOf
      <4>2. s \ {n + 1} \in SUBSET (1..n)
        OBVIOUS
      <4> QED
        BY <2>2, <2>5, <3>1, <4>1, <4>2
    <3>2. CASE n + 1 \notin s
      <4>1. s \in SUBSET (1..n) /\ s \ {Max(s)} \in SUBSET (1..n)
        BY <3>2, <2>3
      <4>2. g[s] = IF s = {} THEN {} ELSE Knows(g[s \ {Max(s)}], ops[Max(s)])
        BY <2>1, <4>1 DEF Learns
      <4> QED
        BY <2>5, <4>1, <4>2
    <3> QED
      BY <3>1, <3>2
  <2>7. DOMAIN h = SUBSET (1..(n + 1)) /\ h = [s \in DOMAIN h |-> h[s]]
    BY <2>2
  <2>8. Learns(n + 1, h)
    BY <2>6, <2>7 DEF Learns
  <2> QED
    BY <2>8
<1>3. Nat \subseteq Good
  BY <1>1, <1>2, Induction
<1> QED
  BY <1>3

LEMMA PublicSteps ==
  ASSUME NEW n \in Nat, DOMAIN ops = 1..n
  PROVE  \E F : F[0] = {} /\ Public = F[n] /\ \A k \in 1..n : F[k] = Knows(F[k - 1], ops[k])
<1>1. PICK it : it = CHOOSE g : Learns(n, g)
  OBVIOUS
<1>2. Learns(n, it)
  BY <1>1, LearnsExist
<1>3. Public = it[1..n]
  BY <1>1 DEF Public, FoldLeft, MapThenFoldSet, Learns, Knows
<1>4. PICK F : F = [k \in 0..n |-> it[1..k]]
  OBVIOUS
<1>5. F[0] = {}
  <2>1. 1..0 = {} /\ 0 \in 0..n
    OBVIOUS
  <2> QED
    BY <2>1, <1>2, <1>4 DEF Learns
<1>6. ASSUME NEW k \in 1..n PROVE F[k] = Knows(F[k - 1], ops[k])
  <2>1. k \in 1..k /\ (1..k) \ {k} = 1..(k - 1) /\ 1..k # {} /\ 1..k \in SUBSET (1..n)
    OBVIOUS
  <2>2. Max(1..k) = k
    BY <2>1, MaxOf
  <2>3. it[1..k] = Knows(it[1..(k - 1)], ops[k])
    BY <1>2, <2>1, <2>2 DEF Learns
  <2> QED
    BY <1>4, <2>3
<1>7. Public = F[n]
  <2>1. n \in 0..n
    OBVIOUS
  <2> QED
    BY <2>1, <1>3, <1>4
<1> QED
  BY <1>5, <1>6, <1>7

\* The public wires of a circuit that does not mix are those its types say.
LEMMA PublicIs ==
  ASSUME CircuitOK, Ordered(ops), NEW public, Types(ops, public)
  PROVE  \A k \in DOMAIN ops : Out(k) \in Public <=> Out(k) \in public
<1>1. PICK n \in Nat : DOMAIN ops = 1..n
  BY Lists
<1>2. PICK F : F[0] = {} /\ Public = F[n] /\ \A k \in 1..n : F[k] = Knows(F[k - 1], ops[k])
  BY <1>1, PublicSteps
<1> DEFINE Known(i) == {Out(j) : j \in {j \in 1..i : Out(j) \in public}}
           Good == {i \in Nat : i <= n => F[i] = Known(i)}
<1>3. 0 \in Good
  BY <1>2
<1>4. ASSUME NEW i \in Nat, i \in Good PROVE i + 1 \in Good
  <2> SUFFICES ASSUME i + 1 <= n PROVE F[i + 1] = Known(i + 1)
    OBVIOUS
  <2>1. PICK k \in DOMAIN ops : k = i + 1 /\ k - 1 = i /\ k \in 1..n
    BY <1>1
  <2>2. F[i] = Known(i) /\ F[k] = Knows(F[i], ops[k]) /\ ops[k] \in Range(ops)
    BY <1>2, <1>4, <2>1 DEF Range
  <2>3. Known(k) = IF Out(k) \in public THEN Known(i) \cup {Out(k)} ELSE Known(i)
    <3>1. 1..k = (1..i) \cup {k}
      BY <2>1
    <3> HIDE DEF Out
    <3> QED
      BY <3>1
  <2>4. ops[k].kind = "Add" => (Range(ops[k].inputs) \subseteq F[i] <=> Out(k) \in public)
    <3> SUFFICES ASSUME ops[k].kind = "Add"
                 PROVE  Range(ops[k].inputs) \subseteq F[i] <=> Out(k) \in public
      OBVIOUS
    <3>1. \A w \in Range(ops[k].inputs) : w \in Known(i) <=> w \in public
      <4> SUFFICES ASSUME NEW w \in Range(ops[k].inputs), w \in public PROVE w \in Known(i)
        OBVIOUS
      <4>1. PICK j \in DOMAIN ops : j < k /\ Out(j) = w
        BY DEF Ordered, Out
      <4>2. j \in 1..i
        BY <4>1, <1>1, <2>1
      <4> QED
        BY <4>1, <4>2
    <3>2. \A w \in Range(ops[k].inputs) : w \in public <=> Out(k) \in public
      BY <2>2 DEF Types, Out
    <3>3. ops[k].inputs[1] \in Range(ops[k].inputs)
      BY <2>1, Reads
    <3> QED
      BY <3>1, <3>2, <3>3, <2>2
  <2>5. /\ ops[k].kind \in {"Input", "GenRandom"} => Out(k) \notin public
        /\ ops[k].kind = "Reveal" => Out(k) \in public
        /\ ops[k].kind \in {"Input", "GenRandom", "Add", "Reveal"}
    BY <2>2 DEF Types, Out, Ordered
  <2>6. F[k] = IF Out(k) \in public THEN F[i] \cup {Out(k)} ELSE F[i]
    BY <2>2, <2>4, <2>5 DEF Knows, Out
  <2> QED
    BY <2>1, <2>2, <2>3, <2>6
<1>5. Nat \subseteq Good
  BY <1>3, <1>4, Induction
<1>6. Public = Known(n)
  BY <1>2, <1>5
<1> QED
  BY <1>1, <1>6

\* The values that the parties' shares stand for are those of the circuit in
\* the clear.
LEMMA OpenedIsPlain ==
  ASSUME ValueInv, CircuitsUnmixed, NEW k \in DOMAIN ops, Out(k) \in Held
  PROVE  Opened[Out(k)] = Plain[Out(k)] /\ \A w \in Range(ops[k].inputs) : w \in Held /\ Opened[w] = Plain[w]
<1>1. PICK public : Types(ops, public)
  BY DEF ValueInv, IInv, CircuitOK, CircuitsUnmixed, Unmixed
<1>2. 0 \in Parties
  BY SharingAssumption DEF Parties
<1>3. ASSUME NEW j \in DOMAIN ops, Out(j) \in Held PROVE Opened[Out(j)] = Plain[Out(j)]
  <2>1. Meant(j, public) /\ (Out(j) \in Public <=> Out(j) \in public)
    BY <1>1, AllMeant, PublicIs DEF ValueInv, IInv
  <2>2. \A p \in Parties : HasShare(p, j)
    BY <1>3 DEF Held, HasShare
  <2>3. Opened[Out(j)] = IF Out(j) \notin Public THEN SumOfShares(Out(j))
                         ELSE IF \A p \in Parties : wires[p][Out(j)] = wires[0][Out(j)] THEN wires[0][Out(j)]
                         ELSE M
    BY <1>3 DEF Opened
  <2> QED
    BY <1>2, <2>1, <2>2, <2>3 DEF Meant
<1>4. ASSUME NEW w \in Range(ops[k].inputs) PROVE w \in Held /\ Opened[w] = Plain[w]
  <2>1. PICK j \in DOMAIN ops : Out(j) = w
    BY DEF ValueInv, Ordered, Out
  <2>2. \A p \in Parties : w \in DOMAIN wires[p]
    <3> SUFFICES ASSUME NEW p \in Parties PROVE w \in DOMAIN wires[p]
      OBVIOUS
    <3>1. HasShare(p, k) /\ Right(k)
      BY DEF Held, HasShare, ValueInv
    <3> QED
      BY <3>1 DEF Right, Staged, Fed
  <2>3. w \in Held
    BY <1>2, <2>2 DEF Held
  <2> QED
    BY <1>3, <2>1, <2>3
<1> QED
  BY <1>3, <1>4

\* A wire that all parties hold has a value that its operation may give it.
Solved ==
  \A k \in DOMAIN ops : Out(k) \in Held =>
    /\ Range(ops[k].inputs) \subseteq Held
    /\ ops[k].kind = "Input" => Opened[Out(k)] = given[Out(k)] % M
    /\ ops[k].kind = "GenRandom" => Opened[Out(k)] \in 0 .. M - 1
    /\ ops[k].kind = "Add" => Opened[Out(k)] = (Opened[ops[k].inputs[1]] + Opened[ops[k].inputs[2]]) % M
    /\ ops[k].kind = "Reveal" => Opened[Out(k)] = Opened[ops[k].inputs[1]]

LEMMA AllSolved == ValueInv /\ CircuitsUnmixed => Solved
<1> SUFFICES ASSUME ValueInv, CircuitsUnmixed, NEW k \in DOMAIN ops, Out(k) \in Held
             PROVE  /\ Range(ops[k].inputs) \subseteq Held
                    /\ ops[k].kind = "Input" => Opened[Out(k)] = given[Out(k)] % M
                    /\ ops[k].kind = "GenRandom" => Opened[Out(k)] \in 0 .. M - 1
                    /\ ops[k].kind = "Add" => Opened[Out(k)] = (Opened[ops[k].inputs[1]] + Opened[ops[k].inputs[2]]) % M
                    /\ ops[k].kind = "Reveal" => Opened[Out(k)] = Opened[ops[k].inputs[1]]
  BY DEF Solved
<1>1. Opened[Out(k)] = Plain[Out(k)] /\ \A w \in Range(ops[k].inputs) : w \in Held /\ Opened[w] = Plain[w]
  BY OpenedIsPlain
<1>2. ops[k] \in Range(ops) /\ Ordered(ops) /\ CircuitOK
  BY DEF ValueInv, IInv, Range
<1>3. ops[k].kind = "GenRandom" => Opened[Out(k)] \in 0 .. M - 1
  <2>1. SumOfShares(Out(k)) \in Residues
    <3>1. PICK f : f = [p \in Parties |-> ShareOf(p, Out(k))]
      OBVIOUS
    <3>2. f \in [Parties -> Int]
      BY <3>1, ShareType DEF ValueInv
    <3>3. Total(f) \in Int
      BY <3>2, TotalInt
    <3> QED
      BY <3>1, <3>3, SumIs, ResidueType
  <2> QED
    BY <1>1, <1>2, <2>1, PlainIs DEF Residues
<1>4. ops[k].kind = "Add" => Opened[Out(k)] = (Opened[ops[k].inputs[1]] + Opened[ops[k].inputs[2]]) % M
  <2> SUFFICES ASSUME ops[k].kind = "Add"
               PROVE  Opened[Out(k)] = (Opened[ops[k].inputs[1]] + Opened[ops[k].inputs[2]]) % M
    OBVIOUS
  <2>1. {1, 2} \subseteq DOMAIN ops[k].inputs
    BY <1>2, CircuitsAssumption DEF CircuitOK
  <2>2. ops[k].inputs[1] \in Range(ops[k].inputs) /\ ops[k].inputs[2] \in Range(ops[k].inputs)
    BY <2>1 DEF Range
  <2> QED
    BY <1>1, <1>2, <2>1, <2>2, PlainIs
<1>5. ops[k].kind = "Reveal" => Opened[Out(k)] = Opened[ops[k].inputs[1]]
  <2> SUFFICES ASSUME ops[k].kind = "Reveal" PROVE Opened[Out(k)] = Opened[ops[k].inputs[1]]
    OBVIOUS
  <2>1. 1 \in DOMAIN ops[k].inputs
    BY <1>2, CircuitsAssumption DEF CircuitOK
  <2>2. ops[k].inputs[1] \in Range(ops[k].inputs)
    BY <2>1 DEF Range
  <2> QED
    BY <1>1, <1>2, <2>1, <2>2, PlainIs
<1> QED
  BY <1>1, <1>2, <1>3, <1>4, <1>5, PlainIs

\* What a step may do to the shares of wires.
Gains(p, j) ==
  /\ \E v : wires'[p] = Put(wires[p], Out(j), v)
  /\ Out(j) \notin DOMAIN wires[p] /\ \A q \in Parties : q # p => wires'[q] = wires[q]

LEMMA Gained ==
  ASSUME ValueInv, NEW p \in Parties, NEW j \in DOMAIN ops, ~HasShare(p, j),
         NEW v, wires' = [wires EXCEPT ![p] = Put(@, Out(j), v)]
  PROVE  Gains(p, j)
<1>1. wires'[p] = Put(wires[p], Out(j), v) /\ \A q \in Parties : q # p => wires'[q] = wires[q]
  BY DEF ValueInv, IInv, TablesOK, Table
<1> QED
  BY <1>1 DEF Gains, HasShare

LEMMA NextGains ==
  ASSUME ValueInv, [Next]_vars
  PROVE  /\ UNCHANGED <<ops, given>>
         /\ wires' = wires \/ \E p \in Parties : \E j \in DOMAIN ops : Gains(p, j)
<1>1. ASSUME NEW p \in Parties, PrepareUserInput(p) PROVE UNCHANGED <<ops, given, wires>>
  BY <1>1 DEF PrepareUserInput
<1>2. ASSUME NEW p \in Parties, NEW op \in Range(ops), DealInput(p, op) \/ AwaitInput(p, op) \/ OpenShare(p, op)
      PROVE  UNCHANGED <<ops, given, wires>>
  BY <1>2 DEF DealInput, AwaitInput, OpenShare
<1>3. ASSUME NEW p \in Parties, NEW op \in Range(ops), GenerateRandom(p, op)
      PROVE  UNCHANGED <<ops, given>> /\ \E j \in DOMAIN ops : Gains(p, j)
  <2>1. PICK j \in DOMAIN ops : op.output = Out(j) /\ ~HasShare(p, j)
    BY <1>3, StartsAt DEF GenerateRandom
  <2>2. PICK v : wires' = [wires EXCEPT ![p] = Put(@, Out(j), v)]
    BY <1>3, <2>1 DEF GenerateRandom
  <2> QED
    BY <1>3, <2>1, <2>2, Gained DEF GenerateRandom
<1>4. ASSUME NEW p \in Parties, NEW op \in Range(ops), AddShares(p, op)
      PROVE  UNCHANGED <<ops, given>> /\ (wires' = wires \/ \E j \in DOMAIN ops : Gains(p, j))
  <2>1. PICK j \in DOMAIN ops : op.output = Out(j) /\ ~HasShare(p, j)
    BY <1>4, StartsAt DEF AddShares
  <2>2. wires' = wires \/ \E v : wires' = [wires EXCEPT ![p] = Put(@, Out(j), v)]
    BY <1>4, <2>1 DEF AddShares, Panic
  <2>3. UNCHANGED <<ops, given>>
    BY <1>4 DEF AddShares, Panic
  <2> QED
    BY <2>1, <2>2, <2>3, Gained
<1>5. ASSUME NEW p \in Parties, NEW op \in Range(ops), FinalizeInput(p, op)
      PROVE  UNCHANGED <<ops, given>> /\ \E j \in DOMAIN ops : Gains(p, j)
  <2>1. PICK j \in DOMAIN ops : op.output = Out(j) /\ ~HasShare(p, j)
    BY <1>5, FinalizesAt DEF FinalizeInput
  <2>2. PICK v : wires' = [wires EXCEPT ![p] = Put(@, Out(j), v)]
    BY <1>5, <2>1 DEF FinalizeInput
  <2> QED
    BY <1>5, <2>1, <2>2, Gained DEF FinalizeInput
<1>6. ASSUME NEW p \in Parties, NEW op \in Range(ops), FinalizeReveal(p, op) PROVE UNCHANGED <<ops, given, wires>>
  BY <1>6 DEF FinalizeReveal
<1>7. ASSUME NEW p \in Parties, NEW q \in Peers(p), DealShare(p, q) \/ AddReceived(p, q)
      PROVE  UNCHANGED <<ops, given, wires>>
  BY <1>7 DEF DealShare, AddReceived, Panic
<1>8. ASSUME NEW p \in Parties, KeepShare(p) PROVE UNCHANGED <<ops, given, wires>>
  BY <1>8 DEF KeepShare, Panic
<1>9. ASSUME NEW p \in Parties, FinishReveal(p)
      PROVE  UNCHANGED <<ops, given>> /\ \E j \in DOMAIN ops : Gains(p, j)
  <2>1. loop[p] # NoLoop
    BY <1>9 DEF FinishReveal, NoLoop
  <2>2. PICK j \in DOMAIN ops : loop[p].output = Out(j) /\ ~HasShare(p, j)
    BY <2>1, LoopAt
  <2>3. PICK v : wires' = [wires EXCEPT ![p] = Put(@, Out(j), v)]
    BY <1>9, <2>2 DEF FinishReveal
  <2> QED
    BY <1>9, <2>2, <2>3, Gained DEF FinishReveal
<1>10. CASE UNCHANGED vars
  BY <1>10 DEF vars
<1> QED
  BY <1>1, <1>2, <1>3, <1>4, <1>5, <1>6, <1>7, <1>8, <1>9, <1>10 DEF Next, NetworkPhase, FinalizePhase

LEMMA OpenedStays ==
  ASSUME Grows, UNCHANGED ops, NEW w \in Held
  PROVE  w \in Held' /\ Opened'[w] = Opened[w]
<1>1. 0 \in Parties
  BY SharingAssumption DEF Parties
<1>2. \A p \in Parties : w \in DOMAIN wires[p] /\ w \in DOMAIN (wires'[p]) /\ wires'[p][w] = wires[p][w]
  BY DEF Held, Grows
<1>3. w \in Held'
  BY <1>1, <1>2 DEF Held
<1>4. SumOfShares(w)' = SumOfShares(w)
  BY <1>2, SumStays
<1>5. Public' = Public
  BY DEF Public, FoldLeft, MapThenFoldSet
<1>6. Opened[w] = IF w \notin Public THEN SumOfShares(w)
                  ELSE IF \A p \in Parties : wires[p][w] = wires[0][w] THEN wires[0][w] ELSE M
  BY DEF Opened
<1>7. Opened'[w] = IF w \notin Public' THEN SumOfShares(w)'
                   ELSE IF \A p \in Parties : wires'[p][w] = wires'[0][w] THEN wires'[0][w] ELSE M
  BY <1>3 DEF Opened
<1> QED
  BY <1>1, <1>2, <1>3, <1>4, <1>5, <1>6, <1>7

\* Every step is one of the evaluator, or is hidden from it.
LEMMA Evaluates ==
  ASSUME ValueInv, Solved', [Next]_vars
  PROVE  [Clear!Next]_(Clear!vars)
<1>1. UNCHANGED <<ops, given>> /\ (wires' = wires \/ \E p \in Parties : \E j \in DOMAIN ops : Gains(p, j))
  BY NextGains
<1>2. DOMAIN Opened = Held /\ DOMAIN Opened' = Held'
      /\ Opened = [w \in Held |-> Opened[w]] /\ Opened' = [w \in Held' |-> Opened'[w]]
  BY DEF Opened
<1>3. 0 \in Parties
  BY SharingAssumption DEF Parties
<1>4. ASSUME Grows, Held' = Held PROVE Opened' = Opened
  <2>1. \A w \in Held : Opened'[w] = Opened[w]
    BY <1>1, <1>4, OpenedStays
  <2> QED
    BY <2>1, <1>2, <1>4
<1>5. CASE wires' = wires
  <2>1. Grows /\ Held' = Held
    BY <1>5 DEF Grows, Held
  <2> QED
    BY <2>1, <1>1, <1>4 DEF Clear!vars
<1>6. ASSUME NEW p \in Parties, NEW j \in DOMAIN ops, Gains(p, j) PROVE [Clear!Next]_(Clear!vars)
  <2>1. PICK x : x = Out(j) /\ x = Out(j)' /\ ops[j] \in Range(ops) /\ ops[j].output = x
    BY <1>1 DEF Out, Range
  <2>2. Grows
    <3>1. \A w \in DOMAIN wires[p] : w \in DOMAIN (wires'[p]) /\ wires'[p][w] = wires[p][w]
      BY <1>6 DEF Gains, Put
    <3> QED
      BY <3>1, <1>6 DEF Gains, Grows
  <2>3. Held' \subseteq Held \cup {x} /\ x \notin Held
    <3>1. \A q \in Parties : \A w \in DOMAIN (wires'[q]) : w # x => w \in DOMAIN wires[q]
      BY <1>6, <2>1 DEF Gains, Put
    <3>2. x \notin DOMAIN wires[p]
      BY <1>6, <2>1 DEF Gains
    <3> QED
      BY <3>1, <3>2, <1>3 DEF Held
  <2>4. \A w \in Held : w \in Held' /\ Opened'[w] = Opened[w]
    BY <1>1, <2>2, OpenedStays
  <2>5. CASE x \notin Held'
    <3>1. Held' = Held
      BY <2>3, <2>4, <2>5
    <3> QED
      BY <3>1, <2>2, <1>1, <1>4 DEF Clear!vars
  <2>6. CASE x \in Held'
    <3>1. Held' = Held \cup {x}
      BY <2>3, <2>4, <2>6
    <3>2. /\ Range(ops[j].inputs) \subseteq Held'
          /\ ops[j].kind = "Input" => Opened'[x] = given[x] % M
          /\ ops[j].kind = "GenRandom" => Opened'[x] \in 0 .. M - 1
          /\ ops[j].kind = "Add" => Opened'[x] = (Opened'[ops[j].inputs[1]] + Opened'[ops[j].inputs[2]]) % M
          /\ ops[j].kind = "Reveal" => Opened'[x] = Opened'[ops[j].inputs[1]]
      BY <1>1, <2>1, <2>6 DEF Solved
    <3>3. Range(ops[j].inputs) \subseteq Held
      <4>1. \A w \in Range(ops[j].inputs) : w # x
        <5> SUFFICES ASSUME NEW w \in Range(ops[j].inputs) PROVE w # x
          OBVIOUS
        <5>1. PICK i \in DOMAIN ops : i < j /\ Out(i) = w
          BY DEF ValueInv, Ordered, Out
        <5>2. i # j
          BY <5>1, Lists DEF ValueInv
        <5> QED
          BY <5>1, <5>2, <2>1 DEF ValueInv, Ordered, Out
      <4> QED
        BY <4>1, <3>1, <3>2
    <3>4. /\ ops[j].kind = "Add" => ops[j].inputs[1] \in Held /\ ops[j].inputs[2] \in Held
          /\ ops[j].kind = "Reveal" => ops[j].inputs[1] \in Held
      BY <3>3, Reads DEF ValueInv, IInv, In
    <3>5. ops[j].kind \in {"Input", "GenRandom", "Add", "Reveal"}
      BY <2>1 DEF ValueInv, Ordered
    <3>6. Opened'[x] \in Clear!Meaning(ops[j])
      BY <2>1, <2>4, <3>2, <3>4, <3>5 DEF Clear!Meaning
    <3>7. Opened' = [w \in Held \cup {x} |-> IF w = x THEN Opened'[x] ELSE Opened[w]]
      BY <1>2, <2>3, <2>4, <3>1
    <3>8. Clear!Evaluate(ops[j])
      BY <1>1, <1>2, <2>1, <2>3, <3>3, <3>6, <3>7 DEF Clear!Evaluate, Range, Clear!Range
    <3> QED
      BY <2>1, <3>8 DEF Clear!Next, Range, Clear!Range
  <2> QED
    BY <2>5, <2>6
<1> QED
  BY <1>1, <1>5, <1>6

LEMMA StartsClear == Init => Clear!Init
<1> SUFFICES ASSUME Init PROVE Clear!Init
  OBVIOUS
<1>1. 0 \in Parties
  BY SharingAssumption DEF Parties
<1>2. Held = {}
  BY <1>1 DEF Init, Held
<1>3. Opened = << >>
  BY <1>2 DEF Opened
<1> QED
  BY <1>3 DEF Init, Clear!Init, InputWires, Clear!InputWires, Range, Clear!Range

\* The scheme implements the evaluation of the circuit by one evaluator, under
\* the same hypotheses: the wire whose share the last party comes to hold gets
\* the value that its operation makes of the wires it reads, a public wire the
\* same at all parties, and every other step of the two phases leaves the values
\* that the shares stand for alone.
THEOREM SharingEvaluates ==
  ASSUME Words, CircuitsOrdered, CircuitsUnmixed
  PROVE  Spec => ImplementsEvaluation
<1>1. ValueInv => Solved
  BY AllSolved
<1>2. ValueInv /\ Solved' /\ [Next]_vars => [Clear!Next]_(Clear!vars)
  BY Evaluates
<1> QED
  BY <1>1, <1>2, StartsClear, InitRight, NextRight, PTL DEF Spec, ImplementsEvaluation, Clear!Spec
=============================================================================
