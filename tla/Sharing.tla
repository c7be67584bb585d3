------------------------------- MODULE Sharing -------------------------------
(***************************************************************************)
(* The arithmetic of the additive scheme (src/src/example/additive.rs):    *)
(* N parties that hold a share modulo M of every wire, deal shares of      *)
(* their inputs and add up the shares of the wires they reveal, in         *)
(* unsigned machine words.                                                 *)
(*                                                                         *)
(* Shares reach the operation they are meant for (RoutingCorrect of        *)
(* Execution), so that a share in transit is known by its link and its     *)
(* wire.  A party runs its operations in the order of the list; the loops  *)
(* over the other parties take one step for each.                          *)
(***************************************************************************)
EXTENDS Additive, Integers, Functions, SequencesExt

CONSTANTS
  N,               \* number of parties
  M,               \* the const parameter of AdditiveScheme
  Word,            \* number of values of a machine word, 2^64 for u64
  OverflowChecks,  \* whether the build panics on overflow, or wraps around
  Circuits,        \* lists of additive operations, each after its producers
  Values           \* values that users may give

Parties == 0 .. N - 1
Links == {l \in Parties \X Parties : l[1] # l[2]}
Peers(p) == Parties \ {p}
Residues == 0 .. M - 1

ASSUME SharingAssumption ==
  /\ N \in Nat \ {0}
  /\ M \in Nat \ {0}  \* is_circuit_sound refuses 0
  /\ Word \in Nat /\ M < Word
  /\ Values \subseteq Nat
  /\ OverflowChecks \in BOOLEAN

\* Operations read as many wires as their kind says, and an input belongs to a
\* party of the session.
ASSUME CircuitsAssumption ==
  \A circuit \in Circuits : \A op \in Range(circuit) :
    /\ op.kind = "Add" => {1, 2} \subseteq DOMAIN op.inputs
    /\ op.kind = "Reveal" => 1 \in DOMAIN op.inputs
    /\ op.kind = "Input" => op.party_id \in Parties

VARIABLES
  ops,          \* the circuit, on which the handshake made all agree
  given,        \* the value its owner has for each input wire
  user_inputs,  \* inputs in the context of each party, by wire
  next,         \* index of the operation whose network phase is next
  loop,         \* the loop over the other parties a party is in, if any
  pending,      \* own shares of the operations between their two phases
  in_transit,   \* shares sent and not yet used, by link and wire
  wires,        \* shares of the wires computed, by party
  status

vars == <<ops, given, user_inputs, next, loop, pending, in_transit, wires, status>>

InputWires(circuit) == {op.output : op \in {o \in Range(circuit) : o.kind = "Input"}}
Mine(p) == {op.output : op \in {o \in Range(ops) : IsInputOf(o, p)}}

NoLoop == [doing |-> "nothing"]
Put(f, w, v) == [x \in DOMAIN f \cup {w} |-> IF x = w THEN v ELSE f[x]]

\* A sum that does not fit a word panics or wraps around, before the reduction.
Overflows(x) == OverflowChecks /\ x \notin 0 .. Word - 1
Reduced(x) == (x % Word) % M

Init ==
  /\ ops \in Circuits
  /\ given \in [InputWires(ops) -> Values]
  /\ user_inputs = [p \in Parties |-> << >>]
  /\ next = [p \in Parties |-> 0]
  /\ loop = [p \in Parties |-> NoLoop]
  /\ pending = [p \in Parties |-> << >>]
  /\ in_transit = [l \in Links |-> << >>]
  /\ wires = [p \in Parties |-> << >>]
  /\ status = [p \in Parties |-> "up"]

Up(p) == status[p] = "up"

Panic(p) ==
  /\ status' = [status EXCEPT ![p] = "panicked"]
  /\ UNCHANGED <<ops, given, user_inputs, next, loop, pending, in_transit, wires>>

\* prepare_user_input, with all that prepare_input admits: the engine runs no
\* operation on inputs before it.
PrepareUserInput(p) ==
  /\ Up(p) /\ next[p] = 0
  /\ user_inputs' = [user_inputs EXCEPT ![p] = [w \in Mine(p) |-> given[w] % M]]
  /\ next' = [next EXCEPT ![p] = 1]
  /\ UNCHANGED <<ops, given, loop, pending, in_transit, wires, status>>

\* The operation at hand is ready for its first phase: the wires it reads are
\* there, and the party is not in the middle of another one.
Starts(p, op) ==
  /\ Up(p) /\ loop[p] = NoLoop
  /\ next[p] \in DOMAIN ops /\ op = ops[next[p]]
  /\ Range(op.inputs) \subseteq DOMAIN wires[p]
Advance(p) == next' = [next EXCEPT ![p] = @ + 1]

-----------------------------------------------------------------------------
(* do_network_phase.                                                       *)

DealInput(p, op) ==
  /\ Starts(p, op) /\ IsInputOf(op, p)
  /\ loop' = [loop EXCEPT ![p] =
       [doing |-> "deal", output |-> op.output, left |-> Peers(p), total |-> 0,
        input |-> IF op.output \in DOMAIN user_inputs[p] THEN user_inputs[p][op.output] % M ELSE 0]]
  /\ user_inputs' = [user_inputs EXCEPT ![p] = Restrict(@, DOMAIN @ \ {op.output})]
  /\ Advance(p)
  /\ UNCHANGED <<ops, given, pending, in_transit, wires, status>>

\* The peer whose turn it is in the loop of p.
Turn(p, q) == q \in loop[p].left /\ \A r \in loop[p].left : q <= r

\* One share of an input, drawn and sent.
DealShare(p, q) ==
  /\ Up(p) /\ loop[p].doing = "deal" /\ Turn(p, q)
  /\ \E share \in Residues :
       \/ Overflows(loop[p].total + share) /\ Panic(p)
       \/ /\ ~Overflows(loop[p].total + share)
          /\ loop' = [loop EXCEPT ![p].left = @ \ {q},
                                  ![p].total = Reduced(loop[p].total + share)]
          /\ in_transit' = [in_transit EXCEPT ![<<p, q>>] = Put(@, loop[p].output, share)]
          /\ UNCHANGED <<ops, given, user_inputs, next, pending, wires, status>>

\* A plausible slip: M is not added before the subtraction.
KeepShare_NoModulus(p) ==
  /\ Up(p) /\ loop[p].doing = "deal" /\ loop[p].left = {}
  /\ LET rest == loop[p].input - loop[p].total
     IN \/ Overflows(rest) /\ Panic(p)
        \/ /\ ~Overflows(rest)
           /\ pending' = [pending EXCEPT ![p] = Put(@, loop[p].output, Reduced(rest))]
           /\ loop' = [loop EXCEPT ![p] = NoLoop]
           /\ UNCHANGED <<ops, given, user_inputs, next, in_transit, wires, status>>

\* A plausible slip: the dealer keeps its input beside the shares it dealt.
KeepShare_WholeInput(p) ==
  /\ Up(p) /\ loop[p].doing = "deal" /\ loop[p].left = {}
  /\ pending' = [pending EXCEPT ![p] = Put(@, loop[p].output, loop[p].input)]
  /\ loop' = [loop EXCEPT ![p] = NoLoop]
  /\ UNCHANGED <<ops, given, user_inputs, next, in_transit, wires, status>>

\* The dealer keeps what makes the shares sum to its input.
KeepShare(p) ==
  /\ Up(p) /\ loop[p].doing = "deal" /\ loop[p].left = {}
  /\ LET sum == loop[p].input + M
         rest == sum - loop[p].total
     IN \/ (Overflows(sum) \/ Overflows(rest)) /\ Panic(p)
        \/ /\ ~Overflows(sum) /\ ~Overflows(rest)
           /\ pending' = [pending EXCEPT ![p] = Put(@, loop[p].output, Reduced(rest))]
           /\ loop' = [loop EXCEPT ![p] = NoLoop]
           /\ UNCHANGED <<ops, given, user_inputs, next, in_transit, wires, status>>

\* The others ask for one share from the dealer.
AwaitInput(p, op) ==
  /\ Starts(p, op) /\ op.kind = "Input" /\ ~IsInputOf(op, p)
  /\ pending' = [pending EXCEPT ![p] = Put(@, op.output, 0)]
  /\ Advance(p)
  /\ UNCHANGED <<ops, given, user_inputs, loop, in_transit, wires, status>>

\* The two local operations, with the finalize phase that follows at once.
GenerateRandom(p, op) ==
  /\ Starts(p, op) /\ op.kind = "GenRandom"
  /\ \E my_share \in Residues : wires' = [wires EXCEPT ![p] = Put(@, op.output, my_share)]
  /\ Advance(p)
  /\ UNCHANGED <<ops, given, user_inputs, loop, pending, in_transit, status>>

\* A plausible slip: the sum of two shares is not reduced.
AddShares_Unreduced(p, op) ==
  /\ Starts(p, op) /\ op.kind = "Add"
  /\ wires' = [wires EXCEPT ![p] = Put(@, op.output, @[op.inputs[1]] + @[op.inputs[2]])]
  /\ Advance(p)
  /\ UNCHANGED <<ops, given, user_inputs, loop, pending, in_transit, status>>

AddShares(p, op) ==
  /\ Starts(p, op) /\ op.kind = "Add"
  /\ LET sum == wires[p][op.inputs[1]] + wires[p][op.inputs[2]]
     IN \/ Overflows(sum) /\ Panic(p)
        \/ /\ ~Overflows(sum)
           /\ wires' = [wires EXCEPT ![p] = Put(@, op.output, Reduced(sum))]
           /\ Advance(p)
           /\ UNCHANGED <<ops, given, user_inputs, loop, pending, in_transit, status>>

\* Everyone sends its share of the wire to everyone.
OpenShare(p, op) ==
  /\ Starts(p, op) /\ op.kind = "Reveal"
  /\ LET my_share == wires[p][op.inputs[1]]
     IN /\ pending' = [pending EXCEPT ![p] = Put(@, op.output, my_share)]
        /\ in_transit' = [l \in Links |-> IF l[1] = p THEN Put(in_transit[l], op.output, my_share)
                                                      ELSE in_transit[l]]
  /\ Advance(p)
  /\ UNCHANGED <<ops, given, user_inputs, loop, wires, status>>

-----------------------------------------------------------------------------
(* do_finalize_phase, once the shares that an operation asked for are in.  *)

Finalizes(p, op) ==
  /\ Up(p) /\ loop[p] = NoLoop
  /\ op \in Range(ops) /\ op.output \in DOMAIN pending[p]
  /\ \A q \in Peers(p) : Receives(op, p, q) => op.output \in DOMAIN in_transit[<<q, p>>]
NoLonger(f, op) == Restrict(f, DOMAIN f \ {op.output})

FinalizeInput(p, op) ==
  /\ Finalizes(p, op) /\ op.kind = "Input"
  /\ LET share == IF IsInputOf(op, p) THEN pending[p][op.output]
                  ELSE in_transit[<<op.party_id, p>>][op.output] % M
     IN wires' = [wires EXCEPT ![p] = Put(@, op.output, share)]
  /\ pending' = [pending EXCEPT ![p] = NoLonger(@, op)]
  /\ in_transit' = [l \in Links |-> IF l = <<op.party_id, p>> THEN NoLonger(in_transit[l], op)
                                                              ELSE in_transit[l]]
  /\ UNCHANGED <<ops, given, user_inputs, next, loop, status>>

\* A plausible slip: the party's own share is left out of the sum.
FinalizeReveal_FromZero(p, op) ==
  /\ Finalizes(p, op) /\ op.kind = "Reveal"
  /\ loop' = [loop EXCEPT ![p] = [doing |-> "sum", output |-> op.output, left |-> Peers(p),
                                  total |-> 0]]
  /\ pending' = [pending EXCEPT ![p] = NoLonger(@, op)]
  /\ UNCHANGED <<ops, given, user_inputs, next, in_transit, wires, status>>

\* The sum over the received shares starts from the party's own.
FinalizeReveal(p, op) ==
  /\ Finalizes(p, op) /\ op.kind = "Reveal"
  /\ loop' = [loop EXCEPT ![p] = [doing |-> "sum", output |-> op.output, left |-> Peers(p),
                                  total |-> pending[p][op.output]]]
  /\ pending' = [pending EXCEPT ![p] = NoLonger(@, op)]
  /\ UNCHANGED <<ops, given, user_inputs, next, in_transit, wires, status>>

AddReceived(p, q) ==
  /\ Up(p) /\ loop[p].doing = "sum" /\ Turn(p, q)
  /\ LET output == loop[p].output
         sum == loop[p].total + in_transit[<<q, p>>][output]
     IN \/ Overflows(sum) /\ Panic(p)
        \/ /\ ~Overflows(sum)
           /\ loop' = [loop EXCEPT ![p].left = @ \ {q}, ![p].total = Reduced(sum)]
           /\ in_transit' = [in_transit EXCEPT ![<<q, p>>] = Restrict(@, DOMAIN @ \ {output})]
           /\ UNCHANGED <<ops, given, user_inputs, next, pending, wires, status>>

FinishReveal(p) ==
  /\ Up(p) /\ loop[p].doing = "sum" /\ loop[p].left = {}
  /\ wires' = [wires EXCEPT ![p] = Put(@, loop[p].output, loop[p].total)]
  /\ loop' = [loop EXCEPT ![p] = NoLoop]
  /\ UNCHANGED <<ops, given, user_inputs, next, pending, in_transit, status>>

NetworkPhase(p, op) ==
  DealInput(p, op) \/ AwaitInput(p, op) \/ GenerateRandom(p, op) \/ AddShares(p, op) \/ OpenShare(p, op)
FinalizePhase(p, op) == FinalizeInput(p, op) \/ FinalizeReveal(p, op)

Next ==
  \E p \in Parties :
    \/ PrepareUserInput(p)
    \/ \E op \in Range(ops) : NetworkPhase(p, op) \/ FinalizePhase(p, op)
    \/ \E q \in Peers(p) : DealShare(p, q) \/ AddReceived(p, q)
    \/ KeepShare(p) \/ FinishReveal(p)

Spec == Init /\ [][Next]_vars

-----------------------------------------------------------------------------
(* Properties                                                              *)

Outputs == {op.output : op \in UNION {Range(circuit) : circuit \in Circuits}}
Shares(f) == DOMAIN f \subseteq Outputs /\ f \in [DOMAIN f -> Residues]
DealLoops == [doing : {"deal"}, output : Outputs, left : SUBSET Parties, total : Residues, input : Residues]
SumLoops == [doing : {"sum"}, output : Outputs, left : SUBSET Parties, total : Residues]

\* Every share, wherever it is, is a residue modulo M.
TypeOK ==
  /\ ops \in Circuits
  /\ given \in [InputWires(ops) -> Values]
  /\ next \in [Parties -> Nat]
  /\ status \in [Parties -> {"up", "panicked"}]
  /\ \A p \in Parties :
       /\ Shares(user_inputs[p]) /\ Shares(pending[p]) /\ Shares(wires[p])
       /\ loop[p] \in {NoLoop} \cup DealLoops \cup SumLoops
       /\ loop[p] # NoLoop => loop[p].left \subseteq Peers(p)
  /\ \A l \in Links : Shares(in_transit[l])

\* With overflow checks no party panics.
NeverPanics == \A p \in Parties : status[p] = "up"

\* Wires whose value every party holds in full, as is_circuit_sound types them.
Public ==
  FoldLeft(LAMBDA known, op : IF \/ op.kind = "Reveal"
                                 \/ op.kind = "Add" /\ Range(op.inputs) \subseteq known
                              THEN known \cup {op.output} ELSE known, {}, ops)

\* What the parties' shares of a wire stand for.
SumOfShares(w) ==
  FoldFunctionOnSet(LAMBDA s, total : s + total, 0,
                    [p \in Parties |-> IF w \in DOMAIN wires[p] THEN wires[p][w] ELSE 0], Parties) % M
Held == {w \in DOMAIN wires[0] : \A p \in Parties : w \in DOMAIN wires[p]}
Opened == [w \in Held |-> IF w \notin Public THEN SumOfShares(w)
                          ELSE IF \A p \in Parties : wires[p][w] = wires[0][w] THEN wires[0][w]
                          ELSE M]

Clear == INSTANCE Evaluation WITH value <- Opened

\* The parties evaluate the circuit as it would be in the clear: when the last
\* of them has its share of a wire, the shares sum to what the operation makes
\* of the values of the wires it reads, and a public wire is the same to all.
ImplementsEvaluation == Clear!Spec

\* The circuit in the clear, random wires as the shares drawn have it.
Plain ==
  FoldLeft(LAMBDA value, op :
             Put(value, op.output,
                 CASE op.kind = "Input"     -> given[op.output] % M
                   [] op.kind = "GenRandom" -> SumOfShares(op.output)
                   [] op.kind = "Add"       -> (value[op.inputs[1]] + value[op.inputs[2]]) % M
                   [] op.kind = "Reveal"    -> value[op.inputs[1]]),
           << >>, ops)

\* README.md:81, "A complete implementation of an additive secret sharing
\* scheme over a generic ring modulo $M$": a party that holds the output of a
\* Reveal holds the value of the circuit in that ring, whoever else is done.
RevealsCorrect ==
  \A p \in Parties : \A k \in DOMAIN ops :
    ops[k].kind = "Reveal" /\ ops[k].output \in DOMAIN wires[p] =>
      wires[p][ops[k].output] = Plain[ops[k].output]
=============================================================================
