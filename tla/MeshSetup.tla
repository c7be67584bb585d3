------------------------------ MODULE MeshSetup ------------------------------
(***************************************************************************)
(* N parties in MeshNetwork::from_identities                               *)
(* (src/src/networking/secure_mesh/mesh_network.rs): each accepts one      *)
(* connection after another from the parties above it, connects to those   *)
(* below it, trying again until it succeeds, and waits for all of this.    *)
(* The key agreement of a connection is                                    *)
(* SecureStream::perform_handshake (secure_stream.rs), read by read.       *)
(*                                                                         *)
(* All have one list of identities and the keys that belong to it, so that *)
(* ids are in range and signatures verify.                                 *)
(***************************************************************************)
EXTENDS Naturals, FiniteSets, Functions, SequencesExt

CONSTANTS
  N,          \* number of parties
  MaxFaults   \* bound on the connections that the network resets and the
              \* parties that die, together

ASSUME MeshSetupAssumption ==
  N \in Nat \ {0} /\ MaxFaults \in Nat

Parties == 0 .. N - 1
Below(p) == {q \in Parties : q < p}
Above(p) == {q \in Parties : q > p}
Pairs == {l \in Parties \X Parties : l[1] > l[2]}  \* initiator and listener

VARIABLES
  status,      \* what has become of a party's call: "down" before it
  conns,       \* connections ever made between a pair, in order
  backlog,     \* connections to a party that wait to be accepted
  accepting,   \* the accept loop of a party: "off", "on", "ok" or "err"
  handling,    \* the connection it is in the middle of, in a set
  accepted,    \* connections it has taken, by peer
  trying,      \* connections that a party's connectors are in the middle of, by target
  made,        \* connections that its connectors have made, by target
  faults       \* how often one of the two has happened

listening == <<backlog, accepting, handling, accepted>>
connecting == <<trying, made>>
vars == <<status, conns, listening, connecting, faults>>

\* A connection is known by its pair and its number.
Ids == UNION {{<<pair[1], pair[2], k>> : k \in DOMAIN conns[pair]} : pair \in Pairs}
Conn(c) == conns[<<c[1], c[2]>>][c[3]]
Fresh == [initiator |-> "hello", listener |-> "queued",
          initiator_open |-> TRUE, listener_open |-> TRUE, reset |-> FALSE]
Put(f, x, v) == [y \in DOMAIN f \cup {x} |-> IF y = x THEN v ELSE f[y]]

\* p closes its ends of some connections.  Closing over unread data resets a
\* connection, and what has not been accepted is reset in any case.
Closed(old, p, cs, hard) ==
  [pair \in Pairs |-> [k \in DOMAIN old[pair] |->
     LET c == old[pair][k]
     IN IF <<pair[1], pair[2], k>> \notin cs THEN c
        ELSE IF pair[1] = p THEN [c EXCEPT !.initiator_open = FALSE, !.reset = @ \/ hard]
        ELSE [c EXCEPT !.listener_open = FALSE, !.reset = @ \/ hard \/ c.listener = "queued"]]]

Advance(c, side, phase) ==
  conns' = [conns EXCEPT ![<<c[1], c[2]>>][c[3]] =
              IF side = "initiator" THEN [@ EXCEPT !.initiator = phase] ELSE [@ EXCEPT !.listener = phase]]

Init ==
  /\ status = [p \in Parties |-> "down"]
  /\ conns = [pair \in Pairs |-> << >>]
  /\ backlog = [p \in Parties |-> << >>]
  /\ accepting = [p \in Parties |-> "off"]
  /\ handling = [p \in Parties |-> {}]
  /\ accepted = [p \in Parties |-> << >>]
  /\ trying = [p \in Parties |-> << >>]
  /\ made = [p \in Parties |-> << >>]
  /\ faults = 0

Running(p) == status[p] = "running"

\* A plausible slip: the loop runs once too often where it expects nobody.
Start_AwaitsSomebody(p) ==
  /\ status[p] = "down"
  /\ status' = [status EXCEPT ![p] = "running"]
  /\ accepting' = [accepting EXCEPT ![p] = "on"]
  /\ UNCHANGED <<conns, backlog, handling, accepted, connecting, faults>>

\* The call begins: the address is bound, and an accept loop that expects
\* nobody is over at once.
Start(p) ==
  /\ status[p] = "down"
  /\ status' = [status EXCEPT ![p] = "running"]
  /\ accepting' = [accepting EXCEPT ![p] = IF Above(p) = {} THEN "ok" ELSE "on"]
  /\ UNCHANGED <<conns, backlog, handling, accepted, connecting, faults>>

-----------------------------------------------------------------------------
(* The accept loop.                                                        *)

Accept(p) ==
  /\ accepting[p] = "on" /\ handling[p] = {} /\ backlog[p] # << >>
  /\ handling' = [handling EXCEPT ![p] = {Head(backlog[p])}]
  /\ backlog' = [backlog EXCEPT ![p] = Tail(@)]
  /\ Advance(Head(backlog[p]), "listener", "accepted")
  /\ UNCHANGED <<status, accepting, accepted, connecting, faults>>

\* The loop is over: the socket and what waits in its backlog are closed, and
\* after an error all that the loop has taken as well.
EndLoop(p, verdict, old, hard) ==
  /\ accepting' = [accepting EXCEPT ![p] = verdict]
  /\ handling' = [handling EXCEPT ![p] = {}]
  /\ backlog' = [backlog EXCEPT ![p] = << >>]
  /\ conns' = Closed(old, p, Range(backlog[p]) \cup
                       IF verdict = "err" THEN handling[p] \cup Range(accepted[p]) ELSE {}, hard)

\* What the listener reads next has been sent: the id and the key with the
\* connection, the signature after the listener's key has come.
SentToListener(c) == Conn(c).listener = "signed" => Conn(c).initiator \in {"signed", "done"}

Read(p, c) ==
  \/ Conn(c).listener = "accepted" /\ Advance(c, "listener", "keyed")
  \/ Conn(c).listener = "keyed" /\ Advance(c, "listener", "signed")

\* A read_exact of the listener that has its bytes, up to the last one.
ListenerReads(p, c) ==
  /\ c \in handling[p] /\ ~Conn(c).reset
  /\ Read(p, c)
  /\ UNCHANGED <<status, listening, connecting, faults>>

\* A plausible slip: a second connection of one peer is counted as a peer.
Secured_CountsDuplicate(p, c) ==
  /\ c \in handling[p] /\ ~Conn(c).reset /\ Conn(c).listener = "signed" /\ SentToListener(c)
  /\ LET old == [conns EXCEPT ![<<c[1], c[2]>>][c[3]].listener = "done"]
     IN /\ accepted' = [accepted EXCEPT ![p] = Put(@, c[1], c)]
        /\ \/ /\ Cardinality(DOMAIN accepted[p]) + 1 = Cardinality(Above(p))
              /\ EndLoop(p, "ok", old, FALSE)
           \/ /\ Cardinality(DOMAIN accepted[p]) + 1 # Cardinality(Above(p))
              /\ handling' = [handling EXCEPT ![p] = {}]
              /\ conns' = old
              /\ UNCHANGED <<backlog, accepting>>
  /\ UNCHANGED <<status, connecting, faults>>

\* The last read, and the end of an iteration: a second connection of the same
\* peer is an error, and takes the place of the first.
Secured(p, c) ==
  /\ c \in handling[p] /\ ~Conn(c).reset /\ Conn(c).listener = "signed" /\ SentToListener(c)
  /\ LET old == [conns EXCEPT ![<<c[1], c[2]>>][c[3]].listener = "done"]
     IN \/ /\ c[1] \in DOMAIN accepted[p]
           /\ \E hard \in BOOLEAN : EndLoop(p, "err", old, hard)
           /\ UNCHANGED accepted
        \/ /\ c[1] \notin DOMAIN accepted[p]
           /\ accepted' = [accepted EXCEPT ![p] = Put(@, c[1], c)]
           /\ \/ /\ Cardinality(DOMAIN accepted[p]) + 1 = Cardinality(Above(p))
                 /\ EndLoop(p, "ok", old, FALSE)
              \/ /\ Cardinality(DOMAIN accepted[p]) + 1 # Cardinality(Above(p))
                 /\ handling' = [handling EXCEPT ![p] = {}]
                 /\ conns' = old
                 /\ UNCHANGED <<backlog, accepting>>
  /\ UNCHANGED <<status, connecting, faults>>

\* A read that fails ends the loop for good.
ListenerFails(p, c) ==
  /\ c \in handling[p]
  /\ Conn(c).reset \/ (~Conn(c).initiator_open /\ ~SentToListener(c))
  /\ \E hard \in BOOLEAN : EndLoop(p, "err", conns, hard)
  /\ UNCHANGED <<status, accepted, connecting, faults>>

-----------------------------------------------------------------------------
(* The connectors.                                                         *)

\* The id and the key follow the connection.  Where nobody listens it is
\* refused, and tried again after a pause.
Connect(p, target) ==
  /\ Running(p) /\ target \in Below(p)
  /\ target \notin DOMAIN trying[p] \cup DOMAIN made[p]
  /\ accepting[target] = "on"
  /\ LET pair == <<p, target>>
         c == <<p, target, Len(conns[pair]) + 1>>
     IN /\ conns' = [conns EXCEPT ![pair] = Append(@, Fresh)]
        /\ backlog' = [backlog EXCEPT ![target] = Append(@, c)]
        /\ trying' = [trying EXCEPT ![p] = Put(@, target, c)]
  /\ UNCHANGED <<status, accepting, handling, accepted, made, faults>>

\* A plausible slip: the listener sends its key when it has seen the signature.
SentToInitiator_KeyLast(c) ==
  \/ Conn(c).initiator = "hello" /\ Conn(c).listener = "done"
  \/ Conn(c).initiator = "signed" /\ Conn(c).listener \in {"signed", "done"}

\* What the initiator reads next has been sent: the key, then the signature.
SentToInitiator(c) ==
  \/ Conn(c).initiator = "hello" /\ Conn(c).listener \in {"keyed", "signed", "done"}
  \/ Conn(c).initiator = "signed" /\ Conn(c).listener \in {"signed", "done"}

Forget(p, target) == trying' = [trying EXCEPT ![p] = Restrict(@, DOMAIN @ \ {target})]

\* A plausible slip: a connector that has its connection goes on trying.
InitiatorReads_Again(p, target) ==
  /\ Running(p) /\ target \in DOMAIN trying[p]
  /\ LET c == trying[p][target]
     IN /\ ~Conn(c).reset /\ SentToInitiator(c)
        /\ \/ /\ Conn(c).initiator = "hello"
              /\ Advance(c, "initiator", "signed")
              /\ UNCHANGED connecting
           \/ /\ Conn(c).initiator = "signed"
              /\ Advance(c, "initiator", "done")
              /\ made' = [made EXCEPT ![p] = Put(@, target, c)]
              /\ UNCHANGED trying
  /\ UNCHANGED <<status, listening, faults>>

InitiatorReads(p, target) ==
  /\ Running(p) /\ target \in DOMAIN trying[p]
  /\ LET c == trying[p][target]
     IN /\ ~Conn(c).reset /\ SentToInitiator(c)
        /\ \/ /\ Conn(c).initiator = "hello"
              /\ Advance(c, "initiator", "signed")
              /\ UNCHANGED connecting
           \/ /\ Conn(c).initiator = "signed"
              /\ Advance(c, "initiator", "done")
              /\ Forget(p, target)
              /\ made' = [made EXCEPT ![p] = Put(@, target, c)]
  /\ UNCHANGED <<status, listening, faults>>

InitiatorFails(p, target) ==
  /\ Running(p) /\ target \in DOMAIN trying[p]
  /\ LET c == trying[p][target]
     IN /\ Conn(c).reset \/ (~Conn(c).listener_open /\ ~SentToInitiator(c))
        /\ \E hard \in BOOLEAN : conns' = Closed(conns, p, {c}, hard)
  /\ Forget(p, target)
  /\ UNCHANGED <<status, listening, made, faults>>

\* join! waits for both halves; an error of the accept loop comes out then,
\* and drops the connections that the connectors have made.
Return(p) ==
  /\ Running(p)
  /\ accepting[p] \in {"ok", "err"} /\ Below(p) = DOMAIN made[p]
  /\ status' = [status EXCEPT ![p] = accepting[p]]
  /\ \/ accepting[p] = "ok" /\ UNCHANGED conns
     \/ accepting[p] = "err" /\ \E hard \in BOOLEAN : conns' = Closed(conns, p, Range(made[p]), hard)
  /\ UNCHANGED <<listening, connecting, faults>>

-----------------------------------------------------------------------------
(* The environment.                                                        *)

Break(c) ==
  /\ faults < MaxFaults
  /\ ~Conn(c).reset /\ ~(Conn(c).initiator = "done" /\ Conn(c).listener = "done")
  /\ conns' = [conns EXCEPT ![<<c[1], c[2]>>][c[3]].reset = TRUE]
  /\ faults' = faults + 1
  /\ UNCHANGED <<status, listening, connecting>>

\* A party dies, whether in the call or after it, and can be started anew.
Crash(p) ==
  /\ faults < MaxFaults /\ status[p] # "down"
  /\ faults' = faults + 1
  /\ status' = [status EXCEPT ![p] = "down"]
  /\ accepting' = [accepting EXCEPT ![p] = "off"]
  /\ conns' = Closed(conns, p, {c \in Ids : p \in {c[1], c[2]}}, TRUE)
  /\ backlog' = [backlog EXCEPT ![p] = << >>]
  /\ handling' = [handling EXCEPT ![p] = {}]
  /\ accepted' = [accepted EXCEPT ![p] = << >>]
  /\ trying' = [trying EXCEPT ![p] = << >>]
  /\ made' = [made EXCEPT ![p] = << >>]

Listen(p) ==
  Accept(p) \/ \E c \in handling[p] : ListenerReads(p, c) \/ Secured(p, c) \/ ListenerFails(p, c)
Reach(p, target) ==
  Connect(p, target) \/ InitiatorReads(p, target) \/ InitiatorFails(p, target)

Next ==
  \/ \E p \in Parties : \/ Start(p) \/ Listen(p) \/ Return(p) \/ Crash(p)
                        \/ \E target \in Below(p) : Reach(p, target)
  \/ \E c \in Ids : Break(c)

\* Every party is started; its accept loop and each of its connectors, polled
\* by join!, go on when they can.
Fairness ==
  \A p \in Parties : /\ WF_vars(Start(p)) /\ WF_vars(Listen(p)) /\ WF_vars(Return(p))
                     /\ \A target \in Below(p) : WF_vars(Reach(p, target))

Spec == Init /\ [][Next]_vars
FairSpec == Spec /\ Fairness

-----------------------------------------------------------------------------
(* Properties                                                              *)

Phases == [initiator : {"hello", "signed", "done"},
           listener : {"queued", "accepted", "keyed", "signed", "done"},
           initiator_open : BOOLEAN, listener_open : BOOLEAN, reset : BOOLEAN]

\* Every variable has its type, and connections stand where they belong.
TypeOK ==
  /\ status \in [Parties -> {"down", "running", "ok", "err"}]
  /\ accepting \in [Parties -> {"off", "on", "ok", "err"}]
  /\ \A pair \in Pairs : Range(conns[pair]) \subseteq Phases
  /\ \A p \in Parties :
       /\ Cardinality(handling[p]) <= 1
       /\ \A c \in handling[p] \cup Range(backlog[p]) \cup Range(accepted[p]) : c \in Ids /\ c[2] = p
       /\ \A q \in DOMAIN accepted[p] : q \in Above(p) /\ accepted[p][q][1] = q
       /\ DOMAIN trying[p] \cup DOMAIN made[p] \subseteq Below(p)
       /\ DOMAIN trying[p] \cap DOMAIN made[p] = {}
  /\ faults \in 0..MaxFaults

\* A MeshNetwork that from_identities returns has a channel to every other
\* party, and two that have one to each other have the two ends of the same
\* connection, whatever was reset or started anew in between.
OneConnection ==
  \A p \in Parties : status[p] = "ok" =>
    /\ DOMAIN accepted[p] = Above(p) /\ DOMAIN made[p] = Below(p)
    /\ \A q \in Below(p) : status[q] = "ok" => accepted[q][p] = made[p][q]

\* Every party gets its network, in whatever order they start, unless the
\* network or a party fails.
AllConnected == <>[](faults > 0 \/ \A p \in Parties : status[p] = "ok")

\* q will not do its part in connecting to p any more: its accept loop is over
\* or it is not in its call, or it takes itself for connected.
Unavailable(q, p) ==
  \/ q < p /\ accepting[q] # "on"
  \/ q > p /\ (status[q] # "running" \/ p \in DOMAIN made[q])
Missing(p) == (Above(p) \ DOMAIN accepted[p]) \cup (Below(p) \ DOMAIN made[p])

\* The call hangs only on a peer that has ended its part: a connection that
\* fails, a retry or a duplicate never makes two parties wait for each other.
HangsOnlyOnUnavailable ==
  \A p \in Parties : <>[]Running(p) => <>[](\E q \in Missing(p) : Unavailable(q, p))
=============================================================================
