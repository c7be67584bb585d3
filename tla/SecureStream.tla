---------------------------- MODULE SecureStream ----------------------------
(***************************************************************************)
(* The two ends of a SecureStream                                          *)
(* (src/src/networking/secure_mesh/secure_stream.rs) after the key         *)
(* agreement: frames of a length header and an encrypted body over a byte  *)
(* stream, a counter at each end of each direction, futures that their     *)
(* owner may drop between any two bytes.                                   *)
(*                                                                         *)
(* The cipher is ideal: a body opens only under the nonce and the header   *)
(* it was sealed with.                                                     *)
(***************************************************************************)
EXTENDS Naturals, FiniteSets, SequencesExt

CONSTANTS
  Data,        \* messages: a name and the size of what encrypts them
  TagLen,      \* the size of an authentication tag
  LenWord,     \* number of values of the length header, 2^32
  Capacity,    \* bytes that the socket buffers of one direction hold
  Rounds,      \* whether the ends use the stream as the engine does in its
               \* rounds, a send and then a receive, or in any order
  MaxSends,    \* bound on the messages of each end, by end
  MaxCancels   \* bound on the futures dropped

Ends == {"Listener", "Initiator"}
Other(p) == IF p = "Listener" THEN "Initiator" ELSE "Listener"

ASSUME SecureStreamAssumption ==
  /\ Data \subseteq [name : {d.name : d \in Data}, size : Nat]
  /\ TagLen \in Nat \ {0}
  /\ \A d \in Data : d.size >= TagLen
  /\ LenWord \in Nat \ {0} /\ Capacity \in Nat \ {0}
  /\ Rounds \in BOOLEAN
  /\ MaxSends \in [Ends -> Nat] /\ MaxCancels \in Nat

VARIABLES
  send_counter, recv_counter,
  doing,      \* the method whose future the owner of an end holds
  to_write,   \* bytes of the current send not yet written
  stream,     \* bytes written by an end and not yet read by the other
  buffer,     \* bytes read by the current receive of an end
  total_len,  \* how many bytes that receive reads after the header
  sealed,     \* frames encrypted by an end, in order
  completed,  \* messages whose send has returned
  delivered,  \* messages that a receive has returned
  failed,     \* whether a receive of an end has returned an error
  cancelled   \* the futures dropped: end and method

counters == <<send_counter, recv_counter>>
history == <<sealed, completed, delivered, failed, cancelled>>
vars == <<counters, doing, to_write, stream, buffer, total_len, history>>

\* A plausible slip: the role is left out of the nonce.
Nonce_NoRole(sender, counter) == [listener |-> FALSE, counter |-> counter]

\* A plausible slip: the counter is left out of the nonce.
Nonce_NoCounter(sender, counter) == [listener |-> sender = "Listener", counter |-> 0]

\* The nonce of the frames that an end sends, which the other end computes
\* from its own role.
Nonce(sender, counter) == [listener |-> sender = "Listener", counter |-> counter]

Frame(p, d) == [nonce |-> Nonce(p, send_counter[p]), data |-> d]
HeaderBytes == 2
Header(len) == [k \in 1..HeaderBytes |-> [len |-> len, at |-> k]]
Body(frame) == [k \in 1..frame.data.size |-> [frame |-> frame, at |-> k]]
Bytes(frame) == Header(frame.data.size % LenWord) \o Body(frame)

\* What a header says; bytes that are no header say anything.
Lengths(bytes) ==
  IF \E n \in 0 .. LenWord - 1 : bytes = Header(n)
    THEN {n \in 0 .. LenWord - 1 : bytes = Header(n)}
    ELSE 0 .. LenWord - 1

Init ==
  /\ send_counter = [p \in Ends |-> 0]
  /\ recv_counter = [p \in Ends |-> 0]
  /\ doing = [p \in Ends |-> "nothing"]
  /\ to_write = [p \in Ends |-> << >>]
  /\ stream = [p \in Ends |-> << >>]
  /\ buffer = [p \in Ends |-> << >>]
  /\ total_len = [p \in Ends |-> 0]
  /\ sealed = [p \in Ends |-> << >>]
  /\ completed = [p \in Ends |-> << >>]
  /\ delivered = [p \in Ends |-> << >>]
  /\ failed = [p \in Ends |-> FALSE]
  /\ cancelled = [p \in Ends |-> << >>]

Becomes(p, what) == doing' = [doing EXCEPT ![p] = what]

-----------------------------------------------------------------------------
(* send.                                                                   *)

Send(p, d) ==
  /\ doing[p] = "nothing"
  /\ Len(sealed[p]) < MaxSends[p]
  /\ Rounds => Len(completed[p]) = Len(delivered[p])
  /\ Becomes(p, "send")
  /\ sealed' = [sealed EXCEPT ![p] = Append(@, Frame(p, d))]
  /\ to_write' = [to_write EXCEPT ![p] = Bytes(Frame(p, d))]
  /\ UNCHANGED <<counters, stream, buffer, total_len, completed, delivered, failed, cancelled>>

\* A plausible slip: the counter is not advanced.
WriteByte_NoAdvance(p) ==
  /\ doing[p] = "send"
  /\ Len(stream[p]) < Capacity
  /\ stream' = [stream EXCEPT ![p] = Append(@, Head(to_write[p]))]
  /\ to_write' = [to_write EXCEPT ![p] = Tail(@)]
  /\ \/ /\ Len(to_write[p]) > 1
        /\ UNCHANGED <<doing, completed>>
     \/ /\ Len(to_write[p]) = 1
        /\ Becomes(p, "nothing")
        /\ completed' = [completed EXCEPT ![p] = Append(@, Last(sealed[p]).data)]
  /\ UNCHANGED <<counters, buffer, total_len, sealed, delivered, failed, cancelled>>

\* A byte goes out while there is room.  The counter advances with the last.
WriteByte(p) ==
  /\ doing[p] = "send"
  /\ Len(stream[p]) < Capacity
  /\ stream' = [stream EXCEPT ![p] = Append(@, Head(to_write[p]))]
  /\ to_write' = [to_write EXCEPT ![p] = Tail(@)]
  /\ \/ /\ Len(to_write[p]) > 1
        /\ UNCHANGED <<send_counter, doing, completed>>
     \/ /\ Len(to_write[p]) = 1
        /\ send_counter' = [send_counter EXCEPT ![p] = @ + 1]
        /\ Becomes(p, "nothing")
        /\ completed' = [completed EXCEPT ![p] = Append(@, Last(sealed[p]).data)]
  /\ UNCHANGED <<recv_counter, buffer, total_len, sealed, delivered, failed, cancelled>>

-----------------------------------------------------------------------------
(* recv.                                                                   *)

Recv(p) ==
  /\ doing[p] = "nothing"
  /\ Rounds => Len(delivered[p]) < Len(completed[p])
  /\ Becomes(p, "recv")
  /\ buffer' = [buffer EXCEPT ![p] = << >>]
  /\ UNCHANGED <<counters, to_write, stream, total_len, history>>

\* Takes the next byte from the stream of the other end.
Reads(p) ==
  /\ doing[p] = "recv"
  /\ stream[Other(p)] # << >>
  /\ stream' = [stream EXCEPT ![Other(p)] = Tail(@)]
  /\ buffer' = [buffer EXCEPT ![p] = Append(@, Head(stream[Other(p)]))]

Fails(p) ==
  /\ Becomes(p, "nothing")
  /\ failed' = [failed EXCEPT ![p] = TRUE]

\* A plausible slip: an empty message, all tag, is taken for too short.
ReadHeader_RefusesEmpty(p) ==
  /\ Len(buffer[p]) < HeaderBytes
  /\ Reads(p)
  /\ \/ /\ Len(buffer[p]) + 1 < HeaderBytes
        /\ UNCHANGED <<doing, total_len, failed>>
     \/ /\ Len(buffer[p]) + 1 = HeaderBytes
        /\ \E len \in Lengths(buffer'[p]) :
             \/ /\ len <= TagLen
                /\ Fails(p)
                /\ UNCHANGED total_len
             \/ /\ len > TagLen
                /\ total_len' = [total_len EXCEPT ![p] = len]
                /\ UNCHANGED <<doing, failed>>
  /\ UNCHANGED <<counters, to_write, sealed, completed, delivered, cancelled>>

ReadHeader(p) ==
  /\ Len(buffer[p]) < HeaderBytes
  /\ Reads(p)
  /\ \/ /\ Len(buffer[p]) + 1 < HeaderBytes
        /\ UNCHANGED <<doing, total_len, failed>>
     \/ /\ Len(buffer[p]) + 1 = HeaderBytes
        /\ \E len \in Lengths(buffer'[p]) :
             \/ /\ len < TagLen
                /\ Fails(p)
                /\ UNCHANGED total_len
             \/ /\ len >= TagLen
                /\ total_len' = [total_len EXCEPT ![p] = len]
                /\ UNCHANGED <<doing, failed>>
  /\ UNCHANGED <<counters, to_write, sealed, completed, delivered, cancelled>>

\* The frames that a buffer opens as, under the nonce that is expected.
Opened(p, bytes) ==
  {frame \in Range(sealed[Other(p)]) :
     frame.nonce = Nonce(Other(p), recv_counter[p]) /\ bytes = Bytes(frame)}

ReadBody(p) ==
  /\ Len(buffer[p]) >= HeaderBytes
  /\ Reads(p)
  /\ \/ /\ Len(buffer[p]) + 1 < HeaderBytes + total_len[p]
        /\ UNCHANGED <<recv_counter, doing, delivered, failed>>
     \/ /\ Len(buffer[p]) + 1 = HeaderBytes + total_len[p]
        /\ \/ /\ Opened(p, buffer'[p]) = {}
              /\ Fails(p)
              /\ UNCHANGED <<recv_counter, delivered>>
           \/ /\ \E frame \in Opened(p, buffer'[p]) :
                   delivered' = [delivered EXCEPT ![p] = Append(@, frame.data)]
              /\ recv_counter' = [recv_counter EXCEPT ![p] = @ + 1]
              /\ Becomes(p, "nothing")
              /\ UNCHANGED failed
  /\ UNCHANGED <<send_counter, to_write, total_len, sealed, completed, cancelled>>

-----------------------------------------------------------------------------
(* The owner of an end drops a future, as a timeout around it would.       *)

Cancel(p) ==
  /\ doing[p] # "nothing"
  /\ Len(cancelled["Listener"]) + Len(cancelled["Initiator"]) < MaxCancels
  /\ cancelled' = [cancelled EXCEPT ![p] = Append(@, doing[p])]
  /\ Becomes(p, "nothing")
  /\ to_write' = [to_write EXCEPT ![p] = << >>]
  /\ UNCHANGED <<counters, stream, buffer, total_len, sealed, completed, delivered, failed>>

Progress(p) ==
  (\E d \in Data : Send(p, d)) \/ WriteByte(p) \/ Recv(p) \/ ReadHeader(p) \/ ReadBody(p)
Next == \E p \in Ends : Progress(p) \/ Cancel(p)

Spec == Init /\ [][Next]_vars
\* The runtime polls a future that can make progress, and the engine goes on
\* with its rounds.
FairSpec == Spec /\ \A p \in Ends : WF_vars(Progress(p))

-----------------------------------------------------------------------------
(* Properties                                                              *)

\* Every variable has its type; the counters count what has been sent and
\* received whole.
TypeOK ==
  /\ doing \in [Ends -> {"nothing", "send", "recv"}]
  /\ \A p \in Ends :
       /\ send_counter[p] = Len(completed[p]) /\ recv_counter[p] = Len(delivered[p])
       /\ Len(stream[p]) <= Capacity /\ total_len[p] \in 0 .. LenWord - 1
       /\ Range(completed[p]) \cup Range(delivered[p]) \subseteq Data
       /\ (doing[p] = "send") = (to_write[p] # << >>)

\* What an end receives is what the other has sent, in order and without gaps,
\* whatever futures were dropped in the middle of a frame: torn frames and
\* bodies read as headers are never taken for messages.
InOrder == \A p \in Ends : IsPrefix(delivered[p], completed[Other(p)])

Misfit(p) == \E frame \in Range(sealed[p]) : frame.data.size >= LenWord

\* A receive fails only after a future was dropped that reads or writes the
\* same direction, or a message came whose length the header cannot hold.
FailsOnlyIfTorn ==
  \A p \in Ends : failed[p] =>
    \/ "send" \in Range(cancelled[Other(p)])
    \/ "recv" \in Range(cancelled[p])
    \/ Misfit(Other(p))

\* The two directions share a key: no two frames are sealed under one nonce,
\* unless a send was dropped and its counter is used again.
NoncesOnce ==
  LET all == sealed["Listener"] \o sealed["Initiator"]
  IN (\A p \in Ends : "send" \notin Range(cancelled[p])) =>
       \A j, k \in DOMAIN all : all[j].nonce = all[k].nonce => j = k

\* Two ends that exchange a frame in each round, sending before they read, get
\* through their rounds, unless a future is dropped on the way or a message does
\* not fit the header: the socket buffers hold a frame.
RoundsComplete ==
  <>(\/ \A p \in Ends : Len(delivered[p]) = MaxSends[Other(p)]
     \/ \E p \in Ends : cancelled[p] # << >> \/ Misfit(p))
=============================================================================
