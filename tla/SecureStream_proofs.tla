------------------------ MODULE SecureStream_proofs ------------------------
(***************************************************************************)
(* What the frames of a SecureStream guarantee for every message size,     *)
(* buffer and number of dropped futures.  Two independent arguments: the   *)
(* last byte of a frame is on its way only if its send has returned, so    *)
(* that nothing else is ever delivered; and as long as no future of a      *)
(* direction is dropped, the bytes in flight are those of whole frames,    *)
(* cut where the receiver cuts them.                                       *)
(***************************************************************************)
EXTENDS SecureStream, SequenceTheorems, TLAPS

Sealed == [nonce : [listener : BOOLEAN, counter : Nat], data : Data]
Byte == [len : Nat, at : Nat] \cup [frame : Sealed, at : Nat]

Typed ==
  /\ send_counter \in [Ends -> Nat] /\ recv_counter \in [Ends -> Nat]
  /\ doing \in [Ends -> {"nothing", "send", "recv"}]
  /\ to_write \in [Ends -> Seq(Byte)]
  /\ stream \in [Ends -> Seq(Byte)] /\ buffer \in [Ends -> Seq(Byte)]
  /\ total_len \in [Ends -> 0 .. LenWord - 1]
  /\ sealed \in [Ends -> Seq(Sealed)]
  /\ completed \in [Ends -> Seq(Data)] /\ delivered \in [Ends -> Seq(Data)]
  /\ failed \in [Ends -> BOOLEAN]
  /\ cancelled \in [Ends -> Seq({"send", "recv"})]

Counted ==
  \A p \in Ends :
    /\ send_counter[p] = Len(completed[p]) /\ recv_counter[p] = Len(delivered[p])
    /\ Len(stream[p]) <= Capacity
    /\ (doing[p] = "send") = (to_write[p] # << >>)
    /\ doing[p] = "send" => sealed[p] # << >>

-----------------------------------------------------------------------------
(* Sequences of bytes, and the bytes of a frame.                           *)

LEMMA EndsFacts ==
  \A p \in Ends : /\ Other(p) \in Ends /\ Other(p) # p /\ Other(Other(p)) = p
                  /\ \A x \in Ends : x = p \/ x = Other(p)
BY DEF Ends, Other

\* What is left of a sequence without its head, and with one more element.
LEMMA HeadTaken ==
  ASSUME NEW S, NEW s \in Seq(S), s # << >>
  PROVE  /\ Tail(s) \in Seq(S) /\ Head(s) = s[1] /\ Head(s) \in S /\ Head(s) \in Range(s)
         /\ Len(s) \in Nat /\ Len(s) >= 1 /\ Len(Tail(s)) = Len(s) - 1
         /\ \A k \in 1 .. Len(s) - 1 : Tail(s)[k] = s[k + 1]
         /\ Range(Tail(s)) \subseteq Range(s)
         /\ Tail(s) = << >> <=> Len(s) = 1
<1>1. /\ Head(s) = s[1] /\ Tail(s) \in Seq(S) /\ Len(Tail(s)) = Len(s) - 1
      /\ \A k \in 1 .. Len(s) - 1 : Tail(s)[k] = s[k + 1]
  BY HeadTailProperties
<1>2. /\ Len(s) \in Nat /\ Len(s) >= 1 /\ DOMAIN s = 1 .. Len(s)
      /\ DOMAIN Tail(s) = 1 .. Len(s) - 1
  BY <1>1, LenProperties, EmptySeq
<1>3. Head(s) \in S /\ Head(s) \in Range(s)
  BY <1>1, <1>2, ElementOfSeq DEF Range
<1>4. Range(Tail(s)) \subseteq Range(s)
  BY <1>1, <1>2 DEF Range
<1>5. Tail(s) = << >> <=> Len(s) = 1
  <2> DEFINE r == Tail(s)
  <2>1. r \in Seq(S) /\ Len(r) = Len(s) - 1
    BY <1>1
  <2> HIDE DEF r
  <2>2. r = << >> <=> Len(r) = 0
    BY <2>1, EmptySeq
  <2> QED BY <2>1, <2>2, <1>2 DEF r
<1> QED BY <1>1, <1>2, <1>3, <1>4, <1>5

LEMMA OneAppended ==
  ASSUME NEW S, NEW s \in Seq(S), NEW e \in S
  PROVE  /\ Append(s, e) \in Seq(S) /\ Append(s, e) # << >>
         /\ Len(s) \in Nat /\ Len(Append(s, e)) = Len(s) + 1
         /\ \A k \in 1 .. Len(s) : Append(s, e)[k] = s[k]
         /\ Append(s, e)[Len(s) + 1] = e
         /\ Range(Append(s, e)) = Range(s) \cup {e}
<1>1. /\ Append(s, e) \in Seq(S) /\ Len(Append(s, e)) = Len(s) + 1
      /\ \A k \in 1 .. Len(s) : Append(s, e)[k] = s[k]
      /\ Append(s, e)[Len(s) + 1] = e
  BY AppendProperties
<1>2. /\ Len(s) \in Nat /\ DOMAIN s = 1 .. Len(s) /\ DOMAIN Append(s, e) = 1 .. Len(s) + 1
  BY <1>1, LenProperties
<1>3. \A k \in 1 .. Len(s) + 1 : k \in 1 .. Len(s) \/ k = Len(s) + 1
  BY <1>2
<1>4. Range(Append(s, e)) = Range(s) \cup {e}
  BY <1>1, <1>2, <1>3 DEF Range
<1>5. Append(s, e) # << >>
  BY <1>1, <1>2, EmptySeq
<1> QED BY <1>1, <1>2, <1>4, <1>5

\* A byte that moves from the front of one sequence to the back of another.
LEMMA ByteMoved ==
  ASSUME NEW S, NEW b \in Seq(S), NEW s \in Seq(S), s # << >>
  PROVE  Append(b, Head(s)) \o Tail(s) = b \o s
<1>1. Head(s) \in S /\ Tail(s) \in Seq(S) /\ <<Head(s)>> \in Seq(S)
  BY HeadTaken
<1>2. Append(b, Head(s)) = b \o <<Head(s)>>
  BY <1>1, AppendIsConcat
<1>3. <<Head(s)>> \o Tail(s) = s
  <2>1. Append(<< >>, Head(s)) = <<Head(s)>>
    BY <1>1, EmptySeq, AppendIsConcat, ConcatEmptySeq
  <2> DEFINE h == <<Head(s)>>
             r == Tail(s)
  <2>2. /\ h \in Seq(S) /\ r \in Seq(S) /\ Len(h) = 1 /\ h[1] = s[1]
        /\ Len(s) \in Nat /\ Len(s) >= 1 /\ Len(r) = Len(s) - 1
        /\ \A k \in 1 .. Len(s) - 1 : r[k] = s[k + 1]
    BY <1>1, HeadTaken
  <2> HIDE DEF h, r
  <2>3. /\ h \o r \in Seq(S) /\ Len(h \o r) = Len(s)
        /\ \A k \in 1 .. Len(s) : (h \o r)[k] = IF k <= 1 THEN h[k] ELSE r[k - 1]
    <3>1. /\ h \o r \in Seq(S) /\ Len(h \o r) = Len(h) + Len(r)
          /\ \A k \in 1 .. Len(h) + Len(r) : (h \o r)[k] = IF k <= Len(h) THEN h[k] ELSE r[k - Len(h)]
      <4>1. h \in Seq(S) /\ r \in Seq(S)
        BY <2>2
      <4> QED BY <4>1, ConcatProperties
    <3>2. Len(h) + Len(r) = Len(s)
      BY <2>2
    <3> QED BY <3>1, <3>2, <2>2
  <2>4. ASSUME NEW k \in 1 .. Len(s) PROVE (h \o r)[k] = s[k]
    <3>1. CASE k = 1
      BY <2>2, <2>3, <3>1
    <3>2. CASE k # 1
      <4>1. k - 1 \in 1 .. Len(s) - 1 /\ ~(k <= 1)
        BY <2>2, <3>2
      <4> QED BY <4>1, <2>2, <2>3
    <3> QED BY <3>1, <3>2
  <2>5. h \o r = s
    BY <2>3, <2>4, SeqEqual
  <2> QED BY <2>5 DEF h, r
<1> QED BY <1>1, <1>2, <1>3, ConcatAssociative

LastByte(frame) == [frame |-> frame, at |-> frame.data.size]
Length(frame) == HeaderBytes + frame.data.size

\* A size, its header and the frame it heads.
LEMMA SizeFacts ==
  ASSUME NEW frame \in Sealed
  PROVE  /\ frame.data \in Data /\ frame.data.size \in Nat /\ frame.data.size >= TagLen
         /\ frame.data.size >= 1 /\ frame.nonce.counter \in Nat
         /\ frame.data.size % LenWord \in 0 .. LenWord - 1
         /\ frame.data.size < LenWord => frame.data.size % LenWord = frame.data.size
<1>1. frame.data \in Data /\ frame.nonce.counter \in Nat
  BY DEF Sealed
<1>2. frame.data.size \in Nat /\ frame.data.size >= TagLen
  BY <1>1, SecureStreamAssumption
<1>3. TagLen \in Nat /\ TagLen >= 1 /\ LenWord \in Nat /\ LenWord > 0
  BY SecureStreamAssumption
<1>4. PICK n \in Nat : n = frame.data.size
  BY <1>2
<1>5. n % LenWord \in 0 .. LenWord - 1 /\ (n < LenWord => n % LenWord = n)
  BY <1>3
<1> QED BY <1>1, <1>2, <1>3, <1>4, <1>5

LEMMA HeaderFacts ==
  ASSUME NEW len \in Nat
  PROVE  /\ Header(len) \in Seq(Byte) /\ Len(Header(len)) = 2
         /\ \A k \in 1 .. 2 : Header(len)[k] = [len |-> len, at |-> k]
<1>1. PICK n \in Nat : n = HeaderBytes
  BY DEF HeaderBytes
<1>2. Header(len) \in [1 .. n -> Byte]
  BY <1>1 DEF Header, Byte
<1>3. Header(len) \in Seq(Byte)
  BY <1>2
<1>4. Len(Header(len)) = n /\ \A k \in 1 .. n : Header(len)[k] = [len |-> len, at |-> k]
  BY <1>1, <1>2, <1>3, LenProperties DEF Header
<1> QED BY <1>1, <1>3, <1>4 DEF HeaderBytes

LEMMA BodyFacts ==
  ASSUME NEW frame \in Sealed
  PROVE  /\ Body(frame) \in Seq(Byte) /\ Len(Body(frame)) = frame.data.size
         /\ \A k \in 1 .. frame.data.size : Body(frame)[k] = [frame |-> frame, at |-> k]
<1>1. frame.data.size \in Nat
  BY SizeFacts
<1>2. Body(frame) \in [1 .. frame.data.size -> Byte]
  BY <1>1 DEF Body, Byte
<1>3. Body(frame) \in Seq(Byte)
  BY <1>1, <1>2
<1> QED BY <1>1, <1>2, <1>3, LenProperties DEF Body

\* The bytes of a frame end in its last byte and hold no other of the kind.
LEMMA BytesFacts ==
  ASSUME NEW frame \in Sealed
  PROVE  /\ Bytes(frame) \in Seq(Byte) /\ Len(Bytes(frame)) = Length(frame)
         /\ Length(frame) \in Nat /\ Length(frame) > HeaderBytes
         /\ \A k \in 1 .. 2 : Bytes(frame)[k] = Header(frame.data.size % LenWord)[k]
         /\ Bytes(frame)[Length(frame)] = LastByte(frame)
         /\ \A k \in 1 .. Length(frame) - 1 : \A other \in Sealed : Bytes(frame)[k] # LastByte(other)
<1>1. /\ frame.data.size \in Nat /\ frame.data.size >= 1
      /\ frame.data.size % LenWord \in Nat
  BY SizeFacts, SecureStreamAssumption
<1>2. PICK n \in Nat : n = frame.data.size
  BY <1>1
<1>3. PICK h \in Seq(Byte) : h = Header(frame.data.size % LenWord)
  BY <1>1, HeaderFacts
<1>4. PICK b \in Seq(Byte) : b = Body(frame)
  BY BodyFacts
<1>5. /\ Len(h) = 2 /\ \A k \in 1 .. 2 : h[k] = [len |-> frame.data.size % LenWord, at |-> k]
      /\ Len(b) = n /\ \A k \in 1 .. n : b[k] = [frame |-> frame, at |-> k]
      /\ Bytes(frame) = h \o b /\ Length(frame) = 2 + n /\ n >= 1
  BY <1>1, <1>2, <1>3, <1>4, HeaderFacts, BodyFacts DEF Bytes, Length, HeaderBytes
<1>6. /\ h \o b \in Seq(Byte) /\ Len(h \o b) = 2 + n
      /\ \A k \in 1 .. 2 + n : (h \o b)[k] = IF k <= 2 THEN h[k] ELSE b[k - 2]
  <2>1. /\ h \o b \in Seq(Byte) /\ Len(h \o b) = Len(h) + Len(b)
        /\ \A k \in 1 .. Len(h) + Len(b) : (h \o b)[k] = IF k <= Len(h) THEN h[k] ELSE b[k - Len(h)]
    BY ConcatProperties
  <2> QED BY <2>1, <1>5
<1>7. \A k \in 1 .. 2 : (h \o b)[k] = h[k]
  BY <1>6
<1>8. (h \o b)[2 + n] = LastByte(frame)
  <2>1. 2 + n \in 1 .. 2 + n /\ ~(2 + n <= 2) /\ (2 + n) - 2 = n /\ n \in 1 .. n
    BY <1>5
  <2> QED BY <2>1, <1>2, <1>5, <1>6, SMTT(30) DEF LastByte
<1>9. ASSUME NEW k \in 1 .. (2 + n) - 1, NEW other \in Sealed
      PROVE  (h \o b)[k] # LastByte(other)
  <2>1. CASE k <= 2
    <3>1. (h \o b)[k] = [len |-> frame.data.size % LenWord, at |-> k]
      BY <2>1, <1>5, <1>7
    <3>2. "len" \in DOMAIN (h \o b)[k] /\ "len" \notin DOMAIN LastByte(other)
      BY <3>1 DEF LastByte
    <3> QED BY <3>2
  <2>2. CASE k > 2
    <3>1. (h \o b)[k] = [frame |-> frame, at |-> k - 2] /\ k - 2 # n
      <4>1. k \in 1 .. 2 + n /\ ~(k <= 2) /\ k - 2 \in 1 .. n /\ k - 2 # n
        BY <2>2
      <4> QED BY <4>1, <1>5, <1>6
    <3>2. ASSUME LastByte(other) = [frame |-> frame, at |-> k - 2] PROVE FALSE
      <4>1. other = frame /\ other.data.size = k - 2
        BY <3>2 DEF LastByte
      <4> QED BY <4>1, <3>1, <1>2
    <3> QED BY <3>1, <3>2
  <2>3. k <= 2 \/ k > 2
    BY <1>5
  <2> QED BY <2>1, <2>2, <2>3
<1>10. \A k \in 1 .. (2 + n) - 1 : \A other \in Sealed : (h \o b)[k] # LastByte(other)
  BY <1>9
<1>11. Length(frame) \in Nat /\ Length(frame) > HeaderBytes
  BY <1>5 DEF HeaderBytes
<1>12. \A k \in 1 .. 2 : Bytes(frame)[k] = Header(frame.data.size % LenWord)[k]
  BY <1>3, <1>5, <1>7
<1> QED BY <1>5, <1>6, <1>8, <1>10, <1>11, <1>12

-----------------------------------------------------------------------------
(* Types and counters.                                                     *)

Base == Typed /\ Counted

LEMMA InitBase == Init => Base
<1> SUFFICES ASSUME Init PROVE Base
  OBVIOUS
<1>1. 0 \in 0 .. LenWord - 1 /\ 0 <= Capacity
  BY SecureStreamAssumption
<1>2. \A S : << >> \in Seq(S) /\ Len(<< >>) = 0
  BY EmptySeq
<1> QED BY <1>1, <1>2 DEF Init, Base, Typed, Counted

LEMMA BytesAssociative == \A r, s, t \in Seq(Byte) : (r \o s) \o t = r \o (s \o t)
  BY ConcatAssociative

LEMMA OneChanged ==
  ASSUME NEW S, NEW T, NEW f \in [S -> T], NEW x \in S, NEW y \in T
  PROVE  [f EXCEPT ![x] = y] \in [S -> T]
OBVIOUS

LEMMA FrameFacts ==
  ASSUME Typed, NEW p \in Ends, NEW d \in Data
  PROVE  Frame(p, d) \in Sealed /\ Frame(p, d).nonce.counter = send_counter[p]
<1>1. (p = "Listener") \in BOOLEAN
  OBVIOUS
<1>2. send_counter[p] \in Nat
  BY DEF Typed
<1>3. Nonce(p, send_counter[p]) \in [listener : BOOLEAN, counter : Nat]
  BY <1>1, <1>2 DEF Nonce
<1> QED BY <1>3 DEF Frame, Sealed, Nonce

LEMMA SendBase == \A p \in Ends, d \in Data : Base /\ Send(p, d) => Base'
<1> SUFFICES ASSUME NEW p \in Ends, NEW d \in Data, Base, Send(p, d) PROVE Base'
  OBVIOUS
<1>1. PICK frame \in Sealed : frame = Frame(p, d)
  BY FrameFacts DEF Base
<1>2. /\ sealed' = [sealed EXCEPT ![p] = Append(@, frame)]
      /\ to_write' = [to_write EXCEPT ![p] = Bytes(frame)]
  BY <1>1 DEF Send
<1>3. Bytes(frame) \in Seq(Byte) /\ Bytes(frame) # << >>
  <2>1. /\ Bytes(frame) \in Seq(Byte) /\ Len(Bytes(frame)) = Length(frame)
        /\ Length(frame) \in Nat /\ Length(frame) > HeaderBytes
    BY BytesFacts
  <2> QED BY <2>1, EmptySeq DEF HeaderBytes
<1>4. Append(sealed[p], frame) \in Seq(Sealed) /\ Append(sealed[p], frame) # << >>
  <2>1. sealed[p] \in Seq(Sealed)
    BY DEF Base, Typed
  <2> QED BY <2>1, OneAppended
<1>5. Typed'
  <2>1. sealed' \in [Ends -> Seq(Sealed)]
    <3>1. sealed \in [Ends -> Seq(Sealed)] /\ sealed' = [sealed EXCEPT ![p] = Append(sealed[p], frame)]
      BY <1>2 DEF Base, Typed
    <3> QED BY <1>4, <3>1, OneChanged
  <2>2. to_write' \in [Ends -> Seq(Byte)]
    BY <1>2, <1>3, OneChanged DEF Base, Typed
  <2>3. doing' \in [Ends -> {"nothing", "send", "recv"}]
    BY OneChanged DEF Base, Typed, Send, Becomes
  <2>4. UNCHANGED <<counters, stream, buffer, total_len, completed, delivered, failed, cancelled>>
    BY DEF Send
  <2> QED BY <2>1, <2>2, <2>3, <2>4 DEF Base, Typed, counters
<1>6. Counted'
  BY <1>2, <1>3, <1>4, SMTT(30) DEF Base, Typed, Counted, Send, Becomes, counters
<1> QED BY <1>5, <1>6 DEF Base

LEMMA WriteByteBase == \A p \in Ends : Base /\ WriteByte(p) => Base'
<1> SUFFICES ASSUME NEW p \in Ends, Base, WriteByte(p) PROVE Base'
  OBVIOUS
<1>1. /\ to_write[p] \in Seq(Byte) /\ to_write[p] # << >> /\ stream[p] \in Seq(Byte)
      /\ completed[p] \in Seq(Data) /\ sealed[p] \in Seq(Sealed) /\ sealed[p] # << >>
      /\ doing[p] = "send" /\ Len(stream[p]) < Capacity /\ Capacity \in Nat
  BY SecureStreamAssumption DEF Base, Typed, Counted, WriteByte
<1>2. /\ Tail(to_write[p]) \in Seq(Byte) /\ Head(to_write[p]) \in Byte
      /\ (Tail(to_write[p]) = << >> <=> Len(to_write[p]) = 1) /\ Len(to_write[p]) \in Nat
  BY <1>1, HeadTaken
<1>3. /\ Append(stream[p], Head(to_write[p])) \in Seq(Byte)
      /\ Len(Append(stream[p], Head(to_write[p]))) = Len(stream[p]) + 1 /\ Len(stream[p]) \in Nat
  BY <1>1, <1>2, OneAppended
<1>4. Last(sealed[p]).data \in Data
  <2>1. Last(sealed[p]) \in Sealed
    BY <1>1, EmptySeq, ElementOfSeq DEF Last
  <2> QED BY <2>1 DEF Sealed
<1>5. /\ Append(completed[p], Last(sealed[p]).data) \in Seq(Data)
      /\ Len(Append(completed[p], Last(sealed[p]).data)) = Len(completed[p]) + 1
  BY <1>1, <1>4, OneAppended
<1>6. /\ stream' = [stream EXCEPT ![p] = Append(stream[p], Head(to_write[p]))]
      /\ to_write' = [to_write EXCEPT ![p] = Tail(to_write[p])]
      /\ UNCHANGED <<recv_counter, buffer, total_len, sealed, delivered, failed, cancelled>>
  BY DEF WriteByte
<1>7. CASE Len(to_write[p]) > 1 /\ UNCHANGED <<send_counter, doing, completed>>
  <2>1. Typed'
    BY <1>1, <1>2, <1>3, <1>6, <1>7 DEF Base, Typed
  <2>2. Counted'
    <3>1. /\ Len(stream'[p]) <= Capacity /\ to_write'[p] # << >>
          /\ \A x \in Ends : x # p => stream'[x] = stream[x] /\ to_write'[x] = to_write[x]
      <4>1. Tail(to_write[p]) # << >>
        <5>1. PICK n \in Nat : n = Len(to_write[p])
          BY <1>2
        <5>2. Len(to_write[p]) > 1
          BY <1>7
        <5>3. n > 1
          BY <5>1, <5>2
        <5>4. n # 1
          BY <5>3
        <5> QED BY <5>1, <5>4, <1>2
      <4>2. Len(Append(stream[p], Head(to_write[p]))) <= Capacity
        BY <1>1, <1>3
      <4> QED BY <1>6, <4>1, <4>2 DEF Base, Typed
    <3> QED BY <1>1, <1>6, <1>7, <3>1 DEF Base, Counted
  <2> QED BY <2>1, <2>2 DEF Base
<1>8. CASE /\ Len(to_write[p]) = 1
           /\ send_counter' = [send_counter EXCEPT ![p] = @ + 1]
           /\ Becomes(p, "nothing")
           /\ completed' = [completed EXCEPT ![p] = Append(@, Last(sealed[p]).data)]
  <2>1. Typed'
    <3>1. stream' \in [Ends -> Seq(Byte)] /\ to_write' \in [Ends -> Seq(Byte)]
      BY <1>2, <1>3, <1>6, OneChanged DEF Base, Typed
    <3>2. doing' \in [Ends -> {"nothing", "send", "recv"}]
      BY <1>8, OneChanged DEF Base, Typed, Becomes
    <3>3. send_counter' \in [Ends -> Nat]
      <4>1. send_counter \in [Ends -> Nat] /\ send_counter[p] + 1 \in Nat
        BY DEF Base, Typed
      <4>2. send_counter' = [send_counter EXCEPT ![p] = send_counter[p] + 1]
        BY <1>8
      <4> QED BY <4>1, <4>2, OneChanged
    <3>4. completed' \in [Ends -> Seq(Data)]
      <4>1. completed' = [completed EXCEPT ![p] = Append(completed[p], Last(sealed[p]).data)]
        BY <1>8
      <4> QED BY <1>5, <4>1, OneChanged DEF Base, Typed
    <3> QED BY <1>6, <3>1, <3>2, <3>3, <3>4 DEF Base, Typed
  <2>2. Counted'
    <3>1. /\ Len(stream'[p]) <= Capacity /\ to_write'[p] = << >> /\ doing'[p] = "nothing"
          /\ send_counter'[p] = send_counter[p] + 1 /\ Len(completed'[p]) = Len(completed[p]) + 1
          /\ \A x \in Ends : x # p =>
               /\ stream'[x] = stream[x] /\ to_write'[x] = to_write[x] /\ doing'[x] = doing[x]
               /\ send_counter'[x] = send_counter[x] /\ completed'[x] = completed[x]
      BY <1>1, <1>2, <1>3, <1>5, <1>6, <1>8 DEF Base, Typed, Becomes
    <3> QED BY <1>1, <1>6, <3>1, SMTT(30) DEF Base, Counted
  <2> QED BY <2>1, <2>2 DEF Base
<1> QED BY <1>7, <1>8 DEF WriteByte

LEMMA RecvBase == \A p \in Ends : Base /\ Recv(p) => Base'
<1> SUFFICES ASSUME NEW p \in Ends, Base, Recv(p) PROVE Base'
  OBVIOUS
<1>1. << >> \in Seq(Byte)
  BY EmptySeq
<1>2. Typed'
  BY <1>1 DEF Base, Typed, Recv, Becomes, counters, history
<1>3. Counted'
  BY DEF Base, Typed, Counted, Recv, Becomes, counters, history
<1> QED BY <1>2, <1>3 DEF Base

\* A byte read moves from the stream to the buffer.
LEMMA ReadsFacts ==
  ASSUME Base, NEW p \in Ends, Reads(p)
  PROVE  /\ doing[p] = "recv" /\ Other(p) \in Ends /\ Other(p) # p
         /\ stream[Other(p)] \in Seq(Byte) /\ stream[Other(p)] # << >> /\ buffer[p] \in Seq(Byte)
         /\ stream' = [stream EXCEPT ![Other(p)] = Tail(stream[Other(p)])]
         /\ buffer' = [buffer EXCEPT ![p] = Append(buffer[p], Head(stream[Other(p)]))]
         /\ stream' \in [Ends -> Seq(Byte)] /\ buffer' \in [Ends -> Seq(Byte)]
         /\ \A x \in Ends : Len(stream'[x]) <= Capacity
         /\ Len(buffer[p]) \in Nat /\ Len(buffer'[p]) = Len(buffer[p]) + 1
<1>1. /\ doing[p] = "recv" /\ Other(p) \in Ends /\ Other(p) # p
      /\ stream[Other(p)] \in Seq(Byte) /\ stream[Other(p)] # << >> /\ buffer[p] \in Seq(Byte)
      /\ stream' = [stream EXCEPT ![Other(p)] = Tail(stream[Other(p)])]
      /\ buffer' = [buffer EXCEPT ![p] = Append(buffer[p], Head(stream[Other(p)]))]
  BY EndsFacts DEF Base, Typed, Reads
<1>2. /\ Tail(stream[Other(p)]) \in Seq(Byte) /\ Head(stream[Other(p)]) \in Byte
      /\ Len(Tail(stream[Other(p)])) = Len(stream[Other(p)]) - 1
      /\ Len(stream[Other(p)]) \in Nat
  BY <1>1, HeadTaken
<1>3. /\ Append(buffer[p], Head(stream[Other(p)])) \in Seq(Byte)
      /\ Len(Append(buffer[p], Head(stream[Other(p)]))) = Len(buffer[p]) + 1
      /\ Len(buffer[p]) \in Nat
  BY <1>1, <1>2, OneAppended
<1>4. stream' \in [Ends -> Seq(Byte)] /\ buffer' \in [Ends -> Seq(Byte)]
  BY <1>1, <1>2, <1>3 DEF Base, Typed
<1>5. \A x \in Ends : Len(stream'[x]) <= Capacity
  BY <1>1, <1>2, SecureStreamAssumption DEF Base, Typed, Counted
<1> QED BY <1>1, <1>3, <1>4, <1>5 DEF Base, Typed

LEMMA ReadHeaderBase == \A p \in Ends : Base /\ ReadHeader(p) => Base'
<1> SUFFICES ASSUME NEW p \in Ends, Base, ReadHeader(p) PROVE Base'
  OBVIOUS
<1>1. /\ doing[p] = "recv" /\ stream' \in [Ends -> Seq(Byte)] /\ buffer' \in [Ends -> Seq(Byte)]
      /\ \A x \in Ends : Len(stream'[x]) <= Capacity
  BY ReadsFacts DEF ReadHeader
<1>2. /\ doing' \in [Ends -> {"nothing", "send", "recv"}]
      /\ \A x \in Ends : doing'[x] = "send" <=> doing[x] = "send"
      /\ failed' \in [Ends -> BOOLEAN]
      /\ UNCHANGED <<counters, to_write, sealed, completed, delivered, cancelled>>
  BY <1>1 DEF ReadHeader, Fails, Becomes, Base, Typed
<1>3. total_len' \in [Ends -> 0 .. LenWord - 1]
  <2>1. Lengths(buffer'[p]) \subseteq 0 .. LenWord - 1
    BY DEF Lengths
  <2> QED BY <2>1 DEF ReadHeader, Base, Typed
<1>4. Typed' /\ Counted'
  BY <1>1, <1>2, <1>3 DEF Base, Typed, Counted, counters
<1> QED BY <1>4 DEF Base

\* What a buffer opens as is a frame that the other end has sealed.
LEMMA OpenedFacts ==
  ASSUME Typed, NEW p \in Ends, NEW bytes, NEW frame \in Opened(p, bytes)
  PROVE  /\ frame \in Sealed /\ frame.data \in Data
         /\ frame.nonce = Nonce(Other(p), recv_counter[p]) /\ bytes = Bytes(frame)
<1>1. sealed[Other(p)] \in Seq(Sealed) /\ frame \in Range(sealed[Other(p)])
  BY EndsFacts DEF Typed, Opened
<1>2. frame \in Sealed
  BY <1>1, ElementOfSeq, LenProperties DEF Range
<1> QED BY <1>2 DEF Opened, Sealed

LEMMA ReadBodyBase == \A p \in Ends : Base /\ ReadBody(p) => Base'
<1> SUFFICES ASSUME NEW p \in Ends, Base, ReadBody(p) PROVE Base'
  OBVIOUS
<1>1. /\ doing[p] = "recv" /\ stream' \in [Ends -> Seq(Byte)] /\ buffer' \in [Ends -> Seq(Byte)]
      /\ \A x \in Ends : Len(stream'[x]) <= Capacity
  BY ReadsFacts DEF ReadBody
<1>2. /\ doing' \in [Ends -> {"nothing", "send", "recv"}]
      /\ \A x \in Ends : doing'[x] = "send" <=> doing[x] = "send"
      /\ failed' \in [Ends -> BOOLEAN]
      /\ UNCHANGED <<send_counter, to_write, total_len, sealed, completed, cancelled>>
  BY <1>1 DEF ReadBody, Fails, Becomes, Base, Typed
<1>3. /\ recv_counter' \in [Ends -> Nat] /\ delivered' \in [Ends -> Seq(Data)]
      /\ \A x \in Ends : recv_counter'[x] = Len(delivered'[x])
  <2>1. CASE UNCHANGED <<recv_counter, delivered>>
    BY <2>1 DEF Base, Typed, Counted
  <2>2. ASSUME NEW frame \in Opened(p, buffer'[p]),
               delivered' = [delivered EXCEPT ![p] = Append(@, frame.data)],
               recv_counter' = [recv_counter EXCEPT ![p] = @ + 1]
        PROVE  /\ recv_counter' \in [Ends -> Nat] /\ delivered' \in [Ends -> Seq(Data)]
               /\ \A x \in Ends : recv_counter'[x] = Len(delivered'[x])
    <3>1. frame.data \in Data
      BY <2>2, OpenedFacts DEF Base
    <3>2. delivered[p] \in Seq(Data) /\ recv_counter[p] = Len(delivered[p])
      BY DEF Base, Typed, Counted
    <3>3. /\ Append(delivered[p], frame.data) \in Seq(Data)
          /\ Len(Append(delivered[p], frame.data)) = Len(delivered[p]) + 1
          /\ Len(delivered[p]) \in Nat
      BY <3>1, <3>2, OneAppended
    <3>4. recv_counter' \in [Ends -> Nat] /\ delivered' \in [Ends -> Seq(Data)]
      BY <2>2, <3>3 DEF Base, Typed
    <3>5. recv_counter'[p] = Len(delivered'[p])
      BY <2>2, <3>2, <3>3 DEF Base, Typed
    <3>6. \A x \in Ends : x # p => recv_counter'[x] = recv_counter[x] /\ delivered'[x] = delivered[x]
      BY <2>2 DEF Base, Typed
    <3> QED BY <3>4, <3>5, <3>6 DEF Base, Counted
  <2> QED BY <2>1, <2>2 DEF ReadBody
<1>4. Typed' /\ Counted'
  BY <1>1, <1>2, <1>3 DEF Base, Typed, Counted
<1> QED BY <1>4 DEF Base

LEMMA CancelBase == \A p \in Ends : Base /\ Cancel(p) => Base'
<1> SUFFICES ASSUME NEW p \in Ends, Base, Cancel(p) PROVE Base'
  OBVIOUS
<1>1. << >> \in Seq(Byte) /\ Append(cancelled[p], doing[p]) \in Seq({"send", "recv"})
  <2>1. doing[p] \in {"send", "recv"} /\ cancelled[p] \in Seq({"send", "recv"})
    BY DEF Cancel, Base, Typed
  <2> QED BY <2>1, OneAppended, EmptySeq
<1>2. Typed'
  BY <1>1 DEF Base, Typed, Cancel, Becomes, counters
<1>3. Counted'
  BY DEF Base, Typed, Counted, Cancel, Becomes, counters
<1> QED BY <1>2, <1>3 DEF Base

LEMMA SameBase == Base /\ UNCHANGED vars => Base'
BY DEF Base, Typed, Counted, vars, counters, history

-----------------------------------------------------------------------------
(* The first argument: what is delivered was sent whole.                   *)

\* The frame being written ends in its last byte and holds no other.
Sending ==
  \A p \in Ends : doing[p] = "send" =>
    /\ Last(sealed[p]).nonce.counter = send_counter[p]
    /\ to_write[p][Len(to_write[p])] = LastByte(Last(sealed[p]))
    /\ \A k \in 1 .. Len(to_write[p]) - 1 : \A frame \in Sealed : to_write[p][k] # LastByte(frame)

Counts(frame, p) ==
  frame.nonce.counter < Len(completed[p]) /\ completed[p][frame.nonce.counter + 1] = frame.data

\* The last byte of a frame has been written only if its send has returned.
Written ==
  \A p \in Ends : \A frame \in Sealed :
    LastByte(frame) \in Range(stream[p]) \cup Range(buffer[Other(p)]) => Counts(frame, p)

\* Prefixes, element by element.
LEMMA PrefixIff ==
  ASSUME NEW S, NEW s \in Seq(S), NEW t \in Seq(S)
  PROVE  IsPrefix(s, t) <=> Len(s) <= Len(t) /\ \A k \in 1 .. Len(s) : s[k] = t[k]
<1>1. Len(s) \in Nat /\ Len(t) \in Nat
  BY LenProperties
<1>2. PICK n \in Nat : n = Len(s)
  BY <1>1
<1>3. SUFFICES ASSUME n <= Len(t)
               PROVE  SubSeq(s, 1, n) = SubSeq(t, 1, n) <=> \A k \in 1 .. n : s[k] = t[k]
  BY <1>2 DEF IsPrefix
<1>4. \A k \in 1 .. n : s[k] \in S /\ t[k] \in S
  BY <1>1, <1>2, <1>3, ElementOfSeq
<1>5. /\ SubSeq(s, 1, n) \in Seq(S) /\ SubSeq(t, 1, n) \in Seq(S)
      /\ Len(SubSeq(s, 1, n)) = n /\ Len(SubSeq(t, 1, n)) = n
      /\ \A k \in 1 .. n : SubSeq(s, 1, n)[k] = s[k] /\ SubSeq(t, 1, n)[k] = t[k]
  <2>1. \A q : (\A k \in 1 .. n : q[k] \in S) =>
           /\ SubSeq(q, 1, n) \in Seq(S) /\ Len(SubSeq(q, 1, n)) = n
           /\ \A k \in 1 .. n : SubSeq(q, 1, n)[k] = q[k]
    <3>1. SUFFICES ASSUME NEW q, \A k \in 1 .. n : q[k] \in S
                   PROVE  /\ SubSeq(q, 1, n) \in Seq(S) /\ Len(SubSeq(q, 1, n)) = n
                          /\ \A k \in 1 .. n : SubSeq(q, 1, n)[k] = q[k]
      OBVIOUS
    <3>2. /\ SubSeq(q, 1, n) \in Seq(S)
          /\ Len(SubSeq(q, 1, n)) = IF 1 <= n THEN n - 1 + 1 ELSE 0
          /\ \A k \in 1 .. n - 1 + 1 : SubSeq(q, 1, n)[k] = q[1 + k - 1]
      <4>1. 1 \in Int /\ n \in Int
        OBVIOUS
      <4> QED BY <3>1, <4>1, SubSeqProperties
    <3> QED BY <3>2
  <2> QED BY <2>1, <1>4
<1> QED BY <1>5, SeqEqual

LEMMA PrefixGrows ==
  ASSUME NEW S, NEW s \in Seq(S), NEW t \in Seq(S), NEW e \in S, IsPrefix(s, t)
  PROVE  IsPrefix(s, Append(t, e))
<1>1. Len(s) <= Len(t) /\ \A k \in 1 .. Len(s) : s[k] = t[k]
  BY PrefixIff
<1>2. /\ Append(t, e) \in Seq(S) /\ Len(t) \in Nat /\ Len(Append(t, e)) = Len(t) + 1
      /\ \A k \in 1 .. Len(t) : Append(t, e)[k] = t[k]
  BY OneAppended
<1>3. Len(s) \in Nat
  BY LenProperties
<1>4. Len(s) <= Len(Append(t, e)) /\ \A k \in 1 .. Len(s) : s[k] = Append(t, e)[k]
  BY <1>1, <1>2, <1>3
<1> QED BY <1>2, <1>4, PrefixIff

LEMMA PrefixExtended ==
  ASSUME NEW S, NEW s \in Seq(S), NEW t \in Seq(S), NEW e \in S, IsPrefix(s, t),
         Len(s) < Len(t), t[Len(s) + 1] = e
  PROVE  IsPrefix(Append(s, e), t)
<1>1. \A k \in 1 .. Len(s) : s[k] = t[k]
  BY PrefixIff
<1>2. /\ Append(s, e) \in Seq(S) /\ Len(s) \in Nat /\ Len(Append(s, e)) = Len(s) + 1
      /\ \A k \in 1 .. Len(s) : Append(s, e)[k] = s[k] /\ Append(s, e)[Len(s) + 1] = e
  <2>1. /\ Append(s, e) \in Seq(S) /\ Len(s) \in Nat /\ Len(Append(s, e)) = Len(s) + 1
        /\ \A k \in 1 .. Len(s) : Append(s, e)[k] = s[k]
        /\ Append(s, e)[Len(s) + 1] = e
    BY OneAppended
  <2> QED BY <2>1
<1>3. Len(t) \in Nat
  BY LenProperties
<1>4. ASSUME NEW k \in 1 .. Len(s) + 1 PROVE Append(s, e)[k] = t[k]
  <2>1. CASE k = Len(s) + 1
    <3>1. Append(s, e)[Len(s) + 1] = e
      BY OneAppended
    <3> QED BY <2>1, <3>1
  <2>2. CASE k # Len(s) + 1
    BY <2>2, <1>1, <1>2
  <2> QED BY <2>1, <2>2
<1>5. Len(Append(s, e)) <= Len(t)
  BY <1>2, <1>3
<1> QED BY <1>2, <1>4, <1>5, PrefixIff

LEMMA InitWritten == Init => Sending /\ Written /\ InOrder
<1> SUFFICES ASSUME Init PROVE Sending /\ Written /\ InOrder
  OBVIOUS
<1>1. Range(<< >>) = {} /\ IsPrefix(<< >>, << >>)
  BY EmptySeq DEF Range, IsPrefix
<1> QED BY <1>1, EndsFacts DEF Init, Sending, Written, InOrder

LEMMA SendWritten ==
  \A p \in Ends, d \in Data : Base /\ Sending /\ Written /\ Send(p, d) => Sending' /\ Written'
<1> SUFFICES ASSUME NEW p \in Ends, NEW d \in Data, Base, Sending, Written, Send(p, d)
             PROVE  Sending' /\ Written'
  OBVIOUS
<1>1. PICK frame \in Sealed : frame = Frame(p, d) /\ frame.nonce.counter = send_counter[p]
  BY FrameFacts DEF Base
<1>2. /\ sealed' = [sealed EXCEPT ![p] = Append(sealed[p], frame)]
      /\ to_write' = [to_write EXCEPT ![p] = Bytes(frame)] /\ doing' = [doing EXCEPT ![p] = "send"]
      /\ UNCHANGED <<send_counter, stream, buffer, completed>>
  BY <1>1 DEF Send, counters, Becomes
<1>3. Last(Append(sealed[p], frame)) = frame
  <2>1. sealed[p] \in Seq(Sealed)
    BY DEF Base, Typed
  <2> QED BY <2>1, OneAppended DEF Last
<1>4. /\ Len(Bytes(frame)) = Length(frame) /\ Bytes(frame)[Length(frame)] = LastByte(frame)
      /\ \A k \in 1 .. Length(frame) - 1 : \A other \in Sealed : Bytes(frame)[k] # LastByte(other)
  BY BytesFacts
<1>5. Sending'
  <2>1. SUFFICES ASSUME NEW x \in Ends, doing'[x] = "send"
                 PROVE  /\ Last(sealed'[x]).nonce.counter = send_counter[x]
                        /\ to_write'[x][Len(to_write'[x])] = LastByte(Last(sealed'[x]))
                        /\ \A k \in 1 .. Len(to_write'[x]) - 1 : \A other \in Sealed :
                             to_write'[x][k] # LastByte(other)
    BY <1>2 DEF Sending
  <2>2. CASE x = p
    <3>1. sealed'[x] = Append(sealed[p], frame) /\ to_write'[x] = Bytes(frame)
      BY <1>2, <2>2 DEF Base, Typed
    <3> QED BY <3>1, <2>2, <1>1, <1>3, <1>4
  <2>3. CASE x # p
    <3>1. sealed'[x] = sealed[x] /\ to_write'[x] = to_write[x] /\ doing[x] = "send"
      BY <1>2, <2>1, <2>3 DEF Base, Typed
    <3> QED BY <3>1 DEF Sending
  <2> QED BY <2>2, <2>3
<1>6. Written'
  BY <1>2 DEF Written, Counts
<1> QED BY <1>5, <1>6

\* What has been completed stays so.
LEMMA CountsKept ==
  ASSUME NEW S, NEW before \in Seq(S), NEW e \in S, NEW n \in Nat, n < Len(before)
  PROVE  n < Len(Append(before, e)) /\ Append(before, e)[n + 1] = before[n + 1]
<1>1. PICK m \in Nat : m = Len(before)
  BY LenProperties
<1>2. n + 1 \in 1 .. m /\ n < m + 1
  BY <1>1
<1> QED BY <1>1, <1>2, OneAppended

LEMMA WriteByteWritten ==
  \A p \in Ends : Base /\ Sending /\ Written /\ InOrder /\ WriteByte(p)
                    => Sending' /\ Written' /\ InOrder'
<1> SUFFICES ASSUME NEW p \in Ends, Base, Sending, Written, InOrder, WriteByte(p)
             PROVE  Sending' /\ Written' /\ InOrder'
  OBVIOUS
<1> DEFINE left == to_write[p]
           last == Last(sealed[p])
<1>1. /\ left \in Seq(Byte) /\ left # << >> /\ doing[p] = "send" /\ stream[p] \in Seq(Byte)
      /\ sealed[p] \in Seq(Sealed) /\ sealed[p] # << >> /\ completed[p] \in Seq(Data)
      /\ send_counter[p] = Len(completed[p])
      /\ last.nonce.counter = send_counter[p] /\ left[Len(left)] = LastByte(last)
      /\ \A k \in 1 .. Len(left) - 1 : \A frame \in Sealed : left[k] # LastByte(frame)
  BY DEF Base, Typed, Counted, Sending, WriteByte
<1>2. last \in Sealed /\ last.data \in Data
  <2>1. last \in Sealed
    BY <1>1, EmptySeq, ElementOfSeq DEF Last
  <2> QED BY <2>1 DEF Sealed
<1>3. /\ stream' = [stream EXCEPT ![p] = Append(stream[p], Head(left))]
      /\ to_write' = [to_write EXCEPT ![p] = Tail(left)]
      /\ UNCHANGED <<buffer, sealed, delivered>>
  BY DEF WriteByte
<1>4. \/ /\ Len(left) > 1 /\ UNCHANGED <<send_counter, doing, completed>>
      \/ /\ Len(left) = 1
         /\ send_counter' = [send_counter EXCEPT ![p] = @ + 1]
         /\ doing' = [doing EXCEPT ![p] = "nothing"]
         /\ completed' = [completed EXCEPT ![p] = Append(completed[p], last.data)]
  BY DEF WriteByte, Becomes
<1>5. PICK w \in Seq(Byte) : w = left
  BY <1>1
<1>6. PICK done \in Seq(Data) : done = completed[p]
  BY <1>1
<1>7. PICK f \in Sealed : f = last
  BY <1>2
<1> HIDE DEF left, last
<1>8. /\ Head(w) = w[1] /\ Tail(w) \in Seq(Byte) /\ Len(w) \in Nat /\ Len(Tail(w)) = Len(w) - 1
      /\ \A k \in 1 .. Len(w) - 1 : Tail(w)[k] = w[k + 1]
      /\ Head(w) \in Byte
  BY <1>1, <1>5, HeadTaken
<1>9. Range(stream'[p]) = Range(stream[p]) \cup {w[1]}
  <2>1. stream'[p] = Append(stream[p], w[1])
    BY <1>3, <1>5, <1>8 DEF Base, Typed
  <2>2. w[1] \in Byte
    BY <1>8
  <2> QED BY <2>1, <2>2, <1>1, OneAppended
<1>10. CASE Len(left) > 1 /\ UNCHANGED <<send_counter, doing, completed>>
  <2>1. Len(w) > 1 /\ 1 \in 1 .. Len(w) - 1 /\ Len(w) - 1 \in 1 .. Len(w) - 1
    BY <1>5, <1>8, <1>10
  <2>2. /\ Tail(w)[Len(Tail(w))] = w[Len(w)]
        /\ \A k \in 1 .. Len(Tail(w)) - 1 : k + 1 \in 1 .. Len(w) - 1 /\ Tail(w)[k] = w[k + 1]
    BY <2>1, <1>8
  <2>3. Sending'
    <3>1. SUFFICES ASSUME NEW x \in Ends, doing[x] = "send"
                   PROVE  /\ Last(sealed[x]).nonce.counter = send_counter[x]
                          /\ to_write'[x][Len(to_write'[x])] = LastByte(Last(sealed[x]))
                          /\ \A k \in 1 .. Len(to_write'[x]) - 1 : \A other \in Sealed :
                               to_write'[x][k] # LastByte(other)
      BY <1>3, <1>10 DEF Sending
    <3>2. CASE x = p
      <4>1. to_write'[x] = Tail(w)
        BY <1>3, <1>5, <3>2 DEF Base, Typed
      <4>2. /\ Last(sealed[x]).nonce.counter = send_counter[x]
            /\ w[Len(w)] = LastByte(Last(sealed[x]))
            /\ \A k \in 1 .. Len(w) - 1 : \A other \in Sealed : w[k] # LastByte(other)
        BY <1>1, <1>5, <3>2 DEF last
      <4>3. Tail(w)[Len(Tail(w))] = LastByte(Last(sealed[x]))
        BY <2>2, <4>2
      <4>4. \A k \in 1 .. Len(Tail(w)) - 1 : \A other \in Sealed : Tail(w)[k] # LastByte(other)
        BY <2>2, <4>2
      <4> QED BY <4>1, <4>2, <4>3, <4>4
    <3>3. CASE x # p
      <4>1. to_write'[x] = to_write[x]
        BY <1>3, <3>3 DEF Base, Typed
      <4> QED BY <4>1, <3>1 DEF Sending
    <3> QED BY <3>2, <3>3
  <2>4. Written'
    <3>1. SUFFICES ASSUME NEW x \in Ends, NEW frame \in Sealed,
                          LastByte(frame) \in Range(stream'[x]) \cup Range(buffer[Other(x)])
                   PROVE  Counts(frame, x)
      BY <1>3, <1>10 DEF Written, Counts
    <3>2. CASE x = p
      <4>1. w[1] # LastByte(frame)
        BY <1>1, <1>5, <2>1
      <4> QED BY <4>1, <3>1, <3>2, <1>9 DEF Written
    <3>3. CASE x # p
      <4>1. stream'[x] = stream[x]
        BY <1>3, <3>3 DEF Base, Typed
      <4> QED BY <4>1, <3>1 DEF Written
    <3> QED BY <3>2, <3>3
  <2>5. InOrder'
    BY <1>3, <1>10 DEF InOrder
  <2> QED BY <2>3, <2>4, <2>5
<1>11. CASE /\ Len(left) = 1
            /\ send_counter' = [send_counter EXCEPT ![p] = @ + 1]
            /\ doing' = [doing EXCEPT ![p] = "nothing"]
            /\ completed' = [completed EXCEPT ![p] = Append(completed[p], last.data)]
  <2>1. w[1] = LastByte(f) /\ f.nonce.counter = Len(done) /\ f.data \in Data
    BY <1>1, <1>2, <1>5, <1>6, <1>7, <1>11
  <2>2. /\ Append(done, f.data) \in Seq(Data) /\ Len(done) \in Nat
        /\ Len(Append(done, f.data)) = Len(done) + 1
        /\ \A k \in 1 .. Len(done) : Append(done, f.data)[k] = done[k]
        /\ Append(done, f.data)[Len(done) + 1] = f.data
    BY <2>1, OneAppended
  <2>3. completed'[p] = Append(done, f.data) /\ \A x \in Ends : x # p => completed'[x] = completed[x]
    BY <1>6, <1>7, <1>11 DEF Base, Typed
  <2>4. Sending'
    <3>1. SUFFICES ASSUME NEW x \in Ends, doing'[x] = "send"
                   PROVE  /\ Last(sealed[x]).nonce.counter = send_counter'[x]
                          /\ to_write'[x][Len(to_write'[x])] = LastByte(Last(sealed[x]))
                          /\ \A k \in 1 .. Len(to_write'[x]) - 1 : \A other \in Sealed :
                               to_write'[x][k] # LastByte(other)
      BY <1>3 DEF Sending
    <3>2. x # p /\ doing[x] = "send"
      BY <3>1, <1>11 DEF Base, Typed
    <3>3. to_write'[x] = to_write[x] /\ send_counter'[x] = send_counter[x]
      BY <1>3, <1>11, <3>2 DEF Base, Typed
    <3> QED BY <3>2, <3>3 DEF Sending
  <2>5. \A x \in Ends : \A frame \in Sealed : Counts(frame, x) => Counts(frame, x)'
    <3>1. SUFFICES ASSUME NEW frame \in Sealed, Counts(frame, p) PROVE Counts(frame, p)'
      BY <2>3 DEF Counts
    <3>2. frame.nonce.counter \in Nat /\ frame.nonce.counter < Len(done)
      BY <3>1, <1>6, SizeFacts DEF Counts
    <3>3. /\ frame.nonce.counter < Len(Append(done, f.data))
          /\ Append(done, f.data)[frame.nonce.counter + 1] = done[frame.nonce.counter + 1]
      BY <3>2, <2>1, CountsKept
    <3> QED BY <3>1, <3>3, <2>3, <1>6 DEF Counts
  <2>6. Written'
    <3>1. SUFFICES ASSUME NEW x \in Ends, NEW frame \in Sealed,
                          LastByte(frame) \in Range(stream'[x]) \cup Range(buffer[Other(x)])
                   PROVE  Counts(frame, x)'
      BY <1>3 DEF Written
    <3>2. CASE x = p /\ LastByte(frame) = w[1]
      <4>1. frame = f
        BY <3>2, <2>1 DEF LastByte
      <4> QED BY <4>1, <3>2, <2>1, <2>2, <2>3 DEF Counts
    <3>3. CASE x = p /\ LastByte(frame) # w[1]
      BY <3>1, <3>3, <1>9, <2>5 DEF Written
    <3>4. CASE x # p
      <4>1. stream'[x] = stream[x]
        BY <1>3, <3>4 DEF Base, Typed
      <4> QED BY <4>1, <3>1, <2>5 DEF Written
    <3> QED BY <3>2, <3>3, <3>4
  <2>7. InOrder'
    <3>1. SUFFICES ASSUME NEW x \in Ends, Other(x) = p PROVE IsPrefix(delivered[x], completed'[p])
      BY <1>3, <2>3, EndsFacts DEF InOrder
    <3>2. PICK got \in Seq(Data) : got = delivered[x]
      BY DEF Base, Typed
    <3>3. IsPrefix(got, done)
      BY <3>1, <3>2, <1>6 DEF InOrder
    <3>4. IsPrefix(got, Append(done, f.data))
      BY <3>3, <2>1, PrefixGrows
    <3> QED BY <3>2, <3>4, <2>3
  <2> QED BY <2>4, <2>6, <2>7
<1> QED BY <1>4, <1>10, <1>11

LEMMA RecvWritten == \A p \in Ends : Base /\ Sending /\ Written /\ Recv(p) => Sending' /\ Written'
<1> SUFFICES ASSUME NEW p \in Ends, Base, Sending, Written, Recv(p) PROVE Sending' /\ Written'
  OBVIOUS
<1>1. /\ doing' = [doing EXCEPT ![p] = "recv"] /\ buffer' = [buffer EXCEPT ![p] = << >>]
      /\ UNCHANGED <<send_counter, to_write, stream, sealed, completed>>
  BY DEF Recv, Becomes, counters, history
<1>2. Sending'
  <2>1. \A x \in Ends : doing'[x] = "send" => doing[x] = "send"
    BY <1>1 DEF Base, Typed
  <2> QED BY <1>1, <2>1 DEF Sending
<1>3. Written'
  <2>1. \A x \in Ends : Range(buffer'[x]) \subseteq Range(buffer[x])
    <3>1. Range(<< >>) = {}
      BY EmptySeq DEF Range
    <3> QED BY <1>1, <3>1 DEF Base, Typed
  <2> QED BY <1>1, <2>1, EndsFacts DEF Written, Counts
<1> QED BY <1>2, <1>3

\* What is read only moves from the stream to the buffer.
LEMMA ReadsWritten ==
  ASSUME Base, Sending, Written, NEW p \in Ends, Reads(p),
         \A x \in Ends : doing'[x] = "send" => doing[x] = "send",
         UNCHANGED <<send_counter, to_write, sealed, completed>>
  PROVE  Sending' /\ Written'
<1>1. Sending'
  BY DEF Sending
<1>2. PICK q \in Ends : q = Other(p) /\ p = Other(q)
  BY EndsFacts
<1>3. /\ stream[q] \in Seq(Byte) /\ stream[q] # << >> /\ buffer[p] \in Seq(Byte)
      /\ stream' = [stream EXCEPT ![q] = Tail(stream[q])]
      /\ buffer' = [buffer EXCEPT ![p] = Append(buffer[p], Head(stream[q]))]
  BY <1>2, ReadsFacts
<1>4. PICK s \in Seq(Byte) : s = stream[q]
  BY <1>3
<1>5. Range(Tail(s)) \subseteq Range(s) /\ Head(s) \in Range(s) /\ Head(s) \in Byte
  BY <1>3, <1>4, HeadTaken
<1>6. Range(Append(buffer[p], Head(s))) = Range(buffer[p]) \cup {Head(s)}
  BY <1>3, <1>5, OneAppended
<1>7. Range(stream'[q]) \cup Range(buffer'[p]) \subseteq Range(stream[q]) \cup Range(buffer[p])
  BY <1>3, <1>4, <1>5, <1>6 DEF Base, Typed
<1>8. stream'[p] = stream[p] /\ buffer'[q] = buffer[q]
  BY <1>2, <1>3, EndsFacts DEF Base, Typed
<1>9. \A x \in Ends : Range(stream'[x]) \cup Range(buffer'[Other(x)])
                        \subseteq Range(stream[x]) \cup Range(buffer[Other(x)])
  BY <1>2, <1>7, <1>8, EndsFacts
<1>10. Written'
  BY <1>9 DEF Written, Counts
<1> QED BY <1>1, <1>10

LEMMA ReadHeaderWritten ==
  \A p \in Ends : Base /\ Sending /\ Written /\ ReadHeader(p) => Sending' /\ Written'
<1> SUFFICES ASSUME NEW p \in Ends, Base, Sending, Written, ReadHeader(p) PROVE Sending' /\ Written'
  OBVIOUS
<1>1. Reads(p) /\ UNCHANGED <<send_counter, to_write, sealed, completed>>
  BY DEF ReadHeader, counters
<1>2. \A x \in Ends : doing'[x] = "send" => doing[x] = "send"
  BY <1>1 DEF ReadHeader, Fails, Becomes, Base, Typed
<1> QED BY <1>1, <1>2, ReadsWritten

\* The message delivered is one whose last byte was read, so one sent whole; and
\* its counter says that it is the next.
LEMMA ReadBodyWritten ==
  \A p \in Ends : Base /\ Sending /\ Written /\ InOrder /\ ReadBody(p)
                    => Sending' /\ Written' /\ InOrder'
<1> SUFFICES ASSUME NEW p \in Ends, Base, Sending, Written, InOrder, ReadBody(p)
             PROVE  Sending' /\ Written' /\ InOrder'
  OBVIOUS
<1>1. Reads(p) /\ UNCHANGED <<send_counter, to_write, sealed, completed>>
  BY DEF ReadBody
<1>2. \A x \in Ends : doing'[x] = "send" => doing[x] = "send"
  BY <1>1 DEF ReadBody, Fails, Becomes, Base, Typed
<1>3. Sending' /\ Written'
  BY <1>1, <1>2, ReadsWritten
<1>4. InOrder'
  <2>1. CASE UNCHANGED delivered
    BY <1>1, <2>1 DEF InOrder
  <2>2. ASSUME NEW frame \in Opened(p, buffer'[p]),
               delivered' = [delivered EXCEPT ![p] = Append(@, frame.data)]
        PROVE  InOrder'
    <3>1. PICK q \in Ends : q = Other(p) /\ p = Other(q) /\ p # q
      BY EndsFacts
    <3>2. /\ frame \in Sealed /\ frame.data \in Data /\ buffer'[p] = Bytes(frame)
          /\ frame.nonce.counter = recv_counter[p]
      <4>1. /\ frame \in Sealed /\ frame.data \in Data /\ buffer'[p] = Bytes(frame)
            /\ frame.nonce = Nonce(Other(p), recv_counter[p])
        BY <2>2, OpenedFacts DEF Base
      <4> QED BY <4>1 DEF Nonce
    <3>3. LastByte(frame) \in Range(buffer'[p])
      <4>1. /\ Bytes(frame) \in Seq(Byte) /\ Len(Bytes(frame)) = Length(frame)
            /\ Length(frame) \in Nat /\ Length(frame) > HeaderBytes
            /\ Bytes(frame)[Length(frame)] = LastByte(frame)
        BY <3>2, BytesFacts
      <4>2. Length(frame) \in DOMAIN Bytes(frame)
        BY <4>1, LenProperties DEF HeaderBytes
      <4> QED BY <3>2, <4>1, <4>2 DEF Range
    <3>4. Counts(frame, q)
      BY <1>1, <1>3, <3>1, <3>2, <3>3 DEF Written, Counts
    <3>5. PICK got \in Seq(Data) : got = delivered[p] /\ Len(got) = recv_counter[p]
      BY DEF Base, Typed, Counted
    <3>6. PICK done \in Seq(Data) : done = completed[q] /\ IsPrefix(got, done)
      BY <3>1, <3>5 DEF Base, Typed, InOrder
    <3>7. Len(got) < Len(done) /\ done[Len(got) + 1] = frame.data
      BY <3>2, <3>4, <3>5, <3>6 DEF Counts
    <3>8. IsPrefix(Append(got, frame.data), done)
      BY <3>2, <3>6, <3>7, PrefixExtended
    <3>9. delivered'[p] = Append(got, frame.data) /\ delivered'[q] = delivered[q]
      BY <2>2, <3>1, <3>5 DEF Base, Typed
    <3> QED BY <1>1, <3>1, <3>6, <3>8, <3>9, EndsFacts DEF InOrder
  <2> QED BY <2>1, <2>2 DEF ReadBody
<1> QED BY <1>3, <1>4

LEMMA CancelWritten ==
  \A p \in Ends : Base /\ Sending /\ Written /\ Cancel(p) => Sending' /\ Written'
<1> SUFFICES ASSUME NEW p \in Ends, Base, Sending, Written, Cancel(p) PROVE Sending' /\ Written'
  OBVIOUS
<1>1. /\ doing' = [doing EXCEPT ![p] = "nothing"] /\ to_write' = [to_write EXCEPT ![p] = << >>]
      /\ UNCHANGED <<send_counter, stream, buffer, sealed, completed>>
  BY DEF Cancel, Becomes, counters
<1>2. \A x \in Ends : doing'[x] = "send" => doing[x] = "send" /\ to_write'[x] = to_write[x]
  BY <1>1 DEF Base, Typed
<1> QED BY <1>1, <1>2 DEF Sending, Written, Counts

DeliveryInv == Base /\ Sending /\ Written /\ InOrder

\* What is written and what is delivered, through every step.
LEMMA NextDelivery == DeliveryInv /\ [Next]_vars => DeliveryInv'
<1> SUFFICES ASSUME DeliveryInv, [Next]_vars PROVE DeliveryInv'
  OBVIOUS
<1> USE DEF DeliveryInv
<1>1. ASSUME NEW p \in Ends, NEW d \in Data, Send(p, d) PROVE DeliveryInv'
  <2>1. InOrder'
    BY <1>1 DEF Send, InOrder
  <2> QED BY <1>1, <2>1, SendBase, SendWritten
<1>2. ASSUME NEW p \in Ends, WriteByte(p) PROVE DeliveryInv'
  BY <1>2, WriteByteBase, WriteByteWritten
<1>3. ASSUME NEW p \in Ends, Recv(p) PROVE DeliveryInv'
  <2>1. InOrder'
    BY <1>3 DEF Recv, history, InOrder
  <2> QED BY <1>3, <2>1, RecvBase, RecvWritten
<1>4. ASSUME NEW p \in Ends, ReadHeader(p) PROVE DeliveryInv'
  <2>1. InOrder'
    BY <1>4 DEF ReadHeader, InOrder
  <2> QED BY <1>4, <2>1, ReadHeaderBase, ReadHeaderWritten
<1>5. ASSUME NEW p \in Ends, ReadBody(p) PROVE DeliveryInv'
  BY <1>5, ReadBodyBase, ReadBodyWritten
<1>6. ASSUME NEW p \in Ends, Cancel(p) PROVE DeliveryInv'
  <2>1. InOrder'
    BY <1>6 DEF Cancel, InOrder
  <2> QED BY <1>6, <2>1, CancelBase, CancelWritten
<1>7. CASE UNCHANGED vars
  <2>1. Sending' /\ Written' /\ InOrder'
    BY <1>7 DEF vars, counters, history, Sending, Written, Counts, InOrder
  <2> QED BY <1>7, <2>1, SameBase
<1> QED BY <1>1, <1>2, <1>3, <1>4, <1>5, <1>6, <1>7 DEF Next, Progress

\* What the theorems below rest on: the invariant of the counters, of the bytes
\* written and of what has been delivered holds in every state of send and recv
\* (secure_stream.rs:44 to 103), however often their futures are dropped.
THEOREM DeliveryInvariance == Spec => []DeliveryInv
<1>1. Init => DeliveryInv
  BY InitBase, InitWritten DEF DeliveryInv
<1> QED BY <1>1, NextDelivery, PTL DEF Spec

\* The types, and the counters at each end of each direction: they count the
\* messages sent and received whole, whatever futures were dropped
\* (secure_stream.rs:62 and 89).
THEOREM TypeCorrect == Spec => []TypeOK
<1>1. DeliveryInv => TypeOK
  <2> SUFFICES ASSUME Typed, Counted PROVE TypeOK
    BY DEF DeliveryInv, Base
  <2>1. \A p \in Ends : Range(completed[p]) \subseteq Data /\ Range(delivered[p]) \subseteq Data
    <3>1. \A s \in Seq(Data) : Range(s) \subseteq Data
      BY ElementOfSeq, LenProperties DEF Range
    <3> QED BY <3>1 DEF Typed
  <2> QED BY <2>1 DEF TypeOK, Typed, Counted
<1> QED BY <1>1, DeliveryInvariance, PTL

\* Messages come out in the order of the sends that returned, none left out or
\* made up, even if futures are dropped in the middle of a frame and a counter
\* is used again (secure_stream.rs:41-91).
THEOREM DeliveredInOrder == Spec => []InOrder
<1>1. DeliveryInv => InOrder
  BY DEF DeliveryInv
<1> QED BY <1>1, DeliveryInvariance, PTL

-----------------------------------------------------------------------------
(* The second argument: the bytes in flight are frames.                    *)

Numbered ==
  \A p \in Ends : "send" \notin Range(cancelled[p]) =>
    /\ Len(sealed[p]) = send_counter[p] + (IF doing[p] = "send" THEN 1 ELSE 0)
    /\ \A k \in 1 .. Len(sealed[p]) : sealed[p][k].nonce = Nonce(p, k - 1)

LEMMA InitNumbered == Init => Numbered
BY EmptySeq DEF Init, Numbered

LEMMA SendNumbered == \A p \in Ends, d \in Data : Base /\ Numbered /\ Send(p, d) => Numbered'
<1> SUFFICES ASSUME NEW p \in Ends, NEW d \in Data, Base, Numbered, Send(p, d) PROVE Numbered'
  OBVIOUS
<1>1. PICK frame \in Sealed : frame = Frame(p, d) /\ frame.nonce = Nonce(p, send_counter[p])
  BY FrameFacts DEF Base, Frame
<1>2. /\ sealed' = [sealed EXCEPT ![p] = Append(sealed[p], frame)]
      /\ doing' = [doing EXCEPT ![p] = "send"] /\ doing[p] = "nothing"
      /\ UNCHANGED <<send_counter, cancelled>>
  BY <1>1 DEF Send, counters, Becomes
<1>3. SUFFICES ASSUME NEW x \in Ends, "send" \notin Range(cancelled[x])
               PROVE  /\ Len(sealed'[x]) = send_counter[x] + (IF doing'[x] = "send" THEN 1 ELSE 0)
                      /\ \A k \in 1 .. Len(sealed'[x]) : sealed'[x][k].nonce = Nonce(x, k - 1)
  BY <1>2 DEF Numbered
<1>4. CASE x = p
  <2>1. PICK s \in Seq(Sealed) : s = sealed[p]
    BY DEF Base, Typed
  <2>2. sealed'[x] = Append(s, frame) /\ doing'[x] = "send" /\ send_counter[p] \in Nat
    BY <1>2, <1>4, <2>1 DEF Base, Typed
  <2>3. /\ Len(s) = send_counter[p] /\ \A k \in 1 .. Len(s) : s[k].nonce = Nonce(p, k - 1)
    BY <1>2, <1>3, <1>4, <2>1, <2>2 DEF Numbered
  <2>4. /\ Len(Append(s, frame)) = Len(s) + 1 /\ Append(s, frame)[Len(s) + 1] = frame
        /\ \A k \in 1 .. Len(s) : Append(s, frame)[k] = s[k]
    BY OneAppended
  <2>5. ASSUME NEW k \in 1 .. Len(s) + 1 PROVE Append(s, frame)[k].nonce = Nonce(p, k - 1)
    <3>1. CASE k = Len(s) + 1
      <4>1. k - 1 = send_counter[p]
        BY <2>2, <2>3, <3>1
      <4> QED BY <4>1, <1>1, <2>4, <3>1
    <3>2. CASE k # Len(s) + 1
      <4>1. k \in 1 .. Len(s)
        BY <2>2, <2>3, <3>2
      <4> QED BY <4>1, <2>3, <2>4
    <3> QED BY <3>1, <3>2
  <2> QED BY <1>4, <2>2, <2>3, <2>4, <2>5
<1>5. CASE x # p
  <2>1. sealed'[x] = sealed[x] /\ doing'[x] = doing[x]
    BY <1>2, <1>5 DEF Base, Typed
  <2> QED BY <2>1, <1>3 DEF Numbered
<1> QED BY <1>4, <1>5

LEMMA WriteByteNumbered == \A p \in Ends : Base /\ Numbered /\ WriteByte(p) => Numbered'
<1> SUFFICES ASSUME NEW p \in Ends, Base, Numbered, WriteByte(p) PROVE Numbered'
  OBVIOUS
<1>1. doing[p] = "send" /\ UNCHANGED <<sealed, cancelled>>
  BY DEF WriteByte
<1>2. CASE UNCHANGED <<send_counter, doing>>
  BY <1>1, <1>2 DEF Numbered
<1>3. CASE /\ send_counter' = [send_counter EXCEPT ![p] = @ + 1]
           /\ doing' = [doing EXCEPT ![p] = "nothing"]
  <2>1. /\ send_counter'[p] = send_counter[p] + 1 /\ doing'[p] = "nothing" /\ send_counter[p] \in Nat
        /\ \A x \in Ends : x # p => send_counter'[x] = send_counter[x] /\ doing'[x] = doing[x]
    BY <1>3 DEF Base, Typed
  <2> QED BY <1>1, <2>1 DEF Numbered
<1> QED BY <1>2, <1>3 DEF WriteByte, Becomes

LEMMA NextNumbered == Base /\ Numbered /\ [Next]_vars => Numbered'
<1> SUFFICES ASSUME Base, Numbered, [Next]_vars PROVE Numbered'
  OBVIOUS
<1>1. ASSUME NEW p \in Ends, Recv(p) \/ ReadHeader(p) \/ ReadBody(p) PROVE Numbered'
  <2>1. UNCHANGED <<send_counter, sealed, cancelled>>
    BY <1>1 DEF Recv, ReadHeader, ReadBody, counters, history
  <2>2. \A x \in Ends : doing'[x] = "send" <=> doing[x] = "send"
    BY <1>1 DEF Recv, ReadHeader, ReadBody, Reads, Fails, Becomes, Base, Typed
  <2> QED BY <2>1, <2>2 DEF Numbered
<1>2. ASSUME NEW p \in Ends, Cancel(p) PROVE Numbered'
  <2>1. /\ UNCHANGED <<send_counter, sealed>>
        /\ cancelled' = [cancelled EXCEPT ![p] = Append(cancelled[p], doing[p])]
        /\ doing' = [doing EXCEPT ![p] = "nothing"] /\ doing[p] \in {"send", "recv"}
        /\ cancelled[p] \in Seq({"send", "recv"})
    BY <1>2 DEF Cancel, Becomes, counters, Base, Typed
  <2>2. Range(Append(cancelled[p], doing[p])) = Range(cancelled[p]) \cup {doing[p]}
    BY <2>1, OneAppended
  <2>3. /\ cancelled'[p] = Append(cancelled[p], doing[p]) /\ doing'[p] = "nothing"
        /\ \A x \in Ends : x # p => cancelled'[x] = cancelled[x] /\ doing'[x] = doing[x]
    BY <2>1 DEF Base, Typed
  <2>4. \A x \in Ends : "send" \notin Range(cancelled'[x]) =>
           /\ "send" \notin Range(cancelled[x])
           /\ (doing'[x] = "send" <=> doing[x] = "send")
    BY <2>2, <2>3
  <2> QED BY <2>1, <2>4 DEF Numbered
<1>3. CASE UNCHANGED vars
  BY <1>3 DEF vars, counters, history, Numbered
<1> QED BY <1>1, <1>2, <1>3, SendNumbered, WriteByteNumbered DEF Next, Progress

\* Two sequences that number their frames, each with its own role.
LEMMA TwoRoles ==
  ASSUME NEW a \in Seq(Sealed), NEW b \in Seq(Sealed),
         \A k \in 1 .. Len(a) : a[k].nonce = Nonce("Listener", k - 1),
         \A k \in 1 .. Len(b) : b[k].nonce = Nonce("Initiator", k - 1),
         NEW j \in DOMAIN (a \o b), NEW k \in DOMAIN (a \o b), (a \o b)[j].nonce = (a \o b)[k].nonce
  PROVE  j = k
<1>1. PICK m \in Nat : m = Len(a)
  BY LenProperties
<1>2. PICK n \in Nat : n = Len(b)
  BY LenProperties
<1>3. /\ a \o b \in Seq(Sealed) /\ Len(a \o b) = m + n
      /\ \A i \in 1 .. m + n : (a \o b)[i] = IF i <= m THEN a[i] ELSE b[i - m]
  BY <1>1, <1>2, ConcatProperties
<1>4. j \in 1 .. m + n /\ k \in 1 .. m + n
  BY <1>3, LenProperties
<1>5. \A i \in 1 .. m + n : (a \o b)[i].nonce = IF i <= m THEN Nonce("Listener", i - 1)
                                                          ELSE Nonce("Initiator", (i - m) - 1)
  <2>1. \A i \in 1 .. m + n : IF i <= m THEN i \in 1 .. m ELSE i - m \in 1 .. n
    OBVIOUS
  <2> QED BY <2>1, <1>1, <1>2, <1>3
<1>6. /\ \A r : \A c, d \in Int : Nonce(r, c) = Nonce(r, d) => c = d
      /\ \A c, d : Nonce("Listener", c) # Nonce("Initiator", d)
  <2>1. \A r : \A c, d \in Int : Nonce(r, c) = Nonce(r, d) => c = d
    BY DEF Nonce
  <2>2. \A c : Nonce("Listener", c).listener
    BY DEF Nonce
  <2>3. \A c : ~Nonce("Initiator", c).listener
    BY DEF Nonce
  <2>4. \A c, d : Nonce("Listener", c) # Nonce("Initiator", d)
    BY <2>2, <2>3, Zenon
  <2> QED BY <2>1, <2>4
<1>7. CASE j <= m /\ k <= m
  <2>1. Nonce("Listener", j - 1) = Nonce("Listener", k - 1)
    BY <1>4, <1>5, <1>7
  <2>2. j - 1 \in Int /\ k - 1 \in Int
    BY <1>4
  <2>3. j - 1 = k - 1
    BY <2>1, <2>2, <1>6
  <2> QED BY <2>3, <1>4
<1>8. CASE ~(j <= m) /\ ~(k <= m)
  <2>1. Nonce("Initiator", (j - m) - 1) = Nonce("Initiator", (k - m) - 1)
    BY <1>4, <1>5, <1>8
  <2>2. (j - m) - 1 \in Int /\ (k - m) - 1 \in Int
    BY <1>4
  <2>3. (j - m) - 1 = (k - m) - 1
    BY <2>1, <2>2, <1>6
  <2> QED BY <2>3, <1>4
<1>9. CASE j <= m /\ ~(k <= m)
  <2>1. (a \o b)[j].nonce = Nonce("Listener", j - 1)
    BY <1>4, <1>5, <1>9
  <2>2. (a \o b)[k].nonce = Nonce("Initiator", (k - m) - 1)
    BY <1>4, <1>5, <1>9
  <2> QED BY <2>1, <2>2, <1>6
<1>10. CASE ~(j <= m) /\ k <= m
  <2>1. (a \o b)[k].nonce = Nonce("Listener", k - 1)
    BY <1>4, <1>5, <1>10
  <2>2. (a \o b)[j].nonce = Nonce("Initiator", (j - m) - 1)
    BY <1>4, <1>5, <1>10
  <2> QED BY <2>1, <2>2, <1>6
<1> QED BY <1>7, <1>8, <1>9, <1>10

\* No nonce is used twice in the two directions as long as no send is dropped
\* (secure_stream.rs:42-47).
THEOREM NoncesFresh == Spec => []NoncesOnce
<1>1. Init => Base /\ Numbered
  BY InitBase, InitNumbered
<1>2. DeliveryInv /\ Numbered /\ [Next]_vars => Numbered'
  BY NextNumbered DEF DeliveryInv
<1>3. DeliveryInv /\ Numbered => NoncesOnce
  <2> SUFFICES ASSUME Typed, Numbered, \A p \in Ends : "send" \notin Range(cancelled[p])
               PROVE  LET all == sealed["Listener"] \o sealed["Initiator"]
                      IN \A j, k \in DOMAIN all : all[j].nonce = all[k].nonce => j = k
    BY DEF NoncesOnce, DeliveryInv, Base
  <2>1. "Listener" \in Ends /\ "Initiator" \in Ends
    BY DEF Ends
  <2>2. PICK a \in Seq(Sealed) : a = sealed["Listener"]
    BY <2>1 DEF Typed
  <2>3. PICK b \in Seq(Sealed) : b = sealed["Initiator"]
    BY <2>1 DEF Typed
  <2>4. /\ \A k \in 1 .. Len(a) : a[k].nonce = Nonce("Listener", k - 1)
        /\ \A k \in 1 .. Len(b) : b[k].nonce = Nonce("Initiator", k - 1)
    BY <2>1, <2>2, <2>3 DEF Numbered
  <2>5. \A j, k \in DOMAIN (a \o b) : (a \o b)[j].nonce = (a \o b)[k].nonce => j = k
    BY <2>4, TwoRoles
  <2> QED BY <2>2, <2>3, <2>5
<1> QED BY <1>1, <1>2, <1>3, DeliveryInvariance, PTL DEF Spec

\* The bytes are those of the frames after the first got ones, in order, where
\* cut says at which byte of the direction each frame ends.
Cut(cut, frames, got, bytes) ==
  /\ cut \in [0 .. Len(frames) -> Nat] /\ got \in 0 .. Len(frames)
  /\ \A j, k \in 0 .. Len(frames) : j <= k => cut[j] <= cut[k]
  /\ \A k \in 1 .. Len(frames) : cut[k] = cut[k - 1] + Length(frames[k])
  /\ Len(bytes) = cut[Len(frames)] - cut[got]
  /\ \A k \in got + 1 .. Len(frames) : \A m \in 1 .. Length(frames[k]) :
       bytes[cut[k - 1] - cut[got] + m] = Bytes(frames[k])[m]
InPieces(frames, got, bytes) == \E cut : Cut(cut, frames, got, bytes)

LEMMA NoPieces == InPieces(<< >>, 0, << >>)
<1> DEFINE cut == [k \in {0} |-> 0]
<1>1. Len(<< >>) = 0
  BY EmptySeq
<1>2. 0 .. 0 = {0} /\ 1 .. 0 = {} /\ 0 + 1 .. 0 = {}
  OBVIOUS
<1>3. Cut(cut, << >>, 0, << >>)
  BY <1>1, <1>2 DEF Cut
<1> QED BY <1>3 DEF InPieces

\* A frame sealed and written behind the others.
LEMMA PieceAdded ==
  ASSUME NEW frames \in Seq(Sealed), NEW frame \in Sealed, NEW bytes \in Seq(Byte), NEW got,
         InPieces(frames, got, bytes)
  PROVE  InPieces(Append(frames, frame), got, bytes \o Bytes(frame))
<1>1. PICK n \in Nat : n = Len(frames)
  BY LenProperties
<1>2. PICK cut : Cut(cut, frames, got, bytes)
  BY DEF InPieces
<1>3. PICK l \in Nat : l = Length(frame)
  BY BytesFacts
<1>4. PICK g \in Seq(Sealed) : g = Append(frames, frame)
  BY OneAppended
<1>5. PICK b \in Seq(Byte) : b = Bytes(frame) /\ Len(b) = l
  BY <1>3, BytesFacts
<1>6. /\ cut \in [0 .. n -> Nat] /\ got \in 0 .. n
      /\ \A j, k \in 0 .. n : j <= k => cut[j] <= cut[k]
      /\ \A k \in 1 .. n : cut[k] = cut[k - 1] + Length(frames[k])
      /\ Len(bytes) = cut[n] - cut[got]
      /\ \A k \in got + 1 .. n : \A m \in 1 .. Length(frames[k]) :
           bytes[cut[k - 1] - cut[got] + m] = Bytes(frames[k])[m]
  BY <1>1, <1>2 DEF Cut
<1>7. Len(g) = n + 1 /\ g[n + 1] = frame /\ \A k \in 1 .. n : g[k] = frames[k] /\ frames[k] \in Sealed
  BY <1>1, <1>4, OneAppended, ElementOfSeq
<1> DEFINE new == [k \in 0 .. n + 1 |-> IF k <= n THEN cut[k] ELSE cut[n] + l]
<1>8. /\ \A k \in 0 .. n : new[k] = cut[k] /\ cut[k] \in Nat
      /\ new[n + 1] = cut[n] + l
  BY <1>6
<1>9. new \in [0 .. n + 1 -> Nat] /\ got \in 0 .. n + 1
  BY <1>6
<1> HIDE DEF new
<1>10. ASSUME NEW j \in 0 .. n + 1, NEW k \in 0 .. n + 1, j <= k PROVE new[j] <= new[k]
  <2>1. CASE k \in 0 .. n
    <3>1. j \in 0 .. n
      BY <1>10, <2>1
    <3> QED BY <3>1, <1>6, <1>8, <1>10, <2>1
  <2>2. CASE k = n + 1 /\ j \in 0 .. n
    <3>1. n \in 0 .. n /\ j <= n
      BY <2>2
    <3>2. cut[j] <= cut[n] /\ cut[j] \in Nat /\ cut[n] \in Nat
      BY <3>1, <1>6, <1>8, <2>2
    <3> QED BY <3>2, <1>8, <2>2
  <2>3. CASE k = n + 1 /\ j = n + 1
    <3>1. new[n + 1] \in Nat
      BY <1>9
    <3> QED BY <3>1, <2>3
  <2> QED BY <2>1, <2>2, <2>3
<1>11. ASSUME NEW k \in 1 .. n + 1 PROVE new[k] = new[k - 1] + Length(g[k])
  <2>1. CASE k \in 1 .. n
    <3>1. k \in 0 .. n /\ k - 1 \in 0 .. n
      BY <2>1
    <3> QED BY <3>1, <2>1, <1>6, <1>7, <1>8
  <2>2. CASE k = n + 1
    <3>1. k - 1 = n /\ n \in 0 .. n
      BY <2>2
    <3> QED BY <3>1, <2>2, <1>3, <1>7, <1>8
  <2> QED BY <2>1, <2>2
<1>12. /\ bytes \o b \in Seq(Byte) /\ Len(bytes) \in Nat /\ Len(bytes \o b) = Len(bytes) + l
       /\ \A k \in 1 .. Len(bytes) + l : (bytes \o b)[k] = IF k <= Len(bytes) THEN bytes[k] ELSE b[k - Len(bytes)]
  BY <1>5, ConcatProperties, LenProperties
<1>13. Len(bytes \o b) = new[n + 1] - new[got]
  <2>1. n \in 0 .. n /\ got \in 0 .. n
    BY <1>6
  <2>2. cut[n] \in Nat /\ cut[got] \in Nat /\ new[got] = cut[got]
    BY <2>1, <1>6, <1>8
  <2> QED BY <2>2, <1>6, <1>8, <1>12
<1>14. ASSUME NEW k \in got + 1 .. n + 1, NEW m \in 1 .. Length(g[k])
       PROVE  (bytes \o b)[new[k - 1] - new[got] + m] = Bytes(g[k])[m]
  <2>1. CASE k \in 1 .. n
    <3>1. k \in got + 1 .. n /\ g[k] = frames[k] /\ frames[k] \in Sealed
      <4>1. got \in 0 .. n /\ n \in Nat
        BY <1>6
      <4>2. k \in got + 1 .. n
        BY <2>1, <4>1
      <4> QED BY <1>7, <2>1, <4>2
    <3>2. PICK c \in Nat : c = cut[k - 1]
      <4>1. k - 1 \in 0 .. n
        BY <2>1
      <4>2. cut[k - 1] \in Nat
        BY <4>1, <1>6
      <4> QED BY <4>2
    <3>3. PICK e \in Nat : e = cut[got]
      BY <1>6
    <3>4. PICK s \in Nat : s = Length(frames[k])
      BY <3>1, BytesFacts
    <3>5. /\ cut[k] = c + s /\ e <= c /\ c + s <= cut[n] /\ cut[n] \in Nat
          /\ new[k - 1] = c /\ new[got] = e
      <4>1. k - 1 \in 0 .. n /\ k \in 0 .. n /\ n \in 0 .. n /\ got <= k - 1 /\ k <= n
        BY <1>6, <3>1, <2>1
      <4> QED BY <4>1, <1>6, <1>8, <3>2, <3>3, <3>4, <2>1
    <3>6. m \in 1 .. s
      BY <3>1, <3>4
    <3>7. c - e + m \in 1 .. Len(bytes) + l /\ c - e + m <= Len(bytes)
      <4>1. PICK x \in Nat : x = Len(bytes)
        BY <1>12
      <4>2. PICK z \in Nat : z = cut[n]
        BY <3>5
      <4>3. x = z - e /\ e <= c /\ c + s <= z
        BY <4>1, <4>2, <3>3, <3>5, <1>6
      <4>4. c - e + m \in 1 .. x + l /\ c - e + m <= x
        BY <4>3, <3>6
      <4> QED BY <4>1, <4>4
    <3>8. bytes[c - e + m] = Bytes(frames[k])[m]
      BY <3>1, <3>2, <3>3, <3>4, <3>6, <1>6
    <3>9. (bytes \o b)[c - e + m] = bytes[c - e + m]
      BY <3>7, <1>12
    <3>10. new[k - 1] - new[got] = c - e
      BY <3>5
    <3>11. Bytes(g[k])[m] = Bytes(frames[k])[m]
      BY <3>1
    <3>12. (bytes \o b)[new[k - 1] - new[got] + m] = (bytes \o b)[c - e + m]
      BY <3>10
    <3> QED BY <3>8, <3>9, <3>11, <3>12
  <2>2. CASE k = n + 1
    <3>1. k - 1 = n /\ g[k] = frame /\ n \in 0 .. n /\ m \in 1 .. l
      BY <2>2, <1>3, <1>7
    <3>2. PICK x \in Nat : x = Len(bytes)
      BY <1>12
    <3>3. new[k - 1] - new[got] = x
      BY <3>1, <3>2, <1>6, <1>8
    <3>4. x + m \in 1 .. x + l /\ ~(x + m <= x) /\ (x + m) - x = m
      BY <3>1
    <3>5. (bytes \o b)[x + m] = b[m]
      BY <3>2, <3>4, <1>12
    <3>6. b[m] = Bytes(g[k])[m]
      BY <3>1, <1>5
    <3> QED BY <3>3, <3>5, <3>6
  <2>3. k \in 1 .. n \/ k = n + 1
    <3>1. got \in Nat
      BY <1>6
    <3> QED BY <3>1
  <2> QED BY <2>1, <2>2, <2>3
<1>15. Cut(new, g, got, bytes \o b)
  BY <1>7, <1>9, <1>10, <1>11, <1>13, <1>14 DEF Cut
<1> QED BY <1>4, <1>5, <1>15 DEF InPieces

\* Bytes in flight begin with those of the next frame.
LEMMA FirstPiece ==
  ASSUME NEW frames \in Seq(Sealed), NEW bytes \in Seq(Byte), NEW got \in Nat,
         InPieces(frames, got, bytes), bytes # << >>
  PROVE  /\ got < Len(frames) /\ frames[got + 1] \in Sealed
         /\ Length(frames[got + 1]) <= Len(bytes)
         /\ \A m \in 1 .. Length(frames[got + 1]) : bytes[m] = Bytes(frames[got + 1])[m]
<1>1. PICK n \in Nat : n = Len(frames)
  BY LenProperties
<1>2. PICK cut : Cut(cut, frames, got, bytes)
  BY DEF InPieces
<1>3. /\ cut \in [0 .. n -> Nat] /\ got \in 0 .. n
      /\ \A j, k \in 0 .. n : j <= k => cut[j] <= cut[k]
      /\ \A k \in 1 .. n : cut[k] = cut[k - 1] + Length(frames[k])
      /\ Len(bytes) = cut[n] - cut[got]
      /\ \A k \in got + 1 .. n : \A m \in 1 .. Length(frames[k]) :
           bytes[cut[k - 1] - cut[got] + m] = Bytes(frames[k])[m]
  BY <1>1, <1>2 DEF Cut
<1>4. got # n
  <2>1. Len(bytes) # 0
    BY EmptySeq
  <2>2. n \in 0 .. n /\ cut[n] \in Nat
    BY <1>3
  <2> QED BY <2>1, <2>2, <1>3
<1>5. got + 1 \in 1 .. n /\ got + 1 \in got + 1 .. n /\ (got + 1) - 1 = got /\ got < n
  BY <1>3, <1>4
<1>6. frames[got + 1] \in Sealed
  BY <1>1, <1>5, ElementOfSeq
<1>7. PICK l \in Nat : l = Length(frames[got + 1])
  BY <1>6, BytesFacts
<1>8. PICK c \in Nat : c = cut[got]
  BY <1>3
<1>9. l <= Len(bytes)
  <2>1. got + 1 \in 0 .. n /\ n \in 0 .. n
    BY <1>5
  <2>2. cut[got + 1] = c + l /\ cut[got + 1] <= cut[n] /\ cut[n] \in Nat
    BY <2>1, <1>3, <1>5, <1>7, <1>8
  <2> QED BY <2>2, <1>3, <1>8
<1>10. \A m \in 1 .. l : bytes[m] = Bytes(frames[got + 1])[m]
  <2>1. \A m \in 1 .. l : bytes[c - c + m] = Bytes(frames[got + 1])[m]
    BY <1>3, <1>5, <1>7, <1>8
  <2>2. \A m \in 1 .. l : c - c + m = m
    OBVIOUS
  <2> QED BY <2>1, <2>2
<1> QED BY <1>1, <1>5, <1>6, <1>7, <1>9, <1>10

\* Once the first frame has been read, the bytes left are those of the others.
LEMMA PieceTaken ==
  ASSUME NEW frames \in Seq(Sealed), NEW a \in Seq(Byte), NEW b \in Seq(Byte), NEW got \in Nat,
         InPieces(frames, got, a \o b), got < Len(frames), Len(a) = Length(frames[got + 1])
  PROVE  InPieces(frames, got + 1, b)
<1>1. PICK n \in Nat : n = Len(frames)
  BY LenProperties
<1>2. PICK cut : Cut(cut, frames, got, a \o b)
  BY DEF InPieces
<1>3. /\ cut \in [0 .. n -> Nat] /\ got \in 0 .. n
      /\ \A j, k \in 0 .. n : j <= k => cut[j] <= cut[k]
      /\ \A k \in 1 .. n : cut[k] = cut[k - 1] + Length(frames[k])
      /\ Len(a \o b) = cut[n] - cut[got]
      /\ \A k \in got + 1 .. n : \A m \in 1 .. Length(frames[k]) :
           (a \o b)[cut[k - 1] - cut[got] + m] = Bytes(frames[k])[m]
  BY <1>1, <1>2 DEF Cut
<1>4. got + 1 \in 1 .. n /\ got + 1 \in 0 .. n /\ (got + 1) - 1 = got /\ n \in 0 .. n
  BY <1>1
<1>5. PICK l \in Nat : l = Len(a)
  BY LenProperties
<1>6. PICK x \in Nat : x = Len(b)
  BY LenProperties
<1>7. /\ Len(a \o b) = l + x
      /\ \A i \in 1 .. l + x : (a \o b)[i] = IF i <= l THEN a[i] ELSE b[i - l]
  BY <1>5, <1>6, ConcatProperties
<1>8. PICK c \in Nat : c = cut[got]
  BY <1>3
<1>9. PICK z \in Nat : z = cut[n]
  BY <1>3, <1>4
<1>10. cut[got + 1] = c + l /\ x = z - (c + l)
  <2>1. cut[got + 1] = cut[(got + 1) - 1] + Length(frames[got + 1])
    BY <1>3, <1>4
  <2>2. cut[got + 1] = c + l
    BY <2>1, <1>4, <1>5, <1>8
  <2>3. l + x = z - c
    BY <1>3, <1>7, <1>8, <1>9
  <2> QED BY <2>2, <2>3
<1>11. ASSUME NEW k \in (got + 1) + 1 .. n, NEW m \in 1 .. Length(frames[k])
       PROVE  b[cut[k - 1] - cut[got + 1] + m] = Bytes(frames[k])[m]
  <2>1. /\ k \in got + 1 .. n /\ k \in 1 .. n /\ k \in 0 .. n /\ k - 1 \in 0 .. n
        /\ got + 1 <= k - 1 /\ k <= n
    BY <1>3
  <2>2. frames[k] \in Sealed
    BY <2>1, <1>1, ElementOfSeq
  <2>3. PICK s \in Nat : s = Length(frames[k])
    BY <2>2, BytesFacts
  <2>4. PICK d \in Nat : d = cut[k - 1]
    BY <2>1, <1>3
  <2>5. c + l <= d /\ d + s <= z
    BY <2>1, <2>3, <2>4, <1>3, <1>4, <1>9, <1>10
  <2>6. m \in 1 .. s
    BY <2>3
  <2>7. (a \o b)[d - c + m] = Bytes(frames[k])[m]
    BY <2>1, <2>3, <2>4, <2>6, <1>3, <1>8
  <2>8. d - c + m \in 1 .. l + x /\ ~(d - c + m <= l) /\ (d - c + m) - l = d - (c + l) + m
    BY <2>5, <2>6, <1>10
  <2>9. (a \o b)[d - c + m] = b[d - (c + l) + m]
    BY <2>8, <1>7
  <2> QED BY <2>4, <2>7, <2>9, <1>10
<1>12. Cut(cut, frames, got + 1, b)
  BY <1>1, <1>3, <1>4, <1>6, <1>9, <1>10, <1>11 DEF Cut
<1> QED BY <1>12 DEF InPieces

\* A header says one length.
LEMMA HeaderSays ==
  ASSUME NEW n \in 0 .. LenWord - 1
  PROVE  Lengths(Header(n)) = {n}
<1>1. n \in Nat
  BY SecureStreamAssumption
<1>2. \A k \in 0 .. LenWord - 1 : Header(n) = Header(k) => k = n
  <2>1. ASSUME NEW k \in Nat PROVE Header(k)[1].len = k
    <3>1. 1 \in 1 .. 2
      OBVIOUS
    <3>2. Header(k)[1] = [len |-> k, at |-> 1]
      BY <3>1, HeaderFacts
    <3> QED BY <3>2
  <2>2. \A k \in 0 .. LenWord - 1 : k \in Nat
    BY SecureStreamAssumption
  <2>3. ASSUME NEW k \in 0 .. LenWord - 1, Header(n) = Header(k) PROVE k = n
    <3>1. Header(k)[1].len = k /\ Header(n)[1].len = n
      BY <2>1, <2>2, <1>1
    <3> QED BY <3>1, <2>3
  <2> QED BY <2>3
<1> QED BY <1>2 DEF Lengths

Reading(p) == IF doing[p] = "recv" THEN buffer[p] ELSE << >>
InFlight(p) == (Reading(p) \o stream[Other(p)]) \o to_write[Other(p)]

\* No future was dropped that writes or reads what end p receives.
Whole(p) ==
  /\ "send" \notin Range(cancelled[Other(p)])
  /\ "recv" \notin Range(cancelled[p])
  /\ ~Misfit(Other(p))

\* The receive under way has read a part of the next frame.
NextFrame(p) == sealed[Other(p)][Len(delivered[p]) + 1]
ReadsNext(p) ==
  doing[p] = "recv" /\ Len(buffer[p]) >= HeaderBytes =>
    /\ Len(delivered[p]) < Len(sealed[Other(p)])
    /\ total_len[p] = NextFrame(p).data.size
    /\ Len(buffer[p]) < HeaderBytes + total_len[p]

AlignedAt(p) ==
  Whole(p) =>
    /\ ~failed[p]
    /\ InPieces(sealed[Other(p)], Len(delivered[p]), InFlight(p))
    /\ ReadsNext(p)

Aligned == \A p \in Ends : AlignedAt(p)

LEMMA InitAligned == Init => Aligned
<1> SUFFICES ASSUME Init, NEW p \in Ends PROVE AlignedAt(p)
  BY DEF Aligned
<1>1. Other(p) \in Ends
  BY EndsFacts
<1>2. (<< >> \o << >>) \o << >> = << >>
  <2>1. << >> \in Seq(Byte)
    BY EmptySeq
  <2> QED BY <2>1, ConcatEmptySeq
<1>3. InFlight(p) = << >> /\ ReadsNext(p) /\ Len(delivered[p]) = 0 /\ sealed[Other(p)] = << >>
  BY <1>1, <1>2, EmptySeq DEF Init, InFlight, Reading, ReadsNext
<1> QED BY <1>3, NoPieces DEF AlignedAt, Init

\* A step that touches nothing of what an end receives.
LEMMA Untouched ==
  ASSUME NEW p \in Ends, AlignedAt(p), Whole(p)' => Whole(p),
         failed'[p] = failed[p], delivered'[p] = delivered[p], total_len'[p] = total_len[p],
         Reading(p)' = Reading(p), doing'[p] = "recv" => doing[p] = "recv" /\ buffer'[p] = buffer[p],
         sealed'[Other(p)] = sealed[Other(p)], stream'[Other(p)] = stream[Other(p)],
         to_write'[Other(p)] = to_write[Other(p)]
  PROVE  AlignedAt(p)'
<1>1. InFlight(p)' = InFlight(p)
  BY DEF InFlight
<1>2. NextFrame(p)' = NextFrame(p)
  BY DEF NextFrame
<1>3. ReadsNext(p) => ReadsNext(p)'
  BY <1>2 DEF ReadsNext
<1> QED BY <1>1, <1>3 DEF AlignedAt

LEMMA SendAligned == \A p \in Ends, d \in Data : Base /\ Aligned /\ Send(p, d) => Aligned'
<1> SUFFICES ASSUME NEW q \in Ends, NEW d \in Data, Base, Aligned, Send(q, d), NEW p \in Ends
             PROVE  AlignedAt(p)'
  BY DEF Aligned
<1>1. PICK frame \in Sealed : frame = Frame(q, d)
  BY FrameFacts DEF Base
<1>2. /\ sealed' = [sealed EXCEPT ![q] = Append(sealed[q], frame)]
      /\ to_write' = [to_write EXCEPT ![q] = Bytes(frame)]
      /\ doing' = [doing EXCEPT ![q] = "send"] /\ doing[q] = "nothing"
      /\ UNCHANGED <<stream, buffer, total_len, delivered, failed, cancelled>>
  BY <1>1 DEF Send, Becomes
<1>3. Other(p) \in Ends /\ Other(p) # p /\ (p = q \/ Other(p) = q) /\ AlignedAt(p)
  BY EndsFacts DEF Aligned
<1>4. CASE p = q
  <2>1. /\ sealed'[Other(p)] = sealed[Other(p)] /\ to_write'[Other(p)] = to_write[Other(p)]
        /\ doing'[p] = "send" /\ doing[p] = "nothing"
    BY <1>2, <1>3, <1>4 DEF Base, Typed
  <2>2. Whole(p)' => Whole(p)
    BY <1>2, <2>1 DEF Whole, Misfit
  <2>3. Reading(p)' = Reading(p)
    BY <2>1 DEF Reading
  <2> QED BY <1>2, <1>3, <2>1, <2>2, <2>3, Untouched
<1>5. CASE Other(p) = q
  <2>1. PICK frames \in Seq(Sealed) : frames = sealed[q]
    BY DEF Base, Typed
  <2>2. /\ sealed'[q] = Append(frames, frame) /\ to_write'[q] = Bytes(frame)
        /\ doing'[p] = doing[p] /\ to_write[q] = << >>
    BY <1>2, <1>3, <1>5, <2>1 DEF Base, Typed, Counted
  <2>3. Range(frames) \subseteq Range(Append(frames, frame))
    BY OneAppended
  <2>4. Whole(p)' => Whole(p)
    BY <1>2, <1>5, <2>1, <2>2, <2>3 DEF Whole, Misfit
  <2>5. PICK got \in Nat : got = Len(delivered[p])
    BY LenProperties DEF Base, Typed
  <2>6. PICK bytes \in Seq(Byte) : bytes = Reading(p) \o stream[q]
    <3>1. Reading(p) \in Seq(Byte) /\ stream[q] \in Seq(Byte)
      BY EmptySeq DEF Base, Typed, Reading
    <3> QED BY <3>1, ConcatProperties
  <2>7. InFlight(p) = bytes /\ InFlight(p)' = bytes \o Bytes(frame)
    <3>1. bytes \o << >> = bytes
      BY ConcatEmptySeq
    <3>2. InFlight(p) = bytes \o << >>
      BY <1>5, <2>2, <2>6 DEF InFlight
    <3>3. Reading(p)' = Reading(p)
      BY <1>2, <2>2 DEF Reading
    <3> QED BY <1>2, <1>5, <2>2, <2>6, <3>1, <3>2, <3>3 DEF InFlight
  <2>8. ASSUME Whole(p)'
        PROVE  /\ ~failed'[p] /\ InPieces(Append(frames, frame), got, bytes \o Bytes(frame))
               /\ ReadsNext(p)'
    <3>1. ~failed[p] /\ InPieces(frames, got, bytes) /\ ReadsNext(p)
      BY <1>3, <1>5, <2>1, <2>4, <2>5, <2>7, <2>8 DEF AlignedAt
    <3>2. InPieces(Append(frames, frame), got, bytes \o Bytes(frame))
      BY <3>1, PieceAdded
    <3>3. ReadsNext(p)'
      <4> SUFFICES ASSUME doing[p] = "recv", Len(buffer[p]) >= HeaderBytes
                   PROVE  /\ got < Len(Append(frames, frame))
                          /\ total_len[p] = Append(frames, frame)[got + 1].data.size
                          /\ Len(buffer[p]) < HeaderBytes + total_len[p]
        BY <1>2, <1>5, <2>2, <2>5 DEF ReadsNext, NextFrame
      <4>1. /\ got < Len(frames) /\ total_len[p] = frames[got + 1].data.size
            /\ Len(buffer[p]) < HeaderBytes + total_len[p]
        BY <1>5, <2>1, <2>5, <3>1 DEF ReadsNext, NextFrame
      <4>2. /\ Len(frames) \in Nat /\ Len(Append(frames, frame)) = Len(frames) + 1
            /\ \A k \in 1 .. Len(frames) : Append(frames, frame)[k] = frames[k]
        BY OneAppended
      <4>3. got + 1 \in 1 .. Len(frames) /\ got < Len(frames) + 1
        BY <4>1, <4>2
      <4> QED BY <4>1, <4>2, <4>3
    <3> QED BY <1>2, <3>1, <3>2, <3>3
  <2> QED BY <1>2, <1>5, <2>2, <2>5, <2>7, <2>8 DEF AlignedAt
<1> QED BY <1>3, <1>4, <1>5

LEMMA WriteByteAligned == \A p \in Ends : Base /\ Aligned /\ WriteByte(p) => Aligned'
<1> SUFFICES ASSUME NEW q \in Ends, Base, Aligned, WriteByte(q), NEW p \in Ends PROVE AlignedAt(p)'
  BY DEF Aligned
<1>1. /\ stream' = [stream EXCEPT ![q] = Append(stream[q], Head(to_write[q]))]
      /\ to_write' = [to_write EXCEPT ![q] = Tail(to_write[q])]
      /\ doing[q] = "send" /\ to_write[q] # << >>
      /\ UNCHANGED <<buffer, total_len, sealed, delivered, failed, cancelled>>
  BY DEF WriteByte, Base, Counted
<1>2. \A x \in Ends : doing'[x] = "recv" <=> doing[x] = "recv"
  BY <1>1 DEF WriteByte, Becomes, Base, Typed
<1>3. Other(p) \in Ends /\ Other(p) # p /\ (p = q \/ Other(p) = q) /\ AlignedAt(p)
  BY EndsFacts DEF Aligned
<1>4. (Whole(p)' => Whole(p)) /\ Reading(p)' = Reading(p)
  BY <1>1, <1>2 DEF Whole, Misfit, Reading
<1>5. CASE p = q
  <2>1. stream'[Other(p)] = stream[Other(p)] /\ to_write'[Other(p)] = to_write[Other(p)]
    BY <1>1, <1>3, <1>5 DEF Base, Typed
  <2> QED BY <1>1, <1>2, <1>3, <1>4, <2>1, Untouched
<1>6. CASE Other(p) = q
  <2>1. PICK r \in Seq(Byte) : r = Reading(p)
    BY EmptySeq DEF Base, Typed, Reading
  <2>2. PICK s \in Seq(Byte) : s = stream[q]
    BY DEF Base, Typed
  <2>3. PICK w \in Seq(Byte) : w = to_write[q] /\ w # << >>
    BY <1>1 DEF Base, Typed
  <2>4. stream'[q] = Append(s, Head(w)) /\ to_write'[q] = Tail(w)
    <3>1. stream \in [Ends -> Seq(Byte)] /\ to_write \in [Ends -> Seq(Byte)]
      BY DEF Base, Typed
    <3>2. stream' = [stream EXCEPT ![q] = Append(s, Head(w))] /\ to_write' = [to_write EXCEPT ![q] = Tail(w)]
      BY <1>1, <2>2, <2>3
    <3> QED BY <3>1, <3>2
  <2>5. (r \o Append(s, Head(w))) \o Tail(w) = (r \o s) \o w
    <3>1. Tail(w) \in Seq(Byte) /\ Head(w) \in Byte
      BY <2>3, HeadTaken
    <3>2. Append(s, Head(w)) \in Seq(Byte)
      BY <3>1, OneAppended
    <3>3. Append(s, Head(w)) \o Tail(w) = s \o w
      BY <2>3, ByteMoved
    <3>4. (r \o Append(s, Head(w))) \o Tail(w) = r \o (Append(s, Head(w)) \o Tail(w))
      <4>1. PICK u \in Seq(Byte) : u = Append(s, Head(w))
        BY <3>2
      <4>2. PICK v \in Seq(Byte) : v = Tail(w)
        BY <3>1
      <4>3. (r \o u) \o v = r \o (u \o v)
        BY BytesAssociative, SMTT(40)
      <4> QED BY <4>1, <4>2, <4>3
    <3>5. (r \o s) \o w = r \o (s \o w)
      BY BytesAssociative, SMTT(40)
    <3> QED BY <3>3, <3>4, <3>5
  <2>6. InFlight(p)' = InFlight(p)
    BY <1>4, <1>6, <2>1, <2>2, <2>3, <2>4, <2>5 DEF InFlight
  <2>7. ReadsNext(p) => ReadsNext(p)'
    BY <1>1, <1>2 DEF ReadsNext, NextFrame
  <2> QED BY <1>1, <1>3, <1>4, <2>6, <2>7 DEF AlignedAt
<1> QED BY <1>3, <1>5, <1>6

LEMMA RecvAligned == \A p \in Ends : Base /\ Aligned /\ Recv(p) => Aligned'
<1> SUFFICES ASSUME NEW q \in Ends, Base, Aligned, Recv(q), NEW p \in Ends PROVE AlignedAt(p)'
  BY DEF Aligned
<1>1. /\ doing[q] = "nothing" /\ doing' = [doing EXCEPT ![q] = "recv"]
      /\ buffer' = [buffer EXCEPT ![q] = << >>]
      /\ UNCHANGED <<to_write, stream, total_len, sealed, delivered, failed, cancelled>>
  BY DEF Recv, Becomes, history
<1>2. AlignedAt(p) /\ (Whole(p)' => Whole(p))
  BY <1>1 DEF Aligned, Whole, Misfit
<1>3. CASE p = q
  <2>1. doing'[p] = "recv" /\ buffer'[p] = << >> /\ doing[p] = "nothing"
    BY <1>1, <1>3 DEF Base, Typed
  <2>2. Reading(p)' = Reading(p)
    BY <2>1 DEF Reading
  <2>3. InFlight(p)' = InFlight(p)
    BY <1>1, <2>2 DEF InFlight
  <2>4. ReadsNext(p)'
    <3>1. ~(Len(<< >>) >= HeaderBytes)
      BY EmptySeq DEF HeaderBytes
    <3> QED BY <2>1, <3>1 DEF ReadsNext
  <2> QED BY <1>1, <1>2, <2>3, <2>4 DEF AlignedAt
<1>4. CASE p # q
  <2>1. doing'[p] = doing[p] /\ buffer'[p] = buffer[p]
    BY <1>1, <1>4 DEF Base, Typed
  <2>2. Reading(p)' = Reading(p)
    BY <2>1 DEF Reading
  <2> QED BY <1>1, <1>2, <2>1, <2>2, Untouched
<1> QED BY <1>3, <1>4

\* What is known of a byte read: the bytes in flight, with the buffer that
\* holds it in front.
LEMMA ReadsFlight ==
  ASSUME Base, NEW p \in Ends, Reads(p), UNCHANGED to_write,
         NEW a \in Seq(Byte), a = buffer'[p]
  PROVE  \E t \in Seq(Byte), w \in Seq(Byte) :
           /\ t = stream'[Other(p)] /\ w = to_write'[Other(p)]
           /\ InFlight(p) = (a \o t) \o w
<1>1. PICK r \in Seq(Byte) : r = buffer[p] /\ Reading(p) = r
  BY ReadsFacts DEF Reading
<1>2. PICK s \in Seq(Byte) : s = stream[Other(p)] /\ s # << >>
  BY ReadsFacts
<1>3. PICK w \in Seq(Byte) : w = to_write[Other(p)]
  BY EndsFacts DEF Base, Typed
<1>4. Tail(s) \in Seq(Byte) /\ Head(s) \in Byte
  BY <1>2, HeadTaken
<1>5. a = Append(r, Head(s)) /\ stream'[Other(p)] = Tail(s)
  <2>1. /\ Other(p) \in Ends
        /\ stream' = [stream EXCEPT ![Other(p)] = Tail(s)] /\ buffer' = [buffer EXCEPT ![p] = Append(r, Head(s))]
    BY <1>1, <1>2, ReadsFacts
  <2> QED BY <2>1 DEF Base, Typed
<1>6. a \o Tail(s) = r \o s
  BY <1>2, <1>5, ByteMoved
<1>7. InFlight(p) = (a \o Tail(s)) \o w
  BY <1>1, <1>2, <1>3, <1>6 DEF InFlight
<1> QED BY <1>3, <1>4, <1>5, <1>7

\* The front of two sequences put together.
LEMMA FrontKept ==
  ASSUME NEW S, NEW a \in Seq(S), NEW b \in Seq(S)
  PROVE  /\ a \o b \in Seq(S) /\ Len(a) \in Nat /\ Len(a) <= Len(a \o b)
         /\ \A m \in 1 .. Len(a) : (a \o b)[m] = a[m]
<1>1. PICK l \in Nat : l = Len(a)
  BY LenProperties
<1>2. PICK n \in Nat : n = Len(b)
  BY LenProperties
<1>3. /\ a \o b \in Seq(S) /\ Len(a \o b) = l + n
      /\ \A m \in 1 .. l + n : (a \o b)[m] = IF m <= l THEN a[m] ELSE b[m - l]
  BY <1>1, <1>2, ConcatProperties
<1>4. \A m \in 1 .. l : m \in 1 .. l + n /\ m <= l
  OBVIOUS
<1> QED BY <1>1, <1>2, <1>3, <1>4

\* The bytes that a receive has taken are the first of the next frame.
LEMMA TakenOfFrame ==
  ASSUME NEW frames \in Seq(Sealed), NEW a \in Seq(Byte), NEW b \in Seq(Byte), NEW got \in Nat,
         InPieces(frames, got, a \o b), a # << >>
  PROVE  /\ got < Len(frames) /\ frames[got + 1] \in Sealed /\ frames[got + 1] \in Range(frames)
         /\ \A m \in 1 .. Len(a) : m <= Length(frames[got + 1]) => a[m] = Bytes(frames[got + 1])[m]
<1>1. /\ a \o b \in Seq(Byte) /\ Len(a) \in Nat /\ Len(a) <= Len(a \o b)
      /\ \A m \in 1 .. Len(a) : (a \o b)[m] = a[m]
  BY FrontKept
<1>2. a \o b # << >>
  <2>1. Len(a) # 0
    BY EmptySeq
  <2>2. PICK l \in Nat : l = Len(a)
    BY <1>1
  <2>3. PICK n \in Nat : n = Len(a \o b)
    BY <1>1, LenProperties
  <2>4. n # 0
    BY <1>1, <2>1, <2>2, <2>3
  <2> QED BY <1>1, <2>3, <2>4, EmptySeq
<1>3. PICK all \in Seq(Byte) : all = a \o b
  BY <1>1
<1>4. /\ got < Len(frames) /\ frames[got + 1] \in Sealed
      /\ \A m \in 1 .. Length(frames[got + 1]) : all[m] = Bytes(frames[got + 1])[m]
  BY <1>2, <1>3, FirstPiece
<1>5. PICK l \in Nat : l = Length(frames[got + 1])
  BY <1>4, BytesFacts
<1>6. frames[got + 1] \in Range(frames)
  <2>1. Len(frames) \in Nat /\ DOMAIN frames = 1 .. Len(frames)
    BY LenProperties
  <2>2. got + 1 \in DOMAIN frames
    BY <2>1, <1>4
  <2> QED BY <2>2 DEF Range
<1>7. ASSUME NEW m \in 1 .. Len(a), m <= l PROVE a[m] = Bytes(frames[got + 1])[m]
  <2>1. m \in 1 .. l
    BY <1>1, <1>7
  <2> QED BY <2>1, <1>1, <1>3, <1>4, <1>5
<1> QED BY <1>4, <1>5, <1>6, <1>7

LEMMA ReadHeaderAligned == \A p \in Ends : Base /\ Aligned /\ ReadHeader(p) => Aligned'
<1> SUFFICES ASSUME NEW q \in Ends, Base, Aligned, ReadHeader(q), NEW p \in Ends PROVE AlignedAt(p)'
  BY DEF Aligned
<1>1. /\ Reads(q) /\ Len(buffer[q]) < HeaderBytes
      /\ UNCHANGED <<counters, to_write, sealed, completed, delivered, cancelled>>
  BY DEF ReadHeader
<1>2. /\ doing[q] = "recv"
      /\ stream' = [stream EXCEPT ![Other(q)] = Tail(stream[Other(q)])]
      /\ buffer' = [buffer EXCEPT ![q] = Append(buffer[q], Head(stream[Other(q)]))]
      /\ buffer' \in [Ends -> Seq(Byte)] /\ Len(buffer[q]) \in Nat /\ Len(buffer'[q]) = Len(buffer[q]) + 1
  BY <1>1, ReadsFacts
<1>3. /\ Other(p) \in Ends /\ Other(p) # p /\ (p = q \/ Other(p) = q) /\ AlignedAt(p)
      /\ (Whole(p)' => Whole(p)) /\ Other(Other(p)) = p
  BY <1>1, EndsFacts DEF Aligned, Whole, Misfit
<1>4. CASE p # q
  <2>1. /\ doing'[p] = doing[p] /\ buffer'[p] = buffer[p] /\ total_len'[p] = total_len[p]
        /\ failed'[p] = failed[p]
    BY <1>2, <1>4 DEF ReadHeader, Fails, Becomes, Base, Typed
  <2>2. stream'[Other(p)] = stream[Other(p)]
    BY <1>2, <1>3, <1>4 DEF Base, Typed
  <2>3. Reading(p)' = Reading(p)
    BY <2>1 DEF Reading
  <2> QED BY <1>1, <1>3, <2>1, <2>2, <2>3, Untouched
<1>5. CASE p = q
  <2>1. PICK a \in Seq(Byte) : a = buffer'[p]
    BY <1>2
  <2>2. PICK t \in Seq(Byte), w \in Seq(Byte) :
          /\ t = stream'[Other(p)] /\ w = to_write'[Other(p)] /\ InFlight(p) = (a \o t) \o w
    BY <1>1, <1>5, <2>1, ReadsFlight
  <2>3. doing'[p] = "recv" => InFlight(p)' = InFlight(p)
    BY <2>1, <2>2 DEF InFlight, Reading
  <2>4. CASE Len(buffer[p]) + 1 < HeaderBytes /\ UNCHANGED <<doing, total_len, failed>>
    <3>1. ReadsNext(p)'
      BY <1>2, <1>5, <2>4 DEF ReadsNext, HeaderBytes
    <3> QED BY <1>1, <1>2, <1>3, <1>5, <2>3, <2>4, <3>1 DEF AlignedAt
  <2>5. CASE Len(buffer[p]) + 1 = HeaderBytes
    <3> SUFFICES ASSUME Whole(p)
                 PROVE  /\ ~failed'[p]
                        /\ InPieces(sealed'[Other(p)], Len(delivered'[p]), InFlight(p)')
                        /\ ReadsNext(p)'
      BY <1>3 DEF AlignedAt
    <3>1. PICK frames \in Seq(Sealed) : frames = sealed[Other(p)]
      BY <1>3 DEF Base, Typed
    <3>2. PICK got \in Nat : got = Len(delivered[p])
      BY LenProperties DEF Base, Typed
    <3>3. PICK b \in Seq(Byte) : b = t \o w
      BY ConcatProperties
    <3>4. ~failed[p] /\ InFlight(p) = a \o b /\ InPieces(frames, got, a \o b)
      <4>1. (a \o t) \o w = a \o (t \o w)
        BY BytesAssociative, SMTT(40)
      <4> QED BY <1>3, <2>2, <3>1, <3>2, <3>3, <4>1 DEF AlignedAt
    <3>5. Len(a) = 2 /\ a # << >>
      BY <1>2, <1>5, <2>1, <2>5, EmptySeq DEF HeaderBytes
    <3>6. /\ got < Len(frames) /\ frames[got + 1] \in Sealed /\ frames[got + 1] \in Range(frames)
          /\ \A m \in 1 .. 2 : m <= Length(frames[got + 1]) => a[m] = Bytes(frames[got + 1])[m]
      <4>1. InPieces(frames, got, a \o b) /\ a # << >>
        BY <3>4, <3>5
      <4>2. /\ got < Len(frames) /\ frames[got + 1] \in Sealed /\ frames[got + 1] \in Range(frames)
            /\ \A m \in 1 .. Len(a) : m <= Length(frames[got + 1]) => a[m] = Bytes(frames[got + 1])[m]
        BY <4>1, TakenOfFrame
      <4> QED BY <4>2, <3>5
    <3>7. PICK frame \in Sealed : frame = frames[got + 1]
      BY <3>6
    <3>8. PICK size \in Nat : size = frame.data.size
      BY SizeFacts
    <3>9. /\ size \in 0 .. LenWord - 1 /\ size % LenWord = size /\ size >= TagLen /\ size >= 1
      <4>1. ~(frame.data.size >= LenWord)
        BY <3>1, <3>6, <3>7 DEF Whole, Misfit
      <4>2. LenWord \in Nat
        BY SecureStreamAssumption
      <4>3. size < LenWord
        BY <3>8, <4>1, <4>2
      <4>4. size >= TagLen /\ size >= 1 /\ (size < LenWord => size % LenWord = size)
        BY <3>8, SizeFacts
      <4> QED BY <4>2, <4>3, <4>4
    <3>10. a = Header(size)
      <4>1. \A m \in 1 .. 2 : a[m] = Bytes(frame)[m]
        <5>1. Length(frame) > 2 /\ Length(frame) \in Nat
          BY BytesFacts DEF HeaderBytes
        <5>2. \A m \in 1 .. 2 : m <= Length(frame)
          BY <5>1
        <5> QED BY <3>6, <3>7, <5>2
      <4>2. \A m \in 1 .. 2 : Bytes(frame)[m] = Header(size)[m]
        BY <3>8, <3>9, BytesFacts
      <4>3. Header(size) \in Seq(Byte) /\ Len(Header(size)) = 2
        BY HeaderFacts
      <4>4. \A m \in 1 .. 2 : a[m] = Header(size)[m]
        BY <4>1, <4>2
      <4> QED BY <3>5, <4>3, <4>4, SeqEqual
    <3>11. Lengths(buffer'[p]) = {size}
      BY <2>1, <3>9, <3>10, HeaderSays
    <3>12. /\ UNCHANGED <<doing, failed>> /\ total_len' = [total_len EXCEPT ![p] = size]
      <4>1. ~(size < TagLen)
        BY <3>9, SecureStreamAssumption
      <4>2. ~(Len(buffer[p]) + 1 < HeaderBytes)
        BY <1>2, <1>5, <2>5
      <4> QED BY <1>5, <3>11, <4>1, <4>2 DEF ReadHeader
    <3>13. total_len'[p] = size /\ doing'[p] = "recv"
      BY <1>2, <1>5, <3>12 DEF Base, Typed
    <3>14. ReadsNext(p)'
      BY <1>1, <2>1, <3>1, <3>2, <3>5, <3>6, <3>7, <3>8, <3>9, <3>13, SMTT(30) DEF ReadsNext, NextFrame, HeaderBytes
    <3> QED BY <1>1, <2>3, <3>1, <3>2, <3>4, <3>12, <3>13, <3>14
  <2> QED BY <1>5, <2>4, <2>5 DEF ReadHeader
<1> QED BY <1>4, <1>5

LEMMA ReadBodyAligned ==
  \A p \in Ends : Base /\ Numbered /\ Aligned /\ ReadBody(p) => Aligned'
<1> SUFFICES ASSUME NEW q \in Ends, Base, Numbered, Aligned, ReadBody(q), NEW p \in Ends
             PROVE  AlignedAt(p)'
  BY DEF Aligned
<1>1. /\ Reads(q) /\ Len(buffer[q]) >= HeaderBytes
      /\ UNCHANGED <<send_counter, to_write, total_len, sealed, completed, cancelled>>
  BY DEF ReadBody
<1>2. /\ doing[q] = "recv"
      /\ stream' = [stream EXCEPT ![Other(q)] = Tail(stream[Other(q)])]
      /\ buffer' = [buffer EXCEPT ![q] = Append(buffer[q], Head(stream[Other(q)]))]
      /\ buffer' \in [Ends -> Seq(Byte)] /\ Len(buffer[q]) \in Nat /\ Len(buffer'[q]) = Len(buffer[q]) + 1
  BY <1>1, ReadsFacts
<1>3. /\ Other(p) \in Ends /\ Other(p) # p /\ (p = q \/ Other(p) = q) /\ AlignedAt(p)
      /\ (Whole(p)' => Whole(p)) /\ Other(Other(p)) = p
  BY <1>1, EndsFacts DEF Aligned, Whole, Misfit
<1>4. CASE p # q
  <2>1. /\ doing'[p] = doing[p] /\ buffer'[p] = buffer[p] /\ delivered'[p] = delivered[p]
        /\ failed'[p] = failed[p]
    BY <1>2, <1>4 DEF ReadBody, Fails, Becomes, Base, Typed
  <2>2. stream'[Other(p)] = stream[Other(p)]
    BY <1>2, <1>3, <1>4 DEF Base, Typed
  <2>3. Reading(p)' = Reading(p)
    BY <2>1 DEF Reading
  <2> QED BY <1>1, <1>3, <2>1, <2>2, <2>3, Untouched
<1>5. CASE p = q
  <2> SUFFICES ASSUME Whole(p)
               PROVE  /\ ~failed'[p]
                      /\ InPieces(sealed'[Other(p)], Len(delivered'[p]), InFlight(p)')
                      /\ ReadsNext(p)'
    BY <1>3 DEF AlignedAt
  <2>1. PICK a \in Seq(Byte) : a = buffer'[p]
    BY <1>2
  <2>2. PICK t \in Seq(Byte), w \in Seq(Byte) :
          /\ t = stream'[Other(p)] /\ w = to_write'[Other(p)] /\ InFlight(p) = (a \o t) \o w
    BY <1>1, <1>5, <2>1, ReadsFlight
  <2>3. PICK frames \in Seq(Sealed) : frames = sealed[Other(p)]
    BY <1>3 DEF Base, Typed
  <2>4. PICK got \in Nat : got = Len(delivered[p])
    BY LenProperties DEF Base, Typed
  <2>5. PICK b \in Seq(Byte) : b = t \o w
    BY ConcatProperties
  <2>6. ~failed[p] /\ InFlight(p) = a \o b /\ InPieces(frames, got, a \o b) /\ ReadsNext(p)
    <3>1. (a \o t) \o w = a \o (t \o w)
      BY BytesAssociative, SMTT(40)
    <3> QED BY <1>3, <2>2, <2>3, <2>4, <2>5, <3>1 DEF AlignedAt
  <2>7. PICK l \in Nat : l = Len(buffer[p])
    BY <1>2, <1>5
  <2>8. Len(a) = l + 1 /\ l >= 2 /\ a # << >> /\ HeaderBytes = 2
    <3>1. Len(a) = l + 1 /\ l >= 2
      BY <1>1, <1>2, <1>5, <2>1, <2>7 DEF HeaderBytes
    <3>2. Len(a) # 0
      BY <3>1
    <3> QED BY <3>1, <3>2, EmptySeq DEF HeaderBytes
  <2>9. /\ got < Len(frames) /\ frames[got + 1] \in Sealed /\ frames[got + 1] \in Range(frames)
        /\ \A m \in 1 .. Len(a) : m <= Length(frames[got + 1]) => a[m] = Bytes(frames[got + 1])[m]
    BY <2>6, <2>8, TakenOfFrame
  <2>10. PICK frame \in Sealed : frame = frames[got + 1]
    BY <2>9
  <2>11. PICK size \in Nat : size = frame.data.size
    BY SizeFacts
  <2>12. total_len[p] = size /\ Length(frame) = 2 + size
    BY <1>1, <1>2, <1>5, <2>3, <2>4, <2>6, <2>10, <2>11 DEF ReadsNext, NextFrame, Length, HeaderBytes
  <2>13. CASE l + 1 < 2 + size
    <3>1. UNCHANGED <<doing, delivered, failed>>
      <4>1. Len(buffer[p]) + 1 # HeaderBytes + total_len[p]
        BY <2>7, <2>8, <2>12, <2>13
      <4> QED BY <1>5, <4>1 DEF ReadBody
    <3>2. InFlight(p)' = InFlight(p)
      BY <1>2, <1>5, <2>1, <2>2, <3>1 DEF InFlight, Reading
    <3>3. ReadsNext(p)'
      BY <1>1, <2>1, <2>3, <2>4, <2>6, <2>8, <2>9, <2>10, <2>11, <2>12, <2>13, <3>1
      DEF ReadsNext, NextFrame
    <3> QED BY <1>1, <2>3, <2>4, <2>6, <3>1, <3>2, <3>3
  <2>14. CASE l + 1 = 2 + size
    <3>1. a = Bytes(frame)
      <4>1. Bytes(frame) \in Seq(Byte) /\ Len(Bytes(frame)) = l + 1
        BY <2>12, <2>14, BytesFacts
      <4>2. \A m \in 1 .. l + 1 : m <= Length(frame)
        BY <2>12, <2>14
      <4>3. \A m \in 1 .. l + 1 : a[m] = Bytes(frame)[m]
        BY <2>8, <2>9, <2>10, <4>2
      <4> QED BY <2>8, <4>1, <4>3, SeqEqual
    <3>2. frame \in Opened(p, buffer'[p])
      <4>1. "send" \notin Range(cancelled[Other(p)])
        BY DEF Whole
      <4>2. got + 1 \in 1 .. Len(frames) /\ (got + 1) - 1 = got
        BY <2>9, LenProperties
      <4>3. frame.nonce = Nonce(Other(p), got)
        BY <1>3, <2>3, <2>10, <4>1, <4>2 DEF Numbered
      <4>4. recv_counter[p] = got
        BY <2>4 DEF Base, Counted
      <4> QED BY <2>1, <2>3, <2>9, <2>10, <3>1, <4>3, <4>4 DEF Opened
    <3>3. /\ Becomes(p, "nothing") /\ UNCHANGED failed
          /\ \E f \in Opened(p, buffer'[p]) : delivered' = [delivered EXCEPT ![p] = Append(@, f.data)]
      <4>1. Opened(p, buffer'[p]) # {}
        BY <3>2
      <4>2. ~(Len(buffer[p]) + 1 < HeaderBytes + total_len[p])
        BY <2>7, <2>8, <2>12, <2>14
      <4> QED BY <1>5, <4>1, <4>2 DEF ReadBody
    <3>4. Len(delivered'[p]) = got + 1
      <4>1. PICK f \in Opened(p, buffer'[p]) : delivered' = [delivered EXCEPT ![p] = Append(@, f.data)]
        BY <3>3
      <4>2. f.data \in Data
        BY OpenedFacts DEF Base
      <4>3. delivered[p] \in Seq(Data) /\ delivered'[p] = Append(delivered[p], f.data)
        BY <4>1 DEF Base, Typed
      <4> QED BY <2>4, <4>2, <4>3, OneAppended
    <3>5. doing'[p] = "nothing"
      BY <3>3 DEF Becomes, Base, Typed
    <3>6. InFlight(p)' = b
      <4>1. << >> \o t = t
        BY ConcatEmptySeq
      <4>2. InFlight(p)' = (<< >> \o t) \o w
        BY <2>2, <3>5 DEF InFlight, Reading
      <4> QED BY <2>5, <4>1, <4>2
    <3>7. InPieces(frames, got + 1, b)
      <4>1. Len(a) = Length(frames[got + 1])
        BY <2>8, <2>10, <2>12, <2>14
      <4> QED BY <2>6, <2>9, <4>1, PieceTaken
    <3>8. ReadsNext(p)'
      BY <3>5 DEF ReadsNext
    <3> QED BY <1>1, <2>3, <2>6, <3>3, <3>4, <3>6, <3>7, <3>8
  <2>15. l + 1 < 2 + size \/ l + 1 = 2 + size
    BY <1>5, <2>7, <2>8, <2>12 DEF ReadBody
  <2> QED BY <2>13, <2>14, <2>15
<1> QED BY <1>4, <1>5

LEMMA CancelAligned == \A p \in Ends : Base /\ Aligned /\ Cancel(p) => Aligned'
<1> SUFFICES ASSUME NEW q \in Ends, Base, Aligned, Cancel(q), NEW p \in Ends PROVE AlignedAt(p)'
  BY DEF Aligned
<1>1. /\ doing[q] \in {"send", "recv"} /\ doing' = [doing EXCEPT ![q] = "nothing"]
      /\ cancelled' = [cancelled EXCEPT ![q] = Append(cancelled[q], doing[q])]
      /\ to_write' = [to_write EXCEPT ![q] = << >>]
      /\ UNCHANGED <<stream, buffer, total_len, sealed, delivered, failed>>
  BY DEF Cancel, Becomes, Base, Typed
<1>2. Range(Append(cancelled[q], doing[q])) = Range(cancelled[q]) \cup {doing[q]}
  <2>1. cancelled[q] \in Seq({"send", "recv"})
    BY DEF Base, Typed
  <2> QED BY <1>1, <2>1, OneAppended
<1>3. /\ Range(cancelled'[q]) = Range(cancelled[q]) \cup {doing[q]} /\ doing'[q] = "nothing"
      /\ to_write'[q] = << >>
      /\ \A x \in Ends : x # q => /\ cancelled'[x] = cancelled[x] /\ doing'[x] = doing[x]
                                  /\ to_write'[x] = to_write[x]
  BY <1>1, <1>2 DEF Base, Typed
<1>4. /\ Other(p) \in Ends /\ Other(p) # p /\ (p = q \/ Other(p) = q) /\ AlignedAt(p)
  BY EndsFacts DEF Aligned
<1>5. \A x \in Ends : Range(cancelled[x]) \subseteq Range(cancelled'[x])
  BY <1>3
<1>6. Whole(p)' => Whole(p)
  BY <1>1, <1>4, <1>5 DEF Whole, Misfit
<1>7. CASE (p = q /\ doing[q] = "recv") \/ (Other(p) = q /\ doing[q] = "send")
  <2>1. ~Whole(p)'
    BY <1>3, <1>7 DEF Whole
  <2> QED BY <2>1 DEF AlignedAt
<1>8. CASE p = q /\ doing[q] = "send"
  <2>1. Reading(p)' = Reading(p) /\ doing'[p] # "recv" /\ to_write'[Other(p)] = to_write[Other(p)]
    BY <1>3, <1>4, <1>8 DEF Reading
  <2> QED BY <1>1, <1>4, <1>6, <2>1, Untouched
<1>9. CASE Other(p) = q /\ doing[q] = "recv"
  <2>1. doing'[p] = doing[p] /\ to_write[q] = << >> /\ to_write'[q] = << >>
    BY <1>3, <1>4, <1>9 DEF Base, Counted
  <2>2. Reading(p)' = Reading(p)
    BY <1>1, <2>1 DEF Reading
  <2>3. /\ to_write'[Other(p)] = to_write[Other(p)] /\ stream'[Other(p)] = stream[Other(p)]
        /\ sealed'[Other(p)] = sealed[Other(p)] /\ buffer'[p] = buffer[p]
        /\ failed'[p] = failed[p] /\ delivered'[p] = delivered[p] /\ total_len'[p] = total_len[p]
    BY <1>1, <1>9, <2>1
  <2>4. doing'[p] = "recv" => doing[p] = "recv" /\ buffer'[p] = buffer[p]
    BY <2>1, <2>3
  <2>5. AlignedAt(p) /\ (Whole(p)' => Whole(p))
    BY <1>4, <1>6
  <2> QED BY <2>2, <2>3, <2>4, <2>5, Untouched
<1>10. /\ p = q \/ Other(p) = q
       /\ doing[q] = "send" \/ doing[q] = "recv"
  BY <1>1, <1>4
<1> QED BY <1>7, <1>8, <1>9, <1>10, Zenon

LEMMA NextAligned == Base /\ Numbered /\ Aligned /\ [Next]_vars => Aligned'
<1> SUFFICES ASSUME Base, Numbered, Aligned, [Next]_vars PROVE Aligned'
  OBVIOUS
<1>1. CASE UNCHANGED vars
  BY <1>1 DEF vars, counters, history, Aligned, AlignedAt, Whole, Misfit, InFlight, Reading, ReadsNext, NextFrame
<1> QED BY <1>1, SendAligned, WriteByteAligned, RecvAligned, ReadHeaderAligned, ReadBodyAligned,
           CancelAligned DEF Next, Progress

\* A receive fails only in a direction where a future was dropped, or where a
\* message came whose length the header cannot hold: frames that are read whole
\* are cut where they were put together and open under the counter that numbers
\* them (secure_stream.rs:41-91).
THEOREM FailuresExplained == Spec => []FailsOnlyIfTorn
<1>1. Init => Numbered /\ Aligned
  BY InitNumbered, InitAligned
<1>2. DeliveryInv /\ Numbered /\ Aligned /\ [Next]_vars => Numbered' /\ Aligned'
  BY NextNumbered, NextAligned DEF DeliveryInv
<1>3. Aligned => FailsOnlyIfTorn
  BY DEF Aligned, AlignedAt, Whole, FailsOnlyIfTorn
<1> QED BY <1>1, <1>2, <1>3, DeliveryInvariance, PTL DEF Spec

=============================================================================
