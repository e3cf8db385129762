--------------------------- MODULE FramingProofs ---------------------------
(***************************************************************************)
(* Proofs about Framing, for any number of goroutines, scripts, message      *)
(* sizes and limits, any prefix size and any capacity of rpcCh.              *)
(***************************************************************************)
EXTENDS Framing, TLAPS, SequenceTheorems

-----------------------------------------------------------------------------
(* The inductive invariant *)

(* One call of conn.Write: the length prefix of a message, or its text. *)
Writes == {"len", "json"} \X Messages

Bytes == {"len", "json"} \X Messages \X (Nat \ {0})

WriteSize(k) == IF k[1] = "len" THEN PrefixSize ELSE Size[k[2]]

WriteBytes(k) == [j \in 1..WriteSize(k) |-> <<k[1], k[2], j>>]

(* The bytes s are those of the writes q, each in one piece; o[i] is where      *)
(* write i ends.  When the connection is cut the end of s may be missing.      *)
Layout(s, q, o) ==
    /\ q \in Seq(Writes)
    /\ o \in [0..Len(q) -> Nat] /\ o[0] = 0
    /\ \A i \in 1..Len(q) : o[i] = o[i-1] + WriteSize(q[i])
    /\ \A i, j \in 0..Len(q) : i <= j => o[i] <= o[j]
    /\ Len(s) <= o[Len(q)]
    /\ \A i \in 1..Len(q) : \A j \in 1..WriteSize(q[i]) :
         o[i-1] + j <= Len(s) => s[o[i-1] + j] = <<q[i][1], q[i][2], j>>

(* A prefix is followed by the text it announces, a text by a prefix. *)
Follows(a, b) == IF a[1] = "len" THEN b = <<"json", a[2]>> ELSE b[1] = "len"

(* The first c writes are what Decode expects to find. *)
Clean(q, c) ==
    /\ c \in 0..Len(q)
    /\ \A i \in 1..c-1 : Follows(q[i], q[i+1])
    /\ c > 0 => IF reading = "payload" THEN q[1][1] = "json" /\ Size[q[1][2]] = length
                ELSE q[1][1] = "len"

(* After the first c writes Decode expects a text. *)
AfterPrefix(q, c) == IF c = 0 THEN reading = "payload" ELSE q[c][1] = "len"

(* The first c writes are clean and that is all there is, or a prefix comes     *)
(* where a text is expected: this is where two goroutines have mixed frames.   *)
Parsed(q, c) ==
    /\ Clean(q, c)
    /\ c < Len(q) => q[c+1][1] = "len" /\ AfterPrefix(q, c)
    /\ ~mixed => c = Len(q)
    /\ conn = "open" /\ mixed => c < Len(q)

(* The messages the read loop has decoded. *)
Delivered == consumed \o rpcCh \o holding

IsMessage(k) == k[1] = "json" /\ k[2] \notin Streams

(* g[i] is how many messages there are up to write i: the clean writes hold     *)
(* the messages of framed that come after the ones delivered.                  *)
Numbered(q, c, g) ==
    /\ g \in [0..c -> Nat]
    /\ g[0] = Len(Delivered)
    /\ \A i \in 1..c :
         /\ g[i] = IF IsMessage(q[i]) THEN g[i-1] + 1 ELSE g[i-1]
         /\ IsMessage(q[i]) => g[i] <= Len(framed) /\ framed[g[i]] = q[i][2]
    /\ conn = "open" /\ ~mixed => g[c] = Len(framed)

(* While no frames are mixed, a goroutine is between its two writes exactly     *)
(* when the last write is a prefix, and that prefix is its own.                *)
Pending(q) ==
    conn = "open" /\ ~mixed =>
        /\ \A v, w \in Writers : wpc[v] = "payload" /\ wpc[w] = "payload" => v = w
        /\ AfterPrefix(q, Len(q)) => \E w \in Writers : wpc[w] = "payload"
        /\ \A w \in Writers : wpc[w] = "payload" =>
             /\ AfterPrefix(q, Len(q))
             /\ IF q = <<>> THEN length = Size[Current(w)]
                ELSE q[Len(q)][2] = Current(w)

Shape(q, o, c, g) ==
    /\ Layout(stream, q, o)
    /\ conn = "open" => Len(stream) = o[Len(q)]
    /\ Parsed(q, c)
    /\ Numbered(q, c, g)
    /\ Pending(q)

Shaped == \E q, o, c, g : Shape(q, o, c, g)

(* What has been delivered is the beginning of what was framed. *)
DeliveredFirst ==
    /\ Len(Delivered) <= Len(framed)
    /\ \A i \in 1..Len(Delivered) : Delivered[i] = framed[i]

Control ==
    /\ stream \in Seq(Bytes)
    /\ conn = "open" => reading # "stopped"
    /\ \A w \in Writers : wpc[w] = "payload" => next[w] <= Len(Script[w])
    /\ reading = "payload" => length > 0
    /\ holding # <<>> => reading = "prefix"
    /\ failure = "length" => reading = "stopped"

IInv ==
    /\ TypeOK
    /\ Control
    /\ DecoderReverses
    /\ DeliveredFirst
    /\ reading # "stopped" => Shaped

-----------------------------------------------------------------------------
(* Writes and bytes *)

LEMMA WriteFacts ==
    ASSUME NEW k \in Writes
    PROVE  /\ WriteSize(k) \in Nat /\ WriteSize(k) > 0
           /\ k[1] \in {"len", "json"} /\ k[2] \in Messages /\ k = <<k[1], k[2]>>
           /\ WriteBytes(k) \in Seq(Bytes)
           /\ Len(WriteBytes(k)) = WriteSize(k)
           /\ \A j \in 1..WriteSize(k) : WriteBytes(k)[j] = <<k[1], k[2], j>>
<1>1. k[1] \in {"len", "json"} /\ k[2] \in Messages /\ k = <<k[1], k[2]>>
  BY DEF Writes
<1>2. WriteSize(k) \in Nat /\ WriteSize(k) > 0
  BY <1>1, FramingAssumption DEF WriteSize
<1>3. \A j \in 1..WriteSize(k) : <<k[1], k[2], j>> \in Bytes
  BY <1>1, <1>2 DEF Bytes
<1>4. WriteBytes(k) \in [1..WriteSize(k) -> Bytes]
  BY <1>3 DEF WriteBytes
<1>5. WriteBytes(k) \in Seq(Bytes) /\ Len(WriteBytes(k)) = WriteSize(k)
  BY <1>2, <1>4
<1>6. \A j \in 1..WriteSize(k) : WriteBytes(k)[j] = <<k[1], k[2], j>>
  BY DEF WriteBytes
<1>. QED BY <1>1, <1>2, <1>5, <1>6

LEMMA PrefixIsWrite ==
    ASSUME NEW m \in Messages
    PROVE  <<"len", m>> \in Writes /\ Prefix(m) = WriteBytes(<<"len", m>>)
BY DEF Writes, Prefix, WriteBytes, WriteSize

LEMMA PayloadIsWrite ==
    ASSUME NEW m \in Messages
    PROVE  /\ <<"json", m>> \in Writes /\ Payload(m) = WriteBytes(<<"json", m>>)
           /\ WriteSize(<<"json", m>>) = Size[m]
BY DEF Writes, Payload, WriteBytes, WriteSize

(* The first byte is the first byte of the first write. *)
LEMMA LayoutFirst ==
    ASSUME NEW s \in Seq(Bytes), s # <<>>, NEW q, NEW o, Layout(s, q, o)
    PROVE  /\ Len(q) \in Nat /\ Len(q) > 0 /\ q[1] \in Writes
           /\ o[1] = WriteSize(q[1])
           /\ s[1] = <<q[1][1], q[1][2], 1>>
           /\ \A j \in 1..WriteSize(q[1]) : j <= Len(s) => s[j] = <<q[1][1], q[1][2], j>>
<1>1. Len(s) \in Nat /\ Len(s) > 0
  BY EmptySeq
<1>2. q \in Seq(Writes) /\ Len(q) \in Nat
  BY DEF Layout
<1>3. Len(q) # 0
  BY <1>1 DEF Layout
<1>4. 1 \in 1..Len(q) /\ q[1] \in Writes
  BY <1>2, <1>3, ElementOfSeq
<1>5. WriteSize(q[1]) \in Nat /\ WriteSize(q[1]) > 0
  BY <1>4, WriteFacts
<1>6. o[0] = 0 /\ o[1] = o[1-1] + WriteSize(q[1])
  BY <1>4 DEF Layout
<1>7. o[1] = WriteSize(q[1])
  BY <1>5, <1>6
<1>8. \A j \in 1..WriteSize(q[1]) : o[1-1] + j <= Len(s) => s[o[1-1] + j] = <<q[1][1], q[1][2], j>>
  BY <1>4 DEF Layout
<1>9. \A j \in 1..WriteSize(q[1]) : j <= Len(s) => s[j] = <<q[1][1], q[1][2], j>>
  <2>1. \A j \in 1..WriteSize(q[1]) : o[1-1] + j = j
    BY <1>5, <1>6
  <2>. QED BY <1>8, <2>1
<1>10. 1 \in 1..WriteSize(q[1]) /\ 1 <= Len(s)
  BY <1>1, <1>5
<1>. QED BY <1>2, <1>3, <1>4, <1>7, <1>9, <1>10

(* Cutting the end off leaves a layout. *)
LEMMA LayoutCut ==
    ASSUME NEW s \in Seq(Bytes), NEW q, NEW o, Layout(s, q, o), NEW n \in 0..Len(s)
    PROVE  Layout(SubSeq(s, 1, n), q, o)
<1> DEFINE r == SubSeq(s, 1, n)
<1>1. n \in Nat /\ n <= Len(s) /\ Len(s) \in Nat
  OBVIOUS
<1>2. Len(r) = n /\ \A i \in 1..n : r[i] = s[i]
  BY <1>1
<1> HIDE DEF r
<1>3. q \in Seq(Writes) /\ o \in [0..Len(q) -> Nat] /\ Len(q) \in Nat
  BY DEF Layout
<1>4. Len(r) <= o[Len(q)]
  <2>1. o[Len(q)] \in Nat /\ Len(s) <= o[Len(q)]
    BY <1>3 DEF Layout
  <2>. QED BY <1>1, <1>2, <2>1
<1>5. ASSUME NEW i \in 1..Len(q), NEW j \in 1..WriteSize(q[i]), o[i-1] + j <= Len(r)
      PROVE  r[o[i-1] + j] = <<q[i][1], q[i][2], j>>
  <2>1. q[i] \in Writes /\ i - 1 \in 0..Len(q)
    BY <1>3, ElementOfSeq
  <2>2. WriteSize(q[i]) \in Nat /\ o[i-1] \in Nat
    BY <1>3, <2>1, WriteFacts
  <2>3. o[i-1] + j \in 1..n /\ o[i-1] + j <= Len(s)
    BY <1>1, <1>2, <1>5, <2>2
  <2>4. s[o[i-1] + j] = <<q[i][1], q[i][2], j>>
    BY <2>3 DEF Layout
  <2>. QED BY <1>2, <2>3, <2>4
<1>6. Layout(r, q, o)
  BY <1>4, <1>5 DEF Layout
<1>. QED BY <1>6 DEF r

(* One more write. *)
LEMMA LayoutGrows ==
    ASSUME NEW s \in Seq(Bytes), NEW q, NEW o, Layout(s, q, o), Len(s) = o[Len(q)],
           NEW k \in Writes
    PROVE  \E p : /\ Layout(s \o WriteBytes(k), Append(q, k), p)
                  /\ Len(s \o WriteBytes(k)) = p[Len(Append(q, k))]
<1> DEFINE N == Len(q)
           z == WriteSize(k)
           b == WriteBytes(k)
           r == s \o b
           t == Append(q, k)
           p == [i \in 0..N+1 |-> IF i <= N THEN o[i] ELSE o[N] + z]
<1>1. q \in Seq(Writes) /\ o \in [0..N -> Nat] /\ N \in Nat /\ o[N] \in Nat /\ Len(s) = o[N]
  BY DEF Layout
<1>2. z \in Nat /\ z > 0 /\ b \in Seq(Bytes) /\ Len(b) = z
      /\ \A j \in 1..z : b[j] = <<k[1], k[2], j>>
  BY WriteFacts
<1>3. t \in Seq(Writes) /\ Len(t) = N + 1 /\ t[N+1] = k /\ \A i \in 1..N : t[i] = q[i]
  BY <1>1
<1> HIDE DEF b, t
<1>4. Len(r) = o[N] + z /\ (\A i \in 1..o[N] : r[i] = s[i])
      /\ \A j \in 1..z : r[o[N] + j] = b[j]
  <2>0. /\ Len(r) = Len(s) + Len(b)
        /\ \A i \in 1..Len(s) + Len(b) : r[i] = IF i <= Len(s) THEN s[i] ELSE b[i - Len(s)]
    BY <1>2, ConcatProperties
  <2>1. Len(r) = Len(s) + Len(b) /\ Len(s) \in Nat /\ Len(b) \in Nat
    BY <1>2, <2>0
  <2> HIDE DEF r
  <2>2. \A i \in 1..Len(s) : r[i] = s[i]
    BY <2>0, <2>1
  <2>3. ASSUME NEW j \in 1..Len(b) PROVE r[Len(s) + j] = b[j]
    <3>1. Len(s) + j \in 1..Len(s) + Len(b) /\ ~(Len(s) + j <= Len(s)) /\ (Len(s) + j) - Len(s) = j
      BY <2>1
    <3>. QED BY <2>0, <3>1
  <2>. QED BY <1>1, <1>2, <2>1, <2>2, <2>3
<1>5. p \in [0..N+1 -> Nat] /\ p[N+1] = o[N] + z /\ \A i \in 0..N : p[i] = o[i]
  <2>1. N + 1 \in 0..N+1 /\ ~(N + 1 <= N) /\ \A i \in 0..N : i \in 0..N+1 /\ i <= N
    BY <1>1
  <2>2. \A i \in 0..N+1 : i <= N => i \in 0..N
    BY <1>1
  <2>. QED BY <1>1, <1>2, <2>1, <2>2
<1> HIDE DEF p, r
<1>6. p[0] = 0
  <2>1. o[0] = 0 /\ 0 \in 0..N
    BY <1>1 DEF Layout
  <2>. QED BY <1>5, <2>1
<1>7. ASSUME NEW i \in 1..N+1 PROVE p[i] = p[i-1] + WriteSize(t[i])
  <2>1. CASE i = N + 1
    <3>1. i - 1 = N /\ N \in 0..N
      BY <1>1, <2>1
    <3>. QED BY <1>3, <1>5, <2>1, <3>1
  <2>2. CASE i # N + 1
    <3>1. i \in 1..N /\ i \in 0..N /\ i - 1 \in 0..N
      BY <1>1, <2>2
    <3>2. o[i] = o[i-1] + WriteSize(q[i])
      BY <3>1 DEF Layout
    <3>. QED BY <1>3, <1>5, <3>1, <3>2
  <2>. QED BY <2>1, <2>2
<1>8. ASSUME NEW i \in 0..N+1, NEW j \in 0..N+1, i <= j PROVE p[i] <= p[j]
  <2>1. CASE j \in 0..N
    <3>1. i \in 0..N
      BY <1>1, <1>8, <2>1
    <3>2. o[i] <= o[j]
      BY <1>8, <2>1, <3>1 DEF Layout
    <3>. QED BY <1>5, <2>1, <3>1, <3>2
  <2>2. CASE j = N + 1 /\ i \in 0..N
    <3>1. o[i] <= o[N] /\ o[i] \in Nat
      BY <1>1, <2>2 DEF Layout
    <3>. QED BY <1>1, <1>2, <1>5, <2>2, <3>1
  <2>3. CASE j = N + 1 /\ i = N + 1
    BY <1>5, <2>3
  <2>4. (i \in 0..N \/ i = N + 1) /\ (j \in 0..N \/ j = N + 1)
    BY <1>1
  <2>. QED BY <2>1, <2>2, <2>3, <2>4
<1>9. ASSUME NEW i \in 1..N+1, NEW j \in 1..WriteSize(t[i]), p[i-1] + j <= Len(r)
      PROVE  r[p[i-1] + j] = <<t[i][1], t[i][2], j>>
  <2>1. CASE i = N + 1
    <3>1. i - 1 = N /\ N \in 0..N
      BY <1>1, <2>1
    <3>2. p[i-1] = o[N] /\ t[i] = k /\ j \in 1..z
      BY <1>3, <1>5, <2>1, <3>1
    <3>. QED BY <1>2, <1>4, <3>2
  <2>2. CASE i # N + 1
    <3>1. i \in 1..N /\ i \in 0..N /\ i - 1 \in 0..N
      BY <1>1, <2>2
    <3>2. t[i] = q[i] /\ p[i-1] = o[i-1] /\ q[i] \in Writes
      BY <1>1, <1>3, <1>5, <3>1, ElementOfSeq
    <3>3. o[i-1] \in Nat /\ o[i] \in Nat /\ WriteSize(q[i]) \in Nat /\ j \in 1..WriteSize(q[i])
      BY <1>1, <3>1, <3>2, WriteFacts
    <3>4. o[i] = o[i-1] + WriteSize(q[i]) /\ o[i] <= o[N]
      BY <1>1, <3>1 DEF Layout
    <3>5. o[i-1] + j \in 1..o[N] /\ o[i-1] + j <= Len(s)
      BY <1>1, <3>3, <3>4
    <3>6. s[o[i-1] + j] = <<q[i][1], q[i][2], j>>
      BY <3>1, <3>3, <3>5 DEF Layout
    <3>. QED BY <1>4, <3>2, <3>5, <3>6
  <2>. QED BY <2>1, <2>2
<1>10. Len(r) = p[Len(t)]
  BY <1>3, <1>4, <1>5
<1>11. Len(r) <= p[Len(t)]
  <2>1. Len(r) \in Nat
    BY <1>1, <1>2, <1>4
  <2>. QED BY <1>10, <2>1
<1>12. Layout(r, t, p)
  BY <1>3, <1>5, <1>6, <1>7, <1>8, <1>9, <1>11 DEF Layout
<1>. QED BY <1>10, <1>12 DEF r, t, b

(* The first write is read. *)
LEMMA LayoutShrinks ==
    ASSUME NEW s \in Seq(Bytes), s # <<>>, NEW q, NEW o, Layout(s, q, o),
           WriteSize(q[1]) <= Len(s)
    PROVE  \E p : LET r == SubSeq(s, WriteSize(q[1]) + 1, Len(s)) IN
                  /\ Layout(r, Tail(q), p)
                  /\ Len(s) = o[Len(q)] => Len(r) = p[Len(Tail(q))]
<1> DEFINE N == Len(q)
           z == WriteSize(q[1])
           r == SubSeq(s, z + 1, Len(s))
           t == Tail(q)
           p == [i \in 0..N-1 |-> o[i+1] - z]
<1>1. q \in Seq(Writes) /\ o \in [0..N -> Nat] /\ N \in Nat /\ N > 0 /\ q[1] \in Writes /\ o[1] = z
  <2>1. Len(q) \in Nat /\ Len(q) > 0 /\ q[1] \in Writes /\ o[1] = WriteSize(q[1])
    BY LayoutFirst
  <2>2. q \in Seq(Writes) /\ o \in [0..Len(q) -> Nat]
    BY DEF Layout
  <2>. QED BY <2>1, <2>2
<1>2. z \in Nat /\ z > 0 /\ z <= Len(s) /\ Len(s) \in Nat
  BY <1>1, WriteFacts
<1>3. t \in Seq(Writes) /\ Len(t) = N - 1 /\ \A i \in 1..N-1 : t[i] = q[i+1]
  <2>1. q # <<>>
    BY <1>1
  <2>. QED BY <1>1, <2>1, HeadTailProperties
<1> HIDE DEF t, z
<1>4. Len(r) = Len(s) - z /\ \A x \in 1..Len(s) - z : r[x] = s[x + z]
  BY <1>2
<1>5. \A i \in 0..N-1 : /\ i + 1 \in 0..N /\ i + 1 \in 1..N /\ (i + 1) - 1 = i
                        /\ o[i+1] \in Nat /\ z <= o[i+1] /\ p[i] = o[i+1] - z /\ p[i] \in Nat
  <2> SUFFICES ASSUME NEW i \in 0..N-1
               PROVE  /\ i + 1 \in 0..N /\ i + 1 \in 1..N /\ (i + 1) - 1 = i
                      /\ o[i+1] \in Nat /\ z <= o[i+1] /\ p[i] = o[i+1] - z /\ p[i] \in Nat
    OBVIOUS
  <2>1. i + 1 \in 0..N /\ i + 1 \in 1..N /\ (i + 1) - 1 = i /\ 1 \in 0..N /\ 1 <= i + 1
    BY <1>1
  <2>2. o[i+1] \in Nat /\ o[1] <= o[i+1]
    BY <1>1, <2>1 DEF Layout
  <2>. QED BY <1>1, <1>2, <2>1, <2>2
<1>6. p \in [0..N-1 -> Nat]
  BY <1>5
<1> HIDE DEF p, r
<1>7. p[0] = 0
  <2>1. 0 \in 0..N-1 /\ 0 + 1 = 1
    BY <1>1
  <2>2. p[0] = o[0+1] - z
    BY <1>5, <2>1
  <2>. QED BY <1>1, <1>2, <2>1, <2>2
<1>8. ASSUME NEW i \in 1..N-1 PROVE p[i] = p[i-1] + WriteSize(t[i])
  <2>1. i \in 0..N-1 /\ i - 1 \in 0..N-1 /\ (i - 1) + 1 = i /\ i + 1 \in 1..N /\ (i + 1) - 1 = i
    BY <1>1
  <2>2. o[i+1] = o[(i+1)-1] + WriteSize(q[i+1]) /\ q[i+1] \in Writes
    BY <1>1, <2>1, ElementOfSeq DEF Layout
  <2>3. p[i] = o[i+1] - z /\ p[i-1] = o[i] - z /\ t[i] = q[i+1] /\ o[i] \in Nat /\ o[i+1] \in Nat
    BY <1>3, <1>5, <2>1
  <2>4. WriteSize(q[i+1]) \in Nat
    BY <2>2, WriteFacts
  <2>. QED BY <1>2, <2>1, <2>2, <2>3, <2>4
<1>9. ASSUME NEW i \in 0..N-1, NEW j \in 0..N-1, i <= j PROVE p[i] <= p[j]
  <2>1. i + 1 \in 0..N /\ j + 1 \in 0..N /\ i + 1 <= j + 1
    BY <1>1, <1>9
  <2>2. o[i+1] <= o[j+1]
    BY <2>1 DEF Layout
  <2>3. p[i] = o[i+1] - z /\ p[j] = o[j+1] - z /\ o[i+1] \in Nat /\ o[j+1] \in Nat
    BY <1>5
  <2>. QED BY <1>2, <2>2, <2>3
<1>10. N - 1 \in 0..N-1 /\ (N - 1) + 1 = N
  BY <1>1
<1>11. p[N-1] = o[N] - z /\ o[N] \in Nat
  BY <1>5, <1>10
<1>12. Len(r) <= p[Len(t)]
  <2>1. Len(s) <= o[N]
    BY DEF Layout
  <2>. QED BY <1>2, <1>3, <1>4, <1>11, <2>1
<1>13. ASSUME NEW i \in 1..N-1, NEW j \in 1..WriteSize(t[i]), p[i-1] + j <= Len(r)
       PROVE  r[p[i-1] + j] = <<t[i][1], t[i][2], j>>
  <2>1. i - 1 \in 0..N-1 /\ (i - 1) + 1 = i /\ i + 1 \in 1..N /\ (i + 1) - 1 = i
    BY <1>1
  <2>2. t[i] = q[i+1] /\ q[i+1] \in Writes
    BY <1>1, <1>3, <2>1, ElementOfSeq
  <2>3. p[i-1] = o[i] - z /\ o[i] \in Nat /\ p[i-1] \in Nat
    BY <1>5, <2>1
  <2>4. WriteSize(q[i+1]) \in Nat /\ j \in 1..WriteSize(q[i+1])
    BY <2>2, WriteFacts
  <2>5. o[i] + j <= Len(s) /\ p[i-1] + j \in 1..Len(s) - z /\ (p[i-1] + j) + z = o[i] + j
    <3> DEFINE a == o[i]
               b == p[i-1]
               l == Len(s)
    <3>1. b = a - z /\ a \in Nat /\ b \in Nat /\ z \in Nat /\ l \in Nat /\ j \in Nat /\ j >= 1 /\ b + j <= l - z
      BY <1>2, <1>4, <1>13, <2>3, <2>4
    <3> HIDE DEF a, b, l
    <3>2. a + j <= l /\ b + j \in 1..l - z /\ (b + j) + z = a + j
      BY <3>1
    <3>. QED BY <3>2 DEF a, b, l
  <2>6. o[(i+1)-1] + j <= Len(s) => s[o[(i+1)-1] + j] = <<q[i+1][1], q[i+1][2], j>>
    BY <2>1, <2>4 DEF Layout
  <2>7. s[o[i] + j] = <<q[i+1][1], q[i+1][2], j>>
    BY <2>1, <2>5, <2>6
  <2>. QED BY <1>4, <2>2, <2>5, <2>7
<1>14. Layout(r, t, p)
  BY <1>3, <1>6, <1>7, <1>8, <1>9, <1>12, <1>13 DEF Layout
<1>15. Len(s) = o[N] => Len(r) = p[Len(t)]
  BY <1>3, <1>4, <1>11
<1>. QED BY <1>14, <1>15 DEF r, t, z

-----------------------------------------------------------------------------
(* Types and control *)

LEMMA CurrentType ==
    ASSUME TypeOK, NEW w \in Writers, next[w] <= Len(Script[w])
    PROVE  Current(w) \in Messages
<1>1. Script[w] \in Seq(Messages) /\ next[w] \in Nat \ {0}
  BY FramingAssumption DEF TypeOK
<1>2. next[w] \in 1..Len(Script[w])
  BY <1>1
<1>. QED BY <1>1, <1>2, ElementOfSeq DEF Current

LEMMA FramedFacts ==
    ASSUME TypeOK, NEW m \in Messages
    PROVE  /\ Framed(m) \in Seq(Messages)
           /\ Len(framed) \in Nat /\ Len(Framed(m)) \in Nat
           /\ Len(framed) <= Len(Framed(m))
           /\ \A i \in 1..Len(framed) : Framed(m)[i] = framed[i]
           /\ m \in Streams => Framed(m) = framed
           /\ m \notin Streams => /\ Len(Framed(m)) = Len(framed) + 1
                                  /\ Framed(m)[Len(framed) + 1] = m
<1>1. framed \in Seq(Messages) /\ Len(framed) \in Nat
  BY DEF TypeOK
<1>2. CASE m \in Streams
  BY <1>1, <1>2 DEF Framed
<1>3. CASE m \notin Streams
  BY <1>1, <1>3, AppendProperties DEF Framed
<1>. QED BY <1>2, <1>3

LEMMA HoldingType ==
    ASSUME TypeOK
    PROVE  holding \in Seq(Messages) /\ rpcCh \in Seq(Messages) /\ consumed \in Seq(Messages)
           /\ Delivered \in Seq(Messages) /\ Len(Delivered) \in Nat
<1>1. holding \in Seq(Messages) /\ rpcCh \in Seq(Messages) /\ consumed \in Seq(Messages)
  <2>1. <<>> \in Seq(Messages) /\ \A m \in Messages : <<m>> \in Seq(Messages)
    OBVIOUS
  <2>. QED BY <2>1 DEF TypeOK
<1>2. consumed \o rpcCh \in Seq(Messages)
  BY <1>1, ConcatProperties
<1>3. (consumed \o rpcCh) \o holding \in Seq(Messages)
  BY <1>1, <1>2, ConcatProperties
<1>. QED BY <1>1, <1>3 DEF Delivered

LEMMA StreamElement ==
    ASSUME Control, NEW i \in 1..Len(stream)
    PROVE  stream[i] \in Bytes /\ stream[i][2] \in Messages
BY ElementOfSeq DEF Control, Bytes

LEMMA StreamDrops ==
    ASSUME Control, NEW n \in Nat, n <= Len(stream)
    PROVE  Drop(n) \in Seq(Bytes)
<1>1. stream \in Seq(Bytes) /\ Len(stream) \in Nat
  BY DEF Control
<1>. QED BY <1>1 DEF Drop

(* Types and control are preserved, one lemma for the steps of Encode ... *)
LEMMA BasicWriter ==
    ASSUME TypeOK, Control, NEW w \in Writers, WriterStep(w)
    PROVE  TypeOK' /\ Control'
<1> USE DEF readVars
<1>1. CASE EncodeTooLarge(w)
  BY <1>1, FramingAssumption DEF EncodeTooLarge, EncodeReturns, TypeOK, Control
<1>2. CASE WriteLength(w)
  <2>1. Current(w) \in Messages
    BY <1>2, CurrentType DEF WriteLength
  <2>2. stream' \in Seq(Bytes)
    <3>1. stream \in Seq(Bytes) /\ Prefix(Current(w)) \in Seq(Bytes)
      BY <2>1, PrefixIsWrite, WriteFacts DEF Control
    <3>2. stream' = stream \o Prefix(Current(w))
      BY <1>2 DEF WriteLength
    <3>. QED BY <3>1, <3>2, ConcatProperties
  <2>3. mixed' \in BOOLEAN
    BY <1>2 DEF WriteLength
  <2>4. TypeOK'
    BY <1>2, <2>3 DEF WriteLength, TypeOK
  <2>5. Control'
    BY <1>2, <2>2 DEF WriteLength, Control, TypeOK
  <2>. QED BY <2>4, <2>5
<1>3. CASE WritePayload(w)
  <2>1. Current(w) \in Messages
    BY <1>3, CurrentType DEF WritePayload, Control
  <2>2. stream' \in Seq(Bytes)
    <3>1. stream \in Seq(Bytes) /\ Payload(Current(w)) \in Seq(Bytes)
      BY <2>1, PayloadIsWrite, WriteFacts DEF Control
    <3>2. stream' = stream \o Payload(Current(w))
      BY <1>3 DEF WritePayload
    <3>. QED BY <3>1, <3>2, ConcatProperties
  <2>3. framed' \in Seq(Messages)
    BY <1>3, <2>1, FramedFacts DEF WritePayload
  <2>4. TypeOK'
    BY <1>3, <2>3 DEF WritePayload, EncodeReturns, TypeOK
  <2>5. Control'
    BY <1>3, <2>2 DEF WritePayload, EncodeReturns, Control, TypeOK
  <2>. QED BY <2>4, <2>5
<1>4. CASE WriteLost(w)
  <2>1. Current(w) \in Messages
    BY <1>4, CurrentType DEF WriteLost
  <2>3. framed' \in Seq(Messages)
    BY <1>4, <2>1, FramedFacts DEF WriteLost, TypeOK
  <2>4. TypeOK'
    BY <1>4, <2>3 DEF WriteLost, EncodeReturns, TypeOK
  <2>5. Control'
    BY <1>4 DEF WriteLost, EncodeReturns, Control, TypeOK
  <2>. QED BY <2>4, <2>5
<1>. QED BY <1>1, <1>2, <1>3, <1>4 DEF WriterStep

(* ... one for a return of the read loop ... *)
LEMMA BasicStop ==
    ASSUME TypeOK, Control, NEW why \in {"length", "json", "eof"}, StopReading(why), holding = <<>>
    PROVE  TypeOK' /\ Control'
<1>1. TypeOK'
  BY DEF StopReading, writeVars, TypeOK
<1>2. Control'
  BY DEF StopReading, writeVars, TypeOK, Control
<1>. QED BY <1>1, <1>2

(* ... and one for the other steps. *)
LEMMA BasicReader ==
    ASSUME TypeOK, Control, ReadStep \/ CloseStream \/ Consume \/ Break
    PROVE  TypeOK' /\ Control'
<1> USE DEF readVars, writeVars
<1>0. stream \in Seq(Bytes) /\ Len(stream) \in Nat
  BY DEF Control
<1>1. CASE DecodeLength
  <2> DEFINE n == Size[stream[1][2]]
  <2>1. 1 \in 1..Len(stream) /\ PrefixSize \in Nat /\ PrefixSize <= Len(stream)
    BY <1>0, <1>1, FramingAssumption DEF DecodeLength
  <2>2. n \in Nat /\ n > 0 /\ MaxMessageSize \in Nat
    BY <2>1, StreamElement, FramingAssumption
  <2>3. holding = <<>> /\ reading = "prefix"
    BY <1>1 DEF DecodeLength
  <2>4. CASE ~Accepts(n)
    BY <1>1, <2>3, <2>4, BasicStop DEF DecodeLength
  <2>5. CASE Accepts(n)
    <3>1. /\ reading' = "payload" /\ length' = n /\ stream' = Drop(PrefixSize)
          /\ UNCHANGED <<writeVars, conn, failure, holding, rpcCh, consumed>>
      BY <1>1, <2>5 DEF DecodeLength
    <3>2. stream' \in Seq(Bytes)
      BY <2>1, <3>1, StreamDrops
    <3>3. length' \in 0..MaxMessageSize /\ length' > 0
      BY <2>2, <2>5, <3>1 DEF Accepts
    <3> HIDE DEF n
    <3>4. TypeOK'
      BY <3>1, <3>3 DEF TypeOK
    <3>5. Control'
      BY <2>3, <3>1, <3>2, <3>3 DEF Control
    <3>. QED BY <3>4, <3>5
  <2>. QED BY <2>4, <2>5
<1>2. CASE DecodePayload
  <2> DEFINE bytes == SubSeq(stream, 1, length)
             m == bytes[1][2]
  <2>1. length \in Nat /\ length > 0 /\ length <= Len(stream) /\ holding = <<>> /\ reading = "payload"
    BY <1>0, <1>2, FramingAssumption DEF DecodePayload, Control, TypeOK
  <2>2. 1 \in 1..Len(stream) /\ bytes[1] = stream[1]
    BY <1>0, <2>1
  <2>3. m \in Messages
    BY <2>2, StreamElement
  <2>4. CASE ~IsText(bytes)
    BY <1>2, <2>1, <2>4, BasicStop DEF DecodePayload, TakePayload
  <2>5. CASE IsText(bytes)
    <3>1. /\ reading' = IF m \in Streams THEN "stream" ELSE "prefix"
          /\ holding' = IF m \in Streams THEN <<>> ELSE <<m>>
          /\ stream' = Drop(length)
          /\ UNCHANGED <<writeVars, conn, length, failure, rpcCh, consumed>>
      BY <1>2, <2>5 DEF DecodePayload, TakePayload
    <3>2. stream' \in Seq(Bytes)
      BY <2>1, <3>1, StreamDrops
    <3> HIDE DEF m
    <3>4. TypeOK'
      BY <2>3, <3>1 DEF TypeOK
    <3>5. Control'
      BY <2>1, <3>1, <3>2 DEF Control
    <3>. QED BY <3>4, <3>5
  <2>. QED BY <2>4, <2>5
<1>3. CASE DecodeEOF
  BY <1>3, BasicStop DEF DecodeEOF
<1>4. CASE Deliver
  <2>1. rpcCh' \in Seq(Messages) /\ Len(rpcCh') <= RpcChCapacity
    <3>1. PICK m \in Messages : holding = <<m>>
      BY <1>4 DEF Deliver, TypeOK
    <3>2. rpcCh' = rpcCh \o <<m>> /\ rpcCh \in Seq(Messages) /\ Len(rpcCh) < RpcChCapacity
      BY <1>4, <3>1 DEF Deliver, TypeOK
    <3>3. rpcCh \o <<m>> \in Seq(Messages) /\ Len(rpcCh \o <<m>>) = Len(rpcCh) + 1
      BY <3>2
    <3>. QED BY <3>2, <3>3, FramingAssumption
  <2>2. TypeOK'
    BY <1>4, <2>1 DEF Deliver, TypeOK
  <2>3. Control'
    BY <1>4 DEF Deliver, Control
  <2>. QED BY <2>2, <2>3
<1>5. CASE CloseStream
  BY <1>5 DEF CloseStream, TypeOK, Control
<1>6. CASE Consume
  <2>1. /\ rpcCh' \in Seq(Messages) /\ Len(rpcCh') <= RpcChCapacity
        /\ consumed' \in Seq(Messages)
    <3>1. rpcCh \in Seq(Messages) /\ rpcCh # <<>> /\ consumed \in Seq(Messages) /\ Len(rpcCh) <= RpcChCapacity
      BY <1>6 DEF Consume, TypeOK
    <3>2. Head(rpcCh) \in Messages /\ Tail(rpcCh) \in Seq(Messages) /\ Len(Tail(rpcCh)) = Len(rpcCh) - 1
      BY <3>1, HeadTailProperties
    <3>3. rpcCh' = Tail(rpcCh) /\ consumed' = Append(consumed, Head(rpcCh))
      BY <1>6 DEF Consume
    <3>. QED BY <3>1, <3>2, <3>3, FramingAssumption
  <2>2. TypeOK'
    BY <1>6, <2>1 DEF Consume, TypeOK
  <2>3. Control'
    BY <1>6 DEF Consume, Control
  <2>. QED BY <2>2, <2>3
<1>7. CASE Break
  <2>1. PICK n \in 0..Len(stream) : stream' = SubSeq(stream, 1, n)
    BY <1>7 DEF Break
  <2>2. stream' \in Seq(Bytes)
    BY <1>0, <2>1
  <2>3. TypeOK'
    BY <1>7 DEF Break, TypeOK
  <2>4. Control'
    BY <1>7, <2>2 DEF Break, Control
  <2>. QED BY <2>3, <2>4
<1>. QED BY <1>1, <1>2, <1>3, <1>4, <1>5, <1>6, <1>7 DEF ReadStep

-----------------------------------------------------------------------------
(* The shape of the stream *)

(* A step that adds and reads no write, and delivers nothing. *)
LEMMA ShapeKept ==
    ASSUME NEW q, NEW o, NEW c, NEW g, Shape(q, o, c, g), TypeOK,
           Layout(stream', q, o), length' = length, mixed' = mixed,
           (reading' = "payload") = (reading = "payload"),
           Delivered' = Delivered,
           Len(framed') \in Nat, Len(framed) <= Len(framed'),
           \A i \in 1..Len(framed) : framed'[i] = framed[i],
           conn' = "open" => conn = "open" /\ stream' = stream /\ framed' = framed,
           Pending(q)'
    PROVE  Shape(q, o, c, g)'
<1>1. (conn = "open" => Len(stream) = o[Len(q)])'
  BY DEF Shape
<1>2. Parsed(q, c)'
  <2>1. Clean(q, c)'
    BY DEF Shape, Parsed, Clean
  <2>2. (c < Len(q) => q[c+1][1] = "len" /\ AfterPrefix(q, c))'
    BY DEF Shape, Parsed, AfterPrefix
  <2>. QED BY <2>1, <2>2 DEF Shape, Parsed
<1>3. Numbered(q, c, g)'
  <2>1. Numbered(q, c, g) /\ Len(framed) \in Nat /\ c \in Nat
    BY DEF Shape, Parsed, Clean, Layout, TypeOK
  <2>2. ASSUME NEW i \in 1..c, IsMessage(q[i])
        PROVE  g[i] <= Len(framed') /\ framed'[g[i]] = q[i][2]
    <3>1. g[i] = g[i-1] + 1 /\ g[i] <= Len(framed) /\ framed[g[i]] = q[i][2] /\ g[i-1] \in Nat
      BY <2>1, <2>2 DEF Numbered
    <3>2. g[i] \in 1..Len(framed) /\ g[i] <= Len(framed')
      BY <2>1, <3>1
    <3>. QED BY <3>1, <3>2
  <2>. QED BY <2>1, <2>2 DEF Numbered
<1>. QED BY <1>1, <1>2, <1>3 DEF Shape

(* Steps that change nothing the shape depends on. *)
LEMMA ShapeUnchanged ==
    ASSUME Shaped, TypeOK, UNCHANGED <<stream, conn, framed, mixed, reading, length, wpc, next>>,
           Delivered' = Delivered
    PROVE  Shaped'
<1>1. PICK q, o, c, g : Shape(q, o, c, g)
  BY DEF Shaped
<1>2. Layout(stream', q, o) /\ Len(framed) \in Nat /\ Len(framed) <= Len(framed')
  BY <1>1 DEF Shape, TypeOK
<1>3. Pending(q)'
  BY <1>1 DEF Shape, Pending, AfterPrefix, Current
<1>4. Shape(q, o, c, g)'
  BY <1>1, <1>2, <1>3, ShapeKept
<1>. QED BY <1>4 DEF Shaped

(* Parsing goes on through a write that Decode expects. *)
LEMMA CleanGrows ==
    ASSUME NEW q \in Seq(Writes), NEW k \in Writes, Clean(q, Len(q)),
           UNCHANGED <<reading, length>>,
           AfterPrefix(q, Len(q)) => /\ k[1] = "json"
                                     /\ IF q = <<>> THEN Size[k[2]] = length
                                        ELSE k[2] = q[Len(q)][2],
           ~AfterPrefix(q, Len(q)) => k[1] = "len"
    PROVE  Clean(Append(q, k), Len(q) + 1)'
<1> DEFINE t == Append(q, k)
           N == Len(q)
<1>1. t \in Seq(Writes) /\ Len(t) = N + 1 /\ N \in Nat /\ t[N+1] = k /\ \A i \in 1..N : t[i] = q[i]
  BY AppendProperties
<1>2. k = <<k[1], k[2]>>
  BY WriteFacts
<1> HIDE DEF t
<1>3. N + 1 \in 0..Len(t)
  BY <1>1
<1>4. ASSUME NEW i \in 1..(N+1)-1 PROVE Follows(t[i], t[i+1])
  <2>1. CASE i = N
    <3>1. N > 0 /\ q # <<>> /\ t[i] = q[N] /\ t[i+1] = k /\ N # 0
      BY <1>1, <2>1
    <3>2. q[N][1] = "len" => k = <<"json", q[N][2]>>
      BY <1>2, <3>1 DEF AfterPrefix
    <3>3. q[N][1] # "len" => k[1] = "len"
      BY <3>1 DEF AfterPrefix
    <3>. QED BY <3>1, <3>2, <3>3 DEF Follows
  <2>2. CASE i # N
    <3>1. i \in 1..N-1 /\ i \in 1..N /\ i + 1 \in 1..N
      BY <1>1, <2>2
    <3>2. Follows(q[i], q[i+1])
      BY <3>1 DEF Clean
    <3>. QED BY <1>1, <3>1, <3>2
  <2>. QED BY <2>1, <2>2
<1>5. IF reading = "payload" THEN t[1][1] = "json" /\ Size[t[1][2]] = length ELSE t[1][1] = "len"
  <2>1. CASE N = 0
    BY <1>1, <2>1 DEF AfterPrefix
  <2>2. CASE N # 0
    <3>1. N > 0 /\ t[1] = q[1]
      BY <1>1, <2>2
    <3>. QED BY <3>1 DEF Clean
  <2>. QED BY <2>1, <2>2
<1>6. Clean(t, N + 1)'
  BY <1>3, <1>4, <1>5 DEF Clean
<1>. QED BY <1>6 DEF t

(* The write of a text gets the number of the message it frames. *)
LEMMA NumberedGrows ==
    ASSUME NEW q \in Seq(Writes), NEW k \in Writes, NEW g, Numbered(q, Len(q), g),
           conn = "open", ~mixed, Delivered' = Delivered, TypeOK,
           Len(framed') \in Nat, Len(framed) <= Len(framed'),
           \A i \in 1..Len(framed) : framed'[i] = framed[i],
           ~IsMessage(k) => framed' = framed,
           IsMessage(k) => Len(framed') = Len(framed) + 1 /\ framed'[Len(framed) + 1] = k[2]
    PROVE  \E h : Numbered(Append(q, k), Len(q) + 1, h)'
<1> DEFINE t == Append(q, k)
           N == Len(q)
<1>1. t \in Seq(Writes) /\ Len(t) = N + 1 /\ N \in Nat /\ t[N+1] = k /\ \A i \in 1..N : t[i] = q[i]
  BY AppendProperties
<1>2. Len(framed) \in Nat /\ g \in [0..N -> Nat] /\ g[N] = Len(framed) /\ g[0] = Len(Delivered)
  BY <1>1 DEF Numbered, TypeOK
<1> HIDE DEF t
<1>3. PICK h : h \in [0..N+1 -> Nat] /\ h[N+1] = Len(framed') /\ \A i \in 0..N : h[i] = g[i]
  <2>1. N + 1 \in 0..N+1 /\ ~(N + 1 <= N) /\ \A i \in 0..N : i \in 0..N+1 /\ i <= N
    BY <1>1
  <2>2. \A i \in 0..N+1 : i <= N => i \in 0..N
    BY <1>1
  <2> DEFINE f == [i \in 0..N+1 |-> IF i <= N THEN g[i] ELSE Len(framed')]
  <2>3. f \in [0..N+1 -> Nat] /\ f[N+1] = Len(framed') /\ \A i \in 0..N : f[i] = g[i]
    BY <1>2, <2>1, <2>2
  <2>. QED BY <2>3
<1>4. h[0] = Len(Delivered)'
  BY <1>1, <1>2, <1>3
<1>5. ASSUME NEW i \in 1..N+1
      PROVE  /\ h[i] = IF IsMessage(t[i]) THEN h[i-1] + 1 ELSE h[i-1]
             /\ IsMessage(t[i]) => h[i] <= Len(framed') /\ framed'[h[i]] = t[i][2]
  <2>1. CASE i = N + 1
    <3>1. i - 1 = N /\ N \in 0..N /\ t[i] = k
      BY <1>1, <2>1
    <3>2. h[i-1] = Len(framed) /\ h[i] = Len(framed')
      BY <1>2, <1>3, <2>1, <3>1
    <3>3. CASE IsMessage(k)
      BY <1>2, <3>1, <3>2, <3>3
    <3>4. CASE ~IsMessage(k)
      BY <3>1, <3>2, <3>4
    <3>. QED BY <3>3, <3>4
  <2>2. CASE i # N + 1
    <3>1. i \in 1..N /\ i \in 0..N /\ i - 1 \in 0..N
      BY <1>1, <2>2
    <3>2. h[i] = g[i] /\ h[i-1] = g[i-1] /\ t[i] = q[i] /\ g[i-1] \in Nat
      BY <1>1, <1>2, <1>3, <3>1
    <3>3. /\ g[i] = IF IsMessage(q[i]) THEN g[i-1] + 1 ELSE g[i-1]
          /\ IsMessage(q[i]) => g[i] <= Len(framed) /\ framed[g[i]] = q[i][2]
      BY <3>1 DEF Numbered
    <3>4. IsMessage(q[i]) => g[i] \in 1..Len(framed) /\ g[i] <= Len(framed')
      BY <1>2, <3>2, <3>3
    <3>. QED BY <3>2, <3>3, <3>4
  <2>. QED BY <2>1, <2>2
<1>6. Numbered(t, N + 1, h)'
  <2>1. \A i \in 1..N+1 : h[i] = IF IsMessage(t[i]) THEN h[i-1] + 1 ELSE h[i-1]
    BY <1>5
  <2>2. \A i \in 1..N+1 : IsMessage(t[i]) => h[i] <= Len(framed') /\ framed'[h[i]] = t[i][2]
    BY <1>5
  <2>. QED BY <1>3, <1>4, <2>1, <2>2 DEF Numbered
<1>. QED BY <1>6 DEF t

(* Once two goroutines have mixed their frames, what is written no longer       *)
(* matters.                                                                    *)
LEMMA MixedGrows ==
    ASSUME NEW q \in Seq(Writes), NEW k \in Writes, NEW c, NEW g, Parsed(q, c), Numbered(q, c, g),
           c = Len(q) => AfterPrefix(q, c) /\ k[1] = "len",
           UNCHANGED <<reading, length>>, mixed', Delivered' = Delivered, TypeOK,
           Len(framed') \in Nat, Len(framed) <= Len(framed'),
           \A i \in 1..Len(framed) : framed'[i] = framed[i]
    PROVE  Parsed(Append(q, k), c)' /\ Numbered(Append(q, k), c, g)'
<1> DEFINE t == Append(q, k)
           N == Len(q)
<1>1. t \in Seq(Writes) /\ Len(t) = N + 1 /\ N \in Nat /\ t[N+1] = k /\ \A i \in 1..N : t[i] = q[i]
  BY AppendProperties
<1> HIDE DEF t
<1>2. c \in Nat /\ c <= N
  BY <1>1 DEF Parsed, Clean
<1>3. \A i \in 1..c : i \in 1..N /\ t[i] = q[i]
  BY <1>1, <1>2
<1>4. Clean(t, c)'
  <2>1. c \in 0..Len(t)
    BY <1>1, <1>2
  <2>2. \A i \in 1..c-1 : i \in 1..c /\ i + 1 \in 1..c
    BY <1>2
  <2>3. \A i \in 1..c-1 : Follows(t[i], t[i+1])
    BY <1>3, <2>2 DEF Parsed, Clean
  <2>4. c > 0 => 1 \in 1..c
    BY <1>2
  <2>5. c > 0 => t[1] = q[1]
    BY <1>3, <2>4
  <2>. QED BY <2>1, <2>3, <2>5 DEF Parsed, Clean
<1>5. c < Len(t)
  BY <1>1, <1>2
<1>6. AfterPrefix(q, c) /\ t[c+1][1] = "len"
  <2>1. CASE c = N
    BY <1>1, <2>1
  <2>2. CASE c # N
    <3>1. c < N /\ c + 1 \in 1..N
      BY <1>1, <1>2, <2>2
    <3>. QED BY <1>1, <3>1 DEF Parsed
  <2>. QED BY <2>1, <2>2
<1>7. AfterPrefix(t, c)'
  <2>1. c # 0 => c \in 1..c
    BY <1>2
  <2>. QED BY <1>3, <1>6, <2>1 DEF AfterPrefix
<1>8. Parsed(t, c)'
  BY <1>4, <1>5, <1>6, <1>7 DEF Parsed
<1>9. Numbered(t, c, g)'
  <2>1. Len(framed) \in Nat
    BY DEF TypeOK
  <2>2. ASSUME NEW i \in 1..c, IsMessage(q[i])
        PROVE  g[i] <= Len(framed') /\ framed'[g[i]] = q[i][2]
    <3>1. g[i] = g[i-1] + 1 /\ g[i] <= Len(framed) /\ framed[g[i]] = q[i][2] /\ g[i-1] \in Nat
      BY <1>2, <2>2 DEF Numbered
    <3>2. g[i] \in 1..Len(framed) /\ g[i] <= Len(framed')
      BY <2>1, <3>1
    <3>. QED BY <3>1, <3>2
  <2>. QED BY <1>3, <2>2 DEF Numbered
<1>. QED BY <1>8, <1>9 DEF t

LEMMA ShapeWriteLength ==
    ASSUME TypeOK, Control, Shaped, NEW w \in Writers, WriteLength(w)
    PROVE  Shaped'
<1>1. PICK m \in Messages : m = Current(w)
  BY CurrentType DEF WriteLength
<1>2. PICK k \in Writes : k = <<"len", m>>
  BY PrefixIsWrite
<1>3. PICK q, o, c, g : Shape(q, o, c, g)
  BY DEF Shaped
<1>4. q \in Seq(Writes) /\ Len(q) \in Nat /\ c \in Nat /\ c <= Len(q)
  BY <1>3 DEF Shape, Layout, Parsed, Clean
<1>5. conn = "open" /\ conn' = "open" /\ framed' = framed /\ Len(framed) \in Nat
      /\ UNCHANGED <<reading, length>> /\ Delivered' = Delivered
  BY DEF WriteLength, readVars, Delivered, TypeOK
<1> DEFINE t == Append(q, k)
           N == Len(q)
<1>6. PICK p : Layout(stream', t, p) /\ Len(stream') = p[Len(t)]
  <2>1. stream' = stream \o WriteBytes(k)
    BY <1>1, <1>2, PrefixIsWrite DEF WriteLength
  <2>2. stream \in Seq(Bytes) /\ Layout(stream, q, o) /\ Len(stream) = o[Len(q)]
    BY <1>3, <1>5 DEF Control, Shape
  <2>3. \E p : Layout(stream \o WriteBytes(k), t, p) /\ Len(stream \o WriteBytes(k)) = p[Len(t)]
    BY <2>2, LayoutGrows
  <2>. QED BY <2>1, <2>3
<1>7. CASE ~mixed'
  <2>1. ~mixed /\ c = N /\ \A v \in Writers : wpc[v] # "payload"
    BY <1>3, <1>7 DEF WriteLength, Shape, Parsed
  <2>2. ~AfterPrefix(q, N)
    BY <1>3, <1>5, <2>1 DEF Shape, Pending
  <2>3. Clean(t, N + 1)'
    BY <1>2, <1>3, <1>4, <1>5, <2>1, <2>2, CleanGrows DEF Shape, Parsed
  <2>4. PICK h : Numbered(t, N + 1, h)'
    <3>1. ~IsMessage(k)
      BY <1>2 DEF IsMessage
    <3>2. Numbered(q, N, g)
      BY <1>3, <2>1 DEF Shape
    <3>3. Len(framed) <= Len(framed')
      BY <1>5
    <3>. QED BY <1>4, <1>5, <2>1, <3>1, <3>2, <3>3, NumberedGrows
  <2>5. Len(t) = N + 1 /\ t[N+1] = k /\ t # <<>> /\ N + 1 # 0
    BY <1>4, AppendProperties
  <2> HIDE DEF t
  <2>6. Parsed(t, N + 1)'
    BY <1>7, <2>3, <2>5, <1>4 DEF Parsed
  <2>7. Pending(t)'
    <3>1. AfterPrefix(t, Len(t))'
      BY <1>2, <2>5 DEF AfterPrefix
    <3>2. \A v \in Writers : wpc'[v] = "payload" <=> v = w
      BY <2>1 DEF WriteLength, TypeOK
    <3>3. t[Len(t)][2] = Current(w)'
      BY <1>1, <1>2, <2>5 DEF WriteLength, Current
    <3>. QED BY <2>5, <3>1, <3>2, <3>3 DEF Pending
  <2>8. Shape(t, p, N + 1, h)'
    BY <1>6, <2>4, <2>6, <2>7 DEF Shape
  <2>. QED BY <2>8 DEF Shaped
<1>8. CASE mixed'
  <2>1. c = N => AfterPrefix(q, c) /\ k[1] = "len"
    <3> HAVE c = N
    <3>1. ~mixed
      BY <1>3, <1>4, <1>5 DEF Shape, Parsed
    <3>2. PICK v \in Writers : wpc[v] = "payload"
      BY <1>8, <3>1 DEF WriteLength
    <3>. QED BY <1>2, <1>3, <1>5, <3>1, <3>2 DEF Shape, Pending
  <2>2. Parsed(t, c)' /\ Numbered(t, c, g)'
    <3>1. Len(framed) <= Len(framed') /\ Parsed(q, c) /\ Numbered(q, c, g)
      BY <1>3, <1>5 DEF Shape
    <3>. QED BY <1>4, <1>5, <1>8, <2>1, <3>1, MixedGrows
  <2>3. Pending(t)'
    BY <1>8 DEF Pending
  <2> HIDE DEF t
  <2>4. Shape(t, p, c, g)'
    BY <1>6, <2>2, <2>3 DEF Shape
  <2>. QED BY <2>4 DEF Shaped
<1>. QED BY <1>7, <1>8

LEMMA ShapeWritePayload ==
    ASSUME TypeOK, Control, Shaped, NEW w \in Writers, WritePayload(w)
    PROVE  Shaped'
<1>1. PICK m \in Messages : m = Current(w)
  BY CurrentType DEF WritePayload, Control
<1>2. PICK k \in Writes : k = <<"json", m>>
  BY PayloadIsWrite
<1>3. PICK q, o, c, g : Shape(q, o, c, g)
  BY DEF Shaped
<1>4. q \in Seq(Writes) /\ Len(q) \in Nat /\ c \in Nat /\ c <= Len(q)
  BY <1>3 DEF Shape, Layout, Parsed, Clean
<1>5. conn = "open" /\ conn' = "open" /\ framed' = Framed(m) /\ mixed' = mixed
      /\ UNCHANGED <<reading, length>> /\ Delivered' = Delivered /\ wpc[w] = "payload"
  BY <1>1 DEF WritePayload, readVars, Delivered
<1>6. /\ Len(framed') \in Nat /\ Len(framed) <= Len(framed')
      /\ \A i \in 1..Len(framed) : framed'[i] = framed[i]
  BY <1>5, FramedFacts
<1> DEFINE t == Append(q, k)
           N == Len(q)
<1>7. PICK p : Layout(stream', t, p) /\ Len(stream') = p[Len(t)]
  <2>1. stream' = stream \o WriteBytes(k)
    BY <1>1, <1>2, PayloadIsWrite DEF WritePayload
  <2>2. stream \in Seq(Bytes) /\ Layout(stream, q, o) /\ Len(stream) = o[Len(q)]
    BY <1>3, <1>5 DEF Control, Shape
  <2>3. \E p : Layout(stream \o WriteBytes(k), t, p) /\ Len(stream \o WriteBytes(k)) = p[Len(t)]
    BY <2>2, LayoutGrows
  <2>. QED BY <2>1, <2>3
<1>8. CASE ~mixed
  <2>1. c = N
    BY <1>3, <1>8 DEF Shape, Parsed
  <2>2. /\ AfterPrefix(q, N)
        /\ IF q = <<>> THEN length = Size[m] ELSE q[N][2] = m
        /\ \A v \in Writers : wpc[v] = "payload" => v = w
    BY <1>1, <1>3, <1>5, <1>8 DEF Shape, Pending
  <2>3. Clean(t, N + 1)'
    <3>1. Clean(q, N)
      BY <1>3, <2>1 DEF Shape, Parsed
    <3>2. k[1] = "json" /\ k[2] = m
      BY <1>2
    <3>. QED BY <1>4, <1>5, <2>2, <3>1, <3>2, CleanGrows
  <2>4. PICK h : Numbered(t, N + 1, h)'
    <3>1. ~IsMessage(k) => framed' = framed
      BY <1>2, <1>5, FramedFacts DEF IsMessage
    <3>2. IsMessage(k) => Len(framed') = Len(framed) + 1 /\ framed'[Len(framed) + 1] = k[2]
      BY <1>2, <1>5, FramedFacts DEF IsMessage
    <3>3. Numbered(q, N, g)
      BY <1>3, <2>1 DEF Shape
    <3>. QED BY <1>4, <1>5, <1>6, <1>8, <3>1, <3>2, <3>3, NumberedGrows
  <2>5. Len(t) = N + 1 /\ t[N+1] = k /\ t # <<>> /\ N + 1 # 0
    BY <1>4, AppendProperties
  <2> HIDE DEF t
  <2>6. Parsed(t, N + 1)'
    BY <1>4, <1>5, <1>8, <2>3, <2>5 DEF Parsed
  <2>7. Pending(t)'
    <3>1. ~AfterPrefix(t, Len(t))'
      BY <1>2, <2>5 DEF AfterPrefix
    <3>2. \A v \in Writers : wpc'[v] # "payload"
      BY <2>2 DEF WritePayload, EncodeReturns, TypeOK
    <3>. QED BY <3>1, <3>2 DEF Pending
  <2>8. Shape(t, p, N + 1, h)'
    BY <1>7, <2>4, <2>6, <2>7 DEF Shape
  <2>. QED BY <2>8 DEF Shaped
<1>9. CASE mixed
  <2>1. c # N
    BY <1>3, <1>4, <1>5, <1>9 DEF Shape, Parsed
  <2>2. Parsed(t, c)' /\ Numbered(t, c, g)'
    <3>1. Parsed(q, c) /\ Numbered(q, c, g)
      BY <1>3 DEF Shape
    <3>. QED BY <1>4, <1>5, <1>6, <1>9, <2>1, <3>1, MixedGrows
  <2>3. Pending(t)'
    BY <1>5, <1>9 DEF Pending
  <2> HIDE DEF t
  <2>4. Shape(t, p, c, g)'
    BY <1>7, <2>2, <2>3 DEF Shape
  <2>. QED BY <2>4 DEF Shaped
<1>. QED BY <1>8, <1>9

(* Decode reads the first write, which is what it expects. *)
LEMMA ShapeReads ==
    ASSUME TypeOK, Control, NEW q, NEW o, NEW c, NEW g, Shape(q, o, c, g), c > 0,
           stream # <<>>, WriteSize(q[1]) <= Len(stream), stream' = Drop(WriteSize(q[1])),
           UNCHANGED <<next, wpc, framed, mixed, conn>>,
           (reading' = "payload") = (q[1][1] = "len"),
           q[1][1] = "len" => length' = Size[q[1][2]],
           Len(Delivered)' = g[1]
    PROVE  Shaped'
<1>1. PICK t : t = Tail(q)
  OBVIOUS
<1> DEFINE N == Len(q)
<1>2. q \in Seq(Writes) /\ N \in Nat /\ c \in Nat /\ c <= N /\ N > 0 /\ q # <<>>
  BY DEF Shape, Layout, Parsed, Clean
<1>3. t \in Seq(Writes) /\ Len(t) = N - 1 /\ \A i \in 1..N-1 : t[i] = q[i+1]
  BY <1>1, <1>2, HeadTailProperties
<1>4. PICK p : Layout(stream', t, p) /\ (Len(stream) = o[N] => Len(stream') = p[Len(t)])
  <2>1. stream \in Seq(Bytes) /\ Layout(stream, q, o)
    BY DEF Control, Shape
  <2>2. \E p : LET r == SubSeq(stream, WriteSize(q[1]) + 1, Len(stream)) IN
                  /\ Layout(r, Tail(q), p)
                  /\ Len(stream) = o[Len(q)] => Len(r) = p[Len(Tail(q))]
    BY <2>1, LayoutShrinks
  <2>. QED BY <1>1, <2>2 DEF Drop
<1>5. (conn = "open" => Len(stream) = p[Len(t)])'
  BY <1>4 DEF Shape
<1>6. Parsed(t, c - 1)'
  <2>1. Parsed(q, c) /\ Clean(q, c)
    BY DEF Shape, Parsed
  <2>2. c - 1 \in 0..Len(t)
    BY <1>2, <1>3
  <2>3. ASSUME NEW i \in 1..(c-1)-1 PROVE Follows(t[i], t[i+1])
    <3>1. i \in 1..N-1 /\ i + 1 \in 1..N-1 /\ i + 1 \in 1..c-1
      BY <1>2
    <3>2. t[i] = q[i+1] /\ t[i+1] = q[(i+1)+1]
      BY <1>3, <3>1
    <3>3. Follows(q[i+1], q[(i+1)+1])
      BY <2>1, <3>1 DEF Clean
    <3>. QED BY <3>2, <3>3
  <2>4. ASSUME c - 1 > 0
        PROVE  IF reading' = "payload" THEN t[1][1] = "json" /\ Size[t[1][2]] = length'
               ELSE t[1][1] = "len"
    <3>1. 1 \in 1..N-1 /\ 1 \in 1..c-1
      BY <1>2, <2>4
    <3>2. t[1] = q[1+1] /\ Follows(q[1], q[1+1])
      BY <1>3, <2>1, <3>1 DEF Clean
    <3>. QED BY <3>2 DEF Follows
  <2>5. Clean(t, c - 1)'
    BY <2>2, <2>3, <2>4 DEF Clean
  <2>6. ASSUME c - 1 < Len(t)
        PROVE  t[(c-1)+1][1] = "len" /\ AfterPrefix(t, c - 1)'
    <3>1. c < N /\ (c - 1) + 1 = c /\ c \in 1..N-1
      BY <1>2, <1>3, <2>6
    <3>2. q[c+1][1] = "len" /\ AfterPrefix(q, c)
      BY <2>1, <3>1 DEF Parsed
    <3>3. q[c][1] = "len"
      BY <1>2, <3>2 DEF AfterPrefix
    <3>4. CASE c - 1 = 0
      <4>1. c = 1
        BY <1>2, <3>4
      <4>. QED BY <1>3, <3>1, <3>2, <3>3, <3>4, <4>1 DEF AfterPrefix
    <3>5. CASE c - 1 # 0
      <4>1. c - 1 \in 1..N-1
        BY <1>2, <3>5
      <4>. QED BY <1>3, <3>1, <3>2, <3>3, <3>5, <4>1 DEF AfterPrefix
    <3>. QED BY <3>4, <3>5
  <2>7. mixed' = mixed /\ conn' = conn /\ (~mixed => c = N) /\ (conn = "open" /\ mixed => c < N)
    BY <2>1 DEF Parsed
  <2>8. (~mixed' => c - 1 = Len(t)) /\ (conn' = "open" /\ mixed' => c - 1 < Len(t))
    BY <1>2, <1>3, <2>7
  <2>. QED BY <2>5, <2>6, <2>8 DEF Parsed
<1>7. PICK h : Numbered(t, c - 1, h)'
  <2>1. Numbered(q, c, g) /\ g \in [0..c -> Nat]
    BY DEF Shape, Numbered
  <2>2. PICK h : h = [i \in 0..c-1 |-> g[i+1]]
    OBVIOUS
  <2>3. \A i \in 0..c-1 : i + 1 \in 0..c /\ h[i] = g[i+1] /\ g[i+1] \in Nat
    BY <1>2, <2>1, <2>2
  <2>4. h \in [0..c-1 -> Nat]
    BY <2>2, <2>3
  <2>5. h[0] = Len(Delivered)'
    <3>1. 0 \in 0..c-1 /\ 0 + 1 = 1
      BY <1>2
    <3>2. h[0] = g[0+1]
      BY <2>3, <3>1
    <3>. QED BY <3>1, <3>2
  <2>6. ASSUME NEW i \in 1..c-1
        PROVE  /\ h[i] = IF IsMessage(t[i]) THEN h[i-1] + 1 ELSE h[i-1]
               /\ IsMessage(t[i]) => h[i] <= Len(framed) /\ framed[h[i]] = t[i][2]
    <3>1. i \in 1..N-1 /\ i + 1 \in 1..c /\ i \in 0..c-1 /\ i - 1 \in 0..c-1 /\ (i - 1) + 1 = i /\ (i + 1) - 1 = i
      <4>1. N \in Nat /\ c \in Nat /\ c <= N
        BY <1>2
      <4> HIDE DEF N
      <4>2. i \in 1..N-1 /\ i + 1 \in 1..c
        BY <4>1
      <4>3. i \in 0..c-1 /\ i - 1 \in 0..c-1
        BY <4>1
      <4>. QED BY <4>1, <4>2, <4>3
    <3>2. t[i] = q[i+1] /\ h[i] = g[i+1] /\ h[i-1] = g[i]
      BY <1>3, <2>3, <3>1
    <3>3. /\ g[i+1] = IF IsMessage(q[i+1]) THEN g[(i+1)-1] + 1 ELSE g[(i+1)-1]
          /\ IsMessage(q[i+1]) => g[i+1] <= Len(framed) /\ framed[g[i+1]] = q[i+1][2]
      BY <2>1, <3>1 DEF Numbered
    <3>. QED BY <3>1, <3>2, <3>3
  <2>7. conn' = "open" /\ ~mixed' => h[c-1] = Len(framed')
    <3>1. c - 1 \in 0..c-1 /\ (c - 1) + 1 = c
      BY <1>2
    <3>2. h[c-1] = g[c]
      BY <2>3, <3>1
    <3>. QED BY <2>1, <3>2 DEF Numbered
  <2>8. \A i \in 1..c-1 : h[i] = IF IsMessage(t[i]) THEN h[i-1] + 1 ELSE h[i-1]
    BY <2>6
  <2>9. \A i \in 1..c-1 : IsMessage(t[i]) => h[i] <= Len(framed') /\ framed'[h[i]] = t[i][2]
    BY <2>6
  <2>10. Numbered(t, c - 1, h)'
    BY <2>4, <2>5, <2>7, <2>8, <2>9 DEF Numbered
  <2>. QED BY <2>10
<1>8. Pending(t)'
  <2>1. Pending(q)
    BY DEF Shape
  <2>2. AfterPrefix(t, Len(t))' = AfterPrefix(q, N)
    <3>1. CASE N = 1
      BY <1>3, <3>1 DEF AfterPrefix
    <3>2. CASE N # 1
      <4>1. N - 1 \in 1..N-1 /\ (N - 1) + 1 = N /\ N - 1 # 0 /\ N # 0
        <5> HIDE DEF N
        <5>. QED BY <1>2, <3>2
      <4>2. t[N-1] = q[N]
        BY <1>3, <4>1
      <4>. QED BY <1>3, <4>1, <4>2 DEF AfterPrefix
    <3>. QED BY <3>1, <3>2
  <2>3. ASSUME NEW w \in Writers, AfterPrefix(q, N), q[N][2] = Current(w)
        PROVE  IF t = <<>> THEN length' = Size[Current(w)'] ELSE t[Len(t)][2] = Current(w)'
    <3>1. Current(w)' = Current(w)
      BY DEF Current
    <3>2. CASE t = <<>>
      <4>1. N = 1
        BY <1>2, <1>3, <3>2
      <4>2. q[1][1] = "len"
        BY <2>3, <4>1 DEF AfterPrefix
      <4>. QED BY <2>3, <3>1, <3>2, <4>1, <4>2
    <3>3. CASE t # <<>>
      <4>1. N - 1 \in 1..N-1 /\ (N - 1) + 1 = N
        BY <1>2, <1>3, <3>3, EmptySeq
      <4>. QED BY <1>3, <2>3, <3>1, <3>3, <4>1
    <3>. QED BY <3>2, <3>3
  <2>4. SUFFICES ASSUME conn = "open", ~mixed
        PROVE  /\ \A v, w \in Writers : wpc[v] = "payload" /\ wpc[w] = "payload" => v = w
               /\ AfterPrefix(t, Len(t))' => \E w \in Writers : wpc[w] = "payload"
               /\ \A w \in Writers : wpc[w] = "payload" =>
                    /\ AfterPrefix(t, Len(t))'
                    /\ IF t = <<>> THEN length' = Size[Current(w)']
                       ELSE t[Len(t)][2] = Current(w)'
    BY DEF Pending
  <2>. QED BY <1>2, <2>1, <2>2, <2>3, <2>4 DEF Pending
<1>9. Shape(t, p, c - 1, h)'
  BY <1>4, <1>5, <1>6, <1>7, <1>8 DEF Shape
<1>. QED BY <1>9 DEF Shaped

-----------------------------------------------------------------------------
(* The steps of the read loop *)

(* Where Decode expects a prefix it finds one. *)
LEMMA FindsPrefix ==
    ASSUME TypeOK, Control, NEW q, NEW o, NEW c, NEW g, Shape(q, o, c, g),
           reading = "prefix", Len(stream) >= PrefixSize
    PROVE  /\ c > 0 /\ q[1] \in Writes /\ q[1][1] = "len" /\ WriteSize(q[1]) = PrefixSize
           /\ stream # <<>> /\ stream[1] = <<"len", q[1][2], 1>>
<1>1. stream \in Seq(Bytes) /\ Len(stream) \in Nat /\ PrefixSize \in Nat /\ PrefixSize > 0
  BY FramingAssumption DEF Control
<1>2. stream # <<>>
  BY <1>1
<1>3. Len(q) > 0 /\ q[1] \in Writes /\ stream[1] = <<q[1][1], q[1][2], 1>> /\ Len(q) \in Nat
  BY <1>1, <1>2, LayoutFirst DEF Shape
<1>4. c # 0
  BY <1>3 DEF Shape, Parsed, AfterPrefix
<1>5. c > 0
  BY <1>3, <1>4 DEF Shape, Parsed, Clean
<1>6. q[1][1] = "len"
  BY <1>5 DEF Shape, Parsed, Clean
<1>. QED BY <1>2, <1>3, <1>5, <1>6 DEF WriteSize

(* Where Decode expects a text it finds one whole text of the length it has     *)
(* read, unless two goroutines have mixed their frames: then it finds no JSON. *)
LEMMA FindsText ==
    ASSUME TypeOK, Control, NEW q, NEW o, NEW c, NEW g, Shape(q, o, c, g),
           reading = "payload", Len(stream) >= length
    PROVE  /\ stream # <<>> /\ c \in Nat /\ q[1] \in Writes
           /\ c > 0 => /\ q[1][1] = "json" /\ WriteSize(q[1]) = length
                       /\ SubSeq(stream, 1, length)[1][2] = q[1][2]
                       /\ IsText(SubSeq(stream, 1, length))
           /\ c = 0 => mixed /\ ~IsText(SubSeq(stream, 1, length))
<1> DEFINE bytes == SubSeq(stream, 1, length)
           k == q[1]
<1>1. stream \in Seq(Bytes) /\ Len(stream) \in Nat /\ length \in Nat /\ length > 0
  BY FramingAssumption DEF Control, TypeOK
<1>2. stream # <<>>
  BY <1>1
<1>3. /\ Len(q) > 0 /\ k \in Writes /\ Len(q) \in Nat
      /\ \A j \in 1..WriteSize(k) : j <= Len(stream) => stream[j] = <<k[1], k[2], j>>
  BY <1>1, <1>2, LayoutFirst DEF Shape
<1>4. bytes \in Seq(Bytes) /\ Len(bytes) = length /\ \A j \in 1..length : bytes[j] = stream[j]
  BY <1>1
<1>5. WriteSize(k) \in Nat /\ WriteSize(k) > 0 /\ k[2] \in Messages
  BY <1>3, WriteFacts
<1>6. stream[1] = <<k[1], k[2], 1>> /\ bytes[1] = stream[1]
  <2>1. 1 \in 1..WriteSize(k) /\ 1 <= Len(stream) /\ 1 \in 1..length
    BY <1>1, <1>5
  <2>. QED BY <1>3, <1>4, <2>1
<1>7. c \in Nat
  BY <1>3 DEF Shape, Parsed, Clean
<1> HIDE DEF bytes
<1>8. ASSUME c > 0
      PROVE  k[1] = "json" /\ WriteSize(k) = length /\ bytes[1][2] = k[2] /\ IsText(bytes)
  <2>1. k[1] = "json" /\ Size[k[2]] = length
    BY <1>8 DEF Shape, Parsed, Clean
  <2>2. WriteSize(k) = length
    BY <2>1 DEF WriteSize
  <2>3. Payload(k[2]) \in Seq(Bytes) /\ Len(Payload(k[2])) = length
        /\ \A j \in 1..length : Payload(k[2])[j] = <<"json", k[2], j>>
    <3>1. <<"json", k[2]>> \in Writes /\ Payload(k[2]) = WriteBytes(<<"json", k[2]>>)
          /\ WriteSize(<<"json", k[2]>>) = length
      BY <1>5, <2>1, PayloadIsWrite
    <3>2. PICK y \in Writes : y = <<"json", k[2]>>
      BY <3>1
    <3>3. y[1] = "json" /\ y[2] = k[2]
      BY <3>2
    <3>. QED BY <3>1, <3>2, <3>3, WriteFacts
  <2>4. \A j \in 1..length : bytes[j] = Payload(k[2])[j]
    <3> SUFFICES ASSUME NEW j \in 1..length PROVE bytes[j] = Payload(k[2])[j]
      OBVIOUS
    <3>1. j \in 1..WriteSize(k) /\ j <= Len(stream)
      BY <1>1, <2>2
    <3>. QED BY <1>3, <1>4, <2>1, <2>3, <3>1
  <2>5. bytes = Payload(k[2])
    BY <1>4, <2>3, <2>4, SeqEqual
  <2>. QED BY <1>5, <1>6, <2>1, <2>2, <2>5 DEF IsText
<1>9. ASSUME c = 0
      PROVE  mixed /\ ~IsText(bytes)
  <2>1. c # Len(q) /\ c < Len(q)
    BY <1>3, <1>9
  <2>2. mixed
    BY <2>1 DEF Shape, Parsed
  <2>3. q[c+1][1] = "len"
    BY <2>1 DEF Shape, Parsed
  <2>4. bytes[1][1] = "len"
    BY <1>6, <1>9, <2>3
  <2>5. ASSUME NEW m \in Messages PROVE bytes # Payload(m)
    <3>1. 1 \in 1..Size[m]
      BY FramingAssumption
    <3>2. Payload(m)[1][1] = "json"
      BY <3>1 DEF Payload
    <3>. QED BY <2>4, <3>2
  <2>. QED BY <2>2, <2>5 DEF IsText
<1>. QED BY <1>2, <1>3, <1>7, <1>8, <1>9 DEF bytes

LEMMA ReadsPrefix ==
    ASSUME TypeOK, Control, Shaped, DecodeLength
    PROVE  /\ reading' # "stopped" => Shaped'
           /\ failure' = "length" => DecoderReverses'
           /\ Delivered' = Delivered /\ failure' \in {failure, "length"}
<1>1. PICK q, o, c, g : Shape(q, o, c, g)
  BY DEF Shaped
<1>2. /\ c > 0 /\ q[1] \in Writes /\ q[1][1] = "len" /\ WriteSize(q[1]) = PrefixSize
      /\ stream # <<>> /\ stream[1] = <<"len", q[1][2], 1>>
  BY <1>1, FindsPrefix DEF DecodeLength
<1>3. PICK m \in Messages : m = q[1][2]
  BY <1>2, WriteFacts
<1>4. stream[1][2] = m /\ Size[m] \in Nat /\ Size[m] > 0 /\ MaxMessageSize \in Nat
  BY <1>2, <1>3, FramingAssumption
<1>5. Delivered' = Delivered /\ failure' \in {failure, "length"}
  BY DEF DecodeLength, StopReading, Delivered
<1>6. CASE Accepts(Size[m])
  <2>1. /\ reading' = "payload" /\ length' = Size[m] /\ stream' = Drop(PrefixSize)
        /\ UNCHANGED <<next, wpc, framed, mixed, conn, failure>>
    BY <1>4, <1>6 DEF DecodeLength, writeVars
  <2>2. Len(Delivered)' = g[1]
    <3>1. c \in Nat /\ 1 \in 1..c
      BY <1>1, <1>2 DEF Shape, Parsed, Clean, Layout
    <3>2. ~IsMessage(q[1]) /\ g[0] = Len(Delivered)
      BY <1>1, <1>2 DEF IsMessage, Shape, Numbered
    <3>3. g[1] = g[1-1]
      BY <1>1, <3>1, <3>2 DEF Shape, Numbered
    <3>4. Len(Delivered)' = Len(Delivered)
      BY <1>5
    <3>. QED BY <3>2, <3>3, <3>4
  <2>3. WriteSize(q[1]) <= Len(stream)
    BY <1>2 DEF DecodeLength
  <2>4. Shaped'
    BY <1>1, <1>2, <1>3, <2>1, <2>2, <2>3, ShapeReads
  <2>5. failure' # "length"
    BY <2>1 DEF DecodeLength, Control
  <2>. QED BY <1>5, <2>4, <2>5
<1>7. CASE ~Accepts(Size[m])
  <2>1. StopReading("length")
    BY <1>4, <1>7 DEF DecodeLength
  <2>2. Size[m] > MaxMessageSize
    BY <1>4, <1>7 DEF Accepts
  <2>3. stream' = stream /\ reading' = "stopped" /\ failure' = "length"
    BY <2>1 DEF StopReading
  <2>4. DecoderReverses'
    <3>1. m \in {n \in Messages : Size[n] > MaxMessageSize}
      BY <2>2
    <3>2. stream'[1] = <<"len", m, 1>>
      BY <1>2, <1>3, <2>3
    <3>. QED BY <2>3, <3>1, <3>2 DEF DecoderReverses
  <2>. QED BY <1>5, <2>3, <2>4
<1>. QED BY <1>6, <1>7

LEMMA ReadsPayload ==
    ASSUME TypeOK, Control, Shaped, DeliveredFirst, DecodePayload
    PROVE  /\ reading' # "stopped" => Shaped'
           /\ failure' = "json" /\ failure # "json" => mixed
           /\ mixed' = mixed /\ failure' \in {failure, "json"}
           /\ DeliveredFirst'
<1> DEFINE bytes == SubSeq(stream, 1, length)
<1>1. PICK q, o, c, g : Shape(q, o, c, g)
  BY DEF Shaped
<1>2. /\ stream # <<>> /\ c \in Nat /\ q[1] \in Writes
      /\ c > 0 => /\ q[1][1] = "json" /\ WriteSize(q[1]) = length
                  /\ bytes[1][2] = q[1][2] /\ IsText(bytes)
      /\ c = 0 => mixed /\ ~IsText(bytes)
  BY <1>1, FindsText DEF DecodePayload
<1>3. PICK m \in Messages : m = q[1][2]
  BY <1>2, WriteFacts
<1>4. TakePayload(length) /\ holding = <<>> /\ WriteSize(q[1]) \in Nat
  BY <1>2, WriteFacts DEF DecodePayload, Control
<1>5. CASE c = 0
  <2>1. StopReading("json") /\ mixed
    BY <1>2, <1>4, <1>5 DEF TakePayload
  <2>2. reading' = "stopped" /\ mixed' = mixed /\ failure' = "json" /\ Delivered' = Delivered /\ framed' = framed
    BY <2>1 DEF StopReading, writeVars, Delivered
  <2>3. DeliveredFirst'
    BY <2>2 DEF DeliveredFirst
  <2>. QED BY <2>1, <2>2, <2>3
<1>6. CASE c # 0
  <2>1. c > 0 /\ 1 \in 1..c
    BY <1>2, <1>6
  <2>2. /\ reading' = IF m \in Streams THEN "stream" ELSE "prefix"
        /\ holding' = IF m \in Streams THEN <<>> ELSE <<m>>
        /\ stream' = Drop(length)
        /\ UNCHANGED <<next, wpc, framed, mixed, conn, length, failure, rpcCh, consumed>>
    BY <1>2, <1>3, <1>4, <2>1 DEF TakePayload, writeVars
  <2>3. /\ g[0] = Len(Delivered) /\ g[0] \in Nat
        /\ g[1] = IF IsMessage(q[1]) THEN g[1-1] + 1 ELSE g[1-1]
        /\ IsMessage(q[1]) => g[1] <= Len(framed) /\ framed[g[1]] = q[1][2]
    BY <1>1, <1>2, <2>1 DEF Shape, Numbered
  <2>4. IsMessage(q[1]) <=> m \notin Streams
    BY <1>2, <1>3, <2>1 DEF IsMessage
  <2>5. Len(Delivered)' = g[1] /\ DeliveredFirst'
    <3>1. CASE m \in Streams
      <4>1. Delivered' = Delivered
        BY <1>4, <2>2, <3>1 DEF Delivered
      <4>2. DeliveredFirst'
        BY <2>2, <4>1 DEF DeliveredFirst
      <4>. QED BY <2>3, <2>4, <3>1, <4>1, <4>2
    <3>2. CASE m \notin Streams
      <4> DEFINE D == consumed \o rpcCh
      <4>1. D \in Seq(Messages)
        BY HoldingType, ConcatProperties
      <4>2. Delivered = D
        BY <1>4, <4>1, ConcatEmptySeq DEF Delivered
      <4>3. Delivered' = D \o <<m>>
        BY <2>2, <3>2 DEF Delivered
      <4> HIDE DEF D
      <4>4. D \o <<m>> = Append(D, m)
        BY <4>1, AppendIsConcat
      <4>5. Len(Delivered') = Len(D) + 1 /\ Len(D) \in Nat /\ Delivered'[Len(D) + 1] = m
            /\ \A i \in 1..Len(D) : Delivered'[i] = D[i]
        BY <4>1, <4>3, <4>4, AppendProperties
      <4>6. g[1] = Len(D) + 1 /\ g[1] <= Len(framed) /\ framed[g[1]] = m
        BY <1>3, <2>3, <2>4, <3>2, <4>2
      <4>7. ASSUME NEW i \in 1..Len(Delivered') PROVE Delivered'[i] = framed[i]
        <5>1. CASE i = Len(D) + 1
          BY <4>5, <4>6, <5>1
        <5>2. CASE i # Len(D) + 1
          <6>1. i \in 1..Len(D)
            BY <4>5, <5>2
          <6>. QED BY <4>2, <4>5, <6>1 DEF DeliveredFirst
        <5>. QED BY <5>1, <5>2
      <4>8. DeliveredFirst'
        BY <2>2, <4>5, <4>6, <4>7 DEF DeliveredFirst
      <4>. QED BY <4>5, <4>6, <4>8
    <3>. QED BY <3>1, <3>2
  <2>6. WriteSize(q[1]) = length /\ WriteSize(q[1]) <= Len(stream) /\ q[1][1] # "len"
    BY <1>2, <2>1 DEF DecodePayload
  <2>7. (reading' = "payload") = (q[1][1] = "len")
    BY <2>2, <2>6
  <2>8. Shaped'
    BY <1>1, <1>2, <2>1, <2>2, <2>5, <2>6, <2>7, ShapeReads
  <2>. QED BY <2>2, <2>5, <2>8
<1>. QED BY <1>5, <1>6

(* Messages move from the read loop through rpcCh to the consumer. *)
LEMMA MovesOn ==
    ASSUME TypeOK, Deliver \/ Consume
    PROVE  Delivered' = Delivered
<1>1. holding \in Seq(Messages) /\ rpcCh \in Seq(Messages) /\ consumed \in Seq(Messages)
      /\ <<>> \in Seq(Messages)
  BY HoldingType
<1>2. CASE Deliver
  <2>1. consumed' = consumed /\ rpcCh' = rpcCh \o holding /\ holding' = <<>>
    BY <1>2 DEF Deliver
  <2>2. rpcCh \o holding \in Seq(Messages)
    BY <1>1, ConcatProperties
  <2>3. consumed \o (rpcCh \o holding) \in Seq(Messages)
    BY <1>1, <2>2, ConcatProperties
  <2>4. (consumed \o (rpcCh \o holding)) \o <<>> = consumed \o (rpcCh \o holding)
    BY <2>3, ConcatEmptySeq
  <2>5. (consumed \o rpcCh) \o holding = consumed \o (rpcCh \o holding)
    BY <1>1, ConcatAssociative
  <2>. QED BY <2>1, <2>4, <2>5 DEF Delivered
<1>3. CASE Consume
  <2>1. consumed' = Append(consumed, Head(rpcCh)) /\ rpcCh' = Tail(rpcCh) /\ holding' = holding
        /\ rpcCh # <<>>
    BY <1>3 DEF Consume, readVars
  <2>2. Head(rpcCh) \in Messages /\ Tail(rpcCh) \in Seq(Messages)
    BY <1>1, <2>1, HeadTailProperties
  <2>3. PICK e \in Messages, r \in Seq(Messages) : e = Head(rpcCh) /\ r = Tail(rpcCh)
    BY <2>2
  <2>4. rpcCh = <<e>> \o r
    BY <1>1, <2>1, <2>3
  <2>5. Append(consumed, e) = consumed \o <<e>> /\ <<e>> \in Seq(Messages)
    BY <1>1, AppendIsConcat
  <2>6. (consumed \o <<e>>) \o r = consumed \o (<<e>> \o r)
    BY <1>1, <2>3, <2>5, ConcatAssociative
  <2>. QED BY <2>1, <2>3, <2>4, <2>5, <2>6 DEF Delivered
<1>. QED BY <1>2, <1>3

-----------------------------------------------------------------------------
(* The invariant holds *)

LEMMA InitInv ==
    Init => IInv
<1> SUFFICES ASSUME Init PROVE IInv
  OBVIOUS
<1>1. TypeOK
  <2>1. <<>> \in Seq(Messages) /\ Len(<<>>) <= RpcChCapacity /\ 0 \in 0..MaxMessageSize
    BY FramingAssumption
  <2>2. next \in [Writers -> Nat \ {0}] /\ wpc \in [Writers -> {"idle", "payload"}]
    BY DEF Init
  <2>. QED BY <2>1, <2>2 DEF Init, TypeOK
<1>2. Control
  BY DEF Init, Control
<1>3. DecoderReverses
  BY DEF Init, DecoderReverses
<1>4. Delivered = <<>> /\ framed = <<>>
  <2>1. <<>> \in Seq(Messages)
    OBVIOUS
  <2>. QED BY <2>1, ConcatEmptySeq DEF Init, Delivered
<1>5. DeliveredFirst
  BY <1>4 DEF DeliveredFirst
<1>6. Shaped
  <2>1. PICK z : z = [i \in 0..0 |-> 0]
    OBVIOUS
  <2>2. z \in [0..0 -> Nat] /\ z[0] = 0 /\ <<>> \in Seq(Writes) /\ Len(<<>>) = 0
    BY <2>1
  <2>3. Layout(stream, <<>>, z) /\ Len(stream) = z[Len(<<>>)]
    BY <2>2 DEF Layout, Init
  <2>4. Parsed(<<>>, 0)
    BY <2>2 DEF Parsed, Clean, Init
  <2>5. Numbered(<<>>, 0, z)
    BY <1>4, <2>2 DEF Numbered
  <2>6. Pending(<<>>)
    BY <2>2 DEF Pending, AfterPrefix, Init
  <2>7. Shape(<<>>, z, 0, z)
    BY <2>3, <2>4, <2>5, <2>6 DEF Shape
  <2>. QED BY <2>7 DEF Shaped
<1>. QED BY <1>1, <1>2, <1>3, <1>5, <1>6 DEF IInv

LEMMA WriterInv ==
    ASSUME IInv, NEW w \in Writers, WriterStep(w)
    PROVE  IInv'
<1> USE DEF readVars
<1>1. TypeOK /\ Control /\ DecoderReverses /\ DeliveredFirst /\ (reading # "stopped" => Shaped)
  BY DEF IInv
<1>2. TypeOK' /\ Control'
  BY <1>1, BasicWriter
<1>3. Delivered' = Delivered /\ UNCHANGED <<reading, length, failure, conn>>
  BY DEF WriterStep, EncodeTooLarge, WriteLength, WritePayload, WriteLost, Delivered
<1>4. Len(framed') \in Nat /\ Len(framed) \in Nat /\ Len(framed) <= Len(framed')
      /\ \A i \in 1..Len(framed) : framed'[i] = framed[i]
  <2>1. framed' = framed \/ \E m \in Messages : framed' = Framed(m)
    <3>1. CASE EncodeTooLarge(w) \/ WriteLength(w)
      BY <3>1 DEF EncodeTooLarge, WriteLength
    <3>2. CASE WritePayload(w)
      BY <1>1, <3>2, CurrentType DEF WritePayload, Control
    <3>3. CASE WriteLost(w)
      BY <1>1, <3>3, CurrentType DEF WriteLost
    <3>. QED BY <3>1, <3>2, <3>3 DEF WriterStep
  <2>2. CASE framed' = framed
    BY <1>1, <2>2 DEF TypeOK
  <2>3. CASE \E m \in Messages : framed' = Framed(m)
    <3>1. PICK m \in Messages : framed' = Framed(m)
      BY <2>3
    <3>. QED BY <1>1, <3>1, FramedFacts
  <2>. QED BY <2>1, <2>2, <2>3
<1>5. DeliveredFirst'
  <2>1. Len(Delivered) \in Nat /\ Len(Delivered) <= Len(framed)
    BY <1>1, HoldingType DEF DeliveredFirst
  <2>2. Len(Delivered) <= Len(framed')
    BY <1>4, <2>1
  <2>3. \A i \in 1..Len(Delivered) : i \in 1..Len(framed)
    BY <1>4, <2>1
  <2>4. \A i \in 1..Len(Delivered) : Delivered[i] = framed'[i]
    BY <1>1, <1>4, <2>3 DEF DeliveredFirst
  <2>. QED BY <1>3, <2>2, <2>4 DEF DeliveredFirst
<1>6. conn # "open" => stream' = stream
  BY DEF WriterStep, EncodeTooLarge, WriteLength, WritePayload, WriteLost
<1>7. mixed => mixed'
  BY DEF WriterStep, EncodeTooLarge, WriteLength, WritePayload, WriteLost
<1>8. DecoderReverses'
  <2>1. failure = "length" => conn # "open"
    BY <1>1 DEF Control
  <2>. QED BY <1>1, <1>3, <1>6, <1>7, <2>1 DEF DecoderReverses
<1>9. ASSUME reading # "stopped" PROVE Shaped'
  <2>1. CASE WriteLength(w)
    BY <1>1, <1>9, <2>1, ShapeWriteLength
  <2>2. CASE WritePayload(w)
    BY <1>1, <1>9, <2>2, ShapeWritePayload
  <2>3. CASE EncodeTooLarge(w) \/ WriteLost(w)
    <3>1. PICK q, o, c, g : Shape(q, o, c, g)
      BY <1>1, <1>9 DEF Shaped
    <3>2. stream' = stream /\ mixed' = mixed
      BY <2>3 DEF EncodeTooLarge, WriteLost
    <3>3. conn' = "open" => /\ conn = "open" /\ framed' = framed
                            /\ \A v \in Writers : wpc'[v] = wpc[v] /\ (wpc[v] = "payload" => next'[v] = next[v])
      BY <1>1, <2>3 DEF EncodeTooLarge, WriteLost, EncodeReturns, TypeOK
    <3>4. Pending(q)'
      <4>1. Pending(q)
        BY <3>1 DEF Shape
      <4>2. AfterPrefix(q, Len(q))' = AfterPrefix(q, Len(q))
        BY <1>3 DEF AfterPrefix
      <4>3. conn' = "open" => \A v \in Writers : wpc[v] = "payload" => Current(v)' = Current(v)
        BY <3>3 DEF Current
      <4>. QED BY <1>3, <3>2, <3>3, <4>1, <4>2, <4>3 DEF Pending
    <3>5. Layout(stream', q, o)
      BY <3>1, <3>2 DEF Shape
    <3>6. Shape(q, o, c, g)'
      BY <1>1, <1>3, <1>4, <3>1, <3>2, <3>3, <3>4, <3>5, ShapeKept
    <3>. QED BY <3>6 DEF Shaped
  <2>. QED BY <2>1, <2>2, <2>3 DEF WriterStep
<1>. QED BY <1>2, <1>3, <1>5, <1>8, <1>9 DEF IInv

LEMMA ReaderInv ==
    ASSUME IInv, ReadStep \/ CloseStream \/ Consume \/ Break
    PROVE  IInv'
<1> USE DEF readVars, writeVars
<1>1. TypeOK /\ Control /\ DecoderReverses /\ DeliveredFirst /\ (reading # "stopped" => Shaped)
  BY DEF IInv
<1>2. TypeOK' /\ Control'
  BY <1>1, BasicReader
<1>3. CASE DecodeLength
  <2>1. reading # "stopped" /\ reading = "prefix"
    BY <1>3 DEF DecodeLength
  <2>2. /\ reading' # "stopped" => Shaped'
        /\ failure' = "length" => DecoderReverses'
        /\ Delivered' = Delivered /\ failure' \in {failure, "length"}
    BY <1>1, <1>3, <2>1, ReadsPrefix
  <2>3. framed' = framed /\ mixed' = mixed
    BY <1>3 DEF DecodeLength, StopReading
  <2>4. DecoderReverses'
    <3>1. CASE failure' = "length"
      BY <2>2, <3>1
    <3>2. CASE failure' # "length"
      BY <1>1, <2>2, <2>3, <3>2 DEF DecoderReverses
    <3>. QED BY <3>1, <3>2
  <2>5. DeliveredFirst'
    BY <1>1, <2>2, <2>3 DEF DeliveredFirst
  <2>. QED BY <1>2, <2>2, <2>4, <2>5 DEF IInv
<1>4. CASE DecodePayload
  <2>1. reading # "stopped" /\ reading = "payload"
    BY <1>4 DEF DecodePayload
  <2>2. /\ reading' # "stopped" => Shaped'
        /\ failure' = "json" /\ failure # "json" => mixed
        /\ mixed' = mixed /\ failure' \in {failure, "json"}
        /\ DeliveredFirst'
    BY <1>1, <1>4, <2>1, ReadsPayload
  <2>3. failure # "length"
    BY <1>1, <2>1 DEF Control
  <2>4. DecoderReverses'
    BY <1>1, <2>2, <2>3 DEF DecoderReverses
  <2>. QED BY <1>2, <2>2, <2>4 DEF IInv
<1>5. CASE DecodeEOF
  <2>1. /\ reading' = "stopped" /\ failure' = "eof"
        /\ UNCHANGED <<framed, consumed, rpcCh, holding>>
    BY <1>5 DEF DecodeEOF, StopReading
  <2>2. DecoderReverses'
    BY <2>1 DEF DecoderReverses
  <2>3. DeliveredFirst'
    BY <1>1, <2>1 DEF DeliveredFirst, Delivered
  <2>. QED BY <1>2, <2>1, <2>2, <2>3 DEF IInv
<1>6. CASE Deliver \/ Consume
  <2>1. Delivered' = Delivered
    BY <1>1, <1>6, MovesOn
  <2>2. UNCHANGED <<stream, conn, framed, mixed, reading, length, wpc, next, failure>>
    BY <1>6 DEF Deliver, Consume
  <2>3. reading' # "stopped" => Shaped'
    BY <1>1, <2>1, <2>2, ShapeUnchanged
  <2>4. DecoderReverses'
    BY <1>1, <2>2 DEF DecoderReverses
  <2>5. DeliveredFirst'
    BY <1>1, <2>1, <2>2 DEF DeliveredFirst
  <2>. QED BY <1>2, <2>3, <2>4, <2>5 DEF IInv
<1>7. CASE CloseStream \/ Break
  <2>1. /\ UNCHANGED <<framed, mixed, length, wpc, next, failure, consumed, rpcCh, holding>>
        /\ (reading' = "payload") = (reading = "payload")
        /\ reading' = "stopped" <=> reading = "stopped"
    BY <1>7 DEF CloseStream, Break
  <2>2. Delivered' = Delivered /\ Len(framed) \in Nat /\ Len(framed) <= Len(framed')
    BY <1>1, <2>1 DEF Delivered, TypeOK
  <2>3. conn' = "open" => conn = "open" /\ stream' = stream
    BY <1>7 DEF CloseStream, Break
  <2>4. stream' = stream \/ \E n \in 0..Len(stream) : stream' = SubSeq(stream, 1, n)
    BY <1>7 DEF CloseStream, Break
  <2>5. DeliveredFirst'
    BY <1>1, <2>1, <2>2 DEF DeliveredFirst
  <2>6. DecoderReverses'
    <3>1. failure = "length" => stream' = stream
      BY <1>1, <1>7 DEF Control, CloseStream, Break
    <3>. QED BY <1>1, <2>1, <3>1 DEF DecoderReverses
  <2>7. ASSUME reading' # "stopped" PROVE Shaped'
    <3>1. PICK q, o, c, g : Shape(q, o, c, g)
      BY <1>1, <2>1, <2>7 DEF Shaped
    <3>2. Layout(stream', q, o)
      <4>1. stream \in Seq(Bytes) /\ Layout(stream, q, o)
        BY <1>1, <3>1 DEF Control, Shape
      <4>2. CASE stream' = stream
        BY <4>1, <4>2
      <4>3. CASE \E n \in 0..Len(stream) : stream' = SubSeq(stream, 1, n)
        <5>1. PICK n \in 0..Len(stream) : stream' = SubSeq(stream, 1, n)
          BY <4>3
        <5>. QED BY <4>1, <5>1, LayoutCut
      <4>. QED BY <2>4, <4>2, <4>3
    <3>3. Pending(q)'
      <4>1. Pending(q) /\ AfterPrefix(q, Len(q))' = AfterPrefix(q, Len(q))
        BY <2>1, <3>1 DEF Shape, AfterPrefix
      <4>2. \A v \in Writers : Current(v)' = Current(v)
        BY <2>1 DEF Current
      <4>. QED BY <2>1, <2>3, <4>1, <4>2 DEF Pending
    <3>4. Shape(q, o, c, g)'
      BY <1>1, <2>1, <2>2, <2>3, <3>1, <3>2, <3>3, ShapeKept
    <3>. QED BY <3>4 DEF Shaped
  <2>. QED BY <1>2, <2>5, <2>6, <2>7 DEF IInv
<1>. QED BY <1>3, <1>4, <1>5, <1>6, <1>7 DEF ReadStep

LEMMA StutterInv ==
    ASSUME IInv, UNCHANGED vars
    PROVE  IInv'
<1> USE DEF vars, readVars, writeVars
<1>1. TypeOK /\ Control /\ DecoderReverses /\ DeliveredFirst /\ (reading # "stopped" => Shaped)
  BY DEF IInv
<1>2. Delivered' = Delivered
  BY DEF Delivered
<1>3. TypeOK'
  BY <1>1 DEF TypeOK
<1>4. Control' /\ DecoderReverses' /\ DeliveredFirst'
  BY <1>1, <1>2 DEF Control, DecoderReverses, DeliveredFirst
<1>5. reading' # "stopped" => Shaped'
  BY <1>1, <1>2, ShapeUnchanged
<1>. QED BY <1>3, <1>4, <1>5 DEF IInv

LEMMA NextInv ==
    IInv /\ [Next]_vars => IInv'
<1> SUFFICES ASSUME IInv, [Next]_vars PROVE IInv'
  OBVIOUS
<1>1. CASE UNCHANGED vars
  BY <1>1, StutterInv
<1>2. CASE \E w \in Writers : WriterStep(w)
  BY <1>2, WriterInv
<1>3. CASE ReadStep \/ CloseStream \/ Consume \/ Break
  BY <1>3, ReaderInv
<1>. QED BY <1>1, <1>2, <1>3 DEF Next

(* The inductive invariant holds in every reachable state. *)
THEOREM Invariance ==
    Spec => []IInv
BY InitInv, NextInv, PTL DEF Spec

(* Every variable of codec and read loop keeps its type; rpcCh never holds     *)
(* more than its capacity.                                                     *)
THEOREM TypeCorrect ==
    Spec => []TypeOK
<1>1. IInv => TypeOK
  BY DEF IInv
<1>. QED BY <1>1, Invariance, PTL

(* Decode reverses Encode: it finds no JSON only when two goroutines have       *)
(* mixed their frames on the connection, and refuses a length only when it is   *)
(* that of a message larger than this node accepts, for any scripts and sizes. *)
THEOREM DecoderReversesEncode ==
    Spec => []DecoderReverses
<1>1. IInv => DecoderReverses
  BY DEF IInv
<1>. QED BY <1>1, Invariance, PTL

(* The read loop delivers a prefix of what Encode returned nil for, in order,   *)
(* without gaps and without a wrong message, mixed frames or not.              *)
THEOREM DeliveryInOrder ==
    Spec => []InOrder
<1>1. IInv => InOrder
  <2> SUFFICES ASSUME IInv PROVE InOrder
    OBVIOUS
  <2> DEFINE D == Delivered
             n == Len(D)
  <2>1. D \in Seq(Messages) /\ n \in Nat /\ framed \in Seq(Messages) /\ Len(framed) \in Nat
    BY HoldingType DEF IInv, TypeOK
  <2>2. n <= Len(framed) /\ \A i \in 1..n : D[i] = framed[i]
    BY DEF IInv, DeliveredFirst
  <2> HIDE DEF D
  <2>3. SubSeq(D, 1, n) \in Seq(Messages) /\ Len(SubSeq(D, 1, n)) = n
        /\ \A i \in 1..n : SubSeq(D, 1, n)[i] = D[i]
    BY <2>1
  <2>4. SubSeq(framed, 1, n) \in Seq(Messages) /\ Len(SubSeq(framed, 1, n)) = n
        /\ \A i \in 1..n : SubSeq(framed, 1, n)[i] = framed[i]
    BY <2>1, <2>2
  <2>5. SubSeq(D, 1, n) = SubSeq(framed, 1, n)
    BY <2>2, <2>3, <2>4, SeqEqual
  <2>6. IsPrefix(D, framed)
    BY <2>2, <2>5 DEF IsPrefix
  <2>. QED BY <2>6 DEF InOrder, D, Delivered
<1>. QED BY <1>1, Invariance, PTL
=============================================================================
