---------------------------- MODULE Flows_proofs ----------------------------
(***************************************************************************)
(* Theorems about what flows from the native process to a client, as       *)
(* MCFlows puts it to work: the event stream of an attempt (CodexStream),  *)
(* for any messages and limits and any number of events, and the channel   *)
(* it implements (EventChannel); and the event feed (EventFeed), for any   *)
(* dialogs, any limits of a window and any number of events, lost          *)
(* connections and restarts.                                               *)
(***************************************************************************)
EXTENDS MCFlows, WellFoundedInduction, TLAPS

-----------------------------------------------------------------------------
\* The stream of an attempt.

\* The items of a queue stand for events in order, without a gap, up to event p.
InOrder(q, p) ==
  /\ \A i \in 1..Len(q) : /\ 0 <= q[i].lo /\ q[i].lo <= q[i].hi /\ q[i].hi <= p
                          /\ q[i].kind = "delta" => q[i].msg \in Messages
  /\ \A i, j \in 1..Len(q) : i < j => q[i].hi < q[j].lo
  /\ \A i \in 1..(Len(q) - 1) : q[i + 1].lo = q[i].hi + 1
  /\ q # <<>> => q[Len(q)].hi = p

IsDelta(e, m) == e.kind = "delta" /\ e.msg = m

\* The deltas of a message that wait have the indices from the number of those the
\* reader was now to the number of those that were begun.
Numbered(q, read, begun) ==
  \A m \in Messages :
    /\ read[m] <= begun[m]
    /\ \A i \in 1..Len(q) : IsDelta(q[i], m) =>
           read[m] <= q[i].index /\ q[i].index < begun[m]
    /\ \A i, j \in 1..Len(q) :
         i < j /\ IsDelta(q[i], m) /\ IsDelta(q[j], m) => q[i].index < q[j].index
    /\ \A n \in read[m]..(begun[m] - 1) :
         \E i \in 1..Len(q) : IsDelta(q[i], m) /\ q[i].index = n

Final == {"terminal", "unknown"}

\* A stream that did not fail has everything in its queue that was not read yet.
QueueInv ==
  ~failed =>
    /\ InOrder(Stream!Queue, pushed) /\ Numbered(Stream!Queue, readDelta, deltas)
    /\ activated /\ events = <<>> => given = 0..pushed
    /\ activated /\ events # <<>> => given = 0..(events[1].lo - 1)
    /\ ~activated => events = <<>> /\ given = {}
    /\ ~activated /\ early = <<>> => pushed = 0
    /\ ~activated /\ early # <<>> => early[1].lo = 1

\* One that failed has an UnknownEvent or had it.
FailedInv ==
  failed => /\ closed /\ terminal = "unknown" /\ early = <<>>
            /\ \/ events = <<Stream!Lost>>
               \/ events = <<>> /\ last = "unknown"

\* One that ended has its last event, or the reader had it.
ClosedInv ==
  /\ closed <=> terminal # "none"
  /\ closed /\ ~failed /\ Stream!Queue = <<>> => last \in Final /\ activated
  /\ closed /\ ~failed /\ Stream!Queue # <<>>
        => Stream!Queue[Len(Stream!Queue)].kind \in Final

\* Only an activated stream has a reader.
ReaderInv == rpc # "none" => activated

\* The inductive invariant of the stream.
StreamInv ==
  /\ Stream!TypeOK /\ Stream!TerminalBeforeEnd /\ Stream!NoEarlySleep
  /\ QueueInv /\ FailedInv /\ ClosedInv /\ ReaderInv

-----------------------------------------------------------------------------
\* Queues.

\* The constants of the stream.
LEMMA StreamConstants ==
  ASSUME Stream!StreamAssumption
  PROVE  MaximumQueuedEvents \in Nat /\ MaximumQueuedEvents >= 1
BY DEF Stream!StreamAssumption

\* What an item may be.
LEMMA ItemTypes ==
  /\ \A k \in Stream!Kinds, n \in Int : Stream!Plain(k, n) \in Stream!Items
  /\ Stream!Started \in Stream!Items /\ Stream!Lost \in Stream!Items
  /\ \A k, n : /\ Stream!Plain(k, n).kind = k
                /\ Stream!Plain(k, n).lo = n /\ Stream!Plain(k, n).hi = n
  /\ Stream!Started.lo = 0 /\ Stream!Started.hi = 0 /\ Stream!Started.kind = "started"
  /\ Stream!Lost.lo = -1 /\ Stream!Lost.kind = "unknown"
BY DEF Stream!Plain, Stream!Started, Stream!Lost, Stream!Items, Stream!Kinds

\* A delta is an item.
LEMMA DeltaTypes ==
  ASSUME Stream!TypeOK, NEW m \in Messages, NEW n \in Int
  PROVE  /\ Stream!Delta(m, n) \in Stream!Items /\ Stream!Delta(m, n).lo = n
         /\ Stream!Delta(m, n).hi = n
         /\ Stream!Delta(m, n).kind = "delta" /\ Stream!Delta(m, n).msg = m
         /\ Stream!Delta(m, n).index = deltas[m]
BY DEF Stream!TypeOK, Stream!Delta, Stream!Items, Stream!Kinds

\* The fields of an item.
LEMMA ItemFields ==
  ASSUME NEW e \in Stream!Items
  PROVE  /\ e.kind \in Stream!Kinds /\ e.msg \in Messages \cup {"none"}
         /\ e.index \in Int /\ e.lo \in Int /\ e.hi \in Int
BY DEF Stream!Items

\* A queue with an item more.
LEMMA AppendItem ==
  ASSUME NEW q \in Seq(Stream!Items), NEW e \in Stream!Items
  PROVE  /\ Append(q, e) \in Seq(Stream!Items) /\ Append(q, e) # <<>>
         /\ Len(Append(q, e)) = Len(q) + 1 /\ Len(q) \in Nat
         /\ Append(q, e)[Len(q) + 1] = e
         /\ \A i \in 1..Len(q) : Append(q, e)[i] = q[i] /\ q[i] \in Stream!Items
OBVIOUS

\* The next event at its end.
LEMMA InOrderAppend ==
  ASSUME NEW q \in Seq(Stream!Items), NEW p \in Nat, InOrder(q, p),
         q = <<>> \/ p = q[Len(q)].hi,
         NEW e \in Stream!Items, e.lo = p + 1, e.hi = p + 1,
         e.kind = "delta" => e.msg \in Messages
  PROVE  /\ InOrder(Append(q, e), p + 1)
         /\ Append(q, e)[1].lo = IF q = <<>> THEN p + 1 ELSE q[1].lo
<1> DEFINE r == Append(q, e)
<1>1. /\ Len(r) = Len(q) + 1 /\ Len(q) \in Nat /\ r[Len(q) + 1] = e /\ r # <<>>
      /\ \A i \in 1..Len(q) : r[i] = q[i] /\ q[i] \in Stream!Items
  BY AppendItem
<1>2. \A i \in 1..Len(q) : q[i].lo \in Int /\ q[i].hi \in Int
  BY <1>1, ItemFields
<1>3. q # <<>> => Len(q) >= 1
  BY <1>1
<1>4. q = <<>> => Len(q) = 0
  OBVIOUS
<1> HIDE DEF r
<1>5. \A i \in 1..Len(r) : /\ 0 <= r[i].lo /\ r[i].lo <= r[i].hi /\ r[i].hi <= p + 1
                           /\ r[i].kind = "delta" => r[i].msg \in Messages
  <2>1. SUFFICES ASSUME NEW i \in 1..Len(r)
                 PROVE  /\ 0 <= r[i].lo /\ r[i].lo <= r[i].hi /\ r[i].hi <= p + 1
                        /\ r[i].kind = "delta" => r[i].msg \in Messages
    OBVIOUS
  <2>2. CASE i \in 1..Len(q)
    <3>1. r[i] = q[i]
      BY <1>1, <2>2
    <3>2. /\ 0 <= q[i].lo /\ q[i].lo <= q[i].hi /\ q[i].hi <= p
          /\ q[i].kind = "delta" => q[i].msg \in Messages
      BY <2>2 DEF InOrder
    <3> QED  BY <1>2, <2>2, <3>1, <3>2
  <2>3. CASE i = Len(q) + 1
    BY <1>1, <2>3
  <2> QED  BY <1>1, <2>2, <2>3
<1>6. \A i, j \in 1..Len(r) : i < j => r[i].hi < r[j].lo
  <2>1. SUFFICES ASSUME NEW i \in 1..Len(r), NEW j \in 1..Len(r), i < j
                 PROVE  r[i].hi < r[j].lo
    OBVIOUS
  <2>2. i \in 1..Len(q) /\ r[i] = q[i]
    BY <1>1, <2>1
  <2>3. CASE j \in 1..Len(q)
    BY <1>1, <2>1, <2>2, <2>3 DEF InOrder
  <2>4. CASE j = Len(q) + 1
    <3>1. r[j].lo = p + 1
      BY <1>1, <2>4
    <3>2. q[i].hi <= p
      BY <2>2 DEF InOrder
    <3> QED  BY <1>2, <2>2, <3>1, <3>2
  <2> QED  BY <1>1, <2>3, <2>4
<1>7. \A i \in 1..(Len(r) - 1) : r[i + 1].lo = r[i].hi + 1
  <2>1. SUFFICES ASSUME NEW i \in 1..Len(q) PROVE r[i + 1].lo = r[i].hi + 1
    BY <1>1
  <2>2. CASE i < Len(q)
    <3>1. i + 1 \in 1..Len(q) /\ i \in 1..(Len(q) - 1)
      BY <1>1, <2>2
    <3>2. r[i + 1] = q[i + 1] /\ r[i] = q[i]
      BY <1>1, <3>1
    <3> QED  BY <3>1, <3>2 DEF InOrder
  <2>3. CASE i = Len(q)
    <3>1. r[i + 1] = e /\ r[i] = q[i] /\ q # <<>>
      BY <1>1, <1>4, <2>3
    <3> QED  BY <2>3, <3>1
  <2> QED  BY <1>1, <2>2, <2>3
<1>8. r[Len(r)].hi = p + 1
  BY <1>1
<1>9. r[1].lo = IF q = <<>> THEN p + 1 ELSE q[1].lo
  BY <1>1, <1>3, <1>4
<1>10. InOrder(r, p + 1)
  BY <1>5, <1>6, <1>7, <1>8 DEF InOrder
<1> QED  BY <1>9, <1>10 DEF r

\* A delta that joins the last item of a queue.
LEMMA MergeItem ==
  ASSUME NEW q \in Seq(Stream!Items), q # <<>>, NEW p \in Nat
  PROVE  LET r == [q EXCEPT ![Len(q)].hi = p]
         IN /\ r \in Seq(Stream!Items) /\ Len(r) = Len(q) /\ r # <<>>
            /\ Len(q) \in 1..Len(q)
            /\ r[Len(q)].hi = p /\ r[Len(q)] \in Stream!Items
            /\ \A i \in 1..Len(q) : /\ r[i].kind = q[i].kind /\ r[i].msg = q[i].msg
                                    /\ r[i].index = q[i].index /\ r[i].lo = q[i].lo
                                    /\ i # Len(q) => r[i] = q[i]
<1> DEFINE r == [q EXCEPT ![Len(q)].hi = p]
<1> DEFINE z == [q[Len(q)] EXCEPT !.hi = p]
<1>1. Len(q) \in 1..Len(q) /\ q[Len(q)] \in Stream!Items
  OBVIOUS
<1>2. /\ z \in Stream!Items /\ z.hi = p /\ z.kind = q[Len(q)].kind /\ z.msg = q[Len(q)].msg
      /\ z.index = q[Len(q)].index /\ z.lo = q[Len(q)].lo
  BY <1>1 DEF Stream!Items
<1>3. r = [q EXCEPT ![Len(q)] = z]
  OBVIOUS
<1> HIDE DEF r, z
<1>4. r \in Seq(Stream!Items) /\ Len(r) = Len(q) /\ r # <<>>
  BY <1>1, <1>2, <1>3
<1>5. r[Len(q)] = z /\ \A i \in 1..Len(q) : i # Len(q) => r[i] = q[i]
  BY <1>1, <1>3
<1> QED  BY <1>1, <1>2, <1>4, <1>5 DEF r

\* The queue stays in order.
LEMMA InOrderMerge ==
  ASSUME NEW q \in Seq(Stream!Items), q # <<>>, NEW p \in Nat, InOrder(q, p),
         NEW r \in Seq(Stream!Items), Len(r) = Len(q), r # <<>>, r[Len(q)].hi = p + 1,
         \A i \in 1..Len(q) : /\ r[i].kind = q[i].kind /\ r[i].msg = q[i].msg
                              /\ r[i].index = q[i].index /\ r[i].lo = q[i].lo
                              /\ i # Len(q) => r[i] = q[i]
  PROVE  InOrder(r, p + 1) /\ r[1].lo = q[1].lo
<1>1. Len(q) \in Nat /\ Len(q) >= 1
  OBVIOUS
<1>2. \A i \in 1..Len(q) : /\ q[i].lo \in Int /\ q[i].hi \in Int
                           /\ r[i].lo \in Int /\ r[i].hi \in Int
  <2>1. \A i \in 1..Len(q) : q[i] \in Stream!Items /\ r[i] \in Stream!Items
    OBVIOUS
  <2> QED  BY <2>1, ItemFields
<1>3. \A i \in 1..Len(q) : r[i].hi = IF i = Len(q) THEN p + 1 ELSE q[i].hi
  OBVIOUS
<1>4. \A i \in 1..Len(r) : /\ 0 <= r[i].lo /\ r[i].lo <= r[i].hi /\ r[i].hi <= p + 1
                           /\ r[i].kind = "delta" => r[i].msg \in Messages
  <2>1. SUFFICES ASSUME NEW i \in 1..Len(q)
                 PROVE  /\ 0 <= r[i].lo /\ r[i].lo <= r[i].hi /\ r[i].hi <= p + 1
                        /\ r[i].kind = "delta" => r[i].msg \in Messages
    OBVIOUS
  <2>2. /\ 0 <= q[i].lo /\ q[i].lo <= q[i].hi /\ q[i].hi <= p
        /\ q[i].kind = "delta" => q[i].msg \in Messages
    BY DEF InOrder
  <2> QED  BY <1>2, <1>3, <2>2
<1>5. \A i, j \in 1..Len(r) : i < j => r[i].hi < r[j].lo
  <2>1. SUFFICES ASSUME NEW i \in 1..Len(q), NEW j \in 1..Len(q), i < j
                 PROVE  r[i].hi < r[j].lo
    OBVIOUS
  <2>2. q[i].hi < q[j].lo /\ i # Len(q)
    BY <1>1, <2>1 DEF InOrder
  <2> QED  BY <1>3, <2>2
<1>6. \A i \in 1..(Len(r) - 1) : r[i + 1].lo = r[i].hi + 1
  <2>1. SUFFICES ASSUME NEW i \in 1..(Len(q) - 1) PROVE r[i + 1].lo = r[i].hi + 1
    OBVIOUS
  <2>2. i \in 1..Len(q) /\ i + 1 \in 1..Len(q) /\ i # Len(q)
    BY <1>1
  <2>3. q[i + 1].lo = q[i].hi + 1
    BY DEF InOrder
  <2> QED  BY <2>2, <2>3
<1> QED  BY <1>1, <1>4, <1>5, <1>6 DEF InOrder

\* Its deltas keep their numbers.
LEMMA NumberedMerge ==
  ASSUME NEW q, NEW r, Len(r) = Len(q), NEW read, NEW begun, Numbered(q, read, begun),
         \A i \in 1..Len(q) : /\ r[i].kind = q[i].kind /\ r[i].msg = q[i].msg
                              /\ r[i].index = q[i].index
  PROVE  Numbered(r, read, begun)
<1>1. \A m : \A i \in 1..Len(q) : IsDelta(r[i], m) <=> IsDelta(q[i], m)
  BY DEF IsDelta
<1>2. ASSUME NEW m \in Messages
      PROVE
        /\ read[m] <= begun[m]
        /\ \A i \in 1..Len(r) : IsDelta(r[i], m) =>
               read[m] <= r[i].index /\ r[i].index < begun[m]
        /\ \A i, j \in 1..Len(r) :
             i < j /\ IsDelta(r[i], m) /\ IsDelta(r[j], m) => r[i].index < r[j].index
        /\ \A n \in read[m]..(begun[m] - 1) :
             \E i \in 1..Len(r) : IsDelta(r[i], m) /\ r[i].index = n
  <2>0. /\ read[m] <= begun[m]
        /\ \A i \in 1..Len(q) : IsDelta(q[i], m) =>
               read[m] <= q[i].index /\ q[i].index < begun[m]
        /\ \A i, j \in 1..Len(q) :
             i < j /\ IsDelta(q[i], m) /\ IsDelta(q[j], m) => q[i].index < q[j].index
        /\ \A n \in read[m]..(begun[m] - 1) :
             \E i \in 1..Len(q) : IsDelta(q[i], m) /\ q[i].index = n
    BY DEF Numbered
  <2>1. \A i \in 1..Len(r) : IsDelta(r[i], m) =>
            read[m] <= r[i].index /\ r[i].index < begun[m]
    BY <1>1, <2>0
  <2>2. \A i, j \in 1..Len(r) :
          i < j /\ IsDelta(r[i], m) /\ IsDelta(r[j], m) => r[i].index < r[j].index
    BY <1>1, <2>0
  <2>3. ASSUME NEW n \in read[m]..(begun[m] - 1)
        PROVE  \E i \in 1..Len(r) : IsDelta(r[i], m) /\ r[i].index = n
    <3>1. PICK i \in 1..Len(q) : IsDelta(q[i], m) /\ q[i].index = n
      BY <2>0
    <3> QED  BY <1>1, <3>1
  <2> QED  BY <2>0, <2>1, <2>2, <2>3
<1> QED  BY <1>2 DEF Numbered

\* An item that is no delta changes no number.
LEMMA NumberedAppend ==
  ASSUME NEW q \in Seq(Stream!Items), NEW e \in Stream!Items, e.kind # "delta", NEW read,
         NEW begun,
         Numbered(q, read, begun)
  PROVE  Numbered(Append(q, e), read, begun)
<1> DEFINE r == Append(q, e)
<1>1. /\ Len(r) = Len(q) + 1 /\ Len(q) \in Nat /\ r[Len(q) + 1] = e
      /\ \A i \in 1..Len(q) : r[i] = q[i]
  BY AppendItem
<1> HIDE DEF r
<1>2. \A m : \A i \in 1..Len(r) : IsDelta(r[i], m) => i \in 1..Len(q) /\ r[i] = q[i]
  BY <1>1 DEF IsDelta
<1>3. \A i \in 1..Len(q) : i \in 1..Len(r) /\ r[i] = q[i]
  BY <1>1
<1>4. SUFFICES ASSUME NEW m \in Messages
      PROVE
        /\ read[m] <= begun[m]
        /\ \A i \in 1..Len(r) : IsDelta(r[i], m) =>
               read[m] <= r[i].index /\ r[i].index < begun[m]
        /\ \A i, j \in 1..Len(r) :
             i < j /\ IsDelta(r[i], m) /\ IsDelta(r[j], m) => r[i].index < r[j].index
        /\ \A n \in read[m]..(begun[m] - 1) :
             \E i \in 1..Len(r) : IsDelta(r[i], m) /\ r[i].index = n
  BY DEF Numbered, r
<1>5. read[m] <= begun[m]
  BY DEF Numbered
<1>6. \A i \in 1..Len(r) : IsDelta(r[i], m) =>
          read[m] <= r[i].index /\ r[i].index < begun[m]
  BY <1>2 DEF Numbered
<1>7. \A i, j \in 1..Len(r) :
        i < j /\ IsDelta(r[i], m) /\ IsDelta(r[j], m) => r[i].index < r[j].index
  BY <1>2 DEF Numbered
<1>8. \A n \in read[m]..(begun[m] - 1) :
        \E i \in 1..Len(r) : IsDelta(r[i], m) /\ r[i].index = n
  BY <1>3 DEF Numbered
<1> QED  BY <1>5, <1>6, <1>7, <1>8

\* A delta that begins an item takes the next number of its message.
LEMMA NumberedDelta ==
  ASSUME NEW q \in Seq(Stream!Items), NEW e \in Stream!Items, NEW d \in Messages,
         IsDelta(e, d),
         NEW read \in [Messages -> Nat], NEW begun \in [Messages -> Nat],
         e.index = begun[d], Numbered(q, read, begun)
  PROVE  Numbered(Append(q, e), read, [begun EXCEPT ![d] = @ + 1])
<1> DEFINE r == Append(q, e)
<1> DEFINE more == [begun EXCEPT ![d] = @ + 1]
<1>1. /\ Len(r) = Len(q) + 1 /\ Len(q) \in Nat /\ r[Len(q) + 1] = e
      /\ \A i \in 1..Len(q) : r[i] = q[i] /\ q[i] \in Stream!Items
  BY AppendItem
<1>a. \A i \in 1..Len(q) : q[i].index \in Int
  BY <1>1, ItemFields
<1>2. \A m \in Messages : /\ more[m] = IF m = d THEN begun[m] + 1 ELSE begun[m]
                          /\ more[m] \in Nat /\ begun[m] \in Nat /\ read[m] \in Nat
  OBVIOUS
<1> HIDE DEF r, more
<1>3. \A i \in 1..Len(q) : i \in 1..Len(r) /\ r[i] = q[i]
  BY <1>1
<1>4. SUFFICES ASSUME NEW m \in Messages
      PROVE
        /\ read[m] <= more[m]
        /\ \A i \in 1..Len(r) : IsDelta(r[i], m) =>
               read[m] <= r[i].index /\ r[i].index < more[m]
        /\ \A i, j \in 1..Len(r) :
             i < j /\ IsDelta(r[i], m) /\ IsDelta(r[j], m) => r[i].index < r[j].index
        /\ \A n \in read[m]..(more[m] - 1) :
             \E i \in 1..Len(r) : IsDelta(r[i], m) /\ r[i].index = n
  BY DEF Numbered, r, more
<1>5. /\ read[m] <= begun[m]
      /\ \A i \in 1..Len(q) : IsDelta(q[i], m) =>
             read[m] <= q[i].index /\ q[i].index < begun[m]
      /\ \A i, j \in 1..Len(q) :
           i < j /\ IsDelta(q[i], m) /\ IsDelta(q[j], m) => q[i].index < q[j].index
      /\ \A n \in read[m]..(begun[m] - 1) :
           \E i \in 1..Len(q) : IsDelta(q[i], m) /\ q[i].index = n
  BY DEF Numbered
<1>m. /\ more[m] = IF m = d THEN begun[m] + 1 ELSE begun[m]
      /\ more[m] \in Nat /\ begun[m] \in Nat /\ read[m] \in Nat
  BY <1>2
<1>6. read[m] <= more[m]
  BY <1>m, <1>5
<1>7. ASSUME NEW i \in 1..Len(r), IsDelta(r[i], m)
      PROVE  read[m] <= r[i].index /\ r[i].index < more[m]
  <2>1. CASE i \in 1..Len(q)
    <3>1. r[i] = q[i] /\ q[i].index \in Int
      BY <1>a, <1>3, <2>1
    <3>2. read[m] <= q[i].index /\ q[i].index < begun[m]
      BY <1>5, <1>7, <2>1, <3>1
    <3> QED  BY <1>m, <3>1, <3>2
  <2>2. CASE i = Len(q) + 1
    <3>1. m = d /\ r[i].index = begun[d]
      BY <1>1, <1>7, <2>2 DEF IsDelta
    <3> QED  BY <1>2, <1>5, <3>1
  <2> QED  BY <1>1, <2>1, <2>2
<1>8. ASSUME NEW i \in 1..Len(r), NEW j \in 1..Len(r),
             i < j, IsDelta(r[i], m), IsDelta(r[j], m)
      PROVE  r[i].index < r[j].index
  <2>1. i \in 1..Len(q) /\ r[i] = q[i] /\ IsDelta(q[i], m)
    BY <1>1, <1>8
  <2>2. CASE j \in 1..Len(q)
    BY <1>3, <1>5, <1>8, <2>1, <2>2
  <2>3. CASE j = Len(q) + 1
    <3>1. m = d /\ r[j].index = begun[d]
      BY <1>1, <1>8, <2>3 DEF IsDelta
    <3> QED  BY <1>5, <2>1, <3>1
  <2> QED  BY <1>1, <2>2, <2>3
<1>9. ASSUME NEW n \in read[m]..(more[m] - 1)
      PROVE  \E i \in 1..Len(r) : IsDelta(r[i], m) /\ r[i].index = n
  <2>1. CASE n \in read[m]..(begun[m] - 1)
    BY <1>3, <1>5, <2>1
  <2>2. CASE n \notin read[m]..(begun[m] - 1)
    <3>1. m = d /\ n = begun[d]
      BY <1>2, <1>9, <2>2
    <3>2. Len(q) + 1 \in 1..Len(r)
      BY <1>1
    <3> QED  BY <1>1, <3>1, <3>2
  <2> QED  BY <2>1, <2>2
<1> QED  BY <1>6, <1>7, <1>8, <1>9

\* A queue without its first item.
LEMMA TailItems ==
  ASSUME NEW q \in Seq(Stream!Items), q # <<>>
  PROVE  /\ Head(q) = q[1] /\ q[1] \in Stream!Items /\ Tail(q) \in Seq(Stream!Items)
         /\ Len(q) \in Nat /\ Len(q) >= 1 /\ Len(Tail(q)) = Len(q) - 1
         /\ \A i \in 1..(Len(q) - 1) : Tail(q)[i] = q[i + 1] /\ q[i + 1] \in Stream!Items
         /\ Tail(q) = <<>> <=> Len(q) = 1
<1>1. /\ Head(q) = q[1] /\ q[1] \in Stream!Items /\ Tail(q) \in Seq(Stream!Items)
      /\ Len(q) \in Nat /\ Len(q) >= 1 /\ Len(Tail(q)) = Len(q) - 1
  OBVIOUS
<1>2. \A i \in 1..(Len(q) - 1) : Tail(q)[i] = q[i + 1] /\ q[i + 1] \in Stream!Items
  OBVIOUS
<1>3. \A t \in Seq(Stream!Items) : t = <<>> <=> Len(t) = 0
  OBVIOUS
<1>4. Tail(q) = <<>> <=> Len(Tail(q)) = 0
  BY <1>1, <1>3
<1>5. Tail(q) = <<>> <=> Len(q) = 1
  <2>1. Len(q) - 1 = 0 <=> Len(q) = 1
    BY <1>1
  <2> QED  BY <1>1, <1>4, <2>1
<1> QED  BY <1>1, <1>2, <1>5

\* What is left is in order.
LEMMA InOrderTail ==
  ASSUME NEW q \in Seq(Stream!Items), q # <<>>, NEW p \in Nat, InOrder(q, p)
  PROVE  /\ InOrder(Tail(q), p)
         /\ Tail(q) = <<>> => q[1].hi = p
         /\ Tail(q) # <<>>
               => Tail(q)[1].lo = q[1].hi + 1 /\ Tail(q)[Len(Tail(q))] = q[Len(q)]
<1> DEFINE r == Tail(q)
<1>1. /\ Len(q) \in Nat /\ Len(q) >= 1 /\ Len(r) = Len(q) - 1 /\ r \in Seq(Stream!Items)
      /\ \A i \in 1..Len(r) : i + 1 \in 1..Len(q) /\ r[i] = q[i + 1]
      /\ r = <<>> <=> Len(q) = 1
  BY TailItems
<1> HIDE DEF r
<1>2. \A i \in 1..Len(r) : /\ 0 <= r[i].lo /\ r[i].lo <= r[i].hi /\ r[i].hi <= p
                           /\ r[i].kind = "delta" => r[i].msg \in Messages
  BY <1>1 DEF InOrder
<1>3. \A i, j \in 1..Len(r) : i < j => r[i].hi < r[j].lo
  <2>1. SUFFICES ASSUME NEW i \in 1..Len(r), NEW j \in 1..Len(r), i < j
                 PROVE  r[i].hi < r[j].lo
    OBVIOUS
  <2>2. /\ i + 1 \in 1..Len(q) /\ j + 1 \in 1..Len(q) /\ i + 1 < j + 1
        /\ r[i] = q[i + 1] /\ r[j] = q[j + 1]
    BY <1>1, <2>1
  <2>3. q[i + 1].hi < q[j + 1].lo
    BY <2>2 DEF InOrder
  <2> QED  BY <2>2, <2>3
<1>4. \A i \in 1..(Len(r) - 1) : r[i + 1].lo = r[i].hi + 1
  <2>1. SUFFICES ASSUME NEW i \in 1..(Len(r) - 1) PROVE r[i + 1].lo = r[i].hi + 1
    OBVIOUS
  <2>2. /\ i \in 1..Len(r) /\ i + 1 \in 1..Len(r) /\ i + 1 \in 1..(Len(q) - 1)
        /\ (i + 1) + 1 = i + 2
    BY <1>1
  <2>3. q[(i + 1) + 1].lo = q[i + 1].hi + 1
    BY <2>2 DEF InOrder
  <2>4. r[i] = q[i + 1] /\ r[i + 1] = q[(i + 1) + 1]
    BY <1>1, <2>2
  <2> QED  BY <2>3, <2>4
<1>5. r # <<>> => r[Len(r)] = q[Len(q)] /\ r[Len(r)].hi = p
  <2>1. SUFFICES ASSUME r # <<>> PROVE r[Len(r)] = q[Len(q)] /\ r[Len(r)].hi = p
    OBVIOUS
  <2>2. Len(r) \in 1..Len(r) /\ Len(r) + 1 = Len(q) /\ Len(q) > 1
    BY <1>1, <2>1
  <2>3. r[Len(r)] = q[Len(q)]
    BY <1>1, <2>2
  <2> QED  BY <2>3 DEF InOrder
<1>6. r = <<>> => q[1].hi = p
  BY <1>1 DEF InOrder
<1>7. r # <<>> => r[1].lo = q[1].hi + 1
  <2>1. SUFFICES ASSUME r # <<>> PROVE r[1].lo = q[1].hi + 1
    OBVIOUS
  <2>2. 1 \in 1..(Len(q) - 1) /\ 1 \in 1..Len(r) /\ 1 + 1 = 2
    BY <1>1, <2>1
  <2>3. r[1] = q[1 + 1] /\ q[1 + 1].lo = q[1].hi + 1
    BY <1>1, <2>2 DEF InOrder
  <2> QED  BY <2>3
<1> QED  BY <1>2, <1>3, <1>4, <1>5, <1>6, <1>7 DEF InOrder, r

\* The first delta of a message has the number of those the reader was now.
LEMMA NumberedTail ==
  ASSUME NEW q \in Seq(Stream!Items), q # <<>>,
         NEW read \in [Messages -> Nat], NEW begun \in [Messages -> Nat],
         Numbered(q, read, begun), q[1].kind = "delta" => q[1].msg \in Messages,
         NEW now,
         now = IF q[1].kind = "delta" THEN [read EXCEPT ![q[1].msg] = @ + 1] ELSE read
  PROVE  /\ Numbered(Tail(q), now, begun)
         /\ q[1].kind = "delta" => q[1].index = read[q[1].msg]
<1> DEFINE r == Tail(q)
<1>1. /\ Len(q) \in Nat /\ Len(q) >= 1 /\ Len(r) = Len(q) - 1 /\ q[1] \in Stream!Items
      /\ \A i \in 1..Len(r) : i + 1 \in 1..Len(q) /\ r[i] = q[i + 1] /\ q[i + 1] \in Stream!Items
  BY TailItems
<1>a. q[1].index \in Int /\ \A i \in 1..Len(r) : r[i].index \in Int
  BY <1>1, ItemFields
<1> HIDE DEF r
<1>b. 1 \in 1..Len(q)
  BY <1>1
<1>2. ASSUME NEW m \in Messages
      PROVE
        /\ IsDelta(q[1], m) => q[1].index = read[m]
        /\ now[m] <= begun[m]
        /\ \A i \in 1..Len(r) : IsDelta(r[i], m) =>
               now[m] <= r[i].index /\ r[i].index < begun[m]
        /\ \A i, j \in 1..Len(r) :
             i < j /\ IsDelta(r[i], m) /\ IsDelta(r[j], m) => r[i].index < r[j].index
        /\ \A n \in now[m]..(begun[m] - 1) :
             \E i \in 1..Len(r) : IsDelta(r[i], m) /\ r[i].index = n
  <2>0. /\ read[m] <= begun[m]
        /\ \A i \in 1..Len(q) : IsDelta(q[i], m) =>
               read[m] <= q[i].index /\ q[i].index < begun[m]
        /\ \A i, j \in 1..Len(q) :
             i < j /\ IsDelta(q[i], m) /\ IsDelta(q[j], m) => q[i].index < q[j].index
        /\ \A n \in read[m]..(begun[m] - 1) :
             \E i \in 1..Len(q) : IsDelta(q[i], m) /\ q[i].index = n
    BY DEF Numbered
  <2>1. now[m] = IF IsDelta(q[1], m) THEN read[m] + 1 ELSE read[m]
    BY DEF IsDelta
  <2>2. read[m] \in Nat /\ begun[m] \in Nat
    OBVIOUS
  <2>3. ASSUME IsDelta(q[1], m) PROVE q[1].index = read[m]
    <3>1. read[m] <= q[1].index /\ q[1].index < begun[m]
      BY <1>b, <2>0, <2>3
    <3>2. read[m] \in read[m]..(begun[m] - 1)
      BY <1>a, <2>2, <3>1
    <3>3. PICK i \in 1..Len(q) : IsDelta(q[i], m) /\ q[i].index = read[m]
      BY <2>0, <3>2
    <3>4. CASE i = 1
      BY <3>3, <3>4
    <3>5. CASE i # 1
      <4>1. 1 < i
        BY <1>1, <3>5
      <4>2. q[1].index < q[i].index
        BY <1>b, <2>0, <2>3, <3>3, <4>1
      <4> QED  BY <1>a, <2>2, <3>1, <3>3, <4>2
    <3> QED  BY <3>4, <3>5
  <2>4. now[m] <= begun[m]
    <3>1. CASE IsDelta(q[1], m)
      <4>1. q[1].index = read[m] /\ q[1].index < begun[m]
        BY <1>b, <2>0, <2>3, <3>1
      <4> QED  BY <2>1, <2>2, <3>1, <4>1
    <3>2. CASE ~IsDelta(q[1], m)
      BY <2>0, <2>1, <3>2
    <3> QED  BY <3>1, <3>2
  <2>5. ASSUME NEW i \in 1..Len(r), IsDelta(r[i], m)
        PROVE  now[m] <= r[i].index /\ r[i].index < begun[m]
    <3>1. i + 1 \in 1..Len(q) /\ r[i] = q[i + 1] /\ 1 < i + 1 /\ r[i].index \in Int
      BY <1>1, <1>a
    <3>2. read[m] <= r[i].index /\ r[i].index < begun[m]
      BY <2>0, <2>5, <3>1
    <3>3. CASE IsDelta(q[1], m)
      <4>1. q[1].index < r[i].index
        BY <1>b, <2>0, <2>5, <3>1, <3>3
      <4> QED  BY <2>1, <2>2, <2>3, <3>1, <3>2, <3>3, <4>1
    <3>4. CASE ~IsDelta(q[1], m)
      BY <2>1, <3>2, <3>4
    <3> QED  BY <3>3, <3>4
  <2>6. ASSUME NEW i \in 1..Len(r), NEW j \in 1..Len(r),
               i < j, IsDelta(r[i], m), IsDelta(r[j], m)
        PROVE  r[i].index < r[j].index
    <3>1. /\ i + 1 \in 1..Len(q) /\ r[i] = q[i + 1] /\ i + 1 < j + 1
          /\ j + 1 \in 1..Len(q) /\ r[j] = q[j + 1]
      <4>1. i + 1 < j + 1
        BY <2>6
      <4>2. i + 1 \in 1..Len(q) /\ r[i] = q[i + 1]
        BY <1>1
      <4>3. j + 1 \in 1..Len(q) /\ r[j] = q[j + 1]
        BY <1>1
      <4> QED  BY <4>1, <4>2, <4>3
    <3> QED  BY <2>0, <2>6, <3>1
  <2>7. ASSUME NEW n \in now[m]..(begun[m] - 1)
        PROVE  \E i \in 1..Len(r) : IsDelta(r[i], m) /\ r[i].index = n
    <3>1. n \in read[m]..(begun[m] - 1)
      BY <2>1, <2>2
    <3>2. PICK i \in 1..Len(q) : IsDelta(q[i], m) /\ q[i].index = n
      BY <2>0, <3>1
    <3>3. i # 1
      BY <2>1, <2>2, <2>3, <3>2
    <3>4. i - 1 \in 1..Len(r) /\ r[i - 1] = q[(i - 1) + 1] /\ (i - 1) + 1 = i
      BY <1>1, <3>3
    <3> QED  BY <3>2, <3>4
  <2> QED  BY <2>3, <2>4, <2>5, <2>6, <2>7
<1>3. Numbered(r, now, begun)
  BY <1>2 DEF Numbered
<1>4. q[1].kind = "delta" => q[1].index = read[q[1].msg]
  BY <1>2 DEF IsDelta
<1> QED  BY <1>3, <1>4 DEF r

\* StartedEvent in front of what waited.
LEMMA StartedFirst ==
  ASSUME NEW q \in Seq(Stream!Items), NEW p \in Nat, InOrder(q, p),
         q = <<>> => p = 0, q # <<>> => q[1].lo = 1,
         NEW read, NEW begun, Numbered(q, read, begun)
  PROVE  LET r == <<Stream!Started>> \o q
         IN /\ r \in Seq(Stream!Items) /\ r # <<>> /\ Len(r) = Len(q) + 1
            /\ r[1] = Stream!Started
            /\ q # <<>> => r[Len(r)] = q[Len(q)]
            /\ InOrder(r, p) /\ Numbered(r, read, begun)
<1> DEFINE r == <<Stream!Started>> \o q
<1>1. /\ r \in Seq(Stream!Items) /\ r # <<>> /\ Len(r) = Len(q) + 1 /\ Len(q) \in Nat
      /\ r[1] = Stream!Started
      /\ \A i \in 1..Len(q) : i + 1 \in 1..Len(r) /\ r[i + 1] = q[i] /\ q[i] \in Stream!Items
      /\ q = <<>> <=> Len(q) = 0
  <2>1. /\ <<Stream!Started>> \in Seq(Stream!Items)
        /\ Len(<<Stream!Started>>) = 1
        /\ <<Stream!Started>>[1] = Stream!Started
    BY ItemTypes
  <2> HIDE DEF r
  <2>2. ASSUME NEW s \in Seq(Stream!Items), Len(s) = 1
        PROVE  /\ s \o q \in Seq(Stream!Items) /\ Len(s \o q) = Len(q) + 1 /\ Len(q) \in Nat
               /\ (s \o q)[1] = s[1] /\ s \o q # <<>>
               /\ \A i \in 1..Len(q) : i + 1 \in 1..Len(s \o q) /\ (s \o q)[i + 1] = q[i]
    <3>1. s \o q \in Seq(Stream!Items) /\ Len(s \o q) = Len(s) + Len(q) /\ Len(q) \in Nat
      OBVIOUS
    <3>2. \A i \in 1..(Len(s) + Len(q)) :
            (s \o q)[i] = IF i <= Len(s) THEN s[i] ELSE q[i - Len(s)]
      OBVIOUS
    <3>3. (s \o q)[1] = s[1]
      BY <2>2, <3>1, <3>2
    <3>4. ASSUME NEW i \in 1..Len(q)
          PROVE  i + 1 \in 1..Len(s \o q) /\ (s \o q)[i + 1] = q[i]
      <4>1. i + 1 \in 1..(Len(s) + Len(q)) /\ ~(i + 1 <= Len(s)) /\ (i + 1) - Len(s) = i
        BY <2>2, <3>1
      <4> QED  BY <3>1, <3>2, <4>1
    <3>5. Len(s \o q) # 0
      BY <2>2, <3>1
    <3>6. s \o q # <<>>
      BY <3>5
    <3> QED  BY <2>2, <3>1, <3>3, <3>4, <3>6
  <2>3. \A i \in 1..Len(q) : q[i] \in Stream!Items
    OBVIOUS
  <2>4. q = <<>> <=> Len(q) = 0
    OBVIOUS
  <2> QED  BY <2>1, <2>2, <2>3, <2>4 DEF r
<1> HIDE DEF r
<1>2. \A i \in 1..Len(r) : i = 1 \/ (i - 1 \in 1..Len(q) /\ r[i] = q[i - 1])
  <2>1. SUFFICES ASSUME NEW i \in 1..Len(r), i # 1
               PROVE  i - 1 \in 1..Len(q) /\ r[i] = q[i - 1]
    OBVIOUS
  <2>2. i - 1 \in 1..Len(q) /\ (i - 1) + 1 = i
    BY <1>1, <2>1
  <2> QED  BY <1>1, <2>2
<1>3. Stream!Started.lo = 0 /\ Stream!Started.hi = 0 /\ Stream!Started.kind = "started"
  BY ItemTypes
<1>a. \A i \in 1..Len(q) : q[i].lo \in Int /\ q[i].hi \in Int
  BY <1>1, ItemFields
<1>b. \A i \in 1..Len(q) : q[i].lo >= 1
  <2>1. SUFFICES ASSUME NEW i \in 1..Len(q), i # 1 PROVE q[i].lo >= 1
    BY <1>1
  <2>2. 1 \in 1..Len(q) /\ 1 < i
    BY <1>1, <2>1
  <2>3. q[1].hi < q[i].lo /\ q[1].lo <= q[1].hi /\ q[1].lo = 1
    BY <1>1, <2>2 DEF InOrder
  <2> QED  BY <1>a, <2>2, <2>3
<1>4. \A i \in 1..Len(r) : /\ 0 <= r[i].lo /\ r[i].lo <= r[i].hi /\ r[i].hi <= p
                           /\ r[i].kind = "delta" => r[i].msg \in Messages
  <2>1. SUFFICES ASSUME NEW i \in 1..Len(r)
                 PROVE  /\ 0 <= r[i].lo /\ r[i].lo <= r[i].hi /\ r[i].hi <= p
                        /\ r[i].kind = "delta" => r[i].msg \in Messages
    OBVIOUS
  <2>2. CASE i = 1
    BY <1>1, <1>3, <2>2
  <2>3. CASE i # 1
    BY <1>2, <2>3 DEF InOrder
  <2> QED  BY <2>2, <2>3
<1>5. \A i, j \in 1..Len(r) : i < j => r[i].hi < r[j].lo
  <2>1. SUFFICES ASSUME NEW i \in 1..Len(r), NEW j \in 1..Len(r), i < j
                 PROVE  r[i].hi < r[j].lo
    OBVIOUS
  <2>2. j - 1 \in 1..Len(q) /\ r[j] = q[j - 1]
    BY <1>1, <1>2, <2>1
  <2>3. CASE i = 1
    <3>1. q[j - 1].lo >= 1 /\ q[j - 1].lo \in Int
      BY <1>a, <1>b, <2>2
    <3> QED  BY <1>1, <1>3, <2>2, <2>3, <3>1
  <2>4. CASE i # 1
    <3>1. i - 1 \in 1..Len(q) /\ r[i] = q[i - 1] /\ i - 1 < j - 1
      BY <1>1, <1>2, <2>1, <2>4
    <3> QED  BY <2>2, <3>1 DEF InOrder
  <2> QED  BY <2>3, <2>4
<1>6. \A i \in 1..(Len(r) - 1) : r[i + 1].lo = r[i].hi + 1
  <2>1. SUFFICES ASSUME NEW i \in 1..Len(q) PROVE r[i + 1].lo = r[i].hi + 1
    BY <1>1
  <2>2. r[i + 1] = q[i]
    BY <1>1
  <2>3. CASE i = 1
    <3>1. q[1].lo = 1
      BY <1>1, <2>3
    <3> QED  BY <1>1, <1>3, <2>2, <2>3, <3>1
  <2>4. CASE i # 1
    <3>1. i - 1 \in 1..(Len(q) - 1) /\ r[i] = q[i - 1] /\ (i - 1) + 1 = i
      BY <1>1, <1>2, <2>4
    <3> QED  BY <2>2, <3>1 DEF InOrder
  <2> QED  BY <2>3, <2>4
<1>7. q # <<>> => r[Len(r)] = q[Len(q)]
  <2>1. SUFFICES ASSUME q # <<>> PROVE r[Len(r)] = q[Len(q)]
    OBVIOUS
  <2>2. Len(q) \in 1..Len(q) /\ Len(r) = Len(q) + 1
    BY <1>1, <2>1
  <2> QED  BY <1>1, <2>2
<1>8. r[Len(r)].hi = p
  <2>1. CASE q = <<>>
    BY <1>1, <1>3, <2>1
  <2>2. CASE q # <<>>
    BY <1>7, <2>2 DEF InOrder
  <2> QED  BY <2>1, <2>2
<1>9. InOrder(r, p)
  BY <1>4, <1>5, <1>6, <1>8 DEF InOrder
<1>10. ASSUME NEW m \in Messages
      PROVE
        /\ read[m] <= begun[m]
        /\ \A i \in 1..Len(r) : IsDelta(r[i], m) =>
               read[m] <= r[i].index /\ r[i].index < begun[m]
        /\ \A i, j \in 1..Len(r) :
             i < j /\ IsDelta(r[i], m) /\ IsDelta(r[j], m) => r[i].index < r[j].index
        /\ \A n \in read[m]..(begun[m] - 1) :
             \E i \in 1..Len(r) : IsDelta(r[i], m) /\ r[i].index = n
  <2>0. /\ read[m] <= begun[m]
        /\ \A i \in 1..Len(q) : IsDelta(q[i], m) =>
               read[m] <= q[i].index /\ q[i].index < begun[m]
        /\ \A i, j \in 1..Len(q) :
             i < j /\ IsDelta(q[i], m) /\ IsDelta(q[j], m) => q[i].index < q[j].index
        /\ \A n \in read[m]..(begun[m] - 1) :
             \E i \in 1..Len(q) : IsDelta(q[i], m) /\ q[i].index = n
    BY DEF Numbered
  <2>1. \A i \in 1..Len(r) : IsDelta(r[i], m) => i - 1 \in 1..Len(q) /\ r[i] = q[i - 1]
    BY <1>1, <1>2, <1>3 DEF IsDelta
  <2>2. \A i \in 1..Len(r) : IsDelta(r[i], m) =>
            read[m] <= r[i].index /\ r[i].index < begun[m]
    BY <2>0, <2>1
  <2>3. ASSUME NEW i \in 1..Len(r), NEW j \in 1..Len(r),
               i < j, IsDelta(r[i], m), IsDelta(r[j], m)
        PROVE  r[i].index < r[j].index
    <3>1. /\ i - 1 \in 1..Len(q) /\ r[i] = q[i - 1] /\ i - 1 < j - 1
          /\ j - 1 \in 1..Len(q) /\ r[j] = q[j - 1]
      BY <1>1, <2>1, <2>3
    <3> QED  BY <2>0, <2>3, <3>1
  <2>4. ASSUME NEW n \in read[m]..(begun[m] - 1)
        PROVE  \E i \in 1..Len(r) : IsDelta(r[i], m) /\ r[i].index = n
    <3>1. PICK i \in 1..Len(q) : IsDelta(q[i], m) /\ q[i].index = n
      BY <2>0
    <3> QED  BY <1>1, <3>1
  <2> QED  BY <2>0, <2>2, <2>3, <2>4
<1>11. Numbered(r, read, begun)
  BY <1>10 DEF Numbered
<1> QED  BY <1>1, <1>7, <1>9, <1>11 DEF r

-----------------------------------------------------------------------------
\* The steps of the stream.

\* A stream begins empty.
LEMMA StreamInit ==
  ASSUME Stream!StreamAssumption, Stream!Init
  PROVE  StreamInv
<1>1. /\ <<>> \in Seq(Stream!Items) /\ Len(<<>>) = 0
  OBVIOUS
<1>2. 0 <= MaximumQueuedEvents
  BY StreamConstants
<1>3. Stream!TypeOK
  BY <1>1, <1>2 DEF Stream!Init, Stream!TypeOK
<1>4. InOrder(<<>>, 0)
  BY <1>1 DEF InOrder
<1>5. ASSUME NEW m \in Messages
      PROVE  /\ deltas[m] = 0 /\ readDelta[m] = 0
  BY DEF Stream!Init
<1>6. Numbered(<<>>, readDelta, deltas)
  <2>1. 1..Len(<<>>) = {} /\ 0..(0 - 1) = {}
    BY <1>1
  <2>2. ASSUME NEW m \in Messages
        PROVE  readDelta[m] <= deltas[m] /\ readDelta[m]..(deltas[m] - 1) = {}
    BY <1>5, <2>1
  <2> QED  BY <2>1, <2>2 DEF Numbered
<1>7. QueueInv
  BY <1>4, <1>6 DEF Stream!Init, QueueInv, Stream!Queue
<1> QED  BY <1>3, <1>7 DEF Stream!Init, StreamInv, FailedInv, ClosedInv, ReaderInv,
     Stream!TerminalBeforeEnd,
     Stream!NoEarlySleep, Stream!Queue

\* overflowLocked: the queue is replaced by one UnknownEvent.
LEMMA OverflowKeeps ==
  ASSUME Stream!StreamAssumption, StreamInv, Stream!Overflowed, pushed' \in Nat,
         deltas' \in [Messages -> Nat], activated' \in BOOLEAN, activated => activated',
         UNCHANGED Stream!readerVars
  PROVE  StreamInv'
<1>1. /\ <<Stream!Lost>> \in Seq(Stream!Items) /\ Len(<<Stream!Lost>>) = 1
      /\ <<>> \in Seq(Stream!Items) /\ Len(<<>>) = 0
  BY ItemTypes
<1>2. 0 <= MaximumQueuedEvents /\ 1 <= MaximumQueuedEvents
  BY StreamConstants
<1>3. Stream!TypeOK'
  BY <1>1, <1>2 DEF StreamInv, Stream!TypeOK, Stream!Overflowed, Stream!readerVars
<1> QED  BY <1>3 DEF StreamInv, Stream!Overflowed, Stream!readerVars, QueueInv, FailedInv,
     ClosedInv, ReaderInv,
     Stream!TerminalBeforeEnd, Stream!NoEarlySleep

\* An event that finds its place at the end of the queue.
LEMMA FitKeeps ==
  ASSUME StreamInv, ~closed, NEW q \in Seq(Stream!Items), q # <<>>, Stream!Fits(q),
         pushed' = pushed + 1, InOrder(q, pushed + 1), Numbered(q, readDelta, deltas'),
         q[1].lo = IF Stream!Queue = <<>> THEN pushed + 1 ELSE Stream!Queue[1].lo,
         deltas' \in [Messages -> Nat], wake' \in BOOLEAN, activated => wake',
         closed' \in BOOLEAN, terminal' \in {"none", "result", "unknown"},
         closed' <=> terminal' # "none", closed' => q[Len(q)].kind \in Final,
         UNCHANGED <<activated, failed, Stream!readerVars>>
  PROVE  StreamInv'
<1>1. ~failed /\ ~failed'
  BY DEF StreamInv, FailedInv
<1>2. Stream!Queue' = q /\ Len(q) <= MaximumQueuedEvents
  BY DEF Stream!Fits, Stream!Queue
<1>3. pushed \in Nat /\ pushed' \in Nat
  BY DEF StreamInv, Stream!TypeOK
<1>4. Stream!TypeOK'
  BY <1>2, <1>3 DEF StreamInv, Stream!TypeOK, Stream!Fits, Stream!readerVars
<1>5. CASE activated
  <2>1. events' = q /\ activated' /\ given' = given
    BY <1>5 DEF Stream!Fits, Stream!readerVars
  <2>2. given = 0..(q[1].lo - 1)
    <3>1. CASE events = <<>>
      <4>1. given = 0..pushed /\ q[1].lo = pushed + 1
        BY <1>1, <1>5, <3>1 DEF StreamInv, QueueInv, Stream!Queue
      <4>2. (pushed + 1) - 1 = pushed
        BY <1>3
      <4> QED  BY <4>1, <4>2
    <3>2. CASE events # <<>>
      BY <1>1, <1>5, <3>2 DEF StreamInv, QueueInv, Stream!Queue
    <3> QED  BY <3>1, <3>2
  <2>3. InOrder(Stream!Queue', pushed') /\ Numbered(Stream!Queue', readDelta', deltas')
    BY <1>2 DEF Stream!readerVars
  <2>4. QueueInv'
    BY <2>1, <2>2, <2>3 DEF QueueInv
  <2>5. ClosedInv'
    BY <1>2 DEF ClosedInv
  <2> QED  BY <1>1, <1>4, <1>5, <2>4, <2>5 DEF StreamInv, FailedInv, ReaderInv,
       Stream!TerminalBeforeEnd,
       Stream!NoEarlySleep, Stream!readerVars
<1>6. CASE ~activated
  <2>1. early' = q /\ ~activated' /\ given' = given /\ events' = events
    BY <1>6 DEF Stream!Fits, Stream!readerVars
  <2>2. q[1].lo = 1 /\ events = <<>> /\ given = {}
    <3>1. CASE early = <<>>
      BY <1>1, <1>6, <3>1 DEF StreamInv, QueueInv, Stream!Queue
    <3>2. CASE early # <<>>
      BY <1>1, <1>6, <3>2 DEF StreamInv, QueueInv, Stream!Queue
    <3> QED  BY <3>1, <3>2
  <2>3. InOrder(Stream!Queue', pushed') /\ Numbered(Stream!Queue', readDelta', deltas')
    BY <1>2 DEF Stream!readerVars
  <2>4. QueueInv'
    BY <2>1, <2>2, <2>3 DEF QueueInv
  <2>5. ClosedInv'
    BY <1>2 DEF ClosedInv
  <2>6. rpc = "none"
    BY <1>6 DEF StreamInv, ReaderInv
  <2> QED  BY <1>1, <1>4, <2>1, <2>4, <2>5, <2>6 DEF StreamInv, FailedInv, ReaderInv,
       Stream!TerminalBeforeEnd, Stream!NoEarlySleep, Stream!readerVars
<1> QED  BY <1>5, <1>6 DEF StreamInv, Stream!TypeOK

\* What the queue of an open stream is.
LEMMA OpenQueue ==
  ASSUME StreamInv, ~closed
  PROVE  /\ ~failed /\ Stream!Queue \in Seq(Stream!Items) /\ pushed \in Nat
         /\ InOrder(Stream!Queue, pushed) /\ Numbered(Stream!Queue, readDelta, deltas)
         /\ Stream!Queue = <<>> \/ pushed = Stream!Queue[Len(Stream!Queue)].hi
<1>1. ~failed
  BY DEF StreamInv, FailedInv
<1>2. InOrder(Stream!Queue, pushed) /\ Numbered(Stream!Queue, readDelta, deltas)
  BY <1>1 DEF StreamInv, QueueInv
<1>3. Stream!Queue \in Seq(Stream!Items) /\ pushed \in Nat
  BY DEF StreamInv, Stream!TypeOK, Stream!Queue
<1>4. Stream!Queue = <<>> \/ pushed = Stream!Queue[Len(Stream!Queue)].hi
  BY <1>2 DEF InOrder
<1> QED  BY <1>1, <1>2, <1>3, <1>4

\* push of an item or of the last event.
LEMMA AppendKeeps ==
  ASSUME StreamInv, ~closed, NEW kind \in Stream!Kinds, kind # "delta"
  PROVE  LET e == Stream!Plain(kind, pushed + 1)
             q == Append(Stream!Queue, e)
         IN /\ q \in Seq(Stream!Items) /\ q # <<>> /\ q[Len(q)] = e /\ e.kind = kind
            /\ InOrder(q, pushed + 1) /\ Numbered(q, readDelta, deltas)
            /\ q[1].lo = IF Stream!Queue = <<>> THEN pushed + 1 ELSE Stream!Queue[1].lo
<1> DEFINE e == Stream!Plain(kind, pushed + 1)
<1>1. /\ Stream!Queue \in Seq(Stream!Items) /\ pushed \in Nat
      /\ InOrder(Stream!Queue, pushed) /\ Numbered(Stream!Queue, readDelta, deltas)
      /\ Stream!Queue = <<>> \/ pushed = Stream!Queue[Len(Stream!Queue)].hi
  BY OpenQueue
<1>2. pushed + 1 \in Int
  BY <1>1
<1>3. e \in Stream!Items /\ e.kind = kind /\ e.lo = pushed + 1 /\ e.hi = pushed + 1
  BY <1>2, ItemTypes
<1> HIDE DEF e
<1>4. /\ InOrder(Append(Stream!Queue, e), pushed + 1)
      /\ Append(Stream!Queue, e)[1].lo =
               IF Stream!Queue = <<>> THEN pushed + 1 ELSE Stream!Queue[1].lo
  BY <1>1, <1>3, InOrderAppend
<1>5. Numbered(Append(Stream!Queue, e), readDelta, deltas)
  BY <1>1, <1>3, NumberedAppend
<1>6. /\ Append(Stream!Queue, e) \in Seq(Stream!Items) /\ Append(Stream!Queue, e) # <<>>
      /\ Append(Stream!Queue, e)[Len(Append(Stream!Queue, e))] = e
  BY <1>1, <1>3, AppendItem
<1> QED  BY <1>3, <1>4, <1>5, <1>6 DEF e

\* push of an event that is no delta.
LEMMA PushItemKeeps ==
  ASSUME Stream!StreamAssumption, StreamInv, Stream!PushItem
  PROVE  StreamInv'
<1> DEFINE q == Append(Stream!Queue, Stream!Plain("item", pushed + 1))
<1>1. /\ q \in Seq(Stream!Items) /\ q # <<>>
      /\ InOrder(q, pushed + 1) /\ Numbered(q, readDelta, deltas)
      /\ q[1].lo = IF Stream!Queue = <<>> THEN pushed + 1 ELSE Stream!Queue[1].lo
  BY AppendKeeps DEF Stream!PushItem, Stream!Kinds
<1>2. /\ pushed \in Nat /\ wake \in BOOLEAN /\ activated \in BOOLEAN
      /\ deltas \in [Messages -> Nat] /\ closed \in BOOLEAN
      /\ terminal \in {"none", "result", "unknown"} /\ (closed <=> terminal # "none")
  BY DEF StreamInv, Stream!TypeOK, ClosedInv
<1>3. /\ ~closed /\ pushed' = pushed + 1 /\ Stream!Filled(q)
      /\ deltas' = deltas /\ activated' = activated /\ UNCHANGED Stream!readerVars
  BY DEF Stream!PushItem
<1> HIDE DEF q
<1>4. CASE Stream!Overflowed
  BY <1>2, <1>3, <1>4, OverflowKeeps
<1>5. CASE ~Stream!Overflowed
  <2>1. /\ Stream!Fits(q) /\ wake' = (wake \/ activated) /\ closed' = closed
        /\ failed' = failed /\ terminal' = terminal
    BY <1>3, <1>5 DEF Stream!Filled
  <2>2. wake' \in BOOLEAN /\ (activated => wake')
    BY <1>2, <2>1
  <2>3. Numbered(q, readDelta, deltas') /\ deltas' \in [Messages -> Nat]
    BY <1>1, <1>2, <1>3
  <2> QED  BY <1>1, <1>2, <1>3, <2>1, <2>2, <2>3, FitKeeps
<1> QED  BY <1>4, <1>5

\* push of a delta, which may join the last item.
LEMMA PushDeltaKeeps ==
  ASSUME Stream!StreamAssumption, StreamInv, NEW m \in Messages, Stream!PushDelta(m)
  PROVE  StreamInv'
<1> DEFINE q == Stream!AppendDelta(Stream!Queue, m, pushed + 1)
<1>1. /\ Stream!Queue \in Seq(Stream!Items) /\ pushed \in Nat
      /\ InOrder(Stream!Queue, pushed) /\ Numbered(Stream!Queue, readDelta, deltas)
      /\ Stream!Queue = <<>> \/ pushed = Stream!Queue[Len(Stream!Queue)].hi
  BY OpenQueue DEF Stream!PushDelta
<1>2. /\ pushed \in Nat /\ wake \in BOOLEAN /\ activated \in BOOLEAN
      /\ deltas \in [Messages -> Nat] /\ closed \in BOOLEAN
      /\ terminal \in {"none", "result", "unknown"} /\ (closed <=> terminal # "none")
      /\ readDelta \in [Messages -> Nat]
  BY DEF StreamInv, Stream!TypeOK, ClosedInv
<1>3. /\ ~closed /\ pushed' = pushed + 1 /\ Stream!Filled(q)
      /\ Stream!CountDelta(Stream!Queue, m) /\ activated' = activated
      /\ UNCHANGED Stream!readerVars
  BY DEF Stream!PushDelta
<1>4. /\ q \in Seq(Stream!Items) /\ q # <<>>
      /\ InOrder(q, pushed + 1) /\ Numbered(q, readDelta, deltas')
      /\ q[1].lo = IF Stream!Queue = <<>> THEN pushed + 1 ELSE Stream!Queue[1].lo
      /\ deltas' \in [Messages -> Nat]
  <2>1. CASE Stream!Merges(Stream!Queue, m)
    <3> DEFINE r == [Stream!Queue EXCEPT ![Len(Stream!Queue)].hi = pushed + 1]
    <3>1. q = r /\ deltas' = deltas /\ Stream!Queue # <<>>
      BY <1>3, <2>1 DEF Stream!AppendDelta, Stream!CountDelta, Stream!Merges
    <3>2. pushed + 1 \in Nat
      BY <1>1
    <3>3. /\ r \in Seq(Stream!Items) /\ Len(r) = Len(Stream!Queue) /\ r # <<>>
          /\ r[Len(Stream!Queue)].hi = pushed + 1
          /\ \A i \in 1..Len(Stream!Queue) :
               /\ r[i].kind = Stream!Queue[i].kind /\ r[i].msg = Stream!Queue[i].msg
               /\ r[i].index = Stream!Queue[i].index /\ r[i].lo = Stream!Queue[i].lo
               /\ i # Len(Stream!Queue) => r[i] = Stream!Queue[i]
      BY <1>1, <3>1, <3>2, MergeItem
    <3> HIDE DEF q, r
    <3>4. InOrder(r, pushed + 1) /\ r[1].lo = Stream!Queue[1].lo
      BY <1>1, <3>1, <3>3, InOrderMerge
    <3>5. Numbered(r, readDelta, deltas)
      BY <1>1, <3>3, NumberedMerge
    <3> QED  BY <1>2, <3>1, <3>3, <3>4, <3>5
  <2>2. CASE ~Stream!Merges(Stream!Queue, m)
    <3> DEFINE e == Stream!Delta(m, pushed + 1)
    <3>1. q = Append(Stream!Queue, e) /\ deltas' = [deltas EXCEPT ![m] = @ + 1]
      BY <1>3, <2>2 DEF Stream!AppendDelta, Stream!CountDelta
    <3>2. pushed + 1 \in Int /\ Stream!TypeOK
      BY <1>1 DEF StreamInv
    <3>3. /\ e \in Stream!Items /\ e.lo = pushed + 1 /\ e.hi = pushed + 1
          /\ e.kind = "delta" /\ e.msg = m /\ e.index = deltas[m]
      BY <3>2, DeltaTypes
    <3> HIDE DEF q, e
    <3>4. /\ InOrder(Append(Stream!Queue, e), pushed + 1)
          /\ Append(Stream!Queue, e)[1].lo =
               IF Stream!Queue = <<>> THEN pushed + 1 ELSE Stream!Queue[1].lo
      BY <1>1, <3>3, InOrderAppend
    <3>5. Numbered(Append(Stream!Queue, e), readDelta, [deltas EXCEPT ![m] = @ + 1])
      <4>1. IsDelta(e, m)
        BY <3>3 DEF IsDelta
      <4> QED  BY <1>1, <1>2, <3>3, <4>1, NumberedDelta
    <3>6. Append(Stream!Queue, e) \in Seq(Stream!Items) /\ Append(Stream!Queue, e) # <<>>
      BY <1>1, <3>3, AppendItem
    <3>7. deltas' \in [Messages -> Nat]
      BY <1>2, <3>1
    <3> QED  BY <3>1, <3>4, <3>5, <3>6, <3>7
  <2> QED  BY <2>1, <2>2
<1> HIDE DEF q
<1>5. CASE Stream!Overflowed
  <2>1. pushed' \in Nat
    BY <1>2, <1>3
  <2> QED  BY <1>2, <1>3, <1>4, <1>5, <2>1, OverflowKeeps
<1>6. CASE ~Stream!Overflowed
  <2>1. /\ Stream!Fits(q) /\ wake' = (wake \/ activated) /\ closed' = closed
        /\ failed' = failed /\ terminal' = terminal
    BY <1>3, <1>6 DEF Stream!Filled
  <2>2. wake' \in BOOLEAN /\ (activated => wake')
    BY <1>2, <2>1
  <2> QED  BY <1>2, <1>3, <1>4, <2>1, <2>2, FitKeeps
<1> QED  BY <1>5, <1>6

\* finish and failUnknown.
LEMMA FinishKeeps ==
  ASSUME Stream!StreamAssumption, StreamInv, NEW how \in {"result", "unknown"},
         Stream!Finish(how)
  PROVE  StreamInv'
<1> DEFINE kind == IF how = "result" THEN "terminal" ELSE "unknown"
<1> DEFINE q == Append(Stream!Queue, Stream!Plain(kind, pushed + 1))
<1>0. kind \in Stream!Kinds /\ kind # "delta" /\ kind \in Final
  BY DEF Stream!Kinds, Final
<1>1. /\ ~closed /\ pushed' = pushed + 1 /\ deltas' = deltas /\ activated' = activated
      /\ UNCHANGED Stream!readerVars
      /\ \/ /\ Stream!Fits(q) /\ terminal' = how /\ closed' = TRUE /\ wake' = TRUE
            /\ failed' = failed
         \/ Stream!Overflowed
  BY DEF Stream!Finish
<1> HIDE DEF kind
<1>2. /\ q \in Seq(Stream!Items) /\ q # <<>> /\ q[Len(q)].kind = kind
      /\ InOrder(q, pushed + 1) /\ Numbered(q, readDelta, deltas)
      /\ q[1].lo = IF Stream!Queue = <<>> THEN pushed + 1 ELSE Stream!Queue[1].lo
  BY <1>0, <1>1, AppendKeeps
<1>3. /\ pushed \in Nat /\ activated \in BOOLEAN /\ deltas \in [Messages -> Nat]
  BY DEF StreamInv, Stream!TypeOK
<1> HIDE DEF q
<1>4. CASE Stream!Overflowed
  <2>1. pushed' \in Nat
    BY <1>1, <1>3
  <2> QED  BY <1>1, <1>3, <1>4, <2>1, OverflowKeeps
<1>5. CASE ~Stream!Overflowed
  <2>1. /\ Stream!Fits(q) /\ terminal' = how /\ closed' = TRUE /\ wake' = TRUE
        /\ failed' = failed
    BY <1>1, <1>5
  <2>2. /\ terminal' \in {"none", "result", "unknown"} /\ terminal' # "none"
        /\ q[Len(q)].kind \in Final /\ Numbered(q, readDelta, deltas')
        /\ deltas' \in [Messages -> Nat] /\ wake' \in BOOLEAN /\ closed' \in BOOLEAN
    BY <1>0, <1>1, <1>2, <1>3, <2>1
  <2> QED  BY <1>1, <1>2, <2>1, <2>2, FitKeeps
<1> QED  BY <1>4, <1>5

\* activate puts StartedEvent in front, or overflows.
LEMMA ActivateKeeps ==
  ASSUME Stream!StreamAssumption, StreamInv, Stream!Activate
  PROVE  StreamInv'
<1>1. /\ ~activated /\ activated' = TRUE /\ deltas' = deltas /\ pushed' = pushed
      /\ UNCHANGED Stream!readerVars /\ pushed \in Nat /\ deltas \in [Messages -> Nat]
      /\ rpc = "none"
  BY DEF Stream!Activate, StreamInv, Stream!TypeOK, ReaderInv
<1>2. CASE Stream!Overflowed
  BY <1>1, <1>2, OverflowKeeps
<1>3. CASE failed /\ ~Stream!Overflowed
  <2>1. wake' = TRUE /\ UNCHANGED <<events, early, closed, failed, terminal>>
    BY <1>3 DEF Stream!Activate
  <2>2. Stream!TypeOK'
    BY <1>1, <2>1 DEF StreamInv, Stream!TypeOK, Stream!readerVars
  <2> QED  BY <1>1, <1>3, <2>1, <2>2 DEF StreamInv, QueueInv, FailedInv, ClosedInv,
       ReaderInv,
       Stream!TerminalBeforeEnd, Stream!NoEarlySleep, Stream!readerVars
<1>4. CASE ~failed /\ ~Stream!Overflowed
  <2> DEFINE r == <<Stream!Started>> \o early
  <2>1. /\ Len(early) + 1 <= MaximumQueuedEvents /\ events' = r /\ early' = <<>>
        /\ wake' = TRUE /\ UNCHANGED <<closed, failed, terminal>>
    BY <1>4 DEF Stream!Activate
  <2>2. /\ InOrder(early, pushed) /\ Numbered(early, readDelta, deltas)
        /\ early = <<>> => pushed = 0
        /\ early # <<>> => early[1].lo = 1
        /\ early \in Seq(Stream!Items) /\ given = {}
    BY <1>1, <1>4 DEF StreamInv, QueueInv, Stream!Queue, Stream!TypeOK
  <2>3. /\ r \in Seq(Stream!Items) /\ r # <<>> /\ Len(r) = Len(early) + 1
        /\ r[1] = Stream!Started
        /\ early # <<>> => r[Len(r)] = early[Len(early)]
        /\ InOrder(r, pushed) /\ Numbered(r, readDelta, deltas)
    BY <1>1, <2>2, StartedFirst
  <2> HIDE DEF r
  <2>4. /\ <<>> \in Seq(Stream!Items) /\ Len(<<>>) = 0 /\ 0 <= MaximumQueuedEvents
    BY StreamConstants
  <2>5. Stream!TypeOK'
    BY <1>1, <2>1, <2>3, <2>4 DEF StreamInv, Stream!TypeOK, Stream!readerVars
  <2>6. Stream!Queue' = r /\ activated'
    BY <1>1, <2>1 DEF Stream!Queue
  <2>7. given' = 0..(r[1].lo - 1)
    <3>1. r[1].lo = 0 /\ given' = {}
      BY <1>1, <2>2, <2>3, ItemTypes DEF Stream!readerVars
    <3> QED  BY <3>1
  <2>8. QueueInv'
    <3>1. readDelta' = readDelta
      BY <1>1 DEF Stream!readerVars
    <3> QED  BY <1>1, <2>1, <2>3, <2>6, <2>7, <3>1 DEF QueueInv
  <2>9. ClosedInv'
    <3>1. (closed' <=> terminal' # "none")
      BY <2>1 DEF StreamInv, ClosedInv
    <3>2. ASSUME closed' PROVE r[Len(r)].kind \in Final
      <4>1. early # <<>> /\ early[Len(early)].kind \in Final
        BY <1>1, <1>4, <2>1, <3>2 DEF StreamInv, ClosedInv, Stream!Queue
      <4> QED  BY <2>3, <4>1
    <3> QED  BY <2>3, <2>6, <3>1, <3>2 DEF ClosedInv
  <2> QED  BY <1>1, <1>4, <2>1, <2>5, <2>8, <2>9 DEF StreamInv, FailedInv, ReaderInv,
       Stream!TerminalBeforeEnd, Stream!NoEarlySleep, Stream!readerVars
<1> QED  BY <1>2, <1>3, <1>4

\* Next with an item.
LEMMA TakeKeeps ==
  ASSUME Stream!StreamAssumption, StreamInv, Stream!Take
  PROVE  /\ StreamInv'
         /\ ~failed => /\ Head(events).kind = "delta"
                          => Head(events).index = readDelta[Head(events).msg]
                       /\ \E n \in 0..pushed : given \subseteq 0..n /\ given' = 0..n
         /\ failed => given' = given /\ Head(events).kind # "delta"
<1> DEFINE item == Head(events)
<1>1. /\ rpc = "look" /\ events # <<>> /\ activated /\ rpc' = "idle"
      /\ events' = Tail(events)
      /\ UNCHANGED <<early, wake, activated, closed, failed, terminal, deltas, pushed, left>>
      /\ given' = IF item = Stream!Lost THEN given ELSE given \cup (item.lo..item.hi)
      /\ last' = item.kind
      /\ readDelta' = IF item.kind = "delta"
                      THEN [readDelta EXCEPT ![item.msg] = @ + 1] ELSE readDelta
  BY DEF Stream!Take, StreamInv, ReaderInv
<1>2. /\ events \in Seq(Stream!Items) /\ Len(events) <= MaximumQueuedEvents
      /\ readDelta \in [Messages -> Nat] /\ deltas \in [Messages -> Nat]
      /\ pushed \in Nat /\ given \subseteq Nat
  BY DEF StreamInv, Stream!TypeOK
<1>3. /\ item = events[1] /\ item \in Stream!Items /\ Tail(events) \in Seq(Stream!Items)
      /\ Len(events) \in Nat /\ Len(events) >= 1 /\ Len(Tail(events)) = Len(events) - 1
      /\ Tail(events) = <<>> <=> Len(events) = 1
  BY <1>1, <1>2, TailItems
<1>4. item.kind \in Stream!Kinds /\ item.lo \in Int /\ item.hi \in Int
  BY <1>3, ItemFields
<1>c. MaximumQueuedEvents \in Nat /\ 0 <= MaximumQueuedEvents
  BY StreamConstants
<1>5. CASE failed
  <2>1. events = <<Stream!Lost>>
    BY <1>1, <1>5 DEF StreamInv, FailedInv
  <2>2. item = Stream!Lost /\ Tail(events) = <<>> /\ Stream!Lost.kind = "unknown"
    BY <2>1, ItemTypes
  <2>3. given' = given /\ last' = "unknown" /\ readDelta' = readDelta /\ events' = <<>>
    BY <1>1, <2>2
  <2>4. <<>> \in Seq(Stream!Items) /\ Len(<<>>) <= MaximumQueuedEvents
    <3>1. <<>> \in Seq(Stream!Items) /\ Len(<<>>) = 0
      OBVIOUS
    <3> QED  BY <1>c, <3>1
  <2>5. Stream!TypeOK'
    BY <1>1, <2>3, <2>4 DEF StreamInv, Stream!TypeOK, Stream!Kinds
  <2> QED  BY <1>1, <1>5, <2>2, <2>3, <2>5 DEF StreamInv, QueueInv, FailedInv, ClosedInv,
       ReaderInv,
       Stream!TerminalBeforeEnd, Stream!NoEarlySleep
<1>6. CASE ~failed
  <2>1. /\ InOrder(events, pushed) /\ Numbered(events, readDelta, deltas)
        /\ given = 0..(events[1].lo - 1)
    BY <1>1, <1>6 DEF StreamInv, QueueInv, Stream!Queue
  <2>2. /\ 0 <= item.lo /\ item.lo <= item.hi /\ item.hi <= pushed
        /\ item.kind = "delta" => item.msg \in Messages
    <3>1. 1 \in 1..Len(events)
      BY <1>3
    <3> QED  BY <1>3, <2>1, <3>1 DEF InOrder
  <2>3. item # Stream!Lost
    BY <1>4, <2>2, ItemTypes
  <2> HIDE DEF item
  <2>4. given' = 0..item.hi /\ given \subseteq 0..item.hi /\ item.hi \in 0..pushed
    <3>1. given = 0..(item.lo - 1)
      BY <1>3, <2>1
    <3>2. (0..(item.lo - 1)) \cup (item.lo..item.hi) = 0..item.hi
      BY <1>4, <2>2
    <3>3. 0..(item.lo - 1) \subseteq 0..item.hi /\ item.hi \in 0..pushed
      BY <1>2, <1>4, <2>2
    <3> QED  BY <1>1, <2>3, <3>1, <3>2, <3>3
  <2>5. /\ InOrder(Tail(events), pushed)
        /\ Tail(events) = <<>> => item.hi = pushed
        /\ Tail(events) # <<>> => /\ Tail(events)[1].lo = item.hi + 1
                                  /\ Tail(events)[Len(Tail(events))] = events[Len(events)]
    BY <1>1, <1>2, <1>3, <2>1, InOrderTail
  <2>6. /\ Numbered(Tail(events), readDelta', deltas)
        /\ item.kind = "delta" => item.index = readDelta[item.msg]
    BY <1>1, <1>2, <1>3, <2>1, <2>2, NumberedTail
  <2>7. Stream!TypeOK'
    <3>1. readDelta' \in [Messages -> Nat]
      BY <1>1, <1>2, <2>2
    <3>2. given' \subseteq Nat /\ last' \in Stream!Kinds
      BY <1>1, <1>4, <2>4
    <3>3. Len(Tail(events)) <= MaximumQueuedEvents
      <4>1. Len(events) - 1 <= MaximumQueuedEvents
        BY <1>2, <1>3, <1>c
      <4> QED  BY <1>3, <4>1
    <3> QED  BY <1>1, <1>3, <3>1, <3>2, <3>3 DEF StreamInv, Stream!TypeOK
  <2>8. QueueInv'
    <3>1. Stream!Queue' = Tail(events) /\ pushed' = pushed /\ deltas' = deltas /\ activated'
      BY <1>1 DEF Stream!Queue
    <3>2. events' # <<>> => given' = 0..(events'[1].lo - 1)
      <4>1. ASSUME events' # <<>> PROVE events'[1].lo - 1 = item.hi
        BY <1>1, <1>4, <2>5, <4>1
      <4> QED  BY <2>4, <4>1
    <3>3. events' = <<>> => given' = 0..pushed'
      BY <1>1, <2>4, <2>5
    <3> QED  BY <2>5, <2>6, <3>1, <3>2, <3>3 DEF QueueInv
  <2>9. ClosedInv'
    <3>1. (closed' <=> terminal' # "none") /\ Stream!Queue' = Tail(events) /\ activated'
      BY <1>1 DEF StreamInv, ClosedInv, Stream!Queue
    <3>2. ASSUME closed' PROVE events[Len(events)].kind \in Final
      BY <1>1, <1>6, <3>2 DEF StreamInv, ClosedInv, Stream!Queue
    <3>3. ASSUME closed', Tail(events) = <<>> PROVE last' \in Final
      <4>1. Len(events) = 1
        BY <1>3, <3>3
      <4> QED  BY <1>1, <1>3, <3>2, <3>3, <4>1
    <3> QED  BY <2>5, <3>1, <3>2, <3>3 DEF ClosedInv
  <2>10. StreamInv'
    BY <1>1, <1>6, <2>7, <2>8, <2>9 DEF StreamInv, FailedInv, ReaderInv,
       Stream!TerminalBeforeEnd,
       Stream!NoEarlySleep
  <2> QED  BY <1>6, <2>4, <2>6, <2>10 DEF item
<1> QED  BY <1>5, <1>6

\* The steps of the reader that take nothing.
Silent == Stream!Claim \/ Stream!Call \/ Stream!End \/ Stream!Park
          \/ Stream!Wake \/ Stream!Leave \/ Stream!Close

\* They keep the invariant.
LEMMA ReaderKeeps ==
  ASSUME StreamInv, Silent
  PROVE  StreamInv'
<1>1. /\ UNCHANGED <<events, early, activated, closed, failed, terminal, deltas, pushed, given,
                     last, readDelta>>
      /\ wake' \in BOOLEAN /\ left' \in BOOLEAN
      /\ rpc' \in {"none", "idle", "look", "parked", "eof", "error", "left"}
      /\ rpc' # "none" => activated
      /\ rpc' = "parked" => \/ (events = <<>> /\ ~closed)
                            \/ (wake' = wake /\ rpc = "parked")
      /\ rpc' \in {"eof", "error"} => rpc' = rpc \/ (events = <<>> /\ closed /\ activated)
  <2>0. /\ wake \in BOOLEAN /\ left \in BOOLEAN
        /\ rpc \in {"none", "idle", "look", "parked", "eof", "error", "left"}
        /\ rpc # "none" => activated
    BY DEF StreamInv, Stream!TypeOK, ReaderInv
  <2>1. CASE Stream!Claim
    BY <2>0, <2>1 DEF Stream!Claim, Stream!queueVars
  <2>2. CASE Stream!Call
    BY <2>0, <2>2 DEF Stream!Call, Stream!queueVars
  <2>3. CASE Stream!End
    BY <2>0, <2>3 DEF Stream!End, Stream!queueVars
  <2>4. CASE Stream!Park
    BY <2>0, <2>4 DEF Stream!Park, Stream!queueVars
  <2>5. CASE Stream!Wake
    BY <2>0, <2>5 DEF Stream!Wake
  <2>6. CASE Stream!Leave
    BY <2>0, <2>6 DEF Stream!Leave, Stream!queueVars
  <2>7. CASE Stream!Close
    BY <2>0, <2>7 DEF Stream!Close, Stream!queueVars
  <2> QED  BY <2>1, <2>2, <2>3, <2>4, <2>5, <2>6, <2>7 DEF Silent
<1>2. Stream!TypeOK'
  BY <1>1 DEF StreamInv, Stream!TypeOK
<1>3. Stream!Queue' = Stream!Queue
  BY <1>1 DEF Stream!Queue
<1>4. QueueInv' /\ FailedInv' /\ ClosedInv' /\ ReaderInv'
  BY <1>1, <1>3 DEF StreamInv, QueueInv, FailedInv, ClosedInv, ReaderInv
<1>5. Stream!NoEarlySleep'
  BY <1>1 DEF StreamInv, Stream!NoEarlySleep
<1>6. Stream!TerminalBeforeEnd'
  <2>1. SUFFICES ASSUME rpc' \in {"eof", "error"}, rpc' # rpc PROVE last \in Final
    BY <1>1 DEF StreamInv, Stream!TerminalBeforeEnd, Final
  <2>2. events = <<>> /\ closed /\ activated
    BY <1>1, <2>1
  <2>3. CASE failed
    BY <2>2, <2>3 DEF StreamInv, FailedInv, Final
  <2>4. CASE ~failed
    BY <2>2, <2>4 DEF StreamInv, ClosedInv, Stream!Queue
  <2> QED  BY <2>3, <2>4
<1> QED  BY <1>2, <1>4, <1>5, <1>6 DEF StreamInv

\* Every step keeps the invariant.
LEMMA StreamStepKeeps ==
  ASSUME Stream!StreamAssumption, StreamInv, [Stream!Next]_(Stream!vars)
  PROVE  StreamInv'
<1>1. CASE Stream!Push
  BY <1>1, PushItemKeeps, PushDeltaKeeps DEF Stream!Push
<1>2. CASE Stream!Conclude
  BY <1>2, FinishKeeps DEF Stream!Conclude
<1>3. CASE Stream!Activate
  BY <1>3, ActivateKeeps
<1>4. CASE Stream!Take
  BY <1>4, TakeKeeps
<1>5. CASE Silent
  BY <1>5, ReaderKeeps
<1>6. CASE UNCHANGED Stream!vars
  BY <1>6 DEF Stream!vars, StreamInv, Stream!TypeOK, Stream!TerminalBeforeEnd,
     Stream!NoEarlySleep, QueueInv, FailedInv,
     ClosedInv, ReaderInv, Stream!Queue
<1> QED  BY <1>1, <1>2, <1>3, <1>4, <1>5, <1>6 DEF Stream!Next, Stream!Read, Silent

\* The invariant says that nothing is lost.
LEMMA StreamInvSound ==
  ASSUME StreamInv
  PROVE  Stream!StreamIsSound
<1>1. ASSUME NEW q, InOrder(q, pushed) PROVE Stream!Contiguous(q)
  BY <1>1 DEF InOrder, Stream!Contiguous
<1>2. Stream!NothingLost
  <2>1. CASE ~failed /\ activated
    <3>1. InOrder(events, pushed)
      BY <2>1 DEF StreamInv, QueueInv, Stream!Queue
    <3>2. Stream!Contiguous(events)
      BY <1>1, <3>1
    <3>3. /\ events = <<>> => given = 0..pushed
          /\ events # <<>>
                => given = 0..(events[1].lo - 1) /\ events[Len(events)].hi = pushed
      BY <2>1, <3>1 DEF StreamInv, QueueInv, InOrder
    <3> QED  BY <2>1, <3>2, <3>3 DEF Stream!NothingLost
  <2>2. CASE ~failed /\ ~activated
    <3>1. InOrder(early, pushed)
      BY <2>2 DEF StreamInv, QueueInv, Stream!Queue
    <3>2. Stream!Contiguous(early)
      BY <1>1, <3>1
    <3>3. /\ events = <<>> /\ given = {}
          /\ early = <<>> => pushed = 0
          /\ early # <<>> => early[1].lo = 1 /\ early[Len(early)].hi = pushed
      BY <2>2, <3>1 DEF StreamInv, QueueInv, InOrder
    <3> QED  BY <2>2, <3>2, <3>3 DEF Stream!NothingLost
  <2>3. CASE failed
    BY <2>3 DEF Stream!NothingLost
  <2> QED  BY <2>1, <2>2, <2>3
<1> QED  BY <1>2 DEF StreamInv, Stream!StreamIsSound

\* A step of the stream is a step of the channel it promises, or none.
LEMMA StreamStepMaps ==
  ASSUME Stream!StreamAssumption, StreamInv, [Stream!Next]_(Stream!vars)
  PROVE  [Stream!Channel!ChanNext]_(Stream!Channel!chanVars)
<1> USE DEF Stream!Channel!ChanNext, Stream!Channel!Accept, Stream!Channel!Deliver,
      Stream!Channel!Cut, Stream!Channel!chanVars
<1>1. CASE Stream!Push
  <2>1. ~closed /\ ~failed /\ pushed' = pushed + 1 /\ given' = given
    BY <1>1, OpenQueue DEF Stream!Push, Stream!PushItem, Stream!PushDelta, Stream!readerVars
  <2> QED  BY <2>1
<1>2. CASE Stream!Conclude
  <2>1. ~closed /\ ~failed /\ pushed' = pushed + 1 /\ given' = given
    BY <1>2, OpenQueue DEF Stream!Conclude, Stream!Finish, Stream!readerVars
  <2> QED  BY <2>1
<1>3. CASE Stream!Activate
  <2>1. pushed' = pushed /\ given' = given /\ ~activated
    BY <1>3 DEF Stream!Activate, Stream!readerVars
  <2>2. CASE failed' = failed /\ closed' = closed
    BY <2>1, <2>2
  <2>3. CASE ~(failed' = failed /\ closed' = closed)
    <3>1. ~failed /\ failed' = TRUE
      BY <1>3, <2>3 DEF Stream!Activate, Stream!Overflowed, StreamInv, FailedInv
    <3>2. given = {}
      BY <2>1, <3>1 DEF StreamInv, QueueInv
    <3> QED  BY <2>1, <3>1, <3>2
  <2> QED  BY <2>2, <2>3
<1>4. CASE Stream!Take
  <2>1. pushed' = pushed /\ failed' = failed /\ closed' = closed
    BY <1>4 DEF Stream!Take
  <2>2. CASE failed
    BY <1>4, <2>1, <2>2, TakeKeeps
  <2>3. CASE ~failed
    <3>1. \E n \in 0..pushed : given \subseteq 0..n /\ given' = 0..n
      BY <1>4, <2>3, TakeKeeps
    <3> QED  BY <2>1, <2>3, <3>1
  <2> QED  BY <2>2, <2>3
<1>5. CASE Silent
  <2>1. pushed' = pushed /\ failed' = failed /\ closed' = closed /\ given' = given
    BY <1>5 DEF Silent, Stream!Claim, Stream!Call, Stream!End, Stream!Park, Stream!Wake,
       Stream!Leave, Stream!Close, Stream!queueVars
  <2> QED  BY <2>1
<1>6. CASE UNCHANGED Stream!vars
  BY <1>6 DEF Stream!vars
<1> QED  BY <1>1, <1>2, <1>3, <1>4, <1>5, <1>6 DEF Stream!Next, Stream!Read, Silent

\* What a step never does: a delta out of order, or a result that changes.
LEMMA StreamStepPromises ==
  ASSUME Stream!StreamAssumption, StreamInv, [Stream!Next]_(Stream!vars)
  PROVE  /\ Stream!Take /\ Head(events).kind = "delta"
               => Head(events).index = readDelta[Head(events).msg]
         /\ activated /\ terminal # "none" => terminal' = terminal
<1>1. Stream!Take /\ Head(events).kind = "delta"
         => Head(events).index = readDelta[Head(events).msg]
  BY TakeKeeps
<1>2. ASSUME activated, terminal # "none" PROVE terminal' = terminal
  <2>1. closed
    BY <1>2 DEF StreamInv, ClosedInv
  <2> QED  BY <1>2, <2>1 DEF Stream!Next, Stream!Push, Stream!Conclude, Stream!PushItem,
       Stream!PushDelta, Stream!Finish, Stream!Activate, Stream!Read, Stream!Claim,
       Stream!Call, Stream!Take, Stream!End, Stream!Park, Stream!Wake, Stream!Leave,
       Stream!Close, Stream!queueVars, Stream!vars
<1> QED  BY <1>1, <1>2

\* The stream runs in its own part, and nothing of it moves elsewhere.
LEMMA StreamPart == Spec => Stream!Init /\ [][Stream!Next]_(Stream!vars)
<1>1. Init => Stream!Init
  BY DEF Init
<1>2. [Next]_vars => [Stream!Next]_(Stream!vars)
  BY DEF Next, vars, SessionStep, ToolsStep, StreamStep, FeedStep, CommandStep, ListStep,
     ReplicaStep, adapterVars, streamVars, Stream!vars
<1> QED  BY <1>1, <1>2, PTL DEF Spec

\* StreamInv is an invariant of every stream.
THEOREM StreamInvariance == Spec => []StreamInv
<1>1. Stream!StreamAssumption
  BY FlowsAssumption
<1>2. Stream!Init => StreamInv
  BY <1>1, StreamInit
<1>3. StreamInv /\ [Stream!Next]_(Stream!vars) => StreamInv'
  BY <1>1, StreamStepKeeps
<1> QED  BY <1>2, <1>3, StreamPart, PTL

\* Unless the stream failed, what the reader was given and what waits for it are every
\* event of the provider, in order; a reader asleep while there is something for it has a
\* token waiting; and it sees the end only after a terminal or unknown event (push,
\* activate, finish and Next of stream.go).
THEOREM StreamSound == Spec => []StreamIsSound
<1>1. StreamInv => StreamIsSound
  BY StreamInvSound DEF StreamIsSound
<1> QED  BY <1>1, StreamInvariance, PTL

\* The queues, the activation and the merging of deltas implement the channel of module
\* EventChannel; a delta has the index its reader expects; and a result that was reported
\* once Start returned stays.
THEOREM StreamPromises == Spec => StreamKeepsPromises
<1>1. Stream!StreamAssumption
  BY FlowsAssumption
<1>2. Stream!Init => Stream!Channel!ChanInit
  BY DEF Stream!Init, Stream!Channel!ChanInit
<1>3. StreamInv /\ [Stream!Next]_(Stream!vars) =>
      [Stream!Channel!ChanNext]_(Stream!Channel!chanVars)
  BY <1>1, StreamStepMaps
<1>4. Spec => Stream!ImplementsChannel
  BY <1>2, <1>3, StreamPart, StreamInvariance, PTL
  DEF Stream!ImplementsChannel, Stream!Channel!ChanSpec
<1>5. StreamInv /\ [Stream!Next]_(Stream!vars) =>
      [Stream!Take /\ Head(events).kind = "delta"
         => Head(events).index = readDelta[Head(events).msg]]_(Stream!vars)
  BY <1>1, StreamStepPromises
<1>6. StreamInv /\ [Stream!Next]_(Stream!vars) =>
      [activated /\ terminal # "none" => terminal' = terminal]_(Stream!vars)
  BY <1>1, StreamStepPromises
<1>7. Spec => Stream!DeltaIndicesAreConsecutive
  BY <1>5, StreamPart, StreamInvariance, PTL DEF Stream!DeltaIndicesAreConsecutive
<1>8. Spec => Stream!ResultIsStable
  BY <1>6, StreamPart, StreamInvariance, PTL DEF Stream!ResultIsStable
<1> QED  BY <1>4, <1>7, <1>8, PTL DEF StreamKeepsPromises, Stream!StreamKeepsPromises

-----------------------------------------------------------------------------
\* The event feed.

\* An event has no dialog exactly when it is one of the node, and only a dialog
\* is deleted.
LogInv ==
  \A i \in 1..Len(log) :
    /\ log[i].type = "node" <=> log[i].owner = None
    /\ log[i].type = "dialog.deleted" => log[i].owner \in Dialogs

\* The handler and its client count alike: what was written was taken.
ConnInv ==
  conn # None => /\ conn \in [last : Nat, batch : Seq(Feed!Events)]
                 /\ conn.last = client.cursor

\* The inductive invariant of the feed.
FeedInv ==
  /\ Feed!TypeOK /\ Feed!NoGap /\ Feed!StreamFollowsLog
  /\ LogInv /\ ConnInv /\ cache = Feed!Deleted

\* A set of natural numbers has a least one.
LEMMA LeastNat ==
  ASSUME NEW T, T \subseteq Nat, T # {}
  PROVE  \E n \in T : \A k \in T : n <= k
<1> DEFINE R == OpToRel(<, Nat)
<1>1. IsWellFoundedOn(R, Nat)
  BY NatLessThanWellFounded
<1>2. \A x, y \in Nat : x < y => <<x, y>> \in R
  BY DEF OpToRel
<1> HIDE DEF R
<1>3. PICK x \in T : \A y \in T : ~ (<<y, x>> \in R)
  BY <1>1, WFMin
<1>4. \A y \in T : ~(y < x)
  BY <1>2, <1>3
<1> QED  BY <1>4

\* The rows a window is taken from are the log after the cursor.
LEMMA RowsOfLog ==
  ASSUME Feed!FeedAssumption, Feed!TypeOK, NEW after \in 0..Len(log)
  PROVE  /\ Feed!Rows(after) \in Seq(Feed!Events) /\ Len(Feed!Rows(after)) \in Nat
         /\ after + Len(Feed!Rows(after)) <= Len(log)
         /\ \A i \in 1..Len(Feed!Rows(after)) : /\ Feed!Rows(after)[i] = log[after + i]
                                           /\ after + i \in 1..Len(log)
<1> DEFINE end == IF after + Limit < Len(log) THEN after + Limit ELSE Len(log)
<1>1. /\ log \in Seq(Feed!Events) /\ Len(log) \in Nat /\ Limit \in Nat
  BY DEF Feed!TypeOK, Feed!FeedAssumption
<1>2. /\ end \in Nat /\ after <= end /\ end <= Len(log)
  BY <1>1
<1>3. Feed!Rows(after) = SubSeq(log, after + 1, end)
  BY DEF Feed!Rows
<1> HIDE DEF end
<1>4. after + 1 \in 1..(Len(log) + 1) /\ end \in 0..Len(log)
  BY <1>1, <1>2
<1>5. /\ SubSeq(log, after + 1, end) \in Seq(Feed!Events)
      /\ Len(SubSeq(log, after + 1, end)) = end - after
      /\ \A i \in 1..(end - after) : SubSeq(log, after + 1, end)[i] = log[after + i]
  <2>1. \A i \in (after + 1)..end : log[i] \in Feed!Events
    BY <1>1, <1>2
  <2>2. SubSeq(log, after + 1, end) = [i \in 1..(end - after) |-> log[after + i]]
    BY <1>1, <1>2
  <2> QED  BY <1>1, <1>2, <2>1, <2>2
<1>6. \A i \in 1..(end - after) : after + i \in 1..Len(log)
  BY <1>1, <1>2
<1> QED  BY <1>1, <1>2, <1>3, <1>5, <1>6

\* A window is a beginning of those rows: the loop of ReplayEvents ends at the
\* first row that does not fit, or with the last.
LEMMA WindowOfLog ==
  ASSUME Feed!FeedAssumption, Feed!TypeOK, NEW after \in 0..Len(log)
  PROVE  /\ Feed!Window(after) \in Seq(Feed!Events)
         /\ \A i \in 1..Len(Feed!Window(after)) : /\ Feed!Window(after)[i] = log[after + i]
                                             /\ after + i \in 1..Len(log)
<1> DEFINE piece == Feed!Rows(after)
<1>1. /\ piece \in Seq(Feed!Events) /\ Len(piece) \in Nat
      /\ \A i \in 1..Len(piece) : piece[i] = log[after + i] /\ after + i \in 1..Len(log)
  BY RowsOfLog
<1> HIDE DEF piece
<1> DEFINE Stop(k) == k = Len(piece) \/ ~Feed!Fits(SubSeq(piece, 1, k + 1))
<1> DEFINE Whole(k) == (\A i \in 1..k : Feed!Fits(SubSeq(piece, 1, i))) /\ Stop(k)
<1> DEFINE T == {k \in 0..Len(piece) : Stop(k)}
<1>2. T \subseteq Nat /\ Len(piece) \in T
  BY <1>1
<1>3. PICK n \in T : \A k \in T : n <= k
  BY <1>2, LeastNat
<1>4. n \in 0..Len(piece) /\ Stop(n)
  BY <1>3
<1>5. ASSUME NEW i \in 1..n PROVE Feed!Fits(SubSeq(piece, 1, i))
  <2>1. i - 1 \in 0..Len(piece) /\ ~(n <= i - 1) /\ (i - 1) + 1 = i
    BY <1>1, <1>4
  <2>2. i - 1 \notin T
    BY <1>3, <2>1
  <2> QED  BY <2>1, <2>2
<1>6. \E k \in 0..Len(piece) : Whole(k)
  BY <1>4, <1>5
<1> DEFINE c == CHOOSE k \in 0..Len(piece) : Whole(k)
<1>7. c \in 0..Len(piece)
  BY <1>6
<1>8. Feed!Window(after) = SubSeq(piece, 1, c)
  BY DEF Feed!Window, piece
<1> HIDE DEF c
<1>9. SubSeq(piece, 1, c) = [i \in 1..c |-> piece[i]]
  BY <1>1, <1>7
<1>10. \A i \in 1..c : piece[i] \in Feed!Events /\ i \in 1..Len(piece)
  BY <1>1, <1>7
<1>11. SubSeq(piece, 1, c) \in Seq(Feed!Events) /\ Len(SubSeq(piece, 1, c)) = c
  BY <1>7, <1>9, <1>10
<1> QED  BY <1>1, <1>8, <1>9, <1>10, <1>11

\* A log with one event more.
LEMMA LogGrows ==
  ASSUME NEW old \in Seq(Feed!Events), NEW e \in Feed!Events
  PROVE  /\ Append(old, e) \in Seq(Feed!Events) /\ Len(Append(old, e)) = Len(old) + 1
         /\ Len(old) \in Nat /\ Append(old, e)[Len(old) + 1] = e
         /\ \A i \in 1..Len(old) : Append(old, e)[i] = old[i] /\ i \in 1..(Len(old) + 1)
OBVIOUS

\* Nothing at first.
LEMMA FeedInit ==
  ASSUME Feed!FeedAssumption, Feed!Init
  PROVE  FeedInv
<1>1. /\ log = <<>> /\ cache = {} /\ conn = None /\ client = [resync |-> TRUE, cursor |-> 0]
      /\ counted = {} /\ drops = 0 /\ crashes = 0
  BY DEF Feed!Init
<1>2. log \in Seq(Feed!Events) /\ Len(log) = 0 /\ 1..0 = {}
  BY <1>1
<1>3. Feed!TypeOK
  <2>1. 0 \in 0..MaxEvents /\ 0 \in 0..MaxDrops /\ 0 \in 0..MaxCrashes /\ 0 <= MaxEvents
    BY DEF Feed!FeedAssumption
  <2> QED  BY <1>1, <1>2, <2>1 DEF Feed!TypeOK
<1>4. Feed!Deleted = {}
  BY <1>2 DEF Feed!Deleted
<1> QED  BY <1>1, <1>2, <1>3, <1>4 DEF FeedInv, Feed!NoGap, Feed!StreamFollowsLog, LogInv,
     ConnInv

\* What the other facts of the invariant need of a log that grew.
LEMMA GrownLog ==
  ASSUME Feed!FeedAssumption, FeedInv, NEW e \in Feed!Events, log' = Append(log, e),
         Len(log) < MaxEvents,
         e.type = "node" <=> e.owner = None,
         e.type = "dialog.deleted" => e.owner \in Dialogs,
         UNCHANGED <<conn, client, counted, drops, crashes>>,
         cache' = IF e.type = "dialog.deleted" THEN cache \cup {e.owner} ELSE cache
  PROVE  FeedInv'
<1>1. /\ log \in Seq(Feed!Events) /\ MaxEvents \in Nat
  BY DEF FeedInv, Feed!TypeOK, Feed!FeedAssumption
<1>2. /\ log' \in Seq(Feed!Events) /\ Len(log') = Len(log) + 1
      /\ Len(log) \in Nat /\ log'[Len(log) + 1] = e
      /\ \A i \in 1..Len(log) : log'[i] = log[i] /\ i \in 1..Len(log')
  BY <1>1, LogGrows
<1>3. 0..Len(log) \subseteq 0..Len(log') /\ Len(log') <= MaxEvents
      /\ 1..Len(log') = 1..Len(log) \cup {Len(log) + 1}
  BY <1>1, <1>2
<1>4. Feed!TypeOK'
  BY <1>2, <1>3 DEF FeedInv, Feed!TypeOK
<1>5. Feed!NoGap'
  BY <1>1, <1>2 DEF FeedInv, Feed!NoGap, Feed!TypeOK
<1>6. Feed!StreamFollowsLog'
  BY <1>2 DEF FeedInv, Feed!StreamFollowsLog
<1>7. LogInv'
  BY <1>2, <1>3 DEF FeedInv, LogInv
<1>8. cache' = Feed!Deleted'
  <2>1. Feed!Deleted' =
          IF e.type = "dialog.deleted" THEN Feed!Deleted \cup {e.owner} ELSE Feed!Deleted
    BY <1>2, <1>3 DEF Feed!Deleted
  <2> QED  BY <2>1 DEF FeedInv
<1> QED  BY <1>4, <1>5, <1>6, <1>7, <1>8 DEF FeedInv, ConnInv

\* Appends and deletions.
LEMMA AppendsKeep ==
  ASSUME Feed!FeedAssumption, FeedInv, NEW size \in Sizes,
         \/ \E type \in Feed!Types, d \in Dialogs \cup {None} : Feed!Append1(type, d, size)
         \/ \E d \in Dialogs : Feed!DeleteDialog(d, size)
  PROVE  FeedInv'
<1>1. ASSUME NEW type \in Feed!Types, NEW d \in Dialogs \cup {None}, Feed!Append1(type, d, size)
      PROVE  FeedInv'
  <2> DEFINE e == Feed!Event(type, d, size)
  <2>1. e \in Feed!Events /\ e.type = type /\ e.owner = d
    BY DEF Feed!Event, Feed!Events
  <2>2. /\ log' = Append(log, e) /\ Len(log) < MaxEvents /\ type # "dialog.deleted"
        /\ (type = "node" <=> d = None)
        /\ UNCHANGED <<cache, conn, client, counted, drops, crashes>>
    BY <1>1 DEF Feed!Append1
  <2> HIDE DEF e
  <2> QED  BY <2>1, <2>2, GrownLog
<1>2. ASSUME NEW d \in Dialogs, Feed!DeleteDialog(d, size)
      PROVE  FeedInv'
  <2> DEFINE e == Feed!Event("dialog.deleted", d, size)
  <2>1. e \in Feed!Events /\ e.type = "dialog.deleted" /\ e.owner = d /\ d # None
    BY DEF Feed!Event, Feed!Events, Feed!Types, Feed!FeedAssumption
  <2>2. /\ log' = Append(log, e) /\ Len(log) < MaxEvents /\ cache' = cache \cup {d}
        /\ UNCHANGED <<conn, client, counted, drops, crashes>>
    BY <1>2 DEF Feed!DeleteDialog
  <2> HIDE DEF e
  <2> QED  BY <2>1, <2>2, GrownLog
<1> QED  BY <1>1, <1>2

\* A new connection, or the next window of one.
LEMMA BatchKeeps ==
  ASSUME Feed!FeedAssumption, FeedInv, NEW after \in 0..Len(log), after = client.cursor,
         conn' = [last |-> after, batch |-> Feed!Window(after)],
         UNCHANGED <<log, cache, client, counted, drops, crashes>>
  PROVE  FeedInv'
<1>1. /\ Feed!Window(after) \in Seq(Feed!Events)
      /\ \A i \in 1..Len(Feed!Window(after)) : /\ Feed!Window(after)[i] = log[after + i]
                                          /\ after + i \in 1..Len(log)
  BY WindowOfLog DEF FeedInv
<1>2. conn'.last = after /\ conn'.batch = Feed!Window(after) /\ after \in Nat
  OBVIOUS
<1>3. Feed!TypeOK'
  BY <1>1, <1>2 DEF FeedInv, Feed!TypeOK
<1>4. Feed!StreamFollowsLog'
  BY <1>1, <1>2 DEF Feed!StreamFollowsLog
<1>5. ConnInv'
  BY <1>1, <1>2 DEF ConnInv
<1> QED  BY <1>3, <1>4, <1>5 DEF FeedInv, Feed!NoGap, LogInv, Feed!Deleted

\* Connect.
LEMMA ConnectKeeps ==
  ASSUME Feed!FeedAssumption, FeedInv, Feed!Connect
  PROVE  FeedInv'
<1>1. client \in [resync : BOOLEAN, cursor : 0..MaxEvents] /\ client.cursor \in 0..Len(log)
  BY DEF FeedInv, Feed!TypeOK, Feed!NoGap
<1>2. CASE Feed!Replays(client.cursor)
  <2>1. /\ conn' = [last |-> client.cursor, batch |-> Feed!Window(client.cursor)]
        /\ UNCHANGED <<log, cache, client, counted, drops, crashes>>
    BY <1>2 DEF Feed!Connect
  <2> QED  BY <1>1, <2>1, BatchKeeps
<1>3. CASE ~Feed!Replays(client.cursor)
  <2>1. /\ client' = [client EXCEPT !.resync = TRUE]
        /\ UNCHANGED <<conn, log, cache, counted, drops, crashes>>
    BY <1>3 DEF Feed!Connect
  <2>2. /\ client' \in [resync : BOOLEAN, cursor : 0..MaxEvents]
        /\ client'.cursor = client.cursor
    BY <1>1, <2>1
  <2> QED  BY <2>1, <2>2 DEF FeedInv, Feed!TypeOK, Feed!NoGap, Feed!StreamFollowsLog,
       LogInv, ConnInv, Feed!Deleted
<1> QED  BY <1>2, <1>3

\* The poll.
LEMMA PollKeeps ==
  ASSUME Feed!FeedAssumption, FeedInv, Feed!Poll
  PROVE  FeedInv'
<1>1. /\ conn # None /\ conn \in [last : Nat, batch : Seq(Feed!Events)]
      /\ conn.last \in 0..Len(log) /\ conn.last = client.cursor
      /\ UNCHANGED <<log, cache, client, counted, drops, crashes>>
  BY DEF FeedInv, Feed!TypeOK, ConnInv, Feed!Poll
<1>2. CASE Feed!Replays(conn.last)
  <2>1. conn' = [conn EXCEPT !.batch = Feed!Window(conn.last)]
    BY <1>2 DEF Feed!Poll
  <2>2. conn' = [last |-> conn.last, batch |-> Feed!Window(conn.last)]
    BY <1>1, <2>1
  <2> QED  BY <1>1, <2>2, BatchKeeps
<1>3. CASE ~Feed!Replays(conn.last)
  BY <1>1, <1>3 DEF Feed!Poll, FeedInv, Feed!TypeOK, Feed!NoGap, Feed!StreamFollowsLog,
     LogInv, ConnInv, Feed!Deleted
<1> QED  BY <1>2, <1>3

\* One event is written: it is the next one of the log.
LEMMA WriteKeeps ==
  ASSUME Feed!FeedAssumption, FeedInv, Feed!WriteEvent
  PROVE  FeedInv' /\ Len(conn'.batch) = Len(conn.batch) - 1
<1>1. /\ conn # None /\ conn.batch # <<>> /\ conn \in [last : Nat, batch : Seq(Feed!Events)]
      /\ UNCHANGED <<log, cache, drops, crashes>>
      /\ conn' = [last |-> conn.last + 1, batch |-> Tail(conn.batch)]
      /\ counted' = counted \cup {conn.last + 1}
      /\ client' = [client EXCEPT !.cursor = IF client.cursor < conn.last + 1
                                             THEN conn.last + 1 ELSE client.cursor]
  BY DEF FeedInv, Feed!TypeOK, ConnInv, Feed!WriteEvent, Feed!AfterEvent
<1> DEFINE b == conn.batch
<1> DEFINE k == conn.last
<1>2. /\ b \in Seq(Feed!Events) /\ b # <<>> /\ k \in Nat
      /\ \A i \in 1..Len(b) : k + i \in 1..Len(log) /\ b[i] = log[k + i]
      /\ conn'.last = k + 1 /\ conn'.batch = Tail(b)
      /\ k = client.cursor
  BY <1>1 DEF FeedInv, Feed!StreamFollowsLog, ConnInv
<1>3. /\ client \in [resync : BOOLEAN, cursor : 0..MaxEvents] /\ client.cursor \in Nat
      /\ counted = 1..client.cursor /\ client.cursor <= Len(log)
      /\ Len(log) \in Nat /\ Len(log) <= MaxEvents /\ MaxEvents \in Nat
  BY DEF FeedInv, Feed!TypeOK, Feed!NoGap, Feed!FeedAssumption
<1> HIDE DEF b, k
<1>4. /\ Tail(b) \in Seq(Feed!Events) /\ Len(Tail(b)) = Len(b) - 1 /\ Len(b) \in Nat
      /\ Len(b) >= 1
      /\ \A i \in 1..(Len(b) - 1) : Tail(b)[i] = b[i + 1]
  BY <1>2
<1>5. k + 1 \in 1..Len(log)
  <2>1. 1 \in 1..Len(b)
    BY <1>4
  <2> QED  BY <1>2, <2>1
<1> DEFINE next == IF client.cursor < k + 1 THEN k + 1 ELSE client.cursor
<1>6. /\ client' = [client EXCEPT !.cursor = next]
      /\ next \in 0..MaxEvents /\ next <= Len(log) /\ next \in Nat
  BY <1>1, <1>2, <1>3, <1>5 DEF k
<1>7. client' \in [resync : BOOLEAN, cursor : 0..MaxEvents] /\ client'.cursor = next
  BY <1>3, <1>6
<1>8. Feed!TypeOK'
  <2>1. counted' \subseteq 1..MaxEvents
    BY <1>1, <1>3, <1>5 DEF FeedInv, Feed!TypeOK, k
  <2> QED  BY <1>1, <1>2, <1>4, <1>5, <1>7, <2>1 DEF FeedInv, Feed!TypeOK
<1>9. Feed!StreamFollowsLog'
  <2>1. ASSUME NEW i \in 1..Len(Tail(b))
        PROVE  (k + 1) + i \in 1..Len(log) /\ Tail(b)[i] = log[(k + 1) + i]
    <3>1. i \in 1..(Len(b) - 1)
      BY <1>4
    <3>2. i + 1 \in 1..Len(b) /\ k + (i + 1) = (k + 1) + i
      <4>1. k \in Nat /\ Len(b) \in Nat
        BY <1>2, <1>4
      <4> QED  BY <3>1, <4>1
    <3> QED  BY <1>2, <1>4, <3>1, <3>2
  <2> QED  BY <1>1, <1>2, <2>1 DEF Feed!StreamFollowsLog
<1>10. ConnInv'
  BY <1>1, <1>2, <1>4, <1>6, <1>7 DEF ConnInv, b, k
<1>11. Feed!NoGap'
  <2>1. next = k + 1 /\ 1..(k + 1) = 1..k \cup {k + 1}
    BY <1>2, <1>3
  <2>2. counted' = 1..next
    BY <1>1, <1>2, <1>3, <2>1 DEF k
  <2> QED  BY <1>1, <1>6, <1>7, <2>2 DEF Feed!NoGap
<1>12. LogInv' /\ cache' = Feed!Deleted'
  BY <1>1 DEF FeedInv, LogInv, Feed!Deleted
<1> QED  BY <1>1, <1>2, <1>4, <1>8, <1>9, <1>10, <1>11, <1>12 DEF FeedInv, b

\* Snapshots, lost connections and restarts.
LEMMA OthersKeep ==
  ASSUME Feed!FeedAssumption, FeedInv, Feed!Snapshot \/ Feed!Drop \/ Feed!Restart
  PROVE  FeedInv'
<1>1. /\ Len(log) \in Nat /\ Len(log) <= MaxEvents /\ MaxEvents \in Nat
      /\ MaxDrops \in Nat /\ MaxCrashes \in Nat /\ drops \in 0..MaxDrops
      /\ crashes \in 0..MaxCrashes
  BY DEF FeedInv, Feed!TypeOK, Feed!FeedAssumption
<1>2. CASE Feed!Snapshot
  <2>1. /\ conn = None /\ client' = [resync |-> FALSE, cursor |-> Len(log)]
        /\ counted' = 1..Len(log) /\ UNCHANGED <<log, cache, conn, drops, crashes>>
    BY <1>2 DEF Feed!Snapshot
  <2>2. /\ client' \in [resync : BOOLEAN, cursor : 0..MaxEvents] /\ client'.cursor = Len(log)
        /\ counted' \subseteq 1..MaxEvents
    BY <1>1, <2>1
  <2> QED  BY <1>1, <2>1, <2>2 DEF FeedInv, Feed!TypeOK, Feed!NoGap, Feed!StreamFollowsLog,
       LogInv, ConnInv,
       Feed!Deleted
<1>3. CASE Feed!Drop
  <2>1. /\ drops' \in 0..MaxDrops /\ conn' = None
        /\ UNCHANGED <<log, cache, client, counted, crashes>>
    BY <1>1, <1>3 DEF Feed!Drop
  <2> QED  BY <2>1 DEF FeedInv, Feed!TypeOK, Feed!NoGap, Feed!StreamFollowsLog, LogInv,
       ConnInv, Feed!Deleted
<1>4. CASE Feed!Restart
  <2>1. /\ crashes' \in 0..MaxCrashes /\ conn' = None /\ cache' = cache
        /\ UNCHANGED <<log, client, counted, drops>>
    BY <1>1, <1>4 DEF Feed!Restart, FeedInv
  <2> QED  BY <2>1 DEF FeedInv, Feed!TypeOK, Feed!NoGap, Feed!StreamFollowsLog, LogInv,
       ConnInv, Feed!Deleted
<1> QED  BY <1>2, <1>3, <1>4

\* Every step keeps the invariant.
LEMMA FeedStepKeeps ==
  ASSUME Feed!FeedAssumption, FeedInv, [Feed!Next]_(Feed!vars)
  PROVE  FeedInv'
<1>1. CASE \E size \in Sizes :
             \/ \E type \in Feed!Types, d \in Dialogs \cup {None} : Feed!Append1(type, d, size)
             \/ \E d \in Dialogs : Feed!DeleteDialog(d, size)
  BY <1>1, AppendsKeep
<1>2. CASE Feed!Connect
  BY <1>2, ConnectKeeps
<1>3. CASE Feed!WriteEvent
  BY <1>3, WriteKeeps
<1>4. CASE Feed!Poll
  BY <1>4, PollKeeps
<1>5. CASE Feed!Snapshot \/ Feed!Drop \/ Feed!Restart
  BY <1>5, OthersKeep
<1>6. CASE UNCHANGED Feed!vars
  BY <1>6 DEF Feed!vars, FeedInv, Feed!TypeOK, Feed!NoGap, Feed!StreamFollowsLog, LogInv,
     ConnInv, Feed!Deleted
<1> QED  BY <1>1, <1>2, <1>3, <1>4, <1>5, <1>6 DEF Feed!Next, Feed!Follow

\* An event of a window that was let through is a tombstone or of a dialog that lives.
LEMMA ReplayedLives ==
  ASSUME Feed!FeedAssumption, FeedInv, NEW after \in 0..Len(log), Feed!Replays(after),
         NEW i \in 1..Len(Feed!Window(after))
  PROVE  \/ Feed!Window(after)[i].type = "dialog.deleted"
         \/ Feed!Window(after)[i].owner \notin Feed!Deleted
<1> DEFINE e == Feed!Window(after)[i]
<1>1. /\ e \in Feed!Events
      /\ ~Feed!BelongsToDeleted(e)
      /\ e = log[after + i]
      /\ after + i \in 1..Len(log)
  <2>1. Feed!Window(after) \in Seq(Feed!Events)
    BY WindowOfLog DEF FeedInv
  <2>2. e \in Feed!Events
    BY <2>1
  <2> QED  BY <2>2, WindowOfLog DEF FeedInv, Feed!Replays
<1> HIDE DEF e
<1>2. e.type \in Feed!Types /\ (e.type = "node" <=> e.owner = None)
  BY <1>1 DEF FeedInv, LogInv, Feed!Events
<1>3. None \notin Feed!Deleted /\ cache = Feed!Deleted
  <2>1. Feed!Deleted \subseteq Dialogs
    BY DEF FeedInv, LogInv, Feed!Deleted
  <2> QED  BY <2>1 DEF Feed!FeedAssumption, FeedInv
<1>4. e.type \notin {"node", "dialog.deleted"}
      => e.owner \in {Feed!EnvelopeDialog(e), Feed!PayloadDialog(e), Feed!MessageDialog(e)}
  BY <1>2 DEF Feed!EnvelopeDialog, Feed!PayloadDialog, Feed!MessageDialog, Feed!Types
<1>5. e.type = "dialog.deleted" \/ e.owner \notin Feed!Deleted
  BY <1>1, <1>2, <1>3, <1>4 DEF Feed!BelongsToDeleted
<1> QED  BY <1>5 DEF e

\* A window read after a deletion holds nothing of the dialog.
LEMMA FeedStepReplays ==
  ASSUME Feed!FeedAssumption, FeedInv, [Feed!Next]_(Feed!vars),
         conn' # None, conn = None \/ Len(conn'.batch) > Len(conn.batch),
         NEW i \in 1..Len(conn'.batch)
  PROVE  conn'.batch[i].type = "dialog.deleted" \/ conn'.batch[i].owner \notin Feed!Deleted
<1>1. /\ client.cursor \in 0..Len(log)
      /\ conn # None => /\ conn \in [last : Nat, batch : Seq(Feed!Events)]
                        /\ conn.last \in 0..Len(log) /\ Len(conn.batch) \in Nat
  BY DEF FeedInv, Feed!TypeOK, Feed!NoGap, ConnInv
<1>2. CASE Feed!Connect
  <2>1. /\ Feed!Replays(client.cursor)
        /\ conn' = [last |-> client.cursor, batch |-> Feed!Window(client.cursor)]
    BY <1>2 DEF Feed!Connect
  <2>2. conn'.batch = Feed!Window(client.cursor)
    BY <2>1
  <2> QED  BY <1>1, <2>1, <2>2, ReplayedLives
<1>3. CASE Feed!Poll
  <2>1. /\ Feed!Replays(conn.last)
        /\ conn' = [conn EXCEPT !.batch = Feed!Window(conn.last)]
        /\ conn # None
    BY <1>3 DEF Feed!Poll
  <2>2. conn'.batch = Feed!Window(conn.last)
    BY <1>1, <2>1
  <2> QED  BY <1>1, <2>1, <2>2, ReplayedLives
<1>4. CASE Feed!WriteEvent
  <2>1. conn # None /\ Len(conn'.batch) = Len(conn.batch) - 1
    BY <1>4, WriteKeeps DEF Feed!WriteEvent
  <2> QED  BY <1>1, <2>1
<1>5. CASE conn' = conn \/ conn' = None
  BY <1>1, <1>5
<1>6. Feed!Connect \/ Feed!Poll \/ Feed!WriteEvent \/ conn' = conn \/ conn' = None
  BY DEF Feed!Next, Feed!Follow, Feed!Snapshot, Feed!Drop, Feed!Restart, Feed!Append1,
     Feed!DeleteDialog, Feed!vars
<1> QED  BY <1>2, <1>3, <1>4, <1>5, <1>6

\* The feed runs in its own part, and nothing of it moves elsewhere.
LEMMA FeedPart == Spec => Feed!Init /\ [][Feed!Next]_(Feed!vars)
<1>1. Init => Feed!Init
  BY DEF Init
<1>2. [Next]_vars => [Feed!Next]_(Feed!vars)
  BY DEF Next, vars, SessionStep, ToolsStep, StreamStep, FeedStep, CommandStep, ListStep,
     ReplicaStep, storeVars, feedVars, Feed!vars
<1> QED  BY <1>1, <1>2, PTL DEF Spec

\* FeedInv is an invariant of the feed.
THEOREM FeedInvariance == Spec => []FeedInv
<1>1. Feed!FeedAssumption
  BY FlowsAssumption
<1>2. Feed!Init => FeedInv
  BY <1>1, FeedInit
<1>3. FeedInv /\ [Feed!Next]_(Feed!vars) => FeedInv'
  BY <1>1, FeedStepKeeps
<1> QED  BY <1>2, <1>3, FeedPart, PTL

\* Through lost connections, restarts and stale cursors a client has taken every event up
\* to its cursor and no other, and a window read after a dialog was deleted holds nothing of
\* it but its tombstone (ReplayEvents, the SSE handler and Snapshot).
THEOREM FeedSound == Spec => FeedIsSound
<1>1. Feed!FeedAssumption
  BY FlowsAssumption
<1>2. FeedInv => (part = "feed" => Feed!FollowsLog)
  BY DEF FeedInv, Feed!FollowsLog
<1>3. FeedInv /\ [Feed!Next]_(Feed!vars) =>
      [(conn' # None /\ (conn = None \/ Len(conn'.batch) > Len(conn.batch)))
         => \A i \in 1..Len(conn'.batch) :
              conn'.batch[i].type = "dialog.deleted" \/ conn'.batch[i].owner \notin Feed!Deleted
      ]_(Feed!vars)
  BY <1>1, FeedStepReplays
<1>4. Spec => Feed!DeletedIsNotReplayed
  BY <1>3, FeedPart, FeedInvariance, PTL DEF Feed!DeletedIsNotReplayed
<1> QED  BY <1>2, <1>4, FeedInvariance, PTL DEF FeedIsSound
=============================================================================
