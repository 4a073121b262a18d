--------------------------- MODULE LogStreamProofs ---------------------------
(***************************************************************************)
(* The safety properties of LogStream for any number of viewers, chunks    *)
(* and any channel capacity.                                               *)
(***************************************************************************)
EXTENDS LogStream, FiniteSetTheorems, SequenceTheorems, TLAPS

Channel == [buf : Seq(Numbers), closed : BOOLEAN]

----------------------------------------------------------------------------
(* Sequences and channels *)

\* Forwarding a chunk from the channel to the client leaves the stream as it is.
LEMMA Forward ==
  ASSUME NEW S, NEW s \in Seq(S), NEW t \in Seq(S), t # <<>>
  PROVE  Append(s, Head(t)) \o Tail(t) = s \o t
<1>1. /\ Head(t) \in S /\ Tail(t) \in Seq(S) /\ Head(t) = t[1]
      /\ Len(t) \in Nat \ {0}
  BY HeadTailProperties, EmptySeq, LenProperties
<1>2. t = <<t[1]>> \o Tail(t)
  <2>1. SubSeq(t, 1, Len(t)) = <<t[1]>> \o SubSeq(t, 1 + 1, Len(t))
    BY <1>1, SubSeqRecursiveFirst
  <2> QED BY <2>1, <1>1, SubSeqFull, TailIsSubSeq
<1>3. <<Head(t)>> \in Seq(S)
  BY <1>1
<1>4. (s \o <<Head(t)>>) \o Tail(t) = s \o (<<Head(t)>> \o Tail(t))
  BY <1>1, <1>3, ConcatAssociative
<1>5. Append(s, Head(t)) = s \o <<Head(t)>>
  BY <1>1, AppendIsConcat
<1> QED BY <1>1, <1>2, <1>4, <1>5

\* A chunk added to the channel is added to the stream.
LEMMA Extend ==
  ASSUME NEW s \in Seq(Numbers), NEW t \in Seq(Numbers), NEW e \in Numbers
  PROVE  s \o Append(t, e) = Append(s \o t, e)
<1>1. <<e>> \in Seq(Numbers) /\ s \o t \in Seq(Numbers)
  BY ConcatProperties
<1>2. s \o (t \o <<e>>) = (s \o t) \o <<e>>
  BY <1>1, ConcatAssociative
<1> QED BY <1>1, <1>2, AppendIsConcat

\* A chunk not before the last keeps the order; only h may repeat it.
LEMMA AppendOrdered ==
  ASSUME NEW q \in Seq(Numbers), NEW h, NEW n \in Numbers, Ordered(q, h),
         \A i \in 1 .. Len(q) : q[i] < n \/ (q[i] = n /\ q[i] = h)
  PROVE  Ordered(Append(q, n), h)
<1> DEFINE r == Append(q, n)
<1>1. /\ Len(r) = Len(q) + 1 /\ Len(q) \in Nat
      /\ \A i \in 1 .. Len(q) : r[i] = q[i]
      /\ r[Len(q) + 1] = n
  BY AppendProperties, LenProperties
<1> HIDE DEF r
<1>2. ASSUME NEW i \in 1 .. Len(r) - 1
      PROVE  r[i] < r[i + 1] \/ (r[i] = r[i + 1] /\ r[i] = h)
  <2>1. i \in 1 .. Len(q) /\ r[i] = q[i]
    BY <1>1
  <2>2. CASE i = Len(q)
    BY <2>1, <2>2, <1>1
  <2>3. CASE i # Len(q)
    <3>1. i \in 1 .. Len(q) - 1 /\ i + 1 \in 1 .. Len(q)
      BY <2>1, <2>3, <1>1
    <3> QED BY <2>1, <3>1, <1>1 DEF Ordered
  <2> QED BY <2>2, <2>3
<1> QED BY <1>2 DEF Ordered, r

\* What Append and \o do to the chunks of a stream.
LEMMA AppendElements ==
  ASSUME NEW q \in Seq(Numbers), NEW n \in Numbers
  PROVE  Elements(Append(q, n)) = Elements(q) \cup {n}
<1>1. /\ Len(Append(q, n)) = Len(q) + 1 /\ Len(q) \in Nat
      /\ \A i \in 1 .. Len(q) : Append(q, n)[i] = q[i]
      /\ Append(q, n)[Len(q) + 1] = n
  BY AppendProperties, LenProperties
<1> QED BY <1>1 DEF Elements

\* A part of the log, from a chunk on to its end, is in order.
LEMMA FromLog ==
  ASSUME written \in 0 .. Chunks, Chunks \in Nat, NEW first \in 1 .. Chunks + 1,
         first <= written + 1
  PROVE  /\ From(first) \in Seq(Numbers)
         /\ Len(From(first)) = written - first + 1
         /\ \A i \in 1 .. Len(From(first)) : From(first)[i] = first + i - 1
         /\ \A h : Ordered(From(first), h)
<1> DEFINE n == written - first + 1
<1>1. n \in Nat /\ \A i \in 1 .. n : first + i - 1 \in Numbers
  BY DEF Numbers
<1>2. From(first) \in [1 .. n -> Numbers]
  BY <1>1 DEF From
<1>3. From(first) \in Seq(Numbers) /\ Len(From(first)) = n
  BY <1>1, <1>2
<1>4. \A i \in 1 .. n : From(first)[i] = first + i - 1
  BY <1>1 DEF From
<1> QED BY <1>1, <1>3, <1>4 DEF Ordered

----------------------------------------------------------------------------
(* Types *)

\* Channels as records, spelled out for the provers.
LEMMA ChannelFields ==
  ASSUME NEW c \in Channel
  PROVE  /\ c.buf \in Seq(Numbers) /\ c.closed \in BOOLEAN
         /\ \A b \in Seq(Numbers) :
              [c EXCEPT !.buf = b] = [buf |-> b, closed |-> c.closed]
         /\ Closed(c) = [buf |-> c.buf, closed |-> TRUE]
<1>1. c.buf \in Seq(Numbers) /\ c.closed \in BOOLEAN
  BY DEF Channel
<1>2. ASSUME NEW b \in Seq(Numbers)
      PROVE  [c EXCEPT !.buf = b] = [buf |-> b, closed |-> c.closed]
  BY SMT DEF Channel
<1> QED BY <1>1, <1>2 DEF Closed

LEMMA TypeInit == Init => TypeOK
<1> SUFFICES ASSUME Init PROVE TypeOK
  OBVIOUS
<1>1. Open \in Channel /\ Len(Open.buf) = 0
  BY EmptySeq DEF Channel, Open
<1>2. <<>> \in Seq(Numbers)
  BY EmptySeq
<1>3. Never \in 0 .. Never /\ 0 \in 0 .. Chunks
  BY BoundsAssumption DEF Never
<1>4. since \in [Viewers -> 0 .. Never]
  BY <1>3 DEF Init
<1>5. /\ chan \in [Viewers -> Channel] /\ \A v \in Viewers : Len(chan[v].buf) <= Cap
      /\ got \in [Viewers -> Seq(Numbers)]
  BY <1>1, <1>2, BoundsAssumption DEF Init
<1>6. panicked \in BOOLEAN /\ known \in BOOLEAN
  BY DEF Init
<1>7. /\ hist \in [Viewers -> 0 .. Chunks] /\ missed \in [Viewers -> SUBSET Numbers]
      /\ phase \in [Viewers -> {"away", "history", "checked", "reading", "done"}]
      /\ written \in 0 .. Chunks
  BY <1>3 DEF Init
<1> QED BY <1>4, <1>5, <1>6, <1>7 DEF Init, TypeOK, Channel

\* What the copier appends stays within the capacity of the channel.
LEMMA TypeBroadcast == TypeOK /\ Broadcast => TypeOK'
<1> SUFFICES ASSUME TypeOK, NEW n \in pending,
                    chan' = [v \in Viewers |->
                       IF v \in Receivers /\ ~Full(v)
                       THEN [chan[v] EXCEPT !.buf = Append(@, n)] ELSE chan[v]],
                    missed' = [v \in Viewers |->
                       IF v \in Receivers /\ Full(v) THEN missed[v] \cup {n} ELSE missed[v]],
                    panicked' \in BOOLEAN,
                    pending' = pending \ {n},
                    UNCHANGED <<proc, status, known, written, waiter, subs, phase, got,
                                gone, stalled, hist, since>>
             PROVE TypeOK'
  BY DEF Broadcast, TypeOK
<1>1. n \in Numbers
  BY DEF TypeOK
<1>2. ASSUME NEW v \in Viewers PROVE chan'[v] \in Channel /\ Len(chan'[v].buf) <= Cap
  <2>1. chan[v] \in Channel /\ Len(chan[v].buf) <= Cap
    BY DEF TypeOK, Channel
  <2>2. CASE v \in Receivers /\ ~Full(v)
    <3>1. chan'[v] = [buf |-> Append(chan[v].buf, n), closed |-> chan[v].closed]
      <4>1. chan'[v] = [chan[v] EXCEPT !.buf = Append(chan[v].buf, n)]
        BY <2>2
      <4>2. Append(chan[v].buf, n) \in Seq(Numbers)
        BY <1>1, <2>1, ChannelFields, AppendProperties
      <4> QED BY <4>1, <4>2, <2>1, ChannelFields
    <3>2. Append(chan[v].buf, n) \in Seq(Numbers)
          /\ Len(Append(chan[v].buf, n)) = Len(chan[v].buf) + 1
      BY <1>1, <2>1, ChannelFields, AppendProperties
    <3>3. Len(chan[v].buf) # Cap /\ Len(chan[v].buf) \in Nat
      BY <2>1, <2>2, ChannelFields, LenProperties DEF Full
    <3>4. chan'[v] \in Channel
      BY <3>1, <3>2, <2>1, ChannelFields DEF Channel
    <3> QED BY <3>1, <3>2, <3>3, <3>4, <2>1, BoundsAssumption
  <2>3. CASE ~(v \in Receivers /\ ~Full(v))
    BY <2>1, <2>3
  <2> QED BY <2>2, <2>3
<1>3. chan' \in [Viewers -> Channel] /\ \A v \in Viewers : Len(chan'[v].buf) <= Cap
  BY <1>2
<1>4. missed' \in [Viewers -> SUBSET Numbers]
  BY <1>1 DEF TypeOK
<1> QED BY <1>3, <1>4 DEF TypeOK, Channel

\* A step that closes channels keeps what they hold.
LEMMA TypeClose ==
  ASSUME TypeOK, NEW C \in SUBSET Viewers,
         chan' = [v \in Viewers |-> IF v \in C THEN Closed(chan[v]) ELSE chan[v]]
  PROVE  chan' \in [Viewers -> Channel] /\ \A v \in Viewers : Len(chan'[v].buf) <= Cap
<1>1. ASSUME NEW v \in Viewers PROVE chan'[v] \in Channel /\ Len(chan'[v].buf) <= Cap
  <2>1. chan[v] \in Channel /\ Len(chan[v].buf) <= Cap
    BY DEF TypeOK, Channel
  <2>2. CASE v \in C
    <3>1. chan'[v] = [buf |-> chan[v].buf, closed |-> TRUE]
      BY <2>1, <2>2, ChannelFields
    <3>2. [buf |-> chan[v].buf, closed |-> TRUE] \in Channel
      BY <2>1, ChannelFields DEF Channel
    <3> QED BY <3>1, <3>2, <2>1
  <2>3. CASE v \notin C
    BY <2>1, <2>3
  <2> QED BY <2>2, <2>3
<1> QED BY <1>1

\* The history is a part of the log.
LEMMA HistoryOfLog ==
  ASSUME TypeOK
  PROVE  /\ History \in Seq(Numbers) /\ From(1) \in Seq(Numbers)
         /\ \A h : Ordered(History, h) /\ Ordered(From(1), h)
         /\ \A i \in 1 .. Len(History) : History[i] <= written
         /\ \A i \in 1 .. Len(From(1)) : From(1)[i] <= written
         /\ First(written) .. written \subseteq Elements(History) \cap Elements(From(1))
<1> DEFINE first == First(written)
<1>1. written \in 0 .. Chunks /\ Chunks \in Nat
  BY BoundsAssumption DEF TypeOK
<1>2. first \in 1 .. Chunks + 1 /\ first <= written + 1 /\ first \in Nat
  BY <1>1, BoundsAssumption DEF First
<1>3. History = From(first)
  BY DEF History
<1> HIDE DEF first
<1>4. /\ History \in Seq(Numbers) /\ Len(History) = written - first + 1
      /\ \A i \in 1 .. Len(History) : History[i] = first + i - 1
      /\ \A h : Ordered(History, h)
  BY <1>1, <1>2, <1>3, FromLog
<1>5. 1 \in 1 .. Chunks + 1 /\ 1 <= written + 1
  BY <1>1
<1>6. /\ From(1) \in Seq(Numbers) /\ Len(From(1)) = written - 1 + 1
      /\ \A i \in 1 .. Len(From(1)) : From(1)[i] = 1 + i - 1
      /\ \A h : Ordered(From(1), h)
  BY <1>1, <1>5, FromLog
<1>7. ASSUME NEW n \in first .. written
      PROVE  n \in Elements(History) /\ n \in Elements(From(1))
  <2>1. /\ n - first + 1 \in 1 .. Len(History) /\ History[n - first + 1] = n
        /\ n \in 1 .. Len(From(1)) /\ From(1)[n] = n
    BY <1>1, <1>2, <1>4, <1>6
  <2> QED BY <2>1 DEF Elements
<1>8. \A i \in 1 .. Len(History) : History[i] <= written
  BY <1>1, <1>2, <1>4
<1>9. \A i \in 1 .. Len(From(1)) : From(1)[i] <= written
  BY <1>1, <1>6
<1> QED BY <1>4, <1>6, <1>7, <1>8, <1>9 DEF first

\* What SendHistory, Deliver and their like do to the channel and the client
\* of one viewer.
LEMMA TypeDeliver ==
  ASSUME TypeOK, NEW v \in Viewers, Deliver(v)
  PROVE  /\ chan' \in [Viewers -> Channel] /\ got' \in [Viewers -> Seq(Numbers)]
         /\ \A w \in Viewers : Len(chan'[w].buf) <= Cap
         /\ got'[v] = Append(got[v], Head(chan[v].buf))
         /\ chan'[v] = [buf |-> Tail(chan[v].buf), closed |-> chan[v].closed]
         /\ \A w \in Viewers \ {v} : chan'[w] = chan[w] /\ got'[w] = got[w]
<1>1. chan \in [Viewers -> Channel] /\ got \in [Viewers -> Seq(Numbers)]
  BY DEF TypeOK, Channel
<1>2. chan[v].buf \in Seq(Numbers) /\ chan[v].buf # <<>>
  BY <1>1, ChannelFields DEF Deliver
<1>3. /\ Head(chan[v].buf) \in Numbers /\ Tail(chan[v].buf) \in Seq(Numbers)
      /\ Len(Tail(chan[v].buf)) = Len(chan[v].buf) - 1 /\ Len(chan[v].buf) \in Nat
  BY <1>2, HeadTailProperties, LenProperties
<1>4. Append(got[v], Head(chan[v].buf)) \in Seq(Numbers)
  BY <1>1, <1>3, AppendProperties
<1>5. chan' = [chan EXCEPT ![v] = [chan[v] EXCEPT !.buf = Tail(chan[v].buf)]]
  BY DEF Deliver
<1>6. [chan[v] EXCEPT !.buf = Tail(chan[v].buf)]
        = [buf |-> Tail(chan[v].buf), closed |-> chan[v].closed]
  BY <1>1, <1>3, ChannelFields
<1>7. [buf |-> Tail(chan[v].buf), closed |-> chan[v].closed] \in Channel
  BY <1>1, <1>3, ChannelFields DEF Channel
<1>8. /\ chan'[v] = [buf |-> Tail(chan[v].buf), closed |-> chan[v].closed]
      /\ \A w \in Viewers \ {v} : chan'[w] = chan[w]
      /\ chan' \in [Viewers -> Channel]
  BY <1>1, <1>5, <1>6, <1>7
<1>9. ASSUME NEW w \in Viewers PROVE Len(chan'[w].buf) <= Cap
  <2>1. Len(chan[w].buf) <= Cap
    BY DEF TypeOK
  <2>2. CASE w = v
    BY <2>1, <2>2, <1>3, <1>8, BoundsAssumption
  <2>3. CASE w # v
    BY <2>1, <2>3, <1>8
  <2> QED BY <2>2, <2>3
<1>10. /\ got' \in [Viewers -> Seq(Numbers)]
       /\ got'[v] = Append(got[v], Head(chan[v].buf))
       /\ \A w \in Viewers \ {v} : got'[w] = got[w]
  BY <1>1, <1>4 DEF Deliver
<1> QED BY <1>8, <1>9, <1>10

\* The channel of one viewer is closed if it is in the map.
LEMMA TypeUnsubscribe ==
  ASSUME TypeOK, NEW v \in Viewers, Unsubscribe(v)
  PROVE  /\ chan' \in [Viewers -> Channel]
         /\ \A w \in Viewers : Len(chan'[w].buf) <= Cap
         /\ subs' \subseteq Viewers /\ panicked' \in BOOLEAN
<1>1. CASE v \in subs
  <2>1. chan' = [chan EXCEPT ![v] = Closed(@)]
    BY <1>1 DEF Unsubscribe
  <2>2. chan' = [w \in Viewers |-> IF w \in {v} THEN Closed(chan[w]) ELSE chan[w]]
    BY <2>1 DEF TypeOK
  <2>3. subs' \subseteq Viewers /\ panicked' \in BOOLEAN
    BY <1>1 DEF Unsubscribe, TypeOK
  <2> QED BY <2>2, <2>3, TypeClose
<1>2. CASE v \notin subs
  BY <1>2 DEF Unsubscribe, TypeOK, Channel
<1> QED BY <1>1, <1>2

\* The channel of one viewer is closed.
LEMMA TypeCloseOne ==
  ASSUME TypeOK, NEW v \in Viewers, chan' = [chan EXCEPT ![v] = Closed(@)]
  PROVE  chan' \in [Viewers -> Channel] /\ \A w \in Viewers : Len(chan'[w].buf) <= Cap
<1>1. chan' = [w \in Viewers |-> IF w \in {v} THEN Closed(chan[w]) ELSE chan[w]]
  BY DEF TypeOK
<1> QED BY <1>1, TypeClose

\* The number of the last chunk that has been broadcast.
LEMMA Broadcasted ==
  ASSUME TypeOK, CopierInv
  PROVE  /\ pending = {} => written - Cardinality(pending) = written
         /\ pending # {} => written - Cardinality(pending) = written - 1 /\ written \in Numbers
         /\ written - Cardinality(pending) \in 0 .. Chunks
<1>1. CASE pending = {}
  BY <1>1, FS_EmptySet, BoundsAssumption DEF TypeOK
<1>2. CASE pending = {written}
  <2>1. written \in Numbers
    BY <1>2 DEF TypeOK
  <2>2. Cardinality(pending) = 1
    BY <1>2, FS_Singleton
  <2> QED BY <1>2, <2>1, <2>2, BoundsAssumption DEF Numbers
<1> QED BY <1>1, <1>2 DEF CopierInv

LEMMA TypeNext == TypeOK /\ CopierInv /\ [Next]_vars => TypeOK'
<1> SUFFICES ASSUME TypeOK, CopierInv, [Next]_vars PROVE TypeOK'
  OBVIOUS
<1> USE DEF job, streams
<1>1. CASE WriteLog
  <2>1. written' \in 0 .. Chunks /\ pending' \subseteq Numbers
    BY <1>1, BoundsAssumption DEF WriteLog, TypeOK, Numbers
  <2> QED BY <1>1, <2>1 DEF WriteLog, TypeOK
<1>2. CASE Broadcast
  BY <1>2, TypeBroadcast
<1>3. CASE ProcExit
  BY <1>3 DEF ProcExit, TypeOK
<1>4. CASE Kill
  BY <1>4 DEF Kill, TypeOK
<1>5. CASE WaitExitSave
  BY <1>5 DEF WaitExitSave, TypeOK
<1>6. CASE CloseBroadcaster
  <2>1. chan' \in [Viewers -> Channel] /\ \A w \in Viewers : Len(chan'[w].buf) <= Cap
    <3>1. subs \in SUBSET Viewers
      BY DEF TypeOK
    <3> QED BY <1>6, <3>1, TypeClose DEF CloseBroadcaster
  <2> QED BY <1>6, <2>1 DEF CloseBroadcaster, TypeOK, Channel
<1>7. CASE Forget
  BY <1>7 DEF Forget, TypeOK
<1>8. ASSUME NEW v \in Viewers, Handler(v) \/ Client(v) PROVE TypeOK'
  <2>1. CASE StreamFromDisk(v)
    BY <2>1, HistoryOfLog DEF StreamFromDisk, TypeOK
  <2>2. CASE SendHistory(v)
    BY <2>2, HistoryOfLog DEF SendHistory, TypeOK
  <2>3. CASE CheckStatus(v)
    BY <2>3 DEF CheckStatus, TypeOK
  <2>4. CASE Subscribe(v)
    <3>1. since' \in [Viewers -> 0 .. Never]
      BY <2>4, Broadcasted, BoundsAssumption DEF Subscribe, TypeOK, Never
    <3>2. chan' \in [Viewers -> Channel] /\ \A w \in Viewers : Len(chan'[w].buf) <= Cap
      <4>1. CASE UNCHANGED chan
        BY <4>1 DEF TypeOK, Channel
      <4> QED BY <4>1, <2>4, TypeCloseOne DEF Subscribe
    <3>3. subs' \subseteq Viewers
      BY <2>4 DEF Subscribe, TypeOK
    <3> QED BY <2>4, <3>1, <3>2, <3>3 DEF Subscribe, TypeOK, Channel
  <2>5. CASE Deliver(v)
    BY <2>5, TypeDeliver DEF Deliver, TypeOK, Channel
  <2>6. CASE EndOfStream(v)
    BY <2>6, TypeUnsubscribe DEF EndOfStream, TypeOK, Channel
  <2>7. CASE NoticeGone(v)
    <3>1. /\ chan' \in [Viewers -> Channel] /\ \A w \in Viewers : Len(chan'[w].buf) <= Cap
          /\ subs' \subseteq Viewers /\ panicked' \in BOOLEAN
      BY <2>7, TypeUnsubscribe DEF NoticeGone
    <3>2. status' \in {"RUNNING", "ended"} /\ proc' \in {"running", "gone"}
      BY <2>7 DEF NoticeGone, TypeOK
    <3> QED BY <2>7, <3>1, <3>2 DEF NoticeGone, TypeOK, Channel
  <2>8. CASE Disconnect(v)
    BY <2>8 DEF Disconnect, TypeOK
  <2>9. CASE Stall(v)
    BY <2>9 DEF Stall, TypeOK
  <2> QED BY <1>8, <2>1, <2>2, <2>3, <2>4, <2>5, <2>6, <2>7, <2>8, <2>9 DEF Handler, Client
<1>9. CASE UNCHANGED vars
  BY <1>9 DEF vars, TypeOK
<1> QED BY <1>1, <1>2, <1>3, <1>4, <1>5, <1>6, <1>7, <1>8, <1>9 DEF Next

\* The copier writes to the log, and then to the broadcaster, before it goes on.
LEMMA CopierNext == TypeOK /\ CopierInv /\ [Next]_vars => CopierInv'
<1> SUFFICES ASSUME TypeOK, CopierInv, [Next]_vars PROVE CopierInv'
  OBVIOUS
<1> USE DEF job, streams, CopierInv, IsRunning
<1>1. CASE WriteLog
  BY <1>1 DEF WriteLog
<1>2. CASE Broadcast
  BY <1>2 DEF Broadcast
<1>3. CASE WaitExitSave
  BY <1>3 DEF WaitExitSave
<1>4. CASE CloseBroadcaster
  BY <1>4 DEF CloseBroadcaster
<1>5. ASSUME UNCHANGED <<written, pending, waiter, known>>,
             status' = status \/ status' = "ended"
      PROVE  CopierInv'
  BY <1>5
<1>6. CASE ProcExit \/ Kill
  BY <1>5, <1>6 DEF ProcExit, Kill
<1>7. CASE Forget
  BY <1>7 DEF Forget
<1>8. ASSUME NEW v \in Viewers, Handler(v) \/ Client(v) PROVE CopierInv'
  BY <1>5, <1>8 DEF Handler, Client, StreamFromDisk, SendHistory, CheckStatus, Subscribe,
                    Deliver, EndOfStream, NoticeGone, Disconnect, Stall
<1>9. CASE UNCHANGED vars
  BY <1>5, <1>9 DEF vars
<1> QED BY <1>1, <1>2, <1>3, <1>4, <1>6, <1>7, <1>8, <1>9 DEF Next

----------------------------------------------------------------------------
(* The invariant, viewer by viewer *)

SubscriptionOK(v) ==
  /\ v \in subs => ~chan[v].closed /\ phase[v] = "reading" /\ waiter # "closed"
  /\ phase[v] \in {"away", "history", "checked"} => chan[v] = Open /\ since[v] = Never
  /\ phase[v] = "away" => got[v] = <<>>
  /\ phase[v] = "reading" => (v \in subs \/ waiter = "closed") /\ since[v] # Never
  /\ phase[v] = "done" /\ v \notin gone /\ since[v] # Never => waiter = "closed"

SourceOK(v) ==
  phase[v] # "done" =>
    \A i \in 1 .. Len(Stream(v)) :
      Stream(v)[i] <= written /\ (Stream(v)[i] \in pending => Stream(v)[i] = hist[v])

CompleteOK(v) ==
  v \notin gone =>
    (since[v] + 1 .. written) \ pending \subseteq Elements(Stream(v)) \cup missed[v]

ViewerOK(v) ==
  SubscriptionOK(v) /\ SourceOK(v) /\ Ordered(Stream(v), hist[v]) /\ CompleteOK(v)

HistoryOK(v) ==
  phase[v] # "away" => First(hist[v]) .. hist[v] \subseteq Elements(got[v])

EndOK(v) == phase[v] = "done" /\ v \notin gone /\ since[v] = Never => ~IsRunning

LEMMA ByViewer ==
  StreamInv <=> /\ TypeOK /\ NoSendOnClosed /\ CopierInv
                /\ \A v \in Viewers : ViewerOK(v) /\ HistoryOK(v) /\ EndOK(v)
BY DEF StreamInv, SubscriptionInv, SourceInv, InOrder, NothingElseIsLost, ViewerOK,
       SubscriptionOK, SourceOK, CompleteOK, HistoryOK, EndOK

\* A viewer whose own stream does not move, while the job does not write.
LEMMA Untouched ==
  ASSUME NEW v \in Viewers, ViewerOK(v),
         UNCHANGED <<written, pending, waiter, phase[v], chan[v], got[v], hist[v],
                     since[v], missed[v], v \in subs, v \in gone>>
  PROVE  ViewerOK(v)'
<1>1. UNCHANGED Stream(v)
  BY DEF Stream
<1>2. SubscriptionOK(v)'
  BY DEF ViewerOK, SubscriptionOK
<1>3. SourceOK(v)'
  BY <1>1 DEF ViewerOK, SourceOK
<1>4. Ordered(Stream(v), hist[v])'
  BY <1>1 DEF ViewerOK, Ordered
<1>5. CompleteOK(v)'
  BY <1>1 DEF ViewerOK, CompleteOK, Elements
<1> QED BY <1>2, <1>3, <1>4, <1>5 DEF ViewerOK

\* The stream of a viewer is a sequence of chunks; a channel that was never
\* used adds nothing to it.
LEMMA StreamType ==
  ASSUME TypeOK, NEW v \in Viewers
  PROVE  /\ got[v] \in Seq(Numbers) /\ chan[v] \in Channel
         /\ chan[v].buf \in Seq(Numbers) /\ Stream(v) \in Seq(Numbers)
         /\ chan[v] = Open => Stream(v) = got[v]
<1>1. got[v] \in Seq(Numbers) /\ chan[v] \in Channel
  BY DEF TypeOK, Channel
<1>2. chan[v].buf \in Seq(Numbers)
  BY <1>1, ChannelFields
<1>3. got[v] \o chan[v].buf \in Seq(Numbers)
  BY <1>1, <1>2, ConcatProperties
<1>4. ASSUME chan[v] = Open PROVE Stream(v) = got[v]
  <2>1. chan[v].buf = <<>>
    BY <1>4 DEF Open
  <2> QED BY <2>1, <1>1, ConcatEmptySeq DEF Stream
<1> QED BY <1>1, <1>2, <1>3, <1>4 DEF Stream

LEMMA ViewerInit == Init => \A v \in Viewers : ViewerOK(v)
<1> SUFFICES ASSUME Init, NEW v \in Viewers PROVE ViewerOK(v)
  OBVIOUS
<1>1. TypeOK
  BY TypeInit
<1>2. /\ chan[v] = Open /\ got[v] = <<>> /\ phase[v] = "away" /\ since[v] = Never
      /\ subs = {} /\ waiter = "waiting" /\ written = 0
  BY DEF Init
<1>3. Stream(v) = <<>>
  BY <1>1, <1>2, StreamType
<1>4. Len(Stream(v)) = 0
  BY <1>3
<1>5. SubscriptionOK(v)
  BY <1>2 DEF SubscriptionOK
<1>6. SourceOK(v) /\ Ordered(Stream(v), hist[v])
  BY <1>4 DEF SourceOK, Ordered
<1>7. CompleteOK(v)
  BY <1>2, BoundsAssumption DEF CompleteOK, Never
<1> QED BY <1>5, <1>6, <1>7 DEF ViewerOK

\* The log grows: what is new is still to be broadcast.
LEMMA ViewerWriteLog ==
  ASSUME TypeOK, CopierInv, NEW v \in Viewers, ViewerOK(v), WriteLog
  PROVE  ViewerOK(v)'
<1>1. /\ written' = written + 1 /\ pending' = {written + 1} /\ pending = {}
      /\ waiter = "waiting"
      /\ UNCHANGED <<waiter, phase, chan, got, hist, since, missed, subs, gone>>
  BY DEF WriteLog, streams
<1>2. written \in Nat /\ since[v] \in Nat
  BY BoundsAssumption DEF TypeOK
<1>3. Stream(v)' = Stream(v)
  BY <1>1 DEF Stream
<1>4. SubscriptionOK(v)'
  BY <1>1 DEF ViewerOK, SubscriptionOK
<1>5. SourceOK(v)'
  <2> SUFFICES ASSUME phase[v] # "done", NEW i \in 1 .. Len(Stream(v))
               PROVE  Stream(v)[i] <= written + 1 /\ Stream(v)[i] # written + 1
    BY <1>1, <1>3 DEF SourceOK
  <2>1. Stream(v)[i] <= written
    BY DEF ViewerOK, SourceOK
  <2>2. Stream(v)[i] \in Numbers
    BY StreamType, ElementOfSeq
  <2> QED BY <2>1, <2>2, <1>2 DEF Numbers
<1>6. Ordered(Stream(v), hist[v])'
  BY <1>1, <1>3 DEF ViewerOK, Ordered
<1>7. CompleteOK(v)'
  <2>1. (since[v] + 1 .. written + 1) \ {written + 1} \subseteq since[v] + 1 .. written
    BY <1>2
  <2> QED BY <2>1, <1>1, <1>3 DEF ViewerOK, CompleteOK, Elements
<1> QED BY <1>4, <1>5, <1>6, <1>7 DEF ViewerOK

\* The chunk reaches a viewer's channel, is dropped because that is full, or
\* concerns no viewer that is still to be served.
LEMMA ViewerBroadcast ==
  ASSUME TypeOK, CopierInv, NEW v \in Viewers, ViewerOK(v), Broadcast
  PROVE  ViewerOK(v)'
<1>0. waiter = "waiting" /\ Receivers = subs
  BY DEF Broadcast, CopierInv, Receivers
<1>1. /\ pending = {written} /\ pending' = {} /\ waiter = "waiting" /\ written \in Numbers
      /\ chan'[v] = IF v \in subs /\ ~Full(v)
                    THEN [chan[v] EXCEPT !.buf = Append(@, written)] ELSE chan[v]
      /\ missed'[v] = IF v \in subs /\ Full(v) THEN missed[v] \cup {written} ELSE missed[v]
      /\ UNCHANGED <<written, waiter, subs, phase, got, gone, hist, since>>
  <2>1. PICK n \in pending :
          /\ chan' = [w \in Viewers |->
                        IF w \in subs /\ ~Full(w)
                        THEN [chan[w] EXCEPT !.buf = Append(@, n)] ELSE chan[w]]
          /\ missed' = [w \in Viewers |->
                          IF w \in subs /\ Full(w) THEN missed[w] \cup {n} ELSE missed[w]]
          /\ pending' = pending \ {n}
          /\ UNCHANGED <<written, waiter, subs, phase, got, gone, hist, since>>
    BY <1>0 DEF Broadcast
  <2>2. pending = {written} /\ n = written /\ waiter = "waiting" /\ written \in Numbers
    BY DEF CopierInv, TypeOK
  <2> QED BY <2>1, <2>2
<1>2. /\ written \in Nat /\ since[v] \in Nat /\ written <= Chunks /\ Chunks \in Nat
      /\ missed[v] \subseteq Numbers
  BY BoundsAssumption DEF TypeOK
<1>3. /\ got[v] \in Seq(Numbers) /\ chan[v] \in Channel
      /\ chan[v].buf \in Seq(Numbers) /\ Stream(v) \in Seq(Numbers)
  BY StreamType
<1>4. CASE v \in subs /\ ~Full(v)
  <2>1. phase[v] = "reading" /\ ~chan[v].closed
    BY <1>4 DEF ViewerOK, SubscriptionOK
  <2>2. chan'[v] = [buf |-> Append(chan[v].buf, written), closed |-> chan[v].closed]
    <3>1. chan'[v] = [chan[v] EXCEPT !.buf = Append(chan[v].buf, written)]
      BY <1>1, <1>4
    <3>2. Append(chan[v].buf, written) \in Seq(Numbers)
      BY <1>1, <1>3, AppendProperties
    <3> QED BY <3>1, <3>2, <1>3, ChannelFields
  <2>3. Stream(v)' = Append(Stream(v), written)
    <3>1. Stream(v) = got[v] \o chan[v].buf
      BY <2>1 DEF Stream
    <3>2. chan'[v].buf = Append(chan[v].buf, written)
      BY <2>2
    <3>3. Stream(v)' = got[v] \o Append(chan[v].buf, written)
      <4>1. phase'[v] # "done" /\ got'[v] = got[v]
        BY <2>1, <1>1
      <4>2. Stream(v)' = got'[v] \o chan'[v].buf
        BY <4>1 DEF Stream
      <4> QED BY <4>1, <4>2, <3>2
    <3>4. got[v] \o Append(chan[v].buf, written) = Append(got[v] \o chan[v].buf, written)
      <4>1. got[v] \in Seq(Numbers) /\ chan[v].buf \in Seq(Numbers) /\ written \in Numbers
        BY <1>1, <1>3
      <4> QED BY <4>1, Extend
    <3> QED BY <3>1, <3>3, <3>4
  <2> DEFINE q == Stream(v)
  <2>4. \A i \in 1 .. Len(q) : q[i] \in Numbers /\ q[i] <= written
                                 /\ (q[i] = written => q[i] = hist[v])
    <3>1. \A i \in 1 .. Len(q) : q[i] \in Numbers
      BY <1>3, ElementOfSeq
    <3> QED BY <3>1, <2>1, <1>1 DEF ViewerOK, SourceOK
  <2>5. q \in Seq(Numbers) /\ Ordered(q, hist[v])
    BY <1>3 DEF ViewerOK
  <2>6. /\ Len(Append(q, written)) = Len(q) + 1 /\ Len(q) \in Nat
        /\ \A i \in 1 .. Len(q) : Append(q, written)[i] = q[i]
        /\ Append(q, written)[Len(q) + 1] = written
    BY <2>5, <1>1, AppendProperties, LenProperties
  <2>7. Elements(Append(q, written)) = Elements(q) \cup {written}
    BY <2>5, <1>1, AppendElements
  <2>8. CompleteOK(v) 
    BY DEF ViewerOK
  <2> HIDE DEF q
  <2>9. SubscriptionOK(v)'
    <3>1. v \in subs /\ waiter # "closed"
      BY <1>1, <1>4
    <3>2. ~chan'[v].closed
      BY <2>1, <2>2
    <3>3. since[v] # Never
      BY <2>1 DEF ViewerOK, SubscriptionOK
    <3> QED BY <3>1, <3>2, <3>3, <2>1, <1>1 DEF SubscriptionOK
  <2>10. Ordered(Append(q, written), hist[v])
    <3>1. \A i \in 1 .. Len(q) : q[i] < written \/ (q[i] = written /\ q[i] = hist[v])
      BY <2>4, <1>2 DEF Numbers
    <3> QED BY <3>1, <2>5, <1>1, AppendOrdered
  <2>11. SourceOK(v)'
    <3>1. \A i \in 1 .. Len(Append(q, written)) : Append(q, written)[i] <= written
      BY <2>4, <2>6, <1>2
    <3> QED BY <3>1, <2>3, <1>1 DEF SourceOK, q
  <2>12. CompleteOK(v)'
    <3>1. v \notin gone =>
            (since[v] + 1 .. written) \subseteq (Elements(q) \cup {written}) \cup missed[v]
      BY <2>8, <1>1 DEF CompleteOK, q
    <3>2. Elements(Stream(v))' = Elements(q) \cup {written}
      <4>1. Elements(Stream(v))' = Elements(Append(q, written))
        BY <2>3 DEF q, Elements
      <4> QED BY <4>1, <2>7
    <3>3. missed'[v] = missed[v]
      BY <1>1, <1>4
    <3> QED BY <3>1, <3>2, <3>3, <1>1 DEF CompleteOK
  <2>13. Ordered(Stream(v), hist[v])'
    BY <2>10, <2>3, <1>1 DEF Ordered, q
  <2> QED BY <2>9, <2>11, <2>12, <2>13 DEF ViewerOK
<1>5. CASE ~(v \in subs /\ ~Full(v))
  <2>1. chan'[v] = chan[v]
    BY <1>1, <1>5
  <2>2. Stream(v)' = Stream(v)
    BY <2>1, <1>1 DEF Stream
  <2>3. SubscriptionOK(v)'
    BY <2>1, <1>1 DEF ViewerOK, SubscriptionOK
  <2>4. SourceOK(v)'
    BY <2>2, <1>1 DEF ViewerOK, SourceOK
  <2>5. Ordered(Stream(v), hist[v])'
    BY <2>2, <1>1 DEF ViewerOK, Ordered
  <2>6. CompleteOK(v)'
    <3>1. Elements(Stream(v))' = Elements(Stream(v))
      BY <2>2 DEF Elements
    <3>2. CASE v \in subs
      <4>1. missed'[v] = missed[v] \cup {written}
        BY <3>2, <1>1, <1>5
      <4> QED BY <4>1, <3>1, <1>1 DEF ViewerOK, CompleteOK
    <3>3. CASE v \notin subs
      <4>1. v \in gone \/ since[v] = Never
        <5>1. phase[v] # "reading"
          BY <3>3, <1>1 DEF ViewerOK, SubscriptionOK
        <5>2. phase[v] \in {"away", "history", "checked", "done"}
          BY <5>1 DEF TypeOK
        <5> QED BY <5>2, <1>1 DEF ViewerOK, SubscriptionOK
      <4>2. since[v] = Never => since[v] + 1 .. written = {}
        BY <1>2 DEF Never
      <4> QED BY <4>1, <4>2, <1>1 DEF CompleteOK
    <3> QED BY <3>2, <3>3
  <2> QED BY <2>3, <2>4, <2>5, <2>6 DEF ViewerOK
<1> QED BY <1>4, <1>5

\* Closing the channels loses nothing of what they hold.
LEMMA ViewerClose ==
  ASSUME TypeOK, CopierInv, NEW v \in Viewers, ViewerOK(v), CloseBroadcaster
  PROVE  ViewerOK(v)'
<1>1. /\ waiter' = "closed" /\ subs' = {}
      /\ chan'[v] = IF v \in subs THEN Closed(chan[v]) ELSE chan[v]
      /\ UNCHANGED <<written, pending, phase, got, gone, hist, since, missed>>
  BY DEF CloseBroadcaster
<1>2. chan'[v].buf = chan[v].buf
  BY <1>1, StreamType, ChannelFields
<1>3. Stream(v)' = Stream(v)
  BY <1>1, <1>2 DEF Stream
<1>4. SubscriptionOK(v)'
  BY <1>1 DEF ViewerOK, SubscriptionOK
<1>5. SourceOK(v)'
  BY <1>1, <1>3 DEF ViewerOK, SourceOK
<1>6. Ordered(Stream(v), hist[v])'
  BY <1>1, <1>3 DEF ViewerOK, Ordered
<1>7. CompleteOK(v)'
  BY <1>1, <1>3 DEF ViewerOK, CompleteOK, Elements
<1> QED BY <1>4, <1>5, <1>6, <1>7 DEF ViewerOK

\* The first bytes a client gets, whole or from the end of a long log.
LEMMA ViewerHistory ==
  ASSUME TypeOK, CopierInv, NEW v \in Viewers, ViewerOK(v), SendHistory(v)
  PROVE  ViewerOK(v)'
<1>1. /\ phase[v] = "away" /\ phase'[v] = "history" /\ got'[v] = History
      /\ hist'[v] = written
      /\ UNCHANGED <<written, pending, waiter, subs, chan, gone, since, missed>>
  BY DEF SendHistory, job, TypeOK
<1>2. chan[v] = Open /\ since[v] = Never /\ written \in 0 .. Chunks /\ Chunks \in Nat
  BY <1>1, BoundsAssumption DEF ViewerOK, SubscriptionOK, TypeOK
<1>3. TypeOK'
  <2>1. Handler(v) \/ Client(v)
    BY DEF Client
  <2> QED BY <2>1, TypeNext DEF Next
<1>4. Stream(v)' = History
  <2>1. (chan[v] = Open => Stream(v) = got[v])'
    <3>1. TypeOK' /\ v \in Viewers
      BY <1>3
    <3> QED BY <1>1, <1>2, <3>1, ConcatEmptySeq, HistoryOfLog DEF Stream, Open
  <2>2. chan'[v] = Open
    BY <1>1, <1>2
  <2> QED BY <2>1, <2>2, <1>1
<1>5. SubscriptionOK(v)'
  BY <1>1, <1>2 DEF ViewerOK, SubscriptionOK
<1>6. SourceOK(v)'
  BY <1>1, <1>4, HistoryOfLog DEF SourceOK, CopierInv
<1>7. Ordered(Stream(v), hist[v])'
  <2>1. Ordered(History, hist'[v])
    BY HistoryOfLog
  <2> QED BY <2>1, <1>4 DEF Ordered
<1>8. CompleteOK(v)'
  <2>1. Never + 1 .. written = {}
    BY <1>2 DEF Never
  <2> QED BY <2>1, <1>1, <1>2 DEF CompleteOK
<1> QED BY <1>5, <1>6, <1>7, <1>8 DEF ViewerOK

\* The log of a job the worker does not know.
LEMMA ViewerFromDisk ==
  ASSUME TypeOK, CopierInv, NEW v \in Viewers, ViewerOK(v), StreamFromDisk(v)
  PROVE  ViewerOK(v)'
<1>1. /\ phase[v] = "away" /\ phase'[v] = "done" /\ got'[v] = From(1)
      /\ UNCHANGED <<written, pending, waiter, subs, chan, gone, since, missed>>
  BY DEF StreamFromDisk, job, TypeOK
<1>2. since[v] = Never /\ written \in 0 .. Chunks /\ Chunks \in Nat
  BY <1>1, BoundsAssumption DEF ViewerOK, SubscriptionOK, TypeOK
<1>3. Stream(v)' = From(1)
  BY <1>1 DEF Stream
<1>4. SubscriptionOK(v)' /\ SourceOK(v)'
  BY <1>1, <1>2 DEF ViewerOK, SubscriptionOK, SourceOK
<1>5. Ordered(Stream(v), hist[v])'
  <2>1. Ordered(From(1), hist'[v])
    BY HistoryOfLog
  <2> QED BY <2>1, <1>3 DEF Ordered
<1>6. CompleteOK(v)'
  <2>1. Never + 1 .. written = {}
    BY <1>2 DEF Never
  <2> QED BY <2>1, <1>1, <1>2 DEF CompleteOK
<1> QED BY <1>4, <1>5, <1>6 DEF ViewerOK

\* A job that is not RUNNING is not followed.
LEMMA ViewerCheck ==
  ASSUME TypeOK, CopierInv, NEW v \in Viewers, ViewerOK(v), CheckStatus(v)
  PROVE  ViewerOK(v)'
<1>1. /\ phase[v] = "history" /\ phase'[v] \in {"checked", "done"}
      /\ UNCHANGED <<written, pending, waiter, subs, chan, got, gone, hist, since, missed>>
  BY DEF CheckStatus, job, TypeOK
<1>2. chan[v] = Open /\ since[v] = Never /\ written \in 0 .. Chunks /\ Chunks \in Nat
  BY <1>1, BoundsAssumption DEF ViewerOK, SubscriptionOK, TypeOK
<1>3. Stream(v)' = Stream(v)
  <2>1. Stream(v) = got[v] /\ got[v] \o chan[v].buf = got[v]
    BY <1>1, <1>2, StreamType DEF Stream
  <2> QED BY <2>1, <1>1 DEF Stream
<1>4. SubscriptionOK(v)' /\ SourceOK(v)'
  BY <1>1, <1>2, <1>3 DEF ViewerOK, SubscriptionOK, SourceOK
<1>5. Ordered(Stream(v), hist[v])'
  BY <1>1, <1>3 DEF ViewerOK, Ordered
<1>6. CompleteOK(v)'
  <2>1. Never + 1 .. written = {}
    BY <1>2 DEF Never
  <2> QED BY <2>1, <1>1, <1>2 DEF CompleteOK
<1> QED BY <1>4, <1>5, <1>6 DEF ViewerOK

\* Nothing is owed to a new subscriber but what is broadcast from here on.
LEMMA ViewerSubscribe ==
  ASSUME TypeOK, CopierInv, NEW v \in Viewers, ViewerOK(v), Subscribe(v)
  PROVE  ViewerOK(v)'
<1>1. /\ phase[v] = "checked" /\ phase'[v] = "reading"
      /\ since'[v] = written - Cardinality(pending)
      /\ \/ waiter = "closed" /\ chan'[v] = Closed(chan[v]) /\ subs' = subs
         \/ waiter # "closed" /\ chan'[v] = chan[v] /\ subs' = subs \cup {v}
      /\ UNCHANGED <<written, pending, waiter, got, gone, hist, missed>>
  BY DEF Subscribe, job, TypeOK
<1>2. chan[v] = Open
  BY <1>1 DEF ViewerOK, SubscriptionOK
<1>3. chan'[v].buf = chan[v].buf
  BY <1>1, StreamType, ChannelFields
<1>4. Stream(v)' = Stream(v)
  <2>1. phase[v] # "done" /\ phase'[v] # "done"
    BY <1>1
  <2> QED BY <2>1, <1>1, <1>3 DEF Stream
<1>5. SubscriptionOK(v)'
  <2>1. ~Open.closed
    BY DEF Open
  <2>2. since'[v] # Never
    BY <1>1, Broadcasted, BoundsAssumption DEF Never
  <2> QED BY <2>1, <2>2, <1>1, <1>2 DEF ViewerOK, SubscriptionOK
<1>6. SourceOK(v)'
  BY <1>1, <1>4 DEF ViewerOK, SourceOK
<1>7. Ordered(Stream(v), hist[v])'
  BY <1>1, <1>4 DEF ViewerOK, Ordered
<1>8. CompleteOK(v)'
  <2>1. (written - Cardinality(pending) + 1 .. written) \ pending = {}
    <3>1. written \in 0 .. Chunks /\ Chunks \in Nat
      BY BoundsAssumption DEF TypeOK
    <3>2. CASE pending = {}
      BY <3>1, <3>2, Broadcasted
    <3>3. CASE pending # {}
      <4>1. pending = {written} /\ written - Cardinality(pending) = written - 1
        BY <3>3, Broadcasted DEF CopierInv
      <4> QED BY <4>1, <3>1
    <3> QED BY <3>2, <3>3
  <2> QED BY <2>1, <1>1 DEF CompleteOK
<1> QED BY <1>5, <1>6, <1>7, <1>8 DEF ViewerOK

\* What is forwarded is neither lost nor moved.
LEMMA ViewerDeliver ==
  ASSUME TypeOK, CopierInv, NEW v \in Viewers, ViewerOK(v), Deliver(v)
  PROVE  ViewerOK(v)'
<1>1. /\ phase[v] = "reading"
      /\ chan[v].buf # <<>>
      /\ UNCHANGED <<written, pending, waiter, subs, phase, gone, hist, since, missed>>
  BY DEF Deliver, job
<1>2. /\ got'[v] = Append(got[v], Head(chan[v].buf))
      /\ chan'[v] = [buf |-> Tail(chan[v].buf), closed |-> chan[v].closed]
  BY TypeDeliver
<1>3. chan'[v].buf = Tail(chan[v].buf) /\ chan'[v].closed = chan[v].closed
  BY <1>2
<1>4. Stream(v)' = Stream(v)
  <2>1. Stream(v) = got[v] \o chan[v].buf
    BY <1>1 DEF Stream
  <2>2. Stream(v)' = got'[v] \o chan'[v].buf
    BY <1>1 DEF Stream
  <2>3. got[v] \in Seq(Numbers) /\ chan[v].buf \in Seq(Numbers)
    BY StreamType
  <2>4. Append(got[v], Head(chan[v].buf)) \o Tail(chan[v].buf) = got[v] \o chan[v].buf
    BY <2>3, <1>1, Forward
  <2> QED BY <2>1, <2>2, <2>4, <1>2, <1>3
<1>5. SubscriptionOK(v)'
  BY <1>1, <1>3 DEF ViewerOK, SubscriptionOK
<1>6. SourceOK(v)'
  BY <1>1, <1>4 DEF ViewerOK, SourceOK
<1>7. Ordered(Stream(v), hist[v])'
  BY <1>1, <1>4 DEF ViewerOK, Ordered
<1>8. CompleteOK(v)'
  BY <1>1, <1>4 DEF ViewerOK, CompleteOK, Elements
<1> QED BY <1>5, <1>6, <1>7, <1>8 DEF ViewerOK

\* A stream ends by itself when its channel is closed and empty.
LEMMA ViewerEnd ==
  ASSUME TypeOK, CopierInv, NEW v \in Viewers, ViewerOK(v), EndOfStream(v)
  PROVE  ViewerOK(v)'
<1>0. v \notin subs
  BY DEF EndOfStream, ViewerOK, SubscriptionOK
<1>1. /\ phase[v] = "reading" /\ phase'[v] = "done"
      /\ chan[v].buf = <<>> /\ chan[v].closed
      /\ UNCHANGED <<written, pending, waiter, subs, chan, got, gone, hist, since, missed>>
  BY <1>0 DEF EndOfStream, Unsubscribe, job, TypeOK
<1>2. waiter = "closed"
  BY <1>1 DEF ViewerOK, SubscriptionOK
<1>3. Stream(v)' = Stream(v)
  <2>1. Stream(v) = got[v] \o chan[v].buf /\ got[v] \in Seq(Numbers)
    BY <1>1, StreamType DEF Stream
  <2>2. got[v] \o chan[v].buf = got[v]
    BY <2>1, <1>1, ConcatEmptySeq
  <2>3. Stream(v)' = got[v]
    BY <1>1 DEF Stream
  <2> QED BY <2>1, <2>2, <2>3
<1>4. SubscriptionOK(v)' /\ SourceOK(v)'
  BY <1>1, <1>2 DEF ViewerOK, SubscriptionOK, SourceOK
<1>5. Ordered(Stream(v), hist[v])'
  BY <1>1, <1>3 DEF ViewerOK, Ordered
<1>6. CompleteOK(v)'
  BY <1>1, <1>3 DEF ViewerOK, CompleteOK, Elements
<1> QED BY <1>4, <1>5, <1>6 DEF ViewerOK

\* What was received before the client left is still in order.
LEMMA ViewerGone ==
  ASSUME TypeOK, CopierInv, NEW v \in Viewers, ViewerOK(v), NoticeGone(v)
  PROVE  ViewerOK(v)'
<1>1. /\ phase[v] = "reading" /\ phase'[v] = "done" /\ v \in gone
      /\ subs' = subs \ {v}
      /\ UNCHANGED <<written, pending, waiter, got, gone, hist, since, missed>>
  <2>1. subs' = subs \ {v}
    BY DEF NoticeGone, Unsubscribe
  <2> QED BY <2>1 DEF NoticeGone, TypeOK
<1>2. SubscriptionOK(v)' /\ SourceOK(v)' /\ CompleteOK(v)'
  BY <1>1 DEF ViewerOK, SubscriptionOK, SourceOK, CompleteOK
<1>3. Ordered(got[v], hist[v])
  <2> DEFINE s == got[v]
             t == chan[v].buf
             q == s \o t
  <2>1. Stream(v) = q /\ s \in Seq(Numbers) /\ t \in Seq(Numbers)
    BY <1>1, StreamType DEF Stream
  <2>2. /\ Len(q) = Len(s) + Len(t) /\ Len(s) \in Nat /\ Len(t) \in Nat
        /\ \A i \in 1 .. Len(s) + Len(t) :
             q[i] = IF i <= Len(s) THEN s[i] ELSE t[i - Len(s)]
    BY <2>1, ConcatProperties, LenProperties
  <2>3. Ordered(q, hist[v])
    BY <2>1 DEF ViewerOK
  <2> HIDE DEF q, s, t
  <2>4. ASSUME NEW i \in 1 .. Len(s) - 1
        PROVE  s[i] < s[i + 1] \/ (s[i] = s[i + 1] /\ s[i] = hist[v])
    <3>1. i \in 1 .. Len(q) - 1 /\ q[i] = s[i] /\ q[i + 1] = s[i + 1]
      BY <2>2
    <3> QED BY <3>1, <2>3 DEF Ordered
  <2> QED BY <2>4 DEF Ordered, s
<1>4. Stream(v)' = got[v]
  BY <1>1 DEF Stream
<1>5. Ordered(Stream(v), hist[v])'
  BY <1>1, <1>3, <1>4 DEF Ordered
<1> QED BY <1>2, <1>5 DEF ViewerOK

\* A client that has left is owed nothing.
LEMMA ViewerLeaves ==
  ASSUME TypeOK, CopierInv, NEW v \in Viewers, ViewerOK(v), Disconnect(v)
  PROVE  ViewerOK(v)'
<1>1. /\ gone' = gone \cup {v}
      /\ UNCHANGED <<written, pending, waiter, subs, phase, chan, got, hist, since, missed>>
  BY DEF Disconnect, job
<1>2. Stream(v)' = Stream(v)
  BY <1>1 DEF Stream
<1>3. SubscriptionOK(v)' /\ SourceOK(v)' /\ CompleteOK(v)'
  BY <1>1, <1>2 DEF ViewerOK, SubscriptionOK, SourceOK, CompleteOK
<1>4. Ordered(Stream(v), hist[v])'
  BY <1>1, <1>2 DEF ViewerOK, Ordered
<1> QED BY <1>3, <1>4 DEF ViewerOK

\* A handler and a client touch nobody else's stream.
LEMMA OthersUntouched ==
  ASSUME TypeOK, NEW v \in Viewers, NEW w \in Viewers, w # v, ViewerOK(w),
         Handler(v) \/ Client(v)
  PROVE  ViewerOK(w)'
<1>1. UNCHANGED <<written, pending, waiter>>
  BY DEF Handler, Client, StreamFromDisk, SendHistory, CheckStatus, Subscribe,
         Deliver, EndOfStream, NoticeGone, Disconnect, Stall, job
<1>2. /\ phase'[w] = phase[w] /\ hist'[w] = hist[w] /\ since'[w] = since[w]
      /\ missed'[w] = missed[w] /\ chan'[w] = chan[w] /\ got'[w] = got[w]
  BY DEF Handler, Client, StreamFromDisk, SendHistory, CheckStatus, Subscribe,
         Deliver, EndOfStream, NoticeGone, Unsubscribe, Disconnect, Stall, TypeOK
<1>3. (w \in subs' <=> w \in subs) /\ (w \in gone' <=> w \in gone)
  BY DEF Handler, Client, StreamFromDisk, SendHistory, CheckStatus, Subscribe,
         Deliver, EndOfStream, NoticeGone, Unsubscribe, Disconnect, Stall
<1> QED BY <1>1, <1>2, <1>3, Untouched

LEMMA ViewerNext ==
  ASSUME TypeOK, CopierInv, NEW w \in Viewers, ViewerOK(w), [Next]_vars
  PROVE  ViewerOK(w)'
<1>1. CASE WriteLog
  BY <1>1, ViewerWriteLog
<1>2. CASE Broadcast
  BY <1>2, ViewerBroadcast
<1>3. CASE CloseBroadcaster
  BY <1>3, ViewerClose
<1>4. CASE WaitExitSave
  <2>1. /\ waiter # "closed" /\ waiter' # "closed"
        /\ UNCHANGED <<written, pending, phase, chan, got, hist, since, missed, subs, gone>>
    BY <1>4 DEF WaitExitSave, streams
  <2>2. Stream(w)' = Stream(w)
    BY <2>1 DEF Stream
  <2>3. SubscriptionOK(w)' /\ SourceOK(w)' /\ CompleteOK(w)'
    BY <2>1, <2>2 DEF ViewerOK, SubscriptionOK, SourceOK, CompleteOK, Elements
  <2>4. Ordered(Stream(w), hist[w])'
    BY <2>1, <2>2 DEF ViewerOK, Ordered
  <2> QED BY <2>3, <2>4 DEF ViewerOK
<1>5. CASE ProcExit \/ Kill \/ Forget
  <2>1. UNCHANGED <<written, pending, waiter, streams>>
    BY <1>5 DEF ProcExit, Kill, Forget
  <2> QED BY <2>1, Untouched DEF streams
<1>6. ASSUME NEW v \in Viewers, Handler(v) \/ Client(v) PROVE ViewerOK(w)'
  <2>1. CASE w # v
    BY <1>6, <2>1, OthersUntouched
  <2>2. CASE w = v
    <3>1. CASE Stall(w)
      BY <3>1, Untouched DEF Stall, job
    <3> QED BY <1>6, <2>2, <3>1, ViewerHistory, ViewerFromDisk, ViewerCheck,
               ViewerSubscribe, ViewerDeliver, ViewerEnd, ViewerGone, ViewerLeaves
            DEF Handler, Client
  <2> QED BY <2>1, <2>2
<1>7. CASE UNCHANGED vars
  BY <1>7, Untouched DEF vars, job, streams
<1> QED BY <1>1, <1>2, <1>3, <1>4, <1>5, <1>6, <1>7 DEF Next

\* The first thing a client gets is the history, and it keeps it.
LEMMA HistoryNext ==
  ASSUME TypeOK, CopierInv, NEW w \in Viewers, HistoryOK(w), [Next]_vars
  PROVE  HistoryOK(w)'
<1> USE DEF job, streams
<1>a. ASSUME phase'[w] = "away" <=> phase[w] = "away", hist'[w] = hist[w], got'[w] = got[w]
      PROVE  HistoryOK(w)'
  BY <1>a DEF HistoryOK, Elements, First
<1>1. CASE \/ WriteLog \/ Broadcast \/ ProcExit \/ Kill \/ WaitExitSave
           \/ CloseBroadcaster \/ Forget \/ UNCHANGED vars
  BY <1>a, <1>1 DEF WriteLog, Broadcast, ProcExit, Kill, WaitExitSave, CloseBroadcaster,
                    Forget, vars
<1>2. ASSUME NEW v \in Viewers,
             \/ CheckStatus(v) \/ Subscribe(v) \/ EndOfStream(v) \/ NoticeGone(v)
             \/ Disconnect(v) \/ Stall(v)
      PROVE  HistoryOK(w)'
  BY <1>a, <1>2 DEF CheckStatus, Subscribe, EndOfStream, NoticeGone, Disconnect, Stall,
                    TypeOK
<1>3. ASSUME NEW v \in Viewers, StreamFromDisk(v) \/ SendHistory(v)
      PROVE  HistoryOK(w)'
  <2>1. CASE v # w
    BY <1>a, <1>3, <2>1 DEF StreamFromDisk, SendHistory, TypeOK
  <2>2. CASE v = w
    <3>1. hist'[w] = written /\ got'[w] \in {History, From(1)}
      BY <1>3, <2>2 DEF StreamFromDisk, SendHistory, TypeOK
    <3>2. First(written) .. written \subseteq Elements(History) \cap Elements(From(1))
      BY HistoryOfLog
    <3>3. First(hist'[w]) .. hist'[w] \subseteq Elements(got'[w])
      BY <3>1, <3>2
    <3> QED BY <3>3 DEF HistoryOK, Elements, First
  <2> QED BY <2>1, <2>2
<1>4. ASSUME NEW v \in Viewers, Deliver(v) PROVE HistoryOK(w)'
  <2>1. CASE v # w
    BY <1>a, <1>4, <2>1 DEF Deliver, TypeOK
  <2>2. CASE v = w
    <3>1. /\ got[w] \in Seq(Numbers) /\ Head(chan[w].buf) \in Numbers
          /\ got'[w] = Append(got[w], Head(chan[w].buf))
      <4>1. got[w] \in Seq(Numbers) /\ chan[w].buf \in Seq(Numbers) /\ chan[w].buf # <<>>
        BY <1>4, <2>2, StreamType DEF Deliver
      <4>2. Head(chan[w].buf) \in Numbers
        BY <4>1, HeadTailProperties
      <4> QED BY <1>4, <2>2, <4>1, <4>2, TypeDeliver
    <3>2. Elements(got[w]) \subseteq Elements(got'[w])
      BY <3>1, AppendElements
    <3>3. UNCHANGED <<phase, hist>>
      BY <1>4 DEF Deliver
    <3>4. phase[w] # "away" => First(hist'[w]) .. hist'[w] \subseteq Elements(got'[w])
      BY <3>2, <3>3 DEF HistoryOK
    <3> QED BY <3>3, <3>4 DEF HistoryOK, Elements, First
  <2> QED BY <2>1, <2>2
<1> QED BY <1>1, <1>2, <1>3, <1>4 DEF Next, Handler, Client

\* A handler gives up its stream before the subscription only when the job has
\* ended, which is for good.
LEMMA EndNext ==
  ASSUME TypeOK, CopierInv, NEW w \in Viewers, ViewerOK(w), EndOK(w), [Next]_vars
  PROVE  EndOK(w)'
<1> USE DEF job, streams, IsRunning
<1>a. ~IsRunning => ~IsRunning'
  BY DEF Next, WriteLog, Broadcast, ProcExit, Kill, WaitExitSave, CloseBroadcaster, Forget,
         Handler, Client, StreamFromDisk, SendHistory, CheckStatus, Subscribe, Deliver,
         EndOfStream, NoticeGone, Disconnect, Stall, vars
<1>b. ASSUME phase'[w] = "done" => phase[w] = "done", since'[w] = since[w],
             w \in gone => w \in gone'
      PROVE  EndOK(w)'
  BY <1>a, <1>b DEF EndOK
<1>1. CASE \/ WriteLog \/ Broadcast \/ ProcExit \/ Kill \/ WaitExitSave
           \/ CloseBroadcaster \/ Forget \/ UNCHANGED vars
  BY <1>b, <1>1 DEF WriteLog, Broadcast, ProcExit, Kill, WaitExitSave, CloseBroadcaster,
                    Forget, vars
<1>2. ASSUME NEW v \in Viewers,
             \/ Subscribe(v) \/ Deliver(v) \/ SendHistory(v) \/ Disconnect(v) \/ Stall(v)
      PROVE  EndOK(w)'
  <2>1. /\ phase'[w] = "done" => phase[w] = "done"
        /\ phase[w] = "done" => since'[w] = since[w]
        /\ w \in gone => w \in gone'
    BY <1>2 DEF Subscribe, Deliver, SendHistory, Disconnect, Stall, TypeOK
  <2> QED BY <1>a, <2>1 DEF EndOK
<1>3. ASSUME NEW v \in Viewers,
             StreamFromDisk(v) \/ CheckStatus(v) \/ EndOfStream(v) \/ NoticeGone(v)
      PROVE  EndOK(w)'
  <2>1. /\ v # w => phase'[w] = phase[w]
        /\ since' = since /\ gone' = gone
    BY <1>3 DEF StreamFromDisk, CheckStatus, EndOfStream, NoticeGone, TypeOK
  <2>2. CASE v # w
    BY <1>b, <2>1, <2>2
  <2>3. CASE v = w /\ (EndOfStream(v) \/ NoticeGone(v))
    <3>1. since[w] # Never
      BY <2>3 DEF EndOfStream, NoticeGone, ViewerOK, SubscriptionOK
    <3> QED BY <2>1, <3>1 DEF EndOK
  <2>4. CASE v = w /\ StreamFromDisk(v)
    <3>1. ~IsRunning
      BY <2>4 DEF StreamFromDisk, CopierInv
    <3> QED BY <1>a, <3>1 DEF EndOK
  <2>5. CASE v = w /\ CheckStatus(v)
    <3>1. ~IsRunning \/ phase'[w] = "checked"
      BY <2>5 DEF CheckStatus, TypeOK
    <3> QED BY <1>a, <3>1 DEF EndOK
  <2> QED BY <1>3, <2>2, <2>3, <2>4, <2>5
<1> QED BY <1>1, <1>2, <1>3 DEF Next, Handler, Client

\* Whoever sends to a channel or closes it has found it in the map.
LEMMA ChannelNext ==
  ASSUME TypeOK, CopierInv, \A v \in Viewers : ViewerOK(v), NoSendOnClosed, [Next]_vars
  PROVE  NoSendOnClosed'
<1> USE DEF NoSendOnClosed, job, streams
<1>1. \A v \in subs : v \in Viewers /\ ~chan[v].closed
  BY DEF TypeOK, ViewerOK, SubscriptionOK
<1>2. CASE Broadcast
  BY <1>1, <1>2 DEF Broadcast, Receivers
<1>3. CASE CloseBroadcaster
  BY <1>1, <1>3 DEF CloseBroadcaster
<1>4. ASSUME NEW v \in Viewers, EndOfStream(v) \/ NoticeGone(v) PROVE NoSendOnClosed'
  <2>1. Unsubscribe(v)
    BY <1>4 DEF EndOfStream, NoticeGone
  <2> QED BY <1>1, <2>1 DEF Unsubscribe
<1>5. CASE WriteLog \/ ProcExit \/ Kill \/ WaitExitSave \/ Forget \/ UNCHANGED vars
  BY <1>5 DEF WriteLog, ProcExit, Kill, WaitExitSave, Forget, vars
<1>6. ASSUME NEW v \in Viewers,
             \/ StreamFromDisk(v) \/ SendHistory(v) \/ CheckStatus(v) \/ Subscribe(v)
             \/ Deliver(v) \/ Disconnect(v) \/ Stall(v)
      PROVE  NoSendOnClosed'
  BY <1>6 DEF StreamFromDisk, SendHistory, CheckStatus, Subscribe, Deliver, Disconnect, Stall
<1> QED BY <1>2, <1>3, <1>4, <1>5, <1>6 DEF Next, Handler, Client

----------------------------------------------------------------------------
(* The theorems *)

\* StreamInv holds in every state: the copier, the subscriptions and what each
\* client has got of the output fit together (Broadcaster, handleStreamLogs).
THEOREM StreamInvariant == Spec => []StreamInv
<1>1. Init => StreamInv
  <2>1. Init => CopierInv
    BY DEF Init, CopierInv
  <2>2. Init => NoSendOnClosed /\ \A v \in Viewers : HistoryOK(v) /\ EndOK(v)
    BY DEF Init, NoSendOnClosed, HistoryOK, EndOK
  <2> QED BY <2>1, <2>2, TypeInit, ViewerInit, ByViewer
<1>2. StreamInv /\ [Next]_vars => StreamInv'
  <2> DEFINE AllOK == \A v \in Viewers : ViewerOK(v) /\ HistoryOK(v) /\ EndOK(v)
  <2>1. StreamInv /\ [Next]_vars => TypeOK' /\ NoSendOnClosed' /\ CopierInv' /\ AllOK'
    BY ByViewer, TypeNext, CopierNext, ChannelNext, ViewerNext, HistoryNext, EndNext
  <2>2. TypeOK' /\ NoSendOnClosed' /\ CopierInv' /\ AllOK' => StreamInv'
    BY ByViewer, PTL
  <2> QED BY <2>1, <2>2
<1> QED BY <1>1, <1>2, PTL DEF Spec

\* Every variable of the log stream keeps its type; a subscription never holds
\* more than its capacity.
THEOREM StreamTypeCorrect == Spec => []TypeOK
<1>1. StreamInv => TypeOK
  BY DEF StreamInv
<1> QED BY <1>1, StreamInvariant, PTL

\* Write, unsubscribe and Close never meet a channel that is closed already.
THEOREM ChannelsSafe == Spec => []NoSendOnClosed
<1>1. StreamInv => NoSendOnClosed
  BY DEF StreamInv
<1> QED BY <1>1, StreamInvariant, PTL

\* Each client gets the output in order, at most one chunk twice.
THEOREM OutputInOrder == Spec => []InOrder
<1>1. StreamInv => InOrder
  BY DEF StreamInv
<1> QED BY <1>1, StreamInvariant, PTL

\* A client that stays gets its history and everything broadcast after its
\* subscription that did not meet a full channel; it goes without a subscription
\* only if the job has ended.
THEOREM OutputComplete == Spec => []NothingElseIsLost
<1>1. StreamInv => NothingElseIsLost
  BY DEF StreamInv
<1> QED BY <1>1, StreamInvariant, PTL
=============================================================================
