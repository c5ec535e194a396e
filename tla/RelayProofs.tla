------------------------------ MODULE RelayProofs ------------------------------
(***************************************************************************)
(* Proofs about the relays (Relay).                                        *)
(***************************************************************************)
EXTENDS Relay, SequenceLemmas, FiniteSetTheorems

--------------------------------------------------------------------------------
(***************************************************************************)
(* What may be written.                                                    *)
(***************************************************************************)
Texts == Seq((1..MaxData) \X {"content", "reasoning", "args"})

\* The names an upstream may send, and those that stand for none.
Words == STRING \cup {"", "none"}

MessageEvents ==
  [type : {"message_start", "message_stop"}]
  \cup [type : {"content_block_start"}, index : Nat, kind : {"text", "tool_use"}]
  \cup [type : {"content_block_delta"}, index : Nat, kind : {"text", "tool_use"},
        delta : Texts]
  \cup [type : {"content_block_stop"}, index : Nat]
  \cup [type : {"message_delta"}, usage : 0..MaxData,
        stop_reason : {"tool_use", "max_tokens", "refusal", "end_turn"}]

\* Sent for any sequence of events.
SentOf(s, types, n) == {k \in 1..n : s[k].type \in types}
StartsOf(s, n) == SentOf(s, {"content_block_start"}, n)
StopsOf(s, n) == SentOf(s, {"content_block_stop"}, n)

LEMMA SentFinite ==
  ASSUME NEW s, NEW types, NEW n \in Nat
  PROVE  IsFiniteSet(SentOf(s, types, n)) /\ Cardinality(SentOf(s, types, n)) \in Nat
  <1>1. IsFiniteSet(1..n) /\ SentOf(s, types, n) \in SUBSET (1..n)
    BY FS_Interval DEF SentOf
  <1> QED
    BY <1>1, FS_Subset, FS_CardinalityType

\* What one more event changes.
LEMMA SentBefore ==
  ASSUME NEW E, NEW s \in Seq(E), NEW e \in E, NEW types, NEW n \in 0..Len(s)
  PROVE  SentOf(Append(s, e), types, n) = SentOf(s, types, n)
  <1>1. \A i \in 1..n : i \in 1..Len(s) /\ Append(s, e)[i] = s[i]
    BY AppendProperties, LenProperties
  <1> QED
    BY <1>1 DEF SentOf

LEMMA SentAppend ==
  ASSUME NEW E, NEW s \in Seq(E), NEW e \in E, NEW types
  PROVE  /\ e.type \notin types =>
              SentOf(Append(s, e), types, Len(s) + 1) = SentOf(s, types, Len(s))
         /\ e.type \in types =>
              /\ SentOf(Append(s, e), types, Len(s) + 1)
                   = SentOf(s, types, Len(s)) \cup {Len(s) + 1}
              /\ Cardinality(SentOf(Append(s, e), types, Len(s) + 1))
                   = Cardinality(SentOf(s, types, Len(s))) + 1
  <1> DEFINE t == Append(s, e)
             m == Len(s)
  <1>1. m \in Nat /\ t[m + 1] = e /\ \A i \in 1..m : t[i] = s[i]
    BY AppendProperties, LenProperties
  <1>2. IsFiniteSet(SentOf(s, types, m)) /\ m + 1 \notin SentOf(s, types, m)
    <2>1. m + 1 \notin SentOf(s, types, m)
      BY <1>1 DEF SentOf
    <2> QED
      BY <1>1, <2>1, SentFinite
  <1> HIDE DEF t, m
  <1>4. e.type \notin types => SentOf(t, types, m + 1) = SentOf(s, types, m)
    BY <1>1 DEF SentOf
  <1>5. e.type \in types => SentOf(t, types, m + 1) = SentOf(s, types, m) \cup {m + 1}
    BY <1>1 DEF SentOf
  <1>6. Cardinality(SentOf(s, types, m) \cup {m + 1}) = Cardinality(SentOf(s, types, m)) + 1
    BY <1>2, FS_AddElement
  <1> QED
    BY <1>4, <1>5, <1>6 DEF t, m

\* Every prefix of a batch leaves what was sent in a set.
AllPrefixes(s, batch, W) == \A k \in 0..Len(batch) : s \o SubSeq(batch, 1, k) \in W

LEMMA PrefixesEmpty ==
  ASSUME NEW E, NEW s \in Seq(E), NEW W, s \in W
  PROVE  AllPrefixes(s, <<>>, W) /\ s \o <<>> = s
  <1>1. s \o <<>> = s
    BY ConcatEmptySeq
  <1>2. \A k \in 0..Len(<<>>) : SubSeq(<<>>, 1, k) = <<>>
    BY SubSeqEmpty
  <1> QED
    BY <1>1, <1>2 DEF AllPrefixes

LEMMA PrefixesAppend ==
  ASSUME NEW E, NEW s \in Seq(E), NEW batch \in Seq(E), NEW e \in E, NEW W,
         AllPrefixes(s, batch, W), Append(s \o batch, e) \in W
  PROVE  AllPrefixes(s, Append(batch, e), W) /\ s \o Append(batch, e) = Append(s \o batch, e)
  <1> DEFINE c == Append(batch, e)
             m == Len(batch)
  <1>1. /\ m \in Nat /\ c \in Seq(E) /\ Len(c) = m + 1 /\ c[m + 1] = e
        /\ \A i \in 1..m : c[i] = batch[i]
    BY AppendProperties, LenProperties
  <1>2. s \o c = Append(s \o batch, e)
    <2>1. <<e>> \in Seq(E) /\ s \o batch \in Seq(E)
      BY ConcatProperties
    <2>2. c = batch \o <<e>> /\ Append(s \o batch, e) = (s \o batch) \o <<e>>
      BY <2>1, AppendIsConcat
    <2>3. (s \o batch) \o <<e>> = s \o (batch \o <<e>>)
      BY ONLY <2>1, s \in Seq(E), batch \in Seq(E), ConcatAssociative
    <2> QED
      BY <2>2, <2>3
  <1>3. SubSeq(c, 1, m + 1) = c
    BY <1>1, SubSeqFull
  <1>4. ASSUME NEW k \in 0..m PROVE SubSeq(c, 1, k) = SubSeq(batch, 1, k)
    <2>1. \A i \in 1..k : c[i] = batch[i] /\ batch[i] \in E /\ c[i] \in E
      BY <1>1, ElementOfSeq
    <2> HIDE DEF c, m
    <2>2. /\ SubSeq(c, 1, k) \in Seq(E) /\ Len(SubSeq(c, 1, k)) = k
          /\ \A i \in 1..k : SubSeq(c, 1, k)[i] = c[i]
      BY <2>1, SubSeqProperties, <1>1
    <2>3. /\ SubSeq(batch, 1, k) \in Seq(E) /\ Len(SubSeq(batch, 1, k)) = k
          /\ \A i \in 1..k : SubSeq(batch, 1, k)[i] = batch[i]
      BY <2>1, SubSeqProperties, <1>1
    <2> QED
      BY <2>1, <2>2, <2>3, SeqEqual
  <1> HIDE DEF c
  <1>5. \A k \in 0..m : s \o SubSeq(batch, 1, k) \in W
    BY DEF AllPrefixes
  <1> HIDE DEF m
  <1>6. ASSUME NEW k \in 0..m + 1 PROVE s \o SubSeq(c, 1, k) \in W
    <2>1. CASE k = m + 1
      BY <2>1, <1>2, <1>3
    <2>2. CASE k # m + 1
      <3>1. k \in 0..m
        BY <2>2, <1>1
      <3> QED
        BY <3>1, <1>4, <1>5
    <2> QED
      BY <2>1, <2>2
  <1>7. AllPrefixes(s, c, W)
    BY <1>1, <1>6 DEF AllPrefixes
  <1> QED
    BY <1>2, <1>7 DEF c

--------------------------------------------------------------------------------
(***************************************************************************)
(* Content blocks.                                                         *)
(***************************************************************************)
\* BlocksTakeTurns and DeltasFindTheirBlock, of any sequence.
Turns(s) ==
  \A n \in 1..Len(s) :
    LET starts == Cardinality(StartsOf(s, n - 1))
        stops  == Cardinality(StopsOf(s, n - 1))
    IN  /\ s[n].type = "content_block_start" => s[n].index = starts /\ stops = starts
        /\ s[n].type = "content_block_stop" => s[n].index = stops /\ starts = stops + 1
        /\ s[n].type = "message_delta" => starts = stops

Finds(s) ==
  \A n \in SentOf(s, {"content_block_delta"}, Len(s)) :
    /\ \E k \in StartsOf(s, n - 1) : s[k].index = s[n].index /\ s[k].kind = s[n].kind
    /\ s[n].kind = "text" => \A k \in StopsOf(s, n - 1) : s[k].index # s[n].index

Kinds == {"text", "tool_use"}

\* A block of this index and kind has begun.
Begun(s, index, kind) ==
  \E k \in StartsOf(s, Len(s)) : s[k].index = index /\ s[k].kind = kind

\* The number of blocks that have been stopped.
Stopped(next, open) == IF open = NoBlock THEN next ELSE next - 1

\* What was sent agrees with the index of the next block and the open one.
Shape(s, next, open) ==
  /\ s \in Seq(MessageEvents)
  /\ Turns(s)
  /\ Finds(s)
  /\ next \in Nat
  /\ Cardinality(StartsOf(s, Len(s))) = next
  /\ Cardinality(StopsOf(s, Len(s))) = Stopped(next, open)
  /\ \A k \in StartsOf(s, Len(s)) : s[k].index < next
  /\ \A k \in StopsOf(s, Len(s)) : s[k].index < Stopped(next, open)
  /\ open # NoBlock =>
       /\ next # 0 /\ open \in [index : {next - 1}, kind : Kinds]
       /\ Begun(s, open.index, open.kind)

LEMMA BlockTypes ==
  ASSUME NEW e \in MessageEvents
  PROVE  /\ e.type = "content_block_start" => e \in [type : {"content_block_start"}, index : Nat, kind : Kinds]
         /\ e.type = "content_block_delta" =>
              e \in [type : {"content_block_delta"}, index : Nat, kind : Kinds, delta : Texts]
         /\ e.type = "content_block_stop" => e \in [type : {"content_block_stop"}, index : Nat]
  BY DEF MessageEvents, Kinds

LEMMA BlocksAppend ==
  ASSUME NEW s \in Seq(MessageEvents), NEW e \in MessageEvents
  PROVE  /\ \A n \in 0..Len(s) : StartsOf(Append(s, e), n) = StartsOf(s, n)
         /\ \A n \in 0..Len(s) : StopsOf(Append(s, e), n) = StopsOf(s, n)
         /\ e.type # "content_block_start" =>
              StartsOf(Append(s, e), Len(s) + 1) = StartsOf(s, Len(s))
         /\ e.type = "content_block_start" =>
              /\ StartsOf(Append(s, e), Len(s) + 1) = StartsOf(s, Len(s)) \cup {Len(s) + 1}
              /\ Cardinality(StartsOf(Append(s, e), Len(s) + 1))
                   = Cardinality(StartsOf(s, Len(s))) + 1
         /\ e.type # "content_block_stop" =>
              StopsOf(Append(s, e), Len(s) + 1) = StopsOf(s, Len(s))
         /\ e.type = "content_block_stop" =>
              /\ StopsOf(Append(s, e), Len(s) + 1) = StopsOf(s, Len(s)) \cup {Len(s) + 1}
              /\ Cardinality(StopsOf(Append(s, e), Len(s) + 1))
                   = Cardinality(StopsOf(s, Len(s))) + 1
  <1>1. ASSUME NEW type
        PROVE  /\ \A n \in 0..Len(s) : SentOf(Append(s, e), {type}, n) = SentOf(s, {type}, n)
               /\ e.type # type =>
                    SentOf(Append(s, e), {type}, Len(s) + 1) = SentOf(s, {type}, Len(s))
               /\ e.type = type =>
                    /\ SentOf(Append(s, e), {type}, Len(s) + 1)
                         = SentOf(s, {type}, Len(s)) \cup {Len(s) + 1}
                    /\ Cardinality(SentOf(Append(s, e), {type}, Len(s) + 1))
                         = Cardinality(SentOf(s, {type}, Len(s))) + 1
    <2> DEFINE types == {type}
    <2>1. (e.type \in types) <=> (e.type = type)
      OBVIOUS
    <2> HIDE DEF types
    <2>2. ASSUME NEW n \in 0..Len(s)
          PROVE  SentOf(Append(s, e), types, n) = SentOf(s, types, n)
      BY SentBefore
    <2>3. e.type \notin types =>
            SentOf(Append(s, e), types, Len(s) + 1) = SentOf(s, types, Len(s))
      BY SentAppend
    <2>4. e.type \in types =>
            /\ SentOf(Append(s, e), types, Len(s) + 1)
                 = SentOf(s, types, Len(s)) \cup {Len(s) + 1}
            /\ Cardinality(SentOf(Append(s, e), types, Len(s) + 1))
                 = Cardinality(SentOf(s, types, Len(s))) + 1
      BY SentAppend
    <2> QED
      BY <2>1, <2>2, <2>3, <2>4 DEF types
  <1> QED
    BY <1>1 DEF StartsOf, StopsOf

LEMMA TurnsAppend ==
  ASSUME NEW s \in Seq(MessageEvents), NEW e \in MessageEvents, Turns(s),
         LET starts == Cardinality(StartsOf(s, Len(s)))
             stops  == Cardinality(StopsOf(s, Len(s)))
         IN  /\ e.type = "content_block_start" => e.index = starts /\ stops = starts
             /\ e.type = "content_block_stop" => e.index = stops /\ starts = stops + 1
             /\ e.type = "message_delta" => starts = stops
  PROVE  Turns(Append(s, e))
  <1> DEFINE t == Append(s, e)
             m == Len(s)
  <1>1. m \in Nat /\ Len(t) = m + 1 /\ t[m + 1] = e /\ \A i \in 1..m : t[i] = s[i]
    BY AppendProperties, LenProperties
  <1>2. \A n \in 0..m : StartsOf(t, n) = StartsOf(s, n) /\ StopsOf(t, n) = StopsOf(s, n)
    BY BlocksAppend
  <1> HIDE DEF t, m
  <1> SUFFICES ASSUME NEW n \in 1..m + 1
               PROVE  LET starts == Cardinality(StartsOf(t, n - 1))
                          stops  == Cardinality(StopsOf(t, n - 1))
                      IN  /\ t[n].type = "content_block_start" =>
                               t[n].index = starts /\ stops = starts
                          /\ t[n].type = "content_block_stop" =>
                               t[n].index = stops /\ starts = stops + 1
                          /\ t[n].type = "message_delta" => starts = stops
    BY <1>1 DEF Turns, t
  <1>3. n - 1 \in 0..m /\ StartsOf(t, n - 1) = StartsOf(s, n - 1)
        /\ StopsOf(t, n - 1) = StopsOf(s, n - 1)
    BY <1>1, <1>2
  <1>4. CASE n = m + 1
    <2>1. n - 1 = m /\ t[n] = e
      BY <1>1, <1>4
    <2> QED
      BY <1>3, <2>1 DEF m
  <1>5. CASE n # m + 1
    <2>1. n \in 1..Len(s) /\ t[n] = s[n]
      BY <1>1, <1>5 DEF m
    <2> QED
      BY <1>3, <2>1 DEF Turns
  <1> QED
    BY <1>4, <1>5

LEMMA FindsAppend ==
  ASSUME NEW s \in Seq(MessageEvents), NEW e \in MessageEvents, Finds(s),
         e.type = "content_block_delta" =>
           /\ Begun(s, e.index, e.kind)
           /\ e.kind = "text" => \A k \in StopsOf(s, Len(s)) : s[k].index # e.index
  PROVE  Finds(Append(s, e))
  <1> DEFINE t == Append(s, e)
             m == Len(s)
  <1>1. m \in Nat /\ Len(t) = m + 1 /\ t[m + 1] = e /\ \A i \in 1..m : t[i] = s[i]
    BY AppendProperties, LenProperties
  <1>2. \A n \in 0..m : StartsOf(t, n) = StartsOf(s, n) /\ StopsOf(t, n) = StopsOf(s, n)
    BY BlocksAppend
  <1> HIDE DEF t
  <1> SUFFICES ASSUME NEW n \in SentOf(t, {"content_block_delta"}, m + 1)
               PROVE  /\ \E k \in StartsOf(t, n - 1) :
                           t[k].index = t[n].index /\ t[k].kind = t[n].kind
                      /\ t[n].kind = "text" =>
                           \A k \in StopsOf(t, n - 1) : t[k].index # t[n].index
    BY <1>1 DEF Finds, t
  <1>3. n \in 1..m + 1 /\ t[n].type = "content_block_delta"
    BY DEF SentOf
  <1>4. /\ n - 1 \in 0..m /\ StartsOf(t, n - 1) = StartsOf(s, n - 1)
        /\ StopsOf(t, n - 1) = StopsOf(s, n - 1)
    BY <1>1, <1>2, <1>3
  <1>5. /\ \A k \in StartsOf(s, n - 1) : t[k] = s[k]
        /\ \A k \in StopsOf(s, n - 1) : t[k] = s[k]
    BY <1>1, <1>3 DEF StartsOf, StopsOf, SentOf
  <1>6. CASE n = m + 1
    <2>1. n - 1 = m /\ t[n] = e /\ e.type = "content_block_delta"
      BY <1>1, <1>3, <1>6
    <2>2. /\ \E k \in StartsOf(s, m) : s[k].index = e.index /\ s[k].kind = e.kind
          /\ e.kind = "text" => \A k \in StopsOf(s, m) : s[k].index # e.index
      BY <2>1 DEF Begun
    <2> QED
      BY <1>4, <1>5, <2>1, <2>2
  <1>7. CASE n # m + 1
    <2>1. n \in 1..m /\ t[n] = s[n] /\ n \in SentOf(s, {"content_block_delta"}, m)
      BY <1>1, <1>3, <1>7 DEF SentOf
    <2>2. /\ \E k \in StartsOf(s, n - 1) : s[k].index = s[n].index /\ s[k].kind = s[n].kind
          /\ s[n].kind = "text" => \A k \in StopsOf(s, n - 1) : s[k].index # s[n].index
      BY <2>1 DEF Finds
    <2> QED
      BY <1>4, <1>5, <2>1, <2>2
  <1> QED
    BY <1>6, <1>7

\* A block that has begun has begun.
LEMMA BegunAppend ==
  ASSUME NEW s \in Seq(MessageEvents), NEW e \in MessageEvents, NEW index, NEW kind
  PROVE  /\ Begun(s, index, kind) => Begun(Append(s, e), index, kind)
         /\ e = BlockStart(index, kind) => Begun(Append(s, e), index, kind)
  <1> DEFINE t == Append(s, e)
             m == Len(s)
  <1>1. m \in Nat /\ Len(t) = m + 1 /\ t[m + 1] = e /\ \A i \in 1..m : t[i] = s[i]
    BY AppendProperties, LenProperties
  <1> HIDE DEF t, m
  <1>2. Begun(s, index, kind) => Begun(t, index, kind)
    BY <1>1 DEF Begun, StartsOf, SentOf, m
  <1>3. e = BlockStart(index, kind) => Begun(t, index, kind)
    BY <1>1 DEF Begun, StartsOf, SentOf, m, BlockStart
  <1> QED
    BY <1>2, <1>3 DEF t

LEMMA ShapeStart ==
  ASSUME NEW s, NEW next, NEW kind \in Kinds, Shape(s, next, NoBlock)
  PROVE  Shape(Append(s, BlockStart(next, kind)), next + 1, [index |-> next, kind |-> kind])
  <1> DEFINE e == BlockStart(next, kind)
             t == Append(s, e)
             m == Len(s)
             open == [index |-> next, kind |-> kind]
  <1>1. s \in Seq(MessageEvents) /\ next \in Nat
    BY DEF Shape
  <1>2. /\ e \in MessageEvents /\ e.type = "content_block_start" /\ e.index = next
        /\ open # NoBlock /\ open \in [index : {next}, kind : Kinds]
        /\ open.index = next /\ open.kind = kind
    BY <1>1 DEF BlockStart, MessageEvents, NoBlock, None, Kinds
  <1>3. Stopped(next + 1, open) = next /\ Stopped(next, NoBlock) = next
    BY <1>1, <1>2 DEF Stopped
  <1>4. /\ m \in Nat /\ t \in Seq(MessageEvents) /\ Len(t) = m + 1 /\ t[m + 1] = e
        /\ \A i \in 1..m : t[i] = s[i]
    BY <1>1, <1>2, AppendProperties, LenProperties
  <1>5. /\ StartsOf(t, m + 1) = StartsOf(s, m) \cup {m + 1}
        /\ Cardinality(StartsOf(t, m + 1)) = Cardinality(StartsOf(s, m)) + 1
        /\ StopsOf(t, m + 1) = StopsOf(s, m)
    BY <1>1, <1>2, BlocksAppend
  <1>6. /\ Cardinality(StartsOf(s, m)) = next /\ Cardinality(StopsOf(s, m)) = next
        /\ \A k \in StartsOf(s, m) : s[k].index < next
        /\ \A k \in StopsOf(s, m) : s[k].index < next
        /\ Turns(s) /\ Finds(s)
    BY <1>3 DEF Shape
  <1>7. Begun(t, next, kind)
    BY <1>1, <1>2, BegunAppend
  <1> HIDE DEF e
  <1>8. Turns(t)
    BY <1>1, <1>2, <1>6, TurnsAppend
  <1>9. Finds(t)
    BY <1>1, <1>2, <1>6, FindsAppend
  <1> HIDE DEF t, open
  <1>10. \A k \in StartsOf(s, m) : k \in 1..m /\ t[k] = s[k]
    BY <1>4 DEF StartsOf, SentOf
  <1>11. \A k \in StopsOf(s, m) : k \in 1..m /\ t[k] = s[k]
    BY <1>4 DEF StopsOf, SentOf
  <1> HIDE DEF m
  <1>12. /\ \A k \in StartsOf(t, m + 1) : t[k].index < next + 1
         /\ \A k \in StopsOf(t, m + 1) : t[k].index < next
    <2>1. ASSUME NEW k \in StartsOf(t, m + 1) PROVE t[k].index < next + 1
      <3>1. CASE k = m + 1
        BY <3>1, <1>1, <1>2, <1>4
      <3>2. CASE k \in StartsOf(s, m)
        <4>1. s[k].index \in Nat
          <5>1. s[k] \in MessageEvents /\ s[k].type = "content_block_start"
            BY <3>2, <1>1, <1>4, ElementOfSeq DEF m, StartsOf, SentOf
          <5> QED
            BY <5>1, BlockTypes
        <4> QED
          BY <3>2, <4>1, <1>1, <1>6, <1>10
      <3> QED
        BY <3>1, <3>2, <1>5
    <2> QED
      BY <2>1, <1>5, <1>6, <1>11
  <1>13. Shape(t, next + 1, open)
    BY <1>1, <1>2, <1>3, <1>4, <1>5, <1>6, <1>7, <1>8, <1>9, <1>12 DEF Shape
  <1> QED
    BY <1>13 DEF t, e, open

LEMMA ShapeStop ==
  ASSUME NEW s, NEW next, NEW open, open # NoBlock, Shape(s, next, open)
  PROVE  Shape(Append(s, BlockStop(open.index)), next, NoBlock)
  <1> DEFINE e == BlockStop(open.index)
             t == Append(s, e)
             m == Len(s)
  <1>1. /\ s \in Seq(MessageEvents) /\ next \in Nat /\ next # 0 /\ open.index = next - 1
        /\ Stopped(next, open) = next - 1 /\ Stopped(next, NoBlock) = next
    BY DEF Shape, Stopped
  <1>2. e \in MessageEvents /\ e.type = "content_block_stop" /\ e.index = next - 1
    BY <1>1 DEF BlockStop, MessageEvents
  <1>3. /\ m \in Nat /\ t \in Seq(MessageEvents) /\ Len(t) = m + 1 /\ t[m + 1] = e
        /\ \A i \in 1..m : t[i] = s[i]
    BY <1>1, <1>2, AppendProperties, LenProperties
  <1>4. /\ StopsOf(t, m + 1) = StopsOf(s, m) \cup {m + 1}
        /\ Cardinality(StopsOf(t, m + 1)) = Cardinality(StopsOf(s, m)) + 1
        /\ StartsOf(t, m + 1) = StartsOf(s, m)
    BY <1>1, <1>2, BlocksAppend
  <1>5. /\ Cardinality(StartsOf(s, m)) = next /\ Cardinality(StopsOf(s, m)) = next - 1
        /\ \A k \in StartsOf(s, m) : s[k].index < next
        /\ \A k \in StopsOf(s, m) : s[k].index < next - 1
        /\ Turns(s) /\ Finds(s)
    BY <1>1 DEF Shape
  <1> HIDE DEF e
  <1>6. Turns(t)
    BY <1>1, <1>2, <1>5, TurnsAppend
  <1>7. Finds(t)
    BY <1>1, <1>2, <1>5, FindsAppend
  <1> HIDE DEF t
  <1>8. \A k \in StartsOf(s, m) : k \in 1..m /\ t[k] = s[k]
    BY <1>3 DEF StartsOf, SentOf
  <1>9. \A k \in StopsOf(s, m) : k \in 1..m /\ t[k] = s[k] /\ s[k].index \in Nat
    <2> SUFFICES ASSUME NEW k \in StopsOf(s, m)
                 PROVE  k \in 1..m /\ t[k] = s[k] /\ s[k].index \in Nat
      OBVIOUS
    <2>1. k \in 1..m /\ s[k].type = "content_block_stop"
      BY DEF StopsOf, SentOf
    <2>2. s[k] \in MessageEvents
      BY <2>1, <1>1, ElementOfSeq
    <2> QED
      BY <2>1, <2>2, <1>3, BlockTypes
  <1> HIDE DEF m
  <1>10. \A k \in StopsOf(t, m + 1) : t[k].index < next
    BY <1>1, <1>2, <1>3, <1>4, <1>5, <1>9
  <1>11. Cardinality(StopsOf(t, m + 1)) = next
    BY <1>1, <1>4, <1>5
  <1>12. \A k \in StartsOf(t, m + 1) : t[k].index < next
    BY <1>4, <1>5, <1>8
  <1>13. Cardinality(StartsOf(t, m + 1)) = next
    BY <1>4, <1>5
  <1>14. Shape(t, next, NoBlock)
    BY <1>1, <1>3, <1>6, <1>7, <1>10, <1>11, <1>12, <1>13 DEF Shape
  <1> QED
    BY <1>14 DEF t, e

\* Any other event leaves the counts.
LEMMA ShapeOther ==
  ASSUME NEW s, NEW next, NEW open, Shape(s, next, open), NEW e \in MessageEvents,
         e.type \notin {"content_block_start", "content_block_stop"},
         e.type = "message_delta" => open = NoBlock,
         e.type = "content_block_delta" =>
           /\ Begun(s, e.index, e.kind)
           /\ e.kind = "text" => open = [index |-> e.index, kind |-> "text"]
  PROVE  Shape(Append(s, e), next, open)
  <1> DEFINE t == Append(s, e)
             m == Len(s)
  <1>1. s \in Seq(MessageEvents) /\ next \in Nat /\ Turns(s) /\ Finds(s)
    BY DEF Shape
  <1>2. /\ Cardinality(StartsOf(s, m)) = next
        /\ Cardinality(StopsOf(s, m)) = Stopped(next, open)
        /\ \A k \in StartsOf(s, m) : s[k].index < next
        /\ \A k \in StopsOf(s, m) : s[k].index < Stopped(next, open)
    BY DEF Shape
  <1>3. open # NoBlock => /\ next # 0 /\ open \in [index : {next - 1}, kind : Kinds]
                          /\ Begun(s, open.index, open.kind)
    BY DEF Shape
  <1>4. /\ m \in Nat /\ t \in Seq(MessageEvents) /\ Len(t) = m + 1
        /\ \A i \in 1..m : t[i] = s[i]
    BY <1>1, AppendProperties, LenProperties
  <1>5. StartsOf(t, m + 1) = StartsOf(s, m) /\ StopsOf(t, m + 1) = StopsOf(s, m)
    BY <1>1, BlocksAppend
  <1>6. Turns(t)
    <2>1. e.type = "message_delta" => Stopped(next, open) = next
      BY DEF Stopped
    <2> QED
      BY <1>1, <1>2, <2>1, TurnsAppend
  <1>7. e.type = "content_block_delta" /\ e.kind = "text" =>
          \A k \in StopsOf(s, Len(s)) : s[k].index # e.index
    <2> SUFFICES ASSUME e.type = "content_block_delta", e.kind = "text",
                        NEW k \in StopsOf(s, m), s[k].index = e.index
                 PROVE  FALSE
      OBVIOUS
    <2>1. open = [index |-> e.index, kind |-> "text"]
      OBVIOUS
    <2>2. open # NoBlock /\ open.index = e.index
      BY <2>1 DEF NoBlock
    <2>3. e.index = next - 1 /\ Stopped(next, open) = next - 1
      BY <2>2, <1>3 DEF Stopped
    <2> QED
      BY <2>3, <1>1, <1>2
  <1>8. Finds(t)
    BY <1>1, <1>7, FindsAppend
  <1>9. open # NoBlock => Begun(t, open.index, open.kind)
    BY <1>1, <1>3, BegunAppend
  <1> HIDE DEF t
  <1>10. \A k \in StartsOf(s, m) : t[k] = s[k]
    BY <1>4 DEF StartsOf, SentOf
  <1>11. \A k \in StopsOf(s, m) : t[k] = s[k]
    BY <1>4 DEF StopsOf, SentOf
  <1>12. /\ \A k \in StartsOf(t, m + 1) : t[k].index < next
         /\ \A k \in StopsOf(t, m + 1) : t[k].index < Stopped(next, open)
    BY <1>2, <1>5, <1>10, <1>11
  <1>13. /\ Cardinality(StartsOf(t, m + 1)) = next
         /\ Cardinality(StopsOf(t, m + 1)) = Stopped(next, open)
    BY <1>2, <1>5
  <1> HIDE DEF m
  <1>14. Shape(t, next, open)
    BY <1>1, <1>3, <1>4, <1>6, <1>8, <1>9, <1>12, <1>13 DEF Shape
  <1> QED
    BY <1>14 DEF t

LEMMA ShapeEmpty == Shape(<<>>, 0, NoBlock)
  <1>1. <<>> \in Seq(MessageEvents) /\ Len(<<>>) = 0
    BY EmptySeq
  <1>2. StartsOf(<<>>, 0) = {} /\ StopsOf(<<>>, 0) = {}
    BY DEF StartsOf, StopsOf, SentOf
  <1>3. SentOf(<<>>, {"content_block_delta"}, 0) = {}
    BY DEF SentOf
  <1>4. Turns(<<>>) /\ Finds(<<>>)
    BY <1>1, <1>3 DEF Turns, Finds
  <1> QED
    BY <1>1, <1>2, <1>4, FS_EmptySet DEF Shape, Stopped

--------------------------------------------------------------------------------
(***************************************************************************)
(* The text of the deltas among the events of a set, put together.         *)
(***************************************************************************)
Pieces(s, M) == [k \in 1..Len(s) |-> IF s[k] \in M THEN s[k].delta ELSE <<>>]
Joined(s, M) == FlattenSeq(Pieces(s, M))
WithText(M) == \A e \in M : e.delta \in Texts

LEMMA PiecesType ==
  ASSUME NEW E, NEW s \in Seq(E), NEW M, WithText(M)
  PROVE  /\ Pieces(s, M) \in Seq(Texts) /\ Len(Pieces(s, M)) = Len(s)
         /\ \A k \in 1..Len(s) : Pieces(s, M)[k] = IF s[k] \in M THEN s[k].delta ELSE <<>>
  <1>1. <<>> \in Texts /\ Len(s) \in Nat
    BY EmptySeq, LenProperties DEF Texts
  <1>2. \A k \in 1..Len(s) : (IF s[k] \in M THEN s[k].delta ELSE <<>>) \in Texts
    BY <1>1 DEF WithText
  <1>3. Pieces(s, M) \in [1..Len(s) -> Texts]
    BY <1>2 DEF Pieces
  <1>4. Pieces(s, M) \in Seq(Texts)
    BY <1>1, <1>3, SeqDef
  <1>5. Len(Pieces(s, M)) = Len(s)
    BY <1>1, <1>3, <1>4, LenProperties
  <1> QED
    BY <1>4, <1>5 DEF Pieces

LEMMA JoinedType ==
  ASSUME NEW E, NEW s \in Seq(E), NEW M, WithText(M)
  PROVE  Joined(s, M) \in Texts
  <1>1. Pieces(s, M) \in Seq(Texts)
    BY PiecesType
  <1> QED
    BY <1>1, FlattenType DEF Joined, Texts

LEMMA JoinedAppend ==
  ASSUME NEW E, NEW s \in Seq(E), NEW e \in E, NEW M, WithText(M)
  PROVE  Joined(Append(s, e), M) = Joined(s, M) \o (IF e \in M THEN e.delta ELSE <<>>)
  <1> DEFINE t == Append(s, e)
             piece == IF e \in M THEN e.delta ELSE <<>>
  <1>1. /\ t \in Seq(E) /\ Len(t) = Len(s) + 1 /\ Len(s) \in Nat /\ t[Len(s) + 1] = e
        /\ \A k \in 1..Len(s) : t[k] = s[k]
    BY AppendProperties, LenProperties
  <1>2. piece \in Texts
    BY EmptySeq DEF WithText, Texts
  <1>3. /\ Pieces(s, M) \in Seq(Texts) /\ Len(Pieces(s, M)) = Len(s)
        /\ \A k \in 1..Len(s) : Pieces(s, M)[k] = IF s[k] \in M THEN s[k].delta ELSE <<>>
    BY PiecesType
  <1> HIDE DEF t
  <1>4. /\ Pieces(t, M) \in Seq(Texts) /\ Len(Pieces(t, M)) = Len(s) + 1
        /\ \A k \in 1..Len(s) + 1 : Pieces(t, M)[k] = IF t[k] \in M THEN t[k].delta ELSE <<>>
    <2>1. /\ Pieces(t, M) \in Seq(Texts) /\ Len(Pieces(t, M)) = Len(t)
          /\ \A k \in 1..Len(t) : Pieces(t, M)[k] = IF t[k] \in M THEN t[k].delta ELSE <<>>
      BY <1>1, PiecesType
    <2> QED
      BY <1>1, <2>1
  <1>5. /\ Append(Pieces(s, M), piece) \in Seq(Texts)
        /\ Len(Append(Pieces(s, M), piece)) = Len(s) + 1
        /\ Append(Pieces(s, M), piece)[Len(s) + 1] = piece
        /\ \A k \in 1..Len(s) : Append(Pieces(s, M), piece)[k] = Pieces(s, M)[k]
    BY <1>2, <1>3, AppendProperties
  <1>6. \A k \in 1..Len(s) + 1 : Pieces(t, M)[k] = Append(Pieces(s, M), piece)[k]
    <2> SUFFICES ASSUME NEW k \in 1..Len(s) + 1
                 PROVE  Pieces(t, M)[k] = Append(Pieces(s, M), piece)[k]
      OBVIOUS
    <2>1. CASE k = Len(s) + 1
      BY <2>1, <1>1, <1>4, <1>5
    <2>2. CASE k # Len(s) + 1
      <3>1. k \in 1..Len(s)
        BY <2>2, <1>1
      <3> QED
        BY <3>1, <1>1, <1>3, <1>4, <1>5
    <2> QED
      BY <2>1, <2>2
  <1> HIDE DEF piece
  <1>7. Pieces(t, M) = Append(Pieces(s, M), piece)
    BY <1>4, <1>5, <1>6, SeqEqual
  <1>8. FlattenSeq(Append(Pieces(s, M), piece)) = FlattenSeq(Pieces(s, M)) \o piece
    BY <1>2, <1>3, FlattenAppend DEF Texts
  <1> QED
    BY <1>7, <1>8 DEF Joined, t, piece

LEMMA JoinedHead ==
  ASSUME NEW E, NEW s \in Seq(E), s # <<>>, NEW M, WithText(M)
  PROVE  Joined(s, M) = (IF Head(s) \in M THEN Head(s).delta ELSE <<>>) \o Joined(Tail(s), M)
  <1>1. /\ Head(s) \in E /\ Head(s) = s[1] /\ Tail(s) \in Seq(E) /\ Len(Tail(s)) = Len(s) - 1
        /\ \A i \in 1..Len(Tail(s)) : Tail(s)[i] = s[i + 1]
        /\ Len(s) \in Nat \ {0}
    BY HeadTailProperties, EmptySeq
  <1>2. /\ Pieces(s, M) \in Seq(Texts) /\ Len(Pieces(s, M)) = Len(s)
        /\ \A k \in 1..Len(s) : Pieces(s, M)[k] = IF s[k] \in M THEN s[k].delta ELSE <<>>
    BY PiecesType
  <1>3. /\ Pieces(Tail(s), M) \in Seq(Texts) /\ Len(Pieces(Tail(s), M)) = Len(s) - 1
        /\ \A k \in 1..Len(s) - 1 :
             Pieces(Tail(s), M)[k] = IF s[k + 1] \in M THEN s[k + 1].delta ELSE <<>>
    <2> DEFINE u == Tail(s)
    <2> HIDE DEF u
    <2>1. u \in Seq(E)
      BY <1>1 DEF u
    <2>2. /\ Pieces(u, M) \in Seq(Texts) /\ Len(Pieces(u, M)) = Len(u)
          /\ \A k \in 1..Len(u) : Pieces(u, M)[k] = IF u[k] \in M THEN u[k].delta ELSE <<>>
      BY <2>1, PiecesType
    <2>3. Len(u) = Len(s) - 1 /\ \A k \in 1..Len(s) - 1 : u[k] = s[k + 1]
      BY <1>1 DEF u
    <2>4. /\ Pieces(u, M) \in Seq(Texts) /\ Len(Pieces(u, M)) = Len(s) - 1
          /\ \A k \in 1..Len(s) - 1 :
               Pieces(u, M)[k] = IF s[k + 1] \in M THEN s[k + 1].delta ELSE <<>>
      BY <2>2, <2>3
    <2> QED
      BY <2>4 DEF u
  <1>4. Pieces(s, M) # <<>>
    BY <1>1, <1>2, EmptySeq
  <1>5. /\ Tail(Pieces(s, M)) \in Seq(Texts) /\ Len(Tail(Pieces(s, M))) = Len(s) - 1
        /\ \A k \in 1..Len(s) - 1 : Tail(Pieces(s, M))[k] = Pieces(s, M)[k + 1]
    BY <1>1, <1>2, <1>4, HeadTailProperties
  <1>6. \A k \in 1..Len(s) - 1 : k + 1 \in 1..Len(s)
    BY <1>1
  <1>7. \A k \in 1..Len(s) - 1 : Tail(Pieces(s, M))[k] = Pieces(Tail(s), M)[k]
    BY <1>2, <1>3, <1>5, <1>6
  <1>8. Tail(Pieces(s, M)) = Pieces(Tail(s), M)
    BY <1>3, <1>5, <1>7, SeqEqual
  <1>9. Head(Pieces(s, M)) = IF Head(s) \in M THEN Head(s).delta ELSE <<>>
    BY <1>1, <1>2
  <1>10. FlattenSeq(Pieces(s, M)) = Head(Pieces(s, M)) \o FlattenSeq(Tail(Pieces(s, M)))
    BY <1>2, <1>4, FlattenHead DEF Texts
  <1> QED
    BY <1>8, <1>9, <1>10 DEF Joined

LEMMA JoinedNothing ==
  ASSUME NEW E, NEW s \in Seq(E), NEW M, WithText(M), \A k \in 1..Len(s) : s[k] \notin M
  PROVE  Joined(s, M) = <<>>
  <1>1. /\ Pieces(s, M) \in Seq(Texts) /\ Len(Pieces(s, M)) = Len(s)
        /\ \A k \in 1..Len(s) : Pieces(s, M)[k] = <<>>
    BY PiecesType
  <1> QED
    BY <1>1, FlattenNothing DEF Joined, Texts

--------------------------------------------------------------------------------
(***************************************************************************)
(* A Messages stream and the block of each tool call.                      *)
(***************************************************************************)
Indices == {D \in SUBSET Nat : IsFiniteSet(D)}
Blocks == UNION {[D -> Nat] : D \in Indices}

NoEnd(s) == \A k \in 1..Len(s) : s[k].type # "message_delta"

\* What may have been sent before the end.
Written == {s \in Seq(MessageEvents) : Turns(s) /\ Finds(s) /\ NoEnd(s)}

FitsAt(s, next, open, blocks) ==
  /\ Shape(s, next, open)
  /\ NoEnd(s)
  /\ blocks \in Blocks
  /\ \A i \in DOMAIN blocks :
       /\ Begun(s, blocks[i], "tool_use")
       /\ blocks[i] < next
       /\ open.kind = "text" => blocks[i] # open.index
  /\ \A i, j \in DOMAIN blocks : blocks[i] = blocks[j] => i = j
  /\ \A k \in StartsOf(s, Len(s)) :
       s[k].kind = "tool_use" => \E i \in DOMAIN blocks : blocks[i] = s[k].index

TextEvents == {e \in MessageEvents : e.type = "content_block_delta" /\ e.kind = "text"}
EventsOfBlock(b) == {e \in MessageEvents : e.type = "content_block_delta" /\ e.index = b}
TextIn(s) == Joined(s, TextEvents)
ArgumentsIn(s, blocks, i) ==
  IF i \in DOMAIN blocks THEN Joined(s, EventsOfBlock(blocks[i])) ELSE <<>>

\* What an event adds to the text and to the arguments of the calls: nothing, or
\* this to the text and that to those of one call.
Keeps(s, blocks, t, more) ==
  /\ TextIn(t) = TextIn(s)
  /\ \A i : ArgumentsIn(t, more, i) = ArgumentsIn(s, blocks, i)

Adds(s, blocks, t, more, text, index, arguments) ==
  /\ TextIn(t) = TextIn(s) \o text
  /\ \A i : ArgumentsIn(t, more, i)
              = ArgumentsIn(s, blocks, i) \o (IF i = index THEN arguments ELSE <<>>)

LEMMA FitsIsWritten ==
  ASSUME NEW s, NEW next, NEW open, NEW blocks, FitsAt(s, next, open, blocks)
  PROVE  s \in Written
  BY DEF FitsAt, Shape, Written

LEMMA DeltasHaveText == WithText(TextEvents) /\ \A b : WithText(EventsOfBlock(b))
  <1>1. \A e \in MessageEvents : e.type = "content_block_delta" => e.delta \in Texts
    BY BlockTypes
  <1> QED
    BY <1>1 DEF WithText, TextEvents, EventsOfBlock

LEMMA NoEndAppend ==
  ASSUME NEW s \in Seq(MessageEvents), NEW e \in MessageEvents, NoEnd(s),
         e.type # "message_delta"
  PROVE  NoEnd(Append(s, e))
  <1>1. /\ Len(Append(s, e)) = Len(s) + 1 /\ Len(s) \in Nat /\ Append(s, e)[Len(s) + 1] = e
        /\ \A i \in 1..Len(s) : Append(s, e)[i] = s[i]
    BY AppendProperties, LenProperties
  <1> SUFFICES ASSUME NEW k \in 1..Len(s) + 1 PROVE Append(s, e)[k].type # "message_delta"
    BY <1>1 DEF NoEnd
  <1>2. CASE k = Len(s) + 1
    BY <1>1, <1>2
  <1>3. CASE k # Len(s) + 1
    <2>1. k \in 1..Len(s)
      BY <1>1, <1>3
    <2> QED
      BY <1>1, <2>1 DEF NoEnd
  <1> QED
    BY <1>2, <1>3

\* An event that is no delta adds to no text.
LEMMA NoTextAppend ==
  ASSUME NEW s \in Seq(MessageEvents), NEW e \in MessageEvents, NEW M,
         WithText(M), e \notin M
  PROVE  Joined(Append(s, e), M) = Joined(s, M)
  <1>1. Joined(s, M) \in Texts
    BY JoinedType
  <1>2. Joined(Append(s, e), M) = Joined(s, M) \o <<>>
    BY JoinedAppend
  <1> QED
    BY <1>1, <1>2, ConcatEmptySeq DEF Texts

LEMMA SilentAppend ==
  ASSUME NEW s \in Seq(MessageEvents), NEW e \in MessageEvents,
         e.type # "content_block_delta"
  PROVE  /\ TextIn(Append(s, e)) = TextIn(s)
         /\ \A blocks, i : ArgumentsIn(Append(s, e), blocks, i) = ArgumentsIn(s, blocks, i)
  <1>1. e \notin TextEvents /\ \A b : e \notin EventsOfBlock(b)
    BY DEF TextEvents, EventsOfBlock
  <1>2. TextIn(Append(s, e)) = TextIn(s)
    BY <1>1, NoTextAppend, DeltasHaveText DEF TextIn
  <1>3. ASSUME NEW b PROVE Joined(Append(s, e), EventsOfBlock(b)) = Joined(s, EventsOfBlock(b))
    BY <1>1, NoTextAppend, DeltasHaveText
  <1> QED
    BY <1>2, <1>3 DEF ArgumentsIn

LEMMA ArgumentsType ==
  ASSUME NEW s \in Seq(MessageEvents), NEW blocks, NEW i
  PROVE  ArgumentsIn(s, blocks, i) \in Texts
  <1>1. Joined(s, EventsOfBlock(blocks[i])) \in Texts
    BY JoinedType, DeltasHaveText
  <1>2. <<>> \in Texts
    BY EmptySeq DEF Texts
  <1> QED
    BY <1>1, <1>2 DEF ArgumentsIn

LEMMA TextType ==
  ASSUME NEW s \in Seq(MessageEvents)
  PROVE  TextIn(s) \in Texts
  BY JoinedType, DeltasHaveText DEF TextIn

LEMMA KeepsThenAdds ==
  ASSUME NEW s, NEW bs, NEW t, NEW bt, NEW u, NEW bu, NEW text, NEW index, NEW arguments,
         Keeps(s, bs, t, bt), Adds(t, bt, u, bu, text, index, arguments)
  PROVE  Adds(s, bs, u, bu, text, index, arguments)
  BY DEF Keeps, Adds

LEMMA KeepsThenKeeps ==
  ASSUME NEW s, NEW bs, NEW t, NEW bt, NEW u, NEW bu,
         Keeps(s, bs, t, bt), Keeps(t, bt, u, bu)
  PROVE  Keeps(s, bs, u, bu)
  BY DEF Keeps

LEMMA KeepsIsAdds ==
  ASSUME NEW s \in Seq(MessageEvents), NEW bs, NEW t, NEW bt, NEW index, Keeps(s, bs, t, bt)
  PROVE  Adds(s, bs, t, bt, <<>>, index, <<>>)
  <1>1. TextIn(s) \o <<>> = TextIn(s)
    BY TextType, ConcatEmptySeq DEF Texts
  <1>2. ASSUME NEW i PROVE ArgumentsIn(s, bs, i) \o <<>> = ArgumentsIn(s, bs, i)
    <2>1. ArgumentsIn(s, bs, i) \in Texts
      BY ArgumentsType
    <2> QED
      BY <2>1, ConcatEmptySeq DEF Texts
  <1> QED
    BY <1>1, <1>2 DEF Keeps, Adds

LEMMA FitsStop ==
  ASSUME NEW s, NEW next, NEW open, NEW blocks, open # NoBlock, FitsAt(s, next, open, blocks)
  PROVE  LET t == Append(s, BlockStop(open.index)) IN
         /\ FitsAt(t, next, NoBlock, blocks)
         /\ BlockStop(open.index) \in MessageEvents
         /\ Keeps(s, blocks, t, blocks)
  <1> DEFINE e == BlockStop(open.index)
             t == Append(s, e)
  <1>1. /\ s \in Seq(MessageEvents) /\ Shape(s, next, open) /\ NoEnd(s) /\ blocks \in Blocks
        /\ open.index = next - 1 /\ next \in Nat \ {0}
    BY DEF FitsAt, Shape
  <1>2. e \in MessageEvents /\ e.type = "content_block_stop"
    BY <1>1 DEF BlockStop, MessageEvents
  <1>3. Shape(t, next, NoBlock)
    BY <1>1, ShapeStop
  <1> HIDE DEF e
  <1>4. NoEnd(t)
    BY <1>1, <1>2, NoEndAppend
  <1>5. /\ TextIn(t) = TextIn(s)
        /\ \A i : ArgumentsIn(t, blocks, i) = ArgumentsIn(s, blocks, i)
    BY <1>1, <1>2, SilentAppend
  <1>6. \A i \in DOMAIN blocks : Begun(t, blocks[i], "tool_use") /\ blocks[i] < next
    <2> SUFFICES ASSUME NEW i \in DOMAIN blocks
                 PROVE  Begun(t, blocks[i], "tool_use") /\ blocks[i] < next
      OBVIOUS
    <2>1. Begun(s, blocks[i], "tool_use") /\ blocks[i] < next
      BY DEF FitsAt
    <2> QED
      BY <2>1, <1>1, <1>2, BegunAppend
  <1>7. /\ Len(t) = Len(s) + 1 /\ Len(s) \in Nat /\ \A i \in 1..Len(s) : t[i] = s[i]
        /\ StartsOf(t, Len(t)) = StartsOf(s, Len(s))
    <2>1. /\ Len(t) = Len(s) + 1 /\ Len(s) \in Nat /\ \A i \in 1..Len(s) : t[i] = s[i]
      BY <1>1, <1>2, AppendProperties, LenProperties
    <2> QED
      BY <1>1, <1>2, <2>1, BlocksAppend
  <1> HIDE DEF t
  <1>8. \A k \in StartsOf(t, Len(t)) :
          t[k].kind = "tool_use" => \E i \in DOMAIN blocks : blocks[i] = t[k].index
    BY <1>7 DEF FitsAt, StartsOf, SentOf
  <1>9. \A i, j \in DOMAIN blocks : blocks[i] = blocks[j] => i = j
    BY DEF FitsAt
  <1>10. NoBlock.kind # "text"
    BY DEF NoBlock
  <1>11. FitsAt(t, next, NoBlock, blocks)
    BY <1>1, <1>3, <1>4, <1>6, <1>8, <1>9, <1>10 DEF FitsAt
  <1> QED
    BY <1>2, <1>5, <1>11 DEF t, e, Keeps

\* A block of text begins.
LEMMA FitsStartText ==
  ASSUME NEW s, NEW next, NEW blocks, FitsAt(s, next, NoBlock, blocks)
  PROVE  LET t == Append(s, BlockStart(next, "text")) IN
         /\ FitsAt(t, next + 1, [index |-> next, kind |-> "text"], blocks)
         /\ BlockStart(next, "text") \in MessageEvents
         /\ Keeps(s, blocks, t, blocks)
  <1> DEFINE e == BlockStart(next, "text")
             t == Append(s, e)
             open == [index |-> next, kind |-> "text"]
  <1>1. /\ s \in Seq(MessageEvents) /\ Shape(s, next, NoBlock) /\ NoEnd(s) /\ blocks \in Blocks
        /\ next \in Nat
    BY DEF FitsAt, Shape
  <1>2. /\ e \in MessageEvents /\ e.type = "content_block_start" /\ e.kind = "text"
        /\ open.index = next
    BY <1>1 DEF BlockStart, MessageEvents
  <1>3. Shape(t, next + 1, open)
    BY <1>1, ShapeStart DEF Kinds
  <1> HIDE DEF e, open
  <1>4. NoEnd(t)
    BY <1>1, <1>2, NoEndAppend
  <1>5. /\ TextIn(t) = TextIn(s)
        /\ \A i : ArgumentsIn(t, blocks, i) = ArgumentsIn(s, blocks, i)
    BY <1>1, <1>2, SilentAppend
  <1>6. \A i \in DOMAIN blocks :
          Begun(t, blocks[i], "tool_use") /\ blocks[i] < next + 1 /\ blocks[i] # open.index
    <2> SUFFICES ASSUME NEW i \in DOMAIN blocks
                 PROVE  /\ Begun(t, blocks[i], "tool_use") /\ blocks[i] < next + 1
                        /\ blocks[i] # open.index
      OBVIOUS
    <2>1. Begun(s, blocks[i], "tool_use") /\ blocks[i] < next /\ blocks[i] \in Nat
      BY <1>1 DEF FitsAt, Blocks
    <2>2. Begun(t, blocks[i], "tool_use")
      BY <2>1, <1>1, <1>2, BegunAppend
    <2> QED
      BY <2>1, <2>2, <1>1, <1>2
  <1>7. /\ Len(t) = Len(s) + 1 /\ Len(s) \in Nat /\ t[Len(s) + 1] = e
        /\ \A i \in 1..Len(s) : t[i] = s[i]
        /\ StartsOf(t, Len(t)) = StartsOf(s, Len(s)) \cup {Len(s) + 1}
    <2>1. /\ Len(t) = Len(s) + 1 /\ Len(s) \in Nat /\ t[Len(s) + 1] = e
          /\ \A i \in 1..Len(s) : t[i] = s[i]
      BY <1>1, <1>2, AppendProperties, LenProperties
    <2> QED
      BY <1>1, <1>2, <2>1, BlocksAppend
  <1> HIDE DEF t
  <1>8. \A k \in StartsOf(t, Len(t)) :
          t[k].kind = "tool_use" => \E i \in DOMAIN blocks : blocks[i] = t[k].index
    BY <1>2, <1>7 DEF FitsAt, StartsOf, SentOf
  <1>9. \A i, j \in DOMAIN blocks : blocks[i] = blocks[j] => i = j
    BY DEF FitsAt
  <1>10. FitsAt(t, next + 1, open, blocks)
    BY <1>1, <1>3, <1>4, <1>6, <1>8, <1>9 DEF FitsAt
  <1> QED
    BY <1>2, <1>5, <1>10 DEF t, e, open, Keeps

LEMMA PutBlocks ==
  ASSUME NEW blocks \in Blocks, NEW i \in Nat, NEW v \in Nat
  PROVE  /\ Put(blocks, i, v) \in Blocks
         /\ DOMAIN Put(blocks, i, v) = DOMAIN blocks \cup {i}
  <1>1. PICK D \in Indices : blocks \in [D -> Nat]
    BY DEF Blocks
  <1>2. D \cup {i} \in Indices
    BY <1>1, FS_AddElement DEF Indices
  <1>3. Put(blocks, i, v) \in [D \cup {i} -> Nat]
    BY <1>1 DEF Put
  <1>4. Put(blocks, i, v) \in Blocks
    BY <1>2, <1>3 DEF Blocks
  <1> QED
    BY <1>1, <1>4 DEF Put

\* A delta's block has an index below the next one.
LEMMA NothingAhead ==
  ASSUME NEW s, NEW next, NEW open, NEW blocks, FitsAt(s, next, open, blocks)
  PROVE  Joined(s, EventsOfBlock(next)) = <<>>
  <1>1. /\ s \in Seq(MessageEvents) /\ Finds(s) /\ next \in Nat /\ Len(s) \in Nat
        /\ \A k \in StartsOf(s, Len(s)) : s[k].index < next
    BY LenProperties DEF FitsAt, Shape
  <1>2. ASSUME NEW n \in 1..Len(s), s[n] \in EventsOfBlock(next) PROVE FALSE
    <2>1. n \in SentOf(s, {"content_block_delta"}, Len(s)) /\ s[n].index = next
      BY <1>2 DEF EventsOfBlock, SentOf
    <2>2. PICK k \in StartsOf(s, n - 1) : s[k].index = next
      BY <1>1, <2>1 DEF Finds
    <2>3. k \in StartsOf(s, Len(s))
      BY <1>1, <2>2 DEF StartsOf, SentOf
    <2> QED
      BY <1>1, <2>2, <2>3
  <1> QED
    BY <1>1, <1>2, JoinedNothing, DeltasHaveText

\* The block of a new call begins.
LEMMA FitsStartTool ==
  ASSUME NEW s, NEW next, NEW blocks, FitsAt(s, next, NoBlock, blocks),
         NEW index \in Nat, index \notin DOMAIN blocks
  PROVE  LET t == Append(s, BlockStart(next, "tool_use")) IN
         /\ FitsAt(t, next + 1, [index |-> next, kind |-> "tool_use"], Put(blocks, index, next))
         /\ BlockStart(next, "tool_use") \in MessageEvents
         /\ Keeps(s, blocks, t, Put(blocks, index, next))
  <1> DEFINE e == BlockStart(next, "tool_use")
             t == Append(s, e)
             open == [index |-> next, kind |-> "tool_use"]
             more == Put(blocks, index, next)
  <1>1. /\ s \in Seq(MessageEvents) /\ Shape(s, next, NoBlock) /\ NoEnd(s) /\ blocks \in Blocks
        /\ next \in Nat
    BY DEF FitsAt, Shape
  <1>2. /\ e \in MessageEvents /\ e.type = "content_block_start" /\ e.kind = "tool_use"
        /\ e.index = next /\ open.kind # "text"
    BY <1>1 DEF BlockStart, MessageEvents
  <1>3. Shape(t, next + 1, open)
    BY <1>1, ShapeStart DEF Kinds
  <1>4. Begun(t, next, "tool_use")
    BY <1>1, <1>2, BegunAppend
  <1> HIDE DEF e, open
  <1>5. NoEnd(t)
    BY <1>1, <1>2, NoEndAppend
  <1>6. /\ TextIn(t) = TextIn(s)
        /\ \A bs, i : ArgumentsIn(t, bs, i) = ArgumentsIn(s, bs, i)
    BY <1>1, <1>2, SilentAppend
  <1>7. /\ more \in Blocks /\ DOMAIN more = DOMAIN blocks \cup {index} /\ more[index] = next
        /\ \A j \in DOMAIN blocks : more[j] = blocks[j]
    <2>1. more \in Blocks
      BY <1>1, PutBlocks
    <2>2. DOMAIN more = DOMAIN blocks \cup {index}
      BY <1>1, PutBlocks
    <2>3. \A j \in DOMAIN blocks \cup {index} : more[j] = IF j = index THEN next ELSE blocks[j]
      BY DEF Put
    <2> HIDE DEF more
    <2> QED
      BY <2>1, <2>2, <2>3
  <1> HIDE DEF more
  <1>8. \A i \in DOMAIN blocks :
          Begun(t, blocks[i], "tool_use") /\ blocks[i] < next /\ blocks[i] \in Nat
    <2> SUFFICES ASSUME NEW i \in DOMAIN blocks
                 PROVE  /\ Begun(t, blocks[i], "tool_use") /\ blocks[i] < next
                        /\ blocks[i] \in Nat
      OBVIOUS
    <2>1. Begun(s, blocks[i], "tool_use") /\ blocks[i] < next /\ blocks[i] \in Nat
      BY <1>1 DEF FitsAt, Blocks
    <2> QED
      BY <2>1, <1>1, <1>2, BegunAppend
  <1>9. \A i \in DOMAIN more : Begun(t, more[i], "tool_use") /\ more[i] < next + 1
    BY <1>1, <1>4, <1>7, <1>8
  <1>10. \A i, j \in DOMAIN more : more[i] = more[j] => i = j
    BY <1>1, <1>7, <1>8 DEF FitsAt
  <1>11. /\ Len(t) = Len(s) + 1 /\ Len(s) \in Nat /\ t[Len(s) + 1] = e
         /\ \A i \in 1..Len(s) : t[i] = s[i]
         /\ StartsOf(t, Len(t)) = StartsOf(s, Len(s)) \cup {Len(s) + 1}
    <2>1. /\ Len(t) = Len(s) + 1 /\ Len(s) \in Nat /\ t[Len(s) + 1] = e
          /\ \A i \in 1..Len(s) : t[i] = s[i]
      BY <1>1, <1>2, AppendProperties, LenProperties
    <2> QED
      BY <1>1, <1>2, <2>1, BlocksAppend
  <1>12. ASSUME NEW i
         PROVE  ArgumentsIn(s, more, i) = ArgumentsIn(s, blocks, i)
    <2>1. Joined(s, EventsOfBlock(next)) = <<>>
      BY NothingAhead
    <2> QED
      BY <2>1, <1>7 DEF ArgumentsIn
  <1> HIDE DEF t
  <1>13. \A k \in StartsOf(t, Len(t)) :
           t[k].kind = "tool_use" => \E i \in DOMAIN more : more[i] = t[k].index
    <2> SUFFICES ASSUME NEW k \in StartsOf(t, Len(t)), t[k].kind = "tool_use"
                 PROVE  \E i \in DOMAIN more : more[i] = t[k].index
      OBVIOUS
    <2>1. CASE k = Len(s) + 1
      BY <2>1, <1>2, <1>7, <1>11
    <2>2. CASE k \in StartsOf(s, Len(s))
      <3>1. t[k] = s[k]
        BY <2>2, <1>11 DEF StartsOf, SentOf
      <3>2. PICK i \in DOMAIN blocks : blocks[i] = s[k].index
        BY <2>2, <3>1 DEF FitsAt
      <3> QED
        BY <3>1, <3>2, <1>7
    <2> QED
      BY <2>1, <2>2, <1>11
  <1>14. FitsAt(t, next + 1, open, more)
    BY <1>2, <1>3, <1>5, <1>7, <1>9, <1>10, <1>13 DEF FitsAt
  <1>15. \A i : ArgumentsIn(t, more, i) = ArgumentsIn(s, blocks, i)
    BY <1>6, <1>12
  <1> QED
    BY <1>2, <1>6, <1>14, <1>15 DEF t, e, open, more, Keeps

LEMMA FitsDelta ==
  ASSUME NEW s, NEW next, NEW open, NEW blocks, FitsAt(s, next, open, blocks),
         NEW e \in MessageEvents, e.type = "content_block_delta",
         Begun(s, e.index, e.kind),
         e.kind = "text" => open = [index |-> e.index, kind |-> "text"]
  PROVE  FitsAt(Append(s, e), next, open, blocks)
  <1> DEFINE t == Append(s, e)
  <1>1. s \in Seq(MessageEvents) /\ Shape(s, next, open) /\ NoEnd(s) /\ blocks \in Blocks
    BY DEF FitsAt, Shape
  <1>2. Shape(t, next, open)
    BY <1>1, ShapeOther
  <1>3. NoEnd(t)
    BY <1>1, NoEndAppend
  <1>4. \A i \in DOMAIN blocks :
          /\ Begun(t, blocks[i], "tool_use") /\ blocks[i] < next
          /\ open.kind = "text" => blocks[i] # open.index
    <2> SUFFICES ASSUME NEW i \in DOMAIN blocks
                 PROVE  /\ Begun(t, blocks[i], "tool_use") /\ blocks[i] < next
                        /\ open.kind = "text" => blocks[i] # open.index
      OBVIOUS
    <2>1. /\ Begun(s, blocks[i], "tool_use") /\ blocks[i] < next
          /\ open.kind = "text" => blocks[i] # open.index
      BY DEF FitsAt
    <2> QED
      BY <2>1, <1>1, BegunAppend
  <1>5. /\ Len(t) = Len(s) + 1 /\ Len(s) \in Nat /\ \A i \in 1..Len(s) : t[i] = s[i]
        /\ StartsOf(t, Len(t)) = StartsOf(s, Len(s))
    <2>1. Len(t) = Len(s) + 1 /\ Len(s) \in Nat /\ \A i \in 1..Len(s) : t[i] = s[i]
      BY <1>1, AppendProperties, LenProperties
    <2> QED
      BY <1>1, <2>1, BlocksAppend
  <1> HIDE DEF t
  <1>6. \A k \in StartsOf(t, Len(t)) :
          t[k].kind = "tool_use" => \E i \in DOMAIN blocks : blocks[i] = t[k].index
    BY <1>5 DEF FitsAt, StartsOf, SentOf
  <1>7. \A i, j \in DOMAIN blocks : blocks[i] = blocks[j] => i = j
    BY DEF FitsAt
  <1>8. FitsAt(t, next, open, blocks)
    BY <1>1, <1>2, <1>3, <1>4, <1>6, <1>7 DEF FitsAt
  <1> QED
    BY <1>8 DEF t

\* Text goes to the open block of text, and to no call.
LEMMA FitsTextDelta ==
  ASSUME NEW s, NEW next, NEW b, NEW blocks, NEW delta \in Texts,
         FitsAt(s, next, [index |-> b, kind |-> "text"], blocks)
  PROVE  LET t == Append(s, BlockDelta(b, "text", delta)) IN
         /\ FitsAt(t, next, [index |-> b, kind |-> "text"], blocks)
         /\ BlockDelta(b, "text", delta) \in MessageEvents
         /\ Adds(s, blocks, t, blocks, delta, 0, <<>>)
  <1> DEFINE e == BlockDelta(b, "text", delta)
             t == Append(s, e)
             open == [index |-> b, kind |-> "text"]
  <1>1. open # NoBlock /\ open.index = b /\ open.kind = "text"
    BY DEF NoBlock
  <1>2. /\ s \in Seq(MessageEvents) /\ b \in Nat /\ Begun(s, b, "text")
    BY <1>1 DEF FitsAt, Shape
  <1>3. /\ e \in MessageEvents /\ e.type = "content_block_delta" /\ e.kind = "text"
        /\ e.index = b /\ e.delta = delta
    BY <1>2 DEF BlockDelta, MessageEvents
  <1> HIDE DEF e
  <1>4. FitsAt(t, next, open, blocks)
    BY <1>2, <1>3, FitsDelta
  <1>5. e \in TextEvents
    BY <1>3 DEF TextEvents
  <1>6. TextIn(t) = TextIn(s) \o delta
    BY SMTT(30), <1>2, <1>3, <1>5, JoinedAppend, DeltasHaveText DEF TextIn
  <1>7. ASSUME NEW i PROVE ArgumentsIn(t, blocks, i) = ArgumentsIn(s, blocks, i)
    <2>1. CASE i \in DOMAIN blocks
      <3>1. blocks[i] # b
        BY <2>1, <1>1 DEF FitsAt
      <3>2. e \notin EventsOfBlock(blocks[i])
        BY <3>1, <1>3 DEF EventsOfBlock
      <3>3. Joined(t, EventsOfBlock(blocks[i])) = Joined(s, EventsOfBlock(blocks[i]))
        BY <3>2, <1>2, <1>3, NoTextAppend, DeltasHaveText
      <3> QED
        BY <2>1, <3>3 DEF ArgumentsIn
    <2>2. CASE i \notin DOMAIN blocks
      BY <2>2 DEF ArgumentsIn
    <2> QED
      BY <2>1, <2>2
  <1>8. Adds(s, blocks, t, blocks, delta, 0, <<>>)
    <2> HIDE DEF t
    <2>1. ASSUME NEW i
          PROVE  ArgumentsIn(t, blocks, i)
                   = ArgumentsIn(s, blocks, i) \o (IF i = 0 THEN <<>> ELSE <<>>)
      <3>1. ArgumentsIn(s, blocks, i) \in Texts
        BY <1>2, ArgumentsType
      <3>2. ArgumentsIn(s, blocks, i) \o <<>> = ArgumentsIn(s, blocks, i)
        BY <3>1, ConcatEmptySeq DEF Texts
      <3> QED
        BY <3>2, <1>7
    <2> QED
      BY <2>1, <1>6 DEF Adds
  <1> QED
    BY <1>3, <1>4, <1>8 DEF e

\* A piece of a call goes to that call's block, open or not.
LEMMA FitsToolDelta ==
  ASSUME NEW s, NEW next, NEW open, NEW blocks, NEW delta \in Texts,
         FitsAt(s, next, open, blocks), NEW index \in DOMAIN blocks
  PROVE  LET t == Append(s, BlockDelta(blocks[index], "tool_use", delta)) IN
         /\ FitsAt(t, next, open, blocks)
         /\ BlockDelta(blocks[index], "tool_use", delta) \in MessageEvents
         /\ Adds(s, blocks, t, blocks, <<>>, index, delta)
  <1> DEFINE e == BlockDelta(blocks[index], "tool_use", delta)
             t == Append(s, e)
  <1>1. /\ s \in Seq(MessageEvents) /\ blocks \in Blocks
        /\ Begun(s, blocks[index], "tool_use") /\ blocks[index] \in Nat
    BY DEF FitsAt, Shape, Blocks
  <1>2. /\ e \in MessageEvents /\ e.type = "content_block_delta" /\ e.kind = "tool_use"
        /\ e.index = blocks[index] /\ e.delta = delta
    BY <1>1 DEF BlockDelta, MessageEvents
  <1> HIDE DEF e
  <1>3. FitsAt(t, next, open, blocks)
    BY <1>1, <1>2, FitsDelta
  <1>4. e \notin TextEvents
    BY <1>2 DEF TextEvents
  <1>5. TextIn(t) = TextIn(s)
    BY <1>1, <1>2, <1>4, NoTextAppend, DeltasHaveText DEF TextIn
  <1>6. ASSUME NEW i
        PROVE  ArgumentsIn(t, blocks, i)
                 = ArgumentsIn(s, blocks, i) \o (IF i = index THEN delta ELSE <<>>)
    <2>1. CASE i \in DOMAIN blocks
      <3>1. (e \in EventsOfBlock(blocks[i])) <=> (i = index)
        BY <2>1, <1>2 DEF EventsOfBlock, FitsAt
      <3> DEFINE M == EventsOfBlock(blocks[i])
      <3>2. WithText(M)
        BY DeltasHaveText
      <3> HIDE DEF M
      <3>3. Joined(t, M) = Joined(s, M) \o (IF e \in M THEN e.delta ELSE <<>>)
        BY SMTT(30), <3>2, <1>1, <1>2, JoinedAppend
      <3> QED
        BY <2>1, <3>1, <3>3, <1>2 DEF ArgumentsIn, M
    <2>2. CASE i \notin DOMAIN blocks
      BY <2>2 DEF ArgumentsIn
    <2> QED
      BY <2>1, <2>2
  <1>7. Adds(s, blocks, t, blocks, <<>>, index, delta)
    <2> HIDE DEF t
    <2>1. TextIn(s) \o <<>> = TextIn(s)
      BY <1>1, TextType, ConcatEmptySeq DEF Texts
    <2> QED
      BY <2>1, <1>5, <1>6 DEF Adds
  <1> QED
    BY <1>2, <1>3, <1>7 DEF e

--------------------------------------------------------------------------------
(***************************************************************************)
(* The adapter of a Messages stream.                                       *)
(***************************************************************************)
OpenBlocks == {NoBlock} \cup [index : Nat, kind : Kinds]

MessageAdapters ==
  [next_index : Nat, open : OpenBlocks,
   text_block_index : Nat \cup {None}, tool_blocks : Blocks, finish_reason : Words,
   saw_tool_call : BOOLEAN, usage : 0..MaxData]

Fits(s, a) ==
  /\ FitsAt(s, a.next_index, a.open, a.tool_blocks)
  /\ a.open.kind = "text" => a.text_block_index = a.open.index
  /\ a.saw_tool_call <=> DOMAIN a.tool_blocks # {}

\* A batch that leads from one adapter to another.
Leads(s, a, batch, b) ==
  /\ batch \in Seq(MessageEvents)
  /\ AllPrefixes(s, batch, Written)
  /\ b \in MessageAdapters
  /\ Fits(s \o batch, b)

LEMMA WrittenAppend ==
  ASSUME NEW s \in Seq(MessageEvents), NEW batch \in Seq(MessageEvents),
         NEW e \in MessageEvents, NEW t, t = s \o batch,
         AllPrefixes(s, batch, Written), Append(t, e) \in Written
  PROVE  /\ AllPrefixes(s, batch \o <<e>>, Written)
         /\ s \o (batch \o <<e>>) = Append(t, e)
         /\ batch \o <<e>> \in Seq(MessageEvents)
  <1>1. Append(s \o batch, e) \in Written
    OBVIOUS
  <1>2. AllPrefixes(s, Append(batch, e), Written) /\ s \o Append(batch, e) = Append(s \o batch, e)
    BY <1>1, PrefixesAppend
  <1>3. Append(batch, e) = batch \o <<e>> /\ Append(batch, e) \in Seq(MessageEvents)
    BY AppendIsConcat, AppendProperties
  <1> QED
    BY <1>2, <1>3

LEMMA WrittenOne ==
  ASSUME NEW s \in Seq(MessageEvents), NEW e \in MessageEvents, s \in Written,
         Append(s, e) \in Written
  PROVE  /\ AllPrefixes(s, <<e>>, Written)
         /\ s \o <<e>> = Append(s, e)
         /\ <<e>> \in Seq(MessageEvents)
  <1>1. AllPrefixes(s, <<>>, Written) /\ s = s \o <<>> /\ <<>> \in Seq(MessageEvents)
    BY PrefixesEmpty
  <1> DEFINE none == <<>>
  <1> HIDE DEF none
  <1>2. Append(s \o none, e) \in Written /\ none \in Seq(MessageEvents)
    BY <1>1 DEF none
  <1>3. AllPrefixes(s, none, Written)
    BY <1>1 DEF none
  <1>4. AllPrefixes(s, Append(none, e), Written) /\ s \o Append(none, e) = Append(s \o none, e)
    BY <1>2, <1>3, PrefixesAppend
  <1>5. Append(none, e) = <<e>> /\ <<e>> \in Seq(MessageEvents)
    BY DEF none
  <1> QED
    BY <1>1, <1>4, <1>5 DEF none

LEMMA CloseFits ==
  ASSUME NEW s, NEW a \in MessageAdapters, Fits(s, a)
  PROVE  LET c == CloseOpenBlock(a) IN
         /\ c \in Seq(MessageEvents)
         /\ AllPrefixes(s, c, Written)
         /\ FitsAt(s \o c, a.next_index, NoBlock, a.tool_blocks)
         /\ Keeps(s, a.tool_blocks, s \o c, a.tool_blocks)
  <1>1. s \in Seq(MessageEvents) /\ s \in Written
    BY FitsIsWritten DEF Fits, FitsAt, Shape
  <1>2. CASE a.open = NoBlock
    <2>1. CloseOpenBlock(a) = <<>>
      <3>1. NoBlock.kind = ""
        BY DEF NoBlock
      <3> QED
        BY <1>2, <3>1 DEF CloseOpenBlock, If
    <2>2. AllPrefixes(s, <<>>, Written) /\ s \o <<>> = s /\ <<>> \in Seq(MessageEvents)
      BY <1>1, PrefixesEmpty
    <2>3. FitsAt(s, a.next_index, NoBlock, a.tool_blocks)
      BY <1>2 DEF Fits
    <2>4. Keeps(s, a.tool_blocks, s, a.tool_blocks)
      BY DEF Keeps
    <2> QED
      BY <2>1, <2>2, <2>3, <2>4
  <1>3. CASE a.open # NoBlock
    <2> DEFINE e == BlockStop(a.open.index)
               t == Append(s, e)
    <2>1. CloseOpenBlock(a) = <<e>>
      <3>1. a.open \in [index : Nat, kind : Kinds]
        BY <1>3 DEF MessageAdapters, OpenBlocks
      <3> QED
        BY <3>1 DEF CloseOpenBlock, If, Kinds
    <2>2. FitsAt(s, a.next_index, a.open, a.tool_blocks)
      BY DEF Fits
    <2>3. /\ FitsAt(t, a.next_index, NoBlock, a.tool_blocks)
          /\ e \in MessageEvents
          /\ Keeps(s, a.tool_blocks, t, a.tool_blocks)
      BY <1>3, <2>2, FitsStop
    <2> HIDE DEF e
    <2>4. t \in Written
      BY <2>3, FitsIsWritten
    <2>5. AllPrefixes(s, <<e>>, Written) /\ s \o <<e>> = t /\ <<e>> \in Seq(MessageEvents)
      BY <1>1, <2>3, <2>4, WrittenOne
    <2> QED
      BY <2>1, <2>3, <2>5
  <1> QED
    BY <1>2, <1>3

\* An adapter with a new block.
Opened(a, open, text, calls, saw, b) ==
  /\ b \in MessageAdapters
  /\ b.next_index = a.next_index + 1
  /\ b.open = open
  /\ b.text_block_index = text
  /\ b.tool_blocks = calls
  /\ b.saw_tool_call = saw
  /\ b.usage = a.usage
  /\ b.finish_reason = a.finish_reason

LEMMA OpensText ==
  ASSUME NEW a \in MessageAdapters, NEW open \in OpenBlocks
  PROVE  Opened(a, open, a.next_index, a.tool_blocks, a.saw_tool_call,
                [[a EXCEPT !.next_index = @ + 1, !.open = open]
                   EXCEPT !.text_block_index = a.next_index])
  <1> PICK N, T, F, W, U : /\ N = Nat /\ T = Nat \cup {None} /\ F = Words
                           /\ W = BOOLEAN /\ U = 0..MaxData
    OBVIOUS
  <1>1. MessageAdapters = [next_index : N, open : OpenBlocks, text_block_index : T,
                           tool_blocks : Blocks, finish_reason : F, saw_tool_call : W, usage : U]
    BY DEF MessageAdapters
  <1>2. a.next_index \in N /\ a.next_index + 1 \in N /\ a.next_index \in T
    BY <1>1
  <1> QED
    BY ONLY <1>1, <1>2, open \in OpenBlocks, a \in MessageAdapters DEF Opened

LEMMA OpensTool ==
  ASSUME NEW a \in MessageAdapters, NEW open \in OpenBlocks, NEW calls \in Blocks
  PROVE  Opened(a, open, a.text_block_index, calls, TRUE,
                [[[a EXCEPT !.next_index = @ + 1, !.open = open]
                    EXCEPT !.tool_blocks = calls]
                   EXCEPT !.saw_tool_call = TRUE])
  <1> PICK N, T, F, W, U : /\ N = Nat /\ T = Nat \cup {None} /\ F = Words
                           /\ W = BOOLEAN /\ U = 0..MaxData
    OBVIOUS
  <1>1. MessageAdapters = [next_index : N, open : OpenBlocks, text_block_index : T,
                           tool_blocks : Blocks, finish_reason : F, saw_tool_call : W, usage : U]
    BY DEF MessageAdapters
  <1>2. a.next_index \in N /\ a.next_index + 1 \in N /\ TRUE \in W
    BY <1>1
  <1> QED
    BY ONLY <1>1, <1>2, open \in OpenBlocks, calls \in Blocks, a \in MessageAdapters DEF Opened

LEMMA TextLeads ==
  ASSUME NEW s, NEW a \in MessageAdapters, Fits(s, a), NEW delta \in Texts
  PROVE  LET f == MessagesText(a, delta) IN
         /\ Leads(s, a, f.events, f.adapter)
         /\ Adds(s, a.tool_blocks, s \o f.events, f.adapter.tool_blocks, delta, 0, <<>>)
         /\ f.adapter.tool_blocks = a.tool_blocks /\ f.adapter.usage = a.usage
         /\ f.adapter.finish_reason = a.finish_reason
  <1> DEFINE f == MessagesText(a, delta)
             next == a.next_index
             blocks == a.tool_blocks
  <1>1. /\ s \in Seq(MessageEvents) /\ s \in Written /\ next \in Nat /\ blocks \in Blocks
        /\ FitsAt(s, next, a.open, blocks)
    BY FitsIsWritten DEF Fits, FitsAt, Shape
  <1>2. CASE a.open.kind = "text"
    <2> DEFINE b == a.text_block_index
               e == BlockDelta(b, "text", delta)
               t == Append(s, e)
    <2>1. a.open = [index |-> b, kind |-> "text"]
      <3>1. NoBlock.kind = ""
        BY DEF NoBlock
      <3>2. a.open \in [index : Nat, kind : Kinds]
        BY <1>2, <3>1 DEF MessageAdapters, OpenBlocks
      <3>3. b = a.open.index
        BY <1>2 DEF Fits
      <3> QED
        BY <3>2, <3>3, <1>2
    <2>2. f.adapter = a /\ f.events = <<e>>
      BY <1>2 DEF MessagesText, NeedsTextBlock
    <2>3. FitsAt(s, next, [index |-> b, kind |-> "text"], blocks)
      BY <1>1, <2>1
    <2>4. /\ FitsAt(t, next, [index |-> b, kind |-> "text"], blocks)
          /\ e \in MessageEvents
          /\ Adds(s, blocks, t, blocks, delta, 0, <<>>)
      BY <2>3, FitsTextDelta
    <2> HIDE DEF e, f
    <2>5. t \in Written
      BY <2>4, FitsIsWritten
    <2>6. AllPrefixes(s, <<e>>, Written) /\ s \o <<e>> = t /\ <<e>> \in Seq(MessageEvents)
      BY <1>1, <2>4, <2>5, WrittenOne
    <2> HIDE DEF t, b
    <2>7. Fits(t, a)
      BY <2>1, <2>4 DEF Fits
    <2>8. Leads(s, a, <<e>>, a)
      BY <2>6, <2>7 DEF Leads
    <2> QED
      BY <2>2, <2>4, <2>6, <2>8 DEF f
  <1>3. CASE a.open.kind # "text"
    <2> DEFINE c == CloseOpenBlock(a)
               start == BlockStart(next, "text")
               e == BlockDelta(next, "text", delta)
               open == [index |-> next, kind |-> "text"]
               r == s \o c
               u == Append(r, start)
               v == Append(u, e)
    <2>1. f.events = (c \o <<start>>) \o <<e>>
      BY <1>3 DEF MessagesText, NeedsTextBlock
    <2>2. f.adapter = [[a EXCEPT !.next_index = @ + 1, !.open = open]
                          EXCEPT !.text_block_index = next]
      BY <1>3 DEF MessagesText, NeedsTextBlock, Opening
    <2>3. /\ f.adapter \in MessageAdapters /\ f.adapter.next_index = next + 1
          /\ f.adapter.open = open /\ f.adapter.tool_blocks = blocks
          /\ f.adapter.text_block_index = next /\ f.adapter.saw_tool_call = a.saw_tool_call
          /\ f.adapter.usage = a.usage /\ f.adapter.finish_reason = a.finish_reason
      <3> HIDE DEF f
      <3>1. open \in OpenBlocks
        BY <1>1 DEF Kinds, OpenBlocks
      <3> HIDE DEF open
      <3>2. Opened(a, open, next, blocks, a.saw_tool_call, f.adapter)
        BY <2>2, <3>1, OpensText
      <3> HIDE DEF f
      <3> QED
        BY <3>2 DEF Opened
    <2>4. /\ c \in Seq(MessageEvents) /\ AllPrefixes(s, c, Written)
          /\ FitsAt(r, next, NoBlock, blocks) /\ Keeps(s, blocks, r, blocks)
      BY CloseFits
    <2> HIDE DEF c, f
    <2>5. r \in Seq(MessageEvents)
      BY <1>1, <2>4, ConcatProperties
    <2> HIDE DEF r
    <2>6. /\ FitsAt(u, next + 1, open, blocks) /\ start \in MessageEvents
          /\ Keeps(r, blocks, u, blocks)
      BY <2>4, FitsStartText
    <2> HIDE DEF start
    <2>7. u \in Seq(MessageEvents)
      BY <2>5, <2>6, AppendProperties
    <2> HIDE DEF u
    <2>8. /\ FitsAt(v, next + 1, open, blocks) /\ e \in MessageEvents
          /\ Adds(u, blocks, v, blocks, delta, 0, <<>>)
      BY <2>6, FitsTextDelta
    <2> HIDE DEF e
    <2>9. u \in Written /\ v \in Written
      BY <2>6, <2>8, FitsIsWritten
    <2> DEFINE d == c \o <<start>>
    <2>10. /\ AllPrefixes(s, d, Written) /\ s \o d = u
           /\ d \in Seq(MessageEvents)
      BY ZenonT(60), <1>1, <2>4, <2>6, <2>9, WrittenAppend DEF u, r
    <2> HIDE DEF d
    <2>11. /\ AllPrefixes(s, d \o <<e>>, Written) /\ s \o (d \o <<e>>) = v
           /\ d \o <<e>> \in Seq(MessageEvents)
      <3>1. v = Append(u, e)
        BY DEF v
      <3> HIDE DEF v
      <3>2. /\ u = s \o d /\ Append(u, e) \in Written /\ e \in MessageEvents
            /\ s \in Seq(MessageEvents)
        BY <1>1, <2>8, <2>9, <2>10, <3>1
      <3> QED
        BY ONLY ZenonT(60), <2>10, <3>1, <3>2, WrittenAppend
    <2>12. f.events = d \o <<e>>
      BY <2>1 DEF d
    <2> HIDE DEF v, open
    <2>13. Fits(v, f.adapter)
      <3>1. a.saw_tool_call <=> DOMAIN blocks # {}
        BY DEF Fits
      <3>2. open.index = next
        BY DEF open
      <3> QED
        BY <3>1, <3>2, <2>3, <2>8 DEF Fits
    <2>14. Leads(s, a, f.events, f.adapter)
      BY <2>3, <2>11, <2>12, <2>13 DEF Leads
    <2>15. Adds(s, blocks, v, blocks, delta, 0, <<>>)
      BY <2>4, <2>6, <2>8, KeepsThenKeeps, KeepsThenAdds
    <2> QED
      BY <2>3, <2>11, <2>12, <2>14, <2>15 DEF f
  <1> QED
    BY <1>2, <1>3


\* The piece of a call after what opened its block, if that was needed.
LEMMA ToolDeltaLeads ==
  ASSUME NEW s \in Seq(MessageEvents), NEW d \in Seq(MessageEvents),
         AllPrefixes(s, d, Written), NEW u, u = s \o d,
         NEW next, NEW open, NEW blocks, FitsAt(u, next, open, blocks),
         NEW index \in DOMAIN blocks, NEW delta \in Texts
  PROVE  LET g == d \o If(delta # <<>>, BlockDelta(blocks[index], "tool_use", delta)) IN
         /\ g \in Seq(MessageEvents)
         /\ AllPrefixes(s, g, Written)
         /\ FitsAt(s \o g, next, open, blocks)
         /\ Adds(u, blocks, s \o g, blocks, <<>>, index, delta)
  <1> DEFINE e == BlockDelta(blocks[index], "tool_use", delta)
             g == d \o If(delta # <<>>, e)
             v == Append(u, e)
  <1>1. u \in Seq(MessageEvents)
    BY DEF FitsAt, Shape
  <1>2. CASE delta = <<>>
    <2>1. If(delta # <<>>, e) = <<>>
      BY <1>2 DEF If
    <2>2. g = d
      BY <2>1, ConcatEmptySeq
    <2>3. Keeps(u, blocks, u, blocks)
      BY DEF Keeps
    <2>4. Adds(u, blocks, u, blocks, <<>>, index, <<>>)
      BY <1>1, <2>3, KeepsIsAdds
    <2> HIDE DEF g
    <2>5. Adds(u, blocks, s \o g, blocks, <<>>, index, delta)
      BY <1>2, <2>2, <2>4
    <2> QED
      BY <2>2, <2>5 DEF g
  <1>3. CASE delta # <<>>
    <2>1. If(delta # <<>>, e) = <<e>>
      BY <1>3 DEF If
    <2>2. /\ FitsAt(v, next, open, blocks) /\ e \in MessageEvents
          /\ Adds(u, blocks, v, blocks, <<>>, index, delta)
      BY FitsToolDelta
    <2>3. g = d \o <<e>>
      BY <2>1
    <2>4. v = Append(u, e)
      OBVIOUS
    <2> HIDE DEF e, v
    <2>5. v \in Written /\ Append(u, e) \in Written /\ e \in MessageEvents
      BY <2>2, <2>4, FitsIsWritten
    <2>6. AllPrefixes(s, d \o <<e>>, Written) /\ s \o (d \o <<e>>) = v
          /\ d \o <<e>> \in Seq(MessageEvents)
      <3>1. Append(s \o d, e) \in Written
        BY <2>5
      <3>2. AllPrefixes(s, Append(d, e), Written) /\ s \o Append(d, e) = Append(s \o d, e)
        BY <2>5, <3>1, PrefixesAppend
      <3>3. Append(d, e) = d \o <<e>> /\ Append(d, e) \in Seq(MessageEvents)
        BY <2>5, AppendIsConcat, AppendProperties
      <3> QED
        BY <2>4, <3>2, <3>3
    <2> HIDE DEF g
    <2>7. AllPrefixes(s, g, Written) /\ s \o g = v /\ g \in Seq(MessageEvents)
      BY <2>3, <2>6
    <2> QED
      BY <2>2, <2>7 DEF g, e
  <1> QED
    BY <1>2, <1>3

LEMMA ToolLeads ==
  ASSUME NEW s, NEW a \in MessageAdapters, Fits(s, a), NEW index \in Nat, NEW delta \in Texts
  PROVE  LET f == MessagesTool(a, index, delta) IN
         /\ Leads(s, a, f.events, f.adapter)
         /\ Adds(s, a.tool_blocks, s \o f.events, f.adapter.tool_blocks, <<>>, index, delta)
         /\ f.adapter.usage = a.usage /\ f.adapter.finish_reason = a.finish_reason
         /\ DOMAIN f.adapter.tool_blocks = DOMAIN a.tool_blocks \cup {index}
  <1> DEFINE f == MessagesTool(a, index, delta)
             next == a.next_index
             blocks == a.tool_blocks
  <1>1. s \in Seq(MessageEvents) /\ s \in Written /\ next \in Nat /\ blocks \in Blocks
        /\ FitsAt(s, next, a.open, blocks)
    BY FitsIsWritten DEF Fits, MessageAdapters, FitsAt, Shape
  <1>2. CASE index \in DOMAIN blocks
    <2> DEFINE b == [a EXCEPT !.saw_tool_call = TRUE]
               e == If(delta # <<>>, BlockDelta(blocks[index], "tool_use", delta))
    <2>1. /\ b \in MessageAdapters /\ b.tool_blocks = blocks /\ b.next_index = next
          /\ b.open = a.open /\ b.text_block_index = a.text_block_index
          /\ b.usage = a.usage /\ b.finish_reason = a.finish_reason /\ b.saw_tool_call = TRUE
      BY DEF MessageAdapters
    <2>2. f.adapter = b /\ f.events = <<>> \o e
      BY <1>2, <2>1 DEF MessagesTool
    <2> DEFINE g == <<>> \o e
    <2>3. AllPrefixes(s, <<>>, Written) /\ s = s \o <<>> /\ <<>> \in Seq(MessageEvents)
      BY <1>1, PrefixesEmpty
    <2>4. /\ g \in Seq(MessageEvents) /\ AllPrefixes(s, g, Written)
          /\ FitsAt(s \o g, next, a.open, blocks)
          /\ Adds(s, blocks, s \o g, blocks, <<>>, index, delta)
      BY ZenonT(60), <1>1, <1>2, <2>3, ToolDeltaLeads
    <2> HIDE DEF g, b, f
    <2>5. DOMAIN blocks # {} /\ DOMAIN blocks = DOMAIN blocks \cup {index}
      BY <1>2
    <2>6. Fits(s \o g, b)
      BY <2>1, <2>4, <2>5 DEF Fits
    <2>7. f.adapter = b /\ f.events = g
      BY <2>2 DEF g
    <2>8. Leads(s, a, g, b)
      BY <2>1, <2>4, <2>6 DEF Leads
    <2> QED
      BY <2>1, <2>4, <2>5, <2>7, <2>8 DEF f
  <1>3. CASE index \notin DOMAIN blocks
    <2> DEFINE c == CloseOpenBlock(a)
               start == BlockStart(next, "tool_use")
               open == [index |-> next, kind |-> "tool_use"]
               calls == Put(blocks, index, next)
               e == If(delta # <<>>, BlockDelta(calls[index], "tool_use", delta))
               r == s \o c
               u == Append(r, start)
               d == c \o <<start>>
    <2>1. f.adapter = [[[a EXCEPT !.next_index = @ + 1, !.open = open]
                          EXCEPT !.tool_blocks = calls]
                         EXCEPT !.saw_tool_call = TRUE]
      BY <1>3 DEF MessagesTool, Opening
    <2>2. open \in OpenBlocks /\ calls \in Blocks
          /\ DOMAIN calls = DOMAIN blocks \cup {index}
      BY <1>1, PutBlocks DEF OpenBlocks, Kinds
    <2>3. Opened(a, open, a.text_block_index, calls, TRUE, f.adapter)
      <3> HIDE DEF open, calls, f
      <3>1. Opened(a, open, a.text_block_index, calls, TRUE,
                   [[[a EXCEPT !.next_index = @ + 1, !.open = open]
                       EXCEPT !.tool_blocks = calls]
                      EXCEPT !.saw_tool_call = TRUE])
        BY <2>2, OpensTool
      <3> QED
        BY ONLY <2>1, <3>1
    <2>4. f.adapter.tool_blocks = calls
      BY <2>3 DEF Opened
    <2>5. f.events = d \o If(delta # <<>>, BlockDelta(f.adapter.tool_blocks[index], "tool_use", delta))
      BY <1>3 DEF MessagesTool
    <2>6. /\ c \in Seq(MessageEvents) /\ AllPrefixes(s, c, Written)
          /\ FitsAt(r, next, NoBlock, blocks) /\ Keeps(s, blocks, r, blocks)
      BY CloseFits
    <2> HIDE DEF c, f
    <2>7. r \in Seq(MessageEvents)
      BY <1>1, <2>6, ConcatProperties
    <2> HIDE DEF r
    <2>8. /\ FitsAt(u, next + 1, open, calls) /\ start \in MessageEvents
          /\ Keeps(r, blocks, u, calls)
      BY <1>3, <2>6, FitsStartTool
    <2> HIDE DEF start, open
    <2>9. u \in Written
      BY <2>8, FitsIsWritten
    <2>10. /\ AllPrefixes(s, d, Written) /\ s \o d = u /\ d \in Seq(MessageEvents)
      BY ZenonT(60), <1>1, <2>6, <2>8, <2>9, WrittenAppend DEF u, r
    <2> HIDE DEF d, u
    <2> DEFINE g == d \o e
    <2>11. index \in DOMAIN calls
      BY <2>2
    <2> HIDE DEF calls
    <2>12. /\ g \in Seq(MessageEvents) /\ AllPrefixes(s, g, Written)
           /\ FitsAt(s \o g, next + 1, open, calls)
           /\ Adds(u, calls, s \o g, calls, <<>>, index, delta)
      BY <1>1, <2>8, <2>10, <2>11, ToolDeltaLeads
    <2>13. f.events = g
      BY <2>4, <2>5
    <2> HIDE DEF g
    <2>14. Fits(s \o g, f.adapter)
      <3>1. open.kind = "tool_use"
        BY DEF open
      <3>2. DOMAIN calls # {}
        BY <2>11
      <3> QED
        BY <2>3, <2>12, <3>1, <3>2 DEF Fits, Opened
    <2>15. Leads(s, a, g, f.adapter)
      BY <2>3, <2>12, <2>14 DEF Leads, Opened
    <2>16. Adds(s, blocks, s \o g, calls, <<>>, index, delta)
      BY <2>6, <2>8, <2>12, KeepsThenKeeps, KeepsThenAdds
    <2> QED
      BY <2>2, <2>3, <2>13, <2>15, <2>16 DEF f, Opened
  <1> QED
    BY <1>2, <1>3

--------------------------------------------------------------------------------
(***************************************************************************)
(* The events of the parser.                                               *)
(***************************************************************************)
Data ==
  [kind : {"done", "error", "junk"}, at : 0..MaxData]
  \cup [kind : {"chunk"}, at : 1..MaxData, content : BOOLEAN, reasoning : BOOLEAN,
        tools : Seq([index : Nat, args : BOOLEAN]), usage : BOOLEAN, finish : Words]

Lines ==
  [field : {"data"}, data : Data]
  \cup [field : {"blank", "comment", "other"}]
  \cup [field : {"event"}, name : Words]

Parsers == [event : Words, data : Seq(Data), finish : Words]

Canonical ==
  [type : {"usage"}, usage : 1..MaxData]
  \cup [type : {"text", "reasoning"}, delta : Texts \ {<<>>}]
  \cup [type : {"tool"}, index : Nat, delta : Texts]
  \cup [type : {"done"}, finish : Words]
  \cup [type : {"error"}]

\* Those with text, and those with a piece of this call.
Texty == {e \in Canonical : e.type \in {"text", "reasoning"}}
PieceOf(i) == {e \in Canonical : e.type = "tool" /\ e.index = i}

CallsIn(es) == {es[k].index : k \in {j \in 1..Len(es) : es[j].type = "tool"}}

Without(es, type) == \A k \in 1..Len(es) : es[k].type # type

\* What a chunk says.
TextOf(d) == If(d.content, <<d.at, "content">>) \o If(d.reasoning, <<d.at, "reasoning">>)
ArgumentsOf(d, i) ==
  FlattenSeq([k \in 1..Len(d.tools) |->
                If(d.tools[k].index = i /\ d.tools[k].args, <<d.at, "args">>)])
CallsOf(d) == {d.tools[k].index : k \in 1..Len(d.tools)}

LEMMA DeltasOfCanonical == WithText(Texty) /\ \A i : WithText(PieceOf(i))
  <1>1. ASSUME NEW e \in Texty PROVE e.delta \in Texts
    BY DEF Texty, Canonical
  <1>2. ASSUME NEW i, NEW e \in PieceOf(i) PROVE e.delta \in Texts
    BY DEF PieceOf, Canonical
  <1> QED
    BY <1>1, <1>2 DEF WithText

\* The joined text of two sequences.
LEMMA JoinedConcat ==
  ASSUME NEW E, NEW s \in Seq(E), NEW t \in Seq(E), NEW M, WithText(M)
  PROVE  Joined(s \o t, M) = Joined(s, M) \o Joined(t, M)
  <1>1. /\ s \o t \in Seq(E) /\ Len(s \o t) = Len(s) + Len(t)
        /\ Len(s) \in Nat /\ Len(t) \in Nat
    BY ConcatProperties, LenProperties
  <1>2. /\ Pieces(s, M) \in Seq(Texts) /\ Len(Pieces(s, M)) = Len(s)
        /\ \A k \in 1..Len(s) : Pieces(s, M)[k] = IF s[k] \in M THEN s[k].delta ELSE <<>>
    BY PiecesType
  <1>3. /\ Pieces(t, M) \in Seq(Texts) /\ Len(Pieces(t, M)) = Len(t)
        /\ \A k \in 1..Len(t) : Pieces(t, M)[k] = IF t[k] \in M THEN t[k].delta ELSE <<>>
    BY PiecesType
  <1> DEFINE u == s \o t
             p == Pieces(s, M)
             q == Pieces(t, M)
             r == Pieces(u, M)
  <1>4. \A k \in 1..Len(u) : u[k] = IF k <= Len(s) THEN s[k] ELSE t[k - Len(s)]
    BY ConcatProperties
  <1> HIDE DEF u
  <1>5. /\ r \in Seq(Texts) /\ Len(r) = Len(u)
        /\ \A k \in 1..Len(u) : r[k] = IF u[k] \in M THEN u[k].delta ELSE <<>>
    BY <1>1, PiecesType DEF u
  <1>7. Len(u) = Len(s) + Len(t)
    BY <1>1 DEF u
  <1>12. p \in Seq(Texts) /\ q \in Seq(Texts)
    BY <1>2, <1>3
  <1> HIDE DEF p, q, r
  <1>6. /\ p \o q \in Seq(Texts) /\ Len(p \o q) = Len(p) + Len(q)
        /\ \A k \in 1..Len(p) + Len(q) : (p \o q)[k] = IF k <= Len(p) THEN p[k] ELSE q[k - Len(p)]
    BY ONLY <1>12, ConcatProperties
  <1>8. ASSUME NEW k \in 1..Len(u) PROVE r[k] = (p \o q)[k]
    <2>1. CASE k <= Len(s)
      <3>1. k \in 1..Len(s)
        BY <1>1, <1>7, <2>1
      <3> QED
        BY <1>1, <1>2, <1>3, <1>4, <1>5, <1>6, <1>7, <2>1, <3>1 DEF p, q
    <2>2. CASE ~(k <= Len(s))
      <3>1. k - Len(s) \in 1..Len(t)
        BY <1>1, <1>7, <2>2
      <3> QED
        BY <1>1, <1>2, <1>3, <1>4, <1>5, <1>6, <1>7, <2>2, <3>1 DEF p, q
    <2> QED
      BY <2>1, <2>2
  <1>9. Len(r) = Len(p \o q)
    BY <1>1, <1>2, <1>3, <1>5, <1>6, <1>7 DEF p, q
  <1>10. r = p \o q
    BY <1>5, <1>6, <1>8, <1>9, SeqEqual
  <1>11. FlattenSeq(p \o q) = FlattenSeq(p) \o FlattenSeq(q)
    BY <1>2, <1>3, FlattenConcat DEF p, q, Texts
  <1> QED
    BY <1>10, <1>11 DEF Joined, p, q, r, u

LEMMA JoinedIf ==
  ASSUME NEW E, NEW e \in E, NEW c \in BOOLEAN, NEW M, WithText(M)
  PROVE  /\ If(c, e) \in Seq(E)
         /\ Joined(If(c, e), M) = IF c /\ e \in M THEN e.delta ELSE <<>>
  <1>1. Joined(<<>>, M) = <<>>
    BY FlattenEmpty DEF Joined, Pieces
  <1>2. CASE ~c
    BY <1>1, <1>2 DEF If
  <1>3. CASE c
    <2>1. <<e>> = Append(<<>>, e) /\ <<>> \in Seq(E) /\ <<e>> \in Seq(E)
      OBVIOUS
    <2>2. Joined(<<e>>, M) = Joined(<<>>, M) \o (IF e \in M THEN e.delta ELSE <<>>)
      BY ZenonT(60), <2>1, JoinedAppend
    <2>3. (IF e \in M THEN e.delta ELSE <<>>) \in Texts
      BY EmptySeq DEF WithText, Texts
    <2>4. <<>> \o (IF e \in M THEN e.delta ELSE <<>>) = IF e \in M THEN e.delta ELSE <<>>
      BY <2>3, ConcatEmptySeq DEF Texts
    <2>5. If(c, e) = <<e>>
      BY <1>3 DEF If
    <2> QED
      BY <1>1, <1>3, <2>1, <2>2, <2>4, <2>5
  <1> QED
    BY <1>2, <1>3

\* The four parts of a chunk's events.
UsagePart(d) == If(d.usage, [type |-> "usage", usage |-> d.at])
TextPart(d) == If(d.content, [type |-> "text", delta |-> <<<<d.at, "content">>>>])
ReasoningPart(d) == If(d.reasoning, [type |-> "reasoning", delta |-> <<<<d.at, "reasoning">>>>])
ToolEvent(d, k) ==
  [type |-> "tool", index |-> d.tools[k].index, delta |-> If(d.tools[k].args, <<d.at, "args">>)]
ToolPart(d) == [k \in 1..Len(d.tools) |-> ToolEvent(d, k)]

Chunks == {d \in Data : d.kind = "chunk"}

LEMMA ChunkParts ==
  ASSUME NEW d \in Chunks
  PROVE  /\ ChunkEvents(d) = ((UsagePart(d) \o TextPart(d)) \o ReasoningPart(d)) \o ToolPart(d)
         /\ [type |-> "usage", usage |-> d.at] \in Canonical
         /\ [type |-> "text", delta |-> <<<<d.at, "content">>>>] \in Texty
         /\ [type |-> "reasoning", delta |-> <<<<d.at, "reasoning">>>>] \in Texty
         /\ \A k \in 1..Len(d.tools) :
              /\ ToolEvent(d, k) \in Canonical
              /\ \A i : (ToolEvent(d, k) \in PieceOf(i)) <=> (d.tools[k].index = i)
         /\ d.content \in BOOLEAN /\ d.reasoning \in BOOLEAN /\ d.usage \in BOOLEAN
         /\ d.at \in 1..MaxData /\ Len(d.tools) \in Nat /\ d.finish \in Words
         /\ \A k \in 1..Len(d.tools) : d.tools[k].index \in Nat
  <1>1. /\ d.content \in BOOLEAN /\ d.reasoning \in BOOLEAN /\ d.usage \in BOOLEAN
        /\ d.at \in 1..MaxData /\ d.tools \in Seq([index : Nat, args : BOOLEAN])
        /\ d.finish \in Words
    BY DEF Chunks, Data
  <1>2. /\ <<<<d.at, "content">>>> \in Texts \ {<<>>}
        /\ <<<<d.at, "reasoning">>>> \in Texts \ {<<>>}
        /\ <<<<d.at, "args">>>> \in Texts /\ <<>> \in Texts
    BY <1>1 DEF Texts
  <1>3. ASSUME NEW k \in 1..Len(d.tools)
        PROVE  /\ ToolEvent(d, k) \in Canonical /\ d.tools[k].index \in Nat
               /\ \A i : (ToolEvent(d, k) \in PieceOf(i)) <=> (d.tools[k].index = i)
    <2>1. d.tools[k] \in [index : Nat, args : BOOLEAN]
      BY <1>1, ElementOfSeq
    <2>2. If(d.tools[k].args, <<d.at, "args">>) \in Texts
      BY <1>2 DEF If
    <2>3. ToolEvent(d, k) \in Canonical
      BY <2>1, <2>2 DEF ToolEvent, Canonical
    <2> QED
      BY <2>1, <2>3 DEF PieceOf, ToolEvent
  <1> QED
    BY <1>1, <1>2, <1>3, LenProperties
       DEF ChunkEvents, UsagePart, TextPart, ReasoningPart, ToolPart, ToolEvent, Texty, Canonical

LEMMA ToolPartTells ==
  ASSUME NEW d \in Chunks
  PROVE  /\ ToolPart(d) \in Seq(Canonical)
         /\ Joined(ToolPart(d), Texty) = <<>>
         /\ \A i : Joined(ToolPart(d), PieceOf(i)) = ArgumentsOf(d, i)
  <1>1. /\ ToolPart(d) \in Seq(Canonical) /\ Len(ToolPart(d)) = Len(d.tools)
        /\ \A k \in 1..Len(d.tools) : ToolPart(d)[k] = ToolEvent(d, k)
    <2>1. Len(d.tools) \in Nat /\ \A k \in 1..Len(d.tools) : ToolEvent(d, k) \in Canonical
      BY ChunkParts
    <2> DEFINE n == Len(d.tools)
               g == ToolPart(d)
    <2>2. g = [k \in 1..n |-> ToolEvent(d, k)]
      BY DEF ToolPart
    <2> HIDE DEF g, n
    <2>3. n \in Nat /\ \A k \in 1..n : ToolEvent(d, k) \in Canonical
      BY <2>1 DEF n
    <2>4. g \in Seq(Canonical) /\ Len(g) = n /\ \A k \in 1..n : g[k] = ToolEvent(d, k)
      BY <2>2, <2>3
    <2> QED
      BY <2>4 DEF g, n
  <1>2. ASSUME NEW k \in 1..Len(ToolPart(d)) PROVE ToolPart(d)[k] \notin Texty
    <2>1. ToolPart(d)[k] = ToolEvent(d, k)
      BY <1>1
    <2>2. ToolPart(d)[k].type = "tool"
      BY <2>1 DEF ToolEvent
    <2> QED
      BY <2>2 DEF Texty
  <1>3. Joined(ToolPart(d), Texty) = <<>>
    BY <1>1, <1>2, JoinedNothing, DeltasOfCanonical
  <1>4. ASSUME NEW i PROVE Joined(ToolPart(d), PieceOf(i)) = ArgumentsOf(d, i)
    <2>1. ASSUME NEW k \in 1..Len(d.tools)
          PROVE  (IF ToolPart(d)[k] \in PieceOf(i) THEN ToolPart(d)[k].delta ELSE <<>>)
                   = If(d.tools[k].index = i /\ d.tools[k].args, <<d.at, "args">>)
      <3>1. ToolPart(d)[k] = ToolEvent(d, k)
        BY <1>1
      <3>2. ToolEvent(d, k) \in PieceOf(i) <=> d.tools[k].index = i
        BY ChunkParts
      <3>3. ToolEvent(d, k).delta = If(d.tools[k].args, <<d.at, "args">>)
        BY DEF ToolEvent
      <3> QED
        BY <3>1, <3>2, <3>3 DEF If
    <2>2. Pieces(ToolPart(d), PieceOf(i))
            = [k \in 1..Len(d.tools) |->
                 If(d.tools[k].index = i /\ d.tools[k].args, <<d.at, "args">>)]
      BY <1>1, <2>1 DEF Pieces
    <2> QED
      BY <2>2 DEF Joined, ArgumentsOf
  <1> QED
    BY <1>1, <1>3, <1>4

LEMMA ChunkJoined ==
  ASSUME NEW d \in Chunks, NEW M, WithText(M)
  PROVE  /\ UsagePart(d) \in Seq(Canonical) /\ TextPart(d) \in Seq(Canonical)
         /\ ReasoningPart(d) \in Seq(Canonical) /\ ChunkEvents(d) \in Seq(Canonical)
         /\ Joined(ChunkEvents(d), M)
              = ((Joined(UsagePart(d), M) \o Joined(TextPart(d), M))
                   \o Joined(ReasoningPart(d), M)) \o Joined(ToolPart(d), M)
  <1> DEFINE u == UsagePart(d)
             t == TextPart(d)
             r == ReasoningPart(d)
             g == ToolPart(d)
  <1>1. ChunkEvents(d) = ((u \o t) \o r) \o g
    BY ChunkParts
  <1>2. u \in Seq(Canonical) /\ t \in Seq(Canonical) /\ r \in Seq(Canonical)
    <2>1. /\ [type |-> "usage", usage |-> d.at] \in Canonical
          /\ [type |-> "text", delta |-> <<<<d.at, "content">>>>] \in Canonical
          /\ [type |-> "reasoning", delta |-> <<<<d.at, "reasoning">>>>] \in Canonical
      BY ChunkParts DEF Texty
    <2>2. ASSUME NEW c, NEW e \in Canonical PROVE If(c, e) \in Seq(Canonical)
      BY DEF If
    <2> QED
      BY <2>1, <2>2 DEF UsagePart, TextPart, ReasoningPart
  <1>3. g \in Seq(Canonical)
    BY ToolPartTells
  <1> HIDE DEF u, t, r, g
  <1>4. /\ u \o t \in Seq(Canonical) /\ (u \o t) \o r \in Seq(Canonical)
        /\ ((u \o t) \o r) \o g \in Seq(Canonical)
    BY <1>2, <1>3, ConcatProperties
  <1>5. Joined(u \o t, M) = Joined(u, M) \o Joined(t, M)
    BY <1>2, JoinedConcat
  <1> DEFINE v == u \o t
             w == v \o r
  <1>6. v \in Seq(Canonical) /\ w \in Seq(Canonical)
    BY <1>4
  <1> HIDE DEF v
  <1>7. Joined(v \o r, M) = Joined(v, M) \o Joined(r, M)
    BY SMTT(30), <1>2, <1>6, JoinedConcat
  <1> HIDE DEF w
  <1>8. Joined(w \o g, M) = Joined(w, M) \o Joined(g, M)
    BY <1>3, <1>6, JoinedConcat
  <1>9. Joined(ChunkEvents(d), M)
          = ((Joined(u, M) \o Joined(t, M)) \o Joined(r, M)) \o Joined(g, M)
    BY <1>1, <1>5, <1>6, <1>7, <1>8 DEF v, w
  <1> QED
    BY <1>1, <1>2, <1>4, <1>9 DEF u, t, r, g

\* What the events of a chunk say.
LEMMA ChunkTells ==
  ASSUME NEW d \in Chunks
  PROVE  /\ ChunkEvents(d) \in Seq(Canonical)
         /\ Joined(ChunkEvents(d), Texty) = TextOf(d) /\ TextOf(d) \in Texts
         /\ \A i : Joined(ChunkEvents(d), PieceOf(i)) = ArgumentsOf(d, i)
         /\ \A i : ArgumentsOf(d, i) \in Texts
  <1> DEFINE eu == [type |-> "usage", usage |-> d.at]
             et == [type |-> "text", delta |-> <<<<d.at, "content">>>>]
             er == [type |-> "reasoning", delta |-> <<<<d.at, "reasoning">>>>]
  <1>1. /\ eu \in Canonical /\ et \in Canonical /\ er \in Canonical
        /\ et \in Texty /\ er \in Texty
        /\ d.content \in BOOLEAN /\ d.reasoning \in BOOLEAN /\ d.usage \in BOOLEAN
    BY ChunkParts DEF Texty
  <1>2. /\ eu \notin Texty
        /\ \A i : eu \notin PieceOf(i) /\ et \notin PieceOf(i) /\ er \notin PieceOf(i)
    BY DEF Texty, PieceOf
  <1>3. /\ UsagePart(d) = If(d.usage, eu) /\ TextPart(d) = If(d.content, et)
        /\ ReasoningPart(d) = If(d.reasoning, er)
        /\ et.delta = <<<<d.at, "content">>>> /\ er.delta = <<<<d.at, "reasoning">>>>
    BY DEF UsagePart, TextPart, ReasoningPart
  <1>4. \A x \in Texts : <<>> \o x = x /\ x \o <<>> = x
    BY ConcatEmptySeq DEF Texts
  <1>5. <<>> \in Texts
    BY EmptySeq DEF Texts
  <1> HIDE DEF eu, et, er
  <1>6. Joined(ChunkEvents(d), Texty) = TextOf(d) /\ TextOf(d) \in Texts
    <2>1. WithText(Texty)
      BY DeltasOfCanonical
    <2>2. Joined(UsagePart(d), Texty) = <<>>
      BY <1>1, <1>2, <1>3, <2>1, JoinedIf
    <2>3. Joined(TextPart(d), Texty) = If(d.content, <<d.at, "content">>)
      <3>1. Joined(If(d.content, et), Texty) = IF d.content /\ et \in Texty THEN et.delta ELSE <<>>
        BY ZenonT(60), <1>1, <2>1, JoinedIf
      <3> QED
        BY <1>1, <1>3, <3>1 DEF If
    <2>4. Joined(ReasoningPart(d), Texty) = If(d.reasoning, <<d.at, "reasoning">>)
      <3>1. Joined(If(d.reasoning, er), Texty) = IF d.reasoning /\ er \in Texty THEN er.delta ELSE <<>>
        BY <1>1, <2>1, JoinedIf
      <3> QED
        BY <1>1, <1>3, <3>1 DEF If
    <2>5. Joined(ToolPart(d), Texty) = <<>>
      BY ToolPartTells
    <2>6. /\ Joined(ChunkEvents(d), Texty)
                = ((Joined(UsagePart(d), Texty) \o Joined(TextPart(d), Texty))
                     \o Joined(ReasoningPart(d), Texty)) \o Joined(ToolPart(d), Texty)
          /\ TextPart(d) \in Seq(Canonical) /\ ReasoningPart(d) \in Seq(Canonical)
      BY <2>1, ChunkJoined
    <2>7. Joined(TextPart(d), Texty) \in Texts /\ Joined(ReasoningPart(d), Texty) \in Texts
      BY <2>1, <2>6, JoinedType
    <2>8. TextOf(d) = Joined(TextPart(d), Texty) \o Joined(ReasoningPart(d), Texty)
      BY <2>3, <2>4 DEF TextOf
    <2>9. TextOf(d) \in Texts
      BY <2>7, <2>8, ConcatProperties DEF Texts
    <2> QED
      BY <1>4, <2>2, <2>5, <2>6, <2>7, <2>8, <2>9
  <1>7. ASSUME NEW i
        PROVE  Joined(ChunkEvents(d), PieceOf(i)) = ArgumentsOf(d, i) /\ ArgumentsOf(d, i) \in Texts
    <2> DEFINE M == PieceOf(i)
    <2>1. WithText(M)
      BY DeltasOfCanonical
    <2>2. eu \notin M /\ et \notin M /\ er \notin M
      BY <1>2
    <2>3. Joined(ToolPart(d), M) = ArgumentsOf(d, i) /\ ToolPart(d) \in Seq(Canonical)
      BY ToolPartTells
    <2> HIDE DEF M
    <2>4. Joined(UsagePart(d), M) = <<>> /\ Joined(TextPart(d), M) = <<>>
          /\ Joined(ReasoningPart(d), M) = <<>>
      BY <1>1, <1>3, <2>1, <2>2, JoinedIf
    <2>5. Joined(ToolPart(d), M) \in Texts
      BY <2>1, <2>3, JoinedType
    <2>6. Joined(ChunkEvents(d), M) = ((<<>> \o <<>>) \o <<>>) \o Joined(ToolPart(d), M)
      BY <2>1, <2>4, ChunkJoined
    <2> QED
      BY <1>4, <1>5, <2>3, <2>5, <2>6 DEF M
  <1>8. ChunkEvents(d) \in Seq(Canonical)
    BY DeltasOfCanonical, ChunkJoined
  <1> QED
    BY <1>6, <1>7, <1>8


LEMMA TypesConcat ==
  ASSUME NEW s \in Seq(Canonical), NEW t \in Seq(Canonical)
  PROVE  /\ \A type : Without(s, type) /\ Without(t, type) => Without(s \o t, type)
         /\ CallsIn(s \o t) = CallsIn(s) \cup CallsIn(t)
  <1>1. /\ Len(s \o t) = Len(s) + Len(t) /\ Len(s) \in Nat /\ Len(t) \in Nat
        /\ \A k \in 1..Len(s) + Len(t) : (s \o t)[k] = IF k <= Len(s) THEN s[k] ELSE t[k - Len(s)]
    BY ConcatProperties, LenProperties
  <1> DEFINE u == s \o t
  <1>2. \A k \in 1..Len(s) : k \in 1..Len(u) /\ u[k] = s[k]
    BY <1>1
  <1>3. \A k \in 1..Len(t) : k + Len(s) \in 1..Len(u) /\ u[k + Len(s)] = t[k]
    BY <1>1
  <1>4. ASSUME NEW k \in 1..Len(u)
        PROVE  k \in 1..Len(s) \/ \E j \in 1..Len(t) : k = j + Len(s)
    <2>1. CASE k <= Len(s)
      BY <1>1, <2>1
    <2>2. CASE ~(k <= Len(s))
      <3>1. k - Len(s) \in 1..Len(t) /\ k = (k - Len(s)) + Len(s)
        BY <1>1, <2>2
      <3> QED
        BY <3>1
    <2> QED
      BY <2>1, <2>2
  <1> HIDE DEF u
  <1>5. ASSUME NEW type, Without(s, type), Without(t, type) PROVE Without(u, type)
    <2>1. ASSUME NEW k \in 1..Len(u) PROVE u[k].type # type
      <3>1. CASE k \in 1..Len(s)
        BY <1>2, <1>5, <3>1 DEF Without
      <3>2. CASE \E j \in 1..Len(t) : k = j + Len(s)
        BY <1>3, <1>5, <3>2 DEF Without
      <3> QED
        BY <1>4, <3>1, <3>2
    <2> QED
      BY <2>1 DEF Without
  <1>6. CallsIn(u) \subseteq CallsIn(s) \cup CallsIn(t)
    <2> SUFFICES ASSUME NEW k \in 1..Len(u), u[k].type = "tool"
                 PROVE  u[k].index \in CallsIn(s) \cup CallsIn(t)
      BY DEF CallsIn
    <2>1. CASE k \in 1..Len(s)
      BY <1>2, <2>1 DEF CallsIn
    <2>2. CASE \E j \in 1..Len(t) : k = j + Len(s)
      BY <1>3, <2>2 DEF CallsIn
    <2> QED
      BY <1>4, <2>1, <2>2
  <1>7. CallsIn(s) \subseteq CallsIn(u)
    BY <1>2 DEF CallsIn
  <1>8. CallsIn(t) \subseteq CallsIn(u)
    BY <1>3 DEF CallsIn
  <1> QED
    BY <1>5, <1>6, <1>7, <1>8 DEF u

LEMMA TypesIf ==
  ASSUME NEW c, NEW e
  PROVE  /\ \A type : e.type # type => Without(If(c, e), type)
         /\ e.type # "tool" => CallsIn(If(c, e)) = {}
  BY DEF If, Without, CallsIn

\* What the client will hear of the usage: the last report comes first.
UsageTold(usage, es, last) ==
  \/ Without(es, "usage") /\ usage = last
  \/ \E rest \in Seq(Canonical) :
       Without(rest, "usage") /\ es = <<[type |-> "usage", usage |-> last]>> \o rest

\* Which calls the events of a chunk name, and where its usage stands.
LEMMA ChunkOrder ==
  ASSUME NEW d \in Chunks, NEW usage
  PROVE  /\ CallsIn(ChunkEvents(d)) = CallsOf(d)
         /\ Without(ChunkEvents(d), "done")
         /\ UsageTold(usage, ChunkEvents(d), IF d.usage THEN d.at ELSE usage)
  <1> DEFINE u == UsagePart(d)
             t == TextPart(d)
             r == ReasoningPart(d)
             g == ToolPart(d)
  <1>1. ChunkEvents(d) = ((u \o t) \o r) \o g
    BY ChunkParts
  <1>2. u \in Seq(Canonical) /\ t \in Seq(Canonical) /\ r \in Seq(Canonical) /\ g \in Seq(Canonical)
    BY ChunkJoined, ToolPartTells, DeltasOfCanonical
  <1>3. /\ CallsIn(u) = {} /\ CallsIn(t) = {} /\ CallsIn(r) = {}
        /\ Without(u, "done") /\ Without(t, "done") /\ Without(r, "done")
        /\ Without(t, "usage") /\ Without(r, "usage")
    BY TypesIf DEF UsagePart, TextPart, ReasoningPart
  <1>4. Len(g) = Len(d.tools) /\ \A k \in 1..Len(d.tools) : g[k] = ToolEvent(d, k)
    BY ChunkParts DEF ToolPart
  <1>5. ASSUME NEW k \in 1..Len(d.tools)
        PROVE  g[k].type = "tool" /\ g[k].index = d.tools[k].index
    <2>1. g[k] = ToolEvent(d, k)
      BY <1>4
    <2> QED
      BY <2>1 DEF ToolEvent
  <1>6. u = IF d.usage THEN <<[type |-> "usage", usage |-> d.at]>> ELSE <<>>
    BY DEF UsagePart, If
  <1> HIDE DEF u, t, r, g
  <1>7. CallsIn(g) = CallsOf(d) /\ Without(g, "done") /\ Without(g, "usage")
    BY <1>4, <1>5 DEF CallsIn, CallsOf, Without
  <1> DEFINE v == t \o r
             rest == v \o g
  <1>8. v \in Seq(Canonical) /\ rest \in Seq(Canonical)
    BY <1>2, ConcatProperties
  <1>10. CallsIn(v) = {} /\ Without(v, "done") /\ Without(v, "usage")
    BY <1>2, <1>3, TypesConcat
  <1>9. ChunkEvents(d) = u \o rest
    <2>1. (u \o t) \o r = u \o v
      BY ONLY SMTT(30), <1>2, ConcatAssociative
    <2> HIDE DEF v
    <2>2. (u \o v) \o g = u \o (v \o g)
      BY ONLY SMTT(30), <1>2, <1>8, ConcatAssociative
    <2> QED
      BY <1>1, <2>1, <2>2
  <1> HIDE DEF v
  <1>11. CallsIn(rest) = CallsOf(d) /\ Without(rest, "done") /\ Without(rest, "usage")
    BY ZenonT(60), <1>2, <1>7, <1>8, <1>10, TypesConcat
  <1> HIDE DEF rest
  <1>12. CallsIn(u \o rest) = CallsOf(d) /\ Without(u \o rest, "done")
    <2>1. u \in Seq(Canonical) /\ rest \in Seq(Canonical)
      BY <1>2, <1>8
    <2>2. CallsIn(u \o rest) = CallsIn(u) \cup CallsIn(rest)
      BY <2>1, TypesConcat
    <2>3. Without(u, "done") /\ Without(rest, "done") => Without(u \o rest, "done")
      BY <2>1, TypesConcat
    <2> QED
      BY <1>3, <1>11, <2>2, <2>3
  <1>13. UsageTold(usage, u \o rest, IF d.usage THEN d.at ELSE usage)
    <2>1. CASE d.usage
      <3>1. u = <<[type |-> "usage", usage |-> d.at]>>
        BY <1>6, <2>1
      <3> QED
        BY <1>8, <1>11, <2>1, <3>1 DEF UsageTold
    <2>2. CASE ~d.usage
      <3>1. u \o rest = rest
        BY <1>6, <1>8, <2>2, ConcatEmptySeq
      <3> QED
        BY <1>11, <2>2, <3>1 DEF UsageTold
    <2> QED
      BY <2>1, <2>2
  <1> QED
    BY <1>9, <1>12, <1>13

Idle(p) == [p EXCEPT !.event = "", !.data = <<>>]

LEMMA IdleType ==
  ASSUME NEW p \in Parsers
  PROVE  /\ Idle(p) \in Parsers /\ Idle(p).data = <<>> /\ Idle(p).event = ""
         /\ Idle(p).finish = p.finish
  <1> PICK D, S : D = Seq(Data) /\ S = Words
    OBVIOUS
  <1>1. Parsers = [event : S, data : D, finish : S]
    BY DEF Parsers
  <1>3. <<>> \in Seq(Data)
    BY ONLY EmptySeq
  <1>4. "" \in Words
    BY ONLY TRUE DEF Words
  <1>2. <<>> \in D /\ "" \in S
    BY <1>3, <1>4
  <1> QED
    BY ONLY <1>1, <1>2, p \in Parsers DEF Idle

LEMMA IdleFinish ==
  ASSUME NEW p \in Parsers, NEW finish \in Words
  PROVE  LET q == [Idle(p) EXCEPT !.finish = finish] IN
         q \in Parsers /\ q.data = <<>> /\ q.event = "" /\ q.finish = finish
  <1> PICK D, S : D = Seq(Data) /\ S = Words
    OBVIOUS
  <1>1. Parsers = [event : S, data : D, finish : S] /\ finish \in S
    BY DEF Parsers
  <1>2. Idle(p) \in Parsers /\ Idle(p).data = <<>> /\ Idle(p).event = ""
    BY IdleType
  <1> QED
    BY ONLY <1>1, <1>2

\* What flush_data makes of what is buffered.
LEMMA FlushTells ==
  ASSUME NEW p \in Parsers
  PROVE  LET f == Flush(p)
             d == p.data[1]
         IN  /\ Len(p.data) # 1 => f.parser = Idle(p) /\ f.events = <<>>
             /\ Len(p.data) = 1 =>
                  /\ d \in Data
                  /\ d.kind = "done" =>
                       f.parser = Idle(p) /\ f.events = <<[type |-> "done", finish |-> p.finish]>>
                  /\ d.kind = "junk" => f.parser = Idle(p) /\ f.events = <<>>
                  /\ d.kind \in {"error", "chunk"} /\ p.event \notin {"", "message"} =>
                       f.parser = Idle(p) /\ f.events = <<>>
                  /\ d.kind = "error" /\ p.event \in {"", "message"} =>
                       f.parser = Idle(p) /\ f.events = <<[type |-> "error"]>>
                  /\ d.kind = "chunk" /\ p.event \in {"", "message"} =>
                       /\ d \in Chunks /\ f.events = ChunkEvents(d)
                       /\ f.parser = [Idle(p) EXCEPT !.finish = LastFinish(p, d)]
                  /\ d.kind \in {"done", "junk", "error", "chunk"}
  <1>1. p.data \in Seq(Data) /\ Len(p.data) \in Nat
    BY LenProperties DEF Parsers
  <1>2. Len(p.data) = 1 => p.data[1] \in Data
    BY <1>1, ElementOfSeq
  <1>3. \A d \in Data : d.kind \in {"done", "junk", "error", "chunk"} /\ (d.kind = "chunk" => d \in Chunks)
    BY DEF Data, Chunks
  <1> QED
    BY <1>2, <1>3 DEF Flush, Idle

LEMMA FlushTypes ==
  ASSUME NEW p \in Parsers
  PROVE  /\ Flush(p).parser \in Parsers
         /\ Flush(p).parser.data = <<>>
         /\ Flush(p).events \in Seq(Canonical)
  <1> DEFINE f == Flush(p)
             d == p.data[1]
  <1>1. p.finish \in Words /\ p.event \in Words
    BY DEF Parsers
  <1>2. Idle(p) \in Parsers /\ Idle(p).data = <<>> /\ <<>> \in Seq(Canonical)
    BY IdleType, EmptySeq
  <1>3. \/ f.parser = Idle(p) /\ f.events = <<>>
        \/ f.parser = Idle(p) /\ f.events = <<[type |-> "done", finish |-> p.finish]>>
        \/ f.parser = Idle(p) /\ f.events = <<[type |-> "error"]>>
        \/ /\ d \in Chunks /\ f.events = ChunkEvents(d)
           /\ f.parser = [Idle(p) EXCEPT !.finish = LastFinish(p, d)]
    BY FlushTells
  <1> HIDE DEF f, d
  <1>4. CASE f.parser = Idle(p) /\ f.events = <<>>
    BY <1>2, <1>4 DEF f
  <1>5. CASE f.parser = Idle(p) /\ f.events = <<[type |-> "done", finish |-> p.finish]>>
    <2>1. [type |-> "done", finish |-> p.finish] \in Canonical
      BY <1>1 DEF Canonical
    <2>2. <<[type |-> "done", finish |-> p.finish]>> \in Seq(Canonical)
      BY <2>1
    <2> QED
      BY <1>2, <1>5, <2>2 DEF f
  <1>6. CASE f.parser = Idle(p) /\ f.events = <<[type |-> "error"]>>
    <2>1. [type |-> "error"] \in Canonical
      BY DEF Canonical
    <2>2. <<[type |-> "error"]>> \in Seq(Canonical)
      BY <2>1
    <2> QED
      BY <1>2, <1>6, <2>2 DEF f
  <1>7. CASE /\ d \in Chunks /\ f.events = ChunkEvents(d)
             /\ f.parser = [Idle(p) EXCEPT !.finish = LastFinish(p, d)]
    <2>1. LastFinish(p, d) \in Words
      BY <1>1, <1>7, ChunkParts DEF LastFinish
    <2>2. f.events \in Seq(Canonical)
      BY <1>7, ChunkTells
    <2> DEFINE q == [Idle(p) EXCEPT !.finish = LastFinish(p, d)]
    <2>3. q \in Parsers /\ q.data = <<>>
      BY <2>1, IdleFinish
    <2>4. f.parser = q
      BY <1>7
    <2>5. f.parser \in Parsers /\ f.parser.data = <<>>
      BY <2>3, <2>4
    <2> QED
      BY <2>2, <2>5 DEF f
  <1> QED
    BY <1>3, <1>4, <1>5, <1>6, <1>7

LEMMA ParseTypes ==
  ASSUME NEW p \in Parsers, NEW line \in Lines
  PROVE  LET f == ParseLine(p, line) IN
         /\ f.parser \in Parsers
         /\ f.events \in Seq(Canonical)
         /\ f.events # <<>> => f.parser.data = <<>>
  <1> DEFINE f == ParseLine(p, line)
  <1> PICK D, S : D = Seq(Data) /\ S = Words
    OBVIOUS
  <1>1. Parsers = [event : S, data : D, finish : S]
    BY DEF Parsers
  <1>2. ASSUME NEW d \in Data PROVE [p EXCEPT !.data = Append(@, d)] \in Parsers
    <2>1. p.data \in D /\ Append(p.data, d) \in D
      BY <1>1, AppendProperties
    <2> QED
      BY ONLY <1>1, <2>1, p \in Parsers
  <1>9. p \in Parsers /\ <<>> \in Seq(Canonical)
    BY EmptySeq
  <1>3. line.field \in {"data", "blank", "event", "comment", "other"}
    BY DEF Lines
  <1>4. CASE line.field = "data"
    <2>1. line.data \in Data
      BY <1>4 DEF Lines
    <2>2. f = [parser |-> [p EXCEPT !.data = Append(@, line.data)], events |-> <<>>]
      BY <1>4 DEF ParseLine
    <2>3. [p EXCEPT !.data = Append(@, line.data)] \in Parsers
      BY <1>2, <2>1
    <2> QED
      BY <1>9, <2>2, <2>3
  <1>5. CASE line.field = "blank"
    BY <1>5, FlushTypes DEF ParseLine
  <1>6. CASE line.field = "event"
    <2> DEFINE g == Flush(p)
    <2>1. line.name \in S
      BY <1>6 DEF Lines
    <2>2. g.parser \in Parsers /\ g.parser.data = <<>> /\ g.events \in Seq(Canonical)
      BY FlushTypes
    <2>3. f = [g EXCEPT !.parser.event = line.name]
      BY <1>6 DEF ParseLine
    <2>4. g = [parser |-> g.parser, events |-> g.events]
      BY DEF Flush
    <2> HIDE DEF g, f
    <2>5. f.events = g.events /\ f.parser = [g.parser EXCEPT !.event = line.name]
      BY <2>3, <2>4
    <2>6. [g.parser EXCEPT !.event = line.name] \in Parsers
          /\ [g.parser EXCEPT !.event = line.name].data = <<>>
      BY ONLY <1>1, <2>1, <2>2
    <2> QED
      BY <2>2, <2>5, <2>6 DEF f
  <1>7. CASE line.field = "comment"
    <2>1. f = [parser |-> p, events |-> <<>>]
      BY <1>7 DEF ParseLine
    <2> QED
      BY <1>9, <2>1
  <1>8. CASE line.field = "other"
    <2>1. Unparseable \in Data
      BY BoundsAssumption DEF Unparseable, Data
    <2>2. f = [parser |-> IF p.data = <<>> THEN p
                            ELSE [p EXCEPT !.data = Append(@, Unparseable)],
               events |-> <<>>]
      BY <1>8 DEF ParseLine
    <2>3. [p EXCEPT !.data = Append(@, Unparseable)] \in Parsers
      BY <1>2, <2>1
    <2> QED
      BY <1>9, <2>2, <2>3
  <1> QED
    BY <1>3, <1>4, <1>5, <1>6, <1>7, <1>8

--------------------------------------------------------------------------------
(***************************************************************************)
(* The answer the upstream's payloads stand for.                           *)
(***************************************************************************)
Calls == UNION {[D -> Texts] : D \in Indices}

Answers ==
  [content : Texts, reasoning : Texts, calls : Calls, finish : Words,
   usage : 0..MaxData, done : BOOLEAN]

ArgumentsAt(calls, i) == IF i \in DOMAIN calls THEN calls[i] ELSE <<>>

LEMMA CallsOfFinite ==
  ASSUME NEW d \in Chunks
  PROVE  CallsOf(d) \in Indices
  <1> DEFINE n == Len(d.tools)
             f == [k \in 1..n |-> d.tools[k].index]
  <1>1. n \in Nat /\ \A k \in 1..n : d.tools[k].index \in Nat
    BY ChunkParts
  <1> HIDE DEF n
  <1>2. IsFiniteSet(1..n)
    <2>1. 1 \in Int /\ n \in Int
      BY <1>1
    <2> QED
      BY <2>1, FS_Interval
  <1>3. f \in Surjection(1..n, CallsOf(d))
    BY DEF Surjection, CallsOf, n
  <1> HIDE DEF f
  <1>4. IsFiniteSet(CallsOf(d))
    BY <1>2, <1>3, FS_Surjection
  <1>5. CallsOf(d) \in SUBSET Nat
    BY <1>1 DEF CallsOf, n
  <1> QED
    BY <1>4, <1>5 DEF Indices

LEMMA GrownCalls ==
  ASSUME NEW d \in Chunks, NEW calls \in Calls, NEW more,
         more = [i \in DOMAIN calls \cup CallsOf(d) |-> ArgumentsAt(calls, i) \o ArgumentsOf(d, i)]
  PROVE  /\ more \in Calls
         /\ DOMAIN more = DOMAIN calls \cup CallsOf(d)
         /\ \A i : ArgumentsAt(more, i) = ArgumentsAt(calls, i) \o ArgumentsOf(d, i)
  <1>1. PICK D \in Indices : calls \in [D -> Texts]
    BY DEF Calls
  <1>2. DOMAIN calls \cup CallsOf(d) \in Indices
    <2>1. DOMAIN calls = D /\ CallsOf(d) \in Indices
      BY <1>1, CallsOfFinite
    <2> QED
      BY <1>1, <2>1, FS_Union DEF Indices
  <1>3. ASSUME NEW i PROVE ArgumentsAt(calls, i) \in Texts /\ ArgumentsOf(d, i) \in Texts
    <2>1. ArgumentsOf(d, i) \in Texts
      BY ChunkTells
    <2>2. <<>> \in Texts
      BY EmptySeq DEF Texts
    <2> QED
      BY <1>1, <2>1, <2>2 DEF ArgumentsAt
  <1>4. ASSUME NEW i PROVE ArgumentsAt(calls, i) \o ArgumentsOf(d, i) \in Texts
    BY <1>3, ConcatProperties DEF Texts
  <1>5. more \in [DOMAIN calls \cup CallsOf(d) -> Texts]
    BY <1>4
  <1>6. ASSUME NEW i, i \notin CallsOf(d) PROVE ArgumentsOf(d, i) = <<>>
    <2> DEFINE n == Len(d.tools)
               ss == [k \in 1..n |-> If(d.tools[k].index = i /\ d.tools[k].args, <<d.at, "args">>)]
    <2>1. \A k \in 1..n : If(d.tools[k].index = i /\ d.tools[k].args, <<d.at, "args">>) = <<>>
      BY <1>6 DEF CallsOf, If
    <2>2. n \in Nat
      BY ChunkParts
    <2> HIDE DEF n
    <2>3. \A k \in 1..n : ss[k] = <<>>
      BY <2>1
    <2>4. ss = [k \in 1..n |-> <<>>]
      BY <2>1
    <2>5. [k \in 1..n |-> <<>>] \in Seq(Seq(Nat)) /\ Len([k \in 1..n |-> <<>>]) = n
      BY <2>2
    <2>6. ss \in Seq(Seq(Nat)) /\ Len(ss) = n
      BY <2>4, <2>5
    <2>7. ArgumentsOf(d, i) = FlattenSeq(ss)
      BY DEF ArgumentsOf, n
    <2> HIDE DEF ss
    <2>8. \A k \in 1..Len(ss) : ss[k] = <<>>
      BY <2>3, <2>6
    <2>9. FlattenSeq(ss) = <<>>
      BY <2>6, <2>8, FlattenNothing
    <2> QED
      BY <2>7, <2>9
  <1>7. ASSUME NEW i PROVE ArgumentsAt(more, i) = ArgumentsAt(calls, i) \o ArgumentsOf(d, i)
    <2>1. CASE i \in DOMAIN calls \cup CallsOf(d)
      BY <2>1 DEF ArgumentsAt
    <2>2. CASE i \notin DOMAIN calls \cup CallsOf(d)
      <3>1. ArgumentsAt(calls, i) = <<>> /\ ArgumentsOf(d, i) = <<>> /\ ArgumentsAt(more, i) = <<>>
        BY <1>6, <2>2 DEF ArgumentsAt
      <3>2. <<>> \o <<>> = <<>>
        OBVIOUS
      <3> QED
        BY <3>1, <3>2
    <2> QED
      BY <2>1, <2>2
  <1> QED
    BY <1>2, <1>5, <1>7 DEF Calls

\* How an answer grows.
Grows(answer, d, g) ==
  /\ g.done = answer.done
  /\ g.content = answer.content \o If(d.content, <<d.at, "content">>)
  /\ g.reasoning = answer.reasoning \o If(d.reasoning, <<d.at, "reasoning">>)
  /\ DOMAIN g.calls = DOMAIN answer.calls \cup CallsOf(d)
  /\ \A i : ArgumentsAt(g.calls, i) = ArgumentsAt(answer.calls, i) \o ArgumentsOf(d, i)
  /\ g.finish = (IF d.finish = "none" THEN answer.finish ELSE d.finish)
  /\ g.usage = (IF d.usage THEN d.at ELSE answer.usage)

LEMMA GrownTells ==
  ASSUME NEW answer \in Answers, NEW d \in Data
  PROVE  LET g == Grown(answer, d) IN
         /\ g \in Answers
         /\ d.kind \in {"error", "junk"} => g = answer
         /\ d.kind = "done" =>
              /\ g.done /\ g.content = answer.content /\ g.reasoning = answer.reasoning
              /\ g.calls = answer.calls /\ g.finish = answer.finish /\ g.usage = answer.usage
         /\ d.kind = "chunk" => Grows(answer, d, g)
  <1> DEFINE g == Grown(answer, d)
  <1> PICK T, C, W, U, B : /\ T = Texts /\ C = Calls /\ W = Words /\ U = 0..MaxData /\ B = BOOLEAN
    OBVIOUS
  <1>1. Answers = [content : T, reasoning : T, calls : C, finish : W, usage : U, done : B]
    BY DEF Answers
  <1>2. d.kind \in {"done", "error", "junk", "chunk"}
    BY DEF Data
  <1>3. CASE d.kind = "done"
    <2>1. g = [answer EXCEPT !.done = TRUE]
      BY <1>3 DEF Grown
    <2>2. TRUE \in B
      OBVIOUS
    <2> HIDE DEF g
    <2>3. /\ g \in Answers /\ g.done /\ g.content = answer.content
          /\ g.reasoning = answer.reasoning /\ g.calls = answer.calls
          /\ g.finish = answer.finish /\ g.usage = answer.usage
      BY ONLY <1>1, <2>1, <2>2, answer \in Answers
    <2> QED
      BY <1>3, <2>3 DEF g
  <1>4. CASE d.kind \in {"error", "junk"}
    BY <1>4 DEF Grown
  <1>5. CASE d.kind = "chunk"
    <2> DEFINE content == answer.content \o If(d.content, <<d.at, "content">>)
               reasoning == answer.reasoning \o If(d.reasoning, <<d.at, "reasoning">>)
               calls == [i \in DOMAIN answer.calls \cup CallsOf(d) |->
                           ArgumentsAt(answer.calls, i) \o ArgumentsOf(d, i)]
               finish == IF d.finish = "none" THEN answer.finish ELSE d.finish
               usage == IF d.usage THEN d.at ELSE answer.usage
    <2>1. g = [answer EXCEPT !.content = content, !.reasoning = reasoning, !.calls = calls,
                             !.finish = finish, !.usage = usage]
      BY <1>5 DEF Grown, ArgumentsAt, ArgumentsOf, CallsOf
    <2>2. d \in Chunks
      BY <1>5 DEF Chunks
    <2>3. content \in T /\ reasoning \in T
      <3>1. /\ <<<<d.at, "content">>>> \in Texts /\ <<<<d.at, "reasoning">>>> \in Texts
            /\ <<>> \in Texts
        <4>1. d.at \in 1..MaxData
          BY <2>2, ChunkParts
        <4> QED
          BY <4>1 DEF Texts
      <3>2. /\ If(d.content, <<d.at, "content">>) \in Texts
            /\ If(d.reasoning, <<d.at, "reasoning">>) \in Texts
        BY <3>1 DEF If
      <3>3. answer.content \in Texts /\ answer.reasoning \in Texts
        BY <1>1
      <3> QED
        BY <3>2, <3>3, ConcatProperties DEF Texts
    <2>4. answer.calls \in Calls
      BY <1>1
    <2>5. /\ calls \in C /\ DOMAIN calls = DOMAIN answer.calls \cup CallsOf(d)
          /\ \A i : ArgumentsAt(calls, i) = ArgumentsAt(answer.calls, i) \o ArgumentsOf(d, i)
      BY <2>2, <2>4, GrownCalls
    <2>6. finish \in W /\ usage \in U
      <3>1. answer.finish \in W /\ answer.usage \in U
        BY <1>1
      <3>2. d.finish \in Words /\ d.at \in 1..MaxData
        BY <2>2, ChunkParts
      <3>3. d.at \in 0..MaxData
        BY <3>2, BoundsAssumption
      <3> QED
        BY <3>1, <3>2, <3>3
    <2> HIDE DEF g, content, reasoning, calls, finish, usage
    <2>7. /\ g \in Answers /\ g.done = answer.done /\ g.content = content
          /\ g.reasoning = reasoning /\ g.calls = calls /\ g.finish = finish /\ g.usage = usage
      BY ONLY <1>1, <2>1, <2>3, <2>5, <2>6, answer \in Answers
    <2> QED
      BY <1>5, <2>5, <2>7 DEF g, content, reasoning, finish, usage, Grows
  <1> QED
    BY <1>2, <1>3, <1>4, <1>5

--------------------------------------------------------------------------------
(***************************************************************************)
(* What a client has heard of an answer, and what it is still to hear.     *)
(***************************************************************************)
Heards == [text : Texts, arguments : [Nat -> Texts], calls : SUBSET Nat, usage : Nat]

\* With these events still to come the client will have heard all of it.
Told(h, es, answer) ==
  /\ OneKindOfText(answer) => h.text \o Joined(es, Texty) = answer.content \o answer.reasoning
  /\ \A i \in Nat : h.arguments[i] \o Joined(es, PieceOf(i)) = ArgumentsAt(answer.calls, i)
  /\ h.calls \cup CallsIn(es) = DOMAIN answer.calls
  /\ UsageTold(h.usage, es, answer.usage)

TextOfEvent(e) == IF e \in Texty THEN e.delta ELSE <<>>
ArgumentsOfEvent(e, i) == IF e \in PieceOf(i) THEN e.delta ELSE <<>>
CallsOfEvent(e) == IF e.type = "tool" THEN {e.index} ELSE {}

\* What the client hears of one event.
Hears(h, e, g) ==
  /\ g.text = h.text \o TextOfEvent(e)
  /\ \A i \in Nat : g.arguments[i] = h.arguments[i] \o ArgumentsOfEvent(e, i)
  /\ g.calls = h.calls \cup CallsOfEvent(e)
  /\ g.usage = IF e.type = "usage" THEN e.usage ELSE h.usage

LEMMA TextsConcat ==
  ASSUME NEW x \in Texts, NEW y \in Texts
  PROVE  x \o y \in Texts /\ <<>> \in Texts /\ x \o <<>> = x /\ <<>> \o x = x
  BY ConcatProperties, EmptySeq, ConcatEmptySeq DEF Texts

LEMMA TextsNothing ==
  ASSUME NEW x \in Texts, NEW y \in Texts, x \o y = <<>>
  PROVE  x = <<>> /\ y = <<>>
  <1>1. Len(x \o y) = Len(x) + Len(y) /\ Len(x) \in Nat /\ Len(y) \in Nat
    BY ConcatProperties, LenProperties DEF Texts
  <1>2. Len(x) = 0 /\ Len(y) = 0
    BY <1>1
  <1> QED
    BY <1>2, EmptySeq DEF Texts

LEMMA TextsTogether ==
  ASSUME NEW x \in Texts, NEW y \in Texts, NEW z \in Texts
  PROVE  (x \o y) \o z = x \o (y \o z)
  <1> PICK T : Texts = Seq(T)
    BY DEF Texts
  <1>1. x \in Seq(T) /\ y \in Seq(T) /\ z \in Seq(T)
    OBVIOUS
  <1> QED
    BY ONLY <1>1, ConcatAssociative

\* Nothing is to come.
LEMMA ToldNothing ==
  ASSUME NEW h \in Heards, NEW answer \in Answers
  PROVE  Told(h, <<>>, answer) <=>
           /\ OneKindOfText(answer) => h.text = answer.content \o answer.reasoning
           /\ \A i \in Nat : h.arguments[i] = ArgumentsAt(answer.calls, i)
           /\ h.calls = DOMAIN answer.calls
           /\ h.usage = answer.usage
  <1>1. \A M : Joined(<<>>, M) = <<>>
    BY FlattenEmpty DEF Joined, Pieces
  <1>2. CallsIn(<<>>) = {}
    BY DEF CallsIn
  <1>3. UsageTold(h.usage, <<>>, answer.usage) <=> h.usage = answer.usage
    <2>1. Without(<<>>, "usage")
      BY DEF Without
    <2>2. ASSUME NEW rest \in Seq(Canonical), NEW e PROVE <<>> # <<e>> \o rest
      <3>1. Len(<<e>> \o rest) = 1 + Len(rest) /\ Len(rest) \in Nat
        BY LenProperties
      <3>2. Len(<<e>> \o rest) # 0
        BY <3>1
      <3> QED
        BY <3>2, EmptySeq
    <2> QED
      BY <2>1, <2>2 DEF UsageTold
  <1>4. h.text \o <<>> = h.text /\ \A i \in Nat : h.arguments[i] \o <<>> = h.arguments[i]
    BY TextsConcat DEF Heards
  <1> QED
    BY <1>1, <1>2, <1>3, <1>4 DEF Told

\* The events of a chunk tell what the answer grows by.
LEMMA ToldChunk ==
  ASSUME NEW h \in Heards, NEW answer \in Answers, Told(h, <<>>, answer), NEW d \in Chunks
  PROVE  Told(h, ChunkEvents(d), Grown(answer, d))
  <1> DEFINE g == Grown(answer, d)
             es == ChunkEvents(d)
             c == If(d.content, <<d.at, "content">>)
             r == If(d.reasoning, <<d.at, "reasoning">>)
  <1>1. /\ g.content = answer.content \o c /\ g.reasoning = answer.reasoning \o r
        /\ DOMAIN g.calls = DOMAIN answer.calls \cup CallsOf(d)
        /\ \A i : ArgumentsAt(g.calls, i) = ArgumentsAt(answer.calls, i) \o ArgumentsOf(d, i)
        /\ g.usage = (IF d.usage THEN d.at ELSE answer.usage)
    <2>1. d \in Data /\ d.kind = "chunk"
      BY DEF Chunks
    <2>2. Grows(answer, d, g)
      BY <2>1, GrownTells
    <2> QED
      BY <2>2 DEF Grows
  <1>2. /\ OneKindOfText(answer) => h.text = answer.content \o answer.reasoning
        /\ \A i \in Nat : h.arguments[i] = ArgumentsAt(answer.calls, i)
        /\ h.calls = DOMAIN answer.calls
        /\ h.usage = answer.usage
    BY ToldNothing
  <1>3. /\ Joined(es, Texty) = c \o r
        /\ \A i : Joined(es, PieceOf(i)) = ArgumentsOf(d, i)
        /\ CallsIn(es) = CallsOf(d)
    BY ChunkTells, ChunkOrder DEF TextOf
  <1>4. UsageTold(h.usage, es, g.usage)
    BY <1>1, <1>2, ChunkOrder
  <1>5. c \in Texts /\ r \in Texts
    <2>1. d.at \in 1..MaxData
      BY ChunkParts
    <2>2. <<<<d.at, "content">>>> \in Texts /\ <<<<d.at, "reasoning">>>> \in Texts /\ <<>> \in Texts
      BY <2>1 DEF Texts
    <2> QED
      BY <2>2 DEF If
  <1>6. answer.content \in Texts /\ answer.reasoning \in Texts
    BY DEF Answers
  <1> HIDE DEF g, es, c, r
  <1>7. ASSUME OneKindOfText(g)
        PROVE  h.text \o Joined(es, Texty) = g.content \o g.reasoning
    <2>1. CASE g.content = <<>>
      <3>1. answer.content = <<>> /\ c = <<>>
        BY <1>1, <1>5, <1>6, <2>1, TextsNothing
      <3>2. h.text = <<>> \o answer.reasoning
        BY <1>2, <3>1 DEF OneKindOfText
      <3>3. h.text = answer.reasoning /\ c \o r = r
        BY <1>5, <1>6, <3>1, <3>2, TextsConcat
      <3>4. <<>> \o (answer.reasoning \o r) = answer.reasoning \o r
        BY <1>5, <1>6, TextsConcat
      <3> QED
        BY <1>1, <1>3, <2>1, <3>3, <3>4
    <2>2. CASE g.reasoning = <<>>
      <3>1. answer.reasoning = <<>> /\ r = <<>>
        BY <1>1, <1>5, <1>6, <2>2, TextsNothing
      <3>2. h.text = answer.content \o <<>>
        BY <1>2, <3>1 DEF OneKindOfText
      <3>3. h.text = answer.content /\ c \o r = c
        BY <1>5, <1>6, <3>1, <3>2, TextsConcat
      <3>4. (answer.content \o c) \o <<>> = answer.content \o c
        BY <1>5, <1>6, TextsConcat
      <3> QED
        BY <1>1, <1>3, <2>2, <3>3, <3>4
    <2> QED
      BY <1>7, <2>1, <2>2 DEF OneKindOfText
  <1>8. \A i \in Nat : h.arguments[i] \o Joined(es, PieceOf(i)) = ArgumentsAt(g.calls, i)
    BY <1>1, <1>2, <1>3
  <1>9. h.calls \cup CallsIn(es) = DOMAIN g.calls
    BY <1>1, <1>2, <1>3
  <1>10. Told(h, es, g)
    BY <1>4, <1>7, <1>8, <1>9 DEF Told
  <1> QED
    BY <1>10 DEF g, es

\* The end of the stream and an error say nothing of this.
LEMMA ToldQuiet ==
  ASSUME NEW h \in Heards, NEW answer \in Answers, Told(h, <<>>, answer),
         NEW e \in Canonical, e.type \in {"done", "error"}
  PROVE  Told(h, <<e>>, answer)
  <1>1. <<e>> \in Seq(Canonical) /\ Len(<<e>>) = 1 /\ <<e>>[1] = e
    OBVIOUS
  <1>2. e \notin Texty /\ \A i : e \notin PieceOf(i)
    BY DEF Texty, PieceOf
  <1> DEFINE es == <<e>>
  <1>3. \A k \in 1..Len(es) : es[k] = e
    BY <1>1
  <1> HIDE DEF es
  <1>4. Joined(es, Texty) = <<>> /\ \A i : Joined(es, PieceOf(i)) = <<>>
    BY <1>1, <1>2, <1>3, JoinedNothing, DeltasOfCanonical DEF es
  <1>5. CallsIn(es) = {} /\ Without(es, "usage")
    BY <1>3 DEF CallsIn, Without
  <1>6. CallsIn(<<>>) = {} /\ \A M : Joined(<<>>, M) = <<>>
    BY FlattenEmpty DEF CallsIn, Joined, Pieces
  <1>7. h.usage = answer.usage
    BY ToldNothing
  <1>8. Told(h, es, answer)
    BY <1>4, <1>5, <1>6, <1>7 DEF Told, UsageTold
  <1> QED
    BY <1>8 DEF es

\* The next event is heard.
LEMMA ToldFeed ==
  ASSUME NEW h \in Heards, NEW g \in Heards, NEW answer \in Answers,
         NEW es \in Seq(Canonical), es # <<>>, Told(h, es, answer), Hears(h, Head(es), g)
  PROVE  Told(g, Tail(es), answer)
  <1> DEFINE e == Head(es)
             rest == Tail(es)
  <1>1. /\ e \in Canonical /\ rest \in Seq(Canonical) /\ es = <<e>> \o rest
        /\ Len(es) = Len(rest) + 1 /\ Len(rest) \in Nat /\ es[1] = e
        /\ \A k \in 1..Len(rest) : rest[k] = es[k + 1]
    BY HeadTailProperties, LenProperties
  <1>2. /\ Joined(es, Texty) = TextOfEvent(e) \o Joined(rest, Texty)
        /\ \A i : Joined(es, PieceOf(i)) = ArgumentsOfEvent(e, i) \o Joined(rest, PieceOf(i))
    BY JoinedHead, DeltasOfCanonical DEF TextOfEvent, ArgumentsOfEvent
  <1>3. /\ TextOfEvent(e) \in Texts /\ \A i : ArgumentsOfEvent(e, i) \in Texts
    BY DeltasOfCanonical, EmptySeq DEF WithText, TextOfEvent, ArgumentsOfEvent, Texts
  <1>4. /\ Joined(rest, Texty) \in Texts /\ \A i : Joined(rest, PieceOf(i)) \in Texts
    BY <1>1, JoinedType, DeltasOfCanonical
  <1>5. CallsIn(es) = CallsOfEvent(e) \cup CallsIn(rest)
    <2>1. <<e>> \in Seq(Canonical)
      BY <1>1
    <2>2. CallsIn(<<e>>) = CallsOfEvent(e)
      BY DEF CallsIn, CallsOfEvent
    <2> HIDE DEF e, rest
    <2>3. CallsIn(<<e>> \o rest) = CallsIn(<<e>>) \cup CallsIn(rest)
      BY <1>1, <2>1, TypesConcat
    <2> QED
      BY <1>1, <2>2, <2>3
  <1>6. UsageTold(g.usage, rest, answer.usage)
    <2>1. CASE Without(es, "usage") /\ h.usage = answer.usage
      <3>1. e.type # "usage" /\ Without(rest, "usage")
        BY <1>1, <2>1 DEF Without
      <3> QED
        BY <2>1, <3>1 DEF UsageTold, Hears
    <2>2. ASSUME NEW tail \in Seq(Canonical), Without(tail, "usage"),
                 es = <<[type |-> "usage", usage |-> answer.usage]>> \o tail
          PROVE  UsageTold(g.usage, rest, answer.usage)
      <3> DEFINE u == [type |-> "usage", usage |-> answer.usage]
      <3>1. e = u /\ rest = tail
        BY <2>2
      <3>2. e.type = "usage" /\ e.usage = answer.usage
        BY <3>1
      <3> QED
        BY ZenonT(60), <2>2, <3>1, <3>2 DEF UsageTold, Hears
    <2> QED
      BY <2>1, <2>2 DEF Told, UsageTold
  <1> HIDE DEF e, rest
  <1>7. ASSUME OneKindOfText(answer)
        PROVE  g.text \o Joined(rest, Texty) = answer.content \o answer.reasoning
    <2>1. h.text \in Texts
      BY DEF Heards
    <2>2. g.text = h.text \o TextOfEvent(e)
      BY DEF Hears, e
    <2>3. (h.text \o TextOfEvent(e)) \o Joined(rest, Texty)
            = h.text \o (TextOfEvent(e) \o Joined(rest, Texty))
      BY <1>3, <1>4, <2>1, TextsTogether
    <2> QED
      BY <1>2, <1>7, <2>2, <2>3 DEF Told
  <1>8. ASSUME NEW i \in Nat
        PROVE  g.arguments[i] \o Joined(rest, PieceOf(i)) = ArgumentsAt(answer.calls, i)
    <2>1. h.arguments[i] \in Texts
      BY DEF Heards
    <2>2. g.arguments[i] = h.arguments[i] \o ArgumentsOfEvent(e, i)
      BY DEF Hears, e
    <2>4. ArgumentsOfEvent(e, i) \in Texts /\ Joined(rest, PieceOf(i)) \in Texts
      BY <1>3, <1>4
    <2>3. (h.arguments[i] \o ArgumentsOfEvent(e, i)) \o Joined(rest, PieceOf(i))
            = h.arguments[i] \o (ArgumentsOfEvent(e, i) \o Joined(rest, PieceOf(i)))
      BY ONLY <2>1, <2>4, TextsTogether
    <2> QED
      BY <1>2, <2>2, <2>3 DEF Told
  <1>9. g.calls \cup CallsIn(rest) = DOMAIN answer.calls
    BY <1>5 DEF Told, Hears, e
  <1> QED
    BY <1>6, <1>7, <1>8, <1>9 DEF Told, rest

--------------------------------------------------------------------------------
(***************************************************************************)
(* A clean stream, line by line.                                           *)
(***************************************************************************)
\* The events still to come when the stream is read no further.
Coming(es, p) == es \o Flush(p).events

\* At most one payload waits for its blank line, under no foreign name.
Clean(p) ==
  /\ p.data = <<>> \/ Len(p.data) = 1
  /\ p.data # <<>> => p.event \in {"", "message"}

\* What a payload makes the parser say.
Says(p, d, coming, finish) ==
  /\ d.kind \in {"done", "junk", "error", "chunk"}
  /\ d.kind = "done" => coming = <<[type |-> "done", finish |-> p.finish]>> /\ finish = p.finish
  /\ d.kind = "junk" => coming = <<>> /\ finish = p.finish
  /\ d.kind = "error" => coming = <<[type |-> "error"]>> /\ finish = p.finish
  /\ d.kind = "chunk" => d \in Chunks /\ coming = ChunkEvents(d) /\ finish = LastFinish(p, d)

LEMMA FlushIdle ==
  ASSUME NEW p \in Parsers, p.data = <<>>
  PROVE  Flush(p).events = <<>> /\ Flush(p).parser.finish = p.finish
  <1>1. Len(p.data) # 1
    BY EmptySeq
  <1>2. Flush(p).parser = Idle(p) /\ Flush(p).events = <<>>
    BY <1>1, FlushTells
  <1> QED
    BY <1>2, IdleType

LEMMA DataSays ==
  ASSUME NEW p \in Parsers, p.data = <<>>, p.event \in {"", "message"}, NEW d \in Data
  PROVE  LET q == [p EXCEPT !.data = Append(@, d)] IN
         /\ Clean(q)
         /\ Says(p, d, Coming(<<>>, q), Flush(q).parser.finish)
  <1> DEFINE q == [p EXCEPT !.data = Append(@, d)]
             f == Flush(q)
  <1> PICK D, S : D = Seq(Data) /\ S = Words
    OBVIOUS
  <1>1. Parsers = [event : S, data : D, finish : S]
    BY DEF Parsers
  <1>2. Append(p.data, d) = <<d>>
    <2>1. Append(<<>>, d) = <<d>>
      BY ONLY TRUE
    <2> QED
      BY ONLY <2>1, p.data = <<>>
  <1>3. <<d>> \in D
    <2>1. <<d>> \in Seq(Data)
      BY ONLY d \in Data
    <2> QED
      BY <2>1
  <1>4. q = [p EXCEPT !.data = <<d>>]
    BY <1>2
  <1> HIDE DEF q
  <1>5. q \in Parsers /\ q.data = <<d>> /\ q.event = p.event /\ q.finish = p.finish
    BY ONLY <1>1, <1>3, <1>4, p \in Parsers
  <1>6. Len(q.data) = 1 /\ q.data[1] = d /\ q.event \in {"", "message"}
    <2>1. Len(<<d>>) = 1 /\ <<d>>[1] = d
      BY ONLY TRUE
    <2>2. q.data = <<d>> /\ q.event = p.event
      BY <1>5
    <2> QED
      BY ONLY <2>1, <2>2, p.event \in {"", "message"}
  <1>7. Clean(q)
    BY <1>6 DEF Clean
  <1>8. /\ d.kind = "done" =>
             f.parser = Idle(q) /\ f.events = <<[type |-> "done", finish |-> q.finish]>>
        /\ d.kind = "junk" => f.parser = Idle(q) /\ f.events = <<>>
        /\ d.kind = "error" => f.parser = Idle(q) /\ f.events = <<[type |-> "error"]>>
        /\ d.kind = "chunk" =>
             /\ d \in Chunks /\ f.events = ChunkEvents(d)
             /\ f.parser = [Idle(q) EXCEPT !.finish = LastFinish(q, d)]
        /\ d.kind \in {"done", "junk", "error", "chunk"}
    BY <1>5, <1>6, FlushTells
  <1>9. LastFinish(q, d) = LastFinish(p, d)
    BY <1>5 DEF LastFinish
  <1>10. Idle(q).finish = p.finish
    BY <1>5, IdleType
  <1>11. d.kind = "chunk" => f.parser.finish = LastFinish(p, d)
    <2> SUFFICES ASSUME d.kind = "chunk" PROVE f.parser.finish = LastFinish(p, d)
      OBVIOUS
    <2>1. LastFinish(q, d) \in Words
      BY <1>5, <1>8, ChunkParts DEF LastFinish, Parsers
    <2> DEFINE r == [Idle(q) EXCEPT !.finish = LastFinish(q, d)]
    <2>2. r.finish = LastFinish(q, d)
      BY <1>5, <2>1, IdleFinish
    <2> QED
      BY <1>8, <1>9, <2>2
  <1>12. Coming(<<>>, q) = f.events
    <2>1. f.events \in Seq(Canonical)
      BY <1>5, FlushTypes
    <2> QED
      BY <2>1, ConcatEmptySeq DEF Coming
  <1> HIDE DEF f
  <1>13. Says(p, d, Coming(<<>>, q), f.parser.finish)
    BY <1>5, <1>8, <1>10, <1>11, <1>12 DEF Says
  <1> QED
    BY <1>7, <1>13 DEF q, f

\* Any other line lets the same events come.
LEMMA LineSays ==
  ASSUME NEW p \in Parsers, Clean(p), NEW line \in Lines, line.field # "data",
         line.field \in {"event", "other"} => p.data = <<>>
  PROVE  LET f == ParseLine(p, line) IN
         /\ Clean(f.parser)
         /\ Coming(f.events, f.parser) = Coming(<<>>, p)
         /\ Flush(f.parser).parser.finish = Flush(p).parser.finish
  <1> DEFINE f == ParseLine(p, line)
             g == Flush(p)
  <1>1. line.field \in {"blank", "event", "comment", "other"}
    BY DEF Lines
  <1>2. f.parser \in Parsers /\ f.events \in Seq(Canonical)
    BY ParseTypes
  <1>3. g.parser \in Parsers /\ g.parser.data = <<>> /\ g.events \in Seq(Canonical)
    BY FlushTypes
  <1>4. <<>> \o g.events = g.events /\ g.events \o <<>> = g.events
    BY <1>3, ConcatEmptySeq
  <1> HIDE DEF g
  <1>5. CASE line.field = "blank"
    <2>1. f = g
      BY <1>5 DEF ParseLine, g
    <2>2. Flush(g.parser).events = <<>> /\ Flush(g.parser).parser.finish = g.parser.finish
      BY <1>3, FlushIdle
    <2>3. Clean(g.parser)
      BY <1>3 DEF Clean
    <2> QED
      BY <1>4, <2>1, <2>2, <2>3 DEF Coming, g
  <1>6. CASE line.field = "event"
    <2>1. p.data = <<>>
      BY <1>6
    <2>2. g.events = <<>> /\ g.parser = Idle(p) /\ g.parser.finish = p.finish
      <3>1. Len(p.data) # 1
        BY <2>1, EmptySeq
      <3> QED
        BY <2>1, <3>1, FlushIdle, FlushTells DEF g
    <2>3. f = [g EXCEPT !.parser.event = line.name]
      BY <1>6 DEF ParseLine, g
    <2>4. g = [parser |-> g.parser, events |-> g.events]
      BY DEF Flush, g
    <2> PICK D, S : D = Seq(Data) /\ S = Words
      OBVIOUS
    <2>5. Parsers = [event : S, data : D, finish : S]
      BY DEF Parsers
    <2>6. f.events = g.events /\ f.parser = [g.parser EXCEPT !.event = line.name]
      <3> HIDE DEF f
      <3> QED
        BY <2>3, <2>4
    <2> HIDE DEF f
    <2>7. f.parser.data = <<>> /\ f.parser.finish = g.parser.finish
      BY ONLY <1>3, <2>5, <2>6
    <2>8. Flush(f.parser).events = <<>> /\ Flush(f.parser).parser.finish = f.parser.finish
      BY <1>2, <2>7, FlushIdle DEF f
    <2>9. Clean(f.parser)
      BY <2>7 DEF Clean
    <2>10. Coming(f.events, f.parser) = Coming(<<>>, p)
      BY <2>2, <2>6, <2>8 DEF Coming, g
    <2> QED
      BY <2>2, <2>7, <2>8, <2>9, <2>10 DEF g, f
  <1>7. CASE line.field = "comment" \/ line.field = "other"
    <2>1. f.parser = p /\ f.events = <<>>
      BY <1>7 DEF ParseLine
    <2> QED
      BY <2>1
  <1> QED
    BY <1>1, <1>5, <1>6, <1>7

\* A clean line: the client will have heard what the answer has grown to.
LEMMA ToldLine ==
  ASSUME NEW p \in Parsers, Clean(p), NEW h \in Heards, NEW answer \in Answers,
         Told(h, Coming(<<>>, p), answer), NEW line \in Lines,
         line.field = "data" => p.data = <<>> /\ p.event \in {"", "message"},
         line.field \in {"event", "other"} => p.data = <<>>
  PROVE  LET f == ParseLine(p, line) IN
         /\ Clean(f.parser)
         /\ Told(h, Coming(f.events, f.parser),
                 IF line.field = "data" THEN Grown(answer, line.data) ELSE answer)
  <1> DEFINE f == ParseLine(p, line)
  <1>1. CASE line.field # "data"
    BY <1>1, LineSays
  <1>2. CASE line.field = "data"
    <2> DEFINE d == line.data
               q == [p EXCEPT !.data = Append(@, d)]
               g == Grown(answer, d)
               coming == Coming(<<>>, q)
    <2>1. f.parser = q /\ f.events = <<>>
      BY <1>2 DEF ParseLine
    <2>2. d \in Data
      BY <1>2 DEF Lines
    <2>3. Clean(q) /\ Says(p, d, coming, Flush(q).parser.finish)
      BY <1>2, <2>2, DataSays
    <2>4. Told(h, <<>>, answer)
      <3>1. Flush(p).events = <<>>
        BY <1>2, FlushIdle
      <3>2. Coming(<<>>, p) = <<>>
        <4>1. <<>> \o <<>> = <<>>
          BY ONLY TRUE
        <4> QED
          BY <3>1, <4>1 DEF Coming
      <3> QED
        BY <3>2
    <2>5. ASSUME g.content = answer.content, g.reasoning = answer.reasoning,
                 g.calls = answer.calls, g.usage = answer.usage
          PROVE  \A es : Told(h, es, answer) => Told(h, es, g)
      BY <2>5 DEF Told, OneKindOfText
    <2>6. /\ d.kind \in {"error", "junk"} => g = answer
          /\ d.kind = "done" =>
               /\ g.content = answer.content /\ g.reasoning = answer.reasoning
               /\ g.calls = answer.calls /\ g.usage = answer.usage
      BY <2>2, GrownTells
    <2>7. p.finish \in Words
      BY DEF Parsers
    <2> HIDE DEF coming, g, d
    <2>8. ASSUME d.kind = "chunk" PROVE Told(h, coming, g)
      BY <2>3, <2>4, <2>8, ToldChunk DEF Says, g
    <2>9. ASSUME d.kind = "junk" PROVE Told(h, coming, g)
      BY <2>3, <2>4, <2>6, <2>9 DEF Says
    <2>10. ASSUME d.kind = "error" PROVE Told(h, coming, g)
      <3> DEFINE e == [type |-> "error"]
      <3>1. e \in Canonical /\ e.type \in {"done", "error"}
        BY DEF Canonical
      <3>2. coming = <<e>>
        BY <2>3, <2>10 DEF Says
      <3> HIDE DEF e
      <3>3. Told(h, <<e>>, answer)
        BY <2>4, <3>1, ToldQuiet
      <3> QED
        BY <2>6, <2>10, <3>2, <3>3
    <2>11. ASSUME d.kind = "done" PROVE Told(h, coming, g)
      <3> DEFINE e == [type |-> "done", finish |-> p.finish]
      <3>1. e \in Canonical /\ e.type \in {"done", "error"}
        BY <2>7 DEF Canonical
      <3>2. coming = <<e>>
        BY <2>3, <2>11 DEF Says
      <3> HIDE DEF e
      <3>3. Told(h, <<e>>, answer)
        BY <2>4, <3>1, ToldQuiet
      <3> QED
        BY <2>5, <2>6, <2>11, <3>2, <3>3
    <2>12. Told(h, coming, g)
      BY <2>3, <2>8, <2>9, <2>10, <2>11 DEF Says
    <2> QED
      BY <1>2, <2>1, <2>3, <2>12 DEF coming, g, d
  <1> QED
    BY <1>1, <1>2

\* The reason the stream ends with is told by the event of [DONE] only.
FinishTold(reason, coming, finish, answer) ==
  \/ ~answer.done /\ reason = "none" /\ Without(coming, "done") /\ finish = answer.finish
  \/ answer.done /\ reason = "none" /\ coming = <<[type |-> "done", finish |-> answer.finish]>>
  \/ answer.done /\ reason = answer.finish /\ coming = <<>>

LEMMA FinishLine ==
  ASSUME NEW p \in Parsers, Clean(p), NEW answer \in Answers, NEW reason,
         FinishTold(reason, Coming(<<>>, p), Flush(p).parser.finish, answer), NEW line \in Lines,
         line.field = "data" => p.data = <<>> /\ p.event \in {"", "message"} /\ ~answer.done,
         line.field \in {"event", "other"} => p.data = <<>>
  PROVE  LET f == ParseLine(p, line) IN
         FinishTold(reason, Coming(f.events, f.parser), Flush(f.parser).parser.finish,
                    IF line.field = "data" THEN Grown(answer, line.data) ELSE answer)
  <1> DEFINE f == ParseLine(p, line)
  <1>1. CASE line.field # "data"
    BY <1>1, LineSays
  <1>2. CASE line.field = "data"
    <2> DEFINE d == line.data
               q == [p EXCEPT !.data = Append(@, d)]
               g == Grown(answer, d)
               coming == Coming(<<>>, q)
               finish == Flush(q).parser.finish
    <2>1. f.parser = q /\ f.events = <<>>
      BY <1>2 DEF ParseLine
    <2>2. d \in Data
      BY <1>2 DEF Lines
    <2>3. Says(p, d, coming, finish)
      BY <1>2, <2>2, DataSays
    <2>4. reason = "none" /\ p.finish = answer.finish /\ ~answer.done
      BY <1>2, FlushIdle DEF FinishTold
    <2>5. /\ d.kind \in {"error", "junk"} => g = answer
          /\ d.kind = "done" => g.done /\ g.finish = answer.finish
          /\ d.kind = "chunk" => Grows(answer, d, g)
      BY <2>2, GrownTells
    <2> HIDE DEF coming, g, d, finish
    <2>6. ASSUME d.kind = "chunk" PROVE FinishTold(reason, coming, finish, g)
      <3>1. Without(coming, "done")
        BY <2>3, <2>6, ChunkOrder DEF Says
      <3>2. finish = g.finish /\ ~g.done
        BY <2>3, <2>4, <2>5, <2>6 DEF Says, Grows, LastFinish
      <3> QED
        BY <2>4, <3>1, <3>2 DEF FinishTold
    <2>7. ASSUME d.kind = "junk" \/ d.kind = "error" PROVE FinishTold(reason, coming, finish, g)
      <3>1. Without(coming, "done")
        <4>1. coming = <<>> \/ coming = <<[type |-> "error"]>>
          BY <2>3, <2>7 DEF Says
        <4>2. Without(<<>>, "done") /\ Without(<<[type |-> "error"]>>, "done")
          <5> DEFINE e == [type |-> "error"]
          <5>1. e.type # "done"
            OBVIOUS
          <5> HIDE DEF e
          <5>2. Without(<<e>>, "done") /\ Without(<<>>, "done")
            BY ONLY <5>1 DEF Without
          <5> QED
            BY <5>2 DEF e
        <4> QED
          BY <4>1, <4>2
      <3> QED
        BY <2>3, <2>4, <2>5, <2>7, <3>1 DEF Says, FinishTold
    <2>8. ASSUME d.kind = "done" PROVE FinishTold(reason, coming, finish, g)
      BY <2>3, <2>4, <2>5, <2>8 DEF Says, FinishTold
    <2>9. FinishTold(reason, coming, finish, g)
      BY <2>3, <2>6, <2>7, <2>8 DEF Says
    <2> QED
      BY <1>2, <2>1, <2>9 DEF coming, g, d, finish
  <1> QED
    BY <1>1, <1>2

LEMMA FinishFeed ==
  ASSUME NEW es \in Seq(Canonical), es # <<>>, NEW reason, NEW finish, NEW answer,
         FinishTold(reason, es, finish, answer), NEW after,
         after = IF Head(es).type = "done" /\ Head(es).finish # "none" THEN Head(es).finish
                 ELSE reason
  PROVE  FinishTold(after, Tail(es), finish, answer)
  <1>1. CASE ~answer.done /\ reason = "none" /\ Without(es, "done") /\ finish = answer.finish
    <2>1. /\ Len(es) = Len(Tail(es)) + 1 /\ Len(Tail(es)) \in Nat /\ es[1] = Head(es)
          /\ \A k \in 1..Len(Tail(es)) : Tail(es)[k] = es[k + 1]
      BY HeadTailProperties, LenProperties
    <2>2. Head(es).type # "done" /\ Without(Tail(es), "done")
      BY <1>1, <2>1 DEF Without
    <2> QED
      BY <1>1, <2>2 DEF FinishTold
  <1>2. CASE /\ answer.done /\ reason = "none"
             /\ es = <<[type |-> "done", finish |-> answer.finish]>>
    <2> DEFINE e == [type |-> "done", finish |-> answer.finish]
    <2>1. Head(es) = e /\ Tail(es) = <<>> /\ e.type = "done" /\ e.finish = answer.finish
      BY <1>2
    <2>2. after = answer.finish
      BY <1>2, <2>1
    <2> QED
      BY <1>2, <2>1, <2>2 DEF FinishTold
  <1> QED
    BY <1>1, <1>2 DEF FinishTold

--------------------------------------------------------------------------------
(***************************************************************************)
(* Feeding the Messages adapter.                                           *)
(***************************************************************************)
MessageHeard(s, a) ==
  [text |-> TextIn(s), arguments |-> [i \in Nat |-> ArgumentsIn(s, a.tool_blocks, i)],
   calls |-> DOMAIN a.tool_blocks, usage |-> a.usage]

LEMMA MessageHeardType ==
  ASSUME NEW s \in Seq(MessageEvents), NEW a \in MessageAdapters
  PROVE  MessageHeard(s, a) \in Heards
  <1>1. a.tool_blocks \in Blocks /\ a.usage \in Nat
    BY BoundsAssumption DEF MessageAdapters
  <1>2. DOMAIN a.tool_blocks \in SUBSET Nat
    BY <1>1 DEF Blocks, Indices
  <1>3. TextIn(s) \in Texts /\ \A i : ArgumentsIn(s, a.tool_blocks, i) \in Texts
    BY TextType, ArgumentsType
  <1> QED
    BY <1>1, <1>2, <1>3 DEF MessageHeard, Heards

\* What a chunk reports of usage and of the end, noted before anything else.
Noted(a, usage, finish) ==
  [a EXCEPT !.usage = IF usage = 0 THEN @ ELSE usage,
            !.finish_reason = IF finish = "none" THEN @ ELSE finish]

LEMMA NotedType ==
  ASSUME NEW a \in MessageAdapters, NEW usage \in 0..MaxData, NEW finish \in Words
  PROVE  LET b == Noted(a, usage, finish) IN
         /\ b \in MessageAdapters
         /\ b.next_index = a.next_index /\ b.open = a.open
         /\ b.text_block_index = a.text_block_index /\ b.tool_blocks = a.tool_blocks
         /\ b.saw_tool_call = a.saw_tool_call
         /\ b.usage = (IF usage = 0 THEN a.usage ELSE usage)
         /\ b.finish_reason = (IF finish = "none" THEN a.finish_reason ELSE finish)
         /\ usage = 0 /\ finish = "none" => b = a
  <1> PICK N, T, F, W, U : /\ N = Nat /\ T = Nat \cup {None} /\ F = Words
                           /\ W = BOOLEAN /\ U = 0..MaxData
    OBVIOUS
  <1>1. MessageAdapters = [next_index : N, open : OpenBlocks, text_block_index : T,
                           tool_blocks : Blocks, finish_reason : F, saw_tool_call : W, usage : U]
    BY DEF MessageAdapters
  <1>2. usage \in U /\ finish \in F
    OBVIOUS
  <1> QED
    BY ONLY <1>1, <1>2, a \in MessageAdapters DEF Noted

LEMMA CanonicalTypes ==
  ASSUME NEW e \in Canonical
  PROVE  /\ e.type \in {"usage", "text", "reasoning", "tool", "done", "error"}
         /\ e.type = "usage" => e.usage \in 1..MaxData
         /\ e.type \in {"text", "reasoning"} => e.delta \in Texts /\ e.delta # <<>> /\ e \in Texty
         /\ e.type \notin {"text", "reasoning"} => e \notin Texty
         /\ e.type = "tool" =>
              /\ e.index \in Nat /\ e.delta \in Texts
              /\ \A i : e \in PieceOf(i) <=> i = e.index
         /\ e.type # "tool" => \A i : e \notin PieceOf(i)
         /\ e.type = "done" => e.finish \in Words
  BY DEF Canonical, Texty, PieceOf

\* An event with no text in it.
LEMMA QuietFeed ==
  ASSUME NEW s, NEW a \in MessageAdapters, Fits(s, a),
         NEW usage \in 0..MaxData, NEW finish \in Words
  PROVE  /\ Leads(s, a, <<>>, Noted(a, usage, finish))
         /\ s \o <<>> = s
  <1> DEFINE b == Noted(a, usage, finish)
  <1>1. /\ b \in MessageAdapters
        /\ b.next_index = a.next_index /\ b.open = a.open
        /\ b.text_block_index = a.text_block_index /\ b.tool_blocks = a.tool_blocks
        /\ b.saw_tool_call = a.saw_tool_call
    BY NotedType
  <1>2. s \in Seq(MessageEvents) /\ s \in Written
    BY FitsIsWritten DEF Fits, FitsAt, Shape
  <1>3. AllPrefixes(s, <<>>, Written) /\ s \o <<>> = s
    BY <1>2, PrefixesEmpty
  <1> HIDE DEF b
  <1>4. Fits(s, b)
    BY <1>1 DEF Fits
  <1>5. <<>> \in Seq(MessageEvents)
    BY EmptySeq
  <1>6. Leads(s, a, <<>>, b)
    BY <1>1, <1>3, <1>4, <1>5 DEF Leads
  <1> QED
    BY <1>3, <1>6 DEF b

\* How an event is fed.
LEMMA FeedForms ==
  ASSUME NEW a \in MessageAdapters, NEW e \in Canonical
  PROVE  LET f == MessagesFeed(a, Rendered(e)) IN
         /\ e.type \in {"text", "reasoning"} => f = MessagesText(a, e.delta)
         /\ e.type = "tool" => f = MessagesTool(a, e.index, e.delta)
         /\ e.type = "usage" => f = [adapter |-> Noted(a, e.usage, "none"), events |-> <<>>]
         /\ e.type = "done" => f = [adapter |-> Noted(a, 0, e.finish), events |-> <<>>]
         /\ e.type = "error" => f = [adapter |-> Noted(a, 0, "none"), events |-> <<>>]
  <1> DEFINE c == Rendered(e)
             b == Noted(a, c.usage, c.finish)
  <1>1. MessagesFeed(a, c) =
          IF c.text # <<>> THEN MessagesText(b, c.text)
          ELSE IF c.tools # <<>> THEN MessagesTool(b, c.tools[1].index, c.tools[1].delta)
          ELSE [adapter |-> b, events |-> <<>>]
    BY DEF MessagesFeed, Noted
  <1>2. "none" \in Words /\ 0 \in 0..MaxData
    BY BoundsAssumption DEF Words
  <1>3. Noted(a, 0, "none") = a
    BY <1>2, NotedType
  <1>4. ASSUME e.type \in {"text", "reasoning"} PROVE MessagesFeed(a, c) = MessagesText(a, e.delta)
    <2>1. c.text = e.delta /\ c.usage = 0 /\ c.finish = "none"
      BY <1>4 DEF Rendered
    <2>2. e.delta # <<>>
      BY <1>4, CanonicalTypes
    <2> HIDE DEF c
    <2> QED
      BY <1>1, <1>3, <2>1, <2>2
  <1>5. ASSUME e.type = "tool" PROVE MessagesFeed(a, c) = MessagesTool(a, e.index, e.delta)
    <2>1. c.text = <<>> /\ c.usage = 0 /\ c.finish = "none"
          /\ c.tools = <<[index |-> e.index, delta |-> e.delta]>>
      BY <1>5 DEF Rendered
    <2>2. c.tools # <<>> /\ c.tools[1].index = e.index /\ c.tools[1].delta = e.delta
      BY <2>1
    <2> HIDE DEF c
    <2> QED
      BY <1>1, <1>3, <2>1, <2>2
  <1>6. ASSUME e.type = "usage"
        PROVE  MessagesFeed(a, c) = [adapter |-> Noted(a, e.usage, "none"), events |-> <<>>]
    <2>1. c.text = <<>> /\ c.usage = e.usage /\ c.finish = "none" /\ c.tools = <<>>
      BY <1>6 DEF Rendered
    <2> HIDE DEF c
    <2> QED
      BY <1>1, <2>1
  <1>7. ASSUME e.type = "done"
        PROVE  MessagesFeed(a, c) = [adapter |-> Noted(a, 0, e.finish), events |-> <<>>]
    <2>1. c.text = <<>> /\ c.usage = 0 /\ c.finish = e.finish /\ c.tools = <<>>
      BY <1>7 DEF Rendered
    <2> HIDE DEF c
    <2> QED
      BY <1>1, <2>1
  <1>8. ASSUME e.type = "error"
        PROVE  MessagesFeed(a, c) = [adapter |-> Noted(a, 0, "none"), events |-> <<>>]
    <2>1. c.text = <<>> /\ c.usage = 0 /\ c.finish = "none" /\ c.tools = <<>>
      BY <1>8 DEF Rendered
    <2> HIDE DEF c
    <2> QED
      BY <1>1, <2>1
  <1> QED
    BY <1>4, <1>5, <1>6, <1>7, <1>8

LEMMA MessageHears ==
  ASSUME NEW s, NEW t, NEW a, NEW b, NEW e \in Canonical,
         TextIn(t) = TextIn(s) \o TextOfEvent(e),
         \A i : ArgumentsIn(t, b.tool_blocks, i)
                  = ArgumentsIn(s, a.tool_blocks, i) \o ArgumentsOfEvent(e, i),
         DOMAIN b.tool_blocks = DOMAIN a.tool_blocks \cup CallsOfEvent(e),
         b.usage = IF e.type = "usage" THEN e.usage ELSE a.usage
  PROVE  Hears(MessageHeard(s, a), e, MessageHeard(t, b))
  <1> DEFINE h == MessageHeard(s, a)
             g == MessageHeard(t, b)
  <1>1. /\ h.text = TextIn(s) /\ g.text = TextIn(t) /\ h.calls = DOMAIN a.tool_blocks
        /\ g.calls = DOMAIN b.tool_blocks /\ h.usage = a.usage /\ g.usage = b.usage
        /\ \A i \in Nat : h.arguments[i] = ArgumentsIn(s, a.tool_blocks, i)
        /\ \A i \in Nat : g.arguments[i] = ArgumentsIn(t, b.tool_blocks, i)
    BY DEF MessageHeard
  <1> HIDE DEF h, g
  <1>2. Hears(h, e, g)
    BY <1>1 DEF Hears
  <1> QED
    BY <1>2 DEF h, g

\* One event through the Messages adapter.
LEMMA MessageFeedTells ==
  ASSUME NEW s, NEW a \in MessageAdapters, Fits(s, a), NEW e \in Canonical
  PROVE  LET f == MessagesFeed(a, Rendered(e)) IN
         /\ Leads(s, a, f.events, f.adapter)
         /\ Hears(MessageHeard(s, a), e, MessageHeard(s \o f.events, f.adapter))
         /\ f.adapter.finish_reason
              = IF e.type = "done" /\ e.finish # "none" THEN e.finish ELSE a.finish_reason
  <1> DEFINE f == MessagesFeed(a, Rendered(e))
             b == f.adapter
             t == s \o f.events
             after == IF e.type = "done" /\ e.finish # "none" THEN e.finish ELSE a.finish_reason
  <1>0. s \in Seq(MessageEvents)
    BY DEF Fits, FitsAt, Shape
  <1>1. /\ TextIn(s) \in Texts /\ \A i : ArgumentsIn(s, a.tool_blocks, i) \in Texts
    BY <1>0, TextType, ArgumentsType
  <1>2. /\ TextIn(s) \o <<>> = TextIn(s)
        /\ \A i : ArgumentsIn(s, a.tool_blocks, i) \o <<>> = ArgumentsIn(s, a.tool_blocks, i)
    BY <1>1, TextsConcat
  <1>3. ASSUME e.type \in {"text", "reasoning"}
        PROVE  /\ Leads(s, a, f.events, b) /\ Hears(MessageHeard(s, a), e, MessageHeard(t, b))
               /\ b.finish_reason = after
    <2> DEFINE g == MessagesText(a, e.delta)
    <2>1. e.delta \in Texts /\ e \in Texty /\ \A i : e \notin PieceOf(i)
      BY <1>3, CanonicalTypes
    <2>2. /\ Leads(s, a, g.events, g.adapter)
          /\ Adds(s, a.tool_blocks, s \o g.events, g.adapter.tool_blocks, e.delta, 0, <<>>)
          /\ g.adapter.tool_blocks = a.tool_blocks /\ g.adapter.usage = a.usage
          /\ g.adapter.finish_reason = a.finish_reason
      BY <2>1, TextLeads
    <2>3. f = g
      BY <1>3, FeedForms
    <2> HIDE DEF g, f
    <2>4. /\ TextOfEvent(e) = e.delta /\ \A i : ArgumentsOfEvent(e, i) = <<>>
          /\ CallsOfEvent(e) = {}
      BY <1>3, <2>1 DEF TextOfEvent, ArgumentsOfEvent, CallsOfEvent
    <2>5. /\ TextIn(t) = TextIn(s) \o TextOfEvent(e)
          /\ \A i : ArgumentsIn(t, b.tool_blocks, i)
                      = ArgumentsIn(s, a.tool_blocks, i) \o ArgumentsOfEvent(e, i)
      BY <2>2, <2>3, <2>4 DEF Adds
    <2>6. Hears(MessageHeard(s, a), e, MessageHeard(t, b))
      BY <1>3, <2>2, <2>3, <2>4, <2>5, MessageHears
    <2> QED
      BY <1>3, <2>2, <2>3, <2>6
  <1>4. ASSUME e.type = "tool"
        PROVE  /\ Leads(s, a, f.events, b) /\ Hears(MessageHeard(s, a), e, MessageHeard(t, b))
               /\ b.finish_reason = after
    <2> DEFINE g == MessagesTool(a, e.index, e.delta)
    <2>1. e.delta \in Texts /\ e.index \in Nat /\ e \notin Texty
          /\ \A i : e \in PieceOf(i) <=> i = e.index
      BY <1>4, CanonicalTypes
    <2>2. /\ Leads(s, a, g.events, g.adapter)
          /\ Adds(s, a.tool_blocks, s \o g.events, g.adapter.tool_blocks, <<>>, e.index, e.delta)
          /\ g.adapter.usage = a.usage /\ g.adapter.finish_reason = a.finish_reason
          /\ DOMAIN g.adapter.tool_blocks = DOMAIN a.tool_blocks \cup {e.index}
      BY <2>1, ToolLeads
    <2>3. f = g
      BY <1>4, FeedForms
    <2> HIDE DEF g, f
    <2>4. /\ TextOfEvent(e) = <<>>
          /\ \A i : ArgumentsOfEvent(e, i) = IF i = e.index THEN e.delta ELSE <<>>
          /\ CallsOfEvent(e) = {e.index}
      BY <1>4, <2>1 DEF TextOfEvent, ArgumentsOfEvent, CallsOfEvent
    <2>5. /\ TextIn(t) = TextIn(s) \o TextOfEvent(e)
          /\ \A i : ArgumentsIn(t, b.tool_blocks, i)
                      = ArgumentsIn(s, a.tool_blocks, i) \o ArgumentsOfEvent(e, i)
      BY <2>2, <2>3, <2>4 DEF Adds
    <2>6. Hears(MessageHeard(s, a), e, MessageHeard(t, b))
      BY <1>4, <2>2, <2>3, <2>4, <2>5, MessageHears
    <2> QED
      BY <1>4, <2>2, <2>3, <2>6
  <1>5. ASSUME NEW usage \in 0..MaxData, NEW finish \in Words,
               e.type \in {"usage", "done", "error"},
               f = [adapter |-> Noted(a, usage, finish), events |-> <<>>],
               usage = IF e.type = "usage" THEN e.usage ELSE 0,
               finish = IF e.type = "done" THEN e.finish ELSE "none"
        PROVE  /\ Leads(s, a, f.events, b) /\ Hears(MessageHeard(s, a), e, MessageHeard(t, b))
               /\ b.finish_reason = after
    <2> DEFINE n == Noted(a, usage, finish)
    <2>1. Leads(s, a, <<>>, n) /\ s \o <<>> = s
      BY QuietFeed
    <2>2. /\ n.tool_blocks = a.tool_blocks
          /\ n.usage = (IF usage = 0 THEN a.usage ELSE usage)
          /\ n.finish_reason = (IF finish = "none" THEN a.finish_reason ELSE finish)
      BY NotedType
    <2>3. f.adapter = n /\ f.events = <<>>
      BY <1>5
    <2>4. e \notin Texty /\ \A i : e \notin PieceOf(i)
      BY <1>5, CanonicalTypes
    <2>5. e.type = "usage" => usage = e.usage /\ usage # 0
      BY <1>5, CanonicalTypes
    <2> HIDE DEF n, f
    <2>6. /\ TextOfEvent(e) = <<>> /\ \A i : ArgumentsOfEvent(e, i) = <<>>
          /\ CallsOfEvent(e) = {}
      BY <1>5, <2>4 DEF TextOfEvent, ArgumentsOfEvent, CallsOfEvent
    <2>7. t = s
      BY <2>1, <2>3
    <2>8. n.usage = IF e.type = "usage" THEN e.usage ELSE a.usage
      BY <1>5, <2>2, <2>5
    <2>9. Hears(MessageHeard(s, a), e, MessageHeard(s, n))
      BY <1>2, <2>2, <2>6, <2>8, MessageHears
    <2>10. n.finish_reason = after
      BY <1>5, <2>2
    <2> HIDE DEF t, after
    <2> QED
      BY <2>1, <2>3, <2>7, <2>9, <2>10
  <1>6. "none" \in Words /\ 0 \in 0..MaxData
    BY BoundsAssumption DEF Words
  <1>7. e.type = "usage" => e.usage \in 0..MaxData
    BY CanonicalTypes, BoundsAssumption
  <1>8. ASSUME e.type \in {"usage", "done", "error"}
        PROVE  /\ Leads(s, a, f.events, b) /\ Hears(MessageHeard(s, a), e, MessageHeard(t, b))
               /\ b.finish_reason = after
    <2> DEFINE usage == IF e.type = "usage" THEN e.usage ELSE 0
               finish == IF e.type = "done" THEN e.finish ELSE "none"
    <2>1. usage \in 0..MaxData /\ finish \in Words
      BY <1>6, <1>7, CanonicalTypes
    <2>2. f = [adapter |-> Noted(a, usage, finish), events |-> <<>>]
      BY <1>8, FeedForms
    <2>3. usage = (IF e.type = "usage" THEN e.usage ELSE 0)
          /\ finish = (IF e.type = "done" THEN e.finish ELSE "none")
      OBVIOUS
    <2> HIDE DEF usage, finish, f, b, t, after
    <2> QED
      BY <1>5, <1>8, <2>1, <2>2, <2>3
  <1>9. e.type \in {"usage", "text", "reasoning", "tool", "done", "error"}
    BY CanonicalTypes
  <1> HIDE DEF f, b, t, after
  <1>10. /\ Leads(s, a, f.events, b) /\ Hears(MessageHeard(s, a), e, MessageHeard(t, b))
         /\ b.finish_reason = after
    BY <1>3, <1>4, <1>8, <1>9
  <1> QED
    BY <1>10 DEF f, b, t, after

--------------------------------------------------------------------------------
(***************************************************************************)
(* The end of a Messages stream.                                           *)
(***************************************************************************)
ToolIndices(s, n) == {s[k].index : k \in {j \in StartsOf(s, n) : s[j].kind = "tool_use"}}

\* MessageTellsTheAnswer, of any sequence: what one message_delta in it means.
TellsAt(s, n, answer) ==
  /\ OneKindOfText(answer) => TextIn(s) = BufferedText(answer)
  /\ Cardinality(ToolIndices(s, n)) = Cardinality(DOMAIN answer.calls)
  /\ {Joined(s, EventsOfBlock(b)) : b \in ToolIndices(s, n)}
       = {answer.calls[i] : i \in DOMAIN answer.calls}
  /\ s[n].stop_reason = BufferedStopReason(answer)
  /\ s[n].usage = answer.usage

Tells(s, answer) == \A n \in SentOf(s, {"message_delta"}, Len(s)) : TellsAt(s, n, answer)

\* What may have been sent at last.
Delivered == {s \in Seq(MessageEvents) : Turns(s) /\ Finds(s)}

LEMMA NoEndTells ==
  ASSUME NEW s, NoEnd(s), NEW answer
  PROVE  Tells(s, answer)
BY DEF NoEnd, Tells, SentOf

\* A text is of one kind: the other is empty.
LEMMA OneText ==
  ASSUME NEW answer \in Answers, OneKindOfText(answer)
  PROVE  BufferedText(answer) = answer.content \o answer.reasoning
<1>1. answer.content \in Texts /\ answer.reasoning \in Texts
  BY DEF Answers
<1>2. /\ answer.content \o <<>> = answer.content
      /\ <<>> \o answer.reasoning = answer.reasoning
  BY ONLY <1>1, TextsConcat
<1> QED
  BY <1>2 DEF OneKindOfText, BufferedText

\* The blocks of the calls are as many as the calls, and one for each.
LEMMA ToolBlocks ==
  ASSUME NEW s, NEW next, NEW open, NEW blocks, FitsAt(s, next, open, blocks)
  PROVE  /\ ToolIndices(s, Len(s)) = {blocks[i] : i \in DOMAIN blocks}
         /\ Cardinality(ToolIndices(s, Len(s))) = Cardinality(DOMAIN blocks)
<1> DEFINE T == ToolIndices(s, Len(s))
           D == DOMAIN blocks
<1>1. T = {blocks[i] : i \in D}
  BY DEF FitsAt, Begun, ToolIndices
<1>2. IsFiniteSet(D) /\ blocks \in [D -> Nat]
  BY DEF FitsAt, Blocks, Indices
<1>3. blocks \in [D -> T]
  BY <1>1, <1>2
<1>4. blocks \in Bijection(D, T)
  BY <1>1, <1>3 DEF FitsAt, Bijection, Injection, Surjection, IsInjective
<1>5. ExistsBijection(D, T)
  BY <1>4 DEF ExistsBijection
<1>6. Cardinality(D) = Cardinality(T)
  BY ONLY <1>2, <1>5, FS_Bijection
<1> QED
  BY <1>1, <1>6

LEMMA TellsAppend ==
  ASSUME NEW s \in Seq(MessageEvents), NEW e \in MessageEvents, NEW answer,
         NEW n \in 1..Len(s) + 1,
         e.type \notin {"content_block_start", "content_block_delta"}
  PROVE  LET t == Append(s, e) IN
         /\ n \in 1..Len(s) => ToolIndices(t, n) = ToolIndices(s, n)
         /\ ToolIndices(t, Len(s) + 1) = ToolIndices(s, Len(s))
         /\ TextIn(t) = TextIn(s)
         /\ \A b : Joined(t, EventsOfBlock(b)) = Joined(s, EventsOfBlock(b))
<1> DEFINE t == Append(s, e)
<1>1. \A k \in 1..Len(s) : t[k] = s[k]
  BY AppendProperties
<1>2. ASSUME NEW m \in 0..Len(s) PROVE StartsOf(t, m) = StartsOf(s, m)
  BY BlocksAppend
<1>3. StartsOf(t, Len(s) + 1) = StartsOf(s, Len(s))
  BY BlocksAppend
<1>4. \A m \in 0..Len(s) : StartsOf(s, m) \subseteq 1..Len(s)
  BY LenProperties DEF StartsOf, SentOf
<1>5. \A b : e \notin EventsOfBlock(b)
  BY DEF EventsOfBlock
<1>6. \A b : Joined(t, EventsOfBlock(b)) = Joined(s, EventsOfBlock(b))
  BY <1>5, DeltasHaveText, NoTextAppend
<1>7. TextIn(t) = TextIn(s)
  BY SilentAppend
<1>8. Len(s) \in Nat
  BY LenProperties
<1> HIDE DEF t
<1>9. n \in 1..Len(s) => ToolIndices(t, n) = ToolIndices(s, n)
  BY <1>1, <1>2, <1>4, <1>8 DEF ToolIndices
<1>10. ToolIndices(t, Len(s) + 1) = ToolIndices(s, Len(s))
  BY <1>1, <1>3, <1>4, <1>8 DEF ToolIndices
<1> QED
  BY <1>6, <1>7, <1>9, <1>10 DEF t

\* An event after the end tells nothing else.
LEMMA TellsKeeps ==
  ASSUME NEW s \in Seq(MessageEvents), NEW answer, Tells(s, answer)
  PROVE  Tells(Append(s, MessageStop), answer)
<1> DEFINE e == MessageStop
           t == Append(s, e)
<1>1. e \in MessageEvents /\ e.type = "message_stop"
  BY DEF MessageStop, MessageEvents
<1> HIDE DEF e
<1>2. SentOf(t, {"message_delta"}, Len(s) + 1) = SentOf(s, {"message_delta"}, Len(s))
  BY <1>1, SentAppend
<1>3. Len(t) = Len(s) + 1 /\ Len(s) \in Nat
  BY <1>1, AppendProperties, LenProperties
<1>4. SUFFICES ASSUME NEW n \in SentOf(s, {"message_delta"}, Len(s)) PROVE TellsAt(t, n, answer)
  BY <1>2, <1>3 DEF Tells, e
<1>5. n \in 1..Len(s) /\ TellsAt(s, n, answer)
  BY DEF Tells, SentOf
<1>6. t[n] = s[n]
  BY <1>1, <1>5, AppendProperties
<1>7. /\ ToolIndices(t, n) = ToolIndices(s, n) /\ TextIn(t) = TextIn(s)
      /\ \A b : Joined(t, EventsOfBlock(b)) = Joined(s, EventsOfBlock(b))
  BY <1>1, <1>3, <1>5, TellsAppend
<1> HIDE DEF t
<1> QED
  BY <1>5, <1>6, <1>7 DEF TellsAt

\* With all of the answer heard, the end of the message tells it.
LEMMA EndTells ==
  ASSUME NEW s, NEW a \in MessageAdapters, NEW answer \in Answers,
         FitsAt(s, a.next_index, NoBlock, a.tool_blocks), a.saw_tool_call <=> DOMAIN a.tool_blocks # {},
         Told(MessageHeard(s, a), <<>>, answer), a.finish_reason = answer.finish,
         NEW e, e = MessageDelta(StopReason(a.finish_reason, a.saw_tool_call), a.usage),
         e \in MessageEvents
  PROVE  Tells(Append(s, e), answer)
<1> DEFINE t == Append(s, e)
           h == MessageHeard(s, a)
           blocks == a.tool_blocks
           D == DOMAIN blocks
<1>0. s \in Seq(MessageEvents) /\ NoEnd(s) /\ Len(s) \in Nat
  BY LenProperties DEF FitsAt, Shape
<1>1. /\ h.text = TextIn(s) /\ h.calls = D /\ h.usage = a.usage
      /\ \A i \in Nat : h.arguments[i] = ArgumentsIn(s, blocks, i)
  BY DEF MessageHeard
<1>2. /\ OneKindOfText(answer) => h.text = answer.content \o answer.reasoning
      /\ \A i \in Nat : h.arguments[i] = ArgumentsAt(answer.calls, i)
      /\ h.calls = DOMAIN answer.calls
      /\ h.usage = answer.usage
  BY <1>0, MessageHeardType, ToldNothing
<1> HIDE DEF h
<1>3. D = DOMAIN answer.calls /\ a.usage = answer.usage
  BY <1>1, <1>2
<1>4. D \subseteq Nat
  BY DEF FitsAt, Blocks, Indices
<1>5. \A i \in D : Joined(s, EventsOfBlock(blocks[i])) = answer.calls[i]
  BY <1>1, <1>2, <1>3, <1>4 DEF ArgumentsIn, ArgumentsAt
<1>6. /\ ToolIndices(s, Len(s)) = {blocks[i] : i \in D}
      /\ Cardinality(ToolIndices(s, Len(s))) = Cardinality(D)
  BY ToolBlocks
<1>7. e.type = "message_delta" /\ e.usage = a.usage
      /\ e.stop_reason = StopReason(a.finish_reason, a.saw_tool_call)
  BY DEF MessageDelta
<1>8. Len(t) = Len(s) + 1 /\ t[Len(s) + 1] = e /\ \A k \in 1..Len(s) : t[k] = s[k]
  BY <1>0, AppendProperties
<1>9. /\ ToolIndices(t, Len(s) + 1) = ToolIndices(s, Len(s)) /\ TextIn(t) = TextIn(s)
      /\ \A b : Joined(t, EventsOfBlock(b)) = Joined(s, EventsOfBlock(b))
  BY <1>0, <1>7, TellsAppend
<1>10. e.stop_reason = BufferedStopReason(answer)
  BY <1>3, <1>7, Zenon DEF BufferedStopReason, StopReason
<1>11. OneKindOfText(answer) => TextIn(t) = BufferedText(answer)
  BY <1>1, <1>2, <1>9, OneText
<1> HIDE DEF t
<1>12. {Joined(t, EventsOfBlock(b)) : b \in ToolIndices(t, Len(s) + 1)} = {answer.calls[i] : i \in D}
  <2>1. \A b : b \in ToolIndices(t, Len(s) + 1) <=> \E i \in D : b = blocks[i]
    BY <1>6, <1>9
  <2>2. \A i \in D : Joined(t, EventsOfBlock(blocks[i])) = answer.calls[i]
    BY <1>5, <1>9
  <2> HIDE DEF D
  <2> QED
    BY ONLY <2>1, <2>2
<1>13. TellsAt(t, Len(s) + 1, answer)
  BY <1>3, <1>6, <1>7, <1>8, <1>9, <1>10, <1>11, <1>12 DEF TellsAt
<1>14. SentOf(t, {"message_delta"}, Len(t)) \subseteq {Len(s) + 1}
  BY <1>0, <1>8 DEF SentOf, NoEnd
<1> QED
  BY <1>13, <1>14 DEF Tells, t

\* The closing events, as far as they are written: with all of the answer
\* heard, an end that is seen tells it.
LEMMA FinishTells ==
  ASSUME NEW s, NEW a \in MessageAdapters, Fits(s, a), NEW answer \in Answers, NEW told,
         told => /\ Told(MessageHeard(s, a), <<>>, answer)
                 /\ a.finish_reason = answer.finish
  PROVE  /\ MessagesFinish(a) \in Seq(MessageEvents)
         /\ AllPrefixes(s, MessagesFinish(a), {w \in Delivered : told => Tells(w, answer)})
<1> DEFINE W == {w \in Delivered : told => Tells(w, answer)}
           c == CloseOpenBlock(a)
           u == s \o c
           e == MessageDelta(StopReason(a.finish_reason, a.saw_tool_call), a.usage)
           t == Append(u, e)
<1>1. /\ c \in Seq(MessageEvents) /\ AllPrefixes(s, c, Written)
      /\ FitsAt(u, a.next_index, NoBlock, a.tool_blocks)
      /\ Keeps(s, a.tool_blocks, u, a.tool_blocks)
  BY CloseFits
<1>2. s \in Seq(MessageEvents)
  BY DEF Fits, FitsAt, Shape
<1>3. MessageHeard(u, a) = MessageHeard(s, a)
  BY <1>1 DEF Keeps, MessageHeard
<1>4. e \in MessageEvents /\ e.type = "message_delta"
  BY DEF MessageDelta, MessageEvents, StopReason, MessageAdapters
<1>5. e = MessageDelta(StopReason(a.finish_reason, a.saw_tool_call), a.usage)
  OBVIOUS
<1>6. MessageStop \in MessageEvents /\ MessageStop.type = "message_stop"
  BY DEF MessageStop, MessageEvents
<1>7. MessagesFinish(a) = Append(Append(c, e), MessageStop)
  <2>1. MessagesFinish(a) = c \o <<e, MessageStop>>
    BY DEF MessagesFinish
  <2> HIDE DEF c, e
  <2> QED
    BY <1>1, <1>4, <1>6, <2>1
<1> HIDE DEF c, e
<1>8. u \in Seq(MessageEvents) /\ Shape(u, a.next_index, NoBlock)
  BY <1>1 DEF FitsAt, Shape
<1>9. Shape(t, a.next_index, NoBlock)
  BY <1>4, <1>8, ShapeOther
<1>10. Shape(Append(t, MessageStop), a.next_index, NoBlock)
  BY <1>6, <1>9, ShapeOther
<1>11. told => Tells(t, answer)
  <2> HIDE DEF u
  <2> QED
    BY <1>1, <1>3, <1>4, <1>5, EndTells DEF Fits
<1>12. t \in W
  BY <1>9, <1>11 DEF Shape, Delivered
<1>13. Append(t, MessageStop) \in W
  <2>1. t \in Seq(MessageEvents)
    BY <1>9 DEF Shape
  <2>2. told => Tells(Append(t, MessageStop), answer)
    BY <1>11, <2>1, TellsKeeps
  <2> QED
    BY <1>10, <2>2 DEF Shape, Delivered
<1>14. AllPrefixes(s, c, W)
  <2>1. Written \subseteq W
    BY NoEndTells DEF Written, Delivered
  <2> QED
    BY <1>1, <2>1 DEF AllPrefixes
<1> HIDE DEF W
<1>15. /\ AllPrefixes(s, Append(c, e), W) /\ s \o Append(c, e) = t
       /\ Append(c, e) \in Seq(MessageEvents)
  BY <1>1, <1>2, <1>4, <1>12, <1>14, PrefixesAppend, AppendProperties
<1> DEFINE d == Append(c, e)
<1> HIDE DEF d, t
<1>16. Append(s \o d, MessageStop) \in W /\ d \in Seq(MessageEvents) /\ AllPrefixes(s, d, W)
  BY <1>13, <1>15 DEF d
<1>17. AllPrefixes(s, Append(d, MessageStop), W) /\ Append(d, MessageStop) \in Seq(MessageEvents)
  BY <1>2, <1>6, <1>16, PrefixesAppend, AppendProperties
<1> QED
  BY <1>7, <1>17 DEF d, W

\* What was told and is finished.
LEMMA FinishSaid ==
  ASSUME NEW reason, NEW finish, NEW answer, FinishTold(reason, <<>>, finish, answer), answer.done
  PROVE  reason = answer.finish
BY DEF FinishTold

--------------------------------------------------------------------------------
(***************************************************************************)
(* A Responses stream and its items.                                       *)
(***************************************************************************)
Items == {Message} \cup {Call(i) : i \in Nat}
Done == [item : Items, content : Texts]

ResponseEvents ==
  [type : {"response.created", "[DONE]"}]
  \cup [type : {"output_item.added"}, item : Items, output_index : Nat]
  \cup [type : {"delta"}, item : Items, output_index : Nat, delta : Texts]
  \cup [type : {"content.done", "output_item.done"}, item : Items, output_index : Nat,
        content : Texts]
  \cup [type : {"response.completed"}, output : Seq(Done), usage : 0..MaxData]

LEMMA ItemsDiffer ==
  /\ \A i : Call(i) # Message /\ Call(i)[2] = i
  /\ \A i, j : Call(i) = Call(j) => i = j
<1>1. \A i : Len(Call(i)) = 2 /\ Call(i)[2] = i
  BY DEF Call
<1>2. Len(Message) = 1
  BY DEF Message
<1>3. \A i : Call(i) # Message
  BY <1>1, <1>2
<1>4. ASSUME NEW i, NEW j, Call(i) = Call(j) PROVE i = j
  <2>1. Call(i)[2] = Call(j)[2]
    BY <1>4
  <2> QED
    BY ONLY <2>1, <1>1
<1> QED
  BY <1>1, <1>3, <1>4

\* The deltas of an item, and its events of a type.
DeltasOf(item) == {e \in ResponseEvents : e.type = "delta" /\ e.item = item}
ItemSent(s, type, item, n) == {k \in SentOf(s, {type}, n) : s[k].item = item}

\* ItemsKeepTheirPromise, of any sequence.
PromiseAt(s, n) ==
  LET e == s[n]
      announced == ItemSent(s, "output_item.added", e.item, n - 1)
      finished  == ItemSent(s, "output_item.done", e.item, n - 1)
  IN  /\ e.type = "output_item.added" => announced = {}
      /\ e.type \in {"delta", "content.done", "output_item.done"} =>
           /\ \E k \in announced : s[k].output_index = e.output_index
           /\ finished = {}
      /\ e.type \in {"content.done", "output_item.done"} =>
           e.content = Joined(SubSeq(s, 1, n), DeltasOf(e.item))
      /\ e.type = "response.completed" =>
           {[item |-> s[k].item, content |-> s[k].content] :
              k \in SentOf(s, {"output_item.done"}, n)} = ToSet(e.output)

Promises(s) == \A n \in 1..Len(s) : PromiseAt(s, n)

LEMMA DeltasOfItems == \A item : WithText(DeltasOf(item))
<1> SUFFICES ASSUME NEW item, NEW e \in DeltasOf(item) PROVE e.delta \in Texts
  BY DEF WithText
<1>1. e \in ResponseEvents /\ e.type = "delta"
  BY DEF DeltasOf
<1>2. e \in [type : {"delta"}, item : Items, output_index : Nat, delta : Texts]
  BY <1>1 DEF ResponseEvents
<1> QED
  BY <1>2

\* A promise depends on what was sent before.
LEMMA PromisePrefix ==
  ASSUME NEW s \in Seq(ResponseEvents), NEW t \in Seq(ResponseEvents), NEW n \in Nat \ {0},
         n <= Len(s), n <= Len(t), \A k \in 1..n : s[k] = t[k], PromiseAt(s, n)
  PROVE  PromiseAt(t, n)
<1>1. SubSeq(s, 1, n) = SubSeq(t, 1, n)
  <2>1. \A k \in 1..n : s[k] \in ResponseEvents /\ t[k] \in ResponseEvents
    BY ElementOfSeq, LenProperties
  <2>2. /\ SubSeq(s, 1, n) \in Seq(ResponseEvents) /\ Len(SubSeq(s, 1, n)) = n
        /\ \A k \in 1..n : SubSeq(s, 1, n)[k] = s[k]
    BY <2>1, SubSeqProperties, LenProperties
  <2>3. /\ SubSeq(t, 1, n) \in Seq(ResponseEvents) /\ Len(SubSeq(t, 1, n)) = n
        /\ \A k \in 1..n : SubSeq(t, 1, n)[k] = t[k]
    BY <2>1, SubSeqProperties, LenProperties
  <2> QED
    BY <2>2, <2>3, SeqEqual
<1>2. \A types : \A m \in 0..n : SentOf(s, types, m) = SentOf(t, types, m)
  BY DEF SentOf
<1>3. \A type, item : \A m \in 0..n : ItemSent(s, type, item, m) = ItemSent(t, type, item, m)
  <2>1. \A types : \A m \in 0..n : SentOf(s, types, m) \subseteq 1..n
    BY DEF SentOf
  <2> QED
    BY <1>2, <2>1 DEF ItemSent
<1>4. n - 1 \in 0..n /\ n \in 0..n /\ n \in 1..n /\ s[n] = t[n]
  OBVIOUS
<1>5. \A type, item : ItemSent(s, type, item, n - 1) \subseteq 1..n
  BY DEF ItemSent, SentOf
<1>6. {[item |-> s[k].item, content |-> s[k].content] : k \in SentOf(s, {"output_item.done"}, n)}
        = {[item |-> t[k].item, content |-> t[k].content] :
             k \in SentOf(t, {"output_item.done"}, n)}
  <2>1. SentOf(s, {"output_item.done"}, n) \subseteq 1..n
    BY DEF SentOf
  <2> QED
    BY <1>2, <1>4, <2>1
<1> DEFINE e == s[n]
           before(type) == ItemSent(s, type, e.item, n - 1)
           after(type) == ItemSent(t, type, e.item, n - 1)
           done == {[item |-> s[k].item, content |-> s[k].content] :
                      k \in SentOf(s, {"output_item.done"}, n)}
           end == {[item |-> t[k].item, content |-> t[k].content] :
                     k \in SentOf(t, {"output_item.done"}, n)}
<1>7. \A type : before(type) = after(type) /\ before(type) \subseteq 1..n
  BY <1>3, <1>4, <1>5
<1>8. \A k \in before("output_item.added") : s[k] = t[k]
  BY <1>7
<1>9. done = end /\ t[n] = e
  BY <1>4, <1>6
<1>10. /\ e.type = "output_item.added" => before("output_item.added") = {}
       /\ e.type \in {"delta", "content.done", "output_item.done"} =>
            /\ \E k \in before("output_item.added") : s[k].output_index = e.output_index
            /\ before("output_item.done") = {}
       /\ e.type \in {"content.done", "output_item.done"} =>
            e.content = Joined(SubSeq(s, 1, n), DeltasOf(e.item))
       /\ e.type = "response.completed" => done = ToSet(e.output)
  BY Zenon DEF PromiseAt
<1> HIDE DEF e, before, after, done, end
<1>11. /\ e.type = "output_item.added" => after("output_item.added") = {}
       /\ e.type \in {"delta", "content.done", "output_item.done"} =>
            /\ \E k \in after("output_item.added") : t[k].output_index = e.output_index
            /\ after("output_item.done") = {}
       /\ e.type \in {"content.done", "output_item.done"} =>
            e.content = Joined(SubSeq(t, 1, n), DeltasOf(e.item))
       /\ e.type = "response.completed" => end = ToSet(e.output)
  BY <1>1, <1>7, <1>8, <1>9, <1>10
<1> QED
  BY <1>9, <1>11, Zenon DEF PromiseAt, after, end

LEMMA PromisesAppend ==
  ASSUME NEW s \in Seq(ResponseEvents), NEW e \in ResponseEvents, Promises(s),
         PromiseAt(Append(s, e), Len(s) + 1)
  PROVE  Promises(Append(s, e))
<1> DEFINE t == Append(s, e)
<1>1. /\ t \in Seq(ResponseEvents) /\ Len(t) = Len(s) + 1 /\ Len(s) \in Nat
      /\ \A k \in 1..Len(s) : t[k] = s[k]
  BY AppendProperties, LenProperties
<1> HIDE DEF t
<1>2. ASSUME NEW n \in 1..Len(s) PROVE PromiseAt(t, n)
  <2>1. PromiseAt(s, n) /\ n \in Nat \ {0} /\ n <= Len(s) /\ n <= Len(t)
        /\ \A k \in 1..n : s[k] = t[k]
    BY <1>1 DEF Promises
  <2> QED
    BY ONLY <1>1, <2>1, s \in Seq(ResponseEvents), PromisePrefix
<1> QED
  BY <1>1, <1>2 DEF Promises, t

\* What was promised stays so if the stream is cut.
LEMMA PromisesCut ==
  ASSUME NEW s \in Seq(ResponseEvents), NEW t \in Seq(ResponseEvents), Promises(t),
         Len(s) <= Len(t), \A k \in 1..Len(s) : s[k] = t[k]
  PROVE  Promises(s)
<1>1. Len(s) \in Nat /\ Len(t) \in Nat
  BY LenProperties
<1>2. ASSUME NEW n \in 1..Len(s) PROVE PromiseAt(s, n)
  <2>1. PromiseAt(t, n) /\ n \in Nat \ {0} /\ n <= Len(s) /\ n <= Len(t)
        /\ \A k \in 1..n : t[k] = s[k]
    BY <1>1 DEF Promises
  <2> QED
    BY ONLY <1>1, <2>1, s \in Seq(ResponseEvents), t \in Seq(ResponseEvents), PromisePrefix
<1> QED
  BY <1>2 DEF Promises

\* An item has been announced, at this index; it is known.
Announced(s, item, x) ==
  \E k \in ItemSent(s, "output_item.added", item, Len(s)) : s[k].output_index = x
Known(s, item) == ItemSent(s, "output_item.added", item, Len(s)) # {}

\* Nothing is finished yet.
Going(s) ==
  \A k \in 1..Len(s) :
    s[k].type \notin {"content.done", "output_item.done", "response.completed", "[DONE]"}

Streaming(s) == s \in Seq(ResponseEvents) /\ Promises(s) /\ Going(s)

LEMMA ItemsAppend ==
  ASSUME NEW s \in Seq(ResponseEvents), NEW e \in ResponseEvents
  PROVE  LET t == Append(s, e) IN
         /\ t \in Seq(ResponseEvents) /\ Len(t) = Len(s) + 1 /\ Len(s) \in Nat
         /\ t[Len(s) + 1] = e /\ \A k \in 1..Len(s) : t[k] = s[k]
         /\ \A type, item : ItemSent(t, type, item, Len(s)) = ItemSent(s, type, item, Len(s))
         /\ \A item, x : Announced(s, item, x) => Announced(t, item, x)
         /\ e.type # "output_item.added" => \A item : Known(t, item) <=> Known(s, item)
         /\ e.type = "output_item.added" =>
              /\ \A item : Known(t, item) <=> Known(s, item) \/ item = e.item
              /\ Announced(t, e.item, e.output_index)
         /\ Going(s) /\ e.type \in {"response.created", "output_item.added", "delta"} => Going(t)
<1> DEFINE t == Append(s, e)
           m == Len(s)
<1>1. /\ t \in Seq(ResponseEvents) /\ Len(t) = m + 1 /\ m \in Nat
      /\ t[m + 1] = e /\ \A k \in 1..m : t[k] = s[k]
  BY AppendProperties, LenProperties
<1> HIDE DEF t, m
<1>2. \A type, item : ItemSent(t, type, item, m) = ItemSent(s, type, item, m)
  BY <1>1 DEF ItemSent, SentOf
<1>3. \A type, item :
        ItemSent(t, type, item, m + 1)
          = ItemSent(s, type, item, m) \cup (IF e.type = type /\ e.item = item THEN {m + 1} ELSE {})
  <2> SUFFICES ASSUME NEW type, NEW item, NEW k
               PROVE  k \in ItemSent(t, type, item, m + 1)
                        <=> k \in ItemSent(s, type, item, m)
                            \/ (e.type = type /\ e.item = item /\ k = m + 1)
    OBVIOUS
  <2>1. k \in 1..m + 1 <=> (k \in 1..m \/ k = m + 1)
    BY <1>1
  <2>2. m + 1 \notin 1..m
    BY <1>1
  <2> QED
    BY <1>1, <2>1, <2>2, Zenon DEF ItemSent, SentOf
<1>4. \A type, item : ItemSent(s, type, item, m) \subseteq 1..m
  BY DEF ItemSent, SentOf
<1>5. \A item, x : Announced(s, item, x) => Announced(t, item, x)
  BY <1>1, <1>3, <1>4 DEF Announced, m
<1>6. e.type # "output_item.added" => \A item : Known(t, item) <=> Known(s, item)
  BY <1>1, <1>3 DEF Known, m
<1>7. ASSUME e.type = "output_item.added"
      PROVE  /\ \A item : Known(t, item) <=> Known(s, item) \/ item = e.item
             /\ Announced(t, e.item, e.output_index)
  <2>1. \A item : ItemSent(t, "output_item.added", item, m + 1)
                    = ItemSent(s, "output_item.added", item, m)
                        \cup (IF e.item = item THEN {m + 1} ELSE {})
    BY <1>3, <1>7
  <2>2. \A item : Known(t, item) <=> Known(s, item) \/ item = e.item
    BY <1>1, <2>1 DEF Known, m
  <2>3. m + 1 \in ItemSent(t, "output_item.added", e.item, m + 1)
    BY <2>1
  <2>4. Announced(t, e.item, e.output_index)
    BY <1>1, <2>3 DEF Announced
  <2> QED
    BY <2>2, <2>4
<1>8. Going(s) /\ e.type \in {"response.created", "output_item.added", "delta"} => Going(t)
  BY <1>1 DEF Going, m
<1> QED
  BY <1>1, <1>2, <1>5, <1>6, <1>7, <1>8 DEF t, m

\* The deltas of the items.
LEMMA ItemTextAppend ==
  ASSUME NEW s \in Seq(ResponseEvents), NEW e \in ResponseEvents, NEW item
  PROVE  /\ Joined(s, DeltasOf(item)) \in Texts
         /\ e.type # "delta" => Joined(Append(s, e), DeltasOf(item)) = Joined(s, DeltasOf(item))
         /\ e.type = "delta" => 
              Joined(Append(s, e), DeltasOf(item))
                = Joined(s, DeltasOf(item)) \o (IF item = e.item THEN e.delta ELSE <<>>)
<1> DEFINE M == DeltasOf(item)
<1>1. WithText(M)
  BY DeltasOfItems
<1>2. e \in M <=> e.type = "delta" /\ e.item = item
  BY DEF DeltasOf
<1> HIDE DEF M
<1>3. Joined(s, M) \in Texts
  BY <1>1, JoinedType
<1>4. Joined(s, M) \o <<>> = Joined(s, M)
  BY <1>3, TextsConcat
<1>5. Joined(Append(s, e), M) = Joined(s, M) \o (IF e \in M THEN e.delta ELSE <<>>)
  BY <1>1, JoinedAppend
<1> QED
  BY <1>2, <1>3, <1>4, <1>5 DEF M

\* An item that is not known can be announced.
LEMMA Announce ==
  ASSUME NEW s, Streaming(s), NEW item \in Items, ~Known(s, item), NEW x \in Nat
  PROVE  LET e == ItemAdded(item, x) IN e \in ResponseEvents /\ Streaming(Append(s, e))
<1> DEFINE e == ItemAdded(item, x)
           t == Append(s, e)
<1>1. e \in ResponseEvents /\ e.type = "output_item.added" /\ e.item = item
  BY DEF ItemAdded, ResponseEvents
<1> HIDE DEF e
<1>2. s \in Seq(ResponseEvents) /\ Promises(s) /\ Going(s)
  BY DEF Streaming
<1>3. /\ t \in Seq(ResponseEvents) /\ Going(t) /\ t[Len(s) + 1] = e /\ Len(s) \in Nat
      /\ ItemSent(t, "output_item.added", item, Len(s))
           = ItemSent(s, "output_item.added", item, Len(s))
  BY <1>1, <1>2, ItemsAppend
<1> HIDE DEF t
<1>4. ItemSent(t, "output_item.added", item, (Len(s) + 1) - 1) = {}
  BY <1>3 DEF Known
<1>5. PromiseAt(t, Len(s) + 1)
  BY <1>1, <1>3, <1>4 DEF PromiseAt
<1>6. Promises(t)
  BY <1>1, <1>2, <1>5, PromisesAppend DEF t
<1> QED
  BY <1>1, <1>3, <1>6 DEF Streaming, e, t

\* A delta finds an item that was announced.
LEMMA Deliver ==
  ASSUME NEW s, Streaming(s), NEW item \in Items, NEW x \in Nat, Announced(s, item, x),
         NEW delta \in Texts
  PROVE  LET e == Delta(item, x, delta) IN e \in ResponseEvents /\ Streaming(Append(s, e))
<1> DEFINE e == Delta(item, x, delta)
           t == Append(s, e)
<1>1. e \in ResponseEvents /\ e.type = "delta" /\ e.item = item /\ e.output_index = x
  BY DEF Delta, ResponseEvents
<1> HIDE DEF e
<1>2. s \in Seq(ResponseEvents) /\ Promises(s) /\ Going(s)
  BY DEF Streaming
<1>3. /\ t \in Seq(ResponseEvents) /\ Going(t) /\ t[Len(s) + 1] = e /\ Len(s) \in Nat
      /\ \A k \in 1..Len(s) : t[k] = s[k]
      /\ \A type : ItemSent(t, type, item, Len(s)) = ItemSent(s, type, item, Len(s))
  BY <1>1, <1>2, ItemsAppend
<1> HIDE DEF t
<1>4. (Len(s) + 1) - 1 = Len(s)
  BY <1>3
<1>5. ItemSent(t, "output_item.done", item, Len(s)) = {}
  BY <1>2, <1>3 DEF ItemSent, SentOf, Going
<1>6. \E k \in ItemSent(t, "output_item.added", item, Len(s)) : t[k].output_index = x
  <2>1. ItemSent(s, "output_item.added", item, Len(s)) \subseteq 1..Len(s)
    BY DEF ItemSent, SentOf
  <2> QED
    BY <1>3, <2>1 DEF Announced
<1>7. PromiseAt(t, Len(s) + 1)
  BY <1>1, <1>3, <1>4, <1>5, <1>6 DEF PromiseAt
<1>8. Promises(t)
  BY <1>1, <1>2, <1>7, PromisesAppend DEF t
<1> QED
  BY <1>1, <1>3, <1>8 DEF Streaming, e, t

\* A batch of at most two events.
Followed(s, c, e) == IF c THEN Append(s, e) ELSE s

LEMMA PrefixesTwo ==
  ASSUME NEW E, NEW s \in Seq(E), NEW W, s \in W, NEW e \in E, NEW f \in E, NEW c, NEW d,
         Followed(s, c, e) \in W, Followed(Followed(s, c, e), d, f) \in W
  PROVE  /\ If(c, e) \o If(d, f) \in Seq(E)
         /\ AllPrefixes(s, If(c, e) \o If(d, f), W)
         /\ s \o (If(c, e) \o If(d, f)) = Followed(Followed(s, c, e), d, f)
<1> DEFINE none == <<>>
           first == If(c, e)
           u == Followed(s, c, e)
<1>0. /\ u = (IF c THEN Append(s, e) ELSE s) /\ u \in W
      /\ Followed(u, d, f) = (IF d THEN Append(u, f) ELSE u) /\ (d => Append(u, f) \in W)
  BY DEF Followed
<1> HIDE DEF u
<1>1. none \in Seq(E) /\ AllPrefixes(s, none, W) /\ s \o none = s
  BY PrefixesEmpty
<1>2. Append(none, e) = <<e>> /\ \A b \in Seq(E) : b \o none = b
  BY ConcatEmptySeq
<1> HIDE DEF none
<1>3. first \in Seq(E) /\ AllPrefixes(s, first, W) /\ s \o first = u
  <2>1. CASE c
    <3>1. first = <<e>> /\ u = Append(s, e) /\ Append(s, e) \in W
      BY <1>0, <2>1 DEF If
    <3>2. Append(s \o none, e) \in W
      BY <1>1, <3>1
    <3>5. none \in Seq(E) /\ AllPrefixes(s, none, W)
      BY <1>1
    <3>3. AllPrefixes(s, Append(none, e), W) /\ s \o Append(none, e) = Append(s \o none, e)
      BY ONLY s \in Seq(E), e \in E, <3>5, <3>2, PrefixesAppend
    <3>4. <<e>> \in Seq(E)
      OBVIOUS
    <3> QED
      BY <1>1, <1>2, <3>1, <3>3, <3>4
  <2>2. CASE ~c
    BY <1>0, <1>1, <2>2 DEF If, none
  <2> QED
    BY <2>1, <2>2
<1> HIDE DEF first
<1>4. CASE d
  <2>1. If(d, f) = <<f>>
    BY <1>4 DEF If
  <2>2. Append(s \o first, f) \in W
    BY <1>0, <1>3, <1>4
  <2>5. first \in Seq(E) /\ AllPrefixes(s, first, W)
    BY <1>3
  <2>3. AllPrefixes(s, Append(first, f), W) /\ s \o Append(first, f) = Append(s \o first, f)
    BY ONLY s \in Seq(E), f \in E, <2>5, <2>2, PrefixesAppend
  <2>4. Append(first, f) = first \o <<f>> /\ Append(first, f) \in Seq(E)
    BY <1>3, AppendIsConcat, AppendProperties
  <2> QED
    BY <1>0, <1>3, <1>4, <2>1, <2>3, <2>4 DEF first, u
<1>5. CASE ~d
  <2>1. If(d, f) = none
    BY <1>5 DEF If, none
  <2>2. first \o none = first
    BY <1>2, <1>3
  <2> QED
    BY <1>0, <1>3, <1>5, <2>1, <2>2 DEF first, u
<1> QED
  BY <1>4, <1>5

Streams == {s \in Seq(ResponseEvents) : Streaming(s)}

\* An item goes on: it is announced if it is new, and a piece of it is sent.
ItemBatch(item, x, new, some, delta) ==
  If(new, ItemAdded(item, x)) \o If(some, Delta(item, x, delta))

GoesOn(s, item, x, delta, batch, t) ==
  /\ batch \in Seq(ResponseEvents) /\ AllPrefixes(s, batch, Streams)
  /\ t = s \o batch
  /\ Streaming(t) /\ Announced(t, item, x)
  /\ \A j : Known(t, j) <=> Known(s, j) \/ j = item
  /\ \A j, y : Announced(s, j, y) => Announced(t, j, y)
  /\ \A j : Joined(t, DeltasOf(j))
              = Joined(s, DeltasOf(j)) \o (IF j = item THEN delta ELSE <<>>)

LEMMA ItemGoesOn ==
  ASSUME NEW s, Streaming(s), NEW item \in Items, NEW x \in Nat, NEW new, NEW some,
         new => ~Known(s, item), ~new => Known(s, item) /\ Announced(s, item, x),
         NEW delta \in Texts, ~some => delta = <<>>
  PROVE  GoesOn(s, item, x, delta, ItemBatch(item, x, new, some, delta),
                s \o ItemBatch(item, x, new, some, delta))
<1> DEFINE e == ItemAdded(item, x)
           f == Delta(item, x, delta)
           u == IF new THEN Append(s, e) ELSE s
           w == IF some THEN Append(u, f) ELSE u
<1>1. s \in Seq(ResponseEvents) /\ s \in Streams
  BY DEF Streaming, Streams
<1>2. e \in ResponseEvents /\ e.type = "output_item.added" /\ e.item = item /\ e.output_index = x
  BY DEF ItemAdded, ResponseEvents
<1>3. /\ f \in ResponseEvents /\ f.type = "delta" /\ f.item = item /\ f.delta = delta
  BY DEF Delta, ResponseEvents
<1>4. new => Streaming(Append(s, e))
  BY Announce
<1>5. /\ Streaming(u) /\ u \in Seq(ResponseEvents) /\ Announced(u, item, x)
      /\ \A j : Known(u, j) <=> Known(s, j) \/ j = item
      /\ \A j, y : Announced(s, j, y) => Announced(u, j, y)
      /\ \A j : Joined(u, DeltasOf(j)) = Joined(s, DeltasOf(j)) 
  <2> HIDE DEF e
  <2>1. CASE new
    BY <1>1, <1>2, <1>4, <2>1, ItemsAppend, ItemTextAppend
  <2>2. CASE ~new
    BY <1>1, <2>2
  <2> QED
    BY <2>1, <2>2
<1>6. Streaming(Append(u, f))
  <2> HIDE DEF u
  <2> QED
    BY <1>5, Deliver
<1>7. \A j : Joined(s, DeltasOf(j)) \o <<>> = Joined(s, DeltasOf(j))
  BY <1>1, <1>2, ItemTextAppend, TextsConcat
<1> HIDE DEF e, f
<1>8. /\ Streaming(w) /\ w \in Seq(ResponseEvents) /\ Announced(w, item, x)
      /\ \A j : Known(w, j) <=> Known(s, j) \/ j = item
      /\ \A j, y : Announced(s, j, y) => Announced(w, j, y)
      /\ \A j : Joined(w, DeltasOf(j))
                  = Joined(s, DeltasOf(j)) \o (IF j = item THEN delta ELSE <<>>)
  <2> HIDE DEF u
  <2>1. CASE some
    <3>1. w = Append(u, f) /\ w \in Seq(ResponseEvents)
      BY <1>3, <1>5, <2>1, AppendProperties
    <3>2. /\ \A j : Known(w, j) <=> Known(u, j)
          /\ \A j, y : Announced(u, j, y) => Announced(w, j, y)
      BY <1>3, <1>5, <3>1, ItemsAppend
    <3>3. ASSUME NEW j
          PROVE  Joined(w, DeltasOf(j))
                   = Joined(u, DeltasOf(j)) \o (IF j = item THEN delta ELSE <<>>)
      BY ONLY SMTT(30), <1>3, <1>5, <3>1, ItemTextAppend
    <3> HIDE DEF w
    <3> QED
      BY <1>5, <1>6, <3>1, <3>2, <3>3
  <2>2. CASE ~some
    BY <1>5, <1>7, <2>2
  <2> QED
    BY <2>1, <2>2
<1> DEFINE batch == If(new, e) \o If(some, f)
<1>9. u \in Streams /\ Append(u, f) \in Streams
  BY <1>3, <1>5, <1>6, AppendProperties DEF Streams
<1>10. /\ batch \in Seq(ResponseEvents) /\ AllPrefixes(s, batch, Streams)
       /\ s \o batch = w
  <2>1. u = Followed(s, new, e) /\ w = Followed(Followed(s, new, e), some, f)
    BY DEF Followed
  <2>2. Followed(s, new, e) \in Streams /\ Followed(Followed(s, new, e), some, f) \in Streams
    BY <1>9, <2>1
  <2>3. e \in ResponseEvents /\ f \in ResponseEvents
    BY <1>2, <1>3
  <2> HIDE DEF u, w
  <2>4. /\ batch \in Seq(ResponseEvents) /\ AllPrefixes(s, batch, Streams)
        /\ s \o batch = Followed(Followed(s, new, e), some, f)
    BY ONLY <1>1, <2>2, <2>3, PrefixesTwo DEF batch
  <2> QED
    BY <2>1, <2>4
<1> HIDE DEF w, u, batch
<1> QED
  BY <1>8, <1>10, Zenon DEF batch, e, f, GoesOn, ItemBatch

--------------------------------------------------------------------------------
(***************************************************************************)
(* The adapter of a Responses stream.                                      *)
(***************************************************************************)
OpenCall == [arguments : Texts, output_index : Nat]
OpenCalls == UNION {[D -> OpenCall] : D \in Indices}

ResponseAdapters ==
  [text : Texts, text_started : BOOLEAN, calls : OpenCalls, usage : 0..MaxData]

Heard(calls, i) == IF i \in DOMAIN calls THEN calls[i].arguments ELSE <<>>

ResponseHeard(a) ==
  [text |-> a.text, arguments |-> [i \in Nat |-> Heard(a.calls, i)],
   calls |-> DOMAIN a.calls, usage |-> a.usage]

\* The adapter's fields are those of what was sent.
Carries(s, a) ==
  /\ Streaming(s)
  /\ Known(s, Message) <=> a.text_started
  /\ a.text_started => Announced(s, Message, 0)
  /\ a.text_started <=> a.text # <<>>
  /\ \A i \in Nat : Known(s, Call(i)) <=> i \in DOMAIN a.calls
  /\ \A i \in DOMAIN a.calls : Announced(s, Call(i), a.calls[i].output_index)
  /\ Joined(s, DeltasOf(Message)) = a.text
  /\ \A i \in Nat : Joined(s, DeltasOf(Call(i))) = Heard(a.calls, i)

\* A batch that leads from one adapter to another.
Carried(s, a, batch, b) ==
  /\ batch \in Seq(ResponseEvents)
  /\ AllPrefixes(s, batch, Streams)
  /\ b \in ResponseAdapters
  /\ Carries(s \o batch, b)

LEMMA HeardType ==
  ASSUME NEW calls \in OpenCalls
  PROVE  /\ DOMAIN calls \in Indices /\ DOMAIN calls \subseteq Nat
         /\ \A i \in DOMAIN calls : calls[i].arguments \in Texts /\ calls[i].output_index \in Nat
         /\ \A i : Heard(calls, i) \in Texts
<1>1. PICK D \in Indices : calls \in [D -> OpenCall]
  BY DEF OpenCalls
<1>2. \A i \in D : calls[i] \in OpenCall
  BY <1>1
<1>3. \A i \in D : calls[i].arguments \in Texts /\ calls[i].output_index \in Nat
  BY <1>2 DEF OpenCall
<1>4. <<>> \in Texts
  BY DEF Texts
<1>5. DOMAIN calls = D /\ D \subseteq Nat
  BY <1>1 DEF Indices
<1> QED
  BY <1>3, <1>4, <1>5 DEF Heard

LEMMA ResponseHeardType ==
  ASSUME NEW a \in ResponseAdapters
  PROVE  ResponseHeard(a) \in Heards
<1>1. /\ a.text \in Texts /\ a.calls \in OpenCalls /\ a.usage \in Nat
  BY BoundsAssumption DEF ResponseAdapters
<1>2. [i \in Nat |-> Heard(a.calls, i)] \in [Nat -> Texts]
  BY <1>1, HeardType
<1>3. DOMAIN a.calls \in SUBSET Nat
  BY <1>1, HeardType
<1> QED
  BY <1>1, <1>2, <1>3 DEF ResponseHeard, Heards

\* The text of a chunk.
LEMMA ResponsesTextCarries ==
  ASSUME NEW s, NEW a \in ResponseAdapters, Carries(s, a), NEW delta \in Texts, delta # <<>>
  PROVE  LET f == ResponsesText(a, delta)
             b == f.adapter
         IN  /\ Carried(s, a, f.events, b)
             /\ b.text = a.text \o delta /\ b.calls = a.calls /\ b.usage = a.usage
<1> DEFINE f == ResponsesText(a, delta)
           b == f.adapter
           new == ~a.text_started
           batch == ItemBatch(Message, 0, new, TRUE, delta)
           t == s \o batch
<1>1. /\ a.text \in Texts /\ a.text_started \in BOOLEAN /\ a.calls \in OpenCalls
      /\ a.usage \in 0..MaxData
  BY DEF ResponseAdapters
<1>2. f.events = batch /\ b = [a EXCEPT !.text = @ \o delta, !.text_started = TRUE]
  BY DEF ResponsesText, Announces, If, ItemBatch
<1>3. a.text \o delta \in Texts /\ a.text \o delta # <<>>
  BY <1>1, TextsConcat, TextsNothing
<1>4. /\ b \in ResponseAdapters /\ b.text = a.text \o delta /\ b.text_started
      /\ b.calls = a.calls /\ b.usage = a.usage
  BY <1>1, <1>2, <1>3 DEF ResponseAdapters
<1>5. Message \in Items /\ 0 \in Nat
  BY DEF Items
<1>6. /\ batch \in Seq(ResponseEvents) /\ AllPrefixes(s, batch, Streams)
      /\ Streaming(t) /\ Announced(t, Message, 0)
      /\ \A j : Known(t, j) <=> Known(s, j) \/ j = Message
      /\ \A j, y : Announced(s, j, y) => Announced(t, j, y)
      /\ \A j : Joined(t, DeltasOf(j))
                  = Joined(s, DeltasOf(j)) \o (IF j = Message THEN delta ELSE <<>>)
  <2>1. /\ Streaming(s) /\ (new => ~Known(s, Message))
        /\ (~new => Known(s, Message) /\ Announced(s, Message, 0))
    BY <1>1 DEF Carries
  <2>2. ~TRUE => delta = <<>>
    OBVIOUS
  <2> HIDE DEF new
  <2>3. GoesOn(s, Message, 0, delta, batch, t)
    BY <1>5, <2>1, <2>2, ItemGoesOn
  <2> QED
    BY <2>3 DEF GoesOn
<1> HIDE DEF f, b, batch
<1>7. \A i \in Nat : Joined(t, DeltasOf(Call(i))) = Heard(a.calls, i)
  <2>1. \A i \in Nat : Joined(t, DeltasOf(Call(i))) = Heard(a.calls, i) \o <<>>
    BY <1>6, ItemsDiffer DEF Carries
  <2>2. \A i \in Nat : Heard(a.calls, i) \o <<>> = Heard(a.calls, i)
    BY <1>1, HeardType, TextsConcat
  <2> QED
    BY <2>1, <2>2
<1>8. Joined(t, DeltasOf(Message)) = b.text
  BY <1>4, <1>6 DEF Carries
<1>9. Carries(t, b)
  <2> HIDE DEF t
  <2>1. \A i \in Nat : Known(t, Call(i)) <=> i \in DOMAIN a.calls
    BY <1>6, ItemsDiffer DEF Carries
  <2>2. \A i \in DOMAIN a.calls : Announced(t, Call(i), a.calls[i].output_index)
    BY <1>6 DEF Carries
  <2> QED
    BY <1>3, <1>4, <1>6, <1>7, <1>8, <2>1, <2>2 DEF Carries
<1> QED
  BY <1>2, <1>4, <1>6, <1>9 DEF Carried, f, b, t

LEMMA PutCalls ==
  ASSUME NEW calls \in OpenCalls, NEW index \in Nat, NEW call \in OpenCall
  PROVE  LET more == Put(calls, index, call) IN
         /\ more \in OpenCalls /\ DOMAIN more = DOMAIN calls \cup {index}
         /\ more[index] = call /\ \A i \in DOMAIN calls : i # index => more[i] = calls[i]
         /\ \A i : i # index => Heard(more, i) = Heard(calls, i)
         /\ Heard(more, index) = call.arguments
<1> DEFINE more == Put(calls, index, call)
<1>1. PICK D \in Indices : calls \in [D -> OpenCall]
  BY DEF OpenCalls
<1>2. D \cup {index} \in Indices
  <2>1. IsFiniteSet(D) /\ D \subseteq Nat
    BY DEF Indices
  <2>2. IsFiniteSet(D \cup {index})
    BY <2>1, FS_AddElement
  <2> QED
    BY <2>1, <2>2 DEF Indices
<1>3. /\ more \in [D \cup {index} -> OpenCall] /\ more[index] = call
      /\ \A i \in D : i # index => more[i] = calls[i]
  BY <1>1 DEF Put
<1> HIDE DEF more
<1>4. more \in OpenCalls
  BY <1>2, <1>3 DEF OpenCalls
<1>5. DOMAIN more = D \cup {index} /\ DOMAIN calls = D
  BY <1>1, <1>3
<1>6. /\ \A i : i # index => Heard(more, i) = Heard(calls, i)
      /\ Heard(more, index) = call.arguments
  BY <1>3, <1>5 DEF Heard
<1> QED
  BY <1>3, <1>4, <1>5, <1>6 DEF more

\* The call a piece belongs to.
CallFor(a, index) ==
  IF index \notin DOMAIN a.calls
  THEN [arguments |-> <<>>,
        output_index |-> (IF a.text_started THEN 1 ELSE 0) + Cardinality(DOMAIN a.calls)]
  ELSE a.calls[index]

LEMMA CallForType ==
  ASSUME NEW a \in ResponseAdapters, NEW index \in Nat, NEW delta \in Texts
  PROVE  LET call == CallFor(a, index)
             more == [call EXCEPT !.arguments = @ \o delta]
         IN  /\ call \in OpenCall /\ call.arguments = Heard(a.calls, index)
             /\ call.output_index \in Nat
             /\ more \in OpenCall /\ more.arguments = call.arguments \o delta
             /\ more.output_index = call.output_index
<1> DEFINE call == CallFor(a, index)
<1>1. a.calls \in OpenCalls
  BY DEF ResponseAdapters
<1>2. PICK D \in Indices : a.calls \in [D -> OpenCall]
  BY <1>1 DEF OpenCalls
<1>3. Cardinality(D) \in Nat /\ DOMAIN a.calls = D
  BY <1>2, FS_CardinalityType DEF Indices
<1>4. <<>> \in Texts
  BY DEF Texts
<1>5. call \in OpenCall /\ call.arguments = Heard(a.calls, index)
  <2>1. CASE index \in D
    BY <1>2, <1>3, <2>1 DEF CallFor, Heard
  <2>2. CASE index \notin D
    BY <1>3, <1>4, <2>2 DEF CallFor, Heard, OpenCall
  <2> QED
    BY <2>1, <2>2
<1> HIDE DEF call
<1>6. call.arguments \in Texts /\ call.output_index \in Nat
  BY <1>5 DEF OpenCall
<1>7. call.arguments \o delta \in Texts
  BY <1>6, TextsConcat
<1>8. LET more == [call EXCEPT !.arguments = @ \o delta] IN
      /\ more \in OpenCall /\ more.arguments = call.arguments \o delta
      /\ more.output_index = call.output_index
  BY <1>5, <1>7 DEF OpenCall
<1> QED
  BY <1>5, <1>6, <1>8 DEF call

\* A piece of a tool call.
LEMMA ResponsesToolCarries ==
  ASSUME NEW s, NEW a \in ResponseAdapters, Carries(s, a), NEW index \in Nat, NEW delta \in Texts
  PROVE  LET f == ResponsesTool(a, index, delta)
             b == f.adapter
         IN  /\ Carried(s, a, f.events, b)
             /\ b.text = a.text /\ b.usage = a.usage
             /\ DOMAIN b.calls = DOMAIN a.calls \cup {index}
             /\ \A i : i # index => Heard(b.calls, i) = Heard(a.calls, i)
             /\ Heard(b.calls, index) = Heard(a.calls, index) \o delta
<1> DEFINE f == ResponsesTool(a, index, delta)
           b == f.adapter
           new == index \notin DOMAIN a.calls
           call == CallFor(a, index)
           more == [call EXCEPT !.arguments = @ \o delta]
           item == Call(index)
           x == call.output_index
           batch == ItemBatch(item, x, new, delta # <<>>, delta)
           t == s \o batch
<1>1. /\ a.text \in Texts /\ a.text_started \in BOOLEAN /\ a.calls \in OpenCalls
      /\ a.usage \in 0..MaxData
  BY DEF ResponseAdapters
<1>2. f.events = batch /\ b = [a EXCEPT !.calls = Put(@, index, more)]
  BY DEF ResponsesTool, ItemBatch, CallFor
<1>3. /\ call \in OpenCall /\ call.arguments = Heard(a.calls, index) /\ x \in Nat
      /\ more \in OpenCall /\ more.arguments = call.arguments \o delta
      /\ more.output_index = x
  BY CallForType
<1> HIDE DEF more
<1>4. LET calls == Put(a.calls, index, more) IN
      /\ calls \in OpenCalls /\ DOMAIN calls = DOMAIN a.calls \cup {index}
      /\ calls[index] = more /\ \A i \in DOMAIN a.calls : i # index => calls[i] = a.calls[i]
      /\ \A i : i # index => Heard(calls, i) = Heard(a.calls, i)
      /\ Heard(calls, index) = more.arguments
  <2>1. a.calls \in OpenCalls /\ more \in OpenCall
    BY <1>1, <1>3
  <2> QED
    BY ONLY ZenonT(60), index \in Nat, <2>1, PutCalls
<1>5. /\ b \in ResponseAdapters /\ b.text = a.text /\ b.text_started = a.text_started
      /\ b.calls = Put(a.calls, index, more) /\ b.usage = a.usage
  BY <1>1, <1>2, <1>4 DEF ResponseAdapters
<1>6. item \in Items
  BY DEF Items
<1>7. ~new => call = a.calls[index]
  BY DEF CallFor
<1> HIDE DEF f, b, call
<1>8. GoesOn(s, item, x, delta, batch, t)
  <2>1. /\ Streaming(s) /\ (new => ~Known(s, item))
        /\ (~new => Known(s, item) /\ Announced(s, item, x))
    BY <1>7 DEF Carries
  <2>2. ~(delta # <<>>) => delta = <<>>
    OBVIOUS
  <2> DEFINE some == delta # <<>>
  <2> HIDE DEF new, item, x
  <2>3. ~some => delta = <<>>
    BY <2>2
  <2> HIDE DEF some
  <2>4. GoesOn(s, item, x, delta, ItemBatch(item, x, new, some, delta),
               s \o ItemBatch(item, x, new, some, delta))
    BY <1>3, <1>6, <2>1, <2>3, ItemGoesOn
  <2> QED
    BY <2>4 DEF some
<1> HIDE DEF batch, t
<1>9. \A i \in Nat : Joined(t, DeltasOf(Call(i))) = Heard(b.calls, i)
  <2>1. \A i \in Nat : Joined(t, DeltasOf(Call(i)))
                         = Heard(a.calls, i) \o (IF i = index THEN delta ELSE <<>>)
    BY ZenonT(60), <1>8, ItemsDiffer DEF Carries, GoesOn
  <2>2. \A i \in Nat : Heard(a.calls, i) \o <<>> = Heard(a.calls, i)
    BY <1>1, HeardType, TextsConcat
  <2> QED
    BY <1>3, <1>4, <1>5, <2>1, <2>2
<1>10. Joined(t, DeltasOf(Message)) = b.text
  <2>1. Joined(t, DeltasOf(Message)) = a.text \o <<>>
    BY <1>8, ItemsDiffer DEF Carries, GoesOn
  <2> QED
    BY <1>1, <1>5, <2>1, TextsConcat
<1>11. \A i \in Nat : Known(t, Call(i)) <=> i \in DOMAIN b.calls
  BY <1>4, <1>5, <1>8, ItemsDiffer DEF Carries, GoesOn
<1>12. ASSUME NEW i \in DOMAIN b.calls PROVE Announced(t, Call(i), b.calls[i].output_index)
  <2>1. CASE i = index
    BY <1>3, <1>4, <1>5, <1>8, <2>1 DEF GoesOn
  <2>2. CASE i # index
    BY <1>4, <1>5, <1>8, <2>2 DEF Carries, GoesOn
  <2> QED
    BY <2>1, <2>2
<1>13. /\ Streaming(t) /\ (Known(t, Message) <=> a.text_started)
       /\ (a.text_started => Announced(t, Message, 0)) /\ (a.text_started <=> a.text # <<>>)
  BY <1>8, ItemsDiffer DEF Carries, GoesOn
<1>14. Carries(t, b)
  BY <1>5, <1>9, <1>10, <1>11, <1>12, <1>13 DEF Carries
<1>15. Carried(s, a, batch, b)
  BY <1>5, <1>8, <1>14 DEF Carried, GoesOn
<1> QED
  BY <1>2, <1>3, <1>4, <1>5, <1>15 DEF f, b

\* What a chunk reports of usage is noted before anything else.
Counted(a, usage) == [a EXCEPT !.usage = IF usage = 0 THEN @ ELSE usage]

LEMMA CountedType ==
  ASSUME NEW a \in ResponseAdapters, NEW usage \in 0..MaxData
  PROVE  LET b == Counted(a, usage) IN
         /\ b \in ResponseAdapters
         /\ b.text = a.text /\ b.text_started = a.text_started /\ b.calls = a.calls
         /\ b.usage = (IF usage = 0 THEN a.usage ELSE usage)
         /\ usage = 0 => b = a
<1>1. /\ a.text \in Texts /\ a.text_started \in BOOLEAN /\ a.calls \in OpenCalls
      /\ a.usage \in 0..MaxData /\ a = [a EXCEPT !.usage = a.usage]
  BY DEF ResponseAdapters
<1> QED
  BY <1>1 DEF Counted, ResponseAdapters

\* How an event is fed.
LEMMA ResponseForms ==
  ASSUME NEW a \in ResponseAdapters, NEW e \in Canonical
  PROVE  LET f == ResponsesFeed(a, Rendered(e)) IN
         /\ e.type \in {"text", "reasoning"} => f = ResponsesText(a, e.delta)
         /\ e.type = "tool" => f = ResponsesTool(a, e.index, e.delta)
         /\ e.type = "usage" => f = [adapter |-> Counted(a, e.usage), events |-> <<>>]
         /\ e.type \in {"done", "error"} => f = [adapter |-> Counted(a, 0), events |-> <<>>]
<1> DEFINE f == ResponsesFeed(a, Rendered(e))
           r == Rendered(e)
<1>1. 0 \in 0..MaxData
  BY BoundsAssumption
<1>2. Counted(a, 0) = a
  BY <1>1, CountedType
<1>3. f = LET b == Counted(a, r.usage)
          IN  IF r.text # <<>> THEN ResponsesText(b, r.text)
              ELSE IF r.tools # <<>>
              THEN ResponsesTool(b, r.tools[1].index, r.tools[1].delta)
              ELSE [adapter |-> b, events |-> <<>>]
  BY DEF ResponsesFeed, Counted
<1>4. ASSUME e.type \in {"text", "reasoning"} PROVE f = ResponsesText(a, e.delta)
  <2>1. r.usage = 0 /\ r.text = e.delta
    BY <1>4 DEF Rendered
  <2>2. e.delta # <<>>
    BY <1>4, CanonicalTypes
  <2> HIDE DEF r, f
  <2> QED
    BY <1>2, <1>3, <2>1, <2>2
<1>5. ASSUME e.type = "tool" PROVE f = ResponsesTool(a, e.index, e.delta)
  <2>1. r.usage = 0 /\ r.text = <<>> /\ r.tools = <<[index |-> e.index, delta |-> e.delta]>>
    BY <1>5 DEF Rendered
  <2>2. r.tools # <<>> /\ r.tools[1].index = e.index /\ r.tools[1].delta = e.delta
    BY <2>1
  <2> HIDE DEF r, f
  <2> QED
    BY <1>2, <1>3, <2>1, <2>2
<1>6. ASSUME e.type \in {"usage", "done", "error"}
      PROVE  f = [adapter |-> Counted(a, IF e.type = "usage" THEN e.usage ELSE 0), events |-> <<>>]
  <2>1. /\ r.usage = (IF e.type = "usage" THEN e.usage ELSE 0)
        /\ r.text = <<>> /\ r.tools = <<>>
    BY <1>6 DEF Rendered
  <2> HIDE DEF r, f
  <2> QED
    BY <1>3, <2>1
<1> HIDE DEF f
<1> QED
  BY <1>4, <1>5, <1>6 DEF f

LEMMA ResponseHears ==
  ASSUME NEW a, NEW b, NEW e \in Canonical,
         b.text = a.text \o TextOfEvent(e),
         \A i \in Nat : Heard(b.calls, i) = Heard(a.calls, i) \o ArgumentsOfEvent(e, i),
         DOMAIN b.calls = DOMAIN a.calls \cup CallsOfEvent(e),
         b.usage = IF e.type = "usage" THEN e.usage ELSE a.usage
  PROVE  Hears(ResponseHeard(a), e, ResponseHeard(b))
<1> DEFINE h == ResponseHeard(a)
           g == ResponseHeard(b)
<1>1. /\ h.text = a.text /\ g.text = b.text /\ h.calls = DOMAIN a.calls
      /\ g.calls = DOMAIN b.calls /\ h.usage = a.usage /\ g.usage = b.usage
      /\ \A i \in Nat : h.arguments[i] = Heard(a.calls, i)
      /\ \A i \in Nat : g.arguments[i] = Heard(b.calls, i)
  BY DEF ResponseHeard
<1> HIDE DEF h, g
<1>2. Hears(h, e, g)
  BY <1>1 DEF Hears
<1> QED
  BY <1>2 DEF h, g

\* One event through the Responses adapter.
LEMMA ResponseFeedTells ==
  ASSUME NEW s, NEW a \in ResponseAdapters, Carries(s, a), NEW e \in Canonical
  PROVE  LET f == ResponsesFeed(a, Rendered(e)) IN
         /\ Carried(s, a, f.events, f.adapter)
         /\ Hears(ResponseHeard(a), e, ResponseHeard(f.adapter))
<1> DEFINE f == ResponsesFeed(a, Rendered(e))
           b == f.adapter
<1>1. /\ a.text \in Texts /\ a.calls \in OpenCalls /\ \A i : Heard(a.calls, i) \in Texts
  BY HeardType DEF ResponseAdapters
<1>2. /\ a.text \o <<>> = a.text /\ \A i : Heard(a.calls, i) \o <<>> = Heard(a.calls, i)
  BY <1>1, TextsConcat
<1>3. ASSUME e.type \in {"text", "reasoning"}
      PROVE  Carried(s, a, f.events, b) /\ Hears(ResponseHeard(a), e, ResponseHeard(b))
  <2> DEFINE g == ResponsesText(a, e.delta)
  <2>1. e.delta \in Texts /\ e.delta # <<>> /\ e \in Texty /\ \A i : e \notin PieceOf(i)
    BY <1>3, CanonicalTypes
  <2>2. /\ Carried(s, a, g.events, g.adapter)
        /\ g.adapter.text = a.text \o e.delta /\ g.adapter.calls = a.calls
        /\ g.adapter.usage = a.usage
    BY <2>1, ResponsesTextCarries
  <2>3. f = g
    BY <1>3, ResponseForms
  <2> HIDE DEF g, f
  <2>4. /\ TextOfEvent(e) = e.delta /\ \A i : ArgumentsOfEvent(e, i) = <<>>
        /\ CallsOfEvent(e) = {}
    BY <1>3, <2>1 DEF TextOfEvent, ArgumentsOfEvent, CallsOfEvent
  <2>5. Hears(ResponseHeard(a), e, ResponseHeard(b))
    BY <1>2, <1>3, <2>2, <2>3, <2>4, ResponseHears
  <2> QED
    BY <2>2, <2>3, <2>5
<1>4. ASSUME e.type = "tool"
      PROVE  Carried(s, a, f.events, b) /\ Hears(ResponseHeard(a), e, ResponseHeard(b))
  <2> DEFINE g == ResponsesTool(a, e.index, e.delta)
  <2>1. e.delta \in Texts /\ e.index \in Nat /\ e \notin Texty
        /\ \A i : e \in PieceOf(i) <=> i = e.index
    BY <1>4, CanonicalTypes
  <2>2. /\ Carried(s, a, g.events, g.adapter)
        /\ g.adapter.text = a.text /\ g.adapter.usage = a.usage
        /\ DOMAIN g.adapter.calls = DOMAIN a.calls \cup {e.index}
        /\ \A i : i # e.index => Heard(g.adapter.calls, i) = Heard(a.calls, i)
        /\ Heard(g.adapter.calls, e.index) = Heard(a.calls, e.index) \o e.delta
    <3>1. e.index \in Nat /\ e.delta \in Texts
      BY <2>1
    <3> QED
      BY ONLY ZenonT(60), a \in ResponseAdapters, Carries(s, a), <3>1, ResponsesToolCarries
  <2>3. f = g
    BY <1>4, ResponseForms
  <2> HIDE DEF g, f
  <2>4. /\ TextOfEvent(e) = <<>>
        /\ \A i : ArgumentsOfEvent(e, i) = IF i = e.index THEN e.delta ELSE <<>>
        /\ CallsOfEvent(e) = {e.index}
    BY <1>4, <2>1 DEF TextOfEvent, ArgumentsOfEvent, CallsOfEvent
  <2>5. \A i \in Nat : Heard(b.calls, i) = Heard(a.calls, i) \o ArgumentsOfEvent(e, i)
    BY <1>2, <2>2, <2>3, <2>4
  <2>6. Hears(ResponseHeard(a), e, ResponseHeard(b))
    BY <1>2, <1>4, <2>2, <2>3, <2>4, <2>5, ResponseHears
  <2> QED
    BY <2>2, <2>3, <2>6
<1>5. ASSUME e.type \in {"usage", "done", "error"}
      PROVE  Carried(s, a, f.events, b) /\ Hears(ResponseHeard(a), e, ResponseHeard(b))
  <2> DEFINE usage == IF e.type = "usage" THEN e.usage ELSE 0
             n == Counted(a, usage)
  <2>1. e.type = "usage" => e.usage \in 1..MaxData
    BY CanonicalTypes
  <2>2. usage \in 0..MaxData /\ (e.type = "usage" => usage # 0)
    BY <2>1, BoundsAssumption
  <2>3. f.adapter = n /\ f.events = <<>>
    BY <1>5, ResponseForms
  <2>4. e \notin Texty /\ \A i : e \notin PieceOf(i)
    BY <1>5, CanonicalTypes
  <2>5. /\ TextOfEvent(e) = <<>> /\ \A i : ArgumentsOfEvent(e, i) = <<>>
        /\ CallsOfEvent(e) = {}
    BY <1>5, <2>4 DEF TextOfEvent, ArgumentsOfEvent, CallsOfEvent
  <2> HIDE DEF f
  <2>6. /\ n \in ResponseAdapters
        /\ n.text = a.text /\ n.text_started = a.text_started /\ n.calls = a.calls
        /\ n.usage = IF e.type = "usage" THEN e.usage ELSE a.usage
    <3> HIDE DEF usage
    <3>1. /\ n \in ResponseAdapters
          /\ n.text = a.text /\ n.text_started = a.text_started /\ n.calls = a.calls
          /\ n.usage = (IF usage = 0 THEN a.usage ELSE usage)
      BY <2>2, CountedType
    <3> QED
      BY <2>2, <3>1 DEF usage
  <2> HIDE DEF n
  <2>7. s \in Seq(ResponseEvents) /\ s \in Streams
    BY DEF Carries, Streaming, Streams
  <2>8. <<>> \in Seq(ResponseEvents) /\ AllPrefixes(s, <<>>, Streams) /\ s \o <<>> = s
    BY <2>7, PrefixesEmpty
  <2>9. Carries(s, n)
    BY <2>6 DEF Carries
  <2>10. Carried(s, a, <<>>, n)
    BY <2>6, <2>8, <2>9 DEF Carried
  <2>11. Hears(ResponseHeard(a), e, ResponseHeard(n))
    BY <1>2, <2>5, <2>6, ResponseHears
  <2> QED
    BY <2>3, <2>10, <2>11
<1>6. e.type \in {"usage", "text", "reasoning", "tool", "done", "error"}
  BY CanonicalTypes
<1> HIDE DEF f, b
<1>7. Carried(s, a, f.events, b) /\ Hears(ResponseHeard(a), e, ResponseHeard(b))
  BY <1>3, <1>4, <1>5, <1>6
<1> QED
  BY <1>7 DEF f, b

--------------------------------------------------------------------------------
(***************************************************************************)
(* The calls one after the other.                                          *)
(***************************************************************************)
Rises(order, D) ==
  /\ order \in [1..Cardinality(D) -> D]
  /\ \A j, k \in 1..Cardinality(D) : j < k => order[j] < order[k]

LEMMA OrderedBelow ==
  \A n \in Nat : \A D \in SUBSET (0..n - 1) : \E order : Rises(order, D)
<1> DEFINE S == {n \in Nat : \A D \in SUBSET (0..n - 1) : \E order : Rises(order, D)}
<1>1. 0 \in S
  <2> SUFFICES ASSUME NEW D \in SUBSET (0..0 - 1) PROVE \E order : Rises(order, D)
    OBVIOUS
  <2>1. D = {} /\ Cardinality(D) = 0
    <3>1. 0..0 - 1 = {}
      OBVIOUS
    <3> QED
      BY <3>1, FS_EmptySet
  <2>2. [k \in 1..0 |-> 0] \in [1..0 -> D]
    OBVIOUS
  <2>3. Rises([k \in 1..0 |-> 0], D)
    BY <2>1, <2>2 DEF Rises
  <2> QED
    BY <2>3
<1>2. ASSUME NEW n \in Nat, n \in S PROVE n + 1 \in S
  <2> SUFFICES ASSUME NEW D \in SUBSET (0..(n + 1) - 1) PROVE \E order : Rises(order, D)
    OBVIOUS
  <2>1. CASE n \notin D
    <3>1. D \in SUBSET (0..n - 1)
      BY <2>1
    <3> QED
      BY <1>2, <3>1
  <2>2. CASE n \in D
    <3> DEFINE E == D \ {n}
               m == Cardinality(E)
    <3>1. E \in SUBSET (0..n - 1)
      OBVIOUS
    <3>2. PICK order : Rises(order, E)
      BY <1>2, <3>1
    <3>3. IsFiniteSet(E) /\ m \in Nat
      <4>1. IsFiniteSet(0..n - 1)
        BY FS_Interval
      <4> HIDE DEF E
      <4> QED
        BY ONLY <3>1, <4>1, FS_Subset, FS_CardinalityType
    <3>4. D = E \cup {n} /\ n \notin E
      BY <2>2
    <3> HIDE DEF E
    <3>5. Cardinality(D) = m + 1
      BY <3>3, <3>4, FS_AddElement
    <3> DEFINE more == [k \in 1..m + 1 |-> IF k = m + 1 THEN n ELSE order[k]]
    <3> HIDE DEF m
    <3>6. order \in [1..m -> E] /\ \A j, k \in 1..m : j < k => order[j] < order[k]
      BY <3>2 DEF Rises, m
    <3>7. more \in [1..m + 1 -> D]
      BY <3>3, <3>4, <3>6
    <3>8. \A k \in 1..m : more[k] = order[k] /\ order[k] \in E /\ order[k] < n
      <4>1. \A k \in 1..m : k \in 1..m + 1 /\ k # m + 1
        BY <3>3
      <4>2. \A k \in 1..m : order[k] \in E
        BY <3>6
      <4>3. \A i \in E : i < n
        BY <3>1
      <4> QED
        BY <4>1, <4>2, <4>3
    <3>9. more[m + 1] = n
      BY <3>3
    <3> HIDE DEF more
    <3>10. ASSUME NEW j \in 1..m + 1, NEW k \in 1..m + 1, j < k PROVE more[j] < more[k]
      <4>1. j \in 1..m /\ (k \in 1..m \/ k = m + 1)
        BY <3>3, <3>10
      <4> QED
        BY <3>6, <3>8, <3>9, <3>10, <4>1
    <3>11. Rises(more, D)
      BY <3>5, <3>7, <3>10 DEF Rises
    <3> QED
      BY <3>11
  <2> QED
    BY <2>1, <2>2
<1> HIDE DEF S
<1>3. Nat \subseteq S
  BY <1>1, <1>2, NatSetInduction
<1> QED
  BY <1>3 DEF S

LEMMA BoundedIndices ==
  ASSUME NEW D \in Indices
  PROVE  \E n \in Nat : D \subseteq 0..n - 1
<1> DEFINE B(E) == \E n \in Nat : E \subseteq 0..n - 1
           S == {c \in Nat : \A E \in Indices : Cardinality(E) = c => B(E)}
<1>1. 0 \in S
  <2> SUFFICES ASSUME NEW E \in Indices, Cardinality(E) = 0 PROVE B(E)
    OBVIOUS
  <2>1. E = {}
    BY FS_EmptySet DEF Indices
  <2> QED
    BY <2>1
<1>2. ASSUME NEW c \in Nat, c \in S PROVE c + 1 \in S
  <2> SUFFICES ASSUME NEW E \in Indices, Cardinality(E) = c + 1 PROVE B(E)
    OBVIOUS
  <2>1. IsFiniteSet(E) /\ E \in SUBSET Nat
    BY DEF Indices
  <2>2. E # {}
    BY <2>1, FS_EmptySet
  <2>3. PICK x : x \in E
    BY <2>2
  <2>4. IsFiniteSet(E \ {x}) /\ Cardinality(E \ {x}) = c
    BY <2>1, <2>3, FS_RemoveElement
  <2>5. E \ {x} \in Indices
    BY <2>1, <2>4 DEF Indices
  <2>6. PICK n \in Nat : E \ {x} \subseteq 0..n - 1
    BY <1>2, <2>4, <2>5
  <2>7. x \in Nat
    BY <2>1, <2>3
  <2>8. n + x + 1 \in Nat /\ E \subseteq 0..(n + x + 1) - 1
    BY <2>6, <2>7
  <2> QED
    BY <2>8
<1> HIDE DEF S
<1>3. Nat \subseteq S
  BY <1>1, <1>2, NatSetInduction
<1>4. Cardinality(D) \in Nat
  BY FS_CardinalityType DEF Indices
<1> QED
  BY <1>3, <1>4 DEF S

LEMMA InOrderRises ==
  ASSUME NEW D \in Indices
  PROVE  Rises(InOrder(D), D)
<1>1. PICK n \in Nat : D \subseteq 0..n - 1
  BY BoundedIndices
<1>2. PICK order : Rises(order, D)
  BY <1>1, OrderedBelow
<1>3. \E o \in [1..Cardinality(D) -> D] :
        \A j, k \in 1..Cardinality(D) : j < k => o[j] < o[k]
  BY <1>2 DEF Rises
<1> QED
  BY <1>3 DEF InOrder, Rises

LEMMA CallItemsTell ==
  ASSUME NEW calls \in OpenCalls
  PROVE  LET c == CallItems(calls)
             m == Cardinality(DOMAIN calls)
         IN  /\ c \in Seq(Done) /\ Len(c) = m /\ m \in Nat
             /\ \A k \in 1..m : \E i \in DOMAIN calls :
                  c[k] = [item |-> Call(i), content |-> calls[i].arguments]
             /\ \A j, k \in 1..m : c[j].item = c[k].item => j = k
<1> DEFINE D == DOMAIN calls
           c == CallItems(calls)
           m == Cardinality(D)
           order == InOrder(D)
<1>1. /\ D \in Indices /\ D \subseteq Nat
      /\ \A i \in D : calls[i].arguments \in Texts
  BY HeardType
<1>2. m \in Nat
  BY <1>1, FS_CardinalityType DEF Indices
<1>3. order \in [1..m -> D] /\ \A j, k \in 1..m : j < k => order[j] < order[k]
  BY <1>1, InOrderRises DEF Rises
<1>4. c = [k \in 1..m |-> [item |-> Call(order[k]), content |-> calls[order[k]].arguments]]
  BY DEF CallItems
<1> HIDE DEF c, order, m, D
<1>5. \A k \in 1..m : order[k] \in D
  BY <1>3
<1>6. \A i \in D : Call(i) \in Items
  BY <1>1 DEF Items
<1>7. \A k \in 1..m :
        /\ c[k] = [item |-> Call(order[k]), content |-> calls[order[k]].arguments]
        /\ c[k] \in Done
  BY <1>1, <1>4, <1>5, <1>6 DEF Done
<1>8. c \in Seq(Done) /\ Len(c) = m
  <2>1. c \in [1..m -> Done]
    BY <1>4, <1>7
  <2> QED
    BY <1>2, <2>1
<1>9. ASSUME NEW j \in 1..m, NEW k \in 1..m, c[j].item = c[k].item PROVE j = k
  <2>1. Call(order[j]) = Call(order[k])
    <3>1. ASSUME NEW i \in 1..m PROVE c[i].item = Call(order[i])
      <4> DEFINE r == [item |-> Call(order[i]), content |-> calls[order[i]].arguments]
      <4>1. c[i] = r
        BY <1>7
      <4>2. r.item = Call(order[i])
        OBVIOUS
      <4> HIDE DEF r
      <4> QED
        BY <4>1, <4>2
    <3> QED
      BY ONLY <1>9, <3>1, j \in 1..m, k \in 1..m
  <2>2. order[j] = order[k]
    BY <2>1, ItemsDiffer
  <2>3. order[j] \in Nat /\ order[k] \in Nat
    BY <1>1, <1>5
  <2> QED
    BY <1>2, <1>3, <2>2, <2>3
<1> QED
  BY <1>2, <1>5, <1>7, <1>8, <1>9 DEF c, m, D

\* Where an item was announced.
Place(a, item) == IF item = Message THEN 0 ELSE a.calls[item[2]].output_index

\* A finished item tells what was sent of it.
Finished(s, a, done) ==
  /\ done \in Done /\ Place(a, done.item) \in Nat
  /\ Announced(s, done.item, Place(a, done.item))
  /\ done.content = Joined(s, DeltasOf(done.item))

LEMMA OutputTells ==
  ASSUME NEW s, NEW a \in ResponseAdapters, Carries(s, a)
  PROVE  /\ Output(a) \in Seq(Done)
         /\ \A k \in 1..Len(Output(a)) : Finished(s, a, Output(a)[k])
         /\ \A j, k \in 1..Len(Output(a)) : Output(a)[j].item = Output(a)[k].item => j = k
<1> DEFINE c == CallItems(a.calls)
           m == Cardinality(DOMAIN a.calls)
           first == [item |-> Message, content |-> a.text]
<1>1. a.text \in Texts /\ a.text_started \in BOOLEAN /\ a.calls \in OpenCalls
  BY DEF ResponseAdapters
<1>2. /\ c \in Seq(Done) /\ Len(c) = m /\ m \in Nat
      /\ \A k \in 1..m : \E i \in DOMAIN a.calls :
           c[k] = [item |-> Call(i), content |-> a.calls[i].arguments]
      /\ \A j, k \in 1..m : c[j].item = c[k].item => j = k
  BY <1>1, CallItemsTell
<1>3. first \in Done /\ first.item = Message
  BY <1>1 DEF Done, Items
<1>4. a.text_started => Finished(s, a, first)
  BY <1>3 DEF Finished, Carries, Place
<1>5. ASSUME NEW k \in 1..m PROVE Finished(s, a, c[k]) /\ c[k].item # Message
  <2>1. PICK i \in DOMAIN a.calls : c[k] = [item |-> Call(i), content |-> a.calls[i].arguments]
    BY <1>2
  <2>2. c[k].item = Call(i) /\ c[k].content = a.calls[i].arguments /\ c[k] \in Done
    BY <1>2, <2>1
  <2>3. i \in Nat /\ a.calls[i].output_index \in Nat
    BY <1>1, HeardType
  <2>4. Place(a, c[k].item) = a.calls[i].output_index /\ c[k].item # Message
    BY <2>2, ItemsDiffer DEF Place
  <2>5. Announced(s, Call(i), a.calls[i].output_index)
    BY DEF Carries
  <2>6. Joined(s, DeltasOf(Call(i))) = a.calls[i].arguments
    BY <2>3 DEF Carries, Heard
  <2> QED
    BY <2>2, <2>3, <2>4, <2>5, <2>6 DEF Finished
<1> HIDE DEF c, m, first
<1>6. CASE ~a.text_started
  <2>1. Output(a) = <<>> \o c
    BY <1>6 DEF Output, If, c
  <2>2. Output(a) = c
    BY <1>2, <2>1, ConcatEmptySeq
  <2> QED
    BY <1>2, <1>5, <2>2
<1>7. CASE a.text_started
  <2>1. Output(a) = <<first>> \o c
    BY <1>7 DEF Output, If, c, first
  <2> DEFINE o == <<first>> \o c
  <2>2. /\ o \in Seq(Done) /\ Len(o) = m + 1 /\ o[1] = first
        /\ \A k \in 2..m + 1 : o[k] = c[k - 1] /\ k - 1 \in 1..m
    BY <1>2, <1>3
  <2> HIDE DEF o
  <2>3. \A k \in 1..m + 1 : k = 1 \/ k \in 2..m + 1
    BY <1>2
  <2>4. \A k \in 1..m + 1 : Finished(s, a, o[k])
    BY <1>4, <1>5, <1>7, <2>2, <2>3
  <2>5. ASSUME NEW j \in 1..m + 1, NEW k \in 1..m + 1, o[j].item = o[k].item PROVE j = k
    <3>1. CASE j = 1 \/ k = 1
      BY <1>3, <1>5, <2>2, <2>3, <2>5, <3>1
    <3>2. CASE j # 1 /\ k # 1
      <4>1. j - 1 = k - 1
        BY <1>2, <2>2, <2>3, <2>5, <3>2
      <4> QED
        BY <4>1
    <3> QED
      BY <3>1, <3>2
  <2> QED
    BY <2>1, <2>2, <2>4, <2>5 DEF o
<1> QED
  BY <1>1, <1>6, <1>7

\* ResponseTellsTheAnswer, of any sequence.
ResponseTells(s, answer) ==
  \A n \in SentOf(s, {"response.completed"}, Len(s)) :
    s[n].output = BufferedResponse(answer) /\ s[n].usage = answer.usage

\* An adapter that holds all of the answer finishes with the answer.
LEMMA OutputIsAnswer ==
  ASSUME NEW s, NEW a \in ResponseAdapters, Carries(s, a), NEW answer \in Answers,
         OneKindOfText(answer), Told(ResponseHeard(a), <<>>, answer)
  PROVE  Output(a) = BufferedResponse(answer) /\ a.usage = answer.usage
<1> DEFINE h == ResponseHeard(a)
           calls == [i \in DOMAIN answer.calls |-> [arguments |-> answer.calls[i]]]
           text == IF answer.content # <<>> THEN answer.content ELSE answer.reasoning
<1>1. /\ h.text = a.text /\ h.calls = DOMAIN a.calls /\ h.usage = a.usage
      /\ \A i \in Nat : h.arguments[i] = Heard(a.calls, i)
  BY DEF ResponseHeard
<1>2. /\ h.text = answer.content \o answer.reasoning
      /\ \A i \in Nat : h.arguments[i] = ArgumentsAt(answer.calls, i)
      /\ h.calls = DOMAIN answer.calls
      /\ h.usage = answer.usage
  BY ResponseHeardType, ToldNothing
<1> HIDE DEF h
<1>3. a.calls \in OpenCalls /\ DOMAIN a.calls = DOMAIN answer.calls
  BY <1>1, <1>2 DEF ResponseAdapters
<1> DEFINE D == DOMAIN a.calls
           order == InOrder(D)
<1>4. /\ D \in Indices /\ D \subseteq Nat
  BY <1>3, HeardType
<1>5. order \in [1..Cardinality(D) -> D]
  BY <1>4, InOrderRises DEF Rises
<1>6. \A i \in D : a.calls[i].arguments = calls[i].arguments
  BY <1>1, <1>2, <1>3, <1>4 DEF Heard, ArgumentsAt
<1>7. DOMAIN calls = D
  BY <1>3
<1>8. CallItems(a.calls) = CallItems(calls)
  <2>1. \A k \in 1..Cardinality(D) : a.calls[order[k]].arguments = calls[order[k]].arguments
    BY <1>5, <1>6
  <2>2. /\ CallItems(a.calls)
             = [k \in 1..Cardinality(D) |->
                  [item |-> Call(order[k]), content |-> a.calls[order[k]].arguments]]
        /\ CallItems(calls)
             = [k \in 1..Cardinality(D) |->
                  [item |-> Call(order[k]), content |-> calls[order[k]].arguments]]
    BY <1>7 DEF CallItems
  <2> HIDE DEF order, D, calls
  <2> QED
    BY <2>1, <2>2
<1>9. text = BufferedText(answer)
  BY DEF BufferedText
<1>10. text = a.text
  BY <1>1, <1>2, <1>9, OneText
<1>11. a.text_started <=> text # <<>>
  BY <1>10 DEF Carries
<1>12. BufferedResponse(answer) = If(text # <<>>, [item |-> Message, content |-> text]) \o CallItems(calls)
  BY DEF BufferedResponse
<1>13. Output(a) = If(a.text_started, [item |-> Message, content |-> a.text]) \o CallItems(a.calls)
  BY DEF Output
<1> HIDE DEF text, calls
<1>14. If(a.text_started, [item |-> Message, content |-> a.text])
         = If(text # <<>>, [item |-> Message, content |-> text])
  BY <1>10, <1>11 DEF If
<1> QED
  BY <1>1, <1>2, <1>8, <1>12, <1>13, <1>14

\* The closing events of finished items, two for each.
Closing(o, at) ==
  [k \in 1..2 * Len(o) |->
     LET done == o[(k + 1) \div 2]
     IN  IF k % 2 = 1 THEN ContentDone(done.item, at[(k + 1) \div 2], done.content)
         ELSE ItemDone(done.item, at[(k + 1) \div 2], done.content)]

\* Where the k-th of them stands.
Half(k) == (k + 1) \div 2

LEMMA Halves ==
  ASSUME NEW m \in Nat
  PROVE  /\ \A k \in 1..2 * m : Half(k) \in 1..m
         /\ \A j, k \in 1..2 * m : j < k /\ j % 2 = 0 => Half(j) # Half(k)
         /\ \A j \in 1..m : 2 * j \in 1..2 * m /\ Half(2 * j) = j /\ (2 * j) % 2 = 0
         /\ \A k \in 1..2 * m : k % 2 = 0 => k = 2 * Half(k)
BY DEF Half

LEMMA ClosingTypes ==
  ASSUME NEW o \in Seq(Done), NEW at \in [1..Len(o) -> Nat]
  PROVE  LET c == Closing(o, at) IN
         /\ c \in Seq(ResponseEvents) /\ Len(c) = 2 * Len(o)
         /\ \A k \in 1..2 * Len(o) :
              /\ c[k].type = IF k % 2 = 1 THEN "content.done" ELSE "output_item.done"
              /\ c[k].item = o[Half(k)].item /\ c[k].content = o[Half(k)].content
              /\ c[k].output_index = at[Half(k)]
<1> DEFINE c == Closing(o, at)
           m == Len(o)
<1>1. m \in Nat /\ \A j \in 1..m : o[j] \in Done
  BY ElementOfSeq, LenProperties
<1>2. \A j \in 1..m : o[j].item \in Items /\ o[j].content \in Texts /\ at[j] \in Nat
  BY <1>1 DEF Done
<1> HIDE DEF m
<1>3. \A k \in 1..2 * m : Half(k) \in 1..m
  BY <1>1, Halves
<1>4. c = [k \in 1..2 * m |->
             IF k % 2 = 1 THEN ContentDone(o[Half(k)].item, at[Half(k)], o[Half(k)].content)
             ELSE ItemDone(o[Half(k)].item, at[Half(k)], o[Half(k)].content)]
  BY DEF Closing, Half, m
<1> HIDE DEF c
<1>5. ASSUME NEW k \in 1..2 * m
      PROVE  /\ c[k] \in ResponseEvents
             /\ c[k].type = IF k % 2 = 1 THEN "content.done" ELSE "output_item.done"
             /\ c[k].item = o[Half(k)].item /\ c[k].content = o[Half(k)].content
             /\ c[k].output_index = at[Half(k)]
  <2> DEFINE j == Half(k)
  <2>1. o[j].item \in Items /\ o[j].content \in Texts /\ at[j] \in Nat
    BY <1>2, <1>3
  <2>2. c[k] = IF k % 2 = 1 THEN ContentDone(o[j].item, at[j], o[j].content)
               ELSE ItemDone(o[j].item, at[j], o[j].content)
    BY <1>4
  <2> HIDE DEF j
  <2>3. CASE k % 2 = 1
    BY <2>1, <2>2, <2>3 DEF ContentDone, ResponseEvents, j
  <2>4. CASE k % 2 # 1
    BY <2>1, <2>2, <2>4 DEF ItemDone, ResponseEvents, j
  <2> QED
    BY <2>3, <2>4
<1>6. 2 * m \in Nat
  BY <1>1
<1>7. c \in Seq(ResponseEvents) /\ Len(c) = 2 * m
  <2>1. c \in [1..2 * m -> ResponseEvents]
    BY <1>4, <1>5
  <2> HIDE DEF m
  <2> DEFINE n == 2 * m
  <2>2. n \in Nat /\ c \in [1..n -> ResponseEvents]
    BY <1>6, <2>1
  <2> HIDE DEF n
  <2>3. c \in Seq(ResponseEvents) /\ Len(c) = n
    BY <2>2
  <2> QED
    BY <2>3 DEF n
<1> QED
  BY <1>5, <1>7 DEF c, m

\* What closes a stream.
EndOf(o, at, usage) ==
  Closing(o, at) \o <<Completed(o, usage), [type |-> "[DONE]"]>>

LEMMA EndTypes ==
  ASSUME NEW o \in Seq(Done), NEW at \in [1..Len(o) -> Nat], NEW usage \in 0..MaxData
  PROVE  LET b == EndOf(o, at, usage)
             N == 2 * Len(o)
         IN  /\ b \in Seq(ResponseEvents) /\ Len(b) = N + 2 /\ N \in Nat
             /\ \A k \in 1..N :
                  /\ b[k].type = IF k % 2 = 1 THEN "content.done" ELSE "output_item.done"
                  /\ b[k].item = o[Half(k)].item /\ b[k].content = o[Half(k)].content
                  /\ b[k].output_index = at[Half(k)]
             /\ b[N + 1] = Completed(o, usage) /\ b[N + 1].type = "response.completed"
             /\ b[N + 2].type = "[DONE]"
<1> DEFINE b == EndOf(o, at, usage)
           N == 2 * Len(o)
           c == Closing(o, at)
           e == Completed(o, usage)
           f == [type |-> "[DONE]"]
<1>1. /\ c \in Seq(ResponseEvents) /\ Len(c) = N
      /\ \A k \in 1..N :
           /\ c[k].type = IF k % 2 = 1 THEN "content.done" ELSE "output_item.done"
           /\ c[k].item = o[Half(k)].item /\ c[k].content = o[Half(k)].content
           /\ c[k].output_index = at[Half(k)]
  BY ClosingTypes
<1>2. e \in ResponseEvents /\ e.type = "response.completed"
  BY DEF Completed, ResponseEvents
<1>3. f \in ResponseEvents /\ f.type = "[DONE]"
  BY DEF ResponseEvents
<1>4. N \in Nat
  BY LenProperties
<1>5. b = c \o <<e, f>>
  BY DEF EndOf
<1> HIDE DEF c, e, f, N, b
<1>6. /\ b \in Seq(ResponseEvents) /\ Len(b) = N + 2
      /\ \A k \in 1..N : b[k] = c[k]
      /\ b[N + 1] = e /\ b[N + 2] = f
  BY <1>1, <1>2, <1>3, <1>4, <1>5
<1> QED
  BY <1>1, <1>2, <1>3, <1>4, <1>6 DEF b, N, e

LEMMA EndPromises ==
  ASSUME NEW s, Streaming(s), NEW o \in Seq(Done), NEW at \in [1..Len(o) -> Nat],
         NEW usage \in 0..MaxData,
         \A j \in 1..Len(o) : /\ Announced(s, o[j].item, at[j])
                              /\ o[j].content = Joined(s, DeltasOf(o[j].item)),
         \A j, k \in 1..Len(o) : o[j].item = o[k].item => j = k
  PROVE  Promises(s \o EndOf(o, at, usage))
<1> DEFINE b == EndOf(o, at, usage)
           t == s \o b
           L == Len(s)
           m == Len(o)
           N == 2 * m
<1>1. s \in Seq(ResponseEvents) /\ Promises(s) /\ Going(s) /\ L \in Nat
  BY LenProperties DEF Streaming
<1>2. m \in Nat /\ \A j \in 1..m : o[j] \in Done
  BY ElementOfSeq, LenProperties
<1>3. /\ b \in Seq(ResponseEvents) /\ Len(b) = N + 2 /\ N \in Nat
      /\ \A k \in 1..N :
           /\ b[k].type = IF k % 2 = 1 THEN "content.done" ELSE "output_item.done"
           /\ b[k].item = o[Half(k)].item /\ b[k].content = o[Half(k)].content
           /\ b[k].output_index = at[Half(k)]
      /\ b[N + 1] = Completed(o, usage) /\ b[N + 1].type = "response.completed"
      /\ b[N + 2].type = "[DONE]"
  BY EndTypes
<1>4. /\ \A k \in 1..N : Half(k) \in 1..m
      /\ \A j, k \in 1..N : j < k /\ j % 2 = 0 => Half(j) # Half(k)
      /\ \A j \in 1..m : 2 * j \in 1..N /\ Half(2 * j) = j /\ (2 * j) % 2 = 0
  BY <1>2, Halves
<1> HIDE DEF b, L, m
<1>5. /\ t \in Seq(ResponseEvents) /\ Len(t) = L + (N + 2)
      /\ \A k \in 1..L : t[k] = s[k]
      /\ \A k \in 1..N + 2 : t[L + k] = b[k]
  <2> HIDE DEF N
  <2>0. s \in Seq(ResponseEvents) /\ b \in Seq(ResponseEvents)
    BY <1>1, <1>3
  <2>1. t \in Seq(ResponseEvents) /\ Len(t) = Len(s) + Len(b)
    BY ONLY <2>0, ConcatProperties
  <2>2. \A k \in 1..Len(t) : t[k] = IF k <= Len(s) THEN s[k] ELSE b[k - Len(s)]
    BY ONLY <2>0, <2>1, ConcatProperties
  <2>3. \A k \in 1..N + 2 : L + k \in 1..Len(t) /\ ~(L + k <= Len(s)) /\ (L + k) - Len(s) = k
    BY <1>1, <1>3, <2>1 DEF L
  <2>4. \A k \in 1..L : k \in 1..Len(t) /\ k <= Len(s)
    BY <1>1, <1>3, <2>1 DEF L
  <2> HIDE DEF t
  <2> QED
    BY <1>3, <2>1, <2>2, <2>3, <2>4 DEF L
<1> HIDE DEF t, N
<1>6. ASSUME NEW n \in 1..L PROVE PromiseAt(t, n)
  <2>1. PromiseAt(s, n) /\ n \in Nat \ {0} /\ n <= Len(s) /\ n <= Len(t)
        /\ \A k \in 1..n : s[k] = t[k]
    BY <1>1, <1>3, <1>5 DEF Promises, L
  <2> QED
    BY ONLY <1>1, <1>5, <2>1, PromisePrefix
\* Where the items are announced and finished.
<1>7. \A p \in 1..L : t[p].type # "output_item.done"
  BY <1>1, <1>5 DEF Going, L
<1>8. ASSUME NEW j \in 1..m, NEW n \in Nat, n >= L
      PROVE  \E p \in ItemSent(t, "output_item.added", o[j].item, n) : t[p].output_index = at[j]
  <2>1. PICK p \in ItemSent(s, "output_item.added", o[j].item, L) : s[p].output_index = at[j]
    BY DEF Announced, L, m
  <2>2. p \in 1..L /\ s[p].type = "output_item.added" /\ s[p].item = o[j].item
    BY <2>1 DEF ItemSent, SentOf
  <2>3. p \in 1..n /\ t[p] = s[p]
    BY <1>1, <1>5, <1>8, <2>2
  <2>4. p \in ItemSent(t, "output_item.added", o[j].item, n)
    BY <2>2, <2>3 DEF ItemSent, SentOf
  <2> QED
    BY <2>1, <2>3, <2>4
<1>9. ASSUME NEW k \in 1..N
      PROVE  ItemSent(t, "output_item.done", o[Half(k)].item, (L + k) - 1) = {}
  <2> SUFFICES ASSUME NEW p \in 1..(L + k) - 1, t[p].type = "output_item.done",
                      t[p].item = o[Half(k)].item
               PROVE  FALSE
    BY DEF ItemSent, SentOf
  <2> DEFINE j == p - L
  <2>1. p \notin 1..L
    BY <1>7
  <2>2. j \in 1..N /\ j < k /\ j \in 1..N + 2 /\ p = L + j
    BY <1>1, <1>3, <2>1
  <2>3. t[p] = b[j]
    BY <1>5, <2>2
  <2> HIDE DEF j
  <2>4. j % 2 = 0 /\ o[Half(j)].item = o[Half(k)].item
    <3>1. j % 2 \in 0..1
      BY <2>2
    <3>2. b[j].type = (IF j % 2 = 1 THEN "content.done" ELSE "output_item.done")
          /\ b[j].item = o[Half(j)].item
      BY <1>3, <2>2
    <3> QED
      BY <2>3, <3>1, <3>2
  <2>5. Half(j) = Half(k)
    BY <1>4, <2>2, <2>4 DEF m
  <2> QED
    BY <1>4, <2>2, <2>4, <2>5
\* No delta comes after what was sent.
<1>10. ASSUME NEW k \in 1..N, NEW item
       PROVE  Joined(SubSeq(t, 1, L + k), DeltasOf(item)) = Joined(s, DeltasOf(item))
  <2> DEFINE M == DeltasOf(item)
             c == SubSeq(b, 1, k)
             w == SubSeq(t, 1, L + k)
  <2>0. k <= Len(b) /\ k \in Nat /\ L + k <= Len(t) /\ L + k \in Nat
    BY <1>1, <1>3, <1>5
  <2>1. c \in Seq(ResponseEvents) /\ Len(c) = k /\ \A i \in 1..k : c[i] = b[i]
    <3>1. \A i \in 1..k : b[i] \in ResponseEvents
      BY <1>3, <2>0, ElementOfSeq
    <3> QED
      BY <2>0, <3>1, SubSeqProperties
  <2>2. w \in Seq(ResponseEvents) /\ Len(w) = L + k /\ \A i \in 1..L + k : w[i] = t[i]
    <3>1. \A i \in 1..L + k : t[i] \in ResponseEvents
      BY <1>5, <2>0, ElementOfSeq
    <3> QED
      BY <2>0, <3>1, SubSeqProperties
  <2> HIDE DEF c, w
  <2>3. /\ s \o c \in Seq(ResponseEvents) /\ Len(s \o c) = L + k
        /\ \A i \in 1..L + k : (s \o c)[i] = IF i <= L THEN s[i] ELSE c[i - L]
    <3>1. s \in Seq(ResponseEvents) /\ c \in Seq(ResponseEvents) /\ Len(c) = k
      BY <1>1, <2>1
    <3>2. s \o c \in Seq(ResponseEvents) /\ Len(s \o c) = Len(s) + Len(c)
      BY ONLY <3>1, ConcatProperties
    <3>3. \A i \in 1..Len(s) + Len(c) : (s \o c)[i] = IF i <= Len(s) THEN s[i] ELSE c[i - Len(s)]
      BY ONLY <3>1, ConcatProperties
    <3> QED
      BY ONLY <3>1, <3>2, <3>3 DEF L
  <2>4. \A i \in 1..L + k : (s \o c)[i] = w[i]
    <3> SUFFICES ASSUME NEW i \in 1..L + k PROVE (s \o c)[i] = w[i]
      OBVIOUS
    <3>1. CASE i <= L
      <4>1. i \in 1..L
        BY <1>1, <2>0, <3>1
      <4> QED
        BY <1>5, <2>2, <2>3, <3>1, <4>1
    <3>2. CASE ~(i <= L)
      <4> DEFINE j == i - L
      <4>1. j \in 1..k /\ j \in 1..N + 2 /\ i = L + j
        BY <1>1, <1>3, <2>0, <3>2
      <4>2. (s \o c)[i] = c[j] /\ c[j] = b[j] /\ t[i] = b[j]
        BY <1>5, <2>1, <2>3, <3>2, <4>1
      <4> QED
        BY <2>2, <4>2
    <3> QED
      BY <3>1, <3>2
  <2> DEFINE u == s \o c
  <2> HIDE DEF u
  <2>5. u = w
    <3>1. /\ u \in Seq(ResponseEvents) /\ w \in Seq(ResponseEvents) /\ Len(u) = Len(w)
          /\ \A i \in 1..Len(u) : u[i] = w[i]
      BY <2>2, <2>3, <2>4 DEF u
    <3> QED
      BY ONLY <3>1, SeqEqual
  <2>6. WithText(M)
    BY DeltasOfItems
  <2>7. \A i \in 1..Len(c) : c[i] \notin M
    <3>1. \A i \in 1..N : b[i].type # "delta"
      BY <1>3
    <3>2. \A i \in 1..k : i \in 1..N /\ c[i] = b[i]
      BY <1>3, <2>1
    <3>3. \A i \in 1..k : c[i].type # "delta"
      BY <3>1, <3>2
    <3> QED
      BY <2>1, <3>3 DEF DeltasOf
  <2> HIDE DEF M
  <2>8. Joined(c, M) = <<>>
    BY <2>1, <2>6, <2>7, JoinedNothing
  <2>9. Joined(u, M) = Joined(s, M) \o Joined(c, M)
    BY <1>1, <2>1, <2>6, JoinedConcat DEF u
  <2>10. Joined(s, M) \in Texts
    BY <1>1, <2>6, JoinedType
  <2>11. Joined(s, M) \o <<>> = Joined(s, M)
    BY <2>10, TextsConcat
  <2> QED
    BY <2>5, <2>8, <2>9, <2>11 DEF M, w
<1>11. ASSUME NEW k \in 1..N PROVE PromiseAt(t, L + k)
  <2> DEFINE j == Half(k)
             e == t[L + k]
             item == o[j].item
  <2>1. j \in 1..m /\ e = b[k] /\ L + k \in Nat
    BY <1>1, <1>3, <1>4, <1>5
  <2>2. e.type \in {"content.done", "output_item.done"} /\ e.item = item
        /\ e.content = o[j].content /\ e.output_index = at[j]
    BY <1>3, <2>1
  <2>3. (L + k) - 1 \in Nat /\ (L + k) - 1 >= L
    BY <1>1, <1>3
  <2>4. \E p \in ItemSent(t, "output_item.added", item, (L + k) - 1) : t[p].output_index = at[j]
    BY <1>8, <2>1, <2>3
  <2>5. ItemSent(t, "output_item.done", item, (L + k) - 1) = {}
    BY <1>9
  <2>6. o[j].content = Joined(SubSeq(t, 1, L + k), DeltasOf(item))
    BY <1>10, <2>1 DEF m
  <2> HIDE DEF j, item
  <2> QED
    BY <2>2, <2>4, <2>5, <2>6 DEF PromiseAt
<1>12. PromiseAt(t, L + (N + 1))
  <2> DEFINE n == L + (N + 1)
             told == {[item |-> t[k].item, content |-> t[k].content] :
                        k \in SentOf(t, {"output_item.done"}, n)}
  <2>1. N + 1 \in 1..N + 2 /\ n \in Nat
    BY <1>1, <1>3
  <2>2. t[n] = Completed(o, usage) /\ t[n].type = "response.completed" /\ t[n].output = o
    BY <1>3, <1>5, <2>1 DEF Completed
  <2>3. \A j \in 1..m : [item |-> o[j].item, content |-> o[j].content] = o[j]
    BY <1>2 DEF Done
  <2>4. ASSUME NEW k \in SentOf(t, {"output_item.done"}, n)
        PROVE  [item |-> t[k].item, content |-> t[k].content] \in ToSet(o)
    <3> DEFINE j == k - L
    <3>1. k \in 1..n /\ t[k].type = "output_item.done"
      BY DEF SentOf
    <3>2. k \notin 1..L /\ k # n
      BY <1>7, <2>2, <3>1
    <3>3. j \in 1..N /\ j \in 1..N + 2 /\ k = L + j
      BY <1>1, <1>3, <3>1, <3>2
    <3>4. t[k] = b[j]
      BY <1>5, <3>3
    <3> HIDE DEF j
    <3>5. t[k].item = o[Half(j)].item /\ t[k].content = o[Half(j)].content /\ Half(j) \in 1..m
      BY <1>3, <1>4, <3>3, <3>4
    <3>6. [item |-> t[k].item, content |-> t[k].content] = o[Half(j)]
      BY <2>3, <3>5
    <3> QED
      BY <3>5, <3>6 DEF ToSet, m
  <2>5. ASSUME NEW j \in 1..m
        PROVE  \E k \in SentOf(t, {"output_item.done"}, n) :
                 o[j] = [item |-> t[k].item, content |-> t[k].content]
    <3> DEFINE h == 2 * j
    <3>1. h \in 1..N /\ Half(h) = j /\ h % 2 = 0
      BY <1>4
    <3> HIDE DEF h
    <3>2. h \in 1..N + 2 /\ L + h \in 1..n
      BY <1>1, <1>3, <3>1
    <3>3. t[L + h] = b[h] /\ b[h].type = "output_item.done" /\ b[h].item = o[j].item
          /\ b[h].content = o[j].content
      BY <1>3, <1>5, <3>1, <3>2
    <3>4. L + h \in SentOf(t, {"output_item.done"}, n)
      BY <3>2, <3>3 DEF SentOf
    <3>5. o[j] = [item |-> t[L + h].item, content |-> t[L + h].content]
      BY <2>3, <3>3
    <3> QED
      BY <3>4, <3>5
  <2>6. told = ToSet(o)
    <3>1. ToSet(o) = {o[j] : j \in 1..m}
      BY LenProperties DEF ToSet, m
    <3>2. \A x : x \in ToSet(o) <=> \E j \in 1..m : x = o[j]
      BY <3>1
    <3>3. told \subseteq ToSet(o)
      BY <2>4
    <3>4. \A j \in 1..m : o[j] \in told
      BY <2>5
    <3> HIDE DEF told
    <3>5. ToSet(o) \subseteq told
      BY <3>2, <3>4
    <3> QED
      BY ONLY <3>3, <3>5
  <2> HIDE DEF told
  <2>7. told = ToSet(t[n].output)
    BY <2>2, <2>6
  <2> QED
    BY <2>2, <2>7 DEF PromiseAt, told
<1>13. PromiseAt(t, L + (N + 2))
  <2>1. t[L + (N + 2)].type = "[DONE]"
    BY <1>3, <1>5
  <2> QED
    BY <2>1 DEF PromiseAt
<1>14. ASSUME NEW n \in 1..Len(t) PROVE PromiseAt(t, n)
  <2>1. \/ n \in 1..L
        \/ n - L \in 1..N /\ n = L + (n - L)
        \/ n = L + (N + 1)
        \/ n = L + (N + 2)
    BY <1>1, <1>3, <1>5
  <2> QED
    BY <1>6, <1>11, <1>12, <1>13, <2>1
<1> QED
  BY <1>14 DEF Promises, t, b

\* A batch that is cut.
LEMMA CutConcat ==
  ASSUME NEW E, NEW s \in Seq(E), NEW b \in Seq(E), NEW k \in 0..Len(b)
  PROVE  LET w == s \o SubSeq(b, 1, k) IN
         /\ w \in Seq(E) /\ Len(w) = Len(s) + k /\ Len(s \o b) = Len(s) + Len(b)
         /\ Len(s) \in Nat /\ Len(b) \in Nat
         /\ \A i \in 1..Len(w) : w[i] = (s \o b)[i]
         /\ \A i \in 1..Len(w) : w[i] = IF i <= Len(s) THEN s[i] ELSE b[i - Len(s)]
<1> DEFINE c == SubSeq(b, 1, k)
           w == s \o c
           t == s \o b
<1>1. Len(s) \in Nat /\ Len(b) \in Nat
  BY LenProperties
<1>2. c \in Seq(E) /\ Len(c) = k /\ \A i \in 1..k : c[i] = b[i]
  <2>1. \A i \in 1..k : b[i] \in E
    BY <1>1, ElementOfSeq
  <2> QED
    BY <1>1, <2>1, SubSeqProperties
<1> HIDE DEF c
<1>3. w \in Seq(E) /\ Len(w) = Len(s) + Len(c)
  BY ONLY s \in Seq(E), <1>2, ConcatProperties
<1>4. \A i \in 1..Len(s) + Len(c) : w[i] = IF i <= Len(s) THEN s[i] ELSE c[i - Len(s)]
  BY ONLY s \in Seq(E), <1>2, ConcatProperties
<1>5. Len(t) = Len(s) + Len(b)
  BY ONLY s \in Seq(E), b \in Seq(E), ConcatProperties
<1>6. \A i \in 1..Len(s) + Len(b) : t[i] = IF i <= Len(s) THEN s[i] ELSE b[i - Len(s)]
  BY ONLY s \in Seq(E), b \in Seq(E), ConcatProperties
<1> HIDE DEF w, t
<1>7. \A i \in 1..Len(w) : w[i] = IF i <= Len(s) THEN s[i] ELSE b[i - Len(s)]
  BY <1>1, <1>2, <1>3, <1>4
<1>8. \A i \in 1..Len(w) : i \in 1..Len(s) + Len(b)
  BY <1>1, <1>2, <1>3
<1>9. \A i \in 1..Len(w) : w[i] = t[i]
  BY <1>6, <1>7, <1>8
<1> QED
  BY <1>1, <1>2, <1>3, <1>5, <1>7, <1>9 DEF w, t, c

LEMMA FinishIsEnd ==
  ASSUME NEW a \in ResponseAdapters, Output(a) \in Seq(Done)
  PROVE  ResponsesFinish(a) \o <<[type |-> "[DONE]"]>>
           = EndOf(Output(a), [j \in 1..Len(Output(a)) |-> Place(a, Output(a)[j].item)], a.usage)
<1> DEFINE o == Output(a)
           at == [j \in 1..Len(o) |-> Place(a, o[j].item)]
           closing == [k \in 1..2 * Len(o) |->
                         LET done == o[(k + 1) \div 2]
                         IN  IF k % 2 = 1
                             THEN ContentDone(done.item, Place(a, done.item), done.content)
                             ELSE ItemDone(done.item, Place(a, done.item), done.content)]
           e == Completed(o, a.usage)
           f == [type |-> "[DONE]"]
<1>1. ResponsesFinish(a) = closing \o <<e>>
  BY Zenon DEF ResponsesFinish, Place
<1>2. Len(o) \in Nat
  BY LenProperties
<1>3. closing = Closing(o, at)
  <2> HIDE DEF o
  <2>1. \A k \in 1..2 * Len(o) : (k + 1) \div 2 \in 1..Len(o)
    BY <1>2, Halves DEF Half
  <2>2. \A k \in 1..2 * Len(o) : at[(k + 1) \div 2] = Place(a, o[(k + 1) \div 2].item)
    BY <2>1
  <2> HIDE DEF at
  <2> QED
    BY <2>2 DEF Closing
<1> HIDE DEF e, f, closing, o
<1>4. DOMAIN closing = 1..2 * Len(o) /\ 2 * Len(o) \in Nat
  BY <1>2 DEF closing
<1> DEFINE V == {closing[k] : k \in 1..2 * Len(o)} \cup {e, f}
           n == 2 * Len(o)
<1>5. closing \in Seq(V) /\ e \in V /\ f \in V
  <2>1. closing = [k \in 1..n |-> closing[k]]
    BY DEF closing
  <2>2. \A k \in 1..n : closing[k] \in V
    OBVIOUS
  <2>3. n \in Nat
    BY <1>4
  <2> HIDE DEF n, V
  <2>4. closing \in [1..n -> V]
    BY <2>1, <2>2
  <2> QED
    BY <2>3, <2>4 DEF V
<1> HIDE DEF V
<1>6. (closing \o <<e>>) \o <<f>> = closing \o <<e, f>>
  BY ONLY <1>5, TwoAppended
<1> QED
  BY <1>1, <1>3, <1>6 DEF EndOf, o, e, f

\* The closing events, as far as they are written.
LEMMA ResponseFinishTells ==
  ASSUME NEW s, NEW a \in ResponseAdapters, Carries(s, a), NEW answer \in Answers, NEW told,
         told => OneKindOfText(answer) /\ Told(ResponseHeard(a), <<>>, answer)
  PROVE  LET b == ResponsesFinish(a) \o <<[type |-> "[DONE]"]>> IN
         /\ b \in Seq(ResponseEvents)
         /\ AllPrefixes(s, b, {w \in Seq(ResponseEvents) :
                                 Promises(w) /\ (told => ResponseTells(w, answer))})
<1> DEFINE o == Output(a)
           at == [j \in 1..Len(o) |-> Place(a, o[j].item)]
           b == EndOf(o, at, a.usage)
           N == 2 * Len(o)
           t == s \o b
           L == Len(s)
<1>1. s \in Seq(ResponseEvents) /\ Streaming(s) /\ Going(s)
  BY DEF Carries, Streaming
<1>2. /\ o \in Seq(Done)
      /\ \A k \in 1..Len(o) : Finished(s, a, o[k])
      /\ \A j, k \in 1..Len(o) : o[j].item = o[k].item => j = k
  BY OutputTells
<1>3. ResponsesFinish(a) \o <<[type |-> "[DONE]"]>> = b
  BY <1>2, FinishIsEnd
<1> HIDE DEF o
<1>4. at \in [1..Len(o) -> Nat] /\ \A j \in 1..Len(o) : at[j] = Place(a, o[j].item)
  BY <1>2 DEF Finished
<1> HIDE DEF at
<1>5. a.usage \in 0..MaxData
  BY DEF ResponseAdapters
<1>6. /\ b \in Seq(ResponseEvents) /\ Len(b) = N + 2 /\ N \in Nat
      /\ \A k \in 1..N : b[k].type = IF k % 2 = 1 THEN "content.done" ELSE "output_item.done"
      /\ b[N + 1] = Completed(o, a.usage) /\ b[N + 2].type = "[DONE]"
  <2>1. o \in Seq(Done) /\ at \in [1..Len(o) -> Nat]
    BY <1>2, <1>4
  <2>2. /\ b \in Seq(ResponseEvents) /\ Len(b) = N + 2 /\ N \in Nat
        /\ \A k \in 1..N :
             /\ b[k].type = IF k % 2 = 1 THEN "content.done" ELSE "output_item.done"
             /\ b[k].item = o[Half(k)].item /\ b[k].content = o[Half(k)].content
             /\ b[k].output_index = at[Half(k)]
        /\ b[N + 1] = Completed(o, a.usage) /\ b[N + 1].type = "response.completed"
        /\ b[N + 2].type = "[DONE]"
    BY ONLY <1>5, <2>1, EndTypes, Zenon
  <2> HIDE DEF b, N
  <2> QED
    BY <2>2
<1>7. Promises(t)
  <2>1. \A j \in 1..Len(o) : /\ Announced(s, o[j].item, at[j])
                             /\ o[j].content = Joined(s, DeltasOf(o[j].item))
    BY <1>2, <1>4 DEF Finished
  <2> QED
    BY <1>1, <1>2, <1>4, <1>5, <2>1, EndPromises
<1> HIDE DEF b
<1>8. ASSUME NEW k \in 0..Len(b)
      PROVE  LET w == s \o SubSeq(b, 1, k) IN
             w \in Seq(ResponseEvents) /\ Promises(w) /\ (told => ResponseTells(w, answer))
  <2> DEFINE w == s \o SubSeq(b, 1, k)
  <2>1. /\ w \in Seq(ResponseEvents) /\ Len(w) = L + k /\ Len(t) = L + Len(b)
        /\ L \in Nat /\ Len(b) \in Nat
        /\ \A i \in 1..Len(w) : w[i] = t[i]
        /\ \A i \in 1..Len(w) : w[i] = IF i <= L THEN s[i] ELSE b[i - L]
    <3>1. s \in Seq(ResponseEvents) /\ b \in Seq(ResponseEvents)
      BY <1>1, <1>6
    <3> QED
      BY ONLY <3>1, k \in 0..Len(b), CutConcat
  <2>2. t \in Seq(ResponseEvents)
    BY <1>1, <1>6, ConcatProperties
  <2> HIDE DEF w, t
  <2>3. Len(w) <= Len(t)
    BY <2>1
  <2>4. Promises(w)
    BY <1>7, <2>1, <2>2, <2>3, PromisesCut
  <2>5. ASSUME told, NEW n \in 1..Len(w), w[n].type = "response.completed"
        PROVE  w[n].output = BufferedResponse(answer) /\ w[n].usage = answer.usage
    <3> DEFINE j == n - L
    <3>1. ~(n <= L)
      <4>1. ASSUME n <= L PROVE FALSE
        <5>1. w[n] = s[n] /\ n \in 1..Len(s)
          BY <2>1, <4>1
        <5> QED
          BY <1>1, <2>5, <5>1 DEF Going
      <4> QED
        BY <4>1
    <3>2. w[n] = b[j] /\ j \in 1..N + 2
      BY <1>6, <2>1, <3>1
    <3> HIDE DEF j, N
    <3>3. j \notin 1..N
      BY <1>6, <2>5, <3>2
    <3>4. j # N + 2
      BY <1>6, <2>5, <3>2
    <3>5. j = N + 1
      BY <1>6, <3>2, <3>3, <3>4
    <3>6. w[n] = Completed(o, a.usage)
      BY <1>6, <3>2, <3>5
    <3>7. w[n].output = o /\ w[n].usage = a.usage
      BY <3>6 DEF Completed
    <3>8. o = BufferedResponse(answer) /\ a.usage = answer.usage
      BY <2>5, OutputIsAnswer DEF o
    <3> QED
      BY <3>7, <3>8
  <2>6. told => ResponseTells(w, answer)
    BY <2>5 DEF ResponseTells, SentOf
  <2> QED
    BY <2>1, <2>4, <2>6 DEF w
<1> QED
  BY <1>3, <1>6, <1>8 DEF AllPrefixes

--------------------------------------------------------------------------------
(***************************************************************************)
(* The invariant.                                                          *)
(***************************************************************************)
Upstreams ==
  [lines : 0..MaxData, noise : 0..MaxNoise, clean : BOOLEAN, answer : Answers]

Active == phase \in {"headers", "reading", "finishing"}

\* What holds of every relay: the parser and what it has read.
Common ==
  /\ client \in Clients
  /\ phase \in {"headers", "gone", "reading", "finishing", "ended", "cut"}
  /\ closed \in BOOLEAN
  /\ closed => phase \in {"ended", "cut", "gone"}
  /\ upstream \in Upstreams
  /\ parser \in Parsers
  /\ events \in Seq(Canonical)
  /\ events # <<>> => parser.data = <<>>
  /\ phase = "finishing" => parser.data = <<>>
  /\ client = "chat" => events = <<>>
  /\ upstream.clean => Clean(parser)

LEMMA NextLinesType ==
  ASSUME Common, NEW line \in NextLines, Sends(line)
  PROVE  line \in Lines
<1>1. upstream.lines \in 0..MaxData
  BY DEF Common, Upstreams
<1>2. CASE line \in DataLines
  <2>1. PICK p \in Payloads :
          line = [field |-> "data", data |-> [p EXCEPT !.at = upstream.lines + 1]]
    BY <1>2 DEF DataLines
  <2> DEFINE d == [p EXCEPT !.at = upstream.lines + 1]
  <2>2. upstream.lines + 1 \in 1..MaxData /\ upstream.lines + 1 \in 0..MaxData
    BY <1>1, <2>1, BoundsAssumption DEF Sends
  <2>3. d \in Data
    <3>1. CASE p \in {DoneMarker, ErrorEnvelope, Unparseable}
      <4>1. /\ DoneMarker = [kind |-> "done", at |-> 0]
            /\ ErrorEnvelope = [kind |-> "error", at |-> 0]
            /\ Unparseable = [kind |-> "junk", at |-> 0]
        BY DEF DoneMarker, ErrorEnvelope, Unparseable
      <4>2. p \in [kind : {"done", "error", "junk"}, at : {0}]
        BY <3>1, <4>1
      <4>3. d \in [kind : {"done", "error", "junk"}, at : 0..MaxData]
        BY <2>2, <4>2
      <4> QED
        BY <4>3 DEF Data
    <3>2. CASE p \notin {DoneMarker, ErrorEnvelope, Unparseable}
      <4>1. p \in [kind : {"chunk"}, at : {0}, content : BOOLEAN, reasoning : BOOLEAN,
                   tools : Seq([index : Nat, args : BOOLEAN]), usage : BOOLEAN, finish : STRING]
        BY <3>2, PayloadsAssumption
      <4> DEFINE T == Seq([index : Nat, args : BOOLEAN])
      <4> HIDE DEF T
      <4>2. p \in [kind : {"chunk"}, at : {0}, content : BOOLEAN, reasoning : BOOLEAN,
                   tools : T, usage : BOOLEAN, finish : Words]
        BY <4>1 DEF Words, T
      <4>3. d \in [kind : {"chunk"}, at : 1..MaxData, content : BOOLEAN, reasoning : BOOLEAN,
                   tools : T, usage : BOOLEAN, finish : Words]
        BY <2>2, <4>2
      <4> QED
        BY <4>3 DEF Data, T
    <3> QED
      BY <3>1, <3>2
  <2> HIDE DEF d
  <2>4. line = [field |-> "data", data |-> d]
    BY <2>1 DEF d
  <2> QED
    BY <2>3, <2>4 DEF Lines
<1>3. CASE line = Blank
  BY <1>3 DEF Blank, Lines
<1>4. CASE line \in Noise
  <2>1. line \in [field : {"comment", "other"}] \cup [field : {"event"}, name : STRING]
    BY <1>4, NoiseAssumption
  <2> QED
    BY <2>1 DEF Lines, Words
<1> QED
  BY <1>2, <1>3, <1>4 DEF NextLines

\* What a line does to the upstream's account.
LEMMA SendsTells ==
  ASSUME Common, NEW line \in NextLines, Sends(line)
  PROVE  /\ line \in Lines
         /\ upstream' \in Upstreams
         /\ upstream'.answer
              = IF line.field = "data" THEN Grown(upstream.answer, line.data) ELSE upstream.answer
         /\ upstream'.clean =>
              /\ upstream.clean
              /\ line.field = "data" => /\ parser.data = <<>> /\ parser.event \in {"", "message"}
                                        /\ ~upstream.answer.done
              /\ line.field \in {"event", "other"} => parser.data = <<>>
<1>1. line \in Lines
  BY NextLinesType
<1>2. /\ upstream \in Upstreams
      /\ upstream.lines \in 0..MaxData /\ upstream.noise \in 0..MaxNoise
      /\ upstream.clean \in BOOLEAN /\ upstream.answer \in Answers
  BY DEF Common, Upstreams
<1>3. line.field \in {"data", "blank", "comment", "other", "event"}
      /\ (line.field = "data" => line.data \in Data)
  BY <1>1 DEF Lines
<1> DEFINE costs == line.field \in {"event", "comment", "other"}
                    \/ (line.field = "data" /\ parser.data # <<>>)
           lines == upstream.lines + (IF line.field = "data" THEN 1 ELSE 0)
           noise == upstream.noise + (IF costs THEN 1 ELSE 0)
           clean == upstream.clean /\ StaysClean(line)
           answer == IF line.field = "data" THEN Grown(upstream.answer, line.data)
                     ELSE upstream.answer
<1>4. /\ line.field = "data" => upstream.lines < MaxData
      /\ costs => upstream.noise < MaxNoise
      /\ upstream' = [upstream EXCEPT !.lines = lines, !.noise = noise, !.clean = clean,
                                      !.answer = answer]
  BY Zenon DEF Sends
<1>5. lines \in 0..MaxData
  BY <1>2, <1>4, BoundsAssumption
<1>6. noise \in 0..MaxNoise
  <2> HIDE DEF costs
  <2> QED
    BY <1>2, <1>4, BoundsAssumption
<1>7. answer \in Answers
  BY <1>2, <1>3, GrownTells
<1>8. clean \in BOOLEAN /\ (clean => upstream.clean /\ StaysClean(line))
  BY <1>2
<1> HIDE DEF lines, noise, clean, answer, costs
<1>9. /\ upstream' \in Upstreams /\ upstream'.answer = answer
      /\ (upstream'.clean <=> clean)
  BY <1>2, <1>4, <1>5, <1>6, <1>7, <1>8 DEF Upstreams
<1>10. StaysClean(line) =>
         /\ line.field = "data" => /\ parser.data = <<>> /\ parser.event \in {"", "message"}
                                   /\ ~upstream.answer.done
         /\ line.field \in {"event", "other"} => parser.data = <<>>
  BY <1>3 DEF StaysClean
<1> QED
  BY <1>1, <1>8, <1>9, <1>10 DEF answer

\* A clean parser stays so.
LEMMA CleanLine ==
  ASSUME NEW p \in Parsers, Clean(p), NEW line \in Lines,
         line.field = "data" => p.data = <<>> /\ p.event \in {"", "message"},
         line.field \in {"event", "other"} => p.data = <<>>
  PROVE  Clean(ParseLine(p, line).parser)
<1>1. CASE line.field = "data"
  <2>1. line.data \in Data
    BY <1>1 DEF Lines
  <2>2. ParseLine(p, line).parser = [p EXCEPT !.data = Append(@, line.data)]
    BY <1>1 DEF ParseLine
  <2>3. Clean([p EXCEPT !.data = Append(@, line.data)])
    BY <1>1, <2>1, DataSays
  <2> QED
    BY <2>2, <2>3
<1>2. CASE line.field # "data"
  BY <1>2, LineSays
<1> QED
  BY <1>1, <1>2

LEMMA CleanFlush ==
  ASSUME NEW p \in Parsers
  PROVE  Clean(Flush(p).parser)
<1>1. Flush(p).parser.data = <<>>
  BY FlushTypes
<1> QED
  BY <1>1 DEF Clean

LEMMA NoAnswerType == NoAnswer \in Answers
<1>1. <<>> \in Calls
  <2>1. {} \in Indices
    BY FS_EmptySet DEF Indices
  <2>2. <<>> \in [{} -> Texts]
    OBVIOUS
  <2> QED
    BY <2>1, <2>2 DEF Calls
<1>2. <<>> \in Texts /\ "none" \in Words /\ 0 \in 0..MaxData
  BY BoundsAssumption DEF Texts, Words
<1> QED
  BY <1>1, <1>2 DEF NoAnswer, Answers

LEMMA CommonInit ==
  ASSUME Init
  PROVE  Common
<1>1. parser \in Parsers /\ parser.data = <<>>
  <2>1. "" \in Words /\ "none" \in Words /\ <<>> \in Seq(Data)
    BY DEF Words
  <2>2. parser = [event |-> "", data |-> <<>>, finish |-> "none"]
    BY DEF Init, ParserStart
  <2> QED
    BY <2>1, <2>2 DEF Parsers
<1>2. upstream \in Upstreams
  <2>1. NoAnswer \in Answers
    BY NoAnswerType
  <2>2. 0 \in 0..MaxData /\ 0 \in 0..MaxNoise
    BY BoundsAssumption
  <2>3. upstream = [lines |-> 0, noise |-> 0, clean |-> TRUE, answer |-> NoAnswer]
    BY DEF Init
  <2> QED
    BY <2>1, <2>2, <2>3 DEF Upstreams
<1>3. events = <<>> /\ events \in Seq(Canonical)
  BY DEF Init
<1> QED
  BY <1>1, <1>2, <1>3 DEF Init, Common, Clean

\* A write leaves what was sent in a set that all its prefixes are in, and the
\* relay where it goes on, or cut.
LEMMA WriteTells ==
  ASSUME NEW E, NEW batch \in Seq(E), NEW next, NEW W,
         AllPrefixes(sent, batch, W), Write(batch, next)
  PROVE  /\ sent' \in W
         /\ \/ phase' = next /\ sent' = sent \o batch
            \/ phase' = "cut"
<1>1. PICK k \in 0..Len(batch) :
        /\ sent' = sent \o SubSeq(batch, 1, k)
        /\ phase' = IF k = Len(batch) THEN next ELSE "cut"
  BY DEF Write
<1>2. sent' \in W
  BY <1>1 DEF AllPrefixes
<1>3. k = Len(batch) => SubSeq(batch, 1, k) = batch
  BY SubSeqFull
<1> QED
  BY <1>1, <1>2, <1>3

LEMMA CommonNext ==
  ASSUME Common, [Next]_vars
  PROVE  Common'
<1> USE DEF Common
<1>1. CASE Begin
  BY <1>1 DEF Begin, Write
<1>2. ASSUME NEW line \in NextLines, Read(line) PROVE Common'
  <2>1. /\ line \in Lines /\ upstream' \in Upstreams
        /\ upstream'.clean =>
             /\ upstream.clean
             /\ line.field = "data" => parser.data = <<>> /\ parser.event \in {"", "message"}
             /\ line.field \in {"event", "other"} => parser.data = <<>>
    BY <1>2, SendsTells DEF Read
  <2>2. LET f == ParseLine(parser, line) IN
        f.parser \in Parsers /\ f.events \in Seq(Canonical) /\ (f.events # <<>> => f.parser.data = <<>>)
    BY <2>1, ParseTypes
  <2>3. upstream'.clean => Clean(ParseLine(parser, line).parser)
    BY <2>1, CleanLine
  <2> QED
    BY <1>2, <2>1, <2>2, <2>3 DEF Read
<1>3. ASSUME NEW line \in NextLines, Pass(line) PROVE Common'
  <2>1. /\ line \in Lines /\ upstream' \in Upstreams
        /\ upstream'.clean =>
             /\ upstream.clean
             /\ line.field = "data" => parser.data = <<>> /\ parser.event \in {"", "message"}
             /\ line.field \in {"event", "other"} => parser.data = <<>>
    BY <1>3, SendsTells DEF Pass
  <2>2. ParseLine(parser, line).parser \in Parsers
    BY <2>1, ParseTypes
  <2>3. upstream'.clean => Clean(ParseLine(parser, line).parser)
    BY <2>1, CleanLine
  <2>4. phase' \in {"reading", "cut"}
    BY <1>3 DEF Pass, Write
  <2> QED
    BY <1>3, <2>1, <2>2, <2>3, <2>4 DEF Pass
<1>4. CASE EndOfStream
  <2>1. /\ Flush(parser).parser \in Parsers /\ Flush(parser).parser.data = <<>>
        /\ Flush(parser).events \in Seq(Canonical)
    BY FlushTypes
  <2>2. Clean(Flush(parser).parser)
    BY CleanFlush
  <2>3. <<>> \in Seq(Canonical)
    BY EmptySeq
  <2> QED
    BY <1>4, <2>1, <2>2, <2>3 DEF EndOfStream
<1>5. CASE Feed
  <2>1. phase' \in {phase, "cut"}
    BY <1>5 DEF Feed, Write
  <2>2. Tail(events) \in Seq(Canonical)
    BY <1>5, HeadTailProperties DEF Feed
  <2> QED
    BY <1>5, <2>1, <2>2 DEF Feed
<1>6. CASE Finish
  <2>1. phase' \in {"ended", "cut"}
    BY <1>6 DEF Finish, Write
  <2> QED
    BY <1>6, <2>1 DEF Finish
<1>7. CASE UpstreamBreaks
  BY <1>7 DEF UpstreamBreaks
<1>8. CASE Close
  BY <1>8 DEF Close
<1>9. CASE UNCHANGED vars
  BY <1>9 DEF vars
<1> QED
  BY <1>1, <1>2, <1>3, <1>4, <1>5, <1>6, <1>7, <1>8, <1>9 DEF Next

--------------------------------------------------------------------------------
(***************************************************************************)
(* The relay of the chat endpoint.                                         *)
(***************************************************************************)
ChatInv == adapter \in [usage : 0..MaxData] /\ adapter.usage = upstream.answer.usage

LEMMA ChatNext ==
  ASSUME Common, client = "chat", ChatInv, [Next]_vars
  PROVE  ChatInv'
<1>1. ASSUME NEW line \in NextLines, Pass(line) PROVE ChatInv'
  <2>1. /\ line \in Lines /\ upstream' \in Upstreams
        /\ upstream'.answer
             = IF line.field = "data" THEN Grown(upstream.answer, line.data) ELSE upstream.answer
    BY <1>1, SendsTells DEF Pass
  <2>2. upstream.answer \in Answers
    BY DEF Common, Upstreams
  <2> DEFINE reports == line.field = "data" /\ line.data.kind = "chunk" /\ line.data.usage
  <2>3. adapter' = IF reports THEN [usage |-> line.data.at] ELSE adapter
    BY <1>1 DEF Pass
  <2>4. CASE line.field = "data"
    <3>1. line.data \in Data
      BY <2>1, <2>4 DEF Lines
    <3>2. /\ line.data.kind \in {"done", "error", "junk", "chunk"}
          /\ line.data.kind = "chunk" => line.data.at \in 1..MaxData
      BY <3>1 DEF Data
    <3>3. /\ line.data.kind \in {"error", "junk"} => Grown(upstream.answer, line.data) = upstream.answer
          /\ line.data.kind = "done" => Grown(upstream.answer, line.data).usage = upstream.answer.usage
          /\ line.data.kind = "chunk" =>
               Grown(upstream.answer, line.data).usage
                 = IF line.data.usage THEN line.data.at ELSE upstream.answer.usage
      <4> DEFINE d == line.data
                 answer == upstream.answer
      <4> HIDE DEF d, answer
      <4>1. d \in Data /\ answer \in Answers
        BY <2>2, <3>1 DEF d, answer
      <4>2. LET g == Grown(answer, d) IN
            /\ d.kind \in {"error", "junk"} => g = answer
            /\ d.kind = "done" => g.usage = answer.usage
            /\ d.kind = "chunk" => Grows(answer, d, g)
        BY ONLY <4>1, GrownTells
      <4> QED
        BY <4>2 DEF d, answer, Grows
    <3>4. upstream'.answer.usage = IF reports THEN line.data.at ELSE upstream.answer.usage
      BY <2>1, <2>4, <3>2, <3>3
    <3>5. reports => line.data.at \in 0..MaxData
      BY <3>2, BoundsAssumption
    <3> HIDE DEF reports
    <3> QED
      BY <2>3, <3>4, <3>5 DEF ChatInv
  <2>5. CASE line.field # "data"
    BY <2>1, <2>3, <2>5 DEF ChatInv
  <2> QED
    BY <2>4, <2>5
<1>2. CASE Feed
  BY <1>2 DEF Feed, Common
<1>3. CASE UNCHANGED <<adapter, upstream>>
  BY <1>3 DEF ChatInv
<1> QED
  BY <1>1, <1>2, <1>3
     DEF Next, vars, Begin, Read, EndOfStream, Finish, UpstreamBreaks, Close

--------------------------------------------------------------------------------
(***************************************************************************)
(* The relay of the Messages endpoint.                                     *)
(***************************************************************************)
LEMMA StartFits ==
  /\ MessagesStart \in MessageAdapters
  /\ Fits(<<>>, MessagesStart)
  /\ <<>> \in Delivered
  /\ Told(MessageHeard(<<>>, MessagesStart), <<>>, NoAnswer)
<1> DEFINE a == MessagesStart
<1>1. /\ a.next_index = 0 /\ a.open = NoBlock /\ a.text_block_index = None
      /\ a.tool_blocks = <<>> /\ a.finish_reason = "none" /\ a.saw_tool_call = FALSE /\ a.usage = 0
  BY DEF MessagesStart
<1>2. <<>> \in Blocks /\ DOMAIN <<>> = {}
  <2>1. {} \in Indices
    BY FS_EmptySet DEF Indices
  <2>2. <<>> \in [{} -> Nat]
    OBVIOUS
  <2> QED
    BY <2>1, <2>2 DEF Blocks
<1>3. a \in MessageAdapters
  <2>1. 0 \in 0..MaxData /\ "none" \in Words /\ NoBlock \in OpenBlocks
    BY BoundsAssumption DEF Words, OpenBlocks
  <2>2. <<>> \in Blocks
    BY <1>2
  <2> QED
    BY <2>1, <2>2 DEF MessageAdapters, MessagesStart
<1>4. Shape(<<>>, 0, NoBlock)
  BY ShapeEmpty
<1>5. Len(<<>>) = 0 /\ StartsOf(<<>>, 0) = {} /\ NoEnd(<<>>)
  BY DEF StartsOf, SentOf, NoEnd
<1>6. FitsAt(<<>>, 0, NoBlock, <<>>)
  BY <1>2, <1>4, <1>5 DEF FitsAt
<1> HIDE DEF a
<1>7. Fits(<<>>, a)
  <2>1. NoBlock.kind # "text"
    BY DEF NoBlock
  <2>2. FitsAt(<<>>, a.next_index, a.open, a.tool_blocks)
    BY <1>1, <1>6
  <2>3. a.saw_tool_call <=> DOMAIN a.tool_blocks # {}
    BY <1>1, <1>2
  <2> QED
    BY <1>1, <2>1, <2>2, <2>3 DEF Fits
<1>8. <<>> \in Delivered
  BY <1>4 DEF Shape, Delivered
<1>9. NoAnswer \in Answers
  BY NoAnswerType
<1>10. Told(MessageHeard(<<>>, a), <<>>, NoAnswer)
  <2> DEFINE h == MessageHeard(<<>>, a)
  <2>1. h \in Heards
    <3>1. <<>> \in Seq(MessageEvents)
      BY <1>4 DEF Shape
    <3> QED
      BY ONLY <1>3, <3>1, MessageHeardType
  <2>2. /\ h.text = TextIn(<<>>) /\ h.calls = DOMAIN a.tool_blocks /\ h.usage = a.usage
        /\ \A i \in Nat : h.arguments[i] = ArgumentsIn(<<>>, a.tool_blocks, i)
    BY DEF MessageHeard
  <2>3. h.text = <<>> /\ \A i \in Nat : h.arguments[i] = <<>>
    <3>1. \A M : Joined(<<>>, M) = <<>>
      BY FlattenEmpty DEF Joined, Pieces
    <3> QED
      BY <1>1, <1>2, <2>2, <3>1 DEF TextIn, ArgumentsIn
  <2>4. /\ NoAnswer.content = <<>> /\ NoAnswer.reasoning = <<>> /\ NoAnswer.calls = <<>>
        /\ NoAnswer.usage = 0
    BY DEF NoAnswer
  <2>5. <<>> \o <<>> = <<>>
    BY ONLY TRUE
  <2>6. \A i \in Nat : ArgumentsAt(NoAnswer.calls, i) = <<>>
    BY <1>2, <2>4 DEF ArgumentsAt
  <2> HIDE DEF h
  <2>7. h.calls = DOMAIN NoAnswer.calls /\ h.usage = NoAnswer.usage
    BY <1>1, <2>2, <2>4
  <2>8. Told(h, <<>>, NoAnswer)
    BY <1>9, <2>1, <2>3, <2>4, <2>5, <2>6, <2>7, ToldNothing
  <2> QED
    BY <2>8 DEF h
<1> QED
  BY <1>3, <1>7, <1>8, <1>10 DEF a

\* The greeting says nothing.
LEMMA GreetingFits ==
  ASSUME NEW s, NEW a \in MessageAdapters, Fits(s, a)
  PROVE  /\ <<MessageStart>> \in Seq(MessageEvents)
         /\ AllPrefixes(s, <<MessageStart>>, Written)
         /\ Fits(s \o <<MessageStart>>, a)
         /\ MessageHeard(s \o <<MessageStart>>, a) = MessageHeard(s, a)
<1> DEFINE e == MessageStart
           t == Append(s, e)
           blocks == a.tool_blocks
           open == a.open
           next == a.next_index
<1>0. FitsAt(s, next, open, blocks)
  BY DEF Fits
<1>1. /\ s \in Seq(MessageEvents) /\ Shape(s, next, open) /\ NoEnd(s) /\ blocks \in Blocks
      /\ s \in Written
  BY <1>0, FitsIsWritten DEF FitsAt, Shape
<1>2. e \in MessageEvents /\ e.type = "message_start"
  BY DEF MessageStart, MessageEvents
<1> HIDE DEF e
<1>3. Shape(t, next, open)
  BY <1>1, <1>2, ShapeOther
<1>4. NoEnd(t)
  BY <1>1, <1>2, NoEndAppend
<1> HIDE DEF open, next
<1>5. \A i \in DOMAIN blocks :
        /\ Begun(t, blocks[i], "tool_use") /\ blocks[i] < next
        /\ open.kind = "text" => blocks[i] # open.index
  BY <1>0, <1>1, <1>2, BegunAppend DEF FitsAt
<1>6. /\ Len(t) = Len(s) + 1 /\ Len(s) \in Nat /\ \A i \in 1..Len(s) : t[i] = s[i]
      /\ StartsOf(t, Len(t)) = StartsOf(s, Len(s))
  BY <1>1, <1>2, AppendProperties, LenProperties, BlocksAppend
<1>7. TextIn(t) = TextIn(s) /\ \A i : ArgumentsIn(t, blocks, i) = ArgumentsIn(s, blocks, i)
  BY <1>1, <1>2, SilentAppend
<1> HIDE DEF t
<1>8. FitsAt(t, next, open, blocks)
  <2>1. \A k \in StartsOf(t, Len(t)) :
          t[k].kind = "tool_use" => \E i \in DOMAIN blocks : blocks[i] = t[k].index
    BY <1>0, <1>6 DEF FitsAt, StartsOf, SentOf
  <2>2. \A i, j \in DOMAIN blocks : blocks[i] = blocks[j] => i = j
    BY <1>0 DEF FitsAt
  <2> QED
    BY <1>1, <1>3, <1>4, <1>5, <2>1, <2>2 DEF FitsAt
<1>9. t \in Written
  BY <1>8, FitsIsWritten
<1>10. AllPrefixes(s, <<e>>, Written) /\ s \o <<e>> = t /\ <<e>> \in Seq(MessageEvents)
  BY <1>1, <1>2, <1>9, WrittenOne DEF t
<1>11. Fits(t, a)
  BY <1>8 DEF Fits, open, next
<1>12. MessageHeard(t, a) = MessageHeard(s, a)
  BY <1>7 DEF MessageHeard
<1> QED
  BY <1>10, <1>11, <1>12 DEF e

MessagesInv ==
  /\ adapter \in MessageAdapters
  /\ sent \in Delivered
  /\ Active => Fits(sent, adapter)
  /\ Active /\ upstream.clean =>
       /\ Told(MessageHeard(sent, adapter), Coming(events, parser), upstream.answer)
       /\ FinishTold(adapter.finish_reason, Coming(events, parser),
                     Flush(parser).parser.finish, upstream.answer)
  /\ upstream.clean /\ upstream.answer.done => Tells(sent, upstream.answer)
  /\ phase = "ended" /\ upstream.clean => adapter.usage = upstream.answer.usage

LEMMA MessagesInit ==
  ASSUME Init, client = "messages"
  PROVE  MessagesInv
<1>1. adapter = MessagesStart /\ sent = <<>> /\ events = <<>> /\ phase = "headers"
      /\ upstream.answer = NoAnswer /\ parser = ParserStart
  BY DEF Init, AdapterStart
<1>2. parser \in Parsers /\ parser.data = <<>> /\ parser.finish = "none"
  BY <1>1, CommonInit DEF Common, ParserStart
<1>3. Coming(events, parser) = <<>> /\ Flush(parser).parser.finish = "none"
  <2>1. Flush(parser).events = <<>> /\ Flush(parser).parser.finish = "none"
    BY <1>2, FlushIdle
  <2>2. <<>> \o <<>> = <<>>
    BY ONLY TRUE
  <2> QED
    BY <1>1, <2>1, <2>2 DEF Coming
<1>4. FinishTold(MessagesStart.finish_reason, <<>>, "none", NoAnswer)
  BY DEF FinishTold, Without, MessagesStart, NoAnswer
<1>5. NoEnd(sent)
  BY <1>1 DEF NoEnd
<1>6. Tells(sent, upstream.answer)
  BY <1>5, NoEndTells
<1>7. ~(phase = "ended")
  BY <1>1
<1> QED
  BY <1>1, <1>3, <1>4, <1>6, <1>7, StartFits DEF MessagesInv

\* While the relay writes on, what was sent fits the adapter or the relay is
\* cut; either way the message has not ended.
LEMMA MessagesWrite ==
  ASSUME NEW batch \in Seq(MessageEvents), NEW next \in {"reading", "finishing"},
         AllPrefixes(sent, batch, Written), Write(batch, next),
         adapter' \in MessageAdapters, upstream' = upstream,
         Fits(sent \o batch, adapter'),
         upstream.clean =>
           /\ Told(MessageHeard(sent \o batch, adapter'), Coming(events, parser)', upstream.answer)
           /\ FinishTold(adapter'.finish_reason, Coming(events, parser)',
                         Flush(parser').parser.finish, upstream.answer)
  PROVE  MessagesInv'
<1>1. /\ sent' \in Written
      /\ \/ phase' = next /\ sent' = sent \o batch
         \/ phase' = "cut"
  BY WriteTells
<1>2. sent' \in Delivered /\ NoEnd(sent')
  BY <1>1 DEF Written, Delivered
<1>3. \A answer : Tells(sent', answer)
  BY <1>2, NoEndTells
<1>4. Active' => sent' = sent \o batch
  BY <1>1 DEF Active
<1>5. phase' # "ended"
  BY <1>1
<1> QED
  BY <1>2, <1>3, <1>4, <1>5 DEF MessagesInv

LEMMA MessagesRead ==
  ASSUME Common, MessagesInv, NEW line \in NextLines, Read(line)
  PROVE  MessagesInv'
<1>1. /\ line \in Lines
      /\ upstream'.answer
           = IF line.field = "data" THEN Grown(upstream.answer, line.data) ELSE upstream.answer
      /\ upstream'.clean =>
           /\ upstream.clean
           /\ line.field = "data" => /\ parser.data = <<>> /\ parser.event \in {"", "message"}
                                     /\ ~upstream.answer.done
           /\ line.field \in {"event", "other"} => parser.data = <<>>
  BY SendsTells DEF Read
<1>2. /\ phase = "reading" /\ events = <<>> /\ Active /\ Active'
      /\ phase' = phase /\ adapter' = adapter /\ sent' = sent
      /\ parser' = ParseLine(parser, line).parser /\ events' = ParseLine(parser, line).events
  BY DEF Read, Active
<1>3. /\ adapter \in MessageAdapters /\ Fits(sent, adapter) /\ sent \in Seq(MessageEvents)
      /\ NoEnd(sent) /\ sent \in Delivered
  BY <1>2, FitsIsWritten DEF MessagesInv, Fits, Written
<1>4. MessageHeard(sent, adapter) \in Heards
  BY <1>3, MessageHeardType
<1>5. upstream.answer \in Answers /\ parser \in Parsers
  BY DEF Common, Upstreams
<1>6. ASSUME upstream'.clean
      PROVE  /\ Told(MessageHeard(sent, adapter), Coming(events', parser'), upstream'.answer)
             /\ FinishTold(adapter.finish_reason, Coming(events', parser'),
                           Flush(parser').parser.finish, upstream'.answer)
  <2>1. /\ upstream.clean /\ Clean(parser)
        /\ Told(MessageHeard(sent, adapter), Coming(<<>>, parser), upstream.answer)
        /\ FinishTold(adapter.finish_reason, Coming(<<>>, parser),
                      Flush(parser).parser.finish, upstream.answer)
    BY <1>1, <1>2, <1>6 DEF MessagesInv, Common
  <2> DEFINE h == MessageHeard(sent, adapter)
             p == parser
             answer == upstream.answer
             reason == adapter.finish_reason
  <2>2. /\ line.field = "data" => p.data = <<>> /\ p.event \in {"", "message"} /\ ~answer.done
        /\ line.field \in {"event", "other"} => p.data = <<>>
    BY <1>1, <1>6
  <2>3. h \in Heards /\ p \in Parsers /\ answer \in Answers
    BY <1>4, <1>5
  <2> HIDE DEF h, p, answer, reason
  <2>4. Told(h, Coming(<<>>, p), answer) /\ Clean(p)
        /\ FinishTold(reason, Coming(<<>>, p), Flush(p).parser.finish, answer)
    BY <2>1 DEF h, p, answer, reason
  <2>5. LET f == ParseLine(p, line) IN
        Told(h, Coming(f.events, f.parser),
             IF line.field = "data" THEN Grown(answer, line.data) ELSE answer)
    BY <1>1, <2>2, <2>3, <2>4, ToldLine
  <2>6. LET f == ParseLine(p, line) IN
        FinishTold(reason, Coming(f.events, f.parser), Flush(f.parser).parser.finish,
                   IF line.field = "data" THEN Grown(answer, line.data) ELSE answer)
    BY <1>1, <2>2, <2>3, <2>4, FinishLine
  <2> QED
    BY <1>1, <1>2, <2>5, <2>6 DEF h, p, answer, reason
<1>7. \A answer : Tells(sent, answer)
  BY <1>3, NoEndTells
<1> QED
  BY <1>2, <1>3, <1>6, <1>7 DEF MessagesInv, Coming

\* The end of the stream closes the last event as a blank line would.
LEMMA FlushComes ==
  ASSUME NEW p \in Parsers, Clean(p)
  PROVE  LET f == Flush(p) IN
         /\ Coming(f.events, f.parser) = Coming(<<>>, p)
         /\ Flush(f.parser).parser.finish = Flush(p).parser.finish
<1>1. Blank \in Lines /\ Blank.field = "blank"
  BY DEF Blank, Lines
<1>2. ParseLine(p, Blank) = Flush(p)
  BY <1>1 DEF ParseLine
<1>3. LET f == ParseLine(p, Blank) IN
      /\ Coming(f.events, f.parser) = Coming(<<>>, p)
      /\ Flush(f.parser).parser.finish = Flush(p).parser.finish
  BY <1>1, LineSays
<1> QED
  BY <1>2, <1>3

LEMMA MessagesEndOfStream ==
  ASSUME Common, MessagesInv, client = "messages", EndOfStream
  PROVE  MessagesInv'
<1>1. /\ phase = "reading" /\ events = <<>> /\ Active /\ phase' = "finishing" /\ Active'
      /\ adapter' = adapter /\ sent' = sent /\ upstream' = upstream
      /\ parser' = Flush(parser).parser /\ events' = Flush(parser).events
  BY DEF EndOfStream, Active
<1>2. parser \in Parsers
  BY DEF Common
<1>3. ASSUME upstream.clean
      PROVE  /\ Coming(events', parser') = Coming(events, parser)
             /\ Flush(parser').parser.finish = Flush(parser).parser.finish
  <2>1. Clean(parser)
    BY <1>3 DEF Common
  <2> QED
    BY <1>1, <1>2, <2>1, FlushComes
<1> QED
  BY <1>1, <1>3 DEF MessagesInv, Coming

LEMMA MessagesFeeds ==
  ASSUME Common, MessagesInv, client = "messages", Feed
  PROVE  MessagesInv'
<1> DEFINE e == Head(events)
           f == MessagesFeed(adapter, Rendered(e))
<1>1. /\ phase \in {"reading", "finishing"} /\ Active /\ events # <<>>
      /\ events' = Tail(events) /\ parser' = parser /\ upstream' = upstream
      /\ adapter' = f.adapter /\ Write(f.events, phase)
  BY DEF Feed, AdapterFeed, Active
<1>2. /\ events \in Seq(Canonical) /\ parser \in Parsers /\ parser.data = <<>>
      /\ upstream.answer \in Answers
  BY <1>1 DEF Common, Upstreams
<1>3. e \in Canonical /\ Tail(events) \in Seq(Canonical)
  BY <1>1, <1>2, HeadTailProperties
<1>4. Coming(events, parser) = events /\ Coming(events', parser') = Tail(events)
  <2>1. Flush(parser).events = <<>>
    BY <1>2, FlushIdle
  <2>2. events \o <<>> = events /\ Tail(events) \o <<>> = Tail(events)
    BY <1>2, <1>3, ConcatEmptySeq
  <2> QED
    BY <1>1, <2>1, <2>2 DEF Coming
<1>5. adapter \in MessageAdapters /\ Fits(sent, adapter) /\ sent \in Seq(MessageEvents)
  BY <1>1 DEF MessagesInv, Fits, FitsAt, Shape
<1>6. /\ f.events \in Seq(MessageEvents)
      /\ AllPrefixes(sent, f.events, Written)
      /\ f.adapter \in MessageAdapters
      /\ Fits(sent \o f.events, f.adapter)
      /\ Hears(MessageHeard(sent, adapter), e, MessageHeard(sent \o f.events, f.adapter))
      /\ f.adapter.finish_reason
           = IF e.type = "done" /\ e.finish # "none" THEN e.finish ELSE adapter.finish_reason
  BY SMTT(30), <1>3, <1>5, MessageFeedTells DEF Leads
<1>7. /\ MessageHeard(sent, adapter) \in Heards
      /\ MessageHeard(sent \o f.events, f.adapter) \in Heards
  BY <1>5, <1>6, MessageHeardType DEF Fits, FitsAt, Shape
<1>8. ASSUME upstream.clean
      PROVE  /\ Told(MessageHeard(sent \o f.events, f.adapter), Tail(events), upstream.answer)
             /\ FinishTold(f.adapter.finish_reason, Tail(events),
                           Flush(parser).parser.finish, upstream.answer)
  <2>1. /\ Told(MessageHeard(sent, adapter), events, upstream.answer)
        /\ FinishTold(adapter.finish_reason, events, Flush(parser).parser.finish, upstream.answer)
    BY <1>1, <1>4, <1>8 DEF MessagesInv
  <2> DEFINE h == MessageHeard(sent, adapter)
             g == MessageHeard(sent \o f.events, f.adapter)
             after == f.adapter.finish_reason
             reason == adapter.finish_reason
             finish == Flush(parser).parser.finish
             answer == upstream.answer
             es == events
  <2>2. /\ h \in Heards /\ g \in Heards /\ answer \in Answers /\ es \in Seq(Canonical)
        /\ es # <<>> /\ Told(h, es, answer) /\ Hears(h, Head(es), g)
    BY <1>1, <1>2, <1>6, <1>7, <2>1
  <2>3. /\ FinishTold(reason, es, finish, answer)
        /\ after = IF Head(es).type = "done" /\ Head(es).finish # "none" THEN Head(es).finish
                   ELSE reason
    BY <1>6, <2>1
  <2> HIDE DEF h, g, after, reason, finish, answer, es
  <2>4. Told(g, Tail(es), answer)
    BY <2>2, ToldFeed
  <2>5. FinishTold(after, Tail(es), finish, answer)
    BY <2>2, <2>3, FinishFeed
  <2> QED
    BY <2>4, <2>5 DEF g, after, finish, answer, es
<1> HIDE DEF f
<1> QED
  BY <1>1, <1>4, <1>6, <1>8, MessagesWrite DEF Coming

LEMMA MessagesFinishes ==
  ASSUME Common, MessagesInv, client = "messages", Finish
  PROVE  MessagesInv'
<1> DEFINE batch == MessagesFinish(adapter)
           told == upstream.clean /\ upstream.answer.done
           W == {w \in Delivered : told => Tells(w, upstream.answer)}
<1>1. /\ phase = "finishing" /\ Active /\ events = <<>> /\ Write(batch, "ended")
      /\ adapter' = adapter /\ upstream' = upstream /\ parser' = parser /\ events' = events
  BY DEF Finish, AdapterFinish, Active
<1>2. upstream.answer \in Answers /\ parser \in Parsers /\ parser.data = <<>>
  BY <1>1 DEF Common, Upstreams
<1>3. Coming(events, parser) = <<>>
  <2>1. Flush(parser).events = <<>>
    BY <1>2, FlushIdle
  <2>2. <<>> \o <<>> = <<>>
    BY ONLY TRUE
  <2> QED
    BY <1>1, <2>1, <2>2 DEF Coming
<1>4. adapter \in MessageAdapters /\ Fits(sent, adapter) /\ sent \in Seq(MessageEvents)
  BY <1>1 DEF MessagesInv, Fits, FitsAt, Shape
<1>5. upstream.clean =>
        /\ Told(MessageHeard(sent, adapter), <<>>, upstream.answer)
        /\ FinishTold(adapter.finish_reason, <<>>, Flush(parser).parser.finish, upstream.answer)
  BY <1>1, <1>3 DEF MessagesInv
<1>6. upstream.clean => adapter.usage = upstream.answer.usage
  <2> DEFINE h == MessageHeard(sent, adapter)
  <2>1. h \in Heards /\ h.usage = adapter.usage
    BY <1>4, MessageHeardType DEF MessageHeard
  <2> HIDE DEF h
  <2>2. Told(h, <<>>, upstream.answer) => h.usage = upstream.answer.usage
    BY <1>2, <2>1, ToldNothing
  <2> QED
    BY <1>5, <2>1, <2>2 DEF h
<1>7. told => /\ Told(MessageHeard(sent, adapter), <<>>, upstream.answer)
              /\ adapter.finish_reason = upstream.answer.finish
  BY <1>5, FinishSaid
<1> HIDE DEF told
<1>8. batch \in Seq(MessageEvents) /\ AllPrefixes(sent, batch, W)
  BY <1>2, <1>4, <1>7, FinishTells
<1> HIDE DEF batch, W
<1>9. sent' \in W /\ phase' \in {"ended", "cut"}
  BY <1>1, <1>8, WriteTells
<1>10. sent' \in Delivered /\ (told => Tells(sent', upstream.answer))
  BY <1>9 DEF W
<1>11. ~Active'
  BY <1>9 DEF Active
<1> QED
  BY <1>1, <1>4, <1>6, <1>10, <1>11 DEF MessagesInv, told

LEMMA MessagesBegin ==
  ASSUME Common, MessagesInv, client = "messages", Begin
  PROVE  MessagesInv'
<1>1. /\ phase = "headers" /\ Active /\ parser' = parser /\ events' = events
      /\ adapter' = adapter /\ upstream' = upstream
      /\ \/ phase' = "gone" /\ sent' = sent
         \/ Write(<<MessageStart>>, "reading")
  BY DEF Begin, Greeting, Active
<1>2. adapter \in MessageAdapters /\ Fits(sent, adapter)
  BY <1>1 DEF MessagesInv
<1>3. CASE phase' = "gone" /\ sent' = sent
  BY <1>1, <1>3 DEF MessagesInv, Active
<1>4. CASE Write(<<MessageStart>>, "reading")
  <2>1. /\ <<MessageStart>> \in Seq(MessageEvents)
        /\ AllPrefixes(sent, <<MessageStart>>, Written)
        /\ Fits(sent \o <<MessageStart>>, adapter)
        /\ MessageHeard(sent \o <<MessageStart>>, adapter) = MessageHeard(sent, adapter)
    BY <1>2, GreetingFits
  <2>2. upstream.clean =>
          /\ Told(MessageHeard(sent, adapter), Coming(events, parser), upstream.answer)
          /\ FinishTold(adapter.finish_reason, Coming(events, parser),
                        Flush(parser).parser.finish, upstream.answer)
    BY <1>1 DEF MessagesInv
  <2> DEFINE batch == <<MessageStart>>
  <2> HIDE DEF batch
  <2>3. /\ batch \in Seq(MessageEvents)
        /\ AllPrefixes(sent, batch, Written)
        /\ Fits(sent \o batch, adapter)
        /\ MessageHeard(sent \o batch, adapter) = MessageHeard(sent, adapter)
        /\ Write(batch, "reading")
    BY <1>4, <2>1 DEF batch
  <2> QED
    BY <1>1, <1>2, <2>2, <2>3, MessagesWrite DEF Coming
<1> QED
  BY <1>1, <1>3, <1>4

LEMMA MessagesNext ==
  ASSUME Common, MessagesInv, client = "messages", [Next]_vars
  PROVE  MessagesInv'
<1>1. CASE Begin
  BY <1>1, MessagesBegin
<1>2. ASSUME NEW line \in NextLines, Read(line) PROVE MessagesInv'
  BY <1>2, MessagesRead
<1>3. ASSUME NEW line \in NextLines, Pass(line) PROVE MessagesInv'
  BY <1>3 DEF Pass
<1>4. CASE EndOfStream
  BY <1>4, MessagesEndOfStream
<1>5. CASE Feed
  BY <1>5, MessagesFeeds
<1>6. CASE Finish
  BY <1>6, MessagesFinishes
<1>7. CASE UpstreamBreaks
  <2>1. ~Active' /\ phase' # "ended"
    BY <1>7 DEF UpstreamBreaks, Active
  <2> QED
    BY <1>7, <2>1 DEF UpstreamBreaks, MessagesInv
<1>8. CASE Close
  BY <1>8 DEF Close, MessagesInv, Active, Coming
<1>9. CASE UNCHANGED vars
  BY <1>9 DEF vars, MessagesInv, Active, Coming
<1> QED
  BY <1>1, <1>2, <1>3, <1>4, <1>5, <1>6, <1>7, <1>8, <1>9 DEF Next

--------------------------------------------------------------------------------
(***************************************************************************)
(* The relay of the Responses endpoint.                                    *)
(***************************************************************************)
LEMMA GoingTells ==
  ASSUME NEW s, Going(s), NEW answer
  PROVE  ResponseTells(s, answer)
BY DEF Going, ResponseTells, SentOf

LEMMA StartCarries ==
  /\ ResponsesStart \in ResponseAdapters
  /\ Carries(<<>>, ResponsesStart)
  /\ Told(ResponseHeard(ResponsesStart), <<>>, NoAnswer)
<1> DEFINE a == ResponsesStart
<1>1. a.text = <<>> /\ a.text_started = FALSE /\ a.calls = <<>> /\ a.usage = 0
  BY DEF ResponsesStart
<1>2. <<>> \in OpenCalls /\ DOMAIN <<>> = {}
  <2>1. {} \in Indices
    BY FS_EmptySet DEF Indices
  <2>2. <<>> \in [{} -> OpenCall]
    OBVIOUS
  <2> QED
    BY <2>1, <2>2 DEF OpenCalls
<1>3. a \in ResponseAdapters
  <2>1. 0 \in 0..MaxData /\ <<>> \in Texts
    BY BoundsAssumption DEF Texts
  <2>2. <<>> \in OpenCalls
    BY <1>2
  <2> QED
    BY <2>1, <2>2 DEF ResponseAdapters, ResponsesStart
<1> HIDE DEF a
<1>4. <<>> \in Seq(ResponseEvents) /\ Len(<<>>) = 0
  BY EmptySeq
<1>5. Streaming(<<>>)
  BY <1>4 DEF Streaming, Promises, Going
<1>6. \A item : ~Known(<<>>, item)
  BY <1>4 DEF Known, ItemSent, SentOf
<1>7. \A M : Joined(<<>>, M) = <<>>
  BY FlattenEmpty DEF Joined, Pieces
<1>8. \A i : Heard(a.calls, i) = <<>>
  BY <1>1, <1>2 DEF Heard
<1>9. Carries(<<>>, a)
  BY <1>1, <1>2, <1>5, <1>6, <1>7, <1>8 DEF Carries
<1>10. Told(ResponseHeard(a), <<>>, NoAnswer)
  <2> DEFINE h == ResponseHeard(a)
  <2>1. h \in Heards
    BY <1>3, ResponseHeardType
  <2>2. /\ h.text = a.text /\ h.calls = DOMAIN a.calls /\ h.usage = a.usage
        /\ \A i \in Nat : h.arguments[i] = Heard(a.calls, i)
    BY DEF ResponseHeard
  <2>3. /\ NoAnswer.content = <<>> /\ NoAnswer.reasoning = <<>> /\ NoAnswer.calls = <<>>
        /\ NoAnswer.usage = 0
    BY DEF NoAnswer
  <2>4. <<>> \o <<>> = <<>>
    BY ONLY TRUE
  <2>5. \A i \in Nat : ArgumentsAt(NoAnswer.calls, i) = <<>>
    BY <1>2, <2>3 DEF ArgumentsAt
  <2> HIDE DEF h
  <2>6. h.calls = DOMAIN NoAnswer.calls /\ h.usage = NoAnswer.usage
    BY <1>1, <2>2, <2>3
  <2>7. h.text = <<>> /\ \A i \in Nat : h.arguments[i] = <<>>
    BY <1>1, <1>8, <2>2
  <2>8. Told(h, <<>>, NoAnswer)
    BY <2>1, <2>3, <2>4, <2>5, <2>6, <2>7, NoAnswerType, ToldNothing
  <2> QED
    BY <2>8 DEF h
<1> QED
  BY <1>3, <1>9, <1>10 DEF a

LEMMA PrefixesOne ==
  ASSUME NEW E, NEW s \in Seq(E), NEW e \in E, NEW W, s \in W, Append(s, e) \in W
  PROVE  AllPrefixes(s, <<e>>, W) /\ s \o <<e>> = Append(s, e) /\ <<e>> \in Seq(E)
<1>1. AllPrefixes(s, <<>>, W) /\ s = s \o <<>> /\ <<>> \in Seq(E)
  BY PrefixesEmpty
<1> DEFINE none == <<>>
<1> HIDE DEF none
<1>2. Append(s \o none, e) \in W /\ none \in Seq(E)
  BY <1>1 DEF none
<1>3. AllPrefixes(s, none, W)
  BY <1>1 DEF none
<1>4. AllPrefixes(s, Append(none, e), W) /\ s \o Append(none, e) = Append(s \o none, e)
  BY <1>2, <1>3, PrefixesAppend
<1>5. Append(none, e) = <<e>> /\ <<e>> \in Seq(E)
  BY DEF none
<1> QED
  BY <1>1, <1>4, <1>5 DEF none

\* The first event says nothing.
LEMMA CreatedCarries ==
  ASSUME NEW s, NEW a \in ResponseAdapters, Carries(s, a)
  PROVE  Carried(s, a, <<Created>>, a)
<1> DEFINE e == Created
           t == Append(s, e)
<1>1. e \in ResponseEvents /\ e.type = "response.created"
  BY DEF Created, ResponseEvents
<1> HIDE DEF e
<1>2. Streaming(s) /\ s \in Seq(ResponseEvents) /\ Promises(s) /\ Going(s)
  BY DEF Carries, Streaming
<1>3. /\ t \in Seq(ResponseEvents) /\ t[Len(s) + 1] = e
      /\ \A item, x : Announced(s, item, x) => Announced(t, item, x)
      /\ \A item : Known(t, item) <=> Known(s, item)
      /\ Going(t)
  BY <1>1, <1>2, ItemsAppend
<1>4. \A item : Joined(t, DeltasOf(item)) = Joined(s, DeltasOf(item))
  BY <1>1, <1>2, ItemTextAppend
<1>5. Promises(t)
  <2>1. PromiseAt(t, Len(s) + 1)
    <3> HIDE DEF t
    <3> QED
      BY <1>1, <1>3 DEF PromiseAt
  <2> QED
    BY <1>1, <1>2, <2>1, PromisesAppend
<1>6. s \in Streams /\ t \in Streams
  BY <1>2, <1>3, <1>5 DEF Streams, Streaming
<1>7. AllPrefixes(s, <<e>>, Streams) /\ s \o <<e>> = t /\ <<e>> \in Seq(ResponseEvents)
  BY ONLY <1>1, <1>2, <1>6, PrefixesOne
<1> HIDE DEF t
<1>8. Carries(t, a)
  BY <1>3, <1>4, <1>6 DEF Carries, Streams
<1> QED
  BY <1>7, <1>8 DEF Carried, e

ResponsesInv ==
  /\ adapter \in ResponseAdapters
  /\ sent \in Seq(ResponseEvents) /\ Promises(sent)
  /\ Active => Carries(sent, adapter)
  /\ Active /\ upstream.clean =>
       Told(ResponseHeard(adapter), Coming(events, parser), upstream.answer)
  /\ upstream.clean /\ OneKindOfText(upstream.answer) => ResponseTells(sent, upstream.answer)
  /\ phase = "ended" /\ upstream.clean => adapter.usage = upstream.answer.usage

LEMMA ResponsesInit ==
  ASSUME Init, client = "responses"
  PROVE  ResponsesInv
<1>1. adapter = ResponsesStart /\ sent = <<>> /\ events = <<>> /\ phase = "headers"
      /\ upstream.answer = NoAnswer /\ parser = ParserStart
  BY DEF Init, AdapterStart
<1>2. parser \in Parsers /\ parser.data = <<>>
  BY <1>1, CommonInit DEF Common, ParserStart
<1>3. Coming(events, parser) = <<>>
  <2>1. Flush(parser).events = <<>>
    BY <1>2, FlushIdle
  <2>2. <<>> \o <<>> = <<>>
    BY ONLY TRUE
  <2> QED
    BY <1>1, <2>1, <2>2 DEF Coming
<1>4. Streaming(sent)
  BY <1>1, StartCarries DEF Carries
<1>5. ResponseTells(sent, upstream.answer)
  BY <1>4, GoingTells DEF Streaming
<1>6. ~(phase = "ended")
  BY <1>1
<1> QED
  BY <1>1, <1>3, <1>4, <1>5, <1>6, StartCarries DEF ResponsesInv, Streaming

\* While the relay writes on, the adapter carries what was sent or the relay is
\* cut; either way the response is not complete.
LEMMA ResponsesWrite ==
  ASSUME NEW a, NEW batch, NEW next \in {"reading", "finishing"},
         Carried(sent, a, batch, adapter'), Write(batch, next), upstream' = upstream,
         upstream.clean =>
           Told(ResponseHeard(adapter'), Coming(events, parser)', upstream.answer)
  PROVE  ResponsesInv'
<1>1. /\ batch \in Seq(ResponseEvents) /\ AllPrefixes(sent, batch, Streams)
      /\ adapter' \in ResponseAdapters /\ Carries(sent \o batch, adapter')
  BY DEF Carried
<1>2. /\ sent' \in Streams
      /\ \/ phase' = next /\ sent' = sent \o batch
         \/ phase' = "cut"
  BY <1>1, WriteTells
<1>3. sent' \in Seq(ResponseEvents) /\ Promises(sent') /\ Going(sent')
  BY <1>2 DEF Streams, Streaming
<1>4. \A answer : ResponseTells(sent', answer)
  BY <1>3, GoingTells
<1>5. Active' => sent' = sent \o batch
  BY <1>2 DEF Active
<1>6. phase' # "ended"
  BY <1>2
<1> QED
  BY <1>1, <1>3, <1>4, <1>5, <1>6 DEF ResponsesInv

LEMMA ResponsesRead ==
  ASSUME Common, ResponsesInv, NEW line \in NextLines, Read(line)
  PROVE  ResponsesInv'
<1>1. /\ line \in Lines
      /\ upstream'.answer
           = IF line.field = "data" THEN Grown(upstream.answer, line.data) ELSE upstream.answer
      /\ upstream'.clean =>
           /\ upstream.clean
           /\ line.field = "data" => parser.data = <<>> /\ parser.event \in {"", "message"}
           /\ line.field \in {"event", "other"} => parser.data = <<>>
  BY SendsTells DEF Read
<1>2. /\ phase = "reading" /\ events = <<>> /\ Active /\ Active'
      /\ phase' = phase /\ adapter' = adapter /\ sent' = sent
      /\ parser' = ParseLine(parser, line).parser /\ events' = ParseLine(parser, line).events
  BY DEF Read, Active
<1>3. /\ adapter \in ResponseAdapters /\ Carries(sent, adapter)
      /\ sent \in Seq(ResponseEvents) /\ Promises(sent) /\ Going(sent)
  BY <1>2 DEF ResponsesInv, Carries, Streaming
<1>4. ResponseHeard(adapter) \in Heards
  BY <1>3, ResponseHeardType
<1>5. upstream.answer \in Answers /\ parser \in Parsers
  BY DEF Common, Upstreams
<1>6. ASSUME upstream'.clean
      PROVE  Told(ResponseHeard(adapter), Coming(events', parser'), upstream'.answer)
  <2>1. /\ upstream.clean /\ Clean(parser)
        /\ Told(ResponseHeard(adapter), Coming(<<>>, parser), upstream.answer)
    BY <1>1, <1>2, <1>6 DEF ResponsesInv, Common
  <2> DEFINE h == ResponseHeard(adapter)
             p == parser
             answer == upstream.answer
  <2>2. /\ line.field = "data" => p.data = <<>> /\ p.event \in {"", "message"}
        /\ line.field \in {"event", "other"} => p.data = <<>>
    BY <1>1, <1>6
  <2>3. h \in Heards /\ p \in Parsers /\ answer \in Answers
    BY <1>4, <1>5
  <2> HIDE DEF h, p, answer
  <2>4. Told(h, Coming(<<>>, p), answer) /\ Clean(p)
    BY <2>1 DEF h, p, answer
  <2>5. LET f == ParseLine(p, line) IN
        Told(h, Coming(f.events, f.parser),
             IF line.field = "data" THEN Grown(answer, line.data) ELSE answer)
    BY <1>1, <2>2, <2>3, <2>4, ToldLine
  <2> QED
    BY <1>1, <1>2, <2>5 DEF h, p, answer
<1>7. \A answer : ResponseTells(sent, answer)
  BY <1>3, GoingTells
<1> QED
  BY <1>2, <1>3, <1>6, <1>7 DEF ResponsesInv, Coming

LEMMA ResponsesEndOfStream ==
  ASSUME Common, ResponsesInv, client = "responses", EndOfStream
  PROVE  ResponsesInv'
<1>1. /\ phase = "reading" /\ events = <<>> /\ Active /\ phase' = "finishing" /\ Active'
      /\ adapter' = adapter /\ sent' = sent /\ upstream' = upstream
      /\ parser' = Flush(parser).parser /\ events' = Flush(parser).events
  BY DEF EndOfStream, Active
<1>2. parser \in Parsers
  BY DEF Common
<1>3. ASSUME upstream.clean
      PROVE  Coming(events', parser') = Coming(events, parser)
  <2>1. Clean(parser)
    BY <1>3 DEF Common
  <2> QED
    BY <1>1, <1>2, <2>1, FlushComes
<1> QED
  BY <1>1, <1>3 DEF ResponsesInv, Coming

LEMMA ResponsesFeeds ==
  ASSUME Common, ResponsesInv, client = "responses", Feed
  PROVE  ResponsesInv'
<1> DEFINE e == Head(events)
           f == ResponsesFeed(adapter, Rendered(e))
<1>1. /\ phase \in {"reading", "finishing"} /\ Active /\ events # <<>>
      /\ events' = Tail(events) /\ parser' = parser /\ upstream' = upstream
      /\ adapter' = f.adapter /\ Write(f.events, phase)
  BY DEF Feed, AdapterFeed, Active
<1>2. /\ events \in Seq(Canonical) /\ parser \in Parsers /\ parser.data = <<>>
      /\ upstream.answer \in Answers
  BY <1>1 DEF Common, Upstreams
<1>3. e \in Canonical /\ Tail(events) \in Seq(Canonical)
  BY <1>1, <1>2, HeadTailProperties
<1>4. Coming(events, parser) = events /\ Coming(events', parser') = Tail(events)
  <2>1. Flush(parser).events = <<>>
    BY <1>2, FlushIdle
  <2>2. events \o <<>> = events /\ Tail(events) \o <<>> = Tail(events)
    BY <1>2, <1>3, ConcatEmptySeq
  <2> QED
    BY <1>1, <2>1, <2>2 DEF Coming
<1>5. adapter \in ResponseAdapters /\ Carries(sent, adapter)
  BY <1>1 DEF ResponsesInv
<1>6. /\ Carried(sent, adapter, f.events, f.adapter)
      /\ Hears(ResponseHeard(adapter), e, ResponseHeard(f.adapter))
  BY <1>3, <1>5, ResponseFeedTells
<1>7. ResponseHeard(adapter) \in Heards /\ ResponseHeard(f.adapter) \in Heards
  BY <1>5, <1>6, ResponseHeardType DEF Carried
<1>8. ASSUME upstream.clean
      PROVE  Told(ResponseHeard(f.adapter), Tail(events), upstream.answer)
  <2>1. Told(ResponseHeard(adapter), events, upstream.answer)
    BY <1>1, <1>4, <1>8 DEF ResponsesInv
  <2> DEFINE h == ResponseHeard(adapter)
             g == ResponseHeard(f.adapter)
             answer == upstream.answer
             es == events
  <2>2. /\ h \in Heards /\ g \in Heards /\ answer \in Answers /\ es \in Seq(Canonical)
        /\ es # <<>> /\ Told(h, es, answer) /\ Hears(h, Head(es), g)
    BY <1>1, <1>2, <1>6, <1>7, <2>1
  <2> HIDE DEF h, g, answer, es
  <2>3. Told(g, Tail(es), answer)
    BY <2>2, ToldFeed
  <2> QED
    BY <2>3 DEF g, answer, es
<1> HIDE DEF f
<1> QED
  BY <1>1, <1>4, <1>6, <1>8, ResponsesWrite DEF Coming

LEMMA ResponsesFinishes ==
  ASSUME Common, ResponsesInv, client = "responses", Finish
  PROVE  ResponsesInv'
<1> DEFINE batch == ResponsesFinish(adapter) \o <<[type |-> "[DONE]"]>>
           told == upstream.clean /\ OneKindOfText(upstream.answer)
           W == {w \in Seq(ResponseEvents) :
                   Promises(w) /\ (told => ResponseTells(w, upstream.answer))}
<1>1. /\ phase = "finishing" /\ Active /\ events = <<>> /\ Write(batch, "ended")
      /\ adapter' = adapter /\ upstream' = upstream /\ parser' = parser /\ events' = events
  BY DEF Finish, AdapterFinish, Active
<1>2. upstream.answer \in Answers /\ parser \in Parsers /\ parser.data = <<>>
  BY <1>1 DEF Common, Upstreams
<1>3. Coming(events, parser) = <<>>
  <2>1. Flush(parser).events = <<>>
    BY <1>2, FlushIdle
  <2>2. <<>> \o <<>> = <<>>
    BY ONLY TRUE
  <2> QED
    BY <1>1, <2>1, <2>2 DEF Coming
<1>4. adapter \in ResponseAdapters /\ Carries(sent, adapter)
  BY <1>1 DEF ResponsesInv
<1>5. upstream.clean => Told(ResponseHeard(adapter), <<>>, upstream.answer)
  BY <1>1, <1>3 DEF ResponsesInv
<1>6. upstream.clean => adapter.usage = upstream.answer.usage
  <2> DEFINE h == ResponseHeard(adapter)
  <2>1. h \in Heards /\ h.usage = adapter.usage
    BY <1>4, ResponseHeardType DEF ResponseHeard
  <2> HIDE DEF h
  <2>2. Told(h, <<>>, upstream.answer) => h.usage = upstream.answer.usage
    BY <1>2, <2>1, ToldNothing
  <2> QED
    BY <1>5, <2>1, <2>2 DEF h
<1>7. told => /\ OneKindOfText(upstream.answer)
              /\ Told(ResponseHeard(adapter), <<>>, upstream.answer)
  BY <1>5
<1> HIDE DEF told
<1>8. batch \in Seq(ResponseEvents) /\ AllPrefixes(sent, batch, W)
  BY <1>2, <1>4, <1>7, ResponseFinishTells
<1> HIDE DEF batch, W
<1>9. sent' \in W /\ phase' \in {"ended", "cut"}
  BY <1>1, <1>8, WriteTells
<1>10. /\ sent' \in Seq(ResponseEvents) /\ Promises(sent')
       /\ told => ResponseTells(sent', upstream.answer)
  BY <1>9 DEF W
<1>11. ~Active'
  BY <1>9 DEF Active
<1> QED
  BY <1>1, <1>4, <1>6, <1>10, <1>11 DEF ResponsesInv, told

LEMMA ResponsesBegin ==
  ASSUME Common, ResponsesInv, client = "responses", Begin
  PROVE  ResponsesInv'
<1>1. /\ phase = "headers" /\ Active /\ parser' = parser /\ events' = events
      /\ adapter' = adapter /\ upstream' = upstream
      /\ \/ phase' = "gone" /\ sent' = sent
         \/ Write(<<Created>>, "reading")
  BY DEF Begin, Greeting, Active
<1>2. adapter \in ResponseAdapters /\ Carries(sent, adapter)
  BY <1>1 DEF ResponsesInv
<1>3. CASE phase' = "gone" /\ sent' = sent
  BY <1>1, <1>3 DEF ResponsesInv, Active
<1>4. CASE Write(<<Created>>, "reading")
  <2>1. Carried(sent, adapter, <<Created>>, adapter)
    BY <1>2, CreatedCarries
  <2>2. upstream.clean => Told(ResponseHeard(adapter), Coming(events, parser), upstream.answer)
    BY <1>1 DEF ResponsesInv
  <2> DEFINE batch == <<Created>>
  <2> HIDE DEF batch
  <2>3. Carried(sent, adapter, batch, adapter') /\ Write(batch, "reading")
    BY <1>1, <1>4, <2>1 DEF batch
  <2> QED
    BY <1>1, <2>2, <2>3, ResponsesWrite DEF Coming
<1> QED
  BY <1>1, <1>3, <1>4

LEMMA ResponsesNext ==
  ASSUME Common, ResponsesInv, client = "responses", [Next]_vars
  PROVE  ResponsesInv'
<1>1. CASE Begin
  BY <1>1, ResponsesBegin
<1>2. ASSUME NEW line \in NextLines, Read(line) PROVE ResponsesInv'
  BY <1>2, ResponsesRead
<1>3. ASSUME NEW line \in NextLines, Pass(line) PROVE ResponsesInv'
  BY <1>3 DEF Pass
<1>4. CASE EndOfStream
  BY <1>4, ResponsesEndOfStream
<1>5. CASE Feed
  BY <1>5, ResponsesFeeds
<1>6. CASE Finish
  BY <1>6, ResponsesFinishes
<1>7. CASE UpstreamBreaks
  <2>1. ~Active' /\ phase' # "ended"
    BY <1>7 DEF UpstreamBreaks, Active
  <2> QED
    BY <1>7, <2>1 DEF UpstreamBreaks, ResponsesInv
<1>8. CASE Close
  BY <1>8 DEF Close, ResponsesInv, Active, Coming
<1>9. CASE UNCHANGED vars
  BY <1>9 DEF vars, ResponsesInv, Active, Coming
<1> QED
  BY <1>1, <1>2, <1>3, <1>4, <1>5, <1>6, <1>7, <1>8, <1>9 DEF Next

--------------------------------------------------------------------------------
(***************************************************************************)
(* The theorems.                                                           *)
(***************************************************************************)
RelayInv ==
  /\ Common
  /\ recorded = IF closed /\ ~(phase = "gone" /\ client # "chat") THEN adapter.usage ELSE None
  /\ client = "messages" => MessagesInv
  /\ client = "responses" => ResponsesInv
  /\ client = "chat" => ChatInv

LEMMA RelayInit == Init => RelayInv
<1> SUFFICES ASSUME Init PROVE RelayInv
  OBVIOUS
<1>1. Common
  BY CommonInit
<1>2. client = "chat" => ChatInv
  <2>1. 0 \in 0..MaxData
    BY BoundsAssumption
  <2>2. client = "chat" => adapter = [usage |-> 0]
    BY DEF Init, AdapterStart
  <2>3. upstream.answer.usage = 0
    BY DEF Init, NoAnswer
  <2> QED
    BY <2>1, <2>2, <2>3 DEF ChatInv
<1>3. recorded = None /\ ~closed
  BY DEF Init
<1> QED
  BY <1>1, <1>2, <1>3, MessagesInit, ResponsesInit DEF RelayInv

LEMMA RelayNext == RelayInv /\ [Next]_vars => RelayInv'
<1> SUFFICES ASSUME RelayInv, [Next]_vars PROVE RelayInv'
  OBVIOUS
<1>1. Common /\ Common'
  BY CommonNext DEF RelayInv
<1>2. client' = client
  BY DEF Next, vars, Begin, Read, Pass, Feed, EndOfStream, Finish, UpstreamBreaks, Close
<1>3. (client = "messages" => MessagesInv)'
  BY <1>1, <1>2, MessagesNext DEF RelayInv
<1>4. (client = "responses" => ResponsesInv)'
  BY <1>1, <1>2, ResponsesNext DEF RelayInv
<1>5. (client = "chat" => ChatInv)'
  BY <1>1, <1>2, ChatNext DEF RelayInv
<1> DEFINE Handed == recorded = IF closed /\ ~(phase = "gone" /\ client # "chat")
                               THEN adapter.usage ELSE None
<1>6. Handed'
  <2>1. CASE Close
    BY <2>1 DEF Close
  <2>2. CASE ~closed /\ ~closed' /\ recorded' = recorded
    BY <2>2 DEF RelayInv
  <2>3. CASE UNCHANGED vars
    BY <2>3 DEF RelayInv, vars
  <2>4. closed => phase \in {"ended", "cut", "gone"}
    BY <1>1 DEF Common
  <2>5. ASSUME Next, ~Close
        PROVE  phase \in {"headers", "reading", "finishing"} /\ closed' = closed /\ recorded' = recorded
    BY <2>5 DEF Next, Begin, Read, Pass, Feed, EndOfStream, Finish, UpstreamBreaks
  <2>6. Next /\ ~Close => ~closed
    BY <2>4, <2>5
  <2> HIDE DEF Handed
  <2> QED
    BY <2>1, <2>2, <2>3, <2>5, <2>6
<1> QED
  BY <1>1, <1>3, <1>4, <1>5, <1>6 DEF RelayInv

LEMMA RelayInvariant == Spec => []RelayInv
<1>1. Init => RelayInv
  BY RelayInit
<1>2. RelayInv /\ [Next]_vars => RelayInv'
  BY RelayNext
<1> QED
  BY <1>1, <1>2, PTL DEF Spec

LEMMA ClientsAre ==
  ASSUME RelayInv
  PROVE  \/ client = "messages" /\ MessagesInv
         \/ client = "responses" /\ ResponsesInv
         \/ client = "chat" /\ ChatInv
BY ClientsAssumption DEF RelayInv, Common

\* The types of the events of the two protocols differ.
LEMMA TypesDiffer ==
  /\ \A e \in MessageEvents :
       e.type \in {"message_start", "message_stop", "content_block_start",
                   "content_block_delta", "content_block_stop", "message_delta"}
  /\ \A e \in ResponseEvents :
       e.type \in {"response.created", "[DONE]", "output_item.added", "delta", "content.done",
                   "output_item.done", "response.completed"}
<1>1. ASSUME NEW e \in MessageEvents
      PROVE  e.type \in {"message_start", "message_stop", "content_block_start",
                         "content_block_delta", "content_block_stop", "message_delta"}
  BY DEF MessageEvents
<1>2. ASSUME NEW e \in ResponseEvents
      PROVE  e.type \in {"response.created", "[DONE]", "output_item.added", "delta",
                         "content.done", "output_item.done", "response.completed"}
  BY DEF ResponseEvents
<1> QED
  BY <1>1, <1>2

\* The state keeps its type: what the upstream sends, what the parser and the
\* adapter hold, what the store is told.
THEOREM TypeCorrect == Spec => []TypeOK
<1>1. RelayInv => TypeOK
  <2> SUFFICES ASSUME RelayInv PROVE TypeOK
    OBVIOUS
  <2>1. adapter.usage \in 0..MaxData
    BY ClientsAre DEF MessagesInv, MessageAdapters, ResponsesInv, ResponseAdapters, ChatInv
  <2>2. recorded \in None..MaxData
    BY <2>1, BoundsAssumption DEF RelayInv, None
  <2> QED
    BY <2>1, <2>2 DEF RelayInv, Common, Upstreams, TypeOK
<1> QED
  BY <1>1, RelayInvariant, PTL

\* However the upstream mixes text and tool calls and wherever the stream is
\* cut, content blocks start and stop in turn and the message ends with none
\* open.
THEOREM TurnsAreTaken == Spec => []BlocksTakeTurns
<1>1. RelayInv => BlocksTakeTurns
  <2> SUFFICES ASSUME RelayInv, client # "chat" PROVE BlocksTakeTurns
    BY DEF BlocksTakeTurns
  <2>1. CASE client = "messages" /\ MessagesInv
    <3>1. Turns(sent)
      BY <2>1 DEF MessagesInv, Delivered
    <3>2. \A n : Starts(n) = StartsOf(sent, n) /\ Stops(n) = StopsOf(sent, n)
      BY DEF Starts, Stops, Sent, StartsOf, StopsOf, SentOf
    <3> QED
      BY <3>1, <3>2 DEF BlocksTakeTurns, Turns
  <2>2. CASE client = "responses" /\ ResponsesInv
    <3>1. \A n \in 1..Len(sent) : sent[n] \in ResponseEvents
      BY <2>2, ElementOfSeq DEF ResponsesInv
    <3> QED
      BY <3>1, TypesDiffer DEF BlocksTakeTurns
  <2> QED
    BY <2>1, <2>2, ClientsAre
<1> QED
  BY <1>1, RelayInvariant, PTL

\* Every delta finds its block begun, and text finds it open.
THEOREM DeltasAreAtHome == Spec => []DeltasFindTheirBlock
<1>1. RelayInv => DeltasFindTheirBlock
  <2> SUFFICES ASSUME RelayInv, client # "chat" PROVE DeltasFindTheirBlock
    BY DEF DeltasFindTheirBlock
  <2>1. CASE client = "messages" /\ MessagesInv
    <3>1. Finds(sent)
      BY <2>1 DEF MessagesInv, Delivered
    <3>2. /\ \A n : Starts(n) = StartsOf(sent, n) /\ Stops(n) = StopsOf(sent, n)
          /\ \A types, n : Sent(types, n) = SentOf(sent, types, n)
      BY DEF Starts, Stops, Sent, StartsOf, StopsOf, SentOf
    <3> QED
      BY <3>1, <3>2 DEF DeltasFindTheirBlock, Finds
  <2>2. CASE client = "responses" /\ ResponsesInv
    <3>1. \A n \in 1..Len(sent) : sent[n] \in ResponseEvents
      BY <2>2, ElementOfSeq DEF ResponsesInv
    <3>2. Sent({"content_block_delta"}, Len(sent)) = {}
      BY <3>1, TypesDiffer DEF Sent
    <3> QED
      BY <3>2 DEF DeltasFindTheirBlock
  <2> QED
    BY <2>1, <2>2, ClientsAre
<1> QED
  BY <1>1, RelayInvariant, PTL

\* However the relay is left, the usage seen so far reaches the decision store,
\* and after a clean stream that is the upstream's last report.
THEOREM UsageIsTold == Spec => []UsageReachesTheStore
<1>1. RelayInv => UsageReachesTheStore
  <2> SUFFICES ASSUME RelayInv, closed, ~(phase = "gone" /\ client # "chat")
               PROVE  /\ recorded = adapter.usage
                      /\ phase = "ended" /\ upstream.clean => recorded = upstream.answer.usage
    BY DEF UsageReachesTheStore
  <2>1. recorded = adapter.usage
    BY DEF RelayInv
  <2> QED
    BY <2>1, ClientsAre DEF MessagesInv, ResponsesInv, ChatInv
<1> QED
  BY <1>1, RelayInvariant, PTL

\* The blocks of a clean stream that was ended by [DONE] add up to the message a
\* client that does not stream would have been given.
THEOREM MessageIsTheAnswer == Spec => []MessageTellsTheAnswer
<1>1. RelayInv => MessageTellsTheAnswer
  <2> SUFFICES ASSUME RelayInv, client = "messages", upstream.clean, upstream.answer.done,
                      NEW n \in Sent({"message_delta"}, Len(sent))
               PROVE  LET answer == upstream.answer
                          tools  == {sent[k].index : k \in {j \in Starts(n) : sent[j].kind = "tool_use"}}
                      IN  /\ OneKindOfText(answer) => Gathered(TextDeltas) = BufferedText(answer)
                          /\ Cardinality(tools) = Cardinality(DOMAIN answer.calls)
                          /\ {Gathered(BlockDeltas(b)) : b \in tools}
                               = {answer.calls[i] : i \in DOMAIN answer.calls}
                          /\ sent[n].stop_reason = BufferedStopReason(answer)
                          /\ sent[n].usage = answer.usage
    BY DEF MessageTellsTheAnswer
  <2>1. MessagesInv /\ sent \in Seq(MessageEvents)
    BY DEF RelayInv, MessagesInv, Delivered
  <2>2. n \in SentOf(sent, {"message_delta"}, Len(sent))
    BY DEF Sent, SentOf
  <2>3. TellsAt(sent, n, upstream.answer)
    BY <2>1, <2>2 DEF MessagesInv, Tells
  <2>4. \A k \in 1..Len(sent) : sent[k] \in MessageEvents
    BY <2>1, ElementOfSeq
  <2>5. Gathered(TextDeltas) = TextIn(sent)
    <3>1. \A k \in 1..Len(sent) : k \in TextDeltas <=> sent[k] \in TextEvents
      BY <2>4 DEF TextDeltas, Sent, TextEvents
    <3> QED
      BY <3>1 DEF Gathered, TextIn, Joined, Pieces
  <2>6. ASSUME NEW b PROVE Gathered(BlockDeltas(b)) = Joined(sent, EventsOfBlock(b))
    <3>1. \A k \in 1..Len(sent) : k \in BlockDeltas(b) <=> sent[k] \in EventsOfBlock(b)
      BY <2>4 DEF BlockDeltas, Sent, EventsOfBlock
    <3> QED
      BY <3>1 DEF Gathered, Joined, Pieces
  <2>7. {sent[k].index : k \in {j \in Starts(n) : sent[j].kind = "tool_use"}} = ToolIndices(sent, n)
    BY DEF ToolIndices, Starts, Sent, StartsOf, SentOf
  <2> DEFINE T == ToolIndices(sent, n)
  <2>8. {Gathered(BlockDeltas(b)) : b \in T} = {Joined(sent, EventsOfBlock(b)) : b \in T}
    BY <2>6
  <2> QED
    BY <2>3, <2>5, <2>7, <2>8 DEF TellsAt
<1> QED
  BY <1>1, RelayInvariant, PTL

\* The response a clean stream ends with is the one a client that does not
\* stream would have been given.
THEOREM ResponseIsTheAnswer == Spec => []ResponseTellsTheAnswer
<1>1. RelayInv => ResponseTellsTheAnswer
  <2> SUFFICES ASSUME RelayInv, client = "responses", upstream.clean,
                      OneKindOfText(upstream.answer),
                      NEW n \in Sent({"response.completed"}, Len(sent))
               PROVE  /\ sent[n].output = BufferedResponse(upstream.answer)
                      /\ sent[n].usage = upstream.answer.usage
    BY DEF ResponseTellsTheAnswer
  <2>1. ResponseTells(sent, upstream.answer)
    BY DEF RelayInv, ResponsesInv
  <2>2. n \in SentOf(sent, {"response.completed"}, Len(sent))
    BY DEF Sent, SentOf
  <2> QED
    BY <2>1, <2>2 DEF ResponseTells
<1> QED
  BY <1>1, RelayInvariant, PTL

\* The text of a set of events in what was sent so far, by position.
LEMMA GatheredIsJoined ==
  ASSUME sent \in Seq(ResponseEvents), NEW n \in 1..Len(sent), NEW item
  PROVE  Gathered(ItemDeltas(item, n)) = Joined(SubSeq(sent, 1, n), DeltasOf(item))
<1> DEFINE M == DeltasOf(item)
           u == SubSeq(sent, 1, n)
           Q == Pieces(u, M)
           R == [k \in 1..(Len(sent) - n) |-> <<>>]
           P == [k \in 1..Len(sent) |-> IF k \in ItemDeltas(item, n) THEN sent[k].delta ELSE <<>>]
           T == (1..MaxData) \X {"content", "reasoning", "args"}
<1>1. Len(sent) \in Nat /\ n \in 1..Len(sent) /\ \A k \in 1..Len(sent) : sent[k] \in ResponseEvents
  BY LenProperties, ElementOfSeq
<1>2. u \in Seq(ResponseEvents) /\ Len(u) = n /\ \A k \in 1..n : u[k] = sent[k]
  BY <1>1, SubSeqProperties
<1>3. WithText(M)
  BY DeltasOfItems
<1>4. \A k \in 1..Len(sent) : k \in ItemDeltas(item, n) <=> k <= n /\ sent[k] \in M
  BY <1>1 DEF ItemDeltas, Sent, DeltasOf
<1> HIDE DEF u, M, T
<1>5. Q \in Seq(Seq(T)) /\ Len(Q) = n /\ \A k \in 1..n : Q[k] = IF sent[k] \in M THEN sent[k].delta ELSE <<>>
  <2>1. Q \in Seq(Texts) /\ Len(Q) = Len(u)
    BY <1>2, <1>3, PiecesType
  <2> QED
    BY <1>2, <2>1 DEF Texts, T, Pieces
<1>6. R \in Seq(Seq(T)) /\ Len(R) = Len(sent) - n /\ \A k \in 1..Len(R) : R[k] = <<>>
  <2>1. Len(sent) - n \in Nat
    BY <1>1
  <2>2. <<>> \in Seq(T)
    BY EmptySeq
  <2> QED
    BY <2>1, <2>2, SeqDef
<1> HIDE DEF Q, R
<1>7. Q \o R = P
  <2>1. /\ Q \o R \in Seq(Seq(T)) /\ Len(Q \o R) = Len(Q) + Len(R)
        /\ \A k \in 1..Len(Q) + Len(R) : (Q \o R)[k] = IF k <= Len(Q) THEN Q[k] ELSE R[k - Len(Q)]
    BY ONLY <1>5, <1>6, ConcatProperties
  <2>2. Len(Q) + Len(R) = Len(sent)
    BY <1>1, <1>5, <1>6
  <2>3. ASSUME NEW k \in 1..Len(sent) PROVE (Q \o R)[k] = P[k]
    <3>1. (Q \o R)[k] = IF k <= n THEN Q[k] ELSE R[k - n]
      BY <1>5, <2>1, <2>2
    <3>2. CASE k <= n
      <4>1. k \in 1..n
        BY <1>1, <3>2
      <4> QED
        BY <1>4, <1>5, <3>1, <3>2, <4>1
    <3>3. CASE ~(k <= n)
      <4>1. k - n \in 1..Len(R)
        BY <1>1, <1>6, <3>3
      <4> QED
        BY <1>4, <1>6, <3>1, <3>3, <4>1
    <3> QED
      BY <3>2, <3>3
  <2>4. P \in Seq(Seq(T)) /\ Len(P) = Len(sent)
    <3>1. \A k \in 1..Len(sent) : P[k] \in Seq(T)
      <4>1. \A k \in 1..Len(sent) : (Q \o R)[k] \in Seq(T)
        BY <2>1, <2>2, ElementOfSeq
      <4> QED
        BY <2>3, <4>1
    <3>2. P = [k \in 1..Len(sent) |-> P[k]]
      OBVIOUS
    <3> HIDE DEF P
    <3> QED
      BY <1>1, <3>1, <3>2
  <2> HIDE DEF P
  <2> QED
    BY ONLY <2>1, <2>2, <2>3, <2>4, SeqEqual
<1>10. FlattenSeq(Q \o R) = FlattenSeq(Q) \o FlattenSeq(R)
  BY ONLY <1>5, <1>6, FlattenConcat
<1>11. FlattenSeq(R) = <<>>
  BY ONLY <1>6, FlattenNothing
<1>12. FlattenSeq(Q) \in Seq(T)
  BY ONLY <1>5, FlattenType
<1>13. FlattenSeq(P) = FlattenSeq(Q)
  BY <1>7, <1>10, <1>11, <1>12, ConcatEmptySeq
<1> QED
  BY <1>13 DEF Gathered, Joined, Q, u, M

\* An item is announced once and before its deltas, keeps its index, and is done
\* once with what they add up to; the completed response repeats the items that
\* are done.
THEOREM PromisesAreKept == Spec => []ItemsKeepTheirPromise
<1>1. RelayInv => ItemsKeepTheirPromise
  <2> SUFFICES ASSUME RelayInv, client # "chat" PROVE ItemsKeepTheirPromise
    BY DEF ItemsKeepTheirPromise
  <2>1. CASE client = "messages" /\ MessagesInv
    <3>1. \A n \in 1..Len(sent) : sent[n] \in MessageEvents
      BY <2>1, ElementOfSeq DEF MessagesInv, Delivered
    <3> QED
      BY <3>1, TypesDiffer DEF ItemsKeepTheirPromise
  <2>2. CASE client = "responses" /\ ResponsesInv
    <3>1. sent \in Seq(ResponseEvents) /\ Promises(sent)
      BY <2>2 DEF ResponsesInv
    <3>2. \A n \in 1..Len(sent) : \A item :
            Gathered(ItemDeltas(item, n)) = Joined(SubSeq(sent, 1, n), DeltasOf(item))
      BY <3>1, GatheredIsJoined
    <3>3. /\ \A item, n : {k \in Sent({"output_item.added"}, n) : sent[k].item = item}
                            = ItemSent(sent, "output_item.added", item, n)
          /\ \A item, n : {k \in Sent({"output_item.done"}, n) : sent[k].item = item}
                            = ItemSent(sent, "output_item.done", item, n)
          /\ \A n : Sent({"output_item.done"}, n) = SentOf(sent, {"output_item.done"}, n)
      BY DEF Sent, SentOf, ItemSent
    <3> SUFFICES ASSUME NEW n \in 1..Len(sent)
                 PROVE  LET e == sent[n]
                            announced == {k \in Sent({"output_item.added"}, n - 1) : sent[k].item = e.item}
                            finished  == {k \in Sent({"output_item.done"}, n - 1) : sent[k].item = e.item}
                        IN  /\ e.type = "output_item.added" => announced = {}
                            /\ e.type \in {"delta", "content.done", "output_item.done"} =>
                                 /\ \E k \in announced : sent[k].output_index = e.output_index
                                 /\ finished = {}
                            /\ e.type \in {"content.done", "output_item.done"} =>
                                 e.content = Gathered(ItemDeltas(e.item, n))
                            /\ e.type = "response.completed" =>
                                 {[item |-> sent[k].item, content |-> sent[k].content] :
                                    k \in Sent({"output_item.done"}, n)} = ToSet(e.output)
      BY DEF ItemsKeepTheirPromise
    <3>4. PromiseAt(sent, n)
      BY <3>1 DEF Promises
    <3>5. Gathered(ItemDeltas(sent[n].item, n)) = Joined(SubSeq(sent, 1, n), DeltasOf(sent[n].item))
      BY <3>2
    <3>6. Sent({"output_item.done"}, n) = SentOf(sent, {"output_item.done"}, n)
      BY <3>3
    <3> DEFINE e == sent[n]
    <3>7. /\ {k \in Sent({"output_item.added"}, n - 1) : sent[k].item = e.item}
               = ItemSent(sent, "output_item.added", e.item, n - 1)
          /\ {k \in Sent({"output_item.done"}, n - 1) : sent[k].item = e.item}
               = ItemSent(sent, "output_item.done", e.item, n - 1)
      BY DEF Sent, SentOf, ItemSent
    <3> QED
      BY <3>4, <3>5, <3>6, <3>7 DEF PromiseAt
  <2> QED
    BY <2>1, <2>2, ClientsAre
<1> QED
  BY <1>1, RelayInvariant, PTL
================================================================================
