---------------------------- MODULE ClientProofs ----------------------------
(***************************************************************************)
(* What the controlling side does, for any constants.                       *)
(*                                                                         *)
(* VideoThread: the types and the match of tokens and frames, and that a    *)
(* loss is always on its way to be repaired, from the inductive invariant   *)
(* IInv.  The lemmas go from the sequences to the network, where frames     *)
(* join, to the channel and the queue, which are whole behind the newest    *)
(* key frame, to what is shown.                                             *)
(*                                                                         *)
(* McpSession: whose output an answer is, from the inductive invariant      *)
(* ToolsIInv.  The lemmas go from the progress of a command, as sequences,  *)
(* to the steps of the server, of the task and of the shell.                *)
(***************************************************************************)
EXTENDS VideoThread, McpSession,
        FiniteSetTheorems, FunctionTheorems, SequenceTheorems, TLAPS

\* The places a token takes behind place p.
Places(s, p) == {i \in (p + 1)..Len(s) : s[i] = Token}

\* Messages, tokens and resets are told apart.
LEMMA Media ==
  /\ Token \notin Frame /\ Reset \notin Frame /\ NoFrame \notin Frame
  /\ Token # Reset
  BY DEF Token, Reset, NoFrame, Frame

\* There are finitely many.
LEMMA PlacesFinite ==
  ASSUME NEW S, NEW s \in Seq(S), NEW p \in Nat
  PROVE  /\ IsFiniteSet(Places(s, p))
         /\ TokensAfter(s, p) = Cardinality(Places(s, p))
         /\ TokensAfter(s, p) \in Nat
  <1>1. IsFiniteSet((p + 1)..Len(s))
    BY LenProperties, FS_Interval
  <1>2. IsFiniteSet(Places(s, p))
    BY <1>1, FS_Subset DEF Places
  <1> QED
    BY <1>2, FS_CardinalityType DEF TokensAfter, Places

\* No place is behind the last one.
LEMMA NoneAfterLast ==
  ASSUME NEW S, NEW s \in Seq(S)
  PROVE  TokensAfter(s, Len(s)) = 0
  <1>1. Places(s, Len(s)) = {}
    BY LenProperties DEF Places
  <1> QED
    BY <1>1, PlacesFinite, LenProperties, FS_EmptySet

\* The place right behind p has a token or not.
LEMMA TokensStep ==
  ASSUME NEW S, NEW s \in Seq(S), NEW p \in 0..(Len(s) - 1)
  PROVE  TokensAfter(s, p) = TokensAfter(s, p + 1) + (IF s[p + 1] = Token THEN 1 ELSE 0)
  <1>1. Len(s) \in Nat /\ p \in Nat /\ p + 1 \in Nat
    BY LenProperties
  <1>2. p + 1 \notin Places(s, p + 1)
    BY <1>1 DEF Places
  <1>3. CASE s[p + 1] = Token
    <2>1. Places(s, p) = Places(s, p + 1) \cup {p + 1}
      BY <1>1, <1>3 DEF Places
    <2>2. /\ TokensAfter(s, p) = Cardinality(Places(s, p))
          /\ TokensAfter(s, p + 1) = Cardinality(Places(s, p + 1))
          /\ IsFiniteSet(Places(s, p + 1)) /\ TokensAfter(s, p + 1) \in Nat
      BY <1>1, PlacesFinite
    <2>3. Cardinality(Places(s, p + 1) \cup {p + 1}) = Cardinality(Places(s, p + 1)) + 1
      BY <1>2, <2>2, FS_AddElement
    <2> QED
      BY <1>3, <2>1, <2>2, <2>3
  <1>4. CASE s[p + 1] # Token
    <2>1. Places(s, p) = Places(s, p + 1)
      BY <1>1, <1>4 DEF Places
    <2> QED
      BY <1>1, <1>4, <2>1, PlacesFinite
  <1> QED
    BY <1>3, <1>4

\* Appending a message adds its token behind every place.
LEMMA TokensAppend ==
  ASSUME NEW S, NEW s \in Seq(S), NEW x \in S, NEW p \in 0..Len(s)
  PROVE  TokensAfter(Append(s, x), p) = TokensAfter(s, p) + (IF x = Token THEN 1 ELSE 0)
  <1> DEFINE a == Append(s, x)
  <1>1. Len(s) \in Nat /\ p \in Nat
    BY LenProperties
  <1>2. /\ a \in Seq(S) /\ Len(a) = Len(s) + 1 /\ a[Len(s) + 1] = x
        /\ \A i \in 1..Len(s) : a[i] = s[i]
    BY AppendProperties
  <1>3. Len(s) + 1 \notin Places(s, p)
    BY <1>1 DEF Places
  <1> HIDE DEF a
  <1>6. /\ TokensAfter(a, p) = Cardinality(Places(a, p))
        /\ TokensAfter(s, p) = Cardinality(Places(s, p)) /\ IsFiniteSet(Places(s, p))
        /\ TokensAfter(s, p) \in Nat
    BY <1>1, <1>2, PlacesFinite
  <1>4. CASE x = Token
    <2>1. Places(a, p) = Places(s, p) \cup {Len(s) + 1}
      BY <1>1, <1>2, <1>4 DEF Places
    <2>2. Cardinality(Places(s, p) \cup {Len(s) + 1}) = Cardinality(Places(s, p)) + 1
      BY <1>3, <1>6, FS_AddElement
    <2> QED
      BY <1>4, <1>6, <2>1, <2>2 DEF a
  <1>5. CASE x # Token
    <2>1. Places(a, p) = Places(s, p)
      BY <1>1, <1>2, <1>5 DEF Places
    <2> QED
      BY <1>5, <1>6, <2>1 DEF a
  <1> QED
    BY <1>4, <1>5

\* Taking the first message off moves every place by one.
LEMMA TokensTail ==
  ASSUME NEW S, NEW s \in Seq(S), s # <<>>, NEW p \in 0..(Len(s) - 1)
  PROVE  TokensAfter(Tail(s), p) = TokensAfter(s, p + 1)
  <1> DEFINE t == Tail(s)
             P == Places(s, p + 1)
             Q == Places(t, p)
             f == [i \in P |-> i - 1]
  <1>1. Len(s) \in Nat /\ p \in Nat /\ p + 1 \in Nat
    BY LenProperties
  <1>2. t \in Seq(S) /\ Len(t) = Len(s) - 1 /\ \A i \in 1..Len(t) : t[i] = s[i + 1]
    BY HeadTailProperties
  <1> HIDE DEF t
  <1>3. \A i \in P : i \in Int /\ i - 1 \in Q
    BY <1>1, <1>2 DEF Places
  <1>4. \A j \in Q : j \in Int /\ j + 1 \in P
    BY <1>1, <1>2 DEF Places
  <1> HIDE DEF P, Q
  <1>5. f \in Bijection(P, Q)
    <2>1. f \in [P -> Q]
      BY <1>3
    <2>2. \A i, j \in P : f[i] = f[j] => i = j
      BY <1>3
    <2>3. \A j \in Q : j + 1 \in P /\ f[j + 1] = j
      BY <1>4
    <2> HIDE DEF f
    <2>4. f \in Injection(P, Q)
      BY <2>1, <2>2, Fun_IsInj
    <2>5. f \in Surjection(P, Q)
      BY <2>1, <2>3, Fun_IsSurj
    <2> QED
      BY <2>4, <2>5 DEF Bijection
  <1>6. Cardinality(Q) = Cardinality(P)
    <2>1. IsFiniteSet(P)
      BY <1>1, PlacesFinite DEF P
    <2>2. ExistsBijection(P, Q)
      BY <1>5 DEF ExistsBijection
    <2> QED
      BY <2>1, <2>2, FS_Bijection
  <1>7. TokensAfter(s, p + 1) = Cardinality(P)
    BY <1>1, PlacesFinite DEF P
  <1>8. TokensAfter(t, p) = Cardinality(Q)
    BY <1>1, <1>2, PlacesFinite DEF Q
  <1> QED
    BY <1>6, <1>7, <1>8 DEF t

\* Behind a place there are at most as many tokens as behind an earlier one.
LEMMA TokensMonotone ==
  ASSUME NEW S, NEW s \in Seq(S), NEW p \in Nat
  PROVE  TokensAfter(s, p) <= TokensAfter(s, 0)
  <1>1. Places(s, p) \in SUBSET Places(s, 0)
    BY LenProperties DEF Places
  <1> QED
    BY <1>1, PlacesFinite, FS_Subset

\* What is appended is one more element.
LEMMA ElementsAppend ==
  ASSUME NEW S, NEW s \in Seq(S), NEW x \in S
  PROVE  Elements(Append(s, x)) = Elements(s) \cup {x}
  <1> DEFINE a == Append(s, x)
  <1>1. Len(s) \in Nat /\ Len(a) = Len(s) + 1 /\ a[Len(s) + 1] = x
        /\ \A i \in 1..Len(s) : a[i] = s[i]
    BY AppendProperties, LenProperties
  <1> HIDE DEF a
  <1> QED
    BY <1>1 DEF Elements, a

\* The elements of a sequence are its first and those of the rest.
LEMMA ElementsTail ==
  ASSUME NEW S, NEW s \in Seq(S), s # <<>>
  PROVE  /\ Elements(s) = {Head(s)} \cup Elements(Tail(s))
         /\ Head(s) = s[1]
  <1> DEFINE t == Tail(s)
  <1>1. Len(s) \in Nat /\ Len(t) = Len(s) - 1 /\ Len(s) > 0 /\ Head(s) = s[1]
        /\ \A i \in 1..Len(t) : t[i] = s[i + 1]
    BY HeadTailProperties, LenProperties, EmptySeq
  <1> HIDE DEF t
  <1>2. \A i \in 1..Len(s) : i = 1 \/ (i - 1 \in 1..Len(t) /\ t[i - 1] = s[i])
    BY <1>1
  <1>3. \A i \in 1..Len(t) : i + 1 \in 1..Len(s)
    BY <1>1
  <1>4. Elements(s) \subseteq {s[1]} \cup Elements(t)
    BY <1>2 DEF Elements
  <1>5. s[1] \in Elements(s) /\ Elements(t) \subseteq Elements(s)
    BY <1>1, <1>3 DEF Elements
  <1> QED
    BY <1>1, <1>4, <1>5 DEF t

\* Those of two sequences joined are those of both.
LEMMA ElementsConcat ==
  ASSUME NEW S, NEW s \in Seq(S), NEW t \in Seq(S)
  PROVE  Elements(s \o t) = Elements(s) \cup Elements(t)
  <1> DEFINE a == s \o t
  <1>1. Len(s) \in Nat /\ Len(t) \in Nat /\ Len(a) = Len(s) + Len(t)
        /\ \A i \in 1..Len(s) + Len(t) : a[i] = IF i <= Len(s) THEN s[i] ELSE t[i - Len(s)]
    BY ConcatProperties, LenProperties
  <1> HIDE DEF a
  <1>2. \A i \in 1..Len(t) : i + Len(s) \in 1..Len(a) /\ a[i + Len(s)] = t[i]
    BY <1>1
  <1>3. \A i \in 1..Len(s) : i \in 1..Len(a) /\ a[i] = s[i]
    BY <1>1
  <1>4. ASSUME NEW i \in 1..Len(a)
        PROVE  a[i] \in Elements(s) \cup Elements(t)
    <2>1. CASE i <= Len(s)
      BY <1>1, <1>3, <2>1 DEF Elements
    <2>2. CASE i > Len(s)
      <3>1. i - Len(s) \in 1..Len(t) /\ a[i] = t[i - Len(s)]
        BY <1>1, <2>2
      <3> QED
        BY <3>1 DEF Elements
    <2> QED
      BY <1>1, <2>1, <2>2
  <1>5. Elements(a) \subseteq Elements(s) \cup Elements(t)
    BY <1>4 DEF Elements
  <1>6. Elements(s) \subseteq Elements(a) /\ Elements(t) \subseteq Elements(a)
    BY <1>2, <1>3 DEF Elements
  <1> QED
    BY <1>5, <1>6 DEF a

\* A key frame in a sequence is one among its elements.
LEMMA KeyInElements ==
  ASSUME NEW s
  PROVE  KeyIn(s) <=> \E m \in Elements(s) : IsKey(m)
  BY DEF KeyIn, Elements

\* What is asked of the io loop in one go.
Asks == {"refresh", "supported", "reset"}

\* The requests that are made together.
LEMMA AskedAtOnce ==
  /\ <<>> \in Seq(Asks) /\ Elements(<<>>) = {}
  /\ <<"refresh">> \in Seq(Asks) /\ Elements(<<"refresh">>) = {"refresh"}
  /\ <<"supported">> \in Seq(Asks) /\ Elements(<<"supported">>) = {"supported"}
  /\ <<"reset", "supported", "refresh">> \in Seq(Asks)
  /\ Elements(<<"reset", "supported", "refresh">>) = Asks
  BY DEF Asks, Elements

\* The number after a number is a number.
LEMMA FollowsType ==
  ASSUME NEW n \in 0..(Ring - 1)
  PROVE  Follows(n) \in 0..(Ring - 1)
  BY Sizes DEF Follows

\* A frame has a number, which is not that of a lost one.
LEMMA FrameNumber ==
  ASSUME NEW f \in Frame
  PROVE  f.n \in 0..(Ring - 1) /\ f.n \in 0..Ring /\ f.n # Lost /\ Lost \in 0..Ring
         /\ f.codec \in Codec /\ f.key \in BOOLEAN
  <1>1. f.n \in 0..(Ring - 1) /\ f.codec \in Codec /\ f.key \in BOOLEAN
    BY DEF Frame
  <1>2. Ring \in Nat /\ Ring # 0
    BY Sizes
  <1>3. \A n \in 0..(Ring - 1) : n \in 0..Ring /\ n # Ring
    BY <1>2
  <1> QED
    BY <1>1, <1>2, <1>3 DEF Lost

\* The counter of failures stays within its limit, which the first frame reaches at
\* once.
LEMMA FailCounter ==
  ASSUME TypeOK, NEW f
  PROVE  /\ MAX_DECODE_FAIL_COUNTER \in Nat /\ MAX_DECODE_FAIL_COUNTER > 0
         /\ Failed(f) \in 0..MAX_DECODE_FAIL_COUNTER
         /\ FirstFrame(f) => Failed(f) = MAX_DECODE_FAIL_COUNTER
  <1>1. MAX_DECODE_FAIL_COUNTER \in Nat /\ MAX_DECODE_FAIL_COUNTER # 0
    BY Sizes
  <1>2. fail_counter \in 0..MAX_DECODE_FAIL_COUNTER
    BY DEF TypeOK
  <1>3. Fails(f) \in 0..MAX_DECODE_FAIL_COUNTER
    BY <1>1, <1>2 DEF Fails
  <1> QED
    BY <1>1, <1>3 DEF Failed, Least

\* What handle_frame and the checks after it do, whatever the decoder makes of the
\* frame.
LEMMA HandledFrame ==
  ASSUME TypeOK, NEW f \in Frame, HandleFrame(f)
  PROVE  /\ decoder' = f.codec /\ first_frame' = FALSE
         /\ last' \in {f.n, Lost} /\ last' \in 0..Ring
         /\ fail_counter' \in 0..MAX_DECODE_FAIL_COUNTER
         /\ mark_unsupported \subseteq mark_unsupported'
         /\ mark_unsupported' \subseteq mark_unsupported \cup {f.codec}
         /\ data' \in Seq(Asks) /\ Elements(data) \subseteq Elements(data')
         /\ mark_unsupported' # mark_unsupported => "supported" \in Elements(data')
         /\ last' = Lost /\ FirstFrame(f) => f.codec \in mark_unsupported'
         /\ last' = Lost => f.codec \notin Decodable \/ (~f.key /\ ~BuildsOn(f))
         /\ f.codec \notin Decodable => last' = Lost
  <1> DEFINE marks == fail_counter' >= MAX_DECODE_FAIL_COUNTER /\ f.codec \notin mark_unsupported
             more == (IF marks THEN <<"supported">> ELSE <<>>)
  <1>1. PICK result \in {"right", "broken", "no_picture", "error"} :
       /\ (result = "right") <=> f.codec \in Decodable /\ (f.key \/ BuildsOn(f))
       /\ (result = "broken") => f.codec \in Decodable /\ ~FirstFrame(f)
       /\ last' = IF result = "right" THEN f.n ELSE Lost
       /\ fail_counter' = IF result \in {"right", "broken"} THEN 0 ELSE Failed(f)
       /\ mark_unsupported' = mark_unsupported \cup IF marks THEN {f.codec} ELSE {}
       /\ data' = data \o (IF result = "error" THEN <<"refresh">> ELSE <<>>) \o more
    BY DEF HandleFrame
  <1> DEFINE again == IF result = "error" THEN <<"refresh">> ELSE <<>>
             first == data \o again
  <1>3. f.n \in 0..(Ring - 1) /\ f.n # Lost /\ f.n \in 0..Ring /\ Lost \in 0..Ring
    BY FrameNumber
  <1>4. /\ MAX_DECODE_FAIL_COUNTER \in Nat /\ MAX_DECODE_FAIL_COUNTER > 0
        /\ Failed(f) \in 0..MAX_DECODE_FAIL_COUNTER
        /\ FirstFrame(f) => Failed(f) = MAX_DECODE_FAIL_COUNTER
    BY FailCounter
  <1>5. data \in Seq(Asks)
    BY DEF TypeOK, Asks
  <1>6. first \in Seq(Asks) /\ Elements(data) \subseteq Elements(first)
    <2>1. again \in Seq(Asks)
      BY AskedAtOnce
    <2> HIDE DEF again
    <2>2. first \in Seq(Asks)
      BY <1>5, <2>1, ConcatProperties
    <2>3. Elements(first) = Elements(data) \cup Elements(again)
      BY <1>5, <2>1, ElementsConcat
    <2> QED
      BY <2>2, <2>3
  <1> HIDE DEF first
  <1>7. more \in Seq(Asks) /\ (marks => Elements(more) = {"supported"})
    BY AskedAtOnce
  <1>8. data' = first \o more
    BY <1>1 DEF first
  <1> HIDE DEF more
  <1>9. data' \in Seq(Asks) /\ Elements(data') = Elements(first) \cup Elements(more)
    BY <1>6, <1>7, <1>8, ConcatProperties, ElementsConcat
  <1>10. decoder' = f.codec /\ first_frame' = FALSE
    BY DEF HandleFrame
  <1>11. fail_counter' \in 0..MAX_DECODE_FAIL_COUNTER
    <2>1. fail_counter' \in {0, Failed(f)}
      BY <1>1
    <2> QED
      BY <1>4, <2>1
  <1>12. ASSUME last' = Lost, FirstFrame(f)
         PROVE  f.codec \in mark_unsupported'
    <2>1. result \notin {"right", "broken"}
      BY <1>1, <1>3, <1>12
    <2>2. fail_counter' = MAX_DECODE_FAIL_COUNTER
      BY <1>1, <1>4, <1>12, <2>1
    <2>3. fail_counter' >= MAX_DECODE_FAIL_COUNTER
      BY <1>4, <2>2
    <2> QED
      BY <1>1, <2>3
  <1>13. mark_unsupported' # mark_unsupported => "supported" \in Elements(data')
    BY <1>1, <1>7, <1>9
  <1> QED
    BY <1>1, <1>3, <1>6, <1>9, <1>10, <1>11, <1>12, <1>13

\* What the network, the channel and the queue carry.
InNetwork == Frame \cup {Reset}
InChannel == {f \in Frame : f.key} \cup {Token, Reset}
InQueue == {f \in Frame : ~f.key}

\* The sequences of the state have a length.
LEMMA Sequences ==
  ASSUME TypeOK
  PROVE  /\ network \in Seq(InNetwork) /\ Len(network) \in Nat
         /\ channel \in Seq(InChannel) /\ Len(channel) \in Nat
         /\ queue \in Seq(InQueue) /\ Len(queue) \in Nat
         /\ data \in Seq(Asks) /\ Len(data) \in Nat
  <1>1. /\ network \in Seq(InNetwork) /\ channel \in Seq(InChannel)
        /\ queue \in Seq(InQueue) /\ data \in Seq(Asks)
    BY DEF TypeOK, InNetwork, InChannel, InQueue, Asks
  <1> QED
    BY <1>1, LenProperties

\* The bounds are numbers.
LEMMA Bound ==
  /\ VIDEO_QUEUE_SIZE \in Nat /\ VIDEO_QUEUE_SIZE > 0
  /\ MaxInFlight \in Nat /\ MaxDropped \in Nat /\ MaxChanges \in Nat
  /\ Ring \in Nat /\ Ring > 0
  BY Sizes, Bounds

\* The first message of a sequence, and the rest.
LEMMA Rest ==
  ASSUME NEW S, NEW s \in Seq(S), s # <<>>
  PROVE  /\ Len(s) \in Nat /\ Len(s) > 0
         /\ Head(s) \in S /\ Head(s) = s[1]
         /\ Tail(s) \in Seq(S) /\ Len(Tail(s)) = Len(s) - 1
         /\ \A i \in 1..(Len(s) - 1) : Tail(s)[i] = s[i + 1]
  BY HeadTailProperties, LenProperties, EmptySeq

\* A change, and a drop, is counted within its bound.
LEMMA ChangeType ==
  ASSUME TypeOK, Change
  PROVE  changes' \in 0..MaxChanges
  BY Bound DEF Change, TypeOK

\* The frame the host encodes.
LEMMA EncodedFrame ==
  ASSUME TypeOK, Encode
  PROVE  \E f \in Frame : /\ network' = Append(network, f)
                          /\ f.key = rekey /\ f.codec = codec /\ f.n = sent'
                          /\ sent' = IF rekey THEN sent ELSE Follows(sent)
                          /\ sent' \in 0..(Ring - 1)
  <1>1. sent' \in 0..(Ring - 1)
    BY FollowsType DEF Encode, TypeOK
  <1> DEFINE f == [key |-> rekey, n |-> sent', codec |-> codec]
  <1>2. f \in Frame /\ f.key = rekey /\ f.codec = codec /\ f.n = sent'
    BY <1>1 DEF TypeOK, Frame
  <1>3. network' = Append(network, f) /\ sent' = IF rekey THEN sent ELSE Follows(sent)
    BY DEF Encode
  <1> HIDE DEF f
  <1> QED
    BY <1>1, <1>2, <1>3

\* What force_push does to the queue, and to what is asked.
LEMMA Pushed ==
  ASSUME TypeOK, NEW f \in InQueue, ForcePush(f)
  PROVE  /\ queue' \in Seq(InQueue) /\ Len(queue') <= VIDEO_QUEUE_SIZE
         /\ channel' \in Seq(InChannel)
         /\ data' \in Seq(Asks) /\ dropped' \in 0..MaxDropped
         /\ \/ /\ queue' = Append(queue, f) /\ channel' = Append(channel, Token)
               /\ data' = data
            \/ /\ Len(queue') = Len(queue) /\ channel' = channel
               /\ Elements(data') = Elements(data) \cup {"refresh"}
  <1>1. /\ queue \in Seq(InQueue) /\ Len(queue) \in Nat /\ channel \in Seq(InChannel)
        /\ data \in Seq(Asks)
    BY Sequences
  <1>2. Len(queue) <= VIDEO_QUEUE_SIZE /\ dropped \in 0..MaxDropped
    BY DEF TypeOK
  <1>3. CASE Len(queue) = VIDEO_QUEUE_SIZE
    <2>1. dropped' \in 0..MaxDropped
      BY <1>2, <1>3, Bound DEF ForcePush
    <2>2. queue' = Append(Tail(queue), f) /\ queue # <<>>
      BY <1>1, <1>3, Bound, EmptySeq DEF ForcePush
    <2>3. Tail(queue) \in Seq(InQueue) /\ Len(Tail(queue)) = Len(queue) - 1
      BY <1>1, <2>2, Rest
    <2>4. queue' \in Seq(InQueue) /\ Len(queue') = Len(queue)
      BY <1>1, <2>2, <2>3, AppendProperties
    <2>5. channel' = channel \o <<>> /\ data' = data \o <<"refresh">>
      BY <1>3 DEF ForcePush, TokenForDrop, RefreshForDrop
    <2>6. channel' = channel
      BY <1>1, <2>5, ConcatEmptySeq
    <2>7. data' \in Seq(Asks) /\ Elements(data') = Elements(data) \cup {"refresh"}
      <3> DEFINE r == <<"refresh">>
      <3>1. r \in Seq(Asks) /\ Elements(r) = {"refresh"}
        BY AskedAtOnce
      <3>2. data' = data \o r
        BY <2>5
      <3> HIDE DEF r
      <3>3. data \o r \in Seq(Asks)
        BY <1>1, <3>1, ConcatProperties
      <3>4. Elements(data \o r) = Elements(data) \cup Elements(r)
        BY <1>1, <3>1, ElementsConcat
      <3> QED
        BY <3>1, <3>2, <3>3, <3>4
    <2> QED
      BY <1>1, <1>2, <2>1, <2>4, <2>6, <2>7
  <1>4. CASE Len(queue) # VIDEO_QUEUE_SIZE
    <2>1. queue' = Append(queue, f) /\ channel' = Append(channel, Token)
          /\ data' = data /\ dropped' = dropped
      BY <1>4 DEF ForcePush
    <2>2. queue' \in Seq(InQueue) /\ Len(queue') = Len(queue) + 1
      BY <1>1, <2>1, AppendProperties
    <2>3. Token \in InChannel
      BY DEF InChannel
    <2>4. channel' \in Seq(InChannel)
      BY <1>1, <2>1, <2>3, AppendProperties
    <2> QED
      BY <1>1, <1>2, <1>4, <2>1, <2>2, <2>4, Bound
  <1> QED
    BY <1>3, <1>4

\* A decoded frame keeps the types of the thread.
LEMMA HandledTypes ==
  ASSUME TypeOK, NEW f \in Frame, HandleFrame(f), unsupported' = unsupported
  PROVE  /\ decoder' \in Codec \cup {NoCodec} /\ first_frame' \in BOOLEAN
         /\ fail_counter' \in 0..MAX_DECODE_FAIL_COUNTER /\ last' \in 0..Ring
         /\ data' \in Seq({"refresh", "supported", "reset"})
         /\ unsupported' \subseteq mark_unsupported' /\ mark_unsupported' \subseteq Codec
  <1>1. /\ decoder' = f.codec /\ first_frame' = FALSE
        /\ last' \in 0..Ring /\ fail_counter' \in 0..MAX_DECODE_FAIL_COUNTER
        /\ mark_unsupported \subseteq mark_unsupported'
        /\ mark_unsupported' \subseteq mark_unsupported \cup {f.codec}
        /\ data' \in Seq(Asks)
    BY HandledFrame
  <1>2. f.codec \in Codec
    BY FrameNumber
  <1>3. unsupported \subseteq mark_unsupported /\ mark_unsupported \subseteq Codec
    BY DEF TypeOK
  <1> QED
    BY <1>1, <1>2, <1>3 DEF Asks

\* Every step keeps the types and the bound of the queue.
LEMMA StepTypes == TypeOK /\ [Next]_vars => TypeOK'
  <1> SUFFICES ASSUME TypeOK, [Next]_vars
               PROVE  TypeOK'
    OBVIOUS
  <1>s. /\ network \in Seq(InNetwork) /\ Len(network) \in Nat
        /\ channel \in Seq(InChannel) /\ Len(channel) \in Nat
        /\ queue \in Seq(InQueue) /\ Len(queue) \in Nat
        /\ data \in Seq(Asks) /\ Len(data) \in Nat
    BY Sequences
  <1>r. Reset \in InNetwork /\ Reset \in InChannel
    BY DEF InNetwork, InChannel
  <1>1. CASE Encode
    <2>1. PICK f \in Frame : network' = Append(network, f) /\ sent' \in 0..(Ring - 1)
      BY <1>1, EncodedFrame
    <2>2. f \in InNetwork
      BY DEF InNetwork
    <2>3. network' \in Seq(InNetwork) /\ Len(network') = Len(network) + 1
      BY <1>s, <2>1, <2>2, AppendProperties
    <2>4. Len(network') <= MaxInFlight
      BY <1>1, <1>s, <2>3, Bound DEF Encode
    <2> QED
      BY <1>1, <2>1, <2>3, <2>4
         DEF Encode, TypeOK, threadVars, handlerVars, InNetwork
  <1>2. CASE Restart
    <2>1. codec' \in Codec
      BY <1>2 DEF Restart
    <2> QED
      BY <1>2, <2>1 DEF Restart, TypeOK, threadVars, handlerVars
  <1>3. CASE SwitchDisplay
    <2>1. network' \in Seq(InNetwork) /\ Len(network') = Len(network) + 1
      BY <1>3, <1>s, <1>r, AppendProperties DEF SwitchDisplay
    <2>2. Len(network') <= MaxInFlight
      BY <1>3, <1>s, <2>1, Bound DEF SwitchDisplay
    <2>3. changes' \in 0..MaxChanges
      BY <1>3, ChangeType DEF SwitchDisplay
    <2>4. rekey' \in BOOLEAN
      BY <1>3 DEF SwitchDisplay, TypeOK
    <2> QED
      BY <1>3, <2>1, <2>2, <2>3, <2>4
         DEF SwitchDisplay, TypeOK, threadVars, handlerVars, InNetwork
  <1>4. CASE HandleMsgFromPeer
    <2>1. network # <<>> /\ network' = Tail(network)
      BY <1>4 DEF HandleMsgFromPeer
    <2>2. /\ Head(network) \in InNetwork /\ network' \in Seq(InNetwork)
          /\ Len(network') <= Len(network) /\ Len(network') \in Nat
      BY <1>s, <2>1, Rest
    <2>3. Len(network') <= MaxInFlight
      BY <1>s, <2>2, Bound DEF TypeOK
    <2>4. /\ queue' \in Seq(InQueue) /\ Len(queue') <= VIDEO_QUEUE_SIZE
          /\ channel' \in Seq(InChannel)
          /\ data' \in Seq(Asks) /\ dropped' \in 0..MaxDropped
      <3>1. CASE Head(network) = Reset \/ Head(network).key
        <4>1. Head(network) \in InChannel
          BY <2>2, <3>1 DEF InNetwork, InChannel
        <4>2. channel' = Append(channel, Head(network))
              /\ UNCHANGED <<queue, data, dropped>>
          BY <1>4, <3>1 DEF HandleMsgFromPeer
        <4>3. channel' \in Seq(InChannel)
          BY <1>s, <4>1, <4>2, AppendProperties
        <4>4. Len(queue) <= VIDEO_QUEUE_SIZE /\ dropped \in 0..MaxDropped
          BY DEF TypeOK
        <4> QED
          BY <1>s, <4>2, <4>3, <4>4
      <3>2. CASE ~(Head(network) = Reset \/ Head(network).key)
        <4>1. Head(network) \in InQueue
          BY <2>2, <3>2 DEF InNetwork, InQueue
        <4>2. ForcePush(Head(network))
          BY <1>4, <3>2 DEF HandleMsgFromPeer
        <4> QED
          BY <4>1, <4>2, Pushed
      <3> QED
        BY <3>1, <3>2
    <2> QED
      BY <1>4, <2>2, <2>3, <2>4
         DEF HandleMsgFromPeer, TypeOK, hostVars, threadVars, handlerVars,
             InNetwork, InChannel, InQueue, Asks
  <1>5. CASE HandleMsgFromUi
    <2>1. data # <<>> /\ data' = Tail(data)
      BY <1>5 DEF HandleMsgFromUi
    <2>2. data' \in Seq(Asks)
      BY <1>s, <2>1, Rest
    <2>3. channel' \in Seq(InChannel)
      <3>1. channel' = channel \/ channel' = Append(channel, Reset)
        BY <1>5 DEF HandleMsgFromUi
      <3>2. Append(channel, Reset) \in Seq(InChannel)
        BY <1>s, <1>r, AppendProperties
      <3> QED
        BY <1>s, <3>1, <3>2
    <2>4. discard' \in BOOLEAN /\ asked' \in BOOLEAN
      BY <1>5 DEF HandleMsgFromUi, TypeOK
    <2>5. unsupported' \subseteq mark_unsupported
      BY <1>5 DEF HandleMsgFromUi, TypeOK
    <2> QED
      BY <1>5, <2>2, <2>3, <2>4, <2>5
         DEF HandleMsgFromUi, TypeOK, threadVars, handlerVars, InChannel, Asks
  <1>6. CASE FpsControl
    <2>1. "refresh" \in Asks
      BY DEF Asks
    <2>2. data' \in Seq(Asks)
      BY <1>6, <1>s, <2>1, AppendProperties DEF FpsControl
    <2>3. changes' \in 0..MaxChanges
      BY <1>6, ChangeType DEF FpsControl
    <2> QED
      BY <1>6, <2>2, <2>3 DEF FpsControl, TypeOK, hostVars, threadVars, handlerVars, Asks
  <1>7. CASE UseTextureRenderChanged
    <2>1. data' \in Seq(Asks)
      BY <1>7, <1>s, AskedAtOnce, ConcatProperties DEF UseTextureRenderChanged
    <2>2. changes' \in 0..MaxChanges
      BY <1>7, ChangeType DEF UseTextureRenderChanged
    <2> QED
      BY <1>7, <2>1, <2>2
         DEF UseTextureRenderChanged, TypeOK, hostVars, threadVars, handlerVars, Asks
  <1>8. CASE DecodeKey
    <2>1. channel # <<>> /\ channel' = Tail(channel) /\ Head(channel) \in Frame
          /\ discard' = FALSE /\ HandleFrame(Head(channel))
          /\ UNCHANGED <<hostVars, network, queue, held, dropped, changes>>
      BY <1>8 DEF DecodeKey
    <2>2. channel' \in Seq(InChannel)
      BY <1>s, <2>1, Rest
    <2>3. unsupported' = unsupported
      BY <2>1 DEF hostVars
    <2>4. /\ decoder' \in Codec \cup {NoCodec} /\ first_frame' \in BOOLEAN
          /\ fail_counter' \in 0..MAX_DECODE_FAIL_COUNTER /\ last' \in 0..Ring
          /\ data' \in Seq({"refresh", "supported", "reset"})
          /\ unsupported' \subseteq mark_unsupported' /\ mark_unsupported' \subseteq Codec
      BY <2>1, <2>3, HandledTypes
    <2> QED
      BY <2>1, <2>2, <2>4 DEF TypeOK, hostVars, InChannel
  <1>9. CASE Pop
    <2>1. channel # <<>> /\ channel' = Tail(channel)
      BY <1>9 DEF Pop
    <2>2. channel' \in Seq(InChannel)
      BY <1>s, <2>1, Rest
    <2>3. /\ queue' \in Seq(InQueue) /\ Len(queue') <= Len(queue) /\ Len(queue') \in Nat
          /\ held' \in InQueue \cup {NoFrame}
      <3>1. CASE queue = <<>>
        BY <1>9, <1>s, <3>1 DEF Pop, TypeOK, InQueue
      <3>2. CASE queue # <<>>
        <4>1. held' = Head(queue) /\ queue' = Tail(queue)
          BY <1>9, <3>2 DEF Pop
        <4> QED
          BY <1>s, <3>2, <4>1, Rest
      <3> QED
        BY <3>1, <3>2
    <2>4. Len(queue') <= VIDEO_QUEUE_SIZE
      BY <1>s, <2>3, Bound DEF TypeOK
    <2> QED
      BY <1>9, <2>2, <2>3, <2>4 DEF Pop, TypeOK, hostVars, handlerVars, InChannel, InQueue
  <1>10. CASE Discard
    <2>1. data' = data /\ last' \in 0..Ring
      BY <1>10, <1>s, ConcatEmptySeq, Bound DEF Discard, RefreshForDiscard, Lost
    <2> QED
      BY <1>10, <2>1 DEF Discard, TypeOK, hostVars
  <1>11. CASE DecodeQueued
    <2>1. held # NoFrame /\ held' = NoFrame /\ HandleFrame(held)
          /\ UNCHANGED <<hostVars, network, channel, queue, discard, dropped, changes>>
      BY <1>11 DEF DecodeQueued
    <2>2. held \in Frame /\ unsupported' = unsupported
      BY <2>1 DEF TypeOK, hostVars
    <2>3. /\ decoder' \in Codec \cup {NoCodec} /\ first_frame' \in BOOLEAN
          /\ fail_counter' \in 0..MAX_DECODE_FAIL_COUNTER /\ last' \in 0..Ring
          /\ data' \in Seq({"refresh", "supported", "reset"})
          /\ unsupported' \subseteq mark_unsupported' /\ mark_unsupported' \subseteq Codec
      BY <2>1, <2>2, HandledTypes
    <2> QED
      BY <2>1, <2>3 DEF TypeOK, hostVars
  <1>12. CASE ResetDecoder
    <2>1. channel # <<>> /\ channel' = Tail(channel)
      BY <1>12 DEF ResetDecoder
    <2>2. channel' \in Seq(InChannel)
      BY <1>s, <2>1, Rest
    <2>3. last' \in 0..Ring /\ fail_counter' \in 0..MAX_DECODE_FAIL_COUNTER
      BY <1>12, Bound, Sizes DEF ResetDecoder, Lost
    <2> QED
      BY <1>12, <2>2, <2>3 DEF ResetDecoder, TypeOK, hostVars, InChannel
  <1>13. CASE UNCHANGED vars
    BY <1>13 DEF vars, TypeOK, hostVars, threadVars, handlerVars
  <1> QED
    BY <1>1, <1>2, <1>3, <1>4, <1>5, <1>6, <1>7, <1>8, <1>9, <1>10, <1>11, <1>12, <1>13
       DEF Next, Thread

\* The first of the channel is taken off.
LEMMA TakenOff ==
  ASSUME TypeOK, channel # <<>>, channel' = Tail(channel)
  PROVE  /\ Len(channel) \in Nat /\ Len(channel) > 0 /\ Len(channel') = Len(channel) - 1
         /\ Head(channel) = channel[1] /\ channel[1] \in InChannel
         /\ \A i \in 1..(Len(channel) - 1) : channel'[i] = channel[i + 1]
         /\ \A p \in 0..Len(channel') : TokensAfter(channel', p) = TokensAfter(channel, p + 1)
         /\ TokensAfter(channel', 0) \in Nat
         /\ TokensAfter(channel, 0)
              = TokensAfter(channel', 0) + (IF channel[1] = Token THEN 1 ELSE 0)
  <1>1. channel \in Seq(InChannel)
    BY Sequences
  <1>2. /\ Len(channel) \in Nat /\ Len(channel) > 0 /\ Len(channel') = Len(channel) - 1
        /\ Head(channel) = channel[1] /\ channel[1] \in InChannel
        /\ \A i \in 1..(Len(channel) - 1) : channel'[i] = channel[i + 1]
        /\ channel' \in Seq(InChannel)
    BY <1>1, Rest
  <1>3. \A p \in 0..Len(channel') : TokensAfter(channel', p) = TokensAfter(channel, p + 1)
    BY <1>1, <1>2, TokensTail
  <1>4. TokensAfter(channel', 0) \in Nat
    BY <1>2, PlacesFinite
  <1>5. TokensAfter(channel, 0) = TokensAfter(channel, 1) + (IF channel[1] = Token THEN 1 ELSE 0)
    <2>1. 0 \in 0..(Len(channel) - 1)
      BY <1>2
    <2> QED
      BY <1>1, <2>1, TokensStep
  <1>6. TokensAfter(channel', 0) = TokensAfter(channel, 1)
    BY <1>2, <1>3
  <1> QED
    BY <1>2, <1>3, <1>4, <1>5, <1>6

\* Something is put into the channel.
LEMMA PutIn ==
  ASSUME TypeOK, NEW x \in InChannel, channel' = Append(channel, x)
  PROVE  /\ Len(channel) \in Nat /\ Len(channel') = Len(channel) + 1
         /\ channel'[Len(channel) + 1] = x
         /\ \A i \in 1..Len(channel) : channel'[i] = channel[i]
         /\ \A p \in 0..Len(channel) :
              /\ TokensAfter(channel, p) \in Nat
              /\ TokensAfter(channel', p) = TokensAfter(channel, p) + (IF x = Token THEN 1 ELSE 0)
         /\ TokensAfter(channel', Len(channel) + 1) = 0
  <1>1. channel \in Seq(InChannel) /\ Len(channel) \in Nat
    BY Sequences
  <1>2. /\ channel' \in Seq(InChannel) /\ Len(channel') = Len(channel) + 1
        /\ channel'[Len(channel) + 1] = x
        /\ \A i \in 1..Len(channel) : channel'[i] = channel[i]
    BY <1>1, AppendProperties
  <1>3. \A p \in 0..Len(channel) : TokensAfter(channel, p) \in Nat
    <2>1. \A p \in 0..Len(channel) : p \in Nat
      BY <1>1
    <2> QED
      BY <1>1, <2>1, PlacesFinite
  <1>4. ASSUME NEW p \in 0..Len(channel)
        PROVE  TokensAfter(channel', p) = TokensAfter(channel, p) + (IF x = Token THEN 1 ELSE 0)
    BY <1>1, TokensAppend
  <1>5. TokensAfter(channel', Len(channel) + 1) = 0
    BY <1>2, NoneAfterLast
  <1> QED
    BY <1>1, <1>2, <1>3, <1>4, <1>5

\* Every step keeps the match of tokens and frames: a drop puts none in, and a token
\* that is taken off finds its frame.
LEMMA StepTokens == Inv /\ [Next]_vars => TokensMatch'
  <1> SUFFICES ASSUME Inv, [Next]_vars
               PROVE  TokensMatch'
    OBVIOUS
  <1>t. TypeOK /\ TokensAfter(channel, 0) = Len(queue)
    BY DEF Inv, TokensMatch
  <1>s. /\ network \in Seq(InNetwork) /\ Len(network) \in Nat
        /\ channel \in Seq(InChannel) /\ Len(channel) \in Nat
        /\ queue \in Seq(InQueue) /\ Len(queue) \in Nat
    BY <1>t, Sequences
  <1>r. Reset \in InChannel /\ Token \in InChannel
    BY DEF InChannel
  <1>1. CASE UNCHANGED <<channel, queue>>
    BY <1>1, <1>t DEF TokensMatch
  <1>2. ASSUME NEW x \in InChannel, x # Token, channel' = Append(channel, x), queue' = queue
        PROVE  TokensMatch'
    <2>1. 0 \in 0..Len(channel)
      BY <1>s
    <2>2. TokensAfter(channel', 0) = TokensAfter(channel, 0) + 0
      BY <1>2, <1>t, <2>1, PutIn
    <2> QED
      BY <1>2, <1>t, <1>s, <2>2 DEF TokensMatch
  <1>3. ASSUME channel # <<>>, Head(channel) # Token, channel' = Tail(channel), queue' = queue
        PROVE  TokensMatch'
    BY <1>3, <1>t, TakenOff DEF TokensMatch
  <1>4. CASE HandleMsgFromPeer
    <2>1. network # <<>>
      BY <1>4 DEF HandleMsgFromPeer
    <2>2. Head(network) \in InNetwork
      BY <1>s, <2>1, Rest
    <2>3. CASE Head(network) = Reset \/ Head(network).key
      <3>1. Head(network) \in InChannel /\ Head(network) # Token
        BY <2>2, <2>3, Media DEF InNetwork, InChannel
      <3> QED
        BY <1>2, <1>4, <2>3, <3>1 DEF HandleMsgFromPeer
    <2>4. CASE ~(Head(network) = Reset \/ Head(network).key)
      <3>1. Head(network) \in InQueue
        BY <2>2, <2>4 DEF InNetwork, InQueue
      <3>2. ForcePush(Head(network))
        BY <1>4, <2>4 DEF HandleMsgFromPeer
      <3>3. \/ queue' = Append(queue, Head(network)) /\ channel' = Append(channel, Token)
            \/ Len(queue') = Len(queue) /\ channel' = channel
        BY <1>t, <3>1, <3>2, Pushed
      <3>4. CASE queue' = Append(queue, Head(network)) /\ channel' = Append(channel, Token)
        <4>1. Len(queue') = Len(queue) + 1
          BY <1>s, <3>1, <3>4, AppendProperties
        <4>2. 0 \in 0..Len(channel)
          BY <1>s
        <4>3. TokensAfter(channel', 0) = TokensAfter(channel, 0) + 1
          BY <1>t, <1>r, <3>4, <4>2, PutIn
        <4> QED
          BY <1>t, <1>s, <4>1, <4>3 DEF TokensMatch
      <3>5. CASE Len(queue') = Len(queue) /\ channel' = channel
        BY <1>t, <3>5 DEF TokensMatch
      <3> QED
        BY <3>3, <3>4, <3>5
    <2> QED
      BY <2>3, <2>4
  <1>5. CASE HandleMsgFromUi
    <2>1. queue' = queue /\ (channel' = channel \/ channel' = Append(channel, Reset))
      BY <1>5 DEF HandleMsgFromUi
    <2> QED
      BY <1>1, <1>2, <1>r, <2>1, Media
  <1>6. CASE DecodeKey
    BY <1>3, <1>6, Media DEF DecodeKey
  <1>7. CASE Pop
    <2>1. channel # <<>> /\ Head(channel) = Token /\ channel' = Tail(channel)
      BY <1>7 DEF Pop
    <2>2. Len(queue) = TokensAfter(channel', 0) + 1 /\ TokensAfter(channel', 0) \in Nat
      BY <1>t, <2>1, TakenOff
    <2>3. queue # <<>>
      BY <1>s, <2>2, EmptySeq
    <2>4. Len(queue') = Len(queue) - 1
      BY <1>7, <1>s, <2>3, Rest DEF Pop
    <2> QED
      BY <2>2, <2>4 DEF TokensMatch
  <1>8. CASE ResetDecoder
    BY <1>3, <1>8, Media DEF ResetDecoder
  <1> QED
    BY <1>1, <1>4, <1>5, <1>6, <1>7, <1>8
       DEF Next, Thread, Encode, Restart, SwitchDisplay, FpsControl, UseTextureRenderChanged,
           Discard, DecodeQueued, vars

\* A key frame is in a longer sequence if it was there or is what was appended.
LEMMA KeyInAppend ==
  ASSUME NEW S, NEW s \in Seq(S), NEW x \in S
  PROVE  KeyIn(Append(s, x)) <=> KeyIn(s) \/ IsKey(x)
  <1>1. Elements(Append(s, x)) = Elements(s) \cup {x}
    BY ElementsAppend
  <1>2. KeyIn(Append(s, x)) <=> \E m \in Elements(Append(s, x)) : IsKey(m)
    BY KeyInElements
  <1> QED
    BY <1>1, <1>2, KeyInElements

\* A key frame is in a sequence if it is the first or among the rest.
LEMMA KeyInTail ==
  ASSUME NEW S, NEW s \in Seq(S), s # <<>>
  PROVE  KeyIn(s) <=> IsKey(Head(s)) \/ KeyIn(Tail(s))
  <1>1. Elements(s) = {Head(s)} \cup Elements(Tail(s))
    BY ElementsTail
  <1>2. KeyIn(Tail(s)) <=> \E m \in Elements(Tail(s)) : IsKey(m)
    BY KeyInElements
  <1> QED
    BY <1>1, <1>2, KeyInElements

\* What is asked of the io loop, after each action.
LEMMA DataOfPeer ==
  ASSUME TypeOK, HandleMsgFromPeer
  PROVE  Elements(data) \subseteq Elements(data')
  <1>1. network # <<>> /\ network \in Seq(InNetwork)
    BY Sequences DEF HandleMsgFromPeer
  <1>2. Head(network) \in InNetwork
    BY <1>1, Rest
  <1>3. CASE Head(network) = Reset \/ Head(network).key
    BY <1>3 DEF HandleMsgFromPeer
  <1>4. CASE ~(Head(network) = Reset \/ Head(network).key)
    <2>1. Head(network) \in InQueue /\ ForcePush(Head(network))
      BY <1>2, <1>4 DEF InNetwork, InQueue, HandleMsgFromPeer
    <2>2. data' = data \/ Elements(data') = Elements(data) \cup {"refresh"}
      BY <2>1, Pushed
    <2> QED
      BY <2>2
  <1> QED
    BY <1>3, <1>4

\* The io loop takes the first request.
LEMMA DataOfUi ==
  ASSUME TypeOK, HandleMsgFromUi
  PROVE  /\ Elements(data) = {Head(data)} \cup Elements(data')
         /\ Head(data) \in Asks
  <1>1. data # <<>> /\ data' = Tail(data) /\ data \in Seq(Asks)
    BY Sequences DEF HandleMsgFromUi
  <1> QED
    BY <1>1, ElementsTail, Rest

\* A change makes a refresh wait.
LEMMA DataOfUser ==
  ASSUME TypeOK, FpsControl \/ UseTextureRenderChanged
  PROVE  Elements(data) \cup {"refresh"} \subseteq Elements(data')
  <1>1. data \in Seq(Asks)
    BY Sequences
  <1>2. CASE FpsControl
    <2>1. "refresh" \in Asks /\ data' = Append(data, "refresh")
      BY <1>2 DEF Asks, FpsControl
    <2>2. Elements(data') = Elements(data) \cup {"refresh"}
      BY <1>1, <2>1, ElementsAppend
    <2> QED
      BY <2>2
  <1>3. CASE UseTextureRenderChanged
    <2> DEFINE three == <<"reset", "supported", "refresh">>
    <2>1. three \in Seq(Asks) /\ Elements(three) = Asks /\ data' = data \o three
      BY <1>3, AskedAtOnce DEF UseTextureRenderChanged
    <2> HIDE DEF three
    <2>2. Elements(data') = Elements(data) \cup Elements(three)
      BY <1>1, <2>1, ElementsConcat
    <2> QED
      BY <2>1, <2>2 DEF Asks
  <1> QED
    BY <1>2, <1>3

\* A frame that is decoded leaves the marks as they are to be.
LEMMA HandledMarks ==
  ASSUME TypeOK, FailureMarked, MarksTold, NEW f \in Frame, HandleFrame(f),
         UNCHANGED <<codec, asked, unsupported>>
  PROVE  FailureMarked' /\ MarksTold'
  <1>1. /\ decoder' = f.codec /\ first_frame' = FALSE
        /\ mark_unsupported \subseteq mark_unsupported'
        /\ mark_unsupported' \subseteq mark_unsupported \cup {f.codec}
        /\ Elements(data) \subseteq Elements(data')
        /\ mark_unsupported' # mark_unsupported => "supported" \in Elements(data')
        /\ last' = Lost /\ FirstFrame(f) => f.codec \in mark_unsupported'
        /\ f.codec \notin Decodable => last' = Lost
    BY HandledFrame
  <1>2. FailureMarked'
    <2> SUFFICES ASSUME f.codec \in Codec \ Decodable
                 PROVE  f.codec \in mark_unsupported'
      BY <1>1 DEF FailureMarked
    <2>1. CASE FirstFrame(f)
      BY <1>1, <2>1
    <2>2. CASE ~FirstFrame(f)
      BY <1>1, <2>2 DEF FirstFrame, Fresh, FailureMarked
    <2> QED
      BY <2>1, <2>2
  <1>3. MarksTold'
    BY <1>1 DEF MarksTold
  <1> QED
    BY <1>2, <1>3

\* Every step keeps the marks told: a mark makes "supported" wait, and the host that
\* hears it is asked to leave the codec.
LEMMA StepMarks ==
  ASSUME TypeOK, FailureMarked, MarksTold, [Next]_vars
  PROVE  FailureMarked' /\ MarksTold'
  <1>1. ASSUME UNCHANGED <<codec, asked, unsupported, decoder, mark_unsupported>>,
               first_frame' = first_frame \/ first_frame' = TRUE,
               Elements(data) \subseteq Elements(data')
        PROVE  FailureMarked' /\ MarksTold'
    BY <1>1 DEF FailureMarked, MarksTold
  <1>2. CASE Restart
    <2>1. /\ codec' \in IF Codec = unsupported THEN Codec ELSE Codec \ unsupported
          /\ UNCHANGED <<unsupported, mark_unsupported, decoder, first_frame, data>>
      BY <1>2 DEF Restart, threadVars, handlerVars
    <2>2. unsupported \subseteq mark_unsupported /\ mark_unsupported \subseteq Codec
      BY DEF TypeOK
    <2>3. codec' \in mark_unsupported =>
            mark_unsupported # unsupported \/ Codec = mark_unsupported
      BY <2>1, <2>2
    <2> QED
      BY <2>1, <2>3 DEF FailureMarked, MarksTold
  <1>3. CASE HandleMsgFromPeer
    BY <1>1, <1>3, DataOfPeer DEF HandleMsgFromPeer, hostVars, threadVars, handlerVars
  <1>4. CASE HandleMsgFromUi
    <2>1. Elements(data) = {Head(data)} \cup Elements(data')
      BY <1>4, DataOfUi
    <2>2. UNCHANGED <<codec, decoder, first_frame, mark_unsupported>>
      BY <1>4 DEF HandleMsgFromUi, threadVars, handlerVars
    <2>3. CASE Head(data) = "supported"
      BY <1>4, <2>1, <2>2, <2>3 DEF HandleMsgFromUi, FailureMarked, MarksTold
    <2>4. CASE Head(data) # "supported"
      BY <1>4, <2>1, <2>2, <2>4 DEF HandleMsgFromUi, FailureMarked, MarksTold
    <2> QED
      BY <2>3, <2>4
  <1>5. CASE FpsControl \/ UseTextureRenderChanged
    BY <1>1, <1>5, DataOfUser
       DEF FpsControl, UseTextureRenderChanged, hostVars, threadVars, handlerVars
  <1>6. CASE DecodeKey
    BY <1>6, HandledMarks DEF DecodeKey, hostVars
  <1>7. CASE DecodeQueued
    <2>1. held \in Frame
      BY <1>7 DEF DecodeQueued, TypeOK
    <2> QED
      BY <1>7, <2>1, HandledMarks DEF DecodeQueued, hostVars
  <1>8. CASE Discard
    <2>1. data' = data
      BY <1>8, Sequences, ConcatEmptySeq DEF Discard, RefreshForDiscard
    <2> QED
      BY <1>1, <1>8, <2>1 DEF Discard, hostVars
  <1>9. CASE ResetDecoder
    BY <1>1, <1>9 DEF ResetDecoder, hostVars
  <1> QED
    BY <1>1, <1>2, <1>3, <1>4, <1>5, <1>6, <1>7, <1>8, <1>9
       DEF Next, Thread, Encode, SwitchDisplay, Pop, vars, hostVars, threadVars, handlerVars

\* The key frames of the network and the channel, after each action.
LEMMA KeysOfPeer ==
  ASSUME TypeOK, HandleMsgFromPeer
  PROVE  /\ network # <<>> /\ network' = Tail(network)
         /\ KeyIn(network) <=> IsKey(Head(network)) \/ KeyIn(network')
         /\ KeyIn(channel') <=> KeyIn(channel) \/ IsKey(Head(network))
  <1>1. /\ network # <<>> /\ network' = Tail(network)
        /\ network \in Seq(InNetwork) /\ channel \in Seq(InChannel)
    BY Sequences DEF HandleMsgFromPeer
  <1>2. KeyIn(network) <=> IsKey(Head(network)) \/ KeyIn(network')
    BY <1>1, KeyInTail
  <1>3. Head(network) \in InNetwork
    BY <1>1, Rest
  <1>4. CASE Head(network) = Reset \/ Head(network).key
    <2>1. Head(network) \in InChannel
      BY <1>3, <1>4 DEF InNetwork, InChannel
    <2>2. channel' = Append(channel, Head(network))
      BY <1>4 DEF HandleMsgFromPeer
    <2> QED
      BY <1>1, <1>2, <2>1, <2>2, KeyInAppend
  <1>5. CASE ~(Head(network) = Reset \/ Head(network).key)
    <2>1. Head(network) \in InQueue /\ ForcePush(Head(network)) /\ ~IsKey(Head(network))
      BY <1>3, <1>5 DEF InNetwork, InQueue, HandleMsgFromPeer, IsKey
    <2>2. channel' = channel \/ channel' = Append(channel, Token)
      BY <2>1, Pushed
    <2>3. Token \in InChannel /\ ~IsKey(Token)
      BY Media DEF InChannel, IsKey
    <2> QED
      BY <1>1, <1>2, <2>1, <2>2, <2>3, KeyInAppend
  <1> QED
    BY <1>4, <1>5

\* The host puts a key frame into the network when one is due.
LEMMA KeysOfHost ==
  ASSUME TypeOK
  PROVE  /\ Encode => (KeyIn(network') <=> KeyIn(network) \/ rekey)
         /\ SwitchDisplay => (KeyIn(network') <=> KeyIn(network))
         /\ HandleMsgFromUi => (KeyIn(channel') <=> KeyIn(channel))
  <1>1. /\ network \in Seq(InNetwork) /\ channel \in Seq(InChannel)
        /\ Reset \in InNetwork /\ Reset \in InChannel /\ ~IsKey(Reset)
    BY Sequences, Media DEF InNetwork, InChannel, IsKey
  <1>2. ASSUME Encode
        PROVE  KeyIn(network') <=> KeyIn(network) \/ rekey
    <2>1. PICK f \in Frame : network' = Append(network, f) /\ f.key = rekey
      BY <1>2, EncodedFrame
    <2>2. f \in InNetwork /\ (IsKey(f) <=> rekey)
      BY <2>1 DEF InNetwork, IsKey
    <2> QED
      BY <1>1, <2>1, <2>2, KeyInAppend
  <1>3. ASSUME SwitchDisplay
        PROVE  KeyIn(network') <=> KeyIn(network)
    BY <1>1, <1>3, KeyInAppend DEF SwitchDisplay
  <1>4. ASSUME HandleMsgFromUi
        PROVE  KeyIn(channel') <=> KeyIn(channel)
    <2>1. channel' = channel \/ channel' = Append(channel, Reset)
      BY <1>4 DEF HandleMsgFromUi
    <2> QED
      BY <1>1, <2>1, KeyInAppend
  <1> QED
    BY <1>2, <1>3, <1>4

\* The thread takes the first of the channel.
LEMMA KeysOfThread ==
  ASSUME TypeOK, channel # <<>>, channel' = Tail(channel)
  PROVE  KeyIn(channel) <=> IsKey(Head(channel)) \/ KeyIn(channel')
  BY Sequences, KeyInTail

\* What the io loop tells the host makes it start over, never the other way.
LEMMA UiAsks ==
  ASSUME HandleMsgFromUi
  PROVE  /\ discard' => discard \/ asked'
         /\ asked => asked'
         /\ UNCHANGED <<codec, sent, rekey, network, queue>>
  <1>1. UNCHANGED <<codec, sent, rekey, network, queue>>
    BY DEF HandleMsgFromUi
  <1>2. \/ discard' = TRUE /\ asked' = TRUE
        \/ (asked' = (asked \/ codec \in mark_unsupported) /\ discard' = discard)
        \/ asked' = asked /\ discard' = discard
    BY DEF HandleMsgFromUi
  <1>3. CASE discard' = TRUE /\ asked' = TRUE
    BY <1>1, <1>3
  <1>4. CASE asked' = (asked \/ codec \in mark_unsupported) /\ discard' = discard
    BY <1>1, <1>4
  <1>5. CASE asked' = asked /\ discard' = discard
    BY <1>1, <1>5
  <1> QED
    BY <1>2, <1>3, <1>4, <1>5

\* Every step keeps a key frame ahead while frames are discarded.
LEMMA StepDiscard ==
  ASSUME TypeOK, DiscardUntilKey, [Next]_vars
  PROVE  DiscardUntilKey'
  <1>1. CASE Encode
    BY <1>1, KeysOfHost DEF DiscardUntilKey, Encode
  <1>2. CASE Restart
    BY <1>2 DEF DiscardUntilKey, Restart
  <1>3. CASE SwitchDisplay
    <2>1. rekey => rekey'
      BY <1>3 DEF SwitchDisplay
    <2>2. KeyIn(network') <=> KeyIn(network)
      BY <1>3, KeysOfHost
    <2>3. UNCHANGED <<asked, channel, discard>>
      BY <1>3 DEF SwitchDisplay
    <2> QED
      BY <2>1, <2>2, <2>3 DEF DiscardUntilKey
  <1>4. CASE HandleMsgFromPeer
    BY <1>4, KeysOfPeer DEF DiscardUntilKey, HandleMsgFromPeer, hostVars
  <1>5. CASE HandleMsgFromUi
    <2>1. /\ discard' => discard \/ asked'
          /\ asked => asked'
          /\ UNCHANGED <<rekey, network>>
      BY <1>5, UiAsks
    <2>2. KeyIn(channel') <=> KeyIn(channel)
      BY <1>5, KeysOfHost
    <2> QED
      BY <2>1, <2>2 DEF DiscardUntilKey
  <1>6. CASE FpsControl \/ UseTextureRenderChanged
    BY <1>6 DEF DiscardUntilKey, FpsControl, UseTextureRenderChanged, hostVars
  <1>7. CASE DecodeKey
    BY <1>7 DEF DiscardUntilKey, DecodeKey
  <1>8. CASE Pop \/ ResetDecoder
    <2>1. channel # <<>> /\ channel' = Tail(channel) /\ ~IsKey(Head(channel))
          /\ UNCHANGED <<rekey, asked, network, discard>>
      BY <1>8, Media DEF Pop, ResetDecoder, hostVars, IsKey
    <2> QED
      BY <2>1, KeysOfThread DEF DiscardUntilKey
  <1>9. CASE Discard \/ DecodeQueued
    BY <1>9 DEF DiscardUntilKey, Discard, DecodeQueued, hostVars
  <1>10. CASE UNCHANGED vars
    BY <1>10 DEF DiscardUntilKey, vars, hostVars
  <1> QED
    BY <1>1, <1>2, <1>3, <1>4, <1>5, <1>6, <1>7, <1>8, <1>9, <1>10 DEF Next, Thread

\* The network is as it was, or longer by one message, or shorter by one.
LEMMA JoinsSame ==
  ASSUME NEW p, NEW n, Joins(p, n),
         network' = network, sent' = sent, rekey => rekey'
  PROVE  Joins(p, n)'
  BY DEF Joins, Link, Follows

\* Messages keep their places when one is appended.
LEMMA Longer ==
  ASSUME TypeOK, NEW x \in InNetwork, network' = Append(network, x)
  PROVE  /\ Len(network) \in Nat /\ Len(network') = Len(network) + 1
         /\ network'[Len(network) + 1] = x
         /\ \A i \in 1..Len(network) : network'[i] = network[i]
  BY Sequences, AppendProperties

\* The frame the host encodes joins what is under way, or the frame before it.
LEMMA JoinsEncoded ==
  ASSUME TypeOK, Encode, NEW p \in 0..Len(network), NEW n, Joins(p, n)
  PROVE  Joins(p, n)'
  <1>1. PICK f \in Frame : /\ network' = Append(network, f)
                           /\ f.key = rekey /\ f.n = sent'
                           /\ sent' = IF rekey THEN sent ELSE Follows(sent)
    BY EncodedFrame
  <1>2. f \in InNetwork
    BY DEF InNetwork
  <1>3. /\ Len(network) \in Nat /\ Len(network') = Len(network) + 1
        /\ network'[Len(network) + 1] = f
        /\ \A i \in 1..Len(network) : network'[i] = network[i]
    BY <1>1, <1>2, Longer
  <1>4. ASSUME NEW i \in (p + 1)..Len(network'), network'[i] \in Frame,
               \A j \in (p + 1)..(i - 1) : network'[j] \notin Frame
        PROVE  network'[i].key \/ Link(n, network'[i])
    <2>1. CASE i \in (p + 1)..Len(network)
      <3>1. \A j \in (p + 1)..(i - 1) : network[j] \notin Frame
        BY <1>3, <1>4, <2>1
      <3> QED
        BY <1>3, <1>4, <2>1, <3>1 DEF Joins
    <2>2. CASE i = Len(network) + 1
      <3>1. \A j \in (p + 1)..Len(network) : network[j] \notin Frame
        BY <1>3, <1>4, <2>2
      <3>2. rekey \/ n \in {Lost, sent}
        BY <3>1 DEF Joins
      <3> QED
        BY <1>1, <1>3, <2>2, <3>2 DEF Link
    <2> QED
      BY <1>3, <2>1, <2>2
  <1>5. Len(network') \in (p + 1)..Len(network') /\ network'[Len(network')] \in Frame
    BY <1>3
  <1> QED
    BY <1>4, <1>5 DEF Joins, Link, Follows

\* A reset joins whatever was joined.
LEMMA JoinsReset ==
  ASSUME TypeOK, network' = Append(network, Reset), sent' = sent, rekey => rekey',
         NEW p \in 0..Len(network), NEW n, Joins(p, n)
  PROVE  Joins(p, n)'
  <1>1. Reset \in InNetwork /\ Reset \notin Frame
    BY Media DEF InNetwork
  <1>2. /\ Len(network) \in Nat /\ Len(network') = Len(network) + 1
        /\ network'[Len(network) + 1] = Reset
        /\ \A i \in 1..Len(network) : network'[i] = network[i]
    BY <1>1, Longer
  <1>3. ASSUME NEW i \in (p + 1)..Len(network'), network'[i] \in Frame,
               \A j \in (p + 1)..(i - 1) : network'[j] \notin Frame
        PROVE  network'[i].key \/ Link(n, network'[i])
    <2>1. i \in (p + 1)..Len(network)
      BY <1>1, <1>2, <1>3
    <2>2. \A j \in (p + 1)..(i - 1) : network[j] \notin Frame
      BY <1>2, <1>3, <2>1
    <2> QED
      BY <1>2, <1>3, <2>1, <2>2 DEF Joins
  <1>4. (\A i \in (p + 1)..Len(network') : network'[i] \notin Frame) =>
          rekey' \/ n \in {Lost, sent'}
    BY <1>2 DEF Joins
  <1> QED
    BY <1>3, <1>4 DEF Joins, Link, Follows

\* What follows a place follows the place before it when the first is taken off.
LEMMA JoinsTail ==
  ASSUME TypeOK, network # <<>>, network' = Tail(network), sent' = sent, rekey' = rekey,
         NEW p \in 0..Len(network'), NEW n, Joins(p + 1, n)
  PROVE  Joins(p, n)'
  <1>1. /\ Len(network) \in Nat /\ Len(network) > 0 /\ Len(network') = Len(network) - 1
        /\ \A i \in 1..(Len(network) - 1) : network'[i] = network[i + 1]
    BY Sequences, Rest
  <1>2. ASSUME NEW i \in (p + 1)..Len(network'), network'[i] \in Frame,
               \A j \in (p + 1)..(i - 1) : network'[j] \notin Frame
        PROVE  network'[i].key \/ Link(n, network'[i])
    <2>1. i + 1 \in (p + 1 + 1)..Len(network) /\ network'[i] = network[i + 1]
      BY <1>1
    <2>2. \A j \in (p + 1 + 1)..(i + 1 - 1) : network[j] \notin Frame
      <3> SUFFICES ASSUME NEW j \in (p + 1 + 1)..(i + 1 - 1)
                   PROVE  network[j] \notin Frame
        OBVIOUS
      <3>1. j - 1 \in (p + 1)..(i - 1) /\ network'[j - 1] = network[j]
        BY <1>1
      <3> QED
        BY <1>2, <3>1
    <2> QED
      BY <1>2, <2>1, <2>2 DEF Joins
  <1>3. ASSUME \A i \in (p + 1)..Len(network') : network'[i] \notin Frame
        PROVE  rekey' \/ n \in {Lost, sent'}
    <2>1. ASSUME NEW i \in (p + 1 + 1)..Len(network)
          PROVE  network[i] \notin Frame
      <3>1. i - 1 \in (p + 1)..Len(network') /\ network'[i - 1] = network[i]
        BY <1>1
      <3> QED
        BY <1>3, <3>1
    <2> QED
      BY <2>1 DEF Joins
  <1> QED
    BY <1>2, <1>3 DEF Joins, Link, Follows

\* A reset in front makes no difference.
LEMMA JoinsPast ==
  ASSUME TypeOK, network # <<>>, network' = Tail(network), sent' = sent, rekey' = rekey,
         Head(network) \notin Frame, NEW n, Joins(0, n)
  PROVE  Joins(0, n)'
  <1>1. /\ Len(network) \in Nat /\ Len(network) > 0 /\ Len(network') = Len(network) - 1
        /\ network[1] \notin Frame
    BY Sequences, Rest
  <1>2. ASSUME NEW i \in 2..Len(network), network[i] \in Frame,
               \A j \in 2..(i - 1) : network[j] \notin Frame
        PROVE  network[i].key \/ Link(n, network[i])
    <2>1. \A j \in 1..(i - 1) : network[j] \notin Frame
      BY <1>1, <1>2
    <2> QED
      BY <1>1, <1>2, <2>1 DEF Joins
  <1>3. ASSUME \A i \in 2..Len(network) : network[i] \notin Frame
        PROVE  rekey \/ n \in {Lost, sent}
    <2>1. \A i \in 1..Len(network) : network[i] \notin Frame
      BY <1>1, <1>3
    <2> QED
      BY <2>1 DEF Joins
  <1>4. Joins(0 + 1, n)
    BY <1>2, <1>3 DEF Joins
  <1>5. 0 \in 0..Len(network')
    BY <1>1
  <1> QED
    BY <1>4, <1>5, JoinsTail

\* Every step keeps the frames of the network joined, a new format by a key frame.
LEMMA StepNetwork ==
  ASSUME TypeOK, NetworkJoins, [Next]_vars
  PROVE  NetworkJoins'
  <1>s. network \in Seq(InNetwork) /\ Len(network) \in Nat
    BY Sequences
  <1>r. Reset \in InNetwork /\ Reset \notin Frame
    BY Media DEF InNetwork
  <1>1. ASSUME network' = network, sent' = sent, rekey => rekey',
               codec' = codec \/ rekey'
        PROVE  NetworkJoins'
    <2> SUFFICES ASSUME NEW i \in 1..Len(network), network[i] \in Frame
                 PROVE  /\ Joins(i, network[i].n)'
                        /\ rekey' \/ network[i].codec = codec'
                             \/ \E j \in (i + 1)..Len(network) : IsKey(network[j])
      BY <1>1 DEF NetworkJoins, Joins, Link, Follows
    <2>1. PICK n : n = network[i].n
      OBVIOUS
    <2>2. Joins(i, n)
      BY <2>1 DEF NetworkJoins
    <2>3. Joins(i, n)'
      BY <1>1, <2>2, JoinsSame
    <2>4. Joins(i, network[i].n)'
      BY <1>1, <2>1, <2>3 DEF Joins, Link, Follows
    <2> QED
      BY <1>1, <2>4 DEF NetworkJoins
  <1>2. CASE Encode
    <2>1. PICK f \in Frame : /\ network' = Append(network, f)
                             /\ f.key = rekey /\ f.codec = codec /\ f.n = sent'
      BY <1>2, EncodedFrame
    <2>2. f \in InNetwork /\ codec' = codec
      BY <1>2 DEF InNetwork, Encode
    <2>3. /\ Len(network') = Len(network) + 1 /\ network'[Len(network) + 1] = f
          /\ \A i \in 1..Len(network) : network'[i] = network[i]
      BY <2>1, <2>2, Longer
    <2>4. ASSUME NEW i \in 1..Len(network), network[i] \in Frame
          PROVE  /\ Joins(i, network[i].n)'
                 /\ network'[i].codec = codec'
                      \/ \E j \in (i + 1)..Len(network') : IsKey(network'[j])
      <3>1. PICK n : n = network[i].n
        OBVIOUS
      <3>2. Joins(i, n)
        BY <2>4, <3>1 DEF NetworkJoins
      <3>3. Joins(i, n)'
        BY <1>2, <1>s, <3>2, JoinsEncoded
      <3>4. Joins(i, network[i].n)'
        BY <2>3, <3>1, <3>3 DEF Joins, Link, Follows
      <3>5. CASE rekey
        <4>1. IsKey(network'[Len(network) + 1])
          BY <2>1, <2>3, <3>5 DEF IsKey
        <4>2. Len(network) + 1 \in (i + 1)..Len(network')
          BY <1>s, <2>3
        <4> QED
          BY <3>4, <4>1, <4>2
      <3>6. CASE ~rekey
        <4>1. \A j \in (i + 1)..Len(network) :
                j \in (i + 1)..Len(network') /\ network'[j] = network[j]
          BY <1>s, <2>3
        <4>2. network[i].codec = codec \/ \E j \in (i + 1)..Len(network) : IsKey(network[j])
          BY <2>4, <3>6 DEF NetworkJoins
        <4> QED
          BY <2>2, <2>3, <3>4, <4>1, <4>2
      <3> QED
        BY <3>5, <3>6
    <2>5. ASSUME NEW i \in 1..Len(network'), i = Len(network) + 1
          PROVE  Joins(i, network[i].n)' /\ network'[i].codec = codec'
      <3>1. \A j \in (i + 1)..Len(network') : FALSE
        BY <1>s, <2>3, <2>5
      <3>2. network'[i].n = sent' /\ network'[i].codec = codec'
        BY <2>1, <2>2, <2>3, <2>5
      <3> QED
        BY <3>1, <3>2 DEF Joins
    <2> SUFFICES ASSUME NEW i \in 1..Len(network'), network'[i] \in Frame
                 PROVE  /\ Joins(i, network[i].n)'
                        /\ rekey' \/ network'[i].codec = codec'
                             \/ \E j \in (i + 1)..Len(network') : IsKey(network'[j])
      BY DEF NetworkJoins
    <2>6. CASE i \in 1..Len(network)
      BY <2>3, <2>4, <2>6
    <2>7. CASE i = Len(network) + 1
      BY <2>5, <2>7
    <2> QED
      BY <1>s, <2>3, <2>6, <2>7
  <1>3. CASE Restart
    <2>1. rekey' /\ network' = network /\ sent' = sent
      BY <1>3 DEF Restart
    <2> QED
      BY <1>1, <2>1
  <1>4. CASE SwitchDisplay
    <2>0. rekey => rekey'
      BY <1>4 DEF SwitchDisplay
    <2>1. network' = Append(network, Reset) /\ sent' = sent /\ codec' = codec
      BY <1>4 DEF SwitchDisplay
    <2>2. /\ Len(network') = Len(network) + 1 /\ network'[Len(network) + 1] = Reset
          /\ \A i \in 1..Len(network) : network'[i] = network[i]
      BY <1>r, <2>1, Longer
    <2> SUFFICES ASSUME NEW i \in 1..Len(network'), network'[i] \in Frame
                 PROVE  /\ Joins(i, network[i].n)'
                        /\ rekey' \/ network'[i].codec = codec'
                             \/ \E j \in (i + 1)..Len(network') : IsKey(network'[j])
      BY DEF NetworkJoins
    <2>3. i \in 1..Len(network) /\ network[i] \in Frame /\ network'[i] = network[i]
      BY <1>s, <1>r, <2>2
    <2>4. PICK n : n = network[i].n
      OBVIOUS
    <2>5. Joins(i, n) /\ i \in 0..Len(network)
      BY <1>s, <2>3, <2>4 DEF NetworkJoins
    <2>6. Joins(i, n)'
      BY <2>0, <2>1, <2>5, JoinsReset
    <2>7. Joins(i, network[i].n)'
      BY <2>3, <2>4, <2>6 DEF Joins, Link, Follows
    <2>8. \A j \in (i + 1)..Len(network) :
            j \in (i + 1)..Len(network') /\ network'[j] = network[j]
      BY <1>s, <2>2
    <2>9. rekey \/ network[i].codec = codec
            \/ \E j \in (i + 1)..Len(network) : IsKey(network[j])
      BY <2>3 DEF NetworkJoins
    <2> QED
      BY <2>0, <2>1, <2>3, <2>7, <2>8, <2>9
  <1>5. CASE HandleMsgFromPeer
    <2>1. network # <<>> /\ network' = Tail(network)
          /\ UNCHANGED <<sent, rekey, codec>>
      BY <1>5 DEF HandleMsgFromPeer, hostVars
    <2>2. /\ Len(network') = Len(network) - 1 /\ Len(network) > 0
          /\ \A i \in 1..(Len(network) - 1) : network'[i] = network[i + 1]
      BY <1>s, <2>1, Rest
    <2> SUFFICES ASSUME NEW i \in 1..Len(network'), network'[i] \in Frame
                 PROVE  /\ Joins(i, network[i].n)'
                        /\ rekey' \/ network'[i].codec = codec'
                             \/ \E j \in (i + 1)..Len(network') : IsKey(network'[j])
      BY DEF NetworkJoins
    <2>3. i + 1 \in 1..Len(network) /\ network'[i] = network[i + 1]
          /\ i \in 0..Len(network')
      BY <1>s, <2>2
    <2>4. PICK n : n = network[i + 1].n
      OBVIOUS
    <2>5. Joins(i + 1, n)
      BY <2>3, <2>4 DEF NetworkJoins
    <2>6. Joins(i, n)'
      BY <2>1, <2>3, <2>5, JoinsTail
    <2>7. Joins(i, network[i].n)'
      BY <2>3, <2>4, <2>6 DEF Joins, Link, Follows
    <2>8. \A j \in (i + 1 + 1)..Len(network) :
            j - 1 \in (i + 1)..Len(network') /\ network'[j - 1] = network[j]
      BY <1>s, <2>2, <2>3
    <2>9. rekey \/ network[i + 1].codec = codec
            \/ \E j \in (i + 1 + 1)..Len(network) : IsKey(network[j])
      BY <2>3 DEF NetworkJoins
    <2> QED
      BY <2>1, <2>3, <2>7, <2>8, <2>9
  <1>6. CASE HandleMsgFromUi
    BY <1>1, <1>6, UiAsks DEF HandleMsgFromUi
  <1> QED
    BY <1>1, <1>2, <1>3, <1>4, <1>5, <1>6
       DEF Next, Thread, FpsControl, UseTextureRenderChanged, DecodeKey, Pop, Discard,
           DecodeQueued, ResetDecoder, vars, hostVars

\* What may come after frame n may come after one that is lost.
LEMMA JoinsLost ==
  ASSUME NEW p, NEW n, Joins(p, n)
  PROVE  Joins(p, Lost)
  BY DEF Joins, Link

\* So it is with the queue.
LEMMA QueueWeaker ==
  ASSUME NEW m, NEW n, NEW k \in {n, Lost}, QueueJoins(m, n)
  PROVE  QueueJoins(m, k)
  BY JoinsLost DEF QueueJoins, Link

\* A queue that is left alone stays whole as long as what is under way joins it.
LEMMA QueueKept ==
  ASSUME NEW m, NEW n, QueueJoins(m, n), queue' = queue, codec' = codec,
         \A k : Joins(0, k) => Joins(0, k)'
  PROVE  QueueJoins(m, n)'
  <1> DEFINE J(k) == Joins(0, k)
             JN(k) == Joins(0, k)'
  <1>1. \A k : J(k) => JN(k)
    OBVIOUS
  <1>2. /\ m = Len(queue) => J(n)
        /\ m < Len(queue) => Link(n, queue[m + 1]) /\ J(queue[Len(queue)].n)
        /\ \A i \in (m + 1)..(Len(queue) - 1) : Link(queue[i].n, queue[i + 1])
        /\ \A i \in (m + 1)..Len(queue) : queue[i].codec = codec
    BY DEF QueueJoins
  <1> HIDE DEF J, JN
  <1>3. /\ m = Len(queue) => JN(n)
        /\ m < Len(queue) => Link(n, queue[m + 1]) /\ JN(queue[Len(queue)].n)
        /\ \A i \in (m + 1)..(Len(queue) - 1) : Link(queue[i].n, queue[i + 1])
        /\ \A i \in (m + 1)..Len(queue) : queue[i].codec = codec
    BY <1>1, <1>2
  <1>4. PICK k : k = queue[Len(queue)].n
    OBVIOUS
  <1>5. /\ m = Len(queue) => Joins(0, n)'
        /\ m < Len(queue) => Link(n, queue[m + 1]) /\ Joins(0, k)'
        /\ \A i \in (m + 1)..(Len(queue) - 1) : Link(queue[i].n, queue[i + 1])
        /\ \A i \in (m + 1)..Len(queue) : queue[i].codec = codec
    BY <1>3, <1>4 DEF JN
  <1>6. m < Len(queue) => Joins(0, queue[Len(queue)].n)'
    BY <1>4, <1>5 DEF Joins, Link, Follows
  <1> QED
    BY <1>5, <1>6 DEF QueueJoins, Link, Follows

\* The parts of WholeFrom after a step.
LEMMA WholeFromNext ==
  ASSUME NEW p, NEW m, NEW n, NEW c,
         m = Len(queue') - TokensAfter(channel', p),
         n = IF p > 0 THEN channel'[p].n ELSE IF held' # NoFrame THEN held'.n ELSE last',
         c = IF p > 0 THEN channel'[p].codec ELSE decoder',
         QueueJoins(m, n)', c = codec'
  PROVE  WholeFrom(p)'
  BY DEF WholeFrom, QueueJoins, Joins, Link, Follows, BaseN, BaseCodec

\* Whatever else happens, what is under way goes on to join what it joined.
LEMMA JoinsKept ==
  ASSUME TypeOK, [Next]_vars, ~HandleMsgFromPeer, NEW k, Joins(0, k)
  PROVE  Joins(0, k)'
  <1>1. 0 \in 0..Len(network)
    BY Sequences
  <1>2. CASE Encode
    BY <1>1, <1>2, JoinsEncoded
  <1>3. CASE SwitchDisplay
    <2>1. rekey => rekey'
      BY <1>3 DEF SwitchDisplay
    <2>2. network' = Append(network, Reset) /\ sent' = sent
      BY <1>3 DEF SwitchDisplay
    <2> QED
      BY <1>1, <2>1, <2>2, JoinsReset
  <1>4. CASE Restart
    <2>1. rekey' /\ network' = network /\ sent' = sent
      BY <1>4 DEF Restart
    <2> QED
      BY <2>1, JoinsSame
  <1>5. CASE HandleMsgFromUi
    BY <1>5, JoinsSame DEF HandleMsgFromUi
  <1>6. CASE Thread
    BY <1>6, JoinsSame DEF Thread, DecodeKey, Pop, Discard, DecodeQueued, ResetDecoder, hostVars
  <1>7. CASE FpsControl \/ UseTextureRenderChanged \/ UNCHANGED vars
    BY <1>7, JoinsSame DEF FpsControl, UseTextureRenderChanged, vars, hostVars
  <1> QED
    BY <1>2, <1>3, <1>4, <1>5, <1>6, <1>7 DEF Next


\* A key frame that is due stays due until it comes into the channel.
LEMMA DueUntilTaken ==
  ASSUME TypeOK, [Next]_vars, KeyDue
  PROVE  KeyDue' \/ (HandleMsgFromPeer /\ IsKey(Head(network)))
  <1>1. CASE Encode
    <2>1. KeyIn(network') <=> KeyIn(network) \/ rekey
      BY <1>1, KeysOfHost
    <2>2. UNCHANGED <<asked, data>>
      BY <1>1 DEF Encode
    <2> QED
      BY <2>1, <2>2 DEF KeyDue
  <1>2. CASE Restart
    BY <1>2 DEF Restart, KeyDue
  <1>3. CASE SwitchDisplay
    <2>1. rekey => rekey'
      BY <1>3 DEF SwitchDisplay
    <2>2. KeyIn(network') <=> KeyIn(network)
      BY <1>3, KeysOfHost
    <2>3. UNCHANGED <<asked, data>>
      BY <1>3 DEF SwitchDisplay
    <2> QED
      BY <2>1, <2>2, <2>3 DEF KeyDue
  <1>4. CASE HandleMsgFromPeer
    <2>1. KeyIn(network) <=> IsKey(Head(network)) \/ KeyIn(network')
      BY <1>4, KeysOfPeer
    <2>2. Elements(data) \subseteq Elements(data')
      BY <1>4, DataOfPeer
    <2>3. UNCHANGED <<rekey, asked>>
      BY <1>4 DEF HandleMsgFromPeer, hostVars
    <2> QED
      BY <1>4, <2>1, <2>2, <2>3 DEF KeyDue
  <1>5. CASE HandleMsgFromUi
    <2>1. asked => asked'
      BY <1>5, UiAsks
    <2>2. UNCHANGED <<rekey, network>>
      BY <1>5, UiAsks
    <2>3. Elements(data) = {Head(data)} \cup Elements(data')
      BY <1>5, DataOfUi
    <2>4. Head(data) = "refresh" => asked'
      BY <1>5 DEF HandleMsgFromUi
    <2> QED
      BY <2>1, <2>2, <2>3, <2>4 DEF KeyDue
  <1>6. CASE FpsControl \/ UseTextureRenderChanged
    BY <1>6, DataOfUser DEF KeyDue
  <1>7. CASE DecodeKey
    <2>1. Elements(data) \subseteq Elements(data')
      BY <1>7, HandledFrame DEF DecodeKey
    <2> QED
      BY <1>7, <2>1 DEF KeyDue, DecodeKey, hostVars
  <1>8. CASE DecodeQueued
    <2>1. held \in Frame /\ HandleFrame(held)
      BY <1>8 DEF DecodeQueued, TypeOK
    <2>2. Elements(data) \subseteq Elements(data')
      BY <2>1, HandledFrame
    <2> QED
      BY <1>8, <2>2 DEF KeyDue, DecodeQueued, hostVars
  <1>9. CASE Discard
    <2>1. data' = data
      BY <1>9, Sequences, ConcatEmptySeq DEF Discard, RefreshForDiscard
    <2> QED
      BY <1>9, <2>1 DEF KeyDue, Discard, hostVars
  <1>10. CASE Pop \/ ResetDecoder
    BY <1>10 DEF KeyDue, Pop, ResetDecoder, hostVars
  <1>11. CASE UNCHANGED vars
    BY <1>11 DEF KeyDue, vars, hostVars
  <1> QED
    BY <1>1, <1>2, <1>3, <1>4, <1>5, <1>6, <1>7, <1>8, <1>9, <1>10, <1>11 DEF Next, Thread

\* Where a reset is put into the channel, or nothing is, what is whole stays whole.
LEMMA WholeKept ==
  ASSUME Inv, Whole, [Next]_vars, ~KeyDue,
         \A k : Joins(0, k) => Joins(0, k)',
         UNCHANGED <<queue, codec, held, last, decoder>>,
         channel' = channel \/ channel' = Append(channel, Reset)
  PROVE  Whole'
  <1>t. TypeOK
    BY DEF Inv
  <1>r. Reset \in InChannel /\ Reset # Token /\ ~IsKey(Reset)
    BY Media DEF InChannel, IsKey
  <1>1. /\ Len(channel) \in Nat
        /\ KeyIn(channel') <=> KeyIn(channel)
        /\ \A p \in 0..Len(channel') : Newest(p)' => p \in 0..Len(channel)
        /\ \A i \in 1..Len(channel) : i \in 1..Len(channel') /\ channel'[i] = channel[i]
        /\ \A p \in 0..Len(channel) : TokensAfter(channel', p) = TokensAfter(channel, p)
    <2>1. channel \in Seq(InChannel) /\ Len(channel) \in Nat
      BY <1>t, Sequences
    <2>2. CASE channel' = channel
      BY <2>1, <2>2
    <2>3. CASE channel' = Append(channel, Reset)
      <3>1. /\ Len(channel') = Len(channel) + 1 /\ channel'[Len(channel) + 1] = Reset
            /\ \A i \in 1..Len(channel) : channel'[i] = channel[i]
            /\ \A p \in 0..Len(channel) :
                 /\ TokensAfter(channel, p) \in Nat
                 /\ TokensAfter(channel', p) = TokensAfter(channel, p) + 0
        BY <1>t, <1>r, <2>3, PutIn
      <3>2. KeyIn(channel') <=> KeyIn(channel)
        BY <1>r, <2>1, <2>3, KeyInAppend
      <3>3. ASSUME NEW p \in 0..Len(channel'), Newest(p)'
            PROVE  p \in 0..Len(channel)
        <4>1. p > 0 => IsKey(channel'[p])
          BY <3>3 DEF Newest, IsKey
        <4> QED
          BY <1>r, <2>1, <3>1, <4>1
      <3> QED
        BY <2>1, <3>1, <3>2, <3>3
    <2> QED
      BY <2>2, <2>3
  <1>2. ASSUME NEW p \in 0..Len(channel'), Newest(p)'
        PROVE  WholeFrom(p)'
    <2>1. p \in 0..Len(channel) /\ (p > 0 => channel'[p] = channel[p])
      BY <1>1, <1>2
    <2>2. Newest(p)
      <3>1. /\ p > 0 => IsKey(channel'[p])
            /\ \A i \in (p + 1)..Len(channel') : ~IsKey(channel'[i])
        BY <1>2 DEF Newest, IsKey
      <3>2. \A i \in (p + 1)..Len(channel) : i \in 1..Len(channel) /\ i \in (p + 1)..Len(channel')
        BY <1>1, <2>1
      <3> QED
        BY <1>1, <2>1, <3>1, <3>2 DEF Newest
    <2>3. WholeFrom(p)
      BY <2>1, <2>2 DEF Whole
    <2>4. PICK m : m = Len(queue) - TokensAfter(channel, p)
      OBVIOUS
    <2>5. PICK n : n = BaseN(p)
      OBVIOUS
    <2>6. PICK c : c = BaseCodec(p)
      OBVIOUS
    <2>7. QueueJoins(m, n) /\ c = codec
      BY <2>3, <2>4, <2>5, <2>6 DEF WholeFrom
    <2>8. QueueJoins(m, n)'
      BY <2>7, QueueKept
    <2>9. /\ m = Len(queue') - TokensAfter(channel', p)
          /\ n = IF p > 0 THEN channel'[p].n ELSE IF held' # NoFrame THEN held'.n ELSE last'
          /\ c = IF p > 0 THEN channel'[p].codec ELSE decoder'
      BY <1>1, <2>1, <2>4, <2>5, <2>6 DEF BaseN, BaseCodec
    <2> QED
      BY <2>7, <2>8, <2>9, WholeFromNext
  <1>3. ~KeyIn(channel') /\ held' # NoFrame => held'.codec = codec' /\ Link(last', held')
    BY <1>1 DEF Whole, Link, Follows
  <1> QED
    BY <1>2, <1>3 DEF Whole, Link, Follows, KeyIn

\* A key frame comes into the channel: what follows it is what is under way.
LEMMA WholeAtKey ==
  ASSUME Inv, NetworkJoins, ~KeyDue', HandleMsgFromPeer, IsKey(Head(network))
  PROVE  Whole'
  <1>t. TypeOK
    BY DEF Inv
  <1>s. /\ network \in Seq(InNetwork) /\ Len(network) \in Nat
        /\ channel \in Seq(InChannel) /\ Len(channel) \in Nat /\ Len(queue) \in Nat
    BY <1>t, Sequences
  <1> DEFINE f == Head(network)
  <1>1. /\ network # <<>> /\ network' = Tail(network)
        /\ channel' = Append(channel, f) /\ f \in InChannel /\ f \in Frame
        /\ UNCHANGED <<queue, codec, sent, rekey>>
    BY DEF HandleMsgFromPeer, hostVars, IsKey, InChannel
  <1>2. f = network[1] /\ Len(network) > 0 /\ Len(network') = Len(network) - 1
        /\ \A i \in 1..(Len(network) - 1) : network'[i] = network[i + 1]
    BY <1>s, <1>1, Rest
  <1>3. ~rekey /\ ~KeyIn(network')
    BY <1>1 DEF KeyDue
  <1>4. Joins(1, f.n) /\ f.codec = codec
    <2>1. 1 \in 1..Len(network) /\ network[1] \in Frame
      BY <1>s, <1>1, <1>2
    <2>2. /\ Joins(1, f.n)
          /\ f.codec = codec \/ \E j \in 2..Len(network) : IsKey(network[j])
      BY <1>2, <1>3, <2>1 DEF NetworkJoins
    <2>3. ASSUME NEW j \in 2..Len(network), IsKey(network[j])
          PROVE  FALSE
      <3>1. j - 1 \in 1..Len(network') /\ network'[j - 1] = network[j]
        BY <1>s, <1>2
      <3> QED
        BY <1>3, <2>3, <3>1 DEF KeyIn, IsKey
    <2> QED
      BY <2>2, <2>3
  <1>5. PICK n : n = f.n
    OBVIOUS
  <1>6. Joins(0, n)'
    <2>1. Joins(0 + 1, n) /\ 0 \in 0..Len(network')
      BY <1>s, <1>2, <1>4, <1>5
    <2> QED
      BY <1>t, <1>1, <2>1, JoinsTail
  <1>7. /\ Len(channel') = Len(channel) + 1 /\ channel'[Len(channel) + 1] = f
        /\ TokensAfter(channel', Len(channel) + 1) = 0
    BY <1>t, <1>1, PutIn
  <1>8. ASSUME NEW p \in 0..Len(channel'), Newest(p)'
        PROVE  WholeFrom(p)'
    <2>1. p = Len(channel) + 1
      <3>1. Len(channel) + 1 \notin (p + 1)..Len(channel')
        BY <1>7, <1>8 DEF Newest, IsKey
      <3> QED
        BY <1>s, <1>7, <3>1
    <2>2. PICK m : m = Len(queue)
      OBVIOUS
    <2>3. QueueJoins(m, n)'
      BY <1>s, <1>1, <1>6, <2>2 DEF QueueJoins, Joins, Link, Follows
    <2>4. PICK c : c = f.codec
      OBVIOUS
    <2>5. /\ m = Len(queue') - TokensAfter(channel', p)
          /\ n = IF p > 0 THEN channel'[p].n ELSE IF held' # NoFrame THEN held'.n ELSE last'
          /\ c = IF p > 0 THEN channel'[p].codec ELSE decoder'
          /\ c = codec'
      BY <1>s, <1>1, <1>4, <1>5, <1>7, <2>1, <2>2, <2>4
    <2> QED
      BY <2>3, <2>5, WholeFromNext
  <1>9. KeyIn(channel')
    BY <1>s, <1>7 DEF KeyIn
  <1> QED
    BY <1>8, <1>9 DEF Whole, Link, Follows, KeyIn

\* A frame for the queue has its place there behind what came before it.
LEMMA WholeAtPush ==
  ASSUME Inv, NetworkJoins, Whole, ~KeyDue, ~KeyDue', HandleMsgFromPeer,
         Head(network) \in InQueue
  PROVE  Whole'
  <1>t. TypeOK /\ TokensAfter(channel, 0) = Len(queue)
    BY DEF Inv, TokensMatch
  <1>s. /\ network \in Seq(InNetwork) /\ Len(network) \in Nat
        /\ channel \in Seq(InChannel) /\ Len(channel) \in Nat
        /\ queue \in Seq(InQueue) /\ Len(queue) \in Nat
    BY <1>t, Sequences
  <1> DEFINE f == Head(network)
  <1>1. /\ network # <<>> /\ network' = Tail(network)
        /\ f \in Frame /\ ~f.key
        /\ UNCHANGED <<codec, sent, rekey, held, last, decoder>>
    BY DEF HandleMsgFromPeer, hostVars, threadVars, handlerVars, InQueue
  <1>2. f = network[1] /\ Len(network) > 0 /\ Len(network') = Len(network) - 1
        /\ \A i \in 1..(Len(network) - 1) : network'[i] = network[i + 1]
    BY <1>s, <1>1, Rest
  <1>3. ~rekey /\ ~KeyIn(network) /\ "refresh" \notin Elements(data')
    BY DEF KeyDue
  <1>4. queue' = Append(queue, f) /\ channel' = Append(channel, Token)
    <2>1. ForcePush(f)
      BY <1>1, Media DEF HandleMsgFromPeer
    <2>2. \/ queue' = Append(queue, f) /\ channel' = Append(channel, Token)
          \/ Elements(data') = Elements(data) \cup {"refresh"}
      BY <1>t, <2>1, Pushed
    <2> QED
      BY <1>3, <2>2
  <1>5. Joins(1, f.n) /\ f.codec = codec
    <2>1. 1 \in 1..Len(network) /\ network[1] \in Frame
      BY <1>s, <1>1, <1>2
    <2>2. /\ Joins(1, f.n)
          /\ f.codec = codec \/ \E j \in 2..Len(network) : IsKey(network[j])
      BY <1>2, <1>3, <2>1 DEF NetworkJoins
    <2>3. \A j \in 2..Len(network) : ~IsKey(network[j])
      BY <1>s, <1>3 DEF KeyIn
    <2> QED
      BY <2>2, <2>3
  <1>6. PICK k : k = f.n
    OBVIOUS
  <1>7. Joins(0, k)'
    <2>1. Joins(0 + 1, k) /\ 0 \in 0..Len(network')
      BY <1>s, <1>2, <1>5, <1>6
    <2> QED
      BY <1>t, <1>1, <2>1, JoinsTail
  <1>8. ASSUME NEW n, Joins(0, n)
        PROVE  Link(n, f)
    <2>1. 1 \in (0 + 1)..Len(network) /\ \A j \in (0 + 1)..(1 - 1) : network[j] \notin Frame
      BY <1>s, <1>2
    <2>2. network[1].key \/ Link(n, network[1])
      BY <1>1, <1>2, <1>8, <2>1 DEF Joins
    <2> QED
      BY <1>1, <1>2, <2>2
  <1>9. /\ Len(queue') = Len(queue) + 1 /\ queue'[Len(queue) + 1] = f
        /\ \A i \in 1..Len(queue) : queue'[i] = queue[i]
    BY <1>s, <1>4, AppendProperties
  <1>10. /\ Len(channel') = Len(channel) + 1 /\ channel'[Len(channel) + 1] = Token
         /\ \A i \in 1..Len(channel) : channel'[i] = channel[i]
         /\ \A p \in 0..Len(channel) :
              /\ TokensAfter(channel, p) \in Nat
              /\ TokensAfter(channel', p) = TokensAfter(channel, p) + 1
    <2>1. Token \in InChannel
      BY DEF InChannel
    <2> QED
      BY <1>t, <1>4, <2>1, PutIn
  <1>11. ~IsKey(Token)
    BY Media DEF IsKey
  <1>12. ASSUME NEW m \in 0..Len(queue), NEW n, QueueJoins(m, n)
         PROVE  QueueJoins(m, n)'
    <2>1. Link(n, queue'[m + 1])
      <3>1. CASE m = Len(queue)
        <4>1. Joins(0, n)
          BY <1>12, <3>1 DEF QueueJoins
        <4>2. Link(n, f)
          BY <1>8, <4>1
        <4> QED
          BY <1>9, <3>1, <4>2
      <3>2. CASE m < Len(queue)
        <4>1. Link(n, queue[m + 1])
          BY <1>s, <1>12, <3>2 DEF QueueJoins
        <4>2. m + 1 \in 1..Len(queue)
          BY <1>s, <3>2
        <4> QED
          BY <1>9, <4>1, <4>2
      <3> QED
        BY <1>s, <3>1, <3>2
    <2>2. queue'[Len(queue')].n = k
      BY <1>6, <1>9
    <2>3. ASSUME NEW i \in (m + 1)..(Len(queue') - 1)
          PROVE  Link(queue'[i].n, queue'[i + 1])
      <3>1. CASE i < Len(queue)
        <4>1. i \in (m + 1)..(Len(queue) - 1) /\ {i, i + 1} \subseteq 1..Len(queue)
          BY <1>s, <2>3, <3>1
        <4>2. Link(queue[i].n, queue[i + 1])
          BY <1>12, <4>1 DEF QueueJoins
        <4> QED
          BY <1>9, <4>1, <4>2
      <3>2. CASE i = Len(queue)
        <4>1. Joins(0, queue[Len(queue)].n)
          BY <1>s, <1>12, <2>3, <3>2 DEF QueueJoins
        <4>2. Link(queue[Len(queue)].n, f)
          BY <1>8, <4>1
        <4> QED
          BY <1>s, <1>9, <2>3, <3>2, <4>2
      <3> QED
        BY <1>s, <1>9, <2>3, <3>1, <3>2
    <2>4. ASSUME NEW i \in (m + 1)..Len(queue')
          PROVE  queue'[i].codec = codec'
      BY <1>s, <1>1, <1>5, <1>9, <1>12, <2>4 DEF QueueJoins
    <2>5. m # Len(queue')
      BY <1>s, <1>9
    <2>6. Joins(0, queue[Len(queue)].n)'
      BY <1>7, <2>2 DEF Joins, Link, Follows
    <2> QED
      BY <2>1, <2>3, <2>4, <2>5, <2>6 DEF QueueJoins, Link, Follows
  <1>13. ASSUME NEW p \in 0..Len(channel'), Newest(p)'
         PROVE  WholeFrom(p)'
    <2>1. p \in 0..Len(channel) /\ (p > 0 => channel'[p] = channel[p])
      <3>1. p > 0 => IsKey(channel'[p])
        BY <1>13 DEF Newest, IsKey
      <3> QED
        BY <1>s, <1>10, <1>11, <3>1
    <2>2. Newest(p)
      <3>1. /\ p > 0 => IsKey(channel'[p])
            /\ \A i \in (p + 1)..Len(channel') : ~IsKey(channel'[i])
        BY <1>13 DEF Newest, IsKey
      <3>2. \A i \in (p + 1)..Len(channel) : i \in 1..Len(channel) /\ i \in (p + 1)..Len(channel')
        BY <1>s, <1>10, <2>1
      <3> QED
        BY <1>10, <2>1, <3>1, <3>2 DEF Newest
    <2>3. WholeFrom(p)
      BY <2>1, <2>2 DEF Whole
    <2>4. PICK m : m = Len(queue) - TokensAfter(channel, p)
      OBVIOUS
    <2>5. PICK n : n = BaseN(p)
      OBVIOUS
    <2>6. PICK c : c = BaseCodec(p)
      OBVIOUS
    <2>7. QueueJoins(m, n) /\ c = codec
      BY <2>3, <2>4, <2>5, <2>6 DEF WholeFrom
    <2>8. m \in 0..Len(queue)
      <3>1. p \in Nat
        BY <1>s, <2>1
      <3>2. TokensAfter(channel, p) <= Len(queue)
        BY <1>t, <1>s, <3>1, TokensMonotone
      <3> QED
        BY <1>s, <1>10, <2>1, <2>4, <3>2
    <2>9. QueueJoins(m, n)'
      BY <1>12, <2>7, <2>8
    <2>10. /\ m = Len(queue') - TokensAfter(channel', p)
           /\ n = IF p > 0 THEN channel'[p].n ELSE IF held' # NoFrame THEN held'.n ELSE last'
           /\ c = IF p > 0 THEN channel'[p].codec ELSE decoder'
           /\ c = codec'
      <3>1. m = Len(queue') - TokensAfter(channel', p)
        <4>1. PICK x, y : x = TokensAfter(channel, p) /\ y = TokensAfter(channel', p)
          OBVIOUS
        <4>2. x \in Nat /\ y = x + 1
          BY <1>10, <2>1, <4>1
        <4>3. m = Len(queue) - x /\ Len(queue') = Len(queue) + 1 /\ Len(queue) \in Nat
          BY <1>s, <1>9, <2>4, <4>1
        <4> QED
          BY <4>1, <4>2, <4>3
      <3>2. p > 0 => channel'[p] = channel[p]
        BY <1>s, <1>10, <2>1
      <3>3. UNCHANGED <<held, last, decoder, codec>>
        BY <1>1
      <3> QED
        BY <3>1, <3>2, <3>3, <2>5, <2>6, <2>7 DEF BaseN, BaseCodec
    <2> QED
      BY <2>9, <2>10, WholeFromNext
  <1>14. KeyIn(channel') <=> KeyIn(channel)
    BY <1>s, <1>4, <1>11, KeyInAppend DEF InChannel
  <1>15. ~KeyIn(channel') /\ held' # NoFrame => held'.codec = codec' /\ Link(last', held')
    BY <1>1, <1>14 DEF Whole
  <1> QED
    BY <1>13, <1>15 DEF Whole, Link, Follows, KeyIn

\* The newest key frame when the first of the channel has been taken off.
LEMMA NewestBefore ==
  ASSUME TypeOK, channel # <<>>, channel' = Tail(channel),
         NEW p \in 0..Len(channel'), Newest(p)'
  PROVE  /\ p + 1 \in 0..Len(channel)
         /\ p > 0 => Newest(p + 1) /\ channel'[p] = channel[p + 1]
         /\ p = 0 /\ IsKey(Head(channel)) => Newest(1)
         /\ p = 0 /\ ~IsKey(Head(channel)) => Newest(0) /\ ~KeyIn(channel)
         /\ p = 0 => ~KeyIn(channel')
  <1>1. /\ Len(channel) \in Nat /\ Len(channel) > 0 /\ Len(channel') = Len(channel) - 1
        /\ Head(channel) = channel[1]
        /\ \A i \in 1..(Len(channel) - 1) : channel'[i] = channel[i + 1]
    BY TakenOff
  <1>2. /\ p > 0 => IsKey(channel'[p])
        /\ \A i \in (p + 1)..Len(channel') : ~IsKey(channel'[i])
    BY DEF Newest, IsKey
  <1>3. ASSUME NEW i \in (p + 2)..Len(channel)
        PROVE  ~IsKey(channel[i])
    <2>1. i - 1 \in (p + 1)..Len(channel') /\ channel'[i - 1] = channel[i]
      BY <1>1
    <2> QED
      BY <1>2, <2>1
  <1>4. p + 1 \in 0..Len(channel) /\ (p + 1) + 1 = p + 2
    BY <1>1
  <1>5. p > 0 => channel'[p] = channel[p + 1]
    BY <1>1
  <1>6. p > 0 => Newest(p + 1)
    BY <1>2, <1>3, <1>4, <1>5 DEF Newest
  <1>7. p = 0 /\ IsKey(Head(channel)) => Newest(1)
    BY <1>1, <1>3 DEF Newest
  <1>8. p = 0 /\ ~IsKey(Head(channel)) => Newest(0) /\ ~KeyIn(channel)
    <2>1. \A i \in 1..Len(channel) : i = 1 \/ i \in 2..Len(channel)
      BY <1>1
    <2> QED
      BY <1>1, <1>3, <2>1 DEF Newest, KeyIn
  <1>9. p = 0 => ~KeyIn(channel')
    BY <1>2 DEF KeyIn, IsKey
  <1> QED
    BY <1>4, <1>5, <1>6, <1>7, <1>8, <1>9

\* What follows a place of the channel stays whole when the place only moves, or the
\* frame before it is lost.
LEMMA WholeFromKept ==
  ASSUME NEW q, NEW p, WholeFrom(q), UNCHANGED <<queue, codec>>,
         \A k : Joins(0, k) => Joins(0, k)',
         TokensAfter(channel', p) = TokensAfter(channel, q),
         (IF p > 0 THEN channel'[p].n ELSE IF held' # NoFrame THEN held'.n ELSE last')
           \in {BaseN(q), Lost},
         (IF p > 0 THEN channel'[p].codec ELSE decoder') = BaseCodec(q)
  PROVE  WholeFrom(p)'
  <1>1. PICK m : m = Len(queue) - TokensAfter(channel, q)
    OBVIOUS
  <1>2. PICK n : n = IF p > 0 THEN channel'[p].n ELSE IF held' # NoFrame THEN held'.n ELSE last'
    OBVIOUS
  <1>3. PICK c : c = BaseCodec(q)
    OBVIOUS
  <1>4. PICK b : b = BaseN(q)
    OBVIOUS
  <1>5. QueueJoins(m, b) /\ c = codec /\ n \in {b, Lost}
    BY <1>1, <1>2, <1>3, <1>4 DEF WholeFrom
  <1>6. QueueJoins(m, n)
    BY <1>5, QueueWeaker
  <1>7. QueueJoins(m, n)'
    BY <1>6, QueueKept
  <1> QED
    BY <1>1, <1>2, <1>3, <1>5, <1>7, WholeFromNext

\* What the thread decodes, discards or resets leaves whole what follows.
LEMMA WholeAtThread ==
  ASSUME Inv, Whole, ~KeyDue, [Next]_vars, DecodeKey \/ ResetDecoder \/ Discard \/ DecodeQueued
  PROVE  Whole'
  <1>t. TypeOK
    BY DEF Inv
  <1>s. channel \in Seq(InChannel) /\ Len(channel) \in Nat
    BY <1>t, Sequences
  <1>j. UNCHANGED <<network, sent, rekey, queue, codec>>
    BY DEF DecodeKey, ResetDecoder, Discard, DecodeQueued, hostVars
  <1>k. \A k : Joins(0, k) => Joins(0, k)'
    BY <1>j, JoinsSame
  <1>h. held' = NoFrame
    BY DEF DecodeKey, ResetDecoder, Discard, DecodeQueued
  <1>1. CASE DecodeKey
    <2>1. /\ channel # <<>> /\ channel' = Tail(channel) /\ held = NoFrame
          /\ Head(channel) \in Frame /\ HandleFrame(Head(channel))
      BY <1>1 DEF DecodeKey
    <2>2. /\ Head(channel) = channel[1] /\ channel[1] \in InChannel
          /\ Len(channel') \in Nat
          /\ \A p \in 0..Len(channel') : TokensAfter(channel', p) = TokensAfter(channel, p + 1)
      BY <1>t, <2>1, TakenOff
    <2>3. IsKey(Head(channel))
      BY <2>1, <2>2, Media DEF IsKey, InChannel
    <2>4. decoder' = Head(channel).codec /\ last' \in {Head(channel).n, Lost}
      BY <1>t, <2>1, HandledFrame
    <2>5. ASSUME NEW p \in 0..Len(channel'), Newest(p)'
          PROVE  WholeFrom(p)'
      <3>1. /\ p + 1 \in 0..Len(channel)
            /\ p > 0 => Newest(p + 1) /\ channel'[p] = channel[p + 1]
            /\ p = 0 => Newest(1)
        BY <1>t, <2>1, <2>3, <2>5, NewestBefore
      <3>2. Newest(p + 1) /\ p + 1 > 0
        <4>1. CASE p = 0
          BY <3>1, <4>1
        <4>2. CASE p > 0
          BY <3>1, <4>2
        <4> QED
          BY <2>2, <4>1, <4>2
      <3>3. WholeFrom(p + 1)
        BY <3>1, <3>2 DEF Whole
      <3>4. TokensAfter(channel', p) = TokensAfter(channel, p + 1)
        BY <2>2
      <3>5. (IF p > 0 THEN channel'[p].n ELSE IF held' # NoFrame THEN held'.n ELSE last')
               \in {BaseN(p + 1), Lost}
        BY <1>h, <2>2, <2>4, <3>1, <3>2 DEF BaseN
      <3>6. (IF p > 0 THEN channel'[p].codec ELSE decoder') = BaseCodec(p + 1)
        BY <2>2, <2>4, <3>1, <3>2 DEF BaseCodec
      <3> QED
        BY <1>j, <1>k, <3>3, <3>4, <3>5, <3>6, WholeFromKept
    <2> QED
      BY <1>h, <2>5 DEF Whole
  <1>2. CASE ResetDecoder
    <2>1. /\ channel # <<>> /\ channel' = Tail(channel) /\ held = NoFrame
          /\ Head(channel) = Reset /\ last' = Lost /\ decoder' = decoder
      BY <1>2 DEF ResetDecoder
    <2>2. /\ Head(channel) = channel[1] /\ Len(channel') \in Nat
          /\ TokensAfter(channel', 0) \in Nat
          /\ TokensAfter(channel, 0)
               = TokensAfter(channel', 0) + (IF channel[1] = Token THEN 1 ELSE 0)
          /\ \A p \in 0..Len(channel') : TokensAfter(channel', p) = TokensAfter(channel, p + 1)
      BY <1>t, <2>1, TakenOff
    <2>3. ~IsKey(Head(channel)) /\ Head(channel) # Token
      BY <2>1, Media DEF IsKey
    <2>4. ASSUME NEW p \in 0..Len(channel'), Newest(p)'
          PROVE  WholeFrom(p)'
      <3>1. /\ p + 1 \in 0..Len(channel)
            /\ p > 0 => Newest(p + 1) /\ channel'[p] = channel[p + 1]
            /\ p = 0 => Newest(0)
        BY <1>t, <2>1, <2>3, <2>4, NewestBefore
      <3>2. CASE p > 0
        <4>1. WholeFrom(p + 1) /\ p + 1 > 0
          BY <3>1, <3>2 DEF Whole
        <4>2. (IF p > 0 THEN channel'[p].n ELSE IF held' # NoFrame THEN held'.n ELSE last')
                 = BaseN(p + 1)
          BY <3>1, <3>2, <4>1 DEF BaseN
        <4>3. (IF p > 0 THEN channel'[p].codec ELSE decoder') = BaseCodec(p + 1)
          BY <3>1, <3>2, <4>1 DEF BaseCodec
        <4> QED
          BY <1>j, <1>k, <2>2, <4>1, <4>2, <4>3, WholeFromKept
      <3>3. CASE p = 0
        <4>1. WholeFrom(0)
          BY <1>s, <3>1, <3>3 DEF Whole
        <4>2. TokensAfter(channel', p) = TokensAfter(channel, 0)
          BY <2>2, <2>3, <3>3
        <4>3. (IF p > 0 THEN channel'[p].n ELSE IF held' # NoFrame THEN held'.n ELSE last')
                 = Lost
          BY <1>h, <2>1, <3>3
        <4>4. (IF p > 0 THEN channel'[p].codec ELSE decoder') = BaseCodec(0)
          BY <2>1, <3>3 DEF BaseCodec
        <4> QED
          BY <1>j, <1>k, <4>1, <4>2, <4>3, <4>4, WholeFromKept
      <3> QED
        BY <2>2, <3>2, <3>3
    <2> QED
      BY <1>h, <2>4 DEF Whole
  <1>3. CASE Discard \/ DecodeQueued
    <2>1. channel' = channel /\ held # NoFrame
      BY <1>3 DEF Discard, DecodeQueued
    <2>2. last' \in {held.n, Lost}
          /\ (~KeyIn(channel) => decoder' = decoder)
      <3>1. CASE Discard
        BY <3>1 DEF Discard
      <3>2. CASE DecodeQueued
        <4>1. held \in Frame /\ HandleFrame(held)
          BY <1>t, <3>2 DEF DecodeQueued, TypeOK
        <4>2. decoder' = held.codec /\ last' \in {held.n, Lost}
          BY <1>t, <4>1, HandledFrame
        <4>3. ASSUME ~KeyIn(channel)
              PROVE  held.codec = codec /\ decoder = codec
          <5>1. Newest(0) /\ 0 \in 0..Len(channel)
            BY <1>s, <4>3 DEF Newest, KeyIn
          <5>2. WholeFrom(0)
            BY <5>1 DEF Whole
          <5> QED
            BY <2>1, <4>3, <5>2 DEF Whole, WholeFrom, BaseCodec
        <4> QED
          BY <4>2, <4>3
      <3> QED
        BY <1>3, <3>1, <3>2
    <2>3. ASSUME NEW p \in 0..Len(channel'), Newest(p)'
          PROVE  WholeFrom(p)'
      <3>1. p \in 0..Len(channel) /\ Newest(p)
        BY <2>1, <2>3 DEF Newest, IsKey
      <3>2. WholeFrom(p)
        BY <3>1 DEF Whole
      <3>3. p = 0 => ~KeyIn(channel)
        BY <3>1 DEF Newest, KeyIn
      <3>4. (IF p > 0 THEN channel'[p].n ELSE IF held' # NoFrame THEN held'.n ELSE last')
               \in {BaseN(p), Lost}
        BY <1>h, <2>1, <2>2 DEF BaseN
      <3>5. (IF p > 0 THEN channel'[p].codec ELSE decoder') = BaseCodec(p)
        BY <1>s, <2>1, <2>2, <3>1, <3>3 DEF BaseCodec
      <3> QED
        BY <1>j, <1>k, <2>1, <3>2, <3>4, <3>5, WholeFromKept
    <2> QED
      BY <1>h, <2>3 DEF Whole
  <1> QED
    BY <1>1, <1>2, <1>3

\* The oldest frame of the queue is taken out.
LEMMA WholeAtPop ==
  ASSUME Inv, Whole, ~KeyDue, Pop
  PROVE  Whole'
  <1>t. TypeOK /\ TokensAfter(channel, 0) = Len(queue)
    BY DEF Inv, TokensMatch
  <1>s. /\ channel \in Seq(InChannel) /\ Len(channel) \in Nat
        /\ queue \in Seq(InQueue) /\ Len(queue) \in Nat
    BY <1>t, Sequences
  <1>1. /\ channel # <<>> /\ channel' = Tail(channel) /\ held = NoFrame
        /\ Head(channel) = Token
        /\ UNCHANGED <<network, sent, rekey, codec, last, decoder>>
    BY DEF Pop, hostVars, handlerVars
  <1>2. /\ Head(channel) = channel[1] /\ Len(channel') \in Nat
        /\ TokensAfter(channel', 0) \in Nat
        /\ TokensAfter(channel, 0) = TokensAfter(channel', 0) + 1
        /\ \A p \in 0..Len(channel') : TokensAfter(channel', p) = TokensAfter(channel, p + 1)
    BY <1>t, <1>1, TakenOff
  <1>3. ~IsKey(Head(channel))
    BY <1>1, Media DEF IsKey
  <1>4. queue # <<>>
    BY <1>t, <1>s, <1>2, EmptySeq
  <1>5. held' = Head(queue) /\ queue' = Tail(queue)
    BY <1>4 DEF Pop
  <1>6. /\ Len(queue) > 0 /\ Len(queue') = Len(queue) - 1
        /\ Head(queue) = queue[1] /\ queue[1] \in InQueue
        /\ \A i \in 1..(Len(queue) - 1) : queue'[i] = queue[i + 1]
    BY <1>s, <1>4, <1>5, Rest
  <1>7. held' # NoFrame
    BY <1>5, <1>6, Media DEF InQueue
  <1>8. ASSUME NEW m \in 1..Len(queue), NEW n, QueueJoins(m, n)
        PROVE  QueueJoins(m - 1, n)'
    <2>1. ASSUME NEW k, Joins(0, k)
          PROVE  Joins(0, k)'
      BY <1>1, <2>1, JoinsSame
    <2>2. m - 1 = Len(queue') => Joins(0, n)'
      <3>1. m - 1 = Len(queue') => Joins(0, n)
        BY <1>s, <1>6, <1>8 DEF QueueJoins
      <3> QED
        BY <2>1, <3>1
    <2>3. ASSUME m - 1 < Len(queue')
          PROVE  Link(n, queue'[m]) /\ Joins(0, queue[Len(queue)].n)'
      <3>1. m < Len(queue) /\ queue'[m] = queue[m + 1] /\ queue'[Len(queue')] = queue[Len(queue)]
        BY <1>s, <1>6, <2>3
      <3>2. Link(n, queue[m + 1]) /\ Joins(0, queue[Len(queue)].n)
        BY <1>8, <3>1 DEF QueueJoins
      <3>3. PICK k : k = queue[Len(queue)].n
        OBVIOUS
      <3>4. Joins(0, k)'
        BY <2>1, <3>2, <3>3
      <3>5. Joins(0, queue[Len(queue)].n)'
        BY <3>1, <3>3, <3>4 DEF Joins, Link, Follows
      <3> QED
        BY <3>1, <3>2, <3>5 DEF Joins, Link, Follows
    <2>4. ASSUME NEW i \in m..(Len(queue') - 1)
          PROVE  Link(queue'[i].n, queue'[i + 1])
      <3>1. /\ i + 1 \in (m + 1)..(Len(queue) - 1)
            /\ queue'[i] = queue[i + 1] /\ queue'[i + 1] = queue[(i + 1) + 1]
        BY <1>s, <1>6, <2>4
      <3> QED
        BY <1>8, <3>1 DEF QueueJoins
    <2>5. ASSUME NEW i \in m..Len(queue')
          PROVE  queue'[i].codec = codec'
      <3>1. i + 1 \in (m + 1)..Len(queue) /\ queue'[i] = queue[i + 1]
        BY <1>s, <1>6, <2>5
      <3> QED
        BY <1>1, <1>8, <3>1 DEF QueueJoins
    <2>6. (m - 1) + 1 = m
      BY <1>s
    <2> QED
      BY <2>2, <2>3, <2>4, <2>5, <2>6 DEF QueueJoins, Joins, Link, Follows
  <1>9. ASSUME NEW p \in 0..Len(channel'), Newest(p)', p > 0
        PROVE  WholeFrom(p)'
    <2>1. p + 1 \in 0..Len(channel) /\ Newest(p + 1) /\ channel'[p] = channel[p + 1]
      BY <1>t, <1>1, <1>9, NewestBefore
    <2>2. WholeFrom(p + 1)
      BY <2>1 DEF Whole
    <2>3. PICK m : m = Len(queue) - TokensAfter(channel, p + 1)
      OBVIOUS
    <2>4. PICK n : n = channel[p + 1].n
      OBVIOUS
    <2>5. PICK c : c = channel[p + 1].codec
      OBVIOUS
    <2>6. p + 1 > 0
      BY <1>2
    <2>7. QueueJoins(m, n) /\ c = codec
      BY <2>2, <2>3, <2>4, <2>5, <2>6 DEF WholeFrom, BaseN, BaseCodec
    <2>8. TokensAfter(channel', p) = TokensAfter(channel, p + 1)
      BY <1>2
    <2>9. m \in 1..Len(queue)
      <3>1. channel' \in Seq(InChannel) /\ p \in Nat
        BY <1>s, <1>1, <1>2, Rest
      <3>2. TokensAfter(channel', p) \in Nat
            /\ TokensAfter(channel', p) <= TokensAfter(channel', 0)
        BY <3>1, PlacesFinite, TokensMonotone
      <3> QED
        BY <1>t, <1>s, <1>2, <2>3, <2>8, <3>2
    <2>10. PICK m1 : m1 = m - 1
      OBVIOUS
    <2>11. QueueJoins(m1, n)'
      <3>1. QueueJoins(m - 1, n)'
        BY <1>8, <2>7, <2>9
      <3> QED
        BY <2>10, <3>1 DEF QueueJoins, Joins, Link, Follows
    <2>12. m1 = Len(queue') - TokensAfter(channel', p)
      <3>1. TokensAfter(channel', p) = Len(queue) - m
        BY <1>s, <2>3, <2>8, <2>9, PlacesFinite
      <3> QED
        BY <1>s, <1>6, <2>9, <2>10, <3>1
    <2>13. /\ n = IF p > 0 THEN channel'[p].n ELSE IF held' # NoFrame THEN held'.n ELSE last'
           /\ c = IF p > 0 THEN channel'[p].codec ELSE decoder'
           /\ c = codec'
      BY <1>1, <1>9, <2>1, <2>4, <2>5, <2>7
    <2> QED
      BY <2>11, <2>12, <2>13, WholeFromNext
  <1>10. ASSUME ~KeyIn(channel)
         PROVE  /\ Link(last, queue[1]) /\ queue[1].codec = codec /\ decoder = codec
                /\ QueueJoins(1, queue[1].n)
    <2>1. Newest(0) /\ 0 \in 0..Len(channel)
      BY <1>s, <1>10 DEF Newest, KeyIn
    <2>2. WholeFrom(0)
      BY <2>1 DEF Whole
    <2>3. Len(queue) - TokensAfter(channel, 0) = 0
      BY <1>t, <1>s
    <2>4. QueueJoins(0, last) /\ decoder = codec
      BY <1>1, <2>2, <2>3 DEF WholeFrom, BaseN, BaseCodec
    <2>5. /\ 0 + 1 = 1 /\ 0 < Len(queue) /\ 1 \in 1..Len(queue)
          /\ 1 = Len(queue) \/ 1 < Len(queue)
      BY <1>s, <1>6
    <2>6. Link(last, queue[1]) /\ queue[1].codec = codec /\ Joins(0, queue[Len(queue)].n)
      BY <2>4, <2>5 DEF QueueJoins
    <2>7. \A i \in 1..(Len(queue) - 1) : Link(queue[i].n, queue[i + 1])
      BY <2>4, <2>5 DEF QueueJoins
    <2>8. \A i \in 1..Len(queue) : queue[i].codec = codec
      BY <2>4, <2>5 DEF QueueJoins
    <2>9. \A i \in (1 + 1)..Len(queue) : i \in 1..Len(queue)
      BY <1>s
    <2>10. \A i \in (1 + 1)..(Len(queue) - 1) : i \in 1..(Len(queue) - 1)
      BY <1>s
    <2>11. 1 < Len(queue) => Link(queue[1].n, queue[1 + 1])
      <3>1. 1 < Len(queue) => 1 \in 1..(Len(queue) - 1)
        BY <1>s
      <3> QED
        BY <2>7, <3>1
    <2> QED
      BY <2>4, <2>6, <2>7, <2>8, <2>9, <2>10, <2>11 DEF QueueJoins
  <1>11. ASSUME NEW p \in 0..Len(channel'), Newest(p)', p = 0
         PROVE  WholeFrom(p)'
    <2>1. ~KeyIn(channel)
      BY <1>t, <1>1, <1>3, <1>11, NewestBefore
    <2>2. PICK n : n = queue[1].n
      OBVIOUS
    <2>3. QueueJoins(1, n) /\ decoder = codec
      BY <1>10, <2>1, <2>2
    <2>4. 1 \in 1..Len(queue)
      BY <1>s, <1>6
    <2>5. QueueJoins(1 - 1, n)'
      BY <1>8, <2>3, <2>4
    <2>6. PICK m1 : m1 = 0
      OBVIOUS
    <2>7. QueueJoins(m1, n)'
      <3>1. 1 - 1 = m1
        BY <2>6
      <3> QED
        BY <2>5, <3>1 DEF QueueJoins, Joins, Link, Follows
    <2>8. PICK c : c = decoder
      OBVIOUS
    <2>9. /\ m1 = Len(queue') - TokensAfter(channel', p)
          /\ n = IF p > 0 THEN channel'[p].n ELSE IF held' # NoFrame THEN held'.n ELSE last'
          /\ c = IF p > 0 THEN channel'[p].codec ELSE decoder'
          /\ c = codec'
      BY <1>t, <1>s, <1>1, <1>2, <1>5, <1>6, <1>7, <1>11, <2>2, <2>3, <2>6, <2>8
    <2> QED
      BY <2>7, <2>9, WholeFromNext
  <1>12. ASSUME ~KeyIn(channel')
         PROVE  held'.codec = codec' /\ Link(last', held')
    <2>1. ~KeyIn(channel)
      BY <1>t, <1>1, <1>3, <1>12, KeysOfThread
    <2> QED
      BY <1>1, <1>5, <1>6, <1>10, <2>1
  <1>13. ASSUME NEW p \in 0..Len(channel'), Newest(p)'
         PROVE  WholeFrom(p)'
    BY <1>2, <1>9, <1>11, <1>13
  <1> QED
    BY <1>12, <1>13 DEF Whole, Link, Follows, KeyIn

\* Every step keeps whole what is to be decoded, while no key frame is to come.
LEMMA StepWhole ==
  ASSUME Inv, NetworkJoins, Whole, [Next]_vars
  PROVE  Whole'
  <1>t. TypeOK
    BY DEF Inv
  <1>1. CASE KeyDue'
    BY <1>1 DEF Whole
  <1>2. CASE ~KeyDue'
    <2>1. CASE HandleMsgFromPeer
      <3>1. network # <<>> /\ Head(network) \in InNetwork /\ network' = Tail(network)
        BY <1>t, <2>1, Sequences, Rest DEF HandleMsgFromPeer
      <3>2. CASE IsKey(Head(network))
        BY <1>2, <2>1, <3>2, WholeAtKey
      <3>3. CASE ~IsKey(Head(network))
        <4>1. ~KeyDue
          BY <1>t, <1>2, <3>3, DueUntilTaken
        <4>2. CASE Head(network) = Reset
          <5>1. Head(network) \notin Frame
            BY <4>2, Media
          <5>2. ASSUME NEW k, Joins(0, k)
                PROVE  Joins(0, k)'
            BY <1>t, <2>1, <3>1, <5>1, <5>2, JoinsPast DEF HandleMsgFromPeer, hostVars
          <5> QED
            BY <2>1, <4>1, <4>2, <5>2, WholeKept
               DEF HandleMsgFromPeer, hostVars, threadVars, handlerVars
        <4>3. CASE Head(network) # Reset
          <5>1. Head(network) \in InQueue
            BY <3>1, <3>3, <4>3 DEF InNetwork, InQueue, IsKey
          <5> QED
            BY <1>2, <2>1, <4>1, <5>1, WholeAtPush
        <4> QED
          BY <4>2, <4>3
      <3> QED
        BY <3>2, <3>3
    <2>2. CASE ~HandleMsgFromPeer
      <3>1. ~KeyDue
        BY <1>t, <1>2, <2>2, DueUntilTaken
      <3>2. \A k : Joins(0, k) => Joins(0, k)'
        BY <1>t, <2>2, JoinsKept
      <3>3. CASE Encode \/ SwitchDisplay \/ UNCHANGED vars
        BY <3>1, <3>2, <3>3, WholeKept
           DEF Encode, SwitchDisplay, vars, hostVars, threadVars, handlerVars
      <3>4. CASE HandleMsgFromUi
        BY <3>1, <3>2, <3>4, WholeKept DEF HandleMsgFromUi, threadVars, handlerVars
      <3>5. ~(Restart \/ FpsControl \/ UseTextureRenderChanged)
        <4>1. Restart => rekey'
          BY DEF Restart
        <4>2. FpsControl \/ UseTextureRenderChanged => "refresh" \in Elements(data')
          BY <1>t, DataOfUser
        <4> QED
          BY <1>2, <4>1, <4>2 DEF KeyDue
      <3>6. CASE Pop
        BY <3>1, <3>6, WholeAtPop
      <3>7. CASE DecodeKey \/ ResetDecoder \/ Discard \/ DecodeQueued
        BY <3>1, <3>7, WholeAtThread
      <3> QED
        BY <2>2, <3>3, <3>4, <3>5, <3>6, <3>7 DEF Next, Thread
    <2> QED
      BY <2>1, <2>2
  <1> QED
    BY <1>1, <1>2

\* A key frame that is due or in the channel stays ahead until the thread decodes one.
LEMMA KeyStays ==
  ASSUME TypeOK, [Next]_vars, ~DecodeKey, KeyDue \/ KeyIn(channel)
  PROVE  KeyDue' \/ KeyIn(channel')
  <1>1. ASSUME KeyDue
        PROVE  KeyDue' \/ KeyIn(channel')
    <2>1. CASE HandleMsgFromPeer /\ IsKey(Head(network))
      BY <2>1, KeysOfPeer
    <2> QED
      BY <1>1, <2>1, DueUntilTaken
  <1>2. ASSUME KeyIn(channel)
        PROVE  KeyIn(channel')
    <2>1. CASE HandleMsgFromPeer
      BY <1>2, <2>1, KeysOfPeer
    <2>2. CASE HandleMsgFromUi
      BY <1>2, <2>2, KeysOfHost
    <2>3. CASE Pop \/ ResetDecoder
      <3>1. channel # <<>> /\ channel' = Tail(channel) /\ ~IsKey(Head(channel))
        BY <2>3, Media DEF Pop, ResetDecoder, IsKey
      <3> QED
        BY <1>2, <3>1, KeysOfThread
    <2>4. CASE UNCHANGED channel
      BY <1>2, <2>4
    <2> QED
      BY <2>1, <2>2, <2>3, <2>4
         DEF Next, Thread, Encode, Restart, SwitchDisplay, FpsControl,
             UseTextureRenderChanged, Discard, DecodeQueued, vars
  <1> QED
    BY <1>1, <1>2

\* Where no key frame is ahead, the thread is at the format of the host.
LEMMA AtCodec ==
  ASSUME TypeOK, Whole, ~KeyDue, ~KeyIn(channel)
  PROVE  decoder = codec
  <1>1. 0 \in 0..Len(channel)
    BY Sequences
  <1>2. Newest(0)
    BY DEF Newest, KeyIn
  <1> QED
    BY <1>1, <1>2 DEF Whole, WholeFrom, BaseCodec

\* Every step keeps the repair of a loss ahead: a frame of the queue that is not
\* decoded is one that follows a loss or is of a format that cannot be decoded.
LEMMA StepRepaired ==
  ASSUME TypeOK, FailureMarked, DiscardUntilKey, Whole, Repaired, [Next]_vars
  PROVE  Repaired'
  <1>1. CASE DecodeKey
    <2> DEFINE f == Head(channel)
    <2>1. channel # <<>> /\ f \in Frame /\ HandleFrame(f)
      BY <1>1 DEF DecodeKey
    <2>2. f \in InChannel
      BY <2>1, Sequences, Rest
    <2>3. f.key /\ f.codec \in Codec
      BY <2>1, <2>2, Media, FrameNumber DEF InChannel
    <2> HIDE DEF f
    <2>4. /\ decoder' = f.codec
          /\ mark_unsupported \subseteq mark_unsupported'
          /\ last' = Lost /\ FirstFrame(f) => f.codec \in mark_unsupported'
          /\ last' = Lost => f.codec \notin Decodable
      BY <2>1, <2>3, HandledFrame
    <2>5. ASSUME last' = Lost
          PROVE  f.codec \in mark_unsupported'
      <3>1. CASE FirstFrame(f)
        BY <2>4, <2>5, <3>1
      <3>2. CASE ~FirstFrame(f)
        BY <2>3, <2>4, <2>5, <3>2 DEF FirstFrame, Fresh, FailureMarked
      <3> QED
        BY <3>1, <3>2
    <2> QED
      BY <2>4, <2>5 DEF Repaired
  <1>2. CASE ~DecodeKey
    <2>1. CASE KeyDue \/ KeyIn(channel)
      BY <1>2, <2>1, KeyStays DEF Repaired, KeyIn, IsKey
    <2>2. CASE ~(KeyDue \/ KeyIn(channel))
      <3>1. CASE DecodeQueued
        <4>1. held # NoFrame /\ HandleFrame(held)
          BY <3>1 DEF DecodeQueued
        <4>2. held \in Frame /\ ~held.key /\ held.codec \in Codec
          BY <4>1, FrameNumber DEF TypeOK
        <4>3. /\ decoder' = held.codec
              /\ mark_unsupported \subseteq mark_unsupported'
              /\ last' = Lost /\ FirstFrame(held) => held.codec \in mark_unsupported'
              /\ last' = Lost => held.codec \notin Decodable \/ ~BuildsOn(held)
          BY <4>1, <4>2, HandledFrame
        <4>4. held.codec = codec /\ Link(last, held)
          BY <2>2, <4>1 DEF Whole
        <4>5. decoder = held.codec
          BY <2>2, <4>4, AtCodec
        <4>6. ASSUME last' = Lost, ~FirstFrame(held)
              PROVE  held.codec \in mark_unsupported
          <5>1. ~first_frame
            BY <4>6 DEF FirstFrame
          <5>2. CASE held.codec \notin Decodable
            BY <4>2, <4>5, <5>1, <5>2 DEF FailureMarked
          <5>3. CASE ~BuildsOn(held)
            <6>1. last = Lost
              BY <4>2, <4>4, <4>5, <5>3 DEF BuildsOn, Fresh, Link
            <6> QED
              BY <2>2, <4>5, <5>1, <6>1 DEF Repaired
          <5> QED
            BY <4>3, <4>6, <5>2, <5>3
        <4> QED
          BY <4>3, <4>6 DEF Repaired
      <3>2. CASE Discard
        BY <2>2, <3>2 DEF Discard, DiscardUntilKey, KeyDue
      <3>3. CASE ResetDecoder
        BY <3>3 DEF ResetDecoder, Repaired
      <3>4. CASE UNCHANGED <<handlerVars, mark_unsupported>>
        BY <2>2, <3>4 DEF Repaired, handlerVars
      <3> QED
        BY <1>2, <3>1, <3>2, <3>3, <3>4
           DEF Next, Thread, Encode, Restart, SwitchDisplay, HandleMsgFromPeer, HandleMsgFromUi,
               FpsControl, UseTextureRenderChanged, Pop, vars, threadVars
    <2> QED
      BY <2>1, <2>2
  <1> QED
    BY <1>1, <1>2

\* The invariant holds at the start: nothing is under way, and a key frame is due.
LEMMA InitIInv == Init => IInv
  <1> SUFFICES ASSUME Init
               PROVE  IInv
    OBVIOUS
  <1>1. rekey /\ network = <<>> /\ channel = <<>> /\ queue = <<>> /\ data = <<>>
        /\ discard = FALSE /\ first_frame = TRUE
        /\ unsupported = {} /\ mark_unsupported = {}
    BY DEF Init
  <1>2. Len(network) = 0 /\ Len(channel) = 0 /\ Len(queue) = 0
    BY <1>1, EmptySeq
  <1>3. TypeOK
    <2>1. 0 \in 0..(Ring - 1) /\ Lost \in 0..Ring
      BY Bound DEF Lost
    <2>2. /\ 0 \in 0..MaxDropped /\ 0 \in 0..MaxChanges /\ 0 \in 0..MAX_DECODE_FAIL_COUNTER
          /\ 0 <= MaxInFlight /\ 0 <= VIDEO_QUEUE_SIZE
      BY Bound, Sizes
    <2>3. \A S : <<>> \in Seq(S)
      BY EmptySeq
    <2> QED
      BY <1>1, <1>2, <2>1, <2>2, <2>3 DEF Init, TypeOK
  <1>4. TokensMatch
    <2>1. channel \in Seq(InChannel)
      BY <1>1, EmptySeq
    <2> QED
      BY <1>2, <2>1, NoneAfterLast DEF TokensMatch
  <1>5. FailureMarked /\ MarksTold /\ DiscardUntilKey
    BY <1>1 DEF FailureMarked, MarksTold, DiscardUntilKey
  <1>6. NetworkJoins
    BY <1>2 DEF NetworkJoins
  <1>7. Whole /\ Repaired
    BY <1>1 DEF Whole, Repaired, KeyDue
  <1> QED
    BY <1>3, <1>4, <1>5, <1>6, <1>7 DEF IInv, Inv

\* No step breaks it.
LEMMA StepIInv == IInv /\ [Next]_vars => IInv'
  <1> SUFFICES ASSUME IInv, [Next]_vars
               PROVE  IInv'
    OBVIOUS
  <1>1. /\ Inv /\ TypeOK /\ FailureMarked /\ MarksTold /\ DiscardUntilKey
        /\ NetworkJoins /\ Whole /\ Repaired
    BY DEF IInv, Inv
  <1>2. TypeOK'
    BY <1>1, StepTypes
  <1>3. TokensMatch'
    BY <1>1, StepTokens
  <1>4. FailureMarked' /\ MarksTold'
    BY <1>1, StepMarks
  <1>5. DiscardUntilKey'
    BY <1>1, StepDiscard
  <1>6. NetworkJoins'
    BY <1>1, StepNetwork
  <1>7. Whole'
    BY <1>1, StepWhole
  <1>8. Repaired'
    BY <1>1, StepRepaired
  <1> QED
    BY <1>2, <1>3, <1>4, <1>5, <1>6, <1>7, <1>8 DEF IInv, Inv

\* Every state the client can reach satisfies it.
THEOREM Invariance == Spec => []IInv
  BY InitIInv, StepIInv, PTL DEF Spec

\* Types, the bound of the queue, and a token in the channel for every frame in the
\* queue and no other, however long the queue and however the io loop and the thread
\* interleave.
THEOREM InvCorrect == Spec => []Inv
  <1>1. IInv => Inv
    BY DEF IInv
  <1> QED
    BY <1>1, Invariance, PTL

\* A picture that is not the one the host encoded is never left at that: a key frame
\* is on its way, or asked for, or to be asked for, or the decoder is new and will
\* ask, as long as a codec is left that this machine decodes.
THEOREM LossIsRepairedCorrect == Spec => []LossIsRepaired
  <1>1. IInv => LossIsRepaired
    <2> SUFFICES ASSUME IInv, last = Lost, ~first_frame
                 PROVE  KeyAhead \/ Decodable \subseteq mark_unsupported
      BY DEF LossIsRepaired
    <2>1. TypeOK /\ MarksTold /\ Whole /\ Repaired
      BY DEF IInv, Inv
    <2>2. CASE KeyDue
      <3>1. KeyIn(network) => \E m \in Elements(network) : m \in Frame /\ m.key
        BY KeyInElements DEF IsKey
      <3> QED
        BY <2>2, <3>1 DEF KeyDue, KeyAhead
    <2>3. CASE KeyIn(channel)
      <3>1. \E m \in Elements(channel) : m \in Frame /\ m.key
        BY <2>3, KeyInElements DEF IsKey
      <3> QED
        BY <3>1 DEF KeyAhead
    <2>4. CASE ~KeyDue /\ ~KeyIn(channel)
      <3>1. codec \in mark_unsupported
        BY <2>1, <2>4, AtCodec DEF Repaired
      <3>2. "supported" \in Elements(data) \/ asked \/ Codec = mark_unsupported
        BY <2>1, <3>1 DEF MarksTold
      <3> QED
        BY <3>2, CodecsNamed DEF KeyAhead
    <2> QED
      BY <2>2, <2>3, <2>4
  <1> QED
    BY <1>1, Invariance, PTL

-----------------------------------------------------------------------------
(* McpSession: a command and what is under way of it, as sequences.          *)

\* All that may be under way in a session.
Msgs == PieceOf(Command) \cup State \cup {Closed}
Works == LineOf(Command) \cup {Open, Close}

\* Something that is not of the command comes of it.
LEMMA OtherComes ==
  ASSUME NEW k \in Command, NEW f \in Seq(Msgs), NEW w \in Seq(Works), NEW p \in Nat,
         NEW live \in BOOLEAN, Progress(k, f, w, p, live),
         NEW m \in Msgs, ~IsOut(m, k), m # MarkOf(k)
  PROVE  Progress(k, Append(f, m), w, p, live)
  <1> DEFINE g == Append(f, m)
  <1>1. g \in Seq(Msgs) /\ Len(g) = Len(f) + 1 /\ g[Len(g)] = m
    OBVIOUS
  <1>2. \A j \in 1..Len(f) : g[j] = f[j]
    OBVIOUS
  <1>3. DOMAIN g = 1..(Len(f) + 1) /\ DOMAIN f = 1..Len(f) /\ Len(f) \in Nat
    OBVIOUS
  <1> HIDE DEF g
  <1>4. Ordered(k, g)
    BY <1>1, <1>2, <1>3 DEF Progress, Ordered
  <1>5. PutOut(k, g, w, p)
    BY <1>1, <1>2, <1>3 DEF Progress, PutOut
  <1>6. MarkIsLast(k, g, w)
    <2> SUFFICES ASSUME NEW j \in DOMAIN g, g[j] = MarkOf(k)
                 PROVE  /\ \A i \in 1..Pieces : \E h \in 1..(j - 1) : g[h] = OutOf(k, i)
                        /\ \A h \in DOMAIN g : h > j => ~IsOut(g[h], k) /\ g[h] # g[j]
                        /\ \A i \in DOMAIN w : w[i] \notin {TypeOf(k), EchoOf(k)}
      BY DEF MarkIsLast
    <2>1. j \in DOMAIN f /\ f[j] = MarkOf(k)
      BY <1>1, <1>2, <1>3
    <2>2. \A i \in 1..Pieces : \E h \in 1..(j - 1) : f[h] = OutOf(k, i)
      BY <2>1 DEF Progress, MarkIsLast
    <2>3. \A h \in DOMAIN f : h > j => ~IsOut(f[h], k) /\ f[h] # f[j]
      BY <2>1 DEF Progress, MarkIsLast
    <2>4. \A i \in DOMAIN w : w[i] \notin {TypeOf(k), EchoOf(k)}
      BY <2>1 DEF Progress, MarkIsLast
    <2>5. \A i \in 1..Pieces : \E h \in 1..(j - 1) : g[h] = OutOf(k, i)
      BY <2>1, <2>2, <1>2, <1>3
    <2>6. ASSUME NEW h \in DOMAIN g, h > j
          PROVE  ~IsOut(g[h], k) /\ g[h] # g[j]
      BY <2>1, <2>3, <2>6, <1>1, <1>2, <1>3
    <2> QED
      BY <2>4, <2>5, <2>6
  <1>7. ASSUME live
        PROVE  NothingMissing(k, g, w, p)
    <2>1. NothingMissing(k, f, w, p)
      BY <1>7 DEF Progress
    <2>2. ASSUME NEW i, \E j \in DOMAIN f : f[j] = OutOf(k, i)
          PROVE  \E j \in DOMAIN g : g[j] = OutOf(k, i)
      BY <2>2, <1>2, <1>3
    <2> QED
      BY <2>1, <2>2 DEF NothingMissing, AllOut
  <1> QED
    BY <1>4, <1>5, <1>6, <1>7 DEF Progress, g

\* What is typed and put out has these names.
LEMMA Names ==
  ASSUME NEW k, NEW i, NEW n
  PROVE  /\ IsOut(OutOf(k, i), k) /\ OutOf(n, i)[3] = i /\ (IsOut(OutOf(n, i), k) => n = k)
         /\ OutOf(n, i) # MarkOf(k) /\ ~IsOut(MarkOf(n), k)
         /\ TypeOf(n) # EchoOf(k) /\ (TypeOf(n) = TypeOf(k) => n = k)
         /\ (EchoOf(n) = EchoOf(k) => n = k) /\ (MarkOf(n) = MarkOf(k) => n = k)
  BY DEF IsOut, OutOf, MarkOf, TypeOf, EchoOf

\* The outs of a sequence of messages are numbered.
LEMMA OutNumber ==
  ASSUME NEW k, NEW f \in Seq(Msgs), NEW j \in DOMAIN f, IsOut(f[j], k)
  PROVE  f[j][3] \in 1..Pieces
  <1>1. f[j] \in Msgs
    OBVIOUS
  <1> QED
    BY <1>1 DEF IsOut, Msgs, PieceOf, State, Closed

\* The first line of the shell is taken off ...
LEMMA LineTaken ==
  ASSUME NEW w \in Seq(Works), w # <<>>
  PROVE  /\ Tail(w) \in Seq(Works)
         /\ Len(w) \in Nat /\ DOMAIN w = 1..Len(w) /\ 1 \in DOMAIN w
         /\ DOMAIN Tail(w) = 1..(Len(w) - 1)
         /\ \A i \in DOMAIN Tail(w) : i + 1 \in DOMAIN w /\ Tail(w)[i] = w[i + 1]
         /\ w[1] = Head(w)
  OBVIOUS

\* ... and what is left of it is in order.
LEMMA WorkTail ==
  ASSUME NEW k \in Command, NEW w \in Seq(Works), w # <<>>, WorkOnce(k, w)
  PROVE  /\ WorkOnce(k, Tail(w))
         /\ \A i \in DOMAIN Tail(w) : w[1] \in {TypeOf(k), EchoOf(k)} => Tail(w)[i] # w[1]
         /\ w[1] = EchoOf(k) => \A i \in DOMAIN Tail(w) : Tail(w)[i] # TypeOf(k)
         /\ \A i \in DOMAIN Tail(w) : \E j \in DOMAIN w : w[j] = Tail(w)[i] /\ j > 1
  <1> DEFINE t == Tail(w)
  <1>1. /\ Len(w) \in Nat /\ DOMAIN w = 1..Len(w) /\ 1 \in DOMAIN w
        /\ DOMAIN t = 1..(Len(w) - 1)
        /\ \A i \in DOMAIN t : i + 1 \in DOMAIN w /\ t[i] = w[i + 1]
    BY LineTaken
  <1> HIDE DEF t
  <1>2. ASSUME NEW i \in DOMAIN t, NEW j \in DOMAIN t, t[i] = t[j], t[i] \in {TypeOf(k), EchoOf(k)}
        PROVE  i = j
    <2>1. i + 1 = j + 1
      BY <1>1, <1>2 DEF WorkOnce
    <2> QED
      BY <2>1, <1>1
  <1>3. ASSUME NEW i \in DOMAIN t, NEW j \in DOMAIN t, t[i] = TypeOf(k), t[j] = EchoOf(k)
        PROVE  i < j
    <2>1. i + 1 < j + 1
      BY <1>1, <1>3 DEF WorkOnce
    <2> QED
      BY <2>1, <1>1
  <1>4. ASSUME NEW i \in DOMAIN t, w[1] \in {TypeOf(k), EchoOf(k)}
        PROVE  t[i] # w[1]
    <2>1. w[i + 1] = w[1] => i + 1 = 1
      BY <1>1, <1>4 DEF WorkOnce
    <2> QED
      BY <2>1, <1>1
  <1>5. ASSUME w[1] = EchoOf(k), NEW i \in DOMAIN t
        PROVE  t[i] # TypeOf(k)
    <2>1. w[i + 1] = TypeOf(k) => i + 1 < 1
      BY <1>1, <1>5 DEF WorkOnce
    <2> QED
      BY <2>1, <1>1
  <1>6. \A i \in DOMAIN t : \E j \in DOMAIN w : w[j] = t[i] /\ j > 1
    <2>1. \A i \in DOMAIN t : w[i + 1] = t[i] /\ i + 1 > 1
      BY <1>1
    <2> QED
      BY <2>1, <1>1
  <1>7. WorkOnce(k, t)
    BY <1>2, <1>3 DEF WorkOnce
  <1> QED
    BY <1>4, <1>5, <1>6, <1>7 DEF t

\* The shell puts out the next piece of the command it is at.
LEMMA OutComes ==
  ASSUME NEW k \in Command, NEW n \in Command,
         NEW f \in Seq(Msgs), NEW w \in Seq(Works), NEW p \in Nat,
         w # <<>>, w[1] = TypeOf(n), p < Pieces, Progress(k, f, w, p, TRUE)
  PROVE  Progress(k, Append(f, OutOf(n, p + 1)), w, p + 1, TRUE)
  <1> DEFINE m == OutOf(n, p + 1)
             g == Append(f, m)
  <1>0. m \in Msgs /\ Pieces \in Nat
    BY McpBounds DEF Msgs, PieceOf, OutOf
  <1>1. g \in Seq(Msgs) /\ Len(g) = Len(f) + 1 /\ g[Len(g)] = m
    BY <1>0
  <1>2. \A j \in 1..Len(f) : g[j] = f[j]
    BY <1>0
  <1>3. DOMAIN g = 1..(Len(f) + 1) /\ DOMAIN f = 1..Len(f) /\ Len(f) \in Nat
    BY <1>0
  <1>w. Len(w) \in Nat /\ DOMAIN w = 1..Len(w) /\ 1 \in DOMAIN w
    BY LineTaken
  <1>m. /\ IsOut(m, k) => n = k
        /\ m[3] = p + 1 /\ m # MarkOf(k)
    BY Names
  <1> HIDE DEF g, m
  <1>n. ASSUME n # k
        PROVE  Progress(k, g, w, p + 1, TRUE)
    <2>1. ~IsOut(m, k)
      BY <1>m, <1>n
    <2>2. Progress(k, g, w, p, TRUE)
      BY <2>1, <1>0, <1>m, OtherComes DEF g
    <2>3. w[1] # TypeOf(k)
      BY <1>n, Names
    <2>4. PutOut(k, g, w, p + 1)
      BY <2>2, <2>3 DEF Progress, PutOut
    <2>5. NothingMissing(k, g, w, p + 1)
      BY <2>2, <2>3 DEF Progress, NothingMissing
    <2> QED
      BY <2>2, <2>4, <2>5 DEF Progress
  <1>k. ASSUME n = k
        PROVE  Progress(k, g, w, p + 1, TRUE)
    <2>1. \A j \in DOMAIN f : IsOut(f[j], k) => f[j][3] <= p /\ f[j][3] \in 1..Pieces
      <3>1. \A j \in DOMAIN f : IsOut(f[j], k) => f[j][3] <= p
        BY <1>k, <1>w DEF Progress, PutOut
      <3> QED
        BY <3>1, OutNumber
    <2>2. \A j \in DOMAIN f : f[j] # MarkOf(k)
      BY <1>k, <1>w DEF Progress, MarkIsLast
    <2>3. \A i \in DOMAIN w : w[i] = TypeOf(k) => i = 1
      BY <1>k, <1>w DEF Progress, WorkOnce
    <2>4. Ordered(k, g)
      <3> SUFFICES ASSUME NEW i \in DOMAIN g, NEW j \in DOMAIN g, i < j,
                          IsOut(g[i], k), IsOut(g[j], k)
                   PROVE  g[i][3] < g[j][3]
        BY DEF Ordered
      <3>1. i \in DOMAIN f /\ g[i] = f[i]
        BY <1>2, <1>3
      <3>2. CASE j \in DOMAIN f
        BY <3>1, <3>2, <1>2, <1>3 DEF Progress, Ordered
      <3>3. CASE j = Len(g)
        <4>1. g[j][3] = p + 1
          BY <3>3, <1>1, <1>m
        <4>2. g[i][3] <= p /\ g[i][3] \in 1..Pieces
          BY <3>1, <2>1
        <4> QED
          BY <4>1, <4>2, <1>0
      <3> QED
        BY <3>2, <3>3, <1>1, <1>3
    <2>5. PutOut(k, g, w, p + 1)
      <3> SUFFICES ASSUME NEW i \in DOMAIN w, NEW j \in DOMAIN g, w[i] = TypeOf(k), IsOut(g[j], k)
                   PROVE  i = 1 /\ g[j][3] <= p + 1
        BY DEF PutOut
      <3>1. i = 1
        BY <2>3
      <3>2. CASE j \in DOMAIN f
        <4>1. g[j][3] <= p /\ g[j][3] \in 1..Pieces
          BY <3>2, <2>1, <1>2, <1>3
        <4> QED
          BY <3>1, <4>1, <1>0
      <3>3. CASE j = Len(g)
        BY <3>1, <3>3, <1>1, <1>m
      <3> QED
        BY <3>2, <3>3, <1>1, <1>3
    <2>6. MarkIsLast(k, g, w)
      <3>1. \A j \in DOMAIN g : g[j] # MarkOf(k)
        BY <2>2, <1>1, <1>2, <1>3, <1>m
      <3> QED
        BY <3>1 DEF MarkIsLast
    <2>7. NothingMissing(k, g, w, p + 1)
      <3>1. \A i \in 1..p : \E j \in DOMAIN f : f[j] = OutOf(k, i)
        BY <1>k DEF Progress, NothingMissing
      <3>2. \A i \in 1..p : \E j \in DOMAIN g : g[j] = OutOf(k, i)
        BY <3>1, <1>2, <1>3
      <3>3. \E j \in DOMAIN g : g[j] = OutOf(k, p + 1)
        BY <1>1, <1>3, <1>k DEF m
      <3>4. \A i \in 1..(p + 1) : \E j \in DOMAIN g : g[j] = OutOf(k, i)
        BY <3>2, <3>3
      <3> QED
        BY <3>4, <1>k, <1>w DEF NothingMissing
    <2> QED
      BY <2>4, <2>5, <2>6, <2>7 DEF Progress
  <1> QED
    BY <1>n, <1>k DEF g, m

\* The shell is done with a command, which has put out all of it, or with the
\* echo of a sentinel that is not seen.
LEMMA LineDone ==
  ASSUME NEW k \in Command, NEW n \in Command,
         NEW f \in Seq(Msgs), NEW w \in Seq(Works), NEW p \in Nat,
         w # <<>>, (w[1] = TypeOf(n) /\ p >= Pieces) \/ w[1] = EchoOf(n),
         Progress(k, f, w, p, TRUE)
  PROVE  Progress(k, f, Tail(w), 0, TRUE)
  <1> DEFINE t == Tail(w)
  <1>0. Pieces \in Nat
    BY McpBounds
  <1>1. /\ WorkOnce(k, t)
        /\ \A i \in DOMAIN t : w[1] \in {TypeOf(k), EchoOf(k)} => t[i] # w[1]
        /\ \A i \in DOMAIN t : \E j \in DOMAIN w : w[j] = t[i] /\ j > 1
    BY WorkTail DEF Progress
  <1>w. Len(w) \in Nat /\ DOMAIN w = 1..Len(w) /\ 1 \in DOMAIN w
    BY LineTaken
  <1> HIDE DEF t
  <1>2. PutOut(k, f, t, 0)
    <2> SUFFICES ASSUME NEW i \in DOMAIN t, NEW j \in DOMAIN f, t[i] = TypeOf(k), IsOut(f[j], k)
                 PROVE  FALSE
      BY DEF PutOut
    <2>1. PICK h \in DOMAIN w : w[h] = TypeOf(k) /\ h > 1
      BY <1>1
    <2>2. h = 1
      BY <2>1 DEF Progress, PutOut
    <2> QED
      BY <2>1, <2>2
  <1>3. MarkIsLast(k, f, t)
    <2>1. \A j \in DOMAIN f : f[j] = MarkOf(k) => \A i \in DOMAIN t : t[i] \notin {TypeOf(k), EchoOf(k)}
      BY <1>1 DEF Progress, MarkIsLast
    <2> QED
      BY <2>1 DEF Progress, MarkIsLast
  <1>4. ASSUME \A i \in DOMAIN t : t[i] # TypeOf(k)
        PROVE  AllOut(k, f)
    <2>1. CASE n = k /\ w[1] = TypeOf(n) /\ p >= Pieces
      <3>1. \A i \in 1..p : \E j \in DOMAIN f : f[j] = OutOf(k, i)
        BY <2>1 DEF Progress, NothingMissing
      <3>2. \A i \in 1..Pieces : i \in 1..p
        BY <1>0, <2>1
      <3> QED
        BY <3>1, <3>2 DEF AllOut
    <2>2. CASE n # k \/ w[1] = EchoOf(n)
      <3>1. w[1] # TypeOf(k)
        BY <2>2, Names
      <3>2. \A i \in DOMAIN w : i # 1 => \E h \in DOMAIN t : t[h] = w[i]
        <4>1. \A i \in DOMAIN w : i # 1 => (i - 1) \in DOMAIN t /\ t[i - 1] = w[i]
          BY LineTaken, <1>w DEF t
        <4> QED
          BY <4>1
      <3>3. \A i \in DOMAIN w : w[i] # TypeOf(k)
        BY <3>1, <3>2, <1>4
      <3> QED
        BY <3>3 DEF Progress, NothingMissing
    <2> QED
      BY <2>1, <2>2
  <1>5. NothingMissing(k, f, t, 0)
    BY <1>4 DEF NothingMissing
  <1> QED
    BY <1>1, <1>2, <1>3, <1>5 DEF Progress, t

\* The shell comes to a sentinel.
LEMMA MarkComes ==
  ASSUME NEW k \in Command, NEW n \in Command,
         NEW f \in Seq(Msgs), NEW w \in Seq(Works), NEW p \in Nat,
         w # <<>>, w[1] = EchoOf(n), Progress(k, f, w, p, TRUE)
  PROVE  Progress(k, Append(f, MarkOf(n)), Tail(w), 0, TRUE)
  <1> DEFINE m == MarkOf(n)
             g == Append(f, m)
             t == Tail(w)
  <1>0. m \in Msgs
    BY DEF Msgs, PieceOf, MarkOf
  <1>1. g \in Seq(Msgs) /\ Len(g) = Len(f) + 1 /\ g[Len(g)] = m
    BY <1>0
  <1>2. \A j \in 1..Len(f) : g[j] = f[j]
    BY <1>0
  <1>3. DOMAIN g = 1..(Len(f) + 1) /\ DOMAIN f = 1..Len(f) /\ Len(f) \in Nat
    BY <1>0
  <1>w. Len(w) \in Nat /\ DOMAIN w = 1..Len(w) /\ 1 \in DOMAIN w
    BY LineTaken
  <1>t. /\ WorkOnce(k, t)
        /\ \A i \in DOMAIN t : w[1] \in {TypeOf(k), EchoOf(k)} => t[i] # w[1]
        /\ w[1] = EchoOf(k) => \A i \in DOMAIN t : t[i] # TypeOf(k)
        /\ \A i \in DOMAIN t : \E j \in DOMAIN w : w[j] = t[i] /\ j > 1
    BY WorkTail DEF Progress
  <1>d. \A i \in DOMAIN w : i # 1 => \E h \in DOMAIN t : t[h] = w[i]
    <2>1. \A i \in DOMAIN w : i # 1 => (i - 1) \in DOMAIN t /\ t[i - 1] = w[i]
      BY LineTaken, <1>w
    <2> QED
      BY <2>1
  <1>m. ~IsOut(m, k) /\ (m = MarkOf(k) => n = k) /\ w[1] # TypeOf(k)
    BY Names
  <1> HIDE DEF g, m, t
  <1>4. Ordered(k, g)
    BY <1>1, <1>2, <1>3, <1>m DEF Progress, Ordered
  <1>5. PutOut(k, g, t, 0)
    <2> SUFFICES ASSUME NEW i \in DOMAIN t, NEW j \in DOMAIN g, t[i] = TypeOf(k), IsOut(g[j], k)
                 PROVE  FALSE
      BY DEF PutOut
    <2>1. PICK h \in DOMAIN w : w[h] = TypeOf(k) /\ h > 1
      BY <1>t
    <2>2. j \in DOMAIN f /\ IsOut(f[j], k)
      BY <1>1, <1>2, <1>3, <1>m
    <2>3. h = 1
      BY <2>1, <2>2 DEF Progress, PutOut
    <2> QED
      BY <2>1, <2>3
  <1>6. \A i \in DOMAIN w : w[i] = TypeOf(k) => \E h \in DOMAIN t : t[h] = TypeOf(k)
    BY <1>d, <1>m
  <1>7. (\A i \in DOMAIN t : t[i] # TypeOf(k)) => AllOut(k, f)
    BY <1>6 DEF Progress, NothingMissing
  <1>8. ASSUME AllOut(k, f)
        PROVE  AllOut(k, g)
    BY <1>8, <1>2, <1>3 DEF AllOut
  <1>9. MarkIsLast(k, g, t)
    <2> SUFFICES ASSUME NEW j \in DOMAIN g, g[j] = MarkOf(k)
                 PROVE  /\ \A i \in 1..Pieces : \E h \in 1..(j - 1) : g[h] = OutOf(k, i)
                        /\ \A h \in DOMAIN g : h > j => ~IsOut(g[h], k) /\ g[h] # g[j]
                        /\ \A i \in DOMAIN t : t[i] \notin {TypeOf(k), EchoOf(k)}
      BY DEF MarkIsLast
    <2>1. CASE j \in DOMAIN f
      <3>1. f[j] = MarkOf(k)
        BY <2>1, <1>2, <1>3
      <3>2. \A i \in 1..Pieces : \E h \in 1..(j - 1) : f[h] = OutOf(k, i)
        BY <2>1, <3>1 DEF Progress, MarkIsLast
      <3>3. \A h \in DOMAIN f : h > j => ~IsOut(f[h], k) /\ f[h] # f[j]
        BY <2>1, <3>1 DEF Progress, MarkIsLast
      <3>4. \A i \in DOMAIN w : w[i] \notin {TypeOf(k), EchoOf(k)}
        BY <2>1, <3>1 DEF Progress, MarkIsLast
      <3>5. m # MarkOf(k)
        BY <3>4, <1>w, <1>m
      <3>6. \A i \in 1..Pieces : \E h \in 1..(j - 1) : g[h] = OutOf(k, i)
        BY <2>1, <3>2, <1>2, <1>3
      <3>7. ASSUME NEW h \in DOMAIN g, h > j
            PROVE  ~IsOut(g[h], k) /\ g[h] # g[j]
        BY <2>1, <3>1, <3>3, <3>5, <3>7, <1>1, <1>2, <1>3, <1>m
      <3>8. \A i \in DOMAIN t : t[i] \notin {TypeOf(k), EchoOf(k)}
        BY <3>4, <1>t
      <3> QED
        BY <3>6, <3>7, <3>8
    <2>2. CASE j = Len(g)
      <3>1. n = k
        BY <2>2, <1>1, <1>m
      <3>2. \A i \in DOMAIN t : t[i] \notin {TypeOf(k), EchoOf(k)}
        BY <3>1, <1>t
      <3>3. AllOut(k, f)
        BY <3>2, <1>7
      <3>4. \A i \in 1..Pieces : \E h \in 1..(j - 1) : g[h] = OutOf(k, i)
        BY <3>3, <2>2, <1>1, <1>2, <1>3 DEF AllOut
      <3>5. \A h \in DOMAIN g : ~(h > j)
        BY <2>2, <1>1, <1>3
      <3> QED
        BY <3>2, <3>4, <3>5
    <2> QED
      BY <2>1, <2>2, <1>1, <1>3
  <1>10. NothingMissing(k, g, t, 0)
    BY <1>7, <1>8 DEF NothingMissing
  <1> QED
    BY <1>t, <1>4, <1>5, <1>9, <1>10 DEF Progress, g, m, t

\* What is under way is cut off, or the shell has ended and leaves out what came
\* before: f becomes a beginning of f, and of w only some lines in a row are left.
Beginning(g, f) == Len(g) <= Len(f) /\ \A j \in 1..Len(g) : g[j] = f[j]
Part(v, w, n) == Len(v) + n <= Len(w) /\ \A i \in 1..Len(v) : v[i] = w[i + n]
Restarted(n, p, q) == (q = p \/ (q = 0 /\ (n > 0 \/ p = 0))) /\ (n = 0 \/ q = 0)

\* What is left of a command, however it is cut off, is in order, but no longer
\* all there.
LEMMA Cut ==
  ASSUME NEW k \in Command, NEW f \in Seq(Msgs), NEW w \in Seq(Works), NEW p \in Nat,
         NEW live \in BOOLEAN, Progress(k, f, w, p, live),
         NEW g \in Seq(Msgs), Beginning(g, f),
         NEW v \in Seq(Works), NEW n \in Nat, Part(v, w, n),
         NEW q \in Nat, Restarted(n, p, q)
  PROVE  Progress(k, g, v, q, FALSE)
  <1>1. /\ DOMAIN g = 1..Len(g) /\ Len(g) \in Nat /\ DOMAIN f = 1..Len(f) /\ Len(f) \in Nat
        /\ DOMAIN v = 1..Len(v) /\ Len(v) \in Nat /\ DOMAIN w = 1..Len(w) /\ Len(w) \in Nat
    OBVIOUS
  <1>2. \A j \in DOMAIN g : j \in DOMAIN f /\ g[j] = f[j]
    BY <1>1 DEF Beginning
  <1>3. \A i \in DOMAIN v : i + n \in DOMAIN w /\ v[i] = w[i + n]
    BY <1>1 DEF Part
  <1>r. (q = p \/ (q = 0 /\ (n > 0 \/ p = 0))) /\ (n = 0 \/ q = 0)
    BY DEF Restarted
  <1>4. Ordered(k, g)
    BY <1>2 DEF Progress, Ordered
  <1>5. WorkOnce(k, v)
    <2>1. ASSUME NEW i \in DOMAIN v, NEW j \in DOMAIN v, v[i] = v[j], v[i] \in {TypeOf(k), EchoOf(k)}
          PROVE  i = j
      <3>1. i + n = j + n
        BY <1>3, <2>1 DEF Progress, WorkOnce
      <3> QED
        BY <3>1, <1>1
    <2>2. ASSUME NEW i \in DOMAIN v, NEW j \in DOMAIN v, v[i] = TypeOf(k), v[j] = EchoOf(k)
          PROVE  i < j
      <3>1. i + n < j + n
        BY <1>3, <2>2 DEF Progress, WorkOnce
      <3> QED
        BY <3>1, <1>1
    <2> QED
      BY <2>1, <2>2 DEF WorkOnce
  <1>6. PutOut(k, g, v, q)
    <2> SUFFICES ASSUME NEW i \in DOMAIN v, NEW j \in DOMAIN g, v[i] = TypeOf(k), IsOut(g[j], k)
                 PROVE  i = 1 /\ g[j][3] <= q
      BY DEF PutOut
    <2>1. i + n = 1 /\ f[j][3] <= p
      BY <1>2, <1>3 DEF Progress, PutOut
    <2>2. i = 1 /\ n = 0
      BY <2>1, <1>1
    <2>3. f[j][3] \in 1..Pieces
      BY <1>2, OutNumber
    <2>4. Pieces \in Nat
      BY McpBounds
    <2>5. p # 0
      BY <2>1, <2>3, <2>4
    <2> QED
      BY <2>1, <2>2, <2>5, <1>2, <1>r
  <1>7. MarkIsLast(k, g, v)
    <2> SUFFICES ASSUME NEW j \in DOMAIN g, g[j] = MarkOf(k)
                 PROVE  /\ \A i \in 1..Pieces : \E h \in 1..(j - 1) : g[h] = OutOf(k, i)
                        /\ \A h \in DOMAIN g : h > j => ~IsOut(g[h], k) /\ g[h] # g[j]
                        /\ \A i \in DOMAIN v : v[i] \notin {TypeOf(k), EchoOf(k)}
      BY DEF MarkIsLast
    <2>1. j \in DOMAIN f /\ f[j] = MarkOf(k)
      BY <1>2
    <2>2. \A i \in 1..Pieces : \E h \in 1..(j - 1) : f[h] = OutOf(k, i)
      BY <2>1 DEF Progress, MarkIsLast
    <2>3. \A h \in DOMAIN f : h > j => ~IsOut(f[h], k) /\ f[h] # f[j]
      BY <2>1 DEF Progress, MarkIsLast
    <2>4. \A i \in DOMAIN w : w[i] \notin {TypeOf(k), EchoOf(k)}
      BY <2>1 DEF Progress, MarkIsLast
    <2>5. \A i \in 1..Pieces : \E h \in 1..(j - 1) : g[h] = OutOf(k, i)
      <3>1. \A h \in 1..(j - 1) : h \in DOMAIN g
        BY <1>1
      <3> QED
        BY <2>2, <3>1, <1>2
    <2>6. \A h \in DOMAIN g : h > j => ~IsOut(g[h], k) /\ g[h] # g[j]
      BY <2>3, <1>2
    <2>7. \A i \in DOMAIN v : v[i] \notin {TypeOf(k), EchoOf(k)}
      BY <2>4, <1>3
    <2> QED
      BY <2>5, <2>6, <2>7
  <1> QED
    BY <1>4, <1>5, <1>6, <1>7 DEF Progress

\* A command is typed in a session in which nothing of it is under way ...
LEMMA TypeBegins ==
  ASSUME NEW k \in Command, NEW f \in Seq(Msgs), NEW w \in Seq(Works), NEW p \in Nat,
         NEW live \in BOOLEAN,
         \A j \in DOMAIN f : ~IsOut(f[j], k) /\ f[j] # MarkOf(k),
         \A i \in DOMAIN w : w[i] \notin {TypeOf(k), EchoOf(k)},
         w = <<>> => p = 0
  PROVE  /\ Progress(k, f, Append(w, TypeOf(k)), p, live)
         /\ Unmarked(k, f, Append(w, TypeOf(k)))
  <1> DEFINE l == TypeOf(k)
             v == Append(w, l)
  <1>0. l \in Works /\ l # EchoOf(k)
    BY Names DEF Works, LineOf, TypeOf
  <1>1. v \in Seq(Works) /\ Len(v) = Len(w) + 1 /\ v[Len(v)] = l
    BY <1>0
  <1>2. \A i \in 1..Len(w) : v[i] = w[i]
    BY <1>0
  <1>3. /\ DOMAIN v = 1..(Len(w) + 1) /\ DOMAIN w = 1..Len(w) /\ Len(w) \in Nat
        /\ w = <<>> <=> Len(w) = 0
    BY <1>0
  <1>l. l = TypeOf(k)
    OBVIOUS
  <1> HIDE DEF v, l
  <1>4. \A i \in DOMAIN v : v[i] = TypeOf(k) => i = Len(v)
    BY <1>1, <1>2, <1>3
  <1>5. \A i \in DOMAIN v : v[i] # EchoOf(k)
    BY <1>0, <1>1, <1>2, <1>3
  <1>6. WorkOnce(k, v)
    BY <1>4, <1>5 DEF WorkOnce
  <1>7. Ordered(k, f) /\ PutOut(k, f, v, p) /\ MarkIsLast(k, f, v)
    BY DEF Ordered, PutOut, MarkIsLast
  <1>8. NothingMissing(k, f, v, p)
    <2>1. \E i \in DOMAIN v : v[i] = TypeOf(k)
      BY <1>1, <1>3, <1>l
    <2>2. v[1] = TypeOf(k) => p = 0
      BY <1>1, <1>3, <1>4
    <2> QED
      BY <2>1, <2>2 DEF NothingMissing
  <1> QED
    BY <1>5, <1>6, <1>7, <1>8 DEF Progress, Unmarked, v, l

\* ... and the sentinel after it.
LEMMA EchoFollows ==
  ASSUME NEW k \in Command, NEW f \in Seq(Msgs), NEW w \in Seq(Works), NEW p \in Nat,
         NEW live \in BOOLEAN, Progress(k, f, w, p, live), Unmarked(k, f, w)
  PROVE  Progress(k, f, Append(w, EchoOf(k)), p, live)
  <1> DEFINE l == EchoOf(k)
             v == Append(w, l)
  <1>0. l \in Works /\ l # TypeOf(k)
    BY Names DEF Works, LineOf, EchoOf
  <1>1. v \in Seq(Works) /\ Len(v) = Len(w) + 1 /\ v[Len(v)] = l
    BY <1>0
  <1>2. \A i \in 1..Len(w) : v[i] = w[i]
    BY <1>0
  <1>3. /\ DOMAIN v = 1..(Len(w) + 1) /\ DOMAIN w = 1..Len(w) /\ Len(w) \in Nat
        /\ w = <<>> <=> Len(w) = 0
    BY <1>0
  <1>l. l = EchoOf(k)
    OBVIOUS
  <1> HIDE DEF v, l
  <1>4. \A i \in DOMAIN v : v[i] = EchoOf(k) => i = Len(v)
    BY <1>1, <1>2, <1>3 DEF Unmarked
  <1>5. \A i \in DOMAIN v : v[i] = TypeOf(k) => i \in DOMAIN w /\ w[i] = TypeOf(k)
    BY <1>0, <1>1, <1>2, <1>3
  <1>6. WorkOnce(k, v)
    <2>1. ASSUME NEW i \in DOMAIN v, NEW j \in DOMAIN v, v[i] = v[j], v[i] \in {TypeOf(k), EchoOf(k)}
          PROVE  i = j
      <3>1. CASE v[i] = EchoOf(k)
        BY <2>1, <3>1, <1>4
      <3>2. CASE v[i] = TypeOf(k)
        BY <2>1, <3>2, <1>5 DEF Progress, WorkOnce
      <3> QED
        BY <2>1, <3>1, <3>2
    <2>2. ASSUME NEW i \in DOMAIN v, NEW j \in DOMAIN v, v[i] = TypeOf(k), v[j] = EchoOf(k)
          PROVE  i < j
      BY <2>2, <1>1, <1>3, <1>4, <1>5
    <2> QED
      BY <2>1, <2>2 DEF WorkOnce
  <1>7. Ordered(k, f) /\ PutOut(k, f, v, p)
    BY <1>5 DEF Progress, Ordered, PutOut
  <1>8. MarkIsLast(k, f, v)
    BY DEF MarkIsLast, Unmarked
  <1>9. ASSUME live
        PROVE  NothingMissing(k, f, v, p)
    <2>1. ASSUME \A i \in DOMAIN v : v[i] # TypeOf(k)
          PROVE  AllOut(k, f)
      <3>1. \A i \in DOMAIN w : w[i] # TypeOf(k)
        BY <2>1, <1>2, <1>3
      <3> QED
        BY <3>1, <1>9 DEF Progress, NothingMissing
    <2>2. v[1] = TypeOf(k) => w # <<>> /\ w[1] = TypeOf(k)
      BY <1>0, <1>1, <1>2, <1>3
    <2> QED
      BY <2>1, <2>2, <1>9 DEF Progress, NothingMissing
  <1> QED
    BY <1>6, <1>7, <1>8, <1>9 DEF Progress, v, l

\* What a line or a message is.
LEMMA Kinds ==
  ASSUME NEW K \in SUBSET Command
  PROVE  /\ \A l \in LineOf(K) : l[1] \in {"type", "echo"} /\ l[2] \in K
         /\ \A l \in LineOf(K) : (l[1] = "type" => l = TypeOf(l[2])) /\ (l[1] = "echo" => l = EchoOf(l[2]))
         /\ Open[1] = "open" /\ Close[1] = "close" /\ Closed[1] = "closed"
         /\ \A m \in PieceOf(K) : m[1] \in {"out", "mark"}
         /\ \A m \in State : m[1] \in {"opened", "failed"}
         /\ \A k \in K : TypeOf(k) \in LineOf(K) /\ EchoOf(k) \in LineOf(K) /\ MarkOf(k) \in PieceOf(K)
         /\ \A k \in K, i \in 1..Pieces : OutOf(k, i) \in PieceOf(K)
         /\ <<"opened", 0, 0>> \in State /\ <<"failed", 0, 0>> \in State
         /\ Open \notin LineOf(K) /\ Close \notin LineOf(K) /\ Open # Close
  BY DEF LineOf, PieceOf, State, Open, Close, Closed, TypeOf, EchoOf, MarkOf, OutOf

\* A message is put into a channel ...
LEMMA PutChannel ==
  ASSUME NEW S, NEW C, NEW ch, NEW s \in C, NEW t \in C, DOMAIN ch = C,
         ch[t] \in Seq(S), NEW m, t = s => m \in S
  PROVE  /\ Put(ch, s, m)[t] \in Seq(S)
         /\ t # s => Put(ch, s, m)[t] = ch[t]
         /\ Put(ch, s, m)[s] = Append(ch[s], m)
  BY DEF Put

\* ... or taken out of it.
LEMMA TakenOut ==
  ASSUME NEW S, NEW C, NEW ch, NEW s \in C, NEW t \in C, DOMAIN ch = C,
         ch[t] \in Seq(S), ch[s] # <<>>
  PROVE  /\ Take(ch, s)[t] \in Seq(S)
         /\ t # s => Take(ch, s)[t] = ch[t]
         /\ Take(ch, s)[s] = Tail(ch[s])
  BY DEF Take

\* Channels of larger sets.
LEMMA OnlyOfMore ==
  ASSUME NEW s, NEW K, NEW L, K \subseteq L, OnlyOf(s, K)
  PROVE  OnlyOf(s, L)
  <1>1. LineOf(K) \subseteq LineOf(L) /\ PieceOf(K) \subseteq PieceOf(L)
    BY DEF LineOf, PieceOf
  <1> QED
    BY <1>1 DEF OnlyOf

\* Lines, pieces and channels stay of the commands they are of, whatever happens,
\* but for a line that is sent.
LEMMA OnlyOfStep ==
  ASSUME ToolsTypeOK, Requests, [ToolsNext]_toolsVars,
         NEW K \in SUBSET Command, NEW t \in Session, OnlyOf(t, K),
         SendLine /\ t = cur => cmd \in K
  PROVE  OnlyOf(t, K)'
  <1> DEFINE S == PieceOf(K) \cup State
             W == S \cup {Closed}
             L == LineOf(K)
             C == L \cup {Open, Close}
  <1>1. /\ cmds[t] \in Seq(C) /\ output[t] \in Seq(S) /\ wire[t] \in Seq(W) /\ lines[t] \in Seq(L)
    BY DEF OnlyOf
  <1>2. /\ DOMAIN cmds = Session /\ DOMAIN output = Session
        /\ DOMAIN wire = Session /\ DOMAIN lines = Session
    BY DEF ToolsTypeOK
  <1>3. S \subseteq W /\ L \subseteq C /\ Open \in C /\ Close \in C /\ Closed \in W
    OBVIOUS
  <1>4. <<"opened", 0, 0>> \in W /\ <<"failed", 0, 0>> \in W
    BY Kinds
  <1>5. /\ \A c \in C : c[1] # "open" /\ c[1] # "close" => c \in L
        /\ \A l \in L : l[2] \in K
        /\ \A m \in W : m[1] # "closed" => m \in S
    BY Kinds
  <1>6. \A k \in K : MarkOf(k) \in W /\ \A i \in 1..Pieces : OutOf(k, i) \in W
    BY Kinds
  <1>7. \A k \in K : TypeOf(k) \in C /\ EchoOf(k) \in C
    BY Kinds
  <1>8. Pieces \in Nat /\ progress[t] \in 0..Pieces
    BY McpBounds DEF ToolsTypeOK
  <1>q. SUFFICES ASSUME TRUE
                 PROVE  /\ cmds'[t] \in Seq(C) /\ output'[t] \in Seq(S)
                        /\ wire'[t] \in Seq(W) /\ lines'[t] \in Seq(L)
    BY DEF OnlyOf
  <1>e. <<>> \in Seq(C) /\ <<>> \in Seq(S) /\ <<>> \in Seq(W) /\ <<>> \in Seq(L)
    OBVIOUS
  <1> HIDE DEF S, W, L, C
  <1>10. CASE Opening
    <2>1. cur \in Session
      BY <1>10 DEF Opening, Requests
    <2>2. UNCHANGED <<cmds, wire, lines>>
      BY <1>10 DEF Opening, terminalVars
    <2>3. output'[t] = output[t] \/ output'[t] = <<>> \/ (output[cur] # <<>> /\ output' = Take(output, cur))
      BY <1>10, <2>1, <1>2 DEF Opening, Abandon
    <2>4. output[cur] # <<>> => Take(output, cur)[t] \in Seq(S)
      BY <2>1, <1>1, <1>2, TakenOut
    <2> QED
      BY <2>2, <2>3, <2>4, <1>1, <1>e
  <1>11. CASE Drain
    <2>1. output'[t] \in {output[t], <<>>} /\ UNCHANGED <<cmds, wire, lines>>
      BY <1>11, <1>2 DEF Drain, terminalVars
    <2> QED
      BY <2>1, <1>1, <1>e
  <1>12. CASE SendLine
    <2>1. cur \in Session
      BY <1>12 DEF SendLine, Requests, Ready, Sent
    <2>2. cmds' = cmds \/ cmds' = Put(cmds, cur, TypeOf(cmd)) \/ cmds' = Put(cmds, cur, EchoOf(cmd))
      BY <1>12 DEF SendLine
    <2>3. UNCHANGED <<output, wire, lines>>
      BY <1>12 DEF SendLine, terminalVars
    <2>4. t = cur => TypeOf(cmd) \in C /\ EchoOf(cmd) \in C
      BY <1>12, <1>7
    <2>5. Put(cmds, cur, TypeOf(cmd))[t] \in Seq(C)
      BY <2>1, <2>4, <1>1, <1>2, PutChannel
    <2>6. Put(cmds, cur, EchoOf(cmd))[t] \in Seq(C)
      BY <2>1, <2>4, <1>1, <1>2, PutChannel
    <2> QED
      BY <2>2, <2>3, <2>5, <2>6, <1>1
  <1>13. CASE Collect
    <2>1. cur \in Session
      BY <1>13 DEF Collect, Requests, Ready, Sent
    <2>2. UNCHANGED <<cmds, wire, lines>>
      BY <1>13 DEF Collect, terminalVars
    <2>3. output' = output \/ (output[cur] # <<>> /\ output' = Take(output, cur))
      BY <1>13 DEF Collect
    <2> QED
      BY <2>1, <2>2, <2>3, <1>1, <1>2, TakenOut
  <1>14. CASE Remove
    <2>1. output'[t] \in {output[t], <<>>} /\ UNCHANGED <<cmds, wire, lines>>
      BY <1>14, <1>2 DEF Remove, Forget, terminalVars
    <2> QED
      BY <2>1, <1>1, <1>e
  <1>15. CASE Authenticated
    <2>1. UNCHANGED <<output, wire, lines>>
      BY <1>15 DEF Authenticated, terminalVars
    <2>2. cmds' = cmds \/ (cur # NoSession /\ cmds' = Put(cmds, cur, Open))
      BY <1>15 DEF Authenticated
    <2>3. cur # NoSession => cur \in Session
      BY DEF ToolsTypeOK
    <2>4. cur \in Session => Put(cmds, cur, Open)[t] \in Seq(C)
      BY <1>1, <1>2, <1>3, PutChannel
    <2> QED
      BY <2>1, <2>2, <2>3, <2>4, <1>1
  <1>16. CASE Eof
    <2>1. cmds'[t] = <<>> /\ output'[t] = <<>> /\ wire'[t] = <<>> /\ lines' = lines
      BY <1>16 DEF Eof, terminalVars
    <2> QED
      BY <2>1, <1>1, <1>e
  <1>17. ASSUME NEW s \in Session, CloseTerminal(s)
         PROVE  OnlyOf(t, K)'
    <2>1. UNCHANGED <<output, wire, lines>>
      BY <1>17 DEF CloseTerminal, terminalVars
    <2>2. cmds' = cmds \/ cmds' = Put(cmds, s, Close)
      BY <1>17 DEF CloseTerminal
    <2>4. Put(cmds, s, Close)[t] \in Seq(C)
      BY <1>1, <1>2, <1>3, PutChannel
    <2> QED
      BY <2>1, <2>2, <2>4, <1>1 DEF OnlyOf, S, W, L, C
  <1>18. ASSUME NEW s \in Session, Expire(s)
         PROVE  OnlyOf(t, K)'
    <2>1. output'[t] \in {output[t], <<>>} /\ UNCHANGED <<cmds, wire, lines>>
      BY <1>18, <1>2 DEF Expire, Forget, terminalVars
    <2> QED
      BY <2>1, <1>1, <1>e DEF OnlyOf, S, W, L, C
  <1>19. ASSUME NEW s \in Session, Ends(s), UNCHANGED <<output, lines>>
         PROVE  OnlyOf(t, K)'
    <2>1. cmds'[t] \in {cmds[t], <<>>} /\ wire'[t] \in {wire[t], <<>>}
      BY <1>19, <1>2 DEF Ends
    <2> QED
      BY <2>1, <1>1, <1>19, <1>e DEF OnlyOf, S, W, L, C
  <1>20. ASSUME NEW s \in Session, TaskReads(s)
         PROVE  OnlyOf(t, K)'
    <2> DEFINE m == Head(wire[s])
    <2> DEFINE over == m[1] = "closed" \/ (m[1] \in {"out", "mark"} /\ ~Held(s))
    <2>1. CASE ~over
      <3>1. /\ wire[s] # <<>> /\ m[1] # "closed" /\ wire' = Take(wire, s)
            /\ output' = Put(output, s, m) \/ output' = output
            /\ UNCHANGED <<cmds, lines>>
        BY <1>20, <2>1 DEF TaskReads, terminalVars
      <3>2. t = s => m \in S
        <4>1. t = s => m \in W
          BY <1>1, <3>1
        <4> QED
          BY <4>1, <3>1, <1>5
      <3>3. Put(output, s, m)[t] \in Seq(S)
        BY <3>2, <1>1, <1>2, PutChannel
      <3>4. Take(wire, s)[t] \in Seq(W)
        BY <3>1, <1>1, <1>2, TakenOut
      <3> QED
        BY <3>1, <3>3, <3>4, <1>1 DEF OnlyOf, S, W, L, C
    <2>2. CASE over
      <3>1. Ends(s) /\ UNCHANGED <<output, lines>>
        BY <1>20, <2>2 DEF TaskReads, terminalVars
      <3> QED
        BY <3>1, <1>19
    <2> QED
      BY <2>1, <2>2
  <1>21. ASSUME NEW s \in Session, TaskSends(s)
         PROVE  OnlyOf(t, K)'
    <2> DEFINE m == Head(cmds[s])
    <2>1. cmds[s] # <<>> /\ cmds' = Take(cmds, s) /\ UNCHANGED output
      BY <1>21 DEF TaskSends
    <2>2. Take(cmds, s)[t] \in Seq(C)
      BY <2>1, <1>1, <1>2, TakenOut
    <2>3. t = s => m \in C
      BY <1>1, <2>1
    <2>4. wire'[t] \in Seq(W)
      <3>1. \/ wire' = wire \/ wire' = Put(wire, s, Closed)
            \/ wire' = Put(wire, s, <<"opened", 0, 0>>) \/ wire' = Put(wire, s, <<"failed", 0, 0>>)
        BY <1>21 DEF TaskSends
      <3>2. Put(wire, s, Closed)[t] \in Seq(W)
        BY <1>1, <1>2, <1>3, PutChannel
      <3>3. Put(wire, s, <<"opened", 0, 0>>)[t] \in Seq(W)
        BY <1>1, <1>2, <1>4, PutChannel
      <3>4. Put(wire, s, <<"failed", 0, 0>>)[t] \in Seq(W)
        BY <1>1, <1>2, <1>4, PutChannel
      <3> QED
        BY <3>1, <3>2, <3>3, <3>4, <1>1
    <2>5. lines'[t] \in Seq(L)
      <3>1. \/ lines' = lines \/ lines'[t] \in {lines[t], <<>>}
            \/ m[1] # "open" /\ m[1] # "close" /\ lines' = Put(lines, s, m)
        BY <1>21, <1>2 DEF TaskSends
      <3>2. CASE m[1] # "open" /\ m[1] # "close" /\ lines' = Put(lines, s, m)
        <4>1. t = s => m \in L
          BY <3>2, <2>3, <1>5
        <4> QED
          BY <4>1, <3>2, <1>1, <1>2, PutChannel
      <3> QED
        BY <3>1, <3>2, <1>1, <1>e
    <2> QED
      BY <2>1, <2>2, <2>4, <2>5, <1>1 DEF OnlyOf, S, W, L, C
  <1>22. ASSUME NEW s \in Session, ShellWorks(s)
         PROVE  OnlyOf(t, K)'
    <2> DEFINE l == Head(lines[s])
    <2>1. lines[s] # <<>> /\ UNCHANGED <<cmds, output>>
      BY <1>22 DEF ShellWorks
    <2>2. lines' = lines \/ lines' = Take(lines, s)
      BY <1>22 DEF ShellWorks
    <2>3. lines'[t] \in Seq(L)
      BY <2>1, <2>2, <1>1, <1>2, TakenOut
    <2>4. t = s => l[2] \in K
      <3>1. t = s => l \in L
        BY <1>1, <2>1
      <3> QED
        BY <3>1, <1>5
    <2>5. \/ wire' = wire \/ wire' = Put(wire, s, MarkOf(l[2]))
          \/ progress[s] < Pieces /\ wire' = Put(wire, s, OutOf(l[2], progress[s] + 1))
      BY <1>22 DEF ShellWorks
    <2>6. Put(wire, s, MarkOf(l[2]))[t] \in Seq(W)
      <3>1. t = s => MarkOf(l[2]) \in W
        BY <2>4, <1>6
      <3> QED
        BY <3>1, <1>1, <1>2, PutChannel
    <2>7. progress[s] < Pieces => Put(wire, s, OutOf(l[2], progress[s] + 1))[t] \in Seq(W)
      <3>1. progress[s] < Pieces /\ t = s => progress[s] + 1 \in 1..Pieces
        BY <1>8
      <3>2. progress[s] < Pieces /\ t = s => OutOf(l[2], progress[s] + 1) \in W
        BY <3>1, <2>4, <1>6
      <3> QED
        BY <3>2, <1>1, <1>2, PutChannel
    <2> QED
      BY <2>1, <2>3, <2>5, <2>6, <2>7, <1>1 DEF OnlyOf, S, W, L, C
  <1>23. ASSUME NEW s \in Session, ShellExits(s) \/ HostDrops(s)
         PROVE  OnlyOf(t, K)'
    <2>1. lines'[t] \in {lines[t], <<>>} /\ UNCHANGED <<cmds, output>>
      BY <1>23, <1>2 DEF ShellExits, HostDrops, ShellDown
    <2>2. wire' = wire \/ wire' = Put(wire, s, Closed)
      BY <1>23 DEF ShellExits, HostDrops
    <2>3. Put(wire, s, Closed)[t] \in Seq(W)
      BY <1>1, <1>2, <1>3, PutChannel
    <2> QED
      BY <2>1, <2>2, <2>3, <1>1, <1>e DEF OnlyOf, S, W, L, C
  <1>24. CASE UNCHANGED <<cmds, output, wire, lines>>
    BY <1>24, <1>1
  <1>25. Exists \/ Timeout \/ UNCHANGED toolsVars => UNCHANGED <<cmds, output, wire, lines>>
    BY DEF Exists, Timeout, toolsVars, terminalVars
  <1>26. ASSUME NEW s, Connect(s) \/ RunCommand(s)
         PROVE  UNCHANGED <<cmds, output, wire, lines>>
    BY <1>26 DEF Connect, RunCommand, terminalVars
  <1>27. ASSUME NEW s \in Session, SessionGone(s) \/ StreamFails(s)
         PROVE  Ends(s) /\ UNCHANGED <<output, lines>>
    BY <1>27 DEF SessionGone, StreamFails, terminalVars
  <1>28. OnlyOf(t, K)' => /\ cmds'[t] \in Seq(C) /\ output'[t] \in Seq(S)
                          /\ wire'[t] \in Seq(W) /\ lines'[t] \in Seq(L)
    BY DEF OnlyOf, S, W, L, C
  <1> QED
    BY <1>10, <1>11, <1>12, <1>13, <1>14, <1>15, <1>16, <1>17, <1>18, <1>19, <1>20, <1>21,
       <1>22, <1>23, <1>24, <1>25, <1>26, <1>27, <1>28 DEF ToolsNext, Server, Task

\* The channels of all sessions stay channels.
LEMMA ChannelsStep ==
  ASSUME ToolsTypeOK, Requests, [ToolsNext]_toolsVars
  PROVE  /\ cmds' \in [Session -> Seq(LineOf(Command) \cup {Open, Close})]
         /\ output' \in [Session -> Seq(PieceOf(Command) \cup State)]
         /\ wire' \in [Session -> Seq(PieceOf(Command) \cup State \cup {Closed})]
         /\ lines' \in [Session -> Seq(LineOf(Command))]
  <1>1. ASSUME NEW t \in Session
        PROVE  OnlyOf(t, Command)'
    <2>1. OnlyOf(t, Command)
      BY DEF OnlyOf, ToolsTypeOK
    <2>2. SendLine => cmd \in Command
      BY DEF SendLine, Requests, Ready, Sent
    <2> QED
      BY <2>1, <2>2, OnlyOfStep
  <1> DEFINE Fun(ch) == ch = [s \in Session |-> ch[s]]
  <1>2. Fun(cmds) /\ Fun(output) /\ Fun(wire) /\ Fun(lines)
    BY DEF ToolsTypeOK
  <1>4. Fun(cmds')
    <2>1. \/ cmds' = cmds \/ cmds' = [s \in Session |-> <<>>]
          \/ \E s, m : cmds' = Put(cmds, s, m) \/ cmds' = Take(cmds, s) \/ cmds' = [cmds EXCEPT ![s] = m]
      <3>1. ASSUME NEW s \in Session,
                   \/ Connect(s) \/ RunCommand(s) \/ Expire(s) \/ ShellWorks(s) \/ ShellExits(s) \/ HostDrops(s)
            PROVE  cmds' = cmds
        BY <3>1 DEF Connect, RunCommand, Expire, ShellWorks, ShellExits, HostDrops
      <3>2. ASSUME NEW s \in Session, Ends(s)
            PROVE  \E m : cmds' = [cmds EXCEPT ![s] = m]
        BY <3>2 DEF Ends
      <3>3. ASSUME NEW s \in Session, SessionGone(s) \/ StreamFails(s)
            PROVE  Ends(s)
        BY <3>3 DEF SessionGone, StreamFails
      <3>4. ASSUME NEW s \in Session, TaskReads(s)
            PROVE  Ends(s) \/ cmds' = cmds
        BY <3>4 DEF TaskReads
      <3>5. ASSUME NEW s \in Session, TaskSends(s)
            PROVE  cmds' = Take(cmds, s)
        BY <3>5 DEF TaskSends
      <3>6. ASSUME NEW s \in Session, CloseTerminal(s)
            PROVE  cmds' = cmds \/ cmds' = Put(cmds, s, Close)
        BY <3>6 DEF CloseTerminal
      <3>7. CASE Opening \/ Drain \/ Collect \/ Exists \/ Timeout \/ Remove \/ Connect(NoSession)
        BY <3>7 DEF Opening, Drain, Collect, Exists, Timeout, Remove, Connect
      <3>8. CASE SendLine
        BY <3>8 DEF SendLine
      <3>9. CASE Authenticated
        BY <3>9 DEF Authenticated
      <3>10. CASE Eof
        BY <3>10 DEF Eof
      <3>11. CASE UNCHANGED toolsVars
        BY <3>11 DEF toolsVars
      <3> QED
        BY <3>1, <3>2, <3>3, <3>4, <3>5, <3>6, <3>7, <3>8, <3>9, <3>10, <3>11
           DEF ToolsNext, Server, Task
    <2>2. CASE \E s, m : cmds' = [cmds EXCEPT ![s] = m]
      <3>1. PICK s, m : cmds' = [cmds EXCEPT ![s] = m]
        BY <2>2
      <3>2. cmds = [t \in Session |-> cmds[t]]
        BY <1>2
      <3>3. cmds' = [t \in Session |-> cmds'[t]]
        BY <3>1, <3>2
      <3> QED
        BY <3>3
    <2>3. CASE cmds' = cmds \/ cmds' = [s \in Session |-> <<>>] 
      BY <2>3, <1>2
    <2> QED
      BY <2>1, <2>2, <2>3 DEF Put, Take
  <1>5. Fun(output')
    <2>1. \/ output' = output \/ output' = [s \in Session |-> <<>>]
          \/ \E s, m : output' = Put(output, s, m) \/ output' = Take(output, s) \/ output' = [output EXCEPT ![s] = m]
      <3>1. ASSUME NEW s \in Session,
                   \/ Connect(s) \/ RunCommand(s) \/ CloseTerminal(s) \/ TaskSends(s) \/ SessionGone(s)
                   \/ StreamFails(s) \/ ShellWorks(s) \/ ShellExits(s) \/ HostDrops(s)
            PROVE  output' = output
        BY <3>1 DEF Connect, RunCommand, CloseTerminal, TaskSends, SessionGone, StreamFails,
                    ShellWorks, ShellExits, HostDrops
      <3>2. ASSUME NEW s \in Session, TaskReads(s)
            PROVE  output' = output \/ output' = Put(output, s, Head(wire[s]))
        BY <3>2 DEF TaskReads
      <3>3. ASSUME NEW s \in Session, Expire(s)
            PROVE  output' = [output EXCEPT ![s] = <<>>]
        BY <3>3 DEF Expire, Forget
      <3>4. CASE Opening
        BY <3>4 DEF Opening, Abandon
      <3>5. CASE Drain
        BY <3>5 DEF Drain
      <3>6. CASE Remove
        BY <3>6 DEF Remove, Forget
      <3>7. CASE Collect
        BY <3>7 DEF Collect
      <3>8. CASE Eof
        BY <3>8 DEF Eof
      <3>9. CASE SendLine \/ Exists \/ Timeout \/ Authenticated \/ Connect(NoSession)
        BY <3>9 DEF SendLine, Exists, Timeout, Authenticated, Connect
      <3>10. CASE UNCHANGED toolsVars
        BY <3>10 DEF toolsVars
      <3> QED
        BY <3>1, <3>2, <3>3, <3>4, <3>5, <3>6, <3>7, <3>8, <3>9, <3>10 DEF ToolsNext, Server, Task
    <2>2. CASE \E s, m : output' = [output EXCEPT ![s] = m]
      <3>1. PICK s, m : output' = [output EXCEPT ![s] = m]
        BY <2>2
      <3>2. output = [t \in Session |-> output[t]]
        BY <1>2
      <3>3. output' = [t \in Session |-> output'[t]]
        BY <3>1, <3>2
      <3> QED
        BY <3>3
    <2>3. CASE output' = output \/ output' = [s \in Session |-> <<>>] 
      BY <2>3, <1>2
    <2> QED
      BY <2>1, <2>2, <2>3 DEF Put, Take
  <1>6. Fun(wire')
    <2>1. \/ wire' = wire \/ wire' = [s \in Session |-> <<>>]
          \/ \E s, m : wire' = Put(wire, s, m) \/ wire' = Take(wire, s) \/ wire' = [wire EXCEPT ![s] = m]
      <3>1. ASSUME NEW s \in Session,
                   Connect(s) \/ RunCommand(s) \/ CloseTerminal(s) \/ Expire(s) \/ HostDrops(s)
            PROVE  wire' = wire
        BY <3>1 DEF Connect, RunCommand, CloseTerminal, Expire, HostDrops
      <3>2. ASSUME NEW s \in Session, Ends(s)
            PROVE  \E m : wire' = [wire EXCEPT ![s] = m]
        BY <3>2 DEF Ends
      <3>3. ASSUME NEW s \in Session, SessionGone(s) \/ StreamFails(s)
            PROVE  Ends(s)
        BY <3>3 DEF SessionGone, StreamFails
      <3>4. ASSUME NEW s \in Session, TaskReads(s)
            PROVE  Ends(s) \/ wire' = Take(wire, s)
        BY <3>4 DEF TaskReads
      <3>5. ASSUME NEW s \in Session, TaskSends(s)
            PROVE  wire' = wire \/ \E m : wire' = Put(wire, s, m)
        BY <3>5 DEF TaskSends
      <3>6. ASSUME NEW s \in Session, ShellWorks(s)
            PROVE  wire' = wire \/ \E m : wire' = Put(wire, s, m)
        BY <3>6 DEF ShellWorks
      <3>7. ASSUME NEW s \in Session, ShellExits(s)
            PROVE  wire' = Put(wire, s, Closed)
        BY <3>7 DEF ShellExits
      <3>8. CASE Eof
        BY <3>8 DEF Eof
      <3>9. CASE Opening \/ Drain \/ Collect \/ Remove \/ SendLine \/ Exists \/ Timeout \/ Authenticated \/ Connect(NoSession)
        BY <3>9 DEF Opening, Drain, Collect, Remove, SendLine, Exists, Timeout, Authenticated, Connect
      <3>10. CASE UNCHANGED toolsVars
        BY <3>10 DEF toolsVars
      <3> QED
        BY <3>1, <3>2, <3>3, <3>4, <3>5, <3>6, <3>7, <3>8, <3>9, <3>10 DEF ToolsNext, Server, Task
    <2>2. CASE \E s, m : wire' = [wire EXCEPT ![s] = m]
      <3>1. PICK s, m : wire' = [wire EXCEPT ![s] = m]
        BY <2>2
      <3>2. wire = [t \in Session |-> wire[t]]
        BY <1>2
      <3>3. wire' = [t \in Session |-> wire'[t]]
        BY <3>1, <3>2
      <3> QED
        BY <3>3
    <2>3. CASE wire' = wire \/ wire' = [s \in Session |-> <<>>] 
      BY <2>3, <1>2
    <2> QED
      BY <2>1, <2>2, <2>3 DEF Put, Take
  <1>7. Fun(lines')
    <2>1. \/ lines' = lines
          \/ \E s, m : lines' = Put(lines, s, m) \/ lines' = Take(lines, s) \/ lines' = [lines EXCEPT ![s] = m]
      <3>1. ASSUME NEW s \in Session,
                   \/ Connect(s) \/ RunCommand(s) \/ CloseTerminal(s) \/ Expire(s)
                   \/ TaskReads(s) \/ SessionGone(s) \/ StreamFails(s)
            PROVE  lines' = lines
        BY <3>1 DEF Connect, RunCommand, CloseTerminal, Expire, TaskReads, SessionGone, StreamFails, terminalVars
      <3>2. ASSUME NEW s \in Session, TaskSends(s)
            PROVE  lines' = lines \/ \E m : lines' = Put(lines, s, m) \/ lines' = [lines EXCEPT ![s] = m]
        BY <3>2 DEF TaskSends
      <3>3. ASSUME NEW s \in Session, ShellWorks(s)
            PROVE  lines' = lines \/ lines' = Take(lines, s)
        BY <3>3 DEF ShellWorks
      <3>4. ASSUME NEW s \in Session, ShellExits(s) \/ HostDrops(s)
            PROVE  lines' = [lines EXCEPT ![s] = <<>>]
        BY <3>4 DEF ShellExits, HostDrops, ShellDown
      <3>5. CASE Server \/ Authenticated \/ Eof \/ Connect(NoSession) \/ UNCHANGED toolsVars
        BY <3>5 DEF Server, Opening, Drain, Collect, Remove, SendLine, Exists, Timeout, Authenticated, Eof,
                    Connect, toolsVars, terminalVars
      <3> QED
        BY <3>1, <3>2, <3>3, <3>4, <3>5 DEF ToolsNext, Task
    <2>2. CASE \E s, m : lines' = [lines EXCEPT ![s] = m]
      <3>1. PICK s, m : lines' = [lines EXCEPT ![s] = m]
        BY <2>2
      <3>2. lines = [t \in Session |-> lines[t]]
        BY <1>2
      <3>3. lines' = [t \in Session |-> lines'[t]]
        BY <3>1, <3>2
      <3> QED
        BY <3>3
    <2>3. CASE lines' = lines 
      BY <2>3, <1>2
    <2> QED
      BY <2>1, <2>2, <2>3 DEF Put, Take
  <1> QED
    BY <1>1, <1>4, <1>5, <1>6, <1>7 DEF OnlyOf, Fun

\* What is collected is what came, and the request is of what there is.
LEMMA ServerTypes ==
  ASSUME ToolsTypeOK, Requests, [ToolsNext]_toolsVars
  PROVE  /\ pc' \in {"idle", "auth", "opening", "drain", "type", "sentinel", "collect",
                     "exists", "remove", "down"}
         /\ cur' \in Session \cup {NoSession} /\ cmd' \in 0..MaxCommands
         /\ answer' \in {"none", "done", "output", "error", "timeout", "disconnected"}
         /\ got' \in Seq(PieceOf(Command) \cup State)
         /\ sessions' \subseteq Session /\ late' \subseteq Session
  <1> USE DEF ToolsTypeOK, Answer
  <1>0. MaxCommands \in Nat /\ <<>> \in Seq(PieceOf(Command) \cup State)
    BY McpBounds
  <1>1. CASE Opening
    BY <1>1 DEF Opening, Requests, Abandon
  <1>2. CASE Drain \/ SendLine \/ Exists
    BY <1>2 DEF Drain, SendLine, Exists
  <1>3. CASE Collect
    <2>1. cur \in Session
      BY <1>3 DEF Collect, Requests, Sent
    <2> DEFINE S == PieceOf(Command) \cup State
    <2>t. output[cur] \in Seq(S) /\ got \in Seq(S)
      BY <2>1
    <2> HIDE DEF S
    <2>2. output[cur] # <<>> => Append(got, Head(output[cur])) \in Seq(S)
      BY <2>t
    <2>4. got' = got \/ (output[cur] # <<>> /\ got' = Append(got, Head(output[cur])))
      BY <1>3 DEF Collect
    <2>3. got' \in Seq(PieceOf(Command) \cup State)
      BY <2>2, <2>4, <2>t DEF S
    <2> QED
      BY <2>3, <1>3 DEF Collect
  <1>4. CASE Timeout
    <2>1. cur \in Session
      BY <1>4 DEF Timeout, Requests, Sent
    <2> QED
      BY <2>1, <1>4 DEF Timeout
  <1>5. CASE Remove
    BY <1>5 DEF Remove, Forget
  <1>6. CASE Authenticated
    BY <1>6 DEF Authenticated
  <1>7. CASE Eof
    BY <1>7 DEF Eof
  <1>8. ASSUME NEW s \in Session \cup {NoSession}, Connect(s)
        PROVE  pc' = "auth" /\ cur' = s /\ answer' = "none" /\ got' = <<>> /\ UNCHANGED <<cmd, sessions, late>>
    BY <1>8 DEF Connect
  <1>9. ASSUME NEW s \in Session, RunCommand(s)
        PROVE  /\ pc' \in {"drain", "idle"} /\ cur' = s /\ answer' \in {"none", "error"} /\ got' = <<>>
               /\ cmd' \in 0..MaxCommands /\ UNCHANGED <<sessions, late>>
    BY <1>9, <1>0 DEF RunCommand
  <1>10. ASSUME NEW s \in Session, CloseTerminal(s)
         PROVE  /\ pc' \in {"remove", "idle"} /\ cur' = s /\ answer' \in {"none", "error"} /\ got' = <<>>
                /\ UNCHANGED <<cmd, sessions, late>>
    BY <1>10 DEF CloseTerminal
  <1>11. ASSUME NEW s \in Session, Expire(s)
         PROVE  sessions' \subseteq Session /\ UNCHANGED <<pc, cur, cmd, got, answer, late>>
    BY <1>11 DEF Expire, Forget
  <1>12. ASSUME NEW s \in Session,
                Task(s) \/ StreamFails(s) \/ ShellWorks(s) \/ ShellExits(s) \/ HostDrops(s)
         PROVE  UNCHANGED serverVars
    BY <1>12 DEF Task, TaskReads, TaskSends, SessionGone, StreamFails, ShellWorks, ShellExits, HostDrops
  <1>13. CASE UNCHANGED serverVars
    BY <1>13 DEF serverVars
  <1>14. UNCHANGED toolsVars => UNCHANGED serverVars
    BY DEF toolsVars
  <1> QED
    BY <1>0, <1>1, <1>2, <1>3, <1>4, <1>5, <1>6, <1>7, <1>8, <1>9, <1>10, <1>11, <1>12, <1>13, <1>14
       DEF ToolsNext, Server

\* A task that runs stays a task; one that does not has nothing to pass on.
LEMMA TasksStep ==
  ASSUME ToolsTypeOK, Requests, OpenedOnce, [ToolsNext]_toolsVars
  PROVE  /\ task' \in [Session -> {"none", "running", "ended"}]
         /\ \A s \in Session : task'[s] # "running" => cmds'[s] = <<>> /\ wire'[s] = <<>>
         /\ \A s \in sessions' : task'[s] # "none"
  <1> DEFINE Quiet(t) == task'[t] # "running" => cmds'[t] = <<>> /\ wire'[t] = <<>>
  <1>0. /\ DOMAIN cmds = Session /\ DOMAIN wire = Session /\ DOMAIN output = Session
        /\ task \in [Session -> {"none", "running", "ended"}]
        /\ \A t \in Session : task[t] # "running" => cmds[t] = <<>> /\ wire[t] = <<>>
        /\ \A t \in sessions : t \in Session /\ task[t] # "none"
    BY DEF ToolsTypeOK
  <1>q. SUFFICES /\ task' \in [Session -> {"none", "running", "ended"}]
                 /\ \A t \in Session : Quiet(t)
                 /\ \A t \in sessions' : task'[t] # "none"
    OBVIOUS
  <1>1. CASE UNCHANGED <<task, cmds, wire>> /\ sessions' \subseteq sessions
    BY <1>0, <1>1
  <1>2. CASE Opening
    <2>1. UNCHANGED <<task, cmds, wire>> /\ cur \in Session
      BY <1>2 DEF Opening, Requests
    <2>2. sessions' = sessions \/ (sessions' = sessions \cup {cur} /\ output[cur] # <<>>)
      BY <1>2 DEF Opening, Abandon
    <2>3. output[cur] # <<>> => task[cur] # "none"
      BY <2>1 DEF OpenedOnce, OpenedFirst
    <2> QED
      BY <1>0, <2>1, <2>2, <2>3
  <1>3. CASE SendLine
    <2>1. UNCHANGED <<task, wire, sessions>>
      BY <1>3 DEF SendLine
    <2>2. cmds' = cmds \/ (cur \in Session /\ task[cur] = "running" /\ \E m : cmds' = Put(cmds, cur, m))
      BY <1>3, <1>0 DEF SendLine
    <2>3. \A t \in Session : Quiet(t)
      BY <1>0, <2>1, <2>2 DEF Put
    <2> QED
      BY <1>0, <2>1, <2>3
  <1>4. CASE Authenticated
    <2>1. UNCHANGED <<wire, sessions>>
      BY <1>4 DEF Authenticated
    <2>2. \/ UNCHANGED <<task, cmds>>
          \/ /\ cur \in Session /\ task' = [task EXCEPT ![cur] = "running"]
             /\ cmds' = Put(cmds, cur, Open)
      BY <1>4 DEF Authenticated, ToolsTypeOK
    <2>3. \A t \in Session : Quiet(t)
      BY <1>0, <2>1, <2>2 DEF Put
    <2>4. task' \in [Session -> {"none", "running", "ended"}] /\ \A t \in sessions' : task'[t] # "none"
      BY <1>0, <2>1, <2>2
    <2> QED
      BY <2>3, <2>4
  <1>5. CASE Eof
    BY <1>0, <1>5 DEF Eof
  <1>6. ASSUME NEW s \in Session, CloseTerminal(s)
        PROVE  UNCHANGED <<task, wire, sessions>> /\ \A t \in Session : Quiet(t)
    <2>1. UNCHANGED <<task, wire, sessions>>
      BY <1>6 DEF CloseTerminal
    <2>2. cmds' = cmds \/ (task[s] = "running" /\ cmds' = Put(cmds, s, Close))
      BY <1>6 DEF CloseTerminal
    <2> QED
      BY <1>0, <2>1, <2>2 DEF Put
  <1>7. ASSUME NEW s \in Session, Ends(s), UNCHANGED sessions
        PROVE  /\ \A t \in Session : Quiet(t)
               /\ task' \in [Session -> {"none", "running", "ended"}] /\ \A t \in sessions' : task'[t] # "none"
    BY <1>0, <1>7 DEF Ends
  <1>8. ASSUME NEW s \in Session, TaskReads(s)
        PROVE  Ends(s) \/ (UNCHANGED <<task, cmds>> /\ task[s] = "running" /\ wire' = Take(wire, s))
    BY <1>8 DEF TaskReads
  <1>9. ASSUME NEW s \in Session, UNCHANGED <<task, cmds>>, task[s] = "running", wire' = Take(wire, s)
        PROVE  \A t \in Session : Quiet(t)
    BY <1>0, <1>9 DEF Take
  <1>10. ASSUME NEW s \in Session, TaskSends(s)
         PROVE  UNCHANGED <<task, sessions>> /\ \A t \in Session : Quiet(t)
    <2>1. UNCHANGED <<task, sessions>> /\ task[s] = "running" /\ cmds' = Take(cmds, s)
      BY <1>10 DEF TaskSends, serverVars
    <2>2. wire' = wire \/ \E m : wire' = Put(wire, s, m)
      BY <1>10 DEF TaskSends
    <2> QED
      BY <1>0, <2>1, <2>2 DEF Put, Take
  <1>11. ASSUME NEW s \in Session, ShellWorks(s) \/ ShellExits(s)
         PROVE  UNCHANGED <<task, sessions>> /\ \A t \in Session : Quiet(t)
    <2>1. UNCHANGED <<task, sessions, cmds>> /\ task[s] = "running"
      BY <1>11 DEF ShellWorks, ShellExits, serverVars
    <2>2. wire' = wire \/ \E m : wire' = Put(wire, s, m)
      BY <1>11 DEF ShellWorks, ShellExits
    <2> QED
      BY <1>0, <2>1, <2>2 DEF Put
  <1>12. ASSUME NEW s \in Session, SessionGone(s) \/ StreamFails(s)
         PROVE  Ends(s)
    BY <1>12 DEF SessionGone, StreamFails
  <1>13. ASSUME NEW s \in Session, Task(s) \/ StreamFails(s)
         PROVE  UNCHANGED sessions
    BY <1>13 DEF Task, TaskReads, TaskSends, SessionGone, StreamFails, serverVars
  <1>14. ASSUME NEW s \in Session \cup {NoSession}, Connect(s) \/ RunCommand(s) \/ Expire(s) \/ HostDrops(s)
         PROVE  UNCHANGED <<task, cmds, wire>> /\ sessions' \subseteq sessions
    BY <1>14 DEF Connect, RunCommand, Expire, Forget, HostDrops, serverVars
  <1>15. Drain \/ Collect \/ Exists \/ Timeout \/ Remove \/ UNCHANGED toolsVars
           => UNCHANGED <<task, cmds, wire>> /\ sessions' \subseteq sessions
    BY DEF Drain, Collect, Exists, Timeout, Remove, Forget, toolsVars, serverVars
  <1>16. ASSUME UNCHANGED <<task, sessions>>
         PROVE  task' \in [Session -> {"none", "running", "ended"}] /\ \A t \in sessions' : task'[t] # "none"
    BY <1>16, <1>0
  <1> HIDE DEF Quiet
  <1>17. ASSUME NEW s \in Session, TaskReads(s)
         PROVE  \A t \in Session : Quiet(t)
    BY <1>8, <1>7, <1>9, <1>13, <1>17 DEF Task
  <1>18. ASSUME NEW s \in Session, TaskReads(s)
         PROVE  task' \in [Session -> {"none", "running", "ended"}] /\ \A t \in sessions' : task'[t] # "none"
    BY <1>8, <1>7, <1>16, <1>13, <1>18 DEF Task
  <1> QED
    BY <1>1, <1>2, <1>3, <1>4, <1>5, <1>6, <1>7, <1>10, <1>11, <1>12, <1>13, <1>14, <1>15, <1>16, <1>17, <1>18
       DEF ToolsNext, Server, Task

\* The host counts no further than it puts out.
LEMMA HostTypes ==
  ASSUME ToolsTypeOK, [ToolsNext]_toolsVars
  PROVE  /\ shell' \in [Session -> {"none", "up", "down"}]
         /\ progress' \in [Session -> 0..Pieces] /\ failures' \in 0..MaxFailures
  <1>0. /\ shell \in [Session -> {"none", "up", "down"}]
        /\ progress \in [Session -> 0..Pieces] /\ failures \in 0..MaxFailures
        /\ Pieces \in Nat /\ MaxFailures \in Nat
    BY McpBounds DEF ToolsTypeOK
  <1>1. ASSUME NEW s \in Session, TaskSends(s)
        PROVE  /\ shell' \in [Session -> {"none", "up", "down"}]
               /\ progress' \in [Session -> 0..Pieces] /\ failures' = failures
    <2>1. shell' = shell \/ shell' = [shell EXCEPT ![s] = "up"] \/ shell' = [shell EXCEPT ![s] = "down"]
      BY <1>1 DEF TaskSends
    <2>2. progress' = progress \/ progress' = [progress EXCEPT ![s] = 0]
      BY <1>1 DEF TaskSends
    <2>3. failures' = failures
      BY <1>1 DEF TaskSends
    <2> QED
      BY <1>0, <2>1, <2>2, <2>3
  <1>2. ASSUME NEW s \in Session, ShellWorks(s)
        PROVE  shell' = shell /\ progress' \in [Session -> 0..Pieces] /\ failures' = failures
    <2>1. \/ progress[s] < Pieces /\ progress' = [progress EXCEPT ![s] = @ + 1]
          \/ progress' = [progress EXCEPT ![s] = 0]
      BY <1>2 DEF ShellWorks
    <2>2. shell' = shell /\ failures' = failures
      BY <1>2 DEF ShellWorks
    <2>3. progress[s] < Pieces => progress[s] + 1 \in 0..Pieces
      BY <1>0
    <2> QED
      BY <1>0, <2>1, <2>2, <2>3
  <1>3. ASSUME NEW s \in Session, ShellExits(s) \/ HostDrops(s)
        PROVE  /\ shell' \in [Session -> {"none", "up", "down"}]
               /\ progress' \in [Session -> 0..Pieces] /\ failures' \in 0..MaxFailures
    BY <1>0, <1>3 DEF ShellExits, HostDrops, ShellDown
  <1>4. ASSUME NEW s \in Session, StreamFails(s)
        PROVE  UNCHANGED <<shell, progress>> /\ failures' \in 0..MaxFailures
    BY <1>0, <1>4 DEF StreamFails, terminalVars
  <1>5. ASSUME NEW s \in Session \cup {NoSession},
               Connect(s) \/ RunCommand(s) \/ CloseTerminal(s) \/ Expire(s) \/ TaskReads(s) \/ SessionGone(s)
        PROVE  UNCHANGED <<shell, progress, failures>>
    BY <1>5 DEF Connect, RunCommand, CloseTerminal, Expire, TaskReads, SessionGone, terminalVars
  <1>6. Server \/ Authenticated \/ Eof \/ UNCHANGED toolsVars => UNCHANGED <<shell, progress, failures>>
    BY DEF Server, Opening, Drain, SendLine, Collect, Exists, Timeout, Remove, Authenticated, Eof,
           toolsVars, terminalVars
  <1> QED
    BY <1>0, <1>1, <1>2, <1>3, <1>4, <1>5, <1>6 DEF ToolsNext, Task

\* Every step of the tools, the tasks and the hosts keeps the types.
LEMMA ToolsStepTypes ==
  ASSUME ToolsTypeOK, Requests, OpenedOnce, [ToolsNext]_toolsVars
  PROVE  ToolsTypeOK'
  BY ServerTypes, ChannelsStep, TasksStep, HostTypes DEF ToolsTypeOK

\* A request keeps to the session and the command it is about.
LEMMA StepRequests ==
  ASSUME ToolsTypeOK, Requests, [ToolsNext]_toolsVars
  PROVE  Requests'
  <1>0. MaxCommands \in Nat /\ NoSession \notin Session /\ cmd \in 0..MaxCommands
    BY McpBounds, NoSessionIsNone DEF ToolsTypeOK
  <1>1. CASE Opening
    BY <1>1 DEF Opening, Abandon, Answer, Requests, Ready, Sent
  <1>2. CASE Drain
    BY <1>2 DEF Drain, Requests, Ready, Sent
  <1>3. CASE SendLine
    BY <1>3 DEF SendLine, Answer, Requests, Ready, Sent
  <1>4. CASE Collect
    BY <1>4 DEF Collect, Answer, Requests, Ready, Sent
  <1>5. CASE Exists \/ Timeout \/ Remove
    BY <1>5 DEF Exists, Timeout, Remove, Answer, Requests, Ready, Sent
  <1>6. CASE Authenticated
    BY <1>6, <1>0 DEF Authenticated, Answer, Requests, Ready, Sent, ToolsTypeOK
  <1>7. CASE Eof
    BY <1>7 DEF Eof, Requests, Ready, Sent
  <1>8. ASSUME NEW s \in Session \cup {NoSession}, Connect(s)
        PROVE  Requests'
    BY <1>0, <1>8 DEF Connect, Requests, Ready, Sent
  <1>9. ASSUME NEW s \in Session, RunCommand(s)
        PROVE  Requests'
    <2>1. cmd < MaxCommands => cmd + 1 \in Command
      BY <1>0 DEF Command
    <2> QED
      BY <2>1, <1>9 DEF RunCommand, Answer, Requests, Ready, Sent
  <1>10. ASSUME NEW s \in Session, CloseTerminal(s)
         PROVE  Requests'
    BY <1>10 DEF CloseTerminal, Answer, Requests, Ready, Sent
  <1>11. ASSUME NEW s \in Session, Task(s) \/ StreamFails(s)
         PROVE  UNCHANGED <<pc, cur, cmd, got, answer>> /\ (cur \in Session => task'[cur] = task[cur] \/ task[cur] = "running")
    <2>1. UNCHANGED serverVars /\ task[s] = "running"
      BY <1>11 DEF Task, TaskReads, TaskSends, SessionGone, StreamFails
    <2>2. task' = task \/ task' = [task EXCEPT ![s] = "ended"]
      BY <1>11 DEF Task, TaskReads, TaskSends, SessionGone, StreamFails, Ends
    <2> QED
      BY <2>1, <2>2 DEF serverVars, ToolsTypeOK
  <1>12. ASSUME NEW s \in Session, Expire(s) \/ ShellWorks(s) \/ ShellExits(s) \/ HostDrops(s)
         PROVE  UNCHANGED <<pc, cur, cmd, got, answer, task>>
    BY <1>12 DEF Expire, ShellWorks, ShellExits, HostDrops, serverVars
  <1>13. UNCHANGED toolsVars => UNCHANGED <<pc, cur, cmd, got, answer, task>>
    BY DEF toolsVars, serverVars
  <1>14. CASE UNCHANGED <<pc, cur, cmd, got, answer, task>>
    BY <1>14 DEF Requests, Ready, Sent
  <1>15. CASE UNCHANGED <<pc, cur, cmd, got, answer>> /\ (cur \in Session => task'[cur] = task[cur] \/ task[cur] = "running")
    BY <1>15 DEF Requests, Ready, Sent
  <1> QED
    BY <1>1, <1>2, <1>3, <1>4, <1>5, <1>6, <1>7, <1>8, <1>9, <1>10, <1>11, <1>12, <1>13, <1>14, <1>15
       DEF ToolsNext, Server

\* Nothing comes before the terminal, and nothing is left to do without one.
LEMMA StepOpened ==
  ASSUME ToolsTypeOK, Requests, OpenedOnce, [ToolsNext]_toolsVars
  PROVE  OpenedOnce'
  <1> SUFFICES ASSUME NEW t \in Session
               PROVE  OpenedFirst(t)'
    BY DEF OpenedOnce
  <1> DEFINE D == LineOf(Command) \cup {Close}
  <1>0. /\ DOMAIN cmds = Session /\ DOMAIN wire = Session /\ DOMAIN output = Session
        /\ DOMAIN lines = Session /\ DOMAIN task = Session /\ DOMAIN shell = Session
        /\ DOMAIN progress = Session
        /\ sessions \subseteq Session /\ lines[t] \in Seq(LineOf(Command))
        /\ cmds[t] \in Seq(LineOf(Command) \cup {Open, Close})
    BY DEF ToolsTypeOK
  <1>f. OpenedFirst(t)
    BY DEF OpenedOnce
  <1>o. /\ task[t] = "none" =>
            cmds[t] = <<>> /\ output[t] = <<>> /\ wire[t] = <<>> /\ shell[t] = "none"
        /\ shell[t] # "up" => lines[t] = <<>>
        /\ lines[t] = <<>> => progress[t] = 0
        /\ \/ cmds[t] \in Seq(D)
           \/ /\ cmds[t] = <<Open>> /\ t \notin sessions
              /\ output[t] = <<>> /\ wire[t] = <<>> /\ shell[t] = "none"
    BY <1>f DEF OpenedFirst
  <1>c. Close \in D /\ Open \notin D /\ (\A d \in D : d[1] # "open") /\ <<>> \in Seq(D)
    BY Kinds
  <1>k. cmd \in Command => TypeOf(cmd) \in D /\ EchoOf(cmd) \in D
    BY Kinds
  <1>n. /\ Open[1] = "open" /\ Close[1] = "close"
        /\ \A l \in LineOf(Command) : l[1] # "open" /\ l[1] # "close"
    BY Kinds
  <1>q. ASSUME /\ task'[t] = "none" =>
                   cmds'[t] = <<>> /\ output'[t] = <<>> /\ wire'[t] = <<>> /\ shell'[t] = "none"
               /\ shell'[t] # "up" => lines'[t] = <<>>
               /\ lines'[t] = <<>> => progress'[t] = 0
               /\ \/ cmds'[t] \in Seq(D)
                  \/ /\ cmds'[t] = <<Open>> /\ t \notin sessions'
                     /\ output'[t] = <<>> /\ wire'[t] = <<>> /\ shell'[t] = "none"
        PROVE  OpenedFirst(t)'
    BY <1>q DEF OpenedFirst
  <1> HIDE DEF D
  <1>1. ASSUME UNCHANGED <<task, cmds, wire, shell>>, lines'[t] = lines[t], progress'[t] = progress[t],
               output'[t] \in {output[t], <<>>}, t \in sessions' => t \in sessions
        PROVE  OpenedFirst(t)'
    BY <1>1, <1>o, <1>q
  <1>2. CASE Opening
    <2>1. UNCHANGED <<task, cmds, wire, shell, lines, progress>> /\ cur \in Session
      BY <1>2 DEF Opening, Requests, terminalVars
    <2>2. CASE sessions' = sessions /\ output' = [output EXCEPT ![cur] = <<>>]
      BY <2>1, <2>2, <1>0, <1>1
    <2>3. CASE output[cur] # <<>> /\ sessions' = sessions \cup {cur} /\ output' = Take(output, cur)
      <3>1. CASE t = cur
        <4>1. cmds[t] \in Seq(D) /\ task[t] # "none"
          BY <2>3, <3>1, <1>o
        <4> QED
          BY <4>1, <2>1, <1>o, <1>q
      <3>2. CASE t # cur
        <4>1. output'[t] = output[t] /\ (t \in sessions' => t \in sessions)
          BY <2>3, <3>2, <1>0 DEF Take
        <4> QED
          BY <4>1, <2>1, <1>1
      <3> QED
        BY <3>1, <3>2
    <2> QED
      BY <2>2, <2>3, <1>2 DEF Opening, Abandon
  <1>3. CASE SendLine
    <2>1. UNCHANGED <<task, wire, shell, lines, progress, output, sessions>> /\ cmd \in Command
      BY <1>3 DEF SendLine, Requests, Ready, Sent, terminalVars
    <2>2. CASE cmds' = cmds
      BY <2>1, <2>2, <1>1
    <2>3. ASSUME NEW l \in D, cur \in sessions, task[cur] = "running", cmds' = Put(cmds, cur, l)
          PROVE  OpenedFirst(t)'
      <3>1. t # cur => cmds'[t] = cmds[t]
        BY <2>3, <1>0 DEF Put
      <3>2. t = cur => task[t] # "none" /\ cmds[t] \in Seq(D) /\ cmds'[t] = Append(cmds[t], l)
        BY <2>3, <1>0, <1>o DEF Put
      <3>3. t = cur => cmds'[t] \in Seq(D)
        <4>1. \A q \in Seq(D) : Append(q, l) \in Seq(D)
          BY <2>3, AppendProperties
        <4> QED
          BY <3>2, <4>1, Zenon
      <3>4. CASE t = cur
        BY <3>2, <3>3, <3>4, <2>1, <1>o, <1>q
      <3>5. CASE t # cur
        BY <3>1, <3>5, <2>1, <1>o, <1>q
      <3> QED
        BY <3>4, <3>5
    <2> QED
      BY <2>1, <2>2, <2>3, <1>3, <1>k DEF SendLine
  <1>4. CASE Authenticated
    <2>1. UNCHANGED <<wire, shell, lines, progress, output, sessions>>
      BY <1>4 DEF Authenticated, terminalVars
    <2>2. CASE UNCHANGED <<task, cmds>>
      BY <2>1, <2>2, <1>1
    <2>3. CASE cur \in Session /\ task' = [task EXCEPT ![cur] = "running"] /\ cmds' = Put(cmds, cur, Open)
      <3>1. t # cur => cmds'[t] = cmds[t] /\ task'[t] = task[t]
        BY <2>3, <1>0 DEF Put
      <3>2. t = cur => task[t] = "none" /\ task'[t] = "running" /\ cmds'[t] = Append(cmds[t], Open)
        BY <2>3, <1>0, <1>4 DEF Put, Authenticated, Requests
      <3>3. t = cur => t \notin sessions
        BY <3>2 DEF ToolsTypeOK
      <3>4. t = cur => cmds'[t] = <<Open>>
        BY <3>2, <1>o
      <3> QED
        BY <3>1, <3>2, <3>3, <3>4, <2>1, <1>o, <1>q
    <2> QED
      BY <2>2, <2>3, <1>4 DEF Authenticated, ToolsTypeOK
  <1>5. CASE Eof
    <2>1. cmds'[t] = <<>> /\ output'[t] = <<>> /\ wire'[t] = <<>> /\ UNCHANGED <<shell, lines, progress>>
      BY <1>5 DEF Eof, terminalVars
    <2>2. task'[t] = "none" => task[t] = "none"
      BY <1>5 DEF Eof
    <2> QED
      BY <2>1, <2>2, <1>o, <1>c, <1>q
  <1>6. ASSUME NEW s \in Session, CloseTerminal(s)
        PROVE  OpenedFirst(t)'
    <2>1. UNCHANGED <<task, wire, shell, lines, progress, output, sessions>>
      BY <1>6 DEF CloseTerminal, terminalVars
    <2>2. CASE cmds' = cmds
      BY <2>1, <2>2, <1>1
    <2>3. CASE s \in sessions /\ task[s] = "running" /\ cmds' = Put(cmds, s, Close)
      <3>1. t # s => cmds'[t] = cmds[t]
        BY <2>3, <1>0 DEF Put
      <3>2. t = s => task[t] # "none" /\ cmds[t] \in Seq(D) /\ cmds'[t] = Append(cmds[t], Close)
        BY <2>3, <1>0, <1>o DEF Put
      <3>3. t = s => cmds'[t] \in Seq(D)
        BY <3>2, <1>c
      <3> QED
        BY <3>1, <3>2, <3>3, <2>1, <1>o, <1>q
    <2> QED
      BY <2>2, <2>3, <1>6 DEF CloseTerminal
  <1>7. ASSUME NEW s \in Session, Ends(s), task[s] = "running",
               UNCHANGED <<shell, lines, progress, sessions, output>>
        PROVE  OpenedFirst(t)'
    <2>1. t # s => cmds'[t] = cmds[t] /\ wire'[t] = wire[t] /\ task'[t] = task[t]
      BY <1>7, <1>0 DEF Ends
    <2>2. t = s => cmds'[t] = <<>> /\ task'[t] = "ended"
      BY <1>7, <1>0 DEF Ends
    <2> QED
      BY <2>1, <2>2, <1>7, <1>o, <1>c, <1>q
  <1>8. ASSUME NEW s \in Session, TaskReads(s)
        PROVE  OpenedFirst(t)'
    <2>1. wire[s] # <<>> /\ task[s] = "running" /\ UNCHANGED <<shell, lines, progress, sessions>>
      BY <1>8 DEF TaskReads, terminalVars, serverVars
    <2>2. CASE Ends(s) /\ UNCHANGED output
      BY <2>1, <2>2, <1>7
    <2>3. CASE /\ wire' = Take(wire, s) /\ UNCHANGED <<task, cmds>>
               /\ output' = output \/ \E m : output' = Put(output, s, m)
      <3>1. t # s => wire'[t] = wire[t] /\ output'[t] = output[t]
        BY <2>3, <1>0 DEF Put, Take
      <3>2. t = s => cmds[t] \in Seq(D) /\ task[t] # "none"
        BY <2>1, <1>o
      <3> QED
        BY <3>1, <3>2, <2>1, <2>3, <1>o, <1>q
    <2> QED
      BY <2>2, <2>3, <1>8 DEF TaskReads
  <1>9. ASSUME NEW s \in Session, TaskSends(s)
        PROVE  OpenedFirst(t)'
    <2> DEFINE m == Head(cmds[s])
    <2>1. /\ cmds[s] # <<>> /\ cmds' = Take(cmds, s) /\ task[s] = "running"
          /\ UNCHANGED <<sessions, task, output>>
      BY <1>9 DEF TaskSends, serverVars
    <2>2. CASE t # s
      <3>1. cmds'[t] = cmds[t]
        BY <2>1, <2>2, <1>0 DEF Take
      <3>2. wire'[t] = wire[t]
        <4>1. wire' = wire \/ \E x : wire' = Put(wire, s, x)
          BY <1>9 DEF TaskSends
        <4> QED
          BY <4>1, <2>2, <1>0 DEF Put
      <3>3. lines'[t] = lines[t]
        <4>1. lines' = lines \/ \E x : lines' = Put(lines, s, x) \/ lines' = [lines EXCEPT ![s] = x]
          BY <1>9 DEF TaskSends
        <4> QED
          BY <4>1, <2>2, <1>0 DEF Put
      <3>4. shell'[t] = shell[t] /\ progress'[t] = progress[t]
        <4>1. shell' = shell \/ \E x : shell' = [shell EXCEPT ![s] = x]
          BY <1>9 DEF TaskSends
        <4>2. progress' = progress \/ progress' = [progress EXCEPT ![s] = 0]
          BY <1>9 DEF TaskSends
        <4> QED
          BY <4>1, <4>2, <2>2, <1>0
      <3> QED
        BY <3>1, <3>2, <3>3, <3>4, <2>1, <1>o, <1>q
    <2>3. CASE t = s
      <3>1. cmds'[t] \in Seq(D)
        <4>1. cmds'[t] = Tail(cmds[t])
          BY <2>1, <2>3, <1>0 DEF Take
        <4>2. CASE cmds[t] \in Seq(D)
          BY <4>1, <4>2, <2>1, <2>3
        <4>3. CASE cmds[t] = <<Open>>
          <5>1. Tail(cmds[t]) = <<>>
            BY <4>3
          <5> QED
            BY <4>1, <5>1, <1>c
        <4> QED
          BY <4>2, <4>3, <1>o
      <3>2. CASE m[1] = "open"
        <4>1. UNCHANGED <<lines, progress>> /\ shell'[t] \in {shell[t], "up"}
          BY <1>9, <2>3, <3>2, <1>0 DEF TaskSends
        <4> QED
          BY <3>1, <4>1, <2>1, <2>3, <1>o, <1>q
      <3>3. CASE m[1] = "close"
        <4>1. lines'[t] = <<>> /\ progress'[t] = 0
          BY <1>9, <2>3, <3>3, <1>0 DEF TaskSends
        <4> QED
          BY <3>1, <4>1, <2>1, <2>3, <1>o, <1>q
      <3>4. CASE m[1] # "open" /\ m[1] # "close"
        <4>1. UNCHANGED <<shell, progress>>
          BY <1>9, <3>4 DEF TaskSends
        <4>2. lines'[t] = IF shell[t] = "up" THEN Append(lines[t], m) ELSE lines[t]
          BY <1>9, <2>3, <3>4, <1>0 DEF TaskSends, Put
        <4>3. Append(lines[t], m) # <<>>
          BY <1>0
        <4> QED
          BY <3>1, <4>1, <4>2, <4>3, <2>1, <2>3, <1>o, <1>q
      <3> QED
        BY <3>2, <3>3, <3>4
    <2> QED
      BY <2>2, <2>3
  <1>10. ASSUME NEW s \in Session, ShellWorks(s)
         PROVE  OpenedFirst(t)'
    <2>1. /\ task[s] = "running" /\ shell[s] = "up" /\ lines[s] # <<>>
          /\ UNCHANGED <<sessions, task, cmds, output, shell>>
      BY <1>10 DEF ShellWorks, serverVars
    <2>2. CASE t # s
      <3>1. wire'[t] = wire[t]
        <4>1. wire' = wire \/ \E x : wire' = Put(wire, s, x)
          BY <1>10 DEF ShellWorks
        <4> QED
          BY <4>1, <2>2, <1>0 DEF Put
      <3>2. lines'[t] = lines[t]
        <4>1. lines' = lines \/ lines' = Take(lines, s)
          BY <1>10 DEF ShellWorks
        <4> QED
          BY <4>1, <2>2, <1>0 DEF Take
      <3>3. progress'[t] = progress[t]
        BY <1>10, <2>2, <1>0 DEF ShellWorks
      <3> QED
        BY <3>1, <3>2, <3>3, <2>1, <1>o, <1>q
    <2>3. CASE t = s
      <3>1. lines' = lines \/ progress'[t] = 0
        BY <1>10, <2>3, <1>0 DEF ShellWorks
      <3> QED
        BY <3>1, <2>1, <2>3, <1>o, <1>q
    <2> QED
      BY <2>2, <2>3
  <1>11. ASSUME NEW s \in Session, ShellDown(s), task[s] # "none", shell[s] = "up",
                UNCHANGED <<sessions, task, cmds, output>>,
                wire' = wire \/ \E x : wire' = Put(wire, s, x)
         PROVE  OpenedFirst(t)'
    <2>1. t # s => /\ shell'[t] = shell[t] /\ lines'[t] = lines[t] /\ progress'[t] = progress[t]
                   /\ wire'[t] = wire[t]
      BY <1>11, <1>0 DEF ShellDown, Put
    <2>2. t = s => lines'[t] = <<>> /\ progress'[t] = 0
      BY <1>11, <1>0 DEF ShellDown
    <2> QED
      BY <2>1, <2>2, <1>11, <1>o, <1>q
  <1>12. ASSUME NEW s \in Session, ShellExits(s) \/ HostDrops(s)
         PROVE  /\ ShellDown(s) /\ task[s] # "none" /\ shell[s] = "up"
                /\ UNCHANGED <<sessions, task, cmds, output>>
                /\ wire' = wire \/ \E x : wire' = Put(wire, s, x)
    BY <1>12 DEF ShellExits, HostDrops, serverVars
  <1>13. ASSUME NEW s \in Session, SessionGone(s) \/ StreamFails(s)
         PROVE  Ends(s) /\ task[s] = "running" /\ UNCHANGED <<shell, lines, progress, sessions, output>>
    BY <1>13 DEF SessionGone, StreamFails, serverVars, terminalVars
  <1>14. ASSUME NEW s \in Session, Expire(s)
         PROVE  OpenedFirst(t)'
    <2>1. /\ UNCHANGED <<task, cmds, wire, shell, lines, progress>> /\ sessions' \subseteq sessions
          /\ output'[t] \in {output[t], <<>>}
      BY <1>14, <1>0 DEF Expire, Forget, terminalVars
    <2> QED
      BY <2>1, <1>1
  <1>15. CASE Remove \/ Drain
    <2>1. /\ UNCHANGED <<task, cmds, wire, shell, lines, progress>> /\ sessions' \subseteq sessions
          /\ output'[t] \in {output[t], <<>>}
      BY <1>15, <1>0 DEF Remove, Drain, Forget, terminalVars
    <2> QED
      BY <2>1, <1>1
  <1>16. CASE Collect
    <2>1. UNCHANGED <<task, cmds, wire, shell, lines, progress, sessions>>
      BY <1>16 DEF Collect, terminalVars
    <2>2. output' = output \/ (cur \in Session /\ output[cur] # <<>> /\ output' = Take(output, cur))
      BY <1>16, <1>0 DEF Collect
    <2>3. output'[t] = output[t] \/ output[t] # <<>>
      BY <2>2, <1>0 DEF Take
    <2> QED
      BY <2>1, <2>3, <1>o, <1>q
  <1>17. Exists \/ Timeout \/ UNCHANGED toolsVars
           => UNCHANGED <<task, cmds, wire, shell, lines, progress, sessions, output>>
    BY DEF Exists, Timeout, toolsVars, serverVars, terminalVars
  <1>18. ASSUME NEW s \in Session \cup {NoSession}, Connect(s) \/ RunCommand(s)
         PROVE  UNCHANGED <<task, cmds, wire, shell, lines, progress, sessions, output>>
    BY <1>18 DEF Connect, RunCommand, terminalVars
  <1> QED
    BY <1>1, <1>2, <1>3, <1>4, <1>5, <1>6, <1>7, <1>8, <1>9, <1>10, <1>11, <1>12, <1>13, <1>14,
       <1>15, <1>16, <1>17, <1>18 DEF ToolsNext, Server, Task

\* What is typed stays typed, a line that is sent included.
LEMMA TypedGrows ==
  ASSUME ToolsTypeOK, Requests, [ToolsNext]_toolsVars
  PROVE  /\ Typed \subseteq Typed' /\ Typed' \subseteq Command
         /\ SendLine => cmd \in Typed'
  <1>0. cmd \in 0..MaxCommands /\ MaxCommands \in Nat
    BY McpBounds DEF ToolsTypeOK
  <1>1. CASE Opening \/ Drain \/ SendLine \/ Collect \/ Exists \/ Timeout \/ Remove
    <2>1. cmd' = cmd /\ (pc' \in Ready => pc \in Ready) /\ (SendLine => pc' \notin Ready /\ cmd \in Command)
      BY <1>1 DEF Opening, Drain, SendLine, Collect, Exists, Timeout, Remove, Abandon, Answer, Requests,
                  Ready, Sent
    <2> QED
      BY <2>1, <1>0 DEF Typed, Command
  <1>2. ASSUME NEW s \in Session, RunCommand(s)
        PROVE  /\ ~SendLine /\ (pc \notin Ready)
               /\ (pc' \in Ready /\ cmd' = cmd + 1 /\ cmd < MaxCommands) \/ (pc' \notin Ready /\ cmd' = cmd)
    BY <1>2 DEF RunCommand, Answer, Ready, SendLine
  <1>3. CASE /\ ~SendLine /\ pc \notin Ready
             /\ (pc' \in Ready /\ cmd' = cmd + 1 /\ cmd < MaxCommands) \/ (pc' \notin Ready /\ cmd' = cmd)
    BY <1>3, <1>0 DEF Typed, Command
  <1>4. CASE Authenticated \/ Eof
    <2>1. cmd' = cmd /\ pc' \notin Ready /\ ~SendLine
      BY <1>4 DEF Authenticated, Eof, Answer, Ready, SendLine
    <2> QED
      BY <2>1, <1>0 DEF Typed, Command
  <1>5. ASSUME NEW s \in Session \cup {NoSession}, Connect(s) \/ CloseTerminal(s)
        PROVE  cmd' = cmd /\ pc' \notin Ready /\ ~SendLine
    BY <1>5 DEF Connect, CloseTerminal, Answer, Ready, SendLine
  <1>6. CASE cmd' = cmd /\ pc' \notin Ready /\ ~SendLine
    BY <1>6, <1>0 DEF Typed, Command
  <1>7. ASSUME NEW s \in Session,
               Expire(s) \/ Task(s) \/ StreamFails(s) \/ ShellWorks(s) \/ ShellExits(s) \/ HostDrops(s)
        PROVE  cmd' = cmd /\ pc' = pc
    BY <1>7 DEF Expire, Task, TaskReads, TaskSends, SessionGone, StreamFails, ShellWorks, ShellExits,
                HostDrops, serverVars
  <1>8. UNCHANGED toolsVars => cmd' = cmd /\ pc' = pc
    BY DEF toolsVars, serverVars
  <1>9. CASE cmd' = cmd /\ pc' = pc
    <2>1. SendLine => pc \notin Ready /\ cmd \in Command
      BY <1>9 DEF SendLine, Answer, Ready, Sent, Requests
    <2> QED
      BY <2>1, <1>9, <1>0 DEF Typed, Command
  <1> QED
    BY <1>1, <1>2, <1>3, <1>4, <1>5, <1>6, <1>7, <1>8, <1>9 DEF ToolsNext, Server

\* What a step puts on the way is of a command that was typed.
LEMMA StepNumbered ==
  ASSUME ToolsTypeOK, Requests, Numbered, [ToolsNext]_toolsVars
  PROVE  Numbered'
  <1> SUFFICES ASSUME NEW t \in Session
               PROVE  OnlyOf(t, Typed)'
    BY DEF Numbered
  <1>1. PICK L : L = Typed'
    OBVIOUS
  <1>2. L \in SUBSET Command /\ Typed \subseteq L /\ (SendLine => cmd \in L)
    BY <1>1, TypedGrows
  <1>3. OnlyOf(t, Typed)
    BY DEF Numbered
  <1>4. OnlyOf(t, L)
    BY <1>2, <1>3, OnlyOfMore
  <1>5. OnlyOf(t, L)'
    BY <1>2, <1>4, OnlyOfStep
  <1> QED
    BY <1>1, <1>5 DEF OnlyOf

\* A sequence is one of the elements it has.
LEMMA HasOnly ==
  ASSUME NEW A, NEW S, NEW q \in Seq(A), \A j \in 1..Len(q) : q[j] \in S
  PROVE  q \in Seq(S)
  <1>1. Len(q) \in Nat /\ q = [j \in 1..Len(q) |-> q[j]]
    OBVIOUS
  <1>2. [j \in 1..Len(q) |-> q[j]] \in [1..Len(q) -> S]
    OBVIOUS
  <1> QED
    BY <1>1, <1>2

\* What is only of a command, and nothing of it, is of none.
LEMMA NoneOf ==
  ASSUME NEW k \in Command, NEW S, NEW q \in Seq(PieceOf({k}) \cup S),
         \A j \in 1..Len(q) : ~IsOut(q[j], k) /\ q[j] # MarkOf(k)
  PROVE  q \in Seq(PieceOf({}) \cup S)
  <1>1. \A m \in PieceOf({k}) : IsOut(m, k) \/ m = MarkOf(k)
    BY DEF PieceOf, IsOut, MarkOf
  <1> DEFINE A == PieceOf({k}) \cup S
  <1>a. q \in Seq(A)
    OBVIOUS
  <1> HIDE DEF A
  <1>e. \A j \in 1..Len(q) : q[j] \in A
    BY <1>a
  <1>2. \A j \in 1..Len(q) : q[j] \in PieceOf({k}) \cup S
    BY <1>e DEF A
  <1>3. \A j \in 1..Len(q) : q[j] \in PieceOf({}) \cup S
    BY <1>1, <1>2
  <1> QED
    BY <1>3, <1>a, HasOnly

\* What has no line of a command in it is of no command, among its lines.
LEMMA NoLineOf ==
  ASSUME NEW k \in Command, NEW S, NEW q \in Seq(LineOf({k}) \cup S),
         \A j \in 1..Len(q) : q[j] \notin {TypeOf(k), EchoOf(k)}
  PROVE  q \in Seq(LineOf({}) \cup S)
  <1>1. \A l \in LineOf({k}) : l \in {TypeOf(k), EchoOf(k)}
    BY DEF LineOf, TypeOf, EchoOf
  <1> DEFINE A == LineOf({k}) \cup S
  <1>a. q \in Seq(A)
    OBVIOUS
  <1> HIDE DEF A
  <1>e. \A j \in 1..Len(q) : q[j] \in A
    BY <1>a
  <1>2. \A j \in 1..Len(q) : q[j] \in LineOf({k}) \cup S
    BY <1>e DEF A
  <1>3. \A j \in 1..Len(q) : q[j] \in LineOf({}) \cup S
    BY <1>1, <1>2
  <1> QED
    BY <1>3, <1>a, HasOnly

\* Where the elements of two sequences are in what they are put together to.
Joined(q, a, b) ==
  /\ Len(q) = Len(a) + Len(b)
  /\ Len(a) \in Nat /\ Len(b) \in Nat
  /\ \A j \in 1..Len(a) : q[j] = a[j]
  /\ \A j \in 1..Len(b) : q[Len(a) + j] = b[j]

\* The second sequence follows the first.
LEMMA Places2 ==
  ASSUME NEW S, NEW a \in Seq(S), NEW b \in Seq(S)
  PROVE  a \o b \in Seq(S) /\ Joined(a \o b, a, b)
  <1>1. /\ a \o b \in Seq(S) /\ Len(a \o b) = Len(a) + Len(b) /\ Len(a) \in Nat /\ Len(b) \in Nat
        /\ \A i \in 1..(Len(a) + Len(b)) : (a \o b)[i] = IF i <= Len(a) THEN a[i] ELSE b[i - Len(a)]
    BY ConcatProperties
  <1>2. ASSUME NEW j \in 1..Len(b)
        PROVE  (a \o b)[Len(a) + j] = b[j]
    <2>1. Len(a) + j \in 1..(Len(a) + Len(b)) /\ ~(Len(a) + j <= Len(a)) /\ Len(a) + j - Len(a) = j
      BY <1>1
    <2> QED
      BY <2>1, <1>1
  <1>3. ASSUME NEW j \in 1..Len(a)
        PROVE  (a \o b)[j] = a[j]
    BY <1>1
  <1> QED
    BY <1>1, <1>2, <1>3 DEF Joined

\* Where the messages and the lines of a session are in Flow and Work.
LEMMA FlowPlaces ==
  ASSUME ToolsTypeOK, cur \in Session
  PROVE  /\ Flow \in Seq(Msgs) /\ Work \in Seq(Works)
         /\ got \in Seq(Msgs) /\ output[cur] \in Seq(Msgs) /\ wire[cur] \in Seq(Msgs)
         /\ lines[cur] \in Seq(Works) /\ cmds[cur] \in Seq(Works)
         /\ got \o output[cur] \in Seq(Msgs)
         /\ Joined(got \o output[cur], got, output[cur])
         /\ Joined(Flow, got \o output[cur], wire[cur])
         /\ Joined(Work, lines[cur], cmds[cur])
  <1>1. /\ got \in Seq(Msgs) /\ output[cur] \in Seq(Msgs) /\ wire[cur] \in Seq(Msgs)
        /\ lines[cur] \in Seq(Works) /\ cmds[cur] \in Seq(Works)
    <2>1. /\ PieceOf(Command) \cup State \subseteq Msgs
          /\ LineOf(Command) \subseteq Works
      BY DEF Msgs, Works
    <2>2. /\ got \in Seq(PieceOf(Command) \cup State) /\ output[cur] \in Seq(PieceOf(Command) \cup State)
          /\ wire[cur] \in Seq(Msgs) /\ lines[cur] \in Seq(LineOf(Command)) /\ cmds[cur] \in Seq(Works)
      BY DEF ToolsTypeOK, Msgs, Works
    <2> QED
      BY <2>1, <2>2
  <1>2. Work \in Seq(Works) /\ Joined(Work, lines[cur], cmds[cur])
    BY <1>1, Places2 DEF Work
  <1>3. got \o output[cur] \in Seq(Msgs) /\ Joined(got \o output[cur], got, output[cur])
    BY <1>1, Places2
  <1>4. Flow \in Seq(Msgs) /\ Joined(Flow, got \o output[cur], wire[cur])
    BY <1>1, <1>3, Places2 DEF Flow
  <1> QED
    BY <1>1, <1>2, <1>3, <1>4

\* Where the parts of Flow and Work are.
LEMMA FlowIndex ==
  ASSUME ToolsTypeOK, cur \in Session
  PROVE  /\ Len(got) \in Nat /\ Len(output[cur]) \in Nat /\ Len(wire[cur]) \in Nat
         /\ Len(lines[cur]) \in Nat /\ Len(cmds[cur]) \in Nat
         /\ DOMAIN Flow = 1..(Len(got) + Len(output[cur]) + Len(wire[cur]))
         /\ \A j \in 1..Len(got) : Flow[j] = got[j]
         /\ \A j \in 1..Len(output[cur]) : Flow[Len(got) + j] = output[cur][j]
         /\ \A j \in 1..Len(wire[cur]) : Flow[Len(got) + Len(output[cur]) + j] = wire[cur][j]
         /\ DOMAIN Work = 1..(Len(lines[cur]) + Len(cmds[cur]))
         /\ \A i \in 1..Len(lines[cur]) : Work[i] = lines[cur][i]
         /\ \A i \in 1..Len(cmds[cur]) : Work[Len(lines[cur]) + i] = cmds[cur][i]
  <1> DEFINE d == got \o output[cur]
  <1>1. /\ Joined(d, got, output[cur]) /\ Joined(Flow, d, wire[cur]) /\ Joined(Work, lines[cur], cmds[cur])
        /\ Flow \in Seq(Msgs) /\ Work \in Seq(Works)
    BY FlowPlaces
  <1>2. DOMAIN Flow = 1..Len(Flow) /\ DOMAIN Work = 1..Len(Work)
    BY <1>1
  <1> HIDE DEF d
  <1>3. /\ Len(d) = Len(got) + Len(output[cur]) /\ Len(got) \in Nat /\ Len(output[cur]) \in Nat
        /\ \A j \in 1..Len(got) : d[j] = got[j]
        /\ \A j \in 1..Len(output[cur]) : d[Len(got) + j] = output[cur][j]
    BY <1>1 DEF Joined
  <1>4. /\ Len(Flow) = Len(d) + Len(wire[cur]) /\ Len(wire[cur]) \in Nat
        /\ \A j \in 1..Len(d) : Flow[j] = d[j]
        /\ \A j \in 1..Len(wire[cur]) : Flow[Len(d) + j] = wire[cur][j]
    BY <1>1 DEF Joined
  <1>5. /\ Len(Work) = Len(lines[cur]) + Len(cmds[cur]) /\ Len(lines[cur]) \in Nat /\ Len(cmds[cur]) \in Nat
        /\ \A i \in 1..Len(lines[cur]) : Work[i] = lines[cur][i]
        /\ \A i \in 1..Len(cmds[cur]) : Work[Len(lines[cur]) + i] = cmds[cur][i]
    BY <1>1 DEF Joined
  <1>6. \A j \in 1..Len(got) : j \in 1..Len(d)
    BY <1>3
  <1>7. \A j \in 1..Len(output[cur]) : Len(got) + j \in 1..Len(d)
    BY <1>3
  <1> QED
    BY <1>2, <1>3, <1>4, <1>5, <1>6, <1>7

\* When the sentinel of the command is next, all it has put out came before it, and
\* nothing is left of it but the sentinel.
LEMMA SentinelIsLast ==
  ASSUME ToolsTypeOK, Requests, pc = "collect", cur \in sessions, Flows,
         output[cur] # <<>>, Finished(Head(output[cur]))
  PROVE  /\ AllOut(cmd, got) /\ Ordered(cmd, got)
         /\ \A j \in 1..Len(Tail(output[cur])) :
              ~IsOut(Tail(output[cur])[j], cmd) /\ Tail(output[cur])[j] # MarkOf(cmd)
         /\ \A j \in 1..Len(wire[cur]) : ~IsOut(wire[cur][j], cmd) /\ wire[cur][j] # MarkOf(cmd)
         /\ \A i \in 1..Len(lines[cur]) : lines[cur][i] \notin {TypeOf(cmd), EchoOf(cmd)}
         /\ \A i \in 1..Len(cmds[cur]) : cmds[cur][i] \notin {TypeOf(cmd), EchoOf(cmd)}
  <1>0. cur \in Session /\ output[cur] \in Seq(Msgs) /\ got \in Seq(Msgs)
    BY FlowPlaces DEF ToolsTypeOK
  <1>l. PICK g \in Nat, o \in Nat, r \in Nat, l \in Nat, c \in Nat :
             /\ g = Len(got) /\ o = Len(output[cur]) /\ r = Len(wire[cur])
             /\ l = Len(lines[cur]) /\ c = Len(cmds[cur])
    BY <1>0, FlowIndex
  <1>1. /\ DOMAIN Flow = 1..(g + o + r)
        /\ \A j \in 1..g : Flow[j] = got[j]
        /\ \A j \in 1..o : Flow[g + j] = output[cur][j]
        /\ \A j \in 1..r : Flow[g + o + j] = wire[cur][j]
        /\ DOMAIN Work = 1..(l + c)
        /\ \A i \in 1..l : Work[i] = lines[cur][i]
        /\ \A i \in 1..c : Work[l + i] = cmds[cur][i]
    BY <1>0, <1>l, FlowIndex
  <1> DEFINE q == Tail(output[cur])
  <1>2. /\ o >= 1 /\ Head(output[cur]) = output[cur][1] /\ Len(q) = o - 1
        /\ \A j \in 1..(o - 1) : q[j] = output[cur][j + 1]
    BY <1>0, <1>l
  <1>3. DOMAIN got = 1..g
    BY <1>0, <1>l
  <1>p. Ordered(cmd, Flow) /\ MarkIsLast(cmd, Flow, Work)
    BY DEF Flows, Progress, Sent
  <1> HIDE DEF q
  <1>4. g + 1 \in DOMAIN Flow /\ Flow[g + 1] = MarkOf(cmd)
    <2>1. 1 \in 1..o /\ g + 1 \in 1..(g + o + r)
      BY <1>2
    <2>2. Flow[g + 1] = output[cur][1]
      BY <2>1, <1>1
    <2> QED
      BY <2>1, <2>2, <1>1, <1>2 DEF Finished
  <1>5. \A i \in 1..Pieces : \E h \in 1..g : Flow[h] = OutOf(cmd, i)
    <2>1. \A i \in 1..Pieces : \E h \in 1..(g + 1 - 1) : Flow[h] = OutOf(cmd, i)
      BY <1>4, <1>p DEF MarkIsLast
    <2>2. g + 1 - 1 = g
      OBVIOUS
    <2> QED
      BY <2>1, <2>2
  <1>6. \A h \in DOMAIN Flow : h > g + 1 => ~IsOut(Flow[h], cmd) /\ Flow[h] # MarkOf(cmd)
    BY <1>4, <1>p DEF MarkIsLast
  <1>7. \A i \in DOMAIN Work : Work[i] \notin {TypeOf(cmd), EchoOf(cmd)}
    BY <1>4, <1>p DEF MarkIsLast
  <1>8. AllOut(cmd, got)
    BY <1>1, <1>3, <1>5 DEF AllOut
  <1>9. Ordered(cmd, got)
    <2>1. \A j \in 1..g : j \in 1..(g + o + r)
      OBVIOUS
    <2> QED
      BY <2>1, <1>1, <1>3, <1>p DEF Ordered
  <1>10. ASSUME NEW j \in 1..(o - 1)
         PROVE  ~IsOut(q[j], cmd) /\ q[j] # MarkOf(cmd)
    <2>1. j + 1 \in 1..o /\ g + (j + 1) \in 1..(g + o + r) /\ g + (j + 1) > g + 1
      BY <1>2
    <2>2. Flow[g + (j + 1)] = q[j]
      BY <2>1, <1>1, <1>2
    <2> QED
      BY <2>1, <2>2, <1>1, <1>6
  <1>11. ASSUME NEW j \in 1..r
         PROVE  ~IsOut(wire[cur][j], cmd) /\ wire[cur][j] # MarkOf(cmd)
    <2>1. g + o + j \in 1..(g + o + r) /\ g + o + j > g + 1
      BY <1>2
    <2> QED
      BY <2>1, <1>1, <1>6
  <1>12. ASSUME NEW i \in 1..l
         PROVE  lines[cur][i] \notin {TypeOf(cmd), EchoOf(cmd)}
    <2>1. i \in 1..(l + c)
      OBVIOUS
    <2> QED
      BY <2>1, <1>1, <1>7
  <1>13. ASSUME NEW i \in 1..c
         PROVE  cmds[cur][i] \notin {TypeOf(cmd), EchoOf(cmd)}
    <2>1. l + i \in 1..(l + c)
      OBVIOUS
    <2> QED
      BY <2>1, <1>1, <1>7
  <1> QED
    BY <1>l, <1>2, <1>8, <1>9, <1>10, <1>11, <1>12, <1>13 DEF q

\* Two sequences put together.
Cat(a, b) == a \o b

\* The first of two sequences has the first element of both.
LEMMA CatFirst ==
  ASSUME NEW S, NEW a \in Seq(S), NEW b \in Seq(S), a # <<>>
  PROVE  Tail(Cat(a, b)) = Cat(Tail(a), b) /\ Cat(a, b) # <<>> /\ Cat(a, b)[1] = Head(a)
  <1>1. /\ Tail(a) \in Seq(S) /\ Len(a) \in Nat /\ Len(a) >= 1 /\ Len(Tail(a)) = Len(a) - 1
        /\ \A i \in 1..(Len(a) - 1) : Tail(a)[i] = a[i + 1]
        /\ Head(a) = a[1]
    OBVIOUS
  <1>2. PICK p \in Seq(S) : p = Cat(a, b)
    BY ConcatProperties DEF Cat
  <1>3. PICK q \in Seq(S) : q = Cat(Tail(a), b)
    BY <1>1, ConcatProperties DEF Cat
  <1>4. Joined(p, a, b) /\ Joined(q, Tail(a), b)
    BY <1>1, <1>2, <1>3, Places2 DEF Cat
  <1>5. PICK n \in Nat, m \in Nat : n = Len(a) - 1 /\ m = Len(b)
    <2>1. Len(a) - 1 \in Nat /\ Len(b) \in Nat
      BY <1>1
    <2> QED
      BY <2>1
  <1>6. /\ Len(a) = n + 1 /\ Len(p) = n + 1 + m /\ Len(q) = n + m
        /\ \A j \in 1..(n + 1) : p[j] = a[j]
        /\ \A j \in 1..m : p[n + 1 + j] = b[j]
        /\ \A j \in 1..n : q[j] = a[j + 1]
        /\ \A j \in 1..m : q[n + j] = b[j]
    BY <1>1, <1>4, <1>5 DEF Joined
  <1>7. p # <<>> /\ p[1] = Head(a)
    BY <1>1, <1>6
  <1>8. /\ Tail(p) \in Seq(S) /\ Len(Tail(p)) = n + m
        /\ \A j \in 1..(n + m) : Tail(p)[j] = p[j + 1]
    BY <1>6, <1>7
  <1>9. ASSUME NEW j \in 1..(n + m)
        PROVE  Tail(p)[j] = q[j]
    <2>1. CASE j <= n
      BY <2>1, <1>6, <1>8
    <2>2. CASE j > n
      <3>1. PICK i \in 1..m : j = n + i
        <4>1. j - n \in 1..m /\ j = n + (j - n)
          BY <2>2
        <4> QED
          BY <4>1
      <3>2. n + 1 + i = j + 1
        BY <3>1
      <3>3. p[n + 1 + i] = b[i] /\ q[n + i] = b[i]
        BY <1>6
      <3>4. Tail(p)[j] = p[j + 1]
        BY <1>8
      <3> QED
        BY <3>1, <3>2, <3>3, <3>4, Zenon
    <2>3. j <= n \/ j > n
      OBVIOUS
    <2> QED
      BY <2>1, <2>2, <2>3, Zenon
  <1>10. Tail(p) = q
    BY <1>6, <1>8, <1>9, SeqEqual
  <1> QED
    BY <1>2, <1>3, <1>7, <1>10, Zenon

\* The end of one sequence and the beginning of the next are the same place.
LEMMA CatSteps ==
  ASSUME NEW S, NEW a \in Seq(S), NEW b \in Seq(S)
  PROVE  /\ Cat(a, b) \in Seq(S)
         /\ Cat(a, <<>>) = a /\ Cat(<<>>, b) = b
         /\ \A x \in S : Cat(a, Append(b, x)) = Append(Cat(a, b), x)
         /\ b # <<>> => Cat(Append(a, Head(b)), Tail(b)) = Cat(a, b)
  <1>1. a \o b \in Seq(S) /\ a \o <<>> = a /\ <<>> \o b = b
    BY ConcatProperties, ConcatEmptySeq
  <1>2. ASSUME NEW x \in S
        PROVE  a \o Append(b, x) = Append(a \o b, x)
    <2>1. Append(b, x) = b \o <<x>> /\ Append(a \o b, x) = (a \o b) \o <<x>>
      BY <1>1, AppendIsConcat
    <2>2. <<x>> \in Seq(S)
      OBVIOUS
    <2>3. (a \o b) \o <<x>> = a \o (b \o <<x>>)
      BY <2>2, ConcatAssociative
    <2> QED
      BY <2>1, <2>3, Zenon
  <1>b. ASSUME b # <<>>
        PROVE  Append(a, Head(b)) \o Tail(b) = a \o b
    <2>1. PICK x \in S, t \in Seq(S) : x = Head(b) /\ t = Tail(b)
      BY <1>b, HeadTailProperties
    <2>2. Append(a, x) = a \o <<x>> /\ <<x>> \in Seq(S)
      BY AppendIsConcat
    <2>3. (a \o <<x>>) \o t = a \o (<<x>> \o t)
      BY <2>2, ConcatAssociative
    <2>4. <<x>> \o t = b
      <3>1. PICK q \in Seq(S) : q = <<x>> \o t
        BY <2>2, ConcatProperties
      <3>2. Joined(q, <<x>>, t)
        BY <2>2, <3>1, Places2
      <3>3. /\ Len(t) \in Nat /\ Len(b) = Len(t) + 1 /\ b[1] = x
            /\ \A j \in 1..Len(t) : t[j] = b[j + 1]
        BY <1>b, <2>1
      <3>4. Len(q) = Len(t) + 1 /\ q[1] = x /\ \A j \in 1..Len(t) : q[1 + j] = t[j]
        <4>1. Len(<<x>>) = 1 /\ <<x>>[1] = x
          OBVIOUS
        <4> QED
          BY <3>2, <3>3, <4>1 DEF Joined
      <3>5. ASSUME NEW j \in 1..Len(q)
            PROVE  q[j] = b[j]
        <4>1. CASE j = 1
          BY <4>1, <3>3, <3>4
        <4>2. CASE j # 1
          <5>1. j - 1 \in 1..Len(t) /\ 1 + (j - 1) = j /\ (j - 1) + 1 = j
            BY <4>2, <3>3, <3>4
          <5> QED
            BY <5>1, <3>3, <3>4
        <4> QED
          BY <4>1, <4>2
      <3>6. q = b
        BY <3>3, <3>4, <3>5, SeqEqual
      <3> QED
        BY <3>1, <3>6
    <2> QED
      BY <2>1, <2>2, <2>3, <2>4, Zenon
  <1> QED
    BY <1>1, <1>2, <1>b DEF Cat

\* What does not come was not the sentinel, and what is dropped is not either.
LEMMA StaysUnmarked ==
  ASSUME NEW k, NEW f \in Seq(Msgs), NEW w \in Seq(Works), Unmarked(k, f, w)
  PROVE  /\ \A m \in Msgs : m # MarkOf(k) => Unmarked(k, Append(f, m), w)
         /\ \A g \in Seq(Msgs) : Beginning(g, f) => Unmarked(k, g, w)
         /\ \A v \in Seq(Works), n \in Nat : Part(v, w, n) => Unmarked(k, f, v)
  <1>0. DOMAIN f = 1..Len(f) /\ Len(f) \in Nat /\ DOMAIN w = 1..Len(w) /\ Len(w) \in Nat
    OBVIOUS
  <1>1. ASSUME NEW m \in Msgs, m # MarkOf(k)
        PROVE  Unmarked(k, Append(f, m), w)
    BY <1>1 DEF Unmarked
  <1>2. ASSUME NEW g \in Seq(Msgs), Beginning(g, f)
        PROVE  Unmarked(k, g, w)
    <2>1. DOMAIN g = 1..Len(g) /\ \A j \in 1..Len(g) : j \in 1..Len(f)
      BY <1>0, <1>2 DEF Beginning
    <2> QED
      BY <2>1, <1>0, <1>2 DEF Unmarked, Beginning
  <1>3. ASSUME NEW v \in Seq(Works), NEW n \in Nat, Part(v, w, n)
        PROVE  Unmarked(k, f, v)
    <2>1. DOMAIN v = 1..Len(v) /\ \A i \in 1..Len(v) : i + n \in 1..Len(w)
      BY <1>0, <1>3 DEF Part
    <2> QED
      BY <2>1, <1>0, <1>3 DEF Unmarked, Part
  <1> QED
    BY <1>1, <1>2, <1>3

\* Where the elements of l and c are in both together.
LEMMA CatPlaces ==
  ASSUME NEW S, NEW l \in Seq(S), NEW c \in Seq(S)
  PROVE  /\ Cat(l, c) \in Seq(S) /\ Len(l) \in Nat /\ Len(c) \in Nat
         /\ Len(Cat(l, c)) = Len(l) + Len(c)
         /\ \A j \in 1..Len(l) : l[j] = Cat(l, c)[j]
         /\ \A j \in 1..Len(c) : c[j] = Cat(l, c)[j + Len(l)]
  <1>1. Cat(l, c) \in Seq(S) /\ Joined(Cat(l, c), l, c)
    BY Places2 DEF Cat
  <1>2. \A j \in 1..Len(c) : Len(l) + j = j + Len(l)
    BY <1>1 DEF Joined
  <1> QED
    BY <1>1, <1>2 DEF Joined

\* The stream is gone: nothing more comes, and the lines are not sent.
LEMMA StreamGone ==
  ASSUME NEW k \in Command, NEW g \in Seq(Msgs), NEW r \in Seq(Msgs),
         NEW l \in Seq(Works), NEW c \in Seq(Works), NEW p \in Nat, NEW live \in BOOLEAN,
         Progress(k, Cat(g, r), Cat(l, c), p, live)
  PROVE  /\ Progress(k, g, l, p, FALSE)
         /\ Unmarked(k, Cat(g, r), Cat(l, c)) => Unmarked(k, g, l)
  <1>1. PICK f \in Seq(Msgs), w \in Seq(Works) : f = Cat(g, r) /\ w = Cat(l, c)
    BY CatPlaces
  <1>2. Beginning(g, f)
    <2>1. /\ Len(g) \in Nat /\ Len(r) \in Nat /\ Len(Cat(g, r)) = Len(g) + Len(r)
          /\ \A j \in 1..Len(g) : g[j] = Cat(g, r)[j]
      BY CatPlaces
    <2>2. PICK x, y : x = Len(g) /\ y = Len(r)
      OBVIOUS
    <2>3. Len(g) <= Len(f)
      BY <1>1, <2>1, <2>2
    <2> QED
      BY <1>1, <2>1, <2>3 DEF Beginning
  <1>3. Part(l, w, 0)
    <2>1. /\ Len(l) \in Nat /\ Len(c) \in Nat /\ Len(Cat(l, c)) = Len(l) + Len(c)
          /\ \A i \in 1..Len(l) : l[i] = Cat(l, c)[i]
      BY CatPlaces
    <2>2. PICK x, y : x = Len(l) /\ y = Len(c)
      OBVIOUS
    <2>3. Len(l) + 0 <= Len(w)
      BY <1>1, <2>1, <2>2
    <2>4. ASSUME NEW i \in 1..Len(l)
          PROVE  l[i] = w[i + 0]
      <3>1. i + 0 = i
        OBVIOUS
      <3> QED
        BY <3>1, <1>1, <2>1
    <2> QED
      BY <2>3, <2>4 DEF Part
  <1>r. Restarted(0, p, p)
    BY DEF Restarted
  <1>4. Progress(k, f, w, p, live)
    BY <1>1
  <1>5. Progress(k, g, l, p, FALSE)
    BY <1>2, <1>3, <1>r, <1>4, Cut
  <1>6. ASSUME Unmarked(k, f, w)
        PROVE  Unmarked(k, g, l)
    BY <1>2, <1>3, <1>6, StaysUnmarked
  <1> QED
    BY <1>1, <1>5, <1>6

\* The shell is gone, and what was typed with it; or a line has come too late.
LEMMA ShellGone ==
  ASSUME NEW k \in Command, NEW f \in Seq(Msgs),
         NEW l \in Seq(Works), NEW c \in Seq(Works), NEW p \in Nat, NEW live \in BOOLEAN,
         l = <<>> => p = 0, Progress(k, f, Cat(l, c), p, live)
  PROVE  /\ Progress(k, f, c, 0, FALSE)
         /\ c # <<>> => Progress(k, f, Tail(c), 0, FALSE)
         /\ Unmarked(k, f, Cat(l, c)) => /\ Unmarked(k, f, c)
                                         /\ c # <<>> => Unmarked(k, f, Tail(c))
  <1>c. /\ Cat(l, c) \in Seq(Works) /\ Len(l) \in Nat /\ Len(c) \in Nat
        /\ Len(Cat(l, c)) = Len(l) + Len(c)
        /\ \A i \in 1..Len(c) : c[i] = Cat(l, c)[i + Len(l)]
    BY CatPlaces
  <1>1. PICK w \in Seq(Works), n \in Nat : w = Cat(l, c) /\ n = Len(l)
    BY <1>c
  <1>2. /\ Len(c) \in Nat /\ Len(w) = n + Len(c)
        /\ \A i \in 1..Len(c) : c[i] = w[i + n]
    BY <1>1, <1>c, Zenon
  <1>3. Progress(k, f, w, p, live)
    BY <1>1
  <1>4. n > 0 \/ p = 0
    BY <1>1
  <1>f. Beginning(f, f)
    BY DEF Beginning
  <1>s. Part(c, w, n)
    <2>1. PICK x, y : x = Len(c) /\ y = Len(w)
      OBVIOUS
    <2>2. Len(c) + n <= Len(w)
      <3>1. x \in Nat /\ n \in Nat /\ y = n + x
        BY <1>2, <2>1
      <3>2. x + n <= y
        BY <3>1
      <3> QED
        BY <2>1, <3>2
    <2> QED
      BY <1>2, <2>2, Zenon DEF Part
  <1>5. Progress(k, f, c, 0, FALSE)
    <2>1. Restarted(n, p, 0)
      BY <1>4 DEF Restarted
    <2> QED
      BY <2>1, <1>s, <1>3, <1>f, Cut
  <1>6. ASSUME c # <<>>
        PROVE  Tail(c) \in Seq(Works) /\ Part(Tail(c), w, n + 1)
    <2>1. /\ Tail(c) \in Seq(Works) /\ Len(c) >= 1 /\ Len(Tail(c)) = Len(c) - 1
          /\ \A i \in 1..(Len(c) - 1) : Tail(c)[i] = c[i + 1]
      BY <1>6
    <2>2. ASSUME NEW i \in 1..(Len(c) - 1)
          PROVE  Tail(c)[i] = w[i + (n + 1)]
      <3>1. i + 1 \in 1..Len(c) /\ i + 1 + n = i + (n + 1)
        BY <1>2
      <3> QED
        BY <3>1, <2>1, <1>2
    <2>3. Len(c) - 1 + (n + 1) <= Len(w)
      BY <1>2
    <2> QED
      BY <2>1, <2>2, <2>3 DEF Part
  <1>7. ASSUME c # <<>>
        PROVE  Progress(k, f, Tail(c), 0, FALSE)
    <2>1. n + 1 \in Nat /\ Restarted(n + 1, p, 0)
      BY DEF Restarted
    <2> QED
      BY <2>1, <1>6, <1>7, <1>3, <1>f, Cut
  <1>8. ASSUME Unmarked(k, f, w)
        PROVE  Unmarked(k, f, c) /\ (c # <<>> => Unmarked(k, f, Tail(c)))
    <2>1. Unmarked(k, f, c)
      BY <1>s, <1>8, StaysUnmarked
    <2>2. ASSUME c # <<>>
          PROVE  Unmarked(k, f, Tail(c))
      <3>1. n + 1 \in Nat
        OBVIOUS
      <3> QED
        BY <3>1, <2>2, <1>6, <1>8, StaysUnmarked
    <2> QED
      BY <2>1, <2>2
  <1> QED
    BY <1>1, <1>5, <1>7, <1>8

\* While a command runs, these are the steps there are.
LEMMA SentStep ==
  ASSUME ToolsTypeOK, Requests, [ToolsNext]_toolsVars, pc' \in Sent, cur' \in sessions'
  PROVE  /\ cur' = cur /\ cmd' = cmd /\ cur \in sessions /\ cur \in Session
         /\ cmd \in Command /\ pc \in Sent \cup {"type"}
         /\ \/ SendLine /\ task[cur] = "running" /\ cmds' = Put(cmds, cur, IF pc = "type" THEN TypeOf(cmd) ELSE EchoOf(cmd))
               /\ UNCHANGED <<got, task, output, wire, terminalVars>> /\ (pc' = "sentinel" <=> pc = "type")
            \/ /\ pc' # "sentinel" /\ pc \in Sent /\ output[cur] # <<>>
               /\ got' = Append(got, Head(output[cur])) /\ output' = Take(output, cur)
               /\ UNCHANGED <<task, cmds, wire, terminalVars>>
            \/ /\ (pc' = "sentinel" <=> pc = "sentinel") /\ pc \in Sent
               /\ UNCHANGED <<got, task, output, cmds, wire, terminalVars>>
            \/ \E s \in Session \ {cur} : Expire(s) /\ pc' = pc /\ pc \in Sent /\ got' = got
            \/ \E s \in Session : /\ pc' = pc /\ pc \in Sent /\ got' = got
                                  /\ \/ Task(s) \/ StreamFails(s)
                                     \/ ShellWorks(s) \/ ShellExits(s) \/ HostDrops(s)
  <1>0. sessions \subseteq Session
    BY DEF ToolsTypeOK
  <1>r. pc \in Ready \cup Sent => cur \in Session /\ cmd \in Command
    BY DEF Requests
  <1>1. CASE SendLine
    <2>1. pc' # "idle"
      BY DEF Sent
    <2>2. cur \in sessions /\ task[cur] = "running" /\ UNCHANGED <<cur, cmd>>
      BY <1>1, <2>1 DEF SendLine, Answer
    <2>3. /\ cmds' = Put(cmds, cur, IF pc = "type" THEN TypeOf(cmd) ELSE EchoOf(cmd))
          /\ UNCHANGED <<got, task, output, wire, terminalVars>> /\ (pc' = "sentinel" <=> pc = "type")
          /\ pc \in Sent \cup {"type"}
      BY <1>1, <2>2 DEF SendLine, Sent
    <2> QED
      BY <1>1, <2>2, <2>3, <1>0, <1>r DEF Ready
  <1>2. CASE Collect
    <2>1. /\ UNCHANGED <<cur, cmd, sessions, task, cmds, wire, terminalVars>> /\ pc = "collect"
      BY <1>2 DEF Collect
    <2>2. pc' # "sentinel"
      BY <1>2 DEF Collect, Answer
    <2>3. \/ UNCHANGED <<got, output>>
          \/ output[cur] # <<>> /\ got' = Append(got, Head(output[cur])) /\ output' = Take(output, cur)
      BY <1>2 DEF Collect
    <2>4. pc \in Sent
      BY <2>1 DEF Sent
    <2> QED
      BY <2>1, <2>2, <2>3, <2>4, <1>0, <1>r DEF Sent
  <1>3. CASE Exists
    <2>1. UNCHANGED <<cur, cmd, sessions, got, task, output, cmds, wire, terminalVars>> /\ pc = "exists"
      BY <1>3 DEF Exists
    <2>2. pc' # "sentinel"
      BY <1>3 DEF Exists, Answer
    <2> QED
      BY <2>1, <2>2, <1>0, <1>r DEF Sent
  <1>4. CASE UNCHANGED toolsVars
    <2>1. UNCHANGED <<pc, cur, cmd, sessions, got, task, output, cmds, wire, terminalVars>>
      BY <1>4 DEF toolsVars, serverVars
    <2> QED
      BY <2>1, <1>0, <1>r DEF Sent
  <1>5. ASSUME NEW s \in Session, Expire(s)
        PROVE  UNCHANGED <<pc, cur, cmd, got>> /\ sessions' = sessions \ {s}
    BY <1>5 DEF Expire, Forget
  <1>6. CASE \E s \in Session : Expire(s)
    <2>1. PICK s \in Session : Expire(s)
      BY <1>6
    <2>2. UNCHANGED <<pc, cur, cmd, got>> /\ sessions' = sessions \ {s}
      BY <2>1, <1>5
    <2> QED
      BY <2>1, <2>2, <1>0, <1>r
  <1>7. CASE \E s \in Session : Task(s) \/ StreamFails(s) \/ ShellWorks(s) \/ ShellExits(s) \/ HostDrops(s)
    <2>1. UNCHANGED <<pc, cur, cmd, got, sessions>>
      BY <1>7 DEF Task, TaskReads, TaskSends, SessionGone, StreamFails, ShellWorks, ShellExits, HostDrops,
                  serverVars
    <2> QED
      BY <1>7, <2>1, <1>0, <1>r
  <1>8. Opening \/ Drain \/ Timeout \/ Remove \/ Authenticated \/ Eof => pc' \notin Sent
    BY DEF Opening, Abandon, Drain, Timeout, Remove, Authenticated, Eof, Answer, Sent
  <1>9. ASSUME NEW s \in Session \cup {NoSession}, Connect(s) \/ RunCommand(s) \/ CloseTerminal(s)
        PROVE  pc' \notin Sent
    BY <1>9 DEF Connect, RunCommand, CloseTerminal, Answer, Sent
  <1> QED
    BY <1>1, <1>2, <1>3, <1>4, <1>6, <1>7, <1>8, <1>9 DEF ToolsNext, Server

\* What happens in one session leaves another as it is.
LEMMA Elsewhere ==
  ASSUME ToolsTypeOK, NEW t \in Session, NEW s \in Session, s # t,
         \/ Expire(s) \/ Task(s) \/ StreamFails(s)
         \/ ShellWorks(s) \/ ShellExits(s) \/ HostDrops(s)
  PROVE  /\ output'[t] = output[t] /\ wire'[t] = wire[t] /\ lines'[t] = lines[t] /\ cmds'[t] = cmds[t]
         /\ progress'[t] = progress[t] /\ task'[t] = task[t] /\ shell'[t] = shell[t]
  <1>0. /\ DOMAIN cmds = Session /\ DOMAIN wire = Session /\ DOMAIN output = Session
        /\ DOMAIN lines = Session /\ DOMAIN task = Session /\ DOMAIN shell = Session
        /\ DOMAIN progress = Session
    BY DEF ToolsTypeOK
  <1>1. ASSUME Expire(s)
        PROVE  output'[t] = output[t] /\ UNCHANGED <<wire, lines, cmds, progress, task, shell>>
    BY <1>0, <1>1 DEF Expire, Forget, terminalVars
  <1>2. ASSUME Ends(s)
        PROVE  wire'[t] = wire[t] /\ cmds'[t] = cmds[t] /\ task'[t] = task[t]
    BY <1>0, <1>2 DEF Ends
  <1>3. ASSUME SessionGone(s) \/ StreamFails(s)
        PROVE  Ends(s) /\ UNCHANGED <<output, lines, progress, shell>>
    BY <1>3 DEF SessionGone, StreamFails, terminalVars
  <1>4. ASSUME TaskReads(s)
        PROVE  /\ wire'[t] = wire[t] /\ cmds'[t] = cmds[t] /\ task'[t] = task[t] /\ output'[t] = output[t]
               /\ UNCHANGED <<lines, progress, shell>>
    <2>1. /\ UNCHANGED <<lines, progress, shell>>
          /\ \/ Ends(s) /\ UNCHANGED output
             \/ /\ UNCHANGED <<task, cmds>> /\ wire' = Take(wire, s)
                /\ output' = output \/ output' = Put(output, s, Head(wire[s]))
      BY <1>4 DEF TaskReads, terminalVars
    <2> QED
      BY <2>1, <1>0, <1>2 DEF Put, Take
  <1>5. ASSUME TaskSends(s)
        PROVE  /\ cmds'[t] = cmds[t] /\ wire'[t] = wire[t] /\ lines'[t] = lines[t]
               /\ progress'[t] = progress[t] /\ shell'[t] = shell[t] /\ UNCHANGED <<task, output>>
    <2>1. cmds' = Take(cmds, s) /\ UNCHANGED <<task, output>>
      BY <1>5 DEF TaskSends
    <2>2. wire' = wire \/ \E x : wire' = Put(wire, s, x)
      BY <1>5 DEF TaskSends
    <2>3. lines' = lines \/ \E x : lines' = Put(lines, s, x) \/ lines' = [lines EXCEPT ![s] = x]
      BY <1>5 DEF TaskSends
    <2>4. shell' = shell \/ \E x : shell' = [shell EXCEPT ![s] = x]
      BY <1>5 DEF TaskSends
    <2>5. progress' = progress \/ progress' = [progress EXCEPT ![s] = 0]
      BY <1>5 DEF TaskSends
    <2> QED
      BY <2>1, <2>2, <2>3, <2>4, <2>5, <1>0 DEF Put, Take
  <1>6. ASSUME ShellWorks(s)
        PROVE  /\ wire'[t] = wire[t] /\ lines'[t] = lines[t] /\ progress'[t] = progress[t]
               /\ UNCHANGED <<task, cmds, output, shell>>
    <2>1. UNCHANGED <<task, cmds, output, shell>>
      BY <1>6 DEF ShellWorks
    <2>2. wire' = wire \/ \E x : wire' = Put(wire, s, x)
      BY <1>6 DEF ShellWorks
    <2>3. lines' = lines \/ lines' = Take(lines, s)
      BY <1>6 DEF ShellWorks
    <2>4. \E x : progress' = [progress EXCEPT ![s] = x]
      BY <1>6 DEF ShellWorks
    <2> QED
      BY <2>1, <2>2, <2>3, <2>4, <1>0 DEF Put, Take
  <1>7. ASSUME ShellExits(s) \/ HostDrops(s)
        PROVE  /\ wire'[t] = wire[t] /\ lines'[t] = lines[t] /\ progress'[t] = progress[t]
               /\ shell'[t] = shell[t] /\ UNCHANGED <<task, cmds, output>>
    BY <1>0, <1>7 DEF ShellExits, HostDrops, ShellDown, Put
  <1> QED
    BY <1>1, <1>2, <1>3, <1>4, <1>5, <1>6, <1>7 DEF Task

\* The work of a shell that is at the first of its lines.
LEMMA ShellStep ==
  ASSUME NEW k \in Command, NEW f \in Seq(Msgs), NEW l \in Seq(LineOf(Command)), l # <<>>,
         NEW c \in Seq(Works), NEW p \in Nat, Progress(k, f, Cat(l, c), p, TRUE),
         NEW n, n = Head(l)[2]
  PROVE  /\ Head(l)[1] = "type" /\ p < Pieces =>
              /\ Progress(k, Append(f, OutOf(n, p + 1)), Cat(l, c), p + 1, TRUE)
              /\ Unmarked(k, f, Cat(l, c)) => Unmarked(k, Append(f, OutOf(n, p + 1)), Cat(l, c))
         /\ Head(l)[1] = "type" /\ ~(p < Pieces) =>
              /\ Progress(k, f, Cat(Tail(l), c), 0, TRUE)
              /\ Unmarked(k, f, Cat(l, c)) => Unmarked(k, f, Cat(Tail(l), c))
         /\ Head(l)[1] = "echo" =>
              /\ Progress(k, Append(f, MarkOf(n)), Cat(Tail(l), c), 0, TRUE)
              /\ Unmarked(k, f, Cat(l, c)) => Unmarked(k, Append(f, MarkOf(n)), Cat(Tail(l), c))
              /\ Progress(k, f, Cat(Tail(l), c), 0, TRUE)
              /\ Unmarked(k, f, Cat(l, c)) => Unmarked(k, f, Cat(Tail(l), c))
         /\ Head(l)[1] \in {"type", "echo"} /\ n \in Command
  <1>1. Head(l) \in LineOf(Command)
    OBVIOUS
  <1>2. /\ Head(l)[1] \in {"type", "echo"} /\ n \in Command
        /\ Head(l)[1] = "type" => Head(l) = TypeOf(n)
        /\ Head(l)[1] = "echo" => Head(l) = EchoOf(n)
    BY <1>1, Kinds
  <1>3. l \in Seq(Works)
    BY DEF Works
  <1>4. PICK w \in Seq(Works) : w = Cat(l, c)
    BY <1>3, CatPlaces
  <1>5. Tail(w) = Cat(Tail(l), c) /\ w # <<>> /\ w[1] = Head(l)
    <2>1. Tail(Cat(l, c)) = Cat(Tail(l), c) /\ Cat(l, c) # <<>> /\ Cat(l, c)[1] = Head(l)
      BY <1>3, CatFirst, Zenon
    <2> QED
      BY <2>1, <1>4, Zenon
  <1>6. Progress(k, f, w, p, TRUE)
    BY <1>4
  <1>7. Part(Tail(w), w, 1) /\ Tail(w) \in Seq(Works)
    BY <1>5, LineTaken DEF Part
  <1>8. Pieces \in Nat
    BY McpBounds
  <1>9. ASSUME Head(l)[1] = "type", p < Pieces
        PROVE  /\ Progress(k, Append(f, OutOf(n, p + 1)), w, p + 1, TRUE)
               /\ Unmarked(k, f, w) => Unmarked(k, Append(f, OutOf(n, p + 1)), w)
    <2>1. Progress(k, Append(f, OutOf(n, p + 1)), w, p + 1, TRUE)
      BY <1>2, <1>5, <1>6, <1>9, OutComes
    <2>2. p + 1 \in 1..Pieces
      BY <1>8, <1>9
    <2>3. OutOf(n, p + 1) \in Msgs /\ OutOf(n, p + 1) # MarkOf(k)
      <3>1. OutOf(n, p + 1) \in PieceOf(Command)
        BY <1>2, <2>2 DEF OutOf, PieceOf
      <3>2. OutOf(n, p + 1) # MarkOf(k)
        BY Names
      <3> QED
        BY <3>1, <3>2 DEF Msgs
    <2> QED
      BY <2>1, <2>3, StaysUnmarked
  <1>10. ASSUME Head(l)[1] = "type", ~(p < Pieces)
         PROVE  /\ Progress(k, f, Tail(w), 0, TRUE)
                /\ Unmarked(k, f, w) => Unmarked(k, f, Tail(w))
    <2>1. p >= Pieces
      BY <1>8, <1>10
    <2>2. Progress(k, f, Tail(w), 0, TRUE)
      BY <1>2, <1>5, <1>6, <1>10, <2>1, LineDone
    <2> QED
      BY <2>2, <1>7, StaysUnmarked
  <1>11. ASSUME Head(l)[1] = "echo"
         PROVE  /\ Progress(k, Append(f, MarkOf(n)), Tail(w), 0, TRUE)
                /\ Unmarked(k, f, w) => Unmarked(k, Append(f, MarkOf(n)), Tail(w))
                /\ Progress(k, f, Tail(w), 0, TRUE)
                /\ Unmarked(k, f, w) => Unmarked(k, f, Tail(w))
    <2>1. Progress(k, Append(f, MarkOf(n)), Tail(w), 0, TRUE)
      BY <1>2, <1>5, <1>6, <1>11, MarkComes
    <2>0. Progress(k, f, Tail(w), 0, TRUE)
      BY <1>2, <1>5, <1>6, <1>11, LineDone
    <2>u. Unmarked(k, f, w) => Unmarked(k, f, Tail(w))
      BY <2>0, <1>7, StaysUnmarked
    <2>2. ASSUME Unmarked(k, f, w)
          PROVE  Unmarked(k, Append(f, MarkOf(n)), Tail(w))
      <3>1. EchoOf(n) # EchoOf(k)
        <4>1. 1 \in DOMAIN w
          BY <1>5, LineTaken
        <4> QED
          BY <4>1, <2>2, <1>2, <1>5, <1>11 DEF Unmarked
      <3>2. n # k
        BY <3>1
      <3>3. MarkOf(n) # MarkOf(k) /\ MarkOf(n) \in Msgs
        <4>1. MarkOf(n) # MarkOf(k)
          BY <3>2, Names
        <4>2. MarkOf(n) \in PieceOf(Command)
          BY <1>2 DEF MarkOf, PieceOf
        <4> QED
          BY <4>1, <4>2 DEF Msgs
      <3>4. Unmarked(k, f, Tail(w))
        BY <2>2, <1>7, StaysUnmarked
      <3> QED
        BY <3>3, <3>4, <1>7, StaysUnmarked
    <2> QED
      BY <2>0, <2>u, <2>1, <2>2
  <1> QED
    BY <1>2, <1>4, <1>5, <1>9, <1>10, <1>11

\* A command is as far with its shell gone as it was with it.
LEMMA LiveOrNot ==
  ASSUME NEW k, NEW f, NEW w, NEW p, Progress(k, f, w, p, TRUE)
  PROVE  Progress(k, f, w, p, FALSE)
  BY DEF Progress

\* The end of a shell comes of no command.
LEMMA ClosedComes ==
  ASSUME NEW k \in Command
  PROVE  Closed \in Msgs /\ ~IsOut(Closed, k) /\ Closed # MarkOf(k)
  BY DEF Msgs, Closed, IsOut, MarkOf

\* What is of other commands is not of this one.
LEMMA OfOthers ==
  ASSUME NEW k, NEW K, k \notin K
  PROVE  /\ \A m \in PieceOf(K) \cup State \cup {Closed} : ~IsOut(m, k) /\ m # MarkOf(k)
         /\ \A x \in LineOf(K) \cup {Open, Close} : x \notin {TypeOf(k), EchoOf(k)}
  BY DEF PieceOf, State, Closed, IsOut, MarkOf, LineOf, Open, Close, TypeOf, EchoOf

\* Before a command is typed, nothing is on the way of it.
LEMMA NotYet ==
  ASSUME ToolsTypeOK, Requests, Numbered, pc = "type"
  PROVE  /\ \A j \in DOMAIN Flow : ~IsOut(Flow[j], cmd) /\ Flow[j] # MarkOf(cmd)
         /\ \A i \in DOMAIN Work : Work[i] \notin {TypeOf(cmd), EchoOf(cmd)}
  <1>1. cur \in Session /\ cmd \in Command /\ got = <<>>
    BY DEF Requests, Ready
  <1>2. PICK K : K = 1..(cmd - 1)
    OBVIOUS
  <1>3. cmd \notin K
    BY <1>1, <1>2 DEF Command
  <1> DEFINE S == PieceOf(K) \cup State \cup {Closed}
             W == LineOf(K) \cup {Open, Close}
  <1>4. /\ output[cur] \in Seq(PieceOf(K) \cup State) /\ wire[cur] \in Seq(S) /\ lines[cur] \in Seq(LineOf(K))
        /\ cmds[cur] \in Seq(W)
    BY <1>1, <1>2 DEF Numbered, Typed, Ready, OnlyOf
  <1>5. /\ got \in Seq(S) /\ output[cur] \in Seq(S) /\ wire[cur] \in Seq(S)
        /\ lines[cur] \in Seq(W) /\ cmds[cur] \in Seq(W)
    BY <1>1, <1>4
  <1>6. /\ \A m \in S : ~IsOut(m, cmd) /\ m # MarkOf(cmd)
        /\ \A x \in W : x \notin {TypeOf(cmd), EchoOf(cmd)}
    BY <1>3, OfOthers
  <1> HIDE DEF S, W
  <1>7. Flow \in Seq(S) /\ Work \in Seq(W)
    <2>1. got \o output[cur] \in Seq(S)
      BY <1>5, ConcatProperties
    <2> QED
      BY <2>1, <1>5, ConcatProperties DEF Flow, Work
  <1>8. (\A j \in DOMAIN Flow : Flow[j] \in S) /\ \A i \in DOMAIN Work : Work[i] \in W
    BY <1>7
  <1> QED
    BY <1>6, <1>8

\* What comes of the command in use, and what is to be done, after a step.
LEMMA StepFlows ==
  ASSUME ToolsTypeOK, Requests, OpenedOnce, Numbered, Flows, [ToolsNext]_toolsVars
  PROVE  Flows'
  <1> SUFFICES ASSUME pc' \in Sent, cur' \in sessions'
               PROVE  /\ Progress(cmd, Flow', Work', progress'[cur], Live(cur)')
                      /\ pc' = "sentinel" => Unmarked(cmd, Flow', Work')
    <2>1. pc' \in Sent /\ cur' \in sessions' => cur' = cur /\ cmd' = cmd
      BY SentStep
    <2> QED
      BY <2>1 DEF Flows
  <1>1. /\ cur' = cur /\ cmd' = cmd /\ cur \in sessions /\ cur \in Session
        /\ cmd \in Command /\ pc \in Sent \cup {"type"}
    BY SentStep
  <1>2. PICK k \in Command, g \in Seq(Msgs), o \in Seq(Msgs), r \in Seq(Msgs),
             l \in Seq(LineOf(Command)), c \in Seq(Works), p \in Nat :
        /\ k = cmd /\ g = got /\ o = output[cur] /\ r = wire[cur] /\ l = lines[cur] /\ c = cmds[cur]
        /\ p = progress[cur]
    <2>1. lines[cur] \in Seq(LineOf(Command)) /\ progress[cur] \in 0..Pieces /\ Pieces \in Nat
      BY <1>1, McpBounds DEF ToolsTypeOK
    <2>2. progress[cur] \in Nat
      BY <2>1
    <2> QED
      BY <1>1, <2>1, <2>2, FlowPlaces
  <1>l. l \in Seq(Works)
    BY DEF Works
  <1>d. /\ DOMAIN cmds = Session /\ DOMAIN wire = Session /\ DOMAIN output = Session
        /\ DOMAIN lines = Session /\ DOMAIN task = Session /\ DOMAIN shell = Session
        /\ DOMAIN progress = Session
    BY DEF ToolsTypeOK
  <1>z. /\ shell[cur] # "up" => l = <<>>
        /\ l = <<>> => p = 0
        /\ c \in Seq(LineOf(Command) \cup {Close})
    BY <1>1, <1>2 DEF OpenedOnce, OpenedFirst
  <1> DEFINE f == Cat(Cat(g, o), r)
             w == Cat(l, c)
  <1>3. f = Flow /\ w = Work
    BY <1>2 DEF Flow, Work, Cat
  <1>4. f \in Seq(Msgs) /\ w \in Seq(Works) /\ Cat(g, o) \in Seq(Msgs)
    BY <1>l, CatPlaces
  <1>5. ASSUME pc \in Sent
        PROVE  /\ Progress(k, f, w, p, FALSE)
               /\ task[cur] = "running" /\ shell[cur] = "up" => Progress(k, f, w, p, TRUE)
               /\ pc = "sentinel" => Unmarked(k, f, w)
    <2>1. Progress(k, f, w, p, Live(cur)) /\ (pc = "sentinel" => Unmarked(k, f, w))
      BY <1>1, <1>2, <1>3, <1>5 DEF Flows
    <2> QED
      BY <2>1 DEF Progress, Live
  <1>n. got' = g /\ output'[cur] = o /\ wire'[cur] = r => Flow' = f
    BY <1>1 DEF Flow, Cat
  <1>w. lines'[cur] = l /\ cmds'[cur] = c => Work' = w
    BY <1>1 DEF Work, Cat
  <1>q. ASSUME NEW h, NEW v, NEW q, Flow' = h, Work' = v, progress'[cur] = q,
               Progress(k, h, v, q, FALSE),
               task'[cur] = "running" /\ shell'[cur] = "up" => Progress(k, h, v, q, TRUE),
               pc' = "sentinel" => Unmarked(k, h, v)
        PROVE  /\ Progress(cmd, Flow', Work', progress'[cur], Live(cur)')
               /\ pc' = "sentinel" => Unmarked(cmd, Flow', Work')
    <2>1. Progress(k, h, v, q, Live(cur)')
      BY <1>1, <1>q DEF Progress, Live
    <2> QED
      BY <2>1, <1>2, <1>q
  <1> HIDE DEF f, w
  <1>6. ASSUME pc' \in Sent, pc \in Sent, pc' = "sentinel" => pc = "sentinel",
               Flow' = f, Work' = w, progress'[cur] = p,
               task'[cur] = "running" /\ shell'[cur] = "up" => task[cur] = "running" /\ shell[cur] = "up"
        PROVE  /\ Progress(cmd, Flow', Work', progress'[cur], Live(cur)')
               /\ pc' = "sentinel" => Unmarked(cmd, Flow', Work')
    BY <1>5, <1>6, <1>q
  <1>10. CASE /\ SendLine /\ task[cur] = "running"
              /\ cmds' = Put(cmds, cur, IF pc = "type" THEN TypeOf(cmd) ELSE EchoOf(cmd))
              /\ UNCHANGED <<got, task, output, wire, terminalVars>> /\ (pc' = "sentinel" <=> pc = "type")
    <2>1. /\ output'[cur] = o /\ wire'[cur] = r /\ lines'[cur] = l /\ progress'[cur] = p /\ got' = g
          /\ shell' = shell /\ task' = task
      BY <1>2, <1>10 DEF terminalVars
    <2>2. Flow' = f
      BY <2>1, <1>n
    <2>3. CASE pc = "type"
      <3>1. cmds'[cur] = Append(c, TypeOf(k))
        BY <1>1, <1>2, <1>d, <1>10, <2>3 DEF Put
      <3>2. TypeOf(k) \in Works
        BY Kinds DEF Works, LineOf, TypeOf
      <3>3. Work' = Append(w, TypeOf(k))
        <4>1. Work' = Cat(l, Append(c, TypeOf(k)))
          BY <1>1, <2>1, <3>1 DEF Work, Cat
        <4>2. Cat(l, Append(c, TypeOf(k))) = Append(w, TypeOf(k))
          BY <3>2, <1>l, CatSteps DEF w
        <4> QED
          BY <4>1, <4>2, Zenon
      <3>4. \A j \in DOMAIN f : ~IsOut(f[j], k) /\ f[j] # MarkOf(k)
        BY <2>3, <1>2, <1>3, NotYet
      <3>5. \A i \in DOMAIN w : w[i] \notin {TypeOf(k), EchoOf(k)}
        BY <2>3, <1>2, <1>3, NotYet
      <3>6. w = <<>> => p = 0
        BY <1>z, <1>l, CatFirst DEF w
      <3>7. /\ Progress(k, f, Append(w, TypeOf(k)), p, FALSE)
            /\ Progress(k, f, Append(w, TypeOf(k)), p, TRUE)
            /\ Unmarked(k, f, Append(w, TypeOf(k)))
        BY <1>4, <3>4, <3>5, <3>6, TypeBegins
      <3> QED
        BY <2>1, <2>2, <3>3, <3>7, <1>q
    <2>4. CASE pc # "type"
      <3>0. pc = "sentinel" /\ pc \in Sent /\ pc' # "sentinel"
        BY <1>10, <2>4 DEF SendLine, Sent
      <3>1. cmds'[cur] = Append(c, EchoOf(k))
        BY <1>1, <1>2, <1>d, <1>10, <2>4 DEF Put
      <3>2. EchoOf(k) \in Works
        BY Kinds DEF Works, LineOf, EchoOf
      <3>3. Work' = Append(w, EchoOf(k))
        <4>1. Work' = Cat(l, Append(c, EchoOf(k)))
          BY <1>1, <2>1, <3>1 DEF Work, Cat
        <4>2. Cat(l, Append(c, EchoOf(k))) = Append(w, EchoOf(k))
          BY <3>2, <1>l, CatSteps DEF w
        <4> QED
          BY <4>1, <4>2, Zenon
      <3>4. Progress(k, f, Append(w, EchoOf(k)), p, FALSE)
        BY <3>0, <1>4, <1>5, EchoFollows
      <3>5. task[cur] = "running" /\ shell[cur] = "up" => Progress(k, f, Append(w, EchoOf(k)), p, TRUE)
        BY <3>0, <1>4, <1>5, EchoFollows
      <3> QED
        BY <2>1, <2>2, <3>0, <3>3, <3>4, <3>5, <1>q
    <2> QED
      BY <2>3, <2>4
  <1>11. CASE /\ pc' # "sentinel" /\ pc \in Sent /\ output[cur] # <<>>
              /\ got' = Append(got, Head(output[cur])) /\ output' = Take(output, cur)
              /\ UNCHANGED <<task, cmds, wire, terminalVars>>
    <2>1. /\ o # <<>> /\ got' = Append(g, Head(o)) /\ output'[cur] = Tail(o) /\ wire'[cur] = r
          /\ lines'[cur] = l /\ cmds'[cur] = c /\ progress'[cur] = p
          /\ shell' = shell /\ task' = task
      BY <1>1, <1>2, <1>d, <1>11 DEF terminalVars, Take
    <2>2. Flow' = f
      <3>1. Flow' = Cat(Cat(Append(g, Head(o)), Tail(o)), r)
        BY <1>1, <2>1 DEF Flow, Cat
      <3>2. Cat(Append(g, Head(o)), Tail(o)) = Cat(g, o)
        BY <2>1, CatSteps
      <3> QED
        BY <3>1, <3>2, Zenon DEF f
    <2> QED
      BY <2>1, <2>2, <1>11, <1>w, <1>6
  <1>12. CASE /\ (pc' = "sentinel" <=> pc = "sentinel") /\ pc \in Sent
              /\ UNCHANGED <<got, task, output, cmds, wire, terminalVars>>
    <2>1. /\ output'[cur] = o /\ wire'[cur] = r /\ lines'[cur] = l /\ progress'[cur] = p /\ got' = g
          /\ cmds'[cur] = c /\ shell' = shell /\ task' = task
      BY <1>2, <1>12 DEF terminalVars
    <2> QED
      BY <2>1, <1>12, <1>n, <1>w, <1>6
  <1>13. ASSUME NEW s \in Session \ {cur}, pc' = pc, pc \in Sent, got' = got,
                \/ Expire(s) \/ Task(s) \/ StreamFails(s)
                \/ ShellWorks(s) \/ ShellExits(s) \/ HostDrops(s)
         PROVE  /\ Progress(cmd, Flow', Work', progress'[cur], Live(cur)')
                /\ pc' = "sentinel" => Unmarked(cmd, Flow', Work')
    <2>1. /\ output'[cur] = o /\ wire'[cur] = r /\ lines'[cur] = l /\ progress'[cur] = p /\ got' = g
          /\ cmds'[cur] = c /\ shell'[cur] = shell[cur] /\ task'[cur] = task[cur]
      BY <1>1, <1>2, <1>13, Elsewhere
    <2> QED
      BY <2>1, <1>13, <1>n, <1>w, <1>6
  <1>14. ASSUME pc' = pc, pc \in Sent, got' = got,
                \/ Task(cur) \/ StreamFails(cur)
                \/ ShellWorks(cur) \/ ShellExits(cur) \/ HostDrops(cur)
         PROVE  /\ Progress(cmd, Flow', Work', progress'[cur], Live(cur)')
                /\ pc' = "sentinel" => Unmarked(cmd, Flow', Work')
    <2>p. /\ Progress(k, f, w, p, FALSE)
          /\ task[cur] = "running" /\ shell[cur] = "up" => Progress(k, f, w, p, TRUE)
          /\ pc' = "sentinel" => Unmarked(k, f, w)
      BY <1>5, <1>14
    <2>1. CASE Ends(cur) /\ UNCHANGED <<output, terminalVars>>
      <3>1. /\ output'[cur] = o /\ wire'[cur] = <<>> /\ lines'[cur] = l /\ progress'[cur] = p
            /\ cmds'[cur] = <<>> /\ task'[cur] = "ended"
        BY <1>1, <1>2, <1>d, <2>1 DEF Ends, terminalVars
      <3>2. Flow' = Cat(g, o)
        <4>1. Flow' = Cat(Cat(g, o), <<>>)
          BY <1>1, <1>2, <1>14, <3>1 DEF Flow, Cat
        <4> QED
          BY <4>1, <1>4, CatSteps
      <3>3. Work' = l
        <4>1. Work' = Cat(l, <<>>)
          BY <1>1, <3>1 DEF Work, Cat
        <4> QED
          BY <4>1, <1>l, CatSteps
      <3>4. /\ Progress(k, Cat(g, o), l, p, FALSE)
            /\ Unmarked(k, f, w) => Unmarked(k, Cat(g, o), l)
        BY <2>p, <1>4, <1>l, StreamGone DEF f, w
      <3> QED
        BY <3>1, <3>2, <3>3, <3>4, <2>p, <1>q
    <2>2. CASE TaskReads(cur)
      <3>1. Held(cur)
        BY <1>1 DEF Held
      <3>2. CASE Ends(cur) /\ UNCHANGED <<output, terminalVars>>
        BY <3>2, <2>1
      <3>3. CASE /\ wire[cur] # <<>> /\ wire' = Take(wire, cur) /\ output' = Put(output, cur, Head(wire[cur]))
                 /\ UNCHANGED <<task, cmds, terminalVars>>
        <4>1. /\ r # <<>> /\ output'[cur] = Append(o, Head(r)) /\ wire'[cur] = Tail(r) /\ lines'[cur] = l
              /\ progress'[cur] = p /\ cmds'[cur] = c /\ task' = task /\ shell' = shell
          BY <1>1, <1>2, <1>d, <3>3 DEF Put, Take, terminalVars
        <4>2. Flow' = f
          <5>1. Flow' = Cat(Cat(g, Append(o, Head(r))), Tail(r))
            BY <1>1, <1>2, <1>14, <4>1 DEF Flow, Cat
          <5>2. Cat(g, Append(o, Head(r))) = Append(Cat(g, o), Head(r))
            <6>1. Head(r) \in Msgs
              BY <4>1
            <6>2. \A x \in Msgs : Cat(g, Append(o, x)) = Append(Cat(g, o), x)
              BY CatSteps
            <6> QED
              BY <6>1, <6>2, Zenon
          <5>3. Cat(Append(Cat(g, o), Head(r)), Tail(r)) = f
            BY <4>1, <1>4, CatSteps DEF f
          <5> QED
            BY <5>1, <5>2, <5>3, Zenon
        <4> QED
          BY <4>1, <4>2, <1>14, <1>w, <1>6
      <3> QED
        BY <2>2, <3>1, <3>2, <3>3 DEF TaskReads
    <2>g. ASSUME NEW v \in Seq(Works), v = c \/ (c # <<>> /\ v = Tail(c)),
                 got' = g, output'[cur] = o, wire'[cur] = r \/ wire'[cur] = Append(r, Closed),
                 lines'[cur] = <<>>, cmds'[cur] = v, progress'[cur] = 0, shell'[cur] # "up"
          PROVE  /\ Progress(cmd, Flow', Work', progress'[cur], Live(cur)')
                 /\ pc' = "sentinel" => Unmarked(cmd, Flow', Work')
      <3>1. Work' = v
        <4>1. Work' = Cat(<<>>, v)
          BY <1>1, <2>g DEF Work, Cat
        <4> QED
          BY <4>1, CatSteps
      <3>2. Progress(k, f, v, 0, FALSE) /\ (Unmarked(k, f, w) => Unmarked(k, f, v))
        <4>1. /\ Progress(k, f, c, 0, FALSE)
              /\ c # <<>> => Progress(k, f, Tail(c), 0, FALSE)
              /\ Unmarked(k, f, w) => /\ Unmarked(k, f, c)
                                      /\ c # <<>> => Unmarked(k, f, Tail(c))
          BY <2>p, <1>4, <1>l, <1>z, ShellGone DEF w
        <4> QED
          BY <4>1, <2>g
      <3>3. CASE wire'[cur] = r
        <4>1. Flow' = f
          BY <2>g, <3>3, <1>n
        <4> QED
          BY <3>1, <3>2, <4>1, <2>g, <2>p, <1>q
      <3>4. CASE wire'[cur] = Append(r, Closed)
        <4>1. Flow' = Append(f, Closed)
          <5>1. Flow' = Cat(Cat(g, o), Append(r, Closed))
            BY <1>1, <2>g, <3>4 DEF Flow, Cat
          <5>2. Closed \in Msgs
            BY ClosedComes
          <5>3. Cat(Cat(g, o), Append(r, Closed)) = Append(f, Closed)
            BY <5>2, <1>4, CatSteps DEF f
          <5> QED
            BY <5>1, <5>3, Zenon
        <4>2. Closed \in Msgs /\ ~IsOut(Closed, k) /\ Closed # MarkOf(k)
          BY ClosedComes
        <4>3. Progress(k, Append(f, Closed), v, 0, FALSE)
          BY <3>2, <4>2, <1>4, OtherComes
        <4>4. Unmarked(k, f, w) => Unmarked(k, Append(f, Closed), v)
          BY <3>2, <4>2, <1>4, StaysUnmarked
        <4> QED
          BY <3>1, <4>1, <4>3, <4>4, <2>g, <2>p, <1>q
      <3> QED
        BY <2>g, <3>3, <3>4
    <2>3. CASE TaskSends(cur)
      <3> DEFINE m == Head(c)
      <3>1. c # <<>> /\ cmds'[cur] = Tail(c) /\ task' = task /\ output'[cur] = o
        BY <1>1, <1>2, <1>d, <2>3 DEF TaskSends, Take
      <3>2. m \in LineOf(Command) \cup {Close} /\ Tail(c) \in Seq(Works)
        BY <3>1, <1>z
      <3>3. m[1] # "open"
        <4>1. Close[1] = "close" /\ \A x \in LineOf(Command) : x[1] \in {"type", "echo"}
          BY Kinds
        <4> QED
          BY <3>2, <4>1
      <3>4. CASE m[1] = "close"
        <4>1. /\ shell'[cur] = "down" /\ lines'[cur] = <<>> /\ progress'[cur] = 0
              /\ wire'[cur] = r \/ wire'[cur] = Append(r, Closed)
          BY <1>1, <1>2, <1>d, <2>3, <3>4 DEF TaskSends, Put
        <4> QED
          BY <3>1, <3>2, <4>1, <1>2, <1>14, <2>g
      <3>5. CASE m[1] # "close"
        <4>1. /\ UNCHANGED <<shell, wire, progress>>
              /\ lines' = IF shell[cur] = "up" THEN Put(lines, cur, m) ELSE lines
          BY <1>2, <2>3, <3>3, <3>5 DEF TaskSends
        <4>2. CASE shell[cur] = "up"
          <5>1. lines'[cur] = Append(l, m)
            BY <1>1, <1>2, <1>d, <4>1, <4>2 DEF Put
          <5>2. Work' = w
            <6>1. Work' = Cat(Append(l, Head(c)), Tail(c))
              BY <1>1, <3>1, <5>1 DEF Work, Cat
            <6>2. Cat(Append(l, Head(c)), Tail(c)) = Cat(l, c)
              BY <3>1, <1>l, CatSteps
            <6> QED
              BY <6>1, <6>2, Zenon DEF w
          <5>3. Flow' = f /\ progress'[cur] = p
            BY <3>1, <4>1, <1>2, <1>14, <1>n
          <5> QED
            BY <3>1, <4>1, <5>2, <5>3, <1>14, <1>6
        <4>3. CASE shell[cur] # "up"
          <5>1. lines'[cur] = <<>> /\ progress'[cur] = 0 /\ wire'[cur] = r /\ shell'[cur] # "up"
            BY <1>2, <1>z, <4>1, <4>3
          <5> QED
            BY <3>1, <3>2, <5>1, <1>2, <1>14, <2>g
        <4> QED
          BY <4>2, <4>3
      <3> QED
        BY <3>4, <3>5
    <2>4. CASE SessionGone(cur)
      BY <2>4, <1>1 DEF SessionGone, Held
    <2>5. CASE StreamFails(cur)
      BY <2>5, <2>1 DEF StreamFails
    <2>6. CASE ShellWorks(cur)
      <3> DEFINE n == Head(l)[2]
      <3>1. /\ l # <<>> /\ task[cur] = "running" /\ shell[cur] = "up" /\ output'[cur] = o /\ cmds'[cur] = c
            /\ shell' = shell /\ task' = task
        BY <1>2, <2>6 DEF ShellWorks
      <3>2. /\ Head(l)[1] = "type" /\ p < Pieces =>
                 /\ Progress(k, Append(f, OutOf(n, p + 1)), w, p + 1, TRUE)
                 /\ Unmarked(k, f, w) => Unmarked(k, Append(f, OutOf(n, p + 1)), w)
            /\ Head(l)[1] = "type" /\ ~(p < Pieces) =>
                 /\ Progress(k, f, Cat(Tail(l), c), 0, TRUE)
                 /\ Unmarked(k, f, w) => Unmarked(k, f, Cat(Tail(l), c))
            /\ Head(l)[1] = "echo" =>
                 /\ Progress(k, Append(f, MarkOf(n)), Cat(Tail(l), c), 0, TRUE)
                 /\ Unmarked(k, f, w) => Unmarked(k, Append(f, MarkOf(n)), Cat(Tail(l), c))
                 /\ Progress(k, f, Cat(Tail(l), c), 0, TRUE)
                 /\ Unmarked(k, f, w) => Unmarked(k, f, Cat(Tail(l), c))
            /\ Head(l)[1] \in {"type", "echo"} /\ n \in Command
        BY <2>p, <3>1, <1>4, ShellStep DEF w
      <3> HIDE DEF n
      <3>a. ASSUME NEW m \in Msgs, wire'[cur] = Append(r, m)
            PROVE  Flow' = Append(f, m)
        <4>1. Flow' = Cat(Cat(g, o), Append(r, m))
          BY <1>1, <1>2, <1>14, <3>1, <3>a DEF Flow, Cat
        <4>2. Cat(Cat(g, o), Append(r, m)) = Append(f, m)
          BY <1>4, CatSteps DEF f
        <4> QED
          BY <4>1, <4>2, Zenon
      <3>b. lines'[cur] = Tail(l) => Work' = Cat(Tail(l), c)
        BY <1>1, <3>1 DEF Work, Cat
      <3>3. CASE Head(l)[1] = "type" /\ p < Pieces
        <4>1. wire'[cur] = Append(r, OutOf(n, p + 1)) /\ progress'[cur] = p + 1 /\ lines'[cur] = l
          BY <1>1, <1>2, <1>d, <2>6, <3>3 DEF ShellWorks, Put, n
        <4>2. OutOf(n, p + 1) \in Msgs
          <5>1. p + 1 \in 1..Pieces
            BY <3>3, McpBounds
          <5> QED
            BY <5>1, <3>2 DEF Msgs, PieceOf, OutOf
        <4>3. Flow' = Append(f, OutOf(n, p + 1)) /\ Work' = w
          BY <4>1, <4>2, <3>1, <3>a, <1>w
        <4>4. Progress(k, Append(f, OutOf(n, p + 1)), w, p + 1, FALSE)
          BY <3>2, <3>3, LiveOrNot
        <4> QED
          BY <4>1, <4>3, <4>4, <3>2, <3>3, <2>p, <1>q
      <3>4. CASE ~(Head(l)[1] = "type" /\ p < Pieces) /\ wire' = wire
        <4>1. wire'[cur] = r /\ progress'[cur] = 0 /\ lines'[cur] = Tail(l)
          BY <1>1, <1>2, <1>d, <2>6, <3>4 DEF ShellWorks, Take
        <4>3. Flow' = f /\ Work' = Cat(Tail(l), c)
          BY <4>1, <3>1, <3>b, <1>2, <1>14, <1>n
        <4>4. Progress(k, f, Cat(Tail(l), c), 0, FALSE)
          BY <3>2, <3>4, LiveOrNot
        <4> QED
          BY <4>1, <4>3, <4>4, <3>2, <3>4, <2>p, <1>q
      <3>5. CASE Head(l)[1] = "echo" /\ wire' = Put(wire, cur, MarkOf(Head(l)[2]))
        <4>1. wire'[cur] = Append(r, MarkOf(n)) /\ progress'[cur] = 0 /\ lines'[cur] = Tail(l)
          BY <1>1, <1>2, <1>d, <2>6, <3>5 DEF ShellWorks, Put, Take, n
        <4>2. MarkOf(n) \in Msgs
          BY <3>2 DEF Msgs, PieceOf, MarkOf
        <4>3. Flow' = Append(f, MarkOf(n)) /\ Work' = Cat(Tail(l), c)
          BY <4>1, <4>2, <3>a, <3>b
        <4>4. Progress(k, Append(f, MarkOf(n)), Cat(Tail(l), c), 0, FALSE)
          BY <3>2, <3>5, LiveOrNot
        <4> QED
          BY <4>1, <4>3, <4>4, <3>2, <3>5, <2>p, <1>q
      <3>6. \/ Head(l)[1] = "type" /\ p < Pieces
            \/ ~(Head(l)[1] = "type" /\ p < Pieces) /\ wire' = wire
            \/ Head(l)[1] = "echo" /\ wire' = Put(wire, cur, MarkOf(Head(l)[2]))
        BY <1>2, <2>6 DEF ShellWorks
      <3> QED
        BY <3>3, <3>4, <3>5, <3>6
    <2>7. CASE ShellExits(cur)
      <3>1. /\ output'[cur] = o /\ wire'[cur] = Append(r, Closed) /\ lines'[cur] = <<>> /\ cmds'[cur] = c
            /\ progress'[cur] = 0 /\ shell'[cur] # "up"
        BY <1>1, <1>2, <1>d, <2>7 DEF ShellExits, ShellDown, Put
      <3> QED
        BY <3>1, <1>2, <1>14, <2>g
    <2>8. CASE HostDrops(cur)
      <3>1. /\ output'[cur] = o /\ wire'[cur] = r /\ lines'[cur] = <<>> /\ cmds'[cur] = c
            /\ progress'[cur] = 0 /\ shell'[cur] # "up"
        BY <1>1, <1>2, <1>d, <2>8 DEF HostDrops, ShellDown
      <3> QED
        BY <3>1, <1>2, <1>14, <2>g
    <2> QED
      BY <1>14, <2>2, <2>3, <2>4, <2>5, <2>6, <2>7, <2>8 DEF Task
  <1> QED
    <2>2. CASE \E s \in Session \ {cur} : Expire(s) /\ pc' = pc /\ pc \in Sent /\ got' = got
      BY <2>2, <1>13
    <2>3. CASE \E s \in Session : /\ pc' = pc /\ pc \in Sent /\ got' = got
                                  /\ \/ Task(s) \/ StreamFails(s)
                                     \/ ShellWorks(s) \/ ShellExits(s) \/ HostDrops(s)
      BY <2>3, <1>13, <1>14
    <2> QED
      BY <2>2, <2>3, <1>10, <1>11, <1>12, SentStep

\* The command in use and what is on the way in its session, after a step.
LEMMA StepOwnOnly ==
  ASSUME ToolsTypeOK, Requests, CleanBetween, OwnOnly, [ToolsNext]_toolsVars, late \subseteq late'
  PROVE  OwnOnly'
  <1> SUFFICES ASSUME pc' \in Sent, cur' \in sessions', cur' \notin late'
               PROVE  OnlyOf(cur, {cmd})' /\ got' \in Seq(PieceOf({cmd'}) \cup State)
    BY DEF OwnOnly
  <1>1. /\ cur' = cur /\ cmd' = cmd /\ cur \in sessions /\ cur \in Session
        /\ cmd \in Command /\ pc \in Sent \cup {"type"} /\ cur \notin late
    BY SentStep
  <1>2. PICK t, K : t = cur /\ K = {cmd}
    OBVIOUS
  <1>3. OnlyOf(t, K) /\ got \in Seq(PieceOf(K) \cup State)
    <2>1. CASE pc \in Sent
      BY <2>1, <1>1, <1>2 DEF OwnOnly
    <2>2. CASE pc = "type"
      <3>1. pc \notin Sent
        BY <2>2 DEF Sent
      <3>2. task[cur] = "running"
        BY <3>1, SentStep
      <3>3. OnlyOf(t, {})
        BY <3>1, <3>2, <1>1, <1>2 DEF CleanBetween, Held
      <3>4. {} \subseteq K
        OBVIOUS
      <3>5. OnlyOf(t, K)
        BY <3>3, <3>4, OnlyOfMore
      <3>6. got = <<>>
        BY <2>2 DEF Requests, Ready
      <3> QED
        BY <3>5, <3>6
    <2> QED
      BY <1>1, <2>1, <2>2
  <1>4. OnlyOf(t, K)'
    BY <1>1, <1>2, <1>3, OnlyOfStep
  <1>5. got' \in Seq(PieceOf(K) \cup State)
    <2> DEFINE S == PieceOf(K) \cup State
    <2>1. output[cur] \in Seq(S) /\ got \in Seq(S)
      BY <1>2, <1>3 DEF OnlyOf
    <2> HIDE DEF S
    <2>2. got' = got \/ (output[cur] # <<>> /\ got' = Append(got, Head(output[cur])))
      BY SentStep
    <2>3. got' \in Seq(S)
      BY <2>1, <2>2
    <2> QED
      BY <2>3 DEF S
  <1> QED
    BY <1>1, <1>2, <1>4, <1>5 DEF OnlyOf

\* A command ends in one of four ways.
LEMMA CommandEnds ==
  ASSUME Requests, [ToolsNext]_toolsVars, pc \in Sent, pc' \notin Sent
  PROVE  /\ cur' = cur /\ pc' = "idle" /\ sessions' = sessions /\ task' = task
         /\ \/ cur \notin sessions \/ task[cur] # "running"
            \/ /\ Collect /\ pc = "collect" /\ cur \in sessions /\ output[cur] # <<>>
               /\ Finished(Head(output[cur]))
            \/ late' = late \cup {cur}
  <1>1. CASE SendLine
    <2>1. ~(cur \in sessions /\ task[cur] = "running") /\ pc' = "idle" /\ UNCHANGED <<cur, sessions, task>>
      BY <1>1 DEF SendLine, Answer, Sent
    <2>2. pc = "sentinel"
      BY <1>1 DEF SendLine, Sent
    <2> QED
      BY <2>1, <2>2
  <1>2. CASE Collect
    BY <1>2 DEF Collect, Answer, Sent
  <1>3. CASE Exists
    BY <1>3 DEF Exists, Answer, Sent
  <1>4. CASE Timeout
    BY <1>4 DEF Timeout, Answer
  <1>5. ~(Opening \/ Drain \/ Remove \/ Authenticated \/ Eof)
    BY DEF Opening, Drain, Remove, Authenticated, Eof, Sent
  <1>6. ASSUME NEW s \in Session \cup {NoSession}
        PROVE  ~(Connect(s) \/ RunCommand(s) \/ CloseTerminal(s))
    BY DEF Connect, RunCommand, CloseTerminal, Sent
  <1>7. ASSUME NEW s \in Session,
               Expire(s) \/ Task(s) \/ StreamFails(s) \/ ShellWorks(s) \/ ShellExits(s) \/ HostDrops(s)
        PROVE  FALSE
    BY <1>7 DEF Expire, Task, TaskReads, TaskSends, SessionGone, StreamFails, ShellWorks, ShellExits,
                HostDrops, serverVars
  <1>8. ~UNCHANGED toolsVars
    BY DEF toolsVars, serverVars
  <1> QED
    BY <1>1, <1>2, <1>3, <1>4, <1>5, <1>6, <1>7, <1>8 DEF ToolsNext, Server

\* The session a request is about, and the tasks that ended, stay.
LEMMA RequestStays ==
  ASSUME ToolsTypeOK, Requests, [ToolsNext]_toolsVars
  PROVE  /\ late \subseteq late'
         /\ pc \in Sent => cur' = cur
         /\ \A t \in Session : task[t] = "ended" => task'[t] = "ended"
         /\ \A t \in Session : Held(t)' => Held(t) \/ (Authenticated /\ cur = t /\ task[t] = "none"
                                                       /\ cmds' = Put(cmds, cur, Open))
         /\ pc' # "opening" \/ Authenticated \/ pc = "opening"
  <1>0. /\ DOMAIN task = Session /\ NoSession \notin Session
        /\ \A s \in Session : task[s] # "running" => cmds[s] = <<>>
    BY NoSessionIsNone DEF ToolsTypeOK
  <1>1. CASE Server
    <2>1. late \subseteq late' /\ cur' = cur /\ task' = task
      BY <1>1 DEF Server, Opening, Drain, SendLine, Collect, Exists, Timeout, Remove
    <2>2. pc' # "opening"
      BY <1>1 DEF Server, Opening, Abandon, Drain, SendLine, Collect, Exists, Timeout, Remove, Answer
    <2>3. sessions' \subseteq sessions \/ (sessions' \subseteq sessions \cup {cur} /\ pc = "opening")
      BY <1>1 DEF Server, Opening, Abandon, Drain, SendLine, Collect, Exists, Timeout, Remove, Forget
    <2> QED
      BY <2>1, <2>2, <2>3 DEF Held
  <1>2. CASE Authenticated
    <2>1. late' = late /\ cur' = cur /\ pc = "auth" /\ sessions' = sessions
      BY <1>2 DEF Authenticated
    <2>2. \/ task' = task /\ pc' = "idle"
          \/ cur # NoSession /\ task' = [task EXCEPT ![cur] = "running"] /\ cmds' = Put(cmds, cur, Open)
      BY <1>2 DEF Authenticated, Answer
    <2>3. pc = "auth" /\ cur \in Session => task[cur] = "none"
      BY DEF Requests
    <2>4. \A t \in Session : task[t] = "ended" => task'[t] = "ended"
      BY <2>1, <2>2, <2>3, <1>0
    <2>5. \A t \in Session : Held(t)' => Held(t) \/ (cur = t /\ task[t] = "none"
                                                     /\ cmds' = Put(cmds, cur, Open))
      BY <2>1, <2>2, <2>3 DEF Held
    <2> QED
      BY <2>1, <2>4, <2>5, <1>2 DEF Sent
  <1>3. CASE Eof
    <2>1. late' = late /\ pc = "idle" /\ pc' = "down" /\ sessions' = {}
      BY <1>3 DEF Eof
    <2>2. \A t \in Session : task[t] = "ended" => task'[t] = "ended"
      BY <1>3 DEF Eof
    <2> QED
      BY <2>1, <2>2 DEF Held, Sent
  <1>4. ASSUME NEW s \in Session \cup {NoSession}, Connect(s) \/ RunCommand(s) \/ CloseTerminal(s)
        PROVE  pc = "idle" /\ pc' # "opening" /\ UNCHANGED <<late, task, sessions>>
    BY <1>4 DEF Connect, RunCommand, CloseTerminal, Answer
  <1>5. CASE pc = "idle" /\ pc' # "opening" /\ UNCHANGED <<late, task, sessions>>
    BY <1>5 DEF Held, Sent
  <1>6. ASSUME NEW s \in Session, Task(s) \/ StreamFails(s)
        PROVE  /\ UNCHANGED <<pc, cur, late, sessions>>
               /\ \A t \in Session : task[t] = "ended" => task'[t] = "ended"
    <2>1. UNCHANGED <<pc, cur, late, sessions>>
      BY <1>6 DEF Task, TaskReads, TaskSends, SessionGone, StreamFails, serverVars
    <2>2. task' = task \/ task' = [task EXCEPT ![s] = "ended"]
      BY <1>6 DEF Task, TaskReads, TaskSends, SessionGone, StreamFails, Ends
    <2> QED
      BY <2>1, <2>2, <1>0
  <1>7. ASSUME NEW s \in Session, Expire(s) \/ ShellWorks(s) \/ ShellExits(s) \/ HostDrops(s)
        PROVE  UNCHANGED <<pc, cur, late, task>> /\ sessions' \subseteq sessions
    BY <1>7 DEF Expire, Forget, ShellWorks, ShellExits, HostDrops, serverVars
  <1>8. UNCHANGED toolsVars => UNCHANGED <<pc, cur, late, task, sessions>>
    BY DEF toolsVars, serverVars
  <1>9. CASE /\ UNCHANGED <<pc, cur, late>> /\ sessions' \subseteq sessions
             /\ \A t \in Session : task[t] = "ended" => task'[t] = "ended"
    BY <1>9 DEF Held
  <1> QED
    BY <1>1, <1>2, <1>3, <1>4, <1>5, <1>6, <1>7, <1>8, <1>9 DEF ToolsNext

\* What is on the way in a session between its commands, after a step.
LEMMA StepClean ==
  ASSUME ToolsTypeOK, Requests, OpenedOnce, CleanBetween, OwnOnly, Flows, [ToolsNext]_toolsVars
  PROVE  CleanBetween'
  <1> SUFFICES ASSUME NEW t \in Session, t \notin late', Held(t)', task'[t] # "ended",
                      ~(pc' \in Sent /\ cur' = t)
               PROVE  OnlyOf(t, {})'
    BY DEF CleanBetween
  <1>1. /\ late \subseteq late' /\ (pc \in Sent => cur' = cur)
        /\ task[t] = "ended" => task'[t] = "ended"
        /\ Held(t) \/ (Authenticated /\ cur = t /\ task[t] = "none" /\ cmds' = Put(cmds, cur, Open))
        /\ pc' # "opening" \/ Authenticated \/ pc = "opening"
    BY RequestStays
  <1>2. t \notin late /\ task[t] # "ended"
    BY <1>1
  <1>s. (\A s \in sessions : task[s] # "none") /\ task[t] \in {"none", "running", "ended"}
    BY DEF ToolsTypeOK
  <1>3. CASE ~Held(t)
    <2>1. Authenticated /\ cur = t /\ task[t] = "none" /\ cmds' = Put(cmds, cur, Open)
      BY <1>1, <1>3
    <2>2. cmds[t] = <<>> /\ output[t] = <<>> /\ wire[t] = <<>> /\ lines[t] = <<>>
      BY <2>1 DEF OpenedOnce, OpenedFirst
    <2>3. UNCHANGED <<output, wire, lines>>
      BY <2>1 DEF Authenticated, terminalVars
    <2>4. cmds'[t] = Append(<<>>, Open)
      BY <2>1, <2>2 DEF Put, ToolsTypeOK
    <2>5. cmds'[t] \in Seq(LineOf({}) \cup {Open, Close})
      <3>1. Open \in LineOf({}) \cup {Open, Close}
        OBVIOUS
      <3>2. \A S, x : x \in S => Append(<<>>, x) \in Seq(S)
        OBVIOUS
      <3> QED
        BY <2>4, <3>1, <3>2
    <2>6. \A S : <<>> \in Seq(S)
      OBVIOUS
    <2>7. output'[t] = <<>> /\ wire'[t] = <<>> /\ lines'[t] = <<>>
      BY <2>2, <2>3
    <2> QED
      BY <2>5, <2>6, <2>7 DEF OnlyOf
  <1>4. CASE Held(t) /\ ~(pc \in Sent /\ cur = t)
    <2>1. OnlyOf(t, {})
      BY <1>2, <1>4 DEF CleanBetween
    <2>2. PICK K : K = {}
      OBVIOUS
    <2>3. CASE ~(SendLine /\ t = cur)
      <3>1. K \in SUBSET Command /\ OnlyOf(t, K)
        BY <2>1, <2>2
      <3>2. OnlyOf(t, K)'
        BY <2>3, <3>1, OnlyOfStep
      <3> QED
        BY <2>2, <3>2 DEF OnlyOf
    <2>4. CASE SendLine /\ t = cur
      <3>1. pc = "type" /\ cur' = cur
        BY <1>4, <2>4 DEF SendLine, Sent
      <3>2. UNCHANGED <<cmds, output, wire, lines>>
        BY <2>4, <3>1 DEF SendLine, Sent, terminalVars
      <3> QED
        BY <2>1, <3>2 DEF OnlyOf
    <2> QED
      BY <2>3, <2>4
  <1>5. CASE Held(t) /\ pc \in Sent /\ cur = t
    <2>1. pc' \notin Sent
      BY <1>1, <1>5
    <2>2. /\ cur' = cur /\ pc' = "idle" /\ sessions' = sessions /\ task' = task
          /\ \/ cur \notin sessions \/ task[cur] # "running"
             \/ /\ Collect /\ pc = "collect" /\ cur \in sessions /\ output[cur] # <<>>
                /\ Finished(Head(output[cur]))
             \/ late' = late \cup {cur}
      BY <1>5, <2>1, CommandEnds
    <2>3. t \in sessions
      BY <2>2 DEF Held
    <2>4. task[t] = "running"
      BY <2>3, <1>2, <1>s
    <2>5. /\ Collect /\ pc = "collect" /\ output[t] # <<>> /\ Finished(Head(output[t]))
      BY <1>5, <2>2, <2>3, <2>4
    <2>6. OnlyOf(t, {cmd})
      BY <1>2, <1>5, <2>3 DEF OwnOnly
    <2>7. /\ \A j \in 1..Len(Tail(output[t])) :
               ~IsOut(Tail(output[t])[j], cmd) /\ Tail(output[t])[j] # MarkOf(cmd)
          /\ \A j \in 1..Len(wire[t]) : ~IsOut(wire[t][j], cmd) /\ wire[t][j] # MarkOf(cmd)
          /\ \A i \in 1..Len(lines[t]) : lines[t][i] \notin {TypeOf(cmd), EchoOf(cmd)}
          /\ \A i \in 1..Len(cmds[t]) : cmds[t][i] \notin {TypeOf(cmd), EchoOf(cmd)}
      BY <1>5, <2>3, <2>5, SentinelIsLast
    <2>8. cmd \in Command
      BY <1>5 DEF Requests
    <2>9. output'[t] = Tail(output[t]) /\ UNCHANGED <<cmds, wire, lines>>
      BY <1>5, <2>3, <2>5 DEF Collect, Take, terminalVars, ToolsTypeOK
    <2>10. Tail(output[t]) \in Seq(PieceOf({}) \cup State)
      <3>1. Tail(output[t]) \in Seq(PieceOf({cmd}) \cup State)
        BY <2>5, <2>6 DEF OnlyOf
      <3> QED
        BY <2>7, <2>8, <3>1, NoneOf
    <2>11. wire[t] \in Seq(PieceOf({}) \cup State \cup {Closed})
      <3>1. wire[t] \in Seq(PieceOf({cmd}) \cup (State \cup {Closed}))
        BY <2>6 DEF OnlyOf
      <3>2. wire[t] \in Seq(PieceOf({}) \cup (State \cup {Closed}))
        BY <2>7, <2>8, <3>1, NoneOf
      <3> QED
        BY <3>2
    <2>12. cmds[t] \in Seq(LineOf({}) \cup {Open, Close})
      <3>1. cmds[t] \in Seq(LineOf({cmd}) \cup {Open, Close})
        BY <2>6 DEF OnlyOf
      <3> QED
        BY <2>7, <2>8, <3>1, NoLineOf
    <2>13. lines[t] \in Seq(LineOf({}))
      <3>1. lines[t] \in Seq(LineOf({cmd}) \cup {})
        BY <2>6 DEF OnlyOf
      <3>2. lines[t] \in Seq(LineOf({}) \cup {})
        BY <2>7, <2>8, <3>1, NoLineOf
      <3> QED
        BY <3>2
    <2> QED
      BY <2>9, <2>10, <2>11, <2>12, <2>13 DEF OnlyOf
  <1> QED
    BY <1>3, <1>4, <1>5

\* An answer that is there stays, or the sentinel has come.
LEMMA OutputAnswered ==
  ASSUME Requests, [ToolsNext]_toolsVars, answer' = "output"
  PROVE  \/ UNCHANGED <<answer, got, cmd, cur, late>>
         \/ /\ Collect /\ pc = "collect" /\ cur \in sessions /\ output[cur] # <<>>
            /\ Finished(Head(output[cur]))
  <1>1. answer = "output" => pc \in {"idle", "down"}
    BY DEF Requests
  <1>2. CASE Server
    <2>1. answer # "output"
      BY <1>1, <1>2 DEF Server, Opening, Drain, SendLine, Collect, Exists, Timeout, Remove
    <2>2. CASE Collect
      <3>1. /\ pc = "collect" /\ cur \in sessions /\ output[cur] # <<>>
            /\ Finished(Head(output[cur]))
        BY <2>1, <2>2 DEF Collect
      <3> QED
        BY <2>2, <3>1
    <2>3. ~(Opening \/ Drain \/ SendLine \/ Exists \/ Timeout \/ Remove)
      BY <2>1 DEF Opening, Abandon, Drain, SendLine, Exists, Timeout, Remove, Answer
    <2> QED
      BY <1>2, <2>2, <2>3 DEF Server
  <1>3. CASE Authenticated
    BY <1>1, <1>3 DEF Authenticated, Answer
  <1>4. CASE Eof
    BY <1>4 DEF Eof
  <1>5. ASSUME NEW s \in Session \cup {NoSession}
        PROVE  ~(Connect(s) \/ RunCommand(s) \/ CloseTerminal(s))
    BY DEF Connect, RunCommand, CloseTerminal, Answer
  <1>6. ASSUME NEW s \in Session,
               Expire(s) \/ Task(s) \/ StreamFails(s) \/ ShellWorks(s) \/ ShellExits(s) \/ HostDrops(s)
        PROVE  UNCHANGED <<answer, got, cmd, cur, late>>
    BY <1>6 DEF Expire, Task, TaskReads, TaskSends, SessionGone, StreamFails, ShellWorks, ShellExits,
                HostDrops, serverVars
  <1>7. UNCHANGED toolsVars => UNCHANGED <<answer, got, cmd, cur, late>>
    BY DEF toolsVars, serverVars
  <1> QED
    BY <1>2, <1>3, <1>4, <1>5, <1>6, <1>7 DEF ToolsNext

\* With its sentinel, the output of a command is as whole and in order as without.
LEMMA SentinelAdded ==
  ASSUME NEW k \in Command, NEW q \in Seq(Msgs), AllOut(k, q), Ordered(k, q)
  PROVE  AllOut(k, Append(q, MarkOf(k))) /\ Ordered(k, Append(q, MarkOf(k)))
  <1>1. PICK m \in Msgs : m = MarkOf(k)
    BY DEF Msgs, PieceOf, MarkOf
  <1>2. PICK g \in Seq(Msgs) : g = Append(q, m)
    <2>1. Append(q, m) \in Seq(Msgs)
      BY AppendProperties
    <2> QED
      BY <2>1
  <1>3. /\ DOMAIN q = 1..Len(q) /\ Len(q) \in Nat /\ DOMAIN g = 1..(Len(q) + 1)
        /\ g[Len(q) + 1] = m /\ \A j \in 1..Len(q) : g[j] = q[j]
    BY <1>2
  <1>4. ~IsOut(m, k)
    BY <1>1, Names
  <1>5. AllOut(k, g)
    BY <1>3 DEF AllOut
  <1>6. Ordered(k, g)
    BY <1>3, <1>4 DEF Ordered
  <1> QED
    BY <1>1, <1>2, <1>5, <1>6

\* What is collected for an answer, after a step.
LEMMA StepCollected ==
  ASSUME ToolsTypeOK, Collected, Requests, OwnOnly, Flows, [ToolsNext]_toolsVars
  PROVE  Collected'
  <1> SUFFICES ASSUME answer' = "output"
               PROVE  /\ AllOut(cmd', got') /\ Ordered(cmd', got')
                      /\ cur' \notin late' => \A j \in DOMAIN got' : got'[j][1] = "out" => got'[j][2] = cmd'
    BY DEF Collected
  <1>1. CASE UNCHANGED <<answer, got, cmd, cur, late>>
    BY <1>1 DEF Collected
  <1>2. CASE /\ Collect /\ pc = "collect" /\ cur \in sessions /\ output[cur] # <<>>
             /\ Finished(Head(output[cur]))
    <2>1. /\ cmd \in Command /\ cur \in Session
      BY <1>2 DEF Requests, Sent
    <2>2. /\ got' = Append(got, MarkOf(cmd)) /\ UNCHANGED <<cmd, cur, late>>
      BY <1>2 DEF Collect, Finished
    <2>3. AllOut(cmd, got) /\ Ordered(cmd, got)
      BY <1>2, SentinelIsLast
    <2>4. got \in Seq(Msgs)
      BY <2>1, FlowPlaces
    <2>5. AllOut(cmd, got') /\ Ordered(cmd, got')
      BY <2>1, <2>2, <2>3, <2>4, SentinelAdded
    <2>6. ASSUME cur \notin late
          PROVE  \A j \in DOMAIN got' : got'[j][1] = "out" => got'[j][2] = cmd
      <3> DEFINE S == PieceOf({cmd}) \cup State
      <3>1. got \in Seq(S) /\ MarkOf(cmd) \in S
        BY <1>2, <2>6 DEF OwnOnly, Sent, PieceOf, MarkOf
      <3>2. \A m \in S : m[1] = "out" => m[2] = cmd
        BY DEF PieceOf, State
      <3> HIDE DEF S
      <3>3. got' \in Seq(S)
        BY <2>2, <3>1
      <3>4. \A j \in DOMAIN got' : got'[j] \in S
        BY <3>3
      <3> QED
        BY <3>2, <3>4
    <2> QED
      BY <2>2, <2>5, <2>6
  <1> QED
    BY <1>1, <1>2, OutputAnswered

\* When the server starts, no session and no output exist.
LEMMA InitToolsIInv ==
  ASSUME ToolsInit
  PROVE  ToolsIInv
  <1>1. \A S : <<>> \in Seq(S)
    OBVIOUS
  <1>2. {MaxCommands, Pieces, MaxFailures} \subseteq Nat
    BY McpBounds
  <1>3. ToolsTypeOK
    BY <1>1, <1>2 DEF ToolsInit, ToolsTypeOK
  <1>4. Collected /\ Requests /\ CleanBetween /\ OwnOnly /\ Flows
    BY NoSessionIsNone DEF ToolsInit, Collected, Requests, Ready, Sent, CleanBetween, OwnOnly, Flows, Held
  <1>5. OpenedOnce
    BY <1>1 DEF ToolsInit, OpenedOnce, OpenedFirst
  <1>6. Numbered
    BY <1>1 DEF ToolsInit, Numbered, OnlyOf
  <1> QED
    BY <1>3, <1>4, <1>5, <1>6 DEF ToolsIInv

\* Every step keeps each part of the inductive invariant.
LEMMA StepToolsIInv ==
  ASSUME ToolsIInv, [ToolsNext]_toolsVars
  PROVE  ToolsIInv'
  <1>1. /\ ToolsTypeOK /\ Collected /\ Requests /\ OpenedOnce /\ Numbered /\ CleanBetween
        /\ OwnOnly /\ Flows
    BY DEF ToolsIInv
  <1>2. late \subseteq late'
    BY <1>1, RequestStays
  <1>3. ToolsTypeOK'
    BY <1>1, ToolsStepTypes
  <1>4. Collected'
    BY <1>1, StepCollected
  <1>5. Requests'
    BY <1>1, StepRequests
  <1>6. OpenedOnce'
    BY <1>1, StepOpened
  <1>7. Numbered'
    BY <1>1, StepNumbered
  <1>8. CleanBetween'
    BY <1>1, StepClean
  <1>9. OwnOnly'
    BY <1>1, <1>2, StepOwnOnly
  <1>10. Flows'
    BY <1>1, StepFlows
  <1> QED
    BY <1>3, <1>4, <1>5, <1>6, <1>7, <1>8, <1>9, <1>10 DEF ToolsIInv

\* However requests, tasks, timeouts and hosts interleave, the inductive invariant
\* of the tools holds.
THEOREM ToolsInvariance == ToolsSpec => []ToolsIInv
  <1>1. ToolsInit => ToolsIInv
    BY InitToolsIInv
  <1>2. ToolsIInv /\ [ToolsNext]_toolsVars => ToolsIInv'
    BY StepToolsIInv
  <1> QED
    BY <1>1, <1>2, PTL DEF ToolsSpec

\* Cleaning keeps the order of what was collected and what it does not mistake, and
\* adds nothing.
LEMMA CleaningKeeps ==
  ASSUME Collected
  PROVE  Own
  <1> SUFFICES ASSUME answer = "output"
               PROVE  /\ Ordered(cmd, Returned)
                      /\ \A i \in 1..Pieces : <<cmd, i>> \notin Mistaken[cmd] =>
                           \E j \in DOMAIN Returned : Returned[j] = OutOf(cmd, i)
                      /\ cur \notin late => \A j \in DOMAIN Returned : Returned[j][2] = cmd
    BY DEF Own
  <1>1. \A j \in DOMAIN Returned : j \in DOMAIN got /\ Returned[j] = got[j] /\ got[j][1] = "out"
    BY DEF Returned, CleanCommandOutput
  <1>2. \A j \in DOMAIN got : got[j][1] = "out" /\ <<got[j][2], got[j][3]>> \notin Mistaken[cmd]
                             => j \in DOMAIN Returned
    BY DEF Returned, CleanCommandOutput
  <1>3. Ordered(cmd, Returned)
    BY <1>1 DEF Collected, Ordered
  <1>4. ASSUME NEW i \in 1..Pieces, <<cmd, i>> \notin Mistaken[cmd]
        PROVE  \E j \in DOMAIN Returned : Returned[j] = OutOf(cmd, i)
    <2>1. PICK j \in DOMAIN got : got[j] = OutOf(cmd, i)
      BY DEF Collected, AllOut
    <2>2. got[j][1] = "out" /\ got[j][2] = cmd /\ got[j][3] = i
      BY <2>1 DEF OutOf
    <2> QED
      BY <2>1, <2>2, <1>1, <1>2, <1>4
  <1>5. cur \notin late => \A j \in DOMAIN Returned : Returned[j][2] = cmd
    BY <1>1 DEF Collected
  <1> QED
    BY <1>3, <1>4, <1>5

\* What the AI client gets as the output of a command is in its order and all of
\* it that cleaning does not mistake for a prompt or an echo, with nothing of
\* another command, but for a session in which a command timed out (run_command
\* and clean_command_output, src/src/mcp/tools/terminal.rs).
THEOREM ToolsInvCorrect == ToolsSpec => []ToolsInv
  <1>1. ToolsIInv => ToolsInv
    BY CleaningKeeps DEF ToolsIInv, ToolsInv
  <1> QED
    BY <1>1, ToolsInvariance, PTL
=============================================================================
