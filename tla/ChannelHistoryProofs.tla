------------------------- MODULE ChannelHistoryProofs -------------------------
(***************************************************************************)
(* Theorems about the conversation history of ChannelDispatch: its type,   *)
(* and that with interruption no conversation mixes two requests.  The     *)
(* history is written by the operators append_turn, normalize and strip,   *)
(* which the first half of this module is about; the second half shows     *)
(* that the workers of a scope queue behind one another, so that at most   *)
(* one of them writes.                                                     *)
(***************************************************************************)
EXTENDS ChannelDispatchProofs, NatSets, FiniteSetTheorems

-----------------------------------------------------------------------------
(* Invariants *)

HistoryTypes ==
  /\ stops \in Nat
  /\ history \in [Conv -> Seq(Turn)]
  /\ \A k \in Conv : Len(history[k]) <= MaxHistory
  /\ fresh \in SUBSET Conv

\* A worker has a text.
Loaded == \A i \in Msg : pc[i] \notin {"none", "rx"} => content[i] # <<>>

DoneAfterEnd == \A i \in Msg : done[i] => pc[i] \in {"notifying", "done"}

\* The stages at which a registered worker waits for the one it replaced.
Waits == {"interrupting", "checking", "subscribing", "waiting"}

Member(i, s) == pc[i] \in Registered /\ Registers(i) /\ scope(i) = s

\* The registered workers of a scope in the order of their registration: the newest is
\* the entry of the scope, and one that has an older one below it waits for a worker
\* that is not older than that.
Chain(s, rank) ==
  /\ \A i, v \in Msg : Member(i, s) /\ Member(v, s) /\ rank[i] = rank[v] => i = v
  /\ \A i \in Msg : Member(i, s) =>
       /\ in_flight[s] \in Msg
       /\ Member(in_flight[s], s)
       /\ rank[i] <= rank[in_flight[s]]
  /\ \A i, v \in Msg : Member(i, s) /\ Member(v, s) /\ rank[v] < rank[i] =>
       /\ pc[i] \in Waits
       /\ previous[i] \in Msg
       /\ Member(previous[i], s)
       /\ rank[v] <= rank[previous[i]]

Chained ==
  config.interrupt /\ stops = 0 =>
    \A s \in Scope : \E rank \in [Msg -> Nat] : Chain(s, rank)

\* Turn t may come directly after the turn before it.
Follows(before, t) ==
  IF t.role = "user"
    THEN before.role # "tool"
    ELSE /\ before.role = "user" \/ (t.role = "assistant" /\ before.role = "tool")
         /\ Last(before.of) = Last(t.of)

Sound(h) ==
  /\ \A n \in 1..Len(h) : h[n].of # <<>>
  /\ \A n \in 2..Len(h) : Follows(h[n - 1], h[n])

\* The history ends with a turn of this role for the newest message of text q.
EndsWith(h, role, q) == h # <<>> /\ Last(h).role = role /\ Last(Last(h).of) = Last(q)

\* What the history of conversation k looks like at each stage of its workers.
Talk(k) ==
  /\ Sound(history[k])
  /\ history[k] # <<>> /\ Last(history[k]).role = "tool" =>
       \E i \in Msg : conv(i) = k /\ pc[i] = "answering"
  /\ \A i \in Msg : conv(i) = k /\ pc[i] \in {"preparing", "calling"} =>
       EndsWith(history[k], "user", content[i])
  /\ \A i \in Msg : conv(i) = k /\ pc[i] = "answering" =>
       EndsWith(history[k], "tool", content[i])

Talks ==
  config.interrupt /\ stops = 0 => \A k \in Conv : OneScope(k) => Talk(k)

HInv == HistoryTypes /\ Loaded /\ DoneAfterEnd /\ Chained /\ Talks

-----------------------------------------------------------------------------
(* Newest *)

LEMMA NewestProperties ==
  ASSUME NEW S, NEW h \in Seq(S), NEW n \in Nat \ {0}
  PROVE  /\ Newest(h, n) \in Seq(S)
         /\ Len(Newest(h, n)) <= n
         /\ Len(Newest(h, n)) <= Len(h)
         /\ \E d \in 0..Len(h) : /\ Len(Newest(h, n)) = Len(h) - d
                               /\ \A k \in 1..Len(Newest(h, n)) : Newest(h, n)[k] = h[k + d]
         /\ h # <<>> => Newest(h, n) # <<>> /\ Last(Newest(h, n)) = Last(h)
<1>1. CASE Len(h) <= n
  <2>1. Newest(h, n) = h
    BY <1>1 DEF Newest
  <2>2. 0 \in 0..Len(h) /\ \A k \in 1..Len(h) : h[k] = h[k + 0]
    OBVIOUS
  <2> QED BY <1>1, <2>1, <2>2
<1>2. CASE Len(h) > n
  <2> DEFINE q == SubSeq(h, Len(h) - n + 1, Len(h))
  <2>1. Newest(h, n) = q
    BY <1>2 DEF Newest
  <2>2. /\ q \in Seq(S) /\ Len(q) = n
        /\ \A k \in 1..n : q[k] = h[k + (Len(h) - n)]
    BY <1>2
  <2>3. Len(h) - n \in 0..Len(h)
    BY <1>2
  <2> HIDE DEF q
  <2>4. q # <<>> /\ q[n] = h[Len(h)]
    <3>1. n \in 1..n /\ n + (Len(h) - n) = Len(h)
      BY <1>2
    <3> QED BY <2>2, <3>1
  <2>5. /\ Len(q) <= n /\ Len(q) <= Len(h)
        /\ Len(q) = Len(h) - (Len(h) - n)
    BY <1>2, <2>2
  <2>6. q # <<>> /\ Last(q) = Last(h)
    BY <2>2, <2>4 DEF Last
  <2>7. \E d \in 0..Len(h) : /\ Len(q) = Len(h) - d
                            /\ \A k \in 1..Len(q) : q[k] = h[k + d]
    BY <2>2, <2>3, <2>5
  <2> QED BY <2>1, <2>2, <2>5, <2>6, <2>7
<1> QED BY <1>1, <1>2

LEMMA NewestSound ==
  ASSUME NEW h \in Seq(Turn), NEW n \in Nat \ {0}, Sound(h)
  PROVE  Sound(Newest(h, n))
<1> DEFINE q == Newest(h, n)
<1>1. q \in Seq(Turn)
  BY NewestProperties
<1>2. PICK d \in 0..Len(h) : /\ Len(q) = Len(h) - d
                             /\ \A k \in 1..Len(q) : q[k] = h[k + d]
  BY NewestProperties
<1> HIDE DEF q
<1>3. \A k \in 1..Len(q) : q[k].of # <<>>
  BY <1>1, <1>2 DEF Sound
<1>4. ASSUME NEW k \in 2..Len(q) PROVE Follows(q[k - 1], q[k])
  <2>1. k + d \in 2..Len(h) /\ (k - 1) + d = (k + d) - 1 /\ k - 1 \in 1..Len(q) /\ k \in 1..Len(q)
    BY <1>1, <1>2
  <2> QED BY <1>2, <2>1 DEF Sound
<1> QED BY <1>3, <1>4 DEF Sound, q

-----------------------------------------------------------------------------
(* normalize *)

IsNormalized(h, f, n) ==
  f = [m \in 0..n |-> IF m = 0 THEN <<>> ELSE merge_turn(f[m - 1], h[m])]

LEMMA NormalizedExists ==
  ASSUME NEW h, NEW len \in Nat
  PROVE  \E f : IsNormalized(h, f, len)
<1> DEFINE S == {n \in 0..len : \E f : IsNormalized(h, f, n)}
<1>1. 0 \in S
  <2>1. IsNormalized(h, [m \in 0..0 |-> <<>>], 0)
    BY DEF IsNormalized
  <2> QED BY <2>1
<1>2. ASSUME NEW n \in 0..len, n \in S, n # len PROVE n + 1 \in S
  <2>1. PICK f : IsNormalized(h, f, n)
    BY <1>2
  <2> DEFINE g == [m \in 0..(n + 1) |-> IF m = n + 1 THEN merge_turn(f[n], h[n + 1]) ELSE f[m]]
  <2>2. ASSUME NEW m \in 0..(n + 1)
        PROVE  g[m] = IF m = 0 THEN <<>> ELSE merge_turn(g[m - 1], h[m])
    <3>1. CASE m = n + 1
      BY <3>1
    <3>2. CASE m # n + 1
      <4>1. m \in 0..n /\ (m # 0 => m - 1 \in 0..n /\ g[m - 1] = f[m - 1])
        BY <3>2
      <4> QED BY <2>1, <3>2, <4>1 DEF IsNormalized
    <3> QED BY <3>1, <3>2
  <2>3. IsNormalized(h, g, n + 1)
    BY <2>2 DEF IsNormalized
  <2> QED BY <1>2, <2>3
<1> HIDE DEF S
<1>3. 0..len \subseteq S
  BY <1>1, <1>2, BoundedSetInduction
<1> QED BY <1>3 DEF S

LEMMA NormalizeSteps ==
  ASSUME NEW h \in Seq(Turn)
  PROVE  \E f : /\ normalize(h) = f[Len(h)]
                /\ f[0] = <<>>
                /\ \A m \in 1..Len(h) : f[m] = merge_turn(f[m - 1], h[m])
<1> DEFINE f == CHOOSE normalized : normalized =
                  [m \in 0..Len(h) |->
                     IF m = 0 THEN <<>> ELSE merge_turn(normalized[m - 1], h[m])]
<1>1. normalize(h) = f[Len(h)]
  BY DEF normalize
<1>2. IsNormalized(h, f, Len(h))
  <2>1. \E g : IsNormalized(h, g, Len(h))
    <3>1. Len(h) \in Nat
      OBVIOUS
    <3> QED BY <3>1, NormalizedExists
  <2> QED BY <2>1 DEF IsNormalized
<1> HIDE DEF f
<1>3. f[0] = <<>> /\ \A m \in 1..Len(h) : f[m] = merge_turn(f[m - 1], h[m])
  BY <1>2 DEF IsNormalized
<1> QED BY <1>1, <1>3

LEMMA AppendTurn ==
  ASSUME NEW q \in Seq(Turn), NEW t \in Turn
  PROVE  /\ Append(q, t) \in Seq(Turn)
         /\ Append(q, t) # <<>>
         /\ Len(Append(q, t)) = Len(q) + 1
         /\ Last(Append(q, t)) = t
         /\ Append(q, t)[Len(q) + 1] = t
         /\ \A k \in 1..Len(q) : Append(q, t)[k] = q[k]
BY DEF Last

LEMMA SoundAppend ==
  ASSUME NEW q \in Seq(Turn), NEW t \in Turn, Sound(q), t.of # <<>>,
         q # <<>> => Follows(Last(q), t)
  PROVE  Sound(Append(q, t))
<1> DEFINE r == Append(q, t)
<1>1. /\ Len(r) = Len(q) + 1 /\ Len(q) \in Nat /\ r[Len(q) + 1] = t
      /\ \A k \in 1..Len(q) : r[k] = q[k]
  BY AppendTurn
<1> HIDE DEF r
<1>2. ASSUME NEW k \in 1..Len(r) PROVE r[k].of # <<>>
  <2>1. k = Len(q) + 1 \/ k \in 1..Len(q)
    BY <1>1
  <2> QED BY <1>1, <2>1 DEF Sound
<1>3. ASSUME NEW k \in 2..Len(r) PROVE Follows(r[k - 1], r[k])
  <2>1. CASE k = Len(q) + 1
    <3>1. q # <<>> /\ Len(q) \in 1..Len(q) /\ k - 1 = Len(q)
      BY <1>1, <2>1
    <3> QED BY <1>1, <2>1, <3>1 DEF Last
  <2>2. CASE k # Len(q) + 1
    <3>1. k \in 2..Len(q) /\ k \in 1..Len(q) /\ k - 1 \in 1..Len(q)
      BY <1>1, <2>2
    <3> QED BY <1>1, <3>1 DEF Sound
  <2> QED BY <2>1, <2>2
<1>4. Sound(r)
  BY <1>2, <1>3 DEF Sound
<1> QED BY <1>4 DEF r

LEMMA ConcatLast ==
  ASSUME NEW p \in Seq(Msg), NEW q \in Seq(Msg), q # <<>>
  PROVE  p \o q \in Seq(Msg) /\ p \o q # <<>> /\ Last(p \o q) = Last(q)
<1>1. Len(q) \in 1..Len(q) /\ Len(p) \in Nat /\ Len(p \o q) = Len(p) + Len(q)
  OBVIOUS
<1>2. (p \o q)[Len(p) + Len(q)] = q[Len(q)]
  BY <1>1
<1>3. p \o q \in Seq(Msg)
  OBVIOUS
<1> HIDE DEF Msg
<1> QED BY <1>1, <1>2, <1>3 DEF Last

\* What merging a turn into the last one makes of the sequence.
LEMMA Merged ==
  ASSUME NEW q \in Seq(Turn), NEW t \in Turn, q # <<>>
  PROVE  LET r == [q EXCEPT ![Len(q)].of = @ \o t.of]
         IN /\ r \in Seq(Turn) /\ r # <<>>
            /\ Len(r) = Len(q)
            /\ r[Len(q)] = [q[Len(q)] EXCEPT !.of = @ \o t.of]
            /\ \A k \in 1..Len(q) : k # Len(q) => r[k] = q[k]
<1> DEFINE e == [q[Len(q)] EXCEPT !.of = @ \o t.of]
           r == [q EXCEPT ![Len(q)] = e]
<1>1. Len(q) \in 1..Len(q) /\ q[Len(q)] \in Turn
  OBVIOUS
<1>2. e \in Turn
  <2>1. q[Len(q)].of \in Seq(Msg) /\ t.of \in Seq(Msg)
    BY <1>1 DEF Turn
  <2>2. q[Len(q)].of \o t.of \in Seq(Msg)
    BY <2>1
  <2> QED BY <1>1, <2>2 DEF Turn
<1>3. r = [q EXCEPT ![Len(q)].of = @ \o t.of]
  OBVIOUS
<1> HIDE DEF e
<1>4. /\ r \in Seq(Turn) /\ Len(r) = Len(q) /\ r[Len(q)] = e
      /\ \A k \in 1..Len(q) : k # Len(q) => r[k] = q[k]
  BY <1>1, <1>2
<1> HIDE DEF r
<1>5. r # <<>>
  BY <1>1, <1>4
<1> QED BY <1>3, <1>4, <1>5 DEF e

LEMMA MergeTurnTypes ==
  ASSUME NEW q \in Seq(Turn), NEW t \in Turn
  PROVE  merge_turn(q, t) \in Seq(Turn) /\ Len(merge_turn(q, t)) <= Len(q) + 1
<1>1. Len(q) \in Nat
  OBVIOUS
<1>2. CASE merge_turn(q, t) = Append(q, t)
  BY <1>1, <1>2, AppendTurn
<1>3. CASE merge_turn(q, t) = q
  BY <1>1, <1>3
<1>4. CASE q # <<>> /\ merge_turn(q, t) = [q EXCEPT ![Len(q)].of = @ \o t.of]
  <2> DEFINE r == [q EXCEPT ![Len(q)].of = @ \o t.of]
  <2>1. r \in Seq(Turn) /\ Len(r) = Len(q)
    BY <1>4, Merged
  <2>2. merge_turn(q, t) = r
    BY <1>4
  <2> HIDE DEF r
  <2> QED BY <1>1, <2>1, <2>2
<1> QED BY <1>2, <1>3, <1>4 DEF merge_turn

\* normalize_cached_channel_turns adds no turn.
LEMMA NormalizeTypes ==
  ASSUME NEW h \in Seq(Turn)
  PROVE  normalize(h) \in Seq(Turn) /\ Len(normalize(h)) <= Len(h)
<1>1. PICK f : /\ normalize(h) = f[Len(h)]
              /\ f[0] = <<>>
              /\ \A m \in 1..Len(h) : f[m] = merge_turn(f[m - 1], h[m])
  BY NormalizeSteps
<1> DEFINE S == {m \in 0..Len(h) : f[m] \in Seq(Turn) /\ Len(f[m]) <= m}
<1>2. Len(h) \in Nat /\ 0 \in S
  <2>1. Len(h) \in Nat /\ <<>> \in Seq(Turn) /\ Len(<<>>) <= 0
    OBVIOUS
  <2>2. f[0] \in Seq(Turn) /\ Len(f[0]) <= 0
    BY <1>1, <2>1
  <2>3. 0 \in 0..Len(h)
    BY <2>1
  <2> QED BY <2>1, <2>2, <2>3
<1>3. ASSUME NEW m \in 0..Len(h), m \in S, m # Len(h) PROVE m + 1 \in S
  <2>1. m + 1 \in 1..Len(h) /\ (m + 1) - 1 = m /\ h[m + 1] \in Turn /\ Len(f[m]) \in Nat
    BY <1>2, <1>3
  <2>2. f[m + 1] = merge_turn(f[m], h[m + 1])
    BY <1>1, <2>1
  <2>3. f[m + 1] \in Seq(Turn) /\ Len(f[m + 1]) <= Len(f[m]) + 1
    BY <1>3, <2>1, <2>2, MergeTurnTypes
  <2>4. Len(f[m + 1]) \in Nat
    BY <2>3
  <2> QED BY <1>3, <2>1, <2>3, <2>4
<1> HIDE DEF S
<1>4. Len(h) \in S
  <2>1. 0..Len(h) \subseteq S
    BY <1>2, <1>3, BoundedSetInduction
  <2> QED BY <1>2, <2>1
<1> QED BY <1>1, <1>4 DEF S

\* What normalize has made of the first m turns: something sound, which ends for the
\* same message as they do.
NormalizedUpTo(h, q, m) ==
  /\ q \in Seq(Turn) /\ Sound(q)
  /\ q = <<>> => m = 0 \/ h[m].role = "assistant"
  /\ q # <<>> => m # 0 /\ EndsWith(q, h[m].role, h[m].of)

LEMMA NormalizeStep ==
  ASSUME NEW h \in Seq(Turn), Sound(h), NEW m \in 0..Len(h), m # Len(h),
         NEW q, NormalizedUpTo(h, q, m)
  PROVE  NormalizedUpTo(h, merge_turn(q, h[m + 1]), m + 1)
<1> DEFINE t == h[m + 1]
<1>1. /\ Len(h) \in Nat /\ m + 1 \in 1..Len(h) /\ t \in Turn /\ t.of # <<>>
      /\ t.of \in Seq(Msg) /\ t.role \in {"user", "tool", "assistant"}
      /\ q \in Seq(Turn) /\ Sound(q)
  <2>1. Len(h) \in Nat /\ m + 1 \in 1..Len(h) /\ t \in Turn
    OBVIOUS
  <2> QED BY <2>1 DEF Turn, Sound, NormalizedUpTo
<1>2. ASSUME q # <<>>
      PROVE  /\ m \in 1..Len(h) /\ Follows(h[m], t)
             /\ Last(q).role = h[m].role /\ Last(Last(q).of) = Last(h[m].of)
             /\ Follows(Last(q), t)
  <2>1. m \in 1..Len(h) /\ m + 1 \in 2..Len(h) /\ (m + 1) - 1 = m
    BY <1>1, <1>2 DEF NormalizedUpTo
  <2>2. Follows(h[m], t)
    BY <2>1 DEF Sound
  <2>3. Last(q).role = h[m].role /\ Last(Last(q).of) = Last(h[m].of)
    BY <1>2 DEF NormalizedUpTo, EndsWith
  <2> HIDE DEF t
  <2> QED BY <2>1, <2>2, <2>3 DEF Follows
<1> HIDE DEF t
<1>3. CASE merge_turn(q, t) = Append(q, t)
  <2>1. Sound(Append(q, t))
    BY <1>1, <1>2, SoundAppend
  <2>2. Append(q, t) # <<>> /\ Last(Append(q, t)) = t /\ Append(q, t) \in Seq(Turn)
    BY <1>1, AppendTurn
  <2>3. m + 1 # 0
    OBVIOUS
  <2> QED BY <1>3, <2>1, <2>2, <2>3 DEF NormalizedUpTo, EndsWith, t
<1>4. CASE q = <<>> /\ merge_turn(q, t) = q /\ t.role = "assistant"
  BY <1>1, <1>4 DEF NormalizedUpTo, t
<1>5. CASE /\ q # <<>> /\ t.role # "tool"
           /\ expecting_user(q) # (t.role = "user")
           /\ merge_turn(q, t) = [q EXCEPT ![Len(q)].of = @ \o t.of]
  <2> DEFINE r == [q EXCEPT ![Len(q)].of = @ \o t.of]
             b == q[Len(q)]
  <2>1. /\ r \in Seq(Turn) /\ r # <<>> /\ Len(r) = Len(q)
        /\ r[Len(q)] = [b EXCEPT !.of = @ \o t.of]
        /\ \A k \in 1..Len(q) : k # Len(q) => r[k] = q[k]
    BY <1>1, <1>5, Merged
  <2>2. merge_turn(q, t) = r
    BY <1>5
  <2>3. /\ Len(q) \in 1..Len(q) /\ b \in Turn /\ Last(q) = b
    BY <1>1, <1>5 DEF Last
  <2> HIDE DEF r, b
  <2>4. b.of \in Seq(Msg) /\ b = [role |-> b.role, of |-> b.of]
    BY <2>3 DEF Turn
  <2>5. r[Len(q)].role = b.role /\ r[Len(q)].of = b.of \o t.of
    BY <2>1, <2>4
  <2>6. t.role = "user" /\ b.role = "user"
    <3>1. expecting_user(q) <=> b.role = "assistant"
      BY <1>5, <2>3 DEF expecting_user
    <3>2. ~(b.role = "assistant" <=> t.role = "user")
      BY <1>5, <2>3 DEF expecting_user
    <3>3. Follows(b, t)
      BY <1>2, <1>5, <2>3
    <3>4. b.role \in {"user", "tool", "assistant"}
      BY <2>3 DEF Turn
    <3> QED BY <1>1, <1>5, <3>2, <3>3, <3>4 DEF Follows
  <2>7. r[Len(q)].of # <<>> /\ Last(r[Len(q)].of) = Last(t.of)
    BY <1>1, <2>4, <2>5, ConcatLast
  <2>8. Last(r) = r[Len(q)]
    BY <2>1 DEF Last
  <2>9. Sound(r)
    <3>1. ASSUME NEW k \in 1..Len(r) PROVE r[k].of # <<>>
      BY <1>1, <2>1, <2>7, <3>1 DEF Sound
    <3>2. ASSUME NEW k \in 2..Len(r) PROVE Follows(r[k - 1], r[k])
      <4>1. /\ k \in 2..Len(q) /\ k - 1 \in 1..Len(q) /\ k - 1 # Len(q) /\ k \in 1..Len(q)
        BY <2>1, <2>3
      <4>2. Follows(q[k - 1], q[k]) /\ r[k - 1] = q[k - 1]
        BY <1>1, <2>1, <4>1 DEF Sound
      <4>3. CASE k = Len(q)
        <5>1. q[k].role = "user" /\ r[k].role = "user"
          BY <2>5, <2>6, <4>3 DEF b
        <5> QED BY <4>2, <5>1 DEF Follows
      <4>4. CASE k # Len(q)
        BY <2>1, <4>1, <4>2, <4>4
      <4> QED BY <4>3, <4>4
    <3> QED BY <3>1, <3>2 DEF Sound
  <2>10. EndsWith(r, t.role, t.of)
    BY <2>1, <2>5, <2>6, <2>7, <2>8 DEF EndsWith
  <2>11. m + 1 # 0
    OBVIOUS
  <2> QED BY <2>1, <2>2, <2>9, <2>10, <2>11 DEF NormalizedUpTo, t
<1>6. CASE q = <<>> /\ t.role # "tool" /\ merge_turn(q, t) # Append(q, t)
  <2>1. expecting_user(q)
    BY <1>6 DEF expecting_user
  <2>2. merge_turn(q, t) = q /\ t.role # "user"
    BY <1>6, <2>1 DEF merge_turn
  <2> QED BY <1>1, <1>4, <1>6, <2>2
<1> QED BY <1>1, <1>3, <1>5, <1>6 DEF merge_turn, t

\* normalize_cached_channel_turns keeps a history sound, and the role of its end.
LEMMA NormalizeSound ==
  ASSUME NEW h \in Seq(Turn), Sound(h)
  PROVE  /\ Sound(normalize(h))
         /\ normalize(h) # <<>> => h # <<>> /\ Last(normalize(h)).role = Last(h).role
<1>1. PICK f : /\ normalize(h) = f[Len(h)]
              /\ f[0] = <<>>
              /\ \A m \in 1..Len(h) : f[m] = merge_turn(f[m - 1], h[m])
  BY NormalizeSteps
<1> DEFINE S == {m \in 0..Len(h) : NormalizedUpTo(h, f[m], m)}
<1>2. Len(h) \in Nat /\ 0 \in S
  <2>1. Len(h) \in Nat /\ <<>> \in Seq(Turn) /\ 0 \in 0..Len(h)
    OBVIOUS
  <2>2. Sound(<<>>)
    BY DEF Sound
  <2>3. NormalizedUpTo(h, <<>>, 0)
    BY <2>1, <2>2 DEF NormalizedUpTo
  <2> QED BY <1>1, <2>1, <2>3
<1>3. ASSUME NEW m \in 0..Len(h), m \in S, m # Len(h) PROVE m + 1 \in S
  <2>1. m + 1 \in 1..Len(h) /\ (m + 1) - 1 = m /\ m + 1 \in 0..Len(h)
    BY <1>2, <1>3
  <2>2. f[m + 1] = merge_turn(f[m], h[m + 1])
    BY <1>1, <2>1
  <2>3. NormalizedUpTo(h, f[m + 1], m + 1)
    BY <1>3, <2>2, NormalizeStep
  <2> QED BY <2>1, <2>3
<1> HIDE DEF S
<1>4. Len(h) \in S
  <2>1. 0..Len(h) \subseteq S
    BY <1>2, <1>3, BoundedSetInduction
  <2> QED BY <1>2, <2>1
<1>5. NormalizedUpTo(h, normalize(h), Len(h))
  BY <1>1, <1>4 DEF S
<1> QED BY <1>2, <1>5 DEF NormalizedUpTo, EndsWith, Last

-----------------------------------------------------------------------------
(* strip *)

Goes(h, m) == m <= boundary(h) /\ h[m].role = "tool"

IsKept(h, f, n) ==
  f = [m \in 0..n |-> IF m = 0 THEN <<>>
                      ELSE IF Goes(h, m) THEN f[m - 1]
                      ELSE Append(f[m - 1], h[m])]

LEMMA KeptExists ==
  ASSUME NEW h, NEW len \in Nat
  PROVE  \E f : IsKept(h, f, len)
<1> DEFINE S == {n \in 0..len : \E f : IsKept(h, f, n)}
<1>1. 0 \in S
  <2>1. IsKept(h, [m \in 0..0 |-> <<>>], 0)
    BY DEF IsKept
  <2> QED BY <2>1
<1>2. ASSUME NEW n \in 0..len, n \in S, n # len PROVE n + 1 \in S
  <2>1. PICK f : IsKept(h, f, n)
    BY <1>2
  <2> DEFINE next == IF Goes(h, n + 1) THEN f[n] ELSE Append(f[n], h[n + 1])
             g == [m \in 0..(n + 1) |-> IF m = n + 1 THEN next ELSE f[m]]
  <2>2. ASSUME NEW m \in 0..(n + 1)
        PROVE  g[m] = IF m = 0 THEN <<>>
                      ELSE IF Goes(h, m) THEN g[m - 1] ELSE Append(g[m - 1], h[m])
    <3>1. CASE m = n + 1
      BY <3>1
    <3>2. CASE m # n + 1
      <4>1. m \in 0..n /\ g[m] = f[m] /\ (m # 0 => m - 1 \in 0..n /\ g[m - 1] = f[m - 1])
        BY <3>2
      <4> HIDE DEF g
      <4> QED BY <2>1, <4>1 DEF IsKept
    <3> QED BY <3>1, <3>2
  <2>3. IsKept(h, g, n + 1)
    BY <2>2 DEF IsKept
  <2> QED BY <1>2, <2>3
<1> HIDE DEF S
<1>3. 0..len \subseteq S
  BY <1>1, <1>2, BoundedSetInduction
<1> QED BY <1>3 DEF S

LEMMA StripSteps ==
  ASSUME NEW h \in Seq(Turn)
  PROVE  \E f : /\ strip(h) = f[Len(h)]
                /\ f[0] = <<>>
                /\ \A m \in 1..Len(h) :
                     f[m] = IF Goes(h, m) THEN f[m - 1] ELSE Append(f[m - 1], h[m])
<1> DEFINE f == CHOOSE kept : kept =
                  [m \in 0..Len(h) |->
                     IF m = 0 THEN <<>>
                     ELSE IF m <= boundary(h) /\ h[m].role = "tool" THEN kept[m - 1]
                     ELSE Append(kept[m - 1], h[m])]
<1>1. strip(h) = f[Len(h)]
  BY DEF strip
<1>2. IsKept(h, f, Len(h))
  <2>1. \E g : IsKept(h, g, Len(h))
    <3>1. Len(h) \in Nat
      OBVIOUS
    <3> QED BY <3>1, KeptExists
  <2> QED BY <2>1 DEF IsKept, Goes
<1> HIDE DEF f
<1>3. /\ f[0] = <<>>
      /\ \A m \in 1..Len(h) :
           f[m] = IF Goes(h, m) THEN f[m - 1] ELSE Append(f[m - 1], h[m])
  <2>1. 0 \in 0..Len(h) /\ \A m \in 1..Len(h) : m \in 0..Len(h) /\ m # 0
    OBVIOUS
  <2>2. f[0] = <<>>
    BY <1>2, <2>1 DEF IsKept
  <2>3. ASSUME NEW m \in 1..Len(h)
        PROVE  f[m] = IF Goes(h, m) THEN f[m - 1] ELSE Append(f[m - 1], h[m])
    BY <1>2, <2>1 DEF IsKept
  <2> QED BY <2>2, <2>3
<1> QED BY <1>1, <1>3

\* strip_old_tool_context adds no turn.
LEMMA StripTypes ==
  ASSUME NEW h \in Seq(Turn)
  PROVE  strip(h) \in Seq(Turn) /\ Len(strip(h)) <= Len(h)
<1>1. PICK f : /\ strip(h) = f[Len(h)]
              /\ f[0] = <<>>
              /\ \A m \in 1..Len(h) :
                   f[m] = IF Goes(h, m) THEN f[m - 1] ELSE Append(f[m - 1], h[m])
  BY StripSteps
<1> DEFINE S == {m \in 0..Len(h) : f[m] \in Seq(Turn) /\ Len(f[m]) <= m}
<1>2. Len(h) \in Nat /\ 0 \in S
  <2>1. Len(h) \in Nat /\ <<>> \in Seq(Turn) /\ Len(<<>>) <= 0
    OBVIOUS
  <2>2. f[0] \in Seq(Turn) /\ Len(f[0]) <= 0
    BY <1>1, <2>1
  <2>3. 0 \in 0..Len(h)
    BY <2>1
  <2> QED BY <2>1, <2>2, <2>3
<1>3. ASSUME NEW m \in 0..Len(h), m \in S, m # Len(h) PROVE m + 1 \in S
  <2>1. m + 1 \in 1..Len(h) /\ (m + 1) - 1 = m /\ h[m + 1] \in Turn /\ Len(f[m]) \in Nat
    BY <1>2, <1>3
  <2>2. f[m + 1] = f[m] \/ f[m + 1] = Append(f[m], h[m + 1])
    BY <1>1, <2>1
  <2>3. f[m + 1] \in Seq(Turn) /\ Len(f[m + 1]) <= Len(f[m]) + 1
    <3>1. f[m] \in Seq(Turn)
      BY <1>3
    <3>2. /\ Append(f[m], h[m + 1]) \in Seq(Turn)
          /\ Len(Append(f[m], h[m + 1])) = Len(f[m]) + 1
      BY <2>1, <3>1, AppendTurn
    <3>3. CASE f[m + 1] = f[m]
      BY <2>1, <3>1, <3>3
    <3>4. CASE f[m + 1] = Append(f[m], h[m + 1])
      BY <2>1, <3>2, <3>4
    <3> QED BY <2>2, <3>3, <3>4
  <2>4. Len(f[m + 1]) \in Nat
    BY <2>3
  <2> QED BY <1>3, <2>1, <2>3, <2>4
<1> HIDE DEF S
<1>4. Len(h) \in S
  <2>1. 0..Len(h) \subseteq S
    BY <1>2, <1>3, BoundedSetInduction
  <2> QED BY <1>2, <2>1
<1> QED BY <1>1, <1>4 DEF S

\* What strip has kept of the first m turns: it ends as they do, or a tool turn at
\* their end has gone.
StrippedUpTo(h, q, m) ==
  /\ q \in Seq(Turn) /\ Sound(q)
  /\ m = 0 => q = <<>>
  /\ m # 0 => \/ q # <<>> /\ Last(q) = h[m]
              \/ h[m].role = "tool" /\ (q = <<>> \/ EndsWith(q, "user", h[m].of))

LEMMA StripStep ==
  ASSUME NEW h \in Seq(Turn), Sound(h), NEW m \in 0..Len(h), m # Len(h),
         NEW q, StrippedUpTo(h, q, m), NEW r,
         r = IF Goes(h, m + 1) THEN q ELSE Append(q, h[m + 1])
  PROVE  StrippedUpTo(h, r, m + 1)
<1> DEFINE t == h[m + 1]
<1>1. /\ Len(h) \in Nat /\ m + 1 \in 1..Len(h) /\ t \in Turn /\ t.of # <<>>
      /\ t.role \in {"user", "tool", "assistant"} /\ m + 1 # 0
      /\ q \in Seq(Turn) /\ Sound(q)
  <2>1. Len(h) \in Nat /\ m + 1 \in 1..Len(h) /\ t \in Turn
    OBVIOUS
  <2> QED BY <2>1 DEF Turn, Sound, StrippedUpTo
<1>2. m # 0 => Follows(h[m], t)
  <2>1. m # 0 => m + 1 \in 2..Len(h) /\ (m + 1) - 1 = m
    BY <1>1
  <2> QED BY <2>1 DEF Sound
<1> HIDE DEF t
<1>3. CASE Goes(h, m + 1)
  <2>1. r = q /\ t.role = "tool"
    BY <1>3 DEF Goes, t
  <2>2. m # 0 => h[m].role = "user" /\ Last(h[m].of) = Last(t.of)
    BY <1>2, <2>1 DEF Follows
  <2>3. q = <<>> \/ EndsWith(q, "user", t.of)
    BY <2>2 DEF StrippedUpTo, EndsWith
  <2> QED BY <1>1, <2>1, <2>3 DEF StrippedUpTo, t
<1>4. CASE ~Goes(h, m + 1)
  <2>1. r = Append(q, t)
    BY <1>4 DEF t
  <2>2. ASSUME q # <<>> PROVE Follows(Last(q), t)
    <3>1. m # 0
      BY <2>2 DEF StrippedUpTo
    <3>2. CASE Last(q) = h[m]
      BY <1>2, <3>1, <3>2
    <3>3. CASE h[m].role = "tool" /\ EndsWith(q, "user", h[m].of)
      BY <1>1, <1>2, <3>1, <3>3 DEF Follows, EndsWith
    <3> QED BY <2>2, <3>1, <3>2, <3>3 DEF StrippedUpTo
  <2>3. Sound(r)
    BY <1>1, <2>1, <2>2, SoundAppend
  <2>4. r \in Seq(Turn) /\ r # <<>> /\ Last(r) = t
    BY <1>1, <2>1, AppendTurn
  <2> QED BY <1>1, <2>3, <2>4 DEF StrippedUpTo, t
<1> QED BY <1>3, <1>4

\* strip_old_tool_context keeps a history sound, and no tool turn comes to its end.
LEMMA StripSound ==
  ASSUME NEW h \in Seq(Turn), Sound(h)
  PROVE  /\ Sound(strip(h))
         /\ strip(h) # <<>> /\ Last(strip(h)).role = "tool" =>
              h # <<>> /\ Last(h).role = "tool"
<1>1. PICK f : /\ strip(h) = f[Len(h)]
              /\ f[0] = <<>>
              /\ \A m \in 1..Len(h) :
                   f[m] = IF Goes(h, m) THEN f[m - 1] ELSE Append(f[m - 1], h[m])
  BY StripSteps
<1> DEFINE S == {m \in 0..Len(h) : StrippedUpTo(h, f[m], m)}
<1>2. Len(h) \in Nat /\ 0 \in S
  <2>1. Len(h) \in Nat /\ <<>> \in Seq(Turn) /\ 0 \in 0..Len(h)
    OBVIOUS
  <2>2. Sound(<<>>)
    BY DEF Sound
  <2>3. StrippedUpTo(h, <<>>, 0)
    BY <2>1, <2>2 DEF StrippedUpTo
  <2> QED BY <1>1, <2>1, <2>3
<1>3. ASSUME NEW m \in 0..Len(h), m \in S, m # Len(h) PROVE m + 1 \in S
  <2>1. m + 1 \in 1..Len(h) /\ (m + 1) - 1 = m /\ m + 1 \in 0..Len(h)
    BY <1>2, <1>3
  <2>2. f[m + 1] = IF Goes(h, m + 1) THEN f[m] ELSE Append(f[m], h[m + 1])
    BY <1>1, <2>1
  <2>3. StrippedUpTo(h, f[m + 1], m + 1)
    BY <1>3, <2>2, StripStep
  <2> QED BY <2>1, <2>3
<1> HIDE DEF S
<1>4. Len(h) \in S
  <2>1. 0..Len(h) \subseteq S
    BY <1>2, <1>3, BoundedSetInduction
  <2> QED BY <1>2, <2>1
<1>5. StrippedUpTo(h, strip(h), Len(h))
  BY <1>1, <1>4 DEF S
<1> QED BY <1>2, <1>5 DEF StrippedUpTo, EndsWith, Last

-----------------------------------------------------------------------------
(* What the actions do to the history *)

LEMMA AppendTurnProperties ==
  ASSUME NEW h \in Seq(Turn), NEW t \in Turn
  PROVE  /\ append_turn(h, t) \in Seq(Turn)
         /\ Len(append_turn(h, t)) <= MaxHistory
         /\ append_turn(h, t) # <<>> /\ Last(append_turn(h, t)) = t
<1>1. Append(h, t) \in Seq(Turn) /\ Append(h, t) # <<>> /\ Last(Append(h, t)) = t
  BY AppendTurn
<1> QED BY <1>1, NewestProperties, DispatchAssumption DEF append_turn

LEMMA AppendTurnSound ==
  ASSUME NEW h \in Seq(Turn), NEW t \in Turn, Sound(h), t.of # <<>>,
         h # <<>> => Follows(Last(h), t)
  PROVE  Sound(append_turn(h, t))
<1>1. Append(h, t) \in Seq(Turn) /\ Sound(Append(h, t))
  BY AppendTurn, SoundAppend
<1> QED BY <1>1, NewestSound, DispatchAssumption DEF append_turn

LEMMA CompactProperties ==
  ASSUME NEW h \in Seq(Turn)
  PROVE  /\ compact(h) \in Seq(Turn) /\ Len(compact(h)) <= Len(h)
         /\ Sound(h) => /\ Sound(compact(h))
                        /\ compact(h) # <<>> =>
                             h # <<>> /\ Last(compact(h)).role = Last(h).role
<1> DEFINE q == Newest(h, CompactKeep)
<1>1. /\ q \in Seq(Turn) /\ Len(q) <= Len(h)
      /\ h # <<>> => q # <<>> /\ Last(q) = Last(h)
  BY NewestProperties, DispatchAssumption
<1>2. Sound(h) => Sound(q)
  BY NewestSound, DispatchAssumption
<1>3. compact(h) = normalize(q)
  BY DEF compact
<1> HIDE DEF q
<1>4. normalize(q) \in Seq(Turn) /\ Len(normalize(q)) <= Len(q)
  BY <1>1, NormalizeTypes
<1>5. Len(h) \in Nat /\ Len(q) \in Nat /\ Len(normalize(q)) \in Nat
  BY <1>1, <1>4
<1>6. q # <<>> => h # <<>>
  <2>1. h = <<>> => Len(q) <= 0
    BY <1>1
  <2> QED BY <1>1, <1>5, <2>1
<1>7. Len(normalize(q)) <= Len(h)
  BY <1>1, <1>4, <1>5
<1>8. Sound(h) => /\ Sound(normalize(q))
                  /\ normalize(q) # <<>> => q # <<>> /\ Last(normalize(q)).role = Last(q).role
  BY <1>1, <1>2, NormalizeSound
<1> QED BY <1>1, <1>3, <1>4, <1>6, <1>7, <1>8

LEMMA FrontProperties ==
  ASSUME NEW h \in Seq(Turn), h # <<>>
  PROVE  /\ Front(h) \in Seq(Turn) /\ Len(Front(h)) <= Len(h)
         /\ Sound(h) => /\ Sound(Front(h))
                        /\ Front(h) # <<>> => Follows(Last(Front(h)), Last(h))
<1> DEFINE q == Front(h)
<1>1. Len(h) \in Nat \ {0}
  OBVIOUS
<1>2. /\ q \in Seq(Turn) /\ Len(q) = Len(h) - 1
      /\ \A n \in 1..Len(q) : q[n] = h[n]
  <2>1. q = SubSeq(h, 1, Len(h) - 1)
    BY DEF Front
  <2>2. Len(h) - 1 \in 0..Len(h)
    BY <1>1
  <2>3. SubSeq(h, 1, Len(h) - 1) \in Seq(Turn)
    BY <2>2
  <2>4. Len(SubSeq(h, 1, Len(h) - 1)) = Len(h) - 1
    <3>1. CASE Len(h) - 1 = 0
      BY <3>1
    <3>2. CASE 1 <= Len(h) - 1
      BY <1>1, <3>2
    <3> QED BY <1>1, <3>1, <3>2
  <2>5. \A n \in 1..(Len(h) - 1) : SubSeq(h, 1, Len(h) - 1)[n] = h[n]
    BY <2>2
  <2> QED BY <2>1, <2>3, <2>4, <2>5
<1> HIDE DEF q
<1>3. ASSUME Sound(h) PROVE Sound(q)
  <2>1. \A n \in 1..Len(q) : q[n].of # <<>>
    BY <1>1, <1>2, <1>3 DEF Sound
  <2>2. ASSUME NEW n \in 2..Len(q) PROVE Follows(q[n - 1], q[n])
    <3>1. n \in 2..Len(h) /\ n \in 1..Len(q) /\ n - 1 \in 1..Len(q)
      BY <1>1, <1>2
    <3> QED BY <1>2, <1>3, <3>1 DEF Sound
  <2> QED BY <2>1, <2>2 DEF Sound
<1>4. ASSUME Sound(h), q # <<>> PROVE Follows(Last(q), Last(h))
  <2>1. Len(q) # 0
    BY <1>2, <1>4
  <2>2. Len(h) \in 2..Len(h) /\ Len(q) \in 1..Len(q)
    BY <1>1, <1>2, <2>1
  <2>3. Follows(h[Len(h) - 1], h[Len(h)])
    BY <1>4, <2>2 DEF Sound
  <2> QED BY <1>2, <2>2, <2>3 DEF Last
<1>5. Len(q) <= Len(h)
  BY <1>1, <1>2
<1> QED BY <1>2, <1>3, <1>4, <1>5 DEF q

LEMMA TurnTypes ==
  ASSUME Types, NEW i \in Msg
  PROVE  UserTurn(i) \in Turn /\ ToolTurn(i) \in Turn /\ AssistantTurn(i) \in Turn
BY DEF Types, Turn, UserTurn, ToolTurn, AssistantTurn

-----------------------------------------------------------------------------
(* The type of the history *)

LEMMA WriteTypes ==
  ASSUME HistoryTypes, NEW k \in Conv, NEW h \in Seq(Turn), Len(h) <= MaxHistory,
         history' = [history EXCEPT ![k] = h], fresh' \in SUBSET Conv, stops' = stops
  PROVE  HistoryTypes'
BY DEF HistoryTypes

LEMMA ProcessTypes ==
  ASSUME Types, HistoryTypes, NEW i \in Msg, Process(i)
  PROVE  HistoryTypes'
<1> DEFINE k == conv(i)
           h == history[k]
<1>1. k \in Conv /\ h \in Seq(Turn) /\ Len(h) <= MaxHistory /\ fresh \in SUBSET Conv
  BY ConvOfMessage DEF HistoryTypes
<1>2. Len(h) \in Nat /\ MaxHistory \in Nat /\ <<>> \in Seq(Turn) /\ Len(<<>>) <= MaxHistory
  BY <1>1, DispatchAssumption
<1>3. stops' = stops
  BY DEF Process, Begin, EndAside, NewSession, TakePendingNewSession, ClearHistory,
     RecordUserTurn, CallModel, EndCancelled, EndSuppressed, RecordToolTurn, EndAnswered,
     EndStripped, EndCompacted, EndTimeout, EndFailed, ProcessFrame, loopVars
<1> HIDE DEF k
<1>4. CASE \/ Begin(i) \/ EndAside(i) \/ CallModel(i) \/ EndCancelled(i)
           \/ EndSuppressed(i)
  <2>1. history' = history /\ fresh' = fresh
    BY <1>4 DEF Begin, EndAside, CallModel, EndCancelled, EndSuppressed
  <2> QED BY <1>3, <2>1 DEF HistoryTypes
<1>5. CASE NewSession(i) \/ ClearHistory(i)
  <2>1. history' = [history EXCEPT ![k] = <<>>] /\ fresh' \in SUBSET Conv
    BY <1>1, <1>5 DEF NewSession, ClearHistory, k
  <2> QED BY <1>1, <1>2, <1>3, <2>1, WriteTypes
<1>6. CASE TakePendingNewSession(i)
  BY <1>1, <1>3, <1>6 DEF TakePendingNewSession, HistoryTypes
<1>7. ASSUME NEW t \in Turn, history' = [history EXCEPT ![k] = append_turn(h, t)],
             fresh' = fresh
      PROVE  HistoryTypes'
  <2>1. append_turn(h, t) \in Seq(Turn) /\ Len(append_turn(h, t)) <= MaxHistory
    BY <1>1, AppendTurnProperties
  <2> QED BY <1>1, <1>3, <1>7, <2>1, WriteTypes
<1>8. CASE RecordUserTurn(i)
  BY <1>7, <1>8, TurnTypes DEF RecordUserTurn, k
<1>9. CASE RecordToolTurn(i)
  BY <1>7, <1>9, TurnTypes DEF RecordToolTurn, k
<1>10. CASE EndAnswered(i) \/ EndTimeout(i)
  BY <1>7, <1>10, TurnTypes DEF EndAnswered, EndTimeout, k
<1>11. ASSUME NEW q \in Seq(Turn), Len(q) <= Len(h),
              history' = [history EXCEPT ![k] = q], fresh' = fresh
       PROVE  HistoryTypes'
  <2>1. Len(q) <= MaxHistory
    <3>1. Len(q) \in Nat
      OBVIOUS
    <3> QED BY <1>1, <1>2, <1>11, <3>1
  <2> QED BY <1>1, <1>3, <1>11, <2>1, WriteTypes
<1>12. CASE EndStripped(i)
  <2>1. strip(h) \in Seq(Turn) /\ Len(strip(h)) <= Len(h)
    BY <1>1, StripTypes
  <2>2. history' = [history EXCEPT ![k] = strip(h)] /\ fresh' = fresh
    BY <1>12 DEF EndStripped, k
  <2> QED BY <1>11, <2>1, <2>2
<1>13. CASE EndCompacted(i)
  <2>1. compact(h) \in Seq(Turn) /\ Len(compact(h)) <= Len(h)
    BY <1>1, CompactProperties
  <2>2. history' = [history EXCEPT ![k] = compact(h)] /\ fresh' = fresh
    BY <1>13 DEF EndCompacted, k
  <2> QED BY <1>11, <2>1, <2>2
<1>14. ASSUME NEW rollback \in BOOLEAN, EndFailed(i, rollback) PROVE HistoryTypes'
  <2>1. \/ h # <<>> /\ history' = [history EXCEPT ![k] = Front(h)]
        \/ history' = [history EXCEPT ![k] = append_turn(h, AssistantTurn(i))]
    BY <1>14 DEF EndFailed, k
  <2>2. fresh' = fresh
    BY <1>14 DEF EndFailed
  <2>3. h # <<>> => Front(h) \in Seq(Turn) /\ Len(Front(h)) <= Len(h)
    BY <1>1, FrontProperties
  <2> QED BY <1>7, <1>11, <2>1, <2>2, <2>3, TurnTypes
<1> QED
  BY <1>4, <1>5, <1>6, <1>8, <1>9, <1>10, <1>12, <1>13, <1>14 DEF Process

LEMMA HistoryTypesStep ==
  ASSUME Types, HistoryTypes, Next
  PROVE  HistoryTypes'
<1>1. ASSUME NEW r \in Route, ReceiveStop(r) PROVE HistoryTypes'
  BY <1>1 DEF ReceiveStop, HistoryTypes, talk
<1>2. ASSUME UNCHANGED <<history, fresh, stops>> PROVE HistoryTypes'
  BY <1>2 DEF HistoryTypes
<1>3. CASE Receive \/ StopCancel \/ Spawn \/ Close \/ Return
  BY <1>2, <1>3 DEF Receive, StopCancel, Spawn, Close, Return, talk
<1>4. ASSUME NEW i \in Msg, Timer(i) PROVE HistoryTypes'
  BY <1>2, <1>4 DEF Timer, TimerElapses, TimerFires, loopVars, talk
<1>5. ASSUME NEW i \in Msg, \/ DispatchCombined(i) \/ Register(i) \/ Interrupt(i)
                            \/ WaitLoadsDone(i) \/ WaitSubscribes(i)
                            \/ Unregister(i) \/ MarkStoresDone(i) \/ MarkNotifies(i)
      PROVE  HistoryTypes'
  BY <1>2, <1>5 DEF DispatchCombined, Register, Interrupt, WaitLoadsDone, WaitSubscribes,
     Unregister, MarkStoresDone, MarkNotifies, loopVars, talk
<1> QED BY <1>1, <1>3, <1>4, <1>5, ProcessTypes DEF Next, Loop, Worker

-----------------------------------------------------------------------------
(* The text of a worker, and its end *)

LEMMA LoadedStep ==
  ASSUME IInv, Loaded, Next
  PROVE  Loaded'
<1>1. Types /\ LoopMessage
  BY DEF IInv
<1>2. CASE Calm
  BY <1>2 DEF Calm, Loaded
<1>3. CASE Receive
  <2>1. received + 1 \in Msg
    BY <1>3 DEF Receive
  <2>2. \A j \in Msg \ {received + 1} : pc'[j] = pc[j] /\ content'[j] = content[j]
    BY <1>1, <1>3 DEF Receive, Goto, Types
  <2>3. pc'[received + 1] = "rx" \/ content'[received + 1] = <<received + 1>>
    BY <1>1, <1>3, <2>1 DEF Receive, Goto, Types
  <2> QED BY <2>1, <2>2, <2>3 DEF Loaded
<1>4. ASSUME NEW i \in Msg, TimerFires(i) PROVE Loaded'
  BY <1>4 DEF TimerFires, Loaded
<1>5. ASSUME NEW i \in Msg, DispatchCombined(i) PROVE Loaded'
  <2>1. \A j \in Msg \ {i} : pc'[j] = pc[j] /\ content'[j] = content[j]
    BY <1>1, <1>5 DEF DispatchCombined, Goto, Types
  <2>2. content'[i] # <<>>
    BY <1>1, <1>5 DEF DispatchCombined, Types
  <2> QED BY <2>1, <2>2 DEF Loaded
<1> QED BY <1>1, <1>2, <1>3, <1>4, <1>5, CalmSteps

LEMMA DoneByGoto ==
  ASSUME Types, DoneAfterEnd, NEW i \in Msg, NEW stage, Goto(i, stage), done' = done,
         pc[i] \notin {"notifying", "done"}
  PROVE  DoneAfterEnd'
BY DEF Goto, Types, DoneAfterEnd

LEMMA DoneStep ==
  ASSUME IInv, DoneAfterEnd, Next
  PROVE  DoneAfterEnd'
<1> USE DEF loopVars, registry
<1>1. Types /\ LoopMessage /\ Unreceived
  BY DEF IInv
<1>2. CASE Receive
  <2>1. received + 1 \in Msg /\ received + 1 > received
    BY <1>1, <1>2 DEF Receive, Types
  <2>2. pc[received + 1] = "none"
    BY <1>1, <2>1 DEF Unreceived
  <2> QED BY <1>1, <1>2, <2>1, <2>2, DoneByGoto DEF Receive
<1>3. ASSUME UNCHANGED <<pc, done>> PROVE DoneAfterEnd'
  BY <1>3 DEF DoneAfterEnd
<1>4. CASE (\E r \in Route : ReceiveStop(r)) \/ StopCancel \/ Close \/ Return
  BY <1>3, <1>4 DEF ReceiveStop, StopCancel, Close, Return
<1>5. CASE Spawn
  BY <1>1, <1>5, DoneByGoto DEF Spawn, LoopMessage
<1>6. ASSUME NEW i \in Msg, Timer(i) PROVE DoneAfterEnd'
  BY <1>3, <1>6 DEF Timer, TimerElapses, TimerFires
<1>7. ASSUME NEW i \in Msg, DispatchCombined(i) \/ Register(i) \/ Interrupt(i)
                            \/ Unregister(i)
      PROVE  DoneAfterEnd'
  BY <1>1, <1>7, DoneByGoto DEF DispatchCombined, Register, Interrupt, Unregister
<1>8. ASSUME NEW i \in Msg, Moves(i) PROVE DoneAfterEnd'
  BY <1>1, <1>8, DoneByGoto DEF Moves, Goto, Registered, Running
<1>9. ASSUME NEW i \in Msg, MarkStoresDone(i) PROVE DoneAfterEnd'
  BY <1>1, <1>9 DEF MarkStoresDone, Goto, Types, DoneAfterEnd
<1>10. ASSUME NEW i \in Msg, MarkNotifies(i) PROVE DoneAfterEnd'
  <2>1. \A j \in Msg : pc[j] \in {"notifying", "done"} => pc'[j] \in {"notifying", "done"}
    BY <1>10 DEF MarkNotifies
  <2> QED BY <1>10, <2>1 DEF MarkNotifies, DoneAfterEnd
<1> QED
  BY <1>2, <1>4, <1>5, <1>6, <1>7, <1>8, <1>9, <1>10, ProcessMoves, WaitMoves
     DEF Next, Loop, Worker

-----------------------------------------------------------------------------
(* The workers of a scope queue *)

\* The stages of a registered worker that does not wait.
Active == {"processing", "preprocessing", "clearing", "recording", "preparing",
           "calling", "answering", "stripping", "ending"}

LEMMA ActiveStages ==
  /\ Registered = Waits \cup Active
  /\ Waits \cap Active = {}
BY DEF Registered, Running, Waits, Active

\* At most one member of a scope is active.
LEMMA OneActive ==
  ASSUME Types, NEW s, NEW rank \in [Msg -> Nat], Chain(s, rank),
         NEW i \in Msg, NEW j \in Msg, Member(i, s), Member(j, s),
         pc[i] \in Active, pc[j] \in Active
  PROVE  i = j
<1>1. pc[i] \notin Waits /\ pc[j] \notin Waits
  BY ActiveStages
<1>2. ~(rank[i] < rank[j]) /\ ~(rank[j] < rank[i])
  BY <1>1 DEF Chain
<1>3. rank[i] = rank[j]
  <2>1. rank[i] \in Nat /\ rank[j] \in Nat
    OBVIOUS
  <2> QED BY <1>2, <2>1
<1> QED BY <1>3 DEF Chain

\* A step that changes neither the members of s nor their places, and ends no wait for
\* a member, keeps the order.
LEMMA ChainKept ==
  ASSUME NEW s, NEW rank \in [Msg -> Nat], Chain(s, rank),
         \A i \in Msg : Member(i, s)' <=> Member(i, s),
         in_flight'[s] = in_flight[s],
         \A i \in Msg : Member(i, s) => previous'[i] = previous[i],
         \A i \in Msg : Member(i, s) /\ pc[i] \in Waits /\ pc'[i] \notin Waits
                          /\ previous[i] \in Msg => ~Member(previous[i], s)
  PROVE  Chain(s, rank)'
<1>1. ASSUME NEW i \in Msg, Member(i, s)
      PROVE  in_flight'[s] \in Msg /\ Member(in_flight[s], s)' /\ rank[i] <= rank[in_flight'[s]]
  BY <1>1 DEF Chain
<1>2. ASSUME NEW i \in Msg, NEW v \in Msg, Member(i, s), Member(v, s), rank[v] < rank[i]
      PROVE  /\ pc'[i] \in Waits /\ previous'[i] \in Msg
             /\ previous'[i] = previous[i] /\ Member(previous[i], s)'
             /\ rank[v] <= rank[previous'[i]]
  BY <1>2 DEF Chain
<1> QED BY <1>1, <1>2 DEF Chain, Member, Registers, scope

\* A step in which no registered worker comes or goes, and a wait ends only for a
\* worker that is not registered any more.
LEMMA ChainQuiet ==
  ASSUME Chained, UNCHANGED <<config, stops, in_flight, previous>>,
         \A i \in Msg : Registers(i) => (pc'[i] \in Registered <=> pc[i] \in Registered),
         \A i \in Msg : pc[i] \in Waits /\ pc'[i] \notin Waits /\ previous[i] \in Msg =>
                         pc[previous[i]] \notin Registered
  PROVE  Chained'
<1> SUFFICES ASSUME config.interrupt, stops = 0, NEW s \in Scope
             PROVE  \E rank \in [Msg -> Nat] : Chain(s, rank)'
  BY DEF Chained
<1>1. PICK rank \in [Msg -> Nat] : Chain(s, rank)
  BY DEF Chained
<1>2. \A i \in Msg : Member(i, s)' <=> Member(i, s)
  BY KeysFixed DEF Member
<1>3. \A i \in Msg : Member(i, s) /\ pc[i] \in Waits /\ pc'[i] \notin Waits
                     /\ previous[i] \in Msg => ~Member(previous[i], s)
  BY DEF Member
<1>4. in_flight'[s] = in_flight[s] /\ \A i \in Msg : previous'[i] = previous[i]
  OBVIOUS
<1>5. Chain(s, rank)'
  BY <1>1, <1>2, <1>3, <1>4, ChainKept
<1> QED BY <1>5

LEMMA ChainByGoto ==
  ASSUME Types, Chained, NEW i \in Msg, NEW stage, Goto(i, stage),
         UNCHANGED <<config, stops, in_flight, previous>>,
         pc[i] \in Registered <=> stage \in Registered,
         pc[i] \in Waits /\ stage \notin Waits /\ previous[i] \in Msg =>
           pc[previous[i]] \notin Registered
  PROVE  Chained'
<1>1. pc'[i] = stage /\ \A j \in Msg \ {i} : pc'[j] = pc[j]
  BY DEF Goto, Types
<1> QED BY <1>1, ChainQuiet

LEMMA ProcessStages ==
  ASSUME NEW i \in Msg, Process(i)
  PROVE  pc[i] \in Active /\ ProcessFrame /\ \E stage \in Active : Goto(i, stage)
<1> USE DEF Active, Ends
<1>1. CASE \/ Begin(i) \/ EndAside(i) \/ NewSession(i) \/ TakePendingNewSession(i)
           \/ ClearHistory(i) \/ RecordUserTurn(i)
  BY <1>1 DEF Begin, EndAside, NewSession, TakePendingNewSession, ClearHistory,
     RecordUserTurn
<1>2. CASE \/ CallModel(i) \/ EndCancelled(i) \/ EndSuppressed(i) \/ RecordToolTurn(i)
           \/ EndAnswered(i) \/ EndStripped(i)
  BY <1>2 DEF CallModel, EndCancelled, EndSuppressed, RecordToolTurn, EndAnswered,
     EndStripped
<1>3. CASE \/ EndCompacted(i) \/ EndTimeout(i) \/ \E rollback \in BOOLEAN : EndFailed(i, rollback)
  BY <1>3 DEF EndCompacted, EndTimeout, EndFailed
<1> QED BY <1>1, <1>2, <1>3 DEF Process

LEMMA RegisterChain ==
  ASSUME Types, TableInv, Chained, NEW i \in Msg, Register(i)
  PROVE  Chained'
<1>1. /\ pc[i] = "spawned" /\ UNCHANGED <<config, stops>>
      /\ \A j \in Msg \ {i} : pc'[j] = pc[j]
  BY DEF Register, Goto, Types, loopVars
<1>2. CASE ~Registers(i)
  <2>1. UNCHANGED <<in_flight, previous>>
    BY <1>2 DEF Register
  <2> QED BY <1>1, <1>2, <2>1, ChainQuiet DEF Waits
<1>3. CASE Registers(i)
  <2> SUFFICES ASSUME config.interrupt, stops = 0, NEW s \in Scope
               PROVE  \E rank \in [Msg -> Nat] : Chain(s, rank)'
    BY <1>1 DEF Chained
  <2>1. PICK rank \in [Msg -> Nat] : Chain(s, rank)
    BY DEF Chained
  <2>2. \A j \in Msg \ {i} : Member(j, s)' <=> Member(j, s)
    BY <1>1, KeysFixed DEF Member
  <2>3. ~Member(i, s)
    BY <1>1 DEF Member, Registered, Running
  <2>4. \A j \in Msg \ {i} : previous'[j] = previous[j]
    BY <1>3 DEF Register, Types
  <2>5. CASE s # scope(i)
    <3>1. in_flight'[s] = in_flight[s] /\ ~Member(i, s)'
      BY <1>1, <1>3, <2>5, KeysFixed DEF Register, Types, Member
    <3>2. \A j \in Msg : Member(j, s)' <=> Member(j, s)
      BY <2>2, <2>3, <3>1
    <3>3. \A j \in Msg : Member(j, s) => pc'[j] = pc[j] /\ previous'[j] = previous[j]
      BY <1>1, <2>3, <2>4
    <3>4. Chain(s, rank)'
      BY <2>1, <3>1, <3>2, <3>3, ChainKept
    <3> QED BY <3>4
  <2>6. CASE s = scope(i)
    <3>1. in_flight'[s] = i
      BY <1>3, <2>6 DEF Register, Types
    <3>2. pc'[i] \in Registered /\ Member(i, s)'
      <4>1. pc'[i] \in {"interrupting", "processing"}
        BY <1>3 DEF Register, Goto, Types
      <4> QED BY <1>1, <1>3, <2>6, <4>1, KeysFixed DEF Member, Registered, Running
    <3>3. CASE in_flight[s] = NoMsg
      <4>1. \A j \in Msg : ~Member(j, s)
        BY <2>1, <3>3 DEF Chain, Msg, NoMsg
      <4>2. \A j \in Msg : Member(j, s)' => j = i
        BY <2>2, <4>1
      <4>3. rank[i] \in Nat
        OBVIOUS
      <4>4. Chain(s, rank)'
        BY <3>1, <3>2, <4>2, <4>3 DEF Chain
      <4> QED BY <4>4
    <3>4. CASE in_flight[s] # NoMsg
      <4>1. PICK v \in Msg : v = in_flight[s] /\ Member(v, s) /\ v # i
        <5>1. in_flight[s] \in Msg
          BY <3>4 DEF Types
        <5> QED BY <2>3, <3>4, <5>1 DEF TableInv, EntriesRegister, InFlightExact, Member
      <4> DEFINE above == [rank EXCEPT ![i] = rank[v] + 1]
      <4>2. pc'[i] = "interrupting" /\ previous'[i] = v
        BY <1>3, <2>6, <3>4, <4>1 DEF Register, Goto, Types
      <4>3. /\ above \in [Msg -> Nat] /\ above[i] = rank[v] + 1 /\ rank[v] \in Nat
            /\ \A j \in Msg \ {i} : above[j] = rank[j] /\ rank[j] \in Nat
        BY <4>1
      <4> HIDE DEF above
      <4>4. \A j \in Msg : Member(j, s) => j # i /\ above[j] = rank[j] /\ rank[j] <= rank[v]
        BY <2>1, <2>3, <4>1, <4>3 DEF Chain
      <4>5. ASSUME NEW a \in Msg, NEW b \in Msg, Member(a, s)', Member(b, s)', above[a] = above[b]
            PROVE  a = b
        <5>1. CASE a # i /\ b # i
          BY <2>1, <2>2, <4>4, <4>5, <5>1 DEF Chain
        <5>2. CASE a = i /\ b # i
          <6>1. Member(b, s)
            BY <2>2, <4>5, <5>2
          <6> QED BY <4>3, <4>4, <4>5, <5>2, <6>1
        <5>3. CASE a # i /\ b = i
          <6>1. Member(a, s)
            BY <2>2, <4>5, <5>3
          <6> QED BY <4>3, <4>4, <4>5, <5>3, <6>1
        <5> QED BY <5>1, <5>2, <5>3
      <4>6. ASSUME NEW a \in Msg, Member(a, s)' PROVE above[a] <= above[i]
        <5>1. CASE a = i
          BY <4>3, <5>1
        <5>2. CASE a # i
          <6>1. Member(a, s)
            BY <2>2, <4>6, <5>2
          <6> QED BY <4>3, <4>4, <5>2, <6>1
        <5> QED BY <5>1, <5>2
      <4>7. ASSUME NEW a \in Msg, NEW b \in Msg, Member(a, s)', Member(b, s)', above[b] < above[a]
            PROVE  /\ pc'[a] \in Waits /\ previous'[a] \in Msg
                   /\ \E p \in Msg : p = previous'[a] /\ Member(p, s)' /\ above[b] <= above[p]
        <5>1. b # i
          <6>1. above[a] <= above[i] /\ above[a] \in Nat /\ above[i] \in Nat
            BY <4>3, <4>6, <4>7
          <6> QED BY <4>7, <6>1
        <5>2. Member(b, s) /\ above[b] = rank[b] /\ rank[b] <= rank[v]
          BY <2>2, <4>4, <4>7, <5>1
        <5>3. CASE a = i
          <6>1. v \in Msg \ {i} /\ Member(v, s)' /\ above[v] = rank[v]
            BY <2>2, <4>1, <4>3
          <6> QED BY <4>1, <4>2, <5>2, <5>3, <6>1 DEF Waits
        <5>4. CASE a # i
          <6>1. Member(a, s) /\ above[a] = rank[a] /\ rank[b] < rank[a]
            BY <2>2, <4>3, <4>7, <5>2, <5>4
          <6>2. PICK p \in Msg : /\ pc[a] \in Waits /\ p = previous[a] /\ Member(p, s)
                                 /\ rank[b] <= rank[p]
            BY <2>1, <5>2, <6>1 DEF Chain
          <6>3. p # i /\ Member(p, s)' /\ above[p] = rank[p]
            BY <2>2, <4>4, <6>2
          <6>4. pc'[a] = pc[a] /\ previous'[a] = previous[a]
            BY <1>1, <2>4, <5>4
          <6> QED BY <5>2, <6>2, <6>3, <6>4
        <5> QED BY <5>3, <5>4
      <4>8. /\ in_flight'[s] \in Msg /\ Member(in_flight[s], s)'
            /\ \A a \in Msg : Member(a, s)' => above[a] <= above[in_flight'[s]]
        BY <3>1, <3>2, <4>6 DEF Member, scope, Registers
      <4>9. ASSUME NEW a \in Msg, NEW b \in Msg, Member(a, s)', Member(b, s)', above[b] < above[a]
            PROVE  /\ pc'[a] \in Waits /\ previous'[a] \in Msg
                   /\ Member(previous[a], s)' /\ above[b] <= above[previous'[a]]
        BY <4>7, <4>9 DEF Member, scope, Registers
      <4>10. Chain(s, above)'
        BY <4>5, <4>8, <4>9 DEF Chain
      <4> QED BY <4>3, <4>10
    <3> QED BY <3>3, <3>4
  <2> QED BY <2>5, <2>6
<1> QED BY <1>2, <1>3

LEMMA UnregisterChain ==
  ASSUME Types, TableInv, Chained, NEW i \in Msg, Unregister(i)
  PROVE  Chained'
<1>1. /\ pc[i] = "ending" /\ pc'[i] = "marking" /\ UNCHANGED <<config, stops, previous>>
      /\ \A j \in Msg \ {i} : pc'[j] = pc[j]
  BY DEF Unregister, Goto, Types, loopVars
<1>2. pc[i] \notin Waits /\ pc'[i] \notin Registered
  BY <1>1 DEF Waits, Registered, Running
<1> SUFFICES ASSUME config.interrupt, stops = 0, NEW s \in Scope
             PROVE  \E rank \in [Msg -> Nat] : Chain(s, rank)'
  BY <1>1 DEF Chained
<1>3. PICK rank \in [Msg -> Nat] : Chain(s, rank)
  BY DEF Chained
<1>4. \A j \in Msg : Member(j, s)' <=> Member(j, s) /\ j # i
  BY <1>1, <1>2, KeysFixed DEF Member
<1>5. \A a \in Msg : Member(a, s) /\ Member(i, s) /\ a # i => rank[i] < rank[a]
  <2> SUFFICES ASSUME NEW a \in Msg, Member(a, s), Member(i, s), a # i PROVE rank[i] < rank[a]
    OBVIOUS
  <2>1. rank[a] # rank[i] /\ ~(rank[a] < rank[i])
    BY <1>2, <1>3 DEF Chain
  <2>2. rank[a] \in Nat /\ rank[i] \in Nat
    OBVIOUS
  <2> QED BY <2>1, <2>2
<1>6. CASE ~Member(i, s)
  <2>1. in_flight'[s] = in_flight[s]
    <3>1. in_flight[s] # i
      <4>1. i # NoMsg
        BY DEF Msg, NoMsg
      <4> QED BY <1>6, <4>1 DEF TableInv, EntriesRegister, InFlightExact, Member
    <3> QED BY <3>1 DEF Unregister, Types
  <2>2. \A j \in Msg : Member(j, s)' <=> Member(j, s)
    BY <1>4, <1>6
  <2>3. \A j \in Msg : Member(j, s) => pc'[j] = pc[j] /\ previous'[j] = previous[j]
    BY <1>1, <1>6
  <2>4. Chain(s, rank)'
    BY <1>3, <2>1, <2>2, <2>3, ChainKept
  <2> QED BY <2>4
<1>7. CASE Member(i, s) /\ in_flight[s] = i
  <2>1. ASSUME NEW a \in Msg, Member(a, s), a # i PROVE FALSE
    <3>1. rank[a] <= rank[i] /\ rank[i] < rank[a]
      BY <1>3, <1>5, <1>7, <2>1 DEF Chain
    <3>2. rank[a] \in Nat /\ rank[i] \in Nat
      OBVIOUS
    <3> QED BY <3>1, <3>2
  <2>2. \A a \in Msg : ~Member(a, s)'
    BY <1>4, <2>1
  <2>3. Chain(s, rank)'
    BY <2>2 DEF Chain
  <2> QED BY <2>3
<1>8. CASE Member(i, s) /\ in_flight[s] # i
  <2>1. in_flight'[s] = in_flight[s]
    BY <1>8 DEF Unregister, Types
  <2>2. ASSUME NEW a \in Msg, Member(a, s)'
        PROVE  /\ in_flight'[s] \in Msg /\ Member(in_flight[s], s)'
               /\ rank[a] <= rank[in_flight'[s]]
    <3>1. PICK v \in Msg : v = in_flight[s] /\ Member(v, s) /\ rank[a] <= rank[v]
      BY <1>3, <1>4, <2>2 DEF Chain
    <3>2. Member(v, s)'
      BY <1>4, <1>8, <3>1
    <3> QED BY <2>1, <3>1, <3>2 DEF Member, scope, Registers
  <2>3. ASSUME NEW a \in Msg, NEW b \in Msg, Member(a, s)', Member(b, s)', rank[b] < rank[a]
        PROVE  /\ pc'[a] \in Waits /\ previous'[a] \in Msg
               /\ Member(previous[a], s)' /\ rank[b] <= rank[previous'[a]]
    <3>1. Member(a, s) /\ Member(b, s) /\ a # i /\ b # i
      BY <1>4, <2>3
    <3>2. PICK p \in Msg : /\ pc[a] \in Waits /\ p = previous[a] /\ Member(p, s)
                           /\ rank[b] <= rank[p]
      BY <1>3, <2>3, <3>1 DEF Chain
    <3>3. p # i
      <4>1. rank[i] < rank[b] /\ rank[i] \in Nat /\ rank[b] \in Nat
        BY <1>5, <1>8, <3>1
      <4> QED BY <3>2, <4>1
    <3>4. Member(p, s)' /\ p = previous'[a] /\ pc'[a] = pc[a]
      BY <1>1, <1>4, <3>1, <3>2, <3>3
    <3> QED BY <3>2, <3>4 DEF Member, scope, Registers
  <2>4. \A a, b \in Msg : Member(a, s)' /\ Member(b, s)' /\ rank[a] = rank[b] => a = b
    BY <1>3, <1>4 DEF Chain
  <2>5. Chain(s, rank)'
    BY <2>2, <2>3, <2>4 DEF Chain
  <2> QED BY <2>5
<1> QED BY <1>6, <1>7, <1>8

LEMMA ChainStep ==
  ASSUME IInv, HistoryTypes, DoneAfterEnd, Chained, Next
  PROVE  Chained'
<1> USE DEF loopVars, registry
<1>1. Types /\ LoopMessage /\ Unreceived /\ TableInv
  BY DEF IInv
<1>2. CASE Receive
  <2>1. received + 1 \in Msg /\ received + 1 > received
    BY <1>1, <1>2 DEF Receive, Types
  <2>2. pc[received + 1] = "none"
    BY <1>1, <2>1 DEF Unreceived
  <2> QED BY <1>1, <1>2, <2>1, <2>2, ChainByGoto DEF Receive, Registered, Running, Waits
<1>3. ASSUME NEW r \in Route, ReceiveStop(r) PROVE Chained'
  <2>1. stops' # 0
    BY <1>3 DEF ReceiveStop, HistoryTypes
  <2> QED BY <2>1 DEF Chained
<1>4. ASSUME UNCHANGED <<config, stops, in_flight, previous, pc>> PROVE Chained'
  BY <1>4, ChainQuiet
<1>5. CASE StopCancel \/ Close \/ Return
  BY <1>4, <1>5 DEF StopCancel, Close, Return
<1>6. CASE Spawn
  BY <1>1, <1>6, ChainByGoto DEF Spawn, LoopMessage, Registered, Running, Waits
<1>7. ASSUME NEW i \in Msg, Timer(i) PROVE Chained'
  BY <1>4, <1>7 DEF Timer, TimerElapses, TimerFires
<1>8. ASSUME NEW i \in Msg, DispatchCombined(i) PROVE Chained'
  BY <1>1, <1>8, ChainByGoto DEF DispatchCombined, Registered, Running, Waits
<1>9. ASSUME NEW i \in Msg, Register(i) PROVE Chained'
  BY <1>1, <1>9, RegisterChain
<1>10. ASSUME NEW i \in Msg, Interrupt(i) PROVE Chained'
  BY <1>1, <1>10, ChainByGoto DEF Interrupt, Registered, Running, Waits
<1>11. ASSUME NEW i \in Msg, WaitLoadsDone(i) PROVE Chained'
  <2>1. CASE done[previous[i]]
    <3>1. previous[i] \in Msg => pc[previous[i]] \notin Registered
      BY <2>1 DEF DoneAfterEnd, Registered, Running
    <3> QED BY <1>1, <1>11, <2>1, <3>1, ChainByGoto DEF WaitLoadsDone, Registered, Running
  <2>2. CASE ~done[previous[i]]
    BY <1>1, <1>11, <2>2, ChainByGoto DEF WaitLoadsDone, Registered, Running, Waits
  <2> QED BY <2>1, <2>2
<1>12. ASSUME NEW i \in Msg, WaitSubscribes(i) PROVE Chained'
  BY <1>1, <1>12, ChainByGoto DEF WaitSubscribes, Registered, Running, Waits
<1>13. ASSUME NEW i \in Msg, Process(i) PROVE Chained'
  <2>1. PICK stage \in Active : Goto(i, stage)
    BY <1>13, ProcessStages
  <2>2. pc[i] \in Active /\ UNCHANGED <<config, stops, in_flight, previous>>
    BY <1>13, ProcessStages DEF ProcessFrame
  <2> QED BY <1>1, <2>1, <2>2, ActiveStages, ChainByGoto
<1>14. ASSUME NEW i \in Msg, Unregister(i) PROVE Chained'
  BY <1>1, <1>14, UnregisterChain
<1>15. ASSUME NEW i \in Msg, MarkStoresDone(i) PROVE Chained'
  BY <1>1, <1>15, ChainByGoto DEF MarkStoresDone, Registered, Running, Waits
<1>16. ASSUME NEW i \in Msg, MarkNotifies(i) PROVE Chained'
  <2>1. \A j \in Msg : pc'[j] \in Registered <=> pc[j] \in Registered
    BY <1>16 DEF MarkNotifies, Registered, Running
  <2>2. \A j \in Msg : pc[j] \in Waits /\ pc'[j] \notin Waits => pc[previous[j]] \notin Registered
    BY <1>16 DEF MarkNotifies, Waits, Registered, Running
  <2> QED BY <1>16, <2>1, <2>2, ChainQuiet DEF MarkNotifies
<1> QED
  BY <1>2, <1>3, <1>5, <1>6, <1>7, <1>8, <1>9, <1>10, <1>11, <1>12, <1>13, <1>14,
     <1>15, <1>16 DEF Next, Loop, Worker

-----------------------------------------------------------------------------
(* The turns of a conversation *)

\* At most one worker of a conversation is active.
LEMMA OneWriter ==
  ASSUME Types, Chained, config.interrupt, stops = 0, NEW k \in Conv, OneScope(k),
         NEW i \in Msg, NEW j \in Msg, conv(i) = k, conv(j) = k,
         pc[i] \in Active, pc[j] \in Active
  PROVE  i = j
<1>1. config.route[i] \in Route /\ config.route[j] \in Route
  BY DispatchAssumption DEF Types
<1>2. Registers(i) /\ Registers(j) /\ scope(i) = scope(j)
  BY <1>1 DEF OneScope, conv, scope, Registers
<1>3. scope(i) \in Scope
  BY ConvOfMessage
<1>4. PICK rank \in [Msg -> Nat] : Chain(scope(i), rank)
  BY <1>3 DEF Chained
<1>5. Member(i, scope(i)) /\ Member(j, scope(i))
  BY <1>2, ActiveStages DEF Member
<1> QED BY <1>4, <1>5, OneActive

\* The stages of a worker whose turn is the last of the history.
Speaking == {"preparing", "calling", "answering"}

\* Nobody writes, and nobody but the one who calls the model next begins to speak.
LEMMA TalksQuiet ==
  ASSUME Talks, UNCHANGED <<config, stops, history>>,
         \A j \in Msg : pc'[j] \in Speaking \/ pc[j] = "answering" =>
           /\ content'[j] = content[j]
           /\ pc'[j] = pc[j] \/ (pc[j] = "preparing" /\ pc'[j] = "calling")
  PROVE  Talks'
<1> SUFFICES ASSUME config.interrupt, stops = 0, NEW k \in Conv, OneScope(k)
             PROVE  Talk(k)'
  BY DEF Talks
<1>1. Talk(k)
  BY DEF Talks
<1>2. \A j \in Msg : conv(j)' = conv(j)
  BY DEF conv
<1>3. Sound(history[k])'
  BY <1>1 DEF Talk
<1>4. ASSUME history'[k] # <<>>, Last(history'[k]).role = "tool"
      PROVE  \E i \in Msg : conv(i)' = k /\ pc'[i] = "answering"
  <2>1. PICK i \in Msg : conv(i) = k /\ pc[i] = "answering"
    BY <1>1, <1>4 DEF Talk
  <2> QED BY <1>2, <2>1
<1>5. ASSUME NEW i \in Msg, conv(i)' = k, pc'[i] \in {"preparing", "calling"}
      PROVE  EndsWith(history'[k], "user", content'[i])
  <2>1. content'[i] = content[i] /\ pc[i] \in {"preparing", "calling"} /\ conv(i) = k
    BY <1>2, <1>5 DEF Speaking
  <2> QED BY <1>1, <2>1 DEF Talk
<1>6. ASSUME NEW i \in Msg, conv(i)' = k, pc'[i] = "answering"
      PROVE  EndsWith(history'[k], "tool", content'[i])
  <2>1. content'[i] = content[i] /\ pc[i] = "answering" /\ conv(i) = k
    BY <1>2, <1>6 DEF Speaking
  <2> QED BY <1>1, <2>1 DEF Talk
<1> QED BY <1>3, <1>4, <1>5, <1>6 DEF Talk

LEMMA TalksByGoto ==
  ASSUME Types, Talks, NEW i \in Msg, NEW stage, Goto(i, stage),
         UNCHANGED <<config, stops, history>>,
         \A j \in Msg : pc[j] \in Speaking => content'[j] = content[j],
         pc[i] # "answering",
         stage \notin Speaking \/ (pc[i] = "preparing" /\ stage = "calling")
  PROVE  Talks'
<1>1. pc'[i] = stage /\ \A j \in Msg \ {i} : pc'[j] = pc[j]
  BY DEF Goto, Types
<1>2. ASSUME NEW j \in Msg, pc'[j] \in Speaking \/ pc[j] = "answering"
      PROVE  /\ content'[j] = content[j]
             /\ pc'[j] = pc[j] \/ (pc[j] = "preparing" /\ pc'[j] = "calling")
  <2>1. CASE j = i
    BY <1>1, <1>2, <2>1 DEF Speaking
  <2>2. CASE j # i
    BY <1>1, <1>2, <2>2 DEF Speaking
  <2> QED BY <2>1, <2>2
<1> QED BY <1>2, TalksQuiet

\* History q fits a worker that goes to this stage with text c.
Fits(q, stage, c) ==
  /\ Sound(q)
  /\ q # <<>> /\ Last(q).role = "tool" => stage = "answering"
  /\ stage \in {"preparing", "calling"} => EndsWith(q, "user", c)
  /\ stage = "answering" => EndsWith(q, "tool", c)

\* An active worker writes the history of its conversation; no other speaks in it.
LEMMA TalksWrite ==
  ASSUME Types, HistoryTypes, Chained, Talks, NEW i \in Msg, pc[i] \in Active,
         NEW stage \in Active, Goto(i, stage), UNCHANGED <<config, stops, content>>,
         NEW q, history' = [history EXCEPT ![conv(i)] = q],
         config.interrupt /\ stops = 0 /\ OneScope(conv(i)) => Fits(q, stage, content[i])
  PROVE  Talks'
<1> SUFFICES ASSUME config.interrupt, stops = 0, NEW k \in Conv, OneScope(k)
             PROVE  Talk(k)'
  BY DEF Talks
<1>1. Talk(k)
  BY DEF Talks
<1>2. \A j \in Msg : conv(j)' = conv(j)
  BY DEF conv
<1>3. pc'[i] = stage /\ \A j \in Msg \ {i} : pc'[j] = pc[j]
  BY DEF Goto, Types
<1>4. CASE conv(i) # k
  <2>1. history'[k] = history[k]
    BY <1>4 DEF HistoryTypes
  <2>2. \A j \in Msg : conv(j)' = k => j # i /\ conv(j) = k /\ pc'[j] = pc[j]
    BY <1>2, <1>3, <1>4
  <2>3. \A j \in Msg : conv(j) = k => j # i /\ conv(j)' = k /\ pc'[j] = pc[j]
    BY <1>2, <1>3, <1>4
  <2> QED BY <1>1, <2>1, <2>2, <2>3 DEF Talk
<1>5. CASE conv(i) = k
  <2>1. history'[k] = q /\ Fits(q, stage, content[i])
    BY <1>5 DEF HistoryTypes
  <2>2. ASSUME NEW j \in Msg, conv(j)' = k, pc'[j] \in Speaking PROVE j = i
    <3>1. CASE j # i
      <4>1. pc[j] \in Active /\ conv(j) = k
        BY <1>2, <1>3, <2>2, <3>1 DEF Speaking, Active
      <4> QED BY <1>5, <4>1, OneWriter
    <3> QED BY <3>1
  <2>3. Sound(history'[k])
    BY <2>1 DEF Fits
  <2>4. ASSUME history'[k] # <<>>, Last(history'[k]).role = "tool"
        PROVE  \E j \in Msg : conv(j)' = k /\ pc'[j] = "answering"
    BY <1>2, <1>3, <1>5, <2>1, <2>4 DEF Fits
  <2>5. ASSUME NEW j \in Msg, conv(j)' = k, pc'[j] \in {"preparing", "calling"}
        PROVE  EndsWith(history'[k], "user", content'[j])
    <3>1. j = i
      BY <2>2, <2>5 DEF Speaking
    <3> QED BY <1>3, <2>1, <2>5, <3>1 DEF Fits
  <2>6. ASSUME NEW j \in Msg, conv(j)' = k, pc'[j] = "answering"
        PROVE  EndsWith(history'[k], "tool", content'[j])
    <3>1. j = i
      BY <2>2, <2>6 DEF Speaking
    <3> QED BY <1>3, <2>1, <2>6, <3>1 DEF Fits
  <2> QED BY <2>3, <2>4, <2>5, <2>6 DEF Talk
<1> QED BY <1>4, <1>5

\* What an active worker knows of the history of its conversation.
LEMMA BeforeWrite ==
  ASSUME Types, HistoryTypes, Loaded, Chained, Talks, NEW i \in Msg, pc[i] \in Active
  PROVE  /\ history[conv(i)] \in Seq(Turn)
         /\ content[i] # <<>>
         /\ config.interrupt /\ stops = 0 /\ OneScope(conv(i)) =>
              Fits(history[conv(i)], pc[i], content[i])
<1>1. conv(i) \in Conv /\ history[conv(i)] \in Seq(Turn)
  BY ConvOfMessage DEF HistoryTypes
<1>2. content[i] # <<>>
  BY DEF Loaded, Active
<1>3. ASSUME config.interrupt, stops = 0, OneScope(conv(i))
      PROVE  Fits(history[conv(i)], pc[i], content[i])
  <2>1. Talk(conv(i))
    BY <1>1, <1>3 DEF Talks
  <2>2. \A j \in Msg : conv(j) = conv(i) /\ pc[j] = "answering" => j = i
    BY <1>1, <1>3, OneWriter DEF Active
  <2> QED BY <2>1, <2>2 DEF Talk, Fits
<1> QED BY <1>1, <1>2, <1>3

LEMMA ProcessTalks ==
  ASSUME Types, HistoryTypes, Loaded, Chained, Talks, NEW i \in Msg, Process(i)
  PROVE  Talks'
<1> DEFINE h == history[conv(i)]
           Quiet == config.interrupt /\ stops = 0 /\ OneScope(conv(i))
<1>1. /\ pc[i] \in Active /\ h \in Seq(Turn) /\ content[i] # <<>>
      /\ Quiet => Fits(h, pc[i], content[i])
      /\ UNCHANGED <<config, stops, content>>
  BY ProcessStages, BeforeWrite DEF ProcessFrame, loopVars
<1>2. /\ UserTurn(i) \in Turn /\ ToolTurn(i) \in Turn /\ AssistantTurn(i) \in Turn
  BY TurnTypes
<1> HIDE DEF h, Quiet
<1>3. ASSUME NEW stage \in Active, Goto(i, stage), NEW q, history' = [history EXCEPT ![conv(i)] = q],
             Quiet => Fits(q, stage, content[i])
      PROVE  Talks'
  BY <1>1, <1>3, TalksWrite DEF Quiet
<1>4. ASSUME NEW stage \in Active, Goto(i, stage), NEW t \in Turn,
             history' = [history EXCEPT ![conv(i)] = append_turn(h, t)],
             t.of = content[i], t.role = "tool" <=> stage = "answering",
             stage \in {"preparing", "calling"} => t.role = "user",
             Quiet /\ h # <<>> => Follows(Last(h), t)
      PROVE  Talks'
  <2> DEFINE q == append_turn(h, t)
  <2>1. q # <<>> /\ Last(q) = t
    BY <1>1, AppendTurnProperties
  <2>2. Quiet => Sound(q)
    BY <1>1, <1>4, AppendTurnSound DEF Fits
  <2>3. history' = [history EXCEPT ![conv(i)] = q]
    BY <1>4
  <2> HIDE DEF q
  <2>4. Quiet => Fits(q, stage, content[i])
    BY <1>4, <2>1, <2>2 DEF Fits, EndsWith
  <2> QED BY <1>3, <1>4, <2>3, <2>4
<1>5. CASE \/ Begin(i) \/ EndAside(i) \/ TakePendingNewSession(i) \/ CallModel(i)
           \/ EndCancelled(i) \/ EndSuppressed(i)
  <2>1. history' = history
    BY <1>5 DEF Begin, EndAside, TakePendingNewSession, CallModel, EndCancelled, EndSuppressed
  <2>2. PICK stage : /\ Goto(i, stage) /\ pc[i] # "answering"
                     /\ stage \notin Speaking \/ (pc[i] = "preparing" /\ stage = "calling")
    BY <1>5 DEF Begin, EndAside, TakePendingNewSession, CallModel, EndCancelled,
       EndSuppressed, Ends, Speaking
  <2> QED BY <1>1, <2>1, <2>2, TalksByGoto
<1>6. CASE NewSession(i) \/ ClearHistory(i)
  <2>1. PICK stage \in {"ending", "recording"} : Goto(i, stage)
    BY <1>6 DEF NewSession, ClearHistory, Ends
  <2>2. history' = [history EXCEPT ![conv(i)] = <<>>]
    BY <1>6 DEF NewSession, ClearHistory
  <2>3. stage \in Active /\ Fits(<<>>, stage, content[i])
    BY <2>1 DEF Fits, Sound, Active
  <2> QED BY <1>3, <2>1, <2>2, <2>3
<1>7. CASE RecordUserTurn(i)
  <2>1. /\ pc[i] = "recording" /\ Goto(i, "preparing") /\ "preparing" \in Active
        /\ history' = [history EXCEPT ![conv(i)] = append_turn(h, UserTurn(i))]
    BY <1>7 DEF RecordUserTurn, h, Active
  <2>2. Quiet /\ h # <<>> => Follows(Last(h), UserTurn(i))
    BY <1>1, <2>1 DEF Fits, Follows, UserTurn
  <2> QED BY <1>2, <1>4, <2>1, <2>2 DEF UserTurn
<1>8. CASE RecordToolTurn(i)
  <2>1. /\ pc[i] = "calling" /\ Goto(i, "answering") /\ "answering" \in Active
        /\ history' = [history EXCEPT ![conv(i)] = append_turn(h, ToolTurn(i))]
    BY <1>8 DEF RecordToolTurn, h, Active
  <2>2. Quiet /\ h # <<>> => Follows(Last(h), ToolTurn(i))
    BY <1>1, <2>1 DEF Fits, Follows, ToolTurn, EndsWith
  <2> QED BY <1>2, <1>4, <2>1, <2>2 DEF ToolTurn
<1>9. ASSUME pc[i] \in {"calling", "answering"},
             NEW stage \in {"ending", "stripping"}, Goto(i, stage),
             history' = [history EXCEPT ![conv(i)] = append_turn(h, AssistantTurn(i))]
      PROVE  Talks'
  <2>1. Quiet /\ h # <<>> => Follows(Last(h), AssistantTurn(i))
    BY <1>1, <1>9 DEF Fits, Follows, AssistantTurn, EndsWith
  <2>2. stage \in Active
    BY DEF Active
  <2> QED BY <1>2, <1>4, <1>9, <2>1, <2>2 DEF AssistantTurn
<1>10. CASE EndAnswered(i)
  <2>1. PICK stage \in {"ending", "stripping"} : Goto(i, stage)
    BY <1>10 DEF EndAnswered, Ends
  <2> QED BY <1>9, <1>10, <2>1 DEF EndAnswered, h
<1>11. CASE EndTimeout(i)
  BY <1>9, <1>11 DEF EndTimeout, Ends, h
<1>12. CASE EndStripped(i)
  <2>1. /\ pc[i] = "stripping" /\ Goto(i, "ending") /\ "ending" \in Active
        /\ history' = [history EXCEPT ![conv(i)] = strip(h)]
    BY <1>12 DEF EndStripped, Ends, h, Active
  <2>2. Quiet => Fits(strip(h), "ending", content[i])
    BY <1>1, <2>1, StripSound DEF Fits
  <2> QED BY <1>3, <2>1, <2>2
<1>13. CASE EndCompacted(i)
  <2>1. /\ pc[i] = "calling" /\ Goto(i, "ending") /\ "ending" \in Active
        /\ history' = [history EXCEPT ![conv(i)] = compact(h)]
    BY <1>13 DEF EndCompacted, Ends, h, Active
  <2>2. Quiet => Fits(compact(h), "ending", content[i])
    BY <1>1, <2>1, CompactProperties DEF Fits
  <2> QED BY <1>3, <2>1, <2>2
<1>14. ASSUME NEW rollback \in BOOLEAN, EndFailed(i, rollback) PROVE Talks'
  <2>1. pc[i] = "calling" /\ Goto(i, "ending") /\ "ending" \in Active
    BY <1>14 DEF EndFailed, Ends, Active
  <2>2. CASE history' = [history EXCEPT ![conv(i)] = append_turn(h, AssistantTurn(i))]
    BY <1>9, <2>1, <2>2
  <2>3. CASE h # <<>> /\ history' = [history EXCEPT ![conv(i)] = Front(h)]
    <3>1. /\ Quiet => /\ Sound(Front(h))
                      /\ Front(h) # <<>> => Follows(Last(Front(h)), Last(h))
      BY <1>1, <2>3, FrontProperties DEF Fits
    <3>2. Quiet => Last(h).role = "user"
      BY <1>1, <2>1 DEF Fits, EndsWith
    <3>3. Quiet => Fits(Front(h), "ending", content[i])
      BY <3>1, <3>2 DEF Fits, Follows
    <3> QED BY <1>3, <2>1, <2>3, <3>3
  <2> QED BY <1>14, <2>2, <2>3 DEF EndFailed, h
<1> QED
  BY <1>5, <1>6, <1>7, <1>8, <1>10, <1>11, <1>12, <1>13, <1>14, ProcessStages
     DEF Process

LEMMA TalksStep ==
  ASSUME IInv, HistoryTypes, Loaded, Chained, Talks, Next
  PROVE  Talks'
<1> USE DEF loopVars, registry, talk
<1>1. Types /\ LoopMessage /\ Unreceived
  BY DEF IInv
<1>2. CASE Receive
  <2>1. received + 1 \in Msg /\ received + 1 > received
    BY <1>1, <1>2 DEF Receive, Types
  <2>2. pc[received + 1] = "none"
    BY <1>1, <2>1 DEF Unreceived
  <2>3. \A j \in Msg : pc[j] \in Speaking => content'[j] = content[j]
    BY <1>1, <1>2, <2>2 DEF Receive, Types, Speaking
  <2>4. PICK stage \in {"rx", "passed"} : Goto(received + 1, stage)
    BY <1>2 DEF Receive
  <2>5. UNCHANGED <<config, stops, history>>
    BY <1>2 DEF Receive
  <2> QED BY <1>1, <2>1, <2>2, <2>3, <2>4, <2>5, TalksByGoto DEF Speaking
<1>3. ASSUME NEW r \in Route, ReceiveStop(r) PROVE Talks'
  <2>1. stops' # 0
    BY <1>3 DEF ReceiveStop, HistoryTypes
  <2> QED BY <2>1 DEF Talks
<1>4. ASSUME UNCHANGED <<config, stops, history, content, pc>> PROVE Talks'
  BY <1>4, TalksQuiet
<1>5. CASE StopCancel \/ Close \/ Return
  BY <1>4, <1>5 DEF StopCancel, Close, Return
<1>6. CASE Spawn
  BY <1>1, <1>6, TalksByGoto DEF Spawn, LoopMessage, Speaking
<1>7. ASSUME NEW i \in Msg, Timer(i) PROVE Talks'
  BY <1>4, <1>7 DEF Timer, TimerElapses, TimerFires
<1>8. ASSUME NEW i \in Msg, DispatchCombined(i) PROVE Talks'
  <2>1. \A j \in Msg : pc[j] \in Speaking => content'[j] = content[j]
    BY <1>1, <1>8 DEF DispatchCombined, Types, Speaking
  <2> QED BY <1>1, <1>8, <2>1, TalksByGoto DEF DispatchCombined, Speaking
<1>9. ASSUME NEW i \in Msg, \/ Register(i) \/ Interrupt(i) \/ WaitLoadsDone(i)
                            \/ WaitSubscribes(i) \/ Unregister(i) \/ MarkStoresDone(i)
      PROVE  Talks'
  <2>1. PICK stage : Goto(i, stage) /\ stage \notin Speaking /\ pc[i] # "answering"
    BY <1>9 DEF Register, Interrupt, WaitLoadsDone, WaitSubscribes, Unregister,
       MarkStoresDone, Speaking
  <2>2. UNCHANGED <<config, stops, history, content>>
    BY <1>9 DEF Register, Interrupt, WaitLoadsDone, WaitSubscribes, Unregister,
       MarkStoresDone
  <2> QED BY <1>1, <2>1, <2>2, TalksByGoto
<1>10. ASSUME NEW i \in Msg, MarkNotifies(i) PROVE Talks'
  <2>1. \A j \in Msg : pc'[j] \in Speaking \/ pc[j] = "answering" => pc'[j] = pc[j]
    BY <1>10 DEF MarkNotifies, Speaking
  <2> QED BY <1>10, <2>1, TalksQuiet DEF MarkNotifies
<1>11. ASSUME NEW i \in Msg, Process(i) PROVE Talks'
  BY <1>1, <1>11, ProcessTalks
<1> QED
  BY <1>2, <1>3, <1>5, <1>6, <1>7, <1>8, <1>9, <1>10, <1>11 DEF Next, Loop, Worker

-----------------------------------------------------------------------------
(* The theorems *)

LEMMA HistoryInitially == Init => HInv
<1> SUFFICES ASSUME Init PROVE HInv
  OBVIOUS
<1>1. /\ \A k \in Conv : history[k] = <<>>
      /\ \A i \in Msg : pc[i] = "none" /\ done[i] = FALSE
      /\ stops = 0 /\ fresh = {} /\ history = [k \in Conv |-> <<>>]
  BY DEF Init
<1>2. HistoryTypes
  <2>1. <<>> \in Seq(Turn) /\ Len(<<>>) <= MaxHistory
    BY DispatchAssumption
  <2> QED BY <1>1, <2>1 DEF HistoryTypes
<1>3. Loaded /\ DoneAfterEnd
  BY <1>1 DEF Loaded, DoneAfterEnd
<1>4. Chained
  <2>1. \A i \in Msg : pc[i] \notin Registered
    BY <1>1 DEF Registered, Running
  <2>2. \A s \in Scope : Chain(s, [i \in Msg |-> 0])
    BY <2>1 DEF Chain, Member
  <2> QED BY <2>2 DEF Chained
<1>5. Talks
  <2>1. \A k \in Conv : Talk(k)
    BY <1>1 DEF Talk, Sound
  <2> QED BY <2>1 DEF Talks
<1> QED BY <1>2, <1>3, <1>4, <1>5 DEF HInv

LEMMA HistoryInductive == IInv /\ HInv /\ [Next]_vars => HInv'
<1> SUFFICES ASSUME IInv, HInv, [Next]_vars PROVE HInv'
  OBVIOUS
<1>1. CASE Next
  BY <1>1, HistoryTypesStep, LoadedStep, DoneStep, ChainStep, TalksStep DEF HInv, IInv
<1>2. CASE UNCHANGED vars
  <2>1. UNCHANGED <<config, stops, history, fresh, content, pc, done, in_flight, previous>>
    BY <1>2 DEF vars
  <2>2. Chained' /\ Talks'
    BY <2>1, ChainQuiet, TalksQuiet DEF HInv
  <2> QED BY <2>1, <2>2 DEF HInv, HistoryTypes, Loaded, DoneAfterEnd
<1> QED BY <1>1, <1>2

\* The inductive invariant of the history: with interruption the registered workers of
\* a scope form a queue in which only the eldest is past its wait, and what the history
\* of a conversation looks like at each stage of its worker (dispatch_worker and
\* process_channel_message).
THEOREM HistoryInvariance == Spec => []HInv
<1>1. Init => HInv
  BY HistoryInitially
<1>2. IInv /\ HInv /\ [Next]_vars => HInv'
  BY HistoryInductive
<1> QED BY <1>1, <1>2, Invariance, PTL DEF Spec

\* Types, for every scenario; a conversation never holds more than max_history_messages
\* turns, whatever is appended, compacted, stripped or rolled back (append_sender_turn,
\* compact_sender_history, strip_old_tool_context, rollback_orphan_user_turn).
THEOREM TypesHold == Spec => []TypeOK
<1>1. IInv /\ HInv => TypeOK
  BY DEF IInv, HInv, Types, HistoryTypes, TypeOK
<1> QED BY <1>1, Invariance, HistoryInvariance, PTL

\* With interruption, and before the first /stop, a conversation in one scope never mixes
\* two requests, for any number of workers that interrupt each other
\* (dispatch_worker: a worker waits for the completion of the one it replaced).
THEOREM ReplyFollowsItsTurnHolds == Spec => []ReplyFollowsItsTurn
<1>1. IInv /\ HInv => ReplyFollowsItsTurn
  <2> SUFFICES ASSUME HInv, config.interrupt, stops = 0, NEW k \in Conv, OneScope(k),
                      NEW n \in 2..Len(history[k]), history[k][n].role # "user"
               PROVE  LET t == history[k][n]
                          before == history[k][n - 1]
                      IN /\ before.role = "user" \/ (t.role = "assistant" /\ before.role = "tool")
                         /\ Last(before.of) = Last(t.of)
    BY DEF ReplyFollowsItsTurn
  <2>1. Follows(history[k][n - 1], history[k][n])
    BY DEF HInv, Talks, Talk, Sound
  <2> QED BY <2>1 DEF Follows
<1> QED BY <1>1, Invariance, HistoryInvariance, PTL
=============================================================================
