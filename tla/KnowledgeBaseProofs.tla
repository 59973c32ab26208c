------------------------ MODULE KnowledgeBaseProofs ------------------------
(***************************************************************************)
(* Proofs about KnowledgeBase and the player it mounts (Walkthrough), for  *)
(* every set of guides and links and every number of the reader's acts.    *)
(*                                                                         *)
(* The player: the queue is what is left of the step after the moves that  *)
(* have begun; of these all have left their block and mood, but for the    *)
(* last when it is an envelope that flies (Story).  The next move finds    *)
(* the first that is known, and those it passes over leave nothing         *)
(* (ScenesAssumption): so however the step was come to, chain and mood are *)
(* those of the moves told so far.                                         *)
(*                                                                         *)
(* The shell: the one player alive is that of the page shown, and a call   *)
(* of hashchange is due whenever the page is not the one the hash names.   *)
(***************************************************************************)
EXTENDS KnowledgeBase, FiniteSetTheorems, SequenceTheorems,
        WellFoundedInduction, TLAPS

-----------------------------------------------------------------------------
(* The least and the greatest of a set of positions *)

\* A non-empty set of naturals has a least element.
LEMMA LeastNat ==
  ASSUME NEW T \in SUBSET Nat, T # {}
  PROVE  \E n \in T : \A m \in T : n <= m
<1>. DEFINE R == {ss \in Nat \X Nat : ss[1] < ss[2]}
<1>1. IsWellFoundedOn(R, Nat)
  BY NatLessThanWellFounded DEF OpToRel
<1>2. PICK n \in T : \A m \in T : <<m, n>> \notin R
  BY <1>1, WFMin
<1>3. ASSUME NEW m \in T PROVE n <= m
  <2>1. <<m, n>> \notin R
    BY <1>2
  <2>2. ~(m < n)
    BY <2>1
  <2>. QED BY <2>2
<1>. HIDE DEF R
<1>. QED BY <1>3

\* Min: the first position of a set that is not empty.
LEMMA MinIs ==
  ASSUME NEW n \in Nat, NEW S \in SUBSET (1 .. n), S # {}
  PROVE  Min(S) \in S /\ \A y \in S : Min(S) <= y
<1>1. \E x \in S : \A y \in S : x <= y
  BY LeastNat
<1>. QED BY <1>1 DEF Min

\* Max: the last one.
LEMMA MaxIs ==
  ASSUME NEW n \in Nat, NEW S \in SUBSET (1 .. n), S # {}
  PROVE  Max(S) \in S /\ \A y \in S : Max(S) >= y
<1>. DEFINE T == {k \in Nat : \E x \in S : k = n - x}
<1>0. \A x \in S : x \in Nat /\ x <= n /\ n - x \in Nat
  OBVIOUS
<1>1. T \in SUBSET Nat /\ T # {}
  BY <1>0
<1>2. PICK m \in T : \A t \in T : m <= t
  BY <1>1, LeastNat
<1>3. PICK x \in S : m = n - x
  BY <1>2
<1>4. ASSUME NEW y \in S PROVE x >= y
  <2>1. n - y \in T
    BY <1>0
  <2>2. n - x <= n - y
    BY <1>2, <1>3, <2>1
  <2>. HIDE DEF T
  <2>. QED BY <1>0, <2>2
<1>. HIDE DEF T
<1>. QED BY <1>4 DEF Max

-----------------------------------------------------------------------------
(* What moves leave *)

\* A move that leaves neither a block nor a mood.
Idle(m) == ~m.store /\ m.dilly = Keep

\* The moves t go on from the moves s with idle ones up to the position n.
GoesOn(s, t, n) ==
  /\ s \in Seq(MoveType) /\ t \in Seq(MoveType)
  /\ Len(s) <= Len(t)
  /\ \A i \in 1 .. Len(s) : t[i] = s[i]
  /\ \A i \in Len(s) + 1 .. n : Idle(t[i])

Stored(moves) == {i \in 1 .. Len(moves) : moves[i].store}

Felt(moves) == {i \in 1 .. Len(moves) : moves[i].dilly # Keep}

\* Idle moves change neither the blocks nor the mood.
LEMMA IdleMoves ==
  ASSUME NEW s, NEW t, GoesOn(s, t, Len(t))
  PROVE  Blocks(t) = Blocks(s) /\ MoodAfter(t) = MoodAfter(s)
<1>1. Len(s) \in Nat /\ Len(t) \in Nat
  BY DEF GoesOn
<1>2. Stored(t) = Stored(s)
  BY <1>1 DEF Stored, GoesOn, Idle
<1>3. Felt(t) = Felt(s)
  BY <1>1 DEF Felt, GoesOn, Idle
<1>4. ASSUME Felt(s) # {} PROVE t[Max(Felt(s))] = s[Max(Felt(s))]
  <2>1. Felt(s) \in SUBSET (1 .. Len(s))
    BY DEF Felt
  <2>2. Max(Felt(s)) \in 1 .. Len(s)
    BY <1>1, <1>4, <2>1, MaxIs
  <2>. QED BY <2>2 DEF GoesOn
<1>5. Blocks(t) = Cardinality(Stored(t)) /\ Blocks(s) = Cardinality(Stored(s))
  BY DEF Blocks, Stored
<1>6. /\ MoodAfter(t) = IF Felt(t) = {} THEN Happy ELSE t[Max(Felt(t))].dilly
      /\ MoodAfter(s) = IF Felt(s) = {} THEN Happy ELSE s[Max(Felt(s))].dilly
  BY DEF MoodAfter, Felt
<1>. QED BY <1>2, <1>3, <1>4, <1>5, <1>6

\* After idle moves the last one leaves what it leaves (ApplyEffect).
LEMMA LastMove ==
  ASSUME NEW s, NEW t, GoesOn(s, t, Len(t) - 1), Len(s) < Len(t)
  PROVE  LET m == t[Len(t)]
         IN /\ Blocks(t) = IF m.store THEN Blocks(s) + 1 ELSE Blocks(s)
            /\ MoodAfter(t) = IF m.dilly = Keep THEN MoodAfter(s) ELSE m.dilly
<1>. DEFINE n == Len(t)
            m == t[n]
<1>1. Len(s) \in Nat /\ n \in Nat /\ n > 0
  BY DEF GoesOn
<1>2. CASE ~m.store /\ m.dilly = Keep
  <2>1. GoesOn(s, t, n)
    BY <1>1, <1>2 DEF GoesOn, Idle
  <2>. QED BY <1>2, <2>1, IdleMoves
<1>3. /\ MoodAfter(t) = IF Felt(t) = {} THEN Happy ELSE t[Max(Felt(t))].dilly
      /\ MoodAfter(s) = IF Felt(s) = {} THEN Happy ELSE s[Max(Felt(s))].dilly
  BY DEF MoodAfter, Felt
<1>4. Blocks(t) = Cardinality(Stored(t)) /\ Blocks(s) = Cardinality(Stored(s))
  BY DEF Blocks, Stored
<1>5. Blocks(t) = IF m.store THEN Blocks(s) + 1 ELSE Blocks(s)
  <2>1. Stored(t) = IF m.store THEN Stored(s) \cup {n} ELSE Stored(s)
    BY <1>1, SMTT(60) DEF Stored, GoesOn, Idle
  <2>2. IsFiniteSet(Stored(s))
    <3>1. Stored(s) \in SUBSET (1 .. Len(s)) /\ IsFiniteSet(1 .. Len(s))
      BY <1>1, FS_Interval DEF Stored
    <3>. QED BY <3>1, FS_Subset
  <2>3. n \notin Stored(s)
    BY <1>1 DEF Stored
  <2>4. Cardinality(Stored(s) \cup {n}) = Cardinality(Stored(s)) + 1
    BY <2>2, <2>3, FS_AddElement
  <2>. QED BY <1>4, <2>1, <2>4
<1>6. MoodAfter(t) = IF m.dilly = Keep THEN MoodAfter(s) ELSE m.dilly
  <2>1. CASE m.dilly = Keep
    <3>1. Felt(t) = Felt(s)
      BY <1>1, <2>1 DEF Felt, GoesOn, Idle
    <3>2. ASSUME Felt(s) # {} PROVE t[Max(Felt(s))] = s[Max(Felt(s))]
      <4>1. Felt(s) \in SUBSET (1 .. Len(s))
        BY DEF Felt
      <4>2. Max(Felt(s)) \in 1 .. Len(s)
        BY <1>1, <3>2, <4>1, MaxIs
      <4>. QED BY <4>2 DEF GoesOn
    <3>. QED BY <1>3, <2>1, <3>1, <3>2
  <2>2. CASE m.dilly # Keep
    <3>1. Felt(t) \in SUBSET (1 .. n) /\ n \in Felt(t)
      BY <1>1, <2>2 DEF Felt
    <3>2. Max(Felt(t)) \in 1 .. n /\ Max(Felt(t)) >= n
      BY <1>1, <3>1, MaxIs
    <3>3. Max(Felt(t)) = n
      BY <1>1, <3>2
    <3>. QED BY <1>3, <2>2, <3>1, <3>3
  <2>. QED BY <2>1, <2>2
<1>. QED BY <1>5, <1>6

\* What moves leave is a number of blocks and a mood.
LEMMA LeftType ==
  ASSUME NEW s \in Seq(MoveType)
  PROVE  Blocks(s) \in Nat /\ MoodAfter(s) \in Mood
<1>1. Len(s) \in Nat
  OBVIOUS
<1>2. Felt(s) \in SUBSET (1 .. Len(s)) /\ Stored(s) \in SUBSET (1 .. Len(s))
  BY DEF Felt, Stored
<1>3. IsFiniteSet(1 .. Len(s))
  BY <1>1, FS_Interval
<1>4. Cardinality(Stored(s)) \in Nat
  BY <1>2, <1>3, FS_Subset, FS_CardinalityType
<1>5. ASSUME Felt(s) # {} PROVE s[Max(Felt(s))].dilly \in Mood
  <2>1. Max(Felt(s)) \in Felt(s)
    BY <1>1, <1>2, <1>5, MaxIs
  <2>2. Max(Felt(s)) \in 1 .. Len(s) /\ s[Max(Felt(s))].dilly # Keep
    BY <2>1 DEF Felt
  <2>3. s[Max(Felt(s))] \in MoveType
    BY <2>2
  <2>. QED BY <2>2, <2>3 DEF MoveType
<1>6. MoodAfter(s) = IF Felt(s) = {} THEN Happy ELSE s[Max(Felt(s))].dilly
  BY DEF MoodAfter, Felt
<1>7. Blocks(s) = Cardinality(Stored(s))
  BY DEF Blocks, Stored
<1>8. Happy \in Mood
  BY DEF Mood
<1>. QED BY <1>4, <1>5, <1>6, <1>7, <1>8

-----------------------------------------------------------------------------
(* The player: which moves have been told *)

Moves(v) == Steps(v)[v.step]

\* The first p moves of the step, after those of the steps before.
Told(v, p) == Before(v, v.step) \o SubSeq(Moves(v), 1, p)

\* b moves of the step have begun and p of them have left their effect.
Story(v, b, p) ==
  /\ v \in View /\ v.step \in StepNumbers(v)
  /\ b \in 0 .. Len(Moves(v)) /\ p \in 0 .. b
  /\ v.queue = SubSeq(Moves(v), b + 1, Len(Moves(v)))
  /\ v.chain = Blocks(Told(v, p)) /\ v.mood = MoodAfter(Told(v, p))

\* An envelope is on its way: the last move that has begun, if it is not lost.
Flying(v) == v.running /\ ~v.local

Effects(v, b) == IF Flying(v) THEN b - 1 ELSE b

PlayerInv(v) ==
  \E b \in Nat :
    /\ Story(v, b, Effects(v, b))
    /\ v.packets # {} => Flying(v) /\ v.packets = {Moves(v)[b]}
    /\ v.running \/ b = Len(Moves(v))

\* A step of a scene is a sequence of moves, and so are those before it.
LEMMA StepType ==
  ASSUME NEW v, v.scene \in DOMAIN Scene, v.step \in StepNumbers(v)
  PROVE  /\ Moves(v) \in Seq(MoveType) /\ Before(v, v.step) \in Seq(MoveType)
         /\ \A i \in 1 .. Len(Moves(v)) : Known(v, Moves(v)[i]) \/ Idle(Moves(v)[i])
<1>1. Steps(v) \in Seq(Seq(MoveType))
  BY ScenesAssumption DEF Steps
<1>2. v.step \in 1 .. Len(Steps(v))
  BY DEF StepNumbers
<1>3. Moves(v) \in Seq(MoveType)
  BY <1>1, <1>2 DEF Moves
<1>4. Before(v, v.step) \in Seq(MoveType)
  <2>1. MovesBefore[v.scene] \in [1 .. Len(Scene[v.scene].steps) -> Seq(MoveType)]
    BY ScenesAssumption
  <2>2. v.step \in 1 .. Len(Scene[v.scene].steps)
    BY <1>2 DEF Steps
  <2>. QED BY <2>1, <2>2 DEF Before
<1>5. ASSUME NEW i \in 1 .. Len(Moves(v))
      PROVE  Known(v, Moves(v)[i]) \/ Idle(Moves(v)[i])
  <2>1. Moves(v) \in Range(Steps(v))
    BY <1>1, <1>2 DEF Moves, Range
  <2>2. Moves(v)[i] \in Range(Moves(v))
    BY <1>3 DEF Range
  <2>3. Known([scene |-> v.scene], Moves(v)[i]) \/ Idle(Moves(v)[i])
    BY <2>1, <2>2, ScenesAssumption DEF Idle, Steps
  <2>4. Known([scene |-> v.scene], Moves(v)[i]) <=> Known(v, Moves(v)[i])
    BY DEF Known
  <2>. QED BY <2>3, <2>4
<1>. QED BY <1>3, <1>4, <1>5

\* What is told of a step: its positions, one after the other.
LEMMA ToldIs ==
  ASSUME NEW v, v.scene \in DOMAIN Scene, v.step \in StepNumbers(v),
         NEW p \in 0 .. Len(Moves(v))
  PROVE  LET k == Len(Before(v, v.step))
         IN /\ k \in Nat
            /\ Told(v, p) \in Seq(MoveType) /\ Len(Told(v, p)) = k + p
            /\ \A i \in 1 .. k : Told(v, p)[i] = Before(v, v.step)[i]
            /\ \A i \in k + 1 .. k + p : Told(v, p)[i] = Moves(v)[i - k]
<1>. DEFINE B == Before(v, v.step)
            M == Moves(v)
            S == SubSeq(M, 1, p)
<1>1. M \in Seq(MoveType) /\ B \in Seq(MoveType)
  BY StepType
<1>2. S \in Seq(MoveType) /\ Len(S) = p /\ \A i \in 1 .. p : S[i] = M[i]
  <2>. HIDE DEF M, B
  <2>1. p \in Nat /\ p <= Len(M) /\ Len(M) \in Nat
    BY <1>1 DEF M
  <2>. QED BY <1>1, <2>1
<1>3. Told(v, p) = B \o S
  BY DEF Told
<1>. HIDE DEF B, M, S
<1>4. /\ Len(B) \in Nat
      /\ B \o S \in Seq(MoveType) /\ Len(B \o S) = Len(B) + p
      /\ \A i \in 1 .. Len(B) : (B \o S)[i] = B[i]
      /\ \A i \in Len(B) + 1 .. Len(B) + p : (B \o S)[i] = S[i - Len(B)]
  <2>1. Len(B) \in Nat /\ p \in Nat
    BY <1>1, <1>2
  <2>2. /\ B \o S \in Seq(MoveType)
        /\ Len(B \o S) = Len(B) + Len(S)
        /\ \A i \in 1 .. Len(B) + Len(S) :
             (B \o S)[i] = IF i <= Len(B) THEN B[i] ELSE S[i - Len(B)]
    BY <1>1, <1>2, ConcatProperties
  <2>. QED BY <1>2, <2>1, <2>2
<1>5. \A i \in Len(B) + 1 .. Len(B) + p : (B \o S)[i] = M[i - Len(B)]
  BY <1>2, <1>4
<1>. QED BY <1>3, <1>4, <1>5 DEF B, M

\* Before the first move nothing of the step is told.
LEMMA NothingTold ==
  ASSUME NEW v, v.scene \in DOMAIN Scene, v.step \in StepNumbers(v)
  PROVE  Told(v, 0) = Before(v, v.step)
<1>1. Moves(v) \in Seq(MoveType) /\ Before(v, v.step) \in Seq(MoveType)
  BY StepType
<1>2. SubSeq(Moves(v), 1, 0) = <<>>
  BY <1>1
<1>3. Before(v, v.step) \o <<>> = Before(v, v.step)
  BY <1>1
<1>. QED BY <1>2, <1>3 DEF Told

\* Telling on over idle moves leaves what was there; the move c after them
\* leaves its own effect.
LEMMA TellingOn ==
  ASSUME NEW v, v.scene \in DOMAIN Scene, v.step \in StepNumbers(v),
         NEW p \in 0 .. Len(Moves(v)), NEW c \in p .. Len(Moves(v))
  PROVE  /\ (\A i \in p + 1 .. c : Idle(Moves(v)[i])) =>
              /\ Blocks(Told(v, c)) = Blocks(Told(v, p))
              /\ MoodAfter(Told(v, c)) = MoodAfter(Told(v, p))
         /\ (p < c /\ \A i \in p + 1 .. c - 1 : Idle(Moves(v)[i])) =>
              /\ Blocks(Told(v, c)) = IF Moves(v)[c].store
                                      THEN Blocks(Told(v, p)) + 1
                                      ELSE Blocks(Told(v, p))
              /\ MoodAfter(Told(v, c)) = IF Moves(v)[c].dilly = Keep
                                         THEN MoodAfter(Told(v, p))
                                         ELSE Moves(v)[c].dilly
<1>. DEFINE M == Moves(v)
            k == Len(Before(v, v.step))
            s == Told(v, p)
            t == Told(v, c)
<1>0. M \in Seq(MoveType)
  BY StepType
<1>1. c \in 0 .. Len(M) /\ p <= c
  OBVIOUS
<1>2. /\ k \in Nat
      /\ s \in Seq(MoveType) /\ Len(s) = k + p
      /\ \A i \in 1 .. k : s[i] = Before(v, v.step)[i]
      /\ \A i \in k + 1 .. k + p : s[i] = M[i - k]
  BY ToldIs
<1>3. /\ t \in Seq(MoveType) /\ Len(t) = k + c
      /\ \A i \in 1 .. k : t[i] = Before(v, v.step)[i]
      /\ \A i \in k + 1 .. k + c : t[i] = M[i - k]
  BY <1>1, ToldIs
<1>. HIDE DEF M, k, s, t
<1>4. Len(s) <= Len(t) /\ \A i \in 1 .. Len(s) : t[i] = s[i]
  BY <1>1, <1>2, <1>3
<1>5. ASSUME \A i \in p + 1 .. c : Idle(M[i])
      PROVE  Blocks(t) = Blocks(s) /\ MoodAfter(t) = MoodAfter(s)
  <2>1. \A i \in Len(s) + 1 .. Len(t) : Idle(t[i])
    <3>1. TAKE i \in Len(s) + 1 .. Len(t)
    <3>2. i \in k + 1 .. k + c /\ i - k \in p + 1 .. c
      BY <1>1, <1>2, <1>3
    <3>. QED BY <1>3, <1>5, <3>2
  <2>2. GoesOn(s, t, Len(t))
    BY <1>2, <1>3, <1>4, <2>1 DEF GoesOn
  <2>. QED BY <2>2, IdleMoves
<1>6. ASSUME p < c, \A i \in p + 1 .. c - 1 : Idle(M[i])
      PROVE  /\ Blocks(t) = IF M[c].store THEN Blocks(s) + 1 ELSE Blocks(s)
             /\ MoodAfter(t) = IF M[c].dilly = Keep THEN MoodAfter(s)
                               ELSE M[c].dilly
  <2>1. \A i \in Len(s) + 1 .. Len(t) - 1 : Idle(t[i])
    <3>1. TAKE i \in Len(s) + 1 .. Len(t) - 1
    <3>2. i \in k + 1 .. k + c /\ i - k \in p + 1 .. c - 1
      BY <1>1, <1>2, <1>3
    <3>. QED BY <1>3, <1>6, <3>2
  <2>2. GoesOn(s, t, Len(t) - 1) /\ Len(s) < Len(t)
    BY <1>1, <1>2, <1>3, <1>4, <1>6, <2>1 DEF GoesOn
  <2>3. t[Len(t)] = M[c]
    <3>1. Len(t) \in k + 1 .. k + c /\ Len(t) - k = c
      BY <1>1, <1>2, <1>3, <1>6
    <3>. QED BY <1>3, <3>1
  <2>. QED BY <2>2, <2>3, LastMove
<1>. QED BY <1>5, <1>6 DEF M, s, t

-----------------------------------------------------------------------------
(* The next move *)

\* What a view tells depends on its scene and step alone.
LEMMA SameTold ==
  ASSUME NEW v, NEW w, w.scene = v.scene, w.step = v.step
  PROVE  /\ Moves(w) = Moves(v) /\ StepNumbers(w) = StepNumbers(v)
         /\ \A p : Told(w, p) = Told(v, p)
BY DEF Moves, StepNumbers, Steps, Told, Before

\* The rest of a step.
LEMMA RestOfStep ==
  ASSUME NEW M \in Seq(MoveType), NEW b \in 0 .. Len(M)
  PROVE  LET q == SubSeq(M, b + 1, Len(M))
         IN /\ q \in Seq(MoveType) /\ Len(q) = Len(M) - b
            /\ \A i \in 1 .. Len(M) - b : q[i] = M[b + i]
<1>. DEFINE q == SubSeq(M, b + 1, Len(M))
<1>1. Len(M) \in Nat /\ b \in Nat /\ b <= Len(M)
  OBVIOUS
<1>2. \A i \in b + 1 .. Len(M) : M[i] \in MoveType
  BY <1>1
<1>3. /\ q \in Seq(MoveType)
      /\ Len(q) = IF b + 1 <= Len(M) THEN Len(M) - (b + 1) + 1 ELSE 0
      /\ \A i \in 1 .. Len(M) - (b + 1) + 1 : q[i] = M[b + 1 + i - 1]
  <2>1. b + 1 \in Int /\ Len(M) \in Int
    BY <1>1
  <2>. QED BY <1>2, <2>1, SubSeqProperties
<1>. HIDE DEF q
<1>4. Len(q) = Len(M) - b
  BY <1>1, <1>3
<1>5. \A i \in 1 .. Len(M) - b : q[i] = M[b + i]
  <2>1. TAKE i \in 1 .. Len(M) - b
  <2>2. i \in 1 .. Len(M) - (b + 1) + 1 /\ b + 1 + i - 1 = b + i
    BY <1>1
  <2>. QED BY <1>3, <2>2
<1>. QED BY <1>3, <1>4, <1>5 DEF q

\* The rest of the rest of a step.
LEMMA RestOfRest ==
  ASSUME NEW M \in Seq(MoveType), NEW b \in 0 .. Len(M),
         NEW k \in 0 .. Len(M) - b
  PROVE  LET q == SubSeq(M, b + 1, Len(M))
         IN SubSeq(q, k + 1, Len(q)) = SubSeq(M, b + k + 1, Len(M))
<1>. DEFINE q == SubSeq(M, b + 1, Len(M))
            r == SubSeq(q, k + 1, Len(q))
            t == SubSeq(M, b + k + 1, Len(M))
<1>1. Len(M) \in Nat /\ b \in Nat /\ k \in Nat /\ b + k <= Len(M)
  OBVIOUS
<1>2. /\ q \in Seq(MoveType) /\ Len(q) = Len(M) - b
      /\ \A i \in 1 .. Len(M) - b : q[i] = M[b + i]
  BY RestOfStep
<1>3. /\ t \in Seq(MoveType) /\ Len(t) = Len(M) - (b + k)
      /\ \A i \in 1 .. Len(M) - (b + k) : t[i] = M[b + k + i]
  <2>1. b + k \in 0 .. Len(M)
    BY <1>1
  <2>. QED BY <2>1, RestOfStep
<1>. HIDE DEF q
<1>4. /\ r \in Seq(MoveType) /\ Len(r) = Len(q) - k
      /\ \A i \in 1 .. Len(q) - k : r[i] = q[k + i]
  <2>1. k \in 0 .. Len(q)
    BY <1>1, <1>2
  <2>. QED BY <1>2, <2>1, RestOfStep
<1>. HIDE DEF r, t
<1>5. Len(r) = Len(t)
  BY <1>1, <1>2, <1>3, <1>4
<1>6. \A i \in 1 .. Len(r) : r[i] = t[i]
  <2>1. TAKE i \in 1 .. Len(r)
  <2>2. /\ i \in 1 .. Len(q) - k /\ k + i \in 1 .. Len(M) - b
        /\ i \in 1 .. Len(M) - (b + k) /\ b + (k + i) = b + k + i
    BY <1>1, <1>2, <1>4
  <2>. QED BY <1>2, <1>3, <1>4, <2>2
<1>7. r = t
  BY <1>3, <1>4, <1>5, <1>6, SeqEqual
<1>. QED BY <1>7 DEF q, r, t

NextKnown(v) == SelectInSeq(v.queue, LAMBDA m : Known(v, m))

\* The moves before the first one that is known are idle.
LEMMA FirstKnown ==
  ASSUME NEW v, v.scene \in DOMAIN Scene, v.step \in StepNumbers(v),
         NEW b \in 0 .. Len(Moves(v)),
         v.queue = SubSeq(Moves(v), b + 1, Len(Moves(v)))
  PROVE  \/ NextKnown(v) = 0 /\ \A i \in b + 1 .. Len(Moves(v)) : Idle(Moves(v)[i])
         \/ /\ NextKnown(v) \in 1 .. Len(Moves(v)) - b
            /\ v.queue[NextKnown(v)] = Moves(v)[b + NextKnown(v)]
            /\ \A i \in b + 1 .. b + NextKnown(v) - 1 : Idle(Moves(v)[i])
<1>. DEFINE M == Moves(v)
            q == v.queue
            I == {i \in 1 .. Len(q) : Known(v, q[i])}
<1>1. M \in Seq(MoveType) /\ \A i \in 1 .. Len(M) : Known(v, M[i]) \/ Idle(M[i])
  BY StepType
<1>2. /\ q \in Seq(MoveType) /\ Len(q) = Len(M) - b
      /\ \A i \in 1 .. Len(M) - b : q[i] = M[b + i]
  BY <1>1, RestOfStep
<1>3. Len(M) \in Nat /\ b \in Nat /\ b <= Len(M)
  BY <1>1
<1>4. NextKnown(v) = IF I # {} THEN Min(I) ELSE 0
  BY DEF NextKnown, SelectInSeq
<1>. HIDE DEF M, q
<1>5. \A i \in b + 1 .. Len(M) : i - b \notin I => Idle(M[i])
  <2>1. TAKE i \in b + 1 .. Len(M)
  <2>2. i - b \in 1 .. Len(M) - b /\ b + (i - b) = i /\ i \in 1 .. Len(M)
    BY <1>3
  <2>3. q[i - b] = M[i]
    BY <1>2, <2>2
  <2>. QED BY <1>1, <1>2, <2>2, <2>3
<1>6. CASE I = {}
  <2>1. \A i \in b + 1 .. Len(M) : Idle(M[i])
    BY <1>5, <1>6
  <2>. QED BY <1>4, <1>6, <2>1 DEF M
<1>7. CASE I # {}
  <2>1. I \in SUBSET (1 .. Len(q)) /\ Len(q) \in Nat
    BY <1>2
  <2>2. Min(I) \in I /\ \A y \in I : Min(I) <= y
    BY <1>7, <2>1, MinIs
  <2>3. NextKnown(v) \in 1 .. Len(M) - b
    BY <1>2, <1>4, <1>7, <2>1, <2>2
  <2>4. q[NextKnown(v)] = M[b + NextKnown(v)]
    BY <1>2, <2>3
  <2>5. \A i \in b + 1 .. b + NextKnown(v) - 1 : Idle(M[i])
    <3>1. TAKE i \in b + 1 .. b + NextKnown(v) - 1
    <3>2. i \in b + 1 .. Len(M) /\ i - b < NextKnown(v)
      BY <1>3, <2>3
    <3>3. i - b \notin I
      BY <1>3, <1>4, <1>7, <2>2, <2>3, <3>2, SMTT(60)
    <3>. QED BY <1>5, <3>2, <3>3
  <2>. QED BY <2>3, <2>4, <2>5 DEF M, q
<1>. QED BY <1>6, <1>7

\* ApplyEffect: a mood and a block.
LEMMA EffectIs ==
  ASSUME NEW v \in View, NEW m
  PROVE  ApplyEffect(v, m) =
           [v EXCEPT !.mood = IF m.dilly = Keep THEN v.mood ELSE m.dilly,
                     !.chain = IF m.store THEN v.chain + 1 ELSE v.chain]
BY DEF ApplyEffect, View

\* StartNextMove goes on with the story: what it passes over is idle, and what
\* it starts is told at once, or flies.
LEMMA StartOn ==
  ASSUME NEW v, NEW b \in Nat, Story(v, b, b), v.running \/ b = Len(Moves(v))
  PROVE  LET w == StartNextMove(v)
         IN /\ w.scene = v.scene /\ w.step = v.step
            /\ \E c \in Nat :
                 /\ Story(w, c, Effects(w, c))
                 /\ w.packets \subseteq
                      v.packets \cup (IF Flying(w) THEN {Moves(w)[c]} ELSE {})
                 /\ w.running \/ c = Len(Moves(w))
<1>. DEFINE M == Moves(v)
            k == NextKnown(v)
            m == v.queue[k]
            w == StartNextMove(v)
<1>0. /\ v \in View /\ v.scene \in DOMAIN Scene /\ v.step \in StepNumbers(v)
      /\ b \in 0 .. Len(M) /\ v.queue = SubSeq(M, b + 1, Len(M))
      /\ v.chain = Blocks(Told(v, b)) /\ v.mood = MoodAfter(Told(v, b))
  BY DEF Story, View
<1>1. M \in Seq(MoveType) /\ Len(M) \in Nat /\ b <= Len(M)
  <2>1. M \in Seq(MoveType)
    BY <1>0, StepType
  <2>2. Len(M) \in Nat
    BY <2>1
  <2>. QED BY <1>0, <2>1, <2>2
<1>2. \/ k = 0 /\ \A i \in b + 1 .. Len(M) : Idle(M[i])
      \/ /\ k \in 1 .. Len(M) - b
         /\ m = M[b + k]
         /\ \A i \in b + 1 .. (b + k) - 1 : Idle(M[i])
  BY <1>0, FirstKnown
<1>3. w = IF k = 0
          THEN [v EXCEPT !.queue = <<>>, !.running = FALSE,
                         !.local = @ /\ v.queue = <<>>]
          ELSE IF m.local
          THEN [ApplyEffect([v EXCEPT !.queue = SubSeq(@, k + 1, Len(@))], m)
                  EXCEPT !.local = TRUE]
          ELSE [[v EXCEPT !.queue = SubSeq(@, k + 1, Len(@))]
                  EXCEPT !.packets = @ \cup {m}, !.local = FALSE]
  BY DEF StartNextMove, NextKnown
<1>4. CASE k = 0
  <2>1. w = [v EXCEPT !.queue = <<>>, !.running = FALSE,
                      !.local = @ /\ v.queue = <<>>]
    BY <1>3, <1>4
  <2>2. /\ w \in View /\ w.scene = v.scene /\ w.step = v.step
        /\ w.queue = <<>> /\ w.running = FALSE /\ w.packets = v.packets
        /\ w.chain = v.chain /\ w.mood = v.mood
    <3>. DEFINE q == <<>>
                l == v.local /\ v.queue = q
    <3>1. l \in BOOLEAN /\ q \in Seq(MoveType) /\ v \in View
      BY <1>0
    <3>2. w = [v EXCEPT !.queue = q, !.running = FALSE, !.local = l]
      BY <2>1
    <3>. HIDE DEF w, q, l
    <3>3. /\ w \in View /\ w.scene = v.scene /\ w.step = v.step
          /\ w.queue = q /\ w.running = FALSE /\ w.packets = v.packets
          /\ w.chain = v.chain /\ w.mood = v.mood
      BY <3>1, <3>2 DEF View
    <3>. QED BY <3>3 DEF q
  <2>3. /\ Moves(w) = M /\ StepNumbers(w) = StepNumbers(v)
        /\ \A p : Told(w, p) = Told(v, p)
    BY <2>2, SameTold
  <2>4. Len(M) \in b .. Len(M) /\ \A i \in b + 1 .. Len(M) : Idle(M[i])
    BY <1>1, <1>2, <1>4
  <2>5. /\ Blocks(Told(v, Len(M))) = Blocks(Told(v, b))
        /\ MoodAfter(Told(v, Len(M))) = MoodAfter(Told(v, b))
    BY <1>0, <2>4, TellingOn
  <2>6. SubSeq(M, Len(M) + 1, Len(M)) = <<>>
    BY <1>1, SubSeqEmpty
  <2>7. Effects(w, Len(M)) = Len(M)
    BY <2>2 DEF Effects, Flying
  <2>8. Len(M) \in 0 .. Len(M)
    BY <1>1
  <2>9. Story(w, Len(M), Len(M))
    BY <1>0, <2>2, <2>3, <2>5, <2>6, <2>8 DEF Story
  <2>. HIDE DEF M, w
  <2>. QED BY <1>1, <2>2, <2>3, <2>7, <2>9 DEF w
<1>5. ASSUME k # 0
      PROVE  /\ b + k \in Nat /\ b + k \in 0 .. Len(M) /\ b < b + k
             /\ b + k \in b .. Len(M) /\ (b + k) - 1 \in b .. Len(M)
             /\ v.running = TRUE
             /\ SubSeq(v.queue, k + 1, Len(v.queue)) =
                  SubSeq(M, b + k + 1, Len(M))
             /\ SubSeq(M, b + k + 1, Len(M)) \in Seq(MoveType)
             /\ m = M[b + k] /\ m \in MoveType
             /\ \A i \in b + 1 .. (b + k) - 1 : Idle(M[i])
  <2>1. k \in 1 .. Len(M) - b
    BY <1>2, <1>5
  <2>. HIDE DEF k, M
  <2>2. /\ b + k \in Nat /\ b + k \in 0 .. Len(M) /\ b < b + k
        /\ b + k \in b .. Len(M) /\ (b + k) - 1 \in b .. Len(M)
        /\ k \in 0 .. Len(M) - b /\ b # Len(M) /\ b + k \in 1 .. Len(M)
    BY <1>1, <2>1
  <2>3. v.running = TRUE
    <3>1. v.running
      BY <2>2 DEF M
    <3>2. v.running \in BOOLEAN
      BY <1>0 DEF View
    <3>. QED BY <3>1, <3>2
  <2>4. SubSeq(v.queue, k + 1, Len(v.queue)) = SubSeq(M, b + k + 1, Len(M))
    BY <1>0, <1>1, <2>2, RestOfRest
  <2>5. SubSeq(M, b + k + 1, Len(M)) \in Seq(MoveType)
    BY <1>1, <2>2, RestOfStep
  <2>6. M[b + k] \in MoveType
    BY <1>1, <2>2
  <2>. QED BY <1>2, <1>5, <2>2, <2>3, <2>4, <2>5, <2>6 DEF k
<1>6. CASE k # 0 /\ m.local
  <2>. DEFINE u == [v EXCEPT !.queue = SubSeq(@, k + 1, Len(@))]
              ch == IF m.store THEN v.chain + 1 ELSE v.chain
              mo == IF m.dilly = Keep THEN v.mood ELSE m.dilly
  <2>1. w = [ApplyEffect(u, m) EXCEPT !.local = TRUE]
    BY <1>3, <1>6
  <2>2. u \in View /\ u.chain = v.chain /\ u.mood = v.mood
    BY <1>0, <1>5, <1>6 DEF View
  <2>3. ApplyEffect(u, m) = [u EXCEPT !.mood = mo, !.chain = ch]
    BY <2>2, EffectIs, ZenonT(60)
  <2>4. /\ Blocks(Told(v, b + k)) = ch
        /\ MoodAfter(Told(v, b + k)) = mo
    <3>1. b + k \in b .. Len(M) /\ b < b + k /\ m = M[b + k]
      BY <1>5, <1>6
    <3>2. \A i \in b + 1 .. (b + k) - 1 : Idle(M[i])
      BY <1>5, <1>6
    <3>. QED BY <1>0, <3>1, <3>2, TellingOn, ZenonT(60)
  <2>5. ch \in Nat /\ mo \in Mood
    <3>1. Told(v, b + k) \in Seq(MoveType)
      BY <1>0, <1>5, <1>6, ToldIs
    <3>. QED BY <2>4, <3>1, LeftType
  <2>. HIDE DEF ch, mo
  <2>6. /\ w \in View /\ w.scene = v.scene /\ w.step = v.step
        /\ w.queue = SubSeq(v.queue, k + 1, Len(v.queue))
        /\ w.running = v.running /\ w.local = TRUE /\ w.packets = v.packets
        /\ w.chain = ch /\ w.mood = mo
    <3>1. SubSeq(v.queue, k + 1, Len(v.queue)) \in Seq(MoveType)
      BY <1>5, <1>6
    <3>. DEFINE q == SubSeq(v.queue, k + 1, Len(v.queue))
    <3>2. w = [[[v EXCEPT !.queue = q] EXCEPT !.mood = mo, !.chain = ch]
                 EXCEPT !.local = TRUE]
      BY <2>1, <2>3
    <3>3. q \in Seq(MoveType) /\ v \in View
      BY <1>0, <3>1
    <3>. HIDE DEF w, q
    <3>4. /\ w \in View /\ w.scene = v.scene /\ w.step = v.step
          /\ w.queue = q /\ w.running = v.running /\ w.local = TRUE
          /\ w.packets = v.packets /\ w.chain = ch /\ w.mood = mo
      BY <2>5, <3>2, <3>3 DEF View
    <3>. QED BY <3>4 DEF q
  <2>. HIDE DEF w, u
  <2>7. /\ Moves(w) = M /\ StepNumbers(w) = StepNumbers(v)
        /\ \A p : Told(w, p) = Told(v, p)
    BY <2>6, SameTold
  <2>8. Effects(w, b + k) = b + k
    BY <2>6 DEF Effects, Flying
  <2>. HIDE DEF m, M, k
  <2>9. b + k \in 0 .. b + k
    BY <1>5, <1>6
  <2>10. Story(w, b + k, b + k)
    BY <1>0, <1>5, <1>6, <2>4, <2>6, <2>7, <2>9 DEF Story
  <2>11. w.running
    BY <1>5, <1>6, <2>6
  <2>. QED BY <1>5, <1>6, <2>6, <2>7, <2>8, <2>10, <2>11 DEF w
<1>7. CASE k # 0 /\ ~m.local
  <2>1. w = [[v EXCEPT !.queue = SubSeq(@, k + 1, Len(@))]
               EXCEPT !.packets = @ \cup {m}, !.local = FALSE]
    BY <1>3, <1>7
  <2>2. /\ w \in View /\ w.scene = v.scene /\ w.step = v.step
        /\ w.queue = SubSeq(v.queue, k + 1, Len(v.queue))
        /\ w.running = v.running /\ w.local = FALSE
        /\ w.packets = v.packets \cup {m}
        /\ w.chain = v.chain /\ w.mood = v.mood
    <3>1. SubSeq(v.queue, k + 1, Len(v.queue)) \in Seq(MoveType)
      BY <1>5, <1>7
    <3>2. m \in MoveType
      BY <1>5, <1>7
    <3>. DEFINE q == SubSeq(v.queue, k + 1, Len(v.queue))
    <3>3. w = [[v EXCEPT !.queue = q]
                 EXCEPT !.packets = @ \cup {m}, !.local = FALSE]
      BY <2>1
    <3>4. q \in Seq(MoveType) /\ v \in View
      BY <1>0, <3>1
    <3>. HIDE DEF w, q, m
    <3>5. /\ w \in View /\ w.scene = v.scene /\ w.step = v.step
          /\ w.queue = q /\ w.running = v.running /\ w.local = FALSE
          /\ w.packets = v.packets \cup {m}
          /\ w.chain = v.chain /\ w.mood = v.mood
      BY <3>2, <3>3, <3>4 DEF View
    <3>. QED BY <3>5 DEF q
  <2>3. /\ Moves(w) = M /\ StepNumbers(w) = StepNumbers(v)
        /\ \A p : Told(w, p) = Told(v, p)
    BY <2>2, SameTold
  <2>4. Effects(w, b + k) = (b + k) - 1 /\ Flying(w)
    BY <1>5, <1>7, <2>2 DEF Effects, Flying
  <2>5. /\ Blocks(Told(v, (b + k) - 1)) = Blocks(Told(v, b))
        /\ MoodAfter(Told(v, (b + k) - 1)) = MoodAfter(Told(v, b))
    BY <1>0, <1>5, <1>7, TellingOn
  <2>. HIDE DEF w, m, M, k
  <2>6. (b + k) - 1 \in 0 .. b + k
    BY <1>5, <1>7
  <2>7. Story(w, b + k, (b + k) - 1)
    BY <1>0, <1>5, <1>7, <2>2, <2>3, <2>5, <2>6 DEF Story
  <2>8. w.running /\ w.packets \subseteq v.packets \cup {Moves(w)[b + k]}
    BY <1>5, <1>7, <2>2, <2>3
  <2>. QED BY <1>5, <1>7, <2>2, <2>4, <2>7, <2>8 DEF w
<1>. QED BY <1>4, <1>6, <1>7

-----------------------------------------------------------------------------
(* The player's handlers *)

\* goTo(): from whatever was on the platform, the story of step n begins.
LEMMA GoToBegins ==
  ASSUME NEW v \in View, NEW n \in StepNumbers(v)
  PROVE  LET w == GoTo(v, n)
         IN w.scene = v.scene /\ w.step = n /\ PlayerInv(w)
<1>. DEFINE B == Before(v, n)
            u == [Settle(v, n) EXCEPT
                    !.packets = {}, !.step = n, !.queue = Steps(v)[n],
                    !.running = TRUE]
            w == StartNextMove(u)
            z == [scene |-> v.scene, step |-> n]
<1>0. v.scene \in DOMAIN Scene /\ n \in Nat
  BY DEF View, StepNumbers
<1>1. Steps(v)[n] \in Seq(MoveType) /\ B \in Seq(MoveType)
  <2>1. z.scene \in DOMAIN Scene /\ z.step \in StepNumbers(z)
    BY <1>0 DEF StepNumbers, Steps
  <2>2. Moves(z) \in Seq(MoveType) /\ Before(z, n) \in Seq(MoveType)
    BY <2>1, StepType
  <2>. QED BY <2>2 DEF Moves, Steps, Before
<1>2. Blocks(B) \in Nat /\ MoodAfter(B) \in Mood
  BY <1>1, LeftType
<1>3. /\ u \in View /\ u.scene = v.scene /\ u.step = n
      /\ u.packets = {} /\ u.queue = Steps(v)[n] /\ u.running = TRUE
      /\ u.chain = Blocks(B) /\ u.mood = MoodAfter(B)
  <2>. DEFINE ch == Blocks(B)
              mo == MoodAfter(B)
              q == Steps(v)[n]
  <2>1. u = [[v EXCEPT !.chain = ch, !.mood = mo] EXCEPT
               !.packets = {}, !.step = n, !.queue = q, !.running = TRUE]
    BY DEF Settle
  <2>2. ch \in Nat /\ mo \in Mood /\ q \in Seq(MoveType)
    BY <1>1, <1>2
  <2>. HIDE DEF u, ch, mo, q
  <2>3. /\ u \in View /\ u.scene = v.scene /\ u.step = n
        /\ u.packets = {} /\ u.queue = q /\ u.running = TRUE
        /\ u.chain = ch /\ u.mood = mo
    BY <1>0, <2>1, <2>2 DEF View
  <2>. QED BY <2>3 DEF ch, mo, q
<1>. HIDE DEF u
<1>4. /\ Moves(u) = Steps(v)[n] /\ u.step \in StepNumbers(u)
      /\ Before(u, u.step) = B /\ u.scene \in DOMAIN Scene
  BY <1>0, <1>3 DEF Moves, Steps, StepNumbers, Before
<1>5. Told(u, 0) = B
  BY <1>4, NothingTold
<1>6. SubSeq(Moves(u), 1, Len(Moves(u))) = Moves(u)
  BY <1>1, <1>4, SubSeqFull
<1>7. 0 \in 0 .. Len(Moves(u)) /\ 0 \in 0 .. 0 /\ 0 + 1 = 1
  BY <1>1, <1>4
<1>8. Story(u, 0, 0)
  BY <1>3, <1>4, <1>5, <1>6, <1>7 DEF Story
<1>9. /\ w.scene = u.scene /\ w.step = u.step
      /\ \E c \in Nat :
           /\ Story(w, c, Effects(w, c))
           /\ w.packets \subseteq
                u.packets \cup (IF Flying(w) THEN {Moves(w)[c]} ELSE {})
           /\ w.running \/ c = Len(Moves(w))
  BY <1>3, <1>8, StartOn
<1>10. GoTo(v, n) = w
  BY DEF GoTo, u
<1>. HIDE DEF w
<1>11. PlayerInv(w)
  <2>1. PICK c \in Nat :
           /\ Story(w, c, Effects(w, c))
           /\ w.packets \subseteq
                u.packets \cup (IF Flying(w) THEN {Moves(w)[c]} ELSE {})
           /\ w.running \/ c = Len(Moves(w))
    BY <1>9
  <2>2. w.packets # {} => Flying(w) /\ w.packets = {Moves(w)[c]}
    BY <1>3, <2>1
  <2>. QED BY <2>1, <2>2 DEF PlayerInv
<1>. QED BY <1>3, <1>9, <1>10, <1>11

\* The story needs neither the play button nor the sight of the scene.
LEMMA SameStory ==
  ASSUME NEW v, NEW w, PlayerInv(v), w \in View,
         w.scene = v.scene, w.step = v.step, w.queue = v.queue,
         w.running = v.running, w.local = v.local, w.packets = v.packets,
         w.chain = v.chain, w.mood = v.mood
  PROVE  PlayerInv(w)
<1>1. PICK b \in Nat :
        /\ Story(v, b, Effects(v, b))
        /\ v.packets # {} => Flying(v) /\ v.packets = {Moves(v)[b]}
        /\ v.running \/ b = Len(Moves(v))
  BY DEF PlayerInv
<1>2. /\ Moves(w) = Moves(v) /\ StepNumbers(w) = StepNumbers(v)
      /\ \A p : Told(w, p) = Told(v, p)
  BY SameTold
<1>3. (Flying(w) <=> Flying(v)) /\ Effects(w, b) = Effects(v, b)
  BY DEF Flying, Effects
<1>4. Story(w, b, Effects(w, b))
  BY <1>1, <1>2, <1>3 DEF Story
<1>. QED BY <1>1, <1>2, <1>3, <1>4 DEF PlayerInv

\* A view whose story goes is one, and stands at one of its steps.
LEMMA StoryView ==
  ASSUME NEW v, PlayerInv(v)
  PROVE  v \in View /\ v.step \in StepNumbers(v)
BY DEF PlayerInv, Story

\* Another state of the play button or of the sight of the scene.
LEMMA Toggled ==
  ASSUME NEW v, PlayerInv(v), NEW b \in BOOLEAN
  PROVE  /\ LET w == [v EXCEPT !.playing = b]
            IN w.scene = v.scene /\ w.step = v.step /\ PlayerInv(w)
         /\ LET w == [v EXCEPT !.visible = b]
            IN w.scene = v.scene /\ w.step = v.step /\ PlayerInv(w)
<1>1. v \in View
  BY StoryView
<1>2. ASSUME NEW w, w = [v EXCEPT !.playing = b] \/ w = [v EXCEPT !.visible = b]
      PROVE  w.scene = v.scene /\ w.step = v.step /\ PlayerInv(w)
  <2>1. /\ w \in View /\ w.scene = v.scene /\ w.step = v.step
        /\ w.queue = v.queue /\ w.running = v.running /\ w.local = v.local
        /\ w.packets = v.packets /\ w.chain = v.chain /\ w.mood = v.mood
    BY <1>1, <1>2 DEF View
  <2>. QED BY <2>1, SameStory
<1>. QED BY <1>2

\* goTo() goes to a step there is: the next one, the one before, or one picked.
LEMMA StepsAround ==
  ASSUME NEW v, PlayerInv(v)
  PROVE  /\ {Later(v), Earlier(v), 1} \subseteq StepNumbers(v)
         /\ v.step < Len(Steps(v)) => v.step + 1 \in StepNumbers(v)
         /\ ~(v.step >= Len(Steps(v))) => v.step + 1 \in StepNumbers(v)
<1>1. v \in View /\ v.step \in StepNumbers(v)
  BY StoryView
<1>2. Steps(v) \in Seq(Seq(MoveType))
  BY <1>1, ScenesAssumption DEF Steps, View
<1>3. Len(Steps(v)) \in Nat
  BY <1>2
<1>. QED BY <1>1, <1>3 DEF StepNumbers, Later, Earlier

\* Every handler of the reader's acts goes to a step or toggles something.
LEMMA ReaderTells ==
  ASSUME PlayerInv(view), Reader
  PROVE  PlayerInv(view') /\ view'.scene = view.scene
<1>0. view \in View /\ view.step \in StepNumbers(view)
  BY StoryView
<1>1. ASSUME NEW v, PlayerInv(v), v.scene = view.scene,
             NEW n \in StepNumbers(v)
      PROVE  PlayerInv(GoTo(v, n)) /\ GoTo(v, n).scene = view.scene
  BY <1>1, GoToBegins, StoryView
<1>2. ASSUME NEW v, PlayerInv(v), v.scene = view.scene
      PROVE  /\ PlayerInv(Pause(v)) /\ Pause(v).scene = view.scene
             /\ PlayerInv(Play(v)) /\ Play(v).scene = view.scene
  <2>1. PlayerInv(Pause(v)) /\ Pause(v).scene = view.scene
    BY <1>2, Toggled DEF Pause
  <2>. DEFINE w == [v EXCEPT !.playing = TRUE]
  <2>2. PlayerInv(w) /\ w.scene = view.scene /\ w.step = v.step
    BY <1>2, Toggled
  <2>3. Play(v) = IF v.running THEN w
                  ELSE IF v.step >= Len(Steps(v)) THEN GoTo(w, 1)
                  ELSE GoTo(w, v.step + 1)
    BY DEF Play
  <2>. HIDE DEF w
  <2>4. Steps(w) = Steps(v) /\ StepNumbers(w) = StepNumbers(v)
    BY <1>2, <2>2 DEF Steps, StepNumbers
  <2>5. /\ 1 \in StepNumbers(w)
        /\ ~(v.step >= Len(Steps(v))) => v.step + 1 \in StepNumbers(w)
    BY <1>2, <2>4, StepsAround
  <2>6. /\ PlayerInv(GoTo(w, 1)) /\ GoTo(w, 1).scene = view.scene
        /\ ~(v.step >= Len(Steps(v))) =>
             /\ PlayerInv(GoTo(w, v.step + 1))
             /\ GoTo(w, v.step + 1).scene = view.scene
    BY <1>1, <2>2, <2>5
  <2>. QED BY <2>1, <2>2, <2>3, <2>6
<1>3. /\ PlayerInv(Pause(view)) /\ Pause(view).scene = view.scene
      /\ StepNumbers(Pause(view)) = StepNumbers(view)
  <2>1. PlayerInv(Pause(view)) /\ Pause(view).scene = view.scene
    BY <1>2
  <2>. QED BY <2>1 DEF StepNumbers, Steps
<1>4. {Later(view), Earlier(view), 1} \subseteq StepNumbers(view)
  BY StepsAround
<1>5. CASE TogglePlay
  BY <1>2, <1>5 DEF TogglePlay, Press
<1>6. CASE NextStep
  BY <1>1, <1>3, <1>4, <1>6 DEF NextStep, Press
<1>7. CASE PrevStep
  BY <1>1, <1>3, <1>4, <1>7 DEF PrevStep, Press
<1>8. CASE Restart
  <2>1. PlayerInv(GoTo(view, 1)) /\ GoTo(view, 1).scene = view.scene
    BY <1>1, <1>4
  <2>. QED BY <1>2, <1>8, <2>1 DEF Restart, Press
<1>9. CASE PickStep
  BY <1>1, <1>3, <1>9 DEF PickStep, Press
<1>10. CASE ArrowKey
  BY <1>1, <1>4, <1>10 DEF ArrowKey, Press
<1>11. CASE Scroll
  <2>1. (~view.visible) \in BOOLEAN
    OBVIOUS
  <2>2. view' = [view EXCEPT !.visible = ~view.visible]
    BY <1>11 DEF Scroll, Press
  <2>. QED BY <2>1, <2>2, Toggled
<1>. QED BY <1>5, <1>6, <1>7, <1>8, <1>9, <1>10, <1>11 DEF Reader

\* A move that is over gives way to the next one.
LEMMA GivesWay ==
  ASSUME NEW v, NEW b \in Nat, Story(v, b, b), v.running \/ b = Len(Moves(v)),
         NEW w, \/ v.packets = {} /\ w = StartNextMove(v)
                \/ w = [StartNextMove(v) EXCEPT !.packets = {}]
  PROVE  PlayerInv(w) /\ w.scene = v.scene
<1>. DEFINE s == StartNextMove(v)
<1>1. s.scene = v.scene
  BY StartOn
<1>2. PICK c \in Nat :
        /\ Story(s, c, Effects(s, c))
        /\ s.packets \subseteq
             v.packets \cup (IF Flying(s) THEN {Moves(s)[c]} ELSE {})
        /\ s.running \/ c = Len(Moves(s))
  BY StartOn
<1>. HIDE DEF s
<1>3. CASE v.packets = {} /\ w = s
  <2>1. s.packets # {} => Flying(s) /\ s.packets = {Moves(s)[c]}
    BY <1>2, <1>3
  <2>. QED BY <1>1, <1>2, <1>3, <2>1 DEF PlayerInv
<1>4. CASE w = [s EXCEPT !.packets = {}]
  <2>1. s \in View
    BY <1>2 DEF Story
  <2>2. /\ w \in View /\ w.scene = s.scene /\ w.step = s.step
        /\ w.queue = s.queue /\ w.running = s.running /\ w.local = s.local
        /\ w.packets = {} /\ w.chain = s.chain /\ w.mood = s.mood
    BY <1>4, <2>1 DEF View
  <2>3. /\ Moves(w) = Moves(s) /\ StepNumbers(w) = StepNumbers(s)
        /\ \A p : Told(w, p) = Told(s, p)
    BY <2>2, SameTold
  <2>4. Effects(w, c) = Effects(s, c)
    BY <2>2 DEF Flying, Effects
  <2>5. Story(w, c, Effects(w, c))
    BY <1>2, <2>2, <2>3, <2>4 DEF Story
  <2>. QED BY <1>1, <1>2, <2>2, <2>3, <2>5 DEF PlayerInv
<1>. QED BY <1>3, <1>4 DEF s

\* Every frame of loop() tells on.
LEMMA FramesTell ==
  ASSUME PlayerInv(view), Frames
  PROVE  PlayerInv(view') /\ view'.scene = view.scene
<1>0. view \in View /\ view.step \in StepNumbers(view)
  BY StoryView
<1>1. PICK b \in Nat :
        /\ Story(view, b, Effects(view, b))
        /\ view.packets # {} => Flying(view) /\ view.packets = {Moves(view)[b]}
        /\ view.running \/ b = Len(Moves(view))
  BY DEF PlayerInv
<1>2. CASE Arrive
  <2>1. PICK m \in view.packets :
          view' = [StartNextMove(ApplyEffect(view, m)) EXCEPT
                     !.packets = view.packets \ {m}]
    BY <1>2 DEF Arrive, Frame
  <2>2. /\ Flying(view) /\ m = Moves(view)[b] /\ view.packets \ {m} = {}
        /\ Effects(view, b) = b - 1
    BY <1>1, <2>1 DEF Effects
  <2>3. /\ view.scene \in DOMAIN Scene /\ b - 1 \in 0 .. Len(Moves(view))
        /\ b \in b - 1 .. Len(Moves(view)) /\ b - 1 < b
        /\ b \in 0 .. Len(Moves(view)) /\ b \in 0 .. b
        /\ \A i \in (b - 1) + 1 .. b - 1 : FALSE
    <3>1. b - 1 \in 0 .. b /\ b \in 0 .. Len(Moves(view))
      BY <1>1, <2>2 DEF Story
    <3>2. Moves(view) \in Seq(MoveType) /\ view.scene \in DOMAIN Scene
      BY <1>0, StepType DEF View
    <3>3. Len(Moves(view)) \in Nat
      BY <3>2
    <3>. QED BY <3>1, <3>2, <3>3
  <2>. DEFINE u == ApplyEffect(view, m)
              ch == IF m.store THEN view.chain + 1 ELSE view.chain
              mo == IF m.dilly = Keep THEN view.mood ELSE m.dilly
  <2>4. u = [view EXCEPT !.mood = mo, !.chain = ch]
    BY <1>0, EffectIs
  <2>5. Blocks(Told(view, b)) = ch /\ MoodAfter(Told(view, b)) = mo
    <3>1. /\ view.chain = Blocks(Told(view, b - 1))
          /\ view.mood = MoodAfter(Told(view, b - 1))
      BY <1>1, <2>2 DEF Story
    <3>. QED BY <1>0, <2>2, <2>3, <3>1, TellingOn
  <2>6. ch \in Nat /\ mo \in Mood
    <3>1. Told(view, b) \in Seq(MoveType)
      BY <1>0, <2>3, ToldIs
    <3>. QED BY <2>5, <3>1, LeftType
  <2>. HIDE DEF u, ch, mo
  <2>7. /\ u \in View /\ u.scene = view.scene /\ u.step = view.step
        /\ u.queue = view.queue /\ u.running = view.running
        /\ u.chain = ch /\ u.mood = mo
    BY <1>0, <2>4, <2>6 DEF View
  <2>8. /\ Moves(u) = Moves(view) /\ StepNumbers(u) = StepNumbers(view)
        /\ \A p : Told(u, p) = Told(view, p)
    BY <2>7, SameTold
  <2>9. Story(u, b, b)
    BY <1>1, <2>3, <2>5, <2>7, <2>8 DEF Story
  <2>10. u.running
    BY <2>2, <2>7 DEF Flying
  <2>11. view' = [StartNextMove(u) EXCEPT !.packets = {}]
    BY <2>1, <2>2 DEF u
  <2>. QED BY <2>7, <2>9, <2>10, <2>11, GivesWay
<1>3. CASE LocalOver
  <2>. DEFINE u == [view EXCEPT !.local = FALSE]
  <2>1. view.local /\ view' = StartNextMove(u)
    BY <1>3 DEF LocalOver, Frame
  <2>2. Effects(view, b) = b /\ view.packets = {}
    BY <1>1, <2>1 DEF Effects, Flying
  <2>3. /\ u \in View /\ u.scene = view.scene /\ u.step = view.step
        /\ u.queue = view.queue /\ u.running = view.running
        /\ u.packets = {} /\ u.chain = view.chain /\ u.mood = view.mood
    BY <1>0, <2>2 DEF View
  <2>. HIDE DEF u
  <2>4. /\ Moves(u) = Moves(view) /\ StepNumbers(u) = StepNumbers(view)
        /\ \A p : Told(u, p) = Told(view, p)
    BY <2>3, SameTold
  <2>5. Story(u, b, b)
    BY <1>1, <2>2, <2>3, <2>4 DEF Story
  <2>6. u.running \/ b = Len(Moves(u))
    BY <1>1, <2>3, <2>4
  <2>. QED BY <2>1, <2>3, <2>5, <2>6, GivesWay
<1>4. CASE ReadOn
  <2>1. view' = IF view.step < Len(Steps(view)) THEN GoTo(view, view.step + 1)
                ELSE Pause(view)
    BY <1>4 DEF ReadOn, Frame
  <2>2. CASE view.step < Len(Steps(view))
    <3>1. view.step + 1 \in StepNumbers(view)
      BY <2>2, StepsAround
    <3>. QED BY <1>0, <2>1, <2>2, <3>1, GoToBegins
  <2>3. CASE ~(view.step < Len(Steps(view)))
    BY <2>1, <2>3, Toggled DEF Pause
  <2>. QED BY <2>2, <2>3
<1>. QED BY <1>2, <1>3, <1>4 DEF Frames

\* The constructor: a mounted player begins with the first step.
LEMMA MountedTells ==
  ASSUME NEW s \in DOMAIN Scene
  PROVE  Mounted(s).scene = s /\ PlayerInv(Mounted(s))
<1>. DEFINE v == [scene |-> s, step |-> 0, queue |-> <<>>, running |-> FALSE,
                  packets |-> {}, local |-> FALSE, playing |-> FALSE,
                  chain |-> 0, mood |-> Happy, visible |-> TRUE]
<1>1. v \in View
  <2>1. <<>> \in Seq(MoveType) /\ Happy \in Mood /\ {} \in SUBSET MoveType
    BY DEF Mood
  <2>. QED BY <2>1 DEF View
<1>2. 1 \in StepNumbers(v)
  <2>1. Steps(v) = Scene[s].steps /\ Steps(v) \in Seq(Seq(MoveType)) \ {<<>>}
    BY ScenesAssumption DEF Steps
  <2>2. Len(Steps(v)) \in Nat /\ Len(Steps(v)) # 0
    BY <2>1, EmptySeq
  <2>. QED BY <2>2 DEF StepNumbers
<1>3. Mounted(s) = GoTo(v, 1) /\ v.scene = s
  BY DEF Mounted
<1>. HIDE DEF v
<1>. QED BY <1>1, <1>2, <1>3, GoToBegins

-----------------------------------------------------------------------------
(* What the story says of the platform *)

\* The blocks and the mood shown are those of the moves played.
LEMMA ShownFollows ==
  ASSUME NEW v, PlayerInv(v)
  PROVE  LET told == Before(v, v.step) \o Played(v)
         IN v.chain = Blocks(told) /\ v.mood = MoodAfter(told)
<1>1. PICK b \in Nat : Story(v, b, Effects(v, b))
  BY DEF PlayerInv
<1>2. /\ v.scene \in DOMAIN Scene /\ v.step \in StepNumbers(v)
      /\ b \in 0 .. Len(Moves(v))
      /\ v.queue = SubSeq(Moves(v), b + 1, Len(Moves(v)))
  BY <1>1 DEF Story, View
<1>3. Moves(v) \in Seq(MoveType) /\ Len(Moves(v)) \in Nat
  <2>1. Moves(v) \in Seq(MoveType)
    BY <1>2, StepType
  <2>. QED BY <2>1
<1>4. Len(v.queue) = Len(Moves(v)) - b
  BY <1>2, <1>3, RestOfStep
<1>5. Len(Moves(v)) - Len(v.queue) = b
  BY <1>3, <1>4
<1>6. Played(v) = SubSeq(Moves(v), 1, Effects(v, b))
  BY <1>5 DEF Played, Moves, Effects, Flying
<1>7. Before(v, v.step) \o Played(v) = Told(v, Effects(v, b))
  BY <1>6 DEF Told
<1>. QED BY <1>1, <1>7 DEF Story

\* What is queued and what flies are moves of the step.
LEMMA PlayerType ==
  ASSUME NEW v, PlayerInv(v)
  PROVE  ViewType(v)
<1>1. PICK b \in Nat :
        /\ Story(v, b, Effects(v, b))
        /\ v.packets # {} => Flying(v) /\ v.packets = {Moves(v)[b]}
  BY DEF PlayerInv
<1>2. /\ v \in View /\ v.scene \in DOMAIN Scene /\ v.step \in StepNumbers(v)
      /\ b \in 0 .. Len(Moves(v)) /\ Effects(v, b) \in 0 .. b
      /\ v.queue = SubSeq(Moves(v), b + 1, Len(Moves(v)))
  BY <1>1 DEF Story, View
<1>3. Moves(v) \in Seq(MoveType) /\ Len(Moves(v)) \in Nat
  <2>1. Moves(v) \in Seq(MoveType)
    BY <1>2, StepType
  <2>. QED BY <2>1
<1>4. Range(v.queue) \subseteq Range(Moves(v))
  <2>. DEFINE q == v.queue
              M == Moves(v)
  <2>1. /\ q \in Seq(MoveType) /\ Len(q) = Len(M) - b
        /\ \A i \in 1 .. Len(M) - b : q[i] = M[b + i]
    BY <1>2, <1>3, RestOfStep
  <2>. HIDE DEF q, M
  <2>2. ASSUME NEW i \in DOMAIN q PROVE q[i] \in Range(M)
    <3>1. i \in 1 .. Len(M) - b /\ b + i \in 1 .. Len(M)
      BY <1>2, <1>3, <2>1 DEF M
    <3>2. b + i \in DOMAIN M /\ q[i] = M[b + i]
      BY <1>3, <2>1, <3>1 DEF M
    <3>. QED BY <3>2 DEF Range
  <2>. QED BY <2>2 DEF Range, q, M
<1>5. v.packets \subseteq Range(Moves(v))
  <2>1. CASE v.packets # {}
    <3>1. b \in 1 .. Len(Moves(v))
      BY <1>1, <1>2, <1>3, <2>1 DEF Effects
    <3>2. b \in DOMAIN Moves(v)
      BY <1>3, <3>1
    <3>. QED BY <1>1, <2>1, <3>2 DEF Range
  <2>. QED BY <2>1
<1>. QED BY <1>2, <1>4, <1>5 DEF ViewType, Moves

-----------------------------------------------------------------------------
(* The shell *)

ShellType ==
  /\ hash \in Page \cup {Nowhere, NoText}
  /\ acts \in 0 .. MaxActs /\ events \in 0 .. acts
  /\ current \in Page
  /\ anchor \in Guide \cup {NoText} /\ kbLast \in Page \cup {NoText}
  /\ at \in Guide \cup {Top}
  /\ mounted \in Nat \ {0}
  /\ search \in [text : Page \cup {NoText}, hits : Page \cup {NoText}, hidden : BOOLEAN]

\* The player of the page shown, if there is one.
PageInv == (view # NoView => PlayerInv(view)) /\ OnePlayer

KBInv == ShellType /\ PageInv /\ SettledOnHash /\ HitsOfText

LEMMA Pages ==
  /\ Linked \subseteq Page /\ Home \in Page
  /\ \A h : Resolve(h) \in Page
  /\ \A p \in Page : Resolve(p) = p
BY PagesAssumption, LinkedAssumption DEF Page, Resolve

\* A view whose story goes is one, so that it is not NoView.
LEMMA AView ==
  ASSUME NEW v, PlayerInv(v)
  PROVE  v # NoView
BY StoryView, NoViewAssumption

THEOREM KBInitially == KBInit => KBInv
<1>. SUFFICES ASSUME KBInit PROVE KBInv
  OBVIOUS
<1>1. current \in Page /\ kbLast \in Page
  BY Pages DEF KBInit
<1>2. Closed \in [text : Page \cup {NoText}, hits : Page \cup {NoText}, hidden : BOOLEAN]
  BY DEF Closed
<1>3. ShellType
  <2>1. acts \in 0 .. MaxActs /\ events \in 0 .. acts /\ mounted \in Nat \ {0}
    <3>1. acts = 0 /\ events = 0 /\ mounted = 1 /\ MaxActs \in Nat
      BY MaxActsAssumption DEF KBInit
    <3>. QED BY <3>1
  <2>2. hash \in Page \cup {Nowhere, NoText} /\ anchor = NoText /\ at = Top
    BY DEF KBInit, NoAnchor
  <2>3. search = Closed
    BY DEF KBInit
  <2>. QED BY <1>1, <1>2, <2>1, <2>2, <2>3 DEF ShellType
<1>4. PageInv
  <2>1. CASE current \in Tour /\ view = Mounted(current)
    <3>1. Mounted(current).scene = current /\ PlayerInv(Mounted(current))
      BY <2>1, MountedTells DEF Tour
    <3>. QED BY <2>1, <3>1, AView DEF KBInit, PageInv, OnePlayer
  <2>2. CASE view = NoView
    BY <2>2 DEF KBInit, PageInv, OnePlayer
  <2>. QED BY <2>1, <2>2 DEF KBInit
<1>5. SettledOnHash /\ HitsOfText
  BY DEF KBInit, SettledOnHash, HitsOfText, Closed
<1>. QED BY <1>3, <1>4, <1>5 DEF KBInv

\* Rendering a page leaves the one player of that page, or none.
LEMMA RenderMounts ==
  ASSUME ShellType, PageInv, NEW p \in Page, NEW a \in Guide \cup {NoText}, Render(p, a)
  PROVE  /\ PageInv' /\ current' = p /\ mounted' \in Nat \ {0}
         /\ at' \in Guide \cup {Top} /\ kbLast' \in Page \cup {NoText}
<1>1. Disposed = {}
  BY DEF PageInv, OnePlayer, Disposed
<1>0. mounted + 1 \in Nat \ {0}
  <2>1. mounted \in Nat
    BY DEF ShellType
  <2>. QED BY <2>1
<1>2. at' \in Guide \cup {Top} /\ kbLast' \in Page \cup {NoText} /\ current' = p
  BY DEF Render, NoAnchor, ShellType
<1>3. CASE /\ p \in Tour /\ view' = Mounted(p) /\ mounted' = mounted + 1
           /\ alive' = Disposed \cup {mounted + 1}
  <2>1. Mounted(p).scene = p /\ PlayerInv(Mounted(p))
    BY <1>3, MountedTells DEF Tour
  <2>2. view' # NoView
    BY <1>3, <2>1, AView
  <2>3. PageInv'
    BY <1>1, <1>2, <1>3, <2>1, <2>2 DEF PageInv, OnePlayer
  <2>. QED BY <1>0, <1>2, <1>3, <2>3
<1>4. CASE view' = NoView /\ alive' = Disposed /\ UNCHANGED mounted
  <2>1. PageInv'
    BY <1>1, <1>4 DEF PageInv, OnePlayer
  <2>. QED BY <1>2, <1>4, <2>1 DEF ShellType
<1>. QED BY <1>3, <1>4 DEF Render

\* A navigation to a hash: a call is due unless the hash stays.
LEMMA GoToHashSettles ==
  ASSUME ShellType, SettledOnHash, Act,
         NEW h \in Page \cup {Nowhere, NoText}, GoToHash(h), UNCHANGED current
  PROVE  /\ hash' \in Page \cup {Nowhere, NoText} /\ SettledOnHash'
         /\ acts' \in 0 .. MaxActs /\ events' \in 0 .. acts'
<1>0. /\ acts \in Nat /\ MaxActs \in Nat /\ acts < MaxActs /\ acts' = acts + 1
      /\ events \in Nat /\ events <= acts
      /\ hash' = h /\ events' = IF h = hash THEN events ELSE events + 1
  <2>1. /\ acts \in 0 .. MaxActs /\ events \in 0 .. acts /\ MaxActs \in Nat
        /\ acts < MaxActs /\ acts' = acts + 1
    BY MaxActsAssumption DEF ShellType, Act
  <2>2. hash' = h /\ events' = IF h = hash THEN events ELSE events + 1
    BY DEF GoToHash
  <2>. QED BY <2>1, <2>2
<1>1. acts' \in 0 .. MaxActs /\ events' \in 0 .. acts' /\ hash' = h
  BY <1>0
<1>2. CASE h = hash
  BY <1>1, <1>2 DEF SettledOnHash, GoToHash, Resolve, Page, Tour
<1>3. CASE h # hash
  <2>1. events' # 0
    BY <1>0, <1>3
  <2>. QED BY <1>1, <2>1 DEF SettledOnHash
<1>. QED BY <1>1, <1>2, <1>3

-----------------------------------------------------------------------------
(* One lemma for each action of the shell *)

\* What an act of the reader leaves to be counted.
LEMMA ActCounts ==
  ASSUME ShellType, Act
  PROVE  /\ acts' \in 0 .. MaxActs /\ events \in 0 .. acts' /\ 0 \in 0 .. acts'
         /\ \A n \in 0 .. events : n \in 0 .. acts'
BY MaxActsAssumption DEF ShellType, Act

\* As long as the page and the player stay, so does what relates them.
LEMMA PageStays ==
  ASSUME PageInv, UNCHANGED <<view, current, alive, mounted>>
  PROVE  PageInv'
BY DEF PageInv, OnePlayer

LEMMA HashChangeKeeps == KBInv /\ HashChange => KBInv'
<1>. SUFFICES ASSUME KBInv, HashChange PROVE KBInv'
  OBVIOUS
<1>. USE DEF KBInv
<1>. DEFINE slug == IF hash # NoText THEN hash
                    ELSE IF kbLast # NoText THEN kbLast ELSE Home
<1>1. /\ Render(Resolve(slug), anchor) /\ anchor' = NoAnchor
      /\ UNCHANGED <<hash, search, acts>> /\ events > 0 /\ events' = events - 1
  BY DEF HashChange, Route
<1>2. Resolve(slug) \in Page /\ anchor \in Guide \cup {NoText}
  BY Pages DEF ShellType
<1>. HIDE DEF slug
<1>3. /\ PageInv' /\ current' = Resolve(slug) /\ mounted' \in Nat \ {0}
      /\ at' \in Guide \cup {Top} /\ kbLast' \in Page \cup {NoText}
  BY <1>1, <1>2, RenderMounts
<1>4. events' \in 0 .. acts'
  BY <1>1 DEF ShellType
<1>5. ShellType'
  BY <1>1, <1>2, <1>3, <1>4 DEF ShellType, NoAnchor
<1>6. SettledOnHash'
  BY <1>1, <1>3 DEF SettledOnHash, slug
<1>7. HitsOfText'
  BY <1>1 DEF HitsOfText
<1>. QED BY <1>3, <1>5, <1>6, <1>7

LEMMA FollowKeeps == KBInv /\ Follow => KBInv'
<1>. SUFFICES ASSUME KBInv, Follow PROVE KBInv'
  OBVIOUS
<1>. USE DEF KBInv
<1>1. /\ Act
      /\ UNCHANGED <<current, anchor, at, kbLast, mounted, alive, search, view>>
  BY DEF Follow
<1>2. PICK h \in Linked \cup {Nowhere, NoText} : GoToHash(h)
  BY DEF Follow
<1>3. h \in Page \cup {Nowhere, NoText}
  BY Pages
<1>4. /\ hash' \in Page \cup {Nowhere, NoText} /\ SettledOnHash'
      /\ acts' \in 0 .. MaxActs /\ events' \in 0 .. acts'
  BY <1>1, <1>2, <1>3, GoToHashSettles
<1>5. ShellType'
  BY <1>1, <1>4 DEF ShellType
<1>6. PageInv' /\ HitsOfText'
  BY <1>1, PageStays DEF HitsOfText
<1>. QED BY <1>4, <1>5, <1>6

LEMMA FollowAnchorKeeps == KBInv /\ FollowAnchor => KBInv'
<1>. SUFFICES ASSUME KBInv, FollowAnchor PROVE KBInv'
  OBVIOUS
<1>. USE DEF KBInv
<1>1. Act /\ UNCHANGED <<current, kbLast, mounted, alive, search, view>>
  BY DEF FollowAnchor
<1>2. PICK p \in Guide :
        \/ p = current /\ at' = p /\ UNCHANGED <<hash, events, anchor>>
        \/ /\ p # current /\ anchor' = p /\ UNCHANGED at
           /\ GoToHash(p) \/ UNCHANGED <<hash, events>>
  BY DEF FollowAnchor
<1>3. /\ anchor' \in Guide \cup {NoText} /\ at' \in Guide \cup {Top}
      /\ p \in Page \cup {Nowhere, NoText}
  BY <1>2 DEF ShellType, Page
<1>4. /\ hash' \in Page \cup {Nowhere, NoText} /\ SettledOnHash'
      /\ acts' \in 0 .. MaxActs /\ events' \in 0 .. acts'
  <2>1. CASE GoToHash(p)
    BY <1>1, <1>3, <2>1, GoToHashSettles
  <2>2. CASE UNCHANGED <<hash, events>>
    <3>1. acts' \in 0 .. MaxActs /\ events \in 0 .. acts'
      BY <1>1, ActCounts
    <3>. QED BY <1>1, <2>2, <3>1 DEF ShellType, SettledOnHash
  <2>. QED BY <1>2, <2>1, <2>2
<1>5. ShellType'
  BY <1>1, <1>3, <1>4 DEF ShellType
<1>6. PageInv' /\ HitsOfText'
  BY <1>1, PageStays DEF HitsOfText
<1>. QED BY <1>4, <1>5, <1>6

LEMMA ReloadKeeps == KBInv /\ Reload => KBInv'
<1>. SUFFICES ASSUME KBInv, Reload PROVE KBInv'
  OBVIOUS
<1>. USE DEF KBInv
<1>. DEFINE slug == IF hash # NoText THEN hash
                    ELSE IF kbLast # NoText THEN kbLast ELSE Home
<1>1. /\ Act /\ current' = Resolve(slug) /\ events' = 0 /\ anchor' = NoAnchor
      /\ at' = Top /\ kbLast' = current' /\ search' = Closed /\ UNCHANGED hash
  BY DEF Reload
<1>2. current' \in Page
  BY <1>1, Pages
<1>3. mounted' \in Nat \ {0} /\ PageInv'
  <2>1. mounted \in Nat \ {0} /\ mounted + 1 \in Nat \ {0}
    <3>1. mounted \in Nat \ {0}
      BY DEF ShellType
    <3>. QED BY <3>1
  <2>2. CASE /\ current' \in Tour /\ view' = Mounted(current')
             /\ mounted' = mounted + 1 /\ alive' = {mounted + 1}
    <3>1. /\ Mounted(current').scene = current'
          /\ PlayerInv(Mounted(current'))
      BY <2>2, MountedTells DEF Tour
    <3>2. view' # NoView
      BY <2>2, <3>1, AView
    <3>. QED BY <2>1, <2>2, <3>1, <3>2 DEF PageInv, OnePlayer
  <2>3. CASE view' = NoView /\ alive' = {} /\ UNCHANGED mounted
    BY <2>1, <2>3 DEF PageInv, OnePlayer
  <2>. QED BY <2>2, <2>3 DEF Reload
<1>4. ShellType'
  <2>1. Closed \in [text : Page \cup {NoText}, hits : Page \cup {NoText},
                    hidden : BOOLEAN]
    BY DEF Closed
  <2>2. acts' \in 0 .. MaxActs /\ 0 \in 0 .. acts'
    BY <1>1, ActCounts
  <2>. QED BY <1>1, <1>2, <1>3, <2>1, <2>2 DEF ShellType, NoAnchor
<1>5. SettledOnHash'
  BY <1>1 DEF SettledOnHash
<1>6. HitsOfText'
  BY <1>1 DEF HitsOfText, Closed
<1>. QED BY <1>3, <1>4, <1>5, <1>6

\* The search box, and what else of the shell stays when it changes.
SearchType == [text : Page \cup {NoText}, hits : Page \cup {NoText},
               hidden : BOOLEAN]

LEMMA SearchKeeps ==
  ASSUME KBInv, Act, search' \in SearchType, HitsOfText',
         UNCHANGED <<current, anchor, at, kbLast, mounted, alive, view>>,
         \/ UNCHANGED <<hash, events>>
         \/ \E h \in Page \cup {Nowhere, NoText} : GoToHash(h)
  PROVE  KBInv'
<1>. USE DEF KBInv
<1>1. /\ hash' \in Page \cup {Nowhere, NoText} /\ SettledOnHash'
      /\ acts' \in 0 .. MaxActs /\ events' \in 0 .. acts'
  <2>1. CASE \E h \in Page \cup {Nowhere, NoText} : GoToHash(h)
    BY <2>1, GoToHashSettles
  <2>2. CASE UNCHANGED <<hash, events>>
    <3>1. acts' \in 0 .. MaxActs /\ events \in 0 .. acts'
      BY ActCounts
    <3>. QED BY <2>2, <3>1 DEF ShellType, SettledOnHash
  <2>. QED BY <2>1, <2>2
<1>2. ShellType'
  BY <1>1 DEF ShellType, SearchType
<1>3. PageInv'
  BY PageStays
<1>. QED BY <1>1, <1>2, <1>3

LEMMA TypeKeeps == KBInv /\ Type => KBInv'
<1>. SUFFICES ASSUME KBInv, Type PROVE KBInv'
  OBVIOUS
<1>1. PICK q \in Linked \cup {NoText} :
        search' = IF q = NoText
                  THEN [search EXCEPT !.text = NoText, !.hidden = TRUE]
                  ELSE [text |-> q, hits |-> q, hidden |-> FALSE]
  BY DEF Type
<1>2. search \in SearchType /\ q \in Page \cup {NoText}
  BY Pages DEF KBInv, ShellType, SearchType
<1>3. search' \in SearchType /\ HitsOfText'
  BY <1>1, <1>2 DEF SearchType, HitsOfText
<1>4. /\ Act /\ UNCHANGED <<hash, events>>
      /\ UNCHANGED <<current, anchor, at, kbLast, mounted, alive, view>>
  BY DEF Type
<1>. QED BY <1>3, <1>4, SearchKeeps

LEMMA EnterKeeps == KBInv /\ Enter => KBInv'
<1>. SUFFICES ASSUME KBInv, Enter PROVE KBInv'
  OBVIOUS
<1>1. /\ Act /\ GoToHash(search.hits)
      /\ search' = [search EXCEPT !.hidden = TRUE]
      /\ UNCHANGED <<current, anchor, at, kbLast, mounted, alive, view>>
  BY DEF Enter
<1>2. search \in SearchType
  BY DEF KBInv, ShellType, SearchType
<1>3. search' \in SearchType /\ HitsOfText'
  BY <1>1, <1>2 DEF SearchType, HitsOfText
<1>4. search.hits \in Page \cup {Nowhere, NoText}
  BY <1>2 DEF SearchType
<1>. QED BY <1>1, <1>3, <1>4, SearchKeeps

LEMMA ClickHitKeeps == KBInv /\ ClickHit => KBInv'
<1>. SUFFICES ASSUME KBInv, ClickHit PROVE KBInv'
  OBVIOUS
<1>1. /\ Act /\ GoToHash(search.hits)
      /\ search' = [search EXCEPT !.hidden = TRUE, !.text = NoText]
      /\ UNCHANGED <<current, anchor, at, kbLast, mounted, alive, view>>
  BY DEF ClickHit
<1>2. search \in SearchType
  BY DEF KBInv, ShellType, SearchType
<1>3. search' \in SearchType /\ HitsOfText'
  BY <1>1, <1>2 DEF SearchType, HitsOfText
<1>4. search.hits \in Page \cup {Nowhere, NoText}
  BY <1>2 DEF SearchType
<1>. QED BY <1>1, <1>3, <1>4, SearchKeeps

LEMMA CloseHitsKeeps == KBInv /\ CloseHits => KBInv'
<1>. SUFFICES ASSUME KBInv, CloseHits PROVE KBInv'
  OBVIOUS
<1>1. /\ Act /\ UNCHANGED <<hash, events>>
      /\ search' = [search EXCEPT !.hidden = TRUE]
      /\ UNCHANGED <<current, anchor, at, kbLast, mounted, alive, view>>
  BY DEF CloseHits
<1>2. search \in SearchType
  BY DEF KBInv, ShellType, SearchType
<1>3. search' \in SearchType /\ HitsOfText'
  BY <1>1, <1>2 DEF SearchType, HitsOfText
<1>. QED BY <1>1, <1>3, SearchKeeps

\* The player's own steps change neither its page nor that it is there.
LEMMA PlayerKeeps == KBInv /\ PlayerNext /\ UNCHANGED shellVars => KBInv'
<1>. SUFFICES ASSUME KBInv, PlayerNext, UNCHANGED shellVars PROVE KBInv'
  OBVIOUS
<1>. USE DEF KBInv
<1>1. UNCHANGED <<hash, events, current, anchor, at, kbLast, mounted, alive,
                  search>>
  BY DEF shellVars
<1>2. view # NoView
  BY DEF PlayerNext, Reader, Frames, Arrive, LocalOver, ReadOn
<1>3. PlayerInv(view)
  BY <1>2 DEF PageInv
<1>4. PlayerInv(view') /\ view'.scene = view.scene
  BY <1>3, ReaderTells, FramesTell DEF PlayerNext
<1>5. view' # NoView
  BY <1>4, AView
<1>6. PageInv'
  BY <1>1, <1>2, <1>4, <1>5 DEF PageInv, OnePlayer
<1>7. acts' \in 0 .. MaxActs /\ events \in 0 .. acts'
  <2>1. Act \/ UNCHANGED acts
    BY DEF PlayerNext, Reader, TogglePlay, NextStep, PrevStep, Restart, PickStep,
           ArrowKey, Scroll, Press, Frames, Arrive, LocalOver, ReadOn, Frame
  <2>. QED BY <2>1, ActCounts DEF ShellType
<1>8. ShellType'
  BY <1>1, <1>7 DEF ShellType
<1>9. SettledOnHash' /\ HitsOfText'
  BY <1>1 DEF SettledOnHash, HitsOfText
<1>. QED BY <1>6, <1>8, <1>9

-----------------------------------------------------------------------------
(* The theorems *)

THEOREM KBKeeps == KBInv /\ [KBNext]_kbVars => KBInv'
<1>1. KBInv /\ UNCHANGED kbVars => KBInv'
  <2>. SUFFICES ASSUME KBInv, UNCHANGED kbVars PROVE KBInv'
    OBVIOUS
  <2>1. UNCHANGED <<hash, events, current, anchor, at, kbLast, mounted, alive,
                    search, view, acts>>
    BY DEF kbVars, shellVars, playerVars
  <2>2. ShellType' /\ SettledOnHash' /\ HitsOfText'
    BY <2>1 DEF KBInv, ShellType, SettledOnHash, HitsOfText
  <2>. QED BY <2>1, <2>2, PageStays DEF KBInv
<1>. QED BY <1>1, HashChangeKeeps, FollowKeeps, FollowAnchorKeeps, ReloadKeeps,
            TypeKeeps, EnterKeeps, ClickHitKeeps, CloseHitsKeeps, PlayerKeeps
         DEF KBNext

THEOREM KBInvariant == KBSpec => []KBInv
BY KBInitially, KBKeeps, PTL DEF KBSpec

\* Type correctness of the shell and of the player it mounts: among others the
\* queue and the envelopes are moves of the step shown, and there are never more
\* calls of hashchange due than the reader has acted (kb-app.js, SceneView).
THEOREM KBTypes == KBSpec => []KBTypeOK
<1>1. KBInv => KBTypeOK
  <2>. SUFFICES ASSUME KBInv PROVE KBTypeOK
    OBVIOUS
  <2>1. events \in 0 .. MaxActs
    BY MaxActsAssumption DEF KBInv, ShellType
  <2>2. {anchor, kbLast} \subseteq Page \cup {NoText}
    BY DEF KBInv, ShellType, Page
  <2>3. alive \subseteq 1 .. mounted
    <3>1. mounted \in 1 .. mounted
      BY DEF KBInv, ShellType
    <3>2. alive = {} \/ alive = {mounted}
      BY DEF KBInv, PageInv, OnePlayer
    <3>. QED BY <3>1, <3>2
  <2>4. PlayerTypeOK
    BY PlayerType DEF KBInv, ShellType, PageInv, PlayerTypeOK
  <2>. QED BY <2>1, <2>2, <2>3, <2>4 DEF KBInv, ShellType, KBTypeOK
<1>. QED BY <1>1, KBInvariant, PTL

\* However fast the reader goes from page to page, the player of the page shown
\* is the only one whose loop and listeners go on (render(), dispose()).
THEOREM OnePlayerOnly == KBSpec => []OnePlayer
<1>1. KBInv => OnePlayer
  BY DEF KBInv, PageInv
<1>. QED BY <1>1, KBInvariant, PTL

\* When no call of hashchange is due, the page is that of the hash (route()).
THEOREM SettlesOnHash == KBSpec => []SettledOnHash
<1>1. KBInv => SettledOnHash
  BY DEF KBInv
<1>. QED BY <1>1, KBInvariant, PTL

\* The list of hits that is shown belongs to what the box says.
THEOREM HitsFollowText == KBSpec => []HitsOfText
<1>1. KBInv => HitsOfText
  BY DEF KBInv
<1>. QED BY <1>1, KBInvariant, PTL

\* Whichever way the reader came to a step - playing on, skipping, going back in
\* the middle of a flight, with the keys or by reloading the page - the blocks
\* on the chain and Dilly's mood are those of the moves told so far (settle(),
\* applyEffect(), startNextMove()).
THEOREM PlatformTellsTheStory == KBSpec => []ShownIsPlayed
<1>1. KBInv => ShownIsPlayed
  BY ShownFollows DEF KBInv, PageInv, ShownIsPlayed
<1>. QED BY <1>1, KBInvariant, PTL

=============================================================================
