------------------------- MODULE ConversationProofs -------------------------
(***************************************************************************)
(* Proofs about what a conversation takes in.                              *)
(*                                                                         *)
(* PassiveBatch: one flush at a time, one answer each, and nothing lost,   *)
(* for any number of candidates, flushes, runs and requests.  The          *)
(* inductive invariant is BatchInv; what it says only while nothing clears *)
(* the batch is its last part, Alone.                                      *)
(*                                                                         *)
(* HistoryBackfill: the pages of a backfill have no hole and its success   *)
(* means that they are stored.  The inductive invariant is BackfillInv.    *)
(*                                                                         *)
(* ChatHistory: what was found of a recalled message is told, after a      *)
(* restart too.  The inductive invariant is HistoryInv.                    *)
(***************************************************************************)
EXTENDS PassiveBatch, HistoryBackfill, ChatHistory, TLAPS, SequenceTheorems,
        FiniteSetTheorems, WellFoundedInduction

-----------------------------------------------------------------------------
(* The batch: the invariant. *)

Items == [msg : Candidates, gen : Nat]
Batches == [items : Seq(Items), generation : Nat, processing : BOOLEAN,
            timer : [run : Nat, gen : Nat]]
Points == {"idle", "fired", "snapshot", "route", "reply", "send", "finish"}
States == [pc : Points, run : Nat, gen : Nat, reroutes : Nat,
           turn : SUBSET Candidates, target : SUBSET Candidates,
           batch : Nat, saw : SUBSET Candidates]

\* The shapes of the variables.
Shapes ==
    /\ batch \in Batches
    /\ flush \in [Flushes -> States]
    /\ inHand \in [Candidates -> -1 .. MaxRuns]
    /\ run \in 1 .. MaxRuns /\ running \in BOOLEAN
    /\ ~running => run < MaxRuns
    /\ cancels \in Nat /\ batches \in Nat
    /\ answers \in [Candidates -> 0 .. 2]
    /\ givenWay \in SUBSET Candidates
    /\ \A f \in Flushes : flush[f].reroutes <= MaxReroutes

\* Generations rise along the items of a batch.
Rising(b) ==
    /\ \A i \in 1 .. Len(b.items) :
          1 <= b.items[i].gen /\ b.items[i].gen <= b.generation
    /\ \A i, j \in 1 .. Len(b.items) :
          i < j => b.items[i].gen < b.items[j].gen

\* The lock's data agree: the timer is off or of the present generation, and
\* off while a flush works; a batch that does not exist is empty.
Coherent(b) ==
    /\ Len(b.items) <= MaxItems
    /\ b.timer.gen \in {0, b.generation}
    /\ b.processing => b.timer = NoTimer /\ b.generation > 0

\* What is collected was offered once, and a flush deals with what it saw.
Offered ==
    /\ \A i \in 1 .. Len(batch.items) : inHand[batch.items[i].msg] = -1
    /\ \A f \in Flushes : \A m \in flush[f].saw : inHand[m] = -1
    /\ \A f \in Flushes : flush[f].turn \subseteq flush[f].saw
    /\ \A f \in Flushes : flush[f].pc \in {"reply", "send"} =>
          flush[f].target \subseteq flush[f].turn

\* What gave way is out of reach of every flush.
GaveWay ==
    \A m \in givenWay :
       /\ inHand[m] = -1 /\ answers[m] = 0
       /\ m \notin Msgs(batch.items)
       /\ \A f \in Flushes : m \notin flush[f].saw

\* While nothing clears the batch one flush works on it; what it saw are the
\* items up to its generation, and only what it is done with is answered.
Deciding == {"route", "reply", "send"}
Alone ==
    /\ \A f, g \in Working : f = g
    /\ Working # {} => batch.processing
    /\ \A f \in Flushes : flush[f].pc \in Deciding \cup {"finish"} =>
          /\ flush[f].gen <= batch.generation
          /\ \A i \in 1 .. Len(batch.items) :
                batch.items[i].gen <= flush[f].gen
                   <=> batch.items[i].msg \in flush[f].saw
    /\ \A f \in Flushes : flush[f].pc \in Deciding =>
          \A m \in flush[f].turn : answers[m] = 0
    /\ \A m \in Candidates : answers[m] >= 1 =>
          /\ answers[m] = 1 /\ inHand[m] = -1
          /\ m \in Msgs(batch.items) =>
                \E f \in Flushes : At(f, "finish") /\ m \in flush[f].saw

BatchInv ==
    /\ Shapes /\ Rising(batch) /\ Coherent(batch)
    /\ Offered /\ GaveWay
    /\ Undisturbed => Alone

-----------------------------------------------------------------------------
(* The operators on items. *)

\* One sequence is the end of another.
EndOf(t, s) ==
    \E d \in Nat :
       /\ Len(s) = d + Len(t)
       /\ \A i \in 1 .. Len(t) : t[i] = s[i + d]

\* What follows from a place on is the end.
LEMMA TailIsEnd ==
    ASSUME NEW s \in Seq(Items), NEW k \in 1 .. Len(s) + 1
    PROVE  /\ SubSeq(s, k, Len(s)) \in Seq(Items)
           /\ Len(SubSeq(s, k, Len(s))) = Len(s) - k + 1
           /\ \A i \in 1 .. Len(s) - k + 1 : SubSeq(s, k, Len(s))[i] = s[i + (k - 1)]
           /\ EndOf(SubSeq(s, k, Len(s)), s)
<1> DEFINE t == SubSeq(s, k, Len(s))
<1>1. /\ Len(s) \in Nat /\ k \in Int /\ k - 1 \in Nat
      /\ \A i \in k .. Len(s) : s[i] \in Items
  BY LenProperties, ElementOfSeq
<1>2. /\ t \in Seq(Items)
      /\ Len(t) = IF k <= Len(s) THEN Len(s) - k + 1 ELSE 0
      /\ \A i \in 1 .. Len(s) - k + 1 : t[i] = s[k + i - 1]
  BY <1>1, Len(s) \in Int, SubSeqProperties
<1>3. Len(t) = Len(s) - k + 1  BY <1>1, <1>2
<1>4. \A i \in 1 .. Len(s) - k + 1 : t[i] = s[i + (k - 1)]
  <2> SUFFICES ASSUME NEW i \in 1 .. Len(s) - k + 1 PROVE t[i] = s[i + (k - 1)]
    OBVIOUS
  <2>1. k + i - 1 = i + (k - 1)  BY <1>1
  <2> QED  BY <2>1, <1>2
<1>5. Len(s) = (k - 1) + Len(t)  BY <1>1, <1>3
<1> HIDE DEF t
<1>6. EndOf(t, s)  BY <1>1, <1>3, <1>4, <1>5 DEF EndOf
<1> QED  BY <1>2, <1>3, <1>4, <1>6 DEF t

\* The newest items are the end of the items, and as many as allowed.
LEMMA NewestIsEnd ==
    ASSUME NEW s \in Seq(Items), NEW n \in Nat
    PROVE  /\ Newest(s, n) \in Seq(Items)
           /\ EndOf(Newest(s, n), s)
           /\ Len(Newest(s, n)) = IF Len(s) <= n THEN Len(s) ELSE n
<1>1. Len(s) \in Nat  BY LenProperties
<1>2. CASE Len(s) <= n
  <2>1. Newest(s, n) = s  BY <1>2 DEF Newest
  <2>2. Len(s) = 0 + Len(s) /\ \A i \in 1 .. Len(s) : s[i] = s[i + 0]
    BY <1>1
  <2> QED  BY <2>1, <2>2, <1>2, 0 \in Nat DEF EndOf
<1>3. CASE ~(Len(s) <= n)
  <2>1. Newest(s, n) = SubSeq(s, Len(s) - n + 1, Len(s))
    BY <1>3 DEF Newest
  <2>2. /\ Len(s) - n + 1 \in 1 .. Len(s) + 1
        /\ Len(s) - (Len(s) - n + 1) + 1 = n
    BY <1>1, <1>3
  <2> QED  BY <2>1, <2>2, <1>3, TailIsEnd
<1> QED  BY <1>2, <1>3

\* The place from which the generations of rising items exceed g.
LEMMA FirstLater ==
    ASSUME NEW s \in Seq(Items), NEW g \in Nat,
           \A i, j \in 1 .. Len(s) : i < j => s[i].gen < s[j].gen
    PROVE  \E k \in 1 .. Len(s) + 1 :
              \A i \in 1 .. Len(s) : s[i].gen > g <=> i >= k
<1> DEFINE T == {i \in Nat : i = Len(s) + 1
                             \/ (i \in 1 .. Len(s) /\ s[i].gen > g)}
<1>1. Len(s) \in Nat  BY LenProperties
<1>2. \A i \in 1 .. Len(s) : s[i] \in Items  BY ElementOfSeq
<1>2a. \A i \in 1 .. Len(s) : s[i].gen \in Nat  BY <1>2 DEF Items
<1>3. T \subseteq Nat /\ T # {}
  <2>1. Len(s) + 1 \in Nat  BY <1>1
  <2>2. Len(s) + 1 \in T  BY <2>1
  <2> QED  BY <2>2
<1>4. PICK k \in T : \A j \in T : ~(<<j, k>> \in OpToRel(<, Nat))
  <2> DEFINE R == OpToRel(<, Nat)
  <2>1. IsWellFoundedOn(R, Nat)  BY NatLessThanWellFounded
  <2> HIDE DEF T, R
  <2>2. \E k \in T : \A j \in T : ~(<<j, k>> \in R)  BY <1>3, <2>1, WFMin
  <2> QED  BY <2>2 DEF R
<1>5. \A j \in T : k <= j
  <2> SUFFICES ASSUME NEW j \in T PROVE k <= j
    OBVIOUS
  <2>1. j \in Nat /\ k \in Nat  BY <1>3
  <2>2. j < k => <<j, k>> \in OpToRel(<, Nat)  BY <2>1 DEF OpToRel
  <2>3. ~(<<j, k>> \in OpToRel(<, Nat))  BY <1>4
  <2>4. ~(j < k)  BY <2>2, <2>3, Zenon
  <2> QED  BY <2>1, <2>4
<1>6. k \in 1 .. Len(s) + 1  BY <1>1
<1>7. ASSUME NEW i \in 1 .. Len(s) PROVE s[i].gen > g <=> i >= k
  <2>1. s[i].gen > g => i >= k  BY <1>5, <1>1
  <2>2. ASSUME i >= k PROVE s[i].gen > g
    <3>1. k \in 1 .. Len(s) /\ s[k].gen > g  BY <1>1, <2>2
    <3>2. k = i \/ s[k].gen < s[i].gen  BY <3>1, <2>2
    <3> QED  BY <3>1, <3>2, <1>2, <1>2a
  <2> QED  BY <2>1, <2>2
<1> QED  BY <1>6, <1>7

\* What is later than a generation is the end, and exactly that.
LEMMA LaterIsEnd ==
    ASSUME NEW s \in Seq(Items), NEW g \in Nat,
           \A i, j \in 1 .. Len(s) : i < j => s[i].gen < s[j].gen
    PROVE  /\ Later(s, g) \in Seq(Items)
           /\ EndOf(Later(s, g), s)
           /\ \A i \in 1 .. Len(Later(s, g)) : Later(s, g)[i].gen > g
           /\ \A i \in 1 .. Len(s) : s[i].gen > g => s[i].msg \in Msgs(Later(s, g))
<1> DEFINE P(k) == \A i \in 1 .. Len(s) : s[i].gen > g <=> i >= k
           first == CHOOSE k \in 1 .. Len(s) + 1 : P(k)
           t == SubSeq(s, first, Len(s))
<1>1. first \in 1 .. Len(s) + 1 /\ P(first)
  <2>1. \E k \in 1 .. Len(s) + 1 : P(k)  BY FirstLater
  <2> HIDE DEF P
  <2> QED  BY <2>1
<1>2. Later(s, g) = t  BY DEF Later
<1>3. Len(s) \in Nat  BY LenProperties
<1> HIDE DEF first
<1>4. /\ t \in Seq(Items) /\ Len(t) = Len(s) - first + 1
      /\ \A i \in 1 .. Len(s) - first + 1 : t[i] = s[i + (first - 1)]
      /\ EndOf(t, s)
  BY <1>1, TailIsEnd
<1> HIDE DEF t
<1>5. ASSUME NEW i \in 1 .. Len(t) PROVE t[i].gen > g
  <2>1. i + (first - 1) \in 1 .. Len(s) /\ i + (first - 1) >= first
    BY <1>1, <1>3, <1>4
  <2> QED  BY <2>1, <1>1, <1>4
<1>6. ASSUME NEW i \in 1 .. Len(s), s[i].gen > g
      PROVE  s[i].msg \in Msgs(t)
  <2>1. i >= first  BY <1>1, <1>6
  <2> DEFINE j == i - (first - 1)
  <2>2. j \in 1 .. Len(t) /\ j + (first - 1) = i
    BY <2>1, <1>1, <1>3, <1>4
  <2>3. t[j] = s[i]  BY <2>2, <1>4
  <2> QED  BY <2>2, <2>3 DEF Msgs
<1> QED  BY <1>2, <1>4, <1>5, <1>6

\* The end of rising items rises, and holds no message that was not there.
LEMMA EndKeeps ==
    ASSUME NEW s \in Seq(Items), NEW t \in Seq(Items), EndOf(t, s)
    PROVE  /\ Len(t) <= Len(s)
           /\ \A i \in 1 .. Len(t) : \E j \in 1 .. Len(s) : t[i] = s[j]
           /\ Msgs(t) \subseteq Msgs(s)
           /\ (\A i, j \in 1 .. Len(s) : i < j => s[i].gen < s[j].gen)
              => (\A i, j \in 1 .. Len(t) : i < j => t[i].gen < t[j].gen)
<1>1. PICK d \in Nat : /\ Len(s) = d + Len(t)
                      /\ \A i \in 1 .. Len(t) : t[i] = s[i + d]
  BY DEF EndOf
<1>2. Len(s) \in Nat /\ Len(t) \in Nat  BY LenProperties
<1>3. \A i \in 1 .. Len(t) : i + d \in 1 .. Len(s)  BY <1>1, <1>2
<1>4. \A i \in 1 .. Len(t) : \E j \in 1 .. Len(s) : t[i] = s[j]
  BY <1>1, <1>3
<1>5. ASSUME \A i, j \in 1 .. Len(s) : i < j => s[i].gen < s[j].gen,
             NEW i \in 1 .. Len(t), NEW j \in 1 .. Len(t), i < j
      PROVE  t[i].gen < t[j].gen
  <2>1. i + d < j + d  BY <1>5
  <2> QED  BY <2>1, <1>1, <1>3, <1>5
<1> QED  BY <1>1, <1>2, <1>4, <1>5 DEF Msgs

-----------------------------------------------------------------------------
(* What the steps make of the batch and of a flush. *)

\* The data under the lock.
Locked == batch \in Batches /\ Rising(batch) /\ Coherent(batch)

\* No batch is a batch.
LEMMA NoBatchFields ==
    /\ NoBatch \in Batches /\ Rising(NoBatch) /\ Coherent(NoBatch)
    /\ Msgs(NoBatch.items) = {} /\ NoBatch.generation = 0
    /\ ~NoBatch.processing /\ NoBatch.items = <<>>
<1>1. /\ NoBatch.items = <<>> /\ NoBatch.generation = 0
      /\ NoBatch.processing = FALSE /\ NoBatch.timer = NoTimer
  BY DEF NoBatch
<1>2. <<>> \in Seq(Items) /\ Len(<<>>) = 0  BY EmptySeq
<1>3. NoBatch \in Batches  BY <1>2 DEF NoBatch, NoTimer, Batches
<1>4. Rising(NoBatch) /\ Msgs(NoBatch.items) = {}
  BY <1>1, <1>2 DEF Rising, Msgs
<1>5. Coherent(NoBatch)
  BY <1>1, <1>2, BatchConstants DEF Coherent, NoTimer
<1> QED  BY <1>1, <1>3, <1>4, <1>5

\* A batch that grows by one message.
LEMMA GrownFields ==
    ASSUME Locked, NEW m \in Candidates, NEW r \in Nat
    PROVE  LET c == GrownBy(batch, m, r)
               new == [msg |-> m, gen |-> batch.generation + 1]
           IN  /\ c \in Batches /\ Rising(c) /\ Coherent(c)
               /\ c.generation = batch.generation + 1
               /\ c.processing = batch.processing
               /\ \A i \in 1 .. Len(c.items) :
                     \/ c.items[i] = new
                     \/ \E j \in 1 .. Len(batch.items) : c.items[i] = batch.items[j]
               /\ \/ Msgs(batch.items) \subseteq Msgs(c.items)
                  \/ Len(batch.items) = MaxItems /\ Len(c.items) = MaxItems
<1> DEFINE gen == batch.generation + 1
           new == [msg |-> m, gen |-> gen]
           items == Append(batch.items, new)
           stays == Newest(items, MaxItems)
           c == GrownBy(batch, m, r)
<1>1. /\ batch.items \in Seq(Items) /\ batch.generation \in Nat
      /\ batch.processing \in BOOLEAN
      /\ batch.timer \in [run : Nat, gen : Nat]
      /\ Len(batch.items) \in Nat /\ Len(batch.items) <= MaxItems
      /\ MaxItems \in Nat
  BY LenProperties, BatchConstants DEF Locked, Batches, Coherent
<1>2. gen \in Nat /\ gen > 0 /\ new \in Items /\ new.gen = gen
  BY <1>1 DEF Items
<1> HIDE DEF gen, new
<1>3. /\ items \in Seq(Items) /\ Len(items) = Len(batch.items) + 1
      /\ \A i \in 1 .. Len(batch.items) : items[i] = batch.items[i]
      /\ items[Len(batch.items) + 1] = new
  BY <1>1, <1>2, AppendProperties
<1> HIDE DEF items
<1>4. \A i \in 1 .. Len(items) :
         \/ i = Len(batch.items) + 1 /\ items[i] = new
         \/ i \in 1 .. Len(batch.items) /\ items[i] = batch.items[i]
  BY <1>1, <1>3
<1>5. \A i \in 1 .. Len(batch.items) :
         /\ batch.items[i].gen \in Nat
         /\ 1 <= batch.items[i].gen /\ batch.items[i].gen < gen
  <2>1. \A i \in 1 .. Len(batch.items) : batch.items[i] \in Items
    BY <1>1, ElementOfSeq
  <2>2. \A i \in 1 .. Len(batch.items) : batch.items[i].gen \in Nat
    BY <2>1 DEF Items
  <2> QED  BY <1>1, <2>2 DEF Locked, Rising, gen
<1>6. \A i \in 1 .. Len(items) : 1 <= items[i].gen /\ items[i].gen <= gen
  BY <1>2, <1>4, <1>5
<1>7. \A i, j \in 1 .. Len(items) : i < j => items[i].gen < items[j].gen
  <2> SUFFICES ASSUME NEW i \in 1 .. Len(items), NEW j \in 1 .. Len(items), i < j
               PROVE  items[i].gen < items[j].gen
    OBVIOUS
  <2>1. i \in 1 .. Len(batch.items) /\ items[i] = batch.items[i]
    BY <1>1, <1>3
  <2>2. CASE j = Len(batch.items) + 1  BY <2>1, <2>2, <1>2, <1>3, <1>5
  <2>3. CASE j \in 1 .. Len(batch.items) /\ items[j] = batch.items[j]
    BY <2>1, <2>3 DEF Locked, Rising
  <2> QED  BY <2>2, <2>3, <1>4
<1>8. /\ stays \in Seq(Items) /\ EndOf(stays, items)
      /\ Len(stays) = IF Len(items) <= MaxItems THEN Len(items) ELSE MaxItems
  BY <1>1, <1>3, NewestIsEnd
<1>9. Len(items) <= MaxItems => stays = items  BY DEF Newest
<1>10. /\ c.items = stays /\ c.generation = gen
       /\ c.processing = batch.processing
       /\ c.timer = IF batch.processing THEN batch.timer
                    ELSE [run |-> r, gen |-> gen]
       /\ c \in Batches
  <2>1. stays \in Seq(Items) /\ gen \in Nat  BY <1>2, <1>8
  <2> HIDE DEF stays
  <2>2. c = [items |-> stays, generation |-> gen,
             processing |-> batch.processing,
             timer |-> IF batch.processing THEN batch.timer
                       ELSE [run |-> r, gen |-> gen]]
    BY DEF Locked, Batches, GrownBy, Scheduled, stays, items, new, gen
  <2> QED  BY <1>1, <2>1, <2>2 DEF Batches
<1> HIDE DEF stays, c
<1>11. /\ Len(stays) <= Len(items)
       /\ \A i \in 1 .. Len(stays) : \E j \in 1 .. Len(items) : stays[i] = items[j]
       /\ \A i, j \in 1 .. Len(stays) : i < j => stays[i].gen < stays[j].gen
  BY <1>3, <1>7, <1>8, EndKeeps
<1>12. Rising(c)
  <2>1. \A i \in 1 .. Len(stays) : 1 <= stays[i].gen /\ stays[i].gen <= gen
    BY <1>6, <1>11
  <2> QED  BY <2>1, <1>10, <1>11 DEF Rising
<1>13. Coherent(c)
  <2>1. Len(stays) <= MaxItems  BY <1>1, <1>3, <1>8
  <2>2. c.timer.gen \in {0, gen}
    BY <1>10 DEF Locked, Coherent, NoTimer
  <2>3. batch.processing => c.timer = NoTimer
    BY <1>10 DEF Locked, Coherent
  <2> QED  BY <2>1, <2>2, <2>3, <1>2, <1>10 DEF Coherent
<1>14. \A i \in 1 .. Len(c.items) :
          \/ c.items[i] = new
          \/ \E j \in 1 .. Len(batch.items) : c.items[i] = batch.items[j]
  BY <1>4, <1>10, <1>11
<1>15. \/ Msgs(batch.items) \subseteq Msgs(c.items)
       \/ Len(batch.items) = MaxItems /\ Len(c.items) = MaxItems
  <2>1. CASE Len(items) <= MaxItems
    <3>1. \A i \in 1 .. Len(batch.items) :
             i \in 1 .. Len(items) /\ items[i] = batch.items[i]
      BY <1>1, <1>3
    <3> QED  BY <2>1, <1>9, <1>10, <3>1 DEF Msgs
  <2>2. CASE ~(Len(items) <= MaxItems)
    BY <2>2, <1>1, <1>3, <1>8, <1>10
  <2> QED  BY <2>1, <2>2
<1> QED  BY <1>10, <1>12, <1>13, <1>14, <1>15 DEF c, new, gen

\* A batch of which a flush takes what it is through with.
LEMMA RemainingFields ==
    ASSUME Locked, NEW f \in Flushes, flush[f] \in States
    PROVE  LET c == Remaining(f)
           IN  /\ c \in Batches /\ Rising(c) /\ Coherent(c)
               /\ ~c.processing
               /\ c.generation \in {0, batch.generation}
               /\ \A i \in 1 .. Len(c.items) :
                     /\ \E j \in 1 .. Len(batch.items) : c.items[i] = batch.items[j]
                     /\ c.items[i].gen > flush[f].gen
               /\ \A i \in 1 .. Len(batch.items) :
                     batch.items[i].gen > flush[f].gen =>
                        batch.items[i].msg \in Msgs(c.items)
<1> DEFINE left == Later(batch.items, flush[f].gen)
           c == Remaining(f)
<1>1. /\ batch.items \in Seq(Items) /\ batch.generation \in Nat
      /\ batch.timer \in [run : Nat, gen : Nat]
      /\ Len(batch.items) \in Nat /\ Len(batch.items) <= MaxItems
      /\ MaxItems \in Nat /\ flush[f].gen \in Nat /\ flush[f].run \in Nat
  BY LenProperties, BatchConstants DEF Locked, Batches, Coherent, States
<1>2. /\ left \in Seq(Items) /\ EndOf(left, batch.items)
      /\ \A i \in 1 .. Len(left) : left[i].gen > flush[f].gen
      /\ \A i \in 1 .. Len(batch.items) :
            batch.items[i].gen > flush[f].gen =>
               batch.items[i].msg \in Msgs(left)
  BY <1>1, LaterIsEnd DEF Locked, Rising
<1> HIDE DEF left
<1>3. /\ Len(left) <= Len(batch.items)
      /\ \A i \in 1 .. Len(left) : \E j \in 1 .. Len(batch.items) : left[i] = batch.items[j]
      /\ \A i, j \in 1 .. Len(left) : i < j => left[i].gen < left[j].gen
  BY <1>1, <1>2, EndKeeps DEF Locked, Rising
<1>4. CASE left = <<>>
  <2>1. c = NoBatch  BY <1>4 DEF Remaining, left
  <2>2. \A i \in 1 .. Len(batch.items) : ~(batch.items[i].gen > flush[f].gen)
    BY <1>2, <1>4, NoBatchFields
  <2>3. Len(NoBatch.items) = 0  BY NoBatchFields, EmptySeq
  <2> HIDE DEF c
  <2> QED  BY <2>1, <2>2, <2>3, NoBatchFields DEF c
<1>5. CASE left # <<>>
  <2>1. c = [items |-> left, generation |-> batch.generation,
             processing |-> FALSE,
             timer |-> [run |-> flush[f].run, gen |-> batch.generation]]
    BY <1>5 DEF Locked, Batches, Remaining, Scheduled, left
  <2>2. c \in Batches  BY <1>1, <1>2, <2>1 DEF Batches
  <2>3. /\ c.items = left /\ c.generation = batch.generation
        /\ c.processing = FALSE /\ c.timer.gen = batch.generation
    BY <2>1
  <2> HIDE DEF c
  <2>4. Rising(c)  BY <1>3, <2>3 DEF Locked, Rising
  <2>5. Len(left) <= MaxItems
    <3>1. Len(left) \in Nat  BY <1>2, LenProperties
    <3> QED  BY <3>1, <1>1, <1>3
  <2>6. Coherent(c)  BY <2>3, <2>5 DEF Coherent
  <2> QED  BY <1>2, <1>3, <2>2, <2>3, <2>4, <2>6 DEF c
<1> QED  BY <1>4, <1>5

\* A flush that goes on keeps its shape.
LEMMA FlushFields ==
    ASSUME Shapes, NEW f \in Flushes, NEW x \in States,
           x.reroutes <= MaxReroutes, Become(f, x)
    PROVE  /\ flush' \in [Flushes -> States]
           /\ \A g \in Flushes : flush'[g].reroutes <= MaxReroutes
           /\ flush'[f] = x
           /\ \A g \in Flushes : g # f => flush'[g] = flush[g]
BY DEF Shapes, Become

\* What each step of a flush makes of it.
Taken(f) == \E x \in States : x.reroutes <= MaxReroutes /\ Become(f, x)

LEMMA FlushMoves ==
    ASSUME Shapes, NEW f \in Flushes, Fire(f) \/ FlushStep(f)
    PROVE  Taken(f)
<1>0. /\ flush[f] \in States /\ flush[f].reroutes <= MaxReroutes
      /\ batch \in Batches /\ MaxReroutes \in Nat /\ batches \in Nat
  BY BatchConstants DEF Shapes
<1>1. Idle \in States /\ Idle.reroutes <= MaxReroutes
  BY <1>0 DEF Idle, States, Points
<1>2. ASSUME NEW p \in Points
      PROVE  /\ [flush[f] EXCEPT !.pc = p] \in States
             /\ [flush[f] EXCEPT !.pc = p].reroutes <= MaxReroutes
  BY <1>0 DEF States
<1>3. ASSUME NEW p \in Points, Goto(f, p) PROVE Taken(f)
  BY <1>2, <1>3 DEF Goto, Taken
<1>4. ASSUME MayReroute(f), Reroute(f) PROVE Taken(f)
  <2> DEFINE x == [flush[f] EXCEPT !.pc = "snapshot", !.reroutes = @ + 1]
  <2>1. flush[f].reroutes + 1 \in Nat /\ flush[f].reroutes + 1 <= MaxReroutes
    <3>1. flush[f].reroutes \in Nat  BY <1>0 DEF States
    <3> QED  BY <3>1, <1>0, <1>4 DEF MayReroute
  <2>2. x = [flush[f] EXCEPT !.pc = "snapshot",
                             !.reroutes = flush[f].reroutes + 1]
    OBVIOUS
  <2>3. x \in States /\ x.reroutes <= MaxReroutes
    BY <1>0, <2>1, <2>2 DEF States, Points
  <2> QED  BY <2>3, <1>4 DEF Reroute, Taken
<1>5. CASE Fire(f)
  <2> DEFINE x == [Idle EXCEPT !.pc = "fired", !.run = batch.timer.run,
                               !.gen = batch.timer.gen]
  <2>1. batch.timer.run \in Nat /\ batch.timer.gen \in Nat
    BY <1>0 DEF Batches
  <2>2. x.reroutes = 0 /\ x \in States
    BY <2>1 DEF Idle, States, Points
  <2>3. x.reroutes <= MaxReroutes  BY <2>2, <1>0
  <2>4. Become(f, x)  BY <1>5 DEF Fire
  <2> QED  BY <2>2, <2>3, <2>4 DEF Taken
<1>6. CASE Begin(f)
  <2> DEFINE x == [flush[f] EXCEPT !.pc = "snapshot", !.batch = batches]
  <2>1. x \in States /\ x.reroutes <= MaxReroutes
    BY <1>0 DEF States, Points
  <2> QED  BY <2>1, <1>1, <1>6 DEF Begin, Taken
<1>7. CASE Snapshot(f)
  <2>1. ASSUME NEW p \in {"route", "finish"}
        PROVE  LET x == [flush[f] EXCEPT !.pc = p, !.gen = batch.generation,
                           !.turn = Msgs(Newest(batch.items, DecisionItems)),
                           !.saw = Msgs(batch.items)]
               IN  x \in States /\ x.reroutes <= MaxReroutes
    <3>1. batch.items \in Seq(Items) /\ batch.generation \in Nat
      BY <1>0 DEF Batches
    <3>2. Newest(batch.items, DecisionItems) \in Seq(Items)
      BY <3>1, NewestIsEnd, BatchConstants
    <3>3. \A s \in Seq(Items) : Msgs(s) \subseteq Candidates
      <4>1. \A s \in Seq(Items) : \A i \in 1 .. Len(s) : s[i] \in Items
        BY ElementOfSeq
      <4> QED  BY <4>1 DEF Msgs, Items
    <3>4. /\ Msgs(Newest(batch.items, DecisionItems)) \in SUBSET Candidates
          /\ Msgs(batch.items) \in SUBSET Candidates
      BY <3>1, <3>2, <3>3
    <3> QED  BY <3>1, <3>4, <1>0 DEF States, Points
  <2> QED  BY <2>1, <1>1, <1>7 DEF Snapshot, Taken
<1>8. CASE Routed(f)
  <2>1. ASSUME NEW m \in flush[f].turn
        PROVE  LET x == [flush[f] EXCEPT !.pc = "reply", !.target = {m}]
               IN  x \in States /\ x.reroutes <= MaxReroutes
    BY <1>0 DEF States, Points
  <2>2. ASSUME NEW m \in flush[f].turn,
               Become(f, [flush[f] EXCEPT !.pc = "reply", !.target = {m}])
        PROVE  Taken(f)
    BY <2>1, <2>2 DEF Taken
  <2>3. "finish" \in Points  BY DEF Points
  <2>4. Become(f, Idle) => Taken(f)  BY <1>1 DEF Taken
  <2> QED  BY <2>2, <2>3, <2>4, <1>3, <1>4, <1>8 DEF Routed
<1>9. CASE Reply(f)
  <2>1. "finish" \in Points /\ "send" \in Points  BY DEF Points
  <2> QED  BY <2>1, <1>3, <1>4, <1>9 DEF Reply
<1>10. CASE Send(f)
  <2>1. "finish" \in Points  BY DEF Points
  <2> QED  BY <2>1, <1>3, <1>10 DEF Send
<1>11. CASE Finish(f)  BY <1>1, <1>11 DEF Finish, Taken
<1> QED  BY <1>5, <1>6, <1>7, <1>8, <1>9, <1>10, <1>11 DEF FlushStep

\* The shapes and the lock's data at the start.
LEMMA ShapesInit == Init => Shapes /\ Locked
<1>1. Idle \in States /\ Idle.reroutes = 0
  BY DEF Idle, States, Points
<1>2. 0 <= MaxReroutes /\ 0 \in -1 .. MaxRuns /\ 1 \in 1 .. MaxRuns
  BY BatchConstants
<1> QED  BY <1>1, <1>2, NoBatchFields DEF Init, Shapes, Locked

\* Every step leaves the lock's data in order.
LEMMA LockedStep ==
    ASSUME Shapes, Locked, [Next]_vars
    PROVE  Locked'
<1>0. batch' = batch => Locked'
  BY DEF Locked, Rising, Coherent
<1>1. batch' = NoBatch => Locked'
  BY NoBatchFields DEF Locked
<1>2. ASSUME NEW m \in Candidates, EnqueuePassiveReply(m) PROVE Locked'
  <2>1. inHand[m] \in Nat  BY <1>2, BatchConstants DEF Shapes, EnqueuePassiveReply
  <2>2. batch' = GrownBy(batch, m, inHand[m])  BY <1>2 DEF EnqueuePassiveReply
  <2> QED  BY <2>1, <2>2, GrownFields DEF Locked
<1>3. ASSUME NEW f \in Flushes, Finish(f) PROVE Locked'
  <2>1. batch' = Remaining(f)  BY <1>3 DEF Finish
  <2> QED  BY <2>1, RemainingFields DEF Locked, Shapes
<1>4. ASSUME NEW f \in Flushes, Fire(f) PROVE Locked'
  <2>1. batch' = [batch EXCEPT !.timer = NoTimer]  BY <1>4 DEF Fire
  <2>2. /\ batch' \in Batches /\ batch'.items = batch.items
        /\ batch'.generation = batch.generation
        /\ batch'.processing = batch.processing /\ batch'.timer = NoTimer
    BY <2>1 DEF Locked, Batches, NoTimer
  <2> QED  BY <2>2 DEF Locked, Rising, Coherent, NoTimer
<1>5. ASSUME NEW f \in Flushes, Begin(f) PROVE Locked'
  <2>1. CASE MayBegin(f)
    <3>1. batch' = [batch EXCEPT !.processing = TRUE, !.timer = NoTimer]
      BY <1>5, <2>1 DEF Begin
    <3>2. /\ batch' \in Batches /\ batch'.items = batch.items
          /\ batch'.generation = batch.generation /\ batch'.timer = NoTimer
      BY <3>1 DEF Locked, Batches, NoTimer
    <3> QED  BY <3>2, <2>1 DEF Locked, Rising, Coherent, NoTimer, MayBegin, Exists
  <2>2. CASE ~MayBegin(f)  BY <1>5, <2>2, <1>0 DEF Begin
  <2> QED  BY <2>1, <2>2
<1> QED
  BY <1>0, <1>1, <1>2, <1>3, <1>4, <1>5
  DEF Next, Offer, CancelPassiveReplyBatch, Stop, Start, FlushStep, Snapshot,
      Routed, Reply, Send, vars

\* A step that a flush takes moves that flush only.
LEMMA FlushAlone ==
    ASSUME Shapes, NEW f \in Flushes, Fire(f) \/ FlushStep(f)
    PROVE  /\ flush' \in [Flushes -> States]
           /\ \A g \in Flushes : flush'[g].reroutes <= MaxReroutes
           /\ \A g \in Flushes : g # f => flush'[g] = flush[g]
BY FlushMoves, FlushFields DEF Taken

\* And it leaves to the workers and the runtime what is theirs.
LEMMA FlushKeeps ==
    ASSUME NEW f \in Flushes, Fire(f) \/ FlushStep(f)
    PROVE  /\ UNCHANGED <<inHand, life, batches, givenWay>>
           /\ Send(f) \/ answers' = answers
<1>1. CASE Send(f)  BY <1>1 DEF Send
<1>2. CASE ~Send(f)
  <2>1. UNCHANGED <<inHand, life, history>>
    BY <1>2 DEF Fire, FlushStep, Begin, Snapshot, Routed, Reply, Finish
  <2> QED  BY <2>1 DEF history
<1> QED  BY <1>1, <1>2

\* A step that no flush takes moves none.
Workers == \E m \in Candidates : Offer(m) \/ EnqueuePassiveReply(m)
Around == CancelPassiveReplyBatch \/ Stop \/ Start

\* Every step keeps the shapes.
LEMMA ShapesStep ==
    ASSUME Shapes, Locked, [Next]_vars
    PROVE  Shapes'
<1>1. batch' \in Batches  BY LockedStep DEF Locked
<1>2. ASSUME NEW f \in Flushes, Fire(f) \/ FlushStep(f) PROVE Shapes'
  <2>1. UNCHANGED <<inHand, life, batches, givenWay>>
    BY <1>2, FlushKeeps
  <2>2. answers' \in [Candidates -> 0 .. 2]
    <3>1. CASE Send(f)  BY <3>1 DEF Send, Shapes
    <3>2. CASE ~Send(f)  BY <3>2, <1>2, FlushKeeps DEF Shapes
    <3> QED  BY <3>1, <3>2
  <2> QED  BY <1>1, <2>1, <2>2, <1>2, FlushAlone DEF Shapes, life
<1>3. CASE Workers
  <2>1. UNCHANGED <<flush, life, answers, givenWay>>
    BY <1>3 DEF Workers, Offer, EnqueuePassiveReply, history
  <2>2. batches' \in Nat
    BY <1>3 DEF Workers, Offer, EnqueuePassiveReply, history, Shapes
  <2>3. inHand' \in [Candidates -> -1 .. MaxRuns]
    <3>1. run \in -1 .. MaxRuns /\ -1 \in -1 .. MaxRuns
      BY BatchConstants DEF Shapes
    <3> QED
      BY <1>3, <3>1 DEF Workers, Offer, EnqueuePassiveReply, Shapes
  <2> QED  BY <1>1, <2>1, <2>2, <2>3 DEF Shapes, life
<1>4. CASE CancelPassiveReplyBatch
  <2>1. Untouched \subseteq Candidates
    <3>1. \A i \in 1 .. Len(batch.items) : batch.items[i] \in Items
      BY ElementOfSeq DEF Shapes, Batches
    <3> QED  BY <3>1 DEF Untouched, Msgs, Items
  <2> QED  BY <1>1, <1>4, <2>1 DEF CancelPassiveReplyBatch, Shapes
<1>5. CASE Stop  BY <1>1, <1>5 DEF Stop, Shapes, history
<1>6. CASE Start
  <2>1. run + 1 \in 1 .. MaxRuns
    BY <1>6, BatchConstants DEF Start, Shapes
  <2> QED  BY <1>1, <1>6, <2>1 DEF Start, Shapes, history
<1>7. CASE UNCHANGED vars  BY <1>7 DEF vars, life, history, Shapes
<1> QED  BY <1>2, <1>3, <1>4, <1>5, <1>6, <1>7 DEF Next, Workers

-----------------------------------------------------------------------------
(* The inductive invariant, part by part. *)

\* What was offered stays offered.
LEMMA HandStep ==
    ASSUME Shapes, [Next]_vars, NEW m \in Candidates, inHand[m] = -1
    PROVE  inHand'[m] = -1
<1>1. ASSUME NEW n \in Candidates, Offer(n) \/ EnqueuePassiveReply(n)
      PROVE  inHand'[m] = -1
  BY <1>1 DEF Shapes, Offer, EnqueuePassiveReply
<1>2. ASSUME NEW f \in Flushes, Fire(f) \/ FlushStep(f)
      PROVE  inHand'[m] = -1
  BY <1>2, FlushKeeps
<1> QED
  BY <1>1, <1>2 DEF Next, CancelPassiveReplyBatch, Stop, Start, vars

\* Items come from the batch, or from the worker that appends.
LEMMA ItemsStep ==
    ASSUME Shapes, Locked, [Next]_vars, NEW i \in 1 .. Len(batch'.items)
    PROVE  \/ \E j \in 1 .. Len(batch.items) : batch'.items[i] = batch.items[j]
           \/ \E m \in Candidates :
                 /\ EnqueuePassiveReply(m)
                 /\ batch'.items[i] = [msg |-> m, gen |-> batch.generation + 1]
<1> DEFINE Old == \E j \in 1 .. Len(batch.items) : batch'.items[i] = batch.items[j]
<1>1. batch'.items = batch.items => Old
  OBVIOUS
<1>2. batch' # NoBatch  BY NoBatchFields, EmptySeq
<1>3. CASE \E m \in Candidates : EnqueuePassiveReply(m)
  <2>1. PICK m \in Candidates : EnqueuePassiveReply(m)  BY <1>3
  <2>2. inHand[m] \in Nat  BY <2>1, BatchConstants DEF Shapes, EnqueuePassiveReply
  <2>3. batch' = GrownBy(batch, m, inHand[m])  BY <2>1 DEF EnqueuePassiveReply
  <2> QED  BY <2>1, <2>2, <2>3, GrownFields
<1>4. CASE \E f \in Flushes : Finish(f)
  <2>1. PICK f \in Flushes : Finish(f)  BY <1>4
  <2>2. batch' = Remaining(f)  BY <2>1 DEF Finish
  <2> QED  BY <2>2, RemainingFields DEF Shapes
<1>5. CASE \E f \in Flushes : Fire(f) \/ Begin(f)
  BY <1>1, <1>5 DEF Fire, Begin, Shapes, Batches
<1> QED
  BY <1>1, <1>2, <1>3, <1>4, <1>5
  DEF Next, Offer, CancelPassiveReplyBatch, Stop, Start, FlushStep, Snapshot,
      Routed, Reply, Send, vars

\* What the items' messages are, whichever sequence.
LEMMA MsgsType ==
    ASSUME NEW s \in Seq(Items)
    PROVE  Msgs(s) \subseteq Candidates
<1>1. \A i \in 1 .. Len(s) : s[i] \in Items  BY ElementOfSeq
<1> QED  BY <1>1 DEF Msgs, Items

\* What a flush saw: what it saw before, or the batch; and what it puts to the
\* router and answers is some of that.
LEMMA SawStep ==
    ASSUME Shapes, [Next]_vars, NEW f \in Flushes,
           flush[f].turn \subseteq flush[f].saw,
           flush[f].pc \in {"reply", "send"} => flush[f].target \subseteq flush[f].turn
    PROVE  /\ \/ flush'[f].saw \subseteq flush[f].saw
              \/ flush'[f].saw = Msgs(batch.items)
           /\ flush'[f].turn \subseteq flush'[f].saw
           /\ flush'[f].pc \in {"reply", "send"} =>
                 flush'[f].target \subseteq flush'[f].turn
<1> DEFINE Goal == /\ \/ flush'[f].saw \subseteq flush[f].saw
                      \/ flush'[f].saw = Msgs(batch.items)
                   /\ flush'[f].turn \subseteq flush'[f].saw
                   /\ flush'[f].pc \in {"reply", "send"} =>
                         flush'[f].target \subseteq flush'[f].turn
<1>0. flush \in [Flushes -> States] /\ flush[f] \in States  BY DEF Shapes
<1>1. flush'[f] = flush[f] => Goal  OBVIOUS
<1>2. ASSUME flush'[f].saw = {}, flush'[f].turn = {},
             flush'[f].pc \notin {"reply", "send"}
      PROVE  Goal
  BY <1>2
<1>3. Become(f, Idle) => Goal
  BY <1>0, <1>2 DEF Become, Idle
<1>4. CASE Fire(f)
  <2>1. flush'[f] = [Idle EXCEPT !.pc = "fired", !.run = batch.timer.run,
                                 !.gen = batch.timer.gen]
    BY <1>0, <1>4 DEF Fire, Become
  <2> QED  BY <2>1, <1>2 DEF Idle
<1>4a. ASSUME NEW p \in Points, Goto(f, p),
              p \in {"reply", "send"} => flush[f].pc \in {"reply", "send"}
       PROVE  Goal
  <2>1. flush'[f] = [flush[f] EXCEPT !.pc = p]
    BY <1>0, <1>4a DEF Goto, Become
  <2> QED  BY <2>1, <1>0, <1>4a DEF States
<1>4b. ASSUME Reroute(f) PROVE Goal
  <2>1. flush'[f] = [flush[f] EXCEPT !.pc = "snapshot", !.reroutes = @ + 1]
    BY <1>0, <1>4b DEF Reroute, Become
  <2> QED  BY <2>1, <1>0 DEF States
<1>5. CASE Begin(f)
  <2>1. ASSUME Become(f, [flush[f] EXCEPT !.pc = "snapshot", !.batch = batches])
        PROVE  Goal
    <3>1. flush'[f] = [flush[f] EXCEPT !.pc = "snapshot", !.batch = batches]
      BY <1>0, <2>1 DEF Become
    <3> QED  BY <3>1, <1>0 DEF States
  <2> QED  BY <2>1, <1>3, <1>5 DEF Begin
<1>6. CASE Snapshot(f)
  <2>1. batch.items \in Seq(Items) /\ DecisionItems \in Nat
    BY BatchConstants DEF Shapes, Batches
  <2>2. Msgs(Newest(batch.items, DecisionItems)) \subseteq Msgs(batch.items)
    BY <2>1, NewestIsEnd, EndKeeps
  <2>3. ASSUME NEW p \in {"route", "finish"},
               Become(f, [flush[f] EXCEPT !.pc = p, !.gen = batch.generation,
                            !.turn = Msgs(Newest(batch.items, DecisionItems)),
                            !.saw = Msgs(batch.items)])
        PROVE  Goal
    BY <1>0, <2>2, <2>3 DEF Become, States
  <2> QED  BY <1>3, <1>6, <2>3 DEF Snapshot
<1>7. CASE Routed(f)
  <2>1. ASSUME NEW m \in flush[f].turn,
               Become(f, [flush[f] EXCEPT !.pc = "reply", !.target = {m}])
        PROVE  Goal
    <3>1. flush'[f] = [flush[f] EXCEPT !.pc = "reply", !.target = {m}]
      BY <1>0, <2>1 DEF Become
    <3> QED  BY <3>1, <1>0 DEF States
  <2>2. Goto(f, "finish") => Goal  BY <1>4a DEF Points
  <2> QED  BY <2>1, <2>2, <1>3, <1>4b, <1>7 DEF Routed
<1>8. CASE Reply(f)
  <2>1. Goto(f, "finish") => Goal  BY <1>4a DEF Points
  <2>2. Goto(f, "send") => Goal  BY <1>4a, <1>8 DEF Points, Reply, At
  <2> QED  BY <2>1, <2>2, <1>4b, <1>8 DEF Reply
<1>9. CASE Send(f)  BY <1>0, <1>9 DEF Send, Become, Goto, States
<1>10. CASE Finish(f)  BY <1>3, <1>10 DEF Finish
<1>11. ASSUME NEW g \in Flushes, g # f, Fire(g) \/ FlushStep(g) PROVE Goal
  BY <1>1, <1>11, FlushAlone
<1> QED
  BY <1>1, <1>4, <1>5, <1>6, <1>7, <1>8, <1>9, <1>10, <1>11
  DEF Next, Offer, EnqueuePassiveReply, CancelPassiveReplyBatch, Stop, Start,
      FlushStep, vars

\* What is in the batch or before a flush's eyes was offered.
LEMMA OfferedStep ==
    ASSUME Shapes, Locked, Offered, [Next]_vars
    PROVE  Offered'
<1>1. ASSUME NEW i \in 1 .. Len(batch.items)
      PROVE  batch.items[i].msg \in Candidates /\ inHand'[batch.items[i].msg] = -1
  <2>1. batch.items[i] \in Items  BY ElementOfSeq DEF Locked, Batches
  <2> QED  BY <2>1, HandStep DEF Items, Offered
<1>2. ASSUME NEW i \in 1 .. Len(batch'.items)
      PROVE  inHand'[batch'.items[i].msg] = -1
  <2>1. CASE \E j \in 1 .. Len(batch.items) : batch'.items[i] = batch.items[j]
    BY <2>1, <1>1
  <2>2. ASSUME NEW m \in Candidates, EnqueuePassiveReply(m),
               batch'.items[i] = [msg |-> m, gen |-> batch.generation + 1]
        PROVE  inHand'[batch'.items[i].msg] = -1
    BY <2>2 DEF EnqueuePassiveReply, Shapes
  <2> QED  BY <2>1, <2>2, ItemsStep
<1>3. ASSUME NEW f \in Flushes
      PROVE  /\ \A m \in flush'[f].saw : inHand'[m] = -1
             /\ flush'[f].turn \subseteq flush'[f].saw
             /\ flush'[f].pc \in {"reply", "send"} =>
                   flush'[f].target \subseteq flush'[f].turn
  <2>1. /\ flush[f].turn \subseteq flush[f].saw
        /\ flush[f].pc \in {"reply", "send"} =>
              flush[f].target \subseteq flush[f].turn
        /\ flush[f].saw \subseteq Candidates
        /\ \A m \in flush[f].saw : inHand[m] = -1
    BY DEF Offered, Shapes, States
  <2>2. \A m \in Msgs(batch.items) : inHand'[m] = -1  BY <1>1 DEF Msgs
  <2>3. \A m \in flush[f].saw : inHand'[m] = -1  BY <2>1, HandStep
  <2> QED  BY <2>1, <2>2, <2>3, SawStep
<1> QED  BY <1>2, <1>3 DEF Offered

\* What is answered was before the eyes of the flush that sends.
LEMMA AnswersStep ==
    ASSUME Shapes, Offered, [Next]_vars, NEW m \in Candidates,
           \A f \in Flushes : m \notin flush[f].saw
    PROVE  answers'[m] = answers[m]
<1>1. ASSUME NEW f \in Flushes, Send(f) PROVE answers'[m] = answers[m]
  <2>1. m \notin flush[f].target  BY <1>1 DEF Send, At, Offered
  <2> QED  BY <1>1, <2>1 DEF Send, Shapes
<1>2. ASSUME NEW f \in Flushes, Fire(f) \/ FlushStep(f)
      PROVE  answers'[m] = answers[m]
  BY <1>1, <1>2, FlushKeeps
<1> QED
  BY <1>2 DEF Next, Offer, EnqueuePassiveReply, CancelPassiveReplyBatch, Stop,
     Start, history, vars

\* What gave way stays out of reach, and what gives way comes out of it.
LEMMA GaveWayStep ==
    ASSUME Shapes, Locked, Offered, GaveWay, [Next]_vars
    PROVE  GaveWay'
<1>1. ASSUME NEW m \in givenWay
      PROVE  /\ inHand'[m] = -1 /\ answers'[m] = 0
             /\ m \notin Msgs(batch'.items)
             /\ \A f \in Flushes : m \notin flush'[f].saw
  <2>1. /\ m \in Candidates /\ inHand[m] = -1 /\ answers[m] = 0
        /\ m \notin Msgs(batch.items)
        /\ \A f \in Flushes : m \notin flush[f].saw
    BY DEF GaveWay, Shapes
  <2>2. inHand'[m] = -1 /\ answers'[m] = 0  BY <2>1, HandStep, AnswersStep
  <2>3. \A f \in Flushes : m \notin flush'[f].saw
    BY <2>1, SawStep DEF Offered
  <2>4. ~EnqueuePassiveReply(m)  BY <2>1 DEF EnqueuePassiveReply
  <2>5. ASSUME NEW i \in 1 .. Len(batch'.items) PROVE batch'.items[i].msg # m
    <3>1. CASE \E j \in 1 .. Len(batch.items) : batch'.items[i] = batch.items[j]
      BY <3>1, <2>1 DEF Msgs
    <3>2. ASSUME NEW n \in Candidates, EnqueuePassiveReply(n),
                 batch'.items[i] = [msg |-> n, gen |-> batch.generation + 1]
          PROVE  batch'.items[i].msg # m
      BY <3>2, <2>4
    <3> QED  BY <3>1, <3>2, ItemsStep
  <2> QED  BY <2>2, <2>3, <2>5 DEF Msgs
<1>2. CASE CancelPassiveReplyBatch
  <2>1. ASSUME NEW m \in Untouched
        PROVE  /\ inHand'[m] = -1 /\ answers'[m] = 0
               /\ m \notin Msgs(batch'.items)
               /\ \A f \in Flushes : m \notin flush'[f].saw
    BY <1>2, NoBatchFields
    DEF CancelPassiveReplyBatch, Untouched, Msgs, Offered
  <2> QED  BY <1>1, <1>2, <2>1 DEF CancelPassiveReplyBatch, GaveWay
<1>3. CASE ~CancelPassiveReplyBatch
  <2>1. ASSUME NEW f \in Flushes, Fire(f) \/ FlushStep(f)
        PROVE  givenWay' = givenWay
    BY <2>1, FlushKeeps
  <2>2. givenWay' = givenWay
    BY <1>3, <2>1 DEF Next, Offer, EnqueuePassiveReply, Stop, Start, history, vars
  <2> QED  BY <1>1, <2>2 DEF GaveWay
<1> QED  BY <1>2, <1>3

-----------------------------------------------------------------------------
(* What holds while nothing clears the batch. *)

\* Nothing that clears the batch is ever taken back.
LEMMA StaysUndisturbed ==
    ASSUME Shapes, [Next]_vars, Undisturbed'
    PROVE  /\ Undisturbed
           /\ ~CancelPassiveReplyBatch /\ ~Stop /\ ~Start
<1>1. run >= 1 /\ run \in Int /\ cancels \in Nat  BY BatchConstants DEF Shapes
<1>2. ~CancelPassiveReplyBatch /\ ~Stop /\ ~Start
  <2>1. ~Stop  BY Zenon DEF Stop, Undisturbed
  <2>2. cancels' = 0 /\ run' = 1  BY Zenon DEF Undisturbed
  <2>3. ~CancelPassiveReplyBatch
    BY <1>1, <2>2 DEF CancelPassiveReplyBatch
  <2>4. ~Start  BY <1>1, <2>2 DEF Start
  <2> QED  BY <2>1, <2>3, <2>4
<1>3. ASSUME NEW f \in Flushes, Fire(f) \/ FlushStep(f) PROVE UNCHANGED life
  BY <1>3, FlushKeeps
<1>4. UNCHANGED life
  BY <1>2, <1>3 DEF Next, Offer, EnqueuePassiveReply, vars
<1> QED  BY <1>2, <1>4 DEF life, Undisturbed

\* The parts of Alone, for a flush f and a candidate m.
InStep(f) ==
    flush[f].pc \in Deciding \cup {"finish"} =>
       /\ flush[f].gen <= batch.generation
       /\ \A i \in 1 .. Len(batch.items) :
             batch.items[i].gen <= flush[f].gen
                <=> batch.items[i].msg \in flush[f].saw
Unanswered(f) ==
    flush[f].pc \in Deciding => \A m \in flush[f].turn : answers[m] = 0
OnceAnswered(m) ==
    answers[m] >= 1 =>
       /\ answers[m] = 1 /\ inHand[m] = -1
       /\ m \in Msgs(batch.items) =>
             \E f \in Flushes : At(f, "finish") /\ m \in flush[f].saw


\* InStep and Unanswered of a flush in state x.
Fits(x) ==
    /\ x.pc \in Deciding \cup {"finish"} =>
          /\ x.gen <= batch.generation
          /\ \A i \in 1 .. Len(batch.items) :
                batch.items[i].gen <= x.gen <=> batch.items[i].msg \in x.saw
    /\ x.pc \in Deciding => \A m \in x.turn : answers[m] = 0

LEMMA AloneParts ==
    Alone <=> /\ \A f, g \in Working : f = g
              /\ Working # {} => batch.processing
              /\ \A f \in Flushes : InStep(f) /\ Unanswered(f)
              /\ \A m \in Candidates : OnceAnswered(m)
BY DEF Alone, InStep, Unanswered, OnceAnswered

\* A worker that appends: the new item is later than what a flush saw, and no
\* flush saw it.
LEMMA AloneEnqueue ==
    ASSUME Shapes, Locked, Offered, Alone, NEW n \in Candidates,
           EnqueuePassiveReply(n)
    PROVE  Alone'
<1>1. /\ flush' = flush /\ answers' = answers /\ inHand[n] \in Nat /\ inHand[n] > 0
      /\ batch' = GrownBy(batch, n, inHand[n])
      /\ inHand' = [inHand EXCEPT ![n] = -1]
  BY BatchConstants DEF EnqueuePassiveReply, Shapes
<1>2. /\ batch'.generation = batch.generation + 1
      /\ batch'.processing = batch.processing
      /\ \A i \in 1 .. Len(batch'.items) :
            \/ batch'.items[i] = [msg |-> n, gen |-> batch.generation + 1]
            \/ \E j \in 1 .. Len(batch.items) : batch'.items[i] = batch.items[j]
  BY <1>1, GrownFields
<1>3. Working' = Working  BY <1>1 DEF Working
<1>4. ASSUME NEW f \in Flushes PROVE InStep(f)' /\ Unanswered(f)'
  <2>1. InStep(f) /\ Unanswered(f)  BY AloneParts
  <2>2. n \notin flush[f].saw  BY <1>1 DEF Offered
  <2>3. flush[f].gen \in Nat /\ batch.generation \in Nat
    BY DEF Shapes, States, Batches
  <2>4. ASSUME flush[f].pc \in Deciding \cup {"finish"},
               NEW i \in 1 .. Len(batch'.items)
        PROVE  batch'.items[i].gen <= flush[f].gen
                  <=> batch'.items[i].msg \in flush[f].saw
    <3>1. CASE batch'.items[i] = [msg |-> n, gen |-> batch.generation + 1]
      <4>1. /\ batch'.items[i].msg = n
            /\ batch'.items[i].gen = batch.generation + 1
        BY <3>1
      <4> QED  BY <4>1, <2>1, <2>2, <2>3, <2>4 DEF InStep
    <3>2. CASE \E j \in 1 .. Len(batch.items) : batch'.items[i] = batch.items[j]
      BY <3>2, <2>1, <2>4 DEF InStep
    <3> QED  BY <3>1, <3>2, <1>2
  <2>5. InStep(f)'  BY <1>1, <1>2, <2>1, <2>3, <2>4 DEF InStep
  <2> QED  BY <1>1, <2>1, <2>5 DEF Unanswered
<1>5. ASSUME NEW m \in Candidates PROVE OnceAnswered(m)'
  <2>1. OnceAnswered(m)  BY AloneParts
  <2>2. CASE answers[m] >= 1
    <3>1. m # n /\ inHand'[m] = -1
      BY <1>1, <2>1, <2>2 DEF OnceAnswered, Shapes
    <3>2. m \in Msgs(batch'.items) => m \in Msgs(batch.items)
      BY <1>2, <3>1 DEF Msgs
    <3> QED  BY <1>1, <2>1, <2>2, <3>1, <3>2 DEF OnceAnswered, At
  <2>3. CASE ~(answers[m] >= 1)  BY <2>3, <1>1 DEF OnceAnswered
  <2> QED  BY <2>2, <2>3
<1> HIDE DEF Alone
<1>6. /\ \A f, g \in Working' : f = g
      /\ Working' # {} => batch'.processing
  BY <1>2, <1>3, AloneParts
<1> QED  BY <1>4, <1>5, <1>6 DEF Alone, InStep, Unanswered, OnceAnswered

\* The flush that works is the only one.
LEMMA OnlyWorker ==
    ASSUME Shapes, Alone, NEW f \in Working, Fire(f) \/ FlushStep(f)
    PROVE  /\ batch.processing
           /\ \A g \in Flushes : g # f =>
                 /\ flush[g].pc \in {"idle", "fired"}
                 /\ flush'[g] = flush[g] /\ InStep(g)' /\ Unanswered(g)'
           /\ Working' \subseteq {f}
           /\ InStep(f) /\ Unanswered(f)
<1>1. f \in Flushes  BY DEF Working
<1>2. /\ batch.processing /\ \A g \in Working : f = g
      /\ InStep(f) /\ Unanswered(f)
  BY <1>1, AloneParts
<1>3. ASSUME NEW g \in Flushes, g # f
      PROVE  /\ flush[g].pc \in {"idle", "fired"} /\ flush'[g] = flush[g]
             /\ InStep(g)' /\ Unanswered(g)' /\ g \notin Working'
  <2>1. flush[g].pc \in {"idle", "fired"}  BY <1>2, <1>3 DEF Working
  <2>2. flush'[g] = flush[g]  BY <1>1, <1>3, FlushAlone
  <2> QED  BY <2>1, <2>2 DEF InStep, Unanswered, Deciding, Working
<1>4. Working' \subseteq {f}  BY <1>3 DEF Working
<1> QED  BY <1>2, <1>3, <1>4

\* A timer fires, or its flush begins or is turned away.
LEMMA AloneBegins ==
    ASSUME Shapes, Locked, Alone, NEW f \in Flushes, Fire(f) \/ Begin(f)
    PROVE  Alone'
<1>1. /\ batch'.items = batch.items /\ batch'.generation = batch.generation
      /\ inHand' = inHand /\ answers' = answers
      /\ flush[f].pc \in {"idle", "fired"}
      /\ \A g \in Flushes : g # f => flush'[g] = flush[g]
  <2>1. UNCHANGED <<inHand, history>> /\ flush[f].pc \in {"idle", "fired"}
    BY DEF Fire, Begin, At
  <2>2. batch'.items = batch.items /\ batch'.generation = batch.generation
    BY DEF Fire, Begin, Shapes, Batches
  <2> QED  BY <2>1, <2>2, FlushAlone DEF history, FlushStep
<1>2. /\ flush'[f].pc \in {"idle", "fired", "snapshot"}
      /\ \/ Begin(f) /\ MayBegin(f)
         \/ /\ flush'[f].pc \in {"idle", "fired"}
            /\ batch'.processing = batch.processing
  <2>1. flush \in [Flushes -> States] /\ batch \in Batches  BY DEF Shapes
  <2>2. CASE Fire(f)
    <3>1. flush'[f] = [Idle EXCEPT !.pc = "fired", !.run = batch.timer.run,
                                   !.gen = batch.timer.gen]
      BY <2>1, <2>2 DEF Fire, Become
    <3>2. batch'.processing = batch.processing
      BY <2>1, <2>2 DEF Fire, Batches
    <3> QED  BY <3>1, <3>2 DEF Idle
  <2>3. CASE Begin(f) /\ MayBegin(f)
    <3>1. flush'[f] = [flush[f] EXCEPT !.pc = "snapshot", !.batch = batches]
      BY <2>1, <2>3 DEF Begin, Become
    <3> QED  BY <3>1, <2>1, <2>3 DEF States
  <2>4. CASE Begin(f) /\ ~MayBegin(f)
    <3>1. flush'[f] = Idle /\ batch' = batch
      BY <2>1, <2>4 DEF Begin, Become
    <3> QED  BY <3>1 DEF Idle
  <2> QED  BY <2>2, <2>3, <2>4
<1>3. ASSUME NEW g \in Flushes PROVE InStep(g)' /\ Unanswered(g)'
  <2>1. CASE g = f
    BY <2>1, <1>2 DEF InStep, Unanswered, Deciding
  <2>2. CASE g # f
    <3>1. InStep(g) /\ Unanswered(g)  BY AloneParts
    <3> QED  BY <2>2, <3>1, <1>1 DEF InStep, Unanswered
  <2> QED  BY <2>1, <2>2
<1>4. ASSUME NEW m \in Candidates PROVE OnceAnswered(m)'
  <2>1. OnceAnswered(m)  BY AloneParts
  <2>2. ASSUME NEW g \in Flushes, At(g, "finish") PROVE flush'[g] = flush[g]
    BY <2>2, <1>1 DEF At
  <2> QED  BY <1>1, <2>1, <2>2 DEF OnceAnswered, At
<1>5. /\ \A g, h \in Working' : g = h
      /\ Working' # {} => batch'.processing
  <2>1. CASE Begin(f) /\ MayBegin(f)
    <3>1. Working = {}  BY <2>1, AloneParts DEF MayBegin
    <3>2. Working' \subseteq {f}  BY <3>1, <1>1 DEF Working
    <3>3. batch'.processing  BY <2>1 DEF Begin, Shapes, Batches
    <3> QED  BY <3>2, <3>3
  <2>2. CASE ~(Begin(f) /\ MayBegin(f))
    <3>1. flush'[f].pc \in {"idle", "fired"} /\ batch'.processing = batch.processing
      BY <2>2, <1>2
    <3>2. Working' \subseteq Working  BY <3>1, <1>1 DEF Working
    <3> QED  BY <3>1, <3>2, AloneParts
  <2> QED  BY <2>1, <2>2
<1> QED  BY <1>3, <1>4, <1>5 DEF Alone, InStep, Unanswered, OnceAnswered

\* What is answered has left the batch, as long as no flush finishes.
LEMMA NoneAnsweredWaits ==
    ASSUME Alone, \A f \in Flushes : ~At(f, "finish"), NEW m \in Candidates,
           answers[m] >= 1
    PROVE  answers[m] = 1 /\ inHand[m] = -1 /\ m \notin Msgs(batch.items)
BY AloneParts DEF OnceAnswered

\* The steps of a flush that decides: none touches the batch or an answer.
LEMMA AloneDecides ==
    ASSUME Shapes, Locked, Offered, Alone, NEW f \in Flushes,
           Snapshot(f) \/ Routed(f) \/ Reply(f)
    PROVE  Alone'
<1>1. /\ flush \in [Flushes -> States] /\ flush[f] \in States
      /\ batch \in Batches /\ batch.items \in Seq(Items)
      /\ batch' = batch /\ inHand' = inHand /\ answers' = answers
      /\ flush[f].pc \in {"snapshot", "route", "reply"}
  BY DEF Shapes, Snapshot, Routed, Reply, At, history, Batches
<1>2. f \in Working  BY <1>1 DEF Working
<1>3. /\ batch.processing /\ Working' \subseteq {f}
      /\ \A g \in Flushes : g # f =>
            flush[g].pc \in {"idle", "fired"} /\ InStep(g)' /\ Unanswered(g)'
      /\ InStep(f) /\ Unanswered(f)
  BY <1>2, OnlyWorker DEF FlushStep
<1>4. \A g \in Flushes : ~At(g, "finish")  BY <1>1, <1>3 DEF At
<1>5. \A m \in Candidates : answers[m] >= 1 =>
         answers[m] = 1 /\ inHand[m] = -1 /\ m \notin Msgs(batch.items)
  BY <1>4, NoneAnsweredWaits
<1>6. \A m \in Candidates : OnceAnswered(m)'
  BY <1>1, <1>5 DEF OnceAnswered
<1>7. flush'[f].pc \notin Deciding \cup {"finish"} => Fits(flush'[f])
  BY DEF Fits, Deciding
<1>8. ASSUME flush[f].pc \in Deciding, flush'[f].gen = flush[f].gen,
             flush'[f].turn = flush[f].turn, flush'[f].saw = flush[f].saw
      PROVE  Fits(flush'[f])
  BY <1>1, <1>3, <1>8 DEF Fits, InStep, Unanswered
<1>9. Become(f, Idle) => Fits(flush'[f])
  <2>1. Become(f, Idle) => flush'[f] = Idle  BY <1>1 DEF Become
  <2> QED  BY <2>1, <1>7 DEF Idle, Deciding
<1>10. ASSUME NEW p \in Points, Goto(f, p), flush[f].pc \in Deciding PROVE Fits(flush'[f])
  <2>1. flush'[f] = [flush[f] EXCEPT !.pc = p]  BY <1>1, <1>10 DEF Goto, Become
  <2> QED  BY <2>1, <1>1, <1>8, <1>10 DEF States
<1>11. Reroute(f) => Fits(flush'[f])
  <2>1. Reroute(f) => flush'[f] = [flush[f] EXCEPT !.pc = "snapshot", !.reroutes = @ + 1]
    BY <1>1 DEF Reroute, Become
  <2> QED  BY <2>1, <1>1, <1>7 DEF States, Deciding
<1>12. ASSUME Snapshot(f) PROVE Fits(flush'[f])
  <2>1. ASSUME NEW p \in {"route", "finish"},
               Become(f, [flush[f] EXCEPT !.pc = p, !.gen = batch.generation,
                            !.turn = Msgs(Newest(batch.items, DecisionItems)),
                            !.saw = Msgs(batch.items)])
        PROVE  Fits(flush'[f])
    <3>1. flush'[f] = [flush[f] EXCEPT !.pc = p, !.gen = batch.generation,
                            !.turn = Msgs(Newest(batch.items, DecisionItems)),
                            !.saw = Msgs(batch.items)]
      BY <1>1, <2>1 DEF Become
    <3>2. /\ flush'[f].gen = batch.generation
          /\ flush'[f].saw = Msgs(batch.items)
          /\ flush'[f].turn = Msgs(Newest(batch.items, DecisionItems))
      BY <3>1, <1>1 DEF States
    <3>3. \A i \in 1 .. Len(batch.items) :
             /\ batch.items[i].gen <= batch.generation
             /\ batch.items[i].msg \in Msgs(batch.items)
      BY DEF Locked, Rising, Msgs
    <3>4. batch.generation \in Nat  BY <1>1 DEF Batches
    <3>6. Msgs(Newest(batch.items, DecisionItems)) \subseteq Msgs(batch.items)
      BY <1>1, NewestIsEnd, EndKeeps, BatchConstants
    <3>7. \A m \in Msgs(batch.items) : answers[m] = 0
      <4>1. \A m \in Msgs(batch.items) : m \in Candidates /\ ~(answers[m] >= 1)
        BY <1>1, <1>5, MsgsType
      <4>2. \A m \in Candidates : answers[m] \in 0 .. 2  BY DEF Shapes
      <4> QED  BY <4>1, <4>2
    <3> QED  BY <1>1, <3>2, <3>3, <3>4, <3>6, <3>7 DEF Fits
  <2> QED  BY <1>9, <1>12, <2>1 DEF Snapshot
<1>13. ASSUME Routed(f) PROVE Fits(flush'[f])
  <2>0. flush[f].pc \in Deciding  BY <1>13 DEF Routed, At, Deciding
  <2>1. ASSUME NEW m \in flush[f].turn,
               Become(f, [flush[f] EXCEPT !.pc = "reply", !.target = {m}])
        PROVE  Fits(flush'[f])
    <3>1. flush'[f] = [flush[f] EXCEPT !.pc = "reply", !.target = {m}]
      BY <1>1, <2>1 DEF Become
    <3> QED  BY <3>1, <1>1, <1>8, <2>0 DEF States
  <2>2. Goto(f, "finish") => Fits(flush'[f])  BY <1>10, <2>0 DEF Points
  <2> QED
    BY <2>1, <2>2, <1>9, <1>11, <1>13 DEF Routed
<1>14. ASSUME Reply(f) PROVE Fits(flush'[f])
  <2>1. flush[f].pc \in Deciding  BY <1>14 DEF Reply, At, Deciding
  <2>2. Goto(f, "finish") => Fits(flush'[f])  BY <1>10, <2>1 DEF Points
  <2>3. Goto(f, "send") => Fits(flush'[f])  BY <1>10, <2>1 DEF Points
  <2> QED  BY <2>2, <2>3, <1>11, <1>14 DEF Reply
<1>15. Fits(flush'[f])  BY <1>12, <1>13, <1>14
<1>16. \A g \in Flushes : InStep(g)' /\ Unanswered(g)'
  BY <1>1, <1>3, <1>15 DEF Fits, InStep, Unanswered
<1> QED  BY <1>1, <1>3, <1>6, <1>16 DEF Alone, InStep, Unanswered, OnceAnswered

\* The channel answers: the candidate was unanswered, and is dealt with.
LEMMA AloneSends ==
    ASSUME Shapes, Locked, Offered, Alone, NEW f \in Flushes, Send(f)
    PROVE  Alone'
<1>1. /\ flush \in [Flushes -> States] /\ flush[f] \in States
      /\ batch' = batch /\ inHand' = inHand
      /\ flush[f].pc = "send"
      /\ flush'[f] = [flush[f] EXCEPT !.pc = "finish"]
  BY DEF Shapes, Send, At, Goto, Become
<1>2. /\ flush'[f].pc = "finish" /\ flush'[f].gen = flush[f].gen
      /\ flush'[f].saw = flush[f].saw
  BY <1>1 DEF States
<1>3. f \in Working  BY <1>1 DEF Working
<1>4. /\ batch.processing /\ Working' \subseteq {f}
      /\ \A g \in Flushes : g # f =>
            flush[g].pc \in {"idle", "fired"} /\ InStep(g)' /\ Unanswered(g)'
      /\ InStep(f) /\ Unanswered(f)
  BY <1>3, OnlyWorker DEF FlushStep
<1>5. InStep(f)' /\ Unanswered(f)'
  BY <1>1, <1>2, <1>4 DEF InStep, Unanswered, Deciding
<1>6. \A g \in Flushes : ~At(g, "finish")  BY <1>1, <1>4 DEF At
<1>7. ASSUME NEW m \in Candidates PROVE OnceAnswered(m)'
  <2>1. answers[m] >= 1 =>
           answers[m] = 1 /\ inHand[m] = -1 /\ m \notin Msgs(batch.items)
    BY <1>6, NoneAnsweredWaits
  <2>2. CASE answers'[m] = answers[m]
    BY <2>1, <2>2, <1>1 DEF OnceAnswered
  <2>3. CASE answers'[m] # answers[m]
    <3>1. m \in flush[f].target /\ answers'[m] = answers[m] + 1
      BY <2>3 DEF Send, Shapes
    <3>2. m \in flush[f].turn /\ m \in flush[f].saw
      BY <3>1, <1>1 DEF Offered
    <3>3. answers'[m] = 1 /\ inHand'[m] = -1
      BY <3>1, <3>2, <1>1, <1>4 DEF Unanswered, Deciding, Offered
    <3>4. flush'[f].pc = "finish" /\ m \in flush'[f].saw  BY <3>2, <1>2
    <3> QED  BY <3>3, <3>4 DEF OnceAnswered, At
  <2> QED  BY <2>2, <2>3
<1>8. \A g \in Flushes : InStep(g)' /\ Unanswered(g)'
  BY <1>4, <1>5 DEF InStep, Unanswered
<1>9. /\ \A g, h \in Working' : g = h
      /\ Working' # {} => batch'.processing
  BY <1>1, <1>4
<1> QED  BY <1>7, <1>8, <1>9 DEF Alone, InStep, Unanswered, OnceAnswered

\* A flush takes what it saw out of the batch, and with it what is answered.
LEMMA AloneFinishes ==
    ASSUME Shapes, Locked, Alone, NEW f \in Flushes, Finish(f)
    PROVE  Alone'
<1>1. /\ flush \in [Flushes -> States] /\ flush[f] \in States
      /\ batch' = Remaining(f) /\ inHand' = inHand /\ answers' = answers
      /\ flush[f].pc = "finish" /\ flush'[f] = Idle
  BY DEF Shapes, Finish, At, Become, history
<1>2. f \in Working  BY <1>1 DEF Working
<1>3. /\ Working' \subseteq {f}
      /\ \A g \in Flushes : g # f =>
            flush[g].pc \in {"idle", "fired"} /\ InStep(g)' /\ Unanswered(g)'
      /\ InStep(f)
  BY <1>2, OnlyWorker DEF FlushStep
<1>4. flush'[f].pc = "idle"  BY <1>1 DEF Idle
<1>5. Working' = {}  BY <1>3, <1>4 DEF Working
<1>6. InStep(f)' /\ Unanswered(f)'
  BY <1>4 DEF InStep, Unanswered, Deciding
<1>7. ASSUME NEW m \in Candidates PROVE OnceAnswered(m)'
  <2>1. OnceAnswered(m)  BY AloneParts
  <2>2. ASSUME answers[m] >= 1, m \in Msgs(batch'.items) PROVE FALSE
    <3>1. PICK i \in 1 .. Len(batch'.items) : batch'.items[i].msg = m
      BY <2>2 DEF Msgs
    <3>2. PICK j \in 1 .. Len(batch.items) : batch'.items[i] = batch.items[j]
      BY <1>1, <3>1, RemainingFields
    <3>3. batch'.items[i].gen > flush[f].gen
      BY <1>1, <3>1, RemainingFields
    <3>4. m \in Msgs(batch.items)  BY <3>1, <3>2 DEF Msgs
    <3>5. PICK g \in Flushes : At(g, "finish") /\ m \in flush[g].saw
      BY <2>1, <2>2, <3>4 DEF OnceAnswered
    <3>6. g = f  BY <3>5, <1>3 DEF At
    <3>7. batch.items[j].gen <= flush[f].gen
      BY <3>1, <3>2, <3>5, <3>6, <1>1, <1>3 DEF InStep
    <3>8. batch.items[j].gen \in Nat /\ flush[f].gen \in Nat
      <4>1. batch.items[j] \in Items  BY <3>2, ElementOfSeq DEF Locked, Batches
      <4> QED  BY <4>1, <1>1 DEF Items, States
    <3> QED  BY <3>2, <3>3, <3>7, <3>8
  <2> QED  BY <2>1, <2>2, <1>1 DEF OnceAnswered
<1>8. \A g \in Flushes : InStep(g)' /\ Unanswered(g)'
  BY <1>3, <1>6 DEF InStep, Unanswered
<1> QED  BY <1>5, <1>7, <1>8 DEF Alone, InStep, Unanswered, OnceAnswered

\* While nothing clears the batch, every step leaves one flush at work.
LEMMA AloneStep ==
    ASSUME BatchInv, [Next]_vars, Undisturbed'
    PROVE  Alone'
<1>1. /\ Shapes /\ Locked /\ Offered /\ Alone
      /\ ~CancelPassiveReplyBatch /\ ~Stop /\ ~Start
  BY StaysUndisturbed DEF BatchInv, Locked, Shapes
<1>2. ASSUME NEW m \in Candidates, Offer(m) PROVE Alone'
  <2>1. /\ UNCHANGED <<batch, flush, history>>
        /\ \A n \in Candidates : inHand[n] = -1 => inHand'[n] = -1
    BY <1>1, <1>2, HandStep DEF Offer
  <2> QED  BY <1>1, <2>1 DEF Alone, Working, At, history
<1>3. ASSUME NEW m \in Candidates, EnqueuePassiveReply(m) PROVE Alone'
  BY <1>1, <1>3, AloneEnqueue
<1>4. ASSUME NEW f \in Flushes, Fire(f) \/ FlushStep(f) PROVE Alone'
  BY <1>1, <1>4, AloneBegins, AloneDecides, AloneSends, AloneFinishes
  DEF FlushStep
<1>5. CASE UNCHANGED vars
  BY <1>1, <1>5 DEF Alone, Working, At, vars, history
<1> QED  BY <1>1, <1>2, <1>3, <1>4, <1>5 DEF Next

-----------------------------------------------------------------------------
(* The invariant and what follows from it. *)

LEMMA InvInit == Init => BatchInv
<1> SUFFICES ASSUME Init PROVE BatchInv  OBVIOUS
<1>1. Shapes /\ Locked  BY ShapesInit
<1>2. /\ \A f \in Flushes : /\ flush[f].pc = "idle" /\ flush[f].saw = {}
                            /\ flush[f].turn = {}
      /\ \A m \in Candidates : answers[m] = 0
      /\ batch = NoBatch /\ givenWay = {}
  BY DEF Init, Idle
<1>3. \A i \in 1 .. Len(batch.items) : FALSE
  BY <1>2, NoBatchFields, EmptySeq
<1>4. Offered  BY <1>2, <1>3 DEF Offered
<1>5. GaveWay  BY <1>2 DEF GaveWay
<1>6. Alone  BY <1>2 DEF Alone, Working, Deciding
<1> QED  BY <1>1, <1>4, <1>5, <1>6 DEF BatchInv, Locked

LEMMA InvStep == BatchInv /\ [Next]_vars => BatchInv'
<1> SUFFICES ASSUME BatchInv, [Next]_vars PROVE BatchInv'  OBVIOUS
<1>1. Shapes /\ Locked /\ Offered /\ GaveWay  BY DEF BatchInv, Locked, Shapes
<1>2. Shapes' /\ Locked'  BY <1>1, ShapesStep, LockedStep
<1>3. Offered' /\ GaveWay'  BY <1>1, OfferedStep, GaveWayStep
<1>4. Undisturbed' => Alone'  BY AloneStep
<1> QED  BY <1>2, <1>3, <1>4 DEF BatchInv, Locked

\* The inductive invariant of the batch holds in every reachable state.
THEOREM BatchIsSound == Spec => []BatchInv
BY InvInit, InvStep, PTL DEF Spec

\* What the invariant says about single states.
LEMMA InvSafe == BatchInv => BatchSafe
<1> SUFFICES ASSUME BatchInv PROVE BatchSafe  OBVIOUS
<1>1. TypeOK
  BY DEF BatchInv, Shapes, Rising, Coherent, TypeOK
<1>2. OneFlushAtWork
  <2> SUFFICES ASSUME Undisturbed PROVE Cardinality(Working) <= 1
    BY DEF OneFlushAtWork
  <2>1. \A f, g \in Working : f = g  BY DEF BatchInv, Alone
  <2>2. CASE Working = {}  BY <2>2, FS_EmptySet
  <2>3. ASSUME NEW f \in Working PROVE Cardinality(Working) <= 1
    <3>1. Working = {f}  BY <2>1
    <3> QED  BY <3>1, FS_Singleton
  <2> QED  BY <2>2, <2>3
<1>3. OneAnswerEach
  <2>1. \A m \in Candidates : answers[m] \in 0 .. 2  BY DEF BatchInv, Shapes
  <2> QED  BY <2>1 DEF BatchInv, Alone, OneAnswerEach
<1>4. WaitingGivesWay  BY DEF BatchInv, GaveWay, WaitingGivesWay
<1> QED  BY <1>1, <1>2, <1>3, <1>4 DEF BatchSafe

\* One flush at a time works on a group, no candidate is answered twice, and
\* none is answered after it gave way to an explicit request.
THEOREM BatchIsSafe == Spec => []BatchSafe
BY BatchIsSound, InvSafe, PTL

\* What a step takes out of the batch was seen by the flush that finishes, or is
\* pushed out of a full batch.
LEMMA LeavingStep ==
    ASSUME BatchInv, [Next]_vars, Undisturbed',
           NEW m \in Msgs(batch.items) \ Msgs(batch'.items)
    PROVE  \/ \E f \in Flushes : At(f, "finish") /\ m \in flush[f].saw
           \/ Len(batch.items) = MaxItems /\ Len(batch'.items) = MaxItems
<1>1. /\ Shapes /\ Locked /\ Alone
      /\ ~CancelPassiveReplyBatch /\ ~Stop /\ ~Start
  BY StaysUndisturbed DEF BatchInv, Locked, Shapes
<1>2. batch'.items # batch.items  OBVIOUS
<1>3. ASSUME NEW n \in Candidates, EnqueuePassiveReply(n)
      PROVE  Len(batch.items) = MaxItems /\ Len(batch'.items) = MaxItems
  <2>1. inHand[n] \in Nat /\ batch' = GrownBy(batch, n, inHand[n])
    BY <1>1, <1>3, BatchConstants DEF EnqueuePassiveReply, Shapes
  <2> QED  BY <1>1, <2>1, GrownFields
<1>4. ASSUME NEW f \in Flushes, Finish(f)
      PROVE  At(f, "finish") /\ m \in flush[f].saw
  <2>1. /\ At(f, "finish") /\ batch' = Remaining(f) /\ flush[f] \in States
        /\ InStep(f)
    BY <1>1, <1>4, AloneParts DEF Finish, Shapes
  <2>2. PICK i \in 1 .. Len(batch.items) : batch.items[i].msg = m
    BY DEF Msgs
  <2>3. ~(batch.items[i].gen > flush[f].gen)
    BY <1>1, <2>1, <2>2, RemainingFields
  <2>4. batch.items[i].gen \in Nat /\ flush[f].gen \in Nat
    <3>1. batch.items[i] \in Items  BY <1>1, <2>2, ElementOfSeq DEF Locked, Batches
    <3> QED  BY <3>1, <2>1 DEF Items, States
  <2> QED  BY <2>1, <2>2, <2>3, <2>4 DEF InStep, At
<1>5. ASSUME NEW f \in Flushes, Fire(f) \/ Begin(f) PROVE FALSE
  <2>1. batch'.items = batch.items  BY <1>1, <1>5 DEF Fire, Begin, Shapes, Batches
  <2> QED  BY <1>2, <2>1
<1> QED
  BY <1>1, <1>2, <1>3, <1>4, <1>5
  DEF Next, Offer, FlushStep, Snapshot, Routed, Reply, Send, vars

\* What arrives while the router or the reply model works is not lost.
THEOREM NothingLeavesUnseen == Spec => SeenBeforeLeaving
<1>1. BatchInv /\ [Next]_vars =>
         [Undisturbed' =>
            \A m \in Msgs(batch.items) \ Msgs(batch'.items) :
               \/ \E f \in Flushes : At(f, "finish") /\ m \in flush[f].saw
               \/ Len(batch.items) = MaxItems /\ Len(batch'.items) = MaxItems]_vars
  BY LeavingStep
<1> QED  BY <1>1, BatchIsSound, PTL DEF Spec, SeenBeforeLeaving

-----------------------------------------------------------------------------
(* The backfill: the invariant. *)

\* The times at which messages were sent
Rises(s) ==
    /\ s \in Seq(Nat) /\ Len(s) > 0
    /\ \A i, j \in 1 .. Len(s) : i <= j => s[i] <= s[j]

Fetches == [pc : {"idle", "list", "page", "store", "ok", "error"}, watermark : Nat,
            cursor : Nat, first : Nat, got : SUBSET Nat, cut : BOOLEAN]

\* Goroutine f among the messages s: the pages so far have everything from the
\* cursor up to the newest message of the first page.
Paging(f, s) ==
    /\ f \in Fetches /\ f.got \subseteq 1 .. Len(s)
    /\ f.cursor <= Len(s) /\ f.first <= Len(s)
    /\ f.pc = "list" => f.cursor = 0
    /\ f.pc = "page" => f.watermark <= s[Len(s)]
    /\ f.cursor # 0 => f.got # {}
    /\ f.pc = "page" /\ f.cursor # 0 =>
          \A n \in f.cursor .. f.first : s[n] >= f.watermark => n \in f.got
    /\ f.pc = "store" /\ ~f.cut =>
          \A n \in 1 .. f.first : s[n] >= f.watermark => n \in f.got

\* A backfill that has succeeded
Filled(f, s, there) ==
    f.pc = "ok" /\ ~f.cut => \A n \in 1 .. f.first : s[n] >= f.watermark => n \in there

BackfillInv ==
    /\ Rises(sent) /\ Paging(fetch, sent) /\ Filled(fetch, sent, stored)
    /\ stored \subseteq 1 .. Len(sent) /\ stored # {}
    /\ wire \subseteq 1 .. Len(sent) /\ (wire # {} => up)

-----------------------------------------------------------------------------
(* The backfill: pages. *)

\* A bounded set of numbers has a greatest one.
LEMMA MaxIsThere ==
    ASSUME NEW b \in Nat, NEW S \in SUBSET (0 .. b), S # {}
    PROVE  Max(S) \in S /\ \A x \in S : x <= Max(S)
<1> DEFINE T == {b - x : x \in S}
           R == OpToRel(<, Nat)
<1>1. T \subseteq Nat /\ T # {}
  <2>1. \A x \in S : x \in 0 .. b /\ b - x \in Nat  OBVIOUS
  <2> QED  BY <2>1
<1>2. IsWellFoundedOn(R, Nat)  BY NatLessThanWellFounded
<1> HIDE DEF R
<1>3. PICK k \in T : \A j \in T : ~(<<j, k>> \in R)  BY <1>1, <1>2, WFMin
<1>4. \A j \in T : ~(j < k)  BY <1>1, <1>3 DEF R, OpToRel
<1>5. PICK m \in S : k = b - m  BY <1>3
<1>6. \A x \in S : m >= x
  <2> SUFFICES ASSUME NEW x \in S  PROVE m >= x
    OBVIOUS
  <2>1. b - x \in T  OBVIOUS
  <2>2. ~(b - x < b - m)  BY <1>4, <1>5, <2>1
  <2> QED  BY <2>2
<1>7. Max(S) \in S /\ \A x \in S : Max(S) >= x
  BY <1>6 DEF Max
<1> QED  BY <1>7

\* A page is an interval that ends at the cursor, or at the newest message.
LEMMA PageIsInterval ==
    ASSUME Rises(sent), NEW cursor \in Nat, cursor <= Len(sent)
    PROVE  LET last == IF cursor = 0 THEN Len(sent) ELSE cursor
               low == IF last >= PageSize THEN last - PageSize + 1 ELSE 1
           IN  /\ last \in 1 .. Len(sent) /\ low \in 1 .. last
               /\ Page(cursor) = low .. last /\ Min(Page(cursor)) = low
               /\ Cardinality(Page(cursor)) < PageSize => low = 1
               /\ low = cursor => low = 1
<1> DEFINE last == IF cursor = 0 THEN Len(sent) ELSE cursor
           low == IF last >= PageSize THEN last - PageSize + 1 ELSE 1
<1>1. PageSize \in Nat /\ PageSize > 1  BY BackfillConstants
<1>2. Len(sent) \in Nat /\ Len(sent) > 0  BY DEF Rises
<1>3. last \in 1 .. Len(sent) /\ (cursor # 0 => last = cursor)  BY <1>2
<1>4. Page(cursor) = {n \in 1 .. Len(sent) : n <= last /\ n > last - PageSize}
  BY DEF Page, Numbers
<1> HIDE DEF last
<1>5. low \in 1 .. last /\ (last >= PageSize => low = last - PageSize + 1)
      /\ (last < PageSize => low = 1)
  BY <1>1, <1>2, <1>3
<1> HIDE DEF low
<1>6. Page(cursor) = low .. last
  <2>1. \A n \in 1 .. Len(sent) : n <= last /\ n > last - PageSize <=> n \in low .. last
    BY <1>1, <1>2, <1>3, <1>5
  <2>2. \A n \in low .. last : n \in 1 .. Len(sent)  BY <1>2, <1>3, <1>5
  <2> QED  BY <1>4, <2>1, <2>2
<1>7. Min(low .. last) = low
  <2>1. low \in low .. last /\ \A y \in low .. last : low =< y  BY <1>3, <1>5
  <2>2. \A x \in low .. last : (\A y \in low .. last : x =< y) => x = low
    BY <1>3, <1>5, <2>1
  <2> QED  BY <2>1, <2>2 DEF Min
<1>8. Cardinality(low .. last) < PageSize => low = 1
  <2>1. low \in Int /\ last \in Int /\ low <= last  BY <1>3, <1>5
  <2>2. Cardinality(low .. last) = last - low + 1  BY <2>1, FS_Interval
  <2> QED  BY <1>1, <1>3, <1>5, <2>2
<1>9. low = cursor => low = 1  BY <1>1, <1>3, <1>5
<1> QED  BY <1>3, <1>5, <1>6, <1>7, <1>8, <1>9 DEF last, low

\* The page of the cursor continues what the pages before it have.
LEMMA PageContinues ==
    ASSUME BackfillInv, FetchPage
    PROVE  Paging(fetch', sent) /\ fetch'.pc # "ok"
<1> DEFINE page == Page(fetch.cursor)
           last == IF fetch.cursor = 0 THEN Len(sent) ELSE fetch.cursor
           low == IF last >= PageSize THEN last - PageSize + 1 ELSE 1
           first == IF fetch.cursor = 0 THEN Len(sent) ELSE fetch.first
           got == fetch.got \cup {n \in page : Wanted(n)}
           pc == IF LastPage(page) THEN "store" ELSE "page"
           f == [fetch EXCEPT !.pc = pc, !.cursor = Min(page), !.first = first, !.got = got]
<1>1. Rises(sent) /\ Paging(fetch, sent)  BY DEF BackfillInv
<1>2. fetch \in Fetches /\ fetch.cursor \in Nat /\ fetch.cursor <= Len(sent)
      /\ fetch.got \subseteq 1 .. Len(sent) /\ fetch.first <= Len(sent) /\ fetch.pc = "page"
      /\ fetch.watermark <= sent[Len(sent)] /\ fetch.watermark \in Nat
      /\ fetch.first \in Nat
  BY <1>1 DEF Paging, Fetches, FetchPage
<1>3. /\ last \in 1 .. Len(sent) /\ low \in 1 .. last /\ page = low .. last /\ Min(page) = low
      /\ Cardinality(page) < PageSize => low = 1
      /\ low = fetch.cursor => low = 1
  BY <1>1, <1>2, PageIsInterval
<1>4. Len(sent) \in Nat /\ Len(sent) > 0 /\ \A n \in 1 .. Len(sent) : sent[n] \in Nat
  BY <1>1 DEF Rises
<1>5. (fetch.cursor # 0 => last = fetch.cursor) /\ (fetch.cursor = 0 => last = Len(sent))
      /\ (fetch.cursor # 0 => first = fetch.first) /\ (fetch.cursor = 0 => first = Len(sent))
  OBVIOUS
<1>6. fetch' = f  BY DEF FetchPage
<1> HIDE DEF last, low, first, page
<1>7. first \in Nat /\ first <= Len(sent)  BY <1>2, <1>4, <1>5
<1>8. got \subseteq 1 .. Len(sent) /\ fetch.got \subseteq got
      /\ \A n \in page : sent[n] >= fetch.watermark => n \in got
  BY <1>2, <1>3, <1>4 DEF Wanted
<1>9. got # {}
  <2>1. CASE fetch.cursor # 0  BY <1>1, <1>8, <2>1 DEF Paging
  <2>2. CASE fetch.cursor = 0
    <3>1. Len(sent) \in page /\ sent[Len(sent)] >= fetch.watermark
      BY <1>2, <1>3, <1>4, <1>5, <2>2
    <3> QED  BY <1>8, <3>1
  <2> QED  BY <2>1, <2>2
<1>10. \A n \in low .. first : sent[n] >= fetch.watermark => n \in got
  <2> SUFFICES ASSUME NEW n \in low .. first, sent[n] >= fetch.watermark, n > last
               PROVE  n \in got
    BY <1>3, <1>7, <1>8
  <2>1. fetch.cursor # 0  BY <1>3, <1>4, <1>5
  <2>2. n \in fetch.cursor .. fetch.first  BY <1>2, <1>3, <1>5, <2>1
  <2> QED  BY <1>1, <1>2, <1>8, <2>1, <2>2 DEF Paging
<1>11. LastPage(page) => \A n \in 1 .. first : sent[n] >= fetch.watermark => n \in got
  <2> SUFFICES ASSUME LastPage(page), NEW n \in 1 .. first, sent[n] >= fetch.watermark,
                      n < low
               PROVE  FALSE
    BY <1>3, <1>7, <1>10
  <2>1. low # 1  BY <1>3, <1>7
  <2>2. PICK k \in page : ~(sent[k] >= fetch.watermark)
    BY <1>3, <2>1 DEF LastPage, Wanted
  <2>3. n <= k /\ n \in 1 .. Len(sent) /\ k \in 1 .. Len(sent)  BY <1>3, <1>4, <1>7, <2>2
  <2>4. sent[n] <= sent[k]  BY <1>1, <2>3 DEF Rises
  <2> QED  BY <1>2, <1>4, <2>2, <2>3, <2>4
<1> HIDE DEF got
<1>12. pc \in {"store", "page"} /\ (pc = "store" => LastPage(page))  OBVIOUS
<1> HIDE DEF pc
<1>13. Min(page) \in Nat /\ Min(page) # 0 /\ Min(page) <= Len(sent)  BY <1>3, <1>4
<1>14. /\ f \in Fetches /\ f.pc = pc /\ f.cursor = Min(page) /\ f.first = first /\ f.got = got
       /\ f.watermark = fetch.watermark /\ f.cut = fetch.cut
  <2>1. got \in SUBSET Nat  BY <1>4, <1>8
  <2>2. f \in Fetches  BY <1>2, <1>7, <1>12, <1>13, <2>1 DEF Fetches
  <2> QED  BY <1>2, <2>2 DEF Fetches
<1> HIDE DEF f
<1>15. Paging(f, sent)
  BY <1>2, <1>3, <1>7, <1>8, <1>9, <1>10, <1>11, <1>12, <1>13, <1>14 DEF Paging
<1> QED  BY <1>6, <1>12, <1>14, <1>15

-----------------------------------------------------------------------------
(* The backfill: each step. *)

\* What holds of the messages that were sent holds when one more is.
LEMMA MoreSent ==
    ASSUME NEW s, Rises(s), NEW x \in Nat, x >= s[Len(s)], NEW f, Paging(f, s),
           NEW there, Filled(f, s, there)
    PROVE  LET t == Append(s, x)
           IN  /\ Rises(t) /\ Len(t) = Len(s) + 1
               /\ Paging(f, t) /\ Filled(f, t, there)
<1> DEFINE t == Append(s, x)
<1>1. s \in Seq(Nat) /\ Len(s) \in Nat /\ Len(s) > 0
      /\ \A i, j \in 1 .. Len(s) : i <= j => s[i] <= s[j]
  BY DEF Rises
<1>2. /\ t \in Seq(Nat) /\ Len(t) = Len(s) + 1 /\ t[Len(s) + 1] = x
      /\ \A i \in 1 .. Len(s) : t[i] = s[i]
  BY <1>1
<1> HIDE DEF t
<1>3. \A i \in 1 .. Len(s) : s[i] \in Nat /\ s[i] <= s[Len(s)]
  BY <1>1
<1>4. Rises(t)
  <2> SUFFICES ASSUME NEW i \in 1 .. Len(t), NEW j \in 1 .. Len(t), i <= j
               PROVE  t[i] <= t[j]
    BY <1>1, <1>2 DEF Rises
  <2>1. CASE j <= Len(s)
    <3>1. i \in 1 .. Len(s) /\ j \in 1 .. Len(s)  BY <1>1, <1>2, <2>1
    <3>2. s[i] <= s[j]  BY <1>1, <3>1
    <3> QED  BY <1>2, <3>1, <3>2
  <2>2. CASE j = Len(s) + 1 /\ i <= Len(s)  BY <1>1, <1>2, <1>3, <2>2
  <2>3. CASE j = Len(s) + 1 /\ i = Len(s) + 1  BY <1>2, <2>3
  <2> QED  BY <1>1, <1>2, <2>1, <2>2, <2>3
<1>5. /\ f \in Fetches /\ f.got \subseteq 1 .. Len(s) /\ f.cursor <= Len(s)
      /\ f.first <= Len(s) /\ f.first \in Nat /\ f.cursor \in Nat /\ f.watermark \in Nat
  BY DEF Paging, Fetches
<1>6. \A n \in 1 .. f.first : t[n] = s[n]  BY <1>1, <1>2, <1>5
<1>7. f.cursor # 0 => \A n \in f.cursor .. f.first : t[n] = s[n]
  <2> SUFFICES ASSUME f.cursor # 0, NEW n \in f.cursor .. f.first  PROVE t[n] = s[n]
    OBVIOUS
  <2>1. n \in 1 .. f.first  BY <1>5
  <2> QED  BY <1>6, <2>1
<1>8. Paging(f, t)
  <2>1. f.got \subseteq 1 .. Len(t) /\ f.cursor <= Len(t) /\ f.first <= Len(t)
    BY <1>1, <1>2, <1>5
  <2>2. f.pc = "page" => f.watermark <= t[Len(t)]
    BY <1>1, <1>2, <1>3, <1>5 DEF Paging
  <2>3. f.pc = "page" /\ f.cursor # 0 =>
           \A n \in f.cursor .. f.first : t[n] >= f.watermark => n \in f.got
    BY <1>7 DEF Paging
  <2>4. f.pc = "store" /\ ~f.cut =>
           \A n \in 1 .. f.first : t[n] >= f.watermark => n \in f.got
    BY <1>6 DEF Paging
  <2> QED  BY <1>5, <2>1, <2>2, <2>3, <2>4 DEF Paging
<1>9. Filled(f, t, there)  BY <1>6 DEF Filled
<1> QED  BY <1>2, <1>4, <1>8, <1>9 DEF t

LEMMA SayKeeps == BackfillInv /\ Say => BackfillInv'
<1> SUFFICES ASSUME BackfillInv, Say  PROVE BackfillInv'
  OBVIOUS
<1>1. /\ Rises(sent) /\ Paging(fetch, sent) /\ Filled(fetch, sent, stored)
      /\ stored \subseteq 1 .. Len(sent) /\ stored # {} /\ wire \subseteq 1 .. Len(sent)
      /\ (wire # {} => up)
  BY DEF BackfillInv
<1>2. Len(sent) \in Nat /\ Len(sent) > 0 /\ sent[Len(sent)] \in Nat  BY <1>1 DEF Rises
<1>3. PICK d \in {0, 1} : sent' = Append(sent, sent[Len(sent)] + d)  BY DEF Say
<1> DEFINE x == sent[Len(sent)] + d
<1>4. x \in Nat /\ x >= sent[Len(sent)]  BY <1>2
<1>5. sent' = Append(sent, x)  BY <1>3
<1> HIDE DEF x
<1>6. /\ Rises(sent') /\ Len(sent') = Len(sent) + 1
      /\ Paging(fetch, sent') /\ Filled(fetch, sent', stored)
  BY <1>1, <1>4, <1>5, MoreSent
<1>7. /\ up' = up /\ stored' = stored /\ fetch' = fetch
      /\ wire' = IF up THEN wire \cup {Len(sent) + 1} ELSE wire
  BY DEF Say
<1>8. 1 .. Len(sent) \subseteq 1 .. Len(sent') /\ Len(sent) + 1 \in 1 .. Len(sent')
  BY <1>2, <1>6
<1>9. stored' \subseteq 1 .. Len(sent')  BY <1>1, <1>7, <1>8
<1>10. wire' \subseteq 1 .. Len(sent') /\ (wire' # {} => up')
  <2>1. CASE up  BY <1>1, <1>7, <1>8, <2>1
  <2>2. CASE ~up  BY <1>1, <1>7, <1>8, <2>2
  <2> QED  BY <2>1, <2>2
<1> QED  BY <1>1, <1>6, <1>7, <1>9, <1>10 DEF BackfillInv

\* Of some numbers one is the least.
LEMMA LeastIsThere ==
    ASSUME NEW S \in SUBSET Nat, S # {}
    PROVE  \E k \in S : \A j \in S : k =< j
<1>1. PICK k \in S : \A j \in S : ~(<<j, k>> \in OpToRel(<, Nat))
  <2> DEFINE R == OpToRel(<, Nat)
  <2>1. IsWellFoundedOn(R, Nat)  BY NatLessThanWellFounded
  <2> HIDE DEF R
  <2>2. \E k \in S : \A j \in S : ~(<<j, k>> \in R)  BY <2>1, WFMin
  <2> QED  BY <2>2 DEF R
<1>2. \A j \in S : k =< j
  <2> SUFFICES ASSUME NEW j \in S  PROVE k =< j
    OBVIOUS
  <2>1. j \in Nat /\ k \in Nat  OBVIOUS
  <2>2. j < k => <<j, k>> \in OpToRel(<, Nat)  BY <2>1 DEF OpToRel
  <2>3. ~(<<j, k>> \in OpToRel(<, Nat))  BY <1>1
  <2>4. ~(j < k)  BY <2>2, <2>3, Zenon
  <2> QED  BY <2>1, <2>4
<1> QED  BY <1>2

\* The least of some messages is one of them.
LEMMA MinIsThere ==
    ASSUME NEW S \in SUBSET Nat, S # {}
    PROVE  Min(S) \in S
  BY LeastIsThere DEF Min

LEMMA ReceiveKeeps == BackfillInv /\ Receive => BackfillInv'
<1> SUFFICES ASSUME BackfillInv, Receive  PROVE BackfillInv'
  OBVIOUS
<1>1. /\ Rises(sent) /\ Paging(fetch, sent) /\ Filled(fetch, sent, stored)
      /\ stored \subseteq 1 .. Len(sent) /\ stored # {} /\ wire \subseteq 1 .. Len(sent)
      /\ (wire # {} => up) /\ wire # {}
  BY DEF BackfillInv, Receive
<1>2. Min(wire) \in 1 .. Len(sent)
  <2>1. wire \in SUBSET Nat  BY <1>1 DEF Rises
  <2> QED  BY <1>1, <2>1, MinIsThere
<1>3. /\ sent' = sent /\ fetch' = fetch /\ up' = up
      /\ wire' = wire \ {Min(wire)} /\ stored' = stored \cup {Min(wire)}
  BY DEF Receive
<1>4. Filled(fetch, sent, stored')  BY <1>1, <1>3 DEF Filled
<1> QED  BY <1>1, <1>2, <1>3, <1>4 DEF BackfillInv

LEMMA LinkKeeps == BackfillInv /\ (Drop \/ Connect \/ Poll) => BackfillInv'
BY DEF Drop, Connect, Poll, net, BackfillInv

\* A goroutine that has not begun
LEMMA NotBegunPages ==
    ASSUME Rises(sent), NEW f \in {NoFetch, [NoFetch EXCEPT !.pc = "list"]}
    PROVE  Paging(f, sent) /\ Filled(f, sent, stored')
<1> DEFINE NotBegun(g) == /\ g \in Fetches /\ g.pc \in {"idle", "list"} /\ g.cursor = 0
                          /\ g.first = 0 /\ g.got = {}
           listing == [NoFetch EXCEPT !.pc = "list"]
<1>a. NotBegun(NoFetch)  BY DEF NoFetch, Fetches
<1>b. NotBegun(listing)
  <2>1. listing \in Fetches  BY <1>a DEF Fetches
  <2>2. /\ listing.pc = "list" /\ listing.cursor = 0 /\ listing.first = 0
        /\ listing.got = {}
    BY DEF NoFetch
  <2> QED  BY <2>1, <2>2
<1>1. NotBegun(f)
  <2> HIDE DEF NotBegun
  <2> QED  BY <1>a, <1>b
<1>2. Len(sent) \in Nat  BY DEF Rises
<1> QED  BY <1>1, <1>2 DEF Paging, Filled

\* A step of the coordinator or the goroutine changes nothing of QQ.
LEMMA FetchMoves ==
    ASSUME BackfillInv, UNCHANGED net, stored \subseteq stored',
           stored' \subseteq 1 .. Len(sent),
           Paging(fetch', sent), Filled(fetch', sent, stored')
    PROVE  BackfillInv'
BY DEF net, BackfillInv

LEMMA LaunchKeeps == BackfillInv /\ (Launch \/ Result) => BackfillInv'
<1> SUFFICES ASSUME BackfillInv, Launch \/ Result  PROVE BackfillInv'
  OBVIOUS
<1>1. UNCHANGED <<net, stored>>
      /\ (fetch' = fetch \/ fetch' \in {NoFetch, [NoFetch EXCEPT !.pc = "list"]})
  BY DEF Launch, Result
<1>2. Paging(fetch', sent) /\ Filled(fetch', sent, stored')
  BY <1>1, NotBegunPages DEF BackfillInv
<1>3. stored' \subseteq 1 .. Len(sent)  BY <1>1 DEF BackfillInv
<1> QED  BY <1>1, <1>2, <1>3, FetchMoves

LEMMA ListKeeps == BackfillInv /\ List => BackfillInv'
<1> SUFFICES ASSUME BackfillInv, List  PROVE BackfillInv'
  OBVIOUS
<1> DEFINE times == {sent[n] : n \in stored}
           f == [fetch EXCEPT !.pc = "page", !.watermark = Max(times)]
<1>1. /\ Rises(sent) /\ Paging(fetch, sent) /\ stored \subseteq 1 .. Len(sent)
      /\ stored # {} /\ fetch.pc = "list"
  BY DEF BackfillInv, List
<1>2. fetch' = f /\ UNCHANGED <<net, stored>>  BY DEF List
<1>3. Len(sent) \in Nat /\ Len(sent) > 0 /\ sent[Len(sent)] \in Nat
      /\ \A n \in 1 .. Len(sent) : sent[n] \in Nat /\ sent[n] <= sent[Len(sent)]
  BY <1>1 DEF Rises
<1>4. times \in SUBSET (0 .. sent[Len(sent)]) /\ times # {}
  <2>1. ASSUME NEW n \in stored PROVE sent[n] \in 0 .. sent[Len(sent)]
    <3>1. n \in 1 .. Len(sent)  BY <1>1
    <3>2. sent[n] \in Nat /\ sent[n] <= sent[Len(sent)]  BY <1>3, <3>1
    <3> QED  BY <1>3, <3>2
  <2>2. times \subseteq 0 .. sent[Len(sent)]  BY <2>1
  <2>3. times # {}  BY <1>1
  <2> QED  BY <2>2, <2>3
<1>5. Max(times) \in times  BY <1>3, <1>4, MaxIsThere
<1>6. Max(times) \in Nat /\ Max(times) <= sent[Len(sent)]  BY <1>3, <1>4, <1>5
<1> HIDE DEF times
<1>7. /\ f \in Fetches /\ f.pc = "page" /\ f.watermark = Max(times) /\ f.cursor = 0
      /\ f.first = fetch.first /\ f.got = fetch.got
  BY <1>1, <1>6 DEF Paging, Fetches
<1> HIDE DEF f
<1>8. Paging(f, sent) /\ Filled(f, sent, stored')
  BY <1>1, <1>6, <1>7 DEF Paging, Filled
<1> QED  BY <1>1, <1>2, <1>8, FetchMoves

LEMMA FetchPageKeeps == BackfillInv /\ FetchPage => BackfillInv'
<1> SUFFICES ASSUME BackfillInv, FetchPage  PROVE BackfillInv'
  OBVIOUS
<1>1. Paging(fetch', sent) /\ fetch'.pc # "ok"  BY PageContinues
<1>2. UNCHANGED <<net, stored>> /\ stored \subseteq 1 .. Len(sent)
  BY DEF FetchPage, BackfillInv
<1>3. Filled(fetch', sent, stored')  BY <1>1 DEF Filled
<1> QED  BY <1>1, <1>2, <1>3, FetchMoves

\* The goroutine goes on to one of its ends, with what it has.
LEMMA FetchEnds ==
    ASSUME BackfillInv, NEW pc \in {"store", "ok", "error"}, NEW cut \in BOOLEAN,
           NEW there, pc = "store" => cut,
           pc = "ok" /\ ~cut => fetch.pc = "store" /\ ~fetch.cut /\ fetch.got \subseteq there
    PROVE  LET f == [fetch EXCEPT !.pc = pc, !.cut = cut]
           IN  Paging(f, sent) /\ Filled(f, sent, there)
<1> DEFINE f == [fetch EXCEPT !.pc = pc, !.cut = cut]
<1>1. fetch \in Fetches /\ Paging(fetch, sent)  BY DEF BackfillInv, Paging
<1>2. /\ f \in Fetches /\ f.pc = pc /\ f.cut = cut /\ f.got = fetch.got
      /\ f.cursor = fetch.cursor /\ f.first = fetch.first /\ f.watermark = fetch.watermark
  BY <1>1 DEF Fetches
<1> HIDE DEF f
<1>3. Paging(f, sent)  BY <1>1, <1>2 DEF Paging
<1>4. Filled(f, sent, there)  BY <1>1, <1>2 DEF Paging, Filled
<1> QED  BY <1>3, <1>4 DEF f

LEMMA FetchFailsKeeps == BackfillInv /\ FetchFails => BackfillInv'
<1> SUFFICES ASSUME BackfillInv, FetchFails  PROVE BackfillInv'
  OBVIOUS
<1>1. UNCHANGED <<net, stored>> /\ stored \subseteq 1 .. Len(sent) /\ fetch.cut \in BOOLEAN
      /\ fetch \in Fetches
  BY DEF FetchFails, BackfillInv, Paging, Fetches
<1>2. CASE fetch' = [fetch EXCEPT !.pc = "error"]
  <2>1. fetch' = [fetch EXCEPT !.pc = "error", !.cut = fetch.cut]
    BY <1>1, <1>2 DEF Fetches
  <2>2. Paging(fetch', sent) /\ Filled(fetch', sent, stored')
    BY <1>1, <2>1, FetchEnds
  <2> QED  BY <1>1, <2>2, FetchMoves
<1>3. CASE fetch' = [fetch EXCEPT !.pc = "store", !.cut = TRUE]
  <2>1. Paging(fetch', sent) /\ Filled(fetch', sent, stored')
    BY <1>3, FetchEnds
  <2> QED  BY <1>1, <2>1, FetchMoves
<1> QED  BY <1>2, <1>3 DEF FetchFails

LEMMA StoreKeeps == BackfillInv /\ Store => BackfillInv'
<1> SUFFICES ASSUME BackfillInv, Store  PROVE BackfillInv'
  OBVIOUS
<1>1. /\ UNCHANGED net /\ stored \subseteq 1 .. Len(sent) /\ fetch.cut \in BOOLEAN
      /\ fetch \in Fetches /\ fetch.got \subseteq 1 .. Len(sent) /\ fetch.pc = "store"
  BY DEF Store, BackfillInv, Paging, Fetches
<1>2. CASE stored' = stored \cup fetch.got /\ fetch' = [fetch EXCEPT !.pc = "ok"]
  <2>1. fetch' = [fetch EXCEPT !.pc = "ok", !.cut = fetch.cut]
    BY <1>1, <1>2 DEF Fetches
  <2>2. fetch.got \subseteq stored'  BY <1>2
  <2>3. Paging(fetch', sent) /\ Filled(fetch', sent, stored')
    BY <1>1, <2>1, <2>2, FetchEnds
  <2> QED  BY <1>1, <1>2, <2>3, FetchMoves
<1>3. CASE /\ \E n \in fetch.got : stored' = stored \cup (fetch.got \ {n})
           /\ fetch' = [fetch EXCEPT !.pc = "error"]
  <2>1. fetch' = [fetch EXCEPT !.pc = "error", !.cut = fetch.cut]
    BY <1>1, <1>3 DEF Fetches
  <2>2. Paging(fetch', sent) /\ Filled(fetch', sent, stored')
    BY <1>1, <2>1, FetchEnds
  <2> QED  BY <1>1, <1>3, <2>2, FetchMoves
<1> QED  BY <1>2, <1>3 DEF Store

-----------------------------------------------------------------------------
(* The backfill: theorems. *)

LEMMA BackfillBegins == BackfillInit => BackfillInv
<1> SUFFICES ASSUME BackfillInit  PROVE BackfillInv
  OBVIOUS
<1>1. sent = <<0>> /\ stored = {1} /\ wire = {} /\ fetch = NoFetch  BY DEF BackfillInit
<1>2. Rises(sent) /\ Len(sent) = 1  BY <1>1 DEF Rises
<1>3. /\ fetch \in Fetches /\ fetch.pc = "idle" /\ fetch.cursor = 0 /\ fetch.first = 0
      /\ fetch.got = {}
  BY <1>1 DEF NoFetch, Fetches
<1>4. Paging(fetch, sent) /\ Filled(fetch, sent, stored)
  BY <1>2, <1>3 DEF Paging, Filled
<1> QED  BY <1>1, <1>2, <1>4 DEF BackfillInv

LEMMA BackfillStep == BackfillInv /\ [BackfillNext]_backfillVars => BackfillInv'
<1> SUFFICES ASSUME BackfillInv, [BackfillNext]_backfillVars  PROVE BackfillInv'
  OBVIOUS
<1>1. CASE UNCHANGED backfillVars
  BY <1>1 DEF backfillVars, net, BackfillInv
<1>2. CASE BackfillNext
  BY <1>2, SayKeeps, ReceiveKeeps, LinkKeeps, LaunchKeeps, ListKeeps, FetchPageKeeps,
     FetchFailsKeeps, StoreKeeps
  DEF BackfillNext, Fetching
<1> QED  BY <1>1, <1>2

\* The invariant of the backfill (fetchHistorySince): the pages read so far
\* have no hole between the cursor and the newest message of the first.
THEOREM BackfillIsSound == BackfillSpec => []BackfillInv
<1> QED  BY BackfillBegins, BackfillStep, PTL DEF BackfillSpec

\* What a backfill fetches has no hole, ties at the watermark included, and
\* when it reports success all of it is stored: for every length of a page and
\* of a conversation that goes on meanwhile.
THEOREM BackfillIsSafe == BackfillSpec => []BackfillSafe
<1>1. ASSUME BackfillInv  PROVE BackfillSafe
  <2>1. /\ Rises(sent) /\ Paging(fetch, sent) /\ Filled(fetch, sent, stored)
        /\ stored \subseteq 1 .. Len(sent) /\ wire \subseteq 1 .. Len(sent)
        /\ (wire # {} => up)
    BY <1>1 DEF BackfillInv
  <2>2. BackfillTypeOK
    <3>1. \A n \in Numbers \ {1} : sent[n] >= sent[n - 1]
      <4> SUFFICES ASSUME NEW n \in Numbers \ {1}  PROVE sent[n] >= sent[n - 1]
        OBVIOUS
      <4>1. n \in 1 .. Len(sent) /\ n - 1 \in 1 .. Len(sent) /\ n - 1 <= n
        BY <2>1 DEF Numbers, Rises
      <4>2. sent[n] \in Nat /\ sent[n - 1] \in Nat  BY <2>1, <4>1 DEF Rises
      <4>3. sent[n - 1] <= sent[n]  BY <2>1, <4>1 DEF Rises
      <4> QED  BY <4>2, <4>3
    <3>2. fetch.cursor \in {0} \cup Numbers
      BY <2>1 DEF Paging, Fetches, Numbers, Rises
    <3> QED  BY <2>1, <3>1, <3>2 DEF BackfillTypeOK, Paging, Fetches, Numbers
  <2>3. PagesAreComplete  BY <2>1 DEF Paging, PagesAreComplete
  <2>4. SuccessMeansStored  BY <2>1 DEF Filled, SuccessMeansStored
  <2> QED  BY <2>2, <2>3, <2>4 DEF BackfillSafe
<1> QED  BY <1>1, BackfillIsSound, PTL

-----------------------------------------------------------------------------
(* The history: the invariant. *)

Records == [id : Said, text : BOOLEAN]
Notices == [at : {"none", "new", "looked", "observed", "kept", "lost"}, text : BOOLEAN]
Words == {"none", "text", "blank"}

Remembered ==
    /\ work \in [Said -> {"away", "queued", "observed", "done"}]
    /\ memory \in Seq(Said) /\ Len(memory) <= Threshold /\ IsInjective(memory)
    /\ digest \in SUBSET Said /\ rows \in SUBSET Said

Observed ==
    /\ cache \in [Said -> Words]
    /\ order \in Seq(Said) /\ Len(order) <= CacheSize
    /\ told \in Seq(Records) /\ Len(told) <= CacheSize

\* A text that was found is in the notice until that is lost, ...
TextIsInNotice ==
    \A m \in known :
        /\ notice[m].at \in {"looked", "observed", "kept", "lost"}
        /\ notice[m].at # "lost" => notice[m].text

\* ... from which it gets into the table ...
KeptIsNotice ==
    \A m \in Said : kept[m] # "none" =>
        /\ notice[m].at = "kept"
        /\ kept[m] = IF notice[m].text THEN "text" ELSE "blank"

\* ... and into the plugin's list.
ToldIsNotice ==
    \A i \in 1 .. Len(told) :
        /\ notice[told[i].id].at \in {"observed", "kept"}
        /\ told[i].text = notice[told[i].id].text

HistoryInv ==
    /\ Remembered /\ Observed
    /\ notice \in [Said -> Notices] /\ kept \in [Said -> Words] /\ known \in SUBSET Said
    /\ TextIsInNotice /\ KeptIsNotice /\ ToldIsNotice

-----------------------------------------------------------------------------
(* The history: lists. *)

\* The last of a list are in its order, at the end of it.
LEMMA LastOfIsEnd ==
    ASSUME NEW S, NEW s \in Seq(S), NEW n \in Nat \ {0}
    PROVE  LET t == LastOf(s, n)
               k == Len(s) - Len(t)
           IN  /\ t \in Seq(S) /\ Len(t) <= n /\ Len(t) <= Len(s)
               /\ \A i \in 1 .. Len(t) : i + k \in 1 .. Len(s) /\ t[i] = s[i + k]
<1> DEFINE from == IF Len(s) > n THEN Len(s) - n + 1 ELSE 1
           t == SubSeq(s, from, Len(s))
<1>1. Len(s) \in Nat  BY LenProperties
<1>2. from \in Nat \ {0} /\ from <= Len(s) + 1 /\ Len(s) - from + 1 <= n  BY <1>1
<1> HIDE DEF from
<1>3. \A i \in from .. Len(s) : s[i] \in S  BY <1>1, <1>2, ElementOfSeq
<1>4. /\ t \in Seq(S) /\ Len(t) = IF from <= Len(s) THEN Len(s) - from + 1 ELSE 0
      /\ \A i \in 1 .. Len(s) - from + 1 : t[i] = s[from + i - 1]
  BY <1>1, <1>2, <1>3, SubSeqProperties
<1> HIDE DEF t
<1>5. Len(t) = Len(s) - from + 1  BY <1>1, <1>2, <1>4
<1>6. ASSUME NEW i \in 1 .. Len(t)
      PROVE  i + (Len(s) - Len(t)) \in 1 .. Len(s) /\ t[i] = s[i + (Len(s) - Len(t))]
  <2> DEFINE j == from + i - 1
  <2>1. i \in 1 .. Len(s) - from + 1  BY <1>5
  <2>2. j = i + (Len(s) - Len(t)) /\ j \in 1 .. Len(s)  BY <1>1, <1>2, <1>5, <2>1
  <2>3. t[i] = s[j]  BY <1>4, <2>1
  <2> QED  BY <2>2, <2>3
<1>7. LastOf(s, n) = t  BY DEF LastOf, t, from
<1>8. t \in Seq(S) /\ Len(t) <= n /\ Len(t) <= Len(s)
  BY <1>1, <1>2, <1>4, <1>5
<1> QED  BY <1>6, <1>7, <1>8

\* They are as many as there are, up to the limit.
LEMMA LengthOfLastOf ==
    ASSUME NEW S, NEW s \in Seq(S), NEW n \in Nat \ {0}
    PROVE  Len(LastOf(s, n)) = IF Len(s) > n THEN n ELSE Len(s)
<1> DEFINE from == IF Len(s) > n THEN Len(s) - n + 1 ELSE 1
<1>1. Len(s) \in Nat  BY LenProperties
<1>2. from \in Nat \ {0} /\ from <= Len(s) + 1
      /\ Len(s) - from + 1 = IF Len(s) > n THEN n ELSE Len(s)
  BY <1>1
<1>3. LastOf(s, n) = SubSeq(s, from, Len(s))  BY DEF LastOf
<1> HIDE DEF from
<1>4. \A i \in from .. Len(s) : s[i] \in S  BY <1>1, <1>2, ElementOfSeq
<1>5. Len(SubSeq(s, from, Len(s))) = IF from <= Len(s) THEN Len(s) - from + 1 ELSE 0
  BY <1>1, <1>2, <1>4, SubSeqProperties
<1> QED  BY <1>1, <1>2, <1>3, <1>5

\* A list without repetition stays so when its beginning is left out.
LEMMA LastOfInjective ==
    ASSUME NEW S, NEW s \in Seq(S), NEW n \in Nat \ {0}, IsInjective(s)
    PROVE  IsInjective(LastOf(s, n))
<1> DEFINE t == LastOf(s, n)
           k == Len(s) - Len(t)
<1>1. /\ t \in Seq(S)
      /\ \A i \in 1 .. Len(t) : i + k \in 1 .. Len(s) /\ t[i] = s[i + k]
  BY LastOfIsEnd
<1>2. Len(s) \in Nat /\ Len(t) \in Nat /\ DOMAIN s = 1 .. Len(s) /\ DOMAIN t = 1 .. Len(t)
  BY <1>1, LenProperties
<1>3. k \in Int  BY <1>2
<1> HIDE DEF t, k
<1> SUFFICES ASSUME NEW i \in 1 .. Len(t), NEW j \in 1 .. Len(t), t[i] = t[j]
             PROVE  i = j
  BY <1>2 DEF IsInjective, t
<1>4. s[i + k] = s[j + k] /\ i + k \in 1 .. Len(s) /\ j + k \in 1 .. Len(s)  BY <1>1
<1>5. i + k = j + k  BY <1>2, <1>4 DEF IsInjective
<1> QED  BY <1>2, <1>3, <1>5

\* What is removed from a list without repetition is not there any more.
LEMMA RemoveFirstLeaves ==
    ASSUME NEW S, NEW s \in Seq(S), NEW e, IsInjective(s)
    PROVE  /\ RemoveFirst(s, e) \in Seq(S) /\ IsInjective(RemoveFirst(s, e))
           /\ \A i \in 1 .. Len(RemoveFirst(s, e)) : RemoveFirst(s, e)[i] # e
<1>1. Len(s) \in Nat /\ DOMAIN s = 1 .. Len(s)  BY LenProperties
<1>2. CASE ~ \E i \in 1 .. Len(s) : s[i] = e
  <2>1. RemoveFirst(s, e) = s  BY <1>2 DEF RemoveFirst
  <2> QED  BY <1>2, <2>1
<1>3. CASE \E i \in 1 .. Len(s) : s[i] = e
  <2> DEFINE there == {i \in 1 .. Len(s) : s[i] = e}
             at == Min(there)
             a == SubSeq(s, 1, at - 1)
             b == SubSeq(s, at + 1, Len(s))
             t == a \o b
  <2>1. there \in SUBSET Nat /\ there # {}  BY <1>1, <1>3
  <2>2. at \in there  BY <2>1, MinIsThere
  <2>3. at \in 1 .. Len(s) /\ s[at] = e  BY <2>2
  <2>4. RemoveFirst(s, e) = t
    BY <1>3, <2>1 DEF RemoveFirst, RemoveAt, SelectInSeq
  <2> HIDE DEF there, at
  <2>5. /\ a \in Seq(S) /\ Len(a) = at - 1 /\ \A i \in 1 .. at - 1 : a[i] = s[i]
    <3>1. \A i \in 1 .. at - 1 : s[i] \in S  BY <1>1, <2>3, ElementOfSeq
    <3>2. 1 \in Int /\ at - 1 \in Int  BY <2>3
    <3>3. /\ a \in Seq(S) /\ Len(a) = IF 1 <= at - 1 THEN (at - 1) - 1 + 1 ELSE 0
          /\ \A i \in 1 .. (at - 1) - 1 + 1 : a[i] = s[1 + i - 1]
      BY <3>1, <3>2, SubSeqProperties
    <3> HIDE DEF a
    <3> QED  BY <1>1, <2>3, <3>3
  <2>6. /\ b \in Seq(S) /\ Len(b) = Len(s) - at
        /\ \A i \in 1 .. Len(s) - at : b[i] = s[at + i]
    <3>1. \A i \in at + 1 .. Len(s) : s[i] \in S  BY <1>1, <2>3, ElementOfSeq
    <3>2. at + 1 \in Int /\ Len(s) \in Int  BY <1>1, <2>3
    <3>3. /\ b \in Seq(S)
          /\ Len(b) = IF at + 1 <= Len(s) THEN Len(s) - (at + 1) + 1 ELSE 0
          /\ \A i \in 1 .. Len(s) - (at + 1) + 1 : b[i] = s[(at + 1) + i - 1]
      BY <3>1, <3>2, SubSeqProperties
    <3> HIDE DEF b
    <3>4. Len(b) = Len(s) - at
      <4>1. at = Len(s) \/ at + 1 <= Len(s)
        <5>1. at \in Int /\ at <= Len(s)  BY <1>1, <2>3
        <5>2. Len(s) \in Int  BY <1>1
        <5> QED  BY <5>1, <5>2
      <4>2. CASE at = Len(s)  BY <1>1, <3>3, <4>2
      <4>3. CASE at + 1 <= Len(s)  BY <1>1, <2>3, <3>3, <4>3
      <4> QED  BY <4>1, <4>2, <4>3
    <3>5. ASSUME NEW i \in 1 .. Len(s) - at  PROVE b[i] = s[at + i]
      <4>1. i \in 1 .. Len(s) - (at + 1) + 1 /\ (at + 1) + i - 1 = at + i
        BY <1>1, <2>3
      <4> QED  BY <3>3, <4>1
    <3> QED  BY <3>3, <3>4, <3>5
  <2> HIDE DEF a, b
  <2>7. /\ t \in Seq(S) /\ Len(t) = Len(s) - 1
        /\ \A i \in 1 .. Len(t) : t[i] = IF i <= at - 1 THEN a[i] ELSE b[i - (at - 1)]
    <3>1. /\ t \in Seq(S) /\ Len(t) = Len(a) + Len(b)
          /\ \A i \in 1 .. Len(a) + Len(b) :
                t[i] = IF i <= Len(a) THEN a[i] ELSE b[i - Len(a)]
      BY <2>5, <2>6, ConcatProperties
    <3> HIDE DEF t
    <3>2. Len(t) = Len(s) - 1  BY <1>1, <2>3, <2>5, <2>6, <3>1
    <3> QED  BY <2>5, <3>1, <3>2
  <2> HIDE DEF t
  <2> DEFINE was(i) == IF i < at THEN i ELSE i + 1
  <2>8. ASSUME NEW i \in 1 .. Len(t)
        PROVE  was(i) \in 1 .. Len(s) /\ was(i) # at /\ t[i] = s[was(i)]
    <3>1. CASE i < at
      <4>1. i \in 1 .. at - 1 /\ i <= at - 1  BY <1>1, <2>3, <2>7, <3>1
      <4> QED  BY <1>1, <2>3, <2>5, <2>7, <3>1, <4>1
    <3>2. CASE ~(i < at)
      <4>1. /\ ~(i <= at - 1) /\ i - (at - 1) \in 1 .. Len(s) - at
            /\ at + (i - (at - 1)) = i + 1
        BY <1>1, <2>3, <2>7, <3>2
      <4>2. t[i] = s[i + 1]  BY <2>6, <2>7, <4>1
      <4> QED  BY <1>1, <2>3, <2>7, <3>2, <4>2
    <3> QED  BY <3>1, <3>2
  <2>9. IsInjective(t)
    <3> SUFFICES ASSUME NEW i \in 1 .. Len(t), NEW j \in 1 .. Len(t), t[i] = t[j]
                 PROVE  i = j
      BY <2>7, LenProperties DEF IsInjective
    <3>1. was(i) = was(j)
      <4> HIDE DEF was
      <4> QED  BY <1>1, <2>8 DEF IsInjective
    <3>2. i \in Int /\ j \in Int /\ at \in Int  BY <2>3
    <3> QED  BY <3>1, <3>2
  <2>10. ASSUME NEW i \in 1 .. Len(t)  PROVE t[i] # e
    <3> HIDE DEF was
    <3> QED  BY <1>1, <2>3, <2>8 DEF IsInjective
  <2> QED  BY <2>4, <2>7, <2>9, <2>10
<1> QED  BY <1>2, <1>3

-----------------------------------------------------------------------------
(* The history: each step. *)

LEMMA HistoryBegins == HistoryInit => HistoryInv
<1> SUFFICES ASSUME HistoryInit  PROVE HistoryInv
  OBVIOUS
<1>1. NoNotice \in Notices  BY DEF NoNotice, Notices
<1>2. Remembered
  BY HistoryConstants DEF HistoryInit, Remembered, IsInjective
<1>3. Observed  BY HistoryConstants DEF HistoryInit, Observed, Words
<1>4. notice \in [Said -> Notices] /\ kept \in [Said -> Words] /\ known \in SUBSET Said
  BY <1>1 DEF HistoryInit, Words
<1>5. TextIsInNotice /\ KeptIsNotice /\ ToldIsNotice
  BY DEF HistoryInit, TextIsInNotice, KeptIsNotice, ToldIsNotice
<1> QED  BY <1>2, <1>3, <1>4, <1>5 DEF HistoryInv

\* A message that is remembered is in memory once, at the end.
LEMMA RememberKeeps ==
    ASSUME HistoryInv, NEW m \in Said, Remember(m)
    PROVE  HistoryInv'
<1> DEFINE all == Append(RemoveFirst(memory, m), m)
           rest == RemoveFirst(memory, m)
           old == SubSeq(all, 1, Len(all) - Window)
<1>1. Window \in Nat \ {0} /\ Threshold \in Nat /\ Window <= Threshold
  BY HistoryConstants
<1>2. /\ Remembered /\ memory \in Seq(Said) /\ IsInjective(memory)
  BY DEF HistoryInv, Remembered
<1>3. /\ rest \in Seq(Said) /\ IsInjective(rest)
      /\ \A i \in 1 .. Len(rest) : rest[i] # m
  BY <1>2, RemoveFirstLeaves
<1> HIDE DEF rest
<1>4. all \in Seq(Said) /\ IsInjective(all)
  <2>1. all = Append(rest, m)  BY DEF rest
  <2> HIDE DEF all
  <2>2. /\ all \in Seq(Said) /\ Len(all) = Len(rest) + 1 /\ all[Len(rest) + 1] = m
        /\ \A i \in 1 .. Len(rest) : all[i] = rest[i]
    BY <1>3, <2>1, AppendProperties
  <2>3. Len(rest) \in Nat /\ DOMAIN rest = 1 .. Len(rest) /\ DOMAIN all = 1 .. Len(all)
    BY <1>3, <2>2, LenProperties
  <2> SUFFICES ASSUME NEW i \in 1 .. Len(all), NEW j \in 1 .. Len(all), all[i] = all[j]
               PROVE  i = j
    BY <2>2, <2>3 DEF IsInjective
  <2>4. ASSUME NEW k \in 1 .. Len(all)  PROVE k = Len(rest) + 1 \/ k \in 1 .. Len(rest)
    BY <2>2, <2>3
  <2>5. CASE i \in 1 .. Len(rest) /\ j \in 1 .. Len(rest)
    BY <1>3, <2>2, <2>3, <2>5 DEF IsInjective
  <2>6. CASE i = Len(rest) + 1 /\ j \in 1 .. Len(rest)  BY <1>3, <2>2, <2>6
  <2>7. CASE j = Len(rest) + 1 /\ i \in 1 .. Len(rest)  BY <1>3, <2>2, <2>7
  <2>8. CASE i = Len(rest) + 1 /\ j = Len(rest) + 1  BY <2>8
  <2> QED  BY <2>4, <2>5, <2>6, <2>7, <2>8
<1>5. memory' \in Seq(Said) /\ Len(memory') <= Threshold /\ IsInjective(memory')
  <2>1. CASE Len(all) > Threshold
    <3>1. memory' = LastOf(all, Window)  BY <2>1 DEF Remember
    <3> HIDE DEF all
    <3>2. memory' \in Seq(Said) /\ Len(memory') <= Window /\ IsInjective(memory')
      BY <1>1, <1>4, <3>1, LastOfIsEnd, LastOfInjective
    <3>3. Len(memory') \in Nat  BY <3>2, LenProperties
    <3> QED  BY <1>1, <3>2, <3>3
  <2>2. CASE ~(Len(all) > Threshold)
    <3>1. memory' = all  BY <2>2 DEF Remember
    <3> HIDE DEF all
    <3>2. Len(all) \in Nat  BY <1>4, LenProperties
    <3> QED  BY <1>1, <1>4, <2>2, <3>1, <3>2
  <2> QED  BY <2>1, <2>2
<1>6. digest' \in SUBSET Said
  <2>1. ToSet(old) \subseteq Said
    <3> HIDE DEF all
    <3>1. \A i \in 1 .. Len(all) - Window : all[i] \in Said
      <4>1. Len(all) \in Nat  BY <1>4, LenProperties
      <4>2. \A i \in 1 .. Len(all) - Window : i \in 1 .. Len(all)  BY <1>1, <4>1
      <4> QED  BY <1>4, <4>2, ElementOfSeq
    <3>2. 1 \in Int /\ Len(all) - Window \in Int  BY <1>1, <1>4, LenProperties
    <3>3. old \in Seq(Said)  BY <3>1, <3>2, SubSeqProperties
    <3> HIDE DEF old
    <3> QED  BY <3>3 DEF ToSet
  <2>2. digest' = digest \cup ToSet(old) \/ digest' = digest  BY DEF Remember
  <2> QED  BY <1>2, <2>1, <2>2 DEF Remembered
<1>7. rows' \in SUBSET Said  BY <1>2 DEF Remember, Remembered
<1>8. Remembered'
  BY <1>2, <1>5, <1>6, <1>7 DEF Remember, Remembered
<1> QED
  BY <1>8 DEF Remember, pluginVars, recallVars, HistoryInv, Observed, TextIsInNotice,
     KeptIsNotice, ToldIsNotice

LEMMA MessageKeeps ==
    ASSUME HistoryInv, NEW m \in Said, Arrive(m) \/ ObserveMessage(m)
    PROVE  HistoryInv'
<1>1. work' \in [Said -> {"away", "queued", "observed", "done"}]
  BY DEF Arrive, ObserveMessage, HistoryInv, Remembered
<1>2. UNCHANGED <<memory, digest, rows, told, recallVars>>
  BY DEF Arrive, ObserveMessage, pluginVars
<1>3. cache' \in [Said -> Words] /\ order' \in Seq(Said) /\ Len(order') <= CacheSize
  <2>1. CASE Arrive(m)  BY <2>1 DEF Arrive, pluginVars, HistoryInv, Observed
  <2>2. CASE ObserveMessage(m)
    <3> DEFINE ids == Append(order, m)
    <3>1. ids \in Seq(Said) /\ CacheSize \in Nat \ {0}
      BY HistoryConstants, AppendProperties DEF HistoryInv, Observed
    <3>2. order' = LastOf(ids, CacheSize)  BY <2>2 DEF ObserveMessage
    <3> HIDE DEF ids
    <3>3. order' \in Seq(Said) /\ Len(order') <= CacheSize  BY <3>1, <3>2, LastOfIsEnd
    <3>4. cache' \in [Said -> Words]
      BY <2>2 DEF ObserveMessage, HistoryInv, Observed, Words
    <3> QED  BY <3>3, <3>4
  <2> QED  BY <2>1, <2>2
<1> QED
  BY <1>1, <1>2, <1>3 DEF recallVars, HistoryInv, Remembered, Observed, TextIsInNotice,
     KeptIsNotice, ToldIsNotice

LEMMA RecalledKeeps ==
    ASSUME HistoryInv, NEW m \in Said, Recalled(m) \/ LookUp(m)
    PROVE  HistoryInv'
<1>1. /\ notice \in [Said -> Notices] /\ kept \in [Said -> Words] /\ known \in SUBSET Said
      /\ TextIsInNotice /\ KeptIsNotice /\ ToldIsNotice
      /\ Observed /\ Remembered
  BY DEF HistoryInv
<1>2. UNCHANGED <<work, memory, digest, pluginVars, kept>>
  BY DEF Recalled, LookUp, messageVars
<1>3. rows' \in SUBSET Said  BY <1>1 DEF Recalled, LookUp, Found, messageVars, Remembered
<1>4. PICK n \in Notices :
         /\ notice' = [notice EXCEPT ![m] = n]
         /\ notice[m].at \in {"none", "new"} /\ n.at \in {"new", "looked"}
         /\ \/ known' = known
            \/ known' = known \cup {m} /\ n.at = "looked" /\ n.text
  <2>1. CASE Recalled(m)
    <3> DEFINE n == [notice[m] EXCEPT !.at = "new"]
    <3>1. n \in Notices /\ n.at = "new"  BY <1>1 DEF Notices
    <3>2. notice' = [notice EXCEPT ![m] = n] /\ notice[m].at = "none" /\ known' = known
      BY <1>1, <2>1 DEF Recalled
    <3> QED  BY <3>1, <3>2
  <2>2. CASE LookUp(m) /\ Found(m)
    <3> DEFINE n == [at |-> "looked", text |-> TRUE]
    <3>1. n \in Notices  BY DEF Notices
    <3>2. notice' = [notice EXCEPT ![m] = n] /\ notice[m].at = "new"
          /\ known' = known \cup {m}
      BY <2>2 DEF LookUp, Found
    <3> QED  BY <3>1, <3>2
  <2>3. CASE LookUp(m) /\ ~Found(m)
    <3> DEFINE n == [notice[m] EXCEPT !.at = "looked"]
    <3>1. n \in Notices /\ n.at = "looked"  BY <1>1 DEF Notices
    <3>2. notice' = [notice EXCEPT ![m] = n] /\ notice[m].at = "new" /\ known' = known
      BY <1>1, <2>3 DEF LookUp
    <3> QED  BY <3>1, <3>2
  <2> QED  BY <2>1, <2>2, <2>3
<1>5. notice' \in [Said -> Notices] /\ known' \in SUBSET Said  BY <1>1, <1>4
<1>6. TextIsInNotice'  BY <1>1, <1>4 DEF TextIsInNotice
<1>7. KeptIsNotice'  BY <1>1, <1>2, <1>4 DEF KeptIsNotice
<1>8. ToldIsNotice'
  <2>1. told' = told  BY <1>2 DEF pluginVars
  <2>2. \A i \in 1 .. Len(told) : told[i].id # m /\ told[i].id \in Said
    <3>1. \A i \in 1 .. Len(told) : told[i] \in Records  BY <1>1, ElementOfSeq DEF Observed
    <3> QED  BY <1>1, <1>4, <3>1 DEF ToldIsNotice, Records
  <2> QED  BY <1>1, <1>4, <2>1, <2>2 DEF ToldIsNotice
<1>9. Remembered' /\ Observed'
  BY <1>1, <1>2, <1>3 DEF pluginVars, Remembered, Observed
<1> QED  BY <1>1, <1>2, <1>5, <1>6, <1>7, <1>8, <1>9 DEF HistoryInv

LEMMA ObserveNoticeKeeps ==
    ASSUME HistoryInv, NEW m \in Said, ObserveNotice(m)
    PROVE  HistoryInv'
<1> DEFINE text == notice[m].text \/ cache[m] = "text"
           n == [at |-> "observed", text |-> text]
           r == [id |-> m, text |-> text]
           all == Append(told, r)
<1>1. /\ notice \in [Said -> Notices] /\ kept \in [Said -> Words] /\ known \in SUBSET Said
      /\ TextIsInNotice /\ KeptIsNotice /\ ToldIsNotice /\ Observed /\ Remembered
      /\ notice[m].at = "looked"
  BY DEF HistoryInv, ObserveNotice
<1>2. text \in BOOLEAN  BY <1>1 DEF Notices
<1>3. /\ notice' = [notice EXCEPT ![m] = n]
      /\ known' = IF text THEN known \cup {m} ELSE known
      /\ cache' = [cache EXCEPT ![m] = IF text THEN "text" ELSE "blank"]
      /\ told' = LastOf(all, CacheSize)
      /\ UNCHANGED <<messageVars, order, kept>>
  BY DEF ObserveNotice
<1>4. m \in known => text  BY <1>1 DEF TextIsInNotice
<1> HIDE DEF text
<1>5. n \in Notices /\ r \in Records  BY <1>2 DEF Notices, Records
<1>6. notice' \in [Said -> Notices] /\ known' \in SUBSET Said /\ cache' \in [Said -> Words]
  BY <1>1, <1>2, <1>3, <1>5 DEF Observed, Words
<1>7. /\ notice'[m].at = "observed" /\ notice'[m].text = text
      /\ \A k \in Said \ {m} : notice'[k] = notice[k]
  BY <1>1, <1>3
<1>8. TextIsInNotice'  BY <1>1, <1>2, <1>3, <1>4, <1>7 DEF TextIsInNotice
<1>9. KeptIsNotice'  BY <1>1, <1>3, <1>7 DEF KeptIsNotice
<1>10. told \in Seq(Records) /\ CacheSize \in Nat \ {0}
  BY <1>1, HistoryConstants DEF Observed
<1>11. /\ all \in Seq(Records) /\ Len(all) = Len(told) + 1 /\ all[Len(told) + 1] = r
       /\ \A i \in 1 .. Len(told) : all[i] = told[i]
  BY <1>5, <1>10, AppendProperties
<1> HIDE DEF all
<1>12. \A i \in 1 .. Len(all) : /\ notice'[all[i].id].at \in {"observed", "kept"}
                                /\ all[i].text = notice'[all[i].id].text
  <2> SUFFICES ASSUME NEW i \in 1 .. Len(all)
               PROVE  /\ notice'[all[i].id].at \in {"observed", "kept"}
                      /\ all[i].text = notice'[all[i].id].text
    OBVIOUS
  <2>1. Len(told) \in Nat  BY <1>10, LenProperties
  <2>2. CASE i = Len(told) + 1
    <3>1. all[i].id = m /\ all[i].text = text  BY <1>11, <2>2
    <3> QED  BY <1>7, <3>1
  <2>3. CASE i \in 1 .. Len(told)
    <3>1. all[i] = told[i] /\ told[i] \in Records  BY <1>10, <1>11, <2>3, ElementOfSeq
    <3>2. /\ notice[told[i].id].at \in {"observed", "kept"}
          /\ told[i].text = notice[told[i].id].text
      BY <1>1, <2>3 DEF ToldIsNotice
    <3>3. told[i].id \in Said \ {m}  BY <1>1, <3>1, <3>2 DEF Records
    <3> QED  BY <1>7, <3>1, <3>2, <3>3
  <2> QED  BY <1>11, <2>1, <2>2, <2>3
<1>13. /\ told' \in Seq(Records) /\ Len(told') <= CacheSize
       /\ \A i \in 1 .. Len(told') : \E j \in 1 .. Len(all) : told'[i] = all[j]
  <2> DEFINE t == LastOf(all, CacheSize)
             k == Len(all) - Len(t)
  <2>1. /\ t \in Seq(Records) /\ Len(t) <= CacheSize
        /\ \A i \in 1 .. Len(t) : i + k \in 1 .. Len(all) /\ t[i] = all[i + k]
    BY <1>10, <1>11, LastOfIsEnd
  <2>2. told' = t  BY <1>3
  <2> HIDE DEF t, k
  <2> QED  BY <2>1, <2>2
<1>14. ToldIsNotice'  BY <1>12, <1>13 DEF ToldIsNotice
<1>15. Observed'  BY <1>1, <1>3, <1>6, <1>13 DEF Observed
<1>16. Remembered'  BY <1>1, <1>3 DEF messageVars, Remembered
<1> QED  BY <1>1, <1>3, <1>6, <1>8, <1>9, <1>14, <1>15, <1>16 DEF HistoryInv

LEMMA KeepNoticeKeeps ==
    ASSUME HistoryInv, NEW m \in Said, KeepNotice(m)
    PROVE  HistoryInv'
<1> DEFINE n == [notice[m] EXCEPT !.at = "kept"]
           word == IF notice[m].text THEN "text" ELSE "blank"
<1>1. /\ notice \in [Said -> Notices] /\ kept \in [Said -> Words] /\ known \in SUBSET Said
      /\ TextIsInNotice /\ KeptIsNotice /\ ToldIsNotice /\ Observed /\ Remembered
      /\ notice[m].at = "observed"
  BY DEF HistoryInv, KeepNotice
<1>2. notice' = [notice EXCEPT ![m] = n]  BY <1>1 DEF KeepNotice
<1>3. n \in Notices /\ n.at = "kept" /\ n.text = notice[m].text  BY <1>1 DEF Notices
<1> HIDE DEF n
<1>4. kept' = [kept EXCEPT ![m] = word] \/ kept' = kept  BY DEF KeepNotice
<1>5. UNCHANGED <<messageVars, pluginVars, known>>  BY DEF KeepNotice
<1>6. /\ notice' \in [Said -> Notices] /\ notice'[m] = n
      /\ \A k \in Said \ {m} : notice'[k] = notice[k]
  BY <1>1, <1>2, <1>3
<1>7. word \in Words  BY DEF Words
<1>8. TextIsInNotice'  BY <1>1, <1>3, <1>5, <1>6 DEF TextIsInNotice
<1>9. KeptIsNotice' /\ kept' \in [Said -> Words]
  <2>1. kept[m] = "none"  BY <1>1 DEF KeptIsNotice, Words
  <2>2. CASE kept' = kept  BY <1>1, <1>6, <2>1, <2>2 DEF KeptIsNotice
  <2>3. CASE kept' = [kept EXCEPT ![m] = word]
    BY <1>1, <1>3, <1>6, <1>7, <2>3 DEF KeptIsNotice
  <2> QED  BY <1>4, <2>2, <2>3
<1>10. ToldIsNotice'
  <2>1. \A i \in 1 .. Len(told) : told[i].id \in Said
    <3>1. \A i \in 1 .. Len(told) : told[i] \in Records  BY <1>1, ElementOfSeq DEF Observed
    <3> QED  BY <3>1 DEF Records
  <2>2. told' = told  BY <1>5 DEF pluginVars
  <2> QED  BY <1>1, <1>3, <1>6, <2>1, <2>2 DEF ToldIsNotice
<1>11. Remembered' /\ Observed'
  BY <1>1, <1>5 DEF messageVars, pluginVars, Remembered, Observed
<1> QED  BY <1>1, <1>5, <1>6, <1>8, <1>9, <1>10, <1>11 DEF HistoryInv

LEMMA ReloadKeeps == HistoryInv /\ Reload => HistoryInv'
<1> SUFFICES ASSUME HistoryInv, Reload  PROVE HistoryInv'
  OBVIOUS
<1> DEFINE n(m) == IF notice[m].at = "kept" THEN notice[m]
                   ELSE [NoNotice EXCEPT !.at =
                           IF notice[m].at = "none" THEN "none" ELSE "lost"]
<1>1. /\ notice \in [Said -> Notices] /\ TextIsInNotice /\ KeptIsNotice /\ Remembered
      /\ kept \in [Said -> Words] /\ known \in SUBSET Said
  BY DEF HistoryInv
<1>2. /\ memory' = <<>> /\ order' = <<>> /\ told' = <<>>
      /\ cache' = [m \in Said |-> "none"]
      /\ work' = [m \in Said |-> IF work[m] = "observed" THEN "queued" ELSE work[m]]
      /\ notice' = [m \in Said |-> n(m)]
      /\ UNCHANGED <<digest, rows, kept, known>>
  BY DEF Reload
<1>3. \A m \in Said : /\ n(m) \in Notices
                      /\ notice[m].at = "kept" => n(m) = notice[m]
                      /\ notice[m].at = "none" => n(m).at = "none"
                      /\ notice[m].at \notin {"kept", "none"} => n(m).at = "lost"
  BY <1>1 DEF NoNotice, Notices
<1> HIDE DEF n
<1>4. notice' \in [Said -> Notices]  BY <1>2, <1>3
<1>5. \A m \in Said : notice'[m] = n(m)  BY <1>2
<1>6. TextIsInNotice'  BY <1>1, <1>2, <1>3, <1>5 DEF TextIsInNotice
<1>7. KeptIsNotice'  BY <1>1, <1>2, <1>3, <1>5 DEF KeptIsNotice
<1>8. ToldIsNotice'  BY <1>2 DEF ToldIsNotice
<1>9. Remembered'
  BY <1>1, <1>2, HistoryConstants DEF Remembered, IsInjective
<1>10. Observed'  BY <1>2, HistoryConstants DEF Observed, Words
<1> QED  BY <1>1, <1>2, <1>4, <1>6, <1>7, <1>8, <1>9, <1>10 DEF HistoryInv

LEMMA HistoryStep == HistoryInv /\ [HistoryNext]_historyVars => HistoryInv'
<1> SUFFICES ASSUME HistoryInv, [HistoryNext]_historyVars  PROVE HistoryInv'
  OBVIOUS
<1>1. Regretted \subseteq Said  BY HistoryConstants DEF Said
<1>2. CASE UNCHANGED historyVars
  BY <1>2 DEF historyVars, messageVars, pluginVars, recallVars, HistoryInv, Remembered,
     Observed, TextIsInNotice, KeptIsNotice, ToldIsNotice
<1>3. CASE HistoryNext
  BY <1>1, <1>3, RememberKeeps, MessageKeeps, RecalledKeeps, ObserveNoticeKeeps,
     KeepNoticeKeeps, ReloadKeeps
  DEF HistoryNext
<1> QED  BY <1>2, <1>3

-----------------------------------------------------------------------------
(* The history: theorems. *)

\* The invariant of the history: a text that was found is in the notice until
\* that is lost, and table and plugin have it from there.
THEOREM HistoryIsSound == HistorySpec => []HistoryInv
<1> QED  BY HistoryBegins, HistoryStep, PTL DEF HistorySpec

\* Whoever asks what was recalled is told the text if it was to be had when
\* the notice came, and no list repeats a message or outgrows its limit: for
\* any number of messages, sizes of the lists, failures and restarts.
THEOREM HistoryIsSafe == HistorySpec => []HistorySafe
<1>1. ASSUME HistoryInv  PROVE HistorySafe
  <2>1. /\ Remembered /\ Observed /\ TextIsInNotice /\ KeptIsNotice /\ ToldIsNotice
        /\ kept \in [Said -> Words] /\ known \in SUBSET Said
    BY <1>1 DEF HistoryInv
  <2>2. HistoryTypeOK  BY <2>1 DEF Remembered, Observed, Words, HistoryTypeOK
  <2>3. RecalledTextIsTold
    <3> SUFFICES ASSUME NEW m \in known, kept[m] # "none"  PROVE Reported(m) = "text"
      BY DEF RecalledTextIsTold
    <3> DEFINE own == {i \in 1 .. Len(told) : told[i].id = m}
    <3>1. notice[m].text /\ kept[m] = "text"
      BY <2>1 DEF TextIsInNotice, KeptIsNotice
    <3>2. CASE own = {}
      BY <3>1, <3>2 DEF Reported, SelectLastInSeq
    <3>3. CASE own # {}
      <4>1. Len(told) \in Nat  BY <2>1, LenProperties DEF Observed
      <4>2. own \in SUBSET (0 .. Len(told))  BY <4>1
      <4>3. Max(own) \in own  BY <3>3, <4>1, <4>2, MaxIsThere
      <4>4. Max(own) # 0 /\ told[Max(own)].text
        BY <2>1, <3>1, <4>3 DEF ToldIsNotice
      <4>5. Reported(m) = IF Max(own) = 0 THEN kept[m]
                          ELSE IF told[Max(own)].text THEN "text" ELSE "blank"
        BY <3>3 DEF Reported, SelectLastInSeq
      <4> QED  BY <4>4, <4>5
    <3> QED  BY <3>2, <3>3
  <2> QED  BY <2>2, <2>3 DEF HistorySafe
<1> QED  BY <1>1, HistoryIsSound, PTL

-----------------------------------------------------------------------------
(* The history: what a reply is given of it. *)

\* What holds of 0 and of each successor holds of every number.
LEMMA Counting ==
    ASSUME NEW T, 0 \in T, \A n \in T \cap Nat : n + 1 \in T
    PROVE  Nat \subseteq T
<1> SUFFICES ASSUME Nat \ T # {}  PROVE FALSE
  OBVIOUS
<1>1. PICK x \in Nat \ T : \A y \in Nat \ T : x =< y  BY LeastIsThere
<1>2. x # 0 /\ x - 1 \in Nat /\ ~(x =< x - 1) /\ x - 1 + 1 = x  OBVIOUS
<1>3. x - 1 \in T  BY <1>1, <1>2
<1> QED  BY <1>1, <1>2, <1>3

\* left is what Omitting has left of each beginning of s, up to the n-th.
OneLess(had, s, gone, i) == IF s[i] \in gone THEN had ELSE Append(had, s[i])
Leaving(left, s, gone, n) ==
    left = [i \in 0 .. n |-> IF i = 0 THEN <<>> ELSE OneLess(left[i - 1], s, gone, i)]

\* One more element can be looked at.
LEMMA LeavingExtends ==
    ASSUME NEW s, NEW gone, NEW n \in Nat, NEW left, Leaving(left, s, gone, n)
    PROVE  \E e : Leaving(e, s, gone, n + 1)
<1> DEFINE e == [i \in 0 .. n + 1 |->
                    IF i = n + 1 THEN OneLess(left[n], s, gone, i) ELSE left[i]]
<1>1. ASSUME NEW i \in 0 .. n + 1
      PROVE  e[i] = IF i = 0 THEN <<>> ELSE OneLess(e[i - 1], s, gone, i)
  <2>1. CASE i = n + 1
    <3>1. i # 0 /\ i - 1 = n /\ n \in 0 .. n + 1 /\ n # n + 1  BY <2>1
    <3> QED  BY <2>1, <3>1
  <2>2. CASE i # n + 1 /\ i = 0
    <3>1. 0 \in 0 .. n  OBVIOUS
    <3> QED  BY <2>2, <3>1 DEF Leaving
  <2>3. CASE i # n + 1 /\ i # 0
    <3>1. i \in 0 .. n /\ i - 1 \in 0 .. n /\ i - 1 \in 0 .. n + 1 /\ i - 1 # n + 1  BY <2>3
    <3>2. left[i] = OneLess(left[i - 1], s, gone, i)  BY <2>3, <3>1 DEF Leaving
    <3> QED  BY <2>3, <3>1, <3>2
  <2> QED  BY <2>1, <2>2, <2>3
<1>2. e = [i \in 0 .. n + 1 |-> IF i = 0 THEN <<>> ELSE OneLess(e[i - 1], s, gone, i)]
  BY <1>1
<1> HIDE DEF e
<1> QED  BY <1>2 DEF Leaving

\* So there is such a left for all of s.
LEMMA LeavingIsThere ==
    ASSUME NEW S, NEW s \in Seq(S), NEW gone
    PROVE  \E left : Leaving(left, s, gone, Len(s)) /\ Omitting(s, gone) = left[Len(s)]
<1> DEFINE last == Len(s)
           T == {n \in Nat : \E left : Leaving(left, s, gone, n)}
<1>1. last \in Nat  BY LenProperties
<1>2. 0 \in T
  <2>1. Leaving([n \in 0 .. 0 |-> <<>>], s, gone, 0)  BY DEF Leaving
  <2> QED  BY <2>1
<1>3. \A n \in T \cap Nat : n + 1 \in T  BY LeavingExtends
<1>4. last \in T
  <2> HIDE DEF T, last
  <2> QED  BY <1>1, <1>2, <1>3, Counting
<1>5. Omitting(s, gone) = (CHOOSE left : Leaving(left, s, gone, last))[last]
  BY DEF Omitting, Leaving, OneLess
<1> QED  BY <1>4, <1>5

\* What is left is no longer, nothing if all is gone, and ends with the last
\* element unless that is gone.
LEMMA OmittingKeeps ==
    ASSUME NEW S, NEW s \in Seq(S), NEW gone
    PROVE  LET t == Omitting(s, gone) IN
           /\ t \in Seq(S) /\ Len(t) <= Len(s)
           /\ (\A i \in 1 .. Len(s) : s[i] \in gone) => t = <<>>
           /\ Len(s) # 0 /\ s[Len(s)] \in gone => Len(t) < Len(s)
           /\ Len(s) # 0 /\ s[Len(s)] \notin gone => Len(t) # 0 /\ t[Len(t)] = s[Len(s)]
<1> DEFINE last == Len(s)
<1>1. last \in Nat  BY LenProperties
<1>2. PICK left : Leaving(left, s, gone, last) /\ Omitting(s, gone) = left[last]
  BY LeavingIsThere
<1> HIDE DEF last
<1>3. left[0] = <<>>
  <2>1. 0 \in 0 .. last  BY <1>1
  <2> QED  BY <1>2, <2>1 DEF Leaving
<1>4. ASSUME NEW n \in 1 .. last  PROVE left[n] = OneLess(left[n - 1], s, gone, n)
  <2>1. n \in 0 .. last /\ n # 0  OBVIOUS
  <2> QED  BY <1>2, <2>1 DEF Leaving
<1> DEFINE T == {n \in Nat : n <= last =>
                    /\ left[n] \in Seq(S) /\ Len(left[n]) <= n
                    /\ (\A i \in 1 .. n : s[i] \in gone) => left[n] = <<>>}
<1>5. 0 \in T
  <2> DEFINE none == left[0]
  <2>1. none \in Seq(S) /\ Len(none) = 0 /\ none = <<>>
    <3>1. <<>> \in Seq(S) /\ Len(<<>>) = 0  BY EmptySeq
    <3> QED  BY <1>3, <3>1
  <2> HIDE DEF none
  <2>2. none \in Seq(S) /\ Len(none) <= 0 /\ none = <<>>  BY <2>1
  <2> QED  BY <2>2 DEF none
<1>6. \A n \in T \cap Nat : n + 1 \in T
  <2> TAKE n \in T \cap Nat
  <2> DEFINE k == n + 1
  <2>1. n \in Nat /\ k \in Nat /\ k - 1 = n  OBVIOUS
  <2> SUFFICES ASSUME k <= last
               PROVE  /\ left[k] \in Seq(S) /\ Len(left[k]) <= k
                      /\ (\A i \in 1 .. k : s[i] \in gone) => left[k] = <<>>
    BY <2>1
  <2>2. k \in 1 .. last /\ n <= last  BY <1>1, <2>1
  <2>3. /\ left[n] \in Seq(S) /\ Len(left[n]) <= n
        /\ (\A i \in 1 .. n : s[i] \in gone) => left[n] = <<>>
    BY <2>1, <2>2
  <2>4. left[k] = OneLess(left[n], s, gone, k)
    <3> HIDE DEF k
    <3> QED  BY <1>4, <2>1, <2>2
  <2>5. s[k] \in S  BY <2>2, ElementOfSeq DEF last
  <2>6. \A i \in 1 .. n : i \in 1 .. k  BY <2>1
  <2>7. k \in 1 .. k  BY <2>2
  <2>8. Len(left[n]) \in Nat  BY <2>3, LenProperties
  <2> HIDE DEF T
  <2>9. CASE s[k] \in gone
    <3>1. left[k] = left[n]  BY <2>4, <2>9 DEF OneLess
    <3>2. Len(left[k]) <= k  BY <2>1, <2>3, <2>8, <3>1
    <3> QED  BY <2>3, <2>6, <3>1, <3>2
  <2>10. CASE s[k] \notin gone
    <3>1. left[k] = Append(left[n], s[k])  BY <2>4, <2>10 DEF OneLess
    <3> DEFINE had == left[n]  x == s[k]
    <3>2. had \in Seq(S) /\ x \in S /\ left[k] = Append(had, x)  BY <2>3, <2>5, <3>1
    <3> HIDE DEF had, x
    <3>3. left[k] \in Seq(S) /\ Len(left[k]) = Len(had) + 1  BY <3>2, AppendProperties
    <3>4. Len(left[k]) <= k  BY <2>1, <2>3, <2>8, <3>3 DEF had
    <3> QED  BY <2>7, <2>10, <3>3, <3>4
  <2> QED  BY <2>9, <2>10
<1> HIDE DEF T
<1>7. \A n \in 0 .. last : n \in T  BY <1>5, <1>6, Counting
<1>8. ASSUME NEW n \in 0 .. last
      PROVE  /\ left[n] \in Seq(S) /\ Len(left[n]) <= n
             /\ (\A i \in 1 .. n : s[i] \in gone) => left[n] = <<>>
  BY <1>7 DEF T
<1>9. last \in 0 .. last  BY <1>1
<1>10. ASSUME last # 0
       PROVE  /\ s[last] \in gone => Len(left[last]) < last
              /\ s[last] \notin gone =>
                    Len(left[last]) # 0 /\ left[last][Len(left[last])] = s[last]
  <2>1. last \in 1 .. last /\ last - 1 \in 0 .. last  BY <1>1, <1>10
  <2>2. left[last] = OneLess(left[last - 1], s, gone, last)  BY <1>4, <2>1
  <2>3. left[last - 1] \in Seq(S) /\ Len(left[last - 1]) <= last - 1  BY <1>8, <2>1
  <2>4. Len(left[last - 1]) \in Nat  BY <2>3, LenProperties
  <2>5. CASE s[last] \in gone
    <3>1. left[last] = left[last - 1]  BY <2>2, <2>5 DEF OneLess
    <3>2. Len(left[last]) < last  BY <1>1, <2>3, <2>4, <3>1
    <3> QED  BY <2>5, <3>2
  <2>6. CASE s[last] \notin gone
    <3> DEFINE had == left[last - 1]  x == s[last]
    <3>1. x \in S  BY <2>1, ElementOfSeq DEF last
    <3>2. had \in Seq(S) /\ left[last] = Append(had, x)  BY <2>2, <2>3, <2>6 DEF OneLess
    <3> HIDE DEF had, x
    <3>3. Len(left[last]) = Len(had) + 1 /\ left[last][Len(had) + 1] = x
      BY <3>1, <3>2, AppendProperties
    <3>4. Len(had) \in Nat  BY <3>2, LenProperties
    <3>5. Len(left[last]) # 0 /\ left[last][Len(left[last])] = x  BY <3>3, <3>4
    <3> QED  BY <2>6, <3>5 DEF x
  <2> QED  BY <2>5, <2>6
<1> QED  BY <1>2, <1>8, <1>9, <1>10 DEF last

\* What the table gives of the messages it has is no more than the window, and
\* the newest of it comes last.
LEMMA RecentShows ==
    ASSUME NEW had \in SUBSET Said
    PROVE  LET shown == LastOf(Omitting([m \in Said |-> m], Said \ had), Window) IN
           /\ shown \in Seq(Said) /\ Len(shown) <= Window
           /\ \A i \in 1 .. Len(shown) : shown[i] <= shown[Len(shown)]
<1> DEFINE all == [m \in Said |-> m]
           gone == Said \ had
           t == Omitting(all, gone)
<1>1. LastSecond \in Nat /\ Window \in Nat \ {0}  BY HistoryConstants
<1>2. all \in Seq(Said) /\ Len(all) = LastSecond
  <2>1. all \in [1 .. LastSecond -> Said]  BY DEF Said
  <2> HIDE DEF all
  <2> QED  BY <1>1, <2>1, SeqDef, LenProperties
<1>3. \A m \in 1 .. LastSecond : all[m] = m  BY DEF Said
<1> HIDE DEF all, gone
<1>4. PICK left : Leaving(left, all, gone, LastSecond) /\ t = left[LastSecond]
  BY <1>2, LeavingIsThere
<1>5. left[0] = <<>>
  <2>1. 0 \in 0 .. LastSecond  BY <1>1
  <2> QED  BY <1>4, <2>1 DEF Leaving
<1>6. ASSUME NEW n \in 1 .. LastSecond  PROVE left[n] = OneLess(left[n - 1], all, gone, n)
  <2>1. n \in 0 .. LastSecond /\ n # 0  OBVIOUS
  <2> QED  BY <1>4, <2>1 DEF Leaving
<1> DEFINE T == {n \in Nat : n <= LastSecond =>
                    /\ left[n] \in Seq(Nat)
                    /\ \A i \in 1 .. Len(left[n]) :
                          left[n][i] <= n /\ left[n][i] <= left[n][Len(left[n])]}
<1>7. 0 \in T
  <2> DEFINE none == left[0]
  <2>1. none \in Seq(Nat) /\ Len(none) = 0
    <3>1. <<>> \in Seq(Nat) /\ Len(<<>>) = 0  BY EmptySeq
    <3> QED  BY <1>5, <3>1
  <2> HIDE DEF none
  <2>2. \A i \in 1 .. Len(none) : none[i] <= 0 /\ none[i] <= none[Len(none)]  BY <2>1
  <2> QED  BY <2>1, <2>2 DEF none
<1>8. \A n \in T \cap Nat : n + 1 \in T
  <2> TAKE n \in T \cap Nat
  <2> DEFINE k == n + 1
             old == left[n]
             new == left[k]
  <2>1. n \in Nat /\ k \in Nat /\ k - 1 = n  OBVIOUS
  <2> SUFFICES ASSUME k <= LastSecond
               PROVE  new \in Seq(Nat) /\ \A i \in 1 .. Len(new) :
                          new[i] <= k /\ new[i] <= new[Len(new)]
    BY <2>1
  <2>2. k \in 1 .. LastSecond /\ n <= LastSecond  BY <1>1, <2>1
  <2>3. old \in Seq(Nat) /\ \A i \in 1 .. Len(old) : old[i] <= n /\ old[i] <= old[Len(old)]
    BY <2>1, <2>2
  <2>4. new = OneLess(old, all, gone, k)
    <3> HIDE DEF k
    <3> QED  BY <1>6, <2>1, <2>2
  <2>5. all[k] = k  BY <1>3, <2>2
  <2> HIDE DEF T, old, new
  <2>6. Len(old) \in Nat /\ \A i \in 1 .. Len(old) : old[i] \in Nat
    BY <2>3, LenProperties, ElementOfSeq
  <2>7. CASE new = old
    <3>1. ASSUME NEW i \in 1 .. Len(old)  PROVE old[i] <= k
      <4>1. old[i] \in Nat /\ old[i] <= n  BY <2>3, <2>6
      <4> QED  BY <2>1, <4>1
    <3> QED  BY <2>3, <2>7, <3>1
  <2>8. CASE new = Append(old, k)
    <3> HIDE DEF k
    <3>1. /\ new \in Seq(Nat) /\ Len(new) = Len(old) + 1 /\ new[Len(old) + 1] = k
          /\ \A i \in 1 .. Len(old) : new[i] = old[i]
      BY <2>1, <2>3, <2>8, AppendProperties
    <3>2. ASSUME NEW i \in 1 .. Len(new)  PROVE new[i] <= k
      <4>1. i \in 1 .. Len(old) \/ i = Len(old) + 1  BY <2>6, <3>1
      <4>2. CASE i \in 1 .. Len(old)
        <5>1. old[i] \in Nat /\ old[i] <= n /\ new[i] = old[i]  BY <2>3, <2>6, <3>1, <4>2
        <5> QED  BY <2>1, <5>1
      <4>3. CASE i = Len(old) + 1  BY <2>1, <3>1, <4>3
      <4> QED  BY <4>1, <4>2, <4>3
    <3>3. new[Len(new)] = k  BY <3>1
    <3> QED  BY <3>1, <3>2, <3>3
  <2>9. new = old \/ new = Append(old, k)
    <3> HIDE DEF k
    <3> QED  BY <2>4, <2>5 DEF OneLess
  <2> QED  BY <2>7, <2>8, <2>9
<1> HIDE DEF T
<1>9. LastSecond \in T  BY <1>1, <1>7, <1>8, Counting
<1>10. \A i \in 1 .. Len(t) : t[i] <= t[Len(t)]  BY <1>1, <1>4, <1>9 DEF T
<1>11. t \in Seq(Said)  BY <1>2, OmittingKeeps
<1> HIDE DEF t
<1> DEFINE shown == LastOf(t, Window)
           d == Len(t) - Len(shown)
<1>12. /\ shown \in Seq(Said) /\ Len(shown) <= Window /\ Len(shown) <= Len(t)
       /\ \A i \in 1 .. Len(shown) : i + d \in 1 .. Len(t) /\ shown[i] = t[i + d]
  BY <1>1, <1>11, LastOfIsEnd
<1> HIDE DEF shown
<1>13. ASSUME NEW i \in 1 .. Len(shown)  PROVE shown[i] <= shown[Len(shown)]
  <2>1. Len(shown) \in Nat /\ Len(t) \in Nat  BY <1>11, <1>12, LenProperties
  <2>2. Len(shown) \in 1 .. Len(shown) /\ Len(shown) + d = Len(t)  BY <2>1
  <2> HIDE DEF d
  <2>3. shown[Len(shown)] = t[Len(t)]  BY <1>12, <2>2
  <2> QED  BY <1>10, <1>12, <2>3
<1> QED  BY <1>12, <1>13 DEF shown, t, gone, all

\* The last message of the memory is in what is made of table and memory, unless
\* it is crowded out.
LEMMA MergedHolds ==
    ASSUME NEW shown \in Seq(Said), Len(shown) <= Window,
           \A i \in 1 .. Len(shown) : shown[i] <= shown[Len(shown)],
           NEW own \in Seq(Said), Len(own) # 0, Len(own) <= Window,
           NEW m \in Said, own[Len(own)] = m,
           ~(/\ m \in ToSet(shown) /\ \E n \in ToSet(shown) : n > m
             /\ \E n \in ToSet(own) : n \notin ToSet(shown))
    PROVE  Contains(Merged(shown, own), m)
<1> DEFINE rest == Omitting(own, ToSet(shown))
           all == shown \o rest
           c == LastOf(all, Window)
           d == Len(all) - Len(c)
<1> SUFFICES Contains(c, m)
  BY DEF Merged
<1>1. Window \in Nat \ {0} /\ Said \subseteq Nat  BY HistoryConstants DEF Said
<1>2. Len(shown) \in Nat /\ Len(own) \in Nat  BY LenProperties
<1>3. /\ rest \in Seq(Said)
      /\ (\A i \in 1 .. Len(own) : own[i] \in ToSet(shown)) => rest = <<>>
      /\ m \in ToSet(shown) => Len(rest) < Len(own)
      /\ m \notin ToSet(shown) => Len(rest) # 0 /\ rest[Len(rest)] = m
  BY OmittingKeeps
<1> HIDE DEF rest
<1>4. Len(rest) \in Nat  BY <1>3, LenProperties
<1>5. /\ all \in Seq(Said) /\ Len(all) = Len(shown) + Len(rest)
      /\ \A i \in 1 .. Len(shown) + Len(rest) :
            all[i] = IF i <= Len(shown) THEN shown[i] ELSE rest[i - Len(shown)]
  BY <1>3, ConcatProperties
<1> HIDE DEF all
<1>6. /\ c \in Seq(Said) /\ Len(c) = IF Len(all) > Window THEN Window ELSE Len(all)
      /\ \A i \in 1 .. Len(c) : c[i] = all[i + d]
  <2>1. \A i \in 1 .. Len(c) : c[i] = all[i + d]  BY <1>1, <1>5, LastOfIsEnd
  <2>2. c \in Seq(Said)  BY <1>1, <1>5, LastOfIsEnd
  <2>3. Len(c) = IF Len(all) > Window THEN Window ELSE Len(all)
    BY <1>1, <1>5, LengthOfLastOf
  <2> QED  BY <2>1, <2>2, <2>3
<1> HIDE DEF c
<1>7. \* What is so near the end of the two is in what is given.
      ASSUME NEW k \in 1 .. Len(all), all[k] = m, Len(all) - k < Window
      PROVE  Contains(c, m)
  <2>1. k - d \in 1 .. Len(c) /\ (k - d) + d = k
    <3> DEFINE a == Len(all)  b == Len(c)
    <3>1. a \in Nat /\ Window \in Nat \ {0} /\ k \in 1 .. a /\ a - k < Window
          /\ b = (IF a > Window THEN Window ELSE a)
      BY <1>1, <1>2, <1>4, <1>5, <1>6, <1>7
    <3>2. d = a - b  OBVIOUS
    <3> HIDE DEF a, b, d
    <3>3. k - (a - b) \in 1 .. b /\ (k - (a - b)) + (a - b) = k  BY <3>1
    <3> QED  BY <3>2, <3>3 DEF b
  <2>2. c[k - d] = m
    <3> HIDE DEF d
    <3> QED  BY <1>6, <1>7, <2>1
  <2> QED  BY <2>1, <2>2 DEF Contains
<1>8. CASE m \notin ToSet(shown)
  <2>1. Len(all) \in 1 .. Len(all) /\ Len(all) - Len(all) < Window
    BY <1>1, <1>2, <1>3, <1>4, <1>5, <1>8
  <2>2. all[Len(all)] = m
    <3>1. /\ Len(all) \in 1 .. Len(shown) + Len(rest) /\ ~(Len(all) <= Len(shown))
          /\ Len(all) - Len(shown) = Len(rest)
      BY <1>2, <1>3, <1>4, <1>5, <1>8
    <3> DEFINE i == Len(all)  j == Len(rest)
    <3>2. i \in 1 .. Len(shown) + Len(rest) /\ ~(i <= Len(shown)) /\ i - Len(shown) = j
      BY <3>1
    <3>3. rest[j] = m  BY <1>3, <1>8
    <3> HIDE DEF i, j
    <3>4. all[i] = rest[j]  BY <1>5, <3>2
    <3> QED  BY <3>3, <3>4 DEF i
  <2> DEFINE k == Len(all)
  <2>3. k \in 1 .. Len(all) /\ all[k] = m /\ Len(all) - k < Window  BY <2>1, <2>2
  <2> HIDE DEF k
  <2> QED  BY <1>7, <2>3
<1>9. CASE m \in ToSet(shown) /\ \A n \in ToSet(own) : n \in ToSet(shown)
  <2>1. rest = <<>>
    <3>1. \A i \in 1 .. Len(own) : own[i] \in ToSet(own)  BY LenProperties DEF ToSet
    <3> QED  BY <1>3, <1>9, <3>1
  <2>2. PICK k \in 1 .. Len(shown) : shown[k] = m  BY <1>9, LenProperties DEF ToSet
  <2>3. Len(rest) = 0  BY <2>1, EmptySeq
  <2>4. k \in 1 .. Len(all) /\ Len(all) - k < Window  BY <1>1, <1>2, <1>5, <2>3
  <2>5. all[k] = m
    <3>1. k \in 1 .. Len(shown) + Len(rest) /\ k <= Len(shown)  BY <1>2, <2>3
    <3>2. all[k] = shown[k]  BY <1>5, <3>1
    <3> QED  BY <2>2, <3>2
  <2> QED  BY <1>7, <2>4, <2>5
<1>10. CASE m \in ToSet(shown) /\ \A n \in ToSet(shown) : ~(n > m)
  <2> DEFINE k == Len(shown)
  <2>1. PICK j \in 1 .. Len(shown) : shown[j] = m  BY <1>10, LenProperties DEF ToSet
  <2>2. k \in 1 .. Len(shown) /\ k \in 1 .. Len(all)  BY <1>2, <1>4, <1>5, <2>1
  <2>3. shown[k] = m
    <3>1. shown[k] \in ToSet(shown)  BY <2>2, LenProperties DEF ToSet
    <3>2. shown[k] \in Said  BY <2>2, ElementOfSeq
    <3>3. ~(shown[k] > m) /\ m <= shown[k]  BY <1>10, <2>1, <3>1
    <3>4. shown[k] \in Nat /\ m \in Nat  BY <1>1, <3>2
    <3> HIDE DEF k
    <3> QED  BY <3>3, <3>4
  <2>4. all[k] = m
    <3>1. k \in 1 .. Len(shown) + Len(rest) /\ k <= Len(shown)  BY <1>2, <1>4, <2>2
    <3> HIDE DEF k
    <3> QED  BY <1>5, <2>3, <3>1
  <2>5. Len(all) - k < Window
    <3>1. Len(rest) < Len(own)  BY <1>3, <1>10
    <3>2. Len(all) - k = Len(rest)  BY <1>2, <1>4, <1>5
    <3> QED  BY <1>1, <1>2, <1>4, <3>1, <3>2
  <2> HIDE DEF k
  <2> QED  BY <1>7, <2>2, <2>4, <2>5
<1> QED  BY <1>8, <1>9, <1>10

\* The end of what is remembered is not empty, and has the message last.
LEMMA RememberedIsLast ==
    ASSUME HistoryInv, NEW m \in Said, Remember(m)
    PROVE  LET own == LastOf(memory', Window) IN
           /\ own \in Seq(Said) /\ Len(own) # 0 /\ Len(own) <= Window
           /\ own[Len(own)] = m
<1> DEFINE rest == RemoveFirst(memory, m)
           all == Append(rest, m)
<1>1. Window \in Nat \ {0}  BY HistoryConstants
<1>2. rest \in Seq(Said)  BY RemoveFirstLeaves DEF HistoryInv, Remembered
<1> HIDE DEF rest
<1>3. all \in Seq(Said) /\ Len(all) # 0 /\ all[Len(all)] = m
  <2>1. all \in Seq(Said) /\ Len(all) = Len(rest) + 1 /\ all[Len(rest) + 1] = m
    BY <1>2, AppendProperties
  <2>2. Len(rest) \in Nat  BY <1>2, LenProperties
  <2> HIDE DEF all
  <2> QED  BY <2>1, <2>2
<1>4. memory' = all \/ memory' = LastOf(all, Window)  BY DEF Remember, rest
<1> HIDE DEF all
<1>5. ASSUME NEW s \in Seq(Said), Len(s) # 0, s[Len(s)] = m
      PROVE  LET own == LastOf(s, Window) IN
             /\ own \in Seq(Said) /\ Len(own) # 0 /\ Len(own) <= Window
             /\ own[Len(own)] = m
  <2> DEFINE own == LastOf(s, Window)
             d == Len(s) - Len(own)
  <2>1. /\ own \in Seq(Said) /\ Len(own) <= Window
        /\ \A i \in 1 .. Len(own) : own[i] = s[i + d]
    BY <1>1, LastOfIsEnd
  <2>2. Len(own) = IF Len(s) > Window THEN Window ELSE Len(s)  BY <1>1, LengthOfLastOf
  <2> HIDE DEF own
  <2>3. Len(own) \in Nat /\ Len(s) \in Nat  BY <2>1, LenProperties
  <2>4. Len(own) \in 1 .. Len(own) /\ Len(own) + d = Len(s)  BY <1>1, <1>5, <2>2, <2>3
  <2> HIDE DEF d
  <2>5. own[Len(own)] = m  BY <1>5, <2>1, <2>4
  <2> QED  BY <2>1, <2>4, <2>5 DEF own
<1>6. CASE memory' = all  BY <1>3, <1>5, <1>6
<1>7. CASE memory' = LastOf(all, Window)
  <2> DEFINE s == LastOf(all, Window)
  <2>1. s \in Seq(Said) /\ Len(s) # 0 /\ s[Len(s)] = m  BY <1>3, <1>5
  <2> HIDE DEF s
  <2>2. memory' = s  BY <1>7 DEF s
  <2> QED  BY <1>5, <2>1, <2>2
<1> QED  BY <1>4, <1>6, <1>7

\* Only Remember makes a message done, and then the context has it.
LEMMA RememberShows ==
    ASSUME HistoryInv, [HistoryNext]_historyVars, NEW m \in Said,
           work[m] = "observed", work'[m] = "done", ~Crowded(m)'
    PROVE  \A c \in Contexts' : Contains(c, m)
<1>1. work \in [Said -> {"away", "queued", "observed", "done"}] /\ Regretted \subseteq Said
  BY HistoryConstants DEF HistoryInv, Remembered, Said
<1>2. work'[m] # work[m]  OBVIOUS
<1>3. Remember(m)
  <2>1. ~UNCHANGED work  BY <1>2
  <2>2. HistoryNext  BY <2>1 DEF historyVars, messageVars
  <2>3. ASSUME NEW n \in Said, Arrive(n) \/ ObserveMessage(n)  PROVE FALSE
    BY <1>1, <2>3 DEF Arrive, ObserveMessage
  <2>4. ASSUME NEW n \in Regretted,
               Recalled(n) \/ LookUp(n) \/ ObserveNotice(n) \/ KeepNotice(n)
        PROVE  FALSE
    BY <2>1, <2>4 DEF Recalled, LookUp, ObserveNotice, KeepNotice, messageVars
  <2>5. ~Reload  BY <1>1 DEF Reload
  <2>6. ASSUME NEW n \in Said, Remember(n)  PROVE n = m
    BY <1>1, <1>2, <2>6 DEF Remember
  <2> QED  BY <2>2, <2>3, <2>4, <2>5, <2>6 DEF HistoryNext
<1> DEFINE own == LastOf(memory', Window)
           had == rows'
           shown == LastOf(Omitting([n \in Said |-> n], Said \ had), Window)
<1>4. /\ own \in Seq(Said) /\ Len(own) # 0 /\ Len(own) <= Window
      /\ own[Len(own)] = m
  BY <1>3, RememberedIsLast
<1>5. had \in SUBSET Said
  <2>1. HistoryInv'  BY HistoryStep
  <2> QED  BY <2>1 DEF HistoryInv, Remembered
<1>6. Recent' = shown  BY DEF Recent
<1> HIDE DEF had
<1>7. /\ shown \in Seq(Said) /\ Len(shown) <= Window
      /\ \A i \in 1 .. Len(shown) : shown[i] <= shown[Len(shown)]
  BY <1>5, RecentShows
<1> HIDE DEF shown
<1>8. ~(/\ m \in ToSet(shown) /\ \E n \in ToSet(shown) : n > m
        /\ \E n \in ToSet(own) : n \notin ToSet(shown))
  BY <1>6 DEF Crowded
<1>9. Contexts' = {Merged(shown, own), own}  BY <1>6 DEF Contexts
<1> HIDE DEF own
<1>10. Contains(Merged(shown, own), m)  BY <1>4, <1>7, <1>8, MergedHolds
<1>11. Contains(own, m)
  <2>1. Len(own) \in 1 .. Len(own)  BY <1>4, LenProperties
  <2> QED  BY <1>4, <2>1 DEF Contains
<1> QED  BY <1>9, <1>10, <1>11

\* A message that was just remembered is in the context that is read, with the
\* table or without it, unless the table shows newer ones too and the memory
\* others: for any number of messages, orders, sizes, failures and restarts.
THEOREM ContextsHoldMessages == HistorySpec => ContextHoldsMessage
<1>1. HistoryInv /\ [HistoryNext]_historyVars =>
      [\A m \in Said : work[m] = "observed" /\ work'[m] = "done"
          => \A c \in Contexts' : Contains(c, m) \/ Crowded(m)']_historyVars
  BY RememberShows
<1> QED  BY <1>1, HistoryIsSound, PTL DEF HistorySpec, ContextHoldsMessage
=============================================================================
