----------------------------- MODULE TurnProofs -----------------------------
(*************************************************************************)
(* How the user's words become turns (UserTurn) and how the brain is     *)
(* given them (BrainSession), for any sentences, any number of           *)
(* candidates and completions, of turns, calls and tools.                *)
(*                                                                       *)
(* UserTurn. A step does one of four things to a turn (Form): it goes    *)
(* on, it makes room for another, its completion is waited for, or it is *)
(* decided. TurnInv says that the candidate, the timelines and the       *)
(* completion that waits fit together, and is inductive over these four  *)
(* forms. From it: whoever sleeps has a reason; what was decided stands; *)
(* the first commit leaves nothing out. That nothing withdrawn is        *)
(* committed takes Standing: where each word of the open turn, of the    *)
(* framework's buffer and of the completions under way was said. The     *)
(* text of a candidate is a recursive function; what it holds is proved  *)
(* by the least number at which it would fail (LeastNumber), since the   *)
(* induction theorems take an operator.                                  *)
(*                                                                       *)
(* BrainSession. BrainInv: the brain never works on two turns of one     *)
(* utterance. RepliesOnce is not inductive: a turn given up for a retry  *)
(* must be out of everybody's hands for good, and the brain must not     *)
(* have begun it. So the argument is about turns: one that is being      *)
(* started has not reached the brain (NotBegun), only a start reaches    *)
(* it, and what was given up for a retry is over and does not run        *)
(* (GivenUp), whatever the call, the reader, the tools and aclose do.    *)
(* StrandInv: no turn waits on a call that nobody reads.                 *)
(*************************************************************************)
EXTENDS UserTurn, BrainSession, SequenceTheorems, WellFoundedInduction, TLAPS

(* UserTurn *)

\* The values of the model.
Texts == Seq(Words)
Finality == {"none", "interim", "final"}
Segs == [gen : Nat, text : Texts, final : Texts, rev : Nat, covered : BOOLEAN, ended : BOOLEAN, prior : Finality]
Cands == [id : Nat, state : {"none", "open", "committed", "rejected"}, timeline : Nat, heard : BOOLEAN,
          segs : Seq(Segs), revs : SUBSET Nat, last : Finality, gen : Nat]
Gates == [pc : {"off", "voice", "settle"}, text : Texts, timeline : Nat, cand : Nat, gen : Nat, woken : BOOLEAN]

\* The types of the state.
Typed ==
    /\ named \in BOOLEAN /\ checked \in BOOLEAN
    /\ cand \in Cands /\ gate \in Gates
    /\ {ids, gens, upto, vtl, tl, out} \subseteq Nat /\ sentence \in Nat \ {0}
    /\ sdk \in Texts /\ queue \in Seq(Texts)
    /\ sent \in Seq([cand : Nat, heard : BOOLEAN, words : Texts])

\* The candidate is the newest one; the timelines are its own, or none.
Belongs ==
    /\ cand.id <= ids /\ cand.timeline \in {0, cand.id}
    /\ cand.state = "none" => cand = NoCandidate
    /\ cand.state = "open" => cand.id # 0 /\ cand.timeline = cand.id
    /\ tl \in {0, cand.timeline} /\ vtl \in {0, cand.timeline}

\* The completion g is of this turn, with its timeline, or of one before it.
Fits(g) ==
    /\ g.cand # cand.id => g.cand < cand.id /\ cand.state # "committed"
    /\ g.cand = cand.id => g.timeline \in {0, cand.timeline} /\ (g.timeline = 0 => tl = 0)
    /\ g.cand = 0 => g.timeline = 0

\* What is committed is no longer open, and has words.
Recorded ==
    /\ \A i \in DOMAIN sent : sent[i].cand <= ids
    /\ cand.state = "open" => \A i \in DOMAIN sent : sent[i].cand # cand.id
    /\ cand.state = "committed" => Selected(cand) # << >>

\* The words of the sentences the recogniser has left behind and not withdrawn, and those
\* of the sentence it is at.
Kept == UNION {Range(Said[u]) : u \in {v \in Sentences : v < sentence /\ v \notin gone}}
Now == IF sentence \in Sentences THEN Range(Said[sentence]) ELSE {}

\* A segment whose words stand: kept ones, or those of a hypothesis of the running sentence.
Stands(seg) ==
    /\ Range(seg.final) \subseteq Kept
    /\ Range(seg.text) \subseteq Kept \/ (seg.rev = sentence /\ Range(seg.text) \subseteq Now)

GoneIsPast == gone \subseteq Sentences /\ (\A u \in gone : u < sentence) /\ (~named => gone = {})

CompletionsStand ==
    /\ Range(sdk) \subseteq Kept
    /\ \A i \in DOMAIN queue : Range(queue[i]) \subseteq Kept
    /\ gate.pc # "off" => Range(gate.text) \subseteq Kept

SegmentsStand == named /\ cand.state = "open" => \A i \in DOMAIN cand.segs : Stands(cand.segs[i])

Standing == GoneIsPast /\ CompletionsStand /\ SegmentsStand

TurnInv ==
    /\ Typed /\ Belongs /\ (gate.pc # "off" => Fits(gate)) /\ Recorded
    /\ SleepsForAReason

-----------------------------------------------------------------------------
\* Texts.

\* Containment of one text in another, word by word.
LEMMA WithinWords ==
    ASSUME NEW short \in Texts, NEW long \in Texts
    PROVE  Within(short, long) <=>
             \E i \in 0..Len(long) :
                i + Len(short) <= Len(long) /\ \A j \in 1..Len(short) : long[i + j] = short[j]
<1>1. Len(short) \in Nat /\ Len(long) \in Nat
  BY DEF Texts
<1>2. ASSUME NEW i \in 0..Len(long), i + Len(short) <= Len(long)
      PROVE  SubSeq(long, i + 1, i + Len(short)) = short
               <=> \A j \in 1..Len(short) : long[i + j] = short[j]
  <2> DEFINE part == SubSeq(long, i + 1, i + Len(short))
  <2>1. \A k \in (i + 1)..(i + Len(short)) : long[k] \in Words
    BY <1>1, <1>2 DEF Texts
  <2>2. /\ part \in Seq(Words)
        /\ Len(part) = IF i + 1 <= i + Len(short) THEN i + Len(short) - (i + 1) + 1 ELSE 0
        /\ \A j \in 1..(i + Len(short) - (i + 1) + 1) : part[j] = long[i + 1 + j - 1]
    BY <1>1, <1>2, <2>1, SubSeqProperties, i + 1 \in Int, i + Len(short) \in Int
  <2>3. /\ part \in Seq(Words) /\ Len(part) = Len(short)
        /\ \A j \in 1..Len(short) : part[j] = long[i + j]
    BY <1>1, <2>2
  <2> HIDE DEF part
  <2>4. (\A j \in 1..Len(short) : part[j] = short[j]) => part = short
    BY <2>3, SeqEqual DEF Texts
  <2>5. part = short <=> \A j \in 1..Len(short) : long[i + j] = short[j]
    BY <2>3, <2>4
  <2> QED
    BY <2>5 DEF part
<1> QED
  BY <1>2 DEF Within

\* A text contains itself, and every text contains the empty one.
LEMMA WithinItself == ASSUME NEW text \in Texts PROVE Within(text, text) /\ Within(<< >>, text)
<1>1. << >> \in Texts /\ Len(<< >>) = 0 /\ Len(text) \in Nat
  BY DEF Texts
<1>2. 0 \in 0..Len(text) /\ 0 + Len(text) <= Len(text) /\ \A j \in 1..Len(text) : text[0 + j] = text[j]
  BY <1>1
<1>3. 0 + Len(<< >>) <= Len(text) /\ 1..Len(<< >>) = {}
  BY <1>1
<1> QED
  BY <1>1, <1>2, <1>3, WithinWords

\* What is within a part of a text is within the text.
LEMMA WithinThrough ==
    ASSUME NEW a \in Texts, NEW b \in Texts, NEW c \in Texts, Within(a, b), Within(b, c)
    PROVE  Within(a, c)
<1>1. Len(a) \in Nat /\ Len(b) \in Nat /\ Len(c) \in Nat
  BY DEF Texts
<1>2. PICK i \in 0..Len(b) : i + Len(a) <= Len(b) /\ \A j \in 1..Len(a) : b[i + j] = a[j]
  BY WithinWords
<1>3. PICK k \in 0..Len(c) : k + Len(b) <= Len(c) /\ \A j \in 1..Len(b) : c[k + j] = b[j]
  BY WithinWords
<1>4. k + i \in 0..Len(c) /\ (k + i) + Len(a) <= Len(c)
  BY <1>1, <1>2, <1>3
<1>5. ASSUME NEW j \in 1..Len(a) PROVE c[(k + i) + j] = a[j]
  <2>1. i + j \in 1..Len(b) /\ k + (i + j) = (k + i) + j
    BY <1>1, <1>2
  <2> QED
    BY <1>2, <1>3, <2>1
<1> QED
  BY <1>4, <1>5, WithinWords

\* A text within another has none but its words.
LEMMA WithinRange ==
    ASSUME NEW a \in Texts, NEW b \in Texts, Within(a, b)
    PROVE  Range(a) \subseteq Range(b) /\ (a # << >> => b # << >>)
<1>1. Len(a) \in Nat /\ Len(b) \in Nat /\ DOMAIN a = 1..Len(a) /\ DOMAIN b = 1..Len(b)
  BY DEF Texts
<1>2. PICK i \in 0..Len(b) : i + Len(a) <= Len(b) /\ \A j \in 1..Len(a) : b[i + j] = a[j]
  BY WithinWords
<1>3. \A j \in 1..Len(a) : i + j \in DOMAIN b
  BY <1>1, <1>2
<1>4. Range(a) \subseteq Range(b)
  BY <1>1, <1>2, <1>3 DEF Range
<1>5. a # << >> => Len(a) > 0
  BY <1>1 DEF Texts
<1>6. b = << >> => Len(b) = 0
  OBVIOUS
<1> QED
  BY <1>1, <1>2, <1>4, <1>5, <1>6

\* The concatenation holds both texts, and no other words.
LEMMA ConcatHolds ==
    ASSUME NEW left \in Texts, NEW right \in Texts
    PROVE  /\ left \o right \in Texts /\ Within(left, left \o right) /\ Within(right, left \o right)
           /\ Range(left \o right) = Range(left) \cup Range(right)
<1>1. Len(left) \in Nat /\ Len(right) \in Nat
  BY DEF Texts
<1>2. /\ left \o right \in Texts /\ Len(left \o right) = Len(left) + Len(right)
      /\ \A i \in 1..(Len(left) + Len(right)) :
            (left \o right)[i] = IF i <= Len(left) THEN left[i] ELSE right[i - Len(left)]
  BY ConcatProperties DEF Texts
<1>3. Within(left, left \o right)
  <2>1. \A j \in 1..Len(left) : (left \o right)[0 + j] = left[j]
    BY <1>1, <1>2
  <2>2. 0 \in 0..Len(left \o right) /\ 0 + Len(left) <= Len(left \o right)
    BY <1>1, <1>2
  <2> QED
    BY <1>2, <2>1, <2>2, WithinWords
<1>4. Within(right, left \o right)
  <2>1. \A j \in 1..Len(right) : (left \o right)[Len(left) + j] = right[j]
    BY <1>1, <1>2
  <2>2. Len(left) \in 0..Len(left \o right) /\ Len(left) + Len(right) <= Len(left \o right)
    BY <1>1, <1>2
  <2> QED
    BY <1>2, <2>1, <2>2, WithinWords
<1> QED
  BY <1>2, <1>3, <1>4, RangeConcatenation DEF Texts

\* A text joined to another loses neither, and adds nothing.
LEMMA JoinHolds ==
    ASSUME NEW left \in Texts, NEW right \in Texts
    PROVE  /\ Join(left, right) \in Texts
           /\ Within(left, Join(left, right)) /\ Within(right, Join(left, right))
           /\ Range(Join(left, right)) \subseteq Range(left) \cup Range(right)
<1>1. Len(left) \in Nat /\ Len(right) \in Nat
  BY DEF Texts
<1>2. CASE IsPrefix(left, right)
  <2>1. Len(left) <= Len(right) /\ SubSeq(left, 1, Len(left)) = SubSeq(right, 1, Len(left))
    BY <1>2 DEF IsPrefix
  <2>2. SubSeq(left, 1, Len(left)) = left
    BY SubSeqFull DEF Texts
  <2>3. 0 \in 0..Len(right) /\ 0 + Len(left) <= Len(right) /\ SubSeq(right, 0 + 1, 0 + Len(left)) = left
    BY <1>1, <2>1, <2>2
  <2> QED
    BY <1>2, <2>3, WithinItself DEF Join, Within
<1>3. CASE ~IsPrefix(left, right) /\ IsSuffix(right, left)
  <2> DEFINE rr == Reverse(right)  ll == Reverse(left)
  <2>1. /\ Len(rr) = Len(right) /\ Len(ll) = Len(left)
        /\ \A j \in 1..Len(right) : rr[j] = right[(Len(right) - j) + 1]
        /\ \A j \in 1..Len(left) : ll[j] = left[(Len(left) - j) + 1]
    BY <1>1 DEF Reverse
  <2>2. Len(rr) <= Len(ll) /\ SubSeq(rr, 1, Len(rr)) = SubSeq(ll, 1, Len(rr))
    BY <1>3 DEF IsSuffix, IsPrefix
  <2> HIDE DEF rr, ll
  <2>3. \A j \in 1..Len(right) : SubSeq(rr, 1, Len(rr))[j] = rr[j] /\ SubSeq(ll, 1, Len(rr))[j] = ll[j]
    BY <1>1, <2>1, <2>2
  <2>4. \A j \in 1..Len(right) : rr[j] = ll[j]
    BY <2>2, <2>3
  <2>5. ASSUME NEW j \in 1..Len(right) PROVE left[(Len(left) - Len(right)) + j] = right[j]
    <3>1. (Len(right) - j) + 1 \in 1..Len(right) /\ (Len(right) - j) + 1 \in 1..Len(left)
      BY <1>1, <2>1, <2>2
    <3>2. /\ (Len(right) - ((Len(right) - j) + 1)) + 1 = j
          /\ (Len(left) - ((Len(right) - j) + 1)) + 1 = (Len(left) - Len(right)) + j
      BY <1>1
    <3> QED
      BY <2>1, <2>4, <3>1, <3>2
  <2>6. Len(left) - Len(right) \in 0..Len(left) /\ (Len(left) - Len(right)) + Len(right) <= Len(left)
    BY <1>1, <2>1, <2>2
  <2>7. Within(right, left)
    BY <2>5, <2>6, WithinWords
  <2> QED
    BY <1>3, <2>7, WithinItself DEF Join
<1>4. CASE ~IsPrefix(left, right) /\ ~IsSuffix(right, left)
  BY <1>4, ConcatHolds DEF Join
<1> QED
  BY <1>2, <1>3, <1>4

-----------------------------------------------------------------------------
\* The text of a candidate, from segment to segment.  It is a recursive function, about
\* which facts are proved by looking at the least number they fail for.
LEMMA LeastNumber ==
    ASSUME NEW S \in SUBSET Nat, S # {}
    PROVE  \E n \in S : \A m \in S : n <= m
<1> DEFINE R == {ss \in Nat \X Nat : ss[1] < ss[2]}
<1>1. IsWellFoundedOn(R, Nat)
  BY NatLessThanWellFounded DEF OpToRel
<1>2. PICK n \in S : \A m \in S : <<m, n>> \notin R
  <2> HIDE DEF R
  <2> QED
    BY <1>1, WFMin
<1>3. \A m \in S : ~ (m < n)
  BY <1>2
<1> QED
  BY <1>3

\* Numbers up to n + 1.
LEMMA UpTo ==
    ASSUME NEW N \in Nat, NEW S, 0 \in S, \A n \in 0..N : n < N /\ n \in S => n + 1 \in S
    PROVE  \A n \in 0..N : n \in S
<1> DEFINE Out == {n \in 0..N : n \notin S}
<1> SUFFICES ASSUME Out # {} PROVE FALSE
  OBVIOUS
<1>1. Out \in SUBSET Nat
  OBVIOUS
<1>2. PICK n \in Out : \A m \in Out : n <= m
  <2> HIDE DEF Out
  <2> QED
    BY <1>1, LeastNumber
<1>3. n # 0 /\ n \in 1..N
  BY <1>2
<1>4. n - 1 \in 0..N /\ n - 1 < N /\ (n - 1) + 1 = n /\ n - 1 \notin Out
  BY <1>2, <1>3
<1> QED
  BY <1>2, <1>4

Then(seg, text) == IF seg.covered THEN text ELSE Join(text, SegText(seg))

Gathers(f, segs, k) ==
    f = [n \in 0..k |-> IF n = 0 THEN << >>
                        ELSE IF segs[n].covered THEN f[n - 1] ELSE Join(f[n - 1], SegText(segs[n]))]

\* The text gathered from the first segments is extended by the next one.
LEMMA GathersMore ==
    ASSUME NEW segs, NEW k \in Nat, NEW f, Gathers(f, segs, k)
    PROVE  \E g : Gathers(g, segs, k + 1)
<1> DEFINE g == [n \in 0..(k + 1) |-> IF n = k + 1 THEN Then(segs[n], f[k]) ELSE f[n]]
<1>1. \A n \in 0..k : f[n] = IF n = 0 THEN << >> ELSE Then(segs[n], f[n - 1])
  BY DEF Gathers, Then
<1>2. \A n \in 0..k : g[n] = f[n]
  OBVIOUS
<1>3. g[k + 1] = Then(segs[k + 1], g[k])
  BY <1>2
<1>4. ASSUME NEW n \in 0..(k + 1)
      PROVE  g[n] = IF n = 0 THEN << >> ELSE Then(segs[n], g[n - 1])
  <2>1. CASE n = k + 1
    BY <1>3, <2>1
  <2>2. CASE n = 0
    BY <1>1, <1>2, <2>2
  <2>3. CASE n # 0 /\ n # k + 1
    <3>1. n \in 0..k /\ n - 1 \in 0..k
      BY <2>3
    <3>2. g[n] = f[n] /\ g[n - 1] = f[n - 1]
      BY <1>2, <3>1
    <3> QED
      BY <1>1, <2>3, <3>1, <3>2
  <2> QED
    BY <2>1, <2>2, <2>3
<1>5. g = [n \in 0..(k + 1) |-> g[n]]
  OBVIOUS
<1> HIDE DEF g
<1>6. Gathers(g, segs, k + 1)
  BY <1>4, <1>5 DEF Gathers, Then
<1> QED
  BY <1>6

\* The text of any number of segments can be gathered.
LEMMA GathersAll == ASSUME NEW segs, NEW k \in Nat PROVE \E f : Gathers(f, segs, k)
<1> DEFINE S == {n \in Nat : \E f : Gathers(f, segs, n)}
<1>1. 0 \in S
  <2> DEFINE f == [n \in 0..0 |-> << >>]
  <2>1. Gathers(f, segs, 0)
    BY DEF Gathers
  <2> QED
    BY <2>1
<1>2. \A n \in 0..k : n \in S => n + 1 \in S
  BY GathersMore
<1>3. k \in S
  <2> HIDE DEF S
  <2> QED
    BY <1>1, <1>2, UpTo, k \in 0..k
<1> QED
  BY <1>3

\* Selected(c) is the last of the texts gathered.
LEMMA SelectedGathers ==
    ASSUME NEW c, c.segs \in Seq(Segs)
    PROVE  \E f : Gathers(f, c.segs, Len(c.segs)) /\ Selected(c) = f[Len(c.segs)]
<1> DEFINE f == CHOOSE f : Gathers(f, c.segs, Len(c.segs))
<1>1. Len(c.segs) \in Nat
  OBVIOUS
<1>2. Gathers(f, c.segs, Len(c.segs))
  BY <1>1, GathersAll
<1>3. Selected(c) = f[Len(c.segs)]
  BY DEF Selected, Gathers
<1> QED
  BY <1>2, <1>3

\* One segment of the gathering.
LEMMA GatheredStep ==
    ASSUME NEW segs, NEW k \in Nat, NEW f, Gathers(f, segs, k)
    PROVE  f[0] = << >> /\ \A n \in 1..k : f[n] = Then(segs[n], f[n - 1])
<1>1. \A n \in 0..k : f[n] = IF n = 0 THEN << >> ELSE Then(segs[n], f[n - 1])
  BY DEF Gathers, Then
<1>2. 0 \in 0..k /\ \A n \in 1..k : n \in 0..k /\ n # 0
  OBVIOUS
<1> QED
  BY <1>1, <1>2

\* The text of a segment is a text.
LEMMA SegTextTyped == ASSUME NEW seg \in Segs PROVE SegText(seg) \in Texts
BY DEF Segs, SegText

\* The text carries every segment that no final covers, and nothing else.
LEMMA SelectedHolds ==
    ASSUME NEW c, c.segs \in Seq(Segs)
    PROVE  /\ Selected(c) \in Texts
           /\ \A i \in DOMAIN c.segs : ~c.segs[i].covered => Within(SegText(c.segs[i]), Selected(c))
           /\ Range(Selected(c)) \subseteq UNION {Range(SegText(c.segs[i])) : i \in DOMAIN c.segs}
<1> DEFINE N == Len(c.segs)
           All == UNION {Range(SegText(c.segs[i])) : i \in DOMAIN c.segs}
<1>1. N \in Nat /\ DOMAIN c.segs = 1..N /\ \A i \in 1..N : c.segs[i] \in Segs
  OBVIOUS
<1>2. PICK f : Gathers(f, c.segs, N) /\ Selected(c) = f[N]
  BY SelectedGathers
<1>3. f[0] = << >> /\ \A n \in 1..N : f[n] = Then(c.segs[n], f[n - 1])
  BY <1>1, <1>2, GatheredStep
<1> DEFINE Held(n) == \A i \in 1..n : ~c.segs[i].covered => Within(SegText(c.segs[i]), f[n])
           Good == {n \in 0..N : f[n] \in Texts /\ Held(n) /\ Range(f[n]) \subseteq All}
<1> HIDE DEF N
<1>4. 0 \in Good
  <2>1. << >> \in Texts /\ Range(<< >>) = {} /\ 1..0 = {}
    BY DEF Texts, Range
  <2> QED
    BY <1>1, <1>3, <2>1
<1>5. ASSUME NEW n \in 0..N, n < N, n \in Good PROVE n + 1 \in Good
  <2>1. n + 1 \in 1..N /\ (n + 1) - 1 = n /\ f[n + 1] = Then(c.segs[n + 1], f[n])
    BY <1>1, <1>3, <1>5
  <2>2. f[n] \in Texts /\ SegText(c.segs[n + 1]) \in Texts /\ Range(SegText(c.segs[n + 1])) \subseteq All
    BY <1>1, <1>5, <2>1, SegTextTyped
  <2>3. CASE c.segs[n + 1].covered
    <3>1. f[n + 1] = f[n]
      BY <2>1, <2>3 DEF Then
    <3>2. Held(n + 1)
      BY <1>1, <1>5, <2>3, <3>1
    <3> QED
      BY <1>5, <2>1, <3>1, <3>2
  <2>4. CASE ~c.segs[n + 1].covered
    <3>1. f[n + 1] = Join(f[n], SegText(c.segs[n + 1]))
      BY <2>1, <2>4 DEF Then
    <3>2. /\ f[n + 1] \in Texts /\ Within(f[n], f[n + 1]) /\ Within(SegText(c.segs[n + 1]), f[n + 1])
          /\ Range(f[n + 1]) \subseteq Range(f[n]) \cup Range(SegText(c.segs[n + 1]))
      BY <2>2, <3>1, JoinHolds
    <3>3. Held(n + 1)
      <4> SUFFICES ASSUME NEW i \in 1..(n + 1), ~c.segs[i].covered
                   PROVE  Within(SegText(c.segs[i]), f[n + 1])
        OBVIOUS
      <4>1. CASE i = n + 1
        BY <3>2, <4>1
      <4>2. CASE i # n + 1
        <5>1. i \in 1..n /\ i \in 1..N
          BY <1>1, <2>1, <4>2
        <5>2. Within(SegText(c.segs[i]), f[n]) /\ SegText(c.segs[i]) \in Texts
          BY <1>1, <1>5, <5>1, SegTextTyped
        <5> QED
          BY <2>2, <3>2, <5>2, WithinThrough
      <4> QED
        BY <4>1, <4>2
    <3> QED
      BY <1>5, <2>1, <2>2, <3>2, <3>3
  <2> QED
    BY <2>3, <2>4
<1>6. N \in Good
  <2> HIDE DEF Good
  <2> QED
    BY <1>1, <1>4, <1>5, UpTo, N \in 0..N
<1> QED
  BY <1>1, <1>2, <1>6

\* Candidates whose segments begin alike have gathered the same so far.
Alike(s, t, k) == \A n \in 1..k : s[n] = t[n]

\* Segments that are alike gather the same text.
LEMMA GatheredAlike ==
    ASSUME NEW s, NEW t, NEW k \in Nat, NEW m \in Nat, k <= m, NEW f, NEW g,
           Gathers(f, s, k), Gathers(g, t, m),
           Alike(s, t, k)
    PROVE  f[k] = g[k]
<1> USE DEF Alike
<1>1. f[0] = << >> /\ \A n \in 1..k : f[n] = Then(s[n], f[n - 1])
  BY GatheredStep
<1>2. g[0] = << >> /\ \A n \in 1..m : g[n] = Then(t[n], g[n - 1])
  BY GatheredStep
<1> DEFINE Same == {n \in 0..k : f[n] = g[n]}
<1>3. 0 \in Same
  BY <1>1, <1>2
<1>4. ASSUME NEW n \in 0..k, n < k, n \in Same PROVE n + 1 \in Same
  <2>1. n + 1 \in 1..k /\ n + 1 \in 1..m /\ (n + 1) - 1 = n
    BY <1>4
  <2>2. f[n + 1] = Then(s[n + 1], f[n]) /\ g[n + 1] = Then(t[n + 1], g[n])
    BY <1>1, <1>2, <2>1
  <2> QED
    BY <1>4, <2>1, <2>2
<1>5. k \in Same
  <2> HIDE DEF Same
  <2> QED
    BY <1>3, <1>4, UpTo, k \in 0..k
<1> QED
  BY <1>5

\* The selected text depends on the segments only.
LEMMA SelectedSame ==
    ASSUME NEW c, NEW d, c.segs \in Seq(Segs), d.segs = c.segs PROVE Selected(d) = Selected(c)
<1>1. PICK f : Gathers(f, c.segs, Len(c.segs)) /\ Selected(c) = f[Len(c.segs)]
  BY SelectedGathers
<1>2. PICK g : Gathers(g, d.segs, Len(d.segs)) /\ Selected(d) = g[Len(d.segs)]
  BY SelectedGathers
<1> DEFINE N == Len(c.segs)
<1>3. N \in Nat /\ N <= N
  OBVIOUS
<1>4. Gathers(f, c.segs, N) /\ Gathers(g, c.segs, N) /\ Selected(c) = f[N] /\ Selected(d) = g[N]
  BY <1>1, <1>2
<1> HIDE DEF N
<1>5. Alike(c.segs, c.segs, N)
  BY DEF Alike
<1>6. f[N] = g[N]
  BY <1>3, <1>4, <1>5, GatheredAlike
<1> QED
  BY <1>4, <1>6

\* The selected text with one more segment.
LEMMA SelectedAppends ==
    ASSUME NEW c, NEW d, NEW seg \in Segs, c.segs \in Seq(Segs), d.segs = Append(c.segs, seg)
    PROVE  Selected(d) = Then(seg, Selected(c))
<1> DEFINE N == Len(c.segs)
<1>1. /\ N \in Nat /\ d.segs \in Seq(Segs) /\ Len(d.segs) = N + 1 /\ d.segs[N + 1] = seg
      /\ \A n \in 1..N : c.segs[n] = d.segs[n]
  BY AppendProperties
<1>2. PICK f : Gathers(f, c.segs, N) /\ Selected(c) = f[N]
  BY SelectedGathers
<1>3. PICK g : Gathers(g, d.segs, N + 1) /\ Selected(d) = g[N + 1]
  BY <1>1, SelectedGathers
<1> HIDE DEF N
<1>4. f[N] = g[N]
  <2> DEFINE M == N + 1  cs == c.segs  ds == d.segs
  <2>1. N \in Nat /\ M \in Nat /\ N <= M
    BY <1>1
  <2>2. Gathers(f, cs, N) /\ Gathers(g, ds, M)
    BY <1>2, <1>3
  <2>3. Alike(cs, ds, N)
    BY <1>1 DEF Alike
  <2> HIDE DEF M, cs, ds
  <2> QED
    BY <2>1, <2>2, <2>3, GatheredAlike
<1>5. g[N + 1] = Then(d.segs[N + 1], g[N])
  <2>1. N + 1 \in 1..(N + 1) /\ (N + 1) - 1 = N /\ N + 1 \in Nat
    BY <1>1
  <2>2. Gathers(g, d.segs, N + 1)
    BY <1>3
  <2>3. \A n \in 1..(N + 1) : g[n] = Then(d.segs[n], g[n - 1])
    BY <2>1, <2>2, GatheredStep
  <2> QED
    BY <2>1, <2>3
<1> QED
  BY <1>1, <1>2, <1>3, <1>4, <1>5

\* The selected text of a single segment.
LEMMA SelectedOne ==
    ASSUME NEW d, NEW seg \in Segs, d.segs = <<seg>>, ~seg.covered
    PROVE  Selected(d) = SegText(seg)
<1>1. d.segs \in Seq(Segs) /\ Len(d.segs) = 1 /\ d.segs[1] = seg
  OBVIOUS
<1>2. PICK g : Gathers(g, d.segs, 1) /\ Selected(d) = g[1]
  BY <1>1, SelectedGathers
<1>3. g[0] = << >> /\ g[1] = Then(seg, g[0])
  <2>1. 1 \in 1..1 /\ 1 - 1 = 0 /\ 1 \in Nat
    OBVIOUS
  <2> QED
    BY <1>1, <1>2, <2>1, GatheredStep
<1>4. IsPrefix(<< >>, SegText(seg))
  <2>1. Len(SegText(seg)) \in Nat /\ Len(<< >>) = 0
    BY SegTextTyped DEF Texts
  <2>2. SubSeq(<< >>, 1, 0) = << >> /\ SubSeq(SegText(seg), 1, 0) = << >>
    BY SubSeqEmpty
  <2> QED
    BY <2>1, <2>2 DEF IsPrefix
<1> QED
  BY <1>2, <1>3, <1>4 DEF Then, Join

-----------------------------------------------------------------------------
\* The types of segments and candidates, and what the operators leave of a candidate.
LEMMA Greatest ==
    ASSUME NEW N \in Nat, NEW S \in SUBSET (1..N), S # {}
    PROVE  \E i \in S : \A j \in S : j <= i
<1> DEFINE T == {N - i : i \in S}
<1>1. T \in SUBSET Nat /\ T # {}
  <2>1. \A i \in S : N - i \in Nat
    OBVIOUS
  <2> QED
    BY <2>1
<1>2. PICK n \in T : \A m \in T : n <= m
  <2> HIDE DEF T
  <2> QED
    BY <1>1, LeastNumber
<1>3. PICK i \in S : n = N - i
  BY <1>2
<1>4. ASSUME NEW j \in S PROVE j <= i
  <2>1. N - j \in T /\ i \in 1..N /\ j \in 1..N
    OBVIOUS
  <2>2. n <= N - j
    BY <1>2, <2>1
  <2> QED
    BY <1>3, <2>1, <2>2
<1> QED
  BY <1>4

\* The segments the code makes are segments, and carry what they are made of.
LEMMA SegmentTyped ==
    /\ \A gen \in Nat, prior \in Finality : Segment(gen, prior) \in Segs /\ Segment(gen, prior).gen = gen
    /\ Typed => \A c \in Cands, text \in Texts, prior \in Finality :
                    /\ FrameworkSegment(c, text, prior) \in Segs
                    /\ FrameworkSegment(c, text, prior).text = text
                    /\ FrameworkSegment(c, text, prior).final = text
                    /\ ~FrameworkSegment(c, text, prior).covered
                    /\ SegText(FrameworkSegment(c, text, prior)) = text
<1>1. << >> \in Texts
  BY DEF Texts
<1>2. \A gen \in Nat, prior \in Finality : Segment(gen, prior) \in Segs
  BY <1>1 DEF Segment, Segs, Finality
<1>3. ASSUME Typed, NEW c \in Cands, NEW text \in Texts, NEW prior \in Finality
      PROVE  /\ FrameworkSegment(c, text, prior) \in Segs
             /\ FrameworkSegment(c, text, prior).text = text
             /\ FrameworkSegment(c, text, prior).final = text
             /\ ~FrameworkSegment(c, text, prior).covered
  <2> DEFINE n == IF c.gen = 0 THEN gens + 1 ELSE c.gen
  <2>1. n \in Nat
    BY <1>3 DEF Typed, Cands
  <2>2. Segment(n, prior) \in Segs /\ ~Segment(n, prior).covered
    BY <1>2, <2>1 DEF Segment
  <2>3. FrameworkSegment(c, text, prior) = [Segment(n, prior) EXCEPT !.text = text, !.final = text, !.ended = TRUE]
    BY DEF FrameworkSegment
  <2> HIDE DEF n
  <2> QED
    BY <1>3, <2>2, <2>3 DEF Segs
<1> QED
  BY <1>2, <1>3 DEF SegText, Segment

\* d is c with other segments, and what goes with them.
SameTurn(d, c) ==
    /\ d \in Cands
    /\ d.id = c.id /\ d.state = c.state /\ d.timeline = c.timeline /\ d.heard = c.heard

\* A segment added at the end leaves the rest of the turn alone.
LEMMA AddSegmentTyped ==
    ASSUME NEW c \in Cands, NEW seg \in Segs
    PROVE  SameTurn(AddSegment(c, seg), c) /\ AddSegment(c, seg).segs = Append(c.segs, seg)
           /\ AddSegment(c, seg).revs = c.revs /\ AddSegment(c, seg).gen = seg.gen
<1>1. Append(c.segs, seg) \in Seq(Segs) /\ seg.gen \in Nat
  BY DEF Cands, Segs
<1> QED
  BY <1>1 DEF AddSegment, Cands, SameTurn

\* One segment in place of all leaves the rest of the turn alone.
LEMMA ReplacedTyped ==
    ASSUME NEW c \in Cands, NEW seg \in Segs
    PROVE  /\ SameTurn([c EXCEPT !.segs = <<seg>>], c) /\ [c EXCEPT !.segs = <<seg>>].segs = <<seg>>
           /\ [c EXCEPT !.segs = <<seg>>].revs = c.revs
<1>1. <<seg>> \in Seq(Segs)
  OBVIOUS
<1> QED
  BY <1>1 DEF Cands, SameTurn

\* A segment is what it is with its own end.
LEMMA UnendedSame == ASSUME NEW seg \in Segs PROVE seg = [seg EXCEPT !.ended = seg.ended]
BY DEF Segs

\* When speech stops, nothing changes but the end of the last segment.
LEMMA StoppedTyped ==
    ASSUME NEW c \in Cands
    PROVE  /\ SameTurn(Stopped(c), c) /\ Len(Stopped(c).segs) = Len(c.segs) /\ Stopped(c).gen = c.gen
           /\ Stopped(c).revs = c.revs /\ (c.state # "open" => Stopped(c) = c)
           /\ \A i \in DOMAIN c.segs : Stopped(c).segs[i] = [c.segs[i] EXCEPT !.ended = Stopped(c).segs[i].ended]
<1>1. CASE c.state = "open" /\ c.segs # << >>
  <2> DEFINE n == Len(c.segs)
             seg == [c.segs[n] EXCEPT !.ended = TRUE]
  <2>1. n \in 1..Len(c.segs) /\ c.segs[n] \in Segs /\ c.segs \in Seq(Segs)
    BY <1>1 DEF Cands
  <2>2. seg \in Segs
    BY <2>1 DEF Segs
  <2>3. [c.segs EXCEPT ![n] = seg] \in Seq(Segs) /\ Len([c.segs EXCEPT ![n] = seg]) = Len(c.segs)
        /\ \A j \in 1..Len(c.segs) : [c.segs EXCEPT ![n] = seg][j] = IF j = n THEN seg ELSE c.segs[j]
    BY <2>1, <2>2, ExceptSeq
  <2>4. Stopped(c) = [c EXCEPT !.segs = [c.segs EXCEPT ![n] = seg]]
    BY <1>1 DEF Stopped
  <2>5. \A i \in DOMAIN c.segs : c.segs[i] \in Segs /\ c.segs[i] = [c.segs[i] EXCEPT !.ended = c.segs[i].ended]
    BY <2>1, UnendedSame
  <2> HIDE DEF n
  <2>6. \A i \in DOMAIN c.segs : Stopped(c).segs[i] = IF i = n THEN seg ELSE c.segs[i]
    BY <2>1, <2>3, <2>4 DEF Cands
  <2>7. \A i \in DOMAIN c.segs : Stopped(c).segs[i] = [c.segs[i] EXCEPT !.ended = Stopped(c).segs[i].ended]
    BY <2>1, <2>5, <2>6 DEF Segs
  <2> QED
    BY <1>1, <2>3, <2>4, <2>7 DEF Cands, SameTurn
<1>2. CASE ~(c.state = "open" /\ c.segs # << >>)
  <2>1. Stopped(c) = c
    BY <1>2 DEF Stopped
  <2>2. \A i \in DOMAIN c.segs : c.segs[i] \in Segs
    BY DEF Cands
  <2>3. \A i \in DOMAIN c.segs : c.segs[i] = [c.segs[i] EXCEPT !.ended = c.segs[i].ended]
    BY <2>2, UnendedSame
  <2> QED
    BY <2>1, <2>3 DEF SameTurn
<1> QED
  BY <1>1, <1>2

\* A candidate made of typed parts is typed.
LEMMA CandidateTyped ==
    ASSUME NEW id \in Nat, NEW timeline \in Nat, NEW heard \in BOOLEAN, NEW gen \in Nat, NEW segs \in Seq(Segs),
           NEW c, c = Candidate(id, timeline, heard, gen, segs)
    PROVE  /\ c \in Cands /\ c.id = id /\ c.state = "open" /\ c.timeline = timeline
           /\ c.heard = heard /\ c.segs = segs /\ c.revs = {} /\ c.gen = gen
BY DEF Candidate, Cands, Finality

\* No candidate is typed like one, and has no words.
LEMMA NoCandidateTyped ==
    /\ NoCandidate \in Cands /\ NoCandidate.id = 0 /\ NoCandidate.timeline = 0 /\ NoCandidate.state = "none"
    /\ NoCandidate.segs = << >>
<1>1. << >> \in Seq(Segs) /\ {} \in SUBSET Nat /\ 0 \in Nat
  OBVIOUS
<1>2. /\ Candidate(0, 0, FALSE, 0, << >>) \in Cands /\ Candidate(0, 0, FALSE, 0, << >>).segs = << >>
      /\ Candidate(0, 0, FALSE, 0, << >>).id = 0 /\ Candidate(0, 0, FALSE, 0, << >>).timeline = 0
  BY <1>1 DEF Candidate, Cands, Finality
<1> QED
  BY <1>2 DEF NoCandidate, Cands

\* A candidate just opened: fresh, on its own timeline, with one segment and no words.
LEMMA OpenedTyped ==
    ASSUME Typed, NEW heard \in BOOLEAN
    PROVE  /\ Opened(heard) \in Cands /\ Opened(heard).id = ids + 1 /\ Opened(heard).state = "open"
           /\ Opened(heard).timeline = ids + 1 /\ Opened(heard).gen = gens + 1
           /\ Opened(heard).segs = <<Segment(gens + 1, "none")>> /\ Opened(heard).revs = {}
<1> DEFINE n == ids + 1  g == gens + 1  segs == <<Segment(g, "none")>>
<1>1. Segment(g, "none") \in Segs
  BY SegmentTyped DEF Typed, Finality
<1>2. segs \in Seq(Segs) /\ n \in Nat /\ g \in Nat
  BY <1>1 DEF Typed
<1>3. Opened(heard) = Candidate(n, n, heard, g, segs)
  BY DEF Opened
<1> HIDE DEF n, g, segs
<1>4. LET c == Opened(heard)
      IN  /\ c \in Cands /\ c.id = n /\ c.state = "open" /\ c.timeline = n /\ c.gen = g
          /\ c.segs = segs /\ c.revs = {}
  BY <1>2, <1>3, CandidateTyped
<1> QED
  BY <1>4 DEF n, g, segs

\* A revision goes to one of the segments, or to a new one.
LEMMA SegmentForTyped ==
    ASSUME NEW c \in Cands, NEW rev, NEW text, NEW final
    PROVE  SegmentFor(c, rev, text, final) \in 0..Len(c.segs)
<1> DEFINE last == Len(c.segs)
           same == {i \in 1..last : rev # 0 /\ c.segs[i].rev = rev}
           like == {i \in 1..(last - 1) : Matches(SegText(c.segs[i]), text)}
           here == IF c.segs[last].final # << >> THEN 0 ELSE last
           Top(S) == CHOOSE i \in S : \A j \in S : j <= i
<1>1. last \in Nat
  BY DEF Cands
<1>2. same \in SUBSET (1..last) /\ like \in SUBSET (1..last)
  BY <1>1
<1>3. ASSUME NEW S \in SUBSET (1..last), S # {} PROVE Top(S) \in 0..last
  <2>1. \E i \in S : \A j \in S : j <= i
    <3> HIDE DEF last
    <3> QED
      BY <1>1, <1>3, Greatest
  <2>2. Top(S) \in S
    BY <2>1
  <2>3. S \subseteq 0..last
    BY <1>1
  <2> HIDE DEF Top, last
  <2> QED
    BY <2>2, <2>3
<1>4. here \in 0..last /\ 0 \in 0..last /\ last \in 0..last
  BY <1>1
<1>5. SegmentFor(c, rev, text, final) \in {0, last, here} \/ (same # {} /\ SegmentFor(c, rev, text, final) = Top(same))
      \/ (like # {} /\ SegmentFor(c, rev, text, final) = Top(like))
  BY DEF SegmentFor
<1> HIDE DEF same, like, here, last, Top
<1> QED
  BY <1>2, <1>3, <1>4, <1>5 DEF last

\* A revision is written to one segment, found or added.
Writes(w, c, rev, text, final) ==
    /\ SameTurn(w.cand, c) /\ w.index \in DOMAIN w.cand.segs
    /\ DOMAIN c.segs \subseteq DOMAIN w.cand.segs
    /\ \A j \in DOMAIN w.cand.segs : j # w.index => j \in DOMAIN c.segs /\ w.cand.segs[j] = c.segs[j]
    /\ w.cand.segs[w.index].text = text
    /\ rev # 0 => w.cand.segs[w.index].rev = rev
    /\ w.cand.segs[w.index].final =
         IF final THEN text
         ELSE IF w.index \in DOMAIN c.segs THEN c.segs[w.index].final ELSE << >>

\* What a transcript writes: the text of one segment, old or new, and nothing else.
LEMMA TranscriptTyped ==
    ASSUME Typed, NEW c \in Cands, NEW rev \in Nat, NEW text \in Texts, NEW final \in BOOLEAN,
           NEW w, w = WithTranscript(c, rev, text, final)
    PROVE  Writes(w, c, rev, text, final)
<1> DEFINE at == SegmentFor(c, rev, text, final)
           gen == IF c.gen = 0 THEN gens + 1 ELSE c.gen
           c1 == IF at = 0 THEN AddSegment(c, Segment(gen, c.last)) ELSE c
           i == IF at = 0 THEN Len(c1.segs) ELSE at
           old == c1.segs[i]
           seg == [old EXCEPT !.text = text,
                              !.rev = IF rev = 0 THEN @ ELSE rev,
                              !.final = IF final THEN text ELSE @,
                              !.covered = @ /\ ~final]
<1>1. at \in 0..Len(c.segs) /\ Len(c.segs) \in Nat
  BY SegmentForTyped DEF Cands
<1>2. gen \in Nat /\ c.last \in Finality
  BY DEF Typed, Cands
<1>3. /\ SameTurn(c1, c) /\ i \in DOMAIN c1.segs /\ c1.segs \in Seq(Segs) /\ DOMAIN c.segs \subseteq DOMAIN c1.segs
      /\ \A j \in DOMAIN c1.segs : j # i => j \in DOMAIN c.segs /\ c1.segs[j] = c.segs[j]
      /\ i \in DOMAIN c.segs => old = c.segs[i]
      /\ i \notin DOMAIN c.segs => old.final = << >>
  <2>1. CASE at = 0
    <3> DEFINE new == Segment(gen, c.last)
    <3>1. new \in Segs /\ new.final = << >>
      BY <1>2, SegmentTyped DEF Segment
    <3> HIDE DEF new, at, gen
    <3>2. /\ SameTurn(AddSegment(c, new), c) /\ AddSegment(c, new).segs = Append(c.segs, new)
          /\ c.segs \in Seq(Segs) /\ Append(c.segs, new) \in Seq(Segs) /\ Len(Append(c.segs, new)) = Len(c.segs) + 1
          /\ \A j \in 1..Len(c.segs) : Append(c.segs, new)[j] = c.segs[j]
          /\ Append(c.segs, new)[Len(c.segs) + 1] = new
      BY <3>1, AddSegmentTyped, AppendProperties DEF Cands
    <3>3. c1 = AddSegment(c, new) /\ i = Len(c.segs) + 1
      BY <2>1, <3>2 DEF new
    <3>4. Len(c.segs) \in Nat /\ DOMAIN c.segs = 1..Len(c.segs)
      BY DEF Cands
    <3> HIDE DEF c1, i
    <3>5. DOMAIN c1.segs = 1..(Len(c.segs) + 1) /\ c1.segs \in Seq(Segs) /\ SameTurn(c1, c)
      <4>1. c1.segs = Append(c.segs, new) /\ SameTurn(c1, c)
        BY <3>2, <3>3
      <4>2. c1.segs \in Seq(Segs) /\ Len(c1.segs) = Len(c.segs) + 1
        BY <3>2, <4>1
      <4> QED
        BY <4>1, <4>2, LenProperties
    <3>6. \A j \in 1..(Len(c.segs) + 1) : c1.segs[j] = IF j = i THEN new ELSE c.segs[j]
      BY <3>2, <3>3, <3>4
    <3> QED
      BY <3>1, <3>3, <3>4, <3>5, <3>6
  <2>2. CASE at # 0
    BY <1>1, <2>2 DEF SameTurn, Cands
  <2> QED
    BY <2>1, <2>2
<1>4. WithTranscript(c, rev, text, final) =
        [cand |-> [c1 EXCEPT !.segs[i] = seg,
                             !.revs = IF rev = 0 THEN @ ELSE @ \cup {rev},
                             !.last = IF final THEN "final" ELSE "interim"],
         index |-> i]
  BY DEF WithTranscript
<1> HIDE DEF c1, i, at, gen
<1>5. old \in Segs
  BY <1>3
<1>6. /\ seg \in Segs /\ seg.text = text /\ (rev # 0 => seg.rev = rev)
      /\ seg.final = IF final THEN text ELSE old.final
  BY <1>5 DEF Segs
<1> DEFINE segs == [c1.segs EXCEPT ![i] = seg]
<1>7. /\ segs \in Seq(Segs) /\ DOMAIN segs = DOMAIN c1.segs /\ segs[i] = seg
      /\ \A j \in DOMAIN c1.segs : j # i => segs[j] = c1.segs[j]
  <2> HIDE DEF seg
  <2> QED
    BY <1>3, <1>6, ExceptSeq
<1>8. c1 \in Cands
  BY <1>3 DEF SameTurn
<1> HIDE DEF seg
<1>9. /\ w.index = i /\ w.cand.segs = segs /\ SameTurn(w.cand, c1)
  <2>1. /\ w.index = i
        /\ w.cand = [c1 EXCEPT !.segs = segs, !.revs = IF rev = 0 THEN @ ELSE @ \cup {rev},
                               !.last = IF final THEN "final" ELSE "interim"]
    BY <1>4
  <2> DEFINE revs == IF rev = 0 THEN c1.revs ELSE c1.revs \cup {rev}
             mark == IF final THEN "final" ELSE "interim"
  <2>2. revs \in SUBSET Nat /\ mark \in Finality
    BY <1>8 DEF Cands, Finality
  <2>3. w.cand = [c1 EXCEPT !.segs = segs, !.revs = revs, !.last = mark]
    BY <2>1
  <2> HIDE DEF segs, revs, mark
  <2> QED
    BY <1>7, <1>8, <2>1, <2>2, <2>3 DEF Cands, SameTurn
<1> HIDE DEF segs
<1> QED
  BY <1>3, <1>6, <1>7, <1>9 DEF SameTurn, Writes

\* Segments rewritten in place leave the rest of the turn alone.
LEMMA RewrittenTyped ==
    ASSUME NEW c \in Cands, NEW segs \in [DOMAIN c.segs -> Segs], NEW d, d = [c EXCEPT !.segs = segs]
    PROVE  SameTurn(d, c) /\ d.segs = segs /\ DOMAIN d.segs = DOMAIN c.segs /\ d.revs = c.revs
<1>1. DOMAIN c.segs = 1..Len(c.segs) /\ Len(c.segs) \in Nat
  BY DEF Cands
<1>2. segs \in Seq(Segs)
  BY <1>1, SeqDef
<1>3. DOMAIN segs = DOMAIN c.segs
  OBVIOUS
<1> QED
  BY <1>2, <1>3 DEF SameTurn, Cands

\* A settled segment is covered: its words stay where they are.
LEMMA CoveredTyped ==
    ASSUME NEW c \in Cands, NEW i, NEW keys, NEW d, d = WithCovered(c, i, keys)
    PROVE  /\ SameTurn(d, c) /\ DOMAIN d.segs = DOMAIN c.segs /\ d.revs = c.revs
           /\ \A j \in DOMAIN c.segs : /\ d.segs[j].text = c.segs[j].text /\ d.segs[j].final = c.segs[j].final
                                       /\ d.segs[j].rev = c.segs[j].rev
<1> DEFINE segs == [j \in DOMAIN c.segs |->
                      IF j # i /\ c.segs[j].final = << >> /\ \E k \in keys : k[2] = j
                      THEN [c.segs[j] EXCEPT !.covered = TRUE] ELSE c.segs[j]]
<1>1. \A j \in DOMAIN c.segs : c.segs[j] \in Segs /\ [c.segs[j] EXCEPT !.covered = TRUE] \in Segs
  <2>1. \A j \in DOMAIN c.segs : c.segs[j] \in Segs
    BY DEF Cands
  <2> QED
    BY <2>1 DEF Segs
<1>2. segs \in [DOMAIN c.segs -> Segs]
  BY <1>1
<1>3. d = [c EXCEPT !.segs = segs]
  BY DEF WithCovered
<1>4. \A j \in DOMAIN c.segs : /\ segs[j].text = c.segs[j].text /\ segs[j].final = c.segs[j].final
                               /\ segs[j].rev = c.segs[j].rev
  BY <1>1 DEF Segs
<1> HIDE DEF segs
<1> QED
  BY <1>2, <1>3, <1>4, RewrittenTyped

\* What the framework heard is merged in: nothing is lost, nothing is added.
LEMMA FrameworkTyped ==
    ASSUME Typed, NEW c \in Cands, NEW text \in Texts, NEW d, d = WithFramework(c, text)
    PROVE  /\ SameTurn(d, c) /\ d.revs = c.revs
           /\ Selected(c) \in Texts /\ Selected(d) \in Texts
           /\ Within(text, Selected(d)) /\ Within(Selected(c), Selected(d))
           /\ Range(Selected(d)) \subseteq Range(Selected(c)) \cup Range(text)
           /\ \A j \in DOMAIN d.segs : \/ j \in DOMAIN c.segs /\ d.segs[j] = c.segs[j]
                                       \/ d.segs[j].text = text /\ d.segs[j].final = text
<1> DEFINE chosen == Selected(c)
<1>1. chosen \in Texts /\ c.segs \in Seq(Segs) /\ c.last \in Finality /\ "none" \in Finality
  BY SelectedHolds DEF Cands, Finality
<1>2. CASE text = << >> \/ (Within(text, chosen) /\ ~(chosen # << >> /\ Within(chosen, text)))
  <2>1. d = c
    BY <1>2 DEF WithFramework
  <2>2. Within(text, chosen) /\ Within(chosen, chosen)
    BY <1>1, <1>2, WithinItself
  <2> QED
    BY <1>1, <2>1, <2>2 DEF SameTurn
<1>3. CASE text # << >> /\ chosen # << >> /\ Within(chosen, text)
  <2> DEFINE seg == FrameworkSegment(c, text, "none")
  <2>1. d = [c EXCEPT !.segs = <<seg>>]
    BY <1>3 DEF WithFramework
  <2>2. seg \in Segs /\ seg.text = text /\ seg.final = text /\ ~seg.covered /\ SegText(seg) = text
    BY <1>1, SegmentTyped
  <2> HIDE DEF seg
  <2>3. SameTurn(d, c) /\ d.segs = <<seg>> /\ d.revs = c.revs
    BY <2>1, <2>2, ReplacedTyped
  <2>4. Selected(d) = text
    BY <2>2, <2>3, SelectedOne
  <2>5. DOMAIN d.segs = {1} /\ d.segs[1] = seg
    BY <2>3
  <2> QED
    BY <1>1, <1>3, <2>2, <2>3, <2>4, <2>5, WithinItself
<1>4. CASE ~(text = << >> \/ Within(text, chosen)) /\ ~(chosen # << >> /\ Within(chosen, text))
  <2> DEFINE seg == FrameworkSegment(c, text, c.last)
  <2>1. d = AddSegment(c, seg)
    BY <1>4 DEF WithFramework
  <2>2. seg \in Segs /\ seg.text = text /\ seg.final = text /\ ~seg.covered /\ SegText(seg) = text
    BY <1>1, SegmentTyped
  <2> HIDE DEF seg
  <2>3. SameTurn(d, c) /\ d.segs = Append(c.segs, seg) /\ d.revs = c.revs
    BY <2>1, <2>2, AddSegmentTyped
  <2>4. Selected(d) = Join(chosen, text)
    <3>1. Selected(d) = Then(seg, chosen)
      BY <1>1, <2>2, <2>3, SelectedAppends
    <3> QED
      BY <2>2, <3>1 DEF Then
  <2>5. \A j \in DOMAIN d.segs : \/ j \in DOMAIN c.segs /\ d.segs[j] = c.segs[j]
                                 \/ d.segs[j].text = text /\ d.segs[j].final = text
    <3>1. /\ Len(c.segs) \in Nat /\ DOMAIN c.segs = 1..Len(c.segs) /\ DOMAIN d.segs = 1..(Len(c.segs) + 1)
          /\ d.segs[Len(c.segs) + 1] = seg /\ \A j \in 1..Len(c.segs) : d.segs[j] = c.segs[j]
      BY <1>1, <2>2, <2>3, AppendProperties
    <3> QED
      BY <2>2, <3>1
  <2> HIDE DEF chosen
  <2>6. /\ Join(chosen, text) \in Texts /\ Within(chosen, Join(chosen, text)) /\ Within(text, Join(chosen, text))
        /\ Range(Join(chosen, text)) \subseteq Range(chosen) \cup Range(text)
    BY <1>1, JoinHolds
  <2> QED
    BY <1>1, <2>3, <2>4, <2>5, <2>6 DEF chosen
<1> QED
  BY <1>2, <1>3, <1>4

-----------------------------------------------------------------------------
\* How a completion concludes: with the open candidate, with the one already committed,
\* or with the first of the session.
First == Candidate(ids + 1, 0, FALSE, 0, << >>)

\* The candidate of a completion nobody recorded anything for.
LEMMA FirstTyped ==
    ASSUME Typed
    PROVE  First \in Cands /\ First.id = ids + 1 /\ First.timeline = 0 /\ First.segs = << >> /\ First.state = "open"
<1> DEFINE n == ids + 1
<1>1. << >> \in Seq(Segs) /\ n \in Nat
  BY DEF Typed
<1>2. First = Candidate(n, 0, FALSE, 0, << >>)
  BY DEF First
<1> HIDE DEF n
<1>3. First \in Cands /\ First.id = n /\ First.timeline = 0 /\ First.segs = << >> /\ First.state = "open"
  BY <1>1, <1>2 DEF Candidate, Cands, Finality
<1> QED
  BY <1>3 DEF n

Comes(c, g) ==
    \/ cand.state = "open" /\ c = WithFramework(cand, g.text)
    \/ cand.state = "committed" /\ c = cand /\ g.timeline \in {0, cand.timeline} /\ (g.timeline = 0 => tl = 0)
    \/ cand.state = "none" /\ cand = NoCandidate /\ g.timeline = 0 /\ c = WithFramework(First, g.text)

\* Which candidate a completion comes to: the open one, the one it repeats, or a fresh one.
LEMMA PreparedComes ==
    ASSUME Typed, Belongs, NEW g \in Gates, Fits(g), Outcome(g) \in {"ready", "wait"},
           NEW c, c = Prepared(g.text, g.timeline)
    PROVE  Comes(c, g)
<1>1. cand.state \in {"open", "committed", "none"}
  BY DEF Typed, Cands, Outcome
<1>2. CASE cand.state = "open"
  <2>1. [cand EXCEPT !.timeline = IF @ = 0 THEN g.timeline ELSE @] = cand
    BY <1>2 DEF Belongs, Typed, Cands
  <2> QED
    BY <1>2, <2>1 DEF Prepared, Terminal, Comes
<1>3. CASE cand.state = "committed"
  <2>1. g.cand = cand.id
    BY <1>3 DEF Fits
  <2> QED
    BY <1>3, <2>1 DEF Fits, Prepared, Terminal, Comes
<1>4. CASE cand.state = "none"
  <2>1. cand = NoCandidate /\ cand.id = 0
    BY <1>4, NoCandidateTyped DEF Belongs
  <2>2. g.cand = 0 /\ g.timeline = 0
    BY <2>1 DEF Fits, Gates
  <2> QED
    BY <1>4, <2>1, <2>2 DEF Prepared, Terminal, Comes, First
<1> QED
  BY <1>1, <1>2, <1>3, <1>4

\* The candidate a completion comes to is typed, and what is committed of it is its selected text.
LEMMA ComesTyped ==
    ASSUME Typed, Belongs, Recorded, NEW g \in Gates, NEW c, Comes(c, g)
    PROVE  /\ c \in Cands /\ c.timeline \in {0, c.id} /\ c.id <= ids + 1
           /\ cand.state \in {"open", "committed"} => c.id = cand.id /\ c.timeline = cand.timeline /\ c.state = cand.state
           /\ cand.state = "none" => c.id = ids + 1 /\ c.timeline = 0
           /\ Selected(c) \in Texts /\ Canonical(c, g.text) = Selected(c)
<1>1. g.text \in Texts /\ << >> \in Texts
  BY DEF Gates, Texts
<1>2. CASE cand.state = "open"
  <2>1. cand \in Cands /\ c = WithFramework(cand, g.text)
    BY <1>2 DEF Typed, Comes
  <2>2. SameTurn(c, cand) /\ Selected(c) \in Texts /\ Within(g.text, Selected(c))
    BY <1>1, <2>1, FrameworkTyped
  <2>3. Selected(c) = << >> => g.text = << >>
    BY <1>1, <2>2, WithinRange
  <2> QED
    BY <1>2, <2>2, <2>3 DEF SameTurn, Belongs, Canonical, Typed, Cands
<1>3. CASE cand.state = "committed"
  <2>1. c = cand /\ cand \in Cands /\ Selected(c) # << >>
    BY <1>3 DEF Typed, Comes, Recorded
  <2>2. Selected(c) \in Texts
    BY <2>1, SelectedHolds DEF Cands
  <2> QED
    BY <1>3, <2>1, <2>2 DEF Belongs, Canonical, Typed, Cands
<1>4. CASE cand.state = "none"
  <2>1. c = WithFramework(First, g.text) /\ First \in Cands /\ First.id = ids + 1 /\ First.timeline = 0
    BY <1>4, FirstTyped DEF Comes
  <2>2. SameTurn(c, First) /\ Selected(c) \in Texts /\ Within(g.text, Selected(c))
    BY <1>1, <2>1, FrameworkTyped
  <2>3. Selected(c) = << >> => g.text = << >>
    BY <1>1, <2>2, WithinRange
  <2> QED
    BY <1>4, <2>1, <2>2, <2>3 DEF SameTurn, Belongs, Canonical, Typed, Cands
<1>5. cand.state # "rejected"
  BY DEF Comes
<1> QED
  BY <1>2, <1>3, <1>4, <1>5 DEF Typed, Cands

\* The outcome: the turn stands as it was, or is decided.
Decided(c, g) ==
    /\ gate' = NoGate
    /\ tl' \in {0, tl} /\ vtl' \in {0, vtl} /\ out' \in {out, g.timeline} /\ sdk' \in {sdk, << >>}
    /\ ids' = (IF c.id > ids THEN c.id ELSE ids) /\ gens' = (IF c.gen > gens THEN c.gen ELSE gens)
    /\ cand' \in Cands /\ SameTurn(cand', [c EXCEPT !.state = cand'.state]) /\ cand'.segs = c.segs
    /\ cand.state = "committed" => cand' = cand
    /\ cand.state = "none" => cand'.state \in {"committed", "rejected"}
    /\ cand'.state # "none"
    /\ cand'.state = "committed" => Selected(c) # << >>
    /\ \/ sent' = sent
       \/ /\ sent' = Append(sent, [cand |-> c.id, heard |-> c.heard, words |-> Selected(c)])
          /\ cand'.state = "committed"
          /\ cand.state = "committed" => tl = 0

\* A candidate given another state.
LEMMA StatedTyped ==
    ASSUME NEW c \in Cands, NEW st \in {"open", "committed", "rejected"}, NEW d, d = [c EXCEPT !.state = st]
    PROVE  d \in Cands /\ d.state = st /\ SameTurn(d, [c EXCEPT !.state = d.state]) /\ d.segs = c.segs
           /\ (c.state = st => d = c)
BY DEF Cands, SameTurn

\* Every way a hook concludes decides the turn its completion came to.
LEMMA ConcludesDecides ==
    ASSUME Typed, Belongs, Recorded, NEW g \in Gates, Fits(g), Outcome(g) \in {"ready", "wait"}, Concludes(g)
    PROVE  \E c : Comes(c, g) /\ Decided(c, g)
<1> DEFINE c == Prepared(g.text, g.timeline)
<1>1. Comes(c, g)
  BY PreparedComes
<1>2. /\ c \in Cands /\ Canonical(c, g.text) = Selected(c)
      /\ cand.state \in {"open", "committed"} => c.id = cand.id /\ c.timeline = cand.timeline /\ c.state = cand.state
  BY <1>1, ComesTyped
<1>3. cand.state = "committed" => c = cand /\ g.timeline \in {0, cand.timeline} /\ (g.timeline = 0 => tl = 0)
  BY <1>1 DEF Comes
<1>4. cand.state \in {"open", "committed", "none"} /\ cand \in Cands
  BY <1>1 DEF Comes, Typed
<1>5. cand.state = "committed" => Selected(c) # << >>
  BY <1>3 DEF Recorded
<1>6. /\ gate' = NoGate
      /\ ids' = (IF c.id > ids THEN c.id ELSE ids) /\ gens' = (IF c.gen > gens THEN c.gen ELSE gens)
  BY DEF Concludes
<1>7. \A t : Flushed(t) \in {0, tl}
  BY DEF Flushed
<1>8. ASSUME NEW st \in {"open", "committed", "rejected"}, cand' = [c EXCEPT !.state = st]
      PROVE  cand' \in Cands /\ SameTurn(cand', [c EXCEPT !.state = cand'.state]) /\ cand'.segs = c.segs
             /\ cand'.state = st /\ (c.state = st => cand' = c)
  BY <1>2, <1>8, StatedTyped
<1> HIDE DEF c
<1>9. CASE Commits(c, g.text, g.timeline) /\ UNCHANGED <<sdk, vp, vtl>>
  <2>1. CASE Repeated(g.text, g.timeline)
    <3>1. cand.state = "committed" /\ c = cand /\ cand' = cand /\ UNCHANGED <<sent, out, tl>>
      BY <1>3, <1>4, <1>9, <2>1 DEF Repeated, Terminal, Commits
    <3>2. SameTurn(cand', [cand EXCEPT !.state = cand'.state])
      BY <1>4, <3>1 DEF SameTurn, Cands
    <3> QED
      BY <1>1, <1>4, <1>5, <1>6, <1>9, <3>1, <3>2 DEF Decided
  <2>2. CASE ~Repeated(g.text, g.timeline) /\ Selected(c) = << >>
    <3>1. cand' = [c EXCEPT !.state = "rejected"] /\ tl' = Flushed(g.timeline) /\ UNCHANGED <<sent, out>>
      BY <1>2, <1>9, <2>2 DEF Commits
    <3>2. cand.state # "committed"
      BY <1>5, <2>2
    <3>3. cand' \in Cands /\ SameTurn(cand', [c EXCEPT !.state = cand'.state]) /\ cand'.segs = c.segs
          /\ cand'.state = "rejected"
      BY <1>8, <3>1
    <3> QED
      BY <1>1, <1>6, <1>7, <1>9, <3>1, <3>2, <3>3 DEF Decided
  <2>3. CASE ~Repeated(g.text, g.timeline) /\ Selected(c) # << >>
    <3>1. /\ cand' = [c EXCEPT !.state = "committed"]
          /\ sent' = Append(sent, [cand |-> c.id, heard |-> c.heard, words |-> Selected(c)])
          /\ out' \in {out, g.timeline} /\ tl' \in {tl, Flushed(out)}
      BY <1>2, <1>9, <2>3 DEF Commits
    <3>2. cand' \in Cands /\ SameTurn(cand', [c EXCEPT !.state = cand'.state]) /\ cand'.segs = c.segs
          /\ cand'.state = "committed" /\ (c.state = "committed" => cand' = c)
      BY <1>8, <3>1
    <3>3. cand.state = "committed" => tl = 0
      BY <1>3, <2>3 DEF Repeated, Terminal
    <3>4. cand.state = "committed" => cand' = cand
      BY <1>2, <1>3, <3>2
    <3> QED
      BY <1>1, <1>6, <1>7, <1>9, <2>3, <3>1, <3>2, <3>3, <3>4 DEF Decided
  <2> QED
    BY <2>1, <2>2, <2>3
<1>10. CASE cand.state = "open" /\ cand' = c /\ UNCHANGED <<retired, sent, out, tl, sdk, vp, vtl>>
  <2>1. c.state = "open" /\ SameTurn(c, [c EXCEPT !.state = c.state])
    BY <1>2, <1>10 DEF SameTurn, Cands
  <2> QED
    BY <1>1, <1>2, <1>6, <1>10, <2>1 DEF Decided
<1>11. CASE /\ cand.state = "open" /\ cand' = [c EXCEPT !.state = "rejected"] /\ sdk' = << >> /\ vtl' = 0
            /\ tl' = Flushed(g.timeline) /\ UNCHANGED <<sent, out>>
  <2>1. cand' \in Cands /\ SameTurn(cand', [c EXCEPT !.state = cand'.state]) /\ cand'.segs = c.segs
        /\ cand'.state = "rejected"
    BY <1>8, <1>11
  <2> QED
    BY <1>1, <1>6, <1>7, <1>11, <2>1 DEF Decided
<1> QED
  BY <1>9, <1>10, <1>11 DEF Concludes, voice, c

-----------------------------------------------------------------------------
\* What a step does to the turn: it goes on, it makes room for another, its completion is
\* asked for, or it is decided.
GateRests == gate' \in {NoGate, gate} \/ gate' = Notified(gate)

\* Whoever sleeps is told, or nothing has changed that could settle the turn.
Told ==
    \/ gate'.pc # "settle" \/ gate'.woken
    \/ gate' = gate /\ (cand' = cand \/ cand' = Stopped(cand) \/ cand.state = "committed")

Stays ==
    /\ cand' \in Cands /\ cand'.id = cand.id /\ cand'.timeline = cand.timeline
    /\ cand'.state = cand.state \/ (cand.state = "open" /\ cand'.state = "rejected")
    /\ cand.state = "none" => cand' = cand
    /\ cand.state = "committed" => Selected(cand') = Selected(cand)
    /\ ids' = ids /\ tl' \in {0, tl} /\ vtl' \in {0, vtl, tl} /\ sent' = sent
    /\ GateRests /\ Told

Opens ==
    /\ cand' \in Cands /\ cand'.id = ids + 1 /\ cand'.timeline = ids + 1 /\ cand'.state = "open"
    /\ ids' = ids + 1 /\ tl' = ids + 1 /\ vtl' = 0 /\ sent' = sent
    /\ gate' = VoiceprintDropped(gate)

Asked(g) ==
    /\ g \in Gates /\ Fits(g)
    /\ g.text = (IF gate.pc = "off" THEN Head(queue) ELSE gate.text) /\ (gate.pc = "off" => queue # << >>)

Begins(g) ==
    /\ UNCHANGED <<cand, ids, tl, vtl, sent>> /\ gate' = g
    /\ g.pc = "settle" => Outcome(g) = "wait"

Form ==
    \/ Stays \/ Opens
    \/ \E g : Asked(g) /\ Begins(g)
    \/ \E g, c : Asked(g) /\ Comes(c, g) /\ Decided(c, g)

\* What reaches the gate leaves the completion it waits for alone.
LEMMA GatesTyped ==
    /\ NoGate \in Gates
    /\ \A g \in Gates : Notified(g) \in Gates /\ VoiceprintDropped(g) \in Gates
    /\ \A g \in Gates : /\ Notified(g).pc = g.pc /\ Notified(g).text = g.text /\ Notified(g).timeline = g.timeline
                        /\ Notified(g).cand = g.cand
<1>1. << >> \in Texts
  BY DEF Texts
<1>2. NoGate \in Gates
  BY <1>1 DEF NoGate, Gates
<1>3. \A g \in Gates : [g EXCEPT !.woken = TRUE] \in Gates
  BY DEF Gates
<1>4. \A g \in Gates : /\ Notified(g) \in Gates
                       /\ Notified(g).pc = g.pc /\ Notified(g).text = g.text /\ Notified(g).timeline = g.timeline
                       /\ Notified(g).cand = g.cand
  BY <1>3 DEF Notified, Gates
<1> QED
  BY <1>2, <1>4 DEF VoiceprintDropped

\* A notification, a cancellation and a change that settles nothing all leave the waiter told.
LEMMA GateIsTold ==
    ASSUME Typed
    PROVE  /\ gate' \in {Notified(gate), VoiceprintDropped(gate), NoGate} => GateRests /\ Told
           /\ gate' = gate /\ cand' \in {cand, Stopped(cand)} => GateRests /\ Told
<1>1. \A g \in Gates : Notified(g).pc = "settle" => Notified(g).woken
  BY DEF Notified, Gates
<1> QED
  BY <1>1 DEF Typed, GateRests, Told, VoiceprintDropped, NoGate

\* A turn that is as it was.
LEMMA SameTurnStays ==
    ASSUME Typed, cand' = cand, ids' = ids, tl' \in {0, tl}, vtl' \in {0, vtl, tl}, sent' = sent,
           gate' \in {gate, NoGate, Notified(gate), VoiceprintDropped(gate)}
    PROVE  Stays
BY GateIsTold DEF Typed, Stays

\* Where each word of the new text comes from.
Carries(d, c, rev, text, final) ==
    \A j \in DOMAIN d.segs :
        \/ /\ j \in DOMAIN c.segs /\ d.segs[j].text = c.segs[j].text /\ d.segs[j].final = c.segs[j].final
           /\ d.segs[j].rev = c.segs[j].rev
        \/ /\ d.segs[j].text = text /\ (rev # 0 => d.segs[j].rev = rev)
           /\ IF final THEN d.segs[j].final = text
              ELSE (j \in DOMAIN c.segs /\ d.segs[j].final = c.segs[j].final) \/ d.segs[j].final = << >>

\* When speech stops, the words stay where they are.
LEMMA StoppedCarries ==
    ASSUME NEW c \in Cands
    PROVE  /\ SameTurn(Stopped(c), c) /\ DOMAIN Stopped(c).segs = DOMAIN c.segs
           /\ \A j \in DOMAIN c.segs : /\ Stopped(c).segs[j].text = c.segs[j].text
                                       /\ Stopped(c).segs[j].final = c.segs[j].final
                                       /\ Stopped(c).segs[j].rev = c.segs[j].rev
<1>1. SameTurn(Stopped(c), c) /\ Len(Stopped(c).segs) = Len(c.segs)
      /\ \A i \in DOMAIN c.segs : Stopped(c).segs[i] = [c.segs[i] EXCEPT !.ended = Stopped(c).segs[i].ended]
  BY StoppedTyped
<1>2. DOMAIN Stopped(c).segs = DOMAIN c.segs
  BY <1>1 DEF SameTurn, Cands
<1>3. \A i \in DOMAIN c.segs : c.segs[i] \in Segs
  BY DEF Cands
<1> QED
  BY <1>1, <1>2, <1>3 DEF Segs

\* A transcript recorded: its words are in one segment, the others keep theirs.
LEMMA RecordsCarry ==
    ASSUME Typed, NEW rev \in Nat, NEW text \in Texts, NEW final \in BOOLEAN, Records(rev, text, final),
           NEW c, c = IF StartsNewTurn(rev) THEN Opened(FALSE) ELSE cand
    PROVE  IF c.state = "open"
           THEN /\ SameTurn(cand', c) /\ Carries(cand', c, rev, text, final) /\ gens' \in Nat
                /\ gate' = IF StartsNewTurn(rev) THEN VoiceprintDropped(gate) ELSE Notified(gate)
           ELSE UNCHANGED <<cand, gens, gate>>
<1> DEFINE w == WithTranscript(c, rev, text, final)
           c1 == IF final /\ ~w.cand.heard /\ ~speaking THEN Stopped(w.cand) ELSE w.cand
           by == CoveredBy(Observed(hyps, c1, w.index, rev, text, final), c1, w.index, final)
<1>1. c \in Cands
  BY OpenedTyped DEF Typed
<1>2. CASE c.state # "open"
  BY <1>2 DEF Records
<1>3. CASE c.state = "open"
  <2>1. /\ cand' = WithCovered(c1, w.index, by) /\ gens' \in {gens, gens + 1}
        /\ gate' = IF StartsNewTurn(rev) THEN VoiceprintDropped(gate) ELSE Notified(gate)
    BY <1>3 DEF Records
  <2>1a. w = WithTranscript(c, rev, text, final)
    OBVIOUS
  <2>1b. gens' \in Nat
    BY <2>1 DEF Typed
  <2> HIDE DEF w, by
  <2>2. SameTurn(w.cand, c) /\ Carries(w.cand, c, rev, text, final) /\ w.cand \in Cands
    <3>1. Writes(w, c, rev, text, final)
      BY <1>1, <2>1a, TranscriptTyped
    <3> QED
      BY <3>1 DEF Writes, Carries, SameTurn
  <2>3. /\ SameTurn(c1, w.cand) /\ DOMAIN c1.segs = DOMAIN w.cand.segs
        /\ \A j \in DOMAIN c1.segs : /\ c1.segs[j].text = w.cand.segs[j].text
                                     /\ c1.segs[j].final = w.cand.segs[j].final
                                     /\ c1.segs[j].rev = w.cand.segs[j].rev
    BY <2>2, StoppedCarries DEF SameTurn
  <2> HIDE DEF c1
  <2>4. /\ SameTurn(cand', c1) /\ DOMAIN cand'.segs = DOMAIN c1.segs
        /\ \A j \in DOMAIN c1.segs : /\ cand'.segs[j].text = c1.segs[j].text
                                     /\ cand'.segs[j].final = c1.segs[j].final
                                     /\ cand'.segs[j].rev = c1.segs[j].rev
    BY <2>1, <2>3, CoveredTyped DEF SameTurn
  <2>5. SameTurn(cand', c)
    BY <2>2, <2>3, <2>4 DEF SameTurn
  <2>6. Carries(cand', c, rev, text, final)
    BY <2>2, <2>3, <2>4 DEF Carries
  <2> QED
    BY <1>3, <2>1, <2>1b, <2>5, <2>6
<1> QED
  BY <1>2, <1>3

\* The types of the turn's part of the state.
TurnPart ==
    /\ cand \in Cands /\ gate \in Gates /\ {ids, gens, vtl, tl, out} \subseteq Nat
    /\ sent \in Seq([cand : Nat, heard : BOOLEAN, words : Texts])

\* A transcript that arrives lets the turn go on or opens another.
LEMMA ArrivesForm ==
    ASSUME Typed, NEW rev \in Nat, NEW text \in Texts, NEW final \in BOOLEAN, Arrives(rev, text, final),
           UNCHANGED <<sent, out>>
    PROVE  TurnPart' /\ sdk' \in Texts /\ (Stays \/ Opens)
<1> USE DEF TurnPart
<1>1. sdk' \in Texts
  <2>1. sdk \o text \in Texts
    BY ConcatHolds DEF Typed
  <2> QED
    BY <2>1 DEF Arrives, Typed
<1>2. CASE UNCHANGED <<cand, hyps, gate, gens, ids, tl, voice, suppress>>
  <2>1. UNCHANGED <<cand, gate, gens, ids, tl, vtl>>
    BY <1>2 DEF voice
  <2> QED
    BY <1>1, <2>1, SameTurnStays DEF Typed
<1>3. CASE /\ Absorbs(rev, text, final) /\ cand' = [cand EXCEPT !.segs = <<FrameworkSegment(cand, text, "none")>>]
           /\ UNCHANGED <<hyps, gate, gens, ids, tl, voice, suppress>>
  <2> DEFINE seg == FrameworkSegment(cand, text, "none")
  <2>1. seg \in Segs /\ ~seg.covered /\ SegText(seg) = text /\ cand \in Cands
    BY SegmentTyped DEF Typed, Finality
  <2>2. cand' = [cand EXCEPT !.segs = <<seg>>] /\ cand.state = "committed" /\ Selected(cand) = text
        /\ UNCHANGED <<gate, gens, ids, tl, vtl>>
    BY <1>3 DEF Absorbs, voice
  <2> HIDE DEF seg
  <2>3. SameTurn(cand', cand) /\ cand'.segs = <<seg>>
    BY <2>1, <2>2, ReplacedTyped
  <2>4. Selected(cand') = text
    BY <2>1, <2>3, SelectedOne
  <2>5. GateRests /\ Told
    BY <2>2 DEF GateRests, Told
  <2> QED
    BY <1>1, <2>2, <2>3, <2>4, <2>5 DEF Stays, SameTurn, Typed
<1>4. CASE Records(rev, text, final)
  <2> DEFINE c == IF StartsNewTurn(rev) THEN Opened(FALSE) ELSE cand
  <2>1. IF c.state = "open"
        THEN /\ SameTurn(cand', c) /\ gens' \in Nat
             /\ gate' = IF StartsNewTurn(rev) THEN VoiceprintDropped(gate) ELSE Notified(gate)
        ELSE UNCHANGED <<cand, gens, gate>>
    BY <1>4, RecordsCarry
  <2>2. CASE StartsNewTurn(rev)
    <3>1. /\ c \in Cands /\ c.id = ids + 1 /\ c.timeline = ids + 1 /\ c.state = "open"
      BY <2>2, OpenedTyped
    <3>2. ids' = ids + 1 /\ tl' = ids + 1 /\ vtl' = 0
      BY <1>4, <2>2 DEF Records
    <3>3. SameTurn(cand', c) /\ gate' = VoiceprintDropped(gate) /\ gens' \in Nat
      BY <2>1, <2>2, <3>1
    <3>4. Opens
      <4> HIDE DEF c
      <4>1. sent' = sent
        OBVIOUS
      <4> QED
        BY <3>1, <3>2, <3>3, <4>1 DEF Opens, SameTurn
    <3>5. gate' \in Gates /\ {ids', vtl', tl'} \subseteq Nat
      BY <3>2, <3>3, GatesTyped DEF Typed
    <3> QED
      BY <1>1, <3>3, <3>4, <3>5 DEF Opens, Typed
  <2>3. CASE ~StartsNewTurn(rev)
    <3>1. UNCHANGED <<ids, tl, vtl>>
      BY <1>4, <2>3 DEF Records, voice
    <3>2. CASE cand.state = "open"
      <4>1. SameTurn(cand', cand) /\ gate' = Notified(gate) /\ gens' \in Nat
        BY <2>1, <2>3, <3>2
      <4>2. Stays
        BY <3>1, <3>2, <4>1, GateIsTold DEF Stays, SameTurn
      <4>3. gate' \in Gates
        BY <4>1, GatesTyped DEF Typed
      <4> QED
        BY <1>1, <3>1, <4>1, <4>2, <4>3 DEF Stays, Typed
    <3>3. CASE cand.state # "open"
      <4>1. UNCHANGED <<cand, gens, gate>>
        BY <2>1, <2>3, <3>3
      <4> QED
        BY <1>1, <3>1, <4>1, SameTurnStays DEF Typed
    <3> QED
      BY <3>2, <3>3
  <2> QED
    BY <2>2, <2>3
<1> QED
  BY <1>2, <1>3, <1>4 DEF Arrives

\* Transcripts.
LEMMA SaidTyped ==
    ASSUME NEW u \in Sentences
    PROVE  /\ u \in Nat \ {0} /\ Said[u] \in Texts /\ Len(Said[u]) \in Nat \ {0}
           /\ \A n \in 1..Len(Said[u]) :
                /\ SubSeq(Said[u], 1, n) \in Texts /\ Range(SubSeq(Said[u], 1, n)) \subseteq Range(Said[u])
                /\ Said[u][1] \in Range(SubSeq(Said[u], 1, n))
<1>1. u \in Nat \ {0} /\ Said[u] \in Seq(Words) \ {<< >>}
  BY SaidAssumption DEF Sentences
<1>2. Len(Said[u]) \in Nat \ {0} /\ DOMAIN Said[u] = 1..Len(Said[u])
  BY <1>1, EmptySeq
<1>3. ASSUME NEW n \in 1..Len(Said[u])
      PROVE  /\ SubSeq(Said[u], 1, n) \in Texts /\ Range(SubSeq(Said[u], 1, n)) \subseteq Range(Said[u])
             /\ Said[u][1] \in Range(SubSeq(Said[u], 1, n))
  <2> DEFINE s == Said[u]
             part == SubSeq(s, 1, n)
  <2>1. \A i \in 1..n : s[i] \in Words
    BY <1>1, <1>2
  <2>2. part \in Seq(Words) /\ Len(part) = n /\ \A i \in 1..n : part[i] = s[i]
    <3>1. /\ part \in Seq(Words) /\ Len(part) = (IF 1 <= n THEN n - 1 + 1 ELSE 0)
          /\ \A i \in 1..(n - 1 + 1) : part[i] = s[1 + i - 1]
      BY <1>2, <2>1, SubSeqProperties
    <3> QED
      BY <1>2, <3>1
  <2>3. DOMAIN part = 1..n /\ 1..n \subseteq DOMAIN s
    BY <1>2, <2>2
  <2> HIDE DEF part
  <2>4. Range(part) \subseteq Range(s) /\ s[1] \in Range(part)
    <3>1. 1 \in 1..n
      OBVIOUS
    <3> QED
      BY <2>2, <2>3, <3>1 DEF Range
  <2> QED
    BY <2>2, <2>4 DEF part, Texts
<1> QED
  BY <1>1, <1>2, <1>3 DEF Texts

\* The types of the rest.
OtherPart ==
    /\ named \in BOOLEAN /\ checked \in BOOLEAN /\ upto \in Nat /\ sentence \in Nat \ {0}
    /\ sdk \in Texts /\ queue \in Seq(Texts)

\* The two parts of the types.
LEMMA TypedParts == (Typed <=> TurnPart /\ OtherPart) /\ (Typed' <=> TurnPart' /\ OtherPart')
BY DEF Typed, TurnPart, OtherPart

\* A rejection changes the state of the open turn only.
LEMMA RejectsTyped ==
    ASSUME Typed, Rejects
    PROVE  cand' \in Cands /\ cand'.id = cand.id /\ cand'.timeline = cand.timeline
           /\ cand.state = "open" /\ cand'.state = "rejected" /\ cand'.segs = cand.segs
BY DEF Typed, Rejects, Cands

\* A flush leaves the timeline or none.
LEMMA FlushedTyped == \A t : Flushed(t) \in {0, tl}
BY DEF Flushed

\* The open candidate is rejected, and whoever waits is told or cancelled.
LEMMA RejectsStays ==
    ASSUME Typed, Rejects, UNCHANGED <<ids, gens, sent, out>>, tl' \in {0, tl}, vtl' \in {0, vtl},
           gate' \in {NoGate, Notified(gate), VoiceprintDropped(gate)}
    PROVE  TurnPart' /\ Stays
<1>1. cand' \in Cands /\ cand'.id = cand.id /\ cand'.timeline = cand.timeline
      /\ cand.state = "open" /\ cand'.state = "rejected"
  BY RejectsTyped
<1>2. GateRests /\ Told /\ gate' \in Gates
  BY GateIsTold, GatesTyped DEF Typed
<1> QED
  BY <1>1, <1>2 DEF Stays, TurnPart, Typed

\* A refused voiceprint rejects the open turn or leaves a concluded one as it was.
LEMMA BlocksStays ==
    ASSUME Typed, NEW t, Blocks(t), vtl' = vtl
    PROVE  TurnPart' /\ Stays /\ (cand' = cand \/ cand'.state = "rejected")
<1>1. UNCHANGED <<ids, gens, sent, out>> /\ tl' \in {0, tl} /\ gate' = NoGate
  BY FlushedTyped DEF Blocks, RejectsCompletion
<1>2. CASE cand.state = "open"
  <2>1. Rejects
    BY <1>2 DEF Blocks, RejectsCompletion
  <2> QED
    BY <1>1, <2>1, RejectsStays, RejectsTyped
<1>3. CASE cand.state # "open"
  <2>1. cand' = cand
    BY <1>3 DEF Blocks, RejectsCompletion
  <2>2. tl' \in Nat /\ gate' \in Gates
    BY <1>1, GatesTyped DEF Typed
  <2> QED
    BY <1>1, <2>1, <2>2, SameTurnStays DEF Typed, TurnPart
<1> QED
  BY <1>2, <1>3

\* Speech stops.
LEMMA StopsForm == ASSUME Typed, SpeechStops PROVE TurnPart' /\ OtherPart' /\ Stays
<1>1. /\ cand' = Stopped(cand) /\ vtl' = tl /\ UNCHANGED <<ids, gens, gate, tl, out, sent>>
      /\ UNCHANGED <<named, checked, upto, sentence, sdk, queue>>
  BY DEF SpeechStops, provider
<1>2. SameTurn(cand', cand) /\ (cand.state # "open" => cand' = cand)
  BY <1>1, StoppedTyped DEF Typed
<1>3. GateRests /\ Told
  BY <1>1, GateIsTold
<1>4. cand.state \in {"none", "committed"} => cand' = cand
  BY <1>2
<1> QED
  BY <1>1, <1>2, <1>3, <1>4 DEF Stays, SameTurn, TurnPart, OtherPart, Typed

\* Speech starts.
LEMMA StartsForm == ASSUME Typed, SpeechStarts PROVE TurnPart' /\ OtherPart' /\ (Stays \/ Opens)
<1>1. OtherPart' /\ UNCHANGED <<out, sent>>
  BY DEF SpeechStarts, provider, Typed, OtherPart
<1>2. PICK inGrace \in BOOLEAN :
         IF CanMerge(inGrace)
         THEN /\ cand' = Continued
              /\ gens' = Continued.gen
              /\ gate' = IF Continued = cand THEN gate ELSE Notified(gate)
              /\ UNCHANGED <<ids, retired, voice, tl>>
         ELSE /\ cand' = Opened(TRUE)
              /\ gens' = gens + 1
              /\ ids' = ids + 1
              /\ retired' = retired \cup (IF cand.state = "open" THEN cand.revs ELSE {})
              /\ vp' = "none" /\ vtl' = 0
              /\ tl' = ids + 1
              /\ gate' = VoiceprintDropped(gate)
  BY DEF SpeechStarts
<1>3. CASE CanMerge(inGrace)
  <2>1. cand.state = "open" /\ cand' = Continued /\ gens' = Continued.gen /\ UNCHANGED <<ids, vtl, tl>>
        /\ (gate' = Notified(gate) \/ (gate' = gate /\ cand' = cand))
    BY <1>2, <1>3 DEF CanMerge, voice
  <2> DEFINE seg == Segment(gens + 1, cand.last)
  <2>2. seg \in Segs /\ cand \in Cands
    <3>1. gens + 1 \in Nat /\ cand.last \in Finality
      BY DEF Typed, Cands
    <3> QED
      BY <3>1, SegmentTyped DEF Typed
  <2>3. Continued \in {cand, AddSegment(cand, seg)}
    BY DEF Continued
  <2> HIDE DEF seg
  <2>4. SameTurn(Continued, cand)
    BY <2>2, <2>3, AddSegmentTyped DEF SameTurn
  <2>5. GateRests /\ Told /\ gate' \in Gates
    BY <2>1, GateIsTold, GatesTyped DEF Typed
  <2>6. Stays
    BY <1>1, <2>1, <2>4, <2>5 DEF Stays, SameTurn
  <2>7. gens' \in Nat
    BY <2>1, <2>4 DEF SameTurn, Cands
  <2> QED
    BY <1>1, <2>1, <2>5, <2>6, <2>7 DEF Stays, TurnPart, Typed
<1>4. CASE ~CanMerge(inGrace)
  <2>1. /\ cand' = Opened(TRUE) /\ gens' = gens + 1 /\ ids' = ids + 1 /\ vtl' = 0 /\ tl' = ids + 1
        /\ gate' = VoiceprintDropped(gate)
    BY <1>2, <1>4
  <2>2. cand' \in Cands /\ cand'.id = ids + 1 /\ cand'.timeline = ids + 1 /\ cand'.state = "open"
    BY <2>1, OpenedTyped
  <2>3. Opens
    BY <1>1, <2>1, <2>2 DEF Opens
  <2>4. gate' \in Gates
    BY <2>1, GatesTyped DEF Typed
  <2>5. {ids', gens', vtl', tl', out'} \subseteq Nat /\ sent' = sent
    BY <1>1, <2>1 DEF Typed
  <2> QED
    BY <1>1, <2>2, <2>3, <2>4, <2>5 DEF TurnPart, Typed
<1> QED
  BY <1>3, <1>4

\* A hypothesis or a final arrives.
LEMMA TranscriptForm ==
    ASSUME Typed, Hypothesis \/ Final PROVE TurnPart' /\ OtherPart' /\ (Stays \/ Opens)
<1>1. Rev \in Nat /\ UNCHANGED <<named, checked, queue, sent, out>>
  BY DEF Rev, Typed, Hypothesis, Final
<1>2. CASE Hypothesis
  <2>1. PICK n \in 1..Len(Said[sentence]) :
           upto' = n /\ Arrives(Rev, SubSeq(Said[sentence], 1, n), FALSE) /\ sentence \in Sentences
    <3>1. sentence \in Sentences /\ upto + 1 \in Nat \ {0}
      BY <1>2 DEF Hypothesis, Typed
    <3>2. \A n \in (IF named THEN upto + 1 ELSE IF upto = 0 THEN 1 ELSE upto)..Len(Said[sentence]) :
            n \in 1..Len(Said[sentence])
      BY <3>1, SaidTyped DEF Typed
    <3> QED
      BY <1>2, <3>1, <3>2 DEF Hypothesis
  <2>2. SubSeq(Said[sentence], 1, n) \in Texts /\ n \in Nat
    BY <2>1, SaidTyped
  <2>3. sentence' = sentence
    BY <1>2 DEF Hypothesis
  <2>4. TurnPart' /\ sdk' \in Texts /\ (Stays \/ Opens)
    BY <1>1, <2>1, <2>2, ArrivesForm
  <2> QED
    BY <1>1, <2>1, <2>2, <2>3, <2>4 DEF OtherPart, Typed
<1>3. CASE Final
  <2>1. sentence \in Sentences /\ Arrives(Rev, Said[sentence], TRUE) /\ sentence' = sentence + 1 /\ upto' = 0
    BY <1>3 DEF Final
  <2>2. Said[sentence] \in Texts
    BY <2>1, SaidTyped
  <2>3. TurnPart' /\ sdk' \in Texts /\ (Stays \/ Opens)
    BY <1>1, <2>1, <2>2, ArrivesForm
  <2> QED
    BY <1>1, <2>1, <2>3 DEF OtherPart, Typed
<1> QED
  BY <1>2, <1>3

\* What a withdrawal leaves of the candidate's segments.
Emptied(c, mine) ==
    [i \in DOMAIN c.segs |->
        IF i \in mine THEN [c.segs[i] EXCEPT !.text = << >>, !.final = << >>] ELSE c.segs[i]]

\* The segments of a withdrawn sentence have no words left; the others are as they were.
LEMMA EmptiedTyped ==
    ASSUME NEW c \in Cands, NEW mine, NEW segs, segs = Emptied(c, mine)
    PROVE  /\ segs \in [DOMAIN c.segs -> Segs] /\ (mine = {} => segs = c.segs)
           /\ \A j \in DOMAIN c.segs :
                IF j \in mine THEN segs[j].text = << >> /\ segs[j].final = << >> ELSE segs[j] = c.segs[j]
<1>1. \A i \in DOMAIN c.segs : c.segs[i] \in Segs
  BY DEF Cands
<1>2. << >> \in Texts
  BY DEF Texts
<1>3. \A i \in DOMAIN c.segs : [c.segs[i] EXCEPT !.text = << >>, !.final = << >>] \in Segs
  BY <1>1, <1>2 DEF Segs
<1>4. segs \in [DOMAIN c.segs -> Segs]
  BY <1>1, <1>3 DEF Emptied
<1>5. \A j \in DOMAIN c.segs :
         IF j \in mine THEN segs[j].text = << >> /\ segs[j].final = << >> ELSE segs[j] = c.segs[j]
  BY <1>1 DEF Segs, Emptied
<1>6. c.segs \in [1..Len(c.segs) -> Segs] /\ DOMAIN c.segs = 1..Len(c.segs)
  BY LenProperties DEF Cands
<1>7. mine = {} => segs = c.segs
  BY <1>6 DEF Emptied
<1> QED
  BY <1>4, <1>5, <1>7

Without(c, mine) == [c EXCEPT !.segs = Emptied(c, mine)]

\* A withdrawal leaves the rest of the turn alone.
LEMMA WithdrawnTyped ==
    ASSUME NEW c \in Cands, NEW mine, NEW d, d = Without(c, mine)
    PROVE  /\ SameTurn(d, c) /\ DOMAIN d.segs = DOMAIN c.segs /\ (mine = {} => d = c)
           /\ \A j \in DOMAIN c.segs :
                IF j \in mine THEN d.segs[j].text = << >> /\ d.segs[j].final = << >> ELSE d.segs[j] = c.segs[j]
<1> DEFINE segs == Emptied(c, mine)
<1>1. /\ segs \in [DOMAIN c.segs -> Segs] /\ (mine = {} => segs = c.segs)
      /\ \A j \in DOMAIN c.segs :
           IF j \in mine THEN segs[j].text = << >> /\ segs[j].final = << >> ELSE segs[j] = c.segs[j]
  BY EmptiedTyped
<1>2. d = [c EXCEPT !.segs = segs]
  BY DEF Without
<1> HIDE DEF segs
<1>2a. segs \in Seq(Segs)
  BY <1>1, SeqDef DEF Cands
<1>3. SameTurn(d, c) /\ d.segs = segs /\ DOMAIN d.segs = DOMAIN c.segs
  BY <1>1, <1>2, <1>2a DEF SameTurn, Cands
<1>4. mine = {} => d = c
  BY <1>1, <1>2 DEF Cands
<1> QED
  BY <1>1, <1>3, <1>4

\* A sentence is withdrawn.
LEMMA WithdrawnForm == ASSUME Typed, Withdrawn PROVE TurnPart' /\ OtherPart' /\ Stays
<1> DEFINE mine == {i \in DOMAIN cand.segs : named /\ cand.state = "open" /\ cand.segs[i].rev = sentence}
<1>1. cand' = Without(cand, mine) /\ gate' = IF mine = {} THEN gate ELSE Notified(gate)
  BY DEF Withdrawn, Without, Emptied
<1>1a. cand \in Cands
  BY DEF Typed
<1>2. UNCHANGED <<named, checked, ids, gens, sdk, queue, vtl, tl, out, sent>> /\ upto' = 0 /\ sentence' = sentence + 1
  BY DEF Withdrawn, voice
<1>3. mine # {} => cand.state = "open"
  OBVIOUS
<1> HIDE DEF mine
<1>4. SameTurn(cand', cand) /\ (mine = {} => cand' = cand)
  BY <1>1, <1>1a, WithdrawnTyped
<1>5. GateRests /\ Told /\ gate' \in Gates
  BY <1>1, <1>4, GateIsTold, GatesTyped DEF Typed
<1>6. cand.state # "open" => cand' = cand
  BY <1>3, <1>4
<1> QED
  BY <1>2, <1>4, <1>5, <1>6 DEF Stays, SameTurn, TurnPart, OtherPart, Typed

\* The framework, the timeout, the interruption owner, the reply and the session.
LEMMA SessionForm ==
    ASSUME Typed, EndpointCompletes \/ TranscriptionTimesOut \/ InterruptionRefuses \/ ReplyEnds \/ SessionCloses
    PROVE  TurnPart' /\ OtherPart' /\ Stays
<1>1. UNCHANGED <<named, checked, upto, sentence>>
  BY DEF EndpointCompletes, TranscriptionTimesOut, InterruptionRefuses, ReplyEnds, SessionCloses, provider
<1>2. << >> \in Texts
  BY DEF Texts
<1>3. CASE EndpointCompletes
  <2>1. UNCHANGED <<cand, ids, gens, gate, vtl, tl, out, sent>> /\ queue' = Append(queue, sdk) /\ sdk' = << >>
    BY <1>3 DEF EndpointCompletes, voice
  <2>2. queue' \in Seq(Texts)
    BY <2>1 DEF Typed
  <2> QED
    BY <1>1, <1>2, <2>1, <2>2, SameTurnStays DEF TurnPart, OtherPart, Typed
<1>4. CASE TranscriptionTimesOut \/ InterruptionRefuses
  <2>1. /\ Rejects /\ UNCHANGED <<ids, gens, sent, out, queue>> /\ tl' = Flushed(cand.timeline) /\ vtl' = 0
        /\ gate' = VoiceprintDropped(gate) /\ sdk' \in {sdk, << >>}
    BY <1>4 DEF TranscriptionTimesOut, InterruptionRefuses
  <2>2. TurnPart' /\ Stays
    BY <2>1, FlushedTyped, RejectsStays
  <2> QED
    BY <1>1, <1>2, <2>1, <2>2 DEF OtherPart, Typed
<1>5. CASE ReplyEnds
  <2>1. UNCHANGED <<cand, ids, gens, gate, vtl, sent, sdk, queue>> /\ out' = 0 /\ tl' \in {0, tl}
    BY <1>5, FlushedTyped DEF ReplyEnds, voice
  <2> QED
    BY <1>1, <2>1, SameTurnStays DEF TurnPart, OtherPart, Typed
<1>6. CASE SessionCloses
  <2>1. UNCHANGED <<ids, gens, sent, out, queue, sdk, vtl>>
    BY <1>6 DEF SessionCloses, voice
  <2>2. CASE cand.state = "open"
    <3>1. Rejects /\ tl' = Flushed(cand.timeline) /\ gate' = Notified(gate)
      BY <1>6, <2>2 DEF SessionCloses
    <3>2. TurnPart' /\ Stays
      BY <2>1, <3>1, FlushedTyped, RejectsStays
    <3> QED
      BY <1>1, <2>1, <3>2 DEF OtherPart, Typed
  <2>3. CASE cand.state # "open"
    <3>1. UNCHANGED <<cand, tl, gate>>
      BY <1>6, <2>3 DEF SessionCloses
    <3> QED
      BY <1>1, <2>1, <3>1, SameTurnStays DEF TurnPart, OtherPart, Typed
  <2> QED
    BY <2>2, <2>3
<1> QED
  BY <1>3, <1>4, <1>5, <1>6

-----------------------------------------------------------------------------
\* The hook of a completed turn.
LEMMA DecidedTyped ==
    ASSUME Typed, Belongs, Recorded, NEW g \in Gates, NEW c, Comes(c, g), Decided(c, g)
    PROVE  TurnPart' /\ sdk' \in Texts
<1>1. c \in Cands /\ Selected(c) \in Texts
  BY ComesTyped
<1>2. c.id \in Nat /\ c.gen \in Nat /\ c.heard \in BOOLEAN /\ g.timeline \in Nat /\ << >> \in Texts
  BY <1>1 DEF Cands, Gates, Texts
<1>3. {ids', gens', vtl', tl', out'} \subseteq Nat /\ sdk' \in Texts /\ gate' \in Gates /\ cand' \in Cands
  BY <1>2, GatesTyped DEF Decided, Typed
<1>4. sent' \in Seq([cand : Nat, heard : BOOLEAN, words : Texts])
  <2>1. [cand |-> c.id, heard |-> c.heard, words |-> Selected(c)] \in [cand : Nat, heard : BOOLEAN, words : Texts]
    BY <1>1, <1>2
  <2>2. Append(sent, [cand |-> c.id, heard |-> c.heard, words |-> Selected(c)])
           \in Seq([cand : Nat, heard : BOOLEAN, words : Texts])
    BY <2>1, AppendProperties DEF Typed
  <2> QED
    BY <2>2 DEF Decided, Typed
<1> QED
  BY <1>3, <1>4 DEF TurnPart

Hook ==
    \/ Stays /\ (cand' = cand \/ cand'.state = "rejected")
    \/ \E g : Asked(g) /\ Begins(g)
    \/ \E g, c : Asked(g) /\ Comes(c, g) /\ Decided(c, g)

\* A completion that has settled, or that waited long enough.
LEMMA ConcludesForm ==
    ASSUME Typed, Belongs, Recorded, NEW g, Asked(g), Outcome(g) \in {"ready", "wait"}, Concludes(g)
    PROVE  TurnPart' /\ sdk' \in Texts /\ Hook
<1>1. g \in Gates /\ Fits(g)
  BY DEF Asked
<1>2. PICK c : Comes(c, g) /\ Decided(c, g)
  BY <1>1, ConcludesDecides
<1> QED
  BY <1>1, <1>2, DecidedTyped DEF Hook

\* One turn of the settlement loop.
LEMMA SettlesForm ==
    ASSUME Typed, Belongs, Recorded, NEW g, Asked(g), Settles(g)
    PROVE  TurnPart' /\ sdk' \in Texts /\ Hook
<1>1. CASE gate' = NoGate /\ UNCHANGED <<cand, ids, gens, sent, out, tl, sdk, voice>>
  <2>1. gate' \in Gates /\ UNCHANGED <<cand, ids, gens, sent, out, tl, sdk, vtl>>
    BY <1>1, GatesTyped DEF voice
  <2> QED
    BY <1>1, <2>1, SameTurnStays DEF Hook, TurnPart, Typed
<1>2. CASE Outcome(g) = "ready" /\ Concludes(g)
  BY <1>2, ConcludesForm
<1>3. CASE /\ Outcome(g) = "wait" /\ gate' = [g EXCEPT !.woken = FALSE]
           /\ UNCHANGED <<cand, ids, gens, sent, out, tl, sdk, voice>>
  <2>1. /\ gate' \in Gates /\ gate'.text = g.text /\ gate'.cand = g.cand /\ gate'.gen = g.gen
        /\ gate'.timeline = g.timeline /\ gate'.pc = g.pc
    BY <1>3 DEF Asked, Gates
  <2>2. UNCHANGED <<cand, ids, gens, sent, out, tl, sdk, vtl>>
    BY <1>3 DEF voice
  <2>3. Asked(gate')
    BY <2>1 DEF Asked, Fits
  <2>4. Outcome(gate') = "wait"
    BY <1>3, <2>1 DEF Outcome
  <2> QED
    BY <2>1, <2>2, <2>3, <2>4 DEF Hook, Begins, TurnPart, Typed
<1> QED
  BY <1>1, <1>2, <1>3 DEF Settles

\* A completion that is allowed to go on.
LEMMA RoutesForm ==
    ASSUME Typed, Belongs, Recorded, NEW text \in Texts, NEW t \in {0, cand.timeline}, t = 0 => tl = 0,
           text = (IF gate.pc = "off" THEN Head(queue) ELSE gate.text), gate.pc = "off" => queue # << >>,
           Routes(text, t)
    PROVE  TurnPart' /\ sdk' \in Texts /\ Hook
<1>1. CASE cand.state = "rejected"
  <2>1. gate' = NoGate /\ gate' \in Gates /\ UNCHANGED <<cand, ids, gens, sent, out, tl, sdk, vtl>>
    BY <1>1, GatesTyped DEF Routes, voice
  <2> QED
    BY <2>1, SameTurnStays DEF Hook, TurnPart, Typed
<1>2. CASE cand.state # "rejected"
  <2> DEFINE g == [pc |-> "settle", text |-> text, timeline |-> t, cand |-> cand.id,
                   gen |-> CurrentGen(cand), woken |-> FALSE]
  <2>1. CurrentGen(cand) \in Nat /\ cand.id \in Nat /\ t \in Nat
    <3>1. cand.segs \in Seq(Segs) /\ cand.id \in Nat /\ cand.timeline \in Nat
      BY DEF Typed, Cands
    <3>2. cand.segs # << >> => cand.segs[Len(cand.segs)] \in Segs
      BY <3>1
    <3> QED
      BY <3>1, <3>2 DEF CurrentGen, Segs
  <2>2. Asked(g)
    BY <2>1 DEF Asked, Gates, Fits, Belongs
  <2>3. Settles(g)
    BY <1>2 DEF Routes
  <2> HIDE DEF g
  <2> QED
    BY <2>2, <2>3, SettlesForm
<1> QED
  BY <1>1, <1>2

\* Every step of the hook.
LEMMA HookForm ==
    ASSUME Typed, Belongs, Recorded, gate.pc # "off" => Fits(gate),
           HookStarts \/ VoiceprintAnswers \/ SettlementWakes \/ SettlementExpires
    PROVE  TurnPart' /\ OtherPart' /\ Hook
<1>1. UNCHANGED <<named, checked, upto, sentence>>
  BY DEF HookStarts, VoiceprintAnswers, SettlementWakes, SettlementExpires, provider
<1>2. gate \in Gates /\ gate.text \in Texts
  BY DEF Typed, Gates
<1>3. CASE HookStarts
  <2> DEFINE t == IF vtl # 0 THEN vtl ELSE tl
             text == Head(queue)
  <2>1. queue # << >> /\ queue' = Tail(queue) /\ gate.pc = "off"
    BY <1>3 DEF HookStarts
  <2>2. text \in Texts /\ queue' \in Seq(Texts)
    BY <2>1, HeadTailProperties DEF Typed
  <2>3. t \in {0, cand.timeline} /\ (t = 0 => tl = 0) /\ t \in Nat
    BY DEF Belongs, Typed
  <2>4. CASE /\ gate' = [pc |-> "voice", text |-> text, timeline |-> t,
                         cand |-> cand.id, gen |-> CurrentGen(cand), woken |-> FALSE]
             /\ UNCHANGED <<cand, ids, gens, retired, sent, out, tl, sdk, voice, suppress>>
    <3>1. CurrentGen(cand) \in Nat /\ cand.id \in Nat
      <4>1. cand.segs \in Seq(Segs) /\ cand.id \in Nat
        BY DEF Typed, Cands
      <4>2. cand.segs # << >> => cand.segs[Len(cand.segs)] \in Segs
        BY <4>1
      <4> QED
        BY <4>1, <4>2 DEF CurrentGen, Segs
    <3>2. UNCHANGED <<cand, ids, gens, sent, out, tl, sdk, vtl>>
      BY <2>4 DEF voice
    <3> HIDE DEF t, text
    <3>3. gate' \in Gates /\ gate'.pc = "voice" /\ gate'.text = text /\ gate'.timeline = t /\ gate'.cand = cand.id
      BY <2>2, <2>3, <2>4, <3>1 DEF Gates
    <3>4. Fits(gate')
      BY <2>3, <3>3 DEF Fits, Belongs
    <3>5. Asked(gate') /\ Begins(gate')
      BY <2>1, <3>2, <3>3, <3>4 DEF Asked, Begins, text
    <3> QED
      BY <1>1, <2>2, <3>2, <3>3, <3>5 DEF Hook, TurnPart, OtherPart, Typed
  <2>5. CASE Blocks(t) /\ UNCHANGED voice
    <3>1. vtl' = vtl /\ sdk' = sdk
      BY <2>5 DEF voice, Blocks
    <3>2. TurnPart' /\ Stays /\ (cand' = cand \/ cand'.state = "rejected")
      BY <2>5, <3>1, BlocksStays
    <3> QED
      BY <1>1, <2>2, <3>1, <3>2 DEF Hook, OtherPart, Typed
  <2>6. CASE Routes(text, t)
    <3>1. text = (IF gate.pc = "off" THEN Head(queue) ELSE gate.text) /\ queue # << >>
      BY <2>1
    <3> HIDE DEF t, text
    <3>2. TurnPart' /\ sdk' \in Texts /\ Hook
      BY <2>2, <2>3, <2>6, <3>1, RoutesForm
    <3> QED
      BY <1>1, <2>2, <3>2 DEF OtherPart, Typed
  <2> QED
    BY <1>3, <2>4, <2>5, <2>6 DEF HookStarts
<1>4. CASE VoiceprintAnswers
  <2>1. gate.pc = "voice" /\ queue' = queue
    BY <1>4 DEF VoiceprintAnswers
  <2>2. CASE gate' = NoGate /\ UNCHANGED <<cand, ids, gens, retired, sent, out, tl, sdk, voice, suppress>>
    <3>1. gate' \in Gates /\ UNCHANGED <<cand, ids, gens, sent, out, tl, sdk, vtl>>
      BY <2>2, GatesTyped DEF voice
    <3> QED
      BY <1>1, <2>1, <2>2, <3>1, SameTurnStays DEF Hook, TurnPart, OtherPart, Typed
  <2>3. CASE cand.id = gate.cand /\ Routes(gate.text, gate.timeline)
    <3>1. gate.timeline \in {0, cand.timeline} /\ (gate.timeline = 0 => tl = 0)
      BY <2>1, <2>3 DEF Fits
    <3>2. gate.text = (IF gate.pc = "off" THEN Head(queue) ELSE gate.text) /\ gate.pc # "off"
      BY <2>1
    <3>3. TurnPart' /\ sdk' \in Texts /\ Hook
      BY <1>2, <2>3, <3>1, <3>2, RoutesForm
    <3> QED
      BY <1>1, <2>1, <3>3 DEF OtherPart, Typed
  <2>4. CASE Blocks(gate.timeline) /\ (UNCHANGED vtl \/ UNCHANGED <<suppress, voice>>)
    <3>1. vtl' = vtl /\ sdk' = sdk
      BY <2>4 DEF voice, Blocks
    <3>2. TurnPart' /\ Stays /\ (cand' = cand \/ cand'.state = "rejected")
      BY <2>4, <3>1, BlocksStays
    <3> QED
      BY <1>1, <2>1, <3>1, <3>2 DEF Hook, OtherPart, Typed
  <2> QED
    BY <1>4, <2>2, <2>3, <2>4 DEF VoiceprintAnswers
<1>5. CASE SettlementWakes \/ SettlementExpires
  <2>1. gate.pc = "settle" /\ queue' = queue /\ (Settles(gate) \/ (Outcome(gate) = "wait" /\ Concludes(gate)))
    BY <1>5 DEF SettlementWakes, SettlementExpires
  <2>2. Asked(gate)
    BY <1>2, <2>1 DEF Asked
  <2>3. TurnPart' /\ sdk' \in Texts /\ Hook
    BY <2>1, <2>2, SettlesForm, ConcludesForm
  <2> QED
    BY <1>1, <2>1, <2>3 DEF OtherPart, Typed
<1> QED
  BY <1>3, <1>4, <1>5

\* Every step of the model has the form above.
LEMMA NextForm ==
    ASSUME Typed, Belongs, Recorded, gate.pc # "off" => Fits(gate), TurnNext
    PROVE  Typed' /\ Form
<1>1. CASE HookStarts \/ VoiceprintAnswers \/ SettlementWakes \/ SettlementExpires
  BY <1>1, HookForm, TypedParts DEF Hook, Form
<1>2. CASE SpeechStarts
  BY <1>2, StartsForm, TypedParts DEF Form
<1>3. CASE SpeechStops
  BY <1>3, StopsForm, TypedParts DEF Form
<1>4. CASE Hypothesis \/ Final
  BY <1>4, TranscriptForm, TypedParts DEF Form
<1>5. CASE Withdrawn
  BY <1>5, WithdrawnForm, TypedParts DEF Form
<1>6. CASE EndpointCompletes \/ TranscriptionTimesOut \/ InterruptionRefuses \/ ReplyEnds \/ SessionCloses
  BY <1>6, SessionForm, TypedParts DEF Form
<1> QED
  BY <1>1, <1>2, <1>3, <1>4, <1>5, <1>6 DEF TurnNext

-----------------------------------------------------------------------------
\* The invariant.
LEMMA BelongsKept ==
    ASSUME Typed, Belongs, Recorded, Form, Typed' PROVE Belongs'
<1>1. ids \in Nat /\ cand \in Cands /\ cand.state \in {"none", "open", "committed", "rejected"}
  BY DEF Typed, Cands
<1>2. CASE Stays
  BY <1>1, <1>2 DEF Stays, Belongs, Typed, Cands
<1>3. CASE Opens
  BY <1>1, <1>3 DEF Opens, Belongs, Typed, Cands
<1>4. CASE \E g : Asked(g) /\ Begins(g)
  <2>1. UNCHANGED <<cand, ids, tl, vtl>>
    BY <1>4 DEF Begins
  <2> QED
    BY <2>1 DEF Belongs
<1>5. CASE \E g, c : Asked(g) /\ Comes(c, g) /\ Decided(c, g)
  <2>1. PICK g, c : g \in Gates /\ Comes(c, g) /\ Decided(c, g)
    BY <1>5 DEF Asked
  <2>2. /\ c \in Cands /\ c.timeline \in {0, c.id} /\ c.id <= ids + 1
        /\ cand.state \in {"open", "committed"} => c.id = cand.id /\ c.timeline = cand.timeline /\ c.state = cand.state
        /\ cand.state = "none" => c.id = ids + 1 /\ c.timeline = 0
    BY <2>1, ComesTyped
  <2>3. cand.state \in {"open", "committed", "none"} /\ (cand.state = "none" => cand = NoCandidate)
    BY <2>1 DEF Comes
  <2>4. cand'.id = c.id /\ cand'.timeline = c.timeline /\ cand'.state # "none" /\ c.id \in Nat
    BY <2>1, <2>2 DEF Decided, SameTurn, Cands
  <2>5. cand'.id <= ids'
    BY <1>1, <2>1, <2>4 DEF Decided
  <2>6. tl' \in {0, tl} /\ vtl' \in {0, vtl}
    BY <2>1 DEF Decided
  <2>7. cand'.state = "open" => cand.state = "open"
    BY <2>1, <2>3 DEF Decided
  <2>8. cand.state = "none" => cand.timeline = 0
    BY <2>3, NoCandidateTyped
  <2>9. tl' \in {0, cand'.timeline} /\ vtl' \in {0, cand'.timeline}
    BY <2>2, <2>3, <2>4, <2>6, <2>8 DEF Belongs
  <2>10. cand'.state = "open" => cand'.id # 0 /\ cand'.timeline = cand'.id
    BY <2>2, <2>4, <2>7 DEF Belongs
  <2> QED
    BY <2>2, <2>4, <2>5, <2>9, <2>10 DEF Belongs
<1> QED
  BY <1>2, <1>3, <1>4, <1>5 DEF Form

\* A completion that waits is still of this turn or of one before it.
LEMMA FitsKept ==
    ASSUME Typed, Belongs, gate.pc # "off" => Fits(gate), Form PROVE (gate.pc # "off" => Fits(gate))'
<1>1. ids \in Nat /\ cand \in Cands /\ gate \in Gates /\ NoGate.pc = "off"
  BY DEF Typed, NoGate
<1>2. /\ Notified(gate).pc = gate.pc /\ Notified(gate).cand = gate.cand /\ Notified(gate).timeline = gate.timeline
  BY <1>1, GatesTyped
<1>3. CASE Stays
  <2>1. /\ cand'.id = cand.id /\ cand'.timeline = cand.timeline
        /\ cand'.state = "committed" => cand.state = "committed"
        /\ tl = 0 => tl' = 0
    BY <1>3 DEF Stays
  <2>2. gate'.pc # "off" => gate'.pc = gate.pc /\ gate'.cand = gate.cand /\ gate'.timeline = gate.timeline
    BY <1>1, <1>2, <1>3 DEF Stays, GateRests
  <2> QED
    BY <2>1, <2>2 DEF Fits
<1>4. CASE Opens
  <2>1. gate'.pc # "off" => gate'.pc = gate.pc /\ gate'.cand = gate.cand /\ gate'.timeline = gate.timeline
    BY <1>1, <1>2, <1>4 DEF Opens, VoiceprintDropped
  <2>2. cand'.id = ids + 1 /\ cand'.state = "open" /\ cand.id <= ids /\ cand.id \in Nat /\ gate.cand \in Nat
    BY <1>1, <1>4 DEF Opens, Belongs, Cands, Gates
  <2>3. gate'.pc # "off" => gate'.cand <= ids
    BY <1>1, <2>1, <2>2 DEF Fits
  <2>4. gate'.pc # "off" => gate'.cand # cand'.id /\ gate'.cand < cand'.id
    BY <1>1, <2>1, <2>2, <2>3
  <2> QED
    BY <2>1, <2>2, <2>4 DEF Fits
<1>5. CASE \E g : Asked(g) /\ Begins(g)
  <2>1. UNCHANGED <<cand, tl>> /\ Fits(gate')
    BY <1>5 DEF Begins, Asked
  <2> QED
    BY <2>1 DEF Fits
<1>6. CASE \E g, c : Asked(g) /\ Comes(c, g) /\ Decided(c, g)
  BY <1>1, <1>6 DEF Decided
<1> QED
  BY <1>3, <1>4, <1>5, <1>6 DEF Form

\* What is committed stays recorded, and nothing is committed that is still open.
LEMMA RecordedKept ==
    ASSUME Typed, Belongs, Recorded, Form, Typed' PROVE Recorded'
<1>1. ids \in Nat /\ sent \in Seq([cand : Nat, heard : BOOLEAN, words : Texts])
  BY DEF Typed
<1>1a. \A i \in DOMAIN sent : sent[i] \in [cand : Nat, heard : BOOLEAN, words : Texts]
  <2> DEFINE R == [cand : Nat, heard : BOOLEAN, words : Texts]
  <2>1. sent \in Seq(R)
    BY <1>1
  <2> HIDE DEF R
  <2>2. \A i \in DOMAIN sent : sent[i] \in R
    BY <2>1
  <2> QED
    BY <2>2 DEF R
<1>1b. \A i \in DOMAIN sent : sent[i].cand \in Nat /\ sent[i].cand <= ids
  BY <1>1a DEF Recorded
<1>1c. ids' \in Nat
  BY DEF Typed
<1>2. CASE Stays
  <2>1. /\ ids' = ids /\ sent' = sent /\ cand'.id = cand.id
        /\ cand'.state = cand.state \/ cand'.state = "rejected"
        /\ cand.state = "committed" => Selected(cand') = Selected(cand)
    BY <1>2 DEF Stays
  <2> QED
    BY <2>1 DEF Recorded
<1>3. CASE Opens
  <2>1. ids' = ids + 1 /\ sent' = sent /\ cand'.id = ids + 1 /\ cand'.state = "open"
    BY <1>3 DEF Opens
  <2>2. \A i \in DOMAIN sent : sent[i].cand <= ids + 1 /\ sent[i].cand # ids + 1
    BY <1>1, <1>1b
  <2> QED
    BY <2>1, <2>2 DEF Recorded
<1>4. CASE \E g : Asked(g) /\ Begins(g)
  <2>1. UNCHANGED <<cand, ids, sent>>
    BY <1>4 DEF Begins
  <2> QED
    BY <2>1 DEF Recorded
<1>5. CASE \E g, c : Asked(g) /\ Comes(c, g) /\ Decided(c, g)
  <2>1. PICK g, c : g \in Gates /\ Comes(c, g) /\ Decided(c, g)
    BY <1>5 DEF Asked
  <2>2. c \in Cands /\ (cand.state \in {"open", "committed"} => c.id = cand.id)
    BY <2>1, ComesTyped
  <2>3. cand' \in Cands /\ cand'.id = c.id /\ cand'.segs = c.segs /\ c.id \in Nat
    BY <2>1, <2>2 DEF Decided, SameTurn, Cands
  <2>4. Selected(cand') = Selected(c)
    BY <2>2, <2>3 DEF Selected
  <2>5. ids <= ids' /\ c.id <= ids'
    BY <1>1, <2>1, <2>3 DEF Decided
  <2>6. cand'.state = "committed" => Selected(cand') # << >>
    BY <2>1, <2>4 DEF Decided
  <2>7. CASE sent' = sent
    <3>1. \A i \in DOMAIN sent : sent[i].cand <= ids'
      BY <1>1, <1>1b, <1>1c, <2>5
    <3>2. cand'.state = "open" => cand.state = "open"
      BY <2>1 DEF Decided, Comes
    <3> QED
      BY <2>2, <2>3, <2>6, <2>7, <3>1, <3>2 DEF Recorded
  <2>8. CASE /\ sent' = Append(sent, [cand |-> c.id, heard |-> c.heard, words |-> Selected(c)])
             /\ cand'.state = "committed"
    <3>1. \A i \in DOMAIN sent' : sent'[i].cand \in {c.id} \cup {sent[j].cand : j \in DOMAIN sent}
      BY <1>1, <2>8
    <3>1a. \A j \in DOMAIN sent : sent[j].cand <= ids'
      BY <1>1, <1>1b, <1>1c, <2>5
    <3>2. \A i \in DOMAIN sent' : sent'[i].cand <= ids'
      BY <2>5, <3>1, <3>1a
    <3> QED
      BY <2>6, <2>8, <3>2 DEF Recorded
  <2> QED
    BY <2>1, <2>7, <2>8 DEF Decided
<1> QED
  BY <1>2, <1>3, <1>4, <1>5 DEF Form

\* Whether a turn is ready does not depend on which of its segments have ended.
LEMMA StoppedReady ==
    ASSUME NEW c \in Cands, NEW text
    PROVE  CurrentGen(Stopped(c)) = CurrentGen(c) /\ Ready(Stopped(c), text) = Ready(c, text)
<1> DEFINE d == Stopped(c)
           s == c.segs
           t == d.segs
<1>1. /\ d \in Cands /\ d.state = c.state /\ d.gen = c.gen /\ Len(t) = Len(s)
      /\ \A i \in DOMAIN s : t[i] = [s[i] EXCEPT !.ended = t[i].ended]
  BY StoppedTyped DEF SameTurn
<1>2. s \in Seq(Segs) /\ t \in Seq(Segs)
  BY <1>1 DEF Cands
<1>3. DOMAIN t = DOMAIN s /\ (t = << >> <=> s = << >>) /\ (s # << >> => Len(s) \in DOMAIN s)
  BY <1>1, <1>2
<1>4. \A i \in DOMAIN s : s[i] \in Segs
  BY <1>2
<1> HIDE DEF d
<1>5. \A i \in DOMAIN s : /\ t[i].gen = s[i].gen /\ t[i].text = s[i].text /\ t[i].final = s[i].final
                          /\ t[i].covered = s[i].covered /\ t[i].prior = s[i].prior
  BY <1>1, <1>4 DEF Segs
<1>6. CurrentGen(d) = CurrentGen(c)
  BY <1>1, <1>3, <1>5 DEF CurrentGen
<1>7. \A i \in DOMAIN s : SegText(t[i]) = SegText(s[i])
  BY <1>5 DEF SegText
<1> DEFINE Pending(r) == {i \in DOMAIN r : r[i].final = << >> /\ ~r[i].covered /\ r[i].text # << >>}
           Unheard(r) == /\ r # << >> /\ r[Len(r)].prior = "final"
                         /\ \A i \in DOMAIN r : r[i].gen = c.gen => SegText(r[i]) = << >> /\ ~r[i].covered
           None(r) == \A i \in DOMAIN r : r[i].final = << >>
           Heard(r) == \A i \in Pending(r) : Len(text) >= Len(r[i].text) /\ Matches(r[i].text, text)
<1>8. Pending(t) = Pending(s)
  BY <1>3, <1>5
<1>9. Unheard(t) = Unheard(s)
  BY <1>1, <1>3, <1>5, <1>7
<1>10. None(t) = None(s)
  BY <1>3, <1>5
<1>11. Heard(t) = Heard(s)
  <2>1. \A i \in Pending(s) : i \in DOMAIN s
    OBVIOUS
  <2> HIDE DEF Pending
  <2> QED
    BY <1>5, <1>8, <2>1
<1>12. Ready(c, text) = (c.state # "open" \/ (~Unheard(s) /\ ((text = << >> /\ None(s)) \/ Heard(s))))
  BY DEF Ready
<1>13. Ready(d, text) = (c.state # "open" \/ (~Unheard(t) /\ ((text = << >> /\ None(t)) \/ Heard(t))))
  BY <1>1 DEF Ready
<1> HIDE DEF Unheard, None, Heard
<1> QED
  BY <1>6, <1>9, <1>10, <1>11, <1>12, <1>13 DEF d

\* Whoever sleeps has a reason after every step.
LEMMA SleepsKept ==
    ASSUME Typed, SleepsForAReason, Form PROVE SleepsForAReason'
<1>1. cand \in Cands /\ gate \in Gates /\ NoGate.pc = "off"
  BY DEF Typed, NoGate
<1>2. Notified(gate).pc = "settle" => Notified(gate).woken
  BY <1>1 DEF Notified, Gates
<1>3. CASE Stays
  <2>1. CASE gate'.pc # "settle" \/ gate'.woken
    BY <2>1 DEF SleepsForAReason
  <2>2. CASE gate' = gate /\ cand' = cand
    BY <2>2 DEF SleepsForAReason, Outcome
  <2>3. CASE gate' = gate /\ cand' = Stopped(cand)
    <3>1. CurrentGen(cand') = CurrentGen(cand) /\ Ready(cand', gate.text) = Ready(cand, gate.text)
      BY <1>1, <2>3, StoppedReady
    <3>2. cand'.id = cand.id /\ cand'.state = cand.state
      BY <1>1, <2>3, StoppedTyped DEF SameTurn
    <3> QED
      BY <2>3, <3>1, <3>2 DEF SleepsForAReason, Outcome
  <2>4. CASE gate' = gate /\ cand.state = "committed"
    <3>1. Outcome(gate) # "wait"
      BY <2>4 DEF Outcome, Ready
    <3> QED
      BY <2>4, <3>1 DEF SleepsForAReason
  <2> QED
    BY <1>3, <2>1, <2>2, <2>3, <2>4 DEF Stays, Told
<1>4. CASE Opens
  <2>1. gate'.pc # "settle" \/ gate'.woken
    BY <1>1, <1>2, <1>4 DEF Opens, VoiceprintDropped
  <2> QED
    BY <2>1 DEF SleepsForAReason
<1>5. CASE \E g : Asked(g) /\ Begins(g)
  <2>1. cand' = cand /\ (gate'.pc = "settle" => Outcome(gate') = "wait")
    BY <1>5 DEF Begins
  <2> QED
    BY <2>1 DEF SleepsForAReason, Outcome
<1>6. CASE \E g, c : Asked(g) /\ Comes(c, g) /\ Decided(c, g)
  BY <1>1, <1>6 DEF Decided, SleepsForAReason
<1> QED
  BY <1>3, <1>4, <1>5, <1>6 DEF Form

\* The invariant holds before anything is said.
LEMMA InitTurnInv == TurnInit => TurnInv
<1> SUFFICES ASSUME TurnInit PROVE TurnInv
  OBVIOUS
<1>1. cand = NoCandidate /\ NoCandidate \in Cands /\ NoCandidate.id = 0 /\ NoCandidate.timeline = 0 /\ NoCandidate.state = "none"
  BY NoCandidateTyped DEF TurnInit, NoCandidate
<1>2. gate \in Gates /\ gate.pc = "off"
  BY GatesTyped DEF TurnInit, NoGate
<1>3. Typed
  BY <1>1, <1>2 DEF Typed, TurnInit, Texts
<1> QED
  BY <1>1, <1>2, <1>3 DEF TurnInit, TurnInv, Belongs, Recorded, SleepsForAReason

\* The invariant reads nothing but the state.
LEMMA StutterTurnInv == TurnInv /\ UNCHANGED turnVars => TurnInv'
BY DEF TurnInv, turnVars, provider, voice, Typed, Belongs, Fits, Recorded, SleepsForAReason, Outcome

\* Every step preserves the invariant.
LEMMA NextTurnInv == TurnInv /\ [TurnNext]_turnVars => TurnInv'
<1>1. ASSUME TurnInv, TurnNext PROVE TurnInv'
  <2>1. Typed' /\ Form
    BY <1>1, NextForm DEF TurnInv
  <2>2. Belongs' /\ (gate.pc # "off" => Fits(gate))' /\ Recorded' /\ SleepsForAReason'
    BY <1>1, <2>1, BelongsKept, FitsKept, RecordedKept, SleepsKept DEF TurnInv
  <2> QED
    BY <2>1, <2>2 DEF TurnInv
<1> QED
  BY <1>1, StutterTurnInv

\* The candidate, the timelines and the completion that waits fit together in every
\* reachable state (UserTurnCoordinator, FullDuplexSpeechLifecycle and
\* transcript_settlement.py): what the other theorems rest on.
THEOREM TurnCorrect == TurnSpec => []TurnInv
BY InitTurnInv, NextTurnInv, PTL DEF TurnSpec

\* A completed turn that waits and has not been woken has a reason to wait: no revision,
\* withdrawal, rejection or new speech could have settled it without notifying the lease
\* (TranscriptSettlementLease.settle in transcript_settlement.py).
THEOREM TurnSleepsForAReason == TurnSpec => []SleepsForAReason
<1>1. TurnInv => SleepsForAReason
  BY DEF TurnInv
<1> QED
  BY <1>1, TurnCorrect, PTL

-----------------------------------------------------------------------------
\* The type invariant. An open turn is the one the pipeline's timeline belongs to
\* (Timed): a flush of the reply to an earlier turn cannot take the timeline away.
Flags == {speaking, suppress, closed} \subseteq BOOLEAN /\ vp \in {"none", "running", "blocked"}
Revised == gone \subseteq Sentences /\ retired \subseteq Sentences /\ cand.revs \subseteq Sentences
Timed == out <= ids /\ (cand.state = "open" => out < cand.id /\ tl = cand.timeline)

\* What a hook does to the candidate and to what goes with it.
Moves ==
    \/ UNCHANGED <<cand, ids, retired, out>> /\ (tl' = tl \/ cand.state # "open")
    \/ Rejects /\ UNCHANGED <<ids, out>>
    \/ \E g \in Gates : Fits(g) /\ Outcome(g) \in {"ready", "wait"} /\ Concludes(g)

\* No step takes a flag out of its values.
LEMMA FlagsKept == ASSUME Flags, TurnNext PROVE Flags'
<1>1. ASSUME NEW text, NEW t, Routes(text, t) PROVE vp' \in {"none", vp}
  <2>1. ASSUME NEW g, Concludes(g) PROVE vp' \in {"none", vp}
    BY <2>1 DEF Concludes, voice
  <2>2. ASSUME NEW g, Settles(g) PROVE vp' \in {"none", vp}
    BY <2>1, <2>2 DEF Settles, voice
  <2> QED
    BY <1>1, <2>2 DEF Routes, voice
<1>2. CASE HookStarts
  <2>1. UNCHANGED <<speaking, closed>> /\ vp' \in {"none", vp} /\ suppress' \in {suppress, TRUE}
    BY <1>1, <1>2 DEF HookStarts, voice
  <2> QED
    BY <2>1 DEF Flags
<1>3. CASE VoiceprintAnswers
  <2>1. UNCHANGED <<speaking, closed>> /\ vp' \in {"none", "blocked", vp} /\ suppress' \in {suppress, TRUE}
    BY <1>1, <1>3 DEF VoiceprintAnswers, voice
  <2> QED
    BY <2>1 DEF Flags
<1>4. CASE SettlementWakes \/ SettlementExpires
  <2>1. ASSUME NEW g, Concludes(g) PROVE vp' \in {"none", vp}
    BY <2>1 DEF Concludes, voice
  <2>2. vp' \in {"none", vp} /\ UNCHANGED <<speaking, suppress, closed>>
    BY <1>4, <2>1 DEF SettlementWakes, SettlementExpires, Settles, voice
  <2> QED
    BY <2>2 DEF Flags
<1>5. CASE Hypothesis \/ Final
  <2>1. ASSUME NEW rev, NEW text, NEW final, Records(rev, text, final)
        PROVE  vp' \in {"none", vp} /\ suppress' \in {FALSE, suppress}
    BY <2>1 DEF Records, voice
  <2>2. ASSUME NEW rev, NEW text, NEW final, Arrives(rev, text, final)
        PROVE  vp' \in {"none", vp} /\ suppress' \in {FALSE, suppress}
    BY <2>1, <2>2 DEF Arrives, voice
  <2>3. UNCHANGED <<speaking, closed>> /\ vp' \in {"none", vp} /\ suppress' \in {FALSE, suppress}
    BY <1>5, <2>2 DEF Hypothesis, Final
  <2> QED
    BY <2>3 DEF Flags
<1>6. CASE SpeechStarts \/ SpeechStops
  <2>1. /\ speaking' \in BOOLEAN /\ suppress' \in {FALSE, suppress} /\ closed' = closed
        /\ vp' \in {"none", "running", vp}
    BY <1>6 DEF SpeechStarts, SpeechStops, voice
  <2> QED
    BY <2>1 DEF Flags
<1>7. CASE Withdrawn \/ EndpointCompletes \/ TranscriptionTimesOut \/ InterruptionRefuses \/ ReplyEnds \/ SessionCloses
  <2>1. UNCHANGED <<speaking, suppress>> /\ vp' \in {"none", vp}
    BY <1>7 DEF Withdrawn, EndpointCompletes, TranscriptionTimesOut, InterruptionRefuses, ReplyEnds, SessionCloses, voice
  <2>2. closed' = closed \/ closed' = TRUE
    BY <1>7 DEF Withdrawn, EndpointCompletes, TranscriptionTimesOut, InterruptionRefuses, ReplyEnds, SessionCloses
  <2> QED
    BY <2>1, <2>2 DEF Flags
<1> QED
  BY <1>2, <1>3, <1>4, <1>5, <1>6, <1>7 DEF TurnNext

\* Every step of the hook moves the candidate in one of these ways.
LEMMA HookMoves ==
    ASSUME Typed, Belongs, gate.pc # "off" => Fits(gate),
           HookStarts \/ VoiceprintAnswers \/ SettlementWakes \/ SettlementExpires
    PROVE  Moves
<1>1. ASSUME NEW g \in Gates, Fits(g), Settles(g) PROVE Moves
  BY <1>1 DEF Settles, Moves
<1>2. ASSUME NEW text \in Texts, NEW t \in {0, cand.timeline}, t = 0 => tl = 0, Routes(text, t) PROVE Moves
  <2>1. CASE cand.state = "rejected"
    BY <1>2, <2>1 DEF Routes, Moves
  <2>2. CASE cand.state # "rejected"
    <3> DEFINE g == [pc |-> "settle", text |-> text, timeline |-> t, cand |-> cand.id,
                     gen |-> CurrentGen(cand), woken |-> FALSE]
    <3>1. CurrentGen(cand) \in Nat /\ cand.id \in Nat /\ t \in Nat
      <4>1. cand.segs \in Seq(Segs) /\ cand.id \in Nat /\ cand.timeline \in Nat
        BY DEF Typed, Cands
      <4>2. cand.segs # << >> => cand.segs[Len(cand.segs)] \in Segs
        BY <4>1
      <4> QED
        BY <4>1, <4>2 DEF CurrentGen, Segs
    <3>2. g \in Gates /\ Fits(g)
      BY <1>2, <3>1 DEF Gates, Fits, Belongs
    <3>3. Settles(g)
      BY <1>2, <2>2 DEF Routes
    <3> HIDE DEF g
    <3> QED
      BY <1>1, <3>2, <3>3
  <2> QED
    BY <2>1, <2>2
<1>3. ASSUME NEW t, Blocks(t) PROVE Moves
  BY <1>3 DEF Blocks, RejectsCompletion, Moves
<1>4. gate \in Gates /\ gate.text \in Texts
  BY DEF Typed, Gates
<1>5. CASE HookStarts
  <2> DEFINE t == IF vtl # 0 THEN vtl ELSE tl
  <2>1. queue # << >> /\ Head(queue) \in Texts
    BY <1>5, HeadTailProperties DEF HookStarts, Typed
  <2>2. t \in {0, cand.timeline} /\ (t = 0 => tl = 0)
    BY DEF Belongs, Typed
  <2>3. UNCHANGED <<cand, ids, retired, out, tl>> \/ Blocks(t) \/ Routes(Head(queue), t)
    BY <1>5 DEF HookStarts
  <2> HIDE DEF t
  <2> QED
    BY <1>2, <1>3, <2>1, <2>2, <2>3 DEF Moves
<1>6. CASE VoiceprintAnswers
  <2>1. \/ UNCHANGED <<cand, ids, retired, out, tl>>
        \/ cand.id = gate.cand /\ Routes(gate.text, gate.timeline)
        \/ Blocks(gate.timeline)
    BY <1>6 DEF VoiceprintAnswers
  <2>2. cand.id = gate.cand => gate.timeline \in {0, cand.timeline} /\ (gate.timeline = 0 => tl = 0)
    BY <1>6 DEF VoiceprintAnswers, Fits
  <2> QED
    BY <1>2, <1>3, <1>4, <2>1, <2>2 DEF Moves
<1>7. CASE SettlementWakes \/ SettlementExpires
  <2>1. Fits(gate) /\ (Settles(gate) \/ (Outcome(gate) = "wait" /\ Concludes(gate)))
    BY <1>7 DEF SettlementWakes, SettlementExpires
  <2> QED
    BY <1>1, <1>4, <2>1 DEF Moves
<1> QED
  BY <1>5, <1>6, <1>7

\* A completion is concluded of the turn the pipeline is at, whose revisions it keeps.
LEMMA ConcludesMoves ==
    ASSUME Typed, Belongs, Recorded, Revised, Timed,
           NEW g \in Gates, Fits(g), Outcome(g) \in {"ready", "wait"}, Concludes(g)
    PROVE  Timed' /\ retired' \subseteq Sentences /\ cand'.revs \subseteq Sentences
<1> DEFINE c == Prepared(g.text, g.timeline)
<1>1. Comes(c, g)
  BY PreparedComes
<1>2. PICK d : Comes(d, g) /\ Decided(d, g)
  BY ConcludesDecides
<1>3. /\ c \in Cands /\ Canonical(c, g.text) = Selected(c)
      /\ cand.state \in {"open", "committed"} => c.id = cand.id /\ c.timeline = cand.timeline /\ c.state = cand.state
  BY <1>1, ComesTyped
<1>4. c.revs \subseteq Sentences
  <2>1. g.text \in Texts /\ cand \in Cands /\ First \in Cands
    BY FirstTyped DEF Gates, Typed
  <2>2. First.revs = {}
    BY DEF First, Candidate
  <2>3. c = cand \/ c = WithFramework(cand, g.text) \/ c = WithFramework(First, g.text)
    BY <1>1 DEF Comes
  <2> HIDE DEF c
  <2>4. c.revs \in {cand.revs, First.revs}
    BY <2>1, <2>3, FrameworkTyped
  <2> QED
    BY <2>2, <2>4 DEF Revised
<1>5. /\ ids \in Nat /\ out \in Nat /\ g.timeline \in {0, cand.timeline} /\ cand.timeline <= ids
      /\ cand.id \in Nat /\ cand.timeline \in Nat
  <2>1. g.cand = 0 \/ g.cand = cand.id
    BY DEF Outcome
  <2> QED
    BY <2>1 DEF Fits, Belongs, Typed, Cands
<1>6. out' \in {out, g.timeline} /\ ids <= ids' /\ ids' \in Nat
  <2>1. out' \in {out, g.timeline} /\ ids' = (IF d.id > ids THEN d.id ELSE ids)
    BY <1>2 DEF Decided
  <2>2. d.id \in Nat
    BY <1>2, ComesTyped DEF Cands
  <2> QED
    BY <1>5, <2>1, <2>2
<1>7. out' <= ids'
  BY <1>5, <1>6 DEF Timed
<1> HIDE DEF c
<1>8. \/ Commits(c, g.text, g.timeline)
      \/ cand.state = "open" /\ cand' = c /\ UNCHANGED <<retired, sent, out, tl, sdk, voice>>
      \/ cand.state = "open" /\ cand' = [c EXCEPT !.state = "rejected"] /\ retired' = retired \cup c.revs
  BY DEF Concludes, c
<1>9. /\ cand' \in {c, [c EXCEPT !.state = "rejected"], [c EXCEPT !.state = "committed"]}
      /\ retired' \in {retired, retired \cup c.revs}
  BY <1>8 DEF Commits
<1>10. cand'.revs \subseteq Sentences /\ retired' \subseteq Sentences
  BY <1>3, <1>4, <1>9 DEF Revised, Cands
<1>11. ASSUME cand'.state = "open" PROVE cand'.id = cand.id /\ cand'.timeline = cand.timeline /\ cand.state = "open" /\ UNCHANGED <<out, tl>>
  <2>1. cand.state = "open"
    BY <1>2, <1>11 DEF Decided, Comes
  <2>2. ~Repeated(g.text, g.timeline)
    BY <2>1 DEF Repeated, Terminal
  <2>3. cand' # [c EXCEPT !.state = "rejected"] /\ cand' # [c EXCEPT !.state = "committed"]
    BY <1>3, <1>11 DEF Cands
  <2>4. cand' = c /\ UNCHANGED <<out, tl>>
    BY <1>8, <2>2, <2>3 DEF Commits
  <2> QED
    BY <1>3, <2>1, <2>4
<1>12. Timed'
  BY <1>7, <1>11 DEF Timed
<1> QED
  BY <1>10, <1>12

\* A revision recorded is one of the sentences.
LEMMA RecordsRevs ==
    ASSUME Typed, NEW rev \in Nat, rev = 0 \/ rev \in Sentences, NEW text \in Texts, NEW final \in BOOLEAN,
           Records(rev, text, final), cand.revs \subseteq Sentences
    PROVE  cand'.revs \subseteq Sentences
<1> DEFINE c == IF StartsNewTurn(rev) THEN Opened(FALSE) ELSE cand
           w == WithTranscript(c, rev, text, final)
           c1 == IF final /\ ~w.cand.heard /\ ~speaking THEN Stopped(w.cand) ELSE w.cand
           by == CoveredBy(Observed(hyps, c1, w.index, rev, text, final), c1, w.index, final)
<1>1. c \in Cands /\ c.revs \subseteq Sentences
  BY OpenedTyped DEF Typed
<1>2. CASE c.state # "open"
  BY <1>2 DEF Records
<1>3. CASE c.state = "open"
  <2>1. cand' = WithCovered(c1, w.index, by)
    BY <1>3 DEF Records
  <2>2. w.cand \in Cands
    BY <1>1, TranscriptTyped DEF Writes, SameTurn
  <2>3. w.cand.revs \subseteq c.revs \cup {rev} /\ (rev = 0 => w.cand.revs \subseteq c.revs)
    <3> DEFINE at == SegmentFor(c, rev, text, final)
               gen == IF c.gen = 0 THEN gens + 1 ELSE c.gen
               seg == Segment(gen, c.last)
               d == IF at = 0 THEN AddSegment(c, seg) ELSE c
    <3>1. seg \in Segs
      <4> HIDE DEF c
      <4>1. gen \in Nat /\ c.last \in Finality
        BY <1>1 DEF Typed, Cands
      <4> QED
        BY <4>1, SegmentTyped
    <3> HIDE DEF seg, at, c
    <3>2. d.revs = c.revs /\ d \in Cands
      BY <1>1, <3>1, AddSegmentTyped DEF SameTurn
    <3>3. PICK segs, mark :
             w.cand = [d EXCEPT !.segs = segs, !.revs = IF rev = 0 THEN @ ELSE @ \cup {rev}, !.last = mark]
      <4> DEFINE i == IF at = 0 THEN Len(d.segs) ELSE at
                 old == d.segs[i]
                 new == [old EXCEPT !.text = text, !.rev = IF rev = 0 THEN @ ELSE rev,
                                    !.final = IF final THEN text ELSE @, !.covered = @ /\ ~final]
                 mark == IF final THEN "final" ELSE "interim"
      <4>1. w.cand = [d EXCEPT !.segs[i] = new, !.revs = IF rev = 0 THEN @ ELSE @ \cup {rev}, !.last = mark]
        BY DEF WithTranscript, at, seg
      <4> DEFINE segs == [d.segs EXCEPT ![i] = new]
      <4> HIDE DEF d, w, i, new, mark
      <4>2. w.cand = [d EXCEPT !.segs = segs, !.revs = IF rev = 0 THEN @ ELSE @ \cup {rev}, !.last = mark]
        BY <4>1
      <4> QED
        BY <4>2
    <3> HIDE DEF d, w
    <3>4. w.cand.revs = IF rev = 0 THEN d.revs ELSE d.revs \cup {rev}
      BY <3>2, <3>3 DEF Cands
    <3> QED
      BY <3>2, <3>4
  <2> HIDE DEF w, by, c
  <2>4. c1 \in Cands /\ c1.revs = w.cand.revs
    BY <2>2, StoppedTyped DEF SameTurn
  <2> HIDE DEF c1
  <2>5. cand'.revs = c1.revs
    BY <2>1, <2>4, CoveredTyped
  <2> QED
    BY <1>1, <2>3, <2>4, <2>5
<1> QED
  BY <1>2, <1>3

\* A revision that arrives is one of the sentences, and a turn it opens is timed.
LEMMA ArrivesKeeps ==
    ASSUME Typed, Belongs, Timed, NEW rev \in Nat, rev = 0 \/ rev \in Sentences,
           NEW text \in Texts, NEW final \in BOOLEAN, Arrives(rev, text, final),
           cand.revs \subseteq Sentences, UNCHANGED <<sent, out>>
    PROVE  cand'.revs \subseteq Sentences /\ Timed'
<1>1. cand'.revs \subseteq Sentences
  <2>1. CASE Records(rev, text, final)
    BY <2>1, RecordsRevs
  <2>2. CASE cand' = [cand EXCEPT !.segs = <<FrameworkSegment(cand, text, "none")>>]
    BY <2>2 DEF Typed, Cands
  <2> QED
    BY <2>1, <2>2 DEF Arrives
<1>2. Stays \/ Opens
  BY ArrivesForm
<1>3. ids \in Nat /\ out \in Nat /\ out' = out /\ out <= ids
  BY DEF Timed, Typed
<1>4. CASE Opens
  <2>1. cand'.id = ids + 1 /\ cand'.timeline = ids + 1 /\ ids' = ids + 1 /\ tl' = ids + 1
    BY <1>4 DEF Opens
  <2>2. out' <= ids' /\ out' < cand'.id
    BY <1>3, <2>1
  <2> QED
    BY <1>1, <2>1, <2>2 DEF Timed
<1>5. CASE Stays
  <2>1. /\ cand'.id = cand.id /\ cand'.timeline = cand.timeline /\ ids' = ids /\ tl' \in {0, tl}
        /\ cand'.state = "open" => cand.state = "open"
    BY <1>5 DEF Stays
  <2>2. tl' \in {tl, ids + 1}
    BY DEF Arrives, Records
  <2>3. tl' = tl
    BY <1>3, <2>1, <2>2
  <2> QED
    BY <1>1, <1>3, <2>1, <2>3 DEF Timed
<1> QED
  BY <1>1, <1>2, <1>4, <1>5

\* Revisions stay sentences, and an open turn keeps its timeline.
LEMMA RevisedTimedKept ==
    ASSUME TurnInv, Revised, Timed, TurnNext PROVE Revised' /\ Timed'
<1>1. Typed /\ Belongs /\ Recorded /\ (gate.pc # "off" => Fits(gate)) /\ cand \in Cands /\ ids \in Nat /\ out \in Nat
  BY DEF TurnInv, Typed
<1>2. ASSUME Rejects, UNCHANGED <<ids, out>>
      PROVE  Timed' /\ retired' \subseteq Sentences /\ cand'.revs \subseteq Sentences
  BY <1>1, <1>2 DEF Rejects, Revised, Timed, Cands
<1>3. CASE HookStarts \/ VoiceprintAnswers \/ SettlementWakes \/ SettlementExpires
  <2>1. gone' = gone
    BY <1>3 DEF HookStarts, VoiceprintAnswers, SettlementWakes, SettlementExpires
  <2>2. Moves
    BY <1>1, <1>3, HookMoves
  <2>3. CASE UNCHANGED <<cand, ids, retired, out>> /\ (tl' = tl \/ cand.state # "open")
    BY <2>1, <2>3 DEF Revised, Timed
  <2> QED
    BY <1>1, <1>2, <2>1, <2>2, <2>3, ConcludesMoves DEF Moves, Revised
<1>4. CASE SpeechStarts
  <2>1. gone' = gone /\ out' = out
    BY <1>4 DEF SpeechStarts
  <2>2. CASE /\ cand' = Continued /\ cand.state = "open" /\ UNCHANGED <<ids, retired, tl>>
    <3> DEFINE seg == Segment(gens + 1, cand.last)
    <3>1. seg \in Segs
      <4>1. gens + 1 \in Nat /\ cand.last \in Finality
        BY <1>1 DEF Typed, Cands
      <4> QED
        BY <4>1, SegmentTyped
    <3>2. Continued \in {cand, AddSegment(cand, seg)}
      BY DEF Continued
    <3> HIDE DEF seg
    <3>3. cand'.revs = cand.revs /\ cand'.id = cand.id /\ cand'.state = cand.state /\ cand'.timeline = cand.timeline
      BY <1>1, <2>2, <3>1, <3>2, AddSegmentTyped DEF SameTurn
    <3> QED
      BY <2>1, <2>2, <3>3 DEF Revised, Timed
  <2>3. CASE /\ cand' = Opened(TRUE) /\ ids' = ids + 1 /\ tl' = ids + 1
             /\ retired' = retired \cup (IF cand.state = "open" THEN cand.revs ELSE {})
    <3>1. cand'.revs = {} /\ cand'.id = ids + 1 /\ cand'.timeline = ids + 1
      BY <1>1, <2>3, OpenedTyped
    <3>2. retired' \subseteq Sentences
      BY <2>3 DEF Revised
    <3>3. out <= ids + 1 /\ out < ids + 1
      BY <1>1 DEF Timed
    <3> QED
      BY <2>1, <2>3, <3>1, <3>2, <3>3 DEF Revised, Timed
  <2> QED
    BY <1>4, <2>2, <2>3 DEF SpeechStarts, CanMerge
<1>5. CASE SpeechStops
  <2>1. cand' = Stopped(cand) /\ UNCHANGED <<ids, retired, tl, out, gone>>
    BY <1>5 DEF SpeechStops
  <2>2. SameTurn(cand', cand) /\ cand'.revs = cand.revs
    BY <1>1, <2>1, StoppedTyped
  <2> QED
    BY <2>1, <2>2 DEF Revised, Timed, SameTurn
<1>6. CASE Hypothesis \/ Final
  <2>1. /\ sentence \in Sentences /\ Rev \in Nat /\ (Rev = 0 \/ Rev \in Sentences)
        /\ UNCHANGED <<retired, gone, sent, out>>
    BY <1>1, <1>6 DEF Hypothesis, Final, Rev, Typed
  <2>2. \E text \in Texts, final \in BOOLEAN : Arrives(Rev, text, final)
    <3>1. CASE Final
      BY <2>1, <3>1, SaidTyped DEF Final
    <3>2. CASE Hypothesis
      <4>1. PICK n \in (IF named THEN upto + 1 ELSE IF upto = 0 THEN 1 ELSE upto)..Len(Said[sentence]) :
               Arrives(Rev, SubSeq(Said[sentence], 1, n), FALSE)
        BY <3>2 DEF Hypothesis
      <4>2. n \in 1..Len(Said[sentence])
        BY <1>1, <2>1, SaidTyped DEF Typed
      <4> QED
        BY <2>1, <4>1, <4>2, SaidTyped
    <3> QED
      BY <1>6, <3>1, <3>2
  <2>3. cand'.revs \subseteq Sentences /\ Timed'
    BY <1>1, <2>1, <2>2, ArrivesKeeps DEF Revised
  <2> QED
    BY <2>1, <2>3 DEF Revised
<1>7. CASE Withdrawn
  <2> DEFINE mine == {i \in DOMAIN cand.segs : named /\ cand.state = "open" /\ cand.segs[i].rev = sentence}
             segs == Emptied(cand, mine)
  <2>1. cand' = [cand EXCEPT !.segs = segs]
    BY <1>7 DEF Withdrawn, Emptied
  <2>2. UNCHANGED <<ids, retired, tl, out>> /\ gone' \subseteq gone \cup {sentence} /\ sentence \in Sentences
    BY <1>7 DEF Withdrawn
  <2> HIDE DEF segs
  <2>3. cand'.id = cand.id /\ cand'.state = cand.state /\ cand'.timeline = cand.timeline /\ cand'.revs = cand.revs
    BY <1>1, <2>1 DEF Cands
  <2> QED
    BY <2>2, <2>3 DEF Revised, Timed
<1>8. CASE EndpointCompletes
  BY <1>8 DEF EndpointCompletes, Revised, Timed
<1>9. CASE TranscriptionTimesOut \/ InterruptionRefuses
  <2>1. Rejects /\ UNCHANGED <<ids, out, gone>>
    BY <1>9 DEF TranscriptionTimesOut, InterruptionRefuses
  <2> QED
    BY <1>2, <2>1 DEF Revised
<1>10. CASE ReplyEnds
  <2>1. out # 0 /\ out' = 0 /\ tl' = Flushed(out) /\ UNCHANGED <<cand, ids, retired, gone>>
    BY <1>10 DEF ReplyEnds
  <2>2. cand.state = "open" => cand.timeline = cand.id /\ cand.id # 0 /\ cand.id \in Nat
    BY <1>1 DEF Belongs, Cands
  <2>3. cand.state = "open" => tl' = tl
    BY <1>1, <2>1, <2>2 DEF Flushed, Timed
  <2> QED
    BY <1>1, <2>1, <2>2, <2>3 DEF Revised, Timed
<1>11. CASE SessionCloses
  <2>1. UNCHANGED <<ids, out, gone>> /\ (Rejects \/ UNCHANGED <<cand, retired, tl>>)
    BY <1>11 DEF SessionCloses
  <2> QED
    BY <1>2, <2>1 DEF Revised, Timed
<1> QED
  BY <1>3, <1>4, <1>5, <1>6, <1>7, <1>8, <1>9, <1>10, <1>11 DEF TurnNext

\* The state is well typed, and an open turn is the one whose timeline the pipeline holds
\* (UserTurnCoordinator and FullDuplexSpeechLifecycle), for any sentences.
THEOREM TurnTypeCorrect == TurnSpec => []TurnTypeOK
<1> DEFINE Inv == TurnInv /\ Flags /\ Revised /\ Timed
<1>1. TurnInit => Inv
  <2> SUFFICES ASSUME TurnInit PROVE Flags /\ Revised /\ Timed
    BY InitTurnInv
  <2>1. NoCandidate.revs = {} /\ NoCandidate.state = "none"
    BY DEF NoCandidate, Candidate
  <2>2. Flags
    BY DEF TurnInit, Flags
  <2>3. Revised /\ Timed
    BY <2>1 DEF TurnInit, Revised, Timed
  <2> QED
    BY <2>2, <2>3
<1>2. Inv /\ [TurnNext]_turnVars => Inv'
  <2> SUFFICES ASSUME Inv, [TurnNext]_turnVars PROVE (Flags /\ Revised /\ Timed)'
    BY NextTurnInv
  <2>1. CASE TurnNext
    BY <2>1, FlagsKept, RevisedTimedKept
  <2>2. CASE UNCHANGED turnVars
    BY <2>2 DEF turnVars, voice, Flags, Revised, Timed
  <2> QED
    BY <2>1, <2>2
<1>3. Inv => TurnTypeOK
  <2> SUFFICES ASSUME Inv PROVE TurnTypeOK
    OBVIOUS
  <2>1. {vtl, tl, out} \subseteq 0..ids
    BY DEF TurnInv, Typed, Belongs, Timed, Cands
  <2> QED
    BY <2>1 DEF TurnInv, Typed, Flags, Revised, Timed, TurnTypeOK, Cands, Gates
<1> HIDE DEF Inv
<1> QED
  BY <1>1, <1>2, <1>3, PTL DEF TurnSpec

-----------------------------------------------------------------------------
\* What is committed.
\* A step that commits appends one record, whose words are those of the completed candidate.
LEMMA StepCommits ==
    ASSUME TurnInv, TurnNext, sent' # sent
    PROVE  \E g, c : /\ Asked(g) /\ Comes(c, g)
                     /\ Len(sent') = Len(sent) + 1
                     /\ sent'[Len(sent')].cand = c.id /\ sent'[Len(sent')].words = Selected(c)
                     /\ cand.state = "committed" => tl = 0
<1>1. Form
  BY NextForm DEF TurnInv
<1>2. ~Stays /\ ~Opens /\ ~(\E g : Asked(g) /\ Begins(g))
  BY DEF Stays, Opens, Begins
<1>3. PICK g, c : Asked(g) /\ Comes(c, g) /\ Decided(c, g)
  BY <1>1, <1>2 DEF Form
<1>4. sent' = Append(sent, [cand |-> c.id, heard |-> c.heard, words |-> Selected(c)])
      /\ (cand.state = "committed" => tl = 0)
  BY <1>3 DEF Decided
<1>5. sent \in Seq([cand : Nat, heard : BOOLEAN, words : Texts])
  BY DEF TurnInv, Typed
<1> DEFINE turn == [cand |-> c.id, heard |-> c.heard, words |-> Selected(c)]
<1>6. Len(sent') = Len(sent) + 1 /\ sent'[Len(sent')] = turn
  BY <1>4, <1>5
<1>7. turn.cand = c.id /\ turn.words = Selected(c)
  OBVIOUS
<1> HIDE DEF turn
<1> QED
  BY <1>3, <1>4, <1>6, <1>7

\* No step changes what was decided of a turn.
LEMMA DecisionsStand ==
    ASSUME TurnInv, TurnNext, Terminal(cand), cand'.id = cand.id PROVE cand'.state = cand.state
<1>1. Form
  BY NextForm DEF TurnInv
<1>2. cand \in Cands /\ ids \in Nat /\ cand.id <= ids
  BY DEF TurnInv, Typed, Belongs
<1>3. ~Opens
  BY <1>2 DEF Opens, Cands
<1>4. ASSUME NEW g, NEW c, Comes(c, g), Decided(c, g) PROVE cand' = cand
  BY <1>4 DEF Comes, Decided, Terminal
<1> QED
  BY <1>1, <1>3, <1>4 DEF Form, Stays, Begins, Terminal

\* While a timeline stands, a commit is of a turn that was not committed yet.
LEMMA TimedOnce ==
    ASSUME TurnInv, TurnNext, sent' # sent, tl # 0, NEW i \in DOMAIN sent
    PROVE  sent[i].cand # sent'[Len(sent')].cand
<1>1. PICK g, c : /\ Asked(g) /\ Comes(c, g) /\ sent'[Len(sent')].cand = c.id
                  /\ cand.state = "committed" => tl = 0
  BY StepCommits
<1>2. cand.state \in {"open", "none"}
  BY <1>1 DEF Comes
<1>3. /\ cand.state \in {"open", "committed"} => c.id = cand.id
      /\ cand.state = "none" => c.id = ids + 1
  BY <1>1, ComesTyped DEF TurnInv, Asked
<1>4. sent[i].cand <= ids /\ ids \in Nat /\ (cand.state = "open" => sent[i].cand # cand.id)
  BY DEF TurnInv, Recorded, Typed
<1> QED
  BY <1>1, <1>2, <1>3, <1>4

\* What was decided of a turn stands, and while its timeline stands it is not committed
\* again, however late and however often the framework announces it
\* (mark_framework_completed in framework_completed_turn.py).
THEOREM TurnDecidedForGood == TurnSpec => DecidedForGood
<1>1. TurnInv /\ [TurnNext]_turnVars =>
        [Terminal(cand) /\ cand'.id = cand.id => cand'.state = cand.state]_turnVars
  BY DecisionsStand
<1>2. TurnInv /\ [TurnNext]_turnVars =>
        [sent' # sent /\ tl # 0 => \A i \in DOMAIN sent : sent[i].cand # sent'[Len(sent')].cand]_turnVars
  BY TimedOnce
<1>3. TurnSpec => TerminalStands
  BY <1>1, TurnCorrect, PTL DEF TurnSpec, TerminalStands
<1>4. TurnSpec => TimedTurnIsCommittedOnce
  BY <1>2, TurnCorrect, PTL DEF TurnSpec, TimedTurnIsCommittedOnce
<1> QED
  BY <1>3, <1>4 DEF DecidedForGood

\* A commit of the open turn carries what was asked and every text not covered.
LEMMA NothingIsLeftOut ==
    ASSUME TurnInv, TurnNext, sent' # sent, cand.state = "open",
           NEW words, words = sent'[Len(sent')].words,
           NEW asked, asked = IF gate.pc = "off" THEN Head(queue) ELSE gate.text
    PROVE  /\ Within(asked, words)
           /\ \A i \in DOMAIN cand.segs : ~cand.segs[i].covered => Within(SegText(cand.segs[i]), words)
<1>1. PICK g, c : Asked(g) /\ Comes(c, g) /\ sent'[Len(sent')].words = Selected(c)
  BY StepCommits
<1>2. c = WithFramework(cand, asked) /\ asked \in Texts /\ cand \in Cands /\ words = Selected(c)
  BY <1>1 DEF Comes, Asked, Gates, TurnInv, Typed
<1>3. /\ Selected(cand) \in Texts /\ words \in Texts /\ Within(asked, words) /\ Within(Selected(cand), words)
  BY <1>2, FrameworkTyped DEF TurnInv
<1>4. ASSUME NEW i \in DOMAIN cand.segs, ~cand.segs[i].covered PROVE Within(SegText(cand.segs[i]), words)
  <2>1. cand.segs \in Seq(Segs) /\ cand.segs[i] \in Segs
    BY <1>2 DEF Cands
  <2>2. SegText(cand.segs[i]) \in Texts
    BY <2>1, SegTextTyped
  <2>3. Within(SegText(cand.segs[i]), Selected(cand))
    BY <1>4, <2>1, SelectedHolds
  <2> QED
    BY <1>3, <2>2, <2>3, WithinThrough
<1> QED
  BY <1>3, <1>4

\* The first commit of a turn carries every text recorded for it that no final covers, and
\* all that the framework announced (prepare_framework_completed and selected_text in
\* user_turn_coordinator.py).
THEOREM TurnNothingLeftOut == TurnSpec => NothingLeftOut
<1>1. TurnInv /\ [TurnNext]_turnVars =>
        [sent' # sent /\ cand.state = "open" =>
           LET words == sent'[Len(sent')].words
               asked == IF gate.pc = "off" THEN Head(queue) ELSE gate.text
           IN  /\ Within(asked, words)
               /\ \A i \in DOMAIN cand.segs :
                     ~cand.segs[i].covered => Within(SegText(cand.segs[i]), words)]_turnVars
  BY NothingIsLeftOut
<1> QED
  BY <1>1, TurnCorrect, PTL DEF TurnSpec, NothingLeftOut

-----------------------------------------------------------------------------
\* Where the words of an open turn come from.
StandsNext(seg) ==
    /\ Range(seg.final) \subseteq Kept'
    /\ Range(seg.text) \subseteq Kept' \/ (seg.rev = sentence' /\ Range(seg.text) \subseteq Now')

\* The recogniser goes on with its sentence, or leaves it behind with what it said.
Passes == Kept \subseteq Kept' /\ ((sentence' = sentence /\ Now' = Now) \/ Now \subseteq Kept')

\* What the recogniser has left behind and not withdrawn stays said.
LEMMA WordsKept ==
    ASSUME Typed, GoneIsPast, TurnNext
    PROVE  /\ GoneIsPast' /\ named' = named /\ Kept \subseteq Kept'
           /\ ~Withdrawn => Passes
           /\ ~Withdrawn /\ ~Final => sentence' = sentence /\ Now' = Now
           /\ Final => Now \subseteq Kept'
<1>1. sentence \in Nat \ {0} /\ named \in BOOLEAN
  BY DEF Typed
<1>1a. /\ \A v \in Sentences : v \in Nat /\ (v < sentence => v < sentence + 1)
       /\ \A v \in gone : v \in Sentences /\ v < sentence + 1 /\ v # sentence
  <2>1. \A v \in Sentences : v \in Nat
    BY SaidTyped
  <2> QED
    BY <1>1, <2>1 DEF GoneIsPast
<1>2. CASE Final
  <2>1. sentence' = sentence + 1 /\ gone' = gone /\ named' = named /\ sentence \in Sentences
    BY <1>2 DEF Final
  <2>2. Kept \subseteq Kept'
    BY <1>1a, <2>1 DEF Kept, Sentences
  <2>3. sentence \in {v \in Sentences : v < sentence + 1 /\ v \notin gone}
    BY <1>1, <1>1a, <2>1 DEF GoneIsPast
  <2>4. Now \subseteq Kept'
    BY <2>1, <2>3 DEF Now, Kept, Sentences
  <2>5. GoneIsPast'
    BY <1>1a, <2>1 DEF GoneIsPast, Sentences
  <2> QED
    BY <1>2, <2>1, <2>2, <2>4, <2>5 DEF Passes
<1>3. CASE Withdrawn /\ ~Final
  <2>1. sentence' = sentence + 1 /\ gone' = (IF named THEN gone \cup {sentence} ELSE gone) /\ named' = named
        /\ sentence \in Sentences
    BY <1>3 DEF Withdrawn
  <2>2. Kept \subseteq Kept'
    <3>1. \A v \in Sentences : v < sentence /\ v \notin gone => v < sentence + 1 /\ v \notin gone'
      BY <1>1, <1>1a, <2>1
    <3> QED
      BY <2>1, <3>1 DEF Kept, Sentences
  <2>3. GoneIsPast'
    <3>1. sentence < sentence + 1
      BY <1>1
    <3> QED
      BY <1>1, <1>1a, <2>1, <3>1 DEF GoneIsPast, Sentences
  <2> QED
    BY <1>3, <2>1, <2>2, <2>3
<1>4. CASE ~Withdrawn /\ ~Final
  <2>1. UNCHANGED <<sentence, gone, named>>
    BY <1>4 DEF TurnNext, HookStarts, SpeechStarts, SpeechStops, Hypothesis, EndpointCompletes, VoiceprintAnswers,
                SettlementWakes, SettlementExpires, TranscriptionTimesOut, InterruptionRefuses, ReplyEnds,
                SessionCloses, provider
  <2>2. Kept' = Kept /\ Now' = Now
    BY <2>1 DEF Kept, Now, Sentences
  <2> QED
    BY <1>4, <2>1, <2>2 DEF Passes, GoneIsPast
<1> QED
  BY <1>2, <1>3, <1>4

\* A segment with the same words stands when the recogniser goes on.
LEMMA StandsOn ==
    ASSUME Passes, NEW seg, NEW new, Stands(seg), new.text = seg.text, new.final = seg.final, new.rev = seg.rev
    PROVE  StandsNext(new)
BY DEF Passes, Stands, StandsNext

\* A segment without words stands.
LEMMA EmptyStands ==
    ASSUME NEW seg, seg.text = << >>, seg.final = << >> PROVE StandsNext(seg)
BY DEF StandsNext, Range

\* A new segment has no words.
LEMMA BlankStands ==
    \A gen, prior : Segment(gen, prior).text = << >> /\ Segment(gen, prior).final = << >>
BY DEF Segment

AllStand(c) == \A i \in DOMAIN c.segs : Stands(c.segs[i])
AllStandNext(c) == \A i \in DOMAIN c.segs : StandsNext(c.segs[i])

\* A turn just opened has no words.
LEMMA OpenedStand ==
    ASSUME Typed, NEW heard \in BOOLEAN
    PROVE  /\ AllStandNext(Opened(heard))
           /\ \A i \in DOMAIN Opened(heard).segs : Opened(heard).segs[i].text = << >> /\ Opened(heard).segs[i].final = << >>
<1>1. Opened(heard).segs = <<Segment(gens + 1, "none")>>
  BY OpenedTyped
<1>2. \A i \in DOMAIN Opened(heard).segs : Opened(heard).segs[i] = Segment(gens + 1, "none")
  BY <1>1
<1> QED
  BY <1>2, BlankStands, EmptyStands DEF AllStandNext

\* A revision recorded: its words are those of the sentence, and the rest stands as it was.
LEMMA CarriedStand ==
    ASSUME Passes, NEW c, NEW d, NEW rev, NEW text, NEW final, Carries(d, c, rev, text, final), AllStand(c), rev # 0,
           Range(text) \subseteq Kept' \/ (~final /\ rev = sentence' /\ Range(text) \subseteq Now')
    PROVE  AllStandNext(d)
<1> SUFFICES ASSUME NEW j \in DOMAIN d.segs PROVE StandsNext(d.segs[j])
  BY DEF AllStandNext
<1>1. CASE /\ j \in DOMAIN c.segs /\ d.segs[j].text = c.segs[j].text /\ d.segs[j].final = c.segs[j].final
           /\ d.segs[j].rev = c.segs[j].rev
  BY <1>1, StandsOn DEF AllStand
<1>2. CASE /\ d.segs[j].text = text /\ d.segs[j].rev = rev
           /\ IF final THEN d.segs[j].final = text
              ELSE (j \in DOMAIN c.segs /\ d.segs[j].final = c.segs[j].final) \/ d.segs[j].final = << >>
  <2>1. Range(<< >>) = {}
    BY DEF Range
  <2>2. Range(d.segs[j].final) \subseteq Kept'
    BY <1>2, <2>1 DEF AllStand, Stands, Passes
  <2> QED
    BY <1>2, <2>2 DEF StandsNext
<1> QED
  BY <1>1, <1>2 DEF Carries

\* The finals the framework holds, the completions it announced and the one that waits are
\* made of sentences that stand.
LEMMA CompletionsKept ==
    ASSUME TurnInv, GoneIsPast, CompletionsStand, TurnNext PROVE CompletionsStand'
<1>1. Typed /\ Form /\ Kept \subseteq Kept' /\ (Final => Now \subseteq Kept')
  BY WordsKept, NextForm DEF TurnInv
<1>2. sdk \in Texts /\ queue \in Seq(Texts) /\ gate \in Gates
  BY <1>1 DEF Typed
<1>3. Range(sdk') \subseteq Kept'
  <2>1. CASE Final
    <3>1. sdk' = sdk \/ sdk' = sdk \o Said[sentence]
      BY <2>1 DEF Final, Arrives
    <3>2. Said[sentence] \in Texts /\ Range(Said[sentence]) = Now
      BY <2>1, SaidTyped DEF Final, Now
    <3>3. Range(sdk \o Said[sentence]) = Range(sdk) \cup Now
      BY <1>2, <3>2, ConcatHolds
    <3> QED
      BY <1>1, <2>1, <3>1, <3>3 DEF CompletionsStand
  <2>2. CASE ~Final
    <3>1. sdk' \in {sdk, << >>}
      <4>1. CASE HookStarts \/ VoiceprintAnswers \/ SettlementWakes \/ SettlementExpires
        BY <4>1 DEF HookStarts, VoiceprintAnswers, SettlementWakes, SettlementExpires, Routes, Settles,
                    Concludes, Blocks
      <4>2. CASE Hypothesis
        BY <4>2 DEF Hypothesis, Arrives
      <4>3. CASE Withdrawn
        BY <4>3 DEF Withdrawn
      <4> QED
        BY <2>2, <4>1, <4>2, <4>3 DEF TurnNext, SpeechStarts, SpeechStops, EndpointCompletes, TranscriptionTimesOut,
                InterruptionRefuses, ReplyEnds, SessionCloses
    <3>2. Range(<< >>) = {}
      BY DEF Range
    <3> QED
      BY <1>1, <3>1, <3>2 DEF CompletionsStand
  <2> QED
    BY <2>1, <2>2
<1>4. \A i \in DOMAIN queue' : Range(queue'[i]) \subseteq Kept'
  <2>1. queue' = queue \/ queue' = Append(queue, sdk) \/ (queue # << >> /\ queue' = Tail(queue))
    <3>1. CASE Hypothesis \/ Final
      BY <3>1 DEF Hypothesis, Final
    <3>2. CASE Withdrawn
      BY <3>2 DEF Withdrawn
    <3> QED
      BY <3>1, <3>2 DEF TurnNext, HookStarts, VoiceprintAnswers, SettlementWakes, SettlementExpires, SpeechStarts,
            SpeechStops, EndpointCompletes, TranscriptionTimesOut, InterruptionRefuses, ReplyEnds, SessionCloses
  <2>2. \A i \in DOMAIN queue' : queue'[i] = sdk \/ \E j \in DOMAIN queue : queue'[i] = queue[j]
    <3>1. CASE queue' = queue
      BY <3>1
    <3>2. CASE queue' = Append(queue, sdk)
      BY <1>2, <3>2
    <3>3. CASE queue # << >> /\ queue' = Tail(queue)
      <4>1. \A i \in DOMAIN Tail(queue) : i + 1 \in DOMAIN queue /\ Tail(queue)[i] = queue[i + 1]
        BY <1>2, <3>3
      <4> QED
        BY <3>3, <4>1
    <3> QED
      BY <2>1, <3>1, <3>2, <3>3
  <2> QED
    BY <1>1, <2>2 DEF CompletionsStand
<1>5. gate'.pc # "off" => Range(gate'.text) \subseteq Kept'
  <2>1. Range(gate'.text) \subseteq Kept
        \/ gate'.pc = "off"
    <3>1. NoGate.pc = "off" /\ Notified(gate).pc = gate.pc /\ Notified(gate).text = gate.text
      BY <1>2, GatesTyped DEF NoGate
    <3>2. CASE Stays \/ Opens
      BY <3>1, <3>2 DEF Stays, Opens, GateRests, VoiceprintDropped, CompletionsStand
    <3>3. CASE \E g : Asked(g) /\ Begins(g)
      <4>1. gate'.text = (IF gate.pc = "off" THEN Head(queue) ELSE gate.text) /\ (gate.pc = "off" => queue # << >>)
        BY <3>3 DEF Asked, Begins
      <4>2. queue # << >> => 1 \in DOMAIN queue /\ Head(queue) = queue[1]
        BY <1>2
      <4> QED
        BY <4>1, <4>2 DEF CompletionsStand
    <3>4. CASE \E g, c : Asked(g) /\ Comes(c, g) /\ Decided(c, g)
      BY <3>1, <3>4 DEF Decided
    <3> QED
      BY <1>1, <3>2, <3>3, <3>4 DEF Form
  <2> QED
    BY <1>1, <2>1
<1> QED
  BY <1>3, <1>4, <1>5 DEF CompletionsStand

\* What a completion asks for is made of sentences that stand.
LEMMA AskedStands ==
    ASSUME Typed, CompletionsStand, NEW g, Asked(g) PROVE Range(g.text) \subseteq Kept
<1>1. g.text = (IF gate.pc = "off" THEN Head(queue) ELSE gate.text) /\ (gate.pc = "off" => queue # << >>)
  BY DEF Asked
<1>2. queue # << >> => 1 \in DOMAIN queue /\ Head(queue) = queue[1]
  BY DEF Typed
<1> QED
  BY <1>1, <1>2 DEF CompletionsStand

\* A turn whose words are as they were stands when the recogniser goes on.
LEMMA SameStand ==
    ASSUME Passes, AllStand(cand), NEW d, DOMAIN d.segs \subseteq DOMAIN cand.segs,
           \A j \in DOMAIN d.segs : /\ d.segs[j].text = cand.segs[j].text /\ d.segs[j].final = cand.segs[j].final
                                    /\ d.segs[j].rev = cand.segs[j].rev
    PROVE  AllStandNext(d)
BY StandsOn DEF AllStand, AllStandNext

\* A transcript that arrives leaves the open turn with words that stand.
LEMMA ArrivesStand ==
    ASSUME Typed, Passes, cand.state = "open" => AllStand(cand),
           NEW rev \in Nat, rev # 0, NEW text \in Texts, NEW final \in BOOLEAN, Arrives(rev, text, final),
           Range(text) \subseteq Kept' \/ (~final /\ rev = sentence' /\ Range(text) \subseteq Now'),
           cand'.state = "open"
    PROVE  AllStandNext(cand')
<1>1. CASE cand' = cand
  BY <1>1, SameStand
<1>2. CASE Absorbs(rev, text, final) /\ cand' = [cand EXCEPT !.segs = <<FrameworkSegment(cand, text, "none")>>]
  BY <1>2 DEF Absorbs, Typed, Cands
<1>3. CASE Records(rev, text, final)
  <2> DEFINE c == IF StartsNewTurn(rev) THEN Opened(FALSE) ELSE cand
  <2>1. IF c.state = "open" THEN Carries(cand', c, rev, text, final) ELSE UNCHANGED cand
    BY <1>3, RecordsCarry
  <2>2. StartsNewTurn(rev) => c.state = "open" /\ AllStand(c)
    <3>1. Range(<< >>) = {}
      BY DEF Range
    <3>2. Opened(FALSE).state = "open"
          /\ \A i \in DOMAIN Opened(FALSE).segs : Opened(FALSE).segs[i].text = << >> /\ Opened(FALSE).segs[i].final = << >>
      BY OpenedTyped, OpenedStand
    <3> QED
      BY <3>1, <3>2 DEF AllStand, Stands
  <2>3. ~StartsNewTurn(rev) => c = cand
    OBVIOUS
  <2> HIDE DEF c
  <2>4. c.state = "open" => AllStand(c)
    BY <2>2, <2>3
  <2>5. CASE c.state = "open"
    BY <2>1, <2>4, <2>5, CarriedStand
  <2>6. CASE c.state # "open"
    BY <1>1, <2>1, <2>6
  <2> QED
    BY <2>5, <2>6
<1> QED
  BY <1>1, <1>2, <1>3 DEF Arrives

\* A completion leaves the open turn with words that stand.
LEMMA HookStand ==
    ASSUME TurnInv, CompletionsStand, cand.state = "open" => AllStand(cand), Passes, cand'.state = "open",
           HookStarts \/ VoiceprintAnswers \/ SettlementWakes \/ SettlementExpires
    PROVE  AllStandNext(cand')
<1>1. Typed /\ Hook /\ cand \in Cands
  BY HookForm DEF TurnInv, Typed
<1>2. CASE cand' = cand
  BY <1>2, SameStand
<1>3. CASE \E g, c : Asked(g) /\ Comes(c, g) /\ Decided(c, g)
  <2>1. PICK g, c : Asked(g) /\ Comes(c, g) /\ Decided(c, g)
    BY <1>3
  <2>2. cand.state = "open" /\ c = WithFramework(cand, g.text) /\ cand'.segs = c.segs
    BY <2>1 DEF Comes, Decided
  <2>3. g.text \in Texts /\ Range(g.text) \subseteq Kept'
    BY <1>1, <2>1, AskedStands DEF Asked, Gates, Passes
  <2>4. \A j \in DOMAIN c.segs : \/ j \in DOMAIN cand.segs /\ c.segs[j] = cand.segs[j]
                                 \/ c.segs[j].text = g.text /\ c.segs[j].final = g.text
    BY <1>1, <2>2, <2>3, FrameworkTyped
  <2>5. ASSUME NEW j \in DOMAIN c.segs PROVE StandsNext(c.segs[j])
    <3>1. CASE j \in DOMAIN cand.segs /\ c.segs[j] = cand.segs[j]
      BY <2>2, <3>1, StandsOn DEF AllStand
    <3>2. CASE c.segs[j].text = g.text /\ c.segs[j].final = g.text
      BY <2>3, <3>2 DEF StandsNext
    <3> QED
      BY <2>4, <3>1, <3>2
  <2> QED
    BY <2>2, <2>5 DEF AllStandNext
<1> QED
  BY <1>1, <1>2, <1>3 DEF Hook, Begins

\* Speech that starts or stops leaves the open turn with words that stand.
LEMMA SpeechStand ==
    ASSUME Typed, cand.state = "open" => AllStand(cand), Passes, cand'.state = "open", SpeechStarts \/ SpeechStops
    PROVE  AllStandNext(cand')
<1>1. cand \in Cands
  BY DEF Typed
<1>2. CASE SpeechStops
  <2>1. cand' = Stopped(cand)
    BY <1>2 DEF SpeechStops
  <2>2. cand.state = "open"
    BY <1>1, <2>1, StoppedTyped DEF SameTurn
  <2> QED
    BY <1>1, <2>1, <2>2, StoppedCarries, SameStand
<1>3. CASE SpeechStarts
  <2>1. (cand' = Continued /\ cand.state = "open") \/ cand' = Opened(TRUE)
    BY <1>3 DEF SpeechStarts, CanMerge
  <2>2. CASE cand' = Opened(TRUE)
    BY <2>2, OpenedStand
  <2>3. CASE cand' = cand
    BY <2>3, SameStand
  <2>4. CASE cand' = AddSegment(cand, Segment(gens + 1, cand.last)) /\ cand.state = "open"
    <3> DEFINE seg == Segment(gens + 1, cand.last)
    <3>1. seg \in Segs
      <4>1. gens + 1 \in Nat /\ cand.last \in Finality
        BY <1>1 DEF Typed, Cands
      <4> QED
        BY <4>1, SegmentTyped
    <3>2. StandsNext(seg)
      BY BlankStands, EmptyStands
    <3>3. cand' = AddSegment(cand, seg)
      BY <2>4
    <3> HIDE DEF seg
    <3>4. cand'.segs = Append(cand.segs, seg) /\ cand.segs \in Seq(Segs)
      BY <1>1, <3>1, <3>3, AddSegmentTyped DEF Cands
    <3>5. \A j \in DOMAIN cand'.segs : cand'.segs[j] = seg \/ (j \in DOMAIN cand.segs /\ cand'.segs[j] = cand.segs[j])
      BY <3>1, <3>4
    <3>6. \A j \in DOMAIN cand.segs : StandsNext(cand.segs[j])
      BY <2>4, StandsOn DEF AllStand
    <3> QED
      BY <3>2, <3>5, <3>6 DEF AllStandNext
  <2> QED
    BY <2>1, <2>2, <2>3, <2>4 DEF Continued
<1> QED
  BY <1>2, <1>3

\* A withdrawal takes the words of its sentence out of the open turn.
LEMMA WithdrawnStand ==
    ASSUME Typed, AllStand(cand), named, cand.state = "open", Withdrawn, Kept \subseteq Kept'
    PROVE  AllStandNext(cand')
<1> DEFINE mine == {i \in DOMAIN cand.segs : named /\ cand.state = "open" /\ cand.segs[i].rev = sentence}
<1>1. cand' = Without(cand, mine) /\ cand \in Cands
  BY DEF Withdrawn, Without, Emptied, Typed
<1>2. \A j \in DOMAIN cand.segs : j \notin mine => cand.segs[j].rev # sentence
  OBVIOUS
<1> HIDE DEF mine
<1>3. /\ DOMAIN cand'.segs = DOMAIN cand.segs
      /\ \A j \in DOMAIN cand.segs :
           IF j \in mine THEN cand'.segs[j].text = << >> /\ cand'.segs[j].final = << >> ELSE cand'.segs[j] = cand.segs[j]
  BY <1>1, WithdrawnTyped
<1>4. ASSUME NEW j \in DOMAIN cand.segs PROVE StandsNext(cand'.segs[j])
  <2>1. CASE j \in mine
    BY <1>3, <2>1, EmptyStands
  <2>2. CASE j \notin mine
    <3>1. Range(cand.segs[j].text) \subseteq Kept /\ Range(cand.segs[j].final) \subseteq Kept
      BY <1>2, <2>2 DEF AllStand, Stands
    <3> QED
      BY <1>3, <2>2, <3>1 DEF StandsNext
  <2> QED
    BY <2>1, <2>2
<1> QED
  BY <1>3, <1>4 DEF AllStandNext

\* Every step leaves the open turn with words that stand.
LEMMA SegmentsKept ==
    ASSUME TurnInv, GoneIsPast, CompletionsStand, SegmentsStand, TurnNext PROVE SegmentsStand'
<1>1. /\ Typed /\ named' = named /\ Kept \subseteq Kept' /\ (~Withdrawn => Passes)
      /\ (~Withdrawn /\ ~Final => sentence' = sentence /\ Now' = Now) /\ (Final => Now \subseteq Kept')
  BY WordsKept DEF TurnInv
<1> SUFFICES ASSUME named, cand'.state = "open" PROVE AllStandNext(cand')
  BY <1>1 DEF SegmentsStand, Stands, AllStandNext, StandsNext
<1>2. cand.state = "open" => AllStand(cand)
  BY DEF SegmentsStand, AllStand
<1>3. CASE Withdrawn
  <2> DEFINE mine == {i \in DOMAIN cand.segs : named /\ cand.state = "open" /\ cand.segs[i].rev = sentence}
  <2>1. cand' = Without(cand, mine) /\ cand \in Cands
    BY <1>1, <1>3 DEF Withdrawn, Without, Emptied, Typed
  <2> HIDE DEF mine
  <2>2. cand.state = "open"
    BY <2>1, WithdrawnTyped DEF SameTurn
  <2> QED
    BY <1>1, <1>2, <1>3, <2>2, WithdrawnStand
<1>4. CASE ~Withdrawn
  <2>1. Passes
    BY <1>1, <1>4
  <2>2. CASE HookStarts \/ VoiceprintAnswers \/ SettlementWakes \/ SettlementExpires
    BY <1>2, <2>1, <2>2, HookStand
  <2>3. CASE SpeechStarts \/ SpeechStops
    BY <1>1, <1>2, <2>1, <2>3, SpeechStand
  <2>4. CASE Final
    <3>1. sentence \in Sentences /\ Arrives(sentence, Said[sentence], TRUE)
      BY <2>4 DEF Final, Rev
    <3>2. Said[sentence] \in Texts /\ sentence \in Nat /\ sentence # 0 /\ Range(Said[sentence]) \subseteq Kept'
      BY <1>1, <2>4, <3>1, SaidTyped DEF Now
    <3> QED
      BY <1>1, <1>2, <2>1, <3>1, <3>2, ArrivesStand
  <2>5. CASE Hypothesis /\ ~Final
    <3>1. PICK n \in (upto + 1)..Len(Said[sentence]) :
             Arrives(sentence, SubSeq(Said[sentence], 1, n), FALSE) /\ sentence \in Sentences
      BY <2>5 DEF Hypothesis, Rev
    <3>2. n \in 1..Len(Said[sentence])
      BY <1>1, <3>1, SaidTyped DEF Typed
    <3>3. /\ SubSeq(Said[sentence], 1, n) \in Texts /\ Range(SubSeq(Said[sentence], 1, n)) \subseteq Now'
          /\ sentence' = sentence /\ sentence \in Nat /\ sentence # 0
      BY <1>1, <1>4, <2>5, <3>1, <3>2, SaidTyped DEF Now
    <3> QED
      BY <1>1, <1>2, <2>1, <3>1, <3>3, ArrivesStand
  <2>6. CASE EndpointCompletes \/ TranscriptionTimesOut \/ InterruptionRefuses \/ ReplyEnds \/ SessionCloses
    <3>1. cand' = cand \/ Rejects
      BY <2>6 DEF EndpointCompletes, TranscriptionTimesOut, InterruptionRefuses, ReplyEnds, SessionCloses
    <3>2. cand' = cand
      BY <1>1, <3>1, RejectsTyped
    <3> QED
      BY <1>2, <2>1, <3>2, SameStand
  <2> QED
    BY <1>4, <2>2, <2>3, <2>4, <2>5, <2>6 DEF TurnNext
<1> QED
  BY <1>3, <1>4

\* Nothing has been said at first.
LEMMA InitStanding == TurnInit => Standing
<1> SUFFICES ASSUME TurnInit PROVE Standing
  OBVIOUS
<1>1. cand.state = "none" /\ Range(<< >>) = {} /\ DOMAIN queue = {}
  BY DEF TurnInit, NoCandidate, Range
<1> QED
  BY <1>1 DEF TurnInit, Standing, GoneIsPast, CompletionsStand, SegmentsStand, NoGate

\* Every step keeps to the words that stand.
LEMMA NextStanding == TurnInv /\ Standing /\ [TurnNext]_turnVars => Standing'
<1>1. ASSUME TurnInv, Standing, TurnNext PROVE Standing'
  BY <1>1, WordsKept, CompletionsKept, SegmentsKept DEF TurnInv, Standing
<1>2. Standing /\ UNCHANGED turnVars => Standing'
  BY DEF turnVars, provider, Standing, GoneIsPast, CompletionsStand, SegmentsStand, Stands, Kept, Now, Sentences
<1> QED
  BY <1>1, <1>2

\* Where a recogniser names its sentences, every word of the open turn, of the framework's
\* buffer and of the completions under way was said in a sentence that is not withdrawn, or
\* is of the hypothesis of the running one (withdraw_transcript_revision and add_transcript
\* in user_turn_coordinator.py).
THEOREM TurnWordsStand == TurnSpec => []Standing
BY InitStanding, NextStanding, TurnCorrect, PTL DEF TurnSpec

\* A commit has no word of a withdrawn sentence.
LEMMA WithdrawnIsOut ==
    ASSUME TurnInv, Standing, TurnNext, sent' # sent, cand.state # "committed", NEW u \in gone,
           \A v \in Sentences : v # u => Said[u][1] \notin Range(Said[v])
    PROVE  ~Within(SubSeq(Said[u], 1, 1), sent'[Len(sent')].words)
<1> DEFINE words == sent'[Len(sent')].words
           first == SubSeq(Said[u], 1, 1)
<1>1. PICK g, c : Asked(g) /\ Comes(c, g) /\ words = Selected(c)
  BY StepCommits
<1>2. /\ Typed /\ g.text \in Texts /\ Range(g.text) \subseteq Kept
  BY <1>1, AskedStands DEF TurnInv, Standing, Asked, Gates
<1>3. u \in Sentences /\ u < sentence /\ named
  BY DEF Standing, GoneIsPast
<1>4. words \in Texts /\ Range(words) \subseteq Kept \cup Now
  <2>1. CASE cand.state = "open" /\ c = WithFramework(cand, g.text)
    <3>1. cand \in Cands /\ cand.segs \in Seq(Segs)
      BY <1>2 DEF Typed, Cands
    <3>2. words \in Texts /\ Range(words) \subseteq Range(Selected(cand)) \cup Range(g.text)
      BY <1>1, <1>2, <2>1, <3>1, FrameworkTyped
    <3>3. Range(Selected(cand)) \subseteq UNION {Range(SegText(cand.segs[i])) : i \in DOMAIN cand.segs}
      BY <3>1, SelectedHolds
    <3>4. \A i \in DOMAIN cand.segs : Range(SegText(cand.segs[i])) \subseteq Kept \cup Now
      BY <1>3, <2>1 DEF SegText, Standing, SegmentsStand, Stands
    <3> HIDE DEF words
    <3> QED
      BY <1>2, <3>2, <3>3, <3>4
  <2>2. CASE cand.state = "none" /\ c = WithFramework(First, g.text)
    <3>1. First \in Cands /\ First.segs = << >> /\ First.segs \in Seq(Segs)
      BY <1>2, FirstTyped DEF Cands
    <3>2. words \in Texts /\ Range(words) \subseteq Range(Selected(First)) \cup Range(g.text)
      BY <1>1, <1>2, <2>2, <3>1, FrameworkTyped
    <3>3. Range(Selected(First)) \subseteq UNION {Range(SegText(First.segs[i])) : i \in DOMAIN First.segs}
      BY <3>1, SelectedHolds
    <3>4. Range(Selected(First)) = {}
      <4>1. DOMAIN First.segs = {}
        BY <3>1
      <4> QED
        BY <3>3, <4>1
    <3> HIDE DEF words
    <3> QED
      BY <1>2, <3>2, <3>4
  <2> QED
    BY <1>1, <2>1, <2>2 DEF Comes
<1>5. first \in Texts /\ Said[u][1] \in Range(first)
  <2>1. 1 \in 1..Len(Said[u])
    BY <1>3, SaidTyped
  <2> QED
    BY <1>3, <2>1, SaidTyped
<1>6. Said[u][1] \notin Kept
  <2>1. \A v \in {w \in Sentences : w < sentence /\ w \notin gone} : Said[u][1] \notin Range(Said[v])
    OBVIOUS
  <2> QED
    BY <2>1 DEF Kept
<1>7. Said[u][1] \notin Now
  BY <1>2, <1>3, SaidTyped DEF Now, Typed
<1> HIDE DEF words, first
<1>8. ~Within(first, words)
  BY <1>4, <1>5, <1>6, <1>7, WithinRange
<1> QED
  BY <1>8 DEF words, first

\* A word stands for where it was said: no sentence says again the first word of another.
DistinctSentences ==
    \A u, v \in Sentences : v # u => Said[u][1] \notin Range(Said[v])

\* A commit carries all the words that stand and none that do not, in whichever order
\* revisions, withdrawals and completions arrive. The words of the model are marks: they
\* tell the sentences apart when no sentence begins with a word of another.
THEOREM TurnCommitIsWhole == DistinctSentences => (TurnSpec => CommitIsWhole)
<1> SUFFICES ASSUME DistinctSentences PROVE TurnSpec => CommitIsWhole
  OBVIOUS
<1>1. TurnInv /\ Standing /\ [TurnNext]_turnVars =>
        [sent' # sent /\ cand.state # "committed" =>
           \A u \in gone : ~Within(SubSeq(Said[u], 1, 1), sent'[Len(sent')].words)]_turnVars
  <2> SUFFICES ASSUME TurnInv, Standing, TurnNext, sent' # sent, cand.state # "committed", NEW u \in gone
               PROVE  ~Within(SubSeq(Said[u], 1, 1), sent'[Len(sent')].words)
    OBVIOUS
  <2>1. u \in Sentences
    BY DEF Standing, GoneIsPast
  <2> QED
    BY <2>1, WithdrawnIsOut DEF DistinctSentences
<1>2. TurnSpec => WithdrawnStaysOut
  BY <1>1, TurnCorrect, TurnWordsStand, PTL DEF TurnSpec, WithdrawnStaysOut
<1> QED
  BY <1>2, TurnNothingLeftOut DEF CommitIsWhole

-----------------------------------------------------------------------------
(* BrainSession *)

Starting == {"none", "discarding", "opening", "reaping", "closing", "writing"}

TurnsTyped ==
    /\ phase \in [Turns -> Starting \cup {"running", "over"}]
    /\ brain \in [Turns -> {"none", "running", "told", "over"}]
    /\ attempt \in [Turns -> SUBSET Turns]

\* The brain has not heard of a turn that is being started.
NotBegun == \A t \in Turns : phase[t] \in Starting => brain[t] = "none"

\* A turn that was given up for a retry is over, and the brain does not run it.
GivenUp == \A t \in Turns : \A s \in attempt[t] : phase[s] = "over" /\ brain[s] # "running"

BrainInv == TurnsTyped /\ NotBegun /\ GivenUp

\* How a step may move turn t: none begins again, and the brain starts what is written only.
Forward(t) ==
    /\ phase'[t] \in Starting => phase[t] \in Starting
    /\ phase[t] = "over" => phase'[t] = "over"
    /\ \/ brain'[t] = brain[t]
       \/ brain[t] \in {"running", "told"} /\ brain'[t] \in {"told", "over"}
       \/ phase[t] = "writing" /\ phase'[t] = "running"

-----------------------------------------------------------------------------
\* Nothing has begun, and nothing is retried.
LEMMA InitInv == Init => BrainInv
BY DEF Init, BrainInv, TurnsTyped, NotBegun, GivenUp, Starting

\* A step that retries nothing and moves turns forward preserves the argument.
LEMMA ForwardInv ==
    ASSUME BrainInv, TurnsTyped', UNCHANGED attempt, \A t \in Turns : Forward(t)
    PROVE  BrainInv'
<1>1. NotBegun'
  BY DEF BrainInv, NotBegun, Forward, Starting
<1>2. GivenUp'
  <2> SUFFICES ASSUME NEW t \in Turns, NEW s \in attempt[t]
               PROVE  phase'[s] = "over" /\ brain'[s] # "running"
    BY DEF GivenUp
  <2>1. s \in Turns
    BY DEF BrainInv, TurnsTyped
  <2>2. phase[s] = "over" /\ brain[s] # "running" /\ Forward(s)
    BY <2>1 DEF BrainInv, GivenUp
  <2> QED
    BY <2>2 DEF Forward
<1> QED
  BY <1>1, <1>2 DEF BrainInv

\* The end of a call ends what runs on it; so does a write that is cut off.
LEMMA EndedForward ==
    ASSUME TurnsTyped, brain' \in {brain, Ended}
    PROVE  /\ brain' \in [Turns -> {"none", "running", "told", "over"}]
           /\ \A t \in Turns : \/ brain'[t] = brain[t]
                               \/ brain[t] \in {"running", "told"} /\ brain'[t] = "over"
BY DEF TurnsTyped, Ended

\* A step in which only one starter moves, and the call may end.
LEMMA OneMoves ==
    ASSUME BrainInv, NEW t \in Turns, NEW p \in Starting \cup {"running", "over"},
           phase' = [phase EXCEPT ![t] = p], brain' \in {brain, Ended}, UNCHANGED attempt,
           phase[t] # "over", p \in Starting => phase[t] \in Starting
    PROVE  BrainInv'
<1>1. TurnsTyped'
  BY EndedForward DEF BrainInv, TurnsTyped
<1>2. \A u \in Turns : Forward(u)
  BY EndedForward DEF BrainInv, TurnsTyped, Forward
<1> QED
  BY <1>1, <1>2, ForwardInv

\* A step in which no starter or consumer moves, and the call may end.
LEMMA NoneMoves ==
    ASSUME BrainInv, brain' \in {brain, Ended}, UNCHANGED <<phase, attempt>>
    PROVE  BrainInv'
<1>1. TurnsTyped'
  BY EndedForward DEF BrainInv, TurnsTyped
<1>2. \A u \in Turns : Forward(u)
  BY EndedForward DEF BrainInv, Forward
<1> QED
  BY <1>1, <1>2, ForwardInv

-----------------------------------------------------------------------------
\* start_turn leaves its turn at an await, or over.
LEMMA StartTurnMoves ==
    ASSUME NEW t \in Turns, StartTurn(t)
    PROVE  \E p \in Starting \cup {"over"} : phase' = [phase EXCEPT ![t] = p]
BY DEF StartTurn, Starting

\* A stream or the warmer begins: with the discard of the warm-up, or with start_turn.
LEMMA BeginsInv ==
    ASSUME BrainInv, NEW t \in Turns, Chat(t) \/ Warm(t) \/ Discarded(t)
    PROVE  BrainInv'
<1>1. UNCHANGED <<brain, attempt>> /\ phase[t] \in {"none", "discarding"}
  BY DEF Chat, Warm, Discarded, Fresh
<1>2. \E p \in Starting \cup {"over"} : phase' = [phase EXCEPT ![t] = p]
  BY StartTurnMoves DEF Chat, Warm, Discarded, Discards, Starting
<1> QED
  BY <1>1, <1>2, OneMoves DEF Starting

\* The way of a starter through the lock.
LEMMA OpensInv ==
    ASSUME BrainInv, NEW t \in Turns, GetsLock(t) \/ Reaped(t) \/ ChannelClosed(t)
    PROVE  BrainInv'
<1>1. UNCHANGED <<brain, attempt>> /\ phase[t] \in {"opening", "reaping", "closing"}
  BY DEF GetsLock, Reaped, ChannelClosed, turns
<1>2. \E p \in Starting : phase' = [phase EXCEPT ![t] = p]
  BY DEF GetsLock, Reaped, ChannelClosed, Starting
<1> QED
  BY <1>1, <1>2, OneMoves DEF Starting

\* Only the written StartTurn sets the brain to work, on a turn nobody has given up.
LEMMA StartedInv == ASSUME BrainInv, NEW t \in Turns, Started(t) PROVE BrainInv'
<1>1. TurnsTyped'
  BY DEF BrainInv, TurnsTyped, Started
<1>2. \A u \in Turns : Forward(u)
  BY DEF BrainInv, TurnsTyped, Started, Forward, Starting
<1> QED
  BY <1>1, <1>2, ForwardInv DEF Started

\* A turn ends with its start or its consumer, or is left to cancel_turn.
LEMMA EndsInv ==
    ASSUME BrainInv, NEW t \in Turns,
           StartFails(t) \/ Finish(t) \/ Interrupted(t) \/ DeadlinePasses(t)
    PROVE  BrainInv'
<1>1. UNCHANGED <<brain, attempt>> /\ phase[t] \in {"writing", "running"}
      /\ phase' = [phase EXCEPT ![t] = "over"]
  BY DEF StartFails, Finish, Interrupted, DeadlinePasses, GiveUp, Over
<1> QED
  BY <1>1, OneMoves DEF Starting

\* A start that is given up has not reached the brain.
LEMMA AbortsMoves ==
    ASSUME BrainInv, NEW t \in Turns, Aborts(t)
    PROVE  /\ phase[t] \in Starting \ {"none"} /\ phase' = [phase EXCEPT ![t] = "over"]
           /\ brain' \in {brain, Ended} /\ brain'[t] = "none"
<1>1. phase[t] \in Starting \ {"none"} /\ phase' = [phase EXCEPT ![t] = "over"]
  BY DEF Aborts, Over, Starting
<1>2. brain' \in {brain, Ended}
  BY DEF Aborts, WriterCut, End
<1> QED
  BY <1>1, <1>2, EndedForward DEF BrainInv, NotBegun

\* A stream that is cancelled for good retries nothing.
LEMMA StartCancelledInv == ASSUME BrainInv, NEW t \in Turns, StartCancelled(t) PROVE BrainInv'
<1>1. phase[t] # "over"
  BY AbortsMoves DEF StartCancelled, Starting
<1> QED
  BY <1>1, AbortsMoves, OneMoves DEF StartCancelled, Starting

\* What is tried again is over before the next attempt begins, and those before it as well.
LEMMA StartTimesOutInv ==
    ASSUME BrainInv, NEW t \in Turns, NEW s \in Turns, StartTimesOut(t, s) PROVE BrainInv'
<1>1. /\ Aborts(t) /\ attempt' = [attempt EXCEPT ![s] = attempt[t] \cup {t}]
  BY DEF StartTimesOut
<1>2. /\ phase[t] \in Starting \ {"none"} /\ phase' = [phase EXCEPT ![t] = "over"]
      /\ brain' \in {brain, Ended} /\ brain'[t] = "none"
  BY <1>1, AbortsMoves
<1>3. \A u \in Turns : Forward(u)
  BY <1>2, EndedForward DEF BrainInv, TurnsTyped, Forward, Starting
<1>4. TurnsTyped'
  BY <1>1, <1>2, EndedForward DEF BrainInv, TurnsTyped
<1>5. NotBegun'
  BY <1>2, <1>3 DEF BrainInv, NotBegun, Forward, Starting
<1>6. phase'[t] = "over" /\ brain'[t] # "running"
  BY <1>2 DEF BrainInv, TurnsTyped
<1>7. \A u \in Turns : \A v \in attempt[u] : phase'[v] = "over" /\ brain'[v] # "running"
  BY <1>3 DEF BrainInv, TurnsTyped, GivenUp, Forward
<1>8. GivenUp'
  BY <1>1, <1>6, <1>7 DEF BrainInv, TurnsTyped, GivenUp
<1> QED
  BY <1>4, <1>5, <1>8 DEF BrainInv

\* A cancellation that the reader takes moves no turn.
LEMMA CancelPassesOnInv == ASSUME BrainInv, NEW t \in Turns, CancelPassesOn(t) PROVE BrainInv'
BY NoneMoves DEF CancelPassesOn, turns

-----------------------------------------------------------------------------
\* cancel_turn, tools, and what the brain does while it works.
LEMMA CancelInv ==
    ASSUME BrainInv, NEW t \in Turns,
           \/ CancelRuns(t) \/ ToolsGone(t) \/ BrainWorks(t) \/ BrainCalls(t)
           \/ BrainRecalls(t) \/ ToolReturns(t) \/ ToolWritten(t)
    PROVE  BrainInv'
<1>1. UNCHANGED <<phase, attempt>>
  BY DEF CancelRuns, ToolsGone, BrainWorks, BrainCalls, BrainRecalls, ToolReturns, ToolWritten, turns
<1>2. brain' \in {brain, Ended}
  BY DEF CancelRuns, ToolsGone, BrainWorks, BrainCalls, BrainRecalls, ToolReturns, ToolWritten,
         ToolWriterCut, WriterCut, End
<1> QED
  BY <1>1, <1>2, NoneMoves

\* The brain is told that a turn is cancelled, or comes to its end.
LEMMA BrainStopsInv ==
    ASSUME BrainInv, NEW t \in Turns, CancelWritten(t) \/ BrainEnds(t) PROVE BrainInv'
<1>1. UNCHANGED <<phase, attempt>>
  BY DEF CancelWritten, BrainEnds, turns
<1>2. CASE CancelWritten(t)
  <2>1. TurnsTyped'
    BY <1>1, <1>2 DEF BrainInv, TurnsTyped, CancelWritten
  <2>2. \A u \in Turns : Forward(u)
    BY <1>1, <1>2 DEF BrainInv, TurnsTyped, CancelWritten, Forward
  <2> QED
    BY <1>1, <2>1, <2>2, ForwardInv
<1>3. CASE BrainEnds(t)
  <2>1. TurnsTyped'
    BY <1>1, <1>3 DEF BrainInv, TurnsTyped, BrainEnds
  <2>2. \A u \in Turns : Forward(u)
    BY <1>1, <1>3 DEF BrainInv, TurnsTyped, BrainEnds, Dispatched, Forward
  <2> QED
    BY <1>1, <2>1, <2>2, ForwardInv
<1> QED
  BY <1>2, <1>3

\* The call, its reader, and the first and the last step of aclose.
LEMMA CallInv ==
    ASSUME BrainInv, NEW why \in {"eof", "error"},
           CallEnds(why) \/ ReaderLeaves \/ ReaderSettles \/ CloseBegins \/ CloseEnds
    PROVE  BrainInv'
<1>1. UNCHANGED <<phase, attempt>>
  BY DEF CallEnds, ReaderLeaves, ReaderSettles, CloseBegins, CloseEnds, turns
<1>2. brain' \in {brain, Ended}
  BY DEF CallEnds, ReaderLeaves, ReaderSettles, CloseBegins, CloseEnds, End, wire
<1> QED
  BY <1>1, <1>2, NoneMoves

\* aclose cancels the drains of warm-ups, which are over then.
LEMMA CloseCancelsInv == ASSUME BrainInv, CloseCancels PROVE BrainInv'
<1>1. brain' \in {brain, Ended} /\ UNCHANGED attempt
  BY DEF CloseCancels, End, turns
<1>2. TurnsTyped'
  BY <1>1, EndedForward DEF BrainInv, TurnsTyped, CloseCancels
<1>3. \A u \in Turns : Forward(u)
  BY <1>1, EndedForward DEF BrainInv, TurnsTyped, CloseCancels, Forward, Starting
<1> QED
  BY <1>1, <1>2, <1>3, ForwardInv

-----------------------------------------------------------------------------
\* Every step, and a stutter, preserves the argument.
LEMMA NextInv == ASSUME BrainInv, [Next]_vars PROVE BrainInv'
<1>1. CASE UNCHANGED vars
  BY <1>1, NoneMoves DEF vars, turns
<1>2. ASSUME NEW t \in Turns, Steps(t) PROVE BrainInv'
  BY <1>2, BeginsInv, OpensInv, StartedInv, EndsInv, StartCancelledInv, StartTimesOutInv,
     CancelPassesOnInv, CancelInv, BrainStopsInv DEF Steps
<1>3. ASSUME NEW why \in {"eof", "error"}, CallEnds(why) PROVE BrainInv'
  BY <1>3, CallInv
<1>4. CASE ReaderLeaves \/ ReaderSettles \/ CloseBegins \/ CloseEnds
  BY <1>4, CallInv
<1> QED
  BY <1>1, <1>2, <1>3, <1>4, CloseCancelsInv DEF Next

\* The brain never works on two turns of one utterance, however often a start times out and
\* whatever becomes of the calls: a turn is tried again only where it has not reached the brain.
THEOREM BrainRepliesOnce == Spec => []RepliesOnce
<1>1. BrainInv => RepliesOnce
  BY DEF BrainInv, GivenUp, RepliesOnce
<1> QED
  BY <1>1, InitInv, NextInv, PTL DEF Spec

-----------------------------------------------------------------------------
(* No turn waits on a call that nobody reads.  Three things keep it: the call *)
(* that is open is the newest and has its reader; one starter at a time finds *)
(* it ended and opens another, once its reader is gone; and whoever waits has *)
(* a queue that the last broadcast of that reader reaches.                    *)

Ends == {"none", "done", "ended", "closed"}

\* Who holds _open_lock, and who has a queue in _inbox or has been told an end.
Openers == {"reaping", "closing"}
Queued == {"opening", "reaping", "closing", "writing", "running"}

CallTyped ==
    /\ inbox \in [Turns -> [known : BOOLEAN, end : Ends]]
    /\ on \in [Turns -> Nat] /\ cur \in Nat
    /\ reader \in {"none", "reading"} \cup Leaving \cup Gone

\* The open call is the newest, and is read.
OneCall == alive \subseteq {cur} \ {0} /\ (alive # {} => reader = "reading")

OneOpener ==
    /\ \A t \in Turns : phase[t] \in Openers => alive = {} /\ cur # 0
    /\ \A t \in Turns : phase[t] = "closing" => reader \in Gone
    /\ \A s, t \in Turns : phase[s] \in Openers /\ phase[t] \in Openers => s = t

Reachable(t) ==
    /\ phase[t] \in Queued => inbox[t].known \/ inbox[t].end # "none"
    /\ phase[t] = "running" => on[t] # 0 /\ cur # 0

ToldOrLost(t) ==
    phase[t] = "running" /\ (on[t] # cur \/ reader \in Gone)
        => inbox[t].end # "none" \/ on[t] \in lost

StrandInv ==
    /\ CallTyped /\ OneCall /\ OneOpener
    /\ \A t \in Turns : Reachable(t) /\ ToldOrLost(t)

\* How most steps treat the call and its reader: none opens a call or ends the reader.
CallSoft ==
    /\ cur' = cur /\ alive' \subseteq alive /\ lost \subseteq lost'
    /\ alive' # {} => reader' = reader
    /\ reader \in Gone <=> reader' \in Gone

\* How they treat a turn: it may lose its queue when it is over only, and runs on the open call.
TurnSoft(t) ==
    /\ phase'[t] \in Openers => phase'[t] = phase[t]
    /\ phase'[t] \in Queued =>
          \/ phase[t] \in Queued /\ (inbox'[t] = inbox[t] \/ inbox'[t].end # "none")
          \/ phase[t] # "running" /\ inbox'[t].known
    /\ phase'[t] = "running" =>
          \/ phase[t] = "running" /\ on'[t] = on[t]
          \/ on'[t] = cur /\ cur # 0 /\ reader' \notin Gone

\* A soft step strands nobody.
LEMMA SoftStrands ==
    ASSUME StrandInv, CallTyped', CallSoft, \A t \in Turns : TurnSoft(t)
    PROVE  StrandInv'
<1>1. OneCall'
  BY DEF StrandInv, OneCall, CallSoft
<1>2. OneOpener'
  BY DEF StrandInv, OneOpener, CallSoft, TurnSoft, Openers
<1>3. \A t \in Turns : Reachable(t)'
  BY DEF StrandInv, Reachable, CallSoft, TurnSoft
<1>4. \A t \in Turns : ToldOrLost(t)'
  BY DEF StrandInv, ToldOrLost, CallSoft, TurnSoft, Queued
<1> QED
  BY <1>1, <1>2, <1>3, <1>4 DEF StrandInv

\* A step in which one turn moves, to where it needs no queue or with the queue it has.
LEMMA OneTurnSoft ==
    ASSUME BrainInv, StrandInv, NEW t \in Turns, NEW p, phase' = [phase EXCEPT ![t] = p],
           p \notin Openers \cup {"running"}, p \in Queued => phase[t] \in Queued /\ UNCHANGED inbox,
           \A u \in Turns \ {t} : inbox'[u] = inbox[u] /\ on'[u] = on[u]
    PROVE  \A u \in Turns : TurnSoft(u)
BY DEF TurnSoft, BrainInv, TurnsTyped, Queued, Openers

\* The end of the open call, and a write that is cut off, are soft.
LEMMA EndSoft ==
    ASSUME StrandInv, alive' \in {alive, alive \ {cur}}, UNCHANGED <<cur, lost, reader>>
    PROVE  CallSoft
BY DEF CallSoft

\* So is the cancellation of the reader of an ended call.
LEMMA CancelReaderSoft ==
    ASSUME StrandInv, CancelReader, alive' = {}, UNCHANGED <<cur, lost>>
    PROVE  CallSoft /\ reader' \in {"none", "reading"} \cup Leaving \cup Gone
BY DEF StrandInv, CallTyped, CallSoft, CancelReader, Gone, Leaving

\* Queues stay queues.
LEMMA QueuesTyped ==
    ASSUME CallTyped
    PROVE  /\ NoQueue \in [known : BOOLEAN, end : Ends] /\ Queue \in [known : BOOLEAN, end : Ends]
           /\ Queue.known
           /\ \A e \in Ends \ {"none"}, t \in Turns :
                 /\ Put(inbox[t], e) \in [known : BOOLEAN, end : Ends]
                 /\ inbox[t].known \/ inbox[t].end # "none" => Put(inbox[t], e).end # "none"
BY DEF CallTyped, NoQueue, Queue, Put, Ends

\* The starter that has the lock finds the call open, opens the first one, or is the one to
\* replace it.
LEMMA EnsuresStrand ==
    ASSUME BrainInv, StrandInv, NEW t \in Turns, NEW p, LockFree, EnsureOpen(p),
           phase' = [phase EXCEPT ![t] = p], phase[t] # "running",
           inbox' \in [Turns -> [known : BOOLEAN, end : Ends]],
           inbox'[t].known \/ inbox'[t].end # "none",
           \A u \in Turns \ {t} : inbox'[u] = inbox[u],
           UNCHANGED <<on, lost>>
    PROVE  StrandInv'
<1>1. /\ phase'[t] = p /\ \A u \in Turns \ {t} : phase'[u] = phase[u] /\ phase'[u] \notin Openers
      /\ \A u \in Turns : phase'[u] = "running" => u # t
  BY DEF BrainInv, TurnsTyped, LockFree, Openers, EnsureOpen
<1>2. /\ reader' \in {"none", "reading"} \cup Leaving \cup Gone /\ cur' \in Nat
      /\ alive' \subseteq {cur'} \ {0} /\ (alive' # {} => reader' = "reading")
      /\ p \in Openers => alive' = {} /\ cur' # 0 /\ cur' = cur /\ (reader' \in Gone <=> reader \in Gone)
      /\ p = "closing" => reader' \in Gone
  <2>1. CallTyped /\ OneCall
    BY DEF StrandInv
  <2>2. CASE UNCHANGED <<cur, alive, reader>> /\ p = "writing"
    BY <2>1, <2>2 DEF CallTyped, OneCall, Openers
  <2>3. CASE cur = 0 /\ p = "writing" /\ Create
    <3>1. alive = {}
      BY <2>1, <2>3 DEF OneCall
    <3>2. cur' = 1 /\ reader' = "reading" /\ alive' \subseteq {cur'}
      BY <2>3, <3>1 DEF Create
    <3> QED
      BY <2>3, <3>2 DEF Openers
  <2>4. CASE cur # 0 /\ cur \notin alive /\ UNCHANGED <<cur, alive>> /\ UNCHANGED reader /\ reader \in Gone
    BY <2>1, <2>4 DEF CallTyped, OneCall
  <2>5. CASE cur # 0 /\ cur \notin alive /\ UNCHANGED <<cur, alive>> /\ CancelReader /\ p = "reaping"
    <3>1. alive' = {} /\ cur' = cur /\ cur \in Nat
      BY <2>1, <2>5 DEF CallTyped, OneCall
    <3>2. /\ reader' \in {"none", "reading"} \cup Leaving \cup Gone
          /\ (reader' \in Gone <=> reader \in Gone)
      BY <2>1, <2>5 DEF CallTyped, CancelReader, Gone, Leaving
    <3> QED
      BY <2>5, <3>1, <3>2
  <2> QED
    BY <2>2, <2>3, <2>4, <2>5 DEF EnsureOpen
<1>3. CallTyped' /\ OneCall'
  BY <1>2 DEF StrandInv, CallTyped, OneCall
<1>4. OneOpener'
  BY <1>1, <1>2 DEF OneOpener, Openers
<1>5. cur = 0 \/ (cur' = cur /\ (reader' \in Gone <=> reader \in Gone))
  BY DEF EnsureOpen, CancelReader, Gone
<1>6. \A u \in Turns : Reachable(u)'
  BY <1>1, <1>5 DEF StrandInv, Reachable
<1>7. \A u \in Turns : ToldOrLost(u)'
  BY <1>1, <1>5 DEF StrandInv, Reachable, ToldOrLost
<1> QED
  BY <1>3, <1>4, <1>6, <1>7 DEF StrandInv

\* start_turn enters the turn in _inbox before it opens the call.
LEMMA StartTurnStrands ==
    ASSUME BrainInv, StrandInv, NEW t \in Turns, StartTurn(t), phase[t] \in {"none", "discarding"},
           UNCHANGED <<on, lost>>
    PROVE  StrandInv'
<1>1. CASE session # "open"
  <2>1. phase' = [phase EXCEPT ![t] = "over"] /\ UNCHANGED <<inbox, cur, alive, reader, on, lost>>
    BY <1>1 DEF StartTurn
  <2>2. \A u \in Turns : TurnSoft(u)
    BY <2>1, OneTurnSoft DEF Openers, Queued
  <2> QED
    BY <2>1, <2>2, SoftStrands, EndSoft DEF StrandInv, CallTyped
<1>2. CASE session = "open"
  <2>1. /\ inbox' = [inbox EXCEPT ![t] = Queue]
        /\ \/ phase' = [phase EXCEPT ![t] = "opening"] /\ UNCHANGED <<cur, alive, reader>>
           \/ LockFree /\ \E p : EnsureOpen(p) /\ phase' = [phase EXCEPT ![t] = p]
    BY <1>2 DEF StartTurn
  <2>2. /\ inbox' \in [Turns -> [known : BOOLEAN, end : Ends]] /\ inbox'[t].known
        /\ \A u \in Turns \ {t} : inbox'[u] = inbox[u]
    BY <2>1, QueuesTyped DEF StrandInv, CallTyped
  <2>3. CASE phase' = [phase EXCEPT ![t] = "opening"] /\ UNCHANGED <<cur, alive, reader>>
    <3>1. \A u \in Turns : TurnSoft(u)
      BY <2>2, <2>3 DEF TurnSoft, BrainInv, TurnsTyped, Openers
    <3>2. CallTyped'
      BY <2>2, <2>3 DEF StrandInv, CallTyped
    <3> QED
      BY <2>3, <3>1, <3>2, SoftStrands, EndSoft
  <2>4. CASE LockFree /\ \E p : EnsureOpen(p) /\ phase' = [phase EXCEPT ![t] = p]
    BY <2>2, <2>4, EnsuresStrand
  <2> QED
    BY <2>1, <2>3, <2>4
<1> QED
  BY <1>1, <1>2

\* A stream or the warmer begins, and comes back from the discard.
LEMMA BeginsStrand ==
    ASSUME BrainInv, StrandInv, NEW t \in Turns, Chat(t) \/ Warm(t) \/ Discarded(t)
    PROVE  StrandInv'
<1>1. UNCHANGED <<on, lost>> /\ phase[t] \in {"none", "discarding"}
  BY DEF Chat, Warm, Discarded, Fresh
<1>2. CASE StartTurn(t)
  BY <1>1, <1>2, StartTurnStrands
<1>3. CASE ~StartTurn(t)
  <2>1. phase' = [phase EXCEPT ![t] = "discarding"] /\ UNCHANGED <<inbox, cur, alive, reader>>
    BY <1>3 DEF Chat, Warm, Discarded, Discards
  <2>2. \A u \in Turns : TurnSoft(u)
    BY <1>1, <2>1, OneTurnSoft DEF Openers, Queued
  <2> QED
    BY <1>1, <2>1, <2>2, SoftStrands, EndSoft DEF StrandInv, CallTyped
<1> QED
  BY <1>2, <1>3

\* The way through the lock: the reader of the ended call is reaped, its channel is closed, and
\* the next call is opened.
LEMMA OpensStrand ==
    ASSUME BrainInv, StrandInv, NEW t \in Turns, GetsLock(t) \/ Reaped(t) \/ ChannelClosed(t)
    PROVE  StrandInv'
<1>1. UNCHANGED <<on, inbox, lost>>
  BY DEF GetsLock, Reaped, ChannelClosed, wire
<1>2. CASE GetsLock(t)
  <2>1. /\ phase[t] = "opening" /\ LockFree
        /\ \E p : EnsureOpen(p) /\ phase' = [phase EXCEPT ![t] = p]
    BY <1>2 DEF GetsLock
  <2>2. inbox[t].known \/ inbox[t].end # "none"
    BY <2>1 DEF StrandInv, Reachable, Queued
  <2> QED
    BY <1>1, <2>1, <2>2, EnsuresStrand DEF StrandInv, CallTyped
<1>3. CASE Reaped(t)
  <2>1. /\ phase[t] = "reaping" /\ reader \in Gone /\ UNCHANGED <<cur, alive, reader>>
        /\ phase' = [phase EXCEPT ![t] = "closing"]
    BY <1>3 DEF Reaped, wire
  <2>2. OneOpener'
    BY <2>1 DEF StrandInv, OneOpener, BrainInv, TurnsTyped, Openers
  <2>3. \A u \in Turns : Reachable(u)' /\ ToldOrLost(u)'
    BY <1>1, <2>1 DEF StrandInv, Reachable, ToldOrLost, BrainInv, TurnsTyped, Queued
  <2>4. CallTyped' /\ OneCall'
    BY <1>1, <2>1 DEF StrandInv, CallTyped, OneCall
  <2> QED
    BY <2>2, <2>3, <2>4 DEF StrandInv
<1>4. CASE ChannelClosed(t)
  <2>1. /\ phase[t] = "closing" /\ cur' = cur + 1 /\ alive' = alive \cup {cur'} /\ reader' = "reading"
        /\ phase' = [phase EXCEPT ![t] = "writing"]
    BY <1>4 DEF ChannelClosed, Create
  <2>2. alive = {} /\ reader \in Gone /\ cur' \in Nat /\ cur' # 0 /\ alive' = {cur'}
    BY <2>1 DEF StrandInv, OneOpener, CallTyped, Openers
  <2>3. CallTyped' /\ OneCall'
    BY <1>1, <2>1, <2>2 DEF StrandInv, CallTyped, OneCall
  <2>4. OneOpener'
    BY <2>1 DEF StrandInv, OneOpener, BrainInv, TurnsTyped, Openers
  <2>5. \A u \in Turns : Reachable(u)'
    BY <1>1, <2>1, <2>2 DEF StrandInv, Reachable, BrainInv, TurnsTyped, Queued
  <2>6. \A u \in Turns : ToldOrLost(u)'
    BY <1>1, <2>1, <2>2 DEF StrandInv, ToldOrLost, BrainInv, TurnsTyped
  <2> QED
    BY <2>3, <2>4, <2>5, <2>6 DEF StrandInv
<1> QED
  BY <1>2, <1>3, <1>4

\* A turn is started on the open call, with the queue it has.
LEMMA StartedStrand == ASSUME BrainInv, StrandInv, NEW t \in Turns, Started(t) PROVE StrandInv'
<1>1. /\ phase[t] = "writing" /\ cur \in alive /\ phase' = [phase EXCEPT ![t] = "running"]
      /\ on' = [on EXCEPT ![t] = cur] /\ UNCHANGED <<inbox, cur, alive, reader, lost>>
  BY DEF Started, wire
<1>2. cur # 0 /\ reader \notin Gone
  BY <1>1 DEF StrandInv, OneCall, Gone
<1>3. \A u \in Turns : TurnSoft(u)
  BY <1>1, <1>2 DEF TurnSoft, BrainInv, TurnsTyped, StrandInv, CallTyped, Queued, Openers
<1>4. CallTyped'
  BY <1>1 DEF StrandInv, CallTyped
<1> QED
  BY <1>1, <1>3, <1>4, SoftStrands, EndSoft

\* A turn that is over has no queue left.
LEMMA OverSoft ==
    ASSUME BrainInv, StrandInv, NEW t \in Turns, Over(t)
    PROVE  /\ \A u \in Turns : TurnSoft(u)
           /\ inbox' \in [Turns -> [known : BOOLEAN, end : Ends]] /\ on' \in [Turns -> Nat]
<1>1. /\ phase' = [phase EXCEPT ![t] = "over"]
      /\ \A u \in Turns \ {t} : inbox'[u] = inbox[u] /\ on'[u] = on[u]
  BY DEF Over, StrandInv, CallTyped
<1>2. \A u \in Turns : TurnSoft(u)
  BY <1>1, OneTurnSoft DEF Openers, Queued
<1> QED
  BY <1>2, QueuesTyped DEF Over, StrandInv, CallTyped

\* The ends of turns: in their start, by their consumer, or given up.
LEMMA EndsStrand ==
    ASSUME BrainInv, StrandInv, NEW t \in Turns,
           \/ StartFails(t) \/ Finish(t) \/ Interrupted(t) \/ DeadlinePasses(t)
           \/ StartCancelled(t) \/ \E s \in Turns : StartTimesOut(t, s)
    PROVE  StrandInv'
<1>1. Over(t) /\ UNCHANGED <<cur, reader, lost>> /\ alive' \in {alive, alive \ {cur}}
  BY DEF StartFails, Finish, Interrupted, DeadlinePasses, StartCancelled, StartTimesOut, GiveUp,
         Aborts, WriterCut, End, wire
<1>2. CallTyped'
  BY <1>1, OverSoft DEF StrandInv, CallTyped
<1> QED
  BY <1>1, <1>2, OverSoft, SoftStrands, EndSoft

\* A step that moves no turn.
LEMMA StillSoft ==
    ASSUME BrainInv, StrandInv, UNCHANGED <<phase, inbox, on>>
    PROVE  \A t \in Turns : TurnSoft(t)
BY DEF TurnSoft

\* The starter that is cancelled holds the lock, no call is open, and its reader takes it.
LEMMA CancelPassesOnStrands ==
    ASSUME BrainInv, StrandInv, NEW t \in Turns, CancelPassesOn(t) PROVE StrandInv'
<1>1. /\ phase[t] = "reaping" /\ CancelReader
      /\ UNCHANGED <<phase, inbox, on, cur, alive, lost>>
  BY DEF CancelPassesOn
<1>2. alive' = {}
  BY <1>1 DEF StrandInv, OneOpener, Openers
<1>3. CallSoft /\ CallTyped'
  BY <1>1, <1>2, CancelReaderSoft DEF StrandInv, CallTyped
<1> QED
  BY <1>1, <1>3, StillSoft, SoftStrands

\* cancel_turn, tools, and what the brain says while it works.
LEMMA CancelStrands ==
    ASSUME BrainInv, StrandInv, NEW t \in Turns,
           \/ CancelRuns(t) \/ ToolsGone(t) \/ CancelWritten(t) \/ BrainWorks(t) \/ BrainCalls(t)
           \/ BrainRecalls(t) \/ ToolReturns(t) \/ ToolWritten(t)
    PROVE  StrandInv'
<1>1. UNCHANGED <<phase, inbox, on, cur, reader, lost>> /\ alive' \in {alive, alive \ {cur}}
  BY DEF CancelRuns, ToolsGone, CancelWritten, BrainWorks, BrainCalls, BrainRecalls, ToolReturns,
         ToolWritten, ToolWriterCut, WriterCut, End, turns, wire
<1>2. CallTyped'
  BY <1>1 DEF StrandInv, CallTyped
<1> QED
  BY <1>1, <1>2, StillSoft, SoftStrands, EndSoft

\* The end of a turn goes into its queue.
LEMMA BrainEndsStrand == ASSUME BrainInv, StrandInv, NEW t \in Turns, BrainEnds(t) PROVE StrandInv'
<1>1. /\ inbox' = [inbox EXCEPT ![t] = Put(inbox[t], "done")]
      /\ UNCHANGED <<phase, on, cur, alive, reader, lost>>
  BY DEF BrainEnds, turns, wire
<1>2. inbox' \in [Turns -> [known : BOOLEAN, end : Ends]]
  BY <1>1, QueuesTyped DEF StrandInv, CallTyped, Ends
<1>3. \A u \in Turns : phase[u] \in Queued => inbox'[u] = inbox[u] \/ inbox'[u].end # "none"
  BY <1>1, QueuesTyped DEF StrandInv, CallTyped, Ends, Reachable
<1>4. \A u \in Turns : TurnSoft(u)
  BY <1>1, <1>3 DEF TurnSoft
<1>5. CallTyped'
  BY <1>1, <1>2 DEF StrandInv, CallTyped
<1> QED
  BY <1>1, <1>4, <1>5, SoftStrands, EndSoft

\* The call ends; aclose half-closes it and cancels its reader.
LEMMA CallEndsStrand ==
    ASSUME BrainInv, StrandInv, NEW why, CallEnds(why) \/ CloseBegins
    PROVE  StrandInv'
<1>1. UNCHANGED <<phase, inbox, on, lost, cur>>
  BY DEF CallEnds, CloseBegins, turns, wire
<1>2. CASE CallEnds(why) \/ cur = 0
  <2>1. UNCHANGED reader /\ alive' \in {alive, alive \ {cur}}
    BY <1>2 DEF CallEnds, CloseBegins, End, wire
  <2>2. CallTyped'
    BY <1>1, <2>1 DEF StrandInv, CallTyped
  <2> QED
    BY <1>1, <2>1, <2>2, StillSoft, SoftStrands, EndSoft
<1>3. CASE CloseBegins /\ cur # 0
  <2>1. CancelReader /\ alive' = alive \ {cur}
    BY <1>3 DEF CloseBegins, End
  <2>2. alive' = {}
    BY <2>1 DEF StrandInv, OneCall
  <2>3. CallSoft /\ CallTyped'
    BY <1>1, <2>1, <2>2, CancelReaderSoft DEF StrandInv, CallTyped
  <2> QED
    BY <1>1, <2>3, StillSoft, SoftStrands
<1> QED
  BY <1>2, <1>3

\* Everybody who has a queue is told by the reader's last broadcast.
LEMMA BroadcastTells ==
    ASSUME BrainInv, StrandInv
    PROVE  /\ Broadcast \in [Turns -> [known : BOOLEAN, end : Ends]]
           /\ \A t \in Turns : phase[t] \in Queued => Broadcast[t].end # "none"
BY QueuesTyped DEF Broadcast, StrandInv, Reachable, Ends

\* The reader leaves its loop, and settles with its tools: it tells them all, or cut off, none,
\* and its call is one of the lost.
LEMMA ReaderStrands ==
    ASSUME BrainInv, StrandInv, ReaderLeaves \/ ReaderSettles
    PROVE  StrandInv'
<1>1. /\ UNCHANGED <<phase, on, cur, alive>> /\ inbox' \in {inbox, Broadcast}
      /\ reader' \in {"over", "settling", "lost"} /\ lost \subseteq lost'
      /\ \/ inbox' = Broadcast
         \/ reader' = "settling"
         \/ reader' = "lost" /\ lost' = lost \cup {cur}
  BY DEF ReaderLeaves, ReaderSettles, turns
<1>2. alive = {} /\ reader \notin Gone
  BY DEF ReaderLeaves, ReaderSettles, StrandInv, OneCall, Gone
<1>3. CallTyped'
  BY <1>1, BroadcastTells DEF StrandInv, CallTyped, Gone, Leaving
<1>4. OneCall' /\ OneOpener'
  BY <1>1, <1>2 DEF StrandInv, OneCall, OneOpener, Openers
<1>5. \A t \in Turns : Reachable(t)'
  BY <1>1, BroadcastTells DEF StrandInv, Reachable
<1>6. \A t \in Turns : ToldOrLost(t)'
  <2> SUFFICES ASSUME NEW t \in Turns, phase[t] = "running", on[t] # cur \/ reader' \in Gone
               PROVE  inbox'[t].end # "none" \/ on[t] \in lost'
    BY <1>1 DEF ToldOrLost
  <2>1. CASE inbox' = Broadcast
    BY <2>1, BroadcastTells DEF Queued
  <2>2. CASE inbox' = inbox /\ on[t] # cur
    BY <1>1, <2>2 DEF StrandInv, ToldOrLost
  <2>3. CASE inbox' = inbox /\ on[t] = cur
    BY <1>1, <2>1, <2>3 DEF Gone
  <2> QED
    BY <1>1, <2>1, <2>2, <2>3
<1> QED
  BY <1>3, <1>4, <1>5, <1>6 DEF StrandInv

\* aclose cancels the drains of warm-ups, and a call that was opened meanwhile.
LEMMA CloseCancelsStrand == ASSUME BrainInv, StrandInv, CloseCancels PROVE StrandInv'
<1>1. /\ UNCHANGED <<cur, lost>> /\ reader \notin Leaving
      /\ \/ cur \in alive /\ alive' = alive \ {cur} /\ reader' = "cancelled"
         \/ cur \notin alive /\ UNCHANGED <<alive, reader>>
  BY DEF CloseCancels, End
<1>2. CallSoft
  BY <1>1 DEF StrandInv, OneCall, CallSoft, Gone
<1>3. \A t \in Turns :
         \/ phase'[t] = "over" /\ inbox'[t] = NoQueue /\ on'[t] = 0
         \/ phase'[t] = phase[t] /\ inbox'[t] = inbox[t] /\ on'[t] = on[t]
  BY DEF CloseCancels
<1>4. \A t \in Turns : TurnSoft(t)
  BY <1>3 DEF TurnSoft, Queued, Openers
<1>5. inbox' \in [Turns -> [known : BOOLEAN, end : Ends]] /\ on' \in [Turns -> Nat]
  BY QueuesTyped DEF CloseCancels, StrandInv, CallTyped
<1>6. CallTyped'
  BY <1>1, <1>5 DEF StrandInv, CallTyped, Leaving
<1> QED
  BY <1>2, <1>4, <1>6, SoftStrands

\* aclose tells the consumers that are left.
LEMMA CloseEndsStrand == ASSUME BrainInv, StrandInv, CloseEnds PROVE StrandInv'
<1>1. /\ UNCHANGED <<phase, on, cur, reader, lost>> /\ alive' \in {alive, alive \ {cur}}
      /\ inbox' = [t \in Turns |-> [Put(inbox[t], "closed") EXCEPT !.known = FALSE]]
  BY DEF CloseEnds, End, turns
<1>2. ASSUME NEW t \in Turns
      PROVE  /\ inbox'[t] \in [known : BOOLEAN, end : Ends]
             /\ inbox[t].known \/ inbox[t].end # "none" => inbox'[t].end # "none"
  <2> DEFINE q == Put(inbox[t], "closed")
  <2>1. /\ q \in [known : BOOLEAN, end : Ends]
        /\ inbox[t].known \/ inbox[t].end # "none" => q.end # "none"
    BY QueuesTyped DEF StrandInv, Ends
  <2>2. inbox'[t] = [q EXCEPT !.known = FALSE]
    BY <1>1
  <2> HIDE DEF q
  <2> QED
    BY <2>1, <2>2
<1>3. \A t \in Turns : TurnSoft(t)
  BY <1>1, <1>2 DEF StrandInv, Reachable, TurnSoft
<1>4. CallTyped'
  BY <1>1, <1>2 DEF StrandInv, CallTyped
<1> QED
  BY <1>1, <1>3, <1>4, SoftStrands, EndSoft

-----------------------------------------------------------------------------
\* No turn has begun and no reader is to tell anybody.
LEMMA InitStrand == Init => StrandInv
<1> SUFFICES ASSUME Init PROVE StrandInv
  OBVIOUS
<1>1. /\ alive = {} /\ \A t \in Turns : phase[t] = "none"
      /\ inbox = [t \in Turns |-> NoQueue] /\ on = [t \in Turns |-> 0]
      /\ cur \in {0, 1} /\ reader \in {"none", "reading", "over"}
  BY DEF Init
<1>2. CallTyped
  BY <1>1 DEF CallTyped, NoQueue, Ends, Gone
<1>3. OneCall /\ OneOpener /\ \A t \in Turns : Reachable(t) /\ ToldOrLost(t)
  BY <1>1 DEF OneCall, OneOpener, Reachable, ToldOrLost, Openers, Queued
<1> QED
  BY <1>2, <1>3 DEF StrandInv

\* Every step, and a stutter, strands nobody.
LEMMA NextStrand == ASSUME BrainInv, StrandInv, [Next]_vars PROVE StrandInv'
<1>1. CASE UNCHANGED vars
  <2>1. UNCHANGED <<phase, inbox, on, cur, alive, reader, lost>>
    BY <1>1 DEF vars, wire
  <2>2. CallTyped'
    BY <2>1 DEF StrandInv, CallTyped
  <2> QED
    BY <2>1, <2>2, StillSoft, SoftStrands, EndSoft
<1>2. ASSUME NEW t \in Turns, Steps(t) PROVE StrandInv'
  BY <1>2, BeginsStrand, OpensStrand, StartedStrand, EndsStrand,
     CancelPassesOnStrands, CancelStrands, BrainEndsStrand
     DEF Steps
<1>3. ASSUME NEW why \in {"eof", "error"}, CallEnds(why) PROVE StrandInv'
  BY <1>3, CallEndsStrand
<1>4. CASE ReaderLeaves \/ ReaderSettles \/ CloseBegins
  BY <1>4, ReaderStrands, CallEndsStrand
<1> QED
  BY <1>1, <1>2, <1>3, <1>4, CloseCancelsStrand, CloseEndsStrand DEF Next

\* No turn waits on a call that nobody reads, however calls are lost, replaced and cancelled: it
\* has been told an end, or the reader of its call was cut off before its last broadcast.
THEOREM BrainStrandsNone == Spec => []NoTurnIsStranded
<1>1. BrainInv /\ StrandInv /\ [Next]_vars => (BrainInv /\ StrandInv)'
  BY NextInv, NextStrand
<1>2. StrandInv => NoTurnIsStranded
  BY DEF StrandInv, OneCall, ToldOrLost, NoTurnIsStranded
<1> QED
  BY <1>1, <1>2, InitInv, InitStrand, PTL DEF Spec
=============================================================================
