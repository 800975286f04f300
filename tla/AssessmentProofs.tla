------------------------- MODULE AssessmentProofs -------------------------
(***************************************************************************)
(* Proofs about what becomes of a model's answer, for texts, panels of     *)
(* judges and ratings of any size.                                         *)
(*                                                                         *)
(* Completion: what an endpoint's response is read as is the document that *)
(* the model wrote.  Judging: a valid score is earned.  RatingLedger, for  *)
(* any number of assignments, any ratings, tabs and crashes, with short    *)
(* writes: with one server process, the ledger is one chain in the frozen  *)
(* order, an acknowledged response stays where it was acknowledged, and    *)
(* the final response repeats the ledger.  RatingSession: a final response *)
(* is of one frozen session.                                               *)
(***************************************************************************)
EXTENDS Completion, Judging, RatingLedger, RatingSession, Sums, SequenceTheorems, TLAPS

----------------------------------------------------------------------------
(* Flattening.                                                             *)

\* g flattens the first n sequences of ss, for every n in 1 .. m.
Flattens(g, ss, m) ==
    g = [i \in 1 .. m |-> IF i = 1 THEN ss[i] ELSE g[i - 1] \o ss[i]]

(* What the definition of the community module comes to.                   *)
LEMMA FlattenChosen ==
    ASSUME NEW ss, Len(ss) # 0
    PROVE  FlattenSeq(ss) = (CHOOSE g : Flattens(g, ss, Len(ss)))[Len(ss)]
BY Zenon DEF FlattenSeq, Flattens

(* There is such a function, and its values are sequences.                 *)
LEMMA FlattenExists ==
    ASSUME NEW ss, NEW m \in Nat
    PROVE  \E g : Flattens(g, ss, m)
<1> DEFINE N == {n \in Nat : \E g : Flattens(g, ss, n)}
<1>1. 0 \in N
  <2> DEFINE g == [i \in 1 .. 0 |-> <<>>]
  <2>1. Flattens(g, ss, 0) BY DEF Flattens
  <2> QED BY <2>1
<1>2. ASSUME NEW n \in Nat, n \in N PROVE n + 1 \in N
  <2>1. PICK g : Flattens(g, ss, n) BY <1>2
  <2> DEFINE h == [i \in 1 .. n + 1 |-> IF i = 1 THEN ss[i] ELSE g[i - 1] \o ss[i]]
  <2>2. \A i \in 1 .. n : h[i] = g[i]
    <3>1. \A i \in 1 .. n : g[i] = IF i = 1 THEN ss[i] ELSE g[i - 1] \o ss[i]
      BY <2>1 DEF Flattens
    <3>2. \A i \in 1 .. n : i \in 1 .. n + 1 OBVIOUS
    <3> QED BY <3>1, <3>2
  <2>3. h = [i \in 1 .. n + 1 |-> IF i = 1 THEN ss[i] ELSE h[i - 1] \o ss[i]]
    <3>1. \A i \in 1 .. n + 1 : i # 1 => i - 1 \in 1 .. n OBVIOUS
    <3> QED BY <2>2, <3>1
  <2>4. Flattens(h, ss, n + 1) BY <2>3, Zenon DEF Flattens
  <2> QED BY <2>4
<1> HIDE DEF N
<1>3. \A n \in Nat : n \in N BY <1>1, <1>2, SetInduction
<1> QED BY <1>3 DEF N

\* The function that FlattenSeq chooses.
Flat(ss) == CHOOSE g : Flattens(g, ss, Len(ss))

(* It is determined position by position.                                  *)
LEMMA FlatIs ==
    ASSUME NEW ss, Len(ss) \in Nat
    PROVE  /\ \A i \in 1 .. Len(ss) :
                 Flat(ss)[i] = IF i = 1 THEN ss[i] ELSE Flat(ss)[i - 1] \o ss[i]
           /\ Len(ss) # 0 => FlattenSeq(ss) = Flat(ss)[Len(ss)]
<1>1. Flattens(Flat(ss), ss, Len(ss)) BY FlattenExists DEF Flat
<1>2. Len(ss) # 0 => FlattenSeq(ss) = Flat(ss)[Len(ss)] BY FlattenChosen DEF Flat
<1> QED BY <1>1, <1>2 DEF Flattens

(* Sequences of sequences flatten to a sequence.                           *)
LEMMA FlattenType ==
    ASSUME NEW T, NEW ss \in Seq(Seq(T))
    PROVE  FlattenSeq(ss) \in Seq(T)
<1> DEFINE N == {n \in Nat : n \in 1 .. Len(ss) => Flat(ss)[n] \in Seq(T)}
<1>1. 0 \in N OBVIOUS
<1>2. ASSUME NEW n \in Nat, n \in N PROVE n + 1 \in N
  <2> SUFFICES ASSUME n + 1 \in 1 .. Len(ss) PROVE Flat(ss)[n + 1] \in Seq(T)
    OBVIOUS
  <2>1. ss[n + 1] \in Seq(T) OBVIOUS
  <2>2. CASE n = 0
    <3>1. Flat(ss)[1] = ss[1] BY <2>2, FlatIs
    <3> QED BY <2>1, <2>2, <3>1
  <2>3. CASE n # 0
    <3>1. Flat(ss)[n] \in Seq(T) BY <1>2, <2>3
    <3>2. Flat(ss)[n + 1] = Flat(ss)[n] \o ss[n + 1]
      <4>1. n + 1 \in 1 .. Len(ss) /\ n + 1 # 1 /\ (n + 1) - 1 = n /\ Len(ss) \in Nat
        BY <2>3
      <4> QED BY <4>1, FlatIs
    <3> QED BY <2>1, <3>1, <3>2
  <2> QED BY <2>2, <2>3
<1> HIDE DEF N
<1>3. \A n \in Nat : n \in N BY <1>1, <1>2, SetInduction
<1>4. CASE Len(ss) = 0 BY <1>4 DEF FlattenSeq
<1>5. CASE Len(ss) # 0
  <2>1. Flat(ss)[Len(ss)] \in Seq(T) BY <1>3, <1>5 DEF N
  <2> QED BY <1>5, <2>1, FlatIs
<1> QED BY <1>4, <1>5

(* One sequence more is appended to the others.                            *)
LEMMA FlattenAppend ==
    ASSUME NEW T, NEW ss \in Seq(Seq(T)), NEW s \in Seq(T)
    PROVE  FlattenSeq(Append(ss, s)) = FlattenSeq(ss) \o s
<1> DEFINE n == Len(ss)
           tt == Append(ss, s)
           N == {k \in Nat : k \in 1 .. n => Flat(tt)[k] = Flat(ss)[k]}
<1>1. n \in Nat /\ tt \in Seq(Seq(T)) /\ Len(tt) = n + 1 /\ tt[n + 1] = s
      /\ \A i \in 1 .. n : tt[i] = ss[i]
  OBVIOUS
<1>2. /\ \A i \in 1 .. n : Flat(ss)[i] = IF i = 1 THEN ss[i] ELSE Flat(ss)[i - 1] \o ss[i]
      /\ n # 0 => FlattenSeq(ss) = Flat(ss)[n]
  BY FlatIs
<1>3. Len(tt) \in Nat BY <1>1
<1> HIDE DEF tt
<1>4. /\ \A i \in 1 .. n + 1 : Flat(tt)[i] = IF i = 1 THEN tt[i] ELSE Flat(tt)[i - 1] \o tt[i]
      /\ FlattenSeq(tt) = Flat(tt)[n + 1]
  <2>1. Len(tt) # 0 BY <1>1
  <2>2. /\ \A i \in 1 .. Len(tt) :
             Flat(tt)[i] = IF i = 1 THEN tt[i] ELSE Flat(tt)[i - 1] \o tt[i]
        /\ FlattenSeq(tt) = Flat(tt)[Len(tt)]
    BY <1>3, <2>1, FlatIs
  <2> QED BY <1>1, <2>2
<1>5. 0 \in N OBVIOUS
<1>6. ASSUME NEW k \in Nat, k \in N PROVE k + 1 \in N
  <2> SUFFICES ASSUME k + 1 \in 1 .. n PROVE Flat(tt)[k + 1] = Flat(ss)[k + 1]
    OBVIOUS
  <2>1. /\ k + 1 \in 1 .. n + 1 /\ (k + 1 = 1 <=> k = 0) /\ (k + 1) - 1 = k
        /\ tt[k + 1] = ss[k + 1]
    BY <1>1
  <2>2. CASE k = 0
    <3>1. Flat(tt)[k + 1] = tt[k + 1] BY <1>4, <2>1, <2>2
    <3>2. Flat(ss)[k + 1] = ss[k + 1] BY <1>2, <2>1, <2>2
    <3> QED BY <2>1, <3>1, <3>2
  <2>3. CASE k # 0
    <3>1. Flat(tt)[k] = Flat(ss)[k] BY <1>6, <2>3
    <3>2. Flat(tt)[k + 1] = Flat(tt)[k] \o tt[k + 1] BY <1>4, <2>1, <2>3
    <3>3. Flat(ss)[k + 1] = Flat(ss)[k] \o ss[k + 1] BY <1>2, <2>1, <2>3
    <3> QED BY <2>1, <3>1, <3>2, <3>3
  <2> QED BY <2>2, <2>3
<1>7. CASE n = 0
  <2>1. FlattenSeq(tt) = s BY <1>1, <1>7, <1>4
  <2>2. FlattenSeq(ss) = <<>> BY <1>7 DEF FlattenSeq
  <2> QED BY <2>1, <2>2 DEF tt
<1>8. CASE n # 0
  <2> HIDE DEF N
  <2>1. \A k \in Nat : k \in N BY <1>5, <1>6, SetInduction
  <2>2. Flat(tt)[n] = Flat(ss)[n] BY <1>1, <1>8, <2>1 DEF N
  <2>3. Flat(tt)[n + 1] = Flat(tt)[n] \o s
    <3>1. n + 1 \in 1 .. n + 1 /\ n + 1 # 1 /\ (n + 1) - 1 = n BY <1>1, <1>8
    <3> QED BY <1>1, <1>4, <3>1
  <2> QED BY <1>8, <1>2, <1>4, <2>2, <2>3 DEF tt
<1> QED BY <1>7, <1>8

----------------------------------------------------------------------------
(* The first and the last that pass a test.                                *)

(* A nonempty set of positions has a least and a greatest.                 *)
LEMMA HasBounds ==
    ASSUME NEW n \in Nat, NEW S \in SUBSET (1 .. n), S # {}
    PROVE  (\E x \in S : \A y \in S : x <= y) /\ (\E x \in S : \A y \in S : x >= y)
<1> DEFINE Q == {k \in Nat : \A X \in SUBSET (1 .. k) :
                    X # {} => /\ \E x \in X : \A y \in X : x <= y
                              /\ \E x \in X : \A y \in X : x >= y}
<1>1. 0 \in Q
  <2>1. 1 .. 0 = {} OBVIOUS
  <2> QED BY <2>1
<1>2. ASSUME NEW k \in Nat, k \in Q PROVE k + 1 \in Q
  <2>1. ASSUME NEW X \in SUBSET (1 .. k + 1), X # {}
        PROVE  /\ \E x \in X : \A y \in X : x <= y
               /\ \E x \in X : \A y \in X : x >= y
    <3> DEFINE Y == X \ {k + 1}
    <3>1. Y \in SUBSET (1 .. k) OBVIOUS
    <3>2. \A y \in X : y \in Y \/ y = k + 1 OBVIOUS
    <3>3. CASE Y = {}
      <4>1. X = {k + 1} BY <2>1, <3>3
      <4> QED BY <4>1
    <3>4. CASE Y # {}
      <4>1. PICK a \in Y : \A y \in Y : a <= y BY <1>2, <3>1, <3>4
      <4>2. PICK b \in Y : \A y \in Y : b >= y BY <1>2, <3>1, <3>4
      <4>3. a \in X /\ \A y \in X : a <= y BY <3>1, <3>2, <4>1
      <4>4. \E x \in X : \A y \in X : x >= y
        <5>1. CASE k + 1 \in X
          <6>1. \A y \in X : k + 1 >= y BY <2>1
          <6> QED BY <5>1, <6>1
        <5>2. CASE k + 1 \notin X
          <6>1. X = Y BY <5>2
          <6> QED BY <4>2, <6>1
        <5> QED BY <5>1, <5>2
      <4> QED BY <4>3, <4>4
    <3> QED BY <3>3, <3>4
  <2> QED BY <2>1
<1> HIDE DEF Q
<1>3. \A k \in Nat : k \in Q BY <1>1, <1>2, SetInduction
<1> QED BY <1>3 DEF Q

(* FirstOpen is 0 or the least position of an "open".                      *)
LEMMA FirstOpenIs ==
    ASSUME NEW c, Len(c) \in Nat
    PROVE  /\ FirstOpen(c) = 0 => \A i \in 1 .. Len(c) : c[i] # "open"
           /\ FirstOpen(c) # 0 => /\ FirstOpen(c) \in 1 .. Len(c) /\ c[FirstOpen(c)] = "open"
                                  /\ \A i \in 1 .. Len(c) : c[i] = "open" => FirstOpen(c) <= i
<1> DEFINE I == {i \in 1 .. Len(c) : c[i] = "open"}
<1>1. FirstOpen(c) = IF I # {} THEN Min(I) ELSE 0
  BY DEF FirstOpen, SelectInSeq
<1>2. CASE I = {}
  BY <1>1, <1>2
<1>3. CASE I # {}
  <2>1. \E x \in I : \A y \in I : x <= y BY <1>3, HasBounds
  <2>2. Min(I) \in I /\ \A y \in I : Min(I) <= y
    BY <2>1 DEF Min
  <2>3. FirstOpen(c) = Min(I) BY <1>1, <1>3
  <2> QED BY <2>2, <2>3
<1> QED BY <1>2, <1>3

(* LastClose is 0 or the greatest position of a "close".                   *)
LEMMA LastCloseIs ==
    ASSUME NEW c, Len(c) \in Nat
    PROVE  /\ LastClose(c) = 0 => \A i \in 1 .. Len(c) : c[i] # "close"
           /\ LastClose(c) # 0 => /\ LastClose(c) \in 1 .. Len(c) /\ c[LastClose(c)] = "close"
                                  /\ \A i \in 1 .. Len(c) : c[i] = "close" => i <= LastClose(c)
<1> DEFINE I == {i \in 1 .. Len(c) : c[i] = "close"}
<1>1. LastClose(c) = IF I # {} THEN Max(I) ELSE 0
  BY DEF LastClose, SelectLastInSeq
<1>2. CASE I = {}
  BY <1>1, <1>2
<1>3. CASE I # {}
  <2>1. \E x \in I : \A y \in I : x >= y BY <1>3, HasBounds
  <2>2. Max(I) \in I /\ \A y \in I : y <= Max(I)
    BY <2>1 DEF Max
  <2>3. LastClose(c) = Max(I) BY <1>1, <1>3
  <2> QED BY <2>2, <2>3
<1> QED BY <1>2, <1>3

----------------------------------------------------------------------------
(* What a body says.                                                       *)

Token == {"open", "close", "word"}

Event == [kind : {"delta", "message"}, text : Seq(Token)] \cup [kind : {"notice", "done"}]

\* No event of the body has content.
Silent(events) == \A i \in DOMAIN events : events[i].kind \notin {"delta", "message"}

(* What arrives are events, and content is text.                           *)
LEMMA EventsAre ==
    /\ \A e \in Event : e.kind \in {"delta", "message"} => e.text \in Seq(Token)
    /\ \A piece \in Seq(Token) : Delta(piece) \in Event /\ Message(piece) \in Event
    /\ Notice \in Event /\ EndOfStream \in Event
BY DEF Event, Delta, Message, Notice, EndOfStream

(* A function that is s up to its length, and then x, is Append(s, x).     *)
LEMMA AppendIs ==
    ASSUME NEW S, NEW s \in Seq(S), NEW x, NEW n, n = Len(s),
           NEW t, t = [i \in DOMAIN t |-> t[i]], DOMAIN t = 1 .. n + 1, t[n + 1] = x,
           \A i \in 1 .. n : t[i] = s[i]
    PROVE  t = Append(s, x)
<1> DEFINE X == S \cup {x}
<1>1. n \in Nat /\ s \in Seq(X) /\ x \in X OBVIOUS
<1>2. t \in Seq(X) /\ Len(t) = n + 1
  <2>1. \A i \in 1 .. n + 1 : t[i] \in X
    <3> SUFFICES ASSUME NEW i \in 1 .. n + 1 PROVE t[i] \in X
      OBVIOUS
    <3>1. CASE i = n + 1 BY <3>1
    <3>2. CASE i # n + 1
      <4>1. i \in 1 .. n BY <1>1, <3>2
      <4>2. s[i] \in S BY <4>1
      <4> QED BY <4>1, <4>2
    <3> QED BY <3>1, <3>2
  <2>2. t \in [1 .. n + 1 -> X] BY <2>1
  <2> HIDE DEF X
  <2> QED BY <1>1, <2>2
<1>3. Append(s, x) \in Seq(X) /\ Len(Append(s, x)) = n + 1 BY <1>1
<1>4. \A i \in 1 .. n + 1 : t[i] = Append(s, x)[i]
  <2> SUFFICES ASSUME NEW i \in 1 .. n + 1 PROVE t[i] = Append(s, x)[i]
    OBVIOUS
  <2>1. CASE i = n + 1 BY <1>1, <2>1
  <2>2. CASE i # n + 1
    <3>1. i \in 1 .. n BY <1>1, <2>2
    <3> QED BY <1>1, <3>1
  <2> QED BY <2>1, <2>2
<1> HIDE DEF X
<1> QED BY <1>1, <1>2, <1>3, <1>4, SeqEqual

(* One event more, where no [DONE] has come yet.                           *)
LEMMA ContentAppended ==
    ASSUME NEW b \in Seq(Event), NEW e \in Event, \A i \in DOMAIN b : b[i].kind # "done"
    PROVE  /\ StreamContent(Append(b, e)) =
                 StreamContent(b) \o
                   (IF e.kind = "delta" \/ (e.kind = "message" /\ Silent(b)) THEN e.text ELSE <<>>)
           /\ StreamContent(b) \in Seq(Token)
<1> DEFINE n == Len(b)
           d == Append(b, e)
           p(x) == [i \in DOMAIN x |-> IF Counts(x, i) THEN x[i].text ELSE <<>>]
           s == IF e.kind = "delta" \/ (e.kind = "message" /\ Silent(b)) THEN e.text ELSE <<>>
<1>1. n \in Nat /\ DOMAIN b = 1 .. n /\ DOMAIN d = 1 .. n + 1 /\ d[n + 1] = e
      /\ \A i \in 1 .. n : d[i] = b[i] /\ b[i] \in Event
  OBVIOUS
<1> HIDE DEF n, d
<1>2. \A i \in 1 .. n : Counts(d, i) <=> Counts(b, i)
  <2> SUFFICES ASSUME NEW i \in 1 .. n PROVE Counts(d, i) <=> Counts(b, i)
    OBVIOUS
  <2>1. 1 .. i \subseteq 1 .. n /\ 1 .. i - 1 \subseteq 1 .. n BY <1>1
  <2>2. BeforeDone(d, i) <=> BeforeDone(b, i) BY <1>1, <2>1 DEF BeforeDone
  <2> QED BY <1>1, <2>1, <2>2 DEF Counts
<1>3. Counts(d, n + 1) <=> (e.kind = "delta" \/ (e.kind = "message" /\ Silent(b)))
  <2>1. CASE e.kind \in {"delta", "message"}
    <3>1. BeforeDone(d, n + 1)
      <4>1. \A j \in 1 .. n + 1 : j \in 1 .. n \/ j = n + 1 BY <1>1
      <4>2. e.kind # "done" BY <2>1
      <4> QED BY <1>1, <4>1, <4>2 DEF BeforeDone
    <3>2. (n + 1) - 1 = n BY <1>1
    <3>3. Silent(b) <=> \A j \in 1 .. (n + 1) - 1 : d[j].kind \notin {"delta", "message"}
      BY <1>1, <3>2 DEF Silent
    <3> QED BY <1>1, <3>1, <3>3 DEF Counts
  <2>2. CASE e.kind \notin {"delta", "message"}
    BY <1>1, <2>2 DEF Counts
  <2> QED BY <2>1, <2>2
<1>4. p(d) = Append(p(b), s)
  <2>1. p(b) \in Seq({p(b)[i] : i \in 1 .. n})
    <3>1. p(b) = [i \in 1 .. n |-> p(b)[i]] BY <1>1
    <3> HIDE DEF p
    <3> QED BY <1>1, <3>1
  <2>2. Len(p(b)) = n
    <3>1. DOMAIN p(b) = 1 .. n BY <1>1
    <3> HIDE DEF p
    <3> QED BY <1>1, <2>1, <3>1
  <2>3. \A i \in 1 .. n : p(d)[i] = p(b)[i] BY <1>1, <1>2
  <2>4. p(d)[n + 1] = s BY <1>1, <1>3
  <2>5. p(d) = [i \in DOMAIN p(d) |-> p(d)[i]] /\ DOMAIN p(d) = 1 .. n + 1 BY <1>1
  <2> HIDE DEF p, s
  <2> QED BY <1>1, <2>1, <2>2, <2>3, <2>4, <2>5, AppendIs
<1>5. p(b) \in Seq(Seq(Token))
  <2>1. \A i \in 1 .. n : p(b)[i] \in Seq(Token)
    <3> SUFFICES ASSUME NEW i \in 1 .. n, Counts(b, i) PROVE b[i].text \in Seq(Token)
      BY <1>1
    <3>1. b[i].kind \in {"delta", "message"} BY DEF Counts
    <3> QED BY <1>1, <3>1, EventsAre
  <2>2. p(b) = [i \in 1 .. n |-> p(b)[i]] BY <1>1
  <2> HIDE DEF p
  <2> QED BY <1>1, <2>1, <2>2
<1>6. s \in Seq(Token)
  <2>1. <<>> \in Seq(Token) OBVIOUS
  <2> QED BY <2>1, EventsAre
<1>7. StreamContent(d) = FlattenSeq(p(d)) /\ StreamContent(b) = FlattenSeq(p(b))
  BY Zenon DEF StreamContent
<1> HIDE DEF p, s
<1>8. StreamContent(d) = StreamContent(b) \o s
  BY <1>4, <1>5, <1>6, <1>7, FlattenAppend
<1>9. StreamContent(b) \in Seq(Token) BY <1>5, <1>7, FlattenType
<1> QED BY <1>8, <1>9 DEF d, s

(* A delta more is written; another event writes nothing.                  *)
LEMMA WrittenAppended ==
    ASSUME NEW b \in Seq(Event), NEW e \in Event
    PROVE  Written(Append(b, e)) = Written(b) \o (IF e.kind = "delta" THEN e.text ELSE <<>>)
<1> DEFINE n == Len(b)
           d == Append(b, e)
           p(x) == [i \in DOMAIN x |-> IF x[i].kind = "delta" THEN x[i].text ELSE <<>>]
           s == IF e.kind = "delta" THEN e.text ELSE <<>>
<1>1. n \in Nat /\ DOMAIN b = 1 .. n /\ DOMAIN d = 1 .. n + 1 /\ d[n + 1] = e
      /\ \A i \in 1 .. n : d[i] = b[i] /\ b[i] \in Event
  OBVIOUS
<1> HIDE DEF n, d
<1>2. p(b) \in Seq(Seq(Token)) /\ Len(p(b)) = n
  <2>1. \A i \in 1 .. n : p(b)[i] \in Seq(Token)
    BY <1>1, EventsAre
  <2>2. p(b) = [i \in 1 .. n |-> p(b)[i]] BY <1>1
  <2> HIDE DEF p
  <2> QED BY <1>1, <2>1, <2>2
<1>3. s \in Seq(Token)
  <2>1. <<>> \in Seq(Token) OBVIOUS
  <2> QED BY <2>1, EventsAre
<1>4. p(d) = Append(p(b), s)
  <2>1. \A i \in 1 .. n : p(d)[i] = p(b)[i] BY <1>1
  <2>2. p(d)[n + 1] = s BY <1>1
  <2>3. p(d) = [i \in DOMAIN p(d) |-> p(d)[i]] /\ DOMAIN p(d) = 1 .. n + 1 BY <1>1
  <2> HIDE DEF p, s
  <2> QED BY <1>1, <1>2, <2>1, <2>2, <2>3, AppendIs
<1>5. Written(d) = FlattenSeq(p(d)) /\ Written(b) = FlattenSeq(p(b))
  BY Zenon DEF Written
<1> HIDE DEF p, s
<1>6. Written(d) = Written(b) \o s BY <1>2, <1>3, <1>4, <1>5, FlattenAppend
<1> QED BY <1>6 DEF d, s

----------------------------------------------------------------------------
(* The content is a beginning of what the model writes.                    *)

Begins(content) ==
    /\ content \in Seq(Token) /\ Len(content) <= Len(text)
    /\ \A i \in 1 .. Len(content) : content[i] = text[i]

\* No event of the body is a message.
OnlyDeltas == \A i \in DOMAIN body : body[i].kind # "message"

CompletionInv ==
    /\ text \in Seq(Token) /\ body \in Seq(Event)
    /\ Begins(Written(body)) /\ Begins(StreamContent(body))
    /\ OnlyDeltas => StreamContent(body) = Written(body)
    /\ Silent(body) => StreamContent(body) = <<>>
    /\ \A i \in DOMAIN body : body[i].kind = "message" => body[i].text = text
    /\ ~streamed => \A i \in DOMAIN body : body[i].kind = "message"

(* Nothing is a beginning of every text.                                   *)
LEMMA CompletionInvInit ==
    ASSUME CompletionInit
    PROVE  CompletionInv /\ AnswerIsModelsDocument
<1>1. text \in Seq(Token)
  <2>1. PICK n \in 0 .. MaxText : text \in [1 .. n -> Token] BY DEF CompletionInit, Token
  <2>2. n \in Nat BY <2>1
  <2> QED BY <2>1, <2>2
<1>2. body = <<>> /\ outcome = Waiting BY DEF CompletionInit
<1>3. Written(body) = <<>> /\ StreamContent(body) = <<>>
  <2> DEFINE p == [i \in DOMAIN body |-> IF body[i].kind = "delta" THEN body[i].text ELSE <<>>]
             q == [i \in DOMAIN body |-> IF Counts(body, i) THEN body[i].text ELSE <<>>]
  <2>1. DOMAIN p = {} /\ DOMAIN q = {} BY <1>2
  <2>2. p = <<>> /\ q = <<>> BY <1>2
  <2>3. Written(body) = FlattenSeq(p) /\ StreamContent(body) = FlattenSeq(q)
    BY Zenon DEF Written, StreamContent
  <2>4. FlattenSeq(<<>>) = <<>> BY DEF FlattenSeq
  <2> HIDE DEF p, q
  <2> QED BY <2>2, <2>3, <2>4
<1>4. Begins(<<>>) BY <1>1 DEF Begins
<1>5. body \in Seq(Event) /\ DOMAIN body = {} BY <1>2
<1> QED BY <1>1, <1>2, <1>3, <1>4, <1>5 DEF CompletionInv, AnswerIsModelsDocument

(* One event more, of any kind.                                            *)
LEMMA EventArrives ==
    ASSUME CompletionInv, NEW e \in Event, Arrive(e),
           e.kind = "delta" => OnlyDeltas /\ Begins(Written(body) \o e.text),
           e.kind = "message" => e.text = text,
           streamed \/ e.kind = "message"
    PROVE  CompletionInv'
<1> DEFINE b == body
           n == Len(b)
           w == Written(b)
           c == StreamContent(b)
<1>1. /\ b \in Seq(Event) /\ \A i \in DOMAIN b : b[i].kind # "done"
      /\ body' = Append(b, e) /\ UNCHANGED <<text, streamed, outcome>>
  BY DEF CompletionInv, Arrive, Open
<1>2. n \in Nat /\ DOMAIN b = 1 .. n /\ DOMAIN body' = 1 .. n + 1 /\ body'[n + 1] = e
      /\ \A i \in 1 .. n : body'[i] = b[i]
  BY <1>1
<1>3. Written(body') = w \o (IF e.kind = "delta" THEN e.text ELSE <<>>)
  BY <1>1, WrittenAppended
<1>4. StreamContent(body') =
         c \o (IF e.kind = "delta" \/ (e.kind = "message" /\ Silent(b)) THEN e.text ELSE <<>>)
  BY <1>1, ContentAppended
<1>5. /\ Begins(w) /\ Begins(c) /\ (OnlyDeltas => c = w) /\ (Silent(b) => c = <<>>)
      /\ text \in Seq(Token)
  BY DEF CompletionInv
<1>6. w \o <<>> = w /\ c \o <<>> = c /\ <<>> \o text = text
  <2>1. w \in Seq(Token) /\ c \in Seq(Token) /\ text \in Seq(Token) BY <1>5 DEF Begins
  <2> HIDE DEF w, c
  <2> QED BY <2>1
<1>7. Begins(text) BY <1>5 DEF Begins
<1> HIDE DEF w, c, b, n
<1>8. Begins(Written(body')) /\ Begins(StreamContent(body'))
  <2>1. CASE e.kind = "delta"
    <3>1. OnlyDeltas /\ Begins(w \o e.text) BY <2>1 DEF w, b
    <3>2. Written(body') = w \o e.text BY <1>3, <2>1
    <3>3. StreamContent(body') = w \o e.text BY <1>4, <1>5, <2>1, <3>1
    <3> QED BY <3>1, <3>2, <3>3
  <2>2. CASE e.kind # "delta"
    <3>1. Written(body') = w BY <1>3, <1>6, <2>2
    <3>2. StreamContent(body') = c \/ StreamContent(body') = text
      BY <1>4, <1>5, <1>6, <2>2
    <3> QED BY <1>5, <1>7, <3>1, <3>2
  <2> QED BY <2>1, <2>2
<1>9. Begins(Written(body))' /\ Begins(StreamContent(body))' BY <1>1, <1>8 DEF Begins
<1>10. OnlyDeltas' => StreamContent(body') = Written(body')
  <2> SUFFICES ASSUME OnlyDeltas' PROVE StreamContent(body') = Written(body')
    OBVIOUS
  <2>1. \A i \in 1 .. n + 1 : body'[i].kind # "message" BY <1>2 DEF OnlyDeltas
  <2>2. e.kind # "message" BY <1>2, <2>1
  <2>3. OnlyDeltas
    <3>1. \A i \in 1 .. n : body'[i].kind # "message" BY <1>2, <2>1
    <3> QED BY <1>2, <3>1 DEF OnlyDeltas, b
  <2> QED BY <1>3, <1>4, <1>5, <2>2, <2>3
<1>11. Silent(body') => StreamContent(body') = <<>>
  <2> SUFFICES ASSUME Silent(body') PROVE StreamContent(body') = <<>>
    OBVIOUS
  <2>1. \A i \in 1 .. n + 1 : body'[i].kind \notin {"delta", "message"} BY <1>2 DEF Silent
  <2>2. e.kind \notin {"delta", "message"} BY <1>2, <2>1
  <2>3. Silent(b)
    <3>1. \A i \in 1 .. n : body'[i].kind \notin {"delta", "message"} BY <1>2, <2>1
    <3> QED BY <1>2, <3>1 DEF Silent
  <2> QED BY <1>4, <1>5, <1>6, <2>2, <2>3
<1>12. body' \in Seq(Event) BY <1>1
<1>13. \A i \in DOMAIN body' : /\ body'[i].kind = "message" => body'[i].text = text
                               /\ streamed \/ body'[i].kind = "message"
  <2> SUFFICES ASSUME NEW i \in 1 .. n + 1
               PROVE  /\ body'[i].kind = "message" => body'[i].text = text
                      /\ streamed \/ body'[i].kind = "message"
    BY <1>2
  <2>1. CASE i = n + 1 BY <1>2, <2>1
  <2>2. CASE i # n + 1
    <3>1. i \in 1 .. n /\ body'[i] = b[i] BY <1>2, <2>2
    <3> QED BY <1>2, <3>1 DEF CompletionInv, b
  <2> QED BY <2>1, <2>2
<1>14. text' = text /\ streamed' = streamed BY <1>1
<1> QED BY <1>5, <1>9, <1>10, <1>11, <1>12, <1>13, <1>14 DEF CompletionInv

(* Each piece of a body continues the text, or repeats what is read of it. *)
LEMMA CompletionInvStep ==
    ASSUME CompletionInv, [CompletionNext]_completionVars
    PROVE  CompletionInv'
<1>0. text \in Seq(Token) /\ Begins(Written(body)) BY DEF CompletionInv
<1>1. CASE UNCHANGED <<text, streamed, body>>
  BY <1>1 DEF CompletionInv, Begins, OnlyDeltas
<1>2. CASE SendDelta
  <2> DEFINE w == Written(body)
             sent == Len(w)
  <2>1. PICK n \in (sent + 1) .. Len(text) : Arrive(Delta(SubSeq(text, sent + 1, n)))
    BY <1>2 DEF SendDelta
  <2> DEFINE piece == SubSeq(text, sent + 1, n)
  <2>2. OnlyDeltas /\ streamed BY <1>2 DEF SendDelta, OnlyDeltas
  <2>3. w \in Seq(Token) /\ sent \in Nat /\ sent <= Len(text)
        /\ \A i \in 1 .. sent : w[i] = text[i]
    BY <1>0 DEF Begins
  <2> HIDE DEF w
  <2>4. piece \in Seq(Token) /\ Len(piece) = n - sent
        /\ \A i \in 1 .. n - sent : piece[i] = text[sent + i]
    BY <1>0, <2>3
  <2>5. Begins(w \o piece)
    <3> HIDE DEF piece
    <3>0. n \in Int BY <1>0, <2>3
    <3>1. w \o piece \in Seq(Token) /\ Len(w \o piece) = n BY <2>3, <2>4
    <3>2. \A i \in 1 .. n : (w \o piece)[i] = text[i]
      <4> SUFFICES ASSUME NEW i \in 1 .. n PROVE (w \o piece)[i] = text[i]
        OBVIOUS
      <4>1. CASE i <= sent BY <2>3, <2>4, <4>1
      <4>2. CASE i > sent
        <5>1. (w \o piece)[i] = piece[i - sent] BY <2>3, <2>4, <4>2
        <5>2. i - sent \in 1 .. n - sent /\ sent + (i - sent) = i BY <2>3, <4>2
        <5> QED BY <2>4, <5>1, <5>2
      <4>3. i <= sent \/ i > sent
        <5>1. i \in Int /\ sent \in Int BY <2>3, <3>0
        <5> HIDE DEF sent
        <5> QED BY <5>1
      <4> QED BY <4>1, <4>2, <4>3, Zenon
    <3>3. n <= Len(text) BY <1>0, <2>3
    <3> QED BY <3>1, <3>2, <3>3 DEF Begins
  <2>6. Delta(piece) \in Event /\ Delta(piece).kind = "delta" /\ Delta(piece).text = piece
    <3> HIDE DEF piece
    <3> QED BY <2>4, EventsAre DEF Delta
  <2>7. Arrive(Delta(piece)) BY <2>1
  <2> HIDE DEF piece
  <2> QED BY <2>2, <2>5, <2>6, <2>7, EventArrives DEF w
<1>3. CASE SendNotice
  <2>1. streamed /\ OnlyDeltas BY <1>3 DEF SendNotice, OnlyDeltas
  <2>2. CASE Arrive(Notice)
    <3>1. Notice \in Event /\ Notice.kind = "notice" BY EventsAre DEF Notice
    <3> QED BY <2>1, <2>2, <3>1, EventArrives
  <2>3. CASE Arrive(Delta(<<>>))
    <3> DEFINE e == Delta(<<>>)
    <3>1. e \in Event /\ e.kind = "delta" /\ e.text = <<>>
      <4>1. <<>> \in Seq(Token) OBVIOUS
      <4> QED BY <4>1, EventsAre DEF Delta
    <3>2. Written(body) \o <<>> = Written(body)
      <4>1. Written(body) \in Seq(Token) BY <1>0 DEF Begins
      <4> QED BY <4>1
    <3>3. Arrive(e) BY <2>3
    <3> HIDE DEF e
    <3> QED BY <1>0, <2>1, <3>1, <3>2, <3>3, EventArrives
  <2> QED BY <1>3, <2>2, <2>3 DEF SendNotice
<1>4. CASE SendMessage
  <2> DEFINE e == Message(text)
  <2>1. Arrive(e) BY <1>4 DEF SendMessage
  <2>2. e \in Event /\ e.kind = "message" /\ e.text = text BY <1>0, EventsAre DEF Message
  <2> HIDE DEF e
  <2> QED BY <2>1, <2>2, EventArrives
<1>5. CASE SendDone
  <2>1. EndOfStream \in Event /\ EndOfStream.kind = "done" BY EventsAre DEF EndOfStream
  <2> QED BY <1>5, <2>1, EventArrives DEF SendDone
<1> QED
  BY <1>1, <1>2, <1>3, <1>4, <1>5
  DEF CompletionNext, EndBody, RefuseRequest, BreakBody, Respond, completionVars

(* A document in a beginning of the text is one of the text: it starts     *)
(* where the text's does, and ends at one of its closings.                 *)
LEMMA BeginningsDocument ==
    ASSUME text \in Seq(Token), NEW c, Begins(c), HasSvg(c)
    PROVE  /\ HasSvg(text)
           /\ \/ ExtractSvg(c) = ExtractSvg(text)
              \/ \E i \in Closings(text) :
                    /\ i # LastClose(text)
                    /\ ExtractSvg(c) = SubSeq(text, FirstOpen(text), i)
<1> DEFINE f == FirstOpen(c)
           l == LastClose(c)
           k == Len(c)
           m == Len(text)
<1>1. /\ k \in Nat /\ m \in Nat /\ k <= m /\ c \in Seq(Token)
      /\ \A i \in 1 .. k : i \in 1 .. m /\ c[i] = text[i]
  BY DEF Begins
<1>2. f # 0 /\ f <= l BY DEF HasSvg
<1>3. f \in 1 .. k /\ c[f] = "open" /\ \A i \in 1 .. k : c[i] = "open" => f <= i
  BY <1>1, <1>2, FirstOpenIs
<1>4. l # 0
  <2>1. f \in Nat /\ f > 0 BY <1>3
  <2> QED BY <1>2, <2>1
<1>5. l \in 1 .. k /\ c[l] = "close" BY <1>1, <1>4, LastCloseIs
<1> DEFINE F == FirstOpen(text)
           L == LastClose(text)
<1>6. F = f
  <2> HIDE DEF f, F
  <2>1. text[f] = "open" /\ f \in 1 .. m BY <1>1, <1>3
  <2>2. F # 0 BY <1>1, <2>1, FirstOpenIs DEF F
  <2>3. F \in 1 .. m /\ text[F] = "open" /\ F <= f
    BY <1>1, <2>1, <2>2, FirstOpenIs DEF F
  <2>4. F \in 1 .. k BY <1>1, <1>3, <2>3
  <2>5. f <= F BY <1>1, <1>3, <2>3, <2>4
  <2> QED BY <2>1, <2>3, <2>5
<1>7. L # 0 /\ l <= L /\ L \in 1 .. m /\ l \in Closings(text)
  <2> HIDE DEF l, L
  <2>1. text[l] = "close" /\ l \in 1 .. m BY <1>1, <1>5
  <2>2. L # 0 BY <1>1, <2>1, LastCloseIs DEF L
  <2>3. L \in 1 .. m /\ l <= L BY <1>1, <2>1, <2>2, LastCloseIs DEF L
  <2> QED BY <1>1, <2>1, <2>2, <2>3 DEF Closings
<1>8. HasSvg(text)
  <2> HIDE DEF f, l, F, L
  <2>1. F # 0 /\ F <= L BY <1>2, <1>3, <1>5, <1>6, <1>7
  <2> QED BY <2>1 DEF HasSvg, F, L
<1>9. SubSeq(c, f, l) = SubSeq(text, f, l)
  <2> HIDE DEF f, l
  <2>1. f \in 1 .. k /\ l \in 1 .. k /\ f <= l BY <1>2, <1>3, <1>5
  <2>2. SubSeq(c, f, l) = [i \in 1 .. l - f + 1 |-> c[i + f - 1]] BY <1>1, <2>1
  <2>3. SubSeq(text, f, l) = [i \in 1 .. l - f + 1 |-> text[i + f - 1]] BY <1>1, <2>1
  <2>4. \A i \in 1 .. l - f + 1 : c[i + f - 1] = text[i + f - 1]
    BY <1>1, <2>1
  <2> QED BY <2>2, <2>3, <2>4
<1>10. ExtractSvg(c) = SubSeq(text, FirstOpen(text), l)
  BY <1>6, <1>9 DEF ExtractSvg
<1>11. CASE l = L
  BY <1>8, <1>10, <1>11 DEF ExtractSvg
<1>12. CASE l # L
  BY <1>7, <1>8, <1>10, <1>12
<1> QED BY <1>11, <1>12

(* The answer is read when no more of the body comes.                      *)
LEMMA AnswerStep ==
    ASSUME CompletionInv, AnswerIsModelsDocument, [CompletionNext]_completionVars
    PROVE  AnswerIsModelsDocument'
<1>1. CASE UNCHANGED <<text, outcome>>
  BY <1>1 DEF AnswerIsModelsDocument
<1>2. CASE \E class : Respond(Raised(class))
  BY <1>2 DEF Respond, Raised, AnswerIsModelsDocument
<1>3. CASE (streamed \/ body # <<>>) /\ Respond(Generated)
  <2> DEFINE c == IF streamed THEN StreamContent(body) ELSE MessageContent(body)
  <2>1. outcome' = Generated /\ text' = text BY <1>3 DEF Respond
  <2>2. text \in Seq(Token) /\ Begins(c)
    <3>1. CASE streamed BY <3>1 DEF CompletionInv
    <3>2. CASE ~streamed
      <4>1. body \in Seq(Event) /\ body # <<>> BY <1>3, <3>2 DEF CompletionInv
      <4>2. 1 \in DOMAIN body BY <4>1
      <4>3. body[1].text = text BY <3>2, <4>2 DEF CompletionInv
      <4>4. text \in Seq(Token) BY DEF CompletionInv
      <4> QED BY <3>2, <4>3, <4>4 DEF MessageContent, Begins
    <3> QED BY <3>1, <3>2
  <2>3. Generated = IF HasSvg(c) THEN Answered(ExtractSvg(c)) ELSE Raised("RuntimeError")
    BY Zenon DEF Generated
  <2> HIDE DEF c
  <2>4. CASE HasSvg(c)
    <3>1. outcome' = Answered(ExtractSvg(c)) BY <2>1, <2>3, <2>4
    <3>2. outcome'.document = ExtractSvg(c) BY <3>1 DEF Answered
    <3>3. HasSvg(text) /\ \/ ExtractSvg(c) = ExtractSvg(text)
                          \/ \E i \in Closings(text) :
                                /\ i # LastClose(text)
                                /\ ExtractSvg(c) = SubSeq(text, FirstOpen(text), i)
      BY <2>2, <2>4, BeginningsDocument
    <3> QED BY <2>1, <3>2, <3>3 DEF AnswerIsModelsDocument
  <2>5. CASE ~HasSvg(c)
    BY <2>1, <2>3, <2>5 DEF Raised, AnswerIsModelsDocument
  <2> QED BY <2>4, <2>5
<1> QED
  BY <1>1, <1>2, <1>3
  DEF CompletionNext, SendDelta, SendNotice, SendMessage, SendDone, Arrive, EndBody,
      RefuseRequest, BreakBody, completionVars

(* An answer of the endpoint is the document that the model wrote          *)
(* (OpenAICompatibleAdapter.generate, adapters.py), for texts and bodies   *)
(* of every length.                                                        *)
THEOREM AnswerIsDocument == CompletionSpec => []AnswerIsModelsDocument
<1>1. CompletionInit => CompletionInv /\ AnswerIsModelsDocument BY CompletionInvInit
<1>2. CompletionInv /\ AnswerIsModelsDocument /\ [CompletionNext]_completionVars
      => (CompletionInv /\ AnswerIsModelsDocument)'
  BY CompletionInvStep, AnswerStep
<1> QED BY <1>1, <1>2, PTL DEF CompletionSpec

----------------------------------------------------------------------------
(* Judging: means and what they say of single answers.                     *)

(* There are judges, and each has a weight.                                *)
LEMMA JudgesAre ==
    /\ Len(Judges) \in Nat \ {0} /\ DOMAIN Judges = 1 .. Len(Judges)
    /\ DOMAIN Weights = DOMAIN Judges /\ \A j \in DOMAIN Judges : Weights[j] \in Int
    /\ IsFiniteSet(DOMAIN Judges)
<1>1. Judges \in Seq(Range(Judges)) /\ Len(Judges) > 0 BY JudgingAssumption
<1>2. Len(Judges) \in Nat \ {0} /\ DOMAIN Judges = 1 .. Len(Judges) BY <1>1
<1>3. \A j \in DOMAIN Judges : Judges[j] \in Range(Judges) BY DEF Range
<1>4. \A j \in DOMAIN Judges : Weights[j] \in Int BY <1>3, JudgingAssumption DEF Weights
<1>5. IsFiniteSet(DOMAIN Judges) BY <1>2, FS_Interval
<1> QED BY <1>2, <1>4, <1>5 DEF Weights

(* The questions are a sequence.                                           *)
LEMMA QuestionsAre ==
    /\ Len(Questions) \in Nat /\ DOMAIN Questions = 1 .. Len(Questions)
    /\ DOMAIN Ids = DOMAIN Questions
<1> DEFINE A == [i \in DOMAIN AnimalIds |-> [id |-> AnimalIds[i], critical |-> FALSE]]
           O == [i \in DOMAIN ObjectIds |-> [id |-> ObjectIds[i], critical |-> FALSE]]
           R == [i \in DOMAIN Relations |->
                   Question("relation", Relations[i].predicate, Relations[i].required)]
           P1 == Question("animal", "present", TRUE)
           P2 == Question("object", "present", TRUE)
           C1 == Question("scene", "coherent", FALSE)
           P == <<P1, P2>>
           C == <<C1>>
           AnyQuestion == {P1, P2, C1} \cup Range(A) \cup Range(O) \cup Range(R)
<1>1. A \in Seq(AnyQuestion)
  <2>1. DOMAIN A = 1 .. Len(AnimalFeatures) /\ Len(AnimalFeatures) \in Nat
    BY JudgingAssumption DEF AnimalIds, Feature
  <2>2. \A i \in 1 .. Len(AnimalFeatures) : A[i] \in AnyQuestion BY <2>1 DEF Range
  <2>3. A = [i \in 1 .. Len(AnimalFeatures) |-> A[i]] BY <2>1
  <2> HIDE DEF A, O, R, P, C, AnyQuestion
  <2> QED BY <2>1, <2>2, <2>3
<1>2. O \in Seq(AnyQuestion)
  <2>1. DOMAIN O = 1 .. Len(ObjectFeatures) /\ Len(ObjectFeatures) \in Nat
    BY JudgingAssumption DEF ObjectIds, Feature
  <2>2. \A i \in 1 .. Len(ObjectFeatures) : O[i] \in AnyQuestion BY <2>1 DEF Range
  <2>3. O = [i \in 1 .. Len(ObjectFeatures) |-> O[i]] BY <2>1
  <2> HIDE DEF A, O, R, P, C, AnyQuestion
  <2> QED BY <2>1, <2>2, <2>3
<1>3. R \in Seq(AnyQuestion)
  <2>1. DOMAIN R = 1 .. Len(Relations) /\ Len(Relations) \in Nat BY JudgingAssumption
  <2>2. \A i \in 1 .. Len(Relations) : R[i] \in AnyQuestion BY <2>1 DEF Range
  <2>3. R = [i \in 1 .. Len(Relations) |-> R[i]] BY <2>1
  <2> HIDE DEF A, O, R, P, C, AnyQuestion
  <2> QED BY <2>1, <2>2, <2>3
<1>4. P \in Seq(AnyQuestion) /\ C \in Seq(AnyQuestion)
  <2>1. P1 \in AnyQuestion /\ P2 \in AnyQuestion /\ C1 \in AnyQuestion
    BY DEF Range
  <2> HIDE DEF A, O, R, P1, P2, C1, AnyQuestion
  <2>2. <<P1, P2>> \in Seq(AnyQuestion) /\ <<C1>> \in Seq(AnyQuestion) BY <2>1
  <2> QED BY <2>2
<1>5. Questions = P \o A \o O \o R \o C BY DEF Questions
<1> HIDE DEF A, O, R, P, C, AnyQuestion
<1>6. Questions \in Seq(AnyQuestion) BY <1>1, <1>2, <1>3, <1>4, <1>5
<1> QED BY <1>6 DEF Ids

(* An entity has finitely many features.                                   *)
LEMMA FeaturesFinite == IsFiniteSet(DOMAIN AnimalIds) /\ IsFiniteSet(DOMAIN ObjectIds)
<1>1. DOMAIN AnimalIds = 1 .. Len(AnimalFeatures) /\ Len(AnimalFeatures) \in Nat
  BY JudgingAssumption DEF AnimalIds, Feature
<1>2. DOMAIN ObjectIds = 1 .. Len(ObjectFeatures) /\ Len(ObjectFeatures) \in Nat
  BY JudgingAssumption DEF ObjectIds, Feature
<1> QED BY <1>1, <1>2, FS_Interval

(* A mean that reaches k percent has a value that does.                    *)
LEMMA MeanReached ==
    ASSUME NEW f, NEW S, IsFiniteSet(S), S # {}, \A x \in S : f[x] \in Int, NEW k \in Int,
           SumFunctionOnSet(f, S) \div Cardinality(S) >= k
    PROVE  \E x \in S : f[x] >= k
<1> SUFFICES ASSUME \A x \in S : f[x] < k PROVE FALSE
  BY SMT
<1> DEFINE c == [x \in S |-> k - 1]
           F == SumFunctionOnSet(f, S)
           n == Cardinality(S)
<1>1. \A x \in S : f[x] \in Int /\ c[x] \in Int /\ f[x] <= c[x] OBVIOUS
<1>2. n \in Nat /\ n > 0 BY FS_CardinalityType, FS_EmptySet
<1>3. \A x \in S : c[x] = k - 1 OBVIOUS
<1> HIDE DEF c
<1>4. SumFunctionOnSet(c, S) = (k - 1) * n BY <1>3, SumConstant
<1>5. F <= SumFunctionOnSet(c, S) BY <1>1, SumMonotonic
<1>6. F \in Int BY SumInteger
<1>7. F \div n >= k OBVIOUS
<1> HIDE DEF F, n
<1>8. F >= k * n BY <1>2, <1>6, <1>7
<1>9. (k - 1) * n = k * n - n BY <1>2
<1> QED BY <1>2, <1>4, <1>5, <1>6, <1>8, <1>9

(* Of a weighted mean that reaches a quarter, a quarter of the weight is   *)
(* that of values above 0, negative weights left out.                      *)
LEMMA QuarterSupported ==
    ASSUME NEW S, IsFiniteSet(S), NEW w, NEW h, NEW wh, NEW s,
           \A j \in S : /\ w[j] \in Int /\ h[j] \in 0 .. 100
                        /\ wh[j] = w[j] * h[j]
                        /\ s[j] = IF h[j] > 0 /\ w[j] > 0 THEN w[j] ELSE 0,
           SumFunctionOnSet(w, S) > 0,
           SumFunctionOnSet(wh, S) \div SumFunctionOnSet(w, S) >= 25
    PROVE  4 * SumFunctionOnSet(s, S) >= SumFunctionOnSet(w, S)
<1> DEFINE t == [j \in S |-> 100 * s[j]]
           W == SumFunctionOnSet(w, S)
           WH == SumFunctionOnSet(wh, S)
           T == SumFunctionOnSet(t, S)
           U == SumFunctionOnSet(s, S)
<1>1. \A j \in S : w[j] \in Int /\ s[j] \in Int /\ wh[j] \in Int OBVIOUS
<1>2. \A j \in S : t[j] = 100 * s[j] /\ t[j] \in Int BY <1>1
<1> HIDE DEF t
<1>3. ASSUME NEW j \in S PROVE wh[j] <= t[j]
  <2>1. CASE h[j] > 0 /\ w[j] > 0
    <3>1. t[j] = 100 * w[j] BY <1>2, <2>1
    <3>2. w[j] * h[j] <= 100 * w[j] BY <2>1
    <3> QED BY <3>1, <3>2
  <2>2. CASE ~(h[j] > 0 /\ w[j] > 0)
    <3>1. h[j] = 0 \/ w[j] <= 0 BY <2>2
    <3>2. w[j] * h[j] <= 0 BY <3>1
    <3>3. t[j] = 0 BY <1>2, <2>2
    <3> QED BY <3>2, <3>3
  <2> QED BY <2>1, <2>2
<1>4. WH <= T BY <1>1, <1>2, <1>3, SumMonotonic
<1>5. T = 100 * U BY <1>1, <1>2, SumMultiple
<1>6. W \in Int /\ WH \in Int /\ U \in Int BY <1>1, SumInteger
<1>7. W > 0 /\ WH \div W >= 25 OBVIOUS
<1> HIDE DEF W, WH, T, U
<1>8. WH >= 25 * W BY <1>6, <1>7
<1>9. 4 * U >= W BY <1>4, <1>5, <1>6, <1>8
<1> QED BY <1>9 DEF W, U

----------------------------------------------------------------------------
(* The judged answer, as functions of what the judges said.                *)

AggregatedIn(h, i) ==
    SumFunction([j \in DOMAIN Judges |-> Weights[j] * h[Place(i, j)]])
      \div SumFunction(Weights)

SupportedIn(h, id) ==
    LET support == [j \in DOMAIN Judges |->
                       IF h[Place(IndexOf(id), j)] > 0 /\ Weights[j] > 0
                       THEN Weights[j] ELSE 0]
    IN  4 * SumFunction(support) >= SumFunction(Weights)

(* Question i's answers are among those that were heard.                   *)
LEMMA PlaceHeard ==
    ASSUME NEW i \in DOMAIN Questions, NEW j \in DOMAIN Judges
    PROVE  Place(i, j) \in 1 .. Len(Questions) * Len(Judges)
<1> DEFINE n == Len(Questions)
           m == Len(Judges)
<1>1. n \in Nat /\ m \in Nat /\ i \in 1 .. n /\ j \in 1 .. m
  BY JudgesAre, QuestionsAre
<1> HIDE DEF n, m
<1>2. (i - 1) * m >= 0 /\ (i - 1) * m + m = i * m BY <1>1
<1>3. i * m <= n * m BY <1>1
<1>4. (i - 1) * m \in Int /\ i * m \in Int /\ n * m \in Int BY <1>1
<1>5. (i - 1) * m + j \in 1 .. n * m BY <1>1, <1>2, <1>3, <1>4
<1> QED BY <1>5 DEF Place, n, m

(* A question whose mean is at least 25 percent has support.               *)
LEMMA MeanSupports ==
    ASSUME NEW h, h \in Seq(Percentages), Len(h) = Len(Questions) * Len(Judges),
           SumFunction(Weights) > 0, NEW id \in Range(Ids),
           AggregatedIn(h, IndexOf(id)) >= 25
    PROVE  SupportedIn(h, id)
<1> DEFINE i == IndexOf(id)
           D == DOMAIN Judges
           a == [j \in D |-> h[Place(i, j)]]
           wh == [j \in D |-> Weights[j] * h[Place(i, j)]]
           s == [j \in D |-> IF h[Place(i, j)] > 0 /\ Weights[j] > 0 THEN Weights[j] ELSE 0]
<1>1. i \in DOMAIN Questions BY QuestionsAre DEF IndexOf, Range
<1> HIDE DEF i
<1>2. \A j \in D : h[Place(i, j)] \in 0 .. 100
  <2> SUFFICES ASSUME NEW j \in D PROVE h[Place(i, j)] \in Percentages
    BY JudgingAssumption
  <2>1. Place(i, j) \in 1 .. Len(h) BY <1>1, PlaceHeard
  <2> HIDE DEF D
  <2> QED BY <2>1
<1>3. IsFiniteSet(D) /\ DOMAIN Weights = D /\ \A j \in D : Weights[j] \in Int
  BY JudgesAre
<1>4. \A j \in D : /\ Weights[j] \in Int /\ a[j] \in 0 .. 100
                   /\ wh[j] = Weights[j] * a[j]
                   /\ s[j] = IF a[j] > 0 /\ Weights[j] > 0 THEN Weights[j] ELSE 0
  BY <1>2, <1>3
<1>5. SumFunction(Weights) = SumFunctionOnSet(Weights, D) BY <1>3 DEF SumFunction
<1>6. SumFunction(wh) = SumFunctionOnSet(wh, D) /\ SumFunction(s) = SumFunctionOnSet(s, D)
  <2>1. DOMAIN wh = D /\ DOMAIN s = D OBVIOUS
  <2> QED BY <2>1, Zenon DEF SumFunction
<1>7. SumFunction(wh) \div SumFunction(Weights) >= 25
  BY Zenon DEF AggregatedIn, i
<1>8. 4 * SumFunction(s) >= SumFunction(Weights) => SupportedIn(h, id)
  BY Zenon DEF SupportedIn, i
<1> HIDE DEF a, wh, s, D
<1>9. 4 * SumFunctionOnSet(s, D) >= SumFunctionOnSet(Weights, D)
  BY <1>3, <1>4, <1>5, <1>6, <1>7, QuarterSupported
<1> QED BY <1>5, <1>6, <1>8, <1>9

----------------------------------------------------------------------------
(* From the gates back to the answers.                                     *)

(* An entity, which features can only lower, has the credit of its own     *)
(* presence.                                                               *)
LEMMA EntitySupported ==
    ASSUME NEW p \in Int, NEW q \in Int, p >= 0, q <= 100,
           (p * (100 + q)) \div 200 >= 25
    PROVE  p >= 25
<1> DEFINE r == p * (100 + q)
<1>1. r \in Int OBVIOUS
<1>2. r \div 200 >= 25 OBVIOUS
<1>3. r <= p * 200 OBVIOUS
<1> HIDE DEF r
<1>4. r >= 5000 BY <1>1, <1>2
<1> QED BY <1>1, <1>3, <1>4

(* Credit for the relations is credit of some relation.                    *)
LEMMA ProductSupported ==
    ASSUME NEW p \in Int, NEW q \in Int, q <= 100, q >= 0, (p * q) \div 100 >= 25
    PROVE  p >= 25
<1> DEFINE r == p * q
<1>1. r \in Int OBVIOUS
<1>2. r \div 100 >= 25 OBVIOUS
<1>3. p < 25 => r <= 25 * q /\ (q > 0 => r < 25 * q) OBVIOUS
<1> HIDE DEF r
<1>4. r >= 2500 BY <1>1, <1>2
<1> QED BY <1>1, <1>3, <1>4

(* The mean of the credit for some questions: it exceeds none of a bound   *)
(* that they all keep, and has one that reaches it.                        *)
LEMMA MeanBetween ==
    ASSUME NEW ids, IsFiniteSet(DOMAIN ids),
           \A id : Probability(id) \in 0 .. 100
    PROVE  /\ MeanOf(ids) \in Int /\ MeanOf(ids) <= 100
           /\ MeanOf(ids) >= 25 => \E i \in DOMAIN ids : Probability(ids[i]) >= 25
<1> DEFINE S == DOMAIN ids
           f == [i \in S |-> Probability(ids[i])]
           F == SumFunctionOnSet(f, S)
           n == Cardinality(S)
<1>1. CASE S = {}
  BY <1>1 DEF MeanOf
<1>2. CASE S # {}
  <2>1. \A i \in S : f[i] = Probability(ids[i]) /\ f[i] \in Int /\ f[i] <= 100 OBVIOUS
  <2>2. MeanOf(ids) = F \div n
    <3>1. DOMAIN f = S OBVIOUS
    <3>2. SumFunction(f) = F BY <3>1, Zenon DEF SumFunction
    <3> QED BY <1>2, <3>2, Zenon DEF MeanOf
  <2> HIDE DEF f
  <2>3. n \in Nat /\ n > 0 BY <1>2, FS_CardinalityType, FS_EmptySet
  <2>4. F \in Int BY <2>1, SumInteger
  <2>5. F \div n >= 25 => \E i \in S : f[i] >= 25 BY <1>2, <2>1, MeanReached
  <2>6. F \div n >= 101 => \E i \in S : f[i] >= 101 BY <1>2, <2>1, MeanReached
  <2> HIDE DEF S, F, n
  <2>7. F \div n \in Int BY <2>3, <2>4
  <2>8. F \div n <= 100 BY <2>1, <2>6, <2>7
  <2> QED BY <2>1, <2>2, <2>5, <2>7, <2>8 DEF S
<1> QED BY <1>1, <1>2

----------------------------------------------------------------------------
(* Every credit is earned.                                                 *)

\* What an assessment of the run is, by the assessor that made it.
AssessmentInv ==
    assessment # NoAssessment =>
        /\ stage \in {"score", "done"}
        /\ assessor = "ensemble" =>
              /\ AllHeard /\ SumFunction(Weights) > 0
              /\ DOMAIN assessment.probability = Range(Ids)
              /\ \A id \in Range(Ids) :
                    /\ assessment.probability[id] \in 0 .. 100
                    /\ assessment.probability[id] = AggregatedIn(heard, IndexOf(id))
              /\ assessment.version = Calibration
        /\ assessor # "ensemble" => assessment.version \in {NoVersion, "fixture-only"}

JudgingInv ==
    /\ document \in Documents /\ policy \in FirewallPolicies
    /\ heard \in Seq(Percentages)
    /\ AssessmentInv
    /\ scorecard # NoScore => stage = "done"

(* Before the trial there is neither assessment nor score.                 *)
LEMMA JudgingInvInit ==
    ASSUME JudgingInit
    PROVE  JudgingInv /\ CreditIsEarned
BY DEF JudgingInit, JudgingInv, AssessmentInv, CreditIsEarned

(* What must stay for what is known of an assessment to stay true.         *)
LEMMA AssessmentKept ==
    ASSUME JudgingInv, UNCHANGED <<assessor, heard, assessment>>,
           stage' = stage \/ stage' = "done" \/ assessment = NoAssessment
    PROVE  AssessmentInv'
<1>1. AllHeard' <=> AllHeard BY DEF AllHeard
<1> QED BY <1>1 DEF JudgingInv, AssessmentInv

(* The ensemble's assessment holds the means of what was heard.            *)
LEMMA EnsembleAssesses ==
    ASSUME JudgingInv, EndEnsemble, CanAggregate
    PROVE  AssessmentInv'
<1> DEFINE p == [id \in Range(Ids) |-> Aggregated(CHOOSE i \in DOMAIN Ids : Ids[i] = id)]
<1>1. assessment' = Assessment(p, Calibration) /\ UNCHANGED <<assessor, heard>>
      /\ stage' = "score" /\ assessor = "ensemble" /\ AllHeard
  BY Zenon DEF EndEnsemble, Assess
<1>2. \A i : Aggregated(i) = AggregatedIn(heard, i) BY Zenon DEF Aggregated, AggregatedIn
<1>3. \A id \in Range(Ids) : p[id] = AggregatedIn(heard, IndexOf(id))
  BY <1>2 DEF IndexOf
<1>4. \A id \in Range(Ids) : p[id] \in 0 .. 100
  <2> SUFFICES ASSUME NEW id \in Range(Ids) PROVE p[id] \in 0 .. 100
    OBVIOUS
  <2>1. IndexOf(id) \in DOMAIN Questions BY QuestionsAre DEF IndexOf, Range
  <2>2. p[id] = Aggregated(IndexOf(id)) BY DEF IndexOf
  <2> QED BY <2>1, <2>2 DEF CanAggregate
<1>5. DOMAIN p = Range(Ids) OBVIOUS
<1> HIDE DEF p
<1>6. assessment'.probability = p /\ assessment'.version = Calibration
  BY <1>1 DEF Assessment
<1>7. AllHeard' BY <1>1 DEF AllHeard
<1>8. SumFunction(Weights) > 0 BY DEF CanAggregate
<1>9. \A id \in Range(Ids) : AggregatedIn(heard', IndexOf(id)) = AggregatedIn(heard, IndexOf(id))
  BY <1>1
<1> QED BY <1>1, <1>3, <1>4, <1>5, <1>6, <1>7, <1>8, <1>9 DEF AssessmentInv

(* An assessment is made once, by the assessor of the run.                 *)
LEMMA JudgingInvStep ==
    ASSUME JudgingInv, [JudgingNext]_judgingVars
    PROVE  JudgingInv'
<1>1. CASE UNCHANGED judgingVars
  BY <1>1, AssessmentKept DEF judgingVars, JudgingInv
<1>2. CASE Render
  <2>1. assessment = NoAssessment BY <1>2 DEF Render, JudgingInv, AssessmentInv
  <2> QED BY <1>2, <2>1, AssessmentKept DEF Render, JudgingInv
<1>3. CASE JudgeAnswers
  <2>1. assessment = NoAssessment BY <1>3 DEF JudgeAnswers, JudgingInv, AssessmentInv
  <2>2. heard' \in Seq(Percentages) BY <1>3 DEF JudgeAnswers, JudgingInv
  <2> QED BY <1>3, <2>1, <2>2 DEF JudgeAnswers, JudgingInv, AssessmentInv
<1>4. CASE JudgeFails \/ AssessorFails
  <2>1. stage = "assess" /\ Raise BY <1>4 DEF JudgeFails, AssessorFails
  <2>2. assessment = NoAssessment BY <2>1 DEF JudgingInv, AssessmentInv
  <2> QED BY <2>1, <2>2, AssessmentKept DEF Raise, JudgingInv
<1>5. CASE EndEnsemble
  <2>1. CASE CanAggregate
    <3>1. AssessmentInv' BY <1>5, <2>1, EnsembleAssesses
    <3>2. stage = "assess" /\ UNCHANGED <<document, policy, heard, scorecard>>
      BY <1>5, <2>1, Zenon DEF EndEnsemble, Assess
    <3> QED BY <3>1, <3>2 DEF JudgingInv
  <2>2. CASE ~CanAggregate
    <3>1. stage = "assess" /\ Raise BY <1>5, <2>2, Zenon DEF EndEnsemble
    <3>2. assessment = NoAssessment BY <3>1 DEF JudgingInv, AssessmentInv
    <3> QED BY <3>1, <3>2, AssessmentKept DEF Raise, JudgingInv
  <2> QED BY <2>1, <2>2
<1>6. CASE AssessStatically
  BY <1>6 DEF AssessStatically, Assess, Assessment, JudgingInv, AssessmentInv
<1>7. CASE AssessOtherwise
  <2>1. PICK a \in Returned : Assess(a) BY <1>7 DEF AssessOtherwise
  <2>2. a.version = NoVersion BY DEF Returned
  <2> QED BY <1>7, <2>1, <2>2 DEF AssessOtherwise, Assess, JudgingInv, AssessmentInv
<1>8. CASE Score
  BY <1>8, AssessmentKept DEF Score, JudgingInv
<1> QED BY <1>1, <1>2, <1>3, <1>4, <1>5, <1>6, <1>7, <1>8 DEF JudgingNext

(* What the ensemble's assessment supports, when the gates are passed.     *)
LEMMA GatesSupport ==
    ASSUME JudgingInv, assessor = "ensemble", Accepted,
           EntityScore(AnimalPresent, AnimalIds) >= 25,
           EntityScore(ObjectPresent, ObjectIds) >= 25, Interaction >= 25
    PROVE  /\ SupportedIn(heard, AnimalPresent) /\ SupportedIn(heard, ObjectPresent)
           /\ \E i \in DOMAIN RelationIds : SupportedIn(heard, RelationIds[i])
<1>1. /\ AllHeard /\ SumFunction(Weights) > 0
      /\ DOMAIN assessment.probability = Range(Ids)
      /\ \A id \in Range(Ids) :
            /\ assessment.probability[id] \in 0 .. 100
            /\ assessment.probability[id] = AggregatedIn(heard, IndexOf(id))
  BY DEF Accepted, JudgingInv, AssessmentInv
<1>2. \A id : Probability(id) \in 0 .. 100 BY <1>1 DEF Probability
<1>3. ASSUME NEW id, Probability(id) >= 25 PROVE SupportedIn(heard, id)
  <2>1. id \in Range(Ids) /\ Probability(id) = AggregatedIn(heard, IndexOf(id))
    BY <1>1, <1>3 DEF Probability
  <2>2. heard \in Seq(Percentages) BY DEF JudgingInv
  <2> QED BY <1>1, <1>3, <2>1, <2>2, MeanSupports DEF AllHeard
<1>4. ASSUME NEW present, NEW features, IsFiniteSet(DOMAIN features),
             EntityScore(present, features) >= 25
      PROVE  Probability(present) >= 25
  <2> DEFINE p == Probability(present)
             q == IF features = <<>> THEN 100 ELSE MeanOf(features)
  <2>1. q \in Int /\ q <= 100 BY <1>2, <1>4, MeanBetween
  <2>2. p \in Int /\ p >= 0 BY <1>2
  <2>3. (p * (100 + q)) \div 200 >= 25 BY <1>4, Zenon DEF EntityScore
  <2> HIDE DEF p, q
  <2>4. p >= 25 BY <2>1, <2>2, <2>3, EntitySupported
  <2> QED BY <2>4 DEF p
<1>5. IsFiniteSet(DOMAIN AnimalIds) /\ IsFiniteSet(DOMAIN ObjectIds) BY FeaturesFinite
<1>6. IsFiniteSet(DOMAIN RelationIds)
  <2>1. DOMAIN Relations = 1 .. Len(Relations) /\ Len(Relations) \in Nat
    BY JudgingAssumption
  <2>2. DOMAIN RelationIds \subseteq DOMAIN Relations BY DEF RelationIds
  <2>3. IsFiniteSet(DOMAIN Relations) BY <2>1, FS_Interval
  <2> QED BY <2>2, <2>3, FS_Subset
<1>7. SupportedIn(heard, AnimalPresent) /\ SupportedIn(heard, ObjectPresent)
  BY <1>3, <1>4, <1>5
<1>8. \E i \in DOMAIN RelationIds : Probability(RelationIds[i]) >= 25
  <2> DEFINE p == MeanOf(RelationIds)
             a == Probability(AnimalPresent)
             v == Probability(ObjectPresent)
             q == IF a < v THEN a ELSE v
  <2>1. p \in Int BY <1>2, <1>6, MeanBetween
  <2>2. a \in 0 .. 100 /\ v \in 0 .. 100 BY <1>2
  <2>3. (p * q) \div 100 >= 25 BY Zenon DEF Interaction
  <2> HIDE DEF p, a, v
  <2>4. q \in Int /\ q <= 100 /\ q >= 0 BY <2>2
  <2> HIDE DEF q
  <2>5. p >= 25 BY <2>1, <2>3, <2>4, ProductSupported
  <2> QED BY <1>2, <1>6, <2>5, MeanBetween DEF p
<1> QED BY <1>3, <1>7, <1>8

(* The score of a trial is made when everything else has been decided.     *)
LEMMA ScoreEarned ==
    ASSUME JudgingInv, Score, scorecard'.valid
    PROVE  /\ document.safe /\ document.picture = "drawn"
           /\ document.text = 0 \/ (policy.allow_visible_text /\ ~Quarantined)
           /\ assessment.task = "this" /\ assessment.picture = "this"
           /\ Critical \subseteq DOMAIN assessment.probability
           /\ assessor = "ensemble" =>
                 /\ AllHeard
                 /\ SupportedIn(heard, AnimalPresent) /\ SupportedIn(heard, ObjectPresent)
                 /\ \E i \in DOMAIN RelationIds : SupportedIn(heard, RelationIds[i])
           /\ scorecard'.evidence = "E3" => assessor = "ensemble" /\ Calibration # NoVersion
<1>1. scorecard' = Scored BY DEF Score
<1>2. \A g \in DOMAIN Gates : Gates[g] BY <1>1, Zenon DEF Scored
<1>3. /\ document.safe /\ document.picture = "drawn" /\ Accepted /\ Decision = "eligible"
      /\ EntityScore(AnimalPresent, AnimalIds) >= 25
      /\ EntityScore(ObjectPresent, ObjectIds) >= 25 /\ Interaction >= 25
  BY <1>2 DEF Gates
<1>4. document.text = 0 \/ (policy.allow_visible_text /\ ~Quarantined)
  <2>1. ~Quarantined BY <1>3 DEF Decision
  <2>2. document.text \in Nat BY JudgingAssumption DEF JudgingInv, Documents
  <2>3. policy.allow_visible_text \in BOOLEAN
    BY JudgingAssumption DEF JudgingInv, Policy
  <2>4. policy.allow_visible_text \/ ~(document.text > 0) BY <2>1 DEF Quarantined
  <2> QED BY <2>1, <2>2, <2>3, <2>4
<1>5. /\ assessment.task = "this" /\ assessment.picture = "this"
      /\ Critical \subseteq DOMAIN assessment.probability
  BY <1>3 DEF Accepted, Matches
<1>6. assessor = "ensemble" =>
         /\ AllHeard
         /\ SupportedIn(heard, AnimalPresent) /\ SupportedIn(heard, ObjectPresent)
         /\ \E i \in DOMAIN RelationIds : SupportedIn(heard, RelationIds[i])
  <2> SUFFICES ASSUME assessor = "ensemble" PROVE AllHeard
    BY <1>3, GatesSupport
  <2> QED BY <1>3 DEF Accepted, JudgingInv, AssessmentInv
<1>7. scorecard'.evidence = "E3" => assessor = "ensemble" /\ Calibration # NoVersion
  <2> SUFFICES ASSUME scorecard'.evidence = "E3"
               PROVE  assessor = "ensemble" /\ Calibration # NoVersion
    OBVIOUS
  <2>1. EvidenceLevel = "E3" BY <1>1, Zenon DEF Scored
  <2>2. assessment # NoAssessment /\ assessment.version \notin {NoVersion, "fixture-only"}
    BY <2>1 DEF EvidenceLevel, Accepted
  <2> QED BY <2>2 DEF JudgingInv, AssessmentInv
<1> QED BY <1>3, <1>4, <1>5, <1>6, <1>7

(* Supported is a function of what was heard.                              *)
LEMMA SupportHeard ==
    \A id : Supported(id) <=> SupportedIn(heard, id)
BY Zenon DEF Supported, SupportedIn

(* And in the next state of what is heard then.                            *)
LEMMA SupportHeardNext ==
    \A id : Supported(id)' <=> SupportedIn(heard', id)
BY Zenon DEF Supported, SupportedIn

(* A score is made once, in the last step.                                 *)
LEMMA CreditStep ==
    ASSUME JudgingInv, CreditIsEarned, [JudgingNext]_judgingVars
    PROVE  CreditIsEarned'
<1>1. CASE UNCHANGED judgingVars
  <2>1. AllHeard' <=> AllHeard BY <1>1 DEF AllHeard, judgingVars
  <2>2. Quarantined' <=> Quarantined BY <1>1 DEF Quarantined, Marked, judgingVars
  <2>3. \A id : Supported(id)' <=> Supported(id)
    BY <1>1, SupportHeard, SupportHeardNext DEF judgingVars
  <2> QED BY <1>1, <2>1, <2>2, <2>3 DEF CreditIsEarned, judgingVars
<1>2. CASE Score
  <2> SUFFICES ASSUME scorecard'.valid PROVE CreditIsEarned'
    BY DEF CreditIsEarned
  <2>1. UNCHANGED <<document, policy, assessor, heard, assessment>> BY <1>2 DEF Score
  <2>2. AllHeard' <=> AllHeard BY <2>1 DEF AllHeard
  <2>3. Quarantined' <=> Quarantined BY <2>1 DEF Quarantined, Marked
  <2>4. \A id : Supported(id)' <=> SupportedIn(heard, id)
    BY <2>1, SupportHeardNext
  <2> QED BY <1>2, <2>1, <2>2, <2>3, <2>4, ScoreEarned DEF CreditIsEarned
<1>3. CASE JudgingNext /\ ~Score
  <2>1. stage # "done"
    BY <1>3 DEF JudgingNext, Render, JudgeAnswers, JudgeFails, AssessorFails, EndEnsemble,
                AssessStatically, AssessOtherwise, Assess
  <2>2. scorecard = NoScore BY <2>1 DEF JudgingInv
  <2>3. scorecard' = scorecard
    BY <1>3, Zenon DEF JudgingNext, Render, JudgeAnswers, JudgeFails, AssessorFails, Raise,
                EndEnsemble, AssessStatically, AssessOtherwise, Assess
  <2> QED BY <2>2, <2>3 DEF CreditIsEarned
<1> QED BY <1>1, <1>2, <1>3

(* A valid score is earned (semantic.py, scoring.py, judge_firewall.py):   *)
(* for every task, every panel of judges, every weights and any answers.   *)
THEOREM CreditEarned == JudgingSpec => []CreditIsEarned
<1>1. JudgingInit => JudgingInv /\ CreditIsEarned BY JudgingInvInit
<1>2. JudgingInv /\ CreditIsEarned /\ [JudgingNext]_judgingVars => (JudgingInv /\ CreditIsEarned)'
  BY JudgingInvStep, CreditStep
<1> QED BY <1>1, <1>2, PTL DEF JudgingSpec

----------------------------------------------------------------------------
(* The ledger of ratings.                                                  *)

----------------------------------------------------------------------------
(* The inductive invariant                                                 *)

\* The interface is one local process, as its documentation says.
OneServer == \A s, x \in Servers : s = x

Request == [step : Steps, tab : Tabs \cup {NoTab},
            content : Content \cup {NoContent}, seen : Seq(Content)]

Page == [next : Nat, at : {"closed", "open", "waiting"}, content : Content \cup {NoContent}]

TypeInv ==
    /\ ledger \in Seq(Line)
    /\ output \in [made : BOOLEAN, rows : Seq(Content)]
    /\ server \in [Servers -> Request]
    /\ tab \in [Tabs -> Page]
    /\ \A t \in Tabs : tab[t].at = "waiting" => tab[t].content \in Content
    /\ acked \subseteq Content

\* A response is where the chain has it, and its line is not cut.
Kept(a) ==
    /\ a.alias \in DOMAIN ledger
    /\ ledger[a.alias].content = a
    /\ ledger[a.alias].text # "cut"

\* What a server knows at each step of a post.
ServerInv ==
    \A s \in Servers :
        /\ server[s].step \notin {"down", "idle"} =>
              server[s].content \in Content /\ server[s].tab \in Tabs
        /\ server[s].step \in {"accepted", "checked"} =>
              server[s].content.alias = Len(ledger) + 1
        /\ server[s].step = "checked" =>
              Readable(ledger) /\ server[s].seen = Contents(ledger)
        /\ server[s].step = "written" /\ Readable(ledger) => Kept(server[s].content)
        /\ server[s].step \in {"complete", "opened"} =>
              /\ Len(ledger) = NumAssignments
              /\ server[s].seen = Contents(ledger)
              /\ Kept(server[s].content)

AckedInv == \A a \in acked : Kept(a)

RatingInv == TypeInv /\ LedgerInOrder /\ ServerInv /\ AckedInv /\ FinalResponseFaithful

----------------------------------------------------------------------------
(* Appending a line                                                        *)

\* Contents has one entry per line.
LEMMA ContentsTyped ==
    ASSUME NEW lines \in Seq(Line)
    PROVE  /\ Contents(lines) \in Seq(Content)
           /\ Len(Contents(lines)) = Len(lines)
           /\ \A i \in 1 .. Len(lines) : Contents(lines)[i] = lines[i].content
  <1>1. \A i \in 1 .. Len(lines) : lines[i] \in Line
    OBVIOUS
  <1>2. Contents(lines) = [i \in 1 .. Len(lines) |-> lines[i].content]
    BY DEF Contents
  <1> QED
    BY <1>1, <1>2 DEF Line

\* What WriteLine does to a ledger that could be read: the line that it appends
\* continues the chain, and what was there stays.
LEMMA WriteKeepsOrder ==
    ASSUME TypeInv, TypeInv', LedgerInOrder, Readable(ledger),
           NEW c \in Content, c.alias = Len(ledger) + 1,
           NEW form \in {"whole", "cut", "unended"},
           ledger' = Appended(ledger, [content |-> c, seq |-> Len(ledger) + 1,
                                       chain |-> Contents(ledger), text |-> form])
    PROVE  /\ LedgerInOrder'
           /\ \A a \in Content : Kept(a) => Kept(a)'
           /\ Readable(ledger)' => Kept(c)'
  <1> DEFINE n == Len(ledger)
             line == [content |-> c, seq |-> n + 1, chain |-> Contents(ledger), text |-> form]
  <1>1. /\ ledger \in Seq(Line) /\ ledger' \in Seq(Line) /\ n \in Nat
        /\ DOMAIN ledger = 1 .. n /\ DOMAIN ledger' = 1 .. Len(ledger')
    BY DEF TypeInv
  <1>2. CASE ledger # <<>> /\ ledger[n].text = "unended"
    <2> DEFINE last == [ledger[n] EXCEPT !.text = "merged"]
    <2>1. n \in 1 .. n /\ ledger[n] \in Line
      BY <1>1, <1>2
    <2>2. last \in Line /\ last.text = "merged" /\ \A f \in {"content", "seq", "chain"} :
              last[f] = ledger[n][f]
      BY <2>1 DEF Line, Texts
    <2> HIDE DEF last
    <2>3. ledger' = [ledger EXCEPT ![n] = last]
      BY <1>2 DEF Appended, last
    <2>4. /\ Len(ledger') = n /\ ledger'[n] = last
          /\ \A i \in 1 .. n : i # n => ledger'[i] = ledger[i]
      <3>1. /\ Len([ledger EXCEPT ![n] = last]) = n
            /\ \A j \in 1 .. n :
                   [ledger EXCEPT ![n] = last][j] = IF j = n THEN last ELSE ledger[j]
        <4>1. ledger \in Seq(Line) /\ last \in Line /\ n \in 1 .. Len(ledger)
          BY <1>1, <2>1, <2>2
        <4> QED
          BY <4>1, ExceptSeq
      <3> QED
        BY <2>1, <2>3, <3>1
    <2>5. \A i \in 1 .. n : ledger'[i].content = ledger[i].content
      BY <2>2, <2>4
    <2>6. Contents(ledger') = Contents(ledger)
      BY <1>1, <2>4, <2>5 DEF Contents
    <2>7. LedgerInOrder'
      <3> SUFFICES ASSUME NEW i \in 1 .. n
                   PROVE  /\ ledger'[i].content.alias = i
                          /\ ledger'[i].seq = i
                          /\ ledger'[i].chain = SubSeq(Contents(ledger'), 1, i - 1)
                          /\ i < n => ledger'[i].text = "whole"
        BY <1>1, <2>4 DEF LedgerInOrder
      <3>1. /\ ledger[i].content.alias = i /\ ledger[i].seq = i
            /\ ledger[i].chain = SubSeq(Contents(ledger), 1, i - 1)
            /\ i < n => ledger[i].text = "whole"
        BY <1>1 DEF LedgerInOrder
      <3>2. CASE i = n
        BY <2>2, <2>4, <2>6, <3>1, <3>2
      <3>3. CASE i # n
        BY <2>4, <2>6, <3>1, <3>3
      <3> QED
        BY <3>2, <3>3
    <2>8. \A a \in Content : Kept(a) => Kept(a)'
      <3> SUFFICES ASSUME NEW a \in Content, Kept(a) PROVE Kept(a)'
        OBVIOUS
      <3>1. a.alias \in 1 .. n /\ ledger[a.alias].content = a /\ ledger[a.alias].text # "cut"
        BY <1>1 DEF Kept
      <3>2. ledger'[a.alias].text # "cut"
        BY <2>2, <2>4, <3>1
      <3> QED
        BY <1>1, <2>4, <2>5, <3>1, <3>2 DEF Kept
    <2>9. ~Readable(ledger)'
      BY <1>1, <2>1, <2>2, <2>4 DEF Readable
    <2> QED
      BY <2>7, <2>8, <2>9
  <1>3. CASE ~(ledger # <<>> /\ ledger[n].text = "unended")
    <2>1. ledger' = Append(ledger, line)
      BY <1>3 DEF Appended
    <2>2. \A i \in 1 .. n : ledger[i].text = "whole"
      BY <1>1, <1>3 DEF Readable
    <2>3. /\ Len(ledger') = n + 1
          /\ \A i \in 1 .. n : ledger'[i] = ledger[i]
          /\ ledger'[n + 1] = line
      <3>1. line \in Line
        <4>1. Contents(ledger) \in Seq(Content)
          BY <1>1, ContentsTyped
        <4>2. n + 1 \in Nat
          BY <1>1
        <4> QED
          BY <4>1, <4>2 DEF Line, Texts
      <3> HIDE DEF line
      <3> QED
        <4>1. ledger \in Seq(Line)
          BY <1>1
        <4>2. /\ Len(Append(ledger, line)) = n + 1
              /\ \A i \in 1 .. n : Append(ledger, line)[i] = ledger[i]
              /\ Append(ledger, line)[n + 1] = line
          BY <3>1, <4>1, AppendProperties
        <4> QED
          BY <2>1, <4>2, Zenon
    <2>4. \A i \in 1 .. (n + 1) :
              SubSeq(Contents(ledger'), 1, i - 1) = SubSeq(Contents(ledger), 1, i - 1)
      <3> SUFFICES ASSUME NEW i \in 1 .. (n + 1)
                   PROVE  SubSeq(Contents(ledger'), 1, i - 1) = SubSeq(Contents(ledger), 1, i - 1)
        OBVIOUS
      <3> DEFINE new == Contents(ledger')
                 old == Contents(ledger)
      <3>1. /\ new \in Seq(Content) /\ Len(new) = n + 1
            /\ \A j \in 1 .. (n + 1) : new[j] = ledger'[j].content
        BY <1>1, <2>3, ContentsTyped
      <3>2. /\ old \in Seq(Content) /\ Len(old) = n
            /\ \A j \in 1 .. n : old[j] = ledger[j].content
        BY <1>1, ContentsTyped
      <3>3. \A j \in 1 .. (i - 1) : new[j] = old[j]
        BY <1>1, <2>3, <3>1, <3>2
      <3>4. \A a, b \in Seq(Content) :
                Len(a) = n + 1 /\ Len(b) = n /\ (\A j \in 1 .. (i - 1) : a[j] = b[j])
                    => SubSeq(a, 1, i - 1) = SubSeq(b, 1, i - 1)
        BY <1>1, SubSeqProperties, SeqEqual
      <3> QED
        BY <3>1, <3>2, <3>3, <3>4
    <2>5. SubSeq(Contents(ledger), 1, n) = Contents(ledger)
      BY <1>1, ContentsTyped
    <2>6. LedgerInOrder'
      <3> SUFFICES ASSUME NEW i \in 1 .. (n + 1)
                   PROVE  /\ ledger'[i].content.alias = i
                          /\ ledger'[i].seq = i
                          /\ ledger'[i].chain = SubSeq(Contents(ledger'), 1, i - 1)
                          /\ i < n + 1 => ledger'[i].text = "whole"
        BY <1>1, <2>3 DEF LedgerInOrder
      <3>1. CASE i \in 1 .. n
        BY <1>1, <2>2, <2>3, <2>4, <3>1 DEF LedgerInOrder
      <3>2. CASE i = n + 1
        BY <1>1, <2>3, <2>4, <2>5, <3>2
      <3> QED
        BY <1>1, <3>1, <3>2
    <2>7. \A a \in Content : Kept(a) => Kept(a)'
      BY <1>1, <2>3 DEF Kept
    <2>8. Readable(ledger') => Kept(c)'
      <3>1. Readable(ledger') => ledger'[n + 1].text # "cut"
        <4>1. n + 1 \in DOMAIN ledger'
          BY <1>1, <2>3
        <4> QED
          BY <4>1 DEF Readable
      <3> QED
        BY <1>1, <2>3, <3>1 DEF Kept
    <2> QED
      BY <2>6, <2>7, <2>8
  <1> QED
    BY <1>2, <1>3

----------------------------------------------------------------------------
(* Every step keeps the invariant                                          *)

\* What depends on the ledger and the answers alone.
LEMMA SameLedger ==
    ASSUME ledger' = ledger
    PROVE  /\ LedgerInOrder' = LedgerInOrder
           /\ Readable(ledger)' = Readable(ledger)
           /\ Contents(ledger)' = Contents(ledger)
           /\ \A a : Kept(a)' = Kept(a)
  BY DEF LedgerInOrder, Readable, Contents, Kept

\* A server that is free again says nothing.
LEMMA FreeTyped ==
    ASSUME NEW step \in {"down", "idle"}
    PROVE  /\ Free(step) \in Request
           /\ Free(step).step = step
  BY DEF Free, Steps, Request

\* The invariant holds of empty files.
LEMMA InvInit == Init => RatingInv
  <1> SUFFICES ASSUME Init PROVE RatingInv
    OBVIOUS
  <1> USE SessionAssumption
  <1>1. TypeInv
    BY FreeTyped DEF Init, TypeInv, Content, Page
  <1>2. ServerInv
    BY FreeTyped DEF Init, ServerInv
  <1> QED
    BY <1>1, <1>2 DEF Init, RatingInv, LedgerInOrder, AckedInv, FinalResponseFaithful

\* The steps that leave the files and the answers alone.
LEMMA Outside ==
    ASSUME RatingInv, UNCHANGED <<ledger, output, acked>>, TypeInv',
           \A s \in Servers : server'[s] = server[s] \/ server'[s].step \in {"down", "idle"}
    PROVE  RatingInv'
  <1>1. LedgerInOrder' /\ AckedInv' /\ FinalResponseFaithful'
    BY SameLedger DEF RatingInv, AckedInv, FinalResponseFaithful
  <1>2. ServerInv'
    BY SameLedger DEF RatingInv, ServerInv
  <1> QED
    BY <1>1, <1>2 DEF RatingInv

LEMMA RefuseKeeps ==
    ASSUME RatingInv, NEW s \in Servers, NEW t \in Tabs, Refuse(s, t)
    PROVE  RatingInv'
  <1>1. TypeInv'
    <2>1. tab' \in [Tabs -> Page] /\ \A u \in Tabs : tab'[u] = tab[u] \/ tab'[u].at = "open"
      BY DEF RatingInv, TypeInv, Refuse, Page
    <2>2. server' \in [Servers -> Request]
      BY FreeTyped DEF RatingInv, TypeInv, Refuse
    <2>3. \A u \in Tabs : tab'[u].at = "waiting" => tab'[u].content \in Content
      BY <2>1 DEF RatingInv, TypeInv
    <2> QED
      BY <2>1, <2>2, <2>3 DEF RatingInv, TypeInv, Refuse
  <1>2. \A x \in Servers : server'[x] = server[x] \/ server'[x].step \in {"down", "idle"}
    BY FreeTyped DEF RatingInv, TypeInv, Refuse
  <1> QED
    BY <1>1, <1>2, Outside DEF Refuse

\* What is acknowledged is where the chain has it.
LEMMA AcknowledgeKeeps ==
    ASSUME RatingInv, OneServer, NEW s \in Servers, NEW n \in Nat,
           server[s].step \notin {"down", "idle"}, Kept(server[s].content),
           Acknowledge(s, server[s].tab, n),
           output' \in [made : BOOLEAN, rows : Seq(Content)], FinalResponseFaithful'
    PROVE  RatingInv'
  <1>1. server[s].content \in Content /\ server[s].tab \in Tabs
    BY DEF RatingInv, ServerInv
  <1>2. TypeInv'
    <2> DEFINE t == server[s].tab
    <2>1. tab \in [Tabs -> Page] /\ tab[t] \in Page
      BY <1>1 DEF RatingInv, TypeInv
    <2>2. /\ [tab[t] EXCEPT !.at = "open", !.next = n + 1] \in Page
          /\ [tab[t] EXCEPT !.at = "open", !.next = n + 1].at = "open"
      <3> DEFINE opened == [tab[t] EXCEPT !.at = "open"]
      <3>1. opened \in Page /\ opened.at = "open"
        BY <2>1 DEF Page
      <3> HIDE DEF opened
      <3>2. [opened EXCEPT !.next = n + 1] \in Page /\ [opened EXCEPT !.next = n + 1].at = "open"
        BY <3>1 DEF Page
      <3> QED
        BY <3>2 DEF opened
    <2>3. tab' = [tab EXCEPT ![t] = [tab[t] EXCEPT !.at = "open", !.next = n + 1]]
      BY <1>1, <2>1 DEF Acknowledge
    <2>4. tab' \in [Tabs -> Page] /\ \A u \in Tabs : tab'[u] = tab[u] \/ tab'[u].at = "open"
      BY <2>1, <2>2, <2>3
    <2>5. \A u \in Tabs : tab'[u].at = "waiting" => tab'[u].content \in Content
      BY <2>4 DEF RatingInv, TypeInv
    <2>6. /\ ledger' \in Seq(Line) /\ acked' \subseteq Content
          /\ server' \in [Servers -> Request]
      BY <1>1, FreeTyped DEF RatingInv, TypeInv, Acknowledge
    <2> QED
      BY <2>4, <2>5, <2>6 DEF TypeInv
  <1>3. server'[s] = Free("idle")
    BY DEF RatingInv, TypeInv, Acknowledge
  <1>4. ServerInv'
    BY <1>3, FreeTyped DEF OneServer, ServerInv
  <1>5. LedgerInOrder' /\ AckedInv'
    BY SameLedger DEF RatingInv, Acknowledge, AckedInv
  <1> QED
    BY <1>2, <1>4, <1>5 DEF RatingInv

LEMMA AcceptKeeps ==
    ASSUME RatingInv, OneServer, NEW s \in Servers, NEW t \in Tabs, Accept(s, t)
    PROVE  RatingInv'
  <1>1. CASE Refuse(s, t)
    BY <1>1, RefuseKeeps
  <1>2. CASE /\ tab[t].content.alias = Len(ledger) + 1
             /\ server' = [server EXCEPT ![s] = [Free("accepted") EXCEPT
                              !.tab = t, !.content = tab[t].content]]
             /\ UNCHANGED <<ledger, output, tab, acked, crashes>>
    <2>1. tab[t].content \in Content
      BY DEF RatingInv, TypeInv, Accept
    <2>2. server'[s] = [step |-> "accepted", tab |-> t, content |-> tab[t].content, seen |-> <<>>]
      BY <1>2 DEF RatingInv, TypeInv, Free
    <2>3. TypeInv'
      <3>1. server'[s] \in Request
        BY <2>1, <2>2 DEF Request, Steps
      <3>2. server' \in [Servers -> Request]
        BY <1>2, <3>1 DEF RatingInv, TypeInv
      <3> QED
        BY <1>2, <3>2 DEF RatingInv, TypeInv
    <2>4. ServerInv'
      <3>1. \A x \in Servers : x = s
        BY DEF OneServer
      <3>2. /\ server'[s].step = "accepted" /\ server'[s].content = tab[t].content
            /\ server'[s].tab = t
        BY <2>2
      <3> QED
        BY <1>2, <2>1, <3>1, <3>2 DEF ServerInv
    <2>5. LedgerInOrder' /\ AckedInv' /\ FinalResponseFaithful'
      BY <1>2, SameLedger DEF RatingInv, AckedInv, FinalResponseFaithful
    <2> QED
      BY <2>3, <2>4, <2>5 DEF RatingInv
  <1> QED
    BY <1>1, <1>2 DEF Accept

LEMMA CheckAppendKeeps ==
    ASSUME RatingInv, OneServer, NEW s \in Servers, CheckAppend(s)
    PROVE  RatingInv'
  <1>1. server[s].content \in Content /\ server[s].tab \in Tabs
    BY DEF RatingInv, ServerInv, CheckAppend
  <1>2. CASE Refuse(s, server[s].tab)
    BY <1>1, <1>2, RefuseKeeps
  <1>3. CASE /\ Readable(ledger)
             /\ server' = [server EXCEPT ![s].step = "checked", ![s].seen = Contents(ledger)]
             /\ UNCHANGED <<ledger, output, tab, acked, crashes>>
    <2>1. /\ server'[s].step = "checked" /\ server'[s].seen = Contents(ledger)
          /\ server'[s].tab = server[s].tab /\ server'[s].content = server[s].content
      BY <1>3 DEF RatingInv, TypeInv
    <2>2. TypeInv'
      <3>1. Contents(ledger) \in Seq(Content)
        BY ContentsTyped DEF RatingInv, TypeInv
      <3>2. server[s] \in Request
        BY DEF RatingInv, TypeInv
      <3>3. server' \in [Servers -> Request]
        BY <1>3, <3>1, <3>2 DEF RatingInv, TypeInv, Steps, Request
      <3> QED
        BY <1>3, <3>3 DEF RatingInv, TypeInv
    <2>3. ServerInv'
      BY <1>1, <1>3, <2>1, SameLedger DEF RatingInv, OneServer, ServerInv, CheckAppend
    <2>4. LedgerInOrder' /\ AckedInv' /\ FinalResponseFaithful'
      BY <1>3, SameLedger DEF RatingInv, AckedInv, FinalResponseFaithful
    <2> QED
      BY <2>2, <2>3, <2>4 DEF RatingInv
  <1> QED
    BY <1>2, <1>3 DEF CheckAppend

\* The line that is written is the next one, so the session was not complete.
LEMMA WriteLineKeeps ==
    ASSUME RatingInv, OneServer, NEW s \in Servers, WriteLine(s)
    PROVE  RatingInv'
  <1>1. PICK c \in Content : /\ c = server[s].content /\ c.alias = Len(ledger) + 1
                             /\ Readable(ledger) /\ server[s].seen = Contents(ledger)
    BY DEF RatingInv, ServerInv, WriteLine
  <1>2. Len(Contents(ledger)) = Len(ledger) /\ Contents(ledger) \in Seq(Content)
    BY ContentsTyped DEF RatingInv, TypeInv
  <1>3. PICK form \in {"whole", "cut", "unended"} :
            ledger' = Appended(ledger, [content |-> c, seq |-> Len(ledger) + 1,
                                        chain |-> Contents(ledger), text |-> form])
    BY <1>1, <1>2 DEF WriteLine
  <1>4. TypeInv'
    <2> DEFINE line == [content |-> c, seq |-> Len(ledger) + 1,
                        chain |-> Contents(ledger), text |-> form]
    <2>1. line \in Line
      BY <1>1, <1>2, <1>3 DEF Line, Texts, RatingInv, TypeInv
    <2>2. ledger \in Seq(Line)
      BY DEF RatingInv, TypeInv
    <2>3. Append(ledger, line) \in Seq(Line)
      BY <2>1, <2>2
    <2>4. ledger # <<>> => [ledger EXCEPT ![Len(ledger)].text = "merged"] \in Seq(Line)
      <3> SUFFICES ASSUME ledger # <<>>
                   PROVE  [ledger EXCEPT ![Len(ledger)].text = "merged"] \in Seq(Line)
        OBVIOUS
      <3>1. Len(ledger) \in 1 .. Len(ledger) /\ ledger[Len(ledger)] \in Line
        BY <2>2
      <3>2. [ledger[Len(ledger)] EXCEPT !.text = "merged"] \in Line
        BY <3>1 DEF Line, Texts
      <3> QED
        BY <2>2, <3>1, <3>2
    <2>5. ledger' \in Seq(Line)
      BY <1>3, <2>3, <2>4 DEF Appended
    <2>6. server' \in [Servers -> Request]
      <3>1. server[s] \in Request
        BY DEF RatingInv, TypeInv
      <3>2. [server[s] EXCEPT !.step = "written"] \in Request
        BY <3>1 DEF Request, Steps
      <3> QED
        BY <3>2 DEF RatingInv, TypeInv, WriteLine
    <2> QED
      BY <2>5, <2>6 DEF RatingInv, TypeInv, WriteLine
  <1>5. /\ LedgerInOrder'
        /\ \A a \in Content : Kept(a) => Kept(a)'
        /\ Readable(ledger)' => Kept(c)'
    BY <1>1, <1>3, <1>4, WriteKeepsOrder DEF RatingInv
  <1>6. AckedInv'
    BY <1>5 DEF RatingInv, TypeInv, AckedInv, WriteLine
  <1>7. ServerInv'
    <2>1. /\ server'[s].step = "written" /\ server'[s].content = c
          /\ server'[s].tab = server[s].tab
      <3>1. server[s] \in Request /\ server' = [server EXCEPT ![s] = [server[s] EXCEPT !.step = "written"]]
        BY DEF RatingInv, TypeInv, WriteLine
      <3>2. server'[s] = [server[s] EXCEPT !.step = "written"]
        BY <3>1 DEF RatingInv, TypeInv
      <3> QED
        BY <1>1, <3>1, <3>2 DEF Request
    <2>2. server[s].tab \in Tabs
      BY DEF RatingInv, ServerInv, WriteLine
    <2>3. Readable(ledger)' => Kept(server[s].content)'
      BY <1>5, <2>1 DEF Kept
    <2> QED
      BY <1>1, <1>5, <2>1, <2>2 DEF OneServer, ServerInv, Kept
  <1>8. FinalResponseFaithful'
    <2>1. c.alias \in 1 .. NumAssignments
      BY <1>1 DEF Content, Assignments
    <2>2. output.rows = <<>>
      BY <1>1, <2>1, <1>2 DEF RatingInv, TypeInv, FinalResponseFaithful
    <2> QED
      BY <2>2 DEF FinalResponseFaithful, WriteLine
  <1> QED
    BY <1>4, <1>5, <1>6, <1>7, <1>8 DEF RatingInv

LEMMA CountKeeps ==
    ASSUME RatingInv, OneServer, NEW s \in Servers, Count(s)
    PROVE  RatingInv'
  <1>1. server[s].content \in Content /\ server[s].tab \in Tabs
    BY DEF RatingInv, ServerInv, Count
  <1>2. CASE ~Readable(ledger)
    <2>1. Refuse(s, server[s].tab)
      BY <1>2 DEF Count
    <2> QED
      BY <1>1, <2>1, RefuseKeeps
  <1>3. CASE Readable(ledger) /\ Len(ledger) = NumAssignments
    <2>1. /\ server' = [server EXCEPT ![s].step = "complete", ![s].seen = Contents(ledger)]
          /\ UNCHANGED <<ledger, output, tab, acked, crashes>>
      BY <1>3 DEF Count
    <2>2. Kept(server[s].content)
      BY <1>3 DEF RatingInv, ServerInv, Count
    <2>3. /\ server'[s].step = "complete" /\ server'[s].seen = Contents(ledger)
          /\ server'[s].tab = server[s].tab /\ server'[s].content = server[s].content
      BY <2>1 DEF RatingInv, TypeInv
    <2>4. TypeInv'
      <3>1. Contents(ledger) \in Seq(Content)
        BY ContentsTyped DEF RatingInv, TypeInv
      <3>2. server[s] \in Request
        BY DEF RatingInv, TypeInv
      <3>3. server' \in [Servers -> Request]
        BY <2>1, <3>1, <3>2 DEF RatingInv, TypeInv, Steps, Request
      <3> QED
        BY <2>1, <3>3 DEF RatingInv, TypeInv
    <2>5. ServerInv'
      BY <1>1, <1>3, <2>1, <2>2, <2>3, SameLedger DEF OneServer, ServerInv
    <2>6. LedgerInOrder' /\ AckedInv' /\ FinalResponseFaithful'
      BY <2>1, SameLedger DEF RatingInv, AckedInv, FinalResponseFaithful
    <2> QED
      BY <2>4, <2>5, <2>6 DEF RatingInv
  <1>4. CASE Readable(ledger) /\ Len(ledger) # NumAssignments
    <2>1. Acknowledge(s, server[s].tab, Len(ledger)) /\ UNCHANGED output
      BY <1>4 DEF Count
    <2>2. Kept(server[s].content) /\ server[s].step = "written"
      BY <1>4 DEF RatingInv, ServerInv, Count
    <2>3. FinalResponseFaithful'
      BY <2>1, SameLedger DEF RatingInv, FinalResponseFaithful, Acknowledge
    <2>4. /\ Len(ledger) \in Nat
          /\ output' \in [made : BOOLEAN, rows : Seq(Content)]
      BY <2>1 DEF RatingInv, TypeInv
    <2> QED
      BY <2>1, <2>2, <2>3, <2>4, AcknowledgeKeeps
  <1> QED
    BY <1>2, <1>3, <1>4

LEMMA OpenOutputKeeps ==
    ASSUME RatingInv, OneServer, NEW s \in Servers, OpenOutput(s)
    PROVE  RatingInv'
  <1>1. server[s].content \in Content /\ server[s].tab \in Tabs
    BY DEF RatingInv, ServerInv, OpenOutput
  <1>2. CASE Refuse(s, server[s].tab)
    BY <1>1, <1>2, RefuseKeeps
  <1>3. CASE /\ output' = [made |-> TRUE, rows |-> <<>>]
             /\ server' = [server EXCEPT ![s].step = "opened"]
             /\ UNCHANGED <<ledger, tab, acked, crashes>>
    <2>1. TypeInv'
      <3>1. server[s] \in Request
        BY DEF RatingInv, TypeInv
      <3>2. server' \in [Servers -> Request]
        BY <1>3, <3>1 DEF RatingInv, TypeInv, Steps, Request
      <3> QED
        BY <1>3, <3>2 DEF RatingInv, TypeInv
    <2>2. /\ server'[s].step = "opened" /\ server'[s].seen = server[s].seen
          /\ server'[s].tab = server[s].tab /\ server'[s].content = server[s].content
      BY <1>3 DEF RatingInv, TypeInv
    <2>3. ServerInv'
      BY <1>1, <1>3, <2>2, SameLedger DEF RatingInv, OneServer, ServerInv, OpenOutput
    <2>4. LedgerInOrder' /\ AckedInv' /\ FinalResponseFaithful'
      BY <1>3, SameLedger DEF RatingInv, AckedInv, FinalResponseFaithful
    <2> QED
      BY <2>1, <2>3, <2>4 DEF RatingInv
  <1> QED
    BY <1>2, <1>3 DEF OpenOutput

LEMMA WriteOutputKeeps ==
    ASSUME RatingInv, OneServer, NEW s \in Servers, WriteOutput(s)
    PROVE  RatingInv'
  <1>1. /\ Len(ledger) = NumAssignments /\ server[s].seen = Contents(ledger)
        /\ Kept(server[s].content) /\ server[s].step = "opened"
    BY DEF RatingInv, ServerInv, WriteOutput
  <1>2. /\ Contents(ledger) \in Seq(Content) /\ Len(Contents(ledger)) = NumAssignments
        /\ Len(Contents(ledger)) \in Nat
    BY <1>1, ContentsTyped, SessionAssumption DEF RatingInv, TypeInv
  <1>3. /\ output' \in [made : BOOLEAN, rows : Seq(Content)]
        /\ output'.rows = Contents(ledger)
    BY <1>1, <1>2 DEF RatingInv, TypeInv, WriteOutput
  <1>4. FinalResponseFaithful'
    BY <1>2, <1>3, SameLedger DEF FinalResponseFaithful, WriteOutput, Acknowledge
  <1> QED
    BY <1>1, <1>2, <1>3, <1>4, AcknowledgeKeeps DEF WriteOutput

\* Every step keeps the invariant, because of one server no other one comes between.
LEMMA InvNext ==
    ASSUME OneServer, RatingInv, [Next]_vars
    PROVE  RatingInv'
  <1>1. CASE UNCHANGED vars
    <2>1. TypeInv'
      BY <1>1 DEF RatingInv, TypeInv, vars
    <2> QED
      BY <1>1, <2>1, Outside DEF vars
  <1>2. ASSUME NEW s \in Servers, Start(s) \/ Crash(s) PROVE RatingInv'
    <2>1. UNCHANGED <<ledger, output, acked>>
      BY <1>2 DEF Start, Crash
    <2>2. TypeInv'
      <3>1. CASE Start(s)
        BY <3>1, FreeTyped DEF RatingInv, TypeInv, Start
      <3>2. CASE Crash(s)
        <4>1. \A t \in Tabs :
                  /\ tab'[t] \in Page
                  /\ tab'[t].at = "waiting" => tab'[t].content \in Content
          BY <3>2 DEF RatingInv, TypeInv, Crash, Page
        <4>2. tab' \in [Tabs -> Page]
          BY <3>2, <4>1 DEF Crash
        <4> QED
          BY <3>2, <4>1, <4>2, FreeTyped DEF RatingInv, TypeInv, Crash
      <3> QED
        BY <1>2, <3>1, <3>2
    <2>3. \A x \in Servers : server'[x] = server[x] \/ server'[x].step \in {"down", "idle"}
      BY <1>2, FreeTyped DEF RatingInv, TypeInv, Start, Crash
    <2> QED
      BY <2>1, <2>2, <2>3, Outside
  <1>3. ASSUME NEW s \in Servers, Handle(s) PROVE RatingInv'
    BY <1>3, AcceptKeeps, CheckAppendKeeps, WriteLineKeeps, CountKeeps, OpenOutputKeeps,
       WriteOutputKeeps DEF Handle
  <1>4. ASSUME NEW s \in Servers, NEW t \in Tabs, Load(s, t) PROVE RatingInv'
    <2>1. TypeInv'
      <3>1. [next |-> Len(ledger) + 1, at |-> "open", content |-> NoContent] \in Page
        BY DEF RatingInv, TypeInv, Page
      <3>2. /\ tab' \in [Tabs -> Page]
            /\ \A u \in Tabs : tab'[u] = tab[u] \/ tab'[u].at = "open"
        BY <1>4, <3>1 DEF RatingInv, TypeInv, Load
      <3>3. \A u \in Tabs : tab'[u].at = "waiting" => tab'[u].content \in Content
        BY <3>2 DEF RatingInv, TypeInv
      <3> QED
        BY <1>4, <3>2, <3>3 DEF RatingInv, TypeInv, Load
    <2> QED
      BY <1>4, <2>1, Outside DEF Load
  <1>5. ASSUME NEW t \in Tabs, NEW r \in Ratings, Submit(t, r) PROVE RatingInv'
    <2>1. TypeInv'
      <3> DEFINE c == [alias |-> tab[t].next, rating |-> r]
                 sent == [[tab[t] EXCEPT !.at = "waiting"] EXCEPT !.content = c]
      <3>1. c \in Content
        BY <1>5 DEF Submit, Content
      <3> HIDE DEF c
      <3>2. tab \in [Tabs -> Page] /\ tab[t] \in Page
        BY DEF RatingInv, TypeInv
      <3>3. [tab[t] EXCEPT !.at = "waiting"] \in Page
        BY <3>2 DEF Page
      <3>4. sent \in Page /\ sent.content = c
        BY <3>1, <3>3 DEF Page
      <3>5. tab' = [tab EXCEPT ![t] = sent]
        BY <1>5, <3>2 DEF Submit, c
      <3> HIDE DEF sent
      <3>6. tab' \in [Tabs -> Page] /\ \A u \in Tabs : tab'[u] = tab[u] \/ tab'[u].content = c
        BY <3>2, <3>4, <3>5
      <3>7. \A u \in Tabs : tab'[u].at = "waiting" => tab'[u].content \in Content
        BY <3>1, <3>6 DEF RatingInv, TypeInv
      <3> QED
        BY <1>5, <3>6, <3>7 DEF RatingInv, TypeInv, Submit
    <2> QED
      BY <1>5, <2>1, Outside DEF Submit
  <1> QED
    BY <1>1, <1>2, <1>3, <1>4, <1>5 DEF Next

\* The inductive invariant of the server and its files.
THEOREM RatingInvariant == OneServer /\ Spec => []RatingInv
  <1> SUFFICES ASSUME OneServer PROVE Spec => []RatingInv
    OBVIOUS
  <1>1. RatingInv /\ [Next]_vars => RatingInv'
    BY InvNext
  <1> QED
    BY <1>1, InvInit, PTL DEF Spec

\* The ledger of the rating session is one chain in the frozen order.
THEOREM LedgerStaysInOrder == OneServer /\ Spec => []LedgerInOrder
  <1>1. RatingInv => LedgerInOrder
    BY DEF RatingInv
  <1> QED
    BY <1>1, RatingInvariant, PTL

\* A response that was answered with status 200 is never lost or replaced.
THEOREM AnswersStay == OneServer /\ Spec => []AcknowledgedKept
  <1>1. RatingInv => AcknowledgedKept
    BY DEF RatingInv, TypeInv, AckedInv, Kept, AcknowledgedKept
  <1> QED
    BY <1>1, RatingInvariant, PTL

\* The final response repeats the complete ledger.
THEOREM ResponseRepeatsLedger == OneServer /\ Spec => []FinalResponseFaithful
  <1>1. RatingInv => FinalResponseFaithful
    BY DEF RatingInv
  <1> QED
    BY <1>1, RatingInvariant, PTL

----------------------------------------------------------------------------
(* RatingSession: the inductive invariant                                  *)

HostFields == {"at", "folders", "packet", "candidate", "aliases", "schedule",
               "checked", "authority", "digest"}

\* The steps of a server before it has compared its files.
Reading == {"off", "packet", "candidate", "custody", "compare"}

Files == [Episodes -> Nat]

SessionTypeInv ==
    /\ asset \in Files /\ candidate \in Files
    /\ DOMAIN page = RaterTabs
    /\ \A t \in RaterTabs :
          \/ page[t] = Closed
          \/ DOMAIN page[t] = {"at", "aliases", "index", "seen"} /\ page[t].at = "open"
    /\ ratings \in Seq({ratings[i] : i \in DOMAIN ratings})
    /\ DOMAIN response = Routes
    /\ refrozen \in BOOLEAN /\ reissued \in BOOLEAN

\* An authorization is three values.
Whole(a) == a = [freeze |-> a.freeze, route |-> a.route, limit |-> a.limit]

AuthorityInv == authority # Missing => Whole(authority)

\* A rating on episode e of packet p has been given on what the packet has of it.
SeenIn(p, i, seen) ==
    LET e == p.schedule.assignments[i].episode IN e \in disturbed \/ seen = p.candidate[e]

\* What a server has read, compared and checked.
HostInv ==
    /\ host = Off \/ DOMAIN host = HostFields
    /\ host.at \in Reading \ {"off"} => host.checked = 0
    /\ host.at \notin {"off", "packet", "candidate"} => host.candidate \in Files
    /\ host.at \notin {"off", "packet"} /\ ~refrozen => host.packet = packet
    /\ host.at \notin Reading =>
          /\ CommitmentsHold
          /\ host.checked \in Nat
          /\ \A i \in 1 .. Everything :
                i <= host.checked => SeenIn(host.packet, i, asset[Assignment(i).episode])
    /\ host.at \notin Reading \cup {"assets"} => host.checked = Everything
    /\ host.at \in {"digest", "serving"} => Authorised(host.authority) /\ Whole(host.authority)
    /\ host.at = "digest" /\ ~reissued => host.authority = authority
    /\ host.at = "serving" /\ ~reissued => host.digest = host.authority

\* A page and the ledger are of the packet there is, if it was not frozen again.
PagesInv ==
    ~refrozen => \A t \in RaterTabs : page[t].at = "open" =>
        /\ DOMAIN page[t].aliases \subseteq 1 .. Everything
        /\ \A i \in DOMAIN page[t].aliases :
              page[t].aliases[i] = packet.schedule.assignments[i].alias
        /\ page[t].seen # Missing /\ page[t].index \in DOMAIN page[t].aliases =>
              SeenIn(packet, page[t].index, page[t].seen)

RatingsInv ==
    ~refrozen => \A i \in DOMAIN ratings :
        /\ ratings[i].alias = packet.schedule.assignments[i].alias
        /\ SeenIn(packet, i, ratings[i].seen)

SessionInv ==
    /\ SessionTypeInv /\ AuthorityInv /\ HostInv /\ PagesInv /\ RatingsInv
    /\ ResponseIsFrozenSession

----------------------------------------------------------------------------
(* RatingSession: the server's steps                                       *)

\* SessionInv holds at the start.
LEMMA SessionStarts ==
    ASSUME SessionInit
    PROVE  SessionInv
  <1> USE DEF SessionInit
  <1>1. asset \in Files
    BY RatingSessionAssumption DEF Files, Episodes
  <1>2. ratings \in Seq({ratings[i] : i \in DOMAIN ratings})
    BY EmptySeq
  <1>3. DOMAIN page = RaterTabs /\ \A t \in RaterTabs : page[t] = Closed
    OBVIOUS
  <1>4. SessionTypeInv
    BY <1>1, <1>2, <1>3 DEF SessionTypeInv
  <1>5. AuthorityInv /\ PagesInv /\ RatingsInv
    BY DEF AuthorityInv, PagesInv, RatingsInv, Closed
  <1>6. HostInv
    BY DEF HostInv, Off, Reading
  <1>7. ResponseIsFrozenSession
    BY DEF ResponseIsFrozenSession
  <1> QED  BY <1>4, <1>5, <1>6, <1>7 DEF SessionInv

\* The pages, the ledger and the responses are as they were, and what they are
\* compared with has not changed but for the history, which only grows.
LEMMA OnlyHistoryGrows ==
    ASSUME PagesInv, RatingsInv, ResponseIsFrozenSession,
           UNCHANGED <<page, ratings, response, packet>>,
           disturbed \subseteq disturbed', reissued => reissued', refrozen => refrozen'
    PROVE  PagesInv' /\ RatingsInv' /\ ResponseIsFrozenSession'
  <1>1. PagesInv'
    BY DEF PagesInv, SeenIn
  <1>2. RatingsInv'
    BY DEF RatingsInv, SeenIn
  <1>3. ResponseIsFrozenSession'
    BY DEF ResponseIsFrozenSession
  <1> QED  BY <1>1, <1>2, <1>3

\* What a server has compared stays compared.
LEMMA ComparedOnce ==
    ASSUME host'.packet = host.packet, host'.candidate = host.candidate,
           host'.aliases = host.aliases, host'.schedule = host.schedule
    PROVE  CommitmentsHold' <=> CommitmentsHold
  BY DEF CommitmentsHold

\* A step of nobody but the server.
LEMMA OnlyServer ==
    ASSUME SessionInv, UNCHANGED <<people, page, ratings, response>>, HostInv'
    PROVE  SessionInv'
  <1> USE DEF people
  <1>1. SessionTypeInv' /\ AuthorityInv'
    BY DEF SessionInv, SessionTypeInv, AuthorityInv
  <1>2. PagesInv' /\ RatingsInv' /\ ResponseIsFrozenSession'
    BY OnlyHistoryGrows DEF SessionInv
  <1> QED  BY <1>1, <1>2 DEF SessionInv

\* A server that is refused or stopped has read nothing.
LEMMA RefusedKeeps ==
    ASSUME Refused
    PROVE  HostInv'
  BY DEF Refused, HostInv, Off, Reading

LEMMA LaunchKeeps ==
    ASSUME SessionInv, NEW d, NEW f, Launch(d, f)
    PROVE  SessionInv'
  <1>1. DOMAIN host' = HostFields /\ host'.at = "packet" /\ host'.checked = 0
    BY DEF Launch, HostFields
  <1>2. HostInv'
    BY <1>1 DEF HostInv, Reading
  <1> QED  BY <1>2, OnlyServer DEF Launch

LEMMA ReadFileKeeps ==
    ASSUME SessionInv, ReadFile
    PROVE  SessionInv'
  <1> SUFFICES HostInv'
    BY OnlyServer DEF ReadFile
  <1> USE DEF Reading, Off
  <1>1. CASE host.at = "packet" /\ Keeps("packet", packet, "candidate")
    <2>1. CASE packet = Missing
      BY <1>1, <2>1, RefusedKeeps DEF Keeps
    <2>2. CASE packet # Missing
      <3>1. DOMAIN host = HostFields /\ host.checked = 0
        BY <1>1 DEF SessionInv, HostInv
      <3>2. host' = [host EXCEPT !.at = "candidate", !["packet"] = packet]
        BY <1>1, <2>2 DEF Keeps
      <3>3. /\ DOMAIN host' = HostFields /\ host'.at = "candidate" /\ host'.packet = packet
            /\ host'.checked = host.checked
        BY <3>1, <3>2 DEF HostFields
      <3>4. packet' = packet
        BY DEF ReadFile, people
      <3> QED  BY <3>1, <3>3, <3>4 DEF HostInv
    <2> QED  BY <2>1, <2>2
  <1>2. CASE host.at = "candidate" /\ Keeps("candidate", candidate, "custody")
    <2>1. CASE candidate = Missing
      BY <1>2, <2>1, RefusedKeeps DEF Keeps
    <2>2. CASE candidate # Missing
      <3>1. DOMAIN host = HostFields /\ host.checked = 0
        BY <1>2 DEF SessionInv, HostInv
      <3>2. host' = [host EXCEPT !.at = "custody", !["candidate"] = candidate]
        BY <1>2, <2>2 DEF Keeps
      <3>3. /\ DOMAIN host' = HostFields /\ host'.at = "custody"
            /\ host'.candidate = candidate /\ host'.packet = host.packet
            /\ host'.checked = host.checked
        BY <3>1, <3>2 DEF HostFields
      <3>4. UNCHANGED <<packet, refrozen>>
        BY DEF ReadFile, people
      <3>5. candidate \in Files
        BY DEF SessionInv, SessionTypeInv
      <3>6. ~refrozen => host.packet = packet
        BY <1>2 DEF SessionInv, HostInv
      <3> QED  BY <3>1, <3>3, <3>4, <3>5, <3>6 DEF HostInv
    <2> QED  BY <2>1, <2>2
  <1>3. CASE host.at = "custody"
    <2> DEFINE aliases == custody[host.folders[1]][1]
               schedule == custody[host.folders[2]][2]
    <2>1. CASE Missing \in {aliases, schedule}
      BY <1>3, <2>1, RefusedKeeps DEF ReadFile
    <2>2. CASE Missing \notin {aliases, schedule}
      <3>1. DOMAIN host = HostFields /\ host.checked = 0
        BY <1>3 DEF SessionInv, HostInv
      <3>2. host' = [host EXCEPT !.at = "compare", !.aliases = aliases, !.schedule = schedule]
        BY <1>3, <2>2 DEF ReadFile
      <3> HIDE DEF aliases, schedule
      <3>3. /\ DOMAIN host' = HostFields /\ host'.at = "compare"
            /\ host'.candidate = host.candidate /\ host'.packet = host.packet
            /\ host'.checked = host.checked
        BY <3>1, <3>2 DEF HostFields
      <3>4. UNCHANGED <<packet, refrozen>>
        BY DEF ReadFile, people
      <3>5. host.candidate \in Files /\ (~refrozen => host.packet = packet)
        BY <1>3 DEF SessionInv, HostInv
      <3> QED  BY <3>1, <3>3, <3>4, <3>5 DEF HostInv
    <2> QED  BY <2>1, <2>2
  <1> QED  BY <1>1, <1>2, <1>3 DEF ReadFile

LEMMA CompareFilesKeeps ==
    ASSUME SessionInv, CompareFiles
    PROVE  SessionInv'
  <1> SUFFICES HostInv'
    BY OnlyServer DEF CompareFiles
  <1> USE DEF Reading, Off
  <1>1. DOMAIN host = HostFields /\ host.candidate \in Files
        /\ (~refrozen => host.packet = packet)
    BY DEF CompareFiles, SessionInv, HostInv
  <1>2. CASE CommitmentsHold
    <2>1. host' = [host EXCEPT !.at = "assets"]
      BY <1>2 DEF CompareFiles
    <2>2. /\ DOMAIN host' = HostFields /\ host'.at = "assets"
          /\ host'.packet = host.packet /\ host'.candidate = host.candidate
          /\ host'.aliases = host.aliases /\ host'.schedule = host.schedule
          /\ host'.checked = host.checked
      BY <1>1, <2>1 DEF HostFields
    <2>3. CommitmentsHold'
      BY <1>2, <2>2, ComparedOnce
    <2>4. UNCHANGED <<packet, refrozen>>
      BY DEF CompareFiles, people
    <2>5. host.checked = 0
      BY DEF CompareFiles, SessionInv, HostInv
    <2> QED  BY <1>1, <2>2, <2>3, <2>4, <2>5 DEF HostInv
  <1>3. CASE ~CommitmentsHold
    BY <1>3, RefusedKeeps DEF CompareFiles
  <1> QED  BY <1>2, <1>3

\* The episode of a compared assignment is one that the manifest has.
LEMMA AssignmentsKnown ==
    ASSUME SessionInv, host.at \notin Reading, NEW i \in 1 .. Everything
    PROVE  /\ Assignment(i).episode \in Episodes
           /\ host.schedule = host.packet.schedule /\ host.candidate = host.packet.candidate
           /\ \A j \in 1 .. Everything : Assignment(i).alias = Assignment(j).alias => i = j
  <1>1. CommitmentsHold /\ host.candidate \in Files
    BY DEF SessionInv, HostInv, Reading
  <1> QED  BY <1>1 DEF CommitmentsHold, Assignment, Files

LEMMA CheckAssetKeeps ==
    ASSUME SessionInv, CheckAsset
    PROVE  SessionInv'
  <1> SUFFICES HostInv'
    BY OnlyServer DEF CheckAsset
  <1> USE DEF Off
  <1> DEFINE i == host.checked + 1
  <1>1. CASE AssetDrifts(i)
    BY <1>1, RefusedKeeps DEF CheckAsset
  <1>2. CASE ~AssetDrifts(i)
    <2>1. host.at = "assets" /\ UNCHANGED <<packet, refrozen, asset, disturbed>>
      BY DEF CheckAsset, people
    <2>2. /\ DOMAIN host = HostFields /\ host.candidate \in Files /\ CommitmentsHold
          /\ host.checked \in Nat
          /\ \A k \in 1 .. Everything :
                k <= host.checked => SeenIn(host.packet, k, asset[Assignment(k).episode])
          /\ ~refrozen => host.packet = packet
      BY <2>1 DEF SessionInv, HostInv, Reading
    <2>3. host' = [host EXCEPT !.checked = i, !.at = IF i = Everything THEN "authorise" ELSE @]
      BY <1>2 DEF CheckAsset
    <2>4. /\ DOMAIN host' = HostFields /\ host'.checked = i
          /\ host'.at = IF i = Everything THEN "authorise" ELSE "assets"
          /\ host'.packet = host.packet /\ host'.candidate = host.candidate
          /\ host'.aliases = host.aliases /\ host'.schedule = host.schedule
      BY <2>1, <2>2, <2>3 DEF HostFields
    <2>5. CommitmentsHold'
      BY <2>2, <2>4, ComparedOnce
    <2>6. ASSUME NEW k \in 1 .. Everything, k <= host'.checked
          PROVE  SeenIn(host.packet, k, asset[Assignment(k).episode])
      <3>1. CASE k = i
        BY <1>2, <2>2, <3>1 DEF AssetDrifts, SeenIn, CommitmentsHold, Assignment
      <3>2. CASE k # i
        BY <2>2, <2>4, <2>6, <3>2
      <3> QED  BY <3>1, <3>2
    <2>7. \A k \in 1 .. Everything :
             k <= host'.checked => SeenIn(host.packet, k, asset[Assignment(k).episode])'
      BY <2>1, <2>4, <2>6 DEF SeenIn, Assignment
    <2> QED  BY <2>1, <2>2, <2>4, <2>5, <2>7 DEF HostInv, Reading
  <1> QED  BY <1>1, <1>2

\* A step of the server that reads nothing but the authorization.
LEMMA CheckedOnce ==
    ASSUME SessionInv, UNCHANGED people, DOMAIN host' = HostFields,
           host.at \in {"authorise", "digest"}, host'.at \in {"digest", "serving"},
           host'.packet = host.packet, host'.candidate = host.candidate,
           host'.aliases = host.aliases, host'.schedule = host.schedule,
           host'.checked = host.checked,
           Authorised(host.authority)', Whole(host'.authority),
           host'.at = "digest" /\ ~reissued' => host'.authority = authority',
           host'.at = "serving" /\ ~reissued' => host'.digest = host'.authority
    PROVE  HostInv'
  <1>1. /\ host.candidate \in Files /\ CommitmentsHold /\ host.checked = Everything
        /\ host.checked \in Nat
        /\ \A k \in 1 .. Everything :
              k <= host.checked => SeenIn(host.packet, k, asset[Assignment(k).episode])
        /\ ~refrozen => host.packet = packet
    BY DEF SessionInv, HostInv, Reading
  <1>2. CommitmentsHold'
    BY <1>1, ComparedOnce
  <1>3. \A k \in 1 .. Everything :
           k <= host'.checked => SeenIn(host.packet, k, asset[Assignment(k).episode])'
    BY <1>1 DEF SeenIn, Assignment, people
  <1> QED  BY <1>1, <1>2, <1>3 DEF HostInv, Reading, people, Off, Whole

LEMMA ValidateAuthorityKeeps ==
    ASSUME SessionInv, ValidateAuthority
    PROVE  SessionInv'
  <1> SUFFICES HostInv'
    BY OnlyServer DEF ValidateAuthority
  <1>1. CASE authority # Missing /\ Authorised(authority)
    <2>1. DOMAIN host = HostFields /\ host.at = "authorise"
      BY DEF ValidateAuthority, SessionInv, HostInv, Off
    <2>2. host' = [host EXCEPT !.at = "digest", !.authority = authority]
      BY <1>1 DEF ValidateAuthority
    <2>3. /\ DOMAIN host' = HostFields /\ host'.at = "digest" /\ host'.authority = authority
          /\ host'.packet = host.packet /\ host'.candidate = host.candidate
          /\ host'.aliases = host.aliases /\ host'.schedule = host.schedule
          /\ host'.checked = host.checked
      BY <2>1, <2>2 DEF HostFields
    <2>4. Whole(authority)
      BY <1>1 DEF SessionInv, AuthorityInv
    <2>5. Authorised(host.authority)' /\ Whole(host'.authority)
      BY <1>1, <2>3, <2>4 DEF Authorised
    <2>6. UNCHANGED people
      BY DEF ValidateAuthority
    <2>7. authority' = authority
      BY <2>6 DEF people
    <2> QED  BY <2>1, <2>3, <2>5, <2>6, <2>7, CheckedOnce
  <1>2. CASE ~(authority # Missing /\ Authorised(authority))
    BY <1>2, RefusedKeeps DEF ValidateAuthority
  <1> QED  BY <1>1, <1>2

LEMMA ReadDigestKeeps ==
    ASSUME SessionInv, ReadDigest
    PROVE  SessionInv'
  <1> SUFFICES HostInv'
    BY OnlyServer DEF ReadDigest
  <1>1. /\ DOMAIN host = HostFields /\ host.at = "digest"
        /\ Authorised(host.authority) /\ Whole(host.authority)
        /\ ~reissued => host.authority = authority
    BY DEF ReadDigest, SessionInv, HostInv, Off
  <1>2. host' = [host EXCEPT !.at = "serving", !.digest = authority]
    BY DEF ReadDigest
  <1>3. /\ DOMAIN host' = HostFields /\ host'.at = "serving" /\ host'.digest = authority
        /\ host'.packet = host.packet /\ host'.candidate = host.candidate
        /\ host'.aliases = host.aliases /\ host'.schedule = host.schedule
        /\ host'.checked = host.checked /\ host'.authority = host.authority
    BY <1>1, <1>2 DEF HostFields
  <1>4. Authorised(host.authority)' /\ Whole(host'.authority)
    BY <1>1, <1>3 DEF Authorised
  <1>5. UNCHANGED people
    BY DEF ReadDigest
  <1>6. reissued' = reissued
    BY <1>5 DEF people
  <1> QED  BY <1>1, <1>3, <1>4, <1>5, <1>6, CheckedOnce

----------------------------------------------------------------------------
(* RatingSession: people                                                   *)

\* What people do to files leaves a server's knowledge as it was, if what they
\* change is in the history.
LEMMA HostWaits ==
    ASSUME SessionInv, host' = host, disturbed \subseteq disturbed',
           reissued => reissued', refrozen => refrozen',
           ~refrozen' /\ host.at \notin {"off", "packet"} => packet' = packet,
           host.at = "digest" /\ ~reissued' => authority' = authority,
           \A e \in Episodes :
              host.at \notin Reading => asset'[e] = asset[e] \/ e \in disturbed'
    PROVE  HostInv'
  <1>1. CommitmentsHold' <=> CommitmentsHold
    BY ComparedOnce
  <1>2. ASSUME host.at \notin Reading, NEW i \in 1 .. Everything, i <= host.checked
        PROVE  SeenIn(host.packet, i, asset[Assignment(i).episode])'
    <2>1. Assignment(i).episode \in Episodes /\ host.schedule = host.packet.schedule
      BY <1>2, AssignmentsKnown
    <2>2. SeenIn(host.packet, i, asset[Assignment(i).episode])
      BY <1>2 DEF SessionInv, HostInv
    <2> QED  BY <1>2, <2>1, <2>2 DEF SeenIn, Assignment
  <1>3. host.at \in {"digest", "serving"} =>
           (Authorised(host.authority)' <=> Authorised(host.authority))
    BY DEF Authorised
  <1> QED  BY <1>1, <1>2, <1>3 DEF SessionInv, HostInv, Whole

LEMMA EditAssetKeeps ==
    ASSUME SessionInv, NEW e \in Episodes, EditAsset(e)
    PROVE  SessionInv'
  <1>1. /\ UNCHANGED <<host, page, ratings, response, candidate, packet, authority>>
        /\ reissued' = reissued /\ refrozen' = refrozen
        /\ disturbed \subseteq disturbed'
        /\ host.at \notin Reading => e \in disturbed'
    BY DEF EditAsset, Turn, Running, Reading
  <1>2. asset \in Files /\ asset' = [asset EXCEPT ![e] = @ + EpisodeCount]
    BY DEF EditAsset, SessionInv, SessionTypeInv
  <1>3. asset' \in Files /\ \A f \in Episodes : f # e => asset'[f] = asset[f]
    BY <1>2, RatingSessionAssumption DEF Files
  <1>4. SessionTypeInv' /\ AuthorityInv'
    BY <1>1, <1>3 DEF SessionInv, SessionTypeInv, AuthorityInv
  <1>5. HostInv'
    BY <1>1, <1>3, HostWaits
  <1>6. PagesInv' /\ RatingsInv' /\ ResponseIsFrozenSession'
    BY <1>1, OnlyHistoryGrows DEF SessionInv
  <1> QED  BY <1>4, <1>5, <1>6 DEF SessionInv

LEMMA PrepareKeeps ==
    ASSUME SessionInv, RebuildCandidate \/ \E s \in Secrets, k \in 1 .. 3 : GenerateCustody(s, k)
    PROVE  SessionInv'
  <1>1. /\ UNCHANGED <<host, page, ratings, response, asset, packet, authority>>
        /\ reissued' = reissued /\ refrozen' = refrozen /\ disturbed' = disturbed
        /\ candidate' \in {candidate, asset}
    BY DEF RebuildCandidate, GenerateCustody, Turn
  <1>2. SessionTypeInv' /\ AuthorityInv'
    BY <1>1 DEF SessionInv, SessionTypeInv, AuthorityInv
  <1>3. HostInv'
    BY <1>1, HostWaits
  <1>4. PagesInv' /\ RatingsInv' /\ ResponseIsFrozenSession'
    BY <1>1, OnlyHistoryGrows DEF SessionInv
  <1> QED  BY <1>2, <1>3, <1>4 DEF SessionInv

LEMMA FreezeKeeps ==
    ASSUME SessionInv, NEW d, Freeze(d)
    PROVE  SessionInv'
  <1>1. /\ UNCHANGED <<host, page, ratings, response, asset, candidate, authority>>
        /\ reissued' = reissued /\ disturbed' = disturbed
        /\ refrozen => refrozen'
        /\ host.at \notin {"off", "packet"} => refrozen'
        /\ refrozen' \in BOOLEAN
        /\ ~refrozen' => ratings = <<>> /\ \A t \in RaterTabs : page[t] = Closed
    BY DEF Freeze, Turn
  <1>2. SessionTypeInv' /\ AuthorityInv'
    BY <1>1 DEF SessionInv, SessionTypeInv, AuthorityInv
  <1>3. HostInv'
    BY <1>1, HostWaits
  <1>4. PagesInv'
    BY <1>1 DEF PagesInv, Closed
  <1>5. RatingsInv'
    BY <1>1 DEF RatingsInv
  <1>6. ResponseIsFrozenSession'
    BY <1>1 DEF SessionInv, ResponseIsFrozenSession
  <1> QED  BY <1>2, <1>3, <1>4, <1>5, <1>6 DEF SessionInv

LEMMA AuthoriseKeeps ==
    ASSUME SessionInv, NEW route, NEW limit, Authorise(route, limit)
    PROVE  SessionInv'
  <1>1. /\ UNCHANGED <<host, page, ratings, response, asset, candidate, packet>>
        /\ refrozen' = refrozen /\ disturbed' = disturbed
        /\ reissued' = (reissued \/ host.at = "digest")
        /\ Whole(authority')
    BY DEF Authorise, Turn, Whole
  <1>2. SessionTypeInv' /\ AuthorityInv'
    BY <1>1 DEF SessionInv, SessionTypeInv, AuthorityInv, Whole
  <1>3. HostInv'
    BY <1>1, HostWaits
  <1>4. PagesInv' /\ RatingsInv' /\ ResponseIsFrozenSession'
    BY <1>1, OnlyHistoryGrows DEF SessionInv
  <1> QED  BY <1>2, <1>3, <1>4 DEF SessionInv

----------------------------------------------------------------------------
(* RatingSession: the browser                                              *)

\* A server that serves has the packet's assignments, as many as its limit.
LEMMA WhatIsServed ==
    ASSUME SessionInv, host.at = "serving"
    PROVE  /\ Everything \in Nat /\ Limit \in 0 .. Everything
           /\ host.candidate = host.packet.candidate /\ host.schedule = host.packet.schedule
           /\ ~refrozen => host.packet = packet
           /\ \A i \in 1 .. Everything :
                 SeenIn(host.packet, i, asset[Assignment(i).episode])
           /\ \A i, j \in 1 .. Everything : Assignment(i).alias = Assignment(j).alias => i = j
           /\ Whole(host.authority) /\ host.authority.freeze = host.packet.freeze
           /\ ~reissued => host.digest = host.authority
  <1>1. /\ CommitmentsHold /\ host.checked = Everything
        /\ \A i \in 1 .. Everything :
              i <= host.checked => SeenIn(host.packet, i, asset[Assignment(i).episode])
        /\ Authorised(host.authority) /\ Whole(host.authority)
        /\ ~refrozen => host.packet = packet
        /\ ~reissued => host.digest = host.authority
    BY DEF SessionInv, HostInv, Reading
  <1>2. Everything \in Nat /\ \A limit \in Short : limit \in 0 .. Everything
    <2>1. Everything \in Nat /\ Short \subseteq 1 .. Everything
      BY RatingSessionAssumption DEF Everything
    <2> QED  BY <2>1
  <1>3. host.authority.limit \in Short \cup {Everything}
        /\ host.authority.freeze = host.packet.freeze
    BY <1>1 DEF Authorised
  <1>4. Limit \in 0 .. Everything
    <2>1. CASE host.authority.limit \in Short
      BY <1>2, <2>1 DEF Limit
    <2>2. CASE host.authority.limit = Everything
      BY <1>2, <2>2 DEF Limit
    <2> QED  BY <1>3, <2>1, <2>2
  <1>5. \A i \in 1 .. Everything : SeenIn(host.packet, i, asset[Assignment(i).episode])
    BY <1>1
  <1> QED  BY <1>1, <1>2, <1>3, <1>4, <1>5 DEF CommitmentsHold, Assignment

LEMMA OpenPageKeeps ==
    ASSUME SessionInv, NEW t \in RaterTabs, OpenPage(t)
    PROVE  SessionInv'
  <1> DEFINE new == [at |-> "open", aliases |-> [i \in 1 .. Limit |-> Assignment(i).alias],
                     index |-> Len(ratings) + 1, seen |-> Missing]
  <1>1. /\ UNCHANGED <<host, ratings, response>> /\ UNCHANGED people
        /\ host.at = "serving" /\ page' = [page EXCEPT ![t] = new]
    BY DEF OpenPage
  <1>2. /\ DOMAIN new = {"at", "aliases", "index", "seen"} /\ new.at = "open"
        /\ new.seen = Missing /\ DOMAIN new.aliases = 1 .. Limit
        /\ \A i \in 1 .. Limit : new.aliases[i] = Assignment(i).alias
    OBVIOUS
  <1> HIDE DEF new
  <1>3. /\ DOMAIN page' = RaterTabs /\ page'[t] = new
        /\ \A u \in RaterTabs : u # t => page'[u] = page[u]
    BY <1>1 DEF SessionInv, SessionTypeInv
  <1>4. SessionTypeInv' /\ AuthorityInv'
    BY <1>1, <1>2, <1>3 DEF SessionInv, SessionTypeInv, AuthorityInv, people
  <1>5. HostInv'
    BY <1>1, HostWaits DEF people
  <1>6. PagesInv'
    <2> SUFFICES ASSUME ~refrozen', NEW u \in RaterTabs, page'[u].at = "open"
                 PROVE  /\ DOMAIN page'[u].aliases \subseteq 1 .. Everything
                        /\ \A i \in DOMAIN page'[u].aliases :
                              page'[u].aliases[i] = packet'.schedule.assignments[i].alias
                        /\ page'[u].seen # Missing /\ page'[u].index \in DOMAIN page'[u].aliases =>
                              SeenIn(packet, page[u].index, page[u].seen)'
      BY DEF PagesInv
    <2>1. CASE u = t
      <3>1. 1 .. Limit \subseteq 1 .. Everything /\ host.schedule = packet.schedule
        BY <1>1, WhatIsServed DEF people
      <3> QED  BY <1>1, <1>2, <1>3, <2>1, <3>1 DEF Assignment, people
    <2>2. CASE u # t
      BY <1>1, <1>3, <2>2 DEF SessionInv, PagesInv, SeenIn, people
    <2> QED  BY <2>1, <2>2
  <1>7. RatingsInv' /\ ResponseIsFrozenSession'
    BY <1>1 DEF SessionInv, RatingsInv, SeenIn, ResponseIsFrozenSession, people
  <1> QED  BY <1>4, <1>5, <1>6, <1>7 DEF SessionInv

LEMMA ShowImagesKeeps ==
    ASSUME SessionInv, NEW t \in RaterTabs, ShowImages(t)
    PROVE  SessionInv'
  <1>1. /\ UNCHANGED <<host, ratings, response>> /\ UNCHANGED people
        /\ host.at = "serving" /\ page[t].at = "open" /\ page[t].index \in DOMAIN page[t].aliases
        /\ page' = [page EXCEPT ![t].seen = asset[Assignment(page[t].index).episode]]
    BY DEF ShowImages, Asking
  <1>2. DOMAIN page[t] = {"at", "aliases", "index", "seen"} /\ DOMAIN page = RaterTabs
    BY <1>1 DEF SessionInv, SessionTypeInv, Closed
  <1>3. /\ DOMAIN page' = RaterTabs /\ DOMAIN page'[t] = {"at", "aliases", "index", "seen"}
        /\ page'[t].at = "open" /\ page'[t].aliases = page[t].aliases
        /\ page'[t].index = page[t].index
        /\ page'[t].seen = asset[Assignment(page[t].index).episode]
        /\ \A u \in RaterTabs : u # t => page'[u] = page[u]
    BY <1>1, <1>2
  <1>4. SessionTypeInv' /\ AuthorityInv'
    BY <1>1, <1>3 DEF SessionInv, SessionTypeInv, AuthorityInv, people
  <1>5. HostInv'
    BY <1>1, HostWaits DEF people
  <1>6. PagesInv'
    <2> SUFFICES ASSUME ~refrozen', NEW u \in RaterTabs, page'[u].at = "open"
                 PROVE  /\ DOMAIN page'[u].aliases \subseteq 1 .. Everything
                        /\ \A i \in DOMAIN page'[u].aliases :
                              page'[u].aliases[i] = packet'.schedule.assignments[i].alias
                        /\ page'[u].seen # Missing /\ page'[u].index \in DOMAIN page'[u].aliases =>
                              SeenIn(packet, page[u].index, page[u].seen)'
      BY DEF PagesInv
    <2>1. CASE u = t
      <3>1. /\ DOMAIN page[t].aliases \subseteq 1 .. Everything
            /\ \A i \in DOMAIN page[t].aliases :
                  page[t].aliases[i] = packet.schedule.assignments[i].alias
        BY <1>1 DEF SessionInv, PagesInv, people
      <3>2. SeenIn(packet, page[t].index, asset[Assignment(page[t].index).episode])
        BY <1>1, <3>1, WhatIsServed DEF people
      <3> QED  BY <1>1, <1>3, <2>1, <3>1, <3>2 DEF SeenIn, people
    <2>2. CASE u # t
      BY <1>1, <1>3, <2>2 DEF SessionInv, PagesInv, SeenIn, people
    <2> QED  BY <2>1, <2>2
  <1>7. RatingsInv' /\ ResponseIsFrozenSession'
    BY <1>1 DEF SessionInv, RatingsInv, SeenIn, ResponseIsFrozenSession, people
  <1> QED  BY <1>4, <1>5, <1>6, <1>7 DEF SessionInv

\* The assignment a page asks about, if its post is accepted, is the next one.
LEMMA AcceptedIsNext ==
    ASSUME SessionInv, ~refrozen, NEW t \in RaterTabs,
           host.at = "serving", Asking(t), page[t].seen # Missing, Accepts(Row(t))
    PROVE  LET n == Len(ratings) + 1 IN
           /\ n \in 1 .. Everything
           /\ Row(t).alias = packet.schedule.assignments[n].alias
           /\ SeenIn(packet, n, Row(t).seen)
  <1> DEFINE n == Len(ratings) + 1
             i == page[t].index
  <1>1. /\ Everything \in Nat /\ Limit \in 0 .. Everything /\ host.schedule = packet.schedule
        /\ \A j, k \in 1 .. Everything : Assignment(j).alias = Assignment(k).alias => j = k
    BY WhatIsServed
  <1>2. Len(ratings) \in Nat
    BY LenProperties DEF SessionInv, SessionTypeInv
  <1>3. n \in 1 .. Everything /\ Row(t).alias = Assignment(n).alias
    BY <1>1, <1>2 DEF Accepts
  <1>4. /\ i \in 1 .. Everything /\ page[t].aliases[i] = packet.schedule.assignments[i].alias
        /\ SeenIn(packet, i, page[t].seen)
    BY DEF Asking, SessionInv, PagesInv
  <1>5. i = n
    BY <1>1, <1>3, <1>4 DEF Row, Assignment
  <1> QED  BY <1>1, <1>3, <1>4, <1>5 DEF Row, Assignment

LEMMA PostRatingKeeps ==
    ASSUME SessionInv, NEW t \in RaterTabs, PostRating(t)
    PROVE  SessionInv'
  <1> DEFINE n == Len(ratings) + 1
             last == n = Limit
             route == host.authority.route
  <1>1. /\ UNCHANGED host /\ UNCHANGED people /\ host.at = "serving"
        /\ page[t].at = "open" /\ Asking(t) /\ page[t].seen # Missing /\ Accepts(Row(t))
        /\ ratings' = Append(ratings, Row(t))
    BY DEF PostRating, Asking
  <1>2. DOMAIN page[t] = {"at", "aliases", "index", "seen"} /\ DOMAIN page = RaterTabs
    BY <1>1 DEF SessionInv, SessionTypeInv, Closed
  <1>3. \/ page' = page
        \/ page' = [page EXCEPT ![t].index = Len(ratings) + 2, ![t].seen = Missing]
    BY DEF PostRating
  <1>4. /\ DOMAIN page' = RaterTabs /\ DOMAIN page'[t] = {"at", "aliases", "index", "seen"}
        /\ page'[t].at = "open" /\ page'[t].aliases = page[t].aliases
        /\ page'[t] = page[t] \/ page'[t].seen = Missing
        /\ \A u \in RaterTabs : u # t => page'[u] = page[u]
    BY <1>1, <1>2, <1>3
  <1>5. /\ Len(ratings) \in Nat /\ DOMAIN ratings = 1 .. Len(ratings)
        /\ DOMAIN ratings' = 1 .. n /\ Len(ratings') = n
        /\ \A i \in 1 .. Len(ratings) : ratings'[i] = ratings[i]
        /\ ratings'[n] = Row(t)
        /\ ratings' \in Seq({ratings'[i] : i \in DOMAIN ratings'})
    <2> DEFINE Old == {ratings[i] : i \in DOMAIN ratings}
    <2>1. ratings \in Seq(Old)
      BY DEF SessionInv, SessionTypeInv
    <2> HIDE DEF Old
    <2>2. ratings \in Seq(Old \cup {Row(t)})
      BY <2>1, SeqMonotonic
    <2>3. /\ ratings' \in Seq(Old \cup {Row(t)}) /\ Len(ratings') = n
          /\ \A i \in 1 .. Len(ratings) : ratings'[i] = ratings[i]
          /\ ratings'[n] = Row(t)
      BY <1>1, <2>2, AppendProperties
    <2>4. Len(ratings) \in Nat /\ DOMAIN ratings = 1 .. Len(ratings) /\ DOMAIN ratings' = 1 .. n
      BY <2>1, <2>3, LenProperties
    <2>5. ratings' \in Seq({ratings'[i] : i \in DOMAIN ratings'})
      BY <2>3, <2>4, SeqOfRange, RangeOfSeq
    <2> QED  BY <2>3, <2>4, <2>5
  <1>6. /\ DOMAIN response' = Routes
        /\ \A r \in Routes :
              \/ response'[r] = response[r]
              \/ r = route /\ last /\ response'[r] = FinalPayload(ratings')
    <2>1. DOMAIN response = Routes
      BY DEF SessionInv, SessionTypeInv
    <2>2. \/ response' = response
          \/ last /\ response' = [response EXCEPT ![route] = FinalPayload(ratings')]
      BY DEF PostRating
    <2> HIDE DEF route, last
    <2>3. CASE response' = response
      BY <2>1, <2>3
    <2>4. CASE last /\ response' = [response EXCEPT ![route] = FinalPayload(ratings')]
      <3> DEFINE payload == FinalPayload(ratings')
      <3>1. response' = [response EXCEPT ![route] = payload]
        BY <2>4
      <3> HIDE DEF payload
      <3>2. DOMAIN response' = Routes
        BY <2>1, <3>1
      <3>3. \A r \in Routes :
               \/ response'[r] = response[r]
               \/ r = route /\ response'[r] = payload
        BY <2>1, <3>1
      <3> QED  BY <2>4, <3>2, <3>3 DEF payload
    <2> QED  BY <2>2, <2>3, <2>4
  <1>7. SessionTypeInv' /\ AuthorityInv'
    <2>1. \A u \in RaterTabs :
             \/ page'[u] = Closed
             \/ DOMAIN page'[u] = {"at", "aliases", "index", "seen"} /\ page'[u].at = "open"
      BY <1>4 DEF SessionInv, SessionTypeInv
    <2>2. UNCHANGED people
      BY <1>1
    <2> QED  BY <1>4, <1>5, <1>6, <2>1, <2>2 DEF SessionInv, SessionTypeInv, AuthorityInv, people
  <1>8. HostInv'
    BY <1>1, HostWaits DEF people
  <1>9. PagesInv'
    <2> SUFFICES ASSUME ~refrozen', NEW u \in RaterTabs, page'[u].at = "open"
                 PROVE  /\ DOMAIN page'[u].aliases \subseteq 1 .. Everything
                        /\ \A i \in DOMAIN page'[u].aliases :
                              page'[u].aliases[i] = packet'.schedule.assignments[i].alias
                        /\ page'[u].seen # Missing /\ page'[u].index \in DOMAIN page'[u].aliases =>
                              SeenIn(packet, page[u].index, page[u].seen)'
      BY DEF PagesInv
    <2>1. UNCHANGED <<packet, disturbed, refrozen>>
      BY <1>1 DEF people
    <2>2. CASE page'[u] = page[u]
      BY <2>1, <2>2 DEF SessionInv, PagesInv, SeenIn
    <2>3. CASE page'[u] # page[u]
      BY <1>1, <1>4, <2>1, <2>3 DEF SessionInv, PagesInv
    <2> QED  BY <2>2, <2>3
  <1>10. ASSUME ~refrozen, NEW i \in 1 .. n
         PROVE  /\ ratings'[i].alias = packet.schedule.assignments[i].alias
                /\ SeenIn(packet, i, ratings'[i].seen)
    <2>1. CASE i = n
      BY <1>1, <1>5, <1>10, <2>1, AcceptedIsNext
    <2>2. CASE i # n
      <3>1. i \in 1 .. Len(ratings)
        BY <1>5, <2>2
      <3> QED  BY <1>5, <1>10, <3>1 DEF SessionInv, RatingsInv
    <2> QED  BY <2>1, <2>2
  <1>11. UNCHANGED <<packet, disturbed, refrozen, reissued>>
    BY <1>1 DEF people
  <1>12. RatingsInv'
    BY <1>5, <1>10, <1>11 DEF RatingsInv, SeenIn
  <1>13. ResponseIsFrozenSession'
    <2> SUFFICES ASSUME NEW r \in Routes, response'[r] # Missing
                 PROVE  LET final == response'[r] IN
                        /\ final.route = r
                        /\ Len(final.rows) = final.limit
                        /\ ~reissued => final.digest =
                              [freeze |-> final.freeze, route |-> r, limit |-> final.limit]
                        /\ ~refrozen => \A i \in DOMAIN final.rows :
                              LET a == final.schedule.assignments[i] IN
                              /\ final.rows[i].alias = a.alias
                              /\ \/ a.episode \in disturbed
                                 \/ final.rows[i].seen = final.candidate[a.episode]
      BY <1>11 DEF ResponseIsFrozenSession
    <2>1. CASE response'[r] = response[r]
      BY <2>1 DEF SessionInv, ResponseIsFrozenSession
    <2>2. CASE r = route /\ last /\ response'[r] = FinalPayload(ratings')
      <3> DEFINE final == response'[r]
      <3>1. /\ final.route = r /\ final.limit = n /\ final.rows = ratings'
            /\ final.freeze = host.packet.freeze /\ final.digest = host.digest
            /\ final.candidate = host.candidate /\ final.schedule = host.schedule
            /\ host.authority.limit = n /\ host.authority.route = r
        BY <2>2 DEF FinalPayload, Limit
      <3> HIDE DEF final
      <3>2. /\ Whole(host.authority) /\ host.authority.freeze = host.packet.freeze
            /\ ~reissued => host.digest = host.authority
            /\ host.candidate = host.packet.candidate /\ host.schedule = host.packet.schedule
            /\ ~refrozen => host.packet = packet
        BY <1>1, WhatIsServed
      <3>3. Len(final.rows) = final.limit
        BY <1>5, <3>1
      <3>4. ~reissued => final.digest =
               [freeze |-> final.freeze, route |-> r, limit |-> final.limit]
        BY <3>1, <3>2 DEF Whole
      <3>5. ASSUME ~refrozen, NEW i \in DOMAIN final.rows
            PROVE  LET a == final.schedule.assignments[i] IN
                   /\ final.rows[i].alias = a.alias
                   /\ \/ a.episode \in disturbed
                      \/ final.rows[i].seen = final.candidate[a.episode]
        BY <1>5, <1>10, <3>1, <3>2, <3>5 DEF SeenIn
      <3> QED  BY <3>1, <3>3, <3>4, <3>5 DEF final
    <2> QED  BY <1>6, <2>1, <2>2
  <1> QED  BY <1>7, <1>8, <1>9, <1>12, <1>13 DEF SessionInv

----------------------------------------------------------------------------
(* RatingSession: the theorem                                              *)

LEMMA SessionStep ==
    ASSUME SessionInv, [SessionNext]_sessionVars
    PROVE  SessionInv'
  <1>1. CASE People
    BY <1>1, EditAssetKeeps, PrepareKeeps, FreezeKeeps, AuthoriseKeeps DEF People
  <1>2. CASE Server
    <2>1. CASE Stop
      <3>1. HostInv'
        BY <2>1, RefusedKeeps DEF Stop
      <3> QED  BY <2>1, <3>1, OnlyServer DEF Stop
    <2> QED
      BY <1>2, <2>1, LaunchKeeps, ReadFileKeeps, CompareFilesKeeps, CheckAssetKeeps,
         ValidateAuthorityKeeps, ReadDigestKeeps DEF Server
  <1>3. CASE Rater
    BY <1>3, OpenPageKeeps, ShowImagesKeeps, PostRatingKeeps DEF Rater
  <1>4. CASE UNCHANGED sessionVars
    <2> USE <1>4 DEF sessionVars
    <2>1. HostInv'
      BY HostWaits
    <2> QED  BY <2>1, OnlyServer DEF people
  <1> QED  BY <1>1, <1>2, <1>3, <1>4 DEF SessionNext

\* t14_frozen_steward_app.py, with any custody secrets and number of episodes,
\* tabs, servers one after the other, edits and freezes: a final response holds
\* what its freeze froze, but for what the property names.
THEOREM ResponseFrozen ==
    SessionSpec => []ResponseIsFrozenSession
  <1>1. SessionInit => SessionInv
    BY SessionStarts
  <1>2. SessionInv /\ [SessionNext]_sessionVars => SessionInv'
    BY SessionStep
  <1>3. SessionInv => ResponseIsFrozenSession
    BY DEF SessionInv
  <1> QED  BY <1>1, <1>2, <1>3, PTL DEF SessionSpec

=============================================================================
