---------------------------- MODULE ToolRun_proofs ----------------------------
(***************************************************************************)
(* Lemmas about ToolRun: what is left of a program at each of its          *)
(* operations, with other operations pushed in front of it or not.         *)
(***************************************************************************)
EXTENDS ToolRun, SequenceTheorems, TLAPS

-----------------------------------------------------------------------------
(* What is left of a program.                                              *)

Rest(c, n) == SubSeq(c, Len(c) - n + 1, Len(c))

(* The finally block has come some way through its operations.             *)
Undoing(c) == Len(todo) \in 0..Len(c) /\ todo = Rest(c, Len(todo))

LEMMA RestParts ==
  ASSUME NEW S, NEW c \in Seq(S), NEW n \in 1..Len(c)
  PROVE  /\ Len(Rest(c, n)) = n
         /\ Rest(c, n) # <<>>
         /\ Head(Rest(c, n)) = c[Len(c) - n + 1]
         /\ Tail(Rest(c, n)) = Rest(c, n - 1)
<1>1. Len(c) \in Nat /\ n \in Nat /\ n >= 1 /\ n <= Len(c)
  OBVIOUS
<1>2. Rest(c, n) \in Seq(S) /\ Len(Rest(c, n)) = n
  BY <1>1 DEF Rest
<1>3. \A i \in 1..n : Rest(c, n)[i] = c[Len(c) - n + i]
  BY <1>1 DEF Rest
<1>4. Rest(c, n) # <<>>
  BY <1>1, <1>2
<1>5. Head(Rest(c, n)) = c[Len(c) - n + 1]
  BY <1>1, <1>2, <1>3
<1>6. Tail(Rest(c, n)) = Rest(c, n - 1)
  <2>1. Rest(c, n - 1) \in Seq(S) /\ Len(Rest(c, n - 1)) = n - 1
    BY <1>1 DEF Rest
  <2>2. \A i \in 1..(n - 1) : Rest(c, n - 1)[i] = c[Len(c) - n + 1 + i]
    BY <1>1 DEF Rest
  <2>3. Tail(Rest(c, n)) \in Seq(S) /\ Len(Tail(Rest(c, n))) = n - 1
    BY <1>1, <1>2, <1>4
  <2>4. \A i \in 1..(n - 1) : Tail(Rest(c, n))[i] = Rest(c, n)[i + 1]
    BY <1>1, <1>2, <1>4
  <2>5. \A i \in 1..(n - 1) : Tail(Rest(c, n))[i] = Rest(c, n - 1)[i]
    <3> SUFFICES ASSUME NEW i \in 1..(n - 1)
                 PROVE  Tail(Rest(c, n))[i] = Rest(c, n - 1)[i]
      OBVIOUS
    <3>1. Tail(Rest(c, n))[i] = Rest(c, n)[i + 1]
      BY <2>4
    <3>2. Rest(c, n)[i + 1] = c[Len(c) - n + (i + 1)]
      BY <1>1, <1>3
    <3>3. Rest(c, n - 1)[i] = c[Len(c) - n + 1 + i]
      BY <2>2
    <3>4. Len(c) - n + (i + 1) = Len(c) - n + 1 + i
      BY <1>1
    <3>5. QED
      BY <3>1, <3>2, <3>3, <3>4
  <2> DEFINE t == Tail(Rest(c, n))
             r == Rest(c, n - 1)
             m == n - 1
  <2>6. m \in Nat /\ t \in Seq(S) /\ r \in Seq(S) /\ Len(t) = m /\ Len(r) = m
        /\ \A i \in 1..m : t[i] = r[i]
    BY <1>1, <2>1, <2>3, <2>5
  <2> HIDE DEF t, r, m
  <2>7. t = r
    BY <2>6
  <2>8. QED
    BY <2>7 DEF t, r
<1>7. QED
  BY <1>2, <1>4, <1>5, <1>6

LEMMA FirstIsHead ==
  ASSUME NEW S, NEW s \in Seq(S), Len(s) > 0
  PROVE  s # <<>> /\ Head(s) = s[1]
OBVIOUS

LEMMA PushOne ==
  ASSUME NEW S, NEW x, NEW s \in Seq(S)
  PROVE  /\ <<x>> \o s \in Seq(S \cup {x}) /\ <<x>> \o s # <<>>
         /\ Head(<<x>> \o s) = x /\ Tail(<<x>> \o s) = s
<1>1. s \in Seq(S \cup {x}) /\ <<x>> \in Seq(S \cup {x})
  OBVIOUS
<1> DEFINE T == S \cup {x}
           all == <<x>> \o s
<1> HIDE DEF T
<1>2. /\ all \in Seq(T) /\ Len(all) = 1 + Len(s)
      /\ \A i \in 1..(1 + Len(s)) : all[i] = IF i <= 1 THEN x ELSE s[i - 1]
  BY <1>1, ConcatProperties DEF T
<1> HIDE DEF all
<1>3. Len(all) > 0 /\ all[1] = x /\ Len(s) \in Nat
  BY <1>2
<1>4. all # <<>> /\ Head(all) = x
  BY <1>2, <1>3, FirstIsHead
<1>5. /\ Tail(all) \in Seq(T) /\ Len(Tail(all)) = Len(s)
      /\ \A i \in 1..Len(s) : Tail(all)[i] = all[i + 1]
  BY <1>2, <1>4, HeadTailProperties
<1>6. \A i \in 1..Len(s) : Tail(all)[i] = s[i]
  BY <1>2, <1>3, <1>5
<1>7. Tail(all) = s
  BY <1>1, <1>5, <1>6, SeqEqual DEF T
<1>8. QED
  BY <1>2, <1>4, <1>7 DEF T, all

LEMMA PushTwo ==
  ASSUME NEW S, NEW x, NEW y, NEW s \in Seq(S)
  PROVE  <<x, y>> \o s = <<x>> \o (<<y>> \o s)
<1> DEFINE T == S \cup {x, y}
<1>1. s \in Seq(T) /\ <<x>> \in Seq(T) /\ <<y>> \in Seq(T)
  OBVIOUS
<1>2. <<x, y>> = <<x>> \o <<y>>
  <2> DEFINE a == <<x>>
             b == <<y>>
             c == <<x, y>>
  <2>1. /\ Len(a) = 1 /\ a[1] = x /\ Len(b) = 1 /\ b[1] = y /\ b[2 - 1] = y
        /\ c \in Seq(T) /\ Len(c) = 2 /\ c[1] = x /\ c[2] = y
    OBVIOUS
  <2>2. a \in Seq(T) /\ b \in Seq(T)
    BY <1>1
  <2> HIDE DEF a, b, c, T
  <2>6. /\ a \o b \in Seq(T) /\ Len(a \o b) = Len(a) + Len(b)
        /\ \A i \in 1..Len(a) + Len(b) :
             (a \o b)[i] = IF i <= Len(a) THEN a[i] ELSE b[i - Len(a)]
    BY <2>2, ConcatProperties
  <2>3. /\ a \o b \in Seq(T) /\ Len(a \o b) = 2
        /\ (a \o b)[1] = x /\ (a \o b)[2] = y
    BY <2>1, <2>6
  <2>4. a \o b = c
    BY <2>1, <2>3, SeqEqual
  <2>5. QED
    BY <2>4 DEF a, b, c
<1>3. QED
  BY <1>1, <1>2, ConcatAssociative

LEMMA RestIsSeq ==
  ASSUME NEW S, NEW c \in Seq(S), NEW n \in 0..Len(c)
  PROVE  Rest(c, n) \in Seq(S) /\ Len(Rest(c, n)) = n
BY DEF Rest

LEMMA RestEnds ==
  ASSUME NEW S, NEW c \in Seq(S)
  PROVE  Rest(c, 0) = <<>> /\ Rest(c, Len(c)) = c
BY DEF Rest

LEMMA UndoingParts ==
  ASSUME NEW S, NEW c \in Seq(S), Undoing(c), todo # <<>>
  PROVE  /\ Len(todo) \in 1..Len(c) /\ Head(todo) = c[Len(c) - Len(todo) + 1]
         /\ <<>> \o Tail(todo) = Tail(todo)
         /\ Len(Tail(todo)) = Len(todo) - 1
         /\ Len(Tail(todo)) \in 0..Len(c) /\ Tail(todo) = Rest(c, Len(Tail(todo)))
<1>1. Len(todo) \in 1..Len(c)
  BY RestEnds DEF Undoing
<1>2. Tail(todo) = Rest(c, Len(todo) - 1) /\ Head(todo) = c[Len(c) - Len(todo) + 1]
  BY <1>1, RestParts DEF Undoing
<1>3. Len(todo) - 1 \in 0..Len(c)
  BY <1>1
<1>4. Tail(todo) \in Seq(S) /\ Len(Tail(todo)) = Len(todo) - 1
  BY <1>2, <1>3, RestIsSeq
<1>5. QED
  BY <1>1, <1>2, <1>3, <1>4

(* The three ways in which the clean-up goes on.                           *)
LEMMA UndoingNext ==
  ASSUME NEW S, NEW c \in Seq(S), Undoing(c), todo # <<>>,
         todo' = Tail(todo) \/ todo' = <<>> \o Tail(todo)
  PROVE  Undoing(c)' /\ Len(todo') = Len(todo) - 1
BY UndoingParts DEF Undoing, Rest

LEMMA UndoingOver ==
  ASSUME NEW S, NEW c \in Seq(S), todo' = <<>>
  PROVE  Undoing(c)' /\ Len(todo') = 0
BY RestEnds DEF Undoing, Rest

LEMMA UndoingStarts ==
  ASSUME NEW S, NEW c \in Seq(S), todo' = c
  PROVE  Undoing(c)' /\ Len(todo') = Len(c)
BY RestEnds DEF Undoing, Rest

-----------------------------------------------------------------------------
(* What is left of a program when its first operations have been done.     *)

(* What is left when the first d operations have been done.                *)
After(c, d) == SubSeq(c, d + 1, Len(c))

LEMMA AfterParts ==
  ASSUME NEW S, NEW c \in Seq(S), NEW d \in 0..Len(c), After(c, d) # <<>>
  PROVE  /\ d + 1 \in 1..Len(c)
         /\ Head(After(c, d)) = c[d + 1]
         /\ Tail(After(c, d)) = After(c, d + 1)
         /\ <<>> \o Tail(After(c, d)) = After(c, d + 1)
<1> DEFINE n == Len(c) - d
<1>1. Len(c) \in Nat /\ d \in Nat /\ n \in 0..Len(c) /\ Len(c) - n + 1 = d + 1
      /\ Len(c) - (n - 1) + 1 = d + 1 + 1
  OBVIOUS
<1>2. After(c, d) = Rest(c, n) /\ After(c, d + 1) = Rest(c, n - 1)
  BY <1>1 DEF After, Rest
<1>3. n # 0
  BY <1>2, RestEnds
<1> HIDE DEF n
<1>4. n \in 1..Len(c) /\ n - 1 \in 0..Len(c)
  BY <1>1, <1>3
<1>5. Rest(c, n - 1) \in Seq(S)
  BY <1>4, RestIsSeq
<1>6. Len(c) - n + 1 = d + 1 /\ d + 1 \in 1..Len(c)
  BY <1>1, <1>4
<1>7. /\ Head(Rest(c, n)) = c[d + 1] /\ Tail(Rest(c, n)) = Rest(c, n - 1)
  BY <1>4, <1>6, RestParts
<1>8. <<>> \o Rest(c, n - 1) = Rest(c, n - 1)
  BY <1>5
<1>9. QED
  BY <1>2, <1>6, <1>7, <1>8

LEMMA AfterIsSeq ==
  ASSUME NEW S, NEW c \in Seq(S), NEW d \in 0..Len(c)
  PROVE  After(c, d) \in Seq(S) /\ Len(After(c, d)) = Len(c) - d /\ <<>> \o After(c, d) = After(c, d)
BY DEF After

(* The operation that runs when d of them have been done.                  *)
LEMMA ProgramHead ==
  ASSUME NEW S, NEW c \in Seq(S), NEW d \in 0..Len(c), todo # <<>>, todo = After(c, d)
  PROVE  /\ d + 1 \in 1..Len(c) /\ d + 1 \in 0..Len(c) /\ Head(todo) = c[d + 1] /\ Head(todo) \in S
         /\ Tail(todo) = After(c, d + 1) /\ <<>> \o Tail(todo) = Tail(todo)
         /\ After(c, d + 1) \in Seq(S)
<1>2. d + 1 \in 1..Len(c) /\ Head(todo) = c[d + 1] /\ Tail(todo) = After(c, d + 1)
      /\ <<>> \o Tail(todo) = After(c, d + 1)
  BY AfterParts
<1>3. d + 1 \in 0..Len(c)
  BY <1>2
<1>4. c[d + 1] \in S
  BY <1>2, ElementOfSeq
<1>5. QED
  BY <1>2, <1>3, <1>4, AfterIsSeq

(* A program without another operation has come to its end.                *)
LEMMA ProgramEnds ==
  ASSUME NEW S, NEW c \in Seq(S), NEW d \in 0..Len(c), After(c, d) = <<>>
  PROVE  d = Len(c)
BY AfterIsSeq

(* The same for operations that were put before the rest of the program.   *)
LEMMA InsertedHead ==
  ASSUME NEW S, NEW c \in Seq(S), NEW d \in 0..Len(c), NEW x
  PROVE  /\ <<x>> \o After(c, d) # <<>> /\ Head(<<x>> \o After(c, d)) = x
         /\ Tail(<<x>> \o After(c, d)) = <<>> \o After(c, d)
         /\ <<>> \o (<<>> \o After(c, d)) = <<>> \o After(c, d)
<1>1. After(c, d) \in Seq(S) /\ <<>> \o After(c, d) = After(c, d)
  BY AfterIsSeq
<1>2. QED
  BY <1>1, PushOne

LEMMA InsertedHeads ==
  ASSUME NEW S, NEW c \in Seq(S), NEW d \in 0..Len(c), NEW x, NEW y
  PROVE  /\ <<x, y>> \o After(c, d) # <<>> /\ Head(<<x, y>> \o After(c, d)) = x
         /\ Tail(<<x, y>> \o After(c, d)) = <<y>> \o After(c, d)
         /\ <<>> \o (<<y>> \o After(c, d)) = <<y>> \o After(c, d)
<1> DEFINE rest == <<y>> \o After(c, d)
           T == S \cup {y}
<1>1. After(c, d) \in Seq(S)
  BY AfterIsSeq
<1>2. rest \in Seq(T)
  BY <1>1, PushOne
<1>3. <<x, y>> \o After(c, d) = <<x>> \o rest
  BY <1>1, PushTwo
<1> HIDE DEF rest, T
<1>4. <<x>> \o rest # <<>> /\ Head(<<x>> \o rest) = x /\ Tail(<<x>> \o rest) = rest /\ <<>> \o rest = rest
  BY <1>2, PushOne
<1>5. QED
  BY <1>3, <1>4 DEF rest

LEMMA AfterNone ==
  ASSUME NEW S, NEW c \in Seq(S)
  PROVE  After(c, 0) = c /\ <<>> \o After(c, 0) = c
BY DEF After

LEMMA HeadAndTail ==
  ASSUME NEW S, NEW s \in Seq(S), s # <<>>
  PROVE  s = <<Head(s)>> \o Tail(s)
<1> DEFINE one == <<Head(s)>>
           rest == Tail(s)
<1>1. /\ Head(s) \in S /\ Head(s) = s[1] /\ rest \in Seq(S) /\ Len(rest) = Len(s) - 1
      /\ \A i \in 1..Len(rest) : rest[i] = s[i + 1]
  BY HeadTailProperties
<1>2. one \in Seq(S) /\ Len(one) = 1 /\ one[1] = s[1] /\ Len(s) \in Nat
  BY <1>1
<1> HIDE DEF one, rest
<1>3. /\ one \o rest \in Seq(S) /\ Len(one \o rest) = 1 + Len(rest)
      /\ \A i \in 1..(1 + Len(rest)) : (one \o rest)[i] = IF i <= 1 THEN one[i] ELSE rest[i - 1]
  <2>0. one \in Seq(S) /\ rest \in Seq(S)
    BY <1>1, <1>2
  <2>1. /\ one \o rest \in Seq(S) /\ Len(one \o rest) = Len(one) + Len(rest)
        /\ \A i \in 1..Len(one) + Len(rest) :
             (one \o rest)[i] = IF i <= Len(one) THEN one[i] ELSE rest[i - Len(one)]
    BY <2>0, ConcatProperties
  <2>2. QED
    BY <1>2, <2>1
<1>4. \A i \in 1..Len(s) : (one \o rest)[i] = s[i]
  BY <1>1, <1>2, <1>3
<1>5. one \o rest = s
  BY <1>1, <1>2, <1>3, <1>4, SeqEqual
<1>6. QED
  BY <1>5 DEF one, rest

(* An operation put back before the rest of the program.                   *)
LEMMA AfterPush ==
  ASSUME NEW S, NEW c \in Seq(S), NEW d \in 0..Len(c), d # Len(c)
  PROVE  <<c[d + 1]>> \o After(c, d + 1) = After(c, d)
<1>1. After(c, d) # <<>> /\ After(c, d) \in Seq(S)
  BY ProgramEnds, AfterIsSeq
<1>2. Head(After(c, d)) = c[d + 1] /\ Tail(After(c, d)) = After(c, d + 1)
  BY <1>1, AfterParts
<1>3. After(c, d) = <<Head(After(c, d))>> \o Tail(After(c, d))
  BY <1>1, HeadAndTail
<1>4. QED
  BY <1>2, <1>3
=============================================================================
