-------------------------- MODULE WorkQueue_proofs --------------------------
(***************************************************************************)
(* What happens to the data on their way when an item is pushed or popped, *)
(* and when the socket takes a write: the facts that the proofs of         *)
(* LibuvClient, LibuvServer and GeneratedServer share.                     *)
(*                                                                         *)
(* DataOf is a recursive function, so its facts need induction. The        *)
(* induction theorems of the library take an operator; here the induction  *)
(* is over the elements of a set, and rests on the natural numbers being   *)
(* well founded (LeastNatural, Induction).                                 *)
(***************************************************************************)
EXTENDS WorkQueue, SequenceTheorems, WellFoundedInduction, TLAPS

(* A set of natural numbers that is not empty has a least element.         *)
LEMMA LeastNatural ==
  ASSUME NEW T, T \subseteq Nat, T # {}
  PROVE  \E x \in T : \A y \in T : x <= y
<1> DEFINE R == OpToRel(<, Nat)
<1>1. IsWellFoundedOn(R, Nat)
  BY NatLessThanWellFounded
<1>2. \A x, y \in Nat : y < x => <<y, x>> \in R
  BY DEF OpToRel
<1> HIDE DEF R
<1>3. PICK x \in T : \A y \in T : ~(<<y, x>> \in R)
  BY <1>1, WFMin
<1>4. \A y \in T : ~(y < x)
  BY <1>2, <1>3
<1> QED
  BY <1>4

(* Induction, for the elements of a set.                                   *)
LEMMA Induction ==
  ASSUME NEW T, 0 \in T, \A n \in Nat : n \in T => n + 1 \in T
  PROVE  Nat \subseteq T
<1> SUFFICES ASSUME Nat \ T # {} PROVE FALSE
  OBVIOUS
<1>1. PICK x \in Nat \ T : \A y \in Nat \ T : x <= y
  BY LeastNatural
<1>2. x # 0 /\ x - 1 \in Nat /\ x - 1 \in T
  BY <1>1
<1> QED
  BY <1>1, <1>2

(* Sequences: where the parentheses are does not matter.                   *)
LEMMA Regroup ==
  ASSUME NEW s \in Seq(Nat), NEW t \in Seq(Nat), NEW u \in Seq(Nat)
  PROVE  /\ (s \o t) \o u = s \o (t \o u)
         /\ s \o t \in Seq(Nat) /\ t \o u \in Seq(Nat)
<1>1. (s \o t) \o u = s \o (t \o u)
  BY ConcatAssociative
<1> QED
  BY <1>1, ConcatProperties

(* Sequences: an element is appended to the last of two.                   *)
LEMMA AppendToConcat ==
  ASSUME NEW s \in Seq(Nat), NEW t \in Seq(Nat), NEW x \in Nat
  PROVE  Append(s \o t, x) = s \o Append(t, x)
<1>1. <<x>> \in Seq(Nat) /\ s \o t \in Seq(Nat)
  BY ConcatProperties
<1>2. Append(s \o t, x) = (s \o t) \o <<x>> /\ Append(t, x) = t \o <<x>>
  BY <1>1, AppendIsConcat
<1> QED
  BY <1>1, <1>2, ConcatAssociative

(* An element moves from the front of a sequence to the back of the one    *)
(* before it: uv_write of what was queued.                                 *)
LEMMA MoveFront ==
  ASSUME NEW s \in Seq(Nat), NEW t \in Seq(Nat), NEW x \in Nat
  PROVE  Append(s, x) \o t = s \o (<<x>> \o t)
<1>1. <<x>> \in Seq(Nat) /\ Append(s, x) = s \o <<x>>
  BY AppendIsConcat
<1> QED
  BY <1>1, ConcatAssociative

(* The same with a third sequence in front: a buffer that is queued.       *)
LEMMA MoveAcross ==
  ASSUME NEW w \in Seq(Nat), NEW s \in Seq(Nat), NEW t \in Seq(Nat), NEW x \in Nat
  PROVE  (w \o Append(s, x)) \o t = (w \o s) \o (<<x>> \o t)
<1> DEFINE p == w \o s
<1>1. p \in Seq(Nat) /\ w \o Append(s, x) = Append(p, x)
  BY ConcatProperties, AppendToConcat
<1> HIDE DEF p
<1>2. Append(p, x) \o t = p \o (<<x>> \o t)
  BY <1>1, MoveFront
<1> QED
  BY <1>1, <1>2 DEF p

(* A sequence is its head and its tail.                                    *)
LEMMA FrontAndRest ==
  ASSUME NEW s \in Seq(Nat), s # <<>>
  PROVE  Head(s) \in Nat /\ Tail(s) \in Seq(Nat) /\ s = <<Head(s)>> \o Tail(s)
<1>1. /\ Head(s) \in Nat /\ Tail(s) \in Seq(Nat) /\ Len(Tail(s)) = Len(s) - 1
      /\ Len(s) \in Nat \ {0} /\ Head(s) = s[1]
      /\ \A k \in 1..Len(Tail(s)) : Tail(s)[k] = s[k+1]
  BY HeadTailProperties, EmptySeq
<1> DEFINE h == <<Head(s)>>
           t == Tail(s)
<1>2. /\ h \in Seq(Nat) /\ Len(h) = 1 /\ h[1] = s[1]
      /\ t \in Seq(Nat) /\ Len(h) + Len(t) = Len(s)
  BY <1>1
<1> HIDE DEF h
<1>3. /\ h \o t \in Seq(Nat) /\ Len(h \o t) = Len(h) + Len(t)
      /\ \A k \in 1..(Len(h) + Len(t)) :
           (h \o t)[k] = IF k <= Len(h) THEN h[k] ELSE t[k - Len(h)]
  <2> HIDE DEF t
  <2> QED
    BY <1>2, ConcatProperties
<1>4. \A k \in 1..Len(s) : (h \o t)[k] = s[k]
  BY <1>1, <1>2, <1>3
<1> HIDE DEF t
<1>5. h \o t = s
  BY <1>2, <1>3, <1>4, SeqEqual
<1> QED
  BY <1>1, <1>5 DEF h, t

(* The buffer that is written next follows the ones before it.             *)
LEMMA NextWritten ==
  ASSUME NEW s \in Seq(Nat), NEW t \in Seq(Nat), NEW n \in Nat, s \o t = Written(n)
  PROVE  s \o Append(t, n + 1) = Written(n + 1)
<1>1. n + 1 \in Nat
  OBVIOUS
<1>2. Append(s \o t, n + 1) = s \o Append(t, n + 1)
  BY <1>1, AppendToConcat
<1>3. Append(Written(n), n + 1) = Written(n + 1)
  BY DEF Written
<1> QED
  BY <1>2, <1>3

(* One more item, or not.                                                  *)
More(sofar, item, kind) == IF item \in kind THEN Append(sofar, item.data) ELSE sofar

(* g is the function of DataOf, for the first n items.                     *)
IsUpto(g, queue, kind, n) ==
  g = [k \in 0..n |-> IF k = 0 THEN <<>> ELSE More(g[k-1], queue[k], kind)]

(* The recursion of DataOf defines a function.                             *)
LEMMA UptoExists ==
  ASSUME NEW queue, NEW kind, NEW n \in Nat
  PROVE  \E g : IsUpto(g, queue, kind, n)
<1> DEFINE T == {m \in Nat : \E g : IsUpto(g, queue, kind, m)}
<1>1. 0 \in T
  <2> DEFINE g == [k \in 0..0 |-> <<>>]
  <2>1. IsUpto(g, queue, kind, 0)
    BY DEF IsUpto
  <2> QED
    BY <2>1
<1>2. ASSUME NEW m \in Nat, m \in T PROVE m + 1 \in T
  <2>1. PICK g : IsUpto(g, queue, kind, m)
    BY <1>2
  <2> DEFINE h == [k \in 0..(m+1) |-> IF k <= m THEN g[k] ELSE More(g[m], queue[m+1], kind)]
             e == [k \in 0..(m+1) |-> IF k = 0 THEN <<>> ELSE More(h[k-1], queue[k], kind)]
  <2>2. ASSUME NEW k \in 0..(m+1) PROVE h[k] = e[k]
    <3>1. CASE k = 0
      BY <2>1, <3>1 DEF IsUpto
    <3>2. CASE k \in 1..m
      <4>1. g[k] = More(g[k-1], queue[k], kind)
        BY <2>1, <3>2 DEF IsUpto
      <4>2. h[k-1] = g[k-1] /\ h[k] = g[k]
        BY <3>2
      <4> QED
        BY <3>2, <4>1, <4>2
    <3>3. CASE k = m + 1
      BY <3>3
    <3> QED
      BY <3>1, <3>2, <3>3
  <2>3. h = e
    BY <2>2
  <2>4. IsUpto(h, queue, kind, m + 1)
    BY <2>3 DEF IsUpto
  <2> QED
    BY <2>4
<1> HIDE DEF T
<1>3. Nat \subseteq T
  BY <1>1, <1>2, Induction
<1> QED
  BY <1>3 DEF T

(* DataOf is the last value of that function.                              *)
LEMMA DataOfIsUpto ==
  ASSUME NEW queue, NEW kind, Len(queue) \in Nat
  PROVE  \E g : IsUpto(g, queue, kind, Len(queue)) /\ DataOf(queue, kind) = g[Len(queue)]
<1> DEFINE g == CHOOSE f : IsUpto(f, queue, kind, Len(queue))
<1>1. IsUpto(g, queue, kind, Len(queue))
  BY UptoExists
<1>2. DataOf(queue, kind) = g[Len(queue)]
  BY DEF DataOf, IsUpto, More
<1> QED
  BY <1>1, <1>2

(* The first n items decide what their data are.                           *)
LEMMA UptoAgree ==
  ASSUME NEW q, NEW r, NEW kind, NEW n \in Nat, NEW m \in Nat, n <= m,
         NEW g, IsUpto(g, q, kind, n), NEW h, IsUpto(h, r, kind, m),
         \A k \in 1..n : q[k] = r[k]
  PROVE  g[n] = h[n]
<1> DEFINE T == {k \in Nat : k <= n => g[k] = h[k]}
<1>1. 0 \in T
  BY DEF IsUpto
<1>2. ASSUME NEW k \in Nat, k \in T PROVE k + 1 \in T
  <2> SUFFICES ASSUME k + 1 <= n PROVE g[k+1] = h[k+1]
    OBVIOUS
  <2>1. g[k+1] = More(g[k], q[k+1], kind) /\ h[k+1] = More(h[k], r[k+1], kind)
    BY DEF IsUpto
  <2> QED
    BY <1>2, <2>1
<1> HIDE DEF T
<1>3. Nat \subseteq T
  BY <1>1, <1>2, Induction
<1> QED
  BY <1>3 DEF T

(* Every value of that function is a sequence of data.                     *)
LEMMA UptoType ==
  ASSUME NEW q, NEW kind, \A w \in kind : w.data \in Nat,
         NEW n \in Nat, NEW g, IsUpto(g, q, kind, n)
  PROVE  \A k \in 0..n : g[k] \in Seq(Nat)
<1> DEFINE T == {k \in Nat : k <= n => g[k] \in Seq(Nat)}
<1>1. 0 \in T
  BY DEF IsUpto
<1>2. ASSUME NEW k \in Nat, k \in T PROVE k + 1 \in T
  <2> SUFFICES ASSUME k + 1 <= n PROVE g[k+1] \in Seq(Nat)
    OBVIOUS
  <2>1. g[k+1] = More(g[k], q[k+1], kind)
    BY DEF IsUpto
  <2> QED
    BY <1>2, <2>1 DEF More
<1> HIDE DEF T
<1>3. Nat \subseteq T
  BY <1>1, <1>2, Induction
<1> QED
  BY <1>3 DEF T

(* The data of a queue are a sequence over the data of its items.          *)
LEMMA DataOfType ==
  ASSUME NEW I, NEW queue \in Seq(I), NEW kind, \A w \in kind : w.data \in Nat
  PROVE  DataOf(queue, kind) \in Seq(Nat)
<1>0. Len(queue) \in Nat
  OBVIOUS
<1>1. PICK g : IsUpto(g, queue, kind, Len(queue)) /\ DataOf(queue, kind) = g[Len(queue)]
  BY <1>0, DataOfIsUpto
<1> QED
  BY <1>0, <1>1, UptoType

(* Nothing waits in an empty queue.                                        *)
LEMMA DataOfEmpty ==
  ASSUME NEW kind
  PROVE  DataOf(<<>>, kind) = <<>>
<1>1. PICK g : IsUpto(g, <<>>, kind, 0) /\ DataOf(<<>>, kind) = g[0]
  BY DataOfIsUpto
<1> QED
  BY <1>1 DEF IsUpto

(* Nothing of a kind waits in a queue that has no item of the kind.        *)
LEMMA DataOfNone ==
  ASSUME NEW I, NEW queue \in Seq(I), NEW kind, \A k \in 1..Len(queue) : queue[k] \notin kind
  PROVE  DataOf(queue, kind) = <<>>
<1> DEFINE n == Len(queue)
<1>1. n \in Nat
  OBVIOUS
<1>2. PICK g : IsUpto(g, queue, kind, n) /\ DataOf(queue, kind) = g[n]
  BY <1>1, DataOfIsUpto
<1> HIDE DEF n
<1> DEFINE T == {k \in Nat : k <= n => g[k] = <<>>}
<1>3. 0 \in T
  BY <1>1, <1>2 DEF IsUpto
<1>4. ASSUME NEW k \in Nat, k \in T PROVE k + 1 \in T
  <2> SUFFICES ASSUME k + 1 <= n PROVE g[k+1] = <<>>
    OBVIOUS
  <2>1. g[k+1] = More(g[k], queue[k+1], kind) /\ k + 1 \in 1..n
    BY <1>1, <1>2 DEF IsUpto
  <2> QED
    BY <1>1, <1>4, <2>1 DEF More, n
<1> HIDE DEF T
<1>5. Nat \subseteq T
  BY <1>3, <1>4, Induction
<1>6. n \in T
  BY <1>1, <1>5
<1> QED
  BY <1>1, <1>2, <1>6 DEF T

(* push_work: the data of an item of the kind come last.                   *)
LEMMA DataOfAppend ==
  ASSUME NEW I, NEW queue \in Seq(I), NEW item \in I, NEW kind
  PROVE  DataOf(Append(queue, item), kind)
           = IF item \in kind THEN Append(DataOf(queue, kind), item.data)
             ELSE DataOf(queue, kind)
<1> DEFINE n == Len(queue)
           r == Append(queue, item)
<1>1. /\ n \in Nat /\ Len(r) = n + 1 /\ r[n+1] = item
      /\ \A k \in 1..n : queue[k] = r[k]
  OBVIOUS
<1> HIDE DEF n, r
<1>2. PICK g : IsUpto(g, queue, kind, n) /\ DataOf(queue, kind) = g[n]
  BY <1>1, DataOfIsUpto DEF n
<1>3. PICK h : IsUpto(h, r, kind, n + 1) /\ DataOf(r, kind) = h[n+1]
  BY <1>1, DataOfIsUpto
<1>4. g[n] = h[n]
  BY <1>1, <1>2, <1>3, UptoAgree
<1>5. h[n+1] = More(h[n], item, kind)
  BY <1>1, <1>3 DEF IsUpto
<1> QED
  BY <1>2, <1>3, <1>4, <1>5 DEF More, r

(* process(): the data of an item of the kind came first.                  *)
LEMMA DataOfTail ==
  ASSUME NEW I, NEW queue \in Seq(I), queue # <<>>,
         NEW kind, \A w \in kind : w.data \in Nat
  PROVE  DataOf(queue, kind)
           = IF Head(queue) \in kind
               THEN <<Head(queue).data>> \o DataOf(Tail(queue), kind)
               ELSE DataOf(Tail(queue), kind)
<1> DEFINE n == Len(queue)
           r == Tail(queue)
           a == IF Head(queue) \in kind THEN <<Head(queue).data>> ELSE <<>>
<1>1. /\ n \in Nat /\ n - 1 \in Nat /\ Len(r) = n - 1 /\ Head(queue) = queue[1]
      /\ \A k \in 1..(n-1) : r[k] = queue[k+1]
  OBVIOUS
<1>2. /\ a \in Seq(Nat) /\ a \o <<>> = a /\ a = More(<<>>, Head(queue), kind)
      /\ Head(queue) \notin kind => \A s \in Seq(Nat) : a \o s = s
  BY DEF More
<1> HIDE DEF n, r, a
<1>3. PICK g : IsUpto(g, queue, kind, n) /\ DataOf(queue, kind) = g[n]
  BY <1>1, DataOfIsUpto DEF n
<1>4. PICK h : IsUpto(h, r, kind, n - 1) /\ DataOf(r, kind) = h[n-1]
  BY <1>1, DataOfIsUpto
<1>5. \A k \in 0..(n-1) : h[k] \in Seq(Nat)
  BY <1>1, <1>4, UptoType
<1> DEFINE T == {k \in Nat : k <= n - 1 => g[k+1] = a \o h[k]}
<1>6. 0 \in T
  <2>1. g[0] = <<>> /\ g[0+1] = More(g[0], queue[1], kind) /\ h[0] = <<>>
    BY <1>1, <1>3, <1>4 DEF IsUpto
  <2> QED
    BY <1>1, <1>2, <2>1
<1>7. ASSUME NEW k \in Nat, k \in T PROVE k + 1 \in T
  <2> SUFFICES ASSUME k + 1 <= n - 1 PROVE g[(k+1)+1] = a \o h[k+1]
    OBVIOUS
  <2>1. g[(k+1)+1] = More(g[k+1], queue[(k+1)+1], kind) /\ h[k+1] = More(h[k], r[k+1], kind)
    BY <1>1, <1>3, <1>4 DEF IsUpto
  <2>2. r[k+1] = queue[(k+1)+1] /\ g[k+1] = a \o h[k]
    BY <1>1, <1>7
  <2>3. a \in Seq(Nat) /\ h[k] \in Seq(Nat)
    BY <1>1, <1>2, <1>5
  <2>4. \A x \in Nat : Append(a \o h[k], x) = a \o Append(h[k], x)
    <3> DEFINE b == h[k]
    <3>1. b \in Seq(Nat)
      BY <2>3
    <3> HIDE DEF b
    <3>2. \A x \in Nat : Append(a \o b, x) = a \o Append(b, x)
      <4> TAKE x \in Nat
      <4> QED
        BY <2>3, <3>1, AppendToConcat
    <3> QED
      BY <3>2 DEF b
  <2> QED
    BY <2>1, <2>2, <2>4 DEF More
<1> HIDE DEF T
<1>8. Nat \subseteq T
  BY <1>6, <1>7, Induction
<1>9. g[n] = a \o h[n-1]
  <2>1. n - 1 \in T /\ n - 1 \in Nat /\ n - 1 + 1 = n
    BY <1>1, <1>8
  <2> QED
    BY <2>1 DEF T
<1>10. DataOf(r, kind) \in Seq(Nat)
  BY <1>1, <1>4, <1>5
<1> QED
  BY <1>2, <1>3, <1>4, <1>9, <1>10 DEF r, a
-----------------------------------------------------------------------------
(* The uv_writes that the socket has not taken: q without its first d.     *)
LEMMA NotTakenProperties ==
  ASSUME NEW q \in Seq(Nat), NEW d \in 0..Len(q)
  PROVE  /\ NotTaken(q, d) \in Seq(Nat) /\ Len(NotTaken(q, d)) = Len(q) - d
         /\ \A k \in 1..(Len(q) - d) : NotTaken(q, d)[k] = q[d + k]
<1>1. /\ Len(q) \in Nat /\ d \in Nat /\ d <= Len(q)
      /\ \A k \in (d+1)..Len(q) : q[k] \in Nat
  OBVIOUS
<1>2. /\ SubSeq(q, d + 1, Len(q)) \in Seq(Nat)
      /\ Len(SubSeq(q, d + 1, Len(q))) = IF d + 1 <= Len(q) THEN Len(q) - (d + 1) + 1 ELSE 0
      /\ \A k \in 1..(Len(q) - (d + 1) + 1) : SubSeq(q, d + 1, Len(q))[k] = q[(d + 1) + k - 1]
  BY <1>1, SubSeqProperties
<1> QED
  BY <1>1, <1>2 DEF NotTaken

(* Before the socket has taken any, all are left; when it has, none is.    *)
LEMMA NotTakenEnds ==
  ASSUME NEW q \in Seq(Nat)
  PROVE  NotTaken(q, 0) = q /\ NotTaken(q, Len(q)) = <<>>
<1>1. 0 \in 0..Len(q) /\ Len(q) \in 0..Len(q)
  OBVIOUS
<1> DEFINE a == NotTaken(q, 0)
           b == NotTaken(q, Len(q))
<1>2. /\ a \in Seq(Nat) /\ Len(a) = Len(q) /\ \A k \in 1..Len(q) : a[k] = q[k]
      /\ b \in Seq(Nat) /\ Len(b) = 0
  BY <1>1, NotTakenProperties
<1> HIDE DEF a, b
<1>3. a = q
  BY <1>2, SeqEqual
<1>4. b = <<>>
  BY <1>2
<1> QED
  BY <1>3, <1>4 DEF a, b

(* uv_write: the new request is taken last.                                *)
LEMMA NotTakenAppend ==
  ASSUME NEW q \in Seq(Nat), NEW d \in 0..Len(q), NEW x \in Nat
  PROVE  NotTaken(Append(q, x), d) = Append(NotTaken(q, d), x)
<1> DEFINE r == Append(q, x)
           a == NotTaken(r, d)
           b == NotTaken(q, d)
<1>1. /\ r \in Seq(Nat) /\ Len(r) = Len(q) + 1 /\ d \in 0..Len(r) /\ Len(q) \in Nat
      /\ r[Len(q) + 1] = x /\ \A k \in 1..Len(q) : r[k] = q[k]
  OBVIOUS
<1> HIDE DEF r
<1>2. /\ a \in Seq(Nat) /\ Len(a) = Len(q) + 1 - d
      /\ \A k \in 1..(Len(q) + 1 - d) : a[k] = r[d + k]
  <2>1. /\ a \in Seq(Nat) /\ Len(a) = Len(r) - d
        /\ \A k \in 1..(Len(r) - d) : a[k] = r[d + k]
    BY <1>1, NotTakenProperties
  <2> QED
    BY <1>1, <2>1
<1>3. /\ b \in Seq(Nat) /\ Len(b) = Len(q) - d
      /\ \A k \in 1..(Len(q) - d) : b[k] = q[d + k]
  BY NotTakenProperties
<1> HIDE DEF a, b
<1>4. Append(b, x) \in Seq(Nat) /\ Len(Append(b, x)) = Len(a)
  BY <1>1, <1>2, <1>3
<1>5. ASSUME NEW k \in 1..Len(a) PROVE a[k] = Append(b, x)[k]
  <2>1. CASE k <= Len(q) - d
    <3>1. k \in 1..Len(b) /\ d + k \in 1..Len(q)
      BY <1>1, <1>2, <1>3, <2>1
    <3>2. Append(b, x)[k] = b[k]
      BY <1>3, <3>1
    <3>3. a[k] = q[d + k] /\ b[k] = q[d + k]
      BY <1>1, <1>2, <1>3, <3>1
    <3> QED
      BY <3>2, <3>3
  <2>2. CASE k = Len(q) - d + 1
    <3>1. k = Len(b) + 1 /\ d + k = Len(q) + 1
      BY <1>1, <1>3, <2>2
    <3>2. Append(b, x)[k] = x
      BY <1>3, <3>1
    <3>3. a[k] = r[Len(q) + 1]
      BY <1>2, <3>1
    <3> QED
      BY <1>1, <3>2, <3>3
  <2>3. k <= Len(q) - d \/ k = Len(q) - d + 1
    BY <1>1, <1>2
  <2> QED
    BY <2>1, <2>2, <2>3
<1>6. a = Append(b, x)
  BY <1>2, <1>4, <1>5, SeqEqual
<1> QED
  BY <1>6 DEF a, b, r

(* Several uv_writes at once.                                              *)
LEMMA NotTakenConcat ==
  ASSUME NEW q \in Seq(Nat), NEW d \in 0..Len(q), NEW r \in Seq(Nat)
  PROVE  NotTaken(q \o r, d) = NotTaken(q, d) \o r
<1> DEFINE p == q \o r
           a == NotTaken(p, d)
           n == NotTaken(q, d)
           b == n \o r
<1>1. /\ Len(q) \in Nat /\ Len(r) \in Nat /\ d \in Nat /\ d <= Len(q)
      /\ p \in Seq(Nat) /\ Len(p) = Len(q) + Len(r)
      /\ \A k \in 1..(Len(q) + Len(r)) : p[k] = IF k <= Len(q) THEN q[k] ELSE r[k - Len(q)]
  BY ConcatProperties
<1> HIDE DEF p
<1>2. d \in 0..Len(p)
  BY <1>1
<1>3. a \in Seq(Nat) /\ Len(a) = Len(p) - d /\ \A k \in 1..(Len(p) - d) : a[k] = p[d + k]
  BY <1>1, <1>2, NotTakenProperties
<1>4. n \in Seq(Nat) /\ Len(n) = Len(q) - d /\ \A k \in 1..(Len(q) - d) : n[k] = q[d + k]
  BY NotTakenProperties
<1> HIDE DEF a, n
<1>5. /\ b \in Seq(Nat) /\ Len(b) = Len(n) + Len(r)
      /\ \A k \in 1..(Len(n) + Len(r)) : b[k] = IF k <= Len(n) THEN n[k] ELSE r[k - Len(n)]
  BY <1>4, ConcatProperties
<1> HIDE DEF b
<1>6. Len(a) = Len(b)
  BY <1>1, <1>3, <1>4, <1>5
<1>7. ASSUME NEW k \in 1..Len(a) PROVE a[k] = b[k]
  <2>1. k \in 1..(Len(p) - d) /\ d + k \in 1..(Len(q) + Len(r)) /\ k \in 1..(Len(n) + Len(r))
    BY <1>1, <1>3, <1>4
  <2>2. a[k] = p[d + k]
    BY <1>3, <2>1
  <2>3. CASE k <= Len(n)
    <3>1. k \in 1..(Len(q) - d) /\ d + k <= Len(q)
      BY <1>1, <1>4, <2>1, <2>3
    <3>2. p[d + k] = q[d + k] /\ n[k] = q[d + k] /\ b[k] = n[k]
      BY <1>1, <1>4, <1>5, <2>1, <2>3, <3>1
    <3> QED
      BY <2>2, <3>2
  <2>4. CASE ~(k <= Len(n))
    <3>1. ~(d + k <= Len(q)) /\ d + k - Len(q) = k - Len(n)
      BY <1>1, <1>4, <2>1, <2>4
    <3>2. p[d + k] = r[d + k - Len(q)]
      <4> DEFINE j == d + k
      <4>1. j \in 1..(Len(q) + Len(r)) /\ ~(j <= Len(q))
        BY <2>1, <3>1
      <4> HIDE DEF j
      <4>2. p[j] = r[j - Len(q)]
        BY <1>1, <4>1
      <4> QED
        BY <4>2 DEF j
    <3>3. b[k] = r[k - Len(n)]
      BY <1>5, <2>1, <2>4
    <3> QED
      BY <2>2, <3>1, <3>2, <3>3
  <2> QED
    BY <2>3, <2>4
<1>8. a = b
  BY <1>3, <1>5, <1>6, <1>7, SeqEqual
<1> QED
  BY <1>8 DEF a, b, n, p

(* The socket takes the next one.                                          *)
LEMMA NotTakenNext ==
  ASSUME NEW q \in Seq(Nat), NEW d \in 0..Len(q), d < Len(q)
  PROVE  NotTaken(q, d) = <<q[d + 1]>> \o NotTaken(q, d + 1)
<1>1. d + 1 \in 1..Len(q) /\ (d + 1) + 1 \in Int /\ Len(q) \in (d + 1)..Len(q)
  OBVIOUS
<1>2. SubSeq(q, d + 1, Len(q)) = <<q[d + 1]>> \o SubSeq(q, (d + 1) + 1, Len(q))
  BY <1>1, SubSeqRecursiveFirst
<1> QED
  BY <1>2 DEF NotTaken

(* The callback of a write that was taken: nothing changes for the others. *)
LEMMA NotTakenTail ==
  ASSUME NEW q \in Seq(Nat), NEW d \in 0..Len(q), d > 0
  PROVE  NotTaken(Tail(q), d - 1) = NotTaken(q, d)
<1> DEFINE r == Tail(q)
           a == NotTaken(r, d - 1)
           b == NotTaken(q, d)
<1>1. /\ r \in Seq(Nat) /\ Len(r) = Len(q) - 1 /\ d - 1 \in 0..Len(r) /\ Len(q) \in Nat
      /\ \A k \in 1..(Len(q) - 1) : r[k] = q[k + 1]
  OBVIOUS
<1> HIDE DEF r
<1>2. /\ a \in Seq(Nat) /\ Len(a) = Len(q) - d
      /\ \A k \in 1..(Len(q) - d) : a[k] = r[d - 1 + k]
  <2> DEFINE e == d - 1
  <2>1. e \in 0..Len(r) /\ Len(r) - e = Len(q) - d
    BY <1>1
  <2> HIDE DEF e
  <2>2. /\ NotTaken(r, e) \in Seq(Nat) /\ Len(NotTaken(r, e)) = Len(r) - e
        /\ \A k \in 1..(Len(r) - e) : NotTaken(r, e)[k] = r[e + k]
    BY <1>1, <2>1, NotTakenProperties
  <2> QED
    BY <2>1, <2>2 DEF e
<1>3. /\ b \in Seq(Nat) /\ Len(b) = Len(q) - d
      /\ \A k \in 1..(Len(q) - d) : b[k] = q[d + k]
  BY NotTakenProperties
<1> HIDE DEF a, b
<1>4. \A k \in 1..Len(a) : a[k] = b[k]
  <2> TAKE k \in 1..Len(a)
  <2>1. d - 1 + k \in 1..(Len(q) - 1) /\ (d - 1 + k) + 1 = d + k /\ k \in 1..(Len(q) - d)
    BY <1>1, <1>2
  <2> QED
    BY <1>1, <1>2, <1>3, <2>1
<1>5. a = b
  BY <1>2, <1>3, <1>4, SeqEqual
<1> QED
  BY <1>5 DEF a, b, r
=============================================================================
