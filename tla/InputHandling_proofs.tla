------------------------ MODULE InputHandling_proofs ------------------------
(***************************************************************************)
(* How the network cuts a stream makes no difference to a program of plain *)
(* reads, for every stream and every such program. Of each read there are  *)
(* two lemmas: what handle_read keeps of what it is shown (...Reads), and  *)
(* that operator(), once it returns, gives what the operation means on the *)
(* rest of the stream (...Means). The steps of handle_read then only move  *)
(* buffers between positions of the stream (Follows and Cut).              *)
(***************************************************************************)
EXTENDS InputHandling, SequenceTheorems, WellFoundedInduction, TLAPS

(* A set of natural numbers that is not empty has a least element, Min.    *)
LEMMA MinOfNaturals ==
  ASSUME NEW T, T \subseteq Nat, T # {}
  PROVE  Min(T) \in T /\ \A y \in T : Min(T) <= y
<1> DEFINE R == OpToRel(<, Nat)
<1>1. IsWellFoundedOn(R, Nat)
  BY NatLessThanWellFounded
<1>2. \A x, y \in Nat : y < x => <<y, x>> \in R
  BY DEF OpToRel
<1> HIDE DEF R
<1>3. PICK x \in T : \A y \in T : ~(<<y, x>> \in R)
  BY <1>1, WFMin
<1>4. \A y \in T : ~(y < x)
  BY <1>2, <1>3
<1>5. \A y \in T : x <= y
  BY <1>4
<1> QED
  BY <1>5 DEF Min

(* Parts of a buffer.                                                      *)
LEMMA TakeProperties ==
  ASSUME NEW s \in Seq(Octets), NEW n \in 0..Len(s)
  PROVE  /\ Take(s, n) \in Seq(Octets) /\ Len(Take(s, n)) = n
         /\ \A k \in 1..n : Take(s, n)[k] = s[k]
BY DEF Take

(* What a buffer is without its first octets.                              *)
LEMMA DropProperties ==
  ASSUME NEW s \in Seq(Octets), NEW n \in 0..Len(s)
  PROVE  /\ Drop(s, n) \in Seq(Octets) /\ Len(Drop(s, n)) = Len(s) - n
         /\ \A k \in 1..(Len(s) - n) : Drop(s, n)[k] = s[n + k]
BY DEF Drop

(* t occurs in s after the first p octets.                                 *)
Occurs(s, t, p) == p + Len(t) <= Len(s) /\ \A j \in 1..Len(t) : s[p + j] = t[j]

(* A part of s that equals t is an occurrence of t.                        *)
LEMMA PartIsOccurrence ==
  ASSUME NEW s \in Seq(Octets), NEW t \in Seq(Octets), NEW p \in Nat, p + Len(t) <= Len(s)
  PROVE  SubSeq(s, p + 1, p + Len(t)) = t <=> Occurs(s, t, p)
<1> DEFINE u == SubSeq(s, p + 1, p + Len(t))
<1>1. Len(s) \in Nat /\ Len(t) \in Nat
  OBVIOUS
<1>2. u \in Seq(Octets) /\ Len(u) = Len(t) /\ \A k \in 1..Len(t) : u[k] = s[p + k]
  BY <1>1
<1> HIDE DEF u
<1>3. ASSUME Occurs(s, t, p) PROVE u = t
  BY <1>2, <1>3, SeqEqual DEF Occurs
<1>4. ASSUME u = t PROVE Occurs(s, t, p)
  BY <1>2, <1>4 DEF Occurs
<1> QED
  BY <1>3, <1>4 DEF u

(* To start with t is to have an occurrence of t at the start.             *)
LEMMA StartIsOccurrence ==
  ASSUME NEW s \in Seq(Octets), NEW t \in Seq(Octets)
  PROVE  (StartsWith(s, t) <=> Occurs(s, t, 0)) /\ (IsPrefix(t, s) <=> Occurs(s, t, 0))
<1>1. Len(s) \in Nat /\ Len(t) \in Nat
  OBVIOUS
<1>2. CASE Len(t) <= Len(s)
  <2>1. SubSeq(s, 0 + 1, 0 + Len(t)) = t <=> Occurs(s, t, 0)
    BY <1>1, <1>2, PartIsOccurrence
  <2>2. 0 + 1 = 1 /\ 0 + Len(t) = Len(t) /\ SubSeq(t, 1, Len(t)) = t
    BY <1>1, SubSeqFull
  <2> QED
    BY <1>1, <1>2, <2>1, <2>2 DEF StartsWith, Take, IsPrefix
<1>3. CASE ~(Len(t) <= Len(s))
  BY <1>1, <1>3 DEF StartsWith, IsPrefix, Occurs
<1> QED
  BY <1>2, <1>3

(* What occurs in the start of a text occurs in the text.                  *)
LEMMA OccursInLonger ==
  ASSUME NEW b \in Seq(Octets), NEW s \in Seq(Octets), NEW t \in Seq(Octets), NEW p \in Nat,
         Len(b) <= Len(s), \A k \in 1..Len(b) : b[k] = s[k], Occurs(b, t, p)
  PROVE  Occurs(s, t, p)
<1>1. Len(b) \in Nat /\ Len(s) \in Nat /\ Len(t) \in Nat /\ p + Len(t) <= Len(b)
  BY DEF Occurs
<1>2. p + Len(t) <= Len(s)
  BY <1>1
<1>3. ASSUME NEW j \in 1..Len(t) PROVE s[p + j] = t[j]
  <2>1. p + j \in 1..Len(b)
    BY <1>1
  <2>2. b[p + j] = t[j]
    BY DEF Occurs
  <2> QED
    BY <2>1, <2>2
<1> QED
  BY <1>2, <1>3 DEF Occurs

(* Of two starts of one text, the shorter is the start of the longer.      *)
LEMMA StartsAgree ==
  ASSUME NEW s \in Seq(Octets), NEW t \in Seq(Octets), NEW u \in Seq(Octets),
         Occurs(s, t, 0), Occurs(s, u, 0), Len(t) <= Len(u)
  PROVE  Occurs(u, t, 0)
<1>1. Len(t) \in Nat /\ Len(u) \in Nat
  OBVIOUS
<1>2. ASSUME NEW j \in 1..Len(t) PROVE u[0 + j] = t[j]
  <2>1. j \in 1..Len(u) /\ 0 + j = j
    BY <1>1
  <2>2. s[0 + j] = t[j] /\ s[0 + j] = u[j]
    BY <2>1 DEF Occurs
  <2> QED
    BY <2>1, <2>2
<1> QED
  BY <1>1, <1>2 DEF Occurs

(* find() returns the first occurrence, and npos when there is none.       *)
LEMMA FindIsFirst ==
  ASSUME NEW s \in Seq(Octets), NEW t \in Seq(Octets)
  PROVE  \/ Find(s, t, 0) = NPos /\ \A p \in Nat : ~Occurs(s, t, p)
         \/ /\ Find(s, t, 0) \in Nat /\ Occurs(s, t, Find(s, t, 0)) /\ Find(s, t, 0) # NPos
            /\ \A p \in Nat : p < Find(s, t, 0) => ~Occurs(s, t, p)
<1> DEFINE found == {p \in 0..Len(s) - Len(t) : SubSeq(s, p + 1, p + Len(t)) = t}
           f == Find(s, t, 0)
<1>1. Len(s) \in Nat /\ Len(t) \in Nat /\ found \subseteq Nat
  OBVIOUS
<1>2. \A p \in Nat : p \in found <=> Occurs(s, t, p)
  <2> TAKE p \in Nat
  <2>1. CASE p + Len(t) <= Len(s)
    BY <1>1, <2>1, PartIsOccurrence
  <2>2. CASE ~(p + Len(t) <= Len(s))
    BY <1>1, <2>2 DEF Occurs
  <2> QED
    BY <2>1, <2>2
<1>3. f = IF found = {} THEN NPos ELSE Min(found)
  BY DEF Find
<1> HIDE DEF found, f
<1>4. CASE found = {}
  BY <1>2, <1>3, <1>4 DEF f
<1>5. CASE found # {}
  <2>1. f \in found /\ \A y \in found : f <= y
    BY <1>1, <1>3, <1>5, MinOfNaturals
  <2>2. f \in Nat /\ f # NPos
    BY <1>1, <2>1 DEF NPos
  <2>3. \A p \in Nat : p < f => p \notin found
    BY <1>1, <2>1, <2>2
  <2> QED
    BY <1>2, <2>1, <2>2, <2>3 DEF f
<1> QED
  BY <1>4, <1>5

(* TerminatedAt has the positions where the terminator occurs.             *)
LEMMA TerminatedIsOccurrence ==
  ASSUME NEW s \in Seq(Octets), NEW t \in Seq(Octets)
  PROVE  TerminatedAt(t, s) = {p \in 0..Len(s) : Occurs(s, t, p)}
<1> SUFFICES ASSUME NEW p \in 0..Len(s) PROVE StartsWith(Drop(s, p), t) <=> Occurs(s, t, p)
  BY DEF TerminatedAt
<1> DEFINE u == Drop(s, p)
<1>1. /\ Len(s) \in Nat /\ Len(t) \in Nat
      /\ u \in Seq(Octets) /\ Len(u) = Len(s) - p /\ \A k \in 1..(Len(s) - p) : u[k] = s[p + k]
  BY DropProperties
<1> HIDE DEF u
<1>2. StartsWith(u, t) <=> Occurs(u, t, 0)
  BY <1>1, StartIsOccurrence
<1>3. Occurs(u, t, 0) <=> Occurs(s, t, p)
  BY <1>1 DEF Occurs
<1> QED
  BY <1>2, <1>3 DEF u

-----------------------------------------------------------------------------
(* What lies between positions of the stream: joined, taken and left.      *)
LEMMA FollowsConcat ==
  ASSUME NEW a \in Seq(Octets), NEW b \in Seq(Octets), NEW from \in Nat,
         stream \in Seq(Octets), Follows(a, from), Follows(b, from + Len(a))
  PROVE  a \o b \in Seq(Octets) /\ Len(a \o b) = Len(a) + Len(b) /\ Follows(a \o b, from)
<1> DEFINE c == a \o b
<1>1. /\ c \in Seq(Octets) /\ Len(c) = Len(a) + Len(b) /\ Len(a) \in Nat /\ Len(b) \in Nat
      /\ \A k \in 1..(Len(a) + Len(b)) : c[k] = IF k <= Len(a) THEN a[k] ELSE b[k - Len(a)]
      /\ Len(stream) \in Nat
  BY ConcatProperties
<1> HIDE DEF c
<1>2. ASSUME NEW k \in 1..Len(c) PROVE c[k] = stream[from + k]
  <2>1. CASE k <= Len(a)
    <3>1. k \in 1..Len(a) /\ c[k] = a[k]
      BY <1>1, <2>1
    <3> QED
      BY <3>1 DEF Follows
  <2>2. CASE ~(k <= Len(a))
    <3>1. k - Len(a) \in 1..Len(b) /\ (from + Len(a)) + (k - Len(a)) = from + k
      BY <1>1, <2>2
    <3>2. b[k - Len(a)] = stream[(from + Len(a)) + (k - Len(a))]
      BY <3>1 DEF Follows
    <3> QED
      BY <1>1, <2>2, <3>1, <3>2
  <2> QED
    BY <2>1, <2>2
<1>3. Follows(c, from)
  BY <1>1, <1>2 DEF Follows
<1> QED
  BY <1>1, <1>3 DEF c

(* The start of what follows a position follows it too.                    *)
LEMMA FollowsTake ==
  ASSUME NEW a \in Seq(Octets), NEW n \in 0..Len(a), NEW from \in Nat,
         stream \in Seq(Octets), Follows(a, from)
  PROVE  Follows(Take(a, n), from)
<1>1. Len(a) \in Nat /\ Len(stream) \in Nat
  OBVIOUS
<1> QED
  BY <1>1, TakeProperties DEF Follows

(* What is left follows a later position.                                  *)
LEMMA FollowsDrop ==
  ASSUME NEW a \in Seq(Octets), NEW n \in 0..Len(a), NEW from \in Nat,
         stream \in Seq(Octets), Follows(a, from)
  PROVE  Follows(Drop(a, n), from + n)
<1> DEFINE b == Drop(a, n)
<1>1. /\ Len(a) \in Nat /\ Len(stream) \in Nat /\ b \in Seq(Octets) /\ Len(b) = Len(a) - n
      /\ \A k \in 1..(Len(a) - n) : b[k] = a[n + k]
  BY DropProperties
<1> HIDE DEF b
<1>2. ASSUME NEW k \in 1..Len(b) PROVE b[k] = stream[(from + n) + k]
  <2>1. k \in 1..(Len(a) - n) /\ n + k \in 1..Len(a) /\ from + (n + k) = (from + n) + k
    BY <1>1
  <2>2. a[n + k] = stream[from + (n + k)]
    BY <2>1 DEF Follows
  <2> QED
    BY <1>1, <2>1, <2>2
<1>3. (from + n) + Len(b) <= Len(stream)
  BY <1>1 DEF Follows
<1> QED
  BY <1>2, <1>3 DEF Follows, b

(* A new buffer comes last in the queue.                                   *)
LEMMA CutAppend ==
  ASSUME NEW queue \in Seq(Seq(Octets)), NEW from, NEW to \in Nat, stream \in Seq(Octets),
         NEW b \in Seq(Octets), b # <<>>, Cut(queue, from, to), Follows(b, to)
  PROVE  Cut(Append(queue, b), from, to + Len(b))
<1> DEFINE n == Len(queue)
           r == Append(queue, b)
<1>1. PICK cut \in [1..(n + 1) -> 0..Len(stream)] :
        /\ cut[1] = from /\ cut[n + 1] = to
        /\ \A k \in 1..n : /\ queue[k] # <<>> /\ Follows(queue[k], cut[k])
                           /\ cut[k + 1] = cut[k] + Len(queue[k])
  BY DEF Cut
<1>2. /\ n \in Nat /\ Len(r) = n + 1 /\ r[n + 1] = b /\ \A k \in 1..n : r[k] = queue[k]
      /\ Len(b) \in Nat /\ Len(stream) \in Nat
  OBVIOUS
<1> HIDE DEF n, r
<1> DEFINE d == [k \in 1..(n + 2) |-> IF k = n + 2 THEN to + Len(b) ELSE cut[k]]
<1>3. d \in [1..(Len(r) + 1) -> 0..Len(stream)]
  <2>1. to + Len(b) \in 0..Len(stream)
    BY <1>2 DEF Follows
  <2> QED
    BY <1>1, <1>2, <2>1
<1>4. d[1] = from /\ d[Len(r) + 1] = to + Len(b)
  BY <1>1, <1>2
<1>5. ASSUME NEW k \in 1..Len(r)
      PROVE  r[k] # <<>> /\ Follows(r[k], d[k]) /\ d[k + 1] = d[k] + Len(r[k])
  <2>1. CASE k \in 1..n
    <3>1. d[k] = cut[k] /\ d[k + 1] = cut[k + 1] /\ r[k] = queue[k]
      BY <1>2, <2>1
    <3> QED
      BY <1>1, <2>1, <3>1
  <2>2. CASE k = n + 1
    <3>1. d[k] = to /\ d[k + 1] = to + Len(b) /\ r[k] = b
      BY <1>1, <1>2, <2>2
    <3> QED
      BY <3>1
  <2> QED
    BY <1>2, <2>1, <2>2
<1> HIDE DEF d
<1>6. Cut(r, from, to + Len(b))
  BY <1>3, <1>4, <1>5 DEF Cut
<1> QED
  BY <1>6 DEF r

(* The first buffer, and what is left in the queue.                        *)
LEMMA CutTail ==
  ASSUME NEW queue \in Seq(Seq(Octets)), queue # <<>>, NEW from, NEW to,
         stream \in Seq(Octets), Cut(queue, from, to)
  PROVE  /\ Head(queue) \in Seq(Octets) /\ Head(queue) # <<>> /\ Follows(Head(queue), from)
         /\ Tail(queue) \in Seq(Seq(Octets))
         /\ Cut(Tail(queue), from + Len(Head(queue)), to)
<1> DEFINE n == Len(queue)
           r == Tail(queue)
           h == Head(queue)
<1>1. PICK cut \in [1..(n + 1) -> 0..Len(stream)] :
        /\ cut[1] = from /\ cut[n + 1] = to
        /\ \A k \in 1..n : /\ queue[k] # <<>> /\ Follows(queue[k], cut[k])
                           /\ cut[k + 1] = cut[k] + Len(queue[k])
  BY DEF Cut
<1>2. /\ n \in Nat /\ n > 0 /\ Len(r) = n - 1 /\ \A k \in 1..(n - 1) : r[k] = queue[k + 1]
      /\ h = queue[1] /\ h \in Seq(Octets) /\ Len(stream) \in Nat
      /\ r \in Seq(Seq(Octets))
  OBVIOUS
<1> HIDE DEF n, r, h
<1> DEFINE d == [k \in 1..n |-> cut[k + 1]]
<1>3. d \in [1..(Len(r) + 1) -> 0..Len(stream)]
  BY <1>1, <1>2
<1>4. h # <<>> /\ Follows(h, from) /\ cut[2] = from + Len(h)
  <2>1. 1 \in 1..n /\ 1 + 1 = 2
    BY <1>2
  <2> QED
    BY <1>1, <1>2, <2>1
<1>5. d[1] = from + Len(h) /\ d[Len(r) + 1] = to
  BY <1>1, <1>2, <1>4
<1>6. ASSUME NEW k \in 1..Len(r)
      PROVE  r[k] # <<>> /\ Follows(r[k], d[k]) /\ d[k + 1] = d[k] + Len(r[k])
  <2>1. k + 1 \in 1..n /\ k \in 1..n /\ r[k] = queue[k + 1]
    BY <1>2
  <2>2. d[k] = cut[k + 1] /\ d[k + 1] = cut[(k + 1) + 1]
    BY <2>1
  <2> QED
    BY <1>1, <2>1, <2>2
<1> HIDE DEF d
<1>7. Cut(r, from + Len(h), to)
  BY <1>3, <1>5, <1>6 DEF Cut
<1> QED
  BY <1>2, <1>4, <1>7 DEF r, h

(* push_front: a buffer goes back to the front of the queue.               *)
LEMMA CutPushFront ==
  ASSUME NEW queue \in Seq(Seq(Octets)), NEW from \in Nat, NEW to, stream \in Seq(Octets),
         NEW b \in Seq(Octets), b # <<>>, Follows(b, from), Cut(queue, from + Len(b), to)
  PROVE  <<b>> \o queue \in Seq(Seq(Octets)) /\ Cut(<<b>> \o queue, from, to)
<1> DEFINE n == Len(queue)
           r == <<b>> \o queue
<1>1. PICK cut \in [1..(n + 1) -> 0..Len(stream)] :
        /\ cut[1] = from + Len(b) /\ cut[n + 1] = to
        /\ \A k \in 1..n : /\ queue[k] # <<>> /\ Follows(queue[k], cut[k])
                           /\ cut[k + 1] = cut[k] + Len(queue[k])
  BY DEF Cut
<1>2. /\ n \in Nat /\ Len(r) = n + 1 /\ r[1] = b /\ \A k \in 2..(n + 1) : r[k] = queue[k - 1]
      /\ Len(b) \in Nat /\ Len(stream) \in Nat /\ r \in Seq(Seq(Octets))
  <2>1. <<b>> \in Seq(Seq(Octets)) /\ Len(<<b>>) = 1 /\ <<b>>[1] = b
    OBVIOUS
  <2>2. /\ r \in Seq(Seq(Octets)) /\ Len(r) = Len(<<b>>) + Len(queue)
        /\ \A k \in 1..(Len(<<b>>) + Len(queue)) :
             r[k] = IF k <= Len(<<b>>) THEN <<b>>[k] ELSE queue[k - Len(<<b>>)]
    BY <2>1, ConcatProperties
  <2> QED
    BY <2>1, <2>2
<1> HIDE DEF n, r
<1> DEFINE d == [k \in 1..(n + 2) |-> IF k = 1 THEN from ELSE cut[k - 1]]
<1>3. d \in [1..(Len(r) + 1) -> 0..Len(stream)]
  <2>1. from \in 0..Len(stream)
    BY <1>2 DEF Follows
  <2> QED
    BY <1>1, <1>2, <2>1
<1>4. d[1] = from /\ d[Len(r) + 1] = to
  BY <1>1, <1>2
<1>5. ASSUME NEW k \in 1..Len(r)
      PROVE  r[k] # <<>> /\ Follows(r[k], d[k]) /\ d[k + 1] = d[k] + Len(r[k])
  <2>1. CASE k = 1
    <3>1. d[k] = from /\ d[k + 1] = from + Len(b) /\ r[k] = b
      BY <1>1, <1>2, <2>1
    <3> QED
      BY <3>1
  <2>2. CASE k \in 2..(n + 1)
    <3>1. k - 1 \in 1..n /\ k \in 1..(n + 2) /\ k + 1 \in 1..(n + 2) /\ r[k] = queue[k - 1]
      BY <1>2, <2>2
    <3>2. (k - 1) + 1 = k /\ (k + 1) - 1 = k /\ k # 1 /\ k + 1 # 1
      BY <2>2
    <3>3. d[k] = cut[k - 1] /\ d[k + 1] = cut[(k - 1) + 1]
      BY <3>1, <3>2
    <3> QED
      BY <1>1, <3>1, <3>3
  <2> QED
    BY <1>2, <2>1, <2>2
<1> HIDE DEF d
<1>6. Cut(r, from, to)
  BY <1>3, <1>4, <1>5 DEF Cut
<1> QED
  BY <1>2, <1>6 DEF r

(* An empty queue: the two positions are one.                              *)
LEMMA CutEmpty ==
  ASSUME stream \in Seq(Octets), NEW from \in 0..Len(stream), NEW to
  PROVE  Cut(<<>>, from, to) <=> from = to
<1>1. ASSUME Cut(<<>>, from, to) PROVE from = to
  BY <1>1 DEF Cut
<1>2. ASSUME from = to PROVE Cut(<<>>, from, to)
  <2> DEFINE d == [k \in 1..1 |-> from]
  <2>1. d \in [1..(0 + 1) -> 0..Len(stream)] /\ d[1] = from /\ d[0 + 1] = to
    BY <1>2
  <2>2. Len(<<>>) = 0 /\ 1..0 = {}
    OBVIOUS
  <2> HIDE DEF d
  <2> QED
    BY <2>1, <2>2 DEF Cut
<1> QED
  BY <1>1, <1>2

-----------------------------------------------------------------------------
(* What handle_read of an operation owes: shown what follows on the stream,*)
(* it consumes a part of it and its context still agrees with the stream.  *)
Reads(op, c, in, upto) ==
  /\ handle_read(op, c, in).ctx \in Contexts
  /\ handle_read(op, c, in).ctx.eof = c.eof
  /\ handle_read(op, c, in).consumed \in 0..Len(in)
  /\ Kept(op, handle_read(op, c, in).ctx, upto + handle_read(op, c, in).consumed)
  /\ handle_read(op, c, in).consumed = 0 => op.kind # "int32"

(* It is shown what follows, before it has consumed anything.              *)
Shows(op, c, in, upto) ==
  /\ stream \in Seq(Octets) /\ Began \in Nat
  /\ c \in Contexts /\ in \in Seq(Octets) /\ in # <<>> /\ upto \in Nat
  /\ Follows(in, upto) /\ Kept(op, c, upto)

(* ReadStaticOctets takes all of its contents or nothing.                  *)
LEMMA StaticReads ==
  ASSUME NEW op, op.kind = "static", op.contents \in Seq(Octets),
         NEW c, NEW in, NEW upto, Shows(op, c, in, upto), upto = Began
  PROVE  Reads(op, c, in, upto)
<1> DEFINE r == handle_read(op, c, in)
           n == Len(op.contents)
<1>1. r = StaticRead(op, c, in)
  BY DEF handle_read
<1>2. n \in Nat /\ Len(in) \in Nat /\ upto \in Nat /\ c \in Contexts /\ stream \in Seq(Octets)
  BY DEF Shows
<1>3. CASE Len(in) < n
  <2>1. r = [ctx |-> c, consumed |-> 0]
    BY <1>1, <1>3 DEF StaticRead, Shown
  <2>2. upto + 0 = upto
    BY <1>2
  <2> QED
    BY <1>2, <2>1, <2>2 DEF Reads, Shows
<1>4. CASE ~(Len(in) < n)
  <2> DEFINE b == Take(in, n)
             d == [c EXCEPT !.buffer = b]
  <2>1. r = [ctx |-> d, consumed |-> n]
    BY <1>1, <1>4 DEF StaticRead, Shown
  <2>2. b \in Seq(Octets) /\ Len(b) = n /\ Follows(b, Began)
    BY <1>2, <1>4, TakeProperties, FollowsTake DEF Shows
  <2>3. d \in Contexts /\ d.buffer = b /\ d.eof = c.eof
    BY <1>2, <2>2 DEF Contexts
  <2> HIDE DEF b, d
  <2>4. Kept(op, d, upto + n)
    BY <2>2, <2>3 DEF Kept
  <2> QED
    BY <1>2, <1>4, <2>1, <2>3, <2>4 DEF Reads
<1> QED
  BY <1>3, <1>4

(* ReadInt32Native takes what there is, up to four octets.                 *)
LEMMA Int32Reads ==
  ASSUME NEW op, op.kind = "int32",
         NEW c, NEW in, NEW upto, Shows(op, c, in, upto), Len(c.buffer) < 4
  PROVE  Reads(op, c, in, upto)
<1> DEFINE m == Len(c.buffer)
           n == IF Len(in) > 4 - m THEN 4 - m ELSE Len(in)
           b == Take(in, n)
           e == c.buffer \o b
           d == [c EXCEPT !.buffer = e]
<1>1. handle_read(op, c, in) = [ctx |-> d, consumed |-> n]
  BY DEF handle_read, Int32Read, Shown
<1>2. /\ m \in Nat /\ m < 4 /\ Len(in) \in Nat /\ Len(in) > 0 /\ c.buffer \in Seq(Octets)
      /\ upto \in Nat /\ Began \in Nat /\ upto = Began + m /\ stream \in Seq(Octets)
      /\ in \in Seq(Octets) /\ Follows(c.buffer, Began) /\ Follows(in, upto) /\ c \in Contexts
  BY DEF Shows, Kept, Contexts
<1> HIDE DEF m
<1>3. n \in 0..Len(in) /\ n # 0 /\ m + n <= 4
  BY <1>2
<1> HIDE DEF n
<1>4. b \in Seq(Octets) /\ Len(b) = n /\ Follows(b, upto)
  BY <1>2, <1>3, TakeProperties, FollowsTake
<1> HIDE DEF b
<1>5. e \in Seq(Octets) /\ Len(e) = m + n /\ Follows(e, Began)
  BY <1>2, <1>4, FollowsConcat DEF m
<1> HIDE DEF e
<1>6. d \in Contexts /\ d.buffer = e /\ d.eof = c.eof
  BY <1>2, <1>5 DEF Contexts
<1> HIDE DEF d
<1>7. upto + n = Began + Len(d.buffer) /\ Len(d.buffer) <= 4
  <2>1. Len(d.buffer) = m + n
    BY <1>5, <1>6
  <2>2. n \in Nat /\ m \in Nat /\ upto = Began + m /\ Began \in Nat /\ m + n <= 4
    BY <1>2, <1>3
  <2> QED
    BY <2>1, <2>2
<1>8. Kept(op, d, upto + n)
  BY <1>5, <1>6, <1>7 DEF Kept
<1> QED
  BY <1>1, <1>2, <1>3, <1>6, <1>8 DEF Reads

(* DigitCount counts the digits up to the first octet that is not one.     *)
LEMMA DigitsCounted ==
  ASSUME NEW in \in Seq(Octets)
  PROVE  /\ DigitCount(in) \in 0..Len(in) /\ \A k \in 1..DigitCount(in) : IsDigit(in[k])
         /\ DigitCount(in) # Len(in) => ~IsDigit(in[DigitCount(in) + 1])
<1> DEFINE stops == {k \in 1..Len(in) : ~IsDigit(in[k])}
           n == DigitCount(in)
<1>1. Len(in) \in Nat /\ stops \subseteq Nat
  OBVIOUS
<1>2. n = IF stops = {} THEN Len(in) ELSE Min(stops) - 1
  BY DEF DigitCount
<1>3. CASE stops = {}
  BY <1>1, <1>2, <1>3
<1>4. CASE stops # {}
  <2> DEFINE m == Min(stops)
  <2>1. m \in stops /\ \A y \in stops : m <= y
    <3> HIDE DEF stops
    <3> QED
      BY <1>1, <1>4, MinOfNaturals
  <2>2. n = m - 1
    BY <1>2, <1>4
  <2> HIDE DEF m, n
  <2>3. n \in 0..Len(in) /\ n + 1 = m /\ ~IsDigit(in[m])
    BY <1>1, <2>1, <2>2
  <2>4. \A k \in 1..n : IsDigit(in[k])
    BY <1>1, <2>1, <2>3
  <2> QED
    BY <2>3, <2>4 DEF n
<1> QED
  BY <1>3, <1>4

(* ReadIntFromAscii takes the digits once it has seen their end.           *)
LEMMA IntReads ==
  ASSUME NEW op, op.kind = "int",
         NEW c, NEW in, NEW upto, Shows(op, c, in, upto), upto = Began
  PROVE  Reads(op, c, in, upto)
<1> DEFINE r == handle_read(op, c, in)
           n == DigitCount(in)
<1>1. r = IntRead(op, c, in)
  BY DEF handle_read
<1>2. /\ Len(in) \in Nat /\ upto \in Nat /\ c \in Contexts /\ stream \in Seq(Octets)
      /\ Len(stream) \in Nat /\ in \in Seq(Octets) /\ Follows(in, Began)
  BY DEF Shows
<1>3. /\ n \in 0..Len(in) /\ \A k \in 1..n : IsDigit(in[k])
      /\ n # Len(in) => ~IsDigit(in[n + 1])
  BY <1>2, DigitsCounted
<1>4. CASE n = Len(in)
  <2>1. r = [ctx |-> c, consumed |-> 0]
    BY <1>1, <1>4 DEF IntRead, Shown
  <2>2. upto + 0 = upto
    BY <1>2
  <2> QED
    BY <1>2, <2>1, <2>2 DEF Reads, Shows
<1>5. CASE n # Len(in)
  <2> DEFINE b == Take(in, n)
             d == [c EXCEPT !.buffer = b, !.ready = TRUE]
  <2>1. r = [ctx |-> d, consumed |-> n]
    BY <1>1, <1>5 DEF IntRead, Shown
  <2> HIDE DEF n
  <2>2. /\ b \in Seq(Octets) /\ Len(b) = n /\ \A k \in 1..n : b[k] = in[k]
        /\ Follows(b, Began)
    BY <1>2, <1>3, TakeProperties, FollowsTake
  <2>3. d \in Contexts /\ d.buffer = b /\ d.ready = TRUE /\ d.eof = c.eof
    BY <1>2, <2>2 DEF Contexts
  <2> HIDE DEF b, d
  <2>4. upto + n < Len(stream) /\ ~IsDigit(stream[(upto + n) + 1])
    <3>1. n + 1 \in 1..Len(in) /\ Began + (n + 1) = (upto + n) + 1
      BY <1>2, <1>3, <1>5
    <3>2. in[n + 1] = stream[Began + (n + 1)] /\ Began + Len(in) <= Len(stream)
      BY <1>2, <3>1 DEF Follows
    <3> QED
      BY <1>2, <1>3, <1>5, <3>1, <3>2
  <2>5. \A k \in 1..Len(b) : IsDigit(b[k])
    BY <1>3, <2>2
  <2>6. Kept(op, d, upto + n)
    BY <2>2, <2>3, <2>4, <2>5 DEF Kept
  <2> QED
    BY <1>2, <1>3, <2>1, <2>3, <2>6 DEF Reads
<1> QED
  BY <1>4, <1>5

(* An occurrence in what follows is one in the stream.                     *)
LEMMA OccursInStream ==
  ASSUME NEW in \in Seq(Octets), NEW t \in Seq(Octets), NEW from \in Nat, NEW p \in Nat,
         stream \in Seq(Octets), Follows(in, from)
  PROVE  /\ Occurs(in, t, p) => EndsAt(t, from + p)
         /\ EndsAt(t, from + p) /\ p + Len(t) <= Len(in) => Occurs(in, t, p)
<1>1. Len(in) \in Nat /\ Len(t) \in Nat /\ Len(stream) \in Nat
  OBVIOUS
<1>2. ASSUME p + Len(t) <= Len(in), NEW j \in 1..Len(t)
      PROVE  in[p + j] = stream[(from + p) + j]
  <2>1. p + j \in 1..Len(in) /\ from + (p + j) = (from + p) + j
    BY <1>1, <1>2
  <2>2. in[p + j] = stream[from + (p + j)]
    BY <2>1 DEF Follows
  <2> QED
    BY <2>1, <2>2
<1>3. p + Len(t) <= Len(in) => (from + p) + Len(t) <= Len(stream)
  BY <1>1 DEF Follows
<1> QED
  BY <1>2, <1>3 DEF Occurs, EndsAt

(* ReadOctetsUntilTerminator takes the text with the first terminator.     *)
LEMMA UntilReads ==
  ASSUME NEW op, op.kind = "until", op.terminator \in Seq(Octets), op.terminator # <<>>,
         NEW c, NEW in, NEW upto, Shows(op, c, in, upto), upto = Began, ~c.ready
  PROVE  Reads(op, c, in, upto)
<1> DEFINE r == handle_read(op, c, in)
           t == op.terminator
           pos == Find(in, t, 0)
<1>1. r = UntilRead(op, c, in)
  BY DEF handle_read
<1>2. /\ Len(in) \in Nat /\ upto \in Nat /\ c \in Contexts /\ stream \in Seq(Octets)
      /\ Len(stream) \in Nat /\ in \in Seq(Octets) /\ Follows(in, Began) /\ Began \in Nat
      /\ t \in Seq(Octets) /\ Len(t) \in Nat
  BY DEF Shows
<1>3. CASE pos = NPos
  <2>1. r = [ctx |-> c, consumed |-> 0]
    BY <1>1, <1>3 DEF UntilRead, Shown
  <2>2. upto + 0 = upto
    BY <1>2
  <2> QED
    BY <1>2, <2>1, <2>2 DEF Reads, Shows
<1>4. CASE pos # NPos
  <2> DEFINE b == Take(in, pos)
             d == [c EXCEPT !.buffer = b, !.ready = TRUE]
  <2>1. r = [ctx |-> d, consumed |-> pos + Len(t)]
    BY <1>1, <1>4 DEF UntilRead, Shown
  <2>2. pos \in Nat /\ Occurs(in, t, pos) /\ \A p \in Nat : p < pos => ~Occurs(in, t, p)
    BY <1>2, <1>4, FindIsFirst
  <2> HIDE DEF pos, t
  <2>3. pos + Len(t) <= Len(in) /\ pos \in 0..Len(in)
    BY <1>2, <2>2 DEF Occurs
  <2>4. b \in Seq(Octets) /\ Len(b) = pos /\ Follows(b, Began)
    BY <1>2, <2>3, TakeProperties, FollowsTake
  <2>5. d \in Contexts /\ d.buffer = b /\ d.ready = TRUE /\ d.eof = c.eof
    BY <1>2, <2>4 DEF Contexts
  <2> HIDE DEF b, d
  <2>6. EndsAt(t, Began + pos)
    BY <1>2, <2>2, OccursInStream
  <2>7. ASSUME NEW k \in 0..(pos - 1) PROVE ~EndsAt(t, Began + k)
    <3>1. k \in Nat /\ k < pos /\ k + Len(t) <= Len(in)
      BY <1>2, <2>2, <2>3
    <3> QED
      BY <1>2, <2>2, <3>1, OccursInStream
  <2>8. upto + (pos + Len(t)) = Began + pos + Len(t)
    BY <1>2, <2>2
  <2>9. Kept(op, d, upto + (pos + Len(t)))
    BY <2>4, <2>5, <2>6, <2>7, <2>8 DEF Kept, t
  <2>10. pos + Len(t) \in 0..Len(in)
    BY <1>2, <2>2, <2>3
  <2> QED
    BY <2>1, <2>5, <2>9, <2>10 DEF Reads
<1> QED
  BY <1>3, <1>4

(* TerminateListIfReadAhead takes the terminator or nothing.               *)
LEMMA AheadReads ==
  ASSUME NEW op, op.kind = "ahead", op.terminator \in Seq(Octets),
         NEW c, NEW in, NEW upto, Shows(op, c, in, upto), upto = Began
  PROVE  Reads(op, c, in, upto)
<1> DEFINE r == handle_read(op, c, in)
           t == op.terminator
           n == IF StartsWith(in, t) THEN Len(t) ELSE 0
           d == [c EXCEPT !.buffer = in]
<1>1. r = [ctx |-> d, consumed |-> n]
  BY DEF handle_read, AheadRead, Shown
<1>2. /\ Len(in) \in Nat /\ upto \in Nat /\ c \in Contexts /\ in \in Seq(Octets)
      /\ Follows(in, Began) /\ Len(t) \in Nat
  BY DEF Shows
<1>3. d \in Contexts /\ d.buffer = in /\ d.eof = c.eof
  BY <1>2 DEF Contexts
<1>4. n \in 0..Len(in)
  BY <1>2 DEF StartsWith
<1> HIDE DEF d
<1>5. Kept(op, d, upto + n)
  BY <1>2, <1>3 DEF Kept
<1> HIDE DEF n
<1> QED
  BY <1>1, <1>3, <1>4, <1>5 DEF Reads

(* TransitionLookahead takes nothing.                                      *)
LEMMA LookReads ==
  ASSUME NEW op, op.kind = "look",
         NEW c, NEW in, NEW upto, Shows(op, c, in, upto), upto = Began
  PROVE  Reads(op, c, in, upto)
<1> DEFINE r == handle_read(op, c, in)
           d == [c EXCEPT !.buffer = in]
<1>1. r = [ctx |-> d, consumed |-> 0]
  BY DEF handle_read, LookRead, Shown
<1>2. /\ Len(in) \in Nat /\ upto \in Nat /\ c \in Contexts /\ in \in Seq(Octets)
      /\ Follows(in, Began)
  BY DEF Shows
<1>3. d \in Contexts /\ d.buffer = in /\ d.eof = c.eof
  BY <1>2 DEF Contexts
<1> HIDE DEF d
<1>4. Kept(op, d, upto + 0)
  BY <1>2, <1>3 DEF Kept
<1> QED
  BY <1>1, <1>2, <1>3, <1>4 DEF Reads

(* What operator() returns when it does not wait.                          *)
LEMMA Tags ==
  /\ \A b : Bool(b) # WaitingForRead /\ Int32(b) # WaitingForRead
  /\ \A b : OctetsValue(b) # WaitingForRead
  /\ ProtocolMismatchError # WaitingForRead /\ InterruptGenerator # WaitingForRead
BY DEF Bool, Int32, OctetsValue, ProtocolMismatchError, InterruptGenerator, WaitingForRead,
       Result

(* A read that waits has consumed nothing, except for ReadInt32Native.     *)
LEMMA WaitsAtStart ==
  ASSUME NEW op, PlainRead(op), op.kind # "int32", NEW c \in Contexts, NEW upto,
         Began \in Nat, Kept(op, c, upto), Evaluate(op, c) = WaitingForRead
  PROVE  upto = Began
<1>0. c.buffer \in Seq(Octets) /\ Len(c.buffer) \in Nat
  BY DEF Contexts
<1>1. CASE op.kind = "static"
  <2>1. op.contents \in Seq(Octets) /\ Len(op.contents) \in Nat
    BY <1>1 DEF PlainRead
  <2>2. Evaluate(op, c) = StaticEval(op, c)
    BY <1>1 DEF Evaluate
  <2>3. Len(c.buffer) < Len(op.contents)
    <3> SUFFICES ASSUME ~(Len(c.buffer) < Len(op.contents)) PROVE FALSE
      OBVIOUS
    <3>1. Evaluate(op, c) \in {Bool(TRUE), ProtocolMismatchError}
      BY <2>2 DEF StaticEval
    <3> QED
      BY <3>1, Tags
  <2> QED
    BY <1>0, <1>1, <2>1, <2>3 DEF Kept
<1>2. CASE op.kind = "int"
  <2>1. Evaluate(op, c) = IntEval(op, c)
    BY <1>2 DEF Evaluate
  <2>2. ~c.ready
    BY <2>1, Tags DEF IntEval
  <2> QED
    BY <1>2, <2>2 DEF Kept
<1>3. CASE op.kind = "until"
  <2>1. Evaluate(op, c) = UntilEval(op, c)
    BY <1>3 DEF Evaluate
  <2>2. ~c.ready
    BY <2>1, Tags DEF UntilEval
  <2> QED
    BY <1>3, <2>2 DEF Kept
<1>4. CASE op.kind = "ahead"
  <2>1. op.terminator \in Seq(Octets) /\ Len(op.terminator) \in Nat \ {0}
    BY <1>4, EmptySeq DEF PlainRead
  <2>2. Evaluate(op, c) = AheadEval(op, c)
    BY <1>4 DEF Evaluate
  <2>3. MayStillMatch(c.buffer, op.terminator)
    <3> SUFFICES ASSUME ~MayStillMatch(c.buffer, op.terminator) PROVE FALSE
      OBVIOUS
    <3>1. Evaluate(op, c) \in {InterruptGenerator, Bool(FALSE)}
      BY <2>2 DEF AheadEval
    <3> QED
      BY <3>1, Tags
  <2>4. ~StartsWith(c.buffer, op.terminator)
    BY <1>0, <2>1, <2>3, EmptySeq DEF MayStillMatch, StartsWith
  <2> QED
    BY <1>4, <2>4 DEF Kept
<1>5. CASE op.kind = "look"
  BY <1>5 DEF Kept
<1> QED
  BY <1>1, <1>2, <1>3, <1>4, <1>5 DEF PlainRead

(* Every plain read, whenever handle_read or its loop shows it something.  *)
LEMMA PlainReads ==
  ASSUME NEW op, PlainRead(op), NEW c, NEW in, NEW upto, Shows(op, c, in, upto),
         \/ upto = Began /\ op.kind # "int32"
         \/ Evaluate(op, c) = WaitingForRead
  PROVE  Reads(op, c, in, upto) /\ (op.kind # "int32" => upto = Began)
<1>0. /\ Began \in Nat /\ upto \in Nat /\ c.buffer \in Seq(Octets) /\ Len(c.buffer) \in Nat
      /\ Kept(op, c, upto) /\ c \in Contexts
  BY DEF Shows, Contexts
<1>1. CASE op.kind = "int32"
  <2>1. Evaluate(op, c) = Int32Eval(op, c) /\ Evaluate(op, c) = WaitingForRead
    BY <1>1 DEF Evaluate
  <2>2. Len(c.buffer) < 4
    BY <2>1, Tags DEF Int32Eval
  <2> QED
    BY <1>1, <2>2, Int32Reads
<1>2. CASE op.kind # "int32"
  <2>1. upto = Began
    BY <1>0, <1>2, WaitsAtStart
  <2>2. CASE op.kind = "static"
    <3>1. op.contents \in Seq(Octets)
      BY <2>2 DEF PlainRead
    <3> QED
      BY <2>1, <2>2, <3>1, StaticReads
  <2>3. CASE op.kind = "int"
    BY <2>1, <2>3, IntReads
  <2>4. CASE op.kind = "until"
    <3>1. op.terminator \in Seq(Octets) /\ op.terminator # <<>>
          /\ Len(op.terminator) \in Nat \ {0}
      BY <2>4, EmptySeq DEF PlainRead
    <3>2. ~c.ready
      BY <1>0, <2>1, <2>4, <3>1 DEF Kept
    <3> QED
      BY <2>1, <2>4, <3>1, <3>2, UntilReads
  <2>5. CASE op.kind = "ahead"
    <3>1. op.terminator \in Seq(Octets)
      BY <2>5 DEF PlainRead
    <3> QED
      BY <2>1, <2>5, <3>1, AheadReads
  <2>6. CASE op.kind = "look"
    BY <2>1, <2>6, LookReads
  <2> QED
    BY <1>2, <2>1, <2>2, <2>3, <2>4, <2>5, <2>6 DEF PlainRead
<1> QED
  BY <1>1, <1>2

-----------------------------------------------------------------------------
(* What follows a position, read as a part of the rest of the stream.      *)
LEMMA FollowsIsStart ==
  ASSUME NEW b \in Seq(Octets), NEW from \in 0..Len(stream), stream \in Seq(Octets),
         Follows(b, from), NEW s, s = Drop(stream, from)
  PROVE  /\ s \in Seq(Octets) /\ Len(s) = Len(stream) - from /\ Len(b) <= Len(s)
         /\ \A k \in 1..Len(b) : b[k] = s[k]
         /\ Take(s, Len(b)) = b
<1>1. /\ s \in Seq(Octets) /\ Len(s) = Len(stream) - from /\ Len(stream) \in Nat
      /\ \A k \in 1..(Len(stream) - from) : s[k] = stream[from + k]
  BY DropProperties
<1>2. Len(b) \in Nat /\ from + Len(b) <= Len(stream) /\ Len(b) <= Len(s)
  BY <1>1 DEF Follows
<1>3. ASSUME NEW k \in 1..Len(b) PROVE b[k] = s[k]
  <2>1. k \in 1..(Len(stream) - from)
    BY <1>1, <1>2
  <2> QED
    BY <1>1, <2>1 DEF Follows
<1>4. Take(s, Len(b)) = b
  <2> DEFINE u == Take(s, Len(b))
  <2>1. u \in Seq(Octets) /\ Len(u) = Len(b) /\ \A k \in 1..Len(b) : u[k] = s[k]
    <3>1. Len(b) \in 0..Len(s)
      BY <1>1, <1>2
    <3> QED
      BY <1>1, <3>1, TakeProperties
  <2> HIDE DEF u
  <2>2. u = b
    BY <1>3, <2>1, SeqEqual
  <2> QED
    BY <2>2 DEF u
<1> QED
  BY <1>1, <1>2, <1>3, <1>4

(* An occurrence in the rest of the stream is one in the stream.           *)
LEMMA OccursInRest ==
  ASSUME stream \in Seq(Octets), NEW from \in 0..Len(stream), NEW t \in Seq(Octets),
         NEW p \in Nat
  PROVE  Occurs(Drop(stream, from), t, p) <=> EndsAt(t, from + p)
<1> DEFINE s == Drop(stream, from)
<1>1. /\ s \in Seq(Octets) /\ Len(s) = Len(stream) - from /\ Len(stream) \in Nat
      /\ \A k \in 1..(Len(stream) - from) : s[k] = stream[from + k] /\ from \in Nat
  BY DropProperties
<1>2. Follows(s, from)
  BY <1>1 DEF Follows
<1> HIDE DEF s
<1>3. Len(t) \in Nat
  OBVIOUS
<1>4. EndsAt(t, from + p) => p + Len(t) <= Len(s)
  BY <1>1, <1>3 DEF EndsAt
<1>5. Occurs(s, t, p) <=> EndsAt(t, from + p)
  BY <1>1, <1>2, <1>4, OccursInStream
<1> QED
  BY <1>5 DEF s

(* What operator() of an operation that returns owes: what the operation   *)
(* means on the rest of the stream.                                        *)
Returns(op, c, upto) ==
  /\ stream \in Seq(Octets) /\ Began \in 0..Len(stream)
  /\ c \in Contexts /\ upto \in Nat /\ Kept(op, c, upto)
  /\ c.eof => upto = Len(stream)
  /\ Evaluate(op, c) # WaitingForRead
Means(op, c, upto) ==
  LET m == Meaning(op, Drop(stream, Began), TRUE)
  IN  /\ Evaluate(op, c) = m.value
      /\ Evaluate(op, c) # ProtocolMismatchError => upto = Began + m.length

(* A value and a length that Meaning gives.                                *)
LEMMA MeansThat ==
  ASSUME NEW op, NEW c, NEW upto, NEW v, NEW n,
         Meaning(op, Drop(stream, Began), TRUE) = Covers(v, n), Evaluate(op, c) = v,
         v # ProtocolMismatchError => upto = Began + n
  PROVE  Means(op, c, upto)
<1>1. Covers(v, n).value = v /\ Covers(v, n).length = n
  BY DEF Covers
<1> QED
  BY <1>1 DEF Means

(* What the proofs below have in common.                                   *)
LEMMA ReturnsFacts ==
  ASSUME NEW op, NEW c, NEW upto, Returns(op, c, upto), NEW s, s = Drop(stream, Began)
  PROVE  /\ stream \in Seq(Octets) /\ Len(stream) \in Nat
         /\ Began \in 0..Len(stream) /\ Began \in Nat /\ Kept(op, c, upto)
         /\ c.buffer \in Seq(Octets) /\ Len(c.buffer) \in Nat /\ upto \in Nat
         /\ s \in Seq(Octets) /\ Len(s) \in Nat /\ Len(s) = Len(stream) - Began
         /\ c.eof /\ upto = Began => s = <<>>
<1>1. /\ stream \in Seq(Octets) /\ Len(stream) \in Nat
      /\ Began \in 0..Len(stream) /\ Began \in Nat /\ Kept(op, c, upto)
      /\ c.buffer \in Seq(Octets) /\ Len(c.buffer) \in Nat /\ upto \in Nat
      /\ c.eof => upto = Len(stream)
  BY DEF Returns, Contexts
<1>2. s \in Seq(Octets) /\ Len(s) = Len(stream) - Began /\ Len(s) \in Nat
  BY <1>1, DropProperties
<1>3. c.eof /\ upto = Began => Len(s) = 0
  BY <1>1, <1>2
<1> QED
  BY <1>1, <1>2, <1>3, EmptySeq

(* ReadStaticOctets compares what it took with its contents.               *)
LEMMA StaticMeans ==
  ASSUME NEW op, op.kind = "static", op.contents \in Seq(Octets),
         \A k \in DOMAIN op.contents : op.contents[k] # 0,
         NEW c, NEW upto, Returns(op, c, upto)
  PROVE  Means(op, c, upto)
<1> DEFINE n == Len(op.contents)
<1>0. PICK s : s = Drop(stream, Began)
  OBVIOUS
<1>1. /\ stream \in Seq(Octets) /\ Began \in 0..Len(stream) /\ Began \in Nat
      /\ c.buffer \in Seq(Octets) /\ Len(c.buffer) \in Nat /\ upto \in Nat
      /\ s \in Seq(Octets) /\ Len(s) \in Nat /\ n \in Nat
      /\ c.eof /\ upto = Began => s = <<>>
  BY <1>0, ReturnsFacts
<1>2. /\ c.buffer = <<>> \/ Len(c.buffer) = n
      /\ Follows(c.buffer, Began) /\ upto = Began + Len(c.buffer)
  BY DEF Returns, Kept
<1>3. Len(c.buffer) <= Len(s) /\ \A k \in 1..Len(c.buffer) : c.buffer[k] = s[k]
  BY <1>0, <1>1, <1>2, FollowsIsStart
<1>4. Evaluate(op, c) = StaticEval(op, c) /\ Evaluate(op, c) # WaitingForRead
  BY DEF Evaluate, Returns
<1>5. CASE Len(c.buffer) < n
  <2>1. c.eof /\ Evaluate(op, c) = ProtocolMismatchError
    BY <1>4, <1>5 DEF StaticEval
  <2>2. c.buffer = <<>> /\ upto = Began /\ Len(s) = 0
    BY <1>1, <1>2, <1>5, <2>1
  <2>3. ~Decided(op, s, TRUE)
    BY <1>1, <1>5, <2>2 DEF Decided
  <2>4. Meaning(op, s, TRUE) = Covers(ProtocolMismatchError, 0)
    BY <2>3 DEF Meaning
  <2> QED
    BY <1>0, <2>1, <2>4, MeansThat
<1>6. CASE ~(Len(c.buffer) < n)
  <2>1. Len(c.buffer) = n
    BY <1>1, <1>2, <1>6
  <2>2. Decided(op, s, TRUE)
    BY <1>1, <1>3, <2>1 DEF Decided
  <2>3. EqualTexts(c.buffer, op.contents) <=> IsPrefix(op.contents, s)
    <3>1. DOMAIN op.contents = 1..n
      OBVIOUS
    <3>2. \A k \in 1..n : \A j \in 1..k - 1 : op.contents[j] # 0
      <4> SUFFICES ASSUME NEW k \in 1..n, NEW j \in 1..k - 1 PROVE op.contents[j] # 0
        OBVIOUS
      <4>1. j \in 1..n
        BY <1>1
      <4> QED
        BY <3>1, <4>1
    <3>3. EqualTexts(c.buffer, op.contents) <=> \A k \in 1..n : c.buffer[k] = op.contents[k]
      BY <3>1, <3>2 DEF EqualTexts
    <3>4. EqualTexts(c.buffer, op.contents) <=> Occurs(s, op.contents, 0)
      BY <1>1, <1>3, <2>1, <3>3 DEF Occurs
    <3> QED
      BY <1>1, <3>4, StartIsOccurrence
  <2>4. Meaning(op, s, TRUE) = Covers(Evaluate(op, c), n)
    BY <1>4, <1>6, <2>2, <2>3 DEF Meaning, StaticEval
  <2> QED
    BY <1>0, <1>2, <2>1, <2>4, MeansThat
<1> QED
  BY <1>5, <1>6

(* ReadInt32Native returns the number of the next four octets.             *)
LEMMA Int32Means ==
  ASSUME NEW op, op.kind = "int32", NEW c, NEW upto, Returns(op, c, upto)
  PROVE  Means(op, c, upto)
<1>0. PICK s : s = Drop(stream, Began)
  OBVIOUS
<1>1. /\ stream \in Seq(Octets) /\ Began \in 0..Len(stream) /\ Began \in Nat
      /\ c.buffer \in Seq(Octets) /\ Len(c.buffer) \in Nat /\ upto \in Nat
      /\ s \in Seq(Octets) /\ Len(s) = Len(stream) - Began /\ Len(stream) \in Nat
  BY <1>0, ReturnsFacts
<1>2. /\ Len(c.buffer) <= 4
      /\ c.eof => upto = Len(stream)
      /\ Follows(c.buffer, Began) /\ upto = Began + Len(c.buffer)
  BY DEF Returns, Kept
<1>3. Len(c.buffer) <= Len(s) /\ \A k \in 1..Len(c.buffer) : c.buffer[k] = s[k]
  BY <1>0, <1>1, <1>2, FollowsIsStart
<1>4. Evaluate(op, c) = Int32Eval(op, c) /\ Evaluate(op, c) # WaitingForRead
  BY DEF Evaluate, Returns
<1>5. CASE Len(c.buffer) < 4
  <2>1. c.eof /\ Evaluate(op, c) = ProtocolMismatchError
    BY <1>4, <1>5 DEF Int32Eval
  <2>2. Len(s) < 4
    BY <1>1, <1>2, <1>5, <2>1
  <2>3. ~Decided(op, s, TRUE)
    BY <1>1, <2>2 DEF Decided
  <2>4. Meaning(op, s, TRUE) = Covers(ProtocolMismatchError, 0)
    BY <2>3 DEF Meaning
  <2> QED
    BY <1>0, <2>1, <2>4, MeansThat
<1>6. CASE ~(Len(c.buffer) < 4)
  <2>1. Len(c.buffer) = 4
    <3>1. Len(c.buffer) \in Nat /\ Len(c.buffer) <= 4
      BY <1>1, <1>2
    <3>2. \A m \in Nat : m <= 4 /\ ~(m < 4) => m = 4
      OBVIOUS
    <3> QED
      BY <1>6, <3>1, <3>2
  <2>2. Decided(op, s, TRUE)
    BY <1>1, <1>3, <2>1 DEF Decided
  <2>3. NativeInt32(c.buffer) = NativeInt32(s)
    <3>1. c.buffer[1] = s[1] /\ c.buffer[2] = s[2] /\ c.buffer[3] = s[3] /\ c.buffer[4] = s[4]
      BY <1>3, <2>1
    <3> QED
      BY <3>1, Zenon DEF NativeInt32
  <2>4. Meaning(op, s, TRUE) = Covers(Int32(NativeInt32(s)), 4)
    BY <2>2 DEF Meaning
  <2>5. Evaluate(op, c) = Int32(NativeInt32(s))
    BY <1>4, <1>6, <2>3 DEF Int32Eval
  <2> QED
    BY <1>0, <1>2, <2>1, <2>4, <2>5, MeansThat
<1> QED
  BY <1>5, <1>6

(* ReadIntFromAscii returns the number the next digits spell.              *)
LEMMA IntMeans ==
  ASSUME NEW op, op.kind = "int", NEW c, NEW upto, Returns(op, c, upto)
  PROVE  Means(op, c, upto)
<1> DEFINE n == Len(c.buffer)
<1>0. PICK s : s = Drop(stream, Began)
  OBVIOUS
<1>1. /\ stream \in Seq(Octets) /\ Began \in 0..Len(stream) /\ Began \in Nat
      /\ c.buffer \in Seq(Octets) /\ n \in Nat /\ upto \in Nat /\ Len(stream) \in Nat
      /\ s \in Seq(Octets) /\ Len(s) = Len(stream) - Began /\ Len(s) \in Nat
      /\ c.eof /\ upto = Began => s = <<>>
  BY <1>0, ReturnsFacts
<1>2. Evaluate(op, c) = IntEval(op, c) /\ Evaluate(op, c) # WaitingForRead
  BY DEF Evaluate, Returns
<1>3. CASE ~c.ready
  <2>1. c.eof /\ Evaluate(op, c) = ProtocolMismatchError
    BY <1>2, <1>3 DEF IntEval
  <2>2. upto = Began
    BY <1>3 DEF Returns, Kept
  <2>3. NonDigits(s) = {}
    BY <1>1, <2>1, <2>2 DEF NonDigits
  <2>4. Meaning(op, s, TRUE) = Covers(ProtocolMismatchError, 0)
    BY <2>3 DEF Meaning, Decided
  <2> QED
    BY <1>0, <2>1, <2>4, MeansThat
<1>4. CASE c.ready
  <2>1. /\ Follows(c.buffer, Began) /\ upto = Began + n
        /\ \A k \in 1..n : IsDigit(c.buffer[k])
        /\ upto < Len(stream) /\ ~IsDigit(stream[upto + 1])
    BY <1>4 DEF Returns, Kept
  <2>2. /\ n <= Len(s) /\ Take(s, n) = c.buffer
        /\ \A k \in 1..n : c.buffer[k] = s[k]
    BY <1>0, <1>1, <2>1, FollowsIsStart
  <2>3. n + 1 \in 1..Len(s) /\ ~IsDigit(s[n + 1])
    <3>1. n + 1 \in 1..(Len(stream) - Began) /\ upto + 1 = Began + (n + 1)
      BY <1>1, <2>1
    <3>2. s[n + 1] = stream[Began + (n + 1)]
      BY <1>0, <1>1, <3>1, DropProperties
    <3> QED
      BY <1>1, <2>1, <3>1, <3>2
  <2>4. n + 1 \in NonDigits(s) /\ NonDigits(s) \subseteq Nat
    BY <1>1, <2>3 DEF NonDigits
  <2>5. ASSUME NEW k \in NonDigits(s) PROVE n + 1 <= k
    <3>1. k \in 1..Len(s) /\ ~IsDigit(s[k])
      BY DEF NonDigits
    <3>2. ~(k \in 1..n)
      BY <2>1, <2>2, <3>1
    <3> QED
      BY <1>1, <3>1, <3>2
  <2> DEFINE m == Min(NonDigits(s))
  <2>6. m \in NonDigits(s) /\ \A y \in NonDigits(s) : m <= y
    BY <2>4, MinOfNaturals
  <2> HIDE DEF m, n
  <2>7. m - 1 = n
    <3>1. m <= n + 1 /\ n + 1 <= m /\ m \in Nat
      BY <2>4, <2>5, <2>6
    <3> QED
      BY <1>1, <3>1
  <2>8. Take(s, Min(NonDigits(s)) - 1) = c.buffer
    BY <2>2, <2>7 DEF m
  <2> DEFINE v == IF c.buffer = <<48>> THEN Int32(0)
                  ELSE IF Decimal(c.buffer) = 0 \/ Decimal(c.buffer) > INT_MAX
                    THEN ProtocolMismatchError
                  ELSE Int32(Decimal(c.buffer))
  <2>9. Decided(op, s, TRUE)
    BY <2>4 DEF Decided
  <2>10. Meaning(op, s, TRUE) = Covers(v, n)
    BY <2>8, <2>9 DEF Meaning, n
  <2>11. Evaluate(op, c) = v
    BY <1>2, <1>4 DEF IntEval
  <2> HIDE DEF v
  <2> QED
    BY <1>0, <2>1, <2>10, <2>11, MeansThat
<1> QED
  BY <1>3, <1>4

(* ReadOctetsUntilTerminator returns the text before the terminator.       *)
LEMMA UntilMeans ==
  ASSUME NEW op, op.kind = "until", op.terminator \in Seq(Octets), op.terminator # <<>>,
         NEW c, NEW upto, Returns(op, c, upto)
  PROVE  Means(op, c, upto)
<1> DEFINE n == Len(c.buffer)
           t == op.terminator
<1>0. PICK s : s = Drop(stream, Began)
  OBVIOUS
<1>1. /\ stream \in Seq(Octets) /\ Began \in 0..Len(stream) /\ Began \in Nat
      /\ c.buffer \in Seq(Octets) /\ n \in Nat /\ upto \in Nat /\ Len(stream) \in Nat
      /\ s \in Seq(Octets) /\ Len(s) = Len(stream) - Began /\ Len(s) \in Nat
      /\ c.eof /\ upto = Began => s = <<>>
  BY <1>0, ReturnsFacts
<1>2. Evaluate(op, c) = UntilEval(op, c) /\ Evaluate(op, c) # WaitingForRead
  BY DEF Evaluate, Returns
<1>3. t \in Seq(Octets) /\ Len(t) \in Nat /\ Len(t) # 0
  BY EmptySeq
<1>4. TerminatedAt(t, s) = {p \in 0..Len(s) : Occurs(s, t, p)}
  BY <1>1, TerminatedIsOccurrence
<1>5. CASE ~c.ready
  <2>1. c.eof /\ Evaluate(op, c) = ProtocolMismatchError
    BY <1>2, <1>5 DEF UntilEval
  <2>2. upto = Began
    BY <1>5 DEF Returns, Kept
  <2>3. Len(s) = 0
    BY <1>1, <2>1, <2>2
  <2>4. TerminatedAt(t, s) = {}
    BY <1>3, <1>4, <2>3 DEF Occurs
  <2>5. Meaning(op, s, TRUE) = Covers(ProtocolMismatchError, 0)
    BY <2>4 DEF Meaning, Decided
  <2> QED
    BY <1>0, <2>1, <2>5, MeansThat
<1>6. CASE c.ready
  <2>1. /\ Follows(c.buffer, Began) /\ upto = Began + n + Len(t)
        /\ EndsAt(t, Began + n) /\ \A k \in 0..(n - 1) : ~EndsAt(t, Began + k)
    BY <1>6 DEF Returns, Kept
  <2>2. n <= Len(s) /\ Take(s, n) = c.buffer
    BY <1>0, <1>1, <2>1, FollowsIsStart
  <2>3. \A p \in Nat : Occurs(s, t, p) <=> EndsAt(t, Began + p)
    BY <1>0, <1>1, <1>3, OccursInRest
  <2> HIDE DEF n, t
  <2>4. n \in TerminatedAt(t, s) /\ TerminatedAt(t, s) \subseteq Nat
    <3>1. n \in 0..Len(s) /\ 0..Len(s) \subseteq Nat /\ n \in Nat
      BY <1>1, <2>2
    <3>2. Occurs(s, t, n)
      BY <2>1, <2>3, <3>1
    <3> QED
      BY <1>4, <3>1, <3>2
  <2>5. ASSUME NEW k \in TerminatedAt(t, s) PROVE n <= k
    <3>1. k \in Nat /\ EndsAt(t, Began + k)
      BY <1>4, <2>3
    <3>2. ~(k \in 0..(n - 1))
      BY <2>1, <3>1
    <3> QED
      BY <1>1, <3>1, <3>2
  <2> DEFINE m == Min(TerminatedAt(t, s))
  <2>6. m \in TerminatedAt(t, s) /\ \A y \in TerminatedAt(t, s) : m <= y
    BY <2>4, MinOfNaturals
  <2> HIDE DEF m
  <2>7. m = n
    <3>1. m <= n /\ n <= m /\ m \in Nat
      BY <2>4, <2>5, <2>6
    <3> QED
      BY <1>1, <3>1
  <2>8. Decided(op, s, TRUE)
    BY <2>4 DEF Decided, t
  <2>9. Meaning(op, s, TRUE) = Covers(OctetsValue(Take(s, m)), m + Len(t))
    BY <2>8 DEF Meaning, m, t
  <2>10. Evaluate(op, c) = OctetsValue(c.buffer)
    BY <1>2, <1>6 DEF UntilEval
  <2>11. Meaning(op, s, TRUE) = Covers(OctetsValue(c.buffer), n + Len(t))
    BY <2>2, <2>7, <2>9
  <2>12. upto = Began + (n + Len(t))
    BY <1>1, <1>3, <2>1
  <2> QED
    BY <1>0, <2>10, <2>11, <2>12, MeansThat
<1> QED
  BY <1>5, <1>6

(* TerminateListIfReadAhead decides by the terminator.                     *)
LEMMA AheadMeans ==
  ASSUME NEW op, op.kind = "ahead", op.terminator \in Seq(Octets), op.terminator # <<>>,
         NEW c, NEW upto, Returns(op, c, upto)
  PROVE  Means(op, c, upto)
<1> DEFINE b == c.buffer
           t == op.terminator
<1>0. PICK s : s = Drop(stream, Began)
  OBVIOUS
<1>1. /\ stream \in Seq(Octets) /\ Began \in 0..Len(stream) /\ Began \in Nat
      /\ b \in Seq(Octets) /\ Len(b) \in Nat /\ upto \in Nat /\ Len(stream) \in Nat
      /\ s \in Seq(Octets) /\ Len(s) \in Nat
      /\ c.eof /\ upto = Began => s = <<>>
  BY <1>0, ReturnsFacts
<1>2. Evaluate(op, c) = AheadEval(op, c) /\ Evaluate(op, c) # WaitingForRead
  BY DEF Evaluate, Returns
<1>3. t \in Seq(Octets) /\ Len(t) \in Nat \ {0}
  BY EmptySeq
<1>4. Follows(b, Began) /\ upto = Began + IF StartsWith(b, t) THEN Len(t) ELSE 0
  BY DEF Returns, Kept
<1>5. Len(b) <= Len(s) /\ \A k \in 1..Len(b) : b[k] = s[k]
  BY <1>0, <1>1, <1>4, FollowsIsStart
<1>6. /\ StartsWith(b, t) <=> Occurs(b, t, 0)
      /\ IsPrefix(t, s) <=> Occurs(s, t, 0)
      /\ IsPrefix(s, t) <=> Occurs(t, s, 0)
      /\ StartsWith(t, b) <=> Occurs(t, b, 0)
  BY <1>1, <1>3, StartIsOccurrence
<1>7. MayStillMatch(b, t) <=> Len(b) < Len(t) /\ Occurs(t, b, 0)
  <2>1. b = <<>> => Len(b) = 0 /\ Occurs(t, b, 0)
    BY <1>1, <1>3 DEF Occurs
  <2> QED
    BY <1>1, <1>3, <1>6, <2>1 DEF MayStillMatch, StartsWith
<1> HIDE DEF b, t
<1>8. CASE MayStillMatch(b, t)
  <2>1. c.eof /\ Evaluate(op, c) = ProtocolMismatchError
    BY <1>2, <1>8 DEF AheadEval, b, t
  <2>2. ~StartsWith(b, t) /\ Len(b) < Len(t)
    BY <1>1, <1>3, <1>7, <1>8 DEF StartsWith
  <2>3. upto = Began
    BY <1>1, <1>4, <2>2
  <2>4. s = <<>> /\ Len(s) = 0 /\ Len(t) # 0
    BY <1>1, <1>3, <2>1, <2>2, <2>3
  <2>5. Occurs(t, s, 0) /\ s # t
    BY <1>3, <2>4 DEF Occurs
  <2>6. ~Decided(op, s, TRUE)
    BY <1>6, <2>5 DEF Decided, IsStrictPrefix, t
  <2>7. Meaning(op, s, TRUE) = Covers(ProtocolMismatchError, 0)
    BY <2>6 DEF Meaning
  <2> QED
    BY <1>0, <2>1, <2>7, MeansThat
<1>9. CASE ~MayStillMatch(b, t) /\ StartsWith(b, t)
  <2>1. Occurs(s, t, 0)
    BY <1>1, <1>3, <1>5, <1>6, <1>9 DEF Occurs
  <2>2. ~(Occurs(t, s, 0) /\ s # t)
    <3> SUFFICES ASSUME Occurs(t, s, 0) PROVE s = t
      OBVIOUS
    <3>1. Len(s) = Len(t) /\ \A k \in 1..Len(t) : s[k] = t[k]
      BY <1>1, <1>3, <2>1 DEF Occurs
    <3> QED
      BY <1>1, <1>3, <3>1, SeqEqual
  <2>3. Decided(op, s, TRUE)
    BY <1>6, <2>2 DEF Decided, IsStrictPrefix, t
  <2>4. Meaning(op, s, TRUE) = Covers(InterruptGenerator, Len(t))
    BY <1>6, <2>1, <2>3 DEF Meaning, t
  <2>5. Evaluate(op, c) = InterruptGenerator
    BY <1>2, <1>9 DEF AheadEval, b, t
  <2> QED
    BY <1>0, <1>4, <1>9, <2>4, <2>5, MeansThat
<1>10. CASE ~MayStillMatch(b, t) /\ ~StartsWith(b, t)
  <2>1. ~Occurs(s, t, 0)
    <3> SUFFICES ASSUME Occurs(s, t, 0) PROVE FALSE
      OBVIOUS
    <3>1. CASE Len(t) <= Len(b)
      BY <1>1, <1>3, <1>5, <1>6, <1>10, <3>1 DEF Occurs
    <3>2. CASE Len(b) < Len(t)
      BY <1>1, <1>3, <1>5, <1>7, <1>10, <3>2 DEF Occurs
    <3> QED
      BY <1>1, <1>3, <3>1, <3>2
  <2>2. ~(Occurs(t, s, 0) /\ s # t)
    <3> SUFFICES ASSUME Occurs(t, s, 0) PROVE FALSE
      OBVIOUS
    <3>1. CASE Len(b) < Len(t)
      BY <1>1, <1>3, <1>5, <1>7, <1>10, <3>1 DEF Occurs
    <3>2. CASE Len(t) <= Len(b)
      BY <1>1, <1>3, <1>5, <1>6, <1>10, <3>2 DEF Occurs
    <3> QED
      BY <1>1, <1>3, <3>1, <3>2
  <2>3. Decided(op, s, TRUE)
    BY <1>6, <2>2 DEF Decided, IsStrictPrefix, t
  <2>4. Meaning(op, s, TRUE) = Covers(Bool(FALSE), 0)
    BY <1>6, <2>1, <2>3 DEF Meaning, t
  <2>5. Evaluate(op, c) = Bool(FALSE)
    BY <1>2, <1>10 DEF AheadEval, b, t
  <2> QED
    BY <1>0, <1>4, <1>10, <2>4, <2>5, MeansThat
<1> QED
  BY <1>8, <1>9, <1>10

(* The two answers of match_condition.                                     *)
LEMMA MatchFields == \A v, n : Match(v, n).valid = v /\ Match(v, n).never = n
BY DEF Match

(* When a lookahead decides, it has found just the conditions that hold of *)
(* the rest of the stream.                                                 *)
LEMMA LookDecides ==
  ASSUME NEW op, op.kind = "look", PlainRead(op), NEW c, NEW upto, Returns(op, c, upto),
         NEW s, s = Drop(stream, Began)
  PROVE  ValidConditions(op, c) =
           {k \in DOMAIN op.conditions : HoldsFor(op.conditions[k], s, TRUE)}
<1> DEFINE b == c.buffer
           D == DOMAIN op.conditions
           Eof(k) == op.conditions[k].kind = "eof"
           T(k) == op.conditions[k].octets
           Text(k) == T(k) \in Seq(Octets) /\ Len(T(k)) \in Nat \ {0}
           Until(k) == op.conditions[k].kind = "until" /\ Text(k)
           Literal(k) == op.conditions[k].kind = "literal" /\ Text(k)
           Valid(k) == match_condition(c, op.conditions[k]).valid
           Never(k) == match_condition(c, op.conditions[k]).never
           Holds(k) == HoldsFor(op.conditions[k], s, TRUE)
<1>1. /\ stream \in Seq(Octets) /\ Began \in 0..Len(stream) /\ Began \in Nat
      /\ b \in Seq(Octets) /\ Len(b) \in Nat /\ Len(stream) \in Nat
      /\ s \in Seq(Octets) /\ Len(s) \in Nat
      /\ c.eof /\ upto = Began => s = <<>>
  BY ReturnsFacts
<1>2. Follows(b, Began) /\ upto = Began /\ c \in Contexts /\ c.eof \in BOOLEAN
  BY DEF Returns, Kept, Contexts
<1>3. Len(b) <= Len(s) /\ \A k \in 1..Len(b) : b[k] = s[k]
  BY <1>1, <1>2, FollowsIsStart
<1>4. c.eof => s = <<>> /\ b = <<>>
  <2>1. c.eof => Len(s) = 0
    BY <1>1, <1>2
  <2>2. c.eof => Len(b) = 0
    BY <1>1, <1>3, <2>1
  <2> QED
    BY <1>1, <2>1, <2>2, EmptySeq
<1>5. s = <<>> => b = <<>>
  <2>1. s = <<>> => Len(b) = 0
    BY <1>1, <1>3
  <2> QED
    BY <1>1, <2>1, EmptySeq
<1>6. ASSUME NEW k \in D, ~Eof(k) PROVE Until(k) \/ Literal(k)
  <2>1. /\ op.conditions[k].kind \in {"until", "literal"}
        /\ op.conditions[k].octets \in Seq(Octets) \ {<<>>}
    <3>1. \A i \in DOMAIN op.conditions :
            \/ op.conditions[i].kind = "eof"
            \/ /\ op.conditions[i].kind \in {"until", "literal"}
               /\ op.conditions[i].octets \in Seq(Octets) \ {<<>>}
      BY DEF PlainRead
    <3> QED
      BY <1>6, <3>1
  <2>2. Text(k)
    BY <2>1, EmptySeq
  <2> QED
    BY <2>1, <2>2
<1>7. ASSUME NEW j \in D, NEW k \in D, ~Eof(j), ~Eof(k)
      PROVE  \/ Until(j) /\ Until(k) /\ T(j) = T(k)
             \/ Literal(j) /\ Literal(k) /\ T(j) = T(k)
             \/ /\ Literal(j) /\ Literal(k)
                /\ ~Occurs(T(j), T(k), 0) /\ ~Occurs(T(k), T(j), 0)
  <2>1. \/ op.conditions[j].kind = op.conditions[k].kind /\ T(j) = T(k)
        \/ CannotBothHold(op.conditions[j], op.conditions[k])
    BY <1>7 DEF PlainRead
  <2>2. (Until(j) \/ Literal(j)) /\ (Until(k) \/ Literal(k)) /\ Text(j) /\ Text(k)
    BY <1>6, <1>7
  <2>3. CASE op.conditions[j].kind = op.conditions[k].kind /\ T(j) = T(k)
    BY <2>2, <2>3
  <2>4. CASE CannotBothHold(op.conditions[j], op.conditions[k])
    <3>1. ~IsPrefix(T(j), T(k)) /\ ~IsPrefix(T(k), T(j)) /\ Literal(j) /\ Literal(k)
      BY <2>2, <2>4 DEF CannotBothHold
    <3>2. ~Occurs(T(j), T(k), 0) /\ ~Occurs(T(k), T(j), 0)
      BY <3>1, StartIsOccurrence
    <3> QED
      BY <3>1, <3>2
  <2> QED
    BY <2>1, <2>3, <2>4
<1>8. ASSUME NEW k \in D, Eof(k)
      PROVE  /\ Valid(k) <=> b = <<>> /\ c.eof
             /\ Never(k) <=> (b = <<>> => c.eof)
             /\ Holds(k) <=> s = <<>>
  <2>1. match_condition(c, op.conditions[k]) = MatchEOF(c)
    BY <1>8 DEF match_condition
  <2>2. Holds(k) <=> s = <<>>
    BY <1>8 DEF HoldsFor
  <2>3. CASE b = <<>>
    <3>1. Valid(k) = c.eof /\ Never(k) = c.eof
      BY <2>1, <2>3, MatchFields DEF MatchEOF
    <3> QED
      BY <2>2, <2>3, <3>1
  <2>4. CASE b # <<>>
    <3>1. Valid(k) = FALSE /\ Never(k) = TRUE
      BY <2>1, <2>4, MatchFields DEF MatchEOF
    <3> QED
      BY <2>2, <2>4, <3>1
  <2> QED
    BY <2>3, <2>4
<1>9. ASSUME NEW k \in D, Until(k)
      PROVE  /\ Valid(k) <=> \E p \in Nat : Occurs(b, T(k), p)
             /\ Never(k) <=> (~Valid(k) /\ c.eof)
             /\ Holds(k) <=> \E p \in Nat : Occurs(s, T(k), p)
  <2>1. match_condition(c, op.conditions[k]) = MatchUntilTerminator(c, T(k))
    BY <1>9 DEF match_condition
  <2>2. Find(b, T(k), 0) # NPos <=> \E p \in Nat : Occurs(b, T(k), p)
    BY <1>1, <1>9, FindIsFirst
  <2>3. Holds(k) <=> TerminatedAt(T(k), s) # {}
    BY <1>9 DEF HoldsFor
  <2>4. TerminatedAt(T(k), s) = {p \in 0..Len(s) : Occurs(s, T(k), p)}
    BY <1>1, <1>9, TerminatedIsOccurrence
  <2>5. \A p \in Nat : Occurs(s, T(k), p) => p \in 0..Len(s)
    BY <1>1, <1>9 DEF Occurs
  <2>6. Holds(k) <=> \E p \in Nat : Occurs(s, T(k), p)
    <3>1. \A p : p \in 0..Len(s) => p \in Nat
      BY <1>1
    <3>2. TerminatedAt(T(k), s) # {} <=> \E p \in Nat : Occurs(s, T(k), p)
      BY <2>4, <2>5, <3>1, Zenon
    <3> QED
      BY <2>3, <3>2
  <2>7. CASE Find(b, T(k), 0) # NPos
    <3>1. match_condition(c, op.conditions[k]) = Match(TRUE, FALSE)
      BY <2>1, <2>7 DEF MatchUntilTerminator
    <3>2. Valid(k) = TRUE /\ Never(k) = FALSE
      BY <3>1 DEF Match
    <3> QED
      BY <2>2, <2>6, <2>7, <3>2
  <2>8. CASE Find(b, T(k), 0) = NPos
    <3>1. match_condition(c, op.conditions[k]) = Match(FALSE, c.eof)
      BY <2>1, <2>8 DEF MatchUntilTerminator
    <3>2. Valid(k) = FALSE /\ Never(k) = c.eof
      BY <3>1 DEF Match
    <3> QED
      BY <2>2, <2>6, <2>8, <3>2
  <2> QED
    BY <2>7, <2>8
<1>10. ASSUME NEW k \in D, Until(k)
       PROVE  (Valid(k) => Holds(k) /\ b # <<>>) /\ (Holds(k) => s # <<>>)
  <2>1. \A p \in Nat : Occurs(b, T(k), p) => Occurs(s, T(k), p) /\ Len(b) # 0
    <3>1. ASSUME NEW p \in Nat, Occurs(b, T(k), p) PROVE Occurs(s, T(k), p) /\ Len(b) # 0
      <4>1. Occurs(s, T(k), p)
        BY <1>1, <1>3, <1>10, <3>1, OccursInLonger
      <4>2. Len(b) # 0
        BY <1>1, <1>10, <3>1 DEF Occurs
      <4> QED
        BY <4>1, <4>2
    <3> QED
      BY <3>1
  <2>2. \A p \in Nat : Occurs(s, T(k), p) => Len(s) # 0
    BY <1>1, <1>10 DEF Occurs
  <2>3. Len(<<>>) = 0
    OBVIOUS
  <2> QED
    BY <1>9, <1>10, <2>1, <2>2, <2>3
<1>11. ASSUME NEW k \in D, Literal(k)
       PROVE  /\ Valid(k) <=> Len(T(k)) < Len(b) /\ Occurs(b, T(k), 0)
              /\ Never(k) <=> IF Len(b) <= Len(T(k)) THEN Occurs(T(k), b, 0) => c.eof
                                                     ELSE ~Occurs(b, T(k), 0)
              /\ Holds(k) <=> Occurs(s, T(k), 0)
  <2>1. match_condition(c, op.conditions[k]) = MatchLiteral(c, T(k))
    BY <1>11 DEF match_condition
  <2>2. /\ StartsWith(b, T(k)) <=> Occurs(b, T(k), 0)
        /\ StartsWith(s, T(k)) <=> Occurs(s, T(k), 0)
        /\ StartsWith(T(k), b) <=> Occurs(T(k), b, 0)
    BY <1>1, <1>11, StartIsOccurrence
  <2>3. Holds(k) <=> Occurs(s, T(k), 0)
    BY <1>11, <2>2 DEF HoldsFor
  <2>4. CASE Len(b) <= Len(T(k))
    <3>1. Take(T(k), Len(b)) = b <=> Occurs(T(k), b, 0)
      BY <1>1, <1>11, <2>2, <2>4 DEF StartsWith
    <3>2. ~(Len(T(k)) < Len(b))
      BY <1>1, <1>11, <2>4
    <3>3. CASE Occurs(T(k), b, 0)
      <4>1. match_condition(c, op.conditions[k]) = Match(FALSE, c.eof)
        BY <2>1, <2>4, <3>1, <3>3 DEF MatchLiteral
      <4>2. Valid(k) = FALSE /\ Never(k) = c.eof
        BY <4>1 DEF Match
      <4> QED
        BY <2>3, <2>4, <3>2, <3>3, <4>2
    <3>4. CASE ~Occurs(T(k), b, 0)
      <4>1. match_condition(c, op.conditions[k]) = Match(FALSE, TRUE)
        BY <2>1, <2>4, <3>1, <3>4 DEF MatchLiteral
      <4>2. Valid(k) = FALSE /\ Never(k) = TRUE
        BY <4>1 DEF Match
      <4> QED
        BY <2>3, <2>4, <3>2, <3>4, <4>2
    <3> QED
      BY <3>3, <3>4
  <2>5. CASE ~(Len(b) <= Len(T(k)))
    <3>1. Len(T(k)) < Len(b)
      BY <1>1, <1>11, <2>5
    <3>2. CASE Occurs(b, T(k), 0)
      <4>1. match_condition(c, op.conditions[k]) = Match(TRUE, FALSE)
        BY <2>1, <2>2, <2>5, <3>2 DEF MatchLiteral
      <4>2. Valid(k) = TRUE /\ Never(k) = FALSE
        BY <4>1 DEF Match
      <4> QED
        BY <2>3, <2>5, <3>1, <3>2, <4>2
    <3>3. CASE ~Occurs(b, T(k), 0)
      <4>1. match_condition(c, op.conditions[k]) = Match(FALSE, TRUE)
        BY <2>1, <2>2, <2>5, <3>3 DEF MatchLiteral
      <4>2. Valid(k) = FALSE /\ Never(k) = TRUE
        BY <4>1 DEF Match
      <4> QED
        BY <2>3, <2>5, <3>1, <3>3, <4>2
    <3> QED
      BY <3>2, <3>3
  <2> QED
    BY <2>4, <2>5
<1>12. ASSUME NEW k \in D, Literal(k)
       PROVE  /\ (Valid(k) => Holds(k) /\ b # <<>>) /\ (Holds(k) => s # <<>>)
              /\ Holds(k) /\ Len(T(k)) < Len(b) => Valid(k)
              /\ Never(k) /\ ~Valid(k) => ~Holds(k)
  <2>0. Occurs(s, b, 0) /\ Text(k)
    BY <1>1, <1>3, <1>12 DEF Occurs
  <2>1. Occurs(b, T(k), 0) => Occurs(s, T(k), 0) /\ Len(b) # 0
    <3>1. Occurs(b, T(k), 0) => Len(b) # 0
      BY <1>1, <1>12 DEF Occurs
    <3> QED
      BY <1>1, <1>3, <2>0, <3>1, OccursInLonger
  <2>2. Occurs(s, T(k), 0) => Len(s) # 0
    BY <1>1, <1>12 DEF Occurs
  <2>3. Occurs(s, T(k), 0) /\ Len(T(k)) < Len(b) => Occurs(b, T(k), 0)
    BY <1>1, <2>0, StartsAgree
  <2>4. Occurs(s, T(k), 0) /\ Len(b) <= Len(T(k)) => Occurs(T(k), b, 0)
    BY <1>1, <2>0, StartsAgree
  <2>5. Len(b) <= Len(T(k)) \/ Len(T(k)) < Len(b)
    BY <1>1, <1>12
  <2>6. Len(<<>>) = 0
    OBVIOUS
  <2>7. /\ (Valid(k) => Holds(k) /\ b # <<>>) /\ (Holds(k) => s # <<>>)
        /\ Holds(k) /\ Len(T(k)) < Len(b) => Valid(k)
    BY <1>11, <1>12, <2>1, <2>2, <2>3, <2>6
  <2>8. Never(k) /\ ~Valid(k) => ~Holds(k)
    BY <1>4, <1>11, <1>12, <2>3, <2>4, <2>5, <2>7
  <2> QED
    BY <2>7, <2>8
<1> HIDE DEF b, D, Valid, Never, Holds
<1>13. ASSUME NEW k \in D, Valid(k) PROVE Holds(k)
  BY <1>4, <1>6, <1>8, <1>10, <1>12, <1>13
<1>14. ASSUME NEW k \in D, Holds(k) PROVE Valid(k)
  <2> SUFFICES ASSUME ~Valid(k) PROVE FALSE
    OBVIOUS
  <2>1. (\E j \in D : Valid(j)) \/ \A j \in D : Never(j)
    BY DEF Returns, Evaluate, LookEval, ValidConditions, AllPermanentlyInvalid, D, Valid,
           Never
  <2>2. CASE \E j \in D : Valid(j)
    <3>1. PICK j \in D : Valid(j)
      BY <2>2
    <3>2. CASE Eof(j)
      <4>1. b = <<>> /\ c.eof /\ s = <<>>
        BY <1>4, <1>8, <3>1, <3>2
      <4>2. CASE Eof(k)
        BY <1>8, <4>1, <4>2
      <4>3. CASE ~Eof(k)
        BY <1>6, <1>10, <1>12, <1>14, <4>1, <4>3
      <4> QED
        BY <4>2, <4>3
    <3>3. CASE ~Eof(j)
      <4>1. b # <<>> /\ s # <<>> /\ Holds(j)
        BY <1>5, <1>6, <1>10, <1>12, <3>1, <3>3
      <4>2. CASE Eof(k)
        BY <1>8, <1>14, <4>1, <4>2
      <4>3. CASE ~Eof(k) /\ Until(j) /\ Until(k) /\ T(j) = T(k)
        BY <1>9, <3>1, <4>3
      <4>4. CASE ~Eof(k) /\ Literal(j) /\ Literal(k) /\ T(j) = T(k)
        BY <1>11, <3>1, <4>4
      <4>5. CASE /\ ~Eof(k) /\ Literal(j) /\ Literal(k)
                 /\ ~Occurs(T(j), T(k), 0) /\ ~Occurs(T(k), T(j), 0)
        <5>1. Occurs(s, T(j), 0) /\ Occurs(s, T(k), 0)
          BY <1>11, <1>14, <4>1, <4>5
        <5>2. Occurs(T(j), T(k), 0) \/ Occurs(T(k), T(j), 0)
          <6>1. CASE Len(T(j)) <= Len(T(k))
            BY <1>1, <4>5, <5>1, <6>1, StartsAgree
          <6>2. CASE Len(T(k)) <= Len(T(j))
            BY <1>1, <4>5, <5>1, <6>2, StartsAgree
          <6> QED
            BY <4>5, <6>1, <6>2
        <5> QED
          BY <4>5, <5>2
      <4> QED
        BY <1>7, <3>3, <4>2, <4>3, <4>4, <4>5
    <3> QED
      BY <3>2, <3>3
  <2>3. CASE \A j \in D : Never(j)
    <3>1. CASE Eof(k)
      BY <1>5, <1>8, <1>14, <2>3, <3>1
    <3>2. CASE Until(k)
      BY <1>4, <1>9, <1>10, <1>14, <2>3, <3>2
    <3>3. CASE Literal(k)
      BY <1>12, <1>14, <2>3, <3>3
    <3> QED
      BY <1>6, <3>1, <3>2, <3>3
  <2> QED
    BY <2>1, <2>2, <2>3
<1> QED
  BY <1>13, <1>14 DEF ValidConditions, D, Valid, Holds

(* TransitionLookahead selects the first condition that holds.             *)
LEMMA LookMeans ==
  ASSUME NEW op, op.kind = "look", PlainRead(op), NEW c, NEW upto, Returns(op, c, upto)
  PROVE  Means(op, c, upto)
<1>0. PICK s : s = Drop(stream, Began)
  OBVIOUS
<1> DEFINE D == DOMAIN op.conditions
           H == {k \in D : HoldsFor(op.conditions[k], s, TRUE)}
           v == IF H = {} THEN ProtocolMismatchError
                ELSE Result("target", <<op.conditions[Min(H)].target>>)
<1>1. ValidConditions(op, c) = H
  BY <1>0, LookDecides
<1>2. Evaluate(op, c) = LookEval(op, c) /\ Evaluate(op, c) # WaitingForRead
  BY DEF Evaluate, Returns
<1>3. Evaluate(op, c) = v
  <2>1. CASE H = {}
    BY <1>1, <1>2, <2>1 DEF LookEval
  <2>2. CASE H # {}
    BY <1>1, <1>2, <2>2 DEF LookEval
  <2> QED
    BY <2>1, <2>2
<1>4. Decided(op, s, TRUE)
  <2>1. CASE H # {}
    BY <2>1 DEF Decided
  <2>2. CASE H = {}
    <3>1. ASSUME NEW k \in D PROVE Excluded(op.conditions[k], s, TRUE)
      <4>1. op.conditions[k].kind \in {"eof", "until", "literal"}
        <5>1. \A i \in DOMAIN op.conditions :
                op.conditions[i].kind \in {"eof", "until", "literal"}
          BY DEF PlainRead
        <5> QED
          BY <5>1
      <4>2. ~HoldsFor(op.conditions[k], s, TRUE)
        BY <2>2
      <4> QED
        BY <4>1, <4>2 DEF HoldsFor, Excluded
    <3> QED
      BY <3>1 DEF Decided
  <2> QED
    BY <2>1, <2>2
<1>5. Meaning(op, s, TRUE) = Covers(v, 0)
  BY <1>4 DEF Meaning
<1>6. upto = Began + 0
  <2>1. Began \in Nat /\ upto = Began
    BY DEF Returns, Kept
  <2> QED
    BY <2>1
<1> HIDE DEF v
<1> QED
  BY <1>0, <1>3, <1>5, <1>6, MeansThat

(* operator() of every plain read that returns.                            *)
LEMMA PlainMeans ==
  ASSUME NEW op, PlainRead(op), NEW c, NEW upto, Returns(op, c, upto)
  PROVE  Means(op, c, upto)
<1>1. CASE op.kind = "static"
  <2>1. op.contents \in Seq(Octets) /\ \A k \in DOMAIN op.contents : op.contents[k] # 0
    BY <1>1 DEF PlainRead
  <2> QED
    BY <1>1, <2>1, StaticMeans
<1>2. CASE op.kind = "int32"
  BY <1>2, Int32Means
<1>3. CASE op.kind = "int"
  BY <1>3, IntMeans
<1>4. CASE op.kind = "until"
  <2>1. op.terminator \in Seq(Octets) /\ op.terminator # <<>>
    BY <1>4 DEF PlainRead
  <2> QED
    BY <1>4, <2>1, UntilMeans
<1>5. CASE op.kind = "ahead"
  <2>1. op.terminator \in Seq(Octets) /\ op.terminator # <<>>
    BY <1>5 DEF PlainRead
  <2> QED
    BY <1>5, <2>1, AheadMeans
<1>6. CASE op.kind = "look"
  BY <1>6, LookMeans
<1> QED
  BY <1>1, <1>2, <1>3, <1>4, <1>5, <1>6 DEF PlainRead

-----------------------------------------------------------------------------
(* What the operations may return, and the entries of results.             *)
Values == {Evaluate(p[k], c) : p \in Programs, k \in Nat, c \in Contexts}
Entries == [value : Values, upto : 0..Len(stream)]
Logged == results \in Seq(Entries)

(* The facts about a state that the steps start from.                      *)
LEMMA StateFacts ==
  ASSUME IInv, Logged, PlainPrograms
  PROVE  /\ stream \in Seq(Octets) /\ Len(stream) \in Nat /\ Began \in 0..Len(stream)
         /\ Began \in Nat /\ consumed \in Nat /\ Len(results) \in Nat /\ Len(program) \in Nat
         /\ Len(joined) \in Nat
         /\ ~AtEnd => PlainRead(Op) /\ Kept(Op, ctx, consumed) /\ ip = Len(results) + 1
                      /\ Evaluate(Op, ctx) \in Values
<1>1. stream \in Seq(Octets) /\ Len(stream) \in Nat
  BY StreamsAssumption DEF IInv, TypeOK
<1>2. consumed \in Nat /\ Len(joined) \in Nat
  BY <1>1 DEF IInv, TypeOK
<1>3. Len(results) \in Nat
  BY DEF Logged
<1>4. Began \in 0..Len(stream)
  <2>1. CASE results = <<>>
    BY <1>1, <2>1 DEF Began
  <2>2. CASE results # <<>>
    <3>1. Len(results) \in 1..Len(results)
      BY <2>2, <1>3, EmptySeq DEF Logged
    <3>2. results[Len(results)] \in Entries
      BY <3>1, ElementOfSeq DEF Logged
    <3>3. results[Len(results)].upto \in 0..Len(stream)
      BY <3>2 DEF Entries
    <3> QED
      BY <2>2, <3>3 DEF Began
  <2> QED
    BY <2>1, <2>2
<1>5. Len(program) \in Nat /\ program \in Programs
  BY DEF IInv, TypeOK, PlainPrograms
<1>6. ASSUME ~AtEnd
      PROVE  /\ PlainRead(Op) /\ Kept(Op, ctx, consumed) /\ ip = Len(results) + 1
             /\ Evaluate(Op, ctx) \in Values
  <2>1. Kept(Op, ctx, consumed) /\ ip = Len(results) + 1
    BY <1>6 DEF IInv, KeptInv, FrameInv
  <2>2. ip \in 1..Len(program) /\ ip \in Nat
    BY <1>3, <1>5, <1>6, <2>1 DEF AtEnd
  <2>3. PlainRead(Op)
    BY <1>5, <2>2 DEF PlainPrograms, Op
  <2>4. Evaluate(Op, ctx) \in Values
    BY <1>5, <2>2 DEF Values, Op, IInv, TypeOK
  <2> QED
    BY <2>1, <2>3, <2>4
<1> QED
  BY <1>1, <1>2, <1>3, <1>4, <1>5, <1>6

(* The new state, in terms of the new buffers and context.                 *)
LEMMA FramedNext ==
  ASSUME NEW q, NEW j, NEW n, NEW m, stream' = stream, input_buffer' = q, joined' = j,
         consumed' = n, sent' = m, Follows(j, n), Cut(q, n + Len(j), m)
  PROVE  (Follows(joined, consumed) /\ Cut(input_buffer, consumed + Len(joined), sent))'
BY DEF Follows, Cut

(* The context still agrees with the stream after a step.                  *)
LEMMA KeptNext ==
  ASSUME NEW d, NEW n, stream' = stream, results' = results, program' = program, ip' = ip,
         ctx' = d, consumed' = n, Kept(Op, d, n)
  PROVE  Kept(Op, ctx, consumed)'
<1>1. Op' = Op /\ Began' = Began
  BY DEF Op, Began
<1> QED
  BY <1>1 DEF Kept, Follows, EndsAt

(* Nothing has returned in a step that leaves results alone.               *)
LEMMA FramingNext ==
  ASSUME FramingIndependent, stream' = stream, results' = results, program' = program
  PROVE  FramingIndependent'
BY DEF FramingIndependent

(* Likewise for the type of results.                                       *)
LEMMA LoggedNext ==
  ASSUME Logged, stream' = stream, results' = results
  PROVE  Logged'
BY DEF Logged, Entries

(* The context of an operation that begins.                                *)
LEMMA FreshKept ==
  ASSUME NEW op, PlainRead(op), stream \in Seq(Octets), Began \in 0..Len(stream)
  PROVE  Kept(op, NewCtx, Began)
<1>1. Len(<<>>) = 0 /\ Began + 0 = Began /\ Len(stream) \in Nat /\ Began <= Len(stream)
  OBVIOUS
<1>2. NewCtx.buffer = <<>> /\ NewCtx.ready = FALSE
  BY DEF NewCtx
<1>3. Follows(NewCtx.buffer, Began)
  BY <1>1, <1>2 DEF Follows
<1>4. CASE op.kind = "ahead"
  <2>1. op.terminator \in Seq(Octets) /\ Len(op.terminator) \in Nat
    BY <1>4 DEF PlainRead
  <2>2. StartsWith(NewCtx.buffer, op.terminator) => Len(op.terminator) = 0
    BY <1>1, <1>2, <2>1 DEF StartsWith
  <2> QED
    BY <1>1, <1>3, <1>4, <2>2 DEF Kept
<1>5. CASE op.kind = "static"
  BY <1>1, <1>2, <1>3, <1>5 DEF Kept
<1>6. CASE op.kind = "int32"
  BY <1>1, <1>2, <1>3, <1>6 DEF Kept
<1>7. CASE op.kind \in {"int", "until"}
  BY <1>1, <1>2, <1>7 DEF Kept
<1>8. CASE op.kind = "look"
  BY <1>1, <1>2, <1>3, <1>8 DEF Kept
<1> QED
  BY <1>4, <1>5, <1>6, <1>7, <1>8 DEF PlainRead

(* The same after StepReady, for the operation that follows.               *)
LEMMA FreshKeptNext ==
  ASSUME NEW op, Op' = op, PlainRead(op), NEW n, stream \in Seq(Octets), n \in 0..Len(stream),
         stream' = stream, Began' = n, consumed' = n, ctx' = NewCtx
  PROVE  Kept(Op, ctx, consumed)'
<1>1. Len(<<>>) = 0 /\ n + 0 = n /\ Len(stream) \in Nat /\ n <= Len(stream)
  OBVIOUS
<1>2. NewCtx.buffer = <<>> /\ NewCtx.ready = FALSE
  BY DEF NewCtx
<1>3. Follows(ctx.buffer, Began)'
  BY <1>1, <1>2 DEF Follows
<1>4. CASE op.kind = "ahead"
  <2>1. op.terminator \in Seq(Octets) /\ Len(op.terminator) \in Nat
    BY <1>4 DEF PlainRead
  <2>2. StartsWith(NewCtx.buffer, op.terminator) => Len(op.terminator) = 0
    BY <1>1, <1>2, <2>1 DEF StartsWith
  <2> QED
    BY <1>1, <1>3, <1>4, <2>2 DEF Kept
<1>5. CASE op.kind = "static"
  BY <1>1, <1>2, <1>3, <1>5 DEF Kept
<1>6. CASE op.kind = "int32"
  BY <1>1, <1>2, <1>3, <1>6 DEF Kept
<1>7. CASE op.kind \in {"int", "until"}
  BY <1>1, <1>2, <1>7 DEF Kept
<1>8. CASE op.kind = "look"
  BY <1>1, <1>2, <1>3, <1>8 DEF Kept
<1> QED
  BY <1>4, <1>5, <1>6, <1>7, <1>8 DEF PlainRead

(* The initial states: nothing was received or consumed.                   *)
LEMMA InitInv ==
  ASSUME Init, PlainPrograms PROVE IInv /\ Logged
<1>1. stream \in Seq(Octets) /\ Len(stream) \in Nat
  BY StreamsAssumption DEF Init
<1>2. TypeOK
  <2>1. ctx \in Contexts
    BY DEF Init, NewCtx, Contexts
  <2>2. sent \in 0..Len(stream) /\ consumed \in 0..Len(stream) /\ ip \in Nat
    BY <1>1 DEF Init
  <2>3. input_buffer \in Seq(Seq(Octets)) /\ joined \in Seq(Octets)
    BY DEF Init
  <2> QED
    BY <2>1, <2>2, <2>3 DEF Init, TypeOK
<1>3. Logged
  BY DEF Init, Logged
<1>4. Follows(joined, consumed)
  BY <1>1 DEF Init, Follows
<1>5. Cut(input_buffer, consumed + Len(joined), sent)
  <2>1. input_buffer = <<>> /\ consumed + Len(joined) = 0 /\ sent = 0
    BY DEF Init
  <2>2. Cut(<<>>, 0, 0)
    BY <1>1, CutEmpty
  <2> QED
    BY <2>1, <2>2
<1>6. FrameInv
  BY <1>4, <1>5 DEF Init, FrameInv, NewCtx
<1>7. FramingIndependent
  BY DEF Init, FramingIndependent
<1>8. KeptInv
  <2> SUFFICES ASSUME ~AtEnd PROVE Kept(Op, ctx, consumed)
    BY DEF KeptInv
  <2>1. Began = 0 /\ ctx = NewCtx /\ consumed = 0 /\ program \in Programs /\ ip = 1
    BY DEF Init, Began
  <2>2. 1 \in 1..Len(program)
    BY <2>1 DEF AtEnd, PlainPrograms
  <2>3. PlainRead(Op)
    BY <2>1, <2>2 DEF PlainPrograms, Op
  <2> QED
    BY <1>1, <2>1, <2>3, FreshKept
<1> QED
  BY <1>2, <1>3, <1>6, <1>7, <1>8 DEF IInv

-----------------------------------------------------------------------------
(* The read callback appends what follows the octets received so far.      *)
LEMMA ReceiveInv ==
  ASSUME IInv, Logged, PlainPrograms, NEW n \in 1..Len(stream), Receive(n)
  PROVE  IInv' /\ Logged'
<1>1. /\ stream \in Seq(Octets) /\ Len(stream) \in Nat /\ consumed \in Nat
      /\ Len(joined) \in Nat
  BY StateFacts
<1>2. /\ n \in Nat /\ n # 0 /\ sent \in Nat /\ sent + n <= Len(stream)
      /\ TypeOK /\ FrameInv /\ KeptInv /\ FramingIndependent
  BY <1>1 DEF IInv, TypeOK, Receive
<1> DEFINE b == SubSeq(stream, sent + 1, sent + n)
           q == Append(input_buffer, b)
<1>3. /\ input_buffer' = q /\ sent' = sent + n /\ waiting' = FALSE
      /\ UNCHANGED <<program, stream, eof, joined, did_join, ip, ctx, results, consumed>>
  BY DEF Receive
<1>4. b \in Seq(Octets) /\ Len(b) = n /\ \A k \in 1..n : b[k] = stream[sent + k]
  BY <1>1, <1>2
<1> HIDE DEF b
<1>5. b # <<>> /\ Follows(b, sent)
  BY <1>2, <1>4 DEF Follows
<1>6. q \in Seq(Seq(Octets)) /\ Cut(q, consumed + Len(joined), sent + n)
  <2>1. /\ input_buffer \in Seq(Seq(Octets))
        /\ Cut(input_buffer, consumed + Len(joined), sent)
    BY <1>2 DEF TypeOK, FrameInv
  <2>2. Cut(q, consumed + Len(joined), sent + Len(b))
    BY <1>1, <1>2, <1>4, <1>5, <2>1, CutAppend
  <2>3. q \in Seq(Seq(Octets))
    BY <1>4, <2>1
  <2> QED
    BY <1>4, <2>2, <2>3
<1> HIDE DEF q
<1>7. (Follows(joined, consumed) /\ Cut(input_buffer, consumed + Len(joined), sent))'
  BY <1>2, <1>3, <1>6, FramedNext DEF FrameInv
<1>8. TypeOK'
  <2>1. sent' \in 0..Len(stream)'
    BY <1>1, <1>2, <1>3
  <2> QED
    BY <1>2, <1>3, <1>6, <2>1 DEF TypeOK
<1>9. Op' = Op /\ AtEnd' = AtEnd /\ Began' = Began
  BY <1>3 DEF Op, AtEnd, Began
<1>10. FrameInv'
  <2>1. eof' => sent' = Len(stream)'
    BY <1>1, <1>2, <1>3 DEF FrameInv
  <2> QED
    BY <1>2, <1>3, <1>7, <1>9, <2>1 DEF FrameInv
<1>11. KeptInv'
  BY <1>2, <1>3, <1>9, KeptNext DEF KeptInv
<1> QED
  BY <1>2, <1>3, <1>8, <1>10, <1>11, FramingNext, LoggedNext DEF IInv

(* Steps that leave the buffers, the program and the context alone.        *)
LEMMA QuietInv ==
  ASSUME IInv, Logged, PlainPrograms,
         waiting' \in BOOLEAN, eof' \in BOOLEAN, eof' => sent = Len(stream),
         UNCHANGED <<program, stream, sent, input_buffer, joined, did_join, ip, ctx, results,
                     consumed>>
  PROVE  IInv' /\ Logged'
<1>1. TypeOK /\ FrameInv /\ KeptInv /\ FramingIndependent
  BY DEF IInv
<1>2. (Follows(joined, consumed) /\ Cut(input_buffer, consumed + Len(joined), sent))'
  BY <1>1, FramedNext DEF FrameInv
<1>3. TypeOK'
  BY <1>1 DEF TypeOK
<1>4. Op' = Op /\ AtEnd' = AtEnd /\ Began' = Began
  BY DEF Op, AtEnd, Began
<1>5. FrameInv'
  BY <1>1, <1>2, <1>4 DEF FrameInv
<1>6. KeptInv'
  BY <1>1, <1>4, KeptNext DEF KeptInv
<1> QED
  BY <1>1, <1>3, <1>5, <1>6, FramingNext, LoggedNext DEF IInv

(* handle_read shows the operation what follows what it has consumed.      *)
LEMMA ShowInv ==
  ASSUME IInv, Logged, PlainPrograms, ~AtEnd,
         NEW data \in Seq(Octets), data # <<>>, NEW queue \in Seq(Seq(Octets)),
         NEW joining \in BOOLEAN, Show(data, queue, joining),
         Follows(data, consumed), Cut(queue, consumed + Len(data), sent),
         \/ consumed = Began /\ Op.kind # "int32"
         \/ Evaluate(Op, ctx) = WaitingForRead
  PROVE  IInv' /\ Logged'
<1>1. /\ stream \in Seq(Octets) /\ Len(stream) \in Nat /\ consumed \in Nat
      /\ Began \in Nat /\ PlainRead(Op) /\ Kept(Op, ctx, consumed)
  BY StateFacts
<1>2. /\ TypeOK /\ FrameInv /\ KeptInv /\ FramingIndependent /\ ctx \in Contexts
      /\ Len(data) \in Nat /\ Len(data) # 0
  BY EmptySeq DEF IInv, TypeOK
<1>3. PICK r : r = handle_read(Op, ctx, data)
  OBVIOUS
<1>4. PICK d : d = r.ctx
  OBVIOUS
<1>5. PICK n : n = r.consumed
  OBVIOUS
<1>6. Shows(Op, ctx, data, consumed)
  BY <1>1, <1>2 DEF Shows
<1>7. Reads(Op, ctx, data, consumed) /\ (Op.kind # "int32" => consumed = Began)
  BY <1>1, <1>6, PlainReads
<1>8. /\ d \in Contexts /\ d.eof = ctx.eof /\ n \in 0..Len(data) /\ n \in Nat
      /\ Kept(Op, d, consumed + n) /\ (n = 0 => Op.kind # "int32")
  BY <1>2, <1>3, <1>4, <1>5, <1>7 DEF Reads
<1>9. /\ ctx' = d /\ consumed' = consumed + n
      /\ IF n = 0
           THEN joined' = data /\ did_join' = joining /\ input_buffer' = queue
           ELSE /\ joined' = <<>> /\ did_join' = FALSE
                /\ input_buffer' = IF n = Len(data) THEN queue ELSE <<Drop(data, n)>> \o queue
      /\ UNCHANGED <<program, stream, sent, eof, ip, results, waiting>>
  BY <1>3, <1>4, <1>5 DEF Show
<1>10. consumed + Len(data) <= Len(stream) /\ ~ctx.eof
  BY <1>1, <1>2 DEF Follows, FrameInv
<1>11. Op' = Op /\ AtEnd' = AtEnd /\ Began' = Began
  BY <1>9 DEF Op, AtEnd, Began
<1>12. /\ joined' \in Seq(Octets) /\ input_buffer' \in Seq(Seq(Octets)) /\ did_join' \in BOOLEAN
       /\ (Follows(joined, consumed) /\ Cut(input_buffer, consumed + Len(joined), sent))'
       /\ joined' # <<>> => n = 0
  <2>1. CASE n = 0
    <3>1. consumed + n = consumed
      BY <1>1, <2>1
    <3>2. /\ stream' = stream /\ input_buffer' = queue /\ joined' = data
          /\ consumed' = consumed /\ sent' = sent /\ did_join' = joining
      BY <1>9, <2>1, <3>1
    <3> QED
      BY <2>1, <3>2, FramedNext
  <2>2. CASE n # 0
    <3>1. PICK q : q = IF n = Len(data) THEN queue ELSE <<Drop(data, n)>> \o queue
      OBVIOUS
    <3>2. /\ stream' = stream /\ input_buffer' = q /\ joined' = <<>>
          /\ consumed' = consumed + n /\ sent' = sent /\ did_join' = FALSE
      BY <1>9, <2>2, <3>1
    <3>3. q \in Seq(Seq(Octets)) /\ Cut(q, consumed + n, sent)
      <4>1. CASE n = Len(data)
        BY <3>1, <4>1
      <4>2. CASE n # Len(data)
        <5> DEFINE b == Drop(data, n)
        <5>1. b \in Seq(Octets) /\ Len(b) = Len(data) - n /\ Follows(b, consumed + n)
          BY <1>1, <1>8, DropProperties, FollowsDrop
        <5> HIDE DEF b
        <5>2. b # <<>> /\ consumed + n \in Nat /\ (consumed + n) + Len(b) = consumed + Len(data)
          <6>1. Len(b) = Len(data) - n /\ Len(data) - n # 0
            BY <1>2, <1>8, <4>2, <5>1
          <6>2. b # <<>>
            BY <6>1
          <6>3. \A x, y, z \in Nat : (x + y) + (z - y) = x + z /\ x + y \in Nat
            OBVIOUS
          <6> QED
            BY <1>1, <1>2, <1>8, <6>1, <6>2, <6>3
        <5>3. Cut(queue, (consumed + n) + Len(b), sent)
          BY <5>2
        <5>4. <<b>> \o queue \in Seq(Seq(Octets)) /\ Cut(<<b>> \o queue, consumed + n, sent)
          BY <1>1, <5>1, <5>2, <5>3, CutPushFront
        <5>5. q = <<b>> \o queue
          BY <3>1, <4>2 DEF b
        <5> QED
          BY <5>4, <5>5
      <4> QED
        BY <4>1, <4>2
    <3>4. Follows(<<>>, consumed + n)
      <4>1. Len(<<>>) = 0 /\ (consumed + n) + 0 <= Len(stream)
        BY <1>1, <1>2, <1>8, <1>10
      <4> QED
        BY <4>1 DEF Follows
    <3>5. (consumed + n) + Len(<<>>) = consumed + n
      BY <1>1, <1>8
    <3>6. Cut(q, (consumed + n) + Len(<<>>), sent)
      BY <3>3, <3>5
    <3>7. (Follows(joined, consumed) /\ Cut(input_buffer, consumed + Len(joined), sent))'
      BY <3>2, <3>4, <3>6, FramedNext
    <3>8. joined' \in Seq(Octets) /\ did_join' \in BOOLEAN /\ input_buffer' \in Seq(Seq(Octets))
      <4>1. <<>> \in Seq(Octets) /\ FALSE \in BOOLEAN
        OBVIOUS
      <4>2. joined' = <<>> /\ did_join' = FALSE /\ input_buffer' = q
        BY <3>2
      <4>3. q \in Seq(Seq(Octets))
        BY <3>3
      <4> QED
        BY ONLY <4>1, <4>2, <4>3
    <3> QED
      BY <3>2, <3>7, <3>8
  <2> QED
    BY <2>1, <2>2
<1>13. TypeOK'
  <2>1. consumed' \in 0..Len(stream)'
    BY <1>1, <1>2, <1>8, <1>9, <1>10
  <2> QED
    BY <1>2, <1>8, <1>9, <1>12, <2>1 DEF TypeOK
<1>14. FrameInv'
  <2>1. joined' # <<>> => consumed' = Began' /\ Op'.kind # "int32"
    BY <1>1, <1>7, <1>8, <1>9, <1>11, <1>12
  <2>2. ~ctx'.eof
    BY <1>8, <1>9, <1>10
  <2>3. AtEnd' = FALSE /\ ip' = Len(results)' + 1 /\ (eof' => sent' = Len(stream)')
    BY <1>2, <1>9, <1>11 DEF FrameInv
  <2> QED
    BY <1>12, <2>1, <2>2, <2>3 DEF FrameInv
<1>15. KeptInv'
  BY <1>8, <1>9, KeptNext DEF KeptInv
<1> QED
  BY <1>2, <1>9, <1>13, <1>14, <1>15, FramingNext, LoggedNext DEF IInv

(* handle_read pops a buffer.                                              *)
LEMMA HandleReadInv ==
  ASSUME IInv, Logged, PlainPrograms, HandleRead
  PROVE  IInv' /\ Logged'
<1> DEFINE h == Head(input_buffer)
           q == Tail(input_buffer)
<1>1. /\ joined = <<>> /\ ~AtEnd /\ Evaluate(Op, ctx) = WaitingForRead
      /\ input_buffer # <<>> /\ Show(h, q, FALSE)
  BY DEF HandleRead, Blocked
<1>2. /\ stream \in Seq(Octets) /\ consumed \in Nat
      /\ input_buffer \in Seq(Seq(Octets)) /\ Cut(input_buffer, consumed + Len(joined), sent)
  BY StateFacts DEF IInv, TypeOK, FrameInv
<1>3. consumed + Len(joined) = consumed
  BY <1>1, <1>2
<1>4. /\ h \in Seq(Octets) /\ h # <<>> /\ Follows(h, consumed)
      /\ q \in Seq(Seq(Octets)) /\ Cut(q, consumed + Len(h), sent)
  BY <1>1, <1>2, <1>3, CutTail
<1> HIDE DEF h, q
<1>5. FALSE \in BOOLEAN
  OBVIOUS
<1> QED
  BY <1>1, <1>4, <1>5, ShowInv

(* handle_read joins the next buffer.                                      *)
LEMMA HandleReadJoinInv ==
  ASSUME IInv, Logged, PlainPrograms, HandleReadJoin
  PROVE  IInv' /\ Logged'
<1> DEFINE h == Head(input_buffer)
           q == Tail(input_buffer)
           data == joined \o h
<1>1. joined # <<>> /\ input_buffer # <<>> /\ Show(data, q, TRUE)
  BY DEF HandleReadJoin
<1>2. /\ stream \in Seq(Octets) /\ consumed \in Nat /\ joined \in Seq(Octets)
      /\ Len(joined) \in Nat /\ Follows(joined, consumed)
      /\ input_buffer \in Seq(Seq(Octets)) /\ Cut(input_buffer, consumed + Len(joined), sent)
  BY StateFacts DEF IInv, TypeOK, FrameInv
<1>3. ~AtEnd /\ Op.kind # "int32" /\ consumed = Began
  BY <1>1 DEF IInv, FrameInv
<1>4. /\ h \in Seq(Octets) /\ h # <<>> /\ Follows(h, consumed + Len(joined))
      /\ q \in Seq(Seq(Octets)) /\ Cut(q, (consumed + Len(joined)) + Len(h), sent)
  BY <1>1, <1>2, CutTail
<1> HIDE DEF h, q
<1>5. data \in Seq(Octets) /\ Len(data) = Len(joined) + Len(h) /\ Follows(data, consumed)
  BY <1>2, <1>4, FollowsConcat
<1> HIDE DEF data
<1>6. Len(h) \in Nat /\ Len(joined) # 0
  BY <1>1, <1>2, <1>4, EmptySeq
<1>7. data # <<>> /\ (consumed + Len(joined)) + Len(h) = consumed + Len(data)
  BY <1>2, <1>5, <1>6
<1>8. Cut(q, consumed + Len(data), sent) /\ TRUE \in BOOLEAN
  BY <1>4, <1>7
<1> QED
  BY <1>1, <1>3, <1>4, <1>5, <1>7, <1>8, ShowInv

(* What was joined goes back to the queue as one buffer.                   *)
LEMMA HandleReadPushFrontInv ==
  ASSUME IInv, Logged, PlainPrograms, HandleReadPushFront
  PROVE  IInv' /\ Logged'
<1>1. /\ joined # <<>> /\ input_buffer = <<>> /\ input_buffer' = <<joined>>
      /\ joined' = <<>> /\ did_join' = FALSE /\ waiting' = StillBlocked
      /\ UNCHANGED <<program, stream, sent, eof, ip, ctx, results, consumed>>
  BY DEF HandleReadPushFront
<1>2. /\ stream \in Seq(Octets) /\ Len(stream) \in Nat /\ consumed \in Nat
      /\ joined \in Seq(Octets) /\ Len(joined) \in Nat /\ Follows(joined, consumed)
      /\ Cut(<<>>, consumed + Len(joined), sent)
      /\ TypeOK /\ FrameInv /\ KeptInv /\ FramingIndependent
  BY <1>1, StateFacts DEF IInv, TypeOK, FrameInv
<1>3. PICK q : q = <<joined>>
  OBVIOUS
<1>4. q \in Seq(Seq(Octets)) /\ Cut(q, consumed, sent)
  <2>1. <<>> \in Seq(Seq(Octets))
    OBVIOUS
  <2>2. <<joined>> \o <<>> \in Seq(Seq(Octets)) /\ Cut(<<joined>> \o <<>>, consumed, sent)
    BY <1>1, <1>2, <2>1, CutPushFront
  <2>3. <<joined>> \o <<>> = <<joined>>
    BY <1>2
  <2> QED
    BY <1>3, <2>2, <2>3
<1>5. consumed + Len(<<>>) = consumed /\ Len(<<>>) = 0 /\ consumed + 0 <= Len(stream)
  BY <1>2 DEF Follows
<1>6. Follows(<<>>, consumed) /\ Cut(q, consumed + Len(<<>>), sent)
  BY <1>4, <1>5 DEF Follows
<1>7. (Follows(joined, consumed) /\ Cut(input_buffer, consumed + Len(joined), sent))'
  BY <1>1, <1>3, <1>6, FramedNext
<1>8. TypeOK'
  <2>1. waiting' \in BOOLEAN
    BY <1>1 DEF StillBlocked
  <2>2. joined' \in Seq(Octets) /\ input_buffer' \in Seq(Seq(Octets))
    BY <1>1, <1>3, <1>4
  <2> QED
    BY <1>1, <1>2, <2>1, <2>2 DEF TypeOK
<1>9. Op' = Op /\ AtEnd' = AtEnd /\ Began' = Began
  BY <1>1 DEF Op, AtEnd, Began
<1>10. FrameInv'
  BY <1>1, <1>2, <1>7, <1>9 DEF FrameInv
<1>11. KeptInv'
  BY <1>1, <1>2, <1>9, KeptNext DEF KeptInv
<1> QED
  BY <1>1, <1>2, <1>8, <1>10, <1>11, FramingNext, LoggedNext DEF IInv

(* Eof is only told when everything has been consumed.                     *)
LEMMA HandleEofInv ==
  ASSUME IInv, Logged, PlainPrograms, HandleEof
  PROVE  IInv' /\ Logged'
<1>1. /\ joined = <<>> /\ ~AtEnd /\ input_buffer = <<>>
      /\ UNCHANGED <<program, stream, sent, eof, input_buffer, joined, did_join, ip, results,
                     consumed>>
  BY DEF HandleEof, Blocked
<1>2. /\ stream \in Seq(Octets) /\ Len(stream) \in Nat /\ consumed \in Nat
      /\ Cut(<<>>, consumed + Len(<<>>), sent) /\ Kept(Op, ctx, consumed)
      /\ TypeOK /\ FrameInv /\ KeptInv /\ FramingIndependent /\ ctx \in Contexts
  BY <1>1, StateFacts DEF IInv, TypeOK, FrameInv
<1>3. CASE ~eof
  <2>1. waiting' = TRUE /\ ctx' = ctx
    BY <1>3 DEF HandleEof
  <2>2. waiting' \in BOOLEAN /\ eof' \in BOOLEAN /\ (eof' => sent = Len(stream))
    BY <1>1, <1>2, <1>3, <2>1 DEF TypeOK
  <2> QED
    BY <1>1, <2>1, <2>2, QuietInv
<1>4. CASE eof
  <2>1. PICK d : d = [ctx EXCEPT !.eof = TRUE]
    OBVIOUS
  <2>2. ctx' = d /\ waiting' = waiting
    BY <1>4, <2>1 DEF HandleEof
  <2>3. d \in Contexts /\ d.buffer = ctx.buffer /\ d.ready = ctx.ready
    BY <1>2, <2>1 DEF Contexts
  <2>4. consumed = Len(stream)
    <3>1. consumed + Len(<<>>) = consumed /\ consumed \in 0..Len(stream)
      BY <1>2 DEF TypeOK
    <3>2. consumed = sent
      BY <1>2, <3>1, CutEmpty
    <3> QED
      BY <1>2, <1>4, <3>2 DEF FrameInv
  <2>5. Kept(Op, d, consumed)
    BY <1>2, <2>3 DEF Kept
  <2>6. (Follows(joined, consumed) /\ Cut(input_buffer, consumed + Len(joined), sent))'
    BY <1>1, <1>2, FramedNext DEF FrameInv
  <2>7. TypeOK'
    BY <1>1, <1>2, <2>2, <2>3 DEF TypeOK
  <2>8. Op' = Op /\ AtEnd' = AtEnd /\ Began' = Began
    BY <1>1 DEF Op, AtEnd, Began
  <2>9. FrameInv'
    BY <1>1, <1>2, <2>4, <2>6, <2>8 DEF FrameInv
  <2>10. KeptInv'
    BY <1>1, <2>2, <2>5, KeptNext DEF KeptInv
  <2> QED
    BY <1>1, <1>2, <2>7, <2>9, <2>10, FramingNext, LoggedNext DEF IInv
<1> QED
  BY <1>3, <1>4

(* An operation that returns has returned what it means.                   *)
LEMMA StepReadyInv ==
  ASSUME IInv, Logged, PlainPrograms, StepReady
  PROVE  IInv' /\ Logged'
<1> DEFINE v == Evaluate(Op, ctx)
           n == Len(results)
           e == [value |-> v, upto |-> consumed]
           r == Append(results, e)
<1>1. /\ joined = <<>> /\ ~AtEnd /\ v # WaitingForRead
      /\ results' = r /\ ip' = IF v = ProtocolMismatchError THEN Len(program) + 1 ELSE ip + 1
      /\ ctx' = NewCtx
      /\ UNCHANGED <<program, stream, sent, eof, input_buffer, joined, did_join, consumed,
                     waiting>>
  BY DEF StepReady, Blocked
<1>2. /\ stream \in Seq(Octets) /\ Len(stream) \in Nat /\ consumed \in Nat
      /\ Began \in 0..Len(stream) /\ n \in Nat /\ Len(program) \in Nat
      /\ PlainRead(Op) /\ Kept(Op, ctx, consumed) /\ ip = n + 1 /\ v \in Values
  BY <1>1, StateFacts
<1>3. /\ TypeOK /\ FrameInv /\ KeptInv /\ FramingIndependent /\ ctx \in Contexts
      /\ consumed \in 0..Len(stream) /\ program \in Programs
  BY DEF IInv, TypeOK
<1>4. Means(Op, ctx, consumed)
  <2>1. Returns(Op, ctx, consumed)
    BY <1>1, <1>2, <1>3 DEF Returns, FrameInv
  <2> QED
    BY <1>2, <2>1, PlainMeans
<1> HIDE DEF v
<1>5. e \in Entries /\ e.value = v /\ e.upto = consumed
  BY <1>2, <1>3 DEF Entries
<1> HIDE DEF e
<1>6. /\ results \in Seq(Entries) /\ r \in Seq(Entries) /\ Len(r) = n + 1
      /\ \A k \in 1..n : r[k] = results[k]
      /\ r[n + 1] = e
  BY <1>2, <1>5, AppendProperties DEF Logged
<1> HIDE DEF r, n
<1>7. Logged'
  BY <1>1, <1>6 DEF Logged, Entries
<1>8. Began' = consumed
  <2>1. r # <<>>
    BY <1>2, <1>6, EmptySeq
  <2> QED
    BY <1>1, <1>5, <1>6, <2>1 DEF Began
<1>9. FramingIndependent'
  <2>1. ASSUME NEW k \in DOMAIN r
        PROVE  LET from  == IF k = 1 THEN 0 ELSE r[k - 1].upto
                   means == Meaning(program[k], Drop(stream, from), TRUE)
               IN  /\ r[k].value = means.value
                   /\ r[k].value # ProtocolMismatchError => r[k].upto = from + means.length
    <3>1. k \in 1..(n + 1) /\ DOMAIN results = 1..n
      BY <1>2, <1>6 DEF n
    <3>2. CASE k \in 1..n
      <4>1. r[k] = results[k] /\ k \in DOMAIN results
        BY <1>6, <3>1, <3>2
      <4>2. (IF k = 1 THEN 0 ELSE r[k - 1].upto) = (IF k = 1 THEN 0 ELSE results[k - 1].upto)
        <5>1. CASE k = 1
          BY <5>1
        <5>2. CASE k # 1
          <6>1. k - 1 \in 1..n
            BY <1>2, <3>2, <5>2
          <6> QED
            BY <1>6, <6>1
        <5> QED
          BY <5>1, <5>2
      <4> QED
        BY <1>3, <4>1, <4>2 DEF FramingIndependent
    <3>3. CASE k = n + 1
      <4>1. (IF k = 1 THEN 0 ELSE r[k - 1].upto) = Began
        <5>1. CASE n = 0
          <6>1. results = <<>> /\ k = 1
            BY <1>6, <3>3, <5>1, EmptySeq DEF n
          <6> QED
            BY <6>1 DEF Began
        <5>2. CASE n # 0
          <6>1. k - 1 = n /\ k # 1 /\ n \in 1..n
            BY <1>2, <3>3, <5>2
          <6>2. r[n] = results[n] /\ results # <<>>
            BY <1>6, <5>2, <6>1, EmptySeq DEF n
          <6> QED
            BY <6>1, <6>2 DEF Began, n
        <5> QED
          BY <5>1, <5>2
      <4>2. r[k].value = v /\ r[k].upto = consumed /\ program[k] = Op
        BY <1>2, <1>5, <1>6, <3>3 DEF Op
      <4> QED
        BY <1>4, <4>1, <4>2 DEF Means, v
    <3>4. k \in 1..n \/ k = n + 1
      BY <1>2, <3>1
    <3> QED
      BY <3>2, <3>3, <3>4
  <2> QED
    BY <1>1, <2>1 DEF FramingIndependent
<1>10. TypeOK'
  <2>1. ip' \in Nat
    BY <1>1, <1>2
  <2>2. NewCtx \in Contexts
    BY DEF NewCtx, Contexts
  <2> QED
    BY <1>1, <1>3, <2>1, <2>2 DEF TypeOK
<1>11. AtEnd' \/ (ip' = n + 2 /\ ip' \in 1..Len(program))
  BY <1>1, <1>2 DEF AtEnd
<1>12. FrameInv'
  <2>1. (Follows(joined, consumed) /\ Cut(input_buffer, consumed + Len(joined), sent))'
    BY <1>1, <1>3, FramedNext DEF FrameInv
  <2>2. ~AtEnd' => ip' = Len(results)' + 1
    BY <1>1, <1>2, <1>6, <1>11
  <2>3. ~ctx'.eof
    BY <1>1 DEF NewCtx
  <2> QED
    BY <1>1, <1>3, <2>1, <2>2, <2>3 DEF FrameInv
<1>13. KeptInv'
  <2> SUFFICES ASSUME ~AtEnd' PROVE Kept(Op, ctx, consumed)'
    BY DEF KeptInv
  <2>1. PICK op : op = program[ip']
    OBVIOUS
  <2>2. PlainRead(op)
    BY <1>3, <1>11, <2>1 DEF PlainPrograms
  <2>3. Op' = op
    BY <1>1, <2>1 DEF Op
  <2>4. PICK c : c = consumed
    OBVIOUS
  <2>5. c \in 0..Len(stream) /\ consumed' = c /\ Began' = c
    BY <1>1, <1>3, <1>8, <2>4
  <2> QED
    BY <1>1, <1>2, <2>2, <2>3, <2>5, FreshKeptNext
<1> QED
  BY <1>7, <1>9, <1>10, <1>12, <1>13 DEF IInv

(* Every step keeps the invariant.                                         *)
LEMMA NextInv ==
  ASSUME IInv, Logged, PlainPrograms, [Next]_vars
  PROVE  IInv' /\ Logged'
<1>1. ASSUME NEW n \in 1..Len(stream), Receive(n) PROVE IInv' /\ Logged'
  BY <1>1, ReceiveInv
<1>2. CASE ReceiveEof
  <2>1. /\ waiting' \in BOOLEAN /\ eof' \in BOOLEAN /\ (eof' => sent = Len(stream))
        /\ UNCHANGED <<program, stream, sent, input_buffer, joined, did_join, ip, ctx, results,
                       consumed>>
    BY <1>2 DEF ReceiveEof
  <2> QED
    BY <2>1, QuietInv
<1>3. CASE NotifiedByOthers \/ UNCHANGED vars
  <2>1. /\ waiting' \in BOOLEAN /\ eof' \in BOOLEAN /\ (eof' => sent = Len(stream))
        /\ UNCHANGED <<program, stream, sent, input_buffer, joined, did_join, ip, ctx, results,
                       consumed>>
    <3>1. /\ waiting' \in {waiting, FALSE} /\ eof' = eof
          /\ UNCHANGED <<program, stream, sent, input_buffer, joined, did_join, ip, ctx,
                         results, consumed>>
      BY <1>3 DEF NotifiedByOthers, vars
    <3>2. waiting \in BOOLEAN /\ eof \in BOOLEAN /\ (eof => sent = Len(stream))
      BY DEF IInv, TypeOK, FrameInv
    <3> QED
      BY <3>1, <3>2
  <2> QED
    BY <2>1, QuietInv
<1>4. CASE Interpreter
  BY <1>4, StepReadyInv, HandleReadInv, HandleReadJoinInv, HandleReadPushFrontInv, HandleEofInv
     DEF Interpreter
<1> QED
  BY <1>1, <1>2, <1>3, <1>4 DEF Next

(* The invariant holds throughout, for plain reads.                        *)
LEMMA Invariance ==
  ASSUME PlainPrograms
  PROVE  Spec => [](IInv /\ Logged)
<1>1. Init => IInv /\ Logged
  BY InitInv
<1>2. IInv /\ Logged /\ [Next]_vars => (IInv /\ Logged)'
  BY NextInv
<1> QED
  BY <1>1, <1>2, PTL DEF Spec

(* The variables keep their types: no position leaves the stream, and the  *)
(* queue and the contexts hold octets, whatever is received.               *)
THEOREM TypeCorrect ==
  ASSUME PlainPrograms
  PROVE  Spec => []TypeOK
<1>1. IInv /\ Logged => TypeOK
  BY DEF IInv
<1> QED
  BY <1>1, Invariance, PTL

(* handle_read loses, duplicates and reorders nothing: what it has joined  *)
(* and what is queued is the stream from the octets consumed to the octets *)
(* sent, and eof is only told to an operation when all is consumed.        *)
THEOREM BuffersFollowTheStream ==
  ASSUME PlainPrograms
  PROVE  Spec => []FrameInv
<1>1. IInv /\ Logged => FrameInv
  BY DEF IInv
<1> QED
  BY <1>1, Invariance, PTL

(* For every program of plain reads and every stream, and however the      *)
(* network cuts it: what an operation returned, and where it stopped, is   *)
(* what the operation means on the stream.                                 *)
THEOREM FramingDoesNotMatter ==
  ASSUME PlainPrograms
  PROVE  Spec => []FramingIndependent
<1>1. IInv /\ Logged => FramingIndependent
  BY DEF IInv
<1> QED
  BY <1>1, Invariance, PTL
=============================================================================
