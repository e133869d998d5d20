------------------------ MODULE OperationQueueProofs ------------------------
(***************************************************************************)
(* Type correctness of OperationQueue, the absence of lost wakeups, and    *)
(* that the lock-free list implements the FIFO queue of ScheduleFifo, for  *)
(* any number of threads and operations.                                   *)
(***************************************************************************)
EXTENDS OperationQueueFifo, InductionLemmas, SequenceTheorems, FiniteSetTheorems, TLAPS

(***************************************************************************)
(* Schedule and ApplyOperations keep every field of the list and of the    *)
(* two threads of control in its type, and PushBack never dereferences     *)
(* nullptr.                                                                *)
(***************************************************************************)
THEOREM TypeCorrect == Spec => []TypeOK
<1>1. Init => TypeOK
  BY DEF Init, TypeOK, OpOrNull, ProducerPc, LoopPc
<1>2. TypeOK /\ [Next]_vars => TypeOK'
  <2> SUFFICES ASSUME TypeOK, [Next]_vars PROVE TypeOK'
    OBVIOUS
  <2> USE DEF TypeOK, OpOrNull, ProducerPc, LoopPc, Goto, LoopGoto,
              listVars, producerVars, loopVars, asyncVars
  <2>1. ASSUME NEW t \in Threads, Schedule(t) PROVE TypeOK'
    BY <2>1 DEF Schedule
  <2>2. ASSUME NEW t \in Threads, InSchedule(t) PROVE TypeOK'
    <3>1. CASE LoadTop(t)       BY <3>1 DEF LoadTop
    <3>2. CASE Link(t)          BY <3>2 DEF Link
    <3>3. CASE CasSucceeds(t)   BY <3>3 DEF CasSucceeds
    <3>4. CASE CasFails(t)      BY <3>4 DEF CasFails
    <3>5. CASE FireCheck(t)     BY <3>5 DEF FireCheck
    <3>6. CASE FireSend(t)      BY <3>6 DEF FireSend
    <3>7. CASE FireWrite(t)     BY <3>7 DEF FireWrite
    <3> QED BY <2>2, <3>1, <3>2, <3>3, <3>4, <3>5, <3>6, <3>7 DEF InSchedule
  <2>3. CASE Poll         BY <2>3 DEF Poll
  <2>4. CASE AsyncIo      BY <2>4 DEF AsyncIo
  <2>5. CASE Grab         BY <2>5 DEF Grab
  <2>6. CASE ReverseStep  BY <2>6 DEF ReverseStep
  <2>7. CASE ReverseDone  BY <2>7 DEF ReverseDone
  <2>8. CASE ApplyStep    BY <2>8 DEF ApplyStep
  <2>9. CASE ApplyDone    BY <2>9 DEF ApplyDone
  <2>10. CASE UNCHANGED vars  BY <2>10 DEF vars
  <2> QED
    BY <2>1, <2>2, <2>3, <2>4, <2>5, <2>6, <2>7, <2>8, <2>9, <2>10
    DEF Next, LoopThread, ApplyOperations
<1> QED BY <1>1, <1>2, PTL DEF Spec

(***************************************************************************)
(* No wakeup is lost between Schedule and ApplyOperations, for any number  *)
(* of scheduling threads.  The invariant is inductive together with        *)
(* TypeOK: whoever lowers the flag goes on to grab the list, and whoever   *)
(* makes the list non-empty goes on to raise the flag.                     *)
(***************************************************************************)
THEOREM NoLostWakeup == Spec => []NoStrandedOperation
<1>1. Init => NoStrandedOperation
  BY DEF Init, NoStrandedOperation, PendingIsDelivered, ListIsNoticed
<1>2. TypeOK /\ NoStrandedOperation /\ [Next]_vars => NoStrandedOperation'
  <2> SUFFICES ASSUME TypeOK, NoStrandedOperation, [Next]_vars
               PROVE  NoStrandedOperation'
    OBVIOUS
  <2> USE DEF TypeOK, NoStrandedOperation, PendingIsDelivered, ListIsNoticed,
              Goto, LoopGoto, listVars, producerVars, loopVars, asyncVars
  <2>1. ASSUME NEW t \in Threads, Schedule(t) PROVE NoStrandedOperation'
    BY <2>1 DEF Schedule
  <2>2. ASSUME NEW t \in Threads, InSchedule(t) PROVE NoStrandedOperation'
    <3>1. CASE LoadTop(t)       BY <3>1 DEF LoadTop
    <3>2. CASE Link(t)          BY <3>2 DEF Link
    <3>3. CASE CasSucceeds(t)   BY <3>3 DEF CasSucceeds
    <3>4. CASE CasFails(t)      BY <3>4 DEF CasFails
    <3>5. CASE FireCheck(t)     BY <3>5 DEF FireCheck
    <3>6. CASE FireSend(t)      BY <3>6 DEF FireSend
    <3>7. CASE FireWrite(t)     BY <3>7 DEF FireWrite
    <3> QED BY <2>2, <3>1, <3>2, <3>3, <3>4, <3>5, <3>6, <3>7 DEF InSchedule
  <2>3. CASE Poll         BY <2>3 DEF Poll
  <2>4. CASE AsyncIo      BY <2>4 DEF AsyncIo
  <2>5. CASE Grab         BY <2>5 DEF Grab
  <2>6. CASE ReverseStep  BY <2>6 DEF ReverseStep
  <2>7. CASE ReverseDone  BY <2>7 DEF ReverseDone
  <2>8. CASE ApplyStep    BY <2>8 DEF ApplyStep
  <2>9. CASE ApplyDone    BY <2>9 DEF ApplyDone
  <2>10. CASE UNCHANGED vars  BY <2>10 DEF vars
  <2> QED
    BY <2>1, <2>2, <2>3, <2>4, <2>5, <2>6, <2>7, <2>8, <2>9, <2>10
    DEF Next, LoopThread, ApplyOperations
<1> QED BY <1>1, <1>2, TypeCorrect, PTL DEF Spec

-----------------------------------------------------------------------------
(* Sequences with a first element added, and their reversal.               *)

LEMMA ReverseProperties ==
  ASSUME NEW S, NEW s \in Seq(S)
  PROVE  /\ Reverse(s) \in Seq(S) /\ Len(Reverse(s)) = Len(s)
         /\ \A i \in 1..Len(s) : Reverse(s)[i] = s[(Len(s) - i) + 1]
<1>1. Len(s) \in Nat /\ s \in [1..Len(s) -> S]
  BY LenProperties
<1>2. \A i \in 1..Len(s) : (Len(s) - i) + 1 \in 1..Len(s)
  BY <1>1
<1>3. Reverse(s) \in [1..Len(s) -> S]
  BY <1>1, <1>2 DEF Reverse
<1>4. Reverse(s) \in Seq(S)
  BY <1>1, <1>3, SeqDef
<1>5. QED
  BY <1>1, <1>3, <1>4, LenProperties DEF Reverse

(* A node in front of a sequence. *)
LEMMA ConsProperties ==
  ASSUME NEW S, NEW x \in S, NEW s \in Seq(S)
  PROVE  /\ Cons(x, s) \in Seq(S) /\ Len(Cons(x, s)) = Len(s) + 1 /\ Cons(x, s) # <<>>
         /\ Cons(x, s)[1] = x /\ \A i \in 1..Len(s) : Cons(x, s)[i + 1] = s[i]
<1>1. <<x>> \in Seq(S) /\ Len(<<x>>) = 1 /\ <<x>>[1] = x /\ Len(s) \in Nat
  BY LenProperties
<1>2. /\ Cons(x, s) \in Seq(S) /\ Len(Cons(x, s)) = 1 + Len(s)
      /\ \A i \in 1..(1 + Len(s)) : Cons(x, s)[i] = IF i <= 1 THEN <<x>>[i] ELSE s[i - 1]
  BY <1>1, ConcatProperties DEF Cons
<1>3. Cons(x, s) # <<>>
  BY <1>1, <1>2
<1>4. Cons(x, s)[1] = x
  BY <1>1, <1>2
<1>5. ASSUME NEW i \in 1..Len(s) PROVE Cons(x, s)[i + 1] = s[i]
  <2>1. i + 1 \in 1..(1 + Len(s)) /\ ~(i + 1 <= 1) /\ (i + 1) - 1 = i
    BY <1>1
  <2>2. QED
    BY <1>2, <2>1
<1>6. QED
  BY <1>1, <1>2, <1>3, <1>4, <1>5

(* A node in front is the last one of the reversal. *)
LEMMA ReverseCons ==
  ASSUME NEW S, NEW x \in S, NEW s \in Seq(S)
  PROVE  Reverse(Cons(x, s)) = Append(Reverse(s), x)
<1>1. PICK n \in Nat : n = Len(s)
  BY LenProperties
<1>2. PICK c \in Seq(S) : /\ c = Cons(x, s) /\ Len(c) = n + 1 /\ c[1] = x
                          /\ \A i \in 1..n : c[i + 1] = s[i]
  BY <1>1, ConsProperties
<1>3. PICK a \in Seq(S) : /\ a = Reverse(c) /\ Len(a) = n + 1
                          /\ \A i \in 1..(n + 1) : a[i] = c[((n + 1) - i) + 1]
  <2>1. /\ Reverse(c) \in Seq(S) /\ Len(Reverse(c)) = Len(c)
        /\ \A i \in 1..Len(c) : Reverse(c)[i] = c[(Len(c) - i) + 1]
    BY ReverseProperties
  <2>2. Len(c) = n + 1
    BY <1>2
  <2>3. QED
    BY <2>1, <2>2
<1>4. PICK r \in Seq(S) : /\ r = Reverse(s) /\ Len(r) = n
                          /\ \A i \in 1..n : r[i] = s[(n - i) + 1]
  BY <1>1, ReverseProperties
<1>5. PICK b \in Seq(S) : /\ b = Append(r, x) /\ Len(b) = n + 1 /\ b[n + 1] = x
                          /\ \A i \in 1..n : b[i] = r[i]
  <2>1. /\ Append(r, x) \in Seq(S) /\ Len(Append(r, x)) = Len(r) + 1
        /\ Append(r, x)[Len(r) + 1] = x
        /\ \A i \in 1..Len(r) : Append(r, x)[i] = r[i]
    BY AppendProperties
  <2>2. Len(r) = n
    BY <1>4
  <2>3. QED
    BY <2>1, <2>2
<1>6. ASSUME NEW i \in 1..(n + 1) PROVE a[i] = b[i]
  <2>1. CASE i = n + 1
    <3>1. ((n + 1) - i) + 1 = 1
      BY <2>1
    <3>2. QED
      BY <1>2, <1>3, <1>5, <2>1, <3>1
  <2>2. CASE i # n + 1
    <3>1. i \in 1..n /\ (n - i) + 1 \in 1..n /\ ((n + 1) - i) + 1 = ((n - i) + 1) + 1
      BY <2>2
    <3>2. a[i] = s[(n - i) + 1]
      BY <1>2, <1>3, <3>1
    <3>3. b[i] = s[(n - i) + 1]
      BY <1>4, <1>5, <3>1
    <3>4. QED
      BY <3>2, <3>3
  <2>3. QED
    BY <2>1, <2>2
<1>7. a = b
  BY <1>3, <1>5, <1>6, SeqEqual
<1>8. QED
  BY <1>2, <1>3, <1>4, <1>5, <1>7

(* Nothing to reverse. *)
LEMMA ReverseEmpty == Reverse(<<>>) = <<>>
<1>1. Reverse(<<>>) \in Seq({}) /\ Len(Reverse(<<>>)) = 0
  BY ReverseProperties, EmptySeq
<1>2. QED
  BY <1>1, EmptySeq

(* Taking the node in front away again. *)
LEMMA TailCons ==
  ASSUME NEW S, NEW x \in S, NEW s \in Seq(S)
  PROVE  Tail(Cons(x, s)) = s
<1>1. PICK n \in Nat : n = Len(s)
  BY LenProperties
<1>2. PICK c \in Seq(S) : /\ c = Cons(x, s) /\ Len(c) = n + 1 /\ c # <<>>
                          /\ \A i \in 1..n : c[i + 1] = s[i]
  BY <1>1, ConsProperties
<1>3. /\ Tail(c) \in Seq(S) /\ Len(Tail(c)) = Len(c) - 1
      /\ \A i \in 1..Len(Tail(c)) : Tail(c)[i] = c[i + 1]
  <2>1. c \in Seq(S) /\ c # <<>>
    BY <1>2
  <2>2. QED
    BY <2>1, HeadTailProperties
<1>4. PICK u : u = Tail(c)
  OBVIOUS
<1>5. u \in Seq(S) /\ Len(u) = n /\ \A i \in 1..Len(u) : u[i] = c[i + 1]
  <2>1. Len(u) = n
    BY <1>2, <1>3, <1>4
  <2>2. QED
    BY <1>3, <1>4, <2>1
<1>6. \A i \in 1..Len(u) : u[i] = s[i]
  BY <1>2, <1>5
<1>7. u = s
  BY <1>1, <1>5, <1>6, SeqEqual
<1>8. QED
  BY <1>2, <1>4, <1>7

(* What is in a concatenation and in a reversal. *)
Nodes(s) == {s[i] : i \in 1..Len(s)}

(* Two sequences together, and a reversal, have no other nodes. *)
LEMMA NodesOf ==
  ASSUME NEW S, NEW s \in Seq(S), NEW t \in Seq(S)
  PROVE  Nodes(s \o t) \subseteq Nodes(s) \cup Nodes(t) /\ Nodes(Reverse(s)) \subseteq Nodes(s)
<1>0. Len(s) \in Nat /\ Len(t) \in Nat
  BY LenProperties
<1>1. /\ Len(s \o t) = Len(s) + Len(t)
      /\ \A i \in 1..(Len(s) + Len(t)) : (s \o t)[i] = IF i <= Len(s) THEN s[i] ELSE t[i - Len(s)]
  BY ConcatProperties
<1>2. ASSUME NEW i \in 1..(Len(s) + Len(t)) PROVE (s \o t)[i] \in Nodes(s) \cup Nodes(t)
  <2>1. i <= Len(s) => i \in 1..Len(s)
    BY <1>0
  <2>2. ~(i <= Len(s)) => i - Len(s) \in 1..Len(t)
    BY <1>0
  <2>3. QED
    BY <1>1, <2>1, <2>2 DEF Nodes
<1>3. /\ Len(Reverse(s)) = Len(s)
      /\ \A i \in 1..Len(s) : Reverse(s)[i] = s[(Len(s) - i) + 1]
  BY ReverseProperties
<1>4. ASSUME NEW i \in 1..Len(s) PROVE Reverse(s)[i] \in Nodes(s)
  <2>1. (Len(s) - i) + 1 \in 1..Len(s)
    BY <1>0
  <2>2. QED
    BY <1>3, <2>1 DEF Nodes
<1>5. QED
  BY <1>1, <1>2, <1>3, <1>4 DEF Nodes

(* The queue before and after a step, as sequences. *)
LEMMA ConcatAppend ==
  ASSUME NEW S, NEW s \in Seq(S), NEW r \in Seq(S), NEW x \in S
  PROVE  s \o Append(r, x) = Append(s \o r, x)
<1>1. <<x>> \in Seq(S) /\ s \o r \in Seq(S)
  BY ConcatProperties
<1>2. Append(r, x) = r \o <<x>> /\ Append(s \o r, x) = (s \o r) \o <<x>>
  BY <1>1, AppendIsConcat
<1>3. QED
  BY <1>1, <1>2, ConcatAssociative

(* A node in front of the first of two sequences. *)
LEMMA ConsConcat ==
  ASSUME NEW S, NEW x \in S, NEW s \in Seq(S), NEW r \in Seq(S)
  PROVE  Cons(x, s) \o r = Cons(x, s \o r)
<1>1. <<x>> \in Seq(S)
  OBVIOUS
<1>2. (<<x>> \o s) \o r = <<x>> \o (s \o r)
  BY <1>1, ConcatAssociative
<1>3. QED
  BY <1>2 DEF Cons

(* A node in front of the second of two sequences. *)
LEMMA ConcatCons ==
  ASSUME NEW S, NEW x \in S, NEW s \in Seq(S), NEW r \in Seq(S)
  PROVE  Append(s, x) \o r = s \o Cons(x, r)
<1>1. <<x>> \in Seq(S)
  OBVIOUS
<1>2. Append(s, x) = s \o <<x>>
  BY AppendIsConcat
<1>3. (s \o <<x>>) \o r = s \o (<<x>> \o r)
  BY <1>1, ConcatAssociative
<1>4. QED
  BY <1>2, <1>3 DEF Cons

-----------------------------------------------------------------------------
(* Lists threaded through Next.                                            *)

Distinct(s) == \A i, j \in 1..Len(s) : s[i] = s[j] => i = j

(* The nodes that Next leads to are determined by the first one. *)
LEMMA ChainUnique ==
  ASSUME NEW nx, NEW o, NEW s \in Seq(Ops), NEW u \in Seq(Ops), IsChain(nx, o, s), IsChain(nx, o, u)
  PROVE  s = u
<1>1. /\ Len(s) \in Nat /\ Len(u) \in Nat
      /\ \A i \in 1..Len(s) : s[i] \in Ops /\ s[i] # NULL
      /\ \A i \in 1..Len(u) : u[i] \in Ops /\ u[i] # NULL
  BY LenProperties, ElementOfSeq, NullIsNoOp
<1>2. /\ o = IF s = <<>> THEN NULL ELSE s[1]
      /\ o = IF u = <<>> THEN NULL ELSE u[1]
      /\ \A i \in 1..Len(s) : nx[s[i]] = IF i = Len(s) THEN NULL ELSE s[i + 1]
      /\ \A i \in 1..Len(u) : nx[u[i]] = IF i = Len(u) THEN NULL ELSE u[i + 1]
  BY DEF IsChain
<1>3. (s = <<>> <=> Len(s) = 0) /\ (u = <<>> <=> Len(u) = 0)
  BY EmptySeq
<1> DEFINE N == Len(s) + Len(u)
           S == {i \in Nat : (i <= Len(s) <=> i <= Len(u)) /\ (i \in 1..Len(s) => s[i] = u[i])}
<1>4. 0 \in S
  BY <1>1
<1>5. ASSUME NEW i \in 0..N, i \in S PROVE i + 1 \in S
  <2>1. i \in Nat /\ (i <= Len(s) <=> i <= Len(u)) /\ (i \in 1..Len(s) => s[i] = u[i])
    BY <1>5
  <2>2. CASE i = 0
    <3>1. 1 <= Len(s) <=> o # NULL
      BY <1>1, <1>2, <1>3
    <3>2. 1 <= Len(u) <=> o # NULL
      BY <1>1, <1>2, <1>3
    <3>3. 1 <= Len(s) => s[1] = u[1]
      BY <1>1, <1>2, <1>3, <3>1, <3>2
    <3>4. QED
      BY <1>1, <2>2, <3>1, <3>2, <3>3
  <2>3. CASE i > Len(s)
    BY <1>1, <2>1, <2>3
  <2>4. CASE i # 0 /\ i <= Len(s)
    <3>1. i \in 1..Len(s) /\ i \in 1..Len(u) /\ s[i] = u[i]
      BY <1>1, <2>1, <2>4
    <3>2. (IF i = Len(s) THEN NULL ELSE s[i + 1]) = (IF i = Len(u) THEN NULL ELSE u[i + 1])
      BY <1>2, <3>1
    <3>3. i # Len(s) => i + 1 \in 1..Len(s) /\ s[i + 1] # NULL
      BY <1>1, <3>1
    <3>4. i # Len(u) => i + 1 \in 1..Len(u) /\ u[i + 1] # NULL
      BY <1>1, <3>1
    <3>5. i = Len(s) <=> i = Len(u)
      BY <3>2, <3>3, <3>4
    <3>6. i # Len(s) => s[i + 1] = u[i + 1]
      BY <3>2, <3>5
    <3>7. QED
      BY <1>1, <3>1, <3>5, <3>6
  <2>5. QED
    BY <1>1, <2>1, <2>2, <2>3, <2>4
<1>6. 0..N \subseteq S
  <2>1. N \in Nat /\ \A i \in 0..N : i \in S /\ i < N => i + 1 \in S
    BY <1>1, <1>5
  <2>2. QED
    BY <1>4, <2>1, UpTo
<1>7. Len(s) = Len(u)
  <2>1. Len(s) \in S /\ Len(u) \in S
    BY <1>1, <1>6
  <2>2. QED
    BY <1>1, <2>1
<1>8. \A i \in 1..Len(s) : s[i] = u[i]
  <2>1. \A i \in 1..Len(s) : i \in 0..N
    BY <1>1
  <2>2. QED
    BY <1>6, <2>1
<1>9. QED
  BY <1>7, <1>8, SeqEqual

(* A list without repetitions is one of those that Chain chooses from. *)
LEMMA ChainIs ==
  ASSUME NEW nx, NEW o, NEW s \in Seq(Ops), IsChain(nx, o, s), Distinct(s)
  PROVE  Chain(nx, o) = s
<1>1. Len(s) \in Nat /\ s \in [1..Len(s) -> Ops]
  BY LenProperties
<1>2. s \in Injection(1..Len(s), Ops)
  BY <1>1 DEF Injection, IsInjective, Distinct
<1>3. Cardinality(1..Len(s)) <= Cardinality(Ops)
  BY <1>2, OpsFinite, FS_Injection
<1>4. Cardinality(1..Len(s)) = Len(s)
  BY <1>1, FS_Interval
<1>5. Cardinality(Ops) \in Nat
  BY OpsFinite, FS_CardinalityType
<1>6. s \in Lists
  <2>1. Len(s) \in 0..Cardinality(Ops)
    BY <1>1, <1>3, <1>4, <1>5
  <2>2. QED
    BY <1>1, <2>1 DEF Lists
<1>7. Chain(nx, o) \in Lists /\ IsChain(nx, o, Chain(nx, o))
  BY <1>6 DEF Chain
<1>8. Chain(nx, o) \in Seq(Ops)
  <2>1. PICK n \in 0..Cardinality(Ops) : Chain(nx, o) \in [1..n -> Ops]
    BY <1>7 DEF Lists
  <2>2. n \in Nat
    BY <1>5
  <2>3. QED
    BY <2>1, <2>2, SeqDef
<1>9. QED
  BY <1>7, <1>8, ChainUnique

(* A list that starts at o: its nodes are operations, each of them once. *)
IsList(nx, o, s) == s \in Seq(Ops) /\ IsChain(nx, o, s) /\ Distinct(s)

(* nullptr is the empty list. *)
LEMMA EmptyList ==
  ASSUME NEW nx
  PROVE  /\ IsList(nx, NULL, <<>>) /\ Nodes(<<>>) = {}
         /\ \A s : IsList(nx, NULL, s) => s = <<>>
<1>1. <<>> \in Seq(Ops) /\ Len(<<>>) = 0
  BY EmptySeq
<1>2. IsList(nx, NULL, <<>>) /\ Nodes(<<>>) = {}
  BY <1>1 DEF IsList, IsChain, Distinct, Nodes
<1>3. ASSUME NEW s, IsList(nx, NULL, s) PROVE s = <<>>
  BY <1>2, <1>3, ChainUnique DEF IsList
<1>4. QED
  BY <1>2, <1>3

(* Next fields of other nodes do not matter. *)
LEMMA ListFrame ==
  ASSUME NEW nx, NEW ny, NEW o, NEW s, IsList(nx, o, s), \A q \in Nodes(s) : ny[q] = nx[q]
  PROVE  IsList(ny, o, s)
BY DEF IsList, IsChain, Nodes

(* The nodes of a longer list. *)
LEMMA NodesCons ==
  ASSUME NEW o \in Ops, NEW s \in Seq(Ops)
  PROVE  Nodes(Cons(o, s)) = {o} \cup Nodes(s)
<1>1. PICK n \in Nat : n = Len(s)
  BY LenProperties
<1>2. PICK c : /\ c = Cons(o, s) /\ Len(c) = n + 1 /\ c[1] = o /\ \A i \in 1..n : c[i + 1] = s[i]
  BY <1>1, ConsProperties
<1>3. ASSUME NEW i \in 1..(n + 1) PROVE c[i] \in {o} \cup Nodes(s)
  <2>1. CASE i = 1
    BY <1>2, <2>1
  <2>2. CASE i # 1
    <3>1. i - 1 \in 1..n /\ (i - 1) + 1 = i
      BY <2>2
    <3>2. c[i] = s[i - 1]
      BY <1>2, <3>1
    <3>3. QED
      BY <1>1, <3>1, <3>2 DEF Nodes
  <2>3. QED
    BY <2>1, <2>2
<1>4. o \in Nodes(c)
  BY <1>2 DEF Nodes
<1>5. ASSUME NEW i \in 1..n PROVE s[i] \in Nodes(c)
  <2>1. i + 1 \in 1..(n + 1) /\ s[i] = c[i + 1]
    BY <1>2
  <2>2. QED
    BY <1>2, <2>1 DEF Nodes
<1>6. QED
  BY <1>1, <1>2, <1>3, <1>4, <1>5 DEF Nodes

(* PushBack: a node in front of a list makes a longer one. *)
LEMMA ListCons ==
  ASSUME NEW nx, NEW o \in Ops, NEW s, IsList(nx, nx[o], s), o \notin Nodes(s)
  PROVE  IsList(nx, o, Cons(o, s)) /\ Nodes(Cons(o, s)) = {o} \cup Nodes(s)
<1>1. s \in Seq(Ops) /\ IsChain(nx, nx[o], s) /\ Distinct(s)
  BY DEF IsList
<1>2. PICK n \in Nat : n = Len(s)
  BY <1>1, LenProperties
<1>3. PICK c \in Seq(Ops) : /\ c = Cons(o, s) /\ Len(c) = n + 1 /\ c # <<>> /\ c[1] = o
                            /\ \A i \in 1..n : c[i + 1] = s[i]
  BY <1>1, <1>2, ConsProperties
<1>4. /\ nx[o] = IF n = 0 THEN NULL ELSE s[1]
      /\ \A i \in 1..n : nx[s[i]] = IF i = n THEN NULL ELSE s[i + 1]
  BY <1>1, <1>2, EmptySeq DEF IsChain
<1>5. ASSUME NEW i \in 1..(n + 1) PROVE nx[c[i]] = IF i = n + 1 THEN NULL ELSE c[i + 1]
  <2>1. CASE i = 1
    BY <1>3, <1>4, <2>1
  <2>2. CASE i # 1
    <3>1. i - 1 \in 1..n /\ (i - 1) + 1 = i
      BY <2>2
    <3>2. c[i] = s[i - 1]
      BY <1>3, <3>1
    <3>3. i # n + 1 => i \in 1..n /\ c[i + 1] = s[i]
      BY <1>3
    <3>4. QED
      BY <1>4, <3>1, <3>2, <3>3
  <2>3. QED
    BY <2>1, <2>2
<1>6. ASSUME NEW i \in 1..(n + 1), NEW j \in 1..(n + 1), c[i] = c[j] PROVE i = j
  <2>1. \A k \in 1..(n + 1) : k # 1 => k - 1 \in 1..n /\ c[k] = s[k - 1] /\ s[k - 1] # o
    <3>1. ASSUME NEW k \in 1..(n + 1), k # 1 PROVE k - 1 \in 1..n /\ c[k] = s[k - 1] /\ s[k - 1] # o
      <4>1. k - 1 \in 1..n /\ (k - 1) + 1 = k
        BY <3>1
      <4>2. QED
        BY <1>2, <1>3, <4>1 DEF Nodes
    <3>2. QED
      BY <3>1
  <2>2. CASE i = 1 \/ j = 1
    BY <1>3, <1>6, <2>1, <2>2
  <2>3. CASE i # 1 /\ j # 1
    <3>1. i - 1 = j - 1
      BY <1>1, <1>2, <1>6, <2>1, <2>3 DEF Distinct
    <3>2. QED
      BY <3>1
  <2>4. QED
    BY <2>2, <2>3
<1>7. IsChain(nx, o, c)
  BY <1>3, <1>5 DEF IsChain
<1>8. Distinct(c)
  BY <1>3, <1>6 DEF Distinct
<1>9. QED
  BY <1>1, <1>3, <1>7, <1>8, NodesCons DEF IsList

(* A list that is not empty, and what follows its first node. *)
LEMMA ListUncons ==
  ASSUME NEW nx, NEW o, o # NULL, NEW s, IsList(nx, o, s)
  PROVE  \E u : /\ s = Cons(o, u) /\ o \in Ops /\ IsList(nx, nx[o], u)
               /\ o \notin Nodes(u) /\ Nodes(s) = {o} \cup Nodes(u)
<1>1. s \in Seq(Ops) /\ s # <<>> /\ s[1] = o /\ Distinct(s)
      /\ \A i \in 1..Len(s) : nx[s[i]] = IF i = Len(s) THEN NULL ELSE s[i + 1]
  BY DEF IsList, IsChain
<1>2. PICK n \in Nat : Len(s) = n + 1
  <2>1. Len(s) \in Nat \ {0}
    BY <1>1, EmptySeq
  <2>2. Len(s) - 1 \in Nat /\ Len(s) = (Len(s) - 1) + 1
    BY <2>1
  <2>3. QED
    BY <2>2
<1>t. /\ Tail(s) \in Seq(Ops) /\ Len(Tail(s)) = Len(s) - 1
      /\ \A i \in 1..Len(Tail(s)) : Tail(s)[i] = s[i + 1]
  <2>1. s \in Seq(Ops) /\ s # <<>>
    BY <1>1
  <2>2. QED
    BY <2>1, HeadTailProperties
<1>u. PICK u : u = Tail(s)
  OBVIOUS
<1>3. u \in Seq(Ops) /\ Len(u) = n /\ \A i \in 1..n : u[i] = s[i + 1]
  <2>1. Len(u) = n
    BY <1>2, <1>t, <1>u
  <2>2. \A i \in 1..Len(u) : u[i] = s[i + 1]
    BY <1>t, <1>u
  <2>3. QED
    BY <1>t, <1>u, <2>1, <2>2
<1>4. o \in Ops
  BY <1>1, <1>2, ElementOfSeq
<1>5. s = Cons(o, u)
  <2>1. PICK c \in Seq(Ops) : /\ c = Cons(o, u) /\ Len(c) = n + 1 /\ c[1] = o
                              /\ \A i \in 1..n : c[i + 1] = u[i]
    BY <1>3, <1>4, ConsProperties
  <2>2. ASSUME NEW i \in 1..(n + 1) PROVE c[i] = s[i]
    <3>1. CASE i = 1
      BY <1>1, <2>1, <3>1
    <3>2. CASE i # 1
      <4>1. i - 1 \in 1..n /\ (i - 1) + 1 = i
        BY <3>2
      <4>2. c[(i - 1) + 1] = u[i - 1] /\ u[i - 1] = s[(i - 1) + 1]
        BY <1>3, <2>1, <4>1
      <4>3. QED
        BY <4>1, <4>2
    <3>3. QED
      BY <3>1, <3>2
  <2>3. QED
    BY <1>1, <1>2, <2>1, <2>2, SeqEqual
<1>6. IsChain(nx, nx[o], u)
  <2>1. nx[o] = IF u = <<>> THEN NULL ELSE u[1]
    <3>1. 1 \in 1..(n + 1) /\ (u = <<>> <=> n = 0)
      <4>1. u = <<>> <=> Len(u) = 0
        BY EmptySeq
      <4>2. QED
        BY <1>3, <4>1
    <3>2. CASE n = 0
      BY <1>1, <1>2, <3>1, <3>2
    <3>3. CASE n # 0
      <4>1. 1 \in 1..n /\ 1 # n + 1
        BY <3>3
      <4>2. nx[o] = s[2] /\ u[1] = s[2]
        BY <1>1, <1>2, <1>3, <3>1, <4>1
      <4>3. QED
        BY <3>1, <3>3, <4>2
    <3>4. QED
      BY <3>2, <3>3
  <2>2. ASSUME NEW i \in 1..n PROVE nx[u[i]] = IF i = n THEN NULL ELSE u[i + 1]
    <3>1. i + 1 \in 1..(n + 1) /\ (i + 1 = n + 1 <=> i = n)
      OBVIOUS
    <3>2. u[i] = s[i + 1] /\ nx[s[i + 1]] = IF i + 1 = n + 1 THEN NULL ELSE s[(i + 1) + 1]
      BY <1>1, <1>2, <1>3, <3>1
    <3>3. i # n => i + 1 \in 1..n /\ u[i + 1] = s[(i + 1) + 1]
      BY <1>3
    <3>4. QED
      BY <3>1, <3>2, <3>3
  <2>3. QED
    BY <1>3, <2>1, <2>2 DEF IsChain
<1>7. Distinct(u) /\ o \notin Nodes(u)
  <2>1. \A i \in 1..n : i + 1 \in 1..(n + 1) /\ i + 1 # 1 /\ u[i] = s[i + 1]
    BY <1>3
  <2>2. \A i, j \in 1..(n + 1) : s[i] = s[j] => i = j
    BY <1>1, <1>2 DEF Distinct
  <2>3. ASSUME NEW i \in 1..n, NEW j \in 1..n, u[i] = u[j] PROVE i = j
    <3>1. i + 1 = j + 1
      BY <2>1, <2>2, <2>3
    <3>2. QED
      BY <3>1
  <2>4. ASSUME NEW i \in 1..n PROVE u[i] # o
    <3>1. 1 \in 1..(n + 1)
      OBVIOUS
    <3>2. QED
      BY <1>1, <2>1, <2>2, <3>1
  <2>5. QED
    BY <1>3, <2>3, <2>4 DEF Distinct, Nodes
<1>8. QED
  BY <1>3, <1>4, <1>5, <1>6, <1>7, NodesCons DEF IsList

-----------------------------------------------------------------------------
(***************************************************************************)
(* Who holds a node.  An operation is free, held by one thread that is     *)
(* pushing it, or in exactly one of three lists: h, pushed and not yet     *)
(* grabbed; g, grabbed and still to be reversed or applied; n, reversed.   *)
(***************************************************************************)
Pushing(t) == pc[t] \in {"load", "link", "cas"}

HeldInv ==
  /\ \A t \in Threads : Pushing(t) => op[t] \in Ops \ free
  /\ \A t, u \in Threads : Pushing(t) /\ Pushing(u) /\ op[t] = op[u] => t = u
  /\ \A t \in Threads : pc[t] = "cas" => NextOf[op[t]] = curTop[t]

PhaseInv ==
  /\ lpc \notin {"reverse", "apply"} => cur = NULL
  /\ lpc # "reverse" => newTop = NULL

ListsInv(h, g, n) ==
  /\ IsList(NextOf, ListHead, h) /\ IsList(NextOf, cur, g) /\ IsList(NextOf, newTop, n)
  /\ Nodes(h) \cap Nodes(g) = {} /\ Nodes(h) \cap Nodes(n) = {} /\ Nodes(g) \cap Nodes(n) = {}
  /\ \A o \in Nodes(h) \cup Nodes(g) \cup Nodes(n) :
       o \notin free /\ \A t \in Threads : Pushing(t) => op[t] # o

OwnedInv == TypeOK /\ HeldInv /\ PhaseInv /\ \E h, g, n : ListsInv(h, g, n)

(* The queue that the refinement mapping reads off the three lists. *)
QueueOf(p, h, g, n) ==
  (CASE p = "reverse" -> Reverse(g) \o n
     [] p = "apply"   -> g
     [] OTHER         -> <<>>) \o Reverse(h)

absQueue == Grabbed \o Reverse(Chain(NextOf, ListHead))

(* The queue of the refinement mapping, from the lists that the pointers spell. *)
LEMMA QueueIs ==
  ASSUME NEW h, NEW g, NEW n, ListsInv(h, g, n)
  PROVE  absQueue = QueueOf(lpc, h, g, n)
<1>1. Chain(NextOf, ListHead) = h /\ Chain(NextOf, cur) = g /\ Chain(NextOf, newTop) = n
  BY ChainIs DEF ListsInv, IsList
<1>2. QED
  BY <1>1 DEF absQueue, Grabbed, QueueOf

(* The same in the next state. *)
LEMMA QueueIsNext ==
  ASSUME NEW h, NEW g, NEW n, ListsInv(h, g, n)'
  PROVE  absQueue' = QueueOf(lpc', h, g, n)
<1>1. Chain(NextOf', ListHead') = h /\ Chain(NextOf', cur') = g /\ Chain(NextOf', newTop') = n
  BY ChainIs DEF ListsInv, IsList
<1>2. QED
  BY <1>1 DEF absQueue, Grabbed, QueueOf

-----------------------------------------------------------------------------
(* The steps that leave the lists alone: a thread takes or reads, or the async handle moves. *)
LEMMA QuietStep ==
  ASSUME OwnedInv, HeldInv', PhaseInv', TypeOK', UNCHANGED <<ListHead, NextOf, cur, newTop>>,
         free' \subseteq free,
         \A t \in Threads : Pushing(t)' => (Pushing(t) /\ op'[t] = op[t]) \/ op'[t] \in free,
         lpc' = lpc \/ {lpc, lpc'} \subseteq {"poll", "swap", "grab"}
  PROVE  OwnedInv' /\ absQueue' = absQueue
<1>1. PICK h, g, n : ListsInv(h, g, n)
  BY DEF OwnedInv
<1>2. ListsInv(h, g, n)'
  <2>1. /\ IsList(NextOf', ListHead', h) /\ IsList(NextOf', cur', g) /\ IsList(NextOf', newTop', n)
    BY <1>1 DEF ListsInv
  <2>2. ASSUME NEW o \in Nodes(h) \cup Nodes(g) \cup Nodes(n)
        PROVE  o \notin free' /\ \A t \in Threads : Pushing(t)' => op'[t] # o
    BY <1>1 DEF ListsInv
  <2>3. QED
    BY <1>1, <2>1, <2>2 DEF ListsInv
<1>3. absQueue' = absQueue
  <2>1. Grabbed' = Grabbed
    BY DEF Grabbed
  <2>2. QED
    BY <2>1 DEF absQueue
<1>4. QED
  BY <1>2, <1>3 DEF OwnedInv

(* Schedule takes a free node, and changes no list. *)
LEMMA ScheduleStep ==
  ASSUME OwnedInv, TypeOK', NEW t \in Threads, Schedule(t)
  PROVE  OwnedInv' /\ absQueue' = absQueue
<1>0. TypeOK /\ HeldInv /\ PhaseInv
  BY DEF OwnedInv
<1>1. PICK o \in free : /\ op' = [op EXCEPT ![t] = o] /\ free' = free \ {o}
  BY DEF Schedule
<1>2. /\ pc' = [pc EXCEPT ![t] = "load"] /\ pc[t] = "idle"
      /\ UNCHANGED <<ListHead, NextOf, curTop, asyncVars, loopVars>>
  BY DEF Schedule, Goto
<1>3. /\ op'[t] = o /\ o \in Ops
      /\ \A u \in Threads : u # t => op'[u] = op[u] /\ pc'[u] = pc[u]
      /\ pc'[t] = "load"
  BY <1>0, <1>1, <1>2 DEF TypeOK
<1>4. HeldInv' /\ PhaseInv'
  BY <1>0, <1>1, <1>2, <1>3 DEF HeldInv, PhaseInv, Pushing, loopVars
<1>5. QED
  <2>1. \A u \in Threads : Pushing(u)' => (Pushing(u) /\ op'[u] = op[u]) \/ op'[u] \in free
    BY <1>1, <1>3 DEF Pushing
  <2>2. QED
    BY <1>1, <1>2, <1>4, <2>1, QuietStep DEF loopVars

(* Steps of a thread that read the list or fire, and of the async handle. *)
LEMMA ReadStep ==
  ASSUME OwnedInv, TypeOK', NEW t \in Threads,
         LoadTop(t) \/ CasFails(t) \/ FireCheck(t) \/ FireSend(t) \/ FireWrite(t)
  PROVE  OwnedInv' /\ absQueue' = absQueue
<1>0. TypeOK /\ HeldInv /\ PhaseInv
  BY DEF OwnedInv
<1>1. /\ UNCHANGED <<listVars, op, loopVars>>
      /\ \A u \in Threads : u # t => pc'[u] = pc[u] /\ curTop'[u] = curTop[u]
      /\ pc'[t] \in {"link", "idle", "send", "write"}
      /\ pc'[t] = "link" => Pushing(t)
  <2>1. CASE LoadTop(t)
    BY <1>0, <2>1 DEF LoadTop, Goto, TypeOK, Pushing
  <2>2. CASE CasFails(t)
    BY <1>0, <2>2 DEF CasFails, Goto, TypeOK, Pushing
  <2>3. CASE FireCheck(t)
    BY <1>0, <2>3 DEF FireCheck, Goto, TypeOK, Pushing
  <2>4. CASE FireSend(t)
    BY <1>0, <2>4 DEF FireSend, Goto, TypeOK, Pushing
  <2>5. CASE FireWrite(t)
    BY <1>0, <2>5 DEF FireWrite, Goto, TypeOK, Pushing
  <2>6. QED
    BY <2>1, <2>2, <2>3, <2>4, <2>5
<1>2. \A u \in Threads : Pushing(u)' => Pushing(u) /\ op'[u] = op[u]
  BY <1>1 DEF Pushing
<1>3. HeldInv' /\ PhaseInv'
  BY <1>0, <1>1, <1>2 DEF HeldInv, PhaseInv, Pushing, listVars, loopVars
<1>4. QED
  BY <1>1, <1>2, <1>3, QuietStep DEF listVars, loopVars

(* The async handle changes no list. *)
LEMMA AsyncStep ==
  ASSUME OwnedInv, TypeOK', Poll \/ AsyncIo
  PROVE  OwnedInv' /\ absQueue' = absQueue
<1>0. TypeOK /\ HeldInv /\ PhaseInv
  BY DEF OwnedInv
<1>1. UNCHANGED <<listVars, producerVars, cur, newTop>> /\ {lpc, lpc'} \subseteq {"poll", "swap", "grab"}
  BY DEF Poll, AsyncIo, LoopGoto
<1>2. \A u \in Threads : Pushing(u)' => Pushing(u) /\ op'[u] = op[u]
  BY <1>1 DEF Pushing, producerVars
<1>3. HeldInv' /\ PhaseInv'
  BY <1>0, <1>1, <1>2 DEF HeldInv, PhaseInv, Pushing, listVars, producerVars
<1>4. QED
  BY <1>1, <1>2, <1>3, QuietStep DEF listVars

(* op->Next = curTop writes a node that is in no list. *)
LEMMA LinkStep ==
  ASSUME OwnedInv, TypeOK', NEW t \in Threads, Link(t)
  PROVE  OwnedInv' /\ absQueue' = absQueue
<1>0. TypeOK /\ HeldInv /\ PhaseInv
  BY DEF OwnedInv
<1>1. /\ pc[t] = "link" /\ pc' = [pc EXCEPT ![t] = "cas"]
      /\ NextOf' = [NextOf EXCEPT ![op[t]] = curTop[t]]
      /\ UNCHANGED <<ListHead, free, op, curTop, loopVars>>
  BY DEF Link, Goto
<1>2. /\ op[t] \in Ops /\ NextOf'[op[t]] = curTop[t] /\ \A o \in Ops \ {op[t]} : NextOf'[o] = NextOf[o]
      /\ \A u \in Threads : Pushing(u)' <=> Pushing(u)
      /\ \A u \in Threads : u # t => pc'[u] = pc[u]
  BY <1>0, <1>1 DEF TypeOK, Pushing
<1>3. HeldInv' /\ PhaseInv'
  <2>1. ASSUME NEW u \in Threads, pc'[u] = "cas" PROVE NextOf'[op'[u]] = curTop'[u]
    <3>1. CASE u = t
      BY <1>1, <1>2, <3>1
    <3>2. CASE u # t
      <4>1. pc[u] = "cas" /\ op[u] \in Ops \ {op[t]}
        BY <1>0, <1>1, <1>2, <2>1, <3>2 DEF HeldInv, Pushing
      <4>2. QED
        BY <1>0, <1>1, <1>2, <4>1 DEF HeldInv
    <3>3. QED
      BY <3>1, <3>2
  <2>2. QED
    BY <1>0, <1>1, <1>2, <2>1 DEF HeldInv, PhaseInv, loopVars
<1>4. PICK h, g, n : ListsInv(h, g, n)
  BY DEF OwnedInv
<1>5. ListsInv(h, g, n)'
  <2>1. \A o \in Nodes(h) \cup Nodes(g) \cup Nodes(n) : NextOf'[o] = NextOf[o]
    <3>1. \A o \in Nodes(h) \cup Nodes(g) \cup Nodes(n) : o \in Ops
      BY <1>4, ElementOfSeq DEF ListsInv, IsList, Nodes
    <3>2. \A o \in Nodes(h) \cup Nodes(g) \cup Nodes(n) : o # op[t]
      BY <1>1, <1>4 DEF ListsInv, Pushing
    <3>3. QED
      BY <1>2, <3>1, <3>2
  <2>2. IsList(NextOf', ListHead', h) /\ IsList(NextOf', cur', g) /\ IsList(NextOf', newTop', n)
    BY <1>1, <1>4, <2>1, ListFrame DEF ListsInv, loopVars
  <2>3. QED
    BY <1>1, <1>2, <1>4, <2>2 DEF ListsInv
<1>6. absQueue' = absQueue
  BY <1>1, <1>4, <1>5, QueueIs, QueueIsNext DEF loopVars
<1>7. QED
  BY <1>3, <1>5, <1>6 DEF OwnedInv

(* The parts of the queue are sequences of operations, and have the nodes of the lists. *)
LEMMA QueueParts ==
  ASSUME NEW h \in Seq(Ops), NEW g \in Seq(Ops), NEW n \in Seq(Ops), NEW p
  PROVE  \E s \in Seq(Ops) : /\ QueueOf(p, h, g, n) = s \o Reverse(h)
                             /\ p = "reverse" => s = Reverse(g) \o n
                             /\ p = "apply" => s = g
                             /\ p \notin {"reverse", "apply"} => s = <<>>
                             /\ Nodes(s) \subseteq Nodes(g) \cup Nodes(n)
<1>0. Reverse(g) \in Seq(Ops) /\ Reverse(g) \o n \in Seq(Ops)
  BY ReverseProperties, ConcatProperties
<1>1. CASE p = "reverse"
  <2>1. Nodes(Reverse(g) \o n) \subseteq Nodes(g) \cup Nodes(n)
    BY <1>0, NodesOf
  <2>2. QED
    BY <1>0, <1>1, <2>1 DEF QueueOf
<1>2. CASE p = "apply"
  BY <1>2 DEF QueueOf
<1>3. CASE p \notin {"reverse", "apply"}
  <2>1. <<>> \in Seq(Ops) /\ Nodes(<<>>) = {}
    BY EmptySeq, EmptyList
  <2>2. QED
    BY <1>3, <2>1 DEF QueueOf
<1>4. QED
  BY <1>1, <1>2, <1>3

(* A successful compare-and-swap enqueues the operation behind all the others. *)
LEMMA CasStep ==
  ASSUME OwnedInv, TypeOK', NEW t \in Threads, CasSucceeds(t)
  PROVE  OwnedInv' /\ \E o \in Ops : Fifo!Enqueue(o)
<1>0. TypeOK /\ HeldInv /\ PhaseInv
  BY DEF OwnedInv
<1>1. /\ ListHead = curTop[t] /\ pc[t] = "cas" /\ pc' = [pc EXCEPT ![t] = "fire"]
      /\ ListHead' = op[t] /\ op' = [op EXCEPT ![t] = NULL] /\ curTop' = [curTop EXCEPT ![t] = NULL]
      /\ UNCHANGED <<NextOf, free, loopVars>>
  BY DEF CasSucceeds, Goto
<1>2. /\ op[t] \in Ops \ free /\ NextOf[op[t]] = ListHead
      /\ ~Pushing(t)'
      /\ \A u \in Threads : u # t => pc'[u] = pc[u] /\ op'[u] = op[u] /\ curTop'[u] = curTop[u]
  BY <1>0, <1>1 DEF TypeOK, HeldInv, Pushing
<1>3. \A u \in Threads : Pushing(u)' => u # t /\ Pushing(u) /\ op'[u] = op[u] /\ op[u] # op[t]
  BY <1>0, <1>1, <1>2 DEF HeldInv, Pushing
<1>4. HeldInv' /\ PhaseInv'
  <2>1. HeldInv'
    BY <1>0, <1>1, <1>2, <1>3 DEF HeldInv, Pushing
  <2>2. QED
    BY <1>0, <1>1, <2>1 DEF PhaseInv, loopVars
<1>5. PICK h, g, n : ListsInv(h, g, n)
  BY DEF OwnedInv
<1>6. PICK o \in Ops : o = op[t] /\ o \notin Nodes(h) \cup Nodes(g) \cup Nodes(n)
  BY <1>1, <1>2, <1>5 DEF ListsInv, Pushing
<1>7. PICK c : c = Cons(o, h) /\ IsList(NextOf, o, c) /\ Nodes(c) = {o} \cup Nodes(h)
  <2>1. IsList(NextOf, NextOf[o], h)
    BY <1>2, <1>5, <1>6 DEF ListsInv
  <2>2. QED
    BY <1>6, <2>1, ListCons
<1>8. ListsInv(c, g, n)'
  <2>1. IsList(NextOf', ListHead', c) /\ IsList(NextOf', cur', g) /\ IsList(NextOf', newTop', n)
    BY <1>1, <1>5, <1>6, <1>7 DEF ListsInv, loopVars
  <2>2. ASSUME NEW q \in Nodes(c) \cup Nodes(g) \cup Nodes(n)
        PROVE  q \notin free' /\ \A u \in Threads : Pushing(u)' => op'[u] # q
    <3>1. CASE q = o
      BY <1>1, <1>2, <1>3, <1>6, <3>1
    <3>2. CASE q # o
      <4>1. q \in Nodes(h) \cup Nodes(g) \cup Nodes(n)
        BY <1>7, <3>2
      <4>2. QED
        BY <1>1, <1>3, <1>5, <4>1 DEF ListsInv
    <3>3. QED
      BY <3>1, <3>2
  <2>3. Nodes(c) \cap Nodes(g) = {} /\ Nodes(c) \cap Nodes(n) = {} /\ Nodes(g) \cap Nodes(n) = {}
    BY <1>5, <1>6, <1>7 DEF ListsInv
  <2>4. QED
    BY <2>1, <2>2, <2>3 DEF ListsInv
<1>9. Fifo!Enqueue(o)
  <2>0. h \in Seq(Ops) /\ g \in Seq(Ops) /\ n \in Seq(Ops)
    BY <1>5 DEF ListsInv, IsList
  <2>1. absQueue = QueueOf(lpc, h, g, n) /\ absQueue' = QueueOf(lpc, c, g, n)
    BY <1>1, <1>5, <1>8, QueueIs, QueueIsNext DEF loopVars
  <2>2. PICK s \in Seq(Ops) : /\ QueueOf(lpc, h, g, n) = s \o Reverse(h)
                              /\ lpc = "reverse" => s = Reverse(g) \o n
                              /\ lpc = "apply" => s = g
                              /\ lpc \notin {"reverse", "apply"} => s = <<>>
                              /\ Nodes(s) \subseteq Nodes(g) \cup Nodes(n)
    BY <2>0, QueueParts
  <2>a. absQueue = s \o Reverse(h) /\ absQueue' = s \o Reverse(c)
    BY <2>1, <2>2 DEF QueueOf
  <2>3. Reverse(h) \in Seq(Ops) /\ Reverse(c) = Append(Reverse(h), o)
    BY <1>6, <1>7, <2>0, ReverseProperties, ReverseCons
  <2>4. absQueue' = Append(absQueue, o)
    BY <1>6, <2>a, <2>3, ConcatAppend
  <2>5. absQueue \in Seq(Ops) /\ Nodes(absQueue) \subseteq Nodes(h) \cup Nodes(g) \cup Nodes(n)
    <3>1. Nodes(s \o Reverse(h)) \subseteq Nodes(s) \cup Nodes(Reverse(h))
      BY <2>3, NodesOf
    <3>2. Nodes(Reverse(h)) \subseteq Nodes(h)
      BY <2>0, NodesOf
    <3>3. s \o Reverse(h) \in Seq(Ops)
      BY <2>3, ConcatProperties
    <3>4. QED
      BY <2>a, <2>2, <3>1, <3>2, <3>3
  <2>6. \A i \in DOMAIN absQueue : absQueue[i] # o
    <3>1. DOMAIN absQueue = 1..Len(absQueue)
      BY <2>5, LenProperties
    <3>2. QED
      BY <1>6, <2>5, <3>1 DEF Nodes
  <2>7. QED
    BY <2>4, <2>6 DEF Fifo!Enqueue, absQueue
<1>10. QED
  BY <1>4, <1>6, <1>8, <1>9 DEF OwnedInv

(* The loop's steps keep the threads' part. *)
LEMMA LoopKeepsThreads ==
  ASSUME OwnedInv, UNCHANGED producerVars,
         \A u \in Threads : Pushing(u) => op[u] \notin free' /\ NextOf'[op[u]] = NextOf[op[u]]
  PROVE  HeldInv' /\ \A u \in Threads : (Pushing(u)' <=> Pushing(u)) /\ op'[u] = op[u]
BY DEF OwnedInv, HeldInv, Pushing, producerVars

(* Grab: Head.exchange(nullptr). *)
LEMMA GrabStep ==
  ASSUME OwnedInv, TypeOK', Grab
  PROVE  OwnedInv' /\ absQueue' = absQueue
<1>0. TypeOK /\ HeldInv /\ PhaseInv
  BY DEF OwnedInv
<1>1. /\ lpc = "grab" /\ lpc' = "reverse" /\ cur' = ListHead /\ ListHead' = NULL /\ newTop' = NULL
      /\ UNCHANGED <<NextOf, free, producerVars>>
  BY DEF Grab, LoopGoto
<1>2. PICK h, g, n : ListsInv(h, g, n)
  BY DEF OwnedInv
<1>3. HeldInv' /\ \A u \in Threads : (Pushing(u)' <=> Pushing(u)) /\ op'[u] = op[u]
  BY <1>0, <1>1, LoopKeepsThreads DEF HeldInv
<1>4. PhaseInv'
  BY <1>1 DEF PhaseInv
<1>5. ListsInv(<<>>, h, <<>>)'
  BY <1>1, <1>2, <1>3, EmptyList DEF ListsInv
<1>6. absQueue' = absQueue
  <2>1. h \in Seq(Ops) /\ Reverse(h) \in Seq(Ops)
    BY <1>2, ReverseProperties DEF ListsInv, IsList
  <2>2. absQueue = <<>> \o Reverse(h)
    BY <1>1, <1>2, QueueIs DEF QueueOf
  <2>3. absQueue' = (Reverse(h) \o <<>>) \o Reverse(<<>>)
    BY <1>1, <1>5, QueueIsNext DEF QueueOf
  <2>4. QED
    BY <2>1, <2>2, <2>3, ReverseEmpty, ConcatEmptySeq
<1>7. QED
  BY <1>3, <1>4, <1>5, <1>6 DEF OwnedInv

(* One node is turned round: it leaves the one list and leads the other. *)
LEMMA TurnStep ==
  ASSUME OwnedInv, TypeOK', ReverseStep
  PROVE  OwnedInv' /\ absQueue' = absQueue
<1>0. TypeOK /\ HeldInv /\ PhaseInv
  BY DEF OwnedInv
<1>1. /\ lpc = "reverse" /\ lpc' = lpc /\ cur # NULL /\ NextOf' = [NextOf EXCEPT ![cur] = newTop]
      /\ newTop' = cur /\ cur' = NextOf[cur] /\ UNCHANGED <<ListHead, free, producerVars>>
  BY DEF ReverseStep
<1>2. PICK h, g, n : ListsInv(h, g, n)
  BY DEF OwnedInv
<1>3. PICK o : o = cur
  OBVIOUS
<1>4. PICK u : /\ g = Cons(o, u) /\ o \in Ops /\ IsList(NextOf, NextOf[o], u)
               /\ o \notin Nodes(u) /\ Nodes(g) = {o} \cup Nodes(u)
  BY <1>1, <1>2, <1>3, ListUncons DEF ListsInv
<1>5. /\ NextOf'[o] = newTop /\ \A q \in Ops : q # o => NextOf'[q] = NextOf[q]
      /\ cur' = NextOf[o] /\ newTop' = o
  BY <1>0, <1>1, <1>3, <1>4 DEF TypeOK
<1>6. o \in Nodes(g) /\ o \notin Nodes(h) /\ o \notin Nodes(n)
  BY <1>2, <1>4 DEF ListsInv
<1>7. /\ h \in Seq(Ops) /\ n \in Seq(Ops) /\ u \in Seq(Ops)
      /\ \A q \in Nodes(h) \cup Nodes(u) \cup Nodes(n) : q \in Ops
  <2>1. h \in Seq(Ops) /\ n \in Seq(Ops) /\ u \in Seq(Ops)
    BY <1>2, <1>4 DEF ListsInv, IsList
  <2>2. QED
    BY <2>1, ElementOfSeq DEF Nodes
<1>8. PICK c : c = Cons(o, n) /\ IsList(NextOf', o, c) /\ Nodes(c) = {o} \cup Nodes(n)
  <2>1. IsList(NextOf, newTop, n)
    BY <1>2 DEF ListsInv
  <2>2. IsList(NextOf', newTop, n)
    BY <1>5, <1>6, <1>7, <2>1, ListFrame
  <2>3. IsList(NextOf', NextOf'[o], n)
    BY <1>5, <2>2
  <2>4. QED
    BY <1>4, <1>6, <2>3, ListCons
<1>9. IsList(NextOf', ListHead', h) /\ IsList(NextOf', cur', u)
  <2>1. IsList(NextOf, ListHead, h)
    BY <1>2 DEF ListsInv
  <2>2. (\A q \in Nodes(h) : NextOf'[q] = NextOf[q]) /\ \A q \in Nodes(u) : NextOf'[q] = NextOf[q]
    BY <1>4, <1>5, <1>6, <1>7
  <2>3. QED
    BY <1>1, <1>4, <1>5, <2>1, <2>2, ListFrame
<1>10. HeldInv' /\ \A t \in Threads : (Pushing(t)' <=> Pushing(t)) /\ op'[t] = op[t]
  <2>1. \A t \in Threads : Pushing(t) => op[t] \in Ops \ free /\ op[t] # o
    BY <1>0, <1>2, <1>6 DEF HeldInv, ListsInv
  <2>2. QED
    BY <1>1, <1>5, <2>1, LoopKeepsThreads
<1>11. PhaseInv'
  BY <1>1 DEF PhaseInv
<1>12. ListsInv(h, u, c)'
  <2>1. Nodes(h) \cap Nodes(u) = {} /\ Nodes(h) \cap Nodes(c) = {} /\ Nodes(u) \cap Nodes(c) = {}
    BY <1>2, <1>4, <1>6, <1>8 DEF ListsInv
  <2>2. ASSUME NEW q \in Nodes(h) \cup Nodes(u) \cup Nodes(c)
        PROVE  q \notin free' /\ \A t \in Threads : Pushing(t)' => op'[t] # q
    <3>1. q \in Nodes(h) \cup Nodes(g) \cup Nodes(n)
      BY <1>4, <1>8
    <3>2. QED
      BY <1>1, <1>2, <1>10, <3>1 DEF ListsInv
  <2>3. QED
    BY <1>5, <1>8, <1>9, <2>1, <2>2 DEF ListsInv
<1>13. absQueue' = absQueue
  <2>1. absQueue = (Reverse(g) \o n) \o Reverse(h)
    BY <1>1, <1>2, QueueIs DEF QueueOf
  <2>2. absQueue' = (Reverse(u) \o c) \o Reverse(h)
    BY <1>1, <1>12, QueueIsNext DEF QueueOf
  <2>0. o \in Ops /\ u \in Seq(Ops) /\ n \in Seq(Ops)
    BY <1>4, <1>7
  <2>3. Reverse(u) \in Seq(Ops) /\ Reverse(g) = Append(Reverse(u), o)
    <3>1. Reverse(u) \in Seq(Ops)
      BY <2>0, ReverseProperties
    <3>2. Reverse(Cons(o, u)) = Append(Reverse(u), o)
      BY <2>0, ReverseCons
    <3>3. QED
      BY <1>4, <3>1, <3>2
  <2>4. Append(Reverse(u), o) \o n = Reverse(u) \o Cons(o, n)
    BY <2>0, <2>3, ConcatCons
  <2>5. QED
    BY <1>8, <2>1, <2>2, <2>3, <2>4
<1>14. QED
  BY <1>10, <1>11, <1>12, <1>13 DEF OwnedInv

(* The reversal is complete: the queue is as before. *)
LEMMA TurnedStep ==
  ASSUME OwnedInv, TypeOK', ReverseDone
  PROVE  OwnedInv' /\ absQueue' = absQueue
<1>0. TypeOK /\ HeldInv /\ PhaseInv
  BY DEF OwnedInv
<1>1. /\ lpc = "reverse" /\ lpc' = "apply" /\ cur = NULL /\ cur' = newTop /\ newTop' = NULL
      /\ UNCHANGED <<listVars, producerVars>>
  BY DEF ReverseDone, LoopGoto
<1>2. PICK h, g, n : ListsInv(h, g, n)
  BY DEF OwnedInv
<1>3. g = <<>>
  BY <1>1, <1>2, EmptyList DEF ListsInv
<1>4. HeldInv' /\ \A u \in Threads : (Pushing(u)' <=> Pushing(u)) /\ op'[u] = op[u]
  BY <1>0, <1>1, LoopKeepsThreads DEF HeldInv, listVars
<1>5. PhaseInv'
  BY <1>1 DEF PhaseInv
<1>6. ListsInv(h, n, <<>>)'
  BY <1>1, <1>2, <1>4, EmptyList DEF ListsInv, listVars
<1>7. absQueue' = absQueue
  <2>1. n \in Seq(Ops)
    BY <1>2 DEF ListsInv, IsList
  <2>2. absQueue = (Reverse(<<>>) \o n) \o Reverse(h)
    BY <1>1, <1>2, <1>3, QueueIs DEF QueueOf
  <2>3. absQueue' = n \o Reverse(h)
    BY <1>1, <1>6, QueueIsNext DEF QueueOf
  <2>4. QED
    BY <2>1, <2>2, <2>3, ReverseEmpty, ConcatEmptySeq
<1>8. QED
  BY <1>4, <1>5, <1>6, <1>7 DEF OwnedInv

(* The loop applies the oldest operation, and has read its Next before. *)
LEMMA ApplyOldest ==
  ASSUME OwnedInv, TypeOK', ApplyStep
  PROVE  OwnedInv' /\ Fifo!Apply
<1>0. TypeOK /\ HeldInv /\ PhaseInv
  BY DEF OwnedInv
<1>1. /\ lpc = "apply" /\ lpc' = lpc /\ cur # NULL /\ cur' = NextOf[cur] /\ free' = free \cup {cur}
      /\ UNCHANGED <<ListHead, NextOf, newTop, producerVars>>
  BY DEF ApplyStep
<1>2. PICK h, g, n : ListsInv(h, g, n)
  BY DEF OwnedInv
<1>3. PICK o : o = cur
  OBVIOUS
<1>4. PICK u : /\ g = Cons(o, u) /\ o \in Ops /\ IsList(NextOf, NextOf[o], u)
               /\ o \notin Nodes(u) /\ Nodes(g) = {o} \cup Nodes(u)
  BY <1>1, <1>2, <1>3, ListUncons DEF ListsInv
<1>5. HeldInv' /\ \A t \in Threads : (Pushing(t)' <=> Pushing(t)) /\ op'[t] = op[t]
  <2>1. \A t \in Threads : Pushing(t) => op[t] \in Ops \ free /\ op[t] # o
    BY <1>0, <1>2, <1>4 DEF HeldInv, ListsInv
  <2>2. QED
    BY <1>1, <1>3, <2>1, LoopKeepsThreads
<1>6. PhaseInv'
  BY <1>0, <1>1 DEF PhaseInv
<1>7. ListsInv(h, u, n)'
  <2>1. /\ IsList(NextOf', ListHead', h) /\ IsList(NextOf', cur', u) /\ IsList(NextOf', newTop', n)
        /\ Nodes(h) \cap Nodes(u) = {} /\ Nodes(h) \cap Nodes(n) = {} /\ Nodes(u) \cap Nodes(n) = {}
    BY <1>1, <1>2, <1>3, <1>4 DEF ListsInv
  <2>2. ASSUME NEW q \in Nodes(h) \cup Nodes(u) \cup Nodes(n)
        PROVE  q \notin free' /\ \A t \in Threads : Pushing(t)' => op'[t] # q
    <3>1. q \in Nodes(h) \cup Nodes(g) \cup Nodes(n) /\ q # o
      BY <1>2, <1>4 DEF ListsInv
    <3>2. QED
      BY <1>1, <1>2, <1>3, <1>5, <3>1 DEF ListsInv
  <2>3. QED
    BY <2>1, <2>2 DEF ListsInv
<1>8. Fifo!Apply
  <2>0. h \in Seq(Ops) /\ u \in Seq(Ops) /\ Reverse(h) \in Seq(Ops)
    BY <1>2, <1>4, ReverseProperties DEF ListsInv, IsList
  <2>1. absQueue = Cons(o, u) \o Reverse(h)
    BY <1>1, <1>2, <1>4, QueueIs DEF QueueOf
  <2>2. absQueue' = u \o Reverse(h)
    BY <1>1, <1>7, QueueIsNext DEF QueueOf
  <2>3. u \o Reverse(h) \in Seq(Ops) /\ absQueue = Cons(o, u \o Reverse(h))
    <3>1. u \o Reverse(h) \in Seq(Ops)
      BY <2>0, ConcatProperties
    <3>2. PICK r \in Seq(Ops) : r = Reverse(h)
      BY <2>0
    <3>3. Cons(o, u) \o r = Cons(o, u \o r)
      <4>1. o \in Ops /\ u \in Seq(Ops) /\ r \in Seq(Ops)
        BY <1>4, <2>0
      <4>2. QED
        BY <4>1, ConsConcat
    <3>4. QED
      BY <2>1, <3>1, <3>2, <3>3
  <2>4. absQueue # <<>> /\ Tail(absQueue) = u \o Reverse(h)
    <3>1. Cons(o, u \o Reverse(h)) # <<>> /\ Tail(Cons(o, u \o Reverse(h))) = u \o Reverse(h)
      BY <1>4, <2>3, ConsProperties, TailCons
    <3>2. QED
      BY <2>3, <3>1
  <2>5. QED
    BY <2>2, <2>4 DEF Fifo!Apply, absQueue
<1>9. QED
  BY <1>5, <1>6, <1>7, <1>8 DEF OwnedInv

(* The last of the grabbed operations has been applied. *)
LEMMA AppliedStep ==
  ASSUME OwnedInv, TypeOK', ApplyDone
  PROVE  OwnedInv' /\ absQueue' = absQueue
<1>0. TypeOK /\ HeldInv /\ PhaseInv
  BY DEF OwnedInv
<1>1. /\ lpc = "apply" /\ lpc' = "poll" /\ cur = NULL
      /\ UNCHANGED <<listVars, producerVars, cur, newTop>>
  BY DEF ApplyDone, LoopGoto
<1>2. PICK h, g, n : ListsInv(h, g, n)
  BY DEF OwnedInv
<1>3. g = <<>>
  BY <1>1, <1>2, EmptyList DEF ListsInv
<1>4. HeldInv' /\ \A u \in Threads : (Pushing(u)' <=> Pushing(u)) /\ op'[u] = op[u]
  BY <1>0, <1>1, LoopKeepsThreads DEF HeldInv, listVars
<1>5. PhaseInv'
  BY <1>0, <1>1 DEF PhaseInv
<1>6. ListsInv(h, g, n)'
  BY <1>1, <1>2, <1>4 DEF ListsInv, listVars
<1>7. absQueue = <<>> \o Reverse(h) /\ absQueue' = <<>> \o Reverse(h)
  BY <1>1, <1>2, <1>3, <1>6, QueueIs, QueueIsNext DEF QueueOf
<1>8. QED
  BY <1>4, <1>5, <1>6, <1>7 DEF OwnedInv

-----------------------------------------------------------------------------
(* Every step is a step of ScheduleFifo, or is not seen there. *)
LEMMA StepInOrder ==
  ASSUME OwnedInv, TypeOK', [Next]_vars
  PROVE  OwnedInv' /\ (absQueue' = absQueue \/ Fifo!FifoNext)
<1>1. ASSUME NEW t \in Threads, Schedule(t) \/ InSchedule(t)
      PROVE  OwnedInv' /\ (absQueue' = absQueue \/ Fifo!FifoNext)
  BY <1>1, ScheduleStep, ReadStep, LinkStep, CasStep DEF InSchedule, Fifo!FifoNext
<1>2. CASE LoopThread
  BY <1>2, AsyncStep, GrabStep, TurnStep, TurnedStep, ApplyOldest, AppliedStep
  DEF LoopThread, ApplyOperations, Fifo!FifoNext
<1>3. CASE UNCHANGED vars
  <2>1. HeldInv' /\ PhaseInv' /\ UNCHANGED <<ListHead, NextOf, cur, newTop, free, pc, op, lpc>>
    BY <1>3 DEF vars, listVars, producerVars, loopVars, OwnedInv, HeldInv, PhaseInv, Pushing
  <2>2. QED
    BY <2>1, QuietStep DEF Pushing
<1>4. QED
  BY <1>1, <1>2, <1>3 DEF Next

(***************************************************************************)
(* TLoop::Schedule and TLoop::ApplyOperations are a first-in first-out     *)
(* queue, for any number of threads and operations: each push takes effect *)
(* at its compare-and-swap, no operation is lost, duplicated or overtaken, *)
(* and the loop applies the oldest one, although TOperationList is a stack *)
(* whose nodes are reused at the same address (ABA), are reversed in place *)
(* and may be freed by Apply.  The invariant says who holds each node: a   *)
(* push whose compare-and-swap succeeds links to the current top even if   *)
(* that node has been applied and pushed again in between.                 *)
(***************************************************************************)
THEOREM ScheduleIsFifo == Spec => AppliesInOrder
<1>1. Init => OwnedInv /\ Fifo!FifoInit
  <2> SUFFICES ASSUME Init PROVE OwnedInv /\ Fifo!FifoInit
    OBVIOUS
  <2>1. TypeOK
    BY DEF Init, TypeOK, OpOrNull, ProducerPc, LoopPc
  <2>2. HeldInv /\ PhaseInv
    BY DEF Init, HeldInv, PhaseInv, Pushing
  <2>3. ListsInv(<<>>, <<>>, <<>>)
    BY EmptyList DEF Init, ListsInv
  <2>4. absQueue = <<>> \o Reverse(<<>>)
    BY <2>3, QueueIs DEF Init, QueueOf
  <2>5. absQueue = <<>>
    BY <2>4, ReverseEmpty, ConcatEmptySeq, EmptySeq
  <2>6. QED
    BY <2>1, <2>2, <2>3, <2>5 DEF OwnedInv, Fifo!FifoInit, absQueue
<1>2. OwnedInv /\ TypeOK' /\ [Next]_vars => OwnedInv' /\ (absQueue' = absQueue \/ Fifo!FifoNext)
  BY StepInOrder
<1>3. (absQueue' = absQueue \/ Fifo!FifoNext) => [Fifo!FifoNext]_(Grabbed \o Reverse(Chain(NextOf, ListHead)))
  BY DEF absQueue
<1>4. QED
  BY <1>1, <1>2, <1>3, TypeCorrect, PTL DEF Spec, AppliesInOrder, Fifo!FifoSpec
=============================================================================
