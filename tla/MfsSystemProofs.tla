--------------------------- MODULE MfsSystemProofs ---------------------------
(***************************************************************************)
(* What the datagrams of proj6's clients keep to, for any number of        *)
(* clients, any calls and any number of losses, timeouts and crashes.      *)
(*                                                                         *)
(* A client's datagrams form one line: the answers that came back, the     *)
(* request that is served, the requests in the server's socket.  Each of   *)
(* them will end a call unless it is lost, so the one with k ahead of it   *)
(* ends the k-th call from now or an earlier one.                          *)
(***************************************************************************)
EXTENDS MfsSystem, FiniteSetTheorems, FunctionTheorems, SequenceTheorems, TLAPS

IsSequence(s) == s \in Seq({s[i] : i \in DOMAIN s})

\* the places before the k-th of a buffer that hold a datagram of client c
Before(s, c, k) == {i \in DOMAIN s : i < k /\ s[i].client = c}

\* 1 if the server has read, and not yet answered, a request of client c
AtServer(c) == IF serving.client = c THEN 1 ELSE 0

\* how many of client c's datagrams are ahead of the k-th request, which may be
\* one still to be sent
Ahead(c, k) == Len(answers[c]) + AtServer(c) + Cardinality(Before(requests, c, k))

\* the call that the next answer client c takes will end
Begun(c) == IF waiting[c] THEN call[c] ELSE call[c] + 1

\* the buffer s is t when x, sent to it, has arrived or not
Joined(s, x, t) == t = s \/ t = Append(s, x)

\* the datagrams of client c that were one too many, or were overtaken
Slips(c) == extra[c] + overtaken[c]

GhostTypes == extra \in [Clients -> Nat] /\ overtaken \in [Clients -> Nat]

ClientTypes ==
    /\ call \in [Clients -> Nat] /\ GhostTypes
    /\ waiting \in [Clients -> BOOLEAN]
    /\ DOMAIN taken = Clients /\ DOMAIN answers = Clients
    /\ IsSequence(requests)
    /\ \A i \in DOMAIN requests : requests[i].call \in Nat
    /\ \A c \in Clients :
          /\ IsSequence(answers[c])
          /\ taken[c].call \in Nat
          /\ \A i \in DOMAIN answers[c] : answers[c][i].call \in Nat
          /\ serving.client = c => serving.call \in Nat

\* What is about to end a call is behind that call by no more than the client's
\* slips, and so is what a request sent now would end.
LineBounded(c) ==
    /\ ~waiting[c] => call[c] - taken[c].call <= Slips(c)
    /\ \A i \in DOMAIN answers[c] : Begun(c) + i - 1 - answers[c][i].call <= Slips(c)
    /\ serving.client = c => Begun(c) + Len(answers[c]) - serving.call <= Slips(c)
    /\ \A k \in DOMAIN requests : requests[k].client = c =>
          Begun(c) + Ahead(c, k) - requests[k].call <= Slips(c)
    /\ Begun(c) + Ahead(c, Len(requests) + 1) <= Slips(c) + call[c] + 1

LineInv == ClientTypes /\ \A c \in Clients : LineBounded(c)

-----------------------------------------------------------------------------
(* Sequences, and the places in them.                                      *)

\* A sequence is one over its own elements.
LEMMA SequenceShape ==
    ASSUME NEW s, IsSequence(s)
    PROVE  Len(s) \in Nat /\ DOMAIN s = 1..Len(s)
BY DEF IsSequence

\* Whatever it is known to be a sequence over, it is one over its own elements.
LEMMA SequenceOver ==
    ASSUME NEW S, NEW s \in Seq(S)
    PROVE  IsSequence(s)
<1> DEFINE T == {s[i] : i \in DOMAIN s}
<1>1. /\ Len(s) \in Nat /\ s \in [1..Len(s) -> S]
      /\ DOMAIN s = 1..Len(s)
  BY LenProperties
<1>2. s \in [1..Len(s) -> T]
  BY <1>1
<1>3. s \in UNION {[1..n -> T] : n \in Nat}
  BY <1>1, <1>2
<1> QED
  BY <1>3, SeqDef DEF IsSequence

\* Adding an element at the end leaves the others where they are.
LEMMA AppendShape ==
    ASSUME NEW s, IsSequence(s), NEW x
    PROVE  /\ IsSequence(Append(s, x)) /\ Len(Append(s, x)) = Len(s) + 1
           /\ \A i \in 1..Len(s) : Append(s, x)[i] = s[i]
           /\ Append(s, x)[Len(s) + 1] = x
<1> DEFINE S == {s[i] : i \in DOMAIN s}
           t == Append(s, x)
<1>1. s \in Seq(S) /\ S \subseteq S \cup {x}
  BY DEF IsSequence
<1>a. s \in Seq(S \cup {x}) /\ x \in S \cup {x}
  <2> HIDE DEF S
  <2> QED BY <1>1, SeqMonotonic
<1>2. /\ t \in Seq(S \cup {x}) /\ Len(t) = Len(s) + 1
      /\ \A i \in 1..Len(s) : t[i] = s[i]
      /\ t[Len(s) + 1] = x
  <2> HIDE DEF S
  <2> QED BY <1>a, AppendProperties
<1> QED
  BY <1>2, SequenceOver

\* Taking the first element off moves the others up.
LEMMA TailShape ==
    ASSUME NEW s, IsSequence(s), s # <<>>
    PROVE  /\ IsSequence(Tail(s)) /\ Len(Tail(s)) = Len(s) - 1 /\ Len(s) \in Nat \ {0}
           /\ Head(s) = s[1]
           /\ \A i \in 1..Len(s)-1 : Tail(s)[i] = s[i+1]
<1> DEFINE S == {s[i] : i \in DOMAIN s}
           t == Tail(s)
<1>1. s \in Seq(S)
  BY DEF IsSequence
<1>2. /\ t \in Seq(S) /\ Len(t) = Len(s) - 1 /\ Len(s) \in Nat \ {0}
      /\ Head(s) = s[1]
      /\ \A i \in 1..Len(s)-1 : t[i] = s[i+1]
  <2> HIDE DEF S
  <2> QED BY <1>1, HeadTailProperties, LenProperties, EmptySeq
<1> QED
  BY <1>2, SequenceOver

\* A client's datagrams in a buffer can be counted.
LEMMA BeforeFinite ==
    ASSUME NEW s, IsSequence(s), NEW c, NEW k
    PROVE  /\ IsFiniteSet(Before(s, c, k))
           /\ Cardinality(Before(s, c, k)) \in Nat
<1>1. Len(s) \in Nat /\ DOMAIN s = 1..Len(s)
  BY SequenceShape
<1>2. IsFiniteSet(1..Len(s))
  BY <1>1, FS_Interval
<1>3. Before(s, c, k) \in SUBSET (1..Len(s))
  BY <1>1 DEF Before
<1> QED
  BY <1>2, <1>3, FS_Subset, FS_CardinalityType

\* A datagram at the end is before none.
LEMMA BeforeAppend ==
    ASSUME NEW s, IsSequence(s), NEW x, NEW c, NEW k \in 1..Len(s)+1
    PROVE  Before(Append(s, x), c, k) = Before(s, c, k)
<1> DEFINE t == Append(s, x)
           n == Len(s) + 1
<1>1. DOMAIN s = 1..n-1 /\ DOMAIN t = 1..n /\ n \in Nat
  BY SequenceShape, AppendShape
<1>2. \A i \in 1..n-1 : t[i] = s[i]
  BY AppendShape
<1> HIDE DEF t, n
<1>3. k \in 1..n
  BY DEF n
<1>4. \A i : i \in 1..n /\ i < k <=> i \in 1..n-1 /\ i < k
  BY <1>1, <1>3
<1>5. \A i : i \in DOMAIN t /\ i < k /\ t[i].client = c
               <=> i \in DOMAIN s /\ i < k /\ s[i].client = c
  BY <1>1, <1>2, <1>4
<1> QED
  BY <1>5 DEF Before, t

\* A datagram at the end has all of its client's datagrams before it.
LEMMA CountAppend ==
    ASSUME NEW s, IsSequence(s), NEW x, NEW c
    PROVE  Cardinality(Before(Append(s, x), c, Len(s) + 2)) =
             Cardinality(Before(s, c, Len(s) + 1)) + (IF x.client = c THEN 1 ELSE 0)
<1> DEFINE t == Append(s, x)
           n == Len(s) + 1
<1>1. DOMAIN s = 1..n-1 /\ DOMAIN t = 1..n /\ n \in Nat \ {0}
  BY SequenceShape, AppendShape
<1>2. \A i \in 1..n-1 : t[i] = s[i]
  BY AppendShape
<1>3. t[n] = x
  BY AppendShape
<1>5. /\ x.client = c => Before(t, c, n + 1) = Before(s, c, n) \cup {n}
      /\ x.client # c => Before(t, c, n + 1) = Before(s, c, n)
  <2> HIDE DEF t, n
  <2>1. \A i : i \in 1..n /\ i < n + 1 <=> i \in 1..n
    BY <1>1
  <2>2. \A i : i \in 1..n <=> ((i \in 1..n-1 /\ i < n) \/ i = n)
    BY <1>1
  <2> QED BY <1>1, <1>2, <1>3, <2>1, <2>2 DEF Before
<1>6. n \notin Before(s, c, n)
  <2> HIDE DEF t, n
  <2> QED BY <1>1 DEF Before
<1>b. IsFiniteSet(Before(s, c, n)) /\ Cardinality(Before(s, c, n)) \in Nat
  BY BeforeFinite
<1>7. Cardinality(Before(t, c, n + 1)) =
        Cardinality(Before(s, c, n)) + (IF x.client = c THEN 1 ELSE 0)
  <2> HIDE DEF t, n
  <2>1. CASE x.client = c
    <3>1. Before(t, c, n + 1) = Before(s, c, n) \cup {n}
      BY <1>5, <2>1
    <3>2. Cardinality(Before(s, c, n) \cup {n}) = Cardinality(Before(s, c, n)) + 1
      BY <1>6, <1>b, FS_AddElement
    <3> QED BY <3>1, <3>2, <2>1, <1>b
  <2>2. CASE x.client # c
    <3>1. Before(t, c, n + 1) = Before(s, c, n)
      BY <1>5, <2>2
    <3> QED BY <3>1, <2>2, <1>b
  <2> QED BY <2>1, <2>2
<1>8. n + 1 = Len(s) + 2
  BY SequenceShape
<1> QED
  BY <1>7, <1>8

\* When the first datagram is read, each of the others has one less before it if
\* that was its client's, and as many as it had if not.
LEMMA BeforeTail ==
    ASSUME NEW s, IsSequence(s), s # <<>>, NEW c, NEW k \in 1..Len(s)
    PROVE  Cardinality(Before(s, c, k + 1)) =
             Cardinality(Before(Tail(s), c, k)) + (IF s[1].client = c THEN 1 ELSE 0)
<1> DEFINE t == Tail(s)
           n == Len(s)
           B == Before(s, c, k + 1)
           A == Before(t, c, k)
           f == [i \in A |-> i + 1]
<1>1. /\ DOMAIN s = 1..n /\ DOMAIN t = 1..n-1 /\ n \in Nat \ {0}
      /\ \A i \in 1..n-1 : t[i] = s[i+1]
  BY SequenceShape, TailShape
<1>2. IsFiniteSet(B) /\ Cardinality(B) \in Nat /\ IsFiniteSet(A) /\ Cardinality(A) \in Nat
  BY BeforeFinite, TailShape
<1>3. f \in Bijection(A, B \ {1})
  <2> HIDE DEF t, n
  <2>1. \A i \in A : i \in 1..n-1 /\ i + 1 \in B \ {1}
    BY <1>1 DEF Before
  <2>2. \A j \in B \ {1} : j - 1 \in A /\ (j - 1) + 1 = j
    BY <1>1 DEF Before
  <2>3. f \in [A -> B \ {1}]
    BY <2>1
  <2>4. \A i, j \in A : f[i] = f[j] => i = j
    BY <2>1
  <2>5. \A j \in B \ {1} : \E i \in A : f[i] = j
    BY <2>2
  <2> HIDE DEF f, A, B
  <2> QED
    BY <2>3, <2>4, <2>5, Fun_IsBij
<1>4. Cardinality(B \ {1}) = Cardinality(A)
  <2> HIDE DEF f, A, B
  <2>1. ExistsBijection(A, B \ {1})
    BY <1>3 DEF ExistsBijection
  <2> QED
    BY <2>1, <1>2, FS_Bijection
<1>5. Cardinality(B \ {1}) = IF 1 \in B THEN Cardinality(B) - 1 ELSE Cardinality(B)
  <2> HIDE DEF A, B
  <2> QED BY <1>2, FS_RemoveElement
<1>6. 1 \in B <=> s[1].client = c
  <2> HIDE DEF t, n
  <2> QED BY <1>1 DEF Before
<1> HIDE DEF A, B, t, n
<1>7. Cardinality(B) = Cardinality(A) + (IF s[1].client = c THEN 1 ELSE 0)
  BY <1>2, <1>4, <1>5, <1>6
<1> QED
  BY <1>7 DEF A, B, t

-----------------------------------------------------------------------------
(* The steps of the clients and of the server.                             *)

USE DEF ghosts, GhostTypes, Slips

\* What is known of a buffer's places.
LEMMA LineTypes ==
    ASSUME ClientTypes, NEW d \in Clients
    PROVE  /\ Len(requests) \in Nat /\ DOMAIN requests = 1..Len(requests)
           /\ Len(answers[d]) \in Nat /\ DOMAIN answers[d] = 1..Len(answers[d])
           /\ AtServer(d) \in 0..1
           /\ \A k : Ahead(d, k) \in Nat /\ Cardinality(Before(requests, d, k)) \in Nat
           /\ call[d] \in Nat /\ Slips(d) \in Nat /\ waiting[d] \in BOOLEAN
           /\ Begun(d) \in Nat
<1>1. IsSequence(requests) /\ IsSequence(answers[d])
  BY DEF ClientTypes
<1>2. /\ Len(requests) \in Nat /\ DOMAIN requests = 1..Len(requests)
      /\ Len(answers[d]) \in Nat /\ DOMAIN answers[d] = 1..Len(answers[d])
  BY <1>1, SequenceShape
<1>3. \A k : Cardinality(Before(requests, d, k)) \in Nat
  BY <1>1, BeforeFinite
<1>4. AtServer(d) \in 0..1
  BY DEF AtServer
<1>5. call[d] \in Nat /\ Slips(d) \in Nat /\ waiting[d] \in BOOLEAN
  BY DEF ClientTypes
<1> QED
  BY <1>2, <1>3, <1>4, <1>5 DEF Ahead, Begun

\* There is nothing on its way at first.
LEMMA LineInit == ClientInit => LineInv
<1> SUFFICES ASSUME ClientInit PROVE LineInv
  OBVIOUS
<1>1. IsSequence(<<>>) /\ Len(<<>>) = 0 /\ DOMAIN <<>> = {}
  BY DEF IsSequence
<1>2. \A c \in Clients : serving.client # c
  BY ClientsAssumption DEF ClientInit, Nothing
<1>3. ClientTypes
  BY <1>1, <1>2 DEF ClientInit, ClientTypes, NoAnswer
<1>4. ASSUME NEW c \in Clients PROVE LineBounded(c)
  <2>1. Before(requests, c, Len(requests) + 1) = {}
    BY <1>1 DEF ClientInit, Before
  <2>2. Len(answers[c]) = 0 /\ AtServer(c) = 0
    BY <1>1, <1>2 DEF ClientInit, AtServer
  <2>3. Cardinality(Before(requests, c, Len(requests) + 1)) = 0
    BY <2>1, FS_EmptySet
  <2>4. Ahead(c, Len(requests) + 1) = 0
    BY <2>2, <2>3 DEF Ahead
  <2> QED
    BY <1>1, <1>2, <2>4 DEF ClientInit, LineBounded, NoAnswer, Begun
<1> QED
  BY <1>3, <1>4 DEF LineInv

\* A client sends the command of the call it is in now; the copy, if it arrives,
\* has no more ahead of it than the client has slips.
LEMMA RequestSent ==
    ASSUME LineInv, NEW c \in Clients, NEW x, NEW e \in Nat,
           x.client = c, x.call = Begun(c),
           call' = [call EXCEPT ![c] = Begun(c)],
           waiting' = [waiting EXCEPT ![c] = TRUE],
           GhostTypes', Slips(c)' = e, \A d \in Clients \ {c} : Slips(d)' = Slips(d),
           Slips(c) <= e, Ahead(c, Len(requests) + 1) <= e,
           Joined(requests, x, requests'),
           UNCHANGED <<taken, serving, answers>>
    PROVE  LineInv'
<1> HIDE DEF Slips
<1> DEFINE n == Len(requests)
           m == Len(requests')
<1>t. ClientTypes
  BY DEF LineInv
<1>1. IsSequence(requests)
  BY <1>t DEF ClientTypes
<1>2. /\ \A d \in Clients : Begun(d)' = Begun(d) /\ AtServer(d)' = AtServer(d)
      /\ \A d \in Clients \ {c} : call'[d] = call[d] /\ Slips(d)' = Slips(d)
                                  /\ waiting'[d] = waiting[d]
      /\ call'[c] = Begun(c) /\ Slips(c)' = e /\ waiting'[c]
      /\ call[c] <= call'[c]
  BY <1>t, LineTypes DEF ClientTypes, Begun, AtServer
<1>3. /\ n \in Nat /\ DOMAIN requests = 1..n
      /\ IsSequence(requests') /\ m \in n..n+1
      /\ DOMAIN requests' = 1..m
      /\ \A i \in 1..n : requests'[i] = requests[i]
      /\ m = n + 1 => requests'[n + 1] = x
  <2>1. n \in Nat /\ DOMAIN requests = 1..n
    BY <1>1, SequenceShape
  <2>2. CASE requests' = requests
    <3>1. m = n
      BY <2>2
    <3> HIDE DEF n, m
    <3> QED BY <2>1, <2>2, <3>1, <1>1
  <2>3. CASE requests' = Append(requests, x)
    <3>1. /\ IsSequence(requests') /\ Len(requests') = n + 1
          /\ \A i \in 1..n : requests'[i] = requests[i]
          /\ requests'[n + 1] = x
      BY <2>3, <1>1, AppendShape
    <3>2. DOMAIN requests' = 1..m /\ m = n + 1
      BY <3>1, SequenceShape
    <3> HIDE DEF n, m
    <3> QED BY <2>1, <3>1, <3>2
  <2> QED BY <2>2, <2>3 DEF Joined
<1>4. \A d \in Clients, k \in 1..n+1 : Before(requests', d, k) = Before(requests, d, k)
  <2>1. ASSUME NEW d
        PROVE  \A k \in 1..Len(requests)+1 :
                  Before(Append(requests, x), d, k) = Before(requests, d, k)
    <3> HIDE DEF n, m
    <3> QED BY <1>1, BeforeAppend
  <2> QED BY <2>1 DEF Joined
<1>5. \A d \in Clients, k \in 1..n+1 : Ahead(d, k)' = Ahead(d, k)
  BY <1>2, <1>4 DEF Ahead
<1>6. \A d \in Clients :
        Ahead(d, Len(requests) + 1)' <= Ahead(d, n + 1) + (IF d = c THEN 1 ELSE 0)
  <2> TAKE d \in Clients
  <2>1. CASE requests' = requests
    <3>1. Ahead(d, Len(requests) + 1)' = Ahead(d, n + 1)
      BY <2>1, <1>2 DEF Ahead
    <3>2. Ahead(d, n + 1) \in Nat
      BY <1>t, LineTypes
    <3> HIDE DEF n, m
    <3> QED BY <3>1, <3>2
  <2>2. CASE requests' = Append(requests, x)
    <3>1. Len(requests') + 1 = n + 2
      BY <2>2, <1>1, <1>3, AppendShape
    <3>2. Cardinality(Before(requests', d, n + 2)) =
            Cardinality(Before(requests, d, n + 1)) + (IF d = c THEN 1 ELSE 0)
      BY <2>2, <1>1, CountAppend
    <3> QED
      <4>1. /\ Len(answers'[d]) = Len(answers[d]) /\ Len(answers[d]) \in Nat
            /\ AtServer(d)' = AtServer(d) /\ AtServer(d) \in 0..1
            /\ Cardinality(Before(requests, d, n + 1)) \in Nat
        BY <1>2, <1>t, LineTypes
      <4>2. Ahead(d, Len(requests) + 1)' =
              Len(answers'[d]) + AtServer(d)' + Cardinality(Before(requests', d, n + 2))
        BY <3>1 DEF Ahead
      <4>3. Ahead(d, n + 1) =
              Len(answers[d]) + AtServer(d) + Cardinality(Before(requests, d, n + 1))
        BY DEF Ahead
      <4> HIDE DEF n, m
      <4> QED BY <3>2, <4>1, <4>2, <4>3
  <2> QED BY <2>1, <2>2 DEF Joined
<1>7. ClientTypes'
  <2>1. /\ call' \in [Clients -> Nat] /\ GhostTypes'
        /\ waiting' \in [Clients -> BOOLEAN]
    BY <1>t, LineTypes DEF ClientTypes
  <2>2. \A i \in DOMAIN requests' : requests'[i].call \in Nat
    <3>1. x.call \in Nat
      BY <1>t, LineTypes
    <3> HIDE DEF n, m
    <3> QED BY <1>t, <1>3, <3>1 DEF ClientTypes
  <2> QED
    BY <1>t, <1>3, <2>1, <2>2 DEF ClientTypes
<1>9. \A d : Cardinality(Before(requests', d, Len(requests') + 1)) \in Nat
  BY <1>3, BeforeFinite
<1>8. ASSUME NEW d \in Clients PROVE LineBounded(d)'
  <2> USE <1>8
  <2>t. /\ call[d] \in Nat /\ Slips(d) \in Nat /\ waiting[d] \in BOOLEAN /\ Begun(d) \in Nat
        /\ Len(answers[d]) \in Nat /\ DOMAIN answers[d] = 1..Len(answers[d])
        /\ \A k : Ahead(d, k) \in Nat
        /\ taken[d].call \in Nat
        /\ \A i \in DOMAIN answers[d] : answers[d][i].call \in Nat
        /\ \A i \in DOMAIN requests : requests[i].call \in Nat
        /\ serving.client = d => serving.call \in Nat
    BY <1>t, LineTypes DEF ClientTypes
  <2>i. LineBounded(d)
    BY DEF LineInv
  <2>1. Slips(d) <= Slips(d)' /\ call[d] <= call'[d] /\ call'[d] \in Nat /\ Slips(d)' \in Nat
    BY <1>2, <2>t
  <2>2. LineBounded(d)'
    <3>1. (~waiting[d] => call[d] - taken[d].call <= Slips(d))'
      BY <1>2, <2>i, <2>t DEF LineBounded
    <3>2. (\A i \in DOMAIN answers[d] : Begun(d) + i - 1 - answers[d][i].call <= Slips(d))'
      <4> SUFFICES ASSUME NEW i \in DOMAIN answers[d]
                   PROVE  Begun(d)' + i - 1 - answers[d][i].call <= Slips(d)'
        OBVIOUS
      <4>1. Begun(d) + i - 1 - answers[d][i].call <= Slips(d)
        BY <2>i DEF LineBounded
      <4>2. Begun(d)' = Begun(d)
        BY <1>2
      <4>3. i \in Int /\ answers[d][i].call \in Int /\ Begun(d) \in Int /\ Slips(d) \in Int
            /\ Slips(d)' \in Int
        BY <2>t, <2>1
      <4> QED
        BY ONLY <2>1, <4>1, <4>2, <4>3
    <3>3. (serving.client = d => Begun(d) + Len(answers[d]) - serving.call <= Slips(d))'
      BY <1>2, <2>i, <2>t, <2>1 DEF LineBounded
    <3>4. (\A k \in DOMAIN requests : requests[k].client = d =>
             Begun(d) + Ahead(d, k) - requests[k].call <= Slips(d))'
      <4> SUFFICES ASSUME NEW k \in DOMAIN requests', requests'[k].client = d
                   PROVE  Begun(d)' + Ahead(d, k)' - requests'[k].call <= Slips(d)'
        OBVIOUS
      <4>1. k \in 1..n+1 /\ Ahead(d, k)' = Ahead(d, k)
        <5>1. k \in 1..n+1
          <6> HIDE DEF n, m
          <6> QED BY <1>3
        <5> QED BY <5>1, <1>5
      <4>2. CASE k \in 1..n
        <5>1. k \in DOMAIN requests /\ requests'[k] = requests[k]
          <6> HIDE DEF n, m
          <6> QED BY <4>2, <1>3
        <5>2. Begun(d) + Ahead(d, k) - requests[k].call <= Slips(d)
          BY <5>1, <2>i DEF LineBounded
        <5> QED
          BY <5>1, <5>2, <4>1, <1>2, <2>t, <2>1
      <4>3. CASE k = n + 1
        <5>1. requests'[k] = x /\ d = c
          <6> HIDE DEF n, m
          <6> QED BY <4>3, <1>3
        <5> QED
          BY <5>1, <4>1, <4>3, <1>2, <2>t
      <4> HIDE DEF n, m
      <4> QED BY <4>1, <4>2, <4>3, <1>3
    <3>5. (Begun(d) + Ahead(d, Len(requests) + 1) <= Slips(d) + call[d] + 1)'
      <4>a. AtServer(d)' \in 0..1 /\ Len(answers'[d]) \in Nat
        BY <1>2, <1>t, LineTypes
      <4>b. Cardinality(Before(requests', d, Len(requests') + 1)) \in Nat
        BY <1>9
      <4>1. Ahead(d, Len(requests) + 1)' \in Nat
        BY <4>a, <4>b DEF Ahead
      <4>2. CASE d = c
        BY <4>1, <4>2, <1>2, <1>6, <2>t
      <4>3. CASE d # c
        BY <4>1, <4>3, <1>2, <1>6, <2>i, <2>t DEF LineBounded
      <4> QED BY <4>2, <4>3
    <3> QED
      BY <3>1, <3>2, <3>3, <3>4, <3>5 DEF LineBounded
  <2> QED BY <2>2
<1> QED
  BY <1>7, <1>8 DEF LineInv

\* The facts about client d that every step starts from.
LEMMA LineFacts ==
    ASSUME LineInv, NEW d \in Clients
    PROVE  /\ call[d] \in Nat /\ Slips(d) \in Nat /\ waiting[d] \in BOOLEAN /\ Begun(d) \in Nat
           /\ Len(answers[d]) \in Nat /\ DOMAIN answers[d] = 1..Len(answers[d])
           /\ Len(requests) \in Nat /\ DOMAIN requests = 1..Len(requests)
           /\ AtServer(d) \in 0..1
           /\ \A k : Ahead(d, k) \in Nat /\ Cardinality(Before(requests, d, k)) \in Nat
           /\ taken[d].call \in Nat
           /\ \A i \in DOMAIN answers[d] : answers[d][i].call \in Nat
           /\ \A i \in DOMAIN requests : requests[i].call \in Nat
           /\ serving.client = d => serving.call \in Nat
           /\ LineBounded(d)
<1>1. ClientTypes
  BY DEF LineInv
<1>2. LineBounded(d)
  BY DEF LineInv
<1> QED
  BY <1>1, <1>2, LineTypes DEF ClientTypes

\* The line of a client that nothing happens to, or that loses something at its
\* end, stays as it was.
LEMMA OthersKept ==
    ASSUME LineInv, NEW d \in Clients,
           call'[d] = call[d], Slips(d)' = Slips(d), waiting'[d] = waiting[d],
           taken'[d] = taken[d], answers'[d] = answers[d],
           UNCHANGED requests, serving' = serving \/ serving'.client # d
    PROVE  LineBounded(d)'
<1>1. Begun(d)' = Begun(d)
  BY DEF Begun
<1>2. AtServer(d)' <= AtServer(d) /\ AtServer(d)' \in 0..1
  BY DEF AtServer
<1>3. \A k : Ahead(d, k)' <= Ahead(d, k) /\ Ahead(d, k)' \in Nat
  BY <1>2, LineFacts, SMTT(30) DEF Ahead
<1>f. /\ LineBounded(d) /\ Begun(d) \in Nat /\ Slips(d) \in Nat /\ call[d] \in Nat
      /\ \A k \in DOMAIN requests : requests[k].call \in Nat
      /\ \A k : Ahead(d, k) \in Nat
      /\ Len(requests) \in Nat
  BY LineFacts
<1>4. LineBounded(d)'
  <2>1. (\A k \in DOMAIN requests : requests[k].client = d =>
           Begun(d) + Ahead(d, k) - requests[k].call <= Slips(d))'
    <3> SUFFICES ASSUME NEW k \in DOMAIN requests, requests[k].client = d
                 PROVE  Begun(d)' + Ahead(d, k)' - requests[k].call <= Slips(d)
      OBVIOUS
    <3>1. Begun(d) + Ahead(d, k) - requests[k].call <= Slips(d)
      BY <1>f DEF LineBounded
    <3>2. Ahead(d, k)' <= Ahead(d, k) /\ Ahead(d, k)' \in Nat /\ Ahead(d, k) \in Nat
      BY <1>3, <1>f
    <3>3. requests[k].call \in Nat
      BY <1>f
    <3> QED BY <3>1, <3>2, <3>3, <1>1, <1>f
  <2>2. (Begun(d) + Ahead(d, Len(requests) + 1) <= Slips(d) + call[d] + 1)'
    <3>1. Ahead(d, Len(requests) + 1)' <= Ahead(d, Len(requests) + 1)
          /\ Ahead(d, Len(requests) + 1)' \in Nat
      BY <1>3
    <3>2. Begun(d) + Ahead(d, Len(requests) + 1) <= Slips(d) + call[d] + 1
      BY <1>f DEF LineBounded
    <3> QED BY <3>1, <3>2, <1>1, <1>f
  <2>3. (serving.client = d => Begun(d) + Len(answers[d]) - serving.call <= Slips(d))'
    BY <1>1, <1>f DEF LineBounded
  <2>4. (\A i \in DOMAIN answers[d] : Begun(d) + i - 1 - answers[d][i].call <= Slips(d))'
    BY <1>1, <1>f DEF LineBounded
  <2>5. (~waiting[d] => call[d] - taken[d].call <= Slips(d))'
    BY <1>f DEF LineBounded
  <2> QED
    BY <2>1, <2>2, <2>3, <2>4, <2>5 DEF LineBounded
<1> QED
  BY <1>4

\* The answer that ends a call leaves the line, and the client has one call less
\* to end.
LEMMA AnswerTaken ==
    ASSUME LineInv, NEW c \in Clients, waiting[c], answers[c] # <<>>,
           taken' = [taken EXCEPT ![c] = Head(answers[c])],
           answers' = [answers EXCEPT ![c] = Tail(@)],
           waiting' = [waiting EXCEPT ![c] = FALSE],
           UNCHANGED <<call, ghosts, requests, serving>>
    PROVE  LineInv'
<1> DEFINE a == answers[c]
           b == answers'[c]
           n == Len(a)
<1>t. ClientTypes
  BY DEF LineInv
<1>1. /\ b = Tail(a) /\ IsSequence(a)
      /\ taken'[c] = Head(a) /\ ~waiting'[c]
      /\ \A d \in Clients \ {c} : answers'[d] = answers[d] /\ taken'[d] = taken[d]
                                  /\ waiting'[d] = waiting[d]
      /\ DOMAIN answers' = Clients /\ DOMAIN taken' = Clients
      /\ waiting' \in [Clients -> BOOLEAN]
  BY <1>t DEF ClientTypes
<1>2. /\ IsSequence(b) /\ Len(b) = n - 1 /\ n \in Nat \ {0}
      /\ Head(a) = a[1]
      /\ \A i \in 1..n-1 : b[i] = a[i+1]
      /\ DOMAIN a = 1..n
  <2> HIDE DEF b
  <2> QED BY <1>1, TailShape, SequenceShape
<1>3. DOMAIN b = 1..n-1
  <2> HIDE DEF b, a
  <2> QED BY <1>2, SequenceShape
<1> HIDE DEF b, n, a
<1>4. \A i \in DOMAIN b : i + 1 \in DOMAIN a /\ b[i] = a[i+1]
  BY <1>2, <1>3
<1>5. 1 \in DOMAIN a /\ taken'[c] = a[1] /\ \A i \in DOMAIN a : 1 = i \/ 1 < i
  BY <1>1, <1>2
<1>6. ClientTypes'
  <2>1. taken'[c].call \in Nat /\ \A i \in DOMAIN b : b[i].call \in Nat
    BY <1>t, <1>4, <1>5 DEF ClientTypes, a
  <2> QED
    BY <1>t, <1>1, <1>2, <2>1 DEF ClientTypes, b
<1>7. LineBounded(c)'
  <2>f. /\ LineBounded(c) /\ call[c] \in Nat /\ Slips(c) \in Nat
        /\ \A i \in DOMAIN requests : requests[i].call \in Nat
        /\ \A i \in DOMAIN a : a[i].call \in Nat
        /\ serving.client = c => serving.call \in Nat
        /\ \A k : Ahead(c, k) \in Nat
    BY LineFacts DEF a
  <2>1. Begun(c) = call[c] /\ Begun(c)' = call[c] + 1
    BY <1>1 DEF Begun
  <2>2. \A k : Ahead(c, k)' = Ahead(c, k) - 1
    <3>1. /\ AtServer(c)' = AtServer(c) /\ Len(answers'[c]) = Len(answers[c]) - 1
          /\ Len(answers[c]) \in Nat /\ AtServer(c) \in 0..1
          /\ \A k : Cardinality(Before(requests, c, k)) \in Nat
      BY <1>2, LineFacts DEF AtServer, a, b, n
    <3> QED BY <3>1 DEF Ahead
  <2>3. LineBounded(c)'
    <3>1. (call[c] - taken[c].call <= Slips(c))'
      BY <1>5, <2>f, <2>1 DEF LineBounded, a
    <3>2. (\A i \in DOMAIN answers[c] : Begun(c) + i - 1 - answers[c][i].call <= Slips(c))'
      <4> SUFFICES ASSUME NEW i \in DOMAIN b
                   PROVE  Begun(c)' + i - 1 - b[i].call <= Slips(c)
        BY DEF b
      <4>1. i + 1 \in DOMAIN a /\ b[i] = a[i+1] /\ i \in Nat /\ a[i+1].call \in Nat
        BY <1>4, <1>3, <1>2, <2>f
      <4>2. Begun(c) + (i + 1) - 1 - a[i+1].call <= Slips(c)
        BY <4>1, <2>f DEF LineBounded, a
      <4> QED BY <4>1, <4>2, <2>1, <2>f
    <3>3. (serving.client = c => Begun(c) + Len(answers[c]) - serving.call <= Slips(c))'
      <4> SUFFICES ASSUME serving.client = c
                   PROVE  Begun(c)' + Len(answers'[c]) - serving.call <= Slips(c)
        OBVIOUS
      <4>1. Len(answers'[c]) = Len(answers[c]) - 1 /\ Len(answers[c]) \in Nat
        BY <1>2 DEF a, b, n
      <4>2. Begun(c) + Len(answers[c]) - serving.call <= Slips(c)
        BY <2>f DEF LineBounded
      <4>3. Begun(c)' = Begun(c) + 1 /\ Begun(c) \in Nat /\ Slips(c) \in Nat
            /\ serving.call \in Nat
        BY <2>1, <2>f
      <4> QED
        BY ONLY <4>1, <4>2, <4>3
    <3>4. (\A k \in DOMAIN requests : requests[k].client = c =>
             Begun(c) + Ahead(c, k) - requests[k].call <= Slips(c))'
      <4> SUFFICES ASSUME NEW k \in DOMAIN requests, requests[k].client = c
                   PROVE  Begun(c)' + Ahead(c, k)' - requests[k].call <= Slips(c)
        OBVIOUS
      <4>1. Begun(c) + Ahead(c, k) - requests[k].call <= Slips(c)
        BY <2>f DEF LineBounded
      <4>2. Ahead(c, k)' = Ahead(c, k) - 1 /\ Ahead(c, k) \in Nat /\ requests[k].call \in Nat
        BY <2>2, <2>f
      <4>3. Begun(c)' = Begun(c) + 1 /\ Begun(c) \in Nat /\ Slips(c) \in Nat
        BY <2>1, <2>f
      <4> QED BY ONLY <4>1, <4>2, <4>3
    <3>5. (Begun(c) + Ahead(c, Len(requests) + 1) <= Slips(c) + call[c] + 1)'
      <4>1. Ahead(c, Len(requests) + 1)' = Ahead(c, Len(requests) + 1) - 1
            /\ Ahead(c, Len(requests) + 1) \in Nat
        BY <2>2, <2>f
      <4>2. Begun(c) + Ahead(c, Len(requests) + 1) <= Slips(c) + call[c] + 1
        BY <2>f DEF LineBounded
      <4> QED
        BY <4>1, <4>2, <2>1, <2>f
    <3> QED
      BY <3>1, <3>2, <3>3, <3>4, <3>5 DEF LineBounded
  <2> QED BY <2>3
<1>8. \A d \in Clients \ {c} : LineBounded(d)'
  BY <1>1, OthersKept
<1> QED
  BY <1>6, <1>7, <1>8 DEF LineInv

\* The server reads a request: it stays where it is in its client's line.
LEMMA RequestRead ==
    ASSUME LineInv, Receive
    PROVE  LineInv'
<1> DEFINE q == requests
           n == Len(requests)
<1>t. ClientTypes
  BY DEF LineInv
<1>1. /\ q # <<>> /\ IsSequence(q) /\ requests' = Tail(q) /\ serving' = Head(q)
      /\ UNCHANGED <<answers, call, waiting, taken, ghosts>>
  BY <1>t DEF ClientTypes, Receive, clientVars
<1>2. /\ IsSequence(Tail(q)) /\ Len(Tail(q)) = n - 1 /\ n \in Nat \ {0}
      /\ Head(q) = q[1]
      /\ \A i \in 1..n-1 : Tail(q)[i] = q[i+1]
      /\ DOMAIN q = 1..n
  <2> HIDE DEF q
  <2>1. n = Len(q)
    BY DEF q
  <2> HIDE DEF n
  <2> QED BY <1>1, <2>1, TailShape, SequenceShape
<1>3. DOMAIN requests' = 1..n-1 /\ IsSequence(requests') /\ Len(requests') = n - 1
  <2> HIDE DEF n, q
  <2> QED BY <1>1, <1>2, SequenceShape
<1>4. \A c, k : k \in 1..n =>
        Cardinality(Before(q, c, k + 1)) =
          Cardinality(Before(requests', c, k)) + (IF serving'.client = c THEN 1 ELSE 0)
  <2>1. \A c, k : k \in 1..Len(q) =>
          Cardinality(Before(q, c, k + 1)) =
            Cardinality(Before(Tail(q), c, k)) + (IF q[1].client = c THEN 1 ELSE 0)
    <3> HIDE DEF q
    <3> QED BY <1>1, BeforeTail
  <2> QED BY <2>1, <1>1, <1>2
<1> HIDE DEF n, q
<1>5. \A i \in DOMAIN requests' :
        i \in 1..n /\ i + 1 \in DOMAIN q /\ requests'[i] = q[i+1] /\ 1 < i + 1
  BY <1>1, <1>2, <1>3
<1>6. 1 \in DOMAIN q /\ serving' = q[1] /\ 1 \in 1..n
  BY <1>1, <1>2
<1>7. ClientTypes'
  <2>1. (\A i \in DOMAIN requests : requests[i].call \in Nat)' /\ serving'.call \in Nat
    BY <1>t, <1>5, <1>6 DEF ClientTypes, q
  <2> QED
    BY <1>t, <1>1, <1>3, <2>1 DEF ClientTypes
<1>8. ASSUME NEW c \in Clients PROVE LineBounded(c)'
  <2> USE <1>8
  <2>f. /\ LineBounded(c) /\ call[c] \in Nat /\ Slips(c) \in Nat
        /\ Begun(c) \in Nat /\ Len(answers[c]) \in Nat
        /\ AtServer(c) \in 0..1
        /\ \A i \in DOMAIN answers[c] : answers[c][i].call \in Nat
        /\ \A i \in DOMAIN q : q[i].call \in Nat
        /\ \A k : Ahead(c, k) \in Nat /\ Cardinality(Before(q, c, k)) \in Nat
    BY LineFacts DEF q
  <2>1. Begun(c)' = Begun(c)
    BY <1>1 DEF Begun
  <2>2. \A k \in 1..n : Ahead(c, k)' <= Ahead(c, k + 1) /\ Ahead(c, k)' \in Nat
    <3> SUFFICES ASSUME NEW k \in 1..n
                 PROVE  Ahead(c, k)' <= Ahead(c, k + 1) /\ Ahead(c, k)' \in Nat
      OBVIOUS
    <3>1. Cardinality(Before(q, c, k + 1)) =
            Cardinality(Before(requests', c, k)) + AtServer(c)'
      BY <1>4 DEF AtServer
    <3>2. Cardinality(Before(requests', c, k)) \in Nat /\ AtServer(c)' \in 0..1
      BY <1>3, BeforeFinite DEF AtServer
    <3>3. Ahead(c, k)' = Len(answers[c]) + AtServer(c)' + Cardinality(Before(requests', c, k))
      BY <1>1 DEF Ahead
    <3>4. Ahead(c, k + 1) = Len(answers[c]) + AtServer(c) + Cardinality(Before(q, c, k + 1))
      BY DEF Ahead, q
    <3> QED BY <3>1, <3>2, <3>3, <3>4, <2>f, SMTT(30)
  <2>3. LineBounded(c)'
    <3>1. (~waiting[c] => call[c] - taken[c].call <= Slips(c))'
      BY <1>1, <2>f DEF LineBounded
    <3>2. (\A i \in DOMAIN answers[c] : Begun(c) + i - 1 - answers[c][i].call <= Slips(c))'
      BY <1>1, <2>f, <2>1 DEF LineBounded
    <3>3. (serving.client = c => Begun(c) + Len(answers[c]) - serving.call <= Slips(c))'
      <4> SUFFICES ASSUME q[1].client = c
                   PROVE  Begun(c) + Len(answers[c]) - q[1].call <= Slips(c)
        BY <1>1, <1>6, <2>1
      <4>1. Begun(c) + Ahead(c, 1) - q[1].call <= Slips(c)
        BY <1>6, <2>f DEF LineBounded, q
      <4>2. Len(answers[c]) <= Ahead(c, 1) /\ q[1].call \in Nat
        BY <2>f, <1>6 DEF Ahead, q
      <4> QED BY <4>1, <4>2, <2>f
    <3>4. (\A k \in DOMAIN requests : requests[k].client = c =>
             Begun(c) + Ahead(c, k) - requests[k].call <= Slips(c))'
      <4> SUFFICES ASSUME NEW k \in DOMAIN requests', requests'[k].client = c
                   PROVE  Begun(c) + Ahead(c, k)' - requests'[k].call <= Slips(c)
        BY <2>1, <1>1
      <4>1. k \in 1..n /\ k + 1 \in DOMAIN q /\ requests'[k] = q[k+1]
        BY <1>5
      <4>2. Begun(c) + Ahead(c, k + 1) - q[k+1].call <= Slips(c) /\ q[k+1].call \in Nat
        BY <4>1, <2>f DEF LineBounded, q
      <4>3. Ahead(c, k)' <= Ahead(c, k + 1) /\ Ahead(c, k)' \in Nat /\ Ahead(c, k + 1) \in Nat
        BY <4>1, <2>2, <2>f
      <4> QED BY <4>1, <4>2, <4>3, <2>f
    <3>5. (Begun(c) + Ahead(c, Len(requests) + 1) <= Slips(c) + call[c] + 1)'
      <4>1. PICK k \in 1..n : k = n
        BY <1>2
      <4>2. Ahead(c, Len(requests) + 1)' = Ahead(c, k)'
        <5>1. Len(requests') + 1 = k
          BY <4>1, <1>2, <1>3
        <5> QED BY <5>1 DEF Ahead
      <4>3. Begun(c) + Ahead(c, k + 1) <= Slips(c) + call[c] + 1
        BY <4>1, <2>f DEF LineBounded, n
      <4>4. Ahead(c, k)' <= Ahead(c, k + 1) /\ Ahead(c, k)' \in Nat /\ Ahead(c, k + 1) \in Nat
        BY <2>2, <2>f
      <4> QED BY <4>2, <4>3, <4>4, <2>1, <2>f, <1>1
    <3> QED
      BY <3>1, <3>2, <3>3, <3>4, <3>5 DEF LineBounded
  <2> QED BY <2>3
<1> QED
  BY <1>7, <1>8 DEF LineInv

\* The smaller of two numbers.
LEMMA LeastOfTwo ==
    ASSUME NEW m \in Nat, NEW n \in Nat
    PROVE  Min({m, n}) \in Nat /\ Min({m, n}) <= m
<1>1. \E x \in {m, n} : \A y \in {m, n} : x <= y
  OBVIOUS
<1> QED
  BY <1>1 DEF Min

\* the buffer s when copies of x are sent to it
Filled(s, x, copies) ==
    LET buffer == s \o [i \in 1..copies |-> x]
    IN SubSeq(buffer, 1, Min({Len(buffer), Capacity}))

\* What becomes of a buffer when an answer is sent to it, or lost, or finds it
\* full: it holds what it held, from the front, and perhaps the answer.
LEMMA BufferShape ==
    ASSUME NEW s, IsSequence(s), NEW x, NEW copies, copies \in 0..1,
           Capacity \in Nat, NEW t, t = Filled(s, x, copies)
    PROVE  /\ IsSequence(t) /\ Len(t) \in 0..Len(s)+1
           /\ \A i \in 1..Len(t) : \/ i \in 1..Len(s) /\ t[i] = s[i]
                                   \/ i = Len(s) + 1 /\ t[i] = x
<1> DEFINE S == {s[i] : i \in DOMAIN s} \cup {x}
           copy == [i \in 1..copies |-> x]
           u == s \o copy
           n == Len(s)
<1>1. s \in Seq(S)
  <2>1. s \in Seq({s[i] : i \in DOMAIN s}) /\ {s[i] : i \in DOMAIN s} \subseteq S
    BY DEF IsSequence
  <2> QED BY <2>1, SeqMonotonic
<1>2. copy \in Seq(S) /\ Len(copy) = copies /\ \A i \in 1..copies : copy[i] = x
  <2>1. copy \in [1..copies -> S] /\ copies \in Nat
    OBVIOUS
  <2>2. copy \in Seq(S)
    BY <2>1, SeqDef
  <2>3. DOMAIN copy = 1..copies
    OBVIOUS
  <2>4. Len(copy) = copies
    <3> HIDE DEF copy
    <3> QED BY <2>1, <2>2, <2>3
  <2> QED BY <2>2, <2>4
<1> HIDE DEF copy, S
<1>3. /\ u \in Seq(S) /\ Len(u) = n + copies /\ n \in Nat
      /\ \A i \in 1..n + copies : u[i] = IF i <= n THEN s[i] ELSE copy[i - n]
  BY <1>1, <1>2, ConcatProperties, LenProperties
<1>a. t = SubSeq(u, 1, Min({Len(u), Capacity}))
  BY DEF Filled, copy
<1>b. Len(u) \in Nat
  <2> HIDE DEF u, n
  <2> QED BY <1>3
<1>c. PICK limit \in Nat : limit = Min({Len(u), Capacity}) /\ limit <= Len(u)
  <2> HIDE DEF u
  <2> QED BY <1>b, LeastOfTwo
<1>4. limit <= n + copies /\ t = SubSeq(u, 1, limit)
  <2> HIDE DEF u, n
  <2> QED BY <1>a, <1>c, <1>3
<1>5. \A i \in 1..limit : u[i] \in S
  <2>1. \A i \in 1..limit : i \in 1..Len(u)
    BY <1>3, <1>4
  <2> HIDE DEF u
  <2> QED BY <1>3, <2>1, ElementOfSeq
<1> HIDE DEF u, n
<1>6. /\ t \in Seq(S) /\ Len(t) = limit
      /\ \A i \in 1..limit : t[i] = u[i]
  <2>1. /\ t \in Seq(S)
        /\ Len(t) = IF 1 <= limit THEN limit - 1 + 1 ELSE 0
        /\ \A i \in 1..limit - 1 + 1 : t[i] = u[1 + i - 1]
    BY <1>4, <1>5, SubSeqProperties
  <2> QED BY <2>1
<1>7. IsSequence(t)
  BY <1>6, SequenceOver
<1>8. \A i \in 1..limit : \/ i \in 1..n /\ t[i] = s[i]
                          \/ i = n + 1 /\ t[i] = x
  <2> SUFFICES ASSUME NEW i \in 1..limit
               PROVE  \/ i \in 1..n /\ t[i] = s[i]
                      \/ i = n + 1 /\ t[i] = x
    OBVIOUS
  <2>1. CASE i <= n
    BY <2>1, <1>3, <1>4, <1>6
  <2>2. CASE i > n
    <3>1. i = n + 1 /\ copies = 1 /\ i - n = 1
      BY <2>2, <1>3, <1>4
    <3> QED BY <2>2, <3>1, <1>2, <1>3, <1>4, <1>6
  <2> QED BY <2>1, <2>2, <1>3
<1>9. IsSequence(t) /\ Len(t) \in 0..n+1
      /\ \A i \in 1..Len(t) : \/ i \in 1..n /\ t[i] = s[i]
                              \/ i = n + 1 /\ t[i] = x
  BY <1>3, <1>4, <1>6, <1>7, <1>8
<1> QED
  BY <1>9 DEF n

\* The answer, if it arrives, takes the place of its request in the line.
LEMMA AnswerSent ==
    ASSUME LineInv, NEW c \in Clients, serving.client = c,
           NEW x, x.call = serving.call, NEW b, NEW copies \in 0..1,
           b = Filled(answers[c], x, copies),
           answers' = [answers EXCEPT ![c] = b], serving' = Nothing,
           UNCHANGED <<requests, call, waiting, taken, ghosts>>
    PROVE  LineInv'
<1> DEFINE a == answers[c]
           n == Len(a)
<1>t. ClientTypes
  BY DEF LineInv
<1>f. /\ LineBounded(c) /\ call[c] \in Nat /\ Slips(c) \in Nat
      /\ Begun(c) \in Nat /\ n \in Nat /\ DOMAIN a = 1..n
      /\ AtServer(c) = 1 /\ serving.call \in Nat
      /\ \A i \in DOMAIN a : a[i].call \in Nat
      /\ \A i \in DOMAIN requests : requests[i].call \in Nat
      /\ \A k : Ahead(c, k) \in Nat /\ Cardinality(Before(requests, c, k)) \in Nat
      /\ Len(requests) \in Nat
  BY LineFacts DEF AtServer
<1>1. /\ answers'[c] = b /\ DOMAIN answers' = Clients
      /\ \A d \in Clients \ {c} : answers'[d] = answers[d]
  BY <1>t DEF ClientTypes
<1>2. \A d \in Clients : serving'.client # d /\ AtServer(d)' = 0
  BY ClientsAssumption DEF Nothing, AtServer
<1>3. /\ IsSequence(b) /\ Len(b) \in 0..Len(a)+1
      /\ \A i \in 1..Len(b) : \/ i \in 1..Len(a) /\ b[i] = a[i]
                              \/ i = Len(a) + 1 /\ b[i] = x
  <2>1. IsSequence(a) /\ Capacity \in Nat
    BY <1>t, ClientsAssumption DEF ClientTypes
  <2> HIDE DEF a, n
  <2>2. b = Filled(a, x, copies)
    BY DEF a
  <2>3. IsSequence(b) /\ Len(b) \in 0..Len(a)+1
    BY <2>1, <2>2, BufferShape
  <2>4. ASSUME NEW i \in 1..Len(b)
        PROVE  \/ i \in 1..Len(a) /\ b[i] = a[i]
               \/ i = Len(a) + 1 /\ b[i] = x
    BY <2>1, <2>2, BufferShape
  <2> QED
    BY <2>3, <2>4
<1>4. DOMAIN b = 1..Len(b)
  BY <1>3, SequenceShape
<1>5. \A i \in DOMAIN b : \/ i \in DOMAIN a /\ b[i] = a[i]
                          \/ i = n + 1 /\ b[i] = x
  BY <1>3, <1>4, <1>f
<1> HIDE DEF a, n
<1>6. ClientTypes'
  <2>1. \A i \in DOMAIN b : b[i].call \in Nat
    BY <1>5, <1>f
  <2> QED
    BY <1>t, <1>1, <1>2, <1>3, <2>1 DEF ClientTypes
<1>7. Begun(c)' = Begun(c)
  BY DEF Begun
<1>8. \A k : Ahead(c, k)' <= Ahead(c, k) /\ Ahead(c, k)' \in Nat
  <2>1. AtServer(c)' = 0 /\ Len(answers'[c]) \in Nat /\ Len(answers'[c]) <= Len(answers[c]) + 1
    BY <1>1, <1>2, <1>3, <1>f DEF a, n
  <2>2. Len(answers[c]) \in Nat
    BY <1>f DEF a, n
  <2> QED
    BY <2>1, <2>2, <1>f, SMTT(30) DEF Ahead
<1>9. LineBounded(c)'
  <2>1. (~waiting[c] => call[c] - taken[c].call <= Slips(c))'
    BY <1>f DEF LineBounded
  <2>2. (\A i \in DOMAIN answers[c] : Begun(c) + i - 1 - answers[c][i].call <= Slips(c))'
    <3> SUFFICES ASSUME NEW i \in DOMAIN b
                 PROVE  Begun(c) + i - 1 - b[i].call <= Slips(c)
      BY <1>1, <1>7
    <3>1. CASE i \in DOMAIN a /\ b[i] = a[i]
      BY <3>1, <1>f DEF LineBounded, a
    <3>2. CASE i = n + 1 /\ b[i] = x
      BY <3>2, <1>f DEF LineBounded, a, n
    <3> QED BY <3>1, <3>2, <1>5
  <2>3. (serving.client = c => Begun(c) + Len(answers[c]) - serving.call <= Slips(c))'
    BY <1>2
  <2>4. (\A k \in DOMAIN requests : requests[k].client = c =>
           Begun(c) + Ahead(c, k) - requests[k].call <= Slips(c))'
    <3> SUFFICES ASSUME NEW k \in DOMAIN requests, requests[k].client = c
                 PROVE  Begun(c) + Ahead(c, k)' - requests[k].call <= Slips(c)
      BY <1>7
    <3>1. Begun(c) + Ahead(c, k) - requests[k].call <= Slips(c)
      BY <1>f DEF LineBounded
    <3>2. Ahead(c, k)' <= Ahead(c, k) /\ Ahead(c, k)' \in Nat /\ Ahead(c, k) \in Nat
      BY <1>8, <1>f
    <3>3. requests[k].call \in Nat
      BY <1>f
    <3> QED BY <3>1, <3>2, <3>3, <1>f, SMTT(30)
  <2>5. (Begun(c) + Ahead(c, Len(requests) + 1) <= Slips(c) + call[c] + 1)'
    <3>1. Ahead(c, Len(requests) + 1)' <= Ahead(c, Len(requests) + 1)
          /\ Ahead(c, Len(requests) + 1)' \in Nat /\ Ahead(c, Len(requests) + 1) \in Nat
      BY <1>8, <1>f
    <3>2. Begun(c) + Ahead(c, Len(requests) + 1) <= Slips(c) + call[c] + 1
      BY <1>f DEF LineBounded
    <3> QED BY <3>1, <3>2, <1>7, <1>f
  <2> QED
    BY <2>1, <2>2, <2>3, <2>4, <2>5 DEF LineBounded
<1>10. \A d \in Clients \ {c} : LineBounded(d)'
  BY <1>1, <1>2, OthersKept
<1> QED
  BY <1>6, <1>9, <1>10 DEF LineInv

\* A reply, lost or not, to a client or to nobody.
LEMMA ReplySent ==
    ASSUME LineInv, NEW copies \in 0..1, NEW ok, NEW output, Answered(copies, ok, output)
    PROVE  LineInv'
<1> DEFINE s == serving.client
           x == [call |-> serving.call, ok |-> ok, output |-> output]
           b == Filled(answers[s], x, copies)
<1>t. ClientTypes
  BY DEF LineInv
<1>1. /\ answers' = [answers EXCEPT ![s] = b] /\ serving' = Nothing
      /\ UNCHANGED <<requests, call, waiting, taken, ghosts>>
  BY DEF Answered, clientVars, Filled
<1>2. \A d \in Clients : serving'.client # d
  BY <1>1, ClientsAssumption DEF Nothing
<1>3. CASE s \notin Clients
  <2>1. DOMAIN answers' = Clients /\ \A d \in Clients : answers'[d] = answers[d]
    BY <1>t, <1>1, <1>3 DEF ClientTypes
  <2>2. \A d \in Clients : LineBounded(d)'
    BY <1>1, <1>2, <2>1, OthersKept
  <2>3. ClientTypes'
    BY <1>t, <1>1, <1>2, <2>1 DEF ClientTypes
  <2> QED BY <2>2, <2>3 DEF LineInv
<1>4. CASE s \in Clients
  <2>1. x.call = serving.call
    OBVIOUS
  <2> HIDE DEF x
  <2>2. PICK c \in Clients : c = s
    BY <1>4
  <2> QED
    BY <1>1, <2>1, <2>2, AnswerSent
<1> QED
  BY <1>3, <1>4

-----------------------------------------------------------------------------
(* What the network does to a line, and the server's death.                *)

\* Buffer t holds before its k-th place no more of client d's datagrams than s
\* before its l-th, not counting the one at place x: each is one of those.
LEMMA NoMoreBefore ==
    ASSUME NEW s, NEW t, IsSequence(s), IsSequence(t), NEW d, NEW k, NEW l, NEW x, NEW f,
           \A i \in Before(t, d, k) \ {x} : f[i] \in Before(s, d, l),
           \A i, j \in Before(t, d, k) \ {x} : f[i] = f[j] => i = j
    PROVE  Cardinality(Before(t, d, k)) <=
             Cardinality(Before(s, d, l)) + (IF x \in Before(t, d, k) THEN 1 ELSE 0)
<1> DEFINE A == Before(t, d, k)
           B == Before(s, d, l)
           g == [i \in A \ {x} |-> f[i]]
<1>1. /\ IsFiniteSet(A) /\ IsFiniteSet(B)
      /\ Cardinality(A) \in Nat /\ Cardinality(B) \in Nat
  BY BeforeFinite
<1>2. g \in [A \ {x} -> B] /\ \A i, j \in A \ {x} : g[i] = g[j] => i = j
  OBVIOUS
<1> HIDE DEF g, A, B
<1>3. g \in Injection(A \ {x}, B)
  BY <1>2, Fun_IsInj
<1>4. Cardinality(A \ {x}) <= Cardinality(B)
  BY <1>1, <1>3, FS_Injection
<1>5. Cardinality(A \ {x}) = IF x \in A THEN Cardinality(A) - 1 ELSE Cardinality(A)
  BY <1>1, FS_RemoveElement
<1>6. Cardinality(A) <= Cardinality(B) + (IF x \in A THEN 1 ELSE 0)
  BY <1>1, <1>4, <1>5
<1> QED
  BY <1>6 DEF A, B

\* Client d's line stays within its bound when everything in it was in it before,
\* and has come no further back than the client has more slips.
LEMMA LineKept ==
    ASSUME LineInv, NEW d \in Clients, NEW e \in Nat,
           UNCHANGED <<call, waiting, taken>>, Slips(d)' = Slips(d) + e,
           Len(answers'[d]) \in Nat, Len(answers'[d]) <= Len(answers[d]) + e,
           DOMAIN answers'[d] = 1..Len(answers'[d]),
           \A i \in DOMAIN answers'[d] : \E j \in DOMAIN answers[d] :
              answers'[d][i].call = answers[d][j].call /\ i <= j + e,
           serving'.client = d => serving' = serving,
           \A k \in DOMAIN requests' : requests'[k].client = d =>
              \E l \in DOMAIN requests :
                 /\ requests[l].client = d /\ requests'[k].call = requests[l].call
                 /\ Ahead(d, k)' <= Ahead(d, l) + e,
           \A k : Ahead(d, k)' \in Nat,
           Ahead(d, Len(requests) + 1)' <= Ahead(d, Len(requests) + 1) + e
    PROVE  LineBounded(d)'
<1> HIDE DEF Slips
<1>f. /\ LineBounded(d) /\ Begun(d) \in Nat /\ Slips(d) \in Nat /\ call[d] \in Nat
      /\ \A i \in DOMAIN answers[d] : answers[d][i].call \in Nat
      /\ DOMAIN answers[d] = 1..Len(answers[d]) /\ Len(answers[d]) \in Nat
      /\ \A k \in DOMAIN requests : requests[k].call \in Nat
      /\ \A k : Ahead(d, k) \in Nat
      /\ taken[d].call \in Nat
      /\ serving.client = d => serving.call \in Nat
  BY LineFacts
<1>1. Begun(d)' = Begun(d)
  BY DEF Begun
<1>u. call' = call /\ waiting' = waiting /\ taken' = taken
  OBVIOUS
<1>s. \A i \in Int : i <= Slips(d) => i <= Slips(d)'
  BY <1>f
<1>2. (~waiting[d] => call[d] - taken[d].call <= Slips(d))'
  <2>1. ~waiting[d] => call[d] - taken[d].call <= Slips(d)
    BY <1>f DEF LineBounded
  <2>2. call[d] - taken[d].call \in Int
    BY <1>f
  <2> QED BY <1>u, <1>s, <2>1, <2>2
<1>3. (\A i \in DOMAIN answers[d] : Begun(d) + i - 1 - answers[d][i].call <= Slips(d))'
  <2> SUFFICES ASSUME NEW i \in DOMAIN answers'[d]
               PROVE  Begun(d) + i - 1 - answers'[d][i].call <= Slips(d) + e
    BY <1>1
  <2>1. PICK j \in DOMAIN answers[d] : answers'[d][i].call = answers[d][j].call /\ i <= j + e
    OBVIOUS
  <2>2. Begun(d) + j - 1 - answers[d][j].call <= Slips(d)
    BY <1>f DEF LineBounded
  <2>3. j \in Nat
    BY <1>f
  <2>4. i \in Nat
    OBVIOUS
  <2>5. PICK a \in Nat : a = answers[d][j].call /\ a = answers'[d][i].call
    BY <1>f, <2>1
  <2>6. Begun(d) + j - 1 - a <= Slips(d)
    BY <2>2, <2>5
  <2>7. Begun(d) + i - 1 - a <= Slips(d) + e
    <3>1. i <= j + e /\ Begun(d) \in Nat /\ Slips(d) \in Nat /\ e \in Nat
      BY <1>f, <2>1
    <3> QED BY ONLY <3>1, <2>3, <2>4, <2>6, a \in Nat
  <2> QED BY <2>5, <2>7
<1>4. (serving.client = d => Begun(d) + Len(answers[d]) - serving.call <= Slips(d))'
  <2> SUFFICES ASSUME serving.client = d
               PROVE  Begun(d) + Len(answers'[d]) - serving.call <= Slips(d) + e
    BY <1>1
  <2>1. Begun(d) + Len(answers[d]) - serving.call <= Slips(d)
    BY <1>f DEF LineBounded
  <2>2. PICK a \in Nat : a = serving.call
    BY <1>f
  <2>3. Begun(d) + Len(answers[d]) - a <= Slips(d)
    BY <2>1, <2>2
  <2>4. PICK m \in Nat : m = Len(answers'[d]) /\ m <= Len(answers[d]) + e
    OBVIOUS
  <2>5. Begun(d) + m - a <= Slips(d) + e
    <3>1. Len(answers[d]) \in Nat /\ Begun(d) \in Nat /\ Slips(d) \in Nat /\ e \in Nat
      BY <1>f
    <3>2. m <= Len(answers[d]) + e /\ m \in Nat /\ a \in Nat
      BY <2>2, <2>4
    <3> QED BY ONLY <3>1, <3>2, <2>3
  <2> QED BY <2>2, <2>4, <2>5
<1>5. (\A k \in DOMAIN requests : requests[k].client = d =>
         Begun(d) + Ahead(d, k) - requests[k].call <= Slips(d))'
  <2> SUFFICES ASSUME NEW k \in DOMAIN requests', requests'[k].client = d
               PROVE  Begun(d) + Ahead(d, k)' - requests'[k].call <= Slips(d) + e
    BY <1>1
  <2>1. PICK l \in DOMAIN requests :
           /\ requests[l].client = d /\ requests'[k].call = requests[l].call
           /\ Ahead(d, k)' <= Ahead(d, l) + e
    OBVIOUS
  <2>2. Begun(d) + Ahead(d, l) - requests[l].call <= Slips(d)
    BY <1>f, <2>1 DEF LineBounded
  <2>3. Ahead(d, l) \in Nat /\ Ahead(d, k)' \in Nat /\ requests[l].call \in Nat
    BY <1>f
  <2> QED BY <1>f, <2>1, <2>2, <2>3
<1>6. (Begun(d) + Ahead(d, Len(requests) + 1) <= Slips(d) + call[d] + 1)'
  <2>1. Begun(d) + Ahead(d, Len(requests) + 1) <= Slips(d) + call[d] + 1
    BY <1>f DEF LineBounded
  <2>2. Ahead(d, Len(requests) + 1)' <= Ahead(d, Len(requests) + 1) + e
    OBVIOUS
  <2>3. Ahead(d, Len(requests) + 1) \in Nat /\ Ahead(d, Len(requests) + 1)' \in Nat
    BY <1>f
  <2> QED BY <1>1, <1>f, <2>1, <2>2, <2>3
<1> QED
  BY <1>2, <1>3, <1>4, <1>5, <1>6 DEF LineBounded

\* A step that changes the requests alone: what is to be known of the new buffer,
\* counted in datagrams of client d before a place.
LEMMA RequestsKept ==
    ASSUME LineInv, NEW d \in Clients, NEW e \in Nat,
           UNCHANGED <<call, waiting, taken, answers>>, Slips(d)' = Slips(d) + e,
           serving' = serving \/ serving'.client # d, IsSequence(requests'),
           \A k \in DOMAIN requests' : requests'[k].client = d =>
              \E l \in DOMAIN requests :
                 /\ requests[l].client = d /\ requests'[k].call = requests[l].call
                 /\ Cardinality(Before(requests', d, k))
                      <= Cardinality(Before(requests, d, l)) + e,
           Cardinality(Before(requests', d, Len(requests') + 1))
             <= Cardinality(Before(requests, d, Len(requests) + 1)) + e
    PROVE  LineBounded(d)'
<1>1. /\ Len(answers[d]) \in Nat /\ DOMAIN answers[d] = 1..Len(answers[d])
      /\ AtServer(d) \in 0..1
      /\ \A k : Cardinality(Before(requests, d, k)) \in Nat
  BY LineFacts
<1>2. AtServer(d)' \in 0..1 /\ AtServer(d)' <= AtServer(d)
  BY DEF AtServer
<1>3. \A k : Cardinality(Before(requests', d, k)) \in Nat
  BY BeforeFinite
<1>4. \A k : Ahead(d, k)' = Len(answers[d]) + AtServer(d)' + Cardinality(Before(requests', d, k))
  BY DEF Ahead
<1>5. \A k : Ahead(d, k) = Len(answers[d]) + AtServer(d) + Cardinality(Before(requests, d, k))
  BY DEF Ahead
<1>6. ASSUME NEW k, NEW l,
             Cardinality(Before(requests', d, k)) <= Cardinality(Before(requests, d, l)) + e
      PROVE  Ahead(d, k)' <= Ahead(d, l) + e
  <2>1. Cardinality(Before(requests', d, k)) \in Nat /\ Cardinality(Before(requests, d, l)) \in Nat
    BY <1>1, <1>3
  <2>2. /\ Ahead(d, k)' = Len(answers[d]) + AtServer(d)' + Cardinality(Before(requests', d, k))
        /\ Ahead(d, l) = Len(answers[d]) + AtServer(d) + Cardinality(Before(requests, d, l))
    BY <1>4, <1>5
  <2> QED BY <1>1, <1>2, <1>6, <2>1, <2>2
<1>7. \A k : Ahead(d, k)' \in Nat
  BY <1>1, <1>2, <1>3, <1>4
<1>8. \A k \in DOMAIN requests' : requests'[k].client = d =>
         \E l \in DOMAIN requests :
            /\ requests[l].client = d /\ requests'[k].call = requests[l].call
            /\ Ahead(d, k)' <= Ahead(d, l) + e
  BY <1>6
<1>9. Ahead(d, Len(requests) + 1)' <= Ahead(d, Len(requests) + 1) + e
  <2>1. Ahead(d, Len(requests) + 1)' = Len(answers[d]) + AtServer(d)'
                                         + Cardinality(Before(requests', d, Len(requests') + 1))
    BY DEF Ahead
  <2> QED BY <2>1, <1>1, <1>2, <1>3, <1>5
<1>10. \A i \in DOMAIN answers[d] : i <= i + e
  BY <1>1
<1>11. /\ Len(answers[d]) <= Len(answers[d]) + e
       /\ serving'.client = d => serving' = serving
  BY <1>1
<1> QED
  BY <1>1, <1>7, <1>8, <1>9, <1>10, <1>11, LineKept

\* A function on the first numbers is a sequence.
LEMMA FunctionIsSequence ==
    ASSUME NEW S, NEW n \in Nat, NEW t \in [1..n -> S]
    PROVE  IsSequence(t) /\ Len(t) = n /\ DOMAIN t = 1..n
<1>1. t \in Seq(S) /\ DOMAIN t = 1..n
  BY SeqDef
<1>2. Len(t) = n
  BY <1>1
<1> QED
  BY <1>1, <1>2, SequenceOver

\* where the k-th place of the swapped, and of the doubled, buffer was before
FromSwapped(p, k) == IF k = p THEN p + 1 ELSE IF k = p + 1 THEN p ELSE k
FromDoubled(p, k) == IF k <= p THEN k ELSE k - 1

\* Two datagrams change places.
LEMMA SwappedShape ==
    ASSUME NEW s, IsSequence(s), NEW p \in 1..Len(s)-1
    PROVE  /\ IsSequence(Swapped(s, p)) /\ Len(Swapped(s, p)) = Len(s)
           /\ DOMAIN Swapped(s, p) = 1..Len(s)
           /\ \A i \in 1..Len(s) : /\ Swapped(s, p)[i] = s[FromSwapped(p, i)]
                                   /\ FromSwapped(p, i) \in 1..Len(s)
<1> DEFINE S == {s[i] : i \in DOMAIN s}
           t == Swapped(s, p)
<1>1. PICK n \in Nat : n = Len(s) /\ DOMAIN s = 1..n /\ p \in 1..n-1 /\ s \in [1..n -> S]
  <2>1. Len(s) \in Nat /\ DOMAIN s = 1..Len(s) /\ s \in Seq(S)
    BY SequenceShape DEF IsSequence
  <2> HIDE DEF S
  <2> QED BY <2>1, LenProperties
<1> HIDE DEF S
<1>2. p \in 1..n /\ p + 1 \in 1..n /\ p # p + 1
  BY <1>1
<1>3. DOMAIN t = 1..n /\ t[p] = s[p+1] /\ t[p+1] = s[p]
      /\ \A i \in 1..n \ {p, p+1} : t[i] = s[i]
  BY <1>1, <1>2 DEF Swapped
<1>4. \A i \in 1..n : t[i] = s[FromSwapped(p, i)] /\ FromSwapped(p, i) \in 1..n
  BY <1>2, <1>3 DEF FromSwapped
<1>5. t \in [1..n -> S]
  BY <1>1, <1>2 DEF Swapped
<1> HIDE DEF t
<1>6. IsSequence(t) /\ Len(t) = n
  BY <1>5, FunctionIsSequence
<1> QED
  BY <1>1, <1>3, <1>4, <1>6 DEF t

\* A datagram comes twice.
LEMMA DoubledShape ==
    ASSUME NEW s, IsSequence(s), NEW p \in DOMAIN s
    PROVE  /\ IsSequence(Doubled(s, p)) /\ Len(Doubled(s, p)) = Len(s) + 1
           /\ DOMAIN Doubled(s, p) = 1..Len(s)+1
           /\ \A i \in 1..Len(s)+1 : /\ Doubled(s, p)[i] = s[FromDoubled(p, i)]
                                     /\ FromDoubled(p, i) \in 1..Len(s)
<1> DEFINE S == {s[i] : i \in DOMAIN s}
           t == Doubled(s, p)
<1>1. PICK n \in Nat : n = Len(s) /\ DOMAIN s = 1..n /\ p \in 1..n /\ s \in [1..n -> S]
  <2>1. Len(s) \in Nat /\ DOMAIN s = 1..Len(s) /\ s \in Seq(S)
    BY SequenceShape DEF IsSequence
  <2> HIDE DEF S
  <2> QED BY <2>1, LenProperties
<1> HIDE DEF S
<1>2. \A i \in 1..n+1 : FromDoubled(p, i) \in 1..n
  BY <1>1 DEF FromDoubled
<1>3. t = [i \in 1..n+1 |-> s[FromDoubled(p, i)]]
  BY <1>1 DEF Doubled, FromDoubled
<1>4. t \in [1..n+1 -> S] /\ n + 1 \in Nat
  BY <1>1, <1>2, <1>3
<1>5. \A i \in 1..n+1 : t[i] = s[FromDoubled(p, i)]
  BY <1>3
<1> HIDE DEF t
<1>6. IsSequence(t) /\ Len(t) = n + 1 /\ DOMAIN t = 1..n+1
  BY <1>4, FunctionIsSequence
<1> QED
  BY <1>1, <1>2, <1>5, <1>6 DEF t

\* One request overtakes another, of the same client or not.
LEMMA RequestSwapped == ASSUME LineInv, RequestOvertaken PROVE LineInv'
<1>t. ClientTypes /\ IsSequence(requests)
  BY DEF LineInv, ClientTypes
<1>0. PICK n \in Nat : n = Len(requests) /\ DOMAIN requests = 1..n
  BY <1>t, SequenceShape
<1>1. PICK p \in 1..n-1 :
        /\ requests' = Swapped(requests, p)
        /\ \/ requests[p].client = requests[p + 1].client /\ Overtaken(requests[p].client)
           \/ requests[p].client # requests[p + 1].client /\ UNCHANGED ghosts
        /\ UNCHANGED <<call, waiting, taken, serving, answers>>
  BY <1>0 DEF RequestOvertaken, clientVars
<1>2. PICK t : t = requests'
  OBVIOUS
<1>3. /\ IsSequence(t) /\ Len(t) = n /\ DOMAIN t = 1..n
      /\ \A i \in 1..n : t[i] = requests[FromSwapped(p, i)] /\ FromSwapped(p, i) \in 1..n
  BY <1>0, <1>1, <1>2, <1>t, SwappedShape
<1>4. ClientTypes'
  <2>1. GhostTypes'
    BY <1>t, <1>1 DEF ClientTypes, GhostTypes, Overtaken, ghosts
  <2>2. \A i \in DOMAIN t : t[i].call \in Nat
    BY <1>t, <1>0, <1>3 DEF ClientTypes
  <2> QED BY <1>t, <1>1, <1>2, <1>3, <2>1, <2>2 DEF ClientTypes
<1>5. ASSUME NEW d \in Clients PROVE LineBounded(d)'
  <2>1. PICK e \in Nat : /\ Slips(d)' = Slips(d) + e
                         /\ requests[p].client = d /\ requests[p+1].client = d => e = 1
    <3>1. extra[d] \in Nat /\ overtaken[d] \in Nat
      BY <1>t, <1>5 DEF ClientTypes, GhostTypes
    <3>2. CASE requests[p].client = requests[p + 1].client /\ Overtaken(requests[p].client)
      <4>1. /\ requests[p].client = d => Slips(d)' = Slips(d) + 1
            /\ requests[p].client # d => Slips(d)' = Slips(d) + 0
        BY <3>1, <3>2, <1>t, <1>5 DEF Overtaken, Slips, ClientTypes, GhostTypes
      <4> QED BY <4>1
    <3>3. CASE requests[p].client # requests[p + 1].client /\ UNCHANGED ghosts
      <4>1. Slips(d)' = Slips(d) + 0
        BY <3>1, <3>3 DEF Slips, ghosts
      <4> QED BY <3>3, <4>1
    <3> QED BY <1>1, <3>2, <3>3
  <2> DEFINE f == [i \in 1..n |-> FromSwapped(p, i)]
  <2>2. \A k : Before(t, d, k) \subseteq 1..n
    BY <1>3 DEF Before
  <2>a. \A i, j \in 1..n : f[i] = f[j] => i = j
    BY <1>0 DEF FromSwapped
  <2>3. \A k, x : \A i, j \in Before(t, d, k) \ {x} : f[i] = f[j] => i = j
    <3> HIDE DEF f
    <3> QED BY <2>2, <2>a
  <2>4. ASSUME NEW k \in 1..n, t[k].client = d
        PROVE  Cardinality(Before(t, d, k)) <= Cardinality(Before(requests, d, f[k])) + e
    <3>1. \A i \in Before(t, d, k) \ {p} : f[i] \in Before(requests, d, f[k])
      BY <1>0, <1>3, <2>4 DEF Before, FromSwapped
    <3>2. Cardinality(Before(t, d, k)) <=
            Cardinality(Before(requests, d, f[k])) + (IF p \in Before(t, d, k) THEN 1 ELSE 0)
      <4> HIDE DEF f
      <4> QED BY <1>t, <1>3, <2>3, <3>1, NoMoreBefore
    <3>3. Cardinality(Before(requests, d, f[k])) \in Nat /\ Cardinality(Before(t, d, k)) \in Nat
      <4> HIDE DEF f
      <4> QED BY <1>t, <1>3, BeforeFinite
    <3>4. CASE k = p + 1
      <4>1. p \in Before(t, d, k) => e = 1
        BY <1>0, <1>3, <2>1, <2>4, <3>4 DEF Before, FromSwapped
      <4> HIDE DEF f
      <4> QED BY <3>2, <3>3, <4>1
    <3>5. CASE k # p + 1
      <4>1. \A i \in Before(t, d, k) \ {0} : f[i] \in Before(requests, d, f[k])
        BY <1>0, <1>3, <2>4, <3>5 DEF Before, FromSwapped
      <4>2. 0 \notin Before(t, d, k)
        BY <1>3 DEF Before
      <4>3. Cardinality(Before(t, d, k)) <=
              Cardinality(Before(requests, d, f[k])) + (IF 0 \in Before(t, d, k) THEN 1 ELSE 0)
        <5> HIDE DEF f
        <5> QED BY <1>t, <1>3, <2>3, <4>1, NoMoreBefore
      <4> HIDE DEF f
      <4> QED BY <3>3, <4>2, <4>3
    <3> QED BY <3>4, <3>5
  <2>5. Cardinality(Before(t, d, n + 1)) <= Cardinality(Before(requests, d, n + 1)) + e
    <3>1. \A i \in Before(t, d, n + 1) \ {0} : f[i] \in Before(requests, d, n + 1)
      BY <1>0, <1>3 DEF Before, FromSwapped
    <3>2. 0 \notin Before(t, d, n + 1)
      BY <1>3 DEF Before
    <3>3. Cardinality(Before(t, d, n + 1)) <=
            Cardinality(Before(requests, d, n + 1)) + (IF 0 \in Before(t, d, n + 1) THEN 1 ELSE 0)
      <4> HIDE DEF f
      <4>1. \A i, j \in Before(t, d, n + 1) \ {0} : f[i] = f[j] => i = j
        BY <2>3
      <4> QED BY <1>t, <1>3, <3>1, <4>1, NoMoreBefore
    <3>4. Cardinality(Before(requests, d, n + 1)) \in Nat /\ Cardinality(Before(t, d, n + 1)) \in Nat
      BY <1>t, <1>3, BeforeFinite
    <3> QED BY <3>2, <3>3, <3>4
  <2>6. \A k \in DOMAIN requests' : requests'[k].client = d =>
          \E l \in DOMAIN requests :
             /\ requests[l].client = d /\ requests'[k].call = requests[l].call
             /\ Cardinality(Before(requests', d, k)) <= Cardinality(Before(requests, d, l)) + e
    BY <1>0, <1>2, <1>3, <2>4
  <2> HIDE DEF f
  <2> QED BY <1>0, <1>1, <1>2, <1>3, <1>5, <2>1, <2>5, <2>6, RequestsKept
<1> QED
  BY <1>4, <1>5 DEF LineInv

\* A request is delivered twice.
LEMMA RequestCopied == ASSUME LineInv, RequestDoubled PROVE LineInv'
<1>t. ClientTypes /\ IsSequence(requests)
  BY DEF LineInv, ClientTypes
<1>0. PICK n \in Nat : n = Len(requests) /\ DOMAIN requests = 1..n
  BY <1>t, SequenceShape
<1>1. PICK p \in 1..n :
        /\ requests' = Doubled(requests, p)
        /\ OneTooMany(requests[p].client)
        /\ UNCHANGED <<call, waiting, taken, serving, answers>>
  BY <1>0 DEF RequestDoubled, clientVars
<1>2. PICK t : t = requests'
  OBVIOUS
<1>3. /\ IsSequence(t) /\ Len(t) = n + 1 /\ DOMAIN t = 1..n+1
      /\ \A i \in 1..n+1 : t[i] = requests[FromDoubled(p, i)] /\ FromDoubled(p, i) \in 1..n
  BY <1>0, <1>1, <1>2, <1>t, DoubledShape
<1>4. ClientTypes'
  <2>1. GhostTypes'
    <3>1. PICK c : extra' = [extra EXCEPT ![c] = @ + 1] /\ overtaken' = overtaken
      BY <1>1 DEF OneTooMany
    <3>2. /\ extra \in [Clients -> Nat] /\ overtaken' \in [Clients -> Nat]
      BY <1>t, <3>1 DEF ClientTypes
    <3>3. extra' \in [Clients -> Nat]
      <4>1. CASE c \in Clients
        BY <3>1, <3>2, <4>1
      <4>2. CASE c \notin Clients
        <5>1. extra' = extra
          BY <3>1, <3>2, <4>2, Zenon
        <5> QED BY <3>2, <5>1
      <4> QED BY <4>1, <4>2
    <3> QED BY <3>2, <3>3
  <2>2. \A i \in DOMAIN t : t[i].call \in Nat
    BY <1>t, <1>0, <1>3 DEF ClientTypes
  <2> QED BY <1>t, <1>1, <1>2, <1>3, <2>1, <2>2 DEF ClientTypes
<1>5. ASSUME NEW d \in Clients PROVE LineBounded(d)'
  <2>1. PICK e \in Nat : Slips(d)' = Slips(d) + e /\ (requests[p].client = d => e = 1)
    <3>1. extra[d] \in Nat /\ overtaken[d] \in Nat
      BY <1>t, <1>5 DEF ClientTypes, GhostTypes
    <3>2. /\ requests[p].client = d => Slips(d)' = Slips(d) + 1
          /\ requests[p].client # d => Slips(d)' = Slips(d) + 0
      BY <3>1, <1>1, <1>t, <1>5 DEF OneTooMany, Slips, ClientTypes, GhostTypes
    <3> QED BY <3>2
  <2> DEFINE f == [i \in 1..n+1 |-> FromDoubled(p, i)]
  <2>2. \A k : Before(t, d, k) \subseteq 1..n+1
    BY <1>3 DEF Before
  <2>a. \A i, j \in 1..n+1 : i # p /\ j # p /\ f[i] = f[j] => i = j
    BY <1>0 DEF FromDoubled
  <2>3. \A k : \A i, j \in Before(t, d, k) \ {p} : f[i] = f[j] => i = j
    <3> HIDE DEF f
    <3> QED BY <2>2, <2>a
  <2>4. ASSUME NEW k, NEW l,
               \A i \in Before(t, d, k) \ {p} : f[i] \in Before(requests, d, l)
        PROVE  Cardinality(Before(t, d, k)) <= Cardinality(Before(requests, d, l)) + e
    <3>1. Cardinality(Before(t, d, k)) <=
            Cardinality(Before(requests, d, l)) + (IF p \in Before(t, d, k) THEN 1 ELSE 0)
      <4> HIDE DEF f
      <4> QED BY <1>t, <1>3, <2>3, <2>4, NoMoreBefore
    <3>2. Cardinality(Before(requests, d, l)) \in Nat /\ Cardinality(Before(t, d, k)) \in Nat
      BY <1>t, <1>3, BeforeFinite
    <3>3. p \in Before(t, d, k) => e = 1
      BY <1>0, <1>3, <2>1 DEF Before, FromDoubled
    <3> HIDE DEF f
    <3> QED BY <3>1, <3>2, <3>3
  <2>5. Cardinality(Before(t, d, n + 2)) <= Cardinality(Before(requests, d, n + 1)) + e
    <3>1. \A i \in Before(t, d, n + 2) \ {p} : f[i] \in Before(requests, d, n + 1)
      BY <1>0, <1>3 DEF Before, FromDoubled
    <3> HIDE DEF f
    <3> QED BY <2>4, <3>1
  <2>6. ASSUME NEW k \in 1..n+1, t[k].client = d
        PROVE  Cardinality(Before(t, d, k)) <= Cardinality(Before(requests, d, f[k])) + e
    <3>1. \A i \in Before(t, d, k) \ {p} : f[i] \in Before(requests, d, f[k])
      BY <1>0, <1>3, <2>6 DEF Before, FromDoubled
    <3> HIDE DEF f
    <3> QED BY <2>4, <3>1
  <2>7. \A k \in DOMAIN requests' : requests'[k].client = d =>
          \E l \in DOMAIN requests :
             /\ requests[l].client = d /\ requests'[k].call = requests[l].call
             /\ Cardinality(Before(requests', d, k)) <= Cardinality(Before(requests, d, l)) + e
    BY <1>0, <1>2, <1>3, <2>6
  <2>8. Len(requests') + 1 = n + 2
    BY <1>2, <1>3
  <2> HIDE DEF f
  <2> QED BY <1>0, <1>1, <1>2, <1>3, <1>5, <2>1, <2>5, <2>7, <2>8, RequestsKept
<1> QED
  BY <1>4, <1>5 DEF LineInv

\* An answer is delivered twice, or overtakes another.
LEMMA AnswerDisturbed ==
    ASSUME LineInv, NEW c \in Clients, AnswerOvertaken(c) \/ AnswerDoubled(c)
    PROVE  LineInv'
<1>t. ClientTypes /\ IsSequence(answers[c])
  BY DEF LineInv, ClientTypes
<1>0. PICK n \in Nat : n = Len(answers[c]) /\ DOMAIN answers[c] = 1..n
  BY <1>t, SequenceShape
<1>1. PICK b : /\ answers' = [answers EXCEPT ![c] = b]
               /\ \/ Overtaken(c) /\ \E p \in 1..n-1 : b = Swapped(answers[c], p)
                  \/ OneTooMany(c) /\ \E p \in 1..n : b = Doubled(answers[c], p)
               /\ UNCHANGED <<call, waiting, taken, requests, serving>>
  BY <1>0 DEF AnswerOvertaken, AnswerDoubled, clientVars
<1>2. /\ IsSequence(b) /\ Len(b) \in Nat /\ Len(b) <= n + 1 /\ DOMAIN b = 1..Len(b)
      /\ \A i \in DOMAIN b : \E j \in 1..n : b[i] = answers[c][j] /\ i <= j + 1
  <2>1. CASE \E p \in 1..n-1 : b = Swapped(answers[c], p)
    <3>1. PICK p \in 1..n-1 : b = Swapped(answers[c], p)
      BY <2>1
    <3>2. /\ IsSequence(b) /\ Len(b) = n /\ DOMAIN b = 1..n
          /\ \A i \in 1..n : b[i] = answers[c][FromSwapped(p, i)] /\ FromSwapped(p, i) \in 1..n
      BY <1>0, <1>t, <3>1, SwappedShape
    <3>3. \A i \in 1..n : i <= FromSwapped(p, i) + 1
      BY <1>0 DEF FromSwapped
    <3>4. \A i \in DOMAIN b : \E j \in 1..n : b[i] = answers[c][j] /\ i <= j + 1
      BY <3>2, <3>3
    <3>5. Len(b) \in Nat /\ Len(b) <= n + 1
      BY <1>0, <3>2
    <3> QED BY <3>2, <3>4, <3>5
  <2>2. CASE \E p \in 1..n : b = Doubled(answers[c], p)
    <3>1. PICK p \in 1..n : b = Doubled(answers[c], p)
      BY <2>2
    <3>2. /\ IsSequence(b) /\ Len(b) = n + 1 /\ DOMAIN b = 1..n+1
          /\ \A i \in 1..n+1 : b[i] = answers[c][FromDoubled(p, i)] /\ FromDoubled(p, i) \in 1..n
      BY <1>0, <1>t, <3>1, DoubledShape
    <3>3. \A i \in 1..n+1 : i <= FromDoubled(p, i) + 1
      BY <1>0 DEF FromDoubled
    <3> QED BY <1>0, <3>2, <3>3
  <2> QED BY <1>1, <2>1, <2>2
<1>3. /\ DOMAIN answers' = Clients /\ answers'[c] = b
      /\ \A d \in Clients \ {c} : answers'[d] = answers[d]
  BY <1>t, <1>1 DEF ClientTypes
<1>4. GhostTypes' /\ Slips(c)' = Slips(c) + 1 /\ \A d \in Clients \ {c} : Slips(d)' = Slips(d)
  BY <1>t, <1>1 DEF Overtaken, OneTooMany, Slips, ClientTypes, GhostTypes
<1>5. ClientTypes'
  <2>1. \A i \in DOMAIN b : b[i].call \in Nat
    BY <1>t, <1>0, <1>2 DEF ClientTypes
  <2> QED BY <1>t, <1>1, <1>2, <1>3, <1>4, <2>1 DEF ClientTypes
<1>6. LineBounded(c)'
  <2>1. \A k : Ahead(c, k)' = Len(b) + AtServer(c) + Cardinality(Before(requests, c, k))
    BY <1>1, <1>3 DEF Ahead, AtServer
  <2>2. \A k : Ahead(c, k) = n + AtServer(c) + Cardinality(Before(requests, c, k))
    BY <1>0 DEF Ahead
  <2>3. AtServer(c) \in 0..1 /\ \A k : Cardinality(Before(requests, c, k)) \in Nat
    BY LineFacts
  <2>4. \A k : Ahead(c, k)' <= Ahead(c, k) + 1 /\ Ahead(c, k)' \in Nat
    BY <1>2, <2>1, <2>2, <2>3
  <2>5. Ahead(c, Len(requests) + 1)' <= Ahead(c, Len(requests) + 1) + 1
    <3>1. Ahead(c, Len(requests) + 1)' =
            Len(b) + AtServer(c) + Cardinality(Before(requests, c, Len(requests) + 1))
      BY <1>1, <1>3 DEF Ahead, AtServer
    <3> QED BY <1>2, <2>2, <2>3, <3>1
  <2>6. \A i \in DOMAIN answers'[c] : \E j \in DOMAIN answers[c] :
           answers'[c][i].call = answers[c][j].call /\ i <= j + 1
    BY <1>0, <1>2, <1>3
  <2>7. \A k \in DOMAIN requests' : requests'[k].client = c =>
           \E l \in DOMAIN requests :
              /\ requests[l].client = c /\ requests'[k].call = requests[l].call
              /\ Ahead(c, k)' <= Ahead(c, l) + 1
    BY <1>1, <2>4
  <2>8. 1 \in Nat /\ Len(answers'[c]) <= Len(answers[c]) + 1
    BY <1>0, <1>2, <1>3
  <2> QED BY <1>1, <1>2, <1>3, <1>4, <2>4, <2>5, <2>6, <2>7, <2>8, LineKept
<1>7. \A d \in Clients \ {c} : LineBounded(d)'
  BY <1>1, <1>3, <1>4, OthersKept
<1> QED
  BY <1>5, <1>6, <1>7 DEF LineInv

\* The server dies, and the requests it had received with it: the line loses its
\* middle.
LEMMA LineCut == ASSUME LineInv, ServerDies PROVE LineInv'
<1>t. ClientTypes /\ IsSequence(requests)
  BY DEF LineInv, ClientTypes
<1>0. PICK n \in Nat : n = Len(requests) /\ DOMAIN requests = 1..n
  BY <1>t, SequenceShape
<1>1. PICK p \in 0..n : /\ requests' = SubSeq(requests, p + 1, n) /\ serving' = Nothing
                        /\ UNCHANGED <<answers, call, waiting, taken, ghosts>>
  BY <1>0 DEF ServerDies, clientVars
<1>2. PICK t : t = requests'
  OBVIOUS
<1>m. PICK m \in Nat : m = n - p
  <2>1. n - p \in Nat
    BY <1>0, <1>1
  <2> QED BY <2>1
<1>3. /\ IsSequence(t) /\ Len(t) = m /\ DOMAIN t = 1..m
      /\ \A i \in 1..m : t[i] = requests[i + p] /\ i + p \in 1..n
  <2> DEFINE S == {requests[i] : i \in DOMAIN requests}
  <2>1. \A i \in p+1..n : requests[i] \in S
    BY <1>0
  <2>2. p + 1 \in Int /\ n \in Int
    OBVIOUS
  <2> HIDE DEF S
  <2>3. /\ t \in Seq(S) /\ Len(t) = IF p + 1 <= n THEN n - (p + 1) + 1 ELSE 0
        /\ \A i \in 1..n - (p + 1) + 1 : t[i] = requests[p + 1 + i - 1]
    BY <1>1, <1>2, <2>1, <2>2, SubSeqProperties
  <2>4. Len(t) = m /\ n - (p + 1) + 1 = m
    BY <1>m, <2>3
  <2>5. \A i \in 1..m : t[i] = requests[i + p] /\ i + p \in 1..n
    <3> SUFFICES ASSUME NEW i \in 1..m PROVE t[i] = requests[i + p] /\ i + p \in 1..n
      OBVIOUS
    <3>1. p + 1 + i - 1 = i + p /\ i + p \in 1..n
      BY <1>m
    <3> QED BY <2>3, <2>4, <3>1
  <2> QED BY <2>3, <2>4, <2>5, SequenceOver, SequenceShape
<1>4. \A d \in Clients : serving'.client # d
  BY <1>1, ClientsAssumption DEF Nothing
<1>5. ClientTypes'
  <2>1. \A i \in DOMAIN t : t[i].call \in Nat
    BY <1>t, <1>0, <1>3 DEF ClientTypes
  <2> QED BY <1>t, <1>1, <1>2, <1>3, <1>4, <2>1 DEF ClientTypes, GhostTypes, ghosts
<1>6. ASSUME NEW d \in Clients PROVE LineBounded(d)'
  <2>1. Slips(d)' = Slips(d) + 0 /\ 0 \in Nat
    BY <1>1, <1>6, LineFacts DEF Slips, ghosts
  <2> DEFINE f == [i \in 1..m |-> i + p]
  <2>2. ASSUME NEW k \in 1..m+1
        PROVE  Cardinality(Before(t, d, k)) <= Cardinality(Before(requests, d, k + p)) + 0
    <3>1. \A i \in Before(t, d, k) \ {0} : f[i] \in Before(requests, d, k + p)
      BY <1>0, <1>m, <1>3 DEF Before
    <3>2. 0 \notin Before(t, d, k) /\ \A i, j \in Before(t, d, k) \ {0} : f[i] = f[j] => i = j
      BY <1>3 DEF Before
    <3>3. Cardinality(Before(t, d, k)) <=
            Cardinality(Before(requests, d, k + p)) + (IF 0 \in Before(t, d, k) THEN 1 ELSE 0)
      <4> HIDE DEF f
      <4> QED BY <1>t, <1>3, <3>1, <3>2, NoMoreBefore
    <3> QED BY <3>2, <3>3
  <2>3. \A k \in DOMAIN requests' : requests'[k].client = d =>
          \E l \in DOMAIN requests :
             /\ requests[l].client = d /\ requests'[k].call = requests[l].call
             /\ Cardinality(Before(requests', d, k)) <= Cardinality(Before(requests, d, l)) + 0
    BY <1>0, <1>2, <1>3, <2>2
  <2>4. Len(requests') + 1 = m + 1 /\ m + 1 \in 1..m+1 /\ (m + 1) + p = Len(requests) + 1
    BY <1>0, <1>2, <1>m, <1>3
  <2>5. Cardinality(Before(requests', d, Len(requests') + 1))
          <= Cardinality(Before(requests, d, Len(requests) + 1)) + 0
    BY <2>2, <2>4, <1>2
  <2> QED BY <1>1, <1>2, <1>3, <1>4, <1>6, <2>1, <2>3, <2>5, RequestsKept
<1> QED
  BY <1>5, <1>6 DEF LineInv

-----------------------------------------------------------------------------
(* The system.                                                             *)

\* A client that has nothing under way has an empty line.
LEMMA NothingUnderWay ==
    ASSUME LineInv, NEW c \in Clients, ~UnderWay(c)
    PROVE  Ahead(c, Len(requests) + 1) = 0
<1>1. answers[c] = <<>> /\ AtServer(c) = 0
  BY DEF UnderWay, AtServer
<1>2. Before(requests, c, Len(requests) + 1) = {}
  BY DEF UnderWay, Before
<1>3. Len(answers[c]) = 0
  BY <1>1
<1> QED
  BY <1>1, <1>2, <1>3, FS_EmptySet DEF Ahead

\* Every step of the system keeps the lines within their bounds.
LEMMA LineNext == LineInv /\ [SysNext]_sysVars => LineInv'
<1> SUFFICES ASSUME LineInv, [SysNext]_sysVars PROVE LineInv'
  OBVIOUS
<1>1. ASSUME UNCHANGED <<clientVars, ghosts, network>> PROVE LineInv'
  BY <1>1 DEF LineInv, clientVars, ghosts, network, ClientTypes, GhostTypes, LineBounded,
              Begun, Ahead, AtServer, Slips
<1>2. CASE UNCHANGED sysVars
  BY <1>1, <1>2 DEF sysVars
<1>3. CASE ServerBoots \/ ServerWrites
  BY <1>1, <1>3 DEF ServerBoots, ServerWrites
<1>4. CASE ServerReads
  BY <1>4, RequestRead DEF ServerReads
<1>5. CASE ServerReplies \/ ReplyIsLost
  BY <1>5, ReplySent DEF ServerReplies, ReplyIsLost
<1>6. CASE ServerCrashes
  BY <1>6, LineCut DEF ServerCrashes
<1>7. ASSUME NEW c \in Clients, ClientSends(c) PROVE LineInv'
  <2> DEFINE x == Datagram(c, call[c] + 1)
  <2>t. /\ call[c] \in Nat /\ Slips(c) \in Nat /\ ~waiting[c]
        /\ call \in [Clients -> Nat] /\ GhostTypes
        /\ LineBounded(c) /\ Ahead(c, Len(requests) + 1) \in Nat
    BY <1>7, LineFacts DEF ClientSends, Send, LineInv, ClientTypes
  <2>1. Begun(c) = call[c] + 1
    BY <2>t DEF Begun
  <2>2. /\ call' = [call EXCEPT ![c] = Begun(c)]
        /\ waiting' = [waiting EXCEPT ![c] = TRUE]
        /\ GhostTypes' /\ \A d \in Clients : Slips(d)' = Slips(d)
        /\ UNCHANGED <<taken, serving, answers>>
        /\ Joined(requests, x, requests')
    BY <1>7, <2>1, <2>t DEF ClientSends, Send, Arrives, Joined, ghosts, GhostTypes, Slips
  <2>3. x.client = c /\ x.call = Begun(c)
    BY <2>1 DEF Datagram
  <2>4. Ahead(c, Len(requests) + 1) <= Slips(c)
    BY <2>1, <2>t DEF LineBounded
  <2>5. PICK e \in Nat : e = Slips(c)
    BY <2>t
  <2>6. Slips(c) <= e
    BY <2>t, <2>5
  <2> HIDE DEF x
  <2> QED
    BY <2>2, <2>3, <2>4, <2>5, <2>6, RequestSent
<1>8. ASSUME NEW c \in Clients, ClientResends(c) PROVE LineInv'
  <2> DEFINE x == Request(c)
             e == IF UnderWay(c) THEN Slips(c) + 1 ELSE Slips(c)
  <2>t. /\ call[c] \in Nat /\ Slips(c) \in Nat /\ waiting[c]
        /\ call \in [Clients -> Nat] /\ GhostTypes
        /\ waiting \in [Clients -> BOOLEAN]
        /\ LineBounded(c) /\ Ahead(c, Len(requests) + 1) \in Nat
    BY <1>8, LineFacts DEF ClientResends, Resend, LineInv, ClientTypes
  <2>1. Begun(c) = call[c]
    BY <2>t DEF Begun
  <2>2. /\ call' = [call EXCEPT ![c] = Begun(c)]
        /\ waiting' = [waiting EXCEPT ![c] = TRUE]
        /\ GhostTypes' /\ Slips(c)' = e /\ \A d \in Clients \ {c} : Slips(d)' = Slips(d)
        /\ UNCHANGED <<taken, serving, answers>>
        /\ Joined(requests, x, requests')
    <3>1. /\ waiting' = waiting /\ waiting[c] /\ UNCHANGED <<call, taken, serving, answers>>
          /\ Joined(requests, x, requests')
      BY <1>8 DEF ClientResends, Resend, Arrives, Joined, clientVars
    <3>2. /\ extra' = [extra EXCEPT ![c] = IF UnderWay(c) THEN @ + 1 ELSE @]
          /\ overtaken' = overtaken
      BY <1>8 DEF ClientResends, Resend
    <3>3. GhostTypes' /\ Slips(c)' = e /\ \A d \in Clients \ {c} : Slips(d)' = Slips(d)
      BY <3>2, <2>t DEF GhostTypes, Slips
    <3> HIDE DEF x, e
    <3> QED BY <3>1, <3>3, <2>1, <2>t
  <2>3. x.client = c /\ x.call = Begun(c)
    BY <2>1 DEF Request, Datagram
  <2>4. e \in Nat /\ Slips(c) <= e
    BY <2>t
  <2>5. Ahead(c, Len(requests) + 1) <= e
    <3>1. CASE UnderWay(c)
      BY <3>1, <2>1, <2>t DEF LineBounded
    <3>2. CASE ~UnderWay(c)
      BY <3>2, <2>t, NothingUnderWay
    <3> QED BY <3>1, <3>2
  <2> HIDE DEF x, e
  <2> QED
    BY <2>2, <2>3, <2>4, <2>5, RequestSent
<1>9. ASSUME NEW c \in Clients, ClientTakes(c) PROVE LineInv'
  BY <1>9, AnswerTaken DEF ClientTakes, TakeAnswer
<1>10. CASE NetworkDisturbs
  BY <1>10, RequestSwapped, RequestCopied, AnswerDisturbed DEF NetworkDisturbs
<1> QED
  BY <1>2, <1>3, <1>4, <1>5, <1>6, <1>7, <1>8, <1>9, <1>10 DEF SysNext

\* For any number of clients, calls, losses, copies, overtakings and crashes.
THEOREM LineHolds == SysSpec => []LineInv
<1>1. SysInit => LineInv
  BY LineInit DEF SysInit
<1> QED
  BY <1>1, LineNext, PTL DEF SysSpec

\* The answer that ends a call is no more calls old than its client's datagrams
\* were one too many or overtaken, in a network that loses, doubles and reorders
\* them as it likes.
THEOREM LagIsBounded == SysSpec => []LagBounded
<1>1. LineInv => LagBounded
  BY DEF LineInv, LineBounded, LagBounded, Slips
<1> QED
  BY <1>1, LineHolds, PTL
=============================================================================
