------------------------ MODULE DynamicGraph_proofs ------------------------
(***************************************************************************)
(* Proofs about NodeLists and DynamicGraph, for every set of nodes, every  *)
(* scan and every value of the planner's parameters.                       *)
(***************************************************************************)
EXTENDS DynamicGraph, TLAPS

-----------------------------------------------------------------------------
(***************************************************************************)
(* Lists.                                                                  *)
(***************************************************************************)

LEMMA Flips == \A p \in Pairs : /\ Flip(p) \in Pairs /\ Flip(Flip(p)) = p
                                /\ Flip(p)[1] = p[2] /\ Flip(p)[2] = p[1]
                                /\ p[1] \in Node /\ p[2] \in Node
BY DEF Pairs, Flip

\* Lists in which nodes have each other.
Symmetric(R) == R \subseteq Pairs /\ Mirrored(R)

\* AddEdge and its like join every pair both ways.
LEMMA AddedIs ==
    ASSUME NEW R, NEW P, Symmetric(R), P \subseteq Pairs
    PROVE  /\ Added(R, P) = R \cup {p \in Pairs : EitherWay(p, P)}
           /\ Symmetric(Added(R, P))
<1> DEFINE new == {p \in P : ~EitherWay(p, R)}
<1>1. \A p \in Pairs : EitherWay(p, R) <=> p \in R
  BY Flips DEF Symmetric, Mirrored, EitherWay
<1>2. \A p \in Pairs : p \in {Flip(q) : q \in new} <=> Flip(p) \in new
  BY Flips
<1>3. \A p \in Pairs : p \in Added(R, P) <=> p \in R \/ EitherWay(p, P)
  BY <1>1, <1>2, Flips DEF Added, EitherWay, Symmetric, Mirrored
<1>4. Added(R, P) \subseteq Pairs
  BY Flips DEF Added, Symmetric
<1>5. Added(R, P) = R \cup {p \in Pairs : EitherWay(p, P)}
  BY <1>3, <1>4 DEF Symmetric
<1>6. Mirrored(Added(R, P))
  BY <1>5, Flips DEF Symmetric, Mirrored, EitherWay
<1> QED BY <1>4, <1>5, <1>6 DEF Symmetric

\* EraseEdge and its like part every pair both ways.
LEMMA ErasedSymmetric ==
    ASSUME NEW R, NEW P, Symmetric(R)
    PROVE  Symmetric(Erased(R, P))
BY Flips DEF Symmetric, Mirrored, Erased, EitherWay

\* Erasing a cleared node from the lists its own lists name erases it from every list.
LEMMA ClearedIs ==
    ASSUME NEW R, NEW M, Symmetric(R)
    PROVE  /\ Cleared(R, M) = {p \in R : p[1] \notin M /\ p[2] \notin M}
           /\ Symmetric(Cleared(R, M))
<1>1. Cleared(R, M) = {p \in R : p[1] \notin M /\ p[2] \notin M}
  BY DEF Symmetric, Mirrored, Cleared
<1> QED BY <1>1, Flips DEF Symmetric, Mirrored

\* The good ones of the checked pairs are joined, the others parted.
LEMMA JoinedIs ==
    ASSUME NEW R, NEW P, NEW good, Symmetric(R), good \subseteq P, P \subseteq Pairs
    PROVE  /\ Joined(R, P, good)
                = {p \in Pairs : EitherWay(p, good) \/ (p \in R /\ ~EitherWay(p, P \ good))}
           /\ Symmetric(Joined(R, P, good))
<1>1. Symmetric(Erased(R, P \ good))
  BY ErasedSymmetric
<1>2. Symmetric(Joined(R, P, good))
  BY <1>1, AddedIs DEF Joined
<1>3. Joined(R, P, good) = Erased(R, P \ good) \cup {p \in Pairs : EitherWay(p, good)}
  BY <1>1, AddedIs DEF Joined
<1> QED BY <1>2, <1>3 DEF Erased, Symmetric

-----------------------------------------------------------------------------
(***************************************************************************)
(* Queues of votes.                                                        *)
(***************************************************************************)

\* Both ends of a pair hold the same votes, and hold some exactly when they list each
\* other; no queue is longer than the longer of two sizes.
Queues(v, R, a, b) ==
    /\ v \in [Pairs -> Votes]
    /\ \A p \in Pairs : /\ v[p] = v[Flip(p)]
                        /\ p \in R <=> v[p] # <<>>
                        /\ Len(v[p]) <= a \/ Len(v[p]) <= b

\* Sizes a queue is trimmed to.
Sizes(size, a, b) ==
    /\ size \in [Pairs -> Nat \ {0}]
    /\ \A p \in Pairs : size[p] = size[Flip(p)] /\ (size[p] <= a \/ size[p] <= b)

LEMMA TrimmedIs ==
    ASSUME NEW q \in Votes, NEW x \in {0, 1}, NEW s \in Nat \ {0}
    PROVE  /\ Trimmed(Append(q, x), s) \in Votes /\ Trimmed(Append(q, x), s) # <<>>
           /\ Len(Trimmed(Append(q, x), s)) <= s \/ (q # <<>> /\ Len(Trimmed(Append(q, x), s)) <= Len(q))
<1>1. Append(q, x) \in Seq({0, 1}) /\ Len(Append(q, x)) = Len(q) + 1 /\ Len(q) \in Nat
  BY DEF Votes
<1>2. CASE Len(Append(q, x)) > s
  <2>1. Trimmed(Append(q, x), s) = Tail(Append(q, x))
    BY <1>2 DEF Trimmed
  <2>2. Tail(Append(q, x)) \in Seq({0, 1}) /\ Len(Tail(Append(q, x))) = Len(q) /\ Len(q) >= 1
    BY <1>1, <1>2
  <2> QED BY <2>1, <2>2 DEF Votes
<1>3. CASE ~(Len(Append(q, x)) > s)
  <2>1. Trimmed(Append(q, x), s) = Append(q, x)
    BY <1>3 DEF Trimmed
  <2> QED BY <1>1, <1>3, <2>1 DEF Votes
<1> QED BY <1>2, <1>3

LEMMA OneVote == /\ <<0>> \in Votes /\ <<1>> \in Votes /\ <<>> \in Votes
                 /\ <<0>> # <<>> /\ <<1>> # <<>>
                 /\ Len(<<0>>) = 1 /\ Len(<<1>>) = 1 /\ Len(<<>>) = 0
BY DEF Votes

\* Queues end the same at both ends.
LEMMA HaveVotesIs ==
    ASSUME NEW v, NEW R, NEW a, NEW b, Queues(v, R, a, b)
    PROVE  \A p \in Pairs : HaveVotes(v, p) <=> v[p] # <<>>
BY DEF Queues, HaveVotes

\* A vote for pairs makes their ends neighbours.
LEMMA Recorded ==
    ASSUME NEW v, NEW R, NEW a \in Nat \ {0}, NEW b \in Nat, Symmetric(R), Queues(v, R, a, b),
           NEW P, P \subseteq Pairs, NEW size, Sizes(size, a, b)
    PROVE  /\ Symmetric(Added(R, FirstVote(v, P)))
           /\ Queues(RecordVote(v, P, size), Added(R, FirstVote(v, P)), a, b)
<1>1. FirstVote(v, P) \subseteq Pairs
  BY DEF FirstVote
<1>2. \A p \in Pairs : p \in Added(R, FirstVote(v, P)) <=> v[p] # <<>> \/ EitherWay(p, P)
  <2>1. \A p \in Pairs : EitherWay(p, FirstVote(v, P)) <=> EitherWay(p, P) /\ v[p] = <<>>
    BY HaveVotesIs, Flips DEF FirstVote, EitherWay, Queues
  <2> QED BY <1>1, <2>1, AddedIs DEF Queues
<1> DEFINE w == RecordVote(v, P, size)
<1>3. ASSUME NEW p \in Pairs
      PROVE  /\ w[p] \in Votes /\ w[p] = w[Flip(p)]
             /\ w[p] # <<>> <=> v[p] # <<>> \/ EitherWay(p, P)
             /\ Len(w[p]) <= a \/ Len(w[p]) <= b
  <2>0. /\ Flip(p) \in Pairs /\ v[p] = v[Flip(p)] /\ size[p] = size[Flip(p)]
        /\ v[p] \in Votes /\ (Len(v[p]) <= a \/ Len(v[p]) <= b) /\ Len(v[p]) \in Nat
        /\ size[p] \in Nat \ {0} /\ (size[p] <= a \/ size[p] <= b)
        /\ EitherWay(p, P) <=> EitherWay(Flip(p), P)
        /\ HaveVotes(v, p) <=> v[p] # <<>>
        /\ HaveVotes(v, Flip(p)) <=> v[p] # <<>>
    <3>1. Flip(p) \in Pairs /\ (EitherWay(p, P) <=> EitherWay(Flip(p), P))
      BY Flips DEF EitherWay
    <3>2. v[p] \in Votes /\ v[p] = v[Flip(p)] /\ (Len(v[p]) <= a \/ Len(v[p]) <= b)
      BY DEF Queues
    <3>3. size[p] \in Nat \ {0} /\ size[p] = size[Flip(p)] /\ (size[p] <= a \/ size[p] <= b)
      BY DEF Sizes
    <3>4. HaveVotes(v, p) <=> v[p] # <<>>
      BY HaveVotesIs
    <3>5. HaveVotes(v, Flip(p)) <=> v[Flip(p)] # <<>>
      BY <3>1, HaveVotesIs
    <3>6. Len(v[p]) \in Nat
      BY <3>2 DEF Votes
    <3> QED BY <3>1, <3>2, <3>3, <3>4, <3>5, <3>6
  <2>1. CASE ~EitherWay(p, P)
    BY <2>0, <2>1 DEF RecordVote
  <2>2. CASE EitherWay(p, P) /\ v[p] # <<>>
    <3>1. w[p] = Trimmed(Append(v[p], 1), size[p]) /\ w[Flip(p)] = w[p]
      BY <2>0, <2>2 DEF RecordVote
    <3>2. w[p] \in Votes /\ w[p] # <<>> /\ (Len(w[p]) <= size[p] \/ Len(w[p]) <= Len(v[p]))
      <4> HIDE DEF w
      <4> QED BY <2>0, <3>1, TrimmedIs
    <3>3. Len(w[p]) \in Nat
      <4> HIDE DEF w
      <4> QED BY <3>2 DEF Votes
    <3> HIDE DEF w
    <3> QED BY <2>0, <2>2, <3>1, <3>2, <3>3
  <2>3. CASE EitherWay(p, P) /\ v[p] = <<>>
    <3>1. w[p] = <<1>> /\ w[Flip(p)] = <<1>>
      BY <2>0, <2>3 DEF RecordVote
    <3> HIDE DEF w
    <3> QED BY <2>3, <3>1, OneVote
  <2> QED BY <2>1, <2>2, <2>3
<1>4. w \in [Pairs -> Votes]
  <2>1. w = [p \in Pairs |-> w[p]]
    BY DEF RecordVote
  <2> HIDE DEF w
  <2> QED BY <1>3, <2>1
<1>5. Symmetric(Added(R, FirstVote(v, P)))
  BY <1>1, AddedIs
<1> HIDE DEF w
<1>6. Queues(w, Added(R, FirstVote(v, P)), a, b)
  BY <1>2, <1>3, <1>4 DEF Queues
<1> QED BY <1>5, <1>6 DEF w

\* A vote against pairs changes nobody's neighbours.
LEMMA Deleted ==
    ASSUME NEW v, NEW R, NEW a \in Nat \ {0}, NEW b \in Nat, Queues(v, R, a, b),
           NEW P, P \subseteq Pairs, NEW size, Sizes(size, a, b)
    PROVE  Queues(DeleteVote(v, P, size), R, a, b)
<1> DEFINE w == DeleteVote(v, P, size)
<1>3. ASSUME NEW p \in Pairs
      PROVE  /\ w[p] \in Votes /\ w[p] = w[Flip(p)]
             /\ w[p] # <<>> <=> v[p] # <<>>
             /\ Len(w[p]) <= a \/ Len(w[p]) <= b
  <2>0. /\ Flip(p) \in Pairs /\ v[p] = v[Flip(p)] /\ size[p] = size[Flip(p)]
        /\ v[p] \in Votes /\ (Len(v[p]) <= a \/ Len(v[p]) <= b) /\ Len(v[p]) \in Nat
        /\ size[p] \in Nat \ {0} /\ (size[p] <= a \/ size[p] <= b)
        /\ EitherWay(p, P) <=> EitherWay(Flip(p), P)
        /\ HaveVotes(v, p) <=> v[p] # <<>>
        /\ HaveVotes(v, Flip(p)) <=> v[p] # <<>>
    <3>1. Flip(p) \in Pairs /\ (EitherWay(p, P) <=> EitherWay(Flip(p), P))
      BY Flips DEF EitherWay
    <3>2. v[p] \in Votes /\ v[p] = v[Flip(p)] /\ (Len(v[p]) <= a \/ Len(v[p]) <= b)
      BY DEF Queues
    <3>3. size[p] \in Nat \ {0} /\ size[p] = size[Flip(p)] /\ (size[p] <= a \/ size[p] <= b)
      BY DEF Sizes
    <3>4. HaveVotes(v, p) <=> v[p] # <<>>
      BY HaveVotesIs
    <3>5. HaveVotes(v, Flip(p)) <=> v[Flip(p)] # <<>>
      BY <3>1, HaveVotesIs
    <3>6. Len(v[p]) \in Nat
      BY <3>2 DEF Votes
    <3> QED BY <3>1, <3>2, <3>3, <3>4, <3>5, <3>6
  <2>1. CASE ~EitherWay(p, P) \/ v[p] = <<>>
    BY <2>0, <2>1 DEF DeleteVote
  <2>2. CASE EitherWay(p, P) /\ v[p] # <<>>
    <3>1. w[p] = Trimmed(Append(v[p], 0), size[p]) /\ w[Flip(p)] = w[p]
      BY <2>0, <2>2 DEF DeleteVote
    <3>2. w[p] \in Votes /\ w[p] # <<>> /\ (Len(w[p]) <= size[p] \/ Len(w[p]) <= Len(v[p]))
      <4> HIDE DEF w
      <4> QED BY <2>0, <3>1, TrimmedIs
    <3>3. Len(w[p]) \in Nat
      <4> HIDE DEF w
      <4> QED BY <3>2 DEF Votes
    <3> HIDE DEF w
    <3> QED BY <2>0, <2>2, <3>1, <3>2, <3>3
  <2> QED BY <2>1, <2>2
<1>4. w \in [Pairs -> Votes]
  <2>1. w = [p \in Pairs |-> w[p]]
    BY DEF DeleteVote
  <2> HIDE DEF w
  <2> QED BY <1>3, <2>1
<1> HIDE DEF w
<1>6. Queues(w, R, a, b)
  BY <1>3, <1>4 DEF Queues
<1> QED BY <1>6 DEF w

\* Votes that start over are votes.
LEMMA Reset ==
    ASSUME NEW v, NEW R, NEW a \in Nat \ {0}, NEW b \in Nat, Symmetric(R), Queues(v, R, a, b),
           NEW M, NEW part
    PROVE  Queues(ResetVotes(v, R, M, part), R, a, b)
<1> DEFINE w == ResetVotes(v, R, M, part)
           asked(p) == (p[1] \in M /\ p \in R) \/ (p[2] \in M /\ Flip(p) \in R)
<1>1. ASSUME NEW p \in Pairs
      PROVE  /\ w[p] = IF asked(p) THEN IF IsVoteTrue(v[p], part) THEN <<1>> ELSE <<0>> ELSE v[p]
             /\ asked(p) <=> asked(Flip(p))
             /\ asked(p) => p \in R
             /\ Flip(p) \in Pairs /\ v[p] = v[Flip(p)] /\ v[p] \in Votes
             /\ Len(v[p]) <= a \/ Len(v[p]) <= b
             /\ p \in R <=> v[p] # <<>>
  BY Flips DEF ResetVotes, Symmetric, Mirrored, Queues
<1>2. \A p \in Pairs : w[Flip(p)] =
        IF asked(Flip(p)) THEN IF IsVoteTrue(v[Flip(p)], part) THEN <<1>> ELSE <<0>> ELSE v[Flip(p)]
  BY <1>1
<1>3. w = [p \in Pairs |-> w[p]]
  BY DEF ResetVotes
<1> HIDE DEF w, asked
<1>4. ASSUME NEW p \in Pairs
      PROVE  /\ w[p] \in Votes /\ w[p] = w[Flip(p)]
             /\ p \in R <=> w[p] # <<>>
             /\ Len(w[p]) <= a \/ Len(w[p]) <= b
  <2>1. CASE asked(p)
    <3>1. w[p] \in {<<0>>, <<1>>} /\ w[Flip(p)] = w[p] /\ p \in R
      BY <1>1, <1>2, <2>1
    <3>2. w[p] \in Votes /\ w[p] # <<>> /\ Len(w[p]) = 1
      BY <3>1, OneVote
    <3> QED BY <3>1, <3>2
  <2>2. CASE ~asked(p)
    BY <1>1, <1>2, <2>2
  <2> QED BY <2>1, <2>2
<1>5. Queues(w, R, a, b)
  BY <1>3, <1>4 DEF Queues
<1> QED BY <1>5 DEF w

\* The queues of cleared nodes go with their neighbours.
LEMMA VotesCleared ==
    ASSUME NEW v, NEW R, NEW a \in Nat, NEW b \in Nat, Symmetric(R), Queues(v, R, a, b), NEW M
    PROVE  Queues(ClearedVotes(v, R, M), Cleared(R, M), a, b)
<1> DEFINE w == ClearedVotes(v, R, M)
<1>1. ASSUME NEW p \in Pairs
      PROVE  w[p] = IF p[1] \in M \/ p[2] \in M THEN <<>> ELSE v[p]
  BY Flips DEF ClearedVotes, Symmetric, Mirrored, Queues
<1>2. w = [p \in Pairs |-> w[p]]
  BY DEF ClearedVotes
<1> HIDE DEF w
<1>3. \A p \in Pairs : /\ w[p] \in Votes /\ w[p] = w[Flip(p)]
                       /\ p \in Cleared(R, M) <=> w[p] # <<>>
                       /\ Len(w[p]) <= a \/ Len(w[p]) <= b
  BY <1>1, Flips, ClearedIs, OneVote DEF Queues
<1>4. Queues(w, Cleared(R, M), a, b)
  BY <1>2, <1>3 DEF Queues
<1> QED BY <1>4 DEF w

\* Queues that are taken away with their neighbours.
LEMMA Dropped ==
    ASSUME NEW v, NEW R, NEW a \in Nat, NEW b \in Nat, Symmetric(R), Queues(v, R, a, b), NEW P
    PROVE  Queues([p \in Pairs |-> IF EitherWay(p, P) THEN <<>> ELSE v[p]], Erased(R, P), a, b)
<1> DEFINE w == [p \in Pairs |-> IF EitherWay(p, P) THEN <<>> ELSE v[p]]
<1>1. ASSUME NEW p \in Pairs
      PROVE  /\ w[p] = IF EitherWay(p, P) THEN <<>> ELSE v[p]
             /\ w[Flip(p)] = IF EitherWay(p, P) THEN <<>> ELSE v[Flip(p)]
             /\ p \in Erased(R, P) <=> p \in R /\ ~EitherWay(p, P)
  BY Flips DEF EitherWay, Erased
<1>2. w = [p \in Pairs |-> w[p]]
  OBVIOUS
<1> HIDE DEF w
<1>3. \A p \in Pairs : /\ w[p] \in Votes /\ w[p] = w[Flip(p)]
                       /\ p \in Erased(R, P) <=> w[p] # <<>>
                       /\ Len(w[p]) <= a \/ Len(w[p]) <= b
  BY <1>1, OneVote DEF Queues
<1>4. Queues(w, Erased(R, P), a, b)
  BY <1>2, <1>3 DEF Queues
<1> QED BY <1>4 DEF w

\* Neighbours may be added one set after the other.
LEMMA AddedTwice ==
    ASSUME NEW R, NEW P, NEW Q, Symmetric(R), P \subseteq Pairs, Q \subseteq Pairs
    PROVE  Added(R, P \cup Q) = Added(Added(R, P), Q)
<1>1. Added(R, P \cup Q) = R \cup {p \in Pairs : EitherWay(p, P \cup Q)}
  BY AddedIs
<1>2. Added(R, P) = R \cup {p \in Pairs : EitherWay(p, P)} /\ Symmetric(Added(R, P))
  BY AddedIs
<1>3. Added(Added(R, P), Q) = Added(R, P) \cup {p \in Pairs : EitherWay(p, Q)}
  BY <1>2, AddedIs
<1> QED BY <1>1, <1>2, <1>3 DEF EitherWay

-----------------------------------------------------------------------------
(***************************************************************************)
(* Edges and what backs them.                                              *)
(***************************************************************************)

\* Every edge of C is a free line of Q or joins neighbours on a contour of K.
Backed(C, Q, K) == Q \subseteq C /\ C \subseteq Q \cup K

LEMMA JoinedBacked ==
    ASSUME NEW C, NEW Q, NEW K, Symmetric(C), Symmetric(Q), Backed(C, Q, K),
           NEW P, NEW good, good \subseteq P, P \subseteq Pairs
    PROVE  Backed(Joined(C, P, good), Joined(Q, P, good), K)
<1>1. Joined(C, P, good)
        = {p \in Pairs : EitherWay(p, good) \/ (p \in C /\ ~EitherWay(p, P \ good))}
  BY JoinedIs
<1>2. Joined(Q, P, good)
        = {p \in Pairs : EitherWay(p, good) \/ (p \in Q /\ ~EitherWay(p, P \ good))}
  BY JoinedIs
<1> QED BY <1>1, <1>2 DEF Backed

LEMMA ClearedBacked ==
    ASSUME NEW C, NEW Q, NEW K, Symmetric(C), Symmetric(Q), Symmetric(K), Backed(C, Q, K), NEW M
    PROVE  /\ Backed(Cleared(C, M), Cleared(Q, M), Cleared(K, M))
           /\ Backed(Cleared(C, M), Cleared(Q, M), K)
<1>1. /\ Cleared(C, M) = {p \in C : p[1] \notin M /\ p[2] \notin M}
      /\ Cleared(Q, M) = {p \in Q : p[1] \notin M /\ p[2] \notin M}
      /\ Cleared(K, M) = {p \in K : p[1] \notin M /\ p[2] \notin M}
  BY ClearedIs
<1> QED BY <1>1 DEF Backed

\* Contours that join and part take their edges with them, except the edges that are
\* free lines.
LEMMA TopTwo ==
    ASSUME NEW C, NEW Q, NEW K, NEW T, NEW J, NEW D, NEW E,
           Symmetric(C), Symmetric(Q), Symmetric(K), Symmetric(T), Backed(C, Q, K), K \subseteq T,
           J \subseteq T, \A p \in Pairs : EitherWay(p, J) => ~EitherWay(p, D),
           \A p \in Pairs : EitherWay(p, E) <=> EitherWay(p, D) /\ p \notin Q
    PROVE  /\ Symmetric(Erased(Added(K, J), D)) /\ Erased(Added(K, J), D) \subseteq T
           /\ Symmetric(Erased(Added(C, J), E))
           /\ Backed(Erased(Added(C, J), E), Q, Erased(Added(K, J), D))
<1>1. J \subseteq Pairs
  BY DEF Symmetric
<1>2. /\ Added(K, J) = K \cup {p \in Pairs : EitherWay(p, J)} /\ Symmetric(Added(K, J))
      /\ Added(C, J) = C \cup {p \in Pairs : EitherWay(p, J)} /\ Symmetric(Added(C, J))
  BY <1>1, AddedIs
<1>3. Symmetric(Erased(Added(K, J), D)) /\ Symmetric(Erased(Added(C, J), E))
  BY <1>2, ErasedSymmetric
<1>4. \A p \in Pairs : EitherWay(p, J) => p \in T
  BY Flips DEF EitherWay, Symmetric, Mirrored
<1>5. /\ Erased(Added(K, J), D) = {p \in Added(K, J) : ~EitherWay(p, D)}
      /\ Erased(Added(C, J), E) = {p \in Added(C, J) : ~EitherWay(p, E)}
  BY DEF Erased
<1>6. Erased(Added(K, J), D) \subseteq T
  BY <1>2, <1>4, <1>5
<1>7. Q \subseteq Erased(Added(C, J), E)
  BY <1>2, <1>5 DEF Backed, Symmetric
<1>8. Erased(Added(C, J), E) \subseteq Q \cup Erased(Added(K, J), D)
  BY <1>2, <1>4, <1>5 DEF Backed, Symmetric
<1> QED BY <1>3, <1>6, <1>7, <1>8 DEF Backed

-----------------------------------------------------------------------------
(***************************************************************************)
(* The inductive invariant.                                                *)
(***************************************************************************)

EdgesOK ==
    /\ Symmetric(connect) /\ Symmetric(poly) /\ Symmetric(potEdges)
    /\ Queues(edgeVotes, potEdges, VotesSize, GoalVotesSize)

ContoursOK ==
    /\ Symmetric(contour) /\ Symmetric(potContours)
    /\ Queues(contourVotes, potContours, VotesSize, VotesSize)
    /\ contour \subseteq potContours

TrailOK ==
    /\ Symmetric(traj)
    /\ trajVotes \in [Pairs -> -1..FinalizeThred]
    /\ \A p \in Pairs : trajVotes[p] = trajVotes[Flip(p)] /\ (p \in traj <=> trajVotes[p] >= 0)

EdgesAreBacked == Backed(connect, poly, contour)

\* The fields that are not lists of neighbours.
NodesOK ==
    /\ graph \subseteq Node /\ currentGraph \subseteq Node
    /\ cur \in NavPoints \cup {None} /\ goal \in NavPoints \cup Goals \cup {None}
    /\ flagged \subseteq NavPoints /\ unreachable \subseteq Node
    /\ near \subseteq Node /\ wide \subseteq Node /\ margin \subseteq Node
    /\ matched \subseteq Corners /\ fresh \subseteq Corners \cup NavPoints /\ again \subseteq Node
    /\ frozen \in BOOLEAN /\ todo \subseteq Node
    /\ phase \in {"idle", "corners", "clear", "odom", "fresh", "out", "near", "break", "path"}

CountersOK ==
    /\ dumper \in [Node -> Nat] /\ broken \in [Node -> Nat]
    /\ outCount \in [Node -> 0..FinalizeThred] /\ reached \in [Node -> SUBSET Node]

\* Until the robot's edges have been checked, the nodes to check cover them.
OdomCovered ==
    /\ phase \in {"corners", "clear", "odom"} =>
         Of(connect, Odom) \subseteq wide \cup fresh \cup Goals
    /\ phase = "odom" => todo \subseteq wide \cup fresh /\ again \subseteq wide

IInv == EdgesOK /\ ContoursOK /\ TrailOK /\ EdgesAreBacked /\ NodesOK /\ CountersOK /\ OdomCovered

LEMMA NodeSets ==
    /\ Odom \in Node /\ Corners \subseteq Node /\ NavPoints \subseteq Node /\ Goals \subseteq Node
    /\ None \notin Node /\ FinalizeThred \in Nat \ {0} /\ DumperThred \in Nat
    /\ 0 \in 0..FinalizeThred /\ 0 \in -1..FinalizeThred /\ -1 \in -1..FinalizeThred
    /\ VotesSize \in Nat \ {0} /\ GoalVotesSize \in Nat \ {0}
BY ParametersAssumption DEF Node

LEMMA SizesFit ==
    /\ Sizes(PolySize, VotesSize, GoalVotesSize)
    /\ Sizes(GoalSize, VotesSize, GoalVotesSize)
    /\ Sizes(ContourSize, VotesSize, VotesSize)
<1>1. Sizes(PolySize, VotesSize, GoalVotesSize)
  <2>1. \A p \in Pairs : PolySize[p] = PolySize[Flip(p)] /\ PolySize[p] \in {OdomVotesSize, VotesSize}
    BY Flips DEF PolySize
  <2>2. PolySize \in [Pairs -> Nat \ {0}]
    BY ParametersAssumption DEF PolySize
  <2>3. \A p \in Pairs : PolySize[p] <= VotesSize
    BY <2>1, ParametersAssumption
  <2> QED BY <2>1, <2>2, <2>3 DEF Sizes
<1>2. Sizes(GoalSize, VotesSize, GoalVotesSize) /\ Sizes(ContourSize, VotesSize, VotesSize)
  BY Flips, ParametersAssumption DEF Sizes, GoalSize, ContourSize
<1> QED BY <1>1, <1>2

LEMMA InitInv == Init => IInv
<1> SUFFICES ASSUME Init PROVE IInv
  OBVIOUS
<1>1. Symmetric({})
  BY DEF Symmetric, Mirrored
<1>2. \A a, b \in Nat : Queues(NoVotes, {}, a, b)
  BY Flips, OneVote DEF Queues, NoVotes
<1>3. EdgesOK /\ ContoursOK
  BY <1>1, <1>2, NodeSets DEF Init, EdgesOK, ContoursOK
<1>4. TrailOK
  BY <1>1, Flips, NodeSets DEF Init, TrailOK
<1> QED BY <1>3, <1>4, NodeSets
        DEF Init, IInv, EdgesAreBacked, Backed, NodesOK, CountersOK, OdomCovered

-----------------------------------------------------------------------------
(***************************************************************************)
(* What the parts of a step keep.                                          *)
(***************************************************************************)

\* The trajectory goes on from one of its nodes.
LEMMA TrailGoesOn ==
    ASSUME IInv, NEW n \in NavPoints, UpdateCurInterNavNode(n)
    PROVE  TrailOK' /\ cur' \in NavPoints
<1> DEFINE new == IF cur \in {None, n} \/ EitherWay(<<n, cur>>, traj) THEN {} ELSE {<<n, cur>>}
<1>1. new \subseteq Pairs
  BY NodeSets DEF IInv, NodesOK, Pairs
<1>2. traj' = Added(traj, new) /\ cur' = n
  BY DEF UpdateCurInterNavNode
<1>3. trajVotes' = [p \in Pairs |-> IF EitherWay(p, new) /\ trajVotes[p] = -1
                                    THEN 0 ELSE trajVotes[p]]
  BY DEF UpdateCurInterNavNode
<1> HIDE DEF new
<1>4. Symmetric(traj') /\ traj' = traj \cup {p \in Pairs : EitherWay(p, new)}
  BY <1>1, <1>2, AddedIs DEF IInv, TrailOK
<1>5. \A p \in Pairs : EitherWay(p, new) <=> EitherWay(Flip(p), new)
  BY Flips DEF EitherWay
<1>6. \A p \in Pairs : /\ trajVotes'[p] \in -1..FinalizeThred
                       /\ trajVotes'[p] = trajVotes'[Flip(p)]
                       /\ p \in traj' <=> trajVotes'[p] >= 0
  BY <1>3, <1>4, <1>5, Flips, NodeSets DEF IInv, TrailOK
<1>7. trajVotes' \in [Pairs -> -1..FinalizeThred]
  BY <1>3, <1>6
<1> QED BY <1>2, <1>4, <1>6, <1>7 DEF TrailOK

\* Votes on lines keep votes and potential edges together.
LEMMA ValidConnectKeeps ==
    ASSUME IInv, NEW P, NEW good, P \subseteq Pairs, IsValidConnect(P, good)
    PROVE  Symmetric(potEdges') /\ Queues(edgeVotes', potEdges', VotesSize, GoalVotesSize)
<1>1. PICK close \in SUBSET {p \in InSight(P) : OdomPair(p) /\ {p[1], p[2]} \cap NavPoints # {}} :
        \E free \in SUBSET (InSight(P) \ close) :
        \E voting \in SUBSET free :
          LET cast == P \ close
              v    == DeleteVote(RecordVote(edgeVotes, voting, PolySize), cast \ free, PolySize)
              won  == {p \in cast : IsPolygonEdgeVoteTrue(v, p)}
          IN DropLost({p \in cast \ won : OdomPair(p)}, v,
                      Added(potEdges, FirstVote(edgeVotes, voting)))
  BY DEF IsValidConnect
<1>2. PICK free \in SUBSET (InSight(P) \ close) :
        \E voting \in SUBSET free :
          LET cast == P \ close
              v    == DeleteVote(RecordVote(edgeVotes, voting, PolySize), cast \ free, PolySize)
              won  == {p \in cast : IsPolygonEdgeVoteTrue(v, p)}
          IN DropLost({p \in cast \ won : OdomPair(p)}, v,
                      Added(potEdges, FirstVote(edgeVotes, voting)))
  BY <1>1
<1>3. PICK voting \in SUBSET free :
          LET cast == P \ close
              v    == DeleteVote(RecordVote(edgeVotes, voting, PolySize), cast \ free, PolySize)
              won  == {p \in cast : IsPolygonEdgeVoteTrue(v, p)}
          IN DropLost({p \in cast \ won : OdomPair(p)}, v,
                      Added(potEdges, FirstVote(edgeVotes, voting)))
  BY <1>2
<1> DEFINE w == RecordVote(edgeVotes, voting, PolySize)
           v == DeleteVote(w, (P \ close) \ free, PolySize)
           R == Added(potEdges, FirstVote(edgeVotes, voting))
<1>4. PICK lost : DropLost(lost, v, R)
  BY <1>3
<1>5. voting \subseteq Pairs /\ ((P \ close) \ free) \subseteq Pairs
  BY DEF InSight
<1>6. Symmetric(R) /\ Queues(w, R, VotesSize, GoalVotesSize)
  BY <1>5, Recorded, SizesFit, NodeSets DEF IInv, EdgesOK
<1> HIDE DEF w, R
<1>7. Queues(v, R, VotesSize, GoalVotesSize)
  BY <1>5, <1>6, Deleted, SizesFit, NodeSets
<1> HIDE DEF v
<1>8. edgeVotes' = [p \in Pairs |-> IF EitherWay(p, lost) THEN <<>> ELSE v[p]]
      /\ potEdges' = Erased(R, lost)
  BY <1>4 DEF DropLost
<1> QED BY <1>6, <1>7, <1>8, Dropped, ErasedSymmetric, NodeSets

\* Checked pairs are joined or parted in both lists of edges.
LEMMA EdgesJoined ==
    ASSUME IInv, NEW P, NEW good, good \subseteq P, P \subseteq Pairs,
           NEW C, C = Joined(connect, P, good), NEW Q, Q = Joined(poly, P, good)
    PROVE  Symmetric(C) /\ Symmetric(Q) /\ Backed(C, Q, contour)
BY JoinedIs, JoinedBacked DEF IInv, EdgesOK, EdgesAreBacked

\* A goal that leaves takes its edges and votes along.
LEMMA GoalResetKeeps ==
    ASSUME IInv, GoalReset, UNCHANGED contour
    PROVE  EdgesOK' /\ EdgesAreBacked'
<1>1. Symmetric(connect') /\ Symmetric(poly') /\ Symmetric(potEdges')
  BY ClearedIs DEF GoalReset, IInv, EdgesOK
<1>2. Queues(edgeVotes', potEdges', VotesSize, GoalVotesSize)
  BY VotesCleared, NodeSets DEF GoalReset, IInv, EdgesOK
<1>3. Backed(connect', poly', contour')
  BY ClearedBacked DEF GoalReset, IInv, EdgesOK, ContoursOK, EdgesAreBacked
<1> QED BY <1>1, <1>2, <1>3 DEF EdgesOK, EdgesAreBacked

LEMMA EdgesUnchanged ==
    /\ EdgesOK /\ UNCHANGED edges => EdgesOK'
    /\ EdgesAreBacked /\ UNCHANGED <<edges, contour>> => EdgesAreBacked'
BY DEF edges, EdgesOK, EdgesAreBacked

LEMMA ContoursUnchanged == ContoursOK /\ UNCHANGED contours => ContoursOK'
BY DEF contours, ContoursOK

LEMMA TrailUnchanged == TrailOK /\ UNCHANGED trail => TrailOK'
BY DEF trail, TrailOK

-----------------------------------------------------------------------------
(***************************************************************************)
(* The main timer's callback.                                              *)
(***************************************************************************)

LEMMA NearNodesInv == IInv /\ UpdateGlobalNearNodes => IInv'
<1> SUFFICES ASSUME IInv, UpdateGlobalNearNodes PROVE IInv'
  OBVIOUS
<1>1. EdgesOK' /\ ContoursOK' /\ EdgesAreBacked'
  BY EdgesUnchanged, ContoursUnchanged DEF UpdateGlobalNearNodes, IInv, contours
<1>2. TrailOK' /\ cur' \in NavPoints \cup {None}
  <2>1. CASE UNCHANGED <<cur, trail>>
    BY <2>1, TrailUnchanged DEF IInv, NodesOK
  <2>2. CASE \E t \in NavPoints : UpdateCurInterNavNode(t)
    BY <2>2, TrailGoesOn
  <2> QED BY <2>1, <2>2 DEF UpdateGlobalNearNodes
<1>3. PICK v \in Views, stop \in BOOLEAN :
         /\ near' = (v.near \cap graph') \ Goals
         /\ margin' = (v.margin \cap graph') \ (Goals \cup v.near)
         /\ wide' = WideNear(near')
         /\ frozen' = stop
         /\ fresh' \in SUBSET (IF stop THEN {} ELSE v.near)
         /\ ExtractGraphNodes(v.near, near', fresh')
         /\ matched' = (v.matched \cap Corners \cap (near' \cup margin')) \cup (fresh' \cap Corners)
         /\ phase' = IF stop THEN "clear" ELSE "corners"
  BY DEF UpdateGlobalNearNodes
<1>4. v.near \subseteq Node /\ v.margin \subseteq Node
  BY ParametersAssumption
<1>5. fresh' \subseteq Corners \cup NavPoints
  BY <1>3, <1>4 DEF ExtractGraphNodes, Node
<1>6. wide' \subseteq Node
  BY <1>3, <1>4 DEF WideNear, OdomNeighbours, Of
<1>7. NodesOK'
  BY <1>2, <1>3, <1>4, <1>5, <1>6, NodeSets DEF UpdateGlobalNearNodes, planner, IInv, NodesOK
<1>8. CountersOK'
  BY DEF UpdateGlobalNearNodes, out, IInv, CountersOK
<1>9. OdomCovered'
  <2>1. Of(connect, Odom)' = Of(connect, Odom)
    BY DEF UpdateGlobalNearNodes, edges, Of
  <2>2. Of(connect, Odom) \subseteq wide' \cup Goals
    BY <1>3 DEF WideNear, OdomNeighbours
  <2> QED BY <1>3, <2>1, <2>2 DEF OdomCovered
<1> QED BY <1>1, <1>2, <1>7, <1>8, <1>9 DEF IInv

LEMMA ReEvaluateCornersInv == IInv /\ ReEvaluateCorners => IInv'
<1> SUFFICES ASSUME IInv, ReEvaluateCorners PROVE IInv'
  OBVIOUS
<1> DEFINE asked == {n \in near \cup margin : ~IsStaticNode(n) /\ n # cur}
<1>1. PICK surround \in SUBSET (near \cap NavPoints), bad \in SUBSET asked :
         /\ \E new \in SUBSET (bad \cap Corners) :
              /\ contourVotes' = ResetVotes(contourVotes, potContours, new, 3)
              /\ edgeVotes' = ResetVotes(edgeVotes, potEdges, new, 2)
         /\ dumper' = [n \in Node |-> IF n \in bad THEN dumper[n] + 1
                                      ELSE IF n \in asked /\ dumper[n] > 0 THEN dumper[n] - 1
                                      ELSE dumper[n]]
         /\ todo' = IF IsStaticEnv \/ cur = None THEN {} ELSE surround \cup {cur}
  BY DEF ReEvaluateCorners
<1>2. EdgesOK'
  <2>1. Queues(edgeVotes', potEdges, VotesSize, GoalVotesSize)
    BY <1>1, Reset, NodeSets DEF IInv, EdgesOK
  <2> QED BY <2>1 DEF ReEvaluateCorners, IInv, EdgesOK
<1>3. ContoursOK'
  <2>1. Queues(contourVotes', potContours, VotesSize, VotesSize)
    BY <1>1, Reset, NodeSets DEF IInv, ContoursOK
  <2> QED BY <2>1 DEF ReEvaluateCorners, IInv, ContoursOK
<1>4. TrailOK' /\ EdgesAreBacked'
  BY TrailUnchanged DEF ReEvaluateCorners, IInv, EdgesAreBacked
<1>5. NodesOK'
  BY <1>1, NodeSets DEF ReEvaluateCorners, planner, scan, IInv, NodesOK
<1>6. CountersOK'
  BY <1>1 DEF ReEvaluateCorners, out, scan, IInv, CountersOK
<1>7. OdomCovered'
  BY DEF ReEvaluateCorners, scan, IInv, OdomCovered, Of
<1> QED BY <1>2, <1>3, <1>4, <1>5, <1>6, <1>7 DEF IInv

LEMMA ReEvaluateTrajectoryInv ==
    ASSUME NEW n \in Node PROVE IInv /\ ReEvaluateTrajectory(n) => IInv'
<1> SUFFICES ASSUME IInv, ReEvaluateTrajectory(n) PROVE IInv'
  OBVIOUS
<1>1. EdgesOK' /\ ContoursOK' /\ EdgesAreBacked'
  BY EdgesUnchanged, ContoursUnchanged DEF ReEvaluateTrajectory, IInv, contours
<1>2. PICK invalid \in SUBSET Of(traj, n) :
         LET worn == {t \in invalid : trajVotes[<<n, t>>] >= FinalizeThred} IN
         /\ traj' = Erased(traj, {n} \X worn)
         /\ trajVotes' = [p \in Pairs |->
               IF EitherWay(p, {n} \X worn) THEN -1
               ELSE IF EitherWay(p, {n} \X invalid) THEN trajVotes[p] + 1
               ELSE IF EitherWay(p, {n} \X Of(traj, n)) /\ trajVotes[p] > 0
                    THEN trajVotes[p] - 1
               ELSE trajVotes[p]]
  BY DEF ReEvaluateTrajectory
<1> DEFINE worn == {t \in invalid : trajVotes[<<n, t>>] >= FinalizeThred}
           W == {n} \X worn
           I == {n} \X invalid
<1>3. \A p \in Pairs : /\ EitherWay(p, W) <=> EitherWay(Flip(p), W)
                       /\ EitherWay(p, I) <=> EitherWay(Flip(p), I)
                       /\ EitherWay(p, {n} \X Of(traj, n)) <=> EitherWay(Flip(p), {n} \X Of(traj, n))
  BY Flips DEF EitherWay
<1>4. \A p \in Pairs : EitherWay(p, I) => p \in traj
  BY Flips DEF EitherWay, Of, IInv, TrailOK, Symmetric, Mirrored
<1>5. \A p \in Pairs : EitherWay(p, I) /\ ~EitherWay(p, W) => trajVotes[p] < FinalizeThred
  <2>1. \A t \in Node : trajVotes[<<n, t>>] \in -1..FinalizeThred
    BY DEF IInv, TrailOK, Pairs
  <2>2. ASSUME NEW p \in Pairs, p \in I \/ Flip(p) \in I, ~EitherWay(p, W)
        PROVE  trajVotes[p] < FinalizeThred
    <3>1. PICK q \in I : q \in {p, Flip(p)} /\ q \notin W
      BY <2>2 DEF EitherWay
    <3>2. q = <<n, q[2]>> /\ q[2] \in invalid /\ q[2] \in Node
      BY <3>1, Flips
    <3>3. ~(trajVotes[q] >= FinalizeThred)
      BY <3>1, <3>2
    <3>4. trajVotes[q] \in -1..FinalizeThred
      BY <2>1, <3>2
    <3>5. trajVotes[p] = trajVotes[q]
      BY <3>1 DEF IInv, TrailOK
    <3> QED BY <3>3, <3>4, <3>5, NodeSets
  <2> QED BY <2>2 DEF EitherWay
<1>6. /\ traj' = {p \in traj : ~EitherWay(p, W)} /\ Symmetric(traj')
      /\ trajVotes' = [p \in Pairs |->
               IF EitherWay(p, W) THEN -1
               ELSE IF EitherWay(p, I) THEN trajVotes[p] + 1
               ELSE IF EitherWay(p, {n} \X Of(traj, n)) /\ trajVotes[p] > 0
                    THEN trajVotes[p] - 1
               ELSE trajVotes[p]]
  BY <1>2, ErasedSymmetric DEF IInv, TrailOK, Erased
<1> HIDE DEF W, I, worn
<1>7. \A p \in Pairs : /\ trajVotes'[p] \in -1..FinalizeThred
                       /\ trajVotes'[p] = trajVotes'[Flip(p)]
                       /\ p \in traj' <=> trajVotes'[p] >= 0
  <2> SUFFICES ASSUME NEW p \in Pairs
               PROVE  /\ trajVotes'[p] \in -1..FinalizeThred
                      /\ trajVotes'[p] = trajVotes'[Flip(p)]
                      /\ p \in traj' <=> trajVotes'[p] >= 0
    OBVIOUS
  <2>1. /\ Flip(p) \in Pairs /\ trajVotes[p] = trajVotes[Flip(p)]
        /\ trajVotes[p] \in -1..FinalizeThred /\ (p \in traj <=> trajVotes[p] >= 0)
    BY Flips DEF IInv, TrailOK
  <2> DEFINE x == IF EitherWay(p, W) THEN -1
                  ELSE IF EitherWay(p, I) THEN trajVotes[p] + 1
                  ELSE IF EitherWay(p, {n} \X Of(traj, n)) /\ trajVotes[p] > 0
                       THEN trajVotes[p] - 1
                  ELSE trajVotes[p]
  <2>2. trajVotes'[p] = x /\ trajVotes'[Flip(p)] = x
    BY <1>3, <1>6, <2>1
  <2>3. p \in traj' <=> p \in traj /\ ~EitherWay(p, W)
    BY <1>6
  <2>4. x \in -1..FinalizeThred /\ (p \in traj' <=> x >= 0)
    BY <1>4, <1>5, <2>1, <2>3, NodeSets
  <2> HIDE DEF x
  <2> QED BY <2>2, <2>4
<1>8. TrailOK'
  <2>1. trajVotes' \in [Pairs -> -1..FinalizeThred]
    BY <1>6, <1>7
  <2> QED BY <1>6, <1>7, <2>1 DEF TrailOK
<1>9. NodesOK' /\ CountersOK' /\ OdomCovered'
  BY DEF ReEvaluateTrajectory, planner, edges, out, scan, IInv, NodesOK, CountersOK, OdomCovered, Of
<1> QED BY <1>1, <1>8, <1>9 DEF IInv

LEMMA ClearMergedNodesInv == IInv /\ ClearMergedNodes => IInv'
<1> SUFFICES ASSUME IInv, ClearMergedNodes PROVE IInv'
  OBVIOUS
<1> DEFINE M == Merged
<1>1. ClearNodes(M)
  BY DEF ClearMergedNodes
<1> HIDE DEF M
<1>2. EdgesOK'
  BY <1>1, ClearedIs, VotesCleared, NodeSets DEF ClearNodes, IInv, EdgesOK
<1>3. EdgesAreBacked'
  BY <1>1, ClearedBacked DEF ClearNodes, IInv, EdgesOK, ContoursOK, EdgesAreBacked
<1>4. ContoursOK'
  <2> DEFINE v == [p \in Pairs |-> IF p \in BlockedPairs(M) THEN <<0>> ELSE contourVotes[p]]
  <2>1. \A p \in Pairs : p \in BlockedPairs(M) <=> Flip(p) \in BlockedPairs(M)
    BY Flips DEF BlockedPairs, IInv, ContoursOK, Queues
  <2>2. \A p \in Pairs : p \in BlockedPairs(M) => contourVotes[p] # <<>>
    BY DEF BlockedPairs
  <2>3. Queues(v, potContours, VotesSize, VotesSize)
    <3>1. \A p \in Pairs : /\ v[p] = IF p \in BlockedPairs(M) THEN <<0>> ELSE contourVotes[p]
                           /\ v[Flip(p)] = IF p \in BlockedPairs(M) THEN <<0>>
                                           ELSE contourVotes[Flip(p)]
      BY <2>1, Flips
    <3>2. v = [p \in Pairs |-> v[p]]
      OBVIOUS
    <3> HIDE DEF v
    <3>3. ASSUME NEW p \in Pairs
          PROVE  /\ v[p] \in Votes /\ v[p] = v[Flip(p)]
                 /\ p \in potContours <=> v[p] # <<>>
                 /\ Len(v[p]) <= VotesSize
      <4>1. CASE p \in BlockedPairs(M)
        <5>1. v[p] = <<0>> /\ v[Flip(p)] = <<0>> /\ p \in potContours
          BY <2>2, <3>1, <4>1 DEF IInv, ContoursOK, Queues
        <5>2. Len(v[p]) = 1
          BY <5>1, OneVote
        <5> QED BY <5>1, <5>2, OneVote, NodeSets
      <4>2. CASE p \notin BlockedPairs(M)
        BY <3>1, <4>2 DEF IInv, ContoursOK, Queues
      <4> QED BY <4>1, <4>2
    <3> QED BY <3>2, <3>3 DEF Queues
  <2>4. contourVotes' = ClearedVotes(v, potContours, M)
    BY <1>1 DEF ClearNodes
  <2> HIDE DEF v
  <2>5. Queues(contourVotes', potContours', VotesSize, VotesSize)
    BY <1>1, <2>3, <2>4, VotesCleared, NodeSets DEF ClearNodes, IInv, ContoursOK
  <2>6. Symmetric(contour') /\ Symmetric(potContours') /\ contour' \subseteq potContours'
    BY <1>1, ClearedIs DEF ClearNodes, IInv, ContoursOK
  <2> QED BY <2>5, <2>6 DEF ContoursOK
<1>5. TrailOK'
  <2>1. Symmetric(traj') /\ traj' = {p \in traj : p[1] \notin M /\ p[2] \notin M}
    BY <1>1, ClearedIs DEF ClearNodes, IInv, TrailOK
  <2>2. ASSUME NEW p \in Pairs
        PROVE  trajVotes'[p] = IF p[1] \in M \/ p[2] \in M THEN -1 ELSE trajVotes[p]
    <3>1. trajVotes'[p] = IF p[1] \in M \/ (p[2] \in M /\ Flip(p) \in traj) THEN -1
                          ELSE trajVotes[p]
      BY <1>1 DEF ClearNodes
    <3>2. /\ Flip(p) \in traj <=> trajVotes[p] >= 0
          /\ trajVotes[p] \in -1..FinalizeThred
      BY Flips DEF IInv, TrailOK
    <3> QED BY <3>1, <3>2, NodeSets
  <2>3. trajVotes' = [p \in Pairs |-> trajVotes'[p]]
    BY <1>1 DEF ClearNodes
  <2>4. \A p \in Pairs : /\ trajVotes'[p] \in -1..FinalizeThred
                         /\ trajVotes'[p] = trajVotes'[Flip(p)]
                         /\ p \in traj' <=> trajVotes'[p] >= 0
    BY <2>1, <2>2, Flips, NodeSets DEF IInv, TrailOK
  <2> QED BY <2>1, <2>3, <2>4 DEF TrailOK
<1>6. CountersOK'
  <2>1. \A n \in Node : Watched(M, n) \in 0..FinalizeThred
    BY NodeSets DEF Watched, IInv, CountersOK
  <2>2. /\ outCount' = [n \in Node |-> Watched(M, n)]
        /\ reached' = [n \in Node |-> IF outCount'[n] = 0 THEN {} ELSE reached[n]]
        /\ dumper' = [n \in Node |-> IF n \in M THEN 0 ELSE dumper[n]]
    BY <1>1 DEF ClearNodes
  <2>3. \A n \in Node : reached[n] \subseteq Node
    BY DEF IInv, CountersOK
  <2>4. reached' \in [Node -> SUBSET Node]
    BY <2>2, <2>3
  <2> QED BY <2>1, <2>2, <2>4 DEF ClearMergedNodes, IInv, CountersOK
<1>7. NodesOK'
  BY <1>1, NodeSets DEF ClearMergedNodes, ClearNodes, planner, IInv, NodesOK
<1>8. OdomCovered'
  <2>1. connect' = {p \in connect : p[1] \notin M /\ p[2] \notin M}
    BY <1>1, ClearedIs DEF ClearNodes, IInv, EdgesOK
  <2>2. Of(connect, Odom) \subseteq wide \cup fresh \cup Goals
    BY DEF ClearMergedNodes, IInv, OdomCovered
  <2>3. Of(connect', Odom) \subseteq Of(connect, Odom) \ M
    BY <2>1 DEF Of
  <2>4. /\ wide' = (wide \ M) \cup ((margin \cap matched) \ M) /\ fresh' = fresh
        /\ again' = ((margin \cap matched) \ M) \cap wide
        /\ todo' = (wide' \cup fresh) \ {Odom}
    BY DEF ClearMergedNodes, M
  <2>5. Of(connect, Odom)' = Of(connect', Odom)
    BY DEF Of
  <2> QED BY <2>2, <2>3, <2>4, <2>5 DEF OdomCovered
<1> QED BY <1>2, <1>3, <1>4, <1>5, <1>6, <1>7, <1>8 DEF IInv

LEMMA ConnectOdomInv == IInv /\ ConnectOdom => IInv'
<1> SUFFICES ASSUME IInv, ConnectOdom PROVE IInv'
  OBVIOUS
<1> DEFINE P == {Odom} \X todo
<1>1. P \subseteq Pairs
  BY NodeSets DEF IInv, NodesOK, Pairs
<1>2. PICK good \in SUBSET P : /\ IsValidConnect(P, good)
                               /\ poly' = Joined(poly, P, good)
                               /\ connect' = Joined(connect, P, good)
  BY DEF ConnectOdom
<1> HIDE DEF P
<1>3. EdgesOK' /\ EdgesAreBacked'
  BY <1>1, <1>2, EdgesJoined, ValidConnectKeeps
     DEF ConnectOdom, contours, EdgesOK, EdgesAreBacked
<1>4. ContoursOK' /\ TrailOK'
  BY ContoursUnchanged, TrailUnchanged DEF ConnectOdom, IInv
<1>5. NodesOK' /\ CountersOK'
  BY DEF ConnectOdom, planner, out, IInv, NodesOK, CountersOK
<1>6. OdomCovered'
  <2>1. CASE again # {}
    <3>1. /\ todo' = again /\ wide' = wide /\ fresh' = fresh /\ again' = {} /\ phase = "odom"
          /\ todo \subseteq wide \cup fresh /\ again \subseteq wide
          /\ Of(connect, Odom) \subseteq wide \cup fresh \cup Goals
      BY <2>1 DEF ConnectOdom, IInv, OdomCovered
    <3>2. connect' = {p \in Pairs : EitherWay(p, good) \/ (p \in connect /\ ~EitherWay(p, P \ good))}
      <4>1. Symmetric(connect) /\ good \subseteq P
        BY <1>2 DEF IInv, EdgesOK
      <4>2. Joined(connect, P, good)
              = {p \in Pairs : EitherWay(p, good) \/ (p \in connect /\ ~EitherWay(p, P \ good))}
        BY <1>1, <4>1, JoinedIs
      <4> QED BY <1>2, <4>2
    <3>3. Of(connect', Odom) \subseteq Of(connect, Odom) \cup todo
      BY <1>1, <3>2 DEF Of, EitherWay, Flip, P
    <3>4. Of(connect, Odom)' = Of(connect', Odom)
      BY DEF Of
    <3> QED BY <3>1, <3>3, <3>4 DEF OdomCovered
  <2>2. CASE again = {}
    BY <2>2 DEF ConnectOdom, OdomCovered
  <2> QED BY <2>1, <2>2
<1> QED BY <1>3, <1>4, <1>5, <1>6 DEF IInv

LEMMA AddNewNodesInv == IInv /\ AddNewNodes => IInv'
<1> SUFFICES ASSUME IInv, AddNewNodes PROVE IInv'
  OBVIOUS
<1>1. EdgesOK' /\ ContoursOK' /\ EdgesAreBacked'
  BY EdgesUnchanged, ContoursUnchanged DEF AddNewNodes, IInv, contours
<1>2. TrailOK' /\ cur' \in NavPoints \cup {None}
  <2>1. CASE UNCHANGED <<cur, trail>>
    BY <2>1, TrailUnchanged DEF IInv, NodesOK
  <2>2. CASE \E n \in NavPoints : UpdateCurInterNavNode(n)
    BY <2>2, TrailGoesOn
  <2> QED BY <2>1, <2>2 DEF AddNewNodes
<1>3. NodesOK' /\ CountersOK' /\ OdomCovered'
  BY <1>2, NodeSets DEF AddNewNodes, out, IInv, NodesOK, CountersOK, OdomCovered
<1> QED BY <1>1, <1>2, <1>3 DEF IInv

LEMMA ConnectOutrangeInv == ASSUME NEW o \in Node PROVE IInv /\ ConnectOutrange(o) => IInv'
<1> SUFFICES ASSUME IInv, ConnectOutrange(o) PROVE IInv'
  OBVIOUS
<1>1. PICK m \in OnOutline({o} \X (near \cap matched)) \cup {<<o, o>>} :
         LET new == IF m[2] = o THEN {} ELSE {m}
             old == Between({o}, reached[o] \ {m[2]})
         IN /\ contourVotes' = DeleteVote(RecordVote(contourVotes, new, ContourSize), old, ContourSize)
            /\ potContours' = Added(potContours, FirstVote(contourVotes, new))
            /\ reached' = [reached EXCEPT ![o] = @ \cup {p[2] : p \in new}]
  BY DEF ConnectOutrange
<1> DEFINE new == IF m[2] = o THEN {} ELSE {m}
           old == Between({o}, reached[o] \ {m[2]})
           w == RecordVote(contourVotes, new, ContourSize)
<1>2. new \subseteq Pairs /\ old \subseteq Pairs /\ {p[2] : p \in new} \subseteq Node
  <2>1. m \in Pairs /\ m[2] \in Node
    BY NodeSets DEF OnOutline, IInv, NodesOK, Pairs
  <2>2. reached[o] \subseteq Node
    BY DEF IInv, CountersOK
  <2> QED BY <2>1, <2>2 DEF Between, Pairs
<1>3. ContoursOK'
  <2>1. /\ Symmetric(Added(potContours, FirstVote(contourVotes, new)))
        /\ Queues(w, Added(potContours, FirstVote(contourVotes, new)), VotesSize, VotesSize)
    BY <1>2, Recorded, SizesFit, NodeSets DEF IInv, ContoursOK
  <2>2. /\ contourVotes' = DeleteVote(w, old, ContourSize)
        /\ potContours' = Added(potContours, FirstVote(contourVotes, new))
    BY <1>1
  <2>3. contour' = contour /\ contour \subseteq potContours'
    BY <2>2 DEF ConnectOutrange, IInv, ContoursOK, Added
  <2> HIDE DEF w, new, old
  <2>4. Queues(contourVotes', potContours', VotesSize, VotesSize)
    BY <1>2, <2>1, <2>2, Deleted, SizesFit, NodeSets
  <2> QED BY <2>1, <2>2, <2>3, <2>4 DEF IInv, ContoursOK
<1>4. EdgesOK' /\ EdgesAreBacked' /\ TrailOK'
  BY EdgesUnchanged, TrailUnchanged DEF ConnectOutrange, IInv
<1>5. CountersOK'
  <2>1. reached' = [reached EXCEPT ![o] = @ \cup {p[2] : p \in new}]
    BY <1>1
  <2> HIDE DEF new
  <2>2. reached' \in [Node -> SUBSET Node]
    BY <1>2, <2>1 DEF IInv, CountersOK
  <2> QED BY <2>2 DEF ConnectOutrange, scan, IInv, CountersOK
<1>6. NodesOK' /\ OdomCovered'
  BY DEF ConnectOutrange, planner, scan, IInv, NodesOK, OdomCovered
<1> QED BY <1>3, <1>4, <1>5, <1>6 DEF IInv

LEMMA BeginReconnectInv == IInv /\ BeginReconnect => IInv'
<1> SUFFICES ASSUME IInv, BeginReconnect PROVE IInv'
  OBVIOUS
<1>1. EdgesOK' /\ EdgesAreBacked' /\ ContoursOK' /\ TrailOK'
  BY EdgesUnchanged, ContoursUnchanged, TrailUnchanged DEF BeginReconnect, lists, contours, IInv
<1>2. NodesOK' /\ CountersOK' /\ OdomCovered'
  BY DEF BeginReconnect, planner, scan, out, IInv, NodesOK, CountersOK, OdomCovered
<1> QED BY <1>1, <1>2 DEF IInv

LEMMA ReconnectInv == ASSUME NEW i \in Node PROVE IInv /\ Reconnect(i) => IInv'
<1> SUFFICES ASSUME IInv, Reconnect(i) PROVE IInv'
  OBVIOUS
<1> DEFINE visited == near \ ({Odom} \cup todo)
           P    == {i} \X (OutsideNodes(i) \cup visited)
           seen == {p \in {i} \X visited : {p[1], p[2]} \subseteq matched}
           ends == {p \in Between({i}, {n \in graph : outCount[n] > 0}) : {p[1], p[2]} \subseteq matched}
<1>1. PICK good \in SUBSET P, along \in SUBSET OnOutline(seen), toOut \in SUBSET OnOutline(ends) :
            /\ along \cap ends \subseteq toOut
            /\ IsValidConnect(P, good)
            /\ poly' = Joined(poly, P, good)
            /\ LET v == DeleteVote(RecordVote(contourVotes, along, ContourSize), seen \ along, ContourSize)
               IN /\ contourVotes' = DeleteVote(RecordVote(v, toOut, ContourSize), ends \ toOut, ContourSize)
                  /\ potContours' = Added(potContours, FirstVote(contourVotes, along) \cup FirstVote(v, toOut))
            /\ TopTwoContourConnector(i, Joined(connect, P, good))
            /\ broken' = [n \in Node |-> IF n \in OutsideNodes(i) /\ <<i, n>> \notin good
                                         THEN broken[n] + 1 ELSE broken[n]]
  BY DEF Reconnect
<1>2. /\ P \subseteq Pairs /\ seen \subseteq Pairs /\ ends \subseteq Pairs
      /\ along \subseteq Pairs /\ toOut \subseteq Pairs
  <2>1. visited \subseteq Node /\ OutsideNodes(i) \subseteq Node /\ graph \subseteq Node
    BY DEF IInv, NodesOK, OutsideNodes, Of
  <2>2. P \subseteq Pairs /\ seen \subseteq Pairs /\ ends \subseteq Pairs
    BY <2>1 DEF Pairs, Between
  <2> QED BY <2>2 DEF OnOutline
<1> DEFINE w == RecordVote(contourVotes, along, ContourSize)
           v == DeleteVote(w, seen \ along, ContourSize)
           u == RecordVote(v, toOut, ContourSize)
           first == FirstVote(contourVotes, along)
           R == Added(potContours, first)
           second == FirstVote(v, toOut)
           joined == Joined(connect, P, good)
<1>3. /\ contourVotes' = DeleteVote(u, ends \ toOut, ContourSize)
      /\ potContours' = Added(potContours, first \cup second)
      /\ TopTwoContourConnector(i, joined)
      /\ poly' = Joined(poly, P, good) /\ good \subseteq P /\ IsValidConnect(P, good)
      /\ broken' = [n \in Node |-> IF n \in OutsideNodes(i) /\ <<i, n>> \notin good
                                   THEN broken[n] + 1 ELSE broken[n]]
  BY <1>1
<1>4. first \subseteq Pairs /\ second \subseteq Pairs
  BY <1>2 DEF FirstVote
<1>5. Symmetric(R) /\ Queues(w, R, VotesSize, VotesSize)
  BY <1>2, Recorded, SizesFit, NodeSets DEF IInv, ContoursOK
<1> HIDE DEF P, seen, ends, w, first
<1>6. Queues(v, R, VotesSize, VotesSize)
  <2>1. seen \ along \subseteq Pairs
    BY <1>2
  <2> HIDE DEF R
  <2> QED BY <1>5, <2>1, Deleted, SizesFit, NodeSets
<1>7. Symmetric(Added(R, second)) /\ Queues(u, Added(R, second), VotesSize, VotesSize)
  <2> HIDE DEF v, R
  <2> QED BY <1>2, <1>5, <1>6, Recorded, SizesFit, NodeSets
<1>8. potContours' = Added(R, second)
  <2>1. Symmetric(potContours)
    BY DEF IInv, ContoursOK
  <2> HIDE DEF second
  <2> QED BY <1>3, <1>4, <2>1, AddedTwice
<1> HIDE DEF u, R, second, v
<1>9. Symmetric(potContours') /\ Queues(contourVotes', potContours', VotesSize, VotesSize)
  <2>1. ends \ toOut \subseteq Pairs
    BY <1>2
  <2> QED BY <1>3, <1>7, <1>8, <2>1, Deleted, SizesFit, NodeSets
<1>10. Symmetric(joined) /\ Symmetric(poly') /\ Backed(joined, poly', contour)
  BY <1>2, <1>3, EdgesJoined
<1> HIDE DEF joined
<1>11. /\ Symmetric(contour') /\ contour' \subseteq potContours'
       /\ Symmetric(connect') /\ Backed(connect', poly', contour')
  <2> DEFINE true(c) == IsVoteTrue(contourVotes'[<<i, c>>], 3)
             above(c) == {d \in Node : true(d) /\ Ones(contourVotes'[<<i, d>>]) > Ones(contourVotes'[<<i, c>>])}
             top == {c \in Of(potContours', i) : true(c) /\ Cardinality(above(c)) < 2}
             dropped == {c \in Of(potContours', i) \ top : <<c, i>> \in contour}
             J == {i} \X top
             D == {i} \X dropped
             E == {i} \X {c \in dropped : <<i, c>> \notin poly'}
  <2>1. contour' = Erased(Added(contour, J), D) /\ connect' = Erased(Added(joined, J), E)
    BY <1>3 DEF TopTwoContourConnector
  <2>2. J \subseteq potContours' /\ dropped \subseteq Node /\ top \cap dropped = {}
    BY DEF Of
  <2>3. Symmetric(contour) /\ contour \subseteq potContours'
    BY <1>3 DEF IInv, ContoursOK, Added
  <2> HIDE DEF top, dropped
  <2>4. \A p \in Pairs : EitherWay(p, J) => ~EitherWay(p, D)
    BY <2>2, Flips DEF EitherWay
  <2>5. \A p \in Pairs : EitherWay(p, E) <=> EitherWay(p, D) /\ p \notin poly'
    BY <1>10, <2>2, Flips DEF EitherWay, Symmetric, Mirrored, Pairs
  <2> HIDE DEF J, D, E
  <2> QED BY <1>9, <1>10, <2>1, <2>2, <2>3, <2>4, <2>5, TopTwo
<1>12. EdgesOK' /\ EdgesAreBacked'
  BY <1>2, <1>3, <1>10, <1>11, ValidConnectKeeps DEF EdgesOK, EdgesAreBacked
<1>13. ContoursOK'
  BY <1>9, <1>11 DEF ContoursOK
<1>14. TrailOK'
  BY TrailUnchanged DEF Reconnect, IInv
<1>15. CountersOK'
  BY <1>3 DEF Reconnect, out, IInv, CountersOK
<1>16. NodesOK' /\ OdomCovered'
  <2>1. phase' \in {"break", "near"}
    BY DEF Reconnect
  <2> QED BY <2>1 DEF Reconnect, planner, IInv, NodesOK, OdomCovered
<1> QED BY <1>12, <1>13, <1>14, <1>15, <1>16 DEF IInv

LEMMA NoNearNodesInv == IInv /\ NoNearNodes => IInv'
<1> SUFFICES ASSUME IInv, NoNearNodes PROVE IInv'
  OBVIOUS
<1>1. EdgesOK' /\ EdgesAreBacked' /\ ContoursOK' /\ TrailOK'
  BY EdgesUnchanged, ContoursUnchanged, TrailUnchanged DEF NoNearNodes, lists, contours, IInv
<1>2. NodesOK' /\ CountersOK' /\ OdomCovered'
  BY DEF NoNearNodes, planner, scan, out, IInv, NodesOK, CountersOK, OdomCovered
<1> QED BY <1>1, <1>2 DEF IInv

LEMMA ReconnectBrokenInv == IInv /\ ReconnectBroken => IInv'
<1> SUFFICES ASSUME IInv, ReconnectBroken PROVE IInv'
  OBVIOUS
<1> DEFINE S == {n \in Node : broken[n] > 0}
           P == near \X S
<1>1. P \subseteq Pairs
  BY DEF IInv, NodesOK, Pairs
<1>2. PICK good \in SUBSET P : /\ IsValidConnect(P, good)
                               /\ poly' = Joined(poly, P, good)
                               /\ connect' = Joined(connect, P, good)
  BY DEF ReconnectBroken
<1>3. broken' = [n \in Node |-> IF n \in S THEN broken[n] - 1 ELSE 0]
  BY DEF ReconnectBroken
<1>4. broken' \in [Node -> Nat]
  BY <1>3 DEF IInv, CountersOK
<1> HIDE DEF P
<1>5. EdgesOK' /\ EdgesAreBacked'
  BY <1>1, <1>2, EdgesJoined, ValidConnectKeeps
     DEF ReconnectBroken, contours, EdgesOK, EdgesAreBacked
<1>6. ContoursOK' /\ TrailOK'
  BY ContoursUnchanged, TrailUnchanged DEF ReconnectBroken, IInv
<1>7. NodesOK' /\ CountersOK' /\ OdomCovered'
  BY <1>4 DEF ReconnectBroken, planner, out, IInv, NodesOK, CountersOK, OdomCovered
<1> QED BY <1>5, <1>6, <1>7 DEF IInv

LEMMA EndMainLoopInv == IInv /\ EndMainLoop => IInv'
<1> SUFFICES ASSUME IInv, EndMainLoop PROVE IInv'
  OBVIOUS
<1>1. EdgesOK' /\ EdgesAreBacked' /\ ContoursOK' /\ TrailOK'
  BY EdgesUnchanged, ContoursUnchanged, TrailUnchanged DEF EndMainLoop, lists, contours, IInv
<1>2. NodesOK' /\ CountersOK' /\ OdomCovered'
  BY DEF EndMainLoop, out, IInv, NodesOK, CountersOK, OdomCovered
<1> QED BY <1>1, <1>2 DEF IInv

-----------------------------------------------------------------------------
(***************************************************************************)
(* The other callbacks.                                                    *)
(***************************************************************************)

LEMMA WaypointCallBackInv == IInv /\ WaypointCallBack => IInv'
<1> SUFFICES ASSUME IInv, WaypointCallBack PROVE IInv'
  OBVIOUS
<1>1. EdgesOK' /\ EdgesAreBacked'
  BY GoalResetKeeps DEF WaypointCallBack, contours
<1>2. ContoursOK' /\ TrailOK'
  BY ContoursUnchanged, TrailUnchanged DEF WaypointCallBack, IInv
<1>3. NodesOK'
  <2>1. graph' \subseteq Node /\ flagged' \subseteq NavPoints /\ unreachable' \subseteq Node
        /\ goal' \in NavPoints \cup Goals \cup {None}
    BY NodeSets DEF WaypointCallBack, IInv, NodesOK
  <2> QED BY <2>1 DEF WaypointCallBack, scan, IInv, NodesOK
<1>4. CountersOK' /\ OdomCovered'
  BY DEF WaypointCallBack, out, scan, IInv, CountersOK, OdomCovered
<1> QED BY <1>1, <1>2, <1>3, <1>4 DEF IInv

\* The goal's votes: the robot has one at a time.
LEMMA GoalJoined ==
    ASSUME IInv, goal \in Goals, UpdateGoalNavNodeConnects, UNCHANGED contour
    PROVE  EdgesOK' /\ EdgesAreBacked'
<1> DEFINE P == (currentGraph \ {goal}) \X {goal}
<1>1. PICK free \in SUBSET {p \in InSight(P) : p[1] \notin unreachable} :
      LET v == DeleteVote(RecordVote(edgeVotes, free, GoalSize), P \ free, GoalSize)
          good == {p \in P : IsVoteTrue(edgeVotes'[Flip(p)], 3)}
      IN /\ edgeVotes' = [p \in Pairs |-> IF OdomPair(p) /\ EitherWay(p, free) THEN <<1>> ELSE v[p]]
         /\ potEdges' = Added(potEdges, FirstVote(edgeVotes, free))
         /\ poly' = Joined(poly, P, good) /\ connect' = Joined(connect, P, good)
  BY DEF UpdateGoalNavNodeConnects
<1> DEFINE w == RecordVote(edgeVotes, free, GoalSize)
           v == DeleteVote(w, P \ free, GoalSize)
           good == {p \in P : IsVoteTrue(edgeVotes'[Flip(p)], 3)}
           R == Added(potEdges, FirstVote(edgeVotes, free))
<1>2. P \subseteq Pairs /\ free \subseteq Pairs /\ good \subseteq P
  BY NodeSets DEF IInv, NodesOK, Pairs, InSight
<1>3. /\ edgeVotes' = [p \in Pairs |-> IF OdomPair(p) /\ EitherWay(p, free) THEN <<1>> ELSE v[p]]
      /\ potEdges' = R
      /\ poly' = Joined(poly, P, good) /\ connect' = Joined(connect, P, good)
  BY <1>1
<1>4. Symmetric(R) /\ Queues(w, R, VotesSize, GoalVotesSize)
  BY <1>2, Recorded, SizesFit, NodeSets DEF IInv, EdgesOK
<1>5. \A p \in Pairs : EitherWay(p, free) => p \in R
  <2>1. FirstVote(edgeVotes, free) \subseteq Pairs
    BY <1>2 DEF FirstVote
  <2>2. R = potEdges \cup {p \in Pairs : EitherWay(p, FirstVote(edgeVotes, free))}
    BY <2>1, AddedIs DEF IInv, EdgesOK
  <2>3. \A p \in Pairs : p \in potEdges <=> edgeVotes[p] # <<>>
    BY DEF IInv, EdgesOK, Queues
  <2>4. \A p \in Pairs : EitherWay(p, free) => EitherWay(p, FirstVote(edgeVotes, free)) \/ edgeVotes[p] # <<>>
    BY Flips DEF EitherWay, FirstVote, HaveVotes
  <2> HIDE DEF R
  <2> QED BY <2>2, <2>3, <2>4
<1> HIDE DEF P, R, w, good
<1>6. Queues(v, R, VotesSize, GoalVotesSize)
  <2>1. P \ free \subseteq Pairs
    BY <1>2
  <2> QED BY <1>4, <2>1, Deleted, SizesFit, NodeSets
<1> HIDE DEF v
<1>7. Queues(edgeVotes', R, VotesSize, GoalVotesSize)
  <2> DEFINE one(p) == OdomPair(p) /\ EitherWay(p, free)
  <2>1. \A p \in Pairs : /\ edgeVotes'[p] = IF one(p) THEN <<1>> ELSE v[p]
                         /\ edgeVotes'[Flip(p)] = IF one(p) THEN <<1>> ELSE v[Flip(p)]
                         /\ one(p) => p \in R
    <3>1. \A p \in Pairs : one(p) <=> one(Flip(p))
      BY Flips DEF EitherWay, OdomPair
    <3> HIDE DEF R
    <3> QED BY <1>3, <1>5, <3>1, Flips
  <2>2. edgeVotes' = [p \in Pairs |-> edgeVotes'[p]]
    BY <1>3
  <2> HIDE DEF one
  <2>3. ASSUME NEW p \in Pairs
        PROVE  /\ edgeVotes'[p] \in Votes /\ edgeVotes'[p] = edgeVotes'[Flip(p)]
               /\ p \in R <=> edgeVotes'[p] # <<>>
               /\ Len(edgeVotes'[p]) <= VotesSize \/ Len(edgeVotes'[p]) <= GoalVotesSize
    <3>1. CASE one(p)
      <4>1. edgeVotes'[p] = <<1>> /\ edgeVotes'[Flip(p)] = <<1>> /\ p \in R
        BY <2>1, <3>1
      <4>2. Len(edgeVotes'[p]) = 1
        BY <4>1, OneVote
      <4> QED BY <4>1, <4>2, OneVote, NodeSets
    <3>2. CASE ~one(p)
      BY <1>6, <2>1, <3>2 DEF Queues
    <3> QED BY <3>1, <3>2
  <2> QED BY <2>2, <2>3 DEF Queues
<1>8. Symmetric(connect') /\ Symmetric(poly') /\ Backed(connect', poly', contour)
  BY <1>2, <1>3, EdgesJoined
<1> QED BY <1>3, <1>4, <1>7, <1>8 DEF EdgesOK, EdgesAreBacked

LEMMA PlanningCallBackInv == IInv /\ PlanningCallBack => IInv'
<1> SUFFICES ASSUME IInv, PlanningCallBack PROVE IInv'
  OBVIOUS
<1>1. EdgesOK' /\ EdgesAreBacked'
  <2>1. CASE goal \in Goals
    BY <2>1, GoalJoined DEF PlanningCallBack, contours
  <2>2. CASE goal \notin Goals
    BY <2>2, EdgesUnchanged DEF PlanningCallBack, contours, IInv
  <2> QED BY <2>1, <2>2
<1>2. ContoursOK' /\ TrailOK'
  BY ContoursUnchanged, TrailUnchanged DEF PlanningCallBack, IInv
<1>3. currentGraph' \subseteq Node /\ unreachable' \subseteq Node
  BY DEF PlanningCallBack, UpdateGraphTraverability, IInv, NodesOK
<1>4. NodesOK' /\ CountersOK' /\ OdomCovered'
  BY <1>3 DEF PlanningCallBack, out, scan, IInv, NodesOK, CountersOK, OdomCovered
<1> QED BY <1>1, <1>2, <1>4 DEF IInv

LEMMA KeepGoalInv == IInv /\ KeepGoal => IInv'
<1> SUFFICES ASSUME IInv, KeepGoal PROVE IInv'
  OBVIOUS
<1>1. EdgesOK' /\ EdgesAreBacked' /\ ContoursOK' /\ TrailOK'
  BY EdgesUnchanged, ContoursUnchanged, TrailUnchanged DEF KeepGoal, lists, contours, IInv
<1>2. NodesOK' /\ CountersOK' /\ OdomCovered'
  BY DEF KeepGoal, planner, scan, out, IInv, NodesOK, CountersOK, OdomCovered
<1> QED BY <1>1, <1>2 DEF IInv

LEMMA DropGoalInv == IInv /\ DropGoal => IInv'
<1> SUFFICES ASSUME IInv, DropGoal PROVE IInv'
  OBVIOUS
<1>1. EdgesOK' /\ EdgesAreBacked'
  BY GoalResetKeeps DEF DropGoal, contours
<1>2. ContoursOK' /\ TrailOK'
  BY ContoursUnchanged, TrailUnchanged DEF DropGoal, IInv
<1>3. NodesOK' /\ CountersOK' /\ OdomCovered'
  BY DEF DropGoal, scan, out, IInv, NodesOK, CountersOK, OdomCovered
<1> QED BY <1>1, <1>2, <1>3 DEF IInv

LEMMA ResetEnvironmentInv == IInv /\ ResetEnvironment => IInv'
<1> SUFFICES ASSUME IInv, ResetEnvironment PROVE IInv'
  OBVIOUS
<1>1. Symmetric({})
  BY DEF Symmetric, Mirrored
<1>2. \A a, b \in Nat : Queues(NoVotes, {}, a, b)
  BY Flips, OneVote DEF Queues, NoVotes
<1>3. EdgesOK' /\ ContoursOK' /\ EdgesAreBacked'
  BY <1>1, <1>2, NodeSets DEF ResetEnvironment, EdgesOK, ContoursOK, EdgesAreBacked, Backed
<1>4. TrailOK'
  BY <1>1, Flips, NodeSets DEF ResetEnvironment, TrailOK
<1>5. NodesOK' /\ CountersOK' /\ OdomCovered'
  BY NodeSets DEF ResetEnvironment, scan, IInv, NodesOK, CountersOK, OdomCovered
<1> QED BY <1>3, <1>4, <1>5 DEF IInv

LEMMA StutterInv == IInv /\ UNCHANGED vars => IInv'
<1> SUFFICES ASSUME IInv, UNCHANGED vars PROVE IInv'
  OBVIOUS
<1>1. EdgesOK' /\ EdgesAreBacked' /\ ContoursOK' /\ TrailOK'
  BY EdgesUnchanged, ContoursUnchanged, TrailUnchanged DEF vars, lists, contours, IInv
<1>2. NodesOK' /\ CountersOK' /\ OdomCovered'
  BY DEF vars, lists, edges, planner, scan, out, IInv, NodesOK, CountersOK, OdomCovered, Of
<1> QED BY <1>1, <1>2 DEF IInv

-----------------------------------------------------------------------------
(***************************************************************************)
(* Which nodes the lists know.                                             *)
(***************************************************************************)

Present == graph \cup fresh

\* Only corners of the graph are neighbours on a contour, or watched.
OutlinesKnown ==
    /\ potContours \subseteq (Corners \cap graph) \X (Corners \cap graph)
    /\ \A n \in Node : outCount[n] > 0 => n \in Corners \cap graph
    /\ phase = "out" => todo \subseteq Corners \cap graph

TrailKnown ==
    /\ traj \subseteq (NavPoints \cap graph) \X (NavPoints \cap graph)
    /\ cur \in graph \cup {None}

Known(p) == {p[1], p[2]} \subseteq Present \/ {p[1], p[2]} \subseteq Goals

LinesKnown ==
    /\ \A p \in connect \cup poly \cup potEdges : Known(p)
    /\ \A n \in Node : broken[n] > 0 => n \in graph /\ phase \in {"near", "break"}

\* Between two cycles the planner's copy of the graph has at most old goals of its own.
GoalKnown ==
    /\ flagged \subseteq graph /\ goal \in graph \cup {None}
    /\ goal \in NavPoints => goal \in flagged
    /\ phase \in {"idle", "path"} => currentGraph \subseteq graph \cup Goals

ScanKnown ==
    /\ near \cup margin \subseteq graph /\ wide \cup matched \subseteq Present
    /\ phase \notin {"corners", "clear", "odom", "fresh"} \/ frozen => fresh = {}
    /\ phase \notin {"corners", "clear", "odom"} => wide = {}
    /\ phase \notin {"corners", "clear"} => margin = {}
    /\ phase \in {"idle", "path"} => near = {} /\ matched = {}
    /\ phase \notin {"idle", "path"} => Odom \in graph
    /\ phase = "near" => todo \subseteq near
    /\ phase = "break" => todo = {}

Limit(n) == IF n \in NavPoints THEN 2 * DumperThred ELSE DumperThred

\* A node doubted for too long is none of those that stay, and is removed in this cycle.
DoubtsOK ==
    \A n \in Node : dumper[n] > Limit(n) =>
        phase = "clear" /\ ~IsStaticNode(n) /\ n # cur /\ n \in graph

\* The contours of the near nodes visited so far are backed by votes.
ContoursRebuilt ==
    phase \in {"near", "break"} /\ ~frozen =>
        \A p \in contour : p[1] \in near \ todo => IsVoteTrue(contourVotes[p], 3)

KInv == /\ OutlinesKnown /\ TrailKnown /\ LinesKnown /\ GoalKnown /\ ScanKnown /\ DoubtsOK
        /\ ContoursRebuilt

LEMMA NodeKinds ==
    /\ \A n \in Corners : n \notin NavPoints /\ n \notin Goals /\ n # Odom
    /\ \A n \in NavPoints : n \notin Goals /\ n # Odom
    /\ Odom \notin Goals
BY NodeAssumption

LEMMA InitKnown == Init => KInv
BY NodeSets DEF Init, KInv, OutlinesKnown, TrailKnown, LinesKnown, GoalKnown, ScanKnown, DoubtsOK,
                ContoursRebuilt, Limit, Present

\* The trajectory goes on to a node of the graph.
LEMMA TrailGoesOnKnown ==
    ASSUME IInv, TrailKnown, graph \subseteq graph',
           NEW n \in NavPoints, n \in graph', UpdateCurInterNavNode(n)
    PROVE  TrailKnown'
<1> DEFINE new == IF cur \in {None, n} \/ EitherWay(<<n, cur>>, traj) THEN {} ELSE {<<n, cur>>}
           N == NavPoints \cap graph'
<1>1. new \subseteq Pairs /\ new \subseteq N \X N
  BY NodeSets DEF IInv, NodesOK, TrailKnown, Pairs
<1>2. traj' = Added(traj, new) /\ cur' = n
  BY DEF UpdateCurInterNavNode
<1>3. Added(traj, new) = traj \cup {p \in Pairs : EitherWay(p, new)}
  <2>1. Symmetric(traj)
    BY DEF IInv, TrailOK
  <2> HIDE DEF new
  <2> QED BY <1>1, <2>1, AddedIs
<1> HIDE DEF new
<1>4. \A p \in Pairs : EitherWay(p, new) => p \in N \X N
  BY <1>1 DEF EitherWay, Flip, Pairs
<1>5. traj \subseteq N \X N
  BY DEF TrailKnown
<1> QED BY <1>2, <1>3, <1>4, <1>5 DEF TrailKnown

\* Votes on lines make nobody a potential neighbour but the ends of the lines.
LEMMA ValidConnectAdds ==
    ASSUME IInv, NEW P, NEW good, P \subseteq Pairs, IsValidConnect(P, good)
    PROVE  potEdges' \subseteq potEdges \cup {p \in Pairs : EitherWay(p, P)}
<1>1. PICK F : F \subseteq P /\ potEdges' \subseteq Added(potEdges, F)
  <2>1. PICK close \in SUBSET {p \in InSight(P) : OdomPair(p) /\ {p[1], p[2]} \cap NavPoints # {}} :
          \E free \in SUBSET (InSight(P) \ close) : \E voting \in SUBSET free :
            potEdges' \subseteq Added(potEdges, FirstVote(edgeVotes, voting))
    BY DEF IsValidConnect, DropLost, Erased
  <2>2. PICK free \in SUBSET (InSight(P) \ close) : \E voting \in SUBSET free :
            potEdges' \subseteq Added(potEdges, FirstVote(edgeVotes, voting))
    BY <2>1
  <2>3. PICK voting \in SUBSET free :
            potEdges' \subseteq Added(potEdges, FirstVote(edgeVotes, voting))
    BY <2>2
  <2> QED BY <2>3 DEF FirstVote, InSight
<1>2. Added(potEdges, F) = potEdges \cup {p \in Pairs : EitherWay(p, F)}
  BY <1>1, AddedIs DEF IInv, EdgesOK
<1> QED BY <1>1, <1>2 DEF EitherWay

\* Lines between known nodes leave the lists with known nodes.
LEMMA LinesChecked ==
    ASSUME IInv, LinesKnown, NEW P, NEW good, P \subseteq Pairs, good \subseteq P,
           \A p \in P : Known(p), Present' = Present,
           connect' = Joined(connect, P, good), poly' = Joined(poly, P, good),
           potEdges' \subseteq potEdges \cup {p \in Pairs : EitherWay(p, P)}
    PROVE  \A p \in connect' \cup poly' \cup potEdges' : Known(p)'
<1>1. /\ connect' = {p \in Pairs : EitherWay(p, good) \/ (p \in connect /\ ~EitherWay(p, P \ good))}
      /\ poly' = {p \in Pairs : EitherWay(p, good) \/ (p \in poly /\ ~EitherWay(p, P \ good))}
  <2>1. Symmetric(connect) /\ Symmetric(poly)
    BY DEF IInv, EdgesOK
  <2>2. ASSUME NEW R, Symmetric(R)
        PROVE  Joined(R, P, good)
                 = {p \in Pairs : EitherWay(p, good) \/ (p \in R /\ ~EitherWay(p, P \ good))}
    BY <2>2, JoinedIs
  <2> QED BY <2>1, <2>2
<1>2. \A p \in Pairs : EitherWay(p, P) => Known(p)
  BY Flips DEF EitherWay, Known
<1>3. \A p \in connect' \cup poly' \cup potEdges' : Known(p)
  BY <1>1, <1>2 DEF LinesKnown, EitherWay
<1> QED BY <1>3 DEF Known

\* A goal that leaves is named by no line.
LEMMA GoalResetKnown ==
    ASSUME IInv, LinesKnown, GoalReset, graph \ LeavingGoals \subseteq graph', fresh' = fresh
    PROVE  \A p \in connect' \cup poly' \cup potEdges' : Known(p)'
<1>1. \A p \in connect' \cup poly' \cup potEdges' :
         /\ p \in connect \cup poly \cup potEdges
         /\ p[1] \notin LeavingGoals /\ p[2] \notin LeavingGoals
  BY ClearedIs DEF GoalReset, IInv, EdgesOK
<1> QED BY <1>1 DEF LinesKnown, Known, Present

-----------------------------------------------------------------------------

LEMMA NearNodesKnown == IInv /\ KInv /\ UpdateGlobalNearNodes => KInv'
<1> SUFFICES ASSUME IInv, KInv, UpdateGlobalNearNodes PROVE KInv'
  OBVIOUS
<1>1. /\ phase = "idle" /\ graph' = graph \cup {Odom} /\ fresh = {}
      /\ phase' \in {"corners", "clear"}
  BY DEF UpdateGlobalNearNodes, KInv, ScanKnown
<1>2. PICK v \in Views, stop \in BOOLEAN :
         /\ near' = (v.near \cap graph') \ Goals
         /\ margin' = (v.margin \cap graph') \ (Goals \cup v.near)
         /\ wide' = WideNear(near')
         /\ \/ UNCHANGED <<cur, trail>>
            \/ \E t \in near' \cap NavPoints : <<Odom, t>> \in potEdges /\ UpdateCurInterNavNode(t)
         /\ frozen' = stop
         /\ fresh' \in SUBSET (IF stop THEN {} ELSE v.near)
         /\ matched' = (v.matched \cap Corners \cap (near' \cup margin')) \cup (fresh' \cap Corners)
  BY DEF UpdateGlobalNearNodes
<1>3. OutlinesKnown'
  BY <1>1 DEF UpdateGlobalNearNodes, contours, out, KInv, OutlinesKnown
<1>4. TrailKnown'
  <2>1. CASE UNCHANGED <<cur, trail>>
    BY <1>1, <2>1 DEF trail, KInv, TrailKnown
  <2>2. CASE \E t \in near' \cap NavPoints : UpdateCurInterNavNode(t)
    BY <1>1, <1>2, <2>2, TrailGoesOnKnown DEF KInv
  <2> QED BY <1>2, <2>1, <2>2
<1>5. LinesKnown'
  BY <1>1 DEF UpdateGlobalNearNodes, edges, KInv, LinesKnown, Known, Present
<1>6. GoalKnown' /\ ContoursRebuilt'
  BY <1>1 DEF UpdateGlobalNearNodes, planner, KInv, GoalKnown, ContoursRebuilt
<1>7. DoubtsOK'
  BY <1>1 DEF UpdateGlobalNearNodes, KInv, DoubtsOK, Limit
<1>8. ScanKnown'
  <2>1. near' \cup margin' \subseteq graph' /\ (frozen' => fresh' = {})
    BY <1>2
  <2>2. OdomNeighbours \subseteq graph
    <3>1. \A n \in Node : <<Odom, n>> \in connect => n \in graph
      BY <1>1, NodeKinds DEF KInv, LinesKnown, Known, Present
    <3> QED BY <3>1 DEF OdomNeighbours, Of
  <2>3. \A n \in Node : \A m \in Of(connect, n) \ Goals : m \in graph
    <3>1. \A n \in Node, m \in Node : <<n, m>> \in connect /\ m \notin Goals => m \in graph
      BY <1>1 DEF KInv, LinesKnown, Known, Present
    <3> QED BY <3>1 DEF Of
  <2>4. wide' \subseteq graph'
    <3>1. \A n \in OdomNeighbours : n \in Node /\ n \in graph
      BY <2>2 DEF OdomNeighbours, Of
    <3>2. (UNION {Of(connect, n) : n \in OdomNeighbours}) \ Goals \subseteq graph
      BY <2>3, <3>1
    <3> QED BY <1>1, <1>2, <2>1, <2>2, <3>2 DEF WideNear
  <2>5. matched' \subseteq graph' \cup fresh'
    BY <1>2, <2>1
  <2> QED BY <1>1, <2>1, <2>4, <2>5 DEF ScanKnown, Present
<1> QED BY <1>3, <1>4, <1>5, <1>6, <1>7, <1>8 DEF KInv

LEMMA ReEvaluateCornersKnown == IInv /\ KInv /\ ReEvaluateCorners => KInv'
<1> SUFFICES ASSUME IInv, KInv, ReEvaluateCorners PROVE KInv'
  OBVIOUS
<1>1. OutlinesKnown' /\ TrailKnown' /\ GoalKnown' /\ ScanKnown' /\ ContoursRebuilt'
  BY DEF ReEvaluateCorners, planner, trail, out, scan, KInv, OutlinesKnown, TrailKnown, GoalKnown,
         ScanKnown, ContoursRebuilt, Present
<1>2. LinesKnown'
  BY DEF ReEvaluateCorners, scan, KInv, LinesKnown, Known, Present
<1>3. DoubtsOK'
  <2> DEFINE asked == {n \in near \cup margin : ~IsStaticNode(n) /\ n # cur}
  <2>1. PICK bad \in SUBSET asked :
          dumper' = [n \in Node |-> IF n \in bad THEN dumper[n] + 1
                                    ELSE IF n \in asked /\ dumper[n] > 0 THEN dumper[n] - 1
                                    ELSE dumper[n]]
    BY DEF ReEvaluateCorners
  <2>2. /\ phase = "corners" /\ phase' = "clear" /\ graph' = graph /\ flagged' = flagged
        /\ cur' = cur
    BY DEF ReEvaluateCorners, planner
  <2>3. \A n \in Node : dumper[n] \in Nat /\ Limit(n) \in Nat /\ ~(dumper[n] > Limit(n))
    BY <2>2, NodeSets DEF IInv, CountersOK, KInv, DoubtsOK, Limit
  <2>4. \A n \in Node : n \notin bad => ~(dumper'[n] > Limit(n))
    BY <2>1, <2>3
  <2>5. \A n \in bad : ~IsStaticNode(n) /\ n # cur /\ n \in graph
    BY DEF KInv, ScanKnown
  <2> QED BY <2>2, <2>4, <2>5 DEF DoubtsOK, IsStaticNode, Limit
<1> QED BY <1>1, <1>2, <1>3 DEF KInv

LEMMA ReEvaluateTrajectoryKnown ==
    ASSUME NEW n \in Node PROVE IInv /\ KInv /\ ReEvaluateTrajectory(n) => KInv'
<1> SUFFICES ASSUME IInv, KInv, ReEvaluateTrajectory(n) PROVE KInv'
  OBVIOUS
<1>1. OutlinesKnown' /\ GoalKnown' /\ ScanKnown' /\ ContoursRebuilt' /\ DoubtsOK'
  BY DEF ReEvaluateTrajectory, planner, contours, out, scan, KInv, OutlinesKnown, GoalKnown,
         ScanKnown, ContoursRebuilt, DoubtsOK, Present, IsStaticNode, Limit
<1>2. LinesKnown'
  BY DEF ReEvaluateTrajectory, edges, scan, KInv, LinesKnown, Known, Present
<1>3. TrailKnown'
  <2>1. traj' \subseteq traj
    BY DEF ReEvaluateTrajectory, Erased
  <2> QED BY <2>1 DEF ReEvaluateTrajectory, KInv, TrailKnown
<1> QED BY <1>1, <1>2, <1>3 DEF KInv

LEMMA ClearMergedNodesKnown == IInv /\ KInv /\ ClearMergedNodes => KInv'
<1> SUFFICES ASSUME IInv, KInv, ClearMergedNodes PROVE KInv'
  OBVIOUS
<1> DEFINE M == Merged
<1>1. M \subseteq graph /\ cur \notin M /\ goal \notin M /\ M \cap flagged = {} /\ Odom \notin M
  <2>1. \A n \in M : n \in graph /\ ~IsStaticNode(n) /\ dumper[n] > Limit(n)
    BY DEF Merged, Limit
  <2>2. cur \notin M
    BY <2>1 DEF IInv, NodesOK, KInv, DoubtsOK
  <2>3. goal \notin M
    BY <2>1, NodeSets DEF IInv, NodesOK, KInv, GoalKnown, IsStaticNode
  <2> QED BY <2>1, <2>2, <2>3 DEF IsStaticNode
<1>2. /\ phase = "clear" /\ phase' = "odom" /\ graph' = graph \ M /\ fresh' = fresh
      /\ frozen' = frozen /\ broken' = broken /\ cur' = cur /\ UNCHANGED planner
      /\ near' = (near \ M) \cup ((margin \cap matched) \ M)
      /\ wide' = (wide \ M) \cup ((margin \cap matched) \ M)
      /\ margin' = {} /\ matched' = matched \ M
  BY DEF ClearMergedNodes, ClearNodes
<1>3. ClearNodes(M)
  BY DEF ClearMergedNodes
<1>4. DoubtsOK'
  <2>1. \A n \in Node : dumper'[n] = IF n \in M THEN 0 ELSE dumper[n]
    BY <1>3 DEF ClearNodes
  <2>2. \A n \in Node : Limit(n) \in Nat
    BY NodeSets DEF Limit
  <2>3. \A n \in Node : dumper[n] > Limit(n) => n \in M
    BY DEF KInv, DoubtsOK, Merged, Limit
  <2> HIDE DEF M
  <2>4. \A n \in Node : ~(dumper'[n] > Limit(n))
    BY <2>1, <2>2, <2>3
  <2> QED BY <2>4 DEF DoubtsOK, Limit
<1> HIDE DEF M
<1>5. OutlinesKnown'
  <2>1. potContours' = {p \in potContours : p[1] \notin M /\ p[2] \notin M}
    BY <1>3, ClearedIs DEF ClearNodes, IInv, ContoursOK
  <2>2. \A n \in Node : outCount'[n] = Watched(M, n)
    BY <1>3 DEF ClearNodes
  <2>3. \A n \in Orphaned(M) : n \in Corners
    BY DEF Orphaned, KInv, OutlinesKnown
  <2>4. \A n \in Node : Watched(M, n) > 0 => n \in Corners \cap graph /\ n \notin M
    <3> SUFFICES ASSUME NEW n \in Node, Watched(M, n) > 0
                 PROVE  n \in Corners \cap graph /\ n \notin M
      OBVIOUS
    <3>1. n \notin M
      BY DEF Watched
    <3>2. CASE n \in Orphaned(M)
      BY <2>3, <3>1, <3>2 DEF Orphaned
    <3>3. CASE n \notin Orphaned(M)
      <4>1. outCount[n] - 1 > 0 /\ outCount[n] \in 0..FinalizeThred
        BY <3>3 DEF Watched, IInv, CountersOK
      <4>2. outCount[n] > 0
        BY <4>1, NodeSets
      <4> QED BY <3>1, <4>2 DEF KInv, OutlinesKnown
    <3> QED BY <3>2, <3>3
  <2> QED BY <1>2, <2>1, <2>2, <2>4 DEF KInv, OutlinesKnown
<1>6. TrailKnown'
  <2>1. traj' = {p \in traj : p[1] \notin M /\ p[2] \notin M}
    BY <1>3, ClearedIs DEF ClearNodes, IInv, TrailOK
  <2> QED BY <1>1, <1>2, <2>1 DEF KInv, TrailKnown
<1>7. LinesKnown'
  <2>1. \A p \in connect' \cup poly' \cup potEdges' :
           p \in connect \cup poly \cup potEdges /\ p[1] \notin M /\ p[2] \notin M
    BY <1>3, ClearedIs DEF ClearNodes, IInv, EdgesOK
  <2>2. \A p \in connect' \cup poly' \cup potEdges' : Known(p)'
    BY <1>2, <2>1 DEF KInv, LinesKnown, Known, Present
  <2> QED BY <1>2, <2>2 DEF KInv, LinesKnown
<1>8. GoalKnown' /\ ContoursRebuilt'
  BY <1>1, <1>2 DEF planner, KInv, GoalKnown, ContoursRebuilt
<1>9. ScanKnown'
  BY <1>1, <1>2 DEF KInv, ScanKnown, Present
<1> QED BY <1>4, <1>5, <1>6, <1>7, <1>8, <1>9 DEF KInv

LEMMA ConnectOdomKnown == IInv /\ KInv /\ ConnectOdom => KInv'
<1> SUFFICES ASSUME IInv, KInv, ConnectOdom PROVE KInv'
  OBVIOUS
<1> DEFINE P == {Odom} \X todo
<1>1. P \subseteq Pairs
  BY NodeSets DEF IInv, NodesOK, Pairs
<1>2. PICK good \in SUBSET P : /\ IsValidConnect(P, good)
                               /\ poly' = Joined(poly, P, good)
                               /\ connect' = Joined(connect, P, good)
  BY DEF ConnectOdom
<1>3. phase = "odom" /\ phase' \in {"odom", "fresh", "break"} /\ (phase' = "break" => frozen)
  BY DEF ConnectOdom
<1>4. \A p \in P : Known(p)
  BY <1>3 DEF IInv, OdomCovered, KInv, ScanKnown, Known, Present
<1> HIDE DEF P
<1>5. Present' = Present
  BY DEF ConnectOdom, Present
<1>6. \A p \in connect' \cup poly' \cup potEdges' : Known(p)'
  BY <1>1, <1>2, <1>4, <1>5, ValidConnectAdds, LinesChecked DEF KInv
<1>7. LinesKnown'
  BY <1>3, <1>6 DEF ConnectOdom, KInv, LinesKnown
<1>8. OutlinesKnown' /\ TrailKnown' /\ GoalKnown' /\ DoubtsOK' /\ ContoursRebuilt'
  BY <1>3 DEF ConnectOdom, planner, contours, trail, out, KInv, OutlinesKnown, TrailKnown,
              GoalKnown, DoubtsOK, ContoursRebuilt, IsStaticNode, Limit
<1>9. ScanKnown'
  BY <1>3, <1>5 DEF ConnectOdom, KInv, ScanKnown
<1> QED BY <1>7, <1>8, <1>9 DEF KInv

LEMMA AddNewNodesKnown == IInv /\ KInv /\ AddNewNodes => KInv'
<1> SUFFICES ASSUME IInv, KInv, AddNewNodes PROVE KInv'
  OBVIOUS
<1>1. Present' = Present /\ graph' = graph \cup fresh /\ phase = "fresh" /\ phase' = "out"
  BY DEF AddNewNodes, Present
<1>2. OutlinesKnown' /\ ContoursRebuilt'
  BY <1>1 DEF AddNewNodes, contours, out, KInv, OutlinesKnown, ContoursRebuilt
<1>3. TrailKnown'
  <2>1. CASE UNCHANGED <<cur, trail>>
    BY <1>1, <2>1 DEF trail, KInv, TrailKnown
  <2>2. CASE \E n \in fresh \cap NavPoints : UpdateCurInterNavNode(n)
    BY <1>1, <2>2, TrailGoesOnKnown DEF KInv
  <2> QED BY <2>1, <2>2 DEF AddNewNodes
<1>4. LinesKnown'
  BY <1>1 DEF AddNewNodes, edges, KInv, LinesKnown, Known
<1>5. GoalKnown' /\ ScanKnown'
  BY <1>1 DEF AddNewNodes, KInv, GoalKnown, ScanKnown, Present
<1>6. DoubtsOK'
  BY <1>1 DEF AddNewNodes, KInv, DoubtsOK, Limit
<1> QED BY <1>2, <1>3, <1>4, <1>5, <1>6 DEF KInv

LEMMA ConnectOutrangeKnown ==
    ASSUME NEW o \in Node PROVE IInv /\ KInv /\ ConnectOutrange(o) => KInv'
<1> SUFFICES ASSUME IInv, KInv, ConnectOutrange(o) PROVE KInv'
  OBVIOUS
<1>1. PICK m \in OnOutline({o} \X (near \cap matched)) \cup {<<o, o>>} :
         potContours' = Added(potContours, FirstVote(contourVotes, IF m[2] = o THEN {} ELSE {m}))
  BY DEF ConnectOutrange
<1> DEFINE C == Corners \cap graph
           F == FirstVote(contourVotes, IF m[2] = o THEN {} ELSE {m})
<1>2. F \subseteq C \X C
  BY DEF ConnectOutrange, OnOutline, FirstVote, IInv, NodesOK, KInv, OutlinesKnown, ScanKnown
<1>3. potContours' \subseteq C \X C
  <2>1. Symmetric(potContours) /\ F \subseteq Pairs
    BY <1>2, NodeSets DEF IInv, ContoursOK, Pairs
  <2>2. potContours' = potContours \cup {p \in Pairs : EitherWay(p, F)}
    <3> HIDE DEF F
    <3>1. Added(potContours, F) = potContours \cup {p \in Pairs : EitherWay(p, F)}
      BY <2>1, AddedIs
    <3> QED BY <1>1, <3>1 DEF F
  <2> HIDE DEF F
  <2> QED BY <1>2, <2>2 DEF KInv, OutlinesKnown, EitherWay, Flip, Pairs
<1>4. OutlinesKnown'
  BY <1>3 DEF ConnectOutrange, KInv, OutlinesKnown
<1>5. TrailKnown' /\ GoalKnown' /\ ScanKnown' /\ DoubtsOK' /\ ContoursRebuilt'
  BY DEF ConnectOutrange, planner, trail, scan, KInv, TrailKnown, GoalKnown, ScanKnown, DoubtsOK,
         ContoursRebuilt, Present, IsStaticNode, Limit
<1>6. LinesKnown'
  BY DEF ConnectOutrange, edges, scan, KInv, LinesKnown, Known, Present
<1> QED BY <1>4, <1>5, <1>6 DEF KInv

LEMMA BeginReconnectKnown == IInv /\ KInv /\ BeginReconnect => KInv'
<1> SUFFICES ASSUME IInv, KInv, BeginReconnect PROVE KInv'
  OBVIOUS
<1>1. OutlinesKnown' /\ TrailKnown' /\ GoalKnown' /\ ScanKnown' /\ DoubtsOK'
  BY DEF BeginReconnect, planner, lists, contours, trail, out, scan, KInv, OutlinesKnown,
         TrailKnown, GoalKnown, ScanKnown, DoubtsOK, Present, IsStaticNode, Limit
<1>2. LinesKnown'
  BY DEF BeginReconnect, lists, edges, scan, KInv, LinesKnown, Known, Present
<1>3. ContoursRebuilt'
  <2>1. \A p \in contour : p[1] # Odom
    BY NodeKinds DEF IInv, ContoursOK, KInv, OutlinesKnown
  <2> QED BY <2>1 DEF BeginReconnect, lists, contours, scan, ContoursRebuilt
<1> QED BY <1>1, <1>2, <1>3 DEF KInv

LEMMA ReconnectKnown ==
    ASSUME NEW i \in Node PROVE IInv /\ KInv /\ Reconnect(i) => KInv'
<1> SUFFICES ASSUME IInv, KInv, Reconnect(i) PROVE KInv'
  OBVIOUS
<1> DEFINE visited == near \ ({Odom} \cup todo)
           P    == {i} \X (OutsideNodes(i) \cup visited)
           seen == {p \in {i} \X visited : {p[1], p[2]} \subseteq matched}
           ends == {p \in Between({i}, {n \in graph : outCount[n] > 0}) : {p[1], p[2]} \subseteq matched}
<1>1. PICK good \in SUBSET P, along \in SUBSET OnOutline(seen), toOut \in SUBSET OnOutline(ends) :
            /\ IsValidConnect(P, good)
            /\ poly' = Joined(poly, P, good)
            /\ LET v == DeleteVote(RecordVote(contourVotes, along, ContourSize), seen \ along, ContourSize)
               IN /\ contourVotes' = DeleteVote(RecordVote(v, toOut, ContourSize), ends \ toOut, ContourSize)
                  /\ potContours' = Added(potContours, FirstVote(contourVotes, along) \cup FirstVote(v, toOut))
            /\ TopTwoContourConnector(i, Joined(connect, P, good))
            /\ broken' = [n \in Node |-> IF n \in OutsideNodes(i) /\ <<i, n>> \notin good
                                         THEN broken[n] + 1 ELSE broken[n]]
  BY DEF Reconnect
<1>2. /\ phase = "near" /\ phase' \in {"near", "break"} /\ i \in todo /\ i \in near /\ near \subseteq graph
      /\ todo' = todo \ {i} /\ (phase' = "break" <=> todo' = {})
      /\ UNCHANGED <<graph, cur, planner, trail, dumper, out, near, wide, margin, matched, fresh,
                     again, frozen>>
      /\ fresh = {}
  BY DEF Reconnect, KInv, ScanKnown
<1>3. OutsideNodes(i) \subseteq graph /\ OutsideNodes(i) \subseteq Node
  <2>1. \A n \in Node : <<i, n>> \in connect /\ n \notin Goals => n \in graph
    BY <1>2 DEF KInv, LinesKnown, Known, Present
  <2> QED BY <2>1 DEF OutsideNodes, Of
<1>4. P \subseteq Pairs /\ \A p \in P : Known(p)
  BY <1>2, <1>3 DEF IInv, NodesOK, Pairs, Known, Present
<1> DEFINE joined == Joined(connect, P, good)
           C == Corners \cap graph
           w == DeleteVote(RecordVote(contourVotes, along, ContourSize), seen \ along, ContourSize)
           F == FirstVote(contourVotes, along) \cup FirstVote(w, toOut)
<1>5. /\ F \subseteq C \X C
      /\ \A p \in seen \cup ends : p[1] = i
      /\ along \subseteq seen /\ toOut \subseteq ends
  <2>1. seen \cup ends \subseteq C \X C
    BY <1>2 DEF Between, IInv, NodesOK
  <2>2. F \subseteq seen \cup ends
    BY DEF FirstVote, OnOutline
  <2> QED BY <2>1, <2>2 DEF Between, OnOutline
<1>6. OutlinesKnown'
  <2>1. Symmetric(potContours) /\ F \subseteq Pairs
    BY <1>5, NodeSets DEF IInv, ContoursOK, Pairs
  <2>2. potContours' = Added(potContours, F)
    BY <1>1
  <2> HIDE DEF F
  <2>3. potContours' = potContours \cup {p \in Pairs : EitherWay(p, F)}
    BY <2>1, <2>2, AddedIs
  <2>4. \A p \in Pairs : EitherWay(p, F) => p \in C \X C
    BY <1>5 DEF EitherWay, Flip, Pairs
  <2>5. potContours' \subseteq C \X C
    BY <2>3, <2>4 DEF KInv, OutlinesKnown
  <2> QED BY <1>2, <2>5 DEF out, KInv, OutlinesKnown
<1> DEFINE true(c) == IsVoteTrue(contourVotes'[<<i, c>>], 3)
           above(c) == {d \in Node : true(d) /\ Ones(contourVotes'[<<i, d>>]) > Ones(contourVotes'[<<i, c>>])}
           top == {c \in Of(potContours', i) : true(c) /\ Cardinality(above(c)) < 2}
           dropped == {c \in Of(potContours', i) \ top : <<c, i>> \in contour}
           J == {i} \X top
           D == {i} \X dropped
           E == {i} \X {c \in dropped : <<i, c>> \notin poly'}
<1>7. contour' = Erased(Added(contour, J), D) /\ connect' = Erased(Added(joined, J), E)
  BY <1>1 DEF TopTwoContourConnector
<1>8. IInv' /\ contour \subseteq potContours'
  <2>1. contour \subseteq potContours'
    BY <1>1 DEF IInv, ContoursOK, Added
  <2> QED BY <2>1, ReconnectInv
<1>9. contour' = {p \in contour \cup {q \in Pairs : EitherWay(q, J)} : ~EitherWay(p, D)}
  <2>1. J \subseteq Pairs /\ Symmetric(contour)
    BY DEF Of, Pairs, IInv, ContoursOK
  <2> HIDE DEF J
  <2>2. Added(contour, J) = contour \cup {q \in Pairs : EitherWay(q, J)}
    BY <2>1, AddedIs
  <2> QED BY <1>7, <2>2 DEF Erased
<1>10. LinesKnown'
  <2>1. \A p \in Pairs : EitherWay(p, P) => Known(p)
    BY <1>4, Flips DEF EitherWay, Known
  <2> HIDE DEF P
  <2>2. /\ Symmetric(connect) /\ Symmetric(poly) /\ good \subseteq P
    BY DEF IInv, EdgesOK
  <2>3. /\ joined = {p \in Pairs : EitherWay(p, good) \/ (p \in connect /\ ~EitherWay(p, P \ good))}
        /\ Symmetric(joined)
    BY <1>4, <2>2, JoinedIs
  <2>4. poly' = {p \in Pairs : EitherWay(p, good) \/ (p \in poly /\ ~EitherWay(p, P \ good))}
    <3>1. Joined(poly, P, good)
            = {p \in Pairs : EitherWay(p, good) \/ (p \in poly /\ ~EitherWay(p, P \ good))}
      BY <1>4, <2>2, JoinedIs
    <3> QED BY <1>1, <3>1
  <2> HIDE DEF joined
  <2>5. \A p \in joined \cup poly' : Known(p)
    BY <2>1, <2>2, <2>3, <2>4 DEF EitherWay, KInv, LinesKnown
  <2>6. potEdges' \subseteq potEdges \cup {p \in Pairs : EitherWay(p, P)}
    BY <1>1, <1>4, ValidConnectAdds
  <2>7. \A p \in potEdges' : Known(p)
    BY <2>1, <2>6 DEF KInv, LinesKnown
  <2>8. \A p \in connect' : Known(p)
    <3>1. connect' \subseteq poly' \cup contour' /\ contour' \subseteq potContours'
      BY <1>8 DEF IInv, EdgesAreBacked, Backed, ContoursOK
    <3>2. \A p \in potContours' : Known(p)
      BY <1>2, <1>6 DEF OutlinesKnown, Known, Present
    <3> QED BY <2>5, <3>1, <3>2
  <2>9. \A p \in connect' \cup poly' \cup potEdges' : Known(p)'
    BY <1>2, <2>5, <2>7, <2>8 DEF Known, Present
  <2>10. \A n \in Node : broken'[n] > 0 => n \in graph' /\ phase' \in {"near", "break"}
    <3>1. \A n \in Node : broken'[n] > 0 => n \in OutsideNodes(i) \/ broken[n] > 0
      BY <1>1
    <3> QED BY <1>2, <1>3, <3>1 DEF KInv, LinesKnown
  <2> QED BY <2>9, <2>10 DEF LinesKnown
<1>11. ContoursRebuilt'
  <2>1. ASSUME NEW p \in Pairs, p[1] # i, p[2] # i
        PROVE  contourVotes'[p] = contourVotes[p]
    <3>1. ~EitherWay(p, seen \cup ends)
      BY <1>5, <2>1 DEF EitherWay, Flip
    <3>2. ~EitherWay(p, along) /\ ~EitherWay(p, seen \ along) /\ ~EitherWay(p, toOut) /\ ~EitherWay(p, ends \ toOut)
      BY <1>5, <3>1 DEF EitherWay
    <3> HIDE DEF seen, ends
    <3>3. w[p] = contourVotes[p]
      BY <3>2 DEF DeleteVote, RecordVote
    <3>4. contourVotes'[p] = w[p]
      <4>1. contourVotes' = DeleteVote(RecordVote(w, toOut, ContourSize), ends \ toOut, ContourSize)
        BY <1>1
      <4> HIDE DEF w
      <4> QED BY <3>2, <4>1 DEF DeleteVote, RecordVote
    <3> QED BY <3>3, <3>4
  <2> HIDE DEF seen, ends, w, F, P, joined
  <2>2. \A c \in Node : <<i, c>> \in contour' => IsVoteTrue(contourVotes'[<<i, c>>], 3)
    <3> SUFFICES ASSUME NEW c \in Node, <<i, c>> \in contour', c \notin top
                 PROVE  FALSE
      OBVIOUS
    <3>1. ~EitherWay(<<i, c>>, D) /\ (<<i, c>> \in contour \/ EitherWay(<<i, c>>, J))
      BY <1>9
    <3> HIDE DEF top
    <3>2. <<i, c>> \in contour \/ (c = i /\ i \in top)
      BY <3>1 DEF EitherWay, Flip
    <3>3. <<i, c>> \in contour /\ <<c, i>> \in contour
      BY <3>2 DEF IInv, ContoursOK, Symmetric, Mirrored, Flip
    <3>4. c \in dropped
      BY <1>8, <3>3 DEF Of
    <3> HIDE DEF dropped
    <3> QED BY <3>1, <3>4 DEF EitherWay
  <2> HIDE DEF top, dropped
  <2>3. ASSUME phase' \in {"near", "break"}, ~frozen', NEW p \in contour', p[1] \in near' \ todo'
        PROVE  IsVoteTrue(contourVotes'[p], 3)
    <3>1. p \in Pairs /\ Flip(p) \in contour' /\ contourVotes'[p] = contourVotes'[Flip(p)]
      BY <1>8 DEF IInv, ContoursOK, Symmetric, Mirrored, Queues
    <3>2. CASE p[1] = i
      <4>1. p = <<i, p[2]>> /\ p[2] \in Node
        BY <3>1, <3>2 DEF Pairs
      <4> QED BY <2>2, <4>1
    <3>3. CASE p[2] = i
      <4>1. Flip(p) = <<i, p[1]>> /\ p[1] \in Node
        BY <3>1, <3>3 DEF Flip, Pairs
      <4> QED BY <2>2, <3>1, <4>1
    <3>4. CASE p[1] # i /\ p[2] # i
      <4>1. ~EitherWay(p, J)
        BY <3>4 DEF EitherWay, Flip
      <4>2. p \in contour /\ contourVotes'[p] = contourVotes[p]
        BY <1>9, <2>1, <3>1, <3>4, <4>1
      <4>3. p[1] \in near \ todo
        BY <1>2, <2>3, <3>4
      <4> QED BY <1>2, <2>3, <4>2, <4>3 DEF KInv, ContoursRebuilt
    <3> QED BY <3>2, <3>3, <3>4
  <2> QED BY <2>3 DEF ContoursRebuilt
<1>12. TrailKnown' /\ GoalKnown' /\ DoubtsOK'
  BY <1>2 DEF planner, trail, KInv, TrailKnown, GoalKnown, DoubtsOK, IsStaticNode, Limit
<1>13. ScanKnown'
  BY <1>2 DEF KInv, ScanKnown, Present
<1> QED BY <1>6, <1>10, <1>11, <1>12, <1>13 DEF KInv

LEMMA NoNearNodesKnown == IInv /\ KInv /\ NoNearNodes => KInv'
<1> SUFFICES ASSUME IInv, KInv, NoNearNodes PROVE KInv'
  OBVIOUS
<1>1. /\ OutlinesKnown' /\ TrailKnown' /\ GoalKnown' /\ ScanKnown' /\ DoubtsOK'
      /\ ContoursRebuilt'
  BY DEF NoNearNodes, planner, lists, contours, trail, out, scan, KInv, OutlinesKnown, TrailKnown,
         GoalKnown, ScanKnown, DoubtsOK, ContoursRebuilt, Present, IsStaticNode, Limit
<1>2. LinesKnown'
  BY DEF NoNearNodes, lists, edges, scan, KInv, LinesKnown, Known, Present
<1> QED BY <1>1, <1>2 DEF KInv

LEMMA ReconnectBrokenKnown == IInv /\ KInv /\ ReconnectBroken => KInv'
<1> SUFFICES ASSUME IInv, KInv, ReconnectBroken PROVE KInv'
  OBVIOUS
<1> DEFINE S == {n \in Node : broken[n] > 0}
           P == near \X S
<1>1. P \subseteq Pairs /\ \A p \in P : Known(p)
  BY DEF IInv, NodesOK, Pairs, KInv, ScanKnown, LinesKnown, Known, Present
<1>2. PICK good \in SUBSET P : /\ IsValidConnect(P, good)
                               /\ poly' = Joined(poly, P, good)
                               /\ connect' = Joined(connect, P, good)
  BY DEF ReconnectBroken
<1>3. Present' = Present /\ graph' = graph /\ phase = "break" /\ phase' = "break"
  BY DEF ReconnectBroken, Present
<1> HIDE DEF P
<1>4. \A p \in connect' \cup poly' \cup potEdges' : Known(p)'
  BY <1>1, <1>2, <1>3, ValidConnectAdds, LinesChecked DEF KInv
<1>5. \A n \in Node : broken'[n] > 0 => broken[n] > 0
  BY DEF ReconnectBroken
<1>6. LinesKnown'
  BY <1>3, <1>4, <1>5 DEF KInv, LinesKnown
<1>7. /\ OutlinesKnown' /\ TrailKnown' /\ GoalKnown' /\ ScanKnown' /\ DoubtsOK'
      /\ ContoursRebuilt'
  BY <1>3 DEF ReconnectBroken, planner, contours, trail, out, KInv, OutlinesKnown, TrailKnown,
              GoalKnown, ScanKnown, DoubtsOK, ContoursRebuilt, IsStaticNode, Limit
<1> QED BY <1>6, <1>7 DEF KInv

LEMMA EndMainLoopKnown == IInv /\ KInv /\ EndMainLoop => KInv'
<1> SUFFICES ASSUME IInv, KInv, EndMainLoop PROVE KInv'
  OBVIOUS
<1>1. /\ OutlinesKnown' /\ TrailKnown' /\ GoalKnown' /\ ScanKnown' /\ DoubtsOK'
      /\ ContoursRebuilt'
  BY DEF EndMainLoop, lists, contours, trail, out, KInv, OutlinesKnown, TrailKnown,
         GoalKnown, ScanKnown, DoubtsOK, ContoursRebuilt, Present, IsStaticNode, Limit
<1>2. LinesKnown'
  BY DEF EndMainLoop, lists, edges, KInv, LinesKnown, Known, Present
<1> QED BY <1>1, <1>2 DEF KInv

LEMMA WaypointCallBackKnown == IInv /\ KInv /\ WaypointCallBack => KInv'
<1> SUFFICES ASSUME IInv, KInv, WaypointCallBack PROVE KInv'
  OBVIOUS
<1>1. graph \ LeavingGoals \subseteq graph' /\ LeavingGoals \subseteq Goals
  BY DEF WaypointCallBack, LeavingGoals
<1>2. /\ phase = "idle" /\ phase' = "idle" /\ fresh' = fresh /\ GoalReset /\ cur' = cur
      /\ UNCHANGED <<currentGraph, contours, trail, dumper, out, scan, todo>>
  BY DEF WaypointCallBack, scan
<1>3. \A p \in connect' \cup poly' \cup potEdges' : Known(p)'
  BY <1>1, <1>2, GoalResetKnown DEF KInv
<1>4. LinesKnown'
  BY <1>2, <1>3 DEF scan, KInv, LinesKnown
<1>5. Corners \cap graph \subseteq graph' /\ NavPoints \cap graph \subseteq graph'
  BY <1>1, NodeKinds
<1>6. OutlinesKnown' /\ TrailKnown' /\ DoubtsOK' /\ ContoursRebuilt'
  <2>1. OutlinesKnown'
    BY <1>2, <1>5 DEF contours, out, KInv, OutlinesKnown
  <2>2. TrailKnown'
    BY <1>2, <1>5 DEF trail, IInv, NodesOK, KInv, TrailKnown
  <2> QED BY <1>2, <2>1, <2>2 DEF KInv, DoubtsOK, ContoursRebuilt, Limit
<1>7. GoalKnown'
  <2>1. flagged \subseteq graph /\ flagged \subseteq NavPoints /\ currentGraph \subseteq graph \cup Goals
    BY <1>2 DEF IInv, NodesOK, KInv, GoalKnown
  <2>2. currentGraph' \subseteq graph' \cup Goals
    BY <1>1, <1>2, <2>1
  <2>3. flagged' \subseteq graph' /\ goal' \in graph' /\ (goal' \in NavPoints => goal' \in flagged')
    <3>1. CASE \E T \in SUBSET (currentGraph \cap NavPoints) :
                 goal' \in T /\ flagged' = (flagged \ {goal}) \cup T
      BY <1>5, <2>1, <3>1, NodeKinds
    <3>2. CASE \E g \in Goals : /\ goal' = g /\ flagged' = flagged \ {goal}
                                /\ graph' = (graph \ LeavingGoals) \cup {g}
      BY <1>5, <2>1, <3>2, NodeKinds
    <3> QED BY <3>1, <3>2 DEF WaypointCallBack
  <2> QED BY <2>2, <2>3 DEF GoalKnown
<1>8. ScanKnown'
  BY <1>2 DEF scan, KInv, ScanKnown, Present
<1> QED BY <1>4, <1>6, <1>7, <1>8 DEF KInv

LEMMA PlanningCallBackKnown == IInv /\ KInv /\ PlanningCallBack => KInv'
<1> SUFFICES ASSUME IInv, KInv, PlanningCallBack PROVE KInv'
  OBVIOUS
<1>1. /\ phase = "idle" /\ phase' \in {"idle", "path"} /\ Present' = Present
      /\ UNCHANGED <<graph, cur, goal, flagged, contours, trail, dumper, out, scan, todo>>
  BY DEF PlanningCallBack, scan, Present
<1>2. LinesKnown'
  <2>1. CASE goal \notin Goals
    BY <1>1, <2>1 DEF PlanningCallBack, edges, scan, KInv, LinesKnown, Known, Present
  <2>2. CASE goal \in Goals
    <3> DEFINE P == (currentGraph \ {goal}) \X {goal}
               good == {p \in P : IsVoteTrue(edgeVotes'[Flip(p)], 3)}
    <3>1. PICK free \in SUBSET {p \in InSight(P) : p[1] \notin unreachable} :
            /\ potEdges' = Added(potEdges, FirstVote(edgeVotes, free))
            /\ poly' = Joined(poly, P, good) /\ connect' = Joined(connect, P, good)
      BY <2>2 DEF PlanningCallBack, UpdateGoalNavNodeConnects
    <3>2. P \subseteq Pairs /\ good \subseteq P
      BY <2>2, NodeSets DEF IInv, NodesOK, Pairs
    <3>3. \A p \in P : Known(p)
      BY <1>1, <2>2, NodeSets DEF KInv, GoalKnown, Known, Present
    <3>4. potEdges' \subseteq potEdges \cup {p \in Pairs : EitherWay(p, P)}
      <4>1. FirstVote(edgeVotes, free) \subseteq P
        BY DEF FirstVote, InSight
      <4> HIDE DEF P
      <4>2. Added(potEdges, FirstVote(edgeVotes, free))
              = potEdges \cup {p \in Pairs : EitherWay(p, FirstVote(edgeVotes, free))}
        BY <3>2, <4>1, AddedIs DEF IInv, EdgesOK
      <4> QED BY <3>1, <4>1, <4>2 DEF EitherWay
    <3> HIDE DEF P, good
    <3>5. \A p \in connect' \cup poly' \cup potEdges' : Known(p)'
      BY <1>1, <3>1, <3>2, <3>3, <3>4, LinesChecked DEF KInv
    <3> QED BY <1>1, <3>5 DEF scan, KInv, LinesKnown
  <2> QED BY <2>1, <2>2
<1>3. OutlinesKnown' /\ TrailKnown' /\ DoubtsOK' /\ ContoursRebuilt' /\ ScanKnown'
  BY <1>1 DEF contours, trail, out, scan, KInv, OutlinesKnown, TrailKnown, DoubtsOK,
              ContoursRebuilt, ScanKnown, Present, IsStaticNode, Limit
<1>4. GoalKnown'
  BY <1>1 DEF PlanningCallBack, KInv, GoalKnown
<1> QED BY <1>2, <1>3, <1>4 DEF KInv

LEMMA KeepGoalKnown == IInv /\ KInv /\ KeepGoal => KInv'
<1> SUFFICES ASSUME IInv, KInv, KeepGoal PROVE KInv'
  OBVIOUS
<1>1. /\ OutlinesKnown' /\ TrailKnown' /\ GoalKnown' /\ ScanKnown' /\ DoubtsOK'
      /\ ContoursRebuilt'
  BY DEF KeepGoal, planner, lists, contours, trail, out, scan, KInv, OutlinesKnown, TrailKnown,
         GoalKnown, ScanKnown, DoubtsOK, ContoursRebuilt, Present, IsStaticNode, Limit
<1>2. LinesKnown'
  BY DEF KeepGoal, lists, edges, scan, KInv, LinesKnown, Known, Present
<1> QED BY <1>1, <1>2 DEF KInv

LEMMA DropGoalKnown == IInv /\ KInv /\ DropGoal => KInv'
<1> SUFFICES ASSUME IInv, KInv, DropGoal PROVE KInv'
  OBVIOUS
<1>1. /\ graph' = graph \ LeavingGoals /\ LeavingGoals \subseteq Goals /\ cur' = cur
      /\ phase = "path" /\ phase' = "idle" /\ GoalReset /\ goal' = None
      /\ flagged' = flagged \ {goal} /\ fresh' = fresh
      /\ UNCHANGED <<currentGraph, contours, trail, dumper, out, scan, todo>>
  BY DEF DropGoal, LeavingGoals, scan
<1>2. \A p \in connect' \cup poly' \cup potEdges' : Known(p)'
  BY <1>1, GoalResetKnown DEF KInv
<1>3. LinesKnown'
  BY <1>1, <1>2 DEF scan, KInv, LinesKnown
<1>4. Corners \cap graph \subseteq graph' /\ NavPoints \cap graph \subseteq graph'
  BY <1>1, NodeKinds
<1>5. OutlinesKnown' /\ TrailKnown' /\ DoubtsOK' /\ ContoursRebuilt'
  <2>1. OutlinesKnown'
    BY <1>1, <1>4 DEF contours, out, KInv, OutlinesKnown
  <2>2. TrailKnown'
    BY <1>1, <1>4 DEF trail, IInv, NodesOK, KInv, TrailKnown
  <2> QED BY <1>1, <2>1, <2>2 DEF KInv, DoubtsOK, ContoursRebuilt, Limit
<1>6. GoalKnown'
  <2>1. flagged \subseteq graph /\ flagged \subseteq NavPoints /\ currentGraph \subseteq graph \cup Goals
    BY <1>1 DEF IInv, NodesOK, KInv, GoalKnown
  <2> QED BY <1>1, <1>4, <2>1, NodeSets DEF GoalKnown
<1>7. ScanKnown'
  BY <1>1 DEF scan, KInv, ScanKnown, Present
<1> QED BY <1>3, <1>5, <1>6, <1>7 DEF KInv

LEMMA ResetEnvironmentKnown == IInv /\ KInv /\ ResetEnvironment => KInv'
<1> SUFFICES ASSUME IInv, KInv, ResetEnvironment PROVE KInv'
  OBVIOUS
<1>1. OutlinesKnown' /\ TrailKnown' /\ GoalKnown' /\ ContoursRebuilt'
  <2>1. phase' = "idle" /\ \A n \in Node : ~(outCount'[n] > 0)
    BY DEF ResetEnvironment
  <2>2. OutlinesKnown' /\ ContoursRebuilt'
    BY <2>1 DEF ResetEnvironment, OutlinesKnown, ContoursRebuilt
  <2>3. TrailKnown' /\ GoalKnown'
    BY <2>1, NodeSets DEF ResetEnvironment, TrailKnown, GoalKnown
  <2> QED BY <2>2, <2>3
<1>2. LinesKnown'
  BY DEF ResetEnvironment, scan, KInv, LinesKnown
<1>3. ScanKnown'
  BY DEF ResetEnvironment, scan, KInv, ScanKnown, Present
<1>4. DoubtsOK'
  BY NodeSets DEF ResetEnvironment, DoubtsOK, Limit
<1> QED BY <1>1, <1>2, <1>3, <1>4 DEF KInv

LEMMA StutterKnown == KInv /\ UNCHANGED vars => KInv'
<1> SUFFICES ASSUME KInv, UNCHANGED vars PROVE KInv'
  OBVIOUS
<1>1. /\ OutlinesKnown' /\ TrailKnown' /\ GoalKnown' /\ ScanKnown' /\ DoubtsOK'
      /\ ContoursRebuilt'
  BY DEF vars, planner, lists, contours, trail, out, scan, KInv, OutlinesKnown, TrailKnown,
         GoalKnown, ScanKnown, DoubtsOK, ContoursRebuilt, Present, IsStaticNode, Limit
<1>2. LinesKnown'
  BY DEF vars, lists, edges, scan, KInv, LinesKnown, Known, Present
<1> QED BY <1>1, <1>2 DEF KInv

-----------------------------------------------------------------------------
(***************************************************************************)
(* The theorems.                                                           *)
(***************************************************************************)

\* The invariant holds in every reachable state of the visibility graph.
THEOREM Inductive == Spec => []IInv
<1>1. Init => IInv
  BY InitInv
<1>2. IInv /\ [Next]_vars => IInv'
  <2> SUFFICES ASSUME IInv, [Next]_vars PROVE IInv'
    OBVIOUS
  <2>1. CASE \E n \in Node : ReEvaluateTrajectory(n) \/ ConnectOutrange(n) \/ Reconnect(n)
    BY <2>1, ReEvaluateTrajectoryInv, ConnectOutrangeInv, ReconnectInv
  <2>2. CASE \/ UpdateGlobalNearNodes \/ ReEvaluateCorners \/ ClearMergedNodes \/ ConnectOdom
             \/ AddNewNodes \/ BeginReconnect \/ NoNearNodes \/ ReconnectBroken \/ EndMainLoop
    BY <2>2, NearNodesInv, ReEvaluateCornersInv, ClearMergedNodesInv, ConnectOdomInv,
       AddNewNodesInv, BeginReconnectInv, NoNearNodesInv, ReconnectBrokenInv, EndMainLoopInv
  <2>3. CASE WaypointCallBack \/ PlanningCallBack \/ KeepGoal \/ DropGoal \/ ResetEnvironment
    BY <2>3, WaypointCallBackInv, PlanningCallBackInv, KeepGoalInv, DropGoalInv,
       ResetEnvironmentInv
  <2>4. CASE UNCHANGED vars
    BY <2>4, StutterInv
  <2> QED BY <2>1, <2>2, <2>3, <2>4 DEF Next
<1> QED BY <1>1, <1>2, PTL DEF Spec

\* The lists, the queues and the counters of the graph keep their types, and no vote queue
\* outgrows the size the planner trims it to.
THEOREM TypeCorrect == Spec => []TypeOK
<1>1. IInv => TypeOK
  <2> SUFFICES ASSUME IInv PROVE TypeOK
    OBVIOUS
  <2>1. /\ \A R \in Relations : R \subseteq Pairs
        /\ edgeVotes \in [Pairs -> Votes] /\ contourVotes \in [Pairs -> Votes]
    BY DEF IInv, EdgesOK, ContoursOK, TrailOK, Symmetric, Queues, Relations
  <2>2. \A p \in Pairs : /\ Len(contourVotes[p]) <= VotesSize
                         /\ Len(edgeVotes[p]) <= VotesSize \/ Len(edgeVotes[p]) <= GoalVotesSize
    BY DEF IInv, EdgesOK, ContoursOK, Queues
  <2> QED BY <2>1, <2>2 DEF IInv, TrailOK, NodesOK, CountersOK, TypeOK
<1> QED BY <1>1, Inductive, PTL

\* A list of a node has another node exactly when the other's list has it back, and the two
\* ends of a pair hold the same votes, whatever the main timer, the goal callback and the
\* planning timer do to the lists one end at a time.
THEOREM ListsAlwaysMirrored == Spec => []ListsMirrored
<1>1. IInv => ListsMirrored
  BY DEF IInv, EdgesOK, ContoursOK, TrailOK, Symmetric, Queues, Relations, ListsMirrored
<1> QED BY <1>1, Inductive, PTL

\* Whoever is a potential or a trajectory neighbour has votes: what find() returns for a
\* node of the list is never the end of the map.
THEOREM VotesAlwaysTracked == Spec => []VotesTracked
<1>1. IInv => VotesTracked
  BY DEF IInv, EdgesOK, ContoursOK, TrailOK, Queues, VotesTracked
<1> QED BY <1>1, Inductive, PTL

\* No edge of the graph outlives the free line or the contour it was made for.
THEOREM EdgesAlwaysBacked == Spec => []EdgesBacked
<1>1. IInv => EdgesBacked
  BY DEF IInv, EdgesAreBacked, Backed, EdgesBacked
<1> QED BY <1>1, Inductive, PTL

\* Every edge of the robot's node is checked again in every cycle of the main timer.
THEOREM OdomEdgesAlwaysRevalidated == Spec => []OdomEdgesRevalidated
<1>1. IInv => OdomEdgesRevalidated
  BY DEF IInv, OdomCovered, OdomEdgesRevalidated
<1> QED BY <1>1, Inductive, PTL

\* Every list names nodes of the graph, in every reachable state.
THEOREM KnownInductive == Spec => []KInv
<1>1. Init => KInv
  BY InitKnown
<1>2. IInv /\ KInv /\ [Next]_vars => KInv'
  <2> SUFFICES ASSUME IInv, KInv, [Next]_vars PROVE KInv'
    OBVIOUS
  <2>1. CASE \E n \in Node : ReEvaluateTrajectory(n) \/ ConnectOutrange(n) \/ Reconnect(n)
    BY <2>1, ReEvaluateTrajectoryKnown, ConnectOutrangeKnown, ReconnectKnown
  <2>2. CASE \/ UpdateGlobalNearNodes \/ ReEvaluateCorners \/ ClearMergedNodes \/ ConnectOdom
             \/ AddNewNodes \/ BeginReconnect \/ NoNearNodes \/ ReconnectBroken \/ EndMainLoop
    BY <2>2, NearNodesKnown, ReEvaluateCornersKnown, ClearMergedNodesKnown, ConnectOdomKnown,
       AddNewNodesKnown, BeginReconnectKnown, NoNearNodesKnown, ReconnectBrokenKnown,
       EndMainLoopKnown
  <2>3. CASE WaypointCallBack \/ PlanningCallBack \/ KeepGoal \/ DropGoal \/ ResetEnvironment
    BY <2>3, WaypointCallBackKnown, PlanningCallBackKnown, KeepGoalKnown, DropGoalKnown,
       ResetEnvironmentKnown
  <2>4. CASE UNCHANGED vars
    BY <2>4, StutterKnown
  <2> QED BY <2>1, <2>2, <2>3, <2>4 DEF Next
<1> QED BY <1>1, <1>2, Inductive, PTL DEF Spec

\* A node that leaves the graph, cleared by the main timer or taken out as an old goal, is
\* forgotten by every neighbour list, by the lists of the scan and as a watched node; the
\* robot's trajectory node and the goal are never among those that leave.
THEOREM RemovedAlwaysForgotten == Spec => []RemovedForgotten
<1>1. IInv /\ KInv => RemovedForgotten
  <2> SUFFICES ASSUME IInv, KInv PROVE RemovedForgotten
    OBVIOUS
  <2>1. \A p \in connect \cup poly \cup potEdges : Known(p)
    BY DEF KInv, LinesKnown
  <2>2. \A p \in potContours \cup traj : Known(p)
    BY DEF KInv, OutlinesKnown, TrailKnown, Known, Present
  <2>3. \A p \in contour : Known(p)
    BY <2>2 DEF IInv, ContoursOK
  <2>4. \A R \in Relations : \A p \in R : Known(p)
    BY <2>1, <2>2, <2>3 DEF Relations
  <2>5. {cur, goal} \ {None} \subseteq graph /\ flagged \subseteq graph
    BY DEF KInv, TrailKnown, GoalKnown
  <2>6. near \cup wide \cup margin \cup matched \subseteq graph \cup fresh
    BY DEF KInv, ScanKnown, Present
  <2>7. \A n \in Node : outCount[n] > 0 => n \in graph
    BY DEF KInv, OutlinesKnown
  <2> QED BY <2>4, <2>5, <2>6, <2>7 DEF RemovedForgotten, Known, Present
<1> QED BY <1>1, Inductive, KnownInductive, PTL

\* When the main timer has visited the near nodes, each of their contours is backed by more
\* than a third of its votes: later visits change no pair of two nodes visited before.
THEOREM ContoursAlwaysVoted == Spec => []ContourVoted
<1>1. KInv => ContourVoted
  BY DEF KInv, ScanKnown, ContoursRebuilt, ContourVoted
<1> QED BY <1>1, KnownInductive, PTL
=============================================================================
