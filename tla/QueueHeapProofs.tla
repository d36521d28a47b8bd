-------------------------- MODULE QueueHeapProofs ---------------------------
(***************************************************************************)
(* The linked lists for every capacity and every set of addresses: no      *)
(* freed block is followed, none is lost, and the lists implement the      *)
(* drop-oldest queues.  Of malloc the proofs use only that the address it  *)
(* returns was free (FreshFacts).                                          *)
(***************************************************************************)
EXTENDS QueueHeap, SequenceTheorems, WellFoundedInduction, TLAPS

Pointers == Addr \cup {NULL}

-----------------------------------------------------------------------------
(* Induction over the numbers, as a fact about sets: the least number that *)
(* a set lacks.                                                            *)
NatLess == OpToRel(<, Nat)

LEMMA LeastNumber ==
    ASSUME NEW S \in SUBSET Nat, S # {}
    PROVE  \E n \in S : \A m \in S : n <= m
  <1>1. IsWellFoundedOn(NatLess, Nat)
    BY NatLessThanWellFounded DEF NatLess
  <1>2. PICK n \in S : \A m \in S : <<m, n>> \notin NatLess
    BY <1>1, WFMin
  <1>3. \A m \in S : <<m, n>> \in NatLess <=> m < n
    BY DEF NatLess, OpToRel
  <1>4. \A m \in S : ~(m < n)
    BY <1>2, <1>3, Zenon
  <1>5. \A m \in S : n <= m
    BY <1>4, SMT
  <1> QED  BY <1>5

LEMMA SetInduction ==
    ASSUME NEW S, 0 \in S, \A n \in Nat : n \in S => n + 1 \in S
    PROVE  Nat \subseteq S
  <1> DEFINE T == Nat \ S
  <1> SUFFICES ASSUME T # {} PROVE FALSE
    BY DEF T
  <1>1. PICK n \in T : \A m \in T : n <= m
    BY LeastNumber
  <1>2. n # 0 /\ n \in Nat /\ n - 1 \in Nat /\ n - 1 \notin T
    BY <1>1
  <1>3. n - 1 \in S /\ (n - 1) + 1 = n
    BY <1>2
  <1>4. n \in S
    BY <1>2, <1>3
  <1> QED  BY <1>1, <1>4

-----------------------------------------------------------------------------
(* The nodes s that are met on the way from a, the last of which points to *)
(* no block.                                                               *)
IsPath(h, a, s) ==
    /\ s \in Seq(DOMAIN h)
    /\ s = <<>> => a \notin DOMAIN h
    /\ s # <<>> => a = s[1] /\ h[s[Len(s)]].next \notin DOMAIN h
    /\ \A i \in 1..Len(s) : i < Len(s) => h[s[i]].next = s[i + 1]

(* Every pointer leads to an end.                                          *)
Grounded(h) ==
    /\ DOMAIN h \subseteq Addr
    /\ \A n \in DOMAIN h : h[n].next \in Pointers
    /\ \A n \in DOMAIN h : \E s : IsPath(h, n, s)

(* A sequence is its head and its tail.                                    *)
LEMMA SameHeadTail ==
    ASSUME NEW S, NEW s \in Seq(S), NEW t \in Seq(S), s # <<>>, t # <<>>,
           Head(s) = Head(t), Tail(s) = Tail(t)
    PROVE  s = t
  <1>1. /\ Len(s) \in Nat \ {0} /\ Len(t) \in Nat \ {0}
        /\ Len(Tail(s)) = Len(s) - 1 /\ Len(Tail(t)) = Len(t) - 1
        /\ \A i \in 1..Len(Tail(s)) : Tail(s)[i] = s[i + 1]
        /\ \A i \in 1..Len(Tail(t)) : Tail(t)[i] = t[i + 1]
    BY HeadTailProperties, EmptySeq
  <1>2. Len(s) = Len(t)
    <2>1. Len(s) - 1 = Len(t) - 1
      BY <1>1, ZenonT(60)
    <2>2. Len(s) \in Nat /\ Len(t) \in Nat
      BY <1>1
    <2> QED  BY <2>1, <2>2, SMT
  <1>3. ASSUME NEW i \in 1..Len(s) PROVE s[i] = t[i]
    <2>1. CASE i = 1
      BY <2>1, SMTT(60)
    <2>2. CASE i # 1
      <3>1. i - 1 \in 1..Len(Tail(s)) /\ i - 1 \in 1..Len(Tail(t)) /\ (i - 1) + 1 = i
        BY <1>1, <1>2, <2>2
      <3> QED  BY <1>1, <3>1
    <2> QED  BY <2>1, <2>2
  <1> QED  BY <1>2, <1>3, SeqEqual

(* A path behind its first node is the path of its successor.              *)
LEMMA PathTail ==
    ASSUME NEW h, NEW a, NEW s, IsPath(h, a, s), s # <<>>
    PROVE  /\ a \in DOMAIN h /\ a = Head(s)
           /\ IsPath(h, h[a].next, Tail(s))
           /\ Len(s) \in Nat \ {0} /\ Len(Tail(s)) = Len(s) - 1
  <1> DEFINE D == DOMAIN h
             t == Tail(s)
  <1>1. s \in Seq(D) /\ a = s[1] /\ h[s[Len(s)]].next \notin D
    BY DEF IsPath
  <1>2. \A i \in 1..Len(s) : i < Len(s) => h[s[i]].next = s[i + 1]
    BY DEF IsPath
  <1> HIDE DEF D
  <1>3. Len(s) \in Nat \ {0} /\ t \in Seq(D) /\ Len(t) = Len(s) - 1
        /\ \A i \in 1..Len(t) : t[i] = s[i + 1]
    BY <1>1, HeadTailProperties, EmptySeq
  <1>4. a \in D /\ a = Head(s)
    BY <1>1, <1>3, SMT
  <1> HIDE DEF t
  <1>5. t = <<>> <=> Len(s) = 1
    BY <1>3, EmptySeq
  <1>6. t = <<>> => h[a].next \notin D
    BY <1>1, <1>5
  <1>7. t # <<>> => h[a].next = t[1] /\ h[t[Len(t)]].next \notin D
    <2> SUFFICES ASSUME t # <<>> PROVE h[a].next = t[1] /\ h[t[Len(t)]].next \notin D
      OBVIOUS
    <2>1. 1 \in 1..Len(s) /\ 1 < Len(s) /\ 1 \in 1..Len(t) /\ Len(t) \in 1..Len(t)
      BY <1>3, <1>5
    <2>2. h[a].next = s[1 + 1] /\ t[1] = s[1 + 1]
      BY <1>1, <1>2, <1>3, <2>1
    <2>3. t[Len(t)] = s[Len(t) + 1] /\ Len(t) + 1 = Len(s)
      BY <1>3, <2>1
    <2> QED  BY <1>1, <2>2, <2>3
  <1>8. ASSUME NEW i \in 1..Len(t), i < Len(t) PROVE h[t[i]].next = t[i + 1]
    <2>1. i + 1 \in 1..Len(s) /\ i + 1 < Len(s) /\ i + 1 \in 1..Len(t)
      BY <1>3, <1>8
    <2> QED  BY <1>2, <1>3, <2>1
  <1>9. IsPath(h, h[a].next, t)
    BY <1>3, <1>6, <1>7, <1>8 DEF IsPath, D
  <1> QED  BY <1>3, <1>4, <1>9 DEF D, t

(* From one place there is one path.                                       *)
LEMMA PathUnique ==
    ASSUME NEW h, NEW a, NEW s, NEW t, IsPath(h, a, s), IsPath(h, a, t)
    PROVE  s = t
  <1> DEFINE D == DOMAIN h
             One(x, u, v) == IsPath(h, x, u) /\ IsPath(h, x, v) => u = v
             S == {n \in Nat : \A x, u, v : u \in Seq(D) /\ Len(u) = n => One(x, u, v)}
  <1>1. 0 \in S
    <2> SUFFICES ASSUME NEW x, NEW u, NEW v, u \in Seq(D), Len(u) = 0,
                        IsPath(h, x, u), IsPath(h, x, v)
                 PROVE  u = v
      BY DEF S
    <2>1. u = <<>>  BY EmptySeq
    <2>2. x \notin D  BY <2>1 DEF IsPath
    <2>3. v = <<>>  BY <2>2, PathTail
    <2> QED  BY <2>1, <2>3
  <1>2. ASSUME NEW n \in Nat, n \in S PROVE n + 1 \in S
    <2> SUFFICES ASSUME NEW x, NEW u, NEW v, u \in Seq(D), Len(u) = n + 1,
                        IsPath(h, x, u), IsPath(h, x, v)
                 PROVE  u = v
      BY DEF S
    <2>1. u # <<>>  BY EmptySeq
    <2>2. /\ x \in D /\ x = Head(u) /\ IsPath(h, h[x].next, Tail(u)) /\ Len(Tail(u)) = n
      BY <2>1, PathTail
    <2>3. v # <<>>  BY <2>2 DEF IsPath
    <2>4. x = Head(v) /\ IsPath(h, h[x].next, Tail(v))
      BY <2>3, PathTail
    <2>5. Tail(u) \in Seq(D) /\ v \in Seq(D)
      BY <2>2 DEF IsPath
    <2>6. Tail(u) = Tail(v)
      BY <1>2, <2>2, <2>4, <2>5 DEF S
    <2> HIDE DEF D
    <2> QED  BY <2>1, <2>2, <2>3, <2>4, <2>5, <2>6, SameHeadTail
  <1>3. Nat \subseteq S
    BY <1>1, <1>2, SetInduction
  <1>4. s \in Seq(D) /\ Len(s) \in Nat
    BY LenProperties DEF IsPath
  <1> QED  BY <1>3, <1>4 DEF S

(* Nothing follows a pointer that leads to no block.                       *)
LEMMA PathOfNothing ==
    ASSUME NEW h, NEW a, a \notin DOMAIN h
    PROVE  IsPath(h, a, <<>>)
  <1>1. <<>> \in Seq(DOMAIN h) /\ Len(<<>>) = 0
    BY EmptySeq
  <1>2. 1..Len(<<>>) = {}
    BY <1>1, SMT
  <1> QED  BY <1>1, <1>2 DEF IsPath

LEMMA HeadAndTail ==
    ASSUME NEW S, NEW s \in Seq(S), s # <<>>
    PROVE  s = <<Head(s)>> \o Tail(s)
  <1>1. Len(s) \in Nat /\ Len(s) >= 1
    BY EmptySeq
  <1>2. SubSeq(s, 1, Len(s)) = <<s[1]>> \o SubSeq(s, 2, Len(s))
    BY <1>1, SubSeqRecursiveFirst
  <1> QED  BY <1>2, SubSeqFull, TailIsSubSeq

(* Nodes, which follows the pointers by recursion, is the path.            *)
Follows(h, g) ==
    g = [n \in Addr \cup {NULL} |->
            IF n \in DOMAIN h THEN <<n>> \o g[h[n].next] ELSE <<>>]

LEMMA PathsFollow ==
    ASSUME NEW h, Grounded(h)
    PROVE  LET f == [n \in Pointers |-> CHOOSE u : IsPath(h, n, u)]
           IN  /\ \A n \in Pointers : IsPath(h, n, f[n])
               /\ Follows(h, f)
  <1> DEFINE f == [n \in Pointers |-> CHOOSE u : IsPath(h, n, u)]
  <1>1. ASSUME NEW n \in Pointers PROVE IsPath(h, n, f[n])
    <2>1. \E u : IsPath(h, n, u)
      BY PathOfNothing DEF Grounded
    <2> QED  BY <2>1
  <1>2. ASSUME NEW n \in Pointers
        PROVE  f[n] = IF n \in DOMAIN h THEN <<n>> \o f[h[n].next] ELSE <<>>
    <2>0. IsPath(h, n, f[n])  BY <1>1
    <2>1. CASE n \notin DOMAIN h
      <3>1. f[n] = <<>>
        BY <2>0, <2>1, PathOfNothing, PathUnique, Zenon
      <3> QED  BY <2>1, <3>1
    <2>2. CASE n \in DOMAIN h
      <3>1. f[n] # <<>>
        BY <2>0, <2>2 DEF IsPath
      <3>2. n = Head(f[n]) /\ IsPath(h, h[n].next, Tail(f[n]))
        BY <2>0, <3>1, PathTail, Zenon
      <3>3. h[n].next \in Pointers
        BY <2>2 DEF Grounded
      <3>4. f[h[n].next] = Tail(f[n])
        BY <1>1, <3>2, <3>3, PathUnique, ZenonT(60)
      <3>5. f[n] \in Seq(DOMAIN h)
        BY <2>0 DEF IsPath
      <3> HIDE DEF f
      <3>6. f[n] = <<Head(f[n])>> \o Tail(f[n])
        BY <3>1, <3>5, HeadAndTail
      <3> QED  BY <2>2, <3>2, <3>4, <3>6, Zenon
    <2> QED  BY <2>1, <2>2
  <1>3. f = [n \in Addr \cup {NULL} |->
                IF n \in DOMAIN h THEN <<n>> \o f[h[n].next] ELSE <<>>]
    <2>1. f = [n \in Pointers |-> f[n]]
      OBVIOUS
    <2> HIDE DEF f
    <2> QED  BY <1>2, <2>1, Zenon DEF Pointers
  <1> HIDE DEF f
  <1>4. (\A n \in Pointers : IsPath(h, n, f[n])) /\ Follows(h, f)
    BY <1>1, <1>3 DEF Follows
  <1> QED  BY <1>4 DEF f

LEMMA FollowersAgree ==
    ASSUME NEW h, Grounded(h), NEW g, Follows(h, g),
           NEW a \in Pointers, NEW s, IsPath(h, a, s)
    PROVE  g[a] = s
  <1> DEFINE D == DOMAIN h
             S == {n \in Nat : \A x \in Pointers : \A u \in Seq(D) :
                      Len(u) = n /\ IsPath(h, x, u) => g[x] = u}
  <1>1. \A x \in Pointers : g[x] = IF x \in D THEN <<x>> \o g[h[x].next] ELSE <<>>
    BY Zenon DEF Follows, Pointers
  <1>2. 0 \in S
    <2> SUFFICES ASSUME NEW x \in Pointers, NEW u \in Seq(D), Len(u) = 0, IsPath(h, x, u)
                 PROVE  g[x] = u
      BY DEF S
    <2>1. u = <<>>  BY EmptySeq
    <2>2. x \notin D  BY <2>1 DEF IsPath
    <2> QED  BY <1>1, <2>1, <2>2
  <1>3. ASSUME NEW n \in Nat, n \in S PROVE n + 1 \in S
    <2> SUFFICES ASSUME NEW x \in Pointers, NEW u \in Seq(D), Len(u) = n + 1, IsPath(h, x, u)
                 PROVE  g[x] = u
      BY DEF S
    <2>1. u # <<>>  BY EmptySeq
    <2>2. x \in D /\ x = Head(u) /\ IsPath(h, h[x].next, Tail(u)) /\ Len(Tail(u)) = n
      BY <2>1, PathTail
    <2>3. h[x].next \in Pointers
      BY <2>2 DEF Grounded
    <2>4. Tail(u) \in Seq(D)
      BY <2>2 DEF IsPath
    <2>5. g[h[x].next] = Tail(u)
      BY <1>3, <2>2, <2>3, <2>4, Zenon DEF S
    <2>6. u = <<Head(u)>> \o Tail(u)
      <3> HIDE DEF D
      <3> QED  BY <2>1, HeadAndTail
    <2> HIDE DEF D, S
    <2> QED  BY <1>1, <2>2, <2>5, <2>6, Zenon
  <1>4. Nat \subseteq S
    BY <1>2, <1>3, SetInduction
  <1>5. s \in Seq(D) /\ Len(s) \in Nat
    BY LenProperties DEF IsPath
  <1> QED  BY <1>4, <1>5 DEF S

LEMMA NodesArePath ==
    ASSUME NEW h, Grounded(h), NEW a \in Pointers, NEW s, IsPath(h, a, s)
    PROVE  Nodes(h, a) = s
  <1> DEFINE g == CHOOSE g : Follows(h, g)
  <1>1. Nodes(h, a) = g[a]
    BY DEF Nodes, Follows
  <1>2. \E f : Follows(h, f)
    BY PathsFollow
  <1>3. Follows(h, g)
    BY <1>2
  <1> HIDE DEF g
  <1> QED  BY <1>1, <1>3, FollowersAgree

-----------------------------------------------------------------------------
(* What the heap looks like when s and t are the nodes of the two lists.   *)

(* The blocks of each of the three types.                                  *)
RawNodes(s) ==
    Range(s) \cup ({temp} \ {NULL}) \cup (IF op = "linkItem" THEN {new_node} ELSE {})
Cells(t) == Range(t) \cup (IF op = "linkPacket" THEN {new_node} ELSE {})
Structures(t) == {heap[c].content : c \in Cells(t)} \cup ({node} \ {NULL})

(* Every block has one owner, and every packet node a structure of its own. *)
Blocks(s, t) ==
    /\ DOMAIN heap \subseteq Addr
    /\ DOMAIN heap = RawNodes(s) \cup Cells(t) \cup Structures(t)
    /\ RawNodes(s) \cap Cells(t) = {}
    /\ RawNodes(s) \cap Structures(t) = {}
    /\ Cells(t) \cap Structures(t) = {}
    /\ \A c, d \in Cells(t) : heap[c].content = heap[d].content => c = d
    /\ \A c \in Cells(t) : heap[c].content # node
    /\ \A x \in RawNodes(s) \cup Structures(t) : heap[x].content \in Frames
    /\ \A x \in DOMAIN heap : heap[x] = Block(heap[x].content, heap[x].next)

Distinct(s) == \A i, j \in 1..Len(s) : s[i] = s[j] => i = j

(* No live block points to a freed one, and the one taken from the raw     *)
(* list still points to its head.                                          *)
Links(s, t) ==
    /\ IsPath(heap, inicio_buffer, s) /\ Distinct(s)
    /\ IsPath(heap, inicio_packet, t) /\ Distinct(t)
    /\ {inicio_buffer, inicio_packet} \subseteq DOMAIN heap \cup {NULL}
    /\ \A x \in DOMAIN heap : heap[x].next \in DOMAIN heap \cup {NULL}
    /\ \A x \in Structures(t) : heap[x].next = NULL
    /\ temp # NULL => heap[temp].next = inicio_buffer /\ temp \notin Range(s)
    /\ op = "linkItem" => new_node \notin Range(s)
    /\ op = "linkPacket" => new_node \notin Range(t)
    /\ new_node # NULL => heap[new_node].next = NULL

(* The tail pointers are right as long as their lists are not empty.       *)
Ends(s, t) ==
    /\ {final_buffer, final_packet} \subseteq Pointers
    /\ s # <<>> => final_buffer = s[Len(s)]
    /\ t # <<>> => final_packet = t[Len(t)]

(* free_item counts the node taken only when it is freed.                  *)
Counts(s, t) ==
    /\ nmbr_itens = Len(s) + (IF temp = NULL THEN 0 ELSE 1)
    /\ nmbr_itens <= MaxItens
    /\ nmbr_packets \in 0..MaxPackets
    /\ op # "freeList" => nmbr_packets = Len(t)

Places(s, t) ==
    /\ op \in {"idle", "linkItem", "parse", "linkPacket", "freeItem", "freeList"}
    /\ temp # NULL <=> op \in {"parse", "linkPacket", "freeItem"}
    /\ node # NULL <=> op = "parse"
    /\ new_node # NULL <=> op \in {"linkItem", "linkPacket"}
    /\ op = "linkItem" => s # <<>>
    /\ op = "linkPacket" => t # <<>>
    /\ op # "freeList" => batch = <<>>
    /\ op = "freeList" =>
           batch \in Seq(Frames) /\ Len(batch) \in 1..MaxPackets
    /\ fault = FALSE

Shape(s, t) ==
    /\ Blocks(s, t)
    /\ Links(s, t)
    /\ Ends(s, t)
    /\ Counts(s, t)
    /\ Places(s, t)

Inv == \E s, t : Shape(s, t)

-----------------------------------------------------------------------------
(* Sequences with no element twice, as sets.                               *)
LEMMA Members ==
    ASSUME NEW S, NEW s \in Seq(S)
    PROVE  /\ Range(s) \subseteq S
           /\ \A i \in 1..Len(s) : s[i] \in Range(s)
           /\ \A x \in Range(s) : \E i \in 1..Len(s) : s[i] = x
           /\ Len(s) \in Nat
           /\ s = <<>> <=> Range(s) = {}
           /\ s = <<>> <=> Len(s) = 0
  <1>1. DOMAIN s = 1..Len(s) /\ Len(s) \in Nat
    BY LenProperties
  <1>2. \A i \in 1..Len(s) : s[i] \in S
    BY ElementOfSeq
  <1>3. s # <<>> => Len(s) \in Nat \ {0}
    BY EmptySeq
  <1>4. s = <<>> => Len(s) = 0
    BY EmptySeq
  <1>5. s # <<>> => 1 \in 1..Len(s)
    BY <1>3, SMT
  <1>6. s = <<>> => 1..Len(s) = {}
    BY <1>4, SMT
  <1>7. \A x : x \in Range(s) <=> \E i \in 1..Len(s) : s[i] = x
    BY <1>1, Zenon DEF Range
  <1>8. s = <<>> <=> Range(s) = {}
    BY <1>5, <1>6, <1>7, Zenon
  <1>9. s = <<>> <=> Len(s) = 0
    BY <1>3, <1>4, SMT
  <1> QED  BY <1>1, <1>2, <1>7, <1>8, <1>9, Zenon

LEMMA TailMembers ==
    ASSUME NEW S, NEW s \in Seq(S), s # <<>>, Distinct(s)
    PROVE  /\ Head(s) \in Range(s)
           /\ Range(Tail(s)) = Range(s) \ {Head(s)}
           /\ Distinct(Tail(s))
           /\ Len(Tail(s)) = Len(s) - 1 /\ Tail(s) \in Seq(S)
           /\ Tail(s) # <<>> => Tail(s)[Len(Tail(s))] = s[Len(s)]
  <1> DEFINE t == Tail(s)
  <1>1. /\ Len(s) \in Nat \ {0} /\ t \in Seq(S) /\ Len(t) = Len(s) - 1
        /\ \A i \in 1..Len(t) : t[i] = s[i + 1]
    BY HeadTailProperties, EmptySeq
  <1>2. Head(s) = s[1] /\ 1 \in 1..Len(s)
    BY <1>1
  <1> HIDE DEF t
  <1>3. \A i, j \in 1..Len(s) : s[i] = s[j] => i = j
    BY DEF Distinct
  <1>4. \A i \in 1..Len(t) : i + 1 \in 1..Len(s) /\ i + 1 # 1
    BY <1>1, SMT
  <1>5. \A i \in 1..Len(s) : i # 1 => i - 1 \in 1..Len(t) /\ (i - 1) + 1 = i
    BY <1>1, SMT
  <1>6. Distinct(t)
    <2> SUFFICES ASSUME NEW i \in 1..Len(t), NEW j \in 1..Len(t), t[i] = t[j]
                 PROVE  i = j
      BY DEF Distinct
    <2>1. s[i + 1] = s[j + 1]
      BY <1>1
    <2>2. i + 1 = j + 1
      BY <1>3, <1>4, <2>1
    <2> QED  BY <1>1, <2>2
  <1>7. /\ \A i \in 1..Len(s) : s[i] \in Range(s)
        /\ \A x \in Range(s) : \E i \in 1..Len(s) : s[i] = x
        /\ \A i \in 1..Len(t) : t[i] \in Range(t)
        /\ \A x \in Range(t) : \E i \in 1..Len(t) : t[i] = x
    BY <1>1, Members
  <1>8. ASSUME NEW x \in Range(t) PROVE x \in Range(s) \ {Head(s)}
    <2>1. PICK i \in 1..Len(t) : t[i] = x
      BY <1>7
    <2>2. x = s[i + 1] /\ i + 1 \in 1..Len(s) /\ i + 1 # 1
      BY <1>1, <1>4, <2>1
    <2>3. x \in Range(s)
      BY <1>7, <2>2
    <2>4. x # s[1]
      BY <1>2, <1>3, <2>2
    <2> QED  BY <1>2, <2>3, <2>4
  <1>9. ASSUME NEW x \in Range(s) \ {Head(s)} PROVE x \in Range(t)
    <2>1. PICK i \in 1..Len(s) : s[i] = x
      BY <1>7
    <2>2. i # 1
      BY <1>2, <2>1
    <2>3. i - 1 \in 1..Len(t) /\ t[i - 1] = s[i]
      BY <1>1, <1>5, <2>2
    <2> QED  BY <1>7, <2>1, <2>3
  <1>10. Range(t) = Range(s) \ {Head(s)}
    BY <1>8, <1>9
  <1>11. t # <<>> => t[Len(t)] = s[Len(s)]
    <2> SUFFICES ASSUME t # <<>> PROVE t[Len(t)] = s[Len(s)]
      OBVIOUS
    <2>1. Len(t) \in Nat \ {0}
      BY <1>1, EmptySeq
    <2>2. Len(t) \in 1..Len(t) /\ Len(t) + 1 = Len(s)
      BY <1>1, <2>1, SMT
    <2> QED  BY <1>1, <2>2
  <1>12. Head(s) \in Range(s)
    BY <1>2, <1>7
  <1> QED  BY <1>1, <1>6, <1>10, <1>11, <1>12 DEF t

LEMMA AppendMembers ==
    ASSUME NEW S, NEW s \in Seq(S), NEW x \in S
    PROVE  /\ Append(s, x) \in Seq(S) /\ Append(s, x) # <<>>
           /\ Len(Append(s, x)) = Len(s) + 1 /\ Len(s) \in Nat
           /\ \A i \in 1..Len(s) : Append(s, x)[i] = s[i]
           /\ Append(s, x)[Len(s) + 1] = x
           /\ Range(Append(s, x)) = Range(s) \cup {x}
           /\ Distinct(s) /\ x \notin Range(s) => Distinct(Append(s, x))
  <1> DEFINE t == Append(s, x)
  <1>1. /\ t \in Seq(S) /\ t # <<>> /\ Len(t) = Len(s) + 1 /\ Len(s) \in Nat
        /\ \A i \in 1..Len(s) : t[i] = s[i]
        /\ t[Len(s) + 1] = x
    BY AppendProperties, LenProperties
  <1> HIDE DEF t
  <1>2. /\ \A i \in 1..Len(s) : s[i] \in Range(s)
        /\ \A y \in Range(s) : \E i \in 1..Len(s) : s[i] = y
        /\ \A i \in 1..Len(t) : t[i] \in Range(t)
        /\ \A y \in Range(t) : \E i \in 1..Len(t) : t[i] = y
    BY <1>1, Members
  <1>3. \A i \in 1..Len(t) : i \in 1..Len(s) \/ i = Len(s) + 1
    BY <1>1, SMT
  <1>4. Len(s) + 1 \in 1..Len(t) /\ \A i \in 1..Len(s) : i \in 1..Len(t)
    BY <1>1, SMT
  <1>5. Range(t) = Range(s) \cup {x}
    <2>1. ASSUME NEW y \in Range(t) PROVE y \in Range(s) \cup {x}
      BY <1>1, <1>2, <1>3
    <2>2. ASSUME NEW y \in Range(s) PROVE y \in Range(t)
      <3>1. PICK i \in 1..Len(s) : s[i] = y
        BY <1>2
      <3> QED  BY <1>1, <1>2, <1>4, <3>1
    <2>3. x \in Range(t)
      BY <1>1, <1>2, <1>4
    <2> QED  BY <2>1, <2>2, <2>3
  <1>6. ASSUME Distinct(s), x \notin Range(s) PROVE Distinct(t)
    <2> SUFFICES ASSUME NEW i \in 1..Len(t), NEW j \in 1..Len(t), t[i] = t[j]
                 PROVE  i = j
      BY DEF Distinct
    <2>1. CASE i \in 1..Len(s) /\ j \in 1..Len(s)
      BY <1>1, <1>6, <2>1 DEF Distinct
    <2>2. CASE i \in 1..Len(s) /\ j = Len(s) + 1
      <3>1. s[i] = x
        BY <1>1, <2>2
      <3> QED  BY <1>2, <1>6, <2>2, <3>1
    <2>3. CASE i = Len(s) + 1 /\ j \in 1..Len(s)
      <3>1. s[j] = x
        BY <1>1, <2>3
      <3> QED  BY <1>2, <1>6, <2>3, <3>1
    <2>4. CASE i = Len(s) + 1 /\ j = Len(s) + 1
      BY <2>4
    <2> QED  BY <1>3, <2>1, <2>2, <2>3, <2>4
  <1> QED  BY <1>1, <1>5, <1>6 DEF t

LEMMA OneMember ==
    ASSUME NEW a
    PROVE  /\ <<a>> \in Seq({a}) /\ <<a>> # <<>> /\ Len(<<a>>) = 1 /\ <<a>>[1] = a
           /\ Range(<<a>>) = {a} /\ Distinct(<<a>>)
  <1>1. <<a>> \in Seq({a}) /\ Len(<<a>>) = 1 /\ <<a>>[1] = a /\ <<a>> # <<>>
    OBVIOUS
  <1>2. 1..Len(<<a>>) = {1}
    BY <1>1, SMT
  <1>3. DOMAIN <<a>> = {1}
    BY <1>2
  <1>4. Range(<<a>>) = {a}
    BY <1>1, <1>3 DEF Range
  <1>5. Distinct(<<a>>)
    BY <1>2 DEF Distinct
  <1> QED  BY <1>1, <1>4, <1>5

-----------------------------------------------------------------------------
(* What keeps a path, and what makes it longer.                            *)

LEMMA PathNodes ==
    ASSUME NEW h, NEW a, NEW s, IsPath(h, a, s)
    PROVE  /\ Range(s) \subseteq DOMAIN h /\ Len(s) \in Nat
           /\ s = <<>> => a \notin DOMAIN h
           /\ s # <<>> => a \in Range(s) /\ s[Len(s)] \in Range(s) /\ Head(s) = a
  <1>1. s \in Seq(DOMAIN h) /\ (s # <<>> => a = s[1]) /\ (s = <<>> => a \notin DOMAIN h)
    BY DEF IsPath
  <1>2. /\ Range(s) \subseteq DOMAIN h /\ Len(s) \in Nat
        /\ \A i \in 1..Len(s) : s[i] \in Range(s)
        /\ s = <<>> <=> Len(s) = 0
    BY <1>1, Members
  <1>3. s # <<>> => 1 \in 1..Len(s) /\ Len(s) \in 1..Len(s)
    BY <1>2, SMT
  <1> QED  BY <1>1, <1>2, <1>3

LEMMA PathKept ==
    ASSUME NEW h, NEW g, NEW a, NEW s, IsPath(h, a, s),
           a \in DOMAIN h \cup {NULL},
           \A x \in DOMAIN h : h[x].next \in DOMAIN h \cup {NULL},
           NULL \notin DOMAIN g,
           \A x \in Range(s) : x \in DOMAIN g /\ g[x].next = h[x].next
    PROVE  IsPath(g, a, s)
  <1>1. s \in Seq(DOMAIN h)
    BY DEF IsPath
  <1>2. /\ \A i \in 1..Len(s) : s[i] \in Range(s) /\ s[i] \in DOMAIN h
        /\ Len(s) \in Nat /\ (s = <<>> <=> Len(s) = 0)
    BY <1>1, Members
  <1>3. s \in Seq(DOMAIN g)
    <2>1. s \in [1..Len(s) -> DOMAIN g]
      <3>1. s \in [1..Len(s) -> DOMAIN h]
        BY <1>1, LenProperties
      <3> QED  BY <1>2, <3>1
    <2> QED  BY <1>2, <2>1, SeqDef
  <1>4. s = <<>> => a \notin DOMAIN g
    <2>1. s = <<>> => a = NULL
      BY DEF IsPath
    <2> QED  BY <2>1
  <1>5. s # <<>> => a = s[1] /\ g[s[Len(s)]].next \notin DOMAIN g
    <2> SUFFICES ASSUME s # <<>> PROVE a = s[1] /\ g[s[Len(s)]].next \notin DOMAIN g
      OBVIOUS
    <2>1. Len(s) \in 1..Len(s)
      BY <1>2, SMT
    <2>2. a = s[1] /\ h[s[Len(s)]].next \notin DOMAIN h
      BY DEF IsPath
    <2>3. h[s[Len(s)]].next = NULL
      BY <1>2, <2>1, <2>2
    <2> QED  BY <1>2, <2>1, <2>2, <2>3
  <1>6. \A i \in 1..Len(s) : i < Len(s) => g[s[i]].next = s[i + 1]
    BY <1>2 DEF IsPath
  <1> QED  BY <1>3, <1>4, <1>5, <1>6 DEF IsPath

LEMMA PathOfOne ==
    ASSUME NEW h, NEW a \in DOMAIN h, h[a].next \notin DOMAIN h
    PROVE  IsPath(h, a, <<a>>)
  <1>1. <<a>> \in Seq(DOMAIN h) /\ Len(<<a>>) = 1 /\ <<a>>[1] = a /\ <<a>> # <<>>
    OBVIOUS
  <1>2. \A i \in 1..Len(<<a>>) : ~(i < Len(<<a>>))
    BY <1>1, SMT
  <1> QED  BY <1>1, <1>2 DEF IsPath

LEMMA PathAppend ==
    ASSUME NEW h, NEW g, NEW a, NEW s, NEW n, IsPath(h, a, s), s # <<>>, Distinct(s),
           n \in DOMAIN g, g[n].next \notin DOMAIN g,
           Range(s) \subseteq DOMAIN g,
           g[s[Len(s)]].next = n,
           \A x \in Range(s) : x # s[Len(s)] => g[x].next = h[x].next
    PROVE  IsPath(g, a, Append(s, n))
  <1> DEFINE t == Append(s, n)
             l == Len(s)
  <1>1. s \in Seq(DOMAIN h) /\ a = s[1]
    BY DEF IsPath
  <1>2. /\ \A i \in 1..l : s[i] \in Range(s) /\ s[i] \in DOMAIN g
        /\ l \in Nat /\ l # 0
    BY <1>1, Members
  <1>3. s \in Seq(DOMAIN g)
    <2>1. s \in [1..Len(s) -> DOMAIN g]
      <3>1. s \in [1..Len(s) -> DOMAIN h]
        BY <1>1, LenProperties
      <3> QED  BY <1>2, <3>1
    <2> QED  BY <1>2, <2>1, SeqDef
  <1>4. /\ t \in Seq(DOMAIN g) /\ t # <<>> /\ Len(t) = l + 1
        /\ \A i \in 1..l : t[i] = s[i]
        /\ t[l + 1] = n
    BY <1>3, AppendMembers
  <1>5. \A i \in 1..l : i < l => h[s[i]].next = s[i + 1]
    BY DEF IsPath
  <1>6. \A i, j \in 1..l : s[i] = s[j] => i = j
    BY DEF Distinct
  <1> HIDE DEF t, l
  <1>7. a = t[1]
    BY <1>1, <1>2, <1>4
  <1>8. g[t[Len(t)]].next \notin DOMAIN g
    BY <1>4
  <1>9. ASSUME NEW i \in 1..Len(t), i < Len(t) PROVE g[t[i]].next = t[i + 1]
    <2>1. i \in 1..l /\ l \in 1..l
      BY <1>2, <1>4, <1>9, SMT
    <2>2. CASE i = l
      <3>1. t[i] = s[l] /\ t[i + 1] = n
        BY <1>4, <2>1, <2>2
      <3> QED  BY <3>1 DEF l
    <2>3. CASE i # l
      <3>1. i < l /\ i + 1 \in 1..l
        BY <1>2, <2>1, <2>3, SMT
      <3>2. t[i] = s[i] /\ t[i + 1] = s[i + 1]
        BY <1>4, <2>1, <3>1
      <3>3. s[i] # s[l] /\ s[i] \in Range(s)
        BY <1>2, <1>6, <2>1, <2>3
      <3>4. g[s[i]].next = h[s[i]].next
        BY <3>3 DEF l
      <3> QED  BY <1>5, <2>1, <3>1, <3>2, <3>4
    <2> QED  BY <2>2, <2>3
  <1>10. IsPath(g, a, t)
    BY <1>4, <1>7, <1>8, <1>9 DEF IsPath
  <1> QED  BY <1>10 DEF t

-----------------------------------------------------------------------------
(* Allocating and freeing.                                                 *)

LEMMA BlockFields ==
    ASSUME NEW c, NEW n
    PROVE  Block(c, n).content = c /\ Block(c, n).next = n
  BY DEF Block

LEMMA FreshFacts ==
    ASSUME NEW a \in Fresh
    PROVE  a \in Addr /\ a \notin DOMAIN heap /\ a # NULL
  BY QueueHeapAssumption DEF Fresh

LEMMA Allocation ==
    ASSUME NEW a \in Fresh, NEW c, NEW n, heap' = With(heap, a, Block(c, n))
    PROVE  /\ a \in Addr /\ a \notin DOMAIN heap /\ a # NULL
           /\ DOMAIN heap' = DOMAIN heap \cup {a}
           /\ heap'[a].content = c /\ heap'[a].next = n
           /\ heap'[a] = Block(heap'[a].content, heap'[a].next)
           /\ \A x \in DOMAIN heap : heap'[x] = heap[x]
  <1>1. a \in Addr /\ a \notin DOMAIN heap /\ a # NULL
    BY FreshFacts
  <1> DEFINE b == Block(c, n)
  <1>2. b.content = c /\ b.next = n
    BY BlockFields
  <1>3. b = Block(b.content, b.next)
    BY <1>2
  <1> HIDE DEF b
  <1>4. heap' = With(heap, a, b)
    BY DEF b
  <1>5. /\ DOMAIN heap' = DOMAIN heap \cup {a}
        /\ heap'[a] = b
        /\ \A x \in DOMAIN heap : x # a => heap'[x] = heap[x]
    BY <1>4 DEF With
  <1> QED  BY <1>1, <1>2, <1>3, <1>5

LEMMA Release ==
    ASSUME NEW F, heap' = Without(heap, F)
    PROVE  /\ DOMAIN heap' = DOMAIN heap \ F
           /\ \A x \in DOMAIN heap' : heap'[x] = heap[x]
  BY DEF Without

LEMMA Link ==
    ASSUME NEW l \in DOMAIN heap, NEW n, heap[l] = Block(heap[l].content, heap[l].next),
           heap' = [heap EXCEPT ![l].next = n]
    PROVE  /\ DOMAIN heap' = DOMAIN heap
           /\ heap'[l].content = heap[l].content /\ heap'[l].next = n
           /\ heap'[l] = Block(heap'[l].content, heap'[l].next)
           /\ \A x \in DOMAIN heap : x # l => heap'[x] = heap[x]
           /\ \A x \in DOMAIN heap : heap'[x].content = heap[x].content
  <1> DEFINE b == [heap[l] EXCEPT !.next = n]
  <1>1. b = [content |-> heap[l].content, next |-> n]
    BY DEF Block
  <1>2. b.content = heap[l].content /\ b.next = n /\ b = Block(b.content, b.next)
    BY <1>1 DEF Block
  <1> HIDE DEF b
  <1>3. heap' = [heap EXCEPT ![l] = b]
    BY DEF b
  <1>4. DOMAIN heap' = DOMAIN heap /\ heap'[l] = b
        /\ \A x \in DOMAIN heap : x # l => heap'[x] = heap[x]
    BY <1>3
  <1> QED  BY <1>2, <1>4

(* Behind the first node of a path, every node has a predecessor on it.    *)
LEMMA PathNexts ==
    ASSUME NEW h, NEW a, NEW s, IsPath(h, a, s),
           \A x \in DOMAIN h : h[x].next \in DOMAIN h \cup {NULL}
    PROVE  \A x \in Range(s) : h[x].next \in Range(Tail(s)) \cup {NULL}
  <1> SUFFICES ASSUME NEW x \in Range(s)
               PROVE  h[x].next \in Range(Tail(s)) \cup {NULL}
    OBVIOUS
  <1>1. s \in Seq(DOMAIN h)
    BY DEF IsPath
  <1>2. s # <<>> /\ Len(s) \in Nat \ {0}
    BY <1>1, Members, EmptySeq
  <1> DEFINE t == Tail(s)
  <1>3. /\ t \in Seq(DOMAIN h) /\ Len(t) = Len(s) - 1
        /\ \A i \in 1..Len(t) : t[i] = s[i + 1]
    BY <1>1, <1>2, HeadTailProperties
  <1> HIDE DEF t
  <1>4. \A i \in 1..Len(t) : t[i] \in Range(t)
    BY <1>3, Members
  <1>5. PICK i \in 1..Len(s) : s[i] = x
    BY <1>1, Members
  <1>6. x \in DOMAIN h
    BY <1>1, Members
  <1>7. CASE i = Len(s)
    <2>1. h[x].next \notin DOMAIN h
      BY <1>2, <1>5, <1>7 DEF IsPath
    <2> QED  BY <1>6, <2>1
  <1>8. CASE i # Len(s)
    <2>1. i < Len(s) /\ i \in 1..Len(t)
      BY <1>2, <1>3, <1>8, SMT
    <2>2. h[x].next = s[i + 1]
      BY <1>5, <2>1 DEF IsPath
    <2> QED  BY <1>3, <1>4, <2>1, <2>2 DEF t
  <1> QED  BY <1>7, <1>8

-----------------------------------------------------------------------------
(* Every operation keeps the shape of the two lists.                       *)

(* What every step may use of the lists before it.                         *)
LEMMA ShapeFacts ==
    ASSUME NEW s, NEW t, Shape(s, t)
    PROVE  /\ s \in Seq(DOMAIN heap) /\ t \in Seq(DOMAIN heap)
           /\ Len(s) \in Nat /\ Len(t) \in Nat
           /\ Range(s) \subseteq DOMAIN heap /\ Range(t) \subseteq DOMAIN heap
           /\ NULL \notin DOMAIN heap
           /\ s = <<>> <=> inicio_buffer = NULL
           /\ t = <<>> <=> inicio_packet = NULL
           /\ s # <<>> => /\ inicio_buffer \in Range(s) /\ Head(s) = inicio_buffer
                          /\ final_buffer = s[Len(s)] /\ final_buffer \in Range(s)
           /\ t # <<>> => /\ inicio_packet \in Range(t) /\ Head(t) = inicio_packet
                          /\ final_packet = t[Len(t)] /\ final_packet \in Range(t)
           /\ (s = <<>> <=> Len(s) = 0) /\ (t = <<>> <=> Len(t) = 0)
  <1>1. IsPath(heap, inicio_buffer, s) /\ IsPath(heap, inicio_packet, t)
    BY DEF Shape, Links
  <1>2. s \in Seq(DOMAIN heap) /\ t \in Seq(DOMAIN heap)
    BY <1>1 DEF IsPath
  <1>3. NULL \notin DOMAIN heap
    BY QueueHeapAssumption DEF Shape, Blocks
  <1>4. {inicio_buffer, inicio_packet} \subseteq DOMAIN heap \cup {NULL}
    BY DEF Shape, Links
  <1>5. /\ Range(s) \subseteq DOMAIN heap /\ Len(s) \in Nat
        /\ s = <<>> => inicio_buffer \notin DOMAIN heap
        /\ s # <<>> => inicio_buffer \in Range(s) /\ s[Len(s)] \in Range(s) /\ Head(s) = inicio_buffer
    BY <1>1, PathNodes
  <1>6. /\ Range(t) \subseteq DOMAIN heap /\ Len(t) \in Nat
        /\ t = <<>> => inicio_packet \notin DOMAIN heap
        /\ t # <<>> => inicio_packet \in Range(t) /\ t[Len(t)] \in Range(t) /\ Head(t) = inicio_packet
    BY <1>1, PathNodes
  <1>7. (s # <<>> => final_buffer = s[Len(s)]) /\ (t # <<>> => final_packet = t[Len(t)])
    BY DEF Shape, Ends
  <1>8. (s = <<>> <=> Len(s) = 0) /\ (t = <<>> <=> Len(t) = 0)
    BY <1>2, Members
  <1> QED  BY <1>2, <1>3, <1>4, <1>5, <1>6, <1>7, <1>8, Zenon

(* Where the blocks point to.                                              *)
LEMMA NextFacts ==
    ASSUME NEW s, NEW t, Shape(s, t)
    PROVE  /\ \A x \in Range(s) : heap[x].next \in Range(Tail(s)) \cup {NULL}
           /\ \A x \in Range(t) : heap[x].next \in Range(Tail(t)) \cup {NULL}
           /\ \A x \in Structures(t) : heap[x].next = NULL
           /\ new_node # NULL => heap[new_node].next = NULL
           /\ temp # NULL => heap[temp].next = inicio_buffer
           /\ \A x \in DOMAIN heap :
                 \/ x \in Range(s) \/ x \in Range(t) \/ x \in Structures(t)
                 \/ x = new_node /\ new_node # NULL
                 \/ x = temp /\ temp # NULL
  <1>1. /\ IsPath(heap, inicio_buffer, s) /\ IsPath(heap, inicio_packet, t)
        /\ \A x \in DOMAIN heap : heap[x].next \in DOMAIN heap \cup {NULL}
    BY DEF Shape, Links
  <1>2. \A x \in Range(s) : heap[x].next \in Range(Tail(s)) \cup {NULL}
    BY <1>1, PathNexts
  <1>3. \A x \in Range(t) : heap[x].next \in Range(Tail(t)) \cup {NULL}
    BY <1>1, PathNexts
  <1>4. NULL \notin DOMAIN heap
    BY ShapeFacts
  <1>5. DOMAIN heap = RawNodes(s) \cup Cells(t) \cup Structures(t)
    BY DEF Shape, Blocks
  <1> QED  BY <1>2, <1>3, <1>4, <1>5 DEF Shape, Links, RawNodes, Cells

(* The blocks that a step frees or reads are live.                         *)
LEMMA LiveFacts ==
    ASSUME NEW s, NEW t, Shape(s, t)
    PROVE  /\ s \in Seq(DOMAIN heap) /\ t \in Seq(DOMAIN heap)
           /\ \A c \in Range(t) : heap[c].content \in DOMAIN heap
           /\ new_node # NULL => new_node \in DOMAIN heap
           /\ temp # NULL => temp \in DOMAIN heap
           /\ node # NULL => node \in DOMAIN heap
           /\ op = "linkPacket" => heap[new_node].content \in DOMAIN heap
  <1>1. DOMAIN heap = RawNodes(s) \cup Cells(t) \cup Structures(t)
    BY DEF Shape, Blocks
  <1>2. \A c \in Range(t) : heap[c].content \in Structures(t)
    BY DEF Structures, Cells
  <1>3. new_node # NULL => new_node \in RawNodes(s) \cup Cells(t)
    BY DEF RawNodes, Cells, Shape, Places
  <1>4. (temp # NULL => temp \in RawNodes(s)) /\ (node # NULL => node \in Structures(t))
    BY DEF RawNodes, Structures
  <1>5. op = "linkPacket" => heap[new_node].content \in Structures(t)
    BY DEF Structures, Cells
  <1> QED  BY <1>1, <1>2, <1>3, <1>4, <1>5, ShapeFacts

LEMMA FirstLive ==
    ASSUME NEW s, NEW t, Shape(s, t)
    PROVE  /\ inicio_buffer # NULL => Live(inicio_buffer)
           /\ inicio_packet # NULL =>
                 /\ Live(inicio_packet)
                 /\ heap[inicio_packet].content \in DOMAIN heap \ {inicio_packet}
  <1>1. inicio_buffer # NULL => Live(inicio_buffer)
    BY ShapeFacts DEF Live
  <1> SUFFICES ASSUME inicio_packet # NULL
               PROVE  /\ Live(inicio_packet)
                      /\ heap[inicio_packet].content \in DOMAIN heap \ {inicio_packet}
    BY <1>1
  <1>2. inicio_packet \in Range(t) /\ Range(t) \subseteq DOMAIN heap
    BY ShapeFacts
  <1>3. inicio_packet \in Cells(t) /\ heap[inicio_packet].content \in Structures(t)
    BY <1>2 DEF Cells, Structures
  <1>4. heap[inicio_packet].content # inicio_packet
    BY <1>3 DEF Shape, Blocks
  <1>5. heap[inicio_packet].content \in DOMAIN heap
    BY <1>2, LiveFacts
  <1> QED  BY <1>2, <1>4, <1>5 DEF Live

LEMMA NextStays ==
    ASSUME NEW s, NEW t, Shape(s, t)
    PROVE  /\ \A x \in Range(s) : heap[x].next \in Range(s) \cup {NULL}
           /\ \A x \in Range(t) : heap[x].next \in Range(t) \cup {NULL}
  <1>1. /\ s \in Seq(DOMAIN heap) /\ t \in Seq(DOMAIN heap)
        /\ Distinct(s) /\ Distinct(t)
    BY ShapeFacts DEF Shape, Links
  <1>2. Range(Tail(s)) \subseteq Range(s) \/ s = <<>>
    BY <1>1, TailMembers
  <1>3. Range(Tail(t)) \subseteq Range(t) \/ t = <<>>
    BY <1>1, TailMembers
  <1>4. (s = <<>> => Range(s) = {}) /\ (t = <<>> => Range(t) = {})
    BY <1>1, Members
  <1> QED  BY <1>2, <1>3, <1>4, NextFacts

LEMMA AddItemKeeps ==
    ASSUME NEW s, NEW t, Shape(s, t), NEW f \in Frames, NEW a \in Fresh, AddItem(f, a)
    PROVE  IF inicio_buffer = NULL THEN Shape(<<a>>, t)' ELSE Shape(s, t)'
  <1>1. /\ op = "idle" /\ temp = NULL /\ node = NULL /\ new_node = NULL
        /\ temp' = temp /\ node' = node /\ fault' = fault /\ batch' = batch
        /\ inicio_packet' = inicio_packet /\ final_packet' = final_packet
        /\ nmbr_packets' = nmbr_packets
    BY DEF Shape, Places, AddItem, packetList
  <1>2. /\ a \in Addr /\ a \notin DOMAIN heap /\ a # NULL
        /\ DOMAIN heap' = DOMAIN heap \cup {a}
        /\ heap'[a].content = f /\ heap'[a].next = NULL
        /\ heap'[a] = Block(heap'[a].content, heap'[a].next)
        /\ \A x \in DOMAIN heap : heap'[x] = heap[x]
    <2>1. heap' = With(heap, a, Block(f, NULL))
      BY DEF AddItem
    <2> QED  BY <2>1, Allocation
  <1>3. /\ Range(s) \subseteq DOMAIN heap /\ Range(t) \subseteq DOMAIN heap
        /\ NULL \notin DOMAIN heap
    BY ShapeFacts
  <1>4. RawNodes(s) = Range(s) /\ Cells(t) = Range(t)
        /\ Structures(t) = {heap[c].content : c \in Range(t)}
    BY <1>1 DEF RawNodes, Cells, Structures
  <1>5. Cells(t)' = Range(t) /\ Structures(t)' = {heap[c].content : c \in Range(t)}
    <2>1. Cells(t)' = Range(t)
      BY <1>1 DEF Cells, AddItem
    <2>2. \A c \in Range(t) : heap'[c].content = heap[c].content
      BY <1>2, <1>3
    <2>3. Structures(t)' = {heap'[c].content : c \in Cells(t)'} \cup ({node'} \ {NULL})
      BY DEF Structures
    <2>4. {heap'[c].content : c \in Range(t)} = {heap[c].content : c \in Range(t)}
      BY <2>2, Zenon
    <2> QED  BY <1>1, <2>1, <2>3, <2>4
  <1>6. DOMAIN heap = Range(s) \cup Range(t) \cup Structures(t)
    BY <1>4 DEF Shape, Blocks
  <1> DEFINE T == Structures(t)
  <1>7. T' = T /\ T \subseteq DOMAIN heap /\ a \notin T
    BY <1>2, <1>4, <1>5, <1>6
  <1>8. IsPath(heap', inicio_packet, t)
    <2>1. IsPath(heap, inicio_packet, t) /\ inicio_packet \in DOMAIN heap \cup {NULL}
          /\ \A x \in DOMAIN heap : heap[x].next \in DOMAIN heap \cup {NULL}
      BY DEF Shape, Links
    <2> QED  BY <2>1, <1>2, <1>3, PathKept
  <1>9. CASE inicio_buffer = NULL
    <2>1. s = <<>> /\ Range(s) = {}
      BY <1>9, ShapeFacts, Members
    <2>2. /\ op' = "idle" /\ new_node' = NULL
          /\ inicio_buffer' = a /\ final_buffer' = a
          /\ nmbr_itens' = nmbr_itens + 1
      BY <1>1, <1>9 DEF AddItem, rawList
    <2>3. RawNodes(<<a>>)' = {a}
      BY <1>1, <2>2, OneMember DEF RawNodes
    <2>4. Blocks(<<a>>, t)'
      BY <1>1, <1>2, <1>3, <1>4, <1>5, <1>6, <1>7, <2>1, <2>3 DEF Shape, Blocks
    <2>5. Links(<<a>>, t)'
      <3>1. IsPath(heap', inicio_buffer', <<a>>)
        BY <1>2, <1>3, <2>2, PathOfOne
      <3>2. \A x \in DOMAIN heap' : heap'[x].next \in DOMAIN heap' \cup {NULL}
        BY <1>2 DEF Shape, Links
      <3>3. \A x \in Structures(t)' : heap'[x].next = NULL
        BY <1>2, <1>7 DEF Shape, Links
      <3>4. Distinct(<<a>>) /\ Distinct(t)
        BY OneMember DEF Shape, Links
      <3>5. {inicio_buffer', inicio_packet'} \subseteq DOMAIN heap' \cup {NULL}
        BY <1>1, <1>2, <2>2 DEF Shape, Links
      <3>6. op' # "linkItem" /\ op' # "linkPacket"
        BY <2>2
      <3> QED  BY <1>1, <1>2, <1>3, <1>8, <2>2, <3>1, <3>2, <3>3, <3>4, <3>5, <3>6, Zenon DEF Links
    <2>6. Ends(<<a>>, t)' /\ Counts(<<a>>, t)'
      <3>1. nmbr_itens = 0
        BY <1>1, <1>9, ShapeFacts DEF Shape, Counts
      <3>2. <<a>>[Len(<<a>>)] = a /\ Len(<<a>>) = 1
        OBVIOUS
      <3>3. 1 <= MaxItens
        BY QueueHeapAssumption
      <3> QED  BY <1>1, <1>2, <2>2, <3>1, <3>2, <3>3 DEF Shape, Ends, Counts, Pointers
    <2>7. Places(<<a>>, t)'
      BY <1>1, <2>2 DEF Shape, Places
    <2> QED  BY <1>9, <2>4, <2>5, <2>6, <2>7 DEF Shape
  <1>10. CASE inicio_buffer # NULL
    <2>1. /\ op' = "linkItem" /\ new_node' = a
          /\ inicio_buffer' = inicio_buffer /\ final_buffer' = final_buffer
          /\ nmbr_itens' = nmbr_itens
      BY <1>10 DEF AddItem, rawList
    <2>2. RawNodes(s)' = Range(s) \cup {a}
      BY <1>1, <2>1 DEF RawNodes
    <2>3. Blocks(s, t)'
      BY <1>1, <1>2, <1>3, <1>4, <1>5, <1>6, <1>7, <2>2 DEF Shape, Blocks
    <2>4. Links(s, t)'
      <3>1. IsPath(heap', inicio_buffer, s)
        <4>1. IsPath(heap, inicio_buffer, s) /\ inicio_buffer \in DOMAIN heap \cup {NULL}
              /\ \A x \in DOMAIN heap : heap[x].next \in DOMAIN heap \cup {NULL}
          BY DEF Shape, Links
        <4> QED  BY <4>1, <1>2, <1>3, PathKept
      <3>2. \A x \in DOMAIN heap' : heap'[x].next \in DOMAIN heap' \cup {NULL}
        BY <1>2 DEF Shape, Links
      <3>3. \A x \in Structures(t)' : heap'[x].next = NULL
        BY <1>2, <1>7 DEF Shape, Links
      <3>4. Distinct(s) /\ Distinct(t)
        BY DEF Shape, Links
      <3>5. {inicio_buffer', inicio_packet'} \subseteq DOMAIN heap' \cup {NULL}
        BY <1>1, <1>2, <2>1 DEF Shape, Links
      <3> QED  BY <1>1, <1>2, <1>3, <1>8, <2>1, <3>1, <3>2, <3>3, <3>4, <3>5, Zenon DEF Links
    <2>5. Ends(s, t)' /\ Counts(s, t)'
      BY <1>1, <2>1 DEF Shape, Ends, Counts
    <2>6. Places(s, t)'
      BY <1>1, <1>2, <1>10, <2>1, ShapeFacts DEF Shape, Places
    <2> QED  BY <1>10, <2>3, <2>4, <2>5, <2>6 DEF Shape
  <1> QED  BY <1>9, <1>10

LEMMA EvictItemKeeps ==
    ASSUME NEW s, NEW t, Shape(s, t), EvictItem
    PROVE  s # <<>> /\ Shape(Tail(s), t)'
  <1> DEFINE a == inicio_buffer
             n == new_node
             r == Tail(s)
             T == Structures(t)
  <1>1. /\ op = "linkItem" /\ temp = NULL /\ node = NULL /\ n # NULL
        /\ op' = op /\ new_node' = n /\ temp' = temp /\ node' = node
        /\ fault' = fault /\ batch' = batch /\ final_buffer' = final_buffer
        /\ inicio_packet' = inicio_packet /\ final_packet' = final_packet
        /\ nmbr_packets' = nmbr_packets
        /\ nmbr_itens >= MaxItens /\ nmbr_itens' = nmbr_itens - 1
        /\ inicio_buffer' = heap[a].next
    <2>1. Live(a)
      BY FirstLive DEF EvictItem
    <2> QED  BY <2>1 DEF Shape, Places, EvictItem, Free, packetList
  <1>2. /\ DOMAIN heap' = DOMAIN heap \ {a}
        /\ \A x \in DOMAIN heap' : heap'[x] = heap[x]
    <2>1. heap' = Without(heap, {a})
      BY FirstLive DEF EvictItem, Free
    <2> HIDE DEF a
    <2> QED  BY <2>1, Release
  <1>3. /\ s \in Seq(DOMAIN heap) /\ Len(s) \in Nat /\ Len(t) \in Nat
        /\ Range(s) \subseteq DOMAIN heap /\ Range(t) \subseteq DOMAIN heap
        /\ NULL \notin DOMAIN heap
        /\ s # <<>> /\ Head(s) = a /\ a \in Range(s)
        /\ final_buffer = s[Len(s)]
    <2>1. inicio_buffer # NULL
      BY DEF EvictItem
    <2> QED  BY <2>1, ShapeFacts, Zenon
  <1>4. Distinct(s) /\ Distinct(t) /\ n \notin Range(s)
    BY <1>1 DEF Shape, Links
  <1>5. /\ Range(r) = Range(s) \ {a} /\ Distinct(r) /\ Len(r) = Len(s) - 1
        /\ r \in Seq(DOMAIN heap) /\ (r # <<>> => r[Len(r)] = s[Len(s)])
    BY <1>3, <1>4, TailMembers
  <1>6. nmbr_itens = Len(s) /\ MaxItens \in Nat /\ MaxItens >= 2
    BY <1>1, <1>3, QueueHeapAssumption DEF Shape, Counts
  <1>7. r # <<>>
    <2>1. r = <<>> => Len(r) = 0
      BY <1>5, Members
    <2> HIDE DEF r
    <2> QED  BY <1>1, <1>3, <1>5, <1>6, <2>1
  <1>8. /\ RawNodes(s) = Range(s) \cup {n} /\ Cells(t) = Range(t)
        /\ T = {heap[c].content : c \in Range(t)}
    BY <1>1 DEF RawNodes, Cells, Structures
  <1>9. /\ RawNodes(r)' = (Range(s) \ {a}) \cup {n} /\ Cells(t)' = Range(t)
    BY <1>1, <1>5 DEF RawNodes, Cells
  <1>10. DOMAIN heap = RawNodes(s) \cup Range(t) \cup T
         /\ RawNodes(s) \cap Range(t) = {} /\ RawNodes(s) \cap T = {}
    BY <1>8 DEF Shape, Blocks
  <1>11. T' = T
    <2>1. \A c \in Range(t) : heap'[c].content = heap[c].content
      BY <1>2, <1>3, <1>8, <1>10
    <2>2. T' = {heap'[c].content : c \in Range(t)}
      BY <1>1, <1>9 DEF Structures
    <2> QED  BY <1>8, <2>1, <2>2
  <1>12. Blocks(r, t)'
    BY <1>1, <1>2, <1>3, <1>4, <1>8, <1>9, <1>10, <1>11 DEF Shape, Blocks
  <1>13. /\ \A x \in Range(s) : heap[x].next \in (Range(s) \ {a}) \cup {NULL}
         /\ \A x \in Range(t) : heap[x].next \in Range(t) \cup {NULL}
         /\ \A x \in T : heap[x].next = NULL
         /\ heap[n].next = NULL
    BY <1>1, <1>5, NextFacts, NextStays
  <1>14. IsPath(heap', inicio_buffer', r) /\ IsPath(heap', inicio_packet', t)
    <2>1. /\ IsPath(heap, inicio_buffer, s) /\ IsPath(heap, inicio_packet, t)
          /\ inicio_packet \in DOMAIN heap \cup {NULL}
          /\ \A x \in DOMAIN heap : heap[x].next \in DOMAIN heap \cup {NULL}
      BY DEF Shape, Links
    <2>2. IsPath(heap, heap[a].next, r)
      BY <1>3, <2>1, PathTail
    <2>3. heap[a].next \in DOMAIN heap \cup {NULL}
      BY <1>3, <2>1
    <2>4. NULL \notin DOMAIN heap' /\ Range(t) \subseteq DOMAIN heap'
          /\ Range(r) \subseteq DOMAIN heap'
      BY <1>2, <1>3, <1>5, <1>8, <1>10
    <2>5. IsPath(heap', heap[a].next, r)
      BY <1>2, <2>1, <2>2, <2>3, <2>4, PathKept
    <2>6. IsPath(heap', inicio_packet, t)
      BY <1>2, <2>1, <2>4, PathKept
    <2> QED  BY <1>1, <2>5, <2>6
  <1>15. Links(r, t)'
    <2>1. \A x \in DOMAIN heap' : heap'[x].next \in DOMAIN heap' \cup {NULL}
      BY <1>2, <1>3, <1>8, <1>10, <1>13
    <2>2. {inicio_buffer', inicio_packet'} \subseteq DOMAIN heap' \cup {NULL}
      <3>1. inicio_packet \in DOMAIN heap \cup {NULL} /\ inicio_packet # a
        <4>1. inicio_packet \in Range(t) \cup {NULL}
          BY ShapeFacts
        <4> QED  BY <1>3, <1>8, <1>10, <4>1
      <3> QED  BY <1>1, <1>2, <1>3, <1>8, <1>10, <1>13, <3>1 DEF Shape, Links
    <2>3. \A x \in T' : heap'[x].next = NULL
      BY <1>2, <1>3, <1>8, <1>10, <1>11, <1>13
    <2>4. heap'[n].next = NULL /\ n \notin Range(r)
      BY <1>2, <1>3, <1>4, <1>5, <1>8, <1>10, <1>13
    <2> QED  BY <1>1, <1>4, <1>5, <1>14, <2>1, <2>2, <2>3, <2>4 DEF Links
  <1>16. Ends(r, t)'
    BY <1>1, <1>3, <1>5 DEF Shape, Ends
  <1>17. Counts(r, t)'
    BY <1>1, <1>3, <1>5, <1>6 DEF Shape, Counts
  <1>18. Places(r, t)'
    BY <1>1, <1>7 DEF Shape, Places
  <1> QED  BY <1>3, <1>12, <1>15, <1>16, <1>17, <1>18 DEF Shape

LEMMA LinkItemKeeps ==
    ASSUME NEW s, NEW t, Shape(s, t), NEW n, n = new_node, LinkItem
    PROVE  Shape(Append(s, n), t)'
  <1> DEFINE l == final_buffer
             r == Append(s, n)
             T == Structures(t)
  <1>1. /\ op = "linkItem" /\ temp = NULL /\ node = NULL /\ n # NULL /\ s # <<>>
        /\ op' = "idle" /\ new_node' = NULL /\ temp' = temp /\ node' = node
        /\ batch' = batch /\ final_buffer' = n /\ inicio_buffer' = inicio_buffer
        /\ inicio_packet' = inicio_packet /\ final_packet' = final_packet
        /\ nmbr_packets' = nmbr_packets
        /\ nmbr_itens < MaxItens /\ nmbr_itens' = nmbr_itens + 1
    BY DEF Shape, Places, LinkItem, packetList
  <1>2. /\ s \in Seq(DOMAIN heap) /\ Len(s) \in Nat
        /\ Range(s) \subseteq DOMAIN heap /\ Range(t) \subseteq DOMAIN heap
        /\ NULL \notin DOMAIN heap
        /\ l = s[Len(s)] /\ l \in Range(s)
    BY <1>1, ShapeFacts
  <1>3. Distinct(s) /\ Distinct(t) /\ n \notin Range(s)
    BY <1>1 DEF Shape, Links
  <1>4. /\ RawNodes(s) = Range(s) \cup {n} /\ Cells(t) = Range(t)
        /\ T = {heap[c].content : c \in Range(t)}
    BY <1>1 DEF RawNodes, Cells, Structures
  <1>5. DOMAIN heap = RawNodes(s) \cup Range(t) \cup T
        /\ RawNodes(s) \cap Range(t) = {} /\ RawNodes(s) \cap T = {}
    BY <1>4 DEF Shape, Blocks
  <1>6. fault' = fault /\ heap' = [heap EXCEPT ![l].next = n]
    BY <1>2 DEF LinkItem, Live
  <1>7. /\ DOMAIN heap' = DOMAIN heap
        /\ heap'[l].next = n
        /\ heap'[l] = Block(heap'[l].content, heap'[l].next)
        /\ \A x \in DOMAIN heap : x # l => heap'[x] = heap[x]
        /\ \A x \in DOMAIN heap : heap'[x].content = heap[x].content
    <2>1. l \in DOMAIN heap /\ heap[l] = Block(heap[l].content, heap[l].next)
      BY <1>2 DEF Shape, Blocks
    <2> HIDE DEF l
    <2> QED  BY <1>6, <2>1, Link
  <1>8. /\ r \in Seq(DOMAIN heap) /\ r # <<>> /\ Len(r) = Len(s) + 1
        /\ r[Len(s) + 1] = n /\ Range(r) = Range(s) \cup {n} /\ Distinct(r)
    <2>1. n \in DOMAIN heap
      BY <1>4, <1>5
    <2> QED  BY <1>2, <1>3, <2>1, AppendMembers
  <1>9. RawNodes(r)' = Range(s) \cup {n} /\ Cells(t)' = Range(t)
    BY <1>1, <1>8 DEF RawNodes, Cells
  <1>10. T' = T
    <2>1. \A c \in Range(t) : heap'[c].content = heap[c].content
      BY <1>2, <1>7
    <2>2. T' = {heap'[c].content : c \in Range(t)}
      BY <1>1, <1>9 DEF Structures
    <2> QED  BY <1>4, <2>1, <2>2
  <1>11. Blocks(r, t)'
    BY <1>1, <1>2, <1>4, <1>5, <1>7, <1>9, <1>10 DEF Shape, Blocks
  <1>12. heap[n].next = NULL /\ n # l
    BY <1>1, <1>2, <1>3, NextFacts
  <1>13. IsPath(heap', inicio_buffer', r) /\ IsPath(heap', inicio_packet', t)
    <2>1. /\ IsPath(heap, inicio_buffer, s) /\ IsPath(heap, inicio_packet, t)
          /\ inicio_packet \in DOMAIN heap \cup {NULL}
          /\ \A x \in DOMAIN heap : heap[x].next \in DOMAIN heap \cup {NULL}
      BY DEF Shape, Links
    <2>2. n \in DOMAIN heap' /\ heap'[n].next \notin DOMAIN heap'
          /\ Range(s) \subseteq DOMAIN heap' /\ NULL \notin DOMAIN heap'
      BY <1>2, <1>4, <1>5, <1>7, <1>12
    <2>3. IsPath(heap', inicio_buffer, r)
      <3>1. heap'[s[Len(s)]].next = n
            /\ \A x \in Range(s) : x # s[Len(s)] => heap'[x].next = heap[x].next
        BY <1>2, <1>7
      <3> QED  BY <1>1, <1>3, <2>1, <2>2, <3>1, PathAppend
    <2>4. \A x \in Range(t) : x \in DOMAIN heap' /\ heap'[x].next = heap[x].next
      BY <1>2, <1>4, <1>5, <1>7
    <2>5. IsPath(heap', inicio_packet, t)
      BY <2>1, <2>2, <2>4, PathKept
    <2> QED  BY <1>1, <2>3, <2>5
  <1>14. Links(r, t)'
    <2>1. \A x \in DOMAIN heap' : heap'[x].next \in DOMAIN heap' \cup {NULL}
      BY <1>4, <1>5, <1>7 DEF Shape, Links
    <2>2. {inicio_buffer', inicio_packet'} \subseteq DOMAIN heap' \cup {NULL}
      BY <1>1, <1>7 DEF Shape, Links
    <2>3. \A x \in T' : heap'[x].next = NULL
      BY <1>2, <1>4, <1>5, <1>7, <1>10 DEF Shape, Links
    <2> QED  BY <1>1, <1>3, <1>8, <1>13, <2>1, <2>2, <2>3 DEF Links
  <1>15. Ends(r, t)'
    <2>1. n \in Pointers
      BY <1>4, <1>5 DEF Shape, Blocks, Pointers
    <2> QED  BY <1>1, <1>8, <2>1 DEF Shape, Ends
  <1>16. Counts(r, t)'
    BY <1>1, <1>2, <1>8, QueueHeapAssumption DEF Shape, Counts
  <1>17. Places(r, t)'
    BY <1>1, <1>6 DEF Shape, Places
  <1> QED  BY <1>11, <1>14, <1>15, <1>16, <1>17 DEF Shape

LEMMA TakeItemKeeps ==
    ASSUME NEW s, NEW t, Shape(s, t), NEW a \in Fresh, TakeItem(a)
    PROVE  /\ s # <<>> /\ Shape(Tail(s), t)'
           /\ temp' = inicio_buffer /\ node' = a
           /\ heap'[temp'].content = heap[inicio_buffer].content
           /\ heap'[node'].content = heap[inicio_buffer].content
           /\ \A x \in DOMAIN heap : x \in DOMAIN heap' /\ heap'[x] = heap[x]
  <1> DEFINE h == inicio_buffer
             r == Tail(s)
             T == Structures(t)
  <1>1. /\ op = "idle" /\ temp = NULL /\ node = NULL /\ new_node = NULL
        /\ op' = "parse" /\ new_node' = new_node /\ batch' = batch
        /\ final_buffer' = final_buffer /\ nmbr_itens' = nmbr_itens
        /\ inicio_packet' = inicio_packet /\ final_packet' = final_packet
        /\ nmbr_packets' = nmbr_packets /\ nmbr_itens # 0
    BY DEF Shape, Places, TakeItem, packetList
  <1>2. /\ s \in Seq(DOMAIN heap) /\ Len(s) \in Nat
        /\ Range(s) \subseteq DOMAIN heap /\ Range(t) \subseteq DOMAIN heap
        /\ NULL \notin DOMAIN heap
        /\ s # <<>> /\ h \in Range(s) /\ Head(s) = h /\ final_buffer = s[Len(s)]
    <2>1. nmbr_itens = Len(s)
      BY <1>1, ShapeFacts DEF Shape, Counts
    <2> QED  BY <1>1, <2>1, ShapeFacts
  <1>3. Distinct(s) /\ Distinct(t)
    BY DEF Shape, Links
  <1>4. /\ Range(r) = Range(s) \ {h} /\ Distinct(r) /\ Len(r) = Len(s) - 1
        /\ r \in Seq(DOMAIN heap) /\ (r # <<>> => r[Len(r)] = s[Len(s)])
    BY <1>2, <1>3, TailMembers
  <1>5. /\ temp' = h /\ inicio_buffer' = heap[h].next /\ node' = a /\ fault' = fault
        /\ heap' = With(heap, a, Block(heap[h].content, NULL))
    BY <1>2 DEF TakeItem, Live
  <1>6. /\ a \in Addr /\ a \notin DOMAIN heap /\ a # NULL
        /\ DOMAIN heap' = DOMAIN heap \cup {a}
        /\ heap'[a].content = heap[h].content /\ heap'[a].next = NULL
        /\ heap'[a] = Block(heap'[a].content, heap'[a].next)
        /\ \A x \in DOMAIN heap : heap'[x] = heap[x]
    <2> DEFINE c == heap[h].content
    <2>1. heap' = With(heap, a, Block(c, NULL))
      BY <1>5
    <2> HIDE DEF c
    <2>2. /\ a \in Addr /\ a \notin DOMAIN heap /\ a # NULL
          /\ DOMAIN heap' = DOMAIN heap \cup {a}
          /\ heap'[a].content = c /\ heap'[a].next = NULL
          /\ heap'[a] = Block(heap'[a].content, heap'[a].next)
          /\ \A x \in DOMAIN heap : heap'[x] = heap[x]
      BY <2>1, Allocation
    <2> QED  BY <2>2 DEF c
  <1>7. /\ RawNodes(s) = Range(s) /\ Cells(t) = Range(t)
        /\ T = {heap[c].content : c \in Range(t)}
    BY <1>1 DEF RawNodes, Cells, Structures
  <1>8. DOMAIN heap = Range(s) \cup Range(t) \cup T
        /\ Range(s) \cap Range(t) = {} /\ Range(s) \cap T = {}
    BY <1>7 DEF Shape, Blocks
  <1>9. RawNodes(r)' = Range(s) /\ Cells(t)' = Range(t)
    BY <1>1, <1>2, <1>4, <1>5 DEF RawNodes, Cells
  <1>10. T' = T \cup {a}
    <2>1. \A c \in Range(t) : heap'[c].content = heap[c].content
      BY <1>2, <1>6
    <2>2. T' = {heap'[c].content : c \in Range(t)} \cup ({node'} \ {NULL})
      BY <1>9 DEF Structures
    <2>3. {heap'[c].content : c \in Range(t)} = T
      BY <1>7, <2>1
    <2> QED  BY <1>5, <1>6, <2>2, <2>3
  <1>11. Blocks(r, t)'
    BY <1>1, <1>2, <1>5, <1>6, <1>7, <1>8, <1>9, <1>10 DEF Shape, Blocks
  <1>12. IsPath(heap', inicio_buffer', r) /\ IsPath(heap', inicio_packet', t)
    <2>1. /\ IsPath(heap, inicio_buffer, s) /\ IsPath(heap, inicio_packet, t)
          /\ inicio_packet \in DOMAIN heap \cup {NULL}
          /\ \A x \in DOMAIN heap : heap[x].next \in DOMAIN heap \cup {NULL}
      BY DEF Shape, Links
    <2>2. IsPath(heap, heap[h].next, r)
      BY <1>2, <2>1, PathTail
    <2>3. heap[h].next \in DOMAIN heap \cup {NULL} /\ NULL \notin DOMAIN heap'
      BY <1>2, <1>6, <2>1
    <2>4. IsPath(heap', heap[h].next, r)
      BY <1>2, <1>4, <1>6, <2>1, <2>2, <2>3, PathKept
    <2>5. IsPath(heap', inicio_packet, t)
      BY <1>2, <1>6, <2>1, <2>3, PathKept
    <2> QED  BY <1>1, <1>5, <2>4, <2>5
  <1>13. Links(r, t)'
    <2>1. \A x \in DOMAIN heap' : heap'[x].next \in DOMAIN heap' \cup {NULL}
      BY <1>6 DEF Shape, Links
    <2>2. {inicio_buffer', inicio_packet'} \subseteq DOMAIN heap' \cup {NULL}
      BY <1>1, <1>2, <1>5, <1>6 DEF Shape, Links
    <2>3. \A x \in T' : heap'[x].next = NULL
      BY <1>6, <1>8, <1>10 DEF Shape, Links
    <2>4. heap'[h].next = heap[h].next /\ h \notin Range(r)
      BY <1>2, <1>4, <1>6
    <2> QED  BY <1>1, <1>3, <1>4, <1>5, <1>12, <2>1, <2>2, <2>3, <2>4 DEF Links
  <1>14. Ends(r, t)' /\ Counts(r, t)'
    <2>1. h # NULL
      BY <1>2
    <2>2. Ends(r, t)'
      BY <1>1, <1>2, <1>4 DEF Shape, Ends
    <2>3. nmbr_itens = Len(s)
      BY <1>1, <1>2 DEF Shape, Counts
    <2>4. Counts(r, t)'
      BY <1>1, <1>2, <1>4, <1>5, <2>1, <2>3 DEF Shape, Counts
    <2> QED  BY <2>2, <2>4
  <1>15. Places(r, t)'
    BY <1>1, <1>2, <1>5, <1>6 DEF Shape, Places
  <1>16. Shape(r, t)'
    BY <1>11, <1>13, <1>14, <1>15 DEF Shape
  <1>17. heap'[temp'].content = heap[h].content /\ heap'[node'].content = heap[h].content
         /\ \A x \in DOMAIN heap : x \in DOMAIN heap' /\ heap'[x] = heap[x]
    BY <1>2, <1>5, <1>6
  <1> QED  BY <1>2, <1>5, <1>16, <1>17

LEMMA RefusePacketKeeps ==
    ASSUME NEW s, NEW t, Shape(s, t), RefusePacket
    PROVE  Shape(s, t)'
  <1> DEFINE T == Structures(t)
             n == node
  <1>1. /\ op = "parse" /\ temp # NULL /\ n # NULL /\ new_node = NULL
        /\ op' = "freeItem" /\ new_node' = new_node /\ batch' = batch /\ fault' = fault
        /\ temp' = temp /\ node' = NULL
        /\ inicio_buffer' = inicio_buffer
        /\ final_buffer' = final_buffer /\ nmbr_itens' = nmbr_itens
        /\ inicio_packet' = inicio_packet /\ final_packet' = final_packet
        /\ nmbr_packets' = nmbr_packets
    <2>1. Live(n)
      BY LiveFacts DEF Shape, Places, RefusePacket, Live
    <2> QED  BY <2>1 DEF Shape, Places, RefusePacket, Free, packetList, rawList
  <1>2. DOMAIN heap' = DOMAIN heap \ {n} /\ \A x \in DOMAIN heap' : heap'[x] = heap[x]
    <2>1. heap' = Without(heap, {n})
      BY <1>1, LiveFacts DEF RefusePacket, Free, Live
    <2> HIDE DEF n
    <2> QED  BY <2>1, Release
  <1>3. /\ Range(s) \subseteq DOMAIN heap /\ Range(t) \subseteq DOMAIN heap
        /\ NULL \notin DOMAIN heap
        /\ inicio_buffer \in Range(s) \cup {NULL} /\ inicio_packet \in Range(t) \cup {NULL}
    BY ShapeFacts
  <1>4. /\ RawNodes(s) = Range(s) \cup {temp} /\ Cells(t) = Range(t)
        /\ T = {heap[c].content : c \in Range(t)} \cup {n}
    BY <1>1 DEF RawNodes, Cells, Structures
  <1>5. /\ DOMAIN heap = RawNodes(s) \cup Range(t) \cup T
        /\ RawNodes(s) \cap Range(t) = {} /\ RawNodes(s) \cap T = {} /\ Range(t) \cap T = {}
    BY <1>4 DEF Shape, Blocks
  <1>6. RawNodes(s)' = RawNodes(s) /\ Cells(t)' = Range(t)
    BY <1>1 DEF RawNodes, Cells
  <1>7. T' = T \ {n}
    <2>1. \A c \in Range(t) : heap'[c].content = heap[c].content /\ heap[c].content # n
      BY <1>2, <1>3, <1>4, <1>5 DEF Shape, Blocks
    <2>2. T' = {heap'[c].content : c \in Range(t)}
      BY <1>1, <1>6 DEF Structures
    <2>3. T' = {heap[c].content : c \in Range(t)}
      BY <2>1, <2>2
    <2>4. n \notin {heap[c].content : c \in Range(t)}
      BY <2>1
    <2> QED  BY <1>4, <2>3, <2>4
  <1>8. Blocks(s, t)'
    BY <1>1, <1>2, <1>3, <1>4, <1>5, <1>6, <1>7 DEF Shape, Blocks
  <1>9. \A x \in RawNodes(s) \cup Range(t) : x \in DOMAIN heap' /\ heap'[x] = heap[x]
    BY <1>2, <1>3, <1>4, <1>5
  <1>10. IsPath(heap', inicio_buffer', s) /\ IsPath(heap', inicio_packet', t)
    <2>1. /\ IsPath(heap, inicio_buffer, s) /\ IsPath(heap, inicio_packet, t)
          /\ {inicio_buffer, inicio_packet} \subseteq DOMAIN heap \cup {NULL}
          /\ \A x \in DOMAIN heap : heap[x].next \in DOMAIN heap \cup {NULL}
      BY DEF Shape, Links
    <2>2. NULL \notin DOMAIN heap'
      BY <1>2, <1>3
    <2>3. IsPath(heap', inicio_buffer, s)
      BY <1>4, <1>9, <2>1, <2>2, PathKept
    <2>4. IsPath(heap', inicio_packet, t)
      BY <1>9, <2>1, <2>2, PathKept
    <2> QED  BY <1>1, <2>3, <2>4
  <1>11. Links(s, t)'
    <2>1. \A x \in RawNodes(s) \cup Range(t) : heap[x].next # n
      BY <1>1, <1>3, <1>4, <1>5, NextFacts, NextStays
    <2>2. \A x \in DOMAIN heap' : heap'[x].next \in DOMAIN heap' \cup {NULL}
      <3>1. \A x \in T : heap[x].next = NULL
        BY DEF Shape, Links
      <3>2. \A x \in DOMAIN heap : heap[x].next \in DOMAIN heap \cup {NULL}
        BY DEF Shape, Links
      <3> QED  BY <1>2, <1>5, <2>1, <3>1, <3>2
    <2>3. {inicio_buffer', inicio_packet'} \subseteq DOMAIN heap' \cup {NULL}
      BY <1>1, <1>3, <1>4, <1>9
    <2>4. \A x \in T' : heap'[x].next = NULL
      BY <1>2, <1>5, <1>7 DEF Shape, Links
    <2>5. heap'[temp].next = heap[temp].next
      BY <1>4, <1>9
    <2> QED  BY <1>1, <1>10, <2>2, <2>3, <2>4, <2>5 DEF Shape, Links
  <1>12. Ends(s, t)' /\ Counts(s, t)'
    BY <1>1 DEF Shape, Ends, Counts
  <1>13. Places(s, t)'
    BY <1>1 DEF Shape, Places
  <1> QED  BY <1>8, <1>11, <1>12, <1>13 DEF Shape

LEMMA InsertPacketKeeps ==
    ASSUME NEW s, NEW t, Shape(s, t), NEW a \in Fresh, InsertPacket(a)
    PROVE  /\ IF inicio_packet = NULL THEN Shape(s, <<a>>)' ELSE Shape(s, t)'
           /\ heap'[a].content = node
           /\ \A x \in DOMAIN heap : x \in DOMAIN heap' /\ heap'[x] = heap[x]
  <1> DEFINE n == node
             T == Structures(t)
  <1>1. /\ op = "parse" /\ temp # NULL /\ n # NULL /\ new_node = NULL
        /\ batch' = batch /\ fault' = fault
        /\ temp' = temp /\ node' = NULL
        /\ inicio_buffer' = inicio_buffer
        /\ final_buffer' = final_buffer /\ nmbr_itens' = nmbr_itens
    BY DEF Shape, Places, InsertPacket, rawList
  <1>2. /\ a \in Addr /\ a \notin DOMAIN heap /\ a # NULL
        /\ DOMAIN heap' = DOMAIN heap \cup {a}
        /\ heap'[a].content = n /\ heap'[a].next = NULL
        /\ heap'[a] = Block(heap'[a].content, heap'[a].next)
        /\ \A x \in DOMAIN heap : heap'[x] = heap[x]
    <2>1. heap' = With(heap, a, Block(n, NULL))
      BY DEF InsertPacket
    <2> HIDE DEF n
    <2> QED  BY <2>1, Allocation
  <1>3. /\ Range(s) \subseteq DOMAIN heap /\ Range(t) \subseteq DOMAIN heap
        /\ NULL \notin DOMAIN heap /\ t \in Seq(DOMAIN heap) /\ Len(t) \in Nat
        /\ t = <<>> <=> inicio_packet = NULL
    BY ShapeFacts
  <1>4. /\ RawNodes(s) = Range(s) \cup {temp} /\ Cells(t) = Range(t)
        /\ T = {heap[c].content : c \in Range(t)} \cup {n}
    BY <1>1 DEF RawNodes, Cells, Structures
  <1>5. /\ DOMAIN heap = RawNodes(s) \cup Range(t) \cup T
        /\ RawNodes(s) \cap Range(t) = {} /\ RawNodes(s) \cap T = {} /\ Range(t) \cap T = {}
        /\ temp \in DOMAIN heap /\ n \in DOMAIN heap
    BY <1>4 DEF Shape, Blocks
  <1>6. RawNodes(s)' = RawNodes(s)
    <2>1. op' # "linkItem"
      BY DEF InsertPacket
    <2> QED  BY <1>1, <1>4, <2>1 DEF RawNodes
  <1>7. {heap'[c].content : c \in Range(t) \cup {a}} = T
    <2>1. \A c \in Range(t) : heap'[c].content = heap[c].content
      BY <1>2, <1>3
    <2>2. {heap'[c].content : c \in Range(t) \cup {a}}
             = {heap'[c].content : c \in Range(t)} \cup {n}
      BY <1>2
    <2>3. {heap'[c].content : c \in Range(t)} = {heap[c].content : c \in Range(t)}
      BY <2>1, Zenon
    <2> QED  BY <1>4, <2>2, <2>3
  <1>8. /\ IsPath(heap, inicio_buffer, s) /\ IsPath(heap, inicio_packet, t)
        /\ {inicio_buffer, inicio_packet} \subseteq DOMAIN heap \cup {NULL}
        /\ \A x \in DOMAIN heap : heap[x].next \in DOMAIN heap \cup {NULL}
        /\ Distinct(s) /\ Distinct(t)
    BY DEF Shape, Links
  <1>9. NULL \notin DOMAIN heap' /\ IsPath(heap', inicio_buffer', s)
    <2>1. IsPath(heap', inicio_buffer, s)
      BY <1>2, <1>3, <1>8, PathKept
    <2> QED  BY <1>1, <1>2, <1>3, <2>1
  <1>10. /\ \A x \in DOMAIN heap' : heap'[x].next \in DOMAIN heap' \cup {NULL}
         /\ \A x \in T : heap'[x].next = NULL
         /\ heap'[temp].next = inicio_buffer /\ temp \notin Range(s)
    BY <1>1, <1>2, <1>5, <1>8 DEF Shape, Links
  <1>11. CASE inicio_packet = NULL
    <2>1. /\ inicio_packet' = a /\ final_packet' = a
          /\ nmbr_packets' = nmbr_packets + 1
          /\ op' = "freeItem" /\ new_node' = NULL
      BY <1>1, <1>11 DEF InsertPacket
    <2>2. t = <<>> /\ Range(t) = {} /\ Len(t) = 0
      BY <1>3, <1>11, Members
    <2>3. Cells(<<a>>)' = {a}
      BY <2>1, OneMember DEF Cells
    <2>4. Structures(<<a>>)' = T
      <3>1. Structures(<<a>>)' = {heap'[c].content : c \in {a}}
        BY <1>1, <2>3 DEF Structures
      <3> QED  BY <1>7, <2>2, <3>1
    <2>5. Blocks(s, <<a>>)'
      BY <1>1, <1>2, <1>3, <1>4, <1>5, <1>6, <2>2, <2>3, <2>4 DEF Shape, Blocks
    <2>6. IsPath(heap', inicio_packet', <<a>>)
      BY <1>2, <1>3, <2>1, PathOfOne
    <2>7. Links(s, <<a>>)'
      BY <1>1, <1>2, <1>8, <1>9, <1>10, <2>1, <2>4, <2>6, OneMember DEF Links
    <2>8. Ends(s, <<a>>)' /\ Counts(s, <<a>>)'
      <3>1. nmbr_packets = 0
        BY <1>1, <2>2 DEF Shape, Counts
      <3>2. <<a>>[Len(<<a>>)] = a /\ Len(<<a>>) = 1
        OBVIOUS
      <3>3. 1 \in 0..MaxPackets
        BY QueueHeapAssumption
      <3> QED  BY <1>1, <1>2, <2>1, <3>1, <3>2, <3>3 DEF Shape, Ends, Counts, Pointers
    <2>9. Places(s, <<a>>)'
      BY <1>1, <2>1 DEF Shape, Places
    <2>10. Shape(s, <<a>>)'
      BY <2>5, <2>7, <2>8, <2>9 DEF Shape
    <2> QED  BY <1>2, <1>11, <2>10
  <1>12. CASE inicio_packet # NULL
    <2>1. /\ inicio_packet' = inicio_packet /\ final_packet' = final_packet
          /\ nmbr_packets' = nmbr_packets
          /\ op' = "linkPacket" /\ new_node' = a
      BY <1>12 DEF InsertPacket, packetList
    <2>2. Cells(t)' = Range(t) \cup {a}
      BY <2>1 DEF Cells
    <2>3. Structures(t)' = T
      <3>1. Structures(t)' = {heap'[c].content : c \in Range(t) \cup {a}}
        BY <1>1, <2>2 DEF Structures
      <3> QED  BY <1>7, <3>1
    <2>4. Blocks(s, t)'
      BY <1>1, <1>2, <1>3, <1>4, <1>5, <1>6, <2>2, <2>3 DEF Shape, Blocks
    <2>5. IsPath(heap', inicio_packet', t)
      <3>1. IsPath(heap', inicio_packet, t)
        BY <1>2, <1>3, <1>8, <1>9, PathKept
      <3> QED  BY <2>1, <3>1
    <2>6. Links(s, t)'
      BY <1>1, <1>2, <1>3, <1>8, <1>9, <1>10, <2>1, <2>3, <2>5 DEF Links
    <2>7. Ends(s, t)' /\ Counts(s, t)'
      BY <1>1, <2>1 DEF Shape, Ends, Counts
    <2>8. Places(s, t)'
      BY <1>1, <1>2, <1>3, <1>12, <2>1 DEF Shape, Places
    <2>9. Shape(s, t)'
      BY <2>4, <2>6, <2>7, <2>8 DEF Shape
    <2> QED  BY <1>2, <1>12, <2>9
  <1> QED  BY <1>11, <1>12

(* The first packet goes with its structure, to make room or because the   *)
(* batch has been sent.                                                    *)
LEMMA FreeFirstPacket ==
    ASSUME NEW s, NEW t, Shape(s, t), t # <<>>, node = NULL,
           heap' = Without(heap, {inicio_packet, heap[inicio_packet].content}),
           inicio_packet' = heap[inicio_packet].next,
           op' = op, new_node' = new_node, temp' = temp, node' = node,
           final_packet' = final_packet, rawList' = rawList
    PROVE  /\ Blocks(s, Tail(t))' /\ Links(s, Tail(t))' /\ Ends(s, Tail(t))'
           /\ \A x \in DOMAIN heap' : x \in DOMAIN heap /\ heap'[x] = heap[x]
  <1> DEFINE h == inicio_packet
             p == heap[h].content
             r == Tail(t)
             T == Structures(t)
             K == IF op = "linkPacket" THEN {new_node} ELSE {}
  <1>1. inicio_buffer' = inicio_buffer /\ final_buffer' = final_buffer
        /\ nmbr_itens' = nmbr_itens
    BY DEF rawList
  <1>2. DOMAIN heap' = DOMAIN heap \ {h, p} /\ \A x \in DOMAIN heap' : heap'[x] = heap[x]
    <2>1. heap' = Without(heap, {h, p})
      OBVIOUS
    <2> HIDE DEF h, p
    <2> QED  BY <2>1, Release
  <1>3. /\ Range(s) \subseteq DOMAIN heap /\ Range(t) \subseteq DOMAIN heap
        /\ NULL \notin DOMAIN heap /\ t \in Seq(DOMAIN heap) /\ Len(t) \in Nat
        /\ inicio_buffer \in Range(s) \cup {NULL}
        /\ h \in Range(t) /\ Head(t) = h /\ final_packet = t[Len(t)]
    BY ShapeFacts
  <1>4. /\ IsPath(heap, inicio_buffer, s) /\ IsPath(heap, inicio_packet, t)
        /\ {inicio_buffer, inicio_packet} \subseteq DOMAIN heap \cup {NULL}
        /\ \A x \in DOMAIN heap : heap[x].next \in DOMAIN heap \cup {NULL}
        /\ Distinct(s) /\ Distinct(t)
        /\ op = "linkPacket" => new_node \notin Range(t)
    BY DEF Shape, Links
  <1>5. /\ Range(r) = Range(t) \ {h} /\ Distinct(r) /\ Len(r) = Len(t) - 1
        /\ r \in Seq(DOMAIN heap) /\ (r # <<>> => r[Len(r)] = t[Len(t)])
    BY <1>3, <1>4, TailMembers
  <1>6. Cells(t) = Range(t) \cup K /\ T = {heap[c].content : c \in Range(t) \cup K}
    <2>1. {node} \ {NULL} = {}
      OBVIOUS
    <2> QED  BY <2>1 DEF Cells, Structures
  <1>7. /\ DOMAIN heap = RawNodes(s) \cup Cells(t) \cup T
        /\ RawNodes(s) \cap Cells(t) = {} /\ RawNodes(s) \cap T = {} /\ Cells(t) \cap T = {}
    BY DEF Shape, Blocks
  <1>8. RawNodes(s)' = RawNodes(s)
    BY DEF RawNodes
  <1>9. Cells(r)' = (Range(t) \cup K) \ {h}
    <2>1. Cells(r)' = Range(r) \cup K
      BY DEF Cells
    <2>2. h \notin K
      BY <1>3, <1>4, SMTT(60)
    <2> HIDE DEF K
    <2> QED  BY <1>5, <2>1, <2>2
  <1> HIDE DEF K
  <1>10. p \in T /\ p # NULL /\ h \notin T
    BY <1>3, <1>6, <1>7, ZenonT(60)
  <1>11. Structures(r)' = T \ {p}
    <2>1. \A c \in (Range(t) \cup K) \ {h} :
              c \in DOMAIN heap' /\ heap'[c].content = heap[c].content
      BY <1>2, <1>6, <1>7, <1>10, ZenonT(60)
    <2>2. \A c \in (Range(t) \cup K) \ {h} : heap[c].content # p
      BY <1>3, <1>6 DEF Shape, Blocks
    <2>3. Structures(r)' = {heap'[c].content : c \in (Range(t) \cup K) \ {h}}
      BY <1>9 DEF Structures
    <2>4. Structures(r)' = {heap[c].content : c \in (Range(t) \cup K) \ {h}}
      BY <2>1, <2>3
    <2> HIDE DEF p, T
    <2>5. ASSUME NEW x \in T \ {p} PROVE x \in Structures(r)'
      <3>1. PICK c \in Range(t) \cup K : x = heap[c].content
        BY <1>6
      <3>2. c # h
        BY <2>5, <3>1 DEF p
      <3> QED  BY <2>4, <3>1, <3>2
    <2>6. ASSUME NEW x \in Structures(r)' PROVE x \in T \ {p}
      BY <1>6, <2>2, <2>4, <2>6
    <2> QED  BY <2>5, <2>6
  <1> HIDE DEF p, h
  <1>12. Blocks(s, r)'
    <2>1. /\ DOMAIN heap' \subseteq Addr
          /\ DOMAIN heap' = RawNodes(s)' \cup Cells(r)' \cup Structures(r)'
          /\ RawNodes(s)' \cap Cells(r)' = {}
          /\ RawNodes(s)' \cap Structures(r)' = {}
          /\ Cells(r)' \cap Structures(r)' = {}
      <3>1. DOMAIN heap \subseteq Addr
        BY DEF Shape, Blocks
      <3>2. h \in Cells(t)
        BY <1>3, <1>6
      <3> HIDE DEF T
      <3>3. Cells(r)' = Cells(t) \ {h}
        BY <1>6, <1>9
      <3> QED  BY <1>2, <1>7, <1>8, <1>10, <1>11, <3>1, <3>2, <3>3, ZenonT(60)
    <2>2. \A x \in DOMAIN heap' : x \in DOMAIN heap /\ heap'[x] = heap[x]
      BY <1>2
    <2>3. /\ \A c, d \in Cells(r)' : heap'[c].content = heap'[d].content => c = d
          /\ \A c \in Cells(r)' : heap'[c].content # node'
      BY <1>6, <1>9, <2>1, <2>2 DEF Shape, Blocks
    <2>4. /\ \A x \in RawNodes(s)' \cup Structures(r)' : heap'[x].content \in Frames
          /\ \A x \in DOMAIN heap' : heap'[x] = Block(heap'[x].content, heap'[x].next)
      BY <1>8, <1>11, <2>1, <2>2 DEF Shape, Blocks
    <2> QED  BY <2>1, <2>3, <2>4 DEF Blocks
  <1>13. \A x \in RawNodes(s) \cup Cells(r)' \cup (T \ {p}) :
             x \in DOMAIN heap' /\ heap'[x] = heap[x]
    BY <1>2, <1>3, <1>6, <1>7, <1>9, <1>10, ZenonT(60)
  <1>14. IsPath(heap', inicio_buffer', s) /\ IsPath(heap', inicio_packet', r)
    <2>1. NULL \notin DOMAIN heap'
      BY <1>2, <1>3
    <2>2. Range(s) \subseteq RawNodes(s) /\ Range(r) \subseteq Cells(r)'
      BY <1>5, <1>9 DEF RawNodes
    <2>3. IsPath(heap', inicio_buffer, s)
      BY <1>4, <1>13, <2>1, <2>2, PathKept
    <2>4. IsPath(heap, heap[h].next, r) /\ heap[h].next \in DOMAIN heap \cup {NULL}
      BY <1>3, <1>4, PathTail DEF h
    <2>5. IsPath(heap', heap[h].next, r)
      BY <1>4, <1>13, <2>1, <2>2, <2>4, PathKept
    <2> QED  BY <1>1, <2>3, <2>5 DEF h
  <1>15. \A x \in DOMAIN heap : heap[x].next # p
    <2>1. Range(s) \subseteq RawNodes(s)
      BY DEF RawNodes
    <2>2. p \notin Range(s) /\ p \notin Range(t)
      BY <1>6, <1>7, <1>10, <2>1
    <2>3. inicio_buffer # p
      BY <1>3, <1>10, <2>2
    <2> QED  BY <1>10, <2>2, <2>3, NextFacts, NextStays
  <1>16. \A x \in DOMAIN heap : heap[x].next # h
    <2>1. \A x \in Range(t) : heap[x].next # h
      BY <1>3, <1>5, NextFacts
    <2>2. h \notin RawNodes(s) /\ h \notin T /\ h # NULL
      BY <1>3, <1>6, <1>7
    <2>3. Range(s) \subseteq RawNodes(s)
      BY DEF RawNodes
    <2> QED  BY <1>3, <2>1, <2>2, <2>3, NextFacts, NextStays
  <1>17. Links(s, r)'
    <2>1. \A x \in DOMAIN heap' : heap'[x].next \in DOMAIN heap' \cup {NULL}
      BY <1>2, <1>4, <1>15, <1>16
    <2>2. {inicio_buffer', inicio_packet'} \subseteq DOMAIN heap' \cup {NULL}
      <3>1. Range(s) \subseteq DOMAIN heap'
        BY <1>13 DEF RawNodes
      <3>2. heap[h].next \in DOMAIN heap' \cup {NULL}
        BY <1>2, <1>3, <1>4, <1>15, <1>16
      <3> QED  BY <1>1, <1>3, <3>1, <3>2 DEF h
    <2>3. \A x \in Structures(r)' : heap'[x].next = NULL
      BY <1>11, <1>13 DEF Shape, Links
    <2>4. temp # NULL => heap'[temp].next = inicio_buffer' /\ temp \notin Range(s)
      <3>1. temp # NULL => temp \in RawNodes(s)
        BY DEF RawNodes
      <3> QED  BY <1>1, <1>13, <3>1 DEF Shape, Links
    <2>5. op = "linkItem" => new_node \notin Range(s) /\ heap'[new_node].next = NULL
      <3>1. op = "linkItem" => new_node \in RawNodes(s)
        BY DEF RawNodes
      <3> QED  BY <1>13, <3>1 DEF Shape, Links, Places
    <2>6. op = "linkPacket" => new_node \notin Range(r) /\ heap'[new_node].next = NULL
      <3>1. op = "linkPacket" => new_node \in Cells(r)'
        BY <1>3, <1>4, <1>9 DEF K
      <3> QED  BY <1>4, <1>5, <1>13, <3>1 DEF Shape, Links, Places
    <2>7. new_node # NULL => heap'[new_node].next = NULL
      BY <2>5, <2>6 DEF Shape, Places
    <2> QED  BY <1>1, <1>4, <1>5, <1>14, <2>1, <2>2, <2>3, <2>4, <2>5, <2>6, <2>7 DEF Links
  <1>18. Ends(s, r)'
    BY <1>1, <1>3, <1>5 DEF Shape, Ends
  <1> QED  BY <1>2, <1>12, <1>17, <1>18

LEMMA EvictPacketKeeps ==
    ASSUME NEW s, NEW t, Shape(s, t), EvictPacket
    PROVE  /\ t # <<>> /\ Tail(t) # <<>> /\ Shape(s, Tail(t))'
           /\ \A x \in DOMAIN heap' : x \in DOMAIN heap /\ heap'[x] = heap[x]
  <1> DEFINE r == Tail(t)
  <1>1. /\ op = "linkPacket" /\ node = NULL /\ temp # NULL /\ new_node # NULL
        /\ inicio_packet # NULL /\ nmbr_packets >= MaxPackets
        /\ heap' = Without(heap, {inicio_packet, heap[inicio_packet].content})
        /\ inicio_packet' = heap[inicio_packet].next
        /\ op' = op /\ new_node' = new_node /\ temp' = temp /\ node' = node
        /\ final_packet' = final_packet /\ rawList' = rawList
        /\ fault' = fault /\ batch' = batch /\ nmbr_packets' = nmbr_packets - 1
    <2>1. FreeFirst
      BY DEF EvictPacket
    <2>2. inicio_packet # NULL
      BY DEF EvictPacket
    <2>3. /\ heap' = Without(heap, {inicio_packet, heap[inicio_packet].content})
          /\ inicio_packet' = heap[inicio_packet].next
          /\ fault' = fault
      BY <2>1, <2>2, FirstLive DEF FreeFirst
    <2> QED  BY <2>3 DEF Shape, Places, EvictPacket
  <1>2. t # <<>> /\ t \in Seq(DOMAIN heap) /\ Len(t) \in Nat
    BY <1>1, ShapeFacts
  <1>3. /\ Blocks(s, r)' /\ Links(s, r)' /\ Ends(s, r)'
        /\ \A x \in DOMAIN heap' : x \in DOMAIN heap /\ heap'[x] = heap[x]
    BY <1>1, <1>2, FreeFirstPacket
  <1>4. Len(r) = Len(t) - 1 /\ r \in Seq(DOMAIN heap)
    BY <1>2, HeadTailProperties
  <1>5. nmbr_packets = Len(t) /\ nmbr_packets \in 0..MaxPackets
        /\ MaxPackets \in Nat /\ MaxPackets >= 2
    BY <1>1, QueueHeapAssumption DEF Shape, Counts
  <1>6. r # <<>>
    <2>1. r = <<>> => Len(r) = 0
      BY <1>4, Members
    <2> HIDE DEF r
    <2> QED  BY <1>1, <1>2, <1>4, <1>5, <2>1
  <1> HIDE DEF r
  <1>7. nmbr_itens' = nmbr_itens
    BY <1>1 DEF rawList
  <1>8. Counts(s, r)' /\ Places(s, r)'
    BY <1>1, <1>2, <1>4, <1>5, <1>6, <1>7 DEF Shape, Counts, Places
  <1>9. Shape(s, r)'
    BY <1>3, <1>8 DEF Shape
  <1> QED  BY <1>2, <1>3, <1>6, <1>9 DEF r

LEMMA FreeListNodeKeeps ==
    ASSUME NEW s, NEW t, Shape(s, t), FreeListNode
    PROVE  /\ t # <<>> /\ Shape(s, Tail(t))'
           /\ \A x \in DOMAIN heap' : x \in DOMAIN heap /\ heap'[x] = heap[x]
  <1> DEFINE r == Tail(t)
  <1>1. /\ op = "freeList" /\ node = NULL /\ temp = NULL /\ new_node = NULL
        /\ inicio_packet # NULL
        /\ heap' = Without(heap, {inicio_packet, heap[inicio_packet].content})
        /\ inicio_packet' = heap[inicio_packet].next
        /\ op' = op /\ new_node' = new_node /\ temp' = temp /\ node' = node
        /\ final_packet' = final_packet /\ rawList' = rawList
        /\ fault' = fault /\ batch' = batch /\ nmbr_packets' = nmbr_packets
    <2>1. FreeFirst
      BY DEF FreeListNode
    <2>2. inicio_packet # NULL
      BY DEF FreeListNode
    <2>3. /\ heap' = Without(heap, {inicio_packet, heap[inicio_packet].content})
          /\ inicio_packet' = heap[inicio_packet].next
          /\ fault' = fault
      BY <2>1, <2>2, FirstLive DEF FreeFirst
    <2> QED  BY <2>3 DEF Shape, Places, FreeListNode
  <1>2. t # <<>>
    BY <1>1, ShapeFacts
  <1>3. /\ Blocks(s, r)' /\ Links(s, r)' /\ Ends(s, r)'
        /\ \A x \in DOMAIN heap' : x \in DOMAIN heap /\ heap'[x] = heap[x]
    BY <1>1, <1>2, FreeFirstPacket
  <1> HIDE DEF r
  <1>4. nmbr_itens' = nmbr_itens
    BY <1>1 DEF rawList
  <1>5. Counts(s, r)' /\ Places(s, r)'
    BY <1>1, <1>4 DEF Shape, Counts, Places
  <1>6. Shape(s, r)'
    BY <1>3, <1>5 DEF Shape
  <1> QED  BY <1>2, <1>3, <1>6 DEF r

LEMMA FreeListEndKeeps ==
    ASSUME NEW s, NEW t, Shape(s, t), FreeListEnd
    PROVE  Shape(s, t)' /\ t = <<>>
  <1>1. /\ op = "freeList" /\ node = NULL /\ temp = NULL /\ new_node = NULL
        /\ inicio_packet = NULL /\ op' = "idle" /\ heap' = heap
        /\ inicio_packet' = inicio_packet /\ final_packet' = NULL
        /\ inicio_buffer' = inicio_buffer /\ final_buffer' = final_buffer
        /\ nmbr_itens' = nmbr_itens /\ nmbr_packets' = 0
        /\ new_node' = new_node /\ temp' = temp /\ node' = node
        /\ fault' = fault /\ batch' = <<>>
    BY DEF Shape, Places, FreeListEnd, rawList
  <1>2. t = <<>> /\ Len(t) = 0
    BY <1>1, ShapeFacts
  <1>3. RawNodes(s)' = RawNodes(s) /\ Cells(t)' = Cells(t)
    BY <1>1 DEF RawNodes, Cells
  <1>4. Structures(t)' = Structures(t)
    BY <1>1, <1>3 DEF Structures
  <1>5. Blocks(s, t)' /\ Links(s, t)'
    BY <1>1, <1>3, <1>4 DEF Shape, Blocks, Links
  <1>6. Ends(s, t)' /\ Counts(s, t)'
    BY <1>1, <1>2, QueueHeapAssumption DEF Shape, Ends, Counts, Pointers
  <1>7. Places(s, t)'
    BY <1>1 DEF Shape, Places
  <1> QED  BY <1>2, <1>5, <1>6, <1>7 DEF Shape

LEMMA FreeItemKeeps ==
    ASSUME NEW s, NEW t, Shape(s, t), FreeItem
    PROVE  /\ Shape(s, t)'
           /\ \A x \in DOMAIN heap' : x \in DOMAIN heap /\ heap'[x] = heap[x]
  <1> DEFINE T == Structures(t)
             b == temp
  <1>1. /\ op = "freeItem" /\ node = NULL /\ b # NULL /\ new_node = NULL
        /\ op' = "idle" /\ new_node' = new_node /\ batch' = batch
        /\ temp' = NULL /\ node' = node
        /\ inicio_buffer' = inicio_buffer
        /\ final_buffer' = final_buffer /\ nmbr_itens' = nmbr_itens - 1
        /\ inicio_packet' = inicio_packet /\ final_packet' = final_packet
        /\ nmbr_packets' = nmbr_packets
    BY DEF Shape, Places, FreeItem, packetList
  <1>2. /\ RawNodes(s) = Range(s) \cup {b} /\ Cells(t) = Range(t)
        /\ T = {heap[c].content : c \in Range(t)}
    BY <1>1 DEF RawNodes, Cells, Structures
  <1>3. /\ DOMAIN heap = RawNodes(s) \cup Range(t) \cup T
        /\ RawNodes(s) \cap Range(t) = {} /\ RawNodes(s) \cap T = {} /\ Range(t) \cap T = {}
    BY <1>2 DEF Shape, Blocks
  <1>4. heap' = Without(heap, {b}) /\ fault' = fault
    BY <1>2, <1>3 DEF FreeItem, Free, Live
  <1>5. DOMAIN heap' = DOMAIN heap \ {b} /\ \A x \in DOMAIN heap' : heap'[x] = heap[x]
    <2> HIDE DEF b
    <2> QED  BY <1>4, Release
  <1>6. /\ Range(s) \subseteq DOMAIN heap /\ Range(t) \subseteq DOMAIN heap
        /\ NULL \notin DOMAIN heap /\ Len(s) \in Nat
        /\ inicio_buffer \in Range(s) \cup {NULL} /\ inicio_packet \in Range(t) \cup {NULL}
    BY ShapeFacts
  <1>7. b \notin Range(s)
    BY <1>1 DEF Shape, Links
  <1>8. RawNodes(s)' = Range(s) /\ Cells(t)' = Range(t)
    BY <1>1 DEF RawNodes, Cells
  <1>9. T' = T
    <2>1. \A c \in Range(t) : heap'[c].content = heap[c].content
      BY <1>2, <1>3, <1>5, <1>6
    <2>2. T' = {heap'[c].content : c \in Range(t)}
      BY <1>1, <1>8 DEF Structures
    <2> QED  BY <1>2, <2>1, <2>2
  <1>10. Blocks(s, t)'
    BY <1>1, <1>2, <1>3, <1>5, <1>6, <1>7, <1>8, <1>9 DEF Shape, Blocks
  <1>11. \A x \in Range(s) \cup Range(t) \cup T : x \in DOMAIN heap' /\ heap'[x] = heap[x]
    BY <1>2, <1>3, <1>5, <1>6, <1>7
  <1>12. IsPath(heap', inicio_buffer', s) /\ IsPath(heap', inicio_packet', t)
    <2>1. /\ IsPath(heap, inicio_buffer, s) /\ IsPath(heap, inicio_packet, t)
          /\ {inicio_buffer, inicio_packet} \subseteq DOMAIN heap \cup {NULL}
          /\ \A x \in DOMAIN heap : heap[x].next \in DOMAIN heap \cup {NULL}
      BY DEF Shape, Links
    <2>2. NULL \notin DOMAIN heap'
      BY <1>5, <1>6
    <2>3. IsPath(heap', inicio_buffer, s)
      BY <1>11, <2>1, <2>2, PathKept
    <2>4. IsPath(heap', inicio_packet, t)
      BY <1>11, <2>1, <2>2, PathKept
    <2> QED  BY <1>1, <2>3, <2>4
  <1>13. Links(s, t)'
    <2>1. \A x \in DOMAIN heap' : heap'[x].next \in DOMAIN heap' \cup {NULL}
      <3>1. DOMAIN heap' = Range(s) \cup Range(t) \cup T
        BY <1>2, <1>3, <1>5, <1>7, <1>11
      <3>2. \A x \in Range(s) \cup Range(t) \cup T :
                heap[x].next \in Range(s) \cup Range(t) \cup {NULL}
        BY NextFacts, NextStays
      <3> QED  BY <1>5, <3>1, <3>2
    <2>2. {inicio_buffer', inicio_packet'} \subseteq DOMAIN heap' \cup {NULL}
      BY <1>1, <1>6, <1>11
    <2>3. \A x \in T' : heap'[x].next = NULL
      BY <1>9, <1>11 DEF Shape, Links
    <2> QED  BY <1>1, <1>12, <2>1, <2>2, <2>3 DEF Shape, Links
  <1>14. Ends(s, t)'
    BY <1>1 DEF Shape, Ends
  <1>15. Counts(s, t)'
    BY <1>1, <1>6, QueueHeapAssumption DEF Shape, Counts
  <1>16. Places(s, t)'
    BY <1>1, <1>4 DEF Shape, Places
  <1>17. Shape(s, t)'
    BY <1>10, <1>13, <1>14, <1>15, <1>16 DEF Shape
  <1> QED  BY <1>5, <1>17

LEMMA LinkPacketKeeps ==
    ASSUME NEW s, NEW t, Shape(s, t), NEW n, n = new_node, LinkPacket
    PROVE  /\ Shape(s, Append(t, n))'
           /\ DOMAIN heap' = DOMAIN heap
           /\ \A x \in DOMAIN heap : heap'[x].content = heap[x].content
  <1> DEFINE l == final_packet
             r == Append(t, n)
             T == Structures(t)
  <1>1. /\ op = "linkPacket" /\ temp # NULL /\ node = NULL /\ n # NULL /\ t # <<>>
        /\ op' = "freeItem" /\ new_node' = NULL /\ temp' = temp /\ node' = node
        /\ batch' = batch /\ final_packet' = n /\ inicio_packet' = inicio_packet
        /\ inicio_buffer' = inicio_buffer /\ final_buffer' = final_buffer
        /\ nmbr_itens' = nmbr_itens
        /\ nmbr_packets < MaxPackets /\ nmbr_packets' = nmbr_packets + 1
    BY DEF Shape, Places, LinkPacket, rawList
  <1>2. /\ t \in Seq(DOMAIN heap) /\ Len(t) \in Nat
        /\ Range(s) \subseteq DOMAIN heap /\ Range(t) \subseteq DOMAIN heap
        /\ NULL \notin DOMAIN heap
        /\ l = t[Len(t)] /\ l \in Range(t)
    BY <1>1, ShapeFacts
  <1>3. Distinct(s) /\ Distinct(t) /\ n \notin Range(t)
    BY <1>1 DEF Shape, Links
  <1>4. /\ RawNodes(s) = Range(s) \cup {temp} /\ Cells(t) = Range(t) \cup {n}
        /\ T = {heap[c].content : c \in Range(t) \cup {n}}
    BY <1>1 DEF RawNodes, Cells, Structures
  <1>5. /\ DOMAIN heap = RawNodes(s) \cup Cells(t) \cup T
        /\ RawNodes(s) \cap Cells(t) = {} /\ RawNodes(s) \cap T = {} /\ Cells(t) \cap T = {}
    BY DEF Shape, Blocks
  <1>6. fault' = fault /\ heap' = [heap EXCEPT ![l].next = n]
    BY <1>2 DEF LinkPacket, Live
  <1>7. /\ DOMAIN heap' = DOMAIN heap
        /\ heap'[l].next = n
        /\ heap'[l] = Block(heap'[l].content, heap'[l].next)
        /\ \A x \in DOMAIN heap : x # l => heap'[x] = heap[x]
        /\ \A x \in DOMAIN heap : heap'[x].content = heap[x].content
    <2>1. l \in DOMAIN heap /\ heap[l] = Block(heap[l].content, heap[l].next)
      BY <1>2 DEF Shape, Blocks
    <2> HIDE DEF l
    <2> QED  BY <1>6, <2>1, Link
  <1>8. /\ r \in Seq(DOMAIN heap) /\ r # <<>> /\ Len(r) = Len(t) + 1
        /\ r[Len(t) + 1] = n /\ Range(r) = Range(t) \cup {n} /\ Distinct(r)
    <2>1. n \in DOMAIN heap
      BY <1>4, <1>5
    <2> QED  BY <1>2, <1>3, <2>1, AppendMembers, SMTT(60)
  <1>9. RawNodes(s)' = RawNodes(s) /\ Cells(r)' = Cells(t)
    BY <1>1, <1>4, <1>8 DEF RawNodes, Cells
  <1>10. Structures(r)' = T
    <2>1. \A c \in Cells(t) : heap'[c].content = heap[c].content
      BY <1>5, <1>7
    <2>2. Structures(r)' = {heap'[c].content : c \in Cells(t)}
      BY <1>1, <1>9 DEF Structures
    <2> QED  BY <1>4, <2>1, <2>2
  <1>11. Blocks(s, r)'
    BY <1>1, <1>5, <1>7, <1>9, <1>10 DEF Shape, Blocks
  <1>12. heap[n].next = NULL /\ n # l
    BY <1>1, <1>2, <1>3, NextFacts
  <1>13. IsPath(heap', inicio_buffer', s) /\ IsPath(heap', inicio_packet', r)
    <2>1. /\ IsPath(heap, inicio_buffer, s) /\ IsPath(heap, inicio_packet, t)
          /\ inicio_buffer \in DOMAIN heap \cup {NULL}
          /\ \A x \in DOMAIN heap : heap[x].next \in DOMAIN heap \cup {NULL}
      BY SMTT(60) DEF Shape, Links
    <2>2. n \in DOMAIN heap' /\ heap'[n].next \notin DOMAIN heap'
          /\ Range(t) \subseteq DOMAIN heap' /\ NULL \notin DOMAIN heap'
      BY <1>2, <1>4, <1>5, <1>7, <1>12
    <2>3. IsPath(heap', inicio_packet, r)
      <3>1. heap'[t[Len(t)]].next = n
            /\ \A x \in Range(t) : x # t[Len(t)] => heap'[x].next = heap[x].next
        BY <1>2, <1>7
      <3> QED  BY <1>1, <1>3, <2>1, <2>2, <3>1, PathAppend, SMTT(60)
    <2>4. \A x \in Range(s) : x \in DOMAIN heap' /\ heap'[x].next = heap[x].next
      BY <1>2, <1>4, <1>5, <1>7, ZenonT(60)
    <2>5. IsPath(heap', inicio_buffer, s)
      BY <2>1, <2>2, <2>4, PathKept
    <2> QED  BY <1>1, <2>3, <2>5
  <1>14. Links(s, r)'
    <2>1. \A x \in DOMAIN heap' : heap'[x].next \in DOMAIN heap' \cup {NULL}
      BY <1>4, <1>5, <1>7, ZenonT(60) DEF Shape, Links
    <2>2. {inicio_buffer', inicio_packet'} \subseteq DOMAIN heap' \cup {NULL}
      BY <1>1, <1>7 DEF Shape, Links
    <2>3. \A x \in Structures(r)' : heap'[x].next = NULL
      <3>1. \A x \in T : x \in DOMAIN heap /\ x # l
        BY <1>2, <1>4, <1>5, ZenonT(60)
      <3>2. \A x \in T : heap[x].next = NULL
        BY NextFacts
      <3> HIDE DEF T, l
      <3> QED  BY <1>7, <1>10, <3>1, <3>2
    <2>4. heap'[temp].next = inicio_buffer /\ temp \notin Range(s)
      BY <1>1, <1>2, <1>4, <1>5, <1>7 DEF Shape, Links
    <2> QED  BY <1>1, <1>3, <1>8, <1>13, <2>1, <2>2, <2>3, <2>4 DEF Links
  <1>15. Ends(s, r)'
    <2>1. n \in Pointers
      BY <1>4, <1>5 DEF Shape, Blocks, Pointers
    <2> QED  BY <1>1, <1>8, <2>1 DEF Shape, Ends
  <1>16. Counts(s, r)'
    BY <1>1, <1>2, <1>8, QueueHeapAssumption DEF Shape, Counts
  <1>17. Places(s, r)'
    BY <1>1, <1>6 DEF Shape, Places
  <1>18. Shape(s, r)'
    BY <1>11, <1>14, <1>15, <1>16, <1>17 DEF Shape
  <1> QED  BY <1>7, <1>18

-----------------------------------------------------------------------------
(* Every pointer of such a heap leads to an end, so what Nodes collects    *)
(* from the heads are the nodes of the lists.                              *)

LEMMA PathSuffix ==
    ASSUME NEW h, NEW a, NEW s, IsPath(h, a, s), NEW i \in 1..Len(s)
    PROVE  \E u : IsPath(h, s[i], u)
  <1> DEFINE S == {n \in Nat : n + 1 \in 1..Len(s) => \E u : IsPath(h, s[n + 1], u)}
  <1>1. s \in Seq(DOMAIN h) /\ Len(s) \in Nat /\ s # <<>>
    BY PathNodes, EmptySeq DEF IsPath
  <1>2. 0 \in S
    <2>1. s[1] = a
      BY <1>1 DEF IsPath
    <2> QED  BY <2>1
  <1>3. ASSUME NEW n \in Nat, n \in S PROVE n + 1 \in S
    <2> SUFFICES ASSUME (n + 1) + 1 \in 1..Len(s)
                 PROVE  \E u : IsPath(h, s[(n + 1) + 1], u)
      BY DEF S
    <2>1. n + 1 \in 1..Len(s) /\ n + 1 < Len(s)
      BY <1>1
    <2>2. PICK u : IsPath(h, s[n + 1], u)
      BY <1>3, <2>1
    <2>3. h[s[n + 1]].next = s[(n + 1) + 1] /\ s[n + 1] \in DOMAIN h
      BY <1>1, <2>1, ElementOfSeq DEF IsPath
    <2>4. u # <<>>
      BY <2>2, <2>3, PathNodes
    <2>5. IsPath(h, h[s[n + 1]].next, Tail(u))
      BY <2>2, <2>4, PathTail
    <2> QED  BY <2>3, <2>5
  <1>4. Nat \subseteq S
    BY <1>2, <1>3, SetInduction
  <1>5. i - 1 \in Nat /\ (i - 1) + 1 = i
    BY <1>1
  <1>6. i - 1 \in S
    BY <1>4, <1>5
  <1> QED  BY <1>5, <1>6

LEMMA PathPrepend ==
    ASSUME NEW h, NEW n \in DOMAIN h, NEW u, IsPath(h, h[n].next, u), u # <<>>
    PROVE  IsPath(h, n, <<n>> \o u)
  <1> DEFINE D == DOMAIN h
             v == <<n>> \o u
             l == Len(u)
             one == <<n>>
  <1>1. u \in Seq(D) /\ h[n].next = u[1] /\ h[u[l]].next \notin D
        /\ \A i \in 1..l : i < l => h[u[i]].next = u[i + 1]
    BY DEF IsPath
  <1>2. l \in Nat \ {0}
    BY <1>1, EmptySeq
  <1>3. one \in Seq(D) /\ Len(one) = 1 /\ one[1] = n
    OBVIOUS
  <1> HIDE DEF one, D
  <1>4. /\ v \in Seq(D) /\ Len(v) = 1 + l
        /\ \A i \in 1..(1 + l) : v[i] = IF i <= 1 THEN one[i] ELSE u[i - 1]
    <2>1. /\ one \o u \in Seq(D) /\ Len(one \o u) = Len(one) + Len(u)
          /\ \A i \in 1 .. Len(one) + Len(u) : (one \o u)[i] =
                IF i <= Len(one) THEN one[i] ELSE u[i - Len(one)]
      BY <1>1, <1>3, ConcatProperties
    <2> QED  BY <1>3, <2>1 DEF one
  <1> HIDE DEF v, l
  <1>5. v[1] = n /\ v # <<>>
    <2>1. 1 \in 1..(1 + l) /\ Len(v) # 0
      BY <1>2, <1>4, SMT
    <2> QED  BY <1>3, <1>4, <2>1, EmptySeq
  <1>6. \A i \in 1..l : v[i + 1] = u[i]
    BY <1>2, <1>4
  <1>7. h[v[Len(v)]].next \notin D
    BY <1>1, <1>2, <1>4, <1>6
  <1>8. ASSUME NEW i \in 1..Len(v), i < Len(v) PROVE h[v[i]].next = v[i + 1]
    <2>1. CASE i = 1
      <3>1. v[1 + 1] = u[1]
        BY <1>2, <1>6
      <3> QED  BY <1>1, <1>5, <2>1, <3>1
    <2>2. CASE i # 1
      <3>1. i - 1 \in 1..l /\ i - 1 < l /\ (i - 1) + 1 = i /\ i \in 1..l
        BY <1>2, <1>4, <1>8, <2>2
      <3>2. v[i] = u[i - 1] /\ v[i + 1] = u[i]
        BY <1>6, <3>1
      <3> QED  BY <1>1, <3>1, <3>2
    <2> QED  BY <2>1, <2>2
  <1>9. IsPath(h, n, v)
    BY <1>4, <1>5, <1>7, <1>8 DEF IsPath, D
  <1> QED  BY <1>9 DEF v

(* The frames that the nodes of a list lead to.                            *)
Values(e, s) == [k \in 1..Len(s) |-> e[s[k]]]
FramesOf(h, s) == Values([x \in DOMAIN h |-> h[x].content], s)
PacketFramesOf(h, t) == Values([x \in DOMAIN h |-> h[h[x].content].content], t)

LEMMA ValuesInOrder ==
    ASSUME NEW S, NEW F, NEW e \in [S -> F], NEW s \in Seq(S)
    PROVE  Values(e, s) \in Seq(F)
  <1>1. Len(s) \in Nat /\ \A k \in 1..Len(s) : s[k] \in S
    BY LenProperties, ElementOfSeq
  <1>2. Values(e, s) \in [1..Len(s) -> F]
    BY <1>1 DEF Values
  <1>3. \A g, m : m \in Nat /\ g \in [1..m -> F] => g \in Seq(F)
    BY SeqDef
  <1> QED  BY <1>1, <1>2, <1>3

LEMMA ValuesLength ==
    ASSUME NEW S, NEW e, NEW s \in Seq(S)
    PROVE  Len(Values(e, s)) = Len(s)
  <1>1. Len(s) \in Nat
    BY LenProperties
  <1> QED  BY <1>1 DEF Values

LEMMA ValuesAgree ==
    ASSUME NEW S, NEW e, NEW d, NEW s \in Seq(S), \A x \in Range(s) : e[x] = d[x]
    PROVE  Values(e, s) = Values(d, s)
  <1>1. \A k \in 1..Len(s) : s[k] \in Range(s)
    BY Members
  <1> QED  BY <1>1 DEF Values

LEMMA ValuesTail ==
    ASSUME NEW S, NEW F, NEW e \in [S -> F], NEW s \in Seq(S), s # <<>>
    PROVE  /\ Values(e, s) # <<>>
           /\ Values(e, Tail(s)) = Tail(Values(e, s))
           /\ Head(Values(e, s)) = e[Head(s)]
  <1> DEFINE v == Values(e, s)
             t == Tail(s)
             u == Tail(v)
             w == Values(e, t)
  <1>1. /\ Len(s) \in Nat \ {0} /\ t \in Seq(S) /\ Len(t) = Len(s) - 1
        /\ \A i \in 1..Len(t) : t[i] = s[i + 1]
        /\ Head(s) = s[1]
    BY HeadTailProperties, EmptySeq
  <1>2. /\ v \in Seq(F) /\ Len(v) = Len(s)
        /\ w \in Seq(F) /\ Len(w) = Len(t)
    <2> HIDE DEF t
    <2>1. Values(e, s) \in Seq(F) /\ Len(Values(e, s)) = Len(s)
      BY ValuesInOrder, ValuesLength
    <2>2. Values(e, t) \in Seq(F) /\ Len(Values(e, t)) = Len(t)
      BY <1>1, ValuesInOrder, ValuesLength
    <2> QED  BY <2>1, <2>2
  <1>3. /\ \A i \in 1..Len(s) : v[i] = e[s[i]]
        /\ \A i \in 1..Len(t) : w[i] = e[t[i]]
    BY DEF Values
  <1> HIDE DEF v, t, w
  <1>4. v # <<>>
    BY <1>1, <1>2, EmptySeq
  <1>5. u \in Seq(F) /\ Len(u) = Len(v) - 1 /\ \A i \in 1..Len(u) : u[i] = v[i + 1]
        /\ Head(v) = v[1]
    BY <1>2, <1>4, HeadTailProperties
  <1> HIDE DEF u
  <1>6. ASSUME NEW i \in 1..Len(w) PROVE w[i] = u[i]
    <2>1. i \in 1..Len(t) /\ i \in 1..Len(u) /\ i + 1 \in 1..Len(s)
      BY <1>1, <1>2, <1>5, SMT
    <2> QED  BY <1>1, <1>3, <1>5, <2>1, ZenonT(60)
  <1>7. Len(w) = Len(u)
    BY <1>1, <1>2, <1>5
  <1>8. w = u
    BY <1>2, <1>5, <1>6, <1>7, SeqEqual
  <1>9. v[1] = e[s[1]]
    BY <1>1, <1>3
  <1> QED  BY <1>1, <1>4, <1>5, <1>8, <1>9 DEF v, t, u, w

LEMMA ValuesAppend ==
    ASSUME NEW S, NEW F, NEW e \in [S -> F], NEW s \in Seq(S), NEW x \in S
    PROVE  Values(e, Append(s, x)) = Append(Values(e, s), e[x])
  <1> DEFINE v == Values(e, s)
             t == Append(s, x)
             c == e[x]
             u == Append(v, c)
             w == Values(e, t)
  <1>1. /\ t \in Seq(S) /\ Len(t) = Len(s) + 1 /\ Len(s) \in Nat
        /\ \A i \in 1..Len(s) : t[i] = s[i]
        /\ t[Len(s) + 1] = x
    BY AppendMembers
  <1>2. /\ v \in Seq(F) /\ Len(v) = Len(s)
        /\ w \in Seq(F) /\ Len(w) = Len(t) /\ c \in F
    <2> HIDE DEF t
    <2>1. Values(e, s) \in Seq(F) /\ Len(Values(e, s)) = Len(s)
      BY ValuesInOrder, ValuesLength
    <2>2. Values(e, t) \in Seq(F) /\ Len(Values(e, t)) = Len(t)
      BY <1>1, ValuesInOrder, ValuesLength
    <2> QED  BY <2>1, <2>2
  <1>3. /\ \A i \in 1..Len(s) : v[i] = e[s[i]]
        /\ \A i \in 1..Len(t) : w[i] = e[t[i]]
    BY DEF Values
  <1> HIDE DEF v, t, w
  <1>4. /\ u \in Seq(F) /\ Len(u) = Len(v) + 1
        /\ \A i \in 1..Len(v) : u[i] = v[i]
        /\ u[Len(v) + 1] = c
    BY <1>2, AppendMembers
  <1> HIDE DEF u
  <1>5. ASSUME NEW i \in 1..Len(w) PROVE w[i] = u[i]
    <2>1. i \in 1..Len(t) /\ (i \in 1..Len(s) \/ i = Len(s) + 1)
      BY <1>1, <1>2, SMT
    <2> QED  BY <1>1, <1>2, <1>3, <1>4, <2>1
  <1>6. w = u
    <2>1. Len(w) = Len(u)
      BY <1>1, <1>2, <1>4
    <2> QED  BY <1>2, <1>4, <1>5, <2>1, SeqEqual
  <1> QED  BY <1>6 DEF v, t, u, w

LEMMA ValuesFew ==
    ASSUME NEW e, NEW a
    PROVE  Values(e, <<>>) = <<>> /\ Values(e, <<a>>) = Append(<<>>, e[a])
  <1>1. 1..Len(<<>>) = {} /\ 1..Len(<<a>>) = {1} /\ <<a>>[1] = a
    OBVIOUS
  <1>2. Values(e, <<>>) = <<>>
    BY <1>1 DEF Values
  <1>3. Values(e, <<a>>) = [k \in {1} |-> e[a]]
    BY <1>1 DEF Values
  <1>4. Append(<<>>, e[a]) = <<e[a]>>
    OBVIOUS
  <1>5. <<e[a]>> = [k \in {1} |-> e[a]]
    OBVIOUS
  <1> QED  BY <1>2, <1>3, <1>4, <1>5

(* The first of a sequence, put in front.                                  *)
LEMMA InFront ==
    ASSUME NEW S, NEW c \in S, NEW q \in Seq(S)
    PROVE  /\ <<c>> \o q \in Seq(S) /\ <<c>> \o q # <<>>
           /\ Head(<<c>> \o q) = c /\ Tail(<<c>> \o q) = q
           /\ q \o <<c>> = Append(q, c)
  <1> DEFINE one == <<c>>
             v == one \o q
             b == q \o one
             u == Append(q, c)
  <1>1. one \in Seq(S) /\ Len(one) = 1 /\ one[1] = c
    OBVIOUS
  <1> HIDE DEF one
  <1>2. /\ v \in Seq(S) /\ Len(v) = 1 + Len(q) /\ Len(q) \in Nat
        /\ \A i \in 1..(1 + Len(q)) : v[i] = IF i <= 1 THEN one[i] ELSE q[i - 1]
    <2>1. /\ one \o q \in Seq(S) /\ Len(one \o q) = Len(one) + Len(q)
          /\ \A i \in 1..(Len(one) + Len(q)) :
                (one \o q)[i] = IF i <= Len(one) THEN one[i] ELSE q[i - Len(one)]
      BY <1>1, ConcatProperties
    <2>2. Len(q) \in Nat
      BY LenProperties
    <2> QED  BY <1>1, <2>1, <2>2
  <1>3. /\ b \in Seq(S) /\ Len(b) = Len(q) + 1
        /\ \A i \in 1..(Len(q) + 1) : b[i] = IF i <= Len(q) THEN q[i] ELSE one[i - Len(q)]
    <2>1. /\ q \o one \in Seq(S) /\ Len(q \o one) = Len(q) + Len(one)
          /\ \A i \in 1..(Len(q) + Len(one)) :
                (q \o one)[i] = IF i <= Len(q) THEN q[i] ELSE one[i - Len(q)]
      BY <1>1, ConcatProperties
    <2> QED  BY <1>1, <2>1
  <1>4. /\ u \in Seq(S) /\ Len(u) = Len(q) + 1
        /\ \A i \in 1..Len(q) : u[i] = q[i]
        /\ u[Len(q) + 1] = c
    BY AppendMembers
  <1> HIDE DEF v, b, u
  <1>5. v # <<>> /\ v[1] = c
    <2>1. 1 \in 1..(1 + Len(q)) /\ Len(v) # 0
      BY <1>2, SMT
    <2> QED  BY <1>1, <1>2, <2>1, EmptySeq
  <1>6. Tail(v) = q
    <2> DEFINE t == Tail(v)
    <2>1. t \in Seq(S) /\ Len(t) = Len(v) - 1 /\ \A i \in 1..Len(t) : t[i] = v[i + 1]
      BY <1>2, <1>5, HeadTailProperties
    <2> HIDE DEF t
    <2>2. Len(t) = Len(q)
      BY <1>2, <2>1
    <2>3. ASSUME NEW i \in 1..Len(t) PROVE t[i] = q[i]
      <3>1. i + 1 \in 1..(1 + Len(q)) /\ ~(i + 1 <= 1) /\ (i + 1) - 1 = i
        BY <1>2, <2>2, SMT
      <3>2. v[i + 1] = q[(i + 1) - 1]
        BY <1>2, <3>1
      <3> QED  BY <2>1, <3>1, <3>2
    <2>4. t = q
      BY <2>1, <2>2, <2>3, SeqEqual
    <2> QED  BY <2>4 DEF t
  <1>7. b = u
    <2>1. ASSUME NEW i \in 1..Len(b) PROVE b[i] = u[i]
      <3>1. CASE i <= Len(q)
        <4>1. i \in 1..Len(q) /\ i \in 1..(Len(q) + 1)
          BY <1>2, <1>3, <3>1, SMT
        <4> QED  BY <1>3, <1>4, <3>1, <4>1
      <3>2. CASE ~(i <= Len(q))
        <4>1. i = Len(q) + 1 /\ i \in 1..(Len(q) + 1) /\ i - Len(q) = 1
          BY <1>2, <1>3, <3>2, SMT
        <4> QED  BY <1>1, <1>3, <1>4, <3>2, <4>1
      <3> QED  BY <3>1, <3>2
    <2> QED  BY <1>3, <1>4, <2>1, SeqEqual
  <1>8. Head(v) = c
    BY <1>5
  <1> QED  BY <1>2, <1>5, <1>6, <1>7, <1>8 DEF v, b, u, one

ListsAre(s, t) ==
    /\ Nodes(heap, inicio_buffer) = s
    /\ Nodes(heap, inicio_packet) = t
    /\ Contents(heap, inicio_buffer) = FramesOf(heap, s)
    /\ PacketContents(heap, inicio_packet) = PacketFramesOf(heap, t)
    /\ FramesOf(heap, s) \in Seq(Frames) /\ Len(FramesOf(heap, s)) = Len(s)
    /\ PacketFramesOf(heap, t) \in Seq(Frames) /\ Len(PacketFramesOf(heap, t)) = Len(t)
    /\ \A p \in Range(Contents(heap, inicio_packet)) : Live(p)

LEMMA ShapeLists == \A s, t : Shape(s, t) => ListsAre(s, t)
  <1> SUFFICES ASSUME NEW s, NEW t, Shape(s, t) PROVE ListsAre(s, t)
    OBVIOUS
  <1>1. /\ IsPath(heap, inicio_buffer, s) /\ IsPath(heap, inicio_packet, t)
        /\ {inicio_buffer, inicio_packet} \subseteq DOMAIN heap \cup {NULL}
        /\ \A x \in DOMAIN heap : heap[x].next \in DOMAIN heap \cup {NULL}
    BY DEF Shape, Links
  <1>2. DOMAIN heap \subseteq Addr /\ NULL \notin DOMAIN heap
        /\ s \in Seq(DOMAIN heap) /\ t \in Seq(DOMAIN heap)
    BY ShapeFacts DEF Shape, Blocks
  <1>3. Grounded(heap)
    <2>1. \A x \in Range(s) : \E u : IsPath(heap, x, u)
      BY <1>1, <1>2, Members, PathSuffix
    <2>2. \A x \in Range(t) : \E u : IsPath(heap, x, u)
      BY <1>1, <1>2, Members, PathSuffix
    <2>3. \A x \in DOMAIN heap : heap[x].next = NULL => \E u : IsPath(heap, x, u)
      BY <1>2, PathOfOne
    <2>4. temp # NULL /\ temp \in DOMAIN heap => \E u : IsPath(heap, temp, u)
      <3> SUFFICES ASSUME temp # NULL, temp \in DOMAIN heap
                   PROVE  \E u : IsPath(heap, temp, u)
        OBVIOUS
      <3>1. heap[temp].next = inicio_buffer
        BY NextFacts
      <3>2. CASE s = <<>>
        BY <1>1, <2>3, <3>1, <3>2, ShapeFacts
      <3>3. CASE s # <<>>
        BY <1>1, <3>1, <3>3, PathPrepend
      <3> QED  BY <3>2, <3>3
    <2>5. \A x \in DOMAIN heap : \E u : IsPath(heap, x, u)
      BY <2>1, <2>2, <2>3, <2>4, NextFacts
    <2> QED  BY <1>1, <1>2, <2>5 DEF Grounded, Pointers
  <1>4. Nodes(heap, inicio_buffer) = s /\ Nodes(heap, inicio_packet) = t
    <2>1. inicio_buffer \in Pointers /\ inicio_packet \in Pointers
      BY <1>1, <1>2 DEF Pointers
    <2> QED  BY <1>1, <1>3, <2>1, NodesArePath
  <1>5. DOMAIN s = 1..Len(s) /\ DOMAIN t = 1..Len(t) /\ Len(s) \in Nat /\ Len(t) \in Nat
    BY <1>2, LenProperties
  <1>6. /\ Contents(heap, inicio_buffer) = [k \in 1..Len(s) |-> heap[s[k]].content]
        /\ Contents(heap, inicio_packet) = [k \in 1..Len(t) |-> heap[t[k]].content]
    BY <1>4, <1>5 DEF Contents
  <1>7. /\ Contents(heap, inicio_buffer) = FramesOf(heap, s)
        /\ PacketContents(heap, inicio_packet) = PacketFramesOf(heap, t)
    <2>1. /\ \A k \in 1..Len(s) : s[k] \in DOMAIN heap
          /\ \A k \in 1..Len(t) : t[k] \in DOMAIN heap
      BY <1>2, ElementOfSeq
    <2> QED  BY <1>6, <2>1 DEF PacketContents, FramesOf, PacketFramesOf, Values
  <1>8. /\ \A k \in 1..Len(s) : heap[s[k]].content \in Frames
        /\ \A k \in 1..Len(t) : heap[t[k]].content \in Structures(t)
        /\ \A x \in Structures(t) : heap[x].content \in Frames /\ x \in DOMAIN heap
    <2>1. \A k \in 1..Len(s) : s[k] \in RawNodes(s)
      BY <1>2, Members DEF RawNodes
    <2>2. \A k \in 1..Len(t) : t[k] \in Cells(t)
      BY <1>2, Members DEF Cells
    <2>3. \A k \in 1..Len(t) : heap[t[k]].content \in Structures(t)
      BY <2>2 DEF Structures
    <2> QED  BY <2>1, <2>3 DEF Shape, Blocks
  <1>9. /\ FramesOf(heap, s) \in [1..Len(s) -> Frames]
        /\ PacketFramesOf(heap, t) \in [1..Len(t) -> Frames]
    <2>1. /\ \A k \in 1..Len(s) : s[k] \in DOMAIN heap
          /\ \A k \in 1..Len(t) : t[k] \in DOMAIN heap
      BY <1>2, ElementOfSeq
    <2> QED  BY <1>8, <2>1 DEF FramesOf, PacketFramesOf, Values
  <1>10. /\ FramesOf(heap, s) \in Seq(Frames) /\ Len(FramesOf(heap, s)) = Len(s)
         /\ PacketFramesOf(heap, t) \in Seq(Frames) /\ Len(PacketFramesOf(heap, t)) = Len(t)
    <2>1. \A g, m : m \in Nat /\ g \in [1..m -> Frames] => g \in Seq(Frames) /\ Len(g) = m
      BY SeqDef, LenProperties
    <2> QED  BY <1>5, <1>9, <2>1
  <1>11. \A p \in Range(Contents(heap, inicio_packet)) : Live(p)
    BY <1>6, <1>8 DEF Range, Live
  <1> QED  BY <1>4, <1>7, <1>10, <1>11 DEF ListsAre

LEMMA GeneratePayloadKeeps ==
    ASSUME NEW s, NEW t, Shape(s, t), GeneratePayload
    PROVE  Shape(s, t)' /\ t # <<>> /\ batch' = PacketFramesOf(heap, t)
  <1>1. ListsAre(s, t)
    BY ShapeLists
  <1>2. /\ op = "idle" /\ node = NULL /\ temp = NULL /\ new_node = NULL
        /\ inicio_packet # NULL /\ op' = "freeList" /\ heap' = heap
        /\ inicio_packet' = inicio_packet /\ final_packet' = final_packet
        /\ inicio_buffer' = inicio_buffer /\ final_buffer' = final_buffer
        /\ nmbr_itens' = nmbr_itens /\ nmbr_packets' = nmbr_packets
        /\ new_node' = new_node /\ temp' = temp /\ node' = node
    BY DEF Shape, Places, GeneratePayload, rawList, packetList
  <1>3. fault' = fault /\ batch' = PacketFramesOf(heap, t)
    <2>1. {inicio_packet} \cup {heap[n].next : n \in Range(t)} \subseteq DOMAIN heap \cup {NULL}
      BY ShapeFacts DEF Shape, Links
    <2>2. Walkable(inicio_packet)
      BY <1>1, <2>1 DEF ListsAre, Walkable
    <2> QED  BY <1>1, <2>2 DEF ListsAre, GeneratePayload
  <1>4. t # <<>> /\ Len(t) \in Nat /\ Len(t) # 0
    BY <1>2, ShapeFacts
  <1>5. RawNodes(s)' = RawNodes(s) /\ Cells(t)' = Cells(t)
    BY <1>2 DEF RawNodes, Cells
  <1>6. Structures(t)' = Structures(t)
    BY <1>2, <1>5 DEF Structures
  <1>7. Blocks(s, t)' /\ Links(s, t)'
    BY <1>2, <1>5, <1>6 DEF Shape, Blocks, Links
  <1>8. Ends(s, t)' /\ Counts(s, t)'
    BY <1>2 DEF Shape, Ends, Counts
  <1>9. batch' \in Seq(Frames) /\ Len(batch') \in 1..MaxPackets
    <2>1. Len(t) <= MaxPackets
      BY <1>2, <1>4, QueueHeapAssumption DEF Shape, Counts
    <2> QED  BY <1>1, <1>3, <1>4, <2>1, QueueHeapAssumption DEF ListsAre
  <1>10. Places(s, t)'
    BY <1>2, <1>3, <1>9 DEF Shape, Places
  <1> QED  BY <1>3, <1>4, <1>7, <1>8, <1>10 DEF Shape

-----------------------------------------------------------------------------
(* The lists have their shape in every state.                              *)

LEMMA InitShape == Init => Inv
  <1> SUFFICES ASSUME Init PROVE Shape(<<>>, <<>>)
    BY DEF Inv
  <1>1. /\ heap = << >> /\ fault = FALSE /\ op = "idle" /\ batch = <<>>
        /\ inicio_buffer = NULL /\ final_buffer = NULL /\ nmbr_itens = 0
        /\ inicio_packet = NULL /\ final_packet = NULL /\ nmbr_packets = 0
        /\ new_node = NULL /\ temp = NULL /\ node = NULL
    BY DEF Init
  <1>2. DOMAIN heap = {} /\ Range(<<>>) = {} /\ Len(<<>>) = 0
    <2>1. 1..0 = {}
      OBVIOUS
    <2> QED  BY <1>1, <2>1 DEF Range
  <1>3. RawNodes(<<>>) = {} /\ Cells(<<>>) = {}
    BY <1>1, <1>2 DEF RawNodes, Cells
  <1>4. Structures(<<>>) = {}
    BY <1>1, <1>3 DEF Structures
  <1>5. IsPath(heap, NULL, <<>>)
    BY <1>2, PathOfNothing
  <1>6. Distinct(<<>>)
    BY <1>2 DEF Distinct
  <1>7. Blocks(<<>>, <<>>)
    BY <1>2, <1>3, <1>4 DEF Blocks
  <1>8. Links(<<>>, <<>>)
    BY <1>1, <1>2, <1>4, <1>5, <1>6 DEF Links
  <1>9. Ends(<<>>, <<>>) /\ Counts(<<>>, <<>>)
    BY <1>1, <1>2, QueueHeapAssumption DEF Ends, Counts, Pointers
  <1>10. Places(<<>>, <<>>)
    BY <1>1 DEF Places
  <1> QED  BY <1>7, <1>8, <1>9, <1>10 DEF Shape

LEMMA UnchangedKeeps ==
    ASSUME NEW s, NEW t, Shape(s, t), UNCHANGED vars
    PROVE  Shape(s, t)'
  <1>1. /\ heap' = heap /\ fault' = fault /\ op' = op /\ batch' = batch
        /\ inicio_buffer' = inicio_buffer /\ final_buffer' = final_buffer
        /\ nmbr_itens' = nmbr_itens
        /\ inicio_packet' = inicio_packet /\ final_packet' = final_packet
        /\ nmbr_packets' = nmbr_packets
        /\ new_node' = new_node /\ temp' = temp /\ node' = node
    BY DEF vars, rawList, packetList
  <1>2. RawNodes(s)' = RawNodes(s) /\ Cells(t)' = Cells(t)
    BY <1>1 DEF RawNodes, Cells
  <1>3. Structures(t)' = Structures(t)
    BY <1>1, <1>2 DEF Structures
  <1>4. Blocks(s, t)' /\ Links(s, t)'
    BY <1>1, <1>2, <1>3 DEF Shape, Blocks, Links
  <1>5. Ends(s, t)' /\ Counts(s, t)' /\ Places(s, t)'
    BY <1>1 DEF Shape, Ends, Counts, Places
  <1> QED  BY <1>4, <1>5 DEF Shape

LEMMA StepShape == Inv /\ [Next]_vars => Inv'
  <1> SUFFICES ASSUME Inv, [Next]_vars PROVE Inv'
    OBVIOUS
  <1>1. PICK s, t : Shape(s, t)
    BY DEF Inv
  <1> SUFFICES \E r, u : Shape(r, u)'
    BY DEF Inv
  <1> DEFINE n == new_node
  <1>2. ASSUME NEW a \in Fresh, NEW f \in Frames, AddItem(f, a)
        PROVE  \E r, u : Shape(r, u)'
    BY <1>1, <1>2, AddItemKeeps
  <1>3. ASSUME NEW a \in Fresh, TakeItem(a) PROVE \E r, u : Shape(r, u)'
    BY <1>1, <1>3, TakeItemKeeps
  <1>4. ASSUME NEW a \in Fresh, InsertPacket(a) PROVE \E r, u : Shape(r, u)'
    BY <1>1, <1>4, InsertPacketKeeps
  <1>5. CASE EvictItem
    BY <1>1, <1>5, EvictItemKeeps
  <1>6. CASE LinkItem
    <2>1. PICK b : b = new_node
      OBVIOUS
    <2> QED  BY <1>1, <1>6, <2>1, LinkItemKeeps
  <1>7. CASE RefusePacket
    BY <1>1, <1>7, RefusePacketKeeps
  <1>8. CASE EvictPacket
    BY <1>1, <1>8, EvictPacketKeeps
  <1>9. CASE LinkPacket
    <2>1. PICK b : b = new_node
      OBVIOUS
    <2> QED  BY <1>1, <1>9, <2>1, LinkPacketKeeps
  <1>10. CASE FreeItem
    BY <1>1, <1>10, FreeItemKeeps
  <1>11. CASE GeneratePayload
    BY <1>1, <1>11, GeneratePayloadKeeps
  <1>12. CASE FreeListNode
    BY <1>1, <1>12, FreeListNodeKeeps
  <1>13. CASE FreeListEnd
    BY <1>1, <1>13, FreeListEndKeeps
  <1>14. CASE UNCHANGED vars
    BY <1>1, <1>14, UnchangedKeeps
  <1> QED
    BY <1>2, <1>3, <1>4, <1>5, <1>6, <1>7, <1>8, <1>9, <1>10, <1>11, <1>12, <1>13,
       <1>14 DEF Next

LEMMA ShapeHolds == Spec => []Inv
  BY InitShape, StepShape, PTL DEF Spec

(* The types, which bound both counters by the capacities although         *)
(* free_item uncounts the node it frees after the list has given it up,    *)
(* and a batch by the capacity of the packet list.                         *)
THEOREM TypeCorrect == Spec => []TypeOK
  <1>1. Inv => TypeOK
    <2> SUFFICES ASSUME Inv PROVE TypeOK
      OBVIOUS
    <2>1. PICK s, t : Shape(s, t)
      BY DEF Inv
    <2>2. DOMAIN heap \subseteq Addr
      BY <2>1 DEF Shape, Blocks
    <2>3. fault \in BOOLEAN
          /\ op \in {"idle", "linkItem", "parse", "linkPacket", "freeItem", "freeList"}
      BY <2>1 DEF Shape, Places
    <2>4. {inicio_buffer, final_buffer, inicio_packet, final_packet}
             \subseteq Addr \cup {NULL}
      BY <2>1, <2>2 DEF Shape, Links, Ends, Pointers
    <2>5. {new_node, temp, node} \subseteq Addr \cup {NULL}
      <3>1. (temp # NULL => temp \in RawNodes(s)) /\ (node # NULL => node \in Structures(t))
        BY DEF RawNodes, Structures
      <3>2. new_node # NULL => new_node \in RawNodes(s) \cup Cells(t)
        BY <2>1 DEF RawNodes, Cells, Shape, Places
      <3> QED  BY <2>1, <2>2, <3>1, <3>2 DEF Shape, Blocks
    <2>6. nmbr_itens \in 0..MaxItens /\ nmbr_packets \in 0..MaxPackets
      BY <2>1, ShapeFacts, QueueHeapAssumption DEF Shape, Counts
    <2>7. batch \in BoundedSeq(Frames, MaxPackets)
      <3>1. batch \in Seq(Frames) /\ Len(batch) \in 0..MaxPackets
        <4>1. CASE op = "freeList"
          BY <2>1, <4>1, QueueHeapAssumption DEF Shape, Places
        <4>2. CASE op # "freeList"
          <5>1. batch = <<>>
            BY <2>1, <4>2 DEF Shape, Places
          <5> QED  BY <5>1, EmptySeq, QueueHeapAssumption
        <4> QED  BY <4>1, <4>2
      <3>2. batch \in [1..Len(batch) -> Frames]
        BY <3>1, LenProperties
      <3> QED  BY <3>1, <3>2 DEF BoundedSeq, SeqOf
    <2> QED  BY <2>2, <2>3, <2>4, <2>5, <2>6, <2>7 DEF TypeOK
  <1> QED  BY <1>1, ShapeHolds, PTL

(* No operation of src/buffer_list.c or src/packet_list.c follows a        *)
(* pointer to a freed block, frees one twice or follows NULL: the tail     *)
(* pointers that free_item, free_list and the eviction loops leave behind  *)
(* are replaced before they are used.                                      *)
THEOREM FreedBlocksUnused == Spec => []NoDanglingUse
  <1>1. Inv => NoDanglingUse
    BY DEF Inv, Shape, Places, NoDanglingUse
  <1> QED  BY <1>1, ShapeHolds, PTL

(* Every block that is allocated can be reached from a list or from the    *)
(* operation under way, so nothing is leaked by the two lists.             *)
THEOREM NothingLeaks == Spec => []NoLeak
  <1>1. Inv => NoLeak
    <2> SUFFICES ASSUME Inv PROVE NoLeak
      OBVIOUS
    <2>1. PICK s, t : Shape(s, t)
      BY DEF Inv
    <2>2. Nodes(heap, inicio_buffer) = s /\ Nodes(heap, inicio_packet) = t
      BY <2>1, ShapeLists DEF ListsAre
    <2> DEFINE K == IF op = "linkPacket" THEN {new_node} ELSE {}
               held == {new_node, temp, node} \ {NULL}
               owned == {heap[c].content : c \in Range(t) \cup K}
    <2>3. Reachable = Range(s) \cup Range(t) \cup held \cup owned
      BY <2>2 DEF Reachable
    <2>4. DOMAIN heap = RawNodes(s) \cup Cells(t) \cup Structures(t)
      BY <2>1 DEF Shape, Blocks
    <2>5. Cells(t) = Range(t) \cup K
      BY DEF Cells
    <2>6. Structures(t) = owned \cup ({node} \ {NULL})
      BY <2>5 DEF Structures
    <2>7. RawNodes(s) \cup K = Range(s) \cup (({temp, new_node} \ {NULL}))
      BY <2>1 DEF RawNodes, Shape, Places
    <2> HIDE DEF K, owned
    <2>8. DOMAIN heap = Reachable
      BY <2>3, <2>4, <2>5, <2>6, <2>7
    <2> QED  BY <2>8 DEF NoLeak
  <1> QED  BY <1>1, ShapeHolds, PTL

-----------------------------------------------------------------------------
(* The lists are queues.                                                   *)

(* What the two queues are while each operation is under way.              *)
QueuesAre(s, t) ==
    LET F == FramesOf(heap, s)
        P == PacketFramesOf(heap, t)
    IN  /\ op \in {"idle", "freeItem", "freeList"} => RawQueue = F
        /\ op = "linkItem" =>
               RawQueue = IF nmbr_itens < MaxItens
                          THEN Append(F, heap[new_node].content) ELSE F
        /\ op = "parse" => RawQueue = <<heap[temp].content>> \o F
        /\ op = "linkPacket" =>
               RawQueue = IF nmbr_packets < MaxPackets
                          THEN F ELSE <<heap[temp].content>> \o F
        /\ op \in {"idle", "linkItem", "parse", "freeItem"} => PacketQueue = P
        /\ op = "linkPacket" =>
               PacketQueue = IF nmbr_packets < MaxPackets
                             THEN Append(P, heap[heap[new_node].content].content) ELSE P
        /\ op = "freeList" => PacketQueue = <<>>
        /\ F \in Seq(Frames) /\ Len(F) = Len(s)
        /\ P \in Seq(Frames) /\ Len(P) = Len(t)
        /\ temp # NULL => heap[temp].content \in Frames
        /\ op = "linkItem" => heap[new_node].content \in Frames
        /\ op = "linkPacket" => heap[heap[new_node].content].content \in Frames

LEMMA ShapeQueues == \A s, t : Shape(s, t) => QueuesAre(s, t)
  <1> SUFFICES ASSUME NEW s, NEW t, Shape(s, t) PROVE QueuesAre(s, t)
    OBVIOUS
  <1> DEFINE F == FramesOf(heap, s)
             P == PacketFramesOf(heap, t)
             A == heap[temp].content
             B == heap[new_node].content
             C == heap[heap[new_node].content].content
  <1>1. /\ Contents(heap, inicio_buffer) = F /\ PacketContents(heap, inicio_packet) = P
        /\ F \in Seq(Frames) /\ Len(F) = Len(s) /\ P \in Seq(Frames) /\ Len(P) = Len(t)
    BY ShapeLists DEF ListsAre
  <1>2. temp # NULL => A \in Frames
    <2>1. temp # NULL => temp \in RawNodes(s)
      BY DEF RawNodes
    <2> QED  BY <2>1 DEF Shape, Blocks
  <1>3. op = "linkItem" => B \in Frames
    <2>1. op = "linkItem" => new_node \in RawNodes(s)
      BY DEF RawNodes
    <2> QED  BY <2>1 DEF Shape, Blocks
  <1>4. op = "linkPacket" => C \in Frames
    <2>1. op = "linkPacket" => B \in Structures(t)
      BY DEF Cells, Structures
    <2> QED  BY <2>1 DEF Shape, Blocks
  <1>5. op \in {"parse", "linkPacket"} => temp # NULL
    BY DEF Shape, Places
  <1>6. nmbr_packets \in Nat /\ MaxPackets \in Nat
    BY QueueHeapAssumption DEF Shape, Counts
  <1>7. RawQueue = (IF op = "parse" \/ (op = "linkPacket" /\ nmbr_packets >= MaxPackets)
                    THEN <<A>> ELSE <<>>)
                   \o F
                   \o (IF op = "linkItem" /\ nmbr_itens < MaxItens THEN <<B>> ELSE <<>>)
    BY <1>1 DEF RawQueue
  <1>8. PacketQueue = IF op = "freeList" THEN <<>>
                      ELSE P \o (IF op = "linkPacket" /\ nmbr_packets < MaxPackets
                                 THEN <<C>> ELSE <<>>)
    BY <1>1 DEF PacketQueue
  <1> HIDE DEF F, P, A, B, C
  <1>9. F \o <<>> = F /\ <<>> \o F = F /\ P \o <<>> = P
    BY <1>1, ConcatEmptySeq
  <1>10. op \in {"idle", "freeItem", "freeList"} => RawQueue = F
    BY <1>7, <1>9, Zenon
  <1>11. op = "linkItem" =>
             RawQueue = IF nmbr_itens < MaxItens THEN Append(F, B) ELSE F
    <2> SUFFICES ASSUME op = "linkItem"
                 PROVE  RawQueue = IF nmbr_itens < MaxItens THEN Append(F, B) ELSE F
      OBVIOUS
    <2>1. op # "parse" /\ op # "linkPacket"
      OBVIOUS
    <2>2. F \o <<B>> = Append(F, B)
      BY <1>1, <1>3, InFront
    <2> QED  BY <1>7, <1>9, <2>1, <2>2, Zenon
  <1>12. op = "parse" => RawQueue = <<A>> \o F
    <2> SUFFICES ASSUME op = "parse" PROVE RawQueue = <<A>> \o F
      OBVIOUS
    <2>1. (<<A>> \o F) \o <<>> = <<A>> \o F
      <3>1. <<A>> \o F \in Seq(Frames)
        BY <1>1, <1>2, <1>5, InFront
      <3> QED  BY <3>1, ConcatEmptySeq
    <2>2. op # "linkItem"
      OBVIOUS
    <2> QED  BY <1>7, <2>1, <2>2, Zenon
  <1>13. op = "linkPacket" =>
             RawQueue = IF nmbr_packets < MaxPackets THEN F ELSE <<A>> \o F
    <2> SUFFICES ASSUME op = "linkPacket"
                 PROVE  RawQueue = IF nmbr_packets < MaxPackets THEN F ELSE <<A>> \o F
      OBVIOUS
    <2>1. (<<A>> \o F) \o <<>> = <<A>> \o F
      <3>1. <<A>> \o F \in Seq(Frames)
        BY <1>1, <1>2, <1>5, InFront
      <3> QED  BY <3>1, ConcatEmptySeq
    <2>2. op # "linkItem" /\ op # "parse"
      OBVIOUS
    <2>3. nmbr_packets >= MaxPackets <=> ~(nmbr_packets < MaxPackets)
      BY <1>6
    <2> QED  BY <1>7, <1>9, <2>1, <2>2, <2>3, Zenon
  <1>14. op \in {"idle", "linkItem", "parse", "freeItem"} => PacketQueue = P
    BY <1>8, <1>9, Zenon
  <1>15. op = "linkPacket" =>
             PacketQueue = IF nmbr_packets < MaxPackets THEN Append(P, C) ELSE P
    <2> SUFFICES ASSUME op = "linkPacket"
                 PROVE  PacketQueue = IF nmbr_packets < MaxPackets THEN Append(P, C) ELSE P
      OBVIOUS
    <2>1. P \o <<C>> = Append(P, C)
      BY <1>1, <1>4, InFront
    <2>2. op # "freeList"
      OBVIOUS
    <2> QED  BY <1>8, <1>9, <2>1, <2>2, Zenon
  <1>16. op = "freeList" => PacketQueue = <<>>
    BY <1>8, Zenon
  <1> QED
    BY <1>1, <1>2, <1>3, <1>4, <1>10, <1>11, <1>12, <1>13, <1>14, <1>15, <1>16
    DEF QueuesAre, F, P, A, B, C

LEMMA ShapeQueuesNext == \A s, t : Shape(s, t)' => QueuesAre(s, t)'
  <1>1. (\A s, t : Shape(s, t) => QueuesAre(s, t))'
    BY ShapeQueues, PTL
  <1> QED  BY <1>1

(* Blocks that stay keep what is in them.                                  *)
LEMMA FramesKept ==
    ASSUME NEW s \in Seq(DOMAIN heap), NEW t, Shape(s, t)',
           \A x \in DOMAIN heap : x \in DOMAIN heap' => heap'[x].content = heap[x].content
    PROVE  FramesOf(heap', s) = FramesOf(heap, s)
  <1>1. Range(s) \subseteq DOMAIN heap' /\ Range(s) \subseteq DOMAIN heap
    BY Members DEF Shape, Blocks, RawNodes
  <1> DEFINE e(h) == [x \in DOMAIN h |-> h[x].content]
  <1>2. \A x \in Range(s) : e(heap')[x] = e(heap)[x]
    BY <1>1
  <1> HIDE DEF e
  <1>3. Values(e(heap'), s) = Values(e(heap), s)
    BY <1>2, ValuesAgree
  <1> QED  BY <1>3 DEF FramesOf, e

LEMMA PacketFramesKept ==
    ASSUME NEW s, NEW t \in Seq(DOMAIN heap), Shape(s, t)',
           \A c \in Range(t) : heap[c].content \in DOMAIN heap,
           \A x \in DOMAIN heap : x \in DOMAIN heap' => heap'[x].content = heap[x].content
    PROVE  PacketFramesOf(heap', t) = PacketFramesOf(heap, t)
  <1>1. /\ DOMAIN heap' = RawNodes(s)' \cup Cells(t)' \cup Structures(t)'
        /\ Range(t) \subseteq Cells(t)'
        /\ \A c \in Cells(t)' : heap'[c].content \in Structures(t)'
    BY DEF Shape, Blocks, Cells, Structures
  <1>2. Range(t) \subseteq DOMAIN heap
    BY Members
  <1> DEFINE d(h) == [x \in DOMAIN h |-> h[h[x].content].content]
  <1>3. \A x \in Range(t) : d(heap')[x] = d(heap)[x]
    <2> SUFFICES ASSUME NEW x \in Range(t) PROVE d(heap')[x] = d(heap)[x]
      OBVIOUS
    <2>1. x \in DOMAIN heap /\ x \in DOMAIN heap' /\ heap'[x].content = heap[x].content
      BY <1>1, <1>2
    <2>2. heap[x].content \in DOMAIN heap /\ heap'[x].content \in DOMAIN heap'
      BY <1>1
    <2> QED  BY <2>1, <2>2
  <1> HIDE DEF d
  <1>4. Values(d(heap'), t) = Values(d(heap), t)
    BY <1>3, ValuesAgree
  <1> QED  BY <1>4 DEF PacketFramesOf, d

LEMMA FramesTail ==
    ASSUME NEW h, NEW s \in Seq(DOMAIN h), s # <<>>
    PROVE  /\ FramesOf(h, Tail(s)) = Tail(FramesOf(h, s))
           /\ Head(FramesOf(h, s)) = h[Head(s)].content
           /\ PacketFramesOf(h, Tail(s)) = Tail(PacketFramesOf(h, s))
  <1> DEFINE D == DOMAIN h
             e == [x \in D |-> h[x].content]
             d == [x \in D |-> h[h[x].content].content]
             E == {h[x].content : x \in D}
             G == {h[h[x].content].content : x \in D}
  <1>1. e \in [D -> E] /\ d \in [D -> G] /\ s \in Seq(D)
    OBVIOUS
  <1>2. Head(s) \in D
    BY HeadTailProperties
  <1>3. e[Head(s)] = h[Head(s)].content
    BY <1>2
  <1> HIDE DEF D, e, d, E, G
  <1>4. Values(e, Tail(s)) = Tail(Values(e, s)) /\ Head(Values(e, s)) = e[Head(s)]
    BY <1>1, ValuesTail, ZenonT(120)
  <1>5. Values(d, Tail(s)) = Tail(Values(d, s))
    BY <1>1, ValuesTail, ZenonT(60)
  <1> QED  BY <1>3, <1>4, <1>5 DEF FramesOf, PacketFramesOf, D, e, d

LEMMA FramesAppend ==
    ASSUME NEW h, NEW s \in Seq(DOMAIN h), NEW n \in DOMAIN h
    PROVE  /\ FramesOf(h, Append(s, n)) = Append(FramesOf(h, s), h[n].content)
           /\ PacketFramesOf(h, Append(s, n))
                 = Append(PacketFramesOf(h, s), h[h[n].content].content)
  <1> DEFINE D == DOMAIN h
             e == [x \in D |-> h[x].content]
             d == [x \in D |-> h[h[x].content].content]
             E == {h[x].content : x \in D}
             G == {h[h[x].content].content : x \in D}
  <1>1. e \in [D -> E] /\ d \in [D -> G] /\ s \in Seq(D) /\ n \in D
    OBVIOUS
  <1>2. e[n] = h[n].content /\ d[n] = h[h[n].content].content
    OBVIOUS
  <1> HIDE DEF D, e, d, E, G
  <1>3. Values(e, Append(s, n)) = Append(Values(e, s), e[n])
    BY <1>1, ValuesAppend, ZenonT(60)
  <1>4. Values(d, Append(s, n)) = Append(Values(d, s), d[n])
    BY <1>1, ValuesAppend, ZenonT(60)
  <1> QED  BY <1>2, <1>3, <1>4 DEF FramesOf, PacketFramesOf, D, e, d

LEMMA FramesFew ==
    ASSUME NEW h
    PROVE  /\ FramesOf(h, <<>>) = <<>> /\ PacketFramesOf(h, <<>>) = <<>>
           /\ \A n \in DOMAIN h :
                 /\ FramesOf(h, <<n>>) = Append(<<>>, h[n].content)
                 /\ PacketFramesOf(h, <<n>>) = Append(<<>>, h[h[n].content].content)
  <1> DEFINE e == [x \in DOMAIN h |-> h[x].content]
             d == [x \in DOMAIN h |-> h[h[x].content].content]
  <1>1. \A n \in DOMAIN h : e[n] = h[n].content /\ d[n] = h[h[n].content].content
    OBVIOUS
  <1> HIDE DEF e, d
  <1>2. Values(e, <<>>) = <<>> /\ Values(d, <<>>) = <<>>
    BY ValuesFew
  <1>3. \A n : Values(e, <<n>>) = Append(<<>>, e[n]) /\ Values(d, <<n>>) = Append(<<>>, d[n])
    BY ValuesFew, Zenon
  <1> QED  BY <1>1, <1>2, <1>3 DEF FramesOf, PacketFramesOf, e, d

(* The packet under way is a copy of the frame of the raw node taken.      *)
Copies ==
    /\ op = "parse" => heap[node].content = heap[temp].content
    /\ op = "linkPacket" => heap[heap[new_node].content].content = heap[temp].content

(* What is live before a step.                                             *)
LEMMA TailLive ==
    ASSUME NEW s, NEW t, Shape(s, t)
    PROVE  /\ s # <<>> => Tail(s) \in Seq(DOMAIN heap)
           /\ t # <<>> => /\ Tail(t) \in Seq(DOMAIN heap)
                          /\ \A c \in Range(Tail(t)) : heap[c].content \in DOMAIN heap
  <1>1. s # <<>> => Tail(s) \in Seq(DOMAIN heap)
    BY LiveFacts, HeadTailProperties
  <1>2. t # <<>> => Tail(t) \in Seq(DOMAIN heap) /\ Range(Tail(t)) \subseteq Range(t)
    BY LiveFacts, TailMembers DEF Shape, Links
  <1> QED  BY <1>1, <1>2, LiveFacts

-----------------------------------------------------------------------------
(* Every step is one of the queues, or none.                               *)

LEMMA AddItemQueues ==
    ASSUME NEW s, NEW t, Shape(s, t), NEW f \in Frames, NEW a \in Fresh, AddItem(f, a)
    PROVE  Queues!Capture(f) \/ UNCHANGED <<RawQueue, PacketQueue, batch>>
  <1>1. op = "idle" /\ batch' = batch /\ nmbr_itens = Len(s)
    BY ShapeFacts DEF Shape, Places, Counts, AddItem
  <1>2. /\ heap'[a].content = f /\ a \in DOMAIN heap'
        /\ \A x \in DOMAIN heap : heap'[x] = heap[x]
    <2>1. heap' = With(heap, a, Block(f, NULL))
      BY DEF AddItem
    <2> QED  BY <2>1, Allocation
  <1>3. QueuesAre(s, t)
    BY ShapeQueues
  <1>4. RawQueue = FramesOf(heap, s) /\ PacketQueue = PacketFramesOf(heap, t)
        /\ Len(RawQueue) = Len(s)
    BY <1>1, <1>3 DEF QueuesAre
  <1>5. CASE inicio_buffer = NULL
    <2>1. Shape(<<a>>, t)'
      BY <1>5, AddItemKeeps
    <2>2. op' = "idle"
      BY <1>1, <1>5 DEF AddItem
    <2>3. QueuesAre(<<a>>, t)'
      BY <2>1, ShapeQueuesNext
    <2>4. RawQueue' = FramesOf(heap', <<a>>) /\ PacketQueue' = PacketFramesOf(heap', t)
      BY <2>2, <2>3 DEF QueuesAre
    <2>5. PacketFramesOf(heap', t) = PacketFramesOf(heap, t)
      BY <1>2, <2>1, LiveFacts, PacketFramesKept
    <2>6. FramesOf(heap', <<a>>) = Append(<<>>, f)
      BY <1>2, FramesFew
    <2>7. s = <<>> /\ FramesOf(heap, s) = <<>> /\ Len(s) = 0
      BY <1>5, ShapeFacts, FramesFew
    <2>8. 0 < MaxItens
      BY QueueHeapAssumption
    <2>9. Queues!Push(RawQueue, MaxItens, f) = Append(<<>>, f)
      BY <1>4, <2>7, <2>8 DEF Queues!Push
    <2>10. RawQueue' = Queues!Push(RawQueue, MaxItens, f) /\ PacketQueue' = PacketQueue
      BY <1>4, <2>4, <2>5, <2>6, <2>9
    <2> QED  BY <1>1, <2>10 DEF Queues!Capture
  <1>6. CASE inicio_buffer # NULL
    <2>1. Shape(s, t)'
      BY <1>6, AddItemKeeps
    <2>2. op' = "linkItem" /\ new_node' = a /\ nmbr_itens' = nmbr_itens
      BY <1>6 DEF AddItem, rawList
    <2>3. QueuesAre(s, t)'
      BY <2>1, ShapeQueuesNext
    <2>4. /\ RawQueue' = IF nmbr_itens < MaxItens
                         THEN Append(FramesOf(heap', s), heap'[a].content)
                         ELSE FramesOf(heap', s)
          /\ PacketQueue' = PacketFramesOf(heap', t)
      BY <2>2, <2>3 DEF QueuesAre
    <2>5. /\ PacketFramesOf(heap', t) = PacketFramesOf(heap, t)
          /\ FramesOf(heap', s) = FramesOf(heap, s)
      BY <1>2, <2>1, LiveFacts, FramesKept, PacketFramesKept
    <2>6. PacketQueue' = PacketQueue
      BY <1>4, <2>4, <2>5
    <2>7. CASE nmbr_itens < MaxItens
      <3>1. RawQueue' = Append(RawQueue, f)
        BY <1>2, <1>4, <2>4, <2>5, <2>7, Zenon
      <3>2. Queues!Push(RawQueue, MaxItens, f) = Append(RawQueue, f)
        BY <1>1, <1>4, <2>7 DEF Queues!Push
      <3> QED  BY <1>1, <2>6, <3>1, <3>2 DEF Queues!Capture
    <2>8. CASE ~(nmbr_itens < MaxItens)
      <3>1. RawQueue' = RawQueue
        BY <1>4, <2>4, <2>5, <2>8
      <3> QED  BY <1>1, <2>6, <3>1
    <2> QED  BY <2>7, <2>8
  <1> QED  BY <1>5, <1>6

LEMMA EvictItemQueues ==
    ASSUME NEW s, NEW t, Shape(s, t), EvictItem
    PROVE  \E f \in Frames : Queues!Capture(f)
  <1> DEFINE r == Tail(s)
             F == FramesOf(heap, s)
  <1>1. /\ op = "linkItem" /\ op' = op /\ batch' = batch /\ new_node' = new_node
        /\ new_node # NULL /\ node = NULL /\ temp = NULL
        /\ nmbr_itens >= MaxItens /\ nmbr_itens' = nmbr_itens - 1
    BY DEF Shape, Places, EvictItem
  <1>2. nmbr_itens = Len(s) /\ nmbr_itens = MaxItens /\ MaxItens \in Nat
    BY <1>1, ShapeFacts, QueueHeapAssumption DEF Shape, Counts
  <1>3. s # <<>> /\ Shape(r, t)'
    BY EvictItemKeeps
  <1>4. \A x \in DOMAIN heap' : x \in DOMAIN heap /\ heap'[x] = heap[x]
    <2>1. heap' = Without(heap, {inicio_buffer})
      BY FirstLive DEF EvictItem, Free
    <2> QED  BY <2>1, Release
  <1>5. QueuesAre(s, t) /\ QueuesAre(r, t)'
    BY <1>3, ShapeQueues, ShapeQueuesNext
  <1>6. /\ RawQueue = F /\ PacketQueue = PacketFramesOf(heap, t)
        /\ Len(F) = Len(s) /\ heap[new_node].content \in Frames
    <2>1. ~(nmbr_itens < MaxItens)
      BY <1>2
    <2> QED  BY <1>1, <1>5, <2>1 DEF QueuesAre
  <1>7. /\ RawQueue' = Append(FramesOf(heap', r), heap'[new_node].content)
        /\ PacketQueue' = PacketFramesOf(heap', t)
    <2>1. nmbr_itens' < MaxItens
      BY <1>1, <1>2
    <2> QED  BY <1>1, <1>5, <2>1 DEF QueuesAre
  <1>8. new_node \in DOMAIN heap'
    <2>1. new_node' \in RawNodes(r)'
      BY <1>1 DEF RawNodes
    <2> QED  BY <1>1, <1>3, <2>1 DEF Shape, Blocks
  <1>9. FramesOf(heap', r) = Tail(F) /\ PacketFramesOf(heap', t) = PacketFramesOf(heap, t)
    <2>1. FramesOf(heap', r) = FramesOf(heap, r)
      BY <1>3, <1>4, TailLive, FramesKept
    <2>2. FramesOf(heap, r) = Tail(F)
      BY <1>3, LiveFacts, FramesTail
    <2>3. PacketFramesOf(heap', t) = PacketFramesOf(heap, t)
      BY <1>3, <1>4, LiveFacts, PacketFramesKept
    <2> QED  BY <2>1, <2>2, <2>3
  <1> DEFINE f == heap[new_node].content
  <1>10. RawQueue' = Append(Tail(RawQueue), f) /\ PacketQueue' = PacketQueue
    <2>1. heap'[new_node].content = f
      BY <1>4, <1>8
    <2> HIDE DEF f, F, r
    <2> QED  BY <1>6, <1>7, <1>9, <2>1
  <1>11. Queues!Push(RawQueue, MaxItens, f) = Append(Tail(RawQueue), f)
    <2>1. ~(Len(RawQueue) < MaxItens)
      <3>1. Len(RawQueue) = MaxItens
        BY <1>2, <1>6, Zenon
      <3>2. ~(MaxItens < MaxItens)
        BY <1>2, SMT
      <3> QED  BY <3>1, <3>2, Zenon
    <2> QED  BY <2>1 DEF Queues!Push
  <1>12. f \in Frames /\ Queues!Capture(f)
    BY <1>1, <1>6, <1>10, <1>11 DEF Queues!Capture
  <1> QED  BY <1>12

LEMMA LinkItemQueues ==
    ASSUME NEW s, NEW t, Shape(s, t), LinkItem
    PROVE  UNCHANGED <<RawQueue, PacketQueue, batch>>
  <1>1. PICK n : n = new_node
    OBVIOUS
  <1> DEFINE r == Append(s, n)
  <1>2. /\ op = "linkItem" /\ op' = "idle" /\ batch' = batch /\ n # NULL
        /\ nmbr_itens < MaxItens /\ s # <<>>
    BY <1>1 DEF Shape, Places, LinkItem
  <1>3. Shape(r, t)'
    BY <1>1, LinkItemKeeps
  <1>4. n \in DOMAIN heap
    BY <1>1, <1>2, LiveFacts
  <1>5. /\ DOMAIN heap' = DOMAIN heap
        /\ \A x \in DOMAIN heap : heap'[x].content = heap[x].content
    <2> DEFINE l == final_buffer
    <2>1. l \in DOMAIN heap /\ heap[l] = Block(heap[l].content, heap[l].next)
      BY <1>2, ShapeFacts DEF Shape, Blocks
    <2>2. heap' = [heap EXCEPT ![l].next = n]
      BY <1>1, <2>1 DEF LinkItem, Live
    <2> HIDE DEF l
    <2> QED  BY <2>1, <2>2, Link
  <1>6. QueuesAre(s, t) /\ QueuesAre(r, t)'
    BY <1>3, ShapeQueues, ShapeQueuesNext
  <1>7. RawQueue = Append(FramesOf(heap, s), heap[n].content)
        /\ PacketQueue = PacketFramesOf(heap, t)
    BY <1>1, <1>2, <1>6 DEF QueuesAre
  <1>8. RawQueue' = FramesOf(heap', r) /\ PacketQueue' = PacketFramesOf(heap', t)
    BY <1>2, <1>6 DEF QueuesAre
  <1>9. r \in Seq(DOMAIN heap)
    BY <1>4, LiveFacts, AppendMembers
  <1>10. FramesOf(heap', r) = FramesOf(heap, r)
    BY <1>3, <1>5, <1>9, FramesKept
  <1>11. FramesOf(heap, r) = Append(FramesOf(heap, s), heap[n].content)
    BY <1>4, LiveFacts, FramesAppend
  <1>12. PacketFramesOf(heap', t) = PacketFramesOf(heap, t)
    BY <1>3, <1>5, LiveFacts, PacketFramesKept
  <1> HIDE DEF r
  <1> QED  BY <1>2, <1>7, <1>8, <1>10, <1>11, <1>12

LEMMA TakeItemQueues ==
    ASSUME NEW s, NEW t, Shape(s, t), NEW a \in Fresh, TakeItem(a)
    PROVE  UNCHANGED <<RawQueue, PacketQueue, batch>> /\ Copies'
  <1> DEFINE r == Tail(s)
             F == FramesOf(heap, s)
             c == heap[inicio_buffer].content
  <1>1. op = "idle" /\ op' = "parse" /\ batch' = batch
    BY DEF TakeItem
  <1>2. /\ s # <<>> /\ Shape(r, t)'
        /\ heap'[temp'].content = c /\ heap'[node'].content = c
        /\ \A x \in DOMAIN heap : x \in DOMAIN heap' /\ heap'[x] = heap[x]
    BY TakeItemKeeps
  <1>3. QueuesAre(s, t) /\ QueuesAre(r, t)'
    BY <1>2, ShapeQueues, ShapeQueuesNext
  <1>4. RawQueue = F /\ PacketQueue = PacketFramesOf(heap, t) /\ F \in Seq(Frames)
        /\ Len(F) = Len(s)
    BY <1>1, <1>3 DEF QueuesAre
  <1>5. RawQueue' = <<heap'[temp'].content>> \o FramesOf(heap', r)
        /\ PacketQueue' = PacketFramesOf(heap', t)
    BY <1>1, <1>3 DEF QueuesAre
  <1>6. FramesOf(heap', r) = FramesOf(heap, r)
    BY <1>2, TailLive, FramesKept
  <1>7. FramesOf(heap, r) = Tail(F) /\ Head(F) = c
    <2>1. inicio_buffer = Head(s)
      BY <1>2, ShapeFacts
    <2> QED  BY <1>2, <2>1, LiveFacts, FramesTail
  <1>8. PacketFramesOf(heap', t) = PacketFramesOf(heap, t)
    BY <1>2, LiveFacts, PacketFramesKept
  <1> HIDE DEF F, r, c
  <1>9. F # <<>>
    BY <1>2, <1>4, ShapeFacts, EmptySeq
  <1>10. F = <<Head(F)>> \o Tail(F)
    BY <1>4, <1>9, HeadAndTail
  <1>11. RawQueue' = RawQueue
    BY <1>2, <1>4, <1>5, <1>6, <1>7, <1>10, Zenon
  <1>12. Copies'
    BY <1>1, <1>2 DEF Copies
  <1> QED  BY <1>1, <1>4, <1>5, <1>8, <1>11, <1>12

LEMMA RefusePacketQueues ==
    ASSUME NEW s, NEW t, Shape(s, t), RefusePacket
    PROVE  Queues!Discard
  <1> DEFINE F == FramesOf(heap, s)
             c == heap[temp].content
  <1>1. op = "parse" /\ op' = "freeItem" /\ batch' = batch /\ temp # NULL
    BY DEF Shape, Places, RefusePacket
  <1>2. Shape(s, t)'
    BY RefusePacketKeeps
  <1>3. \A x \in DOMAIN heap' : x \in DOMAIN heap /\ heap'[x] = heap[x]
    <2>1. node # NULL
      BY DEF Shape, Places, RefusePacket
    <2>2. heap' = Without(heap, {node})
      BY <2>1, LiveFacts DEF RefusePacket, Free, Live
    <2> QED  BY <2>2, Release
  <1>4. QueuesAre(s, t) /\ QueuesAre(s, t)'
    BY <1>2, ShapeQueues, ShapeQueuesNext
  <1>5. RawQueue = <<c>> \o F /\ PacketQueue = PacketFramesOf(heap, t)
        /\ F \in Seq(Frames) /\ c \in Frames
    BY <1>1, <1>4 DEF QueuesAre
  <1>6. RawQueue' = FramesOf(heap', s) /\ PacketQueue' = PacketFramesOf(heap', t)
    BY <1>1, <1>4 DEF QueuesAre
  <1>7. FramesOf(heap', s) = F /\ PacketFramesOf(heap', t) = PacketFramesOf(heap, t)
    BY <1>2, <1>3, LiveFacts, FramesKept, PacketFramesKept
  <1> HIDE DEF F, c
  <1>8. RawQueue # <<>> /\ Tail(RawQueue) = F
    BY <1>5, InFront
  <1>9. RawQueue' = Tail(RawQueue) /\ PacketQueue' = PacketQueue
    BY <1>5, <1>6, <1>7, <1>8
  <1> QED  BY <1>1, <1>8, <1>9 DEF Queues!Discard

LEMMA InsertPacketQueues ==
    ASSUME NEW s, NEW t, Shape(s, t), Copies, NEW a \in Fresh, InsertPacket(a)
    PROVE  /\ Queues!Forward \/ UNCHANGED <<RawQueue, PacketQueue, batch>>
           /\ Copies'
  <1> DEFINE F == FramesOf(heap, s)
             P == PacketFramesOf(heap, t)
             c == heap[temp].content
  <1>1. /\ op = "parse" /\ batch' = batch /\ temp # NULL /\ temp' = temp /\ node # NULL
        /\ nmbr_packets = Len(t)
    BY DEF Shape, Places, Counts, InsertPacket
  <1>2. /\ heap'[a].content = node /\ a \in DOMAIN heap'
        /\ \A x \in DOMAIN heap : x \in DOMAIN heap' /\ heap'[x] = heap[x]
    <2>1. heap' = With(heap, a, Block(node, NULL))
      BY DEF InsertPacket
    <2> QED  BY <2>1, Allocation
  <1>3. heap'[node].content = c /\ heap'[temp].content = c
    BY <1>1, <1>2, LiveFacts DEF Copies
  <1>4. QueuesAre(s, t)
    BY ShapeQueues
  <1>5. RawQueue = <<c>> \o F /\ PacketQueue = P
        /\ F \in Seq(Frames) /\ c \in Frames /\ P \in Seq(Frames) /\ Len(P) = Len(t)
    BY <1>1, <1>4 DEF QueuesAre
  <1>6. /\ RawQueue # <<>> /\ Head(RawQueue) = c /\ Tail(RawQueue) = F
    <2> HIDE DEF F, c
    <2> QED  BY <1>5, InFront
  <1>7. CASE inicio_packet = NULL
    <2>1. Shape(s, <<a>>)'
      BY <1>7, InsertPacketKeeps
    <2>2. op' = "freeItem"
      BY <1>7 DEF InsertPacket
    <2>3. QueuesAre(s, <<a>>)'
      BY <2>1, ShapeQueuesNext
    <2>4. RawQueue' = FramesOf(heap', s) /\ PacketQueue' = PacketFramesOf(heap', <<a>>)
      BY <2>2, <2>3 DEF QueuesAre
    <2>5. FramesOf(heap', s) = F
      BY <1>2, <2>1, LiveFacts, FramesKept
    <2>6. PacketFramesOf(heap', <<a>>) = Append(<<>>, c)
      BY <1>2, <1>3, FramesFew
    <2>7. P = <<>> /\ Len(P) = 0
      <3>1. t = <<>>
        BY <1>7, ShapeFacts
      <3> QED  BY <3>1, FramesFew, EmptySeq
    <2>8. 0 < MaxPackets
      BY QueueHeapAssumption
    <2> HIDE DEF F, P, c
    <2>9. Queues!Push(PacketQueue, MaxPackets, Head(RawQueue)) = Append(<<>>, c)
      BY <1>5, <1>6, <2>7, <2>8 DEF Queues!Push
    <2>10. Queues!Forward
      BY <1>1, <1>6, <2>4, <2>5, <2>6, <2>9 DEF Queues!Forward
    <2>11. Copies'
      BY <2>2 DEF Copies
    <2> QED  BY <2>10, <2>11
  <1>8. CASE inicio_packet # NULL
    <2>1. Shape(s, t)'
      BY <1>8, InsertPacketKeeps
    <2>2. op' = "linkPacket" /\ new_node' = a /\ nmbr_packets' = nmbr_packets
      BY <1>8 DEF InsertPacket, packetList
    <2>3. QueuesAre(s, t)'
      BY <2>1, ShapeQueuesNext
    <2>4. heap'[heap'[a].content].content = c
      BY <1>2, <1>3
    <2>5. /\ RawQueue' = IF nmbr_packets < MaxPackets THEN FramesOf(heap', s)
                         ELSE <<heap'[temp].content>> \o FramesOf(heap', s)
          /\ PacketQueue' = IF nmbr_packets < MaxPackets
                            THEN Append(PacketFramesOf(heap', t), heap'[heap'[a].content].content)
                            ELSE PacketFramesOf(heap', t)
      BY <1>1, <2>2, <2>3 DEF QueuesAre
    <2>6. FramesOf(heap', s) = F /\ PacketFramesOf(heap', t) = P
      BY <1>2, <2>1, LiveFacts, FramesKept, PacketFramesKept
    <2>7. Copies'
      BY <1>1, <1>3, <2>2, <2>4 DEF Copies
    <2> HIDE DEF F, P, c
    <2>8. CASE nmbr_packets < MaxPackets
      <3>1. RawQueue' = F /\ PacketQueue' = Append(P, c)
        BY <2>4, <2>5, <2>6, <2>8, Zenon
      <3>2. Len(PacketQueue) < MaxPackets
        BY <1>1, <1>5, <2>8
      <3>3. Queues!Push(PacketQueue, MaxPackets, Head(RawQueue)) = Append(P, c)
        BY <1>5, <1>6, <3>2 DEF Queues!Push
      <3>4. Queues!Forward
        BY <1>1, <1>6, <3>1, <3>3 DEF Queues!Forward
      <3> QED  BY <2>7, <3>4
    <2>9. CASE ~(nmbr_packets < MaxPackets)
      <3>1. RawQueue' = RawQueue /\ PacketQueue' = PacketQueue
        BY <1>3, <1>5, <2>5, <2>6, <2>9, Zenon
      <3> QED  BY <1>1, <2>7, <3>1
    <2> QED  BY <2>8, <2>9
  <1> QED  BY <1>7, <1>8

LEMMA EvictPacketQueues ==
    ASSUME NEW s, NEW t, Shape(s, t), Copies, EvictPacket
    PROVE  Queues!Forward /\ Copies'
  <1> DEFINE F == FramesOf(heap, s)
             P == PacketFramesOf(heap, t)
             c == heap[temp].content
             r == Tail(t)
  <1>1. /\ op = "linkPacket" /\ op' = op /\ batch' = batch /\ temp # NULL /\ temp' = temp
        /\ new_node' = new_node /\ new_node # NULL
        /\ nmbr_packets >= MaxPackets /\ nmbr_packets' = nmbr_packets - 1
    BY DEF Shape, Places, EvictPacket
  <1>2. nmbr_packets = Len(t) /\ nmbr_packets = MaxPackets /\ MaxPackets \in Nat
    BY <1>1, QueueHeapAssumption DEF Shape, Counts
  <1>3. /\ t # <<>> /\ Shape(s, r)'
        /\ \A x \in DOMAIN heap' : x \in DOMAIN heap /\ heap'[x] = heap[x]
    BY EvictPacketKeeps
  <1>4. /\ temp \in DOMAIN heap' /\ new_node \in DOMAIN heap'
        /\ heap'[new_node].content \in DOMAIN heap'
    <2>1. /\ temp \in RawNodes(s)' /\ new_node \in Cells(r)'
          /\ heap'[new_node].content \in Structures(r)'
      BY <1>1 DEF RawNodes, Cells, Structures
    <2> QED  BY <1>3, <2>1 DEF Shape, Blocks
  <1>5. heap'[temp].content = c /\ heap'[heap'[new_node].content].content = c
    BY <1>1, <1>3, <1>4 DEF Copies
  <1>6. Copies'
    BY <1>1, <1>5 DEF Copies
  <1>7. QueuesAre(s, t) /\ QueuesAre(s, r)'
    BY <1>3, ShapeQueues, ShapeQueuesNext
  <1>8. RawQueue = <<c>> \o F /\ PacketQueue = P
        /\ F \in Seq(Frames) /\ c \in Frames /\ Len(P) = Len(t)
    <2>1. ~(nmbr_packets < MaxPackets)
      BY <1>2
    <2> QED  BY <1>1, <1>7, <2>1 DEF QueuesAre
  <1>9. /\ RawQueue' = FramesOf(heap', s)
        /\ PacketQueue' = Append(PacketFramesOf(heap', r), heap'[heap'[new_node].content].content)
    <2>1. nmbr_packets' < MaxPackets
      BY <1>1, <1>2
    <2> QED  BY <1>1, <1>7, <2>1 DEF QueuesAre
  <1>10. FramesOf(heap', s) = F
    BY <1>3, LiveFacts, FramesKept
  <1>11. PacketFramesOf(heap', r) = Tail(P)
    <2>1. PacketFramesOf(heap', r) = PacketFramesOf(heap, r)
      BY <1>3, TailLive, PacketFramesKept
    <2>2. PacketFramesOf(heap, r) = Tail(P)
      BY <1>3, LiveFacts, FramesTail
    <2> QED  BY <2>1, <2>2
  <1> HIDE DEF F, P, c, r
  <1>12. RawQueue # <<>> /\ Head(RawQueue) = c /\ Tail(RawQueue) = F
    BY <1>8, InFront
  <1>13. Queues!Push(PacketQueue, MaxPackets, Head(RawQueue)) = Append(Tail(P), c)
    <2>1. ~(Len(PacketQueue) < MaxPackets)
      <3>1. Len(PacketQueue) = MaxPackets
        BY <1>2, <1>8, Zenon
      <3>2. ~(MaxPackets < MaxPackets)
        BY <1>2, SMT
      <3> QED  BY <3>1, <3>2, Zenon
    <2> QED  BY <1>8, <1>12, <2>1 DEF Queues!Push
  <1>14. RawQueue' = F /\ PacketQueue' = Append(Tail(P), c)
    BY <1>5, <1>9, <1>10, <1>11
  <1>15. Queues!Forward
    BY <1>1, <1>12, <1>13, <1>14 DEF Queues!Forward
  <1> QED  BY <1>6, <1>15

LEMMA LinkPacketQueues ==
    ASSUME NEW s, NEW t, Shape(s, t), LinkPacket
    PROVE  UNCHANGED <<RawQueue, PacketQueue, batch>> /\ Copies'
  <1>1. PICK n : n = new_node
    OBVIOUS
  <1> DEFINE r == Append(t, n)
             p == heap[n].content
  <1>2. /\ op = "linkPacket" /\ op' = "freeItem" /\ batch' = batch /\ n # NULL
        /\ nmbr_packets < MaxPackets
    BY <1>1 DEF Shape, Places, LinkPacket
  <1>3. /\ Shape(s, r)' /\ DOMAIN heap' = DOMAIN heap
        /\ \A x \in DOMAIN heap : heap'[x].content = heap[x].content
    BY <1>1, LinkPacketKeeps
  <1>4. n \in DOMAIN heap /\ p \in DOMAIN heap
    BY <1>1, <1>2, LiveFacts
  <1>5. QueuesAre(s, t) /\ QueuesAre(s, r)'
    BY <1>3, ShapeQueues, ShapeQueuesNext
  <1>6. RawQueue = FramesOf(heap, s)
        /\ PacketQueue = Append(PacketFramesOf(heap, t), heap[p].content)
    BY <1>1, <1>2, <1>5 DEF QueuesAre
  <1>7. RawQueue' = FramesOf(heap', s) /\ PacketQueue' = PacketFramesOf(heap', r)
    BY <1>2, <1>5 DEF QueuesAre
  <1>8. FramesOf(heap', s) = FramesOf(heap, s)
    BY <1>3, LiveFacts, FramesKept
  <1>9. /\ r \in Seq(DOMAIN heap)
        /\ \A x \in Range(r) : heap[x].content \in DOMAIN heap
    <2>1. r \in Seq(DOMAIN heap) /\ Range(r) = Range(t) \cup {n}
      BY <1>4, LiveFacts, AppendMembers
    <2> HIDE DEF r
    <2> QED  BY <1>4, <2>1, LiveFacts
  <1>10. PacketFramesOf(heap', r) = PacketFramesOf(heap, r)
    BY <1>3, <1>9, PacketFramesKept
  <1>11. PacketFramesOf(heap, r) = Append(PacketFramesOf(heap, t), heap[p].content)
    BY <1>4, LiveFacts, FramesAppend
  <1>12. Copies'
    BY <1>2 DEF Copies
  <1> HIDE DEF r, p
  <1> QED  BY <1>2, <1>6, <1>7, <1>8, <1>10, <1>11, <1>12

LEMMA FreeItemQueues ==
    ASSUME NEW s, NEW t, Shape(s, t), FreeItem
    PROVE  UNCHANGED <<RawQueue, PacketQueue, batch>>
  <1>1. op = "freeItem" /\ op' = "idle" /\ batch' = batch
    BY DEF FreeItem
  <1>2. /\ Shape(s, t)'
        /\ \A x \in DOMAIN heap' : x \in DOMAIN heap /\ heap'[x] = heap[x]
    BY FreeItemKeeps
  <1>3. QueuesAre(s, t) /\ QueuesAre(s, t)'
    BY <1>2, ShapeQueues, ShapeQueuesNext
  <1>4. /\ RawQueue = FramesOf(heap, s) /\ PacketQueue = PacketFramesOf(heap, t)
        /\ RawQueue' = FramesOf(heap', s) /\ PacketQueue' = PacketFramesOf(heap', t)
    BY <1>1, <1>3 DEF QueuesAre
  <1>5. FramesOf(heap', s) = FramesOf(heap, s) /\ PacketFramesOf(heap', t) = PacketFramesOf(heap, t)
    BY <1>2, LiveFacts, FramesKept, PacketFramesKept
  <1> QED  BY <1>1, <1>4, <1>5

LEMMA GeneratePayloadQueues ==
    ASSUME NEW s, NEW t, Shape(s, t), GeneratePayload
    PROVE  Queues!TakeBatch
  <1>1. op = "idle" /\ op' = "freeList" /\ heap' = heap
    BY DEF GeneratePayload
  <1>2. Shape(s, t)' /\ t # <<>> /\ batch' = PacketFramesOf(heap, t)
    BY GeneratePayloadKeeps
  <1>3. QueuesAre(s, t) /\ QueuesAre(s, t)'
    BY <1>2, ShapeQueues, ShapeQueuesNext
  <1>4. /\ RawQueue = FramesOf(heap, s) /\ PacketQueue = PacketFramesOf(heap, t)
        /\ RawQueue' = FramesOf(heap', s) /\ PacketQueue' = <<>>
        /\ Len(PacketQueue) = Len(t)
    BY <1>1, <1>3 DEF QueuesAre
  <1>5. PacketQueue # <<>>
    BY <1>2, <1>4, ShapeFacts, EmptySeq
  <1> QED  BY <1>1, <1>2, <1>4, <1>5 DEF Queues!TakeBatch

LEMMA FreeListNodeQueues ==
    ASSUME NEW s, NEW t, Shape(s, t), FreeListNode
    PROVE  UNCHANGED <<RawQueue, PacketQueue, batch>>
  <1> DEFINE r == Tail(t)
  <1>1. op = "freeList" /\ op' = op /\ batch' = batch
    BY DEF FreeListNode
  <1>2. /\ Shape(s, r)'
        /\ \A x \in DOMAIN heap' : x \in DOMAIN heap /\ heap'[x] = heap[x]
    BY FreeListNodeKeeps
  <1>3. QueuesAre(s, t) /\ QueuesAre(s, r)'
    BY <1>2, ShapeQueues, ShapeQueuesNext
  <1>4. /\ RawQueue = FramesOf(heap, s) /\ PacketQueue = <<>>
        /\ RawQueue' = FramesOf(heap', s) /\ PacketQueue' = <<>>
    BY <1>1, <1>3 DEF QueuesAre
  <1>5. FramesOf(heap', s) = FramesOf(heap, s)
    BY <1>2, LiveFacts, FramesKept
  <1> QED  BY <1>1, <1>4, <1>5

LEMMA FreeListEndQueues ==
    ASSUME NEW s, NEW t, Shape(s, t), FreeListEnd
    PROVE  Queues!ReleaseBatch
  <1>1. op = "freeList" /\ op' = "idle" /\ heap' = heap /\ batch' = <<>>
    BY DEF FreeListEnd
  <1>2. Shape(s, t)' /\ t = <<>>
    BY FreeListEndKeeps
  <1>3. batch # <<>>
    <2>1. Len(batch) # 0
      BY <1>1, QueueHeapAssumption DEF Shape, Places
    <2> QED  BY <2>1, EmptySeq
  <1>4. QueuesAre(s, t) /\ QueuesAre(s, t)'
    BY <1>2, ShapeQueues, ShapeQueuesNext
  <1>5. /\ RawQueue = FramesOf(heap, s) /\ PacketQueue = <<>>
        /\ RawQueue' = FramesOf(heap', s) /\ PacketQueue' = PacketFramesOf(heap', t)
    BY <1>1, <1>4 DEF QueuesAre
  <1>6. PacketQueue' = <<>>
    BY <1>2, <1>5, FramesFew
  <1> QED  BY <1>1, <1>3, <1>5, <1>6 DEF Queues!ReleaseBatch

LEMMA StepQueues ==
    ASSUME NEW s, NEW t, Shape(s, t), Copies, [Next]_vars
    PROVE  [Queues!Next]_<<RawQueue, PacketQueue, batch>> /\ Copies'
  <1> DEFINE Mapped == [Queues!Next]_<<RawQueue, PacketQueue, batch>>
  <1>1. ASSUME NEW a \in Fresh, NEW f \in Frames, AddItem(f, a) PROVE Mapped /\ Copies'
    <2>1. op' \in {"idle", "linkItem"}
      BY <1>1 DEF AddItem
    <2>2. Copies'
      BY <2>1 DEF Copies
    <2> QED  BY <1>1, <2>2, AddItemQueues DEF Queues!Next
  <1>2. ASSUME NEW a \in Fresh, TakeItem(a) PROVE Mapped /\ Copies'
    BY <1>2, TakeItemQueues
  <1>3. ASSUME NEW a \in Fresh, InsertPacket(a) PROVE Mapped /\ Copies'
    BY <1>3, InsertPacketQueues DEF Queues!Next
  <1>4. CASE EvictItem
    <2>1. Copies'
      BY <1>4 DEF Copies, EvictItem
    <2> QED  BY <1>4, <2>1, EvictItemQueues DEF Queues!Next
  <1>5. CASE LinkItem
    <2>1. Copies'
      BY <1>5 DEF Copies, LinkItem
    <2> QED  BY <1>5, <2>1, LinkItemQueues
  <1>6. CASE RefusePacket
    <2>1. Copies'
      BY <1>6 DEF Copies, RefusePacket
    <2> QED  BY <1>6, <2>1, RefusePacketQueues DEF Queues!Next
  <1>7. CASE EvictPacket
    BY <1>7, EvictPacketQueues DEF Queues!Next
  <1>8. CASE LinkPacket
    BY <1>8, LinkPacketQueues
  <1>9. CASE FreeItem
    <2>1. Copies'
      BY <1>9 DEF Copies, FreeItem
    <2> QED  BY <1>9, <2>1, FreeItemQueues
  <1>10. CASE GeneratePayload
    <2>1. Copies'
      BY <1>10 DEF Copies, GeneratePayload
    <2> QED  BY <1>10, <2>1, GeneratePayloadQueues DEF Queues!Next
  <1>11. CASE FreeListNode
    <2>1. Copies'
      BY <1>11 DEF Copies, FreeListNode
    <2> QED  BY <1>11, <2>1, FreeListNodeQueues
  <1>12. CASE FreeListEnd
    <2>1. Copies'
      BY <1>12 DEF Copies, FreeListEnd
    <2> QED  BY <1>12, <2>1, FreeListEndQueues DEF Queues!Next
  <1>13. CASE UNCHANGED vars
    <2>1. /\ heap' = heap /\ op' = op /\ temp' = temp /\ node' = node
          /\ new_node' = new_node /\ batch' = batch
          /\ inicio_buffer' = inicio_buffer /\ inicio_packet' = inicio_packet
          /\ nmbr_itens' = nmbr_itens /\ nmbr_packets' = nmbr_packets
      BY <1>13 DEF vars, rawList, packetList
    <2>2. Copies'
      BY <2>1 DEF Copies
    <2>3. RawQueue' = RawQueue /\ PacketQueue' = PacketQueue
      BY <2>1, Zenon DEF RawQueue, PacketQueue
    <2> QED  BY <2>1, <2>2, <2>3
  <1> HIDE DEF Mapped
  <1>14. Mapped /\ Copies'
    <2> DEFINE M == Mapped /\ Copies'
    <2>1. (\E a \in Fresh : \E f \in Frames : AddItem(f, a)) => M
      BY <1>1
    <2>2. (\E a \in Fresh : TakeItem(a)) => M
      BY <1>2
    <2>3. (\E a \in Fresh : InsertPacket(a)) => M
      BY <1>3
    <2>4. (EvictItem \/ LinkItem \/ RefusePacket \/ EvictPacket \/ LinkPacket
             \/ FreeItem \/ GeneratePayload \/ FreeListNode \/ FreeListEnd
             \/ UNCHANGED vars) => M
      BY <1>4, <1>5, <1>6, <1>7, <1>8, <1>9, <1>10, <1>11, <1>12, <1>13, Zenon DEF Mapped
    <2> HIDE DEF M
    <2>5. M
      BY <2>1, <2>2, <2>3, <2>4 DEF Next
    <2> QED  BY <2>5 DEF M
  <1> QED  BY <1>14 DEF Mapped

(* The linked lists, with their counters, tail pointers and working        *)
(* pointers, implement the queues that give up their oldest element when   *)
(* they are full: one step of the queues when the room has been made.      *)
THEOREM ListsImplementQueues == Spec => ImplementsQueues
  <1>1. Init => Queues!Init /\ Copies
    <2> SUFFICES ASSUME Init PROVE Queues!Init /\ Copies
      OBVIOUS
    <2>1. op = "idle" /\ batch = <<>> /\ inicio_buffer = NULL /\ inicio_packet = NULL
      BY DEF Init
    <2>2. PICK s, t : Shape(s, t)
      BY InitShape DEF Inv
    <2>3. s = <<>> /\ t = <<>> /\ QueuesAre(s, t)
      BY <2>1, <2>2, ShapeFacts, ShapeQueues
    <2>4. RawQueue = <<>> /\ PacketQueue = <<>>
      BY <2>1, <2>3, FramesFew DEF QueuesAre
    <2> QED  BY <2>1, <2>4 DEF Queues!Init, Copies
  <1>2. Inv /\ Copies /\ [Next]_vars => [Queues!Next]_(Queues!vars) /\ Copies'
    BY StepQueues DEF Inv, Queues!vars
  <1>3. Spec => []Copies
    BY <1>1, <1>2, ShapeHolds, PTL DEF Spec
  <1> QED  BY <1>1, <1>2, <1>3, ShapeHolds, PTL DEF Spec, ImplementsQueues, Queues!Spec
=============================================================================
