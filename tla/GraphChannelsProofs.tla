------------------------ MODULE GraphChannelsProofs ------------------------
(***************************************************************************)
(* Lemmas about GraphChannels that the proofs about both engines need:     *)
(* what a write, an acknowledgement and a restart leave in a channel.      *)
(***************************************************************************)
EXTENDS GraphChannels, Integers, FiniteSetTheorems, TLAPS

ChannelType == [ver : Nat, avail : BOOLEAN, seen : SUBSET Nodes]
\* A join is available when all its senders were seen; nothing else has senders.
Settled(c, h) == IF IsJoin(c) THEN h.avail <=> h.seen # {} /\ Satisfied(c, h.seen)
                              ELSE h.seen = {}
ChannelsOK(f) == f \in [Channels -> ChannelType] /\ \A c \in Channels : Settled(c, f[c])
WritesOK(b)   == IsABag(b) /\ BagToSet(b) \subseteq Channels \X Nodes
\* The part of a checkpoint that channels are rebuilt from.
SavedOK(k) ==
  /\ k.vers \in [Channels -> Nat] /\ k.seen \in [Channels -> SUBSET Nodes]
  /\ \A c \in Channels : IsJoin(c) \/ k.seen[c] = {}
  /\ WritesOK(k.writes)

\* The image of a finite set is finite.
LEMMA FiniteImage ==
  ASSUME NEW S, IsFiniteSet(S), NEW f, DOMAIN f = S
  PROVE  IsFiniteSet({f[x] : x \in S})
<1> DEFINE T == {f[x] : x \in S}
           g == [x \in S |-> f[x]]
<1>1. g \in Surjection(S, T)
  BY DEF Surjection
<1> HIDE DEF g, T
<1> QED BY <1>1, FS_Surjection DEF T

LEMMA ChannelParts ==
  ASSUME NEW c \in Channels
  PROVE  c[1] \in {"branch", "trigger", "join"} /\ Target(c) \in Nodes /\ c = <<c[1], c[2]>>
BY DEF Channels, Target

LEMMA GraphTyped ==
  ASSUME graph \in Graphs
  PROVE  /\ IsFiniteSet(Nodes) /\ Entry \in Nodes /\ Edges \subseteq Nodes \X Nodes
         /\ JoinFrom \in [Nodes -> SUBSET Nodes]
         /\ Outcomes \in [Nodes -> SUBSET OutcomeType(Nodes)]
         /\ BreakBefore \subseteq Nodes /\ BreakAfter \subseteq Nodes
         /\ IsFiniteSet(Channels) /\ Compiled \subseteq Channels
         /\ \A n \in Nodes : Writers(n) \subseteq Channels /\ Triggers(n) \subseteq Channels
<1>1. IsGraph(graph)
  BY GraphAssumption
<1>2. /\ IsFiniteSet(Nodes) /\ Entry \in Nodes /\ Edges \subseteq Nodes \X Nodes
      /\ JoinFrom \in [Nodes -> SUBSET Nodes]
      /\ Outcomes \in [Nodes -> SUBSET OutcomeType(Nodes)]
      /\ BreakBefore \subseteq Nodes /\ BreakAfter \subseteq Nodes
  BY <1>1 DEF IsGraph, Nodes, Entry, Edges, JoinFrom, Outcomes, BreakBefore, BreakAfter
<1>3. IsFiniteSet(Channels)
  <2>1. IsFiniteSet({"branch", "trigger", "join"})
    <3>1. /\ {"branch", "trigger"} = {"branch"} \cup {"trigger"}
          /\ {"branch", "trigger", "join"} = {"branch", "trigger"} \cup {"join"}
      OBVIOUS
    <3>2. IsFiniteSet({"branch"})
      BY FS_Singleton
    <3>3. IsFiniteSet({"branch"} \cup {"trigger"})
      BY <3>2, FS_AddElement
    <3>4. IsFiniteSet({"branch", "trigger"})
      BY <3>1, <3>3
    <3>5. IsFiniteSet({"branch", "trigger"} \cup {"join"})
      BY <3>4, FS_AddElement
    <3> QED BY <3>1, <3>5
  <2> QED BY <1>2, <2>1, FS_Product DEF Channels
<1>4. Compiled \subseteq Channels
  BY <1>2 DEF Compiled, Channels
<1>5. \A n \in Nodes : Writers(n) \subseteq Channels /\ Triggers(n) \subseteq Channels
  BY <1>2, <1>4 DEF Writers, Triggers, Channels
<1> QED BY <1>2, <1>3, <1>4, <1>5

\* Nodes that are triggered are nodes.
LEMMA NextNodesTyped == GetNextNodes \subseteq Nodes
BY ChannelParts DEF GetNextNodes, Available

LEMMA EmptyOK ==
  ASSUME graph \in Graphs
  PROVE  ChannelsOK([c \in Channels |-> EmptyChannel])
BY DEF ChannelsOK, ChannelType, EmptyChannel, Settled

LEMMA WriteAllOK ==
  ASSUME graph \in Graphs, ChannelsOK(chan), NEW cs, NEW n \in Nodes
  PROVE  ChannelsOK(WriteAll(cs, n))
<1> SUFFICES ASSUME NEW c \in Channels
             PROVE  WriteAll(cs, n)[c] \in ChannelType /\ Settled(c, WriteAll(cs, n)[c])
  BY DEF ChannelsOK, WriteAll
<1>1. chan[c] \in ChannelType /\ Settled(c, chan[c])
  BY DEF ChannelsOK
<1>2. WriteAll(cs, n)[c] = IF c \in cs THEN Update(c, 1, {n}) ELSE chan[c]
  BY DEF WriteAll
<1>3. Update(c, 1, {n}) \in ChannelType
  BY <1>1 DEF Update, ChannelType
<1>4. Settled(c, Update(c, 1, {n}))
  BY DEF Update, Settled
<1> QED BY <1>1, <1>2, <1>3, <1>4

LEMMA AcknowledgeOK ==
  ASSUME graph \in Graphs, ChannelsOK(chan), NEW cs
  PROVE  ChannelsOK([c \in Channels |-> IF c \in cs THEN Acknowledge(c) ELSE chan[c]])
<1>1. ASSUME NEW c \in Channels
      PROVE  Acknowledge(c) \in ChannelType /\ Settled(c, Acknowledge(c))
  <2>1. chan[c] \in ChannelType
    BY DEF ChannelsOK
  <2>2. ASSUME NEW h \in ChannelType
        PROVE  /\ [h EXCEPT !.avail = FALSE, !.seen = {}] \in ChannelType
               /\ [h EXCEPT !.avail = FALSE, !.seen = {}].avail = FALSE
               /\ [h EXCEPT !.avail = FALSE, !.seen = {}].seen = {}
    BY DEF ChannelType
  <2> QED BY <2>1, <2>2 DEF Acknowledge, Settled
<1> QED BY <1>1 DEF ChannelsOK

LEMMA PendingAllOK ==
  ASSUME WritesOK(pendW), NEW cs \in SUBSET Channels, NEW n \in Nodes
  PROVE  WritesOK(PendingAll(cs, n))
<1> DEFINE S == {<<c, n>> : c \in cs}
<1>1. S \subseteq Channels \X Nodes
  OBVIOUS
<1>2. ASSUME NEW b, WritesOK(b)
      PROVE  WritesOK(b (+) SetToBag(S))
  <2>1. DOMAIN (b (+) SetToBag(S)) = DOMAIN b \cup S
    BY DEF (+), SetToBag
  <2>2. \A e \in DOMAIN b : b[e] \in Nat /\ b[e] > 0
    BY <1>2 DEF WritesOK, IsABag
  <2>3. \A e \in DOMAIN b \cup S : (b (+) SetToBag(S))[e] \in {k \in Nat : k > 0}
    BY <2>2 DEF (+), SetToBag
  <2>4. b (+) SetToBag(S) \in [DOMAIN (b (+) SetToBag(S)) -> {k \in Nat : k > 0}]
    BY <2>1, <2>3 DEF (+), SetToBag
  <2> QED BY <1>1, <1>2, <2>1, <2>4 DEF WritesOK, IsABag, BagToSet
<1> QED BY <1>2 DEF PendingAll

LEMMA EmptyBagOK == WritesOK(EmptyBag) /\ DOMAIN EmptyBag = {}
BY DEF WritesOK, EmptyBag, SetToBag, IsABag, BagToSet

LEMMA ReplayedOK ==
  ASSUME graph \in Graphs, NEW k, SavedOK(k)
  PROVE  ChannelsOK([c \in Channels |-> Replayed(k, c)])
<1> SUFFICES ASSUME NEW c \in Channels
             PROVE  Replayed(k, c) \in ChannelType /\ Settled(c, Replayed(k, c))
  BY DEF ChannelsOK
<1> DEFINE ws == {w \in BagToSet(k.writes) : w[1] = c}
           r  == RestoredChannel(k, c)
           seen == IF IsJoin(c) THEN r.seen \cup {w[2] : w \in ws} ELSE {}
           more == Cardinality(UNION {{w} \X (1..k.writes[w]) : w \in ws})
<1>1. r \in ChannelType /\ Settled(c, r)
  BY DEF RestoredChannel, SavedOK, ChannelType, Settled
<1>2. ws \subseteq Channels \X Nodes /\ seen \in SUBSET Nodes
  <2>1. ws \subseteq Channels \X Nodes
    BY DEF SavedOK, WritesOK
  <2>2. r.seen \in SUBSET Nodes
    BY <1>1 DEF ChannelType
  <2> QED BY <2>1, <2>2
<1>3. more \in Nat
  <2>1. IsFiniteSet(Channels \X Nodes)
    BY GraphTyped, FS_Product
  <2>2. IsFiniteSet(ws)
    BY <1>2, <2>1, FS_Subset
  <2>3. \A w \in ws : IsFiniteSet({w} \X (1..k.writes[w]))
    <3> TAKE w \in ws
    <3>1. k.writes[w] \in Int
      BY DEF SavedOK, WritesOK, IsABag, BagToSet
    <3>2. \A p \in Int : IsFiniteSet(1..p)
      BY FS_Interval
    <3>3. IsFiniteSet(1..k.writes[w])
      <4> HIDE DEF ws
      <4> QED BY <3>1, <3>2, Zenon
    <3>4. IsFiniteSet({w})
      BY FS_Singleton
    <3> QED BY <3>3, <3>4, FS_Product
  <2>4. IsFiniteSet({{w} \X (1..k.writes[w]) : w \in ws})
    <3> DEFINE f == [w \in ws |-> {w} \X (1..k.writes[w])]
    <3>1. DOMAIN f = ws /\ {f[w] : w \in ws} = {{w} \X (1..k.writes[w]) : w \in ws}
      OBVIOUS
    <3>2. IsFiniteSet({f[w] : w \in ws})
      <4> HIDE DEF f, ws
      <4> QED BY <2>2, <3>1, FiniteImage
    <3> QED BY <3>1, <3>2
  <2>5. IsFiniteSet(UNION {{w} \X (1..k.writes[w]) : w \in ws})
    <3>1. \A T \in {{w} \X (1..k.writes[w]) : w \in ws} : IsFiniteSet(T)
      BY <2>3
    <3> QED BY <2>4, <3>1, FS_UNION
  <2> QED BY <2>5, FS_CardinalityType
<1>4. Replayed(k, c) = IF ws = {} \/ ~Exists(c) THEN r
                       ELSE [ver |-> r.ver + more,
                             seen |-> seen, avail |-> IsJoin(c) => Satisfied(c, seen)]
  BY DEF Replayed
<1>5. CASE ws = {} \/ ~Exists(c)
  BY <1>1, <1>4, <1>5
<1>6. CASE ~(ws = {} \/ ~Exists(c))
  <2>1. r.ver \in Nat /\ r.ver + more \in Nat
    BY <1>1, <1>3 DEF ChannelType
  <2>2. IsJoin(c) => seen # {}
    BY <1>6
  <2>3. IF IsJoin(c) THEN TRUE ELSE seen = {}
    OBVIOUS
  <2> HIDE DEF seen, more, r, ws
  <2>4. Replayed(k, c) = [ver |-> r.ver + more,
                          avail |-> IsJoin(c) => Satisfied(c, seen), seen |-> seen]
    BY <1>4, <1>6
  <2>5. (IsJoin(c) => Satisfied(c, seen)) \in BOOLEAN
    BY DEF Satisfied
  <2>6. Replayed(k, c) \in ChannelType
    BY <1>2, <2>1, <2>4, <2>5 DEF ChannelType
  <2>7. /\ Replayed(k, c).avail = (IsJoin(c) => Satisfied(c, seen))
        /\ Replayed(k, c).seen = seen
    BY <2>4
  <2>8. Settled(c, Replayed(k, c))
    BY <2>2, <2>3, <2>7 DEF Settled
  <2> QED BY <2>6, <2>8
<1> QED BY <1>5, <1>6
=============================================================================
