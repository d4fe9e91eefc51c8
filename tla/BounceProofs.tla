------------------------------ MODULE BounceProofs ------------------------------
(***************************************************************************)
(* Proofs about the data mover of a rank, for any jobs, numbers of blocks   *)
(* and bounce slots: its books agree with the chunks in flight (ChunksOK),  *)
(* and it implements TransferContract.                                      *)
(*                                                                          *)
(* The actions of pump do three things to the chunks: carry them to another *)
(* hop, retire them, start one.  The lemmas on Carried say what the first   *)
(* two keep of a set of chunks; the counters follow by cardinalities.       *)
(***************************************************************************)
EXTENDS BounceController, FiniteSetTheorems, TLAPS

InFlight(j) == ItemsIn({s \in subs : s.job = j})

\* A chunk in flight: of a job in the table, with blocks that were started, each in
\* a slot of its own; a copy does not fail, and only stores are copied or written.
ChunksFit ==
    \A s \in subs :
        /\ s.job \in jobs
        /\ DOMAIN s.at # {}
        /\ \A i \in DOMAIN s.at : i < job[s.job].next
        /\ \A a, b \in DOMAIN s.at : s.at[a] = s.at[b] => a = b
        /\ s.hop \in {"g2b", "write"} <=> s.job \in Store
        /\ s.hop \in {"g2b", "b2g"} => s.end # "bad"

\* Two chunks have neither a slot nor a block in common.
Apart ==
    \A s, t \in subs : s # t => SlotsOf(s) \cap SlotsOf(t) = {} /\ ItemsOf(s) \cap ItemsOf(t) = {}

\* A slot is free or in a chunk, not both.
SlotsShared ==
    /\ \A s \in subs : SlotsOf(s) \cap free = {}
    /\ \A b \in Slot \ free : \E s \in subs : b \in SlotsOf(s)

\* The blocks started are counted or in flight; a job leaves the table at its end.
Counted ==
    \A j \in Job :
        /\ job[j].next <= NumItems[j] + 1
        /\ j \in jobs => job[j].next > 0 /\ job[j].done + Cardinality(InFlight(j)) + 1 = job[j].next
        /\ j \notin jobs => job[j].next \in {0, NumItems[j] + 1}

\* What became of the blocks whose transfer has ended.
Outcomes ==
    /\ moved \subseteq EndedItems
    /\ failed \cup invalid \subseteq EndedItems \ moved
    /\ \A p \in EndedItems : p[1] \notin Store => p \in moved \cup failed \cup invalid
    /\ \A j \in Job : job[j].failed <=> \E p \in EndedItems \ moved : p[1] = j
    /\ \A r \in results \cup reported :
          job[r[1]].next > 0 /\ r[1] \notin jobs /\ r[2] = ~job[r[1]].failed

BounceInv == TypeOK /\ ChunksFit /\ Apart /\ SlotsShared /\ Counted /\ Outcomes

----------------------------------------------------------------------------
(* Chunks *)

LEMMA IndexType == Index \subseteq Nat \ {0}
  BY BounceConstants DEF BounceConstants, Index

LEMMA SubFacts ==
    ASSUME NEW s \in Sub
    PROVE  /\ s.job \in Job
           /\ DOMAIN s.at \subseteq Index /\ \A i \in DOMAIN s.at : s.at[i] \in Slot
           /\ s.hop \in {"g2b", "write", "read", "b2g"} /\ s.end \in {"running", "ok", "bad"}
           /\ s = Chunk(s.job, s.at, s.hop, s.end)
  <1>1. /\ s.job \in Job /\ s.at \in UNION {[I -> Slot] : I \in SUBSET Index}
        /\ s.hop \in {"g2b", "write", "read", "b2g"} /\ s.end \in {"running", "ok", "bad"}
        /\ s = Chunk(s.job, s.at, s.hop, s.end)
    BY DEF Sub, Chunk
  <1>2. PICK I \in SUBSET Index : s.at \in [I -> Slot]
    BY <1>1
  <1> QED BY <1>1, <1>2

LEMMA ChunkFacts ==
    ASSUME NEW j, NEW at, NEW hop, NEW end
    PROVE  /\ Chunk(j, at, hop, end).job = j /\ Chunk(j, at, hop, end).at = at
           /\ Chunk(j, at, hop, end).hop = hop /\ Chunk(j, at, hop, end).end = end
  BY DEF Chunk

LEMMA ChunkType ==
    ASSUME NEW j \in Job, NEW I \in SUBSET Index, NEW at \in [I -> Slot],
           NEW hop \in {"g2b", "write", "read", "b2g"}, NEW end \in {"running", "ok", "bad"}
    PROVE  Chunk(j, at, hop, end) \in Sub
  <1>1. at \in UNION {[J -> Slot] : J \in SUBSET Index}
    OBVIOUS
  <1> QED BY <1>1 DEF Chunk, Sub

LEMMA RehopType ==
    ASSUME NEW s \in Sub,
           NEW hop \in {"g2b", "write", "read", "b2g"}, NEW end \in {"running", "ok", "bad"}
    PROVE  Chunk(s.job, s.at, hop, end) \in Sub
  BY DEF Chunk, Sub

\* u is the chunk v, in whatever hop.
Same(u, v) == u.job = v.job /\ u.at = v.at

LEMMA SameFacts ==
    ASSUME NEW u, NEW v, Same(u, v)
    PROVE  ItemsOf(u) = ItemsOf(v) /\ SlotsOf(u) = SlotsOf(v)
  BY DEF Same, ItemsOf, SlotsOf

\* The chunks after a step are those before it, in whatever hop, without those of R.
Carried(R) ==
    /\ \A u \in subs' : \E v \in subs \ R : Same(u, v)
    /\ \A v \in subs \ R : \E u \in subs' : Same(u, v)
    /\ \A u, v \in subs' : Same(u, v) => u = v

\* A chunk that starts at a block has it to itself.
LEMMA ApartSame ==
    ASSUME ChunksFit, Apart, NEW s \in subs, NEW t \in subs, Same(s, t)
    PROVE  s = t
  <1>1. PICK i \in DOMAIN s.at : TRUE
    BY DEF ChunksFit
  <1>2. s.at[i] \in SlotsOf(s) /\ SlotsOf(s) = SlotsOf(t)
    BY SameFacts DEF SlotsOf
  <1> QED BY <1>2 DEF Apart

\* Retiring is carrying the others.
LEMMA RetiredCarried ==
    ASSUME ChunksFit, Apart, NEW R \in SUBSET subs, subs' = subs \ R
    PROVE  Carried(R)
  <1>1. \A u \in subs \ R : Same(u, u)
    BY DEF Same
  <1>2. \A u, v \in subs : Same(u, v) => u = v
    BY ApartSame
  <1> QED BY <1>1, <1>2 DEF Carried

\* So is letting the chunks N of a set of chunks go on.
LEMMA RehopCarried ==
    ASSUME ChunksFit, Apart, NEW R \in SUBSET subs, NEW N \in SUBSET subs, NEW M,
           R \cap N = {}, subs' = (subs \ (R \cup N)) \cup M,
           \A u \in M : \E v \in N : Same(u, v),
           \A v \in N : \E u \in M : Same(u, v),
           \A u, v \in M : Same(u, v) => u = v
    PROVE  Carried(R)
  <1>1. ASSUME NEW u \in subs' PROVE \E v \in subs \ R : Same(u, v)
    <2>1. CASE u \in M
      BY <2>1
    <2>2. CASE u \in subs \ (R \cup N)
      BY <2>2 DEF Same
    <2> QED BY <2>1, <2>2
  <1>2. ASSUME NEW v \in subs \ R PROVE \E u \in subs' : Same(u, v)
    <2>1. CASE v \in N
      BY <2>1
    <2>2. CASE v \notin N
      BY <2>2 DEF Same
    <2> QED BY <2>1, <2>2
  <1>3. ASSUME NEW u \in subs', NEW v \in subs', Same(u, v) PROVE u = v
    <2>1. ASSUME NEW x \in M, NEW y \in subs \ (R \cup N) PROVE ~Same(x, y)
      <3>1. PICK z \in N : Same(x, z)
        OBVIOUS
      <3>2. Same(x, y) => Same(y, z)
        BY <3>1 DEF Same
      <3> QED BY <3>2, ApartSame
    <2>2. Same(v, u)
      BY <1>3 DEF Same
    <2> QED BY <1>3, <2>1, <2>2, ApartSame
  <1> QED BY <1>1, <1>2, <1>3 DEF Carried

----------------------------------------------------------------------------
(* Blocks in flight and blocks that have ended *)

LEMMA Numbers ==
    ASSUME TypeOK, NEW j \in Job
    PROVE  NumItems[j] \in Nat /\ NumItems[j] > 0 /\ job[j].next \in Nat /\ job[j].done \in Nat
  BY BounceConstants DEF BounceConstants, TypeOK

LEMMA ItemsInFacts ==
    ASSUME NEW S, NEW p
    PROVE  p \in ItemsIn(S) <=> \E s \in S : p \in ItemsOf(s)
  BY DEF ItemsIn

LEMMA FlightItems ==
    ASSUME TypeOK, ChunksFit, Counted, NEW s \in subs
    PROVE  /\ ItemsOf(s) # {}
           /\ \A p \in ItemsOf(s) : p \in Item /\ p[1] = s.job /\ p[2] < job[s.job].next
                                    /\ p[2] \in 1..NumItems[s.job]
                                    /\ p = <<s.job, p[2]>>
  <1>1. s \in Sub /\ s.job \in Job /\ DOMAIN s.at \subseteq Index
    BY SubFacts DEF TypeOK
  <1>2. ASSUME NEW i \in DOMAIN s.at
        PROVE  i \in Nat /\ i > 0 /\ i <= NumItems[s.job] /\ i < job[s.job].next
    <2>1. i \in Nat /\ i > 0
      <3>1. i \in Nat \ {0}
        BY <1>1, IndexType
      <3> QED BY <3>1
    <2>2. i < job[s.job].next /\ job[s.job].next <= NumItems[s.job] + 1
      BY <1>1 DEF ChunksFit, Counted
    <2>3. job[s.job].next \in Nat /\ NumItems[s.job] \in Nat
      BY <1>1, Numbers
    <2> QED BY <2>1, <2>2, <2>3
  <1>3. \A i \in DOMAIN s.at : <<s.job, i>> \in Item
    BY <1>1, <1>2 DEF Item
  <1>4. \E i \in DOMAIN s.at : TRUE
    BY DEF ChunksFit
  <1>5. NumItems[s.job] \in Nat
    BY <1>1, Numbers
  <1>6. ItemsOf(s) # {}
    BY <1>4 DEF ItemsOf
  <1>7. ASSUME NEW p \in ItemsOf(s)
        PROVE  /\ p \in Item /\ p[1] = s.job /\ p[2] < job[s.job].next
               /\ p[2] \in 1..NumItems[s.job] /\ p = <<s.job, p[2]>>
    <2>1. PICK i \in DOMAIN s.at : p = <<s.job, i>>
      BY DEF ItemsOf
    <2> QED BY <1>2, <1>3, <1>5, <2>1
  <1> QED BY <1>6, <1>7

\* The blocks of a job in flight are finitely many.
LEMMA FlightFinite ==
    ASSUME TypeOK, ChunksFit, Counted, NEW j \in Job, NEW S \in SUBSET subs,
           \A s \in S : s.job = j
    PROVE  IsFiniteSet(ItemsIn(S)) /\ Cardinality(ItemsIn(S)) \in Nat
  <1>1. ItemsIn(S) \subseteq {j} \X (1..NumItems[j])
    BY FlightItems DEF ItemsIn
  <1>2. IsFiniteSet({j}) /\ IsFiniteSet(1..NumItems[j])
    <2>1. 1 \in Int /\ NumItems[j] \in Int
      BY Numbers
    <2> QED BY <2>1, FS_Singleton, FS_Interval
  <1>3. IsFiniteSet({j} \X (1..NumItems[j]))
    BY <1>2, FS_Product
  <1> QED BY <1>1, <1>3, FS_Subset, FS_CardinalityType

\* What is retired and what is carried on add up.
LEMMA FlightSplits ==
    ASSUME TypeOK, ChunksFit, Counted, Apart, NEW j \in Job, NEW R \in SUBSET subs
    PROVE  /\ Count(R, j) \in Nat
           /\ Cardinality(ItemsIn({s \in subs \ R : s.job = j})) \in Nat
           /\ Cardinality(InFlight(j)) =
                 Count(R, j) + Cardinality(ItemsIn({s \in subs \ R : s.job = j}))
           /\ Cardinality(ItemsIn({s \in subs \ R : s.job = j})) = 0 =>
                 \A s \in subs \ R : s.job # j
  <1> DEFINE A == {s \in R : s.job = j}
             B == {s \in subs \ R : s.job = j}
  <1>1. /\ IsFiniteSet(ItemsIn(A)) /\ Cardinality(ItemsIn(A)) \in Nat
        /\ IsFiniteSet(ItemsIn(B)) /\ Cardinality(ItemsIn(B)) \in Nat
    BY FlightFinite
  <1>2. InFlight(j) = ItemsIn(A) \cup ItemsIn(B)
    BY DEF InFlight, ItemsIn
  <1>3. ItemsIn(A) \cap ItemsIn(B) = {}
    BY DEF Apart, ItemsIn
  <1>4. Cardinality(InFlight(j)) = Cardinality(ItemsIn(A)) + Cardinality(ItemsIn(B))
    <2> HIDE DEF A, B
    <2>1. Cardinality(ItemsIn(A) \cup ItemsIn(B)) =
             Cardinality(ItemsIn(A)) + Cardinality(ItemsIn(B)) - Cardinality(ItemsIn(A) \cap ItemsIn(B))
      BY <1>1, FS_Union
    <2>2. Cardinality(ItemsIn(A) \cap ItemsIn(B)) = 0
      BY <1>3, FS_EmptySet
    <2> QED BY <1>1, <1>2, <2>1, <2>2
  <1>5. ASSUME Cardinality(ItemsIn(B)) = 0, NEW s \in subs \ R, s.job = j PROVE FALSE
    <2>1. ItemsIn(B) = {}
      BY <1>1, <1>5, FS_EmptySet
    <2>2. s \in B
      BY <1>5
    <2>3. PICK p \in ItemsOf(s) : TRUE
      BY FlightItems
    <2> QED BY <2>1, <2>2, <2>3, ItemsInFacts
  <1> QED BY <1>1, <1>4, <1>5 DEF Count

LEMMA CarriedFlight ==
    ASSUME NEW R \in SUBSET subs, Carried(R), NEW j
    PROVE  InFlight(j)' = ItemsIn({s \in subs \ R : s.job = j})
  <1>1. InFlight(j)' = ItemsIn({u \in subs' : u.job = j})
    BY DEF InFlight, ItemsIn, ItemsOf
  <1>2. ASSUME NEW u \in subs', u.job = j, NEW p \in ItemsOf(u)
        PROVE  \E s \in {v \in subs \ R : v.job = j} : p \in ItemsOf(s)
    <2>1. PICK v \in subs \ R : Same(u, v)
      BY DEF Carried
    <2> QED BY <1>2, <2>1, SameFacts DEF Same
  <1>3. ASSUME NEW v \in subs \ R, v.job = j, NEW p \in ItemsOf(v)
        PROVE  \E s \in {u \in subs' : u.job = j} : p \in ItemsOf(s)
    <2>1. PICK u \in subs' : Same(u, v)
      BY DEF Carried
    <2> QED BY <1>3, <2>1, SameFacts DEF Same
  <1> QED BY <1>1, <1>2, <1>3 DEF ItemsIn

\* The blocks of what is retired, and no others, come to their end.
LEMMA CarriedEnded ==
    ASSUME TypeOK, ChunksFit, Counted, Apart, NEW R \in SUBSET subs, Carried(R),
           \A j \in Job : job'[j].next = job[j].next
    PROVE  /\ EndedItems' = EndedItems \cup ItemsIn(R)
           /\ EndedItems \cap ItemsIn(R) = {}
  <1>1. EndedItems' = {p \in Item : p[2] < job[p[1]].next /\ \A u \in subs' : p \notin ItemsOf(u)}
    <2>1. \A p \in Item : p[1] \in Job
      BY DEF Item
    <2> QED BY <2>1 DEF EndedItems, ItemsOf
  <1>2. ASSUME NEW p
        PROVE  (\A u \in subs' : p \notin ItemsOf(u)) <=> (\A v \in subs \ R : p \notin ItemsOf(v))
    BY SameFacts DEF Carried
  <1>3. ASSUME NEW p \in ItemsIn(R)
        PROVE  p \in Item /\ p[2] < job[p[1]].next /\ \A v \in subs \ R : p \notin ItemsOf(v)
    <2>1. PICK s \in R : p \in ItemsOf(s)
      BY DEF ItemsIn
    <2>2. p \in Item /\ p[1] = s.job /\ p[2] < job[s.job].next
      BY <2>1, FlightItems
    <2>3. \A v \in subs \ R : p \notin ItemsOf(v)
      BY <2>1 DEF Apart
    <2> QED BY <2>2, <2>3
  <1>4. EndedItems \cap ItemsIn(R) = {}
    BY DEF EndedItems, ItemsIn
  <1>5. ASSUME NEW p \in Item
        PROVE  (\A v \in subs : p \notin ItemsOf(v)) <=>
                  (p \notin ItemsIn(R) /\ \A v \in subs \ R : p \notin ItemsOf(v))
    BY DEF ItemsIn
  <1> QED BY <1>1, <1>2, <1>3, <1>4, <1>5 DEF EndedItems

----------------------------------------------------------------------------
(* Chunks that are carried on or retired *)

LEMMA RetireJobs ==
    ASSUME TypeOK, ChunksFit, Counted, Apart, NEW R \in SUBSET subs, Retire(R), NEW j \in Job
    PROVE  /\ job'[j].next = job[j].next /\ job'[j].done = job[j].done + Count(R, j)
           /\ job'[j].failed = Failed(R, j)
           /\ job'[j] \in [next : Nat, done : Nat, failed : BOOLEAN, older : SUBSET Job]
  <1>1. job'[j] = [next |-> job[j].next, done |-> job[j].done + Count(R, j),
                   failed |-> Failed(R, j),
                   older |-> {i \in job[j].older : Over(R) \cap {i, j} = {}}]
    BY DEF Retire
  <1>2. Count(R, j) \in Nat
    BY FlightSplits
  <1>3. job[j] \in [next : Nat, done : Nat, failed : BOOLEAN, older : SUBSET Job]
    BY DEF TypeOK
  <1>4. Failed(R, j) \in BOOLEAN
    BY <1>3 DEF Failed
  <1> QED BY <1>1, <1>2, <1>3, <1>4

\* A job that is over has no chunk left.
LEMMA RetireCounted ==
    ASSUME TypeOK, ChunksFit, Counted, Apart, NEW R \in SUBSET subs, Carried(R), Retire(R),
           NEW j \in Job
    PROVE  /\ job'[j].next <= NumItems[j] + 1
           /\ j \in jobs' => /\ job'[j].next > 0
                             /\ job'[j].done + Cardinality(InFlight(j)') + 1 = job'[j].next
           /\ j \notin jobs' => job'[j].next \in {0, NumItems[j] + 1}
           /\ j \in jobs \ jobs' => \A s \in subs \ R : s.job # j
  <1>1. job'[j].next = job[j].next /\ job'[j].done = job[j].done + Count(R, j)
    BY RetireJobs
  <1>2. PICK rest : rest = Cardinality(InFlight(j)')
    OBVIOUS
  <1>3. rest = Cardinality(ItemsIn({s \in subs \ R : s.job = j}))
    BY <1>2, CarriedFlight
  <1>4. /\ Count(R, j) \in Nat /\ rest \in Nat
        /\ Cardinality(InFlight(j)) = Count(R, j) + rest
        /\ rest = 0 => \A s \in subs \ R : s.job # j
    BY <1>3, FlightSplits
  <1>5. NumItems[j] \in Nat /\ job[j].next \in Nat /\ job[j].done \in Nat
    BY Numbers
  <1>6. /\ job[j].next <= NumItems[j] + 1
        /\ j \in jobs => job[j].next > 0 /\ job[j].done + Cardinality(InFlight(j)) + 1 = job[j].next
        /\ j \notin jobs => job[j].next \in {0, NumItems[j] + 1}
    BY DEF Counted
  <1>7. CASE j \notin jobs
    <2>1. j \notin jobs'
      BY <1>7 DEF Retire
    <2> QED BY <1>1, <1>6, <1>7, <2>1
  <1>8. CASE j \in jobs /\ j \in jobs'
    <2>1. job[j].done + (Count(R, j) + rest) + 1 = job[j].next
      BY <1>4, <1>6, <1>8
    <2>2. job'[j].done + rest + 1 = job'[j].next
      BY <1>1, <1>4, <1>5, <2>1
    <2> QED BY <1>1, <1>2, <1>6, <1>8, <2>2
  <1>9. CASE j \in jobs /\ j \notin jobs'
    <2>1. job[j].done + Count(R, j) = NumItems[j]
      BY <1>9 DEF Retire, Over
    <2>2. job[j].done + (Count(R, j) + rest) + 1 = job[j].next
      BY <1>4, <1>6, <1>9
    <2>3. rest = 0 /\ job[j].next = NumItems[j] + 1
      BY <1>4, <1>5, <1>6, <2>1, <2>2
    <2> QED BY <1>1, <1>4, <1>6, <1>9, <2>3
  <1> QED BY <1>7, <1>8, <1>9

LEMMA CarriedApart ==
    ASSUME Apart, NEW R \in SUBSET subs, Carried(R)
    PROVE  Apart'
  <1> SUFFICES ASSUME NEW u \in subs', NEW w \in subs', u # w
               PROVE  SlotsOf(u) \cap SlotsOf(w) = {} /\ ItemsOf(u) \cap ItemsOf(w) = {}
    BY DEF Apart, SlotsOf, ItemsOf
  <1>1. PICK s \in subs \ R : Same(u, s)
    BY DEF Carried
  <1>2. PICK t \in subs \ R : Same(w, t)
    BY DEF Carried
  <1>3. s # t
    <2>1. s = t => Same(u, w)
      BY <1>1, <1>2 DEF Same
    <2> QED BY <2>1 DEF Carried
  <1> QED BY <1>1, <1>2, <1>3, SameFacts DEF Apart

LEMMA RetireSlots ==
    ASSUME Apart, SlotsShared, NEW R \in SUBSET subs, Carried(R), Retire(R)
    PROVE  SlotsShared'
  <1>1. free' = free \cup UNION {SlotsOf(s) : s \in R}
    BY DEF Retire, Freed
  <1>2. ASSUME NEW u \in subs' PROVE SlotsOf(u) \cap free' = {}
    <2>1. PICK v \in subs \ R : Same(u, v)
      BY DEF Carried
    <2>2. SlotsOf(v) \cap free = {} /\ \A s \in R : SlotsOf(s) \cap SlotsOf(v) = {}
      BY DEF SlotsShared, Apart
    <2> QED BY <1>1, <2>1, <2>2, SameFacts
  <1>3. ASSUME NEW b \in Slot \ free' PROVE \E u \in subs' : b \in SlotsOf(u)
    <2>1. PICK s \in subs : b \in SlotsOf(s)
      BY <1>1, <1>3 DEF SlotsShared
    <2>2. s \notin R
      BY <1>1, <1>3, <2>1
    <2>3. PICK u \in subs' : Same(u, s)
      BY <2>2 DEF Carried
    <2> QED BY <2>1, <2>3, SameFacts
  <1> QED BY <1>2, <1>3 DEF SlotsShared, SlotsOf

LEMMA RetireChunks ==
    ASSUME TypeOK, ChunksFit, Counted, Apart, NEW R \in SUBSET subs, Carried(R), Retire(R),
           subs' \subseteq Sub,
           \A u \in subs' : /\ u.hop \in {"g2b", "write"} <=> u.job \in Store
                            /\ u.hop \in {"g2b", "b2g"} => u.end # "bad"
    PROVE  ChunksFit'
  <1> SUFFICES ASSUME NEW u \in subs'
               PROVE  /\ u.job \in jobs'
                      /\ DOMAIN u.at # {}
                      /\ \A i \in DOMAIN u.at : i < job'[u.job].next
                      /\ \A a, b \in DOMAIN u.at : u.at[a] = u.at[b] => a = b
    BY DEF ChunksFit
  <1>1. PICK v \in subs \ R : Same(u, v)
    BY DEF Carried
  <1>2. u.job = v.job /\ u.at = v.at /\ v.job \in jobs /\ v.job \in Job
    BY <1>1, SubFacts DEF Same, ChunksFit, TypeOK
  <1>3. v.job \in jobs'
    BY <1>2, RetireCounted
  <1>4. job'[v.job].next = job[v.job].next
    BY <1>2, RetireJobs
  <1> QED BY <1>2, <1>3, <1>4 DEF ChunksFit

\* The blocks of the chunks of R that are not in G.
LEMMA RetiredOutcome ==
    ASSUME Apart, NEW R \in SUBSET subs, NEW G \in SUBSET R
    PROVE  ItemsIn(R) \ ItemsIn(G) = ItemsIn(R \ G) /\ ItemsIn(R \ G) \cap ItemsIn(G) = {}
  <1>1. ItemsIn(R \ G) \cap ItemsIn(G) = {}
    BY DEF Apart, ItemsIn
  <1> QED BY <1>1 DEF ItemsIn

\* A phase of pump retires the chunks R, of which those of G succeeded and those of
\* F are reads that failed.
PhaseOf(R, G, F) ==
    /\ R \subseteq subs /\ G \subseteq R /\ F \subseteq R \ G
    /\ Carried(R) /\ Retire(R)
    /\ \A s \in R : s.end = "bad" <=> s \notin G
    /\ \A s \in R \ G : s.job \in Store \/ s \in F
    /\ moved' = moved \cup ItemsIn(G) /\ failed' = failed \cup ItemsIn(F)
    /\ UNCHANGED <<flushing, reported, invalid>>
    /\ phase' \in {"idle", "copies", "writes", "reads", "loads", "start"}
    /\ subs' \subseteq Sub
    /\ \A u \in subs' : /\ u.hop \in {"g2b", "write"} <=> u.job \in Store
                        /\ u.hop \in {"g2b", "b2g"} => u.end # "bad"

LEMMA PhaseOutcomes ==
    ASSUME BounceInv, NEW R, NEW G, NEW F, PhaseOf(R, G, F)
    PROVE  Outcomes' /\ EndedItems' = EndedItems \cup ItemsIn(R)
           /\ moved' \ moved \subseteq EndedItems' \ EndedItems
  <1>0. /\ TypeOK /\ ChunksFit /\ Counted /\ Apart /\ Outcomes
        /\ R \in SUBSET subs /\ G \in SUBSET R /\ F \in SUBSET (R \ G) /\ Carried(R) /\ Retire(R)
        /\ moved' = moved \cup ItemsIn(G) /\ failed' = failed \cup ItemsIn(F)
        /\ UNCHANGED <<reported, invalid>>
    BY DEF BounceInv, PhaseOf
  <1>1. \A j \in Job : job'[j].next = job[j].next /\ job'[j].failed = Failed(R, j)
    BY <1>0, RetireJobs
  <1>2. EndedItems' = EndedItems \cup ItemsIn(R) /\ EndedItems \cap ItemsIn(R) = {}
    BY <1>0, <1>1, CarriedEnded
  <1>3. ItemsIn(R) \ ItemsIn(G) = ItemsIn(R \ G) /\ ItemsIn(R \ G) \cap ItemsIn(G) = {}
    BY <1>0, RetiredOutcome
  <1>4. ItemsIn(G) \subseteq ItemsIn(R) /\ ItemsIn(F) \subseteq ItemsIn(R \ G)
    BY <1>0 DEF ItemsIn
  <1>5. moved \subseteq EndedItems /\ failed \cup invalid \subseteq EndedItems \ moved
    BY <1>0 DEF Outcomes
  <1>6. EndedItems' \ moved' = (EndedItems \ moved) \cup ItemsIn(R \ G)
    BY <1>0, <1>2, <1>3, <1>4, <1>5
  <1>7. moved' \subseteq EndedItems' /\ failed' \cup invalid' \subseteq EndedItems' \ moved'
    <2>1. moved' \subseteq EndedItems'
      BY <1>0, <1>2, <1>4, <1>5
    <2>2. failed' \cup invalid' \subseteq (EndedItems \ moved) \cup ItemsIn(R \ G)
      BY <1>0, <1>4, <1>5
    <2> QED BY <1>6, <2>1, <2>2
  <1>8. ASSUME NEW p \in EndedItems', p[1] \notin Store
        PROVE  p \in moved' \cup failed' \cup invalid'
    <2>1. CASE p \in EndedItems
      BY <1>0, <1>8, <2>1 DEF Outcomes
    <2>2. CASE p \in ItemsIn(R)
      <3>1. PICK s \in R : p \in ItemsOf(s)
        BY <2>2, ItemsInFacts
      <3>2. s \in G \/ s \in F
        BY <1>0, <1>8, <3>1, FlightItems DEF PhaseOf
      <3> QED BY <1>0, <3>1, <3>2, ItemsInFacts
    <2> QED BY <1>2, <2>1, <2>2
  <1>9. ASSUME NEW j \in Job
        PROVE  job'[j].failed <=> \E p \in EndedItems' \ moved' : p[1] = j
    <2>1. job[j].failed <=> \E p \in EndedItems \ moved : p[1] = j
      BY <1>0 DEF Outcomes
    <2>2. (\E s \in R : s.job = j /\ s.end = "bad") <=> \E s \in R \ G : s.job = j
      BY DEF PhaseOf
    <2>3. (\E s \in R \ G : s.job = j) <=> \E p \in ItemsIn(R \ G) : p[1] = j
      <3>1. ASSUME NEW s \in R \ G, s.job = j PROVE \E p \in ItemsIn(R \ G) : p[1] = j
        <4>1. PICK p \in ItemsOf(s) : p[1] = s.job
          BY <1>0, FlightItems
        <4> QED BY <3>1, <4>1, ItemsInFacts
      <3>2. ASSUME NEW p \in ItemsIn(R \ G), p[1] = j PROVE \E s \in R \ G : s.job = j
        <4>1. PICK s \in R \ G : p \in ItemsOf(s)
          BY ItemsInFacts
        <4> QED BY <1>0, <3>2, <4>1, FlightItems
      <3> QED BY <3>1, <3>2
    <2>4. job'[j].failed <=> job[j].failed \/ \E s \in R : s.job = j /\ s.end = "bad"
      BY <1>1 DEF Failed
    <2> QED BY <1>6, <2>1, <2>2, <2>3, <2>4
  <1>10. ASSUME NEW r \in results' \cup reported'
         PROVE  job'[r[1]].next > 0 /\ r[1] \notin jobs' /\ r[2] = ~job'[r[1]].failed
    <2>1. CASE r \in results \cup reported
      <3>1. r[1] \in Job /\ r[2] \in BOOLEAN
        BY <1>0, <2>1 DEF TypeOK
      <3>2. job[r[1]].next > 0 /\ r[1] \notin jobs /\ r[2] = ~job[r[1]].failed
        BY <1>0, <2>1 DEF Outcomes
      <3>3. \A s \in R : s.job # r[1]
        BY <1>0, <3>2 DEF ChunksFit
      <3>4. job'[r[1]].failed = job[r[1]].failed
        BY <1>0, <1>1, <3>1, <3>3 DEF Failed, TypeOK
      <3>5. r[1] \notin jobs'
        BY <1>0, <3>2 DEF Retire
      <3> QED BY <1>1, <3>1, <3>2, <3>4, <3>5
    <2>2. CASE \E j \in Over(R) : r = <<j, ~Failed(R, j)>>
      <3>1. PICK j \in Over(R) : r = <<j, ~Failed(R, j)>>
        BY <2>2
      <3>2. j \in Job /\ \E s \in R : s.job = j
        BY DEF Over
      <3>3. j \in jobs /\ job[j].next > 0
        BY <1>0, <3>2 DEF ChunksFit, Counted
      <3>4. j \notin jobs'
        BY <1>0 DEF Retire
      <3>5. job'[j].next = job[j].next /\ job'[j].failed = Failed(R, j)
        BY <1>1, <3>2
      <3> QED BY <3>1, <3>3, <3>4, <3>5
    <2>3. results' = results \cup {<<j, ~Failed(R, j)>> : j \in Over(R)} /\ reported' = reported
      BY <1>0 DEF Retire
    <2> QED BY <2>1, <2>2, <2>3
  <1>11. Outcomes'
    BY <1>7, <1>8, <1>9, <1>10 DEF Outcomes
  <1> QED BY <1>0, <1>2, <1>4, <1>5, <1>11

LEMMA PhaseInv ==
    ASSUME BounceInv, NEW R, NEW G, NEW F, PhaseOf(R, G, F)
    PROVE  BounceInv'
  <1>0. /\ TypeOK /\ ChunksFit /\ Counted /\ Apart /\ SlotsShared
        /\ R \in SUBSET subs /\ G \in SUBSET R /\ F \in SUBSET R /\ Carried(R) /\ Retire(R)
        /\ moved' = moved \cup ItemsIn(G) /\ failed' = failed \cup ItemsIn(F)
        /\ UNCHANGED <<flushing, reported, invalid>> /\ subs' \subseteq Sub
        /\ phase' \in {"idle", "copies", "writes", "reads", "loads", "start"}
    BY DEF BounceInv, PhaseOf
  <1>1. TypeOK'
    <2>1. job' \in [Job -> [next : Nat, done : Nat, failed : BOOLEAN, older : SUBSET Job]]
      <3>1. DOMAIN job' = Job /\ job' = [j \in Job |-> job'[j]]
        BY <1>0 DEF Retire
      <3>2. \A j \in Job : job'[j] \in [next : Nat, done : Nat, failed : BOOLEAN, older : SUBSET Job]
        BY <1>0, RetireJobs
      <3> QED BY <3>1, <3>2
    <2>2. jobs' \subseteq Job
      BY <1>0 DEF TypeOK, Retire
    <2>3. free' \subseteq Slot
      <3>1. \A s \in R : SlotsOf(s) \subseteq Slot
        BY <1>0, SubFacts DEF TypeOK, SlotsOf
      <3> QED BY <1>0, <3>1 DEF TypeOK, Retire, Freed
    <2>4. results' \subseteq Job \X BOOLEAN
      <3>1. \A j \in Over(R) : j \in Job /\ Failed(R, j) \in BOOLEAN
        BY <1>0 DEF Over, Failed, TypeOK
      <3>2. {<<j, ~Failed(R, j)>> : j \in Over(R)} \subseteq Job \X BOOLEAN
        <4>1. ASSUME NEW j \in Over(R) PROVE <<j, ~Failed(R, j)>> \in Job \X BOOLEAN
          <5>1. PICK ok \in BOOLEAN : ok = ~Failed(R, j)
            OBVIOUS
          <5> QED BY <3>1, <5>1
        <4> QED BY <4>1
      <3>3. results' = results \cup {<<j, ~Failed(R, j)>> : j \in Over(R)} /\ results \subseteq Job \X BOOLEAN
        BY <1>0 DEF Retire, TypeOK
      <3> QED BY <3>2, <3>3
    <2>5. ItemsIn(R) \subseteq Item
      BY <1>0, FlightItems DEF ItemsIn
    <2>6. moved' \subseteq Item /\ failed' \subseteq Item
      BY <1>0, <2>5 DEF ItemsIn, TypeOK
    <2> QED BY <1>0, <2>1, <2>2, <2>3, <2>4, <2>6 DEF TypeOK
  <1>2. ChunksFit'
    BY <1>0, RetireChunks DEF PhaseOf
  <1>3. Apart' /\ SlotsShared'
    BY <1>0, CarriedApart, RetireSlots
  <1>4. Counted'
    BY <1>0, RetireCounted DEF Counted
  <1>5. Outcomes'
    BY PhaseOutcomes
  <1> QED BY <1>1, <1>2, <1>3, <1>4, <1>5 DEF BounceInv

----------------------------------------------------------------------------
(* The actions *)

LEMMA NoneRetired ==
    ASSUME TypeOK, UNCHANGED <<jobs, job, free, results>>
    PROVE  Retire({})
  <1>1. ASSUME NEW j \in Job PROVE Count({}, j) = 0 /\ Failed({}, j) = job[j].failed
    <2>1. ItemsIn({s \in {} : s.job = j}) = {}
      BY DEF ItemsIn
    <2>2. job[j].failed \in BOOLEAN
      BY DEF TypeOK
    <2> QED BY <2>1, <2>2, FS_EmptySet DEF Count, Failed
  <1>2. Over({}) = {} /\ Freed({}) = {}
    BY DEF Over, Freed
  <1>3. ASSUME NEW j \in Job
        PROVE  job[j] = [next |-> job[j].next, done |-> job[j].done + Count({}, j),
                         failed |-> Failed({}, j),
                         older |-> {i \in job[j].older : Over({}) \cap {i, j} = {}}]
    <2>1. job[j] \in [next : Nat, done : Nat, failed : BOOLEAN, older : SUBSET Job]
      BY DEF TypeOK
    <2>2. job[j].done + Count({}, j) = job[j].done
      BY <1>1, <2>1
    <2>3. {i \in job[j].older : Over({}) \cap {i, j} = {}} = job[j].older
      BY <1>2
    <2> QED BY <1>1, <2>1, <2>2, <2>3
  <1>4. job = [j \in Job |-> job[j]]
    BY DEF TypeOK
  <1>5. job' = [j \in Job |-> [next |-> job[j].next, done |-> job[j].done + Count({}, j),
                              failed |-> Failed({}, j),
                              older |-> {i \in job[j].older : Over({}) \cap {i, j} = {}}]]
    BY <1>3, <1>4
  <1>6. results' = results \cup {<<j, ~Failed({}, j)>> : j \in Over({})}
    BY <1>2
  <1> QED BY <1>2, <1>5, <1>6 DEF Retire

\* A copy, a write or a read ends.
LEMMA EndPhase ==
    ASSUME BounceInv, NEW s \in subs, NEW end \in {"ok", "bad"}, End(s, end)
    PROVE  PhaseOf({}, {}, {})
  <1>0. TypeOK /\ ChunksFit /\ Apart /\ s \in Sub
    BY DEF BounceInv, TypeOK
  <1> DEFINE u == Chunk(s.job, s.at, s.hop, end)
  <1>1. u \in Sub /\ u.job = s.job /\ u.at = s.at /\ u.hop = s.hop /\ u.end = end
    <2>1. s.hop \in {"g2b", "write", "read", "b2g"} /\ end \in {"running", "ok", "bad"}
      BY <1>0, SubFacts
    <2>2. u \in Sub
      BY <1>0, <2>1, RehopType
    <2> QED BY <2>2, ChunkFacts
  <1> HIDE DEF u
  <1>2. subs' = (subs \ ({} \cup {s})) \cup {u} /\ (end = "bad" => s.hop \in {"write", "read"})
        /\ UNCHANGED <<jobs, job, free, results, failed, phase, flushing, reported, invalid, moved>>
    BY DEF End, u
  <1>3. Same(u, s)
    BY <1>1 DEF Same
  <1>4. Carried({})
    <2> DEFINE N == {s}
               M == {u}
    <2>1. /\ {} \in SUBSET subs /\ N \in SUBSET subs /\ {} \cap N = {}
          /\ subs' = (subs \ ({} \cup N)) \cup M
          /\ \A x \in M : \E v \in N : Same(x, v)
          /\ \A v \in N : \E x \in M : Same(x, v)
          /\ \A x, v \in M : Same(x, v) => x = v
      BY <1>2, <1>3
    <2> HIDE DEF N, M
    <2> QED BY <1>0, <2>1, RehopCarried
  <1>5. Retire({})
    BY <1>0, <1>2, NoneRetired
  <1>6. ItemsIn({}) = {}
    BY DEF ItemsIn
  <1>7. \A v \in subs' : /\ v.hop \in {"g2b", "write"} <=> v.job \in Store
                         /\ v.hop \in {"g2b", "b2g"} => v.end # "bad"
    BY <1>0, <1>1, <1>2 DEF ChunksFit
  <1>8. subs' \subseteq Sub
    BY <1>0, <1>1, <1>2 DEF TypeOK
  <1> QED BY <1>0, <1>2, <1>4, <1>5, <1>6, <1>7, <1>8 DEF PhaseOf, TypeOK

\* Chunks N go on to the next hop.
LEMMA NextHopFacts ==
    ASSUME TypeOK, ChunksFit, Apart, NEW N \in SUBSET subs, NEW hop \in {"write", "b2g"}
    PROVE  /\ NextHop(N, hop) \subseteq Sub
           /\ \A u \in NextHop(N, hop) : u.hop = hop /\ u.end = "running" /\ \E v \in N : Same(u, v)
           /\ \A v \in N : \E u \in NextHop(N, hop) : Same(u, v)
           /\ \A u, v \in NextHop(N, hop) : Same(u, v) => u = v
  <1>1. ASSUME NEW u \in NextHop(N, hop)
        PROVE  /\ u \in Sub /\ u.hop = hop /\ u.end = "running"
               /\ u = Chunk(u.job, u.at, hop, "running") /\ \E v \in N : Same(u, v)
    <2>1. PICK v \in N : u = Chunk(v.job, v.at, hop, "running")
      BY DEF NextHop
    <2>2. v \in Sub
      BY DEF TypeOK
    <2>3. u \in Sub
      BY <2>1, <2>2, RehopType
    <2>4. u.job = v.job /\ u.at = v.at /\ u.hop = hop /\ u.end = "running"
      BY <2>1, ChunkFacts
    <2> QED BY <2>1, <2>3, <2>4 DEF Same
  <1>2. ASSUME NEW v \in N PROVE \E u \in NextHop(N, hop) : Same(u, v)
    <2>1. Same(Chunk(v.job, v.at, hop, "running"), v)
      BY ChunkFacts DEF Same
    <2> QED BY <2>1 DEF NextHop
  <1>3. ASSUME NEW u \in NextHop(N, hop), NEW v \in NextHop(N, hop), Same(u, v) PROVE u = v
    BY <1>1, <1>3 DEF Same
  <1> QED BY <1>1, <1>2, <1>3

LEMMA PumpCopiesPhase ==
    ASSUME BounceInv, PumpCopies
    PROVE  PhaseOf({}, {}, {})
  <1> DEFINE N == Ended("g2b")
             M == NextHop(N, "write")
  <1>0. TypeOK /\ ChunksFit /\ Apart /\ N \in SUBSET subs /\ \A s \in N : s.hop = "g2b"
    BY DEF BounceInv, Ended
  <1>1. subs' = (subs \ ({} \cup N)) \cup M /\ phase' = "writes"
        /\ UNCHANGED <<jobs, job, free, results, failed, flushing, reported, invalid, moved>>
    BY DEF PumpCopies
  <1>2. /\ M \subseteq Sub
        /\ \A u \in M : u.hop = "write" /\ u.end = "running" /\ \E v \in N : Same(u, v)
        /\ \A v \in N : \E u \in M : Same(u, v)
        /\ \A u, v \in M : Same(u, v) => u = v
    BY <1>0, NextHopFacts
  <1> HIDE DEF N, M
  <1>3. Carried({})
    <2>1. {} \in SUBSET subs /\ {} \cap N = {} /\ \A u \in M : \E v \in N : Same(u, v)
      BY <1>2
    <2> QED BY <1>0, <1>1, <1>2, <2>1, RehopCarried
  <1>4. Retire({})
    BY <1>0, <1>1, NoneRetired
  <1>5. ItemsIn({}) = {}
    BY DEF ItemsIn
  <1>6. subs' \subseteq Sub
    BY <1>0, <1>1, <1>2 DEF TypeOK
  <1>7. ASSUME NEW u \in subs'
        PROVE  /\ u.hop \in {"g2b", "write"} <=> u.job \in Store
               /\ u.hop \in {"g2b", "b2g"} => u.end # "bad"
    <2>1. CASE u \in subs
      BY <1>0, <2>1 DEF ChunksFit
    <2>2. CASE u \in M
      BY <1>0, <1>2, <2>2 DEF ChunksFit, Same
    <2> QED BY <1>1, <2>1, <2>2
  <1> QED BY <1>1, <1>3, <1>4, <1>5, <1>6, <1>7 DEF PhaseOf

LEMMA PumpWritesPhase ==
    ASSUME BounceInv, PumpWrites
    PROVE  PhaseOf(Ended("write"), {s \in Ended("write") : s.end = "ok"}, {})
  <1> DEFINE R == Ended("write")
             G == {s \in R : s.end = "ok"}
  <1>0. TypeOK /\ ChunksFit /\ Apart
    BY DEF BounceInv
  <1>1. R \in SUBSET subs /\ \A s \in R : s.hop = "write" /\ s.end # "running"
    BY DEF Ended
  <1>2. \A s \in R : (s.end = "bad" <=> s \notin G) /\ s.job \in Store
    BY <1>0, <1>1, SubFacts DEF TypeOK, ChunksFit
  <1>3. /\ Retire(R) /\ subs' = subs \ R /\ moved' = moved \cup ItemsIn(G) /\ phase' = "reads"
        /\ UNCHANGED <<failed, flushing, reported, invalid>>
    BY DEF PumpWrites
  <1>4. G \subseteq R /\ ItemsIn({}) = {}
    BY DEF ItemsIn
  <1> HIDE DEF R, G
  <1>5. Carried(R)
    BY <1>0, <1>1, <1>3, RetiredCarried
  <1>6. PhaseOf(R, G, {})
    BY <1>0, <1>1, <1>2, <1>3, <1>4, <1>5 DEF PhaseOf, TypeOK, ChunksFit
  <1> QED BY <1>6 DEF R, G

LEMMA PumpReadsPhase ==
    ASSUME BounceInv, PumpReads
    PROVE  PhaseOf({s \in Ended("read") : s.end = "bad"}, {}, {s \in Ended("read") : s.end = "bad"})
  <1> DEFINE R == {s \in Ended("read") : s.end = "bad"}
             N == Ended("read") \ R
             M == NextHop(N, "b2g")
  <1>0. TypeOK /\ ChunksFit /\ Apart
    BY DEF BounceInv
  <1>1. /\ R \in SUBSET subs /\ N \in SUBSET subs /\ R \cap N = {} /\ Ended("read") = R \cup N
        /\ \A s \in R : s.end = "bad"
        /\ \A s \in N : s.hop = "read"
    BY DEF Ended
  <1>2. /\ Retire(R) /\ subs' = (subs \ (R \cup N)) \cup M /\ failed' = failed \cup ItemsIn(R)
        /\ phase' = "loads" /\ UNCHANGED <<flushing, reported, invalid, moved>>
    BY <1>1 DEF PumpReads
  <1>3. /\ M \subseteq Sub
        /\ \A u \in M : u.hop = "b2g" /\ u.end = "running" /\ \E v \in N : Same(u, v)
        /\ \A v \in N : \E u \in M : Same(u, v)
        /\ \A u, v \in M : Same(u, v) => u = v
    BY <1>0, <1>1, NextHopFacts
  <1> HIDE DEF R, N, M
  <1>4. Carried(R)
    BY <1>0, <1>1, <1>2, <1>3, RehopCarried, ZenonT(40)
  <1>5. ItemsIn({}) = {}
    BY DEF ItemsIn
  <1>6. subs' \subseteq Sub
    BY <1>0, <1>2, <1>3 DEF TypeOK
  <1>7. ASSUME NEW u \in subs'
        PROVE  /\ u.hop \in {"g2b", "write"} <=> u.job \in Store
               /\ u.hop \in {"g2b", "b2g"} => u.end # "bad"
    <2>1. CASE u \in subs
      BY <1>0, <2>1 DEF ChunksFit
    <2>2. CASE u \in M
      BY <1>0, <1>1, <1>3, <2>2 DEF ChunksFit, Same
    <2> QED BY <1>2, <2>1, <2>2
  <1>8. PhaseOf(R, {}, R)
    BY <1>1, <1>2, <1>4, <1>5, <1>6, <1>7 DEF PhaseOf
  <1> QED BY <1>8 DEF R

LEMMA PumpLoadsPhase ==
    ASSUME BounceInv, PumpLoads
    PROVE  PhaseOf(Ended("b2g"), Ended("b2g"), {})
  <1> DEFINE R == Ended("b2g")
  <1>0. TypeOK /\ ChunksFit /\ Apart
    BY DEF BounceInv
  <1>1. R \in SUBSET subs /\ \A s \in R : s.end # "bad"
    BY <1>0 DEF Ended, ChunksFit
  <1>2. /\ Retire(R) /\ subs' = subs \ R /\ moved' = moved \cup ItemsIn(R) /\ phase' = "start"
        /\ UNCHANGED <<failed, flushing, reported, invalid>>
    BY DEF PumpLoads
  <1>3. ItemsIn({}) = {}
    BY DEF ItemsIn
  <1> HIDE DEF R
  <1>4. Carried(R)
    BY <1>0, <1>1, <1>2, RetiredCarried
  <1>5. PhaseOf(R, R, {})
    BY <1>0, <1>1, <1>2, <1>3, <1>4 DEF PhaseOf, TypeOK, ChunksFit
  <1> QED BY <1>5 DEF R

\* The size of a chunk: at least one block, and no more than are left.
LEMMA ChunkSizeFacts ==
    ASSUME BounceInv, NEW j \in Job, Waiting(j), free # {}
    PROVE  ChunkSize(j) \in Nat \ {0} /\ job[j].next + ChunkSize(j) <= NumItems[j] + 1
  <1>1. job[j].next \in Nat /\ NumItems[j] \in Nat /\ job[j].next <= NumItems[j]
    BY Numbers DEF BounceInv, Waiting
  <1>2. IsFiniteSet(free)
    BY BounceConstants, FS_Subset DEF BounceConstants, BounceInv, TypeOK
  <1>3. Cardinality(free) \in Nat /\ Cardinality(free) # 0
    BY <1>2, FS_CardinalityType, FS_EmptySet
  <1> QED BY <1>1, <1>3 DEF ChunkSize

LEMMA StartChunkInv ==
    ASSUME BounceInv, NEW j \in Job, StartChunk(j)
    PROVE  BounceInv' /\ EndedItems' = EndedItems
  <1> DEFINE a == job[j].next
             n == ChunkSize(j)
             I == a .. a + n - 1
             hop == IF j \in Store THEN "g2b" ELSE "read"
  <1>0. TypeOK /\ ChunksFit /\ Apart /\ SlotsShared /\ Counted /\ Outcomes
    BY DEF BounceInv
  <1>1. /\ Waiting(j) /\ free # {} /\ phase = "start"
        /\ UNCHANGED <<jobs, results, failed, phase, flushing, reported, invalid, moved>>
        /\ job' = [job EXCEPT ![j].next = a + n]
    BY DEF StartChunk
  <1>2. PICK at \in [I -> free] :
              /\ \A x, y \in I : at[x] = at[y] => x = y
              /\ subs' = subs \cup {Chunk(j, at, hop, "running")}
              /\ free' = free \ {at[i] : i \in I}
    BY DEF StartChunk
  <1>3. j \in jobs /\ a \in Nat /\ a > 0 /\ NumItems[j] \in Nat
    BY <1>0, <1>1, Numbers DEF Waiting, Counted
  <1>4. n \in Nat /\ n > 0 /\ a + n <= NumItems[j] + 1
    BY <1>1, ChunkSizeFacts
  <1> HIDE DEF a, n
  <1>5. I # {} /\ \A i \in I : i \in Nat /\ i > 0 /\ i >= a /\ i < a + n /\ i <= NumItems[j]
    <2>1. a \in I
      BY <1>3, <1>4
    <2>2. \A i \in I : i \in Nat /\ i >= a /\ i < a + n
      BY <1>3, <1>4
    <2>3. \A i \in Nat : i >= a /\ i < a + n => i > 0 /\ i <= NumItems[j]
      BY <1>3, <1>4
    <2> QED BY <2>1, <2>2, <2>3
  <1>6. \A i \in Nat : i >= a /\ i < a + n => i \in I
    BY <1>3, <1>4
  <1>7. I \subseteq Index
    <2>1. \A i \in I : i \in 1..NumItems[j]
      BY <1>3, <1>5
    <2> QED BY <2>1 DEF Index
  <1>8. PICK c : c = Chunk(j, at, hop, "running")
    OBVIOUS
  <1>9. c.job = j /\ c.at = at /\ c.hop = hop /\ c.end = "running" /\ DOMAIN c.at = I
    BY <1>8, ChunkFacts
  <1>10. c \in Sub
    <2>1. free \subseteq Slot
      BY <1>0 DEF TypeOK
    <2>2. at \in [I -> Slot]
      BY <1>2, <2>1
    <2>3. hop \in {"g2b", "write", "read", "b2g"} /\ I \in SUBSET Index
      BY <1>7
    <2> HIDE DEF hop, I
    <2> QED BY <1>8, <2>2, <2>3, ChunkType
  <1>11. SlotsOf(c) = {at[i] : i \in I} /\ SlotsOf(c) \subseteq free
    BY <1>2, <1>9 DEF SlotsOf
  <1>12. subs' = subs \cup {c} /\ free' = free \ SlotsOf(c)
    BY <1>2, <1>8, <1>11
  <1>13. ItemsOf(c) = {<<j, i>> : i \in I}
    BY <1>9 DEF ItemsOf
  <1>14. \A s \in subs : SlotsOf(s) \cap SlotsOf(c) = {}
    BY <1>0, <1>11 DEF SlotsShared
  <1>15. ASSUME NEW s \in subs PROVE ItemsOf(s) \cap ItemsOf(c) = {}
    <2> SUFFICES ASSUME NEW p \in ItemsOf(s), p \in ItemsOf(c) PROVE FALSE
      OBVIOUS
    <2>1. p[1] = s.job /\ p[2] < job[s.job].next /\ p[2] \in 1..NumItems[s.job]
      BY <1>0, FlightItems
    <2>2. PICK i \in I : p = <<j, i>>
      BY <1>13
    <2>3. i < a
      BY <2>1, <2>2 DEF a
    <2> QED BY <1>3, <1>5, <2>3
  <1>16. /\ job'[j].next = a + n /\ job'[j].done = job[j].done /\ job'[j].failed = job[j].failed
         /\ \A i \in Job : i # j => job'[i] = job[i]
         /\ job' \in [Job -> [next : Nat, done : Nat, failed : BOOLEAN, older : SUBSET Job]]
    <2>1. job \in [Job -> [next : Nat, done : Nat, failed : BOOLEAN, older : SUBSET Job]]
      BY <1>0 DEF TypeOK
    <2>2. job'[j] = [job[j] EXCEPT !.next = a + n] /\ DOMAIN job' = Job /\ job' = [i \in Job |-> job'[i]]
      BY <1>1, <2>1
    <2>3. \A i \in Job : i # j => job'[i] = job[i]
      BY <1>1, <2>1
    <2>4. a + n \in Nat
      BY <1>3, <1>4
    <2>5. job'[j] \in [next : Nat, done : Nat, failed : BOOLEAN, older : SUBSET Job]
      BY <2>1, <2>2, <2>4
    <2>6. \A i \in Job : job'[i] \in [next : Nat, done : Nat, failed : BOOLEAN, older : SUBSET Job]
      BY <2>1, <2>3, <2>5
    <2> QED BY <2>1, <2>2, <2>3, <2>6
  <1>17. TypeOK'
    BY <1>0, <1>1, <1>10, <1>12, <1>16 DEF TypeOK
  <1>18. ChunksFit'
    <2>1. ASSUME NEW s \in subs
          PROVE  /\ s.job \in jobs' /\ DOMAIN s.at # {}
                 /\ \A i \in DOMAIN s.at : i < job'[s.job].next
                 /\ \A x, y \in DOMAIN s.at : s.at[x] = s.at[y] => x = y
                 /\ s.hop \in {"g2b", "write"} <=> s.job \in Store
                 /\ s.hop \in {"g2b", "b2g"} => s.end # "bad"
      <3>1. s.job \in Job /\ DOMAIN s.at \subseteq Nat
        BY <1>0, SubFacts, IndexType DEF TypeOK
      <3>2. ASSUME NEW i \in DOMAIN s.at PROVE i < job'[s.job].next
        <4>1. i < job[s.job].next
          BY <1>0 DEF ChunksFit
        <4>2. CASE s.job = j
          <5>1. i < a /\ i \in Nat
            BY <3>1, <4>1, <4>2 DEF a
          <5> QED BY <1>3, <1>4, <1>16, <4>2, <5>1
        <4>3. CASE s.job # j
          BY <1>16, <3>1, <4>1, <4>3
        <4> QED BY <4>2, <4>3
      <3> QED BY <1>0, <1>1, <3>2 DEF ChunksFit
    <2>2. /\ c.job \in jobs' /\ DOMAIN c.at # {}
          /\ \A i \in DOMAIN c.at : i < job'[c.job].next
          /\ \A x, y \in DOMAIN c.at : c.at[x] = c.at[y] => x = y
          /\ c.hop \in {"g2b", "write"} <=> c.job \in Store
          /\ c.hop \in {"g2b", "b2g"} => c.end # "bad"
      BY <1>1, <1>2, <1>3, <1>5, <1>9, <1>16
    <2> QED BY <1>12, <2>1, <2>2 DEF ChunksFit
  <1>19. Apart'
    <2>1. \A s, t \in subs' : s # t => SlotsOf(s) \cap SlotsOf(t) = {} /\ ItemsOf(s) \cap ItemsOf(t) = {}
      BY <1>0, <1>12, <1>14, <1>15 DEF Apart
    <2> QED BY <2>1 DEF Apart, SlotsOf, ItemsOf
  <1>20. SlotsShared'
    <2>1. \A s \in subs' : SlotsOf(s) \cap free' = {}
      BY <1>0, <1>12 DEF SlotsShared
    <2>2. \A b \in Slot \ free' : \E s \in subs' : b \in SlotsOf(s)
      BY <1>0, <1>12 DEF SlotsShared
    <2> QED BY <2>1, <2>2 DEF SlotsShared, SlotsOf
  <1>21. Counted'
    <2>1. ASSUME NEW i \in Job, i # j PROVE InFlight(i)' = InFlight(i)
      <3>1. {s \in subs' : s.job = i} = {s \in subs : s.job = i}
        BY <1>9, <1>12, <2>1
      <3>2. InFlight(i)' = ItemsIn({s \in subs' : s.job = i})
        BY DEF InFlight, ItemsIn, ItemsOf
      <3> QED BY <3>1, <3>2 DEF InFlight
    <2>2. InFlight(j)' = InFlight(j) \cup ItemsOf(c)
      <3>1. {s \in subs' : s.job = j} = {s \in subs : s.job = j} \cup {c}
        BY <1>9, <1>12
      <3>2. InFlight(j)' = ItemsIn({s \in subs' : s.job = j})
        BY DEF InFlight, ItemsIn, ItemsOf
      <3>3. ItemsIn({s \in subs : s.job = j} \cup {c}) = ItemsIn({s \in subs : s.job = j}) \cup ItemsOf(c)
        BY DEF ItemsIn
      <3> QED BY <3>1, <3>2, <3>3 DEF InFlight
    <2>3. InFlight(j) \cap ItemsOf(c) = {}
      BY <1>15 DEF InFlight, ItemsIn
    <2>4. IsFiniteSet(ItemsOf(c)) /\ Cardinality(ItemsOf(c)) = n
      <3>1. IsFiniteSet(I) /\ Cardinality(I) = n
        <4>1. a \in Int /\ a + n - 1 \in Int
          BY <1>3, <1>4
        <4>2. IsFiniteSet(I) /\ Cardinality(I) = IF a > a + n - 1 THEN 0 ELSE (a + n - 1) - a + 1
          BY <4>1, FS_Interval
        <4>3. ~(a > a + n - 1) /\ (a + n - 1) - a + 1 = n
          BY <1>3, <1>4
        <4> QED BY <4>2, <4>3
      <3>2. IsFiniteSet({j}) /\ Cardinality({j}) = 1
        BY FS_Singleton
      <3>3. ItemsOf(c) = {j} \X I
        BY <1>13
      <3> HIDE DEF I
      <3>4. IsFiniteSet({j} \X I) /\ Cardinality({j} \X I) = Cardinality({j}) * Cardinality(I)
        BY <3>1, <3>2, FS_Product
      <3> QED BY <1>4, <3>1, <3>2, <3>3, <3>4
    <2>5. IsFiniteSet(InFlight(j)) /\ Cardinality(InFlight(j)) \in Nat
      BY <1>0, FlightFinite DEF InFlight
    <2>6. Cardinality(InFlight(j)') = Cardinality(InFlight(j)) + n
      <3>1. Cardinality(InFlight(j) \cup ItemsOf(c)) =
               Cardinality(InFlight(j)) + Cardinality(ItemsOf(c)) - Cardinality(InFlight(j) \cap ItemsOf(c))
        BY <2>4, <2>5, FS_Union
      <3>2. Cardinality(InFlight(j) \cap ItemsOf(c)) = 0
        BY <2>3, FS_EmptySet
      <3> QED BY <1>4, <2>2, <2>4, <2>5, <3>1, <3>2
    <2>7. job[j].done \in Nat /\ job[j].done + Cardinality(InFlight(j)) + 1 = a
      BY <1>0, <1>3, Numbers DEF Counted, a
    <2>8. job[j].done + (Cardinality(InFlight(j)) + n) + 1 = a + n
      BY <1>3, <1>4, <2>5, <2>7
    <2>9. /\ job'[j].next <= NumItems[j] + 1 /\ job'[j].next > 0
          /\ job'[j].done + Cardinality(InFlight(j)') + 1 = job'[j].next
      BY <1>3, <1>4, <1>16, <2>6, <2>8
    <2>10. ASSUME NEW i \in Job
           PROVE  /\ job'[i].next <= NumItems[i] + 1
                  /\ i \in jobs' => /\ job'[i].next > 0
                                    /\ job'[i].done + Cardinality(InFlight(i)') + 1 = job'[i].next
                  /\ i \notin jobs' => job'[i].next \in {0, NumItems[i] + 1}
      <3>1. CASE i = j
        BY <1>1, <1>3, <2>9, <3>1
      <3>2. CASE i # j
        BY <1>0, <1>1, <1>16, <2>1, <3>2 DEF Counted
      <3> QED BY <3>1, <3>2
    <2> QED BY <2>10 DEF Counted
  <1>22. EndedItems' = EndedItems
    <2>1. EndedItems' = {p \in Item : p[2] < job'[p[1]].next /\ \A s \in subs' : p \notin ItemsOf(s)}
      BY DEF EndedItems, ItemsOf
    <2>2. ASSUME NEW p \in Item
          PROVE  (p[2] < job'[p[1]].next /\ \A s \in subs' : p \notin ItemsOf(s)) <=>
                 (p[2] < job[p[1]].next /\ \A s \in subs : p \notin ItemsOf(s))
      <3>1. p[1] \in Job /\ p[2] \in Nat /\ p = <<p[1], p[2]>>
        <4>1. p \in Job \X Index
          BY DEF Item
        <4>2. p[1] \in Job /\ p[2] \in Index /\ p = <<p[1], p[2]>>
          BY <4>1
        <4>3. p[2] \in Nat \ {0}
          BY <4>2, IndexType
        <4> QED BY <4>2, <4>3
      <3>2. CASE p[1] # j
        <4>1. p \notin ItemsOf(c)
          BY <1>13, <3>2
        <4> QED BY <1>12, <1>16, <3>1, <3>2, <4>1
      <3>3. CASE p[1] = j
        <4>1. p \in ItemsOf(c) <=> p[2] \in I
          BY <1>13, <3>1, <3>3
        <4>2. p[2] \in I <=> p[2] >= a /\ p[2] < a + n
          BY <1>5, <1>6, <3>1
        <4>3. p[2] < a <=> p[2] < a + n /\ ~(p[2] >= a /\ p[2] < a + n)
          BY <1>3, <1>4, <3>1
        <4>4. job'[p[1]].next = a + n /\ job[p[1]].next = a
          BY <1>16, <3>3 DEF a
        <4> HIDE DEF I
        <4> QED BY <1>12, <4>1, <4>2, <4>3, <4>4
      <3> QED BY <3>2, <3>3
    <2> QED BY <2>1, <2>2 DEF EndedItems
  <1>23. Outcomes'
    <2>1. \A i \in Job : job'[i].failed = job[i].failed
      BY <1>16
    <2>2. ASSUME NEW r \in results \cup reported PROVE job'[r[1]] = job[r[1]]
      <3>1. r[1] \in Job /\ r[1] # j
        BY <1>0, <1>3 DEF TypeOK, Outcomes
      <3> QED BY <1>16, <3>1
    <2> QED BY <1>0, <1>1, <1>22, <2>1, <2>2, ZenonT(40) DEF Outcomes
  <1> QED BY <1>17, <1>18, <1>19, <1>20, <1>21, <1>22, <1>23 DEF BounceInv

LEMMA SubmitInv ==
    ASSUME BounceInv, NEW j \in Job, Submit(j)
    PROVE  BounceInv' /\ EndedItems' = EndedItems
  <1>0. TypeOK /\ ChunksFit /\ Apart /\ SlotsShared /\ Counted /\ Outcomes
    BY DEF BounceInv
  <1>1. /\ job[j].next = 0 /\ jobs' = jobs \cup {j}
        /\ job' = [job EXCEPT ![j] = [next |-> 1, done |-> 0, failed |-> FALSE, older |-> jobs]]
        /\ UNCHANGED <<subs, free, results, failed, phase, flushing, reported, invalid, moved>>
    BY DEF Submit
  <1>2. /\ job'[j] = [next |-> 1, done |-> 0, failed |-> FALSE, older |-> jobs]
        /\ \A i \in Job : i # j => job'[i] = job[i]
        /\ job' \in [Job -> [next : Nat, done : Nat, failed : BOOLEAN, older : SUBSET Job]]
    BY <1>0, <1>1 DEF TypeOK
  <1>3. j \notin jobs
    BY <1>0, <1>1, Numbers DEF Counted
  <1>4. \A s \in subs : s.job \in Job /\ s.job # j
    BY <1>0, <1>3, SubFacts DEF ChunksFit, TypeOK
  <1>5. TypeOK'
    BY <1>0, <1>1, <1>2 DEF TypeOK
  <1>6. ChunksFit'
    BY <1>0, <1>1, <1>2, <1>4 DEF ChunksFit
  <1>7. Apart' /\ SlotsShared'
    BY <1>0, <1>1 DEF Apart, SlotsShared, SlotsOf, ItemsOf
  <1>8. \A i : InFlight(i)' = InFlight(i)
    BY <1>1 DEF InFlight, ItemsIn, ItemsOf
  <1>9. Counted'
    <2>1. InFlight(j)' = {}
      BY <1>4, <1>8 DEF InFlight, ItemsIn
    <2>2. Cardinality(InFlight(j)') = 0
      BY <2>1, FS_EmptySet
    <2>3. NumItems[j] \in Nat /\ NumItems[j] > 0
      BY <1>0, Numbers
    <2>4. job'[j].next = 1 /\ job'[j].done = 0
      BY <1>2
    <2>5. ASSUME NEW i \in Job
          PROVE  /\ job'[i].next <= NumItems[i] + 1
                 /\ i \in jobs' => /\ job'[i].next > 0
                                   /\ job'[i].done + Cardinality(InFlight(i)') + 1 = job'[i].next
                 /\ i \notin jobs' => job'[i].next \in {0, NumItems[i] + 1}
      <3>1. CASE i = j
        BY <1>1, <2>2, <2>3, <2>4, <3>1
      <3>2. CASE i # j
        BY <1>0, <1>1, <1>2, <1>8, <3>2 DEF Counted
      <3> QED BY <3>1, <3>2
    <2> QED BY <2>5 DEF Counted
  <1>10. \A p \in Item : p[1] \in Job /\ p[2] \in Nat \ {0}
    <2>1. \A p \in Item : p[1] \in Job /\ p[2] \in Index
      BY DEF Item
    <2> QED BY <2>1, IndexType
  <1>11. EndedItems' = EndedItems
    <2>1. ASSUME NEW p \in Item PROVE p[2] < job'[p[1]].next <=> p[2] < job[p[1]].next
      <3>1. CASE p[1] = j
        <4>1. job'[p[1]].next = 1 /\ job[p[1]].next = 0 /\ p[2] \in Nat \ {0}
          BY <1>1, <1>2, <1>10, <3>1
        <4> QED BY <4>1
      <3>2. CASE p[1] # j
        BY <1>2, <1>10, <3>2
      <3> QED BY <3>1, <3>2
    <2> QED BY <1>1, <2>1 DEF EndedItems, ItemsOf
  <1>12. Outcomes'
    <2>1. ASSUME NEW i \in Job
          PROVE  job'[i].failed <=> \E p \in EndedItems' \ moved' : p[1] = i
      <3>1. CASE i = j
        <4>1. \A p \in EndedItems : p[1] # j
          <5> SUFFICES ASSUME NEW p \in EndedItems, p[1] = j PROVE FALSE
            OBVIOUS
          <5>1. p \in Item /\ p[2] < 0
            BY <1>1 DEF EndedItems
          <5>2. p[2] \in Nat \ {0}
            BY <1>10, <5>1
          <5> QED BY <5>1, <5>2
        <4> QED BY <1>1, <1>2, <1>11, <3>1, <4>1
      <3>2. CASE i # j
        BY <1>0, <1>1, <1>2, <1>11, <3>2 DEF Outcomes
      <3> QED BY <3>1, <3>2
    <2>2. ASSUME NEW r \in results \cup reported
          PROVE  job'[r[1]] = job[r[1]] /\ r[1] \notin jobs'
      <3>1. r[1] \in Job /\ r[1] # j /\ r[1] \notin jobs
        <4>1. job[r[1]].next > 0 /\ r[1] \in Job /\ r[1] \notin jobs
          BY <1>0 DEF Outcomes, TypeOK
        <4> QED BY <1>1, <4>1
      <3> QED BY <1>1, <1>2, <3>1
    <2> QED BY <1>0, <1>1, <1>11, <2>1, <2>2 DEF Outcomes
  <1> QED BY <1>5, <1>6, <1>7, <1>9, <1>11, <1>12 DEF BounceInv

\* Steps that touch neither chunks nor counters.
LEMMA BooksSame ==
    ASSUME BounceInv, UNCHANGED <<jobs, job, subs, free, moved>>,
           flushing' \in BOOLEAN,
           phase' \in {"idle", "copies", "writes", "reads", "loads", "start"},
           results' \cup reported' = results \cup reported,
           failed' \cup invalid' = failed \cup invalid
    PROVE  BounceInv' /\ EndedItems' = EndedItems
  <1>0. TypeOK /\ ChunksFit /\ Apart /\ SlotsShared /\ Counted /\ Outcomes
    BY DEF BounceInv
  <1>1. TypeOK'
    BY <1>0 DEF TypeOK
  <1>2. ChunksFit' /\ Apart' /\ SlotsShared'
    BY <1>0 DEF ChunksFit, Apart, SlotsShared, SlotsOf, ItemsOf
  <1>3. \A i : InFlight(i)' = InFlight(i)
    BY DEF InFlight, ItemsIn, ItemsOf
  <1>4. Counted'
    BY <1>0, <1>3 DEF Counted
  <1>5. EndedItems' = EndedItems
    BY DEF EndedItems, ItemsOf
  <1>6. Outcomes'
    <2>1. \A p : p \in moved' \cup failed' \cup invalid' <=> p \in moved \cup failed \cup invalid
      OBVIOUS
    <2> QED BY <1>0, <1>5, <2>1 DEF Outcomes
  <1> QED BY <1>1, <1>2, <1>4, <1>5, <1>6 DEF BounceInv

LEMMA InitInv == Init => BounceInv
  <1> SUFFICES ASSUME Init PROVE BounceInv
    OBVIOUS
  <1>1. TypeOK
    BY DEF Init, TypeOK
  <1>2. ChunksFit /\ Apart /\ SlotsShared
    BY DEF Init, ChunksFit, Apart, SlotsShared
  <1>3. Counted
    BY <1>1, Numbers DEF Init, Counted
  <1>4. EndedItems = {}
    <2> SUFFICES ASSUME NEW p \in EndedItems PROVE FALSE
      OBVIOUS
    <2>1. p \in Item /\ p[1] \in Job /\ p[2] \in Index /\ p[2] < job[p[1]].next
      BY DEF EndedItems, Item
    <2>2. p[2] < 0 /\ p[2] \in Nat \ {0}
      BY <2>1, IndexType DEF Init
    <2> QED BY <2>2
  <1>5. Outcomes
    BY <1>4 DEF Init, Outcomes
  <1> QED BY <1>1, <1>2, <1>3, <1>5 DEF BounceInv

----------------------------------------------------------------------------
(* Every step keeps the invariant and is a step of the contract, or none *)

Taken == {j \in Job : job[j].next > 0}

LEMMA PhaseMaps ==
    ASSUME BounceInv, NEW R, NEW G, NEW F, PhaseOf(R, G, F)
    PROVE  Contract!EndSome
  <1>0. /\ TypeOK /\ ChunksFit /\ Counted /\ Apart /\ R \in SUBSET subs /\ Retire(R)
        /\ moved' = moved \cup ItemsIn(G) /\ UNCHANGED <<reported, invalid>>
    BY DEF BounceInv, PhaseOf
  <1>1. EndedItems' = EndedItems \cup ItemsIn(R) /\ moved' \ moved \subseteq EndedItems' \ EndedItems
    BY PhaseOutcomes
  <1>2. \A j \in Job : job'[j].next = job[j].next
    BY <1>0, RetireJobs
  <1>3. ASSUME NEW p \in EndedItems' PROVE \E j \in Taken : p \in Contract!Blocks(j)
    <2>1. p \in Item /\ p[2] < job'[p[1]].next
      BY DEF EndedItems
    <2>2. p \in Job \X Index /\ p[2] <= NumItems[p[1]]
      BY <2>1 DEF Item
    <2>3. p[1] \in Job /\ p[2] \in Index /\ p = <<p[1], p[2]>>
      BY <2>2
    <2>4. p[2] \in Nat \ {0} /\ NumItems[p[1]] \in Nat /\ job[p[1]].next \in Nat
      BY <1>0, <2>3, IndexType, Numbers
    <2>5. p[1] \in Taken /\ p[2] \in 1..NumItems[p[1]]
      BY <1>2, <2>1, <2>2, <2>3, <2>4 DEF Taken
    <2> QED BY <2>3, <2>5 DEF Contract!Blocks
  <1>4. Taken' = Taken
    BY <1>2 DEF Taken
  <1> QED BY <1>0, <1>1, <1>3, <1>4 DEF Contract!EndSome, Taken

LEMMA SubmitMaps ==
    ASSUME BounceInv, NEW j \in Job, Submit(j)
    PROVE  Contract!Submit(j)
  <1>1. EndedItems' = EndedItems /\ UNCHANGED <<moved, invalid, reported>>
    BY SubmitInv DEF Submit
  <1>2. /\ job'[j].next = 1 /\ job[j].next = 0
        /\ \A i \in Job : i # j => job'[i] = job[i]
    BY DEF Submit, BounceInv, TypeOK
  <1>3. j \notin Taken /\ Taken' = Taken \cup {j}
    BY <1>2 DEF Taken
  <1> QED BY <1>1, <1>3 DEF Contract!Submit, Taken

LEMMA PumpEndInv ==
    ASSUME BounceInv, PumpEnd
    PROVE  BounceInv' /\ EndedItems' = EndedItems
  <1>1. UNCHANGED <<jobs, job, subs, free, moved, flushing>> /\ phase' = "idle"
    BY DEF PumpEnd
  <1>2. flushing \in BOOLEAN
    BY DEF BounceInv, TypeOK
  <1>3. results' \cup reported' = results \cup reported /\ failed' \cup invalid' = failed \cup invalid
    BY DEF PumpEnd
  <1> QED BY <1>1, <1>2, <1>3, BooksSame

\* A job that is reported has ended, with the outcome that is reported.
LEMMA ResultFacts ==
    ASSUME BounceInv, NEW r \in results \cup reported
    PROVE  /\ r[1] \in Taken /\ r[2] \in BOOLEAN /\ r = <<r[1], r[2]>>
           /\ r[2] = ~job[r[1]].failed
           /\ Contract!Blocks(r[1]) \subseteq EndedItems
           /\ r[2] = (Contract!Blocks(r[1]) \subseteq moved)
           /\ r[1] \notin Store => Contract!Blocks(r[1]) \subseteq moved \cup invalid \cup failed
  <1>0. TypeOK /\ ChunksFit /\ Counted /\ Outcomes
    BY DEF BounceInv
  <1>1. r[1] \in Job /\ r[2] \in BOOLEAN /\ r = <<r[1], r[2]>>
    BY <1>0 DEF TypeOK
  <1>2. job[r[1]].next > 0 /\ r[1] \notin jobs /\ r[2] = ~job[r[1]].failed
    BY <1>0 DEF Outcomes
  <1>3. NumItems[r[1]] \in Nat /\ job[r[1]].next = NumItems[r[1]] + 1
    BY <1>0, <1>1, <1>2, Numbers DEF Counted
  <1>4. \A s \in subs : s.job # r[1]
    BY <1>0, <1>2 DEF ChunksFit
  <1>5. ASSUME NEW i \in 1..NumItems[r[1]] PROVE <<r[1], i>> \in EndedItems
    <2>1. <<r[1], i>> \in Item
      BY <1>1, <1>3 DEF Item, Index
    <2>2. \A s \in subs : <<r[1], i>> \notin ItemsOf(s)
      BY <1>4 DEF ItemsOf
    <2>3. i < job[r[1]].next
      BY <1>3
    <2> QED BY <2>1, <2>2, <2>3 DEF EndedItems
  <1>6. Contract!Blocks(r[1]) \subseteq EndedItems
    BY <1>5 DEF Contract!Blocks
  <1>7. \A p \in EndedItems : p[1] = r[1] => p \in Contract!Blocks(r[1])
    <2> SUFFICES ASSUME NEW p \in EndedItems, p[1] = r[1] PROVE p \in Contract!Blocks(r[1])
      OBVIOUS
    <2>1. p \in Job \X Index /\ p[2] <= NumItems[p[1]]
      BY DEF EndedItems, Item
    <2>2. p[2] \in Index /\ p = <<r[1], p[2]>>
      BY <2>1
    <2>3. p[2] \in Nat \ {0}
      BY <2>2, IndexType
    <2>4. p[2] \in 1..NumItems[r[1]]
      BY <1>3, <2>1, <2>3
    <2> QED BY <2>2, <2>4 DEF Contract!Blocks
  <1>8. job[r[1]].failed <=> ~(Contract!Blocks(r[1]) \subseteq moved)
    <2>1. \A p \in Contract!Blocks(r[1]) : p[1] = r[1]
      BY DEF Contract!Blocks
    <2>2. job[r[1]].failed <=> \E p \in EndedItems \ moved : p[1] = r[1]
      BY <1>0, <1>1 DEF Outcomes
    <2> QED BY <1>6, <1>7, <2>1, <2>2
  <1>9. r[1] \notin Store => Contract!Blocks(r[1]) \subseteq moved \cup invalid \cup failed
    <2>1. \A p \in Contract!Blocks(r[1]) : p[1] = r[1]
      BY DEF Contract!Blocks
    <2> QED BY <1>0, <1>6, <2>1 DEF Outcomes
  <1>10. r[1] \in Taken
    BY <1>1, <1>2 DEF Taken
  <1> QED BY <1>1, <1>2, <1>6, <1>8, <1>9, <1>10

LEMMA PumpEndMaps ==
    ASSUME BounceInv, PumpEnd
    PROVE  Contract!Report \/ UNCHANGED Contract!contractVars
  <1>1. EndedItems' = EndedItems /\ UNCHANGED <<job, moved>>
    BY PumpEndInv DEF PumpEnd
  <1>2. Taken' = Taken
    BY <1>1 DEF Taken
  <1>3. CASE flushing
    <2>1. UNCHANGED <<reported, invalid>>
      BY <1>3 DEF PumpEnd
    <2> QED BY <1>1, <1>2, <2>1 DEF Contract!contractVars, Taken
  <1>4. CASE ~flushing
    <2>1. reported' = reported \cup results /\ invalid' = invalid \cup failed
      BY <1>4 DEF PumpEnd
    <2>2. reported \subseteq reported' /\ invalid \subseteq invalid'
      BY <2>1
    <2>3. invalid' \subseteq EndedItems \ moved
      BY <2>1 DEF BounceInv, Outcomes
    <2>4. ASSUME NEW r \in reported' \ reported
          PROVE  /\ r[1] \in Taken /\ <<r[1], ~r[2]>> \notin reported'
                 /\ Contract!Blocks(r[1]) \subseteq EndedItems
                 /\ r[2] = (Contract!Blocks(r[1]) \subseteq moved)
                 /\ r[1] \in Job \ Store => Contract!Blocks(r[1]) \subseteq moved \cup invalid'
      <3>1. r \in results \cup reported
        BY <2>1
      <3>2. /\ r[1] \in Taken /\ r[2] \in BOOLEAN /\ r[2] = ~job[r[1]].failed
            /\ Contract!Blocks(r[1]) \subseteq EndedItems
            /\ r[2] = (Contract!Blocks(r[1]) \subseteq moved)
            /\ r[1] \notin Store => Contract!Blocks(r[1]) \subseteq moved \cup invalid \cup failed
        BY <3>1, ResultFacts
      <3>3. <<r[1], ~r[2]>> \notin reported'
        <4> SUFFICES ASSUME <<r[1], ~r[2]>> \in results \cup reported PROVE FALSE
          BY <2>1
        <4>1. PICK q \in results \cup reported : q = <<r[1], ~r[2]>>
          OBVIOUS
        <4>2. q[2] = ~job[q[1]].failed
          BY ResultFacts
        <4>3. q[1] = r[1] /\ q[2] = ~r[2]
          BY <4>1
        <4> QED BY <3>2, <4>2, <4>3
      <3> QED BY <2>1, <3>2, <3>3
    <2> QED BY <1>1, <1>2, <2>2, <2>3, <2>4 DEF Contract!Report, Taken
  <1> QED BY <1>3, <1>4

LEMMA NextStep ==
    ASSUME BounceInv, [Next]_vars
    PROVE  BounceInv' /\ [Contract!Next]_Contract!contractVars
  <1>1. ASSUME NEW j \in Job, Submit(j) PROVE BounceInv' /\ [Contract!Next]_Contract!contractVars
    <2>1. Contract!Submit(j)
      BY <1>1, SubmitMaps
    <2>2. BounceInv'
      BY <1>1, SubmitInv
    <2> QED BY <2>1, <2>2 DEF Contract!Next
  <1>2. ASSUME NEW R, NEW G, NEW F, PhaseOf(R, G, F)
        PROVE  BounceInv' /\ [Contract!Next]_Contract!contractVars
    BY <1>2, PhaseInv, PhaseMaps DEF Contract!Next
  <1>3. ASSUME NEW j \in Job, StartChunk(j)
        PROVE  BounceInv' /\ [Contract!Next]_Contract!contractVars
    <2>1. BounceInv' /\ EndedItems' = EndedItems
      BY <1>3, StartChunkInv
    <2>2. UNCHANGED <<moved, invalid, reported>>
      BY <1>3 DEF StartChunk
    <2>3. Taken' = Taken
      <3>1. job[j].next \in Nat /\ job[j].next > 0 /\ job[j].next <= NumItems[j]
        BY <1>3, Numbers DEF StartChunk, Waiting, BounceInv, Counted
      <3>2. ChunkSize(j) \in Nat
        BY <1>3, ChunkSizeFacts DEF StartChunk
      <3>3. job'[j].next = job[j].next + ChunkSize(j) /\ \A i \in Job : i # j => job'[i] = job[i]
        BY <1>3 DEF StartChunk, BounceInv, TypeOK
      <3> QED BY <3>1, <3>2, <3>3 DEF Taken
    <2> QED BY <2>1, <2>2, <2>3 DEF Contract!contractVars, Taken
  <1>4. ASSUME UNCHANGED <<jobs, job, subs, free, moved, results, failed, reported, invalid>>,
               flushing' \in BOOLEAN,
               phase' \in {"idle", "copies", "writes", "reads", "loads", "start"}
        PROVE  BounceInv' /\ [Contract!Next]_Contract!contractVars
    <2>1. BounceInv' /\ EndedItems' = EndedItems
      BY <1>4, BooksSame
    <2>2. Taken' = Taken
      BY <1>4 DEF Taken
    <2> QED BY <1>4, <2>1, <2>2 DEF Contract!contractVars, Taken
  <1>5. phase \in {"idle", "copies", "writes", "reads", "loads", "start"} /\ flushing \in BOOLEAN
    BY DEF BounceInv, TypeOK
  <1>6. CASE \E s \in subs, end \in {"ok", "bad"} : End(s, end)
    BY <1>2, <1>6, EndPhase
  <1>7. CASE PumpBegin \/ Flush \/ FlushDone \/ UNCHANGED vars
    BY <1>4, <1>5, <1>7 DEF PumpBegin, Flush, FlushDone, vars
  <1>8. CASE PumpCopies \/ PumpWrites \/ PumpReads \/ PumpLoads
    BY <1>2, <1>8, PumpCopiesPhase, PumpWritesPhase, PumpReadsPhase, PumpLoadsPhase
  <1>9. CASE PumpEnd
    BY <1>9, PumpEndInv, PumpEndMaps DEF Contract!Next
  <1> QED BY <1>1, <1>3, <1>6, <1>7, <1>8, <1>9 DEF Next, Pump

\* The invariant of the data mover holds in every reachable state.
THEOREM BounceInvariant == Spec => []BounceInv
  BY InitInv, NextStep, PTL DEF Spec

LEMMA InvSlots ==
    ASSUME BounceInv
    PROVE  SlotsConserved
  <1> SUFFICES ASSUME NEW b \in Slot, NEW users,
                      users = {u \in subs \X Index : u[2] \in DOMAIN u[1].at /\ u[1].at[u[2]] = b}
               PROVE  Cardinality(users) = IF b \in free THEN 0 ELSE 1
    BY DEF SlotsConserved
  <1>0. TypeOK /\ ChunksFit /\ Apart /\ SlotsShared
    BY DEF BounceInv
  <1>1. \A u \in users : u[1] \in subs /\ u[2] \in DOMAIN u[1].at /\ u[1].at[u[2]] = b /\ u = <<u[1], u[2]>>
    OBVIOUS
  <1>2. \A u \in users : b \in SlotsOf(u[1])
    BY <1>1 DEF SlotsOf
  <1>3. CASE b \in free
    <2>1. users = {}
      BY <1>0, <1>1, <1>2, <1>3 DEF SlotsShared
    <2> QED BY <1>3, <2>1, FS_EmptySet
  <1>4. CASE b \notin free
    <2>1. PICK s \in subs : b \in SlotsOf(s)
      BY <1>0, <1>4 DEF SlotsShared
    <2>2. PICK i \in DOMAIN s.at : s.at[i] = b
      BY <2>1 DEF SlotsOf
    <2>3. i \in Index
      BY <1>0, SubFacts DEF TypeOK
    <2>4. <<s, i>> \in users
      BY <2>2, <2>3
    <2>5. ASSUME NEW u \in users PROVE u = <<s, i>>
      <3>1. u[1] = s
        BY <1>0, <1>1, <1>2, <2>1 DEF Apart
      <3>2. u[2] = i
        BY <1>0, <1>1, <2>2, <3>1 DEF ChunksFit
      <3> QED BY <1>1, <3>1, <3>2
    <2>6. users = {<<s, i>>}
      BY <2>4, <2>5
    <2> QED BY <1>4, <2>6, FS_Singleton
  <1> QED BY <1>3, <1>4

\* Between any two phases of pump every bounce slot is free or with one block of one
\* chunk, every block of a job is counted once or in flight once, and a job is in the
\* table while a chunk of it is in flight.
THEOREM ChunksAreWhole == Spec => []ChunksOK
  <1>1. BounceInv => ChunksOK
    <2> SUFFICES ASSUME BounceInv PROVE ChunksOK
      OBVIOUS
    <2>1. TypeOK /\ SlotsConserved
      BY InvSlots DEF BounceInv
    <2>2. ItemsAccounted
      <3> SUFFICES ASSUME NEW j \in jobs, NEW mine, mine = {s \in subs : s.job = j}
                   PROVE  /\ \A s, t \in mine : s # t => ItemsOf(s) \cap ItemsOf(t) = {}
                          /\ job[j].done + Cardinality(ItemsIn(mine)) + 1 = job[j].next
        BY DEF ItemsAccounted
      <3>1. j \in Job
        BY <2>1 DEF TypeOK
      <3>2. job[j].done + Cardinality(ItemsIn(mine)) + 1 = job[j].next
        BY <3>1 DEF BounceInv, Counted, InFlight
      <3>3. \A s, t \in mine : s # t => ItemsOf(s) \cap ItemsOf(t) = {}
        BY DEF BounceInv, Apart
      <3> QED BY <3>2, <3>3
    <2>3. NoOrphan
      BY DEF BounceInv, ChunksFit, NoOrphan
    <2> QED BY <2>1, <2>2, <2>3 DEF ChunksOK
  <1> QED BY <1>1, BounceInvariant, PTL

\* The data mover keeps the contract the connector relies on: a job is reported once,
\* after the transfer of every one of its blocks has ended, as a success exactly when
\* all arrived, and no earlier than the blocks it could not load (pump, get_finished).
THEOREM MoverKeepsContract == Spec => ImplementsContract
  <1>1. Init => Contract!Init
    <2> SUFFICES ASSUME Init PROVE Contract!Init
      OBVIOUS
    <2>1. EndedItems = {}
      <3> SUFFICES ASSUME NEW p \in EndedItems PROVE FALSE
        OBVIOUS
      <3>1. p[1] \in Job /\ p[2] \in Index /\ p[2] < job[p[1]].next
        BY DEF EndedItems, Item
      <3>2. p[2] < 0 /\ p[2] \in Nat \ {0}
        BY <3>1, IndexType DEF Init
      <3> QED BY <3>2
    <2>2. {j \in Job : job[j].next > 0} = {}
      BY DEF Init
    <2> QED BY <2>1, <2>2 DEF Init, Contract!Init
  <1>2. BounceInv /\ [Next]_vars => [Contract!Next]_Contract!contractVars
    BY NextStep
  <1> QED BY <1>1, <1>2, BounceInvariant, PTL DEF Spec, ImplementsContract, Contract!Spec
=============================================================================
