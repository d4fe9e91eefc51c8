--------------------------- MODULE SlabManagerProofs ---------------------------
(***************************************************************************)
(* Proofs about SlabManager, for any number of keys, slots, ranks and jobs. *)
(***************************************************************************)
EXTENDS SlabManager, FiniteSetTheorems, TLAPS

(* What each manager method preserves. *)

\* touch and lookup only reorder recency: the record keeps its type and owners.
LEMMA OlderLemma ==
    ASSUME NEW m \in Manager, OneOwnerIn(m), NEW o \in SUBSET (Key \X Key)
    PROVE  [m EXCEPT !.older = o] \in Manager /\ OneOwnerIn([m EXCEPT !.older = o])
  BY DEF Manager, OneOwnerIn, Injective, Apart

\* Moving a set of keys to the recent end keeps the relation a set of key pairs.
LEMMA AtEndType ==
    ASSUME NEW o \in SUBSET (Key \X Key), NEW held \in SUBSET Key, NEW S \in SUBSET Key,
           NEW ord \in SUBSET (Key \X Key)
    PROVE  AtEnd(o, held, S, ord) \in SUBSET (Key \X Key)
  BY DEF AtEnd, Without, SameGroup

\* touch keeps the record's type and the owners of the slots.
LEMMA TouchLemma ==
    ASSUME NEW m \in Manager, OneOwnerIn(m), NEW req \in Request
    PROVE  Touch(m, req) \in Manager /\ OneOwnerIn(Touch(m, req))
  <1> DEFINE S == Range(req) \cap Indexed(m)
             o == AtEnd(m.older, Indexed(m), S, RequestOrder(req, S))
  <1>1. m.older \in SUBSET (Key \X Key) /\ Indexed(m) \in SUBSET Key /\ S \in SUBSET Key
    BY DEF Manager, Indexed
  <1>2. RequestOrder(req, S) \in SUBSET (Key \X Key)
    BY DEF RequestOrder, SameGroup
  <1>3. o \in SUBSET (Key \X Key)
    BY <1>1, <1>2, AtEndType
  <1>4. Touch(m, req) = [m EXCEPT !.older = o]
    BY DEF Touch
  <1> QED
    BY <1>3, <1>4, OlderLemma

\* prepare_store hands out free slots and the slots of evicted keys, each once.
LEMMA PrepareStoreLemma ==
    ASSUME SlabConstants,
           NEW m \in Manager, OneOwnerIn(m), NEW req, NEW K \in SUBSET Key,
           NEW at \in Placements(m, K)
    PROVE  /\ PrepareStore(m, req, K, at) \in Manager
           /\ OneOwnerIn(PrepareStore(m, req, K, at))
  <1> DEFINE gone == Victims(m, K)
             new  == NewKeys(m, K)
             p    == PrepareStore(m, req, K, at)
  <1>1. gone \subseteq Indexed(m) /\ Indexed(m) \subseteq Key /\ new \subseteq Key
    BY DEF Victims, Indexed, NewKeys
  <1>2. /\ \A k \in new : at[k] \in m.free \/ \E v \in gone : at[k] = m.index[v]
        /\ \A a, b \in new : at[a] = at[b] => a = b
    BY DEF Placements
  <1>3. /\ m.index \in [Key -> SlotOrNone] /\ m.inflightStore \in [Key -> SlotOrNone]
        /\ m.condemned \in [Key -> SlotOrNone] /\ m.free \in SUBSET Slot
        /\ m.older \in SUBSET (Key \X Key) /\ m.siblings \in [Key -> SUBSET Key]
    BY DEF Manager
  <1>4. \A k \in new : at[k] \in Slot
    BY <1>1, <1>2, <1>3 DEF Indexed, SlotOrNone
  <1>5. p \in Manager
    <2>1. [k \in Key |-> IF k \in gone THEN NoSlot ELSE m.index[k]] \in [Key -> SlotOrNone]
      BY <1>3 DEF SlotOrNone
    <2>2. [k \in Key |-> IF k \in new THEN at[k] ELSE m.inflightStore[k]]
             \in [Key -> SlotOrNone]
      BY <1>3, <1>4 DEF SlotOrNone
    <2>3. [k \in Key |->
             IF k \in gone THEN {}
             ELSE IF k \in new /\ SiblingsIn(m, req, K, k) # {}
             THEN SiblingsIn(m, req, K, k) ELSE m.siblings[k]] \in [Key -> SUBSET Key]
      <3>1. \A k : SiblingsIn(m, req, K, k) \in SUBSET Key
        BY DEF SiblingsIn
      <3> QED BY <3>1, <1>3
    <2>4. Without(m.older, gone) \in SUBSET (Key \X Key)
      BY <1>3 DEF Without
    <2> QED
      BY <2>1, <2>2, <2>3, <2>4, <1>3 DEF PrepareStore, Manager
  <1>6. /\ p.index = [k \in Key |-> IF k \in gone THEN NoSlot ELSE m.index[k]]
        /\ p.inflightStore = [k \in Key |-> IF k \in new THEN at[k] ELSE m.inflightStore[k]]
        /\ p.condemned = m.condemned
        /\ p.free = m.free \ {at[k] : k \in new}
    BY DEF PrepareStore, Manager
  <1>7. \A k \in new : m.inflightStore[k] = NoSlot
    BY DEF NewKeys
  <1>8. OneOwnerIn(p)
    <2> USE SlabConstants DEF SlabConstants
    <2>1. Injective(p.index) /\ Injective(p.condemned) /\ Apart(p.index, p.condemned)
      BY <1>6 DEF OneOwnerIn, Injective, Apart
    <2>2. \A k \in new, o \in Key :
             m.inflightStore[o] # at[k] /\ m.condemned[o] # at[k]
             /\ (m.index[o] = at[k] => o \in gone)
      BY <1>1, <1>2, <1>3, <1>4 DEF OneOwnerIn, Injective, Apart
    <2>3. Injective(p.inflightStore)
      BY <1>2, <1>4, <1>6, <2>2 DEF OneOwnerIn, Injective
    <2>4. Apart(p.index, p.inflightStore)
      BY <1>4, <1>6, <2>2 DEF OneOwnerIn, Apart
    <2>5. Apart(p.inflightStore, p.condemned)
      BY <1>4, <1>6, <2>2 DEF OneOwnerIn, Apart
    <2>6. \A k \in Key : p.index[k] \notin p.free /\ p.inflightStore[k] \notin p.free
                           /\ p.condemned[k] \notin p.free
      BY <1>3, <1>6 DEF OneOwnerIn
    <2> QED
      BY <2>1, <2>3, <2>4, <2>5, <2>6 DEF OneOwnerIn
  <1> QED
    BY <1>5, <1>8

\* complete_store moves a slot from the store to the index or to the free list.
LEMMA CompleteStoreLemma ==
    ASSUME SlabConstants,
           NEW m \in Manager, OneOwnerIn(m), NEW K \in SUBSET Key,
           NEW ord \in SUBSET (Key \X Key)
    PROVE  /\ CompleteStore(m, K, ord) \in Manager
           /\ OneOwnerIn(CompleteStore(m, K, ord))
  <1> DEFINE done == {k \in K : m.inflightStore[k] # NoSlot}
             good == done \ m.failedStore
             bad  == done \cap m.failedStore
             p    == CompleteStore(m, K, ord)
             newOlder == AtEnd(m.older, Indexed(m) \cup good, good, ord)
  <1>1. /\ m.index \in [Key -> SlotOrNone] /\ m.inflightStore \in [Key -> SlotOrNone]
        /\ m.condemned \in [Key -> SlotOrNone] /\ m.free \in SUBSET Slot
        /\ m.older \in SUBSET (Key \X Key) /\ m.siblings \in [Key -> SUBSET Key]
        /\ m.failedStore \in SUBSET Key
    BY DEF Manager
  <1>2. newOlder \in SUBSET (Key \X Key)
    <2>1. Indexed(m) \cup good \in SUBSET Key /\ good \in SUBSET Key
      BY DEF Indexed
    <2> QED BY <2>1, <1>1, AtEndType
  <1>3. /\ p.index = [k \in Key |-> IF k \in good THEN m.inflightStore[k] ELSE m.index[k]]
        /\ p.inflightStore = [k \in Key |-> IF k \in done THEN NoSlot ELSE m.inflightStore[k]]
        /\ p.condemned = m.condemned
        /\ p.free = m.free \cup {m.inflightStore[k] : k \in bad}
    BY DEF CompleteStore, Manager
  <1>4. p \in Manager
    <2>1. p.index \in [Key -> SlotOrNone] /\ p.inflightStore \in [Key -> SlotOrNone]
      BY <1>1, <1>3 DEF SlotOrNone
    <2>2. p.free \in SUBSET Slot
      BY <1>1, <1>3 DEF SlotOrNone
    <2>3. [k \in Key |-> IF k \in bad THEN {} ELSE m.siblings[k]] \in [Key -> SUBSET Key]
      BY <1>1
    <2>4. m.failedStore \ done \in SUBSET Key
      BY <1>1
    <2> HIDE DEF newOlder
    <2> QED
      BY <1>1, <1>2, <2>1, <2>2, <2>3, <2>4, <1>3 DEF CompleteStore, Manager, newOlder
  <1>5. OneOwnerIn(p)
    <2> USE SlabConstants DEF SlabConstants
    <2>1. Injective(p.index) /\ Injective(p.inflightStore) /\ Injective(p.condemned)
      BY <1>3 DEF OneOwnerIn, Injective, Apart
    <2>2. Apart(p.index, p.inflightStore) /\ Apart(p.index, p.condemned)
            /\ Apart(p.inflightStore, p.condemned)
      BY <1>3 DEF OneOwnerIn, Injective, Apart
    <2>3. \A k \in bad, o \in Key :
             /\ m.inflightStore[k] # NoSlot
             /\ m.inflightStore[k] # m.index[o]
             /\ m.inflightStore[k] # m.condemned[o]
             /\ m.inflightStore[k] = m.inflightStore[o] => k = o
      BY DEF OneOwnerIn, Injective, Apart
    <2>4. \A k \in Key : p.index[k] \notin p.free /\ p.inflightStore[k] \notin p.free
                           /\ p.condemned[k] \notin p.free
      BY <1>1, <1>3, <2>3 DEF OneOwnerIn
    <2> QED
      BY <2>1, <2>2, <2>4 DEF OneOwnerIn
  <1> QED
    BY <1>4, <1>5

\* mark_load_failed moves a slot from the index to the condemned ones or to free.
LEMMA MarkLoadFailedLemma ==
    ASSUME SlabConstants,
           NEW m \in Manager, OneOwnerIn(m), NEW K \in SUBSET Key
    PROVE  MarkLoadFailed(m, K) \in Manager /\ OneOwnerIn(MarkLoadFailed(m, K))
  <1> DEFINE dropped == K \cap Indexed(m)
             read == {k \in dropped : m.inflightLoad[k] > 0}
             p    == MarkLoadFailed(m, K)
  <1>1. /\ m.index \in [Key -> SlotOrNone] /\ m.inflightStore \in [Key -> SlotOrNone]
        /\ m.condemned \in [Key -> SlotOrNone] /\ m.free \in SUBSET Slot
        /\ m.older \in SUBSET (Key \X Key) /\ m.siblings \in [Key -> SUBSET Key]
    BY DEF Manager
  <1>2. /\ p.index = [k \in Key |-> IF k \in dropped THEN NoSlot ELSE m.index[k]]
        /\ p.inflightStore = m.inflightStore
        /\ p.condemned = [k \in Key |-> IF k \in read THEN m.index[k] ELSE m.condemned[k]]
        /\ p.free = m.free \cup {m.index[k] : k \in dropped \ read}
    BY DEF MarkLoadFailed, Manager
  <1>3. p \in Manager
    <2>1. p.index \in [Key -> SlotOrNone] /\ p.condemned \in [Key -> SlotOrNone]
      BY <1>1, <1>2 DEF SlotOrNone
    <2>2. p.free \in SUBSET Slot
      BY <1>1, <1>2 DEF SlotOrNone, Indexed
    <2>3. [k \in Key |-> IF k \in dropped THEN {} ELSE m.siblings[k]] \in [Key -> SUBSET Key]
      BY <1>1
    <2>4. Without(m.older, dropped) \in SUBSET (Key \X Key)
      BY <1>1 DEF Without
    <2> QED
      BY <1>1, <2>1, <2>2, <2>3, <2>4, <1>2 DEF MarkLoadFailed, Manager
  <1>4. OneOwnerIn(p)
    <2> USE SlabConstants DEF SlabConstants
    <2>1. Injective(p.index) /\ Injective(p.inflightStore) /\ Injective(p.condemned)
      BY <1>2 DEF OneOwnerIn, Injective, Apart
    <2>2. Apart(p.index, p.inflightStore) /\ Apart(p.index, p.condemned)
            /\ Apart(p.inflightStore, p.condemned)
      BY <1>2 DEF OneOwnerIn, Injective, Apart
    <2>3. \A k \in dropped, o \in Key :
             /\ m.index[k] # NoSlot
             /\ m.index[k] # m.inflightStore[o]
             /\ m.index[k] # m.condemned[o]
             /\ m.index[k] = m.index[o] => k = o
      BY DEF OneOwnerIn, Injective, Apart, Indexed
    <2>4. \A k \in Key : p.index[k] \notin p.free /\ p.inflightStore[k] \notin p.free
                           /\ p.condemned[k] \notin p.free
      BY <1>1, <1>2, <2>3 DEF OneOwnerIn
    <2> QED
      BY <2>1, <2>2, <2>4 DEF OneOwnerIn
  <1> QED
    BY <1>3, <1>4

\* complete_load frees a condemned slot once and keeps the counts natural.
LEMMA CompleteLoadLemma ==
    ASSUME SlabConstants,
           NEW m \in Manager, OneOwnerIn(m), NEW ends \in [Key -> Nat]
    PROVE  CompleteLoad(m, ends) \in Manager /\ OneOwnerIn(CompleteLoad(m, ends))
  <1> DEFINE last(k) == LastReader(m, ends, k)
             p == CompleteLoad(m, ends)
  <1>1. /\ m.index \in [Key -> SlotOrNone] /\ m.inflightStore \in [Key -> SlotOrNone]
        /\ m.condemned \in [Key -> SlotOrNone] /\ m.free \in SUBSET Slot
        /\ m.inflightLoad \in [Key -> Nat]
    BY DEF Manager
  <1>2. /\ p.index = m.index /\ p.inflightStore = m.inflightStore
        /\ p.condemned = [k \in Key |-> IF last(k) THEN NoSlot ELSE m.condemned[k]]
        /\ p.free = m.free \cup {m.condemned[k] :
                        k \in {c \in Key : last(c) /\ m.condemned[c] # NoSlot}}
        /\ p.inflightLoad = [k \in Key |-> IF last(k) THEN 0 ELSE m.inflightLoad[k] - ends[k]]
    BY DEF CompleteLoad, Manager
  <1>3. p \in Manager
    <2>1. p.condemned \in [Key -> SlotOrNone] /\ p.free \in SUBSET Slot
      BY <1>1, <1>2 DEF SlotOrNone
    <2>2. \A k \in Key : (IF last(k) THEN 0 ELSE m.inflightLoad[k] - ends[k]) \in Nat
      BY <1>1 DEF LastReader
    <2>3. p.inflightLoad \in [Key -> Nat]
      BY <1>2, <2>2
    <2> QED
      BY <1>2, <2>1, <2>3 DEF CompleteLoad, Manager
  <1>4. OneOwnerIn(p)
    <2> USE SlabConstants DEF SlabConstants
    <2>1. /\ Injective(p.index) /\ Injective(p.inflightStore) /\ Injective(p.condemned)
          /\ Apart(p.index, p.inflightStore) /\ Apart(p.index, p.condemned)
          /\ Apart(p.inflightStore, p.condemned)
      BY <1>2 DEF OneOwnerIn, Injective, Apart
    <2>2. \A k \in Key, o \in Key :
             m.condemned[k] # NoSlot =>
               /\ m.condemned[k] # m.inflightStore[o]
               /\ m.condemned[k] # m.index[o]
               /\ m.condemned[k] = m.condemned[o] => k = o
      BY DEF OneOwnerIn, Injective, Apart
    <2>3. \A k \in Key : p.index[k] \notin p.free /\ p.inflightStore[k] \notin p.free
                           /\ p.condemned[k] \notin p.free
      BY <1>1, <1>2, <2>2 DEF OneOwnerIn
    <2> QED
      BY <2>1, <2>3 DEF OneOwnerIn
  <1> QED
    BY <1>3, <1>4

\* prepare_load, mark_store_failed and an empty manager.
LEMMA SmallLemma ==
    ASSUME SlabConstants
    PROVE  /\ \A m \in Manager, K \in SUBSET Key : OneOwnerIn(m) =>
                /\ PrepareLoad(m, K) \in Manager /\ OneOwnerIn(PrepareLoad(m, K))
                /\ MarkStoreFailed(m, K) \in Manager /\ OneOwnerIn(MarkStoreFailed(m, K))
           /\ EmptyManager \in Manager /\ OneOwnerIn(EmptyManager)
  <1>1. ASSUME NEW m \in Manager, NEW K \in SUBSET Key, OneOwnerIn(m)
        PROVE  PrepareLoad(m, K) \in Manager /\ OneOwnerIn(PrepareLoad(m, K))
    <2>1. [k \in Key |-> IF k \in K THEN m.inflightLoad[k] + 1 ELSE m.inflightLoad[k]]
             \in [Key -> Nat]
      BY DEF Manager
    <2> QED BY <1>1, <2>1 DEF PrepareLoad, Manager, OneOwnerIn, Injective, Apart
  <1>2. ASSUME NEW m \in Manager, NEW K \in SUBSET Key, OneOwnerIn(m)
        PROVE  MarkStoreFailed(m, K) \in Manager /\ OneOwnerIn(MarkStoreFailed(m, K))
    BY <1>2 DEF MarkStoreFailed, Manager, OneOwnerIn, Injective, Apart
  <1>3. EmptyManager \in Manager /\ OneOwnerIn(EmptyManager)
    BY SlabConstants DEF SlabConstants, EmptyManager, Manager, SlotOrNone,
       OneOwnerIn, Injective, Apart
  <1> QED
    BY <1>1, <1>2, <1>3

----------------------------------------------------------------------------
(* Types and owners *)

\* The orders Orders yields are sets of key pairs.
LEMMA OrdersType == ASSUME NEW S, NEW o \in Orders(S) PROVE o \in SUBSET (Key \X Key)
  BY DEF Orders, SameGroup

\* A count of jobs is a natural number.
LEMMA EndsType ==
    ASSUME SlabFinite, NEW J
    PROVE  [k \in Key |-> Cardinality(Loading(k) \cap J)] \in [Key -> Nat]
  <1> SUFFICES ASSUME NEW k \in Key PROVE Cardinality(Loading(k) \cap J) \in Nat
    OBVIOUS
  <1>1. IsFiniteSet(Loading(k) \cap J)
    BY FS_Subset DEF SlabFinite, Loading
  <1> QED
    BY <1>1, FS_CardinalityType

\* The initial index, whatever the headers hold, gives every slot one owner.
LEMMA InitOwner == Init => TypeOK /\ OneOwner
  <1> SUFFICES ASSUME Init PROVE TypeOK /\ OneOwner
    OBVIOUS
  <1> USE SlabConstants DEF SlabConstants
  <1>0. PICK index \in [Key -> SlotOrNone] :
           /\ \A a, b \in Key : a # b /\ index[a] = index[b] => index[a] = NoSlot
           /\ \E older \in Orders({k \in Key : index[k] # NoSlot}) : mgr = Rebuilt(index, older)
    BY DEF Init
  <1>1. PICK older \in Orders({k \in Key : index[k] # NoSlot}) : mgr = Rebuilt(index, older)
    BY <1>0
  <1>2. older \in SUBSET (Key \X Key)
    BY OrdersType
  <1>3. /\ mgr.index = index /\ mgr.older = older
        /\ mgr.free = Slot \ {index[k] : k \in Key}
        /\ mgr.inflightStore = [k \in Key |-> NoSlot]
        /\ mgr.condemned = [k \in Key |-> NoSlot]
        /\ mgr \in Manager
    BY <1>1, <1>2 DEF Rebuilt, EmptyManager, Manager, SlotOrNone
  <1>4. OneOwnerIn(mgr)
    BY <1>0, <1>3 DEF OneOwnerIn, Injective, Apart
  <1>5. jobs \in [Job -> JobStatus]
    BY DEF Init, NoJob, JobStatus, SlotOrNone
  <1> QED
    BY <1>3, <1>4, <1>5 DEF TypeOK, OneOwner

\* Every step keeps the types and gives no slot a second owner.
LEMMA NextOwner == TypeOK /\ OneOwner /\ [Next]_vars => TypeOK' /\ OneOwner'
  <1> SUFFICES ASSUME TypeOK, OneOwner, [Next]_vars PROVE TypeOK' /\ OneOwner'
    OBVIOUS
  <1>0. mgr \in Manager /\ OneOwnerIn(mgr) /\ jobs \in [Job -> JobStatus]
    BY DEF TypeOK, OneOwner
  <1>a. NoJob \in JobStatus
    BY DEF NoJob, JobStatus, SlotOrNone
  <1>1. ASSUME NEW k \in Key, LookupHit(k) PROVE TypeOK' /\ OneOwner'
    <2> DEFINE used == {k} \cup (mgr.siblings[k] \cap Indexed(mgr))
    <2>1. PICK ord \in Orders(used) :
             mgr' = [mgr EXCEPT !.older = AtEnd(mgr.older, Indexed(mgr), used, ord)]
      BY <1>1, <1>0 DEF LookupHit, Manager
    <2>2. AtEnd(mgr.older, Indexed(mgr), used, ord) \in SUBSET (Key \X Key)
      <3>1. Indexed(mgr) \in SUBSET Key /\ used \in SUBSET Key
              /\ mgr.older \in SUBSET (Key \X Key)
        BY <1>0 DEF Indexed, Manager
      <3>2. ord \in SUBSET (Key \X Key)
        BY OrdersType
      <3> HIDE DEF used
      <3> QED BY <3>1, <3>2, AtEndType
    <2>3. mgr' \in Manager /\ OneOwnerIn(mgr')
      BY <1>0, <2>1, <2>2, OlderLemma
    <2> QED BY <1>0, <1>1, <2>3 DEF LookupHit, TypeOK, OneOwner
  <1>2. ASSUME NEW req \in Request, TouchRequest(req) PROVE TypeOK' /\ OneOwner'
    BY <1>0, <1>2, TouchLemma DEF TouchRequest, TypeOK, OneOwner
  <1>3. ASSUME NEW j \in Job, NEW req \in Request, NEW K \in SUBSET Range(req),
               BuildStoreJob(j, req, K)
        PROVE  TypeOK' /\ OneOwner'
    <2>1. K \in SUBSET Key
      BY SlabConstants DEF SlabConstants, Range
    <2>2. PICK at \in Placements(mgr, K) :
             /\ mgr' = Touch(PrepareStore(mgr, req, K, at), req)
             /\ jobs' = [jobs EXCEPT ![j] =
                   [kind |-> "store", todo |-> Rank, resets |-> 0,
                    at |-> [k \in Key |-> IF k \in NewKeys(mgr, K) THEN at[k] ELSE NoSlot]]]
      BY <1>3 DEF BuildStoreJob
    <2>3. mgr' \in Manager /\ OneOwnerIn(mgr')
      BY <1>0, <2>1, <2>2, SlabConstants, PrepareStoreLemma, TouchLemma
    <2>4. \A k \in NewKeys(mgr, K) : at[k] \in SlotOrNone
      <3>1. \A v \in Victims(mgr, K) : mgr.index[v] \in SlotOrNone
        BY <1>0 DEF Manager, Victims, Indexed
      <3>2. mgr.free \subseteq SlotOrNone
        BY <1>0 DEF Manager, SlotOrNone
      <3> QED BY <3>1, <3>2 DEF Placements
    <2>5. jobs' \in [Job -> JobStatus]
      BY <1>0, <2>2, <2>4 DEF JobStatus, SlotOrNone
    <2> QED BY <2>3, <2>5 DEF TypeOK, OneOwner
  <1>4. ASSUME NEW j \in Job, NEW req \in Request, NEW K \in SUBSET Range(req),
               StartLoad(j, req, K)
        PROVE  TypeOK' /\ OneOwner'
    <2>1. K \in SUBSET Key
      BY SlabConstants DEF SlabConstants, Range
    <2>2. mgr' \in Manager /\ OneOwnerIn(mgr')
      BY <1>0, <1>4, <2>1, SlabConstants, SmallLemma DEF StartLoad
    <2>3. [k \in Key |-> IF k \in K THEN mgr.index[k] ELSE NoSlot] \in [Key -> SlotOrNone]
      BY <1>0 DEF Manager, SlotOrNone
    <2>4. jobs' \in [Job -> JobStatus]
      BY <1>0, <1>4, <2>3 DEF StartLoad, JobStatus
    <2> QED BY <2>2, <2>4 DEF TypeOK, OneOwner
  <1>5. ASSUME NEW done \in [Job -> SUBSET Rank], NEW failed \in SUBSET Job,
               UpdateConnectorOutput(done, failed)
        PROVE  TypeOK' /\ OneOwner'
    <2> DEFINE KeysIn(J, kind) == UNION {KeysOf(j) : j \in {i \in J : jobs[i].kind = kind}}
               complete == Completed(done)
               ends == [k \in Key |-> Cardinality(Loading(k) \cap complete)]
               dropped == MarkLoadFailed(mgr, KeysIn(failed, "load"))
               marked == MarkStoreFailed(dropped, KeysIn(failed, "store"))
    <2>1. PICK ord \in Orders(KeysIn(complete, "store") \ marked.failedStore) :
             mgr' = CompleteLoad(CompleteStore(marked, KeysIn(complete, "store"), ord), ends)
      BY <1>5 DEF UpdateConnectorOutput
    <2>2. \A J, kind : KeysIn(J, kind) \in SUBSET Key
      BY DEF KeysOf
    <2>3. ends \in [Key -> Nat]
      BY SlabFinite, EndsType
    <2>4. ord \in SUBSET (Key \X Key)
      BY OrdersType
    <2> HIDE DEF KeysIn, ends, complete
    <2>5. dropped \in Manager /\ OneOwnerIn(dropped)
      BY <1>0, <2>2, SlabConstants, MarkLoadFailedLemma
    <2>6. marked \in Manager /\ OneOwnerIn(marked)
      <3> HIDE DEF dropped
      <3> QED BY <2>2, <2>5, SlabConstants, SmallLemma
    <2>7. mgr' \in Manager /\ OneOwnerIn(mgr')
      <3> HIDE DEF marked
      <3> DEFINE stored == CompleteStore(marked, KeysIn(complete, "store"), ord)
      <3>1. stored \in Manager /\ OneOwnerIn(stored)
        BY <2>2, <2>4, <2>6, SlabConstants, CompleteStoreLemma
      <3> HIDE DEF stored
      <3>2. CompleteLoad(stored, ends) \in Manager /\ OneOwnerIn(CompleteLoad(stored, ends))
        BY <2>3, <3>1, SlabConstants, CompleteLoadLemma
      <3> QED BY <2>1, <3>2 DEF stored
    <2>8. jobs' \in [Job -> JobStatus]
      BY <1>0, <1>a, <1>5 DEF UpdateConnectorOutput, JobStatus
    <2> QED BY <2>7, <2>8 DEF TypeOK, OneOwner
  <1>6. CASE ResetCache
    <2>1. mgr' \in Manager /\ OneOwnerIn(mgr')
      BY <1>6, SlabConstants, SmallLemma DEF ResetCache
    <2>2. ASSUME NEW j \in Job
          PROVE  [jobs[j] EXCEPT !.resets = jobs[j].resets + 1] \in JobStatus
      BY <1>0 DEF JobStatus
    <2>3. jobs' \in [Job -> JobStatus]
      BY <1>a, <1>6, <2>2 DEF ResetCache
    <2> QED BY <2>1, <2>3 DEF TypeOK, OneOwner
  <1>7. ASSUME NEW j \in Job, NEW r \in Rank, FinishStale(j, r) PROVE TypeOK' /\ OneOwner'
    <2>1. jobs' \in [Job -> JobStatus]
      BY <1>0, <1>a, <1>7 DEF FinishStale, JobStatus
    <2> QED BY <1>0, <1>7, <2>1 DEF FinishStale, TypeOK, OneOwner
  <1>8. CASE UNCHANGED vars
    BY <1>8 DEF vars, TypeOK, OneOwner
  <1> QED
    BY <1>1, <1>2, <1>3, <1>4, <1>5, <1>6, <1>7, <1>8 DEF Next

\* The manager and the job table keep their types, and whatever the order of
\* stores, loads, failures, evictions and resets, a slot never has two owners.
THEOREM SlotOwnership == Spec => [](TypeOK /\ OneOwner)
  <1>1. Init => TypeOK /\ OneOwner
    BY InitOwner
  <1>2. TypeOK /\ OneOwner /\ [Next]_vars => (TypeOK /\ OneOwner)'
    BY NextOwner
  <1> QED
    BY <1>1, <1>2, PTL DEF Spec
----------------------------------------------------------------------------
(* The books and the readers *)

\* The live store jobs of a key.
Writers(k) == {j \in Job : Live(j) /\ jobs[j].kind = "store" /\ jobs[j].at[k] # NoSlot}

\* PendingMatchesJobs in the form the proofs use.
Pending ==
    \A k \in Key :
        /\ mgr.inflightLoad[k] = Cardinality(Loading(k))
        /\ mgr.inflightStore[k] = NoSlot <=> Writers(k) = {}
        /\ \A j \in Writers(k) : jobs[j].at[k] = mgr.inflightStore[k]
        /\ \A i, j \in Writers(k) : i = j

\* A name without a job is NoJob, and a live job waits for the report of a rank.
JobsWell ==
    \A j \in Job : /\ jobs[j].kind = "none" => jobs[j] = NoJob
                   /\ Live(j) => jobs[j].todo # {}

\* Two jobs that the same resets made stale and that share a slot both read it.
StaleApart ==
    \A i, j \in Job : \A a, b \in Key :
        /\ i # j
        /\ jobs[i].resets > 0 /\ jobs[i].resets = jobs[j].resets
        /\ jobs[i].at[a] # NoSlot /\ jobs[i].at[a] = jobs[j].at[b]
        => jobs[i].kind = "load" /\ jobs[j].kind = "load"

SlabInv ==
    /\ TypeOK
    /\ OneOwner
    /\ Pending
    /\ FailureNotInherited
    /\ CondemnedHasReader
    /\ ReadersKeepSlot
    /\ JobsWell
    /\ StaleApart

\* The two forms of the agreement between the manager and the jobs.
LEMMA PendingForms ==
    ASSUME TypeOK, Pending
    PROVE  PendingMatchesJobs
  <1> SUFFICES ASSUME NEW k \in Key
               PROVE  IF mgr.inflightStore[k] = NoSlot THEN Writers(k) = {}
                      ELSE \E j \in Job : Writers(k) = {j}
                                          /\ jobs[j].at[k] = mgr.inflightStore[k]
    BY DEF PendingMatchesJobs, Pending, Writers
  <1>1. CASE mgr.inflightStore[k] = NoSlot
    BY <1>1 DEF Pending
  <1>2. CASE mgr.inflightStore[k] # NoSlot
    <2>1. PICK j \in Writers(k) : TRUE
      BY <1>2 DEF Pending
    <2>2. Writers(k) = {j} /\ jobs[j].at[k] = mgr.inflightStore[k]
      BY <2>1 DEF Pending
    <2> QED BY <1>2, <2>1, <2>2 DEF Writers
  <1> QED BY <1>1, <1>2

\* The readers of a key are finitely many, and none exactly when the count is 0.
LEMMA LoadingFinite ==
    ASSUME NEW k
    PROVE  /\ IsFiniteSet(Loading(k)) /\ Cardinality(Loading(k)) \in Nat
           /\ Cardinality(Loading(k)) = 0 <=> Loading(k) = {}
  <1>1. IsFiniteSet(Loading(k))
    BY SlabFinite, FS_Subset DEF SlabFinite, Loading
  <1> QED BY <1>1, FS_CardinalityType, FS_EmptySet

\* What prepare_store and the touch after it leave in the manager's fields.
LEMMA StoreFields ==
    ASSUME NEW m \in Manager, NEW req, NEW K, NEW at
    PROVE  LET p == Touch(PrepareStore(m, req, K, at), req)
               gone == Victims(m, K)
               new == NewKeys(m, K)
           IN  /\ p.index = [k \in Key |-> IF k \in gone THEN NoSlot ELSE m.index[k]]
               /\ p.inflightStore = [k \in Key |-> IF k \in new THEN at[k]
                                                   ELSE m.inflightStore[k]]
               /\ p.condemned = m.condemned
               /\ p.free = m.free \ {at[k] : k \in new}
               /\ p.inflightLoad = m.inflightLoad
               /\ p.failedStore = m.failedStore
  <1> DEFINE q == PrepareStore(m, req, K, at)
             gone == Victims(m, K)
             new == NewKeys(m, K)
  <1>1. /\ q.index = [k \in Key |-> IF k \in gone THEN NoSlot ELSE m.index[k]]
        /\ q.inflightStore = [k \in Key |-> IF k \in new THEN at[k] ELSE m.inflightStore[k]]
        /\ q.condemned = m.condemned
        /\ q.free = m.free \ {at[k] : k \in new}
        /\ q.inflightLoad = m.inflightLoad
        /\ q.failedStore = m.failedStore
    BY DEF PrepareStore, Manager
  <1>2. DOMAIN q = DOMAIN m
    BY DEF PrepareStore
  <1> HIDE DEF q
  <1>3. \A o : LET p == [q EXCEPT !.older = o]
               IN  /\ p.index = q.index /\ p.inflightStore = q.inflightStore
                   /\ p.condemned = q.condemned /\ p.free = q.free
                   /\ p.inflightLoad = q.inflightLoad /\ p.failedStore = q.failedStore
    BY <1>2 DEF Manager
  <1> QED
    BY <1>1, <1>3 DEF Touch, q

\* What one step's reports leave in the manager's fields: mark_load_failed(L),
\* mark_store_failed(F), complete_store(C), then complete_load with the counts ends.
Reported(m, L, F, C, ends, p) ==
    LET dropped == L \cap Indexed(m)
        read == {k \in dropped : m.inflightLoad[k] > 0}
        marks == m.failedStore \cup F
        done == {k \in C : m.inflightStore[k] # NoSlot}
        cond == [k \in Key |-> IF k \in read THEN m.index[k] ELSE m.condemned[k]]
        last == {k \in Key : LastReader(m, ends, k)}
    IN  /\ p.index = [k \in Key |-> IF k \in done \ marks THEN m.inflightStore[k]
                                    ELSE IF k \in dropped THEN NoSlot ELSE m.index[k]]
        /\ p.inflightStore = [k \in Key |-> IF k \in done THEN NoSlot ELSE m.inflightStore[k]]
        /\ p.condemned = [k \in Key |-> IF k \in last THEN NoSlot ELSE cond[k]]
        /\ p.free = ((m.free \cup {m.index[k] : k \in dropped \ read})
                        \cup {m.inflightStore[k] : k \in done \cap marks})
                        \cup {cond[k] : k \in {c \in last : cond[c] # NoSlot}}
        /\ p.inflightLoad = [k \in Key |-> IF k \in last THEN 0
                                           ELSE m.inflightLoad[k] - ends[k]]
        /\ p.failedStore = marks \ done

\* The four methods, called in that order, have this effect together.
LEMMA ReportFields ==
    ASSUME NEW m \in Manager, NEW L \in SUBSET Key, NEW F \in SUBSET Key,
           NEW C \in SUBSET Key, NEW ord, NEW ends
    PROVE  Reported(m, L, F, C, ends, CompleteLoad(CompleteStore(
               MarkStoreFailed(MarkLoadFailed(m, L), F), C, ord), ends))
  <1> DEFINE dropped == L \cap Indexed(m)
             read == {k \in dropped : m.inflightLoad[k] > 0}
             marks == m.failedStore \cup F
             done == {k \in C : m.inflightStore[k] # NoSlot}
             cond == [k \in Key |-> IF k \in read THEN m.index[k] ELSE m.condemned[k]]
             last == {k \in Key : LastReader(m, ends, k)}
             m1 == MarkLoadFailed(m, L)
             m2 == MarkStoreFailed(m1, F)
             m3 == CompleteStore(m2, C, ord)
             m4 == CompleteLoad(m3, ends)
             Fields(p) == DOMAIN p = {"index", "older", "free", "inflightStore",
                                      "inflightLoad", "condemned", "failedStore", "siblings"}
  <1>1. /\ m1.index = [k \in Key |-> IF k \in dropped THEN NoSlot ELSE m.index[k]]
        /\ m1.condemned = cond
        /\ m1.free = m.free \cup {m.index[k] : k \in dropped \ read}
        /\ m1.inflightStore = m.inflightStore /\ m1.inflightLoad = m.inflightLoad
        /\ m1.failedStore = m.failedStore
        /\ Fields(m1)
    BY DEF MarkLoadFailed, Manager
  <1> HIDE DEF m1
  <1>2. /\ m2.index = m1.index /\ m2.condemned = m1.condemned /\ m2.free = m1.free
        /\ m2.inflightStore = m1.inflightStore /\ m2.inflightLoad = m1.inflightLoad
        /\ m2.failedStore = m1.failedStore \cup F
        /\ Fields(m2)
    BY <1>1 DEF MarkStoreFailed
  <1> HIDE DEF m2, dropped, read, marks, cond
  <1>3. done = {k \in C : m2.inflightStore[k] # NoSlot} /\ marks = m2.failedStore
    BY <1>1, <1>2 DEF marks
  <1> HIDE DEF done
  <1>4. /\ m3.index = [k \in Key |-> IF k \in done \ marks THEN m2.inflightStore[k]
                                     ELSE m2.index[k]]
        /\ m3.inflightStore = [k \in Key |-> IF k \in done THEN NoSlot
                                             ELSE m2.inflightStore[k]]
        /\ m3.free = m2.free \cup {m2.inflightStore[k] : k \in done \cap marks}
        /\ m3.failedStore = marks \ done
        /\ m3.condemned = m2.condemned /\ m3.inflightLoad = m2.inflightLoad
        /\ Fields(m3)
    BY <1>2, <1>3 DEF CompleteStore
  <1> HIDE DEF m3
  <1>5. last = {k \in Key : LastReader(m3, ends, k)}
    BY <1>1, <1>2, <1>4 DEF LastReader
  <1> HIDE DEF last
  <1>6. /\ m4.inflightLoad = [k \in Key |-> IF k \in last THEN 0
                                            ELSE m3.inflightLoad[k] - ends[k]]
        /\ m4.free = m3.free \cup {m3.condemned[k] :
                                       k \in {c \in last : m3.condemned[c] # NoSlot}}
        /\ m4.condemned = [k \in Key |-> IF k \in last THEN NoSlot ELSE m3.condemned[k]]
        /\ m4.index = m3.index /\ m4.inflightStore = m3.inflightStore
        /\ m4.failedStore = m3.failedStore
    BY <1>4, <1>5 DEF CompleteLoad
  <1> HIDE DEF m4
  <1>7. /\ m4.index = [k \in Key |-> IF k \in done \ marks THEN m.inflightStore[k]
                                     ELSE IF k \in dropped THEN NoSlot ELSE m.index[k]]
        /\ m4.inflightStore = [k \in Key |-> IF k \in done THEN NoSlot
                                             ELSE m.inflightStore[k]]
        /\ m4.condemned = [k \in Key |-> IF k \in last THEN NoSlot ELSE cond[k]]
    BY <1>1, <1>2, <1>4, <1>6
  <1>8. m4.free = ((m.free \cup {m.index[k] : k \in dropped \ read})
                      \cup {m.inflightStore[k] : k \in done \cap marks})
                      \cup {cond[k] : k \in {c \in last : cond[c] # NoSlot}}
    BY <1>1, <1>2, <1>4, <1>6
  <1>9. /\ m4.inflightLoad = [k \in Key |-> IF k \in last THEN 0
                                            ELSE m.inflightLoad[k] - ends[k]]
        /\ m4.failedStore = marks \ done
    BY <1>1, <1>2, <1>4, <1>6
  <1> QED
    BY <1>7, <1>8, <1>9 DEF Reported, m4, m3, m2, m1, dropped, read, marks, done, cond, last

\* Facts of a job that starts under a name nobody uses.
LEMMA NewJobFacts ==
    ASSUME TypeOK, NEW j \in Job, jobs[j] = NoJob,
           NEW kind \in {"store", "load"}, NEW at \in [Key -> SlotOrNone],
           jobs' = [jobs EXCEPT ![j] = [kind |-> kind, todo |-> Rank, resets |-> 0, at |-> at]]
    PROVE  /\ jobs'[j].kind = kind /\ jobs'[j].at = at
           /\ jobs'[j].todo = Rank /\ jobs'[j].resets = 0
           /\ \A i \in Job \ {j} : jobs'[i] = jobs[i]
           /\ ~Live(j)
           /\ \A k \in Key : j \notin Loading(k) /\ j \notin Writers(k)
  <1>1. j \in DOMAIN jobs
    BY DEF TypeOK
  <1>2. jobs'[j] = [kind |-> kind, todo |-> Rank, resets |-> 0, at |-> at]
    BY <1>1
  <1>3. \A i \in Job \ {j} : jobs'[i] = jobs[i]
    BY DEF TypeOK
  <1>4. ~Live(j)
    BY DEF Live, NoJob
  <1> QED BY <1>2, <1>3, <1>4 DEF Loading, Writers

\* The slots a store takes are read by no load: they were free, or their key had
\* no reader.
LEMMA TakenUnread ==
    ASSUME SlabInv, NEW K \in SUBSET Key, NEW at \in Placements(mgr, K),
           NEW n \in NewKeys(mgr, K), NEW k \in Key, NEW i \in Loading(k)
    PROVE  /\ at[n] # jobs[i].at[k]
           /\ at[n] # NoSlot
           /\ at[n] \in Slot
  <1>1. at[n] \in mgr.free \/ \E v \in Victims(mgr, K) : at[n] = mgr.index[v]
    BY DEF Placements
  <1>2. mgr.index \in [Key -> SlotOrNone] /\ mgr.free \in SUBSET Slot
    BY DEF SlabInv, TypeOK, Manager
  <1>3. CASE at[n] \in mgr.free
    BY <1>2, <1>3, SlabConstants DEF SlabInv, ReadersKeepSlot, SlabConstants
  <1>4. ASSUME NEW v \in Victims(mgr, K), at[n] = mgr.index[v]
        PROVE  at[n] # jobs[i].at[k] /\ at[n] # NoSlot /\ at[n] \in Slot
    <2>1. v \in Key /\ mgr.index[v] # NoSlot /\ mgr.inflightLoad[v] = 0
      BY DEF Victims, Evictable, Indexed
    <2>2. Loading(v) = {}
      BY <2>1, LoadingFinite DEF SlabInv, Pending
    <2>3. v # k
      BY <2>2
    <2> QED BY <1>2, <1>4, <2>1, <2>3 DEF SlabInv, ReadersKeepSlot, SlotOrNone
  <1> QED BY <1>1, <1>3, <1>4

\* The slots a store takes are slots.
LEMMA TakenType ==
    ASSUME SlabInv, NEW K \in SUBSET Key, NEW at \in Placements(mgr, K),
           NEW n \in NewKeys(mgr, K)
    PROVE  at[n] \in Slot /\ at[n] # NoSlot
  <1>1. at[n] \in mgr.free \/ \E v \in Victims(mgr, K) : at[n] = mgr.index[v]
    BY DEF Placements
  <1>2. mgr.index \in [Key -> SlotOrNone] /\ mgr.free \in SUBSET Slot
    BY DEF SlabInv, TypeOK, Manager
  <1> QED BY <1>1, <1>2, SlabConstants DEF SlabConstants, Victims, Indexed, SlotOrNone

\* That two live jobs share a slot only to read it follows from the books.
LEMMA LiveApart ==
    ASSUME TypeOK, OneOwner, Pending, ReadersKeepSlot,
           NEW i \in Job, NEW j \in Job, NEW a \in Key, NEW b \in Key,
           i # j, Live(i), Live(j), jobs[i].at[a] # NoSlot, jobs[i].at[a] = jobs[j].at[b]
    PROVE  jobs[i].kind = "load" /\ jobs[j].kind = "load"
  <1>0. jobs[i].kind \in {"store", "load"} /\ jobs[j].kind \in {"store", "load"}
    BY DEF TypeOK, JobStatus, Live
  <1>1. CASE jobs[i].kind = "store" /\ jobs[j].kind = "store"
    <2>1. i \in Writers(a) /\ j \in Writers(b)
      BY <1>1 DEF Writers
    <2>2. mgr.inflightStore[a] = mgr.inflightStore[b] /\ mgr.inflightStore[a] # NoSlot
      BY <2>1 DEF Pending
    <2>3. a = b
      BY <2>2 DEF OneOwner, OneOwnerIn, Injective
    <2> QED BY <2>1, <2>3 DEF Pending
  <1>2. CASE jobs[i].kind = "store" /\ jobs[j].kind = "load"
    <2>1. i \in Writers(a) /\ j \in Loading(b)
      BY <1>2 DEF Writers, Loading
    <2> QED BY <2>1 DEF Pending, ReadersKeepSlot
  <1>3. CASE jobs[i].kind = "load" /\ jobs[j].kind = "store"
    <2>1. i \in Loading(a) /\ j \in Writers(b)
      BY <1>3 DEF Writers, Loading
    <2> QED BY <2>1 DEF Pending, ReadersKeepSlot
  <1> QED BY <1>0, <1>1, <1>2, <1>3

\* A step that reorders recency only keeps the invariant.
LEMMA RecencyInv ==
    ASSUME SlabInv, NEW o, mgr' = [mgr EXCEPT !.older = o], UNCHANGED jobs, TypeOK'
    PROVE  SlabInv'
  <1>1. /\ mgr'.index = mgr.index /\ mgr'.free = mgr.free
        /\ mgr'.inflightStore = mgr.inflightStore /\ mgr'.inflightLoad = mgr.inflightLoad
        /\ mgr'.condemned = mgr.condemned /\ mgr'.failedStore = mgr.failedStore
    BY DEF SlabInv, TypeOK, Manager
  <1>2. \A k : Loading(k)' = Loading(k) /\ Writers(k)' = Writers(k)
    BY DEF Loading, Writers, Live
  <1>3. OneOwner'
    BY <1>1 DEF SlabInv, OneOwner, OneOwnerIn, Injective, Apart
  <1>4. Pending'
    BY <1>1, <1>2 DEF SlabInv, Pending
  <1>5. FailureNotInherited' /\ CondemnedHasReader' /\ ReadersKeepSlot'
    BY <1>1, <1>2 DEF SlabInv, FailureNotInherited, CondemnedHasReader, ReadersKeepSlot
  <1>6. JobsWell' /\ StaleApart'
    BY DEF SlabInv, JobsWell, StaleApart, Live
  <1> QED BY <1>3, <1>4, <1>5, <1>6 DEF SlabInv

\* A new store keeps the invariant.
LEMMA BuildStoreInv ==
    ASSUME SlabInv, NEW j \in Job, NEW req \in Request, NEW K \in SUBSET Range(req),
           BuildStoreJob(j, req, K), TypeOK', OneOwner'
    PROVE  SlabInv'
  <1>1. K \in SUBSET Key
    BY SlabConstants DEF SlabConstants, Range
  <1>2. PICK at \in Placements(mgr, K) :
           /\ mgr' = Touch(PrepareStore(mgr, req, K, at), req)
           /\ jobs' = [jobs EXCEPT ![j] =
                 [kind |-> "store", todo |-> Rank, resets |-> 0,
                  at |-> [k \in Key |-> IF k \in NewKeys(mgr, K) THEN at[k] ELSE NoSlot]]]
    BY DEF BuildStoreJob
  <1> DEFINE new == NewKeys(mgr, K)
             gone == Victims(mgr, K)
             slots == [k \in Key |-> IF k \in new THEN at[k] ELSE NoSlot]
  <1>3. /\ mgr'.index = [k \in Key |-> IF k \in gone THEN NoSlot ELSE mgr.index[k]]
        /\ mgr'.inflightStore = [k \in Key |-> IF k \in new THEN at[k]
                                               ELSE mgr.inflightStore[k]]
        /\ mgr'.condemned = mgr.condemned
        /\ mgr'.free = mgr.free \ {at[k] : k \in new}
        /\ mgr'.inflightLoad = mgr.inflightLoad
        /\ mgr'.failedStore = mgr.failedStore
    <2>1. mgr \in Manager
      BY DEF SlabInv, TypeOK
    <2> QED BY <1>2, <2>1, StoreFields
  <1>4. new \subseteq Key /\ \A n \in new : at[n] \in Slot /\ at[n] # NoSlot
    BY <1>1, TakenType DEF NewKeys
  <1>5. slots \in [Key -> SlotOrNone]
    BY <1>4 DEF SlotOrNone
  <1> HIDE DEF slots
  <1>6. /\ jobs'[j].kind = "store" /\ jobs'[j].at = slots
        /\ jobs'[j].todo = Rank /\ jobs'[j].resets = 0
        /\ \A i \in Job \ {j} : jobs'[i] = jobs[i]
        /\ ~Live(j)
        /\ \A k \in Key : j \notin Loading(k) /\ j \notin Writers(k)
    <2>1. jobs[j] = NoJob
      BY DEF BuildStoreJob
    <2>2. jobs' = [jobs EXCEPT ![j] =
                     [kind |-> "store", todo |-> Rank, resets |-> 0, at |-> slots]]
      BY <1>2 DEF slots
    <2> QED BY <1>5, <2>1, <2>2, NewJobFacts DEF SlabInv
  <1>7. \A k \in Key : slots[k] = IF k \in new THEN at[k] ELSE NoSlot
    BY DEF slots
  <1>8. \A k \in Key : Loading(k)' = Loading(k)
    BY <1>6 DEF Loading, Live
  <1>9. \A k \in Key : Writers(k)' = IF k \in new THEN Writers(k) \cup {j} ELSE Writers(k)
    BY <1>4, <1>6, <1>7 DEF Writers, Live
  <1>10. Pending'
    <2> SUFFICES ASSUME NEW k \in Key
                 PROVE  /\ mgr'.inflightLoad[k] = Cardinality(Loading(k)')
                        /\ mgr'.inflightStore[k] = NoSlot <=> Writers(k)' = {}
                        /\ \A i \in Writers(k)' : jobs'[i].at[k] = mgr'.inflightStore[k]
                        /\ \A h, i \in Writers(k)' : h = i
      BY DEF Pending
    <2>1. mgr'.inflightLoad[k] = Cardinality(Loading(k)')
      BY <1>3, <1>8 DEF SlabInv, Pending
    <2>2. CASE k \in new
      <3>1. Writers(k) = {}
        BY <2>2 DEF SlabInv, Pending, NewKeys
      <3> QED BY <1>3, <1>4, <1>6, <1>7, <1>9, <2>1, <2>2, <3>1
    <2>3. CASE k \notin new
      <3>1. Writers(k)' = Writers(k) /\ mgr'.inflightStore[k] = mgr.inflightStore[k]
        BY <1>3, <1>9, <2>3
      <3>2. \A i \in Writers(k) : i \in Job \ {j} /\ jobs'[i] = jobs[i]
        BY <1>6 DEF Writers
      <3> QED BY <2>1, <3>1, <3>2 DEF SlabInv, Pending
    <2> QED BY <2>2, <2>3
  <1>11. FailureNotInherited'
    BY <1>3, <1>4 DEF SlabInv, TypeOK, Manager, FailureNotInherited
  <1>12. CondemnedHasReader'
    <2>1. \A k \in Key : \A i \in Loading(k) : jobs'[i] = jobs[i]
      BY <1>6 DEF Loading
    <2> QED BY <1>3, <1>8, <2>1 DEF SlabInv, CondemnedHasReader
  <1>13. ReadersKeepSlot'
    <2> SUFFICES ASSUME NEW k \in Key, NEW i \in Loading(k)
                 PROVE  /\ jobs'[i].at[k] \notin mgr'.free
                        /\ \A o \in Key : mgr'.inflightStore[o] # jobs'[i].at[k]
                        /\ \A o \in Key \ {k} : /\ mgr'.index[o] # jobs'[i].at[k]
                                                /\ mgr'.condemned[o] # jobs'[i].at[k]
      BY <1>8 DEF ReadersKeepSlot
    <2>1. jobs'[i] = jobs[i] /\ jobs[i].at[k] # NoSlot
      BY <1>6 DEF Loading
    <2>2. \A n \in new : at[n] # jobs[i].at[k]
      BY <1>1, TakenUnread
    <2> QED BY <1>3, <2>1, <2>2 DEF SlabInv, ReadersKeepSlot
  <1>14. JobsWell'
    BY <1>6, SlabConstants DEF SlabInv, JobsWell, Live, SlabConstants
  <1>15. StaleApart'
    BY <1>6 DEF SlabInv, StaleApart
  <1> QED
    BY <1>10, <1>11, <1>12, <1>13, <1>14, <1>15 DEF SlabInv

\* A new load keeps the invariant.
LEMMA StartLoadInv ==
    ASSUME SlabInv, NEW j \in Job, NEW req \in Request, NEW K \in SUBSET Range(req),
           StartLoad(j, req, K), TypeOK', OneOwner'
    PROVE  SlabInv'
  <1>1. K \in SUBSET Key /\ K \subseteq Indexed(mgr)
    BY SlabConstants DEF SlabConstants, Range, StartLoad
  <1> DEFINE slots == [k \in Key |-> IF k \in K THEN mgr.index[k] ELSE NoSlot]
  <1>2. /\ mgr'.index = mgr.index /\ mgr'.inflightStore = mgr.inflightStore
        /\ mgr'.condemned = mgr.condemned /\ mgr'.free = mgr.free
        /\ mgr'.failedStore = mgr.failedStore
        /\ mgr'.inflightLoad = [k \in Key |-> IF k \in K THEN mgr.inflightLoad[k] + 1
                                              ELSE mgr.inflightLoad[k]]
    BY DEF StartLoad, PrepareLoad, SlabInv, TypeOK, Manager
  <1>3. slots \in [Key -> SlotOrNone]
    BY DEF SlabInv, TypeOK, Manager, SlotOrNone
  <1>4. jobs' = [jobs EXCEPT ![j] =
                   [kind |-> "load", todo |-> Rank, resets |-> 0, at |-> slots]]
    BY DEF StartLoad
  <1> HIDE DEF slots
  <1>5. /\ jobs'[j].kind = "load" /\ jobs'[j].at = slots
        /\ jobs'[j].todo = Rank /\ jobs'[j].resets = 0
        /\ \A i \in Job \ {j} : jobs'[i] = jobs[i]
        /\ ~Live(j)
        /\ \A k \in Key : j \notin Loading(k) /\ j \notin Writers(k)
    <2>1. jobs[j] = NoJob
      BY DEF StartLoad
    <2> QED BY <1>3, <1>4, <2>1, NewJobFacts DEF SlabInv
  <1>6. \A k \in Key : /\ k \in K => slots[k] = mgr.index[k] /\ slots[k] # NoSlot
                       /\ k \notin K => slots[k] = NoSlot
    BY <1>1 DEF slots, Indexed
  <1>7. \A k \in Key : Loading(k)' = IF k \in K THEN Loading(k) \cup {j} ELSE Loading(k)
    BY <1>5, <1>6 DEF Loading, Live
  <1>8. \A k \in Key : Writers(k)' = Writers(k)
    BY <1>5 DEF Writers, Live
  <1>9. Pending'
    <2> SUFFICES ASSUME NEW k \in Key
                 PROVE  /\ mgr'.inflightLoad[k] = Cardinality(Loading(k)')
                        /\ mgr'.inflightStore[k] = NoSlot <=> Writers(k)' = {}
                        /\ \A i \in Writers(k)' : jobs'[i].at[k] = mgr'.inflightStore[k]
                        /\ \A h, i \in Writers(k)' : h = i
      BY DEF Pending
    <2>1. mgr'.inflightLoad[k] = Cardinality(Loading(k)')
      <3>1. mgr.inflightLoad[k] = Cardinality(Loading(k))
        BY DEF SlabInv, Pending
      <3>2. Cardinality(Loading(k) \cup {j}) = Cardinality(Loading(k)) + 1
        BY <1>5, LoadingFinite, FS_AddElement
      <3> QED BY <1>2, <1>7, <3>1, <3>2
    <2>2. \A i \in Writers(k) : jobs'[i] = jobs[i]
      BY <1>5 DEF Writers
    <2> QED BY <1>2, <1>8, <2>1, <2>2 DEF SlabInv, Pending
  <1>10. FailureNotInherited'
    BY <1>2 DEF SlabInv, FailureNotInherited
  <1>11. CondemnedHasReader'
    <2>1. \A k \in Key : Loading(k) \subseteq Loading(k)'
                         /\ \A i \in Loading(k) : jobs'[i] = jobs[i]
      BY <1>5, <1>7 DEF Loading
    <2> QED BY <1>2, <2>1 DEF SlabInv, CondemnedHasReader
  <1>12. ReadersKeepSlot'
    <2> SUFFICES ASSUME NEW k \in Key, NEW i \in Loading(k)'
                 PROVE  /\ jobs'[i].at[k] \notin mgr.free
                        /\ \A o \in Key : mgr.inflightStore[o] # jobs'[i].at[k]
                        /\ \A o \in Key \ {k} : /\ mgr.index[o] # jobs'[i].at[k]
                                                /\ mgr.condemned[o] # jobs'[i].at[k]
      BY <1>2 DEF ReadersKeepSlot
    <2>1. CASE i = j
      <3>1. k \in K /\ jobs'[i].at[k] = mgr.index[k] /\ mgr.index[k] # NoSlot
        BY <1>5, <1>6, <1>7, <2>1
      <3> QED BY <3>1 DEF SlabInv, OneOwner, OneOwnerIn, Injective, Apart
    <2>2. CASE i # j
      <3>1. i \in Loading(k) /\ jobs'[i] = jobs[i]
        BY <1>5, <1>7, <2>2 DEF Loading
      <3> QED BY <3>1 DEF SlabInv, ReadersKeepSlot
    <2> QED BY <2>1, <2>2
  <1>13. JobsWell'
    BY <1>5, SlabConstants DEF SlabInv, JobsWell, Live, SlabConstants
  <1>14. StaleApart'
    BY <1>5 DEF SlabInv, StaleApart
  <1> QED
    BY <1>9, <1>10, <1>11, <1>12, <1>13, <1>14 DEF SlabInv

\* The jobs after one step's reports: those every rank has reported are gone.
LEMMA ReportJobs ==
    ASSUME TypeOK, JobsWell, NEW done \in [Job -> SUBSET Rank], NEW failed \in SUBSET Job,
           UpdateConnectorOutput(done, failed)
    PROVE  /\ \A j \in Job : done[j] # {} => Live(j) /\ done[j] \subseteq jobs[j].todo
           /\ \A j \in Completed(done) : Live(j) /\ jobs'[j] = NoJob
           /\ \A j \in Job \ Completed(done) :
                 /\ jobs'[j].kind = jobs[j].kind /\ jobs'[j].at = jobs[j].at
                 /\ jobs'[j].resets = jobs[j].resets
                 /\ jobs'[j].todo = jobs[j].todo \ done[j]
                 /\ Live(j) => jobs'[j].todo # {}
                 /\ ~Live(j) => jobs'[j] = jobs[j]
           /\ \A k \in Key : /\ Loading(k)' = Loading(k) \ Completed(done)
                             /\ Writers(k)' = Writers(k) \ Completed(done)
  <1>1. \A j \in Job : done[j] # {} => Live(j) /\ done[j] \subseteq jobs[j].todo
    BY DEF UpdateConnectorOutput, Executing
  <1>2. \A j \in Completed(done) : Live(j) /\ jobs'[j] = NoJob
    BY <1>1 DEF UpdateConnectorOutput, Completed
  <1>3. ASSUME NEW j \in Job \ Completed(done)
        PROVE  /\ jobs'[j].kind = jobs[j].kind /\ jobs'[j].at = jobs[j].at
               /\ jobs'[j].resets = jobs[j].resets
               /\ jobs'[j].todo = jobs[j].todo \ done[j]
               /\ Live(j) => jobs'[j].todo # {}
               /\ ~Live(j) => jobs'[j] = jobs[j]
    <2>1. jobs'[j] = [jobs[j] EXCEPT !.todo = jobs[j].todo \ done[j]]
      BY DEF UpdateConnectorOutput
    <2>2. jobs[j] \in JobStatus
      BY DEF TypeOK
    <2>3. /\ jobs'[j].kind = jobs[j].kind /\ jobs'[j].at = jobs[j].at
          /\ jobs'[j].resets = jobs[j].resets
          /\ jobs'[j].todo = jobs[j].todo \ done[j]
      BY <2>1, <2>2 DEF JobStatus
    <2>4. Live(j) => jobs'[j].todo # {}
      BY <1>1, <2>3 DEF Completed, JobsWell
    <2>5. ~Live(j) => jobs'[j] = jobs[j]
      <3> SUFFICES ASSUME ~Live(j) PROVE jobs'[j] = jobs[j]
        OBVIOUS
      <3>1. done[j] = {}
        BY <1>1
      <3> QED BY <2>1, <2>2, <3>1 DEF JobStatus
    <2> QED BY <2>3, <2>4, <2>5
  <1>4. \A j \in Job : Live(j)' <=> Live(j) /\ j \notin Completed(done)
    BY <1>2, <1>3 DEF Live, NoJob
  <1>5. ASSUME NEW k \in Key
        PROVE  /\ Loading(k)' = Loading(k) \ Completed(done)
               /\ Writers(k)' = Writers(k) \ Completed(done)
    BY <1>3, <1>4 DEF Loading, Writers
  <1> QED BY <1>1, <1>2, <1>3, <1>5

\* Counting readers: complete_load clears a key exactly when its last load ends.
LEMMA ReaderCount ==
    ASSUME TypeOK, Pending, NEW k \in Key, NEW J, NEW ends,
           ends[k] = Cardinality(Loading(k) \cap J)
    PROVE  /\ LastReader(mgr, ends, k) => Loading(k) \ J = {}
           /\ ~LastReader(mgr, ends, k) =>
                 /\ mgr.inflightLoad[k] - ends[k] = Cardinality(Loading(k) \ J)
                 /\ Loading(k) # {} => Loading(k) \ J # {}
  <1> DEFINE S == Loading(k)
             T == Loading(k) \cap J
  <1>1. mgr.inflightLoad[k] = Cardinality(S)
    BY DEF Pending
  <1>2. IsFiniteSet(S) /\ Cardinality(S) \in Nat /\ (Cardinality(S) = 0 <=> S = {})
    BY LoadingFinite
  <1> HIDE DEF S
  <1>3. T \in SUBSET S
    BY DEF S
  <1>4. IsFiniteSet(T) /\ Cardinality(T) <= Cardinality(S)
          /\ (Cardinality(S) = Cardinality(T) => S = T)
    BY <1>2, <1>3, FS_Subset
  <1>5. Cardinality(T) \in Nat /\ (Cardinality(T) = 0 <=> T = {})
    BY <1>4, FS_CardinalityType, FS_EmptySet
  <1>6. IsFiniteSet(S \ J) /\ Cardinality(S \ J) = Cardinality(S) - Cardinality(S \cap J)
    BY <1>2, FS_Difference
  <1>7. Cardinality(S \ J) = 0 <=> S \ J = {}
    BY <1>6, FS_EmptySet
  <1>8. T = S \cap J
    BY DEF S
  <1> HIDE DEF T
  <1>9. ASSUME LastReader(mgr, ends, k) PROVE S \ J = {}
    <2>1. Cardinality(S) <= Cardinality(T)
      BY <1>1, <1>9 DEF LastReader, T, S
    <2>2. Cardinality(S) = Cardinality(T)
      BY <1>2, <1>4, <1>5, <2>1
    <2> QED BY <1>4, <1>8, <2>2
  <1>10. ASSUME ~LastReader(mgr, ends, k)
         PROVE  /\ mgr.inflightLoad[k] - ends[k] = Cardinality(S \ J)
                /\ S # {} => S \ J # {}
    <2>1. mgr.inflightLoad[k] - ends[k] = Cardinality(S \ J)
      BY <1>1, <1>6, <1>8 DEF T, S
    <2>2. Cardinality(T) = 0 \/ Cardinality(S) > Cardinality(T)
      BY <1>1, <1>2, <1>5, <1>10 DEF LastReader, T, S
    <2>3. CASE Cardinality(T) = 0
      BY <1>5, <1>8, <2>1, <2>3
    <2>4. CASE Cardinality(S) > Cardinality(T)
      <3>1. Cardinality(S \ J) # 0
        BY <1>2, <1>5, <1>6, <1>8, <2>4
      <3> QED BY <1>7, <2>1, <3>1
    <2> QED BY <2>2, <2>3, <2>4
  <1> QED BY <1>9, <1>10 DEF S

\* The reports of one step, of any set of jobs and ranks, keep the invariant.
LEMMA ReportInv ==
    ASSUME SlabInv, NEW reported \in [Job -> SUBSET Rank], NEW failed \in SUBSET Job,
           UpdateConnectorOutput(reported, failed), TypeOK', OneOwner'
    PROVE  SlabInv'
  <1> DEFINE KeysIn(J, kind) == UNION {KeysOf(j) : j \in {i \in J : jobs[i].kind = kind}}
             complete == Completed(reported)
             ends == [k \in Key |-> Cardinality(Loading(k) \cap complete)]
             L == KeysIn(failed, "load")
             F == KeysIn(failed, "store")
             C == KeysIn(complete, "store")
             dropped == L \cap Indexed(mgr)
             read == {k \in dropped : mgr.inflightLoad[k] > 0}
             marks == mgr.failedStore \cup F
             done == {k \in C : mgr.inflightStore[k] # NoSlot}
             cond == [k \in Key |-> IF k \in read THEN mgr.index[k] ELSE mgr.condemned[k]]
             last == {k \in Key : LastReader(mgr, ends, k)}
  <1>0. mgr \in Manager /\ jobs \in [Job -> JobStatus]
    BY DEF SlabInv, TypeOK
  <1>1. /\ \A j \in Job : reported[j] # {} => Live(j) /\ reported[j] \subseteq jobs[j].todo
        /\ \A j \in complete : Live(j) /\ jobs'[j] = NoJob
        /\ \A j \in Job \ complete :
              /\ jobs'[j].kind = jobs[j].kind /\ jobs'[j].at = jobs[j].at
              /\ jobs'[j].resets = jobs[j].resets
              /\ jobs'[j].todo = jobs[j].todo \ reported[j]
              /\ Live(j) => jobs'[j].todo # {}
              /\ ~Live(j) => jobs'[j] = jobs[j]
        /\ \A k \in Key : /\ Loading(k)' = Loading(k) \ complete
                          /\ Writers(k)' = Writers(k) \ complete
    BY ReportJobs DEF SlabInv
  <1>2. complete \subseteq Job /\ \A j \in failed : Live(j)
    BY <1>1 DEF Completed, UpdateConnectorOutput
  <1>3. \A k \in C : k \in Key /\ Writers(k) \cap complete # {}
    BY <1>1, <1>2 DEF KeysOf, Writers
  <1>4. \A k \in Key : Writers(k) \cap complete # {} => k \in C
    BY <1>2 DEF KeysOf, Writers
  <1>5. \A k \in F : k \in Key /\ Writers(k) # {}
    BY <1>2 DEF KeysOf, Writers
  <1>6. \A k \in L : k \in Key /\ Loading(k) # {}
    BY <1>2 DEF KeysOf, Loading
  <1>7. L \in SUBSET Key /\ F \in SUBSET Key /\ C \in SUBSET Key
    BY <1>3, <1>5, <1>6
  <1>8. \A k \in Key : ends[k] = Cardinality(Loading(k) \cap complete)
    OBVIOUS
  <1>9. PICK ord : mgr' = CompleteLoad(CompleteStore(
                              MarkStoreFailed(MarkLoadFailed(mgr, L), F), C, ord), ends)
    BY DEF UpdateConnectorOutput
  <1> HIDE DEF L, F, C, ends, complete
  <1>10. /\ mgr'.index = [k \in Key |-> IF k \in done \ marks THEN mgr.inflightStore[k]
                                        ELSE IF k \in dropped THEN NoSlot ELSE mgr.index[k]]
         /\ mgr'.inflightStore = [k \in Key |-> IF k \in done THEN NoSlot
                                                ELSE mgr.inflightStore[k]]
         /\ mgr'.condemned = [k \in Key |-> IF k \in last THEN NoSlot ELSE cond[k]]
         /\ mgr'.free = ((mgr.free \cup {mgr.index[k] : k \in dropped \ read})
                             \cup {mgr.inflightStore[k] : k \in done \cap marks})
                             \cup {cond[k] : k \in {c \in last : cond[c] # NoSlot}}
         /\ mgr'.inflightLoad = [k \in Key |-> IF k \in last THEN 0
                                               ELSE mgr.inflightLoad[k] - ends[k]]
         /\ mgr'.failedStore = marks \ done
    <2>1. Reported(mgr, L, F, C, ends, mgr')
      BY <1>0, <1>7, <1>9, ReportFields
    <2> QED BY <2>1 DEF Reported
  <1>11. dropped \ read = {}
    <2> SUFFICES ASSUME NEW k \in dropped PROVE mgr.inflightLoad[k] > 0
      OBVIOUS
    <2>1. k \in Key /\ Loading(k) # {}
      BY <1>6
    <2>2. mgr.inflightLoad[k] = Cardinality(Loading(k))
      BY <2>1 DEF SlabInv, Pending
    <2> QED BY <2>1, <2>2, LoadingFinite
  <1>a. \A k \in Key : Loading(k)' = Loading(k) \ complete
    BY <1>1
  <1>b. \A k \in Key : Writers(k)' = Writers(k) \ complete
    BY <1>1
  <1>c. ASSUME NEW k \in Key
        PROVE  /\ k \in last => Loading(k) \ complete = {}
               /\ k \notin last =>
                     /\ mgr.inflightLoad[k] - ends[k] = Cardinality(Loading(k) \ complete)
                     /\ Loading(k) # {} => Loading(k) \ complete # {}
    <2>1. TypeOK /\ Pending
      BY DEF SlabInv
    <2>2. ends[k] = Cardinality(Loading(k) \cap complete)
      BY <1>8
    <2> QED BY <2>1, <2>2, ReaderCount
  <1>12. \A k \in Key : k \in last => Loading(k)' = {}
    BY <1>a, <1>c
  <1>13. \A k \in Key : k \notin last =>
            /\ mgr.inflightLoad[k] - ends[k] = Cardinality(Loading(k)')
            /\ Loading(k) # {} => Loading(k)' # {}
    BY <1>a, <1>c
  <1>14. done = C
    BY <1>3 DEF SlabInv, Pending
  <1> HIDE DEF last, done, dropped, read
  <1>15. Pending'
    <2> SUFFICES ASSUME NEW k \in Key
                 PROVE  /\ mgr'.inflightLoad[k] = Cardinality(Loading(k)')
                        /\ mgr'.inflightStore[k] = NoSlot <=> Writers(k)' = {}
                        /\ \A i \in Writers(k)' : jobs'[i].at[k] = mgr'.inflightStore[k]
                        /\ \A h, i \in Writers(k)' : h = i
      BY DEF Pending
    <2>1. mgr'.inflightLoad[k] = Cardinality(Loading(k)')
      BY <1>10, <1>12, <1>13, FS_EmptySet
    <2>2. CASE k \in C
      <3>1. Writers(k)' = {}
        BY <1>1, <1>3, <2>2 DEF SlabInv, Pending
      <3> QED BY <1>10, <1>14, <2>1, <2>2, <3>1
    <2>3. CASE k \notin C
      <3>1. Writers(k)' = Writers(k)
        BY <1>4, <1>b, <2>3
      <3>2. \A i \in Writers(k) : jobs'[i].at = jobs[i].at
        BY <1>1, <1>4, <2>3 DEF Writers
      <3>3. mgr'.inflightStore[k] = mgr.inflightStore[k]
        BY <1>10, <1>14, <2>3
      <3> QED BY <2>1, <3>1, <3>2, <3>3 DEF SlabInv, Pending
    <2> QED BY <2>2, <2>3
  <1>16. FailureNotInherited'
    <2> SUFFICES ASSUME NEW k \in marks \ done PROVE mgr'.inflightStore[k] # NoSlot
      BY <1>10 DEF FailureNotInherited
    <2>1. k \in Key
      BY <1>0, <1>7 DEF Manager
    <2>2. mgr.inflightStore[k] # NoSlot
      BY <1>5, <2>1 DEF SlabInv, FailureNotInherited, Pending
    <2> QED BY <1>10, <2>1, <2>2
  <1>17. CondemnedHasReader'
    <2> SUFFICES ASSUME NEW k \in Key, mgr'.condemned[k] # NoSlot
                 PROVE  \E j \in Loading(k)' : jobs'[j].todo # {}
      BY DEF CondemnedHasReader
    <2>1. k \notin last /\ (k \in read \/ mgr.condemned[k] # NoSlot)
      BY <1>10
    <2>2. Loading(k) # {}
      BY <1>6, <2>1 DEF SlabInv, CondemnedHasReader, read, dropped
    <2>3. PICK j \in Loading(k) \ complete : TRUE
      BY <1>1, <1>13, <2>1, <2>2
    <2>4. j \in Job /\ Live(j)
      BY DEF Loading
    <2> QED BY <1>1, <2>3, <2>4
  <1>18. ReadersKeepSlot'
    <2> SUFFICES ASSUME NEW k \in Key, NEW i \in Loading(k)'
                 PROVE  /\ jobs'[i].at[k] \notin mgr'.free
                        /\ \A o \in Key : mgr'.inflightStore[o] # jobs'[i].at[k]
                        /\ \A o \in Key \ {k} : /\ mgr'.index[o] # jobs'[i].at[k]
                                                /\ mgr'.condemned[o] # jobs'[i].at[k]
      BY DEF ReadersKeepSlot
    <2> DEFINE slot == jobs[i].at[k]
    <2>1. i \in Loading(k) /\ i \in Job \ complete /\ jobs'[i].at[k] = slot /\ slot # NoSlot
      BY <1>1 DEF Loading
    <2>2. /\ slot \notin mgr.free
          /\ \A o \in Key : mgr.inflightStore[o] # slot
          /\ \A o \in Key \ {k} : mgr.index[o] # slot /\ mgr.condemned[o] # slot
      BY <2>1 DEF SlabInv, ReadersKeepSlot
    <2> HIDE DEF slot
    <2>3. \A o \in Key \ {k} : cond[o] # slot
      BY <2>2
    <2>4. k \notin last
      BY <1>12
    <2>5. slot \notin mgr'.free
      <3>1. \A o \in done \cap marks : mgr.inflightStore[o] # slot
        BY <1>7, <1>14, <2>2
      <3>2. \A o \in last : cond[o] # slot
        BY <2>3, <2>4 DEF last
      <3> HIDE DEF cond, marks
      <3> QED BY <1>10, <1>11, <2>2, <3>1, <3>2
    <2>6. \A o \in Key : mgr'.inflightStore[o] # slot
      BY <1>10, <2>1, <2>2
    <2>7. \A o \in Key \ {k} : mgr'.index[o] # slot /\ mgr'.condemned[o] # slot
      <3> HIDE DEF cond, marks
      <3> QED BY <1>10, <2>1, <2>2, <2>3
    <2> QED BY <2>1, <2>5, <2>6, <2>7
  <1>19. JobsWell'
    <2> SUFFICES ASSUME NEW j \in Job
                 PROVE  /\ jobs'[j].kind = "none" => jobs'[j] = NoJob
                        /\ Live(j)' => jobs'[j].todo # {}
      BY DEF JobsWell
    <2>1. CASE j \in complete
      <3>1. jobs'[j] = NoJob /\ NoJob.kind = "none"
        BY <1>1, <2>1 DEF NoJob
      <3> QED BY <3>1 DEF Live
    <2>2. CASE j \notin complete
      <3>1. Live(j)' => Live(j)
        BY <1>1, <2>2 DEF Live
      <3>2. jobs[j].kind = "none" => jobs[j] = NoJob /\ ~Live(j)
        BY DEF SlabInv, JobsWell, Live
      <3> QED BY <1>1, <2>2, <3>1, <3>2
    <2> QED BY <2>1, <2>2
  <1>20. StaleApart'
    <2>1. \A j \in Job : jobs'[j].resets > 0 => j \notin complete
      BY <1>1 DEF NoJob
    <2> QED BY <1>1, <2>1 DEF SlabInv, StaleApart
  <1> QED
    BY <1>15, <1>16, <1>17, <1>18, <1>19, <1>20 DEF SlabInv

\* A cache reset keeps the invariant: its jobs turn stale together.
LEMMA ResetInv ==
    ASSUME SlabInv, ResetCache, TypeOK', OneOwner'
    PROVE  SlabInv'
  <1>1. \A j \in Job : jobs[j] = NoJob => jobs'[j] = NoJob
    BY DEF ResetCache
  <1>2. ASSUME NEW j \in Job, jobs[j] # NoJob
        PROVE  /\ jobs'[j].kind = jobs[j].kind /\ jobs'[j].at = jobs[j].at
               /\ jobs'[j].todo = jobs[j].todo /\ jobs'[j].resets = jobs[j].resets + 1
               /\ jobs[j].resets \in Nat
    <2>1. jobs'[j] = [jobs[j] EXCEPT !.resets = jobs[j].resets + 1]
      BY <1>2 DEF ResetCache
    <2> QED BY <2>1 DEF SlabInv, TypeOK, JobStatus
  <1>3. \A j \in Job : ~Live(j)'
    <2>1. NoJob.kind = "none"
      BY DEF NoJob
    <2>2. ASSUME NEW j \in Job, jobs[j] # NoJob PROVE jobs'[j].resets # 0
      BY <1>2, <2>2
    <2> QED BY <1>1, <2>1, <2>2 DEF Live
  <1>4. \A k : Loading(k)' = {} /\ Writers(k)' = {}
    BY <1>3 DEF Loading, Writers
  <1>5. /\ \A k \in Key : /\ mgr'.inflightLoad[k] = 0 /\ mgr'.inflightStore[k] = NoSlot
                          /\ mgr'.condemned[k] = NoSlot
        /\ mgr'.failedStore = {}
    BY DEF ResetCache, EmptyManager
  <1>6. Pending'
    BY <1>4, <1>5, FS_EmptySet DEF Pending
  <1>7. FailureNotInherited' /\ CondemnedHasReader' /\ ReadersKeepSlot'
    BY <1>4, <1>5 DEF FailureNotInherited, CondemnedHasReader, ReadersKeepSlot
  <1>8. JobsWell'
    BY <1>1, <1>2, <1>3 DEF SlabInv, JobsWell
  <1>9. StaleApart'
    <2> SUFFICES ASSUME NEW i \in Job, NEW j \in Job, NEW a \in Key, NEW b \in Key, i # j,
                        jobs'[i].resets > 0, jobs'[i].resets = jobs'[j].resets,
                        jobs'[i].at[a] # NoSlot, jobs'[i].at[a] = jobs'[j].at[b]
                 PROVE  jobs'[i].kind = "load" /\ jobs'[j].kind = "load"
      BY SMTT(30) DEF StaleApart
    <2>1. jobs[i] # NoJob /\ jobs[j] # NoJob
      BY <1>1 DEF NoJob
    <2>2. jobs[i].resets = jobs[j].resets
      BY <1>2, <2>1
    <2>3. jobs[i].at[a] # NoSlot /\ jobs[i].at[a] = jobs[j].at[b]
      BY <1>2, <2>1
    <2>4. CASE jobs[i].resets = 0
      <3>1. Live(i) /\ Live(j)
        BY <2>1, <2>2, <2>4 DEF SlabInv, JobsWell, Live
      <3>2. jobs[i].kind = "load" /\ jobs[j].kind = "load"
        BY <2>3, <3>1, LiveApart DEF SlabInv
      <3> QED BY <1>2, <2>1, <3>2
    <2>5. CASE jobs[i].resets # 0
      <3>1. jobs[i].resets > 0
        BY <1>2, <2>1, <2>5
      <3>2. jobs[i].kind = "load" /\ jobs[j].kind = "load"
        BY <2>2, <2>3, <3>1 DEF SlabInv, StaleApart
      <3> QED BY <1>2, <2>1, <3>2
    <2> QED BY <2>4, <2>5
  <1> QED
    BY <1>6, <1>7, <1>8, <1>9 DEF SlabInv

\* A rank that finishes a stale job touches nothing the manager knows.
LEMMA FinishStaleInv ==
    ASSUME SlabInv, NEW j \in Job, NEW r \in Rank, FinishStale(j, r), TypeOK', OneOwner'
    PROVE  SlabInv'
  <1>1. \A i \in Job \ {j} : jobs'[i] = jobs[i]
    BY DEF FinishStale, SlabInv, TypeOK
  <1>2. \/ jobs'[j] = NoJob
        \/ /\ jobs'[j].kind = jobs[j].kind /\ jobs'[j].at = jobs[j].at
           /\ jobs'[j].resets = jobs[j].resets
    <2>1. j \in DOMAIN jobs /\ jobs[j] \in JobStatus
      BY DEF SlabInv, TypeOK
    <2>2. \/ jobs'[j] = NoJob
          \/ jobs'[j] = [jobs[j] EXCEPT !.todo = jobs[j].todo \ {r}]
      BY <2>1 DEF FinishStale
    <2> QED BY <2>1, <2>2 DEF JobStatus
  <1>3. jobs[j].resets > 0 /\ ~Live(j) /\ ~Live(j)' /\ mgr' = mgr
    <2>1. jobs[j].resets > 0 /\ mgr' = mgr
      BY DEF FinishStale
    <2>2. jobs[j].resets # 0
      BY <2>1
    <2> QED BY <1>2, <2>1, <2>2 DEF Live, NoJob
  <1>4. \A i \in Job : Live(i)' = Live(i) /\ (Live(i) => jobs'[i] = jobs[i])
    BY <1>1, <1>3 DEF Live
  <1>5. \A k \in Key : Loading(k)' = Loading(k) /\ Writers(k)' = Writers(k)
    BY <1>1, <1>3, <1>4 DEF Loading, Writers
  <1>6. \A k \in Key : \A i \in Loading(k) \cup Writers(k) : jobs'[i] = jobs[i]
    BY <1>4 DEF Loading, Writers
  <1>7. Pending'
    BY <1>3, <1>5, <1>6 DEF SlabInv, Pending
  <1>8. FailureNotInherited' /\ CondemnedHasReader'
    BY <1>3, <1>5, <1>6 DEF SlabInv, FailureNotInherited, CondemnedHasReader
  <1>9. ReadersKeepSlot'
    BY <1>3, <1>5, <1>6 DEF SlabInv, ReadersKeepSlot
  <1>10. JobsWell'
    <2>1. jobs[j].kind # "none"
      <3>1. NoJob.resets = 0
        BY DEF NoJob
      <3> QED BY <1>3, <3>1 DEF SlabInv, JobsWell
    <2>2. jobs'[j].kind = "none" => jobs'[j] = NoJob
      BY <1>2, <2>1
    <2>3. ASSUME NEW i \in Job
          PROVE  /\ jobs'[i].kind = "none" => jobs'[i] = NoJob
                 /\ Live(i)' => jobs'[i].todo # {}
      <3>1. CASE i = j
        BY <1>3, <2>2, <3>1 DEF Live
      <3>2. CASE i # j
        BY <1>1, <3>2 DEF SlabInv, JobsWell, Live
      <3> QED BY <3>1, <3>2
    <2> QED BY <2>3 DEF JobsWell
  <1>11. StaleApart'
    BY <1>1, <1>2 DEF SlabInv, StaleApart, NoJob
  <1> QED
    BY <1>7, <1>8, <1>9, <1>10, <1>11 DEF SlabInv

\* The initial states satisfy the invariant: there is no job yet.
LEMMA InitInv == Init => SlabInv
  <1> SUFFICES ASSUME Init PROVE SlabInv
    OBVIOUS
  <1>1. TypeOK /\ OneOwner
    BY InitOwner
  <1>2. \A j \in Job : jobs[j] = NoJob
    BY DEF Init
  <1>3. NoJob.kind = "none" /\ NoJob.resets = 0
    BY DEF NoJob
  <1>4. \A k : Loading(k) = {} /\ Writers(k) = {}
    BY <1>2, <1>3 DEF Loading, Writers, Live
  <1>5. /\ \A k \in Key : /\ mgr.inflightLoad[k] = 0 /\ mgr.inflightStore[k] = NoSlot
                          /\ mgr.condemned[k] = NoSlot
        /\ mgr.failedStore = {}
    BY DEF Init, Rebuilt, EmptyManager
  <1>6. Pending
    BY <1>4, <1>5, FS_EmptySet DEF Pending
  <1>7. FailureNotInherited /\ CondemnedHasReader /\ ReadersKeepSlot
    BY <1>4, <1>5 DEF FailureNotInherited, CondemnedHasReader, ReadersKeepSlot
  <1>8. JobsWell /\ StaleApart
    BY <1>2, <1>3 DEF JobsWell, StaleApart, Live
  <1> QED BY <1>1, <1>6, <1>7, <1>8 DEF SlabInv

\* Every step keeps the invariant.
LEMMA NextInv == SlabInv /\ [Next]_vars => SlabInv'
  <1> SUFFICES ASSUME SlabInv, [Next]_vars PROVE SlabInv'
    OBVIOUS
  <1>0. TypeOK' /\ OneOwner'
    BY NextOwner DEF SlabInv
  <1>1. ASSUME NEW k \in Key, LookupHit(k) PROVE SlabInv'
    BY <1>0, <1>1, RecencyInv DEF LookupHit
  <1>2. ASSUME NEW req \in Request, TouchRequest(req) PROVE SlabInv'
    BY <1>0, <1>2, RecencyInv DEF TouchRequest, Touch
  <1>3. ASSUME NEW j \in Job, NEW req \in Request, NEW K \in SUBSET Range(req),
               BuildStoreJob(j, req, K) \/ StartLoad(j, req, K)
        PROVE  SlabInv'
    BY <1>0, <1>3, BuildStoreInv, StartLoadInv
  <1>4. ASSUME NEW done \in [Job -> SUBSET Rank], NEW failed \in SUBSET Job,
               UpdateConnectorOutput(done, failed)
        PROVE  SlabInv'
    BY <1>0, <1>4, ReportInv
  <1>5. CASE ResetCache
    BY <1>0, <1>5, ResetInv
  <1>6. ASSUME NEW j \in Job, NEW r \in Rank, FinishStale(j, r) PROVE SlabInv'
    BY <1>0, <1>6, FinishStaleInv
  <1>7. CASE UNCHANGED vars
    <2>1. mgr' = [mgr EXCEPT !.older = mgr.older]
      BY <1>7 DEF vars, SlabInv, TypeOK, Manager
    <2> QED BY <1>0, <1>7, <2>1, RecencyInv DEF vars
  <1> QED
    BY <1>1, <1>2, <1>3, <1>4, <1>5, <1>6, <1>7 DEF Next

\* The invariant excludes a torn transfer: two jobs a rank executes at a time are
\* of one generation, since the older one's reset flushed it before the younger.
LEMMA InvNoTorn == SlabInv => NoTornTransfer
  <1> SUFFICES ASSUME SlabInv, NEW r \in Rank, NEW i \in Job, NEW j \in Job,
                      NEW a \in Key, NEW b \in Key,
                      i # j, Executing(i, r), Executing(j, r),
                      jobs[i].at[a] # NoSlot, jobs[i].at[a] = jobs[j].at[b]
               PROVE  jobs[i].kind = "load" /\ jobs[j].kind = "load"
    BY DEF NoTornTransfer
  <1>1. jobs[i].resets \in Nat /\ jobs[j].resets \in Nat
    BY DEF SlabInv, TypeOK, JobStatus
  <1>2. jobs[i].resets = jobs[j].resets
    BY <1>1 DEF Executing
  <1>3. CASE jobs[i].resets = 0
    <2>1. jobs[i] # NoJob /\ jobs[j] # NoJob
      BY DEF NoJob
    <2>2. Live(i) /\ Live(j)
      BY <1>2, <1>3, <2>1 DEF SlabInv, JobsWell, Live
    <2> QED BY <2>2, LiveApart DEF SlabInv
  <1>4. CASE jobs[i].resets > 0
    BY <1>2, <1>4 DEF SlabInv, StaleApart
  <1> QED BY <1>1, <1>3, <1>4

\* The invariant holds in every reachable state.
THEOREM SlabInvariant == Spec => []SlabInv
  BY InitInv, NextInv, PTL DEF Spec

\* The manager's books agree with the jobs in flight: pending stores and reader
\* counts are those of the live jobs, no failure mark outlives its store, and a
\* slot is condemned only for a load still to complete.
THEOREM BooksAgree == Spec => []BookkeepingOK
  <1>1. SlabInv => BookkeepingOK
    BY PendingForms DEF SlabInv, BookkeepingOK
  <1> QED BY <1>1, SlabInvariant, PTL

\* The slot a load reads is not freed, stored to or served for another key until
\* the load is complete, whatever fails or is evicted meanwhile.
THEOREM ReadersAreSafe == Spec => []ReadersKeepSlot
  <1>1. SlabInv => ReadersKeepSlot
    BY DEF SlabInv
  <1> QED BY <1>1, SlabInvariant, PTL

\* No rank ever writes a slot while another of its transfers touches it, across
\* failures, evictions and any number of resets.
THEOREM TransfersAreWhole == Spec => []NoTornTransfer
  BY InvNoTorn, SlabInvariant, PTL

----------------------------------------------------------------------------
(* A successful preflight finds a slot for every new key *)

\* An indexed key, and a key being stored, is in a slot of its group's slab file.
GroupsMatch ==
    \A k \in Key :
        /\ mgr.index[k] # NoSlot => SlotGroup[mgr.index[k]] = GroupOf[k]
        /\ mgr.inflightStore[k] # NoSlot => SlotGroup[mgr.inflightStore[k]] = GroupOf[k]

\* The recency relation lists the indexed keys group by group.
RecencyIn(m) == m.older \in Orders(Indexed(m))

RecencyOK == RecencyIn(mgr)

PlaceInv == SlabInv /\ GroupsMatch /\ RecencyOK

\* Dropping keys leaves an order of the others.
LEMMA OrderWithout ==
    ASSUME NEW H \in SUBSET Key, NEW o \in Orders(H), NEW S
    PROVE  Without(o, S) \in Orders(H \ S)
  <1> DEFINE w == Without(o, S)
  <1>1. \A a, b \in Key : <<a, b>> \in w <=> <<a, b>> \in o /\ a \notin S /\ b \notin S
    BY DEF Without
  <1>2. w \in SUBSET (SameGroup \cap ((H \ S) \X (H \ S)))
    BY DEF Without, Orders
  <1> HIDE DEF w
  <1>3. \A a, b \in H \ S : <<a, b>> \in w => <<b, a>> \notin w
    BY <1>1 DEF Orders
  <1>4. \A a, b \in H \ S :
           a # b /\ GroupOf[a] = GroupOf[b] => <<a, b>> \in w \/ <<b, a>> \in w
    BY <1>1 DEF Orders
  <1>5. \A a, b, c \in H \ S : <<a, b>> \in w /\ <<b, c>> \in w => <<a, c>> \in w
    BY <1>1 DEF Orders
  <1> QED BY <1>2, <1>3, <1>4, <1>5 DEF Orders, w

\* Moving keys to the recent end, in an order of their own, leaves an order.
LEMMA OrderAtEnd ==
    ASSUME NEW H \in SUBSET Key, NEW o \in Orders(H), NEW S \in SUBSET Key,
           NEW ord \in Orders(S), NEW held \in SUBSET Key, held \ S = H \ S
    PROVE  AtEnd(o, held, S, ord) \in Orders(H \cup S)
  <1> DEFINE w == Without(o, S)
             e == AtEnd(o, held, S, ord)
  <1>1. w \in Orders(H \ S)
    BY OrderWithout
  <1> HIDE DEF w
  <1>2. \A a, b \in Key : <<a, b>> \in e <=>
           \/ <<a, b>> \in w
           \/ a \in H \ S /\ b \in S /\ GroupOf[a] = GroupOf[b]
           \/ <<a, b>> \in ord
    BY DEF AtEnd, w, SameGroup
  <1>3. /\ \A a, b \in Key : <<a, b>> \in w => a \in H \ S /\ b \in H \ S
                                               /\ GroupOf[a] = GroupOf[b]
        /\ \A a, b \in Key : <<a, b>> \in ord => a \in S /\ b \in S /\ GroupOf[a] = GroupOf[b]
    BY <1>1 DEF Orders, SameGroup
  <1>4. e \in SUBSET (SameGroup \cap ((H \cup S) \X (H \cup S)))
    BY <1>1 DEF AtEnd, w, Orders, SameGroup
  <1> HIDE DEF e
  <1>5. /\ \A a, b \in H \ S : <<a, b>> \in w => <<b, a>> \notin w
        /\ \A a, b \in H \ S :
              a # b /\ GroupOf[a] = GroupOf[b] => <<a, b>> \in w \/ <<b, a>> \in w
        /\ \A a, b, c \in H \ S : <<a, b>> \in w /\ <<b, c>> \in w => <<a, c>> \in w
    BY <1>1 DEF Orders
  <1>6. /\ \A a, b \in S : <<a, b>> \in ord => <<b, a>> \notin ord
        /\ \A a, b \in S :
              a # b /\ GroupOf[a] = GroupOf[b] => <<a, b>> \in ord \/ <<b, a>> \in ord
        /\ \A a, b, c \in S : <<a, b>> \in ord /\ <<b, c>> \in ord => <<a, c>> \in ord
    BY DEF Orders
  <1>7. \A a, b \in H \cup S : <<a, b>> \in e => <<b, a>> \notin e
    BY <1>2, <1>3, <1>5, <1>6
  <1>8. \A a, b \in H \cup S :
           a # b /\ GroupOf[a] = GroupOf[b] => <<a, b>> \in e \/ <<b, a>> \in e
    BY <1>2, <1>5, <1>6
  <1>9. \A a, b, c \in H \cup S : <<a, b>> \in e /\ <<b, c>> \in e => <<a, c>> \in e
    BY <1>2, <1>3, <1>5, <1>6
  <1> QED BY <1>4, <1>7, <1>8, <1>9 DEF Orders, e

\* The keys of a request are ordered by their positions in it.
LEMMA OrderOfRequest ==
    ASSUME NEW req \in Request, NEW S \in SUBSET Range(req), S \subseteq Key
    PROVE  RequestOrder(req, S) \in Orders(S)
  <1>1. DOMAIN req \subseteq Nat
    BY SlabConstants DEF SlabConstants
  <1>2. \A k \in S : PositionOf(req, k) \in DOMAIN req /\ req[PositionOf(req, k)] = k
    BY DEF PositionOf, Range
  <1>3. /\ \A k \in S : PositionOf(req, k) \in Nat
        /\ \A a, b \in S : PositionOf(req, a) = PositionOf(req, b) => a = b
    BY <1>1, <1>2
  <1> DEFINE o == RequestOrder(req, S)
  <1>4. \A a, b \in S : <<a, b>> \in o <=>
           GroupOf[a] = GroupOf[b] /\ PositionOf(req, a) < PositionOf(req, b)
    BY DEF RequestOrder, SameGroup
  <1>5. o \in SUBSET (SameGroup \cap (S \X S))
    BY DEF RequestOrder
  <1> HIDE DEF o
  <1>6. \A a, b \in S : <<a, b>> \in o => <<b, a>> \notin o
    BY <1>3, <1>4
  <1>7. \A a, b \in S : a # b /\ GroupOf[a] = GroupOf[b] => <<a, b>> \in o \/ <<b, a>> \in o
    BY <1>3, <1>4
  <1>8. \A a, b, c \in S : <<a, b>> \in o /\ <<b, c>> \in o => <<a, c>> \in o
    BY <1>3, <1>4
  <1> QED BY <1>5, <1>6, <1>7, <1>8 DEF Orders, o

\* o is a strict total order of E, and the elements with fewer than n predecessors.
TotalOn(E, o) ==
    /\ \A a, b \in E : <<a, b>> \in o => <<b, a>> \notin o
    /\ \A a, b \in E : a # b => <<a, b>> \in o \/ <<b, a>> \in o
    /\ \A a, b, c \in E : <<a, b>> \in o /\ <<b, c>> \in o => <<a, c>> \in o

First(E, o, n) == {v \in E : Cardinality({u \in E : <<u, v>> \in o}) < n}

\* Of a finite set under a strict total order, the first n are all or at least n.
LEMMA FirstOnes ==
    ASSUME NEW E, IsFiniteSet(E), NEW o, TotalOn(E, o), NEW n \in Nat
    PROVE  First(E, o, n) = E \/ n <= Cardinality(First(E, o, n))
  <1> USE DEF TotalOn
  <1> DEFINE Before(v) == {u \in E : <<u, v>> \in o}
             m == Cardinality(E)
             f == [v \in E |-> Cardinality(Before(v))]
             V == First(E, o, n)
  <1>1. m \in Nat
    BY FS_CardinalityType
  <1>2. IsFiniteSet(V)
    BY FS_Subset DEF First
  <1>3. ASSUME NEW v \in E
        PROVE  IsFiniteSet(Before(v)) /\ Cardinality(Before(v)) \in Nat
    BY FS_Subset, FS_CardinalityType
  <1>4. ASSUME NEW v \in E PROVE Cardinality(Before(v)) < m
    <2>1. v \notin Before(v)
      OBVIOUS
    <2>2. Cardinality(Before(v) \cup {v}) = Cardinality(Before(v)) + 1
            /\ IsFiniteSet(Before(v) \cup {v})
      BY <1>3, <2>1, FS_AddElement
    <2>3. Cardinality(Before(v) \cup {v}) <= m
      <3>1. Before(v) \cup {v} \in SUBSET E
        OBVIOUS
      <3> HIDE DEF Before
      <3> QED BY <3>1, FS_Subset
    <2> QED BY <1>1, <1>3, <2>2, <2>3
  <1>5. ASSUME NEW v \in E, NEW w \in E, <<v, w>> \in o
        PROVE  Cardinality(Before(v)) < Cardinality(Before(w))
    <2>1. Before(v) \cup {v} \in SUBSET Before(w)
      BY <1>5
    <2>2. v \notin Before(v)
      OBVIOUS
    <2> HIDE DEF Before
    <2>3. Cardinality(Before(v) \cup {v}) = Cardinality(Before(v)) + 1
      BY <1>3, <2>2, FS_AddElement
    <2>4. Cardinality(Before(v) \cup {v}) <= Cardinality(Before(w))
      BY <1>3, <2>1, FS_Subset
    <2> QED BY <1>3, <2>3, <2>4
  <1>6. V = {v \in E : Cardinality(Before(v)) < n}
    BY DEF First
  <1> HIDE DEF Before, V
  <1>7. CASE m <= n
    <2>1. \A v \in E : Cardinality(Before(v)) < n
      BY <1>1, <1>3, <1>4, <1>7
    <2> QED BY <1>6, <2>1 DEF V
  <1>8. CASE n < m
    <2>1. f \in Injection(E, 0..(m-1))
      <3>1. f \in [E -> 0..(m-1)]
        BY <1>1, <1>3, <1>4
      <3>2. ASSUME NEW v \in E, NEW w \in E, f[v] = f[w] PROVE v = w
        <4>1. Cardinality(Before(v)) = Cardinality(Before(w))
          BY <3>2
        <4>2. ~(Cardinality(Before(v)) < Cardinality(Before(w)))
                /\ ~(Cardinality(Before(w)) < Cardinality(Before(v)))
          BY <1>3, <4>1
        <4>3. <<v, w>> \notin o /\ <<w, v>> \notin o
          BY <1>5, <4>2
        <4> QED BY <4>3
      <3> HIDE DEF f
      <3> QED BY <3>1, <3>2 DEF Injection, IsInjective
    <2>2. IsFiniteSet(0..(m-1)) /\ Cardinality(0..(m-1)) = m
      <3> HIDE DEF m
      <3>1. m - 1 \in Int /\ ~(0 > m - 1) /\ (m - 1) - 0 + 1 = m
        BY <1>1, <1>8
      <3> QED BY <3>1, FS_Interval
    <2>3. f \in Surjection(E, 0..(m-1))
      BY <2>1, <2>2, FS_Injection
    <2>4. [v \in V |-> f[v]] \in Surjection(V, 0..(n-1))
      <3>1. \A i \in 0..(n-1) : \E v \in E : f[v] = i
        <4>1. \A i \in 0..(m-1) : \E v \in E : f[v] = i
          BY <2>3 DEF Surjection
        <4>2. 0..(n-1) \subseteq 0..(m-1)
          BY <1>1, <1>8
        <4> QED BY <4>1, <4>2
      <3>2. \A v \in V : v \in E /\ f[v] \in Nat /\ f[v] < n
        BY <1>3, <1>6
      <3>3. \A v \in E : f[v] < n => v \in V
        BY <1>6
      <3> HIDE DEF f
      <3>4. [v \in V |-> f[v]] \in [V -> 0..(n-1)]
        BY <3>2
      <3>5. \A i \in 0..(n-1) : \E v \in V : [x \in V |-> f[x]][v] = i
        <4> SUFFICES ASSUME NEW i \in 0..(n-1)
                     PROVE  \E v \in V : [x \in V |-> f[x]][v] = i
          OBVIOUS
        <4>1. PICK v \in E : f[v] = i
          BY <3>1
        <4>2. v \in V
          BY <3>3, <4>1
        <4> QED BY <4>1, <4>2
      <3> QED BY <3>4, <3>5 DEF Surjection
    <2>5. Cardinality(0..(n-1)) <= Cardinality(V)
      BY <1>2, <2>4, FS_Surjection
    <2>6. Cardinality(0..(n-1)) = n
      BY FS_Interval
    <2> QED BY <2>5, <2>6 DEF V
  <1> QED BY <1>1, <1>7, <1>8

\* A finite set has an injection into every finite set that is not smaller.
LEMMA InjectionExists ==
    ASSUME NEW S, NEW T, IsFiniteSet(S), IsFiniteSet(T), Cardinality(S) <= Cardinality(T)
    PROVE  \E f \in [S -> T] : \A x, y \in S : f[x] = f[y] => x = y
  <1>1. Cardinality(S) \in Nat /\ Cardinality(T) \in Nat
    BY FS_CardinalityType
  <1>2. PICK s \in Bijection(1..Cardinality(S), S) : TRUE
    BY FS_CardinalityType DEF ExistsBijection
  <1>3. PICK t \in Bijection(1..Cardinality(T), T) : TRUE
    BY FS_CardinalityType DEF ExistsBijection
  <1>4. /\ \A x \in S : \E i \in 1..Cardinality(S) : s[i] = x
        /\ t \in [1..Cardinality(T) -> T]
        /\ \A i, j \in 1..Cardinality(T) : t[i] = t[j] => i = j
    BY <1>2, <1>3 DEF Bijection, Injection, Surjection, IsInjective
  <1> DEFINE pos(x) == CHOOSE i \in 1..Cardinality(S) : s[i] = x
             f == [x \in S |-> t[pos(x)]]
  <1>5. \A x \in S : pos(x) \in 1..Cardinality(S) /\ s[pos(x)] = x
    BY <1>4
  <1>6. \A x \in S : pos(x) \in 1..Cardinality(T)
    BY <1>1, <1>5
  <1> HIDE DEF pos
  <1>7. f \in [S -> T]
    BY <1>4, <1>6
  <1>8. \A x, y \in S : f[x] = f[y] => x = y
    BY <1>4, <1>5, <1>6
  <1> QED BY <1>7, <1>8

\* The slots _take_slot can hand out to group g during the call.
SlotsFor(m, K, g) == FreeIn(m, g) \cup {m.index[v] : v \in InGroup(Victims(m, K), g)}

\* After the preflight a group has a slot for each of its new keys: the evicted
\* keys are all the evictable ones, or as many as the free slots fall short.
LEMMA EnoughForGroup ==
    ASSUME TypeOK, OneOwner, RecencyOK,
           NEW K \in SUBSET Key, Preflight(mgr, K), NEW g \in Group
    PROVE  /\ IsFiniteSet(InGroup(NewKeys(mgr, K), g))
           /\ IsFiniteSet(SlotsFor(mgr, K, g))
           /\ Cardinality(InGroup(NewKeys(mgr, K), g)) <= Cardinality(SlotsFor(mgr, K, g))
  <1> DEFINE new == InGroup(NewKeys(mgr, K), g)
             E == Evictable(mgr, g, K)
             V == InGroup(Victims(mgr, K), g)
             D == FreeIn(mgr, g)
             I == {mgr.index[v] : v \in V}
             n == Cardinality(new)
             d == Cardinality(D)
  <1>0. mgr \in Manager
    BY DEF TypeOK
  <1>1. IsFiniteSet(new) /\ n \in Nat
    <2>1. new \in SUBSET Key
      BY DEF InGroup, NewKeys
    <2> HIDE DEF new
    <2> QED BY <2>1, SlabFinite, FS_Subset, FS_CardinalityType DEF SlabFinite
  <1>2. IsFiniteSet(E) /\ Cardinality(E) \in Nat
    <2>1. E \in SUBSET Key
      BY DEF Evictable, Indexed
    <2> HIDE DEF E
    <2> QED BY <2>1, SlabFinite, FS_Subset, FS_CardinalityType DEF SlabFinite
  <1>3. IsFiniteSet(D) /\ d \in Nat
    <2>1. D \in SUBSET Slot
      BY <1>0 DEF FreeIn, Manager
    <2> HIDE DEF D
    <2> QED BY <2>1, SlabFinite, FS_Subset, FS_CardinalityType DEF SlabFinite
  <1>4. n <= d + Cardinality(E)
    BY DEF Preflight
  <1>5. V = {v \in E : Cardinality({u \in E : <<u, v>> \in mgr.older}) + d < n}
    BY DEF InGroup, Victims, Evictable
  <1>6. TotalOn(E, mgr.older)
    BY DEF Evictable, RecencyOK, RecencyIn, Orders, TotalOn
  <1>7. V \subseteq Key /\ \A v \in V : mgr.index[v] # NoSlot
    BY DEF InGroup, Victims, Indexed
  <1> HIDE DEF n, d, E, V
  <1>8. IsFiniteSet(V) /\ Cardinality(V) \in Nat
    <2>1. V \in SUBSET E
      BY <1>5
    <2> QED BY <1>2, <2>1, FS_Subset, FS_CardinalityType
  <1>9. d < n => n - d <= Cardinality(V)
    <2> SUFFICES ASSUME d < n PROVE n - d <= Cardinality(V)
      OBVIOUS
    <2>1. n - d \in Nat
      BY <1>1, <1>3
    <2>2. \A v \in E : Cardinality({u \in E : <<u, v>> \in mgr.older}) \in Nat
      <3> SUFFICES ASSUME NEW v \in E
                   PROVE  Cardinality({u \in E : <<u, v>> \in mgr.older}) \in Nat
        OBVIOUS
      <3>1. {u \in E : <<u, v>> \in mgr.older} \in SUBSET E
        OBVIOUS
      <3> QED BY <1>2, <3>1, FS_Subset, FS_CardinalityType
    <2>3. V = First(E, mgr.older, n - d)
      <3>1. \A v \in E : Cardinality({u \in E : <<u, v>> \in mgr.older}) + d < n
                         <=> Cardinality({u \in E : <<u, v>> \in mgr.older}) < n - d
        BY <1>1, <1>3, <2>2
      <3> QED BY <1>5, <3>1 DEF First
    <2>4. V = E \/ n - d <= Cardinality(V)
      BY <1>2, <1>6, <2>1, <2>3, FirstOnes
    <2>5. V = E => n - d <= Cardinality(V)
      BY <1>1, <1>2, <1>3, <1>4
    <2> QED BY <2>4, <2>5
  <1>10. IsFiniteSet(I) /\ Cardinality(I) = Cardinality(V)
    <2>1. [v \in V |-> mgr.index[v]] \in Bijection(V, I)
      <3>1. \A a, b \in V : mgr.index[a] = mgr.index[b] => a = b
        BY <1>7 DEF OneOwner, OneOwnerIn, Injective
      <3> QED BY <3>1 DEF Bijection, Injection, Surjection, IsInjective
    <2> HIDE DEF I
    <2> QED BY <1>8, <2>1, FS_Bijection DEF ExistsBijection
  <1>11. D \cap I = {}
    BY <1>7 DEF FreeIn, OneOwner, OneOwnerIn
  <1>12. SlotsFor(mgr, K, g) = D \cup I
    BY DEF SlotsFor, V
  <1> HIDE DEF D, I
  <1>13. IsFiniteSet(D \cup I) /\ Cardinality(D \cup I) = d + Cardinality(V)
    <2>1. Cardinality(D \cap I) = 0
      BY <1>11, FS_EmptySet
    <2>2. IsFiniteSet(D \cup I)
            /\ Cardinality(D \cup I) = Cardinality(D) + Cardinality(I) - Cardinality(D \cap I)
      BY <1>3, <1>10, FS_Union
    <2> QED BY <1>3, <1>8, <1>10, <2>1, <2>2 DEF d
  <1>14. n <= Cardinality(D \cup I)
    BY <1>1, <1>3, <1>8, <1>9, <1>13
  <1> QED BY <1>1, <1>12, <1>13, <1>14 DEF n

\* The groups' choices together are a placement of the call.
LEMMA PlacementExists ==
    ASSUME TypeOK, OneOwner, RecencyOK, GroupsMatch,
           NEW K \in SUBSET Key, Preflight(mgr, K)
    PROVE  Placements(mgr, K) # {}
  <1> DEFINE new(g) == InGroup(NewKeys(mgr, K), g)
             slots(g) == SlotsFor(mgr, K, g)
             Good(g, f) == f \in [new(g) -> slots(g)]
                           /\ \A x, y \in new(g) : f[x] = f[y] => x = y
             pick(g) == CHOOSE f : Good(g, f)
             at == [k \in NewKeys(mgr, K) |-> pick(GroupOf[k])[k]]
  <1>1. \A g \in Group : Good(g, pick(g))
    <2> SUFFICES ASSUME NEW g \in Group PROVE \E f : Good(g, f)
      OBVIOUS
    <2>1. /\ IsFiniteSet(new(g)) /\ IsFiniteSet(slots(g))
          /\ Cardinality(new(g)) <= Cardinality(slots(g))
      BY EnoughForGroup
    <2> HIDE DEF new, slots
    <2> QED BY <2>1, InjectionExists
  <1>2. \A k \in NewKeys(mgr, K) : k \in Key /\ GroupOf[k] \in Group /\ k \in new(GroupOf[k])
    BY SlabConstants DEF SlabConstants, NewKeys, InGroup
  <1>3. \A g \in Group : \A s \in slots(g) :
           /\ s \in mgr.free \cup {mgr.index[v] : v \in Victims(mgr, K)}
           /\ SlotGroup[s] = g
    <2> SUFFICES ASSUME NEW g \in Group, NEW s \in slots(g)
                 PROVE  /\ s \in mgr.free \cup {mgr.index[v] : v \in Victims(mgr, K)}
                        /\ SlotGroup[s] = g
      OBVIOUS
    <2>1. CASE s \in FreeIn(mgr, g)
      BY <2>1 DEF FreeIn
    <2>2. CASE s \notin FreeIn(mgr, g)
      <3>1. PICK v \in InGroup(Victims(mgr, K), g) : s = mgr.index[v]
        BY <2>2 DEF SlotsFor
      <3>2. v \in Victims(mgr, K) /\ GroupOf[v] = g /\ v \in Key /\ mgr.index[v] # NoSlot
        BY DEF InGroup, Victims, Indexed
      <3> QED BY <3>1, <3>2 DEF GroupsMatch
    <2> QED BY <2>1, <2>2
  <1> HIDE DEF pick, new, slots
  <1>4. \A k \in NewKeys(mgr, K) : at[k] \in slots(GroupOf[k])
    BY <1>1, <1>2
  <1>5. \A k \in NewKeys(mgr, K) :
           /\ at[k] \in mgr.free \cup {mgr.index[v] : v \in Victims(mgr, K)}
           /\ SlotGroup[at[k]] = GroupOf[k]
    <2> HIDE DEF at
    <2> QED BY <1>2, <1>3, <1>4
  <1>6. ASSUME NEW a \in NewKeys(mgr, K), NEW b \in NewKeys(mgr, K), at[a] = at[b]
        PROVE  a = b
    <2>1. GroupOf[a] = GroupOf[b]
      <3> HIDE DEF at
      <3> QED BY <1>5, <1>6
    <2>2. pick(GroupOf[a])[a] = pick(GroupOf[a])[b]
      BY <1>6, <2>1
    <2>3. a \in new(GroupOf[a]) /\ b \in new(GroupOf[a]) /\ GroupOf[a] \in Group
      BY <1>2, <2>1
    <2> QED BY <1>1, <2>2, <2>3
  <1>7. at \in [NewKeys(mgr, K) -> mgr.free \cup {mgr.index[v] : v \in Victims(mgr, K)}]
    BY <1>5
  <1> HIDE DEF at
  <1> QED BY <1>5, <1>6, <1>7 DEF Placements

\* touch keeps the recency relation an order of the indexed keys.
LEMMA TouchRecency ==
    ASSUME NEW m, "older" \in DOMAIN m, RecencyIn(m), NEW req \in Request
    PROVE  RecencyIn(Touch(m, req))
  <1> DEFINE H == Indexed(m)
             S == Range(req) \cap H
             ord == RequestOrder(req, S)
  <1>1. H \in SUBSET Key /\ S \in SUBSET Key /\ S \in SUBSET Range(req) /\ H \cup S = H
    BY DEF Indexed
  <1>2. Touch(m, req).older = AtEnd(m.older, H, S, ord) /\ Indexed(Touch(m, req)) = H
    BY DEF Touch, Indexed
  <1>3. m.older \in Orders(H)
    BY DEF RecencyIn
  <1> HIDE DEF H, S
  <1>4. ord \in Orders(S)
    BY <1>1, OrderOfRequest
  <1> HIDE DEF ord
  <1>5. AtEnd(m.older, H, S, ord) \in Orders(H \cup S)
    BY <1>1, <1>3, <1>4, OrderAtEnd
  <1> QED BY <1>1, <1>2, <1>5 DEF RecencyIn

\* So does prepare_store: the evicted keys leave the relation with the index.
LEMMA PrepareStoreRecency ==
    ASSUME NEW m \in Manager, RecencyIn(m), NEW req, NEW K, NEW at
    PROVE  RecencyIn(PrepareStore(m, req, K, at)) /\ "older" \in DOMAIN PrepareStore(m, req, K, at)
  <1> DEFINE p == PrepareStore(m, req, K, at)
             gone == Victims(m, K)
  <1>1. /\ p.older = Without(m.older, gone)
        /\ p.index = [k \in Key |-> IF k \in gone THEN NoSlot ELSE m.index[k]]
        /\ "older" \in DOMAIN p
    BY DEF PrepareStore, Manager
  <1>2. Indexed(p) = Indexed(m) \ gone
    BY <1>1 DEF Indexed
  <1>3. Indexed(m) \in SUBSET Key
    BY DEF Indexed
  <1> HIDE DEF p, gone
  <1> QED BY <1>1, <1>2, <1>3, OrderWithout DEF RecencyIn, p

\* So do the reports of a step; ord orders the keys whose store succeeded.
LEMMA ReportRecency ==
    ASSUME NEW m \in Manager, RecencyIn(m), NEW L \in SUBSET Key, NEW F \in SUBSET Key,
           NEW C \in SUBSET Key, NEW ord, NEW ends,
           \A k \in C : m.inflightStore[k] # NoSlot,
           ord \in Orders(C \ MarkStoreFailed(MarkLoadFailed(m, L), F).failedStore)
    PROVE  RecencyIn(CompleteLoad(CompleteStore(
               MarkStoreFailed(MarkLoadFailed(m, L), F), C, ord), ends))
  <1> DEFINE dropped == L \cap Indexed(m)
             m1 == MarkLoadFailed(m, L)
             m2 == MarkStoreFailed(m1, F)
             good == C \ m2.failedStore
             m3 == CompleteStore(m2, C, ord)
             m4 == CompleteLoad(m3, ends)
             Fields(p) == DOMAIN p = {"index", "older", "free", "inflightStore",
                                      "inflightLoad", "condemned", "failedStore", "siblings"}
  <1>1. /\ m1.index = [k \in Key |-> IF k \in dropped THEN NoSlot ELSE m.index[k]]
        /\ m1.older = Without(m.older, dropped)
        /\ m1.inflightStore = m.inflightStore
        /\ Fields(m1)
    BY DEF MarkLoadFailed, Manager
  <1>2. Indexed(m1) = Indexed(m) \ dropped /\ Indexed(m) \in SUBSET Key
    BY <1>1 DEF Indexed
  <1> HIDE DEF m1, dropped
  <1>3. RecencyIn(m1)
    BY <1>1, <1>2, OrderWithout DEF RecencyIn
  <1>4. /\ m2.index = m1.index /\ m2.older = m1.older /\ m2.inflightStore = m1.inflightStore
        /\ Fields(m2)
    BY <1>1 DEF MarkStoreFailed
  <1>5. ord \in Orders(good)
    BY DEF m1
  <1>6. good \in SUBSET Key
    OBVIOUS
  <1> HIDE DEF m2
  <1>7. {k \in C : m2.inflightStore[k] # NoSlot} = C
    BY <1>1, <1>4
  <1>8. /\ m3.index = [k \in Key |-> IF k \in good THEN m2.inflightStore[k] ELSE m2.index[k]]
        /\ m3.older = AtEnd(m2.older, Indexed(m2) \cup good, good, ord)
        /\ Fields(m3)
    BY <1>4, <1>7 DEF CompleteStore
  <1>9. Indexed(m3) = Indexed(m2) \cup good /\ Indexed(m2) \in SUBSET Key
    BY <1>1, <1>4, <1>8 DEF Indexed
  <1>10. m2.older \in Orders(Indexed(m2))
    BY <1>3, <1>4 DEF RecencyIn, Indexed
  <1> HIDE DEF good, m3
  <1>11. m3.older \in Orders(Indexed(m3))
    <2>1. (Indexed(m2) \cup good) \ good = Indexed(m2) \ good
            /\ Indexed(m2) \cup good \in SUBSET Key
      BY <1>6, <1>9
    <2> QED BY <1>5, <1>6, <1>8, <1>9, <1>10, <2>1, OrderAtEnd
  <1>12. m4.older = m3.older /\ m4.index = m3.index
    BY <1>8 DEF CompleteLoad
  <1>13. RecencyIn(m4)
    BY <1>11, <1>12 DEF RecencyIn, Indexed
  <1> QED BY <1>13 DEF m4, m3, m2, m1

\* Initially the recency order is one the rebuilt index allows.
LEMMA InitPlace == Init => PlaceInv
  <1> SUFFICES ASSUME Init PROVE GroupsMatch /\ RecencyOK
    BY InitInv DEF PlaceInv
  <1>0. PICK index \in [Key -> SlotOrNone] :
           /\ \A k \in Key : index[k] # NoSlot => SlotGroup[index[k]] = GroupOf[k]
           /\ \E older \in Orders({k \in Key : index[k] # NoSlot}) : mgr = Rebuilt(index, older)
    BY DEF Init
  <1>1. PICK older \in Orders({k \in Key : index[k] # NoSlot}) : mgr = Rebuilt(index, older)
    BY <1>0
  <1>2. mgr.index = index /\ mgr.older = older
        /\ mgr.inflightStore = [k \in Key |-> NoSlot]
    BY <1>1 DEF Rebuilt, EmptyManager
  <1>3. GroupsMatch
    BY <1>0, <1>2 DEF GroupsMatch
  <1>4. RecencyOK
    BY <1>2 DEF RecencyOK, RecencyIn, Indexed
  <1> QED BY <1>3, <1>4

\* Every step keeps the keys in slots of their group and the recency an order.
LEMMA NextPlace == PlaceInv /\ [Next]_vars => PlaceInv'
  <1> SUFFICES ASSUME PlaceInv, [Next]_vars PROVE GroupsMatch' /\ RecencyIn(mgr')
    BY NextInv DEF PlaceInv, RecencyOK
  <1>0. mgr \in Manager /\ RecencyIn(mgr) /\ SlabInv /\ GroupsMatch
    BY DEF PlaceInv, SlabInv, TypeOK, RecencyOK
  <1>1. ASSUME NEW k \in Key, LookupHit(k) PROVE GroupsMatch' /\ RecencyIn(mgr')
    <2> DEFINE used == {k} \cup (mgr.siblings[k] \cap Indexed(mgr))
               H == Indexed(mgr)
    <2>1. PICK ord \in Orders(used) :
             mgr' = [mgr EXCEPT !.older = AtEnd(mgr.older, H, used, ord)]
      BY <1>0, <1>1 DEF LookupHit, Manager
    <2>2. mgr'.index = mgr.index /\ mgr'.inflightStore = mgr.inflightStore
            /\ mgr'.older = AtEnd(mgr.older, H, used, ord)
      BY <1>0, <2>1 DEF Manager
    <2>3. H \in SUBSET Key /\ used \in SUBSET Key /\ H \cup used = H
      BY <1>1 DEF LookupHit, Indexed
    <2>4. Indexed(mgr') = H /\ mgr.older \in Orders(H)
      BY <1>0, <2>2 DEF Indexed, RecencyIn
    <2> HIDE DEF used, H
    <2>5. AtEnd(mgr.older, H, used, ord) \in Orders(H \cup used)
      BY <2>3, <2>4, OrderAtEnd
    <2> QED BY <1>0, <2>2, <2>3, <2>4, <2>5 DEF GroupsMatch, RecencyIn
  <1>2. ASSUME NEW req \in Request, TouchRequest(req) PROVE GroupsMatch' /\ RecencyIn(mgr')
    <2>1. mgr' = Touch(mgr, req) /\ "older" \in DOMAIN mgr
      BY <1>0, <1>2 DEF TouchRequest, Manager
    <2>2. mgr'.index = mgr.index /\ mgr'.inflightStore = mgr.inflightStore
      BY <1>0, <2>1 DEF Touch, Manager
    <2>3. RecencyIn(mgr')
      BY <1>0, <2>1, TouchRecency
    <2> QED BY <1>0, <2>2, <2>3 DEF GroupsMatch
  <1>3. ASSUME NEW j \in Job, NEW req \in Request, NEW K \in SUBSET Range(req),
               BuildStoreJob(j, req, K)
        PROVE  GroupsMatch' /\ RecencyIn(mgr')
    <2>1. PICK at \in Placements(mgr, K) : mgr' = Touch(PrepareStore(mgr, req, K, at), req)
      BY <1>3 DEF BuildStoreJob
    <2>2. RecencyIn(mgr')
      BY <1>0, <2>1, PrepareStoreRecency, TouchRecency
    <2>3. /\ mgr'.index = [k \in Key |-> IF k \in Victims(mgr, K) THEN NoSlot ELSE mgr.index[k]]
          /\ mgr'.inflightStore = [k \in Key |-> IF k \in NewKeys(mgr, K) THEN at[k]
                                                 ELSE mgr.inflightStore[k]]
      BY <1>0, <2>1, StoreFields
    <2>4. \A k \in NewKeys(mgr, K) : SlotGroup[at[k]] = GroupOf[k]
      BY DEF Placements
    <2>5. GroupsMatch'
      BY <1>0, <2>3, <2>4 DEF GroupsMatch
    <2> QED BY <2>2, <2>5
  <1>4. ASSUME NEW j \in Job, NEW req \in Request, NEW K \in SUBSET Range(req),
               StartLoad(j, req, K)
        PROVE  GroupsMatch' /\ RecencyIn(mgr')
    <2>1. mgr'.index = mgr.index /\ mgr'.inflightStore = mgr.inflightStore
            /\ mgr'.older = mgr.older
      BY <1>0, <1>4 DEF StartLoad, PrepareLoad, Manager
    <2> QED BY <1>0, <2>1 DEF GroupsMatch, RecencyIn, Indexed
  <1>5. ASSUME NEW done \in [Job -> SUBSET Rank], NEW failed \in SUBSET Job,
               UpdateConnectorOutput(done, failed)
        PROVE  GroupsMatch' /\ RecencyIn(mgr')
    <2> DEFINE KeysIn(J, kind) == UNION {KeysOf(j) : j \in {i \in J : jobs[i].kind = kind}}
               complete == Completed(done)
               ends == [k \in Key |-> Cardinality(Loading(k) \cap complete)]
               L == KeysIn(failed, "load")
               F == KeysIn(failed, "store")
               C == KeysIn(complete, "store")
    <2>1. L \in SUBSET Key /\ F \in SUBSET Key /\ C \in SUBSET Key
      BY DEF KeysOf
    <2>2. PICK ord \in Orders(C \ MarkStoreFailed(MarkLoadFailed(mgr, L), F).failedStore) :
             mgr' = CompleteLoad(CompleteStore(
                        MarkStoreFailed(MarkLoadFailed(mgr, L), F), C, ord), ends)
      BY <1>5 DEF UpdateConnectorOutput
    <2>3. \A k \in C : mgr.inflightStore[k] # NoSlot
      <3> SUFFICES ASSUME NEW k \in C PROVE mgr.inflightStore[k] # NoSlot
        OBVIOUS
      <3>1. PICK j \in complete : jobs[j].kind = "store" /\ k \in KeysOf(j)
        OBVIOUS
      <3>2. j \in Job /\ Live(j)
        BY <1>5 DEF Completed, UpdateConnectorOutput
      <3>3. k \in Key /\ j \in Writers(k)
        BY <3>1, <3>2 DEF KeysOf, Writers
      <3> QED BY <1>0, <3>3 DEF SlabInv, Pending
    <2> HIDE DEF L, F, C, ends
    <2>4. RecencyIn(mgr')
      BY <1>0, <2>1, <2>2, <2>3, ReportRecency
    <2>5. Reported(mgr, L, F, C, ends, mgr')
      BY <1>0, <2>1, <2>2, ReportFields
    <2>6. GroupsMatch'
      <3>1. \A k \in Key : /\ mgr'.index[k] \in {mgr.index[k], mgr.inflightStore[k], NoSlot}
                           /\ mgr'.inflightStore[k] \in {mgr.inflightStore[k], NoSlot}
        BY <2>5 DEF Reported
      <3> QED BY <1>0, <3>1 DEF GroupsMatch
    <2> QED BY <2>4, <2>6
  <1>6. CASE ResetCache
    <2>1. /\ mgr'.older = {} /\ mgr'.index = [k \in Key |-> NoSlot]
          /\ mgr'.inflightStore = [k \in Key |-> NoSlot]
      BY <1>6 DEF ResetCache, EmptyManager
    <2>2. Indexed(mgr') = {}
      BY <2>1 DEF Indexed
    <2> QED BY <2>1, <2>2 DEF GroupsMatch, RecencyIn, Orders
  <1>7. ASSUME NEW j \in Job, NEW r \in Rank, FinishStale(j, r)
        PROVE  GroupsMatch' /\ RecencyIn(mgr')
    BY <1>0, <1>7 DEF FinishStale, GroupsMatch
  <1>8. CASE UNCHANGED vars
    BY <1>0, <1>8 DEF vars, GroupsMatch
  <1> QED
    BY <1>1, <1>2, <1>3, <1>4, <1>5, <1>6, <1>7, <1>8 DEF Next

\* prepare_store's "no evictable slot after a successful preflight" cannot be
\* raised: the preflight's count guarantees a slot of the right group for every
\* new key, in every reachable state.
THEOREM PreflightIsEnough == Spec => []PreflightSuffices
  <1>1. PlaceInv => PreflightSuffices
    <2> SUFFICES ASSUME PlaceInv, NEW req \in Request, NEW K \in SUBSET Range(req),
                        Preflight(mgr, K)
                 PROVE  Placements(mgr, K) # {}
      BY DEF PreflightSuffices
    <2>1. K \in SUBSET Key
      BY SlabConstants DEF SlabConstants, Range
    <2> QED BY <2>1, PlacementExists DEF PlaceInv, SlabInv
  <1> QED
    BY <1>1, InitPlace, NextPlace, PTL DEF Spec
============================================================================
