---------------------------- MODULE GcHeapProofs ----------------------------
(***************************************************************************)
(* Machine-checked facts about GcHeap for every capacity, generation limit *)
(* and set of realms: packed handles, types, and then that handles are     *)
(* never reused, that the free list is sound, that the reserved            *)
(* out-of-memory slot stays live, that a collection frees exactly the      *)
(* garbage of its realm and comes to an end, and that no external handle   *)
(* is lost.                                                                *)
(***************************************************************************)
EXTENDS GcHeap, TLAPS

\* Division with remainder is unique: what unpacking a packed pair gives back.
LEMMA DivMod ==
    ASSUME NEW n \in Nat \ {0}, NEW q \in Nat, NEW r \in 0 .. (n - 1)
    PROVE  (q * n + r) \div n = q /\ (q * n + r) % n = r
  OBVIOUS

\* A generation within its limit never overflows the packed word, so packing
\* is exact.
LEMMA PackExact ==
    ASSUME NEW i \in Index, NEW g \in 0 .. MaxGeneration
    PROVE  /\ ObjectId(i, g) = g * Capacity + i
           /\ ObjectId(i, g) \in Handle
<1>1. g * Capacity + i \in 0 .. (Words - 1)
  <2>1. g * Capacity <= MaxGeneration * Capacity
    BY HeapAssumption
  <2>2. g * Capacity \in Nat /\ MaxGeneration * Capacity \in Nat
    BY HeapAssumption
  <2>3. Words = MaxGeneration * Capacity + Capacity
    BY HeapAssumption DEF Words
  <2> QED
    BY <2>1, <2>2, <2>3, HeapAssumption DEF Index
<1>2. Words \in Nat \ {0}
  BY HeapAssumption DEF Words
<1>3. ASSUME NEW n \in Nat \ {0}, NEW r \in 0 .. (n - 1)
      PROVE  r % n = r
  OBVIOUS
<1> QED
  BY <1>1, <1>2, <1>3, Zenon DEF ObjectId, Handle

\* Unpacking a packed handle gives back the index and the generation.
LEMMA PackUnpack ==
    ASSUME NEW i \in Index, NEW g \in 0 .. MaxGeneration
    PROVE  /\ ObjectId(i, g) \in Handle
           /\ slot_index(ObjectId(i, g)) = i
           /\ generation(ObjectId(i, g)) = g
  BY PackExact, DivMod, HeapAssumption DEF Index, slot_index, generation

\* Every handle unpacks to an index and a generation in range, and is what
\* packing them yields.
LEMMA UnpackPack ==
    ASSUME NEW h \in Handle
    PROVE  /\ slot_index(h) \in Index
           /\ generation(h) \in 0 .. MaxGeneration
           /\ h = ObjectId(slot_index(h), generation(h))
<1>1. /\ slot_index(h) \in Index
      /\ generation(h) \in 0 .. MaxGeneration
      /\ h = generation(h) * Capacity + slot_index(h)
  BY HeapAssumption DEF Handle, Words, slot_index, generation, Index
<1> QED
  BY <1>1, PackExact, Zenon
-----------------------------------------------------------------------------
\* The pieces of an allocation keep the types.
LEMMA FillType ==
    ASSUME TypeOK, NEW i \in Index, NEW v \in Slot, NEW owner \in Owners, Fill(i, v, owner)
    PROVE  /\ slots' \in [Index -> Slot]
           /\ colors' \in [Index -> {"White", "Gray", "Black"}]
           /\ owners' \in [Index -> Owners]
  BY Zenon DEF TypeOK, Fill

\* An allocation keeps the types, whichever slot it chose.
LEMMA AllocType ==
    ASSUME TypeOK, NEW v \in Slot, NEW owner \in Owners,
           \/ PopFreeList(v, owner) \/ PushSlot(v, owner) \/ OverwriteSentinel(v, owner)
    PROVE  /\ len' \in 0 .. Capacity
           /\ slots' \in [Index -> Slot]
           /\ colors' \in [Index -> {"White", "Gray", "Black"}]
           /\ owners' \in [Index -> Owners]
           /\ generations' \in [Index -> 0 .. MaxGeneration]
           /\ free_list' \in Seq(Index)
           /\ held' \subseteq Handle /\ issued' \subseteq Handle
<1>1. CASE PopFreeList(v, owner)
  <2> DEFINE i == free_list[Len(free_list)]
  <2>1. i \in Index /\ SubSeq(free_list, 1, Len(free_list) - 1) \in Seq(Index)
    BY <1>1 DEF TypeOK, PopFreeList
  <2>2. ObjectId(i, generations[i]) \in Handle
    BY <2>1, PackExact, Zenon DEF TypeOK
  <2> QED
    BY <1>1, <2>1, <2>2, FillType, Zenon DEF TypeOK, PopFreeList, Receive
<1>2. CASE PushSlot(v, owner)
  <2>1. len \in Index /\ 0 \in 0 .. MaxGeneration
    BY <1>2, HeapAssumption DEF TypeOK, PushSlot, Index
  <2>2. ObjectId(len, 0) \in Handle
    BY <2>1, PackExact, Zenon
  <2>3. len' \in 0 .. Capacity /\ generations' \in [Index -> 0 .. MaxGeneration]
    BY <1>2, <2>1, HeapAssumption DEF TypeOK, PushSlot, Index
  <2> QED
    BY <1>2, <2>1, <2>2, <2>3, FillType, Zenon DEF TypeOK, PushSlot, Receive
<1>3. CASE OverwriteSentinel(v, owner)
  <2>1. oom_sentinel \in Index
    BY <1>3, Zenon DEF TypeOK, OverwriteSentinel
  <2>2. ObjectId(oom_sentinel, generations[oom_sentinel]) \in Handle
    BY <2>1, PackExact, Zenon DEF TypeOK
  <2> QED
    BY <1>3, <2>1, <2>2, FillType, Zenon DEF TypeOK, OverwriteSentinel, Receive
<1> QED
  BY <1>1, <1>2, <1>3, Zenon

\* What a drop notes is the number of an external handle.
LEMMA DropType ==
    ASSUME TypeOK, NEW i \in Index, Drop(i)
    PROVE  dropped' \subseteq 0 .. MaxExternals
<1>1. slots[i].ext \in 0 .. MaxExternals
  BY Zenon DEF TypeOK, Slot
<1> QED
  BY <1>1, Zenon DEF TypeOK, Drop

\* Emptying a slot keeps the types: the generation is bumped only below its limit.
LEMMA VacateType ==
    ASSUME TypeOK, NEW i \in Index, Vacate(i)
    PROVE  /\ slots' \in [Index -> Slot]
           /\ colors' \in [Index -> {"White", "Gray", "Black"}]
           /\ owners' \in [Index -> Owners]
           /\ generations' \in [Index -> 0 .. MaxGeneration]
           /\ free_list' \in Seq(Index)
<1>1. Free \in Slot
  BY HeapAssumption DEF Free, Slot, NoRefs, Refs
<1>2. generations' \in [Index -> 0 .. MaxGeneration] /\ free_list' \in Seq(Index)
  <2>1. CASE generations[i] < MaxGeneration
    <3>1. generations[i] + 1 \in 0 .. MaxGeneration
      BY <2>1, HeapAssumption DEF TypeOK
    <3>2. Append(free_list, i) \in Seq(Index)
      BY DEF TypeOK
    <3> QED
      BY <2>1, <3>1, <3>2, Zenon DEF TypeOK, Vacate, retire_slot_index
  <2>2. CASE ~(generations[i] < MaxGeneration)
    BY <2>2, Zenon DEF TypeOK, Vacate, retire_slot_index
  <2> QED
    BY <2>1, <2>2, Zenon
<1> QED
  BY <1>1, <1>2, HeapAssumption, Zenon DEF TypeOK, Vacate

\* Only slots are reachable.
LEMMA ReachableType ==
    ASSUME NEW roots, NEW scope, NEW eph
    PROVE  Reachable(roots, scope, eph) \subseteq Index
  BY Zenon DEF Reachable

\* The idle state is a collection state.
LEMMA IdleType == Idle \in Collections
  BY HeapAssumption DEF Idle, Collection, Collections

\* Starting a collection keeps the types.
LEMMA BeginType ==
    ASSUME TypeOK, NEW scope \in Owners \cup {AllOwners},
           NEW eph \in SUBSET (Handle \X Handle), NEW must \in SUBSET Index,
           BeginCollection(scope, eph, must)
    PROVE  TypeOK'
<1>1. gc' \in Collections
  BY ReachableType, HeapAssumption DEF BeginCollection, Collection, Collections
<1>2. colors' \in [Index -> {"White", "Gray", "Black"}]
  BY Zenon DEF BeginCollection
<1> QED
  BY <1>1, <1>2, Zenon DEF TypeOK, BeginCollection, clientVars

\* Ephemerons are pairs of handles.
LEMMA EphemeronsType ==
    ASSUME TypeOK, NEW eph \in Ephemerons
    PROVE  eph \in SUBSET (Handle \X Handle)
<1>0. PICK n \in 0 .. MaxEphemerons :
            eph \in { {f[k] : k \in 1 .. n} : f \in [1 .. n -> issued \X issued]}
  BY Zenon DEF Ephemerons
<1>1. PICK f \in [1 .. n -> issued \X issued] : eph = {f[k] : k \in 1 .. n}
  BY <1>0, Zenon
<1>2. \A k \in 1 .. n : f[k] \in Handle \X Handle
  BY Zenon DEF TypeOK
<1> QED
  BY <1>1, <1>2, Zenon

\* Every operation of the client keeps the types.
LEMMA ClientStepType == TypeOK /\ ClientStep => TypeOK'
<1> SUFFICES ASSUME TypeOK, ClientStep PROVE TypeOK'
  BY Zenon
<1> USE DEF heapVars, clientVars
<1>1. ASSUME NEW owner \in Owners, NEW refs \in [1 .. Width -> held \cup {None}],
             alloc_with_owner(refs, owner)
      PROVE  TypeOK'
  <2>1. Object(refs) \in Slot
    BY HeapAssumption DEF Object, Slot, Refs, TypeOK
  <2>2. oom' \in BOOLEAN
    BY <1>1, Zenon DEF TypeOK, alloc_with_owner
  <2>3. dropped' \subseteq 0 .. MaxExternals
    BY <1>1, DropType, Zenon DEF TypeOK, alloc_with_owner, OverwriteSentinel
  <2> QED
    BY <1>1, <2>1, <2>2, <2>3, AllocType, Zenon DEF TypeOK, alloc_with_owner
<1>2. ASSUME NEW owner \in Owners, alloc_external_with_owner(owner)
      PROVE  TypeOK'
  <2>1. /\ externals + 1 \in 1 .. MaxExternals
        /\ External(externals + 1) \in Slot
    BY <1>2, HeapAssumption DEF External, Slot, Refs, NoRefs, TypeOK, alloc_external_with_owner
  <2>2. externals' \in 0 .. MaxExternals
    BY <1>2, <2>1, HeapAssumption DEF alloc_external_with_owner
  <2> QED
    BY <1>2, <2>1, <2>2, AllocType, Zenon DEF TypeOK, alloc_external_with_owner
<1>3. ASSUME NEW id \in held, reserve_oom_sentinel(id)
      PROVE  TypeOK'
  BY <1>3, UnpackPack, Zenon DEF TypeOK, reserve_oom_sentinel
<1>4. ASSUME take_oom
      PROVE  TypeOK'
  BY <1>4, Zenon DEF TypeOK, take_oom
<1>5. ASSUME NEW id \in held, NEW owner \in Owners, set_owner(id, owner)
      PROVE  TypeOK'
  BY <1>5, Zenon DEF TypeOK, set_owner
<1>6. ASSUME NEW id \in held, free(id)
      PROVE  TypeOK'
  <2>1. slot_index(id) \in Index
    BY UnpackPack, Zenon DEF TypeOK
  <2>2. dropped' \subseteq 0 .. MaxExternals
    BY <1>6, <2>1, DropType, Zenon DEF free
  <2> QED
    BY <1>6, <2>1, <2>2, VacateType, Zenon DEF TypeOK, free
<1>7. ASSUME take_freed_external_handles
      PROVE  TypeOK'
  <2>1. \A k \in 1 .. Len(freed_external) : freed_external[k] \in 0 .. MaxExternals
    <3>1. freed_external \in Seq(0 .. MaxExternals)
      BY Zenon DEF TypeOK
    <3> QED
      BY <3>1, HeapAssumption
  <2>2. released' \subseteq 0 .. MaxExternals
    BY <1>7, <2>1, Zenon DEF TypeOK, take_freed_external_handles
  <2>3. freed_external' \in Seq(0 .. MaxExternals)
    BY <1>7 DEF take_freed_external_handles
  <2>4. UNCHANGED <<len, slots, colors, owners, generations, free_list, oom,
                    oom_sentinel, gc, held, issued, externals, dropped>>
    BY <1>7, Zenon DEF take_freed_external_handles
  <2> QED
    BY <2>2, <2>3, <2>4, Zenon DEF TypeOK
<1>8. ASSUME NEW id \in held, NEW k \in 1 .. Width, NEW v \in held \cup {None}, Store(id, k, v)
      PROVE  TypeOK'
  <2>1. slot_index(id) \in Index
    BY UnpackPack, Zenon DEF TypeOK
  <2>2. v \in Handle \cup {None}
    BY Zenon DEF TypeOK
  <2>3. get(id).refs \in Refs
    BY <1>8, <2>1, Zenon DEF TypeOK, Store, get, Slot, Resolves
  <2>4. Object([get(id).refs EXCEPT ![k] = v]) \in Slot
    BY <2>2, <2>3, HeapAssumption DEF Object, Slot, Refs
  <2>5. slots' \in [Index -> Slot]
    BY <1>8, <2>1, <2>4, Zenon DEF TypeOK, Store
  <2> QED
    BY <1>8, <2>5, Zenon DEF TypeOK, Store
<1>9. ASSUME NEW id \in held, NEW k \in 1 .. Width, Load(id, k)
      PROVE  TypeOK'
  <2>1. slot_index(id) \in Index
    BY UnpackPack, Zenon DEF TypeOK
  <2>2. get(id).refs[k] \in Handle
    BY <1>9, <2>1, Zenon DEF TypeOK, Load, get, Slot, Refs, Resolves
  <2> QED
    BY <1>9, <2>2, Zenon DEF TypeOK, Load
<1>10. ASSUME NEW id \in held, Forget(id)
       PROVE  TypeOK'
  BY <1>10, Zenon DEF TypeOK, Forget
<1> QED
  BY <1>1, <1>2, <1>3, <1>4, <1>5, <1>6, <1>7, <1>8, <1>9, <1>10, Zenon DEF ClientStep

\* A step of the sweep keeps the types.
LEMMA SweepSlotType == TypeOK /\ SweepSlot => TypeOK'
<1> SUFFICES ASSUME TypeOK, SweepSlot PROVE TypeOK'
  OBVIOUS
<1> DEFINE i == gc.next
<1>1. i \in Index /\ i + 1 \in 0 .. Capacity
  <2>1. i \in 0 .. Capacity /\ len \in 0 .. Capacity
    BY Zenon DEF TypeOK, Collections
  <2>2. i < len
    BY Zenon DEF SweepSlot
  <2> QED
    BY <2>1, <2>2, HeapAssumption DEF Index
<1>2. gc' \in Collections
  <2>1. gc \in Collections /\ gc' = [gc EXCEPT !.next = i + 1]
    BY Zenon DEF TypeOK, SweepSlot
  <2> QED
    BY <1>1, <2>1, Zenon DEF Collections
<1>3. /\ UNCHANGED <<len, oom, oom_sentinel>>
      /\ UNCHANGED <<held, issued, externals, released, dropped>>
  BY Zenon DEF SweepSlot, clientVars
<1>4. CASE Doomed(i)
  <2>1. Vacate(i)
    BY <1>4, Zenon DEF SweepSlot
  <2>2. freed_external' \in Seq(0 .. MaxExternals)
    <3>1. slots[i].ext \in 0 .. MaxExternals
      BY <1>1, Zenon DEF TypeOK, Slot
    <3>2. Append(freed_external, slots[i].ext) \in Seq(0 .. MaxExternals)
      BY <3>1 DEF TypeOK
    <3> QED
      BY <1>4, <3>2, Zenon DEF SweepSlot, TypeOK
  <2> QED
    BY <1>1, <1>2, <1>3, <2>1, <2>2, VacateType, Zenon DEF TypeOK
<1>5. CASE ~Doomed(i)
  BY <1>1, <1>2, <1>3, <1>5, Zenon DEF TypeOK, SweepSlot
<1> QED
  BY <1>4, <1>5, Zenon

\* Every step of the collector keeps the types.
LEMMA CollectorStepType == TypeOK /\ CollectorStep => TypeOK'
<1> SUFFICES ASSUME TypeOK, CollectorStep PROVE TypeOK'
  OBVIOUS
<1> USE DEF heapVars, clientVars
<1>1. ASSUME NEW eph \in Ephemerons, collect_with_ephemerons(eph)
      PROVE  TypeOK'
  BY <1>1, BeginType, ReachableType, EphemeronsType, Zenon DEF collect_with_ephemerons
<1>2. ASSUME NEW owner \in Owners, NEW eph \in Ephemerons,
             \/ collect_realm_with_ephemerons(owner, eph)
             \/ try_collect_realm_with_ephemerons(owner, eph)
      PROVE  TypeOK'
  BY <1>2, BeginType, ReachableType, EphemeronsType, Zenon
     DEF collect_realm_with_ephemerons, try_collect_realm_with_ephemerons
<1>3. ASSUME NEW owner \in Owners, sweep_realm(owner)
      PROVE  TypeOK'
  <2>1. gc' \in Collections
    BY <1>3, HeapAssumption DEF sweep_realm, Collection, Collections
  <2> QED
    BY <1>3, <2>1, Zenon DEF TypeOK, sweep_realm
<1>4. ASSUME NEW i \in Index, MarkSlot(i)
      PROVE  TypeOK'
  BY <1>4, Zenon DEF TypeOK, MarkSlot
<1>5. ASSUME NEW p \in gc.eph, MarkEphemeron(p)
      PROVE  TypeOK'
  BY <1>5, Zenon DEF TypeOK, MarkEphemeron
<1>6. ASSUME EndMark
      PROVE  TypeOK'
  <2>1. gc \in Collections /\ gc' = [gc EXCEPT !.phase = "sweep"]
    BY <1>6, Zenon DEF TypeOK, EndMark
  <2>2. gc' \in Collections
    BY <2>1, Zenon DEF Collections
  <2> QED
    BY <1>6, <2>2, Zenon DEF TypeOK, EndMark
<1>7. ASSUME EndSweep
      PROVE  TypeOK'
  BY <1>7, IdleType, Zenon DEF TypeOK, EndSweep
<1> QED
  BY <1>1, <1>2, <1>3, <1>4, <1>5, <1>6, <1>7, SweepSlotType, Zenon DEF CollectorStep

\* Type correctness: handles fit the packed word, generations stay within their
\* limit and every index is a slot, whatever the client and the collector do.
THEOREM TypeCorrect == Spec => []TypeOK
<1>1. Init => TypeOK
  <2>1. Free \in Slot
    BY HeapAssumption DEF Free, Slot, NoRefs, Refs
  <2> QED
    BY <2>1, IdleType, HeapAssumption DEF Init, TypeOK, Index
<1>2. TypeOK /\ [Next]_vars => TypeOK'
  <2> SUFFICES ASSUME TypeOK, [Next]_vars PROVE TypeOK'
    BY Zenon
  <2>1. CASE UNCHANGED vars
    BY <2>1, Zenon DEF TypeOK, vars, heapVars, clientVars
  <2> QED
    BY <2>1, ClientStepType, CollectorStepType, Zenon DEF Next
<1> QED
  BY <1>1, <1>2, PTL DEF Spec

-----------------------------------------------------------------------------
(* Handles and the free list.                                              *)

\* Popping the free list: what is left is the list without its last entry.
LEMMA FrontOfSeq ==
    ASSUME NEW S, NEW s \in Seq(S), s # <<>>
    PROVE  LET t == SubSeq(s, 1, Len(s) - 1) IN
           /\ Len(s) \in Nat \ {0}
           /\ Len(t) = Len(s) - 1
           /\ \A n \in 1 .. Len(t) : t[n] = s[n] /\ s[n] \in S
<1>1. Len(s) \in Nat \ {0}
  OBVIOUS
<1>2. \A k \in 1 .. Len(s) : s[k] \in S
  OBVIOUS
<1>3. PICK n \in Nat : Len(s) = n + 1
  BY <1>1
<1>4. Len(SubSeq(s, 1, n)) = n
  BY <1>3
<1>5. \A k \in 1 .. n : SubSeq(s, 1, n)[k] = s[k]
  BY <1>2, <1>3
<1> QED
  BY <1>1, <1>2, <1>3, <1>4, <1>5

\* An allocation from the free list gives out a new handle and leaves the
\* other entries fresh.
LEMMA PopHandles ==
    ASSUME TypeOK, HandleInv, NEW v \in Slot, NEW owner \in Owners,
           \A k \in 1 .. Width : v.refs[k] \in issued \cup {None},
           PopFreeList(v, owner)
    PROVE  HandleInv'
<1> DEFINE i == free_list[Len(free_list)]
           id == ObjectId(i, generations[i])
<1>0. FreshList
  BY Zenon DEF HandleInv, PopFreeList
<1>1. /\ Len(free_list) \in Nat \ {0}
      /\ Len(free_list') = Len(free_list) - 1
      /\ \A n \in 1 .. Len(free_list') : free_list'[n] = free_list[n] /\ free_list[n] \in Index
  BY FrontOfSeq DEF TypeOK, PopFreeList
<1>2. i \in Index /\ i < len /\ generations[i] \in 0 .. MaxGeneration
  BY <1>0, <1>1 DEF TypeOK, FreshList, PopFreeList
<1>3. id \in Handle /\ slot_index(id) = i /\ generation(id) = generations[i]
  BY <1>2, PackUnpack, Zenon
<1>4. \A n \in 1 .. Len(free_list') : free_list[n] # i
  BY <1>0, <1>1 DEF FreshList
<1>5. /\ slots' = [slots EXCEPT ![i] = v]
      /\ held' = held \cup {id} /\ issued' = issued \cup {id}
      /\ len' = len /\ generations' = generations
  BY Zenon DEF PopFreeList, Fill, Receive
<1>6. held' \subseteq issued'
  BY <1>5, Zenon DEF HandleInv
<1>7. \A j \in Index, k \in 1 .. Width : slots'[j].refs[k] \in issued' \cup {None}
  BY <1>2, <1>5, Zenon DEF HandleInv, TypeOK
<1>8. \A h \in issued' : slot_index(h) < len' /\ generation(h) <= generations'[slot_index(h)]
  BY <1>2, <1>3, <1>5 DEF HandleInv
<1>9. \A j \in Index : j >= len' => slots'[j].kind = "Free"
  BY <1>2, <1>5 DEF HandleInv, TypeOK, Index
<1>10. \A m, n \in 1 .. Len(free_list') : free_list'[m] = free_list'[n] => m = n
  BY <1>0, <1>1 DEF FreshList
<1>11. \A n \in 1 .. Len(free_list') :
        /\ free_list'[n] < len'
        /\ slots'[free_list'[n]].kind = "Free"
        /\ \A h \in issued' : slot_index(h) = free_list'[n]
                                => generation(h) < generations'[free_list'[n]]
  <2> TAKE n \in 1 .. Len(free_list')
  <2>1. n \in 1 .. Len(free_list) /\ free_list'[n] = free_list[n] /\ free_list[n] \in Index /\ free_list[n] # i
    BY <1>1, <1>4
  <2> QED
    BY <1>0, <1>3, <1>5, <2>1, Zenon DEF FreshList, TypeOK
<1> QED
  BY <1>6, <1>7, <1>8, <1>9, <1>10, <1>11, Zenon DEF HandleInv, FreshList

\* An allocation that extends the vectors gives out the first handle of a new slot.
LEMMA PushHandles ==
    ASSUME TypeOK, HandleInv, NEW v \in Slot, NEW owner \in Owners,
           \A k \in 1 .. Width : v.refs[k] \in issued \cup {None},
           PushSlot(v, owner)
    PROVE  HandleInv'
<1> DEFINE id == ObjectId(len, 0)
<1>1. len \in Index /\ len \in Nat /\ 0 \in 0 .. MaxGeneration
  BY HeapAssumption DEF TypeOK, PushSlot, Index
<1>2. id \in Handle /\ slot_index(id) = len /\ generation(id) = 0
  BY <1>1, PackUnpack, Zenon
<1>3. /\ slots' = [slots EXCEPT ![len] = v]
      /\ generations' = [generations EXCEPT ![len] = 0]
      /\ held' = held \cup {id} /\ issued' = issued \cup {id}
      /\ len' = len + 1 /\ free_list' = free_list
  BY Zenon DEF PushSlot, Fill, Receive
<1>4. \A h \in issued : slot_index(h) \in Index /\ slot_index(h) < len
  BY UnpackPack, Zenon DEF TypeOK, HandleInv
<1>6. held' \subseteq issued'
  BY <1>3, Zenon DEF HandleInv
<1>7. \A j \in Index, k \in 1 .. Width : slots'[j].refs[k] \in issued' \cup {None}
  BY <1>1, <1>3, Zenon DEF HandleInv, TypeOK
<1>8. \A h \in issued' : slot_index(h) < len' /\ generation(h) <= generations'[slot_index(h)]
  <2>1. ASSUME NEW h \in issued PROVE slot_index(h) < len' /\ generation(h) <= generations'[slot_index(h)]
    BY <1>1, <1>3, <1>4 DEF HandleInv, TypeOK, Index
  <2>2. slot_index(id) < len' /\ generation(id) <= generations'[slot_index(id)]
    BY <1>1, <1>2, <1>3 DEF TypeOK
  <2> QED
    BY <1>3, <2>1, <2>2, Zenon
<1>9. \A j \in Index : j >= len' => slots'[j].kind = "Free"
  BY <1>1, <1>3 DEF HandleInv, TypeOK, Index
<1>10. ASSUME ReuseSlots PROVE FreshList'
  <2>0. FreshList
    BY <1>10, Zenon DEF HandleInv
  <2>1. \A n \in 1 .. Len(free_list) : free_list[n] \in Index
    BY DEF TypeOK
  <2>2. \A n \in 1 .. Len(free_list) : free_list[n] \in Nat /\ free_list[n] < len
    BY <2>0, <2>1 DEF FreshList, Index
  <2>3. \A m, n \in 1 .. Len(free_list') : free_list'[m] = free_list'[n] => m = n
    BY <1>3, <2>0, Zenon DEF FreshList
  <2>4. ASSUME NEW n \in 1 .. Len(free_list')
        PROVE  /\ free_list'[n] < len'
               /\ slots'[free_list'[n]].kind = "Free"
               /\ \A h \in issued' : slot_index(h) = free_list'[n]
                                        => generation(h) < generations'[free_list'[n]]
    <3>1. n \in 1 .. Len(free_list) /\ free_list'[n] = free_list[n] /\ free_list[n] # len
      BY <1>1, <1>3, <2>2
    <3>2. free_list[n] < len + 1
      BY <1>1, <2>2, <3>1
    <3> QED
      BY <1>1, <1>2, <1>3, <2>0, <2>1, <3>1, <3>2, Zenon DEF FreshList, TypeOK
  <2> QED
    BY <2>3, <2>4, Zenon DEF FreshList
<1> QED
  BY <1>6, <1>7, <1>8, <1>9, <1>10, Zenon DEF HandleInv

\* At capacity the reserved slot keeps its generation, and nothing waits to be
\* recycled.
LEMMA OverwriteHandles ==
    ASSUME TypeOK, HandleInv, NEW v \in Slot, NEW owner \in Owners,
           \A k \in 1 .. Width : v.refs[k] \in issued \cup {None},
           OverwriteSentinel(v, owner)
    PROVE  HandleInv'
<1> DEFINE i == oom_sentinel
           id == ObjectId(i, generations[i])
<1>1. i \in Index /\ i < len
  BY HeapAssumption DEF TypeOK, OverwriteSentinel, Index
<1>2. slot_index(id) = i /\ generation(id) = generations[i] /\ generations[i] \in Nat
  <2>1. generations[i] \in 0 .. MaxGeneration
    BY <1>1, Zenon DEF TypeOK
  <2> QED
    BY <1>1, <2>1, PackUnpack, HeapAssumption
<1>3. /\ slots' = [slots EXCEPT ![i] = v]
      /\ held' = held \cup {id} /\ issued' = issued \cup {id}
      /\ len' = len /\ generations' = generations /\ free_list' = free_list
  BY Zenon DEF OverwriteSentinel, Fill, Receive
<1>4. held' \subseteq issued'
  BY <1>3, Zenon DEF HandleInv
<1>5. \A j \in Index, k \in 1 .. Width : slots'[j].refs[k] \in issued' \cup {None}
  BY <1>1, <1>3, Zenon DEF HandleInv, TypeOK
<1>6. \A h \in issued' : slot_index(h) < len' /\ generation(h) <= generations'[slot_index(h)]
  BY <1>1, <1>2, <1>3 DEF HandleInv
<1>7. \A j \in Index : j >= len' => slots'[j].kind = "Free"
  <2>1. \A j \in Index : j >= len' => j # i
    BY <1>1, <1>3 DEF TypeOK, Index
  <2> QED
    BY <1>1, <1>3, <2>1, Zenon DEF HandleInv, TypeOK
<1>8. ReuseSlots => FreshList'
  <2>1. ReuseSlots => free_list' = <<>>
    BY <1>3, Zenon DEF OverwriteSentinel
  <2> QED
    BY <2>1 DEF FreshList
<1> QED
  BY <1>4, <1>5, <1>6, <1>7, <1>8, Zenon DEF HandleInv

\* Emptying a slot that is not on the free list ends every handle to it, or
\* retires the slot for good.
LEMMA VacateHandles ==
    ASSUME TypeOK, HandleInv, NEW i \in Index, i < len, Vacate(i),
           ReuseSlots => \A n \in 1 .. Len(free_list) : free_list[n] # i,
           UNCHANGED <<len, held, issued>>
    PROVE  HandleInv'
<1>1. slots' = [slots EXCEPT ![i] = Free]
  BY Zenon DEF Vacate
<1>2. Free.kind = "Free" /\ \A k \in 1 .. Width : Free.refs[k] = None
  BY Zenon DEF Free, NoRefs
<1>3. \A j \in Index, k \in 1 .. Width : slots'[j].refs[k] \in issued' \cup {None}
  BY <1>1, <1>2, Zenon DEF HandleInv, TypeOK
<1>4. \A j \in Index : slots[j].kind = "Free" => slots'[j].kind = "Free"
  BY <1>1, <1>2, Zenon DEF TypeOK
<1>5. slots'[i].kind = "Free"
  BY <1>1, <1>2, Zenon DEF TypeOK
<1>6. \A h \in issued : slot_index(h) \in Index /\ generation(h) \in Nat
  BY UnpackPack, HeapAssumption DEF TypeOK
<1>7. \A n \in 1 .. Len(free_list) : free_list[n] \in Index
  BY DEF TypeOK
<1>8. CASE generations[i] < MaxGeneration
  <2>1. /\ generations' = [generations EXCEPT ![i] = @ + 1]
        /\ free_list' = Append(free_list, i)
    BY <1>8, Zenon DEF Vacate, retire_slot_index
  <2>2. /\ Len(free_list) \in Nat /\ Len(free_list') = Len(free_list) + 1
        /\ \A n \in 1 .. Len(free_list) : free_list'[n] = free_list[n]
        /\ free_list'[Len(free_list) + 1] = i
    BY <2>1 DEF TypeOK
  <2>3. \A j \in Index : /\ generations[j] \in Nat
                         /\ j # i => generations'[j] = generations[j]
        /\ generations'[i] = generations[i] + 1
    BY <2>1, HeapAssumption DEF TypeOK
  <2>4. \A h \in issued' : slot_index(h) < len' /\ generation(h) <= generations'[slot_index(h)]
    BY <1>6, <2>3 DEF HandleInv
  <2>5. ASSUME ReuseSlots PROVE FreshList'
    <3>0. FreshList
      BY <2>5, Zenon DEF HandleInv
    <3>1. \A m, n \in 1 .. Len(free_list') : free_list'[m] = free_list'[n] => m = n
      BY <2>2, <2>5, <3>0 DEF FreshList
    <3>2. ASSUME NEW n \in 1 .. Len(free_list')
          PROVE  /\ free_list'[n] < len'
                 /\ slots'[free_list'[n]].kind = "Free"
                 /\ \A h \in issued' : slot_index(h) = free_list'[n]
                                          => generation(h) < generations'[free_list'[n]]
      <4>1. CASE n \in 1 .. Len(free_list)
        BY <1>4, <1>7, <2>2, <2>3, <2>5, <3>0, <4>1 DEF FreshList
      <4>2. CASE n = Len(free_list) + 1
        BY <1>5, <1>6, <2>2, <2>3, <4>2 DEF HandleInv
      <4> QED
        BY <2>2, <4>1, <4>2
    <3> QED
      BY <3>1, <3>2, Zenon DEF FreshList
  <2> QED
    BY <1>3, <1>4, <2>4, <2>5, Zenon DEF HandleInv
<1>9. CASE ~(generations[i] < MaxGeneration)
  <2>1. generations' = generations /\ free_list' = free_list
    BY <1>9, Zenon DEF Vacate, retire_slot_index
  <2> QED
    BY <1>3, <1>4, <1>7, <2>1, Zenon DEF HandleInv, FreshList
<1> QED
  BY <1>8, <1>9, Zenon

\* Steps that leave the slots' contents, the free list and the handles alone.
LEMMA SameHandles ==
    ASSUME HandleInv, UNCHANGED <<len, slots, generations, free_list, held, issued>>
    PROVE  HandleInv'
  BY Zenon DEF HandleInv, FreshList, slot_index, generation

\* Every operation of the client preserves the handle invariant.
LEMMA ClientStepHandles == TypeOK /\ HandleInv /\ ClientStep => HandleInv'
<1> SUFFICES ASSUME TypeOK, HandleInv, ClientStep PROVE HandleInv'
  BY Zenon
<1> USE DEF heapVars, clientVars
<1>1. ASSUME NEW owner \in Owners, NEW refs \in [1 .. Width -> held \cup {None}],
             alloc_with_owner(refs, owner)
      PROVE  HandleInv'
  <2>1. Object(refs) \in Slot
    BY HeapAssumption DEF Object, Slot, Refs, TypeOK
  <2>2. \A k \in 1 .. Width : Object(refs).refs[k] \in issued \cup {None}
    BY Zenon DEF Object, HandleInv
  <2> QED
    BY <1>1, <2>1, <2>2, PopHandles, PushHandles, OverwriteHandles, Zenon DEF alloc_with_owner
<1>2. ASSUME NEW owner \in Owners, alloc_external_with_owner(owner)
      PROVE  HandleInv'
  <2>1. External(externals + 1) \in Slot
    BY <1>2, HeapAssumption DEF External, Slot, Refs, NoRefs, TypeOK, alloc_external_with_owner
  <2>2. \A k \in 1 .. Width : External(externals + 1).refs[k] \in issued \cup {None}
    BY Zenon DEF External, NoRefs
  <2> QED
    BY <1>2, <2>1, <2>2, PopHandles, PushHandles, Zenon DEF alloc_external_with_owner
<1>3. ASSUME NEW id \in held, reserve_oom_sentinel(id)
      PROVE  HandleInv'
  BY <1>3, SameHandles, Zenon DEF reserve_oom_sentinel
<1>4. ASSUME take_oom
      PROVE  HandleInv'
  BY <1>4, SameHandles, Zenon DEF take_oom
<1>5. ASSUME NEW id \in held, NEW owner \in Owners, set_owner(id, owner)
      PROVE  HandleInv'
  BY <1>5, SameHandles, Zenon DEF set_owner
<1>6. ASSUME NEW id \in held, free(id)
      PROVE  HandleInv'
  <2> DEFINE i == slot_index(id)
  <2>1. id \in issued /\ i \in Index /\ generation(id) \in Nat
    BY UnpackPack, HeapAssumption DEF TypeOK, HandleInv
  <2>2. i < len /\ generations[i] = generation(id)
    BY <1>6, Zenon DEF free, generation_matches
  <2>3. ReuseSlots => \A n \in 1 .. Len(free_list) : free_list[n] # i
    BY <2>1, <2>2 DEF HandleInv, FreshList
  <2> QED
    BY <1>6, <2>1, <2>2, <2>3, VacateHandles, Zenon DEF free
<1>7. ASSUME take_freed_external_handles
      PROVE  HandleInv'
  BY <1>7, SameHandles, Zenon DEF take_freed_external_handles
<1>8. ASSUME NEW id \in held, NEW k \in 1 .. Width, NEW v \in held \cup {None}, Store(id, k, v)
      PROVE  HandleInv'
  <2> DEFINE i == slot_index(id)
             new == [slots[i].refs EXCEPT ![k] = v]
  <2>1. i \in Index /\ slots[i].kind = "Object" /\ get(id) = slots[i]
    BY <1>8, UnpackPack, Zenon DEF TypeOK, Store, get, Resolves
  <2>2. slots' = [slots EXCEPT ![i] = Object(new)]
    BY <1>8, <2>1, Zenon DEF Store
  <2>3. /\ \A j \in Index : slots'[j].kind = slots[j].kind
        /\ slots'[i].refs = new
        /\ \A j \in Index : j # i => slots'[j] = slots[j]
    BY <2>1, <2>2, Zenon DEF TypeOK, Object
  <2>4. slots[i].refs \in Refs
    BY <2>1, Zenon DEF TypeOK, Slot
  <2>5. \A n \in 1 .. Width : new[n] \in issued \cup {None}
    BY <2>1, <2>4, Zenon DEF HandleInv, Refs
  <2>6. UNCHANGED <<len, generations, free_list, held, issued>>
    BY <1>8, Zenon DEF Store
  <2>7. \A n \in 1 .. Len(free_list) : free_list[n] \in Index
    BY DEF TypeOK
  <2>8. \A j \in Index, n \in 1 .. Width : slots'[j].refs[n] \in issued' \cup {None}
    BY <2>3, <2>5, <2>6, Zenon DEF HandleInv
  <2> QED
    BY <2>3, <2>6, <2>7, <2>8, Zenon DEF HandleInv, FreshList
<1>9. ASSUME NEW id \in held, NEW k \in 1 .. Width, Load(id, k)
      PROVE  HandleInv'
  <2>1. slot_index(id) \in Index
    BY UnpackPack, Zenon DEF TypeOK
  <2>2. get(id).refs[k] \in issued
    BY <1>9, <2>1, Zenon DEF Load, get, Resolves, HandleInv
  <2> QED
    BY <1>9, <2>2, Zenon DEF Load, HandleInv, FreshList
<1>10. ASSUME NEW id \in held, Forget(id)
       PROVE  HandleInv'
  BY <1>10, Zenon DEF Forget, HandleInv, FreshList
<1> QED
  BY <1>1, <1>2, <1>3, <1>4, <1>5, <1>6, <1>7, <1>8, <1>9, <1>10, Zenon DEF ClientStep

\* Every step of the collector preserves the handle invariant: only the sweep
\* frees slots.
LEMMA CollectorStepHandles == TypeOK /\ HandleInv /\ CollectorStep => HandleInv'
<1> SUFFICES ASSUME TypeOK, HandleInv, CollectorStep PROVE HandleInv'
  BY Zenon
<1> USE DEF heapVars, clientVars
<1>1. ASSUME SweepSlot
      PROVE  HandleInv'
  <2> DEFINE i == gc.next
  <2>1. i \in Index /\ i < len
    BY <1>1, HeapAssumption DEF TypeOK, Collections, SweepSlot, Index
  <2>2. CASE Doomed(i)
    <3>1. ReuseSlots => \A n \in 1 .. Len(free_list) : free_list[n] # i
      BY <2>2, Zenon DEF Doomed, HandleInv, FreshList
    <3>2. Vacate(i) /\ UNCHANGED <<len, held, issued>>
      BY <1>1, <2>2, Zenon DEF SweepSlot
    <3> QED
      BY <2>1, <3>1, <3>2, VacateHandles, Zenon
  <2>3. CASE ~Doomed(i)
    BY <1>1, <2>3, SameHandles, Zenon DEF SweepSlot
  <2> QED
    BY <2>2, <2>3, Zenon
<1>2. ASSUME ~SweepSlot
      PROVE  UNCHANGED <<len, slots, generations, free_list, held, issued>>
  BY <1>2, Zenon DEF CollectorStep, collect_with_ephemerons, collect_realm_with_ephemerons,
     try_collect_realm_with_ephemerons, BeginCollection, sweep_realm, MarkSlot,
     MarkEphemeron, EndMark, EndSweep
<1> QED
  BY <1>1, <1>2, SameHandles, Zenon

\* The handle invariant is inductive.
THEOREM HandlesInductive == Spec => [](TypeOK /\ HandleInv)
<1>1. Init => HandleInv
  <2> SUFFICES ASSUME Init PROVE HandleInv
    BY Zenon
  <2>1. Free.kind = "Free" /\ \A k \in 1 .. Width : Free.refs[k] = None
    BY Zenon DEF Free, NoRefs
  <2>2. Len(free_list) = 0
    BY Zenon DEF Init
  <2> QED
    BY <2>1, <2>2 DEF Init, HandleInv, FreshList
<1>2. TypeOK /\ HandleInv /\ [Next]_vars => HandleInv'
  <2> SUFFICES ASSUME TypeOK, HandleInv, [Next]_vars PROVE HandleInv'
    BY Zenon
  <2>1. CASE UNCHANGED vars
    BY <2>1, SameHandles, Zenon DEF vars, heapVars, clientVars
  <2>2. CASE ClientStep
    BY <2>2, ClientStepHandles, Zenon
  <2>3. CASE CollectorStep
    BY <2>3, CollectorStepHandles, Zenon
  <2> QED
    BY <2>1, <2>2, <2>3, Zenon DEF Next
<1> QED
  BY <1>1, <1>2, TypeCorrect, PTL DEF Spec

\* Where slots are recycled, the free list never names an occupied slot, or a
\* slot twice, and the next user of a listed slot gets a handle nobody ever had.
THEOREM FreeListIsSound == Spec => []FreeListSound
<1>1. TypeOK /\ HandleInv => FreeListSound
  <2> SUFFICES ASSUME TypeOK, HandleInv, ReuseSlots PROVE FreeListSound
    BY Zenon DEF FreeListSound
  <2>0. FreshList
    BY Zenon DEF HandleInv
  <2>1. DOMAIN free_list = 1 .. Len(free_list)
    BY DEF TypeOK
  <2>2. \A n \in 1 .. Len(free_list) : free_list[n] \in Index
    BY DEF TypeOK
  <2>3. ASSUME NEW n \in 1 .. Len(free_list)
        PROVE  ObjectId(free_list[n], generations[free_list[n]]) \notin issued
    <3> DEFINE i == free_list[n]
    <3>1. i \in Index /\ generations[i] \in 0 .. MaxGeneration
      BY <2>2, Zenon DEF TypeOK
    <3>2. slot_index(ObjectId(i, generations[i])) = i /\ generation(ObjectId(i, generations[i])) = generations[i]
      BY <3>1, PackUnpack, Zenon
    <3> QED
      BY <2>0, <3>1, <3>2 DEF FreshList
  <2> QED
    BY <2>0, <2>1, <2>3, Zenon DEF FreeListSound, FreshList
<1> QED
  BY <1>1, HandlesInductive, PTL

\* An allocation that recycles or adds a slot populates only that slot, under a
\* handle never given out.
LEMMA AllocFresh ==
    ASSUME TypeOK, HandleInv, NEW v \in Slot, NEW owner \in Owners,
           PopFreeList(v, owner) \/ PushSlot(v, owner),
           NEW i \in Index, slots[i].kind = "Free", slots'[i].kind # "Free"
    PROVE  ObjectId(i, generations'[i]) \notin issued
<1>1. CASE PopFreeList(v, owner)
  <2>1. Len(free_list) \in 1 .. Len(free_list)
    <3>1. free_list \in Seq(Index) /\ free_list # <<>> BY <1>1, Zenon DEF TypeOK, PopFreeList
    <3> QED BY <3>1
  <2>2. i = free_list[Len(free_list)] /\ generations' = generations
    BY <1>1, Zenon DEF PopFreeList, Fill, TypeOK
  <2>3. slot_index(ObjectId(i, generations[i])) = i /\ generation(ObjectId(i, generations[i])) = generations[i]
    BY PackUnpack, Zenon DEF TypeOK
  <2>4. generations[i] \in Int
    BY DEF TypeOK
  <2>5. \A h \in issued : slot_index(h) = i => generation(h) < generations[i]
    BY <1>1, <2>1, <2>2, Zenon DEF HandleInv, FreshList, PopFreeList
  <2> QED
    BY <2>2, <2>3, <2>4, <2>5
<1>2. CASE PushSlot(v, owner)
  <2>1. len \in Index /\ 0 \in 0 .. MaxGeneration
    <3>1. len \in 0 .. Capacity /\ len < Capacity BY <1>2, Zenon DEF TypeOK, PushSlot
    <3> QED BY <3>1, HeapAssumption DEF Index
  <2>2. i = len /\ generations'[i] = 0
    BY <1>2, <2>1, Zenon DEF PushSlot, Fill, TypeOK
  <2>3. slot_index(ObjectId(len, 0)) = len
    BY <2>1, PackUnpack, Zenon
  <2>4. \A h \in issued : slot_index(h) < len
    BY Zenon DEF HandleInv
  <2>5. ~(len < len)
    BY DEF TypeOK
  <2> QED
    BY <2>2, <2>3, <2>4, <2>5, Zenon
<1> QED
  BY <1>1, <1>2, Zenon

\* Every step that is not an allocation leaves free slots free.
LEMMA FreeStaysFree ==
    ASSUME TypeOK, NEW i \in Index, slots[i].kind = "Free",
           \/ UNCHANGED slots
           \/ \E id \in held : free(id)
           \/ \E id \in held, k \in 1 .. Width, v \in held \cup {None} : Store(id, k, v)
           \/ SweepSlot
    PROVE  slots'[i].kind = "Free"
<1>1. ASSUME NEW j, Vacate(j)
      PROVE  slots'[i].kind = "Free"
  <2>1. Free.kind = "Free" /\ slots' = [slots EXCEPT ![j] = Free]
    BY <1>1, Zenon DEF Free, Vacate
  <2> QED
    BY <2>1, Zenon DEF TypeOK
<1>2. ASSUME NEW id \in held, NEW k \in 1 .. Width, NEW v \in held \cup {None}, Store(id, k, v)
      PROVE  slots'[i].kind = "Free"
  <2> DEFINE new == Object([get(id).refs EXCEPT ![k] = v])
  <2>1. slot_index(id) # i
    BY <1>2, Zenon DEF Store, get, Resolves
  <2>2. slots' = [slots EXCEPT ![slot_index(id)] = new]
    BY <1>2, Zenon DEF Store
  <2> HIDE DEF new
  <2> QED
    BY <2>1, <2>2, Zenon DEF TypeOK
<1>3. ASSUME SweepSlot
      PROVE  slots'[i].kind = "Free"
  BY <1>1, <1>3, Zenon DEF SweepSlot
<1> QED
  BY <1>1, <1>2, <1>3, Zenon DEF free

\* A handle that was ever given out never becomes the handle of a newly
\* populated slot, except for the reserved slot of a full heap: stale handles
\* stay stale through any number of reuses.
THEOREM HandlesNeverReused == Spec => NoHandleReuse
<1> DEFINE Full(i) == i = oom_sentinel /\ len = Capacity /\ ~(ReuseSlots /\ free_list # <<>>)
           Fresh == \A i \in Index :
               slots[i].kind = "Free" /\ slots'[i].kind # "Free" /\ ObjectId(i, generations'[i]) \in issued
                   => Full(i)
<1>1. TypeOK /\ HandleInv /\ [Next]_vars => [Fresh]_vars
  <2> SUFFICES ASSUME TypeOK, HandleInv, Next,
                      NEW i \in Index, slots[i].kind = "Free", slots'[i].kind # "Free",
                      ObjectId(i, generations'[i]) \in issued
               PROVE  Full(i)
    BY Zenon
  <2> USE DEF heapVars, clientVars
  <2>1. ASSUME NEW owner \in Owners, NEW refs \in [1 .. Width -> held \cup {None}],
               alloc_with_owner(refs, owner)
        PROVE  Full(i)
    <3>0. Object(refs) \in Slot
      BY HeapAssumption DEF Object, Slot, Refs, TypeOK
    <3>1. PICK v \in Slot : v = Object(refs)
      BY <3>0, Zenon
    <3>2. OverwriteSentinel(v, owner)
      BY <2>1, <3>1, AllocFresh, Zenon DEF alloc_with_owner
    <3> QED
      BY <3>2, Zenon DEF OverwriteSentinel, Fill, TypeOK
  <2>2. ASSUME NEW owner \in Owners, alloc_external_with_owner(owner)
        PROVE  Full(i)
    <3>1. External(externals + 1) \in Slot
      BY <2>2, HeapAssumption DEF External, Slot, Refs, NoRefs, TypeOK, alloc_external_with_owner
    <3> QED
      BY <2>2, <3>1, AllocFresh, Zenon DEF alloc_external_with_owner
  <2>3. CASE ClientStep
    <3>1. ~UNCHANGED slots
      BY Zenon
    <3> QED
      BY <2>1, <2>2, <2>3, <3>1, FreeStaysFree, Zenon
         DEF ClientStep, reserve_oom_sentinel, take_oom, set_owner,
             take_freed_external_handles, Load, Forget
  <2>4. CASE CollectorStep
    <3>1. ~UNCHANGED slots
      OBVIOUS
    <3> QED
      BY <2>4, <3>1, FreeStaysFree, Zenon
         DEF CollectorStep, collect_with_ephemerons, collect_realm_with_ephemerons,
             try_collect_realm_with_ephemerons, BeginCollection, sweep_realm, MarkSlot,
             MarkEphemeron, EndMark, EndSweep
  <2> QED
    BY <2>3, <2>4, Zenon DEF Next
<1> QED
  BY <1>1, HandlesInductive, PTL DEF Spec, NoHandleReuse

---------------------------------------------------------------------------
(***************************************************************************)
(* A collection, full or of one realm, frees exactly what is not           *)
(* reachable, for every heap.  Reachable is the least closed set that      *)
(* holds the roots, so the argument needs no induction over paths: the     *)
(* colored slots stay inside every closed set, and when marking ends they  *)
(* are a closed set themselves.  Then: the sweep loses and duplicates no   *)
(* handle of an external object.                                           *)
(***************************************************************************)

\* Following a handle the way the collector does is the same as being led to
\* the slot whose current handle it is.
LEMMA ResolvesLeads ==
    ASSUME TypeOK, HandleInv, NEW r \in Handle \cup {None}, NEW j \in Index, NEW scope
    PROVE  LeadsTo(r, j, scope) <=> Resolves(r) /\ j = slot_index(r) /\ InScope(j, scope)
<1>1. ASSUME LeadsTo(r, j, scope)
      PROVE  Resolves(r) /\ j = slot_index(r) /\ InScope(j, scope)
  <2>1. r \in Handle /\ slot_index(r) = j /\ generation(r) = generations[j]
    BY <1>1, PackUnpack, Zenon DEF LeadsTo, TypeOK
  <2>2. j < len
    BY <1>1 DEF LeadsTo, HandleInv, TypeOK, Index
  <2>3. r # None
    BY <2>1, HeapAssumption DEF Handle, None
  <2> QED
    BY <1>1, <2>1, <2>2, <2>3, Zenon DEF LeadsTo, Resolves, is_free, generation_matches
<1>2. ASSUME Resolves(r), j = slot_index(r), InScope(j, scope)
      PROVE  LeadsTo(r, j, scope)
  <2>1. r \in Handle
    BY <1>2, Zenon DEF Resolves
  <2>2. r = ObjectId(slot_index(r), generation(r))
    BY <2>1, UnpackPack, Zenon
  <2> QED
    BY <1>2, <2>2, Zenon DEF LeadsTo, Resolves, is_free, generation_matches
<1> QED
  BY <1>1, <1>2, Zenon

\* A field holds a handle or nothing.
LEMMA FieldType ==
    ASSUME TypeOK, NEW i \in Index, NEW k \in 1 .. Width
    PROVE  slots[i].refs[k] \in Handle \cup {None}
<1>1. slots[i] \in Slot
  BY Zenon DEF TypeOK
<1>2. slots[i].refs \in Refs
  BY <1>1, Zenon DEF Slot
<1> QED
  BY <1>2, Zenon DEF Refs

\* Reachable holds the roots and is closed.
LEMMA ReachableIsClosed ==
    ASSUME NEW roots, NEW scope, NEW eph
    PROVE  /\ HoldsRoots(Reachable(roots, scope, eph), roots, scope)
           /\ Closed(Reachable(roots, scope, eph), scope, eph)
<1> DEFINE R == Reachable(roots, scope, eph)
<1>1. ASSUME NEW r \in roots, NEW j \in Index, LeadsTo(r, j, scope)
      PROVE  j \in R
  BY <1>1, Zenon DEF Reachable, HoldsRoots
<1>2. ASSUME NEW i \in R, NEW j \in Index, NEW k \in 1 .. Width,
             LeadsTo(slots[i].refs[k], j, scope)
      PROVE  j \in R
  BY <1>2, Zenon DEF Reachable, Closed
<1>3. ASSUME NEW p \in eph, NEW i \in R, NEW j \in Index,
             LeadsTo(p[1], i, scope), LeadsTo(p[2], j, scope)
      PROVE  j \in R
  BY <1>3, Zenon DEF Reachable, Closed
<1> HIDE DEF R
<1>4. HoldsRoots(R, roots, scope)
  BY <1>1, Zenon DEF HoldsRoots
<1>5. Closed(R, scope, eph)
  BY <1>2, <1>3, Zenon DEF Closed
<1> QED
  BY <1>4, <1>5, Zenon DEF R

\* Reachable is the least such set.
LEMMA ReachableIsLeast ==
    ASSUME NEW roots, NEW scope, NEW eph, NEW S \in SUBSET Index,
           HoldsRoots(S, roots, scope), Closed(S, scope, eph)
    PROVE  Reachable(roots, scope, eph) \subseteq S
  BY Zenon DEF Reachable

\* Only occupied slots of the scope are reachable.
LEMMA ReachableOccupied ==
    ASSUME NEW roots, NEW scope, NEW eph, NEW i \in Reachable(roots, scope, eph)
    PROVE  i \in Index /\ slots[i].kind # "Free" /\ InScope(i, scope)
<1> DEFINE S == {j \in Index : slots[j].kind # "Free" /\ InScope(j, scope)}
<1>1. HoldsRoots(S, roots, scope) /\ Closed(S, scope, eph)
  BY Zenon DEF HoldsRoots, Closed, LeadsTo
<1> QED
  BY <1>1, ReachableIsLeast, Zenon

\* Slots that are not objects have no fields.
PlainSlots == \A i \in Index : slots[i].kind # "Object" => slots[i].refs = NoRefs

\* When no object of another realm refers into a realm, and ephemerons do not
\* cross realms, what is reachable in the realm is reachable within the realm.
LEMMA RealmReachable ==
    ASSUME TypeOK, HandleInv, PlainSlots, NEW owner \in Owners,
           NEW eph \in SUBSET (Handle \X Handle),
           cross_owner_edges_into(owner) = {}, \A p \in eph : OwnerLocal(p)
    PROVE  {i \in Reachable(held, AllOwners, eph) : owners[i] = owner}
                \subseteq Reachable(held, owner, eph)
<1> DEFINE R == Reachable(held, owner, eph)
           S == R \cup {i \in Index : owners[i] # owner}
<1>1. HoldsRoots(R, held, owner) /\ Closed(R, owner, eph) /\ R \subseteq Index
  BY ReachableIsClosed, ReachableType, Zenon
<1> HIDE DEF R
<1>2. ASSUME NEW id, NEW j \in Index, LeadsTo(id, j, AllOwners), owners[j] = owner
      PROVE  LeadsTo(id, j, owner)
  BY <1>2, Zenon DEF LeadsTo, InScope
<1>3. HoldsRoots(S, held, AllOwners)
  BY <1>1, <1>2, Zenon DEF HoldsRoots
<1>4. ASSUME NEW i \in S, NEW j \in Index, NEW k \in 1 .. Width,
             LeadsTo(slots[i].refs[k], j, AllOwners)
      PROVE  j \in S
  <2> SUFFICES ASSUME owners[j] = owner PROVE j \in R
    BY Zenon
  <2>1. LeadsTo(slots[i].refs[k], j, owner)
    BY <1>2, <1>4, Zenon
  <2>2. CASE i \in R
    BY <1>1, <2>1, <2>2, Zenon DEF Closed
  <2>3. CASE i \notin R
    <3>1. i \in Index /\ owners[i] # owner
      BY <2>3, Zenon
    <3>2. slots[i].refs[k] \in Handle \cup {None}
      BY <3>1, FieldType, Zenon
    <3>3. Resolves(slots[i].refs[k]) /\ j = slot_index(slots[i].refs[k]) /\ InScope(j, owner)
      BY <2>1, <3>2, ResolvesLeads, Zenon
    <3>4. slots[i].kind = "Object"
      BY <3>1, <3>3, Zenon DEF PlainSlots, NoRefs, Resolves
    <3>5. j \in Targets(i, owner)
      BY <3>3, Zenon DEF Targets
    <3> QED
      BY <3>1, <3>4, <3>5, Zenon DEF cross_owner_edges_into
  <2> QED
    BY <2>2, <2>3, Zenon
<1>5. ASSUME NEW p \in eph, NEW i \in S, NEW j \in Index,
             LeadsTo(p[1], i, AllOwners), LeadsTo(p[2], j, AllOwners)
      PROVE  j \in S
  <2> SUFFICES ASSUME owners[j] = owner PROVE j \in R
    BY Zenon
  <2>1. p[1] \in Handle /\ p[2] \in Handle /\ i \in Index
    BY <1>1, Zenon
  <2>2. Resolves(p[1]) /\ i = slot_index(p[1]) /\ Resolves(p[2]) /\ j = slot_index(p[2])
    BY <1>5, <2>1, ResolvesLeads, Zenon
  <2>3. owners[i] = owner /\ i \in R
    BY <2>2, Zenon DEF OwnerLocal
  <2> QED
    BY <1>1, <1>2, <1>5, <2>1, <2>3, Zenon DEF Closed
<1>6. S \in SUBSET Index
  BY <1>1, Zenon
<1>7. Closed(S, AllOwners, eph)
  <2> HIDE DEF S
  <2> QED
    BY <1>4, <1>5, Zenon DEF Closed
<1>8. Reachable(held, AllOwners, eph) \subseteq S
  BY <1>3, <1>6, <1>7, ReachableIsLeast, Zenon
<1> QED
  BY <1>8, Zenon DEF R

\* Starting a collection establishes the invariant: the gray slots are the roots.
LEMMA BeginCollects ==
    ASSUME TypeOK, HandleInv, NEW scope \in Owners \cup {AllOwners}, NEW eph, NEW must,
           must \subseteq Reachable(held, scope, eph),
           BeginCollection(scope, eph, must)
    PROVE  CollectInv'
<1> DEFINE R == Reachable(held, scope, eph)
<1>1. /\ gc'.phase = "mark" /\ gc'.scope = scope /\ ~gc'.teardown /\ gc'.next = 0
      /\ gc'.eph = eph /\ gc'.must = must /\ gc'.may = R
  BY Zenon DEF BeginCollection, Collection
<1>2. UNCHANGED <<slots, owners, generations, held>>
  BY Zenon DEF BeginCollection, clientVars
<1>3. gc'.may = Reachable(held, gc.scope, gc.eph)'
  BY <1>1, <1>2 DEF Reachable, HoldsRoots, Closed, LeadsTo, InScope
<1>4. \A j \in Index : colors'[j] # "White" <=> j \in RootSlots(held, scope)
  BY Zenon DEF BeginCollection
<1>5. \A j \in Index : j \in RootSlots(held, scope) <=> \E r \in held : LeadsTo(r, j, scope)
  BY ResolvesLeads, Zenon DEF RootSlots, TypeOK
<1>6. \A j \in Index : colors'[j] # "White" => j \in R
  BY <1>4, <1>5, ReachableIsClosed, Zenon DEF HoldsRoots
<1>7. HoldsRoots({i \in Index : colors[i] # "White"}, held, gc.scope)'
  BY <1>1, <1>2, <1>4, <1>5, Zenon DEF HoldsRoots, LeadsTo, InScope
<1>8. \A i \in Index : colors'[i] # "Black"
  BY Zenon DEF BeginCollection
<1> QED
  BY <1>1, <1>3, <1>6, <1>7, <1>8, Zenon DEF CollectInv

\* A mark step that colors only slots reached from colored ones, and blackens
\* only slots whose fields lead to colored ones.
LEMMA MarkCollects ==
    ASSUME TypeOK, CollectInv, gc.phase = "mark",
           UNCHANGED <<slots, owners, generations, gc, held>>,
           \A j \in Index : colors[j] # "White" => colors'[j] # "White",
           \A j \in Index : colors'[j] # "White" => j \in gc.may,
           \A i, j \in Index, k \in 1 .. Width :
                colors'[i] = "Black" /\ LeadsTo(slots[i].refs[k], j, gc.scope)
                    => colors'[j] # "White"
    PROVE  CollectInv'
<1>1. gc'.may = Reachable(held, gc.scope, gc.eph)'
  BY DEF CollectInv, Reachable, HoldsRoots, Closed, LeadsTo, InScope
<1>2. HoldsRoots({i \in Index : colors[i] # "White"}, held, gc.scope)'
  BY Zenon DEF CollectInv, HoldsRoots, LeadsTo, InScope
<1>3. \A i, j \in Index, k \in 1 .. Width :
            colors'[i] = "Black" /\ LeadsTo(slots[i].refs[k], j, gc.scope)'
                => colors'[j] # "White"
  BY Zenon DEF LeadsTo, InScope
<1> QED
  BY <1>1, <1>2, <1>3, Zenon DEF CollectInv

\* Tracing a gray slot grays what its fields lead to.
LEMMA MarkSlotCollects ==
    ASSUME TypeOK, HandleInv, CollectInv, NEW i \in Index, MarkSlot(i)
    PROVE  CollectInv'
<1>1. gc.phase = "mark" /\ UNCHANGED <<slots, owners, generations, gc, held>>
  BY Zenon DEF MarkSlot, clientVars
<1>2. /\ Closed(gc.may, gc.scope, gc.eph) /\ gc.may \subseteq Index
      /\ \A j \in Index : colors[j] # "White" => j \in gc.may
  BY <1>1, ReachableIsClosed, ReachableType DEF CollectInv
<1>3. \A j \in Index : j \in Targets(i, gc.scope)
                            <=> \E k \in 1 .. Width : LeadsTo(slots[i].refs[k], j, gc.scope)
  BY ResolvesLeads, FieldType, Zenon DEF Targets
<1>4. i \in gc.may
  BY <1>2, Zenon DEF MarkSlot
<1>5. \A j \in Index : j \in Targets(i, gc.scope) => j \in gc.may
  BY <1>2, <1>3, <1>4, Zenon DEF Closed
<1>6. \A j \in Index : colors[j] # "White" => colors'[j] # "White"
  BY Zenon DEF MarkSlot
<1>7. \A j \in Index : colors'[j] # "White" => j \in gc.may
  BY <1>2, <1>4, <1>5, Zenon DEF MarkSlot
<1>8. ASSUME NEW h \in Index, NEW j \in Index, NEW k \in 1 .. Width,
             colors'[h] = "Black", LeadsTo(slots[h].refs[k], j, gc.scope)
      PROVE  colors'[j] # "White"
  <2>1. CASE h = i
    <3>1. j \in Targets(i, gc.scope)
      BY <1>3, <1>8, <2>1, Zenon
    <3> QED
      BY <3>1, Zenon DEF MarkSlot
  <2>2. CASE h # i
    <3>1. colors[h] = "Black"
      BY <1>8, <2>2, Zenon DEF MarkSlot
    <3> QED
      BY <1>1, <1>6, <1>8, <3>1, Zenon DEF CollectInv
  <2> QED
    BY <2>1, <2>2, Zenon
<1> QED
  BY <1>1, <1>6, <1>7, <1>8, MarkCollects, Zenon

\* An ephemeron with a colored key grays its value.
LEMMA MarkEphemeronCollects ==
    ASSUME TypeOK, HandleInv, CollectInv, NEW p \in gc.eph, MarkEphemeron(p)
    PROVE  CollectInv'
<1> DEFINE key == slot_index(p[1])
           val == slot_index(p[2])
<1>1. gc.phase = "mark" /\ UNCHANGED <<slots, owners, generations, gc, held>>
  BY Zenon DEF MarkEphemeron, clientVars
<1>2. /\ Closed(gc.may, gc.scope, gc.eph)
      /\ \A j \in Index : colors[j] # "White" => j \in gc.may
  BY <1>1, ReachableIsClosed, Zenon DEF CollectInv
<1>3. p[1] \in Handle /\ p[2] \in Handle
  BY Zenon DEF TypeOK, Collections
<1>4. key \in Index /\ val \in Index
  BY <1>3, UnpackPack, Zenon
<1>5. LeadsTo(p[1], key, gc.scope) /\ LeadsTo(p[2], val, gc.scope)
  BY <1>3, <1>4, ResolvesLeads, Zenon DEF MarkEphemeron, EphemeronFires, EphemeronApplies
<1>6. key \in gc.may
  BY <1>2, <1>4, Zenon DEF MarkEphemeron, EphemeronFires
<1>7. val \in gc.may
  BY <1>2, <1>4, <1>5, <1>6, Zenon DEF Closed
<1>8. colors' = [colors EXCEPT ![val] = "Gray"]
  BY Zenon DEF MarkEphemeron
<1>9. \A j \in Index : colors[j] # "White" => colors'[j] # "White"
  BY <1>4, <1>8, Zenon DEF TypeOK
<1>10. \A j \in Index : colors'[j] # "White" => j \in gc.may
  BY <1>2, <1>4, <1>7, <1>8, Zenon DEF TypeOK
<1>11. \A j \in Index : colors'[j] = "Black" => colors[j] = "Black"
  BY <1>4, <1>8, Zenon DEF TypeOK
<1>12. \A i, j \in Index, k \in 1 .. Width :
            colors'[i] = "Black" /\ LeadsTo(slots[i].refs[k], j, gc.scope)
                => colors'[j] # "White"
  BY <1>1, <1>9, <1>11, Zenon DEF CollectInv
<1> QED
  BY <1>1, <1>9, <1>10, <1>12, MarkCollects, Zenon

\* When marking ends the colored slots are exactly the reachable ones: they are
\* inside Reachable and form a closed set that holds the roots.
LEMMA EndMarkCollects ==
    ASSUME TypeOK, HandleInv, CollectInv, EndMark
    PROVE  CollectInv'
<1> DEFINE B == {i \in Index : colors[i] # "White"}
<1>1. gc.phase = "mark" /\ gc \in Collections /\ gc' = [gc EXCEPT !.phase = "sweep"]
  BY Zenon DEF EndMark, TypeOK
<1>2. /\ gc'.phase = "sweep" /\ gc'.scope = gc.scope /\ gc'.teardown = gc.teardown
      /\ gc'.next = gc.next /\ gc'.must = gc.must /\ gc'.may = gc.may
  BY <1>1, Zenon DEF Collections
<1>3. UNCHANGED <<slots, colors, owners>>
  BY Zenon DEF EndMark, heapVars
<1>4. /\ gc.may = Reachable(held, gc.scope, gc.eph) /\ B \subseteq gc.may
      /\ ~gc.teardown /\ gc.next = 0 /\ gc.must \subseteq gc.may
      /\ HoldsRoots(B, held, gc.scope)
  BY <1>1, Zenon DEF CollectInv
<1>5. \A i \in B : colors[i] = "Black"
  BY Zenon DEF EndMark, TypeOK
<1>6. ASSUME NEW i \in B, NEW j \in Index, NEW k \in 1 .. Width,
             LeadsTo(slots[i].refs[k], j, gc.scope)
      PROVE  j \in B
  BY <1>1, <1>5, <1>6, Zenon DEF CollectInv
<1>7. ASSUME NEW p \in gc.eph, NEW i \in B, NEW j \in Index,
             LeadsTo(p[1], i, gc.scope), LeadsTo(p[2], j, gc.scope)
      PROVE  j \in B
  <2>1. p[1] \in Handle /\ p[2] \in Handle
    BY <1>1, Zenon DEF Collections
  <2>2. /\ Resolves(p[1]) /\ i = slot_index(p[1]) /\ InScope(i, gc.scope)
        /\ Resolves(p[2]) /\ j = slot_index(p[2]) /\ InScope(j, gc.scope)
    BY <1>7, <2>1, ResolvesLeads, Zenon
  <2>3. ~EphemeronFires(p)
    BY Zenon DEF EndMark
  <2> QED
    BY <2>2, <2>3, Zenon DEF EphemeronFires, EphemeronApplies
<1>8. Closed(B, gc.scope, gc.eph)
  <2> HIDE DEF B
  <2> QED
    BY <1>6, <1>7, Zenon DEF Closed
<1>9. gc.may = B
  BY <1>4, <1>8, ReachableIsLeast
<1>10. \A i \in gc.may : slots[i].kind # "Free"
  BY <1>4, ReachableOccupied, Zenon
<1>11. \A i \in Index : ~(i < 0)
  BY DEF Index
<1> QED
  BY <1>2, <1>3, <1>4, <1>9, <1>10, <1>11, Zenon DEF CollectInv

\* The sweep frees an unreachable slot or passes a reachable one.
LEMMA SweepSlotCollects ==
    ASSUME TypeOK, CollectInv, SweepSlot
    PROVE  CollectInv'
<1> DEFINE n == gc.next
<1>1. n \in Index /\ n \in Nat /\ \A j \in Index : j \in Nat
  BY HeapAssumption DEF TypeOK, Collections, SweepSlot, Index
<1>2. gc.phase = "sweep" /\ gc \in Collections /\ gc' = [gc EXCEPT !.next = n + 1]
  BY Zenon DEF TypeOK, SweepSlot
<1>3. /\ gc'.phase = "sweep" /\ gc'.scope = gc.scope /\ gc'.teardown = gc.teardown
      /\ gc'.next = n + 1 /\ gc'.must = gc.must /\ gc'.may = gc.may /\ gc.may \subseteq Index
  BY <1>2, Zenon DEF Collections
<1>4. \A j \in Index : j # n => /\ slots'[j] = slots[j] /\ owners'[j] = owners[j]
                                /\ colors'[j] = colors[j]
  BY <1>1, Zenon DEF SweepSlot, Vacate, TypeOK
<1>5. CASE gc.teardown
  BY <1>2, <1>3, <1>5, Zenon DEF CollectInv
<1>6. CASE ~gc.teardown
  <2>1. ASSUME Doomed(n)
        PROVE  n \notin gc.may /\ slots'[n].kind = "Free"
    <3>1. n \notin gc.may
      BY <1>1, <1>2, <1>6, <2>1 DEF CollectInv, Doomed
    <3>2. Free.kind = "Free" /\ slots' = [slots EXCEPT ![n] = Free]
      BY <2>1, Zenon DEF Free, SweepSlot, Vacate
    <3> QED
      BY <1>1, <3>1, <3>2, Zenon DEF TypeOK
  <2>2. ASSUME ~Doomed(n)
        PROVE  /\ slots'[n] = slots[n] /\ owners'[n] = owners[n]
               /\ slots[n].kind # "Free" /\ InScope(n, gc.scope) => n \in gc.may
    <3>1. slots'[n] = slots[n] /\ owners'[n] = owners[n]
      BY <2>2, Zenon DEF SweepSlot
    <3> QED
      BY <1>1, <1>2, <1>6, <2>2, <3>1 DEF CollectInv, Doomed
  <2>3. \A i \in gc'.may : slots'[i].kind # "Free"
    BY <1>2, <1>3, <1>4, <1>6, <2>1, <2>2 DEF CollectInv
  <2>4. \A j \in Index : j # n => (InScope(j, gc.scope)' <=> InScope(j, gc.scope))
    BY <1>3, <1>4, Zenon DEF InScope
  <2>5. \A i \in Index : gc'.next <= i /\ slots'[i].kind # "Free" /\ InScope(i, gc.scope)'
            => (i \in gc'.may <=> colors'[i] # "White")
    BY <1>1, <1>2, <1>3, <1>4, <1>6, <2>4 DEF CollectInv
  <2>6. ASSUME NEW i \in Index, i < gc'.next, slots'[i].kind # "Free", InScope(i, gc.scope)'
        PROVE  i \in gc'.may
    <3>1. CASE i < n
      BY <1>1, <1>2, <1>3, <1>4, <1>6, <2>4, <2>6, <3>1 DEF CollectInv
    <3>2. CASE i = n
      BY <1>3, <2>1, <2>2, <2>6, <3>2, Zenon DEF InScope
    <3> QED
      BY <1>1, <1>3, <2>6, <3>1, <3>2
  <2>7. gc'.must \subseteq gc'.may
    BY <1>2, <1>3, Zenon DEF CollectInv
  <2> QED
    BY <1>3, <1>6, <2>3, <2>5, <2>6, <2>7, Zenon DEF CollectInv
<1> QED
  BY <1>5, <1>6, Zenon

\* Every step preserves the collection invariant.
LEMMA CollectStep ==
    TypeOK /\ HandleInv /\ PlainSlots /\ CollectInv /\ [Next]_vars => CollectInv'
<1> SUFFICES ASSUME TypeOK, HandleInv, PlainSlots, CollectInv, [Next]_vars PROVE CollectInv'
  BY Zenon
<1>1. CASE UNCHANGED vars
  <2>1. UNCHANGED <<slots, colors, owners, generations, gc, held>>
    BY <1>1, Zenon DEF vars, heapVars, clientVars
  <2> QED
    BY <2>1 DEF CollectInv, Reachable, HoldsRoots, Closed, LeadsTo, InScope
<1>2. CASE ClientStep
  <2>1. gc.phase = "idle" /\ gc' = gc
    BY <1>2, Zenon DEF ClientStep, ClientTurn, alloc_with_owner, alloc_external_with_owner,
       reserve_oom_sentinel, take_oom, set_owner, free, take_freed_external_handles,
       Store, Load, Forget
  <2> QED
    BY <2>1, Zenon DEF CollectInv
<1>3. ASSUME NEW eph \in Ephemerons, collect_with_ephemerons(eph)
      PROVE  CollectInv'
  BY <1>3, BeginCollects, Zenon DEF collect_with_ephemerons
<1>4. ASSUME NEW owner \in Owners, NEW eph \in Ephemerons, collect_realm_with_ephemerons(owner, eph)
      PROVE  CollectInv'
  BY <1>4, BeginCollects, Zenon DEF collect_realm_with_ephemerons
<1>5. ASSUME NEW owner \in Owners, NEW eph \in Ephemerons, try_collect_realm_with_ephemerons(owner, eph)
      PROVE  CollectInv'
  <2>1. eph \in SUBSET (Handle \X Handle)
    BY EphemeronsType, Zenon
  <2>2. {i \in Reachable(held, AllOwners, eph) : owners[i] = owner} \subseteq Reachable(held, owner, eph)
    BY <1>5, <2>1, RealmReachable, Zenon DEF try_collect_realm_with_ephemerons
  <2> QED
    BY <1>5, <2>2, BeginCollects, Zenon DEF try_collect_realm_with_ephemerons
<1>6. ASSUME NEW owner \in Owners, sweep_realm(owner)
      PROVE  CollectInv'
  <2>1. gc'.phase = "sweep" /\ gc'.teardown /\ gc'.must = {} /\ gc'.may = {}
    BY <1>6, Zenon DEF sweep_realm, Collection
  <2> QED
    BY <2>1, Zenon DEF CollectInv
<1>7. ASSUME EndSweep
      PROVE  CollectInv'
  <2>1. gc'.phase = "idle"
    BY <1>7, Zenon DEF EndSweep, Idle, Collection
  <2> QED
    BY <2>1, Zenon DEF CollectInv
<1> QED
  BY <1>1, <1>2, <1>3, <1>4, <1>5, <1>6, <1>7, MarkSlotCollects, MarkEphemeronCollects,
     EndMarkCollects, SweepSlotCollects, Zenon DEF Next, CollectorStep

\* A slot is only ever filled with an object, an external handle or nothing, and
\* of these only an object has fields.
LEMMA PlainStep == TypeOK /\ PlainSlots /\ [Next]_vars => PlainSlots'
<1> SUFFICES ASSUME TypeOK, PlainSlots, [Next]_vars PROVE PlainSlots'
  BY Zenon
<1> USE DEF heapVars, clientVars
<1>1. ASSUME NEW i, NEW v, v.kind # "Object" => v.refs = NoRefs, slots' = [slots EXCEPT ![i] = v]
      PROVE  PlainSlots'
  BY <1>1, Zenon DEF PlainSlots, TypeOK
<1>2. ASSUME NEW v, NEW owner, v.kind # "Object" => v.refs = NoRefs,
             PopFreeList(v, owner) \/ PushSlot(v, owner) \/ OverwriteSentinel(v, owner)
      PROVE  PlainSlots'
  BY <1>1, <1>2, Zenon DEF PopFreeList, PushSlot, OverwriteSentinel, Fill
<1>3. ASSUME NEW i, Vacate(i)
      PROVE  PlainSlots'
  <2>1. Free.refs = NoRefs /\ slots' = [slots EXCEPT ![i] = Free]
    BY <1>3, Zenon DEF Vacate, Free
  <2> QED
    BY <1>1, <2>1, Zenon
<1>4. ASSUME NEW refs, NEW owner, alloc_with_owner(refs, owner)
      PROVE  PlainSlots'
  <2>1. Object(refs).kind = "Object"
    BY Zenon DEF Object
  <2> QED
    BY <1>2, <1>4, <2>1, Zenon DEF alloc_with_owner
<1>5. ASSUME NEW owner, alloc_external_with_owner(owner)
      PROVE  PlainSlots'
  <2>1. External(externals + 1).refs = NoRefs
    BY Zenon DEF External
  <2> QED
    BY <1>2, <1>5, <2>1, Zenon DEF alloc_external_with_owner
<1>6. ASSUME NEW id, NEW k, NEW v, Store(id, k, v)
      PROVE  PlainSlots'
  <2> DEFINE new == Object([get(id).refs EXCEPT ![k] = v])
  <2>1. new.kind = "Object"
    BY Zenon DEF Object
  <2>2. slots' = [slots EXCEPT ![slot_index(id)] = new]
    BY <1>6, Zenon DEF Store
  <2> HIDE DEF new
  <2> QED
    BY <1>1, <2>1, <2>2, Zenon
<1>7. ASSUME UNCHANGED slots
      PROVE  PlainSlots'
  BY <1>7, Zenon DEF PlainSlots
<1>8. CASE ClientStep
  BY <1>3, <1>4, <1>5, <1>6, <1>7, <1>8, Zenon
     DEF ClientStep, reserve_oom_sentinel, take_oom, set_owner, free,
         take_freed_external_handles, Load, Forget
<1>9. ASSUME SweepSlot
      PROVE  PlainSlots'
  BY <1>3, <1>7, <1>9, Zenon DEF SweepSlot
<1>10. CASE CollectorStep
  BY <1>7, <1>9, <1>10, Zenon
     DEF CollectorStep, collect_with_ephemerons, collect_realm_with_ephemerons,
         try_collect_realm_with_ephemerons, BeginCollection, sweep_realm, MarkSlot,
         MarkEphemeron, EndMark, EndSweep
<1> QED
  BY <1>7, <1>8, <1>10, Zenon DEF Next, vars

\* The tri-color invariant and its sweep counterpart hold throughout.
THEOREM CollectInductive == Spec => [](TypeOK /\ HandleInv /\ CollectInv)
<1>1. Init => PlainSlots /\ CollectInv
  <2> SUFFICES ASSUME Init PROVE PlainSlots /\ CollectInv
    BY Zenon
  <2>1. Free.refs = NoRefs
    BY Zenon DEF Free
  <2>2. gc.phase = "idle"
    BY Zenon DEF Init, Idle, Collection
  <2>3. PlainSlots
    BY <2>1, Zenon DEF Init, PlainSlots
  <2>4. CollectInv
    BY <2>2, Zenon DEF CollectInv
  <2> QED
    BY <2>3, <2>4, Zenon
<1> QED
  BY <1>1, PlainStep, CollectStep, HandlesInductive, PTL DEF Spec

\* No collection frees a slot the program can still reach; a checked realm
\* collection not even one reachable only through other realms.
THEOREM CollectionIsSafe == Spec => []CollectionKeepsReachable
<1>1. TypeOK /\ CollectInv => CollectionKeepsReachable
  <2> SUFFICES ASSUME TypeOK, CollectInv, gc.phase # "idle", NEW i \in gc.must
               PROVE  slots[i].kind # "Free"
    BY Zenon DEF CollectionKeepsReachable
  <2>1. gc.phase \in {"mark", "sweep"} /\ gc.teardown \in BOOLEAN
    BY Zenon DEF TypeOK, Collections
  <2>2. i \in gc.may
    BY Zenon DEF CollectInv
  <2>3. CASE gc.phase = "mark"
    BY <2>2, <2>3, ReachableOccupied, Zenon DEF CollectInv
  <2>4. CASE gc.phase = "sweep"
    BY <2>1, <2>2, <2>4, Zenon DEF CollectInv
  <2> QED
    BY <2>1, <2>3, <2>4, Zenon
<1> QED
  BY <1>1, CollectInductive, PTL

\* When a collection has swept every slot, nothing unreachable is left in its scope.
THEOREM CollectionFreesGarbage == Spec => []CollectionIsExact
<1>1. TypeOK /\ HandleInv /\ CollectInv => CollectionIsExact
  <2> SUFFICES ASSUME TypeOK, HandleInv, CollectInv,
                      gc.phase = "sweep", ~gc.teardown, gc.next >= len,
                      NEW i \in Index, slots[i].kind # "Free", InScope(i, gc.scope)
               PROVE  i \in gc.may
    BY Zenon DEF CollectionIsExact
  <2>1. i \in Int /\ len \in Int /\ gc.next \in Int
    BY HeapAssumption DEF TypeOK, Collections, Index
  <2>2. i < gc.next
    BY <2>1 DEF HandleInv
  <2> QED
    BY <2>2, Zenon DEF CollectInv
<1> QED
  BY <1>1, CollectInductive, PTL

\* Collecting or tearing down one realm changes no slot of another.
THEOREM OtherRealmsUntouched == Spec => ForeignSlotsUntouched
<1> DEFINE Kept == gc.phase # "idle" =>
        \A i \in Index : ~InScope(i, gc.scope) =>
            /\ slots'[i] = slots[i] /\ owners'[i] = owners[i]
            /\ generations'[i] = generations[i]
<1>1. TypeOK /\ [Next]_vars => [Kept]_vars
  <2> SUFFICES ASSUME TypeOK, Next, gc.phase # "idle", NEW i \in Index, ~InScope(i, gc.scope)
               PROVE  /\ slots'[i] = slots[i] /\ owners'[i] = owners[i]
                      /\ generations'[i] = generations[i]
    BY Zenon
  <2> USE DEF heapVars, clientVars
  <2>1. ~ClientStep
    BY Zenon DEF ClientStep, ClientTurn, alloc_with_owner, alloc_external_with_owner,
       reserve_oom_sentinel, take_oom, set_owner, free, take_freed_external_handles,
       Store, Load, Forget
  <2>2. CASE SweepSlot
    <3>1. CASE Doomed(gc.next)
      <4>1. gc.next # i
        BY <3>1, Zenon DEF Doomed
      <4>2. Vacate(gc.next)
        BY <2>2, <3>1, Zenon DEF SweepSlot
      <4> QED
        BY <4>1, <4>2, Zenon DEF Vacate, retire_slot_index, TypeOK
    <3>2. CASE ~Doomed(gc.next)
      BY <2>2, <3>2, Zenon DEF SweepSlot
    <3> QED
      BY <3>1, <3>2, Zenon
  <2>3. CASE CollectorStep /\ ~SweepSlot
    BY <2>3, Zenon
       DEF CollectorStep, collect_with_ephemerons, collect_realm_with_ephemerons,
           try_collect_realm_with_ephemerons, BeginCollection, sweep_realm, MarkSlot,
           MarkEphemeron, EndMark, EndSweep
  <2> QED
    BY <2>1, <2>2, <2>3, Zenon DEF Next
<1> QED
  BY <1>1, TypeCorrect, PTL DEF Spec, ForeignSlotsUntouched

-----------------------------------------------------------------------------
(* The end of a collection.                                                *)

\* What a collection still has to do with slot i: while marking, a white slot
\* may have to be grayed and one that is not black may have to be scanned; a
\* slot at or after the cursor is to be swept; and each of the two loops has
\* to end, which is counted on slot 0.
ToDo(i, what) ==
    \/ what = "gray" /\ gc.phase = "mark" /\ colors[i] = "White"
    \/ what = "scan" /\ gc.phase = "mark" /\ colors[i] # "Black"
    \/ what = "end mark" /\ gc.phase = "mark" /\ i = 0
    \/ what = "sweep" /\ gc.phase # "idle" /\ gc.next <= i /\ i < len
    \/ what = "end" /\ gc.phase # "idle" /\ i = 0

Tasks == {"gray", "scan", "end mark", "sweep", "end"}

Ahead == {t \in Index \X Tasks : ToDo(t[1], t[2])}

\* Every step taken during a collection leaves strictly less to do: no slot is
\* grayed or scanned twice, the passes over the ephemerons do not go round in
\* circles, and no client step comes between.  Ahead has at most 3 * Capacity + 2
\* elements, so that no collection has more steps than that.
CollectionAdvances ==
    [][gc.phase # "idle" => Ahead' \subseteq Ahead /\ Ahead' # Ahead]_vars

\* A step that adds no task and takes one off leaves less to do.
LEMMA FewerTasks ==
    ASSUME NEW i \in Index, NEW what \in Tasks, ToDo(i, what), ~ToDo(i, what)',
           \A j \in Index, w \in Tasks : ToDo(j, w)' => ToDo(j, w)
    PROVE  Ahead' \subseteq Ahead /\ Ahead' # Ahead
<1>1. Ahead' = {t \in Index \X Tasks : ToDo(t[1], t[2])'}
  BY Zenon DEF Ahead
<1>2. Ahead' \subseteq Ahead
  BY <1>1, Zenon DEF Ahead
<1>3. <<i, what>> \in Ahead /\ <<i, what>> \notin Ahead'
  BY <1>1 DEF Ahead
<1> QED
  BY <1>2, <1>3, Zenon

\* The mark loop, the passes over the ephemerons and the sweep loop advance.
THEOREM CollectionsAdvance == Spec => CollectionAdvances
<1>1. TypeOK /\ [Next]_vars => [gc.phase # "idle" => Ahead' \subseteq Ahead /\ Ahead' # Ahead]_vars
  <2> SUFFICES ASSUME TypeOK, Next, gc.phase # "idle"
               PROVE  Ahead' \subseteq Ahead /\ Ahead' # Ahead
    BY Zenon
  <2> USE DEF heapVars, clientVars
  <2>1. ~ClientStep
    BY Zenon DEF ClientStep, ClientTurn, alloc_with_owner, alloc_external_with_owner,
       reserve_oom_sentinel, take_oom, set_owner, free, take_freed_external_handles,
       Store, Load, Forget
  <2>2. 0 \in Index
    BY HeapAssumption DEF Index
  <2>3. ASSUME NEW i \in Index, MarkSlot(i)
        PROVE  Ahead' \subseteq Ahead /\ Ahead' # Ahead
    <3>1. /\ gc' = gc /\ len' = len /\ gc.phase = "mark"
          /\ colors[i] = "Gray" /\ colors'[i] = "Black"
      BY <2>3, Zenon DEF MarkSlot
    <3>2. \A j \in Index : /\ colors'[j] = "White" => colors[j] = "White"
                           /\ colors'[j] # "Black" => colors[j] # "Black"
      BY <2>3 DEF MarkSlot, TypeOK
    <3>3. ToDo(i, "scan") /\ ~ToDo(i, "scan")'
      BY <3>1, Zenon DEF ToDo
    <3>4. \A j \in Index, w \in Tasks : ToDo(j, w)' => ToDo(j, w)
      BY <3>1, <3>2, Zenon DEF ToDo
    <3> QED
      BY <3>3, <3>4, FewerTasks, Zenon DEF Tasks
  <2>4. ASSUME NEW p \in gc.eph, MarkEphemeron(p)
        PROVE  Ahead' \subseteq Ahead /\ Ahead' # Ahead
    <3> DEFINE v == slot_index(p[2])
    <3>1. v \in Index
      <4>1. p \in Handle \X Handle
        BY Zenon DEF TypeOK, Collections
      <4> QED
        BY <4>1, HeapAssumption DEF Handle, Words, slot_index, Index
    <3>2. UNCHANGED <<gc, len>> /\ gc.phase = "mark" /\ colors[v] = "White"
          /\ colors' = [colors EXCEPT ![v] = "Gray"]
      BY <2>4, Zenon DEF MarkEphemeron, EphemeronFires
    <3> HIDE DEF v
    <3>3. \A j \in Index : colors'[j] = IF j = v THEN "Gray" ELSE colors[j]
      BY <3>1, <3>2 DEF TypeOK
    <3>4. ToDo(v, "gray") /\ ~ToDo(v, "gray")'
      BY <3>1, <3>2, <3>3 DEF ToDo
    <3>5. \A j \in Index, w \in Tasks : ToDo(j, w)' => ToDo(j, w)
      BY <3>2, <3>3, Zenon DEF ToDo
    <3> QED
      BY <3>1, <3>4, <3>5, FewerTasks, Zenon DEF Tasks
  <2>5. CASE EndMark
    <3>1. gc.phase = "mark" /\ gc'.phase = "sweep" /\ gc'.next = gc.next /\ len' = len
      BY <2>5 DEF EndMark, TypeOK, Collections
    <3>2. ToDo(0, "end mark") /\ ~ToDo(0, "end mark")'
      BY <3>1 DEF ToDo
    <3>3. \A j \in Index, w \in Tasks : ToDo(j, w)' => ToDo(j, w)
      BY <3>1, Zenon DEF ToDo
    <3> QED
      BY <2>2, <3>2, <3>3, FewerTasks, Zenon DEF Tasks
  <2>6. CASE SweepSlot
    <3>1. /\ gc.phase = "sweep" /\ gc'.phase = "sweep" /\ gc'.next = gc.next + 1
          /\ gc.next < len /\ len' = len
      BY <2>6 DEF SweepSlot, TypeOK, Collections
    <3>2. gc.next \in Index /\ len \in 0 .. Capacity
      BY <3>1, HeapAssumption DEF TypeOK, Collections, Index
    <3>3. PICK n \in Index : n = gc.next
      BY <3>2, Zenon
    <3>4. ToDo(n, "sweep") /\ ~ToDo(n, "sweep")'
      BY <3>1, <3>2, <3>3 DEF ToDo, Index
    <3>5. \A j \in Index, w \in Tasks : ToDo(j, w)' => ToDo(j, w)
      BY <3>1, <3>2 DEF ToDo, Index
    <3> QED
      BY <3>4, <3>5, FewerTasks, Zenon DEF Tasks
  <2>7. CASE EndSweep
    <3>1. gc.phase = "sweep" /\ gc'.phase = "idle"
      BY <2>7 DEF EndSweep, Idle, Collection
    <3>2. ToDo(0, "end") /\ ~ToDo(0, "end")'
      BY <3>1 DEF ToDo
    <3>3. \A j \in Index, w \in Tasks : ~ToDo(j, w)'
      BY <3>1 DEF ToDo
    <3> QED
      BY <2>2, <3>2, <3>3, FewerTasks, Zenon DEF Tasks
  <2>8. CollectorStep => \/ \E i \in Index : MarkSlot(i)
                         \/ \E p \in gc.eph : MarkEphemeron(p)
                         \/ EndMark \/ SweepSlot \/ EndSweep
    BY Zenon DEF CollectorStep, collect_with_ephemerons, collect_realm_with_ephemerons,
       try_collect_realm_with_ephemerons, BeginCollection, sweep_realm, ClientTurn
  <2> QED
    BY <2>1, <2>3, <2>4, <2>5, <2>6, <2>7, <2>8, Zenon DEF Next
<1> QED
  BY <1>1, TypeCorrect, PTL DEF Spec, CollectionAdvances

-----------------------------------------------------------------------------
(* The handles of external objects.                                        *)

\* A step that writes no external slot and leaves the lists alone moves no
\* external handle.
LEMMA SameExternals ==
    ASSUME TypeOK, ExternalInv, UNCHANGED <<freed_external, externals, released, dropped>>,
           \A i \in Index :
              \/ slots'[i] = slots[i]
              \/ slots[i].kind # "External" /\ slots'[i].kind # "External"
    PROVE  ExternalInv'
<1>1. \A e : InSlots(e)' = InSlots(e) /\ Waiting(e)' = Waiting(e)
  BY Zenon DEF InSlots, Waiting
<1>2. \A i \in Index : slots'[i].kind = "External" => slots'[i].ext \in 1 .. externals
  BY Zenon DEF ExternalInv, ExternalsConserved
<1> QED
  BY <1>1, <1>2, Zenon DEF ExternalInv, ExternalsConserved, Accounted

\* An allocation that recycles or adds a slot finds no external handle in it.
LEMMA AllocSlot ==
    ASSUME TypeOK, HandleInv, NEW v \in Slot, NEW owner \in Owners,
           PopFreeList(v, owner) \/ PushSlot(v, owner)
    PROVE  \E i \in Index : slots[i].kind # "External" /\ slots' = [slots EXCEPT ![i] = v]
<1>1. CASE PopFreeList(v, owner)
  <2>1. Len(free_list) \in 1 .. Len(free_list)
    BY <1>1 DEF TypeOK, PopFreeList
  <2>2. free_list[Len(free_list)] \in Index /\ slots[free_list[Len(free_list)]].kind = "Free"
    BY <1>1, <2>1 DEF HandleInv, FreshList, TypeOK, PopFreeList
  <2> QED
    BY <1>1, <2>2, Zenon DEF PopFreeList, Fill
<1>2. CASE PushSlot(v, owner)
  <2>1. len \in Index /\ slots[len].kind = "Free"
    BY <1>2, HeapAssumption DEF TypeOK, PushSlot, Index, HandleInv
  <2> QED
    BY <1>2, <2>1, Zenon DEF PushSlot, Fill
<1> QED
  BY <1>1, <1>2, Zenon

\* A new external handle starts in the one slot allocated for it.
LEMMA AddExternal ==
    ASSUME TypeOK, ExternalInv, NEW i \in Index, slots[i].kind # "External",
           slots' = [slots EXCEPT ![i] = External(externals + 1)],
           externals' = externals + 1, UNCHANGED <<freed_external, released, dropped>>
    PROVE  ExternalInv'
<1>0. PICK x : x = externals + 1
  BY Zenon
<1>1. PICK v : v = External(x)
  BY Zenon
<1>2. v.kind = "External" /\ v.ext = x
  BY <1>1, Zenon DEF External
<1>3. /\ 1 .. externals' = (1 .. externals) \cup {x}
      /\ x \notin 1 .. externals
  BY <1>0 DEF TypeOK
<1>4. slots'[i] = v /\ \A j \in Index : j # i => slots'[j] = slots[j]
  BY <1>0, <1>1, Zenon DEF TypeOK
<1>5. ASSUME NEW e \in 1 .. externals
      PROVE  InSlots(e)' = InSlots(e) /\ Waiting(e)' = Waiting(e)
  <2>1. \A j \in Index : slots'[j].kind = "External" /\ slots'[j].ext = e
                        <=> slots[j].kind = "External" /\ slots[j].ext = e
    BY <1>2, <1>3, <1>4, Zenon
  <2> QED
    BY <2>1, Zenon DEF InSlots, Waiting
<1>6. InSlots(x)' = {i}
  <2>1. \A j \in Index : slots'[j].kind = "External" /\ slots'[j].ext = x <=> j = i
    BY <1>2, <1>3, <1>4 DEF ExternalInv, ExternalsConserved
  <2> QED
    BY <2>1, Zenon DEF InSlots
<1>7. Waiting(x)' = {} /\ x \notin released /\ x \notin dropped
  BY <1>3, Zenon DEF Waiting, ExternalInv, ExternalsConserved
<1>8. \A j \in Index : slots'[j].kind = "External" => slots'[j].ext \in 1 .. externals'
  BY <1>2, <1>3, <1>4, Zenon DEF ExternalInv, ExternalsConserved
<1>9. /\ \A n \in 1 .. Len(freed_external') : freed_external'[n] \in 1 .. externals'
      /\ released' \subseteq 1 .. externals' /\ dropped' \subseteq 1 .. externals'
  BY <1>3, Zenon DEF ExternalInv, ExternalsConserved
<1>10. Accounted(x)'
  BY <1>6, <1>7, Zenon DEF Accounted
<1>11. \A e \in 1 .. externals : Accounted(e)'
  BY <1>5, Zenon DEF ExternalInv, ExternalsConserved, Accounted
<1> QED
  BY <1>3, <1>8, <1>9, <1>10, <1>11, Zenon DEF ExternalInv, ExternalsConserved

\* Overwriting slot i with something else takes its external handle, if it has
\* one, out of the slots and moves no other.
LEMMA EmptyExternal ==
    ASSUME TypeOK, ExternalInv, NEW i \in Index, NEW v, v.kind # "External",
           slots' = [slots EXCEPT ![i] = v],
           NEW x, slots[i].kind = "External", slots[i].ext = x
    PROVE  /\ \A j \in Index : slots'[j].kind = "External" => slots'[j].ext \in 1 .. externals
           /\ \A e : e # x => InSlots(e)' = InSlots(e)
           /\ x \in 1 .. externals /\ InSlots(x)' = {}
           /\ Waiting(x) = {} /\ x \notin released /\ x \notin dropped
<1>1. slots'[i] = v /\ \A j \in Index : j # i => slots'[j] = slots[j]
  BY Zenon DEF TypeOK
<1>2. \A j \in Index : slots'[j].kind = "External" => slots'[j].ext \in 1 .. externals
  BY <1>1, Zenon DEF ExternalInv, ExternalsConserved
<1>3. \A e : e # x => InSlots(e)' = InSlots(e)
  BY <1>1, Zenon DEF InSlots
<1>4. x \in 1 .. externals /\ i \in InSlots(x)
  BY Zenon DEF ExternalInv, ExternalsConserved, InSlots
<1>5. InSlots(x) = {i} /\ Waiting(x) = {} /\ x \notin released /\ x \notin dropped
  BY <1>4, Zenon DEF ExternalInv, ExternalsConserved, Accounted
<1>6. \A j \in Index : ~(slots'[j].kind = "External" /\ slots'[j].ext = x)
  BY <1>1, <1>5 DEF InSlots
<1>7. InSlots(x)' = {}
  BY <1>6, Zenon DEF InSlots
<1> QED
  BY <1>2, <1>3, <1>4, <1>5, <1>7, Zenon

\* free() and the overwrite of the reserved slot drop the external handle of the
\* slot and no other.
LEMMA DropExternal ==
    ASSUME TypeOK, ExternalInv, NEW i \in Index, NEW v, v.kind # "External",
           slots' = [slots EXCEPT ![i] = v], Drop(i),
           UNCHANGED <<freed_external, externals, released>>
    PROVE  ExternalInv'
<1>0. PICK x : x = slots[i].ext
  BY Zenon
<1>1. dropped' = IF slots[i].kind = "External" THEN dropped \cup {x} ELSE dropped
  BY <1>0, Zenon DEF Drop
<1>2. \A e : Waiting(e)' = Waiting(e)
  BY Zenon DEF Waiting
<1>3. CASE slots[i].kind = "External"
  <2>1. /\ \A j \in Index : slots'[j].kind = "External" => slots'[j].ext \in 1 .. externals
        /\ \A e : e # x => InSlots(e)' = InSlots(e)
        /\ x \in 1 .. externals /\ InSlots(x)' = {}
        /\ Waiting(x) = {} /\ x \notin released /\ x \notin dropped
    BY <1>0, <1>3, EmptyExternal, Zenon
  <2>2. dropped' = dropped \cup {x}
    BY <1>1, <1>3, Zenon
  <2>3. Accounted(x)'
    BY <1>2, <2>1, <2>2, Zenon DEF Accounted
  <2>4. ASSUME NEW e \in 1 .. externals, e # x PROVE Accounted(e)'
    <3>1. Accounted(e) /\ InSlots(e)' = InSlots(e) /\ Waiting(e)' = Waiting(e)
      BY <1>2, <2>1, <2>4, Zenon DEF ExternalInv, ExternalsConserved
    <3>2. (e \in released' <=> e \in released) /\ (e \in dropped' <=> e \in dropped)
      BY <2>2, <2>4, Zenon
    <3> QED
      BY <3>1, <3>2, Zenon DEF Accounted
  <2> QED
    BY <2>1, <2>2, <2>3, <2>4, Zenon DEF ExternalInv, ExternalsConserved
<1>4. CASE slots[i].kind # "External"
  BY <1>1, <1>4, SameExternals, Zenon DEF TypeOK
<1> QED
  BY <1>3, <1>4, Zenon

\* The sweep puts the external handle of a slot it frees at the end of the list
\* of handles to release.
LEMMA SweepExternal ==
    ASSUME TypeOK, ExternalInv, SweepSlot
    PROVE  ExternalInv'
<1> DEFINE i == gc.next
           z == Len(freed_external)
<1>0. PICK x : x = slots[i].ext
  BY Zenon
<1>1. i \in Index
  BY HeapAssumption DEF TypeOK, Collections, SweepSlot, Index
<1>2. UNCHANGED <<externals, released, dropped>>
  BY Zenon DEF SweepSlot, clientVars
<1>3. CASE Doomed(i) /\ slots[i].kind = "External"
  <2>1. slots' = [slots EXCEPT ![i] = Free] /\ freed_external' = Append(freed_external, x)
    BY <1>0, <1>3, Zenon DEF SweepSlot, Vacate
  <2>0. Free.kind # "External"
    BY Zenon DEF Free
  <2>2. /\ \A j \in Index : slots'[j].kind = "External" => slots'[j].ext \in 1 .. externals
        /\ \A e : e # x => InSlots(e)' = InSlots(e)
        /\ x \in 1 .. externals /\ InSlots(x)' = {}
        /\ Waiting(x) = {} /\ x \notin released /\ x \notin dropped
    BY <1>0, <1>1, <1>3, <2>0, <2>1, EmptyExternal, ZenonT(30)
  <2>3. /\ z \in Nat /\ Len(freed_external') = z + 1 /\ freed_external'[z + 1] = x
        /\ \A n \in 1 .. z : freed_external'[n] = freed_external[n]
    BY <2>1, <2>2 DEF TypeOK
  <2>4. 1 .. (z + 1) = (1 .. z) \cup {z + 1} /\ z + 1 \notin 1 .. z
    BY <2>3
  <2>5. ASSUME NEW e, e # x PROVE Waiting(e)' = Waiting(e)
    <3>1. \A n \in 1 .. (z + 1) : freed_external'[n] = e <=> n \in 1 .. z /\ freed_external[n] = e
      BY <2>3, <2>4, <2>5, Zenon
    <3> QED
      BY <2>3, <2>4, <3>1, Zenon DEF Waiting
  <2>6. \E n \in Waiting(x)' : Waiting(x)' = {n}
    <3>1. \A n \in 1 .. (z + 1) : freed_external'[n] = x <=> n = z + 1
      BY <2>2, <2>3, <2>4, Zenon DEF Waiting
    <3>2. Waiting(x)' = {n \in 1 .. (z + 1) : freed_external'[n] = x}
      BY <2>3, Zenon DEF Waiting
    <3>3. Waiting(x)' = {z + 1}
      BY <2>4, <3>1, <3>2, Zenon
    <3> QED
      BY <3>3, Zenon
  <2>7. \A n \in 1 .. Len(freed_external') : freed_external'[n] \in 1 .. externals'
    BY <1>2, <2>2, <2>3, <2>4, Zenon DEF ExternalInv, ExternalsConserved
  <2>8. \A e \in 1 .. externals : Accounted(e)'
    BY <1>2, <2>2, <2>5, <2>6 DEF ExternalInv, ExternalsConserved, Accounted
  <2> QED
    BY <1>2, <2>2, <2>7, <2>8, Zenon DEF ExternalInv, ExternalsConserved
<1>4. CASE ~(Doomed(i) /\ slots[i].kind = "External")
  <2>1. UNCHANGED freed_external /\ (slots' = slots \/ slots' = [slots EXCEPT ![i] = Free])
    BY <1>4, Zenon DEF SweepSlot, Vacate
  <2>2. Free.kind # "External"
    BY Zenon DEF Free
  <2>3. slots' = slots \/ slots[i].kind # "External"
    BY <1>4, Zenon DEF SweepSlot
  <2> QED
    BY <1>1, <1>2, <2>1, <2>2, <2>3, SameExternals, Zenon DEF TypeOK
<1> QED
  BY <1>3, <1>4, Zenon

\* Draining the list releases exactly the handles that waited on it.
LEMMA DrainExternals ==
    ASSUME TypeOK, ExternalInv, take_freed_external_handles
    PROVE  ExternalInv'
<1>1. /\ freed_external' = <<>> /\ UNCHANGED <<slots, externals, dropped>>
      /\ released' = released \cup {freed_external[k] : k \in 1 .. Len(freed_external)}
  BY Zenon DEF take_freed_external_handles
<1>2. \A e : InSlots(e)' = InSlots(e)
  BY <1>1, Zenon DEF InSlots
<1>3. \A e : Waiting(e)' = {}
  BY <1>1 DEF Waiting
<1>4. \A e : e \in released' <=> e \in released \/ Waiting(e) # {}
  BY <1>1, Zenon DEF Waiting
<1>5. Len(freed_external') = 0 /\ released' \subseteq 1 .. externals' /\ dropped' \subseteq 1 .. externals'
  <2>1. Len(freed_external') = 0
    BY <1>1, Zenon
  <2>2. released' \subseteq 1 .. externals' /\ dropped' \subseteq 1 .. externals'
    BY <1>1, Zenon DEF ExternalInv, ExternalsConserved
  <2> QED
    BY <2>1, <2>2, Zenon
<1>6. ASSUME NEW e \in 1 .. externals
      PROVE  Accounted(e)'
  <2>1. Accounted(e)
    BY Zenon DEF ExternalInv, ExternalsConserved
  <2>2. InSlots(e)' = InSlots(e) /\ Waiting(e)' = {} /\ dropped' = dropped
    BY <1>1, <1>2, <1>3, Zenon
  <2>3. CASE Waiting(e) = {}
    <3>1. e \in released' <=> e \in released
      BY <1>4, <2>3, Zenon
    <3> QED
      BY <2>1, <2>2, <2>3, <3>1, Zenon DEF Accounted
  <2>4. CASE Waiting(e) # {}
    <3>1. e \in released' /\ InSlots(e) = {} /\ e \notin dropped
      BY <1>4, <2>1, <2>4, Zenon DEF Accounted
    <3> QED
      BY <2>2, <3>1, Zenon DEF Accounted
  <2> QED
    BY <2>3, <2>4, Zenon
<1> QED
  BY <1>1, <1>2, <1>5, <1>6 DEF ExternalInv, ExternalsConserved

\* The external handles are accounted for at every step.
THEOREM ExternalsInductive == Spec => []ExternalInv
<1>1. Init => ExternalInv
  BY DEF Init, ExternalInv, ExternalsConserved, Free
<1>2. TypeOK /\ HandleInv /\ ExternalInv /\ [Next]_vars => ExternalInv'
  <2> SUFFICES ASSUME TypeOK, HandleInv, ExternalInv, [Next]_vars
               PROVE  ExternalInv'
    BY Zenon
  <2> USE DEF heapVars, clientVars
  <2>1. ASSUME UNCHANGED <<slots, freed_external, externals, released, dropped>>
        PROVE  ExternalInv'
    BY <2>1, SameExternals, Zenon
  <2>2. ASSUME NEW owner \in Owners, NEW refs \in [1 .. Width -> held \cup {None}],
               alloc_with_owner(refs, owner)
        PROVE  ExternalInv'
    <3>1. Object(refs) \in Slot /\ Object(refs).kind # "External"
      BY HeapAssumption DEF Object, Slot, Refs, TypeOK
    <3>2. PICK v \in Slot : v = Object(refs)
      BY <3>1, Zenon
    <3>3. UNCHANGED <<freed_external, externals, released>>
      BY <2>2, Zenon DEF alloc_with_owner
    <3>4. CASE (PopFreeList(v, owner) \/ PushSlot(v, owner)) /\ dropped' = dropped
      <4>1. PICK i \in Index : slots[i].kind # "External" /\ slots' = [slots EXCEPT ![i] = v]
        BY <3>4, AllocSlot, Zenon
      <4> QED
        BY <3>1, <3>2, <3>3, <3>4, <4>1, SameExternals, Zenon DEF TypeOK
    <3>5. CASE OverwriteSentinel(v, owner)
      BY <3>1, <3>2, <3>3, <3>5, DropExternal, Zenon DEF OverwriteSentinel, Fill, TypeOK
    <3> QED
      BY <2>2, <3>2, <3>4, <3>5, Zenon DEF alloc_with_owner
  <2>3. ASSUME NEW owner \in Owners, alloc_external_with_owner(owner)
        PROVE  ExternalInv'
    <3>1. External(externals + 1) \in Slot
      BY <2>3, HeapAssumption DEF External, Slot, Refs, NoRefs, TypeOK, alloc_external_with_owner
    <3>2. PICK i \in Index : /\ slots[i].kind # "External"
                             /\ slots' = [slots EXCEPT ![i] = External(externals + 1)]
      BY <2>3, <3>1, AllocSlot, Zenon DEF alloc_external_with_owner
    <3>3. externals' = externals + 1 /\ UNCHANGED <<freed_external, released, dropped>>
      BY <2>3, Zenon DEF alloc_external_with_owner
    <3> QED
      BY <3>2, <3>3, AddExternal, Zenon
  <2>4. ASSUME NEW id \in held, NEW k \in 1 .. Width, NEW v \in held \cup {None}, Store(id, k, v)
        PROVE  ExternalInv'
    <3> DEFINE new == Object([get(id).refs EXCEPT ![k] = v])
    <3>1. new.kind = "Object" /\ slots' = [slots EXCEPT ![slot_index(id)] = new]
      BY <2>4, Zenon DEF Store, Object
    <3>2. slots[slot_index(id)].kind # "External" /\ UNCHANGED <<freed_external, externals, released, dropped>>
      BY <2>4, Zenon DEF Store, get, Resolves
    <3> HIDE DEF new
    <3> QED
      BY <3>1, <3>2, SameExternals, Zenon DEF TypeOK
  <2>5. ASSUME NEW id \in held, free(id)
        PROVE  ExternalInv'
    <3>1. slot_index(id) \in Index /\ Free.kind # "External"
      BY UnpackPack, Zenon DEF TypeOK, Free
    <3> QED
      BY <2>5, <3>1, DropExternal, Zenon DEF free, Vacate
  <2>6. CASE ClientStep
    BY <2>1, <2>2, <2>3, <2>4, <2>6, <2>5, DrainExternals, Zenon
       DEF ClientStep, reserve_oom_sentinel, take_oom, set_owner, Load, Forget
  <2>7. CASE CollectorStep
    BY <2>1, <2>7, SweepExternal, Zenon
       DEF CollectorStep, collect_with_ephemerons, collect_realm_with_ephemerons,
           try_collect_realm_with_ephemerons, BeginCollection, sweep_realm, MarkSlot,
           MarkEphemeron, EndMark, EndSweep
  <2>8. CASE UNCHANGED vars
    BY <2>1, <2>8, Zenon DEF vars
  <2> QED
    BY <2>6, <2>7, <2>8, Zenon DEF Next
<1> QED
  BY <1>1, <1>2, HandlesInductive, PTL DEF Spec

\* No sweep loses an external handle and none is released twice: at every moment
\* it is in one slot, or waits once for the client, or has been released, or was
\* dropped by free() or by the overwrite of the reserved slot.
THEOREM ExternalsAreConserved == Spec => []ExternalsConserved
<1>1. ExternalInv => ExternalsConserved
  BY Zenon DEF ExternalInv
<1> QED
  BY <1>1, ExternalsInductive, PTL

=============================================================================
