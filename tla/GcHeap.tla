------------------------------- MODULE GcHeap -------------------------------
(***************************************************************************)
(* The Tier-1 heap of crates/rusty-js-gc: a vector of slots addressed by   *)
(* packed (index, generation) handles, the free list that recycles slots,  *)
(* the realm that owns each slot, and the stop-the-world collections (full *)
(* or of one realm, with ephemerons).                                      *)
(*                                                                         *)
(* The parallel vectors slots, colors, owners and generations are          *)
(* functions over every index the packed handle can express; `len' is the  *)
(* length of the vectors.  A collection holds the heap exclusively         *)
(* (&mut self): it is a sequence of steps, one per marked or swept slot,   *)
(* during which `gc' is not idle and the client takes no step.             *)
(*                                                                         *)
(* The client is external (the interpreter): it holds the handles in       *)
(* `held', passes exactly those as roots, and obtains handles only by      *)
(* allocating and by reading fields of objects it can resolve.             *)
(* Allocation-pressure accounting (alloc_count, threshold) decides when a  *)
(* collection is asked for; here one may start at any time.                *)
(***************************************************************************)
EXTENDS Integers, Sequences, FiniteSets

CONSTANTS
    Capacity,       \* OBJECT_ID_INDEX_MASK + 1: slots a handle can express
    MaxGeneration,  \* OBJECT_ID_MAX_GENERATION
    OomSlotMargin,  \* OOM_SLOT_MARGIN
    Owners,         \* realm numbers; 0 is the main realm
    Width,          \* reference fields of an object
    ReuseSlots,     \* ~no_slot_reuse
    Reserves,       \* whether the client reserves an out-of-memory slot
    Scopes,         \* the realms the client collects; AllOwners is a full collection
    MaxHeld,        \* bound: handles the client holds at once
    MaxExternals,   \* bound: external handles ever allocated
    MaxEphemerons   \* bound: ephemeron pairs given to one collection

ASSUME HeapAssumption ==
    /\ Capacity \in Nat \ {0}
    /\ MaxGeneration \in Nat
    /\ OomSlotMargin \in Nat
    /\ Owners \subseteq Nat /\ 0 \in Owners
    /\ Width \in Nat
    /\ ReuseSlots \in BOOLEAN /\ Reserves \in BOOLEAN
    /\ Scopes \subseteq Owners \cup {-1}
    /\ MaxHeld \in Nat /\ MaxExternals \in Nat /\ MaxEphemerons \in Nat

VARIABLES
    len, slots, colors, owners, generations, free_list,
    freed_external, oom, oom_sentinel,
    gc,         \* the collection in progress
    held,       \* handles the client holds
    issued,     \* every handle an allocation ever returned
    externals,  \* number of external handles allocated so far
    released,   \* external handles whose release has reached the client
    dropped     \* external handles overwritten without being reported

heapVars == <<len, slots, colors, owners, generations, free_list,
              freed_external, oom, oom_sentinel>>
clientVars == <<held, issued, externals, released, dropped>>
vars == <<heapVars, gc, clientVars>>
-----------------------------------------------------------------------------
Index == 0 .. (Capacity - 1)
Words == Capacity * (MaxGeneration + 1)   \* 2^32
Handle == 0 .. (Words - 1)
None == -1                                \* Option::None, an empty field
AllOwners == -1

\* The generation is shifted above the index and truncated to the word.
ObjectId(i, g) == (g * Capacity + i) % Words
slot_index(id) == id % Capacity
generation(id) == id \div Capacity

Refs == [1 .. Width -> Handle \cup {None}]
NoRefs == [k \in 1 .. Width |-> None]
Slot == [kind : {"Object", "External", "Free"}, refs : Refs, ext : 0 .. MaxExternals]
Free == [kind |-> "Free", refs |-> NoRefs, ext |-> 0]
Object(refs) == [kind |-> "Object", refs |-> refs, ext |-> 0]
External(e) == [kind |-> "External", refs |-> NoRefs, ext |-> e]

\* The state of a collection; must and may are the slots it has to keep and
\* the slots it is allowed to keep.
Collection(phase, scope, teardown, eph, must, may) ==
    [phase |-> phase, scope |-> scope, teardown |-> teardown, eph |-> eph,
     next |-> 0, must |-> must, may |-> may]
Collections ==
    [phase : {"idle", "mark", "sweep"}, scope : Owners \cup {AllOwners},
     teardown : BOOLEAN, eph : SUBSET (Handle \X Handle), next : 0 .. Capacity,
     must : SUBSET Index, may : SUBSET Index]
Idle == Collection("idle", AllOwners, FALSE, {}, {}, {})

generation_matches(id) ==
    /\ slot_index(id) < len
    /\ generations[slot_index(id)] = generation(id)
is_free(id) == ~generation_matches(id) \/ slots[slot_index(id)].kind = "Free"
Resolves(id) == id # None /\ ~is_free(id)
get(id) == IF is_free(id) THEN Free ELSE slots[slot_index(id)]

InScope(i, scope) == scope = AllOwners \/ owners[i] = scope

\* Mistake: the fields of a slot are followed by index alone.
Targets_stale(i, scope) ==
    {j \in Index : \E k \in 1 .. Width :
        /\ slots[i].refs[k] # None /\ j = slot_index(slots[i].refs[k])
        /\ slots[j].kind # "Free" /\ InScope(j, scope)}

\* The slots that the fields of slot i lead to, as a trace restricted to a
\* realm follows them.
Targets(i, scope) ==
    {j \in Index : \E k \in 1 .. Width :
        /\ Resolves(slots[i].refs[k])
        /\ j = slot_index(slots[i].refs[k])
        /\ InScope(j, scope)}
RootSlots(roots, scope) ==
    {j \in Index : \E r \in roots : Resolves(r) /\ j = slot_index(r) /\ InScope(j, scope)}
-----------------------------------------------------------------------------
(***************************************************************************)
(* What a collection promises, stated without a mark algorithm: the least  *)
(* set of slots that contains the roots and is closed under fields and     *)
(* under ephemerons whose key is in the set.  A handle leads to a slot     *)
(* when it is the current handle of that slot.                             *)
(***************************************************************************)
LeadsTo(id, j, scope) ==
    /\ slots[j].kind # "Free" /\ InScope(j, scope)
    /\ id = ObjectId(j, generations[j])

Closed(S, scope, eph) ==
    /\ \A i \in S, j \in Index, k \in 1 .. Width :
            LeadsTo(slots[i].refs[k], j, scope) => j \in S
    /\ \A p \in eph, i \in S, j \in Index :
            LeadsTo(p[1], i, scope) /\ LeadsTo(p[2], j, scope) => j \in S

HoldsRoots(S, roots, scope) ==
    \A r \in roots, j \in Index : LeadsTo(r, j, scope) => j \in S

Reachable(roots, scope, eph) ==
    {i \in Index : \A S \in SUBSET Index :
        HoldsRoots(S, roots, scope) /\ Closed(S, scope, eph) => i \in S}
-----------------------------------------------------------------------------
Init ==
    /\ len = 0
    /\ slots = [i \in Index |-> Free]
    /\ colors = [i \in Index |-> "White"]
    /\ owners = [i \in Index |-> 0]
    /\ generations = [i \in Index |-> 0]
    /\ free_list = <<>>
    /\ freed_external = <<>>
    /\ oom = FALSE
    /\ oom_sentinel = None
    /\ gc = Idle
    /\ held = {} /\ issued = {} /\ externals = 0 /\ released = {} /\ dropped = {}

\* Writing a slot that an allocation chose.
Fill(i, v, owner) ==
    /\ slots' = [slots EXCEPT ![i] = v]
    /\ colors' = [colors EXCEPT ![i] = "White"]
    /\ owners' = [owners EXCEPT ![i] = owner]

\* The client receives the handle an allocation returns.
Receive(id) ==
    /\ held' = held \cup {id}
    /\ issued' = issued \cup {id}

PopFreeList(v, owner) ==
    LET i == free_list[Len(free_list)] IN
    /\ ReuseSlots /\ free_list # <<>>
    /\ free_list' = SubSeq(free_list, 1, Len(free_list) - 1)
    /\ Fill(i, v, owner)
    /\ Receive(ObjectId(i, generations[i]))
    /\ UNCHANGED <<len, generations>>

PushSlot(v, owner) ==
    /\ ~(ReuseSlots /\ free_list # <<>>)
    /\ len < Capacity
    /\ len' = len + 1
    /\ generations' = [generations EXCEPT ![len] = 0]
    /\ Fill(len, v, owner)
    /\ Receive(ObjectId(len, 0))
    /\ UNCHANGED free_list

\* Slot i is overwritten with no word to freed_external.
Drop(i) ==
    dropped' = IF slots[i].kind = "External" THEN dropped \cup {slots[i].ext} ELSE dropped

\* At capacity the reserved slot is overwritten in place, under its present
\* handle and whatever it holds by then: the reserved object, nothing, or what
\* has been allocated there since the reserved object was freed.
OverwriteSentinel(v, owner) ==
    /\ ~(ReuseSlots /\ free_list # <<>>)
    /\ len = Capacity /\ oom_sentinel # None
    /\ Fill(oom_sentinel, v, owner)
    /\ Receive(ObjectId(oom_sentinel, generations[oom_sentinel]))
    /\ Drop(oom_sentinel)
    /\ UNCHANGED <<len, generations, free_list>>

ClientTurn == gc.phase = "idle"

alloc_with_owner(refs, owner) ==
    /\ ClientTurn /\ Cardinality(held) < MaxHeld
    /\ \/ PopFreeList(Object(refs), owner) /\ UNCHANGED <<oom, dropped>>
       \/ /\ PushSlot(Object(refs), owner)
          /\ oom' = (oom \/ len = Capacity - 1 - OomSlotMargin)
          /\ UNCHANGED dropped
       \/ OverwriteSentinel(Object(refs), owner) /\ oom' = TRUE
    /\ UNCHANGED <<freed_external, oom_sentinel, gc, externals, released>>

alloc_external_with_owner(owner) ==
    /\ ClientTurn /\ Cardinality(held) < MaxHeld /\ externals < MaxExternals
    /\ externals' = externals + 1
    /\ \/ PopFreeList(External(externals + 1), owner)
       \/ PushSlot(External(externals + 1), owner)
    /\ UNCHANGED <<freed_external, oom, oom_sentinel, gc, released, dropped>>

\* Any handle the client holds: neither the slot nor an earlier reservation is
\* looked at, and nothing protects the slot from then on.
reserve_oom_sentinel(id) ==
    /\ ClientTurn /\ Reserves
    /\ oom_sentinel' = slot_index(id)
    /\ UNCHANGED <<len, slots, colors, owners, generations, free_list,
                   freed_external, oom, gc, clientVars>>

take_oom ==
    /\ ClientTurn /\ oom
    /\ oom' = FALSE
    /\ UNCHANGED <<len, slots, colors, owners, generations, free_list,
                   freed_external, oom_sentinel, gc, clientVars>>

set_owner(id, owner) ==
    /\ ClientTurn /\ Resolves(id)
    /\ owners' = [owners EXCEPT ![slot_index(id)] = owner]
    /\ UNCHANGED <<len, slots, colors, generations, free_list, freed_external,
                   oom, oom_sentinel, gc, clientVars>>

\* Mistake: the generation is bumped past what the handle can hold.
retire_slot_index_unbounded(i) ==
    /\ generations' = [generations EXCEPT ![i] = @ + 1]
    /\ free_list' = Append(free_list, i)

\* Mistake: the slot is recycled even when its generations are used up.
retire_slot_index_always_push(i) ==
    /\ generations' = [generations EXCEPT ![i] = IF @ < MaxGeneration THEN @ + 1 ELSE @]
    /\ free_list' = Append(free_list, i)

retire_slot_index(i) ==
    IF generations[i] < MaxGeneration
    THEN /\ generations' = [generations EXCEPT ![i] = @ + 1]
         /\ free_list' = Append(free_list, i)
    ELSE UNCHANGED <<generations, free_list>>

\* Emptying slot i, as every sweep and free() do it.
Vacate(i) ==
    /\ slots' = [slots EXCEPT ![i] = Free]
    /\ colors' = [colors EXCEPT ![i] = "White"]
    /\ owners' = [owners EXCEPT ![i] = 0]
    /\ retire_slot_index(i)

\* The whole test of free() is the generation: a slot that is already Free at
\* the last generation passes it, and an external slot is emptied like any other.
free(id) ==
    /\ ClientTurn /\ generation_matches(id)
    /\ Vacate(slot_index(id))
    /\ Drop(slot_index(id))
    /\ UNCHANGED <<len, freed_external, oom, oom_sentinel, gc, held, issued, externals, released>>

\* Mistake: the list is copied out and not emptied.
take_freed_external_handles_copy ==
    /\ ClientTurn /\ freed_external # <<>>
    /\ released' = released \cup {freed_external[k] : k \in 1 .. Len(freed_external)}
    /\ UNCHANGED <<heapVars, gc, held, issued, externals, dropped>>

take_freed_external_handles ==
    /\ ClientTurn /\ freed_external # <<>>
    /\ freed_external' = <<>>
    /\ released' = released \cup {freed_external[k] : k \in 1 .. Len(freed_external)}
    /\ UNCHANGED <<len, slots, colors, owners, generations, free_list, oom,
                   oom_sentinel, gc, held, issued, externals, dropped>>

\* The client writes a handle it holds, or clears a field, through get_mut.
Store(id, k, v) ==
    /\ ClientTurn /\ Resolves(id) /\ get(id).kind = "Object"
    /\ slots' = [slots EXCEPT ![slot_index(id)] = Object([get(id).refs EXCEPT ![k] = v])]
    /\ UNCHANGED <<len, colors, owners, generations, free_list, freed_external,
                   oom, oom_sentinel, gc, clientVars>>

\* The client reads a field through get.
Load(id, k) ==
    /\ ClientTurn /\ Cardinality(held) < MaxHeld
    /\ Resolves(id) /\ get(id).kind = "Object" /\ get(id).refs[k] # None
    /\ held' = held \cup {get(id).refs[k]}
    /\ UNCHANGED <<heapVars, gc, issued, externals, released, dropped>>

\* The client forgets a handle.
Forget(id) ==
    /\ ClientTurn
    /\ held' = held \ {id}
    /\ UNCHANGED <<heapVars, gc, issued, externals, released, dropped>>
-----------------------------------------------------------------------------
\* Reset every color, then gray the roots.
BeginCollection(scope, eph, must) ==
    /\ ClientTurn
    /\ colors' = [i \in Index |-> IF i \in RootSlots(held, scope) THEN "Gray" ELSE "White"]
    /\ gc' = Collection("mark", scope, FALSE, eph, must, Reachable(held, scope, eph))
    /\ UNCHANGED <<len, slots, owners, generations, free_list, freed_external,
                   oom, oom_sentinel, clientVars>>

collect_with_ephemerons(eph) ==
    BeginCollection(AllOwners, eph, Reachable(held, AllOwners, eph))

\* Unchecked: references from other realms are ignored.
collect_realm_with_ephemerons(owner, eph) ==
    BeginCollection(owner, eph, Reachable(held, owner, eph))

cross_owner_edges_into(owner) ==
    {i \in Index : slots[i].kind = "Object" /\ owners[i] # owner /\ Targets(i, owner) # {}}

OwnerLocal(p) ==
    Resolves(p[1]) /\ Resolves(p[2]) =>
        owners[slot_index(p[1])] = owners[slot_index(p[2])]

\* Mistake: the audit for references from other realms is skipped.
try_collect_realm_unaudited(owner, eph) ==
    /\ \A p \in eph : OwnerLocal(p)
    /\ BeginCollection(owner, eph,
           {i \in Reachable(held, AllOwners, eph) : owners[i] = owner})

\* Checked: refuses, leaving the heap alone, when an object of another realm
\* refers into this one.  Its ephemerons are owner-local.
try_collect_realm_with_ephemerons(owner, eph) ==
    /\ cross_owner_edges_into(owner) = {}
    /\ \A p \in eph : OwnerLocal(p)
    /\ BeginCollection(owner, eph,
           {i \in Reachable(held, AllOwners, eph) : owners[i] = owner})

\* One pop of the worklist, which holds exactly the gray slots; the order in
\* which they are popped makes no difference to the colors at the end.
MarkSlot(i) ==
    /\ gc.phase = "mark" /\ colors[i] = "Gray"
    /\ colors' = [j \in Index |->
                    IF j = i THEN "Black"
                    ELSE IF colors[j] = "White" /\ j \in Targets(i, gc.scope)
                         THEN "Gray" ELSE colors[j]]
    /\ UNCHANGED <<len, slots, owners, generations, free_list, freed_external,
                   oom, oom_sentinel, gc, clientVars>>

EphemeronApplies(p, scope) ==
    /\ Resolves(p[1]) /\ InScope(slot_index(p[1]), scope)
    /\ Resolves(p[2]) /\ InScope(slot_index(p[2]), scope)

\* Mistake: a value counts as changed whenever its key is marked.
EphemeronFires_always(p) ==
    EphemeronApplies(p, gc.scope) /\ colors[slot_index(p[1])] # "White"

EphemeronFires(p) ==
    /\ EphemeronApplies(p, gc.scope)
    /\ colors[slot_index(p[1])] # "White"
    /\ colors[slot_index(p[2])] = "White"

\* One entry of a pass over the ephemerons that grays its value.
MarkEphemeron(p) ==
    /\ gc.phase = "mark" /\ EphemeronFires(p)
    /\ colors' = [colors EXCEPT ![slot_index(p[2])] = "Gray"]
    /\ UNCHANGED <<len, slots, owners, generations, free_list, freed_external,
                   oom, oom_sentinel, gc, clientVars>>

\* The worklist is empty and a pass over the ephemerons changed nothing.
EndMark ==
    /\ gc.phase = "mark"
    /\ \A i \in Index : colors[i] # "Gray"
    /\ \A p \in gc.eph : ~EphemeronFires(p)
    /\ gc' = [gc EXCEPT !.phase = "sweep"]
    /\ UNCHANGED <<heapVars, clientVars>>

\* Realm teardown frees every slot of the owner, marked or not, the reserved
\* one included.
sweep_realm(owner) ==
    /\ ClientTurn
    /\ gc' = Collection("sweep", owner, TRUE, {}, {}, {})
    /\ UNCHANGED <<heapVars, clientVars>>

\* Mistake: the sweep does not look at the owner.
Doomed_any_owner(i) ==
    slots[i].kind # "Free" /\ (gc.teardown \/ colors[i] = "White")

Doomed(i) ==
    /\ slots[i].kind # "Free" /\ InScope(i, gc.scope)
    /\ gc.teardown \/ colors[i] = "White"

\* One iteration of the sweep loops.
SweepSlot ==
    LET i == gc.next IN
    /\ gc.phase = "sweep" /\ i < len
    /\ gc' = [gc EXCEPT !.next = i + 1]
    /\ IF Doomed(i)
       THEN /\ Vacate(i)
            /\ freed_external' = IF slots[i].kind = "External"
                                 THEN Append(freed_external, slots[i].ext)
                                 ELSE freed_external
       ELSE /\ colors' = [colors EXCEPT ![i] =
                            IF @ = "Black" /\ ~gc.teardown THEN "White" ELSE @]
            /\ UNCHANGED <<slots, owners, generations, free_list, freed_external>>
    /\ UNCHANGED <<len, oom, oom_sentinel, clientVars>>

EndSweep ==
    /\ gc.phase = "sweep" /\ gc.next >= len
    /\ gc' = Idle
    /\ UNCHANGED <<heapVars, clientVars>>
-----------------------------------------------------------------------------
\* Keys and values are handles the program once had, dead or stale ones included.
Ephemerons ==
    UNION {{ {f[k] : k \in 1 .. n} : f \in [1 .. n -> issued \X issued]} : n \in 0 .. MaxEphemerons}

ClientStep ==
    \/ \E owner \in Owners, refs \in [1 .. Width -> held \cup {None}] :
            alloc_with_owner(refs, owner)
    \/ \E owner \in Owners : alloc_external_with_owner(owner)
    \/ \E id \in held : reserve_oom_sentinel(id)
    \/ take_oom
    \/ \E id \in held, owner \in Owners : set_owner(id, owner)
    \/ \E id \in held : free(id)
    \/ take_freed_external_handles
    \/ \E id \in held, k \in 1 .. Width, v \in held \cup {None} : Store(id, k, v)
    \/ \E id \in held, k \in 1 .. Width : Load(id, k)
    \/ \E id \in held : Forget(id)

CollectorStep ==
    \/ AllOwners \in Scopes /\ \E eph \in Ephemerons : collect_with_ephemerons(eph)
    \/ \E owner \in Scopes \cap Owners, eph \in Ephemerons :
            \/ collect_realm_with_ephemerons(owner, eph)
            \/ try_collect_realm_with_ephemerons(owner, eph)
    \/ \E owner \in Scopes \cap Owners : sweep_realm(owner)
    \/ \E i \in Index : MarkSlot(i)
    \/ \E p \in gc.eph : MarkEphemeron(p)
    \/ EndMark
    \/ SweepSlot
    \/ EndSweep

Next == ClientStep \/ CollectorStep

Spec == Init /\ [][Next]_vars

\* A collection is a loop of the thread that called it: once started it runs.
CollectorRuns ==
    \/ \E i \in Index : MarkSlot(i)
    \/ \E p \in gc.eph : MarkEphemeron(p)
    \/ EndMark \/ SweepSlot \/ EndSweep
FairSpec == Spec /\ WF_vars(CollectorRuns)
-----------------------------------------------------------------------------
TypeOK ==
    /\ len \in 0 .. Capacity
    /\ slots \in [Index -> Slot]
    /\ colors \in [Index -> {"White", "Gray", "Black"}]
    /\ owners \in [Index -> Owners]
    /\ generations \in [Index -> 0 .. MaxGeneration]
    /\ free_list \in Seq(Index)
    /\ freed_external \in Seq(0 .. MaxExternals)
    /\ oom \in BOOLEAN
    /\ oom_sentinel \in Index \cup {None}
    /\ gc \in Collections
    /\ held \subseteq Handle /\ issued \subseteq Handle
    /\ externals \in 0 .. MaxExternals
    /\ released \subseteq 0 .. MaxExternals /\ dropped \subseteq 0 .. MaxExternals

\* While slots are recycled, the free list names each recyclable slot once,
\* every slot on it is empty, and the handle the next user of the slot will get
\* was never given out: an allocation takes an entry without looking at the slot
\* (lines 392-400, 446-454), so a duplicate or a live entry would alias two
\* objects.  (With CRUFT_GC_NO_SLOT_REUSE nothing is taken from the list, and a
\* reserved slot on it can be overwritten there.)
FreeListSound ==
    ReuseSlots =>
        /\ \A m, n \in DOMAIN free_list : free_list[m] = free_list[n] => m = n
        /\ \A n \in DOMAIN free_list :
            /\ free_list[n] < len
            /\ slots[free_list[n]].kind = "Free"
            /\ ObjectId(free_list[n], generations[free_list[n]]) \notin issued

\* No stale handle comes back to life: a slot is never populated under a
\* handle that an earlier allocation returned, through any number of frees,
\* sweeps and reuses, the last generation included.  The one exception is the
\* reserved slot of a full heap with nothing to recycle, which alloc_with_owner
\* writes whether or not it has been freed (lines 459-465).
NoHandleReuse ==
    [][\A i \in Index :
        slots[i].kind = "Free" /\ slots'[i].kind # "Free" /\ ObjectId(i, generations'[i]) \in issued
            => i = oom_sentinel /\ len = Capacity /\ ~(ReuseSlots /\ free_list # <<>>)]_vars

\* A collection never frees what the program can still reach from its roots
\* through fields and live-keyed ephemerons; a checked realm collection not
\* even what is reachable through other realms.
CollectionKeepsReachable ==
    gc.phase # "idle" => \A i \in gc.must : slots[i].kind # "Free"

\* A finished collection leaves nothing unreachable in its scope, dead
\* ephemeron cycles included.
CollectionIsExact ==
    gc.phase = "sweep" /\ ~gc.teardown /\ gc.next >= len =>
        \A i \in Index : slots[i].kind # "Free" /\ InScope(i, gc.scope) => i \in gc.may

\* A collection or teardown of one realm leaves every slot of the others as it is.
ForeignSlotsUntouched ==
    [][gc.phase # "idle" =>
        \A i \in Index : ~InScope(i, gc.scope) =>
            /\ slots'[i] = slots[i] /\ owners'[i] = owners[i]
            /\ generations'[i] = generations[i]]_vars

\* The places of an external handle inside the heap.
InSlots(e) == {i \in Index : slots[i].kind = "External" /\ slots[i].ext = e}
Waiting(e) == {n \in 1 .. Len(freed_external) : freed_external[n] = e}

\* In one slot, or waiting once, or released, or dropped, and in no other of
\* these places.
Accounted(e) ==
    \/ /\ \E i \in InSlots(e) : InSlots(e) = {i}
       /\ Waiting(e) = {} /\ e \notin released /\ e \notin dropped
    \/ /\ \E n \in Waiting(e) : Waiting(e) = {n}
       /\ InSlots(e) = {} /\ e \notin released /\ e \notin dropped
    \/ InSlots(e) = {} /\ Waiting(e) = {} /\ e \in released /\ e \notin dropped
    \/ InSlots(e) = {} /\ Waiting(e) = {} /\ e \notin released /\ e \in dropped

\* Each external handle is in one place: in one live slot, waiting once in
\* freed_external, or taken from there by the client.  No sweep loses a Tier-2
\* reference and none is reported twice; the only ones that are reported nowhere
\* are those that free() (lines 632-640) or the overwrite of the reserved slot
\* (lines 459-465) found in the slot they emptied.
ExternalsConserved == \A e \in 1 .. externals : Accounted(e)

\* Every started collection ends.
CollectionTerminates == gc.phase # "idle" ~> gc.phase = "idle"
-----------------------------------------------------------------------------
(***************************************************************************)
(* Inductive invariants, from which the properties above follow.           *)
(***************************************************************************)
\* The free list names empty slots, each once, and every handle given out for a
\* listed slot is of an earlier generation.
FreshList ==
    /\ \A m, n \in 1 .. Len(free_list) : free_list[m] = free_list[n] => m = n
    /\ \A n \in 1 .. Len(free_list) :
        /\ free_list[n] < len
        /\ slots[free_list[n]].kind = "Free"
        /\ \A h \in issued : slot_index(h) = free_list[n]
                                => generation(h) < generations[free_list[n]]

\* Every handle in the program was given out by an allocation; every handle given
\* out is for an existing slot at its present or an earlier generation.
HandleInv ==
    /\ held \subseteq issued
    /\ \A i \in Index, k \in 1 .. Width : slots[i].refs[k] \in issued \cup {None}
    /\ \A h \in issued : slot_index(h) < len /\ generation(h) <= generations[slot_index(h)]
    /\ \A i \in Index : i >= len => slots[i].kind = "Free"
    /\ ReuseSlots => FreshList

\* Every external handle given to the heap so far is accounted for, and the
\* heap and the client know of no other.
ExternalInv ==
    /\ \A i \in Index : slots[i].kind = "External" => slots[i].ext \in 1 .. externals
    /\ \A n \in 1 .. Len(freed_external) : freed_external[n] \in 1 .. externals
    /\ released \subseteq 1 .. externals /\ dropped \subseteq 1 .. externals
    /\ ExternalsConserved

\* While marking, the colored slots are between the roots and the reachable
\* slots and black slots point to colored ones; while sweeping, the slots ahead
\* of the cursor are colored exactly when reachable, and behind it exactly the
\* reachable ones are left.
CollectInv ==
    /\ gc.phase # "idle" => gc.must \subseteq gc.may
    /\ gc.phase = "mark" =>
        /\ ~gc.teardown /\ gc.next = 0
        /\ gc.may = Reachable(held, gc.scope, gc.eph)
        /\ \A i \in Index : colors[i] # "White" => i \in gc.may
        /\ HoldsRoots({i \in Index : colors[i] # "White"}, held, gc.scope)
        /\ \A i, j \in Index, k \in 1 .. Width :
                colors[i] = "Black" /\ LeadsTo(slots[i].refs[k], j, gc.scope)
                    => colors[j] # "White"
    /\ gc.phase = "sweep" /\ ~gc.teardown =>
        /\ \A i \in gc.may : slots[i].kind # "Free"
        /\ \A i \in Index : gc.next <= i /\ slots[i].kind # "Free" /\ InScope(i, gc.scope)
                => (i \in gc.may <=> colors[i] # "White")
        /\ \A i \in Index : i < gc.next /\ slots[i].kind # "Free" /\ InScope(i, gc.scope)
                => i \in gc.may
    /\ gc.phase = "sweep" /\ gc.teardown => gc.must = {}
=============================================================================
