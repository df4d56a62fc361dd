------------------------ MODULE LogitsRegistryProofs ------------------------
(***************************************************************************)
(* Proofs about LogitsRegistry, for any number of registrations and workers. *)
(***************************************************************************)
EXTENDS LogitsRegistry, FiniteSetTheorems, TLAPS

\* The part of TypeOK the ids rest on.
IdTypes ==
    /\ NEXT_PROCESSOR_ID \in 1..MaxId
    /\ LOGITS_PROCESSORS \subseteq (1..MaxId) \X Registrations
    /\ owner \in [Registrations ->
                      {"new", "claim", "insert", "live", "remove", "dropped"}]
    /\ id \in [Registrations -> 0..MaxId]
    /\ at \in [Workers ->
                   {"idle", "held", "enter", "body", "reject", "panic", "leave", "drop"}]
    /\ user_data \in [Workers -> Registrations \cup {None}]
    /\ state \in [Workers -> Registrations \cup {None}]

\* What was read from the counter was a valid id; what is claimed is below it.
IdsBelowCounter ==
    \A g \in Registrations :
        /\ owner[g] # "new" => id[g] >= 1
        /\ Claimed(g) => id[g] < NEXT_PROCESSOR_ID

\* Only live registrations are filed, each under its own id.
EntriesAreLive ==
    \A i \in 1..MaxId, g \in Registrations :
        <<i, g>> \in LOGITS_PROCESSORS => owner[g] = "live" /\ id[g] = i

IdInv == IdTypes /\ IdsBelowCounter /\ IdsUnique /\ EntriesAreLive /\ OwnProcessorOnly

\* Before the first registration no id is claimed and none is filed.
LEMMA IdInit == Init => IdInv
BY MaxIdAssumption
   DEF Init, IdInv, IdTypes, IdsBelowCounter, IdsUnique, EntriesAreLive,
       OwnProcessorOnly, Claimed

\* A lookup leads to the registration that native code was given, if to any.
LEMMA LookupFinds ==
    ASSUME IdInv, NEW g \in Registrations, Claimed(g),
           NEW h \in registered_logits_processor(id[g])
    PROVE  h = g /\ owner[g] = "live"
BY DEF IdInv, IdTypes, IdsUnique, EntriesAreLive, registered_logits_processor, Claimed

\* Claiming, filing and removing an id keep the ids apart, and calls do not touch them.
LEMMA IdStep == ASSUME IdInv, [Next]_vars PROVE IdInv'
<1> USE MaxIdAssumption DEF IdInv, IdTypes
<1> USE DEF ownerVars, workerVars
<1>1. ASSUME NEW g \in Registrations, LoadId(g)
      PROVE  IdInv'
  BY <1>1 DEF LoadId, IdsBelowCounter, IdsUnique, EntriesAreLive, OwnProcessorOnly,
              Claimed
<1>2. ASSUME NEW g \in Registrations, AbortOnOverflow(g)
      PROVE  IdInv'
  BY <1>2 DEF AbortOnOverflow, IdsBelowCounter, IdsUnique, EntriesAreLive,
              OwnProcessorOnly, Claimed
<1>3. ASSUME NEW g \in Registrations, RetryClaim(g)
      PROVE  IdInv'
  BY <1>3 DEF RetryClaim, IdsBelowCounter, IdsUnique, EntriesAreLive,
              OwnProcessorOnly, Claimed
<1>4. ASSUME NEW g \in Registrations, ClaimId(g)
      PROVE  IdInv'
  <2>1. id[g] = NEXT_PROCESSOR_ID /\ NEXT_PROCESSOR_ID < MaxId
    BY <1>4 DEF ClaimId, claim_succeeds, checked_add_overflows
  <2> QED
    BY <1>4, <2>1 DEF ClaimId, IdsBelowCounter, IdsUnique, EntriesAreLive,
                      OwnProcessorOnly, Claimed
<1>5. ASSUME NEW g \in Registrations, Insert(g)
      PROVE  IdInv'
  <2>1. /\ IdTypes' /\ IdsBelowCounter' /\ IdsUnique' /\ OwnProcessorOnly'
    BY <1>5 DEF Insert, IdsBelowCounter, IdsUnique, OwnProcessorOnly, Claimed
  <2>2. EntriesAreLive'
    BY <1>5 DEF Insert, EntriesAreLive
  <2> QED BY <2>1, <2>2
<1>6. ASSUME NEW g \in Registrations, Unregister(g)
      PROVE  IdInv'
  <2>1. /\ IdTypes' /\ IdsBelowCounter' /\ IdsUnique' /\ OwnProcessorOnly'
    BY <1>6 DEF Unregister, remove_entry, IdsBelowCounter, IdsUnique,
                OwnProcessorOnly, Claimed
  <2>2. EntriesAreLive'
    BY <1>6 DEF Unregister, remove_entry, EntriesAreLive
  <2> QED BY <2>1, <2>2
<1>7. ASSUME NEW g \in Registrations, DropRegistration(g)
      PROVE  IdInv'
  BY <1>7 DEF DropRegistration, IdsBelowCounter, IdsUnique, EntriesAreLive,
              OwnProcessorOnly, Claimed
<1>8. ASSUME NEW w \in Workers, NEW g \in Registrations, LookupMisses(w, g)
      PROVE  IdInv'
  BY <1>8 DEF LookupMisses, IdsBelowCounter, IdsUnique, EntriesAreLive,
              OwnProcessorOnly, Claimed
<1>9. ASSUME NEW w \in Workers, NEW g \in Registrations, LookupHits(w, g)
      PROVE  IdInv'
  <2>1. PICK h \in registered_logits_processor(id[g]) :
            state' = [state EXCEPT ![w] = h]
    BY <1>9 DEF LookupHits
  <2>2. h = g
    BY <1>9, LookupFinds DEF LookupHits, Call, Claimed
  <2> QED
    BY <1>9, <2>1, <2>2 DEF LookupHits, Call, IdsBelowCounter, IdsUnique,
                            EntriesAreLive, OwnProcessorOnly, Claimed
<1>10. ASSUME NEW w \in Workers, Trampoline(w)
       PROVE  IdInv'
  <2>1. /\ UNCHANGED <<ownerVars, LOGITS_PROCESSORS>>
        /\ \/ at[w] # "idle" /\ UNCHANGED <<user_data, state>>
           \/ /\ at' = [at EXCEPT ![w] = "idle"]
              /\ user_data' = [user_data EXCEPT ![w] = None]
              /\ state' = [state EXCEPT ![w] = None]
        /\ \E to \in {"idle", "held", "enter", "body", "reject", "panic", "leave", "drop"} :
               at' = [at EXCEPT ![w] = to]
    BY <1>10 DEF Trampoline, Move, SkipFailed, Validate, RecordInvalid, Enter,
                 BodyEnds, RecordPanic, Leave, DropState
  <2> QED
    BY <2>1 DEF IdsBelowCounter, IdsUnique, EntriesAreLive, OwnProcessorOnly, Claimed
<1>11. ASSUME UNCHANGED vars
       PROVE  IdInv'
  BY <1>11 DEF vars, IdsBelowCounter, IdsUnique, EntriesAreLive, OwnProcessorOnly,
               Claimed
<1> HIDE DEF IdInv
<1> QED
  BY <1>1, <1>2, <1>3, <1>4, <1>5, <1>6, <1>7, <1>8, <1>9, <1>10, <1>11
     DEF Next, Owner, Finished

\* The inductive invariant about ids holds throughout.
THEOREM IdInvariant == Spec => []IdInv
<1>1. IdInv /\ [Next]_vars => IdInv'
  BY IdStep
<1> QED BY IdInit, <1>1, PTL DEF Spec

\* No id is ever claimed twice, however many threads register at once.
THEOREM IdsStayUnique == Spec => []IdsUnique
<1>1. IdInv => IdsUnique
  BY DEF IdInv
<1> QED BY IdInvariant, <1>1, PTL

\* No call runs the processor of another registration.
THEOREM CallsReachTheirOwn == Spec => []OwnProcessorOnly
<1>1. IdInv => OwnProcessorOnly
  BY DEF IdInv
<1> QED BY IdInvariant, <1>1, PTL

\* A call reaches a processor only while its registration is in place.
THEOREM StaleCallsAreNoOps == Spec => StaleCallsDoNothing
<1> DEFINE Stale(w) == at[w] = "idle" /\ at'[w] # "idle" => owner[user_data'[w]] = "live"
<1>1. ASSUME IdInv, [Next]_vars, NEW w \in Workers
      PROVE  Stale(w)
  <2> USE <1>1 DEF IdInv, IdTypes
  <2>1. CASE \E g \in Registrations : LookupHits(w, g)
    <3>1. PICK g \in Registrations : LookupHits(w, g)
      BY <2>1
    <3>2. user_data'[w] = g
      BY <3>1 DEF LookupHits
    <3>3. Claimed(g) /\ registered_logits_processor(id[g]) # {}
      BY <3>1 DEF LookupHits, Call, Claimed
    <3> QED BY <3>2, <3>3, LookupFinds
  <2>2. CASE UNCHANGED at
    BY <2>2
  <2>3. CASE \E v \in Workers : Trampoline(v)
    <3>1. PICK v \in Workers, from \in {"held", "enter", "body", "reject", "panic", "leave", "drop"} :
              at[v] = from /\ \E to : at' = [at EXCEPT ![v] = to]
      BY <2>3 DEF Trampoline, Move, SkipFailed, Validate, RecordInvalid, Enter,
                  BodyEnds, RecordPanic, Leave, DropState
    <3> QED BY <3>1
  <2>4. CASE \E v \in Workers, g \in Registrations : v # w /\ LookupHits(v, g)
    BY <2>4 DEF LookupHits
  <2>5. \/ UNCHANGED at
        \/ \E v \in Workers : Trampoline(v)
        \/ \E v \in Workers, g \in Registrations : LookupHits(v, g)
    BY DEF Next, vars, Owner, Finished, LoadId, AbortOnOverflow, RetryClaim, ClaimId,
           Insert, Unregister, DropRegistration, LookupMisses, workerVars
  <2> QED BY <2>1, <2>2, <2>3, <2>4, <2>5
<1>2. IdInv /\ [Next]_vars => [\A w \in Workers : Stale(w)]_vars
  BY <1>1
<1> QED BY IdInvariant, <1>2, PTL DEF Spec, StaleCallsDoNothing

-----------------------------------------------------------------------------
(* Shares of the state, and active threads                                   *)

Points == {"idle", "held", "enter", "body", "reject", "panic", "leave", "drop"}

\* A call holds a state exactly between its lookup and its end, and only a
\* registration that was filed has a state.
HeldWhileCalled ==
    \A w \in Workers :
        /\ state[w] = None <=> at[w] = "idle"
        /\ state[w] # None => owner[state[w]] \notin {"new", "claim", "insert"}

\* No thread is recorded twice.
ActiveOnce ==
    \A g \in Registrations :
        \A i, j \in 1..Len(active_threads[g]) :
            active_threads[g][i] = active_threads[g][j] => i = j

StateInv ==
    /\ TypeOK
    /\ IdInv
    /\ HeldWhileCalled
    /\ SharesAreCounted
    /\ ActiveOnce
    /\ ActiveIsExact

\* The workers that hold a state can be counted.
LEMMA HoldersFinite ==
    ASSUME NEW g
    PROVE  IsFiniteSet(Holders(g)) /\ Cardinality(Holders(g)) \in Nat
BY WorkersAssumption, FS_Subset, FS_CardinalityType DEF Holders

\* A worker that takes up a state is one more holder of it, and of no other.
LEMMA HolderAdded ==
    ASSUME NEW w \in Workers, NEW h \in Registrations,
           state \in [Workers -> Registrations \cup {None}], state[w] = None,
           state' = [state EXCEPT ![w] = h], NEW g \in Registrations
    PROVE  Cardinality(Holders(g)') =
               IF g = h THEN Cardinality(Holders(g)) + 1 ELSE Cardinality(Holders(g))
<1>1. CASE g = h
  <2>1. Holders(g)' = Holders(g) \cup {w} /\ w \notin Holders(g)
    BY <1>1, NoneAssumption DEF Holders
  <2> QED BY <1>1, <2>1, HoldersFinite, FS_AddElement
<1>2. CASE g # h
  <2>1. Holders(g)' = Holders(g)
    BY <1>2, NoneAssumption DEF Holders
  <2> QED BY <1>2, <2>1
<1> QED BY <1>1, <1>2

\* A worker that lets its state go is one holder less of it.
LEMMA HolderRemoved ==
    ASSUME NEW w \in Workers, NEW h \in Registrations,
           state \in [Workers -> Registrations \cup {None}], state[w] = h,
           state' = [state EXCEPT ![w] = None], NEW g \in Registrations
    PROVE  Cardinality(Holders(g)') =
               IF g = h THEN Cardinality(Holders(g)) - 1 ELSE Cardinality(Holders(g))
<1>1. CASE g = h
  <2>1. Holders(g)' = Holders(g) \ {w} /\ w \in Holders(g)
    BY <1>1, NoneAssumption DEF Holders
  <2> QED BY <1>1, <2>1, HoldersFinite, FS_RemoveElement
<1>2. CASE g # h
  <2>1. Holders(g)' = Holders(g)
    BY <1>2, NoneAssumption DEF Holders
  <2> QED BY <1>2, <2>1
<1> QED BY <1>1, <1>2

\* swap_remove takes out the entry of w, which occurs once, and no other.
LEMMA SwapRemove ==
    ASSUME NEW threads \in Seq(Workers), NEW w, NEW k \in 1..Len(threads),
           threads[k] = w,
           \A i, j \in 1..Len(threads) : threads[i] = threads[j] => i = j
    PROVE  LET rest == swap_remove(threads, w)
           IN  /\ rest \in Seq(Workers)
               /\ \A i, j \in 1..Len(rest) : rest[i] = rest[j] => i = j
               /\ \A v \in Workers :
                      (\E i \in 1..Len(rest) : rest[i] = v)
                          <=> v # w /\ \E i \in 1..Len(threads) : threads[i] = v
<1> DEFINE n == Len(threads)
           found == {i \in 1..n : threads[i] = threads[k]}
           moved == [threads EXCEPT ![k] = threads[n]]
           rest == swap_remove(threads, w)
<1>1. n \in Nat /\ n >= 1 /\ k \in Nat /\ k <= n
  OBVIOUS
<1>2. found = {k}
  OBVIOUS
<1>3. (CHOOSE i \in found : \A j \in found : j <= i) = k
  BY <1>1, <1>2
<1>4. rest = Front(moved)
  BY <1>2, <1>3 DEF swap_remove
<1>5. moved \in Seq(Workers) /\ Len(moved) = n
  BY <1>1
<1>6. rest = SubSeq(moved, 1, n - 1)
  BY <1>4, <1>5 DEF Front
<1>7. /\ rest \in Seq(Workers) /\ Len(rest) = n - 1
      /\ \A i \in 1..(n - 1) : rest[i] = moved[i]
  BY <1>1, <1>5, <1>6
<1>8. \A i \in 1..(n - 1) : rest[i] = IF i = k THEN threads[n] ELSE threads[i]
  <2>1. \A i \in 1..n : moved[i] = IF i = k THEN threads[n] ELSE threads[i]
    BY <1>1
  <2> HIDE DEF rest, moved
  <2> QED BY <1>1, <1>7, <2>1
<1>9. \A i, j \in 1..Len(rest) : rest[i] = rest[j] => i = j
  BY <1>1, <1>7, <1>8
<1>10. ASSUME NEW v \in Workers
       PROVE  (\E i \in 1..Len(rest) : rest[i] = v)
                  <=> v # w /\ \E i \in 1..n : threads[i] = v
  <2>1. ASSUME NEW i \in 1..Len(rest), rest[i] = v
        PROVE  v # w /\ \E j \in 1..n : threads[j] = v
    BY <1>1, <1>7, <1>8, <2>1
  <2>2. ASSUME v # w, NEW j \in 1..n, threads[j] = v
        PROVE  \E i \in 1..Len(rest) : rest[i] = v
    <3>1. CASE j = n
      BY <1>1, <1>7, <1>8, <2>2, <3>1
    <3>2. CASE j # n
      BY <1>1, <1>7, <1>8, <2>2, <3>2
    <3> QED BY <3>1, <3>2
  <2> QED BY <2>1, <2>2
<1> QED BY <1>7, <1>9, <1>10

\* Before the first registration no state has an owner or an active thread.
LEMMA StateInit == Init => StateInv
<1> SUFFICES ASSUME Init PROVE StateInv
  OBVIOUS
<1>1. TypeOK
  BY MaxIdAssumption, MaxCallsAssumption DEF Init, TypeOK, Failures
<1>2. HeldWhileCalled /\ ActiveOnce /\ ActiveIsExact
  BY NoneAssumption DEF Init, HeldWhileCalled, ActiveOnce, ActiveIsExact, Running
<1>3. ASSUME NEW g \in Registrations PROVE Holders(g) = {}
  BY NoneAssumption DEF Init, Holders
<1>4. SharesAreCounted
  BY <1>3, FS_EmptySet DEF Init, SharesAreCounted
<1> QED BY <1>1, <1>2, <1>4, IdInit DEF StateInv

\* Steps of an owner leave the calls and the active threads alone.
LEMMA OwnerKeepsState ==
    ASSUME StateInv, IdInv', NEW g \in Registrations, Owner(g)
    PROVE  StateInv'
<1> USE MaxIdAssumption DEF ownerVars, workerVars
<1>1. /\ UNCHANGED <<failure, active_threads, workerVars>>
      /\ \A h \in Registrations : h # g =>
             owner'[h] = owner[h] /\ id'[h] = id[h] /\ strong'[h] = strong[h]
  BY DEF StateInv, TypeOK, Owner, LoadId, AbortOnOverflow, RetryClaim, ClaimId, Insert,
         downgrade, Unregister, DropRegistration
<1>2. \A h : Holders(h)' = Holders(h)
  BY <1>1 DEF Holders
<1>3. owner[g] \in {"new", "claim", "insert"} => Holders(g) = {}
  BY NoneAssumption DEF StateInv, HeldWhileCalled, Holders
<1>4. \A h \in Registrations : Cardinality(Holders(h)) \in Nat
  BY HoldersFinite
<1>5. /\ owner \in [Registrations ->
                     {"new", "claim", "insert", "live", "remove", "dropped"}]
      /\ strong \in [Registrations -> Nat]
  BY DEF StateInv, TypeOK
<1>6. HeldWhileCalled'
  BY <1>1 DEF StateInv, TypeOK, HeldWhileCalled, Owner, LoadId, AbortOnOverflow,
              RetryClaim, ClaimId, Insert, Unregister, DropRegistration
<1>7. SharesAreCounted'
  <2> SUFFICES ASSUME NEW h \in Registrations
               PROVE  strong'[h] = Cardinality(Holders(h)) +
                          (IF owner'[h] \in {"live", "remove"} THEN 1 ELSE 0)
    BY <1>2 DEF SharesAreCounted
  <2>1. CASE h # g
    BY <1>1, <2>1 DEF StateInv, SharesAreCounted
  <2>2. CASE h = g /\ Insert(g)
    <3>1. Cardinality(Holders(g)) = 0
      BY <1>3, <2>2, FS_EmptySet DEF Insert
    <3>2. strong'[g] = 1 /\ owner'[g] = "live"
      BY <1>5, <2>2 DEF Insert, downgrade
    <3> QED BY <2>2, <3>1, <3>2
  <2>3. CASE h = g /\ ~Insert(g)
    BY <1>4, <2>3 DEF StateInv, TypeOK, SharesAreCounted, Owner, LoadId,
                      AbortOnOverflow, RetryClaim, ClaimId, Unregister, DropRegistration
  <2> QED BY <2>1, <2>2, <2>3
<1>8. ActiveOnce' /\ ActiveIsExact'
  BY <1>1 DEF StateInv, ActiveOnce, ActiveIsExact, Running
<1>9. TypeOK'
  <2>1. strong' \in [Registrations -> Nat]
    <3>1. strong[g] - 1 \in Nat \/ owner[g] # "remove"
      BY <1>4 DEF StateInv, SharesAreCounted
    <3> QED
      BY <1>5, <3>1 DEF Owner, LoadId, AbortOnOverflow, RetryClaim, ClaimId,
                  Insert, downgrade, Unregister, DropRegistration
  <2>2. process' \in {"running", "aborted"}
    BY DEF StateInv, TypeOK, Owner, LoadId, AbortOnOverflow, RetryClaim, ClaimId,
           Insert, Unregister, DropRegistration
  <2> QED BY <1>1, <2>1, <2>2 DEF StateInv, TypeOK, IdInv, IdTypes
<1> QED BY <1>6, <1>7, <1>8, <1>9 DEF StateInv

\* A lookup takes a share of the state it finds.
LEMMA LookupKeepsState ==
    ASSUME StateInv, IdInv', NEW w \in Workers, NEW g \in Registrations,
           LookupHits(w, g)
    PROVE  StateInv'
<1> USE DEF ownerVars
<1>1. PICK found \in registered_logits_processor(id[g]) :
          upgrade(found) /\ state' = [state EXCEPT ![w] = found]
  BY DEF LookupHits
<1>2. found = g /\ owner[g] = "live"
  BY LookupFinds DEF StateInv, LookupHits, Call, Claimed
<1>3. /\ at[w] = "idle" /\ state[w] = None
      /\ at' = [at EXCEPT ![w] = "held"]
      /\ strong' = [strong EXCEPT ![g] = @ + 1]
      /\ state' = [state EXCEPT ![w] = g]
      /\ UNCHANGED <<owner, active_threads>>
  BY <1>1, <1>2 DEF LookupHits, Call, upgrade, StateInv, HeldWhileCalled
<1>4. /\ state \in [Workers -> Registrations \cup {None}]
      /\ strong \in [Registrations -> Nat]
      /\ calls \in [Workers -> 0..MaxCalls]
  BY DEF StateInv, TypeOK
<1>5. HeldWhileCalled'
  BY <1>2, <1>3, NoneAssumption DEF StateInv, TypeOK, HeldWhileCalled
<1>6. SharesAreCounted'
  <2>1. \A h \in Registrations :
            /\ Cardinality(Holders(h)) \in Nat
            /\ Cardinality(Holders(h)') =
                   IF h = g THEN Cardinality(Holders(h)) + 1 ELSE Cardinality(Holders(h))
    BY <1>3, <1>4, HolderAdded, HoldersFinite
  <2> QED BY <1>3, <1>4, <2>1 DEF StateInv, SharesAreCounted
<1>7. ActiveOnce' /\ ActiveIsExact'
  BY <1>3, NoneAssumption DEF StateInv, TypeOK, ActiveOnce, ActiveIsExact, Running
<1>8. TypeOK'
  <2>1. /\ strong' \in [Registrations -> Nat]
        /\ calls' \in [Workers -> 0..MaxCalls]
    BY <1>3, <1>4, MaxCallsAssumption DEF LookupHits, Call
  <2> QED BY <2>1 DEF StateInv, TypeOK, IdInv, IdTypes, LookupHits
<1> QED BY <1>5, <1>6, <1>7, <1>8 DEF StateInv

\* Within a call the worker keeps its share until the end.
LEMMA TrampolineKeepsState ==
    ASSUME StateInv, IdInv', NEW w \in Workers, Trampoline(w)
    PROVE  StateInv'
<1> USE DEF ownerVars
<1> DEFINE g == state[w]
<1>1. g \in Registrations /\ at[w] # "idle"
  BY NoneAssumption DEF StateInv, TypeOK, HeldWhileCalled, Trampoline, Move, SkipFailed,
         Validate, RecordInvalid, Enter, BodyEnds, RecordPanic, Leave, DropState
<1>2. /\ at \in [Workers -> Points]
      /\ state \in [Workers -> Registrations \cup {None}]
      /\ strong \in [Registrations -> Nat]
      /\ failure \in [Registrations -> Failures]
      /\ active_threads \in [Registrations -> Seq(Workers)]
  BY DEF StateInv, TypeOK, Points
<1>3. UNCHANGED <<ownerVars, LOGITS_PROCESSORS, calls>>
  BY DEF Trampoline, Move, SkipFailed, Validate, RecordInvalid, Enter, BodyEnds,
         RecordPanic, Leave, DropState
<1>4. failure' \in [Registrations -> Failures]
  BY <1>2 DEF Failures, Trampoline, SkipFailed, Validate, RecordInvalid,
         record_failure, Enter, BodyEnds, RecordPanic, Leave, DropState
<1>5. CASE DropState(w)
  <2>1. /\ at' = [at EXCEPT ![w] = "idle"] /\ at[w] = "drop"
        /\ state' = [state EXCEPT ![w] = None]
        /\ strong' = [strong EXCEPT ![g] = @ - 1]
        /\ UNCHANGED <<owner, active_threads>>
    BY <1>3, <1>5 DEF DropState, Move
  <2>2. HeldWhileCalled'
    BY <2>1, NoneAssumption DEF StateInv, TypeOK, HeldWhileCalled
  <2>3. SharesAreCounted'
    <3>1. \A h \in Registrations :
              /\ Cardinality(Holders(h)) \in Nat
              /\ Cardinality(Holders(h)') =
                     IF h = g THEN Cardinality(Holders(h)) - 1 ELSE Cardinality(Holders(h))
      BY <1>1, <1>2, <2>1, HolderRemoved, HoldersFinite
    <3> QED BY <1>1, <1>2, <2>1, <3>1 DEF StateInv, SharesAreCounted
  <2>4. ActiveOnce' /\ ActiveIsExact'
    BY <2>1, NoneAssumption DEF StateInv, TypeOK, ActiveOnce, ActiveIsExact, Running
  <2>5. strong' \in [Registrations -> Nat]
    <3>1. w \in Holders(g)
      BY DEF Holders
    <3>2. Cardinality(Holders(g)) # 0
      BY <3>1, HoldersFinite, FS_EmptySet
    <3>3. Cardinality(Holders(g)) \in Nat /\ strong[g] >= Cardinality(Holders(g))
      BY <1>1, HoldersFinite DEF StateInv, SharesAreCounted
    <3>4. strong[g] \in Nat /\ strong[g] - 1 \in Nat
      BY <1>1, <1>2, <3>2, <3>3
    <3> HIDE DEF g
    <3> QED BY <1>2, <2>1, <3>4
  <2>6. TypeOK'
    BY <1>3, <1>4, <2>1, <2>5 DEF StateInv, TypeOK, IdInv, IdTypes
  <2> QED BY <2>2, <2>3, <2>4, <2>6 DEF StateInv
<1>6. CASE ~DropState(w)
  <2>1. /\ UNCHANGED <<owner, state, strong>>
        /\ \E to \in Points \ {"idle"} : at' = [at EXCEPT ![w] = to]
    BY <1>3, <1>6 DEF Trampoline, Move, SkipFailed, Validate, RecordInvalid, Enter,
                      BodyEnds, RecordPanic, Leave, Points
  <2>2. HeldWhileCalled'
    BY <1>1, <2>1 DEF StateInv, TypeOK, HeldWhileCalled
  <2>3. SharesAreCounted'
    BY <2>1 DEF StateInv, SharesAreCounted, Holders
  <2>4. ActiveOnce' /\ ActiveIsExact' /\ active_threads' \in [Registrations -> Seq(Workers)]
    <3>1. CASE Enter(w)
      <4>1. /\ at[w] = "enter" /\ at' = [at EXCEPT ![w] = "body"]
            /\ active_threads' = [active_threads EXCEPT ![g] = Append(@, w)]
        BY <3>1 DEF Enter, Move
      <4>2. \A i \in 1..Len(active_threads[g]) : active_threads[g][i] # w
        BY <1>1, <4>1 DEF StateInv, ActiveIsExact, Running
      <4> QED
        BY <1>1, <1>2, <2>1, <4>1, <4>2 DEF StateInv, ActiveOnce, ActiveIsExact, Running
    <3>2. CASE Leave(w)
      <4>1. /\ at[w] = "leave" /\ at' = [at EXCEPT ![w] = "drop"]
            /\ active_threads' = [active_threads EXCEPT ![g] = swap_remove(@, w)]
        BY <3>2 DEF Leave, Move
      <4>2. PICK k \in 1..Len(active_threads[g]) : active_threads[g][k] = w
        BY <1>1, <4>1 DEF StateInv, ActiveIsExact, Running
      <4> DEFINE rest == swap_remove(active_threads[g], w)
      <4>3. /\ rest \in Seq(Workers)
            /\ \A i, j \in 1..Len(rest) : rest[i] = rest[j] => i = j
            /\ \A v \in Workers :
                   (\E i \in 1..Len(rest) : rest[i] = v)
                       <=> v # w /\ \E i \in 1..Len(active_threads[g]) :
                                        active_threads[g][i] = v
        <5> DEFINE threads == active_threads[g]
        <5>1. /\ threads \in Seq(Workers) /\ k \in 1..Len(threads) /\ threads[k] = w
              /\ \A i, j \in 1..Len(threads) : threads[i] = threads[j] => i = j
          BY <1>1, <1>2, <4>2 DEF StateInv, ActiveOnce
        <5> HIDE DEF threads
        <5> QED BY <5>1, SwapRemove DEF threads
      <4> HIDE DEF rest
      <4>4. active_threads' = [active_threads EXCEPT ![g] = rest]
        BY <4>1 DEF rest
      <4> QED
        <5>1. active_threads' \in [Registrations -> Seq(Workers)]
          BY <1>2, <4>3, <4>4
        <5>2. ActiveOnce'
          BY <1>1, <1>2, <4>3, <4>4 DEF StateInv, ActiveOnce
        <5>3. ASSUME NEW h \in Registrations, NEW v \in Workers
              PROVE  Running(v, h)' <=> \E i \in 1..Len(active_threads'[h]) :
                                            active_threads'[h][i] = v
          <6>1. CASE h = g
            <7>1. active_threads'[h] = rest
              BY <1>1, <1>2, <4>4, <6>1
            <7>2. Running(v, h)' <=> v # w /\ Running(v, h)
              BY <1>2, <2>1, <4>1, <6>1 DEF Running
            <7>3. Running(v, h) <=> \E i \in 1..Len(active_threads[h]) :
                                        active_threads[h][i] = v
              BY DEF StateInv, ActiveIsExact
            <7> QED BY <4>3, <6>1, <7>1, <7>2, <7>3
          <6>2. CASE h # g
            BY <1>1, <1>2, <2>1, <4>1, <4>4, <6>2 DEF StateInv, ActiveIsExact, Running
          <6> QED BY <6>1, <6>2
        <5> QED BY <5>1, <5>2, <5>3 DEF ActiveIsExact
    <3>3. CASE ~Enter(w) /\ ~Leave(w)
      <4>1. /\ UNCHANGED active_threads
            /\ \E to \in Points : at' = [at EXCEPT ![w] = to]
            /\ at'[w] \in {"body", "panic", "leave"} <=> at[w] \in {"body", "panic", "leave"}
        BY <1>6, <3>3 DEF StateInv, TypeOK, Trampoline, Move, SkipFailed, Validate,
                   RecordInvalid, BodyEnds, RecordPanic, Points
      <4> QED
        BY <2>1, <4>1 DEF StateInv, TypeOK, ActiveOnce, ActiveIsExact, Running
    <3> QED BY <3>1, <3>2, <3>3
  <2>5. TypeOK'
    BY <1>3, <1>4, <2>1, <2>4 DEF StateInv, TypeOK, IdInv, IdTypes
  <2> QED BY <2>2, <2>3, <2>4, <2>5 DEF StateInv
<1> QED BY <1>5, <1>6

\* Every step keeps the counts and the active threads right.
LEMMA StateStep == ASSUME StateInv, [Next]_vars PROVE StateInv'
<1>1. IdInv'
  BY IdStep DEF StateInv
<1>2. ASSUME NEW w \in Workers, NEW g \in Registrations, LookupMisses(w, g)
      PROVE  StateInv'
  <2>1. /\ calls' \in [Workers -> 0..MaxCalls]
        /\ UNCHANGED <<ownerVars, LOGITS_PROCESSORS, strong, failure, active_threads, at,
                       user_data, state>>
    BY <1>2, MaxCallsAssumption DEF LookupMisses, Call, StateInv, TypeOK
  <2>2. TypeOK'
    BY <2>1 DEF StateInv, TypeOK, ownerVars
  <2>3. HeldWhileCalled' /\ SharesAreCounted'
    BY <2>1 DEF StateInv, HeldWhileCalled, SharesAreCounted, Holders, ownerVars
  <2>4. ActiveOnce' /\ ActiveIsExact'
    BY <2>1 DEF StateInv, ActiveOnce, ActiveIsExact, Running
  <2> QED BY <1>1, <2>2, <2>3, <2>4 DEF StateInv
<1>3. ASSUME UNCHANGED vars
      PROVE  StateInv'
  BY <1>1, <1>3 DEF vars, ownerVars, workerVars, StateInv, TypeOK, HeldWhileCalled,
                    SharesAreCounted, Holders, ActiveOnce, ActiveIsExact, Running
<1> QED
  BY <1>1, <1>2, <1>3, OwnerKeepsState, LookupKeepsState, TrampolineKeepsState
     DEF Next, Finished

\* Shares and active threads are right throughout.
THEOREM StateInvariant == Spec => []StateInv
<1>1. StateInv /\ [Next]_vars => StateInv'
  BY StateStep
<1> QED BY StateInit, <1>1, PTL DEF Spec

\* Every behaviour stays within its types: the counter never passes usize::MAX
\* (checked_add) and no strong count falls below zero.
THEOREM TypeCorrect == Spec => []TypeOK
<1>1. StateInv => TypeOK
  BY DEF StateInv
<1> QED BY StateInvariant, <1>1, PTL

\* Every strong count is the number of its owners.
THEOREM CountsAreExact == Spec => []SharesAreCounted
<1>1. StateInv => SharesAreCounted
  BY DEF StateInv
<1> QED BY StateInvariant, <1>1, PTL

\* No call uses a state that has been destroyed.
THEOREM StatesOutliveCalls == Spec => []StateOutlivesCall
<1>1. ASSUME StateInv, NEW w \in Workers, at[w] # "idle"
      PROVE  strong[state[w]] > 0
  <2>1. state[w] \in Registrations /\ w \in Holders(state[w])
    BY <1>1 DEF StateInv, TypeOK, HeldWhileCalled, Holders
  <2>2. Cardinality(Holders(state[w])) > 0
    BY <2>1, HoldersFinite, FS_EmptySet
  <2>3. strong[state[w]] >= Cardinality(Holders(state[w]))
    BY <1>1, <2>1, HoldersFinite DEF StateInv, SharesAreCounted
  <2> QED BY <1>1, <2>1, <2>2, <2>3, HoldersFinite DEF StateInv, TypeOK
<1>2. StateInv => StateOutlivesCall
  BY <1>1 DEF StateOutlivesCall
<1> QED BY StateInvariant, <1>2, PTL

\* is_active_on_current_thread answers truly at any moment, on any thread.
THEOREM ActiveThreadsAreExact == Spec => []ActiveIsExact
<1>1. StateInv => ActiveIsExact
  BY DEF StateInv
<1> QED BY StateInvariant, <1>1, PTL

\* A failure once recorded is never overwritten, whatever else fails in the processor
\* at the same time (record_failure).
THEOREM FirstFailureStays == Spec => FirstFailureWins
<1>1. ASSUME failure \in [Registrations -> Failures], [Next]_vars
      PROVE  \A g \in Registrations : failure[g] # "ok" => failure'[g] = failure[g]
  <2> USE DEF vars, ownerVars, workerVars
  <2>1. CASE \E w \in Workers : RecordInvalid(w) \/ RecordPanic(w)
    <3>1. PICK w \in Workers, kind \in Failures : record_failure(state[w], kind)
      BY <2>1 DEF RecordInvalid, RecordPanic, Failures
    <3> QED BY <1>1, <3>1 DEF record_failure
  <2>2. CASE failure' = failure
    BY <2>2
  <2>3. (\E w \in Workers : RecordInvalid(w) \/ RecordPanic(w)) \/ failure' = failure
    BY <1>1 DEF Next, Owner, Trampoline, Finished, LoadId, AbortOnOverflow, RetryClaim,
         ClaimId, Insert, Unregister, DropRegistration, LookupMisses, LookupHits,
         SkipFailed, Validate, Enter, BodyEnds, Leave, DropState
  <2> QED BY <2>1, <2>2, <2>3
<1>2. TypeOK /\ [Next]_vars =>
          [\A g \in Registrations : failure[g] # "ok" => failure'[g] = failure[g]]_vars
  BY <1>1 DEF TypeOK
<1> QED BY <1>2, TypeCorrect, PTL DEF Spec, FirstFailureWins
=============================================================================
