--------------------------- MODULE LogitsRegistry ---------------------------
(***************************************************************************)
(* The process-wide registry of logits processors and the trampoline that   *)
(* native workers call (vllm-cpp/src/params.rs).                            *)
(*                                                                          *)
(* Native code is given an integer, never a pointer: a registration claims  *)
(* an id from an atomic counter and files a Weak reference under it.  The   *)
(* trampoline upgrades what it finds there, so a call that native code makes *)
(* too late finds nothing.  Registrations are made and dropped concurrently, *)
(* each on a thread of its own, while any worker may call any of them.       *)
(***************************************************************************)
EXTENDS Naturals, Sequences, FiniteSets, SequencesExt

CONSTANTS
    Registrations,  \* LogitsProcessorRegistration values ever created
    Workers,        \* native threads that call the trampoline
    None,           \* what a worker outside a call refers to
    MaxId,          \* usize::MAX, scaled down
    MaxCalls        \* bound: trampoline calls per worker

ASSUME WorkersAssumption == IsFiniteSet(Workers)
ASSUME NoneAssumption == None \notin Registrations
ASSUME MaxIdAssumption == MaxId \in Nat \ {0}
ASSUME MaxCallsAssumption == MaxCalls \in Nat

VARIABLES
    process,            \* "running" or "aborted"
    NEXT_PROCESSOR_ID,
    LOGITS_PROCESSORS,  \* the registry: sets of <<id, registration>> entries
    owner,              \* progress of a registration's owner
    id,                 \* the id it last read, and claims
    strong,             \* strong count of its Arc<LogitsProcessorState>
    failure,            \* its failure cell
    active_threads,     \* its Vec<ThreadId>
    at,                 \* progress of a worker's call
    user_data,          \* the registration whose id native code passed
    state,              \* the registration whose state the worker holds
    calls               \* calls a worker has made

ownerVars == <<process, NEXT_PROCESSOR_ID, owner, id>>
workerVars == <<at, user_data, state, calls>>
vars == <<ownerVars, LOGITS_PROCESSORS, strong, failure, active_threads, workerVars>>

Failures == {"ok", "panicked", "invalid"}

TypeOK ==
    /\ process \in {"running", "aborted"}
    /\ NEXT_PROCESSOR_ID \in 1..MaxId
    /\ LOGITS_PROCESSORS \subseteq (1..MaxId) \X Registrations
    /\ owner \in [Registrations -> {"new", "claim", "insert", "live", "remove", "dropped"}]
    /\ id \in [Registrations -> 0..MaxId]
    /\ strong \in [Registrations -> Nat]
    /\ failure \in [Registrations -> Failures]
    /\ active_threads \in [Registrations -> Seq(Workers)]
    /\ at \in [Workers -> {"idle", "held", "enter", "body", "reject", "panic", "leave", "drop"}]
    /\ user_data \in [Workers -> Registrations \cup {None}]
    /\ state \in [Workers -> Registrations \cup {None}]
    /\ calls \in [Workers -> 0..MaxCalls]

Init ==
    /\ process = "running"
    /\ NEXT_PROCESSOR_ID = 1
    /\ LOGITS_PROCESSORS = {}
    /\ owner = [g \in Registrations |-> "new"]
    /\ id = [g \in Registrations |-> 0]
    /\ strong = [g \in Registrations |-> 0]
    /\ failure = [g \in Registrations |-> "ok"]
    /\ active_threads = [g \in Registrations |-> <<>>]
    /\ at = [w \in Workers |-> "idle"]
    /\ user_data = [w \in Workers |-> None]
    /\ state = [w \in Workers |-> None]
    /\ calls = [w \in Workers |-> 0]

-----------------------------------------------------------------------------
(* LogitsProcessorRegistration: new and Drop                                 *)

LoadId(g) ==
    /\ owner[g] = "new"
    /\ owner' = [owner EXCEPT ![g] = "claim"]
    /\ id' = [id EXCEPT ![g] = NEXT_PROCESSOR_ID]
    /\ UNCHANGED <<process, NEXT_PROCESSOR_ID, LOGITS_PROCESSORS, strong, failure,
                   active_threads, workerVars>>

checked_add_overflows(g) == id[g] = MaxId

\* checked_add overflows: the process aborts rather than reuse an id.
AbortOnOverflow(g) ==
    /\ owner[g] = "claim" /\ checked_add_overflows(g)
    /\ process' = "aborted"
    /\ UNCHANGED <<NEXT_PROCESSOR_ID, owner, id, LOGITS_PROCESSORS, strong, failure,
                   active_threads, workerVars>>

\* compare_exchange_weak fails: the counter moved, or for no reason.
RetryClaim(g) ==
    /\ owner[g] = "claim" /\ ~checked_add_overflows(g)
    /\ id' = [id EXCEPT ![g] = NEXT_PROCESSOR_ID]
    /\ UNCHANGED <<process, NEXT_PROCESSOR_ID, owner, LOGITS_PROCESSORS, strong,
                   failure, active_threads, workerVars>>

\* Fault: the counter is stored without comparing.
claim_by_store(g) == TRUE
\* compare_exchange succeeds only if the counter still is what was read.
claim_succeeds(g) == NEXT_PROCESSOR_ID = id[g]

ClaimId(g) ==
    /\ owner[g] = "claim" /\ ~checked_add_overflows(g)
    /\ claim_succeeds(g)
    /\ NEXT_PROCESSOR_ID' = id[g] + 1
    /\ owner' = [owner EXCEPT ![g] = "insert"]
    /\ UNCHANGED <<process, id, LOGITS_PROCESSORS, strong, failure, active_threads,
                   workerVars>>

\* Fault: the registry keeps the state alive.
file_strong(g) == strong' = [strong EXCEPT ![g] = 2]
\* The registration holds the Arc; what is filed is Weak.
downgrade(g) == strong' = [strong EXCEPT ![g] = 1]

\* HashMap::insert replaces an entry of the same id.
Insert(g) ==
    /\ owner[g] = "insert"
    /\ LOGITS_PROCESSORS' =
           {entry \in LOGITS_PROCESSORS : entry[1] # id[g]} \cup {<<id[g], g>>}
    /\ downgrade(g)
    /\ owner' = [owner EXCEPT ![g] = "live"]
    /\ UNCHANGED <<process, NEXT_PROCESSOR_ID, id, failure, active_threads, workerVars>>

\* Fault: the entry is left for its Weak reference to expire.
leave_entry(g) == UNCHANGED LOGITS_PROCESSORS
remove_entry(g) ==
    LOGITS_PROCESSORS' = {entry \in LOGITS_PROCESSORS : entry[1] # id[g]}

\* Drop::drop removes the id.
Unregister(g) ==
    /\ owner[g] = "live"
    /\ remove_entry(g)
    /\ owner' = [owner EXCEPT ![g] = "remove"]
    /\ UNCHANGED <<process, NEXT_PROCESSOR_ID, id, strong, failure, active_threads,
                   workerVars>>

\* The fields of the registration are dropped after Drop::drop, its Arc with them.
DropRegistration(g) ==
    /\ owner[g] = "remove"
    /\ strong' = [strong EXCEPT ![g] = @ - 1]
    /\ owner' = [owner EXCEPT ![g] = "dropped"]
    /\ UNCHANGED <<process, NEXT_PROCESSOR_ID, id, LOGITS_PROCESSORS, failure,
                   active_threads, workerVars>>

-----------------------------------------------------------------------------
(* logits_processor_trampoline                                               *)

\* What an id leads to: the registrations filed under it that are still alive.
registered_logits_processor(i) ==
    {g \in Registrations : <<i, g>> \in LOGITS_PROCESSORS /\ strong[g] > 0}

\* Native code calls with the id of a registration it was given, at any time.
Call(w, g) ==
    /\ at[w] = "idle"
    /\ owner[g] \notin {"new", "claim", "insert"}
    /\ calls[w] < MaxCalls
    /\ calls' = [calls EXCEPT ![w] = @ + 1]

\* Nothing is registered under the id: the call does nothing.
LookupMisses(w, g) ==
    /\ Call(w, g)
    /\ registered_logits_processor(id[g]) = {}
    /\ UNCHANGED <<ownerVars, LOGITS_PROCESSORS, strong, failure, active_threads, at,
                   user_data, state>>

\* Fault: the state is used without taking a share of it.
borrow_state(h) == UNCHANGED strong
upgrade(h) == strong' = [strong EXCEPT ![h] = @ + 1]

\* The lookup and the upgrade happen under the registry's lock.
LookupHits(w, g) ==
    /\ Call(w, g)
    /\ \E h \in registered_logits_processor(id[g]) :
           /\ upgrade(h)
           /\ state' = [state EXCEPT ![w] = h]
    /\ user_data' = [user_data EXCEPT ![w] = g]
    /\ at' = [at EXCEPT ![w] = "held"]
    /\ UNCHANGED <<ownerVars, LOGITS_PROCESSORS, failure, active_threads>>

\* A step of the call from one point to another, with no other effect on it.
Move(w, from, to) ==
    /\ at[w] = from
    /\ at' = [at EXCEPT ![w] = to]
    /\ UNCHANGED <<ownerVars, LOGITS_PROCESSORS, calls>>

\* After an earlier failure the processor is not called again.
SkipFailed(w) ==
    /\ Move(w, "held", "drop")
    /\ failure[state[w]] # "ok"
    /\ UNCHANGED <<strong, failure, active_threads, user_data, state>>

\* Pointers and lengths are validated: valid, or about to be recorded.
Validate(w, valid) ==
    /\ Move(w, "held", IF valid THEN "enter" ELSE "reject")
    /\ failure[state[w]] = "ok"
    /\ UNCHANGED <<strong, failure, active_threads, user_data, state>>

\* Fault: the failure is stored, whatever is recorded already.
store_failure(g, kind) == failure' = [failure EXCEPT ![g] = kind]
record_failure(g, kind) ==
    failure' = [failure EXCEPT ![g] = IF @ = "ok" THEN kind ELSE @]

RecordInvalid(w) ==
    /\ Move(w, "reject", "drop")
    /\ record_failure(state[w], "invalid")
    /\ UNCHANGED <<strong, active_threads, user_data, state>>

\* ActiveProcessorGuard::enter
Enter(w) ==
    /\ Move(w, "enter", "body")
    /\ active_threads' = [active_threads EXCEPT ![state[w]] = Append(@, w)]
    /\ UNCHANGED <<strong, failure, user_data, state>>

BodyEnds(w, panics) ==
    /\ Move(w, "body", IF panics THEN "panic" ELSE "leave")
    /\ UNCHANGED <<strong, failure, active_threads, user_data, state>>

RecordPanic(w) ==
    /\ Move(w, "panic", "leave")
    /\ record_failure(state[w], "panicked")
    /\ UNCHANGED <<strong, active_threads, user_data, state>>

\* Fault: the last entry is popped, whoever pushed it.
pop_last(threads, w) == IF threads = <<>> THEN threads ELSE Front(threads)

\* rposition, then swap_remove: the last entry takes the removed one's place.
swap_remove(threads, w) ==
    LET found == {i \in 1..Len(threads) : threads[i] = w}
        i == CHOOSE i \in found : \A j \in found : j <= i
    IN  IF found = {} THEN threads
        ELSE Front([threads EXCEPT ![i] = threads[Len(threads)]])

\* Drop for ActiveProcessorGuard
Leave(w) ==
    /\ Move(w, "leave", "drop")
    /\ active_threads' = [active_threads EXCEPT ![state[w]] = swap_remove(@, w)]
    /\ UNCHANGED <<strong, failure, user_data, state>>

\* The worker's share goes; it may be the last.
DropState(w) ==
    /\ Move(w, "drop", "idle")
    /\ strong' = [strong EXCEPT ![state[w]] = @ - 1]
    /\ user_data' = [user_data EXCEPT ![w] = None]
    /\ state' = [state EXCEPT ![w] = None]
    /\ UNCHANGED <<failure, active_threads>>

-----------------------------------------------------------------------------
Owner(g) ==
    \/ LoadId(g) \/ AbortOnOverflow(g) \/ RetryClaim(g) \/ ClaimId(g) \/ Insert(g)
    \/ Unregister(g) \/ DropRegistration(g)

Trampoline(w) ==
    \/ SkipFailed(w)
    \/ \E valid \in BOOLEAN : Validate(w, valid)
    \/ RecordInvalid(w) \/ Enter(w)
    \/ \E panics \in BOOLEAN : BodyEnds(w, panics)
    \/ RecordPanic(w) \/ Leave(w) \/ DropState(w)

\* Nothing is registered, or being registered, and every worker has returned.
Finished ==
    /\ \A g \in Registrations : owner[g] \in {"new", "dropped"}
    /\ \A w \in Workers : at[w] = "idle"
    /\ UNCHANGED vars

Next ==
    \/ /\ process = "running"
       /\ \/ \E g \in Registrations : Owner(g)
          \/ \E w \in Workers, g \in Registrations : LookupMisses(w, g) \/ LookupHits(w, g)
          \/ \E w \in Workers : Trampoline(w)
    \/ process = "aborted" /\ UNCHANGED vars
    \/ Finished

Spec == Init /\ [][Next]_vars

\* A call the native library has made returns.
FairSpec == Spec /\ \A w \in Workers : WF_vars(Trampoline(w))

-----------------------------------------------------------------------------
(* Properties                                                                *)

\* No two registrations ever claim the same id, a dropped one's included, and
\* however the claims interleave (LogitsProcessorRegistration::new).
Claimed(g) == owner[g] \notin {"new", "claim"}
IdsUnique ==
    \A g, h \in Registrations :
        Claimed(g) /\ Claimed(h) /\ id[g] = id[h] => g = h

\* A call runs the processor native code was given, never another request's:
\* ids of dropped registrations lead nowhere.
OwnProcessorOnly ==
    \A w \in Workers : at[w] # "idle" => state[w] = user_data[w]

\* The strong count of a state is the number of its owners: its registration, until
\* that is dropped, and the calls that upgraded the reference.  So no share is lost
\* and none is given up twice, on any path through the trampoline.
Holders(g) == {w \in Workers : state[w] = g}
SharesAreCounted ==
    \A g \in Registrations :
        strong[g] = Cardinality(Holders(g)) +
                        (IF owner[g] \in {"live", "remove"} THEN 1 ELSE 0)

\* The state a call uses is alive although its registration may be gone: the
\* upgraded Arc can be the final owner.
StateOutlivesCall ==
    \A w \in Workers : at[w] # "idle" => strong[state[w]] > 0

\* While a processor runs on a thread, and only then, that thread is recorded as
\* active; RequestLifecycle relies on it to tell where a request is dropped.
Running(w, g) == at[w] \in {"body", "panic", "leave"} /\ state[w] = g
ActiveIsExact ==
    \A g \in Registrations, w \in Workers :
        Running(w, g) <=> \E i \in 1..Len(active_threads[g]) : active_threads[g][i] = w

\* "stale native invocations after cleanup become no-ops": once its registration
\* has been removed no new call reaches a processor.
StaleCallsDoNothing ==
    [][\A w \in Workers :
           at[w] = "idle" /\ at'[w] # "idle" => owner[user_data'[w]] = "live"]_vars

\* The failure an owner can read is the first one recorded, even when calls on
\* several workers fail at once.
FirstFailureWins ==
    [][\A g \in Registrations : failure[g] # "ok" => failure'[g] = failure[g]]_vars

\* The user's captures are destroyed in the end: the last of the registration and
\* the calls still running lets the state go.
StateReleased ==
    \A g \in Registrations : owner[g] = "dropped" ~> strong[g] = 0
=============================================================================
