-------------------------- MODULE RequestOwnership --------------------------
(***************************************************************************)
(* What requests and engines promise their users (vllm-cpp/src/request.rs,  *)
(* engine.rs), without threads, callbacks or the reaper.                    *)
(*                                                                          *)
(* A submitted request is held by the application until it is closed, and   *)
(* is gone only after its native request is over.  The engine is there for  *)
(* every native request, and for every request that is not gone; it is freed *)
(* once, when the last of them and the last Engine clone have left it.      *)
(***************************************************************************)
CONSTANTS
    Requests,   \* requests
    Callers     \* owners of an Engine clone at the beginning

VARIABLES
    handle,   \* "none", "refused", "held", "closing" or "gone"
    native,   \* the native request: "none", "running" or "over"
    clones,   \* the owners of an Engine clone
    engine    \* "live", "freeing" or "freed"

vars == <<handle, native, clones, engine>>

TypeOK ==
    /\ handle \in [Requests -> {"none", "refused", "held", "closing", "gone"}]
    /\ native \in [Requests -> {"none", "running", "over"}]
    /\ clones \subseteq Callers
    /\ engine \in {"live", "freeing", "freed"}

Init ==
    /\ handle = [r \in Requests |-> "none"]
    /\ native = [r \in Requests |-> "none"]
    /\ clones = Callers
    /\ engine = "live"

-----------------------------------------------------------------------------
InUse == clones # {} \/ \E r \in Requests : handle[r] \in {"held", "closing"}

\* Whoever leaves the engine unused starts to free it.
FreeIfUnused == engine' = IF InUse' THEN engine ELSE "freeing"

\* Engine::submit.
Submit(r) ==
    /\ handle[r] = "none" /\ clones # {}
    /\ handle' = [handle EXCEPT ![r] = "held"]
    /\ native' = [native EXCEPT ![r] = "running"]
    /\ UNCHANGED <<clones, engine>>

Refuse(r) ==
    /\ handle[r] = "none" /\ clones # {}
    /\ handle' = [handle EXCEPT ![r] = "refused"]
    /\ UNCHANGED <<native, clones, engine>>

\* Native code has nothing more to deliver.
End(r) ==
    /\ native[r] = "running"
    /\ native' = [native EXCEPT ![r] = "over"]
    /\ UNCHANGED <<handle, clones, engine>>

\* Request is dropped; its cleanup may have to wait for the native request.
Close(r) ==
    /\ handle[r] = "held"
    /\ handle' = [handle EXCEPT ![r] = "closing"]
    /\ UNCHANGED <<native, clones, engine>>

\* All that the request owned is released, its share of the engine last.
Release(r) ==
    /\ handle[r] = "closing" /\ native[r] = "over"
    /\ handle' = [handle EXCEPT ![r] = "gone"]
    /\ FreeIfUnused
    /\ UNCHANGED <<native, clones>>

DropClone(c) ==
    /\ c \in clones
    /\ clones' = clones \ {c}
    /\ FreeIfUnused
    /\ UNCHANGED <<handle, native>>

EngineFreed ==
    /\ engine = "freeing"
    /\ engine' = "freed"
    /\ UNCHANGED <<handle, native, clones>>

Next ==
    \/ \E r \in Requests : Submit(r) \/ Refuse(r) \/ End(r) \/ Close(r) \/ Release(r)
    \/ \E c \in Callers : DropClone(c)
    \/ EngineFreed

Spec == Init /\ [][Next]_vars

\* A native request runs only for a request that is not gone, and the engine is live
\* as long as anything uses it: a free that has begun is never too early (the order of
\* drops in CleanupJob::cleanup_now).
Promise ==
    /\ \A r \in Requests : native[r] = "running" => handle[r] \in {"held", "closing"}
    /\ InUse => engine = "live"
=============================================================================
