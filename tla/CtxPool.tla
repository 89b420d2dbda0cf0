------------------------------ MODULE CtxPool ------------------------------
(***************************************************************************)
(* The context pools of the Kokoro and Matcha TensorRT backends            *)
(* (backends/jetson/kokoro_trt.py, matcha_trt.py): K slots, each with its  *)
(* execution contexts and its own CudaMemoryPool (_util.py), handed out    *)
(* through a queue to concurrent synthesis calls, built by preload and     *)
(* destroyed by unload, none of it under a lock.                           *)
(*                                                                         *)
(* A slot is its number in order of creation.  Slot[k] is its memory:      *)
(* unborn, none (no arena on the device), clean or dirty.                  *)
(***************************************************************************)
EXTENDS Naturals, Sequences, Functions

CONSTANTS
    Request,        \* threads that synthesize
    K,              \* stream_max_workers
    MaxSlot         \* bound: slots ever created

VARIABLES
    kind,           \* "kokoro" or "matcha"
    slots,          \* _slots, in order
    ctxPool,        \* _ctx_pool
    memory,         \* the CudaMemoryPool of each slot
    destroyed,      \* slots whose contexts have been dropped
    request,        \* where each call is, and the slot it holds
    builder,        \* what the thread that loads and unloads is doing
    poolReady,      \* _ready
    careless        \* history: unload began beside a call, or preload over slots

ctxPoolVars == <<kind, slots, ctxPool, memory, destroyed, request, builder, poolReady, careless>>

Slot    == 1 .. MaxSlot
Outside == [pc |-> "idle", slot |-> 0]
InPool  == Range(ctxPool)
Held    == {request[r].slot : r \in {q \in Request : request[q].pc = "running"}}
Idle    == \A r \in Request : request[r].pc = "idle"

Init ==
    /\ kind \in {"kokoro", "matcha"}
    /\ slots = <<>> /\ ctxPool = <<>> /\ destroyed = {}
    /\ memory = [s \in Slot |-> "unborn"]
    /\ request = [r \in Request |-> Outside]
    /\ builder = "idle" /\ poolReady = FALSE /\ careless = FALSE

(***************************************************************************)
(* A synthesis call.                                                       *)
(***************************************************************************)
\* It looks whether there are slots.  Without any, Matcha makes contexts and a
\* pool of its own for the call and Kokoro runs without (and fails, on a
\* TensorRT mode): neither touches the shared state.
Begin(r) ==
    /\ request[r].pc = "idle" /\ slots # <<>>
    /\ request' = [request EXCEPT ![r].pc = "waiting"]
    /\ UNCHANGED <<kind, slots, ctxPool, memory, destroyed, builder, poolReady, careless>>

\* Queue.get, without a timeout.
GetSlot(r) ==
    /\ request[r].pc = "waiting" /\ ctxPool # <<>>
    /\ request' = [request EXCEPT ![r] = [pc |-> "running", slot |-> Head(ctxPool)]]
    /\ ctxPool' = Tail(ctxPool)
    /\ UNCHANGED <<kind, slots, memory, destroyed, builder, poolReady, careless>>

\* The contexts of its slot are running.
OnEngines(r) == request[r].pc = "running"

\* The first allocation makes the stream and the arena, also after a destroy.
Allocated(m) == "dirty"

Allocate(r) ==
    /\ OnEngines(r) /\ memory[request[r].slot] # "dirty"
    /\ memory' = [memory EXCEPT ![request[r].slot] = Allocated(@)]
    /\ UNCHANGED <<kind, slots, ctxPool, destroyed, request, builder, poolReady, careless>>

\* reset_per_request: free_all rewinds the arena and keeps it.
FreeAll(m) == IF m = "dirty" THEN "clean" ELSE m

\* Success and failure alike go through the finally arm.
Finish(r) ==
    /\ OnEngines(r)
    /\ memory' = [memory EXCEPT ![request[r].slot] = FreeAll(@)]
    /\ ctxPool' = Append(ctxPool, request[r].slot)
    /\ request' = [request EXCEPT ![r] = Outside]
    /\ UNCHANGED <<kind, slots, destroyed, builder, poolReady, careless>>

(***************************************************************************)
(* preload.                                                                *)
(***************************************************************************)
\* Only Kokoro empties the queue before it builds the slots.
StartBuild ==
    /\ slots' = <<>>
    /\ ctxPool' = IF kind = "kokoro" THEN <<>> ELSE ctxPool

Preload ==
    /\ builder = "idle"
    /\ StartBuild /\ builder' = "building"
    /\ careless' = (careless \/ slots # <<>>)
    /\ UNCHANGED <<kind, memory, destroyed, request, poolReady>>

AddSlot ==
    /\ builder \in {"building", "rebuilding"} /\ Len(slots) < K
    /\ \E s \in Slot :
          /\ memory[s] = "unborn" /\ \A t \in Slot : t < s => memory[t] # "unborn"
          /\ memory' = [memory EXCEPT ![s] = "none"]
          /\ slots' = Append(slots, s) /\ ctxPool' = Append(ctxPool, s)
    /\ UNCHANGED <<kind, destroyed, request, builder, poolReady, careless>>

\* A context that cannot be created ends preload with the slots it has.
BuildFails ==
    /\ builder \in {"building", "rebuilding"} /\ builder' = "idle"
    /\ UNCHANGED <<kind, slots, ctxPool, memory, destroyed, request, poolReady, careless>>

WarmedUp ==
    /\ builder \in {"building", "rebuilding"} /\ Len(slots) = K
    /\ builder' = "idle" /\ poolReady' = TRUE
    /\ UNCHANGED <<kind, slots, ctxPool, memory, destroyed, request, careless>>

\* Queue drained, then every slot destroyed: stream, arena and contexts.
Drained == ctxPool' = <<>>

\* Mutant of Destroyed: the contexts go, the arenas stay.
ContextsOnly == destroyed' = destroyed \cup Range(slots) /\ UNCHANGED memory

\* CudaMemoryPool.destroy: overflow, arena and stream are given back.
Dropped(m) == "none"

Destroyed ==
    /\ memory' = [s \in Slot |-> IF s \in Range(slots) THEN Dropped(memory[s]) ELSE memory[s]]
    /\ destroyed' = destroyed \cup Range(slots)

\* Kokoro on a full engine falls back to the CPU: it tears the pool down and
\* builds it again.  Every other failed warm-up leaves the slots in place.
WarmupFails ==
    /\ builder = "building" /\ Len(slots) = K
    /\ \/ /\ kind = "kokoro" /\ builder' = "falling back"
          /\ Drained /\ careless' = (careless \/ ~Idle)
       \/ builder' = "idle" /\ UNCHANGED <<ctxPool, careless>>
    /\ UNCHANGED <<kind, slots, memory, destroyed, request, poolReady>>

FallBack ==
    /\ builder = "falling back" /\ builder' = "rebuilding"
    /\ Destroyed /\ StartBuild
    /\ UNCHANGED <<kind, request, poolReady, careless>>

(***************************************************************************)
(* unload.                                                                 *)
(***************************************************************************)
Unload ==
    /\ builder = "idle" /\ (poolReady \/ slots # <<>>)
    /\ Drained /\ builder' = "unloading"
    /\ careless' = (careless \/ ~Idle)
    /\ UNCHANGED <<kind, slots, memory, destroyed, request, poolReady>>

DestroySlots ==
    /\ builder = "unloading" /\ builder' = "idle"
    /\ Destroyed /\ slots' = <<>> /\ poolReady' = FALSE
    /\ careless' = (careless \/ ~Idle)
    /\ UNCHANGED <<kind, ctxPool, request>>

Next ==
    \/ \E r \in Request : Begin(r) \/ GetSlot(r) \/ Allocate(r) \/ Finish(r)
    \/ Preload \/ AddSlot \/ BuildFails \/ WarmedUp \/ WarmupFails \/ FallBack
    \/ Unload \/ DestroySlots

Spec == Init /\ [][Next]_ctxPoolVars

(***************************************************************************)
(* Properties.                                                             *)
(***************************************************************************)
\* Two calls never share a slot, whatever unload and preload do beside them.
SlotsAreExclusive ==
    /\ IsInjective(ctxPool)
    /\ \A r \in Request : request[r].pc = "running" => request[r].slot \notin InPool
    /\ \A r, q \in Request : request[r].pc = "running" /\ request[q].pc = "running"
                                /\ request[r].slot = request[q].slot => r = q

\* As long as nothing unloads beside a call or preloads over slots that are
\* still there, every slot of a loaded backend is intact and at hand, and an
\* unloaded backend holds no memory of the device.
PoolIsWhole ==
    ~careless =>
        /\ poolReady /\ builder = "idle" =>
              /\ InPool \cup Held = Range(slots) /\ Len(slots) = K
              /\ destroyed \cap Range(slots) = {}
        /\ slots = <<>> => \A s \in Slot : memory[s] \in {"unborn", "none"}

\* Both: the contract of the pool.
PoolIsSafe == SlotsAreExclusive /\ PoolIsWhole
=============================================================================
