------------------------------- MODULE RkTts -------------------------------
(***************************************************************************)
(* The lifecycle lock of the RK TTS backend (backends/rk/tts.py): one      *)
(* non-reentrant lock held for a whole synthesis call, for the life of a   *)
(* streaming iterator, and by preload and unload, around one native owner    *)
(* (_inner) whose teardown may fail.                                       *)
(*                                                                         *)
(* An owner is its number 1 .. MaxOwner in order of creation; 0 is None.   *)
(***************************************************************************)
EXTENDS Naturals

CONSTANTS
    RkCaller,       \* threads that synthesize, load, unload or ask for status
    NoRkCaller,     \* the holder of the free lock
    MaxOwner        \* bound: owners ever created

VARIABLES
    rkOwner,        \* state of each native owner
    rkInner,        \* _inner
    lifecycleFailed,\* _lifecycle_failed
    lifecycleLock,  \* the holder of _lifecycle_lock
    cachedReady,    \* "ready" of _runtime_info_cache
    rkCall,         \* the call each thread is in, and the owner it borrows
    status          \* the last runtime_info that said ready: what it rests on

rkTtsVars == <<rkOwner, rkInner, lifecycleFailed, lifecycleLock, cachedReady, rkCall, status>>

Owner == 1 .. MaxOwner
Out   == [op |-> "none", borrows |-> 0]

Init ==
    /\ rkOwner = [o \in Owner |-> "unborn"]
    /\ rkInner = 0 /\ lifecycleFailed = FALSE /\ lifecycleLock = NoRkCaller
    /\ cachedReady = FALSE /\ rkCall = [c \in RkCaller |-> Out] /\ status = "none"

Usable == rkInner # 0 /\ ~lifecycleFailed
In(c, op) == rkCall[c].op = op
Enter(c, op, o) == /\ lifecycleLock = NoRkCaller /\ In(c, "none")
                   /\ lifecycleLock' = c
                   /\ rkCall' = [rkCall EXCEPT ![c] = [op |-> op, borrows |-> o]]
Leave(c) == /\ lifecycleLock' = NoRkCaller
            /\ rkCall' = [rkCall EXCEPT ![c] = Out]

(***************************************************************************)
(* preload and unload.                                                     *)
(***************************************************************************)
\* _ensure_inner creates an owner only when there is none; creation may raise.
BeginPreload(c) ==
    /\ ~lifecycleFailed
    /\ \E o \in IF rkInner # 0 THEN {rkInner}
                ELSE {n \in Owner : rkOwner[n] = "unborn" /\ \A m \in Owner : m < n => rkOwner[m] # "unborn"} :
          /\ Enter(c, "preload", o)
          /\ rkInner' = o
          /\ rkOwner' = [rkOwner EXCEPT ![o] = IF rkInner = 0 THEN "created" ELSE @]
    /\ UNCHANGED <<lifecycleFailed, cachedReady, status>>

PreloadDone(c) ==
    /\ In(c, "preload") /\ Leave(c)
    /\ rkOwner' = [rkOwner EXCEPT ![rkInner] = "ready"]
    /\ cachedReady' = TRUE
    /\ UNCHANGED <<rkInner, lifecycleFailed, status>>

\* Mutant of Teardown: the owner is dropped whether its hook raised or not.
TeardownDrops(works) ==
    /\ rkOwner' = [rkOwner EXCEPT ![rkInner] = IF works THEN "gone" ELSE "broken"]
    /\ lifecycleFailed' = ~works /\ rkInner' = 0

\* The one teardown hook of the owner; when it raises, the owner is kept.
Teardown(works) ==
    /\ rkOwner' = [rkOwner EXCEPT ![rkInner] = IF works THEN "gone" ELSE "broken"]
    /\ lifecycleFailed' = ~works
    /\ rkInner' = IF works THEN 0 ELSE rkInner

\* The cached status is left as it was, also when the owner is gone.
PreloadFails(c) ==
    /\ In(c, "preload") /\ Leave(c)
    /\ \E works \in BOOLEAN : Teardown(works)
    /\ UNCHANGED <<cachedReady, status>>

BeginUnload(c) ==
    /\ rkInner # 0
    /\ Enter(c, "unload", 0)
    /\ UNCHANGED <<rkOwner, rkInner, lifecycleFailed, cachedReady, status>>

UnloadDone(c) ==
    /\ In(c, "unload") /\ Leave(c)
    /\ Teardown(TRUE) /\ cachedReady' = FALSE
    /\ UNCHANGED status

UnloadFails(c) ==
    /\ In(c, "unload") /\ Leave(c)
    /\ Teardown(FALSE)
    /\ UNCHANGED <<cachedReady, status>>

(***************************************************************************)
(* A synthesis takes the lock for the call, a stream from its first chunk  *)
(* until it is exhausted or closed (by whichever thread closes it).        *)
(***************************************************************************)
BeginSynthesis(c) ==
    /\ Usable
    /\ \E op \in {"synthesize", "stream"} : Enter(c, op, rkInner)
    /\ UNCHANGED <<rkOwner, rkInner, lifecycleFailed, cachedReady, status>>

EndSynthesis(c) ==
    /\ In(c, "synthesize") \/ In(c, "stream")
    /\ Leave(c)
    /\ UNCHANGED <<rkOwner, rkInner, lifecycleFailed, cachedReady, status>>

(***************************************************************************)
(* runtime_info never waits: without the lock it answers from the cache.   *)
(***************************************************************************)
Reported(ready) == IF ready /\ Usable THEN rkOwner[rkInner] ELSE "none"

AskBusy ==
    /\ lifecycleLock # NoRkCaller
    /\ status' = Reported(cachedReady)
    /\ UNCHANGED <<rkOwner, rkInner, lifecycleFailed, lifecycleLock, cachedReady, rkCall>>

\* With the lock it refreshes the cache, when there is an owner to ask.
AskFree ==
    /\ lifecycleLock = NoRkCaller
    /\ cachedReady' = IF rkInner # 0 THEN rkOwner[rkInner] = "ready" ELSE cachedReady
    /\ status' = Reported(cachedReady')
    /\ UNCHANGED <<rkOwner, rkInner, lifecycleFailed, lifecycleLock, rkCall>>

Next ==
    \/ \E c \in RkCaller :
          \/ BeginPreload(c) \/ PreloadDone(c) \/ PreloadFails(c)
          \/ BeginUnload(c) \/ UnloadDone(c) \/ UnloadFails(c)
          \/ BeginSynthesis(c) \/ EndSynthesis(c)
    \/ AskBusy \/ AskFree

Spec == Init /\ [][Next]_rkTtsVars

(***************************************************************************)
(* Properties.                                                             *)
(***************************************************************************)
\* Nobody speaks through an owner that is not ready.
BorrowedIsReady ==
    \A c \in RkCaller : rkCall[c].op \in {"synthesize", "stream"} =>
        rkOwner[rkCall[c].borrows] = "ready" /\ rkInner = rkCall[c].borrows

\* A native owner stays the backend's until its teardown has succeeded, so that
\* a failed unload can be retried and no owner is ever lost or doubled.
OwnersAreKept == \A o \in Owner : rkOwner[o] \in {"created", "ready", "broken"} => rkInner = o

\* An owner whose teardown failed is never reported ready, fresh or from the cache.
BrokenIsNotReady == status # "broken"

\* The three together: the contract of the lifecycle lock.
RkOwnerSafe == BorrowedIsReady /\ OwnersAreKept /\ BrokenIsNotReady
=============================================================================
