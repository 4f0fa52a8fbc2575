---------------------------- MODULE OTStackMutex ----------------------------
(***************************************************************************)
(* The OpenThread stack mutex of sl_ot_rtos_adaptation.c: one process-wide *)
(* CMSIS-RTOS2 mutex created with osMutexRecursive | osMutexPrioInherit    *)
(* and taken through sl_ot_rtos_acquire_stack_mutex (osWaitForever),       *)
(* sl_ot_rtos_try_acquire_stack_mutex (timeout 0) and                      *)
(* sl_ot_rtos_release_stack_mutex.  The wrappers ignore the osStatus_t     *)
(* result, so a call on the handle before osMutexNew has run, or a release *)
(* by a thread that does not own the mutex, returns an error and changes   *)
(* nothing.  The operators below are the state changes of one call; the   *)
(* blocking of osWaitForever is the enabling condition CanTake.            *)
(***************************************************************************)
EXTENDS Naturals

CONSTANTS None,      \* the owner of a free mutex
          MaxDepth   \* bound on the recursion count (a 32-bit counter in the RTOS)

VARIABLES created,   \* sli_ot_stack_mutex != NULL
          owner,     \* the owning thread, or None
          depth      \* recursion count of the owner

mutexVars == <<created, owner, depth>>

MutexInit == created = FALSE /\ owner = None /\ depth = 0

\* sl_ot_rtos_create_stack_mutex: osMutexNew
New == created' = TRUE /\ UNCHANGED <<owner, depth>>

\* t may take the mutex now: free, or already its own (osMutexRecursive)
CanTake(t) == created /\ owner \in {None, t} /\ depth < MaxDepth

\* t is blocked in osMutexAcquire(..., osWaitForever)
HeldByOther(t) == created /\ owner \notin {None, t}

Take(t) == /\ CanTake(t)
           /\ owner' = t
           /\ depth' = depth + 1
           /\ UNCHANGED created

\* sl_ot_rtos_acquire_stack_mutex: blocks while another thread owns the
\* mutex; on a NULL handle osMutexAcquire fails at once and the caller
\* proceeds without the lock.
Acquire(t) == \/ Take(t)
              \/ ~created /\ UNCHANGED mutexVars

\* sl_ot_rtos_try_acquire_stack_mutex returned true / false
TryAcquireOk(t)   == Take(t)
TryAcquireFail(t) == ~CanTake(t) /\ UNCHANGED mutexVars

\* sl_ot_rtos_release_stack_mutex: the owner decrements the recursion
\* count and frees the mutex at zero; any other caller gets an error.
Release(t) == \/ /\ created /\ owner = t
                 /\ depth' = depth - 1
                 /\ owner' = IF depth = 1 THEN None ELSE t
                 /\ UNCHANGED created
              \/ ~(created /\ owner = t) /\ UNCHANGED mutexVars
=============================================================================
