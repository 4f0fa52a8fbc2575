------------------------- MODULE MCOTRtosAdaptation -------------------------
(* Instantiation of OTRtosAdaptation for TLC.                              *)
EXTENDS OTRtosAdaptation

CONSTANTS a1  \* an application thread calling OpenThread API wrappers

MCApiThreads == {a1}

\* sl_openthread_rtos_config.h: stack 24, app 23, serial 16.  The init
\* thread runs sl_internal_app_init above them (osPriorityRealtime7); the
\* application thread runs between the serial and the stack task.
MCPrio == [t \in Threads |-> CASE t = Stack  -> 24
                               [] t = App    -> 23
                               [] t = Serial -> 16
                               [] t = Main   -> 55
                               [] OTHER      -> 20]

\* The same with the init thread at osPriorityNormal (24), the CMSIS
\* default for a thread created without attributes: equal to the stack
\* task, so the two are time-sliced.
MCPrioInitNormal == [t \in Threads |-> IF t = Main THEN 24 ELSE MCPrio[t]]

\* The application thread at osPriorityNormal (24), the CMSIS default,
\* equal to the stack task.
MCPrioApiNormal == [t \in Threads |-> IF t \in MCApiThreads THEN 24 ELSE MCPrio[t]]
=============================================================================
