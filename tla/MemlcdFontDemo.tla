--------------------------- MODULE MemlcdFontDemo ---------------------------
(***************************************************************************)
(* The memory-LCD transfer path and the font demo that drives it:          *)
(*   - sl_memlcd_draw / sl_memlcd_clear (sl_memlcd.c) frame a transfer     *)
(*     with the SCS pin: command, then each row followed by its 2-byte     *)
(*     trailer, then sli_memlcd_spi_wait (TXC) before SCS is cleared;      *)
(*   - sli_memlcd_spi_tx (src/sl_memlcd_spi.c) sends a buffer of more than *)
(*     4 bytes by start_spi_ldma_transfer while font_demo_on is set, and   *)
(*     everything else byte by byte with EUSART_Tx;                        *)
(*   - the demo task of app.cpp (priority 30, above every other thread),   *)
(*     woken by start_demo from the button callback, draws DemoIters       *)
(*     numbers and then clears the event flags and calls stop_demo;        *)
(*   - a lower-priority thread that configures the display, runs           *)
(*     memlcd_app_init and later updates the display itself.               *)
(* The EUSART TX FIFO and shift register are 'tx'; what is shifted out     *)
(* while SCS is high is 'wire'.  A unit is one command, one row chunk or   *)
(* one trailer, tagged with the drawer and the row.                        *)
(* start_spi_ldma_transfer is not in this repository: it is taken to wait  *)
(* for the channel to be idle, program it and return at once (its name and *)
(* its NULL completion callback say the transfer goes on after it).        *)
(* The core sleeps in EM2 when every thread is blocked: the power-manager  *)
(* callback of sl_memlcd.c then unroutes the EUSART TX and SCLK pins, and  *)
(* routes them again when an interrupt (sleeptimer, button) wakes it.      *)
(* sl_memlcd_power_on starts the periodic EXTCOMIN sleeptimer.             *)
(***************************************************************************)
EXTENDS Integers, Sequences, SequencesExt

CONSTANTS Rows,          \* rows sent by one DMD_updateDisplay
          RowChunks,     \* FIFO-sized pieces of one row (row_len = 16 > 4)
          DemoIters,     \* the 100 iterations of the demo loop
          VWrap,         \* the value 99 at which the demo clears and restarts v
          MaxStarts,     \* start_demo calls (button presses)
          MaxUserDraws,  \* display updates by the lower-priority thread
          ExtcominPresent \* the board defines SL_MEMLCD_EXTCOMIN_PORT

ASSUME /\ Rows \in Nat \ {0} /\ RowChunks \in Nat \ {0}
       /\ DemoIters \in Nat /\ VWrap \in Nat \ {0}
       /\ MaxStarts \in Nat /\ MaxUserDraws \in Nat
       /\ ExtcominPresent \in BOOLEAN

Task == "task"        \* the demo task created by memlcd_app_init
User == "user"        \* the thread that configures and updates the display
Drawers == {Task, User}

VARIABLES font_demo_on,  \* volatile font_demo_on (0 or 1)
          flag,          \* bit 0x1 of evt_button_id
          v,             \* volatile v, the number drawn next
          i,             \* loop index of the demo task
          tpc,           \* demo task program counter
          upc,           \* the other thread's program counter
          taskUp,        \* memlcd_app_init created the flags and the task
          initialized,   \* sl_memlcd_configure has run
          dpc,           \* drawer -> step inside sl_memlcd_draw / clear
          op,            \* drawer -> "clear" or "update"
          row,           \* drawer -> row being sent
          cs,            \* the SCS pin
          tx,            \* units written to the EUSART, not yet shifted out
          dma,           \* units the LDMA channel has still to write
          wire,          \* units shifted out since SCS last rose
          starts, udraws,\* calls made so far
          em,            \* energy mode of the core: "EM0" or "EM2"
          routed,        \* EUSARTROUTE ROUTEEN has TXPEN and SCLKPEN
          timerOn,       \* extcomin_timer is running
          extcomin       \* level of the EXTCOMIN pin

pmVars == <<em, routed, timerOn, extcomin>>

vars == <<font_demo_on, flag, v, i, tpc, upc, taskUp, initialized, dpc, op,
          row, cs, tx, dma, wire, starts, udraws, pmVars>>

Cmd(d)        == <<d, "cmd", 0, 0>>
Trail(d, r)   == <<d, "trail", r, 0>>
RowUnits(d, r) == [c \in 1..RowChunks |-> <<d, "row", r, c>>]

\* what one call of sl_memlcd_clear / sl_memlcd_draw(0, Rows) puts on the wire
Frame(d, o) ==
    IF o = "clear" THEN <<Cmd(d)>>
    ELSE <<Cmd(d)>> \o FlattenSeq([r \in 1..Rows |-> RowUnits(d, r) \o <<Trail(d, r)>>])

-----------------------------------------------------------------------------
(* sl_memlcd_clear and sl_memlcd_draw, one step per SPI call               *)

\* d calls sl_memlcd_clear (o = "clear") or DMD_updateDisplay (o = "update")
BeginDraw(d, o) == dpc' = [dpc EXCEPT ![d] = "set"] /\ op' = [op EXCEPT ![d] = o]

\* sl_gpio_set_pin(SCS) and the setup delay
DrawSet(d) ==
    /\ dpc[d] = "set"
    /\ cs' = TRUE
    /\ wire' = IF cs THEN wire ELSE <<>>
    /\ dpc' = [dpc EXCEPT ![d] = "cmd"]
    /\ UNCHANGED <<row, tx, dma>>

\* sli_memlcd_spi_tx(&cmd, 2): two bytes, always by EUSART_Tx
DrawCmd(d) ==
    /\ dpc[d] = "cmd"
    /\ tx' = Append(tx, Cmd(d))
    /\ dpc' = [dpc EXCEPT ![d] = IF op[d] = "clear" THEN "wait" ELSE "row"]
    /\ row' = [row EXCEPT ![d] = 1]
    /\ UNCHANGED <<cs, dma, wire>>

\* sli_memlcd_spi_tx(p, row_len): by LDMA while font_demo_on, else by EUSART_Tx
DrawRow(d) ==
    /\ dpc[d] = "row"
    /\ IF font_demo_on = 1
       THEN dma = <<>> /\ dma' = RowUnits(d, row[d]) /\ UNCHANGED tx
       ELSE tx' = tx \o RowUnits(d, row[d]) /\ UNCHANGED dma
    /\ dpc' = [dpc EXCEPT ![d] = "trail"]
    /\ UNCHANGED <<row, cs, wire>>

\* Fault variant of DrawTrail: the last-row test is off by one.
DrawTrailPastLast(d) ==
    /\ dpc[d] = "trail"
    /\ tx' = Append(tx, Trail(d, row[d]))
    /\ IF row[d] > Rows
       THEN dpc' = [dpc EXCEPT ![d] = "wait"] /\ UNCHANGED row
       ELSE dpc' = [dpc EXCEPT ![d] = "row"] /\ row' = [row EXCEPT ![d] = @ + 1]
    /\ UNCHANGED <<cs, dma, wire>>

\* sli_memlcd_spi_tx(&cmd, 2): the dummy/next-address trailer of the row
DrawTrail(d) ==
    /\ dpc[d] = "trail"
    /\ tx' = Append(tx, Trail(d, row[d]))
    /\ IF row[d] = Rows
       THEN dpc' = [dpc EXCEPT ![d] = "wait"] /\ UNCHANGED row
       ELSE dpc' = [dpc EXCEPT ![d] = "row"] /\ row' = [row EXCEPT ![d] = @ + 1]
    /\ UNCHANGED <<cs, dma, wire>>

\* sli_memlcd_spi_wait: spin until EUSART_STATUS_TXC
DrawWait(d) ==
    /\ dpc[d] = "wait"
    /\ tx = <<>>
    /\ dpc' = [dpc EXCEPT ![d] = "clr"]
    /\ UNCHANGED <<row, cs, tx, dma, wire>>

\* hold delay, sl_gpio_clear_pin(SCS), sli_memlcd_spi_rx_flush
DrawClear(d) ==
    /\ dpc[d] = "clr"
    /\ cs' = FALSE
    /\ dpc' = [dpc EXCEPT ![d] = "idle"]
    /\ UNCHANGED <<row, tx, dma, wire>>

DrawStep(d) ==
    /\ \/ DrawSet(d) \/ DrawCmd(d) \/ DrawRow(d) \/ DrawTrail(d)
       \/ DrawWait(d) \/ DrawClear(d)
    /\ UNCHANGED <<font_demo_on, flag, v, i, tpc, upc, taskUp, initialized, op,
                   starts, udraws, pmVars>>

-----------------------------------------------------------------------------
(* Energy modes and the EUSART routes                                      *)

\* sli_memlcd_spi_exit_em23: enable the EUSART, set TXPEN and SCLKPEN
ExitEm23 == routed' = TRUE

\* sli_memlcd_spi_enter_em23: clear TXPEN and SCLKPEN
EnterEm23 == routed' = FALSE

\* on_power_manager_event, subscribed at the end of sl_memlcd_configure
OnPowerManagerEvent(to) ==
    IF ~initialized THEN UNCHANGED routed
    ELSE IF to = "EM0" THEN ExitEm23 ELSE EnterEm23

\* the power manager moves the core to energy mode 'to'
Transition(to) ==
    /\ em' = to
    /\ IF em # to THEN OnPowerManagerEvent(to) ELSE UNCHANGED routed

\* an interrupt wakes the core before its handler runs
WakeUp == Transition("EM0")

-----------------------------------------------------------------------------
(* The LDMA channel and the EUSART: hardware steps                         *)

softVars == <<font_demo_on, flag, v, i, tpc, upc, taskUp, initialized,
              dpc, op, row, starts, udraws>>

\* the LDMA channel writes its next unit into the TX FIFO
LdmaWrite == /\ em = "EM0" /\ dma # <<>>
             /\ tx' = Append(tx, Head(dma)) /\ dma' = Tail(dma)
             /\ UNCHANGED <<cs, wire, softVars, pmVars>>

\* the EUSART shifts its next unit out (its HF clock stops in EM2); the LCD
\* takes it only while SCS is high and the pins are routed
Shift == /\ em = "EM0" /\ tx # <<>>
         /\ tx' = Tail(tx)
         /\ wire' = IF cs /\ routed THEN Append(wire, Head(tx)) ELSE wire
         /\ UNCHANGED <<cs, dma, softVars, pmVars>>

Hardware == LdmaWrite \/ Shift

-----------------------------------------------------------------------------
(* The demo task of app.cpp                                                *)

\* osEventFlagsWait(0x3, osFlagsWaitAny, osWaitForever) returns, clearing
\* the flag, and clear_display starts a DMD update
TaskWake == /\ tpc = "wait" /\ flag
            /\ flag' = FALSE
            /\ i' = 0 /\ tpc' = "check"
            /\ BeginDraw(Task, "update")
            /\ UNCHANGED <<font_demo_on, v>>

\* for-loop test, and 'if (v == 99) clear_display()'
TaskCheck == /\ tpc = "check" /\ i < DemoIters
             /\ IF v = VWrap
                THEN BeginDraw(Task, "update") /\ tpc' = "reset_v"
                ELSE tpc' = "string" /\ UNCHANGED <<dpc, op>>
             /\ UNCHANGED <<font_demo_on, flag, v, i>>

\* 'v = 0' after that clear_display
TaskResetV == /\ tpc = "reset_v"
              /\ v' = 0 /\ tpc' = "string"
              /\ UNCHANGED <<font_demo_on, flag, i, dpc, op>>

\* draw_string(str, v++ > 9 ? 32 : 48): v is incremented before the update
TaskString == /\ tpc = "string"
              /\ v' = v + 1 /\ tpc' = "delay"
              /\ BeginDraw(Task, "update")
              /\ UNCHANGED <<font_demo_on, flag, i>>

\* Fault variant of TaskDelay: the loop index is not advanced.
TaskDelayNoInc == /\ tpc = "delay"
                  /\ tpc' = "check"
                  /\ UNCHANGED <<font_demo_on, flag, v, i, dpc, op>>

\* osDelay(100) expires
TaskDelay == /\ tpc = "delay"
             /\ i' = i + 1 /\ tpc' = "check"
             /\ UNCHANGED <<font_demo_on, flag, v, dpc, op>>

\* osEventFlagsClear(evt_button_id, 0x3); stop_demo()
TaskEnd == /\ tpc = "check" /\ i = DemoIters
           /\ flag' = FALSE /\ font_demo_on' = 0 /\ tpc' = "wait"
           /\ UNCHANGED <<v, i, dpc, op>>

\* the task runs whenever it is ready; inside a draw it spins, never blocks;
\* the expiry of osDelay is a sleeptimer interrupt, which wakes the core
TaskStep ==
    /\ taskUp
    /\ \/ /\ em = "EM0"
          /\ \/ dpc[Task] # "idle" /\ DrawStep(Task)
             \/ /\ dpc[Task] = "idle"
                /\ TaskWake \/ TaskCheck \/ TaskResetV \/ TaskString \/ TaskEnd
                /\ UNCHANGED <<upc, taskUp, initialized, row, cs, tx, dma, wire,
                               starts, udraws, pmVars>>
       \/ /\ dpc[Task] = "idle" /\ TaskDelay /\ WakeUp
          /\ UNCHANGED <<upc, taskUp, initialized, row, cs, tx, dma, wire,
                         starts, udraws, timerOn, extcomin>>

\* the demo task (priority 30) is blocked, so lower priorities may run
TaskBlocked == ~taskUp \/ (dpc[Task] = "idle" /\ (tpc = "delay" \/ (tpc = "wait" /\ ~flag)))

-----------------------------------------------------------------------------
(* The thread that brings the display up and updates it                    *)

\* sli_memlcd_spi_init: EUSART set up, TXPEN and SCLKPEN routed (RXPEN kept)
SpiInit == routed' = TRUE

\* sl_memlcd_power_on(device, true): restart the periodic EXTCOMIN timer
PowerOn == timerOn' = ExtcominPresent

\* sl_memlcd_configure: SPI and pin set-up, initialized = true, power on,
\* then sl_memlcd_clear; the power-manager subscription comes last
Configure == /\ upc = "configure"
             /\ SpiInit
             /\ initialized' = TRUE /\ upc' = "appinit"
             /\ PowerOn
             /\ BeginDraw(User, "clear")
             /\ UNCHANGED <<taskUp, udraws, em, extcomin>>

\* memlcd_app_init: initLDMA; if storage_init fails it returns before
\* osEventFlagsNew and the task creation
MemlcdAppInit == /\ upc = "appinit"
                 /\ taskUp' \in BOOLEAN /\ upc' = "idle"
                 /\ UNCHANGED <<initialized, dpc, op, udraws, pmVars>>

\* a DMD_updateDisplay of its own
UserUpdate == /\ upc = "idle" /\ initialized /\ udraws < MaxUserDraws
              /\ udraws' = udraws + 1
              /\ BeginDraw(User, "update")
              /\ UNCHANGED <<upc, taskUp, initialized, pmVars>>

UserStep ==
    /\ TaskBlocked /\ em = "EM0"
    /\ \/ dpc[User] # "idle" /\ DrawStep(User)
       \/ /\ dpc[User] = "idle"
          /\ Configure \/ MemlcdAppInit \/ UserUpdate
          /\ UNCHANGED <<font_demo_on, flag, v, i, tpc, row, cs, tx, dma, wire,
                         starts>>

-----------------------------------------------------------------------------
\* start_demo, called from the button callback (interrupt context): the
\* flags do not exist if memlcd_app_init failed, and osEventFlagsSet fails
StartDemo == /\ upc = "idle" /\ starts < MaxStarts
             /\ starts' = starts + 1
             /\ font_demo_on' = 1 /\ v' = 0
             /\ flag' = (flag \/ taskUp)
             /\ WakeUp /\ UNCHANGED <<timerOn, extcomin>>
             /\ UNCHANGED <<i, tpc, upc, taskUp, initialized, dpc, op, row, cs,
                            tx, dma, wire, udraws>>

Init == /\ font_demo_on = 0 /\ flag = FALSE /\ v = 0 /\ i = 0
        /\ tpc = "wait" /\ upc = "configure"
        /\ taskUp = FALSE /\ initialized = FALSE
        /\ dpc = [d \in Drawers |-> "idle"] /\ op = [d \in Drawers |-> "update"]
        /\ row = [d \in Drawers |-> 1]
        /\ cs = FALSE /\ tx = <<>> /\ dma = <<>> /\ wire = <<>>
        /\ starts = 0 /\ udraws = 0
        /\ em = "EM0" /\ routed = FALSE /\ timerOn = FALSE /\ extcomin = 0

\* every thread is blocked: the idle task lets the power manager enter EM2,
\* whatever the EUSART or the LDMA channel still hold
Sleep == /\ em = "EM0" /\ TaskBlocked
         /\ upc = "idle" /\ dpc[User] = "idle"
         /\ Transition("EM2")
         /\ UNCHANGED <<softVars, cs, tx, dma, wire, timerOn, extcomin>>

\* extcomin_toggle, the periodic sleeptimer callback: toggles the pin
ExtcominToggle == /\ timerOn
                  /\ extcomin' = 1 - extcomin
                  /\ WakeUp
                  /\ UNCHANGED <<softVars, cs, tx, dma, wire, timerOn>>

Next == TaskStep \/ UserStep \/ Hardware \/ StartDemo \/ Sleep \/ ExtcominToggle

\* the demo task and the hardware progress, and the periodic sleeptimer
\* (clocked from the low-frequency oscillator, running in EM2) keeps firing;
\* the other thread and the button need not
Spec == /\ Init /\ [][Next]_vars
        /\ WF_vars(TaskStep) /\ WF_vars(LdmaWrite) /\ WF_vars(Shift)
        /\ WF_vars(ExtcominToggle)

-----------------------------------------------------------------------------
(* Properties                                                              *)

Units == {Cmd(d) : d \in Drawers} \cup {Trail(d, r) : d \in Drawers, r \in 1..Rows}
         \cup {<<d, "row", r, c>> : d \in Drawers, r \in 1..Rows, c \in 1..RowChunks}

TypeOK ==
    /\ font_demo_on \in {0, 1} /\ v \in 0..VWrap /\ i \in 0..DemoIters
    /\ {flag, taskUp, initialized, cs} \subseteq BOOLEAN
    /\ tpc \in {"wait", "check", "reset_v", "string", "delay"}
    /\ upc \in {"configure", "appinit", "idle"}
    /\ dpc \in [Drawers -> {"idle", "set", "cmd", "row", "trail", "wait", "clr"}]
    /\ row \in [Drawers -> 1..Rows]
    /\ \A q \in {tx, dma, wire} : q \in Seq(Units)
    /\ em \in {"EM0", "EM2"} /\ {routed, timerOn} \subseteq BOOLEAN
    /\ extcomin \in {0, 1}

\* When a drawer de-asserts SCS, the LCD has received exactly the frame of
\* that sl_memlcd_clear / sl_memlcd_draw call: its command, then every row
\* followed by its trailer, in order, with nothing from another call and
\* nothing still in flight (sli_memlcd_spi_wait is meant to ensure that).
FrameIntact ==
    [][\A d \in Drawers : dpc[d] = "clr" /\ dpc'[d] = "idle" => wire = Frame(d, op[d])]_vars

\* Every demo the task begins is finished: it returns to waiting for the
\* next button press (no spin on TXC or on the LDMA channel hangs it).
DemoCompletes == (tpc # "wait") ~> (tpc = "wait")

=============================================================================
