------------------------------- MODULE DmaWait -------------------------------
(***************************************************************************)
(* Phase 1.5 of the soldier's tick in src/firmware/soldier/main.c: after a *)
(* vibration interrupt the core starts TIM2 and the ADC in DMA mode,       *)
(* suspends SysTick and waits for audio_ready in a loop that masks         *)
(* interrupts (PRIMASK) around the test and the WFI.  WFI returns when an  *)
(* interrupt is pending even while PRIMASK masks it; the handler itself    *)
(* runs once PRIMASK is cleared.  The DMA raises its interrupt at half and *)
(* at full transfer; only the full one reaches HAL_ADC_ConvCpltCallback.   *)
(* The EXTI line of the piezo pin can fire at any time.                    *)
(***************************************************************************)
EXTENDS Naturals

VARIABLES
  dpc,                 \* where the core is in the tick
  vibration_detected,  \* volatile flag set by HAL_GPIO_EXTI_Callback
  audio_ready,         \* volatile flag set by HAL_ADC_ConvCpltCallback
  primask,             \* 1 between __disable_irq and __enable_irq
  dma,                 \* "idle", "run", "half", "full": the 512-sample transfer
  dmaIrq,              \* DMA channel interrupt pending in the NVIC
  extiIrq,             \* EXTI0 interrupt pending in the NVIC
  tick                 \* SysTick running

vars == <<dpc, vibration_detected, audio_ready, primask, dma, dmaIrq, extiIrq, tick>>

Pending == dmaIrq \/ extiIrq

\* An interrupt taken while the core sleeps returns to the instruction
\* after WFI, which is __enable_irq.
AfterIsr == IF dpc = "Asleep" THEN "Enable" ELSE dpc

Init ==
  /\ dpc = "Phase"
  /\ vibration_detected \in {0, 1}
  /\ audio_ready = 0
  /\ primask = 0
  /\ dma = "idle"
  /\ dmaIrq = FALSE
  /\ extiIrq = FALSE
  /\ tick = TRUE

\* if (vibration_detected) { clear both flags; HAL_TIM_Base_Start;
\* HAL_ADC_Start_DMA; HAL_SuspendTick; } and otherwise on to phase 2.
PhaseEntry ==
  /\ dpc = "Phase"
  /\ IF vibration_detected = 1
       THEN /\ vibration_detected' = 0
            /\ audio_ready' = 0
            /\ dma' = "run"
            /\ tick' = FALSE
            /\ dpc' = "While"
       ELSE /\ dpc' = "Rest"
            /\ UNCHANGED <<vibration_detected, audio_ready, dma, tick>>
  /\ UNCHANGED <<primask, dmaIrq, extiIrq>>

\* while (!audio_ready)
WhileTest ==
  /\ dpc = "While"
  /\ dpc' = IF audio_ready = 0 THEN "Disable" ELSE "Resume"
  /\ UNCHANGED <<vibration_detected, audio_ready, primask, dma, dmaIrq, extiIrq, tick>>

\* Mutant: the loop body without __disable_irq().
DisableSkipped ==
  /\ dpc = "Disable"
  /\ dpc' = "If"
  /\ UNCHANGED <<vibration_detected, audio_ready, primask, dma, dmaIrq, extiIrq, tick>>

\* __disable_irq();
DisableIrq ==
  /\ dpc = "Disable"
  /\ primask' = 1
  /\ dpc' = "If"
  /\ UNCHANGED <<vibration_detected, audio_ready, dma, dmaIrq, extiIrq, tick>>

\* if (!audio_ready) HAL_PWR_EnterSLEEPMode(..., PWR_SLEEPENTRY_WFI);
IfTest ==
  /\ dpc = "If"
  /\ dpc' = IF audio_ready = 0 THEN "Wfi" ELSE "Enable"
  /\ UNCHANGED <<vibration_detected, audio_ready, primask, dma, dmaIrq, extiIrq, tick>>

\* The WFI instruction: with an interrupt pending it does not sleep.
Wfi ==
  /\ dpc = "Wfi"
  /\ dpc' = IF Pending THEN "Enable" ELSE "Asleep"
  /\ UNCHANGED <<vibration_detected, audio_ready, primask, dma, dmaIrq, extiIrq, tick>>

\* A pending interrupt wakes the core, masked or not.
Wake ==
  /\ dpc = "Asleep"
  /\ Pending
  /\ dpc' = "Enable"
  /\ UNCHANGED <<vibration_detected, audio_ready, primask, dma, dmaIrq, extiIrq, tick>>

\* Mutant: the loop body never calls __enable_irq().
EnableSkipped ==
  /\ dpc = "Enable"
  /\ dpc' = "While"
  /\ UNCHANGED <<vibration_detected, audio_ready, primask, dma, dmaIrq, extiIrq, tick>>

\* __enable_irq();
EnableIrq ==
  /\ dpc = "Enable"
  /\ primask' = 0
  /\ dpc' = "While"
  /\ UNCHANGED <<vibration_detected, audio_ready, dma, dmaIrq, extiIrq, tick>>

\* HAL_ResumeTick(); __DMB(); if (audio_ready == 1) { HAL_ADC_Stop_DMA;
\* HAL_TIM_Base_Stop; normalise; the inference is commented out }.
Resume ==
  /\ dpc = "Resume"
  /\ tick' = TRUE
  /\ dma' = IF audio_ready = 1 THEN "idle" ELSE dma
  /\ dpc' = "Rest"
  /\ UNCHANGED <<vibration_detected, audio_ready, primask, dmaIrq, extiIrq>>

\* Phases 2 to 5 and the STOP2 sleep; the next tick begins at phase 1.5.
RestOfTick ==
  /\ dpc = "Rest"
  /\ dpc' = "Phase"
  /\ UNCHANGED <<vibration_detected, audio_ready, primask, dma, dmaIrq, extiIrq, tick>>

\* The DMA moves the first and then the second 256 samples.
DmaHalf ==
  /\ dma = "run"
  /\ dma' = "half"
  /\ dmaIrq' = TRUE
  /\ UNCHANGED <<dpc, vibration_detected, audio_ready, primask, extiIrq, tick>>

DmaFull ==
  /\ dma = "half"
  /\ dma' = "full"
  /\ dmaIrq' = TRUE
  /\ UNCHANGED <<dpc, vibration_detected, audio_ready, primask, extiIrq, tick>>

\* The DMA handler; at full transfer HAL_ADC_ConvCpltCallback sets
\* audio_ready = 1.
DmaIsr ==
  /\ dmaIrq
  /\ primask = 0
  /\ dmaIrq' = FALSE
  /\ audio_ready' = IF dma = "full" THEN 1 ELSE audio_ready
  /\ dpc' = AfterIsr
  /\ UNCHANGED <<vibration_detected, primask, dma, extiIrq, tick>>

\* The piezo pulls PA0: EXTI0 becomes pending.
Vibration ==
  /\ ~extiIrq
  /\ extiIrq' = TRUE
  /\ UNCHANGED <<dpc, vibration_detected, audio_ready, primask, dma, dmaIrq, tick>>

\* HAL_GPIO_EXTI_Callback(GPIO_PIN_0): vibration_detected = 1.
ExtiIsr ==
  /\ extiIrq
  /\ primask = 0
  /\ extiIrq' = FALSE
  /\ vibration_detected' = 1
  /\ dpc' = AfterIsr
  /\ UNCHANGED <<audio_ready, primask, dma, dmaIrq, tick>>

Core == PhaseEntry \/ WhileTest \/ DisableIrq \/ IfTest \/ Wfi \/ Wake
          \/ EnableIrq \/ Resume \/ RestOfTick

Next == Core \/ DmaHalf \/ DmaFull \/ DmaIsr \/ Vibration \/ ExtiIsr

\* The core runs, the DMA paced by TIM2 completes on its own, and the NVIC
\* takes a pending interrupt whenever PRIMASK is clear, which the loop
\* makes true again and again (hence strong fairness).  The piezo is not
\* assumed to fire.
Fairness ==
  /\ WF_vars(Core)
  /\ WF_vars(DmaHalf) /\ WF_vars(DmaFull)
  /\ SF_vars(DmaIsr) /\ SF_vars(ExtiIsr)

Spec == Init /\ [][Next]_vars /\ Fairness

-----------------------------------------------------------------------------
\* No lost wakeup: the core only sleeps in the wait loop while the buffer
\* is still being filled or its full-transfer interrupt is pending, so
\* that interrupt is still ahead to wake it.  The handler cannot run
\* between the test of audio_ready and the WFI: interrupts are masked.
SleepsWithWakeAhead ==
  dpc = "Asleep" => (audio_ready = 0 /\ (dma \in {"run", "half"} \/ dmaIrq))

\* Every wait for the audio buffer ends: the core leaves the while loop,
\* resumes SysTick and goes on with the tick, with no vibration needed.
SamplingCompletes == (dpc = "While") ~> (dpc = "Rest")
=============================================================================
