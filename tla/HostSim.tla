------------------------------ MODULE HostSim ------------------------------
(***************************************************************************)
(* The simulation's threads together: the tick thread calls the virtual    *)
(* timers (VTimers), the callback of timer 0, postScanMethod, writes one   *)
(* sample to the capture (ScopeStream), and the main thread, which draws   *)
(* the user interface, configures timers and the capture meanwhile.        *)
(*                                                                         *)
(* The PWM frequency is at least 1 / SIL_MAX_TIMESTEP (20 kHz), so that    *)
(* postScanMethod makes one step of the motor model, sil_to_pwm_freq = 1.  *)
(***************************************************************************)
EXTENDS VTimers, ScopeStream

VARIABLES
  retimed               \* history: was timer 0 or the step changed in the
                        \* window?

vars == <<timers, scope, retimed>>

Init == TimersInit /\ ScopeInit /\ retimed = FALSE

(* Timer 0 is due: postScanMethod takes a sample. *)
FirePwm ==
  /\ Fire /\ scan = 0
  /\ writer' = "in"
  /\ UNCHANGED <<decimation, counter, hystTrig, triggered, frozen, buf,
                 loaded, gui, armed, mixed, retimed>>

(* The other timers: the slow control loop, which is modelled in SComm. *)
FireOther == Fire /\ scan # 0 /\ UNCHANGED <<scope, retimed>>

Write ==
  /\ at = "callback"
  /\ \/ /\ \/ LoadCounter \/ Decimate \/ LoadDecimation \/ Reload
           \/ Show \/ Leave
        /\ UNCHANGED retimed
     \/ /\ \E level \in Levels : Take(level, time)
        /\ retimed' = IF Len(buf') = 1 THEN 0 \notin steady ELSE retimed
  /\ UNCHANGED timers

Tick ==
  /\ TickNext
  /\ retimed' = (retimed \/ dt' # dt)
  /\ UNCHANGED scope

CallbackReturns == Return /\ writer = "out" /\ UNCHANGED <<scope, retimed>>

Main ==
  /\ MainNext /\ gui = Nothing
  /\ retimed' = (retimed \/ 0 \notin steady')
  /\ UNCHANGED scope

Gui == main = Idle /\ GuiNext /\ UNCHANGED <<timers, retimed>>

Next ==
  \/ Main \/ Gui
  \/ Tick \/ FirePwm \/ FireOther \/ Write \/ CallbackReturns

Spec == Init /\ [][Next]_vars

-----------------------------------------------------------------------------
(* A window that is full is evenly spaced in simulated time, one sample    *)
(* every decimation calls of the PWM timer, whose calls are a period, in   *)
(* whole steps, apart; a decimation of 0 counts as 256.  Unless the        *)
(* decimation, the timer or the step was changed while it was filled.      *)
WindowIsEven ==
  frozen /\ ~mixed /\ ~retimed =>
    \A i \in 2..Len(buf) : buf[i] - buf[i - 1] = Stride * Interval(0)
=============================================================================
