------------------------------- MODULE SComm -------------------------------
(***************************************************************************)
(* Self-commissioning (EcoDrive/PmsmControl): the mode API called by the   *)
(* main loop, the slow loop xmcLoop that walks through the identification  *)
(* stages, and the PWM loop pwmLoop that excites the motor and samples it. *)
(*                                                                         *)
(* The main loop changes the mode with interrupts disabled.  On the STM32  *)
(* pwmLoop runs in the ADC interrupt (priority 0) and preempts xmcLoop,    *)
(* which runs in the TIM11 interrupt (priority 15); on the host one thread *)
(* calls both in turn.  Preempt tells the two builds apart.                *)
(*                                                                         *)
(* Currents and voltages are abstracted to what excited the motor when a   *)
(* sample was taken: an accumulator is a count of samples of each kind.    *)
(* accumulate1 is cleared and fed with accumulate0 wherever it is used, so *)
(* one count stands for both.                                              *)
(***************************************************************************)
EXTENDS Integers

CONSTANTS
  Settle,               \* ESETTLE_MIN_TICKS
  Oversample,           \* samples of a measurement, 1 << OVERSAMPLE_BITS
  Preempt,              \* may pwmLoop interrupt xmcLoop?
  MaxEnter              \* bound: times SComm is entered

ASSUME SCommAssumption ==
  /\ Settle \in Nat /\ Oversample \in Nat \ {0}
  /\ Preempt \in BOOLEAN /\ MaxEnter \in Nat

Modes  == {"None", "Idle", "Foc", "SComm"}           \* MCMode
Stages == {"IDLE", "RS_ID", "LD_ID", "REST0", "LQ_ID"}
Kinds  == {"RS_ID", "LD_ID", "LQ_ID", "unsettled"}   \* of a sample

VARIABLES
  mc_mode,              \* control.mc_mode
  idstage, idsub,       \* scomm.idstage, scomm.idsub
  samples,              \* scomm.samples_counter
  waited,               \* pTicks - eSettle_start_tick, up to Settle + 1
  acc,                  \* samples in accumulate0, by kind
  model,                \* scomm.model: the samples each result came from
  sp,                   \* what the d and q setpoints excite the motor with
  steady,               \* ticks sp has been applied unchanged, to Settle + 1
  xpc,                  \* next case of xmcLoop's switch, "idle" outside it
  entered               \* times SComm was entered

vars == <<mc_mode, idstage, idsub, samples, waited, acc, model, sp, steady,
          xpc, entered>>

NoSamples  == [k \in Kinds |-> 0]
Unknown    == [k \in Kinds |-> -1]
Only(k, n) == [NoSamples EXCEPT ![k] = n]
Pure(k)    == Only(k, Oversample)
Tick(n)   == IF n > Settle THEN n ELSE n + 1

(* What pwmLoop or xmcLoop excites the motor with in each stage. *)
Excitation ==
  [RS_ID |-> "dc", LD_ID |-> "hfi_d", REST0 |-> "zero", LQ_ID |-> "hfi_q"]

Init ==                 \* zero-initialised; init() has floated the bridge
  /\ mc_mode = "None" /\ idstage = "IDLE" /\ idsub = "ESettle_Start"
  /\ samples = 0 /\ waited = 0 /\ acc = NoSamples
  /\ model = [R |-> Unknown, Ld |-> Unknown, Lq |-> Unknown]
  /\ sp = "zero" /\ steady = 0
  /\ xpc = "idle" /\ entered = 0

-----------------------------------------------------------------------------
(* Main loop.  Entering SComm sets the stage only; leaving a mode does      *)
(* nothing.                                                                *)
SetControlMode(m) ==
  /\ m # mc_mode
  /\ mc_mode' = m
  /\ IF m = "SComm"
     THEN entered < MaxEnter /\ entered' = entered + 1 /\ idstage' = "RS_ID"
     ELSE UNCHANGED <<entered, idstage>>
  /\ UNCHANGED <<idsub, samples, waited, acc, model, sp, steady, xpc>>

(* A mode is entered from Idle only, Idle from everywhere, and none while  *)
(* an interrupt is served.                                                 *)
ConfigControlMode(m) ==
  /\ xpc = "idle"
  /\ m = "Idle" \/ mc_mode = "Idle"
  /\ SetControlMode(m)

-----------------------------------------------------------------------------
(* ADC interrupt: pwmLoop. *)

(* Faulty variants: the counter is not looked at; no samples for Lq. *)
SamplingUncounted ==
  /\ idstage \in {"RS_ID", "LD_ID", "LQ_ID"}
  /\ idsub = "Active_Sampling"

SamplingNoLq ==
  /\ idstage \in {"RS_ID", "LD_ID"}
  /\ samples > 0
  /\ idsub = "Active_Sampling"

(* SComm_pwmLoop takes a sample (of the current Foc_pwmLoop computed on    *)
(* the tick before), sets the injection of the stage and applies it.       *)
Sampling ==
  /\ idstage \in {"RS_ID", "LD_ID", "LQ_ID"}
  /\ samples > 0
  /\ idsub = "Active_Sampling"

Kind == IF sp = Excitation[idstage] /\ steady > Settle THEN idstage
                                                       ELSE "unsettled"

SCommPwmLoop ==
  /\ mc_mode = "SComm"
  /\ IF Sampling
     THEN acc' = [acc EXCEPT ![Kind] = @ + 1] /\ samples' = samples - 1
     ELSE UNCHANGED <<acc, samples>>
  /\ sp' = IF idstage \in {"LD_ID", "LQ_ID"} THEN Excitation[idstage] ELSE sp
  /\ steady' = IF sp' = sp THEN Tick(steady) ELSE 1

(* Foc_pwmLoop applies whatever the setpoints say. *)
FocPwmLoop ==
  /\ mc_mode = "Foc"
  /\ steady' = Tick(steady)
  /\ UNCHANGED <<acc, samples, sp>>

(* In Idle the interrupt counts the tick and leaves the outputs alone. *)
IdlePwmLoop ==
  /\ mc_mode = "Idle"
  /\ UNCHANGED <<acc, samples, sp, steady>>

PwmLoop ==
  /\ Preempt \/ xpc = "idle"
  /\ SCommPwmLoop \/ FocPwmLoop \/ IdlePwmLoop
  /\ waited' = Tick(waited)
  /\ UNCHANGED <<mc_mode, idstage, idsub, model, xpc, entered>>

-----------------------------------------------------------------------------
(* TIM11 interrupt: xmcLoop -> SComm_xmcLoop.  Each case of the switch on  *)
(* idstage is a step; a case that falls through leads to the next one.     *)

(* Faulty variant: the sums of the stage before are kept. *)
StartSettlingKeepsSums ==
  /\ idsub = "ESettle_Start"
  /\ idsub' = "ESettle_Wait"
  /\ waited' = 0
  /\ samples' = Oversample
  /\ UNCHANGED <<idstage, acc, model>>

StartSettling ==        \* case ESettle_Start, in every stage
  /\ idsub = "ESettle_Start"
  /\ idsub' = "ESettle_Wait"
  /\ waited' = 0
  /\ acc' = NoSamples
  /\ samples' = Oversample
  /\ UNCHANGED <<idstage, model>>

(* case ESettle_Wait; only LQ_ID stores eSettle_start_tick again.          *)
StartSampling(w) ==
  /\ idsub = "ESettle_Wait"
  /\ waited > Settle
  /\ idsub' = "Active_Sampling"
  /\ waited' = w
  /\ UNCHANGED <<idstage, acc, samples, model>>

Result(field, next) ==  \* case Active_Sampling
  /\ idsub = "Active_Sampling"
  /\ samples = 0
  /\ model' = [model EXCEPT ![field] = acc]
  /\ idstage' = next
  /\ idsub' = "ESettle_Start"
  /\ UNCHANGED <<waited, acc, samples>>

StayIn ==               \* nothing due yet
  /\ \/ idsub = "ESettle_Wait" /\ waited <= Settle
     \/ idsub = "Active_Sampling" /\ samples > 0
  /\ UNCHANGED <<idstage, idsub, waited, acc, samples, model>>

XmcUnchanged == UNCHANGED <<mc_mode, entered>>

(* Faulty variant: the resistance is followed by the rest. *)
CaseRsSkipsLd ==
  /\ mc_mode = "SComm" /\ xpc = "idle" /\ idstage = "RS_ID"
  /\ sp' = "dc"
  /\ steady' = IF sp = "dc" THEN steady ELSE 0
  /\ StartSettling \/ StartSampling(waited) \/ Result("R", "REST0") \/ StayIn
  /\ xpc' = "idle"
  /\ XmcUnchanged

CaseRs ==
  /\ mc_mode = "SComm" /\ xpc = "idle" /\ idstage = "RS_ID"
  /\ sp' = "dc"
  /\ steady' = IF sp = "dc" THEN steady ELSE 0
  /\ StartSettling \/ StartSampling(waited) \/ Result("R", "LD_ID") \/ StayIn
  /\ xpc' = "idle"
  /\ XmcUnchanged

CaseLd ==               \* falls through
  /\ mc_mode = "SComm" /\ xpc = "idle" /\ idstage = "LD_ID"
  /\ StartSettling \/ StartSampling(waited) \/ Result("Ld", "REST0") \/ StayIn
  /\ xpc' = "rest0"
  /\ XmcUnchanged
  /\ UNCHANGED <<sp, steady>>

RestStarts ==
  /\ StartSettling
  /\ sp' = "zero"
  /\ steady' = IF sp = "zero" THEN steady ELSE 0

RestEnds ==
  /\ idsub = "ESettle_Wait" /\ waited > Settle
  /\ idsub' = "ESettle_Start"
  /\ idstage' = "LQ_ID"
  /\ UNCHANGED <<waited, acc, samples, model, sp, steady>>

RestStays ==
  /\ idsub = "ESettle_Wait" => waited <= Settle
  /\ idsub # "ESettle_Start"
  /\ UNCHANGED <<idstage, idsub, waited, acc, samples, model, sp, steady>>

CaseRest0 ==            \* falls through
  /\ \/ mc_mode = "SComm" /\ xpc = "idle" /\ idstage = "REST0"
     \/ xpc = "rest0"
  /\ RestStarts \/ RestEnds \/ RestStays
  /\ xpc' = "lq"
  /\ XmcUnchanged

CaseLq ==
  /\ \/ mc_mode = "SComm" /\ xpc = "idle" /\ idstage = "LQ_ID"
     \/ xpc = "lq"
  /\ StartSettling \/ StartSampling(0) \/ Result("Lq", "RS_ID") \/ StayIn
  /\ xpc' = "idle"
  /\ XmcUnchanged
  /\ UNCHANGED <<sp, steady>>

XmcLoop == CaseRs \/ CaseLd \/ CaseRest0 \/ CaseLq

-----------------------------------------------------------------------------
Next ==
  \/ \E m \in Modes : ConfigControlMode(m)
  \/ PwmLoop
  \/ XmcLoop

(* Both timers run for ever, and a tick of pwmLoop that has to wait until   *)
(* xmcLoop returns is taken then (strong fairness).  Nothing obliges the   *)
(* main loop to do anything.                                               *)
Spec == Init /\ [][Next]_vars
FairSpec == Spec /\ SF_vars(PwmLoop) /\ WF_vars(XmcLoop)

-----------------------------------------------------------------------------
TypeOK ==
  /\ mc_mode \in Modes /\ idstage \in Stages
  /\ idsub \in {"ESettle_Start", "ESettle_Wait", "Active_Sampling"}
  /\ samples \in 0..Oversample /\ waited \in 0..Settle + 1
  /\ acc \in [Kinds -> Nat]
  /\ model \in [{"R", "Ld", "Lq"} -> [Kinds -> Int]]
  /\ sp \in {"zero", "dc", "hfi_d", "hfi_q"} /\ steady \in 0..Settle + 1
  /\ xpc \in {"idle", "rest0", "lq"}
  /\ entered \in Nat

(* Every identified parameter comes from Oversample samples of its own     *)
(* stage, all taken after the excitation of that stage had settled ("wait  *)
(* for electrical settling", PmsmControlCore_SComm.cpp:80).  Only R may    *)
(* have samples of the stage SComm was left in, when it is entered again.  *)
ResultsFromOwnSamples ==
  /\ entered <= 1 => model.R \in {Unknown, Pure("RS_ID")}
  /\ model.Ld \in {Unknown, Pure("LD_ID")}
  /\ model.Lq \in {Unknown, Pure("LQ_ID")}

(* What holds between any two steps where the loops do not preempt each   *)
(* other.  A stage that falls through has nothing due in the next cases;   *)
(* a stage that measures, other than one SComm was entered again in,       *)
(* starts from cleared sums, samples only what its own excitation has      *)
(* settled to, and counts every sample.                                    *)
NothingDue ==
  \/ idsub = "ESettle_Wait" /\ waited <= Settle
  \/ idsub = "Active_Sampling" /\ samples > 0

FallsThrough ==
  /\ xpc # "idle" => mc_mode = "SComm"
  /\ xpc = "rest0" =>
       \/ idstage = "LD_ID" /\ NothingDue
       \/ idstage = "REST0" /\ idsub = "ESettle_Start"
  /\ xpc = "lq" =>
       \/ idstage = "LD_ID" /\ NothingDue
       \/ idstage = "REST0" /\ idsub = "ESettle_Wait" /\ waited <= Settle
       \/ idstage = "LQ_ID" /\ idsub = "ESettle_Start"

Entries ==
  /\ entered = 0 => mc_mode # "SComm" /\ idsub = "ESettle_Start"
  /\ mc_mode = "SComm" /\ idstage = "REST0" => idsub # "Active_Sampling"

Measures ==
  /\ mc_mode = "SComm"
  /\ idstage \in {"RS_ID", "LD_ID", "LQ_ID"}
  /\ entered <= 1 \/ idstage # "RS_ID"

SumsAreOwn ==
  Measures =>
    /\ idsub = "ESettle_Wait" =>
         /\ acc = NoSamples /\ samples = Oversample
         /\ waited > 0 => sp = Excitation[idstage] /\ steady >= waited
    /\ idsub = "Active_Sampling" =>
         /\ acc = Only(idstage, Oversample - samples)
         /\ sp = Excitation[idstage] /\ steady > Settle
    /\ idsub # "ESettle_Start" /\ idstage = "RS_ID" => sp = "dc"

(* The strengthening of ResultsFromOwnSamples that every step preserves.   *)
IInv ==
  TypeOK /\ FallsThrough /\ Entries /\ SumsAreOwn /\ ResultsFromOwnSamples

(* The identification goes "step by step" (PmsmControlCore_SComm.cpp:69):  *)
(* no stage is skipped, none is left without its successor.                *)
StagesInOrder ==
  [][idstage' # idstage =>
       \/ <<idstage, idstage'>> \in
            {<<"RS_ID", "LD_ID">>, <<"LD_ID", "REST0">>, <<"REST0", "LQ_ID">>,
             <<"LQ_ID", "RS_ID">>}
       \/ entered' # entered]_vars

(* A motor left in SComm gets all of its parameters: "Self-Commissioning   *)
(* (R, Ld, Lq identification via HFI)" (README.md:52).                     *)
Commissions ==
  mc_mode = "SComm" ~>
    (mc_mode # "SComm" \/ \A f \in {"R", "Ld", "Lq"} : model[f] # Unknown)
=============================================================================
