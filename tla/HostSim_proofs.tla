--------------------------- MODULE HostSim_proofs ---------------------------
(***************************************************************************)
(* Proofs about the virtual timers inside the simulation: for every number *)
(* of timers, every slice, every set of periods, every clock and every     *)
(* number of calls of the main thread, a timer is called at the first step *)
(* at which its period is over.                                            *)
(*                                                                         *)
(* From this: no timer is forgotten in a slice, and the samples of a full  *)
(* window of the capture are evenly spaced, whatever the user interface    *)
(* stores meanwhile.  A window needs a fall before it.                     *)
(***************************************************************************)
EXTENDS HostSim, TLAPS

Divides(d, n) == \E q \in Nat : n = d * q

(* The values the least period may take. *)
Steps == Periods \union {Slice}

-----------------------------------------------------------------------------
(* The inductive invariant. *)

TypeOK ==
  /\ index \in 0..MaxTimers
  /\ period \in [Ids -> Nat] /\ last \in [Ids -> Int] /\ callback \subseteq Ids
  /\ minStep \in Steps /\ dt \in Steps
  /\ main \in [at : {"idle", "fields", "callback", "step"}, id : Ids,
               period : Nat]
  /\ time \in Nat /\ at \in {"sleep", "step", "scan", "callback"}
  /\ scan \in Nat /\ steady \subseteq Ids
  /\ fired \in [Ids -> Int \union {None}] /\ paced \subseteq Ids

(* What is stored, and in which order: a callback last, and into a slot    *)
(* nobody looks at before; the least period after everything else.         *)
StoredInOrder ==
  /\ main.at # "idle" => main.period \in Periods
  /\ \A t \in callback : t < index /\ period[t] \in Periods
  /\ main.at \in {"fields", "callback"} =>
       main.id < index /\ main.id \notin callback
  /\ main.at \in {"callback", "step"} => period[main.id] = main.period
  /\ main.at = "step" => main.id \notin steady
  /\ \A t \in callback : (main.at = "step" => main.id # t) => minStep <= period[t]

(* The step of a slice fits every timer that is not changed in it. *)
StepFits ==
  /\ minStep <= dt
  /\ at # "sleep" => \A t \in steady \intersect callback : dt <= period[t]

(* The tick thread has looked at timer t at the present time. *)
LookedAt(t) ==
  \/ at \in {"sleep", "step"}
  \/ at = "scan" /\ t < scan
  \/ at = "callback" /\ t <= scan

(* A timer that was called while steady is a whole number of steps behind, *)
(* if the step has not changed since, and its next call is overdue by less *)
(* than a step, and only while the tick thread has not looked at it.       *)
OnTime(t) ==
  fired[t] # None =>
    /\ t \in callback /\ fired[t] \in Int /\ last[t] = fired[t]
    /\ fired[t] <= time
    /\ t \in paced => Divides(dt, time - fired[t])
    /\ main.at = "step" => main.id # t
    /\ at # "sleep" => t \in steady
    /\ time - fired[t] < period[t] + dt
    /\ LookedAt(t) => time - fired[t] < period[t]

IInv ==
  /\ TypeOK /\ StoredInOrder /\ StepFits
  /\ \A t \in Ids : OnTime(t)

-----------------------------------------------------------------------------
LEMMA Numbers ==
  /\ MaxTimers \in Nat \ {0} /\ Ids = 0..MaxTimers - 1
  /\ Slice \in Nat \ {0} /\ Periods \subseteq 1..Slice
  /\ Steps \subseteq 1..Slice
  /\ Word \in Nat /\ 2 * Slice < Word
  /\ Now \in Nat /\ None \notin Int
BY VTimersAssumption DEF Ids, Steps

LEMMA DividesZero == ASSUME NEW d \in Nat PROVE Divides(d, 0)
<1>1. 0 \in Nat /\ 0 = d * 0
  OBVIOUS
<1> QED
  BY <1>1 DEF Divides

LEMMA DividesNext ==
  ASSUME NEW d \in Nat, NEW x \in Nat, Divides(d, x)
  PROVE  Divides(d, x + d)
<1>1. PICK a \in Nat : x = d * a
  BY DEF Divides
<1>2. x + d = d * (a + 1) /\ a + 1 \in Nat
  BY <1>1
<1> QED
  BY <1>2 DEF Divides

(* There is one multiple of the step within a step of the period.          *)
LEMMA RoundedUp ==
  ASSUME NEW d \in Nat \ {0}, NEW p \in Nat, NEW x \in Nat,
         Divides(d, x), p <= x, x < p + d
  PROVE  x = ((p + d - 1) \div d) * d
<1>1. PICK q \in Nat : x = d * q
  BY DEF Divides
<1>2. d * q <= p + d - 1 /\ p + d - 1 < d * (q + 1) /\ p + d - 1 \in Nat
  <2>1. d * (q + 1) = d * q + d
    OBVIOUS
  <2> QED
    BY <1>1, <2>1
<1>3. (p + d - 1) \div d = q
  BY <1>2
<1>4. d * q = q * d
  OBVIOUS
<1> QED
  BY <1>1, <1>3, <1>4

(* A timer that was called while steady is due when its period is over,    *)
(* and not before, although times are unsigned: the clock starts behind    *)
(* the bound of the simulated time, so that the times do not wrap.         *)
LEMMA DueIsExact ==
  ASSUME IInv, NEW t \in Ids, fired[t] # None
  PROVE  Due(t) <=> time - fired[t] >= period[t]
<1>1. /\ last[t] = fired[t] /\ fired[t] \in Int /\ fired[t] <= time
      /\ time - fired[t] < period[t] + dt /\ t \in callback
  BY DEF IInv, OnTime
<1>2. time \in Nat /\ period[t] \in 1..Slice /\ dt \in 1..Slice
  BY <1>1, Numbers DEF IInv, TypeOK, StoredInOrder
<1>3. time - fired[t] \in Nat /\ time - fired[t] < Word
  BY <1>1, <1>2, Numbers
<1>4. (time - fired[t]) % Word = time - fired[t]
  BY <1>3, Numbers
<1> QED
  BY <1>1, <1>2, <1>3, <1>4 DEF Due

LEMMA InitInv == Init => IInv
<1> SUFFICES ASSUME Init PROVE IInv
  OBVIOUS
<1>1. /\ index = 0 /\ callback = {} /\ minStep = Slice /\ dt = Slice
      /\ main = [at |-> "idle", id |-> 0, period |-> 0]
      /\ time = 0 /\ at = "sleep" /\ scan = 0 /\ steady = Ids
      /\ period = [t \in Ids |-> 0] /\ last = [t \in Ids |-> 0]
      /\ fired = [t \in Ids |-> None] /\ paced = {}
  BY DEF Init, TimersInit, Idle
<1>2. TypeOK
  BY <1>1, Numbers DEF TypeOK, Steps
<1>3. StoredInOrder
  BY <1>1 DEF StoredInOrder
<1>4. StepFits
  BY <1>1, Numbers DEF StepFits
<1>5. \A t \in Ids : OnTime(t)
  BY <1>1 DEF OnTime
<1> QED
  BY <1>2, <1>3, <1>4, <1>5 DEF IInv

-----------------------------------------------------------------------------
(* Steps of the main thread.  None of them moves the tick thread, and a    *)
(* timer it changes loses its history.                                     *)

(* A timer that is not touched stays on time.                              *)
LEMMA Untouched ==
  ASSUME IInv, NEW t \in Ids,
         UNCHANGED <<time, at, dt, scan, paced>>,
         fired'[t] = fired[t], last'[t] = last[t], period'[t] = period[t],
         callback \subseteq callback',
         t \in steady => t \in steady',
         fired[t] # None /\ main'.at = "step" => main'.id # t
  PROVE  OnTime(t)'
<1>1. OnTime(t)
  BY DEF IInv
<1>2. LookedAt(t)' <=> LookedAt(t)
  BY DEF LookedAt
<1> QED
  BY <1>1, <1>2 DEF OnTime

LEMMA RegisterStep ==
  ASSUME IInv, NEW p \in Periods, Register(p)
  PROVE  IInv'
<1>1. /\ main.at = "idle" /\ index < MaxTimers /\ index' = index + 1
      /\ main' = [at |-> "fields", id |-> index, period |-> p]
      /\ UNCHANGED <<period, last, callback, minStep, time, at, dt, left, scan,
                     steady, fired, paced>>
  BY DEF Register, tick, Idle
<1>2. TypeOK /\ StoredInOrder /\ StepFits
  BY DEF IInv
<1>3. p \in Nat /\ index \in Ids
  BY <1>1, <1>2, Numbers DEF TypeOK
<1>4. /\ main'.at = "fields" /\ main'.id = index /\ main'.period = p
      /\ main' \in [at : {"idle", "fields", "callback", "step"}, id : Ids,
                    period : Nat]
  BY <1>1, <1>3
<1>5. TypeOK'
  <2>1. index' \in 0..MaxTimers
    BY <1>1, <1>2, Numbers DEF TypeOK
  <2> QED
    BY <1>1, <1>2, <1>4, <2>1, Zenon DEF TypeOK
<1>6. StoredInOrder'
  <2>1. /\ index \in Nat /\ index \notin callback /\ callback \subseteq Ids
        /\ \A t \in callback : t < index
    BY <1>2, Numbers DEF TypeOK, StoredInOrder
  <2>2. \A t \in callback : t < index' /\ period'[t] \in Periods
    <3>1. \A t \in callback : t \in Int
      BY <2>1, Numbers
    <3> QED
      BY <1>1, <1>2, <2>1, <3>1 DEF StoredInOrder
  <2>3. main'.id < index' /\ main'.id \notin callback
    BY <1>1, <1>4, <2>1
  <2>4. \A t \in callback : minStep <= period[t]
    BY <1>1, <1>2 DEF StoredInOrder
  <2> QED
    BY <1>1, <1>4, <2>2, <2>3, <2>4 DEF StoredInOrder
<1>7. StepFits'
  BY <1>1, <1>2 DEF StepFits
<1>8. ASSUME NEW t \in Ids PROVE OnTime(t)'
  BY <1>1, <1>4, Untouched
<1> QED
  BY <1>5, <1>6, <1>7, <1>8 DEF IInv

LEMMA FieldsStep ==
  ASSUME IInv, RegisterFields
  PROVE  IInv'
<1>1. /\ main.at = "fields"
      /\ period' = [period EXCEPT ![main.id] = main.period]
      /\ last' = [last EXCEPT ![main.id] = Now]
      /\ main' = [main EXCEPT !.at = "callback"]
      /\ UNCHANGED <<index, callback, minStep, time, at, dt, left, scan,
                     steady, fired, paced>>
  BY DEF RegisterFields, tick
<1>2. TypeOK /\ StoredInOrder /\ StepFits
  BY DEF IInv
<1>3. /\ main'.at = "callback" /\ main'.id = main.id
      /\ main'.period = main.period
      /\ main.id \in Ids /\ main.period \in Nat /\ main.id \notin callback
      /\ main' \in [at : {"idle", "fields", "callback", "step"}, id : Ids,
                    period : Nat]
  BY <1>1, <1>2 DEF TypeOK, StoredInOrder
<1>4. /\ period' \in [Ids -> Nat] /\ last' \in [Ids -> Int]
      /\ period'[main.id] = main.period
      /\ \A t \in Ids : t # main.id =>
           period'[t] = period[t] /\ last'[t] = last[t]
  <2> DEFINE i == main.id
             x == main.period
  <2>1. /\ i \in Ids /\ x \in Nat /\ Now \in Int
        /\ period \in [Ids -> Nat] /\ last \in [Ids -> Int]
    BY <1>2, <1>3, Numbers DEF TypeOK
  <2>2. /\ period' = [period EXCEPT ![i] = x]
        /\ last' = [last EXCEPT ![i] = Now]
    BY <1>1
  <2> HIDE DEF i, x
  <2>3. /\ period' \in [Ids -> Nat] /\ last' \in [Ids -> Int]
        /\ period'[i] = x
        /\ \A t \in Ids : t # i => period'[t] = period[t] /\ last'[t] = last[t]
    BY <2>1, <2>2
  <2> QED
    BY <2>3 DEF i, x
<1>5. \A t \in callback : t \in Ids /\ t # main.id /\ period'[t] = period[t]
  BY <1>2, <1>3, <1>4 DEF TypeOK
<1>6. TypeOK'
  BY <1>1, <1>2, <1>3, <1>4 DEF TypeOK
<1>7. StoredInOrder'
  BY <1>1, <1>2, <1>3, <1>4, <1>5 DEF StoredInOrder
<1>8. StepFits'
  BY <1>1, <1>2, <1>5 DEF StepFits
<1>9. ASSUME NEW t \in Ids PROVE OnTime(t)'
  <2>1. CASE t = main.id
    <3>1. fired[t] = None
      BY <1>3, <2>1 DEF IInv, OnTime
    <3> QED
      BY <1>1, <3>1 DEF OnTime
  <2>2. CASE t # main.id
    BY <1>1, <1>3, <1>4, <2>2, Untouched
  <2> QED
    BY <2>1, <2>2
<1> QED
  BY <1>6, <1>7, <1>8, <1>9 DEF IInv

LEMMA CallbackStep ==
  ASSUME IInv, RegisterCallback
  PROVE  IInv'
<1>1. /\ main.at = "callback"
      /\ callback' = callback \union {main.id}
      /\ main' = [main EXCEPT !.at = "step"]
      /\ steady' = steady \ {main.id}
      /\ fired' = [fired EXCEPT ![main.id] = None]
      /\ UNCHANGED <<index, period, last, minStep, time, at, dt, left, scan,
                     paced>>
  BY DEF RegisterCallback, tick
<1>2. TypeOK /\ StoredInOrder /\ StepFits
  BY DEF IInv
<1>3. /\ main'.at = "step" /\ main'.id = main.id
      /\ main'.period = main.period /\ main.period \in Periods
      /\ main.id \in Ids /\ main.id < index /\ period[main.id] = main.period
      /\ main' \in [at : {"idle", "fields", "callback", "step"}, id : Ids,
                    period : Nat]
  BY <1>1, <1>2 DEF TypeOK, StoredInOrder
<1>4. /\ fired' \in [Ids -> Int \union {None}] /\ fired'[main.id] = None
      /\ \A t \in Ids : t # main.id => fired'[t] = fired[t]
  BY <1>1, <1>2, <1>3 DEF TypeOK
<1>5. TypeOK'
  BY <1>1, <1>2, <1>3, <1>4 DEF TypeOK
<1>6. StoredInOrder'
  BY <1>1, <1>2, <1>3 DEF StoredInOrder
<1>7. StepFits'
  BY <1>1, <1>2 DEF StepFits
<1>8. ASSUME NEW t \in Ids PROVE OnTime(t)'
  <2>1. CASE t = main.id
    BY <1>4, <2>1 DEF OnTime
  <2>2. CASE t # main.id
    BY <1>1, <1>3, <1>4, <2>2, Untouched
  <2> QED
    BY <2>1, <2>2
<1> QED
  BY <1>5, <1>6, <1>7, <1>8 DEF IInv

LEMMA ConfigureStep ==
  ASSUME IInv, NEW p \in Periods, Configure(0, p)
  PROVE  IInv'
<1>1. /\ main.at = "idle"
      /\ period' = [period EXCEPT ![0] = p]
      /\ main' = [at |-> "step", id |-> 0, period |-> p]
      /\ steady' = steady \ {0}
      /\ fired' = [fired EXCEPT ![0] = None]
      /\ UNCHANGED <<index, last, callback, minStep, time, at, dt, left, scan,
                     paced>>
  BY DEF Configure, tick, Idle
<1>2. TypeOK /\ StoredInOrder /\ StepFits
  BY DEF IInv
<1>3. p \in Nat /\ 0 \in Ids
  BY Numbers
<1>4. /\ main'.at = "step" /\ main'.id = 0 /\ main'.period = p
      /\ main' \in [at : {"idle", "fields", "callback", "step"}, id : Ids,
                    period : Nat]
  BY <1>1, <1>3
<1>5. /\ fired' \in [Ids -> Int \union {None}] /\ fired'[0] = None
      /\ period' \in [Ids -> Nat] /\ period'[0] = p
      /\ \A t \in Ids : t # 0 => fired'[t] = fired[t] /\ period'[t] = period[t]
  BY <1>1, <1>2, <1>3 DEF TypeOK
<1>6. TypeOK'
  BY <1>1, <1>2, <1>4, <1>5 DEF TypeOK
<1>7. StoredInOrder'
  <2>1. callback \subseteq Ids
    BY <1>2 DEF TypeOK
  <2> QED
    BY <1>1, <1>2, <1>4, <1>5, <2>1 DEF StoredInOrder
<1>8. StepFits'
  <2>1. callback \subseteq Ids
    BY <1>2 DEF TypeOK
  <2> QED
    BY <1>1, <1>2, <1>5, <2>1 DEF StepFits
<1>9. ASSUME NEW t \in Ids PROVE OnTime(t)'
  <2>1. CASE t = 0
    BY <1>5, <2>1 DEF OnTime
  <2>2. CASE t # 0
    BY <1>1, <1>4, <1>5, <2>2, Untouched
  <2> QED
    BY <2>1, <2>2
<1> QED
  BY <1>6, <1>7, <1>8, <1>9 DEF IInv

LEMMA LowerStepStep ==
  ASSUME IInv, LowerStep
  PROVE  IInv'
<1>1. /\ main.at = "step" /\ main' = Idle
      /\ minStep' = IF main.period < minStep THEN main.period ELSE minStep
      /\ UNCHANGED <<index, period, last, callback, time, at, dt, left, scan,
                     steady, fired, paced>>
  BY DEF LowerStep, tick
<1>2. TypeOK /\ StoredInOrder /\ StepFits
  BY DEF IInv
<1>3. main' = [at |-> "idle", id |-> 0, period |-> 0] /\ 0 \in Ids
  BY <1>1, Numbers DEF Idle
<1>4. /\ main'.at = "idle"
      /\ main' \in [at : {"idle", "fields", "callback", "step"}, id : Ids,
                    period : Nat]
  BY <1>3
<1>5. main.period \in Periods /\ period[main.id] = main.period
  BY <1>1, <1>2 DEF StoredInOrder
<1>6. /\ minStep \in Steps /\ minStep' \in Steps /\ minStep' \in Nat
      /\ minStep \in Nat /\ minStep' <= minStep /\ minStep' <= main.period
  <2>1. minStep \in Nat /\ main.period \in Nat /\ minStep \in Steps
    BY <1>2, <1>5, Numbers DEF TypeOK
  <2>2. main.period \in Steps
    BY <1>5 DEF Steps
  <2> QED
    BY <1>1, <2>1, <2>2
<1>7. TypeOK'
  BY <1>1, <1>2, <1>4, <1>6 DEF TypeOK
<1>8. StoredInOrder'
  <2>1. ASSUME NEW t \in callback PROVE minStep' <= period[t]
    <3>1. period[t] \in Nat
      BY <1>2 DEF TypeOK
    <3>2. CASE t = main.id
      BY <1>5, <1>6, <3>2
    <3>3. CASE t # main.id
      <4>1. minStep <= period[t]
        BY <1>2, <3>3 DEF StoredInOrder
      <4> QED
        BY <1>6, <3>1, <4>1
    <3> QED
      BY <3>2, <3>3
  <2> QED
    BY <1>1, <1>2, <1>4, <2>1 DEF StoredInOrder
<1>9. StepFits'
  <2>1. dt \in Nat
    BY <1>2, Numbers DEF TypeOK
  <2> QED
    BY <1>1, <1>2, <1>6, <2>1 DEF StepFits
<1>10. ASSUME NEW t \in Ids PROVE OnTime(t)'
  BY <1>1, <1>4, Untouched
<1> QED
  BY <1>7, <1>8, <1>9, <1>10 DEF IInv
-----------------------------------------------------------------------------
(* Steps of the tick thread. *)

LEMMA BeginSliceStep ==
  ASSUME IInv, BeginSlice
  PROVE  IInv'
<1>1. /\ at = "sleep" /\ at' = "step" /\ dt' = minStep
      /\ steady' = IF main.at = "step" THEN Ids \ {main.id} ELSE Ids
      /\ paced' = IF minStep = dt THEN paced ELSE {}
      /\ UNCHANGED <<index, period, last, callback, minStep, time, scan, main,
                     fired>>
  BY DEF BeginSlice, table
<1>2. TypeOK /\ StoredInOrder /\ StepFits
  BY DEF IInv
<1>3. TypeOK'
  BY <1>1, <1>2 DEF TypeOK
<1>4. StoredInOrder'
  BY <1>1, <1>2 DEF StoredInOrder
<1>5. StepFits'
  <2>1. minStep \in Nat
    BY <1>2, Numbers DEF TypeOK
  <2>2. \A t \in steady' \intersect callback : minStep <= period[t]
    BY <1>1, <1>2 DEF StoredInOrder
  <2> QED
    BY <1>1, <2>1, <2>2 DEF StepFits
<1>6. ASSUME NEW t \in Ids PROVE OnTime(t)'
  <2> SUFFICES ASSUME fired'[t] # None PROVE OnTime(t)'
    BY DEF OnTime
  <2>1. /\ t \in callback /\ fired[t] \in Int /\ last[t] = fired[t]
        /\ fired[t] <= time
        /\ t \in paced => Divides(dt, time - fired[t])
        /\ main.at = "step" => main.id # t
        /\ time - fired[t] < period[t]
    BY <1>1 DEF IInv, OnTime, LookedAt
  <2>2. time - fired[t] < period[t] + minStep
    <3>1. minStep \in Nat /\ period[t] \in Nat /\ time \in Nat
      BY <1>2, Numbers DEF TypeOK
    <3> QED
      BY <2>1, <3>1
  <2>3. t \in paced' => Divides(minStep, time - fired[t])
    BY <1>1, <2>1
  <2>4. t \in steady'
    BY <1>1, <2>1
  <2> QED
    BY <1>1, <2>1, <2>2, <2>3, <2>4 DEF OnTime
<1> QED
  BY <1>3, <1>4, <1>5, <1>6 DEF IInv

LEMMA StepStep ==
  ASSUME IInv, Step
  PROVE  IInv'
<1>1. /\ at = "step" /\ at' = "scan" /\ time' = time + dt /\ scan' = 0
      /\ UNCHANGED <<index, period, last, callback, minStep, dt, main, steady,
                     fired, paced>>
  BY DEF Step, table
<1>2. TypeOK /\ StoredInOrder /\ StepFits
  BY DEF IInv
<1>3. time \in Nat /\ dt \in Nat \ {0} /\ time' \in Nat /\ scan' \in Nat
  BY <1>1, <1>2, Numbers DEF TypeOK
<1>4. TypeOK'
  BY <1>1, <1>2, <1>3 DEF TypeOK
<1>5. StoredInOrder'
  BY <1>1, <1>2 DEF StoredInOrder
<1>6. StepFits'
  BY <1>1, <1>2 DEF StepFits
<1>7. ASSUME NEW t \in Ids PROVE OnTime(t)'
  <2> SUFFICES ASSUME fired'[t] # None PROVE OnTime(t)'
    BY DEF OnTime
  <2>1. /\ t \in callback /\ fired[t] \in Int /\ last[t] = fired[t]
        /\ fired[t] <= time
        /\ t \in paced => Divides(dt, time - fired[t])
        /\ main.at = "step" => main.id # t
        /\ t \in steady /\ time - fired[t] < period[t]
    BY <1>1 DEF IInv, OnTime, LookedAt
  <2>2. period[t] \in Nat
    BY <1>2 DEF TypeOK
  <2> DEFINE x == time - fired[t]
  <2>3. x \in Nat /\ x < period[t] /\ (t \in paced => Divides(dt, x))
    BY <1>3, <2>1
  <2>4. x + dt = time' - fired[t] /\ fired[t] <= time'
    BY <1>1, <1>3, <2>1
  <2> HIDE DEF x
  <2>5. t \in paced => Divides(dt, x + dt)
    BY <1>3, <2>3, DividesNext
  <2>6. x + dt < period[t] + dt
    BY <1>3, <2>2, <2>3
  <2>7. ~LookedAt(t)'
    BY <1>1, Numbers DEF LookedAt
  <2> QED
    BY <1>1, <2>1, <2>4, <2>5, <2>6, <2>7 DEF OnTime
<1> QED
  BY <1>4, <1>5, <1>6, <1>7 DEF IInv

(* The tick thread goes on, having looked at the timers it claims.         *)
LEMMA GoesOn ==
  ASSUME IInv,
         UNCHANGED <<index, period, last, callback, minStep, time, dt, main,
                     steady, fired, paced>>,
         at # "sleep", at' \in {"sleep", "step", "scan", "callback"},
         scan' \in Nat,
         \A t \in Ids : fired[t] # None /\ LookedAt(t)' =>
                         LookedAt(t) \/ time - fired[t] < period[t]
  PROVE  IInv'
<1>1. TypeOK /\ StoredInOrder /\ StepFits
  BY DEF IInv
<1>2. TypeOK'
  BY <1>1 DEF TypeOK
<1>3. StoredInOrder'
  BY <1>1 DEF StoredInOrder
<1>4. StepFits'
  BY <1>1 DEF StepFits
<1>5. ASSUME NEW t \in Ids PROVE OnTime(t)'
  BY DEF IInv, OnTime
<1> QED
  BY <1>2, <1>3, <1>4, <1>5 DEF IInv

LEMMA EndSliceStep ==
  ASSUME IInv, EndSlice
  PROVE  IInv'
<1>1. /\ at = "step" /\ at' = "sleep"
      /\ UNCHANGED <<index, period, last, callback, minStep, time, dt, scan,
                     main, steady, fired, paced>>
  BY DEF EndSlice, table
<1>2. scan' \in Nat
  BY <1>1 DEF IInv, TypeOK
<1>3. \A t \in Ids : LookedAt(t)
  BY <1>1 DEF LookedAt
<1> QED
  BY <1>1, <1>2, <1>3, GoesOn

LEMMA EndScanStep ==
  ASSUME IInv, EndScan
  PROVE  IInv'
<1>1. /\ at = "scan" /\ at' = "step" /\ scan >= index
      /\ UNCHANGED <<index, period, last, callback, minStep, time, dt, scan,
                     main, steady, fired, paced>>
  BY DEF EndScan, table
<1>2. scan \in Nat /\ index \in Nat
  BY DEF IInv, TypeOK
<1>3. ASSUME NEW t \in Ids, fired[t] # None PROVE LookedAt(t)
  <2>1. t < index /\ t \in Int
    BY <1>3, Numbers DEF IInv, OnTime, StoredInOrder
  <2> QED
    BY <1>1, <1>2, <2>1 DEF LookedAt
<1> QED
  BY <1>1, <1>2, <1>3, GoesOn

LEMMA SkipStep ==
  ASSUME IInv, Skip
  PROVE  IInv'
<1>1. /\ at = "scan" /\ at' = "scan" /\ scan' = scan + 1
      /\ ~(scan \in callback /\ Due(scan))
      /\ UNCHANGED <<index, period, last, callback, minStep, time, dt, main,
                     steady, fired, paced>>
  BY DEF Skip, table
<1>2. scan \in Nat
  BY DEF IInv, TypeOK
<1>3. ASSUME NEW t \in Ids, fired[t] # None, LookedAt(t)'
      PROVE  LookedAt(t) \/ time - fired[t] < period[t]
  <2>1. t < scan + 1 /\ t \in Int
    BY <1>1, <1>3, Numbers DEF LookedAt
  <2>2. CASE t < scan
    BY <1>1, <2>2 DEF LookedAt
  <2>3. CASE t = scan
    <3>1. t \in callback /\ fired[t] \in Int
      BY <1>3 DEF IInv, OnTime
    <3>2. ~(time - fired[t] >= period[t])
      BY <1>1, <1>3, <2>3, <3>1, DueIsExact
    <3>3. time \in Nat /\ period[t] \in Nat
      BY DEF IInv, TypeOK
    <3> QED
      BY <3>1, <3>2, <3>3
  <2> QED
    BY <1>2, <2>1, <2>2, <2>3
<1>4. scan' \in Nat
  BY <1>1, <1>2
<1> QED
  BY <1>1, <1>3, <1>4, GoesOn

LEMMA ReturnStep ==
  ASSUME IInv, Return
  PROVE  IInv'
<1>1. /\ at = "callback" /\ at' = "scan" /\ scan' = scan + 1
      /\ UNCHANGED <<index, period, last, callback, minStep, time, dt, main,
                     steady, fired, paced>>
  BY DEF Return, table
<1>2. scan \in Nat /\ scan' \in Nat
  BY <1>1 DEF IInv, TypeOK
<1>3. ASSUME NEW t \in Ids, LookedAt(t)' PROVE LookedAt(t)
  <2>1. t < scan + 1 /\ t \in Int
    BY <1>1, <1>3, Numbers DEF LookedAt
  <2> QED
    BY <1>1, <1>2, <2>1 DEF LookedAt
<1> QED
  BY <1>1, <1>2, <1>3, GoesOn

LEMMA FireStep ==
  ASSUME IInv, Fire
  PROVE  IInv'
<1>1. /\ at = "scan" /\ at' = "callback" /\ scan \in callback
      /\ last' = [last EXCEPT ![scan] = time]
      /\ fired' = [fired EXCEPT ![scan] =
                     IF scan \in steady THEN time ELSE None]
      /\ paced' = paced \union {scan}
      /\ UNCHANGED <<index, period, callback, minStep, time, dt, scan, main,
                     steady>>
  BY DEF Fire
<1>2. TypeOK /\ StoredInOrder /\ StepFits
  BY DEF IInv
<1>3. scan \in Ids /\ time \in Nat /\ dt \in Nat /\ period[scan] \in Nat \ {0}
  BY <1>1, <1>2, Numbers DEF TypeOK, StoredInOrder
<1>4. /\ last' \in [Ids -> Int] /\ last'[scan] = time
      /\ fired' \in [Ids -> Int \union {None}]
      /\ fired'[scan] = IF scan \in steady THEN time ELSE None
      /\ \A t \in Ids : t # scan => last'[t] = last[t] /\ fired'[t] = fired[t]
  BY <1>1, <1>2, <1>3 DEF TypeOK
<1>5. TypeOK'
  BY <1>1, <1>2, <1>4 DEF TypeOK
<1>6. StoredInOrder'
  BY <1>1, <1>2 DEF StoredInOrder
<1>7. StepFits'
  BY <1>1, <1>2 DEF StepFits
<1>8. ASSUME NEW t \in Ids PROVE OnTime(t)'
  <2>1. CASE t = scan
    <3> SUFFICES ASSUME fired'[t] # None PROVE OnTime(t)'
      BY DEF OnTime
    <3>1. t \in steady /\ fired'[t] = time /\ last'[t] = time
      BY <1>4, <2>1
    <3>2. main.at = "step" => main.id # t
      BY <1>2, <3>1 DEF StoredInOrder
    <3>3. time - time = 0 /\ Divides(dt, 0)
      BY <1>3, DividesZero
    <3> QED
      BY <1>1, <1>3, <2>1, <3>1, <3>2, <3>3 DEF OnTime
  <2>2. CASE t # scan
    <3>1. OnTime(t)
      BY DEF IInv
    <3>2. LookedAt(t)' => LookedAt(t)
      BY <1>1, <1>3, <2>2, Numbers DEF LookedAt
    <3> QED
      BY <1>1, <1>4, <2>2, <3>1, <3>2 DEF OnTime
  <2> QED
    BY <2>1, <2>2
<1> QED
  BY <1>5, <1>6, <1>7, <1>8 DEF IInv

-----------------------------------------------------------------------------
LEMMA TimersIdle == ASSUME IInv, UNCHANGED timers PROVE IInv'
BY Zenon DEF timers, table, tick, IInv, TypeOK, StoredInOrder, StepFits, OnTime,
   LookedAt

LEMMA StepInv == IInv /\ [Next]_vars => IInv'
<1> SUFFICES ASSUME IInv, [Next]_vars PROVE IInv'
  OBVIOUS
<1>1. CASE Main
  <2>1. MainNext
    BY <1>1 DEF Main
  <2> QED
    BY <2>1, RegisterStep, ConfigureStep, FieldsStep, CallbackStep,
       LowerStepStep DEF MainNext
<1>2. CASE TickNext
  BY <1>2, BeginSliceStep, StepStep, EndSliceStep, SkipStep, EndScanStep
     DEF TickNext
<1>3. CASE FirePwm \/ FireOther
  BY <1>3, FireStep DEF FirePwm, FireOther
<1>4. CASE CallbackReturns
  BY <1>4, ReturnStep DEF CallbackReturns
<1>5. CASE UNCHANGED timers
  BY <1>5, TimersIdle
<1> QED
  BY <1>1, <1>2, <1>3, <1>4, <1>5 DEF Next, Tick, Gui, Write, vars

(* The recorded time of a call changes only when the timer is called or    *)
(* changed.                                                                *)
LEMMA OnlyFireRecords ==
  ASSUME IInv, [Next]_vars, ~Fire, NEW t \in Ids, fired'[t] # None
  PROVE  fired'[t] = fired[t]
<1>0. fired \in [Ids -> Int \union {None}]
  BY DEF IInv, TypeOK
<1>1. CASE Main
  <2>1. CASE RegisterCallback
    BY <1>0, <2>1 DEF RegisterCallback
  <2>2. ASSUME NEW p \in Periods, Configure(0, p)
        PROVE  fired'[t] = fired[t]
    BY <1>0, <2>2 DEF Configure
  <2>3. CASE UNCHANGED fired
    BY <2>3
  <2> QED
    BY <1>1, <2>1, <2>2, <2>3
       DEF Main, MainNext, Register, RegisterFields, LowerStep
<1>2. CASE UNCHANGED fired
  BY <1>2
<1> QED
  BY <1>1, <1>2
     DEF Next, Tick, TickNext, BeginSlice, Step, EndSlice, Skip, EndScan,
         FirePwm, FireOther, CallbackReturns, Return, Gui, Write, vars, timers

LEMMA FireKeepsRate ==
  ASSUME IInv, Fire, NEW t \in Ids,
         fired[t] # None, fired'[t] # fired[t], fired'[t] # None
  PROVE  LET apart == fired'[t] - fired[t] IN
         /\ period[t] <= apart /\ apart < period[t] + dt /\ apart < 2 * period[t]
         /\ t \in paced => apart = Interval(t)
<1>1. fired \in [Ids -> Int \union {None}] /\ StepFits /\ OnTime(t)
  BY DEF IInv, TypeOK
<1>2. t = scan /\ fired'[t] = time /\ Due(t) /\ at = "scan"
  BY <1>1 DEF Fire
<1>3. /\ fired[t] \in Int /\ fired[t] <= time /\ t \in steady /\ t \in callback
      /\ time - fired[t] < period[t] + dt
      /\ t \in paced => Divides(dt, time - fired[t])
  BY <1>1, <1>2, Zenon DEF OnTime
<1>4. dt <= period[t]
  BY <1>1, <1>2, <1>3 DEF StepFits
<1>5. /\ dt \in Nat \ {0} /\ period[t] \in Nat /\ time - fired[t] \in Nat
      /\ time - fired[t] >= period[t]
  <2>1. dt \in Nat \ {0} /\ period[t] \in Nat /\ time \in Nat
    BY Numbers DEF IInv, TypeOK
  <2>2. time - fired[t] >= period[t]
    BY <1>2, DueIsExact
  <2>3. time - fired[t] \in Nat
    BY <1>3, <2>1
  <2> QED
    BY <2>1, <2>2, <2>3
<1>6. t \in paced => time - fired[t] = Interval(t)
  BY <1>3, <1>5, RoundedUp DEF Interval
<1> QED
  BY <1>2, <1>3, <1>4, <1>5, <1>6

(* Of two calls of a timer that was not changed since before the slice of  *)
(* the first, the second comes at the first step at which the period is    *)
(* over, for every set of timers: tick_thread's steps and its unsigned     *)
(* test of the elapsed time (platform.cpp).                                *)
THEOREM TimersKeepTheirRate == Spec => KeepsRate
<1>1. IInv /\ [Next]_vars => IInv'
  BY StepInv
<1>2. IInv /\ [Next]_vars => [PeriodApart]_timers
  BY OnlyFireRecords, FireKeepsRate DEF PeriodApart
<1> QED
  BY <1>1, <1>2, InitInv, PTL DEF Spec, KeepsRate

-----------------------------------------------------------------------------
(* No timer is forgotten.  A timer that was never called has a last far    *)
(* ahead of the clock, and is due because the difference wraps around; one *)
(* that was changed was last called before the slice began, and is due in  *)
(* it at the latest, if the steps of the slice are not shorter than its    *)
(* period.                                                                 *)

(* The simulated time of a slice. *)
Advance == (Slice \div dt) * dt

(* The tick thread has looked at timer t in this slice. *)
Scanned(t) ==
  \/ at \in {"scan", "callback"} /\ t < scan
  \/ at = "step" /\ left < Slice \div dt

(* The steps left end with the slice, before the bound of time. *)
SliceTimes ==
  /\ left \in Nat /\ time <= MaxTime
  /\ at # "sleep" => time + left * dt <= MaxTime

LastKnown ==
  /\ main.at = "callback" => last[main.id] = Now
  /\ \A t \in callback : last[t] = Now \/ (0 <= last[t] /\ last[t] <= time)
  /\ at = "callback" /\ scan \in steady => fired[scan] = time

(* A timer that was not called in the slice it was not changed in. *)
WaitsInSlice(t) ==
  /\ last[t] = Now \/ last[t] + Advance <= time + left * dt
  /\ Scanned(t) => last[t] # Now /\ time - last[t] < period[t]

StillWaits(t) ==
  fired[t] = None =>
    /\ at = "sleep" => period[t] > Advance
    /\ at # "sleep" => WaitsInSlice(t)

SliceInv ==
  /\ SliceTimes /\ LastKnown
  /\ \A t \in callback \intersect steady : StillWaits(t)

(* A slice is at least one step, and its steps are not longer than it.     *)
LEMMA StepsOfSlice ==
  ASSUME NEW d \in 1..Slice
  PROVE  /\ Slice \div d \in Nat \ {0}
         /\ (Slice \div d) * d \in Nat /\ (Slice \div d) * d <= Slice
<1> DEFINE q == Slice \div d
           r == Slice % d
<1>1. Slice \in Nat /\ d \in Nat \ {0} /\ d <= Slice
  BY Numbers
<1>2. q \in Nat /\ r \in Nat /\ r < d /\ Slice = d * q + r
  BY <1>1
<1> HIDE DEF q, r
<1>3. q # 0
  BY <1>1, <1>2
<1>4. d * q \in Nat /\ d * q = q * d
  BY <1>1, <1>2
<1>5. q * d \in Nat /\ q * d <= Slice
  BY <1>1, <1>2, <1>4
<1> QED
  BY <1>2, <1>3, <1>5 DEF q

(* A timer that was never called is due, whatever the time. *)
LEMMA FirstCallIsDue ==
  ASSUME IInv, SliceInv, NEW t \in callback, last[t] = Now
  PROVE  Due(t)
<1>1. /\ time \in Nat /\ time <= MaxTime /\ MaxTime \in Nat
      /\ period[t] \in 1..Slice /\ Slice \in Nat /\ Word \in Nat
      /\ Now \in MaxTime + 1 .. Word - Slice - 1
  BY Numbers, VTimersAssumption
     DEF IInv, TypeOK, StoredInOrder, SliceInv, SliceTimes
<1>2. (time - Now) % Word = time - Now + Word
  BY <1>1
<1> QED
  BY <1>1, <1>2 DEF Due

(* A timer that was called is due when its period is over. *)
LEMMA NextCallIsDue ==
  ASSUME IInv, SliceInv, NEW t \in callback, last[t] # Now
  PROVE  Due(t) <=> time - last[t] >= period[t]
<1>1. /\ time \in Nat /\ time <= MaxTime /\ MaxTime \in Nat
      /\ last[t] \in Int /\ 0 <= last[t] /\ last[t] <= time
      /\ Word \in Nat /\ MaxTime < Word
  BY Numbers, VTimersAssumption
     DEF IInv, TypeOK, SliceInv, SliceTimes, LastKnown
<1>2. (time - last[t]) % Word = time - last[t]
  BY <1>1
<1> QED
  BY <1>2 DEF Due

LEMMA InitSlice == Init => SliceInv
<1> SUFFICES ASSUME Init PROVE SliceInv
  OBVIOUS
<1>1. /\ callback = {} /\ main.at = "idle" /\ time = 0 /\ at = "sleep"
      /\ left = 0
  BY DEF Init, TimersInit, Idle
<1> QED
  BY <1>1, VTimersAssumption DEF SliceInv, SliceTimes, LastKnown

(* What the main thread does to a timer takes it out of the slice. *)
LEMMA MainKeepsSlice ==
  ASSUME IInv, SliceInv, UNCHANGED tick,
         main'.at = "callback" => last'[main'.id] = Now,
         \A t \in callback' : \/ t \in callback /\ last'[t] = last[t]
                              \/ last'[t] = Now,
         \A t \in steady' : t \in steady /\ fired'[t] = fired[t],
         \A t \in callback' \intersect steady' :
           t \in callback /\ last'[t] = last[t] /\ period'[t] = period[t]
  PROVE  SliceInv'
<1>1. UNCHANGED <<time, at, dt, left, scan>>
  BY DEF tick
<1>2. SliceTimes'
  BY <1>1 DEF SliceInv, SliceTimes
<1>3. LastKnown'
  BY <1>1 DEF SliceInv, LastKnown
<1>4. ASSUME NEW t \in callback' \intersect steady' PROVE StillWaits(t)'
  <2>1. /\ StillWaits(t) /\ fired'[t] = fired[t]
        /\ last'[t] = last[t] /\ period'[t] = period[t]
    BY DEF SliceInv
  <2>2. Scanned(t)' <=> Scanned(t)
    BY <1>1 DEF Scanned
  <2> QED
    BY <1>1, <2>1, <2>2 DEF StillWaits, WaitsInSlice, Advance
<1> QED
  BY <1>2, <1>3, <1>4 DEF SliceInv

LEMMA MainSlice ==
  ASSUME IInv, SliceInv, MainNext
  PROVE  SliceInv'
<1>0. TypeOK /\ StoredInOrder /\ LastKnown
  BY DEF IInv, SliceInv
<1>1. ASSUME NEW p \in Periods, Register(p) PROVE SliceInv'
  <2>1. /\ main' = [at |-> "fields", id |-> index, period |-> p]
        /\ UNCHANGED <<tick, period, last, callback, steady, fired>>
    BY <1>1 DEF Register
  <2> QED
    BY <2>1, MainKeepsSlice
<1>2. ASSUME NEW p \in Periods, Configure(0, p) PROVE SliceInv'
  <2>1. /\ main' = [at |-> "step", id |-> 0, period |-> p]
        /\ steady' = steady \ {0}
        /\ period' = [period EXCEPT ![0] = p]
        /\ fired' = [fired EXCEPT ![0] = None]
        /\ UNCHANGED <<tick, last, callback>>
    BY <1>2 DEF Configure
  <2>2. \A t \in Ids : t # 0 => fired'[t] = fired[t] /\ period'[t] = period[t]
    BY <1>0, <2>1 DEF TypeOK
  <2>3. main'.at # "callback" /\ steady \subseteq Ids /\ callback \subseteq Ids
    BY <1>0, <2>1 DEF TypeOK
  <2> QED
    BY <2>1, <2>2, <2>3, MainKeepsSlice
<1>3. CASE RegisterFields
  <2> DEFINE i == main.id
             x == main.period
  <2>1. /\ main.at = "fields" /\ i \in Ids /\ i \notin callback
        /\ main' = [main EXCEPT !.at = "callback"]
        /\ period' = [period EXCEPT ![i] = x]
        /\ last' = [last EXCEPT ![i] = Now]
        /\ UNCHANGED <<tick, callback, steady, fired>>
    BY <1>0, <1>3 DEF RegisterFields, TypeOK, StoredInOrder
  <2>2. main'.id = i
    BY <1>0, <2>1 DEF TypeOK
  <2> HIDE DEF i, x
  <2>3. /\ last'[i] = Now
        /\ \A t \in Ids : t # i => last'[t] = last[t] /\ period'[t] = period[t]
    BY <1>0, <2>1 DEF TypeOK
  <2>4. \A t \in callback : last'[t] = last[t] /\ period'[t] = period[t]
    BY <1>0, <2>1, <2>3 DEF TypeOK
  <2> QED
    BY <2>1, <2>2, <2>3, <2>4, MainKeepsSlice
<1>4. CASE RegisterCallback
  <2> DEFINE i == main.id
  <2>1. /\ main.at = "callback" /\ i \in Ids /\ last[i] = Now
        /\ main' = [main EXCEPT !.at = "step"]
        /\ callback' = callback \union {i}
        /\ steady' = steady \ {i}
        /\ fired' = [fired EXCEPT ![i] = None]
        /\ UNCHANGED <<tick, period, last>>
    BY <1>0, <1>4 DEF RegisterCallback, TypeOK, LastKnown
  <2>2. main'.at = "step"
    BY <1>0, <2>1 DEF TypeOK
  <2> HIDE DEF i
  <2>3. \A t \in steady' : t \in steady /\ t # i /\ fired'[t] = fired[t]
    BY <1>0, <2>1 DEF TypeOK
  <2> QED
    BY <2>1, <2>2, <2>3, MainKeepsSlice
<1>5. CASE LowerStep
  <2>1. /\ main'.at = "idle"
        /\ UNCHANGED <<tick, period, last, callback, steady, fired>>
    BY <1>5 DEF LowerStep, Idle
  <2> QED
    BY <2>1, MainKeepsSlice
<1> QED
  BY <1>1, <1>2, <1>3, <1>4, <1>5 DEF MainNext

LEMMA BeginSliceSlice ==
  ASSUME IInv, SliceInv, BeginSlice
  PROVE  SliceInv'
<1>1. /\ at = "sleep" /\ at' = "step" /\ dt' = minStep
      /\ time + Slice <= MaxTime /\ left' = Slice \div minStep
      /\ UNCHANGED <<period, last, callback, time, main, fired>>
  BY DEF BeginSlice, table
<1>2. /\ left' \in Nat /\ left' * dt' \in Nat /\ left' * dt' <= Slice
      /\ Advance' = left' * dt'
  <2>1. minStep \in 1..Slice
    BY Numbers DEF IInv, TypeOK
  <2> QED
    BY <1>1, <2>1, StepsOfSlice DEF Advance
<1>3. time \in Nat /\ Slice \in Nat /\ MaxTime \in Nat
  BY Numbers, VTimersAssumption DEF IInv, TypeOK
<1>4. SliceTimes'
  <2>1. time <= MaxTime /\ time + left' * dt' <= MaxTime
    <3> DEFINE n == left' * dt'
    <3>1. n \in Nat /\ n <= Slice
      BY <1>2
    <3> HIDE DEF n
    <3>2. time <= MaxTime /\ time + n <= MaxTime
      BY <1>1, <1>3, <3>1
    <3> QED
      BY <3>2 DEF n
  <2> QED
    BY <1>1, <1>2, <2>1 DEF SliceTimes
<1>5. LastKnown'
  BY <1>1 DEF SliceInv, LastKnown
<1>6. ASSUME NEW t \in callback' \intersect steady' PROVE StillWaits(t)'
  <2>1. last[t] = Now \/ last[t] + Advance' <= time' + left' * dt'
    <3> DEFINE n == left' * dt'
    <3>1. last[t] \in Int /\ (last[t] = Now \/ last[t] <= time)
      BY <1>1 DEF IInv, TypeOK, SliceInv, LastKnown
    <3>2. n \in Nat
      BY <1>2
    <3> HIDE DEF n
    <3>3. last[t] = Now \/ last[t] + n <= time + n
      BY <1>3, <3>1, <3>2
    <3> QED
      BY <1>1, <1>2, <3>3 DEF n
  <2>2. ~Scanned(t)'
    BY <1>1, <1>2 DEF Scanned
  <2> QED
    BY <1>1, <2>1, <2>2 DEF StillWaits, WaitsInSlice
<1> QED
  BY <1>4, <1>5, <1>6 DEF SliceInv

LEMMA StepSlice ==
  ASSUME IInv, SliceInv, Step
  PROVE  SliceInv'
<1>1. /\ at = "step" /\ at' = "scan" /\ left > 0 /\ left' = left - 1
      /\ time' = time + dt /\ scan' = 0
      /\ UNCHANGED <<period, last, callback, dt, main, steady, fired>>
  BY DEF Step, table
<1>2. time \in Nat /\ dt \in Nat /\ left \in Nat
  BY Numbers DEF IInv, TypeOK, SliceInv, SliceTimes
<1>3. /\ time' + left' * dt' = time + left * dt
      /\ left' \in Nat /\ left' * dt' >= 0
  <2>1. (left - 1) * dt = left * dt - dt
    BY <1>2
  <2>2. left - 1 \in Nat
    BY <1>1, <1>2
  <2>3. (left - 1) * dt >= 0 /\ (left - 1) * dt \in Int /\ left * dt \in Int
    BY <1>2, <2>2
  <2> QED
    BY <1>1, <1>2, <2>1, <2>2, <2>3
<1>4. SliceTimes'
  <2>1. time + left * dt <= MaxTime /\ MaxTime \in Nat
    BY <1>1, VTimersAssumption DEF SliceInv, SliceTimes
  <2>2. time' \in Nat /\ left' * dt' \in Int
    BY <1>1, <1>2, <1>3
  <2>3. time' <= MaxTime /\ time' + left' * dt' <= MaxTime
    BY <1>3, <2>1, <2>2
  <2> QED
    BY <1>3, <2>3 DEF SliceTimes
<1>5. LastKnown'
  <2>1. \A t \in callback : last[t] \in Int
    BY DEF IInv, TypeOK
  <2> QED
    BY <1>1, <1>2, <2>1 DEF SliceInv, LastKnown
<1>6. ASSUME NEW t \in callback' \intersect steady' PROVE StillWaits(t)'
  <2>1. StillWaits(t)
    BY <1>1 DEF SliceInv
  <2>2. ~Scanned(t)'
    BY <1>1, Numbers DEF IInv, TypeOK, Scanned
  <2> QED
    BY <1>1, <1>3, <2>1, <2>2 DEF StillWaits, WaitsInSlice, Advance
<1> QED
  BY <1>4, <1>5, <1>6 DEF SliceInv

(* The tick thread goes on within the step: what it has looked at besides  *)
(* is not due.                                                             *)
LEMMA GoesOnSlice ==
  ASSUME IInv, SliceInv, at # "sleep", at' \in {"step", "scan"},
         UNCHANGED <<period, last, callback, time, dt, left, main, steady,
                     fired>>,
         \A t \in callback \intersect steady :
           fired[t] = None /\ Scanned(t)' =>
             Scanned(t) \/ (last[t] # Now /\ time - last[t] < period[t])
  PROVE  SliceInv'
<1>1. SliceTimes'
  BY DEF SliceInv, SliceTimes
<1>2. LastKnown'
  BY DEF SliceInv, LastKnown
<1>3. ASSUME NEW t \in callback' \intersect steady' PROVE StillWaits(t)'
  BY DEF SliceInv, StillWaits, WaitsInSlice, Advance
<1> QED
  BY <1>1, <1>2, <1>3 DEF SliceInv

LEMMA SkipSlice ==
  ASSUME IInv, SliceInv, Skip
  PROVE  SliceInv'
<1>1. /\ at = "scan" /\ at' = "scan" /\ scan' = scan + 1
      /\ ~(scan \in callback /\ Due(scan))
      /\ UNCHANGED <<period, last, callback, time, dt, left, main, steady,
                     fired>>
  BY DEF Skip, table
<1>2. ASSUME NEW t \in callback \intersect steady, Scanned(t)'
      PROVE  Scanned(t) \/ (last[t] # Now /\ time - last[t] < period[t])
  <2>1. t < scan + 1 /\ t \in Int /\ scan \in Nat
    BY <1>1, <1>2, Numbers DEF IInv, TypeOK, Scanned
  <2>2. CASE t < scan
    BY <1>1, <2>2 DEF Scanned
  <2>3. CASE t = scan
    <3>1. ~Due(t)
      BY <1>1, <2>3
    <3>2. last[t] # Now /\ ~(time - last[t] >= period[t])
      BY <3>1, FirstCallIsDue, NextCallIsDue
    <3>3. time \in Nat /\ last[t] \in Int /\ period[t] \in Nat
      BY DEF IInv, TypeOK
    <3> QED
      BY <3>2, <3>3
  <2> QED
    BY <2>1, <2>2, <2>3
<1> QED
  BY <1>1, <1>2, GoesOnSlice

LEMMA ReturnSlice ==
  ASSUME IInv, SliceInv, Return
  PROVE  SliceInv'
<1>1. /\ at = "callback" /\ at' = "scan" /\ scan' = scan + 1
      /\ UNCHANGED <<period, last, callback, time, dt, left, main, steady,
                     fired>>
  BY DEF Return, table
<1>2. ASSUME NEW t \in callback \intersect steady, fired[t] = None, Scanned(t)'
      PROVE  Scanned(t)
  <2>1. t < scan + 1 /\ t \in Int /\ scan \in Nat /\ time \in Nat
    BY <1>1, <1>2, Numbers DEF IInv, TypeOK, Scanned
  <2>2. t # scan
    BY <1>1, <1>2, <2>1, Numbers DEF SliceInv, LastKnown
  <2> QED
    BY <1>1, <2>1, <2>2 DEF Scanned
<1> QED
  BY <1>1, <1>2, GoesOnSlice

LEMMA EndScanSlice ==
  ASSUME IInv, SliceInv, EndScan
  PROVE  SliceInv'
<1>1. /\ at = "scan" /\ at' = "step" /\ scan >= index
      /\ UNCHANGED <<period, last, callback, time, dt, left, main, steady,
                     fired>>
  BY DEF EndScan, table
<1>2. ASSUME NEW t \in callback PROVE Scanned(t)
  <2>1. t < index /\ t \in Int /\ index \in Nat /\ scan \in Nat
    BY Numbers DEF IInv, TypeOK, StoredInOrder
  <2> QED
    BY <1>1, <2>1 DEF Scanned
<1> QED
  BY <1>1, <1>2, GoesOnSlice

LEMMA EndSliceSlice ==
  ASSUME IInv, SliceInv, EndSlice
  PROVE  SliceInv'
<1>1. /\ at = "step" /\ left = 0 /\ at' = "sleep"
      /\ UNCHANGED <<period, last, callback, time, dt, left, main, steady,
                     fired>>
  BY DEF EndSlice, table
<1>2. SliceTimes'
  BY <1>1 DEF SliceInv, SliceTimes
<1>3. LastKnown'
  BY <1>1 DEF SliceInv, LastKnown
<1>4. ASSUME NEW t \in callback \intersect steady, fired[t] = None
      PROVE  period[t] > Advance
  <2>1. /\ dt \in 1..Slice /\ time \in Nat
        /\ last[t] \in Int /\ period[t] \in Nat
    BY Numbers DEF IInv, TypeOK
  <2>2. left * dt = 0
    BY <1>1, <2>1
  <2>3. Scanned(t) /\ Advance \in Nat
    <3>1. Slice \div dt \in Nat \ {0} /\ Advance \in Nat
      BY <2>1, StepsOfSlice DEF Advance
    <3> QED
      BY <1>1, <3>1 DEF Scanned
  <2>4. last[t] + Advance <= time + 0 /\ time - last[t] < period[t]
    BY <1>1, <1>4, <2>2, <2>3 DEF SliceInv, StillWaits, WaitsInSlice
  <2> QED
    BY <2>1, <2>3, <2>4
<1>5. Advance' = Advance
  BY <1>1 DEF Advance
<1> QED
  BY <1>1, <1>2, <1>3, <1>4, <1>5 DEF SliceInv, StillWaits

LEMMA FireSlice ==
  ASSUME IInv, SliceInv, Fire
  PROVE  SliceInv'
<1>1. /\ at = "scan" /\ at' = "callback" /\ scan \in callback
      /\ last' = [last EXCEPT ![scan] = time]
      /\ fired' = [fired EXCEPT ![scan] =
                     IF scan \in steady THEN time ELSE None]
      /\ UNCHANGED <<period, callback, time, dt, left, scan, main, steady>>
  BY DEF Fire
<1>2. /\ TypeOK /\ StoredInOrder /\ LastKnown /\ scan \in Ids
      /\ time \in Nat /\ time # None
  <2>1. TypeOK /\ StoredInOrder /\ LastKnown
    BY Zenon DEF IInv, SliceInv
  <2>2. time \in Nat /\ callback \subseteq Ids
    BY <2>1, Zenon DEF TypeOK
  <2>3. time \in Int
    BY <2>2
  <2> QED
    BY <1>1, <2>1, <2>2, <2>3, Numbers, Zenon
<1>3. /\ last'[scan] = time
      /\ fired'[scan] = IF scan \in steady THEN time ELSE None
      /\ \A t \in Ids : t # scan => last'[t] = last[t] /\ fired'[t] = fired[t]
  BY <1>1, <1>2 DEF TypeOK
<1>4. SliceTimes'
  BY <1>1 DEF SliceInv, SliceTimes
<1>5. LastKnown'
  <2>1. main.at = "callback" => main.id \in Ids /\ main.id # scan
    BY <1>1, <1>2 DEF TypeOK, StoredInOrder
  <2>2. \A t \in callback : last'[t] = Now \/ (0 <= last'[t] /\ last'[t] <= time)
    BY <1>2, <1>3 DEF TypeOK, LastKnown
  <2> QED
    BY <1>1, <1>2, <1>3, <2>1, <2>2 DEF LastKnown
<1>6. ASSUME NEW t \in callback' \intersect steady' PROVE StillWaits(t)'
  <2>1. StillWaits(t) /\ t \in Ids
    BY <1>1, <1>2 DEF SliceInv, TypeOK
  <2>2. CASE t = scan
    BY <1>1, <1>2, <1>3, <2>2 DEF StillWaits
  <2>3. CASE t # scan
    <3>1. Scanned(t)' <=> Scanned(t)
      BY <1>1 DEF Scanned
    <3> QED
      BY <1>1, <1>3, <2>1, <2>3, <3>1 DEF StillWaits, WaitsInSlice, Advance
  <2> QED
    BY <2>2, <2>3
<1> QED
  BY <1>4, <1>5, <1>6 DEF SliceInv

LEMMA SliceIdle == ASSUME SliceInv, UNCHANGED timers PROVE SliceInv'
BY Zenon DEF timers, table, tick, SliceInv, SliceTimes, LastKnown, StillWaits,
   WaitsInSlice, Advance, Scanned

LEMMA StepSliceInv == IInv /\ SliceInv /\ [Next]_vars => SliceInv'
<1> SUFFICES ASSUME IInv, SliceInv, [Next]_vars PROVE SliceInv'
  OBVIOUS
<1>1. CASE Main
  BY <1>1, MainSlice DEF Main
<1>2. CASE TickNext
  BY <1>2, BeginSliceSlice, StepSlice, EndSliceSlice, SkipSlice, EndScanSlice
     DEF TickNext
<1>3. CASE FirePwm \/ FireOther
  BY <1>3, FireSlice DEF FirePwm, FireOther
<1>4. CASE CallbackReturns
  BY <1>4, ReturnSlice DEF CallbackReturns
<1>5. CASE UNCHANGED timers
  BY <1>5, SliceIdle
<1> QED
  BY <1>1, <1>2, <1>3, <1>4, <1>5 DEF Next, Tick, Gui, Write, vars

(* At the end of a slice every timer that was not changed in it has been   *)
(* called, if its period is not longer than the steps of the slice, and    *)
(* its next call is not overdue, for every set of timers: register_timer,  *)
(* configure_timer_timestep and tick_thread (platform.cpp).                *)
THEOREM NoTimerIsForgotten == Spec => []EveryTimerIsCalled
<1>1. Init => IInv /\ SliceInv
  BY InitInv, InitSlice
<1>2. IInv /\ SliceInv /\ [Next]_vars => (IInv /\ SliceInv)'
  BY StepInv, StepSliceInv
<1>3. IInv /\ SliceInv => EveryTimerIsCalled
  <2> SUFFICES ASSUME IInv, SliceInv, at = "sleep",
                      NEW t \in callback \intersect steady
               PROVE  /\ period[t] <= Advance => fired[t] # None
                      /\ fired[t] # None => time - fired[t] < period[t]
    BY DEF EveryTimerIsCalled, Advance
  <2>1. period[t] <= Advance => fired[t] # None
    <3>1. fired[t] = None => period[t] > Advance
      BY DEF SliceInv, StillWaits
    <3>2. period[t] \in Nat /\ Advance \in Nat
      BY Numbers, StepsOfSlice DEF IInv, TypeOK, Advance
    <3> QED
      BY <3>1, <3>2
  <2>2. OnTime(t) /\ LookedAt(t)
    BY DEF IInv, TypeOK, LookedAt
  <2> QED
    BY <2>1, <2>2 DEF OnTime
<1> QED
  BY <1>1, <1>2, <1>3, PTL DEF Spec

-----------------------------------------------------------------------------
(* Two windows do not begin with one rise.  This needs no clock but one    *)
(* that shows numbers, so it holds for every set of periods.               *)

ClockShowsNumbers ==
  /\ time \in Nat /\ dt \in Nat /\ minStep \in Nat /\ index \in Nat
  /\ main \in [at : {"idle", "fields", "callback", "step"}, id : Nat,
               period : Nat]

WindowBegun ==
  /\ buf \in Seq(Nat)
  /\ IF triggered THEN Len(buf) > 0 ELSE buf = <<>>

(* While the trigger is not set, a sample below was seen since it last was.*)
Rearmed == hystTrig \/ armed

RearmInv == ClockShowsNumbers /\ WindowBegun /\ Rearmed

LEMMA InitRearm == Init => RearmInv
<1> SUFFICES ASSUME Init PROVE RearmInv
  OBVIOUS
<1>1. ClockShowsNumbers
  BY Numbers DEF Init, TimersInit, Idle, ClockShowsNumbers
<1>2. WindowBegun /\ Rearmed
  BY DEF Init, ScopeInit, WindowBegun, Rearmed
<1> QED
  BY <1>1, <1>2 DEF RearmInv

LEMMA ClockStep ==
  ASSUME ClockShowsNumbers, [Next]_vars
  PROVE  ClockShowsNumbers'
<1>1. CASE Main
  <2>1. ASSUME NEW p \in Periods, Register(p) PROVE ClockShowsNumbers'
    <3>1. p \in Nat /\ index + 1 \in Nat
      BY Numbers DEF ClockShowsNumbers
    <3>2. [at |-> "fields", id |-> index, period |-> p] \in
            [at : {"idle", "fields", "callback", "step"}, id : Nat, period : Nat]
      BY <3>1 DEF ClockShowsNumbers
    <3> QED
      BY <2>1, <3>1, <3>2 DEF Register, tick, ClockShowsNumbers
  <2>2. ASSUME NEW p \in Periods, Configure(0, p) PROVE ClockShowsNumbers'
    <3>1. [at |-> "step", id |-> 0, period |-> p] \in
            [at : {"idle", "fields", "callback", "step"}, id : Nat, period : Nat]
      BY Numbers
    <3> QED
      BY <2>2, <3>1 DEF Configure, tick, ClockShowsNumbers
  <2>3. CASE RegisterFields \/ RegisterCallback
    <3>1. \A a \in {"callback", "step"} :
            [main EXCEPT !.at = a] \in
              [at : {"idle", "fields", "callback", "step"}, id : Nat, period : Nat]
      BY DEF ClockShowsNumbers
    <3> QED
      BY <2>3, <3>1 DEF RegisterFields, RegisterCallback, tick, ClockShowsNumbers
  <2>4. CASE LowerStep
    <3>1. main.period \in Nat
      BY DEF ClockShowsNumbers
    <3> QED
      BY <2>4, <3>1 DEF LowerStep, Idle, tick, ClockShowsNumbers
  <2> QED
    BY <1>1, <2>1, <2>2, <2>3, <2>4 DEF Main, MainNext
<1>2. CASE TickNext
  BY <1>2 DEF TickNext, BeginSlice, Step, EndSlice, Skip, EndScan, table,
     ClockShowsNumbers
<1>3. CASE FirePwm \/ FireOther \/ CallbackReturns
  BY <1>3 DEF FirePwm, FireOther, Fire, CallbackReturns, Return, table,
     ClockShowsNumbers
<1>4. CASE UNCHANGED timers
  BY <1>4, Zenon DEF timers, table, tick, ClockShowsNumbers
<1> QED
  BY <1>1, <1>2, <1>3, <1>4 DEF Next, Tick, Gui, Write, vars

(* What a sample of a level taken at a time does to the window. *)
LEMMA TakeCases ==
  ASSUME WindowBegun, NEW level, NEW when \in Nat, Take(level, when)
  PROVE  /\ WindowBegun'
         /\ writer = "take" /\ writer' = "done"
         /\ UNCHANGED <<decimation, counter, loaded, gui, mixed>>
         /\ frozen' => triggered'
         /\ \/ /\ triggered /\ triggered' /\ buf' = Append(buf, when)
               /\ Len(buf') # 1 /\ UNCHANGED hystTrig /\ (armed => armed')
            \/ /\ ~triggered /\ triggered' /\ buf' = <<when>> /\ hystTrig'
               /\ ~hystTrig
            \/ /\ ~triggered /\ ~triggered' /\ buf' = <<>>
               /\ hystTrig' => hystTrig
               /\ hystTrig /\ ~hystTrig' => armed'
               /\ armed => armed'
<1>1. CASE triggered
  <2>1. buf \in Seq(Nat) /\ Len(buf) > 0
    BY <1>1 DEF WindowBegun
  <2>2. /\ buf' = Append(buf, when) /\ triggered' = TRUE
        /\ hystTrig' = hystTrig /\ armed' = (armed \/ level = "below")
        /\ writer = "take" /\ writer' = "done"
        /\ UNCHANGED <<decimation, counter, loaded, gui, mixed>>
    BY <1>1 DEF Take
  <2>3. Append(buf, when) \in Seq(Nat) /\ Len(Append(buf, when)) = Len(buf) + 1
    BY <2>1
  <2>4. Len(buf') # 1 /\ Len(buf') > 0
    BY <2>1, <2>2, <2>3
  <2>5. WindowBegun'
    BY <2>2, <2>3, <2>4 DEF WindowBegun
  <2>6. armed => armed'
    BY <2>2, Zenon
  <2> QED
    BY <1>1, <2>2, <2>4, <2>5, <2>6, Zenon
<1>2. CASE ~triggered /\ level = "above" /\ ~hystTrig
  <2>1. /\ buf' = <<when>> /\ triggered' = TRUE /\ hystTrig' = TRUE
        /\ writer = "take" /\ writer' = "done"
        /\ UNCHANGED <<decimation, counter, loaded, gui, mixed>>
    BY <1>2 DEF Take
  <2>2. <<when>> \in Seq(Nat) /\ Len(<<when>>) = 1
    OBVIOUS
  <2> QED
    BY <1>2, <2>1, <2>2 DEF WindowBegun
<1>3. CASE ~triggered /\ ~(level = "above" /\ ~hystTrig)
  <2>1. /\ buf' = buf /\ ~triggered'
        /\ writer = "take" /\ writer' = "done"
        /\ UNCHANGED <<decimation, counter, loaded, gui, mixed>>
    BY <1>3 DEF Take
  <2>2. frozen' => triggered'
    BY Zenon DEF Take
  <2>3. /\ hystTrig' => hystTrig
        /\ hystTrig /\ ~hystTrig' => level = "below"
    BY <1>3, Zenon DEF Take
  <2>4. (armed => armed') /\ (level = "below" => armed')
    BY <1>3, Zenon DEF Take
  <2>5. WindowBegun' /\ ~triggered' /\ buf' = <<>>
    BY <1>3, <2>1 DEF WindowBegun
  <2> QED
    BY <1>3, <2>1, <2>2, <2>3, <2>4, <2>5, Zenon
<1> QED
  BY <1>1, <1>2, <1>3

LEMMA RearmStep == RearmInv /\ [Next]_vars => RearmInv'
<1> SUFFICES ASSUME RearmInv, [Next]_vars PROVE RearmInv'
  OBVIOUS
<1>1. ClockShowsNumbers'
  BY ClockStep DEF RearmInv
<1>2. CASE \E level \in Levels : Take(level, time)
  <2>1. PICK level \in Levels : Take(level, time)
    BY <1>2
  <2>2. time \in Nat
    BY DEF RearmInv, ClockShowsNumbers
  <2> QED
    BY <1>1, <2>1, <2>2, TakeCases DEF RearmInv, Rearmed
<1>3. CASE UNCHANGED <<buf, triggered, hystTrig, armed>>
  BY <1>1, <1>3 DEF RearmInv, WindowBegun, Rearmed
<1>4. CASE Show
  BY <1>1, <1>4 DEF Show, RearmInv, WindowBegun, Rearmed
<1> QED
  BY <1>2, <1>3, <1>4
     DEF Next, Main, Tick, FirePwm, FireOther, Write, CallbackReturns, Gui,
         GuiNext, StoreDecimation, StoreCounter, LoadCounter, Decimate,
         LoadDecimation, Reload, Leave, scope, vars

WindowBeginsArmed == Len(buf) = 0 /\ Len(buf') = 1 => armed

LEMMA BeginsArmed ==
  ASSUME RearmInv, [Next]_vars, Len(buf) = 0, Len(buf') = 1
  PROVE  armed
<1>1. Len(buf) # 1
  OBVIOUS
<1>2. CASE \E level \in Levels : Take(level, time)
  <2>1. PICK level \in Levels : Take(level, time)
    BY <1>2
  <2>2. time \in Nat
    BY DEF RearmInv, ClockShowsNumbers
  <2>3. Len(<<>>) # 1
    OBVIOUS
  <2> QED
    BY <1>1, <2>1, <2>2, <2>3, TakeCases DEF RearmInv, Rearmed
<1>3. CASE UNCHANGED buf
  BY <1>1, <1>3
<1>4. CASE Show
  BY <1>4 DEF Show
<1> QED
  BY <1>2, <1>3, <1>4
     DEF Next, Main, Tick, FirePwm, FireOther, Write, CallbackReturns, Gui,
         GuiNext, StoreDecimation, StoreCounter, LoadCounter, Decimate,
         LoadDecimation, Reload, Leave, scope, vars

(* Between the triggers of two windows there is a sample below the lower   *)
(* threshold, for every window size and whatever the user interface does   *)
(* (ScopeStream::write).                                                   *)
THEOREM TriggersNeedFalls == Spec => TriggerNeedsFall
<1>1. RearmInv /\ [Next]_vars => RearmInv'
  BY RearmStep
<1>2. RearmInv /\ [Next]_vars => [WindowBeginsArmed]_scope
  BY BeginsArmed DEF WindowBeginsArmed
<1> QED
  BY <1>1, <1>2, InitRearm, PTL DEF Spec, TriggerNeedsFall, WindowBeginsArmed

-----------------------------------------------------------------------------
(* A full window is evenly spaced.  Only the callback of the PWM timer     *)
(* writes, so the samples passed over since the last one taken are counted *)
(* both in decimation_counter and in the intervals since then.             *)

WritesInCallback ==
  /\ writer # "out" => at = "callback" /\ scan = 0
  /\ frozen => writer = "done"
  /\ writer # "out" => 0 \in paced /\ (0 \in steady => fired[0] = time)

(* While a window is filled and neither the timer nor the step is changed, *)
(* the timer is steady and keeps its interval.                             *)
Calm == triggered /\ ~retimed => 0 \in steady /\ 0 \in paced /\ fired[0] # None

Reloaded ==
  /\ decimation \in 0..CounterMod - 1
  /\ ~mixed => /\ writer = "store" => loaded = decimation
               /\ writer = "take" => counter = decimation

(* The last call of the timer is n intervals behind the last sample.       *)
CallsSince(n) == fired[0] - buf[Len(buf)] = n * Interval(0)

(* Calls until a counter comes to 0: one at 0 goes all the way round.      *)
Remaining(c) == IF c = 0 THEN CounterMod ELSE c

(* A counter that has been counted down some way from the decimation.      *)
IsCount(c) == c \in 0..CounterMod - 1 /\ Remaining(c) <= Stride

Counted ==
  /\ writer \in {"out", "done"} =>
       IsCount(counter) /\ CallsSince(Stride - Remaining(counter))
  /\ writer = "in" =>
       IsCount(counter) /\ CallsSince(Stride - Remaining(counter) + 1)
  /\ writer = "decimate" =>
       IsCount(loaded) /\ CallsSince(Stride - Remaining(loaded) + 1)
  /\ writer \in {"reload", "store", "take"} => CallsSince(Stride)

Even == \A i \in 2..Len(buf) : buf[i] - buf[i - 1] = Stride * Interval(0)

EvenInv ==
  /\ WritesInCallback /\ Calm /\ Reloaded
  /\ triggered /\ ~mixed /\ ~retimed => Counted /\ Even

LEMMA Strides ==
  ASSUME decimation \in 0..CounterMod - 1
  PROVE  /\ CounterMod \in Nat /\ CounterMod >= 2
         /\ Stride \in 1..CounterMod /\ Stride = Remaining(decimation)
         /\ IsCount(decimation)
BY ScopeStreamAssumption DEF Stride, Remaining, IsCount

LEMMA InitEven == Init => EvenInv
<1> SUFFICES ASSUME Init PROVE EvenInv
  OBVIOUS
<1>1. /\ writer = "out" /\ ~frozen /\ ~triggered /\ decimation = 1
  BY DEF Init, ScopeInit
<1> QED
  BY <1>1, ScopeStreamAssumption DEF EvenInv, WritesInCallback, Calm, Reloaded

(* A step of the timers alone. *)
LEMMA TimersKeepEven ==
  ASSUME EvenInv, UNCHANGED scope,
         writer # "out" => UNCHANGED <<time, at, scan, paced>>,
         writer # "out" /\ 0 \in steady' => 0 \in steady /\ fired'[0] = fired[0],
         ~retimed' => ~retimed,
         triggered /\ ~retimed' =>
           /\ 0 \in steady' /\ 0 \in paced' /\ fired'[0] = fired[0]
           /\ period'[0] = period[0] /\ dt' = dt
  PROVE  EvenInv'
<1>1. UNCHANGED <<decimation, counter, triggered, frozen, buf, writer, loaded,
                  mixed>>
  BY DEF scope
<1>2. WritesInCallback'
  BY <1>1 DEF EvenInv, WritesInCallback
<1>3. Calm'
  BY <1>1 DEF EvenInv, Calm
<1>4. Reloaded'
  BY <1>1 DEF EvenInv, Reloaded
<1>5. ASSUME triggered', ~mixed', ~retimed' PROVE Counted' /\ Even'
  <2>1. Counted /\ Even /\ fired'[0] = fired[0] /\ Interval(0)' = Interval(0)
    BY <1>1, <1>5 DEF EvenInv, Interval
  <2>2. \A n : CallsSince(n)' <=> CallsSince(n)
    BY <1>1, <2>1 DEF CallsSince
  <2>3. Stride' = Stride /\ \A c : IsCount(c)' <=> IsCount(c)
    BY <1>1 DEF Stride, IsCount
  <2>4. Counted'
    BY <1>1, <2>1, <2>2, <2>3, Zenon DEF Counted
  <2> QED
    BY <1>1, <2>1, <2>3, <2>4 DEF Even
<1> QED
  BY <1>2, <1>3, <1>4, <1>5 DEF EvenInv

(* The main thread cannot change the PWM timer and leave it steady. *)
LEMMA MainPwm ==
  ASSUME IInv, MainNext, 0 \in steady'
  PROVE  /\ 0 \in steady /\ fired'[0] = fired[0]
         /\ UNCHANGED <<time, at, scan, dt, paced>>
         /\ fired[0] # None => period'[0] = period[0]
<1>0. TypeOK /\ StoredInOrder /\ OnTime(0) /\ 0 \in Ids
  BY Numbers DEF IInv
<1>1. ASSUME NEW p \in Periods, Register(p) \/ LowerStep
      PROVE  /\ 0 \in steady /\ fired'[0] = fired[0]
             /\ UNCHANGED <<time, at, scan, dt, paced, period>>
  BY <1>1 DEF Register, LowerStep, tick
<1>2. ASSUME NEW p \in Periods, Configure(0, p) PROVE FALSE
  BY <1>2 DEF Configure
<1>3. CASE RegisterFields
  <2> DEFINE i == main.id
             x == main.period
  <2>1. /\ fired[0] # None => i # 0
        /\ period' = [period EXCEPT ![i] = x]
        /\ UNCHANGED <<time, at, scan, dt, paced, steady, fired>>
    BY <1>0, <1>3 DEF RegisterFields, tick, StoredInOrder, OnTime
  <2> HIDE DEF i, x
  <2> QED
    BY <1>0, <2>1 DEF TypeOK
<1>4. CASE RegisterCallback
  <2> DEFINE i == main.id
  <2>1. /\ i # 0 /\ 0 \in steady
        /\ fired' = [fired EXCEPT ![i] = None]
        /\ UNCHANGED <<time, at, scan, dt, paced, period>>
    BY <1>4 DEF RegisterCallback, tick
  <2> HIDE DEF i
  <2> QED
    BY <1>0, <2>1 DEF TypeOK
<1>5. CASE LowerStep
  BY <1>5 DEF LowerStep, tick
<1> QED
  BY <1>1, <1>2, <1>3, <1>4, <1>5 DEF MainNext

LEMMA MainEven ==
  ASSUME IInv, EvenInv, Main
  PROVE  EvenInv'
<1>1. MainNext /\ UNCHANGED scope /\ retimed' = (retimed \/ 0 \notin steady')
  BY DEF Main
<1>2. UNCHANGED <<time, at, scan, dt, paced>>
  BY <1>1 DEF MainNext, Register, Configure, RegisterFields, RegisterCallback,
     LowerStep, tick
<1>3. ~retimed' => ~retimed /\ 0 \in steady'
  BY <1>1
<1>4. triggered /\ ~retimed' =>
        0 \in steady' /\ fired'[0] = fired[0] /\ period'[0] = period[0]
  BY <1>1, <1>3, MainPwm DEF EvenInv, Calm
<1>5. 0 \in steady' => 0 \in steady /\ fired'[0] = fired[0]
  BY <1>1, MainPwm
<1> QED
  BY <1>1, <1>2, <1>3, <1>4, <1>5, TimersKeepEven DEF EvenInv, Calm

LEMMA TickEven ==
  ASSUME IInv, EvenInv, Tick
  PROVE  EvenInv'
<1>0. TickNext /\ UNCHANGED scope /\ retimed' = (retimed \/ dt' # dt)
  BY DEF Tick
<1>1. writer = "out"
  BY <1>0 DEF TickNext, BeginSlice, Step, EndSlice, Skip, EndScan, EvenInv,
     WritesInCallback
<1>2. UNCHANGED <<fired, period>>
  BY <1>0 DEF TickNext, BeginSlice, Step, EndSlice, Skip, EndScan, table
<1>3. 0 \in steady => 0 \in steady'
  <2>1. CASE BeginSlice
    BY <2>1, Numbers DEF BeginSlice, IInv, StoredInOrder
  <2>2. CASE UNCHANGED steady
    BY <2>2
  <2> QED
    BY <1>0, <2>1, <2>2 DEF TickNext, Step, EndSlice, Skip, EndScan
<1>4. dt' = dt /\ 0 \in paced => 0 \in paced'
  BY <1>0 DEF TickNext, BeginSlice, Step, EndSlice, Skip, EndScan
<1> QED
  BY <1>0, <1>1, <1>2, <1>3, <1>4, TimersKeepEven DEF EvenInv, Calm

LEMMA FireOtherEven ==
  ASSUME IInv, EvenInv, FireOther
  PROVE  EvenInv'
<1>1. writer = "out"
  BY DEF FireOther, Fire, EvenInv, WritesInCallback
<1>2. /\ fired'[0] = fired[0] /\ UNCHANGED <<period, dt, steady, scope, retimed>>
      /\ paced \subseteq paced'
  BY Numbers DEF FireOther, Fire, IInv, TypeOK
<1> QED
  BY <1>1, <1>2, TimersKeepEven DEF EvenInv, Calm

LEMMA ReturnEven ==
  ASSUME EvenInv, CallbackReturns
  PROVE  EvenInv'
<1>1. writer = "out" /\ UNCHANGED <<fired, period, dt, paced, steady, scope, retimed>>
  BY DEF CallbackReturns, Return, table
<1> QED
  BY <1>1, TimersKeepEven DEF EvenInv, Calm

(* One more call is one more interval. *)
LEMMA OneIntervalMore ==
  ASSUME NEW f \in Int, NEW g \in Int, NEW b \in Int, NEW n \in Int,
         NEW p \in Int, f - b = n * p, g - f = p
  PROVE  g - b = (n + 1) * p
<1>1. (n + 1) * p = n * p + p
  OBVIOUS
<1>2. n * p \in Int
  OBVIOUS
<1> QED
  BY <1>1, <1>2

LEMMA FirePwmEven ==
  ASSUME IInv, RearmInv, EvenInv, FirePwm
  PROVE  EvenInv'
<1>1. /\ Fire /\ scan = 0 /\ at = "scan" /\ at' = "callback" /\ writer' = "in"
      /\ fired' = [fired EXCEPT ![scan] =
                     IF scan \in steady THEN time ELSE None]
      /\ Due(0) /\ paced' = paced \union {scan}
      /\ UNCHANGED <<time, dt, scan, steady, period, decimation, counter,
                     triggered, frozen, buf, loaded, mixed, retimed>>
  BY DEF FirePwm, Fire
<1>2. writer = "out" /\ ~frozen
  BY <1>1 DEF EvenInv, WritesInCallback
<1>3. /\ 0 \in Ids /\ time \in Int /\ time # None
      /\ fired'[0] = IF 0 \in steady THEN time ELSE None
  BY <1>1, Numbers DEF IInv, TypeOK
<1>4. WritesInCallback' /\ Calm' /\ Reloaded'
  BY <1>1, <1>2, <1>3 DEF EvenInv, WritesInCallback, Calm, Reloaded
<1>5. /\ Interval(0)' = Interval(0) /\ Stride' = Stride
      /\ \A c : IsCount(c)' <=> IsCount(c)
  BY <1>1 DEF Interval, Stride, IsCount
<1>6. ASSUME triggered', ~mixed', ~retimed' PROVE Counted' /\ Even'
  <2> DEFINE n == Stride - Remaining(counter)
             f == fired[0]
             b == buf[Len(buf)]
             p == Interval(0)
  <2>1. /\ IsCount(counter) /\ decimation \in 0..CounterMod - 1 /\ Even
        /\ f - b = n * p /\ 0 \in steady /\ 0 \in paced /\ fired[0] # None
    BY <1>1, <1>2, <1>6 DEF EvenInv, Counted, CallsSince, Calm, Reloaded
  <2>2. fired'[0] = time /\ f \in Int /\ time - f = p /\ p \in Int
    <3>1. /\ dt \in Nat \ {0} /\ period[0] \in Nat
          /\ fired[0] \in Int /\ fired[0] <= time
          /\ time - fired[0] < period[0] + dt
          /\ Divides(dt, time - fired[0])
      BY <1>3, <2>1, Numbers DEF IInv, TypeOK, OnTime
    <3>2. time - fired[0] >= period[0]
      BY <1>1, <1>3, <2>1, DueIsExact
    <3>3. time - fired[0] \in Nat
      BY <1>3, <3>1
    <3>4. time - fired[0] = Interval(0)
      BY <3>1, <3>2, <3>3, RoundedUp DEF Interval
    <3> QED
      BY <1>3, <2>1, <3>1, <3>3, <3>4
  <2>3. b \in Int
    BY <1>1, <1>6 DEF RearmInv, WindowBegun
  <2>4. n \in Int
    BY <2>1, Strides DEF IsCount, Remaining
  <2>5. time - b = (n + 1) * p
    <3>1. f - b = n * p /\ time - f = p
      BY <2>1, <2>2
    <3> HIDE DEF n, f, b, p
    <3> QED
      BY <1>3, <2>2, <2>3, <2>4, <3>1, OneIntervalMore
  <2>6. Counted'
    <3>1. IsCount(counter)'
      BY <1>1, <1>5, <2>1 DEF IsCount, Stride
    <3>2. CallsSince(Stride - Remaining(counter) + 1)'
      BY <1>1, <1>5, <2>2, <2>5 DEF CallsSince, Remaining
    <3> QED
      BY <1>1, <3>1, <3>2 DEF Counted
  <2> QED
    BY <1>1, <1>5, <2>1, <2>6 DEF Even
<1> QED
  BY <1>4, <1>6 DEF EvenInv

-----------------------------------------------------------------------------
(* The steps of write. *)

(* A step that takes no sample.  *)
LEMMA WriteKeepsEven ==
  ASSUME EvenInv, UNCHANGED timers, UNCHANGED <<buf, triggered, retimed, frozen>>,
         writer # "out" /\ (frozen => writer' = "done"),
         Reloaded',
         triggered /\ ~mixed' /\ ~retimed =>
           ~mixed /\ UNCHANGED decimation /\ (Counted => Counted')
  PROVE  EvenInv'
<1>1. UNCHANGED <<time, at, dt, scan, steady, paced, fired, period>>
  BY DEF timers, tick, table
<1>2. WritesInCallback' /\ Calm'
  BY <1>1 DEF EvenInv, WritesInCallback, Calm
<1>3. Even /\ UNCHANGED decimation => Even'
  BY <1>1 DEF Even, Stride, Interval
<1> QED
  BY <1>2, <1>3 DEF EvenInv

LEMMA WriteEven ==
  ASSUME EvenInv, UNCHANGED <<timers, retimed>>,
         LoadCounter \/ Decimate \/ LoadDecimation \/ Reload
  PROVE  EvenInv'
<1>1. /\ UNCHANGED <<time, at, dt, scan, steady, paced, fired, period>>
      /\ UNCHANGED <<buf, decimation>>
  BY DEF timers, tick, table, LoadCounter, Decimate, LoadDecimation, Reload
<1>s. /\ \A n : CallsSince(n)' <=> CallsSince(n)
      /\ \A c : IsCount(c)' <=> IsCount(c)
      /\ Stride' = Stride
  BY <1>1 DEF CallsSince, Interval, IsCount, Stride
<1>2. Reloaded /\ decimation \in 0..CounterMod - 1
  BY DEF EvenInv, Reloaded
<1>3. CASE LoadCounter
  <2>1. /\ writer = "in" /\ writer' = "decimate" /\ loaded' = counter /\ ~frozen
        /\ triggered => mixed' = mixed
        /\ UNCHANGED <<buf, triggered, frozen, decimation, counter>>
    BY <1>3 DEF LoadCounter
  <2>2. Reloaded'
    BY <1>2, <2>1 DEF Reloaded
  <2>3. Counted => Counted'
    BY <1>s, <2>1, Zenon DEF Counted, IsCount, Remaining, CallsSince
  <2> QED
    BY <2>1, <2>2, <2>3, WriteKeepsEven
<1>4. CASE Decimate
  <2>1. /\ writer = "decimate" /\ counter' = (loaded - 1) % CounterMod
        /\ writer' = IF counter' > 0 THEN "done" ELSE "reload"
        /\ UNCHANGED <<buf, triggered, frozen, decimation, mixed>>
    BY <1>4 DEF Decimate
  <2>2. ~frozen
    BY <2>1 DEF EvenInv, WritesInCallback
  <2>3. Reloaded'
    BY <1>2, <2>1 DEF Reloaded
  <2>4. ASSUME Counted PROVE Counted'
    <3>1. IsCount(loaded) /\ CallsSince(Stride - Remaining(loaded) + 1)
      BY <2>1, <2>4 DEF Counted
    <3>2. /\ CounterMod \in Nat /\ CounterMod >= 2 /\ Stride \in Nat
          /\ loaded \in 0..CounterMod - 1 /\ Remaining(loaded) <= Stride
          /\ Remaining(loaded) \in Nat
      BY <1>2, <3>1, Strides DEF IsCount, Remaining
    <3>3. /\ loaded = 0 => counter' = CounterMod - 1
          /\ loaded # 0 => counter' = loaded - 1
      BY <2>1, <3>2
    <3>4. CASE counter' > 0
      <4>1. /\ writer' = "done" /\ IsCount(counter')
            /\ Remaining(counter') = Remaining(loaded) - 1
        BY <2>1, <3>2, <3>3, <3>4 DEF IsCount, Remaining
      <4>2. Stride - Remaining(counter') = Stride - Remaining(loaded) + 1
        BY <3>2, <4>1
      <4>3. CallsSince(Stride - Remaining(counter'))
        BY <3>1, <4>2
      <4>4. IsCount(counter)' /\ CallsSince(Stride - Remaining(counter))'
        BY <1>1, <4>1, <4>3 DEF CallsSince, Interval, IsCount, Remaining, Stride
      <4> QED
        BY <4>1, <4>4 DEF Counted
    <3>5. CASE ~(counter' > 0)
      <4>1. writer' = "reload" /\ Stride - Remaining(loaded) + 1 = Stride
        BY <2>1, <3>2, <3>3, <3>5 DEF Remaining
      <4>2. CallsSince(Stride)
        BY <3>1, <4>1
      <4>3. CallsSince(Stride)'
        BY <1>1, <4>2 DEF CallsSince, Interval, Stride
      <4> QED
        BY <4>1, <4>3 DEF Counted
    <3> QED
      BY <3>4, <3>5
  <2> QED
    BY <2>1, <2>2, <2>3, <2>4, WriteKeepsEven
<1>5. CASE LoadDecimation
  <2>1. /\ writer = "reload" /\ writer' = "store" /\ loaded' = decimation
        /\ UNCHANGED <<buf, triggered, frozen, decimation, mixed>>
    BY <1>5 DEF LoadDecimation
  <2>2. Reloaded' /\ ~frozen
    BY <1>2, <2>1 DEF Reloaded, EvenInv, WritesInCallback
  <2>3. Counted => Counted'
    BY <1>s, <2>1, Zenon DEF Counted, IsCount, Remaining, CallsSince
  <2> QED
    BY <2>1, <2>2, <2>3, WriteKeepsEven
<1>6. CASE Reload
  <2>1. /\ writer = "store" /\ writer' = "take" /\ counter' = loaded
        /\ UNCHANGED <<buf, triggered, frozen, decimation, mixed>>
    BY <1>6 DEF Reload
  <2>2. Reloaded' /\ ~frozen
    BY <1>2, <2>1 DEF Reloaded, EvenInv, WritesInCallback
  <2>3. Counted => Counted'
    BY <1>s, <2>1, Zenon DEF Counted, IsCount, Remaining, CallsSince
  <2> QED
    BY <2>1, <2>2, <2>3, WriteKeepsEven
<1> QED
  BY <1>3, <1>4, <1>5, <1>6

LEMMA TakeEven ==
  ASSUME IInv, RearmInv, EvenInv, UNCHANGED timers,
         NEW level \in Levels, Take(level, time),
         retimed' = IF Len(buf') = 1 THEN 0 \notin steady ELSE retimed
  PROVE  EvenInv'
<1>1. /\ UNCHANGED <<time, at, dt, scan, steady, paced, fired, period>>
      /\ time \in Nat /\ time # None
  BY Numbers DEF timers, tick, table, IInv, TypeOK
<1>2. /\ writer = "take" /\ writer' = "done"
      /\ UNCHANGED <<decimation, counter, loaded, mixed>>
  BY <1>1, TakeCases DEF RearmInv
<1>3. /\ WritesInCallback /\ Reloaded /\ decimation \in 0..CounterMod - 1
      /\ 0 \in paced /\ (0 \in steady => fired[0] = time)
  BY <1>2 DEF EvenInv, WritesInCallback, Reloaded
<1>i. /\ Interval(0) \in Int /\ Interval(0)' = Interval(0) /\ Stride' = Stride
      /\ Stride \in Int /\ Stride = Remaining(decimation) /\ IsCount(decimation)
  <2>1. dt \in Nat \ {0} /\ period[0] \in Nat
    BY Numbers DEF IInv, TypeOK
  <2>2. (period[0] + dt - 1) \div dt \in Int
    BY <2>1
  <2>3. Interval(0) \in Int
    BY <2>1, <2>2 DEF Interval
  <2>4. Interval(0)' = Interval(0) /\ Stride' = Stride
    BY <1>1, <1>2 DEF Interval, Stride
  <2>5. /\ Stride = Remaining(decimation) /\ IsCount(decimation)
        /\ Stride \in 1..CounterMod /\ CounterMod \in Nat
    BY <1>3, Strides
  <2> QED
    BY <2>3, <2>4, <2>5
<1>4. WritesInCallback' /\ Reloaded'
  BY <1>1, <1>2, <1>3 DEF WritesInCallback, Reloaded
<1>5. ASSUME fired[0] = time, ~mixed', buf'[Len(buf')] = time PROVE Counted'
  <2>1. counter = decimation /\ counter' = counter /\ writer' = "done"
    BY <1>2, <1>3, <1>5 DEF Reloaded
  <2>2. (Stride - Remaining(counter)) * Interval(0) = 0 /\ time - time = 0
    BY <1>1, <1>i, <2>1
  <2>3. CallsSince(Stride - Remaining(counter))'
    BY <1>1, <1>5, <1>i, <2>1, <2>2 DEF CallsSince, Remaining
  <2>4. IsCount(counter)'
    BY <1>i, <2>1 DEF IsCount, Remaining
  <2> QED
    BY <2>1, <2>3, <2>4 DEF Counted
<1>6. CASE triggered
  <2>1. /\ buf' = Append(buf, time) /\ retimed' = retimed
        /\ buf \in Seq(Nat) /\ Len(buf) > 0
    BY <1>1, <1>6, TakeCases DEF RearmInv, WindowBegun
  <2>2. /\ Len(buf') = Len(buf) + 1 /\ buf'[Len(buf')] = time
        /\ \A i \in 1..Len(buf) : buf'[i] = buf[i]
    BY <1>1, <2>1
  <2>3. Calm'
    BY <1>1, <1>3, <1>6, <2>1 DEF EvenInv, Calm
  <2>4. ASSUME ~mixed', ~retimed' PROVE Counted' /\ Even'
    <3>1. /\ Counted /\ Even /\ fired[0] = time
      BY <1>2, <1>3, <1>6, <2>1, <2>4 DEF EvenInv, Calm
    <3>2. time - buf[Len(buf)] = Stride * Interval(0)
      BY <1>2, <3>1 DEF Counted, CallsSince
    <3>3. ASSUME NEW i \in 2..Len(buf')
          PROVE  buf'[i] - buf'[i - 1] = Stride * Interval(0)
      <4>1. CASE i = Len(buf) + 1
        <5>1. i - 1 = Len(buf) /\ Len(buf) \in 1..Len(buf)
          BY <2>1, <4>1
        <5> QED
          BY <2>2, <3>2, <4>1, <5>1
      <4>2. CASE i # Len(buf) + 1
        <5>1. i \in 2..Len(buf) /\ i - 1 \in 1..Len(buf) /\ i \in 1..Len(buf)
          BY <2>1, <2>2, <4>2
        <5> QED
          BY <2>2, <3>1, <5>1 DEF Even
      <4> QED
        BY <4>1, <4>2
    <3> QED
      BY <1>1, <1>2, <1>5, <1>i, <2>2, <2>4, <3>1, <3>3 DEF Even
  <2> QED
    BY <1>4, <2>3, <2>4 DEF EvenInv
<1>7. CASE ~triggered /\ triggered'
  <2>1. buf' = <<time>> /\ Len(buf') = 1 /\ buf'[Len(buf')] = time
    <3>1. buf' = <<time>>
      BY <1>1, <1>7, TakeCases, Zenon DEF RearmInv
    <3> QED
      BY <3>1
  <2>2. ~retimed' => 0 \in steady /\ fired[0] = time
    BY <1>3, <2>1
  <2>3. Calm'
    BY <1>1, <1>3, <2>2 DEF Calm
  <2>4. Even'
    BY <2>1 DEF Even
  <2> QED
    BY <1>4, <1>5, <2>1, <2>2, <2>3, <2>4 DEF EvenInv
<1>8. CASE ~triggered'
  BY <1>4, <1>8 DEF EvenInv, Calm
<1> QED
  BY <1>6, <1>7, <1>8

LEMMA LeaveEven ==
  ASSUME EvenInv, UNCHANGED <<timers, retimed>>, Leave \/ Show
  PROVE  EvenInv'
<1>1. UNCHANGED <<time, at, dt, scan, steady, paced, fired, period>>
  BY DEF timers, tick, table
<1>2. CASE Leave
  <2>1. /\ writer = "done" /\ writer' = "out" /\ ~frozen
        /\ UNCHANGED <<decimation, counter, triggered, frozen, buf, loaded,
                       mixed>>
    BY <1>2 DEF Leave
  <2>2. WritesInCallback' /\ Calm' /\ Reloaded'
    BY <1>1, <2>1 DEF EvenInv, WritesInCallback, Calm, Reloaded
  <2>3. Interval(0)' = Interval(0) /\ Stride' = Stride
    BY <1>1, <2>1 DEF Interval, Stride
  <2>4. ASSUME Counted PROVE Counted'
    <3>1. IsCount(counter) /\ CallsSince(Stride - Remaining(counter))
      BY <2>1, <2>4 DEF Counted
    <3>2. IsCount(counter)' /\ CallsSince(Stride - Remaining(counter))'
      BY <1>1, <2>1, <2>3, <3>1 DEF IsCount, CallsSince, Remaining
    <3> QED
      BY <2>1, <3>2 DEF Counted
  <2>5. Even => Even'
    BY <2>1, <2>3 DEF Even
  <2> QED
    BY <2>1, <2>2, <2>4, <2>5 DEF EvenInv
<1>3. CASE Show
  BY <1>1, <1>3 DEF Show, EvenInv, WritesInCallback, Calm, Reloaded
<1> QED
  BY <1>2, <1>3

LEMMA GuiEven ==
  ASSUME EvenInv, Gui
  PROVE  EvenInv'
<1>1. /\ UNCHANGED <<time, at, scan, steady, paced, fired, period>>
      /\ UNCHANGED <<triggered, frozen, buf, writer, loaded, retimed>>
      /\ mixed' = TRUE
      /\ decimation' = decimation \/ decimation' \in Decimations
  BY DEF Gui, GuiNext, StoreDecimation, StoreCounter, timers, tick, table
<1>2. WritesInCallback' /\ Calm'
  BY <1>1 DEF EvenInv, WritesInCallback, Calm
<1>3. Reloaded'
  BY <1>1, ScopeStreamAssumption DEF EvenInv, Reloaded
<1> QED
  BY <1>1, <1>2, <1>3, Zenon DEF EvenInv

LEMMA StutterEven == ASSUME EvenInv, UNCHANGED vars PROVE EvenInv'
<1>1. UNCHANGED <<time, at, dt, scan, steady, paced, fired, period, scope, retimed>>
  BY DEF vars, timers, tick, table
<1> QED
  BY <1>1, TimersKeepEven DEF EvenInv, Calm

LEMMA EvenStep == IInv /\ RearmInv /\ EvenInv /\ [Next]_vars => EvenInv'
<1> SUFFICES ASSUME IInv, RearmInv, EvenInv, [Next]_vars PROVE EvenInv'
  OBVIOUS
<1>1. CASE Write
  <2>1. UNCHANGED timers
    BY <1>1 DEF Write
  <2>2. ASSUME NEW level \in Levels, Take(level, time),
               retimed' = IF Len(buf') = 1 THEN 0 \notin steady ELSE retimed
        PROVE  EvenInv'
    BY <2>1, <2>2, TakeEven
  <2> QED
    BY <1>1, <2>1, <2>2, WriteEven, LeaveEven DEF Write
<1> QED
  BY <1>1, MainEven, GuiEven, TickEven, FirePwmEven, FireOtherEven, ReturnEven,
     StutterEven DEF Next

(* The samples of a full window are as many calls of the PWM timer apart   *)
(* as the decimation says, each a period in whole steps behind the one     *)
(* before, for every window size, every decimation and every set of        *)
(* periods, unless the user changed one of them meanwhile                  *)
(* (ScopeStream::write in postScanMethod, silgui.h).                       *)
THEOREM WindowsAreEven == Spec => []WindowIsEven
<1>1. Init => IInv /\ RearmInv /\ EvenInv
  BY InitInv, InitRearm, InitEven
<1>2. IInv /\ RearmInv /\ EvenInv /\ [Next]_vars => (IInv /\ RearmInv /\ EvenInv)'
  BY StepInv, RearmStep, EvenStep
<1>3. IInv /\ RearmInv /\ EvenInv => WindowIsEven
  BY Numbers DEF EvenInv, Even, RearmInv, WindowBegun, WindowIsEven
<1> QED
  BY <1>1, <1>2, <1>3, PTL DEF Spec
=============================================================================
