------------------------------ MODULE FdirProofs ------------------------------
(***************************************************************************)
(* Proofs, for every value of the constants that the assumptions allow, of *)
(* the safety properties of Fdir; and, at the end, of what the state       *)
(* machine alone promises whoever posts requests to it.                    *)
(***************************************************************************)
EXTENDS Fdir, TLAPS

USE StateMachineAssumption, WatchdogAssumption, FdirAssumption
USE DEF BOOT, NOMINAL, DEGRADED, SAFE, SystemStates, periodicVars, seuVars

LEMMA InitType == Init => TypeOK
<1> SUFFICES ASSUME Init PROVE TypeOK
  OBVIOUS
<1>1. SmTypeOK
  BY DEF Init, SmInit, SmTypeOK
<1>2. WdTypeOK
  BY DEF Init, WdInit, WdTypeOK
<1>3. delay \in [PeriodicTasks -> Nat]
  BY DEF Init
<1>4. stalled \in SUBSET StallableTasks
  BY DEF Init
<1>5. operatorOn \in BOOLEAN
  BY DEF Init
<1>6. /\ seu_counter \in Nat /\ counted \in [ScrubbingTasks -> Nat]
      /\ flippedBits \in 0 .. ScrubBits
      /\ keysPressed \in 0 .. MaxKeys /\ busy \in 0 .. MaxBusy
  BY DEF Init
<1>7. /\ xCommandQueue \in Seq(Keys)
      /\ kicked \in SUBSET WatchdogBits
  BY DEF Init
<1> QED BY <1>1, <1>2, <1>3, <1>4, <1>5, <1>6, <1>7 DEF Init, TypeOK

LEMMA RequestTyped ==
  ASSUME NEW s \in SystemStates, NEW r \in Reasons
  PROVE  StateRequest(s, r) \in StateRequests
  BY DEF StateRequest, StateRequests

(* system_state_request_change keeps the queue well-typed. *)
LEMMA RequestChangeType ==
  ASSUME xStateRequestQueue \in Seq(StateRequests),
         NEW s \in SystemStates, NEW r \in Reasons, RequestChange(s, r)
  PROVE  xStateRequestQueue' \in Seq(StateRequests)
  BY RequestTyped DEF RequestChange

LEMMA StateMachineType ==
  ASSUME SmTypeOK, SmStep
  PROVE  SmTypeOK'
<1> USE DEF SmTypeOK
<1>1. CASE SystemStateInit
  BY <1>1 DEF SystemStateInit
<1>2. CASE Boot
  BY <1>2 DEF Boot, BootMode
<1>3. CASE Receive
  BY <1>3 DEF Receive
<1>4. CASE Apply
  <2>1. inHand \in Seq(StateRequests) /\ Len(inHand) = 1
    BY <1>4 DEF Apply
  <2>2. inHand[1] \in StateRequests
    BY ONLY <2>1
  <2>3. gSystemState' \in SystemStates
    BY <1>4, <2>2 DEF Apply, ApplyRequest, StateRequests
  <2> QED BY <1>4, <2>3 DEF Apply
<1>5. CASE RunPolicy
  BY <1>5 DEF RunPolicy
<1> QED BY <1>1, <1>2, <1>3, <1>4, <1>5 DEF SmStep

(* The watchdog's own steps, whichever state the cycle begins with. *)
WdStep == \/ WatchdogStart \/ LeaveLoop \/ NotifyWait \/ NotifyReturn \/ EvaluateCycle
          \/ BeginCycle(gSystemState)

LEMMA WatchdogType ==
  ASSUME WdTypeOK, gSystemState \in SystemStates, WdStep
  PROVE  WdTypeOK'
<1> USE DEF WdTypeOK
<1>1. CASE WatchdogStart
  BY <1>1 DEF WatchdogStart
<1>2. CASE LeaveLoop
  BY <1>2 DEF LeaveLoop
<1>3. CASE NotifyWait
  BY <1>3 DEF NotifyWait
<1>4. CASE NotifyReturn
  BY <1>4 DEF NotifyReturn
<1>5. CASE EvaluateCycle
  BY <1>5 DEF EvaluateCycle, Recovered
<1>6. CASE BeginCycle(gSystemState)
  BY <1>6 DEF BeginCycle
<1> QED BY <1>1, <1>2, <1>3, <1>4, <1>5, <1>6 DEF WdStep

LEMMA NotifyBitType ==
  ASSUME WdTypeOK, NEW bit \in WatchdogBits, NotifyBit(bit)
  PROVE  WdTypeOK'
  BY DEF WdTypeOK, NotifyBit

LEMMA WatchdogTickType ==
  ASSUME WdTypeOK, WatchdogTick
  PROVE  WdTypeOK'
  BY DEF WdTypeOK, WatchdogTick

(* A good or bad end of a cycle posts a well-typed request, if any. *)
LEMMA EvaluateRequestType ==
  ASSUME xStateRequestQueue \in Seq(StateRequests), NEW q \in EvaluateRequest,
         RequestChange(q.requested_state, q.reason_code)
  PROVE  xStateRequestQueue' \in Seq(StateRequests)
<1>1. q \in StateRequests
  BY DEF EvaluateRequest, TimeoutRequest, StateRequest, StateRequests, Reasons
<1>2. q.requested_state \in SystemStates /\ q.reason_code \in Reasons
  BY <1>1 DEF StateRequests
<1> QED BY <1>2, RequestChangeType

LEMMA PostType ==
  ASSUME SmTypeOK, NEW s \in SystemStates, NEW r \in Reasons, Post(s, r)
  PROVE  SmTypeOK'
  BY RequestChangeType DEF SmTypeOK, Post

LEMMA CountSeuType ==
  ASSUME SmTypeOK, seu_counter \in Nat, counted \in [ScrubbingTasks -> Nat],
         NEW t \in ScrubbingTasks, NEW pc, NEW next, CountSeu(t, pc, next)
  PROVE  /\ SmTypeOK' /\ seu_counter' \in Nat /\ counted' \in [ScrubbingTasks -> Nat]
         /\ next \in Counting \cup {"scrub"}
<1>1. CASE CountRead(t, pc, next)
  BY <1>1 DEF CountRead, SmTypeOK, smVars, Counting
<1>2. CASE CountStore(t, pc, next)
  BY <1>2 DEF CountStore, SmTypeOK, smVars, Counting
<1>3. CASE CountPost(pc, next)
  BY <1>3, PostType DEF CountPost, Reasons, Counting
<1>4. CASE CountReset(pc, next)
  BY <1>4 DEF CountReset, SmTypeOK, smVars, Counting
<1> QED BY <1>1, <1>2, <1>3, <1>4 DEF CountSeu

LEMMA TypeStep ==
  ASSUME TypeOK, [Next]_vars
  PROVE  TypeOK'
<1> USE DEF TypeOK
<1>1. CASE WatchdogStep
  <2>2. WdTypeOK'
    BY <1>1, WatchdogType DEF WatchdogStep, WdStep, SmTypeOK
  <2>3. xStateRequestQueue' \in Seq(StateRequests)
    BY <1>1, EvaluateRequestType DEF WatchdogStep, SmTypeOK
  <2>4. SmTypeOK'
    BY <1>1, <2>3 DEF WatchdogStep, SmTypeOK
  <2>5. kicked' \in SUBSET WatchdogBits
    BY <1>1 DEF WatchdogStep
  <2> QED BY <1>1, <2>2, <2>4, <2>5 DEF WatchdogStep, envVars
<1>2. CASE StateMachineStep
  <2>1. SmTypeOK'
    BY <1>2, StateMachineType DEF StateMachineStep
  <2>2. WdTypeOK'
    BY <1>2 DEF StateMachineStep, WdTypeOK, wdVars
  <2> QED BY <1>2, <2>1, <2>2 DEF StateMachineStep, envVars
<1>3. CASE Heartbeat
  <2>1. SmTypeOK'
    BY <1>3 DEF Heartbeat, SmTypeOK, smVars
  <2>2. CASE HeartbeatKicks
    <3>1. WdTypeOK' /\ kicked' \in SUBSET WatchdogBits
      BY <2>2, NotifyBitType DEF HeartbeatKicks, Kick, WatchdogBits
    <3> QED BY <1>3, <2>1, <2>2, <3>1 DEF Heartbeat, HeartbeatKicks, envVars
  <2>3. CASE HeartbeatDelays
    <3>1. WdTypeOK'
      BY <2>3 DEF HeartbeatDelays, NoKick, WdTypeOK, wdVars
    <3>2. delay' \in [PeriodicTasks -> Nat]
      BY <2>3 DEF HeartbeatDelays, Delay
    <3> QED BY <1>3, <2>1, <2>3, <3>1, <3>2 DEF Heartbeat, HeartbeatDelays, NoKick, envVars
  <2> QED BY <1>3, <2>2, <2>3 DEF Heartbeat
<1>4. CASE MemScrub
  <2>1. CASE ScrubCorrects
    <3>1. scrubPc' \in {"scrub", "count"}
      BY <2>1 DEF ScrubCorrects, CorrectByte
    <3>2. flippedBits' \in 0 .. ScrubBits
      BY <2>1 DEF ScrubCorrects, CorrectByte
    <3>3. SmTypeOK' /\ WdTypeOK'
      BY <2>1 DEF ScrubCorrects, NoKick, SmTypeOK, smVars, WdTypeOK, wdVars
    <3> QED BY <1>4, <2>1, <3>1, <3>2, <3>3
            DEF MemScrub, ScrubCorrects, NoKick, envVars, Counting
  <2>2. CASE ScrubCounts
    <3>0. "MemScrub" \in ScrubbingTasks
      BY DEF ScrubbingTasks
    <3>1. /\ SmTypeOK' /\ seu_counter' \in Nat /\ counted' \in [ScrubbingTasks -> Nat]
          /\ scrubPc' \in Counting \cup {"scrub"}
      BY <2>2, <3>0, CountSeuType DEF ScrubCounts
    <3>2. WdTypeOK'
      BY <2>2 DEF ScrubCounts, NoKick, WdTypeOK, wdVars
    <3> QED BY <1>4, <2>2, <3>1, <3>2 DEF MemScrub, ScrubCounts, CountSeu, NoKick, envVars
  <2>3. CASE ScrubEnds
    <3>1. SmTypeOK'
      BY <2>3 DEF ScrubEnds, SmTypeOK, smVars
    <3>2. WdTypeOK' /\ kicked' \in SUBSET WatchdogBits
      BY <2>3, NotifyBitType DEF ScrubEnds, Kick, WatchdogBits
    <3> QED BY <1>4, <2>3, <3>1, <3>2 DEF MemScrub, ScrubEnds, envVars
  <2>4. CASE ScrubDelays
    <3>1. SmTypeOK' /\ WdTypeOK'
      BY <2>4 DEF ScrubDelays, NoKick, SmTypeOK, smVars, WdTypeOK, wdVars
    <3>2. delay' \in [PeriodicTasks -> Nat]
      BY <2>4 DEF ScrubDelays, Delay
    <3> QED BY <1>4, <2>4, <3>1, <3>2 DEF MemScrub, ScrubDelays, NoKick, envVars
  <2> QED BY <1>4, <2>1, <2>2, <2>3, <2>4 DEF MemScrub
<1>5. CASE FaultInject
  <2> USE DEF InjectDelays, InjectChecksState, InjectKicks, InjectChecksFlag, InjectFault
  <2>1. SmTypeOK'
    BY <1>5 DEF FaultInject, SmTypeOK, smVars
  <2>2. WdTypeOK' /\ kicked' \in SUBSET WatchdogBits
    <3>1. CASE NoKick
      BY <3>1 DEF NoKick, WdTypeOK, wdVars
    <3>2. CASE Kick("FaultInject")
      BY <3>2, NotifyBitType DEF Kick, WatchdogBits
    <3> QED BY <1>5, <3>1, <3>2 DEF FaultInject
  <2>3. delay' \in [PeriodicTasks -> Nat]
    BY <1>5 DEF FaultInject, Delay
  <2>4. flippedBits' \in 0 .. ScrubBits
    BY <1>5 DEF FaultInject, InjectRandomFault
  <2>5. injectPc' \in {"delay", "check", "kick", "enabled", "inject"}
    BY <1>5 DEF FaultInject
  <2> QED BY <1>5, <2>1, <2>2, <2>3, <2>4, <2>5 DEF FaultInject, envVars
<1>6. CASE CommandHandler
  <2>1. WdTypeOK'
    BY <1>6 DEF CommandHandler, NoKick, WdTypeOK, wdVars
  <2>2. /\ SmTypeOK' /\ seu_counter' \in Nat /\ counted' \in [ScrubbingTasks -> Nat]
        /\ ForcedScrubCounts => handlerPc' \in Counting \cup {"scrub"}
    <3>1. CASE UNCHANGED <<smVars, seu_counter, counted>> /\ ~ForcedScrubCounts
      BY <3>1 DEF SmTypeOK, smVars
    <3>2. CASE HandleStateCommand
      BY <3>2, PostType DEF HandleStateCommand, Reasons, ForcedScrubCounts, CountSeu,
                            CountRead, CountStore, CountPost, CountReset
    <3>3. CASE WriteToggle
      BY <3>3 DEF WriteToggle, SmTypeOK, ForcedScrubCounts, CountSeu,
                  CountRead, CountStore, CountPost, CountReset
    <3>4. CASE ForcedScrubCounts
      BY <3>4, CountSeuType DEF ForcedScrubCounts, ScrubbingTasks
    <3> QED BY <1>6, <3>1, <3>2, <3>3, <3>4
            DEF CommandHandler, ReceiveCommand, HandleInjectCommand, ManualInject,
                HandleToggleCommand, HandleScrubCommand, ForcedScrubCorrects, ForcedScrubEnds
  <2>3. xCommandQueue' \in Seq(Keys)
    <3>1. CASE ReceiveCommand
      BY <3>1 DEF ReceiveCommand
    <3>2. CASE UNCHANGED xCommandQueue
      BY <3>2
    <3> QED BY <1>6, <3>1, <3>2
            DEF CommandHandler, HandleStateCommand, HandleInjectCommand, ManualInject,
                HandleToggleCommand, WriteToggle, HandleScrubCommand,
                ForcedScrubCorrects, ForcedScrubCounts, ForcedScrubEnds
  <2>6. operatorOn' \in BOOLEAN
    <3>1. CASE WriteToggle
      BY <3>1 DEF WriteToggle
    <3>2. CASE UNCHANGED operatorOn
      BY <3>2
    <3> QED BY <1>6, <3>1, <3>2
            DEF CommandHandler, ReceiveCommand, HandleStateCommand, HandleInjectCommand,
                ManualInject, HandleToggleCommand, HandleScrubCommand,
                ForcedScrubCorrects, ForcedScrubCounts, ForcedScrubEnds
  <2>4. flippedBits' \in 0 .. ScrubBits
    BY <1>6 DEF CommandHandler, ReceiveCommand, HandleStateCommand, HandleInjectCommand,
                ManualInject, HandleToggleCommand, WriteToggle, HandleScrubCommand,
                ForcedScrubCorrects, ForcedScrubCounts, ForcedScrubEnds,
                InjectRandomFault, CorrectByte, CountSeu
  <2>5. handlerPc' \in {"receive", "inject", "switchOn", "switchOff", "scrub"}
                         \cup Counting \cup OperatorKeys
    <3>1. CASE ReceiveCommand
      BY <3>1 DEF ReceiveCommand
    <3>2. CASE ~ReceiveCommand
      BY <1>6, <2>2, <3>2
         DEF CommandHandler, HandleStateCommand, HandleInjectCommand,
             ManualInject, HandleToggleCommand, WriteToggle, HandleScrubCommand,
             ForcedScrubCorrects, ForcedScrubEnds, CorrectByte, Counting
    <3> QED BY <3>1, <3>2
  <2> QED BY <1>6, <2>1, <2>2, <2>3, <2>4, <2>5, <2>6 DEF CommandHandler, NoKick, envVars
<1>7. CASE CommandInput
  <2>1. SmTypeOK' /\ WdTypeOK'
    BY <1>7 DEF CommandInput, SmTypeOK, smVars, WdTypeOK, wdVars
  <2>2. xCommandQueue' \in Seq(Keys) /\ keysPressed' \in 0 .. MaxKeys
    BY <1>7 DEF CommandInput
  <2> QED BY <1>7, <2>1, <2>2 DEF CommandInput
<1>8. CASE Tick
  <2>1. SmTypeOK'
    BY <1>8 DEF Tick, SmTypeOK, smVars
  <2>2. WdTypeOK'
    BY <1>8, WatchdogTickType DEF Tick
  <2>3. delay' \in [PeriodicTasks -> Nat]
    BY <1>8 DEF Tick
  <2>4. busy' \in 0 .. MaxBusy
    BY <1>8 DEF Tick
  <2> QED BY <1>8, <2>1, <2>2, <2>3, <2>4 DEF Tick
<1>9. CASE UNCHANGED vars
  BY <1>9 DEF vars, SmTypeOK, smVars, WdTypeOK, wdVars, envVars
<1> QED BY <1>1, <1>2, <1>3, <1>4, <1>5, <1>6, <1>7, <1>8, <1>9 DEF Next, TaskStep

(* Every reachable state is well-typed. *)
THEOREM TypeCorrect == Spec => []TypeOK
<1>1. Init => TypeOK
  BY InitType
<1>2. TypeOK /\ [Next]_vars => TypeOK'
  BY TypeStep
<1> QED BY <1>1, <1>2, PTL DEF Spec

-----------------------------------------------------------------------------
(* What a task that runs knows of the tasks above it. *)
LEMMA WatchdogBlocked ==
  ASSUME NEW p \in 1 .. 3, HighestReady(p)
  PROVE  wdPc = "blocked"
<1>1. "Watchdog" \in Tasks /\ Priority("Watchdog") = 4
  BY DEF Tasks, Priority
<1>2. ~Ready("Watchdog")
  BY <1>1 DEF HighestReady
<1> QED BY <1>2 DEF Ready

LEMMA StateMachineWaits ==
  ASSUME NEW p \in 1 .. 2, HighestReady(p)
  PROVE  smPc = "receive" /\ xStateRequestQueue = <<>>
<1>1. "StateMachine" \in Tasks /\ Priority("StateMachine") = 3
  BY DEF Tasks, Priority
<1>2. ~Ready("StateMachine")
  BY <1>1 DEF HighestReady
<1> QED BY <1>2 DEF Ready

LEMMA HandlerWaits ==
  ASSUME HighestReady(1)
  PROVE  xCommandQueue = <<>>
<1>1. "CommandHandler" \in Tasks /\ Priority("CommandHandler") = 2
  BY DEF Tasks, Priority
<1>2. ~Ready("CommandHandler")
  BY <1>1 DEF HighestReady
<1> QED BY <1>2 DEF Ready

(* The tasks below the state machine run only when both it and the         *)
(* watchdog wait.                                                          *)
LEMMA LowerTaskRuns ==
  ASSUME \/ Heartbeat \/ MemScrub \/ FaultInject \/ CommandHandler \/ CommandInput
  PROVE  wdPc = "blocked" /\ smPc = "receive" /\ xStateRequestQueue = <<>>
<1>1. PICK p \in 1 .. 2 : HighestReady(p)
  BY DEF Heartbeat, MemScrub, FaultInject, CommandHandler, CommandInput, CanRun, Priority
<1> QED BY <1>1, WatchdogBlocked, StateMachineWaits

LEMMA ExpectedNotEmpty == ExpectedBits # {}
  BY DEF ExpectedBits, WatchdogExpectedBits, WatchdogBits

(* A kick, made while the watchdog is blocked, wakes it. *)
LEMMA KickWakes ==
  ASSUME NEW bit, Kick(bit), wdPc = "blocked"
  PROVE  /\ ulNotifiedValue' = ulNotifiedValue \cup {bit}
         /\ ucNotifyState' = "received" /\ wdPc' = "woken"
         /\ UNCHANGED <<received, current_state, remaining, successful_cycles>>
  BY DEF Kick, NotifyBit, HandleIsSet

LEMMA NotifyStep ==
  ASSUME TypeOK, NotifyInv, [Next]_vars
  PROVE  NotifyInv'
<1> USE DEF NotifyInv, TypeOK, WdTypeOK
<1>1. CASE WatchdogStep
  BY <1>1 DEF WatchdogStep, WatchdogStart, LeaveLoop, NotifyWait, NotifyReturn,
              BeginCycle, EvaluateCycle
<1>2. CASE UNCHANGED <<wdVars, kicked>>
  BY <1>2 DEF wdVars
<1>3. ASSUME NEW bit \in WatchdogBits, Kick(bit), wdPc = "blocked"
      PROVE  NotifyInv'
  BY <1>3, KickWakes
<1>4. CASE Heartbeat
  BY <1>4, <1>2, <1>3, LowerTaskRuns
     DEF Heartbeat, HeartbeatKicks, HeartbeatDelays, NoKick, WatchdogBits
<1>5. CASE MemScrub
  BY <1>5, <1>2, <1>3, LowerTaskRuns
     DEF MemScrub, ScrubCorrects, ScrubCounts, ScrubEnds, ScrubDelays, NoKick, WatchdogBits
<1>6. CASE FaultInject
  BY <1>6, <1>2, <1>3, LowerTaskRuns
     DEF FaultInject, InjectDelays, InjectChecksState, InjectKicks, InjectChecksFlag,
         InjectFault, NoKick, WatchdogBits
<1>7. CASE Tick
  BY <1>7 DEF Tick, WatchdogTick
<1>8. CASE StateMachineStep \/ CommandHandler \/ CommandInput \/ UNCHANGED vars
  BY <1>8, <1>2 DEF StateMachineStep, CommandHandler, NoKick, CommandInput, vars
<1> QED BY <1>1, <1>4, <1>5, <1>6, <1>7, <1>8 DEF Next, TaskStep

(* A request is posted with at most one other in the queue. *)
LEMMA PostLength ==
  ASSUME xStateRequestQueue \in Seq(StateRequests), NEW s, NEW r, RequestChange(s, r)
  PROVE  Len(xStateRequestQueue') <= Len(xStateRequestQueue) + 1
  BY DEF RequestChange

(* While the state machine has something to do the processor is not idle.  *)
LEMMA BusyWithRequests ==
  ASSUME smPc = "init" \/ xStateRequestQueue # <<>>
  PROVE  ~Idle
<1>1. "StateMachine" \in Tasks
  BY DEF Tasks
<1>2. Ready("StateMachine")
  BY DEF Ready
<1> QED BY <1>1, <1>2 DEF Idle

(* What a task below the state machine does to the queue and the watchdog. *)
LEMMA LowerTaskPosts ==
  ASSUME TypeOK, Heartbeat \/ MemScrub \/ FaultInject \/ CommandHandler \/ CommandInput
  PROVE  Len(xStateRequestQueue') <= 1 /\ smPc' = "receive" /\ wdPc' # "start"
<1>1. wdPc = "blocked" /\ smPc = "receive" /\ xStateRequestQueue = <<>>
  BY LowerTaskRuns
<1>2. smPc' = smPc
  BY DEF Heartbeat, MemScrub, ScrubCorrects, ScrubCounts, ScrubEnds, ScrubDelays,
         FaultInject, CommandHandler, ReceiveCommand, HandleStateCommand,
         HandleInjectCommand, ManualInject, HandleToggleCommand, WriteToggle,
         HandleScrubCommand, ForcedScrubCorrects, ForcedScrubCounts, ForcedScrubEnds,
         CommandInput, CountSeu, CountRead, CountStore, CountPost, CountReset, Post, smVars
<1>3. ASSUME NEW s, NEW r, Post(s, r)
      PROVE  Len(xStateRequestQueue') <= 1
  BY <1>1, <1>3, PostLength DEF Post, TypeOK, SmTypeOK
<1>4. Len(xStateRequestQueue') <= 1
  <2>1. CASE xStateRequestQueue' = xStateRequestQueue
    BY <1>1, <2>1
  <2>2. ASSUME NEW t, NEW pc, NEW next, CountSeu(t, pc, next)
        PROVE  Len(xStateRequestQueue') <= 1
    BY <1>1, <1>3, <2>2 DEF CountSeu, CountRead, CountStore, CountPost, CountReset, smVars
  <2>3. CASE HandleStateCommand
    BY <1>3, <2>3 DEF HandleStateCommand
  <2> QED BY <2>1, <2>2, <2>3
          DEF Heartbeat, MemScrub, ScrubCorrects, ScrubCounts, ScrubEnds, ScrubDelays,
              FaultInject, CommandHandler, ReceiveCommand, HandleInjectCommand,
              ManualInject, HandleToggleCommand, WriteToggle, HandleScrubCommand,
              ForcedScrubCorrects, ForcedScrubCounts, ForcedScrubEnds, CommandInput, smVars
<1>5. wdPc' # "start"
  BY <1>1 DEF Heartbeat, HeartbeatKicks, HeartbeatDelays, MemScrub, ScrubCorrects,
              ScrubCounts, ScrubEnds, ScrubDelays, FaultInject, InjectDelays,
              InjectChecksState, InjectKicks, InjectChecksFlag, InjectFault,
              CommandHandler, CommandInput, Kick, NotifyBit, NoKick, wdVars
<1> QED BY <1>1, <1>2, <1>4, <1>5

LEMMA QueueStep ==
  ASSUME TypeOK, NotifyInv, QueueInv, [Next]_vars
  PROVE  QueueInv'
<1> USE DEF QueueInv, FreshCycle
<1>a. xStateRequestQueue \in Seq(StateRequests) /\ busy \in 0 .. MaxBusy
      /\ remaining \in 0 .. WatchdogTimeout /\ Len(xStateRequestQueue) \in Nat
  BY DEF TypeOK, SmTypeOK, WdTypeOK
<1>1. CASE WatchdogStep
  <2> SUFFICES ASSUME smPc = "init" \/ Len(xStateRequestQueue) > 1
                         \/ ~UNCHANGED xStateRequestQueue \/ wdPc' = "start"
               PROVE  QueueInv'
    BY <1>1 DEF WatchdogStep
  <2>0. smPc' = smPc /\ busy' = busy
    BY <1>1 DEF WatchdogStep, envVars
  <2>1. CASE WatchdogStart /\ UNCHANGED xStateRequestQueue
    BY <2>0, <2>1 DEF WatchdogStart
  <2>2. CASE BeginCycle(gSystemState) /\ UNCHANGED xStateRequestQueue
    BY <1>a, <2>0, <2>2 DEF BeginCycle
  <2>3. CASE LeaveLoop /\ UNCHANGED xStateRequestQueue
    <3>1. ~FreshCycle
      BY <1>a, <2>3, ExpectedNotEmpty DEF LeaveLoop, Complete
    <3> QED BY <2>0, <2>3, <3>1 DEF LeaveLoop
  <2>4. CASE NotifyWait /\ UNCHANGED xStateRequestQueue
    BY <2>0, <2>4 DEF NotifyWait, NotifyInv
  <2>5. CASE NotifyReturn /\ UNCHANGED xStateRequestQueue
    BY <2>0, <2>5 DEF NotifyReturn
  <2>6. CASE EvaluateCycle /\ UNCHANGED xStateRequestQueue
    BY <2>0, <2>6 DEF EvaluateCycle
  <2>7. ASSUME EvaluateCycle, NEW q \in EvaluateRequest,
               RequestChange(q.requested_state, q.reason_code)
        PROVE  QueueInv'
    <3>1. ~FreshCycle /\ wdPc' = "begin"
      BY <2>7 DEF EvaluateCycle
    <3>2. smPc # "init" /\ Len(xStateRequestQueue) <= 1
      BY <1>a, <3>1
    <3>3. Len(xStateRequestQueue') <= 2
      BY <1>a, <2>7, <3>2, PostLength DEF RequestChange
    <3> QED BY <2>0, <3>1, <3>2, <3>3
  <2> QED BY <1>1, <2>1, <2>2, <2>3, <2>4, <2>5, <2>6, <2>7 DEF WatchdogStep
<1>2. CASE StateMachineStep
  <2>1. wdPc = "blocked"
    BY <1>2, WatchdogBlocked DEF StateMachineStep, CanRun, Priority
  <2>2. UNCHANGED <<wdVars, busy>>
    BY <1>2 DEF StateMachineStep, envVars
  <2>3. smPc' # "init"
    BY <1>2 DEF StateMachineStep, SmStep, SystemStateInit, Boot, Receive, Apply, RunPolicy
  <2>4. \/ UNCHANGED xStateRequestQueue
        \/ Len(xStateRequestQueue') <= 1
    <3>1. CASE Receive
      BY <1>a, <3>1 DEF Receive
    <3>2. CASE ~Receive
      BY <1>2, <3>2 DEF StateMachineStep, SmStep, SystemStateInit, Boot, Apply, RunPolicy
    <3> QED BY <3>1, <3>2
  <2>5. CASE UNCHANGED xStateRequestQueue
    BY <2>1, <2>2, <2>3, <2>5 DEF wdVars
  <2>6. CASE Len(xStateRequestQueue') <= 1
    BY <2>1, <2>2, <2>3, <2>6 DEF wdVars
  <2> QED BY <2>4, <2>5, <2>6
<1>3. CASE Heartbeat \/ MemScrub \/ FaultInject \/ CommandHandler \/ CommandInput
  <2>0. Len(xStateRequestQueue') \in Nat
    BY TypeStep DEF TypeOK, SmTypeOK
  <2>1. Len(xStateRequestQueue') <= 1 /\ smPc' = "receive" /\ wdPc' # "start"
    BY <1>3, LowerTaskPosts
  <2>2. ~(Len(xStateRequestQueue') > 1) /\ Len(xStateRequestQueue') <= 2
    BY <2>1, <2>0
  <2> QED BY <2>1, <2>2
<1>4. CASE Tick
  <2>1. UNCHANGED <<smVars, received>> /\ (wdPc' = "start" => wdPc = "start")
    BY <1>4 DEF Tick, WatchdogTick
  <2>2. ASSUME smPc = "init" \/ Len(xStateRequestQueue) > 1
        PROVE  FreshCycle'
    <3>1. ~Idle /\ FreshCycle
      BY <1>a, <2>2, BusyWithRequests
    <3>2. busy' = busy + 1 /\ busy + 1 <= MaxBusy
      BY <1>4, <1>a, <3>1 DEF Tick
    <3> QED BY <1>4, <1>a, <2>1, <3>1, <3>2 DEF Tick, WatchdogTick
  <2> QED BY <2>1, <2>2 DEF smVars
<1>5. CASE UNCHANGED vars
  BY <1>5 DEF vars, smVars, wdVars, envVars
<1> QED BY <1>1, <1>2, <1>3, <1>4, <1>5 DEF Next, TaskStep

LEMMA PolicyStep ==
  ASSUME TypeOK, PolicyInv, [Next]_vars
  PROVE  PolicyInv'
<1> USE DEF PolicyInv
<1>1. CASE StateMachineStep
  <2>1. operatorOn' = (operatorOn /\ gSystemState' = gSystemState)
    BY <1>1 DEF StateMachineStep
  <2>2. CASE SystemStateInit
    BY <2>2 DEF SystemStateInit
  <2>3. CASE Boot
    BY <2>3 DEF Boot, BootMode
  <2>4. CASE Receive
    BY <2>1, <2>4 DEF Receive
  <2>5. CASE Apply
    BY <2>1, <2>5 DEF Apply
  <2>6. CASE RunPolicy
    BY <2>6 DEF RunPolicy, PolicyForbidsInjection
  <2> QED BY <1>1, <2>2, <2>3, <2>4, <2>5, <2>6 DEF StateMachineStep, SmStep
<1>2. CASE CommandHandler /\ WriteToggle
  BY <1>2 DEF WriteToggle
<1>3. CASE UNCHANGED <<gSystemState, fault_inject_enabled, smPc, operatorOn>>
  BY <1>3
<1>4. CASE WatchdogStep \/ Heartbeat \/ FaultInject \/ CommandInput \/ Tick
  BY <1>3, <1>4 DEF WatchdogStep, Heartbeat, FaultInject, CommandInput, Tick, smVars
<1>5. CASE MemScrub
  BY <1>3, <1>5 DEF MemScrub, ScrubCorrects, ScrubCounts, ScrubEnds, ScrubDelays, CountSeu,
                    CountRead, CountStore, CountPost, CountReset, Post, smVars
<1>6. CASE CommandHandler /\ ~WriteToggle
  BY <1>3, <1>6
     DEF CommandHandler, ReceiveCommand, HandleStateCommand, HandleInjectCommand,
         ManualInject, HandleToggleCommand, HandleScrubCommand, ForcedScrubCorrects,
         ForcedScrubCounts, ForcedScrubEnds, CountSeu, CountRead, CountStore, CountPost,
         CountReset, Post, smVars
<1>7. CASE UNCHANGED vars
  BY <1>3, <1>7 DEF vars, smVars
<1> QED BY <1>1, <1>2, <1>4, <1>5, <1>6, <1>7 DEF Next, TaskStep

LEMMA CommandQueueStep ==
  ASSUME TypeOK, NoCommandIsLost, [Next]_vars
  PROVE  NoCommandIsLost'
<1> USE DEF NoCommandIsLost
<1>a. xCommandQueue \in Seq(Keys)
  BY DEF TypeOK
<1>1. CASE CommandInput
  <2>1. xCommandQueue = <<>>
    BY <1>1, HandlerWaits DEF CommandInput
  <2> QED BY <1>1, <2>1 DEF CommandInput
<1>2. CASE CommandHandler /\ ReceiveCommand
  BY <1>a, <1>2 DEF ReceiveCommand
<1>3. CASE UNCHANGED xCommandQueue
  BY <1>3
<1>4. CASE CommandHandler /\ ~ReceiveCommand
  BY <1>3, <1>4
     DEF CommandHandler, HandleStateCommand, HandleInjectCommand, ManualInject,
         HandleToggleCommand, WriteToggle, HandleScrubCommand, ForcedScrubCorrects,
         ForcedScrubCounts, ForcedScrubEnds
<1>5. CASE WatchdogStep \/ StateMachineStep \/ Heartbeat \/ MemScrub \/ FaultInject
              \/ Tick \/ UNCHANGED vars
  BY <1>3, <1>5 DEF WatchdogStep, StateMachineStep, Heartbeat, MemScrub, FaultInject,
                    Tick, vars
<1> QED BY <1>1, <1>2, <1>4, <1>5 DEF Next, TaskStep

-----------------------------------------------------------------------------
(* The inductive invariant. *)
LEMMA InitInv == Init => Inv
<1> SUFFICES ASSUME Init PROVE Inv
  OBVIOUS
<1>1. TypeOK
  BY InitType
<1>2. NotifyInv /\ QueueInv
  BY DEF Init, SmInit, WdInit, NotifyInv, QueueInv, FreshCycle
<1>3. PolicyInv /\ NoCommandIsLost
  BY DEF Init, SmInit, PolicyInv, NoCommandIsLost
<1> QED BY <1>1, <1>2, <1>3 DEF Inv

THEOREM Invariance == Spec => []Inv
<1>1. Inv /\ [Next]_vars => Inv'
  BY TypeStep, NotifyStep, QueueStep, PolicyStep, CommandQueueStep DEF Inv
<1> QED BY InitInv, <1>1, PTL DEF Spec

(* No caller of system_state_request_change ever has its request dropped,  *)
(* whatever the periods, as long as the queue has two slots and the        *)
(* processor is never busy for a whole watchdog timeout.                   *)
THEOREM RequestsSurvive == Spec => []NoRequestIsLost
<1>1. Inv => NoRequestIsLost
  <2> SUFFICES ASSUME Inv, NEW t \in {"Watchdog", "MemScrub", "CommandHandler"},
                      AboutToPost(t)
               PROVE  RequestIsAccepted
    BY DEF NoRequestIsLost
  <2>0. Len(xStateRequestQueue) \in Nat
    BY DEF Inv, TypeOK, SmTypeOK
  <2>1. CASE t = "Watchdog"
    <3>1. ~FreshCycle
      BY <2>1 DEF AboutToPost, FreshCycle
    <3> QED BY <2>0, <3>1 DEF Inv, QueueInv, RequestIsAccepted
  <2>2. CASE t # "Watchdog"
    <3>1. Priority(t) = 2 /\ HighestReady(Priority(t))
      BY <2>2 DEF AboutToPost, CanRun, Priority
    <3>2. smPc = "receive" /\ xStateRequestQueue = <<>>
      BY <3>1, StateMachineWaits
    <3> QED BY <3>2 DEF RequestIsAccepted
  <2> QED BY <2>1, <2>2
<1> QED BY Invariance, <1>1, PTL

(* No key pressed is answered with "queue full".                           *)
THEOREM CommandsSurvive == Spec => []NoCommandIsLost
<1>1. Inv => NoCommandIsLost
  BY DEF Inv
<1> QED BY Invariance, <1>1, PTL

(* What a watchdog timeout means. *)
THEOREM TimeoutIsSilence == Spec => []TimeoutMeansSilence
<1>1. Inv => TimeoutMeansSilence
  BY DEF Inv, NotifyInv, TimeoutMeansSilence, Complete
<1> QED BY Invariance, <1>1, PTL

(* The policy of DEGRADED and SAFE is in force before anyone can look.     *)
THEOREM PolicyInForce == Spec => []InjectionOffUnlessOperator
<1>1. Inv => InjectionOffUnlessOperator
  BY StateMachineWaits DEF Inv, PolicyInv, InjectionOffUnlessOperator
<1> QED BY Invariance, <1>1, PTL

-----------------------------------------------------------------------------
(* Nothing but time and the task itself changes when a kick is due.        *)
LEMMA PeriodIsNat ==
  ASSUME NEW t \in PeriodicTasks
  PROVE  Period(t) \in Nat \ {0}
<1>1. CASE t = "Heartbeat"
  BY <1>1 DEF Period
<1>2. CASE t = "MemScrub"
  BY <1>2 DEF Period
<1>3. CASE t = "FaultInject"
  BY <1>3 DEF Period
<1> QED BY <1>1, <1>2, <1>3 DEF PeriodicTasks

LEMMA DueIsNat ==
  ASSUME TypeOK, NEW t \in PeriodicTasks
  PROVE  KickDue(t) \in Nat
<1>1. delay[t] \in Nat /\ busy \in 0 .. MaxBusy /\ MaxBusy \in Nat
  BY DEF TypeOK
<1> QED BY <1>1, PeriodIsNat DEF KickDue

LEMMA DueBounded ==
  ASSUME TypeOK, NEW t \in PeriodicTasks, delay[t] <= Period(t)
  PROVE  KickDue(t) <= Period(t) + 2 * MaxBusy
<1>1. delay[t] \in Nat /\ busy \in 0 .. MaxBusy /\ MaxBusy \in Nat
  BY DEF TypeOK
<1> QED BY <1>1, PeriodIsNat DEF KickDue

(* What a step that takes no time does to it: it stays, or the task begins *)
(* its delay, which ends no later than was reckoned with.                  *)
LEMMA DueStays ==
  ASSUME TypeOK, NEW t \in PeriodicTasks, delay'[t] = delay[t], busy' = busy,
         AboutToDelay(t)' => AboutToDelay(t)
  PROVE  KickDue(t)' <= KickDue(t)
<1>1. delay[t] \in Nat /\ busy \in 0 .. MaxBusy /\ MaxBusy \in Nat
  BY DEF TypeOK
<1> QED BY <1>1, PeriodIsNat DEF KickDue, Period

LEMMA DelayIsDue ==
  ASSUME TypeOK, NEW t \in PeriodicTasks, delay[t] = 0, AboutToDelay(t),
         Delay(t, Period(t)), busy' = busy
  PROVE  KickDue(t)' <= KickDue(t)
<1>1. delay'[t] = Period(t) /\ Period(t) \in Nat \ {0}
  BY PeriodIsNat DEF TypeOK, Delay
<1>2. busy \in 0 .. MaxBusy /\ MaxBusy \in Nat
  BY DEF TypeOK
<1> QED BY <1>1, <1>2 DEF KickDue, Period

(* A tick brings every kick nearer: a delay runs off, and a task that has  *)
(* none left keeps the processor from being idle until it has run.         *)
LEMMA TickBringsKicks ==
  ASSUME TypeOK, TimelyInv, stalled = {}, Tick, NEW t \in PeriodicTasks,
         KickDue(t) < remaining
  PROVE  KickDue(t)' < remaining' /\ remaining' > 0
<1>0. /\ delay \in [PeriodicTasks -> Nat] /\ remaining \in Nat
      /\ busy \in 0 .. MaxBusy /\ busy' \in 0 .. MaxBusy
  BY TypeStep DEF TypeOK, WdTypeOK, Next
<1>1. /\ delay'[t] = (IF delay[t] = 0 THEN 0 ELSE delay[t] - 1)
      /\ AboutToDelay(t)' = AboutToDelay(t)
  BY DEF Tick, AboutToDelay
<1>2. remaining' = (IF remaining = 0 THEN 0 ELSE remaining - 1)
  BY DEF Tick, WatchdogTick
<1>3. CASE delay[t] = 0
  <2>1. t \in Tasks /\ Ready(t)
    BY <1>3 DEF PeriodicTasks, Tasks, Ready
  <2>2. busy' = busy + 1
    BY <2>1 DEF Tick, Idle
  <2> QED BY <1>0, <1>1, <1>2, <1>3, <2>2 DEF KickDue, Period
<1>4. CASE delay[t] # 0
  <2>1. ~AboutToDelay(t)
    BY <1>4 DEF TimelyInv
  <2> QED BY <1>0, <1>1, <1>2, <1>4, <2>1 DEF KickDue
<1> QED BY <1>3, <1>4

(* Once no kick is owed and the watchdog has read the word, it has all it  *)
(* waits for, or all but the kick that is excused.                         *)
LEMMA NothingOwedIsComplete ==
  ASSUME TypeOK, NotifyInv, wdPc \in {"loop", "blocked", "woken"},
         ucNotifyState # "received", KicksOwed = {}
  PROVE  Complete \/ Excused
<1>1. "Heartbeat" \in kicked
  BY DEF KicksOwed
<1>2. received = ulNotifiedValue
  BY <1>1 DEF NotifyInv
<1>3. ExpectedBits \subseteq WatchdogBits
  BY DEF ExpectedBits, WatchdogExpectedBits, WatchdogBits
<1>4. CASE imageOk
  BY <1>2, <1>3, <1>4 DEF KicksOwed, Complete
<1>5. CASE ~imageOk
  <2>1. WatchdogBits \ {"FaultInject"} \subseteq received
    BY <1>2, <1>5 DEF KicksOwed
  <2> QED BY <1>3, <1>5, <2>1 DEF Complete, Excused
<1> QED BY <1>4, <1>5

LEMMA OwedArePeriodic == KicksOwed \subseteq PeriodicTasks
  BY DEF KicksOwed, WatchdogBits, PeriodicTasks

(* A request for NOMINAL leaves only such requests in the queue. *)
AllAskForNominal(q) == \A i \in 1 .. Len(q) : q[i].requested_state = NOMINAL

LEMMA PostNominal ==
  ASSUME xStateRequestQueue \in Seq(StateRequests), AllAskForNominal(xStateRequestQueue),
         NEW r \in Reasons, RequestChange(NOMINAL, r)
  PROVE  AllAskForNominal(xStateRequestQueue')
<1>1. StateRequest(NOMINAL, r).requested_state = NOMINAL
  BY DEF StateRequest
<1>2. CASE xStateRequestQueue' = xStateRequestQueue
  BY <1>2
<1>3. CASE xStateRequestQueue' = Append(xStateRequestQueue, StateRequest(NOMINAL, r))
  <2>1. StateRequest(NOMINAL, r) \in StateRequests
    BY RequestTyped
  <2>2. /\ Len(xStateRequestQueue') = Len(xStateRequestQueue) + 1
        /\ \A i \in 1 .. Len(xStateRequestQueue) :
              xStateRequestQueue'[i] = xStateRequestQueue[i]
        /\ xStateRequestQueue'[Len(xStateRequestQueue) + 1] = StateRequest(NOMINAL, r)
    BY <1>3, <2>1
  <2> QED BY <1>1, <2>2 DEF AllAskForNominal
<1> QED BY <1>2, <1>3 DEF RequestChange

LEMMA ReceiveNominal ==
  ASSUME xStateRequestQueue \in Seq(StateRequests), AllAskForNominal(xStateRequestQueue),
         Receive
  PROVE  /\ AllAskForNominal(xStateRequestQueue')
         /\ inHand'[1].requested_state = NOMINAL
<1>1. Len(xStateRequestQueue) \in Nat \ {0}
  BY DEF Receive
<1>2. /\ Len(xStateRequestQueue') = Len(xStateRequestQueue) - 1
      /\ \A i \in 1 .. Len(xStateRequestQueue') :
            xStateRequestQueue'[i] = xStateRequestQueue[i + 1]
  BY <1>1 DEF Receive
<1>3. inHand'[1] = xStateRequestQueue[1]
  BY DEF Receive
<1> QED BY <1>1, <1>2, <1>3 DEF AllAskForNominal

(* In a system booted in NOMINAL a cycle in which FaultInject's kick is    *)
(* missing can be complete only in SAFE, and then no request is posted.    *)
LEMMA NoRequestWithoutInjection ==
  ASSUME NotifyInv, TimelyInv, imageOk, "FaultInject" \notin ulNotifiedValue,
         wdPc = "evaluate"
  PROVE  EvaluateRequest = {}
<1>1. Complete /\ "FaultInject" \notin received
  BY DEF TimelyInv, NotifyInv, Excused
<1>2. current_state = SAFE
  BY <1>1 DEF Complete, ExpectedBits, WatchdogExpectedBits, WatchdogBits
<1> QED BY <1>1, <1>2 DEF EvaluateRequest, Recovered

Untroubled ==
    /\ flippedBits = 0 /\ scrubPc \in {"scrub", "delay"}
    /\ injectPc \in {"delay", "check", "kick"}
    /\ handlerPc \notin {"d", "a", "f", "inject"} \cup Counting
    /\ smPc # "policy"
    /\ smPc \in {"init", "boot"} \/ gSystemState = NOMINAL
    /\ smPc = "apply" => inHand[1].requested_state = NOMINAL
    /\ AllAskForNominal(xStateRequestQueue)

LEMMA UntroubledMeans ==
  UntroubledInv <=> (imageOk /\ "FaultInject" \notin ulNotifiedValue => Untroubled)
  BY DEF UntroubledInv, Untroubled, AllAskForNominal

(* The word only grows, and the image is judged once.                      *)
LEMMA WordGrows ==
  ASSUME [Next]_vars
  PROVE  ulNotifiedValue \subseteq ulNotifiedValue'
<1>1. CASE UNCHANGED ulNotifiedValue
  BY <1>1
<1>2. CASE \E bit \in WatchdogBits : Kick(bit)
  BY <1>2 DEF Kick, NotifyBit
<1>3. CASE WatchdogStep
  BY <1>1, <1>3 DEF WatchdogStep, WatchdogStart, LeaveLoop, NotifyWait, NotifyReturn,
                    BeginCycle, EvaluateCycle
<1>4. CASE StateMachineStep \/ CommandHandler \/ CommandInput \/ Tick \/ UNCHANGED vars
  BY <1>1, <1>4 DEF StateMachineStep, CommandHandler, CommandInput, Tick, WatchdogTick,
                    NoKick, vars, wdVars
<1>5. CASE Heartbeat \/ MemScrub \/ FaultInject
  BY <1>1, <1>2, <1>5
     DEF Heartbeat, HeartbeatKicks, HeartbeatDelays, MemScrub, ScrubCorrects,
         ScrubCounts, ScrubEnds, ScrubDelays, FaultInject, InjectDelays,
         InjectChecksState, InjectKicks, InjectChecksFlag, InjectFault,
         NoKick, wdVars, WatchdogBits
<1> QED BY <1>3, <1>4, <1>5 DEF Next, TaskStep

LEMMA ImageIsJudged ==
  ASSUME [Next]_vars
  PROVE  imageOk' = imageOk
<1>1. CASE WatchdogStep \/ CommandInput \/ Tick \/ Heartbeat \/ FaultInject \/ UNCHANGED vars
  BY <1>1 DEF WatchdogStep, CommandInput, Tick, Heartbeat, FaultInject, vars, smVars
<1>2. CASE StateMachineStep
  BY <1>2 DEF StateMachineStep, SmStep, SystemStateInit, Boot, Receive, Apply, RunPolicy
<1>3. CASE MemScrub
  BY <1>3 DEF MemScrub, ScrubCorrects, ScrubCounts, ScrubEnds, ScrubDelays, CountSeu,
              CountRead, CountStore, CountPost, CountReset, Post, smVars
<1>4. CASE CommandHandler
  BY <1>4 DEF CommandHandler, ReceiveCommand, HandleStateCommand, HandleInjectCommand,
              ManualInject, HandleToggleCommand, WriteToggle, HandleScrubCommand,
              ForcedScrubCorrects, ForcedScrubCounts, ForcedScrubEnds, CountSeu,
              CountRead, CountStore, CountPost, CountReset, Post, smVars
<1> QED BY <1>1, <1>2, <1>3, <1>4 DEF Next, TaskStep

(* FaultInject's first look at the mode sees NOMINAL, because the state    *)
(* machine has booted by then; so what follows the look is the kick.       *)
LEMMA FirstInjectionKicks ==
  ASSUME TypeOK, Untroubled, FaultInject
  PROVE  \/ InjectDelays
         \/ InjectChecksState /\ injectPc' = "kick"
         \/ InjectKicks /\ "FaultInject" \in ulNotifiedValue'
<1>1. wdPc = "blocked" /\ smPc = "receive"
  BY LowerTaskRuns
<1>2. AllowsAutoFaultInject(gSystemState)
  BY <1>1 DEF Untroubled, AllowsAutoFaultInject
<1>3. InjectKicks => "FaultInject" \in ulNotifiedValue'
  BY <1>1, KickWakes DEF InjectKicks
<1> QED BY <1>2, <1>3
        DEF FaultInject, InjectChecksState, InjectChecksFlag, InjectFault, Untroubled

LEMMA UntroubledStep ==
  ASSUME PeriodsAreKept, TypeOK, NotifyInv, TimelyInv, UntroubledInv, [Next]_vars
  PROVE  UntroubledInv'
<1> SUFFICES ASSUME imageOk', "FaultInject" \notin ulNotifiedValue'
             PROVE  Untroubled'
  BY DEF UntroubledInv, Untroubled, AllAskForNominal
<1>a. imageOk /\ "FaultInject" \notin ulNotifiedValue /\ Untroubled
  BY WordGrows, ImageIsJudged, UntroubledMeans
<1>b. xStateRequestQueue \in Seq(StateRequests) /\ inHand \in Seq(StateRequests)
  BY DEF TypeOK, SmTypeOK
<1> USE DEF Untroubled
<1>1. CASE WatchdogStep
  <2>1. UNCHANGED xStateRequestQueue
    BY <1>1, <1>a, NoRequestWithoutInjection DEF WatchdogStep, EvaluateCycle
  <2> QED BY <1>1, <1>a, <2>1 DEF WatchdogStep
<1>2. CASE StateMachineStep
  <2>1. UNCHANGED <<flippedBits, scrubPc, injectPc, handlerPc>>
    BY <1>2 DEF StateMachineStep
  <2>2. CASE SystemStateInit
    BY <1>a, <2>1, <2>2 DEF SystemStateInit, AllAskForNominal
  <2>3. CASE Boot
    BY <1>a, <2>1, <2>3 DEF Boot, BootMode
  <2>4. CASE Receive
    <3>1. /\ AllAskForNominal(xStateRequestQueue')
          /\ inHand'[1].requested_state = NOMINAL
      BY <1>a, <1>b, <2>4, ReceiveNominal
    <3> QED BY <1>a, <2>1, <2>4, <3>1 DEF Receive
  <2>5. CASE Apply
    <3>1. gSystemState = NOMINAL /\ gSystemState' = NOMINAL
      BY <1>a, <2>5 DEF Apply, ApplyRequest
    <3> QED BY <1>a, <2>1, <2>5, <3>1 DEF Apply
  <2>6. CASE RunPolicy
    BY <1>a, <2>6 DEF RunPolicy
  <2> QED BY <1>2, <2>2, <2>3, <2>4, <2>5, <2>6 DEF StateMachineStep, SmStep
<1>3. CASE Heartbeat
  BY <1>3, <1>a DEF Heartbeat, smVars
<1>4. CASE MemScrub
  <2>1. ~(\E n \in 0 .. ScrubBits : n < flippedBits)
    BY <1>a
  <2>2. ScrubEnds \/ ScrubDelays
    BY <1>4, <1>a, <2>1 DEF MemScrub, ScrubCorrects, ScrubCounts, CorrectByte, CountSeu,
                            CountRead, CountStore, CountPost, CountReset
  <2> QED BY <1>4, <1>a, <2>2 DEF MemScrub, ScrubEnds, ScrubDelays, smVars
<1>5. CASE FaultInject
  <2>1. InjectDelays \/ (InjectChecksState /\ injectPc' = "kick")
    BY <1>5, <1>a, FirstInjectionKicks
  <2>2. injectPc' \in {"check", "kick"} /\ UNCHANGED flippedBits
    BY <2>1 DEF InjectDelays, InjectChecksState
  <2> QED BY <1>5, <1>a, <2>2 DEF FaultInject, smVars
<1>6. CASE CommandHandler
  <2>1. UNCHANGED <<scrubPc, injectPc>>
    BY <1>6 DEF CommandHandler
  <2>2. CASE ReceiveCommand
    <3>1. handlerPc' \in Keys
      BY <2>2 DEF ReceiveCommand, TypeOK
    <3>2. handlerPc' \notin {"d", "a", "f", "inject"} \cup Counting
      BY <3>1 DEF PeriodsAreKept, OperatorKeys, Counting
    <3> QED BY <1>a, <2>1, <2>2, <3>2 DEF ReceiveCommand, smVars
  <2>3. CASE HandleStateCommand
    <3>1. Post(NOMINAL, OperatorCommand)
      BY <1>a, <2>3 DEF HandleStateCommand
    <3>2. AllAskForNominal(xStateRequestQueue')
      BY <1>a, <1>b, <3>1, PostNominal DEF Post, Reasons
    <3> QED BY <1>a, <2>1, <2>3, <3>1, <3>2 DEF HandleStateCommand, Post, Counting
  <2>4. CASE WriteToggle
    BY <1>a, <2>1, <2>4 DEF WriteToggle, Counting
  <2>5. CASE ForcedScrubCorrects
    BY <1>a, <2>5 DEF ForcedScrubCorrects, CorrectByte
  <2>6. CASE HandleToggleCommand \/ HandleScrubCommand \/ ForcedScrubEnds
    BY <1>a, <2>1, <2>6 DEF HandleToggleCommand, HandleScrubCommand, ForcedScrubEnds,
                            smVars, Counting
  <2> QED BY <1>6, <1>a, <2>2, <2>3, <2>4, <2>5, <2>6
          DEF CommandHandler, HandleInjectCommand, ManualInject, ForcedScrubCounts,
              CountSeu, CountRead, CountStore, CountPost, CountReset, Counting
<1>7. CASE CommandInput
  BY <1>7, <1>a DEF CommandInput, smVars
<1>8. CASE Tick
  BY <1>8, <1>a DEF Tick, smVars
<1>9. CASE UNCHANGED vars
  BY <1>9, <1>a DEF vars, smVars
<1> QED BY <1>1, <1>2, <1>3, <1>4, <1>5, <1>6, <1>7, <1>8, <1>9 DEF Next, TaskStep

(* A step of a task that leaves the watchdog alone keeps every kick due.   *)
LEMMA QuietStep ==
  ASSUME TypeOK, TypeOK', TimelyInv, UNCHANGED <<wdVars, kicked, imageOk, busy>>,
         \A t \in KicksOwed : KickDue(t)' <= KickDue(t),
         \A t \in PeriodicTasks : AboutToDelay(t)' => delay'[t] = 0,
         delay'["Heartbeat"] <= HeartbeatPeriod, delay'["FaultInject"] <= InjectPeriod,
         "MemScrub" \notin ulNotifiedValue => delay'["MemScrub"] = 0 /\ scrubPc' # "delay"
  PROVE  TimelyInv'
<1>1. /\ KicksOwed' = KicksOwed /\ remaining' = remaining
      /\ (Complete \/ Excused)' = (Complete \/ Excused)
  BY DEF KicksOwed, Complete, Excused, ExpectedBits, wdVars
<1>2. wdPc' \in {"loop", "blocked", "woken"} =>
          \A t \in KicksOwed' : KickDue(t)' < remaining'
  <2> SUFFICES ASSUME wdPc \in {"loop", "blocked", "woken"}, NEW t \in KicksOwed
               PROVE  KickDue(t)' < remaining
    BY <1>1 DEF wdVars
  <2>1. KickDue(t) < remaining /\ KickDue(t)' <= KickDue(t)
    BY DEF TimelyInv
  <2>2. KickDue(t) \in Nat /\ KickDue(t)' \in Nat /\ remaining \in Nat
    <3>1. KickDue(t) \in Nat
      BY DueIsNat, OwedArePeriodic
    <3>2. KickDue(t)' \in Nat
      <4>1. delay'[t] \in Nat /\ busy' \in 0 .. MaxBusy /\ MaxBusy \in Nat
        BY OwedArePeriodic DEF TypeOK
      <4> QED BY <4>1, PeriodIsNat, OwedArePeriodic DEF KickDue, Period
    <3> QED BY <3>1, <3>2 DEF TypeOK, WdTypeOK
  <2> QED BY <2>1, <2>2
<1>3. wdPc' = wdPc /\ ucNotifyState' = ucNotifyState /\ ulNotifiedValue' = ulNotifiedValue
  BY DEF wdVars
<1> QED BY <1>1, <1>2, <1>3 DEF TimelyInv

(* A kick leaves every other one due when it was. *)
LEMMA KickStep ==
  ASSUME TypeOK, TypeOK', TimelyInv, wdPc = "blocked", UNCHANGED <<imageOk, busy, delay>>,
         NEW t \in PeriodicTasks, Kick(t), delay[t] = 0,
         \A u \in PeriodicTasks \ {t} : AboutToDelay(u)' = AboutToDelay(u)
  PROVE  TimelyInv'
<1>1. /\ ulNotifiedValue' = ulNotifiedValue \cup {t} /\ kicked' = kicked \cup {t}
      /\ ucNotifyState' = "received" /\ wdPc' = "woken" /\ remaining' = remaining
  BY KickWakes DEF Kick
<1>2. KicksOwed' \subseteq KicksOwed \ {t}
  BY <1>1 DEF KicksOwed
<1>3. ASSUME NEW u \in KicksOwed'
      PROVE  KickDue(u)' < remaining'
  <2>1. /\ u \in PeriodicTasks \ {t} /\ KickDue(u) < remaining
    BY <1>2, OwedArePeriodic DEF TimelyInv
  <2>2. KickDue(u)' = KickDue(u)
    BY <2>1 DEF KickDue, Period
  <2> QED BY <1>1, <2>1, <2>2
<1>4. "MemScrub" \notin ulNotifiedValue' => delay'["MemScrub"] = 0 /\ scrubPc' # "delay"
  <2> SUFFICES ASSUME "MemScrub" \notin ulNotifiedValue'
               PROVE  delay["MemScrub"] = 0 /\ scrubPc' # "delay"
    OBVIOUS
  <2>1. "MemScrub" \notin ulNotifiedValue /\ "MemScrub" \in PeriodicTasks \ {t}
    BY <1>1 DEF PeriodicTasks
  <2>2. AboutToDelay("MemScrub")' = AboutToDelay("MemScrub")
    BY <2>1
  <2> QED BY <2>1, <2>2 DEF TimelyInv, AboutToDelay
<1>5. \A u \in PeriodicTasks : AboutToDelay(u)' => delay'[u] = 0
  BY DEF TimelyInv
<1> QED BY <1>1, <1>3, <1>4, <1>5 DEF TimelyInv

LEMMA HeartbeatTimely ==
  ASSUME TypeOK, TypeOK', TimelyInv, Heartbeat
  PROVE  TimelyInv'
<1>1. /\ wdPc = "blocked" /\ UNCHANGED <<imageOk, busy, scrubPc, injectPc>>
      /\ delay["Heartbeat"] = 0 /\ "Heartbeat" \in PeriodicTasks
  BY LowerTaskRuns DEF Heartbeat, CanRun, Ready, envVars, smVars, PeriodicTasks
<1>2. \A u \in PeriodicTasks \ {"Heartbeat"} : AboutToDelay(u)' = AboutToDelay(u)
  BY <1>1 DEF AboutToDelay, PeriodicTasks
<1>3. CASE HeartbeatKicks
  BY <1>1, <1>2, <1>3, KickStep DEF HeartbeatKicks
<1>4. CASE HeartbeatDelays
  <2>1. /\ UNCHANGED <<wdVars, kicked>> /\ AboutToDelay("Heartbeat")
        /\ ~AboutToDelay("Heartbeat")' /\ Period("Heartbeat") = HeartbeatPeriod
        /\ Delay("Heartbeat", HeartbeatPeriod)
    BY <1>4 DEF HeartbeatDelays, NoKick, AboutToDelay, Period
  <2>2. /\ delay'["Heartbeat"] = HeartbeatPeriod
        /\ \A u \in PeriodicTasks \ {"Heartbeat"} : delay'[u] = delay[u]
    BY <1>1, <2>1 DEF TypeOK, Delay
  <2>3. \A u \in KicksOwed : KickDue(u)' <= KickDue(u)
    BY <1>1, <1>2, <2>1, <2>2, DueStays, DelayIsDue, OwedArePeriodic
  <2>4. \A u \in PeriodicTasks : AboutToDelay(u)' => delay'[u] = 0
    BY <1>2, <2>1, <2>2 DEF TimelyInv
  <2>5. /\ delay'["FaultInject"] = delay["FaultInject"]
        /\ delay'["MemScrub"] = delay["MemScrub"] /\ scrubPc' = scrubPc
    BY <1>1, <2>2 DEF PeriodicTasks
  <2> QED BY <1>1, <2>1, <2>2, <2>3, <2>4, <2>5, QuietStep DEF TimelyInv
<1> QED BY <1>3, <1>4 DEF Heartbeat

LEMMA MemScrubTimely ==
  ASSUME TypeOK, TypeOK', TimelyInv, MemScrub, UNCHANGED imageOk
  PROVE  TimelyInv'
<1>1. /\ wdPc = "blocked" /\ UNCHANGED <<busy, heartbeatPc, injectPc>>
      /\ delay["MemScrub"] = 0 /\ "MemScrub" \in PeriodicTasks
  BY LowerTaskRuns DEF MemScrub, CanRun, Ready, envVars, PeriodicTasks
<1>2. \A u \in PeriodicTasks \ {"MemScrub"} : AboutToDelay(u)' = AboutToDelay(u)
  BY <1>1 DEF AboutToDelay, PeriodicTasks
<1>3. CASE ScrubEnds
  BY <1>1, <1>2, <1>3, KickStep DEF ScrubEnds
<1>4. CASE ScrubCorrects \/ ScrubCounts
  <2>1. UNCHANGED <<wdVars, kicked, delay>> /\ scrubPc' # "delay"
    BY <1>4 DEF ScrubCorrects, ScrubCounts, CorrectByte, CountSeu, CountRead, CountStore,
                CountPost, CountReset, NoKick
  <2>2. \A u \in PeriodicTasks : AboutToDelay(u)' => AboutToDelay(u)
    BY <1>2, <2>1 DEF AboutToDelay
  <2>3. \A u \in KicksOwed : KickDue(u)' <= KickDue(u)
    BY <1>1, <2>1, <2>2, DueStays, OwedArePeriodic
  <2>4. \A u \in PeriodicTasks : AboutToDelay(u)' => delay'[u] = 0
    BY <2>1, <2>2 DEF TimelyInv
  <2> QED BY <1>1, <2>1, <2>3, <2>4, QuietStep DEF TimelyInv
<1>5. CASE ScrubDelays
  <2>1. /\ UNCHANGED <<wdVars, kicked>> /\ scrubPc' # "delay"
        /\ "MemScrub" \in ulNotifiedValue /\ Delay("MemScrub", ScrubPeriod)
        /\ AboutToDelay("MemScrub") /\ Period("MemScrub") = ScrubPeriod
    BY <1>5 DEF ScrubDelays, NoKick, TimelyInv, AboutToDelay, Period
  <2>2. \A u \in PeriodicTasks \ {"MemScrub"} : delay'[u] = delay[u]
    BY <2>1 DEF TypeOK, Delay
  <2>3. \A u \in KicksOwed : KickDue(u)' <= KickDue(u)
    BY <1>1, <1>2, <2>1, <2>2, DueStays, DelayIsDue, OwedArePeriodic
  <2>4. ~AboutToDelay("MemScrub")'
    BY <2>1 DEF AboutToDelay
  <2>5. \A u \in PeriodicTasks : AboutToDelay(u)' => delay'[u] = 0
    BY <1>2, <2>2, <2>4 DEF TimelyInv
  <2>6. /\ delay'["FaultInject"] = delay["FaultInject"]
        /\ delay'["Heartbeat"] = delay["Heartbeat"]
    BY <2>2 DEF PeriodicTasks
  <2> QED BY <1>1, <2>1, <2>3, <2>5, <2>6, QuietStep DEF TimelyInv
<1> QED BY <1>3, <1>4, <1>5 DEF MemScrub

LEMMA FaultInjectTimely ==
  ASSUME TypeOK, TypeOK', TimelyInv, UntroubledInv, FaultInject
  PROVE  TimelyInv'
<1>1. /\ wdPc = "blocked" /\ UNCHANGED <<imageOk, busy, heartbeatPc, scrubPc>>
      /\ delay["FaultInject"] = 0 /\ "FaultInject" \in PeriodicTasks
  BY LowerTaskRuns DEF FaultInject, CanRun, Ready, envVars, smVars, PeriodicTasks
<1>2. \A u \in PeriodicTasks \ {"FaultInject"} : AboutToDelay(u)' = AboutToDelay(u)
  BY <1>1 DEF AboutToDelay, PeriodicTasks
<1>3. CASE InjectKicks
  BY <1>1, <1>2, <1>3, KickStep DEF InjectKicks
<1>4. CASE InjectDelays
  <2>1. /\ UNCHANGED <<wdVars, kicked>> /\ AboutToDelay("FaultInject")
        /\ ~AboutToDelay("FaultInject")' /\ Period("FaultInject") = InjectPeriod
        /\ Delay("FaultInject", InjectPeriod)
    BY <1>4 DEF InjectDelays, NoKick, AboutToDelay, Period
  <2>2. /\ delay'["FaultInject"] = InjectPeriod
        /\ \A u \in PeriodicTasks \ {"FaultInject"} : delay'[u] = delay[u]
    BY <1>1, <2>1 DEF TypeOK, Delay
  <2>3. \A u \in KicksOwed : KickDue(u)' <= KickDue(u)
    BY <1>1, <1>2, <2>1, <2>2, DueStays, DelayIsDue, OwedArePeriodic
  <2>4. \A u \in PeriodicTasks : AboutToDelay(u)' => delay'[u] = 0
    BY <1>2, <2>1, <2>2 DEF TimelyInv
  <2>5. /\ delay'["Heartbeat"] = delay["Heartbeat"]
        /\ delay'["MemScrub"] = delay["MemScrub"] /\ scrubPc' = scrubPc
    BY <1>1, <2>2 DEF PeriodicTasks
  <2> QED BY <1>1, <2>1, <2>2, <2>3, <2>4, <2>5, QuietStep DEF TimelyInv
<1>5. CASE InjectChecksState \/ InjectChecksFlag \/ InjectFault
  <2>1. UNCHANGED <<wdVars, kicked, delay>>
    BY <1>5 DEF InjectChecksState, InjectChecksFlag, InjectFault, NoKick
  <2>2. "FaultInject" \in KicksOwed => ~AboutToDelay("FaultInject")'
    <3> SUFFICES ASSUME "FaultInject" \in KicksOwed
                 PROVE  injectPc' # "delay"
      BY DEF AboutToDelay
    <3>1. Untroubled
      BY UntroubledMeans DEF KicksOwed
    <3> QED BY <1>5, <3>1, FirstInjectionKicks
            DEF InjectDelays, InjectChecksState, InjectKicks, InjectChecksFlag, InjectFault
  <2>3. \A u \in KicksOwed : KickDue(u)' <= KickDue(u)
    BY <1>1, <1>2, <2>1, <2>2, DueStays, OwedArePeriodic
  <2>4. \A u \in PeriodicTasks : AboutToDelay(u)' => delay'[u] = 0
    BY <1>1, <1>2, <2>1 DEF TimelyInv
  <2> QED BY <1>1, <2>1, <2>3, <2>4, QuietStep DEF TimelyInv
<1> QED BY <1>3, <1>4, <1>5 DEF FaultInject

LEMMA WatchdogTimely ==
  ASSUME PeriodsAreKept, TypeOK, NotifyInv, TimelyInv, WatchdogStep
  PROVE  TimelyInv'
<1>b. busy \in 0 .. MaxBusy /\ remaining \in Nat /\ MaxBusy \in Nat
      /\ WatchdogTimeout \in Nat
  BY DEF TypeOK, WdTypeOK
<1>0. UNCHANGED <<periodicVars, busy, imageOk>>
  BY DEF WatchdogStep, envVars
<1>a. /\ \A t \in PeriodicTasks : AboutToDelay(t)' = AboutToDelay(t)
      /\ \A t \in PeriodicTasks : KickDue(t)' = KickDue(t)
      /\ delay' = delay /\ scrubPc' = scrubPc
  BY <1>0 DEF KickDue, AboutToDelay, Period
<1>c. UNCHANGED ulNotifiedValue
  BY DEF WatchdogStep, WatchdogStart, LeaveLoop, NotifyWait, NotifyReturn, BeginCycle,
         EvaluateCycle
<1>d. /\ \A t \in PeriodicTasks : AboutToDelay(t)' => delay'[t] = 0
      /\ delay'["Heartbeat"] <= HeartbeatPeriod /\ delay'["FaultInject"] <= InjectPeriod
      /\ "MemScrub" \notin ulNotifiedValue' => delay'["MemScrub"] = 0 /\ scrubPc' # "delay"
  BY <1>a, <1>c DEF TimelyInv
<1>1. CASE WatchdogStart
  BY <1>1, <1>d DEF WatchdogStart, TimelyInv
<1>2. CASE BeginCycle(gSystemState)
  <2>1. remaining' = WatchdogTimeout /\ wdPc' = "loop"
    BY <1>2 DEF BeginCycle
  <2>2. KicksOwed' \subseteq PeriodicTasks
    BY DEF KicksOwed, WatchdogBits, PeriodicTasks
  <2>3. ASSUME NEW t \in KicksOwed'
        PROVE  KickDue(t) < WatchdogTimeout
    <3>0. t \in PeriodicTasks /\ KickDue(t) \in Nat /\ Period(t) \in Nat
      BY <2>2, DueIsNat DEF Period
    <3>1. CASE t \in {"Heartbeat", "FaultInject"}
      <4>1. delay[t] <= Period(t) /\ Period(t) + 2 * MaxBusy < WatchdogTimeout
        BY <3>1 DEF TimelyInv, PeriodsAreKept, Period
      <4> QED BY <1>b, <3>0, <4>1, DueBounded
    <3>2. CASE t = "MemScrub"
      <4>1. t \notin ulNotifiedValue
        BY <1>c, <2>3, <3>2 DEF KicksOwed
      <4>2. delay[t] = 0 /\ ~AboutToDelay(t)
        BY <3>2, <4>1 DEF TimelyInv, AboutToDelay
      <4> QED BY <4>2, <1>b DEF KickDue
    <3> QED BY <3>0, <3>1, <3>2 DEF PeriodicTasks
  <2> QED BY <1>a, <1>d, <2>1, <2>2, <2>3 DEF TimelyInv
<1>3. CASE LeaveLoop
  <2>0. wdPc = "loop" /\ wdPc' = "evaluate" /\ UNCHANGED <<received, current_state>>
    BY <1>3 DEF LeaveLoop
  <2>1. Complete \/ Excused
    <3>1. CASE remaining = 0
      <4>1. KicksOwed = {}
        BY <2>0, <3>1, DueIsNat, OwedArePeriodic DEF TimelyInv
      <4>2. ucNotifyState # "received"
        BY <2>0 DEF NotifyInv
      <4> QED BY <2>0, <4>1, <4>2, NothingOwedIsComplete
    <3> QED BY <1>3, <3>1 DEF LeaveLoop
  <2>2. (Complete \/ Excused)'
    BY <1>0, <2>0, <2>1 DEF Complete, Excused, ExpectedBits
  <2> QED BY <1>d, <2>0, <2>2 DEF TimelyInv
<1>4. ASSUME UNCHANGED <<remaining, kicked>>, wdPc \in {"loop", "woken"}
      PROVE  \A t \in KicksOwed' : KickDue(t)' < remaining'
  <2>1. KicksOwed' = KicksOwed
    BY <1>0, <1>4, <1>c DEF KicksOwed
  <2> QED BY <1>4, <1>a, <2>1, OwedArePeriodic DEF TimelyInv
<1>5. CASE NotifyWait
  <2>1. UNCHANGED <<remaining, kicked>> /\ wdPc = "loop" /\ ucNotifyState # "received"
    BY <1>5 DEF WatchdogStep, NotifyWait, BeginCycle, EvaluateCycle, NotifyInv
  <2>2. wdPc' = "blocked"
    BY <1>5, <2>1 DEF NotifyWait
  <2> QED BY <1>4, <1>d, <2>1, <2>2 DEF TimelyInv
<1>6. CASE NotifyReturn
  <2>1. UNCHANGED <<remaining, kicked, current_state>> /\ wdPc = "woken"
    BY <1>6 DEF WatchdogStep, NotifyReturn, BeginCycle, EvaluateCycle
  <2>2. CASE ucNotifyState = "received"
    <3>1. wdPc' = "loop"
      BY <1>6, <2>2 DEF NotifyReturn
    <3> QED BY <1>4, <1>d, <2>1, <3>1 DEF TimelyInv
  <2>3. CASE ucNotifyState # "received"
    <3>1. wdPc' = "evaluate" /\ received' = received
      BY <1>6, <2>3 DEF NotifyReturn
    <3>2. remaining = 0
      BY <2>1, <2>3 DEF TimelyInv
    <3>3. KicksOwed = {}
      BY <2>1, <3>2, DueIsNat, OwedArePeriodic DEF TimelyInv
    <3>4. Complete \/ Excused
      BY <2>1, <2>3, <3>3, NothingOwedIsComplete
    <3>5. (Complete \/ Excused)'
      BY <1>0, <2>1, <3>1, <3>4 DEF Complete, Excused, ExpectedBits
    <3> QED BY <1>d, <3>1, <3>5 DEF TimelyInv
  <2> QED BY <2>2, <2>3
<1>7. CASE EvaluateCycle
  BY <1>7, <1>d DEF EvaluateCycle, TimelyInv
<1> QED BY <1>1, <1>2, <1>3, <1>5, <1>6, <1>7 DEF WatchdogStep

LEMMA TickTimely ==
  ASSUME PeriodsAreKept, TypeOK, TypeOK', NotifyInv, TimelyInv, Tick
  PROVE  TimelyInv'
<1>b. /\ delay \in [PeriodicTasks -> Nat] /\ stalled = {} /\ remaining \in Nat
      /\ HeartbeatPeriod \in Nat /\ InjectPeriod \in Nat
  BY DEF TypeOK, WdTypeOK, PeriodsAreKept
<1>1. UNCHANGED <<kicked, ulNotifiedValue, received, current_state, ucNotifyState, imageOk,
                  heartbeatPc, scrubPc, injectPc>>
  BY DEF Tick, WatchdogTick, smVars
<1>2. \A t \in PeriodicTasks : delay'[t] = IF delay[t] = 0 THEN 0 ELSE delay[t] - 1
  BY DEF Tick
<1>3. /\ delay'["Heartbeat"] <= HeartbeatPeriod /\ delay'["FaultInject"] <= InjectPeriod
      /\ "MemScrub" \notin ulNotifiedValue' => delay'["MemScrub"] = 0 /\ scrubPc' # "delay"
  BY <1>b, <1>1, <1>2 DEF TimelyInv, PeriodicTasks
<1>4. \A t \in PeriodicTasks : AboutToDelay(t)' => delay'[t] = 0
  BY <1>1, <1>2 DEF TimelyInv, AboutToDelay
<1>5. KicksOwed' = KicksOwed
  BY <1>1 DEF KicksOwed
<1>6. wdPc \in {"loop", "blocked", "woken"} =>
        \A t \in KicksOwed' : KickDue(t)' < remaining'
  BY <1>b, <1>5, TickBringsKicks, OwedArePeriodic DEF TimelyInv
<1>7. /\ wdPc' \in {"loop", "blocked", "woken"} => wdPc \in {"loop", "blocked", "woken"}
      /\ wdPc' = "woken" /\ wdPc # "woken" => remaining' = 0
      /\ wdPc' = "evaluate" => wdPc = "evaluate"
      /\ remaining' = IF remaining = 0 THEN 0 ELSE remaining - 1
  BY DEF Tick, WatchdogTick
<1>8. wdPc' = "woken" /\ ucNotifyState' # "received" => remaining' = 0
  BY <1>1, <1>7 DEF TimelyInv
<1>9. wdPc' = "evaluate" => (Complete \/ Excused)'
  BY <1>1, <1>7 DEF TimelyInv, Complete, Excused, ExpectedBits
<1> QED BY <1>3, <1>4, <1>6, <1>7, <1>8, <1>9 DEF TimelyInv

LEMMA TimelyStep ==
  ASSUME PeriodsAreKept, TypeOK, NotifyInv, TimelyInv, UntroubledInv, [Next]_vars
  PROVE  TimelyInv'
<1>a. TypeOK' /\ imageOk' = imageOk
  BY TypeStep, ImageIsJudged
<1>1. CASE UNCHANGED <<wdVars, periodicVars, busy, kicked>>
  <2>1. /\ UNCHANGED <<delay, scrubPc>>
        /\ \A t \in PeriodicTasks : AboutToDelay(t)' = AboutToDelay(t)
        /\ \A t \in PeriodicTasks : KickDue(t)' = KickDue(t)
    BY <1>1 DEF AboutToDelay, KickDue, Period
  <2>2. \A t \in KicksOwed : KickDue(t)' <= KickDue(t)
    BY <2>1, DueIsNat, OwedArePeriodic
  <2> QED BY <1>a, <1>1, <2>1, <2>2, QuietStep DEF TimelyInv
<1>2. CASE StateMachineStep \/ CommandHandler \/ CommandInput \/ UNCHANGED vars
  BY <1>1, <1>2 DEF StateMachineStep, CommandHandler, NoKick, CommandInput, vars, envVars
<1> QED
  BY <1>a, <1>2, WatchdogTimely, HeartbeatTimely, MemScrubTimely, FaultInjectTimely,
     TickTimely DEF Next, TaskStep

(* While the periods are kept, every kick that a cycle is still owed comes *)
(* before the cycle's deadline, wherever the tasks are between a kick, the *)
(* call of vTaskDelay and its return; and a system that booted in NOMINAL  *)
(* is still there when FaultInject looks at the mode for the first time.   *)
THEOREM KicksAreTimely ==
  ASSUME PeriodsAreKept
  PROVE  Spec => []AlarmInv
<1>1. Init => AlarmInv
  <2> SUFFICES ASSUME Init PROVE AlarmInv
    OBVIOUS
  <2>1. TimelyInv
    BY DEF Init, WdInit, TimelyInv, PeriodicTasks
  <2>2. Untroubled
    BY DEF Init, SmInit, Untroubled, AllAskForNominal, Counting
  <2> QED BY <2>1, <2>2, UntroubledMeans DEF AlarmInv
<1>2. AlarmInv /\ Inv /\ [Next]_vars => AlarmInv'
  BY TimelyStep, UntroubledStep DEF AlarmInv, Inv
<1> QED BY Invariance, <1>1, <1>2, PTL DEF Spec

(* While every monitored task keeps its period no cycle of the watchdog is *)
(* judged incomplete, for every period, timeout and load PeriodsAreKept    *)
(* allows; unless the system booted in DEGRADED, and then FaultInject's    *)
(* kick is all that is missing.                                            *)
THEOREM AlarmsAreTrue ==
  ASSUME PeriodsAreKept
  PROVE  Spec => []NoFalseAlarm
<1>1. AlarmInv => NoFalseAlarm
  BY DEF AlarmInv, TimelyInv, NoFalseAlarm
<1> QED BY KicksAreTimely, <1>1, PTL

-----------------------------------------------------------------------------
(* The state machine alone, with any task that posts any request at any    *)
(* time: its queue is invisible to those who post.                         *)
VARIABLE lastPosted
Alone == INSTANCE StateMachineImpl
RequestFold == INSTANCE Folding WITH op <- Alone!ApplyRequest

(* The mode after the requests of a sequence, one after the other.  *)
After(mode, requests) == Alone!FoldLeft(Alone!ApplyRequest, mode, requests)

LEMMA AfterIsFold ==
  ASSUME NEW mode, NEW requests
  PROVE  After(mode, requests) = RequestFold!FoldLeft(Alone!ApplyRequest, mode, requests)
BY DEF After, Alone!FoldLeft, Alone!MapThenFoldSet, Alone!Max,
       RequestFold!FoldLeft, RequestFold!MapThenFoldSet, RequestFold!Max

LEMMA AfterNone == ASSUME NEW mode PROVE After(mode, <<>>) = mode
<1> DEFINE run == [m \in 0 .. 0 |-> mode]
<1>1. DOMAIN <<>> = 1 .. 0 /\ 0 \in Nat
  OBVIOUS
<1>2. RequestFold!IsRun(run, mode, <<>>, 0) /\ run[0] = mode
  BY DEF RequestFold!IsRun
<1> HIDE DEF run
<1>3. RequestFold!FoldLeft(Alone!ApplyRequest, mode, <<>>) = run[0]
  BY <1>1, <1>2, RequestFold!FoldLeftIs
<1> QED
  BY <1>2, <1>3, AfterIsFold

LEMMA AfterOne ==
  ASSUME NEW mode, NEW r
  PROVE  After(mode, <<r>>) = Alone!ApplyRequest(mode, r)
<1> DEFINE next == Alone!ApplyRequest(mode, r)
           run == [m \in 0 .. 1 |-> IF m = 0 THEN mode ELSE next]
           seq == <<r>>
<1> HIDE DEF next
<1>1. DOMAIN seq = 1 .. 1 /\ seq[1] = r /\ 1 \in Nat
  OBVIOUS
<1>2. run[0] = mode /\ run[1] = next /\ DOMAIN run = 0 .. 1
  OBVIOUS
<1> HIDE DEF run, seq
<1>3. RequestFold!IsRun(run, mode, seq, 1)
  BY <1>1, <1>2 DEF RequestFold!IsRun, next
<1>4. RequestFold!FoldLeft(Alone!ApplyRequest, mode, seq) = run[1]
  BY <1>1, <1>3, RequestFold!FoldLeftIs
<1> QED
  BY <1>2, <1>4, AfterIsFold DEF next, seq

LEMMA AfterBoth ==
  ASSUME NEW mode, NEW E, NEW s \in Seq(E), NEW t \in Seq(E)
  PROVE  After(mode, s \o t) = After(After(mode, s), t)
<1>1. RequestFold!FoldLeft(Alone!ApplyRequest, mode, s \o t)
        = RequestFold!FoldLeft(Alone!ApplyRequest, RequestFold!FoldLeft(Alone!ApplyRequest, mode, s), t)
  BY RequestFold!FoldLeftConcatenation
<1> QED
  BY <1>1, AfterIsFold, Zenon

LEMMA AfterOneMore ==
  ASSUME NEW mode, NEW s \in Seq(Alone!StateRequests), NEW r \in Alone!StateRequests
  PROVE  /\ After(mode, s \o <<r>>) = Alone!ApplyRequest(After(mode, s), r)
         /\ After(mode, <<r>> \o s) = After(Alone!ApplyRequest(mode, r), s)
<1> DEFINE t == <<r>>
<1>1. t \in Seq(Alone!StateRequests) /\ \A m : After(m, t) = Alone!ApplyRequest(m, r)
  BY AfterOne
<1> HIDE DEF t
<1>2. After(mode, s \o t) = After(After(mode, s), t) /\ After(mode, t \o s) = After(After(mode, t), s)
  BY <1>1, AfterBoth
<1> QED
  BY <1>1, <1>2 DEF t

Before == IF smPc \in {"init", "boot"} THEN Alone!BootMode ELSE gSystemState

LEMMA SettledIs == Alone!Settled = After(Before, inHand \o xStateRequestQueue)
BY DEF Alone!Settled, After, Before

(* The two modules share the rule and the requests.  *)
LEMMA SameVocabulary ==
  /\ \A mode, r : Alone!Register!ApplyRequest(mode, r) = Alone!ApplyRequest(mode, r)
  /\ Alone!Register!StateRequests = Alone!StateRequests
  /\ Alone!PostedRequests \subseteq Alone!StateRequests
  /\ \A r \in Alone!StateRequests :
        Alone!StateRequest(r.requested_state, r.reason_code) = r
<1> USE DEF Alone!StateRequests, Alone!StateRequest, Alone!SystemStates, Alone!Reasons,
            Alone!BOOT, Alone!NOMINAL, Alone!DEGRADED, Alone!SAFE, Alone!WatchdogTimedOut,
            Alone!SeuThresholdHit, Alone!WatchdogRecovered, Alone!MpuViolations,
            Alone!OperatorCommand
<1>1. \A mode, r : Alone!Register!ApplyRequest(mode, r) = Alone!ApplyRequest(mode, r)
  BY DEF Alone!Register!ApplyRequest, Alone!ApplyRequest, Alone!Register!AllowsRequest,
         Alone!AllowsRequest, Alone!Register!NOMINAL, Alone!Register!DEGRADED,
         Alone!Register!SAFE, Alone!Register!WatchdogRecovered, Alone!Register!OperatorCommand
<1>2. Alone!Register!StateRequests = Alone!StateRequests
  BY DEF Alone!Register!StateRequests, Alone!Register!SystemStates, Alone!Register!Reasons,
         Alone!Register!BOOT, Alone!Register!SAFE, Alone!Register!WatchdogTimedOut,
         Alone!Register!SeuThresholdHit, Alone!Register!WatchdogRecovered,
         Alone!Register!MpuViolations, Alone!Register!OperatorCommand
<1>3. Alone!PostedRequests \subseteq Alone!StateRequests
  BY DEF Alone!PostedRequests
<1>4. \A r \in Alone!StateRequests : Alone!StateRequest(r.requested_state, r.reason_code) = r
  OBVIOUS
<1> QED
  BY <1>1, <1>2, <1>3, <1>4

(* What is in the queue is typed, and there is nothing before it exists.   *)
AloneInv ==
    /\ xStateRequestQueue \in Seq(Alone!StateRequests)
    /\ smPc = "init" => xStateRequestQueue = <<>>
    /\ smPc \in {"init", "boot", "receive", "apply", "policy"}
    /\ IF smPc = "apply" THEN \E r \in Alone!StateRequests : inHand = <<r>> ELSE inHand = <<>>

LEMMA NextSettledIs == Alone!Settled' = After(Before', inHand' \o xStateRequestQueue')
<1>1. (Alone!Settled = After(Before, inHand \o xStateRequestQueue))'
  BY SettledIs, PTL
<1> QED
  BY <1>1 DEF After

(* A request that is accepted takes effect at once.  *)
LEMMA PostTakesEffect ==
  ASSUME AloneInv, Alone!Post
  PROVE  AloneInv' /\ [Alone!Register!Next]_Alone!Register!vars
<1>1. PICK r \in Alone!PostedRequests :
         /\ Alone!RequestChange(r.requested_state, r.reason_code)
         /\ lastPosted' = IF Alone!RequestIsAccepted THEN r ELSE lastPosted
         /\ smPc' = smPc /\ inHand' = inHand /\ Before' = Before
  BY DEF Alone!Post, Before, Alone!BootMode
<1>2. r \in Alone!StateRequests /\ Alone!StateRequest(r.requested_state, r.reason_code) = r
  BY SameVocabulary
<1>3. CASE ~Alone!RequestIsAccepted
  <2>1. xStateRequestQueue' = xStateRequestQueue /\ lastPosted' = lastPosted
    BY <1>1, <1>3 DEF Alone!RequestChange
  <2>2. Alone!Settled' = Alone!Settled
    BY <1>1, <2>1, SettledIs, NextSettledIs
  <2> QED
    BY <1>1, <2>1, <2>2 DEF AloneInv, Alone!Register!vars
<1>4. CASE Alone!RequestIsAccepted
  <2>1. xStateRequestQueue' = Append(xStateRequestQueue, r) /\ lastPosted' = r /\ smPc # "init"
    BY <1>1, <1>2, <1>4 DEF Alone!RequestChange, Alone!RequestIsAccepted
  <2>2. inHand \in Seq(Alone!StateRequests) /\ xStateRequestQueue \in Seq(Alone!StateRequests)
    <3>1. CASE smPc = "apply"
      <4>1. PICK q \in Alone!StateRequests : inHand = <<q>>
        BY <3>1 DEF AloneInv
      <4> QED
        BY <4>1 DEF AloneInv
    <3>2. CASE smPc # "apply"
      BY <3>2 DEF AloneInv
    <3> QED
      BY <3>1, <3>2
  <2> DEFINE requests == inHand \o xStateRequestQueue
  <2>3. /\ inHand' \o xStateRequestQueue' = requests \o <<r>>
        /\ requests \in Seq(Alone!StateRequests) /\ <<r>> \in Seq(Alone!StateRequests)
    BY <1>1, <1>2, <2>1, <2>2
  <2> HIDE DEF requests
  <2>4. Alone!Settled' = After(Before, requests \o <<r>>)
    BY <1>1, <2>3, NextSettledIs
  <2>5. Alone!Settled' = Alone!ApplyRequest(Alone!Settled, r)
    <3>1. After(Before, requests \o <<r>>) = Alone!ApplyRequest(After(Before, requests), r)
      BY <1>2, <2>3, AfterOneMore
    <3> QED
      BY <2>4, <3>1, SettledIs, Zenon DEF requests
  <2>6. Alone!Register!Post(r) /\ r \in Alone!Register!StateRequests
    BY <1>2, <2>1, <2>5, SameVocabulary DEF Alone!Register!Post
  <2>7. AloneInv'
    BY <1>1, <1>2, <2>1, <2>2 DEF AloneInv
  <2> QED
    BY <2>6, <2>7 DEF Alone!Register!Next
<1> QED
  BY <1>3, <1>4

(* The steps of the task change nothing of what was posted.  *)
LEMMA TaskIsInvisible ==
  ASSUME AloneInv, Alone!SmStep
  PROVE  AloneInv' /\ Alone!Settled' = Alone!Settled
<1>1. ASSUME Before' = Before, inHand' \o xStateRequestQueue' = inHand \o xStateRequestQueue
      PROVE  Alone!Settled' = Alone!Settled
  BY <1>1, SettledIs, NextSettledIs
<1>2. CASE Alone!SystemStateInit
  <2>1. /\ smPc = "init" /\ smPc' = "boot" /\ xStateRequestQueue' = xStateRequestQueue
        /\ inHand' = inHand /\ imageOk' = imageOk /\ inHand = <<>>
    BY <1>2 DEF AloneInv, Alone!SystemStateInit
  <2> QED
    BY <1>1, <2>1 DEF AloneInv, Before, Alone!BootMode
<1>3. CASE Alone!Boot
  <2>1. /\ smPc = "boot" /\ smPc' \in {"receive", "policy"} /\ gSystemState' = Alone!BootMode
        /\ xStateRequestQueue' = xStateRequestQueue /\ inHand' = inHand /\ inHand = <<>>
    BY <1>3 DEF AloneInv, Alone!Boot
  <2> QED
    BY <1>1, <2>1 DEF AloneInv, Before
<1>4. CASE Alone!Receive
  <2>1. /\ smPc = "receive" /\ smPc' = "apply" /\ gSystemState' = gSystemState
        /\ xStateRequestQueue # <<>> /\ inHand' = <<Head(xStateRequestQueue)>>
        /\ xStateRequestQueue' = Tail(xStateRequestQueue) /\ inHand = <<>>
        /\ xStateRequestQueue \in Seq(Alone!StateRequests)
    BY <1>4 DEF AloneInv, Alone!Receive
  <2>2. /\ Head(xStateRequestQueue) \in Alone!StateRequests
        /\ Tail(xStateRequestQueue) \in Seq(Alone!StateRequests)
    BY <2>1
  <2>3. inHand' \o xStateRequestQueue' = inHand \o xStateRequestQueue
    BY <2>1, <2>2
  <2>4. Before' = Before
    BY <2>1 DEF Before
  <2>5. AloneInv'
    BY <2>1, <2>2 DEF AloneInv
  <2> QED
    BY <1>1, <2>3, <2>4, <2>5
<1>5. CASE Alone!Apply
  <2>1. PICK r \in Alone!StateRequests : inHand = <<r>>
    BY <1>5 DEF AloneInv, Alone!Apply
  <2>2. /\ smPc = "apply" /\ smPc' \in {"receive", "policy"} /\ inHand' = <<>>
        /\ gSystemState' = Alone!ApplyRequest(gSystemState, r)
        /\ xStateRequestQueue' = xStateRequestQueue
    BY <1>5, <2>1 DEF Alone!Apply
  <2>3. /\ xStateRequestQueue \in Seq(Alone!StateRequests) /\ <<r>> \in Seq(Alone!StateRequests)
        /\ <<>> \o xStateRequestQueue = xStateRequestQueue
    BY DEF AloneInv
  <2>4. Before = gSystemState /\ Before' = gSystemState'
    BY <2>2 DEF Before
  <2>5. Alone!Settled = After(Alone!ApplyRequest(gSystemState, r), xStateRequestQueue)
    <3>1. Alone!Settled = After(gSystemState, <<r>> \o xStateRequestQueue)
      BY <2>1, <2>4, SettledIs
    <3> QED
      BY <2>3, <3>1, AfterOneMore
  <2>6. Alone!Settled' = After(Alone!ApplyRequest(gSystemState, r), xStateRequestQueue)
    BY <2>2, <2>3, <2>4, NextSettledIs
  <2>7. AloneInv'
    BY <2>2 DEF AloneInv
  <2> QED
    BY <2>5, <2>6, <2>7
<1>6. CASE Alone!RunPolicy
  <2>1. /\ smPc = "policy" /\ smPc' = "receive" /\ gSystemState' = gSystemState
        /\ xStateRequestQueue' = xStateRequestQueue /\ inHand' = inHand
    BY <1>6 DEF Alone!RunPolicy
  <2> QED
    BY <1>1, <2>1 DEF AloneInv, Before
<1> QED
  BY <1>2, <1>3, <1>4, <1>5, <1>6 DEF Alone!SmStep

LEMMA AloneStep ==
  ASSUME AloneInv, [Alone!Next]_Alone!vars
  PROVE  AloneInv' /\ [Alone!Register!Next]_Alone!Register!vars
<1>1. CASE Alone!Post
  BY <1>1, PostTakesEffect
<1>2. CASE Alone!Step
  <2>1. AloneInv' /\ Alone!Settled' = Alone!Settled /\ lastPosted' = lastPosted
    BY <1>2, TaskIsInvisible DEF Alone!Step
  <2> QED
    BY <2>1 DEF Alone!Register!vars
<1>3. CASE Alone!Toggle \/ UNCHANGED Alone!vars
  <2>1. /\ smPc' = smPc /\ gSystemState' = gSystemState /\ imageOk' = imageOk
        /\ xStateRequestQueue' = xStateRequestQueue /\ inHand' = inHand
        /\ lastPosted' = lastPosted
    BY <1>3 DEF Alone!Toggle, Alone!vars, Alone!smVars
  <2>2. AloneInv'
    BY <2>1 DEF AloneInv
  <2>3. Before' = Before
    BY <2>1 DEF Before, Alone!BootMode
  <2>4. Alone!Settled' = Alone!Settled
    BY <2>1, <2>3, SettledIs, NextSettledIs
  <2> QED
    BY <2>1, <2>2, <2>4 DEF Alone!Register!vars
<1> QED
  BY <1>1, <1>2, <1>3 DEF Alone!Next

(* Queueing is invisible: whatever the order in which other tasks post and *)
(* however late the task gets to run, every request that was accepted      *)
(* takes effect when it is posted.                                         *)
THEOREM QueueingIsInvisible == Alone!Spec => Alone!ImplementsRegister
<1>1. Alone!Init => AloneInv /\ Alone!Register!Init
  <2> SUFFICES ASSUME Alone!Init
               PROVE  AloneInv /\ Alone!Register!Init
    OBVIOUS
  <2>1. /\ smPc = "init" /\ inHand = <<>> /\ xStateRequestQueue = <<>>
        /\ lastPosted = Alone!StateRequest(Alone!BOOT, Alone!OperatorCommand)
    BY DEF Alone!Init, Alone!SmInit
  <2>2. AloneInv
    BY <2>1 DEF AloneInv
  <2>3. <<>> \o <<>> = <<>>
    OBVIOUS
  <2>4. Alone!Settled = Alone!BootMode
    BY <2>1, <2>3, SettledIs, AfterNone DEF Before
  <2> QED
    BY <2>1, <2>2, <2>4 DEF Alone!Register!Init, Alone!BootMode, Alone!StateRequest,
       Alone!Register!StateRequest, Alone!BOOT, Alone!Register!BOOT, Alone!OperatorCommand,
       Alone!Register!OperatorCommand, Alone!NOMINAL, Alone!Register!NOMINAL,
       Alone!DEGRADED, Alone!Register!DEGRADED
<1>2. AloneInv /\ [Alone!Next]_Alone!vars
          => AloneInv' /\ [Alone!Register!Next]_Alone!Register!vars
  BY AloneStep
<1> QED
  BY <1>1, <1>2, PTL DEF Alone!Spec, Alone!ImplementsRegister, Alone!Register!Spec
=============================================================================
